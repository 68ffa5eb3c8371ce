----------------------------- MODULE MCElection ------------------------------
(***************************************************************************)
(* ElectionViews over all placements of four nodes on a few hosts and all  *)
(* pairs of views.  Slave2 may be configured with the main master's port,  *)
(* so that on its machine it has its URL.                                  *)
(***************************************************************************)
EXTENDS ElectionViews, TLC

MCOrder == ("Master" :> 0) @@ ("Slave1" :> 1) @@ ("Slave2" :> 2) @@ ("Slave3" :> 3)

MCHosts == {Localhost, OtherName, <<0, 0, 0, 2>>, <<127, 0, 0, 0>>, <<127, 0, 0, 2>>}

MCPlacements ==
    {[n \in Nodes |-> [host |-> hosts[n],
                       port |-> CASE n = MainMaster -> 8080
                                  [] n = "Slave2"   -> port
                                  [] OTHER          -> 8081]] :
        hosts \in [Nodes -> MCHosts], port \in {8080, 8081}}
=============================================================================
