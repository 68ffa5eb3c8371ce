----------------------------- MODULE MCFailover ------------------------------
(***************************************************************************)
(* Instances of Failover for TLC: addresses around the master's, Slave3's  *)
(* the closest, Slave1 and Slave2 at the same distance.                    *)
(***************************************************************************)
EXTENDS Failover, TLC

AllOrders == ("Master" :> 0) @@ ("Slave1" :> 1) @@ ("Slave2" :> 2) @@ ("Slave3" :> 3)

AllURLs ==
    LET at(n) == [host |-> <<0, 0, 0, n>>, port |-> 8080]
    IN  ("Master" :> at(4)) @@ ("Slave1" :> at(2)) @@ ("Slave2" :> at(6)) @@ ("Slave3" :> at(5))

MCOrder == [n \in Nodes |-> AllOrders[n]]

MCURL == [n \in Nodes |-> AllURLs[n]]
=============================================================================
