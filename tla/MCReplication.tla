---------------------------- MODULE MCReplication ----------------------------
(***************************************************************************)
(* Instances of Replication for TLC.  There is no symmetry: one property   *)
(* is about liveness.                                                      *)
(***************************************************************************)
EXTENDS Replication, TLC
=============================================================================
