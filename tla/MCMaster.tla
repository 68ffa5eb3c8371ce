------------------------------ MODULE MCMaster ------------------------------
(***************************************************************************)
(* Instances of Master for TLC.  Calls and national IDs are interchangeable*)
(* in the definitions checked, which makes them symmetric.                 *)
(***************************************************************************)
EXTENDS Master, TLC

Symmetry == Permutations(Calls) \cup Permutations(NationalIDs)
=============================================================================
