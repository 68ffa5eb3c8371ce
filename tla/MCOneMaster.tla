---------------------------- MODULE MCOneMaster ------------------------------
(***************************************************************************)
(* Instances of OneMaster for TLC.                                         *)
(***************************************************************************)
EXTENDS OneMaster, TLC
=============================================================================
