------------------------------ MODULE MCSerial -------------------------------
(***************************************************************************)
(* Instances of SerialApproval for TLC.                                    *)
(***************************************************************************)
EXTENDS SerialApproval, TLC

Symmetry == Permutations(NationalIDs)
=============================================================================
