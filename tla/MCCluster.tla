----------------------------- MODULE MCCluster -------------------------------
(***************************************************************************)
(* Instances of Cluster for TLC.  Nothing compares national IDs but for    *)
(* equality, and nothing tells slaves of one language apart.               *)
(***************************************************************************)
EXTENDS Cluster, TLC

Symmetry ==
    Permutations(NationalIDs) \cup Permutations(GoSlaves) \cup Permutations(PythonSlaves)
=============================================================================
