--------------------------- MODULE MCClusterSync ---------------------------
(* ClusterSync on small instances.  Workers, keys and values are            *)
(* interchangeable in every action and in the safety properties, so the     *)
(* runs that check no liveness may take them up to permutation.             *)
EXTENDS ClusterSync

Interchangeable ==
    Permutations(Worker) \cup Permutations(Key) \cup Permutations(Value)
=============================================================================
