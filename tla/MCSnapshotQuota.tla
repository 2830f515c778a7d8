--------------------------- MODULE MCSnapshotQuota --------------------------
(* Instances of SnapshotQuota for TLC. *)
EXTENDS SnapshotQuota, TLC

Interchangeable == Permutations(Vmids) \cup Permutations(Workers)
=============================================================================
