--------------------------- MODULE MCVmLifecycle ----------------------------
(* Instances of VmLifecycle for TLC: who launches what, under which vmid.   *)
EXTENDS VmLifecycle, TLC

CONSTANTS w1, w2, u1, u2, v1, v2, v3, l1, l2, l3

(* Two launches of one user, built-in system then ISO, and one of another.  *)
OwnerMC == [l \in Launches |-> IF l = l3 THEN u2 ELSE u1]
OsMC == [l \in Launches |-> IF l = l2 THEN "custom" ELSE "debian"]
OwnerU1 == [l \in Launches |-> u1]
VmidMC == [l \in Launches |-> CASE l = l1 -> v1 [] l = l2 -> v2 [] l = l3 -> v3]

(* Every launch runs the same snapshot, so all of them have the same vmid.  *)
VmidSame == [l \in Launches |-> v1]

(* Launches and workers that no definition above tells apart. *)
Interchangeable == Permutations(Launches) \cup Permutations(Workers)
=============================================================================
