----------------------------- MODULE MCFrontEnd -----------------------------
(* Handlers of clicks, and snapshots, differ in their names only. *)
EXTENDS FrontEnd, TLC

Symmetry == Permutations(Clicks) \cup Permutations(Snapshots)
=============================================================================
