----------------------------- MODULE MCPointer -----------------------------
(* Four fingers, a mouse with a left and a back button, a wheel with one axis. *)
EXTENDS Pointer, TLC

OneDevice   == {{"mouse"}, {"touch"}}
HalfSteps   == {<<0, 1>>, <<0, -1>>}
Symmetry    == Permutations(Touches)
=============================================================================
