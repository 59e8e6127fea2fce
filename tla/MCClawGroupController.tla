------------------------ MODULE MCClawGroupController ------------------------
(* Small instances of ClawGroupController for TLC. *)
EXTENDS ClawGroupController, TLC

Symmetry == Permutations(Tasks)
=============================================================================
