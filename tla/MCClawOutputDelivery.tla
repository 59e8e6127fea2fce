------------------------ MODULE MCClawOutputDelivery ------------------------
(* Small instances of ClawOutputDelivery for TLC. *)
EXTENDS ClawOutputDelivery, TLC

CONSTANTS s1, m1

OneScope == [o \in Origins |-> s1]
OneMessage == [o \in Origins |-> m1]

Symmetry == Permutations(Drains)
=============================================================================
