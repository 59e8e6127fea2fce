--------------------------- MODULE MCCodingInbox ----------------------------
(***************************************************************************)
(* Small instances of CodingInbox.                                         *)
(***************************************************************************)
EXTENDS CodingInbox

Symmetry == Permutations(Messages)
=============================================================================
