------------------------ MODULE MCCodingInboxStore -------------------------
(***************************************************************************)
(* Small instances of CodingInboxStore.                                    *)
(***************************************************************************)
EXTENDS CodingInboxStore, TLC

Symmetry == Permutations(Messages)
=============================================================================
