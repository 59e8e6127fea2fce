-------------------------- MODULE MCClawInputStore --------------------------
(* Small instances of ClawInputStore for TLC. *)
EXTENDS ClawInputStore, TLC

\* A success, a failure that names its session and one that does not.
FinishOutcomes ==
    {[status |-> "succeeded", response |-> "t", error |-> "", session |-> ""],
     [status |-> "failed", response |-> "", error |-> "t", session |-> "t"],
     [status |-> "interrupted", response |-> "", error |-> "t", session |-> ""]}

Symmetry == Permutations(Scopes) \cup Permutations(Messages)
            \cup Permutations(Payloads) \cup Permutations(Namespaces)
=============================================================================
