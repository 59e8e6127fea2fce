------------------------- MODULE MCClawInputService -------------------------
(* Small instances of ClawInputService for TLC. *)
EXTENDS ClawInputService, TLC

\* What the consumer ever passes to finish.
ConsumerOutcomes ==
    {Outcome(f, t) : f \in BOOLEAN, t \in Texts}
    \cup {Interruption(t) : t \in Texts}

Symmetry == Permutations(Messages)
=============================================================================
