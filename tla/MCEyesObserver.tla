--------------------------- MODULE MCEyesObserver ---------------------------
(* EyesObserver on small instances. *)
EXTENDS EyesObserver

TwoRoutes == {1, 2}
SecondSafe == {2}

\* Two disturbances, crashes or controls of the owner; after the second one only
\* with events that fit.
Within ==
    /\ crashes' + controls' <= 2
    /\ crashes' + controls' = 2 => Range(intake') \cap Oversized = {}

TwoDisturbances == Init /\ [][Next /\ Within]_vars /\ Fairness
=============================================================================
