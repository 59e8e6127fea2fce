------------------------- MODULE MCClawInputProgress ------------------------
(***************************************************************************)
(* ClawInputService for the liveness properties.  A behaviour is one       *)
(* process with two inputs and nobody who waits, or two processes with one *)
(* input and somebody who waits for it.                                    *)
(***************************************************************************)
EXTENDS MCClawInputService

CONSTANT m1

VARIABLE several    \* what there are two of

Within ==
    /\ several' = several
    /\ several = "inputs"    => boots' <= 1 /\ waiters' = waiters
    /\ several = "processes" => calls' \subseteq Scopes \X {m1}

ProgressInit == Init /\ several \in {"inputs", "processes"}
ProgressNext == Next /\ Within

ProgressSpec ==
    /\ ProgressInit /\ [][ProgressNext]_<<vars, several>>
    /\ Fairness
=============================================================================
