--------------------------- MODULE WorkLifecycle ---------------------------
(***************************************************************************)
(* What a durable inbox promises about one piece of work, whatever files   *)
(* or tables keep it and however often its processes die.  Work that was   *)
(* accepted is not forgotten; work whose execution has begun ends settled  *)
(* or interrupted and is never silently queued again; only an explicit     *)
(* retry of interrupted work leads to another execution.                   *)
(***************************************************************************)
CONSTANT Work

VARIABLE stage

Stages == {"absent", "queued", "held", "executing", "settled", "interrupted"}

\* What one step may do to one piece of work.
Moves == {<<"absent", "queued">>,        \* accepted
          <<"queued", "held">>,          \* claimed by an owner
          <<"held", "queued">>,          \* given back before it began
          <<"held", "executing">>,       \* begun
          <<"queued", "settled">>,       \* withdrawn
          <<"held", "settled">>,         \* withdrawn, or failed to begin
          <<"executing", "settled">>,
          <<"executing", "interrupted">>,
          <<"interrupted", "queued">>}   \* retried

Init == stage = [w \in Work |-> "absent"]

Next ==
    /\ stage' \in [Work -> Stages]
    /\ \A w \in Work : stage'[w] # stage[w] => <<stage[w], stage'[w]>> \in Moves

Spec == Init /\ [][Next]_stage

=============================================================================
