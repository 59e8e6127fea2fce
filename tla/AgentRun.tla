------------------------------ MODULE AgentRun ------------------------------
(***************************************************************************)
(* One Agent and its runs: packages/agent/src/xdog/agent/agent.py, the     *)
(* loop it drives (agent_loop.py) and the bounded stream the loop writes   *)
(* its events to (event_stream.py).                                        *)
(*                                                                         *)
(* A run is one task, the producer.  It admits input to the history, asks  *)
(* the model, executes the tool calls of the reply and starts over, until  *)
(* there is nothing left to do or it is cancelled.  The producer, the      *)
(* tools of a parallel batch, the host and cancel_and_wait share an event  *)
(* loop: the others move only while the producer is suspended (Yielded).   *)
(* abort() may be called from another thread at any time.                  *)
(*                                                                         *)
(* Every await of a hook, of the model and of a tool may end in any of its *)
(* outcomes.  A send suspends the producer only when the stream is full.   *)
(***************************************************************************)
EXTENDS Integers, Sequences, FiniteSets, Functions

CONSTANTS Identified,   \* inputs queued with queue_input
          Plain,        \* inputs queued with steer or follow_up
          Prompt,       \* the message of a prompt
          NoInput,
          Buffer,       \* event_buffer_size, in events of this model
          MaxRuns,      \* bound: runs
          MaxCalls,     \* bound: tool calls in a reply
          MaxReplies    \* bound: replies that call tools

ASSUME ConstantsAssumption ==
    /\ Buffer \in Nat \ {0} /\ MaxRuns \in Nat /\ MaxCalls \in Nat /\ MaxReplies \in Nat
    /\ Identified \cap Plain = {} /\ Prompt \notin Identified \cup Plain
    /\ NoInput \notin Identified \cup Plain \cup {Prompt}

Inputs == Identified \cup Plain
Texts == Inputs \cup {Prompt}
Deliveries == {"steer", "follow_up"}
Calls == (1..MaxReplies) \X (1..MaxCalls)

VARIABLES history,      \* state.messages
          context,      \* current_context.messages, the loop's own copy
          queue,        \* _steering_queue and _follow_up_queue
          ident,        \* _identified_inputs: absent, queued or selected
          held,         \* history: who answers for an input, host or agent, or nobody
          unconfirmed,  \* _unconfirmed_tools
          tool,         \* the calls of the current reply
          entered,      \* history: calls whose tool was entered
          run,          \* the producer task and its local variables
          hook,         \* whether an input transform is installed
          buf,          \* events in the stream
          sending,      \* the producer waits for room in the stream
          cancel,       \* _cancel
          posted,       \* abort callbacks on their way to the loop, by their token
          aborted,      \* history: the runs for which an abort was asked
          open,         \* open, closing or closed
          cw            \* the calls of cancel_and_wait, the host's and aclose's

log == <<history, context>>
inputs == <<queue, ident, held, hook>>
tools == <<unconfirmed, tool, entered>>
wire == <<buf, sending>>
stops == <<cancel, posted, aborted>>
callers == <<open, cw>>
vars == <<log, inputs, tools, run, wire, stops, callers>>

User(m) == [kind |-> "user", input |-> m, reply |-> 0, index |-> 0, sure |-> TRUE]
Reply(r, n) == [kind |-> "reply", input |-> NoInput, reply |-> r, index |-> n, sure |-> TRUE]
Result(c, sure) == [kind |-> "result", input |-> NoInput, reply |-> c[1], index |-> c[2], sure |-> sure]
Failure == [kind |-> "error", input |-> NoInput, reply |-> 0, index |-> 0, sure |-> TRUE]

Spoken(ms) == [k \in DOMAIN ms |-> User(ms[k])]

\* No producer: the task is done, or there was none.
NoRun == [no |-> 0, replies |-> 0, pc |-> "off", mode |-> "parallel", from |-> "prompt", stage |-> "initial",
          batch |-> <<>>, todo |-> <<>>, ready |-> <<>>, skip |-> FALSE, more |-> TRUE, refused |-> FALSE,
          calls |-> 0, i |-> 0, gathering |-> FALSE, error |-> "none", asked |-> FALSE, hit |-> FALSE]

NoTools == [i \in 1..MaxCalls |-> "none"]

Init ==
    /\ history = <<>> /\ context = <<>>
    /\ queue = [d \in Deliveries |-> <<>>]
    /\ ident = [m \in Identified |-> "free"]
    /\ held = [m \in Inputs |-> "host"] /\ hook \in BOOLEAN
    /\ unconfirmed = {} /\ tool = NoTools /\ entered = {}
    /\ run = NoRun
    /\ buf = 0 /\ sending = FALSE
    /\ cancel = FALSE /\ posted = {} /\ aborted = {}
    /\ open = "open" /\ cw = [p \in {"host", "close"} |-> [pc |-> "idle", no |-> 0]]

-----------------------------------------------------------------------------
(* What the agent knows. *)

\* A list without the members that are in S.  (SelectSeq, as the provers can unfold it.)
Without(q, S) ==
    LET kept[n \in 0..Len(q)] ==
            IF n = 0 THEN <<>> ELSE IF q[n] \in S THEN kept[n - 1] ELSE Append(kept[n - 1], q[n])
    IN  kept[Len(q)]

Admitted == {history[k].input : k \in DOMAIN history}
Results == {<<history[k].reply, history[k].index>> : k \in {j \in DOMAIN history : history[j].kind = "result"}}
Requested == UNION {{history[k].reply} \X (1..history[k].index) :
                        k \in {j \in DOMAIN history : history[j].kind = "reply"}}

\* _unfinished_tools: calls without a result, and those that were not confirmed.
Unfinished == (Requested \ Results) \cup unconfirmed

\* pending_inputs: queued identified inputs, and those a run has taken.
Pending == {m \in Identified : \/ \E d \in Deliveries : m \in Range(queue[d])
                               \/ ident[m] = "selected"}

Active == run.pc # "off"

\* The points at which the producer awaits something that may suspend it.
Awaits == {"new", "transform", "admit", "compose", "stream", "before", "execute", "after", "reap"}
Yielded ==
    \/ ~Active \/ sending \/ run.pc \in Awaits
    \/ run.pc = "settle" /\ Head(run.ready) \in Identified
    \/ run.pc = "collect" /\ tool[run.i] \in {"ready", "running"}

\* The producer goes on: it is neither blocked nor hit by a cancellation.
At(pc) == run.pc = pc /\ ~sending /\ ~run.hit

To(pc) == run' = [run EXCEPT !.pc = pc]

\* AgentEventStream.send: at once when there is room.
Send == /\ buf' = IF buf < Buffer THEN buf + 1 ELSE buf
        /\ sending' = (buf >= Buffer)

\* The part of _run_and_wrap after the loop: an error is recorded unless input was refused,
\* the abort target is withdrawn, the stream closed and the agent idle again.
Finish(error) ==
    /\ history' = IF error = "failed" /\ ~run.refused THEN Append(history, Failure) ELSE history
    /\ context' = <<>>
    /\ run' = [NoRun EXCEPT !.no = run.no, !.replies = run.replies]
    /\ tool' = NoTools
    /\ buf' = 0 /\ sending' = FALSE
    /\ UNCHANGED <<inputs, unconfirmed, entered, stops, callers>>

\* An exception leaves the loop; the tools of a parallel batch are settled first.
Unwind(error) ==
    IF run.gathering
    THEN /\ run' = [run EXCEPT !.pc = "reap", !.error = error, !.hit = FALSE]
         /\ sending' = FALSE
         /\ UNCHANGED <<log, inputs, tools, buf, stops, callers>>
    ELSE Finish(error)

-----------------------------------------------------------------------------
(* Input: from a queue, through the transform, into the history. *)

\* Mutant of Selected: what a run takes is not marked.
SelectedNot(ms) == ident

\* _select_inputs
Selected(ms) == [m \in Identified |-> IF m \in Range(ms) THEN "selected" ELSE ident[m]]

\* _dequeue_steering, _dequeue_follow_ups: the whole queue or its first message.
Batches(d) == {SubSeq(queue[d], 1, n) : n \in {1, Len(queue[d])} \cap (1..Len(queue[d]))}

Dequeue(d, ms) ==
    /\ queue' = [queue EXCEPT ![d] = SubSeq(@, Len(ms) + 1, Len(@))]
    /\ ident' = Selected(ms)

\* The producer takes the next messages of a queue to prepare them.
Take(d, stage) ==
    \E ms \in Batches(d) :
        /\ Dequeue(d, ms)
        /\ run' = [run EXCEPT !.pc = "prepare", !.from = d, !.stage = stage,
                              !.batch = ms, !.todo = ms, !.ready = <<>>]
        /\ UNCHANGED <<log, held, hook, tools, wire, stops, callers>>

FirstStep ==
    /\ At("new")
    /\ To(IF run.from = "continue" THEN "poll" ELSE "prepare")
    /\ UNCHANGED <<log, inputs, tools, wire, stops, callers>>

\* _prepare_inputs fails: every refusal is announced.
Reject(error) ==
    /\ run' = [run EXCEPT !.pc = "reject", !.refused = TRUE, !.error = error, !.todo = run.batch, !.hit = FALSE]
    /\ sending' = FALSE
    /\ UNCHANGED <<log, inputs, tools, buf, stops, callers>>

\* Without a transform there is nothing to wait for.
Prepare ==
    /\ At("prepare") /\ run.todo # <<>>
    /\ \/ /\ ~hook
          /\ run' = [run EXCEPT !.todo = <<>>, !.ready = run.todo]
          /\ UNCHANGED <<log, inputs, tools, wire, stops, callers>>
       \/ hook /\ cancel /\ Reject("cancelled")
       \/ /\ hook /\ ~cancel /\ To("transform")
          /\ UNCHANGED <<log, inputs, tools, wire, stops, callers>>

Transformed ==
    /\ At("transform")
    /\ run' = [run EXCEPT !.pc = "prepare", !.todo = Tail(@), !.ready = Append(@, Head(run.todo))]
    /\ UNCHANGED <<log, inputs, tools, wire, stops, callers>>

\* HandledInput: the message never reaches the history.
Handled ==
    /\ At("transform")
    /\ LET m == Head(run.todo) IN
         /\ ident' = [i \in Identified |-> IF i = m THEN "free" ELSE ident[i]]
         /\ held' = [i \in Inputs |-> IF i = m THEN "nobody" ELSE held[i]]
         /\ run' = [run EXCEPT !.pc = "prepare", !.todo = Tail(@),
                               !.batch = Without(@, {m})]
    /\ Send
    /\ UNCHANGED <<log, queue, hook, tools, stops, callers>>

TransformFails ==
    /\ At("transform")
    /\ \/ Reject("failed")
       \/ cancel /\ Reject("cancelled")

Refusal ==
    /\ At("reject")
    /\ IF run.todo = <<>> THEN Unwind(run.error)
       ELSE /\ run' = [run EXCEPT !.todo = Tail(@)]
            /\ Send
            /\ UNCHANGED <<log, inputs, tools, stops, callers>>

\* Everything is prepared.  A run whose own input was all handled takes the next of a queue.
Prepared ==
    /\ At("prepare") /\ run.todo = <<>>
    /\ CASE run.stage = "initial" /\ run.ready # <<>> ->
              /\ context' = history \o Spoken(run.ready)
              /\ To("inject")
              /\ UNCHANGED <<history, inputs, tools, wire, stops, callers>>
         [] run.stage = "initial" /\ run.ready = <<>> ->
              LET d == IF queue["steer"] # <<>> THEN "steer" ELSE "follow_up" IN
              IF queue[d] = <<>> THEN Finish("none")
              ELSE \E ms \in Batches(d) :
                     /\ Dequeue(d, ms)
                     /\ run' = [run EXCEPT !.from = d, !.batch = ms, !.todo = ms, !.skip = TRUE]
                     /\ UNCHANGED <<log, held, hook, tools, wire, stops, callers>>
         [] run.stage = "follow_up" /\ run.ready = <<>> -> Finish("none")
         [] OTHER ->
              /\ run' = [run EXCEPT !.pc = "top", !.more = @ \/ run.stage = "follow_up"]
              /\ UNCHANGED <<log, inputs, tools, wire, stops, callers>>

\* The messages are admitted one by one, before the model is asked.
Inject ==
    /\ At("inject")
    /\ To(IF run.ready # <<>> THEN "admit" ELSE IF run.stage = "initial" THEN "poll" ELSE "compose")
    /\ UNCHANGED <<log, inputs, tools, wire, stops, callers>>

\* settled_event after its checkpoint: the message is in the history and no longer queued.
\* The loop appends to its own copy when the event has been sent; nothing reads it between.
Admit ==
    /\ At("admit")
    /\ LET m == Head(run.ready) IN
         /\ history' = Append(history, User(m))
         /\ context' = IF run.stage = "initial" THEN context ELSE Append(context, User(m))
         /\ ident' = [i \in Identified |-> IF i = m THEN "free" ELSE ident[i]]
    /\ To("settle") /\ Send
    /\ UNCHANGED <<queue, held, hook, tools, stops, callers>>

AdmitFails == At("admit") /\ Unwind("failed")

\* input_settled: the host saves what is still pending.
Settle ==
    /\ At("settle")
    /\ run' = [run EXCEPT !.pc = "inject", !.ready = Tail(@)]
    /\ UNCHANGED <<log, inputs, tools, wire, stops, callers>>

SettleFails == At("settle") /\ Head(run.ready) \in Identified /\ Unwind("failed")

-----------------------------------------------------------------------------
(* The loop. *)

\* Steering is polled at the start and after every turn.
Poll ==
    /\ At("poll")
    /\ IF run.skip \/ queue["steer"] = <<>>
       THEN /\ run' = [run EXCEPT !.pc = "top", !.stage = "poll", !.skip = FALSE, !.ready = <<>>]
            /\ UNCHANGED <<log, inputs, tools, wire, stops, callers>>
       ELSE Take("steer", "poll")

Top ==
    /\ At("top")
    /\ IF ~run.more /\ run.ready = <<>> THEN To("follow")
       ELSE IF cancel THEN To("end") ELSE To("inject")
    /\ UNCHANGED <<log, inputs, tools, wire, stops, callers>>

\* The agent would stop here: follow-ups keep it going.
Follow ==
    /\ At("follow")
    /\ IF cancel \/ queue["follow_up"] = <<>>
       THEN To("end") /\ UNCHANGED <<log, inputs, tools, wire, stops, callers>>
       ELSE Take("follow_up", "follow_up")

End == At("end") /\ Finish("none")

\* The request is composed and, unless the run was aborted meanwhile, sent.
Compose ==
    /\ At("compose")
    /\ IF cancel THEN Unwind("cancelled")
       ELSE To("stream") /\ UNCHANGED <<log, inputs, tools, wire, stops, callers>>

\* The model answers with calls, without, or with a message that says it failed.
Answer(n, failed) ==
    /\ At("stream")
    /\ n > 0 => run.replies < MaxReplies
    /\ LET r == IF n > 0 THEN run.replies + 1 ELSE run.replies IN
         /\ history' = Append(history, Reply(r, n))
         /\ context' = Append(context, Reply(r, n))
         /\ run' = [run EXCEPT !.pc = IF failed THEN "turn" ELSE "reply", !.calls = n, !.replies = r,
                               !.error = IF failed THEN "stopped" ELSE "none"]
    /\ tool' = NoTools
    /\ Send
    /\ UNCHANGED <<inputs, unconfirmed, entered, stops, callers>>

\* Composing or streaming fails, or the loop sees the abort between two events.
StreamFails ==
    /\ At("compose") \/ At("stream")
    /\ \/ Unwind("failed")
       \/ run.pc = "stream" /\ cancel /\ Unwind("cancelled")

ReplyRead ==
    /\ At("reply")
    /\ run' = [run EXCEPT !.pc = IF run.calls = 0 THEN "turn" ELSE "tool", !.i = 1]
    /\ UNCHANGED <<log, inputs, tools, wire, stops, callers>>

\* TurnEndEvent; a reply that failed ends the run, with the abort also the turn does.
Turn ==
    /\ At("turn")
    /\ run' = [run EXCEPT !.pc = "turned", !.gathering = FALSE]
    /\ Send
    /\ UNCHANGED <<log, inputs, tools, stops, callers>>

Turned ==
    /\ At("turned")
    /\ run' = [run EXCEPT !.pc = IF cancel \/ run.error = "stopped" THEN "end" ELSE "poll",
                          !.more = run.calls > 0]
    /\ UNCHANGED <<log, inputs, tools, wire, stops, callers>>

-----------------------------------------------------------------------------
(* Tool calls: started and prepared in order; executed one at a time or together; finished *)
(* in order.                                                                               *)

Call(i) == <<run.replies, i>>
Note(i, status) == tool' = [tool EXCEPT ![i] = status]

\* Once all are prepared, a parallel batch starts the tools as tasks of their own.
AfterPreparing ==
    IF run.mode = "sequential" THEN [run EXCEPT !.pc = "ready", !.hit = FALSE]
    ELSE IF run.i < run.calls THEN [run EXCEPT !.pc = "tool", !.i = @ + 1, !.hit = FALSE]
    ELSE [run EXCEPT !.pc = "collect", !.i = 1, !.gathering = TRUE, !.hit = FALSE]

ToolStart ==
    /\ At("tool")
    /\ unconfirmed' = unconfirmed \cup {Call(run.i)}
    /\ To("gate") /\ Send
    /\ UNCHANGED <<log, inputs, tool, entered, stops, callers>>

\* After an abort the remaining calls are answered without being prepared.
Gate ==
    /\ At("gate")
    /\ IF cancel THEN Note(run.i, "denied") /\ run' = AfterPreparing
       ELSE To("before") /\ UNCHANGED tool
    /\ UNCHANGED <<log, inputs, unconfirmed, entered, wire, stops, callers>>

\* _prepare_tool_call: unknown tools, bad arguments and the hook's veto are answered at once.
Before(status) ==
    /\ At("before") /\ status \in {"ready", "denied"}
    /\ Note(run.i, status) /\ run' = AfterPreparing
    /\ UNCHANGED <<log, inputs, unconfirmed, entered, wire, stops, callers>>

\* The guard may still refuse; otherwise the tool is entered.
Enter(i, status) ==
    /\ tool[i] = "ready" /\ status \in {"running", "done"}
    /\ Note(i, status)
    /\ entered' = IF status = "running" THEN entered \cup {Call(i)} ELSE entered

\* Sequential: the producer executes the tool itself.
Ready ==
    /\ At("ready")
    /\ \/ Enter(run.i, "running") /\ To("execute")
       \/ Enter(run.i, "done") /\ To("after")
       \/ tool[run.i] = "denied" /\ To("outcome") /\ UNCHANGED <<tool, entered>>
    /\ UNCHANGED <<log, inputs, unconfirmed, wire, stops, callers>>

\* A tool that is told to stop reports an interruption, or finishes all the same.
Ends(i, stopping) ==
    /\ tool[i] = "running"
    /\ \/ Note(i, "done")
       \/ stopping /\ Note(i, "interrupted")

Execute ==
    /\ At("execute")
    /\ Ends(run.i, cancel)
    /\ To("after")
    /\ UNCHANGED <<log, inputs, unconfirmed, entered, wire, stops, callers>>

\* Parallel: the results are taken in the order of the reply.
Collect ==
    /\ At("collect") /\ ~Yielded
    /\ To(IF tool[run.i] = "denied" THEN "outcome" ELSE "after")
    /\ UNCHANGED <<log, inputs, tools, wire, stops, callers>>

\* after_tool_call
After ==
    /\ At("after")
    /\ \/ To("outcome") /\ UNCHANGED <<log, inputs, tools, wire, stops, callers>>
       \/ Unwind("failed")

\* Mutant of Confirmed: an interrupted call counts as answered.
ConfirmedAlways(i) == unconfirmed \ {Call(i)}

\* ToolExecutionEndEvent: an interrupted call stays unconfirmed.
Confirmed(i) == IF tool[i] = "interrupted" THEN unconfirmed ELSE unconfirmed \ {Call(i)}

Outcome ==
    /\ At("outcome")
    /\ unconfirmed' = Confirmed(run.i)
    /\ To("result") /\ Send
    /\ UNCHANGED <<log, inputs, tool, entered, stops, callers>>

\* The result message.  The loop's copy gets the results when the batch is complete; nothing
\* reads it before.
ToolResult ==
    /\ At("result")
    /\ LET message == Result(Call(run.i), tool[run.i] # "interrupted") IN
         /\ history' = Append(history, message)
         /\ context' = Append(context, message)
    /\ run' = IF run.i = run.calls THEN [run EXCEPT !.pc = "turn"]
              ELSE [run EXCEPT !.pc = IF run.gathering THEN "collect" ELSE "tool", !.i = @ + 1]
    /\ Send
    /\ UNCHANGED <<inputs, tools, stops, callers>>

\* The tasks of a parallel batch.  One that is cancelled before it started never enters its
\* tool.
Task(i) ==
    /\ run.gathering /\ Yielded
    /\ \/ run.pc # "reap" /\ \E status \in {"running", "done"} : Enter(i, status)
       \/ tool[i] = "ready" /\ run.pc = "reap" /\ Note(i, "done") /\ UNCHANGED entered
       \/ Ends(i, cancel \/ run.pc = "reap") /\ UNCHANGED entered
    /\ UNCHANGED <<log, inputs, unconfirmed, run, wire, stops, callers>>

\* The batch owns every tool it started.
Reap ==
    /\ At("reap")
    /\ \A i \in 1..MaxCalls : tool[i] \notin {"ready", "running"}
    /\ Finish(run.error)

-----------------------------------------------------------------------------
(* Cancellation and the stream. *)

\* task.cancel() takes effect where the producer is suspended.  The hooks around a tool and
\* the tool turn it into an answer and the run goes on; elsewhere, in the validation of the
\* arguments too, it ends the run.  A task that has not taken its
\* first step is gone, without the clauses that make the agent idle.
Throw ==
    /\ run.hit
    /\ CASE run.pc = "transform" \/ (sending /\ run.pc = "prepare") -> Reject("cancelled")
         [] ~sending /\ run.pc = "before" ->
              \/ /\ Note(run.i, "denied") /\ run' = AfterPreparing
                 /\ UNCHANGED <<log, inputs, unconfirmed, entered, wire, stops, callers>>
              \/ Unwind("cancelled")
         [] ~sending /\ run.pc \in {"execute", "after"} ->
              /\ Note(run.i, "interrupted")
              /\ run' = [run EXCEPT !.pc = IF @ = "execute" THEN "after" ELSE "outcome", !.hit = FALSE]
              /\ UNCHANGED <<log, inputs, unconfirmed, entered, wire, stops, callers>>
         [] ~sending /\ run.pc = "reap" ->
              /\ run' = [run EXCEPT !.hit = FALSE]
              /\ UNCHANGED <<log, inputs, tools, wire, stops, callers>>
         [] run.pc = "new" ->
              /\ run' = [run EXCEPT !.pc = "dead", !.hit = FALSE]
              /\ UNCHANGED <<log, inputs, tools, wire, stops, callers>>
         [] OTHER -> Unwind("cancelled")

\* A blocked send goes through when there is room again.
Sent ==
    /\ sending /\ ~run.hit /\ buf < Buffer
    /\ Send
    /\ UNCHANGED <<log, inputs, tools, run, stops, callers>>

\* The consumer of the stream takes an event.
Read ==
    /\ Yielded /\ buf > 0
    /\ buf' = buf - 1
    /\ UNCHANGED <<log, inputs, tools, run, sending, stops, callers>>

\* abort() from another thread: it notes the run that is active and posts a callback.  Where
\* it falls between two suspensions of the producer makes no difference.
Abort ==
    /\ Yielded /\ Active /\ run.no \notin aborted
    /\ posted' = posted \cup {run.no} /\ aborted' = aborted \cup {run.no}
    /\ UNCHANGED <<log, inputs, tools, run, wire, cancel, callers>>

\* Mutant of Aborts: whatever run is active.
AbortsAny(t) == TRUE

\* _cancel_current: an abort is for the run it was asked for.
Aborts(t) == t = run.no

AbortArrives(t) ==
    /\ t \in posted /\ Yielded
    /\ posted' = posted \ {t}
    /\ cancel' = (cancel \/ Aborts(t))
    /\ UNCHANGED <<log, inputs, tools, run, wire, aborted, callers>>

-----------------------------------------------------------------------------
(* The host. *)

\* Mutant of Reconciled: nobody looks.
ReconciledOrNot == TRUE

\* No tool call is without an answer.
Reconciled == Unfinished = {}

\* _run_loop: not while a run is active, nor while the effect of a tool is uncertain.
Begin(ms, from, skip) ==
    /\ run.no < MaxRuns /\ open = "open" /\ ~Active /\ Reconciled
    /\ \E mode \in {"sequential", "parallel"} :
         run' = [NoRun EXCEPT !.no = run.no + 1, !.replies = run.replies, !.pc = "new", !.mode = mode,
                              !.from = from, !.batch = ms, !.todo = ms, !.skip = skip]
    /\ context' = history /\ cancel' = FALSE
    /\ UNCHANGED <<history, held, hook, tools, wire, posted, aborted, callers>>

StartPrompt == Begin(<<Prompt>>, "prompt", FALSE) /\ UNCHANGED <<queue, ident>>

FromAssistant == history # <<>> /\ history[Len(history)].kind \in {"reply", "error"}

\* continue_: after an assistant message it needs queued input, and takes it first.
Continue ==
    /\ open = "open" /\ ~Active /\ history # <<>>
    /\ IF FromAssistant
       THEN LET d == IF queue["steer"] # <<>> THEN "steer" ELSE "follow_up" IN
            \E ms \in Batches(d) :
                /\ Dequeue(d, ms)
                /\ \/ Begin(ms, d, d = "steer")
                   \/ /\ ~Reconciled
                      /\ UNCHANGED <<log, held, hook, tools, run, wire, stops, callers>>
       ELSE Begin(<<>>, "continue", FALSE) /\ UNCHANGED <<queue, ident>>

\* steer, follow_up, queue_input
Queue(m, d) ==
    /\ Yielded /\ open = "open" /\ held[m] = "host"
    /\ queue' = [queue EXCEPT ![d] = Append(@, m)]
    /\ ident' = [i \in Identified |-> IF i = m THEN "queued" ELSE ident[i]]
    /\ held' = [held EXCEPT ![m] = "agent"]
    /\ UNCHANGED <<log, hook, tools, run, wire, stops, callers>>

\* change_input: only while it is queued.
Remove(m) ==
    /\ Yielded /\ ident[m] = "queued"
    /\ queue' = [d \in Deliveries |-> Without(queue[d], {m})]
    /\ ident' = [ident EXCEPT ![m] = "free"] /\ held' = [held EXCEPT ![m] = "host"]
    /\ UNCHANGED <<log, hook, tools, run, wire, stops, callers>>

\* drain_inputs, which hosts call when a run has settled: what is pending goes back to them.
Drain ==
    /\ ~Active /\ Pending # {}
    /\ queue' = [d \in Deliveries |-> Without(queue[d], Pending)]
    /\ ident' = [m \in Identified |-> IF m \in Pending THEN "free" ELSE ident[m]]
    /\ held' = [m \in Inputs |-> IF m \in Pending THEN "host" ELSE held[m]]
    /\ UNCHANGED <<log, hook, tools, run, wire, stops, callers>>

\* clear_all_queues: nobody wants the input any more.
Cleared ==
    /\ queue' = [d \in Deliveries |-> <<>>]
    /\ ident' = [m \in Identified |-> "free"]
    /\ held' = [m \in Inputs |-> IF held[m] = "agent" THEN "nobody" ELSE held[m]]

\* AgentSession.cancel: clear_all_queues and abort.
Discard ==
    /\ Yielded /\ Active /\ Cleared
    /\ cancel' = TRUE /\ aborted' = aborted \cup {run.no}
    /\ UNCHANGED <<log, hook, tools, run, wire, posted, callers>>

\* The host reconciles uncertain tools and puts a history it has checked in place.
Reconcile ==
    /\ ~Active /\ Unfinished # {}
    /\ history' = Without(history, {message \in Range(history) : message.kind # "user"})
    /\ unconfirmed' = {} /\ entered' = {}
    /\ UNCHANGED <<context, inputs, tool, run, wire, stops, callers>>

-----------------------------------------------------------------------------
(* cancel_and_wait and aclose. *)

Over(no) == run.no # no \/ run.pc \in {"off", "dead"}

CancelAndWait ==
    /\ Yielded /\ Active /\ cw["host"].pc = "idle"
    /\ cw' = [cw EXCEPT !["host"] = [pc |-> "starting", no |-> run.no]]
    /\ UNCHANGED <<log, inputs, tools, run, wire, stops, open>>

\* aclose closes the admission before it yields.
Close ==
    /\ Yielded /\ open = "open"
    /\ open' = "closing"
    /\ cw' = [cw EXCEPT !["close"] = [pc |-> "starting", no |-> run.no]]
    /\ cancel' = (cancel \/ Active)
    /\ aborted' = IF Active THEN aborted \cup {run.no} ELSE aborted
    /\ UNCHANGED <<log, inputs, tools, run, wire, posted>>

\* Mutant of Startable: a task may be cancelled before its first step.
StartableAtOnce(p) == TRUE

\* _producer_started
Startable(p) == Over(cw[p].no) \/ run.pc # "new"

\* The run is aborted and its task cancelled, once.
CancelStarts(p) ==
    /\ Yielded /\ cw[p].pc = "starting" /\ Startable(p)
    /\ cw' = [cw EXCEPT ![p].pc = "joining"]
    /\ IF Over(cw[p].no) THEN UNCHANGED <<cancel, aborted, run>>
       ELSE /\ cancel' = TRUE /\ aborted' = aborted \cup {run.no}
            /\ run' = [run EXCEPT !.asked = TRUE, !.hit = @ \/ ~run.asked]
    /\ UNCHANGED <<log, inputs, tools, wire, posted, open>>

CancelJoined(p) ==
    /\ Yielded /\ cw[p].pc = "joining" /\ Over(cw[p].no)
    /\ cw' = [cw EXCEPT ![p].pc = "idle"]
    /\ IF p = "close" THEN Cleared /\ open' = "closed" ELSE UNCHANGED <<queue, ident, held, open>>
    /\ UNCHANGED <<log, hook, tools, run, wire, stops>>

-----------------------------------------------------------------------------

Producer ==
    \/ FirstStep \/ Prepare \/ Transformed \/ Handled \/ TransformFails \/ Refusal \/ Prepared
    \/ Inject \/ Admit \/ AdmitFails \/ Settle \/ SettleFails
    \/ Poll \/ Top \/ Follow \/ End \/ Compose \/ StreamFails
    \/ \E n \in 0..MaxCalls, failed \in BOOLEAN : Answer(n, failed)
    \/ ReplyRead \/ Turn \/ Turned
    \/ ToolStart \/ Gate \/ Ready \/ Execute \/ Collect \/ After \/ Outcome \/ ToolResult \/ Reap
    \/ \E status \in {"ready", "denied"} : Before(status)
    \/ Throw \/ Sent

Tasks == \E i \in 1..MaxCalls : Task(i)

Host ==
    \/ StartPrompt \/ Continue \/ Drain \/ Discard \/ Reconcile
    \/ \E m \in Inputs, d \in Deliveries : Queue(m, d)
    \/ \E m \in Identified : Remove(m)
    \/ CancelAndWait \/ Close \/ Abort

Cancellers == \E p \in {"host", "close"} : CancelStarts(p) \/ CancelJoined(p)

Next ==
    \/ Producer \/ Tasks \/ Host \/ Cancellers \/ Read
    \/ \E t \in 1..MaxRuns : AbortArrives(t)

Spec == Init /\ [][Next]_vars

\* The event loop runs what is due, and hooks, the model and tools end.
Fairness ==
    /\ WF_vars(Producer) /\ WF_vars(Tasks)
    /\ \A p \in {"host", "close"} : WF_vars(CancelStarts(p)) /\ WF_vars(CancelJoined(p))

\* Nobody has to read the events.
UnreadSpec == Spec /\ Fairness

\* The consumer reads them.
FairSpec == UnreadSpec /\ WF_vars(Read)

-----------------------------------------------------------------------------
(* Properties. *)

\* The history is typed, the stream never holds more than its size, and the queues hold inputs.
TypeOK ==
    /\ \A k \in DOMAIN history : history[k].input \in Inputs \cup {Prompt, NoInput}
    /\ \A d \in Deliveries : Range(queue[d]) \subseteq Inputs
    /\ ident \in [Identified -> {"free", "queued", "selected"}]
    /\ held \in [Inputs -> {"host", "agent", "nobody"}]
    /\ unconfirmed \subseteq Calls /\ entered \subseteq Calls
    /\ buf \in 0..Buffer /\ sending \in BOOLEAN /\ cancel \in BOOLEAN
    /\ posted \subseteq 1..MaxRuns /\ aborted \subseteq 1..MaxRuns
    /\ open \in {"open", "closing", "closed"}

\* The model is asked only with what the agent has recorded, the loop's copy of the history
\* and the agent's agree, and never while a tool call of that history has no settled answer.
RequestsSettled == run.pc = "stream" => context = history /\ Unfinished = {}

\* A tool that was entered has a result that came from the tool, or the agent still counts the
\* call as unfinished and refuses another run: whatever hook failed, whichever await the
\* cancellation hit, in a sequential and in a parallel batch.
EffectsHeld ==
    \A c \in entered :
        \/ c \in Unfinished
        \/ \E k \in DOMAIN history : history[k] = Result(c, TRUE)

\* An identified input the agent accepted is in the history or pending, never both, never
\* neither, while the transform, the checkpoint or the abort fails at any point; and what went
\* back to the host is not left in a queue.
InputsAccounted ==
    \A m \in Identified :
        /\ held[m] = "agent" => (m \in Admitted <=> m \notin Pending)
        /\ held[m] = "host" => m \notin Admitted \cup Pending

\* A run sees an abort only if one was asked for while it was active: a callback that arrives
\* late never stops the successor.
AbortHitsItsRun == cancel => run.no \in aborted

\* cancel_and_wait and aclose return, and leave no run that will never be idle again.
CancelSettles ==
    \A p \in {"host", "close"} :
        cw[p].pc # "idle" ~> cw[p].pc = "idle" /\ run.pc # "dead"

\* Whoever closes the agent gets it closed: "Owned shutdown, independent of event consumption".
CloseUnread == open = "closing" ~> open = "closed"

\* "The next tool-execution checkpoint will pick up this message and skip remaining tool
\* calls": a sequential batch enters no further tool once steering is queued.
SteerSkips ==
    [][queue["steer"] # <<>> /\ run.mode = "sequential" /\ run.i > 1 => entered' = entered]_vars

-----------------------------------------------------------------------------
(* An inductive invariant: what the four safety properties rest on. *)

Message == [kind : {"user", "reply", "result", "error"}, input : Texts \cup {NoInput},
            reply : Nat, index : Nat, sure : BOOLEAN]

\* Where the producer is: it may ask the model next, it executes the calls of a reply.
Asking == {"new", "prepare", "transform", "inject", "admit", "settle", "poll", "top", "follow",
           "compose", "stream"}
Calling == {"tool", "gate", "before", "ready", "execute", "collect", "after", "outcome", "result"}
Ending == {"off", "dead", "reap", "reject", "end"}

Run == [no : Nat, replies : Nat, pc : Asking \cup {"reply"} \cup Calling \cup {"turn", "turned"} \cup Ending,
        mode : {"sequential", "parallel"}, from : {"prompt", "continue"} \cup Deliveries,
        stage : {"initial", "poll", "follow_up"}, batch : Seq(Texts), todo : Seq(Texts), ready : Seq(Texts),
        skip : BOOLEAN, more : BOOLEAN, refused : BOOLEAN, calls : 0..MaxCalls, i : Nat,
        gathering : BOOLEAN, error : {"none", "failed", "cancelled", "stopped"}, asked : BOOLEAN, hit : BOOLEAN]

Typed ==
    /\ history \in Seq(Message) /\ context \in Seq(Message)
    /\ queue \in [Deliveries -> Seq(Inputs)]
    /\ ident \in [Identified -> {"free", "queued", "selected"}]
    /\ held \in [Inputs -> {"host", "agent", "nobody"}] /\ hook \in BOOLEAN
    /\ tool \in [1..MaxCalls -> {"none", "ready", "denied", "running", "done", "interrupted"}]
    /\ run \in Run
    /\ cancel \in BOOLEAN /\ sending \in BOOLEAN

\* An abort under way, and a cancellation thrown, was asked for.
StopsAsked ==
    /\ posted \subseteq aborted
    /\ cancel => run.no \in aborted
    /\ run.hit => cancel

\* The steps of a batch: prepared in order, then executed and concluded in order.
BatchShape ==
    /\ run.pc \in Calling => run.i \in 1..run.calls
    /\ run.gathering => run.pc \in {"collect", "after", "outcome", "result", "turn", "reap"}
    /\ run.pc = "collect" => run.gathering
    /\ run.pc \in {"ready", "execute"} => run.mode = "sequential"
    /\ run.pc \in {"after", "outcome", "result"} =>
          (run.gathering \/ run.mode = "sequential") /\ tool[run.i] \notin {"ready", "running"}
    /\ run.pc = "off" => tool = NoTools /\ run.ready = <<>> /\ run.todo = <<>>

\* The calls of the current reply that have no result, and those announced and not concluded.
Open ==
    IF run.pc = "reply" \/ (run.mode = "parallel" /\ ~run.gathering) THEN 1..run.calls ELSE run.i..run.calls
Started ==
    IF run.gathering THEN (IF run.pc = "result" THEN run.i + 1 ELSE run.i)..run.calls
    ELSE IF run.mode = "parallel" THEN 1..(IF run.pc = "tool" THEN run.i - 1 ELSE run.i)
    ELSE IF run.pc \in {"tool", "result"} THEN {} ELSE {run.i}
OpenCalls == {run.replies} \X Open

\* A tool that may be at work, or was interrupted, is unconfirmed.
CallsHeld ==
    /\ \A j \in 1..MaxCalls : tool[j] \in {"ready", "running", "interrupted"} => Call(j) \in unconfirmed
    /\ run.pc \in Calling => \A j \in Started : Call(j) \in unconfirmed
    /\ (\E j \in 1..MaxCalls : tool[j] = "interrupted") => cancel \/ run.pc = "reap"

\* Which calls are open where; after an interruption the run asks nothing more.
CallsAnswered ==
    /\ \A c \in Results : c[1] <= run.replies
    /\ run.pc \in Asking => Requested \ Results = {} /\ unconfirmed = {}
    /\ run.pc \in Calling \cup {"reply"} =>
          /\ Requested \ Results = OpenCalls
          /\ cancel \/ unconfirmed \subseteq OpenCalls \ (IF run.pc = "result" THEN {Call(run.i)} ELSE {})
    /\ run.pc \in {"turn", "turned"} /\ run.error # "stopped" =>
          Requested \ Results = {} /\ (cancel \/ unconfirmed = {})

\* The loop's copy is the history, but for the messages a run starts with.
CopyAgrees ==
    /\ run.pc \in (Asking \ {"inject", "admit", "settle"}) \cup {"reply"} \cup Calling \cup {"turn", "turned"} =>
          context = history
    /\ run.pc \in {"inject", "admit", "settle"} =>
          context = IF run.stage # "initial" THEN history
                    ELSE history \o Spoken(IF run.pc = "settle" THEN Tail(run.ready) ELSE run.ready)
    /\ run.pc \in {"admit", "settle"} => run.ready # <<>>
    /\ run.pc = "transform" => run.todo # <<>>
    /\ run.pc = "top" => run.stage # "initial"

\* An identified input is listed once.
Distinct(ms) == \A j, k \in DOMAIN ms : ms[j] = ms[k] /\ ms[j] \in Identified => j = k

\* The messages a run has taken and not admitted.
Loaded == IF run.pc = "settle" THEN Tail(run.ready) ELSE run.ready
InFlight == Range(Loaded) \cup Range(run.todo)

QueuesDistinct ==
    /\ \A d \in Deliveries : Distinct(queue[d])
    /\ Range(queue["steer"]) \cap Range(queue["follow_up"]) \cap Identified = {}

Accounts ==
    \A m \in Identified :
        /\ ident[m] = "queued" <=> \E d \in Deliveries : m \in Range(queue[d])
        /\ ident[m] # "free" => held[m] = "agent" /\ m \notin Admitted
        /\ held[m] = "agent" /\ ident[m] = "free" => m \in Admitted
        /\ held[m] = "host" => m \notin Admitted

OnlyUsersInput == \A k \in DOMAIN history : history[k].kind # "user" => history[k].input = NoInput

Taken ==
    run.pc # "reject" =>
        /\ Distinct(Loaded) /\ Distinct(run.todo)
        /\ Range(Loaded) \cap Range(run.todo) \cap Identified = {}
        /\ \A m \in InFlight \cap Identified : held[m] # "host" /\ (held[m] = "agent" => ident[m] = "selected")

InputsHeld == QueuesDistinct /\ Accounts /\ OnlyUsersInput /\ Taken

IInv ==
    /\ Typed /\ StopsAsked /\ BatchShape /\ CallsHeld /\ CallsAnswered /\ EffectsHeld
    /\ CopyAgrees /\ InputsHeld

=============================================================================
