-------------------------- MODULE ClawInputService --------------------------
(***************************************************************************)
(* The consumer of the input journal: class InputService of                *)
(* packages/claw/src/xdog/claw/core/inputs/consumer.py, running on one     *)
(* event loop over the store of ClawInputStore.                            *)
(*                                                                         *)
(* One action is what runs between two suspensions of one coroutine.  The  *)
(* store's lock is released by the coroutine that held it, which then runs *)
(* on without suspending, so a store transaction and the code after it up  *)
(* to the next await are ONE action.  The exceptions are the two places    *)
(* where the transaction runs in a task of its own: the claim, and         *)
(* _settle.  Only one task.cancel() reaches a consumer (request_stop and   *)
(* cancel_input test cancelling()); it is the flag `cancelling', which the *)
(* consumer notices when it next resumes.  A cancelled transaction has     *)
(* either committed (wait_owned) or not started (still at the lock).       *)
(***************************************************************************)
EXTENDS ClawInputTables

CONSTANTS MaxBoots,     \* bound: processes that open the store
          MaxWaits      \* bound: messages some caller waits for

ASSUME BootsAssumption == MaxBoots \in Nat

VARIABLES closing,    \* _closing
          paused,     \* _paused
          signal,     \* _signals: the event is set
          task,       \* _tasks: the consumer coroutine of each scope
          faults,     \* _faults: scopes whose owner is unavailable
          pending,    \* _pending
          active,     \* _active
          calls,      \* submit calls past their checks, at the store
          waiters,    \* one wait() call per message
          settled,    \* _settled_events: terminal receipts published
          lost,       \* history: keys whose submit lost its ACK
          up,         \* scopes activated
          serving,    \* the orchestrator's _inputs is set: callers are let in
          boots       \* processes started

Store == INSTANCE ClawInputStore

processVars == <<closing, paused, up, serving, boots>>
vars == <<open, namespace, inputs, attempts, authorized,
          closing, paused, signal, task, faults, pending, active, calls,
          waiters, settled, lost, up, serving, boots>>

Keys == Scopes \X Messages
KeyOf(i) == <<inputs[i].scope, inputs[i].message>>
RowOf(k) == {i \in DOMAIN inputs : KeyOf(i) = k}
InputOf(a) == attempts[a].seq

\* Where a consumer is suspended.
Points == {"off", "new", "claiming", "claimed", "acquiring", "executing", "concluding", "committing",
           "idle", "settling", "settleCommit", "settled", "ended"}

\* rec: the claimed record (its attempt), 0 for None; scoped: inside the
\* execution scope of the record, the group's lease.
NoTask == [pc |-> "off", rec |-> 0, scoped |-> FALSE, admitted |-> FALSE, failed |-> FALSE,
           cancelling |-> FALSE, op |-> "none", end |-> "none"]

Task == [pc : Points, rec : Nat, scoped : BOOLEAN, admitted : BOOLEAN, failed : BOOLEAN,
         cancelling : BOOLEAN, op : {"none", "reject", "release", "finish"},
         end : {"none", "returned", "cancelled", "raised"}]

At(s, pc) == task[s].pc = pc

-----------------------------------------------------------------------------
(* Shared pieces. *)

\* Mutant of Notified: a sleeping waiter is not woken.
NotifiedReadersOnly(K) ==
    [k \in Keys |-> IF k \in K /\ waiters[k] = "reading" THEN "signalled" ELSE waiters[k]]

\* _notify: every waiter of the keys in K; a waiter still reading its receipt
\* finds its future already set.
Notified(K) ==
    [k \in Keys |->
       IF k \notin K THEN waiters[k]
       ELSE CASE waiters[k] = "waiting" -> "reading"
              [] waiters[k] = "reading" -> "signalled"
              [] OTHER -> waiters[k]]

ScopeKeys(s) == {k \in Keys : k[1] = s}

\* Mutant of WakeSignal: the event is set only for a task that has yet to start.
WakeSignalNew(s) == IF closing \/ s \in faults \/ ~At(s, "off")
                    THEN signal ELSE [signal EXCEPT ![s] = TRUE]

\* wake: what becomes of the signal and of the scope's task.
WakeSignal(s) == IF closing \/ s \in faults THEN signal ELSE [signal EXCEPT ![s] = TRUE]
WakeTask(s) ==
    IF closing \/ s \in faults \/ paused \/ ~At(s, "off")
    THEN task
    ELSE [task EXCEPT ![s] = [NoTask EXCEPT !.pc = "new"]]

\* Mutant of Published: whatever the receipt says.
PublishedAlways(i) == settled \cup {<<i, inputs'[i].attempt, inputs'[i].status>>}

\* _publish_terminal of the receipt of row i, as committed by this step.
Published(i) ==
    IF inputs'[i].status \in Terminal
    THEN settled \cup {<<i, inputs'[i].attempt, inputs'[i].status>>}
    ELSE settled

\* The finally block of _consume; the done callback runs later.
Ended(s, how) == [task EXCEPT ![s] = [NoTask EXCEPT !.pc = "ended", !.end = how,
                                        !.cancelling = task[s].cancelling]]

\* The task goes to _settle.
Settling(s) == [task EXCEPT ![s].pc = "settling"]

\* _consume, after a receipt has been settled: the next claim, or the exit.
NextClaim(s) ==
    IF closing THEN Ended(s, "returned")
    ELSE [task EXCEPT ![s] = [NoTask EXCEPT !.pc = "claiming"]]

-----------------------------------------------------------------------------
(* Callers. *)

\* submit: the checks made before the first await.
Submit(k) ==
    /\ open /\ serving /\ ~closing /\ k[1] \notin faults
    /\ k \notin calls
    /\ calls' = calls \cup {k}
    /\ UNCHANGED <<journal, processVars, signal, task, faults, pending, active, waiters,
                   settled, lost>>

\* submit: enqueue commits, or finds the row; the key is recorded unless the
\* caller was cancelled meanwhile; the scope is woken in any case.
SubmitCommit(k, p, c, acked) ==
    /\ k \in calls
    /\ \/ Store!Enqueue(k[1], k[2], p, c)
       \/ open /\ RowOf(k) # {} /\ UNCHANGED journal
    /\ pending' = IF acked /\ \A i \in RowOf(k)' : inputs'[i].status \notin Terminal
                  THEN pending \cup {k} ELSE pending
    /\ lost' = IF acked THEN lost ELSE lost \cup {k}
    /\ calls' = calls \ {k}
    /\ signal' = WakeSignal(k[1])
    /\ task' = WakeTask(k[1])
    /\ UNCHANGED <<processVars, faults, active, waiters, settled>>

\* submit that commits nothing: the queue is full, the payload differs, the
\* store has closed or the caller was cancelled at the lock.
SubmitRefused(k) ==
    /\ k \in calls
    /\ calls' = calls \ {k}
    /\ signal' = WakeSignal(k[1])
    /\ task' = WakeTask(k[1])
    /\ UNCHANGED <<journal, processVars, faults, pending, active, waiters, settled, lost>>

\* withdraw of an unstarted input.
Withdraw(i) ==
    /\ serving
    /\ Store!Cancel(i)
    /\ pending' = pending \ {KeyOf(i)}
    /\ waiters' = Notified({KeyOf(i)})
    /\ settled' = Published(i)
    /\ UNCHANGED <<processVars, signal, task, faults, active, calls, lost>>

\* wait: the call registers its future before it first reads the receipt.
Wait(k) ==
    /\ open /\ serving
    /\ waiters[k] = "none"
    /\ Cardinality({j \in Keys : waiters[j] # "none"}) < MaxWaits
    /\ RowOf(k) # {}
    /\ waiters' = [waiters EXCEPT ![k] = "reading"]
    /\ UNCHANGED <<journal, processVars, signal, task, faults, pending, active, calls,
                   settled, lost>>

WaitRead(k) ==
    /\ waiters[k] \in {"reading", "signalled"}
    /\ waiters' = [waiters EXCEPT ![k] =
          IF ~open THEN "failed"
          ELSE IF \A i \in RowOf(k) : inputs[i].status \in Terminal THEN "returned"
          ELSE IF k[1] \in faults \/ closing THEN "failed"
          ELSE IF waiters[k] = "signalled" THEN "reading" ELSE "waiting"]
    /\ UNCHANGED <<journal, processVars, signal, task, faults, pending, active, calls,
                   settled, lost>>

\* abort_native_input of an admitted execution: controller.cancel_input.
Abort(s) ==
    /\ open
    /\ task[s].pc \in {"executing", "concluding", "committing"}
    /\ task[s].admitted /\ ~task[s].cancelling
    /\ task' = [task EXCEPT ![s].cancelling = TRUE]
    /\ UNCHANGED <<journal, processVars, signal, faults, pending, active, calls, waiters,
                   settled, lost>>

-----------------------------------------------------------------------------
(* The consumer of one scope. *)

\* First step of _consume.  A task cancelled before it never ran.
ConsumeBegin(s) ==
    /\ At(s, "new")
    /\ IF task[s].cancelling
       THEN task' = Ended(s, "cancelled") /\ UNCHANGED <<signal, active, waiters>>
       ELSE /\ signal' = IF closing THEN signal ELSE [signal EXCEPT ![s] = FALSE]
            /\ task' = NextClaim(s)
            /\ active' = IF closing THEN active \ {s} ELSE active
            /\ waiters' = IF closing THEN Notified(ScopeKeys(s)) ELSE waiters
    /\ UNCHANGED <<journal, processVars, faults, pending, calls, settled, lost>>

\* The claim's own task commits; a cancelled consumer waits for it in _settle.
ClaimCommit(s) ==
    /\ At(s, "claiming")
    /\ \/ Store!Claim(s) /\ task' = [task EXCEPT ![s].pc = "claimed", ![s].rec = Len(attempts')]
       \/ /\ open /\ \A i \in DOMAIN inputs : ~Store!Claimable(s, i)
          /\ task' = [task EXCEPT ![s].pc = "claimed"]
          /\ UNCHANGED journal
    /\ UNCHANGED <<processVars, signal, faults, pending, active, calls, waiters, settled,
                   lost>>

\* The consumer resumes with the claim's result.
ClaimReturn(s) ==
    /\ At(s, "claimed")
    /\ IF task[s].cancelling
       THEN task' = Settling(s) /\ UNCHANGED <<active, waiters>>
       ELSE IF task[s].rec # 0
       THEN /\ task' = [task EXCEPT ![s].pc = "acquiring"]
            /\ active' = active \cup {s}
            /\ UNCHANGED waiters
       ELSE IF closing
       THEN /\ task' = Ended(s, "returned")
            /\ active' = active \ {s}
            /\ waiters' = Notified(ScopeKeys(s))
       ELSE task' = [task EXCEPT ![s].pc = "idle"] /\ UNCHANGED <<active, waiters>>
    /\ UNCHANGED <<journal, processVars, signal, faults, pending, calls, settled, lost>>

\* async with owner: the group's lease is obtained, or the wait for it ends by
\* the cancellation.
AcquireOwner(s) ==
    /\ At(s, "acquiring")
    /\ task' = IF task[s].cancelling THEN Settling(s)
               ELSE [task EXCEPT ![s].pc = "executing", ![s].scoped = TRUE]
    /\ UNCHANGED <<journal, processVars, signal, faults, pending, active, calls, waiters,
                   settled, lost>>

\* signal.wait() returns, or the cancellation ends it with nothing to settle.
IdleResume(s) ==
    /\ At(s, "idle")
    /\ \/ /\ task[s].cancelling
          /\ task' = Ended(s, "cancelled")
          /\ active' = active \ {s}
          /\ waiters' = Notified(ScopeKeys(s))
          /\ UNCHANGED signal
       \/ /\ ~task[s].cancelling /\ signal[s]
          /\ signal' = IF closing THEN signal ELSE [signal EXCEPT ![s] = FALSE]
          /\ task' = NextClaim(s)
          /\ active' = IF closing THEN active \ {s} ELSE active
          /\ waiters' = IF closing THEN Notified(ScopeKeys(s)) ELSE waiters
    /\ UNCHANGED <<journal, processVars, faults, pending, calls, settled, lost>>

\* admit, called by the executor inside its exclusion: start commits.  A
\* cancellation that arrives meanwhile hides the success from the executor.
Admit(s, session) ==
    /\ At(s, "executing") /\ ~task[s].admitted
    /\ Store!Start(task[s].rec, session)
    /\ task' = IF task[s].cancelling THEN Settling(s)
               ELSE [task EXCEPT ![s].admitted = TRUE]
    /\ UNCHANGED <<processVars, signal, faults, pending, active, calls, waiters, settled,
                   lost>>

\* The executor returns an outcome or raises: with admission or without.
ExecutorEnds(s, failed) ==
    /\ At(s, "executing") /\ ~task[s].cancelling
    /\ ~task[s].admitted => failed
    /\ task' = [task EXCEPT ![s].pc = "concluding", ![s].failed = failed]
    /\ UNCHANGED <<journal, processVars, signal, faults, pending, active, calls, waiters,
                   settled, lost>>

\* CancelledError leaves _execute: by this task's cancellation at any await of
\* it, or out of the executor itself.
ExecuteCancelled(s) ==
    /\ \/ task[s].pc \in {"executing", "concluding", "committing"} /\ task[s].cancelling
       \/ At(s, "executing")
    /\ task' = Settling(s)
    /\ UNCHANGED <<journal, processVars, signal, faults, pending, active, calls, waiters,
                   settled, lost>>

\* The receipt is settled: _consume's bookkeeping, then the next claim.
Completed(s) ==
    LET i == InputOf(task[s].rec) IN
    /\ pending' = pending \ {KeyOf(i)}
    /\ active' = active \ {s}
    /\ waiters' = Notified(IF closing THEN ScopeKeys(s) ELSE {KeyOf(i)})
    /\ settled' = Published(i)
    /\ task' = NextClaim(s)

\* _execute reads the receipt back: a withdrawal may have won.
ConcludeGet(s) ==
    /\ At(s, "concluding") /\ ~task[s].cancelling
    /\ UNCHANGED journal
    /\ IF inputs[InputOf(task[s].rec)].status = "cancelled"
       THEN Completed(s)
       ELSE /\ task' = [task EXCEPT ![s].pc = "committing"]
            /\ UNCHANGED <<pending, active, waiters, settled>>
    /\ UNCHANGED <<processVars, signal, faults, calls, lost>>

Outcome(failed, text) ==
    [status |-> IF failed THEN "failed" ELSE "succeeded",
     response |-> IF failed THEN "" ELSE text,
     error |-> IF failed THEN text ELSE "", session |-> ""]

Interruption(text) ==
    [status |-> "interrupted", response |-> "", error |-> text, session |-> ""]

\* finish takes what the consumer passes to it.
ASSUME ConsumerAssumption ==
    \A text \in Texts : {Outcome(TRUE, text), Outcome(FALSE, text), Interruption(text)} \subseteq Outcomes

\* Mutant of Conclude: an execution that was never admitted is finished.
ConcludeUnadmitted(s, text) ==
    LET a == task[s].rec IN
    IF task[s].admitted
    THEN Store!Finish(a, Outcome(task[s].failed, text))
    ELSE /\ Holds(a, "claimed")
         /\ inputs' = [inputs EXCEPT ![InputOf(a)].status = "failed", ![InputOf(a)].error = text]
         /\ attempts' = [attempts EXCEPT ![a].status = "failed", ![a].error = text,
                                         ![a].settledAt = TRUE]
         /\ UNCHANGED <<open, namespace, authorized>>

Conclude(s, text) ==
    IF task[s].admitted
    THEN Store!Finish(task[s].rec, Outcome(task[s].failed, text))
    ELSE Store!Reject(task[s].rec, text)

\* _execute commits the result; cancelled meanwhile, it settles what it wrote.
ConcludeCommit(s, text) ==
    /\ At(s, "committing")
    /\ Conclude(s, text)
    /\ IF task[s].cancelling
       THEN task' = Settling(s) /\ UNCHANGED <<pending, active, waiters, settled>>
       ELSE Completed(s)
    /\ UNCHANGED <<processVars, signal, faults, calls, lost>>

\* The commit is refused: a ValueError that _consume turns into a fault.
ConcludeRefused(s) ==
    /\ At(s, "committing")
    /\ ~Holds(task[s].rec, IF task[s].admitted THEN "running" ELSE "claimed")
    /\ faults' = faults \cup {s}
    /\ task' = Ended(s, "returned")
    /\ active' = active \ {s}
    /\ waiters' = Notified(ScopeKeys(s))
    /\ UNCHANGED <<journal, processVars, signal, pending, calls, settled, lost>>

-----------------------------------------------------------------------------
(* _settle: a cancelled consumer owns the receipt it had claimed. *)

\* What _settle does with the receipt it reads.
SettleOp(status) ==
    CASE status = "claimed" /\ ~closing -> "reject"
      [] status = "claimed" /\ closing -> "release"
      [] status = "running" -> "finish"
      [] OTHER -> "none"

SettleGet(s) ==
    /\ At(s, "settling")
    /\ IF task[s].rec = 0
       THEN /\ task' = Ended(s, "cancelled")
            /\ active' = active \ {s}
            /\ waiters' = Notified(ScopeKeys(s))
       ELSE /\ task' = [task EXCEPT ![s].pc = "settleCommit",
                           ![s].op = SettleOp(inputs[InputOf(task[s].rec)].status)]
            /\ UNCHANGED <<active, waiters>>
    /\ UNCHANGED <<journal, processVars, signal, faults, pending, calls, settled, lost>>

\* The bookkeeping that follows the commit.
SettleKept(s) ==
    LET k == KeyOf(InputOf(task[s].rec)) IN
    /\ pending' = IF closing THEN pending ELSE pending \ {k}
    /\ waiters' = Notified({k})
    /\ task' = [task EXCEPT ![s].pc = "settled"]

SettleCommit(s, text) ==
    /\ At(s, "settleCommit")
    /\ CASE task[s].op = "reject" -> Store!Reject(task[s].rec, text)
         [] task[s].op = "release" -> Store!Release(task[s].rec)
         [] task[s].op = "finish" -> Store!Finish(task[s].rec, Interruption(text))
         [] OTHER -> UNCHANGED journal
    /\ SettleKept(s)
    /\ UNCHANGED <<processVars, signal, faults, active, calls, settled, lost>>

\* The release of a claim that was withdrawn in between is forgiven ...
SettleForgiven(s) ==
    /\ At(s, "settleCommit") /\ task[s].op = "release"
    /\ inputs[InputOf(task[s].rec)].status = "cancelled"
    /\ inputs[InputOf(task[s].rec)].attempt = task[s].rec
    /\ SettleKept(s)
    /\ UNCHANGED <<journal, processVars, signal, faults, active, calls, settled, lost>>

\* ... any other refused commit is a fault: at once when the cancellation hit
\* the execution, in the done callback when it hit the claim or the lease.
SettleRaises(s) ==
    LET i == InputOf(task[s].rec) IN
    /\ At(s, "settleCommit") /\ task[s].op # "none"
    /\ ~Holds(task[s].rec, IF task[s].op = "finish" THEN "running" ELSE "claimed")
    /\ task[s].op = "release" => inputs[i].status # "cancelled" \/ inputs[i].attempt # task[s].rec
    /\ IF task[s].scoped
       THEN task' = Ended(s, "returned") /\ faults' = faults \cup {s}
       ELSE task' = Ended(s, "raised") /\ UNCHANGED faults
    /\ active' = active \ {s}
    /\ waiters' = Notified(ScopeKeys(s))
    /\ UNCHANGED <<journal, processVars, signal, pending, calls, settled, lost>>

\* The settled receipt is read once more and published; the task ends.
SettlePublish(s) ==
    /\ At(s, "settled")
    /\ UNCHANGED journal
    /\ settled' = Published(InputOf(task[s].rec))
    /\ task' = Ended(s, "cancelled")
    /\ active' = active \ {s}
    /\ waiters' = Notified(ScopeKeys(s))
    /\ UNCHANGED <<processVars, signal, faults, pending, calls, lost>>

\* _done, the callback of an ended task.
Done(s) ==
    LET broken == IF task[s].end = "raised" THEN faults \cup {s} ELSE faults
        again == task[s].end = "cancelled" /\ ~closing /\ s \notin broken
    IN
    /\ At(s, "ended")
    /\ faults' = broken
    /\ waiters' = IF task[s].end = "raised" THEN Notified(ScopeKeys(s)) ELSE waiters
    /\ signal' = IF again THEN [signal EXCEPT ![s] = TRUE] ELSE signal
    /\ task' = [task EXCEPT ![s] = IF again /\ ~paused THEN [NoTask EXCEPT !.pc = "new"]
                                   ELSE NoTask]
    /\ UNCHANGED <<journal, processVars, pending, active, calls, settled, lost>>

-----------------------------------------------------------------------------
(* The process. *)

\* _initialize_inputs: open the store ...
Boot ==
    /\ boots < MaxBoots
    /\ Store!Open
    /\ boots' = boots + 1
    /\ closing' = FALSE
    /\ paused' \in BOOLEAN
    /\ up' = {} /\ serving' = FALSE /\ faults' = {} /\ active' = {} /\ calls' = {} /\ settled' = {}
    /\ lost' = {} /\ pending' = {}
    /\ signal' = [s \in Scopes |-> FALSE]
    /\ task' = [s \in Scopes |-> NoTask]
    /\ waiters' = [k \in Keys |-> "none"]

\* ... then activate each scope: bind it and remember its unfinished receipts ...
Activate(s) ==
    /\ ~closing /\ s \notin up
    /\ Store!BindScope(s)
    /\ up' = up \cup {s}
    /\ pending' = pending \cup
          {k \in ScopeKeys(s) : \E i \in RowOf(k) : inputs[i].status \notin Terminal}
    /\ UNCHANGED <<closing, paused, signal, task, faults, active, calls, waiters, settled,
                   lost, serving, boots>>

\* ... and wake them all: from here on the service has callers.
Serve ==
    /\ open /\ ~closing /\ up = Scopes /\ ~serving
    /\ serving' = TRUE
    /\ signal' = [s \in Scopes |-> TRUE]
    /\ task' = IF paused THEN task ELSE [s \in Scopes |-> [NoTask EXCEPT !.pc = "new"]]
    /\ UNCHANGED <<journal, closing, paused, faults, pending, active, calls, waiters,
                   settled, lost, up, boots>>

\* resume: every scope is woken.
Resume ==
    /\ open /\ serving /\ ~closing /\ paused
    /\ paused' = FALSE
    /\ signal' = [s \in Scopes |-> s \notin faults \/ signal[s]]
    /\ task' = [s \in Scopes |-> IF s \notin faults /\ At(s, "off")
                                 THEN [NoTask EXCEPT !.pc = "new"] ELSE task[s]]
    /\ UNCHANGED <<journal, closing, faults, pending, active, calls, waiters, settled,
                   lost, up, serving, boots>>

\* Mutant of RequestStop: only consumers that execute are cancelled.
RequestStopActive ==
    /\ open /\ ~closing
    /\ closing' = TRUE
    /\ task' = [s \in Scopes |-> IF s \in active THEN [task[s] EXCEPT !.cancelling = TRUE]
                                 ELSE task[s]]
    /\ UNCHANGED <<journal, paused, signal, faults, pending, active, calls, waiters,
                   settled, lost, up, serving, boots>>

\* request_stop: no more admission; every live consumer is cancelled once.
RequestStop ==
    /\ open /\ ~closing
    /\ closing' = TRUE
    /\ task' = [s \in Scopes |-> IF task[s].pc \in {"off", "ended"} THEN task[s]
                                 ELSE [task[s] EXCEPT !.cancelling = TRUE]]
    /\ UNCHANGED <<journal, paused, signal, faults, pending, active, calls, waiters,
                   settled, lost, up, serving, boots>>

\* close: joins the consumers, wakes the waiters, releases the store.
CloseService ==
    /\ closing
    /\ \A s \in Scopes : task[s].pc \in {"off", "ended"}
    /\ Store!Close
    /\ waiters' = Notified(Keys)
    /\ UNCHANGED <<processVars, signal, task, faults, pending, active, calls, settled,
                   lost>>

\* The process dies: memory is gone, the database is as committed.
Crash ==
    /\ Store!Close
    /\ closing' = TRUE
    /\ task' = [s \in Scopes |-> NoTask]
    /\ signal' = [s \in Scopes |-> FALSE]
    /\ faults' = {} /\ active' = {} /\ calls' = {} /\ pending' = {} /\ settled' = {} /\ lost' = {}
    /\ up' = {} /\ serving' = FALSE
    /\ waiters' = [k \in Keys |-> "none"]
    /\ UNCHANGED <<paused, boots>>

Init ==
    /\ Store!Init
    /\ closing = TRUE /\ paused = FALSE
    /\ signal = [s \in Scopes |-> FALSE]
    /\ task = [s \in Scopes |-> NoTask]
    /\ faults = {} /\ pending = {} /\ active = {} /\ calls = {} /\ settled = {} /\ lost = {}
    /\ up = {} /\ serving = FALSE
    /\ waiters = [k \in Keys |-> "none"]
    /\ boots = 0

Consume(s) ==
    \/ ConsumeBegin(s) \/ ClaimCommit(s) \/ ClaimReturn(s) \/ AcquireOwner(s) \/ IdleResume(s)
    \/ ConcludeGet(s) \/ \E t \in Texts : ConcludeCommit(s, t)
    \/ ConcludeRefused(s)
    \/ SettleGet(s) \/ \E t \in Texts : SettleCommit(s, t)
    \/ SettleForgiven(s) \/ SettleRaises(s) \/ SettlePublish(s)
    \/ Done(s)

Execute(s) ==
    \/ \E t \in Texts : Admit(s, t)
    \/ \E f \in BOOLEAN : ExecutorEnds(s, f)
    \/ ExecuteCancelled(s)

Next ==
    \/ Boot \/ Serve \/ Resume \/ RequestStop \/ CloseService \/ Crash
    \/ \E s \in Scopes : Activate(s)
    \/ \E k \in Keys : Submit(k) \/ SubmitRefused(k) \/ Wait(k) \/ WaitRead(k)
    \/ \E k \in Keys, p \in Payloads, c \in Capacities, ack \in BOOLEAN :
          SubmitCommit(k, p, c, ack)
    \/ \E i \in DOMAIN inputs : Withdraw(i)
    \/ \E s \in Scopes : Abort(s)
    \/ \E s \in Scopes : Consume(s)
    \/ \E s \in Scopes : Execute(s)

\* The event loop runs every ready coroutine and callback, disk transactions
\* end, an executor ends (its model calls are bounded by timeouts) and a host
\* that deferred its inputs resumes them.
Fairness ==
    /\ \A s \in Scopes : WF_vars(Consume(s)) /\ WF_vars(Execute(s))
    /\ \A k \in Keys : WF_vars(WaitRead(k))
    /\ \A s \in Scopes : WF_vars(Activate(s))
    /\ WF_vars(Serve) /\ WF_vars(Resume)
    /\ WF_vars(CloseService)

Spec == Init /\ [][Next]_vars
FairSpec == Spec /\ Fairness

-----------------------------------------------------------------------------
(* Properties. *)

\* The service's dictionaries and the suspended consumers have their types.
TypeOK ==
    /\ JournalTypeOK
    /\ {closing, paused, serving} \subseteq BOOLEAN
    /\ signal \in [Scopes -> BOOLEAN]
    /\ task \in [Scopes -> Task]
    /\ faults \subseteq Scopes /\ active \subseteq Scopes /\ up \subseteq Scopes
    /\ pending \subseteq Keys /\ calls \subseteq Keys /\ lost \subseteq Keys
    /\ waiters \in [Keys -> {"none", "reading", "signalled", "waiting", "returned", "failed"}]
    /\ boots \in 0..MaxBoots

\* Every step of the service is an operation of the store or leaves it alone.
StoreSpec == Store!Spec

\* In a live process, a row is active only in the hands of its scope's consumer,
\* which holds exactly that attempt.
ActiveIsOwned ==
    open => \A i \in DOMAIN inputs :
        inputs[i].status \in Active => task[inputs[i].scope].rec = inputs[i].attempt

\* has_work: an unfinished input is in _pending unless its submit was cancelled
\* after the commit.  A phantom entry for a finished input exists only until its
\* consumer has done its bookkeeping.
Unfinished(k) == \E i \in RowOf(k) : inputs[i].status \notin Terminal
HasWorkHonest ==
    open /\ ~closing => \A k \in Keys :
        /\ Unfinished(k) /\ k[1] \in up => k \in pending \cup lost
        /\ k \in pending /\ ~Unfinished(k) =>
              task[k[1]].rec # 0 /\ KeyOf(InputOf(task[k[1]].rec)) = k

\* A published terminal event is what the journal says: a cancellation that
\* races a commit never announces another outcome than the durable one.
PublishedIsDurable ==
    \A e \in settled : inputs[e[1]].status = e[3] /\ inputs[e[1]].attempt = e[2]

\* A scope's owner becomes unavailable for one reason only: a withdrawal overtook
\* the reject of its claimed receipt.
Explained(s) == \E i \in DOMAIN inputs : inputs[i].scope = s /\ inputs[i].status = "cancelled"
FaultsExplained == \A s \in faults : Explained(s)

\* The service's memory and its events agree with the journal: no active row
\* without its consumer, no unfinished input that has_work does not see, no
\* announced outcome that is not the durable one, no fault without its cause.
MemoryAgrees == ActiveIsOwned /\ HasWorkHonest /\ PublishedIsDurable /\ FaultsExplained

\* Withdrawing an unstarted input settles that input and nothing else: it does
\* not make the scope's owner unavailable.
WithdrawalNeverFaults == faults = {}

\* An accepted input is settled, as long as the process lives, keeps serving
\* and the scope's owner has not faulted.
AcceptedSettles ==
    \A k \in Keys :
        (open /\ ~closing /\ Unfinished(k)) ~> (~Unfinished(k) \/ closing \/ k[1] \in faults)

\* A caller of wait gets an answer: the receipt or the reason there is none.
WaitAnswered ==
    \A k \in Keys :
        waiters[k] \in {"reading", "signalled", "waiting"} ~> waiters[k] \in {"none", "returned", "failed"}

\* A requested stop ends: every consumer settles its receipt and lets go.
StopEnds == closing ~> ~open
-----------------------------------------------------------------------------
(* The inductive invariant. *)

\* A record v in hand names its scope's row r, under the attempt that was
\* claimed, in a state that only this consumer or a withdrawal changes.
Unstarted == {"claimed", "cancelled"}
RecordFits(s, v, r) ==
    /\ r.scope = s
    /\ v.pc # "settled" => r.attempt = v.rec
    /\ v.pc = "settled" => r.status \notin Active
    /\ v.pc \in {"claimed", "acquiring"} => r.status \in Unstarted
    /\ v.pc \in {"executing", "concluding", "committing"} =>
          IF v.admitted THEN r.status = "running" ELSE r.status \in Unstarted
    /\ v.pc = "settleCommit" =>
          /\ v.op = "finish" => r.status = "running"
          /\ v.op = "none" => r.status \in Terminal
          /\ v.op \in {"reject", "release"} => r.status \in Unstarted

\* Where a consumer has no record, where it has one, and where it has not been
\* admitted.
TaskShape(v) ==
    /\ v.pc \in {"off", "new", "claiming", "idle", "ended"} => v.rec = 0
    /\ v.pc \in {"acquiring", "executing", "concluding", "committing", "settleCommit", "settled"}
          => v.rec # 0
    /\ v.pc \in {"new", "claiming", "claimed", "acquiring", "idle"} => ~v.admitted

TaskInv(s) ==
    /\ TaskShape(task[s])
    /\ task[s].rec \in DOMAIN attempts \cup {0}
    /\ task[s].rec # 0 => RecordFits(s, task[s], inputs[InputOf(task[s].rec)])
    /\ task[s].op = "release" => closing
    /\ task[s].end = "raised" => Explained(s)

\* A message id names one row of its scope.
UniqueKeys == \A i, j \in DOMAIN inputs : KeyOf(i) = KeyOf(j) => i = j

\* _pending: a phantom entry is a record in hand that nobody withdrew and that
\* _settle has not dealt with.
Phantom(k) ==
    /\ task[k[1]].rec # 0 /\ task[k[1]].pc # "settled"
    /\ KeyOf(InputOf(task[k[1]].rec)) = k
    /\ inputs[InputOf(task[k[1]].rec)].status # "cancelled"
WorkSeen ==
    open /\ ~closing =>
        /\ \A i \in DOMAIN inputs :
              inputs[i].status \notin Terminal /\ inputs[i].scope \in up => KeyOf(i) \in pending \cup lost
        /\ \A k \in pending : Unfinished(k) \/ Phantom(k)

SettledTrue ==
    \A e \in settled :
        /\ e[1] \in DOMAIN inputs /\ e[3] \in Terminal
        /\ inputs[e[1]].status = e[3] /\ inputs[e[1]].attempt = e[2]

\* Nobody calls and nothing runs before the service serves.
NotServing == ~serving => calls = {} /\ \A s \in Scopes : At(s, "off")

IInv ==
    /\ TypeOK /\ JournalInv
    /\ \A s \in Scopes : TaskInv(s)
    /\ UniqueKeys /\ ActiveIsOwned /\ WorkSeen /\ SettledTrue /\ FaultsExplained /\ NotServing
=============================================================================
