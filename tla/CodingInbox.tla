---------------------------- MODULE CodingInbox -----------------------------
(***************************************************************************)
(* The owner of a coding session and its durable inbox: InboxCoordinator   *)
(* (packages/coding/src/xdog/coding/core/sessions/inbox_runtime.py) and    *)
(* SessionController (controller.py), which share one event loop.          *)
(*                                                                         *)
(* The controller runs one task at a time: a control, here the one that    *)
(* claims pending messages and hands them to the controller as jobs, or a  *)
(* batch, which executes the jobs together.  Operator withdrawals, peers   *)
(* that cancel or disconnect, and the jobs' own admissions and settlements *)
(* are coroutines beside it.  Every write of the inbox happens in a worker *)
(* thread: its owner decides, is suspended, and goes on after the write,   *)
(* while the others move.                                                  *)
(*                                                                         *)
(* An inbox call is one step here; CodingInboxStore has its files.         *)
(***************************************************************************)
EXTENDS Integers, Sequences, SequencesExt, FiniteSets, FiniteSetsExt

CONSTANTS Messages,       \* durable messages, each of a peer of its own
          MaxPerTurn,     \* max_messages_per_turn
          MaxClaims       \* bound: claims of all messages

ASSUME ConstantsAssumption == MaxPerTurn \in Nat \ {0} /\ MaxClaims \in Nat

\* The request of a message's n-th claim.
Requests == Messages \X (1..MaxClaims)

VARIABLES rows,        \* the inbox: status, current attempt, attempts so far, whether
                       \* the row names a batch
          bindings,    \* _bindings: the requests whose row the coordinator holds
          tickets,     \* _tickets: the last attempt handed to the controller, or 0
          withdrawn,   \* _withdrawals that are set
          revoked,     \* messages of peers that have disconnected
          jobs,        \* where the job of a request is
          order,       \* _jobs: the requests in the order of their admission
          marked,      \* jobs with cancelled set
          admissions,  \* _admissions: requests whose _accept task has not ended
          active,      \* the task _active
          op,          \* the withdrawal of each message that is under way
          broken,      \* _broken
          life,        \* the owner's shutdown
          ran          \* history: how often a message was given to the model

memory == <<bindings, tickets, withdrawn, revoked>>
work == <<jobs, order, marked, admissions>>
vars == <<rows, memory, work, active, op, broken, life, ran>>

Idle == [kind |-> "none", pc |-> "none", of |-> "none", members |-> {}, todo |-> {}, wait |-> {},
         cancelling |-> FALSE, hit |-> FALSE, outcome |-> "cancelled"]

NoOp == [pc |-> "idle", ticket |-> 0, already |-> FALSE]

Init ==
    /\ rows = [m \in Messages |-> [status |-> "absent", attempt |-> 0, tries |-> 0, batch |-> FALSE]]
    /\ bindings = {} /\ tickets = [m \in Messages |-> 0] /\ withdrawn = {} /\ revoked = {}
    /\ jobs = [r \in Requests |-> "none"] /\ order = <<>> /\ marked = {} /\ admissions = {}
    /\ active = Idle
    /\ op = [m \in Messages |-> NoOp]
    /\ broken = FALSE /\ life = "live"
    /\ ran = [m \in Messages |-> 0]

-----------------------------------------------------------------------------
(* The inbox's calls. *)

Held(r) == rows[r[1]].status \in {"claimed", "running"} /\ rows[r[1]].attempt = r[2]
Claim(row) == [row EXCEPT !.status = "claimed", !.attempt = row.tries + 1, !.tries = @ + 1]
Release(row) == [row EXCEPT !.status = "pending", !.attempt = 0, !.batch = FALSE]
Start(row) == [row EXCEPT !.status = "running", !.batch = TRUE]

\* Mutant of FinishRow: a cancelled execution is put back, begun or not.
FinishRowRequeues(row, status, inBatch) ==
    IF status = "cancelled" THEN Release(row)
    ELSE [row EXCEPT !.status = status, !.batch = inBatch]

\* finish: a claim that is cancelled before it began is pending again.
FinishRow(row, status, inBatch) ==
    IF row.status = "claimed" /\ status = "cancelled" THEN Release(row)
    ELSE [row EXCEPT !.status = status, !.batch = inBatch]

\* cancel_pending: what did not begin is withdrawn.
Withdrawable(row) ==
    row.status \in {"pending", "claimed"} \/ (row.status = "cancelled" /\ ~row.batch)

\* _recover(retiring).
RetireRow(row) ==
    CASE row.status = "claimed" -> Release(row)
      [] row.status = "running" -> [row EXCEPT !.status = "interrupted"]
      [] OTHER -> row

-----------------------------------------------------------------------------
(* The controller. *)

InJobs(r) == jobs[r] \in {"queued", "writing", "settling", "batch"}
InActive(r) == active.kind = "batch" /\ r \in active.members
Finishing(r) == jobs[r] \in {"writing", "settling"}

\* A task that was cancelled before its first step never runs.
Dead == active.pc = "new" /\ active.cancelling

\* _context.
Context == life = "live" /\ ~broken

\* _finish of a job outside a batch: its binding is read now, its row written later.
FinishBegins(r) == jobs' = [jobs EXCEPT ![r] = IF r \in bindings THEN "writing" ELSE "settling"]

\* Task.cancel, once: before a task's first step, at an await, or in the midst of
\* a cleanup or settlement.
CancelTask ==
    active' = IF active.cancelling \/ active.kind = "none" THEN active
              ELSE [active EXCEPT !.cancelling = TRUE,
                        !.hit = active.pc \in {"cleanup", "write"}]

\* cancel: the run() of controller.cancel and of one job of disconnect.  The loop
\* runs what is posted in order: an _accept that was posted before has started.
Started(r) == r \in Requests => jobs[r] # "spawned"
Cancel(r) ==
    CASE InJobs(r) /\ InActive(r) ->
            /\ IF Cardinality(active.members) > 1 THEN UNCHANGED active ELSE CancelTask
            /\ UNCHANGED <<jobs, marked>>
      [] InJobs(r) /\ ~InActive(r) /\ ~Finishing(r) -> FinishBegins(r) /\ UNCHANGED <<active, marked>>
      [] jobs[r] = "saving" -> marked' = marked \cup {r} /\ UNCHANGED <<jobs, active>>
      [] OTHER -> UNCHANGED <<jobs, active, marked>>

\* enqueue: a prompt or a callback, whether the owner lives or not.
Enqueue(m) ==
    /\ rows[m].status = "absent"
    /\ rows' = [rows EXCEPT ![m].status = "pending"]
    /\ UNCHANGED <<memory, work, active, op, broken, life, ran>>

\* _pump when nothing is active and no admission is under way.
MayPump == life = "live" /\ active = Idle /\ admissions = {}

\* _pump, controls first: an admission asked for by a prompt of m, which a
\* withdrawal of m cancels, or by the watcher.  One that would find nothing
\* pending is left out.
PumpControl(m) ==
    /\ MayPump /\ \E x \in Messages : rows[x].status = "pending"
    /\ active' = [Idle EXCEPT !.kind = "control", !.pc = "new", !.of = m]
    /\ UNCHANGED <<rows, memory, work, op, broken, life, ran>>

\* _pump: the first n jobs that wait; limits on bytes, tokens and images may narrow
\* them.
Waiting(i) == {r \in Requests : jobs[r] = "queued" /\ r \in ToSet(SubSeq(order, 1, i))}
PumpBatch(n) ==
    /\ MayPump
    /\ \E i \in DOMAIN order :
          /\ Cardinality(Waiting(i)) = n
          /\ active' = [Idle EXCEPT !.kind = "batch", !.pc = "new", !.members = Waiting(i)]
          /\ jobs' = [r \in Requests |-> IF r \in Waiting(i) THEN "batch" ELSE jobs[r]]
    /\ UNCHANGED <<rows, memory, order, marked, admissions, op, broken, life, ran>>

-----------------------------------------------------------------------------
(* _admit_pending, in a control.  members: the requests claimed; todo: the  *)
(* tickets still to be cancelled by the cleanup.                            *)

Control(pc) == active.kind = "control" /\ active.pc = pc
Ends == active' = Idle

\* The capacity that is left, and the rows to claim: those read, which may have
\* changed when they are claimed.  (Which of them is a matter of their sequence.)
Available == MaxPerTurn - Len(order) - Cardinality(admissions)
ControlReads ==
    /\ Control("new") /\ ~active.cancelling
    /\ LET pending == {m \in Messages : rows[m].status = "pending"}
           bounded == Cardinality(pending) + MapThenSumSet(LAMBDA m : rows[m].tries, Messages) <= MaxClaims
       IN  IF Context /\ Available > 0 /\ pending # {} /\ bounded
           THEN \E S \in SUBSET pending :
                   /\ S # {} /\ Cardinality(S) <= Available
                   /\ S = pending \/ Cardinality(S) = Available
                   /\ active' = [active EXCEPT !.pc = "reserve", !.todo = S]
           ELSE Ends
    /\ UNCHANGED <<rows, memory, work, op, broken, life, ran>>

\* reserve, in its worker: nothing at all is claimed when a row has changed.
Reserve ==
    /\ Control("reserve")
    /\ LET ok == \A m \in active.todo : rows[m].status = "pending"
           claimed == IF ok THEN active.todo ELSE {}
       IN  /\ rows' = [m \in Messages |-> IF m \in claimed THEN Claim(rows[m]) ELSE rows[m]]
           /\ active' = [active EXCEPT !.pc = "reserved", !.todo = {},
                             !.members = {<<m, rows[m].tries + 1>> : m \in claimed},
                             !.outcome = IF ok THEN "claimed" ELSE "refused"]
    /\ UNCHANGED <<memory, work, op, broken, life, ran>>

\* The claims that become jobs.
Handed == {r \in active.members : r[1] \notin withdrawn}

\* The cleanup cancels every ticket handed out and then releases the claims.
CleanUp(todo) ==
    IF active.members = {} THEN Idle ELSE [active EXCEPT !.pc = "cleanup", !.todo = todo, !.hit = FALSE]

\* Every claim that was not withdrawn meanwhile is bound and submitted.
Handoff ==
    /\ Control("reserved")
    /\ IF active.cancelling \/ ~Context \/ active.outcome = "refused"
       THEN active' = CleanUp({}) /\ UNCHANGED <<bindings, tickets, jobs, admissions>>
       ELSE /\ bindings' = bindings \cup Handed
            /\ tickets' = [m \in Messages |->
                             IF <<m, rows[m].tries>> \in Handed THEN rows[m].tries ELSE tickets[m]]
            /\ jobs' = [r \in Requests |-> IF r \in Handed THEN "spawned" ELSE jobs[r]]
            /\ admissions' = admissions \cup Handed
            /\ active' = [active EXCEPT !.pc = "accepts", !.todo = Handed]
    /\ UNCHANGED <<rows, withdrawn, revoked, order, marked, op, broken, life, ran>>

\* The tickets are accepted, or one was refused or the control is cancelled.
Accepted ==
    /\ Control("accepts")
    /\ \/ /\ active.cancelling \/ (\E r \in active.todo : jobs[r] = "refused")
          /\ active' = CleanUp(active.todo)
       \/ /\ ~active.cancelling
          /\ \A r \in active.todo : InJobs(r) \/ jobs[r] = "none"
          /\ IF Context THEN Ends ELSE active' = CleanUp(active.todo)
    /\ UNCHANGED <<rows, memory, work, op, broken, life, ran>>

\* cancel(ticket, wait) of one ticket after the other.
CleanupTicket(r) ==
    /\ Control("cleanup") /\ ~active.hit /\ active.wait = {} /\ r \in active.todo /\ Started(r)
    /\ IF r \in bindings /\ (jobs[r] = "saving" \/ (InJobs(r) /\ ~Finishing(r)))
       THEN /\ IF jobs[r] = "saving"
               THEN marked' = marked \cup {r} /\ UNCHANGED jobs
               ELSE FinishBegins(r) /\ UNCHANGED marked
            /\ active' = [active EXCEPT !.todo = @ \ {r}, !.wait = {r}]
       ELSE /\ active' = [active EXCEPT !.todo = @ \ {r}]
            /\ UNCHANGED <<jobs, marked>>
    /\ UNCHANGED <<rows, memory, order, admissions, op, broken, life, ran>>

CleanupJoined ==
    /\ Control("cleanup") /\ ~active.hit
    /\ active.wait # {} /\ \A r \in active.wait : jobs[r] = "none"
    /\ active' = [active EXCEPT !.wait = {}]
    /\ UNCHANGED <<rows, memory, work, op, broken, life, ran>>

\* Mutant of Released: what was handed out is left to the tickets' cancellation.
ReleasedUnhanded == {}

\* release_unstarted: the claims that are still this control's.
Released == {r \in active.members : Held(r) /\ rows[r[1]].status = "claimed"}

\* release_unstarted, and the end of the cleanup.  A cancellation in the midst of
\* it breaks the owner: before the release, the claims stay.
CleanupEnds ==
    /\ Control("cleanup")
    /\ active.hit \/ (active.todo = {} /\ active.wait = {})
    /\ rows' = IF active.todo # {} \/ active.wait # {} THEN rows
               ELSE [m \in Messages |-> IF \E r \in Released : r[1] = m THEN Release(rows[m]) ELSE rows[m]]
    /\ broken' = (broken \/ active.hit)
    /\ bindings' = bindings \ active.members
    /\ tickets' = [m \in Messages |-> IF <<m, tickets[m]>> \in active.members THEN 0 ELSE tickets[m]]
    /\ jobs' = [r \in Requests |-> IF r \in active.members /\ jobs[r] = "refused" THEN "none" ELSE jobs[r]]
    /\ Ends
    /\ UNCHANGED <<withdrawn, revoked, order, marked, admissions, op, life, ran>>

\* submit_prompt sees the withdrawal of its message: cancel_control.
PromptWithdrawn ==
    /\ active.kind = "control" /\ active.of \in withdrawn /\ ~active.cancelling
    /\ CancelTask
    /\ UNCHANGED <<rows, memory, work, op, broken, life, ran>>

-----------------------------------------------------------------------------
(* Jobs: _accept and _finish. *)

AcceptStarts(r) ==
    /\ jobs[r] = "spawned"
    /\ IF life # "live" \/ r[1] \in revoked \/ broken
       THEN jobs' = [jobs EXCEPT ![r] = "refused"] /\ admissions' = admissions \ {r}
       ELSE jobs' = [jobs EXCEPT ![r] = "saving"] /\ UNCHANGED admissions
    /\ UNCHANGED <<rows, memory, order, marked, active, op, broken, life, ran>>

\* store.accept is written: a job, which is settled at once when it was cancelled
\* meanwhile.
AcceptSaved(r) ==
    /\ jobs[r] = "saving"
    /\ order' = Append(order, r)
    /\ marked' = marked \ {r}
    /\ IF life # "live" \/ r[1] \in revoked \/ r \in marked
       THEN FinishBegins(r) /\ UNCHANGED admissions
       ELSE jobs' = [jobs EXCEPT ![r] = "queued"] /\ admissions' = admissions \ {r}
    /\ UNCHANGED <<rows, memory, active, op, broken, life, ran>>

\* finished, for a job outside a batch: a row that is no longer held breaks the
\* owner.
FinishWrites(r) ==
    /\ jobs[r] = "writing"
    /\ IF Held(r)
       THEN /\ rows' = [rows EXCEPT ![r[1]] = FinishRow(@, "cancelled", FALSE)]
            /\ bindings' = bindings \ {r}
            /\ UNCHANGED broken
       ELSE broken' = TRUE /\ UNCHANGED <<rows, bindings>>
    /\ jobs' = [jobs EXCEPT ![r] = "settling"]
    /\ UNCHANGED <<tickets, withdrawn, revoked, order, marked, admissions, active, op, life, ran>>

\* transition_batch, and the result is published.
FinishEnds(r) ==
    /\ jobs[r] = "settling"
    /\ jobs' = [jobs EXCEPT ![r] = "none"]
    /\ order' = SelectSeq(order, LAMBDA x : x # r)
    /\ admissions' = admissions \ {r}
    /\ UNCHANGED <<rows, memory, marked, active, op, broken, life, ran>>

-----------------------------------------------------------------------------
(* _run_batch.  todo: the rows to be written, from the bindings read before. *)

Batch(pc) == active.kind = "batch" /\ active.pc = pc
Bound == active.members \cap bindings

\* The turn is over: _finish_jobs reads the bindings.
Over(outcome) ==
    active' = [active EXCEPT !.pc = "write", !.todo = Bound, !.outcome = outcome, !.hit = FALSE]

\* starting: the claims are read.
BatchStarts ==
    /\ Batch("new") /\ ~active.cancelling
    /\ IF ~Context THEN Over("failed")
       ELSE active' = [active EXCEPT !.pc = IF Bound = {} THEN "transition" ELSE "begin", !.todo = Bound]
    /\ UNCHANGED <<rows, memory, work, op, broken, life, ran>>

\* begin_batch: all of the members or none.
BatchBegins ==
    /\ Batch("begin")
    /\ LET ok == \A r \in active.todo : Held(r) /\ rows[r[1]].status = "claimed"
       IN  /\ rows' = [m \in Messages |-> IF ok /\ \E r \in active.todo : r[1] = m
                                          THEN Start(rows[m]) ELSE rows[m]]
           /\ CASE active.cancelling -> Over("cancelled")
                [] ~active.cancelling /\ ~ok -> Over("failed")
                [] OTHER -> active' = [active EXCEPT !.pc = "transition", !.todo = {}]
    /\ UNCHANGED <<memory, work, op, broken, life, ran>>

\* transition_batch(running), and the members are given to the model.
BatchRuns ==
    /\ Batch("transition")
    /\ IF active.cancelling THEN Over("cancelled") /\ UNCHANGED ran
       ELSE /\ active' = [active EXCEPT !.pc = "executing", !.todo = {}]
            /\ ran' = [m \in Messages |-> ran[m] + Cardinality({r \in active.members : r[1] = m})]
    /\ UNCHANGED <<rows, memory, work, op, broken, life>>

BatchExecuted ==
    /\ Batch("executing")
    /\ \E outcome \in {"succeeded", "failed", "cancelled"} :
          /\ active.cancelling <=> outcome = "cancelled"
          /\ Over(outcome)
    /\ UNCHANGED <<rows, memory, work, op, broken, life, ran>>

\* finished: the rows are written side by side; one that is no longer held, or a
\* cancellation, breaks the owner.
BatchWrites(r) ==
    /\ Batch("write") /\ r \in active.todo
    /\ IF Held(r)
       THEN /\ rows' = [rows EXCEPT ![r[1]] = FinishRow(@, active.outcome, TRUE)]
            /\ bindings' = IF active.hit THEN bindings ELSE bindings \ {r}
            /\ UNCHANGED broken
       ELSE broken' = TRUE /\ UNCHANGED <<rows, bindings>>
    /\ active' = [active EXCEPT !.todo = @ \ {r}]
    /\ UNCHANGED <<tickets, withdrawn, revoked, work, op, life, ran>>

\* transition_batch, the results, and the owner is free.
BatchEnds ==
    /\ Batch("write") /\ active.todo = {}
    /\ jobs' = [r \in Requests |-> IF r \in active.members THEN "none" ELSE jobs[r]]
    /\ order' = SelectSeq(order, LAMBDA r : r \notin active.members)
    /\ broken' = (broken \/ active.hit)
    /\ Ends
    /\ UNCHANGED <<rows, memory, marked, admissions, op, life, ran>>

-----------------------------------------------------------------------------
(* Withdrawals, peers and the end. *)

\* InboxCoordinator.cancel.
OpStarts(m) ==
    LET r == <<m, tickets[m]>>
    IN  /\ op[m].pc = "idle" /\ Context /\ rows[m].status # "absent"
        /\ IF tickets[m] # 0 /\ InJobs(r) /\ InActive(r)
           THEN /\ op' = [op EXCEPT ![m] = [pc |-> "drop", ticket |-> tickets[m],
                                            already |-> FALSE]]
                /\ UNCHANGED withdrawn
           ELSE /\ op' = [op EXCEPT ![m] = [pc |-> "disk", ticket |-> tickets[m],
                                            already |-> m \in withdrawn]]
                /\ withdrawn' = withdrawn \cup {m}
        /\ UNCHANGED <<rows, bindings, tickets, revoked, work, active, broken, life, ran>>

\* cancel_pending and what follows it: the job is not bound any more, and its
\* cancellation is scheduled.
OpWrites(m) ==
    LET r == <<m, op[m].ticket>>
    IN  /\ op[m].pc = "disk"
        /\ IF Withdrawable(rows[m])
           THEN /\ rows' = [rows EXCEPT ![m].status = "cancelled"]
                /\ bindings' = bindings \ {r}
                /\ op' = [op EXCEPT ![m] = IF r \in bindings THEN [@ EXCEPT !.pc = "drop"] ELSE NoOp]
                /\ UNCHANGED withdrawn
           ELSE /\ withdrawn' = IF op[m].already THEN withdrawn ELSE withdrawn \ {m}
                /\ op' = [op EXCEPT ![m] = NoOp]
                /\ UNCHANGED <<rows, bindings>>
        /\ UNCHANGED <<tickets, revoked, work, active, broken, life, ran>>

OpDrops(m) ==
    /\ op[m].pc = "drop" /\ Started(<<m, op[m].ticket>>)
    /\ Cancel(<<m, op[m].ticket>>)
    /\ op' = [op EXCEPT ![m] = NoOp]
    /\ UNCHANGED <<rows, memory, order, admissions, broken, life, ran>>

\* A peer cancels its prompt.
PeerCancels(m) ==
    /\ tickets[m] # 0 /\ m \notin revoked /\ Started(<<m, tickets[m]>>)
    /\ Cancel(<<m, tickets[m]>>)
    /\ UNCHANGED <<rows, memory, order, admissions, op, broken, life, ran>>

\* disconnect: no later job of the peer is accepted.
Disconnect(m) ==
    /\ m \notin revoked /\ rows[m].status # "absent" /\ Started(<<m, tickets[m]>>)
    /\ revoked' = revoked \cup {m}
    /\ IF tickets[m] # 0 /\ InJobs(<<m, tickets[m]>>)
       THEN Cancel(<<m, tickets[m]>>) ELSE UNCHANGED <<jobs, active, marked>>
    /\ UNCHANGED <<rows, bindings, tickets, withdrawn, order, admissions, op, broken, life, ran>>

\* close and _shutdown: admissions, the active task, the queued jobs, the inbox.
Close ==
    /\ life = "live"
    /\ life' = "admissions"
    /\ UNCHANGED <<rows, memory, work, active, op, broken, ran>>

ShutActive ==
    /\ life = "admissions" /\ admissions = {}
    /\ life' = "active"
    /\ CancelTask
    /\ UNCHANGED <<rows, memory, work, op, broken, ran>>

ShutQueued(r) ==
    /\ life = "active" /\ (active = Idle \/ Dead)
    /\ InJobs(r) /\ ~Finishing(r)
    /\ FinishBegins(r)
    /\ UNCHANGED <<rows, memory, order, marked, admissions, active, op, broken, life, ran>>

\* retire: after every worker, everything that is still held is given back.
Retire ==
    /\ life = "active" /\ (active = Idle \/ Dead) /\ order = <<>>
    /\ \A m \in Messages : op[m].pc # "disk"
    /\ life' = "retired"
    /\ rows' = [m \in Messages |-> RetireRow(rows[m])]
    /\ bindings' = {}
    /\ UNCHANGED <<tickets, withdrawn, revoked, work, active, op, broken, ran>>

-----------------------------------------------------------------------------

Next ==
    \/ \E m \in Messages : \/ Enqueue(m) \/ OpStarts(m) \/ OpWrites(m) \/ OpDrops(m)
                           \/ PeerCancels(m) \/ Disconnect(m)
    \/ \E m \in Messages \cup {"none"} : PumpControl(m)
    \/ \E n \in 1..MaxPerTurn : PumpBatch(n)
    \/ ControlReads \/ Reserve \/ Handoff \/ Accepted
    \/ CleanupJoined \/ CleanupEnds \/ PromptWithdrawn
    \/ \E r \in Requests : \/ CleanupTicket(r) \/ AcceptStarts(r) \/ AcceptSaved(r)
                           \/ FinishWrites(r) \/ FinishEnds(r) \/ BatchWrites(r) \/ ShutQueued(r)
    \/ BatchStarts \/ BatchBegins \/ BatchRuns \/ BatchExecuted \/ BatchEnds
    \/ Close \/ ShutActive \/ Retire

Spec == Init /\ [][Next]_vars

\* The event loop runs what is ready, the disk answers, the model ends its turn.
TaskSteps ==
    \/ ControlReads \/ Reserve \/ Handoff \/ Accepted
    \/ CleanupJoined \/ CleanupEnds \/ (\E r \in Requests : CleanupTicket(r) \/ BatchWrites(r))
    \/ BatchStarts \/ BatchBegins \/ BatchRuns \/ BatchExecuted \/ BatchEnds
FairSpec ==
    /\ Spec
    /\ WF_vars(TaskSteps)
    /\ \A r \in Requests : WF_vars(AcceptStarts(r) \/ AcceptSaved(r) \/ FinishWrites(r) \/ FinishEnds(r))
    /\ \A m \in Messages : WF_vars(OpWrites(m) \/ OpDrops(m))

-----------------------------------------------------------------------------
(* Properties. *)

TypeOK ==
    /\ \A m \in Messages : rows[m].tries \in 0..MaxClaims /\ rows[m].attempt \in 0..rows[m].tries
    /\ bindings \subseteq Requests /\ marked \subseteq Requests /\ admissions \subseteq Requests
    /\ withdrawn \subseteq Messages /\ revoked \subseteq Messages
    /\ ToSet(order) = {r \in Requests : InJobs(r)}
    /\ active.kind \in {"none", "control", "batch"}
    /\ broken \in BOOLEAN

\* One owner gives a message to the model at most once, whoever cancels,
\* disconnects, withdraws or closes when.
RunOnce == \A m \in Messages : ran[m] <= 1

\* A claim or an execution on record has a job, a control or a withdrawal that
\* will settle it, unless the owner is broken; when it has retired there is none.
OwnedUntilSettled ==
    \A r \in Requests : Held(r) =>
        /\ life # "retired"
        /\ \/ broken \/ InJobs(r) \/ r \in admissions
           \/ active.kind = "control" /\ r \in active.members
           \/ op[r[1]].pc = "disk"

\* docs/protocols/acp.md: "A member's cancel/disconnect does not abort other
\* members": while the owner lives, a message fails only in an execution of its own.
MembersSpared == life = "live" => \A m \in Messages : rows[m].status = "failed" => ran[m] > 0

\* docs/protocols/acp.md, the diagram of the states: a claim whose "owner retires
\* before model admission" is pending again, and does not fail.
UnstartedReturns == ~broken => \A m \in Messages : rows[m].status = "failed" => ran[m] > 0

\* docs/protocols/acp.md: "never turning a normal cancel into an owner-wide
\* persistence failure": while the owner lives and the peers stay, no cancellation
\* or withdrawal breaks it.  (The disk never fails here.)
CancelNeverBreaks == life = "live" /\ revoked = {} => ~broken

\* docs/protocols/acp.md: "`/inbox cancel ID` targets pending/claimed-unstarted
\* intake": what was withdrawn before it began is not given to the model.
CancelledNeverRuns ==
    \A m \in Messages : rows[m].status = "cancelled" /\ ~rows[m].batch => ran[m] = 0

\* docs/protocols/acp.md: "Controller turns, tools, producers, controls, context
\* changes and cleanup settle": the active task ends and lets the next one run.
OwnerLetsGo == (active # Idle) ~> (active = Idle \/ life # "live")

=============================================================================
