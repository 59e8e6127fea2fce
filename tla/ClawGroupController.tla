------------------------- MODULE ClawGroupController -------------------------
(***************************************************************************)
(* Who executes in a group: class GroupController of                       *)
(* packages/claw/src/xdog/claw/core/runtime/group_controller.py, one       *)
(* controller for each group and the pool of background slots they share.  *)
(*                                                                         *)
(* One action is what a task does between two suspensions.  A task of the  *)
(* model makes one acquire at a time: by itself, with a reservation it was *)
(* given, or as the job of start.  A reservation is the number of its      *)
(* token; whoever has seen one may use it again at any time.  A nested     *)
(* acquire by the owning task borrows its lease and changes nothing, and a *)
(* call that raises before it waits changes nothing either.  A cancelled   *)
(* task notices when it next resumes; while it runs it may clean up first. *)
(***************************************************************************)
EXTENDS Integers, Sequences, FiniteSets

CONSTANTS Groups,      \* group ids
          Tasks,       \* asyncio tasks alive at a time: a bound
          Nobody,      \* an owner without a task
          Inputs,      \* (message_id, attempt_id) pairs
          NoInput,     \* no input_key
          Slots,       \* max_concurrent_agents
          MaxTokens    \* bound: reservations ever made

ASSUME GroupsAssumption == Groups # {}
ASSUME TasksAssumption == IsFiniteSet(Tasks)
ASSUME NobodyAssumption == Nobody \notin Tasks
ASSUME NoInputAssumption == NoInput \notin Inputs
ASSUME SlotsAssumption == Slots \in Nat /\ MaxTokens \in Nat

VARIABLES closed,      \* _closing
          owner,       \* _owner
          available,   \* _available: the event is set
          waiting,     \* _waiting_users
          context,     \* _context_operations
          free,        \* background slots that are free
          issued,      \* reservations: the group of each token
          task

vars == <<closed, owner, available, waiting, context, free, issued, task>>

\* _Owner; token 0 stands for None.
NoOwner == [token |-> 0, task |-> Nobody, input |-> NoInput, admitted |-> FALSE]
Owner == [token : Nat, task : Tasks \cup {Nobody}, input : Inputs \cup {NoInput},
          admitted : BOOLEAN]

\* new: a job before its first step; waiting: at _available.wait(); slot: at the
\* pool; inside: in the body of acquire; done: a job whose callback is due.
NoTask == [pc |-> "off", group |-> CHOOSE g \in Groups : TRUE, token |-> 0, user |-> FALSE,
           job |-> FALSE, change |-> FALSE, input |-> NoInput,
           awake |-> FALSE, cancelling |-> FALSE]
Task == [pc : {"off", "new", "waiting", "slot", "inside", "done"}, group : Groups,
         token : Nat, user : BOOLEAN, job : BOOLEAN, change : BOOLEAN,
         input : Inputs \cup {NoInput}, awake : BOOLEAN, cancelling : BOOLEAN]

At(t, pc) == task[t].pc = pc
Holding(t) == task[t].pc \in {"slot", "inside"}
AsNat(b) == IF b THEN 1 ELSE 0

-----------------------------------------------------------------------------
(* Shared pieces. *)

\* Mutant of Woken: only users are woken.
WokenUsers(g, tasks) ==
    [t \in Tasks |-> IF tasks[t].pc = "waiting" /\ tasks[t].group = g /\ tasks[t].user
                     THEN [tasks[t] EXCEPT !.awake = TRUE] ELSE tasks[t]]

\* Setting the event wakes every task that waits for the group.
Woken(g, tasks) ==
    [t \in Tasks |-> IF tasks[t].pc = "waiting" /\ tasks[t].group = g
                     THEN [tasks[t] EXCEPT !.awake = TRUE] ELSE tasks[t]]

\* The group becomes free.
Freed(g, tasks) ==
    /\ owner' = [owner EXCEPT ![g] = NoOwner]
    /\ available' = [available EXCEPT ![g] = TRUE]
    /\ task' = Woken(g, tasks)

\* release: fenced by the token, and refused while the owner's task lives.
Releasable(x) ==
    /\ owner[issued[x]].token = x
    /\ owner[issued[x]].task # Nobody => task[owner[issued[x]].task].pc \in {"off", "done"}

\* _finish: fenced by the token and the task.
Owns(t) ==
    /\ owner[task[t].group].token = task[t].token
    /\ owner[task[t].group].task = t

\* The lease of a task that has left acquire.
Ended(t) == [task EXCEPT ![t] =
                IF task[t].job THEN [NoTask EXCEPT !.pc = "done", !.token = task[t].token,
                                                   !.job = TRUE, !.group = task[t].group]
                ELSE NoTask]

\* The bound: every call that waits keeps a token of the budget.
Budget == Len(issued) + Cardinality({t \in Tasks : At(t, "waiting")}) < MaxTokens

\* The task t takes the group: a new token, bound at once.
Take(t, call) ==
    LET g == call.group IN
    /\ issued' = Append(issued, g)
    /\ owner' = [owner EXCEPT ![g] = [token |-> Len(issued) + 1, task |-> t,
                                      input |-> call.input, admitted |-> FALSE]]
    /\ available' = [available EXCEPT ![g] = FALSE]
    /\ task' = [task EXCEPT ![t] = [call EXCEPT !.pc = IF call.user THEN "inside" ELSE "slot",
                                                !.token = Len(issued) + 1, !.awake = FALSE]]

-----------------------------------------------------------------------------
(* Operations. *)

Init ==
    /\ closed = [g \in Groups |-> FALSE]
    /\ owner = [g \in Groups |-> NoOwner]
    /\ available = [g \in Groups |-> TRUE]
    /\ waiting = [g \in Groups |-> 0]
    /\ context = [g \in Groups |-> 0]
    /\ free = Slots
    /\ issued = <<>>
    /\ task = [t \in Tasks |-> NoTask]

CloseAdmission(g) ==
    /\ ~closed[g]
    /\ closed' = [closed EXCEPT ![g] = TRUE]
    /\ UNCHANGED <<owner, available, waiting, context, free, issued, task>>

Reserve(g) ==
    /\ ~closed[g] /\ owner[g] = NoOwner
    /\ Budget
    /\ issued' = Append(issued, g)
    /\ owner' = [owner EXCEPT ![g] = [token |-> Len(issued) + 1, task |-> Nobody,
                                      input |-> NoInput, admitted |-> FALSE]]
    /\ available' = [available EXCEPT ![g] = FALSE]
    /\ UNCHANGED <<closed, waiting, context, free, task>>

Release(x) ==
    /\ Releasable(x)
    /\ Freed(issued[x], task)
    /\ UNCHANGED <<closed, waiting, context, free, issued>>

\* acquire without a reservation; operation is the same for a user, and counts
\* a change of context from the call on.
Acquire(t, g, user, input, change) ==
    LET call == [NoTask EXCEPT !.group = g, !.user = user, !.input = input, !.change = change] IN
    /\ At(t, "off") /\ ~closed[g]
    /\ Budget
    /\ change => user /\ input = NoInput
    /\ context' = [context EXCEPT ![g] = @ + AsNat(change)]
    /\ IF owner[g] = NoOwner
       THEN Take(t, call) /\ UNCHANGED waiting
       ELSE /\ task' = [task EXCEPT ![t] = [call EXCEPT !.pc = "waiting", !.awake = available[g]]]
            /\ waiting' = [waiting EXCEPT ![g] = @ + AsNat(user)]
            /\ UNCHANGED <<owner, available, issued>>
    /\ UNCHANGED <<closed, free>>

\* Mutant of Resume: a call that leaves is still counted.
ResumeKeepsCount(t) ==
    LET g == task[t].group
        leave == task[t].cancelling \/ (owner[g] = NoOwner /\ closed[g])
    IN
    /\ At(t, "waiting") /\ (task[t].awake \/ task[t].cancelling)
    /\ IF leave
       THEN task' = [task EXCEPT ![t] = NoTask] /\ UNCHANGED <<owner, available, issued>>
       ELSE IF owner[g] = NoOwner THEN Take(t, task[t])
       ELSE /\ task' = [task EXCEPT ![t].awake = available[g]]
            /\ UNCHANGED <<owner, available, issued>>
    /\ waiting' = IF ~leave /\ owner[g] = NoOwner
                  THEN [waiting EXCEPT ![g] = @ - AsNat(task[t].user)] ELSE waiting
    /\ context' = IF leave THEN [context EXCEPT ![g] = @ - AsNat(task[t].change)] ELSE context
    /\ UNCHANGED <<closed, free>>

\* The waiting task resumes: cancelled, refused by a closed group, in, or too
\* late and waiting again.
Resume(t) ==
    LET g == task[t].group
        leave == task[t].cancelling \/ (owner[g] = NoOwner /\ closed[g])
    IN
    /\ At(t, "waiting") /\ (task[t].awake \/ task[t].cancelling)
    /\ IF leave
       THEN task' = [task EXCEPT ![t] = NoTask] /\ UNCHANGED <<owner, available, issued>>
       ELSE IF owner[g] = NoOwner THEN Take(t, task[t])
       ELSE /\ task' = [task EXCEPT ![t].awake = available[g]]
            /\ UNCHANGED <<owner, available, issued>>
    /\ waiting' = IF leave \/ owner[g] = NoOwner
                  THEN [waiting EXCEPT ![g] = @ - AsNat(task[t].user)] ELSE waiting
    /\ context' = IF leave THEN [context EXCEPT ![g] = @ - AsNat(task[t].change)] ELSE context
    /\ UNCHANGED <<closed, free>>

\* Mutant of Bind: a reservation is bound twice.
BindTwice(t, x, input, job) ==
    LET g == issued[x] IN
    /\ ~closed[g]
    /\ owner[g].token = x
    /\ owner' = [owner EXCEPT ![g] = [token |-> x, task |-> t, input |-> input, admitted |-> FALSE]]
    /\ task' = [task EXCEPT ![t] = [NoTask EXCEPT
                  !.pc = "inside", !.group = g, !.token = x, !.user = TRUE, !.input = input,
                  !.job = job, !.cancelling = task[t].cancelling]]

\* acquire with a reservation that is still unbound.
Bind(t, x, input, job) ==
    LET g == issued[x] IN
    /\ ~closed[g]
    /\ owner[g].token = x /\ owner[g].task = Nobody
    /\ owner' = [owner EXCEPT ![g] = [token |-> x, task |-> t, input |-> input, admitted |-> FALSE]]
    /\ task' = [task EXCEPT ![t] = [NoTask EXCEPT
                  !.pc = "inside", !.group = g, !.token = x, !.user = TRUE, !.input = input,
                  !.job = job, !.cancelling = task[t].cancelling]]

AcquireReserved(t, x) ==
    /\ At(t, "off")
    /\ Bind(t, x, NoInput, FALSE)
    /\ UNCHANGED <<closed, available, waiting, context, free, issued>>

\* start: the job is a new task, its callback is registered.
StartJob(t, x, input) ==
    /\ At(t, "off")
    /\ task' = [task EXCEPT ![t] = [NoTask EXCEPT !.pc = "new", !.job = TRUE, !.token = x,
                                                  !.group = issued[x], !.input = input]]
    /\ UNCHANGED <<closed, owner, available, waiting, context, free, issued>>

\* The job's first step: cancelled before it, refused, or bound.
JobBegins(t) ==
    /\ At(t, "new")
    /\ \/ ~task[t].cancelling /\ Bind(t, task[t].token, task[t].input, TRUE)
       \/ /\ task[t].cancelling \/ closed[task[t].group]
             \/ owner[task[t].group].token # task[t].token \/ owner[task[t].group].task # Nobody
          /\ task' = Ended(t)
          /\ UNCHANGED owner
    /\ UNCHANGED <<closed, available, waiting, context, free, issued>>

\* The callback of a finished job: release with the captured token.
JobSettled(t) ==
    /\ At(t, "done")
    /\ IF Releasable(task[t].token)
       THEN Freed(task[t].group, [task EXCEPT ![t] = NoTask])
       ELSE task' = [task EXCEPT ![t] = NoTask] /\ UNCHANGED <<owner, available>>
    /\ UNCHANGED <<closed, waiting, context, free, issued>>

\* async with _background_slots.
EnterSlot(t) ==
    /\ At(t, "slot") /\ ~task[t].cancelling
    /\ free > 0
    /\ free' = free - 1
    /\ task' = [task EXCEPT ![t].pc = "inside"]
    /\ UNCHANGED <<closed, owner, available, waiting, context, issued>>

\* Mutant of Finish: a slot is not given back.
FinishLeaksSlot(t) ==
    /\ At(t, "inside") \/ (At(t, "slot") /\ task[t].cancelling)
    /\ free' = free
    /\ context' = [context EXCEPT ![task[t].group] = @ - AsNat(task[t].change)]
    /\ IF Owns(t) THEN Freed(task[t].group, Ended(t))
       ELSE task' = Ended(t) /\ UNCHANGED <<owner, available>>
    /\ UNCHANGED <<closed, waiting, issued>>

\* The body ends, or the wait for a slot is cancelled: _finish frees the group.
Finish(t) ==
    /\ At(t, "inside") \/ (At(t, "slot") /\ task[t].cancelling)
    /\ free' = free + AsNat(At(t, "inside") /\ ~task[t].user)
    /\ context' = [context EXCEPT ![task[t].group] = @ - AsNat(task[t].change)]
    /\ IF Owns(t) THEN Freed(task[t].group, Ended(t))
       ELSE task' = Ended(t) /\ UNCHANGED <<owner, available>>
    /\ UNCHANGED <<closed, waiting, issued>>

\* Mutant of ConfirmInput: before the slot.
ConfirmInputEarly(t, input) ==
    LET g == task[t].group IN
    /\ owner[g].task = t /\ owner[g].input = input /\ ~owner[g].admitted
    /\ owner' = [owner EXCEPT ![g].admitted = TRUE]
    /\ UNCHANGED <<closed, available, waiting, context, free, issued, task>>

\* confirm_input, called by the owning task when its input is admitted.
ConfirmInput(t, input) ==
    LET g == task[t].group IN
    /\ At(t, "inside")
    /\ owner[g].task = t /\ owner[g].input = input /\ ~owner[g].admitted
    /\ owner' = [owner EXCEPT ![g].admitted = TRUE]
    /\ UNCHANGED <<closed, available, waiting, context, free, issued, task>>

\* owns_input
OwnsInput(g, input) ==
    /\ owner[g].admitted /\ owner[g].input = input
    /\ owner[g].task # Nobody /\ task[owner[g].task].pc \notin {"off", "done"}

CancelInput(g, input) ==
    /\ OwnsInput(g, input)
    /\ task' = [task EXCEPT ![owner[g].task].cancelling = TRUE]
    /\ UNCHANGED <<closed, owner, available, waiting, context, free, issued>>

\* A host cancels one of its tasks.
CancelTask(t) ==
    /\ task[t].pc \notin {"off", "done"}
    /\ task' = [task EXCEPT ![t].cancelling = TRUE]
    /\ UNCHANGED <<closed, owner, available, waiting, context, free, issued>>

Next ==
    \/ \E g \in Groups : CloseAdmission(g) \/ Reserve(g)
    \/ \E x \in DOMAIN issued : Release(x)
    \/ \E t \in Tasks, g \in Groups, user, change \in BOOLEAN, input \in Inputs \cup {NoInput} :
          Acquire(t, g, user, input, change)
    \/ \E t \in Tasks, x \in DOMAIN issued :
          \/ AcquireReserved(t, x)
          \/ \E input \in Inputs \cup {NoInput} : StartJob(t, x, input)
    \/ \E t \in Tasks : \/ Resume(t) \/ JobBegins(t) \/ JobSettled(t)
                        \/ EnterSlot(t) \/ Finish(t) \/ CancelTask(t)
    \/ \E t \in Tasks, input \in Inputs : ConfirmInput(t, input)
    \/ \E g \in Groups, input \in Inputs : CancelInput(g, input)

\* The event loop runs ready tasks and callbacks, and what runs in a group ends.
\* asyncio.Semaphore is first in, first out: who waits for a slot gets one.
Fairness ==
    \A t \in Tasks : /\ WF_vars(Resume(t)) /\ WF_vars(JobBegins(t)) /\ WF_vars(JobSettled(t))
                     /\ WF_vars(Finish(t)) /\ SF_vars(EnterSlot(t))

Spec == Init /\ [][Next]_vars
FairSpec == Spec /\ Fairness

-----------------------------------------------------------------------------
(* Properties. *)

\* The controllers' fields and the tasks have their types.
TypeOK ==
    /\ closed \in [Groups -> BOOLEAN]
    /\ owner \in [Groups -> Owner]
    /\ available \in [Groups -> BOOLEAN]
    /\ waiting \in [Groups -> Nat] /\ context \in [Groups -> Nat]
    /\ free \in 0..Slots
    /\ issued \in Seq(Groups)
    /\ task \in [Tasks -> Task]

\* One execution per group: of all the tasks, with whatever reservations they
\* hold, at most one is inside acquire or waits for its slot.
OneExecution ==
    \A t, u \in Tasks : Holding(t) /\ Holding(u) /\ task[t].group = task[u].group => t = u

\* The lease is where the work is: a task inside a group is its recorded owner,
\* under its own token, and a recorded owner task is inside.  So no late
\* release, no callback and no second job frees or steals a group in use.
OwnerIsInside ==
    /\ \A t \in Tasks : Holding(t) => Owns(t)
    /\ \A g \in Groups : owner[g].task # Nobody =>
          Holding(owner[g].task) /\ task[owner[g].task].group = g

\* No lost wake-up: the event is set exactly while the group is free, and then
\* every task that waits for it has been woken.
FreeIsAnnounced ==
    \A g \in Groups :
        /\ available[g] <=> owner[g] = NoOwner
        /\ owner[g] = NoOwner => \A t \in Tasks :
              At(t, "waiting") /\ task[t].group = g => task[t].awake

\* user_pending and context_changing count live calls, through cancellations and
\* refusals; the slot pool neither leaks nor overflows.
CountsAreLive ==
    /\ \A g \in Groups :
          /\ waiting[g] = Cardinality({t \in Tasks :
                At(t, "waiting") /\ task[t].group = g /\ task[t].user})
          /\ context[g] = Cardinality({t \in Tasks :
                task[t].pc \in {"waiting", "inside"} /\ task[t].group = g /\ task[t].change})
    /\ free + Cardinality({t \in Tasks : At(t, "inside") /\ ~task[t].user}) = Slots

\* cancel_input hits the execution of that input: an admitted key is the key the
\* task inside was called with.
AdmittedIsExecuting ==
    \A g \in Groups : owner[g].admitted =>
        /\ owner[g].task # Nobody
        /\ At(owner[g].task, "inside")
        /\ task[owner[g].task].input = owner[g].input

\* A free group for which somebody waits is taken, unless nobody waits any more.
FreeIsTaken ==
    \A g \in Groups :
        (owner[g] = NoOwner /\ \E t \in Tasks : At(t, "waiting") /\ task[t].group = g)
            ~> (owner[g] # NoOwner \/ ~\E t \in Tasks : At(t, "waiting") /\ task[t].group = g)

\* A task that owns a group lets go of it: neither the pool of slots nor another
\* group keeps it there.
OwnersLetGo == \A t \in Tasks : Holding(t) ~> ~Holding(t)
=============================================================================
