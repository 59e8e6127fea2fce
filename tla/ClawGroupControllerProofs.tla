---------------------- MODULE ClawGroupControllerProofs ----------------------
(***************************************************************************)
(* Proofs about ClawGroupController, for any number of groups, tasks,      *)
(* inputs and slots.  The lease (owner) and what the tasks do agree after  *)
(* every step; mutual exclusion, the announcement of a free group and the  *)
(* identity of a cancelled execution all come from that agreement.         *)
(***************************************************************************)
EXTENDS ClawGroupController, FiniteSetTheorems, TLAPS

\* The types of the variables that the invariant talks about.
Types ==
    /\ owner \in [Groups -> Owner]
    /\ available \in [Groups -> BOOLEAN]
    /\ issued \in Seq(Groups)
    /\ task \in [Tasks -> Task]

\* The recorded owner was called with the recorded input.  confirm_input only
\* compares with the record, so AdmittedIsExecuting is not inductive without it.
InputIsOwners ==
    \A g \in Groups : owner[g].task # Nobody => task[owner[g].task].input = owner[g].input

Agreement ==
    /\ Types
    /\ OwnerIsInside
    /\ InputIsOwners
    /\ FreeIsAnnounced
    /\ AdmittedIsExecuting

\* A job, from start to its callback, and an execution carry a token of their
\* group: the captured fence is never a number without a group.
TokenIsIssued ==
    \A t \in Tasks : task[t].pc \notin {"off", "waiting"} =>
        task[t].token \in DOMAIN issued /\ issued[task[t].token] = task[t].group

IInv == Agreement /\ TokenIsIssued

-----------------------------------------------------------------------------
(* The pieces that actions share. *)

\* The blank records are an owner and a task.
LEMMA BlankTypes == NoOwner \in Owner /\ NoTask \in Task
<1>1. (CHOOSE g \in Groups : TRUE) \in Groups
  BY GroupsAssumption
<1> QED
  BY <1>1 DEF NoOwner, Owner, NoTask, Task

\* A step of a task that owns nothing, into a state in which it owns nothing
\* and sleeps only if the group is taken, keeps the invariant.
LEMMA QuietStep ==
  ASSUME Agreement, NEW t \in Tasks, NEW v \in Task, ~Holding(t),
         v.pc \notin {"slot", "inside"},
         v.pc = "waiting" => v.awake \/ owner[v.group] # NoOwner,
         task' = [task EXCEPT ![t] = v],
         UNCHANGED <<owner, available, issued>>
  PROVE  Agreement'
<1> USE DEF Agreement, Types, Holding
<1>1. Types'
  OBVIOUS
<1>2. OwnerIsInside'
  BY NobodyAssumption DEF OwnerIsInside, Owns
<1>3. InputIsOwners'
  BY NobodyAssumption DEF OwnerIsInside, InputIsOwners, Owner
<1>4. FreeIsAnnounced'
  BY DEF FreeIsAnnounced, At
<1>5. AdmittedIsExecuting'
  BY DEF AdmittedIsExecuting, At, Owner
<1> QED
  BY <1>1, <1>2, <1>3, <1>4, <1>5

\* Freeing a group in which no task is left keeps the invariant.
LEMMA FreedStep ==
  ASSUME Agreement, NEW g \in Groups, NEW tasks \in [Tasks -> Task],
         \A t \in Tasks : tasks[t].pc \in {"slot", "inside"} => tasks[t] = task[t] /\ task[t].group # g,
         \A t \in Tasks : Holding(t) /\ task[t].group # g => tasks[t] = task[t],
         \A t \in Tasks : tasks[t].pc = "waiting" => tasks[t] = task[t],
         Freed(g, tasks), issued' = issued
  PROVE  Agreement'
<1> USE DEF Agreement, Types, Holding, Freed
<1>0. /\ \A t \in Tasks : ~(tasks[t].pc = "waiting" /\ tasks[t].group = g) => task'[t] = tasks[t]
      /\ \A t \in Tasks : tasks[t].pc = "waiting" /\ tasks[t].group = g =>
            task'[t] = [tasks[t] EXCEPT !.awake = TRUE]
  BY DEF Woken
<1>1. task' \in [Tasks -> Task]
  <2>1. ASSUME NEW v \in Task PROVE [v EXCEPT !.awake = TRUE] \in Task
    BY DEF Task
  <2> QED
    BY <1>0, <2>1 DEF Woken
<1>2. \A t \in Tasks : /\ task'[t].pc = tasks[t].pc
                       /\ task'[t].group = tasks[t].group
                       /\ tasks[t].pc \in {"slot", "inside"} => task'[t] = tasks[t]
                       /\ tasks[t].pc = "waiting" /\ tasks[t].group = g => task'[t].awake
  <2>1. ASSUME NEW v \in Task
        PROVE  [v EXCEPT !.awake = TRUE].pc = v.pc /\ [v EXCEPT !.awake = TRUE].group = v.group
               /\ [v EXCEPT !.awake = TRUE].awake
    BY DEF Task
  <2> QED
    BY ONLY <1>0, <2>1, tasks \in [Tasks -> Task]
<1>3. /\ owner' \in [Groups -> Owner]
      /\ owner'[g] = NoOwner
      /\ \A h \in Groups \ {g} : owner'[h] = owner[h]
      /\ available' \in [Groups -> BOOLEAN]
      /\ available'[g] = TRUE
      /\ \A h \in Groups \ {g} : available'[h] = available[h]
      /\ NoOwner.task = Nobody /\ NoOwner.admitted = FALSE
  BY BlankTypes DEF NoOwner
<1> HIDE DEF Freed, NoOwner
<1>4. Types'
  BY <1>1, <1>3
<1>5. \A t \in Tasks : task'[t].pc \in {"slot", "inside"} => task'[t] = task[t] /\ task[t].group # g
  BY <1>2
<1>6. \A t \in Tasks : Holding(t) /\ task[t].group # g => task'[t] = task[t]
  BY <1>2
<1> DEFINE OwnersStay == \A h \in Groups : owner'[h].task # Nobody =>
           /\ owner'[h] = owner[h] /\ owner[h].task \in Tasks
           /\ task'[owner[h].task] = task[owner[h].task]
<1>O. OwnersStay
  <2>1. SUFFICES ASSUME NEW h \in Groups, owner'[h].task # Nobody
                 PROVE  /\ owner'[h] = owner[h] /\ owner[h].task \in Tasks
                        /\ task'[owner[h].task] = task[owner[h].task]
    OBVIOUS
  <2>2. h # g
    BY <2>1, <1>3
  <2>3. owner'[h] = owner[h] /\ owner[h].task # Nobody
    BY <2>1, <2>2, <1>3
  <2>4. owner[h].task \in Tasks
    BY <2>3 DEF Owner
  <2>5. Holding(owner[h].task) /\ task[owner[h].task].group = h
    BY <2>3 DEF OwnerIsInside
  <2> QED
    BY <2>2, <2>3, <2>4, <2>5, <1>6
<1>7. OwnerIsInside'
  <2>1. \A t \in Tasks : (Holding(t) => Owns(t))'
    BY <1>3, <1>5, <1>1 DEF OwnerIsInside, Owns, Task
  <2> QED
    BY <2>1, <1>O DEF OwnerIsInside
<1>8. InputIsOwners'
  BY <1>O DEF InputIsOwners
<1>9. FreeIsAnnounced'
  <2>1. \A t \in Tasks : task'[t].pc = "waiting" =>
           IF task'[t].group = g THEN task'[t].awake ELSE task'[t] = task[t]
    BY <1>0, <1>2
  <2>2. available'[g] /\ owner'[g] = NoOwner
    BY <1>3
  <2>3. \A h \in Groups \ {g} : available'[h] = available[h] /\ owner'[h] = owner[h]
    BY <1>3
  <2> QED
    BY <2>1, <2>2, <2>3 DEF FreeIsAnnounced, At
<1>10. AdmittedIsExecuting'
  <2>1. \A h \in Groups : owner'[h].admitted => owner'[h] = owner[h] /\ h # g
    BY <1>3
  <2> QED
    BY <2>1, <1>3, <1>O DEF AdmittedIsExecuting, At
<1> QED
  BY <1>4, <1>7, <1>8, <1>9, <1>10

\* A group given to a task that owns nothing, under a new record, keeps the
\* invariant when nobody was inside.
LEMMA GivenStep ==
  ASSUME Agreement, NEW g \in Groups, NEW t \in Tasks, NEW o \in Owner, NEW v \in Task,
         ~Holding(t), owner[g].task = Nobody,
         o.task = t, o.token = v.token, o.input = v.input, ~o.admitted,
         v.pc \in {"slot", "inside"}, v.group = g,
         owner' = [owner EXCEPT ![g] = o],
         available' = [available EXCEPT ![g] = FALSE],
         task' = [task EXCEPT ![t] = v],
         issued' \in Seq(Groups)
  PROVE  Agreement'
<1> USE DEF Agreement, Types, Holding
<1>0. t # Nobody
  BY NobodyAssumption
<1>1. Types'
  OBVIOUS
<1>2. OwnerIsInside'
  <2>1. \A u \in Tasks \ {t} : Holding(u) => Owns(u) /\ task[u].group # g
    BY NobodyAssumption DEF OwnerIsInside, Owns
  <2>2. \A u \in Tasks : (Holding(u) => Owns(u))'
    BY <2>1 DEF Owns, Task
  <2>3. \A h \in Groups \ {g} : owner[h].task # t
    BY <1>0 DEF OwnerIsInside
  <2>4. \A h \in Groups : (owner[h].task # Nobody =>
           Holding(owner[h].task) /\ task[owner[h].task].group = h)'
    BY <1>0, <2>3 DEF OwnerIsInside, Owner
  <2> QED
    BY <2>2, <2>4 DEF OwnerIsInside
<1>3. InputIsOwners'
  BY <1>0 DEF OwnerIsInside, InputIsOwners, Owner
<1>4. FreeIsAnnounced'
  BY <1>0 DEF FreeIsAnnounced, At, NoOwner
<1>5. AdmittedIsExecuting'
  BY <1>0 DEF OwnerIsInside, AdmittedIsExecuting, At, Owner
<1> QED
  BY <1>1, <1>2, <1>3, <1>4, <1>5

-----------------------------------------------------------------------------
(* The actions. *)

\* The first state: nobody owns, nobody waits, every group is announced free.
LEMMA InitAgrees == Init => Agreement
<1> SUFFICES ASSUME Init PROVE Agreement
  OBVIOUS
<1>1. \A t \in Tasks : task[t].pc = "off"
  BY DEF Init, NoTask
<1>2. \A g \in Groups : owner[g] = NoOwner /\ owner[g].task = Nobody /\ owner[g].admitted = FALSE
  BY DEF Init, NoOwner
<1>3. Types
  BY BlankTypes DEF Init, Types
<1>4. FreeIsAnnounced
  BY <1>1, <1>2 DEF FreeIsAnnounced, At, Init
<1> QED
  BY <1>1, <1>2, <1>3, <1>4
     DEF Agreement, OwnerIsInside, InputIsOwners, AdmittedIsExecuting, Holding

\* A step that leaves the leases and the tasks alone.
LEMMA IdleStep ==
  ASSUME Agreement, UNCHANGED <<owner, available, issued, task>>
  PROVE  Agreement'
BY DEF Agreement, Types, OwnerIsInside, InputIsOwners, FreeIsAnnounced, AdmittedIsExecuting,
       Holding, Owns, At

\* reserve takes a free group for a task that comes later.
LEMMA ReserveStep ==
  ASSUME Agreement, NEW g \in Groups, Reserve(g)
  PROVE  Agreement'
<1> DEFINE o == [token |-> Len(issued) + 1, task |-> Nobody, input |-> NoInput, admitted |-> FALSE]
<1> USE DEF Agreement, Types
<1>1. Len(issued) \in Nat
  OBVIOUS
<1>2. o \in Owner /\ o.task = Nobody /\ o.admitted = FALSE /\ o # NoOwner
  <2>1. o.token # NoOwner.token
    BY <1>1 DEF NoOwner
  <2> QED
    BY <1>1, <2>1 DEF Owner
<1>3. /\ owner[g] = NoOwner
      /\ owner' = [owner EXCEPT ![g] = o]
      /\ available' = [available EXCEPT ![g] = FALSE]
      /\ issued' \in Seq(Groups)
      /\ task' = task
  BY DEF Reserve
<1>4. owner[g].task = Nobody
  BY <1>3 DEF NoOwner
<1> HIDE DEF o
<1>5. Types'
  BY <1>2, <1>3
<1>6. OwnerIsInside'
  <2>1. \A t \in Tasks : Holding(t) => task[t].group # g
    BY <1>4, NobodyAssumption DEF OwnerIsInside, Owns
  <2> QED
    BY <2>1, <1>2, <1>3 DEF OwnerIsInside, Owns, Holding, Task
<1>7. InputIsOwners'
  BY <1>2, <1>3 DEF InputIsOwners
<1>8. FreeIsAnnounced'
  BY <1>2, <1>3 DEF FreeIsAnnounced, At
<1>9. AdmittedIsExecuting'
  BY <1>2, <1>3 DEF AdmittedIsExecuting, At
<1> QED
  BY <1>5, <1>6, <1>7, <1>8, <1>9

\* What release frees is a reservation without a task: a recorded owner is
\* inside, and a task inside is not done.
LEMMA ReleasableIsUnbound ==
  ASSUME Agreement, NEW x \in DOMAIN issued, Releasable(x)
  PROVE  /\ issued[x] \in Groups
         /\ \A t \in Tasks : Holding(t) => task[t].group # issued[x]
<1>1. issued[x] \in Groups
  BY DEF Agreement, Types
<1>2. owner[issued[x]].task = Nobody
  BY <1>1 DEF Agreement, OwnerIsInside, Releasable, Holding
<1> QED
  BY <1>1, <1>2, NobodyAssumption DEF Agreement, OwnerIsInside, Owns

\* A late release, by whoever has the token, takes no execution's group away.
LEMMA ReleaseStep ==
  ASSUME Agreement, NEW x \in DOMAIN issued, Release(x)
  PROVE  Agreement'
<1>1. /\ issued[x] \in Groups
      /\ \A t \in Tasks : Holding(t) => task[t].group # issued[x]
  BY ReleasableIsUnbound DEF Release
<1>2. task \in [Tasks -> Task] /\ Freed(issued[x], task) /\ issued' = issued
  BY DEF Agreement, Types, Release
<1> QED
  BY <1>1, <1>2, FreedStep DEF Holding

\* The task that takes a free group owns it from then on.
LEMMA TakeStep ==
  ASSUME Agreement, NEW t \in Tasks, NEW call \in Task, ~Holding(t),
         owner[call.group] = NoOwner, Take(t, call)
  PROVE  Agreement'
<1> DEFINE g == call.group
           o == [token |-> Len(issued) + 1, task |-> t, input |-> call.input, admitted |-> FALSE]
           v == [call EXCEPT !.pc = IF call.user THEN "inside" ELSE "slot",
                             !.token = Len(issued) + 1, !.awake = FALSE]
<1>1. g \in Groups /\ Len(issued) \in Nat /\ issued \in Seq(Groups)
  BY DEF Agreement, Types, Task
<1>2. o \in Owner
  BY <1>1 DEF Owner, Task
<1>3. v \in Task /\ v.pc \in {"slot", "inside"} /\ v.group = g /\ v.input = call.input
      /\ v.token = Len(issued) + 1
  <2>1. ASSUME NEW p \in {"slot", "inside"}, NEW k \in Nat,
               v = [call EXCEPT !.pc = p, !.token = k, !.awake = FALSE]
        PROVE  v \in Task /\ v.pc = p /\ v.group = g /\ v.input = call.input /\ v.token = k
    <3> HIDE DEF v
    <3> QED
      BY <2>1 DEF Task
  <2>2. Len(issued) + 1 \in Nat
    BY <1>1
  <2>3. CASE call.user
    <3>1. v = [call EXCEPT !.pc = "inside", !.token = Len(issued) + 1, !.awake = FALSE]
      BY <2>3
    <3> HIDE DEF v
    <3> QED
      BY <2>1, <2>2, <3>1
  <2>4. CASE ~call.user
    <3>1. v = [call EXCEPT !.pc = "slot", !.token = Len(issued) + 1, !.awake = FALSE]
      BY <2>4
    <3> HIDE DEF v
    <3> QED
      BY <2>1, <2>2, <3>1
  <2> QED
    BY <2>3, <2>4
<1>4. /\ owner' = [owner EXCEPT ![g] = o]
      /\ available' = [available EXCEPT ![g] = FALSE]
      /\ task' = [task EXCEPT ![t] = v]
      /\ issued' \in Seq(Groups)
  BY <1>1 DEF Take
<1>5. owner[g].task = Nobody
  BY DEF NoOwner
<1>6. o.task = t /\ o.token = v.token /\ o.input = v.input /\ ~o.admitted
  BY <1>3
<1> HIDE DEF o, v, g
<1> QED
  BY <1>1, <1>2, <1>3, <1>4, <1>5, <1>6, GivenStep

\* acquire and operation: the group at once, or a place among those who wait.
LEMMA AcquireStep ==
  ASSUME Agreement, NEW t \in Tasks, NEW g \in Groups, NEW user \in BOOLEAN,
         NEW change \in BOOLEAN, NEW input \in Inputs \cup {NoInput},
         Acquire(t, g, user, input, change)
  PROVE  Agreement'
<1> DEFINE call == [NoTask EXCEPT !.group = g, !.user = user, !.input = input, !.change = change]
           v == [call EXCEPT !.pc = "waiting", !.awake = available[g]]
<1>1. call \in Task /\ call.group = g
  BY BlankTypes DEF Task
<1>2. ~Holding(t)
  BY DEF Acquire, At, Holding
<1>3. CASE owner[g] = NoOwner
  <2>1. Take(t, call)
    BY <1>3 DEF Acquire
  <2> HIDE DEF call
  <2> QED
    BY <1>1, <1>2, <1>3, <2>1, TakeStep
<1>4. CASE owner[g] # NoOwner
  <2>1. task' = [task EXCEPT ![t] = v] /\ UNCHANGED <<owner, available, issued>>
    BY <1>4 DEF Acquire
  <2> HIDE DEF call
  <2>2. v \in Task /\ v.pc = "waiting" /\ v.group = g
    BY <1>1 DEF Task, Agreement, Types
  <2> HIDE DEF v
  <2> QED
    BY <1>2, <1>4, <2>1, <2>2, QuietStep
<1> QED
  BY <1>3, <1>4

\* A task that wakes leaves, takes the group, or waits for the next event.
LEMMA ResumeStep ==
  ASSUME Agreement, NEW t \in Tasks, Resume(t)
  PROVE  Agreement'
<1> DEFINE g == task[t].group
           leave == task[t].cancelling \/ (owner[g] = NoOwner /\ closed[g])
           v == [task[t] EXCEPT !.awake = available[g]]
<1>1. ~Holding(t) /\ task[t].pc = "waiting" /\ task[t] \in Task /\ g \in Groups
  BY DEF Resume, At, Holding, Agreement, Types, Task
<1>2. CASE leave
  <2>1. task' = [task EXCEPT ![t] = NoTask] /\ UNCHANGED <<owner, available, issued>>
    BY <1>2 DEF Resume
  <2>2. NoTask.pc = "off"
    BY DEF NoTask
  <2> QED
    BY <1>1, <2>1, <2>2, BlankTypes, QuietStep
<1>3. CASE ~leave /\ owner[g] = NoOwner
  <2>1. Take(t, task[t])
    BY <1>3 DEF Resume
  <2> QED
    BY <1>1, <1>3, <2>1, TakeStep
<1>4. CASE ~leave /\ owner[g] # NoOwner
  <2>1. task' = [task EXCEPT ![t] = v] /\ UNCHANGED <<owner, available, issued>>
    BY <1>4 DEF Resume
  <2>2. v \in Task /\ v.pc = "waiting" /\ v.group = g
    BY <1>1 DEF Task, Agreement, Types
  <2> HIDE DEF v
  <2> QED
    BY <1>1, <1>4, <2>1, <2>2, QuietStep
<1> QED
  BY <1>2, <1>3, <1>4

\* A reservation is bound by the one task that finds it unbound.
LEMMA BindStep ==
  ASSUME Agreement, NEW t \in Tasks, NEW x \in DOMAIN issued, NEW input \in Inputs \cup {NoInput},
         NEW job \in BOOLEAN, ~Holding(t), Bind(t, x, input, job),
         UNCHANGED <<available, issued>>
  PROVE  Agreement'
<1> DEFINE g == issued[x]
           o == [token |-> x, task |-> t, input |-> input, admitted |-> FALSE]
           v == [NoTask EXCEPT !.pc = "inside", !.group = g, !.token = x, !.user = TRUE,
                               !.input = input, !.job = job, !.cancelling = task[t].cancelling]
<1>1. g \in Groups /\ x \in Nat \ {0} /\ issued \in Seq(Groups) /\ task[t].cancelling \in BOOLEAN
  BY DEF Agreement, Types, Task
<1>2. o \in Owner
  BY <1>1 DEF Owner
<1>3. v \in Task /\ v.pc = "inside" /\ v.group = g /\ v.token = x /\ v.input = input
  BY <1>1, BlankTypes DEF Task
<1>4. /\ owner' = [owner EXCEPT ![g] = o]
      /\ task' = [task EXCEPT ![t] = v]
      /\ owner[g].task = Nobody
      /\ owner[g].token = x
  BY DEF Bind
<1>5. owner[g] # NoOwner
  BY <1>1, <1>4 DEF NoOwner
<1>6. available' = [available EXCEPT ![g] = FALSE]
  BY <1>1, <1>5 DEF Agreement, Types, FreeIsAnnounced
<1>7. o.task = t /\ o.token = v.token /\ o.input = v.input /\ ~o.admitted
  BY <1>3
<1> HIDE DEF o, v, g
<1> QED
  BY <1>1, <1>2, <1>3, <1>4, <1>6, <1>7, GivenStep

\* What Ended leaves of a task: nothing, or a job whose callback is due.
LEMMA EndedTask ==
  ASSUME Types, NEW t \in Tasks
  PROVE  /\ Ended(t) \in [Tasks -> Task]
         /\ Ended(t)[t].pc \in {"off", "done"}
         /\ \A u \in Tasks \ {t} : Ended(t)[u] = task[u]
         /\ Ended(t)[t].pc = "done" =>
               Ended(t)[t].token = task[t].token /\ Ended(t)[t].group = task[t].group
<1> DEFINE d == [NoTask EXCEPT !.pc = "done", !.token = task[t].token, !.job = TRUE,
                               !.group = task[t].group]
<1>1. task[t].token \in Nat /\ task[t].group \in Groups
  BY DEF Types, Task
<1>2. d \in Task /\ d.pc = "done" /\ d.token = task[t].token /\ d.group = task[t].group
  BY <1>1, BlankTypes DEF Task
<1>3. NoTask.pc = "off"
  BY DEF NoTask
<1>4. Ended(t) = [task EXCEPT ![t] = IF task[t].job THEN d ELSE NoTask]
  BY DEF Ended
<1> HIDE DEF d
<1> QED
  BY <1>2, <1>3, <1>4, BlankTypes DEF Types

\* start only creates the job; its lease is still the reservation.
LEMMA StartJobStep ==
  ASSUME Agreement, NEW t \in Tasks, NEW x \in DOMAIN issued, NEW input \in Inputs \cup {NoInput},
         StartJob(t, x, input)
  PROVE  Agreement'
<1> DEFINE v == [NoTask EXCEPT !.pc = "new", !.job = TRUE, !.token = x,
                               !.group = issued[x], !.input = input]
<1>1. issued[x] \in Groups /\ x \in Nat
  BY DEF Agreement, Types
<1>2. v \in Task /\ v.pc = "new"
  BY <1>1, BlankTypes DEF Task
<1>3. ~Holding(t) /\ task' = [task EXCEPT ![t] = v] /\ UNCHANGED <<owner, available, issued>>
  BY DEF StartJob, At, Holding
<1> HIDE DEF v
<1> QED
  BY <1>2, <1>3, QuietStep

\* A job's first step binds its reservation or ends the job.
LEMMA JobBeginsStep ==
  ASSUME IInv, NEW t \in Tasks, JobBegins(t)
  PROVE  Agreement'
<1>1. /\ ~Holding(t) /\ task[t].token \in DOMAIN issued
      /\ task[t].input \in Inputs \cup {NoInput}
      /\ Agreement /\ UNCHANGED <<available, issued>>
  BY DEF JobBegins, At, Holding, IInv, TokenIsIssued, Agreement, Types, Task
<1>2. CASE Bind(t, task[t].token, task[t].input, TRUE)
  BY <1>1, <1>2, BindStep
<1>3. CASE task' = Ended(t) /\ UNCHANGED owner
  <2>1. /\ Ended(t) = [task EXCEPT ![t] = Ended(t)[t]]
        /\ Ended(t)[t] \in Task /\ Ended(t)[t].pc \in {"off", "done"}
    BY <1>1, EndedTask DEF Agreement, Types
  <2> QED
    BY <1>1, <1>3, <2>1, QuietStep
<1> QED
  BY <1>2, <1>3 DEF JobBegins

\* A job's callback frees the group only if the reservation was never bound.
LEMMA JobSettledStep ==
  ASSUME IInv, NEW t \in Tasks, JobSettled(t)
  PROVE  Agreement'
<1> DEFINE x == task[t].token
           tasks == [task EXCEPT ![t] = NoTask]
<1>1. /\ task[t].pc = "done" /\ x \in DOMAIN issued /\ issued[x] = task[t].group
      /\ Agreement /\ UNCHANGED issued
  BY DEF JobSettled, At, IInv, TokenIsIssued
<1>2. NoTask.pc = "off"
  BY DEF NoTask
<1>3. /\ tasks \in [Tasks -> Task]
      /\ tasks[t] = NoTask /\ \A u \in Tasks \ {t} : tasks[u] = task[u]
  BY BlankTypes DEF IInv, Agreement, Types
<1>4. CASE Releasable(x)
  <2>1. /\ issued[x] \in Groups
        /\ \A u \in Tasks : Holding(u) => task[u].group # issued[x]
    BY <1>1, <1>4, ReleasableIsUnbound
  <2>2. Freed(issued[x], tasks)
    BY <1>1, <1>4 DEF JobSettled
  <2> HIDE DEF tasks
  <2>3. \A u \in Tasks : tasks[u].pc \in {"slot", "inside"} =>
           tasks[u] = task[u] /\ task[u].group # issued[x]
    BY <1>2, <1>3, <2>1 DEF Holding
  <2>4. \A u \in Tasks : Holding(u) /\ task[u].group # issued[x] => tasks[u] = task[u]
    BY <1>1, <1>3 DEF Holding
  <2>5. \A u \in Tasks : tasks[u].pc = "waiting" => tasks[u] = task[u]
    BY <1>2, <1>3
  <2> QED
    BY <1>1, <1>3, <2>1, <2>2, <2>3, <2>4, <2>5, FreedStep
<1>5. CASE ~Releasable(x)
  <2>1. task' = tasks /\ UNCHANGED <<owner, available>>
    BY <1>5 DEF JobSettled
  <2> QED
    BY <1>1, <1>2, <2>1, BlankTypes, QuietStep DEF Holding
<1> QED
  BY <1>4, <1>5

\* A change to a task that keeps its execution, if it has one, in place.
LEMMA SameLeaseStep ==
  ASSUME Agreement, NEW t \in Tasks, NEW v \in Task,
         v.group = task[t].group, v.token = task[t].token, v.input = task[t].input,
         v.pc = task[t].pc \/ (task[t].pc = "slot" /\ v.pc = "inside"),
         v.awake = task[t].awake,
         task' = [task EXCEPT ![t] = v],
         UNCHANGED <<owner, available, issued>>
  PROVE  Agreement'
<1> USE DEF Agreement, Types
<1>1. Types'
  OBVIOUS
<1>2. \A u \in Tasks : /\ task'[u].group = task[u].group
                       /\ task'[u].token = task[u].token
                       /\ task'[u].input = task[u].input
                       /\ task'[u].awake = task[u].awake
                       /\ Holding(u)' = Holding(u)
                       /\ task'[u].pc = "waiting" <=> task[u].pc = "waiting"
                       /\ task[u].pc = "inside" => task'[u].pc = "inside"
  BY DEF Holding
<1>3. \A g \in Groups : owner[g].task # Nobody => owner[g].task \in Tasks
  BY DEF Owner
<1> HIDE DEF Agreement, Types
<1>4. Agreement
  OBVIOUS
<1>5. OwnerIsInside'
  BY <1>2, <1>3, <1>4 DEF Agreement, OwnerIsInside, Owns
<1>6. InputIsOwners'
  BY <1>2, <1>3, <1>4 DEF Agreement, InputIsOwners
<1>7. FreeIsAnnounced'
  BY <1>2, <1>4 DEF Agreement, FreeIsAnnounced, At
<1>8. AdmittedIsExecuting'
  BY <1>2, <1>3, <1>4 DEF Agreement, AdmittedIsExecuting, At
<1> QED
  BY <1>1, <1>5, <1>6, <1>7, <1>8 DEF Agreement

\* The background task gets its slot.
LEMMA EnterSlotStep ==
  ASSUME Agreement, NEW t \in Tasks, EnterSlot(t)
  PROVE  Agreement'
<1> DEFINE v == [task[t] EXCEPT !.pc = "inside"]
<1>1. v \in Task /\ v.pc = "inside" /\ v.group = task[t].group /\ v.token = task[t].token
      /\ v.input = task[t].input /\ v.awake = task[t].awake
  BY DEF Agreement, Types, Task
<1>2. task[t].pc = "slot" /\ task' = [task EXCEPT ![t] = v] /\ UNCHANGED <<owner, available, issued>>
  BY DEF EnterSlot, At
<1> HIDE DEF v
<1> QED
  BY <1>1, <1>2, SameLeaseStep

\* A cancellation is a request: the lease stays until the task has cleaned up.
LEMMA CancelStep ==
  ASSUME Agreement, NEW t \in Tasks, task' = [task EXCEPT ![t].cancelling = TRUE],
         UNCHANGED <<owner, available, issued>>
  PROVE  Agreement'
<1> DEFINE v == [task[t] EXCEPT !.cancelling = TRUE]
<1>1. v \in Task /\ v.pc = task[t].pc /\ v.group = task[t].group /\ v.token = task[t].token
      /\ v.input = task[t].input /\ v.awake = task[t].awake
  BY DEF Agreement, Types, Task
<1>2. task' = [task EXCEPT ![t] = v]
  OBVIOUS
<1> HIDE DEF v
<1> QED
  BY <1>1, <1>2, SameLeaseStep

\* The owner leaves: it still owns the group, so the group becomes free.
LEMMA FinishStep ==
  ASSUME Agreement, NEW t \in Tasks, Finish(t)
  PROVE  Agreement'
<1> DEFINE g == task[t].group
<1>1. Holding(t) /\ Owns(t) /\ g \in Groups /\ Types
  BY DEF Finish, At, Holding, Agreement, OwnerIsInside, Types, Task
<1>2. Freed(g, Ended(t)) /\ issued' = issued
  BY <1>1 DEF Finish
<1>3. \A u \in Tasks \ {t} : Holding(u) => task[u].group # g
  BY <1>1 DEF Agreement, OwnerIsInside, Owns
<1> DEFINE tasks == Ended(t)
<1>4. /\ tasks \in [Tasks -> Task]
      /\ tasks[t].pc \in {"off", "done"}
      /\ \A u \in Tasks \ {t} : tasks[u] = task[u]
  BY <1>1, EndedTask
<1>5. Freed(g, tasks)
  BY <1>2
<1> HIDE DEF tasks
<1>6. \A u \in Tasks : tasks[u].pc \in {"slot", "inside"} => tasks[u] = task[u] /\ task[u].group # g
  BY <1>3, <1>4 DEF Holding
<1>7. \A u \in Tasks : Holding(u) /\ task[u].group # g => tasks[u] = task[u]
  BY <1>4
<1>8. \A u \in Tasks : tasks[u].pc = "waiting" => tasks[u] = task[u]
  BY <1>4
<1> QED
  BY <1>1, <1>2, <1>4, <1>5, <1>6, <1>7, <1>8, FreedStep

\* The input of the task inside is admitted.
LEMMA ConfirmInputStep ==
  ASSUME Agreement, NEW t \in Tasks, NEW input \in Inputs, ConfirmInput(t, input)
  PROVE  Agreement'
<1> DEFINE g == task[t].group
           o == [owner[g] EXCEPT !.admitted = TRUE]
<1>1. g \in Groups /\ owner[g] \in Owner /\ t # Nobody
  BY NobodyAssumption DEF Agreement, Types, Task
<1>2. /\ owner[g].task = t /\ task[t].pc = "inside" /\ owner' = [owner EXCEPT ![g] = o]
      /\ UNCHANGED <<available, issued, task>>
  BY DEF ConfirmInput, At
<1>3. o \in Owner /\ o.token = owner[g].token /\ o.task = t /\ o.input = owner[g].input
  BY <1>1, <1>2 DEF Owner
<1>4. o # NoOwner /\ owner[g] # NoOwner
  BY <1>1, <1>2, <1>3 DEF NoOwner
<1> HIDE DEF o, g
<1> USE DEF Agreement, Types
<1>5. Types'
  BY <1>1, <1>2, <1>3
<1>6. \A h \in Groups : /\ owner'[h].token = owner[h].token
                        /\ owner'[h].task = owner[h].task
                        /\ owner'[h].input = owner[h].input
                        /\ owner'[h] = NoOwner <=> owner[h] = NoOwner
                        /\ h # g => owner'[h] = owner[h]
  BY <1>1, <1>2, <1>3, <1>4
<1>7. OwnerIsInside'
  BY <1>2, <1>6 DEF OwnerIsInside, Holding, Owns, Task
<1>8. InputIsOwners'
  BY <1>2, <1>6 DEF InputIsOwners
<1>9. FreeIsAnnounced'
  BY <1>2, <1>6 DEF FreeIsAnnounced, At
<1>10. AdmittedIsExecuting'
  BY <1>1, <1>2, <1>6 DEF AdmittedIsExecuting, InputIsOwners, At
<1> QED
  BY <1>5, <1>7, <1>8, <1>9, <1>10

-----------------------------------------------------------------------------
(* The tokens. *)

\* Tokens stay issued; a task that has one keeps it or got another issued one.
LEMMA TokensKept ==
  ASSUME TokenIsIssued,
         \A x \in DOMAIN issued : x \in DOMAIN issued' /\ issued'[x] = issued[x],
         \A t \in Tasks : task'[t].pc \notin {"off", "waiting"} =>
            \/ task'[t].token \in DOMAIN issued' /\ issued'[task'[t].token] = task'[t].group
            \/ /\ task[t].pc \notin {"off", "waiting"}
               /\ task'[t].token = task[t].token /\ task'[t].group = task[t].group
  PROVE  TokenIsIssued'
BY DEF TokenIsIssued

\* The two shared pieces: waking tasks moves none, and taking issues a token.
LEMMA TokensFreed ==
  ASSUME TokenIsIssued, NEW g, NEW tasks \in [Tasks -> Task], Freed(g, tasks), issued' = issued,
         \A t \in Tasks : tasks[t].pc \notin {"off", "waiting"} =>
            /\ task[t].pc \notin {"off", "waiting"}
            /\ tasks[t].token = task[t].token /\ tasks[t].group = task[t].group
  PROVE  TokenIsIssued'
<1>1. \A t \in Tasks : /\ task'[t].pc = tasks[t].pc
                       /\ task'[t].token = tasks[t].token
                       /\ task'[t].group = tasks[t].group
  BY DEF Freed, Woken, Task
<1> QED
  BY <1>1, TokensKept

LEMMA TokensTaken ==
  ASSUME TokenIsIssued, Types, NEW t \in Tasks, NEW call \in Task, Take(t, call)
  PROVE  TokenIsIssued'
<1> DEFINE v == [call EXCEPT !.pc = IF call.user THEN "inside" ELSE "slot",
                             !.token = Len(issued) + 1, !.awake = FALSE]
<1>1. call.group \in Groups
  BY DEF Task
<1>2. issued' = Append(issued, call.group) /\ task' = [task EXCEPT ![t] = v]
  BY DEF Take
<1>3. v.token = Len(issued) + 1 /\ v.group = call.group
  BY DEF Task
<1> HIDE DEF v
<1>4. /\ \A x \in DOMAIN issued : x \in DOMAIN issued' /\ issued'[x] = issued[x]
      /\ v.token \in DOMAIN issued' /\ issued'[v.token] = v.group
  BY <1>1, <1>2, <1>3 DEF Types
<1>5. \A u \in Tasks : task'[u] = IF u = t THEN v ELSE task[u]
  BY <1>2 DEF Types
<1> QED
  BY <1>4, <1>5, TokensKept

\* Every step keeps the tokens of jobs and executions issued.
LEMMA TokenStep ==
  ASSUME TokenIsIssued, Types, [Next]_vars
  PROVE  TokenIsIssued'
<1> USE DEF Types
<1>1. ASSUME UNCHANGED <<issued, task>> PROVE TokenIsIssued'
  BY <1>1 DEF TokenIsIssued
<1>2. ASSUME NEW g \in Groups, Reserve(g) PROVE TokenIsIssued'
  BY <1>2, TokensKept DEF Reserve
<1>3. ASSUME NEW x \in DOMAIN issued, Release(x) PROVE TokenIsIssued'
  BY <1>3, TokensFreed DEF Release
<1>4. ASSUME NEW t \in Tasks, NEW g \in Groups, NEW user \in BOOLEAN, NEW change \in BOOLEAN,
             NEW input \in Inputs \cup {NoInput}, Acquire(t, g, user, input, change)
      PROVE  TokenIsIssued'
  <2> DEFINE call == [NoTask EXCEPT !.group = g, !.user = user, !.input = input, !.change = change]
             v == [call EXCEPT !.pc = "waiting", !.awake = available[g]]
  <2>1. call \in Task
    BY BlankTypes DEF Task
  <2>2. Take(t, call) \/ (task' = [task EXCEPT ![t] = v] /\ issued' = issued)
    BY <1>4 DEF Acquire
  <2> HIDE DEF call
  <2>3. v.pc = "waiting"
    BY <2>1 DEF Task
  <2> HIDE DEF v
  <2> QED
    BY <2>1, <2>2, <2>3, TokensTaken, TokensKept
<1>5. ASSUME NEW t \in Tasks, NEW x \in DOMAIN issued, NEW input, NEW job,
             Bind(t, x, input, job), issued' = issued
      PROVE  TokenIsIssued'
  <2> DEFINE v == [NoTask EXCEPT !.pc = "inside", !.group = issued[x], !.token = x, !.user = TRUE,
                     !.input = input, !.job = job, !.cancelling = task[t].cancelling]
  <2>1. task' = [task EXCEPT ![t] = v]
    BY <1>5 DEF Bind
  <2>2. v.token = x /\ v.group = issued[x]
    BY BlankTypes DEF Task
  <2> HIDE DEF v
  <2> QED
    BY <1>5, <2>1, <2>2, TokensKept
<1>6. ASSUME NEW t \in Tasks, NEW x \in DOMAIN issued, NEW input, StartJob(t, x, input)
      PROVE  TokenIsIssued'
  <2> DEFINE v == [NoTask EXCEPT !.pc = "new", !.job = TRUE, !.token = x,
                                 !.group = issued[x], !.input = input]
  <2>1. task' = [task EXCEPT ![t] = v] /\ issued' = issued
    BY <1>6 DEF StartJob
  <2>2. v.token = x /\ v.group = issued[x]
    BY BlankTypes DEF Task
  <2> HIDE DEF v
  <2> QED
    BY <2>1, <2>2, TokensKept
<1>7. ASSUME NEW t \in Tasks, task' = [task EXCEPT ![t] = NoTask], issued' = issued
      PROVE  TokenIsIssued'
  <2>1. NoTask.pc = "off"
    BY DEF NoTask
  <2> QED
    BY <1>7, <2>1, TokensKept
<1>8. ASSUME NEW t \in Tasks, Resume(t) PROVE TokenIsIssued'
  <2> DEFINE v == [task[t] EXCEPT !.awake = available[task[t].group]]
  <2>1. /\ task[t].pc = "waiting" /\ task[t] \in Task
        /\ \/ Take(t, task[t])
           \/ task' = [task EXCEPT ![t] = NoTask] /\ issued' = issued
           \/ task' = [task EXCEPT ![t] = v] /\ issued' = issued
    BY <1>8 DEF Resume, At
  <2>2. v.pc = "waiting"
    BY <2>1 DEF Task
  <2> HIDE DEF v
  <2> QED
    BY <2>1, <2>2, <1>7, TokensTaken, TokensKept
<1>9. ASSUME NEW t \in Tasks, JobBegins(t) PROVE TokenIsIssued'
  <2>1. task[t].pc = "new" /\ task[t].token \in DOMAIN issued /\ issued' = issued
    BY <1>9 DEF JobBegins, At, TokenIsIssued
  <2>2. CASE Bind(t, task[t].token, task[t].input, TRUE)
    BY <2>1, <2>2, <1>5
  <2>3. CASE task' = Ended(t)
    BY <2>1, <2>3, EndedTask, TokensKept
  <2> QED
    BY <1>9, <2>2, <2>3 DEF JobBegins
<1>10. ASSUME NEW t \in Tasks, JobSettled(t) PROVE TokenIsIssued'
  <2> DEFINE tasks == [task EXCEPT ![t] = NoTask]
  <2>1. NoTask.pc = "off"
    BY DEF NoTask
  <2>2. tasks \in [Tasks -> Task] /\ tasks[t] = NoTask /\ \A u \in Tasks \ {t} : tasks[u] = task[u]
    BY BlankTypes
  <2>3. issued' = issued /\ (Freed(task[t].group, tasks) \/ task' = tasks)
    BY <1>10 DEF JobSettled
  <2>4. CASE task' = tasks
    BY <2>3, <2>4, <1>7
  <2>5. CASE Freed(task[t].group, tasks)
    <3> HIDE DEF tasks
    <3> QED
      BY <2>1, <2>2, <2>3, <2>5, TokensFreed
  <2> QED
    BY <2>3, <2>4, <2>5
<1>11. ASSUME NEW t \in Tasks, EnterSlot(t) PROVE TokenIsIssued'
  <2>1. /\ task[t].pc = "slot" /\ task[t] \in Task /\ issued' = issued
        /\ task' = [task EXCEPT ![t] = [task[t] EXCEPT !.pc = "inside"]]
    BY <1>11 DEF EnterSlot, At
  <2> QED
    BY <2>1, TokensKept DEF Task
<1>12. ASSUME NEW t \in Tasks, Finish(t) PROVE TokenIsIssued'
  <2> DEFINE tasks == Ended(t)
  <2>1. /\ task[t].pc \in {"inside", "slot"} /\ issued' = issued
        /\ Freed(task[t].group, tasks) \/ task' = tasks
    BY <1>12 DEF Finish, At
  <2>2. /\ tasks \in [Tasks -> Task]
        /\ \A u \in Tasks : tasks[u].pc \notin {"off", "waiting"} =>
              /\ task[u].pc \notin {"off", "waiting"}
              /\ tasks[u].token = task[u].token /\ tasks[u].group = task[u].group
    BY <2>1, EndedTask
  <2> HIDE DEF tasks
  <2> QED
    BY <2>1, <2>2, TokensFreed, TokensKept
<1>13. ASSUME NEW t \in Tasks, task' = [task EXCEPT ![t].cancelling = TRUE], issued' = issued
       PROVE  TokenIsIssued'
  <2>1. \A u \in Tasks : /\ task'[u].pc = task[u].pc
                         /\ task'[u].token = task[u].token
                         /\ task'[u].group = task[u].group
    BY <1>13 DEF Task
  <2> QED
    BY <1>13, <2>1, TokensKept
<1>14. ASSUME NEW t \in Tasks, CancelTask(t) PROVE TokenIsIssued'
  BY <1>13, <1>14 DEF CancelTask
<1>15. ASSUME NEW g \in Groups, NEW input \in Inputs, CancelInput(g, input) PROVE TokenIsIssued'
  <2>1. owner[g].task \in Tasks
    BY <1>15 DEF CancelInput, OwnsInput, Owner
  <2> QED
    BY <1>13, <1>15, <2>1 DEF CancelInput
<1> QED
  BY <1>1, <1>2, <1>3, <1>4, <1>5, <1>6, <1>8, <1>9, <1>10, <1>11, <1>12, <1>14, <1>15
     DEF Next, vars, CloseAdmission, AcquireReserved, ConfirmInput

-----------------------------------------------------------------------------
(* The counters. *)

\* What a task's record adds to waiting[g], to context[g], and takes from free.
Waits(v, g) == v.pc = "waiting" /\ v.group = g /\ v.user
Changes(v, g) == v.pc \in {"waiting", "inside"} /\ v.group = g /\ v.change
InSlot(v) == v.pc = "inside" /\ ~v.user

\* Only a user's call changes the context, and only background work waits for
\* a slot: a call that waits for one is in neither of the group's counts.
CallsAreOne(v) == (v.change => v.user) /\ (v.pc = "slot" => ~v.user)

\* Without these the counts are not inductive.
CInv ==
    /\ closed \in [Groups -> BOOLEAN]
    /\ waiting \in [Groups -> Int] /\ context \in [Groups -> Int] /\ free \in Nat
    /\ \A t \in Tasks : CallsAreOne(task[t])
    /\ CountsAreLive

\* What the counts and their invariant see of a task.
SameCall(v, w) == v.pc = w.pc /\ v.group = w.group /\ v.user = w.user /\ v.change = w.change

\* Two sets of tasks that differ at most in t: the difference of their sizes.
LEMMA CountMoves ==
  ASSUME NEW A \in SUBSET Tasks, NEW B \in SUBSET Tasks, NEW t \in Tasks,
         \A u \in Tasks \ {t} : u \in A <=> u \in B
  PROVE  /\ Cardinality(A) \in Nat /\ Cardinality(B) \in Nat
         /\ Cardinality(B) + AsNat(t \in A) = Cardinality(A) + AsNat(t \in B)
<1>1. IsFiniteSet(A) /\ IsFiniteSet(B)
  BY TasksAssumption, FS_Subset
<1>2. Cardinality(A) \in Nat /\ Cardinality(B) \in Nat
  BY <1>1, FS_CardinalityType
<1>3. CASE t \in A <=> t \in B
  <2>1. A = B
    BY <1>3
  <2> QED
    BY <1>2, <2>1 DEF AsNat
<1>4. CASE t \in A /\ t \notin B
  <2>1. B = A \ {t}
    BY <1>4
  <2>2. Cardinality(B) = Cardinality(A) - 1
    BY <1>1, <1>4, <2>1, FS_RemoveElement
  <2> QED
    BY <1>2, <1>4, <2>2 DEF AsNat
<1>5. CASE t \notin A /\ t \in B
  <2>1. B = A \cup {t}
    BY <1>5
  <2>2. Cardinality(B) = Cardinality(A) + 1
    BY <1>1, <1>5, <2>1, FS_AddElement
  <2> QED
    BY <1>2, <1>5, <2>2 DEF AsNat
<1> QED
  BY <1>3, <1>4, <1>5

\* A counter that moved with its task still counts.
LEMMA StillCounts ==
  ASSUME NEW c \in Int, NEW d \in Int, NEW m \in Nat, NEW n \in Nat, NEW a \in Int, NEW b \in Int,
         c = m, n + a = m + b, d + a = c + b
  PROVE  d = n
OBVIOUS

\* The slots taken and given back balance.
LEMMA SlotsBalance ==
  ASSUME NEW f \in Nat, NEW g \in Nat, NEW m \in Nat, NEW n \in Nat, NEW a \in Int, NEW b \in Int,
         NEW s \in Int, f + m = s, n + a = m + b, g + b = f + a
  PROVE  g + n = s
OBVIOUS

\* One task's call changes and the counters with it.
LEMMA CountStep ==
  ASSUME CInv, NEW t \in Tasks, NEW v, CallsAreOne(v),
         \A u \in Tasks : SameCall(task'[u], IF u = t THEN v ELSE task[u]),
         closed' \in [Groups -> BOOLEAN],
         waiting' \in [Groups -> Int], context' \in [Groups -> Int], free' \in Nat,
         \A g \in Groups : waiting'[g] + AsNat(Waits(task[t], g)) = waiting[g] + AsNat(Waits(v, g)),
         \A g \in Groups : context'[g] + AsNat(Changes(task[t], g)) = context[g] + AsNat(Changes(v, g)),
         free' + AsNat(InSlot(v)) = free + AsNat(InSlot(task[t]))
  PROVE  CInv'
<1>1. \A u \in Tasks : CallsAreOne(task'[u])
  BY DEF CInv, CallsAreOne, SameCall
<1>2. ASSUME NEW g \in Groups
      PROVE  waiting'[g] = Cardinality({u \in Tasks : Waits(task'[u], g)})
  <2> DEFINE A == {u \in Tasks : Waits(task[u], g)}
             B == {u \in Tasks : Waits(task'[u], g)}
  <2>1. (t \in A <=> Waits(task[t], g)) /\ (t \in B <=> Waits(v, g))
    BY DEF SameCall, Waits
  <2>2. \A u \in Tasks \ {t} : u \in A <=> u \in B
    BY DEF SameCall, Waits
  <2>3. waiting[g] = Cardinality(A)
    BY DEF CInv, CountsAreLive, Waits, At
  <2>4. A \in SUBSET Tasks /\ B \in SUBSET Tasks
    OBVIOUS
  <2>5. AsNat(t \in A) = AsNat(Waits(task[t], g)) /\ AsNat(t \in B) = AsNat(Waits(v, g))
    BY <2>1 DEF AsNat
  <2> HIDE DEF A, B
  <2>6. /\ Cardinality(A) \in Nat /\ Cardinality(B) \in Nat
        /\ Cardinality(B) + AsNat(t \in A) = Cardinality(A) + AsNat(t \in B)
    BY <2>2, <2>4, CountMoves
  <2>7. /\ AsNat(t \in A) \in Int /\ AsNat(t \in B) \in Int /\ waiting[g] \in Int /\ waiting'[g] \in Int
        /\ waiting'[g] + AsNat(t \in A) = waiting[g] + AsNat(t \in B)
    BY <2>5 DEF CInv, AsNat
  <2>8. waiting'[g] = Cardinality(B)
    BY <2>3, <2>6, <2>7, StillCounts
  <2> QED
    BY <2>8 DEF B
<1>3. ASSUME NEW g \in Groups
      PROVE  context'[g] = Cardinality({u \in Tasks : Changes(task'[u], g)})
  <2> DEFINE A == {u \in Tasks : Changes(task[u], g)}
             B == {u \in Tasks : Changes(task'[u], g)}
  <2>1. (t \in A <=> Changes(task[t], g)) /\ (t \in B <=> Changes(v, g))
    BY DEF SameCall, Changes
  <2>2. \A u \in Tasks \ {t} : u \in A <=> u \in B
    BY DEF SameCall, Changes
  <2>3. context[g] = Cardinality(A)
    BY DEF CInv, CountsAreLive, Changes
  <2>4. A \in SUBSET Tasks /\ B \in SUBSET Tasks
    OBVIOUS
  <2>5. AsNat(t \in A) = AsNat(Changes(task[t], g)) /\ AsNat(t \in B) = AsNat(Changes(v, g))
    BY <2>1 DEF AsNat
  <2> HIDE DEF A, B
  <2>6. /\ Cardinality(A) \in Nat /\ Cardinality(B) \in Nat
        /\ Cardinality(B) + AsNat(t \in A) = Cardinality(A) + AsNat(t \in B)
    BY <2>2, <2>4, CountMoves
  <2>7. /\ AsNat(t \in A) \in Int /\ AsNat(t \in B) \in Int /\ context[g] \in Int /\ context'[g] \in Int
        /\ context'[g] + AsNat(t \in A) = context[g] + AsNat(t \in B)
    BY <2>5 DEF CInv, AsNat
  <2>8. context'[g] = Cardinality(B)
    BY <2>3, <2>6, <2>7, StillCounts
  <2> QED
    BY <2>8 DEF B
<1>4. free' + Cardinality({u \in Tasks : InSlot(task'[u])}) = Slots
  <2> DEFINE A == {u \in Tasks : InSlot(task[u])}
             B == {u \in Tasks : InSlot(task'[u])}
  <2>1. (t \in A <=> InSlot(task[t])) /\ (t \in B <=> InSlot(v))
    BY DEF SameCall, InSlot
  <2>2. \A u \in Tasks \ {t} : u \in A <=> u \in B
    BY DEF SameCall, InSlot
  <2>3. free + Cardinality(A) = Slots
    BY DEF CInv, CountsAreLive, InSlot, At
  <2>4. A \in SUBSET Tasks /\ B \in SUBSET Tasks
    OBVIOUS
  <2>5. AsNat(t \in A) = AsNat(InSlot(task[t])) /\ AsNat(t \in B) = AsNat(InSlot(v))
    BY <2>1 DEF AsNat
  <2> HIDE DEF A, B
  <2>6. /\ Cardinality(A) \in Nat /\ Cardinality(B) \in Nat
        /\ Cardinality(B) + AsNat(t \in A) = Cardinality(A) + AsNat(t \in B)
    BY <2>2, <2>4, CountMoves
  <2>7. /\ AsNat(t \in A) \in Int /\ AsNat(t \in B) \in Int /\ free \in Nat /\ Slots \in Int
        /\ free' + AsNat(t \in B) = free + AsNat(t \in A)
    BY <2>5, SlotsAssumption DEF CInv, AsNat
  <2>8. free' + Cardinality(B) = Slots
    BY <2>3, <2>6, <2>7, SlotsBalance
  <2> QED
    BY <2>8 DEF B
<1> QED
  BY <1>1, <1>2, <1>3, <1>4 DEF CInv, CountsAreLive, Waits, Changes, InSlot, At

\* Nobody's call changes.
LEMMA SameCounts ==
  ASSUME CInv, \A u \in Tasks : SameCall(task'[u], task[u]),
         closed' \in [Groups -> BOOLEAN], UNCHANGED <<waiting, context, free>>
  PROVE  CInv'
<1>1. ASSUME NEW g \in Groups
      PROVE  /\ {u \in Tasks : Waits(task'[u], g)} = {u \in Tasks : Waits(task[u], g)}
             /\ {u \in Tasks : Changes(task'[u], g)} = {u \in Tasks : Changes(task[u], g)}
  BY DEF SameCall, Waits, Changes
<1>2. {u \in Tasks : InSlot(task'[u])} = {u \in Tasks : InSlot(task[u])}
  BY DEF SameCall, InSlot
<1>3. \A u \in Tasks : CallsAreOne(task'[u])
  BY DEF CInv, CallsAreOne, SameCall
<1> QED
  BY <1>1, <1>2, <1>3 DEF CInv, CountsAreLive, Waits, Changes, InSlot, At

\* A task that no counter counts becomes another.
LEMMA UncountedStep ==
  ASSUME CInv, NEW t \in Tasks, NEW v, CallsAreOne(v),
         \A u \in Tasks : SameCall(task'[u], IF u = t THEN v ELSE task[u]),
         task[t].pc \notin {"waiting", "inside"},
         v.pc = "waiting" \/ v.pc = "inside" => v.pc = "inside" /\ v.user /\ ~v.change,
         UNCHANGED <<closed, waiting, context, free>>
  PROVE  CInv'
<1>1. \A g \in Groups : ~Waits(task[t], g) /\ ~Waits(v, g)
  BY DEF Waits
<1>2. \A g \in Groups : ~Changes(task[t], g) /\ ~Changes(v, g)
  BY DEF Changes
<1>3. ~InSlot(task[t]) /\ ~InSlot(v)
  BY DEF InSlot
<1>4. /\ closed' \in [Groups -> BOOLEAN] /\ waiting' \in [Groups -> Int]
      /\ context' \in [Groups -> Int] /\ free' \in Nat
  BY DEF CInv
<1>5. /\ \A g \in Groups : waiting'[g] + AsNat(Waits(task[t], g)) = waiting[g] + AsNat(Waits(v, g))
      /\ \A g \in Groups : context'[g] + AsNat(Changes(task[t], g)) = context[g] + AsNat(Changes(v, g))
      /\ free' + AsNat(InSlot(v)) = free + AsNat(InSlot(task[t]))
  BY <1>1, <1>2, <1>3 DEF AsNat
<1> QED
  BY <1>4, <1>5, CountStep

\* Waking a task leaves its call alone.
LEMMA WokenCalls ==
  ASSUME NEW g, NEW tasks \in [Tasks -> Task], NEW u \in Tasks
  PROVE  SameCall(Woken(g, tasks)[u], tasks[u])
<1>1. ASSUME NEW v \in Task PROVE SameCall([v EXCEPT !.awake = TRUE], v)
  BY DEF Task, SameCall
<1>2. SameCall(tasks[u], tasks[u])
  BY DEF SameCall
<1> QED
  BY <1>1, <1>2 DEF Woken

\* The record of a task that takes a group.
LEMMA TakenCall ==
  ASSUME Types, NEW t \in Tasks, NEW call \in Task, Take(t, call)
  PROVE  /\ task'[t].pc = (IF call.user THEN "inside" ELSE "slot")
         /\ task'[t].group = call.group /\ task'[t].user = call.user /\ task'[t].change = call.change
         /\ \A u \in Tasks \ {t} : task'[u] = task[u]
<1> DEFINE p == IF call.user THEN "inside" ELSE "slot"
           n == Len(issued) + 1
           v == [call EXCEPT !.pc = p, !.token = n, !.awake = FALSE]
<1>1. task' = [task EXCEPT ![t] = v]
  BY DEF Take
<1> HIDE DEF p, n
<1>2. v.pc = p /\ v.group = call.group /\ v.user = call.user /\ v.change = call.change
  BY DEF Task
<1> HIDE DEF v
<1>3. task'[t] = v /\ \A u \in Tasks \ {t} : task'[u] = task[u]
  BY <1>1 DEF Types
<1> QED
  BY <1>2, <1>3 DEF p

\* acquire counts the call it makes wait and the change it announces.
LEMMA AcquireCounts ==
  ASSUME Types, CInv, NEW t \in Tasks, NEW g \in Groups, NEW user \in BOOLEAN,
         NEW change \in BOOLEAN, NEW input \in Inputs \cup {NoInput},
         Acquire(t, g, user, input, change)
  PROVE  CInv'
<1> DEFINE call == [NoTask EXCEPT !.group = g, !.user = user, !.input = input, !.change = change]
           w == [call EXCEPT !.pc = "waiting", !.awake = available[g]]
<1>1. call \in Task /\ call.group = g /\ call.user = user /\ call.change = change
  BY BlankTypes DEF Task
<1>2. /\ task[t].pc = "off" /\ (change => user)
      /\ context' = [context EXCEPT ![g] = @ + AsNat(change)]
      /\ UNCHANGED <<closed, free>>
  BY DEF Acquire, At
<1> DEFINE v == task'[t]
<1>3. /\ v.group = g /\ v.user = user /\ v.change = change
      /\ \A u \in Tasks \ {t} : task'[u] = task[u]
      /\ waiting' = [waiting EXCEPT ![g] = @ + AsNat(user /\ v.pc = "waiting")]
      /\ IF user THEN v.pc \in {"waiting", "inside"} ELSE v.pc \in {"waiting", "slot"}
  <2>1. CASE owner[g] = NoOwner
    <3>1. Take(t, call) /\ waiting' = waiting
      BY <2>1 DEF Acquire
    <3> HIDE DEF call
    <3>2. /\ v.pc = (IF user THEN "inside" ELSE "slot")
          /\ v.group = g /\ v.user = user /\ v.change = change
          /\ \A u \in Tasks \ {t} : task'[u] = task[u]
      BY <1>1, <3>1, TakenCall
    <3>3. waiting' = [waiting EXCEPT ![g] = @ + AsNat(user /\ v.pc = "waiting")]
      BY <3>1, <3>2 DEF AsNat, CInv
    <3> QED
      BY <3>2, <3>3
  <2>2. CASE owner[g] # NoOwner
    <3>1. task' = [task EXCEPT ![t] = w] /\ waiting' = [waiting EXCEPT ![g] = @ + AsNat(user)]
      BY <2>2 DEF Acquire
    <3> HIDE DEF call
    <3>2. w.pc = "waiting" /\ w.group = g /\ w.user = user /\ w.change = change
      BY <1>1 DEF Task
    <3> HIDE DEF w
    <3>3. v = w /\ \A u \in Tasks \ {t} : task'[u] = task[u]
      BY <3>1 DEF Types
    <3> QED
      BY <3>1, <3>2, <3>3 DEF AsNat
  <2> QED
    BY <2>1, <2>2
<1>4. CallsAreOne(v) /\ \A u \in Tasks : SameCall(task'[u], IF u = t THEN v ELSE task[u])
  BY <1>2, <1>3 DEF CallsAreOne, SameCall
<1> HIDE DEF v
<1>5. /\ closed' \in [Groups -> BOOLEAN] /\ waiting' \in [Groups -> Int]
      /\ context' \in [Groups -> Int] /\ free' \in Nat
  BY <1>2, <1>3 DEF CInv, AsNat
<1>6. \A h \in Groups : waiting'[h] + AsNat(Waits(task[t], h)) = waiting[h] + AsNat(Waits(v, h))
  BY <1>2, <1>3 DEF CInv, AsNat, Waits
<1>7. \A h \in Groups : context'[h] + AsNat(Changes(task[t], h)) = context[h] + AsNat(Changes(v, h))
  BY <1>2, <1>3 DEF CInv, AsNat, Changes
<1>8. free' + AsNat(InSlot(v)) = free + AsNat(InSlot(task[t]))
  BY <1>2, <1>3 DEF CInv, AsNat, InSlot
<1> QED
  BY <1>4, <1>5, <1>6, <1>7, <1>8, CountStep

\* A call that leaves, cancelled or refused, is counted no more; one that takes
\* the group has stopped waiting; one that is too late waits on.
LEMMA ResumeCounts ==
  ASSUME Types, CInv, NEW t \in Tasks, Resume(t)
  PROVE  CInv'
<1> DEFINE x == task[t]
           leave == x.cancelling \/ (owner[x.group] = NoOwner /\ closed[x.group])
           w == [x EXCEPT !.awake = available[x.group]]
<1>1. /\ x \in Task /\ x.pc = "waiting" /\ x.group \in Groups /\ CallsAreOne(x)
      /\ x.user \in BOOLEAN /\ x.change \in BOOLEAN /\ UNCHANGED <<closed, free>>
      /\ waiting' = IF leave \/ owner[x.group] = NoOwner
                    THEN [waiting EXCEPT ![x.group] = @ - AsNat(x.user)] ELSE waiting
      /\ context' = IF leave THEN [context EXCEPT ![x.group] = @ - AsNat(x.change)] ELSE context
  BY DEF Resume, At, Types, Task, CInv
<1>2. /\ closed' \in [Groups -> BOOLEAN] /\ waiting' \in [Groups -> Int]
      /\ context' \in [Groups -> Int] /\ free' \in Nat
  BY <1>1 DEF CInv, AsNat
<1>3. CASE leave
  <2>1. task' = [task EXCEPT ![t] = NoTask]
    BY <1>3 DEF Resume
  <2>2. NoTask.pc = "off" /\ CallsAreOne(NoTask)
    BY DEF NoTask, CallsAreOne
  <2>3. \A u \in Tasks : SameCall(task'[u], IF u = t THEN NoTask ELSE task[u])
    BY <2>1 DEF Types, SameCall
  <2>4. \A h \in Groups : waiting'[h] + AsNat(Waits(task[t], h)) = waiting[h] + AsNat(Waits(NoTask, h))
    BY <1>1, <1>3, <2>2 DEF CInv, AsNat, Waits
  <2>5. \A h \in Groups : context'[h] + AsNat(Changes(task[t], h)) = context[h] + AsNat(Changes(NoTask, h))
    BY <1>1, <1>3, <2>2 DEF CInv, AsNat, Changes
  <2>6. free' + AsNat(InSlot(NoTask)) = free + AsNat(InSlot(task[t]))
    BY <1>1, <2>2 DEF CInv, AsNat, InSlot
  <2> QED
    BY <1>2, <2>2, <2>3, <2>4, <2>5, <2>6, CountStep
<1>4. CASE ~leave /\ owner[x.group] = NoOwner
  <2> DEFINE v == task'[t]
  <2>1. Take(t, x)
    BY <1>4 DEF Resume
  <2>2. /\ v.pc = (IF x.user THEN "inside" ELSE "slot")
        /\ v.group = x.group /\ v.user = x.user /\ v.change = x.change
        /\ \A u \in Tasks \ {t} : task'[u] = task[u]
    BY <1>1, <2>1, TakenCall
  <2>3. CallsAreOne(v) /\ \A u \in Tasks : SameCall(task'[u], IF u = t THEN v ELSE task[u])
    BY <1>1, <2>2 DEF CallsAreOne, SameCall
  <2> HIDE DEF v
  <2>4. \A h \in Groups : waiting'[h] + AsNat(Waits(task[t], h)) = waiting[h] + AsNat(Waits(v, h))
    BY <1>1, <1>4, <2>2 DEF CInv, AsNat, Waits
  <2>5. \A h \in Groups : context'[h] + AsNat(Changes(task[t], h)) = context[h] + AsNat(Changes(v, h))
    <3>1. \A h \in Groups : Changes(task[t], h) <=> Changes(v, h)
      BY <1>1, <2>2 DEF Changes, CallsAreOne
    <3> QED
      BY <1>1, <1>4, <3>1 DEF CInv, AsNat
  <2>6. free' + AsNat(InSlot(v)) = free + AsNat(InSlot(task[t]))
    BY <1>1, <2>2 DEF CInv, AsNat, InSlot
  <2> QED
    BY <1>2, <2>3, <2>4, <2>5, <2>6, CountStep
<1>5. CASE ~leave /\ owner[x.group] # NoOwner
  <2>1. task' = [task EXCEPT ![t] = w]
    BY <1>5 DEF Resume
  <2>2. SameCall(w, x)
    BY <1>1 DEF Task, SameCall
  <2> HIDE DEF w
  <2>3. \A u \in Tasks : SameCall(task'[u], task[u])
    BY <2>1, <2>2 DEF Types, SameCall
  <2> QED
    BY <1>1, <1>2, <1>5, <2>3, SameCounts
<1> QED
  BY <1>3, <1>4, <1>5

\* A reservation is counted nowhere.
LEMMA BindCounts ==
  ASSUME Types, CInv, NEW t \in Tasks, NEW x \in DOMAIN issued,
         NEW input \in Inputs \cup {NoInput}, NEW job \in BOOLEAN,
         task[t].pc \in {"off", "new"}, Bind(t, x, input, job),
         UNCHANGED <<closed, waiting, context, free>>
  PROVE  CInv'
<1> DEFINE v == [NoTask EXCEPT !.pc = "inside", !.group = issued[x], !.token = x, !.user = TRUE,
                     !.input = input, !.job = job, !.cancelling = task[t].cancelling]
<1>1. task' = [task EXCEPT ![t] = v]
  BY DEF Bind
<1>2. v.pc = "inside" /\ v.user = TRUE /\ v.change = FALSE
  BY DEF NoTask
<1> HIDE DEF v
<1>3. \A u \in Tasks : SameCall(task'[u], IF u = t THEN v ELSE task[u])
  BY <1>1 DEF Types, SameCall
<1>4. CallsAreOne(v)
  BY <1>2 DEF CallsAreOne
<1> QED
  BY <1>2, <1>3, <1>4, UncountedStep

\* Neither is a job that has ended.
LEMMA EndedCall ==
  ASSUME Types, NEW t \in Tasks
  PROVE  CallsAreOne(Ended(t)[t])
<1> DEFINE d == [NoTask EXCEPT !.pc = "done", !.token = task[t].token, !.job = TRUE,
                               !.group = task[t].group]
<1>1. d.change = FALSE /\ d.pc = "done" /\ NoTask.change = FALSE /\ NoTask.pc = "off"
  BY DEF NoTask
<1>2. Ended(t)[t] = d \/ Ended(t)[t] = NoTask
  BY DEF Ended, Types
<1> HIDE DEF d
<1> QED
  BY <1>1, <1>2 DEF CallsAreOne

\* The task gives back its slot and its announced change.
LEMMA FinishCounts ==
  ASSUME Types, CInv, NEW t \in Tasks, Finish(t)
  PROVE  CInv'
<1> DEFINE x == task[t]
           tasks == Ended(t)
           v == tasks[t]
<1>1. /\ x.pc \in {"inside", "slot"} /\ x.group \in Groups /\ CallsAreOne(x)
      /\ x.user \in BOOLEAN /\ x.change \in BOOLEAN
      /\ free' = free + AsNat(x.pc = "inside" /\ ~x.user)
      /\ context' = [context EXCEPT ![x.group] = @ - AsNat(x.change)]
      /\ task' = tasks \/ task' = Woken(x.group, tasks)
      /\ UNCHANGED <<closed, waiting>>
  BY DEF Finish, Freed, At, Types, Task, CInv
<1>2. /\ tasks \in [Tasks -> Task] /\ v.pc \in {"off", "done"} /\ CallsAreOne(v)
      /\ \A u \in Tasks \ {t} : tasks[u] = task[u]
  BY EndedTask, EndedCall
<1> HIDE DEF tasks
<1>3. \A u \in Tasks : SameCall(task'[u], tasks[u])
  BY <1>1, <1>2, WokenCalls DEF SameCall
<1>4. \A u \in Tasks : SameCall(task'[u], IF u = t THEN v ELSE task[u])
  BY <1>2, <1>3
<1>5. /\ closed' \in [Groups -> BOOLEAN] /\ waiting' \in [Groups -> Int]
      /\ context' \in [Groups -> Int] /\ free' \in Nat
  BY <1>1 DEF CInv, AsNat
<1> HIDE DEF v
<1>6. \A h \in Groups : waiting'[h] + AsNat(Waits(task[t], h)) = waiting[h] + AsNat(Waits(v, h))
  BY <1>1, <1>2 DEF CInv, AsNat, Waits
<1>7. \A h \in Groups : context'[h] + AsNat(Changes(task[t], h)) = context[h] + AsNat(Changes(v, h))
  <2>1. \A h \in Groups : ~Changes(v, h)
    BY <1>2 DEF Changes
  <2>2. x.change => x.pc = "inside"
    BY <1>1 DEF CallsAreOne
  <2> QED
    BY <1>1, <2>1, <2>2 DEF CInv, AsNat, Changes
<1>8. free' + AsNat(InSlot(v)) = free + AsNat(InSlot(task[t]))
  BY <1>1, <1>2 DEF CInv, AsNat, InSlot
<1> QED
  BY <1>2, <1>4, <1>5, <1>6, <1>7, <1>8, CountStep

\* The slot that is taken is the slot that is counted.
LEMMA EnterSlotCounts ==
  ASSUME Types, CInv, NEW t \in Tasks, EnterSlot(t)
  PROVE  CInv'
<1> DEFINE x == task[t]
           v == [x EXCEPT !.pc = "inside"]
<1>1. /\ x.pc = "slot" /\ x \in Task /\ x.user = FALSE /\ x.change = FALSE
      /\ free > 0 /\ free' = free - 1
      /\ task' = [task EXCEPT ![t] = v]
      /\ UNCHANGED <<closed, waiting, context>>
  BY DEF EnterSlot, At, Types, Task, CInv, CallsAreOne
<1>2. v.pc = "inside" /\ v.user = FALSE /\ v.change = FALSE
  BY <1>1 DEF Task
<1> HIDE DEF v
<1>3. CallsAreOne(v) /\ \A u \in Tasks : SameCall(task'[u], IF u = t THEN v ELSE task[u])
  BY <1>1, <1>2 DEF CallsAreOne, SameCall, Types
<1>4. /\ closed' \in [Groups -> BOOLEAN] /\ waiting' \in [Groups -> Int]
      /\ context' \in [Groups -> Int] /\ free' \in Nat
  BY <1>1 DEF CInv
<1>5. \A h \in Groups : waiting'[h] + AsNat(Waits(task[t], h)) = waiting[h] + AsNat(Waits(v, h))
  BY <1>1, <1>2 DEF CInv, AsNat, Waits
<1>6. \A h \in Groups : context'[h] + AsNat(Changes(task[t], h)) = context[h] + AsNat(Changes(v, h))
  BY <1>1, <1>2 DEF CInv, AsNat, Changes
<1>7. free' + AsNat(InSlot(v)) = free + AsNat(InSlot(task[t]))
  BY <1>1, <1>2 DEF CInv, AsNat, InSlot
<1> QED
  BY <1>3, <1>4, <1>5, <1>6, <1>7, CountStep

\* A cancellation is counted when the task notices it.
LEMMA CancelCounts ==
  ASSUME Types, CInv, NEW t \in Tasks, task' = [task EXCEPT ![t].cancelling = TRUE],
         UNCHANGED <<closed, waiting, context, free>>
  PROVE  CInv'
<1>1. \A u \in Tasks : SameCall(task'[u], task[u])
  BY DEF Types, Task, SameCall
<1> QED
  BY <1>1, SameCounts DEF CInv

\* Every step moves the counters with the calls.
LEMMA CountsKept ==
  ASSUME IInv, CInv, [Next]_vars
  PROVE  CInv'
<1> USE DEF IInv, Agreement
<1>1. ASSUME UNCHANGED task, closed' \in [Groups -> BOOLEAN], UNCHANGED <<waiting, context, free>>
      PROVE  CInv'
  BY <1>1, SameCounts DEF SameCall
<1>2. ASSUME NEW g \in Groups, CloseAdmission(g) PROVE CInv'
  BY <1>1, <1>2 DEF CloseAdmission, CInv
<1>3. ASSUME NEW g \in Groups, Reserve(g) PROVE CInv'
  BY <1>1, <1>3 DEF Reserve, CInv
<1>4. ASSUME NEW x \in DOMAIN issued, Release(x) PROVE CInv'
  <2>1. \A u \in Tasks : SameCall(task'[u], task[u])
    BY <1>4, WokenCalls DEF Release, Freed, Types
  <2> QED
    BY <1>4, <2>1, SameCounts DEF Release, CInv
<1>5. ASSUME NEW t \in Tasks, NEW x \in DOMAIN issued, AcquireReserved(t, x) PROVE CInv'
  BY <1>5, BindCounts DEF AcquireReserved, At
<1>6. ASSUME NEW t \in Tasks, NEW x \in DOMAIN issued, NEW input \in Inputs \cup {NoInput},
             StartJob(t, x, input)
      PROVE  CInv'
  <2> DEFINE v == [NoTask EXCEPT !.pc = "new", !.job = TRUE, !.token = x,
                                 !.group = issued[x], !.input = input]
  <2>1. /\ task' = [task EXCEPT ![t] = v] /\ task[t].pc = "off"
        /\ UNCHANGED <<closed, waiting, context, free>>
    BY <1>6 DEF StartJob, At
  <2>2. v.pc = "new" /\ v.change = FALSE
    BY DEF NoTask
  <2> HIDE DEF v
  <2>3. CallsAreOne(v) /\ \A u \in Tasks : SameCall(task'[u], IF u = t THEN v ELSE task[u])
    BY <2>1, <2>2 DEF CallsAreOne, SameCall, Types
  <2> QED
    BY <2>1, <2>2, <2>3, UncountedStep
<1>7. ASSUME NEW t \in Tasks, JobBegins(t) PROVE CInv'
  <2>1. /\ task[t].pc = "new" /\ task[t].token \in DOMAIN issued
        /\ task[t].input \in Inputs \cup {NoInput}
        /\ UNCHANGED <<closed, waiting, context, free>>
    BY <1>7 DEF JobBegins, At, TokenIsIssued, Types, Task
  <2>2. CASE Bind(t, task[t].token, task[t].input, TRUE)
    BY <2>1, <2>2, BindCounts
  <2>3. CASE task' = Ended(t)
    <3> DEFINE tasks == Ended(t)
    <3>1. /\ tasks[t].pc \in {"off", "done"} /\ CallsAreOne(tasks[t])
          /\ \A u \in Tasks \ {t} : tasks[u] = task[u]
      BY EndedTask, EndedCall
    <3>2. task' = tasks
      BY <2>3
    <3> HIDE DEF tasks
    <3>3. \A u \in Tasks : SameCall(task'[u], IF u = t THEN tasks[t] ELSE task[u])
      BY <3>1, <3>2 DEF SameCall
    <3> QED
      BY <2>1, <3>1, <3>3, UncountedStep
  <2> QED
    BY <1>7, <2>2, <2>3 DEF JobBegins
<1>8. ASSUME NEW t \in Tasks, JobSettled(t) PROVE CInv'
  <2> DEFINE tasks == [task EXCEPT ![t] = NoTask]
  <2>1. /\ task[t].pc = "done" /\ UNCHANGED <<closed, waiting, context, free>>
        /\ task' = tasks \/ task' = Woken(task[t].group, tasks)
    BY <1>8 DEF JobSettled, Freed, At
  <2>2. tasks \in [Tasks -> Task] /\ \A u \in Tasks : tasks[u] = IF u = t THEN NoTask ELSE task[u]
    BY BlankTypes DEF Types
  <2>3. NoTask.pc = "off" /\ CallsAreOne(NoTask)
    BY DEF NoTask, CallsAreOne
  <2> HIDE DEF tasks
  <2>4. \A u \in Tasks : SameCall(task'[u], tasks[u])
    BY <2>1, <2>2, WokenCalls DEF SameCall
  <2>5. \A u \in Tasks : SameCall(task'[u], IF u = t THEN NoTask ELSE task[u])
    BY <2>2, <2>4
  <2> QED
    BY <2>1, <2>3, <2>5, UncountedStep
<1>9. ASSUME NEW t \in Tasks, CancelTask(t) PROVE CInv'
  BY <1>9, CancelCounts DEF CancelTask
<1>10. ASSUME NEW g \in Groups, NEW input \in Inputs, CancelInput(g, input) PROVE CInv'
  <2>1. owner[g].task \in Tasks
    BY <1>10 DEF CancelInput, OwnsInput, Owner, Types
  <2> QED
    BY <1>10, <2>1, CancelCounts DEF CancelInput
<1>11. ASSUME NEW t \in Tasks, NEW input \in Inputs, ConfirmInput(t, input) PROVE CInv'
  BY <1>1, <1>11 DEF ConfirmInput, CInv
<1>12. ASSUME UNCHANGED vars PROVE CInv'
  BY <1>1, <1>12 DEF vars, CInv
<1> QED
  BY <1>2, <1>3, <1>4, <1>5, <1>6, <1>7, <1>8, <1>9, <1>10, <1>11, <1>12,
     AcquireCounts, ResumeCounts, EnterSlotCounts, FinishCounts
     DEF Next

-----------------------------------------------------------------------------
(* The theorems. *)

\* Every step of the program keeps the lease and the tasks in agreement.
LEMMA AgreementStep ==
  ASSUME IInv, [Next]_vars
  PROVE  Agreement'
<1>1. Agreement
  BY DEF IInv
<1>2. ASSUME UNCHANGED <<owner, available, issued, task>> PROVE Agreement'
  BY <1>1, <1>2, IdleStep
<1>3. ASSUME NEW t \in Tasks, NEW x \in DOMAIN issued, AcquireReserved(t, x) PROVE Agreement'
  BY <1>1, <1>3, BindStep DEF AcquireReserved, At, Holding
<1>4. ASSUME NEW t \in Tasks, CancelTask(t) PROVE Agreement'
  BY <1>1, <1>4, CancelStep DEF CancelTask
<1>5. ASSUME NEW g \in Groups, NEW input \in Inputs, CancelInput(g, input) PROVE Agreement'
  <2>1. owner[g].task \in Tasks
    BY <1>1, <1>5 DEF CancelInput, OwnsInput, Owner, Agreement, Types
  <2> QED
    BY <1>1, <1>5, <2>1, CancelStep DEF CancelInput
<1> QED
  BY <1>1, <1>2, <1>3, <1>4, <1>5, ReserveStep, ReleaseStep, AcquireStep, ResumeStep,
     StartJobStep, JobBeginsStep, JobSettledStep, EnterSlotStep, FinishStep, ConfirmInputStep
     DEF Next, vars, CloseAdmission

\* The inductive invariant holds in every state.
LEMMA Inductive == Spec => []IInv
<1>1. Init => IInv
  BY InitAgrees DEF IInv, TokenIsIssued, Init, NoTask
<1>2. IInv /\ [Next]_vars => IInv'
  BY AgreementStep, TokenStep DEF IInv, Agreement
<1> QED
  BY <1>1, <1>2, PTL DEF Spec

\* The lease of a group is where the work is: a task inside acquire is the
\* recorded owner under its own token, and a recorded owner task is inside, so
\* no stale reservation, late callback or cancellation takes a group away.
THEOREM LeaseIsInside == Spec => []OwnerIsInside
<1>1. IInv => OwnerIsInside
  BY DEF IInv, Agreement
<1> QED
  BY <1>1, Inductive, PTL

\* GroupController excludes: at most one task executes in a group.
THEOREM MutualExclusion == Spec => []OneExecution
<1>1. IInv => OneExecution
  BY DEF IInv, Agreement, OwnerIsInside, OneExecution, Owns
<1> QED
  BY <1>1, Inductive, PTL

\* The _available event loses no wake-up: it is set exactly while the group is
\* free, and then everyone who waits for the group has been woken.
THEOREM NoLostWakeup == Spec => []FreeIsAnnounced
<1>1. IInv => FreeIsAnnounced
  BY DEF IInv, Agreement
<1> QED
  BY <1>1, Inductive, PTL

\* cancel_input can hit only the execution of the input it names.
THEOREM CancelHitsItsInput == Spec => []AdmittedIsExecuting
<1>1. IInv => AdmittedIsExecuting
  BY DEF IInv, Agreement
<1> QED
  BY <1>1, Inductive, PTL

\* The first state: every count is of nobody, and every slot is free.
LEMMA InitCounts == Init => CInv
<1> SUFFICES ASSUME Init PROVE CInv
  OBVIOUS
<1>1. \A t \in Tasks : task[t].pc = "off" /\ task[t].change = FALSE
  BY DEF Init, NoTask
<1>2. ASSUME NEW g \in Groups
      PROVE  /\ {t \in Tasks : At(t, "waiting") /\ task[t].group = g /\ task[t].user} = {}
             /\ {t \in Tasks : task[t].pc \in {"waiting", "inside"} /\ task[t].group = g
                                 /\ task[t].change} = {}
  BY <1>1 DEF At
<1>3. {t \in Tasks : At(t, "inside") /\ ~task[t].user} = {}
  BY <1>1 DEF At
<1>4. Cardinality({}) = 0
  BY FS_EmptySet
<1>5. free = Slots /\ Slots \in Nat /\ \A g \in Groups : waiting[g] = 0 /\ context[g] = 0
  BY SlotsAssumption DEF Init
<1>6. CountsAreLive
  <2>1. ASSUME NEW g \in Groups
        PROVE  /\ waiting[g] = Cardinality({t \in Tasks :
                     At(t, "waiting") /\ task[t].group = g /\ task[t].user})
               /\ context[g] = Cardinality({t \in Tasks :
                     task[t].pc \in {"waiting", "inside"} /\ task[t].group = g /\ task[t].change})
    BY <1>2, <1>4, <1>5, Zenon
  <2>2. free + Cardinality({t \in Tasks : At(t, "inside") /\ ~task[t].user}) = Slots
    <3> DEFINE S == {t \in Tasks : At(t, "inside") /\ ~task[t].user}
    <3>1. Cardinality(S) = 0
      BY <1>3, <1>4
    <3> HIDE DEF S
    <3>2. free + Cardinality(S) = Slots
      BY <1>5, <3>1
    <3> QED
      BY <3>2 DEF S
  <2> QED
    BY <2>1, <2>2 DEF CountsAreLive
<1> QED
  BY <1>1, <1>5, <1>6 DEF CInv, CallsAreOne, Init

\* The counters are right in every state.
LEMMA CountsInductive == Spec => []CInv
<1>1. IInv /\ CInv /\ [Next]_vars => CInv'
  BY CountsKept
<1> QED
  BY <1>1, InitCounts, Inductive, PTL DEF Spec

\* user_pending and context_changing tell of exactly the calls that are alive,
\* whether they were cancelled, refused, too late or let in, and a background
\* slot is free exactly when no background execution is in it.
THEOREM CountersAreExact == Spec => []CountsAreLive
<1>1. CInv => CountsAreLive
  BY DEF CInv
<1> QED
  BY <1>1, CountsInductive, PTL

\* The fields keep their types: no counter goes below zero, and the pool of
\* slots stays within max_concurrent_agents.
THEOREM ControllerTypes == Spec => []TypeOK
<1>1. IInv /\ CInv => TypeOK
  <2> SUFFICES ASSUME IInv, CInv PROVE TypeOK
    OBVIOUS
  <2>1. ASSUME NEW A \in SUBSET Tasks PROVE Cardinality(A) \in Nat
    BY TasksAssumption, FS_Subset, FS_CardinalityType
  <2>2. ASSUME NEW g \in Groups PROVE waiting[g] \in Nat /\ context[g] \in Nat
    <3>1. waiting[g] = Cardinality({t \in Tasks : At(t, "waiting") /\ task[t].group = g /\ task[t].user})
      BY DEF CInv, CountsAreLive
    <3>2. context[g] = Cardinality({t \in Tasks :
             task[t].pc \in {"waiting", "inside"} /\ task[t].group = g /\ task[t].change})
      BY DEF CInv, CountsAreLive
    <3> QED
      BY <2>1, <3>1, <3>2
  <2>3. free \in 0..Slots
    <3> DEFINE S == {t \in Tasks : At(t, "inside") /\ ~task[t].user}
    <3>1. free + Cardinality(S) = Slots
      BY DEF CInv, CountsAreLive
    <3>2. Cardinality(S) \in Nat
      BY <2>1
    <3> HIDE DEF S
    <3>3. ASSUME NEW f \in Nat, NEW n \in Nat, f + n = Slots PROVE f \in 0..Slots
      BY <3>3, SlotsAssumption
    <3> QED
      BY <3>1, <3>2, <3>3 DEF CInv
  <2> QED
    BY <2>2, <2>3 DEF TypeOK, CInv, IInv, Agreement, Types
<1> QED
  BY <1>1, Inductive, CountsInductive, PTL
=============================================================================
