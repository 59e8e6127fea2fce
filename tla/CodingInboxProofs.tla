--------------------------- MODULE CodingInboxProofs ---------------------------
(***************************************************************************)
(* One owner of a coding session gives no message to the model twice, and  *)
(* leaves no claim and no execution without somebody who will settle it:   *)
(* the proofs about CodingInbox, for any number of messages and claims.    *)
(***************************************************************************)
EXTENDS CodingInbox, FiniteSetTheorems, TLAPS

-----------------------------------------------------------------------------
(* The inductive invariant. *)

Statuses == {"absent", "pending", "claimed", "running",
             "succeeded", "failed", "cancelled", "interrupted"}
Row == [status : Statuses, attempt : Nat, tries : Nat, batch : BOOLEAN]
Places == {"none", "spawned", "saving", "queued", "writing", "settling", "batch", "refused"}
Ops == [pc : {"idle", "disk", "drop"}, ticket : Nat, already : BOOLEAN]
Tasks == [kind : {"none", "control", "batch"},
          pc : {"none", "new", "reserve", "reserved", "accepts", "cleanup",
                "begin", "transition", "executing", "write"},
          of : Messages \cup {"none"}, members : SUBSET (Messages \X Nat),
          todo : SUBSET (Messages \cup (Messages \X Nat)), wait : SUBSET Requests,
          cancelling : BOOLEAN, hit : BOOLEAN,
          outcome : {"claimed", "refused", "succeeded", "failed", "cancelled"}]

Types ==
    /\ rows \in [Messages -> Row]
    /\ jobs \in [Requests -> Places]
    /\ tickets \in [Messages -> Nat]
    /\ op \in [Messages -> Ops]
    /\ ran \in [Messages -> Nat]
    /\ active \in Tasks
    /\ broken \in BOOLEAN
    /\ life \in {"live", "admissions", "active", "retired"}

\* A message that is not claimed again.
Begun(m) == rows[m].status \notin {"absent", "pending", "claimed"}

\* A job that may still be given to the model.
Busy(r) == jobs[r] \in {"spawned", "saving", "queued"} \/ (jobs[r] = "batch" /\ active.pc # "write")

\* A claim that is the active control's.
Claimed(r) == active.kind = "control" /\ r \in active.members

\* The row of a claim names the last attempt.
RowsOK == \A m \in Messages :
    rows[m].status \in {"claimed", "running"} => rows[m].attempt = rows[m].tries

\* A job that may run is that of the last claim of its message, and there is only one.
JobsOK == \A r \in Requests :
    /\ jobs[r] # "none" => r[2] <= rows[r[1]].tries
    /\ jobs[r] = "batch" => InActive(r)
    /\ Busy(r) => r[2] = rows[r[1]].tries

\* Its row is held or withdrawn, and only a withdrawal takes its binding.
BoundOK == \A r \in Requests : Busy(r) /\ life # "retired" =>
    /\ rows[r[1]].status \notin {"absent", "pending"}
    /\ r \in bindings \/ rows[r[1]].status = "cancelled" \/ (broken /\ ~Claimed(r))

\* What did not begin was not given to the model.
RanOK ==
    /\ \A m \in Messages : ran[m] <= 1 /\ (ran[m] # 0 => Begun(m))
    /\ \A r \in Requests : /\ Busy(r) /\ ~(jobs[r] = "batch" /\ active.pc = "executing") => ran[r[1]] = 0
                           /\ Claimed(r) => ran[r[1]] = 0

\* A job that was not accepted is still its control's.
HandedOK == \A r \in Requests :
    /\ jobs[r] = "spawned" => broken \/ (Claimed(r) /\ r \in active.todo /\ active.pc \in {"accepts", "cleanup"})
    /\ jobs[r] = "refused" => broken \/ Claimed(r)

\* A job that is settled does not hold its row.
SettledOK == \A r \in Requests : jobs[r] = "settling" => ~Held(r) \/ broken

\* A withdrawal that is remembered is on its way or was carried out.
WithdrawnOK == \A m \in Messages :
    /\ m \in withdrawn => op[m].pc = "disk" \/ rows[m].status = "cancelled"
    /\ op[m].already => rows[m].status = "cancelled"

\* The control: it claims, hands its claims over and waits for their acceptance, or
\* takes them back.
ControlOK == active.kind = "control" =>
    /\ active.pc \in {"new", "reserve", "reserved", "accepts", "cleanup"}
    /\ active.pc \in {"new", "reserve"} => active.members = {}
    /\ active.pc # "cleanup" => active.wait = {}
    /\ active.pc = "reserve" => active.todo \subseteq Messages
    /\ \A r \in Requests : r \in active.members => r[2] = rows[r[1]].tries

\* What is claimed has no job yet.
ReservedOK == \A r \in Requests : Claimed(r) /\ active.pc = "reserved" =>
    jobs[r] = "none" /\ rows[r[1]].status \notin {"absent", "pending"}

\* What was not handed over is being withdrawn; what has no job any more is settled.
AcceptsOK == \A r \in Requests : Claimed(r) /\ active.pc = "accepts" =>
    /\ r \notin active.todo => jobs[r] = "none" /\ (~Held(r) \/ op[r[1]].pc = "disk" \/ broken)
    /\ r \in active.todo /\ jobs[r] = "none" => ~Held(r) \/ broken

\* What the cleanup has dealt with does not run; what it waits for is cancelled.
CleanupOK == \A r \in Requests : Claimed(r) /\ active.pc = "cleanup" /\ Busy(r) =>
    /\ r \notin active.todo /\ r \notin active.wait => jobs[r] # "spawned" /\ r \notin bindings
    /\ r \in active.wait => jobs[r] = "saving" /\ r \in marked

\* The batch: its jobs, and the rows it has to begin or to write.
BatchOK == active.kind = "batch" =>
    /\ active.pc \in {"new", "begin", "transition", "executing", "write"}
    /\ active.outcome \in {"succeeded", "failed", "cancelled"}
    /\ active.members \subseteq Requests
    /\ active.pc \in {"begin", "write"} => active.todo \subseteq active.members

MembersOK == active.kind = "batch" /\ ~Dead => \A r \in active.members : jobs[r] = "batch"

\* What is given to the model is not claimed again.
BegunOK == active.kind = "batch" => \A r \in active.members :
    /\ active.pc = "begin" => r \in active.todo \/ Begun(r[1])
    /\ active.pc = "transition" => Begun(r[1])

\* What a batch holds it still has to write.
WriteOK == active.kind = "batch" /\ active.pc = "write" =>
    \A r \in active.members : Held(r) => r \in active.todo \/ broken

\* The end is the end.
LifeOK ==
    /\ active.kind = "none" => active = Idle
    /\ life = "retired" => (active = Idle \/ Dead)
                             /\ \A m \in Messages : rows[m].status \notin {"claimed", "running"}

RunningOK == \A r \in Requests : Held(r) /\ rows[r[1]].status = "running" => broken \/ InJobs(r)

IInv == /\ Types /\ RowsOK /\ JobsOK /\ BoundOK /\ RanOK /\ HandedOK /\ SettledOK /\ WithdrawnOK
        /\ ControlOK /\ ReservedOK /\ AcceptsOK /\ CleanupOK
        /\ BatchOK /\ MembersOK /\ BegunOK /\ WriteOK
        /\ LifeOK /\ RunningOK /\ OwnedUntilSettled

-----------------------------------------------------------------------------
(* The invariant preserved, one action after the other. *)

(* A request is a message and a number. *)
LEMMA RequestParts ==
  /\ \A r \in Requests : r[1] \in Messages /\ r[2] \in Nat /\ r \in Messages \X Nat
  /\ \A r, s \in Requests : r[1] = s[1] /\ r[2] = s[2] => r = s
BY ConstantsAssumption DEF Requests

(* An owner without a task. *)
LEMMA IdleTask == Idle \in Tasks /\ Idle.kind = "none" /\ Idle.members = {} /\ Idle.pc = "none"
BY DEF Idle, Tasks

(* The row of a message that is claimed. *)
LEMMA ClaimRow ==
  ASSUME NEW row \in Row
  PROVE  /\ Claim(row) \in Row /\ Claim(row).status = "claimed"
         /\ Claim(row).attempt = row.tries + 1 /\ Claim(row).tries = row.tries + 1
<1>1. row.tries \in Nat
  BY DEF Row
<1>2. Claim(row) = [row EXCEPT !.status = "claimed", !.attempt = row.tries + 1, !.tries = row.tries + 1]
  BY DEF Claim, Row
<1>3. Claim(row) = [status |-> "claimed", attempt |-> row.tries + 1, tries |-> row.tries + 1,
                    batch |-> row.batch]
  BY <1>2 DEF Row
<1> QED
  BY <1>1, <1>3 DEF Row, Statuses

(* A batch that runs has at most one job of a message. *)
LEMMA OneEach ==
  ASSUME Types, JobsOK, BatchOK, MembersOK, active.kind = "batch", active.pc = "transition"
  PROVE  \A m \in Messages :
            /\ Cardinality({r \in active.members : r[1] = m}) \in {0, 1}
            /\ Cardinality({r \in active.members : r[1] = m}) # 0 => \E r \in active.members : r[1] = m
<1> TAKE m \in Messages
<1> DEFINE S == {r \in active.members : r[1] = m}
<1>1. \A r \in active.members : r \in Requests /\ r[2] = rows[r[1]].tries
  BY DEF BatchOK, MembersOK, Dead, JobsOK, Busy
<1>2. \A r, s \in S : r = s
  BY <1>1, RequestParts
<1>3. CASE S = {}
  BY <1>3, FS_EmptySet
<1>4. CASE S # {}
  <2>1. PICK r \in S : TRUE
    BY <1>4
  <2>2. S = {r}
    BY <1>2, <2>1
  <2>3. Cardinality(S) = 1
    BY <2>2, FS_Singleton
  <2> QED
    BY <2>1, <2>3
<1> QED
  BY <1>3, <1>4

\* The withdrawals go on as they were, or one of them ends without its write.
OpsStay ==
    /\ op' \in [Messages -> Ops]
    /\ \A x \in Messages : /\ op'[x].pc = "disk" <=> op[x].pc = "disk"
                           /\ op'[x].already => op[x].already

\* The owner has retired no more and no less.
LifeStays ==
    /\ life' \in {"live", "admissions", "active", "retired"}
    /\ life' = "retired" <=> life = "retired"

\* An idle owner begins a control: it has claimed nothing yet.
LEMMA PumpControlKeeps ==
  ASSUME IInv, NEW m \in Messages \cup {"none"}, PumpControl(m)
  PROVE  IInv'
<1>0. Types /\ RowsOK /\ JobsOK /\ BoundOK /\ RanOK /\ HandedOK /\ SettledOK /\ WithdrawnOK
      /\ ControlOK /\ ReservedOK /\ AcceptsOK /\ CleanupOK
      /\ BatchOK /\ MembersOK /\ BegunOK /\ WriteOK /\ LifeOK /\ RunningOK /\ OwnedUntilSettled
  BY DEF IInv
<1>1. /\ active.kind = "none" /\ active'.kind = "control" /\ active'.pc = "new" /\ active'.members = {}
      /\ active'.todo = {} /\ active'.wait = {} /\ life = "live"
      /\ active' \in Tasks
      /\ UNCHANGED <<rows, bindings, tickets, withdrawn, revoked, jobs, order, marked, admissions, op, broken, life, ran>>
  BY <1>0 DEF PumpControl, MayPump, Idle, Tasks, memory, work, Types
<1>2. Types'
  BY <1>0, <1>1, RequestParts, IdleTask DEF Types, Places, Tasks
<1>3. RowsOK'
  BY <1>0, <1>1, RequestParts, IdleTask DEF Types, RowsOK, Tasks
<1>4. JobsOK'
  BY <1>0, <1>1, RequestParts, IdleTask DEF Types, JobsOK, Busy, InActive, Tasks
<1>5. BoundOK'
  BY <1>0, <1>1, RequestParts, IdleTask DEF Types, BoundOK, JobsOK, InActive, Busy, Claimed, Tasks
<1>6. RanOK'
  BY <1>0, <1>1, RequestParts, IdleTask DEF Types, RanOK, JobsOK, InActive, Busy, Claimed, Begun, Tasks
<1>7. HandedOK'
  BY <1>0, <1>1, RequestParts, IdleTask DEF Types, HandedOK, Claimed, Tasks
<1>8. SettledOK'
  BY <1>0, <1>1, RequestParts, IdleTask DEF Types, SettledOK, Held, Tasks
<1>9. WithdrawnOK'
  BY <1>0, <1>1, RequestParts, IdleTask DEF Types, WithdrawnOK, Tasks
<1>10. ControlOK'
  BY <1>0, <1>1, RequestParts, IdleTask DEF Types, ControlOK, Tasks
<1>11. ReservedOK'
  BY <1>0, <1>1, RequestParts, IdleTask DEF Types, ReservedOK, Claimed, Tasks
<1>12. AcceptsOK'
  BY <1>0, <1>1, RequestParts, IdleTask DEF Types, AcceptsOK, Claimed, Held, Tasks
<1>13. CleanupOK'
  BY <1>0, <1>1, RequestParts, IdleTask DEF Types, CleanupOK, Claimed, Busy, Tasks
<1>14. BatchOK'
  BY <1>0, <1>1, RequestParts, IdleTask DEF Types, BatchOK, Tasks
<1>15. MembersOK'
  BY <1>0, <1>1, RequestParts, IdleTask DEF Types, MembersOK, Dead, Tasks
<1>16. BegunOK'
  BY <1>0, <1>1, RequestParts, IdleTask DEF Types, BegunOK, BatchOK, Begun, Tasks
<1>17. WriteOK'
  BY <1>0, <1>1, RequestParts, IdleTask DEF Types, WriteOK, BatchOK, Held, Tasks
<1>18. LifeOK'
  BY <1>0, <1>1, RequestParts, IdleTask DEF Types, LifeOK, Dead, Tasks
<1>19. RunningOK'
  BY <1>0, <1>1, RequestParts, IdleTask DEF Types, RunningOK, Held, InJobs, Tasks
<1>20. OwnedUntilSettled'
  BY <1>0, <1>1, RequestParts, IdleTask DEF Types, OwnedUntilSettled, Held, InJobs, Tasks
<1> QED
  BY <1>2, <1>3, <1>4, <1>5, <1>6, <1>7, <1>8, <1>9, <1>10, <1>11, <1>12, <1>13, <1>14, <1>15, <1>16,
     <1>17, <1>18, <1>19, <1>20 DEF IInv

\* A new message is pending.
LEMMA EnqueueKeeps ==
  ASSUME IInv, NEW m \in Messages, Enqueue(m)
  PROVE  IInv'
<1>0. Types /\ RowsOK /\ JobsOK /\ BoundOK /\ RanOK /\ HandedOK /\ SettledOK /\ WithdrawnOK
      /\ ControlOK /\ ReservedOK /\ AcceptsOK /\ CleanupOK
      /\ BatchOK /\ MembersOK /\ BegunOK /\ WriteOK /\ LifeOK /\ RunningOK /\ OwnedUntilSettled
  BY DEF IInv
<1>1. /\ rows[m].status = "absent" /\ rows'[m].status = "pending" /\ rows'[m].attempt = rows[m].attempt
      /\ rows'[m].tries = rows[m].tries /\ \A x \in Messages : x # m => rows'[x] = rows[x]
      /\ rows' \in [Messages -> Row]
      /\ UNCHANGED <<bindings, tickets, withdrawn, revoked, jobs, order, marked, admissions, active, op, broken, life, ran>>
  BY <1>0 DEF Enqueue, Row, Statuses, memory, work, Types
<1>2. Types'
  BY <1>0, <1>1, RequestParts, IdleTask DEF Types, Places, Tasks
<1>3. RowsOK'
  BY <1>0, <1>1, RequestParts, IdleTask DEF Types, RowsOK, Tasks
<1>4. JobsOK'
  BY <1>0, <1>1, RequestParts, IdleTask DEF Types, JobsOK, Busy, InActive, Tasks
<1>5. BoundOK'
  BY <1>0, <1>1, RequestParts, IdleTask DEF Types, BoundOK, JobsOK, InActive, Busy, Claimed, Tasks
<1>6. RanOK'
  <2>1. \A x \in Messages : Begun(x) => Begun(x)'
    BY <1>1 DEF Begun
  <2> QED
    BY <1>0, <1>1, <2>1 DEF RanOK, Busy, Claimed
<1>7. HandedOK'
  BY <1>0, <1>1, RequestParts, IdleTask DEF Types, HandedOK, Claimed, Tasks
<1>8. SettledOK'
  BY <1>0, <1>1, RequestParts, IdleTask DEF Types, SettledOK, Held, Tasks
<1>9. WithdrawnOK'
  BY <1>0, <1>1 DEF WithdrawnOK
<1>10. ControlOK'
  BY <1>0, <1>1, RequestParts, IdleTask DEF Types, ControlOK, Tasks
<1>11. ReservedOK'
  BY <1>0, <1>1, RequestParts, IdleTask DEF Types, ReservedOK, Claimed, Tasks
<1>12. AcceptsOK'
  BY <1>0, <1>1, RequestParts, IdleTask DEF Types, AcceptsOK, Claimed, Held, Tasks
<1>13. CleanupOK'
  BY <1>0, <1>1, RequestParts, IdleTask DEF Types, CleanupOK, Claimed, Busy, Tasks
<1>14. BatchOK'
  BY <1>0, <1>1, RequestParts, IdleTask DEF Types, BatchOK, Tasks
<1>15. MembersOK'
  BY <1>0, <1>1, RequestParts, IdleTask DEF Types, MembersOK, Dead, Tasks
<1>16. BegunOK'
  BY <1>0, <1>1, RequestParts, IdleTask DEF Types, BegunOK, BatchOK, Begun, Tasks
<1>17. WriteOK'
  BY <1>0, <1>1, RequestParts, IdleTask DEF Types, WriteOK, BatchOK, Held, Tasks
<1>18. LifeOK'
  BY <1>0, <1>1, RequestParts, IdleTask DEF Types, LifeOK, Dead, Tasks
<1>19. RunningOK'
  BY <1>0, <1>1, RequestParts, IdleTask DEF Types, RunningOK, Held, InJobs, Tasks
<1>20. OwnedUntilSettled'
  BY <1>0, <1>1, RequestParts, IdleTask DEF Types, OwnedUntilSettled, Held, InJobs, Tasks
<1> QED
  BY <1>2, <1>3, <1>4, <1>5, <1>6, <1>7, <1>8, <1>9, <1>10, <1>11, <1>12, <1>13, <1>14, <1>15, <1>16,
     <1>17, <1>18, <1>19, <1>20 DEF IInv

\* The owner is closed.
LEMMA CloseKeeps ==
  ASSUME IInv, Close
  PROVE  IInv'
<1>0. Types /\ RowsOK /\ JobsOK /\ BoundOK /\ RanOK /\ HandedOK /\ SettledOK /\ WithdrawnOK
      /\ ControlOK /\ ReservedOK /\ AcceptsOK /\ CleanupOK
      /\ BatchOK /\ MembersOK /\ BegunOK /\ WriteOK /\ LifeOK /\ RunningOK /\ OwnedUntilSettled
  BY DEF IInv
<1>1. /\ life = "live" /\ life' = "admissions"
      /\ UNCHANGED <<rows, bindings, tickets, withdrawn, revoked, jobs, order, marked, admissions, active, op, broken, ran>>
  BY <1>0 DEF Close, memory, work, Types
<1>2. Types'
  BY <1>0, <1>1, RequestParts, IdleTask DEF Types, Places, Tasks
<1>3. RowsOK'
  BY <1>0, <1>1, RequestParts, IdleTask DEF Types, RowsOK, Tasks
<1>4. JobsOK'
  BY <1>0, <1>1, RequestParts, IdleTask DEF Types, JobsOK, Busy, InActive, Tasks
<1>5. BoundOK'
  BY <1>0, <1>1, RequestParts, IdleTask DEF Types, BoundOK, JobsOK, InActive, Busy, Claimed, Tasks
<1>6. RanOK'
  BY <1>0, <1>1, RequestParts, IdleTask DEF Types, RanOK, JobsOK, InActive, Busy, Claimed, Begun, Tasks
<1>7. HandedOK'
  BY <1>0, <1>1, RequestParts, IdleTask DEF Types, HandedOK, Claimed, Tasks
<1>8. SettledOK'
  BY <1>0, <1>1, RequestParts, IdleTask DEF Types, SettledOK, Held, Tasks
<1>9. WithdrawnOK'
  BY <1>0, <1>1, RequestParts, IdleTask DEF Types, WithdrawnOK, Tasks
<1>10. ControlOK'
  BY <1>0, <1>1, RequestParts, IdleTask DEF Types, ControlOK, Tasks
<1>11. ReservedOK'
  BY <1>0, <1>1, RequestParts, IdleTask DEF Types, ReservedOK, Claimed, Tasks
<1>12. AcceptsOK'
  BY <1>0, <1>1, RequestParts, IdleTask DEF Types, AcceptsOK, Claimed, Held, Tasks
<1>13. CleanupOK'
  BY <1>0, <1>1, RequestParts, IdleTask DEF Types, CleanupOK, Claimed, Busy, Tasks
<1>14. BatchOK'
  BY <1>0, <1>1, RequestParts, IdleTask DEF Types, BatchOK, Tasks
<1>15. MembersOK'
  BY <1>0, <1>1, RequestParts, IdleTask DEF Types, MembersOK, Dead, Tasks
<1>16. BegunOK'
  BY <1>0, <1>1, RequestParts, IdleTask DEF Types, BegunOK, BatchOK, Begun, Tasks
<1>17. WriteOK'
  BY <1>0, <1>1, RequestParts, IdleTask DEF Types, WriteOK, BatchOK, Held, Tasks
<1>18. LifeOK'
  BY <1>0, <1>1, RequestParts, IdleTask DEF Types, LifeOK, Dead, Tasks
<1>19. RunningOK'
  BY <1>0, <1>1, RequestParts, IdleTask DEF Types, RunningOK, Held, InJobs, Tasks
<1>20. OwnedUntilSettled'
  BY <1>0, <1>1, RequestParts, IdleTask DEF Types, OwnedUntilSettled, Held, InJobs, Tasks
<1> QED
  BY <1>2, <1>3, <1>4, <1>5, <1>6, <1>7, <1>8, <1>9, <1>10, <1>11, <1>12, <1>13, <1>14, <1>15, <1>16,
     <1>17, <1>18, <1>19, <1>20 DEF IInv

\* An idle owner begins a batch of jobs that wait.
LEMMA PumpBatchKeeps ==
  ASSUME IInv, NEW n \in 1..MaxPerTurn, PumpBatch(n)
  PROVE  IInv'
<1>0. Types /\ RowsOK /\ JobsOK /\ BoundOK /\ RanOK /\ HandedOK /\ SettledOK /\ WithdrawnOK
      /\ ControlOK /\ ReservedOK /\ AcceptsOK /\ CleanupOK
      /\ BatchOK /\ MembersOK /\ BegunOK /\ WriteOK /\ LifeOK /\ RunningOK /\ OwnedUntilSettled
  BY DEF IInv
<1>1. /\ active.kind = "none" /\ active'.kind = "batch" /\ active'.pc = "new" /\ life = "live"
      /\ active'.todo = {} /\ active'.wait = {} /\ ~active'.cancelling /\ active'.members \subseteq Requests
      /\ \A r \in active'.members : jobs[r] = "queued"
      /\ active' \in Tasks /\ active'.outcome = "cancelled"
      /\ jobs' = [r \in Requests |-> IF r \in active'.members THEN "batch" ELSE jobs[r]]
      /\ UNCHANGED <<rows, bindings, tickets, withdrawn, revoked, marked, admissions, op, broken, life, ran>>
  <2>1. PICK i \in DOMAIN order :
          /\ active' = [Idle EXCEPT !.kind = "batch", !.pc = "new", !.members = Waiting(i)]
          /\ jobs' = [r \in Requests |-> IF r \in Waiting(i) THEN "batch" ELSE jobs[r]]
    BY DEF PumpBatch
  <2>2. Waiting(i) \subseteq Requests /\ \A r \in Waiting(i) : jobs[r] = "queued"
    BY DEF Waiting
  <2>3. Waiting(i) \in SUBSET (Messages \X Nat)
    BY <2>2, RequestParts
  <2>4. active = Idle /\ life = "live"
    BY DEF PumpBatch, MayPump
  <2> HIDE DEF Waiting
  <2>5. active' \in Tasks /\ active'.members = Waiting(i) /\ active'.outcome = "cancelled"
    BY <2>1, <2>3 DEF Idle, Tasks
  <2> QED
    BY <2>1, <2>2, <2>4, <2>5 DEF PumpBatch, Idle, memory, work
<1>2. Types'
  BY <1>0, <1>1, RequestParts, IdleTask DEF Types, Places, Tasks
<1>3. RowsOK'
  BY <1>0, <1>1, RequestParts, IdleTask DEF Types, RowsOK, Tasks
<1>4. JobsOK'
  BY <1>0, <1>1, RequestParts, IdleTask DEF Types, JobsOK, Busy, InActive, Tasks
<1>5. BoundOK'
  BY <1>0, <1>1, RequestParts, IdleTask DEF Types, BoundOK, JobsOK, InActive, Busy, Claimed, Tasks
<1>6. RanOK'
  BY <1>0, <1>1, RequestParts, IdleTask DEF Types, RanOK, JobsOK, InActive, Busy, Claimed, Begun, Tasks
<1>7. HandedOK'
  BY <1>0, <1>1, RequestParts, IdleTask DEF Types, HandedOK, Claimed, Tasks
<1>8. SettledOK'
  BY <1>0, <1>1, RequestParts, IdleTask DEF Types, SettledOK, Held, Tasks
<1>9. WithdrawnOK'
  BY <1>0, <1>1, RequestParts, IdleTask DEF Types, WithdrawnOK, Tasks
<1>10. ControlOK'
  BY <1>0, <1>1, RequestParts, IdleTask DEF Types, ControlOK, Tasks
<1>11. ReservedOK'
  BY <1>0, <1>1, RequestParts, IdleTask DEF Types, ReservedOK, Claimed, Tasks
<1>12. AcceptsOK'
  BY <1>0, <1>1, RequestParts, IdleTask DEF Types, AcceptsOK, Claimed, Held, Tasks
<1>13. CleanupOK'
  BY <1>0, <1>1, RequestParts, IdleTask DEF Types, CleanupOK, Claimed, Busy, Tasks
<1>14. BatchOK'
  BY <1>0, <1>1, RequestParts, IdleTask DEF Types, BatchOK, Tasks
<1>15. MembersOK'
  BY <1>0, <1>1, RequestParts, IdleTask DEF Types, MembersOK, Dead, Tasks
<1>16. BegunOK'
  BY <1>0, <1>1, RequestParts, IdleTask DEF Types, BegunOK, BatchOK, Begun, Tasks
<1>17. WriteOK'
  BY <1>0, <1>1, RequestParts, IdleTask DEF Types, WriteOK, BatchOK, Held, Tasks
<1>18. LifeOK'
  BY <1>0, <1>1, RequestParts, IdleTask DEF Types, LifeOK, Dead, Tasks
<1>19. RunningOK'
  BY <1>0, <1>1, RequestParts, IdleTask DEF Types, RunningOK, Held, InJobs, Tasks
<1>20. OwnedUntilSettled'
  BY <1>0, <1>1, RequestParts, IdleTask DEF Types, OwnedUntilSettled, Held, InJobs, Tasks
<1> QED
  BY <1>2, <1>3, <1>4, <1>5, <1>6, <1>7, <1>8, <1>9, <1>10, <1>11, <1>12, <1>13, <1>14, <1>15, <1>16,
     <1>17, <1>18, <1>19, <1>20 DEF IInv

\* The active task is cancelled: before its first step it will not run, and its jobs are
\* left to the shutdown.
LEMMA CancelTaskKeeps ==
  ASSUME IInv, CancelTask, UNCHANGED jobs, marked \subseteq marked',
         UNCHANGED <<rows, bindings, tickets, withdrawn, admissions, broken, ran>>, OpsStay, LifeStays
  PROVE  IInv'
<1>0. Types /\ RowsOK /\ JobsOK /\ BoundOK /\ RanOK /\ HandedOK /\ SettledOK /\ WithdrawnOK
      /\ ControlOK /\ ReservedOK /\ AcceptsOK /\ CleanupOK
      /\ BatchOK /\ MembersOK /\ BegunOK /\ WriteOK /\ LifeOK /\ RunningOK /\ OwnedUntilSettled
  BY DEF IInv
<1>1. /\ active'.kind = active.kind /\ active'.pc = active.pc /\ active'.members = active.members
      /\ active'.todo = active.todo /\ active'.wait = active.wait /\ active' \in Tasks
      /\ active.kind = "none" => active' = active
      /\ active.cancelling => active'.cancelling
      /\ active'.outcome = active.outcome
      /\ jobs' = jobs /\ marked \subseteq marked'
      /\ OpsStay /\ LifeStays /\ UNCHANGED <<rows, bindings, tickets, withdrawn, admissions, broken, ran>>
  <2>1. CASE active.cancelling \/ active.kind = "none"
    BY <1>0, <2>1 DEF CancelTask, Types
  <2>2. CASE ~(active.cancelling \/ active.kind = "none")
    <3> DEFINE hit == active.pc \in {"cleanup", "write"}
    <3>0. hit \in BOOLEAN
      OBVIOUS
    <3>1. active' = [active EXCEPT !.cancelling = TRUE, !.hit = hit]
      BY <2>2 DEF CancelTask
    <3> HIDE DEF hit
    <3>2. /\ active'.kind = active.kind /\ active'.pc = active.pc /\ active'.members = active.members
          /\ active'.todo = active.todo /\ active'.wait = active.wait /\ active' \in Tasks
          /\ active'.cancelling /\ active'.outcome = active.outcome
      BY <1>0, <3>0, <3>1 DEF Types, OpsStay, LifeStays, Tasks
    <3> QED
      BY <2>2, <3>2
  <2> QED
    BY <2>1, <2>2
<1>2. Types'
  BY <1>0, <1>1, RequestParts, IdleTask DEF Types, OpsStay, LifeStays, Places, Tasks
<1>3. RowsOK'
  BY <1>0, <1>1, RequestParts, IdleTask DEF Types, OpsStay, LifeStays, RowsOK, Tasks
<1>4. JobsOK'
  BY <1>0, <1>1, RequestParts, IdleTask DEF Types, OpsStay, LifeStays, JobsOK, Busy, InActive, Tasks
<1>5. BoundOK'
  BY <1>0, <1>1, RequestParts, IdleTask DEF Types, OpsStay, LifeStays, BoundOK, JobsOK, InActive, Busy,
     Claimed, Tasks
<1>6. RanOK'
  BY <1>0, <1>1, RequestParts, IdleTask DEF Types, OpsStay, LifeStays, RanOK, JobsOK, InActive, Busy,
     Claimed, Begun, Tasks
<1>7. HandedOK'
  BY <1>0, <1>1, RequestParts, IdleTask DEF Types, OpsStay, LifeStays, HandedOK, Claimed, Tasks
<1>8. SettledOK'
  BY <1>0, <1>1, RequestParts, IdleTask DEF Types, OpsStay, LifeStays, SettledOK, Held, Tasks
<1>9. WithdrawnOK'
  BY <1>0, <1>1, RequestParts, IdleTask DEF Types, OpsStay, LifeStays, WithdrawnOK, Tasks
<1>10. ControlOK'
  BY <1>0, <1>1, RequestParts, IdleTask DEF Types, OpsStay, LifeStays, ControlOK, Tasks
<1>11. ReservedOK'
  BY <1>0, <1>1, RequestParts, IdleTask DEF Types, OpsStay, LifeStays, ReservedOK, Claimed, Tasks
<1>12. AcceptsOK'
  BY <1>0, <1>1, RequestParts, IdleTask DEF Types, OpsStay, LifeStays, AcceptsOK, Claimed, Held, Tasks
<1>13. CleanupOK'
  BY <1>0, <1>1, RequestParts, IdleTask DEF Types, OpsStay, LifeStays, CleanupOK, Claimed, Busy, Tasks
<1>14. BatchOK'
  BY <1>0, <1>1, RequestParts, IdleTask DEF Types, OpsStay, LifeStays, BatchOK, Tasks
<1>15. MembersOK'
  BY <1>0, <1>1, RequestParts, IdleTask DEF Types, OpsStay, LifeStays, MembersOK, Dead, Tasks
<1>16. BegunOK'
  BY <1>0, <1>1, RequestParts, IdleTask DEF Types, OpsStay, LifeStays, BegunOK, BatchOK, Begun, Tasks
<1>17. WriteOK'
  BY <1>0, <1>1, RequestParts, IdleTask DEF Types, OpsStay, LifeStays, WriteOK, BatchOK, Held, Tasks
<1>18. LifeOK'
  BY <1>0, <1>1, RequestParts, IdleTask DEF Types, OpsStay, LifeStays, LifeOK, Dead, Tasks
<1>19. RunningOK'
  BY <1>0, <1>1, RequestParts, IdleTask DEF Types, OpsStay, LifeStays, RunningOK, Held, InJobs, Tasks
<1>20. OwnedUntilSettled'
  BY <1>0, <1>1, RequestParts, IdleTask DEF Types, OpsStay, LifeStays, OwnedUntilSettled, Held, InJobs,
     Tasks
<1> QED
  BY <1>2, <1>3, <1>4, <1>5, <1>6, <1>7, <1>8, <1>9, <1>10, <1>11, <1>12, <1>13, <1>14, <1>15, <1>16,
     <1>17, <1>18, <1>19, <1>20 DEF IInv

\* A job that does not run begins to settle.
LEMMA FinishBeginsKeeps ==
  ASSUME IInv, NEW r \in Requests, jobs[r] = "queued" \/ (jobs[r] = "batch" /\ Dead),
         FinishBegins(r), UNCHANGED active, marked \subseteq marked',
         UNCHANGED <<rows, bindings, tickets, withdrawn, admissions, broken, ran>>, OpsStay, LifeStays
  PROVE  IInv'
<1>0. Types /\ RowsOK /\ JobsOK /\ BoundOK /\ RanOK /\ HandedOK /\ SettledOK /\ WithdrawnOK
      /\ ControlOK /\ ReservedOK /\ AcceptsOK /\ CleanupOK
      /\ BatchOK /\ MembersOK /\ BegunOK /\ WriteOK /\ LifeOK /\ RunningOK /\ OwnedUntilSettled
  BY DEF IInv
<1>1. /\ jobs[r] = "queued" \/ (jobs[r] = "batch" /\ Dead)
      /\ jobs' \in [Requests -> Places] /\ \A x \in Requests : x # r => jobs'[x] = jobs[x]
      /\ jobs'[r] = IF r \in bindings THEN "writing" ELSE "settling"
      /\ active' = active /\ marked \subseteq marked'
      /\ OpsStay /\ LifeStays /\ UNCHANGED <<rows, bindings, tickets, withdrawn, admissions, broken, ran>>
  BY <1>0 DEF FinishBegins, Places, memory, work, Types
<1>2. Types'
  BY <1>0, <1>1, RequestParts, IdleTask DEF Types, OpsStay, LifeStays, Places, Tasks
<1>3. RowsOK'
  BY <1>0, <1>1, RequestParts, IdleTask DEF Types, OpsStay, LifeStays, RowsOK, Tasks
<1>4. JobsOK'
  BY <1>0, <1>1, RequestParts, IdleTask DEF Types, OpsStay, LifeStays, JobsOK, Busy, InActive, Tasks
<1>5. BoundOK'
  BY <1>0, <1>1, RequestParts, IdleTask DEF Types, OpsStay, LifeStays, BoundOK, JobsOK, InActive, Busy,
     Claimed, Tasks
<1>6. RanOK'
  BY <1>0, <1>1, RequestParts, IdleTask DEF Types, OpsStay, LifeStays, RanOK, JobsOK, InActive, Busy,
     Claimed, Begun, Tasks
<1>7. HandedOK'
  BY <1>0, <1>1, RequestParts, IdleTask DEF Types, OpsStay, LifeStays, HandedOK, Claimed, Tasks
<1>8. SettledOK'
  BY <1>0, <1>1, RequestParts, IdleTask DEF Types, OpsStay, LifeStays, SettledOK, Held, Tasks, BoundOK,
     Busy, Dead, LifeOK
<1>9. WithdrawnOK'
  BY <1>0, <1>1, RequestParts, IdleTask DEF Types, OpsStay, LifeStays, WithdrawnOK, Tasks
<1>10. ControlOK'
  BY <1>0, <1>1, RequestParts, IdleTask DEF Types, OpsStay, LifeStays, ControlOK, Tasks
<1>11. ReservedOK'
  BY <1>0, <1>1, RequestParts, IdleTask DEF Types, OpsStay, LifeStays, ReservedOK, Claimed, Tasks
<1>12. AcceptsOK'
  BY <1>0, <1>1, RequestParts, IdleTask DEF Types, OpsStay, LifeStays, AcceptsOK, Claimed, Held, Tasks
<1>13. CleanupOK'
  BY <1>0, <1>1, RequestParts, IdleTask DEF Types, OpsStay, LifeStays, CleanupOK, Claimed, Busy, Tasks
<1>14. BatchOK'
  BY <1>0, <1>1, RequestParts, IdleTask DEF Types, OpsStay, LifeStays, BatchOK, Tasks
<1>15. MembersOK'
  BY <1>0, <1>1, RequestParts, IdleTask DEF Types, OpsStay, LifeStays, MembersOK, Dead, Tasks, BatchOK
<1>16. BegunOK'
  BY <1>0, <1>1, RequestParts, IdleTask DEF Types, OpsStay, LifeStays, BegunOK, BatchOK, Begun, Tasks
<1>17. WriteOK'
  BY <1>0, <1>1, RequestParts, IdleTask DEF Types, OpsStay, LifeStays, WriteOK, BatchOK, Held, Tasks
<1>18. LifeOK'
  BY <1>0, <1>1, RequestParts, IdleTask DEF Types, OpsStay, LifeStays, LifeOK, Dead, Tasks
<1>19. RunningOK'
  BY <1>0, <1>1, RequestParts, IdleTask DEF Types, OpsStay, LifeStays, RunningOK, Held, InJobs, Tasks,
     Places
<1>20. OwnedUntilSettled'
  BY <1>0, <1>1, RequestParts, IdleTask DEF Types, OpsStay, LifeStays, OwnedUntilSettled, Held, InJobs,
     Tasks
<1> QED
  BY <1>2, <1>3, <1>4, <1>5, <1>6, <1>7, <1>8, <1>9, <1>10, <1>11, <1>12, <1>13, <1>14, <1>15, <1>16,
     <1>17, <1>18, <1>19, <1>20 DEF IInv

\* What neither the jobs nor the task can see.
LEMMA AsideKeeps ==
  ASSUME IInv, UNCHANGED <<jobs, active>>, marked \subseteq marked',
         UNCHANGED <<rows, bindings, tickets, withdrawn, admissions, broken, ran>>, OpsStay, LifeStays
  PROVE  IInv'
<1>0. Types /\ RowsOK /\ JobsOK /\ BoundOK /\ RanOK /\ HandedOK /\ SettledOK /\ WithdrawnOK
      /\ ControlOK /\ ReservedOK /\ AcceptsOK /\ CleanupOK
      /\ BatchOK /\ MembersOK /\ BegunOK /\ WriteOK /\ LifeOK /\ RunningOK /\ OwnedUntilSettled
  BY DEF IInv
<1>1. /\ jobs' = jobs /\ active' = active /\ marked \subseteq marked'
      /\ OpsStay /\ LifeStays /\ UNCHANGED <<rows, bindings, tickets, withdrawn, admissions, broken, ran>>
  BY <1>0 DEF OpsStay, memory, work, Types
<1>2. Types'
  BY <1>0, <1>1, RequestParts, IdleTask DEF Types, OpsStay, LifeStays, Places, Tasks
<1>3. RowsOK'
  BY <1>0, <1>1, RequestParts, IdleTask DEF Types, OpsStay, LifeStays, RowsOK, Tasks
<1>4. JobsOK'
  BY <1>0, <1>1, RequestParts, IdleTask DEF Types, OpsStay, LifeStays, JobsOK, Busy, InActive, Tasks
<1>5. BoundOK'
  BY <1>0, <1>1, RequestParts, IdleTask DEF Types, OpsStay, LifeStays, BoundOK, JobsOK, InActive, Busy,
     Claimed, Tasks
<1>6. RanOK'
  BY <1>0, <1>1, RequestParts, IdleTask DEF Types, OpsStay, LifeStays, RanOK, JobsOK, InActive, Busy,
     Claimed, Begun, Tasks
<1>7. HandedOK'
  BY <1>0, <1>1, RequestParts, IdleTask DEF Types, OpsStay, LifeStays, HandedOK, Claimed, Tasks
<1>8. SettledOK'
  BY <1>0, <1>1, RequestParts, IdleTask DEF Types, OpsStay, LifeStays, SettledOK, Held, Tasks
<1>9. WithdrawnOK'
  BY <1>0, <1>1, RequestParts, IdleTask DEF Types, OpsStay, LifeStays, WithdrawnOK, Tasks
<1>10. ControlOK'
  BY <1>0, <1>1, RequestParts, IdleTask DEF Types, OpsStay, LifeStays, ControlOK, Tasks
<1>11. ReservedOK'
  BY <1>0, <1>1, RequestParts, IdleTask DEF Types, OpsStay, LifeStays, ReservedOK, Claimed, Tasks
<1>12. AcceptsOK'
  BY <1>0, <1>1, RequestParts, IdleTask DEF Types, OpsStay, LifeStays, AcceptsOK, Claimed, Held, Tasks
<1>13. CleanupOK'
  BY <1>0, <1>1, RequestParts, IdleTask DEF Types, OpsStay, LifeStays, CleanupOK, Claimed, Busy, Tasks
<1>14. BatchOK'
  BY <1>0, <1>1, RequestParts, IdleTask DEF Types, OpsStay, LifeStays, BatchOK, Tasks
<1>15. MembersOK'
  BY <1>0, <1>1, RequestParts, IdleTask DEF Types, OpsStay, LifeStays, MembersOK, Dead, Tasks
<1>16. BegunOK'
  BY <1>0, <1>1, RequestParts, IdleTask DEF Types, OpsStay, LifeStays, BegunOK, BatchOK, Begun, Tasks
<1>17. WriteOK'
  BY <1>0, <1>1, RequestParts, IdleTask DEF Types, OpsStay, LifeStays, WriteOK, BatchOK, Held, Tasks
<1>18. LifeOK'
  BY <1>0, <1>1, RequestParts, IdleTask DEF Types, OpsStay, LifeStays, LifeOK, Dead, Tasks
<1>19. RunningOK'
  BY <1>0, <1>1, RequestParts, IdleTask DEF Types, OpsStay, LifeStays, RunningOK, Held, InJobs, Tasks
<1>20. OwnedUntilSettled'
  BY <1>0, <1>1, RequestParts, IdleTask DEF Types, OpsStay, LifeStays, OwnedUntilSettled, Held, InJobs,
     Tasks
<1> QED
  BY <1>2, <1>3, <1>4, <1>5, <1>6, <1>7, <1>8, <1>9, <1>10, <1>11, <1>12, <1>13, <1>14, <1>15, <1>16,
     <1>17, <1>18, <1>19, <1>20 DEF IInv

\* The control decides on what it has read.
LEMMA ControlReadsKeeps ==
  ASSUME IInv, ControlReads
  PROVE  IInv'
<1>0. Types /\ RowsOK /\ JobsOK /\ BoundOK /\ RanOK /\ HandedOK /\ SettledOK /\ WithdrawnOK
      /\ ControlOK /\ ReservedOK /\ AcceptsOK /\ CleanupOK
      /\ BatchOK /\ MembersOK /\ BegunOK /\ WriteOK /\ LifeOK /\ RunningOK /\ OwnedUntilSettled
  BY DEF IInv
<1>1. /\ active.kind = "control" /\ active.pc = "new" /\ active.members = {} /\ active.wait = {} /\ ~active.cancelling
      /\ active' \in Tasks
      /\ \/ active' = Idle
         \/ /\ active'.kind = "control" /\ active'.pc = "reserve" /\ active'.members = {}
            /\ active'.wait = {} /\ active'.todo \subseteq Messages
      /\ UNCHANGED <<rows, bindings, tickets, withdrawn, revoked, jobs, order, marked, admissions, op, broken, life, ran>>
  <2>1. active.kind = "control" /\ active.pc = "new" /\ active.members = {} /\ active.wait = {} /\ ~active.cancelling
    BY <1>0 DEF ControlReads, Control, ControlOK
  <2>2. active' = Idle \/ \E S \in SUBSET Messages : active' = [active EXCEPT !.pc = "reserve", !.todo = S]
    BY DEF ControlReads, Ends
  <2>3. CASE active' = Idle
    BY <2>1, <2>3, IdleTask DEF ControlReads, memory, work
  <2>4. ASSUME NEW S \in SUBSET Messages, active' = [active EXCEPT !.pc = "reserve", !.todo = S]
        PROVE  active' \in Tasks /\ active'.kind = "control" /\ active'.pc = "reserve"
               /\ active'.members = {} /\ active'.wait = {} /\ active'.todo = S
    BY <1>0, <2>1, <2>4 DEF Types, Tasks
  <2> QED
    BY <2>1, <2>2, <2>3, <2>4 DEF ControlReads, memory, work
<1>2. Types'
  BY <1>0, <1>1, RequestParts, IdleTask DEF Types, Places, Tasks
<1>3. RowsOK'
  BY <1>0, <1>1, RequestParts, IdleTask DEF Types, RowsOK, Tasks
<1>4. JobsOK'
  BY <1>0, <1>1, RequestParts, IdleTask DEF Types, JobsOK, Busy, InActive, Tasks
<1>5. BoundOK'
  BY <1>0, <1>1, RequestParts, IdleTask DEF Types, BoundOK, JobsOK, InActive, Busy, Claimed, Tasks
<1>6. RanOK'
  BY <1>0, <1>1, RequestParts, IdleTask DEF Types, RanOK, JobsOK, InActive, Busy, Claimed, Begun, Tasks
<1>7. HandedOK'
  BY <1>0, <1>1, RequestParts, IdleTask DEF Types, HandedOK, Claimed, Tasks
<1>8. SettledOK'
  BY <1>0, <1>1, RequestParts, IdleTask DEF Types, SettledOK, Held, Tasks
<1>9. WithdrawnOK'
  BY <1>0, <1>1, RequestParts, IdleTask DEF Types, WithdrawnOK, Tasks
<1>10. ControlOK'
  BY <1>0, <1>1, RequestParts, IdleTask DEF Types, ControlOK, Tasks
<1>11. ReservedOK'
  BY <1>0, <1>1, RequestParts, IdleTask DEF Types, ReservedOK, Claimed, Tasks
<1>12. AcceptsOK'
  BY <1>0, <1>1, RequestParts, IdleTask DEF Types, AcceptsOK, Claimed, Held, Tasks
<1>13. CleanupOK'
  BY <1>0, <1>1, RequestParts, IdleTask DEF Types, CleanupOK, Claimed, Busy, Tasks
<1>14. BatchOK'
  BY <1>0, <1>1, RequestParts, IdleTask DEF Types, BatchOK, Tasks
<1>15. MembersOK'
  BY <1>0, <1>1, RequestParts, IdleTask DEF Types, MembersOK, Dead, Tasks
<1>16. BegunOK'
  BY <1>0, <1>1, RequestParts, IdleTask DEF Types, BegunOK, BatchOK, Begun, Tasks
<1>17. WriteOK'
  BY <1>0, <1>1, RequestParts, IdleTask DEF Types, WriteOK, BatchOK, Held, Tasks
<1>18. LifeOK'
  BY <1>0, <1>1, RequestParts, IdleTask DEF Types, LifeOK, Dead, Tasks
<1>19. RunningOK'
  BY <1>0, <1>1, RequestParts, IdleTask DEF Types, RunningOK, Held, InJobs, Tasks
<1>20. OwnedUntilSettled'
  BY <1>0, <1>1, RequestParts, IdleTask DEF Types, OwnedUntilSettled, Held, InJobs, Tasks
<1> QED
  BY <1>2, <1>3, <1>4, <1>5, <1>6, <1>7, <1>8, <1>9, <1>10, <1>11, <1>12, <1>13, <1>14, <1>15, <1>16,
     <1>17, <1>18, <1>19, <1>20 DEF IInv

\* All of the rows are claimed, each a next time, or none.
LEMMA ReserveKeeps ==
  ASSUME IInv, Reserve
  PROVE  IInv'
<1>0. Types /\ RowsOK /\ JobsOK /\ BoundOK /\ RanOK /\ HandedOK /\ SettledOK /\ WithdrawnOK
      /\ ControlOK /\ ReservedOK /\ AcceptsOK /\ CleanupOK
      /\ BatchOK /\ MembersOK /\ BegunOK /\ WriteOK /\ LifeOK /\ RunningOK /\ OwnedUntilSettled
  BY DEF IInv
<1>1. /\ active.kind = "control" /\ active.pc = "reserve" /\ active.members = {}
      /\ active' \in Tasks /\ rows' \in [Messages -> Row]
      /\ active'.kind = "control" /\ active'.pc = "reserved" /\ active'.wait = {}
      /\ \A m \in Messages :
         \/ rows'[m] = rows[m] /\ \A r \in active'.members : r[1] # m
         \/ /\ rows[m].status = "pending" /\ rows'[m].status = "claimed"
            /\ rows'[m].attempt = rows[m].tries + 1 /\ rows'[m].tries = rows[m].tries + 1
            /\ \A r \in active'.members : r[1] = m => r[2] = rows[m].tries + 1
      /\ \A r \in Requests : rows'[r[1]] # rows[r[1]] /\ r[2] = rows[r[1]].tries + 1 => r \in active'.members
      /\ UNCHANGED <<bindings, tickets, withdrawn, revoked, jobs, order, marked, admissions, op, broken, life, ran>>
  <2> DEFINE C == IF \A m \in active.todo : rows[m].status = "pending" THEN active.todo ELSE {}
             Q == {<<m, rows[m].tries + 1>> : m \in C}
  <2>1. /\ active.kind = "control" /\ active.pc = "reserve" /\ active.members = {} /\ active.wait = {}
        /\ active.todo \subseteq Messages
    BY <1>0 DEF Reserve, Control, ControlOK
  <2>2. C \subseteq Messages /\ \A m \in C : rows[m].status = "pending"
    BY <2>1
  <2>3. rows' = [m \in Messages |-> IF m \in C THEN Claim(rows[m]) ELSE rows[m]]
    BY DEF Reserve
  <2>4. \E o \in {"claimed", "refused"} :
           active' = [active EXCEPT !.pc = "reserved", !.todo = {}, !.members = Q, !.outcome = o]
    BY DEF Reserve
  <2> HIDE DEF C
  <2>5. \A m \in Messages : /\ Claim(rows[m]) \in Row /\ Claim(rows[m]).status = "claimed"
                             /\ Claim(rows[m]).attempt = rows[m].tries + 1
                             /\ Claim(rows[m]).tries = rows[m].tries + 1
    BY <1>0, ClaimRow DEF Types
  <2>6. /\ Q \in SUBSET (Messages \X Nat)
        /\ \A r \in Q : r[1] \in C /\ r[2] = rows[r[1]].tries + 1
        /\ \A m \in C : <<m, rows[m].tries + 1>> \in Q
    BY <1>0, <2>2 DEF Types, Row
  <2> HIDE DEF Q
  <2>7. active' \in Tasks /\ active'.kind = "control" /\ active'.pc = "reserved" /\ active'.wait = {}
        /\ active'.members = Q
    BY <1>0, <2>1, <2>4, <2>6 DEF Types, Tasks
  <2>8. rows' \in [Messages -> Row]
    BY <1>0, <2>3, <2>5 DEF Types
  <2>9. \A r \in Requests : rows'[r[1]] # rows[r[1]] /\ r[2] = rows[r[1]].tries + 1 => r \in Q
    <3> TAKE r \in Requests
    <3>1. r[1] \in Messages /\ r = <<r[1], r[2]>>
      BY RequestParts DEF Requests
    <3>2. ASSUME rows'[r[1]] # rows[r[1]], r[2] = rows[r[1]].tries + 1
          PROVE  r \in Q
      <4>1. r[1] \in C
        BY <2>3, <3>1, <3>2
      <4>2. r = <<r[1], rows[r[1]].tries + 1>>
        BY <3>1, <3>2
      <4>3. <<r[1], rows[r[1]].tries + 1>> \in Q
        BY <2>6, <4>1
      <4> QED
        BY <4>2, <4>3
    <3> QED
      BY <3>2
  <2> QED
    BY <2>1, <2>2, <2>3, <2>5, <2>6, <2>7, <2>8, <2>9 DEF Reserve, memory, work
<1>2. Types'
  BY <1>0, <1>1, RequestParts, IdleTask DEF Types, Places, Tasks
<1>3. RowsOK'
  BY <1>0, <1>1, RequestParts, IdleTask DEF Types, RowsOK, Tasks
<1>4. JobsOK'
  <2> SUFFICES ASSUME NEW r \in Requests
               PROVE  /\ jobs'[r] # "none" => r[2] <= rows'[r[1]].tries
                      /\ jobs'[r] = "batch" => InActive(r)'
                      /\ Busy(r)' => r[2] = rows'[r[1]].tries
    BY DEF JobsOK
  <2>1. r[1] \in Messages /\ r[2] \in Nat /\ rows[r[1]].tries \in Nat
    BY <1>0, RequestParts DEF Types, Row
  <2>2. jobs'[r] = jobs[r] /\ jobs[r] # "batch"
    BY <1>0, <1>1 DEF JobsOK, InActive
  <2>3. Busy(r)' => Busy(r)
    BY <1>1, <2>2 DEF Busy
  <2>4. (jobs[r] # "none" => r[2] <= rows[r[1]].tries) /\ (Busy(r) => r[2] = rows[r[1]].tries)
    BY <1>0 DEF JobsOK
  <2>5. CASE rows'[r[1]] = rows[r[1]]
    BY <2>2, <2>3, <2>4, <2>5
  <2>6. CASE rows[r[1]].status = "pending" /\ rows'[r[1]].tries = rows[r[1]].tries + 1
    <3>1. life # "retired"
      BY <1>0, <1>1, IdleTask DEF LifeOK, Dead
    <3>2. ~Busy(r)
      BY <1>0, <2>6, <3>1 DEF BoundOK
    <3> QED
      BY <2>1, <2>2, <2>3, <2>4, <2>6, <3>2
  <2> QED
    BY <1>1, <2>1, <2>5, <2>6
<1>5. BoundOK'
  BY <1>0, <1>1, RequestParts, IdleTask DEF Types, BoundOK, JobsOK, InActive, Busy, Claimed, Tasks
<1>6. RanOK'
  BY <1>0, <1>1, RequestParts, IdleTask DEF Types, RanOK, JobsOK, InActive, Busy, Claimed, Begun, Tasks
<1>7. HandedOK'
  BY <1>0, <1>1, RequestParts, IdleTask DEF Types, HandedOK, Claimed, Tasks
<1>8. SettledOK'
  <2> SUFFICES ASSUME NEW r \in Requests, jobs'[r] = "settling", Held(r)'
               PROVE  broken'
    BY DEF SettledOK
  <2>1. r[1] \in Messages /\ r[2] \in Nat /\ rows[r[1]].tries \in Nat
    BY <1>0, RequestParts DEF Types, Row
  <2>2. jobs[r] = "settling" /\ r[2] <= rows[r[1]].tries /\ (Held(r) => broken)
    BY <1>0, <1>1 DEF JobsOK, SettledOK
  <2>3. rows'[r[1]].attempt = r[2]
    BY DEF Held
  <2>4. rows'[r[1]] = rows[r[1]]
    BY <1>1, <2>1, <2>2, <2>3
  <2> QED
    BY <1>1, <2>2, <2>4 DEF Held
<1>9. WithdrawnOK'
  <2> SUFFICES ASSUME NEW m \in Messages
               PROVE  /\ m \in withdrawn' => op'[m].pc = "disk" \/ rows'[m].status = "cancelled"
                      /\ op'[m].already => rows'[m].status = "cancelled"
    BY DEF WithdrawnOK
  <2>1. rows'[m] = rows[m] \/ rows[m].status = "pending"
    BY <1>1
  <2>2. rows[m].status = "cancelled" => rows'[m].status = "cancelled"
    BY <2>1
  <2> QED
    BY <1>0, <1>1, <2>2 DEF WithdrawnOK
<1>10. ControlOK'
  <2>1. \A r \in Requests : r \in active'.members => r[2] = rows'[r[1]].tries
    <3> TAKE r \in Requests
    <3>1. r[1] \in Messages
      BY RequestParts
    <3> QED
      BY <1>1, <3>1
  <2> QED
    BY <1>1, <2>1 DEF ControlOK
<1>11. ReservedOK'
  <2> SUFFICES ASSUME NEW r \in Requests, r \in active'.members
               PROVE  jobs'[r] = "none" /\ rows'[r[1]].status \notin {"absent", "pending"}
    BY DEF ReservedOK, Claimed
  <2>1. r[1] \in Messages /\ rows[r[1]].tries \in Nat
    BY <1>0, RequestParts DEF Types, Row
  <2>2. r[2] = rows[r[1]].tries + 1 /\ rows'[r[1]].status = "claimed"
    BY <1>1, <2>1
  <2>3. jobs[r] # "none" => r[2] <= rows[r[1]].tries
    BY <1>0 DEF JobsOK
  <2>4. jobs[r] = "none"
    BY <2>1, <2>2, <2>3
  <2> QED
    BY <1>1, <2>2, <2>4
<1>12. AcceptsOK'
  BY <1>0, <1>1, RequestParts, IdleTask DEF Types, AcceptsOK, Claimed, Held, Tasks
<1>13. CleanupOK'
  BY <1>0, <1>1, RequestParts, IdleTask DEF Types, CleanupOK, Claimed, Busy, Tasks
<1>14. BatchOK'
  BY <1>0, <1>1, RequestParts, IdleTask DEF Types, BatchOK, Tasks
<1>15. MembersOK'
  BY <1>0, <1>1, RequestParts, IdleTask DEF Types, MembersOK, Dead, Tasks
<1>16. BegunOK'
  BY <1>0, <1>1, RequestParts, IdleTask DEF Types, BegunOK, BatchOK, Begun, Tasks
<1>17. WriteOK'
  BY <1>0, <1>1, RequestParts, IdleTask DEF Types, WriteOK, BatchOK, Held, Tasks
<1>18. LifeOK'
  BY <1>0, <1>1, RequestParts, IdleTask DEF Types, LifeOK, Dead, Tasks
<1>19. RunningOK'
  <2> SUFFICES ASSUME NEW r \in Requests, Held(r)', rows'[r[1]].status = "running"
               PROVE  broken \/ InJobs(r)
    BY <1>1 DEF RunningOK, InJobs
  <2>1. r[1] \in Messages /\ rows'[r[1]] = rows[r[1]]
    BY <1>1, RequestParts
  <2> QED
    BY <1>0, <2>1 DEF RunningOK, Held
<1>20. OwnedUntilSettled'
  <2> SUFFICES ASSUME NEW r \in Requests, Held(r)'
               PROVE  /\ life' # "retired"
                      /\ \/ broken' \/ InJobs(r)' \/ r \in admissions'
                         \/ active'.kind = "control" /\ r \in active'.members
                         \/ op'[r[1]].pc = "disk"
    BY DEF OwnedUntilSettled
  <2>1. r[1] \in Messages /\ life # "retired"
    BY <1>0, <1>1, RequestParts, IdleTask DEF LifeOK, Dead
  <2>2. CASE rows'[r[1]] = rows[r[1]]
    <3>1. Held(r)
      BY <2>2 DEF Held
    <3>2. broken \/ InJobs(r) \/ r \in admissions \/ op[r[1]].pc = "disk"
      BY <1>0, <1>1, <3>1 DEF OwnedUntilSettled
    <3> QED
      BY <1>1, <2>1, <3>2 DEF InJobs
  <2>3. CASE rows'[r[1]] # rows[r[1]]
    <3>1. r[2] = rows[r[1]].tries + 1
      BY <1>1, <2>1, <2>3 DEF Held
    <3> QED
      BY <1>1, <2>1, <2>3, <3>1
  <2> QED
    BY <2>2, <2>3
<1> QED
  BY <1>2, <1>3, <1>4, <1>5, <1>6, <1>7, <1>8, <1>9, <1>10, <1>11, <1>12, <1>13, <1>14, <1>15, <1>16,
     <1>17, <1>18, <1>19, <1>20 DEF IInv

\* The claims that were not withdrawn become jobs, each the only one of its message that
\* may run.
LEMMA HandoffKeeps ==
  ASSUME IInv, Handoff
  PROVE  IInv'
<1>0. Types /\ RowsOK /\ JobsOK /\ BoundOK /\ RanOK /\ HandedOK /\ SettledOK /\ WithdrawnOK
      /\ ControlOK /\ ReservedOK /\ AcceptsOK /\ CleanupOK
      /\ BatchOK /\ MembersOK /\ BegunOK /\ WriteOK /\ LifeOK /\ RunningOK /\ OwnedUntilSettled
  BY DEF IInv
<1>1. /\ active.kind = "control" /\ active.pc = "reserved" /\ active.wait = {}
      /\ active' \in Tasks
      /\ \/ /\ active' = Idle \/ (active'.kind = "control" /\ active'.pc = "cleanup" /\ active'.todo = {}
                                /\ active'.wait = {} /\ active'.members = active.members)
            /\ active.members = {} \/ active' # Idle
            /\ UNCHANGED <<bindings, tickets, jobs, admissions>>
         \/ /\ active'.kind = "control" /\ active'.pc = "accepts" /\ active'.wait = {}
            /\ active'.members = active.members
            /\ active'.todo = {r \in active.members : r[1] \notin withdrawn}
            /\ bindings' = bindings \cup active'.todo /\ admissions' = admissions \cup active'.todo
            /\ jobs' = [r \in Requests |-> IF r \in active'.todo THEN "spawned" ELSE jobs[r]]
            /\ life = "live"
      /\ tickets' \in [Messages -> Nat]
      /\ UNCHANGED <<rows, withdrawn, revoked, order, marked, op, broken, life, ran>>
  <2>1. active.kind = "control" /\ active.pc = "reserved" /\ active.wait = {}
    BY <1>0 DEF Handoff, Control, ControlOK
  <2>2. CASE active.cancelling \/ ~Context \/ active.outcome = "refused"
    <3>1. active' = CleanUp({}) /\ UNCHANGED <<bindings, tickets, jobs, admissions>>
      BY <2>2 DEF Handoff
    <3>2. CASE active.members = {}
      BY <1>0, <2>1, <3>1, <3>2, IdleTask DEF Handoff, CleanUp, Types, memory, work
    <3>3. CASE active.members # {}
      <4>1. active' = [active EXCEPT !.pc = "cleanup", !.todo = {}, !.hit = FALSE]
        BY <3>1, <3>3 DEF CleanUp
      <4>2. active' \in Tasks /\ active'.kind = "control" /\ active'.pc = "cleanup" /\ active'.todo = {}
            /\ active'.wait = {} /\ active'.members = active.members /\ active' # Idle
        BY <1>0, <2>1, <4>1 DEF Types, Tasks, Idle
      <4> QED
        BY <1>0, <2>1, <3>1, <4>2 DEF Handoff, Types, memory, work
    <3> QED
      BY <3>2, <3>3
  <2>3. CASE ~(active.cancelling \/ ~Context \/ active.outcome = "refused")
    <3>1. /\ bindings' = bindings \cup Handed /\ admissions' = admissions \cup Handed
          /\ jobs' = [r \in Requests |-> IF r \in Handed THEN "spawned" ELSE jobs[r]]
          /\ active' = [active EXCEPT !.pc = "accepts", !.todo = Handed]
          /\ tickets' = [m \in Messages |->
                            IF <<m, rows[m].tries>> \in Handed THEN rows[m].tries ELSE tickets[m]]
          /\ life = "live"
      BY <2>3 DEF Handoff, Context
    <3>2. Handed = {r \in active.members : r[1] \notin withdrawn} /\ Handed \in SUBSET (Messages \X Nat)
      BY <1>0 DEF Handed, Types, Tasks
    <3>3. tickets' \in [Messages -> Nat]
      BY <1>0, <3>1 DEF Types, Row
    <3> HIDE DEF Handed
    <3>4. active' \in Tasks /\ active'.kind = "control" /\ active'.pc = "accepts" /\ active'.todo = Handed
          /\ active'.wait = {} /\ active'.members = active.members
      BY <1>0, <2>1, <3>1, <3>2 DEF Types, Tasks
    <3> QED
      BY <2>1, <3>1, <3>2, <3>3, <3>4 DEF Handoff
  <2> QED
    BY <2>2, <2>3
<1>2. Types'
  BY <1>0, <1>1, RequestParts, IdleTask DEF Types, Places, Tasks
<1>3. RowsOK'
  BY <1>0, <1>1, RequestParts, IdleTask DEF Types, RowsOK, Tasks
<1>4. JobsOK'
  BY <1>0, <1>1, RequestParts, IdleTask DEF Types, JobsOK, Busy, InActive, Tasks, ControlOK, Claimed
<1>5. BoundOK'
  BY <1>0, <1>1, RequestParts, IdleTask DEF Types, BoundOK, JobsOK, InActive, Busy, Claimed, Tasks,
     ReservedOK, ControlOK
<1>6. RanOK'
  BY <1>0, <1>1, RequestParts, IdleTask DEF Types, RanOK, JobsOK, InActive, Busy, Claimed, Begun, Tasks
<1>7. HandedOK'
  BY <1>0, <1>1, RequestParts, IdleTask DEF Types, HandedOK, Claimed, Tasks
<1>8. SettledOK'
  BY <1>0, <1>1, RequestParts, IdleTask DEF Types, SettledOK, Held, Tasks
<1>9. WithdrawnOK'
  BY <1>0, <1>1, RequestParts, IdleTask DEF Types, WithdrawnOK, Tasks
<1>10. ControlOK'
  BY <1>0, <1>1, RequestParts, IdleTask DEF Types, ControlOK, Tasks
<1>11. ReservedOK'
  BY <1>0, <1>1, RequestParts, IdleTask DEF Types, ReservedOK, Claimed, Tasks
<1>12. AcceptsOK'
  BY <1>0, <1>1, RequestParts, IdleTask DEF Types, AcceptsOK, Claimed, Held, Tasks, WithdrawnOK, ReservedOK
<1>13. CleanupOK'
  BY <1>0, <1>1, RequestParts, IdleTask DEF Types, CleanupOK, Claimed, Busy, Tasks, ReservedOK
<1>14. BatchOK'
  BY <1>0, <1>1, RequestParts, IdleTask DEF Types, BatchOK, Tasks
<1>15. MembersOK'
  BY <1>0, <1>1, RequestParts, IdleTask DEF Types, MembersOK, Dead, Tasks
<1>16. BegunOK'
  BY <1>0, <1>1, RequestParts, IdleTask DEF Types, BegunOK, BatchOK, Begun, Tasks
<1>17. WriteOK'
  BY <1>0, <1>1, RequestParts, IdleTask DEF Types, WriteOK, BatchOK, Held, Tasks
<1>18. LifeOK'
  BY <1>0, <1>1, RequestParts, IdleTask DEF Types, LifeOK, Dead, Tasks
<1>19. RunningOK'
  BY <1>0, <1>1, RequestParts, IdleTask DEF Types, RunningOK, Held, InJobs, Tasks, ReservedOK, Claimed
<1>20. OwnedUntilSettled'
  BY <1>0, <1>1, RequestParts, IdleTask DEF Types, OwnedUntilSettled, Held, InJobs, Tasks
<1> QED
  BY <1>2, <1>3, <1>4, <1>5, <1>6, <1>7, <1>8, <1>9, <1>10, <1>11, <1>12, <1>13, <1>14, <1>15, <1>16,
     <1>17, <1>18, <1>19, <1>20 DEF IInv

\* The control ends with its jobs accepted, or begins its cleanup.
LEMMA AcceptedKeeps ==
  ASSUME IInv, Accepted
  PROVE  IInv'
<1>0. Types /\ RowsOK /\ JobsOK /\ BoundOK /\ RanOK /\ HandedOK /\ SettledOK /\ WithdrawnOK
      /\ ControlOK /\ ReservedOK /\ AcceptsOK /\ CleanupOK
      /\ BatchOK /\ MembersOK /\ BegunOK /\ WriteOK /\ LifeOK /\ RunningOK /\ OwnedUntilSettled
  BY DEF IInv
<1>1. /\ active.kind = "control" /\ active.pc = "accepts" /\ active.wait = {}
      /\ active' \in Tasks
      /\ \/ /\ active' = Idle
            /\ active.members = {} \/ \A r \in active.todo : InJobs(r) \/ jobs[r] = "none"
         \/ /\ active'.kind = "control" /\ active'.pc = "cleanup" /\ active'.members = active.members
            /\ active'.todo = active.todo /\ active'.wait = {}
      /\ UNCHANGED <<rows, bindings, tickets, withdrawn, revoked, jobs, order, marked, admissions, op, broken, life, ran>>
  <2>1. active.kind = "control" /\ active.pc = "accepts" /\ active.wait = {}
    BY <1>0 DEF Accepted, Control, ControlOK
  <2>2. \/ active' = Idle /\ (active.members = {} \/ \A r \in active.todo : InJobs(r) \/ jobs[r] = "none")
        \/ active' = [active EXCEPT !.pc = "cleanup", !.todo = active.todo, !.hit = FALSE]
    BY DEF Accepted, CleanUp, Ends
  <2>3. CASE active' = Idle /\ (active.members = {} \/ \A r \in active.todo : InJobs(r) \/ jobs[r] = "none")
    BY <2>1, <2>3, IdleTask DEF Accepted, memory, work
  <2>4. CASE active' = [active EXCEPT !.pc = "cleanup", !.todo = active.todo, !.hit = FALSE]
    <3>1. active' \in Tasks /\ active'.kind = "control" /\ active'.pc = "cleanup"
          /\ active'.members = active.members /\ active'.todo = active.todo /\ active'.wait = {}
      BY <1>0, <2>1, <2>4 DEF Types, Tasks
    <3> QED
      BY <2>1, <3>1 DEF Accepted, memory, work
  <2> QED
    BY <2>2, <2>3, <2>4
<1>2. Types'
  BY <1>0, <1>1, RequestParts, IdleTask DEF Types, Places, Tasks
<1>3. RowsOK'
  BY <1>0, <1>1, RequestParts, IdleTask DEF Types, RowsOK, Tasks
<1>4. JobsOK'
  BY <1>0, <1>1, RequestParts, IdleTask DEF Types, JobsOK, Busy, InActive, Tasks
<1>5. BoundOK'
  BY <1>0, <1>1, RequestParts, IdleTask DEF Types, BoundOK, JobsOK, InActive, Busy, Claimed, Tasks
<1>6. RanOK'
  BY <1>0, <1>1, RequestParts, IdleTask DEF Types, RanOK, JobsOK, InActive, Busy, Claimed, Begun, Tasks
<1>7. HandedOK'
  <2> SUFFICES ASSUME NEW r \in Requests
               PROVE  /\ jobs[r] = "spawned" => broken \/ (Claimed(r)' /\ r \in active'.todo /\ active'.pc = "cleanup")
                      /\ jobs[r] = "refused" => broken \/ Claimed(r)'
    BY <1>1 DEF HandedOK
  <2>1. /\ jobs[r] = "spawned" => broken \/ (r \in active.members /\ r \in active.todo)
        /\ jobs[r] = "refused" => broken \/ r \in active.members
        /\ r \in active.members /\ r \notin active.todo => jobs[r] = "none"
    BY <1>0, <1>1 DEF HandedOK, AcceptsOK, Claimed
  <2>2. CASE active' = Idle
    <3>1. active.members = {} \/ (r \in active.todo => InJobs(r) \/ jobs[r] = "none")
      BY <1>1, <2>2, IdleTask
    <3>2. InJobs(r) => jobs[r] \notin {"spawned", "refused"}
      BY DEF InJobs
    <3> QED
      BY <2>1, <3>1, <3>2
  <2>3. CASE active' # Idle
    BY <1>1, <2>1, <2>3 DEF Claimed
  <2> QED
    BY <2>2, <2>3
<1>8. SettledOK'
  BY <1>0, <1>1, RequestParts, IdleTask DEF Types, SettledOK, Held, Tasks
<1>9. WithdrawnOK'
  BY <1>0, <1>1, RequestParts, IdleTask DEF Types, WithdrawnOK, Tasks
<1>10. ControlOK'
  BY <1>0, <1>1, RequestParts, IdleTask DEF Types, ControlOK, Tasks
<1>11. ReservedOK'
  BY <1>0, <1>1, RequestParts, IdleTask DEF Types, ReservedOK, Claimed, Tasks
<1>12. AcceptsOK'
  BY <1>0, <1>1, RequestParts, IdleTask DEF Types, InJobs, RunningOK, AcceptsOK, Claimed, Held, Tasks
<1>13. CleanupOK'
  BY <1>0, <1>1, RequestParts, IdleTask DEF Types, CleanupOK, Claimed, Busy, Tasks, AcceptsOK, Held
<1>14. BatchOK'
  BY <1>0, <1>1, RequestParts, IdleTask DEF Types, BatchOK, Tasks
<1>15. MembersOK'
  BY <1>0, <1>1, RequestParts, IdleTask DEF Types, MembersOK, Dead, Tasks
<1>16. BegunOK'
  BY <1>0, <1>1, RequestParts, IdleTask DEF Types, BegunOK, BatchOK, Begun, Tasks
<1>17. WriteOK'
  BY <1>0, <1>1, RequestParts, IdleTask DEF Types, WriteOK, BatchOK, Held, Tasks
<1>18. LifeOK'
  BY <1>0, <1>1, RequestParts, IdleTask DEF Types, LifeOK, Dead, Tasks
<1>19. RunningOK'
  BY <1>0, <1>1, RequestParts, IdleTask DEF Types, RunningOK, Held, InJobs, Tasks
<1>20. OwnedUntilSettled'
  BY <1>0, <1>1, RequestParts, IdleTask DEF Types, InJobs, RunningOK, OwnedUntilSettled, Held, InJobs,
     Tasks, AcceptsOK, Claimed
<1> QED
  BY <1>2, <1>3, <1>4, <1>5, <1>6, <1>7, <1>8, <1>9, <1>10, <1>11, <1>12, <1>13, <1>14, <1>15, <1>16,
     <1>17, <1>18, <1>19, <1>20 DEF IInv

\* A ticket that was handed out is cancelled.
LEMMA CleanupTicketKeeps ==
  ASSUME IInv, NEW r \in Requests, CleanupTicket(r)
  PROVE  IInv'
<1>0. Types /\ RowsOK /\ JobsOK /\ BoundOK /\ RanOK /\ HandedOK /\ SettledOK /\ WithdrawnOK
      /\ ControlOK /\ ReservedOK /\ AcceptsOK /\ CleanupOK
      /\ BatchOK /\ MembersOK /\ BegunOK /\ WriteOK /\ LifeOK /\ RunningOK /\ OwnedUntilSettled
  BY DEF IInv
<1>1. /\ active.kind = "control" /\ active.pc = "cleanup" /\ active.wait = {} /\ r \in active.todo /\ jobs[r] # "spawned"
      /\ active' \in Tasks /\ active'.kind = "control" /\ active'.pc = "cleanup" /\ active'.members = active.members
      /\ active'.todo = active.todo \ {r}
      /\ jobs' \in [Requests -> Places] /\ \A x \in Requests : x # r => jobs'[x] = jobs[x]
      /\ \/ active'.wait = {r} /\ jobs[r] = "saving" /\ marked' = marked \cup {r} /\ UNCHANGED jobs
         \/ active'.wait = {r} /\ jobs[r] \in {"queued", "batch"} /\ jobs'[r] = "writing" /\ UNCHANGED marked
         \/ /\ active'.wait = {} /\ UNCHANGED <<jobs, marked>>
            /\ r \notin bindings \/ jobs[r] \notin {"saving", "queued", "batch"}
      /\ UNCHANGED <<rows, bindings, tickets, withdrawn, revoked, order, admissions, op, broken, life, ran>>
  <2>1. /\ active.kind = "control" /\ active.pc = "cleanup" /\ active.wait = {} /\ r \in active.todo
        /\ jobs[r] # "spawned"
    BY DEF CleanupTicket, Control, Started
  <2>2. active' = [active EXCEPT !.todo = @ \ {r}, !.wait = {r}] \/ active' = [active EXCEPT !.todo = @ \ {r}]
    BY DEF CleanupTicket
  <2>3. active.todo \ {r} \in SUBSET (Messages \cup (Messages \X Nat)) /\ {r} \in SUBSET Requests
    BY <1>0 DEF Types, Tasks
  <2>4. active' \in Tasks /\ active'.kind = "control" /\ active'.pc = "cleanup"
        /\ active'.members = active.members /\ active'.todo = active.todo \ {r}
    BY <1>0, <2>1, <2>2, <2>3 DEF Types, Tasks
  <2>5. \/ active'.wait = {r} /\ jobs[r] = "saving" /\ marked' = marked \cup {r} /\ UNCHANGED jobs
        \/ active'.wait = {r} /\ jobs[r] \in {"queued", "batch"}
           /\ jobs'[r] = "writing" /\ UNCHANGED marked
        \/ /\ active'.wait = {} /\ UNCHANGED <<jobs, marked>>
           /\ r \notin bindings \/ jobs[r] \notin {"saving", "queued", "batch"}
    <3>1. CASE r \in bindings /\ (jobs[r] = "saving" \/ (InJobs(r) /\ ~Finishing(r)))
      <4>1. active' = [active EXCEPT !.todo = @ \ {r}, !.wait = {r}]
        BY <3>1 DEF CleanupTicket
      <4>2. active'.wait = {r}
        BY <1>0, <4>1 DEF Types, Tasks
      <4> QED
        BY <1>0, <3>1, <4>2 DEF CleanupTicket, FinishBegins, InJobs, Finishing, Types, Places
    <3>2. CASE ~(r \in bindings /\ (jobs[r] = "saving" \/ (InJobs(r) /\ ~Finishing(r))))
      <4>1. active' = [active EXCEPT !.todo = @ \ {r}]
        BY <3>2 DEF CleanupTicket
      <4>2. active'.wait = {}
        BY <1>0, <2>1, <4>1 DEF Types, Tasks
      <4> QED
        BY <3>2, <4>2 DEF CleanupTicket, InJobs, Finishing
    <3> QED
      BY <3>1, <3>2
  <2>6. jobs' \in [Requests -> Places] /\ \A x \in Requests : x # r => jobs'[x] = jobs[x]
    BY <1>0 DEF CleanupTicket, FinishBegins, Types, Places
  <2> QED
    BY <2>1, <2>4, <2>5, <2>6 DEF CleanupTicket, memory
<1>2. Types'
  BY <1>0, <1>1, RequestParts, IdleTask DEF Types, Places, Tasks
<1>3. RowsOK'
  BY <1>0, <1>1, RequestParts, IdleTask DEF Types, RowsOK, Tasks
<1>4. JobsOK'
  BY <1>0, <1>1, RequestParts, IdleTask DEF Types, JobsOK, Busy, InActive, Tasks
<1>5. BoundOK'
  BY <1>0, <1>1, RequestParts, IdleTask DEF Types, BoundOK, JobsOK, InActive, Busy, Claimed, Tasks
<1>6. RanOK'
  BY <1>0, <1>1, RequestParts, IdleTask DEF Types, RanOK, JobsOK, InActive, Busy, Claimed, Begun, Tasks
<1>7. HandedOK'
  BY <1>0, <1>1, RequestParts, IdleTask DEF Types, HandedOK, Claimed, Tasks
<1>8. SettledOK'
  BY <1>0, <1>1, RequestParts, IdleTask DEF Types, SettledOK, Held, Tasks
<1>9. WithdrawnOK'
  BY <1>0, <1>1, RequestParts, IdleTask DEF Types, WithdrawnOK, Tasks
<1>10. ControlOK'
  BY <1>0, <1>1, RequestParts, IdleTask DEF Types, ControlOK, Tasks
<1>11. ReservedOK'
  BY <1>0, <1>1, RequestParts, IdleTask DEF Types, ReservedOK, Claimed, Tasks
<1>12. AcceptsOK'
  BY <1>0, <1>1, RequestParts, IdleTask DEF Types, AcceptsOK, Claimed, Held, Tasks
<1>13. CleanupOK'
  BY <1>0, <1>1, RequestParts, IdleTask DEF Types, CleanupOK, Claimed, Busy, Tasks
<1>14. BatchOK'
  BY <1>0, <1>1, RequestParts, IdleTask DEF Types, BatchOK, Tasks
<1>15. MembersOK'
  BY <1>0, <1>1, RequestParts, IdleTask DEF Types, MembersOK, Dead, Tasks
<1>16. BegunOK'
  BY <1>0, <1>1, RequestParts, IdleTask DEF Types, BegunOK, BatchOK, Begun, Tasks
<1>17. WriteOK'
  BY <1>0, <1>1, RequestParts, IdleTask DEF Types, WriteOK, BatchOK, Held, Tasks
<1>18. LifeOK'
  BY <1>0, <1>1, RequestParts, IdleTask DEF Types, LifeOK, Dead, Tasks
<1>19. RunningOK'
  BY <1>0, <1>1, RequestParts, IdleTask DEF Types, RunningOK, Held, InJobs, Tasks
<1>20. OwnedUntilSettled'
  BY <1>0, <1>1, RequestParts, IdleTask DEF Types, OwnedUntilSettled, Held, InJobs, Tasks
<1> QED
  BY <1>2, <1>3, <1>4, <1>5, <1>6, <1>7, <1>8, <1>9, <1>10, <1>11, <1>12, <1>13, <1>14, <1>15, <1>16,
     <1>17, <1>18, <1>19, <1>20 DEF IInv

\* The cancelled ticket is settled.
LEMMA CleanupJoinedKeeps ==
  ASSUME IInv, CleanupJoined
  PROVE  IInv'
<1>0. Types /\ RowsOK /\ JobsOK /\ BoundOK /\ RanOK /\ HandedOK /\ SettledOK /\ WithdrawnOK
      /\ ControlOK /\ ReservedOK /\ AcceptsOK /\ CleanupOK
      /\ BatchOK /\ MembersOK /\ BegunOK /\ WriteOK /\ LifeOK /\ RunningOK /\ OwnedUntilSettled
  BY DEF IInv
<1>1. /\ active.kind = "control" /\ active.pc = "cleanup" /\ \A r \in active.wait : jobs[r] = "none"
      /\ active' \in Tasks /\ active'.kind = "control" /\ active'.pc = "cleanup" /\ active'.members = active.members
      /\ active'.todo = active.todo /\ active'.wait = {}
      /\ UNCHANGED <<rows, bindings, tickets, withdrawn, revoked, jobs, order, marked, admissions, op, broken, life, ran>>
  BY <1>0 DEF CleanupJoined, Control, Tasks, memory, work, Types
<1>2. Types'
  BY <1>0, <1>1, RequestParts, IdleTask DEF Types, Places, Tasks
<1>3. RowsOK'
  BY <1>0, <1>1, RequestParts, IdleTask DEF Types, RowsOK, Tasks
<1>4. JobsOK'
  BY <1>0, <1>1, RequestParts, IdleTask DEF Types, JobsOK, Busy, InActive, Tasks
<1>5. BoundOK'
  BY <1>0, <1>1, RequestParts, IdleTask DEF Types, BoundOK, JobsOK, InActive, Busy, Claimed, Tasks
<1>6. RanOK'
  BY <1>0, <1>1, RequestParts, IdleTask DEF Types, RanOK, JobsOK, InActive, Busy, Claimed, Begun, Tasks
<1>7. HandedOK'
  BY <1>0, <1>1, RequestParts, IdleTask DEF Types, HandedOK, Claimed, Tasks
<1>8. SettledOK'
  BY <1>0, <1>1, RequestParts, IdleTask DEF Types, SettledOK, Held, Tasks
<1>9. WithdrawnOK'
  BY <1>0, <1>1, RequestParts, IdleTask DEF Types, WithdrawnOK, Tasks
<1>10. ControlOK'
  BY <1>0, <1>1, RequestParts, IdleTask DEF Types, ControlOK, Tasks
<1>11. ReservedOK'
  BY <1>0, <1>1, RequestParts, IdleTask DEF Types, ReservedOK, Claimed, Tasks
<1>12. AcceptsOK'
  BY <1>0, <1>1, RequestParts, IdleTask DEF Types, AcceptsOK, Claimed, Held, Tasks
<1>13. CleanupOK'
  BY <1>0, <1>1, RequestParts, IdleTask DEF Types, CleanupOK, Claimed, Busy, Tasks
<1>14. BatchOK'
  BY <1>0, <1>1, RequestParts, IdleTask DEF Types, BatchOK, Tasks
<1>15. MembersOK'
  BY <1>0, <1>1, RequestParts, IdleTask DEF Types, MembersOK, Dead, Tasks
<1>16. BegunOK'
  BY <1>0, <1>1, RequestParts, IdleTask DEF Types, BegunOK, BatchOK, Begun, Tasks
<1>17. WriteOK'
  BY <1>0, <1>1, RequestParts, IdleTask DEF Types, WriteOK, BatchOK, Held, Tasks
<1>18. LifeOK'
  BY <1>0, <1>1, RequestParts, IdleTask DEF Types, LifeOK, Dead, Tasks
<1>19. RunningOK'
  BY <1>0, <1>1, RequestParts, IdleTask DEF Types, RunningOK, Held, InJobs, Tasks
<1>20. OwnedUntilSettled'
  BY <1>0, <1>1, RequestParts, IdleTask DEF Types, OwnedUntilSettled, Held, InJobs, Tasks
<1> QED
  BY <1>2, <1>3, <1>4, <1>5, <1>6, <1>7, <1>8, <1>9, <1>10, <1>11, <1>12, <1>13, <1>14, <1>15, <1>16,
     <1>17, <1>18, <1>19, <1>20 DEF IInv

\* The claims that are left are released: none of them has a job that may run.
LEMMA CleanupEndsKeeps ==
  ASSUME IInv, CleanupEnds
  PROVE  IInv'
<1>0. Types /\ RowsOK /\ JobsOK /\ BoundOK /\ RanOK /\ HandedOK /\ SettledOK /\ WithdrawnOK
      /\ ControlOK /\ ReservedOK /\ AcceptsOK /\ CleanupOK
      /\ BatchOK /\ MembersOK /\ BegunOK /\ WriteOK /\ LifeOK /\ RunningOK /\ OwnedUntilSettled
  BY DEF IInv
<1>1. /\ active.kind = "control" /\ active.pc = "cleanup" /\ (active.hit \/ (active.todo = {} /\ active.wait = {}))
      /\ active' = Idle /\ active' \in Tasks
      /\ broken' = (broken \/ active.hit) /\ bindings' = bindings \ active.members
      /\ jobs' = [r \in Requests |-> IF r \in active.members /\ jobs[r] = "refused" THEN "none" ELSE jobs[r]]
      /\ tickets' \in [Messages -> Nat] /\ rows' \in [Messages -> Row]
      /\ \A m \in Messages :
         \/ rows'[m] = rows[m] /\ (active.todo # {} \/ active.wait # {}
                                  \/ \A r \in active.members : r[1] = m => ~Held(r) \/ rows[m].status # "claimed")
         \/ /\ active.todo = {} /\ active.wait = {} /\ rows[m].status = "claimed"
            /\ \E r \in active.members : r[1] = m /\ r[2] = rows[m].attempt
            /\ rows'[m].status = "pending" /\ rows'[m].tries = rows[m].tries
      /\ UNCHANGED <<withdrawn, revoked, order, marked, admissions, op, life, ran>>
  <2>1. active.kind = "control" /\ active.pc = "cleanup" /\ (active.hit \/ (active.todo = {} /\ active.wait = {}))
    BY DEF CleanupEnds, Control
  <2>2. tickets' \in [Messages -> Nat]
    BY <1>0 DEF CleanupEnds, Types
  <2>3. \A m \in Messages : /\ Release(rows[m]) \in Row /\ Release(rows[m]).status = "pending"
                             /\ Release(rows[m]).tries = rows[m].tries
    BY <1>0 DEF Types, Row, Statuses, Release
  <2>4. rows' \in [Messages -> Row]
    BY <1>0, <2>3 DEF CleanupEnds, Types
  <2>5. \A m \in Messages :
          \/ rows'[m] = rows[m] /\ (active.todo # {} \/ active.wait # {}
                                  \/ \A r \in active.members : r[1] = m => ~Held(r) \/ rows[m].status # "claimed")
          \/ /\ active.todo = {} /\ active.wait = {} /\ rows[m].status = "claimed"
             /\ \E r \in active.members : r[1] = m /\ r[2] = rows[m].attempt
             /\ rows'[m].status = "pending" /\ rows'[m].tries = rows[m].tries
    <3> TAKE m \in Messages
    <3>1. CASE active.todo # {} \/ active.wait # {}
      BY <3>1 DEF CleanupEnds
    <3>2. CASE ~(active.todo # {} \/ active.wait # {})
      BY <2>3, <3>2 DEF CleanupEnds, Released, Held
    <3> QED
      BY <3>1, <3>2
  <2> QED
    BY <2>1, <2>2, <2>4, <2>5, IdleTask DEF CleanupEnds, Ends
<1>2. Types'
  BY <1>0, <1>1, RequestParts, IdleTask DEF Types, Places, Tasks
<1>3. RowsOK'
  BY <1>0, <1>1, RequestParts, IdleTask DEF Types, RowsOK, Tasks
<1>4. JobsOK'
  BY <1>0, <1>1, RequestParts, IdleTask DEF Types, JobsOK, Busy, InActive, Tasks
<1>5. BoundOK'
  <2> SUFFICES ASSUME NEW r \in Requests, Busy(r)', life # "retired"
               PROVE  /\ rows'[r[1]].status \notin {"absent", "pending"}
                      /\ r \in bindings' \/ rows'[r[1]].status = "cancelled" \/ (broken' /\ ~Claimed(r)')
    BY <1>1 DEF BoundOK
  <2>1. /\ r[1] \in Messages /\ ~Claimed(r)' /\ Busy(r)
        /\ \A s \in Requests : s[1] = r[1] /\ s[2] = r[2] => s = r
    BY <1>0, <1>1, RequestParts, IdleTask DEF Busy, Claimed, JobsOK, InActive
  <2>2. /\ rows[r[1]].status \notin {"absent", "pending"} /\ r[2] = rows[r[1]].tries
        /\ r \in bindings \/ rows[r[1]].status = "cancelled" \/ (broken /\ ~Claimed(r))
    BY <1>0, <2>1 DEF BoundOK, JobsOK
  <2>3. CASE r \in active.members /\ active.todo = {} /\ active.wait = {}
    <3>1. r \notin bindings
      BY <1>0, <1>1, <2>1, <2>3 DEF CleanupOK, Claimed
    <3>2. rows[r[1]].status = "cancelled"
      BY <1>1, <2>2, <2>3, <3>1 DEF Claimed
    <3>3. rows'[r[1]] = rows[r[1]]
      BY <1>1, <2>1, <3>2
    <3> QED
      BY <3>2, <3>3
  <2>4. CASE r \in active.members /\ ~(active.todo = {} /\ active.wait = {})
    <3>1. rows'[r[1]] = rows[r[1]] /\ broken'
      BY <1>1, <2>1, <2>4
    <3> QED
      BY <2>1, <2>2, <3>1
  <2>5. CASE r \notin active.members
    <3>1. rows'[r[1]] = rows[r[1]]
      <4>1. SUFFICES ASSUME rows'[r[1]] # rows[r[1]] PROVE FALSE
        OBVIOUS
      <4>2. PICK s \in active.members : s[1] = r[1] /\ s[2] = rows[r[1]].attempt /\ rows[r[1]].status = "claimed"
        BY <1>1, <2>1, <4>1
      <4>3. s[2] = r[2] /\ s = <<s[1], s[2]>>
        BY <1>0, <2>1, <2>2, <4>2 DEF RowsOK, Types, Tasks
      <4>4. s = r
        BY <4>2, <4>3 DEF Requests
      <4> QED
        BY <2>5, <4>2, <4>4
    <3> QED
      BY <1>1, <2>1, <2>2, <2>5, <3>1
  <2> QED
    BY <2>3, <2>4, <2>5
<1>6. RanOK'
  BY <1>0, <1>1, RequestParts, IdleTask DEF Types, RanOK, JobsOK, InActive, Busy, Claimed, Begun, Tasks
<1>7. HandedOK'
  BY <1>0, <1>1, RequestParts, IdleTask DEF Types, HandedOK, Claimed, Tasks
<1>8. SettledOK'
  BY <1>0, <1>1, RequestParts, IdleTask DEF Types, SettledOK, Held, Tasks
<1>9. WithdrawnOK'
  BY <1>0, <1>1, RequestParts, IdleTask DEF Types, WithdrawnOK, Tasks
<1>10. ControlOK'
  BY <1>0, <1>1, RequestParts, IdleTask DEF Types, ControlOK, Tasks
<1>11. ReservedOK'
  BY <1>0, <1>1, RequestParts, IdleTask DEF Types, ReservedOK, Claimed, Tasks
<1>12. AcceptsOK'
  BY <1>0, <1>1, RequestParts, IdleTask DEF Types, AcceptsOK, Claimed, Held, Tasks
<1>13. CleanupOK'
  BY <1>0, <1>1, RequestParts, IdleTask DEF Types, CleanupOK, Claimed, Busy, Tasks
<1>14. BatchOK'
  BY <1>0, <1>1, RequestParts, IdleTask DEF Types, BatchOK, Tasks
<1>15. MembersOK'
  BY <1>0, <1>1, RequestParts, IdleTask DEF Types, MembersOK, Dead, Tasks
<1>16. BegunOK'
  BY <1>0, <1>1, RequestParts, IdleTask DEF Types, BegunOK, BatchOK, Begun, Tasks
<1>17. WriteOK'
  BY <1>0, <1>1, RequestParts, IdleTask DEF Types, WriteOK, BatchOK, Held, Tasks
<1>18. LifeOK'
  BY <1>0, <1>1, RequestParts, IdleTask DEF Types, LifeOK, Dead, Tasks
<1>19. RunningOK'
  BY <1>0, <1>1, RequestParts, IdleTask DEF Types, RunningOK, Held, InJobs, Tasks
<1>20. OwnedUntilSettled'
  BY <1>0, <1>1, RequestParts, IdleTask DEF Types, OwnedUntilSettled, Held, InJobs, Tasks, RunningOK
<1> QED
  BY <1>2, <1>3, <1>4, <1>5, <1>6, <1>7, <1>8, <1>9, <1>10, <1>11, <1>12, <1>13, <1>14, <1>15, <1>16,
     <1>17, <1>18, <1>19, <1>20 DEF IInv

\* A job is refused, or its acceptance is written.
LEMMA AcceptStartsKeeps ==
  ASSUME IInv, NEW r \in Requests, AcceptStarts(r)
  PROVE  IInv'
<1>0. Types /\ RowsOK /\ JobsOK /\ BoundOK /\ RanOK /\ HandedOK /\ SettledOK /\ WithdrawnOK
      /\ ControlOK /\ ReservedOK /\ AcceptsOK /\ CleanupOK
      /\ BatchOK /\ MembersOK /\ BegunOK /\ WriteOK /\ LifeOK /\ RunningOK /\ OwnedUntilSettled
  BY DEF IInv
<1>1. /\ jobs[r] = "spawned"
      /\ jobs' \in [Requests -> Places] /\ \A x \in Requests : x # r => jobs'[x] = jobs[x]
      /\ \/ jobs'[r] = "refused" /\ admissions' = admissions \ {r}
         \/ jobs'[r] = "saving" /\ admissions' = admissions
      /\ UNCHANGED <<rows, bindings, tickets, withdrawn, revoked, order, marked, active, op, broken, life, ran>>
  BY <1>0 DEF AcceptStarts, Places, memory, work, Types
<1>2. Types'
  BY <1>0, <1>1, RequestParts, IdleTask DEF Types, Places, Tasks
<1>3. RowsOK'
  BY <1>0, <1>1, RequestParts, IdleTask DEF Types, RowsOK, Tasks
<1>4. JobsOK'
  BY <1>0, <1>1, RequestParts, IdleTask DEF Types, JobsOK, Busy, InActive, Tasks
<1>5. BoundOK'
  BY <1>0, <1>1, RequestParts, IdleTask DEF Types, BoundOK, JobsOK, InActive, Busy, Claimed, Tasks
<1>6. RanOK'
  BY <1>0, <1>1, RequestParts, IdleTask DEF Types, RanOK, JobsOK, InActive, Busy, Claimed, Begun, Tasks
<1>7. HandedOK'
  BY <1>0, <1>1, RequestParts, IdleTask DEF Types, HandedOK, Claimed, Tasks
<1>8. SettledOK'
  BY <1>0, <1>1, RequestParts, IdleTask DEF Types, SettledOK, Held, Tasks
<1>9. WithdrawnOK'
  BY <1>0, <1>1, RequestParts, IdleTask DEF Types, WithdrawnOK, Tasks
<1>10. ControlOK'
  BY <1>0, <1>1, RequestParts, IdleTask DEF Types, ControlOK, Tasks
<1>11. ReservedOK'
  BY <1>0, <1>1, RequestParts, IdleTask DEF Types, ReservedOK, Claimed, Tasks
<1>12. AcceptsOK'
  BY <1>0, <1>1, RequestParts, IdleTask DEF Types, AcceptsOK, Claimed, Held, Tasks
<1>13. CleanupOK'
  BY <1>0, <1>1, RequestParts, IdleTask DEF Types, CleanupOK, Claimed, Busy, Tasks
<1>14. BatchOK'
  BY <1>0, <1>1, RequestParts, IdleTask DEF Types, BatchOK, Tasks
<1>15. MembersOK'
  BY <1>0, <1>1, RequestParts, IdleTask DEF Types, MembersOK, Dead, Tasks, BatchOK
<1>16. BegunOK'
  BY <1>0, <1>1, RequestParts, IdleTask DEF Types, BegunOK, BatchOK, Begun, Tasks
<1>17. WriteOK'
  BY <1>0, <1>1, RequestParts, IdleTask DEF Types, WriteOK, BatchOK, Held, Tasks
<1>18. LifeOK'
  BY <1>0, <1>1, RequestParts, IdleTask DEF Types, LifeOK, Dead, Tasks
<1>19. RunningOK'
  BY <1>0, <1>1, RequestParts, IdleTask DEF Types, RunningOK, Held, InJobs, Tasks
<1>20. OwnedUntilSettled'
  BY <1>0, <1>1, RequestParts, IdleTask DEF Types, OwnedUntilSettled, Held, InJobs, Tasks, HandedOK,
     Claimed, Places
<1> QED
  BY <1>2, <1>3, <1>4, <1>5, <1>6, <1>7, <1>8, <1>9, <1>10, <1>11, <1>12, <1>13, <1>14, <1>15, <1>16,
     <1>17, <1>18, <1>19, <1>20 DEF IInv

\* The job is accepted, or settled when it was cancelled meanwhile.
LEMMA AcceptSavedKeeps ==
  ASSUME IInv, NEW r \in Requests, AcceptSaved(r)
  PROVE  IInv'
<1>0. Types /\ RowsOK /\ JobsOK /\ BoundOK /\ RanOK /\ HandedOK /\ SettledOK /\ WithdrawnOK
      /\ ControlOK /\ ReservedOK /\ AcceptsOK /\ CleanupOK
      /\ BatchOK /\ MembersOK /\ BegunOK /\ WriteOK /\ LifeOK /\ RunningOK /\ OwnedUntilSettled
  BY DEF IInv
<1>1. /\ jobs[r] = "saving" /\ marked' = marked \ {r}
      /\ jobs' \in [Requests -> Places] /\ \A x \in Requests : x # r => jobs'[x] = jobs[x]
      /\ \/ jobs'[r] = (IF r \in bindings THEN "writing" ELSE "settling") /\ admissions' = admissions
         \/ jobs'[r] = "queued" /\ admissions' = admissions \ {r} /\ r \notin marked
      /\ UNCHANGED <<rows, bindings, tickets, withdrawn, revoked, active, op, broken, life, ran>>
  BY <1>0 DEF AcceptSaved, FinishBegins, Places, memory, work, Types
<1>2. Types'
  BY <1>0, <1>1, RequestParts, IdleTask DEF Types, Places, Tasks
<1>3. RowsOK'
  BY <1>0, <1>1, RequestParts, IdleTask DEF Types, RowsOK, Tasks
<1>4. JobsOK'
  BY <1>0, <1>1, RequestParts, IdleTask DEF Types, JobsOK, Busy, InActive, Tasks
<1>5. BoundOK'
  BY <1>0, <1>1, RequestParts, IdleTask DEF Types, BoundOK, JobsOK, InActive, Busy, Claimed, Tasks
<1>6. RanOK'
  BY <1>0, <1>1, RequestParts, IdleTask DEF Types, RanOK, JobsOK, InActive, Busy, Claimed, Begun, Tasks
<1>7. HandedOK'
  BY <1>0, <1>1, RequestParts, IdleTask DEF Types, HandedOK, Claimed, Tasks
<1>8. SettledOK'
  BY <1>0, <1>1, RequestParts, IdleTask DEF Types, SettledOK, Held, Tasks, BoundOK, Busy, LifeOK, Dead
<1>9. WithdrawnOK'
  BY <1>0, <1>1, RequestParts, IdleTask DEF Types, WithdrawnOK, Tasks
<1>10. ControlOK'
  BY <1>0, <1>1, RequestParts, IdleTask DEF Types, ControlOK, Tasks
<1>11. ReservedOK'
  BY <1>0, <1>1, RequestParts, IdleTask DEF Types, ReservedOK, Claimed, Tasks
<1>12. AcceptsOK'
  BY <1>0, <1>1, RequestParts, IdleTask DEF Types, AcceptsOK, Claimed, Held, Tasks
<1>13. CleanupOK'
  BY <1>0, <1>1, RequestParts, IdleTask DEF Types, CleanupOK, Claimed, Busy, Tasks
<1>14. BatchOK'
  BY <1>0, <1>1, RequestParts, IdleTask DEF Types, BatchOK, Tasks
<1>15. MembersOK'
  BY <1>0, <1>1, RequestParts, IdleTask DEF Types, MembersOK, Dead, Tasks, BatchOK
<1>16. BegunOK'
  BY <1>0, <1>1, RequestParts, IdleTask DEF Types, BegunOK, BatchOK, Begun, Tasks
<1>17. WriteOK'
  BY <1>0, <1>1, RequestParts, IdleTask DEF Types, WriteOK, BatchOK, Held, Tasks
<1>18. LifeOK'
  BY <1>0, <1>1, RequestParts, IdleTask DEF Types, LifeOK, Dead, Tasks
<1>19. RunningOK'
  BY <1>0, <1>1, RequestParts, IdleTask DEF Types, RunningOK, Held, InJobs, Tasks
<1>20. OwnedUntilSettled'
  BY <1>0, <1>1, RequestParts, IdleTask DEF Types, OwnedUntilSettled, Held, InJobs, Tasks
<1> QED
  BY <1>2, <1>3, <1>4, <1>5, <1>6, <1>7, <1>8, <1>9, <1>10, <1>11, <1>12, <1>13, <1>14, <1>15, <1>16,
     <1>17, <1>18, <1>19, <1>20 DEF IInv

\* The row of a job that did not run is put back.
LEMMA FinishWritesKeeps ==
  ASSUME IInv, NEW r \in Requests, FinishWrites(r)
  PROVE  IInv'
<1>0. Types /\ RowsOK /\ JobsOK /\ BoundOK /\ RanOK /\ HandedOK /\ SettledOK /\ WithdrawnOK
      /\ ControlOK /\ ReservedOK /\ AcceptsOK /\ CleanupOK
      /\ BatchOK /\ MembersOK /\ BegunOK /\ WriteOK /\ LifeOK /\ RunningOK /\ OwnedUntilSettled
  BY DEF IInv
<1>1. /\ jobs[r] = "writing" /\ jobs'[r] = "settling"
      /\ jobs' \in [Requests -> Places] /\ \A x \in Requests : x # r => jobs'[x] = jobs[x]
      /\ rows' \in [Messages -> Row] /\ broken' \in BOOLEAN
      /\ bindings' \subseteq bindings /\ bindings \subseteq bindings' \cup {r}
      /\ \A x \in Messages : x # r[1] => rows'[x] = rows[x]
      /\ \/ Held(r) /\ broken' = broken /\ rows'[r[1]].tries = rows[r[1]].tries
            /\ \/ rows[r[1]].status = "claimed" /\ rows'[r[1]].status = "pending"
               \/ rows[r[1]].status = "running" /\ rows'[r[1]].status = "cancelled"
         \/ ~Held(r) /\ broken' /\ rows' = rows
      /\ UNCHANGED <<tickets, withdrawn, revoked, order, marked, admissions, active, op, life, ran>>
  <2>1. CASE Held(r)
    <3>1. /\ FinishRow(rows[r[1]], "cancelled", FALSE) \in Row
          /\ FinishRow(rows[r[1]], "cancelled", FALSE).tries = rows[r[1]].tries
          /\ \/ /\ rows[r[1]].status = "claimed"
                /\ FinishRow(rows[r[1]], "cancelled", FALSE).status = "pending"
             \/ /\ rows[r[1]].status = "running"
                /\ FinishRow(rows[r[1]], "cancelled", FALSE).status = "cancelled"
      BY <1>0, <2>1, RequestParts DEF Types, Row, Statuses, FinishRow, Release, Held
    <3>2. rows' = [rows EXCEPT ![r[1]] = FinishRow(rows[r[1]], "cancelled", FALSE)]
      BY <2>1 DEF FinishWrites
    <3>3. /\ rows' \in [Messages -> Row] /\ rows'[r[1]] = FinishRow(rows[r[1]], "cancelled", FALSE)
          /\ \A x \in Messages : x # r[1] => rows'[x] = rows[x]
      BY <1>0, <3>1, <3>2, RequestParts DEF Types
    <3> QED
      BY <1>0, <2>1, <3>1, <3>3 DEF FinishWrites, Types, Places
  <2>2. CASE ~Held(r)
    BY <1>0, <2>2 DEF FinishWrites, Types, Places
  <2> QED
    BY <2>1, <2>2
<1>2. Types'
  BY <1>0, <1>1, RequestParts, IdleTask DEF Types, Places, Tasks
<1>3. RowsOK'
  BY <1>0, <1>1, RequestParts, IdleTask DEF Types, RowsOK, Tasks
<1>4. JobsOK'
  BY <1>0, <1>1, RequestParts, IdleTask DEF Types, JobsOK, Busy, InActive, Tasks
<1>5. BoundOK'
  BY <1>0, <1>1, RequestParts, IdleTask DEF Types, BoundOK, JobsOK, InActive, Busy, Claimed, Tasks,
     RowsOK, Held
<1>6. RanOK'
  <2>1. \A x \in Messages : Begun(x) => Begun(x)'
    BY <1>1 DEF Begun
  <2>2. \A x \in Requests : Busy(x)' => x # r /\ Busy(x) /\ jobs'[x] = jobs[x]
    BY <1>1 DEF Busy
  <2> QED
    BY <1>0, <1>1, <2>1, <2>2 DEF RanOK, Claimed
<1>7. HandedOK'
  BY <1>0, <1>1, RequestParts, IdleTask DEF Types, HandedOK, Claimed, Tasks
<1>8. SettledOK'
  BY <1>0, <1>1, RequestParts, IdleTask DEF Types, SettledOK, Held, Tasks
<1>9. WithdrawnOK'
  BY <1>0, <1>1, RequestParts, IdleTask DEF Types, WithdrawnOK, Tasks
<1>10. ControlOK'
  BY <1>0, <1>1, RequestParts, IdleTask DEF Types, ControlOK, Tasks
<1>11. ReservedOK'
  BY <1>0, <1>1, RequestParts, IdleTask DEF Types, ReservedOK, Claimed, Tasks, ControlOK, RowsOK, Held
<1>12. AcceptsOK'
  BY <1>0, <1>1, RequestParts, IdleTask DEF Types, AcceptsOK, Claimed, Held, Tasks
<1>13. CleanupOK'
  BY <1>0, <1>1, RequestParts, IdleTask DEF Types, CleanupOK, Claimed, Busy, Tasks
<1>14. BatchOK'
  BY <1>0, <1>1, RequestParts, IdleTask DEF Types, BatchOK, Tasks
<1>15. MembersOK'
  BY <1>0, <1>1, RequestParts, IdleTask DEF Types, MembersOK, Dead, Tasks, BatchOK
<1>16. BegunOK'
  BY <1>0, <1>1, RequestParts, IdleTask DEF Types, BegunOK, BatchOK, Begun, Tasks
<1>17. WriteOK'
  BY <1>0, <1>1, RequestParts, IdleTask DEF Types, WriteOK, BatchOK, Held, Tasks
<1>18. LifeOK'
  BY <1>0, <1>1, RequestParts, IdleTask DEF Types, LifeOK, Dead, Tasks
<1>19. RunningOK'
  BY <1>0, <1>1, RequestParts, IdleTask DEF Types, RunningOK, Held, InJobs, Tasks
<1>20. OwnedUntilSettled'
  BY <1>0, <1>1, RequestParts, IdleTask DEF Types, OwnedUntilSettled, Held, InJobs, Tasks
<1> QED
  BY <1>2, <1>3, <1>4, <1>5, <1>6, <1>7, <1>8, <1>9, <1>10, <1>11, <1>12, <1>13, <1>14, <1>15, <1>16,
     <1>17, <1>18, <1>19, <1>20 DEF IInv

\* The job is gone.
LEMMA FinishEndsKeeps ==
  ASSUME IInv, NEW r \in Requests, FinishEnds(r)
  PROVE  IInv'
<1>0. Types /\ RowsOK /\ JobsOK /\ BoundOK /\ RanOK /\ HandedOK /\ SettledOK /\ WithdrawnOK
      /\ ControlOK /\ ReservedOK /\ AcceptsOK /\ CleanupOK
      /\ BatchOK /\ MembersOK /\ BegunOK /\ WriteOK /\ LifeOK /\ RunningOK /\ OwnedUntilSettled
  BY DEF IInv
<1>1. /\ jobs[r] = "settling" /\ jobs'[r] = "none" /\ admissions' = admissions \ {r}
      /\ jobs' \in [Requests -> Places] /\ \A x \in Requests : x # r => jobs'[x] = jobs[x]
      /\ UNCHANGED <<rows, bindings, tickets, withdrawn, revoked, marked, active, op, broken, life, ran>>
  BY <1>0 DEF FinishEnds, Places, memory, work, Types
<1>2. Types'
  BY <1>0, <1>1, RequestParts, IdleTask DEF Types, Places, Tasks
<1>3. RowsOK'
  BY <1>0, <1>1, RequestParts, IdleTask DEF Types, RowsOK, Tasks
<1>4. JobsOK'
  BY <1>0, <1>1, RequestParts, IdleTask DEF Types, JobsOK, Busy, InActive, Tasks
<1>5. BoundOK'
  BY <1>0, <1>1, RequestParts, IdleTask DEF Types, BoundOK, JobsOK, InActive, Busy, Claimed, Tasks
<1>6. RanOK'
  BY <1>0, <1>1, RequestParts, IdleTask DEF Types, RanOK, JobsOK, InActive, Busy, Claimed, Begun, Tasks
<1>7. HandedOK'
  BY <1>0, <1>1, RequestParts, IdleTask DEF Types, HandedOK, Claimed, Tasks
<1>8. SettledOK'
  BY <1>0, <1>1, RequestParts, IdleTask DEF Types, SettledOK, Held, Tasks
<1>9. WithdrawnOK'
  BY <1>0, <1>1, RequestParts, IdleTask DEF Types, WithdrawnOK, Tasks
<1>10. ControlOK'
  BY <1>0, <1>1, RequestParts, IdleTask DEF Types, ControlOK, Tasks
<1>11. ReservedOK'
  BY <1>0, <1>1, RequestParts, IdleTask DEF Types, ReservedOK, Claimed, Tasks
<1>12. AcceptsOK'
  BY <1>0, <1>1, RequestParts, IdleTask DEF Types, AcceptsOK, Claimed, Held, Tasks, SettledOK
<1>13. CleanupOK'
  BY <1>0, <1>1, RequestParts, IdleTask DEF Types, CleanupOK, Claimed, Busy, Tasks
<1>14. BatchOK'
  BY <1>0, <1>1, RequestParts, IdleTask DEF Types, BatchOK, Tasks
<1>15. MembersOK'
  BY <1>0, <1>1, RequestParts, IdleTask DEF Types, MembersOK, Dead, Tasks, BatchOK
<1>16. BegunOK'
  BY <1>0, <1>1, RequestParts, IdleTask DEF Types, BegunOK, BatchOK, Begun, Tasks
<1>17. WriteOK'
  BY <1>0, <1>1, RequestParts, IdleTask DEF Types, WriteOK, BatchOK, Held, Tasks
<1>18. LifeOK'
  BY <1>0, <1>1, RequestParts, IdleTask DEF Types, LifeOK, Dead, Tasks
<1>19. RunningOK'
  BY <1>0, <1>1, RequestParts, IdleTask DEF Types, RunningOK, Held, InJobs, Tasks, SettledOK
<1>20. OwnedUntilSettled'
  BY <1>0, <1>1, RequestParts, IdleTask DEF Types, OwnedUntilSettled, Held, InJobs, Tasks, SettledOK
<1> QED
  BY <1>2, <1>3, <1>4, <1>5, <1>6, <1>7, <1>8, <1>9, <1>10, <1>11, <1>12, <1>13, <1>14, <1>15, <1>16,
     <1>17, <1>18, <1>19, <1>20 DEF IInv

\* The batch reads which of its claims it holds.
LEMMA BatchStartsKeeps ==
  ASSUME IInv, BatchStarts
  PROVE  IInv'
<1>0. Types /\ RowsOK /\ JobsOK /\ BoundOK /\ RanOK /\ HandedOK /\ SettledOK /\ WithdrawnOK
      /\ ControlOK /\ ReservedOK /\ AcceptsOK /\ CleanupOK
      /\ BatchOK /\ MembersOK /\ BegunOK /\ WriteOK /\ LifeOK /\ RunningOK /\ OwnedUntilSettled
  BY DEF IInv
<1>1. /\ active.kind = "batch" /\ active.pc = "new" /\ ~active.cancelling
      /\ active' \in Tasks /\ active'.kind = "batch" /\ active'.members = active.members
      /\ active'.outcome \in {"succeeded", "failed", "cancelled"}
      /\ active'.todo = active.members \cap bindings
      /\ \/ active'.pc = "write"
         \/ active'.pc = "begin" /\ ~broken /\ life = "live"
         \/ active'.pc = "transition" /\ active'.todo = {} /\ ~broken /\ life = "live"
      /\ UNCHANGED <<rows, bindings, tickets, withdrawn, revoked, jobs, order, marked, admissions, op, broken, life, ran>>
  <2>0. active.outcome \in {"succeeded", "failed", "cancelled"}
    BY <1>0 DEF BatchStarts, Batch, BatchOK
  <2>1. active.kind = "batch" /\ active.pc = "new" /\ ~active.cancelling /\ Bound \in SUBSET (Messages \X Nat)
    BY <1>0 DEF BatchStarts, Batch, Bound, Types, Tasks
  <2>2. \/ active' = [active EXCEPT !.pc = "write", !.todo = Bound, !.outcome = "failed", !.hit = FALSE]
        \/ active' = [active EXCEPT !.pc = "begin", !.todo = Bound] /\ Context
        \/ active' = [active EXCEPT !.pc = "transition", !.todo = Bound] /\ Context /\ Bound = {}
    BY DEF BatchStarts, Over
  <2> HIDE DEF Bound
  <2>3. CASE active' = [active EXCEPT !.pc = "write", !.todo = Bound, !.outcome = "failed", !.hit = FALSE]
    <3>1. /\ active' \in Tasks /\ active'.kind = "batch" /\ active'.members = active.members
          /\ active'.outcome = "failed" /\ active'.pc = "write" /\ active'.todo = Bound
      BY <1>0, <2>1, <2>3 DEF Types, Tasks
    <3> QED
      BY <2>1, <3>1 DEF BatchStarts, memory, work, Bound
  <2>4. CASE active' = [active EXCEPT !.pc = "begin", !.todo = Bound] /\ Context
    <3>1. /\ active' \in Tasks /\ active'.kind = "batch" /\ active'.members = active.members
          /\ active'.outcome = active.outcome /\ active'.pc = "begin" /\ active'.todo = Bound
      BY <1>0, <2>1, <2>4 DEF Types, Tasks
    <3> QED
      BY <2>0, <2>1, <2>4, <3>1 DEF BatchStarts, memory, work, Bound, Context
  <2>5. CASE active' = [active EXCEPT !.pc = "transition", !.todo = Bound] /\ Context /\ Bound = {}
    <3>1. /\ active' \in Tasks /\ active'.kind = "batch" /\ active'.members = active.members
          /\ active'.outcome = active.outcome /\ active'.pc = "transition" /\ active'.todo = Bound
      BY <1>0, <2>1, <2>5 DEF Types, Tasks
    <3> QED
      BY <2>0, <2>1, <2>5, <3>1 DEF BatchStarts, memory, work, Bound, Context
  <2> QED
    BY <2>2, <2>3, <2>4, <2>5
<1>2. Types'
  BY <1>0, <1>1, RequestParts, IdleTask DEF Types, Places, Tasks
<1>3. RowsOK'
  BY <1>0, <1>1, RequestParts, IdleTask DEF Types, RowsOK, Tasks
<1>4. JobsOK'
  BY <1>0, <1>1, RequestParts, IdleTask DEF Types, JobsOK, Busy, InActive, Tasks
<1>5. BoundOK'
  BY <1>0, <1>1, RequestParts, IdleTask DEF Types, BoundOK, JobsOK, InActive, Busy, Claimed, Tasks
<1>6. RanOK'
  BY <1>0, <1>1, RequestParts, IdleTask DEF Types, RanOK, JobsOK, InActive, Busy, Claimed, Begun, Tasks
<1>7. HandedOK'
  BY <1>0, <1>1, RequestParts, IdleTask DEF Types, HandedOK, Claimed, Tasks
<1>8. SettledOK'
  BY <1>0, <1>1, RequestParts, IdleTask DEF Types, SettledOK, Held, Tasks
<1>9. WithdrawnOK'
  BY <1>0, <1>1, RequestParts, IdleTask DEF Types, WithdrawnOK, Tasks
<1>10. ControlOK'
  BY <1>0, <1>1, RequestParts, IdleTask DEF Types, ControlOK, Tasks
<1>11. ReservedOK'
  BY <1>0, <1>1, RequestParts, IdleTask DEF Types, ReservedOK, Claimed, Tasks
<1>12. AcceptsOK'
  BY <1>0, <1>1, RequestParts, IdleTask DEF Types, AcceptsOK, Claimed, Held, Tasks
<1>13. CleanupOK'
  BY <1>0, <1>1, RequestParts, IdleTask DEF Types, CleanupOK, Claimed, Busy, Tasks
<1>14. BatchOK'
  BY <1>0, <1>1, RequestParts, IdleTask DEF Types, BatchOK, Tasks
<1>15. MembersOK'
  BY <1>0, <1>1, RequestParts, IdleTask DEF Types, MembersOK, Dead, Tasks
<1>16. BegunOK'
  BY <1>0, <1>1, RequestParts, IdleTask DEF Types, BegunOK, BatchOK, Begun, Tasks, BoundOK, Busy,
     MembersOK, Dead, Claimed
<1>17. WriteOK'
  BY <1>0, <1>1, RequestParts, IdleTask DEF Types, WriteOK, BatchOK, Held, Tasks, BoundOK, Busy,
     MembersOK, Dead, LifeOK
<1>18. LifeOK'
  BY <1>0, <1>1, RequestParts, IdleTask DEF Types, LifeOK, Dead, Tasks
<1>19. RunningOK'
  BY <1>0, <1>1, RequestParts, IdleTask DEF Types, RunningOK, Held, InJobs, Tasks
<1>20. OwnedUntilSettled'
  BY <1>0, <1>1, RequestParts, IdleTask DEF Types, OwnedUntilSettled, Held, InJobs, Tasks
<1> QED
  BY <1>2, <1>3, <1>4, <1>5, <1>6, <1>7, <1>8, <1>9, <1>10, <1>11, <1>12, <1>13, <1>14, <1>15, <1>16,
     <1>17, <1>18, <1>19, <1>20 DEF IInv

\* All of the members' rows begin, or none.
LEMMA BatchBeginsKeeps ==
  ASSUME IInv, BatchBegins
  PROVE  IInv'
<1>0. Types /\ RowsOK /\ JobsOK /\ BoundOK /\ RanOK /\ HandedOK /\ SettledOK /\ WithdrawnOK
      /\ ControlOK /\ ReservedOK /\ AcceptsOK /\ CleanupOK
      /\ BatchOK /\ MembersOK /\ BegunOK /\ WriteOK /\ LifeOK /\ RunningOK /\ OwnedUntilSettled
  BY DEF IInv
<1>1. /\ active.kind = "batch" /\ active.pc = "begin"
      /\ active' \in Tasks /\ active'.kind = "batch" /\ active'.members = active.members
      /\ active'.outcome \in {"succeeded", "failed", "cancelled"}
      /\ rows' \in [Messages -> Row]
      /\ \/ active'.pc = "write" /\ active'.todo = active.members \cap bindings
         \/ /\ active'.pc = "transition" /\ active'.todo = {}
            /\ \A r \in active.todo : rows'[r[1]].status = "running"
      /\ \A m \in Messages :
         \/ rows'[m] = rows[m]
         \/ /\ rows[m].status = "claimed" /\ rows'[m].status = "running"
            /\ rows'[m].attempt = rows[m].attempt /\ rows'[m].tries = rows[m].tries
            /\ \E r \in active.todo : r[1] = m /\ Held(r)
      /\ UNCHANGED <<bindings, tickets, withdrawn, revoked, jobs, order, marked, admissions, op, broken, life, ran>>
  <2> DEFINE ok == \A r \in active.todo : Held(r) /\ rows[r[1]].status = "claimed"
  <2>0. active.outcome \in {"succeeded", "failed", "cancelled"}
    BY <1>0 DEF BatchBegins, Batch, BatchOK
  <2>1. /\ active.kind = "batch" /\ active.pc = "begin" /\ Bound \in SUBSET (Messages \X Nat)
        /\ active.todo \subseteq Requests
    BY <1>0 DEF BatchBegins, Batch, BatchOK, Bound, Types, Tasks
  <2>2. \A m \in Messages : /\ Start(rows[m]) \in Row /\ Start(rows[m]).status = "running"
                             /\ Start(rows[m]).tries = rows[m].tries /\ Start(rows[m]).attempt = rows[m].attempt
    BY <1>0 DEF Types, Row, Statuses, Start
  <2>3. rows' = [m \in Messages |-> IF ok /\ \E r \in active.todo : r[1] = m THEN Start(rows[m]) ELSE rows[m]]
    BY DEF BatchBegins
  <2>4. \/ \E o \in {"cancelled", "failed"} :
              active' = [active EXCEPT !.pc = "write", !.todo = Bound, !.outcome = o, !.hit = FALSE]
        \/ active' = [active EXCEPT !.pc = "transition", !.todo = {}] /\ ok
    BY <1>0 DEF BatchBegins, Over, Types, Tasks
  <2> HIDE DEF Bound, ok
  <2>5. active' \in Tasks /\ active'.kind = "batch" /\ active'.members = active.members
        /\ active'.outcome \in {"succeeded", "failed", "cancelled"}
        /\ \/ active'.pc = "write" /\ active'.todo = Bound
           \/ active'.pc = "transition" /\ active'.todo = {} /\ ok
    <3>1. CASE active' = [active EXCEPT !.pc = "transition", !.todo = {}] /\ ok
      <4>1. {} \in SUBSET (Messages \X Nat) /\ active \in Tasks
        BY <1>0 DEF Types
      <4>2. /\ active' \in Tasks /\ active'.kind = active.kind /\ active'.members = active.members
            /\ active'.outcome = active.outcome /\ active'.pc = "transition" /\ active'.todo = {}
        BY <3>1, <4>1 DEF Tasks
      <4> QED
        BY <2>0, <2>1, <3>1, <4>2
    <3>2. ASSUME NEW o \in {"cancelled", "failed"},
                 active' = [active EXCEPT !.pc = "write", !.todo = Bound, !.outcome = o, !.hit = FALSE]
          PROVE  /\ active' \in Tasks /\ active'.kind = active.kind /\ active'.members = active.members
                 /\ active'.outcome = o /\ active'.pc = "write" /\ active'.todo = Bound
      BY <1>0, <2>1, <3>2 DEF Types, Tasks
    <3> QED
      BY <2>1, <2>4, <3>1, <3>2
  <2>6. rows' \in [Messages -> Row]
    BY <1>0, <2>2, <2>3 DEF Types
  <2>7. ok => \A r \in active.todo : rows'[r[1]].status = "running"
    BY <2>1, <2>2, <2>3, RequestParts
  <2>8. \A m \in Messages :
          \/ rows'[m] = rows[m]
          \/ /\ rows[m].status = "claimed" /\ rows'[m].status = "running"
             /\ rows'[m].attempt = rows[m].attempt /\ rows'[m].tries = rows[m].tries
             /\ \E r \in active.todo : r[1] = m /\ Held(r)
    BY <2>2, <2>3 DEF ok
  <2> QED
    BY <2>1, <2>5, <2>6, <2>7, <2>8 DEF BatchBegins, memory, work, Bound
<1>2. Types'
  BY <1>0, <1>1, RequestParts, IdleTask DEF Types, Places, Tasks
<1>3. RowsOK'
  BY <1>0, <1>1, RequestParts, IdleTask DEF Types, RowsOK, Tasks
<1>4. JobsOK'
  BY <1>0, <1>1, RequestParts, IdleTask DEF Types, JobsOK, Busy, InActive, Tasks
<1>5. BoundOK'
  BY <1>0, <1>1, RequestParts, IdleTask DEF Types, BoundOK, JobsOK, InActive, Busy, Claimed, Tasks
<1>6. RanOK'
  BY <1>0, <1>1, RequestParts, IdleTask DEF Types, RanOK, JobsOK, InActive, Busy, Claimed, Begun, Tasks
<1>7. HandedOK'
  BY <1>0, <1>1, RequestParts, IdleTask DEF Types, HandedOK, Claimed, Tasks
<1>8. SettledOK'
  BY <1>0, <1>1, RequestParts, IdleTask DEF Types, SettledOK, Held, Tasks
<1>9. WithdrawnOK'
  BY <1>0, <1>1, RequestParts, IdleTask DEF Types, WithdrawnOK, Tasks
<1>10. ControlOK'
  BY <1>0, <1>1, RequestParts, IdleTask DEF Types, ControlOK, Tasks
<1>11. ReservedOK'
  BY <1>0, <1>1, RequestParts, IdleTask DEF Types, ReservedOK, Claimed, Tasks
<1>12. AcceptsOK'
  BY <1>0, <1>1, RequestParts, IdleTask DEF Types, AcceptsOK, Claimed, Held, Tasks
<1>13. CleanupOK'
  BY <1>0, <1>1, RequestParts, IdleTask DEF Types, CleanupOK, Claimed, Busy, Tasks
<1>14. BatchOK'
  BY <1>0, <1>1, RequestParts, IdleTask DEF Types, BatchOK, Tasks
<1>15. MembersOK'
  BY <1>0, <1>1, RequestParts, IdleTask DEF Types, MembersOK, Dead, Tasks
<1>16. BegunOK'
  BY <1>0, <1>1, RequestParts, IdleTask DEF Types, BegunOK, BatchOK, Begun, Tasks
<1>17. WriteOK'
  BY <1>0, <1>1, RequestParts, IdleTask DEF Types, WriteOK, BatchOK, Held, Tasks, BoundOK, Busy,
     MembersOK, Dead, LifeOK
<1>18. LifeOK'
  BY <1>0, <1>1, RequestParts, IdleTask DEF Types, LifeOK, Dead, Tasks
<1>19. RunningOK'
  BY <1>0, <1>1, RequestParts, IdleTask DEF Types, RunningOK, Held, InJobs, Tasks, BatchOK, MembersOK,
     Dead, RowsOK, JobsOK
<1>20. OwnedUntilSettled'
  BY <1>0, <1>1, RequestParts, IdleTask DEF Types, OwnedUntilSettled, Held, InJobs, Tasks
<1> QED
  BY <1>2, <1>3, <1>4, <1>5, <1>6, <1>7, <1>8, <1>9, <1>10, <1>11, <1>12, <1>13, <1>14, <1>15, <1>16,
     <1>17, <1>18, <1>19, <1>20 DEF IInv

\* The model is given the members: each of them for the first time.
LEMMA BatchRunsKeeps ==
  ASSUME IInv, BatchRuns
  PROVE  IInv'
<1>0. Types /\ RowsOK /\ JobsOK /\ BoundOK /\ RanOK /\ HandedOK /\ SettledOK /\ WithdrawnOK
      /\ ControlOK /\ ReservedOK /\ AcceptsOK /\ CleanupOK
      /\ BatchOK /\ MembersOK /\ BegunOK /\ WriteOK /\ LifeOK /\ RunningOK /\ OwnedUntilSettled
  BY DEF IInv
<1>1. /\ active.kind = "batch" /\ active.pc = "transition"
      /\ active' \in Tasks /\ active'.kind = "batch" /\ active'.members = active.members
      /\ active'.outcome \in {"succeeded", "failed", "cancelled"}
      /\ \/ active'.pc = "write" /\ active'.todo = active.members \cap bindings /\ ran' = ran
         \/ /\ active'.pc = "executing" /\ active'.todo = {}
            /\ ran' = [m \in Messages |-> ran[m] + Cardinality({r \in active.members : r[1] = m})]
      /\ UNCHANGED <<rows, bindings, tickets, withdrawn, revoked, jobs, order, marked, admissions, op, broken, life>>
  <2>0. active.outcome \in {"succeeded", "failed", "cancelled"}
    BY <1>0 DEF BatchRuns, Batch, BatchOK
  <2>1. active.kind = "batch" /\ active.pc = "transition" /\ Bound \in SUBSET (Messages \X Nat)
    BY <1>0 DEF BatchRuns, Batch, Bound, Types, Tasks
  <2>2. \/ active' = [active EXCEPT !.pc = "write", !.todo = Bound, !.outcome = "cancelled", !.hit = FALSE]
           /\ ran' = ran
        \/ /\ active' = [active EXCEPT !.pc = "executing", !.todo = {}]
           /\ ran' = [m \in Messages |-> ran[m] + Cardinality({r \in active.members : r[1] = m})]
    BY DEF BatchRuns, Over
  <2> HIDE DEF Bound
  <2>3. CASE active' = [active EXCEPT !.pc = "write", !.todo = Bound, !.outcome = "cancelled", !.hit = FALSE]
    <3>1. active' \in Tasks /\ active'.kind = "batch" /\ active'.members = active.members
        /\ active'.outcome \in {"succeeded", "failed", "cancelled"}
          /\ active'.pc = "write" /\ active'.todo = Bound
      BY <1>0, <2>0, <2>1, <2>3 DEF Types, Tasks
    <3>2. active' # [active EXCEPT !.pc = "executing", !.todo = {}]
      BY <1>0, <3>1 DEF Types, Tasks
    <3> QED
      BY <2>1, <2>2, <3>1, <3>2 DEF BatchRuns, memory, work, Bound
  <2>4. CASE active' = [active EXCEPT !.pc = "executing", !.todo = {}]
    <3>1. active' \in Tasks /\ active'.kind = "batch" /\ active'.members = active.members
        /\ active'.outcome \in {"succeeded", "failed", "cancelled"}
          /\ active'.pc = "executing" /\ active'.todo = {}
      BY <1>0, <2>0, <2>1, <2>4 DEF Types, Tasks
    <3>2. active' # [active EXCEPT !.pc = "write", !.todo = Bound, !.outcome = "cancelled", !.hit = FALSE]
      BY <1>0, <3>1 DEF Types, Tasks
    <3> QED
      BY <2>1, <2>2, <3>1, <3>2 DEF BatchRuns, memory, work
  <2> QED
    BY <2>2, <2>3, <2>4
<1>2. Types'
  <2> DEFINE Runs(m) == Cardinality({r \in active.members : r[1] = m})
  <2>1. \A m \in Messages : Runs(m) \in Nat
    BY <1>0, <1>1, OneEach
  <2>2. ran' = ran \/ ran' = [m \in Messages |-> ran[m] + Runs(m)]
    BY <1>1
  <2> HIDE DEF Runs
  <2>3. ran' \in [Messages -> Nat]
    BY <1>0, <2>1, <2>2 DEF Types
  <2> QED
    BY <1>0, <1>1, <2>3 DEF Types
<1>3. RowsOK'
  BY <1>0, <1>1, RequestParts, IdleTask DEF Types, RowsOK, Tasks
<1>4. JobsOK'
  BY <1>0, <1>1, RequestParts, IdleTask DEF Types, JobsOK, Busy, InActive, Tasks
<1>5. BoundOK'
  BY <1>0, <1>1, RequestParts, IdleTask DEF Types, BoundOK, JobsOK, InActive, Busy, Claimed, Tasks
<1>6. RanOK'
  <2> DEFINE given(m) == Cardinality({r \in active.members : r[1] = m})
  <2>1. CASE ran' = ran
    BY <1>0, <1>1, <2>1 DEF RanOK, Busy, Claimed, Begun
  <2>2. CASE active'.pc = "executing" /\ ran' = [m \in Messages |-> ran[m] + given(m)]
    <3>0. \A m \in Messages : given(m) \in {0, 1} /\ (given(m) # 0 => \E r \in active.members : r[1] = m)
      BY <1>0, <1>1, OneEach
    <3> HIDE DEF given
    <3>1. \A r \in active.members : r \in Requests /\ jobs[r] = "batch" /\ Busy(r) /\ ran[r[1]] = 0 /\ Begun(r[1])
      BY <1>0, <1>1 DEF BatchOK, MembersOK, Dead, Busy, RanOK, BegunOK
    <3>2. ASSUME NEW m \in Messages
          PROVE  ran'[m] <= 1 /\ (ran'[m] # 0 => Begun(m)')
      <4>1. ran'[m] = ran[m] + given(m) /\ Begun(m)' = Begun(m) /\ ran[m] \in Nat
        BY <1>0, <1>1, <2>2 DEF Begun, Types
      <4>2. ran[m] <= 1 /\ (ran[m] # 0 => Begun(m))
        BY <1>0 DEF RanOK
      <4>3. given(m) # 0 => ran[m] = 0 /\ Begun(m)
        BY <3>0, <3>1
      <4> QED
        BY <3>0, <4>1, <4>2, <4>3
    <3>3. ASSUME NEW q \in Requests, Busy(q)', jobs[q] # "batch"
          PROVE  ran'[q[1]] = 0
      <4>1. q[1] \in Messages /\ Busy(q) /\ ran[q[1]] = 0 /\ q[2] = rows[q[1]].tries
        BY <1>0, <1>1, <3>3, RequestParts DEF Busy, RanOK, JobsOK
      <4>2. \A r \in active.members : r[1] # q[1]
        BY <1>0, <3>1, <3>3, <4>1, RequestParts DEF JobsOK
      <4>3. given(q[1]) = 0
        BY <3>0, <4>1, <4>2
      <4> QED
        BY <2>2, <4>1, <4>3
    <3>4. \A q \in Requests : ~Claimed(q)'
      BY <1>1 DEF Claimed
    <3> QED
      BY <1>1, <2>2, <3>2, <3>3, <3>4 DEF RanOK
  <2> QED
    BY <1>1, <2>1, <2>2
<1>7. HandedOK'
  BY <1>0, <1>1, RequestParts, IdleTask DEF Types, HandedOK, Claimed, Tasks
<1>8. SettledOK'
  BY <1>0, <1>1, RequestParts, IdleTask DEF Types, SettledOK, Held, Tasks
<1>9. WithdrawnOK'
  BY <1>0, <1>1, RequestParts, IdleTask DEF Types, WithdrawnOK, Tasks
<1>10. ControlOK'
  BY <1>0, <1>1, RequestParts, IdleTask DEF Types, ControlOK, Tasks
<1>11. ReservedOK'
  BY <1>0, <1>1, RequestParts, IdleTask DEF Types, ReservedOK, Claimed, Tasks
<1>12. AcceptsOK'
  BY <1>0, <1>1, RequestParts, IdleTask DEF Types, AcceptsOK, Claimed, Held, Tasks
<1>13. CleanupOK'
  BY <1>0, <1>1, RequestParts, IdleTask DEF Types, CleanupOK, Claimed, Busy, Tasks
<1>14. BatchOK'
  BY <1>0, <1>1, RequestParts, IdleTask DEF Types, BatchOK, Tasks
<1>15. MembersOK'
  BY <1>0, <1>1, RequestParts, IdleTask DEF Types, MembersOK, Dead, Tasks
<1>16. BegunOK'
  BY <1>0, <1>1, RequestParts, IdleTask DEF Types, BegunOK, BatchOK, Begun, Tasks
<1>17. WriteOK'
  BY <1>0, <1>1, RequestParts, IdleTask DEF Types, WriteOK, BatchOK, Held, Tasks, BoundOK, Busy,
     MembersOK, Dead, LifeOK
<1>18. LifeOK'
  BY <1>0, <1>1, RequestParts, IdleTask DEF Types, LifeOK, Dead, Tasks
<1>19. RunningOK'
  BY <1>0, <1>1, RequestParts, IdleTask DEF Types, RunningOK, Held, InJobs, Tasks
<1>20. OwnedUntilSettled'
  BY <1>0, <1>1, RequestParts, IdleTask DEF Types, OwnedUntilSettled, Held, InJobs, Tasks
<1> QED
  BY <1>2, <1>3, <1>4, <1>5, <1>6, <1>7, <1>8, <1>9, <1>10, <1>11, <1>12, <1>13, <1>14, <1>15, <1>16,
     <1>17, <1>18, <1>19, <1>20 DEF IInv

\* The turn is over.
LEMMA BatchExecutedKeeps ==
  ASSUME IInv, BatchExecuted
  PROVE  IInv'
<1>0. Types /\ RowsOK /\ JobsOK /\ BoundOK /\ RanOK /\ HandedOK /\ SettledOK /\ WithdrawnOK
      /\ ControlOK /\ ReservedOK /\ AcceptsOK /\ CleanupOK
      /\ BatchOK /\ MembersOK /\ BegunOK /\ WriteOK /\ LifeOK /\ RunningOK /\ OwnedUntilSettled
  BY DEF IInv
<1>1. /\ active.kind = "batch" /\ active.pc = "executing"
      /\ active' \in Tasks /\ active'.kind = "batch" /\ active'.members = active.members
      /\ active'.outcome \in {"succeeded", "failed", "cancelled"}
      /\ active'.pc = "write" /\ active'.todo = active.members \cap bindings
      /\ UNCHANGED <<rows, bindings, tickets, withdrawn, revoked, jobs, order, marked, admissions, op, broken, life, ran>>
  <2>0. active.outcome \in {"succeeded", "failed", "cancelled"}
    BY <1>0 DEF BatchExecuted, Batch, BatchOK
  <2>1. active.kind = "batch" /\ active.pc = "executing" /\ Bound \in SUBSET (Messages \X Nat)
    BY <1>0 DEF BatchExecuted, Batch, Bound, Types, Tasks
  <2>2. PICK o \in {"succeeded", "failed", "cancelled"} :
           active' = [active EXCEPT !.pc = "write", !.todo = Bound, !.outcome = o, !.hit = FALSE]
    BY DEF BatchExecuted, Over
  <2> HIDE DEF Bound
  <2>3. active' \in Tasks /\ active'.kind = "batch" /\ active'.members = active.members
        /\ active'.outcome \in {"succeeded", "failed", "cancelled"}
        /\ active'.pc = "write" /\ active'.todo = Bound
    BY <1>0, <2>0, <2>1, <2>2 DEF Types, Tasks
  <2> QED
    BY <2>1, <2>3 DEF BatchExecuted, memory, work, Bound
<1>2. Types'
  BY <1>0, <1>1, RequestParts, IdleTask DEF Types, Places, Tasks
<1>3. RowsOK'
  BY <1>0, <1>1, RequestParts, IdleTask DEF Types, RowsOK, Tasks
<1>4. JobsOK'
  BY <1>0, <1>1, RequestParts, IdleTask DEF Types, JobsOK, Busy, InActive, Tasks
<1>5. BoundOK'
  BY <1>0, <1>1, RequestParts, IdleTask DEF Types, BoundOK, JobsOK, InActive, Busy, Claimed, Tasks
<1>6. RanOK'
  BY <1>0, <1>1, RequestParts, IdleTask DEF Types, RanOK, JobsOK, InActive, Busy, Claimed, Begun, Tasks
<1>7. HandedOK'
  BY <1>0, <1>1, RequestParts, IdleTask DEF Types, HandedOK, Claimed, Tasks
<1>8. SettledOK'
  BY <1>0, <1>1, RequestParts, IdleTask DEF Types, SettledOK, Held, Tasks
<1>9. WithdrawnOK'
  BY <1>0, <1>1, RequestParts, IdleTask DEF Types, WithdrawnOK, Tasks
<1>10. ControlOK'
  BY <1>0, <1>1, RequestParts, IdleTask DEF Types, ControlOK, Tasks
<1>11. ReservedOK'
  BY <1>0, <1>1, RequestParts, IdleTask DEF Types, ReservedOK, Claimed, Tasks
<1>12. AcceptsOK'
  BY <1>0, <1>1, RequestParts, IdleTask DEF Types, AcceptsOK, Claimed, Held, Tasks
<1>13. CleanupOK'
  BY <1>0, <1>1, RequestParts, IdleTask DEF Types, CleanupOK, Claimed, Busy, Tasks
<1>14. BatchOK'
  BY <1>0, <1>1, RequestParts, IdleTask DEF Types, BatchOK, Tasks
<1>15. MembersOK'
  BY <1>0, <1>1, RequestParts, IdleTask DEF Types, MembersOK, Dead, Tasks
<1>16. BegunOK'
  BY <1>0, <1>1, RequestParts, IdleTask DEF Types, BegunOK, BatchOK, Begun, Tasks
<1>17. WriteOK'
  BY <1>0, <1>1, RequestParts, IdleTask DEF Types, WriteOK, BatchOK, Held, Tasks, BoundOK, Busy,
     MembersOK, Dead, LifeOK
<1>18. LifeOK'
  BY <1>0, <1>1, RequestParts, IdleTask DEF Types, LifeOK, Dead, Tasks
<1>19. RunningOK'
  BY <1>0, <1>1, RequestParts, IdleTask DEF Types, RunningOK, Held, InJobs, Tasks
<1>20. OwnedUntilSettled'
  BY <1>0, <1>1, RequestParts, IdleTask DEF Types, OwnedUntilSettled, Held, InJobs, Tasks
<1> QED
  BY <1>2, <1>3, <1>4, <1>5, <1>6, <1>7, <1>8, <1>9, <1>10, <1>11, <1>12, <1>13, <1>14, <1>15, <1>16,
     <1>17, <1>18, <1>19, <1>20 DEF IInv

\* A member's row is written.
LEMMA BatchWritesKeeps ==
  ASSUME IInv, NEW r \in Requests, BatchWrites(r)
  PROVE  IInv'
<1>0. Types /\ RowsOK /\ JobsOK /\ BoundOK /\ RanOK /\ HandedOK /\ SettledOK /\ WithdrawnOK
      /\ ControlOK /\ ReservedOK /\ AcceptsOK /\ CleanupOK
      /\ BatchOK /\ MembersOK /\ BegunOK /\ WriteOK /\ LifeOK /\ RunningOK /\ OwnedUntilSettled
  BY DEF IInv
<1>1. /\ active.kind = "batch" /\ active.pc = "write" /\ r \in active.todo
      /\ active' \in Tasks /\ active'.kind = "batch" /\ active'.members = active.members
      /\ active'.outcome \in {"succeeded", "failed", "cancelled"} /\ active'.pc = "write"
      /\ active'.todo = active.todo \ {r}
      /\ rows' \in [Messages -> Row] /\ broken' \in BOOLEAN
      /\ bindings' \subseteq bindings /\ bindings \subseteq bindings' \cup {r}
      /\ \A x \in Messages : x # r[1] => rows'[x] = rows[x]
      /\ \/ Held(r) /\ broken' = broken /\ rows'[r[1]].tries = rows[r[1]].tries
            /\ \/ rows[r[1]].status = "claimed" /\ rows'[r[1]].status = "pending"
               \/ rows'[r[1]].status \notin {"absent", "pending", "claimed", "running"}
         \/ ~Held(r) /\ broken' /\ rows' = rows
      /\ UNCHANGED <<tickets, withdrawn, revoked, jobs, order, marked, admissions, op, life, ran>>
  <2>0. active.outcome \in {"succeeded", "failed", "cancelled"}
    BY <1>0 DEF BatchWrites, Batch, BatchOK
  <2>1. active.kind = "batch" /\ active.pc = "write" /\ r \in active.todo
    BY DEF BatchWrites, Batch
  <2>2. active' = [active EXCEPT !.todo = @ \ {r}]
    BY DEF BatchWrites
  <2>3. active' \in Tasks /\ active'.kind = "batch" /\ active'.members = active.members
        /\ active'.outcome \in {"succeeded", "failed", "cancelled"}
        /\ active'.pc = "write" /\ active'.todo = active.todo \ {r}
    BY <1>0, <2>0, <2>1, <2>2 DEF Types, Tasks
  <2>4. bindings' \subseteq bindings /\ bindings \subseteq bindings' \cup {r} /\ broken' \in BOOLEAN
    BY <1>0 DEF BatchWrites, Types
  <2>5. CASE Held(r)
    <3> DEFINE new == FinishRow(rows[r[1]], active.outcome, TRUE)
    <3>0. active.outcome \in {"succeeded", "failed", "cancelled"}
      BY <1>0, <2>1 DEF BatchOK
    <3>1. /\ new \in Row /\ new.tries = rows[r[1]].tries
          /\ \/ rows[r[1]].status = "claimed" /\ new.status = "pending"
             \/ new.status \notin {"absent", "pending", "claimed", "running"}
      BY <1>0, <2>5, <3>0, RequestParts DEF Types, Row, Statuses, FinishRow, Release, Held
    <3>2. rows' = [rows EXCEPT ![r[1]] = new] /\ broken' = broken
      BY <2>5 DEF BatchWrites
    <3> HIDE DEF new
    <3>3. /\ rows' \in [Messages -> Row] /\ rows'[r[1]] = new
          /\ \A x \in Messages : x # r[1] => rows'[x] = rows[x]
      BY <1>0, <3>1, <3>2, RequestParts DEF Types
    <3> QED
      BY <2>1, <2>3, <2>4, <2>5, <3>1, <3>2, <3>3 DEF BatchWrites, work
  <2>6. CASE ~Held(r)
    BY <1>0, <2>1, <2>3, <2>4, <2>6 DEF BatchWrites, Types, work
  <2> QED
    BY <2>5, <2>6
<1>2. Types'
  BY <1>0, <1>1, RequestParts, IdleTask DEF Types, Places, Tasks
<1>3. RowsOK'
  BY <1>0, <1>1, RequestParts, IdleTask DEF Types, RowsOK, Tasks
<1>4. JobsOK'
  BY <1>0, <1>1, RequestParts, IdleTask DEF Types, JobsOK, Busy, InActive, Tasks
<1>5. BoundOK'
  <2> SUFFICES ASSUME NEW q \in Requests, Busy(q)', life # "retired"
               PROVE  /\ rows'[q[1]].status \notin {"absent", "pending"}
                      /\ q \in bindings' \/ rows'[q[1]].status = "cancelled" \/ (broken' /\ ~Claimed(q)')
    BY <1>1 DEF BoundOK
  <2>1. Busy(q) /\ jobs[q] # "batch" /\ ~Claimed(q) /\ ~Claimed(q)'
    BY <1>1 DEF Busy, Claimed
  <2>2. /\ rows[q[1]].status \notin {"absent", "pending"} /\ q[2] = rows[q[1]].tries
        /\ q \in bindings \/ rows[q[1]].status = "cancelled" \/ broken
    BY <1>0, <2>1 DEF BoundOK, JobsOK
  <2>3. jobs[r] = "batch" /\ r # q
    BY <1>0, <1>1, <2>1 DEF BatchOK, MembersOK, Dead
  <2>4. rows'[q[1]] = rows[q[1]]
    <3>1. q[1] \in Messages /\ ~(r[1] = q[1] /\ r[2] = q[2])
      BY <2>3, RequestParts
    <3>2. CASE Held(r) /\ r[1] = q[1]
      BY <1>0, <2>2, <3>1, <3>2 DEF Held, RowsOK
    <3> QED
      BY <1>1, <3>1, <3>2
  <2>5. broken => broken'
    BY <1>1
  <2> QED
    BY <1>1, <2>1, <2>2, <2>3, <2>4, <2>5
<1>6. RanOK'
  BY <1>0, <1>1, RequestParts, IdleTask DEF Types, RanOK, JobsOK, InActive, Busy, Claimed, Begun, Tasks
<1>7. HandedOK'
  BY <1>0, <1>1, RequestParts, IdleTask DEF Types, HandedOK, Claimed, Tasks
<1>8. SettledOK'
  BY <1>0, <1>1, RequestParts, IdleTask DEF Types, SettledOK, Held, Tasks
<1>9. WithdrawnOK'
  BY <1>0, <1>1, RequestParts, IdleTask DEF Types, WithdrawnOK, Tasks, Held
<1>10. ControlOK'
  BY <1>0, <1>1, RequestParts, IdleTask DEF Types, ControlOK, Tasks
<1>11. ReservedOK'
  BY <1>0, <1>1, RequestParts, IdleTask DEF Types, ReservedOK, Claimed, Tasks
<1>12. AcceptsOK'
  BY <1>0, <1>1, RequestParts, IdleTask DEF Types, AcceptsOK, Claimed, Held, Tasks
<1>13. CleanupOK'
  BY <1>0, <1>1, RequestParts, IdleTask DEF Types, CleanupOK, Claimed, Busy, Tasks
<1>14. BatchOK'
  BY <1>0, <1>1, RequestParts, IdleTask DEF Types, BatchOK, Tasks
<1>15. MembersOK'
  BY <1>0, <1>1, RequestParts, IdleTask DEF Types, MembersOK, Dead, Tasks
<1>16. BegunOK'
  BY <1>0, <1>1, RequestParts, IdleTask DEF Types, BegunOK, BatchOK, Begun, Tasks
<1>17. WriteOK'
  BY <1>0, <1>1, RequestParts, IdleTask DEF Types, WriteOK, BatchOK, Held, Tasks
<1>18. LifeOK'
  BY <1>0, <1>1, RequestParts, IdleTask DEF Types, LifeOK, Dead, Tasks
<1>19. RunningOK'
  BY <1>0, <1>1, RequestParts, IdleTask DEF Types, RunningOK, Held, InJobs, Tasks
<1>20. OwnedUntilSettled'
  BY <1>0, <1>1, RequestParts, IdleTask DEF Types, OwnedUntilSettled, Held, InJobs, Tasks
<1> QED
  BY <1>2, <1>3, <1>4, <1>5, <1>6, <1>7, <1>8, <1>9, <1>10, <1>11, <1>12, <1>13, <1>14, <1>15, <1>16,
     <1>17, <1>18, <1>19, <1>20 DEF IInv

\* The batch's jobs are gone.
LEMMA BatchEndsKeeps ==
  ASSUME IInv, BatchEnds
  PROVE  IInv'
<1>0. Types /\ RowsOK /\ JobsOK /\ BoundOK /\ RanOK /\ HandedOK /\ SettledOK /\ WithdrawnOK
      /\ ControlOK /\ ReservedOK /\ AcceptsOK /\ CleanupOK
      /\ BatchOK /\ MembersOK /\ BegunOK /\ WriteOK /\ LifeOK /\ RunningOK /\ OwnedUntilSettled
  BY DEF IInv
<1>1. /\ active.kind = "batch" /\ active.pc = "write" /\ active.todo = {}
      /\ active' = Idle /\ active' \in Tasks /\ broken' \in BOOLEAN /\ (broken => broken')
      /\ jobs' = [r \in Requests |-> IF r \in active.members THEN "none" ELSE jobs[r]]
      /\ UNCHANGED <<rows, bindings, tickets, withdrawn, revoked, marked, admissions, op, life, ran>>
  BY <1>0, IdleTask DEF BatchEnds, Batch, Ends, Types, Tasks, memory
<1>2. Types'
  BY <1>0, <1>1, RequestParts, IdleTask DEF Types, Places, Tasks
<1>3. RowsOK'
  BY <1>0, <1>1, RequestParts, IdleTask DEF Types, RowsOK, Tasks
<1>4. JobsOK'
  BY <1>0, <1>1, RequestParts, IdleTask DEF Types, JobsOK, Busy, InActive, Tasks
<1>5. BoundOK'
  BY <1>0, <1>1, RequestParts, IdleTask DEF Types, BoundOK, JobsOK, InActive, Busy, Claimed, Tasks
<1>6. RanOK'
  BY <1>0, <1>1, RequestParts, IdleTask DEF Types, RanOK, JobsOK, InActive, Busy, Claimed, Begun, Tasks
<1>7. HandedOK'
  BY <1>0, <1>1, RequestParts, IdleTask DEF Types, HandedOK, Claimed, Tasks
<1>8. SettledOK'
  BY <1>0, <1>1, RequestParts, IdleTask DEF Types, SettledOK, Held, Tasks
<1>9. WithdrawnOK'
  BY <1>0, <1>1, RequestParts, IdleTask DEF Types, WithdrawnOK, Tasks
<1>10. ControlOK'
  BY <1>0, <1>1, RequestParts, IdleTask DEF Types, ControlOK, Tasks
<1>11. ReservedOK'
  BY <1>0, <1>1, RequestParts, IdleTask DEF Types, ReservedOK, Claimed, Tasks
<1>12. AcceptsOK'
  BY <1>0, <1>1, RequestParts, IdleTask DEF Types, AcceptsOK, Claimed, Held, Tasks
<1>13. CleanupOK'
  BY <1>0, <1>1, RequestParts, IdleTask DEF Types, CleanupOK, Claimed, Busy, Tasks
<1>14. BatchOK'
  BY <1>0, <1>1, RequestParts, IdleTask DEF Types, BatchOK, Tasks
<1>15. MembersOK'
  BY <1>0, <1>1, RequestParts, IdleTask DEF Types, MembersOK, Dead, Tasks
<1>16. BegunOK'
  BY <1>0, <1>1, RequestParts, IdleTask DEF Types, BegunOK, BatchOK, Begun, Tasks
<1>17. WriteOK'
  BY <1>0, <1>1, RequestParts, IdleTask DEF Types, WriteOK, BatchOK, Held, Tasks
<1>18. LifeOK'
  BY <1>0, <1>1, RequestParts, IdleTask DEF Types, LifeOK, Dead, Tasks
<1>19. RunningOK'
  BY <1>0, <1>1, RequestParts, IdleTask DEF Types, RunningOK, Held, InJobs, Tasks, WriteOK, JobsOK, InActive
<1>20. OwnedUntilSettled'
  BY <1>0, <1>1, RequestParts, IdleTask DEF Types, OwnedUntilSettled, Held, InJobs, Tasks, WriteOK,
     JobsOK, InActive
<1> QED
  BY <1>2, <1>3, <1>4, <1>5, <1>6, <1>7, <1>8, <1>9, <1>10, <1>11, <1>12, <1>13, <1>14, <1>15, <1>16,
     <1>17, <1>18, <1>19, <1>20 DEF IInv

\* A withdrawal is remembered before it is written.
LEMMA OpStartsKeeps ==
  ASSUME IInv, NEW m \in Messages, OpStarts(m)
  PROVE  IInv'
<1>0. Types /\ RowsOK /\ JobsOK /\ BoundOK /\ RanOK /\ HandedOK /\ SettledOK /\ WithdrawnOK
      /\ ControlOK /\ ReservedOK /\ AcceptsOK /\ CleanupOK
      /\ BatchOK /\ MembersOK /\ BegunOK /\ WriteOK /\ LifeOK /\ RunningOK /\ OwnedUntilSettled
  BY DEF IInv
<1>1. /\ op' \in [Messages -> Ops] /\ op[m].pc = "idle" /\ \A x \in Messages : x # m => op'[x] = op[x]
      /\ op'[m].already => m \in withdrawn
      /\ \/ op'[m].pc = "drop" /\ withdrawn' = withdrawn
         \/ op'[m].pc = "disk" /\ withdrawn' = withdrawn \cup {m}
      /\ UNCHANGED <<rows, bindings, tickets, revoked, jobs, order, marked, admissions, active, broken, life, ran>>
  <2> DEFINE r == <<m, tickets[m]>>
             drop == [pc |-> "drop", ticket |-> tickets[m], already |-> FALSE]
             disk == [pc |-> "disk", ticket |-> tickets[m], already |-> m \in withdrawn]
  <2>1. drop \in Ops /\ drop.pc = "drop" /\ ~drop.already /\ disk \in Ops /\ disk.pc = "disk"
        /\ (disk.already => m \in withdrawn)
    <3>1. tickets[m] \in Nat /\ (m \in withdrawn) \in BOOLEAN
      BY <1>0 DEF Types
    <3> QED
      BY <3>1 DEF Ops
  <2>2. \/ op' = [op EXCEPT ![m] = drop] /\ withdrawn' = withdrawn
        \/ op' = [op EXCEPT ![m] = disk] /\ withdrawn' = withdrawn \cup {m}
    BY DEF OpStarts
  <2> HIDE DEF drop, disk
  <2>3. \/ op' = [op EXCEPT ![m] = drop] /\ op'[m] = drop /\ withdrawn' = withdrawn
        \/ op' = [op EXCEPT ![m] = disk] /\ op'[m] = disk /\ withdrawn' = withdrawn \cup {m}
    BY <1>0, <2>2 DEF Types
  <2>4. op' \in [Messages -> Ops] /\ \A x \in Messages : x # m => op'[x] = op[x]
    BY <1>0, <2>1, <2>3 DEF Types
  <2> QED
    BY <2>1, <2>3, <2>4 DEF OpStarts, work
<1>2. Types'
  BY <1>0, <1>1, RequestParts, IdleTask DEF Types, Places, Tasks
<1>3. RowsOK'
  BY <1>0, <1>1, RequestParts, IdleTask DEF Types, RowsOK, Tasks
<1>4. JobsOK'
  BY <1>0, <1>1, RequestParts, IdleTask DEF Types, JobsOK, Busy, InActive, Tasks
<1>5. BoundOK'
  BY <1>0, <1>1, RequestParts, IdleTask DEF Types, BoundOK, JobsOK, InActive, Busy, Claimed, Tasks
<1>6. RanOK'
  BY <1>0, <1>1, RequestParts, IdleTask DEF Types, RanOK, JobsOK, InActive, Busy, Claimed, Begun, Tasks
<1>7. HandedOK'
  BY <1>0, <1>1, RequestParts, IdleTask DEF Types, HandedOK, Claimed, Tasks
<1>8. SettledOK'
  BY <1>0, <1>1, RequestParts, IdleTask DEF Types, SettledOK, Held, Tasks
<1>9. WithdrawnOK'
  BY <1>0, <1>1, RequestParts, IdleTask DEF Types, WithdrawnOK, Tasks
<1>10. ControlOK'
  BY <1>0, <1>1, RequestParts, IdleTask DEF Types, ControlOK, Tasks
<1>11. ReservedOK'
  BY <1>0, <1>1, RequestParts, IdleTask DEF Types, ReservedOK, Claimed, Tasks
<1>12. AcceptsOK'
  BY <1>0, <1>1, RequestParts, IdleTask DEF Types, AcceptsOK, Claimed, Held, Tasks
<1>13. CleanupOK'
  BY <1>0, <1>1, RequestParts, IdleTask DEF Types, CleanupOK, Claimed, Busy, Tasks
<1>14. BatchOK'
  BY <1>0, <1>1, RequestParts, IdleTask DEF Types, BatchOK, Tasks
<1>15. MembersOK'
  BY <1>0, <1>1, RequestParts, IdleTask DEF Types, MembersOK, Dead, Tasks
<1>16. BegunOK'
  BY <1>0, <1>1, RequestParts, IdleTask DEF Types, BegunOK, BatchOK, Begun, Tasks
<1>17. WriteOK'
  BY <1>0, <1>1, RequestParts, IdleTask DEF Types, WriteOK, BatchOK, Held, Tasks
<1>18. LifeOK'
  BY <1>0, <1>1, RequestParts, IdleTask DEF Types, LifeOK, Dead, Tasks
<1>19. RunningOK'
  BY <1>0, <1>1, RequestParts, IdleTask DEF Types, RunningOK, Held, InJobs, Tasks
<1>20. OwnedUntilSettled'
  BY <1>0, <1>1, RequestParts, IdleTask DEF Types, OwnedUntilSettled, Held, InJobs, Tasks
<1> QED
  BY <1>2, <1>3, <1>4, <1>5, <1>6, <1>7, <1>8, <1>9, <1>10, <1>11, <1>12, <1>13, <1>14, <1>15, <1>16,
     <1>17, <1>18, <1>19, <1>20 DEF IInv

\* The row is withdrawn, unless it has begun.
LEMMA OpWritesKeeps ==
  ASSUME IInv, NEW m \in Messages, OpWrites(m)
  PROVE  IInv'
<1>0. Types /\ RowsOK /\ JobsOK /\ BoundOK /\ RanOK /\ HandedOK /\ SettledOK /\ WithdrawnOK
      /\ ControlOK /\ ReservedOK /\ AcceptsOK /\ CleanupOK
      /\ BatchOK /\ MembersOK /\ BegunOK /\ WriteOK /\ LifeOK /\ RunningOK /\ OwnedUntilSettled
  BY DEF IInv
<1>1. /\ op' \in [Messages -> Ops] /\ rows' \in [Messages -> Row] /\ op[m].pc = "disk" /\ op'[m].pc # "disk"
      /\ \A x \in Messages : x # m => op'[x] = op[x] /\ rows'[x] = rows[x]
      /\ \/ /\ rows'[m].status = "cancelled" /\ rows'[m].tries = rows[m].tries /\ withdrawn' = withdrawn
            /\ bindings' = bindings \ {<<m, op[m].ticket>>} /\ rows[m].status \in {"pending", "claimed", "cancelled"}
         \/ /\ rows[m].status \notin {"pending", "claimed"} /\ UNCHANGED <<rows, bindings>>
            /\ ~op'[m].already
            /\ \/ withdrawn' = withdrawn /\ op[m].already
               \/ withdrawn' = withdrawn \ {m}
      /\ UNCHANGED <<tickets, revoked, jobs, order, marked, admissions, active, broken, life, ran>>
  <2>1. CASE Withdrawable(rows[m])
    <3> DEFINE q == IF <<m, op[m].ticket>> \in bindings THEN [op[m] EXCEPT !.pc = "drop"] ELSE NoOp
    <3>1. /\ rows' = [rows EXCEPT ![m].status = "cancelled"] /\ withdrawn' = withdrawn
          /\ bindings' = bindings \ {<<m, op[m].ticket>>} /\ op' = [op EXCEPT ![m] = q]
      BY <2>1 DEF OpWrites
    <3>2. q \in Ops /\ q.pc # "disk"
      BY <1>0 DEF Types, Ops, NoOp
    <3> HIDE DEF q
    <3>3. /\ rows' \in [Messages -> Row] /\ rows'[m].status = "cancelled" /\ rows'[m].tries = rows[m].tries
          /\ \A x \in Messages : x # m => rows'[x] = rows[x]
      BY <1>0, <3>1 DEF Types, Row, Statuses
    <3>4. op' \in [Messages -> Ops] /\ op'[m].pc # "disk" /\ \A x \in Messages : x # m => op'[x] = op[x]
      BY <1>0, <3>1, <3>2 DEF Types
    <3> QED
      BY <2>1, <3>1, <3>3, <3>4 DEF OpWrites, Withdrawable, work
  <2>2. CASE ~Withdrawable(rows[m])
    <3>1. op' = [op EXCEPT ![m] = NoOp]
      BY <2>2 DEF OpWrites
    <3>2. NoOp \in Ops /\ NoOp.pc = "idle" /\ NoOp.already = FALSE
      BY DEF Ops, NoOp
    <3>3. op' \in [Messages -> Ops] /\ op'[m] = NoOp /\ \A x \in Messages : x # m => op'[x] = op[x]
      BY <1>0, <3>1, <3>2 DEF Types
    <3> QED
      BY <1>0, <2>2, <3>2, <3>3 DEF OpWrites, Withdrawable, work, Types
  <2> QED
    BY <2>1, <2>2
<1>2. Types'
  BY <1>0, <1>1, RequestParts, IdleTask DEF Types, Places, Tasks
<1>3. RowsOK'
  BY <1>0, <1>1, RequestParts, IdleTask DEF Types, RowsOK, Tasks
<1>4. JobsOK'
  BY <1>0, <1>1, RequestParts, IdleTask DEF Types, JobsOK, Busy, InActive, Tasks
<1>5. BoundOK'
  <2> SUFFICES ASSUME NEW r \in Requests, Busy(r), life # "retired"
               PROVE  /\ rows'[r[1]].status \notin {"absent", "pending"}
                      /\ r \in bindings' \/ rows'[r[1]].status = "cancelled" \/ (broken /\ ~Claimed(r))
    BY <1>1 DEF BoundOK, Busy, Claimed
  <2>1. /\ rows[r[1]].status \notin {"absent", "pending"}
        /\ r \in bindings \/ rows[r[1]].status = "cancelled" \/ (broken /\ ~Claimed(r))
    BY <1>0 DEF BoundOK
  <2>2. r[1] \in Messages
    BY RequestParts
  <2>3. CASE r[1] = m
    BY <1>1, <2>1, <2>3
  <2>4. CASE r[1] # m
    <3>1. rows'[r[1]] = rows[r[1]] /\ r # <<m, op[m].ticket>>
      BY <1>1, <2>2, <2>4
    <3>2. r \in bindings => r \in bindings'
      BY <1>1, <3>1
    <3> QED
      BY <2>1, <3>1, <3>2
  <2> QED
    BY <2>3, <2>4
<1>6. RanOK'
  BY <1>0, <1>1, RequestParts, IdleTask DEF Types, RanOK, JobsOK, InActive, Busy, Claimed, Begun, Tasks
<1>7. HandedOK'
  BY <1>0, <1>1, RequestParts, IdleTask DEF Types, HandedOK, Claimed, Tasks
<1>8. SettledOK'
  BY <1>0, <1>1, RequestParts, IdleTask DEF Types, SettledOK, Held, Tasks
<1>9. WithdrawnOK'
  BY <1>0, <1>1, RequestParts, IdleTask DEF Types, WithdrawnOK, Tasks
<1>10. ControlOK'
  BY <1>0, <1>1, RequestParts, IdleTask DEF Types, ControlOK, Tasks
<1>11. ReservedOK'
  BY <1>0, <1>1, RequestParts, IdleTask DEF Types, ReservedOK, Claimed, Tasks
<1>12. AcceptsOK'
  BY <1>0, <1>1, RequestParts, IdleTask DEF Types, AcceptsOK, Claimed, Held, Tasks, RunningOK, InJobs
<1>13. CleanupOK'
  BY <1>0, <1>1, RequestParts, IdleTask DEF Types, CleanupOK, Claimed, Busy, Tasks
<1>14. BatchOK'
  BY <1>0, <1>1, RequestParts, IdleTask DEF Types, BatchOK, Tasks
<1>15. MembersOK'
  BY <1>0, <1>1, RequestParts, IdleTask DEF Types, MembersOK, Dead, Tasks
<1>16. BegunOK'
  BY <1>0, <1>1, RequestParts, IdleTask DEF Types, BegunOK, BatchOK, Begun, Tasks
<1>17. WriteOK'
  BY <1>0, <1>1, RequestParts, IdleTask DEF Types, WriteOK, BatchOK, Held, Tasks
<1>18. LifeOK'
  BY <1>0, <1>1, RequestParts, IdleTask DEF Types, LifeOK, Dead, Tasks
<1>19. RunningOK'
  BY <1>0, <1>1, RequestParts, IdleTask DEF Types, RunningOK, Held, InJobs, Tasks
<1>20. OwnedUntilSettled'
  BY <1>0, <1>1, RequestParts, IdleTask DEF Types, OwnedUntilSettled, Held, InJobs, Tasks, RunningOK
<1> QED
  BY <1>2, <1>3, <1>4, <1>5, <1>6, <1>7, <1>8, <1>9, <1>10, <1>11, <1>12, <1>13, <1>14, <1>15, <1>16,
     <1>17, <1>18, <1>19, <1>20 DEF IInv

\* What is still held is given back, and nothing runs any more.
LEMMA RetireKeeps ==
  ASSUME IInv, Retire
  PROVE  IInv'
<1>0. Types /\ RowsOK /\ JobsOK /\ BoundOK /\ RanOK /\ HandedOK /\ SettledOK /\ WithdrawnOK
      /\ ControlOK /\ ReservedOK /\ AcceptsOK /\ CleanupOK
      /\ BatchOK /\ MembersOK /\ BegunOK /\ WriteOK /\ LifeOK /\ RunningOK /\ OwnedUntilSettled
  BY DEF IInv
<1>1. /\ life = "active" /\ (active = Idle \/ Dead) /\ life' = "retired" /\ bindings' = {}
      /\ rows' \in [Messages -> Row]
      /\ \A m \in Messages :
         /\ rows'[m].status \notin {"claimed", "running"} /\ rows'[m].tries = rows[m].tries
         /\ rows[m].status \notin {"claimed", "running"} => rows'[m] = rows[m]
         /\ rows[m].status = "running" => rows'[m].status = "interrupted"
      /\ UNCHANGED <<tickets, withdrawn, revoked, jobs, order, marked, admissions, active, op, broken, ran>>
  <2>1. \A m \in Messages :
          /\ RetireRow(rows[m]) \in Row
          /\ RetireRow(rows[m]).status \notin {"claimed", "running"} /\ RetireRow(rows[m]).tries = rows[m].tries
          /\ rows[m].status \notin {"claimed", "running"} => RetireRow(rows[m]) = rows[m]
          /\ rows[m].status = "running" => RetireRow(rows[m]).status = "interrupted"
    BY <1>0 DEF Types, Row, Statuses, RetireRow, Release
  <2> QED
    BY <1>0, <2>1 DEF Retire, Types, work
<1>2. Types'
  BY <1>0, <1>1, RequestParts, IdleTask DEF Types, Places, Tasks
<1>3. RowsOK'
  BY <1>0, <1>1, RequestParts, IdleTask DEF Types, RowsOK, Tasks
<1>4. JobsOK'
  BY <1>0, <1>1, RequestParts, IdleTask DEF Types, JobsOK, Busy, InActive, Tasks
<1>5. BoundOK'
  BY <1>0, <1>1, RequestParts, IdleTask DEF Types, BoundOK, JobsOK, InActive, Busy, Claimed, Tasks
<1>6. RanOK'
  BY <1>0, <1>1, RequestParts, IdleTask DEF Types, RanOK, JobsOK, InActive, Busy, Claimed, Begun, Tasks
<1>7. HandedOK'
  BY <1>0, <1>1, RequestParts, IdleTask DEF Types, HandedOK, Claimed, Tasks
<1>8. SettledOK'
  BY <1>0, <1>1, RequestParts, IdleTask DEF Types, SettledOK, Held, Tasks
<1>9. WithdrawnOK'
  BY <1>0, <1>1, RequestParts, IdleTask DEF Types, WithdrawnOK, Tasks
<1>10. ControlOK'
  BY <1>0, <1>1, RequestParts, IdleTask DEF Types, ControlOK, Tasks
<1>11. ReservedOK'
  BY <1>0, <1>1, RequestParts, IdleTask DEF Types, ReservedOK, Claimed, Tasks, Dead
<1>12. AcceptsOK'
  BY <1>0, <1>1, RequestParts, IdleTask DEF Types, AcceptsOK, Claimed, Held, Tasks
<1>13. CleanupOK'
  BY <1>0, <1>1, RequestParts, IdleTask DEF Types, CleanupOK, Claimed, Busy, Tasks
<1>14. BatchOK'
  BY <1>0, <1>1, RequestParts, IdleTask DEF Types, BatchOK, Tasks
<1>15. MembersOK'
  BY <1>0, <1>1, RequestParts, IdleTask DEF Types, MembersOK, Dead, Tasks
<1>16. BegunOK'
  BY <1>0, <1>1, RequestParts, IdleTask DEF Types, BegunOK, BatchOK, Begun, Tasks
<1>17. WriteOK'
  BY <1>0, <1>1, RequestParts, IdleTask DEF Types, WriteOK, BatchOK, Held, Tasks
<1>18. LifeOK'
  BY <1>0, <1>1, RequestParts, IdleTask DEF Types, LifeOK, Dead, Tasks
<1>19. RunningOK'
  BY <1>0, <1>1, RequestParts, IdleTask DEF Types, RunningOK, Held, InJobs, Tasks
<1>20. OwnedUntilSettled'
  BY <1>0, <1>1, RequestParts, IdleTask DEF Types, OwnedUntilSettled, Held, InJobs, Tasks
<1> QED
  BY <1>2, <1>3, <1>4, <1>5, <1>6, <1>7, <1>8, <1>9, <1>10, <1>11, <1>12, <1>13, <1>14, <1>15, <1>16,
     <1>17, <1>18, <1>19, <1>20 DEF IInv

\* The cancellation of a request, which may be that of a later owner's claim, or of none.
LEMMA CancelKeeps ==
  ASSUME IInv, NEW r, Cancel(r),
         UNCHANGED <<rows, bindings, tickets, withdrawn, admissions, broken, ran>>, OpsStay, LifeStays
  PROVE  IInv'
<1>0. Types /\ JobsOK
  BY DEF IInv
<1>1. CASE InJobs(r) /\ InActive(r)
  <2>1. UNCHANGED <<jobs, marked>> /\ (UNCHANGED active \/ CancelTask)
    BY <1>1 DEF Cancel, InJobs, Finishing, InActive
  <2>2. CASE UNCHANGED active
    BY <2>1, <2>2, AsideKeeps
  <2>3. CASE CancelTask
    BY <2>1, <2>3, CancelTaskKeeps
  <2> QED
    BY <2>1, <2>2, <2>3
<1>2. CASE InJobs(r) /\ ~InActive(r) /\ ~Finishing(r)
  <2>1. FinishBegins(r) /\ UNCHANGED <<active, marked>>
    BY <1>2 DEF Cancel, InJobs, Finishing, InActive
  <2>2. CASE r \in Requests
    <3>1. jobs[r] = "queued"
      BY <1>0, <1>2, <2>2 DEF InJobs, Finishing, JobsOK
    <3> QED
      BY <2>1, <2>2, <3>1, FinishBeginsKeeps
  <2>3. CASE r \notin Requests
    <3>1. jobs' = jobs
      BY <1>0, <2>1, <2>3 DEF FinishBegins, Types
    <3> QED
      BY <2>1, <3>1, AsideKeeps
  <2> QED
    BY <2>2, <2>3
<1>3. CASE ~(InJobs(r) /\ InActive(r)) /\ ~(InJobs(r) /\ ~InActive(r) /\ ~Finishing(r))
  <2>1. UNCHANGED <<jobs, active>> /\ marked \subseteq marked'
    BY <1>3 DEF Cancel
  <2> QED
    BY <2>1, AsideKeeps
<1> QED
  BY <1>1, <1>2, <1>3

\* The scheduled end of a withdrawal.
LEMMA OpDropsKeeps ==
  ASSUME IInv, NEW m \in Messages, OpDrops(m)
  PROVE  IInv'
<1>1. Types
  BY DEF IInv
<1>2. op[m] \in Ops /\ op[m].pc = "drop" /\ op[m].ticket \in Nat
  BY <1>1 DEF OpDrops, Types, Ops
<1>3. NoOp \in Ops /\ NoOp.pc = "idle" /\ ~NoOp.already
  BY DEF NoOp, Ops
<1>4. OpsStay
  BY <1>1, <1>2, <1>3 DEF OpDrops, OpsStay, Types
<1>5. LifeStays /\ UNCHANGED <<rows, bindings, tickets, withdrawn, admissions, broken, ran>>
  BY <1>1 DEF OpDrops, LifeStays, Types, memory
<1>6. Cancel(<<m, op[m].ticket>>)
  BY DEF OpDrops
<1> QED
  BY <1>2, <1>4, <1>5, <1>6, CancelKeeps

\* A peer's cancellation.
LEMMA PeerCancelsKeeps ==
  ASSUME IInv, NEW m \in Messages, PeerCancels(m)
  PROVE  IInv'
<1>1. Types
  BY DEF IInv
<1>2. tickets[m] \in Nat
  BY <1>1 DEF Types
<1>3. OpsStay /\ LifeStays /\ UNCHANGED <<rows, bindings, tickets, withdrawn, admissions, broken, ran>>
  BY <1>1 DEF PeerCancels, OpsStay, LifeStays, Types, memory
<1>4. Cancel(<<m, tickets[m]>>)
  BY DEF PeerCancels
<1> QED
  BY <1>2, <1>3, <1>4, CancelKeeps

\* A peer's end.
LEMMA DisconnectKeeps ==
  ASSUME IInv, NEW m \in Messages, Disconnect(m)
  PROVE  IInv'
<1>1. Types
  BY DEF IInv
<1>2. tickets[m] \in Nat
  BY <1>1 DEF Types
<1>3. OpsStay /\ LifeStays /\ UNCHANGED <<rows, bindings, tickets, withdrawn, admissions, broken, ran>>
  BY <1>1 DEF Disconnect, OpsStay, LifeStays, Types
<1>4. CASE Cancel(<<m, tickets[m]>>)
  BY <1>2, <1>3, <1>4, CancelKeeps
<1>5. CASE UNCHANGED <<jobs, active, marked>>
  BY <1>3, <1>5, AsideKeeps
<1> QED
  BY <1>4, <1>5 DEF Disconnect

\* The control of a prompt that was withdrawn, and the task that shutdown cancels.
LEMMA TaskCancelsKeep ==
  ASSUME IInv, PromptWithdrawn \/ ShutActive
  PROVE  IInv'
<1>1. Types
  BY DEF IInv
<1>2. CASE PromptWithdrawn
  <2>1. OpsStay /\ LifeStays
    BY <1>1, <1>2 DEF PromptWithdrawn, OpsStay, LifeStays, Types
  <2>2. CancelTask /\ UNCHANGED <<rows, bindings, tickets, withdrawn, jobs, marked, admissions, broken, ran>>
    BY <1>2 DEF PromptWithdrawn, memory, work
  <2> QED
    BY <2>1, <2>2, CancelTaskKeeps
<1>3. CASE ShutActive
  <2>1. OpsStay /\ LifeStays
    BY <1>1, <1>3 DEF ShutActive, OpsStay, LifeStays, Types
  <2>2. CancelTask /\ UNCHANGED <<rows, bindings, tickets, withdrawn, jobs, marked, admissions, broken, ran>>
    BY <1>3 DEF ShutActive, memory, work
  <2> QED
    BY <2>1, <2>2, CancelTaskKeeps
<1> QED
  BY <1>2, <1>3

\* Shutdown takes a job back, unless its batch may still run.
LEMMA ShutQueuedKeeps ==
  ASSUME IInv, NEW r \in Requests, ShutQueued(r)
  PROVE  IInv'
<1>1. Types /\ JobsOK
  BY DEF IInv
<1>2. OpsStay /\ LifeStays
  BY <1>1 DEF ShutQueued, OpsStay, LifeStays, Types
<1>3. jobs[r] = "queued" \/ (jobs[r] = "batch" /\ Dead)
  BY <1>1 DEF ShutQueued, InJobs, Finishing, JobsOK, InActive, Idle
<1>4. FinishBegins(r) /\ UNCHANGED <<active, marked, rows, bindings, tickets, withdrawn, admissions, broken, ran>>
  BY DEF ShutQueued, memory
<1> QED
  BY <1>2, <1>3, <1>4, FinishBeginsKeeps

\* Nothing is claimed and nothing runs at first.
LEMMA InitIInv == Init => IInv
<1> SUFFICES ASSUME Init PROVE IInv
  OBVIOUS
<1>1. active = Idle /\ Idle \in Tasks /\ Idle.kind = "none" /\ Idle.members = {}
  BY DEF Init, Idle, Tasks
<1>2. /\ \A m \in Messages : /\ rows[m].status = "absent" /\ op[m].pc = "idle" /\ ~op[m].already
                             /\ ran[m] = 0
      /\ \A r \in Requests : jobs[r] = "none"
  BY DEF Init, NoOp
<1>3. Types
  <2>1. [status |-> "absent", attempt |-> 0, tries |-> 0, batch |-> FALSE] \in Row /\ NoOp \in Ops
    BY DEF Row, Statuses, NoOp, Ops
  <2> QED
    BY <1>1, <2>1 DEF Init, Types, Places
<1>4. \A r \in Requests : ~Busy(r) /\ ~Claimed(r) /\ ~Held(r)
  BY <1>1, <1>2, RequestParts DEF Busy, Claimed, Held
<1>5. RowsOK /\ JobsOK /\ BoundOK /\ RanOK /\ HandedOK /\ SettledOK
  BY <1>2, <1>4 DEF RowsOK, JobsOK, BoundOK, RanOK, HandedOK, SettledOK
<1>6. WithdrawnOK /\ RunningOK /\ OwnedUntilSettled
  BY <1>2, <1>4 DEF Init, WithdrawnOK, RunningOK, OwnedUntilSettled
<1>7. ControlOK /\ ReservedOK /\ AcceptsOK /\ CleanupOK /\ BatchOK /\ MembersOK /\ BegunOK /\ WriteOK
  BY <1>1, <1>4 DEF ControlOK, ReservedOK, AcceptsOK, CleanupOK, BatchOK, MembersOK, BegunOK, WriteOK
<1>8. LifeOK
  BY <1>1 DEF Init, LifeOK
<1> QED
  BY <1>3, <1>5, <1>6, <1>7, <1>8 DEF IInv

\* A step that changes nothing.
LEMMA StutterKeeps ==
  ASSUME IInv, UNCHANGED vars
  PROVE  IInv'
<1>1. Types
  BY DEF IInv
<1>2. OpsStay /\ LifeStays /\ UNCHANGED <<jobs, active, marked, rows, bindings, tickets, withdrawn, admissions, broken, ran>>
  BY <1>1 DEF vars, memory, work, OpsStay, LifeStays, Types
<1> QED
  BY <1>2, AsideKeeps

\* Every step keeps the invariant.
LEMMA NextIInv == IInv /\ [Next]_vars => IInv'
<1> SUFFICES ASSUME IInv, [Next]_vars PROVE IInv'
  OBVIOUS
<1>1. ASSUME NEW m \in Messages,
             Enqueue(m) \/ OpStarts(m) \/ OpWrites(m) \/ OpDrops(m) \/ PeerCancels(m) \/ Disconnect(m)
      PROVE  IInv'
  BY <1>1, EnqueueKeeps, OpStartsKeeps, OpWritesKeeps, OpDropsKeeps, PeerCancelsKeeps, DisconnectKeeps
<1>2. ASSUME NEW m \in Messages \cup {"none"}, PumpControl(m)
      PROVE  IInv'
  BY <1>2, PumpControlKeeps
<1>3. ASSUME NEW n \in 1..MaxPerTurn, PumpBatch(n)
      PROVE  IInv'
  BY <1>3, PumpBatchKeeps
<1>4. ASSUME ControlReads \/ Reserve \/ Handoff \/ Accepted \/ CleanupJoined \/ CleanupEnds \/ PromptWithdrawn
      PROVE  IInv'
  BY <1>4, ControlReadsKeeps, ReserveKeeps, HandoffKeeps, AcceptedKeeps, CleanupJoinedKeeps,
     CleanupEndsKeeps,
     TaskCancelsKeep
<1>5. ASSUME NEW r \in Requests,
             \/ CleanupTicket(r) \/ AcceptStarts(r) \/ AcceptSaved(r) \/ FinishWrites(r) \/ FinishEnds(r)
             \/ BatchWrites(r) \/ ShutQueued(r)
      PROVE  IInv'
  BY <1>5, CleanupTicketKeeps, AcceptStartsKeeps, AcceptSavedKeeps, FinishWritesKeeps, FinishEndsKeeps,
     BatchWritesKeeps, ShutQueuedKeeps
<1>6. ASSUME BatchStarts \/ BatchBegins \/ BatchRuns \/ BatchExecuted \/ BatchEnds
      PROVE  IInv'
  BY <1>6, BatchStartsKeeps, BatchBeginsKeeps, BatchRunsKeeps, BatchExecutedKeeps, BatchEndsKeeps
<1>7. ASSUME Close \/ ShutActive \/ Retire
      PROVE  IInv'
  BY <1>7, CloseKeeps, TaskCancelsKeep, RetireKeeps
<1>8. ASSUME UNCHANGED vars
      PROVE  IInv'
  BY <1>8, StutterKeeps
<1> QED
  BY <1>1, <1>2, <1>3, <1>4, <1>5, <1>6, <1>7, <1>8 DEF Next

\* The owner of a session and its inbox keep the inductive invariant.
THEOREM OwnerInvariance == Spec => []IInv
<1>1. Init => IInv
  BY InitIInv
<1>2. IInv /\ [Next]_vars => IInv'
  BY NextIInv
<1> QED
  BY <1>1, <1>2, PTL DEF Spec

\* One owner gives a message to the model at most once, whoever cancels, disconnects,
\* withdraws or closes when (inbox_runtime.py, controller.py).
THEOREM GivenOnce == Spec => []RunOnce
<1>1. IInv => RunOnce
  BY DEF IInv, RanOK, RunOnce
<1> QED
  BY <1>1, OwnerInvariance, PTL

\* A claim or an execution on record has somebody who will settle it, unless the owner
\* is broken; an owner that has retired holds none.
THEOREM SettledByItsOwner == Spec => []OwnedUntilSettled
<1>1. IInv => OwnedUntilSettled
  BY DEF IInv
<1> QED
  BY <1>1, OwnerInvariance, PTL

=============================================================================
