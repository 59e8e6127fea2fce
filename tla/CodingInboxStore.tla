------------------------- MODULE CodingInboxStore --------------------------
(***************************************************************************)
(* The durable inbox of one coding session: class InboxStore of            *)
(* packages/coding/src/xdog/coding/core/sessions/inbox_store.py, with the  *)
(* records of inbox_models.py.                                             *)
(*                                                                         *)
(* A message is one file in one of three folders, named after its id.  A   *)
(* store call takes inbox.lock, reads every file, and then saves records   *)
(* one after the other: each save replaces the file where it is and then   *)
(* moves it to the folder of its new status.  The process may die, or the  *)
(* disk fail, before and between these writes.  Begin actions (Reserve,    *)
(* Finish, ...) take the lock and decide what is to be written; the steps  *)
(* SaveSequence, WriteRecord and MoveRecord write it.                      *)
(***************************************************************************)
EXTENDS Integers, FiniteSets

CONSTANTS Messages,      \* message ids
          Branches,      \* branches of the session's conversation
          Batches,       \* batch ids
          NoBatch,       \* no batch id
          MaxPending,    \* MAX_PENDING: unresolved messages
          MaxRecords,    \* MAX_RECORDS: files kept
          MaxSequence,   \* bound: sequence numbers
          MaxOwners,     \* bound: owner generations
          MaxAttempts,   \* bound: attempts of one message
          MaxFailures    \* bound: disk failures

ASSUME ConstantsAssumption ==
    /\ Branches # {}
    /\ NoBatch \notin Batches
    /\ MaxPending \in Nat /\ MaxRecords \in Nat /\ MaxSequence \in Nat /\ MaxOwners \in Nat
    /\ MaxAttempts \in Nat /\ MaxFailures \in Nat

VARIABLES branch,      \* active_branch in the session's own file
          counter,     \* file .sequence
          rows,        \* the record of each message
          folder,      \* where its file is
          call,        \* the call that holds inbox.lock
          owner,       \* the generation that holds the session's lease, 0: none
          owners,      \* generations so far
          ready,       \* the owner has recovered the inbox
          failures

files == <<counter, rows, folder>>
vars == <<branch, counter, rows, folder, call, owner, owners, ready, failures>>

\* "finished" stands for succeeded and failed, which no decision of the store
\* tells apart.
RESOLVED == {"finished", "cancelled"}
Active == {"claimed", "running"}
Statuses == {"pending", "interrupted"} \cup Active \cup RESOLVED

\* attempts: how many attempts the record lists, and last: the last of them, the
\* only one a call ever changes.  attempt: the current one, 0 for none.
Attempt == [gen : Nat, branch : Branches, status : Statuses \cup {"absent"},
            batch : Batches \cup {NoBatch}]
Record == [status : Statuses \cup {"absent"}, branch : Branches, gen : Nat, attempt : Nat,
           batch : Batches \cup {NoBatch}, sequence : Nat, attempts : Nat, last : Attempt]
FirstBranch == CHOOSE b \in Branches : TRUE
NoAttempt == [gen |-> 0, branch |-> FirstBranch, status |-> "absent", batch |-> NoBatch]
NoRecord == [status |-> "absent", branch |-> FirstBranch, gen |-> 0, attempt |-> 0,
             batch |-> NoBatch, sequence |-> 0, attempts |-> 0, last |-> NoAttempt]

Stored == {m \in Messages : rows[m].status # "absent"}

\* _folder.
Folder(r) ==
    IF r.status = "running" THEN "running"
    ELSE IF r.status \in RESOLVED \cup {"interrupted"} THEN "terminal" ELSE "pending"

\* The current attempt ends, or goes on, with the record.
AttemptAfter(r, status) ==
    IF r.attempt = 0 THEN r.last
    ELSE [r.last EXCEPT !.status = IF status = "pending" THEN "cancelled" ELSE status]

\* Mutant of Transition: a record that is pending again keeps its batch id.
TransitionKeepsBatch(r, status) ==
    [r EXCEPT !.status = status,
              !.last = AttemptAfter(r, status),
              !.gen = IF status \in {"pending", "interrupted"} THEN 0 ELSE @,
              !.attempt = IF status = "pending" THEN 0 ELSE @]

\* _transition: the current attempt ends with the record, and a record that is
\* pending again holds no execution authority.
Transition(r, status) ==
    [r EXCEPT !.status = status,
              !.last = AttemptAfter(r, status),
              !.gen = IF status \in {"pending", "interrupted"} THEN 0 ELSE @,
              !.attempt = IF status = "pending" THEN 0 ELSE @,
              !.batch = IF status = "pending" THEN NoBatch ELSE @]

\* reserve, begin_batch and retry, one record.
Claimed(r, g) ==
    [r EXCEPT !.status = "claimed", !.gen = g, !.attempt = r.attempts + 1, !.batch = NoBatch,
              !.attempts = r.attempts + 1,
              !.last = [gen |-> g, branch |-> branch, status |-> "claimed", batch |-> NoBatch]]
Bound(r, b) == [r EXCEPT !.batch = b, !.last.batch = b]
Begun(r, b) == Bound(Transition(r, "running"), b)
Retried(r) == [r EXCEPT !.status = "pending", !.gen = 0, !.attempt = 0, !.batch = NoBatch]

\* finish, one record: an execution that was cancelled before it began did not
\* happen.
Settled(r, status, b) ==
    Transition(IF b = NoBatch THEN r ELSE Bound(r, b),
               IF r.status = "claimed" /\ status = "cancelled" THEN "pending" ELSE status)

\* Mutant of Recovered: interrupted work is queued again.
RecoveredRequeues(r) == Transition(r, "pending")

\* _recover, one record of a generation that is gone.
Recovered(r) == Transition(r, IF r.status = "claimed" THEN "pending" ELSE "interrupted")

-----------------------------------------------------------------------------
(* The call under the lock.  todo: the records still to be saved; written:  *)
(* the first of them is in its file, which is not yet in its folder.        *)

Nothing == [m \in {} |-> NoRecord]
NoCall == [kind |-> "none", todo |-> Nothing, claims |-> Nothing, written |-> FALSE]
Free == call = NoCall
Begin(kind, todo) == call' = [NoCall EXCEPT !.kind = kind, !.todo = todo]

\* Records are saved in the order of their sequence.
First(todo) == CHOOSE m \in DOMAIN todo : \A x \in DOMAIN todo : todo[m].sequence <= todo[x].sequence
Rest(todo) == [m \in DOMAIN todo \ {First(todo)} |-> todo[m]]

Init ==
    /\ branch = FirstBranch
    /\ counter = 0
    /\ rows = [m \in Messages |-> NoRecord]
    /\ folder = [m \in Messages |-> "none"]
    /\ call = NoCall
    /\ owner = 0 /\ owners = 0 /\ ready = FALSE
    /\ failures = 0

\* Sequence numbers go up although a message may be lost after its number.
NextSequence ==
    LET used == {counter} \cup {rows[m].sequence : m \in Stored}
    IN  1 + CHOOSE n \in used : \A x \in used : x <= n

\* enqueue by any process; a message that is known is not saved again.
Enqueue(m) ==
    /\ Free /\ m \notin Stored /\ NextSequence <= MaxSequence
    /\ Cardinality(Stored) < MaxRecords
    /\ Cardinality({x \in Stored : rows[x].status \notin RESOLVED}) < MaxPending
    /\ Begin("sequence", [x \in {m} |-> [NoRecord EXCEPT !.status = "pending", !.branch = branch,
                                                         !.sequence = NextSequence]])
    /\ UNCHANGED <<branch, files, owner, owners, ready, failures>>

\* The session's owner, which holds its lease, and nobody else.
Owns == Free /\ ready

\* reserve: all of the selection is pending, on the session's branch.
Reserve(S) ==
    /\ Owns /\ S # {}
    /\ \A m \in S : /\ rows[m].status = "pending" /\ rows[m].branch = branch
                    /\ rows[m].attempts < MaxAttempts
    /\ LET claims == [m \in S |-> Claimed(rows[m], owner)]
       IN  call' = [NoCall EXCEPT !.kind = "reserve", !.todo = claims, !.claims = claims]
    /\ UNCHANGED <<branch, files, owner, owners, ready, failures>>

\* begin_batch: all of the batch is still claimed by this owner.
BeginBatch(S, b) ==
    /\ Owns /\ S # {}
    /\ \A m \in S : rows[m].status = "claimed" /\ rows[m].gen = owner /\ rows[m].branch = branch
    /\ Begin("begin", [m \in S |-> Begun(rows[m], b)])
    /\ UNCHANGED <<branch, files, owner, owners, ready, failures>>

\* release_unstarted: claims of this owner that did not begin.
ReleaseUnstarted(S) ==
    /\ Owns /\ S # {}
    /\ \A m \in S : rows[m].status = "claimed" /\ rows[m].gen = owner
    /\ Begin("release", [m \in S |-> Transition(rows[m], "pending")])
    /\ UNCHANGED <<branch, files, owner, owners, ready, failures>>

\* retry: somebody asks for an interrupted message again.
Retry(m) ==
    /\ Owns
    /\ rows[m].status = "interrupted" /\ rows[m].branch = branch
    /\ Begin("retry", [x \in {m} |-> Retried(rows[m])])
    /\ UNCHANGED <<branch, files, owner, owners, ready, failures>>

\* cancel_pending: a message that did not begin is withdrawn, or its withdrawal
\* saved again.
CancelPending(m) ==
    /\ Owns
    /\ rows[m].branch = branch
    /\ \/ /\ rows[m].status = "cancelled" /\ rows[m].batch = NoBatch /\ rows[m].gen \in {0, owner}
          /\ Begin("cancel", [x \in {m} |-> rows[m]])
       \/ /\ rows[m].status = "pending" \/ (rows[m].status = "claimed" /\ rows[m].gen = owner)
          /\ Begin("cancel", [x \in {m} |-> Transition(rows[m], "cancelled")])
    /\ UNCHANGED <<branch, files, owner, owners, ready, failures>>

\* finish: the result of the current attempt; NoBatch for a job outside a batch.
Finish(m, status, b) ==
    /\ Owns
    /\ rows[m].status \in Active /\ rows[m].gen = owner
    /\ b # NoBatch /\ rows[m].status = "running" => rows[m].batch = b
    /\ Begin("finish", [x \in {m} |-> Settled(rows[m], status, b)])
    /\ UNCHANGED <<branch, files, owner, owners, ready, failures>>

\* Mutant of Stale: retiring and recovering test the generation the same way.
StaleWhenOwned(r, retiring) == r.gen = owner

\* _recover: what a retiring owner holds, or what others left behind.
Stale(r, retiring) == IF retiring THEN r.gen = owner ELSE r.gen # owner
RecoverTodo(retiring) ==
    LET stale == {m \in Stored : rows[m].status \in Active /\ Stale(rows[m], retiring)}
        astray == {m \in Stored : folder[m] # Folder(rows[m])}
    IN  [m \in stale \cup astray |-> IF m \in stale THEN Recovered(rows[m]) ELSE rows[m]]

Recover ==
    /\ Free /\ owner # 0 /\ ~ready
    /\ Begin("recover", RecoverTodo(FALSE))
    /\ UNCHANGED <<branch, files, owner, owners, ready, failures>>

Retire ==
    /\ Owns
    /\ Begin("retire", RecoverTodo(TRUE))
    /\ UNCHANGED <<branch, files, owner, owners, ready, failures>>

-----------------------------------------------------------------------------
(* Writing. *)

\* _save_sequence.
SaveSequence ==
    /\ call.kind = "sequence"
    /\ counter' = call.todo[First(call.todo)].sequence
    /\ call' = [call EXCEPT !.kind = "enqueue"]
    /\ UNCHANGED <<branch, rows, folder, owner, owners, ready, failures>>

Saving == call.kind # "sequence" /\ DOMAIN call.todo # {}
Saved == call' = [call EXCEPT !.todo = Rest(@), !.written = FALSE]

\* _save: the file is replaced where it is; a new one is made where it belongs.
WriteRecord ==
    /\ Saving /\ ~call.written
    /\ LET m == First(call.todo)
           r == call.todo[m]
       IN  /\ rows' = [rows EXCEPT ![m] = r]
           /\ folder' = [folder EXCEPT ![m] = IF @ = "none" THEN Folder(r) ELSE @]
           /\ IF folder[m] \in {"none", Folder(r)}
              THEN Saved ELSE call' = [call EXCEPT !.written = TRUE]
    /\ UNCHANGED <<branch, counter, owner, owners, ready, failures>>

\* _save: the file is moved to the folder of its status.
MoveRecord ==
    /\ Saving /\ call.written
    /\ folder' = [folder EXCEPT ![First(call.todo)] = Folder(call.todo[First(call.todo)])]
    /\ Saved
    /\ UNCHANGED <<branch, counter, rows, owner, owners, ready, failures>>

\* The lock is given up: the call returned or raised.  A retired owner is gone
\* either way.
Unlock(ok) ==
    /\ call' = NoCall
    /\ owner' = IF call.kind = "retire" THEN 0 ELSE owner
    /\ ready' = CASE call.kind = "retire" -> FALSE
                  [] call.kind = "recover" /\ ok -> TRUE
                  [] OTHER -> ready

Return ==
    /\ call.kind \notin {"none", "sequence"} /\ DOMAIN call.todo = {}
    /\ Unlock(TRUE)
    /\ UNCHANGED <<branch, files, owners, failures>>

\* The claims of a failed reserve that reached the disk, all or in part.
RollbackTodo ==
    LET published == {m \in DOMAIN call.claims :
            /\ rows[m].status = "claimed" /\ rows[m].gen = owner
            /\ rows[m].attempt = call.claims[m].attempt}
    IN  [m \in published |-> Transition(rows[m], "pending")]

\* OSError in a save.  reserve rolls its claims back and goes on when that fails
\* too; every other call stops where it is.
SaveFails ==
    /\ failures < MaxFailures /\ call.kind # "none" /\ DOMAIN call.todo # {}
    /\ failures' = failures + 1
    /\ CASE call.kind = "reserve" ->
              /\ call' = [NoCall EXCEPT !.kind = "rollback", !.todo = RollbackTodo]
              /\ UNCHANGED <<owner, ready>>
         [] call.kind = "rollback" -> Saved /\ UNCHANGED <<owner, ready>>
         [] OTHER -> Unlock(FALSE)
    /\ UNCHANGED <<branch, files, owners>>

-----------------------------------------------------------------------------
(* The processes. *)

\* A process takes the session's lease, under a generation of its own.
Acquire ==
    /\ owner = 0 /\ owners < MaxOwners
    /\ owners' = owners + 1 /\ owner' = owners + 1
    /\ UNCHANGED <<branch, files, call, ready, failures>>

\* The conversation moves to another branch, between two owners: the controller
\* retires its coordinator first.
Navigate(b) ==
    /\ owner = 0 /\ Free /\ b # branch
    /\ branch' = b
    /\ UNCHANGED <<files, call, owner, owners, ready, failures>>

\* The owner dies, with what it was writing; an enqueue is another process's.
Ingress == {"sequence", "enqueue"}
Crash ==
    /\ owner # 0
    /\ owner' = 0 /\ ready' = FALSE
    /\ call' = IF call.kind \in Ingress THEN call ELSE NoCall
    /\ UNCHANGED <<branch, files, owners, failures>>

IngressDies ==
    /\ call.kind \in Ingress
    /\ call' = NoCall
    /\ UNCHANGED <<branch, files, owner, owners, ready, failures>>

Next ==
    \/ \E m \in Messages : Enqueue(m) \/ Retry(m) \/ CancelPending(m)
    \/ \E m \in Messages, status \in RESOLVED, b \in Batches \cup {NoBatch} : Finish(m, status, b)
    \/ \E S \in SUBSET Messages : Reserve(S) \/ ReleaseUnstarted(S)
    \/ \E S \in SUBSET Messages, b \in Batches : BeginBatch(S, b)
    \/ Recover \/ Retire
    \/ SaveSequence \/ WriteRecord \/ MoveRecord \/ Return \/ SaveFails
    \/ Acquire \/ Crash \/ IngressDies
    \/ \E b \in Branches : Navigate(b)

Spec == Init /\ [][Next]_vars

-----------------------------------------------------------------------------
(* Properties. *)

TypeOK ==
    /\ branch \in Branches /\ counter \in Nat
    /\ rows \in [Messages -> Record]
    /\ folder \in [Messages -> {"none", "pending", "running", "terminal"}]
    /\ owner \in 0..MaxOwners /\ owners \in 0..MaxOwners
    /\ ready \in BOOLEAN /\ failures \in 0..MaxFailures

\* record_from_data: what it takes for a file to be read.
Readable(r) ==
    /\ r.attempts # 0 => r.last.branch = r.branch
    /\ r.attempt # 0 => r.attempt = r.attempts /\ r.batch = r.last.batch
    /\ r.status \in Active =>
          r.gen # 0 /\ r.attempt # 0 /\ r.last.gen = r.gen /\ r.last.status = r.status
    /\ r.status \in RESOLVED \cup {"interrupted"} =>
          IF r.attempt # 0 THEN r.last.status = r.status
          ELSE r.status = "cancelled" /\ r.gen = 0 /\ r.batch = NoBatch
    /\ r.status = "pending" => r.gen = 0 /\ r.attempt = 0 /\ r.batch = NoBatch
    /\ r.status = "running" => r.batch # NoBatch

\* _scan never refuses the inbox, wherever the last process died or the disk
\* failed: one unreadable file, or a sequence used twice, would stop every call.
InboxReadable ==
    /\ \A m \in Stored : Readable(rows[m])
    /\ \A m, x \in Stored : rows[m].sequence = rows[x].sequence => m = x

\* The inbox implements the promise of WorkLifecycle: no crash, failed save,
\* rollback or recovery runs a message again that has begun, or forgets one.
Stage(r) ==
    CASE r.status = "pending" -> "queued"
      [] r.status = "claimed" -> "held"
      [] r.status = "running" -> "executing"
      [] r.status \in RESOLVED -> "settled"
      [] OTHER -> r.status
StageOf == [m \in Messages |-> Stage(rows[m])]
Lifecycle == INSTANCE WorkLifecycle WITH Work <- Messages, stage <- StageOf
LifecycleSpec == Lifecycle!Spec

\* Once an owner has recovered, every claim and every execution on record is its
\* own: nothing stays in the hands of a generation that is gone.
ActiveIsOwners ==
    ready => \A m \in Stored : rows[m].status \in Active => rows[m].gen = owner

-----------------------------------------------------------------------------
(* The inductive invariant. *)

\* A file exists in some folder as soon as, and as long as, its message is known.
FilesKnown == \A m \in Messages : folder[m] = "none" <=> rows[m].status = "absent"

\* Numbers that were given out are within the bound.
Numbered == counter <= MaxSequence /\ \A m \in Stored : rows[m].sequence <= MaxSequence

\* The call: which records it may still save or give back, and who makes it.
Kinds == Ingress \cup {"none", "reserve", "rollback", "begin", "release", "retry", "cancel",
                       "finish", "recover", "retire"}
CallTyped ==
    /\ call = [kind |-> call.kind, todo |-> call.todo, claims |-> call.claims,
               written |-> call.written]
    /\ call.kind \in Kinds /\ call.written \in BOOLEAN
    /\ DOMAIN call.claims \subseteq Messages /\ DOMAIN call.todo \subseteq Messages
    /\ \A m \in DOMAIN call.todo : call.todo[m] \in Record
    /\ call.kind = "sequence" => DOMAIN call.todo # {}
CallOwned ==
    /\ call.kind = "none" => call = NoCall
    /\ call.kind \notin Ingress \cup {"none"} => owner # 0
    /\ call.kind \notin Ingress \cup {"none", "recover"} => ready
    /\ call.kind = "recover" => ~ready
    /\ ready => owner # 0

\* A record about to be saved, q, is one that can be read, of the owner if it is
\* active, and the next stage of what is on disk, r; a new one has a new number.
NextStage(r, q) == Stage(r) = Stage(q) \/ <<Stage(r), Stage(q)>> \in Lifecycle!Moves
Successor(r, q) ==
    /\ q.status # "absent" /\ Readable(q)
    /\ q.status \in Active => q.gen = owner
    /\ NextStage(r, q)
NewRecord(m, q) ==
    /\ rows[m].status = "absent" /\ q.status = "pending" /\ q.sequence <= MaxSequence
    /\ \A x \in Stored : rows[x].sequence < q.sequence
TodoLegal ==
    \A m \in DOMAIN call.todo :
        /\ Successor(rows[m], call.todo[m])
        /\ IF call.kind \in Ingress
           THEN DOMAIN call.todo = {m} /\ ~call.written /\ NewRecord(m, call.todo[m])
           ELSE rows[m].status # "absent" /\ rows[m].sequence = call.todo[m].sequence

\* A record that waits only for its move is in its file.
WrittenIsSaved ==
    call.written /\ DOMAIN call.todo # {} => rows[First(call.todo)] = call.todo[First(call.todo)]

\* What a recovery has not in hand any more is not in the hands of others.
RecoveredSoFar ==
    call.kind = "recover" =>
        \A m \in Stored \ DOMAIN call.todo : rows[m].status \in Active => rows[m].gen = owner

IInv ==
    /\ TypeOK /\ InboxReadable /\ ActiveIsOwners
    /\ FilesKnown /\ Numbered
    /\ CallTyped /\ CallOwned /\ TodoLegal /\ WrittenIsSaved /\ RecoveredSoFar
=============================================================================
