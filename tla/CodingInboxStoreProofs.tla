----------------------- MODULE CodingInboxStoreProofs ----------------------
(***************************************************************************)
(* Proofs about the inbox on disk, for any set of messages, branches and   *)
(* batches and any bounds: what is on disk can always be read, active      *)
(* records are the recovered owner's, and the inbox implements the         *)
(* promise of WorkLifecycle.                                               *)
(***************************************************************************)
EXTENDS CodingInboxStore, WellFoundedInduction, TLAPS

USE ConstantsAssumption

-----------------------------------------------------------------------------
(* The first record to be saved, and the next number. *)

\* A set of numbers that is not empty has a least member.
LEMMA LeastNumber ==
  ASSUME NEW S \in SUBSET Nat, S # {}
  PROVE  \E x \in S : \A y \in S : x <= y
<1>1. \E x \in S : \A y \in S : ~(<<y, x>> \in OpToRel(<, Nat))
  BY NatLessThanWellFounded, WFMin
<1>2. ASSUME NEW x \in S, NEW y \in S, ~(<<y, x>> \in OpToRel(<, Nat)) PROVE x <= y
  <2>1. OpToRel(<, Nat) = {ss \in Nat \X Nat : ss[1] < ss[2]}
    BY DEF OpToRel
  <2>2. <<y, x>> \in Nat \X Nat /\ <<y, x>>[1] = y /\ <<y, x>>[2] = x
    OBVIOUS
  <2>3. ~(y < x)
    BY <1>2, <2>1, <2>2
  <2> QED
    BY <2>3
<1> QED
  BY <1>1, <1>2

\* A set of numbers below a bound has a greatest one.
LEMMA GreatestNumber ==
  ASSUME NEW N \in Nat, NEW S \in SUBSET (0..N), S # {}
  PROVE  \E x \in S : \A y \in S : y <= x
<1> DEFINE T == {N - x : x \in S}
<1>1. T \in SUBSET Nat /\ T # {}
  <2>1. \A x \in S : N - x \in Nat
    OBVIOUS
  <2>2. PICK x \in S : TRUE
    OBVIOUS
  <2>3. N - x \in T
    OBVIOUS
  <2> QED
    BY <2>1, <2>3
<1>2. PICK t \in T : \A u \in T : t <= u
  BY <1>1, LeastNumber
<1>3. PICK x \in S : t = N - x
  OBVIOUS
<1>4. ASSUME NEW y \in S PROVE y <= x
  <2>1. N - y \in T
    OBVIOUS
  <2>2. N - x <= N - y
    BY <1>2, <1>3, <2>1
  <2> QED
    BY <2>2
<1> QED
  BY <1>4

\* The record a call saves next is one of those it has to save.
LEMMA FirstIsOne ==
  ASSUME NEW todo, DOMAIN todo # {}, \A m \in DOMAIN todo : todo[m].sequence \in Nat
  PROVE  First(todo) \in DOMAIN todo
<1> DEFINE S == {todo[m].sequence : m \in DOMAIN todo}
<1>1. S \in SUBSET Nat /\ S # {}
  OBVIOUS
<1>2. PICK x \in S : \A y \in S : x <= y
  BY <1>1, LeastNumber
<1>3. PICK m \in DOMAIN todo : x = todo[m].sequence
  OBVIOUS
<1>4. \A n \in DOMAIN todo : todo[m].sequence <= todo[n].sequence
  BY <1>2, <1>3
<1> QED
  BY <1>4 DEF First

LEMMA RestOf ==
  ASSUME NEW todo
  PROVE  /\ DOMAIN Rest(todo) = DOMAIN todo \ {First(todo)}
         /\ \A m \in DOMAIN Rest(todo) : Rest(todo)[m] = todo[m]
BY DEF Rest

\* The next number is greater than every number in use.
LEMMA NumberIsNew ==
  ASSUME TypeOK, Numbered
  PROVE  /\ NextSequence \in Nat /\ counter < NextSequence
         /\ \A m \in Stored : rows[m].sequence < NextSequence
<1> DEFINE used == {counter} \cup {rows[m].sequence : m \in Stored}
           top == CHOOSE n \in used : \A x \in used : x <= n
<1>1. used \in SUBSET (0..MaxSequence) /\ used # {}
  BY DEF TypeOK, Numbered, Record, Stored
<1>2. \E n \in used : \A x \in used : x <= n
  BY <1>1, GreatestNumber
<1>3. top \in used /\ \A x \in used : x <= top
  BY <1>2
<1>4. NextSequence = 1 + top
  BY DEF NextSequence
<1> HIDE DEF top
<1> QED
  BY <1>1, <1>3, <1>4

-----------------------------------------------------------------------------
(* The records. *)

LEMMA Absent == NoRecord \in Record /\ NoAttempt \in Attempt /\ FirstBranch \in Branches
<1>1. FirstBranch \in Branches
  BY DEF FirstBranch
<1> QED
  BY <1>1 DEF NoRecord, NoAttempt, Record, Attempt

\* What a record becomes keeps its type, its number and its branch.
LEMMA TransitionTyped ==
  ASSUME NEW r \in Record, NEW status \in Statuses
  PROVE  /\ Transition(r, status) \in Record
         /\ Transition(r, status).sequence = r.sequence
         /\ Transition(r, status).status = status
<1> DEFINE last == AttemptAfter(r, status)
           gen == IF status \in {"pending", "interrupted"} THEN 0 ELSE r.gen
           attempt == IF status = "pending" THEN 0 ELSE r.attempt
           batch == IF status = "pending" THEN NoBatch ELSE r.batch
<1>1. last \in Attempt
  <2>1. r.last \in Attempt /\ "cancelled" \in Statuses
    BY DEF Record, Statuses, RESOLVED
  <2>2. \A z \in Statuses : [r.last EXCEPT !.status = z] \in Attempt
    BY <2>1 DEF Attempt
  <2> QED
    BY <2>1, <2>2 DEF AttemptAfter
<1>2. gen \in Nat /\ attempt \in Nat /\ batch \in Batches \cup {NoBatch}
  BY DEF Record
<1>3. Transition(r, status) = [r EXCEPT !.status = status, !.last = last, !.gen = gen,
                                        !.attempt = attempt, !.batch = batch]
  BY DEF Transition
<1> HIDE DEF last, gen, attempt, batch
<1> QED
  BY <1>1, <1>2, <1>3 DEF Record

\* Claimed work that is given back can be read and is queued.
LEMMA GivenBack ==
  ASSUME NEW r \in Record, Readable(r), r.status = "claimed"
  PROVE  Successor(r, Transition(r, "pending"))
BY DEF Transition, AttemptAfter, Record, Attempt, Statuses, Active, RESOLVED,
       Successor, Readable, NextStage, Stage, Lifecycle!Moves

\* An execution whose owner is gone was interrupted.
LEMMA Interrupts ==
  ASSUME NEW r \in Record, Readable(r), r.status = "running"
  PROVE  Successor(r, Transition(r, "interrupted"))
BY DEF Transition, AttemptAfter, Record, Attempt, Statuses, Active, RESOLVED,
       Successor, Readable, NextStage, Stage, Lifecycle!Moves

LEMMA RecoveredLegal ==
  ASSUME NEW r \in Record, Readable(r), r.status \in Active
  PROVE  /\ Recovered(r) \in Record /\ Recovered(r).sequence = r.sequence
         /\ Successor(r, Recovered(r)) /\ Recovered(r).status \notin Active
<1>1. CASE r.status = "claimed"
  BY <1>1, GivenBack, TransitionTyped DEF Recovered, Statuses, Active
<1>2. CASE r.status = "running"
  BY <1>2, Interrupts, TransitionTyped DEF Recovered, Statuses, Active
<1> QED
  BY <1>1, <1>2 DEF Active

LEMMA ClaimedLegal ==
  ASSUME TypeOK, NEW r \in Record, Readable(r), r.status = "pending", r.branch = branch, owner # 0
  PROVE  /\ Claimed(r, owner) \in Record /\ Claimed(r, owner).sequence = r.sequence
         /\ Successor(r, Claimed(r, owner))
<1>1. owner \in Nat /\ branch \in Branches /\ r.attempts + 1 \in Nat
  BY DEF TypeOK, Record
<1>2. Claimed(r, owner) \in Record /\ Claimed(r, owner).sequence = r.sequence
  <2> DEFINE last == [gen |-> owner, branch |-> branch, status |-> "claimed", batch |-> NoBatch]
  <2>1. last \in Attempt
    BY <1>1 DEF Attempt, Statuses, Active
  <2> HIDE DEF last
  <2>2. [r EXCEPT !.status = "claimed", !.gen = owner, !.attempt = r.attempts + 1, !.batch = NoBatch,
                  !.attempts = r.attempts + 1, !.last = last] \in Record
    BY <1>1, <2>1 DEF Record, Statuses, Active
  <2> QED
    BY <2>2 DEF Claimed, last, Record
<1>3. Readable(Claimed(r, owner))
  BY <1>1 DEF Claimed, Record, Attempt, Active, RESOLVED, Readable
<1>4. NextStage(r, Claimed(r, owner))
  BY DEF Claimed, Record, Attempt, NextStage, Stage, Lifecycle!Moves, RESOLVED
<1>5. Claimed(r, owner).status = "claimed" /\ Claimed(r, owner).gen = owner
  BY <1>1 DEF Claimed, Record
<1> QED
  BY <1>2, <1>3, <1>4, <1>5 DEF Successor

LEMMA BegunLegal ==
  ASSUME NEW r \in Record, Readable(r), r.status = "claimed", r.gen = owner, NEW b \in Batches
  PROVE  /\ Begun(r, b) \in Record /\ Begun(r, b).sequence = r.sequence
         /\ Successor(r, Begun(r, b))
<1> DEFINE q == Begun(r, b)
           last == [r.last EXCEPT !.status = "running", !.batch = b]
<1>1. q = [r EXCEPT !.status = "running", !.batch = b, !.last = last]
  BY DEF Begun, Bound, Transition, AttemptAfter, Record, Attempt, Readable, Active
<1>a. /\ last \in Attempt /\ last.status = "running" /\ last.batch = b
      /\ last.gen = r.last.gen /\ last.branch = r.last.branch
  BY DEF Record, Attempt, Statuses, Active
<1> HIDE DEF last
<1>2. q \in Record /\ q.sequence = r.sequence
  BY <1>1, <1>a DEF Record, Statuses, Active
<1>3. /\ q.status = "running" /\ q.batch = b /\ q.gen = r.gen /\ q.attempt = r.attempt
      /\ q.attempts = r.attempts /\ q.branch = r.branch /\ q.last.status = "running"
      /\ q.last.batch = b /\ q.last.gen = r.last.gen /\ q.last.branch = r.last.branch
  BY <1>1, <1>a DEF Record
<1> HIDE DEF q
<1>4. Readable(q)
  BY <1>3 DEF Readable, Active, RESOLVED
<1>5. NextStage(r, q)
  BY <1>3 DEF NextStage, Stage, Lifecycle!Moves, RESOLVED
<1>6. Successor(r, q)
  BY <1>3, <1>4, <1>5 DEF Successor
<1> QED
  BY <1>2, <1>6 DEF q

LEMMA RetriedLegal ==
  ASSUME NEW r \in Record, Readable(r), r.status = "interrupted"
  PROVE  /\ Retried(r) \in Record /\ Retried(r).sequence = r.sequence
         /\ Successor(r, Retried(r))
BY DEF Retried, Record, Attempt, Statuses, Active, RESOLVED,
       Successor, Readable, NextStage, Stage, Lifecycle!Moves

LEMMA WithdrawnLegal ==
  ASSUME NEW r \in Record, Readable(r), r.status \in {"pending", "claimed"}
  PROVE  Successor(r, Transition(r, "cancelled"))
BY DEF Transition, AttemptAfter, Record, Attempt, Statuses, Active, RESOLVED,
       Successor, Readable, NextStage, Stage, Lifecycle!Moves

LEMMA SettledLegal ==
  ASSUME NEW r \in Record, Readable(r), r.status \in Active, NEW status \in RESOLVED,
         NEW b \in Batches \cup {NoBatch}
  PROVE  /\ Settled(r, status, b) \in Record /\ Settled(r, status, b).sequence = r.sequence
         /\ Successor(r, Settled(r, status, b))
<1> DEFINE bound == IF b = NoBatch THEN r ELSE Bound(r, b)
           outcome == IF r.status = "claimed" /\ status = "cancelled" THEN "pending" ELSE status
<1>1. /\ bound \in Record /\ bound.sequence = r.sequence /\ bound.status = r.status
      /\ bound.attempts = r.attempts /\ bound.attempt = r.attempt /\ bound.branch = r.branch
      /\ bound.last.branch = r.last.branch /\ bound.batch = bound.last.batch
  BY DEF Bound, Record, Attempt, Readable, Active
<1>2. /\ r.attempt # 0 /\ r.attempt = r.attempts /\ r.last.branch = r.branch
  BY DEF Readable, Record
<1>3. Settled(r, status, b) = Transition(bound, outcome)
  BY DEF Settled
<1>4. outcome \in Statuses /\ outcome \in RESOLVED \cup {"pending"}
      /\ (r.status = "running" => outcome # "pending")
  BY DEF Statuses, RESOLVED
<1> HIDE DEF bound, outcome
<1>5. Readable(Transition(bound, outcome))
  BY <1>1, <1>2, <1>4 DEF Transition, AttemptAfter, Record, Attempt, Readable, Active, RESOLVED
<1>6. Transition(bound, outcome) \in Record /\ Transition(bound, outcome).sequence = r.sequence
      /\ Transition(bound, outcome).status = outcome
  BY <1>1, <1>4, TransitionTyped
<1>7. NextStage(r, Transition(bound, outcome))
  BY <1>4, <1>6 DEF NextStage, Stage, Lifecycle!Moves, RESOLVED, Active
<1> QED
  BY <1>3, <1>4, <1>5, <1>6, <1>7 DEF Successor, Active, RESOLVED

-----------------------------------------------------------------------------
(* Steps that leave the files alone. *)

\* What the invariant says of the files and their owner.
FilesInv == TypeOK /\ InboxReadable /\ ActiveIsOwners /\ FilesKnown /\ Numbered
CallInv == CallTyped /\ CallOwned /\ TodoLegal /\ WrittenIsSaved /\ RecoveredSoFar

LEMMA TwoParts == IInv <=> FilesInv /\ CallInv
BY DEF IInv, FilesInv, CallInv

LEMMA FilesKept ==
  ASSUME FilesInv, UNCHANGED <<branch, files, owner, owners, ready>>, failures' \in 0..MaxFailures
  PROVE  FilesInv'
<1>1. TypeOK'
  BY DEF FilesInv, TypeOK, files
<1>2. InboxReadable' /\ ActiveIsOwners' /\ FilesKnown' /\ Numbered'
  BY DEF FilesInv, InboxReadable, ActiveIsOwners, FilesKnown, Numbered, Stored, files
<1> QED
  BY <1>1, <1>2 DEF FilesInv

\* A call by the owner begins: it takes the lock and knows what to save.
LEMMA CallBegins ==
  ASSUME IInv, UNCHANGED <<branch, files, owner, owners, ready>>, failures' \in 0..MaxFailures,
         NEW k \in Kinds \ (Ingress \cup {"none"}), NEW T, NEW C,
         call' = [kind |-> k, todo |-> T, claims |-> C, written |-> FALSE],
         owner # 0, k # "recover" => ready, k = "recover" => ~ready,
         DOMAIN T \subseteq Messages, DOMAIN C \subseteq Messages,
         \A m \in DOMAIN T :
            /\ T[m] \in Record /\ Successor(rows[m], T[m])
            /\ rows[m].status # "absent" /\ rows[m].sequence = T[m].sequence,
         k = "recover" => \A m \in Stored \ DOMAIN T :
                             rows[m].status \in Active => rows[m].gen = owner
  PROVE  IInv'
<1>1. FilesInv'
  BY TwoParts, FilesKept
<1>2. call'.kind = k /\ call'.todo = T /\ call'.claims = C /\ call'.written = FALSE
  OBVIOUS
<1>3. CallTyped'
  BY <1>2 DEF CallTyped, Ingress
<1>4. CallOwned'
  BY <1>2 DEF CallOwned, Ingress
<1>5. TodoLegal'
  <2>1. ASSUME NEW m \in DOMAIN T PROVE Successor(rows[m], T[m])'
    BY DEF Successor, files
  <2> QED
    BY <1>2, <2>1 DEF TodoLegal, Ingress, files
<1>6. WrittenIsSaved' /\ RecoveredSoFar'
  BY <1>2 DEF WrittenIsSaved, RecoveredSoFar, Stored, files
<1> QED
  BY <1>1, <1>3, <1>4, <1>5, <1>6, TwoParts, PTL DEF CallInv

\* The lock is free again: nothing is left to be saved.
LEMMA LockFreed ==
  ASSUME IInv, UNCHANGED <<branch, files, owners>>, call' = NoCall, failures' \in 0..MaxFailures,
         owner' \in 0..MaxOwners, ready' \in BOOLEAN,
         ready' => /\ owner' = owner /\ owner # 0
                   /\ \A m \in Stored : rows[m].status \in Active => rows[m].gen = owner
  PROVE  IInv'
<1>1. FilesInv'
  <2>1. TypeOK'
    BY DEF IInv, TypeOK, files
  <2>2. InboxReadable' /\ ActiveIsOwners' /\ FilesKnown' /\ Numbered'
    BY DEF IInv, InboxReadable, ActiveIsOwners, FilesKnown, Numbered, Stored, files
  <2> QED
    BY <2>1, <2>2 DEF FilesInv
<1>2. /\ call'.kind = "none" /\ call'.written = FALSE
      /\ call' = [kind |-> call'.kind, todo |-> call'.todo, claims |-> call'.claims,
                  written |-> call'.written]
      /\ DOMAIN call'.todo = {} /\ DOMAIN call'.claims = {}
  BY DEF NoCall, Nothing
<1>3. CallTyped' /\ CallOwned'
  BY <1>2 DEF CallTyped, CallOwned, Kinds, Ingress
<1>4. TodoLegal' /\ WrittenIsSaved' /\ RecoveredSoFar'
  BY <1>2 DEF TodoLegal, WrittenIsSaved, RecoveredSoFar
<1> QED
  BY <1>1, <1>3, <1>4, TwoParts, PTL DEF CallInv

-----------------------------------------------------------------------------
(* The calls. *)

\* What a call may rely on when it finds the lock free.
LEMMA Known ==
  ASSUME IInv, NEW m \in Messages
  PROVE  /\ rows[m] \in Record
         /\ rows[m].status # "absent" => Readable(rows[m])
         /\ ready => owner # 0
         /\ failures \in 0..MaxFailures
         /\ ready /\ rows[m].status \in Active => rows[m].gen = owner
BY DEF IInv, TypeOK, InboxReadable, ActiveIsOwners, CallOwned, Stored, Active

\* A record that is saved as it is.
LEMMA Unaltered ==
  ASSUME NEW r \in Record, Readable(r), r.status # "absent", r.status \in Active => r.gen = owner
  PROVE  Successor(r, r)
BY DEF Successor, NextStage

LEMMA EnqueueKeeps ==
  ASSUME IInv, NEW m \in Messages, Enqueue(m) PROVE IInv'
<1>a. PICK q : q = [NoRecord EXCEPT !.status = "pending", !.branch = branch,
                                    !.sequence = NextSequence]
  OBVIOUS
<1>b. PICK T : T = [x \in {m} |-> q]
  OBVIOUS
<1>1. call' = [kind |-> "sequence", todo |-> T, claims |-> Nothing, written |-> FALSE]
  BY <1>a, <1>b DEF Enqueue, Begin, NoCall
<1>2. /\ UNCHANGED <<branch, files, owner, owners, ready>> /\ UNCHANGED failures
      /\ m \notin Stored /\ NextSequence <= MaxSequence
  BY DEF Enqueue
<1>3. FilesInv'
  BY <1>2, TwoParts, FilesKept DEF FilesInv, TypeOK
<1>4. NextSequence \in Nat /\ \A x \in Stored : rows[x].sequence < NextSequence
  BY NumberIsNew DEF IInv
<1>5. /\ q \in Record /\ q.status = "pending" /\ q.sequence = NextSequence
      /\ q.gen = 0 /\ q.attempt = 0 /\ q.batch = NoBatch /\ q.attempts = 0
  <2>1. branch \in Branches
    BY DEF IInv, TypeOK
  <2> QED
    BY <1>a, <1>4, <2>1, Absent DEF Record, Statuses, NoRecord
<1>6. DOMAIN T = {m} /\ T[m] = q
  BY <1>b
<1>7. rows[m].status = "absent"
  BY <1>2 DEF Stored
<1>8. Readable(q)
  BY <1>5 DEF Readable, Active, RESOLVED
<1>9. NextStage(rows[m], q)
  BY <1>5, <1>7 DEF NextStage, Stage, Lifecycle!Moves, RESOLVED
<1>10. /\ call'.kind = "sequence" /\ call'.todo = T /\ call'.claims = Nothing /\ call'.written = FALSE
       /\ DOMAIN Nothing = {}
  BY <1>1 DEF Nothing
<1>11. CallTyped'
  BY <1>1, <1>5, <1>6, <1>10 DEF CallTyped, Kinds, Ingress
<1>12. CallOwned'
  BY <1>2, <1>10 DEF IInv, CallOwned, Ingress
<1>13. Successor(rows[m], q)'
  BY <1>2, <1>5, <1>8, <1>9 DEF Successor, Active, files
<1>14. NewRecord(m, q)'
  BY <1>2, <1>4, <1>5, <1>7 DEF NewRecord, Stored, files
<1>15. TodoLegal'
  BY <1>6, <1>10, <1>13, <1>14 DEF TodoLegal, Ingress
<1>16. WrittenIsSaved' /\ RecoveredSoFar'
  BY <1>10 DEF WrittenIsSaved, RecoveredSoFar
<1> QED
  BY <1>3, <1>11, <1>12, <1>15, <1>16, TwoParts, PTL DEF CallInv

LEMMA ReserveKeeps ==
  ASSUME IInv, NEW S \in SUBSET Messages, Reserve(S) PROVE IInv'
<1> DEFINE T == [m \in S |-> Claimed(rows[m], owner)]
<1>1. call' = [kind |-> "reserve", todo |-> T, claims |-> T, written |-> FALSE]
  BY DEF Reserve, NoCall
<1>2. UNCHANGED <<branch, files, owner, owners, ready>> /\ UNCHANGED failures /\ ready
  BY DEF Reserve, Owns
<1>3. owner # 0 /\ failures' \in 0..MaxFailures /\ TypeOK
  BY <1>2 DEF IInv, TypeOK, CallOwned
<1>4. ASSUME NEW m \in DOMAIN T
      PROVE  /\ T[m] \in Record /\ Successor(rows[m], T[m])
             /\ rows[m].status # "absent" /\ rows[m].sequence = T[m].sequence
  <2>1. m \in Messages /\ T[m] = Claimed(rows[m], owner)
    OBVIOUS
  <2>2. rows[m].status = "pending" /\ rows[m].branch = branch
    BY DEF Reserve
  <2> QED
    BY <1>3, <2>1, <2>2, Known, ClaimedLegal
<1>5. DOMAIN T \subseteq Messages
  OBVIOUS
<1>6. "reserve" \in Kinds \ (Ingress \cup {"none"})
  BY DEF Kinds, Ingress
<1> HIDE DEF T
<1> QED
  BY <1>1, <1>2, <1>3, <1>4, <1>5, <1>6, CallBegins

\* The other calls of a recovered owner keep no claims in hand.
LEMMA OwnerBegins ==
  ASSUME IInv, UNCHANGED <<branch, files, owner, owners, ready>>, UNCHANGED failures, ready,
         NEW k \in Kinds \ (Ingress \cup {"none", "recover"}), NEW T, Begin(k, T),
         DOMAIN T \subseteq Messages,
         \A m \in DOMAIN T :
            /\ T[m] \in Record /\ Successor(rows[m], T[m])
            /\ rows[m].status # "absent" /\ rows[m].sequence = T[m].sequence
  PROVE  IInv'
<1>1. call' = [kind |-> k, todo |-> T, claims |-> Nothing, written |-> FALSE]
  BY DEF Begin, NoCall
<1>2. DOMAIN Nothing \subseteq Messages
  BY DEF Nothing
<1>3. owner # 0 /\ failures' \in 0..MaxFailures
  BY DEF IInv, TypeOK, CallOwned
<1> QED
  BY <1>1, <1>2, <1>3, CallBegins

LEMMA BeginBatchKeeps ==
  ASSUME IInv, NEW S \in SUBSET Messages, NEW b \in Batches, BeginBatch(S, b) PROVE IInv'
<1> DEFINE T == [m \in S |-> Begun(rows[m], b)]
<1>1. /\ UNCHANGED <<branch, files, owner, owners, ready>> /\ UNCHANGED failures /\ ready
      /\ Begin("begin", T) /\ DOMAIN T \subseteq Messages
  BY DEF BeginBatch, Owns
<1>2. ASSUME NEW m \in DOMAIN T
      PROVE  /\ T[m] \in Record /\ Successor(rows[m], T[m])
             /\ rows[m].status # "absent" /\ rows[m].sequence = T[m].sequence
  <2>1. m \in Messages /\ T[m] = Begun(rows[m], b)
    OBVIOUS
  <2>2. rows[m].status = "claimed" /\ rows[m].gen = owner
    BY DEF BeginBatch
  <2> QED
    BY <2>1, <2>2, Known, BegunLegal
<1>3. "begin" \in Kinds \ (Ingress \cup {"none", "recover"})
  BY DEF Kinds, Ingress
<1> HIDE DEF T
<1> QED
  BY <1>1, <1>2, <1>3, OwnerBegins

LEMMA ReleaseKeeps ==
  ASSUME IInv, NEW S \in SUBSET Messages, ReleaseUnstarted(S) PROVE IInv'
<1> DEFINE T == [m \in S |-> Transition(rows[m], "pending")]
<1>1. /\ UNCHANGED <<branch, files, owner, owners, ready>> /\ UNCHANGED failures /\ ready
      /\ Begin("release", T) /\ DOMAIN T \subseteq Messages
  BY DEF ReleaseUnstarted, Owns
<1>2. ASSUME NEW m \in DOMAIN T
      PROVE  /\ T[m] \in Record /\ Successor(rows[m], T[m])
             /\ rows[m].status # "absent" /\ rows[m].sequence = T[m].sequence
  <2>1. m \in Messages /\ T[m] = Transition(rows[m], "pending") /\ "pending" \in Statuses
    BY DEF Statuses
  <2>2. rows[m].status = "claimed"
    BY DEF ReleaseUnstarted
  <2> QED
    BY <2>1, <2>2, Known, GivenBack, TransitionTyped
<1>3. "release" \in Kinds \ (Ingress \cup {"none", "recover"})
  BY DEF Kinds, Ingress
<1> HIDE DEF T
<1> QED
  BY <1>1, <1>2, <1>3, OwnerBegins

\* A call about one message.
LEMMA OneBegins ==
  ASSUME IInv, UNCHANGED <<branch, files, owner, owners, ready>>, UNCHANGED failures, ready,
         NEW k \in Kinds \ (Ingress \cup {"none", "recover"}), NEW m \in Messages, NEW q \in Record,
         Begin(k, [x \in {m} |-> q]), Successor(rows[m], q),
         rows[m].status # "absent", rows[m].sequence = q.sequence
  PROVE  IInv'
<1> DEFINE T == [x \in {m} |-> q]
<1>1. DOMAIN T = {m} /\ T[m] = q /\ Begin(k, T)
  OBVIOUS
<1> HIDE DEF T
<1> QED
  BY <1>1, OwnerBegins

LEMMA RetryKeeps ==
  ASSUME IInv, NEW m \in Messages, Retry(m) PROVE IInv'
<1>1. /\ UNCHANGED <<branch, files, owner, owners, ready>> /\ UNCHANGED failures /\ ready
      /\ Begin("retry", [x \in {m} |-> Retried(rows[m])]) /\ rows[m].status = "interrupted"
  BY DEF Retry, Owns
<1>2. "retry" \in Kinds \ (Ingress \cup {"none", "recover"})
  BY DEF Kinds, Ingress
<1> QED
  BY <1>1, <1>2, Known, RetriedLegal, OneBegins

LEMMA CancelPendingKeeps ==
  ASSUME IInv, NEW m \in Messages, CancelPending(m) PROVE IInv'
<1>1. /\ UNCHANGED <<branch, files, owner, owners, ready>> /\ UNCHANGED failures /\ ready
  BY DEF CancelPending, Owns
<1>2. "cancel" \in Kinds \ (Ingress \cup {"none", "recover"})
  BY DEF Kinds, Ingress
<1>3. CASE rows[m].status = "cancelled" /\ Begin("cancel", [x \in {m} |-> rows[m]])
  <2>1. Successor(rows[m], rows[m])
    BY <1>3, Known, Unaltered DEF Active
  <2> QED
    BY <1>1, <1>2, <1>3, <2>1, Known, OneBegins
<1>4. CASE /\ rows[m].status \in {"pending", "claimed"}
           /\ Begin("cancel", [x \in {m} |-> Transition(rows[m], "cancelled")])
  <2>1. "cancelled" \in Statuses
    BY DEF Statuses, RESOLVED
  <2> QED
    BY <1>1, <1>2, <1>4, <2>1, Known, WithdrawnLegal, TransitionTyped, OneBegins
<1> QED
  BY <1>3, <1>4 DEF CancelPending

LEMMA FinishKeeps ==
  ASSUME IInv, NEW m \in Messages, NEW status \in RESOLVED, NEW b \in Batches \cup {NoBatch},
         Finish(m, status, b)
  PROVE  IInv'
<1>1. /\ UNCHANGED <<branch, files, owner, owners, ready>> /\ UNCHANGED failures /\ ready
      /\ Begin("finish", [x \in {m} |-> Settled(rows[m], status, b)]) /\ rows[m].status \in Active
  BY DEF Finish, Owns
<1>2. "finish" \in Kinds \ (Ingress \cup {"none", "recover"}) /\ "absent" \notin Active
  BY DEF Kinds, Ingress, Active
<1>3. /\ Settled(rows[m], status, b) \in Record
      /\ Settled(rows[m], status, b).sequence = rows[m].sequence
      /\ Successor(rows[m], Settled(rows[m], status, b)) /\ rows[m].status # "absent"
  BY <1>1, <1>2, Known, SettledLegal
<1> QED
  BY <1>1, <1>2, <1>3, OneBegins

\* What a recovery or a retiring owner has to save, and what it need not.
LEMMA RecoverTodoLegal ==
  ASSUME IInv, NEW retiring \in BOOLEAN, retiring => ready
  PROVE  /\ DOMAIN RecoverTodo(retiring) \subseteq Messages
         /\ \A m \in DOMAIN RecoverTodo(retiring) :
               /\ RecoverTodo(retiring)[m] \in Record
               /\ Successor(rows[m], RecoverTodo(retiring)[m])
               /\ rows[m].status # "absent"
               /\ rows[m].sequence = RecoverTodo(retiring)[m].sequence
         /\ ~retiring => \A m \in Stored \ DOMAIN RecoverTodo(retiring) :
               rows[m].status \in Active => rows[m].gen = owner
<1> DEFINE stale == {m \in Stored : rows[m].status \in Active /\ Stale(rows[m], retiring)}
           astray == {m \in Stored : folder[m] # Folder(rows[m])}
           T == RecoverTodo(retiring)
<1>1. T = [m \in stale \cup astray |-> IF m \in stale THEN Recovered(rows[m]) ELSE rows[m]]
  BY DEF RecoverTodo
<1>2. DOMAIN T = stale \cup astray
  BY <1>1
<1>3. ASSUME NEW m \in DOMAIN T
      PROVE  /\ T[m] \in Record /\ Successor(rows[m], T[m])
             /\ rows[m].status # "absent" /\ rows[m].sequence = T[m].sequence
  <2>1. m \in Messages /\ rows[m].status # "absent"
    BY <1>2 DEF Stored
  <2>2. CASE m \in stale
    <3>1. T[m] = Recovered(rows[m]) /\ rows[m].status \in Active
      BY <1>1, <2>2
    <3> QED
      BY <2>1, <3>1, Known, RecoveredLegal
  <2>3. CASE m \notin stale
    <3>1. T[m] = rows[m]
      BY <1>1, <1>2, <2>3
    <3>2. rows[m].status \in Active => rows[m].gen = owner
      BY <2>1, <2>3, Known DEF Stale, Stored
    <3> QED
      BY <2>1, <3>1, <3>2, Known, Unaltered
  <2> QED
    BY <2>2, <2>3
<1>4. ASSUME ~retiring, NEW m \in Stored \ DOMAIN T, rows[m].status \in Active
      PROVE  rows[m].gen = owner
  BY <1>2, <1>4 DEF Stale
<1>5. DOMAIN T \subseteq Messages
  BY <1>2 DEF Stored
<1> HIDE DEF T
<1>6. QED
  BY <1>3, <1>4, <1>5 DEF T

LEMMA RecoverKeeps ==
  ASSUME IInv, Recover PROVE IInv'
<1>1. call' = [kind |-> "recover", todo |-> RecoverTodo(FALSE), claims |-> Nothing, written |-> FALSE]
  BY DEF Recover, Begin, NoCall
<1>2. /\ UNCHANGED <<branch, files, owner, owners, ready>> /\ failures' \in 0..MaxFailures
      /\ owner # 0 /\ ~ready
  BY DEF Recover, IInv, TypeOK
<1>3. "recover" \in Kinds \ (Ingress \cup {"none"}) /\ DOMAIN Nothing \subseteq Messages
  BY DEF Kinds, Ingress, Nothing
<1>4. FALSE \in BOOLEAN
  OBVIOUS
<1> QED
  BY <1>1, <1>2, <1>3, <1>4, RecoverTodoLegal, CallBegins

LEMMA RetireKeeps ==
  ASSUME IInv, Retire PROVE IInv'
<1>1. /\ UNCHANGED <<branch, files, owner, owners, ready>> /\ UNCHANGED failures /\ ready
      /\ Begin("retire", RecoverTodo(TRUE))
  BY DEF Retire, Owns
<1>2. "retire" \in Kinds \ (Ingress \cup {"none", "recover"}) /\ TRUE \in BOOLEAN
  BY DEF Kinds, Ingress
<1> QED
  BY <1>1, <1>2, RecoverTodoLegal, OwnerBegins

-----------------------------------------------------------------------------
(* Writing. *)

LEMMA FirstKnown ==
  ASSUME IInv, DOMAIN call.todo # {}
  PROVE  /\ First(call.todo) \in DOMAIN call.todo /\ First(call.todo) \in Messages
         /\ call.todo[First(call.todo)] \in Record
         /\ Successor(rows[First(call.todo)], call.todo[First(call.todo)])
<1>1. \A m \in DOMAIN call.todo : call.todo[m].sequence \in Nat
  BY DEF IInv, CallTyped, Record
<1>2. First(call.todo) \in DOMAIN call.todo
  BY <1>1, FirstIsOne
<1> QED
  BY <1>2 DEF IInv, CallTyped, TodoLegal

\* A record is saved, or given up by a rollback: the call goes on with the others.
LEMMA CallGoesOn ==
  ASSUME IInv, DOMAIN call.todo # {}, call.kind # "sequence", Saved, UNCHANGED <<owner, ready>>,
         \A x \in Messages : x # First(call.todo) => rows'[x] = rows[x],
         call.kind = "recover" => LET r == rows'[First(call.todo)]
                                  IN  r.status \in Active => r.gen = owner
  PROVE  CallInv'
<1>1. PICK m \in DOMAIN call.todo : m = First(call.todo)
  BY FirstKnown
<1>2. /\ call'.kind = call.kind /\ call'.todo = Rest(call.todo) /\ call'.claims = call.claims
      /\ call'.written = FALSE
      /\ call' = [kind |-> call'.kind, todo |-> call'.todo, claims |-> call'.claims,
                  written |-> call'.written]
  <2>1. call = [kind |-> call.kind, todo |-> call.todo, claims |-> call.claims,
                written |-> call.written]
    BY DEF IInv, CallTyped
  <2> QED
    BY <2>1 DEF Saved
<1>3. /\ DOMAIN Rest(call.todo) = DOMAIN call.todo \ {m}
      /\ \A x \in DOMAIN Rest(call.todo) : Rest(call.todo)[x] = call.todo[x]
  BY <1>1, RestOf
<1>4. CallTyped'
  BY <1>2, <1>3 DEF IInv, CallTyped
<1>5. CallOwned'
  <2>1. call.kind # "none"
    BY DEF IInv, CallOwned, NoCall, Nothing
  <2> QED
    BY <1>2, <2>1 DEF IInv, CallOwned
<1>6. TodoLegal'
  <2> SUFFICES ASSUME NEW x \in DOMAIN Rest(call.todo), NEW q, q = call.todo[x]
               PROVE  /\ Successor(rows[x], q)'
                      /\ call.kind \notin Ingress
                      /\ rows'[x].status # "absent" /\ rows'[x].sequence = q.sequence
    <3>1. \A x \in DOMAIN Rest(call.todo) : call'.todo[x] = call.todo[x]
      BY <1>2, <1>3
    <3> QED
      BY <1>2, <3>1 DEF TodoLegal, Successor
  <2>1. x \in DOMAIN call.todo /\ x # m /\ x \in Messages /\ rows'[x] = rows[x]
    BY <1>1, <1>3 DEF IInv, CallTyped
  <2>2. call.kind \notin Ingress
    BY <1>1, <2>1 DEF IInv, TodoLegal
  <2>3. /\ Successor(rows[x], q)
        /\ rows[x].status # "absent" /\ rows[x].sequence = q.sequence
    BY <2>1, <2>2 DEF IInv, TodoLegal
  <2> QED
    BY <2>1, <2>2, <2>3 DEF Successor
<1>7. WrittenIsSaved'
  BY <1>2 DEF WrittenIsSaved
<1>8. RecoveredSoFar'
  BY <1>1, <1>2, <1>3 DEF IInv, RecoveredSoFar, Stored
<1> QED
  BY <1>4, <1>5, <1>6, <1>7, <1>8 DEF CallInv

LEMMA SaveSequenceKeeps ==
  ASSUME IInv, SaveSequence PROVE IInv'
<1>1. PICK m \in DOMAIN call.todo : m = First(call.todo)
  BY FirstKnown DEF SaveSequence, IInv, CallTyped
<1>2. PICK q \in Record : q = call.todo[m]
  BY FirstKnown, <1>1
<1>3. /\ call.kind = "sequence" /\ counter' = q.sequence
      /\ UNCHANGED <<branch, rows, folder, owner, owners, ready, failures>>
      /\ call' = [kind |-> "enqueue", todo |-> call.todo, claims |-> call.claims,
                  written |-> call.written]
  BY <1>1, <1>2 DEF SaveSequence, IInv, CallTyped
<1>4. q.sequence <= MaxSequence /\ q.sequence \in Nat
  BY <1>2, <1>3 DEF IInv, TodoLegal, NewRecord, Ingress, Record
<1>5. FilesInv'
  <2>1. TypeOK' /\ Numbered'
    BY <1>3, <1>4 DEF IInv, TypeOK, Numbered, Stored
  <2>2. InboxReadable' /\ ActiveIsOwners' /\ FilesKnown'
    BY <1>3 DEF IInv, InboxReadable, ActiveIsOwners, FilesKnown, Stored
  <2> QED
    BY <2>1, <2>2 DEF FilesInv
<1>6. /\ call'.kind = "enqueue" /\ call'.todo = call.todo /\ call'.claims = call.claims
      /\ call'.written = call.written
  BY <1>3
<1>7. CallTyped' /\ CallOwned'
  BY <1>3, <1>6 DEF IInv, CallTyped, CallOwned, Kinds, Ingress
<1>8. TodoLegal'
  <2>1. ASSUME NEW x \in DOMAIN call.todo, NEW y, y = call.todo[x]
        PROVE  Successor(rows[x], y)' /\ NewRecord(x, y)' /\ DOMAIN call.todo = {x} /\ ~call.written
    <3>1. Successor(rows[x], y) /\ NewRecord(x, y) /\ DOMAIN call.todo = {x} /\ ~call.written
      BY <1>3, <2>1 DEF IInv, TodoLegal, Ingress
    <3> QED
      BY <1>3, <3>1 DEF Successor, NewRecord, Stored
  <2> QED
    BY <1>6, <2>1 DEF TodoLegal, Ingress
<1>9. WrittenIsSaved' /\ RecoveredSoFar'
  BY <1>3, <1>6 DEF IInv, WrittenIsSaved, RecoveredSoFar
<1> QED
  BY <1>5, <1>7, <1>8, <1>9, TwoParts, PTL DEF CallInv

\* What one record in its file does to the inbox.
LEMMA RecordSaved ==
  ASSUME IInv, NEW m \in Messages, NEW q \in Record, Successor(rows[m], q),
         rows' = [rows EXCEPT ![m] = q],
         folder' = [folder EXCEPT ![m] = IF @ = "none" THEN Folder(q) ELSE @],
         UNCHANGED <<branch, counter, owner, owners, ready, failures>>,
         \/ rows[m].status # "absent" /\ rows[m].sequence = q.sequence
         \/ NewRecord(m, q)
  PROVE  FilesInv'
<1>1. Folder(q) \in {"pending", "running", "terminal"}
  BY DEF Folder
<1>2. TypeOK'
  BY <1>1 DEF IInv, TypeOK
<1>3. /\ q.status # "absent" /\ Readable(q) /\ (q.status \in Active => q.gen = owner)
  BY DEF Successor
<1>4. rows'[m] = q /\ \A x \in Messages : x # m => rows'[x] = rows[x]
  BY DEF IInv, TypeOK
<1>5. Stored' = Stored \cup {m} /\ Stored \subseteq Messages
  BY <1>3, <1>4 DEF Stored
<1>6. q.sequence <= MaxSequence /\ \A x \in Stored : x # m => rows[x].sequence # q.sequence
  BY DEF IInv, InboxReadable, Numbered, NewRecord, Stored, Record, TypeOK
<1>7. InboxReadable'
  <2>1. ASSUME NEW x \in Stored' PROVE Readable(rows'[x])
    BY <1>3, <1>4, <1>5 DEF IInv, InboxReadable
  <2>2. ASSUME NEW x \in Stored', NEW y \in Stored', rows'[x].sequence = rows'[y].sequence
        PROVE  x = y
    BY <1>4, <1>5, <1>6, <2>2 DEF IInv, InboxReadable
  <2> QED
    BY <2>1, <2>2 DEF InboxReadable, Readable
<1>8. ActiveIsOwners' /\ Numbered'
  BY <1>3, <1>4, <1>5, <1>6 DEF IInv, ActiveIsOwners, Numbered
<1>9. FilesKnown'
  <2>1. folder'[m] # "none" /\ \A x \in Messages : x # m => folder'[x] = folder[x]
    BY <1>1 DEF IInv, TypeOK
  <2> QED
    BY <1>3, <1>4, <2>1 DEF IInv, FilesKnown
<1> QED
  BY <1>2, <1>7, <1>8, <1>9 DEF FilesInv

\* What WriteRecord writes: a successor of what was on disk.
LEMMA WriteOf ==
  ASSUME IInv, WriteRecord
  PROVE  \E m \in DOMAIN call.todo, q \in Record :
            /\ m = First(call.todo) /\ q = call.todo[m] /\ m \in Messages
            /\ Successor(rows[m], q)
            /\ \/ rows[m].status # "absent" /\ rows[m].sequence = q.sequence /\ call.kind \notin Ingress
               \/ NewRecord(m, q) /\ folder[m] = "none"
            /\ rows' = [rows EXCEPT ![m] = q]
            /\ folder' = [folder EXCEPT ![m] = IF @ = "none" THEN Folder(q) ELSE @]
            /\ IF folder[m] \in {"none", Folder(q)}
               THEN Saved ELSE call' = [call EXCEPT !.written = TRUE]
<1>1. DOMAIN call.todo # {}
  BY DEF WriteRecord, Saving
<1>2. PICK m \in DOMAIN call.todo : m = First(call.todo) /\ m \in Messages
  BY <1>1, FirstKnown
<1>3. PICK q \in Record : q = call.todo[m] /\ Successor(rows[m], q)
  BY <1>1, <1>2, FirstKnown
<1>4. \/ rows[m].status # "absent" /\ rows[m].sequence = q.sequence /\ call.kind \notin Ingress
      \/ NewRecord(m, q) /\ folder[m] = "none"
  BY <1>2, <1>3 DEF IInv, TodoLegal, NewRecord, FilesKnown
<1> QED
  BY <1>2, <1>3, <1>4 DEF WriteRecord

LEMMA WriteRecordKeeps ==
  ASSUME IInv, WriteRecord PROVE IInv'
<1>1. PICK m \in DOMAIN call.todo, q \in Record :
            /\ m = First(call.todo) /\ q = call.todo[m] /\ m \in Messages
            /\ Successor(rows[m], q)
            /\ \/ rows[m].status # "absent" /\ rows[m].sequence = q.sequence /\ call.kind \notin Ingress
               \/ NewRecord(m, q) /\ folder[m] = "none"
            /\ rows' = [rows EXCEPT ![m] = q]
            /\ folder' = [folder EXCEPT ![m] = IF @ = "none" THEN Folder(q) ELSE @]
            /\ IF folder[m] \in {"none", Folder(q)}
               THEN Saved ELSE call' = [call EXCEPT !.written = TRUE]
  BY WriteOf
<1>2. /\ UNCHANGED <<branch, counter, owner, owners, ready, failures>>
      /\ call.kind # "sequence" /\ DOMAIN call.todo # {}
  BY DEF WriteRecord, Saving
<1>3. FilesInv'
  BY <1>1, <1>2, RecordSaved
<1>4. /\ rows'[m] = q /\ \A x \in Messages : x # m => rows'[x] = rows[x]
      /\ q.status # "absent" /\ (q.status \in Active => q.gen = owner)
  BY <1>1 DEF IInv, TypeOK, Successor
<1>5. CASE folder[m] \in {"none", Folder(q)}
  <2>1. Saved /\ UNCHANGED <<owner, ready>>
    BY <1>1, <1>2, <1>5
  <2>2. CallInv'
    BY <1>1, <1>2, <1>4, <2>1, CallGoesOn
  <2> QED
    BY <1>3, <2>2, TwoParts, PTL
<1>6. CASE folder[m] \notin {"none", Folder(q)}
  <2>1. /\ call' = [kind |-> call.kind, todo |-> call.todo, claims |-> call.claims,
                    written |-> TRUE]
        /\ call.kind \notin Ingress
    BY <1>1, <1>6 DEF IInv, CallTyped
  <2>2. /\ call'.kind = call.kind /\ call'.todo = call.todo /\ call'.claims = call.claims
        /\ call'.written = TRUE
    BY <2>1
  <2>3. CallTyped'
    BY <2>1, <2>2 DEF IInv, CallTyped
  <2>4. CallOwned'
    <3>1. call.kind # "none"
      BY <1>2 DEF IInv, CallOwned, NoCall, Nothing
    <3> QED
      BY <1>2, <2>2, <3>1 DEF IInv, CallOwned
  <2>5. TodoLegal'
    <3>1. ASSUME NEW x \in DOMAIN call.todo, NEW y, y = call.todo[x]
          PROVE  Successor(rows[x], y)' /\ rows'[x].status # "absent" /\ rows'[x].sequence = y.sequence
      <4>1. x \in Messages /\ Successor(rows[x], y) /\ rows[x].status # "absent"
            /\ rows[x].sequence = y.sequence
        BY <2>1, <3>1 DEF IInv, TodoLegal, CallTyped
      <4>2. CASE x = m
        <5>1. rows'[x] = y
          BY <1>1, <1>4, <3>1, <4>2
        <5> QED
          BY <1>2, <4>1, <5>1 DEF Successor, NextStage
      <4>3. CASE x # m
        BY <1>2, <1>4, <4>1, <4>3 DEF Successor
      <4> QED
        BY <4>2, <4>3
    <3> QED
      BY <2>1, <2>2, <3>1 DEF TodoLegal
  <2>6. WrittenIsSaved'
    BY <1>1, <1>4, <2>2 DEF WrittenIsSaved
  <2>7. RecoveredSoFar'
    <3>1. \A x \in Stored' : x # m => x \in Stored
      BY <1>4 DEF Stored
    <3> QED
      BY <1>2, <1>4, <2>2, <3>1 DEF IInv, RecoveredSoFar, Stored
  <2> QED
    BY <1>3, <2>3, <2>4, <2>5, <2>6, <2>7, TwoParts, PTL DEF CallInv
<1> QED
  BY <1>5, <1>6

LEMMA MoveRecordKeeps ==
  ASSUME IInv, MoveRecord PROVE IInv'
<1>1. /\ Saved /\ UNCHANGED <<owner, ready>> /\ UNCHANGED <<branch, counter, rows, owners, failures>>
      /\ call.kind # "sequence" /\ DOMAIN call.todo # {} /\ call.written
  BY DEF MoveRecord, Saving
<1>2. PICK m \in DOMAIN call.todo : m = First(call.todo) /\ m \in Messages
  BY <1>1, FirstKnown
<1>3. PICK q : q = call.todo[m] /\ Successor(rows[m], q)
  BY <1>1, <1>2, FirstKnown
<1>4. rows[m] = q
  BY <1>1, <1>2, <1>3 DEF IInv, WrittenIsSaved
<1>5. folder' = [folder EXCEPT ![m] = Folder(q)] /\ Folder(q) \in {"pending", "running", "terminal"}
  BY <1>2, <1>3 DEF MoveRecord, Folder
<1>6. FilesInv'
  <2>1. TypeOK'
    BY <1>1, <1>5 DEF IInv, TypeOK
  <2>2. InboxReadable' /\ ActiveIsOwners' /\ Numbered'
    BY <1>1 DEF IInv, InboxReadable, ActiveIsOwners, Numbered, Stored
  <2>3. FilesKnown'
    <3>1. rows[m].status # "absent"
      BY <1>3, <1>4 DEF Successor
    <3>2. folder'[m] # "none" /\ \A x \in Messages : x # m => folder'[x] = folder[x]
      BY <1>2, <1>5 DEF IInv, TypeOK
    <3> QED
      BY <1>1, <3>1, <3>2 DEF IInv, FilesKnown
  <2> QED
    BY <2>1, <2>2, <2>3 DEF FilesInv
<1>7. rows'[m].status \in Active => rows'[m].gen = owner
  BY <1>1, <1>3, <1>4 DEF Successor
<1>8. CallInv'
  BY <1>1, <1>2, <1>7, CallGoesOn
<1> QED
  BY <1>6, <1>8, TwoParts, PTL

\* Giving up the lock leaves an owner and a readiness of their types.
LEMMA UnlockTyped ==
  ASSUME IInv, NEW ok \in BOOLEAN, Unlock(ok)
  PROVE  call' = NoCall /\ owner' \in 0..MaxOwners /\ ready' \in BOOLEAN
<1>1. owner \in 0..MaxOwners /\ 0 \in 0..MaxOwners
  BY DEF IInv, TypeOK
<1>2. ready \in BOOLEAN
  BY DEF IInv, TypeOK
<1>3. ready' = FALSE \/ ready' = TRUE \/ ready' = ready
  BY DEF Unlock
<1>4. owner' = 0 \/ owner' = owner
  BY DEF Unlock
<1>5. ready' \in BOOLEAN
  BY <1>2, <1>3
<1> QED
  BY <1>1, <1>4, <1>5 DEF Unlock

LEMMA ReturnKeeps ==
  ASSUME IInv, Return PROVE IInv'
<1>1. /\ UNCHANGED <<branch, files, owners>> /\ failures' \in 0..MaxFailures
      /\ Unlock(TRUE) /\ DOMAIN call.todo = {} /\ call.kind # "none"
  BY DEF Return, IInv, TypeOK
<1>2. call' = NoCall /\ owner' \in 0..MaxOwners /\ ready' \in BOOLEAN
  BY <1>1, UnlockTyped
<1>3. ready' => /\ owner' = owner /\ owner # 0
                /\ \A m \in Stored : rows[m].status \in Active => rows[m].gen = owner
  <2>1. CASE call.kind = "recover"
    BY <1>1, <2>1 DEF Unlock, IInv, CallOwned, RecoveredSoFar, Ingress
  <2>2. CASE call.kind # "recover"
    BY <1>1, <2>2 DEF Unlock, IInv, CallOwned, ActiveIsOwners
  <2> QED
    BY <2>1, <2>2
<1> QED
  BY <1>1, <1>2, <1>3, LockFreed

LEMMA SaveFailsKeeps ==
  ASSUME IInv, SaveFails PROVE IInv'
<1>1. /\ UNCHANGED <<branch, files, owners>> /\ failures' \in 0..MaxFailures
      /\ DOMAIN call.todo # {} /\ call.kind # "none"
  BY DEF SaveFails, IInv, TypeOK
<1>2. CASE call.kind = "reserve"
  <2> DEFINE published == {m \in DOMAIN call.claims :
                /\ rows[m].status = "claimed" /\ rows[m].gen = owner
                /\ rows[m].attempt = call.claims[m].attempt}
             T == RollbackTodo
  <2>1. T = [m \in published |-> Transition(rows[m], "pending")]
    BY DEF RollbackTodo
  <2>2. /\ call' = [kind |-> "rollback", todo |-> T, claims |-> Nothing, written |-> FALSE]
        /\ UNCHANGED <<owner, ready>>
    BY <1>2 DEF SaveFails, NoCall
  <2>3. DOMAIN T \subseteq Messages /\ DOMAIN Nothing \subseteq Messages /\ DOMAIN T = published
    BY <2>1 DEF IInv, CallTyped, Nothing
  <2>4. ASSUME NEW m \in DOMAIN T
        PROVE  /\ T[m] \in Record /\ Successor(rows[m], T[m])
               /\ rows[m].status # "absent" /\ rows[m].sequence = T[m].sequence
    <3>1. m \in Messages /\ T[m] = Transition(rows[m], "pending") /\ rows[m].status = "claimed"
          /\ "pending" \in Statuses
      BY <2>1, <2>3 DEF Statuses
    <3> QED
      BY <3>1, Known, GivenBack, TransitionTyped
  <2>5. "rollback" \in Kinds \ (Ingress \cup {"none"}) /\ owner # 0 /\ ready
    BY <1>2 DEF Kinds, Ingress, IInv, CallOwned
  <2>6. UNCHANGED <<branch, files, owner, owners, ready>>
    BY <1>1, <2>2
  <2> HIDE DEF T
  <2> QED
    BY <1>1, <2>2, <2>3, <2>4, <2>5, <2>6, CallBegins
<1>3. CASE call.kind = "rollback"
  <2>1. Saved /\ UNCHANGED <<owner, ready>>
    BY <1>3 DEF SaveFails
  <2>2. UNCHANGED <<branch, files, owner, owners, ready>>
    BY <1>1, <2>1
  <2>3. FilesInv'
    BY <1>1, <2>2, TwoParts, FilesKept
  <2>4. CallInv'
    <3>1. \A x \in Messages : x # First(call.todo) => rows'[x] = rows[x]
      BY <1>1 DEF files
    <3> QED
      BY <1>1, <1>3, <2>1, <3>1, CallGoesOn
  <2> QED
    BY <2>3, <2>4, TwoParts, PTL
<1>4. CASE call.kind \notin {"reserve", "rollback"}
  <2>1. Unlock(FALSE)
    BY <1>4 DEF SaveFails
  <2>2. call' = NoCall /\ owner' \in 0..MaxOwners /\ ready' \in BOOLEAN
    BY <2>1, UnlockTyped
  <2>3. ready' => /\ owner' = owner /\ owner # 0
                  /\ \A m \in Stored : rows[m].status \in Active => rows[m].gen = owner
    BY <2>1 DEF Unlock, IInv, CallOwned, ActiveIsOwners
  <2> QED
    BY <1>1, <2>2, <2>3, LockFreed
<1> QED
  BY <1>2, <1>3, <1>4

-----------------------------------------------------------------------------
(* The processes, and the theorems. *)

LEMMA AcquireKeeps ==
  ASSUME IInv, Acquire PROVE IInv'
<1>1. /\ owner = 0 /\ owner' \in 0..MaxOwners /\ owners' \in 0..MaxOwners /\ ~ready
      /\ UNCHANGED <<branch, files, call, ready, failures>>
      /\ call.kind \in Ingress \cup {"none"}
  BY DEF Acquire, IInv, TypeOK, CallOwned
<1>2. TypeOK'
  BY <1>1 DEF IInv, TypeOK, files
<1>3. InboxReadable' /\ ActiveIsOwners' /\ FilesKnown' /\ Numbered'
  BY <1>1 DEF IInv, InboxReadable, ActiveIsOwners, FilesKnown, Numbered, Stored, files
<1>4. CallTyped' /\ CallOwned' /\ WrittenIsSaved' /\ RecoveredSoFar'
  BY <1>1 DEF IInv, CallTyped, CallOwned, WrittenIsSaved, RecoveredSoFar, Ingress, files
<1>5. TodoLegal'
  <2>1. ASSUME NEW x \in DOMAIN call.todo, NEW y, y = call.todo[x]
        PROVE  Successor(rows[x], y)' /\ NewRecord(x, y)' /\ DOMAIN call.todo = {x} /\ ~call.written
               /\ call.kind \in Ingress
    <3>1. call.kind # "none"
      BY DEF IInv, CallOwned, NoCall, Nothing
    <3>2. Successor(rows[x], y) /\ NewRecord(x, y) /\ DOMAIN call.todo = {x} /\ ~call.written
      BY <1>1, <2>1, <3>1 DEF IInv, TodoLegal
    <3>3. y.status \notin Active
      BY <3>2 DEF NewRecord, Active
    <3> QED
      BY <1>1, <3>1, <3>2, <3>3 DEF Successor, NewRecord, Stored, files
  <2> QED
    BY <1>1, <2>1 DEF TodoLegal
<1> QED
  BY <1>2, <1>3, <1>4, <1>5 DEF IInv

LEMMA CrashKeeps ==
  ASSUME IInv, Crash PROVE IInv'
<1>1. /\ owner' = 0 /\ ready' = FALSE /\ UNCHANGED <<branch, files, owners, failures>>
      /\ failures' \in 0..MaxFailures /\ owner' \in 0..MaxOwners
  BY DEF Crash, IInv, TypeOK
<1>2. CASE call.kind \notin Ingress
  <2>1. call' = NoCall
    BY <1>2 DEF Crash
  <2> QED
    BY <1>1, <2>1, LockFreed
<1>3. CASE call.kind \in Ingress
  <2>1. call' = call
    BY <1>3 DEF Crash
  <2>2. TypeOK'
    BY <1>1 DEF IInv, TypeOK, files
  <2>3. InboxReadable' /\ ActiveIsOwners' /\ FilesKnown' /\ Numbered'
    BY <1>1 DEF IInv, InboxReadable, ActiveIsOwners, FilesKnown, Numbered, Stored, files
  <2>4. CallTyped' /\ CallOwned' /\ WrittenIsSaved' /\ RecoveredSoFar'
    BY <1>1, <1>3, <2>1
    DEF IInv, CallTyped, CallOwned, WrittenIsSaved, RecoveredSoFar, Ingress, files
  <2>5. TodoLegal'
    <3>1. ASSUME NEW x \in DOMAIN call.todo, NEW y, y = call.todo[x]
          PROVE  Successor(rows[x], y)' /\ NewRecord(x, y)' /\ DOMAIN call.todo = {x} /\ ~call.written
      <4>1. Successor(rows[x], y) /\ NewRecord(x, y) /\ DOMAIN call.todo = {x} /\ ~call.written
        BY <1>3, <3>1 DEF IInv, TodoLegal
      <4>2. y.status \notin Active
        BY <4>1 DEF NewRecord, Active
      <4> QED
        BY <1>1, <4>1, <4>2 DEF Successor, NewRecord, Stored, files
    <3> QED
      BY <1>3, <2>1, <3>1 DEF TodoLegal
  <2> QED
    BY <2>2, <2>3, <2>4, <2>5 DEF IInv
<1> QED
  BY <1>2, <1>3

LEMMA IngressDiesKeeps ==
  ASSUME IInv, IngressDies PROVE IInv'
<1>1. /\ UNCHANGED <<branch, files, owners>> /\ call' = NoCall /\ UNCHANGED <<owner, ready>>
      /\ failures' \in 0..MaxFailures /\ owner' \in 0..MaxOwners /\ ready' \in BOOLEAN
  BY DEF IngressDies, IInv, TypeOK
<1>2. ready' => /\ owner' = owner /\ owner # 0
                /\ \A m \in Stored : rows[m].status \in Active => rows[m].gen = owner
  BY <1>1 DEF IInv, CallOwned, ActiveIsOwners
<1> QED
  BY <1>1, <1>2, LockFreed

LEMMA NavigateKeeps ==
  ASSUME IInv, NEW b \in Branches, Navigate(b) PROVE IInv'
<1>1. /\ branch' \in Branches /\ call' = NoCall /\ owner' = owner /\ owner = 0
      /\ UNCHANGED <<files, call, owner, owners, ready, failures>>
  BY DEF Navigate, Free
<1>2. TypeOK'
  BY <1>1 DEF IInv, TypeOK, files
<1>3. InboxReadable' /\ ActiveIsOwners' /\ FilesKnown' /\ Numbered'
  BY <1>1 DEF IInv, InboxReadable, ActiveIsOwners, FilesKnown, Numbered, Stored, files
<1>4. CallTyped' /\ CallOwned' /\ WrittenIsSaved' /\ RecoveredSoFar'
  BY <1>1 DEF IInv, CallTyped, CallOwned, WrittenIsSaved, RecoveredSoFar, Stored, files
<1>5. TodoLegal'
  <2>1. DOMAIN call'.todo = {}
    BY <1>1 DEF NoCall, Nothing
  <2> QED
    BY <2>1 DEF TodoLegal
<1> QED
  BY <1>2, <1>3, <1>4, <1>5 DEF IInv

LEMMA InitKeeps == ASSUME Init PROVE IInv
<1>1. TypeOK
  <2>1. /\ branch \in Branches /\ counter \in Nat
        /\ rows \in [Messages -> Record]
        /\ folder \in [Messages -> {"none", "pending", "running", "terminal"}]
    BY Absent DEF Init
  <2>2. owner \in 0..MaxOwners /\ owners \in 0..MaxOwners /\ failures \in 0..MaxFailures
    BY ConstantsAssumption DEF Init
  <2>3. ready \in BOOLEAN
    BY DEF Init
  <2> QED
    BY <2>1, <2>2, <2>3 DEF TypeOK
<1>2. Stored = {}
  BY DEF Init, Stored, NoRecord
<1>3. InboxReadable /\ ActiveIsOwners /\ FilesKnown /\ Numbered
  BY <1>2 DEF Init, InboxReadable, ActiveIsOwners, FilesKnown, Numbered, NoRecord
<1>4. /\ call.kind = "none" /\ call.written = FALSE
      /\ call = [kind |-> call.kind, todo |-> call.todo, claims |-> call.claims,
                 written |-> call.written]
      /\ DOMAIN call.todo = {} /\ DOMAIN call.claims = {}
  BY DEF Init, NoCall, Nothing
<1>5. CallTyped /\ CallOwned
  BY <1>4 DEF Init, CallTyped, CallOwned, Kinds, Ingress
<1>6. TodoLegal /\ WrittenIsSaved /\ RecoveredSoFar
  BY <1>4 DEF TodoLegal, WrittenIsSaved, RecoveredSoFar
<1> QED
  BY <1>1, <1>3, <1>5, <1>6 DEF IInv

LEMMA NextKeeps == ASSUME IInv, [Next]_vars PROVE IInv'
<1>1. CASE Next
  <2>1. CASE \E m \in Messages : Enqueue(m) \/ Retry(m) \/ CancelPending(m)
    BY <2>1, EnqueueKeeps, RetryKeeps, CancelPendingKeeps
  <2>2. CASE \E m \in Messages, status \in RESOLVED, b \in Batches \cup {NoBatch} :
                Finish(m, status, b)
    BY <2>2, FinishKeeps
  <2>3. CASE \E S \in SUBSET Messages : Reserve(S) \/ ReleaseUnstarted(S)
    BY <2>3, ReserveKeeps, ReleaseKeeps
  <2>4. CASE \E S \in SUBSET Messages, b \in Batches : BeginBatch(S, b)
    BY <2>4, BeginBatchKeeps
  <2>5. CASE Recover \/ Retire
    BY <2>5, RecoverKeeps, RetireKeeps
  <2>6. CASE SaveSequence \/ WriteRecord \/ MoveRecord \/ Return \/ SaveFails
    BY <2>6, SaveSequenceKeeps, WriteRecordKeeps, MoveRecordKeeps, ReturnKeeps, SaveFailsKeeps
  <2>7. CASE Acquire \/ Crash \/ IngressDies
    BY <2>7, AcquireKeeps, CrashKeeps, IngressDiesKeeps
  <2>8. CASE \E b \in Branches : Navigate(b)
    BY <2>8, NavigateKeeps
  <2> QED
    BY <1>1, <2>1, <2>2, <2>3, <2>4, <2>5, <2>6, <2>7, <2>8 DEF Next
<1>2. CASE UNCHANGED vars
  <2>1. UNCHANGED <<branch, files, owner, owners, ready>> /\ failures' \in 0..MaxFailures
    BY <1>2 DEF vars, files, IInv, TypeOK
  <2>2. FilesInv'
    BY <2>1, TwoParts, FilesKept
  <2>3. CallInv'
    BY <1>2 DEF vars, IInv, CallInv, CallTyped, CallOwned, TodoLegal, WrittenIsSaved,
                RecoveredSoFar, Stored, Successor, NewRecord
  <2> QED
    BY <2>2, <2>3, TwoParts, PTL
<1> QED
  BY <1>1, <1>2

\* The inductive invariant of the inbox: what a call has still to save are legal
\* successors of what is on disk, wherever it dies.
THEOREM InboxInvariance == Spec => []IInv
BY InitKeeps, NextKeeps, PTL DEF Spec

\* _scan never refuses the inbox: every file can be read and no number is used
\* twice, after every crash, failed save, rollback and recovery.
THEOREM InboxAlwaysReadable == Spec => []InboxReadable
<1>1. IInv => InboxReadable
  BY DEF IInv
<1> QED
  BY <1>1, InboxInvariance, PTL

\* _recover leaves nothing in the hands of a generation that is gone, and no
\* later call does.
THEOREM ActiveAlwaysOwners == Spec => []ActiveIsOwners
<1>1. IInv => ActiveIsOwners
  BY DEF IInv
<1> QED
  BY <1>1, InboxInvariance, PTL


-----------------------------------------------------------------------------
(* The refinement of WorkLifecycle. *)

\* Only a written record changes a stage, and it is a successor of the record it
\* replaces: every step moves every message along the life cycle or not at all.
LEMMA EveryStepMoves ==
  ASSUME IInv, [Next]_vars, NEW m \in Messages
  PROVE  NextStage(rows[m], rows'[m])
<1>1. CASE WriteRecord
  <2>1. PICK x \in DOMAIN call.todo, q \in Record :
            /\ x = First(call.todo) /\ q = call.todo[x] /\ x \in Messages
            /\ Successor(rows[x], q)
            /\ \/ rows[x].status # "absent" /\ rows[x].sequence = q.sequence /\ call.kind \notin Ingress
               \/ NewRecord(x, q) /\ folder[x] = "none"
            /\ rows' = [rows EXCEPT ![x] = q]
            /\ folder' = [folder EXCEPT ![x] = IF @ = "none" THEN Folder(q) ELSE @]
            /\ IF folder[x] \in {"none", Folder(q)}
               THEN Saved ELSE call' = [call EXCEPT !.written = TRUE]
    BY <1>1, WriteOf
  <2>2. rows'[x] = q /\ (m # x => rows'[m] = rows[m])
    BY <2>1 DEF IInv, TypeOK
  <2> QED
    BY <2>1, <2>2 DEF Successor, NextStage
<1>2. CASE rows' = rows
  BY <1>2 DEF NextStage
<1>3. CASE ~WriteRecord /\ rows' # rows
  <2>1. \A x \in Messages, status \in RESOLVED, b \in Batches \cup {NoBatch} : ~Finish(x, status, b)
    BY <1>3 DEF Finish, files
  <2>2. \A x \in Messages : ~Enqueue(x) /\ ~Retry(x) /\ ~CancelPending(x)
    BY <1>3 DEF Enqueue, Retry, CancelPending, files
  <2>3. \A S \in SUBSET Messages : ~Reserve(S) /\ ~ReleaseUnstarted(S) /\
            \A b \in Batches : ~BeginBatch(S, b)
    BY <1>3 DEF Reserve, ReleaseUnstarted, BeginBatch, files
  <2>4. ~Recover /\ ~Retire /\ ~SaveSequence /\ ~MoveRecord /\ ~Return /\ ~SaveFails
    BY <1>3 DEF Recover, Retire, SaveSequence, MoveRecord, Return, SaveFails, files
  <2>5. ~Acquire /\ ~Crash /\ ~IngressDies /\ ~UNCHANGED vars /\ \A b \in Branches : ~Navigate(b)
    BY <1>3 DEF Acquire, Crash, IngressDies, Navigate, files, vars
  <2> QED
    BY <1>3, <2>1, <2>2, <2>3, <2>4, <2>5 DEF Next
<1> QED
  BY <1>1, <1>2, <1>3

LEMMA StageTyped ==
  ASSUME NEW r \in Record PROVE Stage(r) \in Lifecycle!Stages
BY DEF Record, Statuses, Active, RESOLVED, Stage, Lifecycle!Stages

\* The inbox implements WorkLifecycle: no crash, failed save, rollback or
\* recovery runs a message again that has begun, or forgets one that was accepted.
THEOREM InboxRefinesLifecycle == Spec => LifecycleSpec
<1>1. Init => Lifecycle!Init
  BY DEF Init, Lifecycle!Init, StageOf, Stage, NoRecord, RESOLVED
<1>2. IInv /\ IInv' /\ [Next]_vars => [Lifecycle!Next]_StageOf
  <2> SUFFICES ASSUME IInv, IInv', [Next]_vars PROVE Lifecycle!Next
    OBVIOUS
  <2>1. rows' \in [Messages -> Record]
    BY DEF IInv, TypeOK
  <2>2. StageOf' \in [Messages -> Lifecycle!Stages]
    BY <2>1, StageTyped DEF StageOf
  <2>3. ASSUME NEW m \in Messages, StageOf'[m] # StageOf[m]
        PROVE  <<StageOf[m], StageOf'[m]>> \in Lifecycle!Moves
    <3>1. StageOf[m] = Stage(rows[m]) /\ StageOf'[m] = Stage(rows'[m])
      BY DEF StageOf, Stage
    <3>2. NextStage(rows[m], rows'[m])
      BY EveryStepMoves
    <3> QED
      BY <2>3, <3>1, <3>2 DEF NextStage
  <2> QED
    BY <2>2, <2>3 DEF Lifecycle!Next
<1> QED
  BY <1>1, <1>2, InboxInvariance, PTL DEF Spec, LifecycleSpec, Lifecycle!Spec
=============================================================================
