---------------------- MODULE ClawOutputDeliveryProofs ----------------------
(***************************************************************************)
(* The delivery of outputs is an execution of the journal's specification, *)
(* no channel accepts an output twice, and the receipts are truthful: the  *)
(* proofs about ClawOutputDelivery, for any number of drains, scopes,      *)
(* chunks, restarts and disk failures.                                     *)
(***************************************************************************)
EXTENDS ClawOutputDelivery, WellFoundedInduction, TLAPS

(* Appending a row extends the table by it. *)
LEMMA SeqAppend ==
    ASSUME NEW S, NEW q \in Seq(S), NEW v \in S
    PROVE  /\ Append(q, v) \in Seq(S)
           /\ Len(Append(q, v)) = Len(q) + 1
           /\ DOMAIN Append(q, v) = DOMAIN q \cup {Len(q) + 1}
           /\ Append(q, v)[Len(q) + 1] = v
           /\ \A j \in DOMAIN q : Append(q, v)[j] = q[j]
  OBVIOUS

(* The rows of a table are numbered from 1. *)
LEMMA SeqDomain ==
    ASSUME NEW S, NEW q \in Seq(S)
    PROVE  DOMAIN q = 1..Len(q) /\ Len(q) \in Nat /\ 0 \notin DOMAIN q
  OBVIOUS

-----------------------------------------------------------------------------
(* The journal by itself: ClawOutputStore. *)

(* Replacing a member of a sequence keeps the sequence's type and length. *)
LEMMA SeqUpdate ==
    ASSUME NEW S, NEW q \in Seq(S), NEW k \in DOMAIN q, NEW v \in S
    PROVE  /\ [q EXCEPT ![k] = v] \in Seq(S)
           /\ Len([q EXCEPT ![k] = v]) = Len(q)
           /\ DOMAIN [q EXCEPT ![k] = v] = DOMAIN q
           /\ [q EXCEPT ![k] = v][k] = v
           /\ \A j \in DOMAIN q : j # k => [q EXCEPT ![k] = v][j] = q[j]
  OBVIOUS

(* Inserting a row leaves the others alone, whatever the new row is. *)
LEMMA SeqAppendKeeps ==
    ASSUME NEW S, NEW q \in Seq(S), NEW v, NEW j \in DOMAIN q
    PROVE  Append(q, v)[j] = q[j]
  OBVIOUS

-----------------------------------------------------------------------------
(* The rows of the tables have the declared shape and are numbered from 1. *)
LEMMA JournalTypes ==
    ASSUME Store!IInv
    PROVE  /\ outputs \in Seq(Store!OutputRow) /\ sends \in Seq(Store!SendRow)
           /\ \A i \in DOMAIN outputs : outputs[i] \in Store!OutputRow
           /\ \A x \in DOMAIN sends : sends[x] \in Store!SendRow
           /\ 0 \notin DOMAIN sends
           /\ origins \in [Origins -> Payloads \cup {Absent}]
  <1>1. outputs \in Seq(Store!OutputRow) /\ sends \in Seq(Store!SendRow)
        /\ origins \in [Origins -> Payloads \cup {Absent}]
    BY DEF Store!IInv, Store!TypeOK
  <1>2. \A i \in DOMAIN outputs : outputs[i] \in Store!OutputRow
    BY <1>1
  <1>3. \A x \in DOMAIN sends : sends[x] \in Store!SendRow
    BY <1>1
  <1> QED BY <1>1, <1>2, <1>3, SeqDomain

(* Initially the journal is empty, and valid. *)
LEMMA JournalInit == Store!Init => Store!IInv
  <1> SUFFICES ASSUME Store!Init PROVE Store!IInv
    OBVIOUS
  <1>1. outputs = <<>> /\ sends = <<>> /\ DOMAIN outputs = {} /\ DOMAIN sends = {}
    BY DEF Store!Init
  <1>2. outputs \in Seq(Store!OutputRow) /\ sends \in Seq(Store!SendRow)
    BY <1>1
  <1>3. open \in BOOLEAN /\ origins \in [Origins -> Payloads \cup {Absent}]
    BY DEF Store!Init
  <1> QED BY <1>1, <1>2, <1>3 DEF Store!IInv, Store!TypeOK, Store!Validate

(* Nothing the invariant speaks of depends on who holds the lease. *)
LEMMA JournalFrame ==
    ASSUME Store!IInv, open' \in BOOLEAN, UNCHANGED <<origins, outputs, sends>>
    PROVE  Store!IInv'
  <1>1. Store!TypeOK'
    BY DEF Store!IInv, Store!TypeOK
  <1>2. \A i \in DOMAIN outputs : Store!RowValid(i)'
    <2> TAKE i \in DOMAIN outputs
    <2>1. Store!RowValid(i) /\ Store!SendsOf(i)' = Store!SendsOf(i)
      BY DEF Store!IInv, Store!Validate, Store!SendsOf
    <2>2. outputs' = outputs /\ sends' = sends
      OBVIOUS
    <2> QED BY ONLY <2>1, <2>2 DEF Store!RowValid
  <1> QED BY <1>1, <1>2 DEF Store!IInv, Store!Validate

(* append: a row of a known origin that no send attempt names. *)
LEMMA JournalAppends ==
    ASSUME Store!IInv, NEW o \in Origins, NEW p \in Payloads, NEW n \in Ordinals, NEW t \in Texts,
           Store!AppendChunk(o, p, n, t)
    PROVE  Store!IInv'
  <1> DEFINE r == [origin |-> o, ordinal |-> n, text |-> t,
                   status |-> "pending", send |-> 0, error |-> ""]
             k == Len(outputs) + 1
  <1>1. /\ open' = open /\ sends' = sends /\ origins' = [origins EXCEPT ![o] = p]
        /\ outputs' = Append(outputs, r)
    BY DEF Store!AppendChunk
  <1>2. r \in Store!OutputRow /\ r.origin = o /\ r.status = "pending" /\ r.send = 0 /\ r.error = ""
    BY DEF Store!OutputRow, Store!States, Store!ErrorText
  <1> HIDE DEF r
  <1>3. /\ outputs' \in Seq(Store!OutputRow) /\ DOMAIN outputs' = DOMAIN outputs \cup {k}
        /\ k \notin DOMAIN outputs /\ outputs'[k] = r
        /\ \A j \in DOMAIN outputs : outputs'[j] = outputs[j]
    <2>1. outputs \in Seq(Store!OutputRow) /\ r \in Store!OutputRow /\ outputs' = Append(outputs, r)
      BY <1>1, <1>2, JournalTypes
    <2>2. k \notin DOMAIN outputs
      BY <2>1, SeqDomain
    <2> QED BY ONLY <2>1, <2>2, SeqAppend DEF k
  <1> HIDE DEF k
  <1>4. Store!TypeOK'
    BY <1>1, <1>3, JournalTypes DEF Store!IInv, Store!TypeOK
  <1>5. \A x \in DOMAIN sends : sends[x].out \in DOMAIN outputs
    BY DEF Store!IInv, Store!Validate
  <1>6. \A j : Store!SendsOf(j)' = Store!SendsOf(j)
    BY <1>1 DEF Store!SendsOf
  <1>7. Store!SendsOf(k) = {}
    BY <1>3, <1>5 DEF Store!SendsOf
  <1>8. \A j \in DOMAIN outputs' : origins'[outputs'[j].origin] # Absent /\ Store!RowValid(j)'
    <2> SUFFICES ASSUME NEW j \in DOMAIN outputs'
                 PROVE  origins'[outputs'[j].origin] # Absent /\ Store!RowValid(j)'
      OBVIOUS
    <2>1. CASE j = k
      BY <2>1, <1>1, <1>2, <1>3, <1>6, <1>7, JournalTypes, AbsentAssumption DEF Store!RowValid
    <2>2. CASE j \in DOMAIN outputs
      <3>1. origins[outputs[j].origin] # Absent /\ Store!RowValid(j)
        BY <2>2 DEF Store!IInv, Store!Validate
      <3>2. origins'[outputs'[j].origin] # Absent
        BY <2>2, <3>1, <1>1, <1>3, JournalTypes, AbsentAssumption DEF Store!OutputRow
      <3> QED BY <2>2, <3>1, <3>2, <1>1, <1>3, <1>6 DEF Store!RowValid
    <2> QED BY <2>1, <2>2, <1>3
  <1> QED BY <1>1, <1>3, <1>4, <1>5, <1>8 DEF Store!IInv, Store!Validate

(* cancel_pending: a pending and a cancelled row say the same of their sends. *)
LEMMA JournalCancels ==
    ASSUME Store!IInv, NEW s \in Scopes, NEW M \in SUBSET MessageIds, Store!CancelPending(s, M)
    PROVE  Store!IInv'
  <1> DEFINE new(r) == IF Store!Cancellable(s, M, r) THEN [r EXCEPT !.status = "cancelled"] ELSE r
  <1>1. /\ open' = open /\ sends' = sends /\ origins' = origins
        /\ outputs' = [i \in DOMAIN outputs |-> new(outputs[i])]
    BY DEF Store!CancelPending
  <1>2. \A i \in DOMAIN outputs :
          /\ new(outputs[i]) \in Store!OutputRow
          /\ new(outputs[i]).origin = outputs[i].origin
          /\ new(outputs[i]).send = outputs[i].send
          /\ new(outputs[i]).error = outputs[i].error
          /\ Store!SendState(new(outputs[i]).status) = Store!SendState(outputs[i].status)
          /\ outputs[i].status \in {"pending", "cancelled"} =>
                new(outputs[i]).status \in {"pending", "cancelled"}
    BY JournalTypes DEF Store!OutputRow, Store!States, Store!SendState, Store!Cancellable
  <1> HIDE DEF new
  <1>3. /\ outputs' \in Seq(Store!OutputRow) /\ DOMAIN outputs' = DOMAIN outputs
        /\ \A i \in DOMAIN outputs : outputs'[i] = new(outputs[i])
    <2>1. outputs \in Seq(Store!OutputRow)
      BY JournalTypes
    <2> QED BY <2>1, <1>1, <1>2
  <1>4. Store!TypeOK'
    BY <1>1, <1>3 DEF Store!IInv, Store!TypeOK
  <1>5. \A i : Store!SendsOf(i)' = Store!SendsOf(i)
    BY <1>1 DEF Store!SendsOf
  <1>6. \A i \in DOMAIN outputs : origins'[outputs'[i].origin] # Absent /\ Store!RowValid(i)'
    <2> TAKE i \in DOMAIN outputs
    <2>1. origins[outputs[i].origin] # Absent /\ Store!RowValid(i)
      BY DEF Store!IInv, Store!Validate
    <2> QED BY <2>1, <1>1, <1>2, <1>3, <1>5 DEF Store!RowValid
  <1> QED BY <1>1, <1>3, <1>4, <1>6 DEF Store!IInv, Store!Validate

(* begin: the new attempt is the last one; the earlier ones were not sent,     *)
(* because a pending row says so of its own.                                   *)
LEMMA JournalBegins ==
    ASSUME Store!IInv, NEW i \in DOMAIN outputs, Store!Begin(i)
    PROVE  Store!IInv'
  <1> DEFINE n == Len(sends) + 1
             r == [outputs[i] EXCEPT !.status = "sending", !.send = n, !.error = ""]
             a == [out |-> i, status |-> "sending", error |-> ""]
  <1>1. /\ open' = open /\ origins' = origins /\ outputs[i].status = "pending"
        /\ outputs' = [outputs EXCEPT ![i] = r] /\ sends' = Append(sends, a)
    BY DEF Store!Begin
  <1>2. /\ n \in Nat /\ n # 0 /\ n \notin DOMAIN sends /\ \A x \in DOMAIN sends : x < n
        /\ i \in Nat /\ outputs[i] \in Store!OutputRow
    BY JournalTypes, SeqDomain
  <1>3. a \in Store!SendRow /\ a.out = i /\ a.status = "sending" /\ a.error = ""
    BY <1>2 DEF Store!SendRow, Store!SendStates, Store!ErrorText
  <1> HIDE DEF a
  <1>5. /\ sends' \in Seq(Store!SendRow) /\ DOMAIN sends' = DOMAIN sends \cup {n}
        /\ sends'[n] = a /\ \A x \in DOMAIN sends : sends'[x] = sends[x]
    <2>1. sends \in Seq(Store!SendRow) /\ a \in Store!SendRow /\ sends' = Append(sends, a)
      BY <1>1, <1>3, JournalTypes
    <2> QED BY ONLY <2>1, SeqAppend DEF n
  <1> HIDE DEF n
  <1>4. /\ r \in Store!OutputRow /\ r.origin = outputs[i].origin /\ r.send = n
        /\ r.status = "sending" /\ r.error = ""
    BY <1>2 DEF Store!OutputRow, Store!States, Store!ErrorText
  <1> HIDE DEF r
  <1>6. /\ outputs' \in Seq(Store!OutputRow) /\ DOMAIN outputs' = DOMAIN outputs /\ outputs'[i] = r
        /\ \A j \in DOMAIN outputs : j # i => outputs'[j] = outputs[j]
    <2>1. outputs \in Seq(Store!OutputRow)
      BY JournalTypes
    <2> QED BY <2>1, <1>1, <1>4, SeqUpdate
  <1>7. Store!TypeOK'
    BY <1>1, <1>5, <1>6 DEF Store!IInv, Store!TypeOK
  <1>8. \A x \in Store!SendsOf(i) : sends[x].status = "not_sent"
    <2>1. Store!RowValid(i)
      BY DEF Store!IInv, Store!Validate
    <2> QED BY <2>1, <1>1 DEF Store!RowValid, Store!SendState
  <1>9. Store!SendsOf(i)' = Store!SendsOf(i) \cup {n} /\ \A j \in DOMAIN outputs : j # i => Store!SendsOf(j)' = Store!SendsOf(j)
    BY <1>2, <1>3, <1>5 DEF Store!SendsOf
  <1>10. \A j : Store!SendsOf(j) \subseteq DOMAIN sends
    BY DEF Store!SendsOf
  <1>11. \A j \in DOMAIN outputs' : origins'[outputs'[j].origin] # Absent /\ Store!RowValid(j)'
    <2> SUFFICES ASSUME NEW j \in DOMAIN outputs
                 PROVE  origins'[outputs'[j].origin] # Absent /\ Store!RowValid(j)'
      BY <1>6
    <2>1. origins[outputs[j].origin] # Absent /\ Store!RowValid(j)
      BY DEF Store!IInv, Store!Validate
    <2>2. CASE j = i
      <3>1. \A x \in Store!SendsOf(i)' \ {n} : x < n /\ sends'[x].status = "not_sent"
        BY <1>2, <1>5, <1>8, <1>9, <1>10
      <3>2. n \in Store!SendsOf(i)' /\ sends'[n].status = Store!SendState("sending") /\ sends'[n].error = ""
        BY <1>3, <1>5, <1>9 DEF Store!SendState
      <3> QED BY <2>1, <2>2, <3>1, <3>2, <1>1, <1>2, <1>4, <1>6 DEF Store!RowValid
    <2>3. CASE j # i
      <3>1. Store!SendsOf(j)' = Store!SendsOf(j) /\ outputs'[j] = outputs[j]
            /\ \A x \in Store!SendsOf(j) : sends'[x] = sends[x]
        BY <2>3, <1>5, <1>6, <1>9, <1>10
      <3>2. Store!RowValid(j)'
        BY ONLY <2>1, <3>1 DEF Store!RowValid
      <3>3. origins' = origins
        BY <1>1
      <3> QED BY <2>1, <3>1, <3>2, <3>3
    <2> QED BY <2>2, <2>3
  <1>12. \A x \in DOMAIN sends' : sends'[x].out \in DOMAIN outputs'
    <2>1. \A x \in DOMAIN sends : sends[x].out \in DOMAIN outputs
      BY DEF Store!IInv, Store!Validate
    <2> QED BY <2>1, <1>3, <1>5, <1>6
  <1> QED BY <1>7, <1>11, <1>12 DEF Store!IInv, Store!Validate

(* settle: the fence makes the attempt the current one of the row. *)
LEMMA JournalSettles ==
    ASSUME Store!IInv, NEW i \in DOMAIN outputs, NEW x \in DOMAIN sends,
           NEW error \in Errors \cup {""}, NEW status \in {"pending", "delivered", "unknown"},
           Store!Settle(i, x, status, error)
    PROVE  Store!IInv'
  <1> DEFINE r == [outputs[i] EXCEPT !.status = status, !.error = error]
             a == [sends[x] EXCEPT !.status = Store!SendState(status), !.error = error]
  <1>1. /\ open' = open /\ origins' = origins
        /\ outputs[i].status = "sending" /\ outputs[i].send = x /\ x # 0
        /\ outputs' = [outputs EXCEPT ![i] = r] /\ sends' = [sends EXCEPT ![x] = a]
    BY JournalTypes DEF Store!Settle, Store!Held
  <1>2. /\ r \in Store!OutputRow /\ r.origin = outputs[i].origin /\ r.send = x
        /\ r.status = status /\ r.error = error
    BY <1>1, JournalTypes DEF Store!OutputRow, Store!States, Store!ErrorText
  <1>3. /\ a \in Store!SendRow /\ a.out = sends[x].out /\ a.status = Store!SendState(status) /\ a.error = error
    BY JournalTypes DEF Store!SendRow, Store!SendStates, Store!ErrorText, Store!SendState
  <1> HIDE DEF r, a
  <1>4. /\ outputs' \in Seq(Store!OutputRow) /\ DOMAIN outputs' = DOMAIN outputs /\ outputs'[i] = r
        /\ \A j \in DOMAIN outputs : j # i => outputs'[j] = outputs[j]
    <2>1. outputs \in Seq(Store!OutputRow)
      BY JournalTypes
    <2> QED BY <2>1, <1>1, <1>2, SeqUpdate
  <1>5. /\ sends' \in Seq(Store!SendRow) /\ DOMAIN sends' = DOMAIN sends /\ sends'[x] = a
        /\ \A y \in DOMAIN sends : y # x => sends'[y] = sends[y]
    <2>1. sends \in Seq(Store!SendRow)
      BY JournalTypes
    <2> QED BY <2>1, <1>1, <1>3, SeqUpdate
  <1>6. Store!TypeOK'
    BY <1>1, <1>4, <1>5 DEF Store!IInv, Store!TypeOK
  <1>7. \A y \in DOMAIN sends : sends'[y].out = sends[y].out
    BY <1>3, <1>5
  <1>8. \A j : Store!SendsOf(j)' = Store!SendsOf(j) /\ Store!SendsOf(j) \subseteq DOMAIN sends
    BY <1>5, <1>7 DEF Store!SendsOf
  <1>9. \A j \in DOMAIN outputs' : origins'[outputs'[j].origin] # Absent /\ Store!RowValid(j)'
    <2> SUFFICES ASSUME NEW j \in DOMAIN outputs
                 PROVE  origins'[outputs'[j].origin] # Absent /\ Store!RowValid(j)'
      BY <1>4
    <2>1. origins[outputs[j].origin] # Absent /\ Store!RowValid(j) /\ Store!RowValid(i)
      BY DEF Store!IInv, Store!Validate
    <2>2. CASE j = i
      <3>1. /\ x \in Store!SendsOf(i)
            /\ \A y \in Store!SendsOf(i) \ {x} : y < x /\ sends[y].status = "not_sent"
        BY <2>1, <1>1 DEF Store!RowValid
      <3>2. \A y \in Store!SendsOf(i) \ {x} : y < x /\ sends'[y].status = "not_sent"
        BY <3>1, <1>5, <1>8
      <3>3. outputs'[i].send = x /\ outputs'[i].status = status /\ outputs'[i].error = error
            /\ sends'[x].status = Store!SendState(status) /\ sends'[x].error = error
        BY <1>2, <1>3, <1>4, <1>5
      <3>4. Store!RowValid(i)'
        BY ONLY <3>1, <3>2, <3>3, <1>1, <1>8 DEF Store!RowValid
      <3> QED BY <2>1, <2>2, <3>4, <1>1, <1>2, <1>4
    <2>3. CASE j # i
      <3>1. x \in Store!SendsOf(i) /\ x \notin Store!SendsOf(j)
        BY <2>1, <2>3, <1>1 DEF Store!RowValid, Store!SendsOf
      <3>2. outputs'[j] = outputs[j] /\ \A y \in Store!SendsOf(j) : sends'[y] = sends[y]
        BY <2>3, <3>1, <1>4, <1>5, <1>8
      <3>3. Store!SendsOf(j)' = Store!SendsOf(j) /\ Store!RowValid(j)
        BY <2>1, <1>8
      <3>4. Store!RowValid(j)'
        BY ONLY <3>2, <3>3 DEF Store!RowValid
      <3> QED BY <2>1, <3>2, <3>4, <1>1
    <2> QED BY <2>2, <2>3
  <1>10. \A y \in DOMAIN sends' : sends'[y].out \in DOMAIN outputs'
    BY <1>4, <1>5, <1>7 DEF Store!IInv, Store!Validate
  <1> QED BY <1>6, <1>9, <1>10 DEF Store!IInv, Store!Validate

(* Recovery at open relabels a row and its current attempt alike. *)
LEMMA JournalOpens ==
    ASSUME Store!IInv, Store!Open
    PROVE  Store!IInv'
  <1>1. /\ outputs' = [i \in DOMAIN outputs |-> Store!Recovered(outputs[i])]
        /\ sends' = [x \in DOMAIN sends |-> Store!Recovered(sends[x])]
        /\ open' \in BOOLEAN /\ origins' = origins
    BY DEF Store!Open
  <1>2. \A i \in DOMAIN outputs :
          /\ Store!Recovered(outputs[i]) \in Store!OutputRow
          /\ Store!Recovered(outputs[i]).origin = outputs[i].origin
          /\ Store!Recovered(outputs[i]).send = outputs[i].send
          /\ Store!Recovered(outputs[i]).status =
                IF outputs[i].status = "sending" THEN "unknown" ELSE outputs[i].status
          /\ Store!Recovered(outputs[i]).error =
                IF outputs[i].status = "sending" THEN Store!INTERRUPTED ELSE outputs[i].error
    BY JournalTypes DEF Store!Recovered, Store!OutputRow, Store!States, Store!ErrorText
  <1>3. \A x \in DOMAIN sends :
          /\ Store!Recovered(sends[x]) \in Store!SendRow
          /\ Store!Recovered(sends[x]).out = sends[x].out
          /\ Store!Recovered(sends[x]).status =
                IF sends[x].status = "sending" THEN "unknown" ELSE sends[x].status
          /\ Store!Recovered(sends[x]).error =
                IF sends[x].status = "sending" THEN Store!INTERRUPTED ELSE sends[x].error
    BY JournalTypes DEF Store!Recovered, Store!SendRow, Store!SendStates, Store!ErrorText
  <1>4. /\ outputs' \in Seq(Store!OutputRow) /\ DOMAIN outputs' = DOMAIN outputs
        /\ \A i \in DOMAIN outputs : outputs'[i] = Store!Recovered(outputs[i])
    <2>1. outputs \in Seq(Store!OutputRow)
      BY JournalTypes
    <2> QED BY <2>1, <1>1, <1>2
  <1>5. /\ sends' \in Seq(Store!SendRow) /\ DOMAIN sends' = DOMAIN sends
        /\ \A x \in DOMAIN sends : sends'[x] = Store!Recovered(sends[x])
    <2>1. sends \in Seq(Store!SendRow)
      BY JournalTypes
    <2> QED BY <2>1, <1>1, <1>3
  <1>6. Store!TypeOK'
    BY <1>1, <1>4, <1>5 DEF Store!IInv, Store!TypeOK
  <1>7. \A j : Store!SendsOf(j)' = Store!SendsOf(j) /\ Store!SendsOf(j) \subseteq DOMAIN sends
    BY <1>3, <1>5 DEF Store!SendsOf
  <1>8. \A j \in DOMAIN outputs : origins'[outputs'[j].origin] # Absent /\ Store!RowValid(j)'
    <2> TAKE j \in DOMAIN outputs
    <2>1. origins[outputs[j].origin] # Absent /\ Store!RowValid(j)
      BY DEF Store!IInv, Store!Validate
    <2>2. CASE outputs[j].send = 0
      BY <2>1, <2>2, <1>1, <1>2, <1>4, <1>7 DEF Store!RowValid
    <2>3. CASE outputs[j].send # 0
      <3>1. outputs[j].send \in DOMAIN sends
        BY <2>1, <2>3, <1>7 DEF Store!RowValid
      <3>2. /\ sends'[outputs[j].send].status = Store!SendState(outputs'[j].status)
            /\ sends'[outputs[j].send].error = outputs'[j].error
        <4>1. /\ sends[outputs[j].send].status = Store!SendState(outputs[j].status)
              /\ sends[outputs[j].send].error = outputs[j].error
          BY <2>1, <2>3 DEF Store!RowValid
        <4>2. outputs[j].status \in Store!States
          BY JournalTypes DEF Store!OutputRow
        <4>3. CASE outputs[j].status = "sending"
          BY <3>1, <4>1, <4>3, <1>2, <1>3, <1>4, <1>5 DEF Store!SendState
        <4>4. CASE outputs[j].status # "sending"
          <5>1. sends[outputs[j].send].status # "sending"
            BY <4>1, <4>2, <4>4 DEF Store!SendState
          <5> QED BY <3>1, <4>1, <4>4, <5>1, <1>2, <1>3, <1>4, <1>5
        <4> QED BY <4>3, <4>4
      <3>3. \A x \in Store!SendsOf(j) \ {outputs[j].send} :
               x < outputs[j].send /\ sends'[x].status = "not_sent"
        BY <2>1, <2>3, <1>3, <1>5, <1>7 DEF Store!RowValid
      <3> QED BY <2>1, <2>3, <3>2, <3>3, <1>1, <1>2, <1>4, <1>7 DEF Store!RowValid
    <2> QED BY <2>2, <2>3
  <1>9. \A x \in DOMAIN sends' : sends'[x].out \in DOMAIN outputs'
    BY <1>3, <1>4, <1>5 DEF Store!IInv, Store!Validate
  <1> QED BY <1>4, <1>6, <1>8, <1>9 DEF Store!IInv, Store!Validate

(* Every operation of the journal, recovery included, preserves the invariant. *)
LEMMA JournalSteps == Store!IInv /\ [Store!Next]_(Store!vars) => Store!IInv'
  <1> SUFFICES ASSUME Store!IInv, [Store!Next]_(Store!vars) PROVE Store!IInv'
    OBVIOUS
  <1>1. CASE Store!Open
    BY <1>1, JournalOpens
  <1>2. CASE Store!Close
    BY <1>2, JournalFrame DEF Store!Close
  <1>3. CASE \E o \in Origins, p \in Payloads, n \in Ordinals, t \in Texts : Store!AppendChunk(o, p, n, t)
    BY <1>3, JournalAppends
  <1>4. CASE \E s \in Scopes, M \in SUBSET MessageIds : Store!CancelPending(s, M)
    BY <1>4, JournalCancels
  <1>5. CASE \E i \in DOMAIN outputs : Store!Begin(i)
    BY <1>5, JournalBegins
  <1>6. CASE \E i \in DOMAIN outputs, x \in DOMAIN sends, error \in Errors \cup {""},
                status \in {"pending", "delivered", "unknown"} : Store!Settle(i, x, status, error)
    BY <1>6, JournalSettles
  <1>7. CASE UNCHANGED Store!vars
    BY <1>7, JournalFrame DEF Store!vars, Store!journal, Store!IInv, Store!TypeOK
  <1> QED BY <1>1, <1>2, <1>3, <1>4, <1>5, <1>6, <1>7 DEF Store!Next

(* The invariant holds throughout, for any number of origins and send attempts. *)
THEOREM JournalInvariance == Store!Spec => []Store!IInv
  <1> QED BY JournalInit, JournalSteps, PTL DEF Store!Spec

\* What ClawOutputStore calls the tables' invariant is the tables'.
LEMMA SameValidate == Store!Validate <=> Validate
BY DEF Store!Validate, Validate, Store!RowValid, RowValid, Store!SendState, SendState,
       Store!SendsOf, SendsOf

(* An output journal never refuses to open on what it wrote itself. *)
THEOREM OutputsAlwaysValid == Store!Spec => []OutputsValid
  <1>1. Store!IInv => OutputsValid
    BY SameValidate DEF Store!IInv, OutputsValid
  <1> QED BY <1>1, JournalInvariance, PTL

(* At most one send attempt of an output may have reached the transport. *)
THEOREM AtMostOneUncertainSend == Store!Spec => []OneUncertainSend
  <1>1. ASSUME Store!IInv PROVE OneUncertainSend
    <2> SUFFICES ASSUME NEW x \in DOMAIN sends, NEW y \in DOMAIN sends,
                        sends[x].out = sends[y].out,
                        sends[x].status # "not_sent", sends[y].status # "not_sent"
                 PROVE  x = y
      BY DEF OneUncertainSend
    <2>1. sends[x].out \in DOMAIN outputs
      BY <1>1 DEF Store!IInv, Store!Validate
    <2>2. /\ Store!RowValid(sends[x].out)
          /\ x \in Store!SendsOf(sends[x].out) /\ y \in Store!SendsOf(sends[x].out)
      BY <1>1, <2>1 DEF Store!IInv, Store!Validate, Store!SendsOf
    <2> QED BY <2>2 DEF Store!RowValid
  <1> QED BY <1>1, JournalInvariance, PTL

(* A delivered, unknown or cancelled output is never sent again nor            *)
(* relabelled, and what an output says and whom it answers never changes.      *)
LEMMA JournalFinal ==
    ASSUME Store!IInv, [Store!Next]_(Store!vars), NEW j \in DOMAIN outputs
    PROVE  /\ outputs[j].status \in {"delivered", "unknown", "cancelled"}
                 => outputs'[j] = outputs[j]
           /\ outputs'[j].origin = outputs[j].origin
           /\ outputs'[j].ordinal = outputs[j].ordinal
           /\ outputs'[j].text = outputs[j].text
           /\ origins'[outputs[j].origin] = origins[outputs[j].origin]
  <1>1. /\ outputs \in Seq(Store!OutputRow) /\ outputs[j] \in Store!OutputRow
        /\ origins \in [Origins -> Payloads \cup {Absent}]
        /\ \A i \in DOMAIN outputs : outputs[i] \in Store!OutputRow
    BY JournalTypes
  <1>2. origins[outputs[j].origin] # Absent
    BY DEF Store!IInv, Store!Validate
  <1>3. CASE Store!Open
    BY <1>1, <1>3 DEF Store!Open, Store!Recovered, Store!OutputRow
  <1>4. CASE \E o \in Origins, p \in Payloads, n \in Ordinals, t \in Texts : Store!AppendChunk(o, p, n, t)
    <2>1. PICK o \in Origins, p \in Payloads, n \in Ordinals, t \in Texts : Store!AppendChunk(o, p, n, t)
      BY <1>4
    <2>2. outputs'[j] = outputs[j]
      BY <1>1, <2>1, SeqAppendKeeps DEF Store!AppendChunk
    <2>3. origins'[outputs[j].origin] = origins[outputs[j].origin]
      BY <1>1, <1>2, <2>1 DEF Store!AppendChunk, Store!OutputRow
    <2> QED BY <2>2, <2>3
  <1>5. CASE \E s \in Scopes, M \in SUBSET MessageIds : Store!CancelPending(s, M)
    BY <1>1, <1>5 DEF Store!CancelPending, Store!Cancellable, Store!OutputRow
  <1>6. CASE \E i \in DOMAIN outputs : Store!Begin(i)
    <2>1. PICK i \in DOMAIN outputs : Store!Begin(i)
      BY <1>6
    <2>2. CASE i = j
      BY <1>1, <2>1, <2>2 DEF Store!Begin, Store!OutputRow
    <2>3. CASE i # j
      BY <1>1, <2>1, <2>3 DEF Store!Begin
    <2> QED BY <2>2, <2>3
  <1>7. CASE \E i \in DOMAIN outputs, x \in DOMAIN sends, error \in Errors \cup {""},
                status \in {"pending", "delivered", "unknown"} : Store!Settle(i, x, status, error)
    <2>1. PICK i \in DOMAIN outputs, x \in DOMAIN sends, error \in Errors \cup {""},
               status \in {"pending", "delivered", "unknown"} : Store!Settle(i, x, status, error)
      BY <1>7
    <2>2. CASE i = j
      BY <1>1, <2>1, <2>2 DEF Store!Settle, Store!Held, Store!OutputRow
    <2>3. CASE i # j
      BY <1>1, <2>1, <2>3 DEF Store!Settle
    <2> QED BY <2>2, <2>3
  <1>8. CASE Store!Close \/ UNCHANGED Store!vars
    BY <1>8 DEF Store!Close, Store!vars, Store!journal
  <1> QED BY <1>3, <1>4, <1>5, <1>6, <1>7, <1>8 DEF Store!Next

(* No operation, restart or stale send_id reopens a final output. *)
THEOREM FinalOutputsForever == Store!Spec => FinalForever
  <1>1. Store!IInv /\ [Store!Next]_(Store!vars) =>
          [\A i \in DOMAIN outputs :
              /\ outputs[i].status \in {"delivered", "unknown", "cancelled"}
                    => outputs'[i] = outputs[i]
              /\ outputs'[i].origin = outputs[i].origin
              /\ outputs'[i].ordinal = outputs[i].ordinal
              /\ outputs'[i].text = outputs[i].text
              /\ origins'[outputs[i].origin] = origins[outputs[i].origin]]_journal
    BY JournalFinal DEF Store!vars, Store!journal, journal
  <1> QED BY <1>1, JournalInvariance, PTL DEF Store!Spec, FinalForever

\* A step of the journal keeps it valid.
LEMMA JournalStaysValid ==
  ASSUME Store!TypeOK, Validate, [Store!Next]_journal
  PROVE  Store!TypeOK' /\ Validate'
<1>1. Store!IInv
  BY SameValidate DEF Store!IInv
<1>2. [Store!Next]_(Store!vars)
  BY DEF Store!vars, Store!journal, journal
<1>3. Store!IInv'
  BY <1>1, <1>2, JournalSteps
<1>4. Store!TypeOK' /\ Store!Validate'
  BY <1>3 DEF Store!IInv
<1>5. Store!Validate' <=> Validate'
  BY SameValidate, PTL
<1> QED
  BY <1>4, <1>5

-----------------------------------------------------------------------------
(* The tables, as the delivery reads them. *)

\* The tables hold rows, numbered from 1.
LEMMA Tables ==
  ASSUME Store!TypeOK
  PROVE  /\ open \in BOOLEAN /\ outputs \in Seq(OutputRow) /\ sends \in Seq(SendRow)
         /\ \A i \in DOMAIN outputs : outputs[i] \in OutputRow /\ i \in Nat
         /\ \A x \in DOMAIN sends : sends[x] \in SendRow /\ x \in Nat /\ x # 0
         /\ \A i \in DOMAIN outputs : ScopeOf[outputs[i].origin] \in Scopes
                                       /\ MessageOf[outputs[i].origin] \in MessageIds
<1>1. open \in BOOLEAN /\ outputs \in Seq(OutputRow) /\ sends \in Seq(SendRow)
  BY DEF Store!TypeOK, Store!OutputRow, OutputRow, Store!SendRow, SendRow, Store!States, States,
         Store!SendStates, SendStates, Store!ErrorText, ErrorText, Store!INTERRUPTED, INTERRUPTED
<1>2. \A i \in DOMAIN outputs : outputs[i] \in OutputRow /\ i \in Nat
  BY <1>1
<1>3. \A x \in DOMAIN sends : sends[x] \in SendRow /\ x \in Nat /\ x # 0
  BY <1>1
<1>4. \A i \in DOMAIN outputs : outputs[i].origin \in Origins
  BY <1>2 DEF OutputRow
<1> QED
  BY <1>1, <1>2, <1>3, <1>4, OriginsAssumption

\* A row that is being sent is being sent by its last attempt.
LEMMA SendingRow ==
  ASSUME Store!TypeOK, Validate, NEW i \in DOMAIN outputs, outputs[i].status = "sending"
  PROVE  outputs[i].send \in SendsOf(i) /\ sends[outputs[i].send].status = "sending"
BY DEF Validate, RowValid, SendState

\* A drain that has rows to visit is at the first of them.
LEMMA RowIsFirst ==
  ASSUME NEW d \in Drains, drain[d].todo \in SUBSET Nat, drain[d].todo # {}
  PROVE  Row(d) \in drain[d].todo
<1> DEFINE S == drain[d].todo
<1>1. \E x \in S : \A y \in S : ~(<<y, x>> \in OpToRel(<, Nat))
  BY NatLessThanWellFounded, WFMin
<1>2. ASSUME NEW x \in S, NEW y \in S, ~(<<y, x>> \in OpToRel(<, Nat)) PROVE ~(y < x)
  <2>1. OpToRel(<, Nat) = {ss \in Nat \X Nat : ss[1] < ss[2]}
    BY DEF OpToRel
  <2>2. <<y, x>> \in Nat \X Nat /\ <<y, x>>[1] = y /\ <<y, x>>[2] = x
    OBVIOUS
  <2> QED
    BY <1>2, <2>1, <2>2
<1>3. \A x, y \in S : ~(y < x) => x <= y
  OBVIOUS
<1>4. \E x \in S : \A y \in S : x <= y
  BY <1>1, <1>2, <1>3
<1> QED
  BY <1>4 DEF Row

-----------------------------------------------------------------------------
(* Drains beside each other. *)

\* What a drain that has row i still to visit relies on.
Kept(i) ==
    /\ i \in DOMAIN outputs'
    /\ outputs'[i].origin = outputs[i].origin
    /\ outputs'[i].status = "sending" <=> outputs[i].status = "sending"
    /\ outputs[i].status = "sending" => outputs'[i].send = outputs[i].send
    /\ \A x \in SendsOf(i) : x \in SendsOf(i)' /\ (x \in accepted' <=> x \in accepted)

\* A drain stays what it was, apart from a cancellation or its result.
SameDrain(e) ==
    /\ drain'[e].pc = drain[e].pc /\ drain'[e].scope = drain[e].scope
    /\ drain'[e].todo = drain[e].todo /\ drain'[e].x = drain[e].x
    /\ drain'[e].entered = drain[e].entered /\ drain'[e].outcome = drain[e].outcome

\* Drains of different lanes have no row in common.
LEMMA TodoDisjoint ==
  ASSUME IInv, NEW d \in Drains, NEW e \in Drains, d # e, NEW i \in drain[d].todo
  PROVE  i \notin drain[e].todo
BY DEF IInv, DrainInv, LaneHeld

\* The row of a drain that has one.
LEMMA RowFacts ==
  ASSUME IInv, NEW d \in Drains, drain[d].pc \notin {"off", "locking", "reading"}
  PROVE  /\ Row(d) \in drain[d].todo /\ Row(d) \in DOMAIN outputs /\ Row(d) \in Nat
         /\ outputs[Row(d)] \in OutputRow
         /\ drain[d].scope \in Scopes
         /\ ScopeOf[outputs[Row(d)].origin] = drain[d].scope
         /\ lane[drain[d].scope] = d
<1>1. drain[d] \in Drain /\ drain[d].todo \in SUBSET Nat /\ drain[d].scope \in Scopes /\ Store!TypeOK
  BY DEF IInv, TypeOK, Drain
<1>2. drain[d].todo # {}
  BY DEF IInv, DrainInv, LaneHeld
<1>3. Row(d) \in drain[d].todo
  BY <1>1, <1>2, RowIsFirst
<1>4. /\ Row(d) \in DOMAIN outputs /\ ScopeOf[outputs[Row(d)].origin] = drain[d].scope
      /\ lane[drain[d].scope] = d
  BY <1>3 DEF IInv, DrainInv, LaneHeld
<1> QED
  BY <1>1, <1>3, <1>4, Tables

\* What other actors do leaves a drain's invariant alone.
LEMMA DrainKept ==
  ASSUME IInv, NEW e \in Drains, SameDrain(e),
         drain[e].pc \notin {"off", "locking"} => lane'[drain[e].scope] = e,
         \A i \in drain[e].todo : Kept(i)
  PROVE  DrainInv(e)'
<1>1. Row(e)' = Row(e)
  BY DEF Row, SameDrain
<1>2. DrainInv(e) /\ Store!TypeOK /\ Validate
  BY DEF IInv, TypeOK
<1>3. LaneHeld(e)'
  BY <1>2 DEF DrainInv, LaneHeld, SameDrain, Kept
<1>4. drain[e].pc \notin {"off", "locking", "reading"} => Row(e) \in drain[e].todo
  BY RowFacts
<1>5. RowInHand(e)'
  <2>1. \A i \in drain[e].todo : outputs'[i].status = "sending" => i = Row(e) /\ drain[e].pc \in InHand
    BY <1>2 DEF DrainInv, RowInHand, Kept
  <2>2. drain[e].pc \in {"recheck", "withhold", "sending"} => outputs'[Row(e)].status = "sending"
    BY <1>2, <1>4 DEF DrainInv, RowInHand, Kept
  <2>3. drain[e].pc \in HasSend =>
          /\ drain[e].x \in SendsOf(Row(e))'
          /\ outputs'[Row(e)].status = "sending" => outputs'[Row(e)].send = drain[e].x
    <3>1. drain[e].pc \in HasSend => Row(e) \in drain[e].todo /\ drain[e].x \in SendsOf(Row(e))
      BY <1>2, <1>4 DEF DrainInv, RowInHand, HasSend
    <3>2. \A i \in drain[e].todo : i = Row(e)' /\ drain[e].x \in SendsOf(i) => drain[e].x \in SendsOf(Row(e))'
      BY DEF Kept
    <3>3. \A i \in drain[e].todo : drain[e].pc \in HasSend /\ i = Row(e) =>
            (outputs'[i].status = "sending" => outputs'[i].send = drain[e].x)
      BY <1>2 DEF DrainInv, RowInHand, Kept
    <3> QED
      BY <1>1, <3>1, <3>2, <3>3
  <2> QED
    BY <1>1, <2>1, <2>2, <2>3 DEF RowInHand, SameDrain
<1>6. OutcomeTrue(e)'
  <2>1. drain[e].pc \in HasSend => (drain[e].x \in accepted' <=> drain[e].x \in accepted)
    BY <1>2, <1>4 DEF DrainInv, RowInHand, Kept, HasSend
  <2>2. drain[e].pc = "rescue" /\ ~drain[e].entered /\ outputs'[Row(e)].status = "sending"
          => outputs'[Row(e)].send \notin accepted'
    <3>1. SUFFICES ASSUME drain[e].pc = "rescue", ~drain[e].entered, outputs'[Row(e)].status = "sending"
                   PROVE  outputs'[Row(e)].send \notin accepted'
      OBVIOUS
    <3>2. Row(e) \in drain[e].todo /\ Row(e) \in DOMAIN outputs
      BY <3>1, RowFacts
    <3>3. outputs[Row(e)].status = "sending" /\ outputs'[Row(e)].send = outputs[Row(e)].send
      BY <3>1, <3>2 DEF Kept
    <3>4. outputs[Row(e)].send \in SendsOf(Row(e))
      BY <1>2, <3>2, <3>3, SendingRow
    <3>5. outputs[Row(e)].send \notin accepted
      BY <1>2, <3>1, <3>3 DEF DrainInv, OutcomeTrue
    <3> QED
      BY <3>2, <3>3, <3>4, <3>5 DEF Kept
  <2> QED
    BY <1>1, <1>2, <2>1, <2>2 DEF DrainInv, OutcomeTrue, SameDrain, HasSend
<1> QED
  BY <1>3, <1>5, <1>6 DEF DrainInv

\* A drain that waits for its lane, or none.
LEMMA FreshDrain ==
  ASSUME NEW e \in Drains, drain'[e].pc \in {"off", "locking"}, drain'[e].todo = {}, ~drain'[e].entered
  PROVE  DrainInv(e)'
BY DEF DrainInv, LaneHeld, RowInHand, OutcomeTrue, HasSend

-----------------------------------------------------------------------------
(* One drain moves. *)

\* The drain d has moved, alone, to where its invariant holds.
Moved(d) ==
    /\ drain' \in [Drains -> Drain] /\ lane' \in [Scopes -> Drains \cup {Nobody}]
    /\ \A e \in Drains \ {d} : drain'[e] = drain[e]
    /\ \A s \in Scopes : lane[s] \in Drains \ {d} => lane'[s] = lane[s]
    /\ DrainInv(d)'

\* A row that is being sent after the step is another drain's, given up, or in
\* the hands of d.
Handed(d) ==
    \A i \in DOMAIN outputs' : outputs'[i].status = "sending" =>
        \/ i \in DOMAIN outputs /\ outputs[i].status = "sending" /\ i \notin drain[d].todo
        \/ i \in orphans'
        \/ lane'[ScopeOf[outputs'[i].origin]] = d /\ drain'[d].pc \in InHand /\ Row(d)' = i

\* So the others' invariants hold too.
LEMMA OthersKept ==
  ASSUME IInv, NEW d \in Drains, Moved(d),
         \A i \in DOMAIN outputs : Kept(i) \/ i \in drain[d].todo
  PROVE  \A e \in Drains : DrainInv(e)'
<1> SUFFICES ASSUME NEW e \in Drains, e # d PROVE DrainInv(e)'
  BY DEF Moved
<1>1. SameDrain(e)
  BY DEF Moved, SameDrain
<1>2. drain[e].pc \notin {"off", "locking"} => lane'[drain[e].scope] = e
  <2>1. drain[e].scope \in Scopes
    BY DEF IInv, TypeOK, Drain
  <2>2. drain[e].pc \notin {"off", "locking"} => lane[drain[e].scope] = e
    BY DEF IInv, DrainInv, LaneHeld
  <2> QED
    BY <2>1, <2>2 DEF Moved
<1>3. \A i \in drain[e].todo : Kept(i)
  <2>1. \A i \in drain[e].todo : i \in DOMAIN outputs
    BY DEF IInv, DrainInv, LaneHeld
  <2> QED
    BY <2>1, TodoDisjoint
<1> QED
  BY <1>1, <1>2, <1>3, DrainKept

\* And every row that is being sent has its owner.
LEMMA OwnedKept ==
  ASSUME IInv, NEW d \in Drains, Moved(d), Handed(d), open' => open,
         orphans \subseteq orphans',
         \A i \in DOMAIN outputs : outputs'[i].origin = outputs[i].origin
  PROVE  SendingIsOwned'
<1> SUFFICES ASSUME open, NEW i \in DOMAIN outputs', outputs'[i].status = "sending", i \notin orphans'
             PROVE  \E e \in Drains :
                      /\ lane'[ScopeOf[outputs'[i].origin]] = e
                      /\ drain'[e].pc \in InHand /\ Row(e)' = i
  BY DEF SendingIsOwned, InHand
<1>1. CASE lane'[ScopeOf[outputs'[i].origin]] = d /\ drain'[d].pc \in InHand /\ Row(d)' = i
  BY <1>1
<1>2. CASE i \in DOMAIN outputs /\ outputs[i].status = "sending" /\ i \notin drain[d].todo
  <2>1. PICK e \in Drains : /\ lane[ScopeOf[outputs[i].origin]] = e
                            /\ drain[e].pc \in InHand /\ Row(e) = i
    BY <1>2 DEF IInv, SendingIsOwned, InHand
  <2>2. Row(e) \in drain[e].todo
    BY <2>1, RowFacts DEF InHand
  <2>3. e # d
    BY <1>2, <2>1, <2>2
  <2>4. drain'[e] = drain[e] /\ Row(e)' = Row(e)
    BY <2>3 DEF Moved, Row
  <2>5. ScopeOf[outputs[i].origin] \in Scopes
    BY <1>2, Tables DEF IInv, TypeOK
  <2>6. lane'[ScopeOf[outputs[i].origin]] = e
    BY <2>1, <2>3, <2>5 DEF Moved
  <2> QED
    BY <1>2, <2>1, <2>4, <2>6
<1> QED
  BY <1>1, <1>2 DEF Handed

\* A step of one drain keeps the invariant when it keeps the receipts truthful.
LEMMA DrainMoves ==
  ASSUME IInv, NEW d \in Drains, Moved(d), Handed(d),
         [Store!Next]_journal, open' = open, UNCHANGED hostVars, failures' \in 0..MaxFailures,
         accepted' \subseteq DOMAIN sends', orphans \subseteq orphans', orphans' \subseteq DOMAIN outputs',
         \A i \in DOMAIN outputs : Kept(i) \/ i \in drain[d].todo,
         \A i \in DOMAIN outputs : outputs'[i].origin = outputs[i].origin,
         AttemptsTruthful'
  PROVE  IInv'
<1>1. Store!TypeOK' /\ Validate'
  BY JournalStaysValid DEF IInv, TypeOK
<1>2. TypeOK'
  BY <1>1 DEF IInv, TypeOK, Moved, hostVars
<1>3. \A e \in Drains : DrainInv(e)'
  BY OthersKept
<1>4. SendingIsOwned'
  BY OwnedKept
<1> QED
  BY <1>1, <1>2, <1>3, <1>4 DEF IInv

\* A row is kept when the journal is left alone, and so are the receipts.
LEMMA JournalAlone ==
  ASSUME IInv, UNCHANGED journal, accepted' = accepted
  PROVE  /\ \A i \in DOMAIN outputs : Kept(i)
         /\ AttemptsTruthful' /\ accepted' \subseteq DOMAIN sends'
BY DEF IInv, TypeOK, Kept, AttemptsTruthful, journal, SendsOf

\* A drain moves and leaves the journal alone: the row it had in hand stays in
\* its hands or is given up.
LEMMA DrainMovesAlone ==
  ASSUME IInv, NEW d \in Drains, Moved(d), UNCHANGED <<journal, accepted>>, UNCHANGED hostVars,
         failures' \in 0..MaxFailures, orphans' \in {orphans, orphans \cup {Row(d)}},
         drain[d].pc \in InHand \/ orphans' = orphans,
         \/ drain[d].pc \notin InHand
         \/ outputs[Row(d)].status # "sending"
         \/ Row(d) \in orphans'
         \/ /\ drain'[d].pc \in InHand /\ Row(d)' = Row(d)
            /\ lane'[drain[d].scope] = d
  PROVE  IInv'
<1>1. /\ \A i \in DOMAIN outputs : Kept(i)
      /\ AttemptsTruthful' /\ accepted' \subseteq DOMAIN sends'
  BY JournalAlone
<1>2. outputs' = outputs /\ open' = open /\ DOMAIN outputs' = DOMAIN outputs
  BY DEF journal
<1>3. drain[d].pc \in InHand => Row(d) \in DOMAIN outputs /\ ScopeOf[outputs[Row(d)].origin] = drain[d].scope
  BY RowFacts DEF InHand
<1>4. orphans \subseteq orphans' /\ orphans' \subseteq DOMAIN outputs'
  BY <1>2, <1>3 DEF IInv, TypeOK
<1>5. Handed(d)
  <2> SUFFICES ASSUME NEW i \in DOMAIN outputs, outputs[i].status = "sending", i \in drain[d].todo
               PROVE  \/ i \in orphans'
                      \/ lane'[ScopeOf[outputs[i].origin]] = d /\ drain'[d].pc \in InHand /\ Row(d)' = i
    BY <1>2 DEF Handed
  <2>1. i = Row(d) /\ drain[d].pc \in InHand
    BY DEF IInv, DrainInv, RowInHand
  <2> QED
    BY <1>3, <2>1
<1>6. [Store!Next]_journal
  OBVIOUS
<1> QED
  BY <1>1, <1>2, <1>4, <1>5, <1>6, DrainMoves

-----------------------------------------------------------------------------
(* The pieces that drains share. *)

\* The blank drain.
LEMMA BlankDrain ==
  /\ NoDrain \in Drain /\ NoDrain.pc = "off" /\ NoDrain.todo = {} /\ NoDrain.entered = FALSE
<1>1. (CHOOSE s \in Scopes : TRUE) \in Scopes
  BY ScopesAssumption
<1> QED
  BY <1>1 DEF NoDrain, Drain, Points

\* The drain ends and frees its lane.
LEMMA Leaves ==
  ASSUME IInv, NEW d \in Drains, NEW how \in {"returned", "cancelled", "raised"}, Leave(d, how)
  PROVE  Moved(d)
<1> DEFINE v == [NoDrain EXCEPT !.end = IF d \in joined THEN how ELSE "none"]
<1>1. v \in Drain /\ v.pc = "off" /\ v.todo = {} /\ v.entered = FALSE
  BY BlankDrain DEF Drain
<1>2. drain' = [drain EXCEPT ![d] = v]
      /\ lane' = [s \in Scopes |-> IF lane[s] = d THEN Nobody ELSE lane[s]]
  BY DEF Leave
<1> HIDE DEF v
<1>3. drain \in [Drains -> Drain] /\ lane \in [Scopes -> Drains \cup {Nobody}]
  BY DEF IInv, TypeOK
<1>4. drain'[d] = v /\ \A e \in Drains \ {d} : drain'[e] = drain[e]
  BY <1>2, <1>3
<1>5. DrainInv(d)'
  BY <1>1, <1>4, FreshDrain
<1> QED
  BY <1>1, <1>2, <1>3, <1>4, <1>5 DEF Moved

\* The drain turns to other rows of its lane, none of which is being sent.
LEMMA Visits ==
  ASSUME IInv, NEW d \in Drains, drain[d].pc \notin {"off", "locking"}, NEW rows \in SUBSET Nat,
         \A i \in rows : /\ i \in DOMAIN outputs' /\ outputs'[i].status # "sending"
                         /\ ScopeOf[outputs'[i].origin] = drain[d].scope,
         Visit(d, rows)
  PROVE  Moved(d)
<1> DEFINE v == [NoDrain EXCEPT !.pc = "policy", !.scope = drain[d].scope, !.todo = rows,
                                !.cancelling = drain[d].cancelling]
<1>1. drain \in [Drains -> Drain] /\ lane \in [Scopes -> Drains \cup {Nobody}] /\ drain[d] \in Drain
  BY DEF IInv, TypeOK
<1>2. CASE Leave(d, "returned")
  BY <1>2, Leaves
<1>3. CASE rows # {} /\ drain' = [drain EXCEPT ![d] = v] /\ UNCHANGED lane
  <2>1. /\ v \in Drain /\ v.pc = "policy" /\ v.scope = drain[d].scope /\ v.todo = rows
        /\ v.entered = FALSE
    BY <1>1, BlankDrain DEF Drain, Points
  <2> HIDE DEF v
  <2>2. drain'[d] = v /\ \A e \in Drains \ {d} : drain'[e] = drain[e]
    BY <1>1, <1>3
  <2>3. lane[drain[d].scope] = d
    BY DEF IInv, DrainInv, LaneHeld
  <2>4. LaneHeld(d)'
    BY <1>3, <2>1, <2>2, <2>3 DEF LaneHeld
  <2>5. RowInHand(d)' /\ OutcomeTrue(d)'
    BY <2>1, <2>2 DEF RowInHand, OutcomeTrue, HasSend
  <2> QED
    BY <1>1, <1>3, <2>1, <2>2, <2>4, <2>5 DEF Moved, DrainInv
<1> QED
  BY <1>2, <1>3 DEF Visit

\* What the next state must say of the row r of a drain that becomes v.
Fits(v, r) ==
    /\ \A i \in v.todo : outputs'[i].status = "sending" => i = r /\ v.pc \in InHand
    /\ v.pc \in {"recheck", "withhold", "sending"} => outputs'[r].status = "sending"
    /\ v.pc \in HasSend =>
          /\ v.x \in DOMAIN sends' /\ sends'[v.x].out = r
          /\ outputs'[r].status = "sending" => outputs'[r].send = v.x
    /\ v.pc \in {"recheck", "withhold", "cancelSent"} => v.x \notin accepted'
    /\ v.pc \in {"settle", "rescueSettle"} =>
          /\ v.outcome \in {"pending", "delivered", "unknown"}
          /\ v.outcome = "delivered" => v.x \in accepted'
          /\ v.outcome = "pending" => v.x \notin accepted'
    /\ v.pc = "rescue" /\ ~v.entered /\ outputs'[r].status = "sending" => outputs'[r].send \notin accepted'
    /\ v.pc = "sending" => v.entered
    /\ v.entered => v.pc \in {"sending", "settle", "rescue", "rescueSettle"}

\* A drain goes on with the same rows in the same lane.
LEMMA InPlace ==
  ASSUME IInv, NEW d \in Drains, drain[d].pc \notin {"off", "locking", "reading"}, NEW v \in Drain,
         v.pc \notin {"off", "locking", "reading"}, v.scope = drain[d].scope, v.todo = drain[d].todo,
         drain' = [drain EXCEPT ![d] = v], lane' = lane,
         \A i \in drain[d].todo : i \in DOMAIN outputs' /\ outputs'[i].origin = outputs[i].origin,
         Fits(v, Row(d))
  PROVE  Moved(d) /\ Row(d)' = Row(d) /\ drain'[d] = v /\ lane'[drain[d].scope] = d
<1>1. drain \in [Drains -> Drain] /\ lane \in [Scopes -> Drains \cup {Nobody}]
  BY DEF IInv, TypeOK
<1>2. drain'[d] = v /\ \A e \in Drains \ {d} : drain'[e] = drain[e]
  BY <1>1
<1>3. Row(d)' = Row(d)
  BY <1>2 DEF Row
<1>4. lane[drain[d].scope] = d /\ drain[d].todo # {}
      /\ \A i \in drain[d].todo : ScopeOf[outputs[i].origin] = drain[d].scope
  BY DEF IInv, DrainInv, LaneHeld
<1>5. LaneHeld(d)'
  BY <1>2, <1>4 DEF LaneHeld
<1>6. RowInHand(d)'
  BY <1>2, <1>3 DEF RowInHand, Fits, SendsOf
<1>7. OutcomeTrue(d)'
  BY <1>2, <1>3 DEF OutcomeTrue, Fits
<1> QED
  BY <1>1, <1>2, <1>3, <1>4, <1>5, <1>6, <1>7 DEF Moved, DrainInv

\* Where a drain is, written out.
LEMMA Here ==
  ASSUME IInv, NEW d \in Drains
  PROVE  /\ drain[d] \in Drain /\ drain \in [Drains -> Drain] /\ lane \in [Scopes -> Drains \cup {Nobody}]
         /\ drain[d].todo \in SUBSET Nat
         /\ Store!TypeOK /\ Validate /\ failures \in 0..MaxFailures
         /\ LaneHeld(d) /\ RowInHand(d) /\ OutcomeTrue(d)
BY DEF IInv, TypeOK, DrainInv, Drain

\* The same when the step is the drain's own.
LEMMA StepsInPlace ==
  ASSUME IInv, NEW d \in Drains, drain[d].pc \notin {"off", "locking", "reading"}, NEW v \in Drain,
         v.pc \notin {"off", "locking", "reading"}, v.scope = drain[d].scope, v.todo = drain[d].todo,
         drain' = [drain EXCEPT ![d] = v], lane' = lane, UNCHANGED <<journal, accepted>>,
         UNCHANGED hostVars, failures' \in 0..MaxFailures, orphans' = orphans,
         drain[d].pc \in InHand /\ outputs[Row(d)].status = "sending" => v.pc \in InHand,
         Fits(v, Row(d))
  PROVE  IInv'
<1>1. \A i \in drain[d].todo : i \in DOMAIN outputs' /\ outputs'[i].origin = outputs[i].origin
  BY DEF IInv, DrainInv, LaneHeld, journal
<1>2. Moved(d) /\ Row(d)' = Row(d) /\ drain'[d] = v /\ lane'[drain[d].scope] = d
  BY <1>1, InPlace
<1> QED
  BY <1>2, DrainMovesAlone

-----------------------------------------------------------------------------
(* The steps of a drain that leave the journal alone. *)

LEMMA LockStep ==
  ASSUME IInv, NEW d \in Drains, Lock(d)
  PROVE  IInv'
<1>1. /\ drain[d].pc = "locking" /\ UNCHANGED <<journal, accepted, orphans, failures>> /\ UNCHANGED hostVars
  BY DEF Lock, At
<1>2. Moved(d)
  <2>1. CASE drain[d].cancelling
    BY <2>1, Leaves DEF Lock
  <2>2. CASE ~drain[d].cancelling
    <3> DEFINE s == drain[d].scope
               v == [drain[d] EXCEPT !.pc = "reading"]
    <3>1. /\ lane[s] = Nobody /\ lane' = [lane EXCEPT ![s] = d] /\ drain' = [drain EXCEPT ![d] = v]
      BY <2>2 DEF Lock
    <3>2. v \in Drain /\ v.pc = "reading" /\ v.scope = s /\ v.todo = {} /\ v.entered = FALSE /\ s \in Scopes
      BY <1>1, Here DEF Drain, Points, LaneHeld, OutcomeTrue
    <3> HIDE DEF v
    <3>3. drain'[d] = v /\ \A e \in Drains \ {d} : drain'[e] = drain[e]
      BY <3>1, Here
    <3>4. lane' \in [Scopes -> Drains \cup {Nobody}] /\ lane'[s] = d
          /\ \A z \in Scopes : lane[z] \in Drains => lane'[z] = lane[z]
      BY <3>1, <3>2, Here, NobodyAssumption
    <3>5. DrainInv(d)'
      BY <3>2, <3>3, <3>4 DEF DrainInv, LaneHeld, RowInHand, OutcomeTrue, HasSend
    <3>6. drain' \in [Drains -> Drain]
      BY <3>1, <3>2, Here
    <3> QED
      BY <3>3, <3>4, <3>5, <3>6 DEF Moved
  <2> QED
    BY <2>1, <2>2
<1> QED
  BY <1>1, <1>2, Here, DrainMovesAlone DEF InHand

LEMMA ReadStep ==
  ASSUME IInv, NEW d \in Drains, Read(d)
  PROVE  IInv'
<1>1. /\ drain[d].pc = "reading" /\ UNCHANGED <<journal, accepted, orphans, failures>> /\ UNCHANGED hostVars
  BY DEF Read, At
<1>2. Moved(d)
  <2>1. CASE drain[d].cancelling
    BY <2>1, Leaves DEF Read
  <2>2. CASE ~drain[d].cancelling
    <3> DEFINE rows == Snapshot(drain[d].scope)
    <3>1. Visit(d, rows)
      BY <2>2 DEF Read
    <3>2. rows \in SUBSET Nat
      BY Here, Tables DEF Snapshot
    <3>3. \A i \in rows : /\ i \in DOMAIN outputs' /\ outputs'[i].status # "sending"
                          /\ ScopeOf[outputs'[i].origin] = drain[d].scope
      BY <1>1 DEF Snapshot, IsPendingOf, journal
    <3> HIDE DEF rows
    <3> QED
      BY <1>1, <3>1, <3>2, <3>3, Visits
  <2> QED
    BY <2>1, <2>2
<1> QED
  BY <1>1, <1>2, Here, DrainMovesAlone DEF InHand

\* Going on to the next row, or leaving, when the row in hand is not being sent.
LEMMA RestIsQuiet ==
  ASSUME IInv, NEW d \in Drains, drain[d].pc \notin {"off", "locking", "reading"},
         \A i \in drain[d].todo : /\ i \in DOMAIN outputs' /\ outputs'[i].origin = outputs[i].origin
                                  /\ i # Row(d) => (outputs'[i].status = "sending" => outputs[i].status = "sending"),
         Visit(d, Rest(d))
  PROVE  Moved(d)
<1>1. Rest(d) \in SUBSET Nat /\ Rest(d) \subseteq drain[d].todo
  BY Here DEF Rest
<1>2. \A i \in Rest(d) : /\ i \in DOMAIN outputs' /\ outputs'[i].status # "sending"
                         /\ ScopeOf[outputs'[i].origin] = drain[d].scope
  BY Here DEF Rest, LaneHeld, RowInHand
<1> QED
  BY <1>1, <1>2, Visits

LEMMA VisitAlone ==
  ASSUME IInv, NEW d \in Drains, drain[d].pc \notin {"off", "locking", "reading"},
         Visit(d, Rest(d)), UNCHANGED journal
  PROVE  Moved(d)
<1>1. \A i \in drain[d].todo : /\ i \in DOMAIN outputs' /\ outputs'[i].origin = outputs[i].origin
                               /\ i # Row(d) => (outputs'[i].status = "sending" => outputs[i].status = "sending")
  BY Here DEF LaneHeld, journal
<1> QED
  BY <1>1, RestIsQuiet

\* A drain that only goes to another point.
LEMMA AtPoint ==
  ASSUME IInv, NEW d \in Drains, NEW p \in Points
  PROVE  /\ [drain[d] EXCEPT !.pc = p] \in Drain
         /\ [drain[d] EXCEPT !.pc = p].pc = p
         /\ [drain[d] EXCEPT !.pc = p].scope = drain[d].scope
         /\ [drain[d] EXCEPT !.pc = p].todo = drain[d].todo
         /\ [drain[d] EXCEPT !.pc = p].x = drain[d].x
         /\ [drain[d] EXCEPT !.pc = p].entered = drain[d].entered
         /\ [drain[d] EXCEPT !.pc = p].outcome = drain[d].outcome
BY Here DEF Drain

\* The row of a drain before begin is not being sent.
LEMMA BeforeBegin ==
  ASSUME IInv, NEW d \in Drains, drain[d].pc \notin {"off", "locking", "reading"}, drain[d].pc \notin InHand
  PROVE  \A i \in drain[d].todo : i \in DOMAIN outputs /\ outputs[i].status # "sending"
BY Here DEF RowInHand, LaneHeld

LEMMA CheckPolicyStep ==
  ASSUME IInv, NEW d \in Drains, NEW policy \in Policies, NEW reachable \in BOOLEAN,
         CheckPolicy(d, policy, reachable)
  PROVE  IInv'
<1>1. /\ drain[d].pc = "policy" /\ UNCHANGED <<journal, accepted, orphans, failures>> /\ UNCHANGED hostVars
      /\ \/ Leave(d, "cancelled") \/ Leave(d, "raised") \/ Visit(d, Rest(d))
         \/ Goto(d, "cancelRow") \/ Goto(d, "begin")
  BY DEF CheckPolicy, At, Policies
<1>2. CASE Leave(d, "cancelled") \/ Leave(d, "raised") \/ Visit(d, Rest(d))
  <2>1. Moved(d)
    BY <1>1, <1>2, Leaves, VisitAlone
  <2> QED
    BY <1>1, <2>1, Here, DrainMovesAlone DEF InHand
<1>3. ASSUME NEW p \in {"cancelRow", "begin"}, Goto(d, p) PROVE IInv'
  <2> DEFINE v == [drain[d] EXCEPT !.pc = p]
  <2>1. p \in Points /\ drain' = [drain EXCEPT ![d] = v] /\ lane' = lane
    BY <1>3 DEF Points, Goto
  <2>2. /\ v \in Drain /\ v.pc = p /\ v.scope = drain[d].scope /\ v.todo = drain[d].todo
        /\ v.entered = drain[d].entered
    BY <2>1, AtPoint
  <2> HIDE DEF v
  <2>3. v.entered = FALSE
    BY <1>1, <2>2, Here DEF OutcomeTrue, Drain
  <2>4. \A i \in drain[d].todo : outputs'[i].status # "sending"
    BY <1>1, BeforeBegin DEF journal, InHand
  <2>5. Fits(v, Row(d))
    BY <2>2, <2>3, <2>4 DEF Fits, HasSend
  <2> QED
    BY <1>1, <2>1, <2>2, <2>5, Here, StepsInPlace DEF InHand
<1> QED
  BY <1>1, <1>2, <1>3

LEMMA BeginRefusedStep ==
  ASSUME IInv, NEW d \in Drains, drain[d].pc = "begin", UNCHANGED <<journal, accepted, orphans>>,
         UNCHANGED hostVars, failures' \in 0..MaxFailures, lane' = lane,
         drain' = [drain EXCEPT ![d].pc = "refused", ![d].cancelling = FALSE]
  PROVE  IInv'
<1> DEFINE v == [drain[d] EXCEPT !.pc = "refused", !.cancelling = FALSE]
<1>1. /\ v \in Drain /\ v.pc = "refused" /\ v.scope = drain[d].scope /\ v.todo = drain[d].todo
      /\ v.entered = drain[d].entered
  BY Here DEF Drain, Points
<1>2. drain' = [drain EXCEPT ![d] = v]
  BY Here
<1> HIDE DEF v
<1>3. v.entered = FALSE
  BY <1>1, Here DEF OutcomeTrue, Drain
<1>4. \A i \in drain[d].todo : outputs'[i].status # "sending"
  BY BeforeBegin DEF journal, InHand
<1>5. Fits(v, Row(d))
  BY <1>1, <1>3, <1>4 DEF Fits, HasSend
<1> QED
  BY <1>1, <1>2, <1>5, StepsInPlace DEF InHand

LEMMA ReadRefusedStep ==
  ASSUME IInv, NEW d \in Drains, ReadRefused(d)
  PROVE  IInv'
<1>1. /\ drain[d].pc = "refused" /\ UNCHANGED <<journal, accepted, orphans, failures>> /\ UNCHANGED hostVars
      /\ Leave(d, "cancelled") \/ Leave(d, "raised") \/ Visit(d, Rest(d))
  BY DEF ReadRefused, At
<1>2. Moved(d)
  BY <1>1, Leaves, VisitAlone
<1> QED
  BY <1>1, <1>2, Here, DrainMovesAlone DEF InHand

\* What a drain knows of the row and the attempt it has in hand.
LEMMA Knows ==
  ASSUME IInv, NEW d \in Drains, drain[d].pc \in InHand
  PROVE  /\ Row(d) \in DOMAIN outputs
         /\ \A i \in drain[d].todo : outputs[i].status = "sending" => i = Row(d)
         /\ drain[d].pc \in HasSend =>
               /\ drain[d].x \in DOMAIN sends /\ sends[drain[d].x].out = Row(d)
               /\ outputs[Row(d)].status = "sending" => outputs[Row(d)].send = drain[d].x
BY RowFacts, Here DEF InHand, RowInHand, SendsOf

LEMMA RecheckStep ==
  ASSUME IInv, NEW d \in Drains, NEW policy \in Policies, Recheck(d, policy)
  PROVE  IInv'
<1>1. /\ drain[d].pc = "recheck" /\ UNCHANGED <<journal, accepted, orphans, failures>> /\ UNCHANGED hostVars
      /\ lane' = lane
  BY DEF Recheck, At
<1>2. /\ outputs' = outputs /\ sends' = sends /\ accepted' = accepted
      /\ outputs[Row(d)].status = "sending" /\ drain[d].x \notin accepted /\ drain[d].entered = FALSE
      /\ drain[d].x \in DOMAIN sends /\ sends[drain[d].x].out = Row(d)
      /\ outputs[Row(d)].send = drain[d].x
      /\ \A i \in drain[d].todo : outputs[i].status = "sending" => i = Row(d)
  BY <1>1, Knows, Here DEF journal, RowInHand, OutcomeTrue, InHand, HasSend, Drain
<1>3. ASSUME NEW v \in Drain, drain' = [drain EXCEPT ![d] = v],
             v.pc \in InHand, v.scope = drain[d].scope, v.todo = drain[d].todo, v.x = drain[d].x,
             v.entered = (v.pc = "sending"),
             v.pc = "settle" => v.outcome = "pending", v.pc # "rescueSettle"
      PROVE  IInv'
  <2>1. Fits(v, Row(d))
    BY <1>2, <1>3 DEF Fits, HasSend, InHand, Drain
  <2>2. drain[d].pc \notin {"off", "locking", "reading"} /\ v.pc \notin {"off", "locking", "reading"}
    BY <1>1, <1>3 DEF InHand
  <2> QED
    BY <1>1, <1>3, <2>1, <2>2, Here, StepsInPlace
<1>4. CASE drain[d].cancelling
  <2> DEFINE v == [drain[d] EXCEPT !.pc = "rescue"]
  <2>1. drain' = [drain EXCEPT ![d] = v]
    BY <1>4 DEF Recheck
  <2>2. /\ v \in Drain /\ v.pc = "rescue" /\ v.scope = drain[d].scope /\ v.todo = drain[d].todo
        /\ v.x = drain[d].x /\ v.entered = FALSE
    BY <1>2, AtPoint DEF Points
  <2> HIDE DEF v
  <2> QED
    BY <1>3, <2>1, <2>2 DEF InHand
<1>5. CASE ~drain[d].cancelling /\ policy = "ready"
  <2> DEFINE v == [drain[d] EXCEPT !.pc = "sending", !.entered = TRUE]
  <2>1. drain' = [drain EXCEPT ![d] = v]
    BY <1>5 DEF Recheck
  <2>2. /\ v \in Drain /\ v.pc = "sending" /\ v.scope = drain[d].scope /\ v.todo = drain[d].todo
        /\ v.x = drain[d].x /\ v.entered = TRUE
    BY Here DEF Drain, Points
  <2> HIDE DEF v
  <2> QED
    BY <1>3, <2>1, <2>2 DEF InHand
<1>6. CASE ~drain[d].cancelling /\ policy = "error"
  <2> DEFINE v == [drain[d] EXCEPT !.pc = "settle", !.outcome = "pending"]
  <2>1. drain' = [drain EXCEPT ![d] = v]
    BY <1>6 DEF Recheck
  <2>2. /\ v \in Drain /\ v.pc = "settle" /\ v.scope = drain[d].scope /\ v.todo = drain[d].todo
        /\ v.x = drain[d].x /\ v.outcome = "pending" /\ v.entered = drain[d].entered
    BY Here DEF Drain, Points
  <2> HIDE DEF v
  <2> QED
    BY <1>2, <1>3, <2>1, <2>2 DEF InHand
<1>7. CASE ~drain[d].cancelling /\ policy \in {"pending", "cancelled"}
  <2> DEFINE v == [drain[d] EXCEPT !.pc = "withhold", !.outcome = policy]
  <2>1. drain' = [drain EXCEPT ![d] = v]
    BY <1>7 DEF Recheck
  <2>2. /\ v \in Drain /\ v.pc = "withhold" /\ v.scope = drain[d].scope /\ v.todo = drain[d].todo
        /\ v.x = drain[d].x /\ v.entered = drain[d].entered
    BY <1>7, Here DEF Drain, Points
  <2> HIDE DEF v
  <2> QED
    BY <1>2, <1>3, <2>1, <2>2 DEF InHand
<1> QED
  BY <1>4, <1>5, <1>6, <1>7 DEF Policies

LEMMA SenderEndsStep ==
  ASSUME IInv, NEW d \in Drains, NEW outcome \in {"delivered", "pending", "unknown"}, SenderEnds(d, outcome)
  PROVE  IInv'
<1> DEFINE v == [drain[d] EXCEPT !.pc = "settle", !.outcome = outcome]
<1>1. /\ drain[d].pc = "sending" /\ UNCHANGED <<journal, accepted, orphans, failures>> /\ UNCHANGED hostVars
      /\ lane' = lane /\ drain' = [drain EXCEPT ![d] = v]
      /\ outcome = "delivered" => drain[d].x \in accepted
      /\ outcome = "pending" => drain[d].x \notin accepted
  BY DEF SenderEnds, At
<1>2. /\ v \in Drain /\ v.pc = "settle" /\ v.scope = drain[d].scope /\ v.todo = drain[d].todo
      /\ v.x = drain[d].x /\ v.outcome = outcome
  BY Here DEF Drain, Points
<1> HIDE DEF v
<1>3. outputs' = outputs /\ sends' = sends /\ accepted' = accepted
  BY <1>1 DEF journal
<1>4. Fits(v, Row(d))
  BY <1>1, <1>2, <1>3, Knows DEF Fits, InHand, HasSend
<1> QED
  BY <1>1, <1>2, <1>4, Here, StepsInPlace DEF InHand

\* A cancelled drain turns to settle_cancelled.
LEMMA ToRescue ==
  ASSUME IInv, NEW d \in Drains, drain[d].pc \in {"begin", "withhold", "cancelSent", "sending"},
         Goto(d, "rescue"), UNCHANGED <<journal, accepted, orphans, failures>>, UNCHANGED hostVars
  PROVE  IInv'
<1> DEFINE v == [drain[d] EXCEPT !.pc = "rescue"]
<1>1. drain' = [drain EXCEPT ![d] = v] /\ lane' = lane
  BY DEF Goto
<1>2. /\ v \in Drain /\ v.pc = "rescue" /\ v.scope = drain[d].scope /\ v.todo = drain[d].todo
      /\ v.entered = drain[d].entered
  BY AtPoint DEF Points
<1> HIDE DEF v
<1>3. outputs' = outputs /\ sends' = sends /\ accepted' = accepted
  BY DEF journal
<1>4. \A i \in drain[d].todo : outputs[i].status = "sending" =>
         i = Row(d) /\ drain[d].pc \in {"withhold", "sending"}
  BY Here DEF RowInHand, InHand
<1>5. Row(d) \in drain[d].todo
  BY RowFacts
<1>6. ~drain[d].entered /\ outputs[Row(d)].status = "sending" => outputs[Row(d)].send \notin accepted
  <2>1. SUFFICES ASSUME ~drain[d].entered, outputs[Row(d)].status = "sending"
                 PROVE  outputs[Row(d)].send \notin accepted
    OBVIOUS
  <2>2. drain[d].pc = "withhold"
    BY <1>4, <1>5, <2>1, Here DEF OutcomeTrue
  <2> QED
    BY <2>1, <2>2, Here DEF OutcomeTrue, RowInHand, HasSend
<1>7. Fits(v, Row(d))
  BY <1>2, <1>3, <1>4, <1>6 DEF Fits, HasSend, InHand
<1> QED
  BY <1>1, <1>2, <1>7, Here, StepsInPlace DEF InHand

LEMMA InterruptedStep ==
  ASSUME IInv, NEW d \in Drains, Interrupted(d)
  PROVE  IInv'
<1>1. UNCHANGED <<journal, accepted, failures>> /\ UNCHANGED hostVars
  BY DEF Interrupted
<1>2. CASE drain[d].pc \in {"begin", "withhold", "cancelSent", "sending"} /\ Goto(d, "rescue")
  BY <1>1, <1>2, ToRescue DEF Interrupted, At
<1>3. CASE drain[d].pc \in {"cancelRow", "settle"} /\ Leave(d, "cancelled")
  <2>1. Moved(d)
    BY <1>3, Leaves
  <2>2. IF drain[d].pc = "settle" THEN orphans' = orphans \cup {Row(d)} ELSE orphans' = orphans
    BY DEF Interrupted, At
  <2> QED
    BY <1>1, <1>3, <2>1, <2>2, Here, DrainMovesAlone DEF InHand
<1> QED
  BY <1>2, <1>3 DEF Interrupted

LEMMA RescueReadStep ==
  ASSUME IInv, NEW d \in Drains, RescueRead(d)
  PROVE  IInv'
<1>1. /\ drain[d].pc = "rescue" /\ UNCHANGED <<journal, accepted, orphans, failures>> /\ UNCHANGED hostVars
  BY DEF RescueRead, At
<1>2. CASE outputs[Row(d)].status # "sending"
  <2>1. Moved(d)
    BY <1>2, Leaves DEF RescueRead
  <2> QED
    BY <1>1, <1>2, <2>1, Here, DrainMovesAlone
<1>3. CASE outputs[Row(d)].status = "sending"
  <2> DEFINE out == IF drain[d].entered THEN "unknown" ELSE "pending"
             v == [drain[d] EXCEPT !.pc = "rescueSettle", !.x = outputs[Row(d)].send, !.outcome = out]
  <2>1. drain' = [drain EXCEPT ![d] = v] /\ lane' = lane
    BY <1>3, Here DEF RescueRead
  <2>2. out \in {"unknown", "pending"} /\ (out = "pending" => ~drain[d].entered)
    OBVIOUS
  <2> HIDE DEF out
  <2>3. /\ Row(d) \in DOMAIN outputs /\ outputs[Row(d)].send \in SendsOf(Row(d))
        /\ outputs[Row(d)].send \in Nat
    BY <1>1, <1>3, RowFacts, Here, SendingRow DEF OutputRow
  <2>4. /\ v \in Drain /\ v.pc = "rescueSettle" /\ v.scope = drain[d].scope /\ v.todo = drain[d].todo
        /\ v.x = outputs[Row(d)].send /\ v.outcome = out
    BY <2>2, <2>3, Here DEF Drain, Points
  <2> HIDE DEF v
  <2>5. out = "pending" => outputs[Row(d)].send \notin accepted
    BY <1>1, <1>3, <2>2, Here DEF OutcomeTrue
  <2>6. outputs' = outputs /\ sends' = sends /\ accepted' = accepted
    BY <1>1 DEF journal
  <2>7. \A i \in drain[d].todo : outputs[i].status = "sending" => i = Row(d)
    BY Here DEF RowInHand
  <2>8. Fits(v, Row(d))
    BY <1>3, <2>2, <2>3, <2>4, <2>5, <2>6, <2>7 DEF Fits, HasSend, InHand, SendsOf
  <2> QED
    BY <1>1, <2>1, <2>4, <2>8, Here, StepsInPlace DEF InHand
<1> QED
  BY <1>2, <1>3

LEMMA SettleRefusedStep ==
  ASSUME IInv, NEW d \in Drains, SettleRefused(d)
  PROVE  IInv'
<1>1. /\ drain[d].pc \in {"settle", "rescueSettle"} /\ Leave(d, "raised")
      /\ ~(outputs[Row(d)].status = "sending" /\ outputs[Row(d)].send = drain[d].x)
      /\ UNCHANGED <<journal, accepted, orphans, failures>> /\ UNCHANGED hostVars
  BY DEF SettleRefused, Store!Held
<1>2. Moved(d)
  BY <1>1, Leaves
<1>3. outputs[Row(d)].status # "sending"
  BY <1>1, Here DEF RowInHand, HasSend
<1> QED
  BY <1>1, <1>2, <1>3, Here, DrainMovesAlone

LEMMA DiskFailsStep ==
  ASSUME IInv, NEW d \in Drains, DiskFails(d)
  PROVE  IInv'
<1>1. /\ failures < MaxFailures /\ failures' = failures + 1
      /\ drain[d].pc \in {"reading", "cancelRow", "begin", "refused", "withhold", "cancelSent",
                          "settle", "rescue", "rescueSettle"}
      /\ orphans' = IF drain[d].pc \in {"settle", "rescue", "rescueSettle"}
                    THEN orphans \cup {Row(d)} ELSE orphans
      /\ UNCHANGED <<journal, accepted>> /\ UNCHANGED hostVars
  BY DEF DiskFails
<1>2. failures' \in 0..MaxFailures
  BY <1>1, Here, BoundsAssumption
<1>3. CASE drain[d].pc = "begin"
  BY <1>1, <1>2, <1>3, BeginRefusedStep DEF DiskFails, At
<1>4. CASE drain[d].pc \in {"withhold", "cancelSent"}
  <2> DEFINE v == [drain[d] EXCEPT !.pc = "settle", !.outcome = "pending", !.cancelling = FALSE]
  <2>1. drain' = [drain EXCEPT ![d] = v] /\ lane' = lane
    BY <1>4, Here DEF DiskFails, At
  <2>2. /\ v \in Drain /\ v.pc = "settle" /\ v.scope = drain[d].scope /\ v.todo = drain[d].todo
        /\ v.x = drain[d].x /\ v.outcome = "pending"
    BY Here DEF Drain, Points
  <2> HIDE DEF v
  <2>3. outputs' = outputs /\ sends' = sends /\ accepted' = accepted
    BY <1>1 DEF journal
  <2>4. Fits(v, Row(d))
    BY <1>4, <2>2, <2>3, Here DEF Fits, HasSend, InHand, RowInHand, OutcomeTrue, SendsOf
  <2> QED
    BY <1>1, <1>2, <1>4, <2>1, <2>2, <2>4, Here, StepsInPlace DEF InHand
<1>5. CASE drain[d].pc \in {"reading", "cancelRow", "refused", "settle", "rescue", "rescueSettle"}
  <2>1. Leave(d, "raised")
    BY <1>5 DEF DiskFails, At
  <2>2. Moved(d)
    BY <2>1, Leaves
  <2> QED
    BY <1>1, <1>2, <1>5, <2>2, DrainMovesAlone DEF InHand
<1> QED
  BY <1>1, <1>3, <1>4, <1>5

-----------------------------------------------------------------------------
(* The channel. *)

\* What the channel accepts is the attempt under way of the drain it serves.
LEMMA ChannelAcceptsStep ==
  ASSUME IInv, NEW d \in Drains, ChannelAccepts(d)
  PROVE  IInv'
<1>1. /\ drain[d].pc = "sending" /\ accepted' = accepted \cup {drain[d].x} /\ drain' = drain
      /\ UNCHANGED <<journal, lane, orphans, failures>> /\ UNCHANGED hostVars
  BY DEF ChannelAccepts, At
<1>2. outputs' = outputs /\ sends' = sends /\ open' = open
  BY <1>1 DEF journal
<1>3. /\ Row(d) \in drain[d].todo /\ Row(d) \in DOMAIN outputs /\ lane[drain[d].scope] = d
      /\ ScopeOf[outputs[Row(d)].origin] = drain[d].scope
  BY <1>1, RowFacts
<1>4. /\ outputs[Row(d)].status = "sending" /\ outputs[Row(d)].send = drain[d].x
      /\ drain[d].x \in SendsOf(Row(d)) /\ sends[drain[d].x].status = "sending"
  BY <1>1, <1>3, Here, SendingRow DEF RowInHand, HasSend
<1>5. drain[d].x \in DOMAIN sends /\ sends[drain[d].x].out = Row(d)
  BY <1>4 DEF SendsOf
<1>6. Row(d)' = Row(d)
  BY <1>1 DEF Row
<1>7. DrainInv(d)'
  <2>1. LaneHeld(d)' /\ RowInHand(d)'
    BY <1>1, <1>2, <1>6, Here DEF LaneHeld, RowInHand, SendsOf
  <2>2. OutcomeTrue(d)'
    BY <1>1, Here DEF OutcomeTrue
  <2> QED
    BY <2>1, <2>2 DEF DrainInv
<1>8. Moved(d)
  BY <1>1, <1>7, Here DEF Moved
<1>9. Handed(d)
  BY <1>1, <1>2, <1>3, <1>6, Here DEF Handed, RowInHand, InHand
<1>10. \A i \in DOMAIN outputs : Kept(i) \/ i \in drain[d].todo
  <2>1. \A i \in DOMAIN outputs : i # Row(d) => drain[d].x \notin SendsOf(i)
    BY <1>5 DEF SendsOf
  <2> QED
    BY <1>1, <1>2, <1>3, <2>1 DEF Kept, SendsOf
<1>11. AttemptsTruthful'
  BY <1>1, <1>2, <1>4 DEF IInv, AttemptsTruthful
<1>12. accepted' \subseteq DOMAIN sends' /\ orphans' \subseteq DOMAIN outputs'
  BY <1>1, <1>2, <1>5 DEF IInv, TypeOK
<1> QED
  BY <1>1, <1>2, <1>8, <1>9, <1>10, <1>11, <1>12, Here, DrainMoves DEF journal

-----------------------------------------------------------------------------
(* The steps of a drain that write the journal. *)

\* cancel_pending touches no row that is being sent.
LEMMA CancelEffect ==
  ASSUME Store!TypeOK, NEW s, NEW M, Store!CancelPending(s, M), accepted' = accepted
  PROVE  /\ DOMAIN outputs' = DOMAIN outputs /\ sends' = sends /\ open' = open
         /\ \A i \in DOMAIN outputs : Kept(i)
<1>1. /\ outputs' = [i \in DOMAIN outputs |-> IF Store!Cancellable(s, M, outputs[i])
                       THEN [outputs[i] EXCEPT !.status = "cancelled"] ELSE outputs[i]]
      /\ sends' = sends /\ open' = open
  BY DEF Store!CancelPending
<1>2. \A i \in DOMAIN outputs : \/ outputs'[i] = outputs[i]
                                \/ /\ outputs[i].status = "pending" /\ outputs'[i].status = "cancelled"
                                   /\ outputs'[i].origin = outputs[i].origin
  BY <1>1, Tables DEF Store!Cancellable, OutputRow
<1>3. DOMAIN outputs' = DOMAIN outputs
  BY <1>1
<1>4. \A i \in DOMAIN outputs : SendsOf(i)' = SendsOf(i)
  BY <1>1 DEF SendsOf
<1> QED
  BY <1>1, <1>2, <1>3, <1>4 DEF Kept

\* The cancellations of a drain, of the message of its row.
LEMMA DrainCancels ==
  ASSUME IInv, NEW d \in Drains, drain[d].pc \in {"cancelRow", "cancelSent"},
         Store!CancelPending(drain[d].scope, {MessageOf[outputs[Row(d)].origin]}),
         Visit(d, Rest(d)) \/ Leave(d, "cancelled") \/ (Goto(d, "rescue") /\ drain[d].pc = "cancelSent"),
         UNCHANGED <<accepted, orphans, failures>>, UNCHANGED hostVars
  PROVE  IInv'
<1>1. /\ DOMAIN outputs' = DOMAIN outputs /\ sends' = sends /\ open' = open
      /\ \A i \in DOMAIN outputs : Kept(i)
  BY Here, CancelEffect
<1>2. /\ Row(d) \in DOMAIN outputs /\ drain[d].scope \in Scopes /\ Row(d) \in drain[d].todo
  BY RowFacts
<1>3. [Store!Next]_journal
  <2>1. {MessageOf[outputs[Row(d)].origin]} \in SUBSET MessageIds
    BY <1>2, Here, Tables
  <2> QED
    BY <1>2, <2>1 DEF Store!Next
<1>4. \A i \in drain[d].todo : outputs'[i].status # "sending" /\ i \in DOMAIN outputs
                               /\ outputs'[i].origin = outputs[i].origin
  BY <1>1, BeforeBegin DEF Kept, InHand
<1>5. Moved(d)
  <2>1. CASE Visit(d, Rest(d))
    BY <1>1, <1>4, <2>1, RestIsQuiet
  <2>2. CASE Goto(d, "rescue")
    <3> DEFINE v == [drain[d] EXCEPT !.pc = "rescue"]
    <3>1. drain' = [drain EXCEPT ![d] = v] /\ lane' = lane
      BY <2>2 DEF Goto
    <3>2. /\ v \in Drain /\ v.pc = "rescue" /\ v.scope = drain[d].scope /\ v.todo = drain[d].todo
      BY AtPoint DEF Points
    <3> HIDE DEF v
    <3>3. Fits(v, Row(d))
      BY <1>2, <1>4, <3>2 DEF Fits, HasSend
    <3> QED
      BY <1>1, <1>4, <3>1, <3>2, <3>3, InPlace
  <2> QED
    BY <2>1, <2>2, Leaves
<1>6. Handed(d)
  BY <1>1, <1>4 DEF Handed, Kept
<1>7. AttemptsTruthful' /\ accepted' \subseteq DOMAIN sends' /\ orphans' \subseteq DOMAIN outputs'
  BY <1>1 DEF IInv, TypeOK, AttemptsTruthful
<1>8. \A i \in DOMAIN outputs : outputs'[i].origin = outputs[i].origin
  BY <1>1 DEF Kept
<1> QED
  BY <1>1, <1>3, <1>5, <1>6, <1>7, <1>8, Here, DrainMoves

\* begin opens a new attempt of its row and changes nothing else.
LEMMA BeginEffect ==
  ASSUME Store!TypeOK, NEW i \in DOMAIN outputs, Store!Begin(i), accepted' = accepted
  PROVE  /\ DOMAIN outputs' = DOMAIN outputs /\ open' = open
         /\ outputs'[i].status = "sending" /\ outputs'[i].send = Len(sends')
         /\ outputs'[i].origin = outputs[i].origin
         /\ Len(sends') \in Nat /\ Len(sends') \notin DOMAIN sends
         /\ DOMAIN sends' = DOMAIN sends \cup {Len(sends')}
         /\ sends'[Len(sends')].out = i /\ sends'[Len(sends')].status = "sending"
         /\ \A x \in DOMAIN sends : sends'[x] = sends[x]
         /\ \A j \in DOMAIN outputs : j # i => Kept(j) /\ outputs'[j] = outputs[j]
<1> DEFINE n == Len(sends) + 1
           a == [out |-> i, status |-> "sending", error |-> ""]
           r == [outputs[i] EXCEPT !.status = "sending", !.send = n, !.error = ""]
<1>1. /\ open' = open /\ sends' = Append(sends, a) /\ outputs' = [outputs EXCEPT ![i] = r]
      /\ sends \in Seq(SendRow) /\ outputs \in Seq(OutputRow) /\ outputs[i] \in OutputRow /\ i \in Nat
  BY Tables DEF Store!Begin
<1>2. a \in SendRow /\ a.out = i /\ a.status = "sending"
  BY <1>1 DEF SendRow, SendStates, ErrorText
<1>3. n \in Nat /\ n \notin DOMAIN sends
  <2>1. DOMAIN sends = 1..Len(sends) /\ Len(sends) \in Nat
    BY <1>1, SeqDomain
  <2> QED
    BY <2>1
<1> HIDE DEF a
<1>4. /\ DOMAIN sends' = DOMAIN sends \cup {n} /\ Len(sends') = n /\ sends'[n] = a
      /\ \A x \in DOMAIN sends : sends'[x] = sends[x]
  BY <1>1, <1>2, SeqAppend
<1> HIDE DEF n
<1>5. /\ r.status = "sending" /\ r.send = n /\ r.origin = outputs[i].origin
  BY <1>1 DEF OutputRow
<1> HIDE DEF r
<1>6. /\ DOMAIN outputs' = DOMAIN outputs /\ outputs'[i] = r
      /\ \A j \in DOMAIN outputs : j # i => outputs'[j] = outputs[j]
  BY <1>1
<1>7. \A j \in DOMAIN outputs : j # i => Kept(j)
  BY <1>4, <1>6 DEF Kept, SendsOf
<1> QED
  BY <1>1, <1>2, <1>3, <1>4, <1>5, <1>6, <1>7

\* The new attempt is in the drain's hands, even if its answer was cancelled.
LEMMA BeginCommitStep ==
  ASSUME IInv, NEW d \in Drains, BeginCommit(d)
  PROVE  IInv'
<1> DEFINE n == Len(sends')
<1>1. /\ drain[d].pc = "begin" /\ Store!Begin(Row(d))
      /\ UNCHANGED <<accepted, orphans, failures>> /\ UNCHANGED hostVars
  BY DEF BeginCommit, At
<1>2. /\ Row(d) \in DOMAIN outputs /\ Row(d) \in drain[d].todo
      /\ lane[drain[d].scope] = d /\ ScopeOf[outputs[Row(d)].origin] = drain[d].scope
  BY <1>1, RowFacts
<1>3. PICK i \in DOMAIN outputs : i = Row(d)
  BY <1>2
<1>4. /\ DOMAIN outputs' = DOMAIN outputs /\ open' = open
      /\ outputs'[i].status = "sending" /\ outputs'[i].send = n
      /\ outputs'[i].origin = outputs[i].origin
      /\ n \in Nat /\ n \notin DOMAIN sends
      /\ DOMAIN sends' = DOMAIN sends \cup {n}
      /\ sends'[n].out = i /\ sends'[n].status = "sending"
      /\ \A x \in DOMAIN sends : sends'[x] = sends[x]
      /\ \A j \in DOMAIN outputs : j # i => Kept(j) /\ outputs'[j] = outputs[j]
  BY <1>1, <1>3, Here, BeginEffect
<1>5. [Store!Next]_journal
  BY <1>1, <1>2 DEF Store!Next
<1> HIDE DEF n
<1>6. n \notin accepted
  BY <1>4 DEF IInv, TypeOK
<1>7. \A j \in drain[d].todo : /\ j \in DOMAIN outputs' /\ outputs'[j].origin = outputs[j].origin
                               /\ outputs'[j].status = "sending" => j = Row(d)
  BY <1>1, <1>3, <1>4, BeforeBegin DEF InHand
<1>8. ASSUME NEW v \in Drain, v.pc \in {"recheck", "rescue"}, v.pc = "recheck" => v.x = n,
             v.entered = FALSE, v.scope = drain[d].scope, v.todo = drain[d].todo,
             drain' = [drain EXCEPT ![d] = v], lane' = lane
      PROVE  Moved(d) /\ Row(d)' = Row(d) /\ drain'[d].pc \in InHand /\ lane'[drain[d].scope] = d
  <2>1. Fits(v, Row(d))
    BY <1>1, <1>3, <1>4, <1>6, <1>7, <1>8 DEF Fits, HasSend, InHand
  <2>2. v.pc \notin {"off", "locking", "reading"} /\ v.pc \in InHand
    BY <1>8 DEF InHand
  <2>3. \A j \in drain[d].todo : j \in DOMAIN outputs' /\ outputs'[j].origin = outputs[j].origin
    BY <1>7
  <2> QED
    BY <1>1, <1>8, <2>1, <2>2, <2>3, InPlace
<1>9. drain[d].entered = FALSE
  BY <1>1, Here DEF OutcomeTrue, Drain
<1>10. Moved(d) /\ Row(d)' = Row(d) /\ drain'[d].pc \in InHand /\ lane'[drain[d].scope] = d
  <2>1. CASE ~drain[d].cancelling
    <3> DEFINE v == [drain[d] EXCEPT !.pc = "recheck", !.x = n]
    <3>1. drain' = [drain EXCEPT ![d] = v] /\ lane' = lane
      BY <2>1, Here DEF BeginCommit, Then, n
    <3>2. /\ v \in Drain /\ v.pc = "recheck" /\ v.x = n /\ v.entered = drain[d].entered
          /\ v.scope = drain[d].scope /\ v.todo = drain[d].todo
      <4>1. drain[d] \in Drain /\ n \in Nat /\ "recheck" \in Points
        BY <1>4, Here DEF Points
      <4> QED
        BY <4>1 DEF Drain
    <3> HIDE DEF v
    <3> QED
      BY <1>8, <1>9, <3>1, <3>2
  <2>2. CASE drain[d].cancelling
    <3> DEFINE v == [drain[d] EXCEPT !.pc = "rescue"]
    <3>1. drain' = [drain EXCEPT ![d] = v] /\ lane' = lane
      BY <2>2, Here DEF BeginCommit, Then, Goto
    <3>2. /\ v \in Drain /\ v.pc = "rescue" /\ v.entered = drain[d].entered
          /\ v.scope = drain[d].scope /\ v.todo = drain[d].todo
      BY AtPoint DEF Points
    <3> HIDE DEF v
    <3> QED
      BY <1>8, <1>9, <3>1, <3>2
  <2> QED
    BY <2>1, <2>2
<1>11. Handed(d)
  <2>1. \A j \in DOMAIN outputs : j # i => outputs'[j] = outputs[j]
    BY <1>4
  <2>2. \A j \in drain[d].todo : outputs[j].status # "sending"
    BY <1>1, BeforeBegin DEF InHand
  <2>3. lane'[ScopeOf[outputs'[i].origin]] = d
    BY <1>2, <1>3, <1>4, <1>10
  <2> QED
    BY <1>3, <1>4, <1>10, <2>1, <2>2, <2>3 DEF Handed
<1>12. AttemptsTruthful'
  <2>1. \A x \in DOMAIN sends' : x # n => x \in DOMAIN sends /\ sends'[x] = sends[x]
    BY <1>4
  <2> QED
    BY <1>1, <1>4, <2>1 DEF IInv, AttemptsTruthful
<1>13. accepted' \subseteq DOMAIN sends' /\ orphans' \subseteq DOMAIN outputs'
  BY <1>1, <1>4 DEF IInv, TypeOK
<1>14. \A j \in DOMAIN outputs : (Kept(j) \/ j \in drain[d].todo) /\ outputs'[j].origin = outputs[j].origin
  BY <1>2, <1>3, <1>4
<1> QED
  BY <1>1, <1>4, <1>5, <1>10, <1>11, <1>12, <1>13, <1>14, Here, DrainMoves

\* settle closes the attempt under way of its row and changes nothing else.
SettledAs(i, x, status) ==
    /\ outputs[i].status = "sending" /\ x \in SendsOf(i)
    /\ DOMAIN outputs' = DOMAIN outputs /\ DOMAIN sends' = DOMAIN sends /\ open' = open
    /\ outputs'[i].status = status /\ outputs'[i].origin = outputs[i].origin
    /\ sends'[x].status = SendState(status) /\ sends'[x].out = i
    /\ \A y \in DOMAIN sends : y # x => sends'[y] = sends[y]
    /\ \A j \in DOMAIN outputs : j # i => Kept(j) /\ outputs'[j] = outputs[j]
    /\ [Store!Next]_journal

LEMMA SettleEffect ==
  ASSUME Store!TypeOK, Validate, NEW i \in DOMAIN outputs, NEW x, NEW error \in Errors \cup {""},
         NEW status \in {"pending", "delivered", "unknown"}, Store!Settle(i, x, status, error),
         accepted' = accepted
  PROVE  SettledAs(i, x, status)
<1> DEFINE r == [outputs[i] EXCEPT !.status = status, !.error = error]
           a == [sends[x] EXCEPT !.status = SendState(status), !.error = error]
<1>1. /\ open' = open /\ sends' = [sends EXCEPT ![x] = a] /\ outputs' = [outputs EXCEPT ![i] = r]
      /\ outputs[i].status = "sending" /\ outputs[i].send = x
  BY DEF Store!Settle, Store!Held, Store!SendState, SendState
<1>2. x \in SendsOf(i)
  BY <1>1, SendingRow
<1>3. x \in DOMAIN sends /\ sends[x].out = i /\ sends[x] \in SendRow /\ outputs[i] \in OutputRow
  BY <1>2, Tables DEF SendsOf
<1>4. /\ r.status = status /\ r.origin = outputs[i].origin
      /\ a.status = SendState(status) /\ a.out = i
  BY <1>3 DEF OutputRow, SendRow
<1> HIDE DEF r, a
<1>5. outputs \in Seq(OutputRow) /\ sends \in Seq(SendRow)
  BY Tables
<1>6. /\ DOMAIN outputs' = DOMAIN outputs /\ outputs'[i] = r
      /\ \A j \in DOMAIN outputs : j # i => outputs'[j] = outputs[j]
  BY <1>1, <1>5
<1>7. /\ DOMAIN sends' = DOMAIN sends /\ sends'[x] = a
      /\ \A y \in DOMAIN sends : y # x => sends'[y] = sends[y]
  BY <1>1, <1>3, <1>5
<1>8. \A j \in DOMAIN outputs : j # i => Kept(j)
  BY <1>3, <1>4, <1>6, <1>7 DEF Kept, SendsOf
<1>9. [Store!Next]_journal
  BY <1>3 DEF Store!Next
<1> QED
  BY <1>1, <1>2, <1>4, <1>6, <1>7, <1>8, <1>9 DEF SettledAs

\* What is left of a drain's rows when it has settled the one in hand.
LEMMA SettledRows ==
  ASSUME IInv, NEW d \in Drains, drain[d].pc \in InHand, NEW error \in Errors \cup {""},
         NEW status \in {"pending", "delivered", "unknown"},
         Store!Settle(Row(d), drain[d].x, status, error), accepted' = accepted
  PROVE  \A j \in drain[d].todo : /\ j \in DOMAIN outputs' /\ outputs'[j].origin = outputs[j].origin
                                  /\ outputs'[j].status # "sending"
<1>1. PICK i \in DOMAIN outputs : i = Row(d)
  BY RowFacts DEF InHand
<1>2. PICK x : x = drain[d].x
  OBVIOUS
<1>3. SettledAs(i, x, status)
  <2>1. Store!Settle(i, x, status, error) /\ Store!TypeOK /\ Validate /\ accepted' = accepted
    BY <1>1, <1>2, Here
  <2> QED
    BY <2>1, SettleEffect
<1>4. \A j \in drain[d].todo : j \in DOMAIN outputs /\ (outputs[j].status = "sending" => j = i)
  BY <1>1, Here DEF LaneHeld, RowInHand
<1> QED
  BY <1>3, <1>4 DEF SettledAs

\* A drain settles its attempt as what the channel did.
LEMMA DrainSettles ==
  ASSUME IInv, NEW d \in Drains, drain[d].pc \in InHand, NEW error \in Errors \cup {""},
         NEW status \in {"pending", "delivered", "unknown"},
         Store!Settle(Row(d), drain[d].x, status, error), Moved(d),
         status = "pending" => drain[d].x \notin accepted,
         status = "delivered" => drain[d].x \in accepted,
         UNCHANGED <<accepted, orphans, failures>>, UNCHANGED hostVars
  PROVE  IInv'
<1>1. PICK i \in DOMAIN outputs : i = Row(d)
  BY RowFacts DEF InHand
<1>2. PICK x : x = drain[d].x
  OBVIOUS
<1>3. SettledAs(i, x, status)
  <2>1. Store!Settle(i, x, status, error) /\ Store!TypeOK /\ Validate /\ accepted' = accepted
    BY <1>1, <1>2, Here
  <2> QED
    BY <2>1, SettleEffect
<1>4. i \in drain[d].todo
  BY <1>1, RowFacts DEF InHand
<1>5. \A j \in drain[d].todo : outputs'[j].status # "sending"
  BY SettledRows
<1>6. Handed(d)
  BY <1>3, <1>4, <1>5 DEF Handed, SettledAs
<1>7. AttemptsTruthful'
  <2>1. /\ SendState(status) = "not_sent" => status = "pending"
        /\ SendState(status) = "delivered" => status = "delivered"
    BY DEF SendState
  <2>2. \A y \in DOMAIN sends : y # x => /\ sends'[y].status = "not_sent" => y \notin accepted
                                         /\ sends'[y].status = "delivered" => y \in accepted
    BY <1>3 DEF IInv, AttemptsTruthful, SettledAs
  <2> QED
    BY <1>2, <1>3, <2>1, <2>2 DEF AttemptsTruthful, SettledAs
<1>8. accepted' \subseteq DOMAIN sends' /\ orphans' \subseteq DOMAIN outputs'
  BY <1>3 DEF IInv, TypeOK, SettledAs
<1>9. \A j \in DOMAIN outputs : (Kept(j) \/ j \in drain[d].todo) /\ outputs'[j].origin = outputs[j].origin
  BY <1>3, <1>4 DEF SettledAs
<1> QED
  BY <1>3, <1>6, <1>7, <1>8, <1>9, Here, DrainMoves DEF SettledAs

\* A withheld send is settled as not sent; nothing entered the sender.
LEMMA WithholdStep ==
  ASSUME IInv, NEW d \in Drains, NEW error \in Errors \cup {""}, Withhold(d, error)
  PROVE  IInv'
<1>1. /\ drain[d].pc = "withhold" /\ Store!Settle(Row(d), drain[d].x, "pending", error)
      /\ Visit(d, Rest(d)) \/ Goto(d, "cancelSent") \/ Goto(d, "rescue")
      /\ UNCHANGED <<accepted, orphans, failures>> /\ UNCHANGED hostVars
  BY DEF Withhold, At, Then
<1>2. drain[d].pc \in InHand /\ drain[d].x \notin accepted /\ drain[d].x \in SendsOf(Row(d))
      /\ drain[d].entered = FALSE
  BY <1>1, Here DEF InHand, OutcomeTrue, RowInHand, HasSend, Drain
<1>3. PICK i \in DOMAIN outputs : i = Row(d)
  BY <1>2, RowFacts DEF InHand
<1>4. PICK x : x = drain[d].x
  OBVIOUS
<1>5. DOMAIN sends' = DOMAIN sends /\ sends'[x].out = i /\ x \in SendsOf(i)
  <2>1. Store!Settle(i, x, "pending", error) /\ Store!TypeOK /\ Validate /\ accepted' = accepted
    BY <1>1, <1>3, <1>4, Here
  <2>2. SettledAs(i, x, "pending")
    BY <2>1, SettleEffect
  <2> QED
    BY <2>2 DEF SettledAs
<1>6. \A j \in drain[d].todo : /\ j \in DOMAIN outputs' /\ outputs'[j].origin = outputs[j].origin
                               /\ outputs'[j].status # "sending"
  BY <1>1, <1>2, SettledRows
<1>7. Moved(d)
  <2>1. CASE Visit(d, Rest(d))
    BY <1>1, <1>6, <2>1, RestIsQuiet
  <2>2. ASSUME NEW p \in {"cancelSent", "rescue"}, Goto(d, p) PROVE Moved(d)
    <3> DEFINE v == [drain[d] EXCEPT !.pc = p]
    <3>1. drain' = [drain EXCEPT ![d] = v] /\ lane' = lane /\ p \in Points
      BY <2>2 DEF Goto, Points
    <3>2. /\ v \in Drain /\ v.pc = p /\ v.scope = drain[d].scope /\ v.todo = drain[d].todo
          /\ v.x = drain[d].x /\ v.entered = drain[d].entered
      BY <3>1, AtPoint
    <3> HIDE DEF v
    <3>3. Row(d) \in drain[d].todo
      BY <1>1, RowFacts
    <3>4. Fits(v, Row(d))
      BY <1>1, <1>2, <1>3, <1>4, <1>5, <1>6, <2>2, <3>2, <3>3 DEF Fits, HasSend, SendsOf
    <3>5. v.pc \notin {"off", "locking", "reading"}
      BY <3>2
    <3> QED
      BY <1>1, <1>6, <3>1, <3>2, <3>4, <3>5, InPlace
  <2> QED
    BY <1>1, <2>1, <2>2
<1> QED
  BY <1>1, <1>2, <1>7, DrainSettles

LEMMA SettleSendStep ==
  ASSUME IInv, NEW d \in Drains, NEW error \in Errors \cup {""}, SettleSend(d, error)
  PROVE  IInv'
<1>1. /\ drain[d].pc = "settle" /\ Store!Settle(Row(d), drain[d].x, drain[d].outcome, error)
      /\ Visit(d, Rest(d)) \/ Leave(d, "cancelled")
      /\ UNCHANGED <<accepted, orphans, failures>> /\ UNCHANGED hostVars
  BY DEF SettleSend, At, Then
<1>2. /\ drain[d].pc \in InHand /\ drain[d].outcome \in {"pending", "delivered", "unknown"}
      /\ drain[d].outcome = "delivered" => drain[d].x \in accepted
      /\ drain[d].outcome = "pending" => drain[d].x \notin accepted
  BY <1>1, Here DEF InHand, OutcomeTrue
<1>3. \A j \in drain[d].todo : /\ j \in DOMAIN outputs' /\ outputs'[j].origin = outputs[j].origin
                               /\ outputs'[j].status # "sending"
  BY <1>1, <1>2, SettledRows
<1>4. Moved(d)
  BY <1>1, <1>3, RestIsQuiet, Leaves
<1> QED
  BY <1>1, <1>2, <1>4, DrainSettles

LEMMA RescueSettleStep ==
  ASSUME IInv, NEW d \in Drains, NEW error \in Errors \cup {""}, RescueSettle(d, error)
  PROVE  IInv'
<1>1. /\ drain[d].pc = "rescueSettle" /\ Store!Settle(Row(d), drain[d].x, drain[d].outcome, error)
      /\ Leave(d, "cancelled")
      /\ UNCHANGED <<accepted, orphans, failures>> /\ UNCHANGED hostVars
  BY DEF RescueSettle, At
<1>2. /\ drain[d].pc \in InHand /\ drain[d].outcome \in {"pending", "delivered", "unknown"}
      /\ drain[d].outcome = "delivered" => drain[d].x \in accepted
      /\ drain[d].outcome = "pending" => drain[d].x \notin accepted
  BY <1>1, Here DEF InHand, OutcomeTrue
<1>3. Moved(d)
  BY <1>1, Leaves
<1> QED
  BY <1>1, <1>2, <1>3, DrainSettles

-----------------------------------------------------------------------------
(* The steps of the host. *)

\* What a step of the host leaves of the variables no drain touches.
HostOK ==
    /\ closer \in {"none", "asked", "joining", "closed"}
    /\ emitting \in [Origins -> Ordinals \cup {NoEmit}]
    /\ requested \in BOOLEAN /\ recovery \in {"off", "ready", "reading", "joining"}
    /\ joined \subseteq Drains /\ boots \in 0..MaxBoots

\* A new drain in a slot that was free.
NewDrain(e) ==
    /\ drain[e].pc = "off"
    /\ drain'[e].pc = "locking" /\ drain'[e].todo = {} /\ ~drain'[e].entered

\* Rows are kept when the tables are left alone.
LEMMA RowsAlone ==
  ASSUME UNCHANGED <<outputs, sends, accepted>>
  PROVE  \A i \in DOMAIN outputs : Kept(i)
BY DEF Kept, SendsOf

\* A step of the host keeps the invariant when it starts no send and disturbs
\* none.
LEMMA HostMoves ==
  ASSUME IInv, [Store!Next]_journal, open' => open, HostOK', drain' \in [Drains -> Drain],
         UNCHANGED <<sends, lane, accepted, orphans, failures>>,
         \A e \in Drains : SameDrain(e) \/ NewDrain(e),
         \A i \in DOMAIN outputs : Kept(i),
         \A i \in DOMAIN outputs' \ DOMAIN outputs : outputs'[i].status # "sending"
  PROVE  IInv'
<1>1. Store!TypeOK' /\ Validate'
  BY JournalStaysValid DEF IInv, TypeOK
<1>2. orphans \subseteq DOMAIN outputs'
  BY DEF IInv, TypeOK, Kept
<1>3. TypeOK'
  BY <1>1, <1>2 DEF IInv, TypeOK, HostOK
<1>4. ASSUME NEW e \in Drains PROVE DrainInv(e)'
  <2>1. CASE NewDrain(e)
    BY <2>1, FreshDrain DEF NewDrain
  <2>2. CASE SameDrain(e)
    <3>1. drain[e].pc \notin {"off", "locking"} => lane'[drain[e].scope] = e
      BY DEF IInv, DrainInv, LaneHeld
    <3>2. \A i \in drain[e].todo : Kept(i)
      BY DEF IInv, DrainInv, LaneHeld
    <3> QED
      BY <2>2, <3>1, <3>2, DrainKept
  <2> QED
    BY <2>1, <2>2
<1>5. AttemptsTruthful'
  BY DEF IInv, AttemptsTruthful
<1>6. SendingIsOwned'
  <2> SUFFICES ASSUME open, NEW i \in DOMAIN outputs', outputs'[i].status = "sending", i \notin orphans
               PROVE  \E e \in Drains :
                        /\ lane[ScopeOf[outputs'[i].origin]] = e
                        /\ drain'[e].pc \in InHand /\ Row(e)' = i
    BY DEF SendingIsOwned, InHand
  <2>1. /\ i \in DOMAIN outputs /\ outputs[i].status = "sending"
        /\ outputs'[i].origin = outputs[i].origin
    BY DEF Kept
  <2>2. PICK e \in Drains : /\ lane[ScopeOf[outputs[i].origin]] = e
                            /\ drain[e].pc \in InHand /\ Row(e) = i
    BY <2>1 DEF IInv, SendingIsOwned, InHand
  <2>3. SameDrain(e)
    BY <2>2 DEF NewDrain, InHand
  <2>4. Row(e)' = Row(e) /\ drain'[e].pc = drain[e].pc
    BY <2>3 DEF SameDrain, Row
  <2> QED
    BY <2>1, <2>2, <2>4
<1> QED
  BY <1>1, <1>3, <1>4, <1>5, <1>6 DEF IInv

\* The same when the tables are left alone.
LEMMA HostAlone ==
  ASSUME IInv, UNCHANGED journal, HostOK', drain' \in [Drains -> Drain],
         UNCHANGED <<lane, accepted, orphans, failures>>,
         \A e \in Drains : SameDrain(e) \/ NewDrain(e)
  PROVE  IInv'
<1>1. UNCHANGED <<open, outputs, sends>> /\ [Store!Next]_journal
  BY DEF journal
<1>2. \A i \in DOMAIN outputs : Kept(i)
  BY <1>1, RowsAlone
<1> QED
  BY <1>1, <1>2, HostMoves

\* The drains are where they were.
LEMMA DrainsStay ==
  ASSUME IInv, drain' = drain
  PROVE  drain' \in [Drains -> Drain] /\ \A e \in Drains : SameDrain(e) \/ NewDrain(e)
BY DEF IInv, TypeOK, SameDrain

LEMMA HostTypes == IInv => HostOK
BY DEF IInv, TypeOK, HostOK

LEMMA EmitStep ==
  ASSUME IInv, NEW o \in Origins, Emit(o) \/ EmitRefused(o)
  PROVE  IInv'
<1>1. emitting' \in [Origins -> Ordinals \cup {NoEmit}]
  BY HostTypes, ChunksAssumption DEF HostOK, Emit, EmitRefused
<1>2. HostOK'
  BY <1>1, HostTypes DEF HostOK, Emit, EmitRefused
<1> QED
  BY <1>2, DrainsStay, HostAlone DEF Emit, EmitRefused

LEMMA ReadyStep ==
  ASSUME IInv, ChannelsReady \/ RecoverRound \/ AskClose
  PROVE  IInv'
<1>1. HostOK'
  BY HostTypes DEF HostOK, ChannelsReady, RecoverRound, AskClose
<1> QED
  BY <1>1, DrainsStay, HostAlone DEF ChannelsReady, RecoverRound, AskClose

LEMMA CancelPendingStep ==
  ASSUME IInv, NEW s \in Scopes, NEW M \in SUBSET MessageIds, CancelPending(s, M)
  PROVE  IInv'
<1>1. /\ DOMAIN outputs' = DOMAIN outputs /\ sends' = sends /\ open' = open
      /\ \A i \in DOMAIN outputs : Kept(i)
  BY CancelEffect DEF CancelPending, IInv, TypeOK
<1>2. [Store!Next]_journal
  BY DEF CancelPending, Store!Next
<1>3. HostOK'
  BY HostTypes DEF HostOK, CancelPending, hostVars
<1> QED
  BY <1>1, <1>2, <1>3, DrainsStay, HostMoves DEF CancelPending

LEMMA CloseJournalStep ==
  ASSUME IInv, CloseJournal
  PROVE  IInv'
<1>1. UNCHANGED <<outputs, sends, accepted>> /\ open' = FALSE
  BY DEF CloseJournal, Store!Close
<1>2. [Store!Next]_journal
  BY DEF CloseJournal, Store!Next
<1>3. HostOK'
  BY HostTypes DEF HostOK, CloseJournal
<1> QED
  BY <1>1, <1>2, <1>3, DrainsStay, RowsAlone, HostMoves DEF CloseJournal

\* close cancels every drain that is alive.
LEMMA CancelDrainsStep ==
  ASSUME IInv, CancelDrains
  PROVE  IInv'
<1>1. HostOK'
  BY HostTypes DEF HostOK, CancelDrains
<1>2. drain \in [Drains -> Drain]
  BY DEF IInv, TypeOK
<1>3. ASSUME NEW e \in Drains PROVE drain'[e] \in Drain /\ SameDrain(e)
  <2>1. drain[e] \in Drain
    BY <1>2
  <2>2. drain'[e] = drain[e] \/ drain'[e] = [drain[e] EXCEPT !.cancelling = TRUE]
    BY DEF CancelDrains
  <2> QED
    BY <2>1, <2>2 DEF Drain, SameDrain
<1>4. drain' \in [Drains -> Drain]
  BY <1>3 DEF CancelDrains
<1> QED
  BY <1>1, <1>3, <1>4, HostAlone DEF CancelDrains

\* A resume takes the results of the drains it awaited.
LEMMA ResumeJoinStep ==
  ASSUME IInv, ResumeJoin
  PROVE  IInv'
<1>1. HostOK'
  BY HostTypes DEF HostOK, ResumeJoin
<1>2. drain \in [Drains -> Drain]
  BY DEF IInv, TypeOK
<1>3. ASSUME NEW e \in Drains PROVE drain'[e] \in Drain /\ SameDrain(e)
  <2>1. drain[e] \in Drain
    BY <1>2
  <2>2. drain'[e] = [drain[e] EXCEPT !.end = "none"]
    BY DEF ResumeJoin
  <2> QED
    BY <2>1, <2>2 DEF Drain, SameDrain
<1>4. drain' \in [Drains -> Drain]
  BY <1>3 DEF ResumeJoin
<1> QED
  BY <1>1, <1>3, <1>4, HostAlone DEF ResumeJoin

\* A new drain of a scope.
LEMMA FreshRecord ==
  ASSUME NEW s \in Scopes
  PROVE  LET v == [NoDrain EXCEPT !.pc = "locking", !.scope = s]
         IN  v \in Drain /\ v.pc = "locking" /\ v.todo = {} /\ v.entered = FALSE
BY DEF Drain, NoDrain, Points

\* A resume starts a drain in a free slot for each scope that has pending rows.
LEMMA ResumeStartStep ==
  ASSUME IInv, ResumeStart
  PROVE  IInv'
<1>1. CASE recovery' = "off" /\ UNCHANGED <<drain, joined>>
  <2>1. HostOK'
    BY <1>1, HostTypes DEF HostOK, ResumeStart
  <2> QED
    BY <1>1, <2>1, DrainsStay, HostAlone DEF ResumeStart
<1>2. CASE ~(recovery' = "off" /\ UNCHANGED <<drain, joined>>)
  <2> DEFINE P == PendingScopes
             Fresh(s) == [NoDrain EXCEPT !.pc = "locking", !.scope = s]
  <2>1. PICK f \in [P -> Drains] :
          /\ \A s \in P : Free(f[s])
          /\ drain' = [e \in Drains |-> IF \E s \in P : f[s] = e
                                        THEN Fresh(CHOOSE s \in P : f[s] = e) ELSE drain[e]]
          /\ joined' = {f[s] : s \in P} /\ recovery' = "joining"
    BY <1>2 DEF ResumeStart
  <2>2. P \subseteq Scopes
    BY Tables DEF PendingScopes, IInv, TypeOK
  <2>3. drain \in [Drains -> Drain]
    BY DEF IInv, TypeOK
  <2>4. ASSUME NEW e \in Drains
        PROVE  drain'[e] \in Drain /\ (SameDrain(e) \/ NewDrain(e))
    <3>1. CASE \E s \in P : f[s] = e
      <4>1. PICK s : s = CHOOSE t \in P : f[t] = e
        OBVIOUS
      <4>2. s \in P /\ f[s] = e
        BY <3>1, <4>1
      <4>3. drain'[e] = Fresh(s)
        BY <2>1, <3>1, <4>1
      <4>4. drain[e].pc = "off"
        BY <2>1, <4>2 DEF Free, At
      <4>5. Fresh(s) \in Drain /\ Fresh(s).pc = "locking" /\ Fresh(s).todo = {} /\ Fresh(s).entered = FALSE
        BY <2>2, <4>2, FreshRecord
      <4> QED
        BY <4>3, <4>4, <4>5 DEF NewDrain
    <3>2. CASE ~\E s \in P : f[s] = e
      <4>1. drain'[e] = drain[e]
        BY <2>1, <3>2
      <4> QED
        BY <2>3, <4>1 DEF SameDrain
    <3> QED
      BY <3>1, <3>2
  <2>5. drain' \in [Drains -> Drain]
    BY <2>1, <2>4
  <2>6. joined' \subseteq Drains
    BY <2>1
  <2>7. HostOK'
    BY <2>1, <2>6, HostTypes DEF HostOK, ResumeStart
  <2> QED
    BY <2>4, <2>5, <2>7, HostAlone DEF ResumeStart
<1> QED
  BY <1>1, <1>2

\* Rows stay when a chunk is appended, and the new one is pending.
LEMMA AppendEffect ==
  ASSUME Store!TypeOK, NEW o, NEW p, NEW n, NEW t, Store!AppendChunk(o, p, n, t), accepted' = accepted
  PROVE  /\ sends' = sends /\ open' = open
         /\ \A i \in DOMAIN outputs : Kept(i)
         /\ \A i \in DOMAIN outputs' \ DOMAIN outputs : outputs'[i].status # "sending"
<1> DEFINE r == [origin |-> o, ordinal |-> n, text |-> t, status |-> "pending", send |-> 0, error |-> ""]
<1>1. outputs' = Append(outputs, r) /\ sends' = sends /\ open' = open
  BY DEF Store!AppendChunk
<1>2. r.status = "pending"
  OBVIOUS
<1> HIDE DEF r
<1>3. outputs \in Seq(OutputRow)
  BY Tables
<1>4. /\ \A i \in DOMAIN outputs : i \in DOMAIN outputs' /\ outputs'[i] = outputs[i]
      /\ \A i \in DOMAIN outputs' \ DOMAIN outputs : outputs'[i] = r
  <2>1. /\ DOMAIN outputs = 1..Len(outputs) /\ DOMAIN outputs' = 1..(Len(outputs) + 1)
        /\ Len(outputs) \in Nat
    BY <1>1, <1>3
  <2>2. \A i \in 1..Len(outputs) : outputs'[i] = outputs[i]
    BY <1>1, <1>3
  <2>3. outputs'[Len(outputs) + 1] = r
    BY <1>1, <1>3
  <2>4. \A i \in 1..(Len(outputs) + 1) : i \in 1..Len(outputs) \/ i = Len(outputs) + 1
    BY <2>1
  <2>5. \A i \in 1..Len(outputs) : i \in 1..(Len(outputs) + 1)
    BY <2>1
  <2> QED
    BY <2>1, <2>2, <2>3, <2>4, <2>5
<1>5. \A i \in DOMAIN outputs : SendsOf(i)' = SendsOf(i)
  BY <1>1 DEF SendsOf
<1>6. \A i \in DOMAIN outputs : Kept(i)
  BY <1>4, <1>5 DEF Kept
<1> QED
  BY <1>1, <1>2, <1>4, <1>6

\* emit appends a chunk, and after the last one starts a drain in a free slot.
LEMMA EmitChunkStep ==
  ASSUME IInv, NEW o \in Origins, NEW p \in Payloads, NEW t \in Texts, NEW acked \in BOOLEAN,
         EmitChunk(o, p, t, acked)
  PROVE  IInv'
<1>1. PICK n : n = emitting[o]
  OBVIOUS
<1>2. n \in Ordinals
  BY <1>1, HostTypes DEF HostOK, EmitChunk
<1>3. /\ sends' = sends /\ open' = open /\ [Store!Next]_journal
      /\ \A i \in DOMAIN outputs : Kept(i)
      /\ \A i \in DOMAIN outputs' \ DOMAIN outputs : outputs'[i].status # "sending"
  <2>1. CASE Store!AppendChunk(o, p, n, t)
    <3>1. [Store!Next]_journal
      BY <1>2, <2>1 DEF Store!Next
    <3> QED
      BY <2>1, <3>1, AppendEffect DEF EmitChunk, IInv, TypeOK
  <2>2. CASE UNCHANGED journal
    BY <2>2, RowsAlone DEF EmitChunk, journal
  <2> QED
    BY <1>1, <2>1, <2>2 DEF EmitChunk
<1>4. emitting' \in [Origins -> Ordinals \cup {NoEmit}]
  <2>1. n + 1 < Chunks => n + 1 \in Ordinals
    <3>1. n \in Nat
      BY <1>2, OrdinalsAssumption
    <3>2. n + 1 < Chunks => n + 1 \in 0..(Chunks - 1)
      BY <3>1, ChunksAssumption
    <3> QED
      BY <3>2, ChunksAssumption
  <2>2. \/ emitting' = [emitting EXCEPT ![o] = NoEmit]
        \/ emitting' = [emitting EXCEPT ![o] = n + 1] /\ n + 1 < Chunks
    <3>1. CASE acked /\ n + 1 < Chunks
      BY <1>1, <3>1 DEF EmitChunk
    <3>2. CASE ~(acked /\ n + 1 < Chunks)
      BY <1>1, <3>2 DEF EmitChunk
    <3> QED
      BY <3>1, <3>2
  <2> QED
    BY <2>1, <2>2, HostTypes DEF HostOK
<1>5. HostOK'
  BY <1>4, HostTypes DEF HostOK, EmitChunk
<1>6. drain' \in [Drains -> Drain] /\ \A e \in Drains : SameDrain(e) \/ NewDrain(e)
  <2>1. CASE UNCHANGED drain
    BY <2>1, DrainsStay
  <2>2. CASE \E d \in Drains : Free(d) /\ drain' = Started(d, ScopeOf[o])
    <3>1. PICK d \in Drains : Free(d) /\ drain' = Started(d, ScopeOf[o])
      BY <2>2
    <3> DEFINE v == [NoDrain EXCEPT !.pc = "locking", !.scope = ScopeOf[o]]
    <3>2. v \in Drain /\ v.pc = "locking" /\ v.todo = {} /\ v.entered = FALSE
      BY OriginsAssumption, FreshRecord
    <3>3. drain' = [drain EXCEPT ![d] = v] /\ drain[d].pc = "off"
      BY <3>1 DEF Started, Free, At
    <3> HIDE DEF v
    <3>4. drain \in [Drains -> Drain]
      BY DEF IInv, TypeOK
    <3>5. drain' \in [Drains -> Drain] /\ drain'[d] = v /\ \A e \in Drains \ {d} : drain'[e] = drain[e]
      BY <3>2, <3>3, <3>4
    <3> QED
      BY <3>2, <3>3, <3>5 DEF SameDrain, NewDrain
  <2> QED
    BY <2>1, <2>2 DEF EmitChunk
<1> QED
  BY <1>3, <1>5, <1>6, HostMoves DEF EmitChunk

\* A step that leaves no drain alive and no row in sending, or the journal closed.
LEMMA ProcessEnds ==
  ASSUME IInv, [Store!Next]_journal, HostOK', drain' = [d \in Drains |-> NoDrain],
         lane' = [s \in Scopes |-> Nobody], orphans' = {}, UNCHANGED <<accepted, failures>>,
         accepted \subseteq DOMAIN sends', AttemptsTruthful',
         open' => \A i \in DOMAIN outputs' : outputs'[i].status # "sending"
  PROVE  IInv'
<1>1. Store!TypeOK' /\ Validate'
  BY JournalStaysValid DEF IInv, TypeOK
<1>2. drain' \in [Drains -> Drain] /\ lane' \in [Scopes -> Drains \cup {Nobody}]
  BY BlankDrain
<1>3. TypeOK'
  BY <1>1, <1>2 DEF IInv, TypeOK, HostOK
<1>4. \A e \in Drains : DrainInv(e)'
  BY BlankDrain, FreshDrain
<1>5. SendingIsOwned'
  BY DEF SendingIsOwned
<1> QED
  BY <1>1, <1>3, <1>4, <1>5 DEF IInv

\* The process dies: what was being sent stays so in the closed journal.
LEMMA CrashStep ==
  ASSUME IInv, Crash
  PROVE  IInv'
<1>1. UNCHANGED <<outputs, sends>> /\ open' = FALSE
  BY DEF Crash, Store!Close
<1>2. [Store!Next]_journal
  BY DEF Crash, Store!Next
<1>3. HostOK'
  BY HostTypes DEF HostOK, Crash
<1>4. accepted \subseteq DOMAIN sends' /\ AttemptsTruthful'
  BY <1>1 DEF IInv, TypeOK, AttemptsTruthful, Crash
<1> QED
  BY <1>1, <1>2, <1>3, <1>4, ProcessEnds DEF Crash

\* Opening the journal labels what was being sent as unknown, which claims
\* nothing of the channel.
LEMMA BootStep ==
  ASSUME IInv, Boot
  PROVE  IInv'
<1>1. /\ open' = TRUE
      /\ outputs' = [i \in DOMAIN outputs |-> Store!Recovered(outputs[i])]
      /\ sends' = [x \in DOMAIN sends |-> Store!Recovered(sends[x])]
  BY DEF Boot, Store!Open
<1>2. [Store!Next]_journal
  BY DEF Boot, Store!Next
<1>3. HostOK'
  <2>1. boots' \in 0..MaxBoots
    BY HostTypes, BoundsAssumption DEF HostOK, Boot
  <2> QED
    BY <2>1 DEF HostOK, Boot
<1>4. \A i \in DOMAIN outputs' : outputs'[i].status # "sending"
  BY <1>1, Tables DEF Store!Recovered, OutputRow, IInv, TypeOK
<1>5. \A x \in DOMAIN sends : \/ sends'[x] = sends[x]
                              \/ sends'[x].status = "unknown"
  BY <1>1, Tables DEF Store!Recovered, SendRow, IInv, TypeOK
<1>6. DOMAIN sends' = DOMAIN sends
  BY <1>1
<1>7. accepted \subseteq DOMAIN sends' /\ AttemptsTruthful'
  BY <1>5, <1>6 DEF IInv, TypeOK, AttemptsTruthful, Boot
<1> QED
  BY <1>2, <1>3, <1>4, <1>7, ProcessEnds DEF Boot

-----------------------------------------------------------------------------
(* The specification. *)

\* Before the first process there is no row.
LEMMA InitIInv == Init => IInv
<1> SUFFICES ASSUME Init PROVE IInv
  OBVIOUS
<1>1. /\ outputs = <<>> /\ sends = <<>> /\ open = FALSE
      /\ origins = [o \in Origins |-> Absent]
  BY DEF Init, Store!Init
<1>2. DOMAIN outputs = {} /\ DOMAIN sends = {}
  BY <1>1
<1>3. Store!TypeOK
  <2>1. outputs \in Seq(Store!OutputRow) /\ sends \in Seq(Store!SendRow)
    BY <1>1
  <2>2. open \in BOOLEAN /\ origins \in [Origins -> Payloads \cup {Absent}]
    BY <1>1
  <2> QED
    BY <2>1, <2>2 DEF Store!TypeOK
<1>4. Validate /\ AttemptsTruthful /\ SendingIsOwned
  BY <1>1, <1>2 DEF Validate, AttemptsTruthful, SendingIsOwned
<1>5. HostOK
  <2>1. emitting \in [Origins -> Ordinals \cup {NoEmit}]
    BY DEF Init
  <2>2. boots \in 0..MaxBoots
    BY BoundsAssumption DEF Init
  <2> QED
    BY <2>1, <2>2 DEF HostOK, Init
<1>6. drain \in [Drains -> Drain] /\ lane \in [Scopes -> Drains \cup {Nobody}] /\ failures \in 0..MaxFailures
  BY BlankDrain, BoundsAssumption DEF Init
<1>7. TypeOK
  BY <1>3, <1>5, <1>6 DEF TypeOK, HostOK, Init
<1>8. ASSUME NEW d \in Drains PROVE DrainInv(d)
  <2>1. drain[d].pc = "off" /\ drain[d].todo = {} /\ drain[d].entered = FALSE
    BY BlankDrain DEF Init
  <2> QED
    BY <2>1 DEF DrainInv, LaneHeld, RowInHand, OutcomeTrue, HasSend
<1> QED
  BY <1>4, <1>7, <1>8 DEF IInv

\* A step of a drain, its sender or its disk.
LEMMA DrainStepIInv ==
  ASSUME IInv, NEW d \in Drains, DrainStep(d) \/ SenderStep(d) \/ DiskFails(d)
  PROVE  IInv'
<1>1. CASE Lock(d)
  BY <1>1, LockStep
<1>2. CASE Read(d)
  BY <1>2, ReadStep
<1>3. CASE CancelRow(d) \/ CancelSent(d)
  BY <1>3, DrainCancels DEF CancelRow, CancelSent, At, Then
<1>4. CASE BeginCommit(d)
  BY <1>4, BeginCommitStep
<1>5. CASE BeginRefused(d)
  <2>1. failures \in 0..MaxFailures
    BY Here
  <2> QED
    BY <1>5, <2>1, BeginRefusedStep DEF BeginRefused, At
<1>6. CASE ReadRefused(d)
  BY <1>6, ReadRefusedStep
<1>7. CASE Interrupted(d)
  BY <1>7, InterruptedStep
<1>8. CASE RescueRead(d)
  BY <1>8, RescueReadStep
<1>9. CASE SettleRefused(d)
  BY <1>9, SettleRefusedStep
<1>10. CASE \E policy \in Policies :
              Recheck(d, policy) \/ \E reachable \in BOOLEAN : CheckPolicy(d, policy, reachable)
  BY <1>10, RecheckStep, CheckPolicyStep
<1>11. CASE \E error \in Errors \cup {""} :
              Withhold(d, error) \/ SettleSend(d, error) \/ RescueSettle(d, error)
  BY <1>11, WithholdStep, SettleSendStep, RescueSettleStep
<1>12. CASE SenderStep(d)
  BY <1>12, ChannelAcceptsStep, SenderEndsStep DEF SenderStep
<1>13. CASE DiskFails(d)
  BY <1>13, DiskFailsStep
<1> QED
  BY <1>1, <1>2, <1>3, <1>4, <1>5, <1>6, <1>7, <1>8, <1>9, <1>10, <1>11, <1>12, <1>13 DEF DrainStep

\* Every step of the delivery keeps the invariant.
LEMMA NextIInv == IInv /\ [Next]_vars => IInv'
<1> SUFFICES ASSUME IInv, [Next]_vars PROVE IInv'
  OBVIOUS
<1>1. CASE Boot
  BY <1>1, BootStep
<1>2. CASE ChannelsReady \/ RecoverRound \/ AskClose
  BY <1>2, ReadyStep
<1>3. CASE CancelDrains
  BY <1>3, CancelDrainsStep
<1>4. CASE CloseJournal
  BY <1>4, CloseJournalStep
<1>5. CASE Crash
  BY <1>5, CrashStep
<1>6. CASE \E o \in Origins : Emit(o) \/ EmitRefused(o)
  BY <1>6, EmitStep
<1>7. CASE \E o \in Origins, p \in Payloads, t \in Texts, acked \in BOOLEAN : EmitChunk(o, p, t, acked)
  BY <1>7, EmitChunkStep
<1>8. CASE \E s \in Scopes, M \in SUBSET MessageIds : CancelPending(s, M)
  BY <1>8, CancelPendingStep
<1>9. CASE ResumeStart
  BY <1>9, ResumeStartStep
<1>10. CASE ResumeJoin
  BY <1>10, ResumeJoinStep
<1>11. CASE \E d \in Drains : DrainStep(d) \/ SenderStep(d) \/ DiskFails(d)
  BY <1>11, DrainStepIInv
<1>12. CASE UNCHANGED vars
  <2>1. HostOK' /\ UNCHANGED journal
    BY <1>12, HostTypes DEF HostOK, vars, journal
  <2> QED
    BY <1>12, <2>1, DrainsStay, HostAlone DEF vars
<1> QED
  BY <1>1, <1>2, <1>3, <1>4, <1>5, <1>6, <1>7, <1>8, <1>9, <1>10, <1>11, <1>12 DEF Next, Recover

\* Every reachable state of the delivery satisfies the inductive invariant.
THEOREM DeliveryInvariance == Spec => []IInv
<1> QED BY InitIInv, NextIInv, PTL DEF Spec

-----------------------------------------------------------------------------
(* What the invariant shows. *)

\* Every step of the delivery is a step of the journal or leaves it alone.
LEMMA StepOfJournal ==
  ASSUME IInv, [Next]_vars
  PROVE  [Store!Next]_(Store!vars)
<1> USE DEF Store!vars, Store!journal
<1>1. CASE Boot \/ CloseJournal \/ Crash
  BY <1>1 DEF Boot, CloseJournal, Crash, Store!Next
<1>2. CASE AskClose \/ CancelDrains \/ ChannelsReady \/ Recover \/ UNCHANGED vars
  BY <1>2 DEF AskClose, CancelDrains, ChannelsReady, Recover, RecoverRound, ResumeStart, ResumeJoin,
              vars, journal
<1>3. CASE \E o \in Origins : Emit(o) \/ EmitRefused(o)
  BY <1>3 DEF Emit, EmitRefused, journal
<1>4. CASE \E o \in Origins, p \in Payloads, t \in Texts, acked \in BOOLEAN : EmitChunk(o, p, t, acked)
  <2>1. PICK o \in Origins, p \in Payloads, t \in Texts, acked \in BOOLEAN : EmitChunk(o, p, t, acked)
    BY <1>4
  <2>2. emitting[o] \in Ordinals
    BY <2>1, HostTypes DEF HostOK, EmitChunk
  <2>3. CASE Store!AppendChunk(o, p, emitting[o], t)
    BY <2>2, <2>3 DEF Store!Next
  <2>4. CASE UNCHANGED journal
    BY <2>4 DEF journal
  <2> QED
    BY <2>1, <2>3, <2>4 DEF EmitChunk
<1>5. CASE \E s \in Scopes, M \in SUBSET MessageIds : CancelPending(s, M)
  BY <1>5 DEF CancelPending, Store!Next
<1>6. ASSUME NEW d \in Drains, DrainStep(d) \/ SenderStep(d) \/ DiskFails(d)
      PROVE  [Store!Next]_(Store!vars)
  <2>1. CASE Lock(d) \/ Read(d) \/ BeginRefused(d) \/ ReadRefused(d) \/ Interrupted(d)
             \/ RescueRead(d) \/ SettleRefused(d)
    BY <2>1 DEF Lock, Read, BeginRefused, ReadRefused, Interrupted, RescueRead, SettleRefused, journal
  <2>2. CASE \E policy \in Policies :
               Recheck(d, policy) \/ \E reachable \in BOOLEAN : CheckPolicy(d, policy, reachable)
    BY <2>2 DEF Recheck, CheckPolicy, journal
  <2>3. CASE SenderStep(d) \/ DiskFails(d)
    BY <2>3 DEF SenderStep, ChannelAccepts, SenderEnds, DiskFails, journal
  <2>4. CASE CancelRow(d) \/ CancelSent(d)
    <3>1. /\ drain[d].pc \in {"cancelRow", "cancelSent"}
          /\ Store!CancelPending(drain[d].scope, {MessageOf[outputs[Row(d)].origin]})
      BY <2>4 DEF CancelRow, CancelSent, At
    <3>2. Row(d) \in DOMAIN outputs /\ drain[d].scope \in Scopes
      BY <3>1, RowFacts
    <3>3. {MessageOf[outputs[Row(d)].origin]} \in SUBSET MessageIds
      BY <3>2, Here, Tables
    <3> QED
      BY <3>1, <3>2, <3>3 DEF Store!Next
  <2>5. CASE BeginCommit(d)
    <3>1. Row(d) \in DOMAIN outputs
      BY <2>5, RowFacts DEF BeginCommit, At
    <3> QED
      BY <2>5, <3>1 DEF BeginCommit, Store!Next
  <2>6. CASE \E error \in Errors \cup {""} :
               Withhold(d, error) \/ SettleSend(d, error) \/ RescueSettle(d, error)
    <3>1. PICK error \in Errors \cup {""} :
               Withhold(d, error) \/ SettleSend(d, error) \/ RescueSettle(d, error)
      BY <2>6
    <3>2. PICK status : /\ Store!Settle(Row(d), drain[d].x, status, error)
                        /\ drain[d].pc \in {"withhold", "settle", "rescueSettle"}
                        /\ status = "pending" \/ (status = drain[d].outcome /\ drain[d].pc # "withhold")
      BY <3>1 DEF Withhold, SettleSend, RescueSettle, At
    <3>3. status \in {"pending", "delivered", "unknown"}
      BY <3>2, Here DEF OutcomeTrue
    <3>4. Row(d) \in DOMAIN outputs
      BY <3>2, RowFacts
    <3>5. drain[d].x \in DOMAIN sends
      BY <3>2, Here DEF RowInHand, HasSend, SendsOf
    <3> QED
      BY <3>2, <3>3, <3>4, <3>5 DEF Store!Next
  <2> QED
    BY <1>6, <2>1, <2>2, <2>3, <2>4, <2>5, <2>6 DEF DrainStep
<1> QED
  BY <1>1, <1>2, <1>3, <1>4, <1>5, <1>6 DEF Next

\* The delivery implements the journal: whatever its drains, their
\* cancellations, failures and restarts do, the tables only see operations of
\* OutputStore, each with arguments the store accepts.
THEOREM DeliveryRefinesStore == Spec => StoreSpec
<1>1. Init => Store!Init
  BY DEF Init
<1>2. IInv /\ [Next]_vars => [Store!Next]_(Store!vars)
  BY StepOfJournal
<1> QED
  BY <1>1, <1>2, DeliveryInvariance, PTL DEF Spec, StoreSpec, Store!Spec

\* Of the attempts of one row, at most one is not known to be unsent.
LEMMA OneUncertain ==
  ASSUME Validate
  PROVE  OneUncertainSend
<1> SUFFICES ASSUME NEW x \in DOMAIN sends, NEW y \in DOMAIN sends, sends[x].out = sends[y].out,
                    sends[x].status # "not_sent", sends[y].status # "not_sent"
             PROVE  x = y
  BY DEF OneUncertainSend
<1>1. RowValid(sends[x].out) /\ x \in SendsOf(sends[x].out) /\ y \in SendsOf(sends[x].out)
  BY DEF Validate, SendsOf
<1> QED
  BY <1>1 DEF RowValid

\* The channel never accepts an output twice: an attempt it accepted is not
\* recorded as not sent, and a row has one other attempt at most.
THEOREM NoSecondAcceptance == Spec => []NeverAcceptedTwice
<1>1. ASSUME IInv PROVE NeverAcceptedTwice
  <2>1. OneUncertainSend
    BY <1>1, OneUncertain DEF IInv
  <2>2. \A x \in accepted : x \in DOMAIN sends /\ sends[x].status # "not_sent"
    BY <1>1 DEF IInv, TypeOK, AttemptsTruthful
  <2> QED
    BY <2>1, <2>2 DEF NeverAcceptedTwice, OneUncertainSend
<1> QED
  BY <1>1, DeliveryInvariance, PTL

\* A delivered row left, and a cancelled one did not.
LEMMA RowsTruthful ==
  ASSUME IInv, NEW i \in DOMAIN outputs
  PROVE  /\ outputs[i].status = "delivered" => \E x \in accepted : sends[x].out = i
         /\ outputs[i].status = "cancelled" => \A x \in accepted : sends[x].out # i
<1>1. RowValid(i) /\ AttemptsTruthful /\ accepted \subseteq DOMAIN sends
  BY DEF IInv, Validate, TypeOK
<1>2. ASSUME outputs[i].status = "delivered" PROVE \E x \in accepted : sends[x].out = i
  <2>1. /\ outputs[i].send \in DOMAIN sends /\ sends[outputs[i].send].out = i
        /\ sends[outputs[i].send].status = "delivered"
    BY <1>1, <1>2 DEF RowValid, SendState, SendsOf
  <2> QED
    BY <1>1, <2>1 DEF AttemptsTruthful
<1>3. ASSUME outputs[i].status = "cancelled", NEW x \in accepted, sends[x].out = i PROVE FALSE
  <2>1. x \in SendsOf(i)
    BY <1>1, <1>3 DEF SendsOf
  <2>2. sends[x].status = "not_sent"
    BY <1>1, <1>3, <2>1 DEF RowValid, SendState
  <2> QED
    BY <1>1, <1>3, <2>2 DEF AttemptsTruthful
<1> QED
  BY <1>2, <1>3

\* What is reported of a message is what its rows say.
LEMMA StatusOfRows ==
  ASSUME NEW S, DeliveryStatus(S) \in {"delivered", "cancelled"}
  PROVE  \A i \in S : outputs[i].status = DeliveryStatus(S)
<1> DEFINE states == {outputs[i].status : i \in S}
<1>1. DeliveryStatus(S) = CASE states = {} -> "untracked"
                            [] states = {"delivered"} -> "delivered"
                            [] "unknown" \in states -> "unknown"
                            [] states # {} /\ states \subseteq {"pending", "sending"} -> "pending"
                            [] states = {"cancelled"} -> "cancelled"
                            [] OTHER -> "partial"
  BY DEF DeliveryStatus
<1>2. \A i \in S : outputs[i].status \in states
  OBVIOUS
<1> HIDE DEF states
<1>3. states = {"delivered"} => DeliveryStatus(S) = "delivered"
  BY <1>1
<1>4. states = {"cancelled"} => DeliveryStatus(S) = "cancelled"
  BY <1>1
<1>5. states = {"delivered"} \/ states = {"cancelled"}
  BY <1>1
<1> QED
  BY <1>2, <1>3, <1>4, <1>5

\* The receipts are truthful: an attempt, a message and the owner of a row being
\* sent are what the channel and the drains did.
THEOREM ReceiptsAlwaysTruthful == Spec => []ReceiptsTruthful
<1>1. ASSUME IInv PROVE StatusTruthful
  <2> SUFFICES ASSUME NEW m \in MessageIds
               PROVE  LET S == {i \in DOMAIN outputs : MessageOf[outputs[i].origin] = m}
                          Left(i) == \E x \in accepted : sends[x].out = i
                      IN  /\ DeliveryStatus(S) = "delivered" => \A i \in S : Left(i)
                          /\ DeliveryStatus(S) = "cancelled" => \A i \in S : ~Left(i)
    BY DEF StatusTruthful
  <2> DEFINE S == {i \in DOMAIN outputs : MessageOf[outputs[i].origin] = m}
  <2>1. \A i \in S : i \in DOMAIN outputs
    OBVIOUS
  <2> HIDE DEF S
  <2>2. ASSUME DeliveryStatus(S) = "delivered", NEW i \in S PROVE \E x \in accepted : sends[x].out = i
    BY <1>1, <2>1, <2>2, StatusOfRows, RowsTruthful
  <2>3. ASSUME DeliveryStatus(S) = "cancelled", NEW i \in S PROVE \A x \in accepted : sends[x].out # i
    BY <1>1, <2>1, <2>3, StatusOfRows, RowsTruthful
  <2> QED
    BY <2>2, <2>3 DEF S
<1>2. IInv => ReceiptsTruthful
  BY <1>1 DEF IInv, ReceiptsTruthful
<1> QED
  BY <1>2, DeliveryInvariance, PTL

\* The tables keep their types, and the drains, lanes and recovery theirs.
THEOREM DeliveryTypes == Spec => []TypeOK
<1>1. IInv => TypeOK
  BY DEF IInv
<1> QED
  BY <1>1, DeliveryInvariance, PTL
=============================================================================
