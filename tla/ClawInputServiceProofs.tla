----------------------- MODULE ClawInputServiceProofs -----------------------
(***************************************************************************)
(* The journal stays valid whoever calls it (ClawInputStore); the input    *)
(* service is an execution of the journal's specification, and its memory  *)
(* agrees with the journal (ClawInputService): for any number of scopes,   *)
(* messages and restarts.                                                  *)
(***************************************************************************)
EXTENDS ClawInputService, FiniteSetTheorems, TLAPS

-----------------------------------------------------------------------------
(* A table is a sequence of rows: what updating one row and inserting one do to it. *)

(* Replacing a member of a sequence keeps the sequence's type and length. *)
LEMMA SeqUpdate ==
    ASSUME NEW S, NEW q \in Seq(S), NEW k \in DOMAIN q, NEW v \in S
    PROVE  /\ [q EXCEPT ![k] = v] \in Seq(S)
           /\ Len([q EXCEPT ![k] = v]) = Len(q)
           /\ DOMAIN [q EXCEPT ![k] = v] = DOMAIN q
           /\ [q EXCEPT ![k] = v][k] = v
           /\ \A j \in DOMAIN q : j # k => [q EXCEPT ![k] = v][j] = q[j]
  OBVIOUS

(* So does appending one. *)
LEMMA SeqAppend ==
    ASSUME NEW S, NEW q \in Seq(S), NEW v \in S
    PROVE  /\ Append(q, v) \in Seq(S)
           /\ Len(Append(q, v)) = Len(q) + 1
           /\ DOMAIN Append(q, v) = DOMAIN q \cup {Len(q) + 1}
           /\ Append(q, v)[Len(q) + 1] = v
           /\ \A j \in DOMAIN q : Append(q, v)[j] = q[j]
  OBVIOUS

(* The rows of a table are numbered from 1. *)
LEMMA SeqDomain ==
    ASSUME NEW S, NEW q \in Seq(S)
    PROVE  DOMAIN q = 1..Len(q) /\ Len(q) \in Nat /\ 0 \notin DOMAIN q
  OBVIOUS

(* Inserting a row leaves the others alone, whatever the new row is. *)
LEMMA SeqAppendKeeps ==
    ASSUME NEW S, NEW q \in Seq(S), NEW v, NEW j \in DOMAIN q
    PROVE  Append(q, v)[j] = q[j]
  OBVIOUS

-----------------------------------------------------------------------------
(* Initially the journal is empty, and valid. *)
LEMMA JournalInit == Store!Init => JournalInv
  <1> SUFFICES ASSUME Store!Init PROVE JournalInv
    OBVIOUS
  <1>1. DOMAIN inputs = {} /\ DOMAIN attempts = {}
    BY DEF Store!Init
  <1>2. JournalTypeOK
    <2>1. inputs \in Seq(InputRow) /\ attempts \in Seq(AttemptRow) /\ authorized \in Seq(Nat)
      BY DEF Store!Init
    <2>2. namespace \in [Scopes -> Namespaces \cup {Unbound}]
      BY DEF Store!Init
    <2> QED BY <2>1, <2>2 DEF Store!Init, JournalTypeOK
  <1>3. ValidateReceipts
    BY <1>1 DEF ValidateReceipts, OneActive, RowsIn, Rows
  <1> QED BY <1>1, <1>2, <1>3 DEF JournalInv, ClaimedClean, RunningTimed

(* An operation that rewrites an input and its current attempt together keeps  *)
(* the invariant when the two new rows are valid in themselves, agree with     *)
(* each other and make no scope busier: start, finish, cancel, release and     *)
(* reject are of this form.                                                    *)
LEMMA UpdatePair ==
    ASSUME JournalInv, open' \in BOOLEAN, namespace' = namespace, authorized' = authorized,
           NEW a \in DOMAIN attempts, NEW i, i = attempts[a].seq, inputs[i].attempt = a,
           NEW r \in InputRow, NEW t \in AttemptRow,
           inputs' = [inputs EXCEPT ![i] = r],
           attempts' = [attempts EXCEPT ![a] = t],
           t.seq = i, r.scope = inputs[i].scope,
           AttemptFacts(t), InputFacts(r),
           t.status \in Active => r.attempt = a,
           r.attempt \in {0, a}, r.attempt = a => SameFacts(r, t),
           r.status \in Active => inputs[i].status \in Active,
           r.status = "claimed" => r.response = "" /\ r.error = "" /\ r.session = "",
           t.status = "running" => t.startedAt
    PROVE  JournalInv'
  <1>1. /\ i \in DOMAIN inputs /\ inputs \in Seq(InputRow) /\ attempts \in Seq(AttemptRow)
        /\ inputs[i].scope \in Scopes /\ a # 0
    BY SeqDomain DEF JournalInv, JournalTypeOK, ValidateReceipts, InputRow
  <1>2. /\ inputs' \in Seq(InputRow) /\ DOMAIN inputs' = DOMAIN inputs /\ Len(inputs') = Len(inputs)
        /\ inputs'[i] = r /\ \A j \in DOMAIN inputs : j # i => inputs'[j] = inputs[j]
    <2> HIDE DEF InputRow
    <2> QED BY ONLY <1>1, SeqUpdate, r \in InputRow, inputs' = [inputs EXCEPT ![i] = r]
  <1>3. /\ attempts' \in Seq(AttemptRow) /\ DOMAIN attempts' = DOMAIN attempts
        /\ attempts'[a] = t /\ \A b \in DOMAIN attempts : b # a => attempts'[b] = attempts[b]
    BY <1>1, SeqUpdate
  <1>4. JournalTypeOK'
    BY <1>2, <1>3 DEF JournalInv, JournalTypeOK
  <1>5. \A j \in DOMAIN inputs : inputs'[j].scope = inputs[j].scope
    BY <1>2
  <1>6. \A b \in DOMAIN attempts : attempts'[b].seq = attempts[b].seq
    BY <1>3
  <1>7. \A b \in DOMAIN attempts' :
          /\ attempts'[b].seq \in DOMAIN inputs'
          /\ AttemptFacts(attempts'[b])
          /\ attempts'[b].status \in Active => inputs'[attempts'[b].seq].attempt = b
    <2> SUFFICES ASSUME NEW b \in DOMAIN attempts
                 PROVE  /\ attempts'[b].seq \in DOMAIN inputs'
                        /\ AttemptFacts(attempts'[b])
                        /\ attempts'[b].status \in Active => inputs'[attempts'[b].seq].attempt = b
      BY <1>3
    <2>1. CASE b = a
      BY <2>1, <1>1, <1>2, <1>3
    <2>2. CASE b # a
      BY <2>2, <1>1, <1>2, <1>3 DEF JournalInv, ValidateReceipts
    <2> QED BY <2>1, <2>2
  <1>8. \A j \in DOMAIN inputs : AttemptsOf(j)' = AttemptsOf(j)
    <2> TAKE j \in DOMAIN inputs
    <2> QED BY ONLY <1>3, <1>6 DEF AttemptsOf
  <1>9. \A j \in DOMAIN inputs' :
          /\ namespace'[inputs'[j].scope] # Unbound
          /\ InputFacts(inputs'[j])
          /\ CurrentAttempt(j)'
    <2> SUFFICES ASSUME NEW j \in DOMAIN inputs
                 PROVE  /\ namespace'[inputs'[j].scope] # Unbound
                        /\ InputFacts(inputs'[j])
                        /\ CurrentAttempt(j)'
      BY <1>2
    <2>1. namespace'[inputs'[j].scope] # Unbound
      BY <1>5 DEF JournalInv, ValidateReceipts
    <2>2. InputFacts(inputs'[j])
      BY <1>2 DEF JournalInv, ValidateReceipts
    <2>3. CurrentAttempt(j)'
      <3>1. CASE j = i
        <4>2. a \in AttemptsOf(i) /\ \A b \in AttemptsOf(i) : b <= a
          BY <1>1 DEF JournalInv, ValidateReceipts, CurrentAttempt
        <4>3. AttemptsOf(i)' = AttemptsOf(i)
          BY <1>1, <1>8
        <4>4. CASE r.attempt = 0
          BY <3>1, <4>4, <1>2 DEF CurrentAttempt
        <4>5. CASE r.attempt = a
          <5>1. inputs'[j] = r /\ attempts'[a] = t /\ SameFacts(r, t)
            BY <3>1, <4>5, <1>2, <1>3
          <5> QED BY ONLY <3>1, <4>2, <4>3, <4>5, <5>1 DEF CurrentAttempt
        <4> QED BY <4>4, <4>5
      <3>2. CASE j # i
        <4>1. a \notin AttemptsOf(j)
          BY <3>2 DEF AttemptsOf
        <4>2. inputs[j].attempt \in AttemptsOf(j) => attempts'[inputs[j].attempt] = attempts[inputs[j].attempt]
          BY <4>1, <1>3 DEF AttemptsOf
        <4>3. CurrentAttempt(j)
          BY DEF JournalInv, ValidateReceipts
        <4>4. inputs'[j] = inputs[j] /\ AttemptsOf(j)' = AttemptsOf(j)
          BY <3>2, <1>2, <1>8
        <4> QED BY ONLY <4>2, <4>3, <4>4 DEF CurrentAttempt
      <3> QED BY <3>1, <3>2
    <2> QED BY <2>1, <2>2, <2>3
  <1>10. \A s \in Scopes : OneActive(s)'
    <2>1. \A s \in Scopes : RowsIn(s, Active)' \subseteq RowsIn(s, Active)
      BY <1>2, <1>5 DEF RowsIn, Rows
    <2>2. \A s \in Scopes : OneActive(s)
      BY DEF JournalInv, ValidateReceipts
    <2> QED BY ONLY <2>1, <2>2 DEF OneActive
  <1>11. ClaimedClean' /\ RunningTimed'
    BY <1>2, <1>3 DEF JournalInv, ClaimedClean, RunningTimed
  <1> QED BY <1>4, <1>7, <1>9, <1>10, <1>11 DEF JournalInv, ValidateReceipts

(* What Holds says of an attempt: it is the current one of its input. *)
LEMMA HoldsFacts ==
    ASSUME JournalInv, NEW a \in DOMAIN attempts, NEW st, Holds(a, st)
    PROVE  /\ attempts[a].seq \in DOMAIN inputs
           /\ inputs[attempts[a].seq].attempt = a
           /\ inputs[attempts[a].seq].status = st
           /\ inputs[attempts[a].seq] \in InputRow /\ attempts[a] \in AttemptRow
           /\ SameFacts(inputs[attempts[a].seq], attempts[a])
           /\ AttemptFacts(attempts[a]) /\ InputFacts(inputs[attempts[a].seq])
           /\ a # 0
  <1>1. inputs \in Seq(InputRow) /\ attempts \in Seq(AttemptRow) /\ a # 0
    BY SeqDomain DEF JournalInv, JournalTypeOK
  <1>2. attempts[a].seq \in DOMAIN inputs /\ AttemptFacts(attempts[a])
    BY DEF JournalInv, ValidateReceipts
  <1>3. CurrentAttempt(attempts[a].seq) /\ InputFacts(inputs[attempts[a].seq])
    BY <1>2 DEF JournalInv, ValidateReceipts
  <1> QED BY <1>1, <1>2, <1>3 DEF Holds, CurrentAttempt

(* start: a claimed pair becomes a running one, with its start time. *)
LEMMA JournalStart ==
    ASSUME JournalInv, NEW a \in DOMAIN attempts, NEW session \in Texts \cup {""}, Store!Start(a, session)
    PROVE  JournalInv'
  <1> DEFINE i == attempts[a].seq
             x == inputs[i]
             y == attempts[a]
             r == [x EXCEPT !.status = "running", !.session = session]
             t == [y EXCEPT !.status = "running", !.started = TRUE,
                             !.startedAt = TRUE, !.session = session]
  <1>1. /\ x \in InputRow /\ y \in AttemptRow /\ x.status = "claimed" /\ x.attempt = a /\ a # 0
        /\ SameFacts(x, y) /\ AttemptFacts(y) /\ InputFacts(x)
    BY HoldsFacts DEF Store!Start, Holds, Store!Holds
  <1>2. /\ inputs' = [inputs EXCEPT ![i] = r] /\ attempts' = [attempts EXCEPT ![a] = t]
        /\ open' \in BOOLEAN /\ namespace' = namespace /\ authorized' = authorized
    BY DEF Store!Start, JournalInv, JournalTypeOK, Holds, Store!Holds
  <1> HIDE DEF x, y
  <1>3. r \in InputRow /\ t \in AttemptRow
    BY <1>1 DEF InputRow, AttemptRow, Text, Statuses, AttemptStatuses
  <1>4. AttemptFacts(t) /\ InputFacts(r) /\ SameFacts(r, t)
    BY <1>1
    DEF AttemptFacts, InputFacts, SameFacts, ExecutionTimesValid, InputRow, AttemptRow,
        Statuses, AttemptStatuses
  <1>5. t.seq = y.seq /\ r.scope = x.scope /\ r.attempt = a /\ t.startedAt
        /\ r.status = "running" /\ x.status \in Active
    BY <1>1 DEF InputRow, AttemptRow, Active
  <1> HIDE DEF r, t
  <1> QED BY <1>1, <1>2, <1>3, <1>4, <1>5, UpdatePair DEF x, y

(* finish: a running pair is settled with what the executor reported. *)
LEMMA JournalFinish ==
    ASSUME JournalInv, NEW a \in DOMAIN attempts, NEW out \in Outcomes, Store!Finish(a, out)
    PROVE  JournalInv'
  <1> DEFINE i == attempts[a].seq
             x == inputs[i]
             y == attempts[a]
             r == [x EXCEPT !.status = out.status, !.response = out.response, !.error = out.error,
                       !.session = IF out.session = "" THEN x.session ELSE out.session]
             t == [y EXCEPT !.status = out.status, !.response = out.response, !.error = out.error,
                       !.session = IF out.session = "" THEN x.session ELSE out.session,
                       !.settledAt = TRUE]
  <1>1. /\ x \in InputRow /\ y \in AttemptRow /\ x.status = "running" /\ x.attempt = a /\ a # 0
        /\ SameFacts(x, y) /\ AttemptFacts(y) /\ InputFacts(x)
        /\ y.startedAt
    <2>1. Holds(a, "running")
      BY DEF Store!Finish, Holds, Store!Holds
    <2>2. attempts[a].status = "running" => attempts[a].startedAt
      BY DEF JournalInv, RunningTimed
    <2> QED BY <2>1, <2>2, HoldsFacts DEF SameFacts
  <1>2. /\ inputs' = [inputs EXCEPT ![i] = r] /\ attempts' = [attempts EXCEPT ![a] = t]
        /\ open' \in BOOLEAN /\ namespace' = namespace /\ authorized' = authorized
    BY DEF Store!Finish, JournalInv, JournalTypeOK, Holds, Store!Holds
  <1> HIDE DEF x, y
  <1>3. r \in InputRow /\ t \in AttemptRow
    BY <1>1, OutcomesAssumption DEF InputRow, AttemptRow, Text, Statuses, AttemptStatuses
  <1>4. AttemptFacts(t) /\ InputFacts(r) /\ SameFacts(r, t)
    BY <1>1, OutcomesAssumption
    DEF AttemptFacts, InputFacts, SameFacts, ExecutionTimesValid, InputRow, AttemptRow,
        Statuses, AttemptStatuses
  <1>5. t.seq = y.seq /\ r.scope = x.scope /\ r.attempt = a
        /\ r.status \notin Active /\ t.status \notin Active
    BY <1>1, OutcomesAssumption DEF InputRow, AttemptRow, Active
  <1> HIDE DEF r, t
  <1> QED BY <1>1, <1>2, <1>3, <1>4, <1>5, UpdatePair DEF x, y, Active

(* reject: a claimed pair fails without having been executed. *)
LEMMA JournalReject ==
    ASSUME JournalInv, NEW a \in DOMAIN attempts, NEW error \in Texts, Store!Reject(a, error)
    PROVE  JournalInv'
  <1> DEFINE i == attempts[a].seq
             x == inputs[i]
             y == attempts[a]
             r == [x EXCEPT !.status = "failed", !.error = error]
             t == [y EXCEPT !.status = "failed", !.error = error]
  <1>1. /\ x \in InputRow /\ y \in AttemptRow /\ x.status = "claimed" /\ x.attempt = a /\ a # 0
        /\ SameFacts(x, y) /\ AttemptFacts(y) /\ InputFacts(x)
    BY HoldsFacts DEF Store!Reject, Holds, Store!Holds
  <1>2. /\ inputs' = [inputs EXCEPT ![i] = r] /\ attempts' = [attempts EXCEPT ![a] = t]
        /\ open' \in BOOLEAN /\ namespace' = namespace /\ authorized' = authorized
    BY DEF Store!Reject, JournalInv, JournalTypeOK, Holds, Store!Holds
  <1> HIDE DEF x, y
  <1>3. r \in InputRow /\ t \in AttemptRow
    BY <1>1 DEF InputRow, AttemptRow, Text, Statuses, AttemptStatuses
  <1>4. AttemptFacts(t) /\ InputFacts(r) /\ SameFacts(r, t)
    BY <1>1
    DEF AttemptFacts, InputFacts, SameFacts, ExecutionTimesValid, InputRow, AttemptRow,
        Statuses, AttemptStatuses
  <1>5. t.seq = y.seq /\ r.scope = x.scope /\ r.attempt = a
        /\ r.status \notin Active /\ t.status \notin Active
    BY <1>1 DEF InputRow, AttemptRow, Active
  <1> HIDE DEF r, t
  <1> QED BY <1>1, <1>2, <1>3, <1>4, <1>5, UpdatePair DEF x, y, Active

(* release: the claim becomes history and its input is pending again; it is
   clean because a claimed input is. *)
LEMMA JournalRelease ==
    ASSUME JournalInv, NEW a \in DOMAIN attempts, Store!Release(a)
    PROVE  JournalInv'
  <1> DEFINE i == attempts[a].seq
             x == inputs[i]
             y == attempts[a]
             r == [x EXCEPT !.status = "pending", !.attempt = 0]
             t == [y EXCEPT !.status = "released"]
  <1>1. /\ x \in InputRow /\ y \in AttemptRow /\ x.status = "claimed" /\ x.attempt = a /\ a # 0
        /\ SameFacts(x, y) /\ AttemptFacts(y) /\ InputFacts(x)
        /\ x.response = "" /\ x.error = "" /\ x.session = ""
    <2>1. Holds(a, "claimed")
      BY DEF Store!Release, Holds, Store!Holds
    <2>2. \A j \in DOMAIN inputs : inputs[j].status = "claimed" =>
            inputs[j].response = "" /\ inputs[j].error = "" /\ inputs[j].session = ""
      BY DEF JournalInv, ClaimedClean
    <2>3. /\ x \in InputRow /\ y \in AttemptRow /\ x.status = "claimed" /\ x.attempt = a /\ a # 0
          /\ SameFacts(x, y) /\ AttemptFacts(y) /\ InputFacts(x) /\ i \in DOMAIN inputs
      BY <2>1, HoldsFacts
    <2> QED BY <2>2, <2>3
  <1>2. /\ inputs' = [inputs EXCEPT ![i] = r] /\ attempts' = [attempts EXCEPT ![a] = t]
        /\ open' \in BOOLEAN /\ namespace' = namespace /\ authorized' = authorized
    BY DEF Store!Release, JournalInv, JournalTypeOK, Holds, Store!Holds
  <1> HIDE DEF x, y
  <1>3. r \in InputRow /\ t \in AttemptRow
    <2>1. r \in InputRow
      BY <1>1 DEF InputRow, Statuses
    <2>2. t \in AttemptRow
      BY <1>1 DEF AttemptRow, AttemptStatuses
    <2> QED BY <2>1, <2>2
  <1>4. AttemptFacts(t) /\ InputFacts(r)
    <2>1. InputFacts(r)
      BY <1>1 DEF InputFacts, InputRow, Statuses
    <2>2. AttemptFacts(t)
      <3>1. y.status = "claimed" /\ ~y.started
        BY <1>1 DEF SameFacts, AttemptFacts
      <3> QED BY <1>1, <3>1 DEF AttemptFacts, ExecutionTimesValid, AttemptRow, Statuses, AttemptStatuses
    <2> QED BY <2>1, <2>2
  <1>5. t.seq = y.seq /\ r.scope = x.scope /\ r.attempt = 0
        /\ r.status \notin Active /\ t.status \notin Active
    BY <1>1 DEF InputRow, AttemptRow, Active
  <1> HIDE DEF r, t
  <1> QED BY <1>1, <1>2, <1>3, <1>4, <1>5, UpdatePair DEF x, y, Active

(* An operation that rewrites an input which has no active attempt, and leaves *)
(* it with none: retry, and cancel of a pending input.                         *)
LEMMA UpdateInput ==
    ASSUME JournalInv, open' \in BOOLEAN, namespace' = namespace, attempts' = attempts,
           authorized' \in Seq(Nat), Len(authorized') = Len(authorized),
           NEW i \in DOMAIN inputs, inputs[i].status \notin Active,
           NEW r \in InputRow, inputs' = [inputs EXCEPT ![i] = r],
           r.scope = inputs[i].scope, InputFacts(r), r.attempt = 0, r.status \notin Active
    PROVE  JournalInv'
  <1>1. inputs \in Seq(InputRow) /\ attempts \in Seq(AttemptRow) /\ 0 \notin DOMAIN attempts
    BY SeqDomain DEF JournalInv, JournalTypeOK
  <1>2. /\ inputs' \in Seq(InputRow) /\ DOMAIN inputs' = DOMAIN inputs /\ Len(inputs') = Len(inputs)
        /\ inputs'[i] = r /\ \A j \in DOMAIN inputs : j # i => inputs'[j] = inputs[j]
    BY <1>1, SeqUpdate
  <1>3. JournalTypeOK'
    BY <1>2 DEF JournalInv, JournalTypeOK
  <1>4. \A b \in DOMAIN attempts : attempts[b].status \in Active => attempts[b].seq # i
    <2> SUFFICES ASSUME NEW b \in DOMAIN attempts, attempts[b].status \in Active,
                        attempts[b].seq = i
                 PROVE  FALSE
      OBVIOUS
    <2>1. inputs[i].attempt = b /\ CurrentAttempt(i)
      BY DEF JournalInv, ValidateReceipts
    <2> QED BY <2>1, <1>1 DEF CurrentAttempt, SameFacts
  <1>5. \A b \in DOMAIN attempts' :
          /\ attempts'[b].seq \in DOMAIN inputs'
          /\ AttemptFacts(attempts'[b])
          /\ attempts'[b].status \in Active => inputs'[attempts'[b].seq].attempt = b
    BY <1>2, <1>4 DEF JournalInv, ValidateReceipts
  <1>6. \A j \in DOMAIN inputs' :
          /\ namespace'[inputs'[j].scope] # Unbound
          /\ InputFacts(inputs'[j])
          /\ CurrentAttempt(j)'
    <2> SUFFICES ASSUME NEW j \in DOMAIN inputs
                 PROVE  /\ namespace'[inputs'[j].scope] # Unbound
                        /\ InputFacts(inputs'[j])
                        /\ CurrentAttempt(j)'
      BY <1>2
    <2>1. namespace[inputs[j].scope] # Unbound /\ InputFacts(inputs[j]) /\ CurrentAttempt(j)
      BY DEF JournalInv, ValidateReceipts
    <2>2. AttemptsOf(j)' = AttemptsOf(j)
      BY DEF AttemptsOf
    <2>3. CASE j = i
      BY <2>1, <2>3, <1>2 DEF CurrentAttempt
    <2>4. CASE j # i
      BY <2>1, <2>2, <2>4, <1>2 DEF CurrentAttempt
    <2> QED BY <2>3, <2>4
  <1>7. \A s \in Scopes : OneActive(s)'
    <2>1. \A s \in Scopes : RowsIn(s, Active)' \subseteq RowsIn(s, Active)
      BY <1>2 DEF RowsIn, Rows
    <2>2. \A s \in Scopes : OneActive(s)
      BY DEF JournalInv, ValidateReceipts
    <2> QED BY ONLY <2>1, <2>2 DEF OneActive
  <1>8. ClaimedClean' /\ RunningTimed'
    BY <1>2 DEF JournalInv, ClaimedClean, RunningTimed, Active
  <1> QED BY <1>3, <1>5, <1>6, <1>7, <1>8 DEF JournalInv, ValidateReceipts

(* retry: a failed or interrupted input is pending again, with no attempt. *)
LEMMA JournalRetry ==
    ASSUME JournalInv, NEW i \in DOMAIN inputs, NEW c \in Capacities, Store!Retry(i, c)
    PROVE  JournalInv'
  <1> DEFINE x == inputs[i]
             r == [x EXCEPT !.status = "pending", !.attempt = 0,
                            !.response = "", !.error = "", !.session = ""]
  <1>1. x \in InputRow /\ x.status \notin Active
    BY DEF Store!Retry, JournalInv, JournalTypeOK, Active
  <1>2. /\ inputs' = [inputs EXCEPT ![i] = r] /\ attempts' = attempts
        /\ open' \in BOOLEAN /\ namespace' = namespace
    BY DEF Store!Retry, JournalInv, JournalTypeOK
  <1>3. authorized' \in Seq(Nat) /\ Len(authorized') = Len(authorized)
    <2>1. i \in DOMAIN authorized /\ authorized \in Seq(Nat)
      BY SeqDomain DEF JournalInv, JournalTypeOK
    <2>2. authorized[i] + 1 \in Nat /\ authorized' = [authorized EXCEPT ![i] = authorized[i] + 1]
      BY <2>1 DEF Store!Retry
    <2> QED BY ONLY <2>1, <2>2, SeqUpdate
  <1> HIDE DEF x
  <1>4. r \in InputRow /\ r.scope = x.scope /\ InputFacts(r) /\ r.attempt = 0 /\ r.status \notin Active
    BY <1>1 DEF InputRow, InputFacts, Text, Statuses, Active
  <1> HIDE DEF r
  <1> QED BY <1>1, <1>2, <1>3, <1>4, UpdateInput DEF x

(* cancel: a pending input alone, or a claimed one with its attempt. *)
LEMMA JournalCancel ==
    ASSUME JournalInv, NEW i \in DOMAIN inputs, Store!Cancel(i)
    PROVE  JournalInv'
  <1> DEFINE x == inputs[i]
             r == [x EXCEPT !.status = "cancelled"]
  <1>1. x \in InputRow /\ x.status \in {"pending", "claimed"} /\ InputFacts(x) /\ CurrentAttempt(i)
    BY DEF Store!Cancel, JournalInv, JournalTypeOK, ValidateReceipts
  <1>2. /\ inputs' = [inputs EXCEPT ![i] = r]
        /\ open' \in BOOLEAN /\ namespace' = namespace /\ authorized' = authorized
    BY DEF Store!Cancel, JournalInv, JournalTypeOK
  <1>3. CASE x.attempt = 0
    <2>1. attempts' = attempts /\ authorized \in Seq(Nat) /\ x.status \notin Active
      BY <1>1, <1>3 DEF Store!Cancel, JournalInv, JournalTypeOK, InputFacts, Active
    <2> HIDE DEF x
    <2>2. r \in InputRow /\ r.scope = x.scope /\ InputFacts(r) /\ r.attempt = 0 /\ r.status \notin Active
      BY <1>1, <1>3 DEF InputRow, InputFacts, Statuses, Active
    <2> HIDE DEF r
    <2> QED BY <1>1, <1>2, <2>1, <2>2, UpdateInput DEF x
  <1>4. CASE x.attempt # 0
    <2> DEFINE a == x.attempt
               y == attempts[a]
               t == [y EXCEPT !.status = "cancelled"]
    <2>1. /\ a \in DOMAIN attempts /\ y \in AttemptRow /\ y.seq = i /\ SameFacts(x, y)
          /\ AttemptFacts(y) /\ x.status = "claimed"
      <3>1. a \in AttemptsOf(i) /\ SameFacts(x, y)
        BY <1>1, <1>4 DEF CurrentAttempt
      <3>2. a \in DOMAIN attempts /\ y.seq = i
        BY <3>1 DEF AttemptsOf
      <3>3. y \in AttemptRow /\ AttemptFacts(y)
        BY <3>2 DEF JournalInv, JournalTypeOK, ValidateReceipts
      <3> QED BY <3>1, <3>2, <3>3, <1>1, <1>4 DEF InputFacts
    <2>2. attempts' = [attempts EXCEPT ![a] = t]
      BY <1>4 DEF Store!Cancel
    <2> HIDE DEF x, y, a
    <2>3. r \in InputRow /\ t \in AttemptRow /\ r.attempt = x.attempt /\ r.scope = x.scope /\ t.seq = i
      BY <1>1, <2>1 DEF InputRow, AttemptRow, Statuses, AttemptStatuses
    <2>4. InputFacts(r) /\ AttemptFacts(t) /\ SameFacts(r, t) /\ r.status = "cancelled" /\ t.status = "cancelled"
      BY <1>1, <2>1, <1>4 DEF InputFacts, AttemptFacts, SameFacts, ExecutionTimesValid,
                              InputRow, AttemptRow, Statuses, AttemptStatuses
    <2> HIDE DEF r, t
    <2> QED BY <1>1, <1>2, <2>1, <2>2, <2>3, <2>4, UpdatePair DEF x, y, a, Active
  <1> QED BY <1>3, <1>4

(* The rows of the two tables have the declared shape. *)
LEMMA RowTypes ==
    ASSUME JournalInv
    PROVE  /\ \A i \in DOMAIN inputs : inputs[i] \in InputRow /\ inputs[i].scope \in Scopes
           /\ \A a \in DOMAIN attempts : attempts[a] \in AttemptRow
  <1>1. inputs \in Seq(InputRow) /\ attempts \in Seq(AttemptRow)
    BY DEF JournalInv, JournalTypeOK
  <1>2. \A i \in DOMAIN inputs : inputs[i] \in InputRow
    BY <1>1
  <1>3. \A a \in DOMAIN attempts : attempts[a] \in AttemptRow
    BY <1>1
  <1> QED BY <1>2, <1>3 DEF InputRow

(* Nothing the invariant speaks of depends on who holds the lease. *)
LEMMA JournalFrame ==
    ASSUME JournalInv, open' \in BOOLEAN,
           UNCHANGED <<namespace, inputs, attempts, authorized>>
    PROVE  JournalInv'
  <1>1. JournalTypeOK' /\ ClaimedClean' /\ RunningTimed'
    BY DEF JournalInv, JournalTypeOK, ClaimedClean, RunningTimed
  <1>2. \A s \in Scopes : OneActive(s)'
    BY DEF JournalInv, ValidateReceipts, OneActive, RowsIn, Rows
  <1>3. \A i \in DOMAIN inputs : CurrentAttempt(i)'
    BY DEF JournalInv, ValidateReceipts, CurrentAttempt, AttemptsOf
  <1> QED BY <1>1, <1>2, <1>3 DEF JournalInv, ValidateReceipts

(* close leaves the database alone. *)
LEMMA JournalClose == JournalInv /\ Store!Close => JournalInv'
  BY JournalFrame DEF Store!Close

(* Binding keeps the type of the table and never unbinds a scope. *)
LEMMA BindFacts ==
    ASSUME JournalTypeOK, NEW s \in Scopes, Store!Bind(s)
    PROVE  /\ namespace' \in [Scopes -> Namespaces \cup {Unbound}]
           /\ namespace'[s] # Unbound
           /\ \A t \in Scopes : namespace[t] # Unbound => namespace'[t] # Unbound
  BY UnboundAssumption DEF Store!Bind, JournalTypeOK

(* Binding a scope touches no row. *)
LEMMA JournalBindScope ==
    ASSUME JournalInv, NEW s \in Scopes, Store!BindScope(s)
    PROVE  JournalInv'
  <1>1. /\ namespace' \in [Scopes -> Namespaces \cup {Unbound}]
        /\ \A t \in Scopes : namespace[t] # Unbound => namespace'[t] # Unbound
    BY BindFacts DEF Store!BindScope, JournalInv
  <1>2. open' = open /\ inputs' = inputs /\ attempts' = attempts /\ authorized' = authorized
    BY DEF Store!BindScope
  <1>3. JournalTypeOK' /\ ClaimedClean' /\ RunningTimed'
    BY <1>1, <1>2 DEF JournalInv, JournalTypeOK, ClaimedClean, RunningTimed
  <1>4. \A j \in DOMAIN inputs : inputs[j].scope \in Scopes
    BY RowTypes
  <1> QED BY <1>1, <1>2, <1>3, <1>4
          DEF JournalInv, ValidateReceipts, CurrentAttempt, AttemptsOf, OneActive, RowsIn, Rows

(* enqueue: a new row, of a bound scope, that no attempt names. *)
LEMMA JournalEnqueue ==
    ASSUME JournalInv, NEW s \in Scopes, NEW m \in Messages, NEW p \in Payloads,
           NEW c \in Capacities, Store!Enqueue(s, m, p, c)
    PROVE  JournalInv'
  <1> DEFINE r == [scope |-> s, message |-> m, payload |-> p, status |-> "pending",
                   attempt |-> 0, response |-> "", error |-> "", session |-> ""]
             n == Len(inputs) + 1
  <1>1. /\ namespace' \in [Scopes -> Namespaces \cup {Unbound}] /\ namespace'[s] # Unbound
        /\ \A t \in Scopes : namespace[t] # Unbound => namespace'[t] # Unbound
    BY BindFacts DEF Store!Enqueue, JournalInv
  <1>2. /\ open' = open /\ attempts' = attempts
        /\ inputs' = Append(inputs, r) /\ authorized' = Append(authorized, 1)
    BY DEF Store!Enqueue
  <1>3. r \in InputRow /\ InputFacts(r) /\ r.status = "pending" /\ r.attempt = 0 /\ r.scope = s
    BY DEF InputRow, InputFacts, Statuses, Text
  <1> HIDE DEF r
  <1>4. inputs \in Seq(InputRow) /\ authorized \in Seq(Nat) /\ Len(authorized) = Len(inputs)
        /\ attempts \in Seq(AttemptRow)
    BY DEF JournalInv, JournalTypeOK
  <1>5. /\ inputs' \in Seq(InputRow) /\ DOMAIN inputs' = DOMAIN inputs \cup {n}
        /\ Len(inputs') = n /\ n \notin DOMAIN inputs
        /\ inputs'[n] = r /\ \A j \in DOMAIN inputs : inputs'[j] = inputs[j]
    BY <1>2, <1>3, <1>4, SeqAppend, SeqDomain
  <1>6. authorized' \in Seq(Nat) /\ Len(authorized') = n
    BY <1>2, <1>4, SeqAppend
  <1> HIDE DEF n
  <1>7. JournalTypeOK'
    BY <1>1, <1>2, <1>4, <1>5, <1>6 DEF JournalInv, JournalTypeOK
  <1>8. \A b \in DOMAIN attempts : attempts[b].seq \in DOMAIN inputs
    BY DEF JournalInv, ValidateReceipts
  <1>9. \A b \in DOMAIN attempts' :
          /\ attempts'[b].seq \in DOMAIN inputs'
          /\ AttemptFacts(attempts'[b])
          /\ attempts'[b].status \in Active => inputs'[attempts'[b].seq].attempt = b
    BY <1>2, <1>5, <1>8 DEF JournalInv, ValidateReceipts
  <1>10. \A j \in DOMAIN inputs' :
          /\ namespace'[inputs'[j].scope] # Unbound
          /\ InputFacts(inputs'[j])
          /\ CurrentAttempt(j)'
    <2> SUFFICES ASSUME NEW j \in DOMAIN inputs'
                 PROVE  /\ namespace'[inputs'[j].scope] # Unbound
                        /\ InputFacts(inputs'[j])
                        /\ CurrentAttempt(j)'
      OBVIOUS
    <2>1. CASE j = n
      BY <2>1, <1>1, <1>3, <1>5 DEF CurrentAttempt
    <2>2. CASE j \in DOMAIN inputs
      <3>1. namespace[inputs[j].scope] # Unbound /\ InputFacts(inputs[j]) /\ CurrentAttempt(j)
            /\ inputs[j].scope \in Scopes
        BY <2>2, RowTypes DEF JournalInv, ValidateReceipts
      <3>2. AttemptsOf(j)' = AttemptsOf(j)
        BY <1>2 DEF AttemptsOf
      <3> QED BY <2>2, <3>1, <3>2, <1>1, <1>2, <1>5 DEF CurrentAttempt
    <2> QED BY <2>1, <2>2, <1>5
  <1>11. \A u \in Scopes : OneActive(u)'
    <2>1. \A u \in Scopes : RowsIn(u, Active)' \subseteq RowsIn(u, Active)
      BY <1>3, <1>5 DEF RowsIn, Rows, Active
    <2>2. \A u \in Scopes : OneActive(u)
      BY DEF JournalInv, ValidateReceipts
    <2> QED BY ONLY <2>1, <2>2 DEF OneActive
  <1>12. ClaimedClean' /\ RunningTimed'
    BY <1>2, <1>3, <1>5 DEF JournalInv, ClaimedClean, RunningTimed
  <1> QED BY <1>7, <1>9, <1>10, <1>11, <1>12 DEF JournalInv, ValidateReceipts

(* claim: the new attempt is the last of its input, and the only active one of
   its scope. *)
LEMMA JournalClaim ==
    ASSUME JournalInv, NEW s \in Scopes, Store!Claim(s)
    PROVE  JournalInv'
  <1> DEFINE t(i) == [seq |-> i, status |-> "claimed", started |-> FALSE,
                      startedAt |-> FALSE, settledAt |-> FALSE,
                      response |-> "", error |-> "", session |-> ""]
             n == Len(attempts) + 1
             r(i) == [inputs[i] EXCEPT !.status = "claimed", !.attempt = n]
  <1>1. PICK i \in DOMAIN inputs :
          /\ Store!Claimable(s, i)
          /\ attempts' = Append(attempts, t(i))
          /\ inputs' = [inputs EXCEPT ![i] = r(i)]
    BY DEF Store!Claim
  <1>2. open' = open /\ namespace' = namespace /\ authorized' = authorized
    BY DEF Store!Claim
  <1>3. inputs \in Seq(InputRow) /\ attempts \in Seq(AttemptRow) /\ DOMAIN inputs \subseteq Nat
        /\ n \in Nat /\ n # 0 /\ n \notin DOMAIN attempts /\ \A b \in DOMAIN attempts : b <= n
    BY SeqDomain DEF JournalInv, JournalTypeOK
  <1>4. /\ inputs[i] \in InputRow /\ InputFacts(inputs[i]) /\ inputs[i].status = "pending"
        /\ inputs[i].scope = s
    BY <1>1, RowTypes
    DEF Store!Claimable, RowsIn, Rows, JournalInv, ValidateReceipts, Store!RowsIn, Store!Rows, Active, Store!Active
  <1> HIDE DEF n
  <1>5. /\ r(i) \in InputRow /\ InputFacts(r(i)) /\ r(i).status = "claimed"
        /\ r(i).attempt = n /\ r(i).scope = s
        /\ r(i).response = "" /\ r(i).error = "" /\ r(i).session = ""
    BY <1>3, <1>4 DEF InputRow, InputFacts, Statuses
  <1>6. /\ t(i) \in AttemptRow /\ AttemptFacts(t(i)) /\ t(i).seq = i /\ t(i).status = "claimed"
        /\ t(i).response = "" /\ t(i).error = "" /\ t(i).session = ""
    BY <1>3 DEF AttemptRow, AttemptFacts, ExecutionTimesValid, AttemptStatuses, Statuses, Text
  <1> HIDE DEF r, t
  <1>7. /\ inputs' \in Seq(InputRow) /\ DOMAIN inputs' = DOMAIN inputs /\ Len(inputs') = Len(inputs)
        /\ inputs'[i] = r(i) /\ \A j \in DOMAIN inputs : j # i => inputs'[j] = inputs[j]
    <2>1. /\ inputs \in Seq(InputRow) /\ i \in DOMAIN inputs /\ r(i) \in InputRow
          /\ inputs' = [inputs EXCEPT ![i] = r(i)]
      BY <1>1, <1>3, <1>5
    <2> QED BY ONLY <2>1, SeqUpdate
  <1>8. /\ attempts' \in Seq(AttemptRow) /\ DOMAIN attempts' = DOMAIN attempts \cup {n}
        /\ attempts'[n] = t(i) /\ \A b \in DOMAIN attempts : attempts'[b] = attempts[b]
    <2>1. attempts \in Seq(AttemptRow) /\ t(i) \in AttemptRow /\ attempts' = Append(attempts, t(i))
      BY <1>1, <1>3, <1>6
    <2> QED BY ONLY <2>1, SeqAppend DEF n
  <1>9. JournalTypeOK'
    BY <1>2, <1>7, <1>8 DEF JournalInv, JournalTypeOK
  <1>10. \A b \in DOMAIN attempts : attempts[b].status \in Active => attempts[b].seq # i
    <2> SUFFICES ASSUME NEW b \in DOMAIN attempts, attempts[b].status \in Active,
                        attempts[b].seq = i
                 PROVE  FALSE
      OBVIOUS
    <2>1. inputs[i].attempt = b
      BY DEF JournalInv, ValidateReceipts
    <2>2. b # 0
      BY <1>3, SeqDomain
    <2> QED BY <2>1, <2>2, <1>4 DEF InputFacts
  <1>11. \A b \in DOMAIN attempts' :
          /\ attempts'[b].seq \in DOMAIN inputs'
          /\ AttemptFacts(attempts'[b])
          /\ attempts'[b].status \in Active => inputs'[attempts'[b].seq].attempt = b
    <2> SUFFICES ASSUME NEW b \in DOMAIN attempts'
                 PROVE  /\ attempts'[b].seq \in DOMAIN inputs'
                        /\ AttemptFacts(attempts'[b])
                        /\ attempts'[b].status \in Active => inputs'[attempts'[b].seq].attempt = b
      OBVIOUS
    <2>1. CASE b = n
      BY <2>1, <1>5, <1>6, <1>7, <1>8
    <2>2. CASE b \in DOMAIN attempts
      BY <2>2, <1>7, <1>8, <1>10 DEF JournalInv, ValidateReceipts
    <2> QED BY <2>1, <2>2, <1>8
  <1>12. \A j \in DOMAIN inputs' :
          /\ namespace'[inputs'[j].scope] # Unbound
          /\ InputFacts(inputs'[j])
          /\ CurrentAttempt(j)'
    <2> SUFFICES ASSUME NEW j \in DOMAIN inputs
                 PROVE  /\ namespace'[inputs'[j].scope] # Unbound
                        /\ InputFacts(inputs'[j])
                        /\ CurrentAttempt(j)'
      BY <1>7
    <2>1. namespace[inputs[j].scope] # Unbound /\ InputFacts(inputs[j]) /\ CurrentAttempt(j)
      BY DEF JournalInv, ValidateReceipts
    <2>2. CASE j = i
      <3>1. n \in AttemptsOf(i)' /\ \A b \in AttemptsOf(i)' : b <= n
        <4>1. \A b \in DOMAIN attempts' : b <= n
          BY ONLY <1>3, <1>8
        <4>2. n \in DOMAIN attempts' /\ attempts'[n].seq = i
          BY <1>6, <1>8
        <4> QED BY ONLY <4>1, <4>2 DEF AttemptsOf
      <3>2. inputs'[i].attempt = n /\ SameFacts(inputs'[i], attempts'[n])
        BY <1>5, <1>6, <1>7, <1>8 DEF SameFacts
      <3>3. CurrentAttempt(i)'
        BY ONLY <3>1, <3>2 DEF CurrentAttempt
      <3>4. InputFacts(inputs'[i]) /\ inputs'[i].scope = inputs[i].scope
        BY <1>4, <1>5, <1>7
      <3> QED BY <2>1, <2>2, <3>3, <3>4, <1>2
    <2>3. CASE j # i
      <3>1. AttemptsOf(j)' = AttemptsOf(j)
        BY <2>3, <1>6, <1>8 DEF AttemptsOf
      <3>2. inputs'[j] = inputs[j]
        BY <2>3, <1>7
      <3>3. \A b \in AttemptsOf(j) : attempts'[b] = attempts[b]
        BY <1>8 DEF AttemptsOf
      <3> QED BY <2>1, <3>1, <3>2, <3>3, <1>2 DEF CurrentAttempt
    <2> QED BY <2>2, <2>3
  <1>13. \A u \in Scopes : OneActive(u)'
    <2>1. \A u \in Scopes : u # s => RowsIn(u, Active)' \subseteq RowsIn(u, Active)
      BY <1>5, <1>7 DEF RowsIn, Rows
    <2>2. RowsIn(s, Active)' \subseteq {i}
      BY <1>1, <1>7 DEF RowsIn, Rows, Store!Claimable, Store!RowsIn, Store!Rows, Active, Store!Active
    <2>3. \A u \in Scopes : OneActive(u)
      BY DEF JournalInv, ValidateReceipts
    <2> QED BY ONLY <2>1, <2>2, <2>3 DEF OneActive
  <1>14. ClaimedClean' /\ RunningTimed'
    <2>1. ClaimedClean'
      BY ONLY JournalInv, <1>5, <1>7 DEF JournalInv, ClaimedClean
    <2>2. RunningTimed'
      BY ONLY JournalInv, <1>6, <1>8 DEF JournalInv, RunningTimed
    <2> QED BY <2>1, <2>2
  <1> QED BY <1>9, <1>11, <1>12, <1>13, <1>14 DEF JournalInv, ValidateReceipts

(* What recovery does to one row. *)
LEMMA RecoverInputFacts ==
    ASSUME NEW r \in InputRow, InputFacts(r),
           r.status = "claimed" => r.response = "" /\ r.error = "" /\ r.session = ""
    PROVE  /\ Store!RecoverInput(r) \in InputRow /\ InputFacts(Store!RecoverInput(r))
           /\ Store!RecoverInput(r).scope = r.scope
           /\ Store!RecoverInput(r).status \notin Active
           /\ Store!RecoverInput(r).attempt = IF r.status = "claimed" THEN 0 ELSE r.attempt
  BY DEF Store!RecoverInput, InputRow, InputFacts, Statuses, Text, INTERRUPTED, Store!INTERRUPTED, Active

(* The same for an attempt: a running one must have its start time. *)
LEMMA RecoverAttemptFacts ==
    ASSUME NEW t \in AttemptRow, AttemptFacts(t), t.status = "running" => t.startedAt
    PROVE  /\ Store!RecoverAttempt(t) \in AttemptRow /\ AttemptFacts(Store!RecoverAttempt(t))
           /\ Store!RecoverAttempt(t).seq = t.seq
           /\ Store!RecoverAttempt(t).status \notin Active
  BY DEF Store!RecoverAttempt, AttemptRow, AttemptFacts, ExecutionTimesValid, AttemptStatuses,
         Statuses, Text, INTERRUPTED, Store!INTERRUPTED, Active

(* Recovery keeps an input and its attempt in agreement. *)
LEMMA RecoverSameFacts ==
    ASSUME NEW r \in InputRow, NEW t \in AttemptRow, SameFacts(r, t), r.status # "claimed"
    PROVE  SameFacts(Store!RecoverInput(r), Store!RecoverAttempt(t))
  BY DEF Store!RecoverInput, Store!RecoverAttempt, SameFacts, InputRow, AttemptRow

(* Recovery at open keeps the database valid and leaves nothing active. *)
LEMMA JournalOpen ==
    ASSUME JournalInv, Store!Open
    PROVE  JournalInv'
  <1>1. /\ inputs' = [i \in DOMAIN inputs |-> Store!RecoverInput(inputs[i])]
        /\ attempts' = [a \in DOMAIN attempts |-> Store!RecoverAttempt(attempts[a])]
        /\ open' \in BOOLEAN /\ namespace' = namespace /\ authorized' = authorized
    BY DEF Store!Open
  <1>2. /\ inputs \in Seq(InputRow) /\ attempts \in Seq(AttemptRow)
        /\ \A i \in DOMAIN inputs : inputs[i] \in InputRow
        /\ \A a \in DOMAIN attempts : attempts[a] \in AttemptRow
    BY DEF JournalInv, JournalTypeOK
  <1>3. \A i \in DOMAIN inputs :
          /\ Store!RecoverInput(inputs[i]) \in InputRow /\ InputFacts(Store!RecoverInput(inputs[i]))
          /\ Store!RecoverInput(inputs[i]).scope = inputs[i].scope
          /\ Store!RecoverInput(inputs[i]).status \notin Active
          /\ Store!RecoverInput(inputs[i]).attempt =
                IF inputs[i].status = "claimed" THEN 0 ELSE inputs[i].attempt
    <2> TAKE i \in DOMAIN inputs
    <2>1. InputFacts(inputs[i])
      BY DEF JournalInv, ValidateReceipts
    <2>2. inputs[i].status = "claimed" =>
            inputs[i].response = "" /\ inputs[i].error = "" /\ inputs[i].session = ""
      BY DEF JournalInv, ClaimedClean
    <2> QED BY <1>2, <2>1, <2>2, RecoverInputFacts
  <1>4. \A a \in DOMAIN attempts :
          /\ Store!RecoverAttempt(attempts[a]) \in AttemptRow /\ AttemptFacts(Store!RecoverAttempt(attempts[a]))
          /\ Store!RecoverAttempt(attempts[a]).seq = attempts[a].seq
          /\ Store!RecoverAttempt(attempts[a]).status \notin Active
    <2> TAKE a \in DOMAIN attempts
    <2>1. AttemptFacts(attempts[a])
      BY DEF JournalInv, ValidateReceipts
    <2>2. attempts[a].status = "running" => attempts[a].startedAt
      BY DEF JournalInv, RunningTimed
    <2> QED BY <1>2, <2>1, <2>2, RecoverAttemptFacts
  <1>5. /\ inputs' \in Seq(InputRow) /\ DOMAIN inputs' = DOMAIN inputs /\ Len(inputs') = Len(inputs)
        /\ \A i \in DOMAIN inputs : inputs'[i] = Store!RecoverInput(inputs[i])
    BY <1>1, <1>2, <1>3
  <1>6. /\ attempts' \in Seq(AttemptRow) /\ DOMAIN attempts' = DOMAIN attempts
        /\ \A a \in DOMAIN attempts : attempts'[a] = Store!RecoverAttempt(attempts[a])
    BY <1>1, <1>2, <1>4
  <1>7. JournalTypeOK'
    BY <1>1, <1>5, <1>6 DEF JournalInv, JournalTypeOK
  <1>8. \A b \in DOMAIN attempts' :
          /\ attempts'[b].seq \in DOMAIN inputs'
          /\ AttemptFacts(attempts'[b])
          /\ attempts'[b].status \in Active => inputs'[attempts'[b].seq].attempt = b
    BY <1>4, <1>5, <1>6 DEF JournalInv, ValidateReceipts
  <1>9. \A j \in DOMAIN inputs' :
          /\ namespace'[inputs'[j].scope] # Unbound
          /\ InputFacts(inputs'[j])
          /\ CurrentAttempt(j)'
    <2> SUFFICES ASSUME NEW j \in DOMAIN inputs
                 PROVE  /\ namespace'[inputs'[j].scope] # Unbound
                        /\ InputFacts(inputs'[j])
                        /\ CurrentAttempt(j)'
      BY <1>5
    <2>1. namespace[inputs[j].scope] # Unbound /\ CurrentAttempt(j)
      BY DEF JournalInv, ValidateReceipts
    <2>2. AttemptsOf(j)' = AttemptsOf(j)
      BY <1>4, <1>6 DEF AttemptsOf
    <2>3. ASSUME inputs'[j].attempt # 0
          PROVE  /\ inputs'[j].attempt \in AttemptsOf(j)'
                 /\ \A b \in AttemptsOf(j)' : b <= inputs'[j].attempt
                 /\ SameFacts(inputs'[j], attempts'[inputs'[j].attempt])
      <3>1. inputs[j].status # "claimed" /\ inputs'[j].attempt = inputs[j].attempt
        BY <2>3, <1>3, <1>5
      <3>2. /\ inputs[j].attempt \in AttemptsOf(j) /\ \A b \in AttemptsOf(j) : b <= inputs[j].attempt
            /\ SameFacts(inputs[j], attempts[inputs[j].attempt])
        BY <2>1, <2>3, <3>1 DEF CurrentAttempt
      <3>3. inputs[j].attempt \in DOMAIN attempts
        BY <3>2 DEF AttemptsOf
      <3>4. SameFacts(Store!RecoverInput(inputs[j]), Store!RecoverAttempt(attempts[inputs[j].attempt]))
        BY <3>1, <3>2, <3>3, <1>2, RecoverSameFacts
      <3> QED BY <3>1, <3>2, <3>3, <3>4, <2>2, <1>5, <1>6
    <2>4. CurrentAttempt(j)'
      BY <2>3 DEF CurrentAttempt
    <2> QED BY <2>1, <2>4, <1>1, <1>3, <1>5
  <1>10. \A s \in Scopes : OneActive(s)'
    BY <1>3, <1>5 DEF OneActive, RowsIn, Rows
  <1>11. ClaimedClean' /\ RunningTimed'
    BY <1>3, <1>4, <1>5, <1>6 DEF ClaimedClean, RunningTimed, Active
  <1> QED BY <1>7, <1>8, <1>9, <1>10, <1>11 DEF JournalInv, ValidateReceipts

(* Every operation of the store, recovery included, preserves the invariant. *)
LEMMA JournalNext == JournalInv /\ [Store!Next]_(Store!vars) => JournalInv'
  <1> SUFFICES ASSUME JournalInv, [Store!Next]_(Store!vars) PROVE JournalInv'
    OBVIOUS
  <1>1. CASE Store!Open
    BY <1>1, JournalOpen
  <1>2. CASE Store!Close
    BY <1>2, JournalClose
  <1>3. CASE \E s \in Scopes : Store!BindScope(s)
    BY <1>3, JournalBindScope
  <1>4. CASE \E s \in Scopes, m \in Messages, p \in Payloads, c \in Capacities : Store!Enqueue(s, m, p, c)
    BY <1>4, JournalEnqueue
  <1>5. CASE \E s \in Scopes : Store!Claim(s)
    BY <1>5, JournalClaim
  <1>6. CASE \E a \in DOMAIN attempts, session \in Texts \cup {""} : Store!Start(a, session)
    BY <1>6, JournalStart
  <1>7. CASE \E a \in DOMAIN attempts, out \in Outcomes : Store!Finish(a, out)
    BY <1>7, JournalFinish
  <1>8. CASE \E i \in DOMAIN inputs : Store!Cancel(i)
    BY <1>8, JournalCancel
  <1>9. CASE \E a \in DOMAIN attempts : Store!Release(a)
    BY <1>9, JournalRelease
  <1>10. CASE \E a \in DOMAIN attempts, error \in Texts : Store!Reject(a, error)
    BY <1>10, JournalReject
  <1>11. CASE \E i \in DOMAIN inputs, c \in Capacities : Store!Retry(i, c)
    BY <1>11, JournalRetry
  <1>12. CASE UNCHANGED Store!vars
    BY <1>12, JournalFrame DEF Store!vars, Store!journal, journal, JournalInv, JournalTypeOK
  <1> QED BY <1>1, <1>2, <1>3, <1>4, <1>5, <1>6, <1>7, <1>8, <1>9, <1>10, <1>11, <1>12 DEF Store!Next

(* The inductive invariant holds throughout, for any number of scopes,         *)
(* messages, attempts and retries.                                             *)
THEOREM JournalInvariance == Store!Spec => []JournalInv
  <1> QED BY JournalInit, JournalNext, PTL DEF Store!Spec

(* A store never refuses to open on a database it wrote itself: in every       *)
(* reachable state, whatever the callers did and wherever the process died,    *)
(* what _validate_receipts demands before recovery holds.                      *)
THEOREM ReceiptsAlwaysValid == Store!Spec => []ReceiptsValid
  <1>1. JournalInv => ReceiptsValid
    BY DEF JournalInv, ReceiptsValid
  <1> QED BY <1>1, JournalInvariance, PTL

(* Every reachable database has rows of the declared shape. *)
THEOREM TypeCorrect == Store!Spec => []JournalTypeOK
  <1>1. JournalInv => JournalTypeOK
    BY DEF JournalInv
  <1> QED BY <1>1, JournalInvariance, PTL

(* No operation rewrites a settled attempt: the fences of start, finish,       *)
(* release and reject, and the current attempt of cancel, are active ones.     *)
LEMMA SettledStep ==
    ASSUME JournalInv, [Store!Next]_(Store!vars), NEW b \in DOMAIN attempts, attempts[b].status \notin Active
    PROVE  attempts'[b] = attempts[b]
  <1>1. attempts \in Seq(AttemptRow) /\ \A a \in DOMAIN attempts : attempts[a] \in AttemptRow
    BY DEF JournalInv, JournalTypeOK
  <1>2. ASSUME NEW a \in DOMAIN attempts, NEW st \in Active, Holds(a, st) PROVE a # b
    BY <1>2, HoldsFacts DEF SameFacts
  <1>3. CASE Store!Open
    BY <1>3 DEF Store!Open, Store!RecoverAttempt, Active
  <1>4. CASE \E s \in Scopes : Store!Claim(s)
    <2>1. PICK s \in Scopes : Store!Claim(s)
      BY <1>4
    <2>2. PICK i \in DOMAIN inputs :
             attempts' = Append(attempts,
               [seq |-> i, status |-> "claimed", started |-> FALSE, startedAt |-> FALSE,
                settledAt |-> FALSE, response |-> "", error |-> "", session |-> ""])
      BY <2>1 DEF Store!Claim
    <2> QED BY <1>1, <2>2, SeqAppendKeeps
  <1>5. CASE \E a \in DOMAIN attempts, session \in Texts \cup {""} : Store!Start(a, session)
    BY <1>5, <1>2 DEF Store!Start, Active, Holds, Store!Holds
  <1>6. CASE \E a \in DOMAIN attempts, out \in Outcomes : Store!Finish(a, out)
    BY <1>6, <1>2 DEF Store!Finish, Active, Holds, Store!Holds
  <1>7. CASE \E a \in DOMAIN attempts : Store!Release(a)
    BY <1>7, <1>2 DEF Store!Release, Active, Holds, Store!Holds
  <1>8. CASE \E a \in DOMAIN attempts, error \in Texts : Store!Reject(a, error)
    BY <1>8, <1>2 DEF Store!Reject, Active, Holds, Store!Holds
  <1>9. CASE \E i \in DOMAIN inputs : Store!Cancel(i)
    <2>1. PICK i \in DOMAIN inputs : Store!Cancel(i)
      BY <1>9
    <2>2. inputs[i].status \in {"pending", "claimed"} /\ InputFacts(inputs[i]) /\ CurrentAttempt(i)
      BY <2>1 DEF Store!Cancel, JournalInv, ValidateReceipts
    <2>3. inputs[i].attempt # 0 => inputs[i].attempt # b
      BY <2>2 DEF InputFacts, CurrentAttempt, SameFacts, Active
    <2> QED BY <2>1, <2>3 DEF Store!Cancel
  <1>10. CASE UNCHANGED attempts
    BY <1>10
  <1>11. \/ Store!Close \/ \E s \in Scopes : Store!BindScope(s)
         \/ \E s \in Scopes, m \in Messages, p \in Payloads, c \in Capacities : Store!Enqueue(s, m, p, c)
         \/ \E i \in DOMAIN inputs, c \in Capacities : Store!Retry(i, c)
         \/ UNCHANGED Store!vars
         => UNCHANGED attempts
    BY DEF Store!Close, Store!BindScope, Store!Enqueue, Store!Retry, Store!vars, Store!journal, journal
  <1> QED BY <1>3, <1>4, <1>5, <1>6, <1>7, <1>8, <1>9, <1>10, <1>11 DEF Store!Next

(* A settled attempt is history, for every caller and every crash. *)
THEOREM SettledAttemptsForever == Store!Spec => SettledForever
  <1>1. JournalInv /\ [Store!Next]_(Store!vars) =>
          [\A a \in DOMAIN attempts :
              attempts[a].status \notin Active => attempts'[a] = attempts[a]]_journal
    BY SettledStep DEF Store!vars, Store!journal, journal
  <1> QED BY <1>1, JournalInvariance, PTL DEF Store!Spec, SettledForever

(* A running input leaves that state only for a terminal one: every operation  *)
(* that would put a row back in the queue is fenced on another state.          *)
LEMMA RunningStep ==
    ASSUME JournalInv, [Store!Next]_(Store!vars), NEW j \in DOMAIN inputs, inputs[j].status = "running"
    PROVE  inputs'[j].status \in {"running", "succeeded", "failed", "interrupted"}
  <1> DEFINE Ok == inputs'[j].status \in {"running", "succeeded", "failed", "interrupted"}
  <1>1. inputs \in Seq(InputRow) /\ \A i \in DOMAIN inputs : inputs[i] \in InputRow
    BY DEF JournalInv, JournalTypeOK
  <1>2. ASSUME NEW a \in DOMAIN attempts, Holds(a, "claimed") PROVE attempts[a].seq # j
    BY <1>2 DEF Holds
  <1>3. CASE Store!Open
    BY <1>3, <1>1 DEF Store!Open, Store!RecoverInput, InputRow
  <1>4. CASE \E s \in Scopes, m \in Messages, p \in Payloads, c \in Capacities : Store!Enqueue(s, m, p, c)
    <2>1. PICK s \in Scopes, m \in Messages, p \in Payloads, c \in Capacities : Store!Enqueue(s, m, p, c)
      BY <1>4
    <2>2. inputs' = Append(inputs,
            [scope |-> s, message |-> m, payload |-> p, status |-> "pending",
             attempt |-> 0, response |-> "", error |-> "", session |-> ""])
      BY <2>1 DEF Store!Enqueue
    <2> QED BY <1>1, <2>2, SeqAppendKeeps
  <1>5. CASE \E s \in Scopes : Store!Claim(s)
    BY <1>5, <1>1 DEF Store!Claim, Store!Claimable, RowsIn, Rows, Store!RowsIn, Store!Rows, Active, Store!Active
  <1>6. CASE \E a \in DOMAIN attempts, session \in Texts \cup {""} : Store!Start(a, session)
    BY <1>6, <1>1, <1>2 DEF Store!Start, Holds, Store!Holds
  <1>7. CASE \E a \in DOMAIN attempts, out \in Outcomes : Store!Finish(a, out)
    <2>1. PICK a \in DOMAIN attempts, out \in Outcomes : Store!Finish(a, out)
      BY <1>7
    <2>2. out.status \in {"succeeded", "failed", "interrupted"}
      BY OutcomesAssumption
    <2> DEFINE r == [inputs[attempts[a].seq] EXCEPT
                       !.status = out.status, !.response = out.response, !.error = out.error,
                       !.session = IF out.session = "" THEN inputs[attempts[a].seq].session
                                   ELSE out.session]
    <2>3. inputs' = [inputs EXCEPT ![attempts[a].seq] = r]
      BY <2>1 DEF Store!Finish, Holds, Store!Holds
    <2>4. CASE attempts[a].seq = j
      <3>1. r.status = out.status
        BY <2>4, <1>1 DEF InputRow
      <3> HIDE DEF r
      <3> QED BY <1>1, <2>2, <2>3, <2>4, <3>1
    <2>5. CASE attempts[a].seq # j
      <3> HIDE DEF r
      <3> QED BY <1>1, <2>3, <2>5
    <2> QED BY <2>4, <2>5
  <1>8. CASE \E i \in DOMAIN inputs : Store!Cancel(i)
    BY <1>8, <1>1 DEF Store!Cancel
  <1>9. CASE \E a \in DOMAIN attempts : Store!Release(a)
    BY <1>9, <1>1, <1>2 DEF Store!Release, Holds, Store!Holds
  <1>10. CASE \E a \in DOMAIN attempts, error \in Texts : Store!Reject(a, error)
    BY <1>10, <1>1, <1>2 DEF Store!Reject, Holds, Store!Holds
  <1>11. CASE \E i \in DOMAIN inputs, c \in Capacities : Store!Retry(i, c)
    BY <1>11, <1>1 DEF Store!Retry
  <1>12. CASE UNCHANGED inputs
    BY <1>12
  <1>13. Store!Close \/ (\E s \in Scopes : Store!BindScope(s)) \/ UNCHANGED Store!vars => UNCHANGED inputs
    BY DEF Store!Close, Store!BindScope, Store!vars, Store!journal, journal
  <1> QED BY <1>3, <1>4, <1>5, <1>6, <1>7, <1>8, <1>9, <1>10, <1>11, <1>12, <1>13 DEF Store!Next

(* What an admitted execution did is never forgotten: no crash, release, retry *)
(* or stale handle puts a running input back in the queue.                     *)
THEOREM RunningNeverRequeued == Store!Spec => NoReplay
  <1>1. JournalInv /\ [Store!Next]_(Store!vars) =>
          [\A i \in DOMAIN inputs :
              inputs[i].status = "running"
                  => inputs'[i].status \in {"running", "succeeded", "failed", "interrupted"}]_journal
    BY RunningStep DEF Store!vars, Store!journal, journal
  <1> QED BY <1>1, JournalInvariance, PTL DEF Store!Spec, NoReplay

-----------------------------------------------------------------------------
(* Executions and admission order.                                           *)

(* A count below a limit may be raised by one. *)
LEMMA CountOneMore ==
    ASSUME NEW c \in Nat, NEW d, NEW limit \in Nat, d = c + 1, c < limit
    PROVE  d <= limit
  OBVIOUS

(* The executions of an input are finitely many. *)
LEMMA ExecutionsFinite ==
    ASSUME JournalInv, NEW i
    PROVE  IsFiniteSet(Executions(i)) /\ Cardinality(Executions(i)) \in Nat
  <1>1. DOMAIN attempts = 1..Len(attempts) /\ Len(attempts) \in Nat
    BY SeqDomain DEF JournalInv, JournalTypeOK
  <1>2. IsFiniteSet(1..Len(attempts))
    BY <1>1, FS_Interval
  <1>3. Executions(i) \subseteq 1..Len(attempts)
    BY <1>1 DEF Executions, AttemptsOf
  <1> QED BY <1>2, <1>3, FS_Subset, FS_CardinalityType

(* Every input has a number of authorized executions. *)
LEMMA AuthorizedType ==
    ASSUME JournalInv, NEW i \in DOMAIN inputs
    PROVE  authorized[i] \in Nat /\ i \in DOMAIN authorized
  BY SeqDomain DEF JournalInv, JournalTypeOK

(* An operation that inserts no row, starts nothing, wakes nothing that was    *)
(* settled and authorizes nothing keeps the history.                           *)
LEMMA QuietHistory ==
    ASSUME JournalInv, HistoryInv, DOMAIN inputs' = DOMAIN inputs, DOMAIN attempts' = DOMAIN attempts,
           authorized' = authorized,
           \A b \in DOMAIN attempts : /\ attempts[b].seq \in DOMAIN inputs
                                      /\ attempts'[b].seq = attempts[b].seq
                                      /\ attempts'[b].started = attempts[b].started
                                      /\ attempts'[b].status \in Active => attempts[b].status \in Active,
           \A j \in DOMAIN inputs : /\ inputs'[j].scope = inputs[j].scope
                                    /\ Waits(j)' => Waits(j)
                                    /\ inputs[j].status \in Terminal => inputs'[j].status \in Terminal
    PROVE  HistoryInv'
  <1>1. \A j : AttemptsOf(j)' = AttemptsOf(j)
    BY DEF AttemptsOf
  <1>2. \A j : Executions(j)' = Executions(j)
    BY <1>1 DEF Executions, AttemptsOf
  <1>3. ExecutionsLeft'
    <2> SUFFICES ASSUME NEW j \in DOMAIN inputs
                 PROVE  IF Waits(j)' THEN Cardinality(Executions(j)') < authorized[j]
                                     ELSE Cardinality(Executions(j)') <= authorized[j]
      BY DEF ExecutionsLeft
    <2>1. Cardinality(Executions(j)) \in Nat /\ authorized[j] \in Nat
      BY ExecutionsFinite, AuthorizedType
    <2>2. IF Waits(j) THEN Cardinality(Executions(j)) < authorized[j]
                      ELSE Cardinality(Executions(j)) <= authorized[j]
      BY DEF HistoryInv, ExecutionsLeft
    <2> QED BY <1>2, <2>1, <2>2
  <1>4. EarlierSettled'
    <2> SUFFICES ASSUME NEW i \in DOMAIN inputs, NEW j \in DOMAIN inputs, i < j,
                        inputs'[i].scope = inputs'[j].scope, AttemptsOf(j)' # {}
                 PROVE  inputs'[i].status \in Terminal \/ authorized'[i] > 1
      BY DEF EarlierSettled
    <2>1. inputs[i].status \in Terminal \/ authorized[i] > 1
      BY <1>1 DEF HistoryInv, EarlierSettled
    <2> QED BY <2>1
  <1>5. ActiveIsLast'
    BY DEF HistoryInv, ActiveIsLast
  <1>6. AskedFor'
    BY DEF HistoryInv, AskedFor
  <1> QED BY <1>3, <1>4, <1>5, <1>6 DEF HistoryInv

(* What start, finish, release and reject do to the two tables. *)
LEMMA PairUpdated ==
    ASSUME JournalInv, NEW a \in DOMAIN attempts, NEW st, Holds(a, st), NEW r, NEW t,
           inputs' = [inputs EXCEPT ![attempts[a].seq] = r],
           attempts' = [attempts EXCEPT ![a] = t]
    PROVE  /\ DOMAIN inputs' = DOMAIN inputs /\ DOMAIN attempts' = DOMAIN attempts
           /\ \A b \in DOMAIN attempts : attempts[b].seq \in DOMAIN inputs
           /\ attempts[a].seq \in DOMAIN inputs
           /\ inputs'[attempts[a].seq] = r /\ attempts'[a] = t
           /\ \A j \in DOMAIN inputs : j # attempts[a].seq => inputs'[j] = inputs[j]
           /\ \A b \in DOMAIN attempts : b # a => attempts'[b] = attempts[b]
           /\ inputs[attempts[a].seq] \in InputRow /\ attempts[a] \in AttemptRow
           /\ inputs[attempts[a].seq].status = st /\ attempts[a].status = st
           /\ AttemptFacts(attempts[a])
  <1>1. inputs \in Seq(InputRow) /\ attempts \in Seq(AttemptRow)
    BY DEF JournalInv, JournalTypeOK
  <1>2. \A b \in DOMAIN attempts : attempts[b].seq \in DOMAIN inputs
    BY DEF JournalInv, ValidateReceipts
  <1>3. /\ inputs[attempts[a].seq].status = st /\ attempts[a].status = st
        /\ inputs[attempts[a].seq] \in InputRow /\ attempts[a] \in AttemptRow
        /\ AttemptFacts(attempts[a])
    BY HoldsFacts DEF SameFacts
  <1> QED BY ONLY <1>1, <1>2, <1>3, inputs' = [inputs EXCEPT ![attempts[a].seq] = r],
             attempts' = [attempts EXCEPT ![a] = t], a \in DOMAIN attempts

(* finish settles a running execution, which was counted when it started. *)
LEMMA FinishHistory ==
    ASSUME JournalInv, HistoryInv, NEW a \in DOMAIN attempts, NEW out \in Outcomes, Store!Finish(a, out)
    PROVE  HistoryInv'
  <1> DEFINE i == attempts[a].seq
             x == inputs[i]
             y == attempts[a]
             r == [x EXCEPT !.status = out.status, !.response = out.response, !.error = out.error,
                       !.session = IF out.session = "" THEN x.session ELSE out.session]
             t == [y EXCEPT !.status = out.status, !.response = out.response, !.error = out.error,
                       !.session = IF out.session = "" THEN x.session ELSE out.session,
                       !.settledAt = TRUE]
  <1>1. /\ inputs' = [inputs EXCEPT ![i] = r] /\ attempts' = [attempts EXCEPT ![a] = t]
        /\ Holds(a, "running") /\ authorized' = authorized
    BY DEF Store!Finish, Holds, Store!Holds
  <1>2. x \in InputRow /\ y \in AttemptRow
    BY <1>1, HoldsFacts
  <1>3. out.status \in {"succeeded", "failed", "interrupted"}
    BY OutcomesAssumption
  <1> HIDE DEF x, y
  <1>4. r.scope = x.scope /\ r.status = out.status
    BY <1>2 DEF InputRow
  <1>5. t.seq = y.seq /\ t.started = y.started /\ t.status = out.status
    BY <1>2 DEF AttemptRow
  <1> HIDE DEF r, t
  <1>6. /\ DOMAIN inputs' = DOMAIN inputs /\ DOMAIN attempts' = DOMAIN attempts
        /\ \A b \in DOMAIN attempts : attempts[b].seq \in DOMAIN inputs
        /\ inputs'[i] = r /\ attempts'[a] = t /\ x.status = "running" /\ y.status = "running"
        /\ \A j \in DOMAIN inputs : j # i => inputs'[j] = inputs[j]
        /\ \A b \in DOMAIN attempts : b # a => attempts'[b] = attempts[b]
    BY <1>1, PairUpdated DEF x, y
  <1>7. \A b \in DOMAIN attempts : /\ attempts'[b].seq = attempts[b].seq
                                   /\ attempts'[b].started = attempts[b].started
                                   /\ attempts'[b].status \in Active => attempts[b].status \in Active
    BY <1>1, <1>3, <1>4, <1>5, <1>6 DEF y, Active
  <1>8. \A j \in DOMAIN inputs : /\ inputs'[j].scope = inputs[j].scope
                                 /\ Waits(j)' => Waits(j)
                                 /\ inputs[j].status \in Terminal => inputs'[j].status \in Terminal
    BY <1>1, <1>3, <1>4, <1>5, <1>6 DEF x, Waits, Terminal
  <1> QED BY <1>1, <1>6, <1>7, <1>8, QuietHistory

(* reject ends a claim that was never executed. *)
LEMMA RejectHistory ==
    ASSUME JournalInv, HistoryInv, NEW a \in DOMAIN attempts, NEW error \in Texts, Store!Reject(a, error)
    PROVE  HistoryInv'
  <1> DEFINE i == attempts[a].seq
             x == inputs[i]
             y == attempts[a]
             r == [x EXCEPT !.status = "failed", !.error = error]
             t == [y EXCEPT !.status = "failed", !.error = error]
  <1>1. /\ inputs' = [inputs EXCEPT ![i] = r] /\ attempts' = [attempts EXCEPT ![a] = t]
        /\ Holds(a, "claimed") /\ authorized' = authorized
    BY DEF Store!Reject, Holds, Store!Holds
  <1>2. x \in InputRow /\ y \in AttemptRow
    BY <1>1, HoldsFacts
  <1> HIDE DEF x, y
  <1>4. r.scope = x.scope /\ r.status = "failed"
    BY <1>2 DEF InputRow
  <1>5. t.seq = y.seq /\ t.started = y.started /\ t.status = "failed"
    BY <1>2 DEF AttemptRow
  <1> HIDE DEF r, t
  <1>6. /\ DOMAIN inputs' = DOMAIN inputs /\ DOMAIN attempts' = DOMAIN attempts
        /\ \A b \in DOMAIN attempts : attempts[b].seq \in DOMAIN inputs
        /\ inputs'[i] = r /\ attempts'[a] = t /\ x.status = "claimed" /\ y.status = "claimed"
        /\ \A j \in DOMAIN inputs : j # i => inputs'[j] = inputs[j]
        /\ \A b \in DOMAIN attempts : b # a => attempts'[b] = attempts[b]
    BY <1>1, PairUpdated DEF x, y
  <1>7. \A b \in DOMAIN attempts : /\ attempts'[b].seq = attempts[b].seq
                                   /\ attempts'[b].started = attempts[b].started
                                   /\ attempts'[b].status \in Active => attempts[b].status \in Active
    BY <1>1, <1>4, <1>5, <1>6 DEF y, Active
  <1>8. \A j \in DOMAIN inputs : /\ inputs'[j].scope = inputs[j].scope
                                 /\ Waits(j)' => Waits(j)
                                 /\ inputs[j].status \in Terminal => inputs'[j].status \in Terminal
    BY <1>1, <1>4, <1>5, <1>6 DEF x, Waits, Terminal
  <1> QED BY <1>1, <1>6, <1>7, <1>8, QuietHistory

(* release puts a claimed input back, which still waits. *)
LEMMA ReleaseHistory ==
    ASSUME JournalInv, HistoryInv, NEW a \in DOMAIN attempts, Store!Release(a)
    PROVE  HistoryInv'
  <1> DEFINE i == attempts[a].seq
             x == inputs[i]
             y == attempts[a]
             r == [x EXCEPT !.status = "pending", !.attempt = 0]
             t == [y EXCEPT !.status = "released"]
  <1>1. /\ inputs' = [inputs EXCEPT ![i] = r] /\ attempts' = [attempts EXCEPT ![a] = t]
        /\ Holds(a, "claimed") /\ authorized' = authorized
    BY DEF Store!Release, Holds, Store!Holds
  <1>2. x \in InputRow /\ y \in AttemptRow
    BY <1>1, HoldsFacts
  <1> HIDE DEF x, y
  <1>4. r.scope = x.scope /\ r.status = "pending"
    BY <1>2 DEF InputRow
  <1>5. t.seq = y.seq /\ t.started = y.started /\ t.status = "released"
    BY <1>2 DEF AttemptRow
  <1> HIDE DEF r, t
  <1>6. /\ DOMAIN inputs' = DOMAIN inputs /\ DOMAIN attempts' = DOMAIN attempts
        /\ \A b \in DOMAIN attempts : attempts[b].seq \in DOMAIN inputs
        /\ inputs'[i] = r /\ attempts'[a] = t /\ x.status = "claimed" /\ y.status = "claimed"
        /\ \A j \in DOMAIN inputs : j # i => inputs'[j] = inputs[j]
        /\ \A b \in DOMAIN attempts : b # a => attempts'[b] = attempts[b]
    BY <1>1, PairUpdated DEF x, y
  <1>7. \A b \in DOMAIN attempts : /\ attempts'[b].seq = attempts[b].seq
                                   /\ attempts'[b].started = attempts[b].started
                                   /\ attempts'[b].status \in Active => attempts[b].status \in Active
    BY <1>1, <1>4, <1>5, <1>6 DEF y, Active
  <1>8. \A j \in DOMAIN inputs : /\ inputs'[j].scope = inputs[j].scope
                                 /\ Waits(j)' => Waits(j)
                                 /\ inputs[j].status \in Terminal => inputs'[j].status \in Terminal
    BY <1>1, <1>4, <1>5, <1>6 DEF x, Waits, Terminal
  <1> QED BY <1>1, <1>6, <1>7, <1>8, QuietHistory

(* Recovery settles what ran and puts claims back; it starts nothing. *)
LEMMA OpenHistory ==
    ASSUME JournalInv, HistoryInv, Store!Open
    PROVE  HistoryInv'
  <1>1. /\ inputs' = [i \in DOMAIN inputs |-> Store!RecoverInput(inputs[i])]
        /\ attempts' = [a \in DOMAIN attempts |-> Store!RecoverAttempt(attempts[a])]
        /\ authorized' = authorized
    BY DEF Store!Open
  <1>2. /\ \A i \in DOMAIN inputs : inputs[i] \in InputRow
        /\ \A a \in DOMAIN attempts : attempts[a] \in AttemptRow /\ attempts[a].seq \in DOMAIN inputs
    BY DEF JournalInv, JournalTypeOK, ValidateReceipts
  <1>3. ASSUME NEW r \in InputRow
        PROVE  /\ Store!RecoverInput(r).scope = r.scope
               /\ Store!RecoverInput(r).status \in {"pending", "claimed"} => r.status \in {"pending", "claimed"}
               /\ r.status \in Terminal => Store!RecoverInput(r).status \in Terminal
    BY DEF Store!RecoverInput, InputRow, Terminal
  <1>4. ASSUME NEW t \in AttemptRow
        PROVE  /\ Store!RecoverAttempt(t).seq = t.seq /\ Store!RecoverAttempt(t).started = t.started
               /\ Store!RecoverAttempt(t).status \in Active => t.status \in Active
    BY DEF Store!RecoverAttempt, AttemptRow, Active
  <1>5. \A b \in DOMAIN attempts : /\ attempts'[b].seq = attempts[b].seq
                                   /\ attempts'[b].started = attempts[b].started
                                   /\ attempts'[b].status \in Active => attempts[b].status \in Active
    BY <1>1, <1>2, <1>4
  <1>6. \A j \in DOMAIN inputs : /\ inputs'[j].scope = inputs[j].scope
                                 /\ Waits(j)' => Waits(j)
                                 /\ inputs[j].status \in Terminal => inputs'[j].status \in Terminal
    BY <1>1, <1>2, <1>3 DEF Waits
  <1>7. DOMAIN inputs' = DOMAIN inputs /\ DOMAIN attempts' = DOMAIN attempts
    BY <1>1
  <1> QED BY <1>1, <1>2, <1>5, <1>6, <1>7, QuietHistory

(* cancel settles an input that waited. *)
LEMMA CancelHistory ==
    ASSUME JournalInv, HistoryInv, NEW i \in DOMAIN inputs, Store!Cancel(i)
    PROVE  HistoryInv'
  <1> DEFINE r == [inputs[i] EXCEPT !.status = "cancelled"]
             c == inputs[i].attempt
             t == [attempts[c] EXCEPT !.status = "cancelled"]
  <1>1. /\ inputs[i].status \in {"pending", "claimed"} /\ inputs' = [inputs EXCEPT ![i] = r]
        /\ attempts' = IF c # 0 THEN [attempts EXCEPT ![c] = t] ELSE attempts
        /\ authorized' = authorized
    BY DEF Store!Cancel
  <1>2. /\ \A j \in DOMAIN inputs : inputs[j] \in InputRow
        /\ \A a \in DOMAIN attempts : attempts[a] \in AttemptRow /\ attempts[a].seq \in DOMAIN inputs
    BY DEF JournalInv, JournalTypeOK, ValidateReceipts
  <1>3. r.scope = inputs[i].scope /\ r.status = "cancelled"
    BY <1>2 DEF InputRow
  <1>4. c # 0 => c \in DOMAIN attempts
    BY DEF JournalInv, ValidateReceipts, CurrentAttempt, AttemptsOf
  <1>5. c # 0 => t.seq = attempts[c].seq /\ t.started = attempts[c].started /\ t.status = "cancelled"
    BY <1>2, <1>4 DEF AttemptRow
  <1> HIDE DEF r, c, t
  <1>6. /\ DOMAIN attempts' = DOMAIN attempts
        /\ \A b \in DOMAIN attempts : attempts'[b] = IF c # 0 /\ b = c THEN t ELSE attempts[b]
    <2>1. CASE c = 0
      BY <2>1, <1>1
    <2>2. CASE c # 0
      BY <2>2, <1>1
    <2> QED BY <2>1, <2>2
  <1>7. \A b \in DOMAIN attempts : /\ attempts'[b].seq = attempts[b].seq
                                   /\ attempts'[b].started = attempts[b].started
                                   /\ attempts'[b].status \in Active => attempts[b].status \in Active
    BY <1>5, <1>6 DEF Active
  <1>8. /\ DOMAIN inputs' = DOMAIN inputs
        /\ \A j \in DOMAIN inputs : inputs'[j] = IF j = i THEN r ELSE inputs[j]
    BY <1>1
  <1>9. \A j \in DOMAIN inputs : /\ inputs'[j].scope = inputs[j].scope
                                 /\ Waits(j)' => Waits(j)
                                 /\ inputs[j].status \in Terminal => inputs'[j].status \in Terminal
    BY <1>3, <1>8 DEF Waits, Terminal
  <1> QED BY <1>1, <1>2, <1>6, <1>7, <1>8, <1>9, QuietHistory

(* start spends an execution that was left: the claimed attempt had not been   *)
(* started, so it is a new one.                                                *)
LEMMA StartHistory ==
    ASSUME JournalInv, HistoryInv, NEW a \in DOMAIN attempts, NEW session \in Texts \cup {""}, Store!Start(a, session)
    PROVE  HistoryInv'
  <1>0. PICK i \in DOMAIN inputs : i = attempts[a].seq
    BY DEF JournalInv, ValidateReceipts
  <1> DEFINE x == inputs[i]
             y == attempts[a]
             r == [x EXCEPT !.status = "running", !.session = session]
             t == [y EXCEPT !.status = "running", !.started = TRUE,
                             !.startedAt = TRUE, !.session = session]
  <1>1. /\ inputs' = [inputs EXCEPT ![i] = r] /\ attempts' = [attempts EXCEPT ![a] = t]
        /\ Holds(a, "claimed") /\ authorized' = authorized
    BY <1>0 DEF Store!Start, Holds, Store!Holds
  <1>2. x \in InputRow /\ y \in AttemptRow
    BY <1>0, <1>1, HoldsFacts
  <1> HIDE DEF x, y
  <1>3. r.scope = x.scope /\ r.status = "running"
    BY <1>2 DEF InputRow
  <1>4. t.seq = y.seq /\ t.started = TRUE /\ t.status = "running"
    BY <1>2 DEF AttemptRow
  <1> HIDE DEF r, t
  <1>5. /\ DOMAIN inputs' = DOMAIN inputs /\ DOMAIN attempts' = DOMAIN attempts
        /\ \A b \in DOMAIN attempts : attempts[b].seq \in DOMAIN inputs
        /\ inputs'[i] = r /\ attempts'[a] = t /\ x.status = "claimed" /\ y.status = "claimed"
        /\ \A j \in DOMAIN inputs : j # i => inputs'[j] = inputs[j]
        /\ \A b \in DOMAIN attempts : b # a => attempts'[b] = attempts[b]
        /\ AttemptFacts(y)
    BY <1>0, <1>1, PairUpdated DEF x, y
  <1>6. ~y.started
    BY <1>5 DEF AttemptFacts
  <1>7. \A j : AttemptsOf(j)' = AttemptsOf(j)
    BY <1>4, <1>5 DEF AttemptsOf, y
  <1>8. \A j \in DOMAIN inputs : j # i => Executions(j)' = Executions(j)
    BY <1>0, <1>4, <1>5, <1>7 DEF Executions, AttemptsOf, y
  <1>9. Executions(i)' = Executions(i) \cup {a} /\ a \notin Executions(i)
    BY <1>0, <1>4, <1>5, <1>6, <1>7 DEF Executions, AttemptsOf, y
  <1>10. ExecutionsLeft'
    <2> SUFFICES ASSUME NEW j \in DOMAIN inputs
                 PROVE  IF Waits(j)' THEN Cardinality(Executions(j)') < authorized[j]
                                     ELSE Cardinality(Executions(j)') <= authorized[j]
      BY <1>1, <1>5 DEF ExecutionsLeft
    <2>1. Cardinality(Executions(j)) \in Nat /\ authorized[j] \in Nat /\ IsFiniteSet(Executions(j))
      BY ExecutionsFinite, AuthorizedType
    <2>2. IF Waits(j) THEN Cardinality(Executions(j)) < authorized[j]
                      ELSE Cardinality(Executions(j)) <= authorized[j]
      BY DEF HistoryInv, ExecutionsLeft
    <2>3. CASE j # i
      BY <2>2, <2>3, <1>5, <1>8 DEF Waits
    <2>4. CASE j = i
      <3>1. Waits(j) /\ ~Waits(j)'
        BY <2>4, <1>3, <1>5 DEF Waits, x
      <3>2. Cardinality(Executions(j)') = Cardinality(Executions(j)) + 1
        BY <2>1, <2>4, <1>9, FS_AddElement
      <3>3. Cardinality(Executions(j)) < authorized[j]
        BY <2>2, <3>1
      <3>4. Cardinality(Executions(j)') <= authorized[j]
        BY <2>1, <3>2, <3>3, CountOneMore
      <3> QED BY <3>1, <3>4
    <2> QED BY <2>3, <2>4
  <1>11. EarlierSettled'
    <2> SUFFICES ASSUME NEW k \in DOMAIN inputs, NEW j \in DOMAIN inputs, k < j,
                        inputs'[k].scope = inputs'[j].scope, AttemptsOf(j)' # {}
                 PROVE  inputs'[k].status \in Terminal \/ authorized[k] > 1
      BY <1>1, <1>5 DEF EarlierSettled
    <2>1. inputs[k].status \in Terminal \/ authorized[k] > 1
      BY <1>3, <1>5, <1>7 DEF HistoryInv, EarlierSettled, x
    <2> QED BY <2>1, <1>5 DEF x, Terminal
  <1>12. ActiveIsLast'
    <2>1. \A b \in DOMAIN attempts : /\ attempts'[b].seq = attempts[b].seq
                                     /\ attempts'[b].status \in Active => attempts[b].status \in Active
      BY <1>4, <1>5 DEF Active, y
    <2>2. \A j \in DOMAIN inputs : inputs'[j].scope = inputs[j].scope
      BY <1>3, <1>5 DEF x
    <2> SUFFICES ASSUME NEW b \in DOMAIN attempts, NEW c \in DOMAIN attempts,
                        attempts'[b].status \in Active,
                        inputs'[attempts'[b].seq].scope = inputs'[attempts'[c].seq].scope
                 PROVE  c <= b
      BY <1>5 DEF ActiveIsLast
    <2>3. inputs[attempts[b].seq].scope = inputs[attempts[c].seq].scope /\ attempts[b].status \in Active
      BY <2>1, <2>2, <1>5
    <2> QED BY <2>3 DEF HistoryInv, ActiveIsLast
  <1>13. AskedFor'
    BY <1>1, <1>5 DEF HistoryInv, AskedFor
  <1> QED BY <1>10, <1>11, <1>12, <1>13 DEF HistoryInv

(* A new input is the last of its scope, has no attempt yet and one execution   *)
(* to spend.                                                                   *)
LEMMA EnqueueHistory ==
    ASSUME JournalInv, HistoryInv, NEW s \in Scopes, NEW m \in Messages, NEW p \in Payloads,
           NEW c \in Capacities, Store!Enqueue(s, m, p, c)
    PROVE  HistoryInv'
  <1> DEFINE r == [scope |-> s, message |-> m, payload |-> p, status |-> "pending",
                   attempt |-> 0, response |-> "", error |-> "", session |-> ""]
  <1>1. attempts' = attempts /\ inputs' = Append(inputs, r) /\ authorized' = Append(authorized, 1)
    BY DEF Store!Enqueue
  <1> HIDE DEF r
  <1>2. inputs \in Seq(InputRow) /\ authorized \in Seq(Nat) /\ Len(authorized) = Len(inputs)
    BY DEF JournalInv, JournalTypeOK
  <1>3. PICK n \in Nat : n = Len(inputs) + 1
    BY <1>2, SeqDomain
  <1>4. /\ DOMAIN inputs' = DOMAIN inputs \cup {n} /\ n \notin DOMAIN inputs
        /\ \A j \in DOMAIN inputs : j < n /\ j \in Nat
        /\ \A j \in DOMAIN inputs : inputs'[j] = inputs[j]
    BY <1>1, <1>2, <1>3
  <1>5. authorized'[n] = 1 /\ \A j \in DOMAIN inputs : authorized'[j] = authorized[j]
    BY <1>1, <1>2, <1>3
  <1>6. \A b \in DOMAIN attempts : attempts[b].seq \in DOMAIN inputs
    BY DEF JournalInv, ValidateReceipts
  <1>7. /\ \A j : AttemptsOf(j)' = AttemptsOf(j) /\ Executions(j)' = Executions(j)
        /\ AttemptsOf(n) = {} /\ Executions(n) = {}
    BY <1>1, <1>4, <1>6 DEF AttemptsOf, Executions
  <1>8. ExecutionsLeft'
    <2> SUFFICES ASSUME NEW j \in DOMAIN inputs'
                 PROVE  IF Waits(j)' THEN Cardinality(Executions(j)') < authorized'[j]
                                     ELSE Cardinality(Executions(j)') <= authorized'[j]
      BY DEF ExecutionsLeft
    <2>1. CASE j \in DOMAIN inputs
      <3>1. IF Waits(j) THEN Cardinality(Executions(j)) < authorized[j]
                        ELSE Cardinality(Executions(j)) <= authorized[j]
        BY <2>1 DEF HistoryInv, ExecutionsLeft
      <3>2. Waits(j)' = Waits(j)
        BY <2>1, <1>4 DEF Waits
      <3> QED BY <2>1, <3>1, <3>2, <1>5, <1>7
    <2>2. CASE j = n
      <3>1. Cardinality(Executions(j)') = 0
        BY <2>2, <1>7, FS_EmptySet
      <3> QED BY <2>2, <3>1, <1>5
    <2> QED BY <2>1, <2>2, <1>4
  <1>9. EarlierSettled'
    <2> SUFFICES ASSUME NEW k \in DOMAIN inputs', NEW j \in DOMAIN inputs', k < j,
                        inputs'[k].scope = inputs'[j].scope, AttemptsOf(j)' # {}
                 PROVE  inputs'[k].status \in Terminal \/ authorized'[k] > 1
      BY DEF EarlierSettled
    <2>1. j \in DOMAIN inputs
      BY <1>4, <1>7
    <2>2. k \in DOMAIN inputs
      BY <2>1, <1>4
    <2>3. inputs[k].status \in Terminal \/ authorized[k] > 1
      BY <2>1, <2>2, <1>4, <1>7 DEF HistoryInv, EarlierSettled
    <2> QED BY <2>2, <2>3, <1>4, <1>5
  <1>10. ActiveIsLast'
    BY <1>1, <1>4, <1>6 DEF HistoryInv, ActiveIsLast
  <1>11. AskedFor'
    BY <1>4, <1>5 DEF HistoryInv, AskedFor
  <1> QED BY <1>8, <1>9, <1>10, <1>11 DEF HistoryInv

(* claim takes the oldest waiting input of an idle scope: those before it are  *)
(* settled, and its attempt is the scope's last and only active one.           *)
LEMMA ClaimHistory ==
    ASSUME JournalInv, HistoryInv, NEW s \in Scopes, Store!Claim(s)
    PROVE  HistoryInv'
  <1> DEFINE t(i) == [seq |-> i, status |-> "claimed", started |-> FALSE,
                      startedAt |-> FALSE, settledAt |-> FALSE,
                      response |-> "", error |-> "", session |-> ""]
             r(i) == [inputs[i] EXCEPT !.status = "claimed", !.attempt = Len(attempts) + 1]
  <1>1. PICK i \in DOMAIN inputs :
          /\ Store!Claimable(s, i)
          /\ attempts' = Append(attempts, t(i))
          /\ inputs' = [inputs EXCEPT ![i] = r(i)]
    BY DEF Store!Claim
  <1>2. authorized' = authorized
    BY DEF Store!Claim
  <1>3. inputs \in Seq(InputRow) /\ attempts \in Seq(AttemptRow) /\ DOMAIN inputs \subseteq Nat
        /\ \A j \in DOMAIN inputs : inputs[j] \in InputRow
    BY SeqDomain DEF JournalInv, JournalTypeOK
  <1>4. PICK n \in Nat : n = Len(attempts) + 1
    BY <1>3, SeqDomain
  <1>5. r(i).scope = inputs[i].scope /\ r(i).status = "claimed"
    BY <1>3 DEF InputRow
  <1>6. t(i).seq = i /\ t(i).status = "claimed" /\ t(i).started = FALSE
    OBVIOUS
  <1> HIDE DEF r, t
  <1>7. /\ DOMAIN inputs' = DOMAIN inputs /\ inputs'[i] = r(i)
        /\ \A j \in DOMAIN inputs : j # i => inputs'[j] = inputs[j]
    BY <1>1, <1>3
  <1>8. /\ DOMAIN attempts' = DOMAIN attempts \cup {n} /\ n \notin DOMAIN attempts
        /\ attempts'[n] = t(i) /\ \A b \in DOMAIN attempts : attempts'[b] = attempts[b] /\ b < n
    BY <1>1, <1>3, <1>4
  <1>9. /\ inputs[i].status = "pending" /\ inputs[i].scope = s /\ RowsIn(s, Active) = {}
        /\ \A j \in RowsIn(s, {"pending"}) : i <= j
    BY <1>1 DEF Store!Claimable, RowsIn, Rows, Store!RowsIn, Store!Rows, Active, Store!Active
  <1>10. \A j \in DOMAIN inputs : inputs'[j].scope = inputs[j].scope
    BY <1>5, <1>7
  <1>11. \A b \in DOMAIN attempts : attempts[b].seq \in DOMAIN inputs
    BY DEF JournalInv, ValidateReceipts
  <1>12. \A j : Executions(j)' = Executions(j)
    BY <1>6, <1>8 DEF Executions, AttemptsOf
  <1>13. \A j \in DOMAIN inputs : j # i => AttemptsOf(j)' = AttemptsOf(j)
    BY <1>6, <1>8 DEF AttemptsOf
  <1>14. ExecutionsLeft'
    <2>1. \A j \in DOMAIN inputs : Waits(j)' = Waits(j)
      BY <1>5, <1>7, <1>9 DEF Waits
    <2> QED BY <2>1, <1>2, <1>7, <1>12 DEF HistoryInv, ExecutionsLeft
  <1>15. EarlierSettled'
    <2> SUFFICES ASSUME NEW k \in DOMAIN inputs, NEW j \in DOMAIN inputs, k < j,
                        inputs'[k].scope = inputs'[j].scope, AttemptsOf(j)' # {}
                 PROVE  inputs'[k].status \in Terminal \/ authorized[k] > 1
      BY <1>2, <1>7 DEF EarlierSettled
    <2>1. CASE j = i
      <3>1. inputs[k].scope = s /\ k # i
        BY <2>1, <1>3, <1>9, <1>10
      <3>2. inputs[k].status \notin Active /\ inputs[k].status # "pending"
        BY <2>1, <3>1, <1>3, <1>9 DEF RowsIn, Rows
      <3>3. inputs[k].status \in Terminal
        BY <3>2, <1>3 DEF InputRow, Statuses, Active, Terminal
      <3> QED BY <3>1, <3>3, <1>7
    <2>2. CASE j # i
      <3>1. inputs[k].status \in Terminal \/ authorized[k] > 1
        BY <2>2, <1>10, <1>13 DEF HistoryInv, EarlierSettled
      <3>2. inputs[k].status \in Terminal => k # i
        BY <1>9 DEF Terminal
      <3> QED BY <3>1, <3>2, <1>7
    <2> QED BY <2>1, <2>2
  <1>16. ActiveIsLast'
    <2> SUFFICES ASSUME NEW a \in DOMAIN attempts', NEW b \in DOMAIN attempts',
                        attempts'[a].status \in Active,
                        inputs'[attempts'[a].seq].scope = inputs'[attempts'[b].seq].scope
                 PROVE  b <= a
      BY DEF ActiveIsLast
    <2>1. CASE a = n
      BY <2>1, <1>3, <1>8
    <2>2. CASE a \in DOMAIN attempts
      <3>1. attempts[a].status \in Active /\ attempts'[a].seq = attempts[a].seq
        BY <2>2, <1>8
      <3>2. inputs[attempts[a].seq].attempt = a /\ CurrentAttempt(attempts[a].seq) /\ a # 0
        BY <2>2, <3>1, <1>3, <1>11, SeqDomain DEF JournalInv, ValidateReceipts
      <3>3. inputs[attempts[a].seq].status \in Active
        BY <3>1, <3>2 DEF CurrentAttempt, SameFacts
      <3>4. inputs[attempts[a].seq].scope # s
        BY <2>2, <3>3, <1>9, <1>11 DEF RowsIn, Rows
      <3>5. inputs'[attempts'[a].seq].scope # s
        BY <2>2, <3>1, <3>4, <1>10, <1>11
      <3>6. b # n
        BY <3>5, <1>5, <1>6, <1>7, <1>8, <1>9
      <3>7. b \in DOMAIN attempts /\ attempts'[b].seq = attempts[b].seq
        BY <3>6, <1>8
      <3> QED BY <2>2, <3>1, <3>7, <1>10, <1>11 DEF HistoryInv, ActiveIsLast
    <2> QED BY <2>1, <2>2, <1>8
  <1>17. AskedFor'
    BY <1>2, <1>7 DEF HistoryInv, AskedFor
  <1> QED BY <1>14, <1>15, <1>16, <1>17 DEF HistoryInv

(* retry is what authorizes one more execution. *)
LEMMA RetryHistory ==
    ASSUME JournalInv, HistoryInv, NEW i \in DOMAIN inputs, NEW c \in Capacities, Store!Retry(i, c)
    PROVE  HistoryInv'
  <1> DEFINE x == inputs[i]
             r == [x EXCEPT !.status = "pending", !.attempt = 0,
                            !.response = "", !.error = "", !.session = ""]
  <1>1. /\ x \in InputRow /\ x.status \in {"failed", "interrupted"}
        /\ attempts' = attempts /\ inputs' = [inputs EXCEPT ![i] = r]
        /\ authorized' = [authorized EXCEPT ![i] = authorized[i] + 1]
    BY DEF Store!Retry, JournalInv, JournalTypeOK
  <1> HIDE DEF x
  <1>2. r.scope = x.scope /\ r.status = "pending"
    BY <1>1 DEF InputRow
  <1> HIDE DEF r
  <1>3. /\ DOMAIN inputs' = DOMAIN inputs /\ inputs'[i] = r
        /\ \A j \in DOMAIN inputs : j # i => inputs'[j] = inputs[j]
    BY <1>1 DEF JournalInv, JournalTypeOK
  <1>4. /\ \A j \in DOMAIN inputs : authorized[j] \in Nat /\ j \in DOMAIN authorized
        /\ authorized'[i] = authorized[i] + 1
        /\ \A j \in DOMAIN inputs : j # i => authorized'[j] = authorized[j]
    BY <1>1, AuthorizedType DEF JournalInv, JournalTypeOK
  <1>5. \A j : AttemptsOf(j)' = AttemptsOf(j) /\ Executions(j)' = Executions(j)
    BY <1>1 DEF AttemptsOf, Executions
  <1>6. \A j \in DOMAIN inputs : inputs'[j].scope = inputs[j].scope
    BY <1>2, <1>3 DEF x
  <1>7. Cardinality(Executions(i)) \in Nat /\ Cardinality(Executions(i)) <= authorized[i]
    BY <1>1, ExecutionsFinite DEF HistoryInv, ExecutionsLeft, Waits, x
  <1>8. ExecutionsLeft'
    <2> SUFFICES ASSUME NEW j \in DOMAIN inputs
                 PROVE  IF Waits(j)' THEN Cardinality(Executions(j)) < authorized'[j]
                                     ELSE Cardinality(Executions(j)) <= authorized'[j]
      BY <1>3, <1>5 DEF ExecutionsLeft
    <2>1. CASE j = i
      <3>1. Cardinality(Executions(i)) < authorized'[i]
        BY <1>4, <1>7
      <3> QED BY <2>1, <3>1, <1>2, <1>3 DEF Waits
    <2>2. CASE j # i
      BY <2>2, <1>3, <1>4 DEF HistoryInv, ExecutionsLeft, Waits
    <2> QED BY <2>1, <2>2
  <1>9. EarlierSettled'
    <2> SUFFICES ASSUME NEW k \in DOMAIN inputs, NEW j \in DOMAIN inputs, k < j,
                        inputs'[k].scope = inputs'[j].scope, AttemptsOf(j)' # {}
                 PROVE  inputs'[k].status \in Terminal \/ authorized'[k] > 1
      BY <1>3 DEF EarlierSettled
    <2>1. inputs[k].status \in Terminal \/ authorized[k] > 1
      BY <1>5, <1>6 DEF HistoryInv, EarlierSettled
    <2>2. CASE k = i
      <3>1. authorized[i] >= 1
        BY DEF HistoryInv, AskedFor
      <3> QED BY <2>2, <3>1, <1>4
    <2>3. CASE k # i
      BY <2>1, <2>3, <1>3, <1>4
    <2> QED BY <2>2, <2>3
  <1>10. ActiveIsLast'
    <2>1. \A b \in DOMAIN attempts : attempts[b].seq \in DOMAIN inputs
      BY DEF JournalInv, ValidateReceipts
    <2> QED BY <2>1, <1>1, <1>6 DEF HistoryInv, ActiveIsLast
  <1>11. AskedFor'
    BY <1>3, <1>4 DEF HistoryInv, AskedFor
  <1> QED BY <1>8, <1>9, <1>10, <1>11 DEF HistoryInv

(* Every operation keeps the history. *)
LEMMA NextHistory == JournalInv /\ HistoryInv /\ [Store!Next]_(Store!vars) => HistoryInv'
  <1> SUFFICES ASSUME JournalInv, HistoryInv, [Store!Next]_(Store!vars) PROVE HistoryInv'
    OBVIOUS
  <1>1. CASE Store!Open
    BY <1>1, OpenHistory
  <1>2. CASE \E s \in Scopes, m \in Messages, p \in Payloads, c \in Capacities : Store!Enqueue(s, m, p, c)
    BY <1>2, EnqueueHistory
  <1>3. CASE \E s \in Scopes : Store!Claim(s)
    BY <1>3, ClaimHistory
  <1>4. CASE \E a \in DOMAIN attempts, session \in Texts \cup {""} : Store!Start(a, session)
    BY <1>4, StartHistory
  <1>5. CASE \E a \in DOMAIN attempts, out \in Outcomes : Store!Finish(a, out)
    BY <1>5, FinishHistory
  <1>6. CASE \E i \in DOMAIN inputs : Store!Cancel(i)
    BY <1>6, CancelHistory
  <1>7. CASE \E a \in DOMAIN attempts : Store!Release(a)
    BY <1>7, ReleaseHistory
  <1>8. CASE \E a \in DOMAIN attempts, error \in Texts : Store!Reject(a, error)
    BY <1>8, RejectHistory
  <1>9. CASE \E i \in DOMAIN inputs, c \in Capacities : Store!Retry(i, c)
    BY <1>9, RetryHistory
  <1>10. CASE UNCHANGED <<inputs, attempts, authorized>>
    <2>1. \A b \in DOMAIN attempts : attempts[b].seq \in DOMAIN inputs
      BY DEF JournalInv, ValidateReceipts
    <2> QED BY <1>10, <2>1, QuietHistory DEF Waits
  <1>11. Store!Close \/ (\E s \in Scopes : Store!BindScope(s)) \/ UNCHANGED Store!vars
         => UNCHANGED <<inputs, attempts, authorized>>
    BY DEF Store!Close, Store!BindScope, Store!vars, Store!journal, journal
  <1> QED BY <1>1, <1>2, <1>3, <1>4, <1>5, <1>6, <1>7, <1>8, <1>9, <1>10, <1>11 DEF Store!Next

(* The two invariants together hold throughout. *)
THEOREM HistoryKept == Store!Spec => [](JournalInv /\ HistoryInv)
  <1>1. Store!Init => HistoryInv
    <2> SUFFICES ASSUME Store!Init PROVE HistoryInv
      OBVIOUS
    <2>1. DOMAIN inputs = {} /\ DOMAIN attempts = {}
      BY DEF Store!Init
    <2> QED BY <2>1 DEF HistoryInv, AskedFor, ExecutionsLeft, EarlierSettled, ActiveIsLast
  <1> QED BY <1>1, NextHistory, JournalInvariance, PTL DEF Store!Spec

(* An input is executed as often as somebody asked for it and not more often:   *)
(* once, and once for every explicit retry, however often a process dies        *)
(* between claim and start, a claim is released or a stale handle is used.      *)
THEOREM NeverExecutedUnasked == Store!Spec => []ExecutedAsAuthorized
  <1>1. JournalInv /\ HistoryInv => ExecutedAsAuthorized
    <2> SUFFICES ASSUME JournalInv, HistoryInv, NEW i \in DOMAIN inputs
                 PROVE  Cardinality(Executions(i)) <= authorized[i]
      BY DEF ExecutedAsAuthorized, Executions
    <2>1. Cardinality(Executions(i)) \in Nat /\ authorized[i] \in Nat
      BY ExecutionsFinite, AuthorizedType
    <2>2. IF Waits(i) THEN Cardinality(Executions(i)) < authorized[i]
                      ELSE Cardinality(Executions(i)) <= authorized[i]
      BY DEF HistoryInv, ExecutionsLeft
    <2> QED BY <2>1, <2>2
  <1> QED BY <1>1, HistoryKept, PTL

(* Within a scope inputs are executed in the order they were accepted, and     *)
(* latest_execution reports the running execution, if there is one.            *)
THEOREM AdmittedInOrder == Store!Spec => []AdmissionInOrder
  <1>1. JournalInv /\ HistoryInv => AdmissionInOrder
    <2> SUFFICES ASSUME JournalInv, HistoryInv PROVE AdmissionInOrder
      OBVIOUS
    <2>1. ASSUME NEW a \in DOMAIN attempts, attempts[a].status = "running"
          PROVE  LatestExecution(inputs[attempts[a].seq].scope) = {a}
      <3>1. attempts[a].started
        BY <2>1 DEF JournalInv, ValidateReceipts, AttemptFacts
      <3>2. \A b \in DOMAIN attempts :
              inputs[attempts[b].seq].scope = inputs[attempts[a].seq].scope => b <= a
        BY <2>1 DEF HistoryInv, ActiveIsLast, Active
      <3>3. DOMAIN attempts \subseteq Nat
        BY SeqDomain DEF JournalInv, JournalTypeOK
      <3> QED BY <3>1, <3>2, <3>3 DEF LatestExecution
    <2> QED BY <2>1 DEF HistoryInv, EarlierSettled, AdmissionInOrder
  <1> QED BY <1>1, HistoryKept, PTL

\* A step of the journal keeps it valid.
LEMMA JournalStaysValid ==
  ASSUME JournalInv, [Store!Next]_journal
  PROVE  JournalInv'
BY JournalNext DEF Store!vars, Store!journal, journal

-----------------------------------------------------------------------------
(* The service over the journal. *)

\* The rows of a valid journal.
LEMMA Tables ==
  ASSUME JournalInv
  PROVE  /\ open \in BOOLEAN /\ inputs \in Seq(InputRow) /\ attempts \in Seq(AttemptRow)
         /\ \A i \in DOMAIN inputs :
              /\ inputs[i] \in InputRow /\ i \in Nat
              /\ inputs[i].scope \in Scopes /\ inputs[i].message \in Messages
              /\ inputs[i].attempt = 0 => inputs[i].status \in {"pending", "cancelled"}
              /\ inputs[i].status = "pending" => inputs[i].attempt = 0
              /\ inputs[i].attempt # 0 => /\ inputs[i].attempt \in DOMAIN attempts
                                          /\ attempts[inputs[i].attempt].seq = i
         /\ \A a \in DOMAIN attempts :
              /\ attempts[a] \in AttemptRow /\ a \in Nat /\ a # 0
              /\ attempts[a].seq \in DOMAIN inputs
<1>1. /\ open \in BOOLEAN /\ inputs \in Seq(InputRow) /\ attempts \in Seq(AttemptRow)
      /\ ValidateReceipts
  BY DEF JournalInv, JournalTypeOK
<1>2. \A i \in DOMAIN inputs : inputs[i] \in InputRow /\ i \in Nat
  BY <1>1
<1>3. \A a \in DOMAIN attempts : attempts[a] \in AttemptRow /\ a \in Nat /\ a # 0
  BY <1>1
<1>4. \A i \in DOMAIN inputs : inputs[i].scope \in Scopes /\ inputs[i].message \in Messages
  BY <1>2 DEF InputRow
<1>5. \A i \in DOMAIN inputs :
        /\ inputs[i].attempt = 0 => inputs[i].status \in {"pending", "cancelled"}
        /\ inputs[i].status = "pending" => inputs[i].attempt = 0
        /\ inputs[i].attempt # 0 => /\ inputs[i].attempt \in DOMAIN attempts
                                    /\ attempts[inputs[i].attempt].seq = i
  BY <1>1 DEF ValidateReceipts, InputFacts, CurrentAttempt, AttemptsOf
<1>6. \A a \in DOMAIN attempts : attempts[a].seq \in DOMAIN inputs
  BY <1>1 DEF ValidateReceipts
<1> QED
  BY <1>1, <1>2, <1>3, <1>4, <1>5, <1>6

-----------------------------------------------------------------------------
(* What the operations of the journal do to its rows. *)

RowKept(i) == inputs'[i].status = inputs[i].status /\ inputs'[i].attempt = inputs[i].attempt

\* No row is lost or renamed, and no attempt changes hands.
RowsStay ==
    /\ \A i \in DOMAIN inputs : /\ i \in DOMAIN inputs' /\ inputs'[i].scope = inputs[i].scope
                                /\ inputs'[i].message = inputs[i].message
    /\ \A a \in DOMAIN attempts : a \in DOMAIN attempts' /\ attempts'[a].seq = attempts[a].seq
SameRows == RowsStay /\ DOMAIN inputs' = DOMAIN inputs

\* One row changes.
RowBecomes(i, status, attempt) ==
    /\ SameRows /\ open' = open
    /\ inputs'[i].status = status /\ inputs'[i].attempt = attempt
    /\ \A j \in DOMAIN inputs : j # i => RowKept(j)

\* A row and an attempt are rewritten together.
LEMMA PairUpdate ==
  ASSUME JournalInv, NEW i \in DOMAIN inputs, NEW a \in DOMAIN attempts, NEW r, NEW t,
         inputs' = [inputs EXCEPT ![i] = r], attempts' = [attempts EXCEPT ![a] = t], open' = open,
         r.scope = inputs[i].scope, r.message = inputs[i].message, t.seq = attempts[a].seq
  PROVE  RowBecomes(i, r.status, r.attempt)
<1>1. inputs \in Seq(InputRow) /\ attempts \in Seq(AttemptRow)
  BY Tables
<1>2. /\ DOMAIN inputs' = DOMAIN inputs /\ inputs'[i] = r
      /\ \A j \in DOMAIN inputs : j # i => inputs'[j] = inputs[j]
  BY <1>1
<1>3. /\ DOMAIN attempts' = DOMAIN attempts /\ attempts'[a] = t
      /\ \A b \in DOMAIN attempts : b # a => attempts'[b] = attempts[b]
  BY <1>1
<1>4. RowsStay
  BY <1>2, <1>3 DEF RowsStay
<1> QED
  BY <1>2, <1>4 DEF RowBecomes, SameRows, RowKept

\* start, finish, reject and release of the attempt a row carries.
LEMMA StartEffect ==
  ASSUME JournalInv, NEW a \in DOMAIN attempts, NEW session, Store!Start(a, session)
  PROVE  RowBecomes(attempts[a].seq, "running", a)
<1> DEFINE i == attempts[a].seq
           r == [inputs[i] EXCEPT !.status = "running", !.session = session]
           t == [attempts[a] EXCEPT !.status = "running", !.started = TRUE,
                                    !.startedAt = TRUE, !.session = session]
<1>1. i \in DOMAIN inputs /\ inputs[i] \in InputRow /\ attempts[a] \in AttemptRow
  BY Tables
<1>2. /\ inputs' = [inputs EXCEPT ![i] = r] /\ attempts' = [attempts EXCEPT ![a] = t] /\ open' = open
      /\ inputs[i].attempt = a
  BY DEF Store!Start, Holds, Store!Holds
<1>3. /\ r.scope = inputs[i].scope /\ r.message = inputs[i].message /\ t.seq = attempts[a].seq
      /\ r.status = "running" /\ r.attempt = inputs[i].attempt
  BY <1>1 DEF InputRow, AttemptRow
<1> HIDE DEF i, r, t
<1>4. RowBecomes(i, r.status, r.attempt)
  BY <1>1, <1>2, <1>3, PairUpdate
<1> QED
  BY <1>2, <1>3, <1>4 DEF i

LEMMA FinishEffect ==
  ASSUME JournalInv, NEW a \in DOMAIN attempts, NEW out, Store!Finish(a, out)
  PROVE  RowBecomes(attempts[a].seq, out.status, a)
<1> DEFINE i == attempts[a].seq
           session == IF out.session = "" THEN inputs[i].session ELSE out.session
           r == [inputs[i] EXCEPT !.status = out.status, !.response = out.response,
                                  !.error = out.error, !.session = session]
           t == [attempts[a] EXCEPT !.status = out.status, !.response = out.response,
                                    !.error = out.error, !.session = session, !.settledAt = TRUE]
<1>1. i \in DOMAIN inputs /\ inputs[i] \in InputRow /\ attempts[a] \in AttemptRow
  BY Tables
<1>2. /\ inputs' = [inputs EXCEPT ![i] = r] /\ attempts' = [attempts EXCEPT ![a] = t] /\ open' = open
      /\ inputs[i].attempt = a
  BY DEF Store!Finish, Holds, Store!Holds
<1> HIDE DEF session
<1>3. /\ r.scope = inputs[i].scope /\ r.message = inputs[i].message /\ t.seq = attempts[a].seq
      /\ r.status = out.status /\ r.attempt = inputs[i].attempt
  BY <1>1 DEF InputRow, AttemptRow
<1> HIDE DEF i, r, t
<1>4. RowBecomes(i, r.status, r.attempt)
  BY <1>1, <1>2, <1>3, PairUpdate
<1> QED
  BY <1>2, <1>3, <1>4 DEF i

LEMMA RejectEffect ==
  ASSUME JournalInv, NEW a \in DOMAIN attempts, NEW error, Store!Reject(a, error)
  PROVE  RowBecomes(attempts[a].seq, "failed", a)
<1> DEFINE i == attempts[a].seq
           r == [inputs[i] EXCEPT !.status = "failed", !.error = error]
           t == [attempts[a] EXCEPT !.status = "failed", !.error = error]
<1>1. i \in DOMAIN inputs /\ inputs[i] \in InputRow /\ attempts[a] \in AttemptRow
  BY Tables
<1>2. /\ inputs' = [inputs EXCEPT ![i] = r] /\ attempts' = [attempts EXCEPT ![a] = t] /\ open' = open
      /\ inputs[i].attempt = a
  BY DEF Store!Reject, Holds, Store!Holds
<1>3. /\ r.scope = inputs[i].scope /\ r.message = inputs[i].message /\ t.seq = attempts[a].seq
      /\ r.status = "failed" /\ r.attempt = inputs[i].attempt
  BY <1>1 DEF InputRow, AttemptRow
<1> HIDE DEF i, r, t
<1>4. RowBecomes(i, r.status, r.attempt)
  BY <1>1, <1>2, <1>3, PairUpdate
<1> QED
  BY <1>2, <1>3, <1>4 DEF i

LEMMA ReleaseEffect ==
  ASSUME JournalInv, NEW a \in DOMAIN attempts, Store!Release(a)
  PROVE  RowBecomes(attempts[a].seq, "pending", 0)
<1> DEFINE i == attempts[a].seq
           r == [inputs[i] EXCEPT !.status = "pending", !.attempt = 0]
           t == [attempts[a] EXCEPT !.status = "released"]
<1>1. i \in DOMAIN inputs /\ inputs[i] \in InputRow /\ attempts[a] \in AttemptRow
  BY Tables
<1>2. inputs' = [inputs EXCEPT ![i] = r] /\ attempts' = [attempts EXCEPT ![a] = t] /\ open' = open
  BY DEF Store!Release
<1>3. /\ r.scope = inputs[i].scope /\ r.message = inputs[i].message /\ t.seq = attempts[a].seq
      /\ r.status = "pending" /\ r.attempt = 0
  BY <1>1 DEF InputRow, AttemptRow
<1> HIDE DEF i, r, t
<1>4. RowBecomes(i, r.status, r.attempt)
  BY <1>1, <1>2, <1>3, PairUpdate
<1> QED
  BY <1>3, <1>4 DEF i

\* cancel of an unstarted row, with its claim if it has one.
LEMMA CancelEffect ==
  ASSUME JournalInv, NEW i \in DOMAIN inputs, Store!Cancel(i)
  PROVE  RowBecomes(i, "cancelled", inputs[i].attempt)
<1> DEFINE r == [inputs[i] EXCEPT !.status = "cancelled"]
<1>1. inputs \in Seq(InputRow) /\ attempts \in Seq(AttemptRow)
      /\ inputs[i] \in InputRow
  BY Tables
<1>2. /\ r.scope = inputs[i].scope /\ r.message = inputs[i].message
      /\ r.status = "cancelled" /\ r.attempt = inputs[i].attempt
  BY <1>1 DEF InputRow
<1>3. inputs' = [inputs EXCEPT ![i] = r] /\ open' = open
  BY DEF Store!Cancel
<1>4. CASE inputs[i].attempt # 0
  <2> DEFINE a == inputs[i].attempt
             t == [attempts[a] EXCEPT !.status = "cancelled"]
  <2>1. a \in DOMAIN attempts /\ attempts[a] \in AttemptRow
    BY <1>4, Tables
  <2>2. attempts' = [attempts EXCEPT ![a] = t]
    BY <1>4 DEF Store!Cancel
  <2>3. t.seq = attempts[a].seq
    BY <2>1 DEF AttemptRow
  <2> HIDE DEF a, t, r
  <2>4. RowBecomes(i, r.status, r.attempt)
    BY <1>2, <1>3, <2>1, <2>2, <2>3, PairUpdate
  <2> QED
    BY <1>2, <2>4
<1>5. CASE inputs[i].attempt = 0
  <2>1. attempts' = attempts
    BY <1>5 DEF Store!Cancel
  <2> HIDE DEF r
  <2>2. /\ DOMAIN inputs' = DOMAIN inputs /\ inputs'[i] = r
        /\ \A j \in DOMAIN inputs : j # i => inputs'[j] = inputs[j]
    BY <1>1, <1>3
  <2> QED
    BY <1>2, <1>3, <2>1, <2>2 DEF RowBecomes, SameRows, RowsStay, RowKept
<1> QED
  BY <1>4, <1>5

\* claim: a pending row of an idle scope, under a new attempt.
LEMMA ClaimEffect ==
  ASSUME JournalInv, NEW s \in Scopes, Store!Claim(s)
  PROVE  \E i \in DOMAIN inputs :
           /\ inputs[i].scope = s /\ inputs[i].status = "pending"
           /\ \A j \in DOMAIN inputs : inputs[j].scope = s => inputs[j].status \notin Active
           /\ RowBecomes(i, "claimed", Len(attempts'))
           /\ Len(attempts') \in DOMAIN attempts' /\ Len(attempts') # 0 /\ Len(attempts') \in Nat
           /\ attempts'[Len(attempts')].seq = i
<1>1. inputs \in Seq(InputRow) /\ attempts \in Seq(AttemptRow)
  BY Tables
<1>2. PICK i \in DOMAIN inputs :
        /\ Store!Claimable(s, i)
        /\ attempts' = Append(attempts,
              [seq |-> i, status |-> "claimed", started |-> FALSE, startedAt |-> FALSE,
               settledAt |-> FALSE, response |-> "", error |-> "", session |-> ""])
        /\ inputs' = [inputs EXCEPT ![i] = [@ EXCEPT !.status = "claimed", !.attempt = Len(attempts) + 1]]
        /\ open' = open
  BY DEF Store!Claim
<1> DEFINE t == [seq |-> i, status |-> "claimed", started |-> FALSE, startedAt |-> FALSE,
                 settledAt |-> FALSE, response |-> "", error |-> "", session |-> ""]
           n == Len(attempts) + 1
           r == [inputs[i] EXCEPT !.status = "claimed", !.attempt = n]
<1>3. /\ r.scope = inputs[i].scope /\ r.message = inputs[i].message
      /\ r.status = "claimed" /\ r.attempt = n /\ t.seq = i
  BY <1>1 DEF InputRow
<1>4. inputs' = [inputs EXCEPT ![i] = r] /\ attempts' = Append(attempts, t)
  BY <1>2
<1> HIDE DEF r, t
<1>5. /\ DOMAIN inputs' = DOMAIN inputs /\ inputs'[i] = r
      /\ \A j \in DOMAIN inputs : j # i => inputs'[j] = inputs[j]
  BY <1>1, <1>4
<1>6. /\ Len(attempts') = n /\ n \in DOMAIN attempts' /\ n # 0 /\ n \in Nat /\ attempts'[n] = t
      /\ \A a \in DOMAIN attempts : a \in DOMAIN attempts' /\ attempts'[a] = attempts[a]
  BY <1>1, <1>4
<1>7. /\ inputs[i].scope = s /\ inputs[i].status = "pending"
      /\ \A j \in DOMAIN inputs : inputs[j].scope = s => inputs[j].status \notin Active
  BY <1>2 DEF Store!Claimable, RowsIn, Store!RowsIn, Rows, Store!Rows, Active, Store!Active
<1> HIDE DEF n
<1>8. RowBecomes(i, "claimed", n)
  BY <1>2, <1>3, <1>5, <1>6 DEF RowBecomes, SameRows, RowsStay, RowKept
<1> QED
  BY <1>3, <1>6, <1>7, <1>8

\* enqueue: a new pending row under a key nobody has.
LEMMA EnqueueEffect ==
  ASSUME JournalInv, NEW s, NEW m, NEW p, NEW c, Store!Enqueue(s, m, p, c)
  PROVE  /\ RowsStay /\ open' = open /\ \A i \in DOMAIN inputs : RowKept(i)
         /\ \A i \in DOMAIN inputs : ~(inputs[i].scope = s /\ inputs[i].message = m)
         /\ \E n : /\ n \notin DOMAIN inputs /\ DOMAIN inputs' = DOMAIN inputs \cup {n}
                   /\ inputs'[n].scope = s /\ inputs'[n].message = m
                   /\ inputs'[n].status = "pending" /\ inputs'[n].attempt = 0
<1> DEFINE r == [scope |-> s, message |-> m, payload |-> p, status |-> "pending",
                 attempt |-> 0, response |-> "", error |-> "", session |-> ""]
           n == Len(inputs) + 1
<1>1. inputs \in Seq(InputRow)
  BY Tables
<1>2. inputs' = Append(inputs, r) /\ attempts' = attempts /\ open' = open
  BY DEF Store!Enqueue
<1>3. r.scope = s /\ r.message = m /\ r.status = "pending" /\ r.attempt = 0
  OBVIOUS
<1> HIDE DEF r
<1>4. /\ n \notin DOMAIN inputs /\ DOMAIN inputs' = DOMAIN inputs \cup {n} /\ inputs'[n] = r
      /\ \A i \in DOMAIN inputs : inputs'[i] = inputs[i]
  BY <1>1, <1>2
<1> HIDE DEF n
<1>5. RowsStay /\ \A i \in DOMAIN inputs : RowKept(i)
  BY <1>2, <1>4 DEF RowsStay, RowKept
<1>6. \A i \in DOMAIN inputs : ~(inputs[i].scope = s /\ inputs[i].message = m)
  BY DEF Store!Enqueue, Rows, Store!Rows
<1> QED
  BY <1>2, <1>3, <1>4, <1>5, <1>6

\* open leaves no row active.
LEMMA OpenEffect ==
  ASSUME JournalInv, Store!Open
  PROVE  open' = TRUE /\ SameRows /\ \A i \in DOMAIN inputs : inputs'[i].status \notin Active
<1>1. /\ attempts' = [a \in DOMAIN attempts |-> Store!RecoverAttempt(attempts[a])]
      /\ inputs' = [i \in DOMAIN inputs |-> Store!RecoverInput(inputs[i])]
      /\ open' = TRUE
  BY DEF Store!Open
<1>2. ASSUME NEW i \in DOMAIN inputs
      PROVE  /\ inputs'[i].scope = inputs[i].scope /\ inputs'[i].message = inputs[i].message
             /\ inputs'[i].status \notin Active
  <2>1. inputs'[i] = Store!RecoverInput(inputs[i]) /\ inputs[i] \in InputRow
    BY <1>1, Tables
  <2> QED
    BY <2>1 DEF Store!RecoverInput, InputRow, Active
<1>3. ASSUME NEW a \in DOMAIN attempts
      PROVE  attempts'[a].seq = attempts[a].seq
  <2>1. attempts'[a] = Store!RecoverAttempt(attempts[a]) /\ attempts[a] \in AttemptRow
    BY <1>1, Tables
  <2> QED
    BY <2>1 DEF Store!RecoverAttempt, AttemptRow
<1>4. DOMAIN inputs' = DOMAIN inputs /\ DOMAIN attempts' = DOMAIN attempts
  BY <1>1
<1> QED
  BY <1>1, <1>2, <1>3, <1>4 DEF SameRows, RowsStay

-----------------------------------------------------------------------------
(* Consumers beside each other. *)

\* A row that nobody touches, or that a caller withdraws.
Quiet(i) ==
    \/ RowKept(i)
    \/ /\ inputs[i].status \in {"pending", "claimed"}
       /\ inputs'[i].status = "cancelled" /\ inputs'[i].attempt = inputs[i].attempt

\* A consumer stays where it was, apart from a cancellation.
SameTask(s) ==
    /\ task'[s].pc = task[s].pc /\ task'[s].rec = task[s].rec /\ task'[s].admitted = task[s].admitted
    /\ task'[s].op = task[s].op /\ task'[s].end = task[s].end

\* The row of a record in hand.
LEMMA Record ==
  ASSUME IInv, NEW s \in Scopes, task[s].rec # 0
  PROVE  /\ task[s].rec \in DOMAIN attempts /\ InputOf(task[s].rec) \in DOMAIN inputs
         /\ RecordFits(s, task[s], inputs[InputOf(task[s].rec)])
<1>1. task[s].rec \in DOMAIN attempts /\ RecordFits(s, task[s], inputs[InputOf(task[s].rec)])
  BY DEF IInv, TaskInv
<1>2. attempts[task[s].rec].seq \in DOMAIN inputs
  BY <1>1, Tables DEF IInv
<1> QED
  BY <1>1, <1>2 DEF InputOf

\* A withdrawn row stays withdrawn.
LEMMA ExplainedKept ==
  ASSUME NEW s, RowsStay, \A i \in DOMAIN inputs : inputs[i].scope = s => Quiet(i), Explained(s)
  PROVE  Explained(s)'
BY DEF Explained, RowsStay, Quiet, RowKept

\* What other actors do leaves a consumer's invariant alone.
LEMMA TaskKept ==
  ASSUME IInv, NEW s \in Scopes, SameTask(s), RowsStay, closing => closing',
         \A i \in DOMAIN inputs : inputs[i].scope = s => Quiet(i)
  PROVE  TaskInv(s)'
<1>1. TaskInv(s)
  BY DEF IInv
<1>2. TaskShape(task'[s])
  BY <1>1 DEF TaskInv, TaskShape, SameTask
<1>3. task'[s].rec \in DOMAIN attempts' \cup {0}
  BY <1>1 DEF TaskInv, SameTask, RowsStay
<1>4. ASSUME task'[s].rec # 0
      PROVE  RecordFits(s, task'[s], inputs'[attempts'[task'[s].rec].seq])
  <2>1. PICK i \in DOMAIN inputs : i = attempts[task[s].rec].seq /\ task[s].rec \in DOMAIN attempts
    BY <1>4, Record DEF SameTask, InputOf
  <2>2. RecordFits(s, task[s], inputs[i])
    BY <1>4, <2>1, Record DEF SameTask, InputOf
  <2>3. attempts'[task'[s].rec].seq = i
    BY <2>1 DEF SameTask, RowsStay
  <2>4. Quiet(i) /\ inputs'[i].scope = inputs[i].scope
    BY <2>2 DEF RecordFits, RowsStay
  <2>5. RecordFits(s, task'[s], inputs'[i])
    BY <2>2, <2>4 DEF RecordFits, Quiet, RowKept, SameTask, Unstarted, Active, Terminal
  <2> QED
    BY <2>3, <2>5
<1>5. task'[s].op = "release" => closing'
  BY <1>1 DEF TaskInv, SameTask
<1>6. task'[s].end = "raised" => Explained(s)'
  BY <1>1, ExplainedKept DEF TaskInv, SameTask
<1> QED
  BY <1>2, <1>3, <1>4, <1>5, <1>6 DEF TaskInv, InputOf

\* A consumer without a record.
LEMMA FreshTask ==
  ASSUME NEW s \in Scopes, task'[s].pc \in {"off", "new", "claiming", "idle", "ended"}, task'[s].rec = 0,
         task'[s].admitted = FALSE, task'[s].op = "none", task'[s].end = "raised" => Explained(s)'
  PROVE  TaskInv(s)'
BY DEF TaskInv, TaskShape

\* Only the row of its record is active in a consumer's scope.
LEMMA OnlyRecordActive ==
  ASSUME IInv, open, NEW i \in DOMAIN inputs, inputs[i].status \in Active
  PROVE  task[inputs[i].scope].rec # 0 /\ InputOf(task[inputs[i].scope].rec) = i
<1>1. task[inputs[i].scope].rec = inputs[i].attempt
  BY DEF IInv, ActiveIsOwned
<1>2. inputs[i].attempt # 0 /\ attempts[inputs[i].attempt].seq = i
  BY Tables DEF IInv, Active
<1> QED
  BY <1>1, <1>2 DEF InputOf

\* The keys of rows that stay.
LEMMA KeysStay ==
  ASSUME RowsStay, NEW i \in DOMAIN inputs
  PROVE  KeyOf(i)' = KeyOf(i)
BY DEF RowsStay, KeyOf

LEMMA SameKeys ==
  ASSUME IInv, SameRows
  PROVE  UniqueKeys' /\ \A k : RowOf(k)' = RowOf(k)
<1>1. DOMAIN inputs' = DOMAIN inputs /\ \A i \in DOMAIN inputs : KeyOf(i)' = KeyOf(i)
  BY KeysStay DEF SameRows
<1>2. UniqueKeys'
  BY <1>1 DEF IInv, UniqueKeys
<1> QED
  BY <1>1, <1>2 DEF RowOf

-----------------------------------------------------------------------------
(* One consumer moves. *)

\* The types of the service's own variables.
ServiceTypes ==
    /\ {closing, paused, serving} \subseteq BOOLEAN
    /\ signal \in [Scopes -> BOOLEAN]
    /\ task \in [Scopes -> Task]
    /\ faults \subseteq Scopes /\ active \subseteq Scopes /\ up \subseteq Scopes
    /\ pending \subseteq Keys /\ calls \subseteq Keys /\ lost \subseteq Keys
    /\ waiters \in [Keys -> {"none", "reading", "signalled", "waiting", "returned", "failed"}]
    /\ boots \in 0..MaxBoots

LEMMA Types == TypeOK <=> JournalTypeOK /\ ServiceTypes
BY DEF TypeOK, ServiceTypes

\* A receipt that is announced is the durable one.
Announced(e) ==
    /\ e[1] \in DOMAIN inputs' /\ e[3] \in Terminal
    /\ inputs'[e[1]].status = e[3] /\ inputs'[e[1]].attempt = e[2]

\* Announced receipts stay true when terminal rows stay.
LEMMA SettledKept ==
  ASSUME IInv, RowsStay, \A i \in DOMAIN inputs : inputs[i].status \in Terminal => RowKept(i),
         \A e \in settled' \ settled : Announced(e)
  PROVE  SettledTrue'
BY DEF IInv, SettledTrue, Announced, RowsStay, RowKept, Terminal

\* A key that is work stays so, beside the consumer of another scope.
LEMMA WorkKept ==
  ASSUME IInv, SameRows, NEW k \in Keys, task'[k[1]] = task[k[1]],
         \A i \in DOMAIN inputs : inputs[i].scope = k[1] => RowKept(i),
         Unfinished(k) \/ Phantom(k)
  PROVE  Unfinished(k)' \/ Phantom(k)'
<1>1. CASE Unfinished(k)
  <2>1. PICK i \in RowOf(k) : inputs[i].status \notin Terminal
    BY <1>1 DEF Unfinished
  <2>2. i \in DOMAIN inputs /\ inputs[i].scope = k[1] /\ i \in RowOf(k)'
    BY <2>1, SameKeys DEF RowOf, KeyOf
  <2>3. inputs'[i].status \notin Terminal
    BY <2>1, <2>2 DEF RowKept
  <2> QED
    BY <2>2, <2>3 DEF Unfinished, Terminal
<1>2. CASE Phantom(k)
  <2>1. k[1] \in Scopes
    BY DEF Keys
  <2>2. task[k[1]].rec # 0
    BY <1>2 DEF Phantom
  <2>3. PICK i \in DOMAIN inputs : i = InputOf(task[k[1]].rec) /\ task[k[1]].rec \in DOMAIN attempts
    BY <2>1, <2>2, Record
  <2>4. InputOf(task[k[1]].rec)' = i
    BY <2>3 DEF InputOf, SameRows, RowsStay
  <2>5. KeyOf(i) = k /\ inputs[i].status # "cancelled" /\ task[k[1]].pc # "settled"
    BY <1>2, <2>3 DEF Phantom
  <2>6. inputs[i].scope = k[1]
    BY <2>5 DEF KeyOf
  <2>7. inputs'[i].status # "cancelled" /\ <<inputs'[i].scope, inputs'[i].message>> = k
    BY <2>5, <2>6 DEF RowKept, SameRows, RowsStay, KeyOf
  <2> QED
    BY <2>2, <2>4, <2>5, <2>7 DEF Phantom, KeyOf
<1> QED
  BY <1>1, <1>2

\* A step of the consumer of s keeps the invariant.
LEMMA ConsumerMoves ==
  ASSUME IInv, NEW s \in Scopes, [Store!Next]_journal, open' = open, SameRows, ServiceTypes',
         UNCHANGED processVars, UNCHANGED <<calls, lost>>, task[s].pc # "off",
         \A t \in Scopes \ {s} : task'[t] = task[t],
         TaskInv(s)',
         \A i \in DOMAIN inputs : inputs[i].scope # s \/ inputs[i].status \in Terminal => RowKept(i),
         \A i \in DOMAIN inputs : open /\ inputs[i].scope = s /\ inputs'[i].status \in Active
                                  => task'[s].rec = inputs'[i].attempt,
         pending' \subseteq pending,
         \A i \in DOMAIN inputs : KeyOf(i) \in pending \ pending' => closing \/ inputs'[i].status \in Terminal,
         \A k \in pending' : open /\ ~closing /\ k[1] = s => Unfinished(k)' \/ Phantom(k)',
         \A e \in settled' \ settled : Announced(e),
         faults' \subseteq faults \cup {s}, s \in faults' \ faults => Explained(s)'
  PROVE  IInv'
<1>1. JournalInv'
  BY JournalStaysValid DEF IInv
<1>2. TypeOK'
  BY <1>1, Types, PTL DEF JournalInv
<1>3. RowsStay /\ closing' = closing /\ up' = up /\ serving' = serving
  BY DEF SameRows, processVars
<1>4. ASSUME NEW t \in Scopes PROVE TaskInv(t)'
  <2>1. CASE t = s
    BY <2>1
  <2>2. CASE t # s
    <3>1. SameTask(t)
      BY <2>2 DEF SameTask
    <3>2. \A i \in DOMAIN inputs : inputs[i].scope = t => Quiet(i)
      BY <2>2 DEF Quiet
    <3> QED
      BY <1>3, <3>1, <3>2, TaskKept
  <2> QED
    BY <2>1, <2>2
<1>5. UniqueKeys'
  BY SameKeys
<1>6. ActiveIsOwned'
  <2> SUFFICES ASSUME open, NEW i \in DOMAIN inputs, inputs'[i].status \in Active
               PROVE  task'[inputs'[i].scope].rec = inputs'[i].attempt
    BY DEF ActiveIsOwned, SameRows, Active
  <2>1. inputs'[i].scope = inputs[i].scope /\ inputs[i].scope \in Scopes
    BY <1>3, Tables DEF RowsStay, IInv
  <2>2. CASE inputs[i].scope = s
    BY <2>1, <2>2
  <2>3. CASE inputs[i].scope # s
    BY <2>1, <2>3 DEF IInv, ActiveIsOwned, RowKept
  <2> QED
    BY <2>2, <2>3
<1>7. WorkSeen'
  <2> SUFFICES ASSUME open, ~closing
               PROVE  /\ \A i \in DOMAIN inputs :
                            inputs'[i].status \notin Terminal /\ inputs'[i].scope \in up
                                => KeyOf(i)' \in pending' \cup lost
                      /\ \A k \in pending' : Unfinished(k)' \/ Phantom(k)'
    BY <1>3 DEF WorkSeen, SameRows, Terminal
  <2>1. ASSUME NEW i \in DOMAIN inputs, inputs'[i].status \notin Terminal, inputs'[i].scope \in up
        PROVE  KeyOf(i)' \in pending' \cup lost
    <3>1. KeyOf(i)' = KeyOf(i) /\ inputs'[i].scope = inputs[i].scope
      BY <1>3, KeysStay DEF RowsStay
    <3>2. inputs[i].status \notin Terminal
      BY <2>1 DEF RowKept
    <3>3. KeyOf(i) \in pending \cup lost
      BY <2>1, <3>1, <3>2 DEF IInv, WorkSeen
    <3> QED
      BY <2>1, <3>1, <3>3
  <2>2. ASSUME NEW k \in pending' PROVE Unfinished(k)' \/ Phantom(k)'
    <3>1. k \in Keys /\ k[1] \in Scopes /\ k \in pending
      BY DEF IInv, TypeOK, Keys
    <3>2. CASE k[1] = s
      BY <3>2
    <3>3. CASE k[1] # s
      <4>1. Unfinished(k) \/ Phantom(k)
        BY <3>1 DEF IInv, WorkSeen
      <4>2. task'[k[1]] = task[k[1]] /\ \A i \in DOMAIN inputs : inputs[i].scope = k[1] => RowKept(i)
        BY <3>1, <3>3
      <4> QED
        BY <3>1, <4>1, <4>2, WorkKept
    <3> QED
      BY <3>2, <3>3
  <2> QED
    BY <2>1, <2>2
<1>8. SettledTrue'
  BY <1>3, SettledKept
<1>9. FaultsExplained'
  <2> SUFFICES ASSUME NEW t \in faults' PROVE Explained(t)'
    BY DEF FaultsExplained
  <2>1. CASE t \in faults
    <3>1. Explained(t)
      BY <2>1 DEF IInv, FaultsExplained
    <3>2. PICK i \in DOMAIN inputs : inputs[i].scope = t /\ inputs[i].status = "cancelled"
      BY <3>1 DEF Explained
    <3>3. RowKept(i)
      BY <3>2 DEF Terminal
    <3> QED
      BY <1>3, <3>2, <3>3 DEF Explained, RowKept, RowsStay
  <2>2. CASE t \notin faults
    BY <2>2
  <2> QED
    BY <2>1, <2>2
<1>10. NotServing'
  <2>1. serving
    BY DEF IInv, NotServing, At
  <2> QED
    BY <1>3, <2>1 DEF NotServing
<1> QED
  BY <1>1, <1>2, <1>4, <1>5, <1>6, <1>7, <1>8, <1>9, <1>10 DEF IInv

\* The journal is left alone.
LEMMA StoreAlone ==
  ASSUME UNCHANGED journal
  PROVE  /\ [Store!Next]_journal /\ open' = open /\ inputs' = inputs /\ attempts' = attempts
         /\ SameRows /\ \A i : RowKept(i)
         /\ \A k : (Unfinished(k)' <=> Unfinished(k))
         /\ \A s : (Explained(s)' <=> Explained(s))
<1>1. open' = open /\ inputs' = inputs /\ attempts' = attempts
  BY DEF journal
<1>2. SameRows /\ \A i : RowKept(i)
  BY <1>1 DEF SameRows, RowsStay, RowKept
<1>3. \A k : (Unfinished(k)' <=> Unfinished(k))
  BY <1>1 DEF Unfinished, RowOf, KeyOf, Terminal
<1>4. \A s : (Explained(s)' <=> Explained(s))
  BY <1>1 DEF Explained
<1> QED
  BY <1>1, <1>2, <1>3, <1>4

\* A consumer goes on with the record it has.
LEMMA StaysInHand ==
  ASSUME IInv, NEW s \in Scopes, UNCHANGED journal, UNCHANGED processVars,
         UNCHANGED <<calls, lost, pending, settled, faults>>,
         ServiceTypes', task[s].pc # "off", NEW v, task' = [task EXCEPT ![s] = v], TaskInv(s)',
         v.rec = task[s].rec, v.pc # "settled"
  PROVE  IInv'
<1>1. /\ [Store!Next]_journal /\ open' = open /\ inputs' = inputs /\ attempts' = attempts
      /\ SameRows /\ \A i : RowKept(i)
      /\ \A k : (Unfinished(k)' <=> Unfinished(k))
  BY StoreAlone
<1>2. task \in [Scopes -> Task]
  BY DEF IInv, TypeOK
<1>3. task'[s] = v /\ \A t \in Scopes \ {s} : task'[t] = task[t]
  BY <1>2
<1>4. \A i \in DOMAIN inputs : open /\ inputs[i].scope = s /\ inputs'[i].status \in Active
                               => task'[s].rec = inputs'[i].attempt
  BY <1>1, <1>3 DEF IInv, ActiveIsOwned
<1>5. ASSUME NEW k \in pending', open, ~closing, k[1] = s PROVE Unfinished(k)' \/ Phantom(k)'
  <2>1. Unfinished(k) \/ Phantom(k)
    BY <1>5 DEF IInv, WorkSeen
  <2>2. Phantom(k) => Phantom(k)'
    BY <1>1, <1>3, <1>5 DEF Phantom, InputOf, KeyOf
  <2> QED
    BY <1>1, <2>1, <2>2
<1> QED
  BY <1>1, <1>3, <1>4, <1>5, ConsumerMoves

\* A consumer lets go of the record it had: one that was withdrawn or settled.
LEMMA LetsGo ==
  ASSUME IInv, NEW s \in Scopes, UNCHANGED journal, UNCHANGED processVars, UNCHANGED <<calls, lost>>,
         ServiceTypes', task[s].pc # "off", NEW v, task' = [task EXCEPT ![s] = v],
         v.rec = 0, v.pc \in {"off", "new", "claiming", "idle", "ended"}, v.admitted = FALSE, v.op = "none",
         v.end = "raised" => Explained(s),
         task[s].rec # 0 => \/ task[s].pc = "settled"
                            \/ inputs[InputOf(task[s].rec)].status = "cancelled",
         pending' \subseteq pending,
         \A i \in DOMAIN inputs : KeyOf(i) \in pending \ pending' => closing \/ inputs'[i].status \in Terminal,
         \A e \in settled' \ settled : Announced(e),
         faults' \subseteq faults \cup {s}, s \in faults' \ faults => Explained(s)
  PROVE  IInv'
<1>1. /\ [Store!Next]_journal /\ open' = open /\ inputs' = inputs /\ attempts' = attempts
      /\ SameRows /\ \A i : RowKept(i)
      /\ \A k : (Unfinished(k)' <=> Unfinished(k))
      /\ \A t : (Explained(t)' <=> Explained(t))
  BY StoreAlone
<1>2. task \in [Scopes -> Task]
  BY DEF IInv, TypeOK
<1>3. task'[s] = v /\ \A t \in Scopes \ {s} : task'[t] = task[t]
  BY <1>2
<1>4. TaskInv(s)'
  BY <1>1, <1>3, FreshTask
<1>5. \A i \in DOMAIN inputs : open /\ inputs[i].scope = s /\ inputs'[i].status \in Active
                               => task'[s].rec = inputs'[i].attempt
  <2> SUFFICES ASSUME NEW i \in DOMAIN inputs, open, inputs[i].scope = s, inputs[i].status \in Active
               PROVE  FALSE
    BY <1>1
  <2>1. task[s].rec # 0 /\ InputOf(task[s].rec) = i
    BY OnlyRecordActive
  <2>2. RecordFits(s, task[s], inputs[i])
    BY <2>1, Record
  <2> QED
    BY <2>1, <2>2 DEF RecordFits, Active
<1>6. ASSUME NEW k \in pending', open, ~closing, k[1] = s PROVE Unfinished(k)' \/ Phantom(k)'
  <2>1. Unfinished(k) \/ Phantom(k)
    BY <1>6 DEF IInv, WorkSeen
  <2>2. ~Phantom(k)
    BY <1>6 DEF Phantom
  <2> QED
    BY <1>1, <2>1, <2>2
<1> QED
  BY <1>1, <1>3, <1>4, <1>5, <1>6, ConsumerMoves

-----------------------------------------------------------------------------
(* The steps of a consumer that leave the journal alone. *)

\* Waiters keep their type when some are notified.
LEMMA NotifiedType ==
  ASSUME IInv, NEW K
  PROVE  Notified(K) \in [Keys -> {"none", "reading", "signalled", "waiting", "returned", "failed"}]
<1>1. waiters \in [Keys -> {"none", "reading", "signalled", "waiting", "returned", "failed"}]
  BY DEF IInv, TypeOK
<1> QED
  BY <1>1 DEF Notified

\* The records a consumer goes on with when it has none in hand.
LEMMA Blank ==
  /\ NoTask \in Task /\ NoTask.pc = "off" /\ NoTask.rec = 0 /\ NoTask.admitted = FALSE
  /\ NoTask.op = "none" /\ NoTask.end = "none" /\ NoTask.cancelling = FALSE
BY DEF NoTask, Task, Points

\* What the finally block and the next claim leave.
EndedTask(s, how) == [NoTask EXCEPT !.pc = "ended", !.end = how, !.cancelling = task[s].cancelling]
AtPoint(p) == [NoTask EXCEPT !.pc = p]

LEMMA EndedFacts ==
  ASSUME IInv, NEW s \in Scopes, NEW how \in {"returned", "cancelled", "raised"}
  PROVE  \E v \in Task :
           /\ Ended(s, how) = [task EXCEPT ![s] = v] /\ Ended(s, how) \in [Scopes -> Task]
           /\ v.rec = 0 /\ v.pc = "ended" /\ v.admitted = FALSE /\ v.op = "none" /\ v.end = how
<1>1. task \in [Scopes -> Task] /\ task[s].cancelling \in BOOLEAN
  BY DEF IInv, TypeOK, Task
<1>2. /\ EndedTask(s, how).rec = 0 /\ EndedTask(s, how).pc = "ended" /\ EndedTask(s, how).admitted = FALSE
      /\ EndedTask(s, how).op = "none" /\ EndedTask(s, how).end = how
  BY DEF EndedTask, NoTask
<1>3. EndedTask(s, how) \in Task
  BY <1>1 DEF EndedTask, NoTask, Task, Points
<1>4. Ended(s, how) = [task EXCEPT ![s] = EndedTask(s, how)]
  BY DEF Ended, EndedTask
<1>5. [task EXCEPT ![s] = EndedTask(s, how)] \in [Scopes -> Task]
  BY <1>1, <1>3
<1> QED
  BY <1>2, <1>3, <1>4, <1>5

LEMMA PointFacts ==
  ASSUME NEW p \in {"off", "new", "claiming"}
  PROVE  LET v == AtPoint(p) IN
         /\ v \in Task /\ v.rec = 0 /\ v.pc = p /\ v.admitted = FALSE /\ v.op = "none" /\ v.end = "none"
BY DEF AtPoint, NoTask, Task, Points

LEMMA NextClaimFacts ==
  ASSUME IInv, NEW s \in Scopes
  PROVE  \E v \in Task :
           /\ NextClaim(s) = [task EXCEPT ![s] = v] /\ NextClaim(s) \in [Scopes -> Task]
           /\ v.rec = 0 /\ v.pc \in {"claiming", "ended"} /\ v.admitted = FALSE /\ v.op = "none"
           /\ v.end \in {"none", "returned"}
<1>1. task \in [Scopes -> Task]
  BY DEF IInv, TypeOK
<1>2. CASE closing
  BY <1>2, EndedFacts DEF NextClaim
<1>3. CASE ~closing
  <2>1. NextClaim(s) = [task EXCEPT ![s] = AtPoint("claiming")]
    BY <1>3 DEF NextClaim, AtPoint
  <2>2. AtPoint("claiming") \in Task
    BY PointFacts
  <2>3. [task EXCEPT ![s] = AtPoint("claiming")] \in [Scopes -> Task]
    BY <1>1, <2>2
  <2> QED
    BY <2>1, <2>2, <2>3, PointFacts
<1> QED
  BY <1>2, <1>3

\* The types that a step of a consumer leaves alone.
LEMMA ServiceTypesNow == IInv => ServiceTypes
BY DEF IInv, TypeOK, ServiceTypes

\* A consumer without a record ends or goes on to its next claim.
LEMMA WithoutRecord ==
  ASSUME IInv, NEW s \in Scopes, UNCHANGED journal, UNCHANGED processVars,
         UNCHANGED <<calls, lost, pending, settled>>, task[s].pc # "off",
         task[s].rec # 0 => \/ task[s].pc = "settled"
                            \/ inputs[InputOf(task[s].rec)].status = "cancelled",
         NEW v \in Task, task' = [task EXCEPT ![s] = v], v.rec = 0,
         v.pc \in {"off", "new", "claiming", "idle", "ended"}, v.admitted = FALSE,
         v.op = "none", v.end = "raised" => Explained(s),
         signal' \in [Scopes -> BOOLEAN], active' \subseteq Scopes, faults' \subseteq faults \cup {s},
         s \in faults' \ faults => Explained(s),
         waiters' \in [Keys -> {"none", "reading", "signalled", "waiting", "returned", "failed"}]
  PROVE  IInv'
<1>1. ServiceTypes'
  BY ServiceTypesNow DEF ServiceTypes, processVars
<1>2. \A i \in DOMAIN inputs : KeyOf(i) \in pending \ pending' => closing \/ inputs'[i].status \in Terminal
  OBVIOUS
<1>3. \A e \in settled' \ settled : Announced(e)
  OBVIOUS
<1> QED
  BY <1>1, <1>2, <1>3, LetsGo

\* The consumer ends.
LEMMA EndsWithoutRecord ==
  ASSUME IInv, NEW s \in Scopes, UNCHANGED journal, UNCHANGED processVars,
         UNCHANGED <<calls, lost, pending, settled>>, task[s].pc # "off",
         task[s].rec # 0 => \/ task[s].pc = "settled"
                            \/ inputs[InputOf(task[s].rec)].status = "cancelled",
         NEW how \in {"returned", "cancelled", "raised"}, task' = Ended(s, how),
         how = "raised" => Explained(s),
         signal' \in [Scopes -> BOOLEAN], active' \subseteq Scopes, faults' \subseteq faults \cup {s},
         s \in faults' \ faults => Explained(s),
         waiters' \in [Keys -> {"none", "reading", "signalled", "waiting", "returned", "failed"}]
  PROVE  IInv'
<1>1. PICK v \in Task :
        /\ Ended(s, how) = [task EXCEPT ![s] = v] /\ Ended(s, how) \in [Scopes -> Task]
        /\ v.rec = 0 /\ v.pc = "ended" /\ v.admitted = FALSE /\ v.op = "none" /\ v.end = how
  BY EndedFacts
<1>2. /\ task' = [task EXCEPT ![s] = v] /\ v.pc \in {"off", "new", "claiming", "idle", "ended"}
      /\ (v.end = "raised" => Explained(s))
  BY <1>1
<1> QED
  BY <1>1, <1>2, WithoutRecord

\* A signal is cleared or set.
LEMMA SignalType ==
  ASSUME IInv, NEW s \in Scopes, NEW b \in BOOLEAN
  PROVE  signal \in [Scopes -> BOOLEAN] /\ [signal EXCEPT ![s] = b] \in [Scopes -> BOOLEAN]
         /\ active \subseteq Scopes /\ active \ {s} \subseteq Scopes
         /\ waiters \in [Keys -> {"none", "reading", "signalled", "waiting", "returned", "failed"}]
BY DEF IInv, TypeOK

LEMMA ConsumeBeginStep ==
  ASSUME IInv, NEW s \in Scopes, ConsumeBegin(s)
  PROVE  IInv'
<1>1. /\ task[s].pc = "new" /\ UNCHANGED journal /\ UNCHANGED processVars
      /\ UNCHANGED <<calls, lost, pending, settled, faults>>
  BY DEF ConsumeBegin, At
<1>2. task[s].rec = 0
  BY <1>1 DEF IInv, TaskInv, TaskShape
<1>3. /\ signal' \in [Scopes -> BOOLEAN] /\ active' \subseteq Scopes
      /\ waiters' \in [Keys -> {"none", "reading", "signalled", "waiting", "returned", "failed"}]
  <2>1. signal' \in [Scopes -> BOOLEAN]
    BY SignalType DEF ConsumeBegin
  <2>2. active' \subseteq Scopes
    BY SignalType DEF ConsumeBegin
  <2>3. waiters' \in [Keys -> {"none", "reading", "signalled", "waiting", "returned", "failed"}]
    <3>1. waiters' = waiters \/ waiters' = Notified(ScopeKeys(s))
      BY DEF ConsumeBegin
    <3> QED BY <3>1, SignalType, NotifiedType
  <2> QED BY <2>1, <2>2, <2>3
<1>4. CASE task' = Ended(s, "cancelled")
  BY <1>1, <1>2, <1>3, <1>4, EndsWithoutRecord
<1>5. CASE task' = NextClaim(s)
  BY <1>1, <1>2, <1>3, <1>5, NextClaimFacts, WithoutRecord
<1> QED
  BY <1>4, <1>5 DEF ConsumeBegin

LEMMA IdleResumeStep ==
  ASSUME IInv, NEW s \in Scopes, IdleResume(s)
  PROVE  IInv'
<1>1. /\ task[s].pc = "idle" /\ UNCHANGED journal /\ UNCHANGED processVars
      /\ UNCHANGED <<calls, lost, pending, settled, faults>>
  BY DEF IdleResume, At
<1>2. task[s].rec = 0
  BY <1>1 DEF IInv, TaskInv, TaskShape
<1>3. /\ signal' \in [Scopes -> BOOLEAN] /\ active' \subseteq Scopes
      /\ waiters' \in [Keys -> {"none", "reading", "signalled", "waiting", "returned", "failed"}]
  <2>1. /\ signal \in [Scopes -> BOOLEAN] /\ [signal EXCEPT ![s] = FALSE] \in [Scopes -> BOOLEAN]
        /\ active \subseteq Scopes
        /\ waiters \in [Keys -> {"none", "reading", "signalled", "waiting", "returned", "failed"}]
    BY SignalType
  <2>2. Notified(ScopeKeys(s)) \in [Keys -> {"none", "reading", "signalled", "waiting", "returned", "failed"}]
    BY NotifiedType
  <2>3. signal' \in {signal, [signal EXCEPT ![s] = FALSE]} /\ active' \in {active, active \ {s}}
        /\ waiters' \in {waiters, Notified(ScopeKeys(s))}
    BY DEF IdleResume
  <2> QED
    BY <2>1, <2>2, <2>3
<1>4. CASE task' = Ended(s, "cancelled")
  BY <1>1, <1>2, <1>3, <1>4, EndsWithoutRecord
<1>5. CASE task' = NextClaim(s)
  BY <1>1, <1>2, <1>3, <1>5, NextClaimFacts, WithoutRecord
<1> QED
  BY <1>4, <1>5 DEF IdleResume

\* _done: the slot is free again, or starts anew.
LEMMA DoneStep ==
  ASSUME IInv, NEW s \in Scopes, Done(s)
  PROVE  IInv'
<1>1. /\ task[s].pc = "ended" /\ UNCHANGED journal /\ UNCHANGED processVars
      /\ UNCHANGED <<calls, lost, pending, settled, active>>
      /\ faults' = IF task[s].end = "raised" THEN faults \cup {s} ELSE faults
  BY DEF Done, At
<1>2. task[s].rec = 0 /\ (task[s].end = "raised" => Explained(s))
  BY <1>1 DEF IInv, TaskInv, TaskShape
<1>3. /\ signal' \in [Scopes -> BOOLEAN] /\ active' \subseteq Scopes
      /\ waiters' \in [Keys -> {"none", "reading", "signalled", "waiting", "returned", "failed"}]
  BY <1>1, SignalType, NotifiedType DEF Done
<1>4. PICK v : task' = [task EXCEPT ![s] = v] /\ v \in {AtPoint("new"), NoTask}
  BY DEF Done, AtPoint
<1>5. v \in Task /\ v.rec = 0 /\ v.pc \in {"off", "new"} /\ v.admitted = FALSE /\ v.op = "none" /\ v.end = "none"
  BY <1>4, PointFacts, Blank
<1> QED
  BY <1>1, <1>2, <1>3, <1>4, <1>5, WithoutRecord

\* The commit of a result is refused: the claim was withdrawn.
LEMMA ConcludeRefusedStep ==
  ASSUME IInv, NEW s \in Scopes, ConcludeRefused(s)
  PROVE  IInv'
<1>1. /\ task[s].pc = "committing" /\ UNCHANGED journal /\ UNCHANGED processVars
      /\ UNCHANGED <<signal, calls, lost, pending, settled>>
      /\ ~Holds(task[s].rec, IF task[s].admitted THEN "running" ELSE "claimed")
      /\ faults' = faults \cup {s} /\ task' = Ended(s, "returned")
      /\ active' = active \ {s} /\ waiters' = Notified(ScopeKeys(s))
  BY DEF ConcludeRefused, At
<1>2. task[s].rec # 0
  BY <1>1 DEF IInv, TaskInv, TaskShape
<1>3. PICK i \in DOMAIN inputs : i = InputOf(task[s].rec)
  BY <1>2, Record
<1>4. RecordFits(s, task[s], inputs[i])
  BY <1>2, <1>3, Record
<1>5. inputs[i].status = "cancelled" /\ inputs[i].scope = s
  BY <1>1, <1>3, <1>4 DEF RecordFits, Unstarted, Holds, InputOf
<1>6. Explained(s)
  BY <1>5 DEF Explained
<1>7. /\ signal' \in [Scopes -> BOOLEAN] /\ active' \subseteq Scopes
      /\ waiters' \in [Keys -> {"none", "reading", "signalled", "waiting", "returned", "failed"}]
  BY <1>1, SignalType, NotifiedType
<1> QED
  BY <1>1, <1>3, <1>5, <1>6, <1>7, EndsWithoutRecord

\* A refused settlement: the claim was withdrawn.
LEMMA SettleRaisesStep ==
  ASSUME IInv, NEW s \in Scopes, SettleRaises(s)
  PROVE  IInv'
<1>1. /\ task[s].pc = "settleCommit" /\ task[s].op # "none" /\ UNCHANGED journal /\ UNCHANGED processVars
      /\ UNCHANGED <<signal, calls, lost, pending, settled>>
      /\ ~Holds(task[s].rec, IF task[s].op = "finish" THEN "running" ELSE "claimed")
      /\ \/ task' = Ended(s, "returned") /\ faults' = faults \cup {s}
         \/ task' = Ended(s, "raised") /\ faults' = faults
      /\ active' = active \ {s} /\ waiters' = Notified(ScopeKeys(s))
  BY DEF SettleRaises, At
<1>2. task[s].rec # 0 /\ task[s].op \in {"reject", "release", "finish"}
  BY <1>1 DEF IInv, TypeOK, Task, TaskInv, TaskShape
<1>3. PICK i \in DOMAIN inputs : i = InputOf(task[s].rec)
  BY <1>2, Record
<1>4. RecordFits(s, task[s], inputs[i])
  BY <1>2, <1>3, Record
<1>5. inputs[i].status = "cancelled" /\ inputs[i].scope = s
  BY <1>1, <1>2, <1>3, <1>4 DEF RecordFits, Unstarted, Holds, InputOf
<1>6. Explained(s)
  BY <1>5 DEF Explained
<1>7. /\ signal' \in [Scopes -> BOOLEAN] /\ active' \subseteq Scopes
      /\ waiters' \in [Keys -> {"none", "reading", "signalled", "waiting", "returned", "failed"}]
  BY <1>1, SignalType, NotifiedType
<1>8. PICK how \in {"returned", "raised"} : task' = Ended(s, how)
  BY <1>1
<1>9. faults' \subseteq faults \cup {s}
  BY <1>1
<1> QED
  BY <1>1, <1>3, <1>5, <1>6, <1>7, <1>8, <1>9, EndsWithoutRecord

\* A consumer goes on with what it has in hand, or with nothing.
LEMMA GoesOn ==
  ASSUME IInv, NEW s \in Scopes, UNCHANGED journal, UNCHANGED processVars,
         UNCHANGED <<calls, lost, pending, settled, faults, signal, waiters>>, active' \subseteq Scopes,
         task[s].pc \notin {"off", "settled"}, NEW v \in Task, task' = [task EXCEPT ![s] = v],
         v.rec = task[s].rec, v.pc # "settled", v.end = task[s].end, v.op = "release" => closing,
         TaskShape(v),
         ASSUME task[s].rec # 0, NEW r \in InputRow, RecordFits(s, task[s], r),
                r = inputs[InputOf(task[s].rec)]
         PROVE  RecordFits(s, v, r)
  PROVE  IInv'
<1>1. ServiceTypes'
  BY ServiceTypesNow DEF ServiceTypes, processVars
<1>2. task \in [Scopes -> Task]
  BY DEF IInv, TypeOK
<1>3. task'[s] = v
  BY <1>2
<1>4. TaskInv(s)
  BY DEF IInv
<1>5. inputs' = inputs /\ attempts' = attempts /\ (Explained(s)' <=> Explained(s)) /\ closing' = closing
  BY StoreAlone DEF processVars
<1>6. task[s].rec # 0 => RecordFits(s, v, inputs[InputOf(task[s].rec)])
  BY Record, Tables DEF IInv
<1>7. TaskInv(s)'
  BY <1>3, <1>4, <1>5, <1>6 DEF TaskInv, InputOf
<1> QED
  BY <1>1, <1>7, StaysInHand

\* The consumer's record, moved to another point.
LEMMA PointMoved ==
  ASSUME IInv, NEW s \in Scopes, NEW p \in Points
  PROVE  \E v \in Task :
           /\ [task EXCEPT ![s].pc = p] = [task EXCEPT ![s] = v]
           /\ v.pc = p /\ v.rec = task[s].rec /\ v.admitted = task[s].admitted
           /\ v.op = task[s].op /\ v.end = task[s].end
<1>1. task \in [Scopes -> Task] /\ task[s] \in Task
  BY DEF IInv, TypeOK
<1> DEFINE v == [task[s] EXCEPT !.pc = p]
<1>2. v \in Task /\ v.pc = p /\ v.rec = task[s].rec /\ v.admitted = task[s].admitted
      /\ v.op = task[s].op /\ v.end = task[s].end
  BY <1>1 DEF Task
<1>3. [task EXCEPT ![s].pc = p] = [task EXCEPT ![s] = v]
  BY <1>1
<1> QED
  BY <1>2, <1>3

\* A cancelled consumer goes to settle what it has.
LEMMA ToSettling ==
  ASSUME IInv, NEW s \in Scopes, UNCHANGED journal, UNCHANGED processVars,
         UNCHANGED <<calls, lost, pending, settled, faults, signal, waiters, active>>,
         task[s].pc \notin {"off", "settled"}, task' = Settling(s)
  PROVE  IInv'
<1>1. PICK v \in Task :
        /\ [task EXCEPT ![s].pc = "settling"] = [task EXCEPT ![s] = v]
        /\ v.pc = "settling" /\ v.rec = task[s].rec /\ v.admitted = task[s].admitted
        /\ v.op = task[s].op /\ v.end = task[s].end
  BY PointMoved DEF Points
<1>2. task' = [task EXCEPT ![s] = v] /\ active' \subseteq Scopes
  BY <1>1 DEF Settling, IInv, TypeOK
<1>3. (v.op = "release" => closing) /\ TaskShape(v) /\ v.pc # "settled"
  BY <1>1 DEF IInv, TaskInv, TaskShape
<1>4. ASSUME NEW r \in InputRow, RecordFits(s, task[s], r), r = inputs[InputOf(task[s].rec)]
      PROVE  RecordFits(s, v, r)
  BY <1>1, <1>4 DEF RecordFits
<1> QED
  BY <1>1, <1>2, <1>3, <1>4, GoesOn

LEMMA ClaimReturnStep ==
  ASSUME IInv, NEW s \in Scopes, ClaimReturn(s)
  PROVE  IInv'
<1>1. /\ task[s].pc = "claimed" /\ UNCHANGED journal /\ UNCHANGED processVars
      /\ UNCHANGED <<signal, faults, calls, lost, pending, settled>>
  BY DEF ClaimReturn, At
<1>2. task[s].pc \notin {"off", "settled"} /\ active \subseteq Scopes
  BY <1>1 DEF IInv, TypeOK
<1>3. CASE task' = Settling(s) /\ UNCHANGED <<active, waiters>>
  BY <1>1, <1>2, <1>3, ToSettling
<1>4. CASE /\ task' = Ended(s, "returned") /\ active' = active \ {s} /\ waiters' = Notified(ScopeKeys(s))
           /\ task[s].rec = 0
  <2>1. /\ signal' \in [Scopes -> BOOLEAN] /\ active' \subseteq Scopes
        /\ waiters' \in [Keys -> {"none", "reading", "signalled", "waiting", "returned", "failed"}]
    BY <1>1, <1>4, SignalType, NotifiedType
  <2> QED
    BY <1>1, <1>2, <1>4, <2>1, EndsWithoutRecord
<1>5. ASSUME NEW p \in {"acquiring", "idle"}, task' = [task EXCEPT ![s].pc = p], UNCHANGED waiters,
             active' \subseteq Scopes, p = "acquiring" <=> task[s].rec # 0
      PROVE  IInv'
  <2>1. PICK v \in Task :
          /\ [task EXCEPT ![s].pc = p] = [task EXCEPT ![s] = v]
          /\ v.pc = p /\ v.rec = task[s].rec /\ v.admitted = task[s].admitted
          /\ v.op = task[s].op /\ v.end = task[s].end
    <3>1. p \in Points
      BY DEF Points
    <3> QED
      BY <3>1, PointMoved
  <2>2. task' = [task EXCEPT ![s] = v]
    BY <1>5, <2>1
  <2>3. (v.op = "release" => closing) /\ TaskShape(v) /\ v.pc # "settled"
    BY <1>1, <1>5, <2>1 DEF IInv, TaskInv, TaskShape
  <2>4. ASSUME NEW r \in InputRow, RecordFits(s, task[s], r), r = inputs[InputOf(task[s].rec)]
        PROVE  RecordFits(s, v, r)
    BY <1>1, <1>5, <2>1, <2>4 DEF RecordFits
  <2> QED
    BY <1>1, <1>2, <1>5, <2>1, <2>2, <2>3, <2>4, GoesOn
<1>6. CASE task' = [task EXCEPT ![s].pc = "acquiring"] /\ active' = active \cup {s} /\ UNCHANGED waiters
           /\ task[s].rec # 0
  BY <1>2, <1>5, <1>6
<1>7. CASE task' = [task EXCEPT ![s].pc = "idle"] /\ UNCHANGED <<active, waiters>> /\ task[s].rec = 0
  BY <1>2, <1>5, <1>7
<1> QED
  BY <1>3, <1>4, <1>6, <1>7 DEF ClaimReturn

LEMMA AcquireOwnerStep ==
  ASSUME IInv, NEW s \in Scopes, AcquireOwner(s)
  PROVE  IInv'
<1>1. /\ task[s].pc = "acquiring" /\ UNCHANGED journal /\ UNCHANGED processVars
      /\ UNCHANGED <<signal, faults, calls, lost, pending, settled, active, waiters>>
  BY DEF AcquireOwner, At
<1>2. task[s].pc \notin {"off", "settled"} /\ active' \subseteq Scopes
  BY <1>1 DEF IInv, TypeOK
<1>3. CASE task' = Settling(s)
  BY <1>1, <1>2, <1>3, ToSettling
<1>4. CASE task' = [task EXCEPT ![s].pc = "executing", ![s].scoped = TRUE]
  <2> DEFINE v == [task[s] EXCEPT !.pc = "executing", !.scoped = TRUE]
  <2>1. task \in [Scopes -> Task] /\ task[s] \in Task
    BY DEF IInv, TypeOK
  <2>2. v \in Task /\ v.pc = "executing" /\ v.rec = task[s].rec /\ v.admitted = task[s].admitted
        /\ v.op = task[s].op /\ v.end = task[s].end
    BY <2>1 DEF Task, Points
  <2>3. task' = [task EXCEPT ![s] = v]
    BY <1>4, <2>1
  <2> HIDE DEF v
  <2>4. (v.op = "release" => closing) /\ TaskShape(v) /\ v.pc # "settled" /\ ~task[s].admitted
    BY <1>1, <2>2 DEF IInv, TaskInv, TaskShape
  <2>5. ASSUME NEW r \in InputRow, RecordFits(s, task[s], r), r = inputs[InputOf(task[s].rec)]
        PROVE  RecordFits(s, v, r)
    BY <1>1, <2>2, <2>4, <2>5 DEF RecordFits
  <2> QED
    BY <1>1, <1>2, <2>2, <2>3, <2>4, <2>5, GoesOn
<1> QED
  BY <1>3, <1>4 DEF AcquireOwner

LEMMA ExecutorEndsStep ==
  ASSUME IInv, NEW s \in Scopes, NEW failed \in BOOLEAN, ExecutorEnds(s, failed)
  PROVE  IInv'
<1>1. /\ task[s].pc = "executing" /\ UNCHANGED journal /\ UNCHANGED processVars
      /\ UNCHANGED <<signal, faults, calls, lost, pending, settled, active, waiters>>
      /\ task' = [task EXCEPT ![s].pc = "concluding", ![s].failed = failed]
  BY DEF ExecutorEnds, At
<1>2. task[s].pc \notin {"off", "settled"} /\ active' \subseteq Scopes
  BY <1>1 DEF IInv, TypeOK
<1> DEFINE v == [task[s] EXCEPT !.pc = "concluding", !.failed = failed]
<1>3. task \in [Scopes -> Task] /\ task[s] \in Task
  BY DEF IInv, TypeOK
<1>4. v \in Task /\ v.pc = "concluding" /\ v.rec = task[s].rec /\ v.admitted = task[s].admitted
      /\ v.op = task[s].op /\ v.end = task[s].end
  BY <1>3 DEF Task, Points
<1>5. task' = [task EXCEPT ![s] = v]
  BY <1>1, <1>3
<1> HIDE DEF v
<1>6. (v.op = "release" => closing) /\ TaskShape(v) /\ v.pc # "settled"
  BY <1>1, <1>4 DEF IInv, TaskInv, TaskShape
<1>7. ASSUME NEW r \in InputRow, RecordFits(s, task[s], r), r = inputs[InputOf(task[s].rec)]
      PROVE  RecordFits(s, v, r)
  BY <1>1, <1>4, <1>7 DEF RecordFits
<1> QED
  BY <1>1, <1>2, <1>4, <1>5, <1>6, <1>7, GoesOn

LEMMA ExecuteCancelledStep ==
  ASSUME IInv, NEW s \in Scopes, ExecuteCancelled(s)
  PROVE  IInv'
<1>1. /\ task[s].pc \notin {"off", "settled"} /\ UNCHANGED journal /\ UNCHANGED processVars
      /\ UNCHANGED <<signal, faults, calls, lost, pending, settled, active, waiters>>
      /\ task' = Settling(s)
  BY DEF ExecuteCancelled, At
<1> QED
  BY <1>1, ToSettling

LEMMA AbortStep ==
  ASSUME IInv, NEW s \in Scopes, Abort(s)
  PROVE  IInv'
<1>1. /\ task[s].pc \in {"executing", "concluding", "committing"} /\ UNCHANGED journal /\ UNCHANGED processVars
      /\ UNCHANGED <<signal, faults, calls, lost, pending, settled, active, waiters>>
      /\ task' = [task EXCEPT ![s].cancelling = TRUE]
  BY DEF Abort
<1>2. task[s].pc \notin {"off", "settled"} /\ active' \subseteq Scopes
  BY <1>1 DEF IInv, TypeOK
<1> DEFINE v == [task[s] EXCEPT !.cancelling = TRUE]
<1>3. task \in [Scopes -> Task] /\ task[s] \in Task
  BY DEF IInv, TypeOK
<1>4. v \in Task /\ v.pc = task[s].pc /\ v.rec = task[s].rec /\ v.admitted = task[s].admitted
      /\ v.op = task[s].op /\ v.end = task[s].end
  BY <1>3 DEF Task, Points
<1>5. task' = [task EXCEPT ![s] = v]
  BY <1>1, <1>3
<1> HIDE DEF v
<1>6. (v.op = "release" => closing) /\ TaskShape(v) /\ v.pc # "settled"
  BY <1>1, <1>4 DEF IInv, TaskInv, TaskShape
<1>7. ASSUME NEW r \in InputRow, RecordFits(s, task[s], r), r = inputs[InputOf(task[s].rec)]
      PROVE  RecordFits(s, v, r)
  BY <1>1, <1>4, <1>7 DEF RecordFits
<1> QED
  BY <1>1, <1>2, <1>4, <1>5, <1>6, <1>7, GoesOn

\* The receipt is read: one that is claimed, running or already settled.
LEMMA SettleGetStep ==
  ASSUME IInv, NEW s \in Scopes, SettleGet(s)
  PROVE  IInv'
<1>1. /\ task[s].pc = "settling" /\ UNCHANGED journal /\ UNCHANGED processVars
      /\ UNCHANGED <<signal, faults, calls, lost, pending, settled>>
  BY DEF SettleGet, At
<1>2. task[s].pc \notin {"off", "settled"}
  BY <1>1
<1>3. CASE task[s].rec = 0
  <2>1. task' = Ended(s, "cancelled") /\ active' = active \ {s} /\ waiters' = Notified(ScopeKeys(s))
    BY <1>3 DEF SettleGet
  <2>2. /\ signal' \in [Scopes -> BOOLEAN] /\ active' \subseteq Scopes
        /\ waiters' \in [Keys -> {"none", "reading", "signalled", "waiting", "returned", "failed"}]
    BY <1>1, <2>1, SignalType, NotifiedType
  <2> QED
    BY <1>1, <1>2, <1>3, <2>1, <2>2, EndsWithoutRecord
<1>4. CASE task[s].rec # 0
  <2>1. PICK i \in DOMAIN inputs : i = InputOf(task[s].rec)
    BY <1>4, Record
  <2> DEFINE op == SettleOp(inputs[i].status)
             v == [task[s] EXCEPT !.pc = "settleCommit", !.op = op]
  <2>2. task \in [Scopes -> Task] /\ task[s] \in Task
    BY DEF IInv, TypeOK
  <2>3. op \in {"none", "reject", "release", "finish"} /\ (op = "release" => closing)
    BY DEF SettleOp
  <2>4. inputs[i] \in InputRow /\ inputs[i].status # "pending"
    <3>1. inputs[i].attempt = task[s].rec
      BY <1>1, <1>4, <2>1, Record DEF RecordFits
    <3> QED
      BY <1>4, <3>1, Tables DEF IInv
  <2>5. /\ op = "finish" => inputs[i].status = "running"
        /\ op = "none" => inputs[i].status \in Terminal
        /\ op \in {"reject", "release"} => inputs[i].status \in Unstarted
    BY <2>4 DEF SettleOp, Terminal, Unstarted, InputRow, Statuses
  <2>6. task' = [task EXCEPT ![s] = v] /\ UNCHANGED <<active, waiters>>
    BY <1>4, <2>1, <2>2 DEF SettleGet
  <2> HIDE DEF op
  <2>7. v \in Task /\ v.pc = "settleCommit" /\ v.rec = task[s].rec /\ v.admitted = task[s].admitted
        /\ v.op = op /\ v.end = task[s].end
    BY <2>2, <2>3 DEF Task, Points
  <2> HIDE DEF v
  <2>8. (v.op = "release" => closing) /\ TaskShape(v) /\ v.pc # "settled" /\ active' \subseteq Scopes
    BY <1>4, <2>3, <2>6, <2>7 DEF IInv, TypeOK, TaskShape
  <2>9. ASSUME NEW r \in InputRow, RecordFits(s, task[s], r), r = inputs[InputOf(task[s].rec)]
        PROVE  RecordFits(s, v, r)
    BY <1>1, <2>1, <2>5, <2>7, <2>9 DEF RecordFits
  <2> QED
    BY <1>1, <1>2, <2>6, <2>7, <2>8, <2>9, GoesOn
<1> QED
  BY <1>3, <1>4

-----------------------------------------------------------------------------
(* The steps of a consumer that settle a receipt. *)

\* The calls of the service are operations of the journal.
LEMMA Operations ==
  /\ \A s \in Scopes : Store!Claim(s) => Store!Next
  /\ \A a \in DOMAIN attempts, t \in Texts : Store!Start(a, t) => Store!Next
  /\ \A a \in DOMAIN attempts, t \in Texts : Store!Reject(a, t) => Store!Next
  /\ \A a \in DOMAIN attempts, out \in Outcomes : Store!Finish(a, out) => Store!Next
  /\ \A a \in DOMAIN attempts : Store!Release(a) => Store!Next
BY DEF Store!Next

\* Beside the record that is settled, work stays work.
LEMMA OtherWork ==
  ASSUME IInv, NEW s \in Scopes, open, ~closing, NEW i \in DOMAIN inputs, i = InputOf(task[s].rec), SameRows,
         \A j \in DOMAIN inputs : j # i => RowKept(j), NEW k \in pending, k[1] = s, k # KeyOf(i)
  PROVE  Unfinished(k)'
<1>1. Unfinished(k) \/ Phantom(k)
  BY DEF IInv, WorkSeen
<1>2. ~Phantom(k)
  BY DEF Phantom
<1>3. PICK j \in RowOf(k) : inputs[j].status \notin Terminal
  BY <1>1, <1>2 DEF Unfinished
<1>4. j \in DOMAIN inputs /\ j # i /\ j \in RowOf(k)'
  BY <1>3, SameKeys DEF RowOf
<1>5. inputs'[j].status \notin Terminal
  BY <1>3, <1>4 DEF RowKept
<1> QED
  BY <1>4, <1>5 DEF Unfinished, Terminal

\* Beside the record, no row of the scope is active.
LEMMA OtherRows ==
  ASSUME IInv, NEW s \in Scopes, NEW i \in DOMAIN inputs, i = InputOf(task[s].rec), SameRows,
         \A j \in DOMAIN inputs : j # i => RowKept(j),
         NEW j \in DOMAIN inputs, open, inputs[j].scope = s, inputs'[j].status \in Active
  PROVE  j = i
<1> SUFFICES ASSUME j # i PROVE FALSE
  OBVIOUS
<1>1. inputs[j].status \in Active
  BY DEF RowKept
<1> QED
  BY <1>1, OnlyRecordActive

\* _consume's bookkeeping for a receipt that is terminal.
LEMMA CompletedStep ==
  ASSUME IInv, NEW s \in Scopes, [Store!Next]_journal, open' = open, UNCHANGED processVars,
         UNCHANGED <<calls, lost, signal, faults>>, task[s].pc # "off", task[s].rec # 0, Completed(s),
         NEW i \in DOMAIN inputs, i = InputOf(task[s].rec), SameRows,
         \A j \in DOMAIN inputs : j # i => RowKept(j),
         inputs'[i].status \in Terminal, inputs[i].status \in Terminal => RowKept(i)
  PROVE  IInv'
<1>1. PICK v \in Task :
        /\ NextClaim(s) = [task EXCEPT ![s] = v] /\ NextClaim(s) \in [Scopes -> Task]
        /\ v.rec = 0 /\ v.pc \in {"claiming", "ended"} /\ v.admitted = FALSE /\ v.op = "none"
        /\ v.end \in {"none", "returned"}
  BY NextClaimFacts
<1>2. /\ task' = [task EXCEPT ![s] = v] /\ pending' = pending \ {KeyOf(i)} /\ active' = active \ {s}
      /\ waiters' = Notified(IF closing THEN ScopeKeys(s) ELSE {KeyOf(i)})
      /\ settled' = settled \cup {<<i, inputs'[i].attempt, inputs'[i].status>>}
  BY <1>1 DEF Completed, Published
<1>3. task \in [Scopes -> Task]
  BY DEF IInv, TypeOK
<1>4. task'[s] = v /\ \A t \in Scopes \ {s} : task'[t] = task[t]
  BY <1>2, <1>3
<1>5. ServiceTypes'
  <2>1. waiters' \in [Keys -> {"none", "reading", "signalled", "waiting", "returned", "failed"}]
    BY <1>2, NotifiedType
  <2>2. task' \in [Scopes -> Task]
    BY <1>1, <1>2
  <2> QED
    BY <1>2, <2>1, <2>2, ServiceTypesNow DEF ServiceTypes, processVars
<1>6. TaskInv(s)'
  BY <1>1, <1>4, FreshTask
<1>7. \A j \in DOMAIN inputs : inputs[j].scope # s \/ inputs[j].status \in Terminal => RowKept(j)
  <2>1. inputs[i].scope = s
    BY Record DEF RecordFits
  <2> QED
    BY <2>1
<1>8. \A j \in DOMAIN inputs : open /\ inputs[j].scope = s /\ inputs'[j].status \in Active
                               => task'[s].rec = inputs'[j].attempt
  BY OtherRows DEF Active, Terminal
<1>9. \A j \in DOMAIN inputs : KeyOf(j) \in pending \ pending' => closing \/ inputs'[j].status \in Terminal
  BY <1>2 DEF IInv, UniqueKeys
<1>10. \A k \in pending' : open /\ ~closing /\ k[1] = s => Unfinished(k)' \/ Phantom(k)'
  BY <1>2, OtherWork
<1>11. \A e \in settled' \ settled : Announced(e)
  <2>1. i \in DOMAIN inputs'
    BY DEF SameRows
  <2> QED
    BY <1>2, <2>1 DEF Announced
<1>12. pending' \subseteq pending
  BY <1>2
<1> QED
  BY <1>4, <1>5, <1>6, <1>7, <1>8, <1>9, <1>10, <1>11, <1>12, ConsumerMoves

\* _settle's bookkeeping for a receipt that is no longer active.
LEMMA SettleKeptStep ==
  ASSUME IInv, NEW s \in Scopes, [Store!Next]_journal, open' = open, UNCHANGED processVars,
         UNCHANGED <<calls, lost, signal, faults, active, settled>>, task[s].pc = "settleCommit", SettleKept(s),
         NEW i \in DOMAIN inputs, i = InputOf(task[s].rec), SameRows,
         \A j \in DOMAIN inputs : j # i => RowKept(j),
         inputs'[i].status \notin Active, closing \/ inputs'[i].status \in Terminal,
         inputs[i].status \in Terminal => RowKept(i)
  PROVE  IInv'
<1>1. PICK v \in Task :
        /\ [task EXCEPT ![s].pc = "settled"] = [task EXCEPT ![s] = v]
        /\ v.pc = "settled" /\ v.rec = task[s].rec /\ v.admitted = task[s].admitted
        /\ v.op = task[s].op /\ v.end = task[s].end
  BY PointMoved DEF Points
<1>2. /\ task' = [task EXCEPT ![s] = v] /\ waiters' = Notified({KeyOf(i)})
      /\ pending' = IF closing THEN pending ELSE pending \ {KeyOf(i)}
  BY <1>1 DEF SettleKept
<1>3. task \in [Scopes -> Task]
  BY DEF IInv, TypeOK
<1>4. task'[s] = v /\ \A t \in Scopes \ {s} : task'[t] = task[t]
  BY <1>2, <1>3
<1>5. pending' \subseteq pending
  BY <1>2
<1>6. ServiceTypes'
  <2>1. waiters' \in [Keys -> {"none", "reading", "signalled", "waiting", "returned", "failed"}]
    BY <1>2, NotifiedType
  <2>2. task' \in [Scopes -> Task]
    BY <1>2, <1>3
  <2> QED
    BY <1>5, <2>1, <2>2, ServiceTypesNow DEF ServiceTypes, processVars
<1>7. task[s].rec # 0 /\ TaskInv(s)
  BY DEF IInv, TaskInv, TaskShape
<1>8. inputs[i].scope = s /\ task[s].rec \in DOMAIN attempts
  BY <1>7, Record DEF RecordFits
<1>9. \A j \in DOMAIN inputs : inputs[j].scope # s \/ inputs[j].status \in Terminal => RowKept(j)
  BY <1>8
<1>10. TaskInv(s)'
  <2>1. attempts'[v.rec].seq = i /\ v.rec \in DOMAIN attempts' /\ inputs'[i].scope = s /\ closing' = closing
    BY <1>1, <1>8 DEF SameRows, RowsStay, InputOf, processVars
  <2>2. RecordFits(s, v, inputs'[i])
    BY <1>1, <2>1 DEF RecordFits
  <2>3. TaskShape(v)
    BY <1>1, <1>7 DEF TaskShape
  <2>4. v.end = "raised" => Explained(s)'
    <3> SUFFICES ASSUME Explained(s) PROVE Explained(s)'
      BY <1>1, <1>7 DEF TaskInv
    <3>1. PICK j \in DOMAIN inputs : inputs[j].scope = s /\ inputs[j].status = "cancelled"
      BY DEF Explained
    <3>2. RowKept(j) /\ j \in DOMAIN inputs' /\ inputs'[j].scope = s
      BY <1>9, <3>1 DEF Terminal, SameRows, RowsStay
    <3> QED
      BY <3>1, <3>2 DEF Explained, RowKept
  <2> QED
    BY <1>1, <1>4, <1>7, <2>1, <2>2, <2>3, <2>4 DEF TaskInv, InputOf
<1>11. \A j \in DOMAIN inputs : open /\ inputs[j].scope = s /\ inputs'[j].status \in Active
                                => task'[s].rec = inputs'[j].attempt
  BY OtherRows
<1>12. \A j \in DOMAIN inputs : KeyOf(j) \in pending \ pending' => closing \/ inputs'[j].status \in Terminal
  BY <1>2 DEF IInv, UniqueKeys
<1>13. \A k \in pending' : open /\ ~closing /\ k[1] = s => Unfinished(k)' \/ Phantom(k)'
  BY <1>2, OtherWork
<1> QED
  BY <1>4, <1>5, <1>6, <1>9, <1>10, <1>11, <1>12, <1>13, ConsumerMoves

\* The record moves on in the journal, and the consumer with it.
LEMMA RecordChanges ==
  ASSUME IInv, NEW s \in Scopes, [Store!Next]_journal, UNCHANGED processVars,
         UNCHANGED <<calls, lost, signal, faults, active, settled, pending, waiters>>,
         task[s].pc \notin {"off", "settled"}, task[s].rec # 0,
         NEW i \in DOMAIN inputs, i = InputOf(task[s].rec), inputs[i].status \notin Terminal,
         NEW status, status # "cancelled", RowBecomes(i, status, task[s].rec),
         NEW v \in Task, task' = [task EXCEPT ![s] = v], v.rec = task[s].rec, v.pc # "settled",
         v.op = task[s].op, v.end = task[s].end, TaskShape(v),
         ASSUME NEW r, r.scope = s, r.status = status, r.attempt = task[s].rec PROVE RecordFits(s, v, r)
  PROVE  IInv'
<1>1. /\ SameRows /\ open' = open /\ inputs'[i].status = status /\ inputs'[i].attempt = task[s].rec
      /\ \A j \in DOMAIN inputs : j # i => RowKept(j)
  BY DEF RowBecomes
<1>2. task \in [Scopes -> Task]
  BY DEF IInv, TypeOK
<1>3. task'[s] = v /\ \A t \in Scopes \ {s} : task'[t] = task[t]
  BY <1>2
<1>4. ServiceTypes'
  <2>1. task' \in [Scopes -> Task]
    BY <1>2
  <2> QED
    BY <2>1, ServiceTypesNow DEF ServiceTypes, processVars
<1>5. inputs[i].scope = s /\ task[s].rec \in DOMAIN attempts /\ TaskInv(s)
  BY Record DEF RecordFits, IInv
<1>6. \A j \in DOMAIN inputs : inputs[j].scope # s \/ inputs[j].status \in Terminal => RowKept(j)
  BY <1>1, <1>5
<1>7. TaskInv(s)'
  <2>1. attempts'[v.rec].seq = i /\ v.rec \in DOMAIN attempts' /\ inputs'[i].scope = s /\ closing' = closing
    BY <1>1, <1>5 DEF SameRows, RowsStay, InputOf, processVars
  <2>2. RecordFits(s, v, inputs'[i])
    BY <1>1, <2>1
  <2>3. v.end = "raised" => Explained(s)'
    <3> SUFFICES ASSUME Explained(s) PROVE Explained(s)'
      BY <1>5 DEF TaskInv
    <3>1. PICK j \in DOMAIN inputs : inputs[j].scope = s /\ inputs[j].status = "cancelled"
      BY DEF Explained
    <3>2. RowKept(j) /\ j \in DOMAIN inputs' /\ inputs'[j].scope = s
      BY <1>1, <1>6, <3>1 DEF Terminal, SameRows, RowsStay
    <3> QED
      BY <3>1, <3>2 DEF Explained, RowKept
  <2> QED
    BY <1>3, <1>5, <2>1, <2>2, <2>3 DEF TaskInv, InputOf
<1>8. \A j \in DOMAIN inputs : open /\ inputs[j].scope = s /\ inputs'[j].status \in Active
                               => task'[s].rec = inputs'[j].attempt
  BY <1>1, <1>3, OtherRows
<1>9. ASSUME NEW k \in pending', open, ~closing, k[1] = s PROVE Unfinished(k)' \/ Phantom(k)'
  <2>1. CASE k # KeyOf(i)
    BY <1>1, <1>9, <2>1, OtherWork
  <2>2. CASE k = KeyOf(i)
    <3>1. InputOf(task[s].rec)' = i
      BY <1>1, <1>3, <1>5 DEF InputOf, SameRows, RowsStay
    <3>2. <<inputs'[i].scope, inputs'[i].message>> = k
      BY <1>1, <2>2 DEF KeyOf, SameRows, RowsStay
    <3> QED
      BY <1>1, <1>3, <1>9, <3>1, <3>2 DEF Phantom, KeyOf
  <2> QED
    BY <2>1, <2>2
<1>10. \A j \in DOMAIN inputs : KeyOf(j) \in pending \ pending' => closing \/ inputs'[j].status \in Terminal
  OBVIOUS
<1> QED
  BY <1>1, <1>3, <1>4, <1>6, <1>7, <1>8, <1>9, <1>10, ConsumerMoves

\* The consumer's record in the journal, while it has not been settled.
LEMMA RecordInHand ==
  ASSUME IInv, NEW s \in Scopes,
         task[s].pc \in {"executing", "concluding", "committing", "settleCommit", "settled"}
  PROVE  /\ task[s].rec # 0 /\ task[s].rec \in DOMAIN attempts
         /\ \E i \in DOMAIN inputs :
              /\ i = InputOf(task[s].rec) /\ i = attempts[task[s].rec].seq
              /\ RecordFits(s, task[s], inputs[i])
<1>1. task[s].rec # 0
  BY DEF IInv, TaskInv, TaskShape
<1> QED
  BY <1>1, Record DEF InputOf

LEMMA ConcludeGetStep ==
  ASSUME IInv, NEW s \in Scopes, ConcludeGet(s)
  PROVE  IInv'
<1>1. /\ task[s].pc = "concluding" /\ UNCHANGED journal /\ UNCHANGED processVars
      /\ UNCHANGED <<signal, faults, calls, lost>>
  BY DEF ConcludeGet, At
<1>2. task[s].pc \notin {"off", "settled"} /\ active \subseteq Scopes
  BY <1>1 DEF IInv, TypeOK
<1>3. PICK i \in DOMAIN inputs : i = InputOf(task[s].rec) /\ task[s].rec # 0
  BY <1>1, RecordInHand
<1>4. CASE inputs[i].status = "cancelled"
  <2>1. Completed(s)
    BY <1>3, <1>4 DEF ConcludeGet
  <2>2. [Store!Next]_journal /\ open' = open /\ inputs' = inputs /\ SameRows /\ \A j : RowKept(j)
    BY <1>1, StoreAlone
  <2>3. inputs'[i].status \in Terminal
    BY <1>4, <2>2 DEF Terminal
  <2> QED
    BY <1>1, <1>2, <1>3, <2>1, <2>2, <2>3, CompletedStep
<1>5. CASE inputs[i].status # "cancelled"
  <2>1. task' = [task EXCEPT ![s].pc = "committing"] /\ UNCHANGED <<pending, active, waiters, settled>>
    BY <1>3, <1>5 DEF ConcludeGet
  <2>2. PICK v \in Task :
          /\ [task EXCEPT ![s].pc = "committing"] = [task EXCEPT ![s] = v]
          /\ v.pc = "committing" /\ v.rec = task[s].rec /\ v.admitted = task[s].admitted
          /\ v.op = task[s].op /\ v.end = task[s].end
    BY PointMoved DEF Points
  <2>3. task' = [task EXCEPT ![s] = v] /\ active' \subseteq Scopes
    BY <1>2, <2>1, <2>2
  <2>4. (v.op = "release" => closing) /\ TaskShape(v) /\ v.pc # "settled"
    BY <1>1, <2>2 DEF IInv, TaskInv, TaskShape
  <2>5. ASSUME NEW r \in InputRow, RecordFits(s, task[s], r), r = inputs[InputOf(task[s].rec)]
        PROVE  RecordFits(s, v, r)
    BY <1>1, <2>2, <2>5 DEF RecordFits
  <2> QED
    BY <1>1, <1>2, <2>1, <2>2, <2>3, <2>4, <2>5, GoesOn
<1> QED
  BY <1>4, <1>5

\* What _execute commits is a terminal receipt of its attempt.
LEMMA ConcludeEffect ==
  ASSUME IInv, NEW s \in Scopes, NEW text \in Texts, task[s].pc = "committing", Conclude(s, text)
  PROVE  /\ Store!Next
         /\ \E status \in {"succeeded", "failed"} : RowBecomes(InputOf(task[s].rec), status, task[s].rec)
         /\ inputs[InputOf(task[s].rec)].status \in Active
<1>1. task[s].rec # 0 /\ task[s].rec \in DOMAIN attempts
  BY RecordInHand
<1>2. PICK a \in DOMAIN attempts : a = task[s].rec
  BY <1>1
<1>3. JournalInv /\ task[s].failed \in BOOLEAN
  BY DEF IInv, TypeOK, Task
<1>4. CASE task[s].admitted
  <2>1. PICK out \in Outcomes : Store!Finish(a, out) /\ out.status \in {"succeeded", "failed"}
    <3>1. Outcome(task[s].failed, text) \in Outcomes
      <4>1. Outcome(TRUE, text) \in Outcomes /\ Outcome(FALSE, text) \in Outcomes
        BY ConsumerAssumption
      <4> QED
        BY <1>3, <4>1
    <3>2. Outcome(task[s].failed, text).status \in {"succeeded", "failed"}
      BY DEF Outcome
    <3>3. Store!Finish(a, Outcome(task[s].failed, text))
      BY <1>2, <1>4 DEF Conclude
    <3> QED
      BY <3>1, <3>2, <3>3
  <2>2. Store!Next /\ RowBecomes(attempts[a].seq, out.status, a)
    BY <1>3, <2>1, FinishEffect, Operations
  <2>3. inputs[attempts[a].seq].status = "running"
    BY <2>1 DEF Store!Finish, Holds, Store!Holds
  <2> QED
    BY <1>2, <2>1, <2>2, <2>3 DEF InputOf, Active
<1>5. CASE ~task[s].admitted
  <2>1. Store!Reject(a, text)
    BY <1>2, <1>5 DEF Conclude
  <2>2. Store!Next /\ RowBecomes(attempts[a].seq, "failed", a)
    BY <1>3, <2>1, RejectEffect, Operations
  <2>3. inputs[attempts[a].seq].status = "claimed"
    BY <2>1 DEF Store!Reject, Holds, Store!Holds
  <2> QED
    BY <1>2, <2>2, <2>3 DEF InputOf, Active
<1> QED
  BY <1>4, <1>5

LEMMA ConcludeCommitStep ==
  ASSUME IInv, NEW s \in Scopes, NEW text \in Texts, ConcludeCommit(s, text)
  PROVE  IInv'
<1>1. /\ task[s].pc = "committing" /\ UNCHANGED processVars /\ UNCHANGED <<signal, faults, calls, lost>>
      /\ Conclude(s, text)
  BY DEF ConcludeCommit, At
<1>2. PICK i \in DOMAIN inputs : i = InputOf(task[s].rec) /\ task[s].rec # 0
  BY <1>1, RecordInHand
<1>3. PICK status \in {"succeeded", "failed"} : RowBecomes(i, status, task[s].rec)
  BY <1>1, <1>2, ConcludeEffect
<1>4. [Store!Next]_journal /\ inputs[i].status \notin Terminal
  BY <1>1, <1>2, ConcludeEffect DEF Active, Terminal
<1>5. task[s].pc \notin {"off", "settled"}
  BY <1>1
<1>6. CASE Completed(s)
  <2>1. /\ SameRows /\ open' = open /\ inputs'[i].status = status
        /\ \A j \in DOMAIN inputs : j # i => RowKept(j)
    BY <1>3 DEF RowBecomes
  <2>2. inputs'[i].status \in Terminal
    BY <2>1 DEF Terminal
  <2> QED
    BY <1>1, <1>2, <1>4, <1>5, <1>6, <2>1, <2>2, CompletedStep
<1>7. CASE task' = Settling(s) /\ UNCHANGED <<pending, active, waiters, settled>>
  <2>1. PICK v \in Task :
          /\ [task EXCEPT ![s].pc = "settling"] = [task EXCEPT ![s] = v]
          /\ v.pc = "settling" /\ v.rec = task[s].rec /\ v.admitted = task[s].admitted
          /\ v.op = task[s].op /\ v.end = task[s].end
    BY PointMoved DEF Points
  <2>2. task' = [task EXCEPT ![s] = v] /\ TaskShape(v) /\ v.pc # "settled" /\ status # "cancelled"
    BY <1>7, <2>1 DEF Settling, TaskShape
  <2>3. ASSUME NEW r, r.scope = s, r.status = status, r.attempt = task[s].rec PROVE RecordFits(s, v, r)
    BY <2>1, <2>3 DEF RecordFits
  <2>4. UNCHANGED processVars /\ UNCHANGED <<calls, lost, signal, faults, active, settled, pending, waiters>>
    BY <1>1, <1>7
  <2>5. v.rec = task[s].rec /\ v.op = task[s].op /\ v.end = task[s].end
    BY <2>1
  <2>6. task[s].rec # 0 /\ i = InputOf(task[s].rec) /\ RowBecomes(i, status, task[s].rec)
    BY <1>2, <1>3
  <2> QED
    BY <1>4, <1>5, <2>2, <2>3, <2>4, <2>5, <2>6, RecordChanges, ZenonT(40)
<1> QED
  BY <1>6, <1>7 DEF ConcludeCommit

\* start commits; the executor learns of it unless it was cancelled meanwhile.
LEMMA AdmitStep ==
  ASSUME IInv, NEW s \in Scopes, NEW text \in Texts, Admit(s, text)
  PROVE  IInv' /\ Store!Next
<1>1. /\ task[s].pc = "executing" /\ UNCHANGED processVars
      /\ UNCHANGED <<signal, faults, pending, active, calls, waiters, settled, lost>>
      /\ Store!Start(task[s].rec, text)
      /\ \/ task' = Settling(s)
         \/ task' = [task EXCEPT ![s].admitted = TRUE]
  BY DEF Admit, At
<1>2. PICK i \in DOMAIN inputs : i = InputOf(task[s].rec) /\ i = attempts[task[s].rec].seq
                                 /\ task[s].rec # 0 /\ task[s].rec \in DOMAIN attempts
  BY <1>1, RecordInHand
<1>3. PICK a \in DOMAIN attempts : a = task[s].rec
  BY <1>2
<1>4. Store!Next /\ RowBecomes(attempts[a].seq, "running", a)
  BY <1>1, <1>3, StartEffect, Operations DEF IInv
<1>5. RowBecomes(i, "running", task[s].rec) /\ inputs[i].status \notin Terminal
  BY <1>1, <1>2, <1>3, <1>4 DEF Store!Start, Holds, Store!Holds, Terminal
<1>6. task[s].pc \notin {"off", "settled"} /\ [Store!Next]_journal
  BY <1>1, <1>4
<1>7. PICK v \in Task :
        /\ task' = [task EXCEPT ![s] = v] /\ v.rec = task[s].rec /\ v.op = task[s].op /\ v.end = task[s].end
        /\ \/ v.pc = "settling"
           \/ v.pc = "executing" /\ v.admitted
  <2>1. task \in [Scopes -> Task] /\ task[s] \in Task
    BY DEF IInv, TypeOK
  <2>2. CASE task' = Settling(s)
    <3>1. PICK v \in Task :
            /\ [task EXCEPT ![s].pc = "settling"] = [task EXCEPT ![s] = v]
            /\ v.pc = "settling" /\ v.rec = task[s].rec /\ v.admitted = task[s].admitted
            /\ v.op = task[s].op /\ v.end = task[s].end
      BY PointMoved DEF Points
    <3> QED
      BY <2>2, <3>1 DEF Settling
  <2>3. CASE task' = [task EXCEPT ![s].admitted = TRUE]
    <3> DEFINE v == [task[s] EXCEPT !.admitted = TRUE]
    <3>1. v \in Task /\ v.pc = task[s].pc /\ v.rec = task[s].rec /\ v.admitted
          /\ v.op = task[s].op /\ v.end = task[s].end
      BY <2>1 DEF Task
    <3>2. task' = [task EXCEPT ![s] = v]
      BY <2>1, <2>3
    <3> QED
      BY <1>1, <3>1, <3>2
  <2> QED
    BY <1>1, <2>2, <2>3
<1>8. TaskShape(v) /\ v.pc # "settled"
  BY <1>2, <1>7 DEF TaskShape
<1>9. PICK status : status = "running"
  OBVIOUS
<1>10. RowBecomes(i, status, task[s].rec) /\ status # "cancelled"
  BY <1>5, <1>9
<1>11. ASSUME NEW r, r.scope = s, r.status = status, r.attempt = task[s].rec PROVE RecordFits(s, v, r)
  BY <1>7, <1>9, <1>11 DEF RecordFits
<1>12. IInv'
  <2>1. UNCHANGED processVars /\ UNCHANGED <<calls, lost, signal, faults, active, settled, pending, waiters>>
    BY <1>1
  <2>2. task' = [task EXCEPT ![s] = v] /\ v.rec = task[s].rec /\ v.op = task[s].op /\ v.end = task[s].end
    BY <1>7
  <2> QED
    BY <1>2, <1>5, <1>6, <1>8, <1>10, <1>11, <2>1, <2>2, RecordChanges, ZenonT(40)
<1> QED
  BY <1>4, <1>12

\* claim commits.
LEMMA ClaimCommitStep ==
  ASSUME IInv, NEW s \in Scopes, ClaimCommit(s)
  PROVE  IInv'
<1>1. /\ task[s].pc = "claiming" /\ UNCHANGED processVars
      /\ UNCHANGED <<signal, faults, pending, active, calls, waiters, settled, lost>>
  BY DEF ClaimCommit, At
<1>2. task[s].rec = 0 /\ task[s].admitted = FALSE /\ TaskInv(s) /\ task \in [Scopes -> Task] /\ task[s] \in Task
      /\ active' \subseteq Scopes
  BY <1>1 DEF IInv, TypeOK, Task, TaskInv, TaskShape
<1>3. CASE task' = [task EXCEPT ![s].pc = "claimed"] /\ UNCHANGED journal
  <2>1. PICK v \in Task :
          /\ [task EXCEPT ![s].pc = "claimed"] = [task EXCEPT ![s] = v]
          /\ v.pc = "claimed" /\ v.rec = task[s].rec /\ v.admitted = task[s].admitted
          /\ v.op = task[s].op /\ v.end = task[s].end
    BY PointMoved DEF Points
  <2>2. task' = [task EXCEPT ![s] = v]
    BY <1>3, <2>1
  <2>3. (v.op = "release" => closing) /\ TaskShape(v) /\ v.pc # "settled" /\ task[s].pc \notin {"off", "settled"}
    BY <1>1, <1>2, <2>1 DEF TaskInv, TaskShape
  <2>4. ASSUME task[s].rec # 0, NEW r \in InputRow, RecordFits(s, task[s], r),
               r = inputs[InputOf(task[s].rec)]
        PROVE  RecordFits(s, v, r)
    BY <1>2, <2>4
  <2> QED
    BY <1>1, <1>2, <1>3, <2>1, <2>2, <2>3, <2>4, GoesOn
<1>4. CASE Store!Claim(s) /\ task' = [task EXCEPT ![s].pc = "claimed", ![s].rec = Len(attempts')]
  <2>1. PICK i \in DOMAIN inputs :
           /\ inputs[i].scope = s /\ inputs[i].status = "pending"
           /\ \A j \in DOMAIN inputs : inputs[j].scope = s => inputs[j].status \notin Active
           /\ RowBecomes(i, "claimed", Len(attempts'))
           /\ Len(attempts') \in DOMAIN attempts' /\ Len(attempts') # 0 /\ Len(attempts') \in Nat
           /\ attempts'[Len(attempts')].seq = i
    BY <1>4, ClaimEffect DEF IInv
  <2> DEFINE n == Len(attempts')
             v == [task[s] EXCEPT !.pc = "claimed", !.rec = n]
  <2>2. task' = [task EXCEPT ![s] = v]
    BY <1>2, <1>4
  <2>3. v \in Task /\ v.pc = "claimed" /\ v.rec = n /\ v.admitted = FALSE
        /\ v.op = task[s].op /\ v.end = task[s].end
    <3>1. n \in Nat
      BY <2>1
    <3> HIDE DEF n
    <3> QED
      BY <1>2, <3>1 DEF Task, Points
  <2>4. /\ SameRows /\ open' = open /\ inputs'[i].status = "claimed" /\ inputs'[i].attempt = n
        /\ \A j \in DOMAIN inputs : j # i => RowKept(j)
        /\ n \in DOMAIN attempts' /\ n # 0 /\ attempts'[n].seq = i
    BY <2>1 DEF RowBecomes
  <2> HIDE DEF v, n
  <2>5. task'[s] = v /\ \A t \in Scopes \ {s} : task'[t] = task[t]
    BY <1>2, <2>2
  <2>6. ServiceTypes'
    <3>1. task' \in [Scopes -> Task]
      BY <1>2, <2>2, <2>3
    <3> QED
      BY <1>1, <3>1, ServiceTypesNow DEF ServiceTypes, processVars
  <2>7. \A j \in DOMAIN inputs : inputs[j].scope # s \/ inputs[j].status \in Terminal => RowKept(j)
    BY <2>1, <2>4 DEF Terminal
  <2>8. TaskInv(s)'
    <3>1. inputs'[i].scope = s /\ closing' = closing
      BY <1>1, <2>1, <2>4 DEF SameRows, RowsStay, processVars
    <3>2. RecordFits(s, v, inputs'[i])
      BY <2>3, <2>4, <3>1 DEF RecordFits, Unstarted
    <3>3. TaskShape(v)
      BY <2>3, <2>4 DEF TaskShape
    <3>4. v.end = "raised" => Explained(s)'
      <4> SUFFICES ASSUME Explained(s) PROVE Explained(s)'
        BY <1>2, <2>3 DEF TaskInv
      <4>1. PICK j \in DOMAIN inputs : inputs[j].scope = s /\ inputs[j].status = "cancelled"
        BY DEF Explained
      <4>2. RowKept(j) /\ j \in DOMAIN inputs' /\ inputs'[j].scope = s
        BY <2>4, <2>7, <4>1 DEF Terminal, SameRows, RowsStay
      <4> QED
        BY <4>1, <4>2 DEF Explained, RowKept
    <3> QED
      BY <1>2, <2>3, <2>4, <2>5, <3>1, <3>2, <3>3, <3>4 DEF TaskInv, InputOf
  <2>9. \A j \in DOMAIN inputs : open /\ inputs[j].scope = s /\ inputs'[j].status \in Active
                                 => task'[s].rec = inputs'[j].attempt
    BY <2>1, <2>3, <2>4, <2>5 DEF RowKept
  <2>10. ASSUME NEW k \in pending', open, ~closing, k[1] = s PROVE Unfinished(k)' \/ Phantom(k)'
    <3>1. Unfinished(k) \/ Phantom(k)
      BY <1>1, <2>10 DEF IInv, WorkSeen
    <3>2. PICK j \in RowOf(k) : inputs[j].status \notin Terminal
      BY <1>2, <2>10, <3>1 DEF Unfinished, Phantom
    <3>3. j \in DOMAIN inputs /\ j \in RowOf(k)'
      BY <2>4, <3>2, SameKeys DEF RowOf
    <3>4. inputs'[j].status \notin Terminal
      BY <2>4, <3>2, <3>3 DEF RowKept, Terminal
    <3> QED
      BY <3>3, <3>4 DEF Unfinished, Terminal
  <2>11. [Store!Next]_journal /\ task[s].pc # "off"
    BY <1>1, <1>4, Operations
  <2>12. \A j \in DOMAIN inputs : KeyOf(j) \in pending \ pending' => closing \/ inputs'[j].status \in Terminal
    BY <1>1
  <2> QED
    BY <1>1, <2>4, <2>5, <2>6, <2>7, <2>8, <2>9, <2>10, <2>11, <2>12, ConsumerMoves
<1> QED
  BY <1>3, <1>4 DEF ClaimCommit

\* What _settle commits, or finds: a receipt that is no longer active.
LEMMA SettleEffect ==
  ASSUME IInv, NEW s \in Scopes, NEW text \in Texts, SettleCommit(s, text),
         NEW i \in DOMAIN inputs, i = InputOf(task[s].rec)
  PROVE  /\ [Store!Next]_journal /\ open' = open /\ SameRows
         /\ \A j \in DOMAIN inputs : j # i => RowKept(j)
         /\ inputs'[i].status \notin Active
         /\ closing \/ inputs'[i].status \in Terminal
         /\ inputs[i].status \in Terminal => RowKept(i)
<1>1. task[s].pc = "settleCommit"
  BY DEF SettleCommit, At
<1>2. PICK a \in DOMAIN attempts : a = task[s].rec /\ i = attempts[a].seq
  BY <1>1, RecordInHand DEF InputOf
<1>3. RecordFits(s, task[s], inputs[i]) /\ TaskInv(s) /\ JournalInv
  BY <1>1, RecordInHand DEF IInv
<1>4. CASE task[s].op = "reject"
  <2>1. Store!Reject(a, text)
    BY <1>2, <1>4 DEF SettleCommit
  <2>2. Store!Next /\ RowBecomes(i, "failed", a)
    BY <1>2, <1>3, <2>1, RejectEffect, Operations
  <2>3. inputs[i].status = "claimed"
    BY <1>2, <2>1 DEF Store!Reject, Holds, Store!Holds
  <2> QED
    BY <2>2, <2>3 DEF RowBecomes, Active, Terminal
<1>5. CASE task[s].op = "release"
  <2>1. Store!Release(a) /\ closing
    BY <1>2, <1>3, <1>5 DEF SettleCommit, TaskInv
  <2>2. Store!Next /\ RowBecomes(i, "pending", 0)
    BY <1>2, <1>3, <2>1, ReleaseEffect, Operations
  <2>3. inputs[i].status = "claimed"
    BY <1>2, <2>1 DEF Store!Release, Holds, Store!Holds
  <2> QED
    BY <2>1, <2>2, <2>3 DEF RowBecomes, Active, Terminal
<1>6. CASE task[s].op = "finish"
  <2>1. PICK out \in Outcomes : Store!Finish(a, out) /\ out.status = "interrupted"
    <3>1. Interruption(text) \in Outcomes
      BY ConsumerAssumption
    <3>2. Interruption(text).status = "interrupted"
      BY DEF Interruption
    <3>3. Store!Finish(a, Interruption(text))
      BY <1>2, <1>6 DEF SettleCommit
    <3> QED
      BY <3>1, <3>2, <3>3
  <2>2. Store!Next /\ RowBecomes(i, out.status, a)
    BY <1>2, <1>3, <2>1, FinishEffect, Operations
  <2>3. inputs[i].status = "running"
    BY <1>2, <2>1 DEF Store!Finish, Holds, Store!Holds
  <2> QED
    BY <2>1, <2>2, <2>3 DEF RowBecomes, Active, Terminal
<1>7. CASE task[s].op = "none"
  <2>1. UNCHANGED journal
    BY <1>7 DEF SettleCommit
  <2>2. inputs[i].status \in Terminal
    BY <1>1, <1>3, <1>7 DEF RecordFits
  <2>3. [Store!Next]_journal /\ open' = open /\ inputs' = inputs /\ SameRows /\ \A j : RowKept(j)
    BY <2>1, StoreAlone
  <2> QED
    BY <2>2, <2>3 DEF Active, Terminal
<1>8. task[s].op \in {"none", "reject", "release", "finish"}
  BY DEF IInv, TypeOK, Task
<1> QED
  BY <1>4, <1>5, <1>6, <1>7, <1>8

LEMMA SettleCommitStep ==
  ASSUME IInv, NEW s \in Scopes, NEW text \in Texts, SettleCommit(s, text)
  PROVE  IInv' /\ [Store!Next]_journal
<1>1. /\ task[s].pc = "settleCommit" /\ UNCHANGED processVars /\ SettleKept(s)
      /\ UNCHANGED <<calls, lost, signal, faults, active, settled>>
  BY DEF SettleCommit, At
<1>2. PICK i \in DOMAIN inputs : i = InputOf(task[s].rec)
  BY <1>1, RecordInHand
<1>3. /\ [Store!Next]_journal /\ open' = open /\ SameRows
      /\ \A j \in DOMAIN inputs : j # i => RowKept(j)
      /\ inputs'[i].status \notin Active
      /\ closing \/ inputs'[i].status \in Terminal
      /\ inputs[i].status \in Terminal => RowKept(i)
  BY <1>2, SettleEffect
<1> QED
  BY <1>1, <1>2, <1>3, SettleKeptStep

LEMMA SettleForgivenStep ==
  ASSUME IInv, NEW s \in Scopes, SettleForgiven(s)
  PROVE  IInv'
<1>1. /\ task[s].pc = "settleCommit" /\ UNCHANGED journal /\ UNCHANGED processVars /\ SettleKept(s)
      /\ UNCHANGED <<calls, lost, signal, faults, active, settled>>
      /\ inputs[InputOf(task[s].rec)].status = "cancelled"
  BY DEF SettleForgiven, At
<1>2. PICK i \in DOMAIN inputs : i = InputOf(task[s].rec)
  BY <1>1, RecordInHand
<1>3. [Store!Next]_journal /\ open' = open /\ inputs' = inputs /\ SameRows /\ \A j : RowKept(j)
  BY <1>1, StoreAlone
<1>4. inputs'[i].status \notin Active /\ inputs'[i].status \in Terminal
  BY <1>1, <1>2, <1>3 DEF Active, Terminal
<1> QED
  BY <1>1, <1>2, <1>3, <1>4, SettleKeptStep

\* The settled receipt is announced as it is, and let go.
LEMMA SettlePublishStep ==
  ASSUME IInv, NEW s \in Scopes, SettlePublish(s)
  PROVE  IInv'
<1>1. /\ task[s].pc = "settled" /\ UNCHANGED journal /\ UNCHANGED processVars
      /\ UNCHANGED <<calls, lost, signal, faults, pending>>
      /\ settled' = Published(InputOf(task[s].rec)) /\ task' = Ended(s, "cancelled")
      /\ active' = active \ {s} /\ waiters' = Notified(ScopeKeys(s))
  BY DEF SettlePublish, At
<1>2. PICK i \in DOMAIN inputs : i = InputOf(task[s].rec)
  BY <1>1, RecordInHand
<1>3. inputs' = inputs
  BY <1>1, StoreAlone
<1>4. \A e \in settled' \ settled : Announced(e)
  BY <1>1, <1>2, <1>3 DEF Published, Announced
<1>5. PICK v \in Task :
        /\ Ended(s, "cancelled") = [task EXCEPT ![s] = v] /\ Ended(s, "cancelled") \in [Scopes -> Task]
        /\ v.rec = 0 /\ v.pc = "ended" /\ v.admitted = FALSE /\ v.op = "none" /\ v.end = "cancelled"
  BY EndedFacts
<1>6. ServiceTypes'
  <2>1. waiters' \in [Keys -> {"none", "reading", "signalled", "waiting", "returned", "failed"}]
    BY <1>1, NotifiedType
  <2>2. task' \in [Scopes -> Task]
    BY <1>1, <1>5
  <2> QED
    BY <1>1, <2>1, <2>2, ServiceTypesNow DEF ServiceTypes, processVars
<1>7. task' = [task EXCEPT ![s] = v] /\ v.pc \in {"off", "new", "claiming", "idle", "ended"}
      /\ v.end # "raised" /\ task[s].pc # "off" /\ pending' \subseteq pending
  BY <1>1, <1>5
<1>8. \A j \in DOMAIN inputs : KeyOf(j) \in pending \ pending' => closing \/ inputs'[j].status \in Terminal
  BY <1>1
<1> QED
  BY <1>1, <1>4, <1>5, <1>6, <1>7, <1>8, LetsGo

-----------------------------------------------------------------------------
(* Callers and the process. *)

\* wake starts a consumer where there is none.
Woken(t) == task[t].pc = "off" /\ task'[t] = AtPoint("new")

\* A step beside the consumers, that adds rows at most.
LEMMA Aside ==
  ASSUME IInv, [Store!Next]_journal, open' => open, RowsStay, \A i \in DOMAIN inputs : RowKept(i),
         \A i \in DOMAIN inputs' \ DOMAIN inputs : inputs'[i].status = "pending", UniqueKeys',
         ServiceTypes', closing => closing', settled' = settled, faults' = faults, NotServing',
         \A t \in Scopes : SameTask(t) \/ Woken(t),
         \A k \in pending' \ pending : Unfinished(k)',
         open' /\ ~closing' => \A i \in DOMAIN inputs' :
             inputs'[i].status \notin Terminal /\ inputs'[i].scope \in up' => KeyOf(i)' \in pending' \cup lost'
  PROVE  IInv'
<1>1. JournalInv'
  BY JournalStaysValid DEF IInv
<1>2. TypeOK'
  BY <1>1, Types, PTL DEF JournalInv
<1>3. \A i \in DOMAIN inputs : Quiet(i)
  BY DEF Quiet
<1>4. ASSUME NEW t \in Scopes PROVE TaskInv(t)'
  <2>1. CASE SameTask(t)
    BY <1>3, <2>1, TaskKept
  <2>2. CASE Woken(t)
    <3>1. /\ task'[t].rec = 0 /\ task'[t].pc = "new" /\ task'[t].admitted = FALSE
          /\ task'[t].op = "none" /\ task'[t].end = "none"
      BY <2>2, PointFacts DEF Woken
    <3> QED
      BY <3>1, FreshTask
  <2> QED
    BY <2>1, <2>2
<1>5. ASSUME NEW t \in Scopes, task[t].rec # 0 PROVE SameTask(t)
  BY <1>5 DEF IInv, TaskInv, TaskShape, Woken
<1>6. ActiveIsOwned'
  <2> SUFFICES ASSUME open', NEW i \in DOMAIN inputs', inputs'[i].status \in Active
               PROVE  task'[inputs'[i].scope].rec = inputs'[i].attempt
    BY DEF ActiveIsOwned, Active
  <2>1. i \in DOMAIN inputs
    BY DEF Active
  <2>2. inputs[i].status \in Active /\ inputs'[i].attempt = inputs[i].attempt
        /\ inputs'[i].scope = inputs[i].scope
    BY <2>1 DEF RowKept, RowsStay
  <2>3. task[inputs[i].scope].rec = inputs[i].attempt /\ task[inputs[i].scope].rec # 0
    BY <2>1, <2>2, OnlyRecordActive DEF IInv, ActiveIsOwned
  <2>4. inputs[i].scope \in Scopes
    BY <2>1, Tables DEF IInv
  <2> QED
    BY <1>5, <2>2, <2>3, <2>4 DEF SameTask
<1>7. WorkSeen'
  <2> SUFFICES ASSUME open', ~closing', NEW k \in pending' PROVE Unfinished(k)' \/ Phantom(k)'
    BY DEF WorkSeen, Terminal
  <2>1. CASE k \notin pending
    BY <2>1
  <2>2. CASE k \in pending /\ Unfinished(k)
    <3>1. PICK i \in RowOf(k) : inputs[i].status \notin Terminal
      BY <2>2 DEF Unfinished
    <3>2. i \in DOMAIN inputs /\ i \in DOMAIN inputs' /\ KeyOf(i)' = k
      BY <3>1, KeysStay DEF RowOf, RowsStay
    <3>3. i \in RowOf(k)' /\ inputs'[i].status \notin Terminal
      BY <3>1, <3>2 DEF RowOf, RowKept
    <3> QED
      BY <3>3 DEF Unfinished, Terminal
  <2>3. CASE k \in pending /\ Phantom(k)
    <3>1. k[1] \in Scopes /\ task[k[1]].rec # 0
      BY <2>3 DEF IInv, TypeOK, Keys, Phantom
    <3>2. PICK i \in DOMAIN inputs : i = InputOf(task[k[1]].rec) /\ task[k[1]].rec \in DOMAIN attempts
      BY <3>1, Record
    <3>3. SameTask(k[1])
      BY <1>5, <3>1
    <3>4. InputOf(task[k[1]].rec)' = i
      BY <3>2, <3>3 DEF InputOf, RowsStay, SameTask
    <3>5. KeyOf(i)' = k /\ inputs'[i].status # "cancelled"
      BY <2>3, <3>2, KeysStay DEF Phantom, RowKept
    <3>6. <<inputs'[i].scope, inputs'[i].message>> = k
      BY <3>5 DEF KeyOf
    <3> QED
      BY <2>3, <3>1, <3>3, <3>4, <3>5, <3>6 DEF Phantom, SameTask, KeyOf
  <2> QED
    BY <2>1, <2>2, <2>3 DEF IInv, WorkSeen
<1>8. SettledTrue'
  BY SettledKept
<1>9. FaultsExplained'
  BY <1>3, ExplainedKept DEF IInv, FaultsExplained
<1> QED
  BY <1>1, <1>2, <1>4, <1>6, <1>7, <1>8, <1>9 DEF IInv

\* The rows stay as they are.
LEMMA AsideRows ==
  ASSUME IInv, [Store!Next]_journal, inputs' = inputs, attempts' = attempts, open' => open,
         ServiceTypes', closing => closing', settled' = settled, faults' = faults, NotServing',
         \A t \in Scopes : SameTask(t) \/ Woken(t),
         pending \subseteq pending', lost \subseteq lost',
         \A k \in pending' \ pending : Unfinished(k),
         open' /\ ~closing' => \A i \in DOMAIN inputs :
             inputs[i].status \notin Terminal /\ inputs[i].scope \in up' \ up => KeyOf(i) \in pending'
  PROVE  IInv'
<1>1. SameRows /\ RowsStay /\ \A i \in DOMAIN inputs : RowKept(i)
  BY DEF SameRows, RowsStay, RowKept
<1>2. UniqueKeys'
  BY <1>1, SameKeys
<1>3. \A k \in pending' \ pending : Unfinished(k)'
  BY DEF Unfinished, RowOf, KeyOf, Terminal
<1>4. \A i \in DOMAIN inputs' \ DOMAIN inputs : inputs'[i].status = "pending"
  OBVIOUS
<1>5. ASSUME open', ~closing'
      PROVE  \A i \in DOMAIN inputs' :
               inputs'[i].status \notin Terminal /\ inputs'[i].scope \in up' => KeyOf(i)' \in pending' \cup lost'
  <2> SUFFICES ASSUME NEW i \in DOMAIN inputs, inputs[i].status \notin Terminal, inputs[i].scope \in up'
               PROVE  KeyOf(i) \in pending' \cup lost'
    BY DEF KeyOf
  <2>1. CASE inputs[i].scope \in up
    <3>1. KeyOf(i) \in pending \cup lost
      BY <1>5, <2>1 DEF IInv, WorkSeen
    <3> QED
      BY <3>1
  <2>2. CASE inputs[i].scope \notin up
    BY <1>5, <2>2
  <2> QED
    BY <2>1, <2>2
<1> QED
  BY <1>1, <1>2, <1>3, <1>4, <1>5, Aside

\* A consumer that is left alone.
LEMMA TaskAlone == ASSUME task' = task PROVE \A t \in Scopes : SameTask(t) \/ Woken(t)
BY DEF SameTask

LEMMA SubmitStep ==
  ASSUME IInv, NEW k \in Keys, Submit(k)
  PROVE  IInv'
<1>1. /\ serving /\ calls' = calls \cup {k} /\ UNCHANGED journal /\ UNCHANGED processVars
      /\ UNCHANGED <<signal, task, faults, pending, active, waiters, settled, lost>>
  BY DEF Submit
<1>2. ServiceTypes' /\ NotServing' /\ up' = up /\ closing' = closing
  BY <1>1, ServiceTypesNow DEF ServiceTypes, processVars, NotServing
<1>3. [Store!Next]_journal /\ open' = open /\ inputs' = inputs /\ attempts' = attempts
  BY <1>1, StoreAlone
<1> QED
  BY <1>1, <1>2, <1>3, TaskAlone, AsideRows

\* wake: the signal is set, and a missing consumer started.
LEMMA WakeFacts ==
  ASSUME IInv, NEW s \in Scopes
  PROVE  /\ WakeSignal(s) \in [Scopes -> BOOLEAN] /\ WakeTask(s) \in [Scopes -> Task]
         /\ task' = WakeTask(s) => \A t \in Scopes : SameTask(t) \/ Woken(t)
<1>1. task \in [Scopes -> Task] /\ signal \in [Scopes -> BOOLEAN]
  BY DEF IInv, TypeOK
<1>2. WakeSignal(s) \in [Scopes -> BOOLEAN]
  BY <1>1 DEF WakeSignal
<1>3. CASE WakeTask(s) = task
  BY <1>1, <1>2, <1>3, TaskAlone
<1>4. CASE WakeTask(s) # task
  <2>1. WakeTask(s) = [task EXCEPT ![s] = AtPoint("new")] /\ task[s].pc = "off"
    BY <1>4 DEF WakeTask, At, AtPoint
  <2>2. AtPoint("new") \in Task
    BY PointFacts
  <2>3. [task EXCEPT ![s] = AtPoint("new")] \in [Scopes -> Task]
    BY <1>1, <2>2
  <2>4. ASSUME task' = WakeTask(s), NEW t \in Scopes PROVE SameTask(t) \/ Woken(t)
    BY <1>1, <2>1, <2>4 DEF SameTask, Woken
  <2> QED
    BY <1>2, <2>1, <2>3, <2>4
<1> QED
  BY <1>3, <1>4

LEMMA SubmitRefusedStep ==
  ASSUME IInv, NEW k \in Keys, SubmitRefused(k)
  PROVE  IInv'
<1>1. /\ k \in calls /\ calls' = calls \ {k} /\ UNCHANGED journal /\ UNCHANGED processVars
      /\ signal' = WakeSignal(k[1]) /\ task' = WakeTask(k[1])
      /\ UNCHANGED <<faults, pending, active, waiters, settled, lost>>
  BY DEF SubmitRefused
<1>2. k[1] \in Scopes /\ serving
  BY <1>1 DEF Keys, IInv, NotServing
<1>3. signal' \in [Scopes -> BOOLEAN] /\ task' \in [Scopes -> Task]
      /\ \A t \in Scopes : SameTask(t) \/ Woken(t)
  BY <1>1, <1>2, WakeFacts
<1>4. ServiceTypes' /\ NotServing' /\ up' = up /\ closing' = closing
  BY <1>1, <1>2, <1>3, ServiceTypesNow DEF ServiceTypes, processVars, NotServing
<1>5. [Store!Next]_journal /\ open' = open /\ inputs' = inputs /\ attempts' = attempts
  BY <1>1, StoreAlone
<1> QED
  BY <1>1, <1>3, <1>4, <1>5, AsideRows

LEMMA SubmitCommitStep ==
  ASSUME IInv, NEW k \in Keys, NEW p \in Payloads, NEW c \in Capacities, NEW acked \in BOOLEAN,
         SubmitCommit(k, p, c, acked)
  PROVE  IInv' /\ [Store!Next]_journal
<1>1. /\ k \in calls /\ calls' = calls \ {k} /\ UNCHANGED processVars
      /\ signal' = WakeSignal(k[1]) /\ task' = WakeTask(k[1])
      /\ UNCHANGED <<faults, active, waiters, settled>>
      /\ lost' = IF acked THEN lost ELSE lost \cup {k}
      /\ pending' = IF acked /\ \A i \in RowOf(k)' : inputs'[i].status \notin Terminal
                    THEN pending \cup {k} ELSE pending
  BY DEF SubmitCommit, Terminal
<1>2. k[1] \in Scopes /\ k[2] \in Messages /\ serving
  BY <1>1 DEF Keys, IInv, NotServing
<1>3. signal' \in [Scopes -> BOOLEAN] /\ task' \in [Scopes -> Task]
      /\ \A t \in Scopes : SameTask(t) \/ Woken(t)
  BY <1>1, <1>2, WakeFacts
<1>4. ServiceTypes' /\ NotServing' /\ up' = up /\ closing' = closing
  BY <1>1, <1>2, <1>3, ServiceTypesNow DEF ServiceTypes, processVars, NotServing
<1>5. CASE RowOf(k) # {} /\ UNCHANGED journal
  <2>1. [Store!Next]_journal /\ open' = open /\ inputs' = inputs /\ attempts' = attempts
    BY <1>5, StoreAlone
  <2>2. \A j \in pending' \ pending : Unfinished(j)
    <3>1. RowOf(k)' = RowOf(k)
      BY <2>1 DEF RowOf, KeyOf
    <3> QED
      BY <1>1, <1>5, <2>1, <3>1 DEF Unfinished
  <2>3. pending \subseteq pending' /\ lost \subseteq lost'
    BY <1>1
  <2> QED
    BY <1>1, <1>3, <1>4, <2>1, <2>2, <2>3, AsideRows
<1>6. CASE Store!Enqueue(k[1], k[2], p, c)
  <2>1. /\ RowsStay /\ open' = open /\ \A i \in DOMAIN inputs : RowKept(i)
        /\ \A i \in DOMAIN inputs : ~(inputs[i].scope = k[1] /\ inputs[i].message = k[2])
        /\ \E n : /\ n \notin DOMAIN inputs /\ DOMAIN inputs' = DOMAIN inputs \cup {n}
                  /\ inputs'[n].scope = k[1] /\ inputs'[n].message = k[2]
                  /\ inputs'[n].status = "pending" /\ inputs'[n].attempt = 0
    <3>1. JournalInv
      BY DEF IInv
    <3>2. PICK s, m : s = k[1] /\ m = k[2]
      OBVIOUS
    <3>3. Store!Enqueue(s, m, p, c)
      BY <1>6, <3>2
    <3>4. /\ RowsStay /\ open' = open /\ \A i \in DOMAIN inputs : RowKept(i)
          /\ \A i \in DOMAIN inputs : ~(inputs[i].scope = s /\ inputs[i].message = m)
          /\ \E n : /\ n \notin DOMAIN inputs /\ DOMAIN inputs' = DOMAIN inputs \cup {n}
                    /\ inputs'[n].scope = s /\ inputs'[n].message = m
                    /\ inputs'[n].status = "pending" /\ inputs'[n].attempt = 0
      BY ONLY <3>1, <3>3, EnqueueEffect
    <3>5. \A i \in DOMAIN inputs : ~(inputs[i].scope = k[1] /\ inputs[i].message = k[2])
      BY ONLY <3>2, <3>4
    <3>6. \E n : /\ n \notin DOMAIN inputs /\ DOMAIN inputs' = DOMAIN inputs \cup {n}
                 /\ inputs'[n].scope = k[1] /\ inputs'[n].message = k[2]
                 /\ inputs'[n].status = "pending" /\ inputs'[n].attempt = 0
      <4>1. PICK n : /\ n \notin DOMAIN inputs /\ DOMAIN inputs' = DOMAIN inputs \cup {n}
                     /\ inputs'[n].scope = s /\ inputs'[n].message = m
                     /\ inputs'[n].status = "pending" /\ inputs'[n].attempt = 0
        BY <3>4
      <4> QED BY ONLY <3>2, <4>1
    <3> QED
      BY <3>4, <3>5, <3>6
  <2>2. PICK n : /\ n \notin DOMAIN inputs /\ DOMAIN inputs' = DOMAIN inputs \cup {n}
                 /\ inputs'[n].scope = k[1] /\ inputs'[n].message = k[2]
                 /\ inputs'[n].status = "pending" /\ inputs'[n].attempt = 0
    BY <2>1
  <2>3. Store!Next
    BY <1>2, <1>6 DEF Store!Next
  <2>4. k = <<k[1], k[2]>>
    BY DEF Keys
  <2>5. <<inputs'[n].scope, inputs'[n].message>> = k
    BY <2>2, <2>4
  <2>6. \A i \in DOMAIN inputs : KeyOf(i) # k /\ <<inputs'[i].scope, inputs'[i].message>> = KeyOf(i)
    BY <2>1 DEF KeyOf, RowsStay
  <2>7. UniqueKeys'
    <3> SUFFICES ASSUME NEW i \in DOMAIN inputs', NEW j \in DOMAIN inputs',
                        <<inputs'[i].scope, inputs'[i].message>> = <<inputs'[j].scope, inputs'[j].message>>
                 PROVE  i = j
      BY DEF UniqueKeys, KeyOf
    <3>1. CASE i = n \/ j = n
      BY <2>2, <2>5, <2>6, <3>1
    <3>2. CASE i # n /\ j # n
      BY <2>2, <2>6, <3>2 DEF IInv, UniqueKeys
    <3> QED
      BY <3>1, <3>2
  <2>8. RowOf(k)' = {n}
    BY <2>2, <2>5, <2>6 DEF RowOf, KeyOf
  <2>9. "pending" \notin Terminal
    BY DEF Terminal
  <2>10. pending' = IF acked THEN pending \cup {k} ELSE pending
    BY <1>1, <2>2, <2>8, <2>9
  <2>11. \A j \in pending' \ pending : Unfinished(j)'
    <3>1. Unfinished(k)'
      BY <2>2, <2>8, <2>9 DEF Unfinished, Terminal
    <3> QED
      BY <2>10, <3>1
  <2>12. \A i \in DOMAIN inputs' \ DOMAIN inputs : inputs'[i].status = "pending"
    BY <2>2
  <2>13. ASSUME open', ~closing', NEW i \in DOMAIN inputs',
                inputs'[i].status \notin Terminal, inputs'[i].scope \in up'
         PROVE  KeyOf(i)' \in pending' \cup lost'
    <3>1. CASE i = n
      BY <1>1, <2>5, <2>10, <3>1 DEF KeyOf
    <3>2. CASE i # n
      <4>1. i \in DOMAIN inputs /\ inputs[i].status \notin Terminal /\ inputs[i].scope \in up
        BY <1>4, <2>1, <2>2, <2>13, <3>2 DEF RowKept, RowsStay
      <4>2. KeyOf(i) \in pending \cup lost
        BY <1>4, <2>1, <2>13, <4>1 DEF IInv, WorkSeen
      <4> QED
        BY <1>1, <2>1, <2>10, <4>1, <4>2, KeysStay
    <3> QED
      BY <3>1, <3>2
  <2> QED
    BY <1>1, <1>3, <1>4, <2>1, <2>3, <2>7, <2>11, <2>12, <2>13, Aside
<1> QED
  BY <1>5, <1>6 DEF SubmitCommit

LEMMA WaitStep ==
  ASSUME IInv, NEW k \in Keys, Wait(k) \/ WaitRead(k)
  PROVE  IInv'
<1>1. /\ UNCHANGED journal /\ UNCHANGED processVars
      /\ UNCHANGED <<signal, task, faults, pending, active, calls, settled, lost>>
  BY DEF Wait, WaitRead
<1>2. PICK w \in {"reading", "failed", "returned", "waiting"} : waiters' = [waiters EXCEPT ![k] = w]
  <2>1. CASE Wait(k)
    BY <2>1 DEF Wait
  <2>2. CASE WaitRead(k)
    BY <2>2 DEF WaitRead
  <2> QED
    BY <2>1, <2>2
<1>3. waiters' \in [Keys -> {"none", "reading", "signalled", "waiting", "returned", "failed"}]
  BY <1>2 DEF IInv, TypeOK
<1>4. ServiceTypes' /\ NotServing' /\ up' = up /\ closing' = closing
  BY <1>1, <1>3, ServiceTypesNow DEF ServiceTypes, processVars, NotServing, IInv, At
<1>5. [Store!Next]_journal /\ open' = open /\ inputs' = inputs /\ attempts' = attempts
  BY <1>1, StoreAlone
<1> QED
  BY <1>1, <1>4, <1>5, TaskAlone, AsideRows

\* A withdrawal settles its row and nobody else's.
LEMMA WithdrawStep ==
  ASSUME IInv, NEW i \in DOMAIN inputs, Withdraw(i)
  PROVE  IInv' /\ Store!Next
<1>1. /\ serving /\ Store!Cancel(i) /\ pending' = pending \ {KeyOf(i)} /\ waiters' = Notified({KeyOf(i)})
      /\ settled' = Published(i) /\ UNCHANGED processVars
      /\ UNCHANGED <<signal, task, faults, active, calls, lost>>
  BY DEF Withdraw
<1>2. RowBecomes(i, "cancelled", inputs[i].attempt) /\ inputs[i].status \in {"pending", "claimed"}
  BY <1>1, CancelEffect DEF IInv, Store!Cancel
<1>3. /\ SameRows /\ RowsStay /\ open' = open /\ inputs'[i].status = "cancelled"
      /\ inputs'[i].attempt = inputs[i].attempt /\ \A j \in DOMAIN inputs : j # i => RowKept(j)
  BY <1>2 DEF RowBecomes, SameRows
<1>4. Store!Next
  BY <1>1 DEF Store!Next
<1>5. JournalInv'
  BY <1>4, JournalStaysValid DEF IInv
<1>6. ServiceTypes'
  <2>1. waiters' \in [Keys -> {"none", "reading", "signalled", "waiting", "returned", "failed"}]
    BY <1>1, NotifiedType
  <2> QED
    BY <1>1, <2>1, ServiceTypesNow DEF ServiceTypes, processVars
<1>7. TypeOK'
  BY <1>5, <1>6, Types, PTL DEF JournalInv
<1>8. \A j \in DOMAIN inputs : Quiet(j)
  BY <1>2, <1>3 DEF Quiet
<1>9. closing' = closing /\ up' = up /\ serving' = serving
  BY <1>1 DEF processVars
<1>10. ASSUME NEW t \in Scopes PROVE TaskInv(t)'
  <2>1. SameTask(t)
    BY <1>1 DEF SameTask
  <2> QED
    BY <1>3, <1>8, <1>9, <2>1, TaskKept
<1>11. UniqueKeys' /\ \A k : RowOf(k)' = RowOf(k)
  BY <1>3, SameKeys
<1>12. ActiveIsOwned'
  <2> SUFFICES ASSUME open, NEW j \in DOMAIN inputs, inputs'[j].status \in Active
               PROVE  task[inputs'[j].scope].rec = inputs'[j].attempt
    BY <1>1, <1>3 DEF ActiveIsOwned, SameRows, Active
  <2>1. RowKept(j) /\ inputs'[j].scope = inputs[j].scope
    BY <1>3 DEF Active, RowsStay
  <2> QED
    BY <2>1 DEF IInv, ActiveIsOwned, RowKept
<1>13. WorkSeen'
  <2> SUFFICES ASSUME open, ~closing
               PROVE  /\ \A j \in DOMAIN inputs :
                            inputs'[j].status \notin Terminal /\ inputs'[j].scope \in up
                                => KeyOf(j)' \in pending' \cup lost
                      /\ \A k \in pending' : Unfinished(k)' \/ Phantom(k)'
    BY <1>1, <1>3, <1>9 DEF WorkSeen, SameRows, Terminal
  <2>1. ASSUME NEW j \in DOMAIN inputs, inputs'[j].status \notin Terminal, inputs'[j].scope \in up
        PROVE  KeyOf(j)' \in pending' \cup lost
    <3>1. j # i
      BY <1>3, <2>1 DEF Terminal
    <3>2. KeyOf(j)' = KeyOf(j) /\ KeyOf(j) # KeyOf(i)
      BY <1>3, <3>1, KeysStay DEF IInv, UniqueKeys
    <3>3. inputs[j].status \notin Terminal /\ inputs[j].scope \in up
      BY <1>3, <2>1, <3>1 DEF RowKept, RowsStay
    <3>4. KeyOf(j) \in pending \cup lost
      BY <3>3 DEF IInv, WorkSeen
    <3> QED
      BY <1>1, <3>2, <3>4
  <2>2. ASSUME NEW k \in pending' PROVE Unfinished(k)' \/ Phantom(k)'
    <3>1. k \in pending /\ k # KeyOf(i)
      BY <1>1
    <3>2. CASE Unfinished(k)
      <4>1. PICK j \in RowOf(k) : inputs[j].status \notin Terminal
        BY <3>2 DEF Unfinished
      <4>2. j \in DOMAIN inputs /\ j # i /\ j \in RowOf(k)'
        BY <1>11, <3>1, <4>1 DEF RowOf
      <4>3. inputs'[j].status \notin Terminal
        BY <1>3, <4>1, <4>2 DEF RowKept
      <4> QED
        BY <4>2, <4>3 DEF Unfinished, Terminal
    <3>3. CASE Phantom(k)
      <4>1. k[1] \in Scopes /\ task[k[1]].rec # 0
        BY <3>1, <3>3 DEF IInv, TypeOK, Keys, Phantom
      <4>2. PICK j \in DOMAIN inputs : j = InputOf(task[k[1]].rec) /\ task[k[1]].rec \in DOMAIN attempts
        BY <4>1, Record
      <4>3. InputOf(task[k[1]].rec)' = j
        BY <1>1, <1>3, <4>2 DEF InputOf, RowsStay
      <4>4. KeyOf(j)' = k /\ inputs'[j].status # "cancelled"
        BY <1>3, <3>1, <3>3, <4>2, KeysStay DEF Phantom, RowKept
      <4>5. <<inputs'[j].scope, inputs'[j].message>> = k
        BY <4>4 DEF KeyOf
      <4> QED
        BY <1>1, <3>3, <4>1, <4>3, <4>4, <4>5 DEF Phantom, KeyOf
    <3> QED
      BY <3>1, <3>2, <3>3 DEF IInv, WorkSeen
  <2> QED
    BY <2>1, <2>2
<1>14. SettledTrue'
  <2>1. \A j \in DOMAIN inputs : inputs[j].status \in Terminal => RowKept(j)
    BY <1>2, <1>3 DEF Terminal
  <2>2. \A e \in settled' \ settled : Announced(e)
    <3>1. i \in DOMAIN inputs' /\ inputs'[i].status \in Terminal
      BY <1>3 DEF SameRows, Terminal
    <3> QED
      BY <1>1, <3>1 DEF Published, Announced
  <2> QED
    BY <1>3, <2>1, <2>2, SettledKept
<1>15. FaultsExplained'
  BY <1>1, <1>3, <1>8, ExplainedKept DEF IInv, FaultsExplained
<1>16. NotServing'
  BY <1>1, <1>9 DEF NotServing
<1> QED
  BY <1>4, <1>5, <1>7, <1>10, <1>11, <1>12, <1>13, <1>14, <1>15, <1>16 DEF IInv

LEMMA ActivateStep ==
  ASSUME IInv, NEW s \in Scopes, Activate(s)
  PROVE  IInv' /\ Store!Next
<1>1. /\ Store!BindScope(s) /\ up' = up \cup {s}
      /\ pending' = pending \cup {k \in ScopeKeys(s) : \E i \in RowOf(k) : inputs[i].status \notin Terminal}
      /\ UNCHANGED <<closing, paused, signal, task, faults, active, calls, waiters, settled, lost,
                     serving, boots>>
  BY DEF Activate
<1>2. Store!Next /\ inputs' = inputs /\ attempts' = attempts /\ open' = open
  BY <1>1 DEF Store!Next, Store!BindScope
<1>3. ServiceTypes' /\ NotServing'
  BY <1>1, ServiceTypesNow DEF ServiceTypes, ScopeKeys, NotServing, IInv, At
<1>4. \A k \in pending' \ pending : Unfinished(k)
  BY <1>1 DEF Unfinished
<1>5. \A i \in DOMAIN inputs :
        inputs[i].status \notin Terminal /\ inputs[i].scope \in up' \ up => KeyOf(i) \in pending'
  <2> SUFFICES ASSUME NEW i \in DOMAIN inputs, inputs[i].status \notin Terminal, inputs[i].scope = s
               PROVE  KeyOf(i) \in pending'
    BY <1>1
  <2>1. KeyOf(i) \in ScopeKeys(s)
    BY Tables DEF IInv, ScopeKeys, KeyOf, Keys
  <2>2. i \in RowOf(KeyOf(i))
    BY DEF RowOf
  <2> QED
    BY <1>1, <2>1, <2>2
<1>6. pending \subseteq pending' /\ lost \subseteq lost'
  BY <1>1
<1> QED
  BY <1>1, <1>2, <1>3, <1>4, <1>5, <1>6, TaskAlone, AsideRows

\* Consumers are started for all scopes at once.
LEMMA ServeStep ==
  ASSUME IInv, Serve
  PROVE  IInv'
<1>1. /\ ~serving /\ serving' = TRUE /\ signal' = [s \in Scopes |-> TRUE] /\ UNCHANGED journal
      /\ UNCHANGED <<closing, paused, faults, pending, active, calls, waiters, settled, lost, up, boots>>
      /\ \/ task' = task
         \/ task' = [s \in Scopes |-> AtPoint("new")]
  BY DEF Serve, AtPoint
<1>2. AtPoint("new") \in Task
  BY PointFacts
<1>3. signal' \in [Scopes -> BOOLEAN] /\ task' \in [Scopes -> Task]
  BY <1>1, <1>2 DEF IInv, TypeOK
<1>4. \A t \in Scopes : SameTask(t) \/ Woken(t)
  BY <1>1, TaskAlone DEF IInv, NotServing, At, Woken
<1>5. ServiceTypes' /\ NotServing'
  BY <1>1, <1>3, ServiceTypesNow DEF ServiceTypes, NotServing
<1>6. [Store!Next]_journal /\ open' = open /\ inputs' = inputs /\ attempts' = attempts
  BY <1>1, StoreAlone
<1> QED
  BY <1>1, <1>4, <1>5, <1>6, AsideRows

LEMMA ResumeStep ==
  ASSUME IInv, Resume
  PROVE  IInv'
<1>1. /\ serving /\ paused' = FALSE /\ signal' = [s \in Scopes |-> s \notin faults \/ signal[s]]
      /\ task' = [s \in Scopes |-> IF s \notin faults /\ At(s, "off") THEN AtPoint("new") ELSE task[s]]
      /\ UNCHANGED journal
      /\ UNCHANGED <<closing, faults, pending, active, calls, waiters, settled, lost, up, serving, boots>>
  BY DEF Resume, AtPoint
<1>2. AtPoint("new") \in Task
  BY PointFacts
<1>3. task' \in [Scopes -> Task]
  BY <1>1, <1>2 DEF IInv, TypeOK
<1>4. signal' \in [Scopes -> BOOLEAN]
  BY <1>1 DEF IInv, TypeOK
<1>5. \A t \in Scopes : SameTask(t) \/ Woken(t)
  BY <1>1 DEF SameTask, At, Woken
<1>6. ServiceTypes' /\ NotServing'
  BY <1>1, <1>3, <1>4, ServiceTypesNow DEF ServiceTypes, NotServing
<1>7. [Store!Next]_journal /\ open' = open /\ inputs' = inputs /\ attempts' = attempts
  BY <1>1, StoreAlone
<1> QED
  BY <1>1, <1>5, <1>6, <1>7, AsideRows

\* A stop leaves every consumer where it is, cancelled.
LEMMA RequestStopStep ==
  ASSUME IInv, RequestStop
  PROVE  IInv'
<1>1. /\ closing' = TRUE /\ UNCHANGED journal
      /\ task' = [s \in Scopes |-> IF task[s].pc \in {"off", "ended"} THEN task[s]
                                   ELSE [task[s] EXCEPT !.cancelling = TRUE]]
      /\ UNCHANGED <<paused, signal, faults, pending, active, calls, waiters, settled, lost, up, serving, boots>>
  BY DEF RequestStop
<1>2. task \in [Scopes -> Task]
  BY DEF IInv, TypeOK
<1>3. ASSUME NEW t \in Scopes PROVE task'[t] \in Task /\ SameTask(t)
  <2>1. task[t] \in Task /\ task'[t] \in {task[t], [task[t] EXCEPT !.cancelling = TRUE]}
    BY <1>1, <1>2
  <2> QED
    BY <2>1 DEF Task, SameTask
<1>4. task' \in [Scopes -> Task]
  <2>1. task' = [t \in Scopes |-> task'[t]]
    BY <1>1
  <2> QED
    BY <1>3, <2>1
<1>5. ServiceTypes' /\ NotServing'
  BY <1>1, <1>3, <1>4, ServiceTypesNow DEF ServiceTypes, NotServing, IInv, At, SameTask
<1>6. [Store!Next]_journal /\ open' = open /\ inputs' = inputs /\ attempts' = attempts
  BY <1>1, StoreAlone
<1> QED
  BY <1>1, <1>3, <1>5, <1>6, AsideRows

LEMMA CloseServiceStep ==
  ASSUME IInv, CloseService
  PROVE  IInv' /\ Store!Next
<1>1. /\ Store!Close /\ waiters' = Notified(Keys) /\ UNCHANGED processVars
      /\ UNCHANGED <<signal, task, faults, pending, active, calls, settled, lost>>
  BY DEF CloseService
<1>2. Store!Next /\ inputs' = inputs /\ attempts' = attempts /\ open' = FALSE
  BY <1>1 DEF Store!Next, Store!Close
<1>3. waiters' \in [Keys -> {"none", "reading", "signalled", "waiting", "returned", "failed"}]
  BY <1>1, NotifiedType
<1>4. ServiceTypes' /\ NotServing' /\ up' = up /\ closing' = closing
  BY <1>1, <1>3, ServiceTypesNow DEF ServiceTypes, processVars, NotServing, IInv, At
<1> QED
  BY <1>1, <1>2, <1>4, TaskAlone, AsideRows

\* A process begins or dies: nothing is remembered, and no row is active when
\* it begins.
LEMMA Restart ==
  ASSUME IInv, Store!Next, SameRows,
         open' => \A i \in DOMAIN inputs : inputs'[i].status \notin Active,
         closing' \in BOOLEAN, paused' \in BOOLEAN, boots' \in 0..MaxBoots, up' = {}, serving' = FALSE,
         faults' = {}, active' = {}, calls' = {}, settled' = {}, lost' = {}, pending' = {},
         signal' = [s \in Scopes |-> FALSE], task' = [s \in Scopes |-> NoTask],
         waiters' = [k \in Keys |-> "none"]
  PROVE  IInv'
<1>1. JournalInv'
  BY JournalStaysValid DEF IInv
<1>2. ServiceTypes'
  <2>1. task' \in [Scopes -> Task]
    BY Blank
  <2>2. {closing', paused', serving'} \subseteq BOOLEAN
    OBVIOUS
  <2> QED
    BY <2>1, <2>2 DEF ServiceTypes
<1>3. TypeOK'
  BY <1>1, <1>2, Types, PTL DEF JournalInv
<1>4. ASSUME NEW t \in Scopes PROVE TaskInv(t)'
  <2>1. task'[t].pc = "off" /\ task'[t].rec = 0 /\ task'[t].admitted = FALSE /\ task'[t].op = "none"
        /\ task'[t].end = "none"
    BY Blank
  <2> QED
    BY <2>1, FreshTask
<1>5. UniqueKeys'
  BY SameKeys
<1>6. ActiveIsOwned'
  BY DEF ActiveIsOwned, SameRows, Active
<1>7. WorkSeen' /\ SettledTrue' /\ FaultsExplained'
  BY DEF WorkSeen, SettledTrue, FaultsExplained
<1>8. NotServing'
  BY Blank DEF NotServing, At
<1> QED
  BY <1>1, <1>3, <1>4, <1>5, <1>6, <1>7, <1>8 DEF IInv

LEMMA BootStep ==
  ASSUME IInv, Boot
  PROVE  IInv' /\ Store!Next
<1>1. Store!Open /\ boots < MaxBoots /\ boots' = boots + 1
  BY DEF Boot
<1>2. Store!Next
  BY <1>1 DEF Store!Next
<1>3. SameRows /\ \A i \in DOMAIN inputs : inputs'[i].status \notin Active
  BY <1>1, OpenEffect DEF IInv
<1>4. boots' \in 0..MaxBoots
  BY <1>1, BootsAssumption DEF IInv, TypeOK
<1>5. /\ closing' \in BOOLEAN /\ paused' \in BOOLEAN /\ up' = {} /\ serving' = FALSE
      /\ faults' = {} /\ active' = {} /\ calls' = {} /\ settled' = {} /\ lost' = {} /\ pending' = {}
      /\ signal' = [s \in Scopes |-> FALSE] /\ task' = [s \in Scopes |-> NoTask]
      /\ waiters' = [k \in Keys |-> "none"]
  BY DEF Boot
<1> QED
  BY <1>2, <1>3, <1>4, <1>5, Restart

LEMMA CrashStep ==
  ASSUME IInv, Crash
  PROVE  IInv' /\ Store!Next
<1>1. Store!Close /\ UNCHANGED <<paused, boots>>
  BY DEF Crash
<1>2. Store!Next /\ inputs' = inputs /\ attempts' = attempts /\ open' = FALSE
  BY <1>1 DEF Store!Next, Store!Close
<1>3. SameRows
  BY <1>2 DEF SameRows, RowsStay
<1>4. paused' \in BOOLEAN /\ boots' \in 0..MaxBoots
  BY <1>1 DEF IInv, TypeOK
<1>5. /\ closing' \in BOOLEAN /\ up' = {} /\ serving' = FALSE
      /\ faults' = {} /\ active' = {} /\ calls' = {} /\ settled' = {} /\ lost' = {} /\ pending' = {}
      /\ signal' = [s \in Scopes |-> FALSE] /\ task' = [s \in Scopes |-> NoTask]
      /\ waiters' = [k \in Keys |-> "none"]
  BY DEF Crash
<1> QED
  BY <1>2, <1>3, <1>4, <1>5, Restart

-----------------------------------------------------------------------------
(* The theorems. *)

LEMMA InitIInv == Init => IInv
<1> SUFFICES ASSUME Init PROVE IInv
  OBVIOUS
<1>1. JournalInv
  BY JournalInit DEF Init
<1>2. ServiceTypes
  <2>1. boots \in 0..MaxBoots
    BY BootsAssumption DEF Init
  <2>2. task \in [Scopes -> Task]
    BY Blank DEF Init
  <2> QED
    BY <2>1, <2>2 DEF Init, ServiceTypes
<1>3. TypeOK
  BY <1>1, <1>2, Types DEF JournalInv
<1>4. inputs = <<>> /\ open = FALSE
  BY DEF Init, Store!Init
<1>5. ASSUME NEW s \in Scopes PROVE TaskInv(s)
  <2>1. task[s] = NoTask
    BY DEF Init
  <2> QED
    BY <2>1, Blank DEF TaskInv, TaskShape
<1>6. UniqueKeys /\ ActiveIsOwned /\ WorkSeen /\ SettledTrue /\ FaultsExplained
  BY <1>4 DEF UniqueKeys, ActiveIsOwned, WorkSeen, SettledTrue, FaultsExplained, Init
<1>7. NotServing
  BY Blank DEF NotServing, Init, At
<1> QED
  BY <1>1, <1>3, <1>5, <1>6, <1>7 DEF IInv

\* Every step of the service keeps the invariant.
LEMMA NextIInv == IInv /\ [Next]_vars => IInv'
<1> SUFFICES ASSUME IInv, [Next]_vars PROVE IInv'
  OBVIOUS
<1>1. CASE Boot \/ Serve \/ Resume \/ RequestStop \/ CloseService \/ Crash
  BY <1>1, BootStep, ServeStep, ResumeStep, RequestStopStep, CloseServiceStep, CrashStep
<1>2. ASSUME NEW s \in Scopes, Activate(s) \/ Abort(s) PROVE IInv'
  BY <1>2, ActivateStep, AbortStep
<1>3. ASSUME NEW k \in Keys, Submit(k) \/ SubmitRefused(k) \/ Wait(k) \/ WaitRead(k) PROVE IInv'
  BY <1>3, SubmitStep, SubmitRefusedStep, WaitStep
<1>4. ASSUME NEW k \in Keys, NEW p \in Payloads, NEW c \in Capacities, NEW ack \in BOOLEAN,
             SubmitCommit(k, p, c, ack)
      PROVE  IInv'
  BY <1>4, SubmitCommitStep
<1>5. ASSUME NEW i \in DOMAIN inputs, Withdraw(i) PROVE IInv'
  BY <1>5, WithdrawStep
<1>6. ASSUME NEW s \in Scopes, Consume(s) PROVE IInv'
  <2>1. CASE ConsumeBegin(s) \/ ClaimCommit(s) \/ ClaimReturn(s) \/ AcquireOwner(s) \/ IdleResume(s)
    BY <2>1, ConsumeBeginStep, ClaimCommitStep, ClaimReturnStep, AcquireOwnerStep, IdleResumeStep
  <2>2. CASE ConcludeGet(s) \/ ConcludeRefused(s)
    BY <2>2, ConcludeGetStep, ConcludeRefusedStep
  <2>3. CASE \E t \in Texts : ConcludeCommit(s, t)
    BY <2>3, ConcludeCommitStep
  <2>4. CASE \E t \in Texts : SettleCommit(s, t)
    BY <2>4, SettleCommitStep
  <2>5. CASE SettleGet(s) \/ SettleForgiven(s) \/ SettleRaises(s) \/ SettlePublish(s) \/ Done(s)
    BY <2>5, SettleGetStep, SettleForgivenStep, SettleRaisesStep, SettlePublishStep, DoneStep
  <2> QED
    BY <1>6, <2>1, <2>2, <2>3, <2>4, <2>5 DEF Consume
<1>7. ASSUME NEW s \in Scopes, Execute(s) PROVE IInv'
  <2>1. CASE \E t \in Texts : Admit(s, t)
    BY <2>1, AdmitStep
  <2>2. CASE \E f \in BOOLEAN : ExecutorEnds(s, f)
    BY <2>2, ExecutorEndsStep
  <2>3. CASE ExecuteCancelled(s)
    BY <2>3, ExecuteCancelledStep
  <2> QED
    BY <1>7, <2>1, <2>2, <2>3 DEF Execute
<1>8. CASE UNCHANGED vars
  <2>1. UNCHANGED journal /\ UNCHANGED processVars
        /\ UNCHANGED <<signal, task, faults, pending, active, calls, waiters, settled, lost>>
    BY <1>8 DEF vars, journal, processVars
  <2>2. ServiceTypes' /\ NotServing' /\ up' = up /\ closing' = closing
    BY <2>1, ServiceTypesNow DEF ServiceTypes, processVars, NotServing, IInv, At
  <2>3. [Store!Next]_journal /\ open' = open /\ inputs' = inputs /\ attempts' = attempts
    BY <2>1, StoreAlone
  <2> QED
    BY <2>1, <2>2, <2>3, TaskAlone, AsideRows
<1> QED
  BY <1>1, <1>2, <1>3, <1>4, <1>5, <1>6, <1>7, <1>8 DEF Next

\* Every step of the service is an operation of the journal or leaves it alone.
LEMMA NextIsStore == IInv /\ [Next]_vars => [Store!Next]_journal
<1> SUFFICES ASSUME IInv, [Next]_vars PROVE [Store!Next]_journal
  OBVIOUS
<1>1. CASE Boot \/ Serve \/ Resume \/ RequestStop \/ CloseService \/ Crash
  BY <1>1, BootStep, CloseServiceStep, CrashStep DEF Serve, Resume, RequestStop
<1>2. ASSUME NEW s \in Scopes, Activate(s) \/ Abort(s) PROVE [Store!Next]_journal
  BY <1>2, ActivateStep DEF Abort
<1>3. ASSUME NEW k \in Keys, Submit(k) \/ SubmitRefused(k) \/ Wait(k) \/ WaitRead(k)
      PROVE  [Store!Next]_journal
  BY <1>3 DEF Submit, SubmitRefused, Wait, WaitRead
<1>4. ASSUME NEW k \in Keys, NEW p \in Payloads, NEW c \in Capacities, NEW ack \in BOOLEAN,
             SubmitCommit(k, p, c, ack)
      PROVE  [Store!Next]_journal
  BY <1>4, SubmitCommitStep
<1>5. ASSUME NEW i \in DOMAIN inputs, Withdraw(i) PROVE [Store!Next]_journal
  BY <1>5, WithdrawStep
<1>6. ASSUME NEW s \in Scopes, Consume(s) PROVE [Store!Next]_journal
  <2>1. CASE ConsumeBegin(s) \/ ClaimReturn(s) \/ AcquireOwner(s) \/ IdleResume(s) \/ ConcludeGet(s)
             \/ ConcludeRefused(s)
    BY <2>1 DEF ConsumeBegin, ClaimReturn, AcquireOwner, IdleResume, ConcludeGet,
       ConcludeRefused
  <2>2. CASE ClaimCommit(s)
    BY <2>2, Operations DEF ClaimCommit
  <2>3. CASE \E t \in Texts : ConcludeCommit(s, t)
    <3>1. PICK t \in Texts : ConcludeCommit(s, t)
      BY <2>3
    <3>2. task[s].pc = "committing" /\ Conclude(s, t)
      BY <3>1 DEF ConcludeCommit, At
    <3> QED
      BY <3>2, ConcludeEffect
  <2>4. CASE \E t \in Texts : SettleCommit(s, t)
    BY <2>4, SettleCommitStep
  <2>5. CASE SettleGet(s) \/ SettleForgiven(s) \/ SettleRaises(s) \/ SettlePublish(s) \/ Done(s)
    BY <2>5 DEF SettleGet, SettleForgiven, SettleRaises, SettlePublish, Done
  <2> QED
    BY <1>6, <2>1, <2>2, <2>3, <2>4, <2>5 DEF Consume
<1>7. ASSUME NEW s \in Scopes, Execute(s) PROVE [Store!Next]_journal
  <2>1. CASE \E t \in Texts : Admit(s, t)
    BY <2>1, AdmitStep
  <2>2. CASE (\E f \in BOOLEAN : ExecutorEnds(s, f)) \/ ExecuteCancelled(s)
    BY <2>2 DEF ExecutorEnds, ExecuteCancelled
  <2> QED
    BY <1>7, <2>1, <2>2 DEF Execute
<1>8. CASE UNCHANGED vars
  BY <1>8 DEF vars, journal
<1> QED
  BY <1>1, <1>2, <1>3, <1>4, <1>5, <1>6, <1>7, <1>8 DEF Next

\* The inductive invariant holds at every step of every execution.
THEOREM ServiceInvariance == Spec => []IInv
BY InitIInv, NextIInv, PTL DEF Spec

\* The service calls the journal only as the journal's specification allows:
\* whatever its consumers, callers, cancellations and crashes interleave to.
THEOREM ServiceRefinesStore == Spec => StoreSpec
<1>1. Init => Store!Init
  BY DEF Init
<1>2. IInv /\ [Next]_vars => [Store!Next]_(Store!vars)
  BY NextIsStore DEF Store!vars, Store!journal, journal
<1> QED
  BY <1>1, <1>2, ServiceInvariance, PTL DEF Spec, StoreSpec, Store!Spec

\* The memory of the service agrees with the journal: an active row is in the
\* hands of its scope's consumer, has_work is honest, a published outcome is the
\* durable one and a fault has its cause.
THEOREM MemoryAlwaysAgrees == Spec => []MemoryAgrees
<1>1. IInv => MemoryAgrees
  <2> SUFFICES ASSUME IInv PROVE MemoryAgrees
    OBVIOUS
  <2>1. HasWorkHonest
    <3> SUFFICES ASSUME open, ~closing, NEW k \in Keys
                 PROVE  /\ Unfinished(k) /\ k[1] \in up => k \in pending \cup lost
                        /\ k \in pending /\ ~Unfinished(k) =>
                              task[k[1]].rec # 0 /\ KeyOf(InputOf(task[k[1]].rec)) = k
      BY DEF HasWorkHonest
    <3>1. ASSUME Unfinished(k), k[1] \in up PROVE k \in pending \cup lost
      <4>1. PICK i \in RowOf(k) : inputs[i].status \notin Terminal
        BY <3>1 DEF Unfinished
      <4>2. i \in DOMAIN inputs /\ KeyOf(i) = k /\ inputs[i].scope = k[1]
        BY <4>1 DEF RowOf, KeyOf
      <4> QED
        BY <3>1, <4>1, <4>2 DEF IInv, WorkSeen
    <3>2. ASSUME k \in pending, ~Unfinished(k)
          PROVE  task[k[1]].rec # 0 /\ KeyOf(InputOf(task[k[1]].rec)) = k
      BY <3>2 DEF IInv, WorkSeen, Phantom
    <3> QED
      BY <3>1, <3>2
  <2>2. PublishedIsDurable
    BY DEF IInv, SettledTrue, PublishedIsDurable
  <2> QED
    BY <2>1, <2>2 DEF IInv, MemoryAgrees
<1> QED
  BY <1>1, ServiceInvariance, PTL

\* The dictionaries of the service have their types.
THEOREM ServiceTyped == Spec => []TypeOK
<1>1. IInv => TypeOK
  BY DEF IInv
<1> QED
  BY <1>1, ServiceInvariance, PTL
=============================================================================
