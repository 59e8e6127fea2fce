--------------------------- MODULE AgentRunProofs ---------------------------
(***************************************************************************)
(* What one agent keeps, for every number of runs, replies and calls, any  *)
(* inputs and any size of the stream: an abort stops the run it was asked  *)
(* for, no effect of a tool is forgotten, the model is asked only about    *)
(* settled calls, and no identified input is lost or admitted twice.       *)
(*                                                                         *)
(* The lists of the model are filtered by a recursive function; what it    *)
(* computes is proved by induction, which NatSets states for sets.         *)
(***************************************************************************)
EXTENDS AgentRun, SequenceTheorems, WellFoundedInduction, TLAPS

-----------------------------------------------------------------------------
(* Filtering a list. *)

(* Induction over the naturals, for a set in place of a predicate. *)
LEMMA NatSets ==
    ASSUME NEW P \in SUBSET Nat, 0 \in P, \A n \in P : n + 1 \in P
    PROVE  P = Nat
<1> DEFINE B == Nat \ P
<1>1. SUFFICES ASSUME B # {} PROVE FALSE
  BY <1>1
<1>2. PICK n \in B : \A k \in B : <<k, n>> \notin OpToRel(<, Nat)
  BY <1>1, NatLessThanWellFounded, WFMin
<1>3. n - 1 \in Nat
  OBVIOUS
<1>4. n - 1 \notin B
  <2>1. <<n - 1, n>> \in Nat \X Nat /\ <<n - 1, n>>[1] < <<n - 1, n>>[2]
    BY <1>3
  <2>2. <<n - 1, n>> \in OpToRel(<, Nat)
    BY <2>1 DEF OpToRel
  <2> QED BY <1>2, <2>2
<1>5. n - 1 \in P /\ (n - 1) + 1 = n
  BY <1>3, <1>4
<1> QED BY <1>5

\* g computes Without(q, S) on the first m members of q.
Filters(g, q, S, m) ==
    g = [n \in 0..m |-> IF n = 0 THEN <<>>
                        ELSE IF q[n] \in S THEN g[n - 1] ELSE Append(g[n - 1], q[n])]
Filterable(q, S, m) == \E g : Filters(g, q, S, m)

(* A function that filters a list is extended by one member. *)
LEMMA FiltersMore ==
    ASSUME NEW q, NEW S, NEW n \in Nat, n # 0, Filterable(q, S, n - 1)
    PROVE  Filterable(q, S, n)
<1>1. PICK g : Filters(g, q, S, n - 1)
  BY DEF Filterable
<1> DEFINE last == IF q[n] \in S THEN g[n - 1] ELSE Append(g[n - 1], q[n])
           h == [k \in 0..n |-> IF k < n THEN g[k] ELSE last]
           F(k) == IF k = 0 THEN <<>> ELSE IF q[k] \in S THEN h[k - 1] ELSE Append(h[k - 1], q[k])
<1>2. ASSUME NEW k \in 0..n, k < n PROVE h[k] = F(k)
  <2>1. h[k] = g[k] /\ k \in 0..(n - 1)
    BY <1>2
  <2>2. g[k] = IF k = 0 THEN <<>> ELSE IF q[k] \in S THEN g[k - 1] ELSE Append(g[k - 1], q[k])
    BY <1>1, <2>1 DEF Filters
  <2>3. k # 0 => h[k - 1] = g[k - 1]
    BY <1>2
  <2> QED BY <2>1, <2>2, <2>3
<1>3. h[n] = F(n)
  <2>1. h[n - 1] = g[n - 1] /\ h[n] = last
    OBVIOUS
  <2> QED BY <2>1
<1>4. \A k \in 0..n : h[k] = F(k)
  BY <1>2, <1>3
<1>5. h = [k \in 0..n |-> F(k)]
  <2> HIDE DEF F, last
  <2> QED BY <1>4
<1>6. Filters(h, q, S, n)
  BY <1>5 DEF Filters
<1> QED
  <2> HIDE DEF h
  <2> QED BY <1>6 DEF Filterable

(* So there is one for every list. *)
LEMMA FiltersExists ==
    ASSUME NEW q, NEW S, NEW m \in Nat
    PROVE  Filterable(q, S, m)
<1> DEFINE P == {n \in Nat : Filterable(q, S, n)}
<1>1. 0 \in P
  <2>1. Filters([k \in 0..0 |-> <<>>], q, S, 0)
    BY DEF Filters
  <2> QED BY <2>1 DEF Filterable
<1>2. ASSUME NEW n \in P PROVE n + 1 \in P
  <2>1. n + 1 \in Nat /\ n + 1 # 0 /\ (n + 1) - 1 = n
    OBVIOUS
  <2>2. Filterable(q, S, n + 1)
    BY <2>1, FiltersMore
  <2> QED BY <2>1, <2>2
<1>3. P \in SUBSET Nat
  OBVIOUS
<1>4. P = Nat
  <2> HIDE DEF P
  <2> QED BY <1>1, <1>2, <1>3, NatSets
<1> QED BY <1>4

(* Without is computed by such a function. *)
LEMMA WithoutIs ==
    ASSUME NEW T, NEW q \in Seq(T), NEW S
    PROVE  \E g : Filters(g, q, S, Len(q)) /\ Without(q, S) = g[Len(q)]
<1> DEFINE P(g) == g = [n \in 0..Len(q) |-> IF n = 0 THEN <<>>
                              ELSE IF q[n] \in S THEN g[n - 1] ELSE Append(g[n - 1], q[n])]
           c == CHOOSE g : P(g)
<1>1. PICK f : P(f)
  <2>0. Len(q) \in Nat
    OBVIOUS
  <2>1. PICK g : Filters(g, q, S, Len(q))
    BY ONLY <2>0, FiltersExists DEF Filterable
  <2>2. P(g)
    BY <2>1 DEF Filters
  <2> HIDE DEF P
  <2> QED BY <2>2
<1>2. P(c)
  <2> HIDE DEF P
  <2> QED BY <1>1
<1>3. Without(q, S) = c[Len(q)]
  BY DEF Without
<1>4. Filters(c, q, S, Len(q))
  BY <1>2 DEF Filters
<1> QED
  <2> HIDE DEF c
  <2> QED BY <1>3, <1>4

(* Its value for one member more. *)
LEMMA FilterStep ==
    ASSUME NEW T, NEW q \in Seq(T), NEW S, NEW g, Filters(g, q, S, Len(q)),
           NEW n \in Nat, n + 1 <= Len(q)
    PROVE  g[n + 1] = IF q[n + 1] \in S THEN g[n] ELSE Append(g[n], q[n + 1])
<1>1. n + 1 \in 0..Len(q) /\ n + 1 # 0 /\ (n + 1) - 1 = n
  OBVIOUS
<1>2. g[n + 1] = IF n + 1 = 0 THEN <<>>
                 ELSE IF q[n + 1] \in S THEN g[(n + 1) - 1] ELSE Append(g[(n + 1) - 1], q[n + 1])
  BY <1>1 DEF Filters
<1> QED BY <1>1, <1>2

\* h is the filtered form of the first n members of q: the same members but those of S,
\* each identified input still once.
Filtered(h, q, S, n) ==
    /\ \A x : (\E k \in 1..Len(h) : h[k] = x) <=> ((\E k \in 1..n : q[k] = x) /\ x \notin S)
    /\ Distinct(q) => Distinct(h)

(* A member of S is passed over. *)
LEMMA FilteredKeep ==
    ASSUME NEW q, NEW S, NEW h, NEW n \in Nat, Filtered(h, q, S, n), q[n + 1] \in S
    PROVE  Filtered(h, q, S, n + 1)
BY DEF Filtered

(* Any other is appended. *)
LEMMA FilteredGrow ==
    ASSUME NEW T, NEW q \in Seq(T), NEW S, NEW h \in Seq(T), NEW n \in Nat, n + 1 <= Len(q),
           Filtered(h, q, S, n), q[n + 1] \notin S
    PROVE  Filtered(Append(h, q[n + 1]), q, S, n + 1)
<1> DEFINE v == q[n + 1]
           w == Append(h, v)
<1>0. v \in T /\ n + 1 \in DOMAIN q
  OBVIOUS
<1>1. w \in Seq(T) /\ Len(w) = Len(h) + 1 /\ w[Len(h) + 1] = v /\ \A k \in 1..Len(h) : w[k] = h[k]
  BY <1>0
<1>2. ASSUME NEW x
      PROVE  (\E k \in 1..Len(w) : w[k] = x) <=> ((\E k \in 1..(n + 1) : q[k] = x) /\ x \notin S)
  <2> HIDE DEF w
  <2>1. (\E k \in 1..Len(w) : w[k] = x) <=> (\E k \in 1..Len(h) : h[k] = x) \/ x = v
    BY <1>1
  <2>2. (\E k \in 1..(n + 1) : q[k] = x) <=> (\E k \in 1..n : q[k] = x) \/ x = v
    OBVIOUS
  <2> QED BY <2>1, <2>2 DEF Filtered
<1>3. ASSUME Distinct(q) PROVE Distinct(w)
  <2>1. ASSUME NEW k \in 1..Len(h), h[k] = v, v \in Identified PROVE FALSE
    <3>1. PICK j \in 1..n : q[j] = v
      BY <2>1 DEF Filtered
    <3>2. j \in DOMAIN q /\ j # n + 1
      BY <3>1
    <3>3. q[j] = q[n + 1] /\ q[j] \in Identified
      BY <3>1, <2>1
    <3> QED BY <3>2, <3>3, <1>3, <1>0 DEF Distinct
  <2>2. Distinct(h)
    BY <1>3 DEF Filtered
  <2> HIDE DEF w, v
  <2>3. DOMAIN w = 1..(Len(h) + 1) /\ DOMAIN h = 1..Len(h)
    BY <1>1
  <2>4. ASSUME NEW j \in DOMAIN w, NEW k \in DOMAIN w, w[j] = w[k], w[j] \in Identified PROVE j = k
    BY <2>1, <2>2, <2>3, <2>4, <1>1 DEF Distinct
  <2> QED BY <2>4 DEF Distinct
<1>4. Filtered(w, q, S, n + 1)
  <2> HIDE DEF w
  <2> QED BY <1>2, <1>3 DEF Filtered
<1> QED BY <1>4

(* What Without returns: a list of the same type with the members that are not in S. *)
LEMMA WithoutFilters ==
    ASSUME NEW T, NEW q \in Seq(T), NEW S
    PROVE  Without(q, S) \in Seq(T) /\ Filtered(Without(q, S), q, S, Len(q))
<1>1. PICK g : Filters(g, q, S, Len(q)) /\ Without(q, S) = g[Len(q)]
  BY WithoutIs
<1> DEFINE P == {n \in Nat : n <= Len(q) => g[n] \in Seq(T) /\ Filtered(g[n], q, S, n)}
<1>2. 0 \in P
  <2>1. g[0] = <<>>
    BY <1>1 DEF Filters
  <2>2. Filtered(<<>>, q, S, 0) /\ <<>> \in Seq(T)
    BY DEF Filtered, Distinct
  <2> QED BY <2>1, <2>2
<1>3. ASSUME NEW n \in P PROVE n + 1 \in P
  <2>0. n \in Nat
    OBVIOUS
  <2>1. SUFFICES ASSUME n + 1 <= Len(q)
                 PROVE  g[n + 1] \in Seq(T) /\ Filtered(g[n + 1], q, S, n + 1)
    OBVIOUS
  <2>2. n <= Len(q) /\ n + 1 \in DOMAIN q
    BY <2>1
  <2>3. g[n] \in Seq(T) /\ Filtered(g[n], q, S, n) /\ q[n + 1] \in T
    BY <2>2
  <2>4. g[n + 1] = IF q[n + 1] \in S THEN g[n] ELSE Append(g[n], q[n + 1])
    BY <1>1, <2>1, FilterStep
  <2> HIDE DEF P
  <2>5. CASE q[n + 1] \in S
    BY <2>0, <2>3, <2>4, <2>5, FilteredKeep
  <2>6. CASE q[n + 1] \notin S
    <3>1. Filtered(Append(g[n], q[n + 1]), q, S, n + 1)
      BY <2>0, <2>1, <2>3, <2>6, FilteredGrow
    <3>2. Append(g[n], q[n + 1]) \in Seq(T)
      BY <2>3
    <3> QED BY <3>1, <3>2, <2>4, <2>6
  <2> QED BY <2>5, <2>6
<1>4. P \in SUBSET Nat
  OBVIOUS
<1>5. P = Nat
  <2> HIDE DEF P
  <2> QED BY <1>2, <1>3, <1>4, NatSets
<1> QED BY <1>1, <1>5

-----------------------------------------------------------------------------
(* What the agent knows, when the history grows. *)

(* Every message the model builds is one. *)
LEMMA MessageTypes ==
    /\ \A m \in Texts : User(m) \in Message
    /\ \A r, n \in Nat : Reply(r, n) \in Message
    /\ \A r, n \in Nat, sure \in BOOLEAN : Result(<<r, n>>, sure) \in Message
    /\ Failure \in Message
BY DEF User, Reply, Result, Failure, Message

(* A message more: its input is admitted, its calls are requested, its call answered. *)
LEMMA HistoryGrows ==
    ASSUME history \in Seq(Message), NEW msg \in Message, history' = Append(history, msg)
    PROVE  /\ history' \in Seq(Message)
           /\ Admitted' = Admitted \cup {msg.input}
           /\ Results' = IF msg.kind = "result" THEN Results \cup {<<msg.reply, msg.index>>} ELSE Results
           /\ Requested' = IF msg.kind = "reply" THEN Requested \cup ({msg.reply} \X (1..msg.index)) ELSE Requested
           /\ \A k \in DOMAIN history : k \in DOMAIN history' /\ history'[k] = history[k]
           /\ \E k \in DOMAIN history' : history'[k] = msg
           /\ \A k \in DOMAIN history' : k \in DOMAIN history \/ history'[k] = msg
<1>1. /\ history' \in Seq(Message) /\ DOMAIN history' = DOMAIN history \cup {Len(history) + 1}
      /\ history'[Len(history) + 1] = msg /\ \A k \in DOMAIN history : history'[k] = history[k]
  OBVIOUS
<1>2. Admitted' = Admitted \cup {msg.input}
  BY <1>1 DEF Admitted
<1>3. Results' = IF msg.kind = "result" THEN Results \cup {<<msg.reply, msg.index>>} ELSE Results
  BY <1>1 DEF Results
<1>4. ASSUME NEW c
      PROVE  c \in Requested' <=> c \in Requested \/ (msg.kind = "reply" /\ c \in {msg.reply} \X (1..msg.index))
  BY <1>1 DEF Requested
<1> QED BY <1>1, <1>2, <1>3, <1>4

(* The same history says the same. *)
LEMMA SameHistory ==
    ASSUME history' = history
    PROVE  Admitted' = Admitted /\ Results' = Results /\ Requested' = Requested
BY DEF Admitted, Results, Requested

(* The shapes of the messages. *)
LEMMA MessageFields ==
    /\ \A m : User(m).kind = "user" /\ User(m).input = m
    /\ \A r, n : /\ Reply(r, n).kind = "reply" /\ Reply(r, n).input = NoInput
                 /\ Reply(r, n).reply = r /\ Reply(r, n).index = n
    /\ \A r, n, sure : /\ Result(<<r, n>>, sure).kind = "result" /\ Result(<<r, n>>, sure).input = NoInput
                       /\ Result(<<r, n>>, sure).reply = r /\ Result(<<r, n>>, sure).index = n
    /\ Failure.kind = "error" /\ Failure.input = NoInput
BY DEF User, Reply, Result, Failure

(* The reading of the invariant that the prover needs most. *)
LEMMA RunFields ==
    ASSUME run \in Run
    PROVE  /\ run.no \in Nat /\ run.replies \in Nat /\ run.calls \in 0..MaxCalls /\ run.i \in Nat
           /\ run.pc \in Asking \cup {"reply"} \cup Calling \cup {"turn", "turned"} \cup Ending
           /\ run.mode \in {"sequential", "parallel"} /\ run.stage \in {"initial", "poll", "follow_up"}
           /\ run.batch \in Seq(Texts) /\ run.todo \in Seq(Texts) /\ run.ready \in Seq(Texts)
           /\ run.gathering \in BOOLEAN /\ run.hit \in BOOLEAN
           /\ run.error \in {"none", "failed", "cancelled", "stopped"}
BY DEF Run

(* A list that starts with u, appended to h, is the rest appended to h and u. *)
LEMMA FirstAppended ==
    ASSUME NEW T, NEW h \in Seq(T), NEW a \in Seq(T), NEW b \in Seq(T), NEW u \in T,
           Len(b) = Len(a) - 1, a[1] = u, \A k \in 1..(Len(a) - 1) : b[k] = a[k + 1]
    PROVE  h \o a = Append(h, u) \o b
<1> DEFINE c == <<u>> \o b
<1>1. a = c
  <2>1. c \in Seq(T) /\ Len(c) = Len(b) + 1 /\ c[1] = u /\ \A k \in 2..(Len(b) + 1) : c[k] = b[k - 1]
    OBVIOUS
  <2> HIDE DEF c
  <2>2. ASSUME NEW k \in 2..Len(a) PROVE a[k] = b[k - 1]
    <3>1. k - 1 \in 1..(Len(a) - 1) /\ (k - 1) + 1 = k
      OBVIOUS
    <3> QED BY <3>1
  <2>3. Len(c) = Len(a) /\ \A k \in 1..Len(a) : a[k] = c[k]
    BY <2>1, <2>2
  <2> QED BY <2>1, <2>3
<1>2. <<u>> \in Seq(T) /\ Append(h, u) = h \o <<u>>
  BY AppendIsConcat
<1>3. (h \o <<u>>) \o b = h \o (<<u>> \o b)
  BY ONLY <1>2, h \in Seq(T), b \in Seq(T), ConcatAssociative
<1> QED BY <1>1, <1>2, <1>3

(* What was said at once is said one by one. *)
LEMMA SpokenHead ==
    ASSUME NEW h \in Seq(Message), NEW ms \in Seq(Texts), ms # <<>>
    PROVE  /\ h \o Spoken(ms) = Append(h, User(Head(ms))) \o Spoken(Tail(ms))
           /\ Spoken(ms) \in Seq(Message)
<1>1. \A m \in Texts : User(m) \in Message
  BY MessageTypes
<1>2. /\ Spoken(ms) \in Seq(Message) /\ Spoken(Tail(ms)) \in Seq(Message)
      /\ Len(Spoken(ms)) = Len(ms) /\ Len(Spoken(Tail(ms))) = Len(ms) - 1
      /\ \A k \in 1..Len(ms) : Spoken(ms)[k] = User(ms[k])
      /\ \A k \in 1..(Len(ms) - 1) : Spoken(Tail(ms))[k] = User(ms[k + 1])
  BY <1>1 DEF Spoken
<1>3. User(Head(ms)) = User(ms[1]) /\ User(Head(ms)) \in Message /\ Len(ms) \in Nat /\ Len(ms) >= 1
  BY <1>1
<1> DEFINE a == Spoken(ms)
           b == Spoken(Tail(ms))
<1>4. /\ a \in Seq(Message) /\ b \in Seq(Message) /\ Len(b) = Len(a) - 1 /\ a[1] = User(Head(ms))
      /\ \A k \in 1..(Len(a) - 1) : b[k] = a[k + 1]
  <2>1. ASSUME NEW k \in 1..(Len(ms) - 1) PROVE k + 1 \in 1..Len(ms)
    BY <1>3
  <2>2. \A k \in 1..(Len(ms) - 1) : b[k] = a[k + 1]
    BY <1>2, <2>1
  <2> QED BY <1>2, <1>3, <2>2
<1> HIDE DEF a, b
<1>5. h \o a = Append(h, User(Head(ms))) \o b
  BY ONLY <1>3, <1>4, h \in Seq(Message), FirstAppended
<1> QED BY <1>4, <1>5 DEF a, b

(* Nothing said leaves the history as it is. *)
LEMMA SpokenNothing ==
    ASSUME NEW h \in Seq(Message)
    PROVE  h \o Spoken(<<>>) = h
<1>1. Spoken(<<>>) = <<>>
  BY DEF Spoken
<1> QED BY <1>1

(* The members of a list, and of its parts. *)
LEMMA ListParts ==
    ASSUME NEW T, NEW q \in Seq(T), Distinct(q)
    PROVE  /\ Distinct(<<>>) /\ Range(<<>>) = {}
           /\ q # <<>> => /\ Head(q) \in T /\ Tail(q) \in Seq(T) /\ Distinct(Tail(q))
                          /\ Range(q) = {Head(q)} \cup Range(Tail(q))
                          /\ Head(q) \in Identified => Head(q) \notin Range(Tail(q))
<1>1. Distinct(<<>>) /\ Range(<<>>) = {}
  BY DEF Distinct, Range
<1>2. ASSUME q # <<>>
      PROVE  /\ Head(q) \in T /\ Tail(q) \in Seq(T) /\ Distinct(Tail(q))
             /\ Range(q) = {Head(q)} \cup Range(Tail(q))
             /\ Head(q) \in Identified => Head(q) \notin Range(Tail(q))
  <2>1. /\ Head(q) = q[1] /\ Head(q) \in T /\ Tail(q) \in Seq(T) /\ Len(Tail(q)) = Len(q) - 1
        /\ \A k \in 1..(Len(q) - 1) : Tail(q)[k] = q[k + 1]
        /\ Len(q) \in Nat /\ Len(q) >= 1 /\ DOMAIN q = 1..Len(q) /\ DOMAIN Tail(q) = 1..(Len(q) - 1)
    BY <1>2
  <2>2. Range(q) = {Head(q)} \cup Range(Tail(q))
    <3>1. ASSUME NEW x \in Range(q) PROVE x = Head(q) \/ x \in Range(Tail(q))
      <4>1. PICK k \in DOMAIN q : x = q[k]
        BY DEF Range
      <4>2. k # 1 => k - 1 \in DOMAIN Tail(q) /\ Tail(q)[k - 1] = q[k]
        BY <2>1
      <4> QED BY <4>1, <4>2, <2>1 DEF Range
    <3>2. Range(Tail(q)) \subseteq Range(q)
      BY <2>1 DEF Range
    <3> QED BY <3>1, <3>2, <2>1 DEF Range
  <2>3. Distinct(Tail(q))
    BY <2>1 DEF Distinct
  <2>4. Head(q) \in Identified => Head(q) \notin Range(Tail(q))
    BY <2>1 DEF Distinct, Range
  <2> QED BY <2>1, <2>2, <2>3, <2>4
<1> QED BY <1>1, <1>2

(* A member more. *)
LEMMA ListGrows ==
    ASSUME NEW T, NEW q \in Seq(T), Distinct(q), NEW x \in T, x \in Identified => x \notin Range(q)
    PROVE  Append(q, x) \in Seq(T) /\ Distinct(Append(q, x)) /\ Range(Append(q, x)) = Range(q) \cup {x}
<1> DEFINE w == Append(q, x)
<1>1. /\ w \in Seq(T) /\ DOMAIN w = 1..(Len(q) + 1) /\ w[Len(q) + 1] = x /\ \A k \in 1..Len(q) : w[k] = q[k]
      /\ DOMAIN q = 1..Len(q) /\ Len(q) \in Nat
  OBVIOUS
<1> HIDE DEF w
<1>2. Range(w) = Range(q) \cup {x}
  <2>1. ASSUME NEW y \in Range(w) PROVE y \in Range(q) \cup {x}
    BY <1>1 DEF Range
  <2>2. ASSUME NEW y \in Range(q) PROVE y \in Range(w)
    <3>1. PICK k \in DOMAIN q : y = q[k]
      BY DEF Range
    <3>2. k \in DOMAIN w /\ y = w[k]
      BY <3>1, <1>1
    <3> QED BY <3>2 DEF Range
  <2>3. x \in Range(w)
    BY <1>1 DEF Range
  <2> QED BY <2>1, <2>2, <2>3
<1>3. ASSUME NEW j \in DOMAIN w, NEW k \in DOMAIN w, w[j] = w[k], w[j] \in Identified PROVE j = k
  <2>1. CASE j \in 1..Len(q) /\ k \in 1..Len(q)
    BY <1>1, <1>3, <2>1 DEF Distinct
  <2>2. CASE ~(j \in 1..Len(q) /\ k \in 1..Len(q))
    BY <1>1, <1>3, <2>2 DEF Range
  <2> QED BY <2>1, <2>2
<1>4. Distinct(w)
  BY <1>3 DEF Distinct
<1> QED BY <1>1, <1>2, <1>4 DEF w

(* What is taken from the front of a queue, and what stays. *)
LEMMA ListSplits ==
    ASSUME NEW T, NEW q \in Seq(T), Distinct(q), NEW n \in 1..Len(q)
    PROVE  LET ms == SubSeq(q, 1, n)
               rest == SubSeq(q, Len(ms) + 1, Len(q))
           IN  /\ ms \in Seq(T) /\ rest \in Seq(T) /\ Distinct(ms) /\ Distinct(rest) /\ ms # <<>>
               /\ Range(q) = Range(ms) \cup Range(rest)
               /\ Range(ms) \cap Range(rest) \cap Identified = {}
<1> DEFINE ms == SubSeq(q, 1, n)
           rest == SubSeq(q, Len(ms) + 1, Len(q))
<1>0. Len(q) \in Nat /\ n \in Nat /\ n <= Len(q) /\ DOMAIN q = 1..Len(q)
  OBVIOUS
<1>1. ms \in Seq(T) /\ Len(ms) = n /\ DOMAIN ms = 1..n /\ \A k \in 1..n : ms[k] = q[k]
  OBVIOUS
<1>2. rest = SubSeq(q, n + 1, Len(q))
  BY <1>1
<1>3. rest \in Seq(T) /\ DOMAIN rest = 1..(Len(q) - n) /\ \A k \in 1..(Len(q) - n) : rest[k] = q[n + k]
  BY <1>2
<1> HIDE DEF ms, rest
<1>4. Distinct(ms)
  BY <1>0, <1>1 DEF Distinct
<1>5. Distinct(rest)
  <2>1. ASSUME NEW j \in DOMAIN rest, NEW k \in DOMAIN rest, rest[j] = rest[k], rest[j] \in Identified PROVE j = k
    <3>1. n + j \in DOMAIN q /\ n + k \in DOMAIN q /\ q[n + j] = q[n + k] /\ q[n + j] \in Identified
      BY <1>0, <1>3, <2>1
    <3>2. n + j = n + k
      BY <3>1 DEF Distinct
    <3> QED BY <3>2, <1>0, <1>3
  <2> QED BY <2>1 DEF Distinct
<1>6. Range(q) = Range(ms) \cup Range(rest)
  <2>1. ASSUME NEW x \in Range(q) PROVE x \in Range(ms) \cup Range(rest)
    <3>1. PICK k \in DOMAIN q : x = q[k]
      BY DEF Range
    <3>2. CASE k <= n
      <4>1. k \in DOMAIN ms /\ x = ms[k]
        BY <3>1, <3>2, <1>0, <1>1
      <4> QED BY <4>1 DEF Range
    <3>3. CASE k > n
      <4>1. k - n \in DOMAIN rest /\ x = rest[k - n]
        BY <3>1, <3>3, <1>0, <1>3
      <4> QED BY <4>1 DEF Range
    <3> QED BY <3>2, <3>3, <1>0
  <2>2. ASSUME NEW x \in Range(ms) PROVE x \in Range(q)
    BY <1>0, <1>1 DEF Range
  <2>3. ASSUME NEW x \in Range(rest) PROVE x \in Range(q)
    <3>1. PICK k \in DOMAIN rest : x = rest[k]
      BY DEF Range
    <3>2. n + k \in DOMAIN q /\ x = q[n + k]
      BY <3>1, <1>0, <1>3
    <3> QED BY <3>2 DEF Range
  <2> QED BY <2>1, <2>2, <2>3
<1>7. ASSUME NEW x \in Range(ms), x \in Range(rest), x \in Identified PROVE FALSE
  <2>1. PICK j \in DOMAIN ms : x = ms[j]
    BY DEF Range
  <2>2. PICK k \in DOMAIN rest : x = rest[k]
    BY <1>7 DEF Range
  <2>3. q[j] = x /\ q[n + k] = x
    BY <2>1, <2>2, <1>1, <1>3
  <2>4. j \in 1..n /\ k \in 1..(Len(q) - n)
    BY <1>1, <1>3
  <2>5. j \in DOMAIN q /\ n + k \in DOMAIN q /\ j # n + k
    BY <2>4, <1>0
  <2> QED BY <2>3, <2>5, <1>7 DEF Distinct
<1>8. ms # <<>>
  BY <1>1
<1> QED BY <1>1, <1>3, <1>4, <1>5, <1>6, <1>7, <1>8 DEF ms, rest

(* Filtering, in terms of members. *)
LEMMA ListFiltered ==
    ASSUME NEW T, NEW q \in Seq(T), NEW S
    PROVE  /\ Without(q, S) \in Seq(T) /\ Range(Without(q, S)) = Range(q) \ S
           /\ Distinct(q) => Distinct(Without(q, S))
<1> DEFINE w == Without(q, S)
<1>1. w \in Seq(T) /\ Filtered(w, q, S, Len(q))
  BY WithoutFilters
<1> HIDE DEF w
<1>2. DOMAIN w = 1..Len(w) /\ DOMAIN q = 1..Len(q)
  BY <1>1
<1>3. ASSUME NEW x PROVE x \in Range(w) <=> x \in Range(q) \ S
  BY <1>1, <1>2 DEF Range, Filtered
<1>4. Distinct(q) => Distinct(w)
  BY <1>1 DEF Filtered
<1> QED BY <1>1, <1>3, <1>4 DEF w

-----------------------------------------------------------------------------
(* Steps that leave a part of the state alone. *)

\* The tools, what is known of the calls and the loop's copy are as before.
CallsStay == UNCHANGED <<history, unconfirmed, tool, entered>>

\* The producer is where it was, but for a cancellation.
SameRun ==
    /\ run' \in Run
    /\ run'.pc = run.pc /\ run'.mode = run.mode /\ run'.stage = run.stage
    /\ run'.todo = run.todo /\ run'.ready = run.ready /\ run'.calls = run.calls /\ run'.i = run.i
    /\ run'.gathering = run.gathering /\ run'.error = run.error /\ run'.replies = run.replies

(* What others do while the producer is suspended says nothing about its calls. *)
LEMMA CallsBystander ==
    ASSUME IInv, CallsStay, SameRun, context' = context, cancel => cancel', cancel' \in BOOLEAN
    PROVE  BatchShape' /\ CallsHeld' /\ CallsAnswered' /\ EffectsHeld' /\ CopyAgrees'
<1>1. Results' = Results /\ Requested' = Requested
  BY SameHistory DEF CallsStay
<1>2. BatchShape'
  BY DEF IInv, BatchShape, CallsStay, SameRun
<1>3. CallsHeld'
  BY DEF IInv, CallsHeld, CallsStay, SameRun, Call, Started
<1>4. Open' = Open /\ OpenCalls' = OpenCalls
  BY DEF SameRun, Open, OpenCalls
<1>5. CallsAnswered'
  BY <1>1, <1>4 DEF IInv, CallsAnswered, CallsStay, SameRun, Call
<1>6. EffectsHeld'
  BY <1>1 DEF IInv, EffectsHeld, CallsStay, Unfinished
<1>7. CopyAgrees'
  BY DEF IInv, CopyAgrees, CallsStay, SameRun
<1> QED BY <1>2, <1>3, <1>5, <1>6, <1>7

(* While the producer prepares what it asks the model, no call is open: nothing changes. *)
LEMMA CallsAsking ==
    ASSUME IInv, CallsStay, run' \in Run, run.pc \in Asking, run'.pc \in Asking \cup {"reject", "end", "dead"},
           run'.replies = run.replies, run'.gathering = run.gathering, cancel' = cancel
    PROVE  BatchShape' /\ CallsHeld' /\ CallsAnswered' /\ EffectsHeld'
<1>0. run'.pc \notin Calling \cup {"off", "reply", "turn", "turned", "reap"} /\ run.pc # "reap" /\ ~run.gathering
  <2>1. run.gathering \in BOOLEAN
    BY RunFields DEF IInv, Typed
  <2> QED BY <2>1 DEF IInv, BatchShape, Asking, Calling
<1>1. Results' = Results /\ Requested' = Requested
  BY SameHistory DEF CallsStay
<1>2. BatchShape'
  BY <1>0 DEF BatchShape, Calling
<1>3. CallsHeld'
  BY <1>0 DEF IInv, CallsHeld, CallsStay, Call
<1>5. CallsAnswered'
  BY <1>0, <1>1 DEF IInv, CallsAnswered, CallsStay
<1>6. EffectsHeld'
  BY <1>1 DEF IInv, EffectsHeld, CallsStay, Unfinished
<1> QED BY <1>2, <1>3, <1>5, <1>6

(* Inputs are accounted for as before when the run keeps or drops what it has taken. *)
LEMMA InputsBystander ==
    ASSUME IInv, UNCHANGED <<history, queue, ident, held>>,
           run.pc # "reject" \/ run'.pc = "reject" \/ (Loaded' = <<>> /\ run'.todo = <<>>),
           run'.pc # "reject" => /\ Loaded' = Loaded \/ Loaded' = <<>>
                                 /\ run'.todo = run.todo \/ run'.todo = <<>>
    PROVE  InputsHeld'
<1>1. Admitted' = Admitted
  BY SameHistory
<1>2. Distinct(<<>>) /\ Range(<<>>) = {}
  BY DEF Distinct, Range
<1>3. ASSUME run'.pc # "reject"
      PROVE  /\ run.pc # "reject" => Distinct(Loaded') /\ Distinct(run'.todo)
             /\ Range(Loaded') \subseteq Range(Loaded) /\ Range(run'.todo) \subseteq Range(run.todo)
  BY <1>2, <1>3 DEF IInv, InputsHeld, QueuesDistinct, Accounts, OnlyUsersInput, Taken
<1>4. run'.pc # "reject" =>
        /\ Distinct(Loaded)' /\ Distinct(run.todo)'
        /\ (Range(Loaded) \cap Range(run.todo) \cap Identified)' = {}
        /\ \A m \in InFlight' \cap Identified : held[m] # "host" /\ (held[m] = "agent" => ident[m] = "selected")
  <2>1. CASE run.pc # "reject"
    BY <1>3, <2>1 DEF IInv, InputsHeld, QueuesDistinct, Accounts, OnlyUsersInput, Taken, InFlight, Distinct
  <2>2. CASE Loaded' = <<>> /\ run'.todo = <<>>
    BY <1>2, <2>2 DEF InFlight, Distinct
  <2> QED BY <2>1, <2>2
<1> QED BY <1>1, <1>4 DEF IInv, InputsHeld, QueuesDistinct, Accounts, OnlyUsersInput, Taken, Distinct

(* So they are when the history grows by a message that is not an input. *)
LEMMA InputsReplied ==
    ASSUME IInv, NEW msg \in Message, history' = Append(history, msg), msg.input = NoInput,
           UNCHANGED <<queue, ident, held>>,
           run.pc # "reject" \/ run'.pc = "reject" \/ (Loaded' = <<>> /\ run'.todo = <<>>),
           run'.pc # "reject" => /\ Loaded' = Loaded \/ Loaded' = <<>>
                                 /\ run'.todo = run.todo \/ run'.todo = <<>>
    PROVE  InputsHeld'
<1>0. history \in Seq(Message)
  BY DEF IInv, Typed
<1>1. Admitted' = Admitted \cup {NoInput} /\ NoInput \notin Identified
  BY <1>0, HistoryGrows, ConstantsAssumption
<1>2. Distinct(<<>>) /\ Range(<<>>) = {}
  BY DEF Distinct, Range
<1>3. ASSUME run'.pc # "reject"
      PROVE  /\ run.pc # "reject" => Distinct(Loaded') /\ Distinct(run'.todo)
             /\ Range(Loaded') \subseteq Range(Loaded) /\ Range(run'.todo) \subseteq Range(run.todo)
  BY <1>2, <1>3 DEF IInv, InputsHeld, QueuesDistinct, Accounts, OnlyUsersInput, Taken
<1>4. run'.pc # "reject" =>
        /\ Distinct(Loaded)' /\ Distinct(run.todo)'
        /\ (Range(Loaded) \cap Range(run.todo) \cap Identified)' = {}
        /\ \A m \in InFlight' \cap Identified : held[m] # "host" /\ (held[m] = "agent" => ident[m] = "selected")
  <2>1. CASE run.pc # "reject"
    BY <1>3, <2>1 DEF IInv, InputsHeld, QueuesDistinct, Accounts, OnlyUsersInput, Taken, InFlight, Distinct
  <2>2. CASE Loaded' = <<>> /\ run'.todo = <<>>
    BY <1>2, <2>2 DEF InFlight, Distinct
  <2> QED BY <2>1, <2>2
<1>5. \A k \in DOMAIN history' : history'[k].kind # "user" => history'[k].input = NoInput
  BY <1>0, HistoryGrows DEF IInv, InputsHeld, QueuesDistinct, Accounts, OnlyUsersInput, Taken
<1> QED BY <1>1, <1>4, <1>5 DEF IInv, InputsHeld, QueuesDistinct, Accounts, OnlyUsersInput, Taken, Distinct

-----------------------------------------------------------------------------
(* Ways out of the loop. *)

(* The run a finished one leaves. *)
LEMMA IdleRun ==
    ASSUME run \in Run
    PROVE  LET idle == [NoRun EXCEPT !.no = run.no, !.replies = run.replies]
           IN  /\ idle \in Run /\ idle.pc = "off" /\ idle.no = run.no /\ idle.replies = run.replies
               /\ idle.ready = <<>> /\ idle.todo = <<>> /\ ~idle.gathering /\ ~idle.hit
<1> DEFINE idle == [NoRun EXCEPT !.no = run.no, !.replies = run.replies]
<1>1. run.no \in Nat /\ run.replies \in Nat /\ 0 \in 0..MaxCalls /\ <<>> \in Seq(Texts)
  BY ConstantsAssumption DEF Run
<1>2. NoRun \in Run
  <2>1. "off" \in Ending
    BY DEF Ending
  <2> QED BY ONLY <1>1, <2>1 DEF NoRun, Run
<1>3. idle \in Run /\ idle.no = run.no /\ idle.replies = run.replies
  BY ONLY <1>1, <1>2 DEF Run
<1>4. /\ idle.pc = NoRun.pc /\ idle.ready = NoRun.ready /\ idle.todo = NoRun.todo
      /\ idle.gathering = NoRun.gathering /\ idle.hit = NoRun.hit
  BY <1>2 DEF Run
<1> QED BY <1>3, <1>4 DEF NoRun

(* The end of a run keeps what is known of the calls and the inputs. *)
LEMMA FinishKeeps ==
    ASSUME IInv, NEW error, Finish(error)
    PROVE  IInv'
<1>0. run \in Run /\ history \in Seq(Message)
  BY DEF IInv, Typed
<1>1. /\ run' \in Run /\ run'.pc = "off" /\ run'.no = run.no /\ run'.replies = run.replies
      /\ run'.ready = <<>> /\ run'.todo = <<>> /\ ~run'.gathering /\ ~run'.hit
  BY <1>0, IdleRun DEF Finish
<1>2. /\ history' \in Seq(Message) /\ Results' = Results /\ Requested' = Requested
      /\ \A k \in DOMAIN history : k \in DOMAIN history' /\ history'[k] = history[k]
      /\ InputsHeld'
  <2>0. Loaded' = <<>>
    BY <1>1 DEF Loaded
  <2>1. CASE history' = history
    BY <2>1, <2>0, <1>0, <1>1, SameHistory, InputsBystander DEF Finish, inputs
  <2>2. CASE history' = Append(history, Failure)
    <3>1. Failure \in Message /\ Failure.kind = "error" /\ Failure.input = NoInput
      BY MessageTypes, MessageFields
    <3>2. /\ history' \in Seq(Message) /\ Results' = Results /\ Requested' = Requested
          /\ \A k \in DOMAIN history : k \in DOMAIN history' /\ history'[k] = history[k]
      BY <2>2, <3>1, <1>0, HistoryGrows
    <3>3. InputsHeld'
      BY <2>2, <3>1, <2>0, <1>1, InputsReplied DEF Finish, inputs
    <3> QED BY <3>2, <3>3
  <2> QED BY <2>1, <2>2 DEF Finish
<1>3. UNCHANGED <<queue, ident, held, hook, unconfirmed, entered, cancel, posted, aborted>> /\ tool' = NoTools
  BY DEF Finish, inputs, stops
<1>4. Typed'
  <2>1. context' \in Seq(Message) /\ sending' \in BOOLEAN
    <3>1. context' = <<>> /\ sending' = FALSE
      BY DEF Finish
    <3>2. <<>> \in Seq(Message) /\ FALSE \in BOOLEAN
      OBVIOUS
    <3> QED BY ONLY <3>1, <3>2
  <2>2. tool' \in [1..MaxCalls -> {"none", "ready", "denied", "running", "done", "interrupted"}]
    BY <1>3 DEF NoTools
  <2> QED BY <1>1, <1>2, <1>3, <2>1, <2>2 DEF IInv, Typed
<1>5. StopsAsked'
  BY <1>1, <1>3 DEF IInv, StopsAsked
<1>6. BatchShape'
  BY <1>1, <1>3 DEF BatchShape, Calling
<1>7. CallsHeld'
  BY <1>1, <1>3 DEF CallsHeld, Calling, NoTools
<1>8. CallsAnswered'
  BY <1>1, <1>2 DEF IInv, CallsAnswered, Calling, Asking
<1>9. EffectsHeld'
  BY <1>2, <1>3 DEF IInv, EffectsHeld, Unfinished
<1>10. CopyAgrees'
  BY <1>1 DEF CopyAgrees, Calling, Asking
<1> QED BY <1>2, <1>4, <1>5, <1>6, <1>7, <1>8, <1>9, <1>10 DEF IInv

(* An exception keeps them too: the tools of a batch are settled first. *)
LEMMA UnwindKeeps ==
    ASSUME IInv, NEW error \in {"none", "failed", "cancelled", "stopped"}, Unwind(error)
    PROVE  IInv'
<1>1. CASE ~run.gathering
  BY <1>1, FinishKeeps DEF Unwind
<1>2. CASE run.gathering
  <2>0. run \in Run
    BY DEF IInv, Typed
  <2>1. /\ run' = [run EXCEPT !.pc = "reap", !.error = error, !.hit = FALSE] /\ sending' = FALSE
        /\ UNCHANGED <<history, context, queue, ident, held, hook, unconfirmed, tool, entered>>
        /\ UNCHANGED <<cancel, posted, aborted>>
    BY <1>2 DEF Unwind, log, inputs, tools, stops
  <2>2. /\ run' \in Run /\ run'.pc = "reap" /\ run'.no = run.no /\ run'.replies = run.replies /\ ~run'.hit
        /\ run'.gathering = run.gathering /\ run'.ready = run.ready /\ run'.todo = run.todo
    BY <2>0, <2>1 DEF Run, Ending
  <2>3. Results' = Results /\ Requested' = Requested
    BY <2>1, SameHistory
  <2>4. InputsHeld'
    <3>1. run.pc # "reject" /\ run.pc # "settle"
      BY <1>2 DEF IInv, BatchShape
    <3>2. Loaded' = Loaded
      BY <2>2, <3>1 DEF Loaded
    <3> QED BY <2>1, <2>2, <3>1, <3>2, InputsBystander
  <2>5. Typed'
    BY <2>1, <2>2 DEF IInv, Typed
  <2>6. StopsAsked'
    BY <2>1, <2>2 DEF IInv, StopsAsked
  <2>7. BatchShape'
    BY <2>1, <2>2 DEF BatchShape, Calling
  <2>8. CallsHeld'
    BY <2>1, <2>2 DEF IInv, CallsHeld, Calling, Call
  <2>9. CallsAnswered'
    BY <2>2, <2>3 DEF IInv, CallsAnswered, Calling, Asking
  <2>10. EffectsHeld'
    BY <2>1, <2>3 DEF IInv, EffectsHeld, Unfinished
  <2>11. CopyAgrees'
    BY <2>2 DEF CopyAgrees, Calling, Asking
  <2> QED BY <2>4, <2>5, <2>6, <2>7, <2>8, <2>9, <2>10, <2>11 DEF IInv
<1>3. run.gathering \in BOOLEAN
  BY RunFields DEF IInv, Typed
<1> QED BY <1>1, <1>2, <1>3

(* A refused preparation leaves the loop by announcing every refusal. *)
LEMMA RejectKeeps ==
    ASSUME IInv, NEW error \in {"none", "failed", "cancelled", "stopped"}, Reject(error), run.pc \in Asking
    PROVE  IInv'
<1>0. run \in Run
  BY DEF IInv, Typed
<1>1. /\ run' = [run EXCEPT !.pc = "reject", !.refused = TRUE, !.error = error, !.todo = run.batch, !.hit = FALSE]
      /\ UNCHANGED <<history, context, queue, ident, held, hook, unconfirmed, tool, entered>>
      /\ UNCHANGED <<cancel, posted, aborted>> /\ sending' = FALSE
  BY DEF Reject, log, inputs, tools, stops
<1>2. /\ run' \in Run /\ run'.pc = "reject" /\ run'.no = run.no /\ run'.replies = run.replies
      /\ run'.gathering = run.gathering /\ ~run'.hit
  BY <1>0, <1>1 DEF Run, Ending
<1>3. InputsHeld'
  BY <1>1, <1>2, InputsBystander
<1>4. Typed'
  BY <1>1, <1>2 DEF IInv, Typed
<1>5. StopsAsked'
  BY <1>1, <1>2 DEF IInv, StopsAsked
<1>6. BatchShape' /\ CallsHeld' /\ CallsAnswered' /\ EffectsHeld'
  BY <1>1, <1>2, CallsAsking DEF CallsStay
<1>7. CopyAgrees'
  BY <1>2 DEF CopyAgrees, Asking, Calling
<1> QED BY <1>3, <1>4, <1>5, <1>6, <1>7 DEF IInv

-----------------------------------------------------------------------------
(* What the others do while the producer is suspended. *)

(* Steps that touch neither the messages nor the tools nor the producer. *)
LEMMA QuietKeeps ==
    ASSUME IInv, CallsStay, run' = run, UNCHANGED <<context, queue, ident, held, hook>>,
           sending' \in BOOLEAN, cancel' \in BOOLEAN, cancel => cancel',
           posted' \subseteq aborted', cancel' => run.no \in aborted'
    PROVE  IInv'
<1>0. SameRun
  BY DEF IInv, Typed, SameRun
<1>1. BatchShape' /\ CallsHeld' /\ CallsAnswered' /\ EffectsHeld' /\ CopyAgrees'
  BY <1>0, CallsBystander
<1>2. InputsHeld'
  <2>1. Loaded' = Loaded
    BY DEF Loaded
  <2>2. CASE run.pc # "reject"
    BY <2>1, <2>2, InputsBystander DEF CallsStay
  <2>3. CASE run.pc = "reject"
    BY <2>1, <2>3, InputsBystander DEF CallsStay
  <2> QED BY <2>2, <2>3
<1>3. Typed'
  BY DEF IInv, Typed, CallsStay
<1>4. StopsAsked'
  BY DEF IInv, StopsAsked
<1> QED BY <1>1, <1>2, <1>3, <1>4 DEF IInv

(* The stream. *)
LEMMA StreamKeeps ==
    ASSUME IInv, Sent \/ Read
    PROVE  IInv'
<1>1. sending' \in BOOLEAN /\ CallsStay /\ UNCHANGED <<run, context, queue, ident, held, hook, cancel, posted, aborted>>
  <2>1. CallsStay /\ UNCHANGED <<run, context, queue, ident, held, hook, cancel, posted, aborted>>
    BY DEF Sent, Read, CallsStay, log, inputs, tools, stops
  <2>2. CASE Sent
    <3>1. sending' = (buf >= Buffer)
      BY <2>2 DEF Sent, Send
    <3> QED BY <2>1, <3>1
  <2>3. CASE Read
    <3>1. sending' = sending /\ sending \in BOOLEAN
      BY <2>3 DEF Read, IInv, Typed
    <3> QED BY <2>1, <3>1
  <2> QED BY <2>2, <2>3
<1>2. cancel \in BOOLEAN /\ posted \subseteq aborted /\ (cancel => run.no \in aborted)
  BY DEF IInv, Typed, StopsAsked
<1> QED BY <1>1, <1>2, QuietKeeps

(* Aborts, and the callers of cancel_and_wait and aclose before they cancel anything. *)
LEMMA AbortKeeps ==
    ASSUME IInv, Abort \/ CancelAndWait \/ Close \/ (\E t \in 1..MaxRuns : AbortArrives(t))
    PROVE  IInv'
<1>0. cancel \in BOOLEAN /\ sending \in BOOLEAN /\ posted \subseteq aborted /\ (cancel => run.no \in aborted)
  BY DEF IInv, Typed, StopsAsked
<1>1. CASE Abort
  BY <1>0, <1>1, QuietKeeps DEF Abort, CallsStay, log, inputs, tools, wire
<1>2. CASE CancelAndWait
  BY <1>0, <1>2, QuietKeeps DEF CancelAndWait, CallsStay, log, inputs, tools, wire, stops
<1>3. CASE Close
  <2>1. /\ cancel' = (cancel \/ Active) /\ aborted' = IF Active THEN aborted \cup {run.no} ELSE aborted
        /\ CallsStay /\ UNCHANGED <<run, context, queue, ident, held, hook, sending, posted>>
    BY <1>3 DEF Close, CallsStay, log, inputs, tools, wire
  <2>2. Active \in BOOLEAN
    BY DEF Active
  <2> QED BY <1>0, <2>1, <2>2, QuietKeeps
<1>4. ASSUME NEW t \in 1..MaxRuns, AbortArrives(t) PROVE IInv'
  <2>1. /\ t \in posted /\ posted' = posted \ {t} /\ cancel' = (cancel \/ t = run.no)
        /\ CallsStay /\ UNCHANGED <<run, context, queue, ident, held, hook, sending, aborted>>
    BY <1>4 DEF AbortArrives, Aborts, CallsStay, log, inputs, tools, wire
  <2> QED BY <1>0, <2>1, QuietKeeps
<1> QED BY <1>1, <1>2, <1>3, <1>4

(* Steps that change what is queued and nothing else but the stop flag. *)
LEMMA QueueingKeeps ==
    ASSUME IInv, CallsStay, SameRun, run'.no = run.no, UNCHANGED <<context, hook, sending>>,
           cancel' \in BOOLEAN, cancel => cancel', run'.hit => cancel',
           posted' \subseteq aborted', cancel' => run.no \in aborted',
           queue' \in [Deliveries -> Seq(Inputs)],
           ident' \in [Identified -> {"free", "queued", "selected"}],
           held' \in [Inputs -> {"host", "agent", "nobody"}], InputsHeld'
    PROVE  IInv'
<1>1. BatchShape' /\ CallsHeld' /\ CallsAnswered' /\ EffectsHeld' /\ CopyAgrees'
  BY CallsBystander
<1>2. Typed'
  BY DEF IInv, Typed, CallsStay, SameRun
<1>3. StopsAsked'
  BY DEF IInv, StopsAsked
<1> QED BY <1>1, <1>2, <1>3 DEF IInv

(* An identified input is in no queue, not taken and not in the history while the host has it. *)
LEMMA HostsOwn ==
    ASSUME IInv, NEW m \in Identified, held[m] = "host"
    PROVE  /\ ident[m] = "free" /\ m \notin Admitted /\ \A d \in Deliveries : m \notin Range(queue[d])
           /\ run.pc # "reject" => m \notin InFlight
<1>1. ident[m] \in {"free", "queued", "selected"}
  BY DEF IInv, Typed
<1> QED BY <1>1 DEF IInv, InputsHeld, Accounts, Taken

(* steer, follow_up and queue_input. *)
LEMMA QueueKeeps ==
    ASSUME IInv, NEW m \in Inputs, NEW d \in Deliveries, Queue(m, d)
    PROVE  IInv'
<1>0. /\ queue' = [queue EXCEPT ![d] = Append(@, m)] /\ held[m] = "host"
      /\ ident' = [i \in Identified |-> IF i = m THEN "queued" ELSE ident[i]]
      /\ held' = [held EXCEPT ![m] = "agent"]
      /\ CallsStay /\ UNCHANGED <<run, context, hook, sending, cancel, posted, aborted>>
  BY DEF Queue, CallsStay, log, tools, wire, stops
<1>1. /\ queue \in [Deliveries -> Seq(Inputs)] /\ ident \in [Identified -> {"free", "queued", "selected"}]
      /\ held \in [Inputs -> {"host", "agent", "nobody"}] /\ Distinct(queue[d]) /\ queue[d] \in Seq(Inputs)
      /\ Identified \subseteq Inputs
  BY DEF IInv, Typed, InputsHeld, QueuesDistinct, Inputs
<1>2. m \in Identified => /\ ident[m] = "free" /\ m \notin Admitted /\ \A e \in Deliveries : m \notin Range(queue[e])
                          /\ run.pc # "reject" => m \notin InFlight
  BY <1>0, HostsOwn
<1>3. /\ Append(queue[d], m) \in Seq(Inputs) /\ Distinct(Append(queue[d], m))
      /\ Range(Append(queue[d], m)) = Range(queue[d]) \cup {m}
  BY <1>1, <1>2, ListGrows
<1>4. \A e \in Deliveries : queue'[e] = IF e = d THEN Append(queue[d], m) ELSE queue[e]
  BY <1>0, <1>1
<1>5. \A e \in Deliveries : /\ queue'[e] \in Seq(Inputs) /\ Distinct(queue'[e])
                            /\ Range(queue'[e]) = IF e = d THEN Range(queue[e]) \cup {m} ELSE Range(queue[e])
  BY <1>1, <1>3, <1>4 DEF IInv, InputsHeld, QueuesDistinct
<1>6. QueuesDistinct'
  <2>1. (Range(queue["steer"]) \cap Range(queue["follow_up"]) \cap Identified)' = {}
    <3>1. Range(queue["steer"]) \cap Range(queue["follow_up"]) \cap Identified = {}
      BY DEF IInv, InputsHeld, QueuesDistinct
    <3>2. "steer" \in Deliveries /\ "follow_up" \in Deliveries /\ "steer" # "follow_up"
      BY DEF Deliveries
    <3> QED BY <1>2, <1>5, <3>1, <3>2
  <2> QED BY <1>5, <2>1 DEF QueuesDistinct, Distinct
<1>7. Admitted' = Admitted
  BY <1>0, SameHistory DEF CallsStay
<1>8. ASSUME NEW x \in Identified
      PROVE  /\ ident'[x] = IF x = m THEN "queued" ELSE ident[x]
             /\ held'[x] = IF x = m THEN "agent" ELSE held[x]
             /\ (\E e \in Deliveries : x \in Range(queue'[e])) <=> x = m \/ \E e \in Deliveries : x \in Range(queue[e])
  BY <1>0, <1>1, <1>5
<1>9. Accounts'
  <2>1. ASSUME NEW x \in Identified
        PROVE  /\ ident'[x] = "queued" <=> \E e \in Deliveries : x \in Range(queue'[e])
               /\ ident'[x] # "free" => held'[x] = "agent" /\ x \notin Admitted'
               /\ held'[x] = "agent" /\ ident'[x] = "free" => x \in Admitted'
               /\ held'[x] = "host" => x \notin Admitted'
    BY <1>2, <1>7, <1>8 DEF IInv, InputsHeld, Accounts
  <2> QED BY <2>1 DEF Accounts
<1>10. Taken'
  <2>1. Loaded' = Loaded /\ InFlight' = InFlight
    BY <1>0 DEF Loaded, InFlight
  <2> QED BY <1>0, <1>2, <1>8, <2>1 DEF IInv, InputsHeld, Taken, Distinct
<1>11. InputsHeld'
  BY <1>0, <1>6, <1>9, <1>10 DEF IInv, InputsHeld, OnlyUsersInput, CallsStay
<1>12. /\ queue' \in [Deliveries -> Seq(Inputs)] /\ ident' \in [Identified -> {"free", "queued", "selected"}]
       /\ held' \in [Inputs -> {"host", "agent", "nobody"}]
  BY <1>0, <1>1, <1>3
<1>13. SameRun /\ cancel \in BOOLEAN /\ StopsAsked
  BY <1>0 DEF IInv, Typed, SameRun
<1> QED BY <1>0, <1>11, <1>12, <1>13, QueueingKeeps DEF StopsAsked

(* Taking inputs back, out of the queues and from a run that is over. *)
LEMMA TakenBack ==
    ASSUME IInv, NEW back \in SUBSET Identified, CallsStay, run' = run,
           \A m \in back : ident[m] = "queued" \/ (ident[m] = "selected" /\ run.pc = "off"),
           UNCHANGED <<context, hook, sending, cancel, posted, aborted>>,
           queue' = [d \in Deliveries |-> Without(queue[d], back)],
           ident' = [m \in Identified |-> IF m \in back THEN "free" ELSE ident[m]],
           held' = [m \in Inputs |-> IF m \in back THEN "host" ELSE held[m]]
    PROVE  IInv'
<1>1. /\ queue \in [Deliveries -> Seq(Inputs)] /\ ident \in [Identified -> {"free", "queued", "selected"}]
      /\ held \in [Inputs -> {"host", "agent", "nobody"}] /\ Identified \subseteq Inputs
  BY DEF IInv, Typed, Inputs
<1>2. ASSUME NEW d \in Deliveries
      PROVE  /\ queue'[d] \in Seq(Inputs) /\ Distinct(queue'[d]) /\ Range(queue'[d]) = Range(queue[d]) \ back
  <2>1. queue[d] \in Seq(Inputs) /\ Distinct(queue[d]) /\ queue'[d] = Without(queue[d], back)
    BY <1>1 DEF IInv, InputsHeld, QueuesDistinct
  <2> QED BY <2>1, ListFiltered
<1>3. ASSUME NEW x \in Identified
      PROVE  /\ ident'[x] = IF x \in back THEN "free" ELSE ident[x]
             /\ held'[x] = IF x \in back THEN "host" ELSE held[x]
             /\ ident[x] \in {"free", "queued", "selected"}
  BY <1>1
<1>4. Admitted' = Admitted
  BY SameHistory DEF CallsStay
<1>5. QueuesDistinct'
  <2>1. Range(queue["steer"]) \cap Range(queue["follow_up"]) \cap Identified = {}
    BY DEF IInv, InputsHeld, QueuesDistinct
  <2>2. "steer" \in Deliveries /\ "follow_up" \in Deliveries
    BY DEF Deliveries
  <2>3. (Range(queue["steer"]) \cap Range(queue["follow_up"]) \cap Identified)' = {}
    BY <1>2, <2>1, <2>2
  <2> QED BY <1>2, <2>3 DEF QueuesDistinct, Distinct
<1>6. Accounts'
  <2>1. ASSUME NEW x \in Identified
        PROVE  /\ ident'[x] = "queued" <=> \E e \in Deliveries : x \in Range(queue'[e])
               /\ ident'[x] # "free" => held'[x] = "agent" /\ x \notin Admitted'
               /\ held'[x] = "agent" /\ ident'[x] = "free" => x \in Admitted'
               /\ held'[x] = "host" => x \notin Admitted'
    <3>1. CASE x \in back
      <4>1. ident[x] # "free" /\ x \notin Admitted
        BY <3>1 DEF IInv, InputsHeld, Accounts
      <4> QED BY <3>1, <4>1, <1>2, <1>3, <1>4
    <3>2. CASE x \notin back
      BY <3>2, <1>2, <1>3, <1>4 DEF IInv, InputsHeld, Accounts
    <3> QED BY <3>1, <3>2
  <2> QED BY <2>1 DEF Accounts
<1>7. Taken'
  <2>1. Loaded' = Loaded /\ InFlight' = InFlight
    BY DEF Loaded, InFlight
  <2>2. ASSUME run.pc # "reject", NEW x \in back, x \in InFlight PROVE FALSE
    <3>1. run.pc = "off" => InFlight = {}
      BY DEF IInv, BatchShape, InFlight, Loaded, Range
    <3>2. ident[x] = "queued" /\ held[x] = "agent" /\ (held[x] = "agent" => ident[x] = "selected")
      BY <2>2, <3>1 DEF IInv, InputsHeld, Accounts, Taken
    <3> QED BY <3>2
  <2> QED BY <1>3, <2>1, <2>2 DEF IInv, InputsHeld, Taken, Distinct
<1>8. InputsHeld'
  BY <1>5, <1>6, <1>7 DEF IInv, InputsHeld, OnlyUsersInput, CallsStay
<1>9. /\ queue' \in [Deliveries -> Seq(Inputs)] /\ ident' \in [Identified -> {"free", "queued", "selected"}]
      /\ held' \in [Inputs -> {"host", "agent", "nobody"}]
  BY <1>1, <1>2
<1>10. SameRun /\ cancel \in BOOLEAN /\ StopsAsked
  BY DEF IInv, Typed, SameRun
<1> QED BY <1>8, <1>9, <1>10, QueueingKeeps DEF StopsAsked

(* change_input and drain_inputs. *)
LEMMA RemoveKeeps ==
    ASSUME IInv, NEW m \in Identified, Remove(m)
    PROVE  IInv'
<1>1. /\ ident[m] = "queued" /\ queue' = [d \in Deliveries |-> Without(queue[d], {m})]
      /\ ident' = [ident EXCEPT ![m] = "free"] /\ held' = [held EXCEPT ![m] = "host"]
      /\ CallsStay /\ UNCHANGED <<run, context, hook, sending, cancel, posted, aborted>>
  BY DEF Remove, CallsStay, log, tools, wire, stops
<1>2. DOMAIN ident = Identified /\ DOMAIN held = Inputs
  BY DEF IInv, Typed
<1>3. /\ ident' = [x \in Identified |-> IF x \in {m} THEN "free" ELSE ident[x]]
      /\ held' = [x \in Inputs |-> IF x \in {m} THEN "host" ELSE held[x]]
  BY <1>1, <1>2
<1>4. {m} \in SUBSET Identified /\ \A x \in {m} : ident[x] = "queued"
  BY <1>1
<1> QED BY <1>1, <1>3, <1>4, TakenBack

(* drain_inputs: whatever is pending goes back to the host. *)
LEMMA DrainKeeps ==
    ASSUME IInv, Drain
    PROVE  IInv'
<1>1. /\ run.pc = "off" /\ queue' = [d \in Deliveries |-> Without(queue[d], Pending)]
      /\ ident' = [m \in Identified |-> IF m \in Pending THEN "free" ELSE ident[m]]
      /\ held' = [m \in Inputs |-> IF m \in Pending THEN "host" ELSE held[m]]
      /\ CallsStay /\ UNCHANGED <<run, context, hook, sending, cancel, posted, aborted>>
  BY DEF Drain, Active, CallsStay, log, tools, wire, stops
<1>2. Pending \in SUBSET Identified /\ \A m \in Pending : ident[m] = "queued" \/ ident[m] = "selected"
  BY DEF IInv, InputsHeld, Accounts, Pending
<1> QED BY <1>1, <1>2, TakenBack

(* clear_all_queues: nobody waits for the inputs any more. *)
LEMMA ClearedInputs ==
    ASSUME IInv, Cleared, CallsStay, SameRun
    PROVE  /\ InputsHeld' /\ queue' \in [Deliveries -> Seq(Inputs)]
           /\ ident' \in [Identified -> {"free", "queued", "selected"}]
           /\ held' \in [Inputs -> {"host", "agent", "nobody"}]
<1>1. held \in [Inputs -> {"host", "agent", "nobody"}] /\ Identified \subseteq Inputs
  BY DEF IInv, Typed, Inputs
<1>2. /\ queue' = [d \in Deliveries |-> <<>>] /\ ident' = [m \in Identified |-> "free"]
      /\ held' = [m \in Inputs |-> IF held[m] = "agent" THEN "nobody" ELSE held[m]]
  BY DEF Cleared
<1>3. <<>> \in Seq(Inputs) /\ Distinct(<<>>) /\ Range(<<>>) = {}
  BY DEF Distinct, Range
<1>4. "steer" \in Deliveries /\ "follow_up" \in Deliveries
  BY DEF Deliveries
<1>5. QueuesDistinct'
  BY <1>2, <1>3, <1>4 DEF QueuesDistinct, Distinct
<1>6. Admitted' = Admitted
  BY SameHistory DEF CallsStay
<1>7. Accounts'
  BY <1>1, <1>2, <1>3, <1>6 DEF IInv, InputsHeld, Accounts
<1>8. Taken'
  <2>1. Loaded' = Loaded /\ InFlight' = InFlight
    BY DEF Loaded, InFlight, SameRun
  <2> QED BY <1>1, <1>2, <2>1 DEF IInv, InputsHeld, Taken, Distinct, SameRun
<1> QED BY <1>1, <1>2, <1>3, <1>5, <1>7, <1>8 DEF IInv, InputsHeld, OnlyUsersInput, CallsStay

(* AgentSession.cancel. *)
LEMMA DiscardKeeps ==
    ASSUME IInv, Discard
    PROVE  IInv'
<1>1. /\ Cleared /\ cancel' = TRUE /\ aborted' = aborted \cup {run.no}
      /\ CallsStay /\ UNCHANGED <<run, context, hook, sending, posted>>
  BY DEF Discard, CallsStay, log, tools, wire
<1>2. SameRun /\ posted \subseteq aborted
  BY <1>1 DEF IInv, Typed, SameRun, StopsAsked
<1>3. /\ InputsHeld' /\ queue' \in [Deliveries -> Seq(Inputs)]
      /\ ident' \in [Identified -> {"free", "queued", "selected"}]
      /\ held' \in [Inputs -> {"host", "agent", "nobody"}]
  BY <1>1, <1>2, ClearedInputs
<1> QED BY <1>1, <1>2, <1>3, QueueingKeeps

(* cancel_and_wait and aclose: the cancellation, and the end of the wait. *)
LEMMA CancelStartsKeeps ==
    ASSUME IInv, NEW p \in {"host", "close"}, CancelStarts(p)
    PROVE  IInv'
<1>0. /\ CallsStay /\ UNCHANGED <<context, queue, ident, held, hook, sending, posted>>
      /\ \/ UNCHANGED <<cancel, aborted, run>>
         \/ /\ cancel' = TRUE /\ aborted' = aborted \cup {run.no}
            /\ run' = [run EXCEPT !.asked = TRUE, !.hit = @ \/ ~run.asked]
  BY DEF CancelStarts, CallsStay, log, inputs, tools, wire
<1>1. /\ cancel \in BOOLEAN /\ sending \in BOOLEAN /\ posted \subseteq aborted /\ (cancel => run.no \in aborted)
      /\ run \in Run
  BY DEF IInv, Typed, StopsAsked
<1>2. CASE UNCHANGED <<cancel, aborted, run>>
  BY <1>0, <1>1, <1>2, QuietKeeps
<1>3. CASE /\ cancel' = TRUE /\ aborted' = aborted \cup {run.no}
           /\ run' = [run EXCEPT !.asked = TRUE, !.hit = @ \/ ~run.asked]
  <2>1. run.hit \in BOOLEAN /\ run.asked \in BOOLEAN
    BY <1>1 DEF Run
  <2>2. (run.hit \/ ~run.asked) \in BOOLEAN
    OBVIOUS
  <2>3. SameRun /\ run'.no = run.no
    <3> DEFINE hit == run.hit \/ ~run.asked
    <3>1. run' = [run EXCEPT !.asked = TRUE, !.hit = hit] /\ hit \in BOOLEAN
      BY <1>1, <1>3 DEF Run
    <3> HIDE DEF hit
    <3> QED BY ONLY <1>1, <3>1 DEF SameRun, Run
  <2>4. InputsHeld'
    <3>1. Loaded' = Loaded
      BY <2>3 DEF Loaded, SameRun
    <3>2. CASE run.pc # "reject"
      BY <1>0, <2>3, <3>1, <3>2, InputsBystander DEF CallsStay, SameRun
    <3>3. CASE run.pc = "reject"
      BY <1>0, <2>3, <3>1, <3>3, InputsBystander DEF CallsStay, SameRun
    <3> QED BY <3>2, <3>3
  <2>5. /\ queue \in [Deliveries -> Seq(Inputs)] /\ ident \in [Identified -> {"free", "queued", "selected"}]
        /\ held \in [Inputs -> {"host", "agent", "nobody"}]
    BY DEF IInv, Typed
  <2> QED BY <1>0, <1>1, <1>3, <2>3, <2>4, <2>5, QueueingKeeps
<1> QED BY <1>0, <1>2, <1>3

(* The run is over; aclose clears what is left in the queues. *)
LEMMA CancelJoinedKeeps ==
    ASSUME IInv, NEW p \in {"host", "close"}, CancelJoined(p)
    PROVE  IInv'
<1>0. /\ CallsStay /\ UNCHANGED <<context, hook, run, sending, cancel, posted, aborted>>
      /\ Cleared \/ UNCHANGED <<queue, ident, held>>
  BY DEF CancelJoined, CallsStay, log, tools, wire, stops
<1>1. /\ cancel \in BOOLEAN /\ sending \in BOOLEAN /\ posted \subseteq aborted /\ (cancel => run.no \in aborted)
      /\ (run.hit => cancel) /\ SameRun
  BY <1>0 DEF IInv, Typed, StopsAsked, SameRun
<1>2. CASE UNCHANGED <<queue, ident, held>>
  BY <1>0, <1>1, <1>2, QuietKeeps
<1>3. CASE Cleared
  <2>1. /\ InputsHeld' /\ queue' \in [Deliveries -> Seq(Inputs)]
        /\ ident' \in [Identified -> {"free", "queued", "selected"}]
        /\ held' \in [Inputs -> {"host", "agent", "nobody"}]
    BY <1>0, <1>1, <1>3, ClearedInputs
  <2> QED BY <1>0, <1>1, <2>1, QueueingKeeps
<1> QED BY <1>0, <1>2, <1>3

(* The host puts a checked history in place: the inputs in it are the same. *)
LEMMA ReconcileKeeps ==
    ASSUME IInv, Reconcile
    PROVE  IInv'
<1> DEFINE other == {message \in Range(history) : message.kind # "user"}
<1>1. /\ run.pc = "off" /\ history' = Without(history, other) /\ unconfirmed' = {} /\ entered' = {}
      /\ UNCHANGED <<context, queue, ident, held, hook, tool, run, sending, cancel, posted, aborted>>
  BY DEF Reconcile, Active, inputs, wire, stops
<1>2. history \in Seq(Message) /\ tool = NoTools
  BY <1>1 DEF IInv, Typed, BatchShape
<1>3. history' \in Seq(Message) /\ Range(history') = Range(history) \ other
  BY <1>1, <1>2, ListFiltered
<1>4. \A k \in DOMAIN history' : history'[k] \in Range(history) /\ history'[k].kind = "user"
  BY <1>3 DEF Range
<1>5. Results' = {}
  BY <1>4 DEF Results
<1>6. ASSUME NEW m \in Identified PROVE m \in Admitted' <=> m \in Admitted
  <2>1. ASSUME NEW k \in DOMAIN history, history[k].input = m PROVE \E j \in DOMAIN history' : history'[j].input = m
    <3>1. history[k].kind = "user"
      BY <2>1, ConstantsAssumption DEF IInv, InputsHeld, OnlyUsersInput
    <3>2. history[k] \in Range(history')
      BY <3>1, <1>3 DEF Range
    <3> QED BY <3>2, <2>1 DEF Range
  <2>2. ASSUME NEW j \in DOMAIN history', history'[j].input = m PROVE \E k \in DOMAIN history : history[k].input = m
    BY <1>4, <2>2 DEF Range
  <2> QED BY <2>1, <2>2 DEF Admitted
<1>7. InputsHeld'
  <2>1. Loaded' = Loaded /\ InFlight' = InFlight
    BY <1>1 DEF Loaded, InFlight
  <2>2. QueuesDistinct' /\ Accounts'
    BY <1>1, <1>6 DEF IInv, InputsHeld, QueuesDistinct, Accounts, Distinct
  <2>3. OnlyUsersInput'
    BY <1>4 DEF OnlyUsersInput
  <2>4. Taken'
    BY <1>1, <2>1 DEF IInv, InputsHeld, Taken, Distinct
  <2> QED BY <2>2, <2>3, <2>4 DEF InputsHeld
<1>8. Typed'
  BY <1>1, <1>3 DEF IInv, Typed
<1>9. StopsAsked'
  BY <1>1 DEF IInv, StopsAsked
<1>10. BatchShape'
  BY <1>1 DEF IInv, BatchShape
<1>11. CallsHeld'
  BY <1>1, <1>2 DEF CallsHeld, Calling, NoTools
<1>12. CallsAnswered'
  BY <1>1, <1>5 DEF CallsAnswered, Asking, Calling
<1>13. EffectsHeld'
  BY <1>1 DEF EffectsHeld
<1>14. CopyAgrees'
  BY <1>1 DEF CopyAgrees, Asking, Calling
<1> QED BY <1>7, <1>8, <1>9, <1>10, <1>11, <1>12, <1>13, <1>14 DEF IInv

-----------------------------------------------------------------------------
(* Taking messages from a queue. *)

\* The messages ms are taken from a queue, which is as it was but for them.
TakesFrom(ms) ==
    /\ ms \in Seq(Texts) /\ Distinct(ms)
    /\ \A m \in Range(ms) \cap Identified : ident[m] = "queued" /\ held[m] = "agent" /\ ident'[m] = "selected"
    /\ queue' \in [Deliveries -> Seq(Inputs)]
    /\ ident' \in [Identified -> {"free", "queued", "selected"}]
    /\ QueuesDistinct'
    /\ \A m \in Identified : m \notin Range(ms) => ident'[m] = ident[m]
    /\ history' = history /\ held' = held => Accounts'

(* _dequeue_steering and _dequeue_follow_ups. *)
LEMMA DequeueTakes ==
    ASSUME IInv, NEW d \in Deliveries, NEW ms \in Batches(d), Dequeue(d, ms)
    PROVE  TakesFrom(ms)
<1>1. /\ queue \in [Deliveries -> Seq(Inputs)] /\ ident \in [Identified -> {"free", "queued", "selected"}]
      /\ held \in [Inputs -> {"host", "agent", "nobody"}] /\ Identified \subseteq Inputs
      /\ queue[d] \in Seq(Inputs) /\ Distinct(queue[d])
  BY DEF IInv, Typed, Inputs, InputsHeld, QueuesDistinct
<1>2. PICK n \in 1..Len(queue[d]) : ms = SubSeq(queue[d], 1, n)
  BY DEF Batches
<1> DEFINE rest == SubSeq(queue[d], Len(ms) + 1, Len(queue[d]))
<1>3. /\ ms \in Seq(Inputs) /\ rest \in Seq(Inputs) /\ Distinct(ms) /\ Distinct(rest)
      /\ Range(queue[d]) = Range(ms) \cup Range(rest)
      /\ Range(ms) \cap Range(rest) \cap Identified = {}
  BY <1>1, <1>2, ListSplits
<1>4. queue' = [queue EXCEPT ![d] = rest] /\ ident' = [m \in Identified |-> IF m \in Range(ms) THEN "selected" ELSE ident[m]]
  BY DEF Dequeue, Selected
<1> HIDE DEF rest
<1>5. ms \in Seq(Texts)
  BY <1>3 DEF Texts
<1>6. ASSUME NEW m \in Range(ms) \cap Identified
      PROVE  ident[m] = "queued" /\ held[m] = "agent" /\ ident'[m] = "selected"
  BY <1>3, <1>4 DEF IInv, InputsHeld, Accounts
<1>7. /\ queue' \in [Deliveries -> Seq(Inputs)] /\ ident' \in [Identified -> {"free", "queued", "selected"}]
  BY <1>1, <1>3, <1>4
<1>8. \A e \in Deliveries : queue'[e] = IF e = d THEN rest ELSE queue[e]
  BY <1>1, <1>4
<1>9. "steer" \in Deliveries /\ "follow_up" \in Deliveries /\ "steer" # "follow_up"
      /\ \A e, f \in Deliveries : e # f => {e, f} = {"steer", "follow_up"}
  BY DEF Deliveries
<1>10. Range(queue["steer"]) \cap Range(queue["follow_up"]) \cap Identified = {}
  BY DEF IInv, InputsHeld, QueuesDistinct
<1>11. QueuesDistinct'
  <2>1. \A e \in Deliveries : Distinct(queue'[e]) /\ Range(queue'[e]) \subseteq Range(queue[e])
    BY <1>3, <1>8 DEF IInv, InputsHeld, QueuesDistinct
  <2>2. (Range(queue["steer"]) \cap Range(queue["follow_up"]) \cap Identified)' = {}
    BY <2>1, <1>9, <1>10
  <2> QED BY <2>1, <2>2 DEF QueuesDistinct, Distinct
<1>12. ASSUME NEW m \in Identified, m \notin Range(ms) PROVE ident'[m] = ident[m]
  BY <1>4, <1>12
<1>13. ASSUME history' = history, held' = held PROVE Accounts'
  <2>1. Admitted' = Admitted
    BY <1>13, SameHistory
  <2>2. ASSUME NEW m \in Identified
        PROVE  (\E e \in Deliveries : m \in Range(queue'[e]))
                 <=> (\E e \in Deliveries : m \in Range(queue[e])) /\ m \notin Range(ms)
    <3>1. ASSUME m \in Range(ms) PROVE \A e \in Deliveries : m \notin Range(queue'[e])
      <4>1. m \in Range(queue[d]) /\ m \notin Range(rest)
        BY <1>3, <3>1
      <4>2. \A e \in Deliveries : e # d => m \notin Range(queue[e])
        BY <4>1, <1>9, <1>10 DEF Deliveries
      <4> QED BY <4>1, <4>2, <1>8
    <3>2. ASSUME m \notin Range(ms) PROVE \A e \in Deliveries : m \in Range(queue'[e]) <=> m \in Range(queue[e])
      BY <1>3, <1>8, <3>2
    <3> QED BY <3>1, <3>2
  <2>3. ASSUME NEW m \in Identified
        PROVE  /\ ident'[m] = "queued" <=> \E e \in Deliveries : m \in Range(queue'[e])
               /\ ident'[m] # "free" => held'[m] = "agent" /\ m \notin Admitted'
               /\ held'[m] = "agent" /\ ident'[m] = "free" => m \in Admitted'
               /\ held'[m] = "host" => m \notin Admitted'
    <3>1. CASE m \in Range(ms)
      BY <3>1, <2>1, <2>2, <1>6, <1>13 DEF IInv, InputsHeld, Accounts
    <3>2. CASE m \notin Range(ms)
      BY <3>2, <2>1, <2>2, <1>12, <1>13 DEF IInv, InputsHeld, Accounts
    <3> QED BY <3>1, <3>2
  <2> QED BY <2>3 DEF Accounts
<1> QED BY <1>3, <1>5, <1>6, <1>7, <1>11, <1>12, <1>13 DEF TakesFrom

-----------------------------------------------------------------------------
(* The start of a run. *)

(* _run_loop, when nothing is open. *)
LEMMA BeginKeeps ==
    ASSUME IInv, NEW ms \in Seq(Texts), NEW from \in {"prompt", "continue"} \cup Deliveries, NEW skip \in BOOLEAN,
           Begin(ms, from, skip), Distinct(ms),
           \A m \in Range(ms) \cap Identified : held[m] = "agent" /\ ident'[m] = "selected",
           queue' \in [Deliveries -> Seq(Inputs)], ident' \in [Identified -> {"free", "queued", "selected"}],
           QueuesDistinct', Accounts'
    PROVE  IInv'
<1>0. /\ run \in Run /\ history \in Seq(Message) /\ run.no \in Nat /\ run.replies \in Nat
      /\ 0 \in 0..MaxCalls /\ <<>> \in Seq(Texts)
  BY RunFields, ConstantsAssumption DEF IInv, Typed
<1>1. /\ run.pc = "off" /\ Unfinished = {} /\ context' = history /\ cancel' = FALSE
      /\ UNCHANGED <<history, held, hook, unconfirmed, tool, entered, sending, posted, aborted>>
  BY DEF Begin, Active, Reconciled, tools, wire
<1>2. PICK mode \in {"sequential", "parallel"} :
         run' = [NoRun EXCEPT !.no = run.no + 1, !.replies = run.replies, !.pc = "new", !.mode = mode,
                              !.from = from, !.batch = ms, !.todo = ms, !.skip = skip]
  BY DEF Begin
<1>3. NoRun \in Run /\ ~NoRun.gathering /\ ~NoRun.hit /\ NoRun.ready = <<>>
  BY <1>0 DEF NoRun, Run, Ending
<1>4. /\ run' \in Run /\ run'.pc = "new" /\ run'.replies = run.replies /\ run'.todo = ms
      /\ ~run'.gathering /\ ~run'.hit /\ run'.ready = <<>>
  <2>1. run.no + 1 \in Nat
    BY <1>0
  <2> QED BY <1>0, <1>2, <1>3, <2>1 DEF Run, Asking
<1>5. Results' = Results /\ Requested' = Requested
  BY <1>1, SameHistory
<1>6. Typed'
  BY <1>0, <1>1, <1>4 DEF IInv, Typed
<1>7. StopsAsked'
  BY <1>1, <1>4 DEF IInv, StopsAsked
<1>8. BatchShape'
  BY <1>4 DEF BatchShape, Calling
<1>9. CallsHeld'
  BY <1>1, <1>4 DEF IInv, BatchShape, CallsHeld, Calling, NoTools
<1>10. CallsAnswered'
  BY <1>1, <1>4, <1>5 DEF IInv, CallsAnswered, Calling, Unfinished
<1>11. EffectsHeld'
  BY <1>1, <1>5 DEF IInv, EffectsHeld, Unfinished
<1>12. CopyAgrees'
  BY <1>1, <1>4 DEF CopyAgrees
<1>13. InputsHeld'
  <2>1. Loaded' = <<>> /\ InFlight' = Range(ms)
    BY <1>4 DEF Loaded, InFlight, Range
  <2>2. Taken'
    BY <1>1, <1>4, <2>1 DEF Taken, Distinct, Range
  <2> QED BY <1>1, <2>2 DEF IInv, InputsHeld, OnlyUsersInput
<1> QED BY <1>6, <1>7, <1>8, <1>9, <1>10, <1>11, <1>12, <1>13 DEF IInv

(* The queues are as they were. *)
LEMMA SameQueues ==
    ASSUME IInv, UNCHANGED <<history, queue, ident, held>>
    PROVE  /\ queue' \in [Deliveries -> Seq(Inputs)] /\ ident' \in [Identified -> {"free", "queued", "selected"}]
           /\ QueuesDistinct' /\ Accounts' /\ OnlyUsersInput'
<1>1. Admitted' = Admitted
  BY SameHistory
<1> QED BY <1>1 DEF IInv, Typed, InputsHeld, QueuesDistinct, Accounts, OnlyUsersInput, Distinct

(* prompt. *)
LEMMA StartPromptKeeps ==
    ASSUME IInv, StartPrompt
    PROVE  IInv'
<1>1. Begin(<<Prompt>>, "prompt", FALSE) /\ UNCHANGED <<history, queue, ident, held>>
  BY DEF StartPrompt, Begin
<1>2. <<Prompt>> \in Seq(Texts) /\ Distinct(<<Prompt>>) /\ Range(<<Prompt>>) \cap Identified = {}
  BY ConstantsAssumption DEF Texts, Distinct, Range
<1>3. /\ queue' \in [Deliveries -> Seq(Inputs)] /\ ident' \in [Identified -> {"free", "queued", "selected"}]
      /\ QueuesDistinct' /\ Accounts'
  BY <1>1, SameQueues
<1> QED BY <1>1, <1>2, <1>3, BeginKeeps

(* continue_: the queued input it takes stays pending when the run is refused. *)
LEMMA ContinueKeeps ==
    ASSUME IInv, Continue
    PROVE  IInv'
<1>1. CASE Begin(<<>>, "continue", FALSE) /\ UNCHANGED <<queue, ident>>
  <2>1. <<>> \in Seq(Texts) /\ Distinct(<<>>) /\ Range(<<>>) = {}
    BY DEF Distinct, Range
  <2>2. UNCHANGED <<history, queue, ident, held>>
    BY <1>1 DEF Begin
  <2>3. /\ queue' \in [Deliveries -> Seq(Inputs)] /\ ident' \in [Identified -> {"free", "queued", "selected"}]
        /\ QueuesDistinct' /\ Accounts'
    BY <2>2, SameQueues
  <2> QED BY <1>1, <2>1, <2>3, BeginKeeps
<1>2. ASSUME NEW d \in Deliveries, NEW ms \in Batches(d), Dequeue(d, ms), Begin(ms, d, d = "steer")
      PROVE  IInv'
  <2>1. TakesFrom(ms)
    BY <1>2, DequeueTakes
  <2>2. UNCHANGED <<history, held>>
    BY <1>2 DEF Begin
  <2>3. (d = "steer") \in BOOLEAN
    OBVIOUS
  <2> QED BY <1>2, <2>1, <2>2, <2>3, BeginKeeps DEF TakesFrom
<1>3. ASSUME NEW d \in Deliveries, NEW ms \in Batches(d), Dequeue(d, ms), run.pc = "off",
             UNCHANGED <<log, held, hook, tools, run, wire, stops, callers>>
      PROVE  IInv'
  <2>1. TakesFrom(ms)
    BY <1>3, DequeueTakes
  <2>2. CallsStay /\ SameRun /\ run' = run /\ UNCHANGED <<context, hook, sending, cancel, posted, aborted, held>>
    BY <1>3 DEF CallsStay, SameRun, IInv, Typed, log, tools, wire, stops
  <2>3. Taken'
    <3>1. InFlight' = {} /\ Loaded' = <<>> /\ run'.todo = <<>>
      BY <1>3, <2>2 DEF IInv, BatchShape, InFlight, Loaded, Range
    <3> QED BY <3>1 DEF Taken, Distinct, Range
  <2>4. InputsHeld'
    BY <2>1, <2>2, <2>3 DEF TakesFrom, InputsHeld, OnlyUsersInput, IInv, CallsStay
  <2>5. cancel \in BOOLEAN /\ StopsAsked /\ held \in [Inputs -> {"host", "agent", "nobody"}]
    BY DEF IInv, Typed
  <2> QED BY <2>1, <2>2, <2>4, <2>5, QueueingKeeps DEF TakesFrom, StopsAsked
<1>4. "steer" \in Deliveries /\ "follow_up" \in Deliveries
  BY DEF Deliveries
<1> QED BY <1>1, <1>2, <1>3, <1>4 DEF Continue, Active

-----------------------------------------------------------------------------
(* Input: from a queue, through the transform, into the history. *)

(* To. *)
LEMMA ToMoves ==
    ASSUME run \in Run, NEW pc \in Asking \cup {"reply"} \cup Calling \cup {"turn", "turned"} \cup Ending, To(pc)
    PROVE  /\ run' \in Run /\ run'.pc = pc /\ run'.no = run.no /\ run'.hit = run.hit
           /\ run'.mode = run.mode /\ run'.stage = run.stage
           /\ run'.todo = run.todo /\ run'.ready = run.ready /\ run'.calls = run.calls /\ run'.i = run.i
           /\ run'.gathering = run.gathering /\ run'.error = run.error /\ run'.replies = run.replies
BY DEF To, Run

(* A step while no call is open. *)
LEMMA AskingKeeps ==
    ASSUME IInv, CallsStay, run' \in Run, run.pc \in Asking, run'.pc \in Asking \cup {"reject", "end", "dead"},
           run'.replies = run.replies, run'.gathering = run.gathering, run'.no = run.no, run'.hit => run.hit,
           UNCHANGED <<cancel, posted, aborted, hook>>, sending' \in BOOLEAN, context' \in Seq(Message),
           queue' \in [Deliveries -> Seq(Inputs)], ident' \in [Identified -> {"free", "queued", "selected"}],
           held' \in [Inputs -> {"host", "agent", "nobody"}], CopyAgrees', InputsHeld'
    PROVE  IInv'
<1>1. BatchShape' /\ CallsHeld' /\ CallsAnswered' /\ EffectsHeld'
  BY CallsAsking
<1>2. Typed'
  BY DEF IInv, Typed, CallsStay
<1>3. StopsAsked'
  BY DEF IInv, StopsAsked
<1> QED BY <1>1, <1>2, <1>3 DEF IInv

(* One that leaves the messages and the queues alone. *)
LEMMA AskingMoves ==
    ASSUME IInv, UNCHANGED <<log, inputs, tools, wire, stops>>,
           run' \in Run, run.pc \in Asking, run'.pc \in Asking \cup {"end", "dead"},
           run'.replies = run.replies, run'.gathering = run.gathering, run'.no = run.no, run'.hit => run.hit,
           CopyAgrees', Loaded' = Loaded \/ Loaded' = <<>>, run'.todo = run.todo
    PROVE  IInv'
<1>1. /\ CallsStay /\ UNCHANGED <<history, context, queue, ident, held, hook, cancel, posted, aborted, sending>>
  BY DEF CallsStay, log, inputs, tools, wire, stops
<1>2. run.pc # "reject" /\ run'.pc # "reject"
  BY DEF Asking
<1>3. InputsHeld'
  BY <1>1, <1>2, InputsBystander
<1>4. /\ queue \in [Deliveries -> Seq(Inputs)] /\ ident \in [Identified -> {"free", "queued", "selected"}]
      /\ held \in [Inputs -> {"host", "agent", "nobody"}] /\ context \in Seq(Message) /\ sending \in BOOLEAN
  BY DEF IInv, Typed
<1> QED BY <1>1, <1>3, <1>4, AskingKeeps

(* The task takes its first step. *)
LEMMA FirstStepKeeps ==
    ASSUME IInv, FirstStep
    PROVE  IInv'
<1>0. run \in Run /\ run.pc = "new" /\ UNCHANGED <<log, inputs, tools, wire, stops>>
  BY DEF IInv, Typed, FirstStep, At
<1>1. PICK pc \in {"poll", "prepare"} : To(pc)
  BY DEF FirstStep
<1>2. /\ run' \in Run /\ run'.pc = pc /\ run'.no = run.no /\ run'.hit = run.hit
      /\ run'.todo = run.todo /\ run'.ready = run.ready
      /\ run'.gathering = run.gathering /\ run'.replies = run.replies
  BY <1>0, <1>1, ToMoves DEF Asking
<1>3. context' = history'
  BY <1>0 DEF IInv, CopyAgrees, Asking, log
<1>4. CopyAgrees'
  BY <1>2, <1>3 DEF CopyAgrees
<1>5. Loaded' = Loaded
  BY <1>0, <1>2 DEF Loaded
<1> QED BY <1>0, <1>2, <1>4, <1>5, AskingMoves DEF Asking

(* The transform: taken up, refused, or not needed. *)
LEMMA PrepareKeeps ==
    ASSUME IInv, Prepare
    PROVE  IInv'
<1>0. run \in Run /\ run.pc = "prepare" /\ run.todo # <<>> /\ run.todo \in Seq(Texts)
  BY RunFields DEF IInv, Typed, Prepare, At
<1>1. context = history
  BY <1>0 DEF IInv, CopyAgrees, Asking
<1>2. CASE /\ run' = [run EXCEPT !.todo = <<>>, !.ready = run.todo]
           /\ UNCHANGED <<log, inputs, tools, wire, stops, callers>>
  <2>1. /\ run' \in Run /\ run'.pc = run.pc /\ run'.no = run.no /\ run'.hit = run.hit
        /\ run'.todo = <<>> /\ run'.ready = run.todo
        /\ run'.gathering = run.gathering /\ run'.replies = run.replies
    <3>1. <<>> \in Seq(Texts)
      OBVIOUS
    <3> QED BY <1>0, <1>2, <3>1 DEF Run
  <2>2. /\ CallsStay /\ UNCHANGED <<history, context, queue, ident, held, hook, cancel, posted, aborted, sending>>
    BY <1>2 DEF CallsStay, log, inputs, tools, wire, stops
  <2>3. CopyAgrees'
    BY <1>0, <1>1, <2>1, <2>2 DEF CopyAgrees
  <2>4. Loaded' = run.todo /\ InFlight' = Range(run.todo) \cup Range(<<>>) /\ Range(<<>>) = {} /\ Distinct(<<>>)
    BY <1>0, <2>1 DEF Loaded, InFlight, Range, Distinct
  <2>5. Taken'
    BY <1>0, <2>1, <2>2, <2>4 DEF IInv, InputsHeld, Taken, InFlight, Distinct
  <2>6. InputsHeld'
    BY <2>2, <2>5, SameQueues DEF InputsHeld
  <2>7. held \in [Inputs -> {"host", "agent", "nobody"}] /\ context \in Seq(Message) /\ sending \in BOOLEAN
    BY DEF IInv, Typed
  <2>8. queue' \in [Deliveries -> Seq(Inputs)] /\ ident' \in [Identified -> {"free", "queued", "selected"}]
    BY <2>2, SameQueues
  <2>9. run.pc \in Asking
    BY <1>0 DEF Asking
  <2> QED BY <2>1, <2>2, <2>3, <2>6, <2>7, <2>8, <2>9, AskingKeeps
<1>3. CASE Reject("cancelled")
  BY <1>0, <1>3, RejectKeeps DEF Asking
<1>4. CASE To("transform") /\ UNCHANGED <<log, inputs, tools, wire, stops, callers>>
  <2>1. /\ run' \in Run /\ run'.pc = "transform" /\ run'.no = run.no /\ run'.hit = run.hit
        /\ run'.todo = run.todo /\ run'.ready = run.ready
        /\ run'.gathering = run.gathering /\ run'.replies = run.replies
    BY <1>0, <1>4, ToMoves DEF Asking
  <2>2. CopyAgrees'
    BY <1>0, <1>1, <1>4, <2>1 DEF CopyAgrees, log
  <2>3. Loaded' = Loaded
    BY <1>0, <2>1 DEF Loaded
  <2> QED BY <1>0, <1>4, <2>1, <2>2, <2>3, AskingMoves DEF Asking
<1> QED BY <1>2, <1>3, <1>4 DEF Prepare

(* A message came out of the transform and waits to be admitted. *)
LEMMA TransformedKeeps ==
    ASSUME IInv, Transformed
    PROVE  IInv'
<1>0. run \in Run /\ run.pc = "transform" /\ run.todo # <<>> /\ run.todo \in Seq(Texts) /\ run.ready \in Seq(Texts)
  BY RunFields DEF IInv, Typed, Transformed, At, CopyAgrees
<1>1. context = history
  BY <1>0 DEF IInv, CopyAgrees, Asking
<1> DEFINE m == Head(run.todo)
<1>2. /\ run' = [run EXCEPT !.pc = "prepare", !.todo = Tail(@), !.ready = Append(@, m)]
      /\ CallsStay /\ UNCHANGED <<history, context, queue, ident, held, hook, cancel, posted, aborted, sending>>
  BY DEF Transformed, CallsStay, log, inputs, tools, wire, stops
<1>3. Distinct(run.todo) /\ Distinct(run.ready) /\ Loaded = run.ready /\ Range(run.ready) \cap Range(run.todo) \cap Identified = {}
  BY <1>0 DEF IInv, InputsHeld, Taken, Loaded
<1>4. /\ m \in Texts /\ Tail(run.todo) \in Seq(Texts) /\ Distinct(Tail(run.todo))
      /\ Range(run.todo) = {m} \cup Range(Tail(run.todo)) /\ (m \in Identified => m \notin Range(Tail(run.todo)))
  BY <1>0, <1>3, ListParts
<1>5. /\ Append(run.ready, m) \in Seq(Texts) /\ Distinct(Append(run.ready, m))
      /\ Range(Append(run.ready, m)) = Range(run.ready) \cup {m}
  BY <1>0, <1>3, <1>4, ListGrows
<1> HIDE DEF m
<1>6. /\ run' \in Run /\ run'.pc = "prepare" /\ run'.no = run.no /\ run'.hit = run.hit
      /\ run'.todo = Tail(run.todo) /\ run'.ready = Append(run.ready, m)
      /\ run'.gathering = run.gathering /\ run'.replies = run.replies
  BY <1>0, <1>2, <1>4, <1>5 DEF Run, Asking
<1>7. CopyAgrees'
  BY <1>1, <1>2, <1>6 DEF CopyAgrees
<1>8. Loaded' = Append(run.ready, m) /\ InFlight' = InFlight
  BY <1>3, <1>4, <1>5, <1>6 DEF Loaded, InFlight
<1>9. Taken'
  <2>1. Distinct(Loaded') /\ Distinct(run'.todo) /\ Range(Loaded') \cap Range(run'.todo) \cap Identified = {}
    BY <1>3, <1>4, <1>5, <1>6, <1>8
  <2>2. \A x \in InFlight \cap Identified : held[x] # "host" /\ (held[x] = "agent" => ident[x] = "selected")
    BY <1>0 DEF IInv, InputsHeld, Taken
  <2> QED BY <1>2, <1>8, <2>1, <2>2 DEF Taken, Distinct
<1>10. InputsHeld'
  BY <1>2, <1>9, SameQueues DEF InputsHeld
<1>11. held \in [Inputs -> {"host", "agent", "nobody"}] /\ context \in Seq(Message) /\ sending \in BOOLEAN
  BY DEF IInv, Typed
<1>12. queue' \in [Deliveries -> Seq(Inputs)] /\ ident' \in [Identified -> {"free", "queued", "selected"}]
  BY <1>2, SameQueues
<1>13. run.pc \in Asking /\ run'.pc \in Asking
  BY <1>0, <1>6 DEF Asking
<1> QED BY <1>2, <1>6, <1>7, <1>10, <1>11, <1>12, <1>13, AskingKeeps

(* A blocked send is all a send can leave. *)
LEMMA SendTypes ==
    ASSUME Send
    PROVE  sending' \in BOOLEAN
<1>1. sending' = (buf >= Buffer)
  BY DEF Send
<1> QED BY <1>1

(* HandledInput: nobody waits for the message any more. *)
LEMMA HandledKeeps ==
    ASSUME IInv, Handled
    PROVE  IInv'
<1>0. run \in Run /\ run.pc = "transform" /\ run.todo # <<>> /\ run.todo \in Seq(Texts) /\ run.batch \in Seq(Texts)
  BY RunFields DEF IInv, Typed, Handled, At, CopyAgrees
<1>1. context = history
  BY <1>0 DEF IInv, CopyAgrees, Asking
<1> DEFINE m == Head(run.todo)
<1>2. /\ ident' = [i \in Identified |-> IF i = m THEN "free" ELSE ident[i]]
      /\ held' = [i \in Inputs |-> IF i = m THEN "nobody" ELSE held[i]]
      /\ run' = [run EXCEPT !.pc = "prepare", !.todo = Tail(@), !.batch = Without(@, {m})]
      /\ CallsStay /\ UNCHANGED <<history, context, queue, hook, cancel, posted, aborted>> /\ Send
  BY DEF Handled, CallsStay, log, tools, stops
<1>3. Distinct(run.todo) /\ Distinct(Loaded) /\ Loaded = run.ready /\ Range(run.ready) \cap Range(run.todo) \cap Identified = {}
  BY <1>0 DEF IInv, InputsHeld, Taken, Loaded
<1>4. /\ m \in Texts /\ Tail(run.todo) \in Seq(Texts) /\ Distinct(Tail(run.todo))
      /\ Range(run.todo) = {m} \cup Range(Tail(run.todo)) /\ (m \in Identified => m \notin Range(Tail(run.todo)))
  BY <1>0, <1>3, ListParts
<1>5. Without(run.batch, {m}) \in Seq(Texts)
  BY <1>0, ListFiltered
<1> HIDE DEF m
<1>6. /\ run' \in Run /\ run'.pc = "prepare" /\ run'.no = run.no /\ run'.hit = run.hit
      /\ run'.todo = Tail(run.todo) /\ run'.ready = run.ready
      /\ run'.gathering = run.gathering /\ run'.replies = run.replies
  BY <1>0, <1>2, <1>4, <1>5 DEF Run, Asking
<1>7. CopyAgrees'
  BY <1>1, <1>2, <1>6 DEF CopyAgrees
<1>8. /\ ident \in [Identified -> {"free", "queued", "selected"}] /\ held \in [Inputs -> {"host", "agent", "nobody"}]
      /\ Identified \subseteq Inputs /\ queue \in [Deliveries -> Seq(Inputs)] /\ context \in Seq(Message)
  BY DEF IInv, Typed, Inputs
<1>9. ASSUME NEW x \in Identified
      PROVE  ident'[x] = (IF x = m THEN "free" ELSE ident[x]) /\ held'[x] = (IF x = m THEN "nobody" ELSE held[x])
  BY <1>2, <1>8
<1>10. \A x \in InFlight \cap Identified : held[x] # "host" /\ (held[x] = "agent" => ident[x] = "selected")
  BY <1>0 DEF IInv, InputsHeld, Taken
<1>11. m \in InFlight
  BY <1>4 DEF InFlight
<1>12. Accounts'
  <2>1. Admitted' = Admitted
    BY <1>2, SameHistory
  <2>2. m \in Identified => ident[m] # "queued"
    BY <1>10, <1>11 DEF IInv, InputsHeld, Accounts
  <2>3. ASSUME NEW x \in Identified
        PROVE  /\ ident'[x] = "queued" <=> \E e \in Deliveries : x \in Range(queue[e])
               /\ ident'[x] # "free" => held'[x] = "agent" /\ x \notin Admitted
               /\ held'[x] = "agent" /\ ident'[x] = "free" => x \in Admitted
               /\ held'[x] = "host" => x \notin Admitted
    BY <1>9, <2>2 DEF IInv, InputsHeld, Accounts
  <2> QED BY <1>2, <2>1, <2>3 DEF Accounts
<1>13. Taken'
  <2>1. Loaded' = run.ready /\ InFlight' \subseteq InFlight
    BY <1>3, <1>4, <1>6 DEF Loaded, InFlight
  <2>2. m \in Identified => m \notin InFlight'
    BY <1>3, <1>4, <1>6, <2>1 DEF InFlight
  <2>3. Range(run.ready) \cap Range(Tail(run.todo)) \cap Identified = {}
    BY <1>3, <1>4
  <2> QED BY <1>3, <1>4, <1>6, <1>9, <1>10, <2>1, <2>2, <2>3 DEF Taken, Distinct
<1>14. QueuesDistinct' /\ OnlyUsersInput'
  BY <1>2 DEF IInv, InputsHeld, QueuesDistinct, OnlyUsersInput, Distinct
<1>15. InputsHeld'
  BY <1>12, <1>13, <1>14 DEF InputsHeld
<1>16. ident' \in [Identified -> {"free", "queued", "selected"}] /\ held' \in [Inputs -> {"host", "agent", "nobody"}]
  BY <1>2, <1>8
<1>17. run.pc \in Asking /\ run'.pc \in Asking /\ sending' \in BOOLEAN
  BY <1>0, <1>2, <1>6, SendTypes DEF Asking
<1> QED BY <1>2, <1>6, <1>7, <1>8, <1>15, <1>16, <1>17, AskingKeeps

(* The transform failed, or was aborted. *)
LEMMA TransformFailsKeeps ==
    ASSUME IInv, TransformFails
    PROVE  IInv'
<1>1. run.pc \in Asking
  BY DEF TransformFails, At, Asking
<1>2. Reject("failed") \/ Reject("cancelled")
  BY DEF TransformFails
<1> QED BY <1>1, <1>2, RejectKeeps

(* A refusal is announced; after the last one the run ends. *)
LEMMA RefusalKeeps ==
    ASSUME IInv, Refusal
    PROVE  IInv'
<1>0. run \in Run /\ run.pc = "reject" /\ run.todo \in Seq(Texts)
      /\ run.error \in {"none", "failed", "cancelled", "stopped"}
  BY RunFields DEF IInv, Typed, Refusal, At
<1>1. CASE run.todo = <<>>
  BY <1>0, <1>1, UnwindKeeps DEF Refusal
<1>2. CASE run.todo # <<>>
  <2>1. /\ run' = [run EXCEPT !.todo = Tail(@)] /\ Send
        /\ CallsStay /\ UNCHANGED <<history, context, queue, ident, held, hook, cancel, posted, aborted>>
    BY <1>2 DEF Refusal, CallsStay, log, inputs, tools, stops
  <2>2. Tail(run.todo) \in Seq(Texts)
    BY <1>0, <1>2
  <2>3. /\ run' \in Run /\ run'.pc = "reject" /\ run'.no = run.no /\ run'.hit = run.hit
        /\ run'.gathering = run.gathering /\ run'.replies = run.replies
    BY <1>0, <2>1, <2>2 DEF Run
  <2>4. Results' = Results /\ Requested' = Requested
    BY <2>1, SameHistory
  <2>5. InputsHeld'
    BY <2>1, <2>3, InputsBystander
  <2>6. Typed'
    BY <2>1, <2>3, SendTypes DEF IInv, Typed, CallsStay
  <2>7. StopsAsked'
    BY <2>1, <2>3 DEF IInv, StopsAsked
  <2>8. BatchShape'
    BY <1>0, <2>3 DEF IInv, BatchShape, Calling
  <2>9. CallsHeld'
    BY <1>0, <2>1, <2>3 DEF IInv, CallsHeld, CallsStay, Calling, Call
  <2>10. CallsAnswered'
    BY <2>3, <2>4 DEF IInv, CallsAnswered, Calling, Asking
  <2>11. EffectsHeld'
    BY <2>1, <2>4 DEF IInv, EffectsHeld, Unfinished, CallsStay
  <2>12. CopyAgrees'
    BY <2>3 DEF CopyAgrees, Calling, Asking
  <2> QED BY <2>5, <2>6, <2>7, <2>8, <2>9, <2>10, <2>11, <2>12 DEF IInv
<1> QED BY <1>1, <1>2

(* The next messages of a queue are taken up. *)
LEMMA TakeKeeps ==
    ASSUME IInv, NEW ms, TakesFrom(ms), CallsStay, context = history,
           UNCHANGED <<context, held, hook, cancel, posted, aborted, sending>>,
           run' \in Run, run.pc \in Asking, run'.pc = "prepare", run'.todo = ms, run'.ready = <<>>,
           run'.replies = run.replies, run'.gathering = run.gathering, run'.no = run.no, run'.hit = run.hit
    PROVE  IInv'
<1>1. CopyAgrees'
  BY DEF CopyAgrees, CallsStay
<1>2. Loaded' = <<>> /\ InFlight' = Range(ms) /\ Range(<<>>) = {} /\ Distinct(<<>>)
  BY DEF Loaded, InFlight, Range, Distinct
<1>3. Taken'
  BY <1>2 DEF Taken, TakesFrom, Distinct
<1>4. InputsHeld'
  BY <1>3 DEF IInv, InputsHeld, OnlyUsersInput, TakesFrom, CallsStay
<1>5. held \in [Inputs -> {"host", "agent", "nobody"}] /\ context \in Seq(Message) /\ sending \in BOOLEAN
  BY DEF IInv, Typed
<1>6. run'.pc \in Asking
  BY DEF Asking
<1> QED BY <1>1, <1>4, <1>5, <1>6, AskingKeeps DEF TakesFrom

(* So are those that the loop takes between turns. *)
LEMMA TakeFromQueue ==
    ASSUME IInv, NEW d \in Deliveries, NEW stage \in {"poll", "follow_up"}, Take(d, stage),
           run.pc \in Asking, context = history
    PROVE  IInv'
<1>1. PICK ms \in Batches(d) :
        /\ Dequeue(d, ms)
        /\ run' = [run EXCEPT !.pc = "prepare", !.from = d, !.stage = stage,
                              !.batch = ms, !.todo = ms, !.ready = <<>>]
        /\ UNCHANGED <<log, held, hook, tools, wire, stops, callers>>
  BY DEF Take
<1>2. TakesFrom(ms) /\ ms \in Seq(Texts)
  BY <1>1, DequeueTakes DEF TakesFrom
<1>3. CallsStay /\ UNCHANGED <<context, held, hook, cancel, posted, aborted, sending>>
  BY <1>1 DEF CallsStay, log, tools, wire, stops
<1>4. /\ run' \in Run /\ run'.pc = "prepare" /\ run'.todo = ms /\ run'.ready = <<>>
      /\ run'.replies = run.replies /\ run'.gathering = run.gathering /\ run'.no = run.no /\ run'.hit = run.hit
  <2>1. run \in Run /\ <<>> \in Seq(Texts)
    BY DEF IInv, Typed
  <2>2. "prepare" \in Asking /\ d \in Deliveries /\ stage \in {"poll", "follow_up"}
    BY DEF Asking
  <2>3. run' = [run EXCEPT !.pc = "prepare", !.from = d, !.stage = stage, !.batch = ms, !.todo = ms, !.ready = <<>>]
    BY <1>1
  <2> QED BY ONLY <1>2, <2>1, <2>2, <2>3 DEF Run
<1> QED BY <1>2, <1>3, <1>4, TakeKeeps

(* Everything is prepared. *)
LEMMA PreparedKeeps ==
    ASSUME IInv, Prepared
    PROVE  IInv'
<1>0. /\ run \in Run /\ run.pc = "prepare" /\ run.todo = <<>> /\ run.ready \in Seq(Texts)
      /\ run.stage \in {"initial", "poll", "follow_up"} /\ run.more \in BOOLEAN
      /\ history \in Seq(Message)
  BY RunFields DEF IInv, Typed, Prepared, At, Run
<1>1. context = history /\ run.pc \in Asking
  BY <1>0 DEF IInv, CopyAgrees, Asking
<1>2. CASE run.stage = "initial" /\ run.ready # <<>>
  <2>1. context' = history \o Spoken(run.ready) /\ To("inject") /\ UNCHANGED <<history, inputs, tools, wire, stops>>
    BY <1>0, <1>2 DEF Prepared
  <2>2. /\ run' \in Run /\ run'.pc = "inject" /\ run'.no = run.no /\ run'.hit = run.hit
        /\ run'.todo = run.todo /\ run'.ready = run.ready /\ run'.stage = run.stage
        /\ run'.gathering = run.gathering /\ run'.replies = run.replies
    BY <1>0, <2>1, ToMoves DEF Asking
  <2>3. CallsStay /\ UNCHANGED <<history, queue, ident, held, hook, cancel, posted, aborted, sending>>
    BY <2>1 DEF CallsStay, inputs, tools, wire, stops
  <2>4. Loaded' = Loaded
    BY <1>0, <2>2 DEF Loaded
  <2>5. InputsHeld'
    BY <1>0, <2>2, <2>3, <2>4, InputsBystander
  <2>6. CopyAgrees'
    BY <1>2, <2>1, <2>2, <2>3 DEF CopyAgrees, Calling
  <2>7. context' \in Seq(Message)
    BY <1>0, <1>2, <2>1, SpokenHead
  <2>8. /\ queue \in [Deliveries -> Seq(Inputs)] /\ ident \in [Identified -> {"free", "queued", "selected"}]
        /\ held \in [Inputs -> {"host", "agent", "nobody"}] /\ sending \in BOOLEAN
    BY DEF IInv, Typed
  <2>9. run'.pc \in Asking
    BY <2>2 DEF Asking
  <2> QED BY <1>1, <2>2, <2>3, <2>5, <2>6, <2>7, <2>8, <2>9, AskingKeeps
<1>3. CASE run.stage = "initial" /\ run.ready = <<>>
  <2> DEFINE d == IF queue["steer"] # <<>> THEN "steer" ELSE "follow_up"
  <2>1. d \in Deliveries
    BY DEF Deliveries
  <2>2. \/ Finish("none")
        \/ \E ms \in Batches(d) :
              /\ Dequeue(d, ms)
              /\ run' = [run EXCEPT !.from = d, !.batch = ms, !.todo = ms, !.skip = TRUE]
              /\ UNCHANGED <<log, held, hook, tools, wire, stops, callers>>
    BY <1>0, <1>3 DEF Prepared
  <2> HIDE DEF d
  <2>3. ASSUME NEW ms \in Batches(d), Dequeue(d, ms),
               run' = [run EXCEPT !.from = d, !.batch = ms, !.todo = ms, !.skip = TRUE],
               UNCHANGED <<log, held, hook, tools, wire, stops, callers>>
        PROVE  IInv'
    <3>1. TakesFrom(ms) /\ ms \in Seq(Texts)
      BY <2>1, <2>3, DequeueTakes DEF TakesFrom
    <3>2. CallsStay /\ UNCHANGED <<context, held, hook, cancel, posted, aborted, sending>>
      BY <2>3 DEF CallsStay, log, tools, wire, stops
    <3>3. /\ run' \in Run /\ run'.pc = "prepare" /\ run'.todo = ms /\ run'.ready = <<>>
          /\ run'.replies = run.replies /\ run'.gathering = run.gathering /\ run'.no = run.no /\ run'.hit = run.hit
      BY <1>0, <1>3, <2>1, <2>3, <3>1 DEF Run
    <3> QED BY <1>1, <3>1, <3>2, <3>3, TakeKeeps
  <2> QED BY <2>2, <2>3, FinishKeeps
<1>4. CASE run.stage = "follow_up" /\ run.ready = <<>>
  BY <1>0, <1>4, FinishKeeps DEF Prepared
<1>5. CASE run.stage = "poll" \/ (run.stage = "follow_up" /\ run.ready # <<>>)
  <2>1. /\ run' = [run EXCEPT !.pc = "top", !.more = @ \/ run.stage = "follow_up"]
        /\ UNCHANGED <<log, inputs, tools, wire, stops>>
    BY <1>0, <1>5 DEF Prepared
  <2> DEFINE more == run.more \/ run.stage = "follow_up"
  <2>2. run' = [run EXCEPT !.pc = "top", !.more = more] /\ more \in BOOLEAN
    BY <1>0, <2>1 DEF Run
  <2> HIDE DEF more
  <2>3. /\ run' \in Run /\ run'.pc = "top" /\ run'.no = run.no /\ run'.hit = run.hit
        /\ run'.todo = run.todo /\ run'.ready = run.ready /\ run'.stage = run.stage
        /\ run'.gathering = run.gathering /\ run'.replies = run.replies
    BY ONLY <1>0, <2>2 DEF Run, Asking
  <2>4. CopyAgrees'
    BY <1>1, <1>5, <2>1, <2>3 DEF CopyAgrees, log
  <2>5. Loaded' = Loaded
    BY <1>0, <2>3 DEF Loaded
  <2> QED BY <1>1, <2>1, <2>3, <2>4, <2>5, AskingMoves DEF Asking
<1> QED BY <1>0, <1>2, <1>3, <1>4, <1>5

(* The next message is admitted, or the loop goes on. *)
LEMMA InjectKeeps ==
    ASSUME IInv, Inject
    PROVE  IInv'
<1>0. /\ run \in Run /\ run.pc = "inject" /\ run.pc \in Asking /\ history \in Seq(Message)
      /\ UNCHANGED <<log, inputs, tools, wire, stops>>
  BY DEF IInv, Typed, Inject, At, Asking
<1> DEFINE pc == IF run.ready # <<>> THEN "admit" ELSE IF run.stage = "initial" THEN "poll" ELSE "compose"
<1>1. pc \in Asking /\ To(pc)
  BY DEF Inject, Asking
<1>2. /\ run' \in Run /\ run'.pc = pc /\ run'.no = run.no /\ run'.hit = run.hit
      /\ run'.todo = run.todo /\ run'.ready = run.ready /\ run'.stage = run.stage
      /\ run'.gathering = run.gathering /\ run'.replies = run.replies
  BY <1>0, <1>1, ToMoves
<1>3. /\ context = IF run.stage # "initial" THEN history ELSE history \o Spoken(run.ready)
      /\ run.ready = <<>> => context = history
  BY <1>0, SpokenNothing DEF IInv, CopyAgrees
<1>4. CopyAgrees'
  BY <1>0, <1>2, <1>3 DEF CopyAgrees, Calling, log
<1>5. Loaded' = Loaded
  BY <1>0, <1>2 DEF Loaded
<1> QED BY <1>0, <1>1, <1>2, <1>4, <1>5, AskingMoves

(* The host has saved what is still pending. *)
LEMMA SettleKeeps ==
    ASSUME IInv, Settle
    PROVE  IInv'
<1>0. /\ run \in Run /\ run.pc = "settle" /\ run.pc \in Asking /\ run.ready # <<>> /\ run.ready \in Seq(Texts)
      /\ UNCHANGED <<log, inputs, tools, wire, stops>>
      /\ run' = [run EXCEPT !.pc = "inject", !.ready = Tail(@)]
  BY RunFields DEF IInv, Typed, Settle, At, Asking, CopyAgrees
<1>1. Tail(run.ready) \in Seq(Texts)
  BY <1>0
<1>2. /\ run' \in Run /\ run'.pc = "inject" /\ run'.no = run.no /\ run'.hit = run.hit
      /\ run'.todo = run.todo /\ run'.ready = Tail(run.ready) /\ run'.stage = run.stage
      /\ run'.gathering = run.gathering /\ run'.replies = run.replies
  BY <1>0, <1>1 DEF Run, Asking
<1>3. CopyAgrees'
  BY <1>0, <1>2 DEF IInv, CopyAgrees, Calling, log
<1>4. Loaded' = Loaded
  BY <1>0, <1>2 DEF Loaded
<1> QED BY <1>0, <1>2, <1>3, <1>4, AskingMoves DEF Asking

(* The effects on record stay on record while the history grows without a result. *)
LEMMA EffectsGrow ==
    ASSUME EffectsHeld, entered' = entered, unconfirmed' = unconfirmed, Results' = Results, Requested \subseteq Requested',
           \A k \in DOMAIN history : k \in DOMAIN history' /\ history'[k] = history[k]
    PROVE  EffectsHeld'
BY DEF EffectsHeld, Unfinished

(* The message is in the history, and no longer queued. *)
LEMMA AdmitKeeps ==
    ASSUME IInv, Admit
    PROVE  IInv'
<1>0. /\ run \in Run /\ run.pc = "admit" /\ run.ready # <<>> /\ run.ready \in Seq(Texts) /\ history \in Seq(Message)
      /\ context \in Seq(Message)
  BY RunFields DEF IInv, Typed, Admit, At, CopyAgrees
<1> DEFINE m == Head(run.ready)
<1>1. /\ history' = Append(history, User(m))
      /\ context' = (IF run.stage = "initial" THEN context ELSE Append(context, User(m)))
      /\ ident' = [i \in Identified |-> IF i = m THEN "free" ELSE ident[i]]
      /\ To("settle") /\ Send
      /\ UNCHANGED <<queue, held, hook, unconfirmed, tool, entered, cancel, posted, aborted>>
  BY DEF Admit, tools, stops
<1>2. Distinct(run.ready) /\ Loaded = run.ready /\ Range(run.ready) \cap Range(run.todo) \cap Identified = {}
  BY <1>0 DEF IInv, InputsHeld, Taken, Loaded
<1>3. /\ m \in Texts /\ Tail(run.ready) \in Seq(Texts) /\ Distinct(Tail(run.ready))
      /\ Range(run.ready) = {m} \cup Range(Tail(run.ready)) /\ (m \in Identified => m \notin Range(Tail(run.ready)))
  BY <1>0, <1>2, ListParts
<1>4. history \o Spoken(run.ready) = Append(history, User(m)) \o Spoken(Tail(run.ready))
  BY <1>0, SpokenHead
<1> HIDE DEF m
<1>5. /\ run' \in Run /\ run'.pc = "settle" /\ run'.no = run.no /\ run'.hit = run.hit
      /\ run'.todo = run.todo /\ run'.ready = run.ready /\ run'.stage = run.stage
      /\ run'.gathering = run.gathering /\ run'.replies = run.replies
  BY <1>0, <1>1, ToMoves DEF Asking
<1>6. User(m) \in Message /\ User(m).kind = "user" /\ User(m).input = m
  BY <1>3, MessageTypes, MessageFields
<1>7. /\ history' \in Seq(Message) /\ Admitted' = Admitted \cup {m} /\ Results' = Results /\ Requested' = Requested
      /\ \A k \in DOMAIN history : k \in DOMAIN history' /\ history'[k] = history[k]
      /\ \A k \in DOMAIN history' : k \in DOMAIN history \/ history'[k] = User(m)
  BY <1>0, <1>1, <1>6, HistoryGrows
<1>8. Typed'
  <2>1. ident' \in [Identified -> {"free", "queued", "selected"}]
    BY <1>1 DEF IInv, Typed
  <2>2. context' \in Seq(Message)
    BY <1>0, <1>1, <1>6
  <2> QED BY <1>1, <1>5, <1>7, <2>1, <2>2, SendTypes DEF IInv, Typed
<1>9. StopsAsked'
  BY <1>1, <1>5 DEF IInv, StopsAsked
<1>10. ~run.gathering
  BY <1>0, RunFields DEF IInv, BatchShape
<1>11. BatchShape'
  BY <1>5, <1>10 DEF BatchShape, Calling
<1>12. CallsHeld'
  BY <1>0, <1>1, <1>5 DEF IInv, CallsHeld, Calling, Call
<1>13. CallsAnswered'
  BY <1>0, <1>1, <1>5, <1>7 DEF IInv, CallsAnswered, Calling, Asking
<1>14. EffectsHeld'
  BY <1>1, <1>7, EffectsGrow DEF IInv
<1>15. CopyAgrees'
  <2>1. context = IF run.stage # "initial" THEN history ELSE history \o Spoken(run.ready)
    BY <1>0 DEF IInv, CopyAgrees
  <2>2. context' = IF run.stage # "initial" THEN history' ELSE history' \o Spoken(Tail(run.ready))
    BY <1>1, <1>4, <2>1
  <2> QED BY <1>0, <1>5, <2>2 DEF CopyAgrees, Calling
<1>16. /\ ident \in [Identified -> {"free", "queued", "selected"}] /\ held \in [Inputs -> {"host", "agent", "nobody"}]
  BY DEF IInv, Typed
<1>17. ASSUME NEW x \in Identified PROVE ident'[x] = IF x = m THEN "free" ELSE ident[x]
  BY <1>1
<1>18. \A x \in InFlight \cap Identified : held[x] # "host" /\ (held[x] = "agent" => ident[x] = "selected")
  BY <1>0 DEF IInv, InputsHeld, Taken
<1>19. m \in InFlight
  BY <1>2, <1>3 DEF InFlight
<1>20. Accounts'
  <2>1. m \in Identified => ident[m] # "queued" /\ held[m] # "host"
    BY <1>18, <1>19 DEF IInv, InputsHeld, Accounts
  <2>2. ASSUME NEW x \in Identified
        PROVE  /\ ident'[x] = "queued" <=> \E e \in Deliveries : x \in Range(queue[e])
               /\ ident'[x] # "free" => held[x] = "agent" /\ x \notin Admitted'
               /\ held[x] = "agent" /\ ident'[x] = "free" => x \in Admitted'
               /\ held[x] = "host" => x \notin Admitted'
    BY <1>7, <1>17, <2>1 DEF IInv, InputsHeld, Accounts
  <2> QED BY <1>1, <2>2 DEF Accounts
<1>21. Taken'
  <2>1. Loaded' = Tail(run.ready) /\ InFlight' \subseteq InFlight
    BY <1>2, <1>3, <1>5 DEF Loaded, InFlight
  <2>2. m \in Identified => m \notin InFlight'
    BY <1>2, <1>3, <1>5, <2>1 DEF InFlight
  <2>3. Range(Tail(run.ready)) \cap Range(run.todo) \cap Identified = {} /\ Distinct(run.todo)
    BY <1>0, <1>2, <1>3 DEF IInv, InputsHeld, Taken
  <2> QED BY <1>1, <1>3, <1>5, <1>17, <1>18, <2>1, <2>2, <2>3 DEF Taken, Distinct
<1>22. QueuesDistinct'
  BY <1>1 DEF IInv, InputsHeld, QueuesDistinct, Distinct
<1>23. OnlyUsersInput'
  BY <1>6, <1>7 DEF IInv, InputsHeld, OnlyUsersInput
<1>24. InputsHeld'
  BY <1>20, <1>21, <1>22, <1>23 DEF InputsHeld
<1> QED BY <1>8, <1>9, <1>11, <1>12, <1>13, <1>14, <1>15, <1>24 DEF IInv

(* Every step that ends in an exception or in the end of the run. *)
LEMMA EndingKeeps ==
    ASSUME IInv, AdmitFails \/ SettleFails \/ End \/ StreamFails \/ Reap
    PROVE  IInv'
<1>1. Unwind("failed") \/ Unwind("cancelled") \/ Finish("none") \/ Finish(run.error)
  BY DEF AdmitFails, SettleFails, End, StreamFails, Reap
<1> QED BY <1>1, UnwindKeeps, FinishKeeps

(* Steering is polled: nothing new, or a batch to prepare. *)
LEMMA PollKeeps ==
    ASSUME IInv, Poll
    PROVE  IInv'
<1>0. run \in Run /\ run.pc = "poll" /\ run.pc \in Asking
  BY DEF IInv, Typed, Poll, At, Asking
<1>1. context = history
  BY <1>0 DEF IInv, CopyAgrees
<1>2. CASE Take("steer", "poll")
  BY <1>0, <1>1, <1>2, TakeFromQueue DEF Deliveries
<1>3. CASE /\ run' = [run EXCEPT !.pc = "top", !.stage = "poll", !.skip = FALSE, !.ready = <<>>]
           /\ UNCHANGED <<log, inputs, tools, wire, stops, callers>>
  <2>0. <<>> \in Seq(Texts)
    OBVIOUS
  <2>1. /\ run' \in Run /\ run'.pc = "top" /\ run'.no = run.no /\ run'.hit = run.hit
        /\ run'.todo = run.todo /\ run'.ready = <<>> /\ run'.stage = "poll"
        /\ run'.gathering = run.gathering /\ run'.replies = run.replies
    BY <1>0, <1>3, <2>0 DEF Run, Asking
  <2>2. CopyAgrees'
    BY <1>1, <1>3, <2>1 DEF CopyAgrees, log
  <2>3. Loaded' = <<>>
    BY <2>1 DEF Loaded
  <2> QED BY <1>0, <1>3, <2>1, <2>2, <2>3, AskingMoves DEF Asking
<1> QED BY <1>2, <1>3 DEF Poll

(* The top of the loop decides whether to go on. *)
LEMMA TopKeeps ==
    ASSUME IInv, Top
    PROVE  IInv'
<1>0. /\ run \in Run /\ run.pc = "top" /\ run.pc \in Asking /\ run.stage # "initial"
      /\ UNCHANGED <<log, inputs, tools, wire, stops>>
  BY DEF IInv, Typed, Top, At, Asking, CopyAgrees
<1>1. context = history
  BY <1>0 DEF IInv, CopyAgrees
<1>2. PICK pc \in {"follow", "end", "inject"} : To(pc)
  BY DEF Top
<1>3. /\ run' \in Run /\ run'.pc = pc /\ run'.no = run.no /\ run'.hit = run.hit
      /\ run'.todo = run.todo /\ run'.ready = run.ready /\ run'.stage = run.stage
      /\ run'.gathering = run.gathering /\ run'.replies = run.replies
  BY <1>0, <1>2, ToMoves DEF Asking, Ending
<1>4. CopyAgrees'
  BY <1>0, <1>1, <1>3 DEF CopyAgrees, log, Calling
<1>5. Loaded' = Loaded
  BY <1>0, <1>3 DEF Loaded
<1>6. run'.pc \in Asking \cup {"end"}
  BY <1>3 DEF Asking
<1> QED BY <1>0, <1>3, <1>4, <1>5, <1>6, AskingMoves

(* A follow-up keeps the run going; without one it ends. *)
LEMMA FollowKeeps ==
    ASSUME IInv, Follow
    PROVE  IInv'
<1>0. run \in Run /\ run.pc = "follow" /\ run.pc \in Asking
  BY DEF IInv, Typed, Follow, At, Asking
<1>1. context = history
  BY <1>0 DEF IInv, CopyAgrees
<1>2. CASE Take("follow_up", "follow_up")
  BY <1>0, <1>1, <1>2, TakeFromQueue DEF Deliveries
<1>3. CASE To("end") /\ UNCHANGED <<log, inputs, tools, wire, stops, callers>>
  <2>1. /\ run' \in Run /\ run'.pc = "end" /\ run'.no = run.no /\ run'.hit = run.hit
        /\ run'.todo = run.todo /\ run'.ready = run.ready
        /\ run'.gathering = run.gathering /\ run'.replies = run.replies
    BY <1>0, <1>3, ToMoves DEF Ending
  <2>2. CopyAgrees'
    BY <2>1 DEF CopyAgrees, Asking, Calling
  <2>3. Loaded' = Loaded
    BY <1>0, <2>1 DEF Loaded
  <2> QED BY <1>0, <1>3, <2>1, <2>2, <2>3, AskingMoves
<1> QED BY <1>2, <1>3 DEF Follow

(* The request is sent unless the run was aborted meanwhile. *)
LEMMA ComposeKeeps ==
    ASSUME IInv, Compose
    PROVE  IInv'
<1>0. run \in Run /\ run.pc = "compose" /\ run.pc \in Asking
  BY DEF IInv, Typed, Compose, At, Asking
<1>1. CASE Unwind("cancelled")
  BY <1>1, UnwindKeeps
<1>2. CASE To("stream") /\ UNCHANGED <<log, inputs, tools, wire, stops, callers>>
  <2>1. /\ run' \in Run /\ run'.pc = "stream" /\ run'.no = run.no /\ run'.hit = run.hit
        /\ run'.todo = run.todo /\ run'.ready = run.ready
        /\ run'.gathering = run.gathering /\ run'.replies = run.replies
    BY <1>0, <1>2, ToMoves DEF Asking
  <2>2. CopyAgrees'
    BY <1>0, <1>2, <2>1 DEF IInv, CopyAgrees, log
  <2>3. Loaded' = Loaded
    BY <1>0, <2>1 DEF Loaded
  <2> QED BY <1>0, <1>2, <2>1, <2>2, <2>3, AskingMoves DEF Asking
<1> QED BY <1>1, <1>2 DEF Compose

-----------------------------------------------------------------------------
(* The reply, and the end of the turn. *)

(* A result answers a call of a numbered reply. *)
LEMMA ResultTypes ==
    ASSUME history \in Seq(Message)
    PROVE  \A c \in Results : c[1] \in Nat
<1>1. ASSUME NEW k \in DOMAIN history PROVE history[k].reply \in Nat
  <2>1. history[k] \in Message
    OBVIOUS
  <2> QED BY <2>1 DEF Message
<1> QED BY <1>1 DEF Results

(* The reply is recorded; its calls are open, and no call of an earlier reply is. *)
LEMMA AnswerKeeps ==
    ASSUME IInv, NEW n \in 0..MaxCalls, NEW failed \in BOOLEAN, Answer(n, failed)
    PROVE  IInv'
<1>0. /\ run \in Run /\ run.pc = "stream" /\ history \in Seq(Message) /\ context = history
      /\ run.replies \in Nat /\ n \in Nat
  BY RunFields, ConstantsAssumption DEF IInv, Typed, Answer, At, CopyAgrees, Asking
<1> DEFINE r == IF n > 0 THEN run.replies + 1 ELSE run.replies
           pc == IF failed THEN "turn" ELSE "reply"
           error == IF failed THEN "stopped" ELSE "none"
<1>1. /\ history' = Append(history, Reply(r, n)) /\ context' = Append(context, Reply(r, n))
      /\ run' = [run EXCEPT !.pc = pc, !.calls = n, !.replies = r, !.error = error]
      /\ tool' = NoTools /\ Send
      /\ UNCHANGED <<queue, ident, held, hook, unconfirmed, entered, cancel, posted, aborted>>
  BY DEF Answer, inputs, stops
<1>2. r \in Nat /\ r >= run.replies /\ (n > 0 => r > run.replies)
  BY <1>0
<1>3. pc \in {"turn", "reply"} /\ error \in {"stopped", "none"} /\ (pc = "turn" => error = "stopped")
  OBVIOUS
<1> HIDE DEF r, pc, error
<1>4. /\ run' \in Run /\ run'.pc = pc /\ run'.no = run.no /\ run'.hit = run.hit
      /\ run'.todo = run.todo /\ run'.ready = run.ready /\ run'.calls = n /\ run'.error = error
      /\ run'.gathering = run.gathering /\ run'.replies = r
  BY <1>0, <1>1, <1>2, <1>3 DEF Run
<1>5. Reply(r, n) \in Message /\ Reply(r, n).kind = "reply" /\ Reply(r, n).input = NoInput
      /\ Reply(r, n).reply = r /\ Reply(r, n).index = n
  BY <1>0, <1>2, MessageTypes, MessageFields
<1>6. /\ history' \in Seq(Message) /\ Results' = Results /\ Requested' = Requested \cup ({r} \X (1..n))
      /\ \A k \in DOMAIN history : k \in DOMAIN history' /\ history'[k] = history[k]
  BY <1>0, <1>1, <1>5, HistoryGrows
<1>7. context' = history'
  BY <1>0, <1>1
<1>8. Typed'
  <2>1. tool' \in [1..MaxCalls -> {"none", "ready", "denied", "running", "done", "interrupted"}]
    BY <1>1 DEF NoTools
  <2> QED BY <1>1, <1>4, <1>6, <1>7, <2>1, SendTypes DEF IInv, Typed
<1>9. StopsAsked'
  BY <1>1, <1>4 DEF IInv, StopsAsked
<1>10. ~run.gathering
  BY <1>0, RunFields DEF IInv, BatchShape
<1>11. BatchShape'
  BY <1>3, <1>4, <1>10 DEF BatchShape, Calling
<1>12. CallsHeld'
  BY <1>1, <1>3, <1>4 DEF CallsHeld, Calling, NoTools
<1>13. CallsAnswered'
  <2>1. Requested \ Results = {} /\ unconfirmed = {} /\ \A c \in Results : c[1] <= run.replies
    BY <1>0 DEF IInv, CallsAnswered, Asking
  <2>2. \A c \in Results : c[1] \in Nat
    BY <1>0, ResultTypes
  <2>3. \A c \in Results' : c[1] <= run'.replies
    BY <1>0, <1>2, <1>4, <1>6, <2>1, <2>2
  <2>4. \A c \in {r} \X (1..n) : c \notin Results
    <3>1. ASSUME NEW c \in {r} \X (1..n), c \in Results PROVE FALSE
      <4>1. c[1] = r /\ n > 0
        BY <1>0
      <4> QED BY <4>1, <3>1, <1>0, <1>2, <2>1, <2>2
    <3> QED BY <3>1
  <2>5. (Requested \ Results)' = {r} \X (1..n)
    BY <1>6, <2>1, <2>4
  <2>6. pc = "reply" => OpenCalls' = {r} \X (1..n)
    BY <1>4 DEF OpenCalls, Open
  <2> QED BY <1>1, <1>3, <1>4, <2>1, <2>3, <2>5, <2>6 DEF CallsAnswered, Asking, Calling
<1>14. EffectsHeld'
  BY <1>1, <1>6, EffectsGrow DEF IInv
<1>15. CopyAgrees'
  BY <1>3, <1>4, <1>7 DEF CopyAgrees, Asking, Calling
<1>16. InputsHeld'
  <2>1. Loaded' = Loaded /\ run.pc # "reject"
    BY <1>0, <1>3, <1>4 DEF Loaded
  <2> QED BY <1>1, <1>4, <1>5, <2>1, InputsReplied
<1> QED BY <1>8, <1>9, <1>11, <1>12, <1>13, <1>14, <1>15, <1>16 DEF IInv

(* A step of the producer that leaves messages and queues alone, outside the preparation. *)
LEMMA LoopMoves ==
    ASSUME IInv, UNCHANGED <<history, context, queue, ident, held, hook, cancel, posted, aborted>>,
           sending' \in BOOLEAN, run' \in Run,
           tool' \in [1..MaxCalls -> {"none", "ready", "denied", "running", "done", "interrupted"}],
           run.pc \notin Asking \cup Ending, run'.pc \notin Asking \cup Ending,
           run'.no = run.no, run'.hit => run.hit, run'.todo = run.todo, run'.ready = run.ready,
           BatchShape', CallsHeld', CallsAnswered', EffectsHeld'
    PROVE  IInv'
<1>1. Typed'
  BY DEF IInv, Typed
<1>2. StopsAsked'
  BY DEF IInv, StopsAsked
<1>3. run.pc \in {"reply"} \cup Calling \cup {"turn", "turned"}
  BY RunFields DEF IInv, Typed
<1>4. CopyAgrees'
  BY <1>3 DEF IInv, CopyAgrees, Asking
<1>5. Loaded' = Loaded /\ run.pc # "reject" /\ run'.pc # "reject"
  BY DEF Loaded, Asking, Ending
<1>6. InputsHeld'
  BY <1>5, InputsBystander
<1> QED BY <1>1, <1>2, <1>4, <1>6 DEF IInv

(* A reply without calls ends the turn; otherwise its first call is next. *)
LEMMA ReplyReadKeeps ==
    ASSUME IInv, ReplyRead
    PROVE  IInv'
<1>0. /\ run \in Run /\ run.pc = "reply" /\ run.calls \in 0..MaxCalls /\ ~run.gathering /\ run.calls \in Nat
      /\ UNCHANGED <<log, inputs, tools, wire, stops>> /\ run.mode \in {"sequential", "parallel"}
  BY RunFields, ConstantsAssumption DEF IInv, Typed, ReplyRead, At, BatchShape
<1> DEFINE pc == IF run.calls = 0 THEN "turn" ELSE "tool"
<1>1. run' = [run EXCEPT !.pc = pc, !.i = 1]
  BY DEF ReplyRead
<1>2. pc \in {"turn", "tool"} /\ (pc = "turn" <=> run.calls = 0)
  OBVIOUS
<1> HIDE DEF pc
<1>3. /\ run' \in Run /\ run'.pc = pc /\ run'.no = run.no /\ run'.hit = run.hit /\ run'.i = 1
      /\ run'.todo = run.todo /\ run'.ready = run.ready /\ run'.calls = run.calls /\ run'.error = run.error
      /\ run'.gathering = run.gathering /\ run'.replies = run.replies /\ run'.mode = run.mode
  BY <1>0, <1>1, <1>2 DEF Run, Calling
<1>4. UNCHANGED <<history, context, queue, ident, held, hook, cancel, posted, aborted, unconfirmed, tool, entered, sending>>
  BY <1>0 DEF log, inputs, tools, wire, stops
<1>5. Results' = Results /\ Requested' = Requested
  BY <1>4, SameHistory
<1>6. BatchShape'
  BY <1>0, <1>2, <1>3 DEF BatchShape, Calling
<1>7. CallsHeld'
  <2>1. pc = "tool" => Started' = {}
    BY <1>0, <1>2, <1>3 DEF Started
  <2> QED BY <1>0, <1>2, <1>3, <1>4, <2>1 DEF IInv, CallsHeld, Calling, Call
<1>8. CallsAnswered'
  <2>1. Requested \ Results = {run.replies} \X (1..run.calls) /\ (cancel \/ unconfirmed \subseteq {run.replies} \X (1..run.calls))
    BY <1>0 DEF IInv, CallsAnswered, OpenCalls, Open
  <2>2. Open' = 1..run.calls
    BY <1>0, <1>2, <1>3 DEF Open
  <2>3. pc = "turn" => {run.replies} \X (1..run.calls) = {}
    BY <1>2
  <2>4. \A c \in Results : c[1] <= run.replies
    BY DEF IInv, CallsAnswered
  <2> QED BY <1>2, <1>3, <1>4, <1>5, <2>1, <2>2, <2>3, <2>4 DEF CallsAnswered, OpenCalls, Asking, Calling
<1>9. EffectsHeld'
  BY <1>4, <1>5, EffectsGrow DEF IInv
<1>10. /\ run.pc \notin Asking \cup Ending /\ run'.pc \notin Asking \cup Ending
  BY <1>0, <1>2, <1>3 DEF Asking, Ending
<1>11. tool \in [1..MaxCalls -> {"none", "ready", "denied", "running", "done", "interrupted"}] /\ sending \in BOOLEAN
  BY DEF IInv, Typed
<1> QED BY <1>3, <1>4, <1>6, <1>7, <1>8, <1>9, <1>10, <1>11, LoopMoves

(* The turn is over, and with it the batch. *)
LEMMA TurnKeeps ==
    ASSUME IInv, Turn
    PROVE  IInv'
<1>0. /\ run \in Run /\ run.pc = "turn" /\ run' = [run EXCEPT !.pc = "turned", !.gathering = FALSE] /\ Send
      /\ UNCHANGED <<history, context, queue, ident, held, hook, cancel, posted, aborted, unconfirmed, tool, entered>>
  BY DEF IInv, Typed, Turn, At, log, inputs, tools, stops
<1>1. /\ run' \in Run /\ run'.pc = "turned" /\ run'.no = run.no /\ run'.hit = run.hit
      /\ run'.todo = run.todo /\ run'.ready = run.ready /\ run'.error = run.error
      /\ ~run'.gathering /\ run'.replies = run.replies
  BY <1>0 DEF Run
<1>2. Results' = Results /\ Requested' = Requested
  BY <1>0, SameHistory
<1>3. BatchShape'
  BY <1>1 DEF BatchShape, Calling
<1>4. CallsHeld'
  BY <1>0, <1>1 DEF IInv, CallsHeld, Calling, Call
<1>5. CallsAnswered'
  BY <1>0, <1>1, <1>2 DEF IInv, CallsAnswered, Asking, Calling
<1>6. EffectsHeld'
  BY <1>0, <1>2, EffectsGrow DEF IInv
<1>7. /\ run.pc \notin Asking \cup Ending /\ run'.pc \notin Asking \cup Ending
  BY <1>0, <1>1 DEF Asking, Ending
<1>8. tool \in [1..MaxCalls -> {"none", "ready", "denied", "running", "done", "interrupted"}] /\ sending' \in BOOLEAN
  BY <1>0, SendTypes DEF IInv, Typed
<1> QED BY <1>0, <1>1, <1>3, <1>4, <1>5, <1>6, <1>7, <1>8, LoopMoves

(* After an interruption, and after a reply that failed, the run ends. *)
LEMMA TurnedKeeps ==
    ASSUME IInv, Turned
    PROVE  IInv'
<1>0. /\ run \in Run /\ run.pc = "turned" /\ context = history
      /\ UNCHANGED <<history, context, queue, ident, held, hook, cancel, posted, aborted, unconfirmed, tool, entered, sending>>
  BY DEF IInv, Typed, Turned, At, log, inputs, tools, wire, stops, CopyAgrees
<1> DEFINE pc == IF cancel \/ run.error = "stopped" THEN "end" ELSE "poll"
<1>1. run' = [run EXCEPT !.pc = pc, !.more = run.calls > 0]
  BY DEF Turned
<1>2. pc \in {"end", "poll"} /\ (pc = "poll" => ~cancel /\ run.error # "stopped")
  OBVIOUS
<1> HIDE DEF pc
<1>3. /\ run' \in Run /\ run'.pc = pc /\ run'.no = run.no /\ run'.hit = run.hit
      /\ run'.todo = run.todo /\ run'.ready = run.ready
      /\ run'.gathering = run.gathering /\ run'.replies = run.replies
  <2>1. (run.calls > 0) \in BOOLEAN
    OBVIOUS
  <2> QED BY <1>0, <1>1, <1>2, <2>1 DEF Run, Asking, Ending
<1>4. ~run.gathering
  BY <1>0, RunFields DEF IInv, BatchShape
<1>5. Results' = Results /\ Requested' = Requested
  BY <1>0, SameHistory
<1>6. BatchShape'
  BY <1>2, <1>3, <1>4 DEF BatchShape, Calling
<1>7. CallsHeld'
  BY <1>0, <1>2, <1>3 DEF IInv, CallsHeld, Calling, Call
<1>8. CallsAnswered'
  BY <1>0, <1>2, <1>3, <1>5 DEF IInv, CallsAnswered, Calling, Asking
<1>9. EffectsHeld'
  BY <1>0, <1>5, EffectsGrow DEF IInv
<1>10. CopyAgrees'
  BY <1>0, <1>2, <1>3 DEF CopyAgrees, Asking, Calling
<1>11. InputsHeld'
  <2>1. Loaded' = Loaded
    BY <1>0, <1>2, <1>3 DEF Loaded
  <2> QED BY <1>0, <1>3, <2>1, InputsBystander
<1>12. Typed'
  BY <1>0, <1>3 DEF IInv, Typed
<1>13. StopsAsked'
  BY <1>0, <1>3 DEF IInv, StopsAsked
<1> QED BY <1>6, <1>7, <1>8, <1>9, <1>10, <1>11, <1>12, <1>13 DEF IInv

-----------------------------------------------------------------------------
(* The calls of a reply. *)

\* What a call may be.
ToolStates == {"none", "ready", "denied", "running", "done", "interrupted"}

\* The local variables of the loop that a step of a batch leaves alone.
SameBatch ==
    /\ run'.no = run.no /\ run'.replies = run.replies /\ run'.calls = run.calls /\ run'.mode = run.mode
    /\ run'.todo = run.todo /\ run'.ready = run.ready

\* Everything else that it leaves alone, the stream and the tools apart.
Aside == UNCHANGED <<history, context, queue, ident, held, hook, cancel, posted, aborted>>

(* The facts about a batch that every step of it needs. *)
LEMMA BatchFacts ==
    ASSUME IInv, run.pc \in Calling
    PROVE  /\ run \in Run /\ run.i \in Nat /\ run.calls \in Nat /\ run.i \in 1..run.calls /\ run.i \in 1..MaxCalls
           /\ run.mode \in {"sequential", "parallel"} /\ run.gathering \in BOOLEAN
           /\ run.i \in Open /\ Call(run.i) \in OpenCalls /\ OpenCalls = Requested \ Results
           /\ tool \in [1..MaxCalls -> ToolStates] /\ sending \in BOOLEAN
<1>1. /\ run \in Run /\ run.i \in Nat /\ run.calls \in 0..MaxCalls
      /\ run.mode \in {"sequential", "parallel"} /\ run.gathering \in BOOLEAN
      /\ tool \in [1..MaxCalls -> ToolStates] /\ sending \in BOOLEAN
  BY RunFields DEF IInv, Typed, ToolStates
<1>2. run.i \in 1..run.calls /\ OpenCalls = Requested \ Results
  BY DEF IInv, BatchShape, CallsAnswered
<1>3. run.calls \in Nat /\ run.i \in 1..MaxCalls
  BY <1>1, <1>2, ConstantsAssumption
<1>4. run.i \in Open
  BY <1>1, <1>2, <1>3 DEF Open
<1>5. Call(run.i) \in OpenCalls
  BY <1>4 DEF Call, OpenCalls
<1> QED BY <1>1, <1>2, <1>3, <1>4, <1>5

(* A tool may be entered once its call is unconfirmed, and a call is confirmed before it is *)
(* answered.                                                                               *)
LEMMA EffectsStay ==
    ASSUME EffectsHeld, history' = history, entered' \ entered \subseteq unconfirmed',
           unconfirmed \ unconfirmed' \subseteq Requested \ Results
    PROVE  EffectsHeld'
<1>1. Results' = Results /\ Requested' = Requested
  BY SameHistory
<1> QED BY <1>1 DEF EffectsHeld, Unfinished

(* A step from one call to another, or within one. *)
LEMMA CallingMoves ==
    ASSUME IInv, Aside, run' \in Run, SameBatch, run.pc \in Calling, run'.pc \in Calling, run'.hit => run.hit,
           sending' \in BOOLEAN, tool' \in [1..MaxCalls -> ToolStates], Open' = Open,
           cancel \/ unconfirmed' \subseteq OpenCalls,
           run'.pc = "result" => run.i = run'.i /\ (cancel \/ unconfirmed' \subseteq OpenCalls \ {Call(run.i)}),
           entered' \ entered \subseteq unconfirmed', unconfirmed \ unconfirmed' \subseteq Requested \ Results,
           BatchShape', CallsHeld'
    PROVE  IInv'
<1>1. Results' = Results /\ Requested' = Requested
  BY SameHistory DEF Aside
<1>2. OpenCalls' = OpenCalls /\ (run'.pc = "result" => Call(run.i)' = Call(run.i))
  BY DEF OpenCalls, Call, SameBatch
<1>3. CallsAnswered'
  <2>1. \A c \in Results' : c[1] <= run'.replies
    BY <1>1 DEF IInv, CallsAnswered, SameBatch
  <2>2. (Requested \ Results)' = OpenCalls'
    BY <1>1, <1>2 DEF IInv, CallsAnswered
  <2>3. cancel' \/ unconfirmed' \subseteq OpenCalls' \ (IF run'.pc = "result" THEN {Call(run.i)'} ELSE {})
    BY <1>2 DEF Aside
  <2> QED BY <2>1, <2>2, <2>3 DEF CallsAnswered, Asking, Calling
<1>4. EffectsHeld'
  BY EffectsStay DEF IInv, Aside
<1>5. run.pc \notin Asking \cup Ending /\ run'.pc \notin Asking \cup Ending
  BY DEF Asking, Ending, Calling
<1> QED BY <1>3, <1>4, <1>5, LoopMoves DEF Aside, SameBatch, ToolStates

(* What a call that nobody concluded yet is held by. *)
LEMMA Unconcluded ==
    ASSUME IInv, run.pc \in Calling \ {"result"}
    PROVE  cancel \/ unconfirmed \subseteq OpenCalls
BY DEF IInv, CallsAnswered

(* A step that neither starts nor concludes a call, and stops no tool. *)
LEMMA CallsStayHeld ==
    ASSUME IInv, SameBatch, run.pc \in Calling, tool' = tool, unconfirmed' = unconfirmed, cancel' = cancel,
           Started' = Started
    PROVE  CallsHeld'
<1>1. \A j : Call(j)' = Call(j)
  BY DEF Call, SameBatch
<1>2. run.pc # "reap"
  BY DEF Calling
<1> QED BY <1>1, <1>2 DEF IInv, CallsHeld

(* ToolExecutionStartEvent: from here on the call is unconfirmed. *)
LEMMA ToolStartKeeps ==
    ASSUME IInv, ToolStart
    PROVE  IInv'
<1>0. /\ run.pc = "tool" /\ run.pc \in Calling \ {"result"} /\ unconfirmed' = unconfirmed \cup {Call(run.i)}
      /\ To("gate") /\ Send /\ Aside /\ UNCHANGED <<tool, entered>>
  BY DEF ToolStart, At, Aside, log, inputs, stops, Calling
<1>1. /\ run \in Run /\ run.i \in Nat /\ run.calls \in Nat /\ run.i \in 1..run.calls
      /\ run.mode \in {"sequential", "parallel"} /\ Call(run.i) \in OpenCalls /\ tool \in [1..MaxCalls -> ToolStates]
  BY <1>0, BatchFacts
<1>2. ~run.gathering
  BY <1>0, RunFields DEF IInv, Typed, BatchShape
<1>3. /\ run' \in Run /\ SameBatch /\ run'.pc = "gate" /\ run'.hit = run.hit /\ run'.i = run.i
      /\ run'.gathering = run.gathering
  BY <1>0, <1>1, ToMoves DEF SameBatch, Calling
<1>4. BatchShape'
  BY <1>1, <1>2, <1>3 DEF BatchShape, SameBatch, Calling
<1>5. CallsHeld'
  <2>1. \A j \in Started' : j = run.i \/ j \in Started
    BY <1>0, <1>1, <1>2, <1>3 DEF Started, SameBatch
  <2>2. \A j : Call(j)' = Call(j)
    BY <1>3 DEF Call, SameBatch
  <2> QED BY <1>0, <1>3, <2>1, <2>2 DEF IInv, CallsHeld, Aside
<1>6. Open' = Open
  BY <1>0, <1>3 DEF Open, SameBatch
<1>7. cancel \/ unconfirmed' \subseteq OpenCalls
  BY <1>0, <1>1, Unconcluded
<1>8. run'.pc \in Calling /\ run'.pc # "result"
  BY <1>3 DEF Calling
<1>9. sending' \in BOOLEAN
  BY <1>0, SendTypes
<1>10. tool' \in [1..MaxCalls -> ToolStates] /\ entered' \ entered \subseteq unconfirmed'
       /\ unconfirmed \ unconfirmed' \subseteq Requested \ Results
  BY <1>0, <1>1
<1> QED BY <1>0, <1>3, <1>4, <1>5, <1>6, <1>7, <1>8, <1>9, <1>10, CallingMoves

(* Where the producer goes when a call is prepared. *)
LEMMA AfterPreparingMoves ==
    ASSUME run \in Run, run' = AfterPreparing, run.i \in 1..run.calls, run.pc \in {"gate", "before"}, ~run.gathering
    PROVE  /\ run' \in Run /\ SameBatch /\ ~run'.hit
           /\ \/ run.mode = "sequential" /\ run'.pc = "ready" /\ run'.i = run.i /\ ~run'.gathering
              \/ /\ run.mode = "parallel" /\ run'.pc = "tool" /\ run'.i = run.i + 1 /\ run.i < run.calls
                 /\ ~run'.gathering
              \/ run.mode = "parallel" /\ run'.pc = "collect" /\ run'.i = 1 /\ run.i = run.calls /\ run'.gathering
<1>0. run.i \in Nat /\ run.calls \in Nat /\ run.mode \in {"sequential", "parallel"}
  BY RunFields, ConstantsAssumption
<1>1. CASE run.mode = "sequential"
  <2>1. run' = [run EXCEPT !.pc = "ready", !.hit = FALSE]
    BY <1>1 DEF AfterPreparing
  <2>2. run' \in Run
    <3>1. "ready" \in Calling
      BY DEF Calling
    <3> QED BY ONLY run \in Run, <2>1, <3>1 DEF Run
  <2>3. run'.hit = FALSE /\ run'.pc = "ready" /\ run'.i = run.i /\ run'.gathering = run.gathering /\ SameBatch
    BY <2>1 DEF Run, SameBatch
  <2> QED BY <1>1, <2>2, <2>3
<1>2. CASE run.mode = "parallel" /\ run.i < run.calls
  <2>1. run' = [run EXCEPT !.pc = "tool", !.i = run.i + 1, !.hit = FALSE]
    BY <1>2 DEF AfterPreparing
  <2>2. run' \in Run
    <3>1. run.i + 1 \in Nat /\ "tool" \in Calling
      BY <1>0 DEF Calling
    <3> QED BY ONLY run \in Run, <2>1, <3>1 DEF Run
  <2>3. run'.hit = FALSE /\ run'.pc = "tool" /\ run'.i = run.i + 1 /\ run'.gathering = run.gathering /\ SameBatch
    BY <2>1 DEF Run, SameBatch
  <2> QED BY <1>2, <2>2, <2>3
<1>3. CASE run.mode = "parallel" /\ ~(run.i < run.calls)
  <2>1. run' = [run EXCEPT !.pc = "collect", !.i = 1, !.gathering = TRUE, !.hit = FALSE]
    BY <1>3 DEF AfterPreparing
  <2>2. run.i = run.calls
    BY <1>0, <1>3
  <2>3. run' \in Run
    <3>1. 1 \in Nat /\ "collect" \in Calling
      BY DEF Calling
    <3> QED BY ONLY run \in Run, <2>1, <3>1 DEF Run
  <2>4. run'.hit = FALSE /\ run'.pc = "collect" /\ run'.i = 1 /\ run'.gathering = TRUE
    BY <2>1 DEF Run
  <2>5. SameBatch
    BY <2>1 DEF Run, SameBatch
  <2> QED BY <1>3, <2>2, <2>3, <2>4, <2>5
<1> QED BY <1>0, <1>1, <1>2, <1>3

(* A call is prepared, or answered without its tool. *)
LEMMA PreparingKeeps ==
    ASSUME IInv, run.pc \in {"gate", "before"}, NEW status \in {"ready", "denied"}, Note(run.i, status),
           run' = AfterPreparing, UNCHANGED <<log, inputs, unconfirmed, entered, wire, stops>>
    PROVE  IInv'
<1>0. run.pc \in Calling \ {"result"} /\ Aside /\ UNCHANGED <<unconfirmed, entered, sending>>
  BY DEF Calling, Aside, log, inputs, wire, stops
<1>1. /\ run \in Run /\ run.i \in Nat /\ run.calls \in Nat /\ run.i \in 1..run.calls /\ run.i \in 1..MaxCalls
      /\ tool \in [1..MaxCalls -> ToolStates] /\ sending \in BOOLEAN
  BY <1>0, BatchFacts
<1>2. ~run.gathering
  BY RunFields DEF IInv, Typed, BatchShape
<1>3. /\ run' \in Run /\ SameBatch /\ ~run'.hit
      /\ \/ run.mode = "sequential" /\ run'.pc = "ready" /\ run'.i = run.i /\ ~run'.gathering
         \/ /\ run.mode = "parallel" /\ run'.pc = "tool" /\ run'.i = run.i + 1 /\ run.i < run.calls
            /\ ~run'.gathering
         \/ run.mode = "parallel" /\ run'.pc = "collect" /\ run'.i = 1 /\ run.i = run.calls /\ run'.gathering
  BY <1>1, <1>2, AfterPreparingMoves
<1>4. /\ tool' \in [1..MaxCalls -> ToolStates] /\ tool'[run.i] = status
      /\ \A j \in 1..MaxCalls : j # run.i => tool'[j] = tool[j]
  BY <1>1 DEF Note, ToolStates
<1>5. Started' = Started /\ Open' = Open /\ run.i \in Started
  <2>1. CASE run.mode = "sequential" /\ run'.pc = "ready" /\ run'.i = run.i /\ ~run'.gathering
    BY <1>2, <1>3, <2>1 DEF Started, Open, SameBatch
  <2>2. CASE /\ run.mode = "parallel" /\ run'.pc = "tool" /\ run'.i = run.i + 1 /\ run.i < run.calls
             /\ ~run'.gathering
    <3>1. (run.i + 1) - 1 = run.i /\ run.i \in 1..run.i
      BY <1>1
    <3> QED BY <1>2, <1>3, <2>2, <3>1 DEF Started, Open, SameBatch
  <2>3. CASE run.mode = "parallel" /\ run'.pc = "collect" /\ run'.i = 1 /\ run.i = run.calls /\ run'.gathering
    <3>1. Started = 1..run.calls /\ Open = 1..run.calls /\ run.calls \in 1..run.calls
      BY <1>1, <1>2, <2>3 DEF Started, Open
    <3>2. Started' = 1..run.calls /\ Open' = 1..run.calls
      BY <1>3, <2>3 DEF Started, Open, SameBatch
    <3> QED BY <2>3, <3>1, <3>2
  <2> QED BY <1>3, <2>1, <2>2, <2>3
<1>6. BatchShape'
  BY <1>1, <1>3 DEF BatchShape, SameBatch, Calling
<1>7. CallsHeld'
  <2>1. \A j : Call(j)' = Call(j)
    BY <1>3 DEF Call, SameBatch
  <2>2. Call(run.i) \in unconfirmed
    BY <1>0, <1>5 DEF IInv, CallsHeld
  <2>3. ASSUME NEW j \in 1..MaxCalls, tool'[j] \in {"ready", "running", "interrupted"} PROVE Call(j)' \in unconfirmed'
    BY <1>0, <1>4, <2>1, <2>2, <2>3 DEF IInv, CallsHeld
  <2>4. \A j \in Started' : Call(j)' \in unconfirmed'
    BY <1>0, <1>5, <2>1 DEF IInv, CallsHeld
  <2>5. ASSUME NEW j \in 1..MaxCalls, tool'[j] = "interrupted" PROVE cancel'
    <3>1. tool[j] = "interrupted"
      BY <1>4, <2>5
    <3> QED BY <1>0, <3>1 DEF IInv, CallsHeld, Aside
  <2> QED BY <2>3, <2>4, <2>5 DEF CallsHeld
<1>8. cancel \/ unconfirmed' \subseteq OpenCalls
  BY <1>0, Unconcluded
<1>9. run'.pc \in Calling /\ run'.pc # "result"
  BY <1>3 DEF Calling
<1> QED BY <1>0, <1>1, <1>3, <1>4, <1>5, <1>6, <1>7, <1>8, <1>9, CallingMoves

(* After an abort a call is answered without being prepared. *)
LEMMA GateKeeps ==
    ASSUME IInv, Gate
    PROVE  IInv'
<1>0. run.pc = "gate" /\ UNCHANGED <<log, inputs, unconfirmed, entered, wire, stops>>
  BY DEF Gate, At
<1>1. CASE Note(run.i, "denied") /\ run' = AfterPreparing
  BY <1>0, <1>1, PreparingKeeps
<1>2. CASE To("before") /\ UNCHANGED tool
  <2>0. run.pc \in Calling \ {"result"} /\ Aside /\ UNCHANGED <<unconfirmed, entered, sending>>
    BY <1>0 DEF Calling, Aside, log, inputs, wire, stops
  <2>1. /\ run \in Run /\ run.i \in 1..run.calls /\ tool \in [1..MaxCalls -> ToolStates] /\ sending \in BOOLEAN
    BY <2>0, BatchFacts
  <2>2. ~run.gathering
    BY <1>0, RunFields DEF IInv, Typed, BatchShape
  <2>3. /\ run' \in Run /\ SameBatch /\ run'.pc = "before" /\ run'.hit = run.hit /\ run'.i = run.i
        /\ run'.gathering = run.gathering
    BY <1>2, <2>1, ToMoves DEF SameBatch, Calling
  <2>4. BatchShape'
    BY <2>1, <2>2, <2>3 DEF BatchShape, SameBatch, Calling
  <2>5. Started' = Started /\ Open' = Open
    BY <1>0, <2>3 DEF Started, Open, SameBatch
  <2>6. CallsHeld'
    BY <1>2, <2>0, <2>3, <2>5, CallsStayHeld DEF Aside
  <2>7. cancel \/ unconfirmed' \subseteq OpenCalls
    BY <2>0, Unconcluded
  <2>8. run'.pc \in Calling /\ run'.pc # "result"
    BY <2>3 DEF Calling
  <2> QED BY <1>2, <2>0, <2>1, <2>3, <2>4, <2>5, <2>6, <2>7, <2>8, CallingMoves
<1> QED BY <1>1, <1>2 DEF Gate

(* _prepare_tool_call. *)
LEMMA BeforeKeeps ==
    ASSUME IInv, NEW status \in {"ready", "denied"}, Before(status)
    PROVE  IInv'
<1>1. run.pc = "before" /\ Note(run.i, status) /\ run' = AfterPreparing
      /\ UNCHANGED <<log, inputs, unconfirmed, entered, wire, stops>>
  BY DEF Before, At
<1> QED BY <1>1, PreparingKeeps

(* The tool of the current call moves, and the producer with it. *)
LEMMA ToolMoves ==
    ASSUME IInv, run.pc \in {"ready", "execute", "collect", "after"}, run'.pc \in {"execute", "after", "outcome"},
           run' \in Run, SameBatch, run'.i = run.i, run'.gathering = run.gathering, run'.hit => run.hit,
           Aside, unconfirmed' = unconfirmed, sending' = sending,
           NEW status \in ToolStates, tool' = [tool EXCEPT ![run.i] = status],
           entered' \ entered \subseteq {Call(run.i)}, status = "interrupted" => cancel \/ tool[run.i] = "interrupted",
           run'.pc = "execute" => run.pc = "ready",
           run'.pc # "execute" => status \notin {"ready", "running"}
    PROVE  IInv'
<1>0. run.pc \in Calling \ {"result"}
  BY DEF Calling
<1>1. /\ run \in Run /\ run.i \in Nat /\ run.calls \in Nat /\ run.i \in 1..run.calls /\ run.i \in 1..MaxCalls
      /\ run.mode \in {"sequential", "parallel"} /\ run.gathering \in BOOLEAN
      /\ tool \in [1..MaxCalls -> ToolStates] /\ sending \in BOOLEAN
  BY <1>0, BatchFacts
<1>2. /\ tool' \in [1..MaxCalls -> ToolStates] /\ tool'[run.i] = status
      /\ \A j \in 1..MaxCalls : j # run.i => tool'[j] = tool[j]
  BY <1>1
<1>3. /\ run.pc = "ready" => ~run.gathering /\ run.mode = "sequential"
      /\ run.gathering \/ run.mode = "sequential"
  BY <1>1 DEF IInv, BatchShape
<1>4. BatchShape'
  BY <1>1, <1>2, <1>3 DEF BatchShape, SameBatch, Calling
<1>5. Started' = Started /\ Open' = Open
  BY DEF Started, Open, SameBatch
<1>6. run.i \in Started
  BY <1>1, <1>3 DEF Started
<1>7. \A j : Call(j)' = Call(j)
  BY DEF Call, SameBatch
<1>8. Call(run.i) \in unconfirmed
  BY <1>0, <1>6 DEF IInv, CallsHeld
<1>9. CallsHeld'
  <2>1. ASSUME NEW j \in 1..MaxCalls, tool'[j] \in {"ready", "running", "interrupted"} PROVE Call(j)' \in unconfirmed'
    BY <1>2, <1>7, <1>8, <2>1 DEF IInv, CallsHeld
  <2>2. \A j \in Started' : Call(j)' \in unconfirmed'
    BY <1>0, <1>5, <1>7 DEF IInv, CallsHeld
  <2>3. ASSUME NEW j \in 1..MaxCalls, tool'[j] = "interrupted" PROVE cancel'
    <3>1. cancel \/ tool[j] = "interrupted"
      BY <1>2, <2>3
    <3> QED BY <1>0, <3>1 DEF IInv, CallsHeld, Aside
  <2> QED BY <2>1, <2>2, <2>3 DEF CallsHeld
<1>10. cancel \/ unconfirmed' \subseteq OpenCalls
  BY <1>0, Unconcluded
<1>11. run'.pc \in Calling /\ run'.pc # "result"
  BY DEF Calling
<1>12. entered' \ entered \subseteq unconfirmed' /\ unconfirmed \ unconfirmed' \subseteq Requested \ Results
  BY <1>8
<1> QED BY <1>0, <1>1, <1>2, <1>4, <1>5, <1>9, <1>10, <1>11, <1>12, CallingMoves

(* A tool that stays as it is. *)
LEMMA SameTool ==
    ASSUME IInv, run.pc \in Calling, tool' = tool
    PROVE  tool[run.i] \in ToolStates /\ tool' = [tool EXCEPT ![run.i] = tool[run.i]]
<1>1. run.i \in 1..MaxCalls /\ tool \in [1..MaxCalls -> ToolStates]
  BY BatchFacts
<1> QED BY <1>1

(* Sequential: the guard refuses the call, or its tool is entered. *)
LEMMA ReadyKeeps ==
    ASSUME IInv, Ready
    PROVE  IInv'
<1>0. /\ run.pc = "ready" /\ run.pc \in Calling /\ Aside /\ UNCHANGED <<unconfirmed, sending>>
  BY DEF Ready, At, Calling, Aside, log, inputs, wire, stops
<1>1. run \in Run
  BY DEF IInv, Typed
<1>2. ASSUME NEW pc \in {"execute", "after", "outcome"}, To(pc)
      PROVE  /\ run' \in Run /\ SameBatch /\ run'.i = run.i /\ run'.gathering = run.gathering
             /\ run'.hit = run.hit /\ run'.pc = pc
  BY <1>1, <1>2, ToMoves DEF SameBatch, Calling
<1>3. CASE Enter(run.i, "running") /\ To("execute")
  <2>1. tool' = [tool EXCEPT ![run.i] = "running"] /\ entered' = entered \cup {Call(run.i)} /\ "running" \in ToolStates
    BY <1>3 DEF Enter, Note, ToolStates
  <2> QED BY <1>0, <1>2, <1>3, <2>1, ToolMoves
<1>4. CASE Enter(run.i, "done") /\ To("after")
  <2>1. tool' = [tool EXCEPT ![run.i] = "done"] /\ entered' = entered /\ "done" \in ToolStates
    BY <1>4 DEF Enter, Note, ToolStates
  <2> QED BY <1>0, <1>2, <1>4, <2>1, ToolMoves
<1>5. CASE tool[run.i] = "denied" /\ To("outcome") /\ UNCHANGED <<tool, entered>>
  <2>1. tool[run.i] \in ToolStates /\ tool' = [tool EXCEPT ![run.i] = tool[run.i]]
    BY <1>0, <1>5, SameTool
  <2> QED BY <1>0, <1>2, <1>5, <2>1, ToolMoves
<1> QED BY <1>3, <1>4, <1>5 DEF Ready

(* The tool finishes, or reports that it was told to stop. *)
LEMMA ExecuteKeeps ==
    ASSUME IInv, Execute
    PROVE  IInv'
<1>0. /\ run.pc = "execute" /\ To("after") /\ Ends(run.i, cancel) /\ Aside /\ UNCHANGED <<unconfirmed, sending, entered>>
  BY DEF Execute, At, Aside, log, inputs, wire, stops
<1>1. PICK status \in {"done", "interrupted"} :
        tool' = [tool EXCEPT ![run.i] = status] /\ (status = "interrupted" => cancel)
  BY <1>0 DEF Ends, Note
<1>2. run \in Run
  BY DEF IInv, Typed
<1>3. /\ run' \in Run /\ SameBatch /\ run'.i = run.i /\ run'.gathering = run.gathering
      /\ run'.hit = run.hit /\ run'.pc = "after"
  BY <1>0, <1>2, ToMoves DEF SameBatch, Calling
<1>4. status \in ToolStates /\ status \notin {"ready", "running"}
  BY DEF ToolStates
<1> QED BY <1>0, <1>1, <1>3, <1>4, ToolMoves

(* Parallel: the next result in the order of the reply is there. *)
LEMMA CollectKeeps ==
    ASSUME IInv, Collect
    PROVE  IInv'
<1>0. /\ run.pc = "collect" /\ run.pc \in Calling /\ Aside /\ UNCHANGED <<unconfirmed, sending, entered, tool>>
      /\ tool[run.i] \notin {"ready", "running"}
  BY DEF Collect, At, Yielded, Calling, Aside, log, inputs, tools, wire, stops
<1>1. PICK pc \in {"outcome", "after"} : To(pc)
  BY DEF Collect
<1>2. run \in Run
  BY DEF IInv, Typed
<1>3. /\ run' \in Run /\ SameBatch /\ run'.i = run.i /\ run'.gathering = run.gathering
      /\ run'.hit = run.hit /\ run'.pc = pc
  BY <1>1, <1>2, ToMoves DEF SameBatch, Calling
<1>4. tool[run.i] \in ToolStates /\ tool' = [tool EXCEPT ![run.i] = tool[run.i]]
  BY <1>0, SameTool
<1> QED BY <1>0, <1>1, <1>3, <1>4, ToolMoves

(* after_tool_call returns, or fails. *)
LEMMA AfterKeeps ==
    ASSUME IInv, After
    PROVE  IInv'
<1>1. CASE Unwind("failed")
  BY <1>1, UnwindKeeps
<1>2. CASE To("outcome") /\ UNCHANGED <<log, inputs, tools, wire, stops, callers>>
  <2>0. /\ run.pc = "after" /\ run.pc \in Calling /\ Aside /\ UNCHANGED <<unconfirmed, sending, entered, tool>>
    BY <1>2 DEF After, At, Calling, Aside, log, inputs, tools, wire, stops
  <2>1. tool[run.i] \notin {"ready", "running"} /\ run \in Run
    BY <2>0 DEF IInv, Typed, BatchShape
  <2>2. /\ run' \in Run /\ SameBatch /\ run'.i = run.i /\ run'.gathering = run.gathering
        /\ run'.hit = run.hit /\ run'.pc = "outcome"
    BY <1>2, <2>1, ToMoves DEF SameBatch, Calling
  <2>3. tool[run.i] \in ToolStates /\ tool' = [tool EXCEPT ![run.i] = tool[run.i]]
    BY <2>0, SameTool
  <2> QED BY <2>0, <2>1, <2>2, <2>3, ToolMoves
<1> QED BY <1>1, <1>2 DEF After

(* ToolExecutionEndEvent: the call is confirmed unless its tool was interrupted. *)
LEMMA OutcomeKeeps ==
    ASSUME IInv, Outcome
    PROVE  IInv'
<1>0. /\ run.pc = "outcome" /\ run.pc \in Calling \ {"result"} /\ unconfirmed' = Confirmed(run.i) /\ To("result") /\ Send
      /\ Aside /\ UNCHANGED <<entered, tool>>
  BY DEF Outcome, At, Calling, Aside, log, inputs, stops
<1>1. /\ run \in Run /\ run.i \in Nat /\ run.calls \in Nat /\ run.i \in 1..run.calls /\ run.i \in 1..MaxCalls
      /\ run.gathering \in BOOLEAN /\ run.mode \in {"sequential", "parallel"}
      /\ Call(run.i) \in OpenCalls /\ OpenCalls = Requested \ Results /\ tool \in [1..MaxCalls -> ToolStates]
  BY <1>0, BatchFacts
<1>2. /\ run' \in Run /\ SameBatch /\ run'.i = run.i /\ run'.gathering = run.gathering
      /\ run'.hit = run.hit /\ run'.pc = "result"
  BY <1>0, <1>1, ToMoves DEF SameBatch, Calling
<1>3. (run.gathering \/ run.mode = "sequential") /\ tool[run.i] \notin {"ready", "running"}
  BY <1>0 DEF IInv, BatchShape
<1>4. BatchShape'
  BY <1>0, <1>1, <1>2, <1>3 DEF BatchShape, SameBatch, Calling
<1>5. \A j : Call(j)' = Call(j)
  BY <1>2 DEF Call, SameBatch
<1>6. \A j : j # run.i => Call(j) # Call(run.i)
  BY DEF Call
<1>7. \A j : j # run.i /\ Call(j) \in unconfirmed => Call(j) \in unconfirmed'
  BY <1>0, <1>6 DEF Confirmed
<1>8. Started' \subseteq Started /\ run.i \notin Started'
  <2>1. CASE run.gathering
    <3>1. Started' = (run.i + 1)..run.calls /\ Started = run.i..run.calls
      BY <1>0, <1>2, <2>1 DEF Started, SameBatch
    <3> QED BY <1>1, <3>1
  <2>2. CASE ~run.gathering
    BY <1>2, <1>3, <2>2 DEF Started, SameBatch
  <2> QED BY <1>1, <2>1, <2>2
<1>9. CallsHeld'
  <2>1. ASSUME NEW j \in 1..MaxCalls, tool[j] \in {"ready", "running", "interrupted"} PROVE Call(j)' \in unconfirmed'
    <3>1. Call(j) \in unconfirmed
      BY <2>1 DEF IInv, CallsHeld
    <3>2. CASE j = run.i
      BY <1>0, <1>3, <1>5, <2>1, <3>1, <3>2 DEF Confirmed
    <3>3. CASE j # run.i
      BY <1>5, <1>7, <3>1, <3>3
    <3> QED BY <3>2, <3>3
  <2>2. \A j \in Started' : Call(j)' \in unconfirmed'
    BY <1>0, <1>5, <1>7, <1>8 DEF IInv, CallsHeld
  <2>3. ASSUME NEW j \in 1..MaxCalls, tool[j] = "interrupted" PROVE cancel'
    BY <1>0, <2>3 DEF IInv, CallsHeld, Aside
  <2> QED BY <1>0, <2>1, <2>2, <2>3 DEF CallsHeld
<1>10. cancel \/ unconfirmed' \subseteq OpenCalls \ {Call(run.i)}
  <2>1. cancel \/ tool[run.i] # "interrupted"
    BY <1>0, <1>1 DEF IInv, CallsHeld
  <2>2. cancel \/ unconfirmed \subseteq OpenCalls
    BY <1>0, Unconcluded
  <2> QED BY <1>0, <2>1, <2>2 DEF Confirmed
<1>11. Open' = Open /\ run'.pc \in Calling
  BY <1>0, <1>2 DEF Open, SameBatch, Calling
<1>12. unconfirmed \ unconfirmed' \subseteq Requested \ Results /\ entered' \ entered \subseteq unconfirmed'
  BY <1>0, <1>1 DEF Confirmed
<1>13. sending' \in BOOLEAN
  BY <1>0, SendTypes
<1> QED BY <1>0, <1>1, <1>2, <1>4, <1>9, <1>10, <1>11, <1>12, <1>13, CallingMoves

(* Where the producer goes when a call is answered. *)
LEMMA ToolResultMoves ==
    ASSUME IInv, ToolResult
    PROVE  /\ run' \in Run /\ SameBatch /\ run'.hit = run.hit /\ run'.gathering = run.gathering /\ run'.error = run.error
           /\ \/ run.i = run.calls /\ run'.pc = "turn"
              \/ run.i < run.calls /\ run.gathering /\ run'.pc = "collect" /\ run'.i = run.i + 1
              \/ run.i < run.calls /\ ~run.gathering /\ run'.pc = "tool" /\ run'.i = run.i + 1
<1>0. run.pc = "result" /\ run.pc \in Calling
  BY DEF ToolResult, At, Calling
<1>1. run \in Run /\ run.i \in Nat /\ run.calls \in Nat /\ run.i \in 1..run.calls /\ run.gathering \in BOOLEAN
  BY <1>0, BatchFacts
<1>2. CASE run.i = run.calls
  <2>1. run' = [run EXCEPT !.pc = "turn"]
    BY <1>2 DEF ToolResult
  <2> QED BY <1>1, <1>2, <2>1 DEF Run, SameBatch
<1>3. CASE run.i # run.calls
  <2> DEFINE pc == IF run.gathering THEN "collect" ELSE "tool"
  <2>1. run' = [run EXCEPT !.pc = pc, !.i = run.i + 1]
    BY <1>3 DEF ToolResult
  <2>2. pc \in Calling /\ (run.gathering => pc = "collect") /\ (~run.gathering => pc = "tool")
    BY DEF Calling
  <2>3. run.i + 1 \in Nat /\ run.i < run.calls
    BY <1>1, <1>3
  <2> HIDE DEF pc
  <2>4. /\ run' \in Run /\ SameBatch /\ run'.hit = run.hit /\ run'.gathering = run.gathering
        /\ run'.pc = pc /\ run'.i = run.i + 1 /\ run'.error = run.error
    BY <1>1, <2>1, <2>2, <2>3 DEF Run, SameBatch
  <2> QED BY <1>1, <2>2, <2>3, <2>4
<1> QED BY <1>2, <1>3

(* The result message: the call is answered, with what its tool did or without. *)
LEMMA ToolResultKeeps ==
    ASSUME IInv, ToolResult
    PROVE  IInv'
<1> DEFINE sure == tool[run.i] # "interrupted"
           msg == Result(Call(run.i), sure)
<1>0. /\ run.pc = "result" /\ run.pc \in Calling /\ Send
      /\ history' = Append(history, msg) /\ context' = Append(context, msg)
      /\ UNCHANGED <<queue, ident, held, hook, unconfirmed, tool, entered, cancel, posted, aborted>>
  BY DEF ToolResult, At, Calling, inputs, tools, stops
<1>1. /\ run \in Run /\ run.i \in Nat /\ run.calls \in Nat /\ run.i \in 1..run.calls /\ run.i \in 1..MaxCalls
      /\ run.gathering \in BOOLEAN /\ run.mode \in {"sequential", "parallel"}
      /\ Call(run.i) \in OpenCalls /\ OpenCalls = Requested \ Results /\ tool \in [1..MaxCalls -> ToolStates]
  BY <1>0, BatchFacts
<1>2. run.replies \in Nat /\ history \in Seq(Message) /\ context = history
  BY <1>0, RunFields DEF IInv, Typed, CopyAgrees
<1>3. /\ msg \in Message /\ msg.kind = "result" /\ msg.input = NoInput
      /\ <<msg.reply, msg.index>> = Call(run.i)
  <2>1. sure \in BOOLEAN
    OBVIOUS
  <2> HIDE DEF sure
  <2> QED BY <1>1, <1>2, <2>1, MessageTypes, MessageFields DEF Call
<1>4. sure => msg = Result(Call(run.i), TRUE)
  OBVIOUS
<1>5. ~sure => tool[run.i] = "interrupted"
  OBVIOUS
<1> HIDE DEF sure, msg
<1>6. /\ history' \in Seq(Message) /\ Results' = Results \cup {Call(run.i)} /\ Requested' = Requested
      /\ \A k \in DOMAIN history : k \in DOMAIN history' /\ history'[k] = history[k]
      /\ \E k \in DOMAIN history' : history'[k] = msg
  BY <1>0, <1>2, <1>3, HistoryGrows
<1>7. /\ run' \in Run /\ SameBatch /\ run'.hit = run.hit /\ run'.gathering = run.gathering /\ run'.error = run.error
      /\ \/ run.i = run.calls /\ run'.pc = "turn"
         \/ run.i < run.calls /\ run.gathering /\ run'.pc = "collect" /\ run'.i = run.i + 1
         \/ run.i < run.calls /\ ~run.gathering /\ run'.pc = "tool" /\ run'.i = run.i + 1
  BY ToolResultMoves
<1>8. run.gathering \/ run.mode = "sequential"
  BY <1>0 DEF IInv, BatchShape
<1>9. run'.pc \in {"turn", "collect", "tool"}
  BY <1>7
<1>10. Typed'
  <2>1. context' = history' /\ sending' \in BOOLEAN
    BY <1>0, <1>2, SendTypes
  <2> QED BY <1>0, <1>6, <1>7, <2>1 DEF IInv, Typed
<1>11. StopsAsked'
  BY <1>0, <1>7 DEF IInv, StopsAsked, SameBatch
<1>12. BatchShape'
  BY <1>1, <1>7 DEF BatchShape, SameBatch, Calling
<1>13. \A j : Call(j)' = Call(j)
  BY <1>7 DEF Call, SameBatch
<1>14. CallsHeld'
  <2>1. run'.pc \in Calling => Started' \subseteq Started
    BY <1>0, <1>1, <1>7, <1>8 DEF Started, SameBatch, Calling
  <2>2. run'.pc \in Calling => \A j \in Started' : Call(j)' \in unconfirmed'
    BY <1>0, <1>13, <2>1 DEF IInv, CallsHeld
  <2>3. \A j \in 1..MaxCalls : tool'[j] \in {"ready", "running", "interrupted"} => Call(j)' \in unconfirmed'
    BY <1>0, <1>13 DEF IInv, CallsHeld
  <2>4. (\E j \in 1..MaxCalls : tool'[j] = "interrupted") => cancel'
    BY <1>0 DEF IInv, CallsHeld
  <2> QED BY <2>2, <2>3, <2>4 DEF CallsHeld
<1>15. CallsAnswered'
  <2>0. OpenCalls = {run.replies} \X (run.i..run.calls)
    BY <1>0, <1>1, <1>8 DEF OpenCalls, Open
  <2>1. \A c \in Results' : c[1] <= run'.replies
    <3>1. Call(run.i)[1] <= run.replies
      BY <1>2 DEF Call
    <3> QED BY <1>6, <1>7, <3>1 DEF IInv, CallsAnswered, SameBatch
  <2>2. (Requested \ Results)' = {run.replies} \X ((run.i + 1)..run.calls)
    <3>1. (Requested \ Results)' = OpenCalls \ {Call(run.i)}
      BY <1>1, <1>6
    <3> QED BY <1>1, <2>0, <3>1 DEF Call
  <2>3. cancel \/ unconfirmed \subseteq OpenCalls \ {Call(run.i)}
    BY <1>0 DEF IInv, CallsAnswered
  <2>4. OpenCalls \ {Call(run.i)} = {run.replies} \X ((run.i + 1)..run.calls)
    BY <1>1, <2>0 DEF Call
  <2>5. CASE run'.pc = "turn"
    <3>1. (run.i + 1)..run.calls = {}
      BY <1>1, <1>7, <2>5
    <3>2. {run.replies} \X ((run.i + 1)..run.calls) = {}
      BY <3>1
    <3> QED BY <1>0, <2>1, <2>2, <2>3, <2>4, <2>5, <3>2 DEF CallsAnswered, Asking, Calling
  <2>6. CASE run'.pc \in {"collect", "tool"}
    <3>1. Open' = (run.i + 1)..run.calls
      BY <1>7, <1>8, <2>6 DEF Open, SameBatch
    <3>2. OpenCalls' = {run.replies} \X ((run.i + 1)..run.calls)
      BY <1>7, <3>1 DEF OpenCalls, SameBatch
    <3> QED BY <1>0, <2>1, <2>2, <2>3, <2>4, <2>6, <3>2 DEF CallsAnswered, Asking, Calling
  <2> QED BY <1>9, <2>5, <2>6
<1>16. EffectsHeld'
  <2>1. ASSUME NEW c \in entered
        PROVE  c \in Unfinished' \/ \E k \in DOMAIN history' : history'[k] = Result(c, TRUE)
    <3>1. CASE c = Call(run.i)
      <4>1. CASE sure
        BY <1>4, <1>6, <3>1, <4>1
      <4>2. CASE ~sure
        BY <1>0, <1>1, <1>5, <3>1, <4>2 DEF IInv, CallsHeld, Unfinished
      <4> QED BY <4>1, <4>2
    <3>2. CASE c # Call(run.i)
      BY <1>0, <1>6, <3>2 DEF IInv, EffectsHeld, Unfinished
    <3> QED BY <3>1, <3>2
  <2> QED BY <1>0, <2>1 DEF EffectsHeld
<1>17. CopyAgrees'
  BY <1>0, <1>2, <1>9 DEF CopyAgrees, Asking, Calling
<1>18. InputsHeld'
  <2>1. Loaded' = Loaded /\ run.pc # "reject" /\ run'.todo = run.todo
    BY <1>0, <1>7, <1>9 DEF Loaded, SameBatch
  <2> QED BY <1>0, <1>3, <2>1, InputsReplied
<1> QED BY <1>10, <1>11, <1>12, <1>14, <1>15, <1>16, <1>17, <1>18 DEF IInv

(* A task of a parallel batch, while the producer is suspended. *)
LEMMA TaskKeeps ==
    ASSUME IInv, NEW i \in 1..MaxCalls, Task(i)
    PROVE  IInv'
<1>0. /\ run' = run /\ run.gathering /\ Aside /\ UNCHANGED <<unconfirmed, sending>>
  BY DEF Task, Aside, log, inputs, wire, stops
<1>1. PICK status \in {"running", "done", "interrupted"} :
        /\ tool' = [tool EXCEPT ![i] = status] /\ tool[i] \in {"ready", "running"}
        /\ status = "interrupted" => cancel \/ run.pc = "reap"
        /\ entered' = entered \/ entered' = entered \cup {Call(i)}
  <2>1. CASE run.pc # "reap" /\ \E status \in {"running", "done"} : Enter(i, status)
    <3>1. PICK status \in {"running", "done"} : Enter(i, status)
      BY <2>1
    <3> QED BY <3>1 DEF Enter, Note
  <2>2. CASE tool[i] = "ready" /\ run.pc = "reap" /\ Note(i, "done") /\ UNCHANGED entered
    BY <2>2 DEF Note
  <2>3. CASE Ends(i, cancel \/ run.pc = "reap") /\ UNCHANGED entered
    BY <2>3 DEF Ends, Note
  <2> QED BY <2>1, <2>2, <2>3 DEF Task
<1>2. tool \in [1..MaxCalls -> ToolStates] /\ run \in Run /\ run.gathering
  BY <1>0 DEF IInv, Typed, ToolStates
<1>3. /\ tool' \in [1..MaxCalls -> ToolStates] /\ tool'[i] = status /\ \A j \in 1..MaxCalls : j # i => tool'[j] = tool[j]
  BY <1>1, <1>2 DEF ToolStates
<1>4. Call(i) \in unconfirmed
  BY <1>1 DEF IInv, CallsHeld
<1>5. Typed'
  BY <1>0, <1>3 DEF IInv, Typed, Aside, ToolStates
<1>6. StopsAsked'
  BY <1>0 DEF IInv, StopsAsked, Aside
<1>7. BatchShape'
  <2>1. run.pc # "off"
    BY <1>0 DEF IInv, BatchShape
  <2>2. run.pc \in {"after", "outcome", "result"} => tool'[run.i] \notin {"ready", "running"}
    <3>1. SUFFICES ASSUME run.pc \in {"after", "outcome", "result"} PROVE tool'[run.i] \notin {"ready", "running"}
      OBVIOUS
    <3>2. tool[run.i] \notin {"ready", "running"}
      BY <3>1 DEF IInv, BatchShape
    <3>3. run.i \in 1..MaxCalls
      BY <3>1, BatchFacts DEF Calling
    <3> QED BY <1>1, <1>3, <3>2, <3>3
  <2> QED BY <1>0, <2>1, <2>2 DEF IInv, BatchShape
<1>8. CallsHeld'
  <2>0. Started' = Started /\ \A j : Call(j)' = Call(j)
    BY <1>0 DEF Started, Call
  <2>1. ASSUME NEW j \in 1..MaxCalls, tool'[j] \in {"ready", "running", "interrupted"} PROVE Call(j)' \in unconfirmed'
    BY <1>0, <1>3, <1>4, <2>0, <2>1 DEF IInv, CallsHeld
  <2>2. ASSUME NEW j \in 1..MaxCalls, tool'[j] = "interrupted" PROVE cancel' \/ run'.pc = "reap"
    BY <1>0, <1>1, <1>3, <2>2 DEF IInv, CallsHeld, Aside
  <2> QED BY <1>0, <2>0, <2>1, <2>2 DEF IInv, CallsHeld
<1>9. Results' = Results /\ Requested' = Requested /\ OpenCalls' = OpenCalls /\ Call(run.i)' = Call(run.i)
  BY <1>0, SameHistory DEF Aside, OpenCalls, Open, Call
<1>10. CallsAnswered'
  BY <1>0, <1>9 DEF IInv, CallsAnswered, Aside
<1>11. EffectsHeld'
  BY <1>0, <1>1, <1>4, EffectsStay DEF IInv, Aside
<1>12. CopyAgrees'
  BY <1>0 DEF IInv, CopyAgrees, Aside
<1>13. InputsHeld'
  <2>1. Loaded' = Loaded /\ run.pc # "reject"
    BY <1>0 DEF IInv, BatchShape, Loaded
  <2> QED BY <1>0, <2>1, InputsBystander DEF Aside
<1> QED BY <1>5, <1>6, <1>7, <1>8, <1>10, <1>11, <1>12, <1>13 DEF IInv

(* A cancellation takes effect: in a tool and its hooks it becomes an answer, elsewhere it *)
(* ends the run.                                                                           *)
LEMMA ThrowKeeps ==
    ASSUME IInv, Throw
    PROVE  IInv'
<1>0. run.hit /\ cancel /\ run \in Run
  BY DEF IInv, Typed, StopsAsked, Throw
<1>1. CASE run.pc = "transform" \/ (sending /\ run.pc = "prepare")
  <2>1. Reject("cancelled") /\ run.pc \in Asking
    BY <1>1 DEF Throw, Asking
  <2> QED BY <2>1, RejectKeeps
<1>2. CASE Unwind("cancelled")
  BY <1>2, UnwindKeeps
<1>3. CASE run.pc = "before" /\ Note(run.i, "denied") /\ run' = AfterPreparing
           /\ UNCHANGED <<log, inputs, unconfirmed, entered, wire, stops, callers>>
  BY <1>3, PreparingKeeps
<1>4. CASE /\ run.pc \in {"execute", "after"} /\ Note(run.i, "interrupted")
           /\ run' = [run EXCEPT !.pc = IF @ = "execute" THEN "after" ELSE "outcome", !.hit = FALSE]
           /\ UNCHANGED <<log, inputs, unconfirmed, entered, wire, stops, callers>>
  <2> DEFINE pc == IF run.pc = "execute" THEN "after" ELSE "outcome"
  <2>1. run' = [run EXCEPT !.pc = pc, !.hit = FALSE] /\ pc \in {"after", "outcome"}
    BY <1>0, <1>4 DEF Run
  <2> HIDE DEF pc
  <2>2. /\ run' \in Run /\ SameBatch /\ run'.i = run.i /\ run'.gathering = run.gathering
        /\ run'.hit = FALSE /\ run'.pc = pc
    BY <1>0, <2>1 DEF Run, SameBatch, Calling
  <2>3. Aside /\ UNCHANGED <<unconfirmed, sending, entered>>
    BY <1>4 DEF Aside, log, inputs, wire, stops
  <2>4. tool' = [tool EXCEPT ![run.i] = "interrupted"] /\ "interrupted" \in ToolStates
    BY <1>4 DEF Note, ToolStates
  <2> QED BY <1>0, <1>4, <2>1, <2>2, <2>3, <2>4, ToolMoves
<1>5. CASE /\ run.pc = "reap" /\ run' = [run EXCEPT !.hit = FALSE]
           /\ UNCHANGED <<log, inputs, tools, wire, stops, callers>>
  <2>1. SameRun /\ run'.no = run.no /\ run'.hit = FALSE
    BY <1>0, <1>5 DEF Run, SameRun
  <2>2. CallsStay /\ UNCHANGED <<context, queue, ident, held, hook, sending, cancel, posted, aborted>>
    BY <1>5 DEF CallsStay, log, inputs, tools, wire, stops
  <2>3. /\ cancel \in BOOLEAN /\ posted \subseteq aborted /\ (cancel => run.no \in aborted)
        /\ queue \in [Deliveries -> Seq(Inputs)] /\ ident \in [Identified -> {"free", "queued", "selected"}]
        /\ held \in [Inputs -> {"host", "agent", "nobody"}]
    BY DEF IInv, Typed, StopsAsked
  <2>4. InputsHeld'
    <3>1. Loaded' = Loaded /\ run.pc # "reject" /\ run'.todo = run.todo
      BY <1>5, <2>1 DEF Loaded, SameRun
    <3> QED BY <2>2, <3>1, InputsBystander DEF CallsStay
  <2> QED BY <2>1, <2>2, <2>3, <2>4, QueueingKeeps
<1>6. CASE /\ run.pc = "new" /\ run' = [run EXCEPT !.pc = "dead", !.hit = FALSE]
           /\ UNCHANGED <<log, inputs, tools, wire, stops, callers>>
  <2>1. /\ run' \in Run /\ run'.pc = "dead" /\ run'.no = run.no /\ run'.hit = FALSE
        /\ run'.todo = run.todo /\ run'.ready = run.ready
        /\ run'.gathering = run.gathering /\ run'.replies = run.replies
    BY <1>0, <1>6 DEF Run, Ending
  <2>2. CopyAgrees'
    BY <2>1 DEF CopyAgrees, Asking, Calling
  <2>3. Loaded' = Loaded /\ run.pc \in Asking
    BY <1>6, <2>1 DEF Loaded, Asking
  <2> QED BY <1>6, <2>1, <2>2, <2>3, AskingMoves
<1>7. ~(run.pc = "transform" \/ (sending /\ run.pc = "prepare")) =>
        \/ Unwind("cancelled")
        \/ /\ run.pc = "before" /\ Note(run.i, "denied") /\ run' = AfterPreparing
           /\ UNCHANGED <<log, inputs, unconfirmed, entered, wire, stops, callers>>
        \/ /\ run.pc \in {"execute", "after"} /\ Note(run.i, "interrupted")
           /\ run' = [run EXCEPT !.pc = IF @ = "execute" THEN "after" ELSE "outcome", !.hit = FALSE]
           /\ UNCHANGED <<log, inputs, unconfirmed, entered, wire, stops, callers>>
        \/ /\ run.pc = "reap" /\ run' = [run EXCEPT !.hit = FALSE]
           /\ UNCHANGED <<log, inputs, tools, wire, stops, callers>>
        \/ /\ run.pc = "new" /\ run' = [run EXCEPT !.pc = "dead", !.hit = FALSE]
           /\ UNCHANGED <<log, inputs, tools, wire, stops, callers>>
  BY DEF Throw
<1> QED BY <1>1, <1>2, <1>3, <1>4, <1>5, <1>6, <1>7

-----------------------------------------------------------------------------
(* Every step of every actor keeps the invariant. *)

(* A fresh agent. *)
LEMMA InitHolds ==
    ASSUME Init
    PROVE  IInv
<1>0. /\ history = <<>> /\ context = <<>> /\ unconfirmed = {} /\ entered = {} /\ tool = NoTools /\ run = NoRun
      /\ queue = [d \in Deliveries |-> <<>>] /\ ident = [m \in Identified |-> "free"]
      /\ held = [m \in Inputs |-> "host"] /\ hook \in BOOLEAN /\ sending = FALSE /\ cancel = FALSE /\ posted = {}
  BY DEF Init
<1>1. /\ NoRun \in Run /\ run.pc = "off" /\ ~run.gathering /\ ~run.hit /\ run.ready = <<>> /\ run.todo = <<>>
  <2>1. <<>> \in Seq(Texts) /\ 0 \in 0..MaxCalls
    BY ConstantsAssumption
  <2> QED BY <1>0, <2>1 DEF NoRun, Run, Ending
<1>2. Typed
  <2>1. <<>> \in Seq(Message) /\ <<>> \in Seq(Inputs)
    OBVIOUS
  <2> QED BY <1>0, <1>1, <2>1 DEF Typed, NoTools
<1>3. Admitted = {} /\ Results = {} /\ Requested = {} /\ DOMAIN history = {}
  BY <1>0 DEF Admitted, Results, Requested
<1>4. StopsAsked /\ BatchShape
  BY <1>0, <1>1 DEF StopsAsked, BatchShape, Calling
<1>5. CallsHeld /\ CallsAnswered /\ EffectsHeld
  BY <1>0, <1>1, <1>3 DEF CallsHeld, CallsAnswered, EffectsHeld, NoTools, Calling, Asking
<1>6. CopyAgrees
  BY <1>0, <1>1 DEF CopyAgrees, Asking, Calling
<1>7. Range(<<>>) = {} /\ Distinct(<<>>)
  BY DEF Range, Distinct
<1>8. \A d \in Deliveries : queue[d] = <<>>
  BY <1>0
<1>9. QueuesDistinct
  BY <1>7, <1>8 DEF QueuesDistinct, Deliveries, Distinct
<1>10. Accounts
  <2>1. ASSUME NEW m \in Identified PROVE ident[m] = "free" /\ held[m] = "host"
    BY <1>0 DEF Inputs
  <2> QED BY <1>3, <1>7, <1>8, <2>1 DEF Accounts
<1>11. Taken /\ OnlyUsersInput
  <2>1. Loaded = <<>> /\ InFlight = {}
    BY <1>1, <1>7 DEF Loaded, InFlight
  <2> QED BY <1>1, <1>3, <1>7, <2>1 DEF Taken, OnlyUsersInput
<1> QED BY <1>2, <1>4, <1>5, <1>6, <1>9, <1>10, <1>11 DEF IInv, InputsHeld

(* The producer. *)
LEMMA ProducerKeeps ==
    ASSUME IInv, Producer
    PROVE  IInv'
<1>1. CASE FirstStep \/ Prepare \/ Transformed \/ Handled \/ TransformFails \/ Refusal \/ Prepared
  BY <1>1, FirstStepKeeps, PrepareKeeps, TransformedKeeps, HandledKeeps, TransformFailsKeeps, RefusalKeeps, PreparedKeeps
<1>2. CASE Inject \/ Admit \/ AdmitFails \/ Settle \/ SettleFails
  BY <1>2, InjectKeeps, AdmitKeeps, SettleKeeps, EndingKeeps
<1>3. CASE Poll \/ Top \/ Follow \/ End \/ Compose \/ StreamFails
  BY <1>3, PollKeeps, TopKeeps, FollowKeeps, ComposeKeeps, EndingKeeps
<1>4. CASE \E n \in 0..MaxCalls, failed \in BOOLEAN : Answer(n, failed)
  BY <1>4, AnswerKeeps
<1>5. CASE ReplyRead \/ Turn \/ Turned
  BY <1>5, ReplyReadKeeps, TurnKeeps, TurnedKeeps
<1>6. CASE ToolStart \/ Gate \/ Ready \/ Execute \/ Collect \/ After \/ Outcome \/ ToolResult \/ Reap
  BY <1>6, ToolStartKeeps, GateKeeps, ReadyKeeps, ExecuteKeeps, CollectKeeps, AfterKeeps, OutcomeKeeps,
     ToolResultKeeps, EndingKeeps
<1>7. CASE \E status \in {"ready", "denied"} : Before(status)
  BY <1>7, BeforeKeeps
<1>8. CASE Throw \/ Sent
  BY <1>8, ThrowKeeps, StreamKeeps
<1> QED BY <1>1, <1>2, <1>3, <1>4, <1>5, <1>6, <1>7, <1>8 DEF Producer

(* Everybody else. *)
LEMMA OthersKeep ==
    ASSUME IInv, Tasks \/ Host \/ Cancellers \/ Read \/ (\E t \in 1..MaxRuns : AbortArrives(t))
    PROVE  IInv'
<1>1. CASE Tasks
  BY <1>1, TaskKeeps DEF Tasks
<1>2. CASE Host
  <2>1. CASE StartPrompt \/ Continue \/ Drain \/ Discard \/ Reconcile
    BY <2>1, StartPromptKeeps, ContinueKeeps, DrainKeeps, DiscardKeeps, ReconcileKeeps
  <2>2. CASE \E m \in Inputs, d \in Deliveries : Queue(m, d)
    BY <2>2, QueueKeeps
  <2>3. CASE \E m \in Identified : Remove(m)
    BY <2>3, RemoveKeeps
  <2>4. CASE CancelAndWait \/ Close \/ Abort
    BY <2>4, AbortKeeps
  <2> QED BY <1>2, <2>1, <2>2, <2>3, <2>4 DEF Host
<1>3. CASE Cancellers
  BY <1>3, CancelStartsKeeps, CancelJoinedKeeps DEF Cancellers
<1>4. CASE Read \/ (\E t \in 1..MaxRuns : AbortArrives(t))
  BY <1>4, StreamKeeps, AbortKeeps
<1> QED BY <1>1, <1>2, <1>3, <1>4

(* A stuttering step. *)
LEMMA StutterKeeps ==
    ASSUME IInv, UNCHANGED vars
    PROVE  IInv'
<1>1. CallsStay /\ UNCHANGED <<run, context, queue, ident, held, hook, sending, cancel, posted, aborted>>
  BY DEF vars, log, inputs, tools, wire, stops, CallsStay
<1>2. sending \in BOOLEAN /\ cancel \in BOOLEAN /\ posted \subseteq aborted /\ (cancel => run.no \in aborted)
  BY DEF IInv, Typed, StopsAsked
<1> QED BY <1>1, <1>2, QuietKeeps

(* The invariant of one agent, whatever its hooks, its model, its tools, its host and those *)
(* who cancel it do, in any order: the state behind the four theorems below.               *)
THEOREM AgentInvariance == Spec => []IInv
<1>1. Init => IInv
  BY InitHolds
<1>2. IInv /\ [Next]_vars => IInv'
  <2>1. SUFFICES ASSUME IInv, [Next]_vars PROVE IInv'
    OBVIOUS
  <2>2. CASE Producer
    BY <2>1, <2>2, ProducerKeeps
  <2>3. CASE Tasks \/ Host \/ Cancellers \/ Read \/ (\E t \in 1..MaxRuns : AbortArrives(t))
    BY <2>1, <2>3, OthersKeep
  <2>4. CASE UNCHANGED vars
    BY <2>1, <2>4, StutterKeeps
  <2> QED BY <2>1, <2>2, <2>3, <2>4 DEF Next
<1> QED BY <1>1, <1>2, PTL DEF Spec

(* A run sees an abort only if one was asked for while it was active: the callback that     *)
(* abort() posts from another thread never stops the successor, however late it arrives.    *)
THEOREM AbortsTheirRun == Spec => []AbortHitsItsRun
<1>1. IInv => AbortHitsItsRun
  BY DEF IInv, StopsAsked, AbortHitsItsRun
<1> QED BY <1>1, AgentInvariance, PTL

(* A tool that was entered has its own result in the history, or the agent counts the call  *)
(* as unfinished and refuses another run, whichever hook fails and whichever await a        *)
(* cancellation hits, in batches of any length.                                             *)
THEOREM EffectsAlwaysHeld == Spec => []EffectsHeld
<1>1. IInv => EffectsHeld
  BY DEF IInv
<1> QED BY <1>1, AgentInvariance, PTL

(* Whenever the model is asked, the copy of the history the loop sends is the history of    *)
(* the agent, and every tool call in it has a settled answer.                               *)
THEOREM AskedWhenSettled == Spec => []RequestsSettled
<1>1. IInv => RequestsSettled
  BY DEF IInv, CopyAgrees, CallsAnswered, RequestsSettled, Unfinished, Asking
<1> QED BY <1>1, AgentInvariance, PTL

(* An identified input that the agent took over is in the history or pending, never both    *)
(* and never neither, and one that is the host's is in no queue and not in the history.     *)
THEOREM InputsAlwaysAccounted == Spec => []InputsAccounted
<1>1. ASSUME IInv PROVE InputsAccounted
  <2>1. ident \in [Identified -> {"free", "queued", "selected"}]
    BY <1>1 DEF IInv, Typed
  <2>2. ASSUME NEW m \in Identified PROVE m \in Pending <=> ident[m] # "free"
    BY <1>1, <2>1 DEF IInv, InputsHeld, Accounts, Pending
  <2>3. ASSUME NEW m \in Identified
        PROVE  /\ held[m] = "agent" => (m \in Admitted <=> m \notin Pending)
               /\ held[m] = "host" => m \notin Admitted \cup Pending
    BY <1>1, <2>2 DEF IInv, InputsHeld, Accounts
  <2> QED BY <2>3 DEF InputsAccounted
<1> QED BY <1>1, AgentInvariance, PTL

====
