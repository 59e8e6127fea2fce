------------------------- MODULE EyesObserverProofs -------------------------
(***************************************************************************)
(* Proofs about a registration of the Eyes daemon, for any set of routes   *)
(* and events and any number of crashes and controls: no acknowledged      *)
(* event is lost, and none reaches a handler twice.                        *)
(***************************************************************************)
EXTENDS EyesObserver, TLAPS

USE ConstantsAssumption

LEMMA NoneIsNone == None \notin Item /\ None \notin Delivery /\ None \notin Cursor
BY NoneAssumption

-----------------------------------------------------------------------------
(* Types. *)

LEMMA NewItemTyped ==
  ASSUME NEW d \in Delivery
  PROVE  /\ NewItem(d) \in Item /\ NewItem(d) # None
         /\ NewItem(d).id = d.id /\ NewItem(d).events = d.events
         /\ NewItem(d).tried = FALSE /\ NewItem(d).terminal = FALSE
<1>1. d.id \in Nat \X Routes /\ d.events \in SUBSET Events
  BY DEF Delivery
<1>2. NewItem(d) \in Item
  BY <1>1 DEF NewItem, Item
<1>3. None \notin Item
  BY NoneIsNone
<1>4. NewItem(d) # None
  BY <1>2, <1>3
<1> QED
  BY <1>2, <1>4 DEF NewItem

LEMMA NewCursorTyped ==
  /\ NewCursor \in Cursor /\ NewCursor.cursor = 0 /\ NewCursor.scans = 0
  /\ \A r \in Routes : NewCursor.pending[r] = None /\ NewCursor.backlog[r] = None
BY DEF NewCursor, Cursor

LEMMA CursorTyped ==
  ASSUME NEW c \in Cursor
  PROVE  /\ c # None /\ c.cursor \in Nat /\ c.scans \in 0 .. MaxScans /\ c.scans \in Nat
         /\ c.overflowed \in BOOLEAN
         /\ \A r \in Routes : c.pending[r] \in Item \cup {None} /\ c.backlog[r] \in Delivery \cup {None}
BY NoneIsNone DEF Cursor

-----------------------------------------------------------------------------
(* Events that are due. *)

LEMMA DueTyped ==
  ASSUME TypeOK, NEW c \in Cursor, c.cursor <= Len(intake)
  PROVE  Due(c) \subseteq Events
<1>1. \A k \in 1 .. c.cursor : intake[k] \in Pushes
  BY DEF TypeOK, Cursor
<1>2. \A k \in 1 .. c.scans : k \in 1 .. MaxScans
  BY CursorTyped
<1> QED
  BY <1>1, <1>2 DEF Due, Events

\* The next pushed event and the next scanned change are not due yet.
LEMMA PushedIsNew ==
  ASSUME TypeOK, IntakeOnce, NEW c \in Cursor, NEW k \in 1 .. Len(intake), c.cursor < k
  PROVE  Pushed(intake[k]) \notin Due(c)
<1>1. \A j \in 1 .. c.cursor : j \in DOMAIN intake /\ j # k
  BY DEF TypeOK, Cursor
<1>2. k \in DOMAIN intake
  BY DEF TypeOK
<1>3. \A j \in 1 .. c.cursor : intake[j] # intake[k]
  BY <1>1, <1>2 DEF IntakeOnce
<1>4. \A j \in 1 .. c.cursor : Pushed(intake[j]) # Pushed(intake[k])
  BY <1>3 DEF Pushed
<1>5. \A j : Scanned(j) # Pushed(intake[k])
  BY DEF Scanned, Pushed
<1> QED
  BY <1>4, <1>5 DEF Due

LEMMA ScannedIsNew ==
  ASSUME NEW c \in Cursor
  PROVE  Scanned(c.scans + 1) \notin Due(c)
<1>1. \A j \in 1 .. c.scans : Scanned(j) # Scanned(c.scans + 1)
  BY CursorTyped DEF Scanned
<1>2. \A k : Pushed(k) # Scanned(c.scans + 1)
  BY DEF Scanned, Pushed
<1> QED
  BY <1>1, <1>2 DEF Due

LEMMA DueOfNext ==
  ASSUME NEW c \in Cursor, NEW d \in Cursor
  PROVE  /\ d.cursor = c.cursor + 1 /\ d.scans = c.scans => Due(d) = Due(c) \cup {Pushed(intake[c.cursor + 1])}
         /\ d.cursor = c.cursor /\ d.scans = c.scans + 1 => Due(d) = Due(c) \cup {Scanned(c.scans + 1)}
         /\ d.cursor = c.cursor /\ d.scans = c.scans => Due(d) = Due(c)
         /\ c.cursor <= d.cursor /\ c.scans <= d.scans => Due(c) \subseteq Due(d)
<1>1. c.cursor \in Nat /\ c.scans \in Nat /\ d.cursor \in Nat /\ d.scans \in Nat
  BY CursorTyped
<1>2. 1 .. (c.cursor + 1) = (1 .. c.cursor) \cup {c.cursor + 1}
  BY <1>1
<1>3. 1 .. (c.scans + 1) = (1 .. c.scans) \cup {c.scans + 1}
  BY <1>1
<1>4. c.cursor <= d.cursor /\ c.scans <= d.scans =>
        1 .. c.cursor \subseteq 1 .. d.cursor /\ 1 .. c.scans \subseteq 1 .. d.scans
  BY <1>1
<1>5. d.cursor = c.cursor + 1 /\ d.scans = c.scans => Due(d) = Due(c) \cup {Pushed(intake[c.cursor + 1])}
  BY <1>2 DEF Due
<1>6. d.cursor = c.cursor /\ d.scans = c.scans + 1 => Due(d) = Due(c) \cup {Scanned(c.scans + 1)}
  BY <1>3 DEF Due
<1>7. d.cursor = c.cursor /\ d.scans = c.scans => Due(d) = Due(c)
  BY DEF Due
<1>8. c.cursor <= d.cursor /\ c.scans <= d.scans => Due(c) \subseteq Due(d)
  BY <1>4 DEF Due
<1> QED
  BY <1>5, <1>6, <1>7, <1>8

\* The intake only grows at its end: what was due stays due.
LEMMA DueKept ==
  ASSUME TypeOK, NEW c \in Cursor, c.cursor <= Len(intake),
         \A k \in 1 .. Len(intake) : intake'[k] = intake[k]
  PROVE  Due(c)' = Due(c)
<1>1. \A k \in 1 .. c.cursor : intake'[k] = intake[k]
  BY CursorTyped DEF TypeOK
<1> QED
  BY <1>1 DEF Due

-----------------------------------------------------------------------------
(* Deliveries of one route. *)

\* More identities given out.
LEMMA DistinctLater ==
  ASSUME NEW p \in Item \cup {None}, NEW b \in Delivery \cup {None}, NEW g, NEW n \in Nat, NEW m \in Nat,
         n <= m, Distinct(p, b, g, n)
  PROVE  Distinct(p, b, g, m)
<1>1. p # None => p.id[1] \in Nat
  BY DEF Item
<1>2. b # None => b.id[1] \in Nat
  BY DEF Delivery
<1> QED
  BY <1>1, <1>2 DEF Distinct

LEMMA DeliveryMade ==
  ASSUME NEW i \in Nat \X Routes, NEW E \in SUBSET Events
  PROVE  /\ DeliveryOf(i, E) \in Delivery /\ DeliveryOf(i, E) # None
         /\ DeliveryOf(i, E).id = i /\ DeliveryOf(i, E).events = E
<1>1. DeliveryOf(i, E) \in Delivery
  BY DEF Delivery, DeliveryOf
<1>2. DeliveryOf(i, E) # None
  BY <1>1, NoneIsNone
<1> QED
  BY <1>1, <1>2 DEF DeliveryOf

LEMMA DeliveryParts ==
  ASSUME NEW d \in Delivery
  PROVE  d # None /\ d.id \in Nat \X Routes /\ d.id[1] \in Nat /\ d.events \in SUBSET Events
BY NoneIsNone DEF Delivery

LEMMA ItemParts ==
  ASSUME NEW q \in Item
  PROVE  /\ q # None /\ q.id \in Nat \X Routes /\ q.id[1] \in Nat /\ q.events \in SUBSET Events
         /\ q.tried \in BOOLEAN /\ q.paused \in BOOLEAN /\ q.terminal \in BOOLEAN /\ q.inflight \in BOOLEAN
BY NoneIsNone DEF Item

LEMMA ItemGrown ==
  ASSUME NEW q \in Item, NEW E \in SUBSET Events, NEW p, p = GrownTo(q, E)
  PROVE  /\ p \in Item /\ p # None /\ p.id = q.id /\ p.events = E
         /\ p.tried = q.tried /\ p.terminal = q.terminal /\ p.paused = q.paused /\ p.inflight = q.inflight
<1>1. p \in Item
  BY DEF Item, GrownTo
<1>2. p # None
  BY <1>1, NoneIsNone
<1> QED
  BY <1>1, <1>2 DEF Item, GrownTo

\* The identities of what a handler took are among the first n.
OldIds(g, n) == \A k \in DOMAIN g : g[k].id[1] < n

LEMMA FreshId ==
  ASSUME NEW n \in Nat, NEW r \in Routes
  PROVE  <<n, r>> \in Nat \X Routes /\ <<n, r>>[1] = n
OBVIOUS

\* Delivery p and backlog b of a route are q and a with the events es added.
Apart(S, T) == S \cap T = {}
Joined(q, a, p, b, g, n, es) ==
  /\ p \in Item /\ p # None /\ b \in Delivery \cup {None}
  /\ Distinct(p, b, g, n + 1)
  /\ KeptIn(p, b) = KeptIn(q, a) \cup es
  /\ q # None /\ q.tried => p = q
  /\ p # q => ~TakenBy(g, p)
  /\ q = None => p.terminal = FALSE
  /\ q # None => p.terminal = q.terminal /\ p.paused = q.paused

LEMMA ApartFromTaken ==
  ASSUME NEW g, NEW es, Apart(es, TakenIn(g)), NEW k \in DOMAIN g
  PROVE  g[k].events \cap es = {}
BY DEF Apart, TakenIn

LEMMA UnusedId ==
  ASSUME NEW n \in Nat, NEW i, i[1] = n, NEW j, j[1] < n
  PROVE  j # i
<1>1. ~(n < n)
  OBVIOUS
<1> QED
  BY <1>1

\* enqueue on a route: events that are new join the delivery that was never
\* attempted, or make a new one, behind the delivery that was.
LEMMA FirstDelivery ==
  ASSUME NEW g, NEW n \in Nat, NEW i \in Nat \X Routes, i[1] = n, NEW es \in SUBSET Events,
         OldIds(g, n), Apart(es, TakenIn(g))
  PROVE  Joined(None, None, NewItem(DeliveryOf(i, es)), None, g, n, es)
<1>1. PICK d : d = DeliveryOf(i, es)
  OBVIOUS
<1>2. PICK p : p = NewItem(d)
  OBVIOUS
<1>3. d \in Delivery /\ d.id = i /\ d.events = es
  BY <1>1, DeliveryMade
<1>4. p \in Item /\ p # None /\ p.id = i /\ p.events = es /\ p.terminal = FALSE
  BY <1>2, <1>3, NewItemTyped
<1>5. ASSUME NEW k \in DOMAIN g PROVE g[k].id # p.id /\ g[k].events \cap p.events = {}
  <2>1. g[k].id[1] < n
    BY DEF OldIds
  <2>2. g[k].id # p.id
    BY <1>4, <2>1, UnusedId
  <2>3. g[k].events \cap es = {}
    BY ApartFromTaken
  <2> QED
    BY <1>4, <2>2, <2>3
<1>6. p.id[1] < n + 1
  BY <1>4
<1>7. Distinct(p, None, g, n + 1)
  BY <1>4, <1>5, <1>6 DEF Distinct
<1>8. KeptIn(p, None) = KeptIn(None, None) \cup es
  BY <1>4 DEF KeptIn
<1>9. ~TakenBy(g, p)
  BY <1>5 DEF TakenBy
<1>10. Joined(None, None, p, None, g, n, es)
  BY <1>4, <1>7, <1>8, <1>9 DEF Joined
<1> QED
  BY <1>1, <1>2, <1>10

LEMMA GrownDelivery ==
  ASSUME NEW g, NEW n \in Nat, NEW es \in SUBSET Events, Apart(es, TakenIn(g)),
         NEW q \in Item, q.tried = FALSE, Distinct(q, None, g, n)
  PROVE  Joined(q, None, GrownTo(q, Grown(q, es).events), None, g, n, es)
<1>1. PICK p : p = GrownTo(q, q.events \cup es)
  OBVIOUS
<1>2. q # None /\ q.id \in Nat \X Routes /\ q.id[1] \in Nat /\ q.events \cup es \in SUBSET Events
  BY ItemParts
<1>3. Grown(q, es).events = q.events \cup es
  BY <1>2, DeliveryMade DEF Grown
<1>4. /\ p \in Item /\ p # None /\ p.id = q.id /\ p.events = q.events \cup es
      /\ p.terminal = q.terminal /\ p.paused = q.paused
  BY <1>1, <1>2, ItemGrown
<1>5. q.id[1] < n /\ \A k \in DOMAIN g : g[k].id # q.id /\ g[k].events \cap q.events = {}
  BY <1>2 DEF Distinct
<1>6. ASSUME NEW k \in DOMAIN g PROVE g[k].id # p.id /\ g[k].events \cap p.events = {}
  <2>1. g[k].events \cap es = {}
    BY ApartFromTaken
  <2> QED
    BY <1>4, <1>5, <2>1
<1>7. p.id[1] < n + 1
  BY <1>2, <1>4, <1>5
<1>8. KeptIn(p, None) = KeptIn(q, None) \cup es
  BY <1>2, <1>4 DEF KeptIn
<1>9. Distinct(p, None, g, n + 1) /\ ~TakenBy(g, p)
  BY <1>4, <1>6, <1>7 DEF Distinct, TakenBy
<1>10. Joined(q, None, p, None, g, n, es)
  BY <1>2, <1>4, <1>8, <1>9 DEF Joined
<1> QED
  BY <1>1, <1>3, <1>10

\* The backlog d of a route whose delivery q was attempted.
LEMMA BehindTried ==
  ASSUME NEW g, NEW n \in Nat, NEW es \in SUBSET Events, NEW q \in Item, q.tried = TRUE,
         NEW a \in Delivery \cup {None}, Distinct(q, a, g, n),
         NEW d \in Delivery, d.id[1] < n + 1, d.id # q.id, d.events \cap q.events = {},
         d.events = (IF a = None THEN {} ELSE a.events) \cup es,
         \A k \in DOMAIN g : g[k].id # d.id /\ g[k].events \cap d.events = {}
  PROVE  Joined(q, a, q, d, g, n, es)
<1>1. q # None /\ d # None /\ q.id[1] \in Nat
  BY ItemParts, DeliveryParts
<1>2. /\ q.id[1] < n
      /\ \A k \in DOMAIN g : IF g[k].id = q.id THEN q.tried /\ g[k].events = q.events
                             ELSE g[k].events \cap q.events = {}
  BY <1>1 DEF Distinct
<1>3. q.id[1] < n + 1
  BY <1>1, <1>2
<1>4. Distinct(q, d, g, n + 1)
  BY <1>1, <1>2, <1>3 DEF Distinct
<1>5. KeptIn(q, d) = KeptIn(q, a) \cup es
  BY <1>1 DEF KeptIn
<1> QED
  BY <1>1, <1>4, <1>5 DEF Joined

LEMMA FirstBacklog ==
  ASSUME NEW g, NEW n \in Nat, NEW i \in Nat \X Routes, i[1] = n, NEW es \in SUBSET Events,
         OldIds(g, n), Apart(es, TakenIn(g)),
         NEW q \in Item, q.tried = TRUE, Distinct(q, None, g, n), Apart(es, KeptIn(q, None))
  PROVE  Joined(q, None, q, DeliveryOf(i, es), g, n, es)
<1>1. PICK d : d = DeliveryOf(i, es)
  OBVIOUS
<1>2. d \in Delivery /\ d # None /\ d.id = i /\ d.events = es
  BY <1>1, DeliveryMade
<1>3. q # None /\ q.id[1] \in Nat
  BY ItemParts
<1>4. q.id[1] < n
  BY <1>3 DEF Distinct
<1>5. ASSUME NEW k \in DOMAIN g PROVE g[k].id # d.id /\ g[k].events \cap d.events = {}
  <2>1. g[k].id[1] < n
    BY DEF OldIds
  <2>2. g[k].id # d.id
    BY <1>2, <2>1, UnusedId
  <2>3. g[k].events \cap es = {}
    BY ApartFromTaken
  <2> QED
    BY <1>2, <2>2, <2>3
<1>6. d.id # q.id
  BY <1>2, <1>4, UnusedId
<1>7. d.events \cap q.events = {}
  BY <1>2, <1>3 DEF Apart, KeptIn
<1>8. d.id[1] < n + 1
  BY <1>2
<1>9. d.events = (IF None = None THEN {} ELSE None.events) \cup es
  BY <1>2
<1>10. Joined(q, None, q, d, g, n, es)
  BY <1>2, <1>5, <1>6, <1>7, <1>8, <1>9, BehindTried
<1> QED
  BY <1>1, <1>10

LEMMA GrownBacklog ==
  ASSUME NEW g, NEW n \in Nat, NEW es \in SUBSET Events, Apart(es, TakenIn(g)),
         NEW q \in Item, q.tried = TRUE, NEW a \in Delivery, Distinct(q, a, g, n), Apart(es, KeptIn(q, a))
  PROVE  Joined(q, a, q, Grown(a, es), g, n, es)
<1>1. PICK d : d = DeliveryOf(a.id, a.events \cup es)
  OBVIOUS
<1>2. a # None /\ a.id \in Nat \X Routes /\ a.id[1] \in Nat /\ a.events \cup es \in SUBSET Events
  BY DeliveryParts
<1>3. d \in Delivery /\ d # None /\ d.id = a.id /\ d.events = a.events \cup es
  BY <1>1, <1>2, DeliveryMade
<1>4. q # None
  BY ItemParts
<1>5. /\ a.id[1] < n /\ a.id # q.id /\ a.events \cap q.events = {}
      /\ \A k \in DOMAIN g : g[k].id # a.id /\ g[k].events \cap a.events = {}
  BY <1>2, <1>4 DEF Distinct
<1>6. ASSUME NEW k \in DOMAIN g PROVE g[k].id # d.id /\ g[k].events \cap d.events = {}
  <2>1. g[k].events \cap es = {}
    BY ApartFromTaken
  <2> QED
    BY <1>3, <1>5, <2>1
<1>7. es \cap q.events = {}
  BY <1>4 DEF Apart, KeptIn
<1>8. d.id # q.id /\ d.events \cap q.events = {}
  BY <1>3, <1>5, <1>7
<1>9. d.id[1] < n + 1
  BY <1>2, <1>3, <1>5
<1>10. d.events = (IF a = None THEN {} ELSE a.events) \cup es
  BY <1>2, <1>3
<1>11. Joined(q, a, q, d, g, n, es)
  BY <1>3, <1>6, <1>8, <1>9, <1>10, BehindTried
<1> QED
  BY <1>1, <1>11 DEF Grown

LEMMA EnqueuedRoute ==
  ASSUME TypeOK, NEW c \in Cursor, NEW r \in Routes, NEW es \in SUBSET Events,
         Distinct(c.pending[r], c.backlog[r], got[r], made), OldIds(got[r], made),
         Apart(es, KeptIn(c.pending[r], c.backlog[r])), Apart(es, TakenIn(got[r])),
         NEW d, d = Candidate(c, r, es, <<made, r>>)
  PROVE  Joined(c.pending[r], c.backlog[r], PendingWith(c, r, d), BacklogWith(c, r, d), got[r], made, es)
<1>1. PICK i : i = <<made, r>>
  OBVIOUS
<1>2. made \in Nat /\ i \in Nat \X Routes /\ i[1] = made
  BY <1>1, FreshId DEF TypeOK
<1>4. PICK q, a, g : q = c.pending[r] /\ a = c.backlog[r] /\ g = got[r]
  OBVIOUS
<1>5. /\ Distinct(q, a, g, made) /\ OldIds(g, made) /\ Apart(es, KeptIn(q, a)) /\ Apart(es, TakenIn(g))
      /\ q \in Item \cup {None} /\ a \in Delivery \cup {None}
  BY <1>4, CursorTyped
<1>7. /\ d = IF Open(c, r) # None THEN Grown(Open(c, r), es) ELSE DeliveryOf(i, es)
      /\ Open(c, r) = IF q # None /\ ~q.tried THEN q ELSE a
      /\ PendingWith(c, r, d) = IF q = None THEN NewItem(d) ELSE IF ~q.tried THEN GrownTo(q, d.events) ELSE q
      /\ BacklogWith(c, r, d) = IF q # None /\ q.tried THEN d ELSE a
  BY <1>1, <1>4 DEF Candidate, Open, PendingWith, BacklogWith
<1>8. Joined(q, a, PendingWith(c, r, d), BacklogWith(c, r, d), g, made, es)
  <2>1. CASE q = None
    <3>1. a = None
      BY <1>5, <2>1 DEF Distinct
    <3>2. Joined(None, None, NewItem(DeliveryOf(i, es)), None, g, made, es)
      BY <1>2, <1>5, FirstDelivery
    <3> QED
      BY <1>7, <2>1, <3>1, <3>2
  <2>2. CASE q # None /\ ~q.tried
    <3>1. a = None
      BY <1>5, <2>2 DEF Distinct
    <3>2. q \in Item /\ q.tried = FALSE /\ Distinct(q, None, g, made)
      BY <1>5, <2>2, <3>1, ItemParts
    <3>3. Joined(q, None, GrownTo(q, Grown(q, es).events), None, g, made, es)
      BY <1>2, <1>5, <3>2, GrownDelivery
    <3> QED
      BY <1>7, <2>2, <3>1, <3>3
  <2>3. CASE q # None /\ q.tried /\ a = None
    <3>1. q \in Item /\ q.tried = TRUE /\ Distinct(q, None, g, made) /\ Apart(es, KeptIn(q, None))
      BY <1>5, <2>3, ItemParts
    <3>2. Joined(q, None, q, DeliveryOf(i, es), g, made, es)
      BY <1>2, <1>5, <3>1, FirstBacklog
    <3> QED
      BY <1>7, <2>3, <3>2
  <2>4. CASE q # None /\ q.tried /\ a # None
    <3>1. q \in Item /\ q.tried = TRUE /\ a \in Delivery
      BY <1>5, <2>4, ItemParts
    <3>2. Joined(q, a, q, Grown(a, es), g, made, es)
      BY <1>2, <1>5, <3>1, GrownBacklog
    <3> QED
      BY <1>7, <2>4, <3>2
  <2> QED
    BY <2>1, <2>2, <2>3, <2>4
<1> QED
  BY <1>4, <1>8

\* Cursors with other deliveries.
Rerouted(c, P, B, o) == [c EXCEPT !.pending = P, !.backlog = B, !.overflowed = o]

LEMMA CursorRerouted ==
  ASSUME NEW c \in Cursor, NEW P \in [Routes -> Item \cup {None}], NEW B \in [Routes -> Delivery \cup {None}],
         NEW o \in BOOLEAN, NEW N, N = Rerouted(c, P, B, o)
  PROVE  /\ N \in Cursor /\ N.cursor = c.cursor /\ N.scans = c.scans
         /\ N.pending = P /\ N.backlog = B /\ N.overflowed = o
BY DEF Cursor, Rerouted

\* enqueue on all routes, up to the first that refuses.
Extended(c, N, es) ==
  \A r \in Routes :
     \/ Joined(c.pending[r], c.backlog[r], N.pending[r], N.backlog[r], got[r], made, es)
     \/ N.overflowed = TRUE /\ N.pending[r] = c.pending[r] /\ N.backlog[r] = c.backlog[r]

LEMMA EnqueuedCursor ==
  ASSUME TypeOK, GotInv, NEW c \in Cursor, CursorInv(c), NEW es \in SUBSET Events, Apart(es, Due(c)),
         NEW N, N = Enqueued(c, es)
  PROVE  /\ N \in Cursor /\ N.cursor = c.cursor /\ N.scans = c.scans
         /\ c.overflowed => N.overflowed
         /\ Extended(c, N, es)
<1>1. PICK fits : fits = {r \in Routes : \A x \in Refused(c, es) : r < x}
  OBVIOUS
<1>2. PICK P, B, o : 
        /\ P = [r \in Routes |-> IF r \in fits THEN PendingWith(c, r, Candidate(c, r, es, <<made, r>>)) ELSE c.pending[r]]
        /\ B = [r \in Routes |-> IF r \in fits THEN BacklogWith(c, r, Candidate(c, r, es, <<made, r>>)) ELSE c.backlog[r]]
        /\ o = (c.overflowed \/ Refused(c, es) # {})
  OBVIOUS
<1>3. N = Rerouted(c, P, B, o)
  BY <1>1, <1>2, CursorTyped DEF Enqueued, Rerouted
<1>4. ASSUME NEW r \in Routes, r \in fits
      PROVE  Joined(c.pending[r], c.backlog[r], P[r], B[r], got[r], made, es)
  <2>1. PICK d : d = Candidate(c, r, es, <<made, r>>)
    OBVIOUS
  <2>2. P[r] = PendingWith(c, r, d) /\ B[r] = BacklogWith(c, r, d)
    BY <1>2, <1>4, <2>1
  <2>3. /\ Distinct(c.pending[r], c.backlog[r], got[r], made)
        /\ Covered(c.pending[r], c.backlog[r], got[r], Due(c), c.overflowed)
    BY DEF CursorInv
  <2>4. Apart(es, KeptIn(c.pending[r], c.backlog[r])) /\ Apart(es, TakenIn(got[r]))
    BY <2>3 DEF Covered, Apart
  <2>5. OldIds(got[r], made)
    BY DEF GotInv, OldIds
  <2>6. Joined(c.pending[r], c.backlog[r], PendingWith(c, r, d), BacklogWith(c, r, d), got[r], made, es)
    BY <2>1, <2>3, <2>4, <2>5, EnqueuedRoute
  <2> QED
    BY <2>2, <2>6
<1>5. ASSUME NEW r \in Routes, r \notin fits
      PROVE  o = TRUE /\ P[r] = c.pending[r] /\ B[r] = c.backlog[r]
  <2>1. Refused(c, es) # {}
    BY <1>1, <1>5
  <2> QED
    BY <1>2, <1>5, <2>1
<1>6. P \in [Routes -> Item \cup {None}] /\ B \in [Routes -> Delivery \cup {None}] /\ o \in BOOLEAN
  <2>1. ASSUME NEW r \in Routes PROVE P[r] \in Item \cup {None} /\ B[r] \in Delivery \cup {None}
    <3>1. CASE r \in fits
      BY <1>4, <3>1 DEF Joined
    <3>2. CASE r \notin fits
      BY <1>5, <3>2, CursorTyped
    <3> QED
      BY <3>1, <3>2
  <2>2. P = [r \in Routes |-> P[r]] /\ B = [r \in Routes |-> B[r]]
    BY <1>2
  <2>3. o \in BOOLEAN
    BY <1>2
  <2> QED
    BY <2>1, <2>2, <2>3
<1>7. /\ N \in Cursor /\ N.cursor = c.cursor /\ N.scans = c.scans
      /\ N.pending = P /\ N.backlog = B /\ N.overflowed = o
  BY <1>3, <1>6, CursorRerouted
<1>8. c.overflowed => o
  BY <1>2
<1>9. Extended(c, N, es)
  BY <1>4, <1>5, <1>7 DEF Extended
<1> QED
  BY <1>7, <1>8, <1>9

-----------------------------------------------------------------------------
(* The deliveries of a cursor. *)

\* What CursorInv says of the routes of cursor c when n identities are given out.
RoutesInv(c, n) ==
  \A r \in Routes : /\ Distinct(c.pending[r], c.backlog[r], got[r], n)
                    /\ Covered(c.pending[r], c.backlog[r], got[r], Due(c), c.overflowed)

LEMMA CursorParts ==
  ASSUME NEW c
  PROVE  CursorInv(c) <=> c.cursor <= Len(intake) /\ processed <= c.cursor /\ RoutesInv(c, made)
BY DEF CursorInv, RoutesInv

\* Events that join the deliveries of c are due from then on.
LEMMA JoinedRoutes ==
  ASSUME TypeOK, NEW c \in Cursor, NEW N \in Cursor, NEW M \in Cursor, RoutesInv(c, made), NEW es,
         Extended(c, N, es), c.overflowed => N.overflowed,
         M.pending = N.pending, M.backlog = N.backlog, M.overflowed = N.overflowed,
         Due(M) = Due(c) \cup es, \A e \in es : N.overflowed => e[1] = "scan"
  PROVE  RoutesInv(M, made + 1)
<1> SUFFICES ASSUME NEW r \in Routes
             PROVE  /\ Distinct(N.pending[r], N.backlog[r], got[r], made + 1)
                    /\ Covered(N.pending[r], N.backlog[r], got[r], Due(M), N.overflowed)
  BY DEF RoutesInv
<1>1. PICK q, a, p, b, g : /\ q = c.pending[r] /\ a = c.backlog[r] /\ g = got[r]
                           /\ p = N.pending[r] /\ b = N.backlog[r]
  OBVIOUS
<1>2. /\ Distinct(q, a, g, made) /\ Covered(q, a, g, Due(c), c.overflowed)
      /\ q \in Item \cup {None} /\ a \in Delivery \cup {None} /\ made \in Nat /\ made + 1 \in Nat /\ made <= made + 1
  BY <1>1, CursorTyped DEF RoutesInv, TypeOK
<1>3. CASE Joined(q, a, p, b, g, made, es)
  <2>1. Distinct(p, b, g, made + 1) /\ KeptIn(p, b) = KeptIn(q, a) \cup es
    BY <1>3 DEF Joined
  <2>2. Covered(p, b, g, Due(M), N.overflowed)
    BY <1>2, <2>1 DEF Covered
  <2> QED
    BY <1>1, <2>1, <2>2
<1>4. CASE N.overflowed = TRUE /\ p = q /\ b = a
  <2>1. Distinct(p, b, g, made + 1)
    BY <1>2, <1>4, DistinctLater
  <2>2. Covered(p, b, g, Due(M), N.overflowed)
    BY <1>2, <1>4 DEF Covered
  <2> QED
    BY <1>1, <2>1, <2>2
<1> QED
  BY <1>1, <1>3, <1>4 DEF Extended

LEMMA RoutesLater ==
  ASSUME TypeOK, NEW c \in Cursor, NEW m \in Nat, made <= m, RoutesInv(c, made)
  PROVE  RoutesInv(c, m)
<1> SUFFICES ASSUME NEW r \in Routes
             PROVE  Distinct(c.pending[r], c.backlog[r], got[r], m)
  BY DEF RoutesInv
<1>1. /\ Distinct(c.pending[r], c.backlog[r], got[r], made) /\ made \in Nat
      /\ c.pending[r] \in Item \cup {None} /\ c.backlog[r] \in Delivery \cup {None}
  BY CursorTyped DEF RoutesInv, TypeOK
<1> QED
  BY <1>1, DistinctLater

LEMMA ItemMarked ==
  ASSUME NEW q \in Item, NEW p, p = InFlight(q)
  PROVE  /\ p \in Item /\ p # None /\ p.id = q.id /\ p.events = q.events /\ p.tried = TRUE
         /\ p.inflight = TRUE /\ p.terminal = q.terminal /\ p.paused = q.paused
<1>1. p \in Item
  BY DEF Item, InFlight
<1>2. p # None
  BY <1>1, NoneIsNone
<1> QED
  BY <1>1, <1>2 DEF Item, InFlight

\* The routes after the deliveries in due are marked as in flight.
LEMMA MarkedRoutes ==
  ASSUME NEW c \in Cursor, NEW M \in Cursor, NEW n, RoutesInv(c, n),
         \A r \in Routes : \/ M.pending[r] = c.pending[r]
                           \/ c.pending[r] \in Item /\ M.pending[r] = InFlight(c.pending[r]),
         M.backlog = c.backlog, M.overflowed = c.overflowed, Due(M) = Due(c)
  PROVE  RoutesInv(M, n)
<1> SUFFICES ASSUME NEW r \in Routes
             PROVE  /\ Distinct(M.pending[r], c.backlog[r], got[r], n)
                    /\ Covered(M.pending[r], c.backlog[r], got[r], Due(c), c.overflowed)
  BY DEF RoutesInv
<1>1. PICK q, a, p, g : q = c.pending[r] /\ a = c.backlog[r] /\ g = got[r] /\ p = M.pending[r]
  OBVIOUS
<1>2. Distinct(q, a, g, n) /\ Covered(q, a, g, Due(c), c.overflowed)
  BY <1>1 DEF RoutesInv
<1>3. CASE p = q
  BY <1>1, <1>2, <1>3
<1>4. CASE q \in Item /\ p = InFlight(q)
  <2>1. p # None /\ q # None /\ p.id = q.id /\ p.events = q.events /\ p.tried = TRUE
    BY <1>4, ItemMarked, ItemParts
  <2>2. Distinct(p, a, g, n)
    BY <1>2, <2>1 DEF Distinct
  <2>3. Covered(p, a, g, Due(c), c.overflowed)
    BY <1>2, <2>1 DEF Covered, KeptIn
  <2> QED
    BY <1>1, <2>2, <2>3
<1> QED
  BY <1>1, <1>3, <1>4

\* The sends of a route whose delivery grows, or is marked.
LEMMA SendJoined ==
  ASSUME NEW r, NEW q, NEW a, NEW p, NEW b, NEW c, NEW g, NEW t, NEW n, NEW es,
         SendLegal(r, q, c, g, t, {}), Joined(q, a, p, b, g, n, es)
  PROVE  SendLegal(r, p, c, g, t, {})
<1>1. /\ p # None
      /\ q # None /\ q.tried => p = q
      /\ p # q => ~TakenBy(g, p)
      /\ q = None => p.terminal = FALSE
      /\ q # None => p.terminal = q.terminal /\ p.paused = q.paused
  BY DEF Joined
<1>2. CASE p = q
  BY <1>2
<1>3. CASE p # q
  <2>1. t = "none"
    BY <1>1, <1>3 DEF SendLegal, Marked
  <2> QED
    BY <1>1, <1>3, <2>1 DEF SendLegal
<1> QED
  BY <1>2, <1>3

LEMMA SendMarked ==
  ASSUME NEW r, NEW q \in Item, NEW c, NEW g, NEW due, ~q.paused,
         SendLegal(r, q, c, g, "none", {})
  PROVE  SendLegal(r, InFlight(q), c, g, "none", due)
<1>1. PICK p : p = InFlight(q)
  OBVIOUS
<1>2. /\ p \in Item /\ p # None /\ p.id = q.id /\ p.events = q.events /\ p.tried = TRUE
      /\ p.inflight = TRUE /\ p.terminal = q.terminal /\ p.paused = q.paused /\ q # None
  BY <1>1, ItemMarked, ItemParts
<1>3. ~p.terminal
  BY <1>2 DEF SendLegal
<1>4. TakenBy(g, p) => TakenBy(g, q)
  BY <1>2 DEF TakenBy
<1>5. SendLegal(r, p, c, g, "none", due)
  BY <1>2, <1>3, <1>4 DEF SendLegal, Marked
<1> QED
  BY <1>1, <1>5

-----------------------------------------------------------------------------
(* What the actions leave alone. *)

LEMMA CursorLater ==
  ASSUME TypeOK, NEW c \in Cursor, CursorInv(c), UNCHANGED <<intake, got, processed>>, made' \in Nat, made <= made'
  PROVE  CursorInv(c)'
<1>1. c.cursor <= Len(intake) /\ processed <= c.cursor /\ RoutesInv(c, made)
  BY CursorParts
<1>2. PICK m : m = made'
  OBVIOUS
<1>3. RoutesInv(c, m)
  BY <1>1, <1>2, RoutesLater
<1> QED
  BY <1>1, <1>2, <1>3 DEF CursorInv, RoutesInv, Due

\* A step of the observer that hands out identities, and no more.
LEMMA OthersKept ==
  ASSUME IInv, UNCHANGED <<ckpt, intake, processed, got>>, made' \in Nat, made <= made'
  PROVE  IntakeOnce' /\ GotInv' /\ CheckpointInv'
<1>1. IntakeOnce'
  BY DEF IInv, IntakeOnce
<1>2. GotInv'
  <2>1. \A r \in Routes : \A i \in DOMAIN got[r] : got[r][i].id[1] \in Nat
    <3>1. \A r \in Routes : got[r] \in Seq(Delivery)
      BY DEF IInv, TypeOK
    <3>2. \A r \in Routes : \A i \in DOMAIN got[r] : got[r][i] \in Delivery
      BY <3>1
    <3> QED
      BY <3>2, DeliveryParts
  <2> QED
    BY <2>1 DEF IInv, GotInv, TypeOK
<1>3. CheckpointInv'
  <2>1. CASE ckpt = None
    BY <2>1 DEF IInv, CheckpointInv
  <2>2. CASE ckpt # None
    <3>1. ckpt \in Cursor /\ TypeOK /\ CursorInv(ckpt)
      BY <2>2 DEF IInv, TypeOK, CheckpointInv
    <3>2. PICK c : c = ckpt
      OBVIOUS
    <3>3. CursorInv(c)'
      BY <3>1, <3>2, CursorLater
    <3>4. CursorInv(ckpt)'
      BY <3>2, <3>3
    <3> QED
      BY <2>2, <3>4 DEF IInv, CheckpointInv
  <2> QED
    BY <2>1, <2>2
<1> QED
  BY <1>1, <1>2, <1>3

\* The observer goes on with cursor N.
LEMMA ObserverGoesOn ==
  ASSUME IInv, Live, UNCHANGED <<ckpt, intake, processed, got>>, made' \in Nat, made <= made',
         NEW N \in Cursor, mem' = N, N.cursor <= Len(intake), mem.cursor <= N.cursor, mem.scans <= N.scans,
         RoutesInv(N, made'), pc' \notin {"none", "start"}, pc' # "save" => ready' = {},
         \A r \in Routes : SendLegal(r, N.pending[r], ckpt, got[r], task'[r], ready')
  PROVE  IntakeOnce' /\ GotInv' /\ CheckpointInv' /\ ObserverInv'
<1>1. mem \in Cursor /\ ckpt \in Cursor \cup {None} /\ processed \in Nat
  BY DEF IInv, TypeOK
<1>2. CursorInv(mem) /\ processed <= mem.cursor
  BY DEF IInv, ObserverInv, CursorInv
<1>3. ckpt # None => ckpt.cursor <= N.cursor /\ ckpt.scans <= N.scans
  <2>1. ckpt # None => ckpt.cursor <= mem.cursor /\ ckpt.scans <= mem.scans
    BY DEF IInv, ObserverInv
  <2> QED
    BY <1>1, <2>1, CursorTyped
<1>4. processed <= N.cursor
  BY <1>1, <1>2, CursorTyped
<1>5. CursorInv(mem)'
  BY <1>4 DEF CursorInv, RoutesInv, Due
<1>6. \A r \in Routes : SendLegal(r, mem.pending[r], ckpt, got[r], task[r], ready)'
  BY DEF SendLegal, TakenBy, Marked
<1>7. ObserverInv'
  BY <1>3, <1>5, <1>6 DEF ObserverInv, Live
<1> QED
  BY <1>7, OthersKept

-----------------------------------------------------------------------------
(* Steps of the observer. *)

\* What a step of the observer starts from.
LEMMA ObserverParts ==
  ASSUME IInv, Live
  PROVE  /\ TypeOK /\ IntakeOnce /\ GotInv /\ mem \in Cursor /\ CursorInv(mem) /\ made \in Nat
         /\ mem.cursor <= Len(intake) /\ processed <= mem.cursor /\ RoutesInv(mem, made)
         /\ processed \in Nat /\ mem.cursor \in Nat
         /\ \A r \in Routes : SendLegal(r, mem.pending[r], ckpt, got[r], task[r], ready)
         /\ pc # "save" => ready = {}
<1>1. /\ TypeOK /\ IntakeOnce /\ GotInv /\ mem \in Cursor /\ CursorInv(mem) /\ made \in Nat /\ processed \in Nat
      /\ \A r \in Routes : SendLegal(r, mem.pending[r], ckpt, got[r], task[r], ready)
      /\ pc # "save" => ready = {}
  BY DEF IInv, ObserverInv, TypeOK
<1> QED
  BY <1>1, CursorParts, CursorTyped

AtCursor(c, k) == [c EXCEPT !.cursor = k]
AtScan(c, k) == [c EXCEPT !.scans = k]
Overflowed(c) == [c EXCEPT !.overflowed = TRUE]

LEMMA CursorMoved ==
  ASSUME NEW c \in Cursor, NEW k \in Nat, NEW N, N = AtCursor(c, k)
  PROVE  /\ N \in Cursor /\ N.cursor = k /\ N.scans = c.scans
         /\ N.pending = c.pending /\ N.backlog = c.backlog /\ N.overflowed = c.overflowed
BY DEF Cursor, AtCursor

LEMMA ScanMoved ==
  ASSUME NEW c \in Cursor, NEW k \in 0 .. MaxScans, NEW N, N = AtScan(c, k)
  PROVE  /\ N \in Cursor /\ N.scans = k /\ N.cursor = c.cursor
         /\ N.pending = c.pending /\ N.backlog = c.backlog /\ N.overflowed = c.overflowed
BY DEF Cursor, AtScan

LEMMA CursorOverflowed ==
  ASSUME NEW c \in Cursor, NEW N, N = Overflowed(c)
  PROVE  /\ N \in Cursor /\ N.scans = c.scans /\ N.cursor = c.cursor
         /\ N.pending = c.pending /\ N.backlog = c.backlog /\ N.overflowed = TRUE
BY DEF Cursor, Overflowed

\* An event that does not fit is rolled back.
LEMMA OverflowedRoutes ==
  ASSUME TypeOK, NEW c \in Cursor, RoutesInv(c, made), NEW N, N = Overflowed(c)
  PROVE  RoutesInv(N, made + 1)
<1>1. /\ N \in Cursor /\ N.scans = c.scans /\ N.cursor = c.cursor
      /\ N.pending = c.pending /\ N.backlog = c.backlog /\ N.overflowed = TRUE
  BY CursorOverflowed
<1>2. RoutesInv(c, made + 1)
  BY RoutesLater DEF TypeOK
<1>3. Due(N) = Due(c)
  BY <1>1, DueOfNext
<1> QED
  BY <1>1, <1>2, <1>3 DEF RoutesInv, Covered

LEMMA ReadPushedKeeps ==
  ASSUME IInv, ReadPushed
  PROVE  IInv'
<1>1. pc = "read" /\ Live /\ ready = {} /\ pc' = "scan"
  BY ObserverParts DEF ReadPushed, Live
<1>2. /\ TypeOK /\ IntakeOnce /\ GotInv /\ mem \in Cursor /\ CursorInv(mem) /\ made \in Nat
      /\ mem.cursor <= Len(intake) /\ processed <= mem.cursor /\ RoutesInv(mem, made)
      /\ processed \in Nat /\ mem.cursor \in Nat
      /\ \A r \in Routes : SendLegal(r, mem.pending[r], ckpt, got[r], task[r], {})
  BY <1>1, ObserverParts
<1>3. PICK k : k = mem.cursor + 1
  OBVIOUS
<1>4. k \in Nat /\ (IF mem.cursor > processed THEN mem.cursor ELSE processed) + 1 = k
  BY <1>2, <1>3
<1>5. /\ UNCHANGED <<ckpt, intake, processed, got, state, ready, task, resume>>
      /\ IF k > Len(intake) THEN UNCHANGED <<mem, made, frozen>>
         ELSE /\ made' = made + 1
              /\ mem' = Absorbed(Enqueued(mem, {Pushed(intake[k])}), k)
              /\ frozen' = (frozen \/ Enqueued(mem, {Pushed(intake[k])}).overflowed)
  BY <1>4 DEF ReadPushed, db
<1>6. CASE k > Len(intake)
  <2>1. UNCHANGED <<mem, made, frozen>>
    BY <1>5, <1>6
  <2>2. TypeOK'
    BY <1>1, <1>2, <1>5, <2>1 DEF TypeOK
  <2>3. PICK N : N = mem
    OBVIOUS
  <2>4. /\ made' \in Nat /\ made <= made' /\ N \in Cursor /\ mem' = N /\ N.cursor <= Len(intake)
        /\ mem.cursor <= N.cursor /\ mem.scans <= N.scans /\ RoutesInv(N, made')
        /\ pc' \notin {"none", "start"} /\ (pc' # "save" => ready' = {})
        /\ \A r \in Routes : SendLegal(r, N.pending[r], ckpt, got[r], task'[r], ready')
    BY <1>1, <1>2, <1>5, <2>1, <2>3, CursorTyped
  <2> QED
    BY <1>1, <1>5, <2>2, <2>4, ObserverGoesOn DEF IInv
<1>7. CASE ~(k > Len(intake))
  <2>1. PICK es : es = {Pushed(intake[k])}
    OBVIOUS
  <2>n. PICK next : next = Enqueued(mem, es)
    OBVIOUS
  <2>2. k \in 1 .. Len(intake) /\ mem.cursor < k /\ intake[k] \in Pushes
    BY <1>2, <1>3, <1>7 DEF TypeOK
  <2>3. es \in SUBSET Events /\ Apart(es, Due(mem))
    <3>1. Pushed(intake[k]) \in Events
      BY <2>2 DEF Events
    <3>2. Pushed(intake[k]) \notin Due(mem)
      BY <1>2, <2>2, PushedIsNew
    <3> QED
      BY <2>1, <3>1, <3>2 DEF Apart
  <2>4. /\ next \in Cursor /\ next.cursor = mem.cursor /\ next.scans = mem.scans
        /\ mem.overflowed => next.overflowed
        /\ Extended(mem, next, es)
    BY <1>2, <2>n, <2>3, EnqueuedCursor
  <2>5. made' = made + 1 /\ mem' = Absorbed(next, k) /\ frozen' = (frozen \/ next.overflowed)
    BY <1>5, <1>7, <2>1, <2>n
  <2>6. made' \in Nat /\ made <= made' /\ frozen' \in BOOLEAN
    BY <1>2, <2>5, <2>4, CursorTyped DEF TypeOK
  <2>7. PICK N : N = mem'
    OBVIOUS
  <2>8. CASE next.overflowed
    <3>1. N = Overflowed(mem)
      BY <2>5, <2>7, <2>8 DEF Absorbed, Overflowed
    <3>2. N \in Cursor /\ N.scans = mem.scans /\ N.cursor = mem.cursor /\ N.pending = mem.pending
      BY <1>2, <3>1, CursorOverflowed
    <3>3. RoutesInv(N, made')
      BY <1>2, <2>5, <3>1, OverflowedRoutes
    <3>4. /\ N.cursor <= Len(intake) /\ mem.cursor <= N.cursor /\ mem.scans <= N.scans
          /\ pc' \notin {"none", "start"} /\ (pc' # "save" => ready' = {})
          /\ \A r \in Routes : SendLegal(r, N.pending[r], ckpt, got[r], task'[r], ready')
      BY <1>1, <1>2, <1>5, <3>2, CursorTyped
    <3>5. IntakeOnce' /\ GotInv' /\ CheckpointInv' /\ ObserverInv'
      BY <1>1, <1>5, <2>6, <2>7, <3>2, <3>3, <3>4, ObserverGoesOn
    <3>6. TypeOK'
      BY <1>1, <1>2, <1>5, <2>6, <2>7, <3>2 DEF TypeOK
    <3> QED
      BY <3>5, <3>6 DEF IInv
  <2>9. CASE ~next.overflowed
    <3>1. N = AtCursor(next, k)
      BY <2>5, <2>7, <2>9 DEF Absorbed, AtCursor
    <3>2. /\ N \in Cursor /\ N.scans = next.scans /\ N.cursor = k
          /\ N.pending = next.pending /\ N.backlog = next.backlog /\ N.overflowed = next.overflowed
      BY <1>4, <2>4, <3>1, CursorMoved
    <3>3. Due(N) = Due(mem) \cup es
      BY <1>2, <1>3, <2>1, <2>4, <3>2, DueOfNext
    <3>4. RoutesInv(N, made')
      <4>1. \A e \in es : next.overflowed => e[1] = "scan"
        BY <2>9
      <4> QED
        BY <1>2, <2>4, <2>5, <3>2, <3>3, <4>1, JoinedRoutes
    <3>5. ASSUME NEW r \in Routes
          PROVE  SendLegal(r, N.pending[r], ckpt, got[r], task'[r], ready')
      <4>1. Joined(mem.pending[r], mem.backlog[r], next.pending[r], next.backlog[r], got[r], made, es)
        BY <2>4, <2>9 DEF Extended
      <4>2. SendLegal(r, next.pending[r], ckpt, got[r], task[r], {})
        BY <1>2, <4>1, SendJoined
      <4> QED
        BY <1>1, <1>5, <3>2, <4>2
    <3>6. /\ N.cursor <= Len(intake) /\ mem.cursor <= N.cursor /\ mem.scans <= N.scans
          /\ pc' \notin {"none", "start"} /\ (pc' # "save" => ready' = {})
      BY <1>1, <1>2, <1>5, <2>2, <2>4, <3>2, CursorTyped
    <3>7. IntakeOnce' /\ GotInv' /\ CheckpointInv' /\ ObserverInv'
      BY <1>1, <1>5, <2>6, <2>7, <3>2, <3>4, <3>5, <3>6, ObserverGoesOn
    <3>8. TypeOK'
      BY <1>1, <1>2, <1>5, <2>6, <2>7, <3>2 DEF TypeOK
    <3> QED
      BY <3>7, <3>8 DEF IInv
  <2> QED
    BY <2>8, <2>9
<1> QED
  BY <1>6, <1>7

WithPending(c, P) == [c EXCEPT !.pending = P]

LEMMA PendingMoved ==
  ASSUME NEW c \in Cursor, NEW P \in [Routes -> Item \cup {None}], NEW N, N = WithPending(c, P)
  PROVE  /\ N \in Cursor /\ N.scans = c.scans /\ N.cursor = c.cursor
         /\ N.pending = P /\ N.backlog = c.backlog /\ N.overflowed = c.overflowed
BY DEF Cursor, WithPending

\* The change that Scan detects, if any, is routed.
Detected(n) == IF n = 0 THEN mem ELSE AtScan(Enqueued(mem, {Scanned(mem.scans + 1)}), mem.scans + 1)

LEMMA DetectedLegal ==
  ASSUME IInv, Live, ready = {}, NEW n \in 0 .. 1, mem.scans + n <= MaxScans, NEW next, next = Detected(n)
  PROVE  /\ next \in Cursor /\ next.cursor = mem.cursor /\ mem.scans <= next.scans
         /\ RoutesInv(next, made + n)
         /\ \A r \in Routes : SendLegal(r, next.pending[r], ckpt, got[r], task[r], {})
<1>1. /\ TypeOK /\ GotInv /\ mem \in Cursor /\ CursorInv(mem) /\ made \in Nat /\ RoutesInv(mem, made)
      /\ \A r \in Routes : SendLegal(r, mem.pending[r], ckpt, got[r], task[r], {})
  BY ObserverParts
<1>2. mem.scans \in Nat
  BY <1>1, CursorTyped
<1>3. CASE n = 0
  <2>1. next = mem /\ made + n = made
    BY <1>1, <1>3 DEF Detected
  <2> QED
    BY <1>1, <1>2, <2>1
<1>4. CASE n = 1
  <2>1. PICK es : es = {Scanned(mem.scans + 1)}
    OBVIOUS
  <2>2. PICK N : N = Enqueued(mem, es)
    OBVIOUS
  <2>3. PICK k : k = mem.scans + 1
    OBVIOUS
  <2>4. k \in 0 .. MaxScans /\ k \in 1 .. MaxScans /\ mem.scans <= k
    BY <1>2, <1>4, <2>3
  <2>5. es \in SUBSET Events /\ Apart(es, Due(mem))
    <3>1. Scanned(k) \in Events
      BY <2>4 DEF Events
    <3>2. Scanned(k) \notin Due(mem)
      BY <1>1, <2>3, ScannedIsNew
    <3> QED
      BY <2>1, <2>3, <3>1, <3>2 DEF Apart
  <2>6. /\ N \in Cursor /\ N.cursor = mem.cursor /\ N.scans = mem.scans
        /\ mem.overflowed => N.overflowed
        /\ Extended(mem, N, es)
    BY <1>1, <2>2, <2>5, EnqueuedCursor
  <2>7. next = AtScan(N, k)
    BY <1>4, <2>1, <2>2, <2>3 DEF Detected
  <2>8. /\ next \in Cursor /\ next.scans = k /\ next.cursor = N.cursor
        /\ next.pending = N.pending /\ next.backlog = N.backlog /\ next.overflowed = N.overflowed
    BY <2>4, <2>6, <2>7, ScanMoved
  <2>9. Due(next) = Due(mem) \cup es
    BY <1>1, <2>1, <2>3, <2>6, <2>8, DueOfNext
  <2>10. \A e \in es : N.overflowed => e[1] = "scan"
    BY <2>1 DEF Scanned
  <2>11. RoutesInv(next, made + 1)
    BY <1>1, <2>6, <2>8, <2>9, <2>10, JoinedRoutes
  <2>12. ASSUME NEW r \in Routes
         PROVE  SendLegal(r, next.pending[r], ckpt, got[r], task[r], {})
    <3>1. CASE Joined(mem.pending[r], mem.backlog[r], N.pending[r], N.backlog[r], got[r], made, es)
      <4>1. SendLegal(r, N.pending[r], ckpt, got[r], task[r], {})
        BY <1>1, <3>1, SendJoined
      <4> QED
        BY <2>8, <4>1
    <3>2. CASE N.pending[r] = mem.pending[r]
      BY <1>1, <2>8, <3>2
    <3> QED
      BY <2>6, <3>1, <3>2 DEF Extended
  <2> QED
    BY <1>4, <2>4, <2>6, <2>8, <2>11, <2>12
<1>5. n = 0 \/ n = 1
  OBVIOUS
<1> QED
  BY <1>3, <1>4, <1>5

LEMMA ScanKeeps ==
  ASSUME IInv, Scan
  PROVE  IInv'
<1>1. pc = "scan" /\ Live /\ ready = {} /\ pc' = "save"
  BY ObserverParts DEF Scan, Live
<1>2. /\ TypeOK /\ mem \in Cursor /\ made \in Nat
      /\ mem.cursor <= Len(intake) /\ mem.cursor \in Nat
  BY <1>1, ObserverParts
<1>3. PICK n \in 0 .. 1, backoff \in SUBSET Routes :
        /\ mem.scans + n <= MaxScans
        /\ LET next == IF n = 0 THEN mem
                       ELSE [Enqueued(mem, {Scanned(mem.scans + 1)}) EXCEPT !.scans = @ + 1]
               due == {r \in Held(next) : /\ ~next.overflowed /\ ~next.pending[r].paused
                                          /\ task[r] = "none" /\ r \notin backoff}
           IN  /\ ready' = due
               /\ frozen' = (frozen \/ next.overflowed)
               /\ mem' = [next EXCEPT !.pending = [r \in Routes |->
                             IF r \in due THEN InFlight(next.pending[r]) ELSE next.pending[r]]]
        /\ made' = made + n
  BY DEF Scan
<1>4. PICK next : next = IF n = 0 THEN mem ELSE [Enqueued(mem, {Scanned(mem.scans + 1)}) EXCEPT !.scans = @ + 1]
  OBVIOUS
<1>5. PICK due : due = {r \in Held(next) : /\ ~next.overflowed /\ ~next.pending[r].paused
                                           /\ task[r] = "none" /\ r \notin backoff}
  OBVIOUS
<1>6. PICK P : P = [r \in Routes |-> IF r \in due THEN InFlight(next.pending[r]) ELSE next.pending[r]]
  OBVIOUS
<1>7. ready' = due /\ frozen' = (frozen \/ next.overflowed) /\ mem' = WithPending(next, P) /\ made' = made + n
  BY <1>3, <1>4, <1>5, <1>6 DEF WithPending
<1>8. UNCHANGED <<ckpt, intake, processed, got, state, task, resume>>
  BY DEF Scan, db
<1>9. next = Detected(n)
  <2>1. CASE n = 0
    BY <1>4, <2>1 DEF Detected
  <2>2. CASE n = 1
    <3>1. PICK es : es = {Scanned(mem.scans + 1)}
      OBVIOUS
    <3>2. PICK N : N = Enqueued(mem, es)
      OBVIOUS
    <3>3. N.scans = mem.scans
      BY <3>2 DEF Enqueued
    <3>4. next = [N EXCEPT !.scans = N.scans + 1]
      BY <1>4, <2>2, <3>1, <3>2
    <3>5. Detected(n) = AtScan(N, mem.scans + 1)
      BY <2>2, <3>1, <3>2 DEF Detected
    <3> QED
      BY <3>3, <3>4, <3>5 DEF AtScan
  <2> QED
    BY <2>1, <2>2
<1>10. /\ next \in Cursor /\ next.cursor = mem.cursor /\ mem.scans <= next.scans
       /\ RoutesInv(next, made + n)
       /\ \A r \in Routes : SendLegal(r, next.pending[r], ckpt, got[r], task[r], {})
  BY <1>1, <1>3, <1>9, DetectedLegal
<1>11. \A r \in due : /\ r \in Routes /\ next.pending[r] \in Item /\ ~next.pending[r].paused /\ task[r] = "none"
                      /\ InFlight(next.pending[r]) \in Item
  <2>1. \A r \in due : r \in Routes /\ next.pending[r] \in Item /\ ~next.pending[r].paused /\ task[r] = "none"
    BY <1>5, <1>10, CursorTyped DEF Held
  <2> QED
    BY <2>1, ItemMarked
<1>12. P \in [Routes -> Item \cup {None}]
  BY <1>6, <1>10, <1>11, CursorTyped
<1>13. PICK N : N = mem'
  OBVIOUS
<1>14. /\ N \in Cursor /\ N.scans = next.scans /\ N.cursor = next.cursor
       /\ N.pending = P /\ N.backlog = next.backlog /\ N.overflowed = next.overflowed
  BY <1>7, <1>10, <1>12, <1>13, PendingMoved
<1>15. RoutesInv(N, made')
  <2>1. Due(N) = Due(next)
    BY <1>10, <1>14, DueOfNext
  <2>2. \A r \in Routes : \/ N.pending[r] = next.pending[r]
                          \/ next.pending[r] \in Item /\ N.pending[r] = InFlight(next.pending[r])
    BY <1>6, <1>11, <1>14
  <2> QED
    BY <1>7, <1>10, <1>14, <2>1, <2>2, MarkedRoutes
<1>16. ASSUME NEW r \in Routes
       PROVE  SendLegal(r, N.pending[r], ckpt, got[r], task'[r], ready')
  <2>1. SendLegal(r, next.pending[r], ckpt, got[r], task[r], {})
    BY <1>10
  <2>2. CASE r \in due
    <3>1. N.pending[r] = InFlight(next.pending[r]) /\ task[r] = "none"
      BY <1>6, <1>11, <1>14, <2>2
    <3>2. SendLegal(r, InFlight(next.pending[r]), ckpt, got[r], "none", due)
      BY <1>11, <2>1, <2>2, <3>1, SendMarked
    <3> QED
      BY <1>7, <1>8, <3>1, <3>2
  <2>3. CASE r \notin due
    <3>1. N.pending[r] = next.pending[r]
      BY <1>6, <1>14, <2>3
    <3>2. SendLegal(r, next.pending[r], ckpt, got[r], task[r], due)
      BY <2>1, <2>3 DEF SendLegal
    <3> QED
      BY <1>7, <1>8, <3>1, <3>2
  <2> QED
    BY <2>2, <2>3
<1>17. made' \in Nat /\ made <= made' /\ N.cursor <= Len(intake) /\ mem.cursor <= N.cursor /\ mem.scans <= N.scans
  BY <1>2, <1>7, <1>10, <1>14
<1>18. pc' \notin {"none", "start"} /\ (pc' # "save" => ready' = {})
  BY <1>1
<1>19. IntakeOnce' /\ GotInv' /\ CheckpointInv' /\ ObserverInv'
  BY <1>1, <1>8, <1>13, <1>14, <1>15, <1>16, <1>17, <1>18, ObserverGoesOn
<1>20. ready' \subseteq Routes /\ frozen' \in BOOLEAN
  BY <1>2, <1>7, <1>10, <1>11, CursorTyped DEF TypeOK
<1>21. TypeOK'
  BY <1>1, <1>2, <1>8, <1>13, <1>14, <1>17, <1>20 DEF TypeOK
<1> QED
  BY <1>19, <1>21 DEF IInv

-----------------------------------------------------------------------------
(* Results of the sends. *)

LEMMA ItemUnpaused ==
  ASSUME NEW q \in Item
  PROVE  Unpaused(q) \in Item
BY DEF Item, Unpaused

LEMMA ItemGivenBack ==
  ASSUME NEW q \in Item
  PROVE  GivenBack(q) \in Item
BY DEF Item, GivenBack

LEMMA ItemSetAside ==
  ASSUME NEW q \in Item, NEW lost \in BOOLEAN
  PROVE  SetAside(q, lost) \in Item
BY DEF Item, SetAside

\* Item p is item q with other marks, but for its attempt.
SameDelivery(p, q) ==
  p \in Item /\ q \in Item /\ p.id = q.id /\ p.events = q.events /\ p.tried = q.tried

LEMMA UnpausedMarks ==
  ASSUME NEW q \in Item, NEW p, p = Unpaused(q)
  PROVE  SameDelivery(p, q) /\ p.inflight = q.inflight /\ p.terminal = q.terminal
BY ItemUnpaused DEF SameDelivery, Unpaused, Item

LEMMA GivenBackMarks ==
  ASSUME NEW q \in Item, NEW p, p = GivenBack(q)
  PROVE  SameDelivery(p, q) /\ p.terminal = q.terminal
BY ItemGivenBack DEF SameDelivery, GivenBack, Item

LEMMA SetAsideMarks ==
  ASSUME NEW q \in Item, NEW lost \in BOOLEAN, NEW p, p = SetAside(q, lost)
  PROVE  SameDelivery(p, q) /\ p.terminal = lost /\ p.paused = TRUE
<1>1. p \in Item
  BY ItemSetAside
<1>2. p.id = q.id /\ p.events = q.events /\ p.tried = q.tried /\ p.terminal = lost /\ p.paused = TRUE
  BY DEF SetAside, Item
<1> QED
  BY <1>1, <1>2 DEF SameDelivery

\* Marks do not matter to what is kept.
LEMMA SameKept ==
  ASSUME NEW p, NEW q, SameDelivery(p, q), NEW b, NEW g, NEW n, NEW D, NEW o, Distinct(q, b, g, n), Covered(q, b, g, D, o)
  PROVE  /\ Distinct(p, b, g, n) /\ Covered(p, b, g, D, o) /\ (TakenBy(g, p) <=> TakenBy(g, q))
         /\ p # None /\ q # None
<1>1. p # None /\ q # None /\ p.id = q.id /\ p.events = q.events /\ p.tried = q.tried
  BY ItemParts DEF SameDelivery
<1>2. Distinct(p, b, g, n)
  BY <1>1 DEF Distinct
<1>3. Covered(p, b, g, D, o)
  BY <1>1 DEF Covered, KeptIn
<1>4. TakenBy(g, p) <=> TakenBy(g, q)
  BY <1>1 DEF TakenBy
<1> QED
  BY <1>1, <1>2, <1>3, <1>4

\* A delivery that succeeded was taken: its events are with the handler, and the
\* backlog takes its place.
LEMMA SucceededKept ==
  ASSUME NEW q \in Item, NEW b \in Delivery \cup {None}, NEW g, NEW n \in Nat, NEW D, NEW o,
         Distinct(q, b, g, n), Covered(q, b, g, D, o), TakenBy(g, q),
         NEW p, p = IF b = None THEN None ELSE NewItem(b)
  PROVE  /\ p \in Item \cup {None} /\ Distinct(p, None, g, n) /\ Covered(p, None, g, D, o)
         /\ ~TakenBy(g, p) /\ (p # None => p.terminal = FALSE)
<1>1. q # None
  BY ItemParts
<1>2. q.events \subseteq TakenIn(g)
  <2>1. PICK k \in DOMAIN g : g[k].id = q.id
    BY DEF TakenBy
  <2>2. g[k].events = q.events
    BY <1>1, <2>1 DEF Distinct
  <2> QED
    BY <2>1, <2>2 DEF TakenIn
<1>3. CASE b = None
  <2>1. p = None
    BY <1>3
  <2> QED
    BY <1>1, <1>2, <1>3, <2>1 DEF Distinct, Covered, KeptIn, TakenBy
<1>4. CASE b # None
  <2>1. b \in Delivery /\ p = NewItem(b)
    BY <1>4
  <2>2. p \in Item /\ p # None /\ p.id = b.id /\ p.events = b.events /\ p.tried = FALSE /\ p.terminal = FALSE
    BY <2>1, NewItemTyped
  <2>3. b.id[1] < n /\ \A k \in DOMAIN g : g[k].id # b.id /\ g[k].events \cap b.events = {}
    BY <1>4 DEF Distinct
  <2>4. Distinct(p, None, g, n) /\ ~TakenBy(g, p)
    BY <2>2, <2>3 DEF Distinct, TakenBy
  <2>5. KeptIn(p, None) = b.events /\ KeptIn(q, b) = q.events \cup b.events
    BY <1>1, <1>4, <2>2 DEF KeptIn
  <2>6. Covered(p, None, g, D, o)
    BY <1>2, <2>5 DEF Covered
  <2> QED
    BY <2>2, <2>4, <2>6
<1> QED
  BY <1>3, <1>4

Results == {"succeeded", "retry", "paused", "unknown", "unknown-durable"}

\* Resumed deliveries are no longer paused, when none is terminal.
LEMMA UnpausedSend ==
  ASSUME NEW r, NEW q \in Item, NEW c, NEW g, NEW t, SendLegal(r, q, c, g, t, {}), ~q.terminal
  PROVE  SendLegal(r, Unpaused(q), c, g, t, {})
<1>1. PICK p : p = Unpaused(q)
  OBVIOUS
<1>2. SameDelivery(p, q) /\ p.inflight = q.inflight /\ p.terminal = q.terminal
  BY <1>1, UnpausedMarks
<1>3. p # None /\ q # None /\ p.id = q.id /\ p.events = q.events /\ p.tried = q.tried
  BY <1>2, ItemParts DEF SameDelivery
<1>4. TakenBy(g, p) <=> TakenBy(g, q)
  BY <1>3 DEF TakenBy
<1>5. SendLegal(r, p, c, g, t, {})
  BY <1>2, <1>3, <1>4 DEF SendLegal, Marked
<1> QED
  BY <1>1, <1>5

\* The loop settles the result t of a route.
LEMMA SettledRoute ==
  ASSUME NEW r, NEW q \in Item \cup {None}, NEW b \in Delivery \cup {None}, NEW c, NEW g, NEW n \in Nat, NEW D, NEW o,
         NEW t \in Results, Distinct(q, b, g, n), Covered(q, b, g, D, o), SendLegal(r, q, c, g, t, {}),
         NEW p, p = CASE t = "succeeded" -> (IF b = None THEN None ELSE NewItem(b))
                      [] t = "retry" -> GivenBack(q)
                      [] OTHER -> SetAside(q, t = "unknown"),
         NEW x, x = IF t = "succeeded" THEN None ELSE b
  PROVE  /\ p \in Item \cup {None} /\ x \in Delivery \cup {None}
         /\ Distinct(p, x, g, n) /\ Covered(p, x, g, D, o) /\ SendLegal(r, p, c, g, "none", {})
<1>1. Marked(q) /\ q \in Item /\ q # None /\ ~q.terminal
  BY DEF SendLegal, Results, Marked
<1>2. CASE t = "succeeded"
  <2>1. TakenBy(g, q) /\ p = (IF b = None THEN None ELSE NewItem(b)) /\ x = None
    BY <1>2 DEF SendLegal
  <2>2. /\ p \in Item \cup {None} /\ Distinct(p, None, g, n) /\ Covered(p, None, g, D, o)
        /\ ~TakenBy(g, p) /\ (p # None => p.terminal = FALSE)
    BY <1>1, <2>1, SucceededKept
  <2>3. SendLegal(r, p, c, g, "none", {})
    BY <2>2 DEF SendLegal
  <2> QED
    BY <2>1, <2>2, <2>3
<1>3. CASE t = "retry"
  <2>1. p = GivenBack(q) /\ x = b
    BY <1>3
  <2>2. SameDelivery(p, q) /\ p.terminal = q.terminal
    BY <1>1, <2>1, GivenBackMarks
  <2>3. Distinct(p, b, g, n) /\ Covered(p, b, g, D, o) /\ (TakenBy(g, p) <=> TakenBy(g, q))
    BY <2>2, SameKept
  <2>4. TakenBy(g, q) => r \in RetrySafe
    BY <1>1, <1>3 DEF SendLegal
  <2>5. SendLegal(r, p, c, g, "none", {})
    BY <1>1, <2>2, <2>3, <2>4 DEF SendLegal
  <2> QED
    BY <2>1, <2>2, <2>3, <2>5 DEF SameDelivery
<1>4. CASE t \notin {"succeeded", "retry"}
  <2>1. PICK lost \in BOOLEAN : lost = (t = "unknown")
    OBVIOUS
  <2>2. p = SetAside(q, lost) /\ x = b
    BY <1>4, <2>1
  <2>3. SameDelivery(p, q) /\ p.terminal = lost /\ p.paused = TRUE
    BY <1>1, <2>2, SetAsideMarks
  <2>4. Distinct(p, b, g, n) /\ Covered(p, b, g, D, o) /\ (TakenBy(g, p) <=> TakenBy(g, q))
    BY <2>3, SameKept
  <2>5. TakenBy(g, q) /\ r \notin RetrySafe => t = "unknown"
    BY <1>1, <1>4 DEF SendLegal, Results
  <2>6. SendLegal(r, p, c, g, "none", {})
    BY <2>1, <2>3, <2>4, <2>5 DEF SendLegal
  <2> QED
    BY <2>2, <2>3, <2>4, <2>6 DEF SameDelivery
<1> QED
  BY <1>2, <1>3, <1>4

LEMMA UnfrozenLegal ==
  ASSUME IInv, Live, ready = {}, NEW w, w = IF resume THEN Unfrozen(mem) ELSE mem
  PROVE  /\ w \in Cursor /\ w.cursor = mem.cursor /\ w.scans = mem.scans /\ RoutesInv(w, made)
         /\ \A r \in Routes : SendLegal(r, w.pending[r], ckpt, got[r], task[r], {})
<1>1. /\ mem \in Cursor /\ RoutesInv(mem, made)
      /\ \A r \in Routes : SendLegal(r, mem.pending[r], ckpt, got[r], task[r], {})
  BY ObserverParts
<1>2. PICK P : P = [r \in Routes |-> IF mem.pending[r] = None THEN None ELSE Unpaused(mem.pending[r])]
  OBVIOUS
<1>3. CASE w = mem
  BY <1>1, <1>3
<1>4. CASE w # mem
  <2>1. w = WithPending(mem, P) /\ Terminal(mem) = {}
    BY <1>2, <1>4 DEF Unfrozen, WithPending
  <2>2. \A r \in Routes : mem.pending[r] # None => mem.pending[r] \in Item /\ ~mem.pending[r].terminal
    BY <1>1, <2>1, CursorTyped DEF Terminal, Held
  <2>3. P \in [Routes -> Item \cup {None}]
    BY <1>2, <2>2, ItemUnpaused
  <2>4. /\ w \in Cursor /\ w.scans = mem.scans /\ w.cursor = mem.cursor
        /\ w.pending = P /\ w.backlog = mem.backlog /\ w.overflowed = mem.overflowed
    BY <1>1, <2>1, <2>3, PendingMoved
  <2>5. Due(w) = Due(mem)
    BY <1>1, <2>4, DueOfNext
  <2>6. ASSUME NEW r \in Routes
        PROVE  /\ Distinct(w.pending[r], w.backlog[r], got[r], made)
               /\ Covered(w.pending[r], w.backlog[r], got[r], Due(w), w.overflowed)
               /\ SendLegal(r, w.pending[r], ckpt, got[r], task[r], {})
    <3>1. /\ Distinct(mem.pending[r], mem.backlog[r], got[r], made)
          /\ Covered(mem.pending[r], mem.backlog[r], got[r], Due(mem), mem.overflowed)
          /\ SendLegal(r, mem.pending[r], ckpt, got[r], task[r], {})
      BY <1>1 DEF RoutesInv
    <3>2. CASE mem.pending[r] = None
      <4>1. w.pending[r] = mem.pending[r]
        BY <1>2, <2>4, <3>2
      <4> QED
        BY <2>4, <2>5, <3>1, <4>1
    <3>3. CASE mem.pending[r] # None
      <4>1. PICK p, q, b : p = w.pending[r] /\ q = mem.pending[r] /\ b = mem.backlog[r]
        OBVIOUS
      <4>2. p = Unpaused(q) /\ q \in Item /\ ~q.terminal
        BY <1>2, <2>2, <2>4, <3>3, <4>1
      <4>3. SameDelivery(p, q)
        BY <4>2, UnpausedMarks
      <4>4. Distinct(q, b, got[r], made) /\ Covered(q, b, got[r], Due(mem), mem.overflowed)
        BY <3>1, <4>1
      <4>5. Distinct(p, b, got[r], made) /\ Covered(p, b, got[r], Due(mem), mem.overflowed)
        BY <4>3, <4>4, SameKept
      <4>6. SendLegal(r, q, ckpt, got[r], task[r], {})
        BY <3>1, <4>1
      <4>7. SendLegal(r, Unpaused(q), ckpt, got[r], task[r], {})
        BY <4>2, <4>6, UnpausedSend
      <4> QED
        BY <2>4, <2>5, <4>1, <4>2, <4>5, <4>7
    <3> QED
      BY <3>2, <3>3
  <2>7. RoutesInv(w, made)
    BY <2>6 DEF RoutesInv
  <2> QED
    BY <2>4, <2>6, <2>7
<1> QED
  BY <1>3, <1>4

Resettled(c, P, B) == [c EXCEPT !.pending = P, !.backlog = B]

LEMMA CursorResettled ==
  ASSUME NEW c \in Cursor, NEW P \in [Routes -> Item \cup {None}], NEW B \in [Routes -> Delivery \cup {None}],
         NEW N, N = Resettled(c, P, B)
  PROVE  /\ N \in Cursor /\ N.cursor = c.cursor /\ N.scans = c.scans
         /\ N.pending = P /\ N.backlog = B /\ N.overflowed = c.overflowed
BY DEF Cursor, Resettled

LEMMA RoundKeeps ==
  ASSUME IInv, Round
  PROVE  IInv'
<1>1. pc = "top" /\ Live /\ ready = {} /\ ready' = {} /\ resume' = FALSE
  BY ObserverParts DEF Round, Live
<1>2. /\ TypeOK /\ mem \in Cursor /\ made \in Nat
      /\ mem.cursor <= Len(intake) /\ mem.cursor \in Nat
  BY <1>1, ObserverParts
<1>3. PICK w : w = IF resume THEN Unfrozen(mem) ELSE mem
  OBVIOUS
<1>4. PICK N : N = Concluded(w)
  OBVIOUS
<1>5. /\ mem' = N /\ pc' \in {"save", "read", "scan"} /\ frozen' \in BOOLEAN
      /\ task' = [r \in Routes |-> TaskAfter(r)]
  <2>1. mem' = N /\ task' = [r \in Routes |-> TaskAfter(r)]
    BY <1>3, <1>4 DEF Round
  <2>2. pc' \in {"save", "read", "scan"}
    BY DEF Round
  <2>3. frozen' \in BOOLEAN
    BY DEF Round
  <2> QED
    BY <2>1, <2>2, <2>3
<1>6. UNCHANGED <<ckpt, intake, processed, got, state, made>>
  BY DEF Round, db
<1>7. /\ w \in Cursor /\ w.cursor = mem.cursor /\ w.scans = mem.scans /\ RoutesInv(w, made)
      /\ \A r \in Routes : SendLegal(r, w.pending[r], ckpt, got[r], task[r], {})
  BY <1>1, <1>3, UnfrozenLegal
<1>8. PICK P, B : /\ P = [r \in Routes |-> ConcludedItem(w, r)]
                  /\ B = [r \in Routes |-> IF task[r] = "succeeded" THEN None ELSE w.backlog[r]]
  OBVIOUS
<1>9. N = Resettled(w, P, B)
  BY <1>4, <1>8 DEF Concluded, Resettled
<1>10. ASSUME NEW r \in Routes
       PROVE  /\ P[r] \in Item \cup {None} /\ B[r] \in Delivery \cup {None}
              /\ Distinct(P[r], B[r], got[r], made)
              /\ Covered(P[r], B[r], got[r], Due(w), w.overflowed)
              /\ SendLegal(r, P[r], ckpt, got[r], task'[r], {})
  <2>1. PICK q, b, p, x, t : /\ q = w.pending[r] /\ b = w.backlog[r] /\ p = P[r] /\ x = B[r] /\ t = task[r]
    OBVIOUS
  <2>2. /\ Distinct(q, b, got[r], made) /\ Covered(q, b, got[r], Due(w), w.overflowed)
        /\ SendLegal(r, q, ckpt, got[r], t, {}) /\ q \in Item \cup {None} /\ b \in Delivery \cup {None}
    BY <1>7, <2>1, CursorTyped DEF RoutesInv
  <2>3. p = ConcludedItem(w, r) /\ x = IF t = "succeeded" THEN None ELSE b
    BY <1>8, <2>1
  <2>4. CASE r \in Finished
    <3>1. t \in Results /\ task'[r] = "none"
      BY <1>5, <2>1, <2>4 DEF Finished, Results, TaskAfter
    <3>2. p = CASE t = "succeeded" -> (IF b = None THEN None ELSE NewItem(b))
                [] t = "retry" -> GivenBack(q)
                [] OTHER -> SetAside(q, t = "unknown")
      <4>1. CASE t = "succeeded"
        BY <2>1, <2>3, <2>4, <4>1 DEF ConcludedItem
      <4>2. CASE t = "retry"
        BY <2>1, <2>3, <2>4, <4>2 DEF ConcludedItem
      <4>3. CASE t \notin {"succeeded", "retry"}
        BY <2>1, <2>3, <2>4, <4>3 DEF ConcludedItem
      <4> QED
        BY <4>1, <4>2, <4>3
    <3>3. PICK D, o : D = Due(w) /\ o = w.overflowed
      OBVIOUS
    <3>4. PICK c, g : c = ckpt /\ g = got[r]
      OBVIOUS
    <3>5. /\ p \in Item \cup {None} /\ x \in Delivery \cup {None}
          /\ Distinct(p, x, g, made) /\ Covered(p, x, g, D, o) /\ SendLegal(r, p, c, g, "none", {})
      <4>1. Distinct(q, b, g, made) /\ Covered(q, b, g, D, o) /\ SendLegal(r, q, c, g, t, {})
        BY <2>2, <3>3, <3>4
      <4> QED
        BY <1>2, <2>2, <2>3, <3>1, <3>2, <4>1, SettledRoute
    <3> QED
      BY <2>1, <3>1, <3>3, <3>4, <3>5
  <2>5. CASE r \notin Finished
    <3>1. p = q /\ x = b /\ task'[r] = t
      <4>1. t # "succeeded" /\ t # "retry"
        BY <2>1, <2>5 DEF Finished
      <4>2. task'[r] = t
        BY <1>5, <2>1, <2>5 DEF TaskAfter
      <4>3. p = q
        BY <2>1, <2>3, <2>5, <4>1 DEF ConcludedItem
      <4> QED
        BY <2>3, <4>1, <4>2, <4>3
    <3> QED
      BY <2>1, <2>2, <3>1
  <2> QED
    BY <2>4, <2>5
<1>11. P \in [Routes -> Item \cup {None}] /\ B \in [Routes -> Delivery \cup {None}]
  <2>1. P = [r \in Routes |-> P[r]] /\ B = [r \in Routes |-> B[r]]
    BY <1>8
  <2> QED
    BY <1>10, <2>1
<1>12. /\ N \in Cursor /\ N.cursor = w.cursor /\ N.scans = w.scans
       /\ N.pending = P /\ N.backlog = B /\ N.overflowed = w.overflowed
  BY <1>7, <1>9, <1>11, CursorResettled
<1>13. RoutesInv(N, made')
  <2>1. Due(N) = Due(w)
    BY <1>7, <1>12, DueOfNext
  <2> QED
    BY <1>6, <1>10, <1>12, <2>1 DEF RoutesInv
<1>14. /\ made' \in Nat /\ made <= made' /\ N.cursor <= Len(intake) /\ mem.cursor <= N.cursor /\ mem.scans <= N.scans
       /\ pc' \notin {"none", "start"} /\ (pc' # "save" => ready' = {})
  BY <1>1, <1>2, <1>5, <1>6, <1>7, <1>12, CursorTyped
<1>15. \A r \in Routes : SendLegal(r, N.pending[r], ckpt, got[r], task'[r], ready')
  BY <1>1, <1>10, <1>12
<1>16. IntakeOnce' /\ GotInv' /\ CheckpointInv' /\ ObserverInv'
  BY <1>1, <1>5, <1>6, <1>12, <1>13, <1>14, <1>15, ObserverGoesOn
<1>17. task' \in [Routes -> {"none", "sending", "taken", "succeeded", "retry", "paused", "unknown", "unknown-durable"}]
  BY <1>2, <1>5 DEF TypeOK, TaskAfter
<1>18. TypeOK'
  BY <1>1, <1>2, <1>5, <1>6, <1>12, <1>17 DEF TypeOK
<1> QED
  BY <1>16, <1>18 DEF IInv

-----------------------------------------------------------------------------
(* Checkpoints, and the task's beginning and end. *)

LEMMA CommittedLegal ==
  ASSUME IInv, pc = "save", Committed, UNCHANGED <<intake, got, made>>
  PROVE  /\ IntakeOnce' /\ GotInv' /\ CheckpointInv' /\ ckpt' = mem /\ mem \in Cursor /\ mem # None
         /\ processed' \in 0 .. Len(intake') /\ processed' = mem.cursor
<1>1. Live
  BY DEF Live
<1>2. /\ TypeOK /\ IntakeOnce /\ GotInv /\ mem \in Cursor /\ made \in Nat
      /\ mem.cursor <= Len(intake) /\ processed <= mem.cursor /\ RoutesInv(mem, made)
      /\ processed \in Nat /\ mem.cursor \in Nat
      /\ \A r \in Routes : SendLegal(r, mem.pending[r], ckpt, got[r], task[r], ready)
  BY <1>1, ObserverParts
<1>3. mem # None /\ ckpt' = mem
  BY <1>2, CursorTyped DEF Committed
<1>4. processed' = mem.cursor /\ processed' \in 0 .. Len(intake')
  BY <1>2 DEF Committed, TypeOK
<1>5. CursorInv(ckpt)'
  <2>1. ckpt'.cursor <= Len(intake') /\ processed' <= ckpt'.cursor
    BY <1>2, <1>3, <1>4
  <2>2. PICK c : c = mem
    OBVIOUS
  <2>3. RoutesInv(c, made) /\ ckpt' = c
    BY <1>2, <1>3, <2>2
  <2> QED
    BY <2>1, <2>3 DEF CursorInv, RoutesInv, Due
<1>6. ASSUME NEW r \in Routes \ RetrySafe, TakenBy(got[r], mem.pending[r])
      PROVE  mem.pending[r].inflight \/ mem.pending[r].terminal
  <2>1. SendLegal(r, mem.pending[r], ckpt, got[r], task[r], ready)
    BY <1>2
  <2> QED
    BY <1>6, <2>1 DEF SendLegal, Marked
<1>7. CheckpointInv'
  BY <1>3, <1>5, <1>6 DEF CheckpointInv
<1>8. IntakeOnce' /\ GotInv'
  BY <1>2 DEF IntakeOnce, GotInv
<1> QED
  BY <1>2, <1>3, <1>4, <1>7, <1>8

LEMMA SaveKeeps ==
  ASSUME IInv, Save
  PROVE  IInv'
<1>1. pc = "save" /\ Live /\ Committed /\ UNCHANGED <<state, intake, mem, resume, frozen, got, made>>
  BY DEF Save, Live
<1>2. /\ TypeOK /\ mem \in Cursor /\ made \in Nat /\ mem.cursor <= Len(intake) /\ RoutesInv(mem, made)
      /\ \A r \in Routes : SendLegal(r, mem.pending[r], ckpt, got[r], task[r], ready)
  BY <1>1, ObserverParts
<1>3. /\ IntakeOnce' /\ GotInv' /\ CheckpointInv' /\ ckpt' = mem /\ mem # None
      /\ processed' \in 0 .. Len(intake') /\ processed' = mem.cursor
  BY <1>1, CommittedLegal
<1>4. /\ task' = [r \in Routes |-> IF r \in ready THEN "sending" ELSE task[r]]
      /\ ready' = {} /\ pc' = "sleep"
  BY DEF Save
<1>5. ASSUME NEW r \in Routes
      PROVE  SendLegal(r, mem.pending[r], mem, got[r], task'[r], {})
  <2>1. SendLegal(r, mem.pending[r], ckpt, got[r], task[r], ready)
    BY <1>2
  <2>2. CASE r \in ready
    <3>1. task'[r] = "sending" /\ task[r] = "none" /\ Marked(mem.pending[r])
      BY <1>4, <2>1, <2>2 DEF SendLegal
    <3> QED
      BY <1>3, <2>1, <3>1 DEF SendLegal, Marked
  <2>3. CASE r \notin ready
    <3>1. task'[r] = task[r]
      BY <1>4, <2>3
    <3> QED
      BY <1>3, <2>1, <3>1 DEF SendLegal
  <2> QED
    BY <2>2, <2>3
<1>6. CursorInv(mem)'
  <2>1. mem'.cursor <= Len(intake') /\ processed' <= mem'.cursor
    BY <1>1, <1>2, <1>3, CursorTyped
  <2> QED
    BY <1>1, <1>2, <2>1 DEF CursorInv, RoutesInv, Due
<1>7. ObserverInv'
  <2>1. \A r \in Routes : SendLegal(r, mem.pending[r], ckpt, got[r], task[r], ready)'
    BY <1>1, <1>3, <1>4, <1>5
  <2>2. ckpt'.cursor <= mem'.cursor /\ ckpt'.scans <= mem'.scans
    BY <1>1, <1>2, <1>3, CursorTyped
  <2> QED
    BY <1>4, <1>6, <2>1, <2>2 DEF ObserverInv, Live
<1>8. TypeOK'
  <2>1. task' \in [Routes -> {"none", "sending", "taken", "succeeded", "retry", "paused", "unknown", "unknown-durable"}]
    BY <1>2, <1>4 DEF TypeOK
  <2> QED
    BY <1>1, <1>2, <1>3, <1>4, <2>1 DEF TypeOK
<1> QED
  BY <1>3, <1>7, <1>8 DEF IInv

NoTasks == [r \in Routes |-> "none"]

\* The task ends, or has not begun: nothing is being sent.
LEMMA TaskEnds ==
  ASSUME IInv, UNCHANGED <<ckpt, intake, processed, got, made, mem>>,
         pc' \in {"none", "start"}, ready' = {}, task' = NoTasks, resume' \in BOOLEAN, frozen' \in BOOLEAN,
         state' \in {"running", "paused", "cancelled", "needs-review"}
  PROVE  IInv'
<1>1. TypeOK'
  BY DEF IInv, TypeOK, NoTasks
<1>2. IntakeOnce' /\ GotInv' /\ CheckpointInv'
  <2>1. made' \in Nat /\ made <= made'
    BY DEF IInv, TypeOK
  <2> QED
    BY <2>1, OthersKept
<1>3. ObserverInv'
  BY DEF ObserverInv, Live, NoTasks
<1> QED
  BY <1>1, <1>2, <1>3 DEF IInv

LEMMA SaveFailsKeeps ==
  ASSUME IInv, SaveFails
  PROVE  IInv'
<1>1. resume \in BOOLEAN
  BY DEF IInv, TypeOK
<1> QED
  BY <1>1, TaskEnds DEF SaveFails, NoTasks

LEMMA CrashKeeps ==
  ASSUME IInv, Crash
  PROVE  IInv'
<1>1. state \in {"running", "paused", "cancelled", "needs-review"}
  BY DEF IInv, TypeOK
<1>2. pc' \in {"none", "start"}
  BY DEF Crash
<1> QED
  BY <1>1, <1>2, TaskEnds DEF Crash, NoTasks, db

LEMMA ActivationFailsKeeps ==
  ASSUME IInv, ActivationFails
  PROVE  IInv'
<1>1. resume \in BOOLEAN /\ ready = {} /\ task = NoTasks
  BY DEF IInv, TypeOK, ActivationFails, ObserverInv, Live, NoTasks
<1> QED
  BY <1>1, TaskEnds DEF ActivationFails

LEMMA SleepKeeps ==
  ASSUME IInv, Sleep
  PROVE  IInv'
<1>1. Live /\ pc = "sleep" /\ pc' = "top" /\ UNCHANGED <<db, mem, ready, task, resume, frozen, got, made>>
  BY DEF Sleep, Live
<1>2. TypeOK'
  BY <1>1 DEF IInv, TypeOK, db
<1>3. IntakeOnce' /\ GotInv' /\ CheckpointInv'
  <2>1. made' \in Nat /\ made <= made'
    BY <1>1 DEF IInv, TypeOK
  <2> QED
    BY <1>1, <2>1, OthersKept DEF db
<1>4. CursorInv(mem)'
  BY <1>1 DEF IInv, ObserverInv, CursorInv, Due, db
<1>5. ObserverInv'
  BY <1>1, <1>4 DEF IInv, ObserverInv, Live, db
<1> QED
  BY <1>2, <1>3, <1>5 DEF IInv

LEMMA StopKeeps ==
  ASSUME IInv, NEW action \in {"paused", "cancelled"}, Stop(action)
  PROVE  IInv'
<1>1. state' \in {"running", "paused", "cancelled", "needs-review"}
  BY DEF IInv, TypeOK, Stop
<1>2. /\ pc' = "none" /\ ready' = {} /\ task' = NoTasks /\ resume' = FALSE /\ frozen' = FALSE
      /\ UNCHANGED <<intake, mem, got, made>>
  BY DEF Stop, Halt, NoTasks
<1>3. CASE pc = "save"
  <2>1. Committed
    BY <1>3 DEF Stop, Halt
  <2>2. /\ IntakeOnce' /\ GotInv' /\ CheckpointInv' /\ ckpt' = mem /\ mem \in Cursor
        /\ processed' \in 0 .. Len(intake')
    BY <1>2, <1>3, <2>1, CommittedLegal
  <2>3. TypeOK'
    BY <1>1, <1>2, <2>2 DEF IInv, TypeOK, NoTasks
  <2>4. ObserverInv'
    BY <1>2 DEF ObserverInv, Live, NoTasks
  <2> QED
    BY <2>2, <2>3, <2>4 DEF IInv
<1>4. CASE pc # "save"
  <2>1. UNCHANGED <<ckpt, processed>>
    BY <1>4 DEF Stop, Halt
  <2> QED
    BY <1>1, <1>2, <2>1, TaskEnds
<1> QED
  BY <1>3, <1>4

LEMMA OwnerResumeKeeps ==
  ASSUME IInv, OwnerResume
  PROVE  IInv'
<1>1. /\ state' = "running" /\ UNCHANGED <<ckpt, intake, processed, mem, ready, task, got, made>>
      /\ resume' \in BOOLEAN /\ frozen' \in BOOLEAN
  BY DEF OwnerResume, IInv, TypeOK
<1>2. CASE pc = "none"
  <2>1. pc' = "start" /\ ready = {} /\ task = NoTasks
    BY <1>2 DEF OwnerResume, IInv, ObserverInv, Live, NoTasks
  <2> QED
    BY <1>1, <2>1, TaskEnds
<1>3. CASE pc # "none"
  <2>1. pc' = pc
    BY <1>3 DEF OwnerResume
  <2>2. TypeOK'
    BY <1>1, <2>1 DEF IInv, TypeOK
  <2>3. IntakeOnce' /\ GotInv' /\ CheckpointInv'
    <3>1. made' \in Nat /\ made <= made'
      BY <1>1 DEF IInv, TypeOK
    <3> QED
      BY <1>1, <3>1, OthersKept
  <2>4. ObserverInv'
    BY <1>1, <2>1 DEF IInv, ObserverInv, Live, CursorInv, Due
  <2> QED
    BY <2>2, <2>3, <2>4 DEF IInv
<1> QED
  BY <1>2, <1>3

\* _activate: what the checkpoint holds is replayed, unless a delivery may have
\* been taken that must not be sent again.
LEMMA ActivateKeeps ==
  ASSUME IInv, Activate
  PROVE  IInv'
<1>1. /\ pc = "start" /\ task' = NoTasks /\ ready' = {} /\ resume' = FALSE /\ frozen' = FALSE
      /\ UNCHANGED <<ckpt, intake, processed, got, made>>
  BY DEF Activate, NoTasks
<1>2. TypeOK /\ made \in Nat /\ made' \in Nat /\ made <= made'
  BY <1>1 DEF IInv, TypeOK
<1>3. CASE Quarantined(ckpt)
  <2>1. state' = "needs-review" /\ pc' = "none" /\ mem' = mem
    BY <1>3 DEF Activate
  <2> QED
    BY <1>1, <2>1, TaskEnds
<1>4. CASE ~Quarantined(ckpt)
  <2>1. state' = state /\ pc' = "top" /\ mem' = IF ckpt = None THEN NewCursor ELSE ckpt
    BY <1>4 DEF Activate
  <2>2. IntakeOnce' /\ GotInv' /\ CheckpointInv'
    BY <1>1, <1>2, OthersKept
  <2>3. PICK N : N = mem'
    OBVIOUS
  <2>4. /\ N \in Cursor /\ N.cursor <= Len(intake) /\ processed <= N.cursor /\ RoutesInv(N, made)
        /\ ckpt # None => ckpt.cursor <= N.cursor /\ ckpt.scans <= N.scans
        /\ \A r \in Routes : SendLegal(r, N.pending[r], ckpt, got[r], "none", {})
    <3>1. CASE ckpt = None
      <4>1. N = NewCursor /\ processed = 0 /\ \A r \in Routes : got[r] = << >>
        BY <2>1, <2>3, <3>1 DEF IInv, CheckpointInv
      <4>2. /\ N \in Cursor /\ N.cursor = 0 /\ N.scans = 0
            /\ \A r \in Routes : N.pending[r] = None /\ N.backlog[r] = None
        BY <4>1, NewCursorTyped
      <4>3. Due(N) = {}
        BY <4>2 DEF Due
      <4>4. ASSUME NEW r \in Routes
            PROVE  /\ Distinct(N.pending[r], N.backlog[r], got[r], made)
                   /\ Covered(N.pending[r], N.backlog[r], got[r], Due(N), N.overflowed)
                   /\ SendLegal(r, N.pending[r], ckpt, got[r], "none", {})
        <5>1. N.pending[r] = None /\ N.backlog[r] = None /\ got[r] = << >> /\ DOMAIN << >> = {}
          BY <4>1, <4>2
        <5>2. KeptIn(N.pending[r], N.backlog[r]) = {} /\ TakenIn(got[r]) = {}
          BY <5>1 DEF KeptIn, TakenIn
        <5>3. Distinct(N.pending[r], N.backlog[r], got[r], made)
          BY <5>1 DEF Distinct
        <5>4. Covered(N.pending[r], N.backlog[r], got[r], Due(N), N.overflowed)
          BY <4>3, <5>2 DEF Covered
        <5>5. SendLegal(r, N.pending[r], ckpt, got[r], "none", {})
          BY <5>1 DEF SendLegal, TakenBy
        <5> QED
          BY <5>3, <5>4, <5>5
      <4>5. RoutesInv(N, made)
        BY <4>4 DEF RoutesInv
      <4> QED
        BY <1>2, <3>1, <4>1, <4>2, <4>4, <4>5 DEF TypeOK
    <3>2. CASE ckpt # None
      <4>1. N = ckpt /\ N \in Cursor /\ CursorInv(ckpt)
        BY <1>2, <2>1, <2>3, <3>2 DEF IInv, CheckpointInv, TypeOK
      <4>2. N.cursor <= Len(intake) /\ processed <= N.cursor /\ RoutesInv(N, made)
        BY <4>1, CursorParts
      <4>3. ASSUME NEW r \in Routes
            PROVE  SendLegal(r, N.pending[r], ckpt, got[r], "none", {})
        <5>1. N.pending[r] # None => ~N.pending[r].terminal /\ (N.pending[r].inflight => r \in RetrySafe)
          BY <1>4, <3>2, <4>1 DEF Quarantined, Held
        <5>2. TakenBy(got[r], N.pending[r]) /\ r \notin RetrySafe => N.pending[r].inflight \/ N.pending[r].terminal
          BY <3>2, <4>1 DEF IInv, CheckpointInv
        <5>3. ~(TakenBy(got[r], N.pending[r]) /\ r \notin RetrySafe)
          BY <5>1, <5>2 DEF TakenBy
        <5> QED
          BY <5>1, <5>3 DEF SendLegal
      <4>4. ckpt.cursor <= N.cursor /\ ckpt.scans <= N.scans
        BY <4>1, CursorTyped
      <4> QED
        BY <4>1, <4>2, <4>3, <4>4
    <3> QED
      BY <3>1, <3>2
  <2>5. CursorInv(mem)'
    BY <1>1, <2>3, <2>4 DEF CursorInv, RoutesInv, Due
  <2>6. \A r \in Routes : SendLegal(r, mem.pending[r], ckpt, got[r], task[r], ready)'
    BY <1>1, <2>3, <2>4 DEF NoTasks
  <2>7. ObserverInv'
    BY <1>1, <2>1, <2>3, <2>4, <2>5, <2>6 DEF ObserverInv, Live
  <2>8. TypeOK'
    BY <1>1, <1>2, <2>1, <2>3, <2>4 DEF TypeOK, NoTasks
  <2> QED
    BY <2>2, <2>7, <2>8 DEF IInv
<1> QED
  BY <1>3, <1>4

-----------------------------------------------------------------------------
(* Publishers. *)

LEMMA PublishKeeps ==
  ASSUME IInv, NEW p \in Pushes, Publish(p)
  PROVE  IInv'
<1>1. /\ intake' = Append(intake, p) /\ p \notin Range(intake)
      /\ UNCHANGED <<state, ckpt, processed, pc, mem, ready, task, resume, frozen, got, made>>
  BY DEF Publish
<1>2. TypeOK /\ IntakeOnce /\ intake \in Seq(Pushes) /\ Len(intake) \in Nat /\ processed \in Nat /\ made \in Nat
  BY DEF IInv, TypeOK
<1>3. /\ intake' \in Seq(Pushes) /\ Len(intake') = Len(intake) + 1
      /\ \A k \in 1 .. Len(intake) : intake'[k] = intake[k]
      /\ intake'[Len(intake) + 1] = p
  BY <1>1, <1>2
<1>4. TypeOK'
  <2>1. processed' \in 0 .. Len(intake')
    BY <1>1, <1>2, <1>3 DEF TypeOK
  <2> QED
    BY <1>1, <1>2, <1>3, <2>1 DEF TypeOK
<1>5. IntakeOnce'
  <2>1. \A k \in 1 .. Len(intake) : intake[k] # p
    BY <1>1, <1>2 DEF Range
  <2>2. \A i, j \in 1 .. Len(intake) : intake[i] = intake[j] => i = j
    BY <1>2 DEF IntakeOnce
  <2>3. \A i, j \in 1 .. Len(intake) + 1 : intake'[i] = intake'[j] => i = j
    <3>1. \A i \in 1 .. Len(intake) + 1 : i \in 1 .. Len(intake) \/ i = Len(intake) + 1
      BY <1>2
    <3> QED
      BY <1>2, <1>3, <2>1, <2>2, <3>1
  <2> QED
    BY <1>3, <2>3 DEF IntakeOnce
<1>6. GotInv'
  BY <1>1 DEF IInv, GotInv
<1>7. ASSUME NEW c \in Cursor, CursorInv(c)
      PROVE  CursorInv(c)'
  <2>1. c.cursor <= Len(intake) /\ processed <= c.cursor /\ RoutesInv(c, made) /\ c.cursor \in Nat
    BY <1>7, CursorParts, CursorTyped
  <2>2. Due(c)' = Due(c)
    BY <1>2, <1>3, <2>1, DueKept
  <2>3. c.cursor <= Len(intake') /\ processed' <= c.cursor
    BY <1>1, <1>2, <1>3, <2>1
  <2> QED
    BY <1>1, <2>1, <2>2, <2>3 DEF CursorInv, RoutesInv
<1>8. CheckpointInv'
  <2>1. CASE ckpt = None
    BY <1>1, <2>1 DEF IInv, CheckpointInv
  <2>2. CASE ckpt # None
    <3>1. PICK c : c = ckpt
      OBVIOUS
    <3>2. c \in Cursor /\ CursorInv(c)
      BY <1>2, <2>2, <3>1 DEF IInv, CheckpointInv, TypeOK
    <3>3. CursorInv(c)'
      BY <1>7, <3>2
    <3>4. CursorInv(ckpt)'
      BY <1>1, <3>1, <3>3
    <3> QED
      BY <1>1, <2>2, <3>4 DEF IInv, CheckpointInv
  <2> QED
    BY <2>1, <2>2
<1>9. ObserverInv'
  <2>1. CASE ~Live
    BY <1>1, <2>1 DEF IInv, ObserverInv, Live
  <2>2. CASE Live
    <3>1. PICK c : c = mem
      OBVIOUS
    <3>2. c \in Cursor /\ CursorInv(c)
      BY <1>2, <2>2, <3>1 DEF IInv, ObserverInv, TypeOK
    <3>3. CursorInv(c)'
      BY <1>7, <3>2
    <3>4. CursorInv(mem)'
      BY <1>1, <3>1, <3>3
    <3> QED
      BY <1>1, <2>2, <3>4 DEF IInv, ObserverInv, Live
  <2> QED
    BY <2>1, <2>2
<1> QED
  BY <1>4, <1>5, <1>6, <1>8, <1>9 DEF IInv

-----------------------------------------------------------------------------
(* Handlers. *)

LEMMA AppendedDelivery ==
  ASSUME NEW g \in Seq(Delivery), NEW d \in Delivery, NEW h, h = Append(g, d)
  PROVE  /\ h \in Seq(Delivery) /\ DOMAIN h = DOMAIN g \cup {Len(g) + 1} /\ Len(g) + 1 \notin DOMAIN g
         /\ h[Len(g) + 1] = d /\ \A k \in DOMAIN g : h[k] = g[k]
<1>1. h \in Seq(Delivery) /\ Len(h) = Len(g) + 1 /\ Len(g) \in Nat
  OBVIOUS
<1>2. DOMAIN g = 1 .. Len(g) /\ DOMAIN h = 1 .. Len(g) + 1
  BY <1>1
<1>3. DOMAIN h = DOMAIN g \cup {Len(g) + 1} /\ Len(g) + 1 \notin DOMAIN g
  BY <1>1, <1>2
<1>4. h[Len(g) + 1] = d /\ \A k \in DOMAIN g : h[k] = g[k]
  BY <1>2
<1> QED
  BY <1>1, <1>3, <1>4

\* The handler takes delivery d, which is the pending delivery p.
LEMMA TakenKept ==
  ASSUME NEW g \in Seq(Delivery), NEW p \in Item, p.tried, NEW b \in Delivery \cup {None}, NEW n, NEW D, NEW o,
         Distinct(p, b, g, n), Covered(p, b, g, D, o),
         NEW d \in Delivery, d.id = p.id, d.events = p.events, NEW h, h = Append(g, d)
  PROVE  Distinct(p, b, h, n) /\ Covered(p, b, h, D, o) /\ TakenBy(h, p)
<1>1. PICK m : m = Len(g) + 1
  OBVIOUS
<1>2. DOMAIN h = DOMAIN g \cup {m} /\ m \notin DOMAIN g /\ h[m] = d /\ \A k \in DOMAIN g : h[k] = g[k]
  BY <1>1, AppendedDelivery
<1>3. p # None
  BY ItemParts
<1>4. Distinct(p, b, h, n)
  <2>1. ASSUME NEW k \in DOMAIN h
        PROVE  /\ p # None => IF h[k].id = p.id THEN p.tried /\ h[k].events = p.events
                              ELSE h[k].events \cap p.events = {}
               /\ b # None => h[k].id # b.id /\ h[k].events \cap b.events = {}
    <3>1. CASE k \in DOMAIN g
      BY <1>2, <3>1 DEF Distinct
    <3>2. CASE k = m
      BY <1>2, <1>3, <3>2 DEF Distinct
    <3> QED
      BY <1>2, <3>1, <3>2
  <2> QED
    BY <2>1 DEF Distinct
<1>5. TakenIn(h) = TakenIn(g) \cup p.events
  BY <1>2 DEF TakenIn
<1>6. p.events \subseteq KeptIn(p, b)
  BY <1>3 DEF KeptIn
<1>7. Covered(p, b, h, D, o)
  BY <1>5, <1>6 DEF Covered
<1>8. TakenBy(h, p)
  BY <1>2, <1>3 DEF TakenBy
<1> QED
  BY <1>4, <1>7, <1>8

\* The other routes of a cursor have nothing to do with what route r takes.
LEMMA CursorTaken ==
  ASSUME TypeOK, NEW c \in Cursor, CursorInv(c), NEW r \in Routes,
         NEW d \in Delivery, got' = [got EXCEPT ![r] = Append(@, d)], UNCHANGED <<intake, processed, made>>,
         c.pending[r] # None, c.pending[r].tried, d.id = c.pending[r].id, d.events = c.pending[r].events
  PROVE  CursorInv(c)' /\ TakenBy(got'[r], c.pending[r])
<1>1. c.cursor <= Len(intake) /\ processed <= c.cursor /\ RoutesInv(c, made)
  BY CursorParts
<1>2. got'[r] = Append(got[r], d) /\ \A x \in Routes : x # r => got'[x] = got[x]
  BY DEF TypeOK
<1>3. PICK p, b, g, h : p = c.pending[r] /\ b = c.backlog[r] /\ g = got[r] /\ h = got'[r]
  OBVIOUS
<1>4. /\ p \in Item /\ p.tried /\ b \in Delivery \cup {None} /\ g \in Seq(Delivery)
      /\ d.id = p.id /\ d.events = p.events /\ h = Append(g, d)
  BY <1>2, <1>3, CursorTyped DEF TypeOK
<1>5. PICK D, o : D = Due(c) /\ o = c.overflowed
  OBVIOUS
<1>6. Distinct(p, b, g, made) /\ Covered(p, b, g, D, o)
  BY <1>1, <1>3, <1>5 DEF RoutesInv
<1>7. Distinct(p, b, h, made) /\ Covered(p, b, h, D, o) /\ TakenBy(h, p)
  BY <1>4, <1>6, TakenKept
<1>8. Due(c)' = Due(c)
  BY DEF Due
<1>9. ASSUME NEW x \in Routes
      PROVE  /\ Distinct(c.pending[x], c.backlog[x], got'[x], made)
             /\ Covered(c.pending[x], c.backlog[x], got'[x], Due(c), c.overflowed)
  <2>1. CASE x = r
    BY <1>3, <1>5, <1>7, <2>1
  <2>2. CASE x # r
    BY <1>1, <1>2, <2>2 DEF RoutesInv
  <2> QED
    BY <2>1, <2>2
<1>10. CursorInv(c)'
  BY <1>1, <1>8, <1>9 DEF CursorInv
<1> QED
  BY <1>3, <1>7, <1>10

LEMMA TakesLive ==
  ASSUME IInv, NEW r \in Routes, task[r] # "none"
  PROVE  /\ Live /\ ckpt # None /\ ckpt \in Cursor /\ CursorInv(ckpt)
         /\ SendLegal(r, mem.pending[r], ckpt, got[r], task[r], ready)
         /\ Marked(mem.pending[r]) /\ mem.pending[r] \in Item /\ r \notin ready
         /\ Marked(ckpt.pending[r]) /\ ckpt.pending[r] \in Item
         /\ ckpt.pending[r].id = mem.pending[r].id /\ ckpt.pending[r].events = mem.pending[r].events
<1>1. Live
  BY DEF IInv, ObserverInv
<1>2. SendLegal(r, mem.pending[r], ckpt, got[r], task[r], ready) /\ mem \in Cursor
  BY <1>1, ObserverParts
<1>3. /\ Marked(mem.pending[r]) /\ ckpt # None /\ Marked(ckpt.pending[r]) /\ r \notin ready
      /\ ckpt.pending[r].id = mem.pending[r].id /\ ckpt.pending[r].events = mem.pending[r].events
  BY <1>2 DEF SendLegal
<1>4. ckpt \in Cursor /\ CursorInv(ckpt)
  BY <1>3 DEF IInv, TypeOK, CheckpointInv
<1>5. mem.pending[r] \in Item /\ ckpt.pending[r] \in Item
  BY <1>2, <1>3, <1>4, CursorTyped DEF Marked
<1> QED
  BY <1>1, <1>2, <1>3, <1>4, <1>5

LEMMA HandlerTakesKeeps ==
  ASSUME IInv, NEW r \in Routes, HandlerTakes(r)
  PROVE  IInv'
<1>1. /\ task[r] = "sending" /\ task' = [task EXCEPT ![r] = "taken"]
      /\ UNCHANGED <<state, ckpt, intake, processed, pc, mem, ready, resume, frozen, made>>
  BY DEF HandlerTakes, db
<1>2. /\ Live /\ ckpt # None /\ ckpt \in Cursor /\ CursorInv(ckpt)
      /\ SendLegal(r, mem.pending[r], ckpt, got[r], task[r], ready)
      /\ Marked(mem.pending[r]) /\ mem.pending[r] \in Item /\ r \notin ready
      /\ Marked(ckpt.pending[r]) /\ ckpt.pending[r] \in Item
      /\ ckpt.pending[r].id = mem.pending[r].id /\ ckpt.pending[r].events = mem.pending[r].events
  BY <1>1, TakesLive
<1>3. /\ TypeOK /\ IntakeOnce /\ GotInv /\ mem \in Cursor /\ CursorInv(mem) /\ made \in Nat
      /\ \A x \in Routes : SendLegal(x, mem.pending[x], ckpt, got[x], task[x], ready)
  BY <1>2, ObserverParts
<1>4. PICK p, c, m : p = mem.pending[r] /\ c = ckpt /\ m = mem
  OBVIOUS
<1>5. PICK d : d = DeliveryOf(p.id, p.events)
  OBVIOUS
<1>6. d \in Delivery /\ d.id = p.id /\ d.events = p.events
  <2>1. p \in Item
    BY <1>2, <1>4
  <2>2. p.id \in Nat \X Routes /\ p.events \in SUBSET Events
    BY <2>1, ItemParts
  <2> QED
    BY <1>5, <2>2, DeliveryMade
<1>7. task'[r] = "taken" /\ \A x \in Routes : x # r => task'[x] = task[x]
  BY <1>1, <1>3 DEF TypeOK
<1>8. task' \in [Routes -> {"none", "sending", "taken", "succeeded", "retry", "paused", "unknown", "unknown-durable"}]
  BY <1>1, <1>3 DEF TypeOK
<1>9. \/ got' = got /\ TakenBy(got[r], p)
      \/ ~TakenBy(got[r], p) /\ got' = [got EXCEPT ![r] = Append(@, d)]
  <2>1. got' = IF r \in RetrySafe /\ \E x \in Range(got[r]) : x.id = d.id THEN got
               ELSE [got EXCEPT ![r] = Append(@, d)]
    BY <1>4, <1>5 DEF HandlerTakes
  <2>2. (\E x \in Range(got[r]) : x.id = d.id) <=> TakenBy(got[r], p)
    <3>1. p # None
      BY <1>2, <1>4 DEF Marked
    <3> QED
      BY <1>6, <3>1 DEF Range, TakenBy
  <2>3. TakenBy(got[r], p) => r \in RetrySafe
    BY <1>1, <1>2, <1>4 DEF SendLegal, Marked
  <2> QED
    BY <2>1, <2>2, <2>3
<1>10. /\ TypeOK' /\ GotInv' /\ CursorInv(mem)' /\ CursorInv(ckpt)' /\ TakenBy(got'[r], p)
       /\ \A x \in Routes : x # r => got'[x] = got[x]
  <2>1. CASE got' = got /\ TakenBy(got[r], p)
    <3>1. TypeOK' /\ GotInv'
      BY <1>1, <1>3, <1>8, <2>1 DEF TypeOK, GotInv
    <3>2. CursorInv(mem)' /\ CursorInv(ckpt)'
      BY <1>1, <1>2, <1>3, <2>1 DEF CursorInv, Due
    <3> QED
      BY <2>1, <3>1, <3>2
  <2>2. CASE ~TakenBy(got[r], p) /\ got' = [got EXCEPT ![r] = Append(@, d)]
    <3>1. /\ p # None /\ p.tried /\ m.pending[r] = p /\ m \in Cursor /\ CursorInv(m)
          /\ c.pending[r] # None /\ c.pending[r].tried /\ c \in Cursor /\ CursorInv(c)
          /\ d.id = c.pending[r].id /\ d.events = c.pending[r].events
      BY <1>2, <1>3, <1>4, <1>6 DEF Marked
    <3>2. CursorInv(m)' /\ TakenBy(got'[r], m.pending[r])
      BY <1>1, <1>3, <1>6, <2>2, <3>1, CursorTaken
    <3>3. CursorInv(c)'
      BY <1>1, <1>3, <1>6, <2>2, <3>1, CursorTaken
    <3>4. CursorInv(mem)' /\ CursorInv(ckpt)'
      BY <1>1, <1>4, <3>2, <3>3
    <3>5. got'[r] = Append(got[r], d) /\ \A x \in Routes : x # r => got'[x] = got[x]
      BY <1>3, <2>2 DEF TypeOK
    <3>6. got[r] \in Seq(Delivery)
      BY <1>3 DEF TypeOK
    <3>7. PICK g, h, k : g = got[r] /\ h = got'[r] /\ k = Len(g) + 1
      OBVIOUS
    <3>8. /\ h \in Seq(Delivery) /\ DOMAIN h = DOMAIN g \cup {k} /\ k \notin DOMAIN g
          /\ h[k] = d /\ \A i \in DOMAIN g : h[i] = g[i]
      BY <1>6, <3>5, <3>6, <3>7, AppendedDelivery
    <3>9. got' \in [Routes -> Seq(Delivery)]
      <4>1. \A x \in Routes : got'[x] \in Seq(Delivery)
        BY <1>3, <3>5, <3>7, <3>8 DEF TypeOK
      <4>2. got' = [x \in Routes |-> got'[x]]
        BY <1>3, <2>2 DEF TypeOK
      <4> QED
        BY <4>1, <4>2
    <3>10. TypeOK'
      BY <1>1, <1>3, <1>8, <3>9 DEF TypeOK
    <3>11. Distinct(p, mem.backlog[r], g, made)
      BY <1>3, <1>4, <3>7 DEF CursorInv
    <3>12. d.id[1] < made /\ \A i \in DOMAIN g : g[i].events \cap d.events = {}
      BY <1>6, <2>2, <3>1, <3>7, <3>11 DEF Distinct, TakenBy
    <3>13. ASSUME NEW i \in DOMAIN h, NEW j \in DOMAIN h
           PROVE  h[i].id[1] < made /\ (i # j => h[i].events \cap h[j].events = {})
      <4>1. \A x, y \in DOMAIN g : g[x].id[1] < made /\ (x # y => g[x].events \cap g[y].events = {})
        BY <1>3, <3>7 DEF GotInv
      <4> QED
        BY <3>8, <3>12, <4>1
    <3>14. GotInv'
      <4>1. ASSUME NEW x \in Routes, NEW i \in DOMAIN got'[x], NEW j \in DOMAIN got'[x]
            PROVE  got'[x][i].id[1] < made /\ (i # j => got'[x][i].events \cap got'[x][j].events = {})
        <5>1. CASE x = r
          BY <3>7, <3>13, <5>1
        <5>2. CASE x # r
          BY <1>3, <3>5, <5>2 DEF GotInv
        <5> QED
          BY <5>1, <5>2
      <4> QED
        BY <1>1, <4>1 DEF GotInv
    <3> QED
      BY <3>1, <3>2, <3>4, <3>5, <3>10, <3>14
  <2> QED
    BY <1>9, <2>1, <2>2
<1>11. IntakeOnce'
  BY <1>1, <1>3 DEF IntakeOnce
<1>12. CheckpointInv'
  <2>1. ASSUME NEW x \in Routes \ RetrySafe, TakenBy(got'[x], ckpt.pending[x])
        PROVE  ckpt.pending[x].inflight \/ ckpt.pending[x].terminal
    <3>1. CASE x = r
      BY <1>2, <3>1 DEF Marked
    <3>2. CASE x # r
      BY <1>2, <1>10, <2>1, <3>2 DEF IInv, CheckpointInv
    <3> QED
      BY <3>1, <3>2
  <2> QED
    BY <1>1, <1>2, <1>10, <2>1 DEF CheckpointInv
<1>13. ASSUME NEW x \in Routes
       PROVE  SendLegal(x, mem.pending[x], ckpt, got'[x], task'[x], ready)
  <2>1. CASE x = r
    BY <1>1, <1>2, <1>4, <1>7, <1>10, <2>1 DEF SendLegal
  <2>2. CASE x # r
    BY <1>3, <1>7, <1>10, <2>2
  <2> QED
    BY <2>1, <2>2
<1>14. ObserverInv'
  <2>1. ckpt # None => ckpt.cursor <= mem.cursor /\ ckpt.scans <= mem.scans
    BY <1>2 DEF IInv, ObserverInv
  <2>2. pc # "save" => ready = {}
    BY <1>2 DEF IInv, ObserverInv
  <2>3. Live'
    BY <1>1, <1>2 DEF Live
  <2> QED
    BY <1>1, <1>10, <1>13, <2>1, <2>2, <2>3 DEF ObserverInv
<1> QED
  BY <1>10, <1>11, <1>12, <1>14 DEF IInv

LEMMA HandlerAnswersKeeps ==
  ASSUME IInv, NEW r \in Routes, NEW a \in Answers, HandlerAnswers(r, a)
  PROVE  IInv'
<1>1. /\ task[r] \in {"sending", "taken"} /\ task' = [task EXCEPT ![r] = a]
      /\ a = "succeeded" => task[r] = "taken"
      /\ a \in {"retry", "paused"} => (task[r] = "sending" \/ r \in RetrySafe)
      /\ a = "unknown-durable" => r \in RetrySafe
      /\ UNCHANGED <<state, ckpt, intake, processed, pc, mem, ready, resume, frozen, got, made>>
  BY DEF HandlerAnswers, db
<1>2. /\ Live /\ ckpt # None /\ r \notin ready /\ Marked(mem.pending[r])
      /\ SendLegal(r, mem.pending[r], ckpt, got[r], task[r], ready)
  BY <1>1, TakesLive
<1>3. /\ TypeOK /\ mem \in Cursor /\ CursorInv(mem) /\ made \in Nat
      /\ \A x \in Routes : SendLegal(x, mem.pending[x], ckpt, got[x], task[x], ready)
  BY <1>2, ObserverParts
<1>4. task'[r] = a /\ \A x \in Routes : x # r => task'[x] = task[x]
  BY <1>1, <1>3 DEF TypeOK
<1>5. TypeOK'
  <2>1. task' \in [Routes -> {"none", "sending", "taken", "succeeded", "retry", "paused", "unknown", "unknown-durable"}]
    BY <1>1, <1>3 DEF TypeOK, Answers
  <2> QED
    BY <1>1, <1>3, <2>1 DEF TypeOK
<1>6. IntakeOnce' /\ GotInv' /\ CheckpointInv'
  <2>1. made' \in Nat /\ made <= made'
    BY <1>1, <1>3
  <2> QED
    BY <1>1, <2>1, OthersKept
<1>7. ASSUME NEW x \in Routes
      PROVE  SendLegal(x, mem.pending[x], ckpt, got[x], task'[x], ready)
  <2>1. CASE x = r
    <3>1. PICK p : p = mem.pending[r]
      OBVIOUS
    <3>2. SendLegal(r, p, ckpt, got[r], task[r], ready) /\ Marked(p)
      BY <1>2, <3>1
    <3>3. a = "succeeded" => TakenBy(got[r], p)
      BY <1>1, <3>2 DEF SendLegal
    <3>4. TakenBy(got[r], p) /\ r \notin RetrySafe => a \in {"taken", "succeeded", "unknown"} \/ p.terminal
      <4>1. TakenBy(got[r], p) /\ r \notin RetrySafe => task[r] = "taken"
        BY <1>1, <3>2 DEF SendLegal, Marked
      <4> QED
        BY <1>1, <4>1 DEF Answers
    <3>5. a # "none" /\ a # "taken"
      BY DEF Answers
    <3>6. SendLegal(r, p, ckpt, got[r], a, ready)
      BY <1>1, <1>2, <3>2, <3>3, <3>4, <3>5 DEF SendLegal
    <3> QED
      BY <1>4, <2>1, <3>1, <3>6
  <2>2. CASE x # r
    BY <1>3, <1>4, <2>2
  <2> QED
    BY <2>1, <2>2
<1>8. CursorInv(mem)'
  BY <1>1, <1>3 DEF CursorInv, Due
<1>9. ObserverInv'
  <2>1. ckpt # None => ckpt.cursor <= mem.cursor /\ ckpt.scans <= mem.scans
    BY <1>2 DEF IInv, ObserverInv
  <2>2. pc # "save" => ready = {}
    BY <1>2 DEF IInv, ObserverInv
  <2>3. Live'
    BY <1>1, <1>2 DEF Live
  <2> QED
    BY <1>1, <1>7, <1>8, <2>1, <2>2, <2>3 DEF ObserverInv
<1> QED
  BY <1>5, <1>6, <1>9 DEF IInv

-----------------------------------------------------------------------------
(* The theorems. *)

LEMMA InitKeeps ==
  ASSUME Init
  PROVE  IInv
<1>1. TypeOK
  <2>1. intake \in Seq(Pushes) /\ processed \in 0 .. Len(intake)
    BY DEF Init
  <2>2. \A S : << >> \in Seq(S)
    OBVIOUS
  <2>3. got \in [Routes -> Seq(Delivery)]
    BY <2>2 DEF Init
  <2>4. task \in [Routes -> {"none", "sending", "taken", "succeeded", "retry", "paused", "unknown", "unknown-durable"}]
    BY DEF Init
  <2>5. mem \in Cursor /\ ckpt \in Cursor \cup {None} /\ made \in Nat /\ ready \subseteq Routes
    BY NewCursorTyped DEF Init
  <2>6. /\ state \in {"running", "paused", "cancelled", "needs-review"}
        /\ pc \in {"none", "start", "top", "read", "scan", "save", "sleep"}
        /\ resume \in BOOLEAN /\ frozen \in BOOLEAN
    BY DEF Init
  <2> QED
    BY <2>1, <2>3, <2>4, <2>5, <2>6 DEF TypeOK
<1>2. IntakeOnce /\ GotInv /\ CheckpointInv
  BY DEF Init, IntakeOnce, GotInv, CheckpointInv
<1>3. ObserverInv
  BY DEF Init, ObserverInv, Live
<1> QED
  BY <1>1, <1>2, <1>3 DEF IInv

LEMMA StutterKeeps ==
  ASSUME IInv, UNCHANGED vars
  PROVE  IInv'
<1>1. TypeOK' /\ IntakeOnce' /\ GotInv'
  BY DEF IInv, vars, TypeOK, IntakeOnce, GotInv
<1>2. CheckpointInv'
  BY DEF IInv, vars, CheckpointInv, CursorInv, Due
<1>3. ObserverInv'
  BY DEF IInv, vars, ObserverInv, Live, CursorInv, Due
<1> QED
  BY <1>1, <1>2, <1>3 DEF IInv

LEMMA NextKeeps ==
  ASSUME IInv, [Next]_vars
  PROVE  IInv'
<1>1. CASE \E p \in Pushes : Publish(p)
  BY <1>1, PublishKeeps
<1>2. CASE Activate \/ ActivationFails \/ SaveFails \/ Sleep \/ Crash \/ OwnerResume
  BY <1>2, ActivateKeeps, ActivationFailsKeeps, SaveFailsKeeps, SleepKeeps, CrashKeeps, OwnerResumeKeeps
<1>3. CASE Round \/ ReadPushed \/ Scan \/ Save
  BY <1>3, RoundKeeps, ReadPushedKeeps, ScanKeeps, SaveKeeps
<1>4. CASE \E r \in Routes : HandlerTakes(r) \/ \E a \in Answers : HandlerAnswers(r, a)
  BY <1>4, HandlerTakesKeeps, HandlerAnswersKeeps
<1>5. CASE \E action \in {"paused", "cancelled"} : Stop(action)
  BY <1>5, StopKeeps
<1>6. CASE UNCHANGED vars
  BY <1>6, StutterKeeps
<1> QED
  BY <1>1, <1>2, <1>3, <1>4, <1>5, <1>6 DEF Next

\* Along every behaviour of a registration, deliveries keep distinct identities and
\* events, the checkpoint and the observer's memory account for every event they
\* have moved past, and what is being sent is pinned in the checkpoint.
THEOREM ObserverInvariance == Spec => []IInv
<1>1. Init => IInv
  BY InitKeeps
<1>2. IInv /\ [Next]_vars => IInv'
  BY NextKeeps
<1> QED
  BY <1>1, <1>2, PTL DEF Spec

\* daemon_store.checkpoint, _activate: an event that is acknowledged is in a
\* delivery of the checkpoint or with its handler, after any number of crashes,
\* failed writes, pauses and resumes.
THEOREM NothingEverLost == Spec => []NothingLost
<1>1. IInv => NothingLost
  <2> SUFFICES ASSUME IInv
               PROVE  NothingLost
    OBVIOUS
  <2>1. CASE ckpt = None
    BY <2>1 DEF IInv, CheckpointInv, NothingLost
  <2>2. CASE ckpt # None
    <3>1. CursorInv(ckpt)
      BY <2>2 DEF IInv, CheckpointInv
    <3>2. ASSUME NEW r \in Routes, NEW e \in Due(ckpt)
          PROVE  e \in Kept(ckpt, r) \cup Taken(r) \/ (ckpt.overflowed /\ e[1] = "scan")
      <4>1. Covered(ckpt.pending[r], ckpt.backlog[r], got[r], Due(ckpt), ckpt.overflowed)
        BY <3>1 DEF CursorInv
      <4>2. Kept(ckpt, r) = KeptIn(ckpt.pending[r], ckpt.backlog[r])
        BY DEF Kept, KeptIn
      <4>3. TakenIn(got[r]) \subseteq Taken(r)
        BY DEF TakenIn, Taken, Range
      <4> QED
        BY <4>1, <4>2, <4>3 DEF Covered
    <3> QED
      BY <2>2, <3>1, <3>2 DEF NothingLost, CursorInv
  <2> QED
    BY <2>1, <2>2
<1> QED
  BY <1>1, ObserverInvariance, PTL

\* observe, _activate: no event reaches a handler twice, because a delivery that may
\* have been taken is never sent again on a route that is not retry-safe, and never
\* under another identity.
THEOREM NoEventTwice == Spec => []NoEffectTwice
<1>1. IInv => NoEffectTwice
  BY DEF IInv, GotInv, NoEffectTwice
<1> QED
  BY <1>1, ObserverInvariance, PTL

\* The registration's row, its checkpoint and the observer's memory keep their types.
THEOREM ObserverTyped == Spec => []TypeOK
<1>1. IInv => TypeOK
  BY DEF IInv
<1> QED
  BY <1>1, ObserverInvariance, PTL
=============================================================================
