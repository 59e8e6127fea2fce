---------------------------- MODULE EyesObserver ----------------------------
(***************************************************************************)
(* One registration of the Eyes daemon: the durable intake of pushed       *)
(* events (event_intake.py), the observer loop with its pending deliveries *)
(* (executor.py), the checkpoint that acknowledges intake and pins output  *)
(* in one transaction (daemon_store.py), and the controls that pause,      *)
(* cancel, resume and recover it (daemon.py).                              *)
(*                                                                         *)
(* Pushed events come from the intake table, scanned changes (files, remote*)
(* sources, schedulers) from the outside world in order; both are routed to *)
(* every route.  Deliveries are an identity and a set of events.  What the *)
(* handlers took is recorded per route in got: a retry-safe route ignores  *)
(* an identity it already took, any other takes whatever it is sent.       *)
(***************************************************************************)
EXTENDS Integers, Sequences, FiniteSets, Functions

CONSTANTS Routes,       \* routes of the definition, numbered in order
          RetrySafe,    \* those whose handler declares same-ID retry safety
          Pushes,       \* event ids publishers may use
          Oversized,    \* those whose delivery the handler's validate refuses
          None,         \* no delivery, no checkpoint
          MaxScans,     \* bound: scanned changes
          MaxEvents,    \* limit of events in a delivery (_bounded, validate)
          MaxPendingEvents, \* source.max_pending_events
          MaxCrashes,   \* bound: daemon deaths
          MaxControls   \* bound: pauses, resumes and cancellations

ASSUME ConstantsAssumption ==
    /\ Routes \subseteq Nat
    /\ RetrySafe \subseteq Routes /\ Oversized \subseteq Pushes
    /\ MaxEvents \in Nat \ {0} /\ MaxPendingEvents \in Nat \ {0} /\ MaxScans \in Nat

VARIABLES
    state,      \* registrations.state
    ckpt,       \* registrations.checkpoint: None or a Cursor record
    intake,     \* source_events, in sequence order
    processed,  \* how many rows of it, from the first, are processed
    pc,         \* the registration's task: "none", "start", "top", "read", "scan", "save", "sleep"
    mem,        \* the Cursor record of the running observer
    ready,      \* routes marked for sending in this round
    task,       \* route |-> send task: "none", "sending", "taken" or its result
    resume,     \* the resume event of the live task
    frozen,     \* Active.error is set
    got,        \* external: route |-> deliveries its handler took, in order
    made,       \* delivery identities given out
    crashes, controls

vars == <<state, ckpt, intake, processed, pc, mem, ready, task, resume, frozen, got, made, crashes, controls>>
db == <<state, ckpt, intake, processed>>
-----------------------------------------------------------------------------
Pushed(p) == <<"push", p>>
Scanned(k) == <<"scan", k>>
Events == {Pushed(p) : p \in Pushes} \cup {Scanned(k) : k \in 1 .. MaxScans}

\* Delivery: an identity and its events.
DeliveryOf(i, es) == [id |-> i, events |-> es]
Grown(d, es) == DeliveryOf(d.id, d.events \cup es)

\* _Pending: a delivery with what became of it.  attempts is kept as 0 or not.
NewItem(d) == [id |-> d.id, events |-> d.events, tried |-> FALSE, paused |-> FALSE,
               terminal |-> FALSE, inflight |-> FALSE]
GrownTo(item, es) == [item EXCEPT !.events = es]
InFlight(item) == [item EXCEPT !.tried = TRUE, !.inflight = TRUE]
Unpaused(item) == [item EXCEPT !.paused = FALSE]
GivenBack(item) == [item EXCEPT !.inflight = FALSE]
SetAside(item, lost) == [item EXCEPT !.inflight = FALSE, !.paused = TRUE, !.terminal = lost]
NewCursor == [pending |-> [r \in Routes |-> None], backlog |-> [r \in Routes |-> None],
              cursor |-> 0, scans |-> 0, overflowed |-> FALSE]

\* What a checkpoint holds.
Delivery == [id : Nat \X Routes, events : SUBSET Events]
Item == [id : Nat \X Routes, events : SUBSET Events, tried : BOOLEAN, paused : BOOLEAN,
         terminal : BOOLEAN, inflight : BOOLEAN]
Cursor == [pending : [Routes -> Item \cup {None}], backlog : [Routes -> Delivery \cup {None}],
           cursor : Nat, scans : 0 .. MaxScans, overflowed : BOOLEAN]

ASSUME NoneAssumption == None \notin Delivery \cup Item \cup Cursor

Held(c) == {r \in Routes : c.pending[r] # None}
Waiting(c) == {r \in Routes : c.backlog[r] # None}
Paused(c) == {r \in Held(c) : c.pending[r].paused}
Terminal(c) == {r \in Held(c) : c.pending[r].terminal}

\* The delivery of route r that was never attempted and may still grow.
Open(c, r) == IF c.pending[r] # None /\ ~c.pending[r].tried THEN c.pending[r] ELSE c.backlog[r]
Candidate(c, r, es, id) ==
    IF Open(c, r) # None THEN Grown(Open(c, r), es) ELSE DeliveryOf(id, es)
Refused(c, es) ==
    {r \in Routes : LET all == Candidate(c, r, es, None).events
                    IN  Cardinality(all) > MaxEvents \/ \E p \in Oversized : Pushed(p) \in all}

PendingWith(c, r, d) ==
    IF c.pending[r] = None THEN NewItem(d)
    ELSE IF ~c.pending[r].tried THEN GrownTo(c.pending[r], d.events)
    ELSE c.pending[r]

BacklogWith(c, r, d) == IF c.pending[r] # None /\ c.pending[r].tried THEN d ELSE c.backlog[r]

\* enqueue the events es on the routes in order, up to the first refusal.
Enqueued(c, es) ==
    LET fits == {r \in Routes : \A x \in Refused(c, es) : r < x}
        New(r) == Candidate(c, r, es, <<made, r>>)
    IN  [c EXCEPT !.pending = [r \in Routes |-> IF r \in fits THEN PendingWith(c, r, New(r)) ELSE c.pending[r]],
                  !.backlog = [r \in Routes |-> IF r \in fits THEN BacklogWith(c, r, New(r)) ELSE c.backlog[r]],
                  !.overflowed = @ \/ Refused(c, es) # {}]

TypeOK ==
    /\ state \in {"running", "paused", "cancelled", "needs-review"}
    /\ pc \in {"none", "start", "top", "read", "scan", "save", "sleep"}
    /\ processed \in 0 .. Len(intake)
    /\ ready \subseteq Routes
    /\ task \in [Routes -> {"none", "sending", "taken", "succeeded", "retry", "paused", "unknown", "unknown-durable"}]
    /\ resume \in BOOLEAN /\ frozen \in BOOLEAN
    /\ intake \in Seq(Pushes)
    /\ mem \in Cursor /\ ckpt \in Cursor \cup {None}
    /\ got \in [Routes -> Seq(Delivery)] /\ made \in Nat

Init ==
    /\ state = "running" /\ ckpt = None /\ intake = << >> /\ processed = 0
    /\ pc = "start" /\ mem = NewCursor /\ ready = {}
    /\ task = [r \in Routes |-> "none"]
    /\ resume = FALSE /\ frozen = FALSE
    /\ got = [r \in Routes |-> << >>]
    /\ made = 0 /\ crashes = 0 /\ controls = 0
-----------------------------------------------------------------------------
(* Publishing.                                                             *)

\* A new event id is accepted while the registration runs, is not frozen and has
\* room; a known id is answered as a duplicate and changes nothing.
Publish(p) ==
    /\ p \notin Range(intake)
    /\ state = "running" /\ ~frozen
    /\ Len(intake) - processed < MaxPendingEvents
    /\ intake' = Append(intake, p)
    /\ UNCHANGED <<state, ckpt, processed, pc, mem, ready, task, resume, frozen, got, made, crashes, controls>>
-----------------------------------------------------------------------------
(* The registration's task.                                                *)

\* Mutation: only deliveries known to be terminal are quarantined.
Quarantined_Terminal(c) == c # None /\ \E r \in Held(c) : c.pending[r].terminal

\* Interrupted deliveries a handler may already have taken are not replayed.
Quarantined(c) ==
    c # None /\ \E r \in Held(c) : c.pending[r].terminal \/ (c.pending[r].inflight /\ r \notin RetrySafe)

\* _activate, up to the first round of observe().
Activate ==
    /\ pc = "start"
    /\ task' = [r \in Routes |-> "none"]
    /\ ready' = {}
    /\ resume' = FALSE
    /\ frozen' = FALSE
    /\ IF Quarantined(ckpt)
       THEN state' = "needs-review" /\ pc' = "none" /\ mem' = mem
       ELSE state' = state /\ pc' = "top" /\ mem' = IF ckpt = None THEN NewCursor ELSE ckpt
    /\ UNCHANGED <<ckpt, intake, processed, got, made, crashes, controls>>

\* The handler cannot be started: the registration needs review.
ActivationFails ==
    /\ pc = "start"
    /\ state' = "needs-review" /\ pc' = "none" /\ frozen' = TRUE
    /\ UNCHANGED <<ckpt, intake, processed, mem, ready, task, resume, got, made, crashes, controls>>

Unfrozen(c) ==
    IF c.overflowed \/ Terminal(c) # {} THEN c
    ELSE [c EXCEPT !.pending = [r \in Routes |-> IF c.pending[r] = None THEN None
                                                 ELSE Unpaused(c.pending[r])]]

Finished == {r \in Routes : task[r] \in {"succeeded", "retry", "paused", "unknown", "unknown-durable"}}

\* What the loop makes of the results: the delivery of a successful route is gone
\* and its backlog moves up, a refused one stays, an unknown one is paused.
ConcludedItem(c, r) ==
    CASE r \notin Finished -> c.pending[r]
      [] task[r] = "succeeded" -> IF c.backlog[r] = None THEN None ELSE NewItem(c.backlog[r])
      [] task[r] = "retry" -> GivenBack(c.pending[r])
      [] OTHER -> SetAside(c.pending[r], task[r] = "unknown")

Concluded(c) ==
    [c EXCEPT !.pending = [r \in Routes |-> ConcludedItem(c, r)],
              !.backlog = [r \in Routes |-> IF task[r] = "succeeded" THEN None ELSE c.backlog[r]]]

\* Mutation: the finished task of a refused delivery is kept.
TaskAfter_Retry(r) == IF r \in Finished /\ task[r] # "retry" THEN "none" ELSE task[r]

TaskAfter(r) == IF r \in Finished THEN "none" ELSE task[r]

\* The top of the loop: take the resume request, settle the finished sends, and
\* either persist and wait (something is paused) or go on to the sources.
Round ==
    /\ pc = "top"
    /\ LET woken == IF resume THEN Unfrozen(mem) ELSE mem
           settled == Concluded(woken)
       IN  /\ mem' = settled
           /\ pc' = IF settled.overflowed \/ Paused(settled) # {} THEN "save"
                    ELSE IF Held(settled) \cup Waiting(settled) = {} THEN "read" ELSE "scan"
           /\ frozen' = (frozen \/ \E r \in Finished : task[r] \in {"paused", "unknown", "unknown-durable"})
    /\ task' = [r \in Routes |-> TaskAfter(r)]
    /\ resume' = FALSE
    /\ ready' = {}
    /\ UNCHANGED <<db, got, made, crashes, controls>>

\* Mutation: a refused event is passed over instead of rolled back.
Absorbed_Skip(next, k) == [next EXCEPT !.cursor = k]

\* The observer after event k was routed as next: an overflow undoes all of it.
Absorbed(next, k) ==
    IF next.overflowed THEN [mem EXCEPT !.overflowed = TRUE] ELSE [next EXCEPT !.cursor = k]

\* event_reader returned the next unprocessed event after the cursor, or none.
\* A refused delivery rolls the whole event back and freezes the observer.
ReadPushed ==
    /\ pc = "read"
    /\ pc' = "scan"
    /\ LET k == (IF mem.cursor > processed THEN mem.cursor ELSE processed) + 1
           next == Enqueued(mem, {Pushed(intake[k])})
       IN  IF k > Len(intake) THEN UNCHANGED <<mem, made, frozen>>
           ELSE /\ made' = made + 1
                /\ mem' = Absorbed(next, k)
                /\ frozen' = (frozen \/ next.overflowed)
    /\ UNCHANGED <<db, ready, task, resume, got, crashes, controls>>

\* Scans and detectors: n changes are detected and routed, then everything that is
\* due is marked as in flight.  backoff: retried deliveries whose time is not up.
Scan ==
    /\ pc = "scan"
    /\ \E n \in 0 .. 1, backoff \in SUBSET Routes :
          /\ mem.scans + n <= MaxScans
          /\ n = 1 => ~mem.overflowed
          /\ \A r \in backoff : mem.pending[r] # None /\ mem.pending[r].tried
          /\ LET next == IF n = 0 THEN mem
                         ELSE [Enqueued(mem, {Scanned(mem.scans + 1)}) EXCEPT !.scans = @ + 1]
                 due == {r \in Held(next) : /\ ~next.overflowed /\ ~next.pending[r].paused
                                            /\ task[r] = "none" /\ r \notin backoff}
             IN  /\ ready' = due
                 /\ frozen' = (frozen \/ next.overflowed)
                 /\ mem' = [next EXCEPT !.pending = [r \in Routes |->
                               IF r \in due THEN InFlight(next.pending[r])
                               ELSE next.pending[r]]]
          /\ made' = made + n
    /\ pc' = "save"
    /\ UNCHANGED <<db, task, resume, got, crashes, controls>>

\* store.checkpoint: the cursor, the detectors, the deliveries and the
\* acknowledgement of the intake, in one transaction.
Committed ==
    /\ ckpt' = mem
    /\ processed' = IF mem.cursor > processed THEN mem.cursor ELSE processed

\* Persist, and only then hand the deliveries to their handlers.
Save ==
    /\ pc = "save"
    /\ Committed
    /\ task' = [r \in Routes |-> IF r \in ready THEN "sending" ELSE task[r]]
    /\ ready' = {}
    /\ pc' = "sleep"
    /\ UNCHANGED <<state, intake, mem, resume, frozen, got, made, crashes, controls>>

\* The database refuses the write: observe() ends, its sends are cancelled and the
\* registration needs review.
SaveFails ==
    /\ pc = "save"
    /\ crashes < MaxCrashes
    /\ crashes' = crashes + 1
    /\ state' = "needs-review" /\ frozen' = TRUE
    /\ pc' = "none" /\ ready' = {}
    /\ task' = [r \in Routes |-> "none"]
    /\ UNCHANGED <<ckpt, intake, processed, mem, resume, got, made, controls>>

Sleep ==
    /\ pc = "sleep"
    /\ pc' = "top"
    /\ UNCHANGED <<db, mem, ready, task, resume, frozen, got, made, crashes, controls>>
-----------------------------------------------------------------------------
(* The handlers.                                                           *)

\* The far side takes the delivery.
HandlerTakes(r) ==
    /\ task[r] = "sending"
    /\ task' = [task EXCEPT ![r] = "taken"]
    /\ LET d == DeliveryOf(mem.pending[r].id, mem.pending[r].events)
       IN  got' = IF r \in RetrySafe /\ \E x \in Range(got[r]) : x.id = d.id THEN got
                  ELSE [got EXCEPT ![r] = Append(@, d)]
    /\ UNCHANGED <<db, pc, mem, ready, resume, frozen, made, crashes, controls>>

\* A handler's answer.  It says retry of a taken delivery only where the same
\* identity may be sent again, and otherwise only when nothing was sent.
HandlerAnswers(r, answer) ==
    /\ task[r] \in {"sending", "taken"}
    /\ answer = "succeeded" => task[r] = "taken"
    /\ answer \in {"retry", "paused"} => (task[r] = "sending" \/ r \in RetrySafe)
    /\ answer = "unknown-durable" => r \in RetrySafe
    /\ task' = [task EXCEPT ![r] = answer]
    /\ UNCHANGED <<db, pc, mem, ready, resume, frozen, got, made, crashes, controls>>
-----------------------------------------------------------------------------
(* Controls of the owner, and the daemon's own life.                       *)

\* halt: the task is cancelled and joined, in the middle of whatever it does; a
\* write that has begun is finished first.
Halt ==
    /\ pc' = "none"
    /\ IF pc = "save" THEN Committed ELSE UNCHANGED <<ckpt, processed>>
    /\ task' = [r \in Routes |-> "none"]
    /\ ready' = {} /\ resume' = FALSE /\ frozen' = FALSE

Stop(action) ==
    /\ controls < MaxControls
    /\ controls' = controls + 1
    /\ Halt
    /\ state' = CASE state = "cancelled" -> state
                  [] state = "needs-review" /\ action # "cancelled" -> state
                  [] OTHER -> action
    /\ UNCHANGED <<intake, mem, got, made, crashes>>

\* owner-resume: wake the paused deliveries of a live task, or start a task again.
OwnerResume ==
    /\ controls < MaxControls
    /\ controls' = controls + 1
    /\ ckpt # None => ~ckpt.overflowed /\ Terminal(ckpt) = {}
    /\ state \in {"running", "paused"}
    /\ state' = "running"
    /\ IF pc = "none"
       THEN pc' = "start" /\ frozen' = FALSE /\ resume' = FALSE
       ELSE /\ pc' = pc
            /\ IF ckpt # None /\ Paused(ckpt) # {}
               THEN resume' = TRUE /\ frozen' = FALSE
               ELSE UNCHANGED <<resume, frozen>>
    /\ UNCHANGED <<ckpt, intake, processed, mem, ready, task, got, made, crashes>>

\* The daemon dies, and recover() starts every running registration.
Crash ==
    /\ crashes < MaxCrashes
    /\ crashes' = crashes + 1
    /\ pc' = IF state = "running" THEN "start" ELSE "none"
    /\ task' = [r \in Routes |-> "none"]
    /\ ready' = {} /\ resume' = FALSE /\ frozen' = FALSE
    /\ UNCHANGED <<db, mem, got, made, controls>>

Answers == {"succeeded", "retry", "paused", "unknown", "unknown-durable"}

Next ==
    \/ \E p \in Pushes : Publish(p)
    \/ Activate \/ ActivationFails \/ Round \/ ReadPushed \/ Scan \/ Save \/ SaveFails \/ Sleep
    \/ \E r \in Routes : HandlerTakes(r) \/ \E a \in Answers : HandlerAnswers(r, a)
    \/ \E action \in {"paused", "cancelled"} : Stop(action)
    \/ OwnerResume
    \/ Crash

Spec == Init /\ [][Next]_vars

\* A scan round in which no retry is held back: every back-off runs out.
PromptScan == Scan /\ \A r \in Held(mem') : mem'.pending[r].paused \/ task[r] # "none" \/ r \in ready'

\* The event loop runs every task that can run, and a handler that is tried again
\* and again takes the delivery and says so in the end.
Fairness ==
    /\ WF_vars(Activate) /\ WF_vars(Round) /\ WF_vars(ReadPushed)
    /\ WF_vars(Scan) /\ SF_vars(PromptScan) /\ WF_vars(Save) /\ WF_vars(Sleep)
    /\ \A r \in Routes : /\ SF_vars(HandlerTakes(r))
                          /\ SF_vars(HandlerAnswers(r, "succeeded"))

FairSpec == Spec /\ Fairness
-----------------------------------------------------------------------------
(* Properties.                                                             *)

\* The events of route r that its handler took.
Taken(r) == UNION {d.events : d \in Range(got[r])}
Due(c) == {Pushed(intake[k]) : k \in 1 .. c.cursor} \cup {Scanned(k) : k \in 1 .. c.scans}
Kept(c, r) == (IF c.pending[r] = None THEN {} ELSE c.pending[r].events)
              \cup (IF c.backlog[r] = None THEN {} ELSE c.backlog[r].events)

\* No acknowledged event is lost: an event the checkpoint has moved past is, for
\* every route, in a delivery of the same checkpoint or with the handler, whatever
\* crashed, was paused or failed; and intake is marked processed no further than
\* the checkpoint's cursor.  (An overflow gives up the scanned change it met.)
NothingLost ==
    /\ ckpt = None => processed = 0
    /\ ckpt # None =>
          /\ processed <= ckpt.cursor
          /\ \A r \in Routes : \A e \in Due(ckpt) :
                e \in Kept(ckpt, r) \cup Taken(r) \/ (ckpt.overflowed /\ e[1] = "scan")

\* No event reaches a handler twice: not under two identities, and on a route that
\* is not retry-safe not twice under one, however the daemon dies or is resumed.
NoEffectTwice ==
    \A r \in Routes : \A i, j \in DOMAIN got[r] : i # j => got[r][i].events \cap got[r][j].events = {}

\* Every accepted event is handed to every route, unless the registration stops
\* for its owner: paused, cancelled, in need of review, with a paused delivery or an
\* event that does not fit.
AcceptedIsDelivered ==
    \A p \in Pushes :
        p \in Range(intake) ~> \/ \A r \in Routes : Pushed(p) \in Taken(r)
                               \/ state # "running" \/ frozen \/ Paused(mem) # {} \/ mem.overflowed

\* Persisted pause/cancel and active delivery freezes both stop new intake (the
\* comment in dispatch).  A delivery that was paused when the daemon stopped is
\* restored paused and freezes the observer, but Active.error is not set again.
FreezeStopsIntake ==
    [][intake' # intake => pc \in {"none", "start"} \/ resume \/ Paused(mem) = {}]_vars
-----------------------------------------------------------------------------
(* The inductive invariant.                                                *)

\* A pushed event has one place in the intake.
IntakeOnce == \A i, j \in DOMAIN intake : intake[i] = intake[j] => i = j

\* Delivery p and backlog b of one route, next to what its handler took, g, when n
\* identities have been given out: identities are not reused, no event is in two
\* deliveries, and one that was taken has not changed since.
KeptIn(p, b) == (IF p = None THEN {} ELSE p.events) \cup (IF b = None THEN {} ELSE b.events)
Distinct(p, b, g, n) ==
    /\ p # None => p.id[1] < n
    /\ b # None => /\ p # None /\ p.tried
                   /\ b.id[1] < n /\ b.id # p.id /\ b.events \cap p.events = {}
    /\ \A k \in DOMAIN g :
          /\ p # None => IF g[k].id = p.id THEN p.tried /\ g[k].events = p.events
                         ELSE g[k].events \cap p.events = {}
          /\ b # None => g[k].id # b.id /\ g[k].events \cap b.events = {}

\* The events due, D, are kept or taken, and nothing else is.
TakenIn(g) == UNION {g[k].events : k \in DOMAIN g}
Covered(p, b, g, D, overflowed) ==
    /\ KeptIn(p, b) \subseteq D /\ TakenIn(g) \subseteq D
    /\ \A e \in D : e \in KeptIn(p, b) \cup TakenIn(g) \/ (overflowed /\ e[1] = "scan")

CursorInv(c) ==
    /\ c.cursor <= Len(intake) /\ processed <= c.cursor
    /\ \A r \in Routes : /\ Distinct(c.pending[r], c.backlog[r], got[r], made)
                         /\ Covered(c.pending[r], c.backlog[r], got[r], Due(c), c.overflowed)

GotInv ==
    \A r \in Routes : \A i, j \in DOMAIN got[r] :
        /\ got[r][i].id[1] < made
        /\ i # j => got[r][i].events \cap got[r][j].events = {}

\* A delivery of a route that is not retry-safe and may have been taken is in flight
\* or terminal in the checkpoint.
TakenBy(g, p) == p # None /\ \E k \in DOMAIN g : g[k].id = p.id
CheckpointInv ==
    IF ckpt = None THEN processed = 0 /\ \A r \in Routes : got[r] = << >>
    ELSE /\ CursorInv(ckpt)
         /\ \A r \in Routes \ RetrySafe :
               TakenBy(got[r], ckpt.pending[r]) => ckpt.pending[r].inflight \/ ckpt.pending[r].terminal

\* A send is under way only for a delivery that the checkpoint has in flight; one
\* that was taken on a route that is not retry-safe is under way or terminal.
Live == pc \notin {"none", "start"}
Marked(p) == p # None /\ p.tried /\ p.inflight /\ ~p.terminal
SendLegal(r, p, c, g, t, due) ==
    /\ t # "none" =>
          /\ Marked(p) /\ c # None
          /\ Marked(c.pending[r])
          /\ c.pending[r].id = p.id /\ c.pending[r].events = p.events
    /\ t \in {"taken", "succeeded"} => TakenBy(g, p)
    /\ TakenBy(g, p) /\ r \notin RetrySafe =>
          t \in {"taken", "succeeded", "unknown"} \/ p.terminal
    /\ p # None /\ p.terminal => p.paused
    /\ r \in due => Marked(p) /\ t = "none"

ObserverInv ==
    IF Live
    THEN /\ CursorInv(mem)
         /\ ckpt # None => ckpt.cursor <= mem.cursor /\ ckpt.scans <= mem.scans
         /\ \A r \in Routes : SendLegal(r, mem.pending[r], ckpt, got[r], task[r], ready)
         /\ pc # "save" => ready = {}
    ELSE ready = {} /\ task = [r \in Routes |-> "none"]

IInv == TypeOK /\ IntakeOnce /\ GotInv /\ CheckpointInv /\ ObserverInv
====
