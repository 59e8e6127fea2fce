------------------------- MODULE ClawOutputDelivery -------------------------
(***************************************************************************)
(* The transport of outputs: class OutputDelivery of                       *)
(* packages/claw/src/xdog/claw/core/outputs/delivery.py and the recovery   *)
(* of orchestrator.py (channels_ready), over the journal ClawOutputStore.  *)
(*                                                                         *)
(* One action runs between two suspensions of one coroutine, as in         *)
(* ClawInputService.  A drain is one _drain task; emit and resume create   *)
(* as many as they like, Drains bounds how many are alive at a time.       *)
(* Only _close cancels a drain: `cancelling' is noticed when the task next *)
(* resumes.  A journal operation that was under way then has committed or, *)
(* still waiting at the journal's lock, not started.  A disk may fail any  *)
(* journal operation of a drain.  The channel behind a sender is external: *)
(* it accepts an output or does not, and only DeliveryNotSent says which.  *)
(***************************************************************************)
EXTENDS ClawOutputTables

CONSTANTS Chunks,       \* how many chunks each emit of an origin has
          Drains,       \* drains alive at a time: a bound
          Nobody,       \* no drain holds the lane
          MaxBoots,     \* bound: processes that open the journal
          MaxFailures   \* bound: disk failures

ASSUME NobodyAssumption == Nobody \notin Drains
ASSUME ScopesAssumption == Scopes # {}
ASSUME ChunksAssumption == Chunks \in Nat \ {0} /\ 0..(Chunks - 1) \subseteq Ordinals
ASSUME BoundsAssumption == MaxBoots \in Nat /\ MaxFailures \in Nat

VARIABLES closer,      \* close(): none, asked (_closing), joining, closed
          emitting,    \* the ordinal an emit call of the origin is appending
          drain,       \* _tasks
          lane,        \* _locks: the drain that holds the scope's lock
          requested,   \* _output_recovery_requested
          recovery,    \* _output_resume: off, ready, reading, joining
          joined,      \* the drains that resume gathers
          accepted,    \* history: sends the channel accepted
          orphans,     \* history: outputs a drain gave up unsettled
          failures, boots

Store == INSTANCE ClawOutputStore
         WITH open <- open, origins <- origins, outputs <- outputs, sends <- sends

hostVars == <<closer, emitting, requested, recovery, joined, boots>>
vars == <<open, origins, outputs, sends, closer, emitting, drain, lane,
          requested, recovery, joined, accepted, orphans, failures, boots>>

closing == closer # "none"
NoEmit == -1

Points == {"off", "locking", "reading", "policy", "cancelRow", "begin", "refused",
           "recheck", "withhold", "cancelSent", "sending", "settle", "rescue", "rescueSettle"}

\* todo: the rows of the snapshot still to visit; x: started.send_id.
NoDrain == [pc |-> "off", scope |-> CHOOSE s \in Scopes : TRUE, todo |-> {}, x |-> 0,
            entered |-> FALSE, outcome |-> "pending", cancelling |-> FALSE, end |-> "none"]
Drain == [pc : Points, scope : Scopes, todo : SUBSET Nat, x : Nat, entered : BOOLEAN,
          outcome : {"pending", "cancelled", "delivered", "unknown"}, cancelling : BOOLEAN,
          end : {"none", "returned", "cancelled", "raised"}]

At(d, pc) == drain[d].pc = pc

\* The rows of a snapshot are visited in sequence order.
Row(d) == CHOOSE i \in drain[d].todo : \A j \in drain[d].todo : i <= j
Rest(d) == drain[d].todo \ {Row(d)}

-----------------------------------------------------------------------------
(* Shared pieces. *)

\* A slot for a new drain; a slot whose result is still awaited is not reused.
Free(d) == At(d, "off") /\ d \notin joined

\* _start: a new drain of the scope.
Started(d, s) == [drain EXCEPT ![d] = [NoDrain EXCEPT !.pc = "locking", !.scope = s]]

\* The drain ends; leaving `async with' frees the lane if it holds it.  How it
\* ended is remembered for a resume that awaits it.
Leave(d, how) ==
    /\ drain' = [drain EXCEPT ![d] =
                    [NoDrain EXCEPT !.end = IF d \in joined THEN how ELSE "none"]]
    /\ lane' = [s \in Scopes |-> IF lane[s] = d THEN Nobody ELSE lane[s]]

\* The loop of _drain goes on to the next pending row of its snapshot.
Visit(d, rows) ==
    IF closing \/ rows = {}
    THEN Leave(d, "returned")
    ELSE /\ drain' = [drain EXCEPT ![d] = [NoDrain EXCEPT
                         !.pc = "policy", !.scope = drain[d].scope, !.todo = rows,
                         !.cancelling = drain[d].cancelling]]
         /\ UNCHANGED lane

Goto(d, pc) == drain' = [drain EXCEPT ![d].pc = pc] /\ UNCHANGED lane

\* What a drain does next when the journal operation it awaited has committed:
\* it goes on, or its cancellation sends it to `cancelled'.
Then(d, next, cancelled) == IF drain[d].cancelling THEN cancelled ELSE next

-----------------------------------------------------------------------------
(* emit, cancel_pending, resume. *)

Emit(o) ==
    /\ open /\ ~closing
    /\ emitting[o] = NoEmit
    /\ emitting' = [emitting EXCEPT ![o] = 0]
    /\ UNCHANGED <<journal, closer, drain, lane, requested, recovery, joined,
                   accepted, orphans, failures, boots>>

\* One chunk is appended, or found; after the last one a drain is started,
\* which raises when the delivery is closing.  A caller cancelled meanwhile
\* leaves what was committed and starts nothing.
EmitChunk(o, p, t, acked) ==
    LET n == emitting[o] IN
    /\ n # NoEmit
    /\ \/ Store!AppendChunk(o, p, n, t)
       \/ /\ open /\ origins[o] = p
          /\ \E i \in OutputAt(o, n) : outputs[i].text = t
          /\ UNCHANGED journal
    /\ IF acked /\ n + 1 < Chunks
       THEN emitting' = [emitting EXCEPT ![o] = n + 1] /\ UNCHANGED drain
       ELSE /\ emitting' = [emitting EXCEPT ![o] = NoEmit]
            /\ IF acked /\ ~closing
               THEN \E d \in Drains : Free(d) /\ drain' = Started(d, ScopeOf[o])
               ELSE UNCHANGED drain
    /\ UNCHANGED <<closer, lane, requested, recovery, joined, accepted, orphans, failures, boots>>

\* emit that commits nothing more: cancelled at the lock, journal closed.
EmitRefused(o) ==
    /\ emitting[o] # NoEmit
    /\ emitting' = [emitting EXCEPT ![o] = NoEmit]
    /\ UNCHANGED <<journal, closer, drain, lane, requested, recovery, joined,
                   accepted, orphans, failures, boots>>

\* cancel_pending does not take the lane.
CancelPending(s, M) ==
    /\ Store!CancelPending(s, M)
    /\ UNCHANGED <<drain, lane, accepted, orphans, failures, hostVars>>

\* channels_ready: the request is coalesced with a recovery under way.
ChannelsReady ==
    /\ open /\ ~closing
    /\ requested' = TRUE
    /\ recovery' = IF recovery = "off" THEN "ready" ELSE recovery
    /\ UNCHANGED <<journal, closer, emitting, drain, lane, joined, accepted, orphans,
                   failures, boots>>

\* recover: the next round of its loop, or its end.
RecoverRound ==
    /\ recovery = "ready"
    /\ IF requested /\ ~closing
       THEN requested' = FALSE /\ recovery' = "reading"
       ELSE recovery' = "off" /\ UNCHANGED requested
    /\ UNCHANGED <<journal, closer, emitting, drain, lane, joined, accepted, orphans,
                   failures, boots>>

\* resume: one drain for each scope that has pending outputs.
PendingScopes == {ScopeOf[outputs[i].origin] :
                    i \in {j \in DOMAIN outputs : outputs[j].status = "pending"}}

ResumeStart ==
    /\ recovery = "reading"
    /\ IF ~open \/ (closing /\ PendingScopes # {})
       THEN recovery' = "off" /\ UNCHANGED <<drain, joined>>
       ELSE \E f \in [PendingScopes -> Drains] :
              /\ \A s, t \in PendingScopes : f[s] = f[t] => s = t
              /\ \A s \in PendingScopes : Free(f[s])
              /\ drain' = [d \in Drains |->
                    IF \E s \in PendingScopes : f[s] = d
                    THEN [NoDrain EXCEPT !.pc = "locking",
                                         !.scope = CHOOSE s \in PendingScopes : f[s] = d]
                    ELSE drain[d]]
              /\ joined' = {f[s] : s \in PendingScopes}
              /\ recovery' = "joining"
    /\ UNCHANGED <<journal, closer, emitting, lane, requested, accepted, orphans, failures, boots>>

\* gather: all drains returned, or the first failure ends the recovery.
ResumeJoin ==
    /\ recovery = "joining"
    /\ \/ /\ \E d \in joined : drain[d].end \in {"raised", "cancelled"}
          /\ recovery' = "off"
       \/ /\ \A d \in joined : drain[d].end = "returned"
          /\ recovery' = "ready"
    /\ joined' = {}
    /\ drain' = [d \in Drains |-> [drain[d] EXCEPT !.end = "none"]]
    /\ UNCHANGED <<journal, closer, emitting, lane, requested, accepted, orphans,
                   failures, boots>>

-----------------------------------------------------------------------------
(* One drain. *)

\* async with lock.
Lock(d) ==
    /\ At(d, "locking")
    /\ IF drain[d].cancelling
       THEN Leave(d, "cancelled")
       ELSE /\ lane[drain[d].scope] = Nobody
            /\ lane' = [lane EXCEPT ![drain[d].scope] = d]
            /\ drain' = [drain EXCEPT ![d].pc = "reading"]
    /\ UNCHANGED <<journal, accepted, orphans, failures, hostVars>>

\* The snapshot: rows that are not pending are passed over.
IsPendingOf(s, i) == outputs[i].status = "pending" /\ ScopeOf[outputs[i].origin] = s
Snapshot(s) == {i \in DOMAIN outputs : IsPendingOf(s, i)}

Read(d) ==
    /\ At(d, "reading")
    /\ IF drain[d].cancelling THEN Leave(d, "cancelled")
       ELSE Visit(d, Snapshot(drain[d].scope))
    /\ UNCHANGED <<journal, accepted, orphans, failures, hostVars>>

\* _policy: the host's gate answers, is unavailable (pending), or answers what
\* is no policy at all (error).  A retired route is always pending.
Policies == {"ready", "pending", "cancelled", "error"}

\* _policy, first time, and resolve_sender.
CheckPolicy(d, policy, reachable) ==
    /\ At(d, "policy")
    /\ policy = "ready" => Len(sends) < MaxSends
    /\ IF drain[d].cancelling THEN Leave(d, "cancelled")
       ELSE CASE policy = "cancelled" -> Goto(d, "cancelRow")
              [] policy = "error" -> Leave(d, "raised")
              [] policy = "ready" /\ reachable -> Goto(d, "begin")
              [] OTHER -> Visit(d, Rest(d))
    /\ UNCHANGED <<journal, accepted, orphans, failures, hostVars>>

CancelRow(d) ==
    /\ At(d, "cancelRow")
    /\ Store!CancelPending(drain[d].scope, {MessageOf[outputs[Row(d)].origin]})
    /\ Then(d, Visit(d, Rest(d)), Leave(d, "cancelled"))
    /\ UNCHANGED <<accepted, orphans, failures, hostVars>>

\* Mutant of BeginCommit: a cancelled begin is not settled.
BeginAbandoned(d) ==
    /\ At(d, "begin")
    /\ Store!Begin(Row(d))
    /\ Then(d, drain' = [drain EXCEPT ![d].pc = "recheck", ![d].x = Len(sends')] /\ UNCHANGED lane,
               Leave(d, "cancelled"))
    /\ UNCHANGED <<accepted, orphans, failures, hostVars>>

\* _send: begin commits; a cancellation hides the send_id from the drain.
BeginCommit(d) ==
    /\ At(d, "begin")
    /\ Store!Begin(Row(d))
    /\ Then(d, drain' = [drain EXCEPT ![d].pc = "recheck", ![d].x = Len(sends')] /\ UNCHANGED lane,
               Goto(d, "rescue"))
    /\ UNCHANGED <<accepted, orphans, failures, hostVars>>

\* begin raises: the row is no longer pending.  An error of the owned operation
\* wins over a cancellation of the drain, which is then forgotten.
BeginRefused(d) ==
    /\ At(d, "begin")
    /\ outputs[Row(d)].status # "pending"
    /\ drain' = [drain EXCEPT ![d].pc = "refused", ![d].cancelling = FALSE]
    /\ UNCHANGED lane
    /\ UNCHANGED <<journal, accepted, orphans, failures, hostVars>>

\* Only an explicit cancellation that won before begin is passed over.
ReadRefused(d) ==
    /\ At(d, "refused")
    /\ IF drain[d].cancelling THEN Leave(d, "cancelled")
       ELSE IF outputs[Row(d)].status = "cancelled" THEN Visit(d, Rest(d))
       ELSE Leave(d, "raised")
    /\ UNCHANGED <<journal, accepted, orphans, failures, hostVars>>

\* _policy, second time: past it the sender is entered.
Recheck(d, policy) ==
    /\ At(d, "recheck")
    /\ drain' = [drain EXCEPT ![d] =
          IF drain[d].cancelling THEN [@ EXCEPT !.pc = "rescue"]
          ELSE CASE policy = "ready" -> [@ EXCEPT !.pc = "sending", !.entered = TRUE]
                 [] policy = "error" -> [@ EXCEPT !.pc = "settle", !.outcome = "pending"]
                 [] OTHER -> [@ EXCEPT !.pc = "withhold", !.outcome = policy]]
    /\ UNCHANGED <<journal, lane, accepted, orphans, failures, hostVars>>

\* Mutant of Withhold: the row is cancelled in place, its send attempt left open.
WithholdInPlace(d, error) ==
    /\ At(d, "withhold")
    /\ outputs' = [outputs EXCEPT ![Row(d)].status = "cancelled", ![Row(d)].error = error]
    /\ Visit(d, Rest(d))
    /\ UNCHANGED <<open, origins, sends, accepted, orphans, failures, hostVars>>

\* The send attempt is settled as not sent, then the message is cancelled.
Withhold(d, error) ==
    /\ At(d, "withhold")
    /\ Store!Settle(Row(d), drain[d].x, "pending", error)
    /\ Then(d, IF drain[d].outcome = "cancelled" THEN Goto(d, "cancelSent")
               ELSE Visit(d, Rest(d)),
               Goto(d, "rescue"))
    /\ UNCHANGED <<accepted, orphans, failures, hostVars>>

CancelSent(d) ==
    /\ At(d, "cancelSent")
    /\ Store!CancelPending(drain[d].scope, {MessageOf[outputs[Row(d)].origin]})
    /\ Then(d, Visit(d, Rest(d)), Goto(d, "rescue"))
    /\ UNCHANGED <<accepted, orphans, failures, hostVars>>

\* External: the channel accepts what the sender hands it.
ChannelAccepts(d) ==
    /\ At(d, "sending")
    /\ drain[d].x \notin accepted
    /\ accepted' = accepted \cup {drain[d].x}
    /\ UNCHANGED <<journal, drain, lane, orphans, failures, hostVars>>

\* The sender returns, raises DeliveryNotSent or raises anything else.
SenderEnds(d, outcome) ==
    /\ At(d, "sending") /\ ~drain[d].cancelling
    /\ outcome = "delivered" => drain[d].x \in accepted
    /\ outcome = "pending" => drain[d].x \notin accepted
    /\ drain' = [drain EXCEPT ![d].pc = "settle", ![d].outcome = outcome]
    /\ UNCHANGED <<journal, lane, accepted, orphans, failures, hostVars>>

\* The outcome is settled; a cancellation during it is not caught any more.
SettleSend(d, error) ==
    /\ At(d, "settle")
    /\ Store!Settle(Row(d), drain[d].x, drain[d].outcome, error)
    /\ Then(d, Visit(d, Rest(d)), Leave(d, "cancelled"))
    /\ UNCHANGED <<accepted, orphans, failures, hostVars>>

\* CancelledError at an await of the drain, nothing having committed.
Interrupted(d) ==
    /\ drain[d].cancelling
    /\ \/ drain[d].pc \in {"begin", "withhold", "cancelSent", "sending"} /\ Goto(d, "rescue")
       \/ drain[d].pc \in {"cancelRow", "settle"} /\ Leave(d, "cancelled")
    /\ orphans' = IF At(d, "settle") THEN orphans \cup {Row(d)} ELSE orphans
    /\ UNCHANGED <<journal, accepted, failures, hostVars>>

\* Mutants of RescueRead: a cancelled sender counts as not sent; nothing but an
\* open send attempt ends the rescue.
RescueNotSent(d) ==
    /\ At(d, "rescue")
    /\ IF outputs[Row(d)].status = "sending"
       THEN /\ drain' = [drain EXCEPT ![d].pc = "rescueSettle", ![d].x = outputs[Row(d)].send,
                            ![d].outcome = "pending"]
            /\ UNCHANGED lane
       ELSE Leave(d, "cancelled")
    /\ UNCHANGED <<journal, accepted, orphans, failures, hostVars>>

RescueSendingOnly(d) ==
    /\ At(d, "rescue")
    /\ outputs[Row(d)].status = "sending"
    /\ drain' = [drain EXCEPT ![d].pc = "rescueSettle", ![d].x = outputs[Row(d)].send,
                            ![d].outcome = IF drain[d].entered THEN "unknown" ELSE "pending"]
    /\ UNCHANGED <<journal, lane, accepted, orphans, failures, hostVars>>

\* settle_cancelled: a task of its own, joined whatever happens.
RescueRead(d) ==
    /\ At(d, "rescue")
    /\ IF outputs[Row(d)].status = "sending"
       THEN /\ drain' = [drain EXCEPT ![d].pc = "rescueSettle", ![d].x = outputs[Row(d)].send,
                            ![d].outcome = IF drain[d].entered THEN "unknown" ELSE "pending"]
            /\ UNCHANGED lane
       ELSE Leave(d, "cancelled")
    /\ UNCHANGED <<journal, accepted, orphans, failures, hostVars>>

RescueSettle(d, error) ==
    /\ At(d, "rescueSettle")
    /\ Store!Settle(Row(d), drain[d].x, drain[d].outcome, error)
    /\ Leave(d, "cancelled")
    /\ UNCHANGED <<accepted, orphans, failures, hostVars>>

\* A journal operation of the drain fails.  _send reads a failed begin back and
\* settles a failed withhold as not sent; any other failure leaves _drain.
DiskFails(d) ==
    /\ failures < MaxFailures
    /\ drain[d].pc \in {"reading", "cancelRow", "begin", "refused", "withhold", "cancelSent",
                        "settle", "rescue", "rescueSettle"}
    /\ failures' = failures + 1
    /\ CASE At(d, "begin") ->
              drain' = [drain EXCEPT ![d].pc = "refused", ![d].cancelling = FALSE] /\ UNCHANGED lane
         [] drain[d].pc \in {"withhold", "cancelSent"} ->
              /\ drain' = [drain EXCEPT ![d].pc = "settle", ![d].outcome = "pending",
                                        ![d].cancelling = FALSE]
              /\ UNCHANGED lane
         [] OTHER -> Leave(d, "raised")
    /\ orphans' = IF drain[d].pc \in {"settle", "rescue", "rescueSettle"}
                  THEN orphans \cup {Row(d)} ELSE orphans
    /\ UNCHANGED <<journal, accepted, hostVars>>

\* A settlement is refused: the ValueError of settle leaves _drain.
SettleRefused(d) ==
    /\ drain[d].pc \in {"settle", "rescueSettle"}
    /\ ~Store!Held(Row(d), drain[d].x)
    /\ Leave(d, "raised")
    /\ UNCHANGED <<journal, accepted, orphans, failures, hostVars>>

-----------------------------------------------------------------------------
(* The process. *)

Boot ==
    /\ boots < MaxBoots
    /\ Store!Open
    /\ boots' = boots + 1
    /\ closer' = "none"
    /\ emitting' = [o \in Origins |-> NoEmit]
    /\ drain' = [d \in Drains |-> NoDrain]
    /\ lane' = [s \in Scopes |-> Nobody]
    /\ requested' = FALSE /\ recovery' = "off" /\ joined' = {}
    /\ orphans' = {}
    /\ UNCHANGED <<accepted, failures>>

\* close sets _closing; its task then cancels the drains, joins them and
\* closes the journal.
AskClose ==
    /\ open /\ closer = "none"
    /\ closer' = "asked"
    /\ UNCHANGED <<journal, emitting, drain, lane, requested, recovery, joined, accepted,
                   orphans, failures, boots>>

CancelDrains ==
    /\ closer = "asked"
    /\ closer' = "joining"
    /\ drain' = [d \in Drains |-> IF At(d, "off") THEN drain[d]
                                  ELSE [drain[d] EXCEPT !.cancelling = TRUE]]
    /\ UNCHANGED <<journal, emitting, lane, requested, recovery, joined, accepted, orphans,
                   failures, boots>>

CloseJournal ==
    /\ closer = "joining"
    /\ \A d \in Drains : At(d, "off")
    /\ Store!Close
    /\ closer' = "closed"
    /\ UNCHANGED <<emitting, drain, lane, requested, recovery, joined, accepted, orphans,
                   failures, boots>>

\* The process dies.  What a channel has accepted it may still deliver.
Crash ==
    /\ Store!Close
    /\ closer' = "closed"
    /\ emitting' = [o \in Origins |-> NoEmit]
    /\ drain' = [d \in Drains |-> NoDrain]
    /\ lane' = [s \in Scopes |-> Nobody]
    /\ requested' = FALSE /\ recovery' = "off" /\ joined' = {}
    /\ orphans' = {}
    /\ UNCHANGED <<accepted, failures, boots>>

Init ==
    /\ Store!Init
    /\ closer = "closed"
    /\ emitting = [o \in Origins |-> NoEmit]
    /\ drain = [d \in Drains |-> NoDrain]
    /\ lane = [s \in Scopes |-> Nobody]
    /\ requested = FALSE /\ recovery = "off" /\ joined = {}
    /\ accepted = {} /\ orphans = {}
    /\ failures = 0 /\ boots = 0

DrainStep(d) ==
    \/ Lock(d) \/ Read(d) \/ CancelRow(d) \/ BeginCommit(d) \/ BeginRefused(d)
    \/ ReadRefused(d) \/ CancelSent(d) \/ Interrupted(d) \/ RescueRead(d) \/ SettleRefused(d)
    \/ \E policy \in Policies :
          Recheck(d, policy) \/ \E reachable \in BOOLEAN : CheckPolicy(d, policy, reachable)
    \/ \E error \in Errors \cup {""} : Withhold(d, error) \/ SettleSend(d, error) \/ RescueSettle(d, error)

SenderStep(d) ==
    \/ ChannelAccepts(d)
    \/ \E outcome \in {"delivered", "pending", "unknown"} : SenderEnds(d, outcome)

Recover == RecoverRound \/ ResumeStart \/ ResumeJoin

Next ==
    \/ Boot \/ AskClose \/ CancelDrains \/ CloseJournal \/ Crash
    \/ \E o \in Origins : Emit(o) \/ EmitRefused(o)
    \/ \E o \in Origins, p \in Payloads, t \in Texts, acked \in BOOLEAN : EmitChunk(o, p, t, acked)
    \/ \E s \in Scopes, M \in SUBSET MessageIds : CancelPending(s, M)
    \/ ChannelsReady \/ Recover
    \/ \E d \in Drains : DrainStep(d) \/ SenderStep(d) \/ DiskFails(d)

\* The event loop runs every ready coroutine, disk operations end and a sender
\* ends: channels put a time limit on their requests.  asyncio.Lock is first in,
\* first out, so a drain that waits for its lane gets it.
Fairness ==
    /\ \A d \in Drains : /\ WF_vars(DrainStep(d)) /\ WF_vars(SenderStep(d))
                         /\ SF_vars(Lock(d))
    /\ WF_vars(Recover)
    /\ WF_vars(CancelDrains) /\ WF_vars(CloseJournal)

Spec == Init /\ [][Next]_vars
FairSpec == Spec /\ Fairness

-----------------------------------------------------------------------------
(* Properties. *)

\* Drains, lanes and the recovery have their types; only sends that exist were
\* accepted.
TypeOK ==
    /\ Store!TypeOK
    /\ closer \in {"none", "asked", "joining", "closed"}
    /\ emitting \in [Origins -> Ordinals \cup {NoEmit}]
    /\ drain \in [Drains -> Drain]
    /\ lane \in [Scopes -> Drains \cup {Nobody}]
    /\ requested \in BOOLEAN
    /\ recovery \in {"off", "ready", "reading", "joining"}
    /\ joined \subseteq Drains
    /\ accepted \subseteq DOMAIN sends /\ orphans \subseteq DOMAIN outputs
    /\ failures \in 0..MaxFailures /\ boots \in 0..MaxBoots

\* Every step of the delivery is an operation of the journal or leaves it alone.
StoreSpec == Store!Spec

\* No channel accepts an output twice: neither a retry, a second drain, a
\* cancellation nor a restart repeats a send that may have been accepted.
NeverAcceptedTwice ==
    \A x, y \in accepted : sends[x].out = sends[y].out => x = y

\* The receipts tell what the channel did: an attempt recorded as not sent was
\* not accepted, and one recorded as delivered was.
AttemptsTruthful ==
    \A x \in DOMAIN sends :
        /\ sends[x].status = "not_sent" => x \notin accepted
        /\ sends[x].status = "delivered" => x \in accepted

\* delivery_status of a message: "delivered" claims every chunk, and "cancelled"
\* that no chunk left.
StatusTruthful ==
    \A m \in MessageIds :
        LET S == {i \in DOMAIN outputs : MessageOf[outputs[i].origin] = m}
            Left(i) == \E x \in accepted : sends[x].out = i
        IN  /\ DeliveryStatus(S) = "delivered" => \A i \in S : Left(i)
            /\ DeliveryStatus(S) = "cancelled" => \A i \in S : ~Left(i)

\* In a live process a row is "sending" only in the hands of the drain that
\* holds its lane, unless that drain lost the disk or was cancelled while it
\* settled: no row is forgotten in that state otherwise.
SendingIsOwned ==
    open => \A i \in DOMAIN outputs :
        outputs[i].status = "sending" =>
            \/ i \in orphans
            \/ \E d \in Drains :
                  /\ lane[ScopeOf[outputs[i].origin]] = d
                  /\ drain[d].pc \in {"recheck", "withhold", "sending", "settle", "rescue",
                                      "rescueSettle"}
                  /\ Row(d) = i

\* What the journal says of an attempt, what is reported of a message made of
\* several, and who has a row in hand, is what the channel and the drains did.
ReceiptsTruthful == AttemptsTruthful /\ StatusTruthful /\ SendingIsOwned

-----------------------------------------------------------------------------
(* The inductive invariant. *)

\* Where a drain may have a send attempt under way, and where it knows its id.
InHand == {"recheck", "withhold", "sending", "settle", "rescue", "rescueSettle"}
HasSend == {"recheck", "withhold", "cancelSent", "sending", "settle", "rescueSettle"}

\* A drain past the lock holds the lane of the rows it has still to visit.
LaneHeld(d) ==
    /\ drain[d].pc \notin {"off", "locking"} => lane[drain[d].scope] = d
    /\ drain[d].pc \in {"off", "locking", "reading"} <=> drain[d].todo = {}
    /\ \A i \in drain[d].todo : i \in DOMAIN outputs /\ ScopeOf[outputs[i].origin] = drain[d].scope

\* Of those rows only the one in hand is being sent, under the id the drain has.
RowInHand(d) ==
    /\ \A i \in drain[d].todo : outputs[i].status = "sending" => i = Row(d) /\ drain[d].pc \in InHand
    /\ drain[d].pc \in {"recheck", "withhold", "sending"} => outputs[Row(d)].status = "sending"
    /\ drain[d].pc \in HasSend =>
          /\ drain[d].x \in SendsOf(Row(d))
          /\ outputs[Row(d)].status = "sending" => outputs[Row(d)].send = drain[d].x

\* What the drain is about to record of the attempt is what the channel did:
\* before the sender is entered, nothing was accepted.
OutcomeTrue(d) ==
    /\ drain[d].pc \in {"recheck", "withhold", "cancelSent"} => drain[d].x \notin accepted
    /\ drain[d].pc \in {"settle", "rescueSettle"} =>
          /\ drain[d].outcome \in {"pending", "delivered", "unknown"}
          /\ drain[d].outcome = "delivered" => drain[d].x \in accepted
          /\ drain[d].outcome = "pending" => drain[d].x \notin accepted
    /\ drain[d].pc = "rescue" /\ ~drain[d].entered /\ outputs[Row(d)].status = "sending"
          => outputs[Row(d)].send \notin accepted
    /\ drain[d].pc = "sending" => drain[d].entered
    /\ drain[d].entered => drain[d].pc \in {"sending", "settle", "rescue", "rescueSettle"}

DrainInv(d) == LaneHeld(d) /\ RowInHand(d) /\ OutcomeTrue(d)

IInv ==
    /\ TypeOK /\ Validate
    /\ \A d \in Drains : DrainInv(d)
    /\ AttemptsTruthful /\ SendingIsOwned

-----------------------------------------------------------------------------

\* The chunks of one reply reach their channel in the order they were emitted:
\* "One ordered delivery lane per scope".
DeliveredInOrder ==
    \A x, y \in accepted :
        /\ outputs[sends[x].out].origin = outputs[sends[y].out].origin
        /\ sends[x].out < sends[y].out
        => x < y

\* Every drain ends and frees its lane, and close ends: no drain resists its
\* cancellation, the journal is closed.
DeliveryEnds ==
    /\ \A d \in Drains : ~At(d, "off") ~> At(d, "off")
    /\ closing ~> ~open
=============================================================================
