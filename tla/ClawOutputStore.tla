--------------------------- MODULE ClawOutputStore ---------------------------
(***************************************************************************)
(* The durable output journal of a Claw application: class OutputStore of  *)
(* packages/claw/src/xdog/claw/core/outputs/store.py.                      *)
(*                                                                         *)
(* As in ClawInputStore an operation is one transaction and one action; a  *)
(* false guard is the ValueError of the code, and reads are not actions.   *)
(* An origin stands for (scope, message, attempt, binding), the parts that *)
(* _origin_key digests; outputs[sequence] is a row of table `outputs' and  *)
(* sends[rowid] one of `send_attempts'.  A send_id is the rowid, 0 is ''.  *)
(* Callers may hold any send_id ever issued.                               *)
(***************************************************************************)
EXTENDS ClawOutputTables

vars == journal

-----------------------------------------------------------------------------
(* Operations. *)

Init ==
    /\ open = FALSE
    /\ origins = [o \in Origins |-> Absent]
    /\ outputs = <<>>
    /\ sends = <<>>

\* Mutant of Recovered: an interrupted send is tried again.
RecoveredRetries(r) == IF r.status = "sending" THEN [r EXCEPT !.status = "pending"] ELSE r

\* _recover: a send that a dead process had begun may have been accepted.
Recovered(r) == IF r.status = "sending"
                THEN [r EXCEPT !.status = "unknown", !.error = INTERRUPTED]
                ELSE r

Open ==
    /\ ~open
    /\ Validate
    /\ open' = TRUE
    /\ outputs' = [i \in DOMAIN outputs |-> Recovered(outputs[i])]
    /\ sends' = [x \in DOMAIN sends |-> Recovered(sends[x])]
    /\ UNCHANGED origins

Close ==
    /\ open
    /\ open' = FALSE
    /\ UNCHANGED <<origins, outputs, sends>>

\* append of a new chunk.  A known (origin, ordinal) with the same text is
\* answered with its row, another text or payload is refused: no change.
AppendChunk(o, p, n, t) ==
    /\ open
    /\ origins[o] \in {Absent, p}
    /\ OutputAt(o, n) = {}
    /\ origins' = [origins EXCEPT ![o] = p]
    /\ outputs' = Append(outputs, [origin |-> o, ordinal |-> n, text |-> t,
                                   status |-> "pending", send |-> 0, error |-> ""])
    /\ UNCHANGED <<open, sends>>

\* Mutant of Cancellable: an output of unknown outcome is cancelled too.
CancellableUnknown(s, M, r) ==
    /\ r.status \in {"pending", "unknown"}
    /\ ScopeOf[r.origin] = s /\ MessageOf[r.origin] \in M

\* cancel_pending: every pending row of the selected messages.
Cancellable(s, M, r) ==
    r.status = "pending" /\ ScopeOf[r.origin] = s /\ MessageOf[r.origin] \in M

CancelPending(s, M) ==
    /\ open
    /\ outputs' = [i \in DOMAIN outputs |->
                      IF Cancellable(s, M, outputs[i])
                      THEN [outputs[i] EXCEPT !.status = "cancelled"] ELSE outputs[i]]
    /\ UNCHANGED <<open, origins, sends>>

\* begin: only a proven-not-sent output starts a send attempt.
Begin(i) ==
    /\ open
    /\ Len(sends) < MaxSends
    /\ outputs[i].status = "pending"
    /\ sends' = Append(sends, [out |-> i, status |-> "sending", error |-> ""])
    /\ outputs' = [outputs EXCEPT ![i] =
                      [@ EXCEPT !.status = "sending", !.send = Len(sends) + 1, !.error = ""]]
    /\ UNCHANGED <<open, origins>>

\* settle: fenced by the send_id.
Held(i, x) == outputs[i].status = "sending" /\ outputs[i].send = x

\* Mutant of Settle: only the row is settled, its send attempt stays open.
SettleRowOnly(i, x, status, error) ==
    /\ open
    /\ Held(i, x)
    /\ outputs' = [outputs EXCEPT ![i] = [@ EXCEPT !.status = status, !.error = error]]
    /\ UNCHANGED <<open, origins, sends>>

Settle(i, x, status, error) ==
    /\ open
    /\ Held(i, x)
    /\ sends' = [sends EXCEPT ![x] = [@ EXCEPT !.status = SendState(status), !.error = error]]
    /\ outputs' = [outputs EXCEPT ![i] = [@ EXCEPT !.status = status, !.error = error]]
    /\ UNCHANGED <<open, origins>>

Next ==
    \/ Open
    \/ Close
    \/ \E o \in Origins, p \in Payloads, n \in Ordinals, t \in Texts : AppendChunk(o, p, n, t)
    \/ \E s \in Scopes, M \in SUBSET MessageIds : CancelPending(s, M)
    \/ \E i \in DOMAIN outputs : Begin(i)
    \/ \E i \in DOMAIN outputs, x \in DOMAIN sends, error \in Errors \cup {""},
          status \in {"pending", "delivered", "unknown"} : Settle(i, x, status, error)

Spec == Init /\ [][Next]_vars

-----------------------------------------------------------------------------
(* Properties. *)

\* The tables hold rows of their schema, with the states _STATES allows.
TypeOK ==
    /\ open \in BOOLEAN
    /\ origins \in [Origins -> Payloads \cup {Absent}]
    /\ outputs \in Seq(OutputRow)
    /\ sends \in Seq(SendRow)

\* The inductive invariant: what is validated is already inductive.
IInv == TypeOK /\ Validate
=============================================================================
