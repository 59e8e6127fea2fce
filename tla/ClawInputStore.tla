--------------------------- MODULE ClawInputStore ---------------------------
(***************************************************************************)
(* The durable input journal of a Claw application: class InputStore of    *)
(* packages/claw/src/xdog/claw/core/inputs/store.py.                       *)
(*                                                                         *)
(* Every operation is one SQLite transaction run under the store's lock,   *)
(* so every operation is one action.  An operation that raises or that     *)
(* only reads leaves the database unchanged and is not an action of its    *)
(* own: a guard that is false here is the ValueError of the code.          *)
(*                                                                         *)
(* A caller that holds an InputRecord holds an attempt_id; callers may     *)
(* keep one for as long as they like, so Start, Finish, Release and Reject *)
(* take ANY attempt ever issued.                                           *)
(***************************************************************************)
EXTENDS ClawInputTables

vars == journal

-----------------------------------------------------------------------------
(* Operations. *)

Init ==
    /\ open = FALSE
    /\ namespace = [s \in Scopes |-> Unbound]
    /\ inputs = <<>>
    /\ attempts = <<>>
    /\ authorized = <<>>

\* Mutant of RecoverAttempt: rewrites released attempts too.
RecoverAttemptReleased(t) ==
    CASE t.status \in {"claimed", "released"} -> [t EXCEPT !.status = "cancelled"]
      [] t.status = "running" -> [t EXCEPT !.status = "interrupted",
                                           !.error = INTERRUPTED,
                                           !.settledAt = t.startedAt \/ t.settledAt]
      [] OTHER -> t

\* What recovery makes of a row a dead process left claimed or running.
RecoverAttempt(t) ==
    CASE t.status = "claimed" -> [t EXCEPT !.status = "released"]
      [] t.status = "running" -> [t EXCEPT !.status = "interrupted",
                                           !.error = INTERRUPTED,
                                           !.settledAt = t.startedAt \/ t.settledAt]
      [] OTHER -> t

\* Mutants of RecoverInput: the claim kept, and an
\* interrupted execution queued again.
RecoverInputKeepsAttempt(r) ==
    IF r.status = "claimed" THEN [r EXCEPT !.status = "pending"] ELSE r

RecoverInputRequeues(r) ==
    IF r.status \in Active
    THEN [r EXCEPT !.status = "pending", !.attempt = 0, !.session = ""] ELSE r

RecoverInput(r) ==
    CASE r.status = "claimed" -> [r EXCEPT !.status = "pending", !.attempt = 0]
      [] r.status = "running" -> [r EXCEPT !.status = "interrupted",
                                           !.error = INTERRUPTED]
      [] OTHER -> r

\* open: validate what is on disk, then recover it in one transaction.
Open ==
    /\ ~open
    /\ ValidateReceipts
    /\ open' = TRUE
    /\ attempts' = [a \in DOMAIN attempts |-> RecoverAttempt(attempts[a])]
    /\ inputs' = [i \in DOMAIN inputs |-> RecoverInput(inputs[i])]
    /\ UNCHANGED <<namespace, authorized>>

\* close, or the end of the process: committed rows stay as they are.
Close ==
    /\ open
    /\ open' = FALSE
    /\ UNCHANGED <<namespace, inputs, attempts, authorized>>

\* INSERT OR IGNORE of a scope's namespace.
Bind(s) ==
    IF namespace[s] # Unbound
    THEN namespace' = namespace
    ELSE \E n \in Namespaces :
            /\ \A t \in Scopes : namespace[t] # n
            /\ namespace' = [namespace EXCEPT ![s] = n]

BindScope(s) ==
    /\ open
    /\ Bind(s)
    /\ UNCHANGED <<open, inputs, attempts, authorized>>

\* The insertion of enqueue.  A known message id is answered with its row when
\* the payload is the same one and refused when it is not: no change either way.
Enqueue(s, m, p, maximum) ==
    /\ open
    /\ \A i \in Rows(s) : inputs[i].message # m
    /\ HasCapacity(s, maximum)
    /\ Bind(s)
    /\ inputs' = Append(inputs,
          [scope |-> s, message |-> m, payload |-> p, status |-> "pending",
           attempt |-> 0, response |-> "", error |-> "", session |-> ""])
    /\ authorized' = Append(authorized, 1)
    /\ UNCHANGED <<open, attempts>>

\* Mutant of Claimable: any pending row.
ClaimableAny(s, i) ==
    /\ RowsIn(s, Active) = {}
    /\ i \in RowsIn(s, {"pending"})

\* claim: the oldest pending row, unless the scope has an active one.
Claimable(s, i) ==
    /\ RowsIn(s, Active) = {}
    /\ i \in RowsIn(s, {"pending"})
    /\ \A j \in RowsIn(s, {"pending"}) : i <= j

Claim(s) ==
    /\ open
    /\ Len(attempts) < MaxAttempts
    /\ \E i \in DOMAIN inputs :
         /\ Claimable(s, i)
         /\ attempts' = Append(attempts,
               [seq |-> i, status |-> "claimed", started |-> FALSE,
                startedAt |-> FALSE, settledAt |-> FALSE,
                response |-> "", error |-> "", session |-> ""])
         /\ inputs' = [inputs EXCEPT ![i] =
               [@ EXCEPT !.status = "claimed", !.attempt = Len(attempts) + 1]]
    /\ UNCHANGED <<open, namespace, authorized>>

Start(a, session) ==
    /\ open
    /\ Holds(a, "claimed")
    /\ inputs' = [inputs EXCEPT ![attempts[a].seq] =
                     [@ EXCEPT !.status = "running", !.session = session]]
    /\ attempts' = [attempts EXCEPT ![a] =
                     [@ EXCEPT !.status = "running", !.started = TRUE,
                               !.startedAt = TRUE, !.session = session]]
    /\ UNCHANGED <<open, namespace, authorized>>

Finish(a, out) ==
    LET i == attempts[a].seq
        session == IF out.session = "" THEN inputs[i].session ELSE out.session
    IN
    /\ open
    /\ Holds(a, "running")
    /\ inputs' = [inputs EXCEPT ![i] =
                     [@ EXCEPT !.status = out.status, !.response = out.response,
                               !.error = out.error, !.session = session]]
    /\ attempts' = [attempts EXCEPT ![a] =
                     [@ EXCEPT !.status = out.status, !.response = out.response,
                               !.error = out.error, !.session = session,
                               !.settledAt = TRUE]]
    /\ UNCHANGED <<open, namespace, authorized>>

\* cancel: only an unstarted input; a claim is cancelled with its row.
Cancel(i) ==
    /\ open
    /\ inputs[i].status \in {"pending", "claimed"}
    /\ inputs' = [inputs EXCEPT ![i] = [@ EXCEPT !.status = "cancelled"]]
    /\ attempts' = IF inputs[i].attempt # 0
                   THEN [attempts EXCEPT ![inputs[i].attempt] =
                                                [@ EXCEPT !.status = "cancelled"]]
                   ELSE attempts
    /\ UNCHANGED <<open, namespace, authorized>>

Release(a) ==
    /\ open
    /\ Holds(a, "claimed")
    /\ attempts' = [attempts EXCEPT ![a] = [@ EXCEPT !.status = "released"]]
    /\ inputs' = [inputs EXCEPT ![attempts[a].seq] =
                     [@ EXCEPT !.status = "pending", !.attempt = 0]]
    /\ UNCHANGED <<open, namespace, authorized>>

Reject(a, error) ==
    /\ open
    /\ Holds(a, "claimed")
    /\ inputs' = [inputs EXCEPT ![attempts[a].seq] =
                     [@ EXCEPT !.status = "failed", !.error = error]]
    /\ attempts' = [attempts EXCEPT ![a] =
                     [@ EXCEPT !.status = "failed", !.error = error]]
    /\ UNCHANGED <<open, namespace, authorized>>

Retry(i, maximum) ==
    /\ open
    /\ authorized[i] <= MaxRetries
    /\ inputs[i].status \in {"failed", "interrupted"}
    /\ HasCapacity(inputs[i].scope, maximum)
    /\ inputs' = [inputs EXCEPT ![i] =
                     [@ EXCEPT !.status = "pending", !.attempt = 0,
                               !.response = "", !.error = "", !.session = ""]]
    /\ authorized' = [authorized EXCEPT ![i] = @ + 1]
    /\ UNCHANGED <<open, namespace, attempts>>

Next ==
    \/ Open
    \/ Close
    \/ \E s \in Scopes : BindScope(s)
    \/ \E s \in Scopes, m \in Messages, p \in Payloads, c \in Capacities :
          Enqueue(s, m, p, c)
    \/ \E s \in Scopes : Claim(s)
    \/ \E a \in DOMAIN attempts, session \in Texts \cup {""} : Start(a, session)
    \/ \E a \in DOMAIN attempts, out \in Outcomes : Finish(a, out)
    \/ \E i \in DOMAIN inputs : Cancel(i)
    \/ \E a \in DOMAIN attempts : Release(a)
    \/ \E a \in DOMAIN attempts, error \in Texts : Reject(a, error)
    \/ \E i \in DOMAIN inputs, c \in Capacities : Retry(i, c)

Spec == Init /\ [][Next]_vars
=============================================================================
