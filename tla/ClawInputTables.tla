--------------------------- MODULE ClawInputTables ---------------------------
(***************************************************************************)
(* The tables of the input journal, class InputStore of                    *)
(* packages/claw/src/xdog/claw/core/inputs/store.py: what is in them, how  *)
(* they are read and what holds of them, for the journal's own operations  *)
(* (ClawInputStore) and for the service over it (ClawInputService).        *)
(*                                                                         *)
(* A row of table `inputs' is inputs[sequence], a row of `attempts' is     *)
(* attempts[rowid]; neither table ever loses a row.  attempt_id is a fresh *)
(* uuid in the code and the rowid here, 0 standing for ''.  Timestamps are *)
(* kept as "has been recorded".                                            *)
(***************************************************************************)
EXTENDS Integers, Sequences, FiniteSets

CONSTANTS Scopes,       \* (group_id, workspace) pairs
          Messages,     \* message ids, unique within a scope
          Payloads,     \* encoded envelopes
          Namespaces,   \* uuids _bind_scope may draw
          Unbound,      \* "no row in table scopes"
          Texts,        \* non-empty responses, errors and session ids
          Capacities,   \* max_pending values the callers pass
          Outcomes,     \* (status, response, error, session) passed to finish
          MaxAttempts,  \* bound: attempts ever inserted
          MaxRetries    \* bound: explicit retries of one input

ASSUME UnboundAssumption == Unbound \notin Namespaces
ASSUME CapacityAssumption == Capacities \subseteq Nat \ {0}   \* the code also refuses more than 4096
ASSUME TextsAssumption == "" \notin Texts
ASSUME OutcomesAssumption ==
    Outcomes \subseteq [status : {"succeeded", "failed", "interrupted"},
                       response : Texts \cup {""}, error : Texts \cup {""},
                       session : Texts \cup {""}]
ASSUME BoundsAssumption == MaxAttempts \in Nat /\ MaxRetries \in Nat

VARIABLES open,        \* this process holds the lease and has recovered
          namespace,   \* table scopes
          inputs,      \* table inputs, in sequence order
          attempts,    \* table attempts, in rowid order
          authorized   \* history: executions asked for, 1 + explicit retries

journal == <<open, namespace, inputs, attempts, authorized>>

INTERRUPTED == "interrupted; inspect prior effects"
Text == Texts \cup {"", INTERRUPTED}

Statuses == {"pending", "claimed", "running",
             "succeeded", "failed", "interrupted", "cancelled"}
AttemptStatuses == (Statuses \ {"pending"}) \cup {"released"}
Active == {"claimed", "running"}
Terminal == {"succeeded", "failed", "interrupted", "cancelled"}

InputRow == [scope : Scopes, message : Messages, payload : Payloads,
             status : Statuses, attempt : Nat,
             response : Text, error : Text, session : Text]
AttemptRow == [seq : Nat, status : AttemptStatuses, started : BOOLEAN,
               startedAt : BOOLEAN, settledAt : BOOLEAN,
               response : Text, error : Text, session : Text]

-----------------------------------------------------------------------------
(* Queries. *)

Rows(s) == {i \in DOMAIN inputs : inputs[i].scope = s}
RowsIn(s, S) == {i \in Rows(s) : inputs[i].status \in S}
AttemptsOf(i) == {a \in DOMAIN attempts : attempts[a].seq = i}

\* _capacity: the rows that still occupy the scope's queue.
HasCapacity(s, maximum) ==
    Cardinality(RowsIn(s, {"pending", "claimed", "running"})) < maximum

\* _attempt: the fence.  The row still carries this attempt, in this state.
Holds(a, status) ==
    /\ inputs[attempts[a].seq].attempt = a
    /\ inputs[attempts[a].seq].status = status

\* latest_execution: the last started attempt of the scope, by rowid.
LatestExecution(s) ==
    LET S == {a \in DOMAIN attempts :
                 inputs[attempts[a].seq].scope = s /\ attempts[a].started}
    IN  {a \in S : \A b \in S : b <= a}

\* _execution_times
ExecutionTimesValid(t) ==
    /\ t.startedAt => t.started
    /\ t.settledAt => t.startedAt /\ t.status \in {"succeeded", "failed", "interrupted"}
    /\ t.startedAt /\ t.status # "running" => t.settledAt

\* _validate_receipts: an attempt in itself ...
AttemptFacts(t) ==
    /\ ExecutionTimesValid(t)
    /\ t.status \in AttemptStatuses
    /\ t.status \in {"claimed", "released", "cancelled"} => ~t.started
    /\ t.status \in {"running", "succeeded", "interrupted"} => t.started

\* ... an input in itself ...
InputFacts(r) ==
    /\ r.status \in Statuses
    /\ r.attempt = 0 => r.status \in {"pending", "cancelled"}
    /\ r.status = "pending" =>
         r.attempt = 0 /\ r.response = "" /\ r.error = "" /\ r.session = ""

\* ... an input and the attempt it names ...
SameFacts(r, t) ==
    /\ t.status = r.status
    /\ t.response = r.response
    /\ t.error = r.error
    /\ t.session = r.session

CurrentAttempt(i) ==
    inputs[i].attempt # 0 =>
        /\ inputs[i].attempt \in AttemptsOf(i)
        /\ \A b \in AttemptsOf(i) : b <= inputs[i].attempt
        /\ SameFacts(inputs[i], attempts[inputs[i].attempt])

\* ... and scope by scope.
OneActive(s) == \A i, j \in RowsIn(s, Active) : i = j

ValidateReceipts ==
    /\ \A a \in DOMAIN attempts :
         /\ attempts[a].seq \in DOMAIN inputs
         /\ AttemptFacts(attempts[a])
         /\ attempts[a].status \in Active => inputs[attempts[a].seq].attempt = a
    /\ \A i \in DOMAIN inputs :
         /\ namespace[inputs[i].scope] # Unbound
         /\ InputFacts(inputs[i])
         /\ CurrentAttempt(i)
    /\ \A s \in Scopes : OneActive(s)

-----------------------------------------------------------------------------
(* Properties. *)

\* The tables hold rows of their schema, with the states _STATES allows.
JournalTypeOK ==
    /\ open \in BOOLEAN
    /\ namespace \in [Scopes -> Namespaces \cup {Unbound}]
    /\ inputs \in Seq(InputRow)
    /\ attempts \in Seq(AttemptRow)
    /\ authorized \in Seq(Nat)
    /\ Len(authorized) = Len(inputs)

\* Whatever callers do, with however stale handles, and wherever a process
\* dies, the database passes _validate_receipts: a store never refuses to open
\* on what it wrote itself.
ReceiptsValid == ValidateReceipts

\* An input is executed at most once, plus once for each explicit retry:
\* neither a crash, a release nor a stale handle runs it again.
ExecutedAsAuthorized ==
    \A i \in DOMAIN inputs :
        Cardinality({a \in AttemptsOf(i) : attempts[a].started}) <= authorized[i]

\* Admission order: when some input of a scope has been claimed, every earlier
\* accepted input of that scope is settled, unless it came back by a retry; and
\* latest_execution reports the execution that is running, if one is: rowid
\* order (claims) and admission order (starts) are the same within a scope.
AdmissionInOrder ==
    /\ \A i, j \in DOMAIN inputs :
          /\ i < j
          /\ inputs[i].scope = inputs[j].scope
          /\ AttemptsOf(j) # {}
          => inputs[i].status \in Terminal \/ authorized[i] > 1
    /\ \A a \in DOMAIN attempts :
          attempts[a].status = "running"
              => LatestExecution(inputs[attempts[a].seq].scope) = {a}

\* A settled attempt is history: no operation, recovery included, rewrites it.
SettledForever ==
    [][\A a \in DOMAIN attempts :
          attempts[a].status \notin Active => attempts'[a] = attempts[a]]_journal

\* What an admitted execution did is never forgotten: a running input leaves
\* that state only for a terminal one, never back to the queue.
NoReplay ==
    [][\A i \in DOMAIN inputs :
          inputs[i].status = "running"
              => inputs'[i].status \in {"running", "succeeded", "failed", "interrupted"}]_journal

(* The inductive invariant.  Validation alone is not inductive: release and    *)
(* recover put a claimed row back without clearing its facts, so a claimed row *)
(* must have none; finish stamps settled_at on whatever was running, so a      *)
(* running attempt must have its started_at.                                   *)

ClaimedClean ==
    \A i \in DOMAIN inputs :
        inputs[i].status = "claimed" =>
            inputs[i].response = "" /\ inputs[i].error = "" /\ inputs[i].session = ""

RunningTimed ==
    \A a \in DOMAIN attempts : attempts[a].status = "running" => attempts[a].startedAt

JournalInv == JournalTypeOK /\ ValidateReceipts /\ ClaimedClean /\ RunningTimed

(* What the attempts tell of the past, for ExecutedAsAuthorized and           *)
(* AdmissionInOrder.  A row that waits has an execution left to spend; and as *)
(* an active scope accepts no claim, an active attempt is its scope's last.   *)

Executions(i) == {a \in AttemptsOf(i) : attempts[a].started}
Waits(i) == inputs[i].status \in {"pending", "claimed"}

ExecutionsLeft ==
    \A i \in DOMAIN inputs :
        IF Waits(i) THEN Cardinality(Executions(i)) < authorized[i]
                    ELSE Cardinality(Executions(i)) <= authorized[i]

EarlierSettled ==
    \A i, j \in DOMAIN inputs :
        /\ i < j
        /\ inputs[i].scope = inputs[j].scope
        /\ AttemptsOf(j) # {}
        => inputs[i].status \in Terminal \/ authorized[i] > 1

ActiveIsLast ==
    \A a, b \in DOMAIN attempts :
        /\ attempts[a].status \in Active
        /\ inputs[attempts[a].seq].scope = inputs[attempts[b].seq].scope
        => b <= a

AskedFor == \A i \in DOMAIN inputs : authorized[i] >= 1

HistoryInv == AskedFor /\ ExecutionsLeft /\ EarlierSettled /\ ActiveIsLast
=============================================================================
