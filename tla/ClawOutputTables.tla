--------------------------- MODULE ClawOutputTables ---------------------------
(***************************************************************************)
(* The tables of the output journal, class OutputStore of                  *)
(* packages/claw/src/xdog/claw/core/outputs/store.py: what is in them, how *)
(* they are read and what holds of them, for the journal's own operations  *)
(* (ClawOutputStore) and for the delivery over it (ClawOutputDelivery).    *)
(***************************************************************************)
EXTENDS Integers, Sequences, FiniteSets

CONSTANTS Origins,      \* what a chunk is an answer to, and its destination
          Scopes,       \* (group_id, workspace) pairs
          MessageIds,   \* input message ids
          ScopeOf,      \* the scope of each origin
          MessageOf,    \* the message id of each origin
          Payloads,     \* encoded envelopes
          Absent,       \* "no row in table origins"
          Ordinals,     \* chunk numbers
          Texts,        \* chunk texts
          Errors,       \* non-empty transport errors
          MaxSends      \* bound: send attempts ever inserted

ASSUME OriginsAssumption ==
    /\ ScopeOf \in [Origins -> Scopes]
    /\ MessageOf \in [Origins -> MessageIds]
ASSUME AbsentAssumption == Absent \notin Payloads
ASSUME OrdinalsAssumption == Ordinals \subseteq Nat   \* the code also refuses 2^53 and more
ASSUME ErrorsAssumption == "" \notin Errors
ASSUME SendsAssumption == MaxSends \in Nat

VARIABLES open,      \* this process holds the lease and has recovered
          origins,   \* table origins: the payload of each origin
          outputs,   \* table outputs, in sequence order
          sends      \* table send_attempts, in rowid order

journal == <<open, origins, outputs, sends>>

INTERRUPTED == "Transport interrupted; output may have been accepted"
ErrorText == Errors \cup {"", INTERRUPTED}

States == {"pending", "sending", "delivered", "unknown", "cancelled"}
SendStates == {"sending", "not_sent", "delivered", "unknown"}

OutputRow == [origin : Origins, ordinal : Ordinals, text : Texts,
              status : States, send : Nat, error : ErrorText]
SendRow == [out : Nat, status : SendStates, error : ErrorText]

-----------------------------------------------------------------------------
(* Queries. *)

OutputAt(o, n) == {i \in DOMAIN outputs : outputs[i].origin = o /\ outputs[i].ordinal = n}
SendsOf(i) == {x \in DOMAIN sends : sends[x].out = i}

\* What the last send attempt of a row in this status says.
SendState(status) == IF status \in {"pending", "cancelled"} THEN "not_sent" ELSE status

\* _validate, one output: the row repeats its last send attempt, and every
\* earlier one is known not to have been sent.
RowValid(i) ==
    IF outputs[i].send # 0
    THEN /\ outputs[i].send \in SendsOf(i)
         /\ sends[outputs[i].send].status = SendState(outputs[i].status)
         /\ sends[outputs[i].send].error = outputs[i].error
         /\ \A x \in SendsOf(i) \ {outputs[i].send} :
               x < outputs[i].send /\ sends[x].status = "not_sent"
    ELSE /\ SendsOf(i) = {}
         /\ outputs[i].status \in {"pending", "cancelled"}
         /\ outputs[i].error = ""

Validate ==
    /\ \A i \in DOMAIN outputs : origins[outputs[i].origin] # Absent /\ RowValid(i)
    /\ \A x \in DOMAIN sends : sends[x].out \in DOMAIN outputs

\* delivery_status of a set of rows.
DeliveryStatus(S) ==
    LET states == {outputs[i].status : i \in S} IN
    CASE states = {} -> "untracked"
      [] states = {"delivered"} -> "delivered"
      [] "unknown" \in states -> "unknown"
      [] states # {} /\ states \subseteq {"pending", "sending"} -> "pending"
      [] states = {"cancelled"} -> "cancelled"
      [] OTHER -> "partial"

-----------------------------------------------------------------------------
(* Properties. *)

\* Whatever callers do and wherever a process dies, the journal passes
\* _validate: the store never refuses to open on what it wrote itself.
OutputsValid == Validate

\* Of all the send attempts of one output at most one may have reached the
\* transport: delivered, unknown or still under way.
OneUncertainSend ==
    \A x, y \in DOMAIN sends :
        /\ sends[x].out = sends[y].out
        /\ sends[x].status # "not_sent"
        /\ sends[y].status # "not_sent"
        => x = y

\* A delivered, unknown or cancelled output is never sent again nor relabelled,
\* and what an output says and whom it answers never changes.
FinalForever ==
    [][\A i \in DOMAIN outputs :
          /\ outputs[i].status \in {"delivered", "unknown", "cancelled"}
                => outputs'[i] = outputs[i]
          /\ outputs'[i].origin = outputs[i].origin
          /\ outputs'[i].ordinal = outputs[i].ordinal
          /\ outputs'[i].text = outputs[i].text
          /\ origins'[outputs[i].origin] = origins[outputs[i].origin]]_journal
=============================================================================
