---------------------------- MODULE FlowFrontier ----------------------------
(***************************************************************************)
(* The flow scheduler: the pure frontier kernel (flow/frontier.py) and the *)
(* part of execute() that drives it (flow/executor.py).  A run leases a    *)
(* wave of ready nodes, runs them together, settles the wave in one batch  *)
(* (forward edges first, then the bounded-loop joins), saves a checkpoint  *)
(* and leases again.  The checkpoint keeps outputs, completed nodes and    *)
(* loop counters only; everything else of the frontier is rebuilt when a   *)
(* crashed, paused or failed run is resumed.                               *)
(*                                                                         *)
(* A workflow is data: a record with the nodes and edges in declaration    *)
(* order, the explicit entry, the nodes whose errors are isolated and the  *)
(* human nodes.  Node outputs are abstracted to what the scheduler reads   *)
(* of them: the set of conditional out-edges whose condition they satisfy. *)
(* Edges from $in and to $output carry no scheduling and are left out.     *)
(***************************************************************************)
EXTENDS Integers, Sequences, FiniteSets, SequencesExt

CONSTANTS Workflows,    \* the workflows a run may be started with
          NoEntry,      \* wf.entry is not set
          MaxCrashes    \* bound: process deaths and explicit resumes

\* What the loader makes sure of: the ends of an edge and the explicit entry are nodes, no
\* forward edge leads back to its source, and the source of a back-edge is
\* forward-reachable from its destination.
WellFormed(w) ==
    LET nodes == ToSet(w.nodes)
        forward == {e \in DOMAIN w.edges : ~w.edges[e].loop}
        ClosedIn(S) == \A e \in forward : w.edges[e].src \in S => w.edges[e].dst \in S
    IN  /\ w.edges \in Seq([src : nodes, dst : nodes, loop : BOOLEAN, max : Nat,
                            strict : BOOLEAN, cond : BOOLEAN])
        /\ w.entry \in nodes \cup {NoEntry}
        /\ \A e \in forward : \E S \in SUBSET nodes :
              ClosedIn(S) /\ w.edges[e].dst \in S /\ w.edges[e].src \notin S
        /\ \A e \in DOMAIN w.edges \ forward, S \in SUBSET nodes :
              ClosedIn(S) /\ w.edges[e].dst \in S => w.edges[e].src \in S

ASSUME WorkflowsAssumption == \A w \in Workflows : WellFormed(w)
ASSUME CrashesAssumption == MaxCrashes \in Nat

VARIABLES wf,            \* the workflow of this run; never changes
          frontier,      \* FrontierState, see NewFrontier
          outputs,       \* node |-> the conditional out-edges its outputs satisfy
          loop_counters, \* loop edge |-> committed fires
          wave,          \* leased nodes |-> the edges they take inputs from
          status,        \* "ready", "wave", "done", "raised", "refused", "crashed"
          disk,          \* the checkpoint file
          saved,         \* history: the frontier when the file was written
          settled,       \* history: completions of each node written to the file
          crashes        \* bound counter

vars == <<wf, frontier, outputs, loop_counters, wave, status, disk, saved, settled, crashes>>
-----------------------------------------------------------------------------
(* The compiled graph.                                                     *)

Absent == -1
NoCheckpoint == << >>   \* nothing saved under the run id

Nodes == ToSet(wf.nodes)
Edges == DOMAIN wf.edges
Edge(e) == wf.edges[e]
LoopEdges == {e \in Edges : Edge(e).loop}
ForwardEdges == Edges \ LoopEdges
Outgoing(n) == {e \in Edges : Edge(e).src = n}
ForwardPredecessors(n) == {Edge(e).src : e \in {x \in ForwardEdges : Edge(x).dst = n}}

Entries ==
    IF wf.entry # NoEntry THEN {wf.entry}
    ELSE {n \in Nodes : ForwardPredecessors(n) = {}}

Destinations == {Edge(e).dst : e \in LoopEdges}
Members(d) == {e \in LoopEdges : Edge(e).dst = d}
First(e) == e \in LoopEdges /\ \A x \in Members(Edge(e).dst) : e <= x

\* Everything forward-reachable from the nodes ns, which it contains.
Closed(S) == \A e \in ForwardEdges : Edge(e).src \in S => Edge(e).dst \in S
Closure(ns) == {n \in Nodes : \A S \in SUBSET Nodes : ns \subseteq S /\ Closed(S) => n \in S}

InvalidationRegion(d) == Closure({d})

LoopBoundaryEdges(d) ==
    {e \in ForwardEdges : /\ Edge(e).dst \in InvalidationRegion(d)
                          /\ Edge(e).src \notin InvalidationRegion(d)}
-----------------------------------------------------------------------------
(* The frontier state and its transitions.                                 *)

NewFrontier(restored) ==
    [gen      |-> [n \in Nodes |-> 0],
     reached  |-> {<<n, 0>> : n \in Entries \ restored},
     running  |-> {},
     completed |-> [n \in Nodes |-> IF n \in restored THEN 0 ELSE Absent],
     enabled  |-> {},   \* <<edge, generation of its destination>>
     isolated |-> {},
     arrivals |-> {},   \* <<loop edge, generation of its destination, verdict>>
     closed   |-> {},   \* <<loop destination, generation>>
     decisions |-> [n \in Nodes |-> {}],
     exhausted |-> {}]

Completed(f) == {n \in Nodes : f.completed[n] # Absent}
Current(f, n) == f.completed[n] = f.gen[n]

Ready(f) ==
    {n \in Nodes : /\ <<n, f.gen[n]>> \in f.reached \ f.running
                   /\ n \notin f.isolated
                   /\ ~Current(f, n)
                   /\ \A p \in ForwardPredecessors(n) : Current(f, p)}

EnabledEdges(f, n) == {e \in Edges : Edge(e).dst = n /\ <<e, f.gen[n]>> \in f.enabled}

TakeReady(f) == [f EXCEPT !.running = @ \cup {<<n, f.gen[n]>> : n \in Ready(f)}]

IsolateNodes(f, ns) ==
    LET acts == {<<n, f.gen[n]>> : n \in ns}
    IN  [f EXCEPT !.isolated = @ \cup ns, !.reached = @ \ acts, !.running = @ \ acts]

EnableEdges(f, es) ==
    [f EXCEPT !.reached = @ \cup {<<Edge(e).dst, f.gen[Edge(e).dst]>> : e \in es},
              !.enabled = @ \cup {<<e, f.gen[Edge(e).dst]>> : e \in es}]

\* group_arrivals[edge] = verdict, for the loop edges es; last lists the true ones.
Arrive(f, es, last) ==
    [f EXCEPT !.arrivals = {a \in @ : a[1] \notin es \/ a[2] # f.gen[Edge(a[1]).dst]}
                           \cup {<<e, f.gen[Edge(e).dst], e \in last>> : e \in es}]

\* Mutation: a fire keeps the completion marks of the region it re-opens.
ClearNodeEpochState_KeepCompleted(f, ns) ==
    [f EXCEPT !.reached  = {a \in @ : a[1] \notin ns},
              !.running  = {a \in @ : a[1] \notin ns},
              !.enabled  = {a \in @ : Edge(a[1]).dst \notin ns},
              !.arrivals = {a \in @ : Edge(a[1]).dst \notin ns},
              !.closed   = {a \in @ : a[1] \notin ns}]

ClearNodeEpochState(f, ns) ==
    [f EXCEPT !.reached  = {a \in @ : a[1] \notin ns},
              !.running  = {a \in @ : a[1] \notin ns},
              !.completed = [n \in Nodes |-> IF n \in ns THEN Absent ELSE @[n]],
              !.enabled  = {a \in @ : Edge(a[1]).dst \notin ns},
              !.arrivals = {a \in @ : Edge(a[1]).dst \notin ns},
              !.closed   = {a \in @ : a[1] \notin ns}]

\* Mutation: the boundary inputs are supplied again whatever their condition was.
FireGroup_AllBoundary(f, d) ==
    LET region == InvalidationRegion(d)
        g == [ClearNodeEpochState(f, region) EXCEPT
                 !.gen = [n \in Nodes |-> IF n \in region THEN @[n] + 1 ELSE @[n]]]
    IN  EnableEdges(EnableEdges(g, Members(d)), LoopBoundaryEdges(d))

\* The back-edges of group d all fired: re-open its region one generation on and
\* supply it again with the inputs that come from outside.
FireGroup(f, d) ==
    LET region == InvalidationRegion(d)
        g == [ClearNodeEpochState(f, region) EXCEPT
                 !.gen = [n \in Nodes |-> IF n \in region THEN @[n] + 1 ELSE @[n]]]
        again == {e \in LoopBoundaryEdges(d) : e \in g.decisions[Edge(e).src]}
    IN  EnableEdges(EnableEdges(g, Members(d)), again)

Spent(counts, es) == {e \in es : counts[e] >= Edge(e).max}

\* One turn of the loop over the groups; a strict edge that has to fire beyond its
\* bound stops it.
EvaluateGroup(acc, d) ==
    LET f == acc.f
        key == <<d, f.gen[d]>>
        Arrived(v) == {e \in Members(d) : <<e, f.gen[d], v>> \in f.arrivals}
        spent == Spent(acc.counts, Members(d))
        strict == {e \in spent : Edge(e).strict}
    IN  CASE \/ acc.diverged
             \/ key \in f.closed
             \/ Arrived(TRUE) \cup Arrived(FALSE) # Members(d) -> acc
          [] OTHER ->
             CASE Arrived(FALSE) # {} -> [acc EXCEPT !.f.closed = @ \cup {key}]
               [] Arrived(FALSE) = {} /\ strict # {} ->
                  [acc EXCEPT !.diverged = TRUE]
               [] Arrived(FALSE) = {} /\ strict = {} /\ spent # {} ->
                  [acc EXCEPT !.f.closed = @ \cup {key}, !.f.exhausted = @ \cup spent]
               [] OTHER ->
                  [acc EXCEPT !.f = FireGroup(f, d),
                              !.counts = [e \in DOMAIN @ |-> IF e \in Members(d) THEN @[e] + 1 ELSE @[e]]]

\* The loop over the groups, in the order their first back-edge is declared.
Turn(acc, k) == IF First(k) THEN EvaluateGroup(acc, Edge(k).dst) ELSE acc
EvaluateLoopGroups(start) ==
    LET Upto[k \in 0 .. Len(wf.edges)] == IF k = 0 THEN start ELSE Turn(Upto[k - 1], k)
    IN  Upto[Len(wf.edges)]

\* The nodes ns are complete; verdicts[n]: the out-edges of n that are true.
Commit(f, ns, verdicts) ==
    LET marked == [f EXCEPT
              !.completed = [n \in Nodes |-> IF n \in ns THEN f.gen[n] ELSE @[n]],
              !.decisions = [n \in Nodes |-> IF n \in ns THEN verdicts[n] ELSE @[n]]]
        true == UNION {verdicts[n] : n \in ns}
    IN  Arrive(EnableEdges(marked, true \cap ForwardEdges),
               LoopEdges \cap UNION {Outgoing(n) : n \in ns}, true)

CompleteBatch(f, counts, ns, verdicts) ==
    LET returned == [f EXCEPT !.running = @ \ {<<n, f.gen[n]>> : n \in ns}]
    IN  EvaluateLoopGroups([f |-> Commit(returned, ns, verdicts), counts |-> counts, diverged |-> FALSE])

Verdicts(outs, n) == {e \in Outgoing(n) : ~Edge(e).cond \/ e \in outs[n]}

\* Mutation: a replayed node does not enable its forward edges.
ReplayCompleted_NoEdges(f, ns, verdicts) ==
    LET true == UNION {verdicts[n] : n \in ns}
        marked == [f EXCEPT
              !.completed = [n \in Nodes |-> IF n \in ns THEN f.gen[n] ELSE @[n]],
              !.decisions = [n \in Nodes |-> IF n \in ns THEN verdicts[n] ELSE @[n]]]
    IN  Arrive(marked, LoopEdges \cap UNION {Outgoing(n) : n \in ns}, true)

ReplayCompleted(f, ns, verdicts) == Commit(f, ns, verdicts)

RestoreLoopActivations(f, counts) ==
    LET fired == {d \in Destinations : /\ d \notin Completed(f)
                                       /\ \A e \in Members(d) : counts[e] > 0}
        kept == {a \in f.enabled : Edge(a[1]).dst \notin fired}
    IN  EnableEdges([f EXCEPT !.enabled = kept], UNION {Members(d) : d \in fired})
-----------------------------------------------------------------------------
(* The run.                                                                *)

Init ==
    /\ wf \in Workflows
    /\ frontier = NewFrontier({})
    /\ outputs = [n \in Nodes |-> {}]
    /\ loop_counters = [e \in LoopEdges |-> 0]
    /\ wave = << >>
    /\ status = "ready"
    /\ disk = NoCheckpoint
    /\ saved = frontier
    /\ settled = [n \in Nodes |-> 0]
    /\ crashes = 0

\* Top of the loop: lease the ready nodes, or end at quiescence.
Lease ==
    /\ status = "ready"
    /\ frontier' = TakeReady(frontier)
    /\ wave' = [n \in Ready(frontier) |-> EnabledEdges(frontier, n)]
    /\ status' = IF Ready(frontier) = {} THEN "done" ELSE "wave"
    /\ UNCHANGED <<wf, outputs, loop_counters, disk, saved, settled, crashes>>

Snapshot(outs, f, counts) ==
    [outputs |-> outs, completed |-> Completed(f), loop_counters |-> counts]

\* The results of the wave.  ok: the nodes that succeeded, with the outputs fresh;
\* paused: human nodes without their signal; the others raised, and are isolated with
\* everything behind them where on_error says so.  over: the token budget is exceeded.
SettleWave(ok, paused, fresh, over) ==
    LET errors == DOMAIN wave \ (ok \cup paused)
        lost == errors \cap wf.isolates
        deferred == (errors \ lost) \cup paused
        first == SelectSeq(wf.nodes, LAMBDA n : n \in deferred)
        outs == [n \in Nodes |-> IF n \in ok THEN fresh[n] ELSE outputs[n]]
        kept == IF lost = {} THEN frontier ELSE IsolateNodes(frontier, Closure(lost))
        batch == CompleteBatch(kept, loop_counters, ok, [n \in Nodes |-> Verdicts(outs, n)])
        diverged == ok # {} /\ batch.diverged
        after == IF ok # {} THEN batch.f ELSE kept
        counts == IF ok # {} THEN batch.counts ELSE loop_counters
        saves == \/ ok # {} /\ ~diverged
                 \/ ok = {} /\ deferred # {} /\ first[1] \in paused
    IN  /\ frontier' = after
        /\ outputs' = outs
        /\ loop_counters' = counts
        /\ disk' = IF saves THEN Snapshot(outs, after, counts) ELSE disk
        /\ saved' = IF saves THEN after ELSE saved
        /\ settled' = IF saves THEN [n \in Nodes |-> settled[n] + IF n \in ok THEN 1 ELSE 0]
                      ELSE settled
        /\ status' = IF diverged \/ over \/ deferred # {} THEN "raised" ELSE "ready"

\* Every node of the wave has returned.
Settle ==
    /\ status = "wave"
    /\ \E ok \in SUBSET DOMAIN wave :
       \E paused \in SUBSET ((DOMAIN wave \ ok) \cap wf.humans) :
       \E fresh \in [ok -> SUBSET {e \in Edges : Edge(e).cond}], over \in BOOLEAN :
          /\ \A n \in ok : fresh[n] \subseteq Outgoing(n)
          /\ SettleWave(ok, paused, fresh, over)
    /\ wave' = << >>
    /\ UNCHANGED <<wf, crashes>>

\* The process dies; the checkpoint file was replaced atomically or not at all.
Crash ==
    /\ status \in {"ready", "wave"}
    /\ crashes < MaxCrashes
    /\ crashes' = crashes + 1
    /\ status' = "crashed"
    /\ wave' = << >>
    /\ UNCHANGED <<wf, frontier, outputs, loop_counters, disk, saved, settled>>

\* A strict loop at its bound whose condition holds on the saved outputs.
Unconverged(snap) ==
    {e \in LoopEdges : /\ Edge(e).strict /\ Edge(e).cond
                       /\ snap.loop_counters[e] >= Edge(e).max
                       /\ e \in snap.outputs[Edge(e).src]}

\* Mutation: the completed nodes are not handed to the new frontier.
Restored_Forgets(snap) == NewFrontier({})

Restored(snap) ==
    LET f == NewFrontier(snap.completed)
        verdicts == [n \in Nodes |-> Verdicts(snap.outputs, n)]
    IN  IF snap.completed = {} THEN f
        ELSE RestoreLoopActivations(ReplayCompleted(f, snap.completed, verdicts), snap.loop_counters)

\* execute() is called again with the same run id.
Resume ==
    /\ \/ status = "crashed"
       \/ status \in {"raised", "done"} /\ crashes < MaxCrashes
    /\ crashes' = IF status = "crashed" THEN crashes ELSE crashes + 1
    /\ IF disk = NoCheckpoint
       THEN /\ frontier' = NewFrontier({})
            /\ outputs' = [n \in Nodes |-> {}]
            /\ loop_counters' = [e \in LoopEdges |-> 0]
            /\ status' = "ready"
       ELSE /\ outputs' = disk.outputs
            /\ loop_counters' = disk.loop_counters
            /\ status' = IF Unconverged(disk) # {} THEN "refused" ELSE "ready"
            /\ frontier' = IF Unconverged(disk) # {} THEN frontier ELSE Restored(disk)
    /\ UNCHANGED <<wf, wave, disk, saved, settled>>

Next == Lease \/ Settle \/ Crash \/ Resume

Spec == Init /\ [][Next]_vars
-----------------------------------------------------------------------------
(* Properties.                                                             *)

Pending(f) == {n \in Nodes : <<n, f.gen[n]>> \in f.reached /\ ~Current(f, n)}
Nested(d) == \E o \in Destinations \ {d} : d \in InvalidationRegion(o)

\* The committed fires of the loops around n.
FiresOf(counts, n, k) == IF First(k) /\ n \in InvalidationRegion(Edge(k).dst) THEN counts[k] ELSE 0
Fires(counts, n) ==
    LET Upto[k \in 0 .. Len(wf.edges)] == IF k = 0 THEN 0 ELSE Upto[k - 1] + FiresOf(counts, n, k)
    IN  Upto[Len(wf.edges)]

DeservesToRun(n) ==
    /\ n \notin frontier.isolated
    /\ \A p \in ForwardPredecessors(n) : Current(frontier, p)
    /\ \/ n \in Entries
       \/ \E e \in ForwardEdges : Edge(e).dst = n /\ e \in Verdicts(outputs, Edge(e).src)

\* No completed work is done again: over all crashes, pauses and resumes a node is
\* committed at most once, plus once for every committed fire of a loop around it,
\* and no loop fires beyond the smallest bound of its members.
WorkIsBounded ==
    disk # NoCheckpoint =>
        /\ \A n \in Nodes : settled[n] <= 1 + Fires(disk.loop_counters, n)
        /\ \A e \in LoopEdges : disk.loop_counters[e] <= Edge(e).max

\* The loops that re-open the source of a member of d but not d itself.
Inner(d) ==
    {o \in Destinations \ {d} : /\ d \notin InvalidationRegion(o)
                               /\ \E e \in Members(d) : Edge(e).src \in InvalidationRegion(o)}

\* Loop o fires before the members of d whose source it re-opens can arrive.
Precedes(o, d) ==
    \A x \in Members(o), e \in Members(d) :
        Edge(e).src \in InvalidationRegion(o)
            => Edge(x).src # Edge(e).src /\ Edge(e).src \in Closure({Edge(x).src})

\* Members of d may arrive and then be re-opened by a loop inside d, because that
\* does not precede d or is overtaken itself: the least such set of loops.
Overtaken(d) ==
    \A T \in SUBSET Destinations :
        (\A c \in Destinations : (\E o \in Inner(c) : ~Precedes(o, c) \/ o \in T) => c \in T) => d \in T

\* Nothing a run should still do is left: every node with all its predecessors
\* complete and a true edge into it has run, and every loop whose conditions all hold
\* is out of fires.
NodesHaveRun == \A n \in Nodes : DeservesToRun(n) => Current(frontier, n)
HasFired(d) ==
    (/\ d \notin frontier.isolated
     /\ \A e \in Members(d) : /\ Current(frontier, Edge(e).src)
                              /\ e \in Verdicts(outputs, Edge(e).src))
    => Spent(loop_counters, Members(d)) # {}

\* When a run reports quiescence it is complete.  (But for the loops that are
\* overtaken: LoopsGoOn.)
DoneIsComplete ==
    status = "done" => NodesHaveRun /\ \A d \in Destinations : Overtaken(d) \/ HasFired(d)

\* A loop goes on while all of its members are true (docs/expressiveness.md).
LoopsGoOn == status = "done" => \A d \in Destinations : HasFired(d)

\* An input from outside a loop, whose source another loop may re-open and which
\* does not precede the loop: a fire may supply it before the source ran again.
Lags(e) ==
    \E d \in Destinations :
        /\ e \in LoopBoundaryEdges(d) /\ d \notin Closure({Edge(e).src})
        /\ \E o \in Destinations : Edge(e).src \in InvalidationRegion(o)

\* A node never runs on an input whose source is not complete in this generation
\* or whose condition is false: loop fires drop the inputs of the region they
\* re-open, and a resume rebuilds only inputs the saved outputs still justify.
\* (But for those that lag: VerdictsStand.)
InputsAreCurrent ==
    \A n \in DOMAIN wave : \A e \in wave[n] \cap ForwardEdges :
        Current(frontier, Edge(e).src) /\ (Lags(e) \/ e \in Verdicts(outputs, Edge(e).src))

\* The source nodes outside of a loop "stay completed and their verdicts stand"
\* (comment in _evaluate_loop_groups).  They are re-opened by an outer loop.
VerdictsStand ==
    \A n \in DOMAIN wave : \A e \in wave[n] \cap ForwardEdges :
        e \in Verdicts(outputs, Edge(e).src)

Settled(es) == {e \in es : ~Lags(e)}
Resumes == status \in {"crashed", "raised", "done"} /\ status' = "ready" /\ disk # NoCheckpoint

\* What a resume rebuilds from outputs, completed and loop_counters alone is the
\* frontier that was saved: the same nodes are pending, on the same inputs.
\* Isolated nodes are tried again; inputs of loop destinations and activations of
\* loops inside loops are the subject of the three properties below.
ResumeKeepsFrontier ==
    [][Resumes =>
          \A n \in Nodes \ saved.isolated :
              /\ Nested(n) \/ (n \in Pending(frontier') <=> n \in Pending(saved))
              /\ (n \in Pending(saved) \ Destinations) =>
                    Settled(EnabledEdges(frontier', n)) = Settled(EnabledEdges(saved, n))]_vars

\* Resume rebinds the committed loop inputs of an incomplete loop destination
\* (docstring of restore_loop_activations).  It does not when the loop covers the
\* whole workflow: after a fire nothing is completed, and execute() skips the call.
LoopInputsRebound ==
    [][Resumes =>
          \A d \in Destinations \cap Pending(saved) :
              Members(d) \subseteq EnabledEdges(saved, d)
                  => Members(d) \subseteq EnabledEdges(frontier', d)]_vars

\* A loop destination keeps inputs supplied by upstream nodes outside the loop
\* (test_loop_reentry_keeps_inputs_from_outside_the_loop).  A resume drops them.
ReentryKeepsOutsideInputs ==
    [][Resumes =>
          \A d \in Destinations \cap Pending(saved) :
              EnabledEdges(saved, d) \cap ForwardEdges \subseteq EnabledEdges(frontier', d)]_vars

\* Loop transitions are not replayed, since the counters encode committed fires
\* (comment in execute()).  For a loop inside a loop they are: a fire committed in
\* an earlier round of the outer loop reaches the inner destination again.
NoPhantomActivation ==
    [][Resumes => \A d \in Destinations :
                      d \in Pending(frontier') => d \in Pending(saved)]_vars

\* A resume refuses a strict loop only for a previous non-convergence: its source
\* has run after the last allowed fire.  The check reads the outputs of the round
\* before it as well.
RefusalIsDeserved ==
    status = "refused" => \E e \in Unconverged(disk) : Edge(e).src \in disk.completed
====
