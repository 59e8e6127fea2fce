------------------------- MODULE FlowFrontierProofs -------------------------
(***************************************************************************)
(* What the flow scheduler promises of every workflow the loader accepts,  *)
(* with any number of nodes, edges, nested loops, failures and resumes:    *)
(* the proofs about FlowFrontier.                                          *)
(***************************************************************************)
EXTENDS FlowFrontier, WellFoundedInduction, TLAPS

-----------------------------------------------------------------------------
(* The inductive invariant, of a frontier f in turn.                       *)

FrontierStates ==
    [gen : [Nodes -> Nat], reached : SUBSET (Nodes \X Nat), running : SUBSET (Nodes \X Nat),
     completed : [Nodes -> Nat \cup {Absent}], enabled : SUBSET (Edges \X Nat),
     isolated : SUBSET Nodes, arrivals : SUBSET (LoopEdges \X Nat \X BOOLEAN),
     closed : SUBSET (Nodes \X Nat), decisions : [Nodes -> SUBSET Edges],
     exhausted : SUBSET LoopEdges]

Counters == [LoopEdges -> Nat]

\* The present activation of a node and its inputs, the arrivals at a loop in its
\* present generation.
Reached(f, n) == <<n, f.gen[n]>> \in f.reached
Enabled(f, e) == <<e, f.gen[Edge(e).dst]>> \in f.enabled
Arrived(f, e, v) == <<e, f.gen[Edge(e).dst], v>> \in f.arrivals
HasClosed(f, d) == <<d, f.gen[d]>> \in f.closed

\* A set of completed nodes with everything before them.
Grounded(C) == \A e \in ForwardEdges : Edge(e).dst \in C => Edge(e).src \in C

\* Completed nodes are complete in their present generation.
Marked(f) == \A n \in Nodes : f.completed[n] \in {Absent, f.gen[n]}

\* The source of e is complete and decided for it.
Decided(f, e) == Edge(e).src \in Completed(f) /\ e \in f.decisions[Edge(e).src]

\* The decisions are those of the outputs; one left behind is of a re-opened node.
DecisionsStand(f, outs) ==
    /\ \A n \in Completed(f) : f.decisions[n] = Verdicts(outs, n)
    /\ \A n \in Nodes \ Completed(f) :
          f.decisions[n] # {} => \E o \in Destinations : n \in InvalidationRegion(o)

\* Inputs are from nodes that decided for them.
EnabledStand(f) == \A e \in ForwardEdges : Enabled(f, e) => Lags(e) \/ Decided(f, e)

\* A back-edge arrives at a loop that has been entered.
ArrivedInside(f) ==
    \A e \in LoopEdges : Arrived(f, e, TRUE) \/ Arrived(f, e, FALSE) => Edge(e).dst \in Completed(f)

Sound(f, outs) ==
    /\ f \in FrontierStates
    /\ Marked(f) /\ Grounded(Completed(f))
    /\ DecisionsStand(f, outs) /\ EnabledStand(f) /\ ArrivedInside(f)

\* What a completed node decided for, and a first node, has been reached.
Reaches(f) ==
    /\ \A e \in ForwardEdges :
          Decided(f, e) /\ Edge(e).dst \notin Completed(f) \cup f.isolated => Reached(f, Edge(e).dst)
    /\ \A n \in Entries :
          ForwardPredecessors(n) = {} /\ n \notin Completed(f) \cup f.isolated => Reached(f, n)

\* The sources of back-edges that are complete have arrived, with their verdict, and
\* of loops that are not overtaken no others.
Arrivals(f) ==
    \A e \in LoopEdges :
        /\ ~(Arrived(f, e, TRUE) /\ Arrived(f, e, FALSE))
        /\ Edge(e).src \in Completed(f) => Arrived(f, e, Decided(f, e))
        /\ ~Overtaken(Edge(e).dst) /\ (Arrived(f, e, TRUE) \/ Arrived(f, e, FALSE))
               => Edge(e).src \in Completed(f)

AllTrue(f, d) == \A e \in Members(d) : Arrived(f, e, TRUE)
IsSpent(counts, d) == Spent(counts, Members(d)) # {}

\* A group is closed because a verdict was false or a bound is spent.
ClosedRightly(f, counts) ==
    \A d \in Destinations :
        ~Overtaken(d) /\ HasClosed(f, d)
            => (\E e \in Members(d) : Arrived(f, e, FALSE)) \/ IsSpent(counts, d)

\* No group that should have fired is left.
GroupsSettled(f, counts) ==
    \A d \in Destinations : ~Overtaken(d) /\ AllTrue(f, d) => IsSpent(counts, d)

Bounded(counts) == \A e \in LoopEdges : counts[e] <= Edge(e).max

Fired(counts, d) == \A x \in Members(d) : counts[x] > 0
CanStart(n) == n \in Entries \/ ForwardPredecessors(n) # {}

\* The frontier follows from what is complete, its verdicts and the counters.
Exact(f, counts) ==
    /\ \A e \in ForwardEdges :
          Decided(f, e) /\ Edge(e).dst \notin Completed(f) \cup Destinations => Enabled(f, e)
    /\ \A n \in Nodes :
          Reached(f, n) => n \in Entries \/ \E e \in Edges : Edge(e).dst = n /\ Enabled(f, e)
    /\ \A e \in LoopEdges : Enabled(f, e) => Fired(counts, Edge(e).dst)
    /\ \A n \in Completed(f) : CanStart(n)
    /\ \A d \in Destinations :
          Fired(counts, d)
              => /\ CanStart(d)
                 /\ ~Nested(d) => /\ ForwardPredecessors(d) \subseteq Completed(f)
                                  /\ d \notin Completed(f) \cup f.isolated => Reached(f, d)

Good(f, outs, counts) ==
    /\ Sound(f, outs) /\ Reaches(f) /\ Arrivals(f) /\ ClosedRightly(f, counts)
    /\ Exact(f, counts) /\ Bounded(counts)

\* An entry set by name that has predecessors never starts.
Stuck == \E n \in Entries : ForwardPredecessors(n) # {}

Ones(b) == IF b THEN 1 ELSE 0

\* What a batch of nodes that may run must be.
Startable(f, ns) ==
    \A n \in ns : n \in Nodes \ Completed(f) /\ CanStart(n) /\ ForwardPredecessors(n) \subseteq Completed(f)

\* The completions of a node that are accounted for.
Work(f, counts, n) == Ones(n \in Completed(f)) + Fires(counts, n)

\* The invariant, of the values of the variables: frontier, outputs, loop_counters,
\* wave, status, disk, saved and settled.
TypeInv(outs, counts, st, done) ==
    /\ outs \in [Nodes -> SUBSET Edges]
    /\ counts \in Counters
    /\ done \in [Nodes -> Nat]
    /\ st \in {"ready", "wave", "done", "raised", "refused", "crashed"}

FrontierInv(f, outs, counts, st) ==
    st # "refused" =>
        /\ Good(f, outs, counts)
        /\ st \in {"ready", "wave", "done"} => GroupsSettled(f, counts)

WaveInv(f, wv, st) ==
    /\ st # "wave" => wv = << >>
    /\ st = "wave" =>
          /\ Startable(f, DOMAIN wv)
          /\ \A n \in DOMAIN wv : wv[n] = EnabledEdges(f, n)
    /\ st \in {"ready", "wave", "done"} => f.running = {<<n, f.gen[n]>> : n \in DOMAIN wv}
    /\ st = "done" => Ready(f) = {}

Checkpoints == [outputs : [Nodes -> SUBSET Edges], completed : SUBSET Nodes, loop_counters : Counters]

DiskInv(snap, s, done) ==
    IF snap = NoCheckpoint
    THEN \A n \in Nodes : done[n] = 0
    ELSE /\ snap \in Checkpoints
         /\ snap.completed = Completed(s)
         /\ Good(s, snap.outputs, snap.loop_counters) /\ GroupsSettled(s, snap.loop_counters)
         /\ \A n \in Nodes : done[n] <= Work(s, snap.loop_counters, n)

\* Between the waves the file is up to date.
FileInv(f, counts, st, snap) ==
    st \in {"ready", "wave"} =>
        IF snap = NoCheckpoint
        THEN Completed(f) = {} /\ counts = [e \in LoopEdges |-> 0]
        ELSE Completed(f) = snap.completed /\ counts = snap.loop_counters

StuckInv(f, st, snap) ==
    Stuck => /\ snap = NoCheckpoint /\ st # "wave"
             /\ Completed(f) = {} /\ \A n \in Nodes : Reached(f, n) => n \in Entries

Invariant(f, outs, counts, wv, st, snap, s, done) ==
    /\ TypeInv(outs, counts, st, done)
    /\ FrontierInv(f, outs, counts, st)
    /\ WaveInv(f, wv, st)
    /\ DiskInv(snap, s, done)
    /\ FileInv(f, counts, st, snap)
    /\ StuckInv(f, st, snap)

IInv ==
    /\ wf \in Workflows
    /\ \A f, outs, counts, wv, st, snap, s, done :
          /\ f = frontier /\ outs = outputs /\ counts = loop_counters /\ wv = wave
          /\ st = status /\ snap = disk /\ s = saved /\ done = settled
          => Invariant(f, outs, counts, wv, st, snap, s, done)

-----------------------------------------------------------------------------
(* The graph.                                                              *)

(* The members of a sequence are numbered from 1. *)
LEMMA SeqMembers ==
    ASSUME NEW S, NEW q \in Seq(S)
    PROVE  Len(q) \in Nat /\ DOMAIN q = 1 .. Len(q) /\ \A i \in DOMAIN q : q[i] \in S
OBVIOUS

(* The edges of a workflow and their ends. *)
LEMMA GraphTypes ==
    ASSUME wf \in Workflows
    PROVE  /\ Len(wf.edges) \in Nat /\ Edges = 1 .. Len(wf.edges)
           /\ \A e \in Edges : /\ Edge(e).src \in Nodes /\ Edge(e).dst \in Nodes
                               /\ Edge(e).loop \in BOOLEAN /\ Edge(e).max \in Nat
           /\ LoopEdges \subseteq Edges /\ ForwardEdges \subseteq Edges
           /\ Destinations \subseteq Nodes /\ Entries \subseteq Nodes
<1>1. WellFormed(wf)
  BY WorkflowsAssumption
<1> DEFINE Rec == [src : ToSet(wf.nodes), dst : ToSet(wf.nodes), loop : BOOLEAN, max : Nat,
                   strict : BOOLEAN, cond : BOOLEAN]
<1>2. wf.edges \in Seq(Rec) /\ wf.entry \in ToSet(wf.nodes) \cup {NoEntry}
  BY <1>1 DEF WellFormed
<1>3. Len(wf.edges) \in Nat /\ DOMAIN wf.edges = 1 .. Len(wf.edges)
      /\ \A e \in DOMAIN wf.edges : wf.edges[e] \in Rec
  <2> HIDE DEF Rec
  <2> QED BY <1>2, SeqMembers
<1>4. \A e \in DOMAIN wf.edges : wf.edges[e] \in Rec
  BY <1>3
<1>5. \A e \in Edges : /\ Edge(e).src \in Nodes /\ Edge(e).dst \in Nodes
                       /\ Edge(e).loop \in BOOLEAN /\ Edge(e).max \in Nat
  BY <1>4 DEF Edges, Edge, Nodes
<1>6. Entries \subseteq Nodes
  BY <1>2 DEF Entries, Nodes
<1> QED BY <1>3, <1>5, <1>6 DEF Edges, LoopEdges, ForwardEdges, Destinations

(* Nothing leads out of a closed set of nodes but back-edges, and these do not lead in. *)
LEMMA LoopSource ==
    ASSUME wf \in Workflows, NEW e \in LoopEdges, NEW S \in SUBSET Nodes, Closed(S), Edge(e).dst \in S
    PROVE  Edge(e).src \in S
<1>1. WellFormed(wf)
  BY WorkflowsAssumption
<1> DEFINE forward == {x \in DOMAIN wf.edges : ~wf.edges[x].loop}
<1>2. forward = ForwardEdges
  BY DEF ForwardEdges, LoopEdges, Edges, Edge
<1>3. \A x \in forward : wf.edges[x].src \in S => wf.edges[x].dst \in S
  BY <1>2 DEF Closed, Edge
<1>4. e \in DOMAIN wf.edges \ forward
  BY DEF LoopEdges, Edges, Edge
<1>5. \A b \in DOMAIN wf.edges \ forward, T \in SUBSET ToSet(wf.nodes) :
         (\A x \in forward : wf.edges[x].src \in T => wf.edges[x].dst \in T) /\ wf.edges[b].dst \in T
         => wf.edges[b].src \in T
  BY <1>1 DEF WellFormed
<1> QED BY <1>3, <1>4, <1>5 DEF Nodes, Edge

(* What lies forward of a node. *)
LEMMA ClosureFacts ==
    ASSUME wf \in Workflows, NEW ns \in SUBSET Nodes
    PROVE  /\ Closure(ns) \subseteq Nodes /\ ns \subseteq Closure(ns) /\ Closed(Closure(ns))
           /\ \A S \in SUBSET Nodes : ns \subseteq S /\ Closed(S) => Closure(ns) \subseteq S
<1>1. \A e \in ForwardEdges : Edge(e).dst \in Nodes
  BY GraphTypes
<1> QED BY <1>1 DEF Closure, Closed

(* ... is a successor of something there. *)
LEMMA ClosureStep ==
    ASSUME wf \in Workflows, NEW ns \in SUBSET Nodes, NEW n \in Closure(ns), n \notin ns
    PROVE  \E e \in ForwardEdges : Edge(e).dst = n /\ Edge(e).src \in Closure(ns)
<1> SUFFICES ASSUME \A e \in ForwardEdges : Edge(e).dst = n => Edge(e).src \notin Closure(ns) PROVE FALSE
  OBVIOUS
<1> DEFINE S == Closure(ns) \ {n}
<1>1. S \in SUBSET Nodes /\ ns \subseteq S /\ Closed(S)
  BY ClosureFacts DEF Closed
<1> QED BY <1>1, ClosureFacts

(* A node does not lie forward of its successors. *)
LEMMA NoForwardCycle ==
    ASSUME wf \in Workflows, NEW e \in ForwardEdges
    PROVE  Edge(e).src \notin Closure({Edge(e).dst})
<1>1. WellFormed(wf)
  BY WorkflowsAssumption
<1> DEFINE forward == {x \in DOMAIN wf.edges : ~wf.edges[x].loop}
<1>2. forward = ForwardEdges
  BY DEF ForwardEdges, LoopEdges, Edges, Edge
<1>3. \A b \in forward : \E S \in SUBSET ToSet(wf.nodes) :
         (\A x \in forward : wf.edges[x].src \in S => wf.edges[x].dst \in S)
         /\ wf.edges[b].dst \in S /\ wf.edges[b].src \notin S
  BY <1>1 DEF WellFormed
<1>4. PICK S \in SUBSET Nodes : Closed(S) /\ Edge(e).dst \in S /\ Edge(e).src \notin S
  BY <1>2, <1>3 DEF Closed, Edge, Nodes
<1>5. Edge(e).dst \in Nodes
  BY GraphTypes
<1>6. Closure({Edge(e).dst}) \subseteq S
  BY <1>4, <1>5, ClosureFacts
<1> QED BY <1>4, <1>6

(* The region of a loop: its destination, its sources and all that follows. *)
LEMMA RegionFacts ==
    ASSUME wf \in Workflows, NEW d \in Destinations
    PROVE  /\ InvalidationRegion(d) \subseteq Nodes /\ d \in InvalidationRegion(d)
           /\ \A e \in ForwardEdges : Edge(e).src \in InvalidationRegion(d) => Edge(e).dst \in InvalidationRegion(d)
           /\ \A e \in LoopEdges : Edge(e).dst \in InvalidationRegion(d) => Edge(e).src \in InvalidationRegion(d)
           /\ \A n \in InvalidationRegion(d) \ {d} :
                 \E e \in ForwardEdges : Edge(e).dst = n /\ Edge(e).src \in InvalidationRegion(d)
           /\ \A e \in ForwardEdges : Edge(e).dst = d => Edge(e).src \notin InvalidationRegion(d)
<1>1. d \in Nodes
  BY GraphTypes
<1>2. /\ InvalidationRegion(d) \subseteq Nodes /\ d \in InvalidationRegion(d) /\ Closed(InvalidationRegion(d))
  BY <1>1, ClosureFacts DEF InvalidationRegion
<1>3. \A e \in LoopEdges : Edge(e).dst \in InvalidationRegion(d) => Edge(e).src \in InvalidationRegion(d)
  BY <1>2, LoopSource
<1>4. \A n \in InvalidationRegion(d) \ {d} :
                 \E e \in ForwardEdges : Edge(e).dst = n /\ Edge(e).src \in InvalidationRegion(d)
  BY <1>1, ClosureStep DEF InvalidationRegion
<1>5. \A e \in ForwardEdges : Edge(e).dst = d => Edge(e).src \notin InvalidationRegion(d)
  BY NoForwardCycle DEF InvalidationRegion
<1> QED BY <1>2, <1>3, <1>4, <1>5 DEF Closed

(* A loop has members, and they are back-edges. *)
LEMMA MemberFacts ==
    ASSUME wf \in Workflows
    PROVE  /\ \A d \in Destinations : Members(d) # {}
           /\ \A d : Members(d) \subseteq LoopEdges /\ \A e \in Members(d) : Edge(e).dst = d
           /\ \A e \in LoopEdges : Edge(e).dst \in Destinations /\ e \in Members(Edge(e).dst)
BY DEF Members, Destinations

(* A loop that is not overtaken fires after the loops inside it. *)
LEMMA InnerPrecedes ==
    ASSUME NEW d \in Destinations, ~Overtaken(d), NEW o \in Inner(d)
    PROVE  o \in Destinations /\ Precedes(o, d) /\ ~Overtaken(o)
<1> DEFINE Least(T) == \A c \in Destinations : (\E x \in Inner(c) : ~Precedes(x, c) \/ x \in T) => c \in T
<1>1. PICK T \in SUBSET Destinations : Least(T) /\ d \notin T
  BY DEF Overtaken
<1>2. Precedes(o, d) /\ o \notin T
  BY <1>1
<1>3. ~Overtaken(o)
  BY <1>1, <1>2 DEF Overtaken
<1> QED BY <1>2, <1>3 DEF Inner

-----------------------------------------------------------------------------
(* What the transitions of the frontier do.                                *)

(* The components of a frontier. *)
LEMMA FieldTypes ==
    ASSUME NEW f \in FrontierStates
    PROVE  /\ f.gen \in [Nodes -> Nat] /\ f.reached \subseteq Nodes \X Nat /\ f.running \subseteq Nodes \X Nat
           /\ f.completed \in [Nodes -> Nat \cup {Absent}] /\ f.enabled \subseteq Edges \X Nat
           /\ f.isolated \subseteq Nodes /\ f.arrivals \subseteq LoopEdges \X Nat \X BOOLEAN
           /\ f.closed \subseteq Nodes \X Nat /\ f.decisions \in [Nodes -> SUBSET Edges]
           /\ f.exhausted \subseteq LoopEdges
BY DEF FrontierStates

(* A completed node is complete in its present generation. *)
LEMMA CompletedIsCurrent ==
    ASSUME NEW f \in FrontierStates, Marked(f), NEW n \in Nodes
    PROVE  n \in Completed(f) <=> Current(f, n)
<1>1. f.gen[n] \in Nat /\ f.gen[n] # Absent
  BY FieldTypes DEF Absent
<1> QED BY <1>1 DEF Marked, Completed, Current

(* A new frontier has reached its entries and nothing else. *)
LEMMA NewFrontierIs ==
    ASSUME wf \in Workflows, NEW r \in SUBSET Nodes
    PROVE  LET f == NewFrontier(r)
           IN  /\ f \in FrontierStates /\ Marked(f) /\ Completed(f) = r /\ f.isolated = {} /\ f.running = {}
               /\ f.gen = [n \in Nodes |-> 0] /\ f.decisions = [n \in Nodes |-> {}]
               /\ \A n : Reached(f, n) <=> n \in Entries \ r
               /\ \A e : ~Enabled(f, e)
               /\ \A e, v : ~Arrived(f, e, v)
               /\ \A d : ~HasClosed(f, d)
<1> DEFINE f == NewFrontier(r)
<1>1. f \in FrontierStates
  BY GraphTypes DEF NewFrontier, FrontierStates, Absent
<1>2. Marked(f) /\ Completed(f) = r
  BY DEF NewFrontier, Marked, Completed, Absent
<1>3. ASSUME NEW n PROVE Reached(f, n) <=> n \in Entries \ r
  <2>1. n \in Nodes => f.gen[n] = 0
    BY DEF NewFrontier
  <2>2. f.reached = {<<x, 0>> : x \in Entries \ r} /\ Entries \subseteq Nodes
    BY GraphTypes DEF NewFrontier
  <2> HIDE DEF f
  <2> QED BY <2>1, <2>2 DEF Reached
<1>4. /\ \A e : ~Enabled(f, e)
      /\ \A e, v : ~Arrived(f, e, v)
      /\ \A d : ~HasClosed(f, d)
  BY DEF NewFrontier, Enabled, Arrived, HasClosed
<1>5. f.isolated = {} /\ f.running = {} /\ f.gen = [n \in Nodes |-> 0] /\ f.decisions = [n \in Nodes |-> {}]
  BY DEF NewFrontier
<1> QED BY <1>1, <1>2, <1>3, <1>4, <1>5

(* Enabling edges reaches their destinations. *)
LEMMA EnableEdgesIs ==
    ASSUME wf \in Workflows, NEW f \in FrontierStates, NEW es \in SUBSET Edges
    PROVE  LET g == EnableEdges(f, es)
           IN  /\ g \in FrontierStates /\ Completed(g) = Completed(f) /\ (Marked(f) => Marked(g))
               /\ g.gen = f.gen /\ g.completed = f.completed /\ g.decisions = f.decisions
               /\ g.isolated = f.isolated /\ g.running = f.running
               /\ \A n : Reached(g, n) <=> Reached(f, n) \/ \E e \in es : Edge(e).dst = n
               /\ \A e : Enabled(g, e) <=> Enabled(f, e) \/ e \in es
               /\ \A e, v : Arrived(g, e, v) <=> Arrived(f, e, v)
               /\ \A d : HasClosed(g, d) <=> HasClosed(f, d)
<1> DEFINE g == EnableEdges(f, es)
<1>1. /\ g.gen = f.gen /\ g.completed = f.completed /\ g.decisions = f.decisions
      /\ g.isolated = f.isolated /\ g.running = f.running /\ g.arrivals = f.arrivals
      /\ g.closed = f.closed /\ g.exhausted = f.exhausted
      /\ g.reached = f.reached \cup {<<Edge(e).dst, f.gen[Edge(e).dst]>> : e \in es}
      /\ g.enabled = f.enabled \cup {<<e, f.gen[Edge(e).dst]>> : e \in es}
  BY DEF EnableEdges, FrontierStates
<1>2. g \in FrontierStates
  <2>1. \A e \in es : <<Edge(e).dst, f.gen[Edge(e).dst]>> \in Nodes \X Nat /\ <<e, f.gen[Edge(e).dst]>> \in Edges \X Nat
    <3> SUFFICES ASSUME NEW e \in es
                 PROVE  <<Edge(e).dst, f.gen[Edge(e).dst]>> \in Nodes \X Nat /\ <<e, f.gen[Edge(e).dst]>> \in Edges \X Nat
      OBVIOUS
    <3>1. e \in Edges /\ Edge(e).dst \in Nodes
      BY GraphTypes
    <3>2. f.gen[Edge(e).dst] \in Nat
      BY <3>1, FieldTypes
    <3> QED BY <3>1, <3>2
  <2> DEFINE re == f.reached \cup {<<Edge(e).dst, f.gen[Edge(e).dst]>> : e \in es}
             en == f.enabled \cup {<<e, f.gen[Edge(e).dst]>> : e \in es}
  <2>2. re \subseteq Nodes \X Nat /\ en \subseteq Edges \X Nat
    <3>1. f.reached \subseteq Nodes \X Nat /\ f.enabled \subseteq Edges \X Nat
      BY FieldTypes
    <3>2. /\ {<<Edge(e).dst, f.gen[Edge(e).dst]>> : e \in es} \subseteq Nodes \X Nat
          /\ {<<e, f.gen[Edge(e).dst]>> : e \in es} \subseteq Edges \X Nat
      BY <2>1
    <3> QED BY <3>1, <3>2
  <2>3. g = [f EXCEPT !.reached = re, !.enabled = en]
    BY DEF EnableEdges
  <2> HIDE DEF re, en, g
  <2> QED BY <2>2, <2>3, FieldTypes DEF FrontierStates
<1> HIDE DEF g
<1>3. \A n : Reached(g, n) <=> Reached(f, n) \/ \E e \in es : Edge(e).dst = n
  BY <1>1 DEF Reached
<1>4. \A e : Enabled(g, e) <=> Enabled(f, e) \/ e \in es
  BY <1>1 DEF Enabled
<1>5. /\ \A e, v : Arrived(g, e, v) <=> Arrived(f, e, v)
      /\ \A d : HasClosed(g, d) <=> HasClosed(f, d)
      /\ Completed(g) = Completed(f) /\ (Marked(f) => Marked(g))
  BY <1>1 DEF Arrived, HasClosed, Completed, Marked
<1> QED BY <1>1, <1>2, <1>3, <1>4, <1>5 DEF g

(* Back-edges arrive with a verdict, the last one counting. *)
LEMMA ArriveIs ==
    ASSUME wf \in Workflows, NEW f \in FrontierStates, NEW es \in SUBSET LoopEdges, NEW last
    PROVE  LET g == Arrive(f, es, last)
           IN  /\ g \in FrontierStates /\ Completed(g) = Completed(f) /\ (Marked(f) => Marked(g))
               /\ g.gen = f.gen /\ g.decisions = f.decisions /\ g.isolated = f.isolated /\ g.running = f.running
               /\ \A n : Reached(g, n) <=> Reached(f, n)
               /\ \A e : Enabled(g, e) <=> Enabled(f, e)
               /\ \A e \in LoopEdges, v \in BOOLEAN :
                     Arrived(g, e, v) <=> IF e \in es THEN v = (e \in last) ELSE Arrived(f, e, v)
               /\ \A d : HasClosed(g, d) <=> HasClosed(f, d)
<1> DEFINE g == Arrive(f, es, last)
           new == {<<e, f.gen[Edge(e).dst], e \in last>> : e \in es}
           arr == {a \in f.arrivals : a[1] \notin es \/ a[2] # f.gen[Edge(a[1]).dst]} \cup new
<1>1. /\ g.gen = f.gen /\ g.completed = f.completed /\ g.decisions = f.decisions
      /\ g.isolated = f.isolated /\ g.running = f.running /\ g.reached = f.reached
      /\ g.enabled = f.enabled /\ g.closed = f.closed /\ g.exhausted = f.exhausted
      /\ g.arrivals = arr
  BY DEF Arrive, FrontierStates
<1>2. \A e \in es : <<e, f.gen[Edge(e).dst], e \in last>> \in LoopEdges \X Nat \X BOOLEAN
  <2>1. \A e \in es : e \in LoopEdges /\ f.gen[Edge(e).dst] \in Nat
    BY GraphTypes, FieldTypes
  <2>2. \A e \in es : (e \in last) \in BOOLEAN
    OBVIOUS
  <2> QED BY <2>1, <2>2
<1>4. arr \subseteq LoopEdges \X Nat \X BOOLEAN
  BY <1>2, FieldTypes
<1>5. g \in FrontierStates
  <2>1. g = [f EXCEPT !.arrivals = arr]
    BY DEF Arrive
  <2> HIDE DEF arr, g
  <2> QED BY <2>1, <1>4, FieldTypes DEF FrontierStates
<1>6. ASSUME NEW e \in LoopEdges, NEW v \in BOOLEAN
      PROVE  Arrived(g, e, v) <=> IF e \in es THEN v = (e \in last) ELSE Arrived(f, e, v)
  <2>1. Arrived(g, e, v) <=> <<e, f.gen[Edge(e).dst], v>> \in arr
    BY <1>1 DEF Arrived
  <2>2. <<e, f.gen[Edge(e).dst], v>> \in new <=> e \in es /\ v = (e \in last)
    OBVIOUS
  <2>3. <<e, f.gen[Edge(e).dst], v>> \in arr <=>
           \/ <<e, f.gen[Edge(e).dst], v>> \in f.arrivals /\ e \notin es
           \/ <<e, f.gen[Edge(e).dst], v>> \in new
    <3> HIDE DEF new
    <3> QED OBVIOUS
  <2> HIDE DEF arr, new, g
  <2> QED BY <2>1, <2>2, <2>3 DEF Arrived
<1> HIDE DEF g
<1>7. /\ \A n : Reached(g, n) <=> Reached(f, n)
      /\ \A e : Enabled(g, e) <=> Enabled(f, e)
      /\ \A d : HasClosed(g, d) <=> HasClosed(f, d)
      /\ Completed(g) = Completed(f) /\ (Marked(f) => Marked(g))
  BY <1>1 DEF Reached, Enabled, HasClosed, Completed, Marked
<1> QED BY <1>1, <1>5, <1>6, <1>7 DEF g

(* Isolating nodes takes back their activations. *)
LEMMA IsolateNodesIs ==
    ASSUME wf \in Workflows, NEW f \in FrontierStates, NEW ns \in SUBSET Nodes
    PROVE  LET g == IsolateNodes(f, ns)
           IN  /\ g \in FrontierStates /\ Completed(g) = Completed(f) /\ (Marked(f) => Marked(g))
               /\ g.gen = f.gen /\ g.decisions = f.decisions /\ g.isolated = f.isolated \cup ns
               /\ g.running = f.running \ {<<n, f.gen[n]>> : n \in ns}
               /\ \A n : Reached(g, n) <=> Reached(f, n) /\ n \notin ns
               /\ \A e : Enabled(g, e) <=> Enabled(f, e)
               /\ \A e, v : Arrived(g, e, v) <=> Arrived(f, e, v)
               /\ \A d : HasClosed(g, d) <=> HasClosed(f, d)
<1> DEFINE g == IsolateNodes(f, ns)
           acts == {<<n, f.gen[n]>> : n \in ns}
<1>1. g = [f EXCEPT !.isolated = f.isolated \cup ns, !.reached = f.reached \ acts, !.running = f.running \ acts]
  BY DEF IsolateNodes
<1>2. /\ g.gen = f.gen /\ g.completed = f.completed /\ g.decisions = f.decisions
      /\ g.isolated = f.isolated \cup ns /\ g.running = f.running \ acts /\ g.arrivals = f.arrivals
      /\ g.closed = f.closed /\ g.exhausted = f.exhausted
      /\ g.reached = f.reached \ acts /\ g.enabled = f.enabled
  BY DEF IsolateNodes, FrontierStates
<1> HIDE DEF g
<1>3. g \in FrontierStates
  <2> HIDE DEF acts
  <2> QED BY <1>1, FieldTypes DEF FrontierStates
<1>4. \A n : Reached(g, n) <=> Reached(f, n) /\ n \notin ns
  BY <1>2 DEF Reached
<1>5. /\ \A e : Enabled(g, e) <=> Enabled(f, e)
      /\ \A e, v : Arrived(g, e, v) <=> Arrived(f, e, v)
      /\ \A d : HasClosed(g, d) <=> HasClosed(f, d)
      /\ Completed(g) = Completed(f) /\ (Marked(f) => Marked(g))
  BY <1>2 DEF Enabled, Arrived, HasClosed, Completed, Marked
<1> QED BY <1>2, <1>3, <1>4, <1>5 DEF g

(* The edges a batch of nodes decides for. *)
DecidesIn(ns, outs, e) == Edge(e).src \in ns /\ e \in Verdicts(outs, Edge(e).src)

\* g is f when the nodes ns are complete with the outputs outs.
Committed(f, g, ns, outs) ==
    /\ g \in FrontierStates /\ Completed(g) = Completed(f) \cup ns /\ (Marked(f) => Marked(g))
    /\ g.gen = f.gen /\ g.isolated = f.isolated /\ g.running = f.running
    /\ \A n \in Nodes : g.decisions[n] = IF n \in ns THEN Verdicts(outs, n) ELSE f.decisions[n]
    /\ \A n : Reached(g, n) <=> Reached(f, n) \/ \E e \in ForwardEdges : Edge(e).dst = n /\ DecidesIn(ns, outs, e)
    /\ \A e : Enabled(g, e) <=> Enabled(f, e) \/ (e \in ForwardEdges /\ DecidesIn(ns, outs, e))
    /\ \A e \in LoopEdges, v \in BOOLEAN :
          Arrived(g, e, v) <=> IF Edge(e).src \in ns THEN (v <=> DecidesIn(ns, outs, e)) ELSE Arrived(f, e, v)
    /\ \A d : HasClosed(g, d) <=> HasClosed(f, d)

(* Completed nodes enable the forward edges they decide for, and their back-edges arrive. *)
LEMMA CommitIs ==
    ASSUME wf \in Workflows, NEW f \in FrontierStates, NEW ns \in SUBSET Nodes, NEW outs,
           NEW verdicts, \A n \in Nodes : verdicts[n] = Verdicts(outs, n)
    PROVE  Committed(f, Commit(f, ns, verdicts), ns, outs)
<1> DEFINE com == [n \in Nodes |-> IF n \in ns THEN f.gen[n] ELSE f.completed[n]]
           dec == [n \in Nodes |-> IF n \in ns THEN verdicts[n] ELSE f.decisions[n]]
           marked == [f EXCEPT !.completed = com, !.decisions = dec]
           true == UNION {verdicts[n] : n \in ns}
           fwd == true \cap ForwardEdges
           back == LoopEdges \cap UNION {Outgoing(n) : n \in ns}
           h == EnableEdges(marked, fwd)
           g == Arrive(h, back, true)
<1>1. Commit(f, ns, verdicts) = g
  BY DEF Commit
<1>2. \A n : Verdicts(outs, n) \subseteq Outgoing(n) /\ \A e \in Outgoing(n) : e \in Edges /\ Edge(e).src = n
  BY DEF Verdicts, Outgoing
<1>3. com \in [Nodes -> Nat \cup {Absent}] /\ dec \in [Nodes -> SUBSET Edges]
  BY <1>2, FieldTypes
<1>4. /\ marked \in FrontierStates /\ marked.gen = f.gen /\ marked.completed = com
      /\ marked.decisions = dec /\ marked.isolated = f.isolated /\ marked.running = f.running
      /\ marked.reached = f.reached /\ marked.enabled = f.enabled /\ marked.arrivals = f.arrivals
      /\ marked.closed = f.closed
  <2> HIDE DEF com, dec
  <2> QED BY <1>3, FieldTypes DEF FrontierStates
<1>5. \A e : e \in true <=> DecidesIn(ns, outs, e)
  BY <1>2 DEF DecidesIn
<1>6. \A e \in LoopEdges : e \in back <=> Edge(e).src \in ns
  <2>1. \A e \in LoopEdges : e \in Outgoing(Edge(e).src)
    BY GraphTypes DEF Outgoing
  <2> QED BY <1>2, <2>1
<1>7. fwd \in SUBSET Edges /\ back \in SUBSET LoopEdges
  BY GraphTypes
<1>8. Completed(marked) = Completed(f) \cup ns /\ (Marked(f) => Marked(marked))
  <2>1. \A n \in Nodes : f.gen[n] \in Nat /\ f.gen[n] # Absent
    BY FieldTypes DEF Absent
  <2>2. \A n \in Nodes : com[n] = IF n \in ns THEN f.gen[n] ELSE f.completed[n]
    OBVIOUS
  <2> HIDE DEF com, marked
  <2> QED BY <1>4, <2>1, <2>2 DEF Completed, Marked
<1>9. /\ \A n : Reached(marked, n) <=> Reached(f, n)
      /\ \A e : Enabled(marked, e) <=> Enabled(f, e)
      /\ \A e, v : Arrived(marked, e, v) <=> Arrived(f, e, v)
      /\ \A d : HasClosed(marked, d) <=> HasClosed(f, d)
  <2> HIDE DEF marked
  <2> QED BY <1>4 DEF Reached, Enabled, Arrived, HasClosed
<1>10. \A n \in Nodes : dec[n] = IF n \in ns THEN Verdicts(outs, n) ELSE f.decisions[n]
  OBVIOUS
<1> HIDE DEF marked, dec, com
<1>11. /\ h \in FrontierStates /\ Completed(h) = Completed(marked) /\ (Marked(marked) => Marked(h))
       /\ h.gen = marked.gen /\ h.decisions = marked.decisions
       /\ h.isolated = marked.isolated /\ h.running = marked.running
       /\ \A n : Reached(h, n) <=> Reached(marked, n) \/ \E e \in fwd : Edge(e).dst = n
       /\ \A e : Enabled(h, e) <=> Enabled(marked, e) \/ e \in fwd
       /\ \A e, v : Arrived(h, e, v) <=> Arrived(marked, e, v)
       /\ \A d : HasClosed(h, d) <=> HasClosed(marked, d)
  <2> HIDE DEF fwd
  <2> QED BY <1>4, <1>7, EnableEdgesIs
<1> HIDE DEF h
<1>12. /\ g \in FrontierStates /\ Completed(g) = Completed(h) /\ (Marked(h) => Marked(g))
       /\ g.gen = h.gen /\ g.decisions = h.decisions /\ g.isolated = h.isolated /\ g.running = h.running
       /\ \A n : Reached(g, n) <=> Reached(h, n)
       /\ \A e : Enabled(g, e) <=> Enabled(h, e)
       /\ \A e \in LoopEdges, v \in BOOLEAN :
             Arrived(g, e, v) <=> IF e \in back THEN v = (e \in true) ELSE Arrived(h, e, v)
       /\ \A d : HasClosed(g, d) <=> HasClosed(h, d)
  <2> HIDE DEF back, true
  <2> QED BY <1>7, <1>11, ArriveIs
<1> HIDE DEF g
<1>13. \A n : Reached(g, n) <=> Reached(f, n) \/ \E e \in ForwardEdges : Edge(e).dst = n /\ DecidesIn(ns, outs, e)
  <2> HIDE DEF true
  <2> QED BY <1>5, <1>9, <1>11, <1>12
<1>14. \A e : Enabled(g, e) <=> Enabled(f, e) \/ (e \in ForwardEdges /\ DecidesIn(ns, outs, e))
  <2> HIDE DEF true
  <2> QED BY <1>5, <1>9, <1>11, <1>12
<1>15. \A e \in LoopEdges, v \in BOOLEAN :
           Arrived(g, e, v) <=> IF Edge(e).src \in ns THEN (v <=> DecidesIn(ns, outs, e)) ELSE Arrived(f, e, v)
  <2> HIDE DEF true, back
  <2>1. \A e \in LoopEdges, v \in BOOLEAN :
           Arrived(g, e, v) <=> IF Edge(e).src \in ns THEN v = (e \in true) ELSE Arrived(f, e, v)
    BY <1>6, <1>9, <1>11, <1>12
  <2>2. \A e \in LoopEdges, v \in BOOLEAN : v = (e \in true) <=> (v <=> e \in true)
    OBVIOUS
  <2> QED BY <1>5, <2>1, <2>2
<1>16. \A d : HasClosed(g, d) <=> HasClosed(f, d)
  BY <1>9, <1>11, <1>12
<1>17. /\ g \in FrontierStates /\ Completed(g) = Completed(f) \cup ns /\ (Marked(f) => Marked(g))
       /\ g.gen = f.gen /\ g.isolated = f.isolated /\ g.running = f.running
       /\ \A n \in Nodes : g.decisions[n] = IF n \in ns THEN Verdicts(outs, n) ELSE f.decisions[n]
  BY <1>4, <1>8, <1>10, <1>11, <1>12
<1> QED BY <1>1, <1>13, <1>14, <1>15, <1>16, <1>17 DEF Committed

(* A fire re-opens the region of the loop, one generation on, and supplies it again. *)
Resupplied(f, d, e) ==
    e \in Members(d) \/ (e \in LoopBoundaryEdges(d) /\ e \in f.decisions[Edge(e).src])

LEMMA FireGroupIs ==
    ASSUME wf \in Workflows, NEW f \in FrontierStates, NEW d \in Destinations
    PROVE  LET g == FireGroup(f, d)
               R == InvalidationRegion(d)
           IN  /\ g \in FrontierStates /\ Completed(g) = Completed(f) \ R /\ (Marked(f) => Marked(g))
               /\ g.decisions = f.decisions /\ g.isolated = f.isolated /\ g.running \subseteq f.running
               /\ \A n \in Nodes : Reached(g, n) <=>
                     IF n \in R THEN \E e \in Edges : Edge(e).dst = n /\ Resupplied(f, d, e) ELSE Reached(f, n)
               /\ \A e \in Edges : Enabled(g, e) <=>
                     IF Edge(e).dst \in R THEN Resupplied(f, d, e) ELSE Enabled(f, e)
               /\ \A e \in LoopEdges : \A v : Arrived(g, e, v) <=> Edge(e).dst \notin R /\ Arrived(f, e, v)
               /\ \A c \in Nodes : HasClosed(g, c) <=> c \notin R /\ HasClosed(f, c)
<1> DEFINE R == InvalidationRegion(d)
           gen == [n \in Nodes |-> IF n \in R THEN f.gen[n] + 1 ELSE f.gen[n]]
           com == [n \in Nodes |-> IF n \in R THEN Absent ELSE f.completed[n]]
           rea == {a \in f.reached : a[1] \notin R}
           run == {a \in f.running : a[1] \notin R}
           ena == {a \in f.enabled : Edge(a[1]).dst \notin R}
           arr == {a \in f.arrivals : Edge(a[1]).dst \notin R}
           clo == {a \in f.closed : a[1] \notin R}
           k == [ClearNodeEpochState(f, R) EXCEPT !.gen = [n \in Nodes |-> IF n \in R THEN @[n] + 1 ELSE @[n]]]
           again == {e \in LoopBoundaryEdges(d) : e \in k.decisions[Edge(e).src]}
           h == EnableEdges(k, Members(d))
           g == EnableEdges(h, again)
<1>1. FireGroup(f, d) = g
  BY DEF FireGroup
<1>2. /\ k.gen = gen /\ k.completed = com /\ k.reached = rea /\ k.running = run /\ k.enabled = ena
      /\ k.arrivals = arr /\ k.closed = clo /\ k.decisions = f.decisions /\ k.isolated = f.isolated
      /\ k.exhausted = f.exhausted
  BY DEF ClearNodeEpochState, FrontierStates
<1>3. /\ gen \in [Nodes -> Nat] /\ com \in [Nodes -> Nat \cup {Absent}]
  BY FieldTypes
<1>4. /\ rea \subseteq Nodes \X Nat /\ run \subseteq f.running /\ run \subseteq Nodes \X Nat /\ ena \subseteq Edges \X Nat
      /\ arr \subseteq LoopEdges \X Nat \X BOOLEAN /\ clo \subseteq Nodes \X Nat
  BY FieldTypes
<1>5. k = [f EXCEPT !.gen = gen, !.completed = com, !.reached = rea, !.running = run, !.enabled = ena,
                    !.arrivals = arr, !.closed = clo]
  BY DEF ClearNodeEpochState, FrontierStates
<1>6. k \in FrontierStates
  <2> HIDE DEF gen, com, rea, run, ena, arr, clo, k
  <2> QED BY <1>3, <1>4, <1>5, FieldTypes DEF FrontierStates
<1> HIDE DEF k
<1>7. Completed(k) = Completed(f) \ R /\ (Marked(f) => Marked(k))
  <2>1. \A n \in Nodes : /\ k.completed[n] = IF n \in R THEN Absent ELSE f.completed[n]
                         /\ k.gen[n] = IF n \in R THEN f.gen[n] + 1 ELSE f.gen[n]
    BY <1>2
  <2> HIDE DEF R
  <2> QED BY ONLY <2>1 DEF Completed, Marked
<1>8. \A n \in Nodes : Reached(k, n) <=> n \notin R /\ Reached(f, n)
  <2>1. \A n \in Nodes : k.gen[n] = IF n \in R THEN f.gen[n] + 1 ELSE f.gen[n]
    BY <1>2
  <2>2. \A n, i : <<n, i>> \in k.reached <=> <<n, i>> \in f.reached /\ n \notin R
    BY <1>2
  <2> HIDE DEF R
  <2> QED BY <2>1, <2>2 DEF Reached
<1>9. \A e \in Edges : Enabled(k, e) <=> Edge(e).dst \notin R /\ Enabled(f, e)
  <2>1. \A n \in Nodes : k.gen[n] = IF n \in R THEN f.gen[n] + 1 ELSE f.gen[n]
    BY <1>2
  <2>2. \A e, i : <<e, i>> \in k.enabled <=> <<e, i>> \in f.enabled /\ Edge(e).dst \notin R
    BY <1>2
  <2>3. \A e \in Edges : Edge(e).dst \in Nodes
    BY GraphTypes
  <2> HIDE DEF R
  <2> QED BY <2>1, <2>2, <2>3 DEF Enabled
<1>10. \A e \in LoopEdges : \A v : Arrived(k, e, v) <=> Edge(e).dst \notin R /\ Arrived(f, e, v)
  <2>1. \A n \in Nodes : k.gen[n] = IF n \in R THEN f.gen[n] + 1 ELSE f.gen[n]
    BY <1>2
  <2>2. \A e, i, v : <<e, i, v>> \in k.arrivals <=> <<e, i, v>> \in f.arrivals /\ Edge(e).dst \notin R
    BY <1>2
  <2>3. \A e \in LoopEdges : Edge(e).dst \in Nodes
    BY GraphTypes
  <2> HIDE DEF R
  <2> QED BY <2>1, <2>2, <2>3 DEF Arrived
<1>11. \A c \in Nodes : HasClosed(k, c) <=> c \notin R /\ HasClosed(f, c)
  <2>1. \A n \in Nodes : k.gen[n] = IF n \in R THEN f.gen[n] + 1 ELSE f.gen[n]
    BY <1>2
  <2>2. \A c, i : <<c, i>> \in k.closed <=> <<c, i>> \in f.closed /\ c \notin R
    BY <1>2
  <2> HIDE DEF R
  <2> QED BY <2>1, <2>2 DEF HasClosed
<1>12. Members(d) \in SUBSET Edges /\ again \in SUBSET Edges
  BY GraphTypes DEF Members, LoopBoundaryEdges
<1>13. \A e \in Edges : e \in Members(d) \cup again <=> Resupplied(f, d, e)
  BY <1>2 DEF Resupplied
<1>14. \A e \in Members(d) \cup again : Edge(e).dst \in R
  BY RegionFacts DEF Members, LoopBoundaryEdges
<1> HIDE DEF again
<1>15. /\ h \in FrontierStates /\ Completed(h) = Completed(k) /\ (Marked(k) => Marked(h))
       /\ h.gen = k.gen /\ h.decisions = k.decisions /\ h.isolated = k.isolated /\ h.running = k.running
       /\ \A n : Reached(h, n) <=> Reached(k, n) \/ \E e \in Members(d) : Edge(e).dst = n
       /\ \A e : Enabled(h, e) <=> Enabled(k, e) \/ e \in Members(d)
       /\ \A e, v : Arrived(h, e, v) <=> Arrived(k, e, v)
       /\ \A c : HasClosed(h, c) <=> HasClosed(k, c)
  BY <1>6, <1>12, EnableEdgesIs
<1> HIDE DEF h
<1>16. /\ g \in FrontierStates /\ Completed(g) = Completed(h) /\ (Marked(h) => Marked(g))
       /\ g.gen = h.gen /\ g.decisions = h.decisions /\ g.isolated = h.isolated /\ g.running = h.running
       /\ \A n : Reached(g, n) <=> Reached(h, n) \/ \E e \in again : Edge(e).dst = n
       /\ \A e : Enabled(g, e) <=> Enabled(h, e) \/ e \in again
       /\ \A e, v : Arrived(g, e, v) <=> Arrived(h, e, v)
       /\ \A c : HasClosed(g, c) <=> HasClosed(h, c)
  BY <1>12, <1>15, EnableEdgesIs
<1> HIDE DEF g
<1>17. ASSUME NEW n \in Nodes
       PROVE  Reached(g, n) <=>
                 IF n \in R THEN \E e \in Edges : Edge(e).dst = n /\ Resupplied(f, d, e) ELSE Reached(f, n)
  <2>1. Reached(g, n) <=> Reached(k, n) \/ \E e \in Members(d) \cup again : Edge(e).dst = n
    BY <1>15, <1>16
  <2>2. (\E e \in Members(d) \cup again : Edge(e).dst = n) <=> \E e \in Edges : Edge(e).dst = n /\ Resupplied(f, d, e)
    BY <1>12, <1>13
  <2>3. (\E e \in Members(d) \cup again : Edge(e).dst = n) => n \in R
    BY <1>14
  <2> QED BY <1>8, <2>1, <2>2, <2>3
<1>18. \A e \in Edges : Enabled(g, e) <=>
           IF Edge(e).dst \in R THEN Resupplied(f, d, e) ELSE Enabled(f, e)
  <2> HIDE DEF R
  <2> QED BY <1>9, <1>13, <1>14, <1>15, <1>16
<1>19. /\ \A e \in LoopEdges : \A v : Arrived(g, e, v) <=> Edge(e).dst \notin R /\ Arrived(f, e, v)
       /\ \A c \in Nodes : HasClosed(g, c) <=> c \notin R /\ HasClosed(f, c)
  <2> HIDE DEF R
  <2> QED BY <1>10, <1>11, <1>15, <1>16
<1>20. /\ g \in FrontierStates /\ Completed(g) = Completed(f) \ R /\ (Marked(f) => Marked(g))
       /\ g.decisions = f.decisions /\ g.isolated = f.isolated /\ g.running \subseteq f.running
  <2> HIDE DEF R
  <2> QED BY <1>2, <1>7, <1>15, <1>16
<1> QED BY <1>1, <1>17, <1>18, <1>19, <1>20

(* The loops that a resume finds to have fired get their inputs from their back-edges. *)
LEMMA RestoreLoopActivationsIs ==
    ASSUME wf \in Workflows, NEW f \in FrontierStates, NEW counts
    PROVE  LET g == RestoreLoopActivations(f, counts)
               D == {d \in Destinations : d \notin Completed(f) /\ Fired(counts, d)}
           IN  /\ g \in FrontierStates /\ Completed(g) = Completed(f) /\ (Marked(f) => Marked(g))
               /\ g.gen = f.gen /\ g.decisions = f.decisions /\ g.isolated = f.isolated /\ g.running = f.running
               /\ \A n : Reached(g, n) <=> Reached(f, n) \/ n \in D
               /\ \A e \in Edges : Enabled(g, e) <=> IF Edge(e).dst \in D THEN e \in LoopEdges ELSE Enabled(f, e)
               /\ \A e, v : Arrived(g, e, v) <=> Arrived(f, e, v)
               /\ \A d : HasClosed(g, d) <=> HasClosed(f, d)
<1> DEFINE D == {d \in Destinations : d \notin Completed(f) /\ Fired(counts, d)}
           kept == {a \in f.enabled : Edge(a[1]).dst \notin D}
           h == [f EXCEPT !.enabled = kept]
           es == UNION {Members(d) : d \in D}
           g == EnableEdges(h, es)
<1>1. RestoreLoopActivations(f, counts) = g
  BY DEF RestoreLoopActivations, Fired
<1>2. kept \subseteq Edges \X Nat
  BY FieldTypes
<1>3. /\ h.gen = f.gen /\ h.completed = f.completed /\ h.reached = f.reached /\ h.running = f.running
      /\ h.enabled = kept /\ h.arrivals = f.arrivals /\ h.closed = f.closed /\ h.decisions = f.decisions
      /\ h.isolated = f.isolated
  BY DEF FrontierStates
<1>4. h \in FrontierStates
  <2> HIDE DEF kept
  <2> QED BY <1>2, FieldTypes DEF FrontierStates
<1> HIDE DEF h
<1>5. /\ Completed(h) = Completed(f) /\ (Marked(f) => Marked(h))
      /\ \A n : Reached(h, n) <=> Reached(f, n)
      /\ \A e, v : Arrived(h, e, v) <=> Arrived(f, e, v)
      /\ \A d : HasClosed(h, d) <=> HasClosed(f, d)
  BY <1>3 DEF Completed, Marked, Reached, Arrived, HasClosed
<1>6. \A e \in Edges : Enabled(h, e) <=> Edge(e).dst \notin D /\ Enabled(f, e)
  <2> HIDE DEF D
  <2> QED BY <1>3 DEF Enabled
<1>7. \A e \in Edges : e \in es <=> e \in LoopEdges /\ Edge(e).dst \in D
  <2> HIDE DEF D
  <2> QED BY DEF Members
<1>8. es \in SUBSET Edges
  BY GraphTypes DEF Members
<1>9. \A n : (\E e \in es : Edge(e).dst = n) <=> n \in D
  <2>1. \A d \in D : \E e \in Members(d) : Edge(e).dst = d
    BY MemberFacts
  <2> QED BY <2>1, MemberFacts
<1> HIDE DEF es, D
<1>10. /\ g \in FrontierStates /\ Completed(g) = Completed(h) /\ (Marked(h) => Marked(g))
       /\ g.gen = h.gen /\ g.decisions = h.decisions /\ g.isolated = h.isolated /\ g.running = h.running
       /\ \A n : Reached(g, n) <=> Reached(h, n) \/ \E e \in es : Edge(e).dst = n
       /\ \A e : Enabled(g, e) <=> Enabled(h, e) \/ e \in es
       /\ \A e, v : Arrived(g, e, v) <=> Arrived(h, e, v)
       /\ \A d : HasClosed(g, d) <=> HasClosed(h, d)
  BY <1>4, <1>8, EnableEdgesIs
<1> HIDE DEF g
<1>11. \A e \in Edges : Enabled(g, e) <=> IF Edge(e).dst \in D THEN e \in LoopEdges ELSE Enabled(f, e)
  BY <1>6, <1>7, <1>10
<1> QED BY <1>1, <1>3, <1>5, <1>9, <1>10, <1>11 DEF D

-----------------------------------------------------------------------------
(* The transitions keep a frontier good.                                   *)

(* What is not complete is closed. *)
LEMMA UnfinishedClosed ==
    ASSUME wf \in Workflows, NEW C, Grounded(C)
    PROVE  /\ Closed(Nodes \ C)
           /\ \A n \in Nodes \ C : Closure({n}) \subseteq Nodes \ C
           /\ \A e \in LoopEdges : Edge(e).src \in C => Edge(e).dst \in C
<1>1. Closed(Nodes \ C)
  BY GraphTypes DEF Closed, Grounded
<1>2. \A n \in Nodes \ C : Closure({n}) \subseteq Nodes \ C
  BY <1>1, ClosureFacts
<1>3. \A e \in LoopEdges : Edge(e).src \in C => Edge(e).dst \in C
  BY <1>1, LoopSource, GraphTypes
<1> QED BY <1>1, <1>2, <1>3

(* Isolation only takes activations back. *)
LEMMA IsolateGood ==
    ASSUME wf \in Workflows, NEW f, NEW outs, NEW counts, Good(f, outs, counts), NEW ns \in SUBSET Nodes
    PROVE  /\ Good(IsolateNodes(f, ns), outs, counts)
           /\ GroupsSettled(f, counts) => GroupsSettled(IsolateNodes(f, ns), counts)
<1> DEFINE g == IsolateNodes(f, ns)
<1>1. f \in FrontierStates
  BY DEF Good, Sound
<1>2. /\ g \in FrontierStates /\ Completed(g) = Completed(f) /\ (Marked(f) => Marked(g))
      /\ g.gen = f.gen /\ g.decisions = f.decisions /\ g.isolated = f.isolated \cup ns
      /\ \A n : Reached(g, n) <=> Reached(f, n) /\ n \notin ns
      /\ \A e : Enabled(g, e) <=> Enabled(f, e)
      /\ \A e, v : Arrived(g, e, v) <=> Arrived(f, e, v)
      /\ \A d : HasClosed(g, d) <=> HasClosed(f, d)
  BY <1>1, IsolateNodesIs
<1> HIDE DEF g
<1>3. \A e : Decided(g, e) <=> Decided(f, e)
  BY <1>2 DEF Decided
<1>4. Sound(g, outs)
  BY <1>2, <1>3 DEF Good, Sound, DecisionsStand, EnabledStand, ArrivedInside
<1>5. Reaches(g)
  BY <1>2, <1>3 DEF Good, Reaches
<1>6. Arrivals(g)
  <2>1. \A e : Decided(g, e) = Decided(f, e)
    BY <1>2 DEF Decided
  <2> QED BY <1>2, <2>1 DEF Good, Arrivals
<1>7. ClosedRightly(g, counts)
  BY <1>2 DEF Good, ClosedRightly
<1>8. Exact(g, counts)
  BY <1>2, <1>3 DEF Good, Exact
<1>9. GroupsSettled(f, counts) => GroupsSettled(g, counts)
  BY <1>2 DEF GroupsSettled, AllTrue
<1> QED BY <1>4, <1>5, <1>6, <1>7, <1>8, <1>9 DEF Good, g

\* Nothing behind the nodes ns is complete.
Foremost(f, ns) == \A n \in ns : \A m \in Closure({n}) \ {n} : m \notin Completed(f)

\* A group that is to fire has a member of the batch.
FiresNow(f, counts, ns) ==
    \A d \in Destinations :
        ~Overtaken(d) /\ AllTrue(f, d) /\ ~IsSpent(counts, d) => \E x \in Members(d) : Edge(x).src \in ns

(* The batch is committed with the new outputs, before the loops are evaluated. *)
LEMMA CommitGood ==
    ASSUME wf \in Workflows, NEW f, NEW outs, NEW counts, Good(f, outs, counts),
           NEW ns \in SUBSET Nodes, Startable(f, ns),
           NEW new, \A n \in Nodes \ ns : new[n] = outs[n],
           NEW verdicts, \A n \in Nodes : verdicts[n] = Verdicts(new, n)
    PROVE  LET g == Commit(f, ns, verdicts)
           IN  /\ Good(g, new, counts) /\ Foremost(g, ns)
               /\ GroupsSettled(f, counts) => FiresNow(g, counts, ns)
<1> DEFINE g == Commit(f, ns, verdicts)
<1>1. f \in FrontierStates
  BY DEF Good, Sound
<1>21. Committed(f, g, ns, new)
  BY <1>1, CommitIs
<1> HIDE DEF g
<1>2. /\ g \in FrontierStates /\ Completed(g) = Completed(f) \cup ns /\ (Marked(f) => Marked(g))
      /\ g.gen = f.gen /\ g.isolated = f.isolated /\ g.running = f.running
      /\ \A n \in Nodes : g.decisions[n] = IF n \in ns THEN Verdicts(new, n) ELSE f.decisions[n]
      /\ \A n : Reached(g, n) <=> Reached(f, n) \/ \E e \in ForwardEdges : Edge(e).dst = n /\ DecidesIn(ns, new, e)
      /\ \A e : Enabled(g, e) <=> Enabled(f, e) \/ (e \in ForwardEdges /\ DecidesIn(ns, new, e))
      /\ \A e \in LoopEdges, v \in BOOLEAN :
            Arrived(g, e, v) <=> IF Edge(e).src \in ns THEN (v <=> DecidesIn(ns, new, e)) ELSE Arrived(f, e, v)
      /\ \A d : HasClosed(g, d) <=> HasClosed(f, d)
  BY <1>21 DEF Committed
<1>3. Sound(f, outs) /\ Reaches(f) /\ Arrivals(f) /\ ClosedRightly(f, counts) /\ Exact(f, counts) /\ Bounded(counts)
  BY DEF Good
<1>4. /\ Marked(f) /\ Grounded(Completed(f)) /\ DecisionsStand(f, outs) /\ EnabledStand(f) /\ ArrivedInside(f)
  BY <1>3 DEF Sound
<1>5. \A e \in Edges : Edge(e).src \in Nodes /\ Edge(e).dst \in Nodes
  BY GraphTypes
<1>6. \A e \in ForwardEdges : Edge(e).src \in ForwardPredecessors(Edge(e).dst)
  BY DEF ForwardPredecessors
<1>7. LoopEdges \subseteq Edges /\ ForwardEdges \subseteq Edges
  BY GraphTypes
<1>8. ns \cap Completed(f) = {}
  BY DEF Startable
<1>9. Grounded(Completed(g))
  BY <1>2, <1>4, <1>6 DEF Grounded, Startable
<1>10. \A n \in ns : g.decisions[n] = Verdicts(new, n)
  BY <1>2
<1>11. \A e \in Edges : Edge(e).src \notin ns => (Decided(g, e) <=> Decided(f, e))
  BY <1>2, <1>5 DEF Decided
<1>12. \A e \in Edges : Edge(e).src \in ns => (Decided(g, e) <=> DecidesIn(ns, new, e)) /\ ~Decided(f, e)
  BY <1>2, <1>5, <1>8, <1>10 DEF Decided, DecidesIn
<1>13. \A e \in Edges : Decided(g, e) <=> Decided(f, e) \/ DecidesIn(ns, new, e)
  BY <1>11, <1>12 DEF DecidesIn
<1>14. Sound(g, new)
  <2>1. \A n \in Completed(g) : g.decisions[n] = Verdicts(new, n)
    <3> TAKE n \in Completed(g)
    <3>1. CASE n \in ns
      BY <3>1, <1>10
    <3>2. CASE n \notin ns
      <4>1. n \in Nodes \ ns /\ n \in Completed(f)
        BY <3>2, <1>2 DEF Completed
      <4>2. new[n] = outs[n] /\ f.decisions[n] = Verdicts(outs, n) /\ g.decisions[n] = f.decisions[n]
        BY <4>1, <1>2, <1>4 DEF DecisionsStand
      <4> QED BY <4>2 DEF Verdicts
    <3> QED BY <3>1, <3>2
  <2>2. \A n \in Nodes \ Completed(g) :
          g.decisions[n] # {} => \E o \in Destinations : n \in InvalidationRegion(o)
    BY <1>2, <1>4 DEF DecisionsStand
  <2>3. EnabledStand(g)
    BY <1>2, <1>4, <1>7, <1>13 DEF EnabledStand
  <2>4. ArrivedInside(g)
    <3> SUFFICES ASSUME NEW e \in LoopEdges, Arrived(g, e, TRUE) \/ Arrived(g, e, FALSE)
                 PROVE  Edge(e).dst \in Completed(g)
      BY DEF ArrivedInside
    <3>1. CASE Edge(e).src \in ns
      BY <3>1, <1>2, <1>9, UnfinishedClosed
    <3>2. CASE Edge(e).src \notin ns
      BY <3>2, <1>2, <1>4 DEF ArrivedInside
    <3> QED BY <3>1, <3>2
  <2> QED BY <2>1, <2>2, <2>3, <2>4, <1>2, <1>4, <1>9 DEF Sound, DecisionsStand
<1>15. Reaches(g)
  <2>1. ASSUME NEW e \in ForwardEdges, Decided(g, e), Edge(e).dst \notin Completed(g) \cup g.isolated
        PROVE  Reached(g, Edge(e).dst)
    BY <2>1, <1>2, <1>3, <1>7, <1>13 DEF Reaches
  <2>2. \A n \in Entries : ForwardPredecessors(n) = {} /\ n \notin Completed(g) \cup g.isolated => Reached(g, n)
    BY <1>2, <1>3 DEF Reaches
  <2> QED BY <2>1, <2>2 DEF Reaches
<1>16. Arrivals(g)
  <2> SUFFICES ASSUME NEW e \in LoopEdges
               PROVE  /\ ~(Arrived(g, e, TRUE) /\ Arrived(g, e, FALSE))
                      /\ Edge(e).src \in Completed(g) => Arrived(g, e, Decided(g, e))
                      /\ ~Overtaken(Edge(e).dst) /\ (Arrived(g, e, TRUE) \/ Arrived(g, e, FALSE))
                             => Edge(e).src \in Completed(g)
    BY DEF Arrivals
  <2>1. CASE Edge(e).src \in ns
    <3>1. Decided(g, e) \in BOOLEAN /\ (Decided(g, e) <=> DecidesIn(ns, new, e))
      BY <2>1, <1>7, <1>12 DEF Decided
    <3> QED BY <2>1, <3>1, <1>2
  <2>2. CASE Edge(e).src \notin ns
    <3>1. Decided(g, e) = Decided(f, e) /\ Decided(f, e) \in BOOLEAN
      BY <2>2, <1>7, <1>11 DEF Decided
    <3>2. \A v \in BOOLEAN : Arrived(g, e, v) <=> Arrived(f, e, v)
      BY <2>2, <1>2
    <3> QED BY <2>2, <3>1, <3>2, <1>2, <1>3 DEF Arrivals
  <2> QED BY <2>1, <2>2
<1>17. ClosedRightly(g, counts)
  <2> SUFFICES ASSUME NEW d \in Destinations, ~Overtaken(d), HasClosed(g, d), ~IsSpent(counts, d)
               PROVE  \E e \in Members(d) : Arrived(g, e, FALSE)
    BY DEF ClosedRightly
  <2>1. PICK e \in Members(d) : Arrived(f, e, FALSE)
    BY <1>2, <1>3 DEF ClosedRightly
  <2>2. e \in LoopEdges /\ Edge(e).dst = d
    BY DEF Members
  <2>3. Edge(e).src \notin ns
    BY <2>1, <2>2, <1>3, <1>8 DEF Arrivals
  <2> QED BY <2>1, <2>2, <2>3, <1>2
<1>18. Exact(g, counts)
  <2>1. \A e \in ForwardEdges :
          Decided(g, e) /\ Edge(e).dst \notin Completed(g) \cup Destinations => Enabled(g, e)
    BY <1>2, <1>3, <1>7, <1>13 DEF Exact
  <2>2. ASSUME NEW n \in Nodes, Reached(g, n), n \notin Entries
        PROVE  \E e \in Edges : Edge(e).dst = n /\ Enabled(g, e)
    <3>1. CASE Reached(f, n)
      BY <2>2, <3>1, <1>2, <1>3 DEF Exact
    <3>2. CASE ~Reached(f, n)
      BY <2>2, <3>2, <1>2, <1>7
    <3> QED BY <3>1, <3>2
  <2>3. \A e \in LoopEdges : Enabled(g, e) => Fired(counts, Edge(e).dst)
    BY <1>2, <1>3 DEF Exact, ForwardEdges
  <2>4. \A n \in Completed(g) : CanStart(n)
    BY <1>2, <1>3 DEF Exact, Startable
  <2>5. ASSUME NEW d \in Destinations, Fired(counts, d)
        PROVE  /\ CanStart(d)
               /\ ~Nested(d) => /\ ForwardPredecessors(d) \subseteq Completed(g)
                                /\ d \notin Completed(g) \cup g.isolated => Reached(g, d)
    BY <2>5, <1>2, <1>3 DEF Exact
  <2> QED BY <2>1, <2>2, <2>3, <2>4, <2>5 DEF Exact
<1>19. Foremost(g, ns)
  <2> SUFFICES ASSUME NEW n \in ns, NEW m \in Closure({n}) \ {n} PROVE m \notin Completed(f) \cup ns
    BY <1>2 DEF Foremost
  <2>1. Closure({n}) \subseteq Nodes \ Completed(f)
    BY <1>4, UnfinishedClosed DEF Startable
  <2>2. PICK e \in ForwardEdges : Edge(e).dst = m /\ Edge(e).src \in Closure({n})
    BY ClosureStep DEF Startable
  <2>3. m \notin ns
    BY <2>1, <2>2, <1>6 DEF Startable
  <2> QED BY <2>1, <2>3
<1>20. GroupsSettled(f, counts) => FiresNow(g, counts, ns)
  <2> SUFFICES ASSUME GroupsSettled(f, counts), NEW d \in Destinations, ~Overtaken(d), AllTrue(g, d), ~IsSpent(counts, d),
                      \A x \in Members(d) : Edge(x).src \notin ns
               PROVE  FALSE
    BY DEF FiresNow
  <2>1. AllTrue(f, d)
    BY <1>2 DEF AllTrue, Members
  <2> QED BY <2>1 DEF GroupsSettled
<1> QED BY <1>3, <1>14, <1>15, <1>16, <1>17, <1>18, <1>19, <1>20 DEF Good, g

\* The counters after a fire of d.
Bump(counts, d) == [e \in DOMAIN counts |-> IF e \in Members(d) THEN counts[e] + 1 ELSE counts[e]]

(* A fire is counted once on every member. *)
LEMMA BumpIs ==
    ASSUME wf \in Workflows, NEW counts \in Counters, NEW d
    PROVE  /\ Bump(counts, d) \in Counters
           /\ \A e \in LoopEdges : /\ counts[e] \in Nat /\ counts[e] <= Bump(counts, d)[e]
                                   /\ Bump(counts, d)[e] = IF e \in Members(d) THEN counts[e] + 1 ELSE counts[e]
           /\ \A c \in Destinations : /\ IsSpent(counts, c) => IsSpent(Bump(counts, d), c)
                                      /\ Fired(counts, c) => Fired(Bump(counts, d), c)
<1> DEFINE more == Bump(counts, d)
<1>1. more \in Counters
  BY DEF Bump, Counters
<1>2. \A e \in LoopEdges : /\ counts[e] \in Nat /\ counts[e] <= more[e]
                           /\ more[e] = IF e \in Members(d) THEN counts[e] + 1 ELSE counts[e]
  BY DEF Bump, Counters
<1> HIDE DEF more
<1>3. \A e \in LoopEdges : Edge(e).max \in Nat /\ more[e] \in Nat
  BY <1>1, GraphTypes DEF Counters
<1>4. \A c \in Destinations : IsSpent(counts, c) => IsSpent(more, c)
  BY <1>2, <1>3, MemberFacts DEF IsSpent, Spent
<1>5. \A c \in Destinations : Fired(counts, c) => Fired(more, c)
  BY <1>2, <1>3, MemberFacts DEF Fired
<1> QED BY <1>1, <1>2, <1>4, <1>5 DEF more

(* A fire of a group whose members all arrived true keeps the frontier good. *)
LEMMA FireGood ==
    ASSUME wf \in Workflows, NEW f, NEW outs, NEW counts \in Counters, Good(f, outs, counts),
           NEW d \in Destinations, AllTrue(f, d), ~IsSpent(counts, d),
           NEW ns \in SUBSET Nodes, Foremost(f, ns), FiresNow(f, counts, ns)
    PROVE  LET g == FireGroup(f, d)
           IN  /\ Good(g, outs, Bump(counts, d)) /\ Foremost(g, ns) /\ FiresNow(g, Bump(counts, d), ns)
               /\ Completed(g) = Completed(f) \ InvalidationRegion(d)
               /\ g.running \subseteq f.running
               /\ \A c \in Destinations : AllTrue(g, c) => c # d /\ AllTrue(f, c)
<1> DEFINE g == FireGroup(f, d)
           R == InvalidationRegion(d)
           more == Bump(counts, d)
<1>1. f \in FrontierStates
  BY DEF Good, Sound
<1>2. /\ g \in FrontierStates /\ Completed(g) = Completed(f) \ R /\ (Marked(f) => Marked(g))
      /\ g.decisions = f.decisions /\ g.isolated = f.isolated /\ g.running \subseteq f.running
      /\ \A n \in Nodes : Reached(g, n) <=>
            IF n \in R THEN \E e \in Edges : Edge(e).dst = n /\ Resupplied(f, d, e) ELSE Reached(f, n)
      /\ \A e \in Edges : Enabled(g, e) <=>
            IF Edge(e).dst \in R THEN Resupplied(f, d, e) ELSE Enabled(f, e)
      /\ \A e \in LoopEdges : \A v : Arrived(g, e, v) <=> Edge(e).dst \notin R /\ Arrived(f, e, v)
      /\ \A c \in Nodes : HasClosed(g, c) <=> c \notin R /\ HasClosed(f, c)
  BY <1>1, FireGroupIs
<1>3. Sound(f, outs) /\ Reaches(f) /\ Arrivals(f) /\ ClosedRightly(f, counts) /\ Exact(f, counts) /\ Bounded(counts)
  BY DEF Good
<1>4. /\ Marked(f) /\ Grounded(Completed(f)) /\ DecisionsStand(f, outs) /\ EnabledStand(f) /\ ArrivedInside(f)
  BY <1>3 DEF Sound
<1>5. /\ \A e \in Edges : Edge(e).src \in Nodes /\ Edge(e).dst \in Nodes
      /\ LoopEdges \subseteq Edges /\ ForwardEdges \subseteq Edges /\ Entries \subseteq Nodes
      /\ Destinations \subseteq Nodes
  BY GraphTypes
<1>6. /\ R \subseteq Nodes /\ d \in R
      /\ \A e \in ForwardEdges : Edge(e).src \in R => Edge(e).dst \in R
      /\ \A e \in LoopEdges : Edge(e).dst \in R => Edge(e).src \in R
      /\ \A n \in R \ {d} : \E e \in ForwardEdges : Edge(e).dst = n /\ Edge(e).src \in R
      /\ \A e \in ForwardEdges : Edge(e).dst = d => Edge(e).src \notin R
  BY RegionFacts
<1>7. /\ more \in Counters
      /\ \A e \in LoopEdges : /\ counts[e] \in Nat /\ counts[e] <= more[e]
                              /\ more[e] = IF e \in Members(d) THEN counts[e] + 1 ELSE counts[e]
      /\ \A c \in Destinations : /\ IsSpent(counts, c) => IsSpent(more, c)
                                 /\ Fired(counts, c) => Fired(more, c)
  BY BumpIs
<1>8. /\ Members(d) # {} /\ Members(d) \subseteq LoopEdges
      /\ \A e \in LoopEdges : Edge(e).dst \in Destinations /\ e \in Members(Edge(e).dst)
      /\ \A c : Members(c) \subseteq LoopEdges /\ \A e \in Members(c) : Edge(e).dst = c
  BY MemberFacts
<1>9. d \in Completed(f)
  <2>1. PICK e \in LoopEdges : e \in Members(d) /\ Edge(e).dst = d
    BY <1>8
  <2>2. Arrived(f, e, TRUE)
    BY <2>1 DEF AllTrue
  <2> QED BY <2>1, <2>2, <1>4 DEF ArrivedInside
<1>10. /\ \A e \in ForwardEdges : Resupplied(f, d, e) <=>
             Edge(e).dst \in R /\ Edge(e).src \notin R /\ e \in f.decisions[Edge(e).src]
       /\ \A e \in LoopEdges : Resupplied(f, d, e) <=> e \in Members(d)
  BY <1>8 DEF Resupplied, LoopBoundaryEdges, ForwardEdges
<1>11. ForwardEdges \cup LoopEdges = Edges /\ ForwardEdges \cap LoopEdges = {}
  BY <1>5 DEF ForwardEdges
<1> HIDE DEF g, R, more
<1>12. \A e \in Edges : Decided(g, e) <=> Decided(f, e) /\ Edge(e).src \notin R
  BY <1>2 DEF Decided
<1>13. Sound(g, outs)
  <2>1. Grounded(Completed(g))
    BY <1>2, <1>4, <1>6 DEF Grounded
  <2>2. DecisionsStand(g, outs)
    <3>1. \A n \in Completed(g) : g.decisions[n] = Verdicts(outs, n)
      BY <1>2, <1>4 DEF DecisionsStand
    <3>2. \A n \in Nodes \ Completed(g) :
             g.decisions[n] # {} => \E o \in Destinations : n \in InvalidationRegion(o)
      BY <1>2, <1>4 DEF DecisionsStand, R
    <3> QED BY <3>1, <3>2 DEF DecisionsStand
  <2>3. EnabledStand(g)
    <3> SUFFICES ASSUME NEW e \in ForwardEdges, Enabled(g, e), ~Lags(e) PROVE Decided(g, e)
      BY DEF EnabledStand
    <3>1. CASE Edge(e).dst \notin R
      <4>1. Decided(f, e)
        BY <3>1, <1>2, <1>4, <1>5 DEF EnabledStand
      <4> QED BY <4>1, <3>1, <1>5, <1>6, <1>12
    <3>2. CASE Edge(e).dst \in R
      <4>1. Edge(e).src \notin R /\ e \in f.decisions[Edge(e).src]
        BY <3>2, <1>2, <1>5, <1>10
      <4>2. CASE Edge(e).src \in Completed(f)
        BY <4>1, <4>2, <1>5, <1>12 DEF Decided
      <4>3. CASE Edge(e).src \notin Completed(f)
        <5>1. \E o \in Destinations : Edge(e).src \in InvalidationRegion(o)
          BY <4>1, <4>3, <1>4, <1>5 DEF DecisionsStand
        <5>2. d \notin Closure({Edge(e).src})
          <6>1. \A n \in Nodes \ Completed(f) : Closure({n}) \subseteq Nodes \ Completed(f)
            BY <1>4, UnfinishedClosed
          <6>2. Edge(e).src \in Nodes \ Completed(f)
            BY <4>3, <1>5
          <6> QED BY <6>1, <6>2, <1>9
        <5>3. e \in LoopBoundaryEdges(d)
          BY <3>2, <4>1 DEF LoopBoundaryEdges, R
        <5> QED BY <5>1, <5>2, <5>3 DEF Lags
      <4> QED BY <4>2, <4>3
    <3> QED BY <3>1, <3>2
  <2>4. ArrivedInside(g)
    BY <1>2, <1>4 DEF ArrivedInside
  <2> QED BY <1>2, <1>4, <2>1, <2>2, <2>3, <2>4 DEF Sound
<1>14. Reaches(g)
  <2>1. ASSUME NEW e \in ForwardEdges, Decided(g, e), Edge(e).dst \notin Completed(g) \cup g.isolated
        PROVE  Reached(g, Edge(e).dst)
    <3>1. Decided(f, e) /\ Edge(e).src \notin R
      BY <2>1, <1>5, <1>12
    <3>2. CASE Edge(e).dst \in R
      BY <3>1, <3>2, <1>2, <1>5, <1>10 DEF Decided
    <3>3. CASE Edge(e).dst \notin R
      BY <2>1, <3>1, <3>3, <1>2, <1>3, <1>5 DEF Reaches
    <3> QED BY <3>2, <3>3
  <2>2. ASSUME NEW n \in Entries, ForwardPredecessors(n) = {}, n \notin Completed(g) \cup g.isolated
        PROVE  Reached(g, n)
    <3>1. CASE n \in R
      <4>1. n = d
        BY <2>2, <3>1, <1>6 DEF ForwardPredecessors
      <4> QED BY <4>1, <1>2, <1>5, <1>6, <1>8, <1>10
    <3>2. CASE n \notin R
      BY <2>2, <3>2, <1>2, <1>3, <1>5 DEF Reaches
    <3> QED BY <3>1, <3>2
  <2> QED BY <2>1, <2>2 DEF Reaches
<1>15. Arrivals(g)
  <2> SUFFICES ASSUME NEW e \in LoopEdges
               PROVE  /\ ~(Arrived(g, e, TRUE) /\ Arrived(g, e, FALSE))
                      /\ Edge(e).src \in Completed(g) => Arrived(g, e, Decided(g, e))
                      /\ ~Overtaken(Edge(e).dst) /\ (Arrived(g, e, TRUE) \/ Arrived(g, e, FALSE))
                             => Edge(e).src \in Completed(g)
    BY DEF Arrivals
  <2>1. ~(Arrived(g, e, TRUE) /\ Arrived(g, e, FALSE))
    BY <1>2, <1>3 DEF Arrivals
  <2>2. ASSUME Edge(e).src \in Completed(g) PROVE Arrived(g, e, Decided(g, e))
    <3>1. Edge(e).dst \notin R /\ Edge(e).src \notin R /\ Edge(e).src \in Completed(f)
      BY <2>2, <1>2, <1>6
    <3>2. Decided(g, e) = Decided(f, e)
      BY <3>1, <1>5, <1>12 DEF Decided
    <3>3. Arrived(f, e, Decided(f, e))
      BY <3>1, <1>3 DEF Arrivals
    <3> QED BY <3>1, <3>2, <3>3, <1>2
  <2>3. ASSUME ~Overtaken(Edge(e).dst), Arrived(g, e, TRUE) \/ Arrived(g, e, FALSE)
        PROVE  Edge(e).src \in Completed(g)
    <3>1. Edge(e).src \in Completed(f) /\ Edge(e).dst \notin R
      BY <2>3, <1>2, <1>3 DEF Arrivals
    <3>2. SUFFICES ASSUME Edge(e).src \in R PROVE FALSE
      BY <3>1, <1>2
    <3>3. Edge(e).dst \in Destinations /\ e \in Members(Edge(e).dst)
      BY <1>8
    <3>4. d \in Inner(Edge(e).dst)
      BY <3>1, <3>2, <3>3, <1>6 DEF Inner, R
    <3>5. Precedes(d, Edge(e).dst) /\ ~Overtaken(d)
      BY <2>3, <3>3, <3>4, InnerPrecedes
    <3>6. PICK x \in Members(d) : Edge(x).src \in ns
      BY <3>5 DEF FiresNow
    <3>7. Edge(x).src # Edge(e).src /\ Edge(e).src \in Closure({Edge(x).src})
      BY <3>2, <3>3, <3>5, <3>6 DEF Precedes, R
    <3> QED BY <3>1, <3>6, <3>7 DEF Foremost
  <2> QED BY <2>1, <2>2, <2>3
<1>16. ClosedRightly(g, more)
  <2> SUFFICES ASSUME NEW c \in Destinations, ~Overtaken(c), HasClosed(g, c), ~IsSpent(more, c)
               PROVE  \E e \in Members(c) : Arrived(g, e, FALSE)
    BY DEF ClosedRightly
  <2>1. c \notin R /\ HasClosed(f, c) /\ ~IsSpent(counts, c)
    BY <1>2, <1>5, <1>7
  <2>2. PICK e \in Members(c) : Arrived(f, e, FALSE)
    BY <2>1, <1>3 DEF ClosedRightly
  <2> QED BY <2>1, <2>2, <1>2, <1>8
<1>17. Exact(g, more)
  <2>1. ASSUME NEW e \in ForwardEdges, Decided(g, e), Edge(e).dst \notin Completed(g) \cup Destinations
        PROVE  Enabled(g, e)
    <3>1. Decided(f, e) /\ Edge(e).src \notin R
      BY <2>1, <1>5, <1>12
    <3>2. CASE Edge(e).dst \in R
      BY <3>1, <3>2, <1>2, <1>5, <1>10 DEF Decided
    <3>3. CASE Edge(e).dst \notin R
      BY <2>1, <3>1, <3>3, <1>2, <1>3, <1>5 DEF Exact
    <3> QED BY <3>2, <3>3
  <2>2. ASSUME NEW n \in Nodes, Reached(g, n), n \notin Entries
        PROVE  \E e \in Edges : Edge(e).dst = n /\ Enabled(g, e)
    <3>1. CASE n \in R
      BY <2>2, <3>1, <1>2
    <3>2. CASE n \notin R
      BY <2>2, <3>2, <1>2, <1>3 DEF Exact
    <3> QED BY <3>1, <3>2
  <2>3. ASSUME NEW e \in LoopEdges, Enabled(g, e) PROVE Fired(more, Edge(e).dst)
    <3>1. CASE Edge(e).dst \in R
      <4>1. Edge(e).dst = d
        BY <2>3, <3>1, <1>2, <1>5, <1>8, <1>10
      <4> QED BY <4>1, <1>7, <1>8 DEF Fired
    <3>2. CASE Edge(e).dst \notin R
      BY <2>3, <3>2, <1>2, <1>3, <1>5, <1>7, <1>8 DEF Exact
    <3> QED BY <3>1, <3>2
  <2>4. \A n \in Completed(g) : CanStart(n)
    BY <1>2, <1>3 DEF Exact
  <2>5. ASSUME NEW c \in Destinations, Fired(more, c)
        PROVE  /\ CanStart(c)
               /\ ~Nested(c) => /\ ForwardPredecessors(c) \subseteq Completed(g)
                                /\ c \notin Completed(g) \cup g.isolated => Reached(g, c)
    <3>1. CASE c = d
      <4>1. CanStart(c)
        BY <3>1, <1>3, <1>9 DEF Exact
      <4>2. ForwardPredecessors(c) \subseteq Completed(g)
        BY <3>1, <1>2, <1>4, <1>6, <1>9 DEF ForwardPredecessors, Grounded
      <4>3. Reached(g, c)
        BY <3>1, <1>2, <1>5, <1>6, <1>8, <1>10
      <4> QED BY <4>1, <4>2, <4>3
    <3>2. CASE c # d
      <4>1. Fired(counts, c)
        BY <2>5, <3>2, <1>7, <1>8 DEF Fired
      <4>2. ~Nested(c) => c \notin R
        BY <3>2 DEF Nested, R
      <4>3. ASSUME ~Nested(c)
            PROVE  /\ ForwardPredecessors(c) \subseteq Completed(g)
                   /\ c \notin Completed(g) \cup g.isolated => Reached(g, c)
        <5>1. /\ ForwardPredecessors(c) \subseteq Completed(f)
              /\ c \notin Completed(f) \cup f.isolated => Reached(f, c)
          BY <4>1, <4>3, <1>3 DEF Exact
        <5>2. ForwardPredecessors(c) \cap R = {}
          BY <4>2, <4>3, <1>6 DEF ForwardPredecessors
        <5> QED BY <4>2, <4>3, <5>1, <5>2, <1>2, <1>5
      <4> QED BY <4>1, <4>3, <1>3 DEF Exact
    <3> QED BY <3>1, <3>2
  <2> QED BY <2>1, <2>2, <2>3, <2>4, <2>5 DEF Exact
<1>18. Bounded(more)
  <2> SUFFICES ASSUME NEW e \in LoopEdges PROVE more[e] <= Edge(e).max
    BY DEF Bounded
  <2>1. Edge(e).max \in Nat /\ counts[e] <= Edge(e).max
    BY <1>3, <1>5, GraphTypes DEF Bounded
  <2>2. e \in Members(d) => ~(counts[e] >= Edge(e).max)
    BY DEF IsSpent, Spent
  <2> QED BY <2>1, <2>2, <1>7
<1>19. Foremost(g, ns)
  BY <1>2 DEF Foremost
<1>20. \A c \in Destinations : AllTrue(g, c) => c # d /\ AllTrue(f, c)
  <2> SUFFICES ASSUME NEW c \in Destinations, AllTrue(g, c) PROVE c # d /\ AllTrue(f, c)
    OBVIOUS
  <2>1. \A e \in Members(c) : e \in LoopEdges /\ Edge(e).dst = c /\ Arrived(g, e, TRUE)
    BY <1>8 DEF AllTrue
  <2>2. \A e \in Members(c) : c \notin R /\ Arrived(f, e, TRUE)
    BY <2>1, <1>2
  <2> QED BY <2>2, <1>6, <1>8 DEF AllTrue
<1>21. FiresNow(g, more, ns)
  BY <1>7, <1>20 DEF FiresNow
<1> QED BY <1>2, <1>13, <1>14, <1>15, <1>16, <1>17, <1>18, <1>19, <1>20, <1>21 DEF Good, g, R, more

-----------------------------------------------------------------------------
(* The fires around a node, and the evaluation of the groups: what the     *)
(* recursive functions of the model compute, by induction over sets.       *)

(* Induction over the naturals, for a set in place of a predicate. *)
LEMMA NatSets ==
    ASSUME NEW P \in SUBSET Nat, 0 \in P, \A n \in P : n + 1 \in P
    PROVE  P = Nat
<1> DEFINE B == Nat \ P
<1>1. SUFFICES ASSUME B # {} PROVE FALSE
  BY <1>1
<1>2. PICK n \in B : \A k \in B : <<k, n>> \notin OpToRel(<, Nat)
  BY <1>1, NatLessThanWellFounded, WFMin
<1>3. n - 1 \in Nat
  OBVIOUS
<1>4. n - 1 \notin B
  <2>1. <<n - 1, n>> \in Nat \X Nat /\ <<n - 1, n>>[1] < <<n - 1, n>>[2]
    BY <1>3
  <2>2. <<n - 1, n>> \in OpToRel(<, Nat)
    BY <2>1 DEF OpToRel
  <2> QED BY <1>2, <2>2
<1>5. n - 1 \in P /\ (n - 1) + 1 = n
  BY <1>3, <1>4
<1> QED BY <1>5

(* Every loop has a first member. *)
LEMMA FirstMember ==
    ASSUME wf \in Workflows, NEW d \in Destinations
    PROVE  \E k \in Edges : First(k) /\ Edge(k).dst = d
<1>1. Members(d) # {} /\ Members(d) \subseteq LoopEdges /\ \A e \in Members(d) : Edge(e).dst = d
  BY MemberFacts
<1>2. Edges \subseteq Nat /\ LoopEdges \subseteq Edges
  BY GraphTypes
<1>3. Members(d) \subseteq Nat
  BY <1>1, <1>2
<1>4. PICK k \in Members(d) : \A e \in Members(d) : <<e, k>> \notin OpToRel(<, Nat)
  BY <1>1, <1>3, NatLessThanWellFounded, WFMin
<1>5. ASSUME NEW e \in Members(d) PROVE k <= e
  <2>1. SUFFICES ASSUME e < k PROVE FALSE
    BY <1>3
  <2>2. <<e, k>> \in Nat \X Nat /\ <<e, k>>[1] < <<e, k>>[2]
    BY <1>3, <2>1
  <2>3. <<e, k>> \in OpToRel(<, Nat)
    BY <2>2 DEF OpToRel
  <2> QED BY <1>4, <2>3
<1> QED BY <1>1, <1>2, <1>5 DEF First

\* g adds up the fires around n of the first m edges.
Sums(g, counts, n, m) ==
    g = [k \in 0..m |-> IF k = 0 THEN 0 ELSE g[k - 1] + FiresOf(counts, n, k)]
Summable(counts, n, m) == \E g : Sums(g, counts, n, m)

(* A function that adds them up is extended by one edge. *)
LEMMA SumsMore ==
    ASSUME NEW counts, NEW n, NEW m \in Nat, m # 0, Summable(counts, n, m - 1)
    PROVE  Summable(counts, n, m)
<1>1. PICK g : Sums(g, counts, n, m - 1)
  BY DEF Summable
<1> DEFINE last == g[m - 1] + FiresOf(counts, n, m)
           h == [k \in 0..m |-> IF k < m THEN g[k] ELSE last]
           F(k) == IF k = 0 THEN 0 ELSE h[k - 1] + FiresOf(counts, n, k)
<1>2. ASSUME NEW k \in 0..m, k < m PROVE h[k] = F(k)
  <2>1. h[k] = g[k] /\ k \in 0..(m - 1)
    BY <1>2
  <2>2. g[k] = IF k = 0 THEN 0 ELSE g[k - 1] + FiresOf(counts, n, k)
    BY <1>1, <2>1 DEF Sums
  <2>3. k # 0 => h[k - 1] = g[k - 1]
    BY <1>2
  <2> QED BY <2>1, <2>2, <2>3
<1>3. h[m] = F(m)
  <2>1. h[m - 1] = g[m - 1] /\ h[m] = last
    OBVIOUS
  <2> QED BY <2>1
<1>4. \A k \in 0..m : h[k] = F(k)
  BY <1>2, <1>3
<1>5. h = [k \in 0..m |-> F(k)]
  <2> HIDE DEF F, last
  <2> QED BY <1>4
<1>6. Sums(h, counts, n, m)
  BY <1>5 DEF Sums
<1> QED
  <2> HIDE DEF h
  <2> QED BY <1>6 DEF Summable

(* So there is one for all the edges, and Fires is computed by it. *)
LEMMA FiresIs ==
    ASSUME wf \in Workflows, NEW counts, NEW n
    PROVE  \E g : Sums(g, counts, n, Len(wf.edges)) /\ Fires(counts, n) = g[Len(wf.edges)]
<1> DEFINE m == Len(wf.edges)
           N == {k \in Nat : Summable(counts, n, k)}
           P(g) == g = [k \in 0..m |-> IF k = 0 THEN 0 ELSE g[k - 1] + FiresOf(counts, n, k)]
           c == CHOOSE g : P(g)
<1>1. 0 \in N
  <2>1. Sums([k \in 0..0 |-> 0], counts, n, 0)
    BY DEF Sums
  <2> QED BY <2>1 DEF Summable
<1>2. ASSUME NEW k \in N PROVE k + 1 \in N
  <2>1. k + 1 \in Nat /\ k + 1 # 0 /\ (k + 1) - 1 = k
    OBVIOUS
  <2>2. Summable(counts, n, k + 1)
    BY <2>1, SumsMore
  <2> QED BY <2>1, <2>2
<1>3. N \in SUBSET Nat
  OBVIOUS
<1>4. N = Nat
  <2> HIDE DEF N
  <2> QED BY <1>1, <1>2, <1>3, NatSets
<1>5. PICK f : P(f)
  <2>1. PICK g : Sums(g, counts, n, m)
    BY <1>4, GraphTypes DEF Summable
  <2>2. P(g)
    BY <2>1 DEF Sums
  <2> HIDE DEF P
  <2> QED BY <2>2
<1>6. P(c)
  <2> HIDE DEF P
  <2> QED BY <1>5
<1>7. Fires(counts, n) = c[m]
  BY DEF Fires
<1>8. Sums(c, counts, n, m)
  BY <1>6 DEF Sums
<1> QED
  <2> HIDE DEF c
  <2> QED BY <1>7, <1>8

(* Its values. *)
LEMMA SumsAre ==
    ASSUME NEW g, NEW counts, NEW n, NEW m \in Nat, Sums(g, counts, n, m)
    PROVE  g[0] = 0 /\ \A k \in 1..m : g[k] = g[k - 1] + FiresOf(counts, n, k)
<1> DEFINE F(k) == IF k = 0 THEN 0 ELSE g[k - 1] + FiresOf(counts, n, k)
<1>1. g = [k \in 0..m |-> F(k)]
  BY DEF Sums
<1>2. \A k \in 0..m : g[k] = F(k)
  <2> HIDE DEF F
  <2> QED BY <1>1
<1> QED BY <1>2

(* The fires around a node are counted: more fires are no fewer, and at least one more *)
(* when the first member of a loop around it has fired.                                *)
LEMMA FiresGrow ==
    ASSUME wf \in Workflows, NEW counts \in Counters, NEW more \in Counters,
           \A e \in LoopEdges : counts[e] <= more[e], NEW n
    PROVE  /\ Fires(counts, n) \in Nat /\ Fires(more, n) \in Nat
           /\ Fires(counts, n) <= Fires(more, n)
           /\ \A j \in Edges : /\ First(j) /\ n \in InvalidationRegion(Edge(j).dst) /\ counts[j] + 1 <= more[j]
                               => Fires(counts, n) + 1 <= Fires(more, n)
<1> DEFINE m == Len(wf.edges)
           Grows(j) == First(j) /\ n \in InvalidationRegion(Edge(j).dst) /\ counts[j] + 1 <= more[j]
<1>1. m \in Nat /\ Edges = 1..m
  BY GraphTypes
<1>2. \A k \in Edges : /\ FiresOf(counts, n, k) \in Nat /\ FiresOf(more, n, k) \in Nat
                       /\ FiresOf(counts, n, k) <= FiresOf(more, n, k)
  BY DEF FiresOf, First, Counters
<1>3. \A k \in Edges : Grows(k) => FiresOf(counts, n, k) + 1 <= FiresOf(more, n, k)
  BY DEF FiresOf
<1>4. PICK a : Sums(a, counts, n, m) /\ Fires(counts, n) = a[m]
  BY FiresIs
<1>5. PICK b : Sums(b, more, n, m) /\ Fires(more, n) = b[m]
  BY FiresIs
<1>6. /\ a[0] = 0 /\ b[0] = 0
      /\ \A k \in 1..m : a[k] = a[k - 1] + FiresOf(counts, n, k)
      /\ \A k \in 1..m : b[k] = b[k - 1] + FiresOf(more, n, k)
  BY <1>1, <1>4, <1>5, SumsAre
<1> DEFINE P == {k \in Nat : k <= m => /\ a[k] \in Nat /\ b[k] \in Nat /\ a[k] <= b[k]
                                       /\ \A j \in Edges : Grows(j) /\ j <= k => a[k] + 1 <= b[k]}
<1> HIDE DEF Grows
<1>7. 0 \in P
  BY <1>1, <1>6
<1>8. ASSUME NEW k \in P PROVE k + 1 \in P
  <2> SUFFICES ASSUME k + 1 <= m
               PROVE  /\ a[k + 1] \in Nat /\ b[k + 1] \in Nat /\ a[k + 1] <= b[k + 1]
                      /\ \A j \in Edges : Grows(j) /\ j <= k + 1 => a[k + 1] + 1 <= b[k + 1]
    OBVIOUS
  <2>1. k \in Nat /\ k <= m /\ k + 1 \in 1..m /\ (k + 1) - 1 = k /\ k + 1 \in Edges
    BY <1>1
  <2>2. /\ a[k] \in Nat /\ b[k] \in Nat /\ a[k] <= b[k]
        /\ \A j \in Edges : Grows(j) /\ j <= k => a[k] + 1 <= b[k]
    BY <2>1
  <2>3. a[k + 1] = a[k] + FiresOf(counts, n, k + 1) /\ b[k + 1] = b[k] + FiresOf(more, n, k + 1)
    BY <2>1, <1>6
  <2>4. /\ FiresOf(counts, n, k + 1) \in Nat /\ FiresOf(more, n, k + 1) \in Nat
        /\ FiresOf(counts, n, k + 1) <= FiresOf(more, n, k + 1)
        /\ Grows(k + 1) => FiresOf(counts, n, k + 1) + 1 <= FiresOf(more, n, k + 1)
    BY <2>1, <1>2, <1>3
  <2>5. \A j \in Edges : j <= k + 1 => j <= k \/ j = k + 1
    BY <1>1, <2>1
  <2> HIDE DEF P
  <2>6. a[k + 1] \in Nat /\ b[k + 1] \in Nat /\ a[k + 1] <= b[k + 1]
    BY <2>2, <2>3, <2>4
  <2>7. ASSUME NEW j \in Edges, Grows(j), j <= k + 1 PROVE a[k + 1] + 1 <= b[k + 1]
    <3>1. CASE j <= k
      BY <2>2, <2>3, <2>4, <2>7, <3>1
    <3>2. CASE j = k + 1
      BY <2>2, <2>3, <2>4, <2>7, <3>2
    <3> QED BY <2>5, <2>7, <3>1, <3>2
  <2> QED BY <2>6, <2>7
<1>9. P \in SUBSET Nat
  OBVIOUS
<1>10. P = Nat
  <2> HIDE DEF P
  <2> QED BY <1>7, <1>8, <1>9, NatSets
<1>11. /\ a[m] \in Nat /\ b[m] \in Nat /\ a[m] <= b[m]
       /\ \A j \in Edges : Grows(j) => a[m] + 1 <= b[m]
  BY <1>1, <1>10
<1> QED BY <1>4, <1>5, <1>11 DEF Grows

(* A fire of a loop around a node is one more. *)
LEMMA FiresBump ==
    ASSUME wf \in Workflows, NEW counts \in Counters, NEW j \in Edges, First(j), NEW n
    PROVE  LET more == Bump(counts, Edge(j).dst)
           IN  /\ Fires(counts, n) \in Nat /\ Fires(more, n) \in Nat
               /\ Fires(counts, n) <= Fires(more, n)
               /\ n \in InvalidationRegion(Edge(j).dst) => Fires(counts, n) + 1 <= Fires(more, n)
<1> DEFINE more == Bump(counts, Edge(j).dst)
<1>1. j \in LoopEdges /\ j \in Members(Edge(j).dst)
  BY MemberFacts DEF First
<1>2. /\ more \in Counters
      /\ \A e \in LoopEdges : /\ counts[e] \in Nat /\ counts[e] <= more[e]
                              /\ more[e] = IF e \in Members(Edge(j).dst) THEN counts[e] + 1 ELSE counts[e]
  BY BumpIs
<1>3. counts[j] + 1 <= more[j]
  BY <1>1, <1>2
<1> HIDE DEF more
<1>4. /\ Fires(counts, n) \in Nat /\ Fires(more, n) \in Nat
      /\ Fires(counts, n) <= Fires(more, n)
      /\ n \in InvalidationRegion(Edge(j).dst) => Fires(counts, n) + 1 <= Fires(more, n)
  BY <1>2, <1>3, FiresGrow
<1> QED BY <1>4 DEF more

Accs == [f : FrontierStates, counts : Counters, diverged : BOOLEAN]

\* The group d is closed, or exhausted, in acc.
Closes(acc, d, x) ==
    [acc EXCEPT !.f = [acc.f EXCEPT !.closed = @ \cup {<<d, acc.f.gen[d]>>}, !.exhausted = @ \cup x]]

(* What one turn of the loop over the groups does. *)
LEMMA EvaluateGroupIs ==
    ASSUME wf \in Workflows, NEW acc \in Accs, NEW d \in Destinations
    PROVE  LET r == EvaluateGroup(acc, d)
               f == acc.f
           IN  \/ r = acc /\ (acc.diverged \/ HasClosed(f, d) \/ ~AllTrue(f, d))
               \/ r = [acc EXCEPT !.diverged = TRUE]
               \/ /\ (\E e \in Members(d) : Arrived(f, e, FALSE)) \/ IsSpent(acc.counts, d)
                  /\ \E x \in SUBSET LoopEdges : r = Closes(acc, d, x)
               \/ /\ AllTrue(f, d) /\ ~IsSpent(acc.counts, d)
                  /\ r = [acc EXCEPT !.f = FireGroup(f, d), !.counts = Bump(acc.counts, d)]
<1> DEFINE f == acc.f
           key == <<d, f.gen[d]>>
           Arr(v) == {e \in Members(d) : <<e, f.gen[d], v>> \in f.arrivals}
           spent == Spent(acc.counts, Members(d))
           strict == {e \in spent : Edge(e).strict}
           r == EvaluateGroup(acc, d)
<1>1. \A v : Arr(v) = {e \in Members(d) : Arrived(f, e, v)}
  BY MemberFacts DEF Arrived
<1>2. acc.f \in FrontierStates /\ acc = [f |-> acc.f, counts |-> acc.counts, diverged |-> acc.diverged]
  BY DEF Accs
<1>3. spent \subseteq LoopEdges /\ (spent # {} <=> IsSpent(acc.counts, d))
  BY MemberFacts DEF Spent, IsSpent
<1>4. CASE acc.diverged \/ key \in f.closed \/ Arr(TRUE) \cup Arr(FALSE) # Members(d)
  <2>1. r = acc
    BY <1>4 DEF EvaluateGroup
  <2>2. key \in f.closed <=> HasClosed(f, d)
    BY DEF HasClosed
  <2>3. Arr(TRUE) \cup Arr(FALSE) # Members(d) => ~AllTrue(f, d)
    <3> HIDE DEF Arr
    <3> QED BY <1>1 DEF AllTrue
  <2> QED BY <1>4, <2>1, <2>2, <2>3
<1>5. CASE ~(acc.diverged \/ key \in f.closed \/ Arr(TRUE) \cup Arr(FALSE) # Members(d))
  <2>1. r = CASE Arr(FALSE) # {} -> [acc EXCEPT !.f.closed = @ \cup {key}]
               [] Arr(FALSE) = {} /\ strict # {} -> [acc EXCEPT !.diverged = TRUE]
               [] Arr(FALSE) = {} /\ strict = {} /\ spent # {} ->
                  [acc EXCEPT !.f.closed = @ \cup {key}, !.f.exhausted = @ \cup spent]
               [] OTHER ->
                  [acc EXCEPT !.f = FireGroup(f, d),
                              !.counts = [e \in DOMAIN @ |-> IF e \in Members(d) THEN @[e] + 1 ELSE @[e]]]
    BY <1>5 DEF EvaluateGroup
  <2>2. CASE Arr(FALSE) # {}
    <3>1. r = [acc EXCEPT !.f.closed = @ \cup {key}]
      BY <2>1, <2>2
    <3>2. acc.f.exhausted = acc.f.exhausted \cup {}
      OBVIOUS
    <3>4. [acc.f EXCEPT !.closed = @ \cup {key}]
             = [acc.f EXCEPT !.closed = @ \cup {key}, !.exhausted = @ \cup {}]
      BY <3>2, <1>2 DEF FrontierStates
    <3>5. r = Closes(acc, d, {})
      BY <3>1, <3>4 DEF Closes
    <3>3. \E e \in Members(d) : Arrived(f, e, FALSE)
      BY <2>2, <1>1
    <3> QED BY <3>3, <3>5
  <2>3. CASE Arr(FALSE) = {} /\ strict # {}
    BY <2>1, <2>3
  <2>4. CASE Arr(FALSE) = {} /\ strict = {} /\ spent # {}
    <3>1. r = [acc EXCEPT !.f.closed = @ \cup {key}, !.f.exhausted = @ \cup spent]
      BY <2>1, <2>4
    <3>2. r = Closes(acc, d, spent)
      <4> HIDE DEF spent, key, r
      <4> QED BY <3>1, <1>2 DEF Closes, FrontierStates, key, f
    <3>3. IsSpent(acc.counts, d)
      BY <2>4, <1>3
    <3> QED BY <3>2, <3>3, <1>3
  <2>5. CASE Arr(FALSE) = {} /\ strict = {} /\ spent = {}
    <3>1. r = [acc EXCEPT !.f = FireGroup(f, d), !.counts = Bump(acc.counts, d)]
      BY <2>1, <2>5 DEF Bump
    <3>2. AllTrue(f, d)
      <4>1. Arr(TRUE) = Members(d)
        BY <1>5, <2>5
      <4> HIDE DEF Arr
      <4> QED BY <4>1, <1>1 DEF AllTrue
    <3> QED BY <3>1, <3>2, <2>5, <1>3
  <2> QED BY <2>2, <2>3, <2>4, <2>5
<1> QED BY <1>4, <1>5

(* Closing a group, because a verdict is false or a bound spent, keeps a frontier good. *)
LEMMA ClosesGood ==
    ASSUME wf \in Workflows, NEW acc \in Accs, NEW d \in Destinations, NEW x \in SUBSET LoopEdges,
           NEW outs, Good(acc.f, outs, acc.counts),
           (\E e \in Members(d) : Arrived(acc.f, e, FALSE)) \/ IsSpent(acc.counts, d)
    PROVE  LET r == Closes(acc, d, x)
           IN  /\ r \in Accs /\ Good(r.f, outs, r.counts)
               /\ r.counts = acc.counts /\ r.diverged = acc.diverged
               /\ Completed(r.f) = Completed(acc.f) /\ r.f.running = acc.f.running
               /\ \A e, v : Arrived(r.f, e, v) <=> Arrived(acc.f, e, v)
<1> DEFINE f == acc.f
           key == <<d, f.gen[d]>>
           g == [f EXCEPT !.closed = @ \cup {key}, !.exhausted = @ \cup x]
           r == Closes(acc, d, x)
<1>1. f \in FrontierStates /\ acc.counts \in Counters /\ acc.diverged \in BOOLEAN
      /\ acc = [f |-> f, counts |-> acc.counts, diverged |-> acc.diverged]
  BY DEF Accs
<1>2. /\ g.gen = f.gen /\ g.reached = f.reached /\ g.running = f.running /\ g.completed = f.completed
      /\ g.enabled = f.enabled /\ g.isolated = f.isolated /\ g.arrivals = f.arrivals
      /\ g.closed = f.closed \cup {key} /\ g.decisions = f.decisions
  BY <1>1 DEF FrontierStates
<1>3. g \in FrontierStates
  <2>1. d \in Nodes /\ f.gen[d] \in Nat
    BY <1>1, GraphTypes, FieldTypes
  <2>2. f.closed \cup {key} \subseteq Nodes \X Nat
    BY <2>1, <1>1, FieldTypes
  <2>3. f.exhausted \cup x \subseteq LoopEdges
    BY <1>1, FieldTypes
  <2> HIDE DEF key, f
  <2> QED BY <1>1, <2>2, <2>3, FieldTypes DEF FrontierStates
<1>4. r = [f |-> g, counts |-> acc.counts, diverged |-> acc.diverged]
  BY <1>1 DEF Closes
<1>5. r \in Accs /\ r.f = g /\ r.counts = acc.counts /\ r.diverged = acc.diverged
  <2> HIDE DEF g
  <2> QED BY <1>1, <1>3, <1>4 DEF Accs
<1> HIDE DEF g
<1>6. /\ Completed(g) = Completed(f) /\ (Marked(f) => Marked(g))
      /\ \A n : Reached(g, n) <=> Reached(f, n)
      /\ \A e : Enabled(g, e) <=> Enabled(f, e)
      /\ \A e, v : Arrived(g, e, v) <=> Arrived(f, e, v)
      /\ \A e : Decided(g, e) = Decided(f, e)
  BY <1>2 DEF Completed, Marked, Reached, Enabled, Arrived, Decided
<1>7. \A c \in Nodes : HasClosed(g, c) <=> HasClosed(f, c) \/ c = d
  BY <1>2 DEF HasClosed
<1> HIDE DEF f
<1>8. /\ Sound(f, outs) /\ Reaches(f) /\ Arrivals(f) /\ ClosedRightly(f, acc.counts)
      /\ Exact(f, acc.counts) /\ Bounded(acc.counts)
  BY DEF Good, f
<1>9. Sound(g, outs)
  BY <1>2, <1>3, <1>6, <1>8 DEF Sound, DecisionsStand, EnabledStand, ArrivedInside
<1>10. Reaches(g)
  BY <1>2, <1>6, <1>8 DEF Reaches
<1>11. Arrivals(g)
  BY <1>6, <1>8 DEF Arrivals
<1>12. ClosedRightly(g, acc.counts)
  BY <1>6, <1>7, <1>8, GraphTypes DEF ClosedRightly, f
<1>13. Exact(g, acc.counts)
  BY <1>2, <1>6, <1>8 DEF Exact
<1> QED BY <1>2, <1>5, <1>6, <1>8, <1>9, <1>10, <1>11, <1>12, <1>13 DEF Good, f, r

GroupSettled(f, counts, d) == ~Overtaken(d) /\ AllTrue(f, d) => IsSpent(counts, d)

\* acc, when the groups up to edge k have been evaluated after the batch ns.
Between(acc, outs, ns, run, low, k) ==
    /\ acc \in Accs /\ Good(acc.f, outs, acc.counts)
    /\ Foremost(acc.f, ns) /\ FiresNow(acc.f, acc.counts, ns)
    /\ acc.f.running \subseteq run
    /\ \A n \in Nodes : low[n] <= Work(acc.f, acc.counts, n)
    /\ ~acc.diverged =>
          \A j \in Edges : j <= k /\ First(j) => GroupSettled(acc.f, acc.counts, Edge(j).dst)

(* One turn keeps all of that. *)
LEMMA TurnKeeps ==
    ASSUME wf \in Workflows, NEW acc, NEW outs, NEW ns \in SUBSET Nodes, NEW run, NEW low \in [Nodes -> Nat],
           NEW k \in Nat, k + 1 \in Edges, Between(acc, outs, ns, run, low, k)
    PROVE  Between(Turn(acc, k + 1), outs, ns, run, low, k + 1)
<1> DEFINE d == Edge(k + 1).dst
           r == EvaluateGroup(acc, d)
           f == acc.f
<1>1. /\ acc \in Accs /\ Good(acc.f, outs, acc.counts)
      /\ Foremost(acc.f, ns) /\ FiresNow(acc.f, acc.counts, ns)
      /\ acc.f.running \subseteq run
      /\ \A n \in Nodes : low[n] <= Work(acc.f, acc.counts, n)
      /\ ~acc.diverged =>
            \A j \in Edges : j <= k /\ First(j) => GroupSettled(acc.f, acc.counts, Edge(j).dst)
  BY DEF Between
<1>2. \A j \in Edges : j <= k + 1 => j <= k \/ j = k + 1
  BY GraphTypes
<1>3. CASE ~First(k + 1)
  <2>1. Turn(acc, k + 1) = acc
    BY <1>3 DEF Turn
  <2> QED BY <1>1, <1>2, <1>3, <2>1 DEF Between
<1>4. CASE First(k + 1)
  <2>1. Turn(acc, k + 1) = r
    BY <1>4 DEF Turn
  <2>2. d \in Destinations
    BY <1>4, MemberFacts DEF First
  <2>3. \/ r = acc /\ (acc.diverged \/ HasClosed(f, d) \/ ~AllTrue(f, d))
        \/ r = [acc EXCEPT !.diverged = TRUE]
        \/ /\ (\E e \in Members(d) : Arrived(f, e, FALSE)) \/ IsSpent(acc.counts, d)
           /\ \E x \in SUBSET LoopEdges : r = Closes(acc, d, x)
        \/ /\ AllTrue(f, d) /\ ~IsSpent(acc.counts, d)
           /\ r = [acc EXCEPT !.f = FireGroup(f, d), !.counts = Bump(acc.counts, d)]
    BY <1>1, <2>2, EvaluateGroupIs
  <2>4. Arrivals(f) /\ ClosedRightly(f, acc.counts) /\ acc.counts \in Counters /\ f \in FrontierStates
    BY <1>1 DEF Good, Accs
  <2>5. Members(d) \subseteq LoopEdges
    BY MemberFacts
  <2> HIDE DEF d, r
  <2>6. CASE r = acc /\ (acc.diverged \/ HasClosed(f, d) \/ ~AllTrue(f, d))
    <3>1. HasClosed(f, d) => GroupSettled(f, acc.counts, d)
      BY <2>2, <2>4, <2>5 DEF ClosedRightly, GroupSettled, AllTrue, Arrivals
    <3>2. acc.diverged \/ GroupSettled(f, acc.counts, d)
      BY <2>6, <3>1 DEF GroupSettled
    <3> QED BY <1>1, <1>2, <2>1, <2>6, <3>2 DEF Between, d
  <2>7. CASE r = [acc EXCEPT !.diverged = TRUE]
    <3>1. r \in Accs /\ r.f = acc.f /\ r.counts = acc.counts /\ r.diverged = TRUE
      BY <1>1, <2>7 DEF Accs
    <3> QED BY <1>1, <2>1, <3>1 DEF Between
  <2>8. CASE /\ (\E e \in Members(d) : Arrived(f, e, FALSE)) \/ IsSpent(acc.counts, d)
             /\ \E x \in SUBSET LoopEdges : r = Closes(acc, d, x)
    <3>1. /\ r \in Accs /\ Good(r.f, outs, r.counts)
          /\ r.counts = acc.counts /\ r.diverged = acc.diverged
          /\ Completed(r.f) = Completed(acc.f) /\ r.f.running = acc.f.running
          /\ \A e, v : Arrived(r.f, e, v) <=> Arrived(acc.f, e, v)
      <4>1. PICK x \in SUBSET LoopEdges : r = Closes(acc, d, x)
        BY <2>8
      <4>2. (\E e \in Members(d) : Arrived(acc.f, e, FALSE)) \/ IsSpent(acc.counts, d)
        BY <2>8
      <4>3. LET c == Closes(acc, d, x)
            IN  /\ c \in Accs /\ Good(c.f, outs, c.counts)
                /\ c.counts = acc.counts /\ c.diverged = acc.diverged
                /\ Completed(c.f) = Completed(acc.f) /\ c.f.running = acc.f.running
                /\ \A e, v : Arrived(c.f, e, v) <=> Arrived(acc.f, e, v)
        BY <1>1, <2>2, <4>2, ClosesGood
      <4> QED BY <4>1, <4>3
    <3>2. \A c : AllTrue(r.f, c) <=> AllTrue(acc.f, c)
      BY <3>1 DEF AllTrue
    <3>3. GroupSettled(r.f, r.counts, d)
      BY <2>4, <2>5, <2>8, <3>1, <3>2 DEF GroupSettled, AllTrue, Arrivals
    <3>4. Foremost(r.f, ns) /\ FiresNow(r.f, r.counts, ns)
      BY <1>1, <3>1, <3>2 DEF Foremost, FiresNow
    <3>5. \A n \in Nodes : low[n] <= Work(r.f, r.counts, n)
      BY <1>1, <3>1 DEF Work
    <3>6. ~r.diverged => \A j \in Edges : j <= k + 1 /\ First(j) => GroupSettled(r.f, r.counts, Edge(j).dst)
      BY <1>1, <1>2, <3>1, <3>2, <3>3 DEF GroupSettled, d
    <3> QED BY <1>1, <2>1, <3>1, <3>4, <3>5, <3>6 DEF Between
  <2>9. CASE /\ AllTrue(f, d) /\ ~IsSpent(acc.counts, d)
             /\ r = [acc EXCEPT !.f = FireGroup(f, d), !.counts = Bump(acc.counts, d)]
    <3> DEFINE g == FireGroup(f, d)
               more == Bump(acc.counts, d)
    <3>1. /\ Good(g, outs, more) /\ Foremost(g, ns) /\ FiresNow(g, more, ns)
          /\ Completed(g) = Completed(f) \ InvalidationRegion(d)
          /\ g.running \subseteq f.running
          /\ \A c \in Destinations : AllTrue(g, c) => c # d /\ AllTrue(f, c)
      BY <1>1, <2>2, <2>4, <2>9, FireGood
    <3>2. /\ more \in Counters
          /\ \A c \in Destinations : IsSpent(acc.counts, c) => IsSpent(more, c)
      BY <2>4, BumpIs
    <3>3. \A n : /\ Fires(acc.counts, n) \in Nat /\ Fires(more, n) \in Nat
                 /\ Fires(acc.counts, n) <= Fires(more, n)
                 /\ n \in InvalidationRegion(d) => Fires(acc.counts, n) + 1 <= Fires(more, n)
      BY <1>4, <2>4, FiresBump DEF d
    <3> HIDE DEF g, more
    <3>4. r \in Accs /\ r.f = g /\ r.counts = more /\ r.diverged = acc.diverged
      <4>1. g \in FrontierStates
        BY <3>1 DEF Good, Sound
      <4> QED BY <1>1, <2>9, <3>2, <4>1 DEF Accs, g, more
    <3>5. ASSUME NEW n \in Nodes PROVE low[n] <= Work(g, more, n)
      <4>1. low[n] \in Nat /\ low[n] <= Work(f, acc.counts, n)
        BY <1>1
      <4>2. Ones(n \in Completed(f)) \in {0, 1} /\ Ones(n \in Completed(g)) \in {0, 1}
        BY DEF Ones
      <4>3. n \notin InvalidationRegion(d) => Ones(n \in Completed(g)) = Ones(n \in Completed(f))
        BY <3>1 DEF Ones
      <4> QED BY <3>3, <4>1, <4>2, <4>3 DEF Work
    <3>6. ASSUME ~r.diverged, NEW j \in Edges, j <= k + 1, First(j)
          PROVE  GroupSettled(g, more, Edge(j).dst)
      <4>1. Edge(j).dst \in Destinations
        BY <3>6, MemberFacts DEF First
      <4>2. Edge(j).dst # d => GroupSettled(f, acc.counts, Edge(j).dst)
        BY <1>1, <1>2, <3>4, <3>6 DEF d
      <4> QED BY <3>1, <3>2, <4>1, <4>2 DEF GroupSettled
    <3> QED BY <1>1, <2>1, <3>1, <3>4, <3>5, <3>6 DEF Between
  <2> QED BY <2>3, <2>6, <2>7, <2>8, <2>9
<1> QED BY <1>3, <1>4

\* g evaluates the groups of the first m edges.
Evaluates(g, start, m) ==
    g = [k \in 0..m |-> IF k = 0 THEN start ELSE Turn(g[k - 1], k)]
Evaluable(start, m) == \E g : Evaluates(g, start, m)

(* A function that evaluates them is extended by one edge. *)
LEMMA EvaluatesMore ==
    ASSUME NEW start, NEW m \in Nat, m # 0, Evaluable(start, m - 1)
    PROVE  Evaluable(start, m)
<1>1. PICK g : Evaluates(g, start, m - 1)
  BY DEF Evaluable
<1> DEFINE last == Turn(g[m - 1], m)
           h == [k \in 0..m |-> IF k < m THEN g[k] ELSE last]
           F(k) == IF k = 0 THEN start ELSE Turn(h[k - 1], k)
<1>2. ASSUME NEW k \in 0..m, k < m PROVE h[k] = F(k)
  <2>1. h[k] = g[k] /\ k \in 0..(m - 1)
    BY <1>2
  <2>2. g[k] = IF k = 0 THEN start ELSE Turn(g[k - 1], k)
    BY <1>1, <2>1 DEF Evaluates
  <2>3. k # 0 => h[k - 1] = g[k - 1]
    BY <1>2
  <2> QED BY <2>1, <2>2, <2>3
<1>3. h[m] = F(m)
  <2>1. h[m - 1] = g[m - 1] /\ h[m] = last
    OBVIOUS
  <2> QED BY <2>1
<1>4. \A k \in 0..m : h[k] = F(k)
  BY <1>2, <1>3
<1>5. h = [k \in 0..m |-> F(k)]
  <2> HIDE DEF F, last
  <2> QED BY <1>4
<1>6. Evaluates(h, start, m)
  BY <1>5 DEF Evaluates
<1> QED
  <2> HIDE DEF h
  <2> QED BY <1>6 DEF Evaluable

(* So there is one for all the edges, and the groups are evaluated by it. *)
LEMMA EvaluateLoopGroupsIs ==
    ASSUME wf \in Workflows, NEW start
    PROVE  \E g : /\ EvaluateLoopGroups(start) = g[Len(wf.edges)] /\ g[0] = start
                  /\ \A k \in Edges : g[k] = Turn(g[k - 1], k)
<1> DEFINE m == Len(wf.edges)
           N == {k \in Nat : Evaluable(start, k)}
           P(g) == g = [k \in 0..m |-> IF k = 0 THEN start ELSE Turn(g[k - 1], k)]
           c == CHOOSE g : P(g)
           F(g, k) == IF k = 0 THEN start ELSE Turn(g[k - 1], k)
<1>1. 0 \in N
  <2>1. Evaluates([k \in 0..0 |-> start], start, 0)
    BY DEF Evaluates
  <2> QED BY <2>1 DEF Evaluable
<1>2. ASSUME NEW k \in N PROVE k + 1 \in N
  <2>1. k + 1 \in Nat /\ k + 1 # 0 /\ (k + 1) - 1 = k
    OBVIOUS
  <2>2. Evaluable(start, k + 1)
    BY <2>1, EvaluatesMore
  <2> QED BY <2>1, <2>2
<1>3. N \in SUBSET Nat
  OBVIOUS
<1>4. N = Nat
  <2> HIDE DEF N
  <2> QED BY <1>1, <1>2, <1>3, NatSets
<1>5. m \in Nat /\ Edges = 1..m
  BY GraphTypes
<1>6. PICK f : P(f)
  <2>1. PICK g : Evaluates(g, start, m)
    BY <1>4, <1>5 DEF Evaluable
  <2>2. P(g)
    BY <2>1 DEF Evaluates
  <2> HIDE DEF P
  <2> QED BY <2>2
<1>7. P(c)
  <2> HIDE DEF P
  <2> QED BY <1>6
<1>8. EvaluateLoopGroups(start) = c[m]
  BY DEF EvaluateLoopGroups
<1> HIDE DEF c
<1>9. c = [k \in 0..m |-> F(c, k)]
  BY <1>7
<1>10. \A k \in 0..m : c[k] = F(c, k)
  <2> HIDE DEF F
  <2> QED BY <1>9
<1>11. c[0] = start /\ \A k \in Edges : c[k] = Turn(c[k - 1], k)
  BY <1>5, <1>10
<1> QED BY <1>8, <1>11

(* The evaluation of all the groups. *)
LEMMA EvaluateKeeps ==
    ASSUME wf \in Workflows, NEW start, NEW outs, NEW ns \in SUBSET Nodes, NEW run, NEW low \in [Nodes -> Nat],
           Between(start, outs, ns, run, low, 0)
    PROVE  Between(EvaluateLoopGroups(start), outs, ns, run, low, Len(wf.edges))
<1> DEFINE m == Len(wf.edges)
<1>1. m \in Nat /\ Edges = 1..m
  BY GraphTypes
<1>2. PICK g : /\ EvaluateLoopGroups(start) = g[m] /\ g[0] = start
               /\ \A k \in Edges : g[k] = Turn(g[k - 1], k)
  BY EvaluateLoopGroupsIs
<1> DEFINE P == {k \in Nat : k <= m => Between(g[k], outs, ns, run, low, k)}
<1>3. 0 \in P
  BY <1>2
<1>4. ASSUME NEW k \in P PROVE k + 1 \in P
  <2> SUFFICES ASSUME k + 1 <= m PROVE Between(g[k + 1], outs, ns, run, low, k + 1)
    OBVIOUS
  <2>1. k \in Nat /\ k + 1 \in Edges /\ (k + 1) - 1 = k /\ k <= m
    BY <1>1
  <2>2. Between(g[k], outs, ns, run, low, k)
    BY <2>1
  <2>3. g[k + 1] = Turn(g[k], k + 1)
    BY <1>2, <2>1
  <2>4. Between(Turn(g[k], k + 1), outs, ns, run, low, k + 1)
    BY <2>1, <2>2, TurnKeeps
  <2> QED BY <2>3, <2>4
<1>5. P \in SUBSET Nat
  OBVIOUS
<1>6. P = Nat
  <2> HIDE DEF P
  <2> QED BY <1>3, <1>4, <1>5, NatSets
<1> QED BY <1>1, <1>2, <1>6

(* Leases alone do not matter to a good frontier. *)
LEMMA RunningGood ==
    ASSUME wf \in Workflows, NEW f, NEW outs, NEW counts, Good(f, outs, counts),
           NEW run \in SUBSET (Nodes \X Nat)
    PROVE  LET g == [f EXCEPT !.running = run]
           IN  /\ Good(g, outs, counts) /\ (GroupsSettled(f, counts) => GroupsSettled(g, counts))
               /\ Completed(g) = Completed(f) /\ g.running = run /\ g.gen = f.gen
               /\ g.reached = f.reached /\ g.isolated = f.isolated /\ g.enabled = f.enabled
<1> DEFINE g == [f EXCEPT !.running = run]
<1>1. f \in FrontierStates
  BY DEF Good, Sound
<1>2. /\ g.gen = f.gen /\ g.reached = f.reached /\ g.running = run /\ g.completed = f.completed
      /\ g.enabled = f.enabled /\ g.isolated = f.isolated /\ g.arrivals = f.arrivals
      /\ g.closed = f.closed /\ g.decisions = f.decisions
  BY <1>1 DEF FrontierStates
<1>3. g \in FrontierStates
  BY <1>1, FieldTypes DEF FrontierStates
<1> HIDE DEF g
<1>4. /\ Completed(g) = Completed(f) /\ (Marked(f) => Marked(g))
      /\ \A n : Reached(g, n) <=> Reached(f, n)
      /\ \A e : Enabled(g, e) <=> Enabled(f, e)
      /\ \A e, v : Arrived(g, e, v) <=> Arrived(f, e, v)
      /\ \A d : HasClosed(g, d) <=> HasClosed(f, d)
      /\ \A e : Decided(g, e) = Decided(f, e)
  BY <1>2 DEF Completed, Marked, Reached, Enabled, Arrived, Decided, HasClosed
<1>5. /\ Sound(f, outs) /\ Reaches(f) /\ Arrivals(f) /\ ClosedRightly(f, counts)
      /\ Exact(f, counts) /\ Bounded(counts)
  BY DEF Good
<1>6. Sound(g, outs)
  BY <1>2, <1>3, <1>4, <1>5 DEF Sound, DecisionsStand, EnabledStand, ArrivedInside
<1>7. Reaches(g)
  BY <1>2, <1>4, <1>5 DEF Reaches
<1>8. Arrivals(g)
  BY <1>4, <1>5 DEF Arrivals
<1>9. ClosedRightly(g, counts)
  BY <1>4, <1>5 DEF ClosedRightly
<1>10. Exact(g, counts)
  BY <1>2, <1>4, <1>5 DEF Exact
<1>11. GroupsSettled(f, counts) => GroupsSettled(g, counts)
  BY <1>4 DEF GroupsSettled, AllTrue
<1> QED BY <1>2, <1>4, <1>5, <1>6, <1>7, <1>8, <1>9, <1>10, <1>11 DEF Good, g

(* A batch that may run is completed: the frontier is good for the new outputs, nothing *)
(* that was counted is lost, and unless a strict loop diverged no group is left to fire. *)
LEMMA CompleteBatchKeeps ==
    ASSUME wf \in Workflows, NEW f, NEW outs, NEW counts \in Counters,
           Good(f, outs, counts), GroupsSettled(f, counts),
           NEW ns \in SUBSET Nodes, Startable(f, ns),
           NEW new, \A n \in Nodes \ ns : new[n] = outs[n],
           NEW verdicts, \A n \in Nodes : verdicts[n] = Verdicts(new, n),
           NEW low \in [Nodes -> Nat],
           \A n \in Nodes : low[n] <= Ones(n \in Completed(f) \cup ns) + Fires(counts, n)
    PROVE  LET b == CompleteBatch(f, counts, ns, verdicts)
           IN  /\ Good(b.f, new, b.counts) /\ b.counts \in Counters /\ b.diverged \in BOOLEAN
               /\ b.f.running \subseteq f.running \ {<<n, f.gen[n]>> : n \in ns}
               /\ \A n \in Nodes : low[n] <= Work(b.f, b.counts, n)
               /\ ~b.diverged => GroupsSettled(b.f, b.counts)
<1> DEFINE run == f.running \ {<<n, f.gen[n]>> : n \in ns}
           g == [f EXCEPT !.running = run]
           h == Commit(g, ns, verdicts)
           start == [f |-> h, counts |-> counts, diverged |-> FALSE]
           b == EvaluateLoopGroups(start)
<1>1. f \in FrontierStates
  BY DEF Good, Sound
<1>2. run \in SUBSET (Nodes \X Nat)
  BY <1>1, FieldTypes
<1>3. CompleteBatch(f, counts, ns, verdicts) = b
  BY DEF CompleteBatch
<1> HIDE DEF run
<1>4. /\ Good(g, outs, counts) /\ GroupsSettled(g, counts) /\ Completed(g) = Completed(f) /\ g.running = run
  BY <1>2, RunningGood
<1> HIDE DEF g
<1>5. g \in FrontierStates
  BY <1>4 DEF Good, Sound
<1>6. Startable(g, ns)
  BY <1>4 DEF Startable
<1>7. Good(h, new, counts) /\ Foremost(h, ns) /\ FiresNow(h, counts, ns)
  BY <1>4, <1>6, CommitGood
<1>8. Completed(h) = Completed(f) \cup ns /\ h.running = run /\ h \in FrontierStates
  <2>1. Committed(g, h, ns, new)
    BY <1>5, CommitIs
  <2> HIDE DEF h
  <2> QED BY <2>1, <1>4 DEF Committed
<1> HIDE DEF h
<1>9. start \in Accs /\ start.f = h /\ start.counts = counts
  BY <1>8 DEF Accs
<1>10. \A j \in Edges : j <= 0 => FALSE
  BY GraphTypes
<1>11. \A n \in Nodes : low[n] <= Work(h, counts, n)
  BY <1>8 DEF Work
<1> HIDE DEF start
<1>12. Between(start, new, ns, run, low, 0)
  BY <1>7, <1>8, <1>9, <1>10, <1>11 DEF Between
<1>13. Between(b, new, ns, run, low, Len(wf.edges))
  BY <1>12, EvaluateKeeps
<1> HIDE DEF b
<1>14. ASSUME ~b.diverged PROVE GroupsSettled(b.f, b.counts)
  <2> SUFFICES ASSUME NEW d \in Destinations PROVE GroupSettled(b.f, b.counts, d)
    BY DEF GroupsSettled, GroupSettled
  <2>1. PICK k \in Edges : First(k) /\ Edge(k).dst = d
    BY FirstMember
  <2>2. k <= Len(wf.edges)
    BY GraphTypes
  <2> QED BY <1>13, <1>14, <2>1, <2>2 DEF Between
<1> QED BY <1>3, <1>13, <1>14 DEF Between, Accs, run

(* A new frontier is good when no loop around the workflow has fired out of nothing. *)
LEMMA NewGood ==
    ASSUME wf \in Workflows, NEW outs, NEW counts, Bounded(counts),
           \A d \in Destinations : Fired(counts, d) => CanStart(d) /\ (~Nested(d) => ForwardPredecessors(d) = {})
    PROVE  Good(NewFrontier({}), outs, counts) /\ GroupsSettled(NewFrontier({}), counts)
<1> DEFINE f == NewFrontier({})
<1>1. /\ f \in FrontierStates /\ Marked(f) /\ Completed(f) = {} /\ f.isolated = {} /\ f.running = {}
      /\ f.decisions = [n \in Nodes |-> {}]
      /\ \A n : Reached(f, n) <=> n \in Entries
      /\ \A e : ~Enabled(f, e)
      /\ \A e, v : ~Arrived(f, e, v)
      /\ \A d : ~HasClosed(f, d)
  BY NewFrontierIs
<1> HIDE DEF f
<1>2. \A e : ~Decided(f, e)
  BY <1>1 DEF Decided
<1>3. Sound(f, outs)
  BY <1>1, <1>2 DEF Sound, Grounded, DecisionsStand, EnabledStand, ArrivedInside
<1>4. Reaches(f)
  BY <1>1, <1>2 DEF Reaches
<1>5. Arrivals(f)
  BY <1>1 DEF Arrivals
<1>6. ClosedRightly(f, counts)
  BY <1>1 DEF ClosedRightly
<1>7. Exact(f, counts)
  <2>1. ASSUME NEW d \in Destinations, Fired(counts, d), ~Nested(d)
        PROVE  ForwardPredecessors(d) \subseteq Completed(f) /\ Reached(f, d)
    <3>1. ForwardPredecessors(d) = {} /\ CanStart(d)
      BY <2>1
    <3> QED BY <3>1, <1>1 DEF CanStart
  <2> QED BY <2>1, <1>1, <1>2 DEF Exact
<1>8. GroupsSettled(f, counts)
  <2>1. \A d \in Destinations : Members(d) # {}
    BY MemberFacts
  <2> QED BY <1>1, <2>1 DEF GroupsSettled, AllTrue
<1> QED BY <1>3, <1>4, <1>5, <1>6, <1>7, <1>8 DEF Good, f

(* What a resume rebuilds from what was saved of a good frontier is good. *)
LEMMA RestoredGood ==
    ASSUME wf \in Workflows, NEW s, NEW snap \in Checkpoints, snap.completed = Completed(s),
           Good(s, snap.outputs, snap.loop_counters), GroupsSettled(s, snap.loop_counters)
    PROVE  LET f == Restored(snap)
           IN  /\ Good(f, snap.outputs, snap.loop_counters) /\ GroupsSettled(f, snap.loop_counters)
               /\ Completed(f) = snap.completed /\ f.isolated = {} /\ f.running = {}
<1> DEFINE C == snap.completed
           outs == snap.outputs
           counts == snap.loop_counters
<1>1. /\ Sound(s, outs) /\ Arrivals(s) /\ Exact(s, counts) /\ Bounded(counts)
      /\ Grounded(C) /\ DecisionsStand(s, outs) /\ C \in SUBSET Nodes
  BY DEF Good, Sound, Checkpoints
<1>2. CASE C = {}
  <2>1. Restored(snap) = NewFrontier({})
    BY <1>2 DEF Restored
  <2>2. \A d \in Destinations : Fired(counts, d) => CanStart(d) /\ (~Nested(d) => ForwardPredecessors(d) = {})
    BY <1>1, <1>2 DEF Exact
  <2>3. LET f == NewFrontier({}) IN Completed(f) = {} /\ f.isolated = {} /\ f.running = {}
    BY NewFrontierIs
  <2> QED BY <2>1, <2>2, <2>3, <1>1, <1>2, NewGood
<1>3. CASE C # {}
  <2> DEFINE f0 == NewFrontier(C)
             verdicts == [n \in Nodes |-> Verdicts(outs, n)]
             f1 == Commit(f0, C, verdicts)
             f == RestoreLoopActivations(f1, counts)
             D == {d \in Destinations : d \notin Completed(f1) /\ Fired(counts, d)}
  <2>1. Restored(snap) = f
    BY <1>3 DEF Restored, ReplayCompleted
  <2>2. /\ f0 \in FrontierStates /\ Marked(f0) /\ Completed(f0) = C /\ f0.isolated = {} /\ f0.running = {}
        /\ f0.decisions = [n \in Nodes |-> {}]
        /\ \A n : Reached(f0, n) <=> n \in Entries \ C
        /\ \A e : ~Enabled(f0, e)
        /\ \A e, v : ~Arrived(f0, e, v)
        /\ \A d : ~HasClosed(f0, d)
    BY <1>1, NewFrontierIs
  <2> HIDE DEF f0
  <2>3. \A n \in Nodes : verdicts[n] = Verdicts(outs, n)
    OBVIOUS
  <2> HIDE DEF verdicts
  <2>4. Committed(f0, f1, C, outs)
    BY <1>1, <2>2, <2>3, CommitIs
  <2> HIDE DEF f1
  <2>5. /\ f1 \in FrontierStates /\ Completed(f1) = C /\ Marked(f1) /\ f1.isolated = {} /\ f1.running = {}
        /\ \A n \in Nodes : f1.decisions[n] = IF n \in C THEN Verdicts(outs, n) ELSE {}
        /\ \A n : Reached(f1, n) <=> n \in Entries \ C \/ \E e \in ForwardEdges : Edge(e).dst = n /\ DecidesIn(C, outs, e)
        /\ \A e : Enabled(f1, e) <=> e \in ForwardEdges /\ DecidesIn(C, outs, e)
        /\ \A e \in LoopEdges, v \in BOOLEAN :
              Arrived(f1, e, v) <=> Edge(e).src \in C /\ (v <=> DecidesIn(C, outs, e))
        /\ \A d : ~HasClosed(f1, d)
    BY <2>2, <2>4 DEF Committed
  <2>6. /\ f \in FrontierStates /\ Completed(f) = C /\ Marked(f)
        /\ f.decisions = f1.decisions /\ f.isolated = {} /\ f.running = {}
        /\ \A n : Reached(f, n) <=> Reached(f1, n) \/ n \in D
        /\ \A e \in Edges : Enabled(f, e) <=> IF Edge(e).dst \in D THEN e \in LoopEdges ELSE Enabled(f1, e)
        /\ \A e, v : Arrived(f, e, v) <=> Arrived(f1, e, v)
        /\ \A d : HasClosed(f, d) <=> HasClosed(f1, d)
    BY <2>5, RestoreLoopActivationsIs
  <2> HIDE DEF f
  <2>7. /\ \A e \in Edges : Edge(e).src \in Nodes /\ Edge(e).dst \in Nodes
        /\ LoopEdges \subseteq Edges /\ ForwardEdges \subseteq Edges
    BY GraphTypes
  <2>8. \A d : d \in D <=> d \in Destinations /\ d \notin C /\ Fired(counts, d)
    BY <2>5
  <2> HIDE DEF D
  <2>9. \A e \in Edges : Decided(f, e) <=> DecidesIn(C, outs, e)
    BY <2>5, <2>6, <2>7 DEF Decided, DecidesIn
  <2>10. /\ \A d : Members(d) \subseteq LoopEdges /\ \A e \in Members(d) : Edge(e).dst = d
         /\ \A d \in Destinations : Members(d) # {}
    BY MemberFacts
  <2>11. Sound(f, outs)
    <3>1. DecisionsStand(f, outs)
      BY <1>1, <2>5, <2>6 DEF DecisionsStand
    <3>2. EnabledStand(f)
      BY <2>5, <2>6, <2>7, <2>9 DEF EnabledStand, ForwardEdges
    <3>3. ArrivedInside(f)
      <4>1. \A e \in LoopEdges : Edge(e).src \in C => Edge(e).dst \in C
        BY <1>1, UnfinishedClosed
      <4>2. \A e \in LoopEdges, v \in BOOLEAN : Arrived(f, e, v) => Edge(e).src \in C
        BY <2>5, <2>6
      <4> QED BY <4>1, <4>2, <2>6 DEF ArrivedInside
    <3> QED BY <1>1, <2>6, <3>1, <3>2, <3>3 DEF Sound
  <2>12. Reaches(f)
    BY <2>5, <2>6, <2>7, <2>9 DEF Reaches
  <2>13. Arrivals(f)
    <3> SUFFICES ASSUME NEW e \in LoopEdges
                 PROVE  /\ ~(Arrived(f, e, TRUE) /\ Arrived(f, e, FALSE))
                        /\ Edge(e).src \in Completed(f) => Arrived(f, e, Decided(f, e))
                        /\ (Arrived(f, e, TRUE) \/ Arrived(f, e, FALSE)) => Edge(e).src \in Completed(f)
      BY DEF Arrivals
    <3>1. \A v \in BOOLEAN : Arrived(f, e, v) <=> Edge(e).src \in C /\ (v <=> DecidesIn(C, outs, e))
      BY <2>5, <2>6
    <3>2. Decided(f, e) \in BOOLEAN /\ (Decided(f, e) <=> DecidesIn(C, outs, e))
      BY <2>7, <2>9 DEF Decided
    <3> QED BY <2>6, <3>1, <3>2
  <2>14. ClosedRightly(f, counts)
    BY <2>5, <2>6 DEF ClosedRightly
  <2>15. Exact(f, counts)
    <3>1. \A e \in ForwardEdges :
             Decided(f, e) /\ Edge(e).dst \notin Completed(f) \cup Destinations => Enabled(f, e)
      BY <2>5, <2>6, <2>7, <2>8, <2>9
    <3>2. ASSUME NEW n \in Nodes, Reached(f, n), n \notin Entries
          PROVE  \E e \in Edges : Edge(e).dst = n /\ Enabled(f, e)
      <4>1. CASE n \in D
        BY <4>1, <2>6, <2>7, <2>8, <2>10
      <4>2. CASE n \notin D
        BY <3>2, <4>2, <2>5, <2>6, <2>7
      <4> QED BY <4>1, <4>2
    <3>3. \A e \in LoopEdges : Enabled(f, e) => Fired(counts, Edge(e).dst)
      BY <2>5, <2>6, <2>7, <2>8 DEF ForwardEdges
    <3>4. \A n \in Completed(f) : CanStart(n)
      BY <1>1, <2>6 DEF Exact
    <3>5. ASSUME NEW d \in Destinations, Fired(counts, d)
          PROVE  /\ CanStart(d)
                 /\ ~Nested(d) => /\ ForwardPredecessors(d) \subseteq Completed(f)
                                  /\ d \notin Completed(f) \cup f.isolated => Reached(f, d)
      BY <3>5, <1>1, <2>6, <2>8 DEF Exact
    <3> QED BY <3>1, <3>2, <3>3, <3>4, <3>5 DEF Exact
  <2>16. GroupsSettled(f, counts)
    <3> SUFFICES ASSUME NEW d \in Destinations, ~Overtaken(d), AllTrue(f, d) PROVE IsSpent(counts, d)
      BY DEF GroupsSettled
    <3>1. ASSUME NEW e \in Members(d) PROVE Arrived(s, e, TRUE)
      <4>1. e \in LoopEdges /\ Arrived(f, e, TRUE)
        BY <2>10 DEF AllTrue
      <4>2. Edge(e).src \in C /\ DecidesIn(C, outs, e)
        BY <4>1, <2>5, <2>6
      <4>3. Decided(s, e) = TRUE
        BY <4>2, <1>1 DEF Decided, DecidesIn, DecisionsStand
      <4> QED BY <4>1, <4>2, <4>3, <1>1 DEF Arrivals
    <3> QED BY <3>1 DEF GroupsSettled, AllTrue
  <2> QED BY <1>1, <2>1, <2>6, <2>11, <2>12, <2>13, <2>14, <2>15, <2>16 DEF Good
<1> QED BY <1>2, <1>3

-----------------------------------------------------------------------------
(* The workflow does not change, so what is said of values reads the same  *)
(* in the next state.                                                      *)

LEMMA GraphFrame ==
    ASSUME wf' = wf
    PROVE  /\ Nodes' = Nodes /\ Edges' = Edges /\ LoopEdges' = LoopEdges /\ ForwardEdges' = ForwardEdges
           /\ Destinations' = Destinations /\ Entries' = Entries
           /\ \A e : Edge(e)' = Edge(e)
           /\ \A n : ForwardPredecessors(n)' = ForwardPredecessors(n) /\ Outgoing(n)' = Outgoing(n)
           /\ \A d : Members(d)' = Members(d)
           /\ \A k : First(k)' = First(k)
<1>1. Nodes' = Nodes /\ Edges' = Edges /\ \A e : Edge(e)' = Edge(e)
  BY DEF Nodes, Edges, Edge
<1>2. LoopEdges' = LoopEdges
  BY <1>1 DEF LoopEdges
<1>3. ForwardEdges' = ForwardEdges /\ Destinations' = Destinations
  BY <1>1, <1>2 DEF ForwardEdges, Destinations
<1>4. \A n : ForwardPredecessors(n)' = ForwardPredecessors(n) /\ Outgoing(n)' = Outgoing(n)
  BY <1>1, <1>3 DEF ForwardPredecessors, Outgoing
<1>5. Entries' = Entries
  BY <1>1, <1>4 DEF Entries
<1>6. \A d : Members(d)' = Members(d)
  BY <1>1, <1>2 DEF Members
<1>7. \A k : First(k)' = First(k)
  BY <1>1, <1>2, <1>6 DEF First
<1> QED BY <1>1, <1>2, <1>3, <1>4, <1>5, <1>6, <1>7

LEMMA RegionFrame ==
    ASSUME wf' = wf
    PROVE  /\ \A ns : Closure(ns)' = Closure(ns)
           /\ \A d : InvalidationRegion(d)' = InvalidationRegion(d)
           /\ \A d : LoopBoundaryEdges(d)' = LoopBoundaryEdges(d)
           /\ \A e : Lags(e)' = Lags(e)
           /\ \A d : Nested(d)' = Nested(d) /\ Overtaken(d)' = Overtaken(d)
           /\ \A n : CanStart(n)' = CanStart(n)
           /\ Stuck' = Stuck
<1>1. \A S : Closed(S)' = Closed(S)
  BY GraphFrame DEF Closed
<1>2. \A ns : Closure(ns)' = Closure(ns)
  BY <1>1, GraphFrame DEF Closure
<1>3. \A d : InvalidationRegion(d)' = InvalidationRegion(d)
  BY <1>2 DEF InvalidationRegion
<1>4. \A d : LoopBoundaryEdges(d)' = LoopBoundaryEdges(d)
  BY <1>3, GraphFrame DEF LoopBoundaryEdges
<1>5. \A e : Lags(e)' = Lags(e)
  BY <1>2, <1>3, <1>4, GraphFrame DEF Lags
<1>6. \A d : Nested(d)' = Nested(d)
  BY <1>3, GraphFrame DEF Nested
<1>7. \A d : Inner(d)' = Inner(d)
  BY <1>3, GraphFrame DEF Inner
<1>8. ASSUME NEW o, NEW d PROVE Precedes(o, d)' = Precedes(o, d)
  <2>1. InvalidationRegion(o)' = InvalidationRegion(o)
    BY <1>3
  <2>2. Members(o)' = Members(o) /\ Members(d)' = Members(d)
    BY GraphFrame
  <2>3. \A e : Edge(e)' = Edge(e)
    BY GraphFrame
  <2>4. \A x : Closure({Edge(x).src})' = Closure({Edge(x).src})
    BY <1>2, <2>3
  <2> QED BY <2>1, <2>2, <2>3, <2>4 DEF Precedes
<1>9. \A d : Overtaken(d)' = Overtaken(d)
  BY <1>7, <1>8, GraphFrame DEF Overtaken
<1>10. \A n : CanStart(n)' = CanStart(n)
  BY GraphFrame DEF CanStart
<1>11. Stuck' = Stuck
  BY GraphFrame DEF Stuck
<1> QED BY <1>2, <1>3, <1>4, <1>5, <1>6, <1>9, <1>10, <1>11

LEMMA FiresFrame ==
    ASSUME wf' = wf, NEW counts, NEW n
    PROVE  Fires(counts, n)' = Fires(counts, n)
<1> DEFINE m == Len(wf.edges)
           P(g) == g = [k \in 0..m |-> IF k = 0 THEN 0 ELSE g[k - 1] + FiresOf(counts, n, k)]
           Q(g) == g = [k \in 0..Len(wf.edges)' |-> IF k = 0 THEN 0 ELSE g[k - 1] + FiresOf(counts, n, k)']
<1>1. \A k : FiresOf(counts, n, k)' = FiresOf(counts, n, k)
  BY GraphFrame, RegionFrame DEF FiresOf
<1>2. Len(wf.edges)' = m
  OBVIOUS
<1>3. \A g : P(g) <=> Q(g)
  BY <1>1, <1>2
<1>4. (CHOOSE g : P(g)) = (CHOOSE g : Q(g))
  <2> HIDE DEF P, Q
  <2> QED BY <1>3
<1>5. Fires(counts, n) = (CHOOSE g : P(g))[m]
  BY DEF Fires
<1>6. Fires(counts, n)' = (CHOOSE g : Q(g))[m]
  BY <1>2 DEF Fires
<1> QED BY <1>4, <1>5, <1>6

LEMMA GoodFrame ==
    ASSUME wf' = wf, NEW f, NEW outs, NEW counts
    PROVE  /\ Good(f, outs, counts)' = Good(f, outs, counts)
           /\ GroupsSettled(f, counts)' = GroupsSettled(f, counts)
           /\ Completed(f)' = Completed(f)
<1>1. Completed(f)' = Completed(f)
  BY GraphFrame DEF Completed
<1>2. /\ \A n : Reached(f, n)' = Reached(f, n)
      /\ \A e : Enabled(f, e)' = Enabled(f, e)
      /\ \A e, v : Arrived(f, e, v)' = Arrived(f, e, v)
      /\ \A d : HasClosed(f, d)' = HasClosed(f, d)
      /\ \A e : Decided(f, e)' = Decided(f, e)
  BY <1>1, GraphFrame DEF Reached, Enabled, Arrived, HasClosed, Decided
<1>3. FrontierStates' = FrontierStates
  BY GraphFrame DEF FrontierStates
<1>4. Sound(f, outs)' = Sound(f, outs)
  <2>1. Grounded(Completed(f))' = Grounded(Completed(f))
    BY <1>1, GraphFrame DEF Grounded
  <2>2. Marked(f)' = Marked(f)
    BY GraphFrame DEF Marked
  <2>3. \A n : Verdicts(outs, n)' = Verdicts(outs, n)
    BY GraphFrame DEF Verdicts
  <2>4. DecisionsStand(f, outs)' = DecisionsStand(f, outs)
    BY <1>1, <2>3, GraphFrame, RegionFrame DEF DecisionsStand
  <2>5. EnabledStand(f)' = EnabledStand(f) /\ ArrivedInside(f)' = ArrivedInside(f)
    BY <1>1, <1>2, GraphFrame, RegionFrame DEF EnabledStand, ArrivedInside
  <2> QED BY <1>3, <2>1, <2>2, <2>4, <2>5 DEF Sound
<1>5. Reaches(f)' = Reaches(f)
  BY <1>1, <1>2, GraphFrame DEF Reaches
<1>6. Arrivals(f)' = Arrivals(f)
  <2>1. \A e : Arrived(f, e, Decided(f, e))' = Arrived(f, e, Decided(f, e))
    BY <1>2, GraphFrame DEF Arrived
  <2> QED BY <1>1, <1>2, <2>1, GraphFrame, RegionFrame DEF Arrivals
<1>7. \A d : IsSpent(counts, d)' = IsSpent(counts, d) /\ Fired(counts, d)' = Fired(counts, d)
  BY GraphFrame DEF IsSpent, Spent, Fired
<1>8. \A d : AllTrue(f, d)' = AllTrue(f, d)
  <2> TAKE d
  <2>1. Members(d)' = Members(d) /\ \A e : Edge(e)' = Edge(e)
    BY GraphFrame
  <2>2. AllTrue(f, d)' <=> AllTrue(f, d)
    BY ONLY <2>1 DEF AllTrue, Arrived
  <2> QED BY <2>2 DEF AllTrue
<1>9. ClosedRightly(f, counts)' = ClosedRightly(f, counts)
  <2>1. \A d : (\E e \in Members(d) : Arrived(f, e, FALSE))' = \E e \in Members(d) : Arrived(f, e, FALSE)
    BY GraphFrame DEF Arrived
  <2> QED BY <1>2, <1>7, <2>1, GraphFrame, RegionFrame DEF ClosedRightly
<1>10. Exact(f, counts)' = Exact(f, counts)
  BY <1>1, <1>2, <1>7, GraphFrame, RegionFrame DEF Exact
<1>11. Bounded(counts)' = Bounded(counts)
  BY GraphFrame DEF Bounded
<1>12. GroupsSettled(f, counts)' = GroupsSettled(f, counts)
  BY <1>7, <1>8, GraphFrame, RegionFrame DEF GroupsSettled
<1> QED BY <1>1, <1>4, <1>5, <1>6, <1>9, <1>10, <1>11, <1>12 DEF Good

LEMMA InvariantFrame ==
    ASSUME wf' = wf, NEW f, NEW outs, NEW counts, NEW wv, NEW st, NEW snap, NEW s, NEW done,
           Invariant(f, outs, counts, wv, st, snap, s, done)
    PROVE  Invariant(f, outs, counts, wv, st, snap, s, done)'
<1>1. Counters' = Counters
  BY GraphFrame DEF Counters
<1>2. TypeInv(outs, counts, st, done)' = TypeInv(outs, counts, st, done)
  BY <1>1, GraphFrame DEF TypeInv
<1>3. FrontierInv(f, outs, counts, st)' = FrontierInv(f, outs, counts, st)
  BY GoodFrame DEF FrontierInv
<1>4. Startable(f, DOMAIN wv)' = Startable(f, DOMAIN wv)
  BY GraphFrame, GoodFrame, RegionFrame DEF Startable
<1>5. \A n : EnabledEdges(f, n)' = EnabledEdges(f, n)
  BY GraphFrame DEF EnabledEdges
<1>6. Ready(f)' = Ready(f)
  BY GraphFrame DEF Ready, Current
<1>7. WaveInv(f, wv, st)' = WaveInv(f, wv, st)
  BY <1>4, <1>5, <1>6 DEF WaveInv
<1>8. Checkpoints' = Checkpoints
  BY <1>1, GraphFrame DEF Checkpoints
<1>9. \A c, n : Work(s, c, n)' = Work(s, c, n)
  BY GoodFrame, FiresFrame DEF Work, Ones
<1>10. DiskInv(snap, s, done)' = DiskInv(snap, s, done)
  BY <1>8, <1>9, GraphFrame, GoodFrame DEF DiskInv, NoCheckpoint
<1>11. FileInv(f, counts, st, snap)' = FileInv(f, counts, st, snap)
  BY GraphFrame, GoodFrame DEF FileInv, NoCheckpoint
<1>12. StuckInv(f, st, snap)' = StuckInv(f, st, snap)
  BY GraphFrame, GoodFrame, RegionFrame DEF StuckInv, Reached, NoCheckpoint
<1> QED BY <1>2, <1>3, <1>7, <1>10, <1>11, <1>12 DEF Invariant

(* So the invariant of the next values, read in this state, is the invariant of the next state. *)
LEMMA NextInvariant ==
    ASSUME wf \in Workflows, wf' = wf,
           Invariant(frontier', outputs', loop_counters', wave', status', disk', saved', settled')
    PROVE  IInv'
<1> SUFFICES ASSUME NEW f, NEW outs, NEW counts, NEW wv, NEW st, NEW snap, NEW s, NEW done,
                    f = frontier', outs = outputs', counts = loop_counters', wv = wave', st = status',
                    snap = disk', s = saved', done = settled'
             PROVE  Invariant(f, outs, counts, wv, st, snap, s, done)'
  BY DEF IInv
<1>1. Invariant(f, outs, counts, wv, st, snap, s, done)
  OBVIOUS
<1> QED BY <1>1, InvariantFrame

(* The invariant of the values of the variables. *)
LEMMA PresentInvariant ==
    ASSUME IInv
    PROVE  /\ wf \in Workflows
           /\ TypeInv(outputs, loop_counters, status, settled)
           /\ FrontierInv(frontier, outputs, loop_counters, status)
           /\ WaveInv(frontier, wave, status)
           /\ DiskInv(disk, saved, settled)
           /\ FileInv(frontier, loop_counters, status, disk)
           /\ StuckInv(frontier, status, disk)
<1>1. Invariant(frontier, outputs, loop_counters, wave, status, disk, saved, settled)
  BY DEF IInv
<1> QED BY <1>1 DEF IInv, Invariant

-----------------------------------------------------------------------------
(* Every step keeps the invariant.                                         *)

LEMMA FiresNat ==
    ASSUME wf \in Workflows, NEW counts \in Counters, NEW n
    PROVE  Fires(counts, n) \in Nat
BY FiresGrow DEF Counters

(* A new run. *)
LEMMA FreshGood ==
    ASSUME wf \in Workflows, NEW outs, NEW counts, counts = [e \in LoopEdges |-> 0]
    PROVE  /\ Good(NewFrontier({}), outs, counts) /\ GroupsSettled(NewFrontier({}), counts)
           /\ counts \in Counters
<1>1. counts \in Counters /\ \A e \in LoopEdges : counts[e] = 0 /\ Edge(e).max \in Nat
  BY GraphTypes DEF Counters
<1>2. \A d \in Destinations : ~Fired(counts, d)
  BY <1>1, MemberFacts DEF Fired
<1>3. Bounded(counts)
  BY <1>1 DEF Bounded
<1> QED BY <1>1, <1>2, <1>3, NewGood

(* ... and its invariant. *)
LEMMA FreshInvariant ==
    ASSUME wf \in Workflows, NEW f, f = NewFrontier({}), NEW outs, outs = [n \in Nodes |-> {}],
           NEW counts, counts = [e \in LoopEdges |-> 0], NEW wv, wv = << >>, NEW st, st = "ready",
           NEW snap, snap = NoCheckpoint, NEW s, NEW done \in [Nodes -> Nat], DiskInv(snap, s, done)
    PROVE  Invariant(f, outs, counts, wv, st, snap, s, done)
<1>1. Good(f, outs, counts) /\ GroupsSettled(f, counts) /\ counts \in Counters
  BY FreshGood
<1>2. Completed(f) = {} /\ f.running = {} /\ \A n : Reached(f, n) <=> n \in Entries
  BY NewFrontierIs
<1>3. TypeInv(outs, counts, st, done)
  BY <1>1 DEF TypeInv
<1>4. WaveInv(f, wv, st)
  BY <1>2 DEF WaveInv
<1>5. FrontierInv(f, outs, counts, st) /\ FileInv(f, counts, st, snap) /\ StuckInv(f, st, snap)
  BY <1>1, <1>2 DEF FrontierInv, FileInv, StuckInv
<1> QED BY <1>3, <1>4, <1>5 DEF Invariant

LEMMA InitInvariant ==
    ASSUME Init
    PROVE  IInv
<1>1. wf \in Workflows
  BY DEF Init
<1>2. settled \in [Nodes -> Nat] /\ DiskInv(disk, saved, settled)
  BY DEF Init, DiskInv
<1>3. Invariant(frontier, outputs, loop_counters, wave, status, disk, saved, settled)
  BY <1>1, <1>2, FreshInvariant DEF Init
<1> QED BY <1>1, <1>3 DEF IInv

(* What is ready may run. *)
LEMMA ReadyStartable ==
    ASSUME wf \in Workflows, NEW f, NEW outs, NEW counts, Good(f, outs, counts)
    PROVE  /\ Startable(f, Ready(f))
           /\ \A n \in Ready(f) : Reached(f, n)
<1>1. f \in FrontierStates /\ Marked(f) /\ Exact(f, counts)
  BY DEF Good, Sound
<1> SUFFICES ASSUME NEW n \in Ready(f)
             PROVE  /\ n \in Nodes \ Completed(f) /\ CanStart(n) /\ ForwardPredecessors(n) \subseteq Completed(f)
                    /\ Reached(f, n)
  BY DEF Startable
<1>2. /\ n \in Nodes /\ Reached(f, n) /\ ~Current(f, n)
      /\ \A p \in ForwardPredecessors(n) : Current(f, p)
  BY DEF Ready, Reached
<1>3. n \notin Completed(f)
  BY <1>1, <1>2, CompletedIsCurrent
<1>4. ForwardPredecessors(n) \subseteq Completed(f)
  BY <1>1, <1>2, CompletedIsCurrent, GraphTypes DEF ForwardPredecessors
<1>5. CanStart(n)
  <2>1. CASE n \in Entries
    BY <2>1 DEF CanStart
  <2>2. CASE n \notin Entries
    <3>1. PICK e \in Edges : Edge(e).dst = n /\ Enabled(f, e)
      BY <1>1, <1>2, <2>2 DEF Exact
    <3>2. CASE e \in ForwardEdges
      BY <3>1, <3>2 DEF CanStart, ForwardPredecessors
    <3>3. CASE e \in LoopEdges
      BY <3>1, <3>3, <1>1, MemberFacts DEF Exact
    <3> QED BY <3>2, <3>3 DEF ForwardEdges
  <2> QED BY <2>1, <2>2
<1> QED BY <1>2, <1>3, <1>4, <1>5

LEMMA LeaseInvariant ==
    ASSUME IInv, Lease
    PROVE  IInv'
<1> DEFINE run == frontier.running \cup {<<n, frontier.gen[n]>> : n \in Ready(frontier)}
           g == [frontier EXCEPT !.running = run]
<1>1. /\ wf \in Workflows
      /\ TypeInv(outputs, loop_counters, status, settled)
      /\ FrontierInv(frontier, outputs, loop_counters, status)
      /\ WaveInv(frontier, wave, status)
      /\ DiskInv(disk, saved, settled)
      /\ FileInv(frontier, loop_counters, status, disk)
      /\ StuckInv(frontier, status, disk)
  BY PresentInvariant
<1>2. /\ status = "ready" /\ frontier' = g /\ wave' = [n \in Ready(frontier) |-> EnabledEdges(frontier, n)]
      /\ status' = IF Ready(frontier) = {} THEN "done" ELSE "wave"
      /\ wf' = wf /\ outputs' = outputs /\ loop_counters' = loop_counters
      /\ disk' = disk /\ saved' = saved /\ settled' = settled
  BY DEF Lease, TakeReady
<1>3. Good(frontier, outputs, loop_counters) /\ GroupsSettled(frontier, loop_counters)
  BY <1>1, <1>2 DEF FrontierInv
<1>4. frontier \in FrontierStates /\ frontier.running = {}
  BY <1>1, <1>2, <1>3 DEF WaveInv, Good, Sound
<1>5. run = {<<n, frontier.gen[n]>> : n \in Ready(frontier)} /\ run \in SUBSET (Nodes \X Nat)
  <2>1. frontier.gen \in [Nodes -> Nat]
    BY <1>4, FieldTypes
  <2>2. Ready(frontier) \subseteq Nodes
    BY DEF Ready
  <2>3. run = {<<n, frontier.gen[n]>> : n \in Ready(frontier)}
    BY <1>4
  <2> QED BY <2>1, <2>2, <2>3
<1> HIDE DEF run
<1>6. /\ Good(g, outputs, loop_counters) /\ GroupsSettled(g, loop_counters)
      /\ Completed(g) = Completed(frontier) /\ g.running = run /\ g.gen = frontier.gen
      /\ g.reached = frontier.reached /\ g.isolated = frontier.isolated /\ g.enabled = frontier.enabled
  BY <1>1, <1>3, <1>5, RunningGood
<1>7. Ready(frontier) = {} => g = frontier
  BY <1>4, <1>5 DEF FrontierStates
<1> HIDE DEF g
<1>8. DOMAIN wave' = Ready(frontier)
  BY <1>2
<1>9. Startable(g, Ready(frontier))
  BY <1>1, <1>3, <1>6, ReadyStartable DEF Startable
<1>10. WaveInv(g, wave', status')
  <2>1. status' = "done" => wave' = << >>
    BY <1>2
  <2>2. \A n \in Ready(frontier) : wave'[n] = EnabledEdges(g, n)
    BY <1>2, <1>6 DEF EnabledEdges
  <2>3. g.running = {<<n, g.gen[n]>> : n \in DOMAIN wave'}
    BY <1>5, <1>6, <1>8
  <2>4. status' = "done" => Ready(g) = {}
    BY <1>2, <1>7
  <2> QED BY <1>2, <1>8, <1>9, <2>1, <2>2, <2>3, <2>4 DEF WaveInv
<1>11. FileInv(g, loop_counters, status', disk)
  BY <1>1, <1>2, <1>6 DEF FileInv
<1>12. StuckInv(g, status', disk)
  <2> SUFFICES ASSUME Stuck
               PROVE  /\ disk = NoCheckpoint /\ status' # "wave"
                      /\ Completed(g) = {} /\ \A n \in Nodes : Reached(g, n) => n \in Entries
    BY DEF StuckInv
  <2>1. /\ disk = NoCheckpoint /\ Completed(frontier) = {}
        /\ \A n \in Nodes : Reached(frontier, n) => n \in Entries
    BY <1>1 DEF StuckInv
  <2>2. \A n \in Entries : ForwardPredecessors(n) # {}
    BY DEF Stuck, Entries
  <2>3. Ready(frontier) = {}
    <3> SUFFICES ASSUME NEW n \in Ready(frontier) PROVE FALSE
      OBVIOUS
    <3>1. n \in Nodes /\ ForwardPredecessors(n) \subseteq Completed(frontier) /\ Reached(frontier, n)
      BY <1>1, <1>3, ReadyStartable DEF Startable
    <3> QED BY <2>1, <2>2, <3>1
  <2> QED BY <1>2, <1>6, <2>1, <2>3 DEF Reached
<1>13. TypeInv(outputs, loop_counters, status', settled) /\ FrontierInv(g, outputs, loop_counters, status')
  BY <1>1, <1>2, <1>6 DEF TypeInv, FrontierInv
<1>14. Invariant(frontier', outputs', loop_counters', wave', status', disk', saved', settled')
  BY <1>1, <1>2, <1>10, <1>11, <1>12, <1>13 DEF Invariant
<1> QED BY <1>1, <1>2, <1>14, NextInvariant

LEMMA CrashInvariant ==
    ASSUME IInv, Crash
    PROVE  IInv'
<1>1. /\ wf \in Workflows
      /\ TypeInv(outputs, loop_counters, status, settled)
      /\ FrontierInv(frontier, outputs, loop_counters, status)
      /\ WaveInv(frontier, wave, status)
      /\ DiskInv(disk, saved, settled)
      /\ FileInv(frontier, loop_counters, status, disk)
      /\ StuckInv(frontier, status, disk)
  BY PresentInvariant
<1>2. /\ status \in {"ready", "wave"} /\ status' = "crashed" /\ wave' = << >>
      /\ wf' = wf /\ frontier' = frontier /\ outputs' = outputs /\ loop_counters' = loop_counters
      /\ disk' = disk /\ saved' = saved /\ settled' = settled
  BY DEF Crash
<1>3. /\ TypeInv(outputs, loop_counters, status', settled)
      /\ FrontierInv(frontier, outputs, loop_counters, status')
      /\ WaveInv(frontier, wave', status')
      /\ FileInv(frontier, loop_counters, status', disk)
      /\ StuckInv(frontier, status', disk)
  BY <1>1, <1>2 DEF TypeInv, FrontierInv, WaveInv, FileInv, StuckInv
<1>4. Invariant(frontier', outputs', loop_counters', wave', status', disk', saved', settled')
  BY <1>1, <1>2, <1>3 DEF Invariant
<1> QED BY <1>1, <1>2, <1>4, NextInvariant

LEMMA ResumeInvariant ==
    ASSUME IInv, Resume
    PROVE  IInv'
<1>1. /\ wf \in Workflows
      /\ TypeInv(outputs, loop_counters, status, settled)
      /\ WaveInv(frontier, wave, status)
      /\ DiskInv(disk, saved, settled)
      /\ StuckInv(frontier, status, disk)
  BY PresentInvariant
<1>2. /\ status \in {"crashed", "raised", "done"}
      /\ wf' = wf /\ wave' = wave /\ disk' = disk /\ saved' = saved /\ settled' = settled
  BY DEF Resume
<1>3. wave = << >> /\ settled \in [Nodes -> Nat]
  BY <1>1, <1>2 DEF WaveInv, TypeInv
<1>4. CASE disk = NoCheckpoint
  <2>1. /\ frontier' = NewFrontier({}) /\ outputs' = [n \in Nodes |-> {}]
        /\ loop_counters' = [e \in LoopEdges |-> 0] /\ status' = "ready"
    BY <1>4 DEF Resume
  <2>2. Invariant(frontier', outputs', loop_counters', wave', status', disk', saved', settled')
    BY <1>1, <1>2, <1>3, <1>4, <2>1, FreshInvariant
  <2> QED BY <1>1, <1>2, <2>2, NextInvariant
<1>5. CASE disk # NoCheckpoint
  <2>1. /\ outputs' = disk.outputs /\ loop_counters' = disk.loop_counters
        /\ status' = IF Unconverged(disk) # {} THEN "refused" ELSE "ready"
        /\ frontier' = IF Unconverged(disk) # {} THEN frontier ELSE Restored(disk)
    BY <1>5 DEF Resume
  <2>2. /\ disk \in Checkpoints /\ disk.completed = Completed(saved)
        /\ Good(saved, disk.outputs, disk.loop_counters) /\ GroupsSettled(saved, disk.loop_counters)
    BY <1>1, <1>5 DEF DiskInv
  <2>3. /\ Good(Restored(disk), disk.outputs, disk.loop_counters)
        /\ GroupsSettled(Restored(disk), disk.loop_counters)
        /\ Completed(Restored(disk)) = disk.completed /\ Restored(disk).running = {}
    BY <1>1, <2>2, RestoredGood
  <2>4. TypeInv(outputs', loop_counters', status', settled')
    BY <1>2, <1>3, <2>1, <2>2 DEF TypeInv, Checkpoints
  <2>5. FrontierInv(frontier', outputs', loop_counters', status')
    BY <2>1, <2>3 DEF FrontierInv
  <2>6. WaveInv(frontier', wave', status')
    BY <1>2, <1>3, <2>1, <2>3 DEF WaveInv
  <2>7. FileInv(frontier', loop_counters', status', disk') /\ StuckInv(frontier', status', disk')
    BY <1>1, <1>2, <1>5, <2>1, <2>3 DEF FileInv, StuckInv
  <2>8. Invariant(frontier', outputs', loop_counters', wave', status', disk', saved', settled')
    BY <1>1, <1>2, <2>4, <2>5, <2>6, <2>7 DEF Invariant
  <2> QED BY <1>1, <1>2, <2>8, NextInvariant
<1> QED BY <1>4, <1>5

(* The settled nodes are counted in what is complete and the fires. *)
LEMMA WorkSettled ==
    ASSUME IInv, status = "wave"
    PROVE  \A n \in Nodes : settled[n] <= Work(frontier, loop_counters, n)
<1>1. /\ wf \in Workflows
      /\ TypeInv(outputs, loop_counters, status, settled)
      /\ DiskInv(disk, saved, settled)
      /\ FileInv(frontier, loop_counters, status, disk)
  BY PresentInvariant
<1> TAKE n \in Nodes
<1>2. Fires(loop_counters, n) \in Nat
  BY <1>1, FiresNat DEF TypeInv
<1>3. Ones(n \in Completed(frontier)) \in {0, 1}
  BY DEF Ones
<1>4. CASE disk = NoCheckpoint
  BY <1>1, <1>2, <1>3, <1>4 DEF DiskInv, Work
<1>5. CASE disk # NoCheckpoint
  BY <1>1, <1>5 DEF DiskInv, FileInv, Work
<1> QED BY <1>4, <1>5

(* A checkpoint is something. *)
LEMMA SnapshotIs ==
    ASSUME NEW outs \in [Nodes -> SUBSET Edges], NEW f, NEW counts \in Counters
    PROVE  LET snap == Snapshot(outs, f, counts)
           IN  /\ snap # NoCheckpoint /\ snap \in Checkpoints
               /\ snap.outputs = outs /\ snap.completed = Completed(f) /\ snap.loop_counters = counts
<1>1. Completed(f) \subseteq Nodes
  BY DEF Completed
<1>2. DOMAIN Snapshot(outs, f, counts) = {"outputs", "completed", "loop_counters"} /\ DOMAIN NoCheckpoint = {}
  BY DEF Snapshot, NoCheckpoint
<1> QED BY <1>1, <1>2 DEF Snapshot, Checkpoints

LEMMA SettleInvariant ==
    ASSUME IInv, Settle
    PROVE  IInv'
<1>1. /\ wf \in Workflows
      /\ TypeInv(outputs, loop_counters, status, settled)
      /\ FrontierInv(frontier, outputs, loop_counters, status)
      /\ WaveInv(frontier, wave, status)
      /\ DiskInv(disk, saved, settled)
      /\ FileInv(frontier, loop_counters, status, disk)
      /\ StuckInv(frontier, status, disk)
  BY PresentInvariant
<1>2. status = "wave" /\ wave' = << >> /\ wf' = wf
  BY DEF Settle
<1>3. PICK ok, paused, fresh, over :
         /\ ok \in SUBSET DOMAIN wave /\ fresh \in [ok -> SUBSET {e \in Edges : Edge(e).cond}]
         /\ SettleWave(ok, paused, fresh, over)
  BY DEF Settle
<1> DEFINE errors == DOMAIN wave \ (ok \cup paused)
           lost == errors \cap wf.isolates
           deferred == (errors \ lost) \cup paused
           first == SelectSeq(wf.nodes, LAMBDA n : n \in deferred)
           outs == [n \in Nodes |-> IF n \in ok THEN fresh[n] ELSE outputs[n]]
           kept == IF lost = {} THEN frontier ELSE IsolateNodes(frontier, Closure(lost))
           verdicts == [n \in Nodes |-> Verdicts(outs, n)]
           batch == CompleteBatch(kept, loop_counters, ok, verdicts)
           diverged == ok # {} /\ batch.diverged
           after == IF ok # {} THEN batch.f ELSE kept
           counts == IF ok # {} THEN batch.counts ELSE loop_counters
           saves == \/ ok # {} /\ ~diverged
                    \/ ok = {} /\ deferred # {} /\ first[1] \in paused
           done == [n \in Nodes |-> settled[n] + IF n \in ok THEN 1 ELSE 0]
<1>4. /\ frontier' = after /\ outputs' = outs /\ loop_counters' = counts
      /\ disk' = IF saves THEN Snapshot(outs, after, counts) ELSE disk
      /\ saved' = IF saves THEN after ELSE saved
      /\ settled' = IF saves THEN done ELSE settled
      /\ status' = IF diverged \/ over \/ deferred # {} THEN "raised" ELSE "ready"
  BY <1>3 DEF SettleWave
<1>5. /\ Good(frontier, outputs, loop_counters) /\ GroupsSettled(frontier, loop_counters)
      /\ Startable(frontier, DOMAIN wave)
      /\ frontier.running = {<<n, frontier.gen[n]>> : n \in DOMAIN wave}
      /\ frontier \in FrontierStates
  BY <1>1, <1>2 DEF FrontierInv, WaveInv, Good, Sound
<1>6. /\ outputs \in [Nodes -> SUBSET Edges] /\ loop_counters \in Counters /\ settled \in [Nodes -> Nat]
      /\ DOMAIN wave \subseteq Nodes /\ ok \subseteq DOMAIN wave /\ DOMAIN wave \cap Completed(frontier) = {}
      /\ lost \subseteq DOMAIN wave /\ ok \in SUBSET Nodes /\ lost \in SUBSET Nodes
  <2>1. DOMAIN wave \subseteq Nodes /\ DOMAIN wave \cap Completed(frontier) = {}
    BY <1>5 DEF Startable
  <2>2. ok \subseteq DOMAIN wave /\ lost \subseteq DOMAIN wave
    BY <1>3
  <2> HIDE DEF lost
  <2> QED BY <1>1, <2>1, <2>2 DEF TypeInv
<1>7. outs \in [Nodes -> SUBSET Edges] /\ \A n \in Nodes \ ok : outs[n] = outputs[n]
  <2>1. \A n \in ok : fresh[n] \in SUBSET Edges
    BY <1>3
  <2> QED BY <1>6, <2>1
<1>8. ok = {} => outs = outputs
  BY <1>6
<1>9. \A n \in Nodes : verdicts[n] = Verdicts(outs, n)
  OBVIOUS
<1>10. /\ Good(kept, outputs, loop_counters) /\ GroupsSettled(kept, loop_counters)
       /\ Completed(kept) = Completed(frontier) /\ kept.gen = frontier.gen
       /\ kept.running \subseteq {<<n, frontier.gen[n]>> : n \in DOMAIN wave \ lost}
  <2>1. CASE lost = {}
    BY <2>1, <1>5
  <2>2. CASE lost # {}
    <3> DEFINE g == IsolateNodes(frontier, Closure(lost))
    <3>1. Closure(lost) \in SUBSET Nodes /\ lost \subseteq Closure(lost)
      BY <1>1, <1>6, ClosureFacts
    <3> HIDE DEF lost
    <3>2. /\ Completed(g) = Completed(frontier) /\ g.gen = frontier.gen
          /\ g.running = frontier.running \ {<<n, frontier.gen[n]>> : n \in Closure(lost)}
      BY <1>1, <1>5, <3>1, IsolateNodesIs
    <3>3. Good(g, outputs, loop_counters) /\ GroupsSettled(g, loop_counters)
      BY <1>1, <1>5, <3>1, IsolateGood
    <3> HIDE DEF g
    <3>4. g.running \subseteq {<<n, frontier.gen[n]>> : n \in DOMAIN wave \ lost}
      BY <1>5, <3>1, <3>2
    <3> QED BY <2>2, <3>2, <3>3, <3>4 DEF g
  <2> QED BY <2>1, <2>2
<1>11. Startable(kept, ok)
  <2> HIDE DEF kept
  <2> QED BY <1>5, <1>6, <1>10 DEF Startable
<1>12. done \in [Nodes -> Nat] /\ \A n \in Nodes : done[n] = settled[n] + IF n \in ok THEN 1 ELSE 0
  BY <1>6
<1>13. \A n \in Nodes : done[n] <= Ones(n \in Completed(kept) \cup ok) + Fires(loop_counters, n)
  <2> TAKE n \in Nodes
  <2>1. settled[n] \in Nat /\ settled[n] <= Ones(n \in Completed(frontier)) + Fires(loop_counters, n)
    BY <1>2, <1>6, WorkSettled DEF Work
  <2>2. Fires(loop_counters, n) \in Nat
    BY <1>1, <1>6, FiresNat
  <2>3. n \in ok => n \notin Completed(frontier)
    BY <1>6
  <2> HIDE DEF done, kept
  <2>4. CASE n \in ok
    BY <2>1, <2>2, <2>3, <2>4, <1>12 DEF Ones
  <2>5. CASE n \notin ok
    BY <2>1, <2>2, <2>5, <1>10, <1>12 DEF Ones
  <2> QED BY <2>4, <2>5
<1> HIDE DEF outs, kept, verdicts, done, errors, lost
<1>14. /\ Good(batch.f, outs, batch.counts) /\ batch.counts \in Counters /\ batch.diverged \in BOOLEAN
       /\ batch.f.running \subseteq kept.running \ {<<n, kept.gen[n]>> : n \in ok}
       /\ \A n \in Nodes : done[n] <= Work(batch.f, batch.counts, n)
       /\ ~batch.diverged => GroupsSettled(batch.f, batch.counts)
  BY <1>1, <1>6, <1>7, <1>9, <1>10, <1>11, <1>12, <1>13, CompleteBatchKeeps
<1> HIDE DEF batch
<1>15. /\ Good(after, outs, counts) /\ counts \in Counters
       /\ ~diverged => GroupsSettled(after, counts)
       /\ \A n \in Nodes : done[n] <= Work(after, counts, n)
       /\ after.running \subseteq kept.running \ {<<n, kept.gen[n]>> : n \in ok}
       /\ ok = {} => Completed(after) = Completed(frontier) /\ counts = loop_counters
  <2>1. CASE ok # {}
    BY <1>14, <2>1
  <2>2. CASE ok = {}
    <3>1. after = kept /\ counts = loop_counters /\ outs = outputs
      BY <1>8, <2>2
    <3>2. \A n \in Nodes : done[n] <= Work(kept, loop_counters, n)
      BY <1>13, <2>2 DEF Work
    <3> HIDE DEF after, counts
    <3> QED BY <1>6, <1>10, <2>2, <3>1, <3>2
  <2> QED BY <2>1, <2>2
<1>16. status' = "ready" => after.running = {} /\ ~diverged
  <2> SUFFICES ASSUME status' = "ready" PROVE after.running = {} /\ ~diverged
    OBVIOUS
  <2>1. deferred = {} /\ ~diverged
    BY <1>4
  <2>2. DOMAIN wave \ lost \subseteq ok
    BY <2>1 DEF errors
  <2> HIDE DEF after
  <2>3. after.running \subseteq {<<n, frontier.gen[n]>> : n \in DOMAIN wave \ lost} \ {<<n, frontier.gen[n]>> : n \in ok}
    BY <1>10, <1>15
  <2> QED BY <2>1, <2>2, <2>3
<1>17. saves => ~diverged
  OBVIOUS
<1>18. status' = "ready" /\ ~saves => ok = {}
  BY <1>16
<1>19. status' \in {"raised", "ready"}
  BY <1>4
<1> HIDE DEF after, counts, diverged, saves, deferred, first
<1>20. TypeInv(outputs', loop_counters', status', settled')
  BY <1>4, <1>6, <1>7, <1>12, <1>15, <1>19 DEF TypeInv
<1>21. FrontierInv(frontier', outputs', loop_counters', status')
  BY <1>4, <1>15, <1>16, <1>19 DEF FrontierInv
<1>22. WaveInv(frontier', wave', status')
  BY <1>2, <1>4, <1>16, <1>19 DEF WaveInv
<1>23. DiskInv(disk', saved', settled')
  <2>1. CASE saves
    <3>1. /\ disk' # NoCheckpoint /\ disk' \in Checkpoints
          /\ disk'.outputs = outs /\ disk'.completed = Completed(after) /\ disk'.loop_counters = counts
      BY <1>4, <1>7, <1>15, <2>1, SnapshotIs
    <3> QED BY <1>4, <1>15, <1>17, <2>1, <3>1 DEF DiskInv
  <2>2. CASE ~saves
    BY <1>1, <1>4, <2>2
  <2> QED BY <2>1, <2>2
<1>24. FileInv(frontier', loop_counters', status', disk')
  <2>1. CASE saves
    <3>1. disk' # NoCheckpoint /\ disk'.completed = Completed(after) /\ disk'.loop_counters = counts
      BY <1>4, <1>7, <1>15, <2>1, SnapshotIs
    <3> QED BY <1>4, <3>1 DEF FileInv
  <2>2. CASE ~saves
    BY <1>1, <1>2, <1>4, <1>15, <1>18, <1>19, <2>2 DEF FileInv
  <2> QED BY <2>1, <2>2
<1>25. StuckInv(frontier', status', disk')
  BY <1>1, <1>2 DEF StuckInv
<1>26. Invariant(frontier', outputs', loop_counters', wave', status', disk', saved', settled')
  BY <1>20, <1>21, <1>22, <1>23, <1>24, <1>25 DEF Invariant
<1> QED BY <1>1, <1>2, <1>26, NextInvariant

LEMMA StutterInvariant ==
    ASSUME IInv, UNCHANGED vars
    PROVE  IInv'
<1>1. wf \in Workflows /\ Invariant(frontier, outputs, loop_counters, wave, status, disk, saved, settled)
  BY DEF IInv
<1>2. Invariant(frontier', outputs', loop_counters', wave', status', disk', saved', settled')
  BY <1>1 DEF vars
<1> QED BY <1>1, <1>2, NextInvariant DEF vars

(* Everywhere the frontier, the wave and the file are what the invariant says: what the *)
(* theorems below follow from (the frontier kernel and the loop of execute()).          *)
THEOREM FrontierInvariance == Spec => []IInv
<1>1. Init => IInv
  BY InitInvariant
<1>2. IInv /\ [Next]_vars => IInv'
  <2> SUFFICES ASSUME IInv, [Next]_vars PROVE IInv'
    OBVIOUS
  <2>1. CASE Lease
    BY <2>1, LeaseInvariant
  <2>2. CASE Settle
    BY <2>2, SettleInvariant
  <2>3. CASE Crash
    BY <2>3, CrashInvariant
  <2>4. CASE Resume
    BY <2>4, ResumeInvariant
  <2>5. CASE UNCHANGED vars
    BY <2>5, StutterInvariant
  <2> QED BY <2>1, <2>2, <2>3, <2>4, <2>5 DEF Next
<1> QED BY <1>1, <1>2, PTL DEF Spec

-----------------------------------------------------------------------------
(* What it is for.                                                         *)

(* No completed work is done again, over all crashes, pauses and resumes: settle_batch  *)
(* and the checkpoint count a node once, plus once for every fire of a loop around it.  *)
THEOREM WorkBounded == Spec => []WorkIsBounded
<1>1. IInv => WorkIsBounded
  <2> SUFFICES ASSUME IInv, disk # NoCheckpoint
               PROVE  /\ \A n \in Nodes : settled[n] <= 1 + Fires(disk.loop_counters, n)
                      /\ \A e \in LoopEdges : disk.loop_counters[e] <= Edge(e).max
    BY DEF WorkIsBounded
  <2>1. /\ wf \in Workflows /\ TypeInv(outputs, loop_counters, status, settled)
        /\ disk \in Checkpoints /\ Bounded(disk.loop_counters)
        /\ \A n \in Nodes : settled[n] <= Work(saved, disk.loop_counters, n)
    BY PresentInvariant DEF DiskInv, Good
  <2>2. ASSUME NEW n \in Nodes PROVE settled[n] <= 1 + Fires(disk.loop_counters, n)
    <3>1. settled[n] \in Nat /\ Fires(disk.loop_counters, n) \in Nat
      BY <2>1, FiresNat DEF TypeInv, Checkpoints
    <3>2. Ones(n \in Completed(saved)) \in {0, 1}
      BY DEF Ones
    <3> QED BY <2>1, <3>1, <3>2 DEF Work
  <2> QED BY <2>1, <2>2 DEF Bounded
<1> QED BY <1>1, FrontierInvariance, PTL

(* An input of a running node comes from a node that is complete in this generation,  *)
(* and decided for it (enabled_edges of a lease).                                     *)
THEOREM InputsCurrent == Spec => []InputsAreCurrent
<1>1. IInv => InputsAreCurrent
  <2> SUFFICES ASSUME IInv, NEW n \in DOMAIN wave, NEW e \in wave[n] \cap ForwardEdges
               PROVE  Current(frontier, Edge(e).src) /\ (Lags(e) \/ e \in Verdicts(outputs, Edge(e).src))
    BY DEF InputsAreCurrent
  <2>1. /\ wf \in Workflows /\ WaveInv(frontier, wave, status)
        /\ FrontierInv(frontier, outputs, loop_counters, status)
    BY PresentInvariant
  <2>2. status = "wave"
    BY <2>1 DEF WaveInv
  <2>3. Sound(frontier, outputs) /\ Startable(frontier, DOMAIN wave) /\ wave[n] = EnabledEdges(frontier, n)
    BY <2>1, <2>2 DEF WaveInv, FrontierInv, Good
  <2>4. Edge(e).dst = n /\ Enabled(frontier, e)
    BY <2>3 DEF EnabledEdges, Enabled
  <2>5. Edge(e).src \in Completed(frontier)
    BY <2>3, <2>4 DEF Startable, ForwardPredecessors
  <2>6. Current(frontier, Edge(e).src)
    BY <2>3, <2>5, CompletedIsCurrent DEF Sound, Completed
  <2>7. Lags(e) \/ e \in Verdicts(outputs, Edge(e).src)
    BY <2>3, <2>4, <2>5 DEF Sound, EnabledStand, DecisionsStand, Decided
  <2> QED BY <2>6, <2>7
<1> QED BY <1>1, FrontierInvariance, PTL

(* At quiescence no node that deserves to run and no loop that should go on is left *)
(* (the frontier is empty, and execute() returns the outputs).                       *)
THEOREM QuiescenceIsComplete == Spec => []DoneIsComplete
<1>1. IInv => DoneIsComplete
  <2> SUFFICES ASSUME IInv, status = "done"
               PROVE  NodesHaveRun /\ \A d \in Destinations : Overtaken(d) \/ HasFired(d)
    BY DEF DoneIsComplete
  <2>1. /\ wf \in Workflows /\ WaveInv(frontier, wave, status)
        /\ FrontierInv(frontier, outputs, loop_counters, status)
        /\ StuckInv(frontier, status, disk)
    BY PresentInvariant
  <2>2. /\ Good(frontier, outputs, loop_counters) /\ GroupsSettled(frontier, loop_counters)
        /\ Ready(frontier) = {} /\ frontier.running = {}
    BY <2>1 DEF WaveInv, FrontierInv
  <2>3. /\ frontier \in FrontierStates /\ Marked(frontier) /\ Reaches(frontier) /\ Arrivals(frontier)
        /\ DecisionsStand(frontier, outputs)
    BY <2>2 DEF Good, Sound
  <2>4. \A n \in Nodes : n \in Completed(frontier) <=> Current(frontier, n)
    BY <2>3, CompletedIsCurrent
  <2>5. ASSUME NEW e \in Edges, Current(frontier, Edge(e).src), e \in Verdicts(outputs, Edge(e).src)
        PROVE  Decided(frontier, e)
    BY <2>1, <2>3, <2>4, <2>5, GraphTypes DEF Decided, DecisionsStand
  <2>6. ASSUME NEW n \in Nodes, DeservesToRun(n), ~Current(frontier, n)
        PROVE  FALSE
    <3>1. /\ n \notin frontier.isolated /\ n \notin Completed(frontier)
          /\ \A p \in ForwardPredecessors(n) : Current(frontier, p)
      BY <2>4, <2>6 DEF DeservesToRun
    <3>2. ~Reached(frontier, n)
      BY <2>2, <2>6, <3>1 DEF Ready, Reached
    <3>3. CASE n \in Entries
      <4>1. ForwardPredecessors(n) # {}
        BY <2>3, <3>1, <3>2, <3>3 DEF Reaches
      <4>2. Completed(frontier) = {}
        BY <2>1, <3>3, <4>1 DEF StuckInv, Stuck
      <4>3. ForwardPredecessors(n) \subseteq Nodes
        BY <2>1, GraphTypes DEF ForwardPredecessors
      <4> QED BY <2>4, <3>1, <4>1, <4>2, <4>3
    <3>4. CASE n \notin Entries
      <4>1. PICK e \in ForwardEdges : Edge(e).dst = n /\ e \in Verdicts(outputs, Edge(e).src)
        BY <2>6, <3>4 DEF DeservesToRun
      <4>2. Current(frontier, Edge(e).src) /\ e \in Edges
        BY <2>1, <3>1, <4>1, GraphTypes DEF ForwardPredecessors
      <4>3. Decided(frontier, e)
        BY <2>5, <4>1, <4>2
      <4> QED BY <2>3, <3>1, <3>2, <4>1, <4>3 DEF Reaches
    <3> QED BY <3>3, <3>4
  <2>7. ASSUME NEW d \in Destinations, ~Overtaken(d),
               \A e \in Members(d) : Current(frontier, Edge(e).src) /\ e \in Verdicts(outputs, Edge(e).src)
        PROVE  Spent(loop_counters, Members(d)) # {}
    <3>1. ASSUME NEW e \in Members(d) PROVE Arrived(frontier, e, TRUE)
      <4>1. e \in LoopEdges /\ e \in Edges /\ Edge(e).src \in Nodes
        BY <2>1, MemberFacts, GraphTypes
      <4>2. Decided(frontier, e) = TRUE
        <5>1. Decided(frontier, e)
          BY <2>5, <2>7, <4>1
        <5> QED BY <5>1 DEF Decided
      <4> QED BY <2>3, <2>4, <2>7, <4>1, <4>2 DEF Arrivals
    <3> QED BY <2>2, <2>7, <3>1 DEF GroupsSettled, AllTrue, IsSpent
  <2> QED BY <2>6, <2>7 DEF NodesHaveRun, HasFired
<1> QED BY <1>1, FrontierInvariance, PTL

(* What is pending in a good frontier follows from what is complete and the counters. *)
LEMMA PendingIs ==
    ASSUME wf \in Workflows, ~Stuck, NEW f, NEW outs, NEW counts, Good(f, outs, counts),
           NEW n \in Nodes, n \notin f.isolated, ~Nested(n)
    PROVE  n \in Pending(f) <=>
              /\ n \notin Completed(f)
              /\ \/ n \in Entries
                 \/ n \in Destinations /\ Fired(counts, n)
                 \/ \E e \in ForwardEdges : Edge(e).dst = n /\ DecidesIn(Completed(f), outs, e)
<1>1. /\ f \in FrontierStates /\ Marked(f) /\ DecisionsStand(f, outs) /\ EnabledStand(f)
      /\ Reaches(f) /\ Exact(f, counts)
  BY DEF Good, Sound
<1>2. n \in Completed(f) <=> Current(f, n)
  BY <1>1, CompletedIsCurrent
<1>3. n \in Pending(f) <=> Reached(f, n) /\ n \notin Completed(f)
  BY <1>2 DEF Pending, Reached
<1>4. \A e \in ForwardEdges : Decided(f, e) <=> DecidesIn(Completed(f), outs, e)
  BY <1>1 DEF Decided, DecidesIn, DecisionsStand
<1>5. ASSUME Reached(f, n), n \notin Entries, ~(n \in Destinations /\ Fired(counts, n))
      PROVE  \E e \in ForwardEdges : Edge(e).dst = n /\ DecidesIn(Completed(f), outs, e)
  <2>1. PICK e \in Edges : Edge(e).dst = n /\ Enabled(f, e)
    BY <1>1, <1>5 DEF Exact
  <2>2. e \in ForwardEdges
    <3> SUFFICES ASSUME e \in LoopEdges PROVE FALSE
      BY DEF ForwardEdges
    <3> QED BY <1>1, <1>5, <2>1, MemberFacts DEF Exact
  <2>3. ~Lags(e)
    <3> SUFFICES ASSUME NEW d \in Destinations, e \in LoopBoundaryEdges(d), d \notin Closure({Edge(e).src})
                 PROVE  FALSE
      BY DEF Lags
    <3>1. n = d
      BY <2>1 DEF LoopBoundaryEdges, Nested
    <3>2. Edge(e).src \in Nodes
      BY <2>1, GraphTypes
    <3>3. Closed(Closure({Edge(e).src})) /\ Edge(e).src \in Closure({Edge(e).src})
      BY <3>2, ClosureFacts
    <3> QED BY <2>1, <2>2, <3>1, <3>3 DEF Closed
  <2> QED BY <1>1, <1>4, <2>1, <2>2, <2>3 DEF EnabledStand
<1>6. ASSUME n \in Entries, n \notin Completed(f) PROVE Reached(f, n)
  <2>1. ForwardPredecessors(n) = {}
    BY <1>6 DEF Stuck
  <2> QED BY <1>1, <1>6, <2>1 DEF Reaches
<1>7. ASSUME n \in Destinations, Fired(counts, n), n \notin Completed(f) PROVE Reached(f, n)
  BY <1>1, <1>7 DEF Exact
<1>8. ASSUME NEW e \in ForwardEdges, Edge(e).dst = n, DecidesIn(Completed(f), outs, e), n \notin Completed(f)
      PROVE  Reached(f, n)
  BY <1>1, <1>4, <1>8 DEF Reaches
<1> QED BY <1>3, <1>5, <1>6, <1>7, <1>8

(* So do the settled inputs of a pending node that no loop leads to. *)
LEMMA InputsAre ==
    ASSUME wf \in Workflows, NEW f, NEW outs, NEW counts, Good(f, outs, counts),
           NEW n \in Nodes \ Destinations, n \notin Completed(f)
    PROVE  Settled(EnabledEdges(f, n)) =
              {e \in ForwardEdges : Edge(e).dst = n /\ ~Lags(e) /\ DecidesIn(Completed(f), outs, e)}
<1>1. DecisionsStand(f, outs) /\ EnabledStand(f) /\ Exact(f, counts)
  BY DEF Good, Sound
<1>2. \A e \in ForwardEdges : Decided(f, e) <=> DecidesIn(Completed(f), outs, e)
  BY <1>1 DEF Decided, DecidesIn, DecisionsStand
<1>3. \A e \in Edges : Edge(e).dst = n => e \in ForwardEdges
  BY MemberFacts DEF ForwardEdges
<1>4. \A e : e \in EnabledEdges(f, n) <=> e \in Edges /\ Edge(e).dst = n /\ Enabled(f, e)
  BY DEF EnabledEdges, Enabled
<1>5. ForwardEdges \subseteq Edges
  BY GraphTypes
<1>6. \A e \in ForwardEdges : Edge(e).dst = n /\ ~Lags(e) => (Enabled(f, e) <=> DecidesIn(Completed(f), outs, e))
  BY <1>1, <1>2 DEF EnabledStand, Exact
<1> QED BY <1>3, <1>4, <1>5, <1>6 DEF Settled

(* A resume rebuilds the pending nodes and their inputs as they were saved *)
(* (replay_completed and restore_loop_activations).                        *)
THEOREM ResumeRebuilds == Spec => ResumeKeepsFrontier
<1> DEFINE Kept ==
        Resumes => \A n \in Nodes \ saved.isolated :
            /\ Nested(n) \/ (n \in Pending(frontier') <=> n \in Pending(saved))
            /\ (n \in Pending(saved) \ Destinations) =>
                  Settled(EnabledEdges(frontier', n)) = Settled(EnabledEdges(saved, n))
<1>1. IInv /\ [Next]_vars => Kept
  <2> SUFFICES ASSUME IInv, [Next]_vars, Resumes, NEW n \in Nodes \ saved.isolated
               PROVE  /\ Nested(n) \/ (n \in Pending(frontier') <=> n \in Pending(saved))
                      /\ (n \in Pending(saved) \ Destinations) =>
                            Settled(EnabledEdges(frontier', n)) = Settled(EnabledEdges(saved, n))
    OBVIOUS
  <2>1. status \in {"crashed", "raised", "done"} /\ status' = "ready" /\ disk # NoCheckpoint
    BY DEF Resumes
  <2>2. Resume
    BY <2>1 DEF Next, Lease, Settle, Crash, vars
  <2>3. frontier' = Restored(disk)
    BY <2>1, <2>2 DEF Resume
  <2> DEFINE f == Restored(disk)
             outs == disk.outputs
             counts == disk.loop_counters
  <2>4. wf \in Workflows /\ DiskInv(disk, saved, settled) /\ StuckInv(frontier, status, disk)
    BY PresentInvariant
  <2>5. ~Stuck
    BY <2>1, <2>4 DEF StuckInv
  <2>6. /\ disk \in Checkpoints /\ disk.completed = Completed(saved)
        /\ Good(saved, outs, counts) /\ GroupsSettled(saved, counts)
    BY <2>1, <2>4 DEF DiskInv
  <2>7. Good(f, outs, counts) /\ Completed(f) = Completed(saved) /\ f.isolated = {}
    BY <2>4, <2>6, RestoredGood
  <2> HIDE DEF f
  <2>8. Nested(n) \/ (n \in Pending(f) <=> n \in Pending(saved))
    <3> SUFFICES ASSUME ~Nested(n) PROVE n \in Pending(f) <=> n \in Pending(saved)
      OBVIOUS
    <3> DEFINE Due == /\ n \notin Completed(saved)
                      /\ \/ n \in Entries
                         \/ n \in Destinations /\ Fired(counts, n)
                         \/ \E e \in ForwardEdges : Edge(e).dst = n /\ DecidesIn(Completed(saved), outs, e)
    <3>1. n \in Pending(f) <=> Due
      BY <2>4, <2>5, <2>7, PendingIs
    <3>2. n \in Pending(saved) <=> Due
      BY <2>4, <2>5, <2>6, PendingIs
    <3> QED BY <3>1, <3>2
  <2>9. ASSUME n \in Pending(saved) \ Destinations
        PROVE  Settled(EnabledEdges(f, n)) = Settled(EnabledEdges(saved, n))
    <3>1. n \notin Completed(saved)
      <4>1. saved \in FrontierStates /\ Marked(saved)
        BY <2>6 DEF Good, Sound
      <4> QED BY <2>9, <4>1, CompletedIsCurrent DEF Pending
    <3> DEFINE es == {e \in ForwardEdges : Edge(e).dst = n /\ ~Lags(e) /\ DecidesIn(Completed(saved), outs, e)}
    <3>2. Settled(EnabledEdges(saved, n)) = es
      BY <2>4, <2>6, <2>9, <3>1, InputsAre
    <3>3. Settled(EnabledEdges(f, n)) = es
      <4>1. n \notin Completed(f)
        BY <2>7, <3>1
      <4>2. Settled(EnabledEdges(f, n)) =
               {e \in ForwardEdges : Edge(e).dst = n /\ ~Lags(e) /\ DecidesIn(Completed(f), outs, e)}
        BY <2>4, <2>7, <2>9, <4>1, InputsAre
      <4> QED BY <2>7, <4>2
    <3> QED BY <3>2, <3>3
  <2> QED BY <2>3, <2>8, <2>9 DEF f
<1>2. Spec => [][Kept]_vars
  BY <1>1, FrontierInvariance, PTL DEF Spec
<1> QED BY <1>2 DEF ResumeKeepsFrontier
=============================================================================
