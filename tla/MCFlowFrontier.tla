--------------------------- MODULE MCFlowFrontier ---------------------------
EXTENDS FlowFrontier

Fwd(s, d, c) == [src |-> s, dst |-> d, loop |-> FALSE, max |-> 0, strict |-> FALSE, cond |-> c]
Back(s, d, m, strict) == [src |-> s, dst |-> d, loop |-> TRUE, max |-> m, strict |-> strict, cond |-> TRUE]
Flow(ns, es, isolates, humans) ==
    [nodes |-> ns, edges |-> es, entry |-> NoEntry, isolates |-> isolates, humans |-> humans]

\* A conditional branch, an isolated branch, a human gate and their join.
Diamond == Flow(<<"a", "b", "c", "d">>,
    <<Fwd("a", "b", TRUE), Fwd("a", "c", FALSE), Fwd("b", "d", FALSE), Fwd("c", "d", TRUE)>>,
    {"b"}, {"c"})
\* Drafting and review, the loop covering everything but the publication.
Review == Flow(<<"draft", "review", "publish">>,
    <<Fwd("draft", "review", FALSE), Back("review", "draft", 2, FALSE), Fwd("review", "publish", TRUE)>>,
    {"publish"}, {"review"})
\* Two back-edges joined by AND, one of them strict.
AndJoin == Flow(<<"a", "b", "c">>,
    <<Fwd("a", "b", FALSE), Fwd("a", "c", FALSE), Back("b", "a", 2, FALSE), Back("c", "a", 1, TRUE)>>,
    {}, {})
\* A loop fed from outside, at its destination and further in.
Boundary == Flow(<<"setup", "work", "check">>,
    <<Fwd("setup", "work", FALSE), Fwd("work", "check", FALSE), Fwd("setup", "check", TRUE),
      Back("check", "work", 2, FALSE)>>,
    {}, {})
\* A loop inside a loop.
NestedLoops == Flow(<<"o", "i", "j", "k">>,
    <<Fwd("o", "i", TRUE), Fwd("i", "j", FALSE), Back("j", "i", 1, FALSE),
      Fwd("j", "k", FALSE), Fwd("o", "k", FALSE), Back("k", "o", 1, FALSE)>>,
    {}, {})

\* A loop inside a loop, fed from a branch of the outer loop that takes longer.
Lagging == Flow(<<"o", "i", "p", "q", "j">>,
    <<Fwd("o", "i", FALSE), Back("i", "i", 1, FALSE), Fwd("o", "p", FALSE), Fwd("p", "q", FALSE),
      Fwd("q", "j", TRUE), Fwd("i", "j", FALSE), [Back("j", "o", 1, FALSE) EXCEPT !.cond = FALSE]>>,
    {}, {})
\* A loop inside a loop, whose last node runs in each round of both.
Overtaking == Flow(<<"o", "i">>,
    <<Fwd("o", "i", FALSE), Back("i", "i", 1, FALSE), Back("i", "o", 1, FALSE)>>,
    {}, {})

\* Three loops inside one another.
ThreeDeep == Flow(<<"d", "o", "i", "z">>,
    <<Fwd("d", "o", FALSE), Fwd("o", "i", FALSE), Fwd("i", "z", FALSE), [Back("i", "i", 1, FALSE) EXCEPT !.cond = FALSE],
      Back("i", "o", 1, FALSE), Back("z", "d", 1, FALSE)>>,
    {}, {})

AllFlows == {Diamond, Review, AndJoin, Boundary, NestedLoops, Lagging, Overtaking, ThreeDeep}
ReviewOnly == {Review}
BoundaryOnly == {Boundary}
NestedOnly == {NestedLoops}
StrictOnly == {AndJoin}
RoundsOnly == {Lagging, Overtaking}
====
