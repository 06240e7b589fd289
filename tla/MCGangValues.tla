---------------------------- MODULE MCGangValues -----------------------------
(* Three lanes: one can leave a loop, one stay and one never enter.  One    *)
(* value per function is followed, inside ifs and out of one loop.          *)
EXTENDS GangValues, StructuredCfgs

CONSTANTS l0, l1, l2

MCLanes == {l0, l1, l2}

Sticky(g) == [entry |-> g.entry, succ |-> g.succ, sticky |-> TRUE]
Stray(g) == [entry |-> g.entry, succ |-> g.succ, sticky |-> FALSE]

Flow(g, def, use) == [cfg |-> g, def |-> def, use |-> use]

\* No loop between, or one: the use is in the enclosing loop or behind the
\* only one.
StickyFlows ==
    {Flow(Sticky(SelfLoop), "h", "x"),
     Flow(Sticky(LoopWithIf), "h", "x"),
     Flow(Sticky(LoopWithIf), "l", "x"),
     Flow(Sticky(LoopInIf), "h", "x"),
     Flow(Sticky(NestedLoops), "i", "l"),
     Flow(Sticky(NestedLoops), "l", "x"),
     Flow(Sticky(LoopAfterLoop), "h", "x"),
     Flow(Sticky(LoopInIfInLoop), "h", "y"),
     Flow(Sticky(LoopInIfInLoop), "p", "y"),
     Flow(Sticky(IfThen), "e", "t"),
     Flow(Sticky(IfThenElse), "e", "u"),
     Flow(Sticky(NestedIf), "t", "u")}

\* Lanes that have left, that have not entered, and that wait for an outer loop.
StrayFlows ==
    {Flow(Stray(LoopWithIf), "h", "x"),
     Flow(Stray(LoopInIf), "h", "x"),
     Flow(Stray(NestedLoops), "i", "l")}

MCFlows == StickyFlows \cup StrayFlows
MCCfgs == {f.cfg : f \in MCFlows}

\* Three let an inner loop repeat in two iterations of the outer one; two let a
\* lane leave a loop, be drawn in again while another one stays, and go on.
MCMaxTrips == [g \in MCCfgs |-> IF g.sticky THEN 3 ELSE 2]
=============================================================================
