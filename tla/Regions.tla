------------------------------- MODULE Regions --------------------------------
(***************************************************************************)
(* The form in which LoopSimplify, UnifyLoopExits and StructurizeCFG leave *)
(* a function (the passes of preprocessFunction, module.cpp), as far as    *)
(* masks rely on it: a mask governs a region with one way in and one way   *)
(* out.                                                                    *)
(***************************************************************************)
EXTENDS MaskRules

MasksOf(g) == {ArgMask} \cup ThenBlocks(g) \cup LoopHeaders(g)

\* The blocks a mask governs.
Region(g, m) ==
    IF m = ArgMask THEN BlocksOf(g) ELSE {b \in BlocksOf(g) : Governs(g, m, b)}

\* Where the edges out of a region go.
Joins(g, m) ==
    {s \in BlocksOf(g) \ Region(g, m) : \E b \in Region(g, m) : s \in Succs(g, b)}

\* The mask m is the innermost of those of ms that govern block b.
IsInnermost(g, m, ms, b) ==
    /\ m \in ms
    /\ b \in Region(g, m)
    /\ \A n \in ms : b \in Region(g, n) => Region(g, m) \subseteq Region(g, n)

\* Blocks end in a return, a jump or a conditional branch.
Graph(g) ==
    /\ {"exit", NoBlock, ArgMask} \cap BlocksOf(g) = {}
    /\ g.entry \in BlocksOf(g)
    /\ \A b \in BlocksOf(g) :
          /\ g.succ[b] \in Seq(BlocksOf(g))
          /\ Len(g.succ[b]) \in 0..2

\* Regions are nested, and the masks are those of the innermost ones; the
\* block a region is named for is in no smaller one.
RegionsNest(g) ==
    /\ \A m \in MasksOf(g) \ {ArgMask} : ActiveMaskOf(g, m) = m
    /\ \A b \in BlocksOf(g) : IsInnermost(g, ActiveMaskOf(g, b), MasksOf(g), b)
    /\ \A h \in LoopHeaders(g) :
          IsInnermost(g, LoopEntryMaskOf(g, h), MasksOf(g) \ {h}, h)

\* A region is entered at the block it is named for, and left to one block,
\* which the regions around it contain.
OneWayInAndOut(g) ==
    \A m \in MasksOf(g) \ {ArgMask} :
        /\ g.entry \notin Region(g, m)
        /\ \A b \in BlocksOf(g) \ Region(g, m) : Succs(g, b) \cap Region(g, m) \subseteq {m}
        /\ \A x, y \in Joins(g, m) : x = y
        /\ \A n \in MasksOf(g) \ {m} :
              Region(g, m) \subseteq Region(g, n) => Joins(g, m) \subseteq Region(g, n)

\* An if goes into its 'then' region or around it.
IfsAreThens(g) ==
    \A b \in BlocksOf(g) :
        IsConditional(g, b) /\ ~IsLoopTail(g, b) =>
            LET then == g.succ[b][1]
            IN  /\ then \in ThenBlocks(g)
                /\ then \in Region(g, then)
                /\ b \notin Region(g, then)
                /\ Region(g, then) \subseteq Region(g, ActiveMaskOf(g, b))
                /\ g.succ[b][2] \in Joins(g, then) \ ThenBlocks(g)

\* A loop is left and repeated at its tail, under its own mask.
LoopsHaveTails(g) ==
    /\ \A b \in BlocksOf(g) :
          IsLoopTail(g, b) =>
              /\ IsConditional(g, b)
              /\ g.succ[b][2] \in LoopHeaders(g)
              /\ ActiveMaskOf(g, b) = g.succ[b][2]
              /\ g.succ[b][1] \in Joins(g, g.succ[b][2])
    /\ \A h \in LoopHeaders(g) :
          /\ h \in Region(g, h)
          /\ \A b \in Preds(g, h) : Dominates(g, h, b) <=> b \in Region(g, h)

\* Only the whole function returns.
ReturnsAreOutside(g) ==
    \A b \in BlocksOf(g) : Succs(g, b) = {} => ActiveMaskOf(g, b) = ArgMask

IsStructured(g) ==
    /\ Graph(g)
    /\ RegionsNest(g)
    /\ OneWayInAndOut(g)
    /\ IfsAreThens(g)
    /\ LoopsHaveTails(g)
    /\ ReturnsAreOutside(g)

\* LoopSimplify and UnifyLoopExits: the loop of h has one latch, which is its
\* only way out.
HasOneTail(g, h) ==
    LET tail == ExitingBlock(g, h)
    IN  /\ Latches(g, h) = {tail} /\ IsLoopTail(g, tail)
        /\ g.succ[tail][2] = h
        /\ \A b \in LoopBlocks(g, h) \ {tail} : Succs(g, b) \subseteq LoopBlocks(g, h)
===============================================================================
