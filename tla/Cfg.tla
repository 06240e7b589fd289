--------------------------------- MODULE Cfg ---------------------------------
(***************************************************************************)
(* Control-flow graphs and the LLVM analyses the compiler asks about them  *)
(* (DominatorTreeAnalysis, LoopAnalysis).  A graph g is a record:          *)
(*   g.entry   the entry block                                             *)
(*   g.succ    block -> sequence of successors; of a conditional branch    *)
(*             successor 1 is taken when the condition is true             *)
(* The analyses are tables over the graphs of Cfgs: computed once, then    *)
(* looked up, as in the compiler.                                          *)
(***************************************************************************)
EXTENDS Naturals, Sequences, FiniteSets

CONSTANT Cfgs  \* the functions to consider

NoBlock == "none"

BlocksOf(g) == DOMAIN g.succ

Succs(g, b) == {g.succ[b][k] : k \in 1..Len(g.succ[b])}

Preds(g, b) == {p \in BlocksOf(g) : b \in Succs(g, p)}

IsConditional(g, b) == Len(g.succ[b]) = 2

\* The blocks reachable from the set S along edges that avoid the set A.
ReachableAvoiding(g, S, A) ==
    LET f[n \in 0..Cardinality(BlocksOf(g))] ==
            IF n = 0 THEN S \ A
            ELSE LET R == f[n - 1]
                 IN  R \cup ((UNION {Succs(g, b) : b \in R}) \ A)
    IN  f[Cardinality(BlocksOf(g))]

-----------------------------------------------------------------------------
DominatorTree ==
    [g \in Cfgs |->
        {e \in BlocksOf(g) \X BlocksOf(g) :
            e[1] = e[2] \/ e[2] \notin ReachableAvoiding(g, {g.entry}, {e[1]})}]

\* DominatorTree::dominates on blocks (reflexive).
Dominates(g, a, b) == <<a, b>> \in DominatorTree[g]

\* The sources of the backedges to h.
Latches(g, h) == {b \in Preds(g, h) : Dominates(g, h, b)}

Headers == [g \in Cfgs |-> {h \in BlocksOf(g) : Latches(g, h) # {}}]

LoopHeaders(g) == Headers[g]

\* The natural loops: header -> blocks.
LoopInfo ==
    [g \in Cfgs |->
        [h \in LoopHeaders(g) |->
            {h} \cup {b \in BlocksOf(g) :
                ReachableAvoiding(g, {b}, {h}) \cap Latches(g, h) # {}}]]

LoopBlocks(g, h) == LoopInfo[g][h]

\* LoopInfo::getLoopFor, as the header of the innermost loop around b.
LoopFor(g, b) ==
    LET around == {h \in LoopHeaders(g) : b \in LoopBlocks(g, h)}
    IN  IF around = {} THEN NoBlock
        ELSE CHOOSE h \in around :
                \A k \in around : LoopBlocks(g, h) \subseteq LoopBlocks(g, k)

\* Loop::getExitingBlock: the only block of the loop with an edge out of it.
ExitingBlock(g, h) ==
    LET exiting == {b \in LoopBlocks(g, h) :
                       Succs(g, b) \ LoopBlocks(g, h) # {}}
    IN  IF Cardinality(exiting) = 1 THEN CHOOSE b \in exiting : TRUE
        ELSE NoBlock

\* The exiting blocks of the innermost loops around them.
LoopTails ==
    [g \in Cfgs |-> {b \in BlocksOf(g) :
                        /\ LoopFor(g, b) # NoBlock
                        /\ b = ExitingBlock(g, LoopFor(g, b))}]

IsLoopTail(g, b) == b \in LoopTails[g]

Preheader(g, h) == CHOOSE p \in Preds(g, h) : ~Dominates(g, h, p)

\* The 'then' blocks of if-then patterns: they have one predecessor, which
\* branches on a condition and is not the tail of its loop.
ThenBlocks(g) ==
    {t \in BlocksOf(g) \ LoopHeaders(g) :
        \E p \in BlocksOf(g) : /\ Preds(g, t) = {p}
                               /\ IsConditional(g, p)
                               /\ ~IsLoopTail(g, p)}
=============================================================================
