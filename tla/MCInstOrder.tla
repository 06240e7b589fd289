---------------------------- MODULE MCInstOrder ----------------------------
(* A loop with an if-then in its body, as StructurizeCFG and MasksStep     *)
(* leave it:  E -> H;  H -> T, L;  T -> L;  L -> H, X.  The operands of    *)
(* the loop-carried PHIs p and q, of the condition c, of the 'then'        *)
(* instruction t, of the join PHI s and of the use x range over the values *)
(* in scope.                                                               *)
EXTENDS InstOrder

MCInst == {"e", "hm", "p", "q", "c", "tm", "t", "s", "r", "x"}
MCProgramOrder == <<"e", "hm", "p", "q", "c", "tm", "t", "s", "r", "x">>
MCPHIs == {"hm", "p", "q", "s"}
MCMaskNamed == {"hm", "tm", "r"}

BlockOf ==
    [i \in MCInst |->
        CASE i = "e" -> "E"
          [] i \in {"hm", "p", "q", "c", "tm"} -> "H"
          [] i = "t" -> "T"
          [] i \in {"s", "r"} -> "L"
          [] i = "x" -> "X"]

Position(i) == CHOOSE k \in 1..Len(MCProgramOrder) : MCProgramOrder[k] = i

\* Strict dominance of blocks in the control-flow graph above.
BlockDominates(a, b) ==
    \/ a = "E" /\ b # "E"
    \/ a = "H" /\ b \in {"T", "L", "X"}
    \/ a = "L" /\ b = "X"

\* DominatorTree::dominates(Def, User): a PHI is dominated only from another
\* block, an instruction of the same block by the instructions above it.
MCDominates ==
    [d \in MCInst |->
        {u \in MCInst \ {d} :
            \/ BlockDominates(BlockOf[d], BlockOf[u])
            \/ /\ BlockOf[d] = BlockOf[u]
               /\ u \notin MCPHIs
               /\ Position(d) < Position(u)}]

MCBlockMask ==
    [i \in MCInst |-> CASE BlockOf[i] \in {"E", "X"} -> "none"
                        [] BlockOf[i] \in {"H", "L"} -> "hm"
                        [] BlockOf[i] = "T" -> "tm"]

MCSelectMask == [i \in MCInst |-> IF i = "s" THEN "tm" ELSE "none"]

Program(pBack, qBack, cOps, tOps, sOps, xOp) ==
    [i \in MCInst |-> CASE i = "e"  -> {}
                        [] i = "hm" -> {"r"}
                        [] i = "p"  -> {"e", pBack}
                        [] i = "q"  -> {"e", qBack}
                        [] i = "c"  -> cOps
                        [] i = "tm" -> {"hm", "c"}
                        [] i = "t"  -> tOps
                        [] i = "s"  -> sOps
                        [] i = "r"  -> {"s"}
                        [] i = "x"  -> {xOp}]

ProgramsWith(backs) ==
    {Program(b[1], b[2], cOps, tOps, sOps, xOp) :
        b \in backs, cOps \in {{"p"}, {"p", "q"}, {"e"}},
        tOps \in {{"p"}, {"c"}}, sOps \in {{"p", "t"}, {"q", "t"}, {"p", "e"}},
        xOp \in {"s", "p"}}

\* p and q may feed each other over the backedge, one way but not both ways.
Chained ==
    ProgramsWith({<<"s", "s">>, <<"c", "s">>, <<"s", "c">>,
                  <<"q", "s">>, <<"s", "p">>, <<"q", "c">>})

\* A loop that swaps two variables: p = phi(e, q), q = phi(e, p).
Swapped == ProgramsWith({<<"q", "p">>})

ChainedOrSwapped == Chained \cup Swapped
=============================================================================
