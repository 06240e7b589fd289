------------------------------ MODULE MaskRules ------------------------------
(***************************************************************************)
(* Which mask governs which block, stated on the graph alone.  A mask is   *)
(* named by the block it is created for: a loop header (the PHI            *)
(* "_loop_active_mask") or a 'then' block (the And "_active_mask"); the    *)
(* mask the function is called with is "arg".                              *)
(***************************************************************************)
EXTENDS Cfg

ArgMask == "arg"

\* A 'then' block governs the blocks it dominates (the join of the if-then is
\* not among them), a loop header the blocks of its loop.
Governs(g, m, b) ==
    \/ m \in ThenBlocks(g) /\ Dominates(g, m, b)
    \/ m \in LoopHeaders(g) /\ b \in LoopBlocks(g, m)

\* The innermost of a set of governing blocks.
Innermost(g, ms) ==
    IF ms = {} THEN ArgMask
    ELSE CHOOSE m \in ms : \A k \in ms : Dominates(g, k, m)

\* The mask of the lanes that execute a block.
ActiveMasks ==
    [g \in Cfgs |-> [b \in BlocksOf(g) |->
        Innermost(g, {m \in BlocksOf(g) : Governs(g, m, b)})]]

ActiveMaskOf(g, b) == ActiveMasks[g][b]

\* The mask of the lanes that enter a loop.
LoopEntryMasks ==
    [g \in Cfgs |-> [h \in LoopHeaders(g) |->
        Innermost(g, {m \in BlocksOf(g) \ {h} : Governs(g, m, h)})]]

LoopEntryMaskOf(g, h) == LoopEntryMasks[g][h]
=============================================================================
