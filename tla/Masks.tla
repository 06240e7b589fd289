-------------------------------- MODULE Masks --------------------------------
(***************************************************************************)
(* MasksStep (src/compiler/src/mask.cpp): one pass over the blocks in      *)
(* function order gives every block its entry mask and its active mask.    *)
(* calculateBBMasks recurses into predecessors that have no masks yet and  *)
(* stores a null mask first, so that the recursion ends; the call stack is *)
(* explicit here.  finalizeMaskPHIs runs last and inverts the branches     *)
(* that close loops.                                                       *)
(*                                                                         *)
(* A created mask instruction is named by the block it is created for, as  *)
(* in MaskRules; NullMask is the nullptr of a block still being visited.   *)
(***************************************************************************)
EXTENDS Regions

CONSTANT NullMask  \* nullptr

-----------------------------------------------------------------------------
(* What the pass relies on, besides IsStructured *)

\* The predecessors but for the sources of backedges.
Forward(g, b) == Preds(g, b) \ Latches(g, b)

\* Only backedges close cycles.
CyclesAreLoops(g) ==
    \A S \in (SUBSET BlocksOf(g)) \ {{}} : \E b \in S : Forward(g, b) \cap S = {}

\* Dominance is transitive, and what dominates all ways to a block dominates
\* the block.
DominatorsGather(g) ==
    \A a, b \in BlocksOf(g) :
        /\ \A c \in BlocksOf(g) :
              Dominates(g, a, b) /\ Dominates(g, b, c) => Dominates(g, a, c)
        /\ b # g.entry /\ (\A p \in Forward(g, b) : Dominates(g, a, p)) => Dominates(g, a, b)

\* Every block is reached; a loop is entered from one block; elsewhere two ways
\* meet only behind an if, and the block with the if dominates the other one.
WaysMeet(g) ==
    \A b \in BlocksOf(g) :
        /\ Preds(g, b) = {} <=> b = g.entry
        /\ b \in LoopHeaders(g) => \E p \in BlocksOf(g) : Forward(g, b) = {p}
        /\ b \notin LoopHeaders(g) =>
              \/ \A p, q \in Preds(g, b) : p = q
              \/ /\ Cardinality(Preds(g, b)) = 2
                 /\ \E d \in Preds(g, b) : \A p \in Preds(g, b) : Dominates(g, d, p)
                 /\ \A d \in Preds(g, b) :
                       IsLoopTail(g, d) => \E p \in Preds(g, b) : ~Dominates(g, d, p)

TailsCloseLoops(g) ==
    /\ \A h \in LoopHeaders(g) : HasOneTail(g, h)
    /\ \A b \in BlocksOf(g) : IsLoopTail(g, b) => LoopFor(g, b) = g.succ[b][2]

ASSUME MasksAssumption ==
    \A g \in Cfgs :
        /\ IsStructured(g) /\ CyclesAreLoops(g) /\ DominatorsGather(g)
        /\ WaysMeet(g) /\ TailsCloseLoops(g)
        /\ NullMask \notin MasksOf(g)

VARIABLES
    cfg,       \* the function, as it was before the pass
    unvisited, \* the blocks the loop of calculate() has yet to reach
    stack,     \* active calls of calculateBBMasks, innermost last
    bb_masks,  \* block -> masks, for the blocks seen so far
    created,   \* block -> the mask instruction created for it
    condition, \* block -> the condition of its terminator
    swaps,     \* block -> how often swapSuccessors() was applied to it
    phis,      \* loop_header_active_mask_phis
    pc         \* "visit", "finalize", "done" or "abort" (FATAL, assert)

vars == <<cfg, unvisited, stack, bb_masks, created, condition, swaps, phis, pc>>

\* What a branch condition may be: the original one, a mask, an inversion.
\* The second operand of a loop PHI is filled in by finalizeMaskPHIs.
Deferred == <<"deferred">>
Original == <<"original">>
MaskValue(b) == <<"mask", b>>
Negated(c) == <<"not", c>>

Seen == DOMAIN bb_masks

Put(f, k, v) == [x \in DOMAIN f \cup {k} |-> IF x = k THEN v ELSE f[x]]

-----------------------------------------------------------------------------
Init ==
    /\ cfg \in Cfgs
    /\ unvisited = BlocksOf(cfg)
    /\ stack = <<>>
    /\ bb_masks = [b \in {} |-> NullMask]
    /\ created = [b \in {} |-> NullMask]
    /\ condition = [b \in BlocksOf(cfg) |-> Original]
    /\ swaps = [b \in BlocksOf(cfg) |-> 0]
    /\ phis = <<>>
    /\ pc = "visit"

\* The predecessors a handler recurses into before it reads their masks; for
\* a loop header not the loopback ("don't skip forward").
LoopHeaderCallsAll(b) == Preds(cfg, b)
LoopHeaderCalls(b) == {Preheader(cfg, b)}

TwoPredecessorsCalls(b) == Preds(cfg, b)

Calls(b) ==
    CASE b \in LoopHeaders(cfg) -> LoopHeaderCalls(b)
      [] b \notin LoopHeaders(cfg) /\ Cardinality(Preds(cfg, b)) = 2 ->
            TwoPredecessorsCalls(b)
      [] OTHER -> Preds(cfg, b)

\* calculateBBMasks(b): nothing for a block already seen; otherwise store the
\* null masks, so that the recursion ends, and start b's handler.
CalculateBBMasks(b, callers) ==
    IF b \in Seen
    THEN stack' = callers /\ UNCHANGED bb_masks
    ELSE /\ stack' = Append(callers, [block |-> b, calls |-> Calls(b)])
         /\ bb_masks' = Put(bb_masks, b,
                            [entry |-> NullMask, active |-> NullMask])

\* The loop of calculate(); the blocks behind the entry come in any order.
NextBlock(b) ==
    /\ pc = "visit" /\ stack = <<>> /\ b \in unvisited
    /\ cfg.entry \in unvisited => b = cfg.entry
    /\ unvisited' = unvisited \ {b}
    /\ CalculateBBMasks(b, <<>>)
    /\ UNCHANGED <<cfg, created, condition, swaps, phis, pc>>

Top == stack[Len(stack)]
Callers == SubSeq(stack, 1, Len(stack) - 1)

\* The running handler calls calculateBBMasks for a predecessor.
Recurse(p) ==
    /\ pc = "visit" /\ stack # <<>> /\ p \in Top.calls
    /\ CalculateBBMasks(p, Append(Callers, [Top EXCEPT !.calls = @ \ {p}]))
    /\ UNCHANGED <<cfg, unvisited, created, condition, swaps, phis, pc>>

-----------------------------------------------------------------------------
(* What the handlers store once their predecessors have been visited       *)

EntryMaskFromPredecessorActive(p) == bb_masks[p].active
EntryMaskFromPredecessor(p) ==
    IF IsLoopTail(cfg, p) THEN bb_masks[LoopFor(cfg, p)].entry
                          ELSE bb_masks[p].active

ThePredecessor(b) == CHOOSE p \in BlocksOf(cfg) : Preds(cfg, b) = {p}

\* The predecessor that dominates the other one (getDominator).
DominatorPred(b) ==
    CHOOSE p \in Preds(cfg, b) : \A q \in Preds(cfg, b) : Dominates(cfg, p, q)

\* Case 3 of a single predecessor: b is the 'then' block of an if-then.
ThenNoTailCheck(b) == IsConditional(cfg, ThePredecessor(b))
IsThen(b) == /\ IsConditional(cfg, ThePredecessor(b))
             /\ ~IsLoopTail(cfg, ThePredecessor(b))

\* The FATALs and the assertion of the handler for b.
Aborts(b) ==
    LET n == Cardinality(Preds(cfg, b)) IN
    \/ b \in LoopHeaders(cfg) /\ n # 2
    \/ n > 2
    \/ n = 1 /\ IsThen(b) /\ cfg.succ[ThePredecessor(b)][1] # b
    \/ n = 2 /\ \A p, q \in Preds(cfg, b) : p # q => ~Dominates(cfg, p, q)

HandlerReturns(b) ==
    /\ pc = "visit" /\ stack # <<>> /\ Top.calls = {} /\ b = Top.block
    /\ stack' = Callers
    /\ pc' = IF Aborts(b) THEN "abort" ELSE pc
    /\ UNCHANGED <<cfg, unvisited, swaps>>

BBMaskEntry(b) ==
    /\ HandlerReturns(b)
    /\ Preds(cfg, b) = {}
    /\ bb_masks' = Put(bb_masks, b, [entry |-> ArgMask, active |-> ArgMask])
    /\ UNCHANGED <<created, condition, phis>>

BBMaskLoopHeader(b) ==
    /\ HandlerReturns(b)
    /\ b \in LoopHeaders(cfg)
    /\ LET entry == EntryMaskFromPredecessor(Preheader(cfg, b)) IN
       /\ bb_masks' = Put(bb_masks, b, [entry |-> entry, active |-> b])
       /\ created' = Put(created, b, [op |-> "phi", left |-> entry,
                                      right |-> Deferred])
    /\ phis' = Append(phis, b)
    /\ UNCHANGED condition

BBMaskInherit(b) ==
    /\ HandlerReturns(b)
    /\ b \notin LoopHeaders(cfg) /\ Cardinality(Preds(cfg, b)) = 1
    /\ ~IsThen(b)
    /\ LET entry == EntryMaskFromPredecessor(ThePredecessor(b)) IN
       bb_masks' = Put(bb_masks, b, [entry |-> entry, active |-> entry])
    /\ UNCHANGED <<created, condition, phis>>

BBMaskThen(b) ==
    /\ HandlerReturns(b)
    /\ b \notin LoopHeaders(cfg) /\ Cardinality(Preds(cfg, b)) = 1
    /\ IsThen(b)
    /\ LET p == ThePredecessor(b) IN
       /\ created' = Put(created, b, [op |-> "and",
                                      left |-> EntryMaskFromPredecessor(p),
                                      right |-> condition[p]])
       /\ condition' = [condition EXCEPT ![p] = MaskValue(b)]
    /\ bb_masks' = Put(bb_masks, b, [entry |-> b, active |-> b])
    /\ UNCHANGED phis

BBMaskTwoPredecessors(b) ==
    /\ HandlerReturns(b)
    /\ b \notin LoopHeaders(cfg) /\ Cardinality(Preds(cfg, b)) = 2
    /\ bb_masks' = Put(bb_masks, b, bb_masks[DominatorPred(b)])
    /\ UNCHANGED <<created, condition, phis>>

-----------------------------------------------------------------------------
StartFinalize ==
    /\ pc = "visit" /\ stack = <<>> /\ unvisited = {}
    /\ pc' = "finalize"
    /\ UNCHANGED <<cfg, unvisited, stack, bb_masks, created, condition, swaps,
                   phis>>

LatchIsPreheader(h) == Preheader(cfg, h)
TheLatch(h) == CHOOSE b \in BlocksOf(cfg) : b \in Latches(cfg, h)

RepeatUninverted(l) == condition[l]
RepeatCondition(l) == Negated(condition[l])

\* One iteration of finalizeMaskPHIs.
FinalizePHI ==
    /\ pc = "finalize" /\ phis # <<>>
    /\ LET h == Head(phis)
           l == TheLatch(h)
       IN  /\ condition' = [condition EXCEPT ![l] = RepeatCondition(l)]
           /\ created' = [created EXCEPT ![h].right = RepeatCondition(l)]
           /\ swaps' = [swaps EXCEPT ![l] = @ + 1]
           /\ pc' = IF IsConditional(cfg, l) THEN pc ELSE "abort"
    /\ phis' = Tail(phis)
    /\ UNCHANGED <<cfg, unvisited, stack, bb_masks>>

Return ==
    /\ pc = "finalize" /\ phis = <<>>
    /\ pc' = "done"
    /\ UNCHANGED <<cfg, unvisited, stack, bb_masks, created, condition, swaps,
                   phis>>

Ended == pc \in {"done", "abort"} /\ UNCHANGED vars

Handler(b) == \/ BBMaskEntry(b)
              \/ BBMaskLoopHeader(b)
              \/ BBMaskInherit(b)
              \/ BBMaskThen(b)
              \/ BBMaskTwoPredecessors(b)

Next ==
    \/ \E b \in BlocksOf(cfg) : NextBlock(b)
    \/ \E b \in BlocksOf(cfg) : Recurse(b)
    \/ \E b \in BlocksOf(cfg) : Handler(b)
    \/ StartFinalize
    \/ FinalizePHI
    \/ Return
    \/ Ended

Spec == Init /\ [][Next]_vars

-----------------------------------------------------------------------------
\* No handler copies the null placeholder of a block that is still being
\* visited: outside the call stack every mask is a real one, and so is every
\* mask an instruction was built from, in any order of the blocks.
NoNullMask ==
    /\ \A b \in Seen \ {stack[k].block : k \in 1..Len(stack)} :
          bb_masks[b].active # NullMask /\ bb_masks[b].entry # NullMask
    /\ \A b \in DOMAIN created : created[b].left # NullMask

\* None of the FATALs and assertions fires on a structurized function.
NoAbort == pc # "abort"

\* Whatever the block order, the pass assigns every block the innermost mask
\* that governs it in the graph, and gives a loop the mask it is entered with.
MasksCorrect ==
    pc = "done" =>
        \A b \in BlocksOf(cfg) :
            /\ bb_masks[b].active = ActiveMaskOf(cfg, b)
            /\ b \in LoopHeaders(cfg) =>
                  bb_masks[b].entry = LoopEntryMaskOf(cfg, b)

\* Every mask instruction is built from the right parts: an And of the mask
\* and the original condition of its predecessor, a PHI of the loop's entry
\* mask and the inverted condition of the tail.
InstructionsCorrect ==
    pc = "done" =>
        /\ DOMAIN created = ThenBlocks(cfg) \cup LoopHeaders(cfg)
        /\ \A t \in ThenBlocks(cfg) :
              created[t] = [op |-> "and",
                            left |-> ActiveMaskOf(cfg, ThePredecessor(t)),
                            right |-> Original]
        /\ \A h \in LoopHeaders(cfg) :
              created[h] = [op |-> "phi", left |-> LoopEntryMaskOf(cfg, h),
                            right |-> Negated(Original)]

\* Every branch ends up testing the right thing with the right polarity: an
\* if its 'then' mask, a loop tail the repeat condition with its successors
\* swapped exactly once; no other branch is touched.
BranchesCorrect ==
    pc = "done" =>
        \A b \in BlocksOf(cfg) :
            LET thens == ThenBlocks(cfg) \cap Succs(cfg, b)
                tail == \E h \in LoopHeaders(cfg) : b \in Latches(cfg, h)
            IN  /\ swaps[b] = (IF tail THEN 1 ELSE 0)
                /\ tail => condition[b] = Negated(Original)
                /\ \A t \in thens : condition[b] = MaskValue(t)
                /\ ~tail /\ thens = {} => condition[b] = Original
=============================================================================
