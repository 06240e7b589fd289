----------------------------- MODULE GangValues ------------------------------
(***************************************************************************)
(* The values that cross blocks while a gang executes: PHIs, which become  *)
(* selects on a mask or stay PHIs of whole vectors (getPHISelectMask,      *)
(* transformPHIFirstPass), and values defined in a loop and used behind    *)
(* it, which LiveOutPHIsStep (src/compiler/src/live_out.cpp) routes        *)
(* through a "_livein" PHI and a "_liveout" select.                        *)
(*                                                                         *)
(* One value is followed: defined in block def, used in block use.  own[l] *)
(* is what lane l itself computed last, reg the vector register, in which  *)
(* the lanes outside the mask hold garbage.                                *)
(***************************************************************************)
EXTENDS GangExec

CONSTANTS
    Garbage, \* what an inactive lane's computation yields
    Poison,  \* PoisonValue, the initial _livein
    Flows    \* [cfg, def, use]: the value flows to consider

VARIABLES
    flow,     \* the definition and the use followed
    from,     \* the block the gang comes from
    laneFrom, \* the block each lane comes from on its own path
    own,      \* the value each lane computed last
    reg,      \* the vector register of the definition
    liveIn,   \* the _livein PHI
    liveOut   \* the _liveout select

-----------------------------------------------------------------------------
(* PHIs *)

IsJoin(g, b) == Cardinality(Preds(g, b)) = 2 /\ b \notin LoopHeaders(g)

\* getDominator: the incoming block that dominates the other one.
PHIDominator(g, b) ==
    CHOOSE p \in Preds(g, b) : \A q \in Preds(g, b) : Dominates(g, p, q)

PHIThenBlock(g, b) == CHOOSE p \in Preds(g, b) : p # PHIDominator(g, b)

-----------------------------------------------------------------------------
(* What the PHIs and the live-outs rely on, besides IsStructured *)

\* Where an if ends meet the block that branches and the last one of its
\* 'then' region, which jumps; no other block has two ways in, but headers.
JoinsEndIfs(g) ==
    /\ Preds(g, g.entry) = {}
    /\ \A j \in BlocksOf(g) \ LoopHeaders(g) :
          IF IsJoin(g, j)
          THEN LET p == PHIDominator(g, j)
                   q == PHIThenBlock(g, j)
               IN  /\ Preds(g, j) = {p, q}
                   /\ Len(g.succ[q]) = 1
                   /\ IsConditional(g, p) /\ ~IsLoopTail(g, p)
                   /\ g.succ[p][1] = ActiveMaskOf(g, q)
          ELSE \A p, q \in Preds(g, j) : p = q

\* LoopSimplify gives a loop a preheader and exits of its own, so that no
\* region is left to a header.
HeadersAreNoJoins(g) ==
    \A m \in MasksOf(g) \ {ArgMask} : Joins(g, m) \cap LoopHeaders(g) = {}

\* Dominance is an order, with the entry at its bottom and a loop's header
\* below the loop; what dominates a block is on every way to it.
DominanceOrders(g) ==
    /\ \A a, b \in BlocksOf(g) :
          /\ Dominates(g, a, b) /\ Dominates(g, b, a) => a = b
          /\ \A c \in BlocksOf(g) :
                Dominates(g, a, b) /\ Dominates(g, b, c) => Dominates(g, a, c)
          /\ Dominates(g, a, g.entry) => a = g.entry
          /\ \A s \in Succs(g, b) \ {a} : Dominates(g, a, s) => Dominates(g, a, b)
    /\ \A h \in LoopHeaders(g) : \A b \in LoopBlocks(g, h) : Dominates(g, h, b)

\* The use is behind the loop the definition is in.
LeavesLoop(f) ==
    /\ LoopFor(f.cfg, f.def) # NoBlock
    /\ f.use \notin LoopBlocks(f.cfg, LoopFor(f.cfg, f.def))

\* A definition dominates its use, which is governed by its mask; or it is in
\* no if of its loop, which has one latch, the only way out, and the use is
\* behind this loop only.
IsFlow(f) ==
    LET g == f.cfg
        loop == LoopFor(g, f.def)
    IN  /\ g \in Cfgs /\ f.def \in BlocksOf(g) /\ f.use \in BlocksOf(g) \ {f.def}
        /\ Dominates(g, f.def, f.use)
        /\ IF LeavesLoop(f)
           THEN /\ ActiveMaskOf(g, f.def) = loop
                /\ HasOneTail(g, loop)
                /\ Dominates(g, f.def, ExitingBlock(g, loop))
                /\ \A m \in MasksOf(g) \ {loop} :
                      loop \in Region(g, m) => f.use \in Region(g, m)
           ELSE f.use \in Region(g, ActiveMaskOf(g, f.def))

ASSUME ValuesAssumption ==
    /\ \A g \in Cfgs : JoinsEndIfs(g) /\ HeadersAreNoJoins(g) /\ DominanceOrders(g)
    /\ \A f \in Flows : IsFlow(f)

-----------------------------------------------------------------------------
valueVars == <<flow, from, laneFrom, own, reg, liveIn, liveOut>>

Everywhere(v) == [l \in Lanes |-> v]

\* The loop whose live-out the definition is: the innermost one around it.
DefLoop == LoopFor(cfg, flow.def)

ValuesInit ==
    /\ Init
    /\ flow \in {f \in Flows : f.cfg = cfg}
    /\ from = NoBlock
    /\ laneFrom = Everywhere(NoBlock)
    /\ own = Everywhere(Poison)
    /\ reg = Everywhere(Poison)
    /\ liveIn = Everywhere(Poison)
    /\ liveOut = Everywhere(Poison)

\* Executing the definition writes the whole register.  The values of
\* different iterations differ: a value is the number of its iteration.
Define(b) ==
    IF b = flow.def
    THEN /\ reg' = [l \in Lanes |->
                       IF l \in ActiveLanes(b) THEN trips ELSE Garbage]
         /\ own' = [l \in Lanes |->
                       IF l \in OnPath(b) THEN trips ELSE own[l]]
    ELSE UNCHANGED <<reg, own>>

IsLiveOut == LeavesLoop(flow)

\* The select in front of the tail's terminator: select(mask of the tail,
\* the definition, _livein).
LiveOutUnmasked(tail, r) == r
LiveOutSelect(tail, r) ==
    [l \in Lanes |-> IF l \in ActiveLanes(tail) THEN r[l] ELSE liveIn[l]]

LiveOut(b) ==
    liveOut' = IF IsLiveOut /\ b = ExitingBlock(cfg, DefLoop)
               THEN LiveOutSelect(b, reg') ELSE liveOut

\* The _livein PHI in the header: poison from the preheader, _liveout from
\* the tail.
LiveInPHI(b) ==
    IF b = ExitingBlock(cfg, DefLoop) THEN liveOut' ELSE Everywhere(Poison)

LiveIn(b) ==
    liveIn' = IF IsLiveOut /\ block' = DefLoop THEN LiveInPHI(b) ELSE liveIn

\* replaceUsesWithIf: the uses outside the loop read the select.
ValueUsed == IF IsLiveOut THEN liveOut ELSE reg

Carry(b) ==
    /\ Define(b)
    /\ LiveOut(b)
    /\ LiveIn(b)
    /\ from' = b
    /\ laneFrom' = [l \in Lanes |->
                       IF l \in OnPath(b) THEN b ELSE laneFrom[l]]
    /\ UNCHANGED flow

ExecuteWithValues(b) == Execute(b) /\ Carry(b)

ValuesNext ==
    \/ \E b \in BlocksOf(cfg) : ExecuteWithValues(b)
    \/ Ended /\ UNCHANGED valueVars

ValuesSpec == ValuesInit /\ [][ValuesNext]_<<vars, valueVars>>

ValuesFairSpec == ValuesSpec /\ WF_<<vars, valueVars>>(ValuesNext)

-----------------------------------------------------------------------------
\* The incoming block whose value lane l ends up with: a PHI of two forward
\* edges becomes select(mask of the 'then' block, the PHI, the dominator's
\* value); the PHI of a loop header stays the choice the whole gang makes.
PHISourceOfGang(b, l) == from
PHISource(b, l) ==
    IF IsJoin(cfg, b) /\ l \notin mask[ActiveMaskOf(cfg, PHIThenBlock(cfg, b))]
    THEN PHIDominator(cfg, b)
    ELSE from

-----------------------------------------------------------------------------
\* Every PHI gives each lane on its path the value of the edge the lane itself
\* came over, although the gang arrives over one edge for all of them
\* (transform.cpp:1207-1233: "the select does what we wanted").
PHIValueIsOwn ==
    block # Exit =>
        \A l \in OnPath(block) :
            Preds(cfg, block) # {} => PHISource(block, l) = laneFrom[l]

\* A value is, for every lane that uses it, the one the lane computed last:
\* behind a loop that of its own last iteration, however many iterations the
\* other lanes added.
LiveOutIsOwn ==
    block = flow.use =>
        \A l \in OnPath(block) : ValueUsed[l] = own[l]
=============================================================================
