------------------------------ MODULE GangExec -------------------------------
(***************************************************************************)
(* The execution of a vectorized function: one program counter for the     *)
(* whole gang, and per block the mask of the lanes it is executed for.     *)
(* The masks are those MasksStep assigns (MaskRules; module Masks shows    *)
(* that the pass computes them); a conditional branch is taken as soon as  *)
(* any lane of its mask wants it (TransformStep::transformBranch).         *)
(*                                                                         *)
(* at[l] is the block lane l has reached on its own path: what the scalar  *)
(* function would do.  It is moved only when the gang executes a block     *)
(* with l in its mask, since only then do l's side effects happen.         *)
(*                                                                         *)
(* The mask of the next iteration is the inverted exit condition of all    *)
(* lanes, not only of those that are in the loop.  A lane that is drawn    *)
(* into a loop by a condition it computes outside leaves its own path: it  *)
(* is kept in strays, and its at[l] stays behind.                          *)
(***************************************************************************)
EXTENDS Regions

CONSTANTS
    Lanes,   \* the lanes of the gang
    MaxTrips \* function -> how often lanes may repeat its loops, over the whole run
\* A function is a graph that says, besides, if its exits are sticky: the exit
\* condition of a loop is TRUE for a lane that is not (or no longer) in it.

ASSUME GangAssumption ==
    /\ Lanes # {}
    /\ MaxTrips \in [Cfgs -> Nat]
    /\ \A g \in Cfgs : IsStructured(g) /\ g.sticky \in BOOLEAN

VARIABLES
    cfg,
    block, \* the block the gang executes next, or Exit
    mask,  \* the value of every mask: mask name -> set of lanes
    at,
    strays, \* the lanes that have been drawn into a loop they were not in
    trips  \* how often a tail has been left over its backedge

vars == <<cfg, block, mask, at, strays, trips>>

Exit == "exit"

ActiveLanes(b) == mask[ActiveMaskOf(cfg, b)]

-----------------------------------------------------------------------------
\* A masked variant is called for some of the lanes, an unmasked one for all.
Init ==
    /\ cfg \in Cfgs
    /\ block = cfg.entry
    /\ \E called \in (SUBSET Lanes) \ {{}} :
          /\ mask = [m \in BlocksOf(cfg) \cup {ArgMask} |->
                        IF m = ArgMask THEN called ELSE {}]
          /\ at = [l \in Lanes |-> IF l \in called THEN cfg.entry ELSE Exit]
    /\ strays = {}
    /\ trips = 0

\* The lanes for which the terminator's condition may be computed as TRUE.
\* The condition is an ordinary vector value: lanes outside the block's mask
\* hold whatever the unmasked instructions made of their stale registers.
Conditions(b) ==
    {c \in SUBSET Lanes :
        IsLoopTail(cfg, b) =>
            /\ trips = MaxTrips[cfg] => c = Lanes
            /\ cfg.sticky => Lanes \ ActiveLanes(b) \subseteq c}

\* BinaryOperator::And of calculateBBMaskSinglePredecessor.
ThenMaskUnmasked(b, c) == c
ThenMask(b, c) == ActiveLanes(b) \cap c

\* The "_repeat_mask": the inverted condition, for all lanes.
RepeatMask(b, c) == Lanes \ c

\* The or-reduction "_any" of transformBranch.
AnyAlways(lanes) == TRUE
Any(lanes) == lanes # {}

\* Branching from block b to block s: a loop entered from its preheader
\* starts with the mask it is entered with.
LoopStartFromFunction(m, b, s) ==
    IF s \in LoopHeaders(cfg) /\ ~Dominates(cfg, s, b)
    THEN [m EXCEPT ![s] = m[ArgMask]]
    ELSE m
LoopStart(m, b, s) ==
    IF s \in LoopHeaders(cfg) /\ ~Dominates(cfg, s, b)
    THEN [m EXCEPT ![s] = m[LoopEntryMaskOf(cfg, s)]]
    ELSE m

GoTo(b, s, m) == block' = s /\ mask' = LoopStart(m, b, s)

\* The lanes of the mask of b that are on their own path.
OnPath(b) == ActiveLanes(b) \ strays

\* They follow their own edges.
LanesFollow(b, c) ==
    at' = [l \in Lanes |->
              IF l \notin OnPath(b) THEN at[l]
              ELSE CASE Succs(cfg, b) = {} -> Exit
                     [] Len(cfg.succ[b]) = 1 -> cfg.succ[b][1]
                     [] Len(cfg.succ[b]) = 2 ->
                           cfg.succ[b][IF l \in c THEN 1 ELSE 2]]

ReturnNowhere(b) ==
    /\ block = b /\ Succs(cfg, b) = {}
    /\ block' = NoBlock
    /\ LanesFollow(b, {})
    /\ UNCHANGED <<cfg, mask, strays, trips>>
ReturnFrom(b) ==
    /\ block = b /\ Succs(cfg, b) = {}
    /\ block' = Exit
    /\ LanesFollow(b, {})
    /\ UNCHANGED <<cfg, mask, strays, trips>>

Jump(b) ==
    /\ block = b /\ Len(cfg.succ[b]) = 1
    /\ GoTo(b, cfg.succ[b][1], mask)
    /\ LanesFollow(b, {})
    /\ UNCHANGED <<cfg, strays, trips>>

\* An if: its 'then' mask is computed, the 'then' block is entered if any
\* lane wants it, skipped otherwise.
If(b, c) ==
    /\ block = b /\ IsConditional(cfg, b) /\ ~IsLoopTail(cfg, b)
    /\ LET then == cfg.succ[b][1]
           m == [mask EXCEPT ![then] = ThenMask(b, c)]
       IN  GoTo(b, IF Any(m[then]) THEN then ELSE cfg.succ[b][2], m)
    /\ LanesFollow(b, c)
    /\ UNCHANGED <<cfg, strays, trips>>

\* A loop tail: the loop repeats, with the repeat mask as the active mask of
\* its header, as long as any lane wants to.
RepeatOrLeave(b, c) ==
    /\ block = b /\ IsLoopTail(cfg, b)
    /\ LET header == cfg.succ[b][2]
           again == Any(RepeatMask(b, c))
       IN  /\ IF again
              THEN /\ block' = header
                   /\ mask' = [mask EXCEPT ![header] = RepeatMask(b, c)]
              ELSE GoTo(b, cfg.succ[b][1], mask)
           /\ trips' = IF again /\ trips < MaxTrips[cfg] THEN trips + 1 ELSE trips
    /\ LanesFollow(b, c)
    /\ strays' = strays \cup (RepeatMask(b, c) \ ActiveLanes(b))
    /\ UNCHANGED cfg

Ended == block = Exit /\ UNCHANGED vars

Execute(b) ==
    \/ ReturnFrom(b)
    \/ Jump(b)
    \/ \E c \in Conditions(b) : If(b, c)
    \/ \E c \in Conditions(b) : RepeatOrLeave(b, c)

Next == (\E b \in BlocksOf(cfg) : Execute(b)) \/ Ended

Spec == Init /\ [][Next]_vars

\* A gang is an ordinary sequential function: it keeps executing.
FairSpec == Spec /\ WF_vars(Next)

-----------------------------------------------------------------------------
\* A block is executed for exactly the lanes whose own path is at that block:
\* no lane's side effects happen where the scalar function would not go, and
\* no lane is carried past a block it should execute, whatever the lanes do
\* that have been drawn into a loop.
Lockstep ==
    IF block = Exit THEN \A l \in Lanes \ strays : at[l] = Exit
    ELSE OnPath(block) = {l \in Lanes \ strays : at[l] = block}

\* A block runs only if it is active for some lane: uniform instructions, a
\* scalar store for instance, are executed without any mask.
NoEmptyPass == block # Exit => ActiveLanes(block) # {}

\* A loop is executed for lanes that entered it, of which the mask of the last
\* iteration has only some left (mask.cpp:49-51).
OnlyEntrantsRepeat ==
    \A h \in LoopHeaders(cfg) :
        block \in LoopBlocks(cfg, h) => mask[h] \subseteq mask[LoopEntryMaskOf(cfg, h)]

\* The gang carries every lane to the end of the function, unless a loop
\* draws it in.
AllLanesFinish == \A l \in Lanes : <>(at[l] = Exit \/ l \in strays)

\* The gang implements the lanes running by themselves, none of which is left
\* behind, but for those that stray: they stop where a loop draws them in.
Scalar == INSTANCE SpmdLanes
LanesSafely == Scalar!Init /\ [][Scalar!Next]_(Scalar!vars)
ImplementsLanes ==
    /\ LanesSafely
    /\ \A l \in Lanes : <>(l \in strays) \/ WF_(Scalar!vars)(Scalar!MoveOf(l))
=============================================================================
