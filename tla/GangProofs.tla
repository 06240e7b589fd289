------------------------------ MODULE GangProofs -------------------------------
(***************************************************************************)
(* For every structured function, every gang and every choice of paths, a  *)
(* vectorized function executes each block for exactly the lanes whose own *)
(* path is there, and so implements the lanes that run by themselves; and  *)
(* the PHIs and the values that cross blocks are each lane's own.  All of  *)
(* it holds of each lane until it is itself drawn into a loop by a stale   *)
(* exit condition (strays), whatever the lanes do that have been.          *)
(*                                                                         *)
(* The invariant of GangExec: of the regions around the gang's block, each *)
(* mask holds the lanes that are in its region (MasksHold), and a lane     *)
(* that is elsewhere waits where one of these regions is left to           *)
(* (LanesWait).                                                            *)
(*                                                                         *)
(* On top of it, for GangValues: a lane that waits at a join came over the *)
(* edge around the 'then' region (JoinersSkipped); the register of the     *)
(* definition is right for the lanes of its mask that have passed it       *)
(* (RegHolds); while the gang is in the definition's loop, _livein is      *)
(* right for the lanes that have left it (LiveInHolds), and outside,       *)
(* _liveout for the lanes behind it (LiveOutHolds).                        *)
(***************************************************************************)
EXTENDS GangValues, TLAPS

Masks == MasksOf(cfg)

\* The lanes that have not left their own path.
Loyal == Lanes \ strays
In(m) == {l \in Loyal : at[l] \in Region(cfg, m)}
Here(b) == {l \in Loyal : at[l] = b}

TypeInv ==
    /\ cfg \in Cfgs
    /\ block \in BlocksOf(cfg) \cup {Exit}
    /\ mask \in [BlocksOf(cfg) \cup {ArgMask} -> SUBSET Lanes]
    /\ at \in [Lanes -> BlocksOf(cfg) \cup {Exit}]
    /\ strays \subseteq Lanes

MasksHold(b) ==
    \A m \in Masks : b \in Region(cfg, m) => mask[m] \ strays = In(m) /\ mask[m] # {}

Waits(l, b) == \E m \in Masks \ {ArgMask} : b \in Region(cfg, m) /\ at[l] \in Joins(cfg, m)

LanesWait(b) == \A l \in Loyal : at[l] \in {b, Exit} \/ Waits(l, b)

IInv ==
    /\ TypeInv
    /\ block = Exit => \A l \in Loyal : at[l] = Exit
    /\ block # Exit => MasksHold(block) /\ LanesWait(block)

-----------------------------------------------------------------------------
(* Regions *)

LEMMA GraphFacts ==
    ASSUME TypeInv
    PROVE  /\ Exit \notin BlocksOf(cfg) /\ ArgMask \notin BlocksOf(cfg)
           /\ cfg.entry \in BlocksOf(cfg)
           /\ \A b \in BlocksOf(cfg) :
                 /\ cfg.succ[b] \in Seq(BlocksOf(cfg))
                 /\ Len(cfg.succ[b]) \in 0..2
                 /\ \A k \in 1..Len(cfg.succ[b]) :
                       cfg.succ[b][k] \in BlocksOf(cfg) /\ cfg.succ[b][k] \in Succs(cfg, b)
<1>1. Graph(cfg)
  BY GangAssumption DEF TypeInv, IsStructured
<1>2. Exit \notin BlocksOf(cfg) /\ ArgMask \notin BlocksOf(cfg) /\ cfg.entry \in BlocksOf(cfg)
  BY <1>1 DEF Graph, Exit
<1>3. ASSUME NEW b \in BlocksOf(cfg)
      PROVE  /\ cfg.succ[b] \in Seq(BlocksOf(cfg))
             /\ Len(cfg.succ[b]) \in 0..2
             /\ \A k \in 1..Len(cfg.succ[b]) :
                   cfg.succ[b][k] \in BlocksOf(cfg) /\ cfg.succ[b][k] \in Succs(cfg, b)
  <2>1. cfg.succ[b] \in Seq(BlocksOf(cfg)) /\ Len(cfg.succ[b]) \in 0..2
    BY <1>1 DEF Graph
  <2>2. \A k \in 1..Len(cfg.succ[b]) : cfg.succ[b][k] \in BlocksOf(cfg)
    BY <2>1
  <2> QED
    BY <2>1, <2>2 DEF Succs
<1> QED
  BY <1>2, <1>3

LEMMA RegionFacts ==
    ASSUME TypeInv
    PROVE  /\ \A m \in Masks : Region(cfg, m) \subseteq BlocksOf(cfg)
           /\ ArgMask \in Masks /\ Region(cfg, ArgMask) = BlocksOf(cfg)
           /\ \A m \in Masks \ {ArgMask} : m \in BlocksOf(cfg)
BY GraphFacts DEF Masks, MasksOf, Region, ThenBlocks, LoopHeaders, Headers, TypeInv

LEMMA Innermosts ==
    ASSUME TypeInv
    PROVE  /\ \A b \in BlocksOf(cfg) :
                 /\ ActiveMaskOf(cfg, b) \in Masks
                 /\ b \in Region(cfg, ActiveMaskOf(cfg, b))
                 /\ \A m \in Masks :
                       b \in Region(cfg, m)
                           => Region(cfg, ActiveMaskOf(cfg, b)) \subseteq Region(cfg, m)
           /\ \A h \in LoopHeaders(cfg) :
                 /\ LoopEntryMaskOf(cfg, h) \in Masks \ {h}
                 /\ h \in Region(cfg, LoopEntryMaskOf(cfg, h))
                 /\ \A m \in Masks \ {h} :
                       h \in Region(cfg, m)
                           => Region(cfg, LoopEntryMaskOf(cfg, h)) \subseteq Region(cfg, m)
           /\ \A m \in Masks \ {ArgMask} :
                 /\ m \in Region(cfg, m)
                 /\ \A n \in Masks :
                       m \in Region(cfg, n) => Region(cfg, m) \subseteq Region(cfg, n)
<1>1. RegionsNest(cfg)
  BY GangAssumption DEF TypeInv, IsStructured
<1>2. /\ \A b \in BlocksOf(cfg) :
            IsInnermost(cfg, ActiveMaskOf(cfg, b), Masks, b)
      /\ \A h \in LoopHeaders(cfg) :
            IsInnermost(cfg, LoopEntryMaskOf(cfg, h), Masks \ {h}, h)
      /\ \A m \in Masks \ {ArgMask} : ActiveMaskOf(cfg, m) = m
  BY <1>1 DEF RegionsNest, Masks
<1>3. \A m \in Masks \ {ArgMask} : IsInnermost(cfg, m, Masks, m)
  BY <1>2, RegionFacts
<1> QED
  BY <1>2, <1>3 DEF IsInnermost

LEMMA Ways ==
    ASSUME TypeInv, NEW m \in Masks \ {ArgMask}
    PROVE  /\ cfg.entry \notin Region(cfg, m)
           /\ \A b \in BlocksOf(cfg) : \A s \in Succs(cfg, b) :
                 b \notin Region(cfg, m) /\ s \in Region(cfg, m) => s = m
           /\ \A x, y \in Joins(cfg, m) : x = y
           /\ \A n \in Masks \ {m} :
                 Region(cfg, m) \subseteq Region(cfg, n) => Joins(cfg, m) \subseteq Region(cfg, n)
<1>1. OneWayInAndOut(cfg)
  BY GangAssumption DEF TypeInv, IsStructured
<1> QED
  BY <1>1 DEF OneWayInAndOut, Masks

LEMMA JoinsOutside ==
    ASSUME NEW m, NEW s \in Joins(cfg, m)
    PROVE  s \notin Region(cfg, m) /\ s \in BlocksOf(cfg)
BY DEF Joins

-----------------------------------------------------------------------------
(* The gang and its lanes *)

\* A lane that waits is not in the innermost region, so that its mask holds
\* just the lanes that are here.
LEMMA LocksStep ==
    ASSUME TypeInv, NEW b \in BlocksOf(cfg), MasksHold(b), LanesWait(b)
    PROVE  OnPath(b) = Here(b) /\ ActiveLanes(b) # {} /\ ActiveLanes(b) \subseteq Lanes
<1> DEFINE a == ActiveMaskOf(cfg, b)
<1>1. a \in Masks /\ b \in Region(cfg, a)
      /\ \A m \in Masks : b \in Region(cfg, m) => Region(cfg, a) \subseteq Region(cfg, m)
  BY Innermosts
<1>2. OnPath(b) = In(a) /\ ActiveLanes(b) # {}
  BY <1>1 DEF MasksHold, ActiveLanes, OnPath
<1>3. ASSUME NEW l \in Loyal, at[l] \in Region(cfg, a)
      PROVE  at[l] = b
  <2>1. at[l] # Exit
    BY <1>1, <1>3, RegionFacts, GraphFacts
  <2>2. ~Waits(l, b)
    BY <1>1, <1>3, JoinsOutside DEF Waits
  <2> QED
    BY <2>1, <2>2 DEF LanesWait
<1>4. OnPath(b) = Here(b)
  BY <1>1, <1>2, <1>3 DEF In, Here
<1>5. ActiveLanes(b) \subseteq Lanes
  BY <1>1, RegionFacts DEF ActiveLanes, TypeInv
<1> QED
  BY <1>2, <1>4, <1>5

\* All lanes that are at b go to the block s, which is no 'then' block.
AllGoTo(b, s, m) ==
    /\ TypeInv /\ b \in BlocksOf(cfg) /\ MasksHold(b) /\ LanesWait(b)
    /\ s \in Succs(cfg, b) /\ s \in BlocksOf(cfg) /\ s \notin ThenBlocks(cfg)
    /\ m \in [BlocksOf(cfg) \cup {ArgMask} -> SUBSET Lanes]
    /\ \A n \in Masks : s \in Region(cfg, n) => m[n] = mask[n]
    /\ cfg' = cfg /\ block' = s /\ mask' = LoopStart(m, b, s)
    /\ strays' = strays
    /\ at' = [l \in Lanes |-> IF l \in Here(b) THEN s ELSE at[l]]

LEMMA AllGo ==
    ASSUME NEW b, NEW s, NEW m, AllGoTo(b, s, m)
    PROVE  IInv'
<1> USE DEF AllGoTo, Loyal
<1>0. /\ Loyal' = Loyal
      /\ \A l \in Loyal : at'[l] = IF at[l] = b THEN s ELSE at[l]
  BY DEF Here
<1>1. TypeInv'
  <2>1. mask' \in [BlocksOf(cfg) \cup {ArgMask} -> SUBSET Lanes]
    <3>1. \A h \in LoopHeaders(cfg) : LoopEntryMaskOf(cfg, h) \in BlocksOf(cfg) \cup {ArgMask}
      BY Innermosts, RegionFacts
    <3>2. \A h \in LoopHeaders(cfg) : m[LoopEntryMaskOf(cfg, h)] \in SUBSET Lanes
      BY <3>1
    <3> QED
      BY <3>2 DEF LoopStart
  <2>2. at' \in [Lanes -> BlocksOf(cfg) \cup {Exit}]
    BY DEF TypeInv
  <2> QED
    BY <2>1, <2>2 DEF TypeInv
<1>2. Masks' = Masks /\ \A n : Region(cfg, n)' = Region(cfg, n) /\ Joins(cfg, n)' = Joins(cfg, n)
  BY DEF Masks, MasksOf, Region, Joins, Governs, BlocksOf, ThenBlocks, LoopHeaders, Succs
<1>3. s # Exit
  BY GraphFacts
<1>5. LanesWait(s)'
  <2> SUFFICES ASSUME NEW l \in Loyal, at[l] # b, at[l] # Exit, at[l] # s
               PROVE  \E n \in Masks \ {ArgMask} : s \in Region(cfg, n) /\ at[l] \in Joins(cfg, n)
    BY <1>0, <1>2 DEF LanesWait, Waits
  <2>1. PICK n \in Masks \ {ArgMask} : b \in Region(cfg, n) /\ at[l] \in Joins(cfg, n)
    BY DEF LanesWait, Waits
  <2>2. s \in Region(cfg, n)
    <3> SUFFICES ASSUME s \notin Region(cfg, n) PROVE FALSE
      OBVIOUS
    <3>1. s \in Joins(cfg, n)
      BY <2>1 DEF Joins
    <3> QED
      BY <2>1, <3>1, Ways
  <2> QED
    BY <2>1, <2>2
<1>6. MasksHold(s)'
  <2> SUFFICES ASSUME NEW n \in Masks, s \in Region(cfg, n)
               PROVE  /\ mask'[n] \ strays = {l \in Loyal : at'[l] \in Region(cfg, n)}
                      /\ mask'[n] # {}
    BY <1>0, <1>2 DEF MasksHold, In
  <2>1. CASE b \in Region(cfg, n)
    <3>1. mask[n] \ strays = In(n) /\ mask[n] # {}
      BY <2>1 DEF MasksHold
    <3>2. {l \in Loyal : at'[l] \in Region(cfg, n)} = In(n)
      BY <1>0, <2>1 DEF In
    <3>3. ~(n = s /\ s \in LoopHeaders(cfg) /\ ~Dominates(cfg, s, b))
      <4>1. LoopsHaveTails(cfg)
        BY GangAssumption DEF TypeInv, IsStructured
      <4> QED
        BY <2>1, <4>1 DEF LoopsHaveTails, Preds
    <3>4. mask'[n] = m[n]
      BY <3>3, RegionFacts DEF LoopStart
    <3> QED
      BY <3>1, <3>2, <3>4
  <2>2. CASE b \notin Region(cfg, n)
    <3>1. n # ArgMask
      BY <2>2, RegionFacts
    <3>2. n = s
      BY <2>2, <3>1, Ways
    <3>3. s \in LoopHeaders(cfg)
      BY <3>1, <3>2 DEF Masks, MasksOf
    <3>4. ~Dominates(cfg, s, b)
      <4>1. LoopsHaveTails(cfg)
        BY GangAssumption DEF TypeInv, IsStructured
      <4> QED
        BY <2>2, <3>2, <3>3, <4>1 DEF LoopsHaveTails, Preds
    <3> DEFINE e == LoopEntryMaskOf(cfg, s)
    <3>5. e \in Masks \ {s} /\ s \in Region(cfg, e)
          /\ \A k \in Masks \ {s} : s \in Region(cfg, k) => Region(cfg, e) \subseteq Region(cfg, k)
      BY <3>3, Innermosts
    <3>6. mask'[n] = mask[e]
      <4>1. mask' = [m EXCEPT ![s] = m[e]]
        BY <3>3, <3>4 DEF LoopStart
      <4> QED
        BY <4>1, <3>2, <3>5
    <3>7. b \in Region(cfg, e)
      <4> SUFFICES ASSUME b \notin Region(cfg, e) PROVE FALSE
        OBVIOUS
      <4>1. e # ArgMask
        BY RegionFacts
      <4> QED
        BY <3>5, <4>1, Ways
    <3>8. mask[e] \ strays = In(e) /\ mask[e] # {}
      BY <3>5, <3>7 DEF MasksHold
    <3>9. ASSUME NEW l \in Loyal
          PROVE  at[l] \in Region(cfg, e) <=> at'[l] \in Region(cfg, s)
      <4>1. CASE at[l] = b
        BY <1>0, <4>1, <3>2, <3>7
      <4>2. CASE at[l] = s
        BY <1>0, <4>2, <3>2, <3>5
      <4>3. CASE at[l] # b /\ at[l] # s
        <5>1. at'[l] = at[l]
          BY <1>0, <4>3
        <5>2. CASE at[l] = Exit
          BY <5>1, <5>2, <3>2, <3>5, RegionFacts, GraphFacts
        <5>3. CASE Waits(l, b)
          <6>1. PICK k \in Masks \ {ArgMask} : b \in Region(cfg, k) /\ at[l] \in Joins(cfg, k)
            BY <5>3 DEF Waits
          <6>2. s \in Region(cfg, k)
            <7> SUFFICES ASSUME s \notin Region(cfg, k) PROVE FALSE
              OBVIOUS
            <7>1. s \in Joins(cfg, k)
              BY <6>1 DEF Joins
            <7> QED
              BY <4>3, <6>1, <7>1, Ways
          <6>3. k # s
            BY <2>2, <3>2, <6>1
          <6>4. Region(cfg, e) \subseteq Region(cfg, k)
            BY <3>5, <6>2, <6>3
          <6>5. at[l] \notin Region(cfg, e)
            BY <6>1, <6>4, JoinsOutside
          <6>6. at[l] \notin Region(cfg, s)
            BY <3>1, <3>2, <6>1, <6>2, Innermosts, JoinsOutside
          <6> QED
            BY <5>1, <6>5, <6>6
        <5> QED
          BY <4>3, <5>2, <5>3 DEF LanesWait
      <4> QED
        BY <4>1, <4>2, <4>3
    <3> QED
      BY <3>2, <3>6, <3>8, <3>9 DEF In
  <2> QED
    BY <2>1, <2>2
<1> QED
  BY <1>1, <1>3, <1>5, <1>6 DEF IInv

\* Some of the lanes at b enter the region r, the others of them go on behind
\* it; the region's mask becomes that of the lanes that enter, to which those
\* may be added that thereby leave their path.
SomeEnter(b, r, x, E) ==
    /\ TypeInv /\ b \in BlocksOf(cfg) /\ MasksHold(b) /\ LanesWait(b)
    /\ r \in Masks \ {ArgMask} /\ x \in Joins(cfg, r)
    /\ E \subseteq Lanes /\ E # {}
    /\ strays \subseteq strays' /\ strays' \subseteq Lanes /\ E \ strays' \subseteq Here(b)
    /\ \A l \in Loyal : at[l] \in Region(cfg, r) => at[l] = b
    /\ \A n \in Masks \ {r} : r \in Region(cfg, n) => b \in Region(cfg, n)
    /\ \A n \in Masks : b \in Region(cfg, n) => r \in Region(cfg, n)
    /\ cfg' = cfg /\ block' = r /\ mask' = [mask EXCEPT ![r] = E]
    /\ at' = [l \in Lanes |->
                 IF l \in Here(b) THEN IF l \in E THEN r ELSE x ELSE at[l]]

LEMMA Enter ==
    ASSUME NEW b, NEW r, NEW x, NEW E, SomeEnter(b, r, x, E)
    PROVE  IInv'
<1> USE DEF SomeEnter
<1>1. r \in BlocksOf(cfg) /\ x \in BlocksOf(cfg) /\ r \in Region(cfg, r) /\ x \notin Region(cfg, r)
  BY RegionFacts, Innermosts, JoinsOutside
<1>2. /\ Loyal' \subseteq Loyal
      /\ \A l \in Loyal' : at'[l] = IF at[l] = b THEN IF l \in E THEN r ELSE x ELSE at[l]
      /\ \A l \in Loyal' : l \in E => at[l] = b
  BY DEF Here, Loyal
<1>3. TypeInv'
  <2>1. mask' \in [BlocksOf(cfg) \cup {ArgMask} -> SUBSET Lanes]
    BY DEF TypeInv
  <2>2. at' \in [Lanes -> BlocksOf(cfg) \cup {Exit}]
    BY <1>1 DEF TypeInv
  <2> QED
    BY <1>1, <2>1, <2>2 DEF TypeInv
<1>4. Masks' = Masks /\ \A n : Region(cfg, n)' = Region(cfg, n) /\ Joins(cfg, n)' = Joins(cfg, n)
  BY DEF Masks, MasksOf, Region, Joins, Governs, BlocksOf, ThenBlocks, LoopHeaders, Succs
<1>5. r # Exit
  BY <1>1, GraphFacts
<1>7. LanesWait(r)'
  <2> SUFFICES ASSUME NEW l \in Loyal', at'[l] # r, at'[l] # Exit
               PROVE  \E n \in Masks \ {ArgMask} : r \in Region(cfg, n) /\ at'[l] \in Joins(cfg, n)
    BY <1>4 DEF LanesWait, Waits
  <2>1. CASE at[l] = b
    BY <2>1, <1>1, <1>2
  <2>2. CASE at[l] # b
    <3>1. at'[l] = at[l] /\ l \in Loyal
      BY <1>2, <2>2
    <3>2. PICK n \in Masks \ {ArgMask} : b \in Region(cfg, n) /\ at[l] \in Joins(cfg, n)
      BY <2>2, <3>1 DEF LanesWait, Waits
    <3> QED
      BY <3>1, <3>2
  <2> QED
    BY <2>1, <2>2
<1>8. MasksHold(r)'
  <2> SUFFICES ASSUME NEW n \in Masks, r \in Region(cfg, n)
               PROVE  /\ mask'[n] \ strays' = {l \in Loyal' : at'[l] \in Region(cfg, n)}
                      /\ mask'[n] # {}
    BY <1>4 DEF MasksHold, In
  <2>1. n \in BlocksOf(cfg) \cup {ArgMask}
    BY RegionFacts
  <2>2. CASE n = r
    <3>1. mask'[n] = E
      BY <2>1, <2>2 DEF TypeInv
    <3>2. \A l \in Loyal' : at'[l] \in Region(cfg, r) <=> l \in E
      BY <1>1, <1>2
    <3> QED
      BY <2>2, <3>1, <3>2 DEF Loyal
  <2>3. CASE n # r
    <3>1. mask'[n] = mask[n] /\ mask[n] \ strays = In(n) /\ mask[n] # {}
      BY <2>1, <2>3 DEF MasksHold, TypeInv
    <3>2. b \in Region(cfg, n) /\ r \in Region(cfg, n)
      BY <2>3
    <3>3. x \in Region(cfg, n)
      BY <2>3, Ways, Innermosts
    <3>4. \A l \in Loyal' : at'[l] \in Region(cfg, n) <=> at[l] \in Region(cfg, n)
      BY <1>2, <3>2, <3>3
    <3> QED
      BY <3>1, <3>4 DEF In, Loyal
  <2> QED
    BY <2>2, <2>3
<1> QED
  BY <1>3, <1>5, <1>7, <1>8 DEF IInv

-----------------------------------------------------------------------------
(* The steps *)

\* What the lanes of a block do, by the number of its successors.
LEMMA Follow ==
    ASSUME TypeInv, NEW b \in BlocksOf(cfg), MasksHold(b), LanesWait(b),
           NEW c, LanesFollow(b, c)
    PROVE  /\ Len(cfg.succ[b]) = 1 =>
                 at' = [l \in Lanes |-> IF l \in Here(b) THEN cfg.succ[b][1] ELSE at[l]]
           /\ Len(cfg.succ[b]) = 2 =>
                 at' = [l \in Lanes |->
                           IF l \in Here(b) THEN IF l \in c THEN cfg.succ[b][1] ELSE cfg.succ[b][2]
                           ELSE at[l]]
           /\ Succs(cfg, b) = {} =>
                 at' = [l \in Lanes |-> IF l \in Here(b) THEN Exit ELSE at[l]]
<1>2. OnPath(b) = Here(b)
  BY LocksStep
<1>3. Len(cfg.succ[b]) = 1 \/ Len(cfg.succ[b]) = 2 => Succs(cfg, b) # {}
  BY GraphFacts
<1>4. CASE Len(cfg.succ[b]) = 1
  BY <1>2, <1>3, <1>4 DEF LanesFollow
<1>5. CASE Len(cfg.succ[b]) = 2
  BY <1>2, <1>3, <1>5 DEF LanesFollow
<1>6. CASE Succs(cfg, b) = {}
  BY <1>2, <1>3, <1>6 DEF LanesFollow
<1> QED
  BY <1>4, <1>5, <1>6

LEMMA StepReturn ==
    ASSUME IInv, NEW b \in BlocksOf(cfg), ReturnFrom(b)
    PROVE  IInv'
<1>1. /\ TypeInv /\ MasksHold(b) /\ LanesWait(b) /\ block' = Exit /\ Succs(cfg, b) = {}
      /\ strays' = strays
  BY GraphFacts DEF IInv, ReturnFrom
<1>2. at' = [l \in Lanes |-> IF l \in Here(b) THEN Exit ELSE at[l]]
  BY <1>1, Follow DEF ReturnFrom
<1>3. ActiveMaskOf(cfg, b) = ArgMask
  BY <1>1, GangAssumption DEF TypeInv, IsStructured, ReturnsAreOutside
<1>4. In(ArgMask) = Here(b)
  BY <1>1, <1>3, LocksStep, RegionFacts DEF ActiveLanes, OnPath, MasksHold
<1>5. \A l \in Loyal : at'[l] = Exit
  BY <1>1, <1>2, <1>4, RegionFacts DEF In, Here, TypeInv, Loyal
<1>6. TypeInv'
  BY <1>1, <1>5, <1>2 DEF TypeInv, ReturnFrom
<1> QED
  BY <1>1, <1>5, <1>6 DEF IInv, Loyal

LEMMA StepJump ==
    ASSUME IInv, NEW b \in BlocksOf(cfg), Jump(b)
    PROVE  IInv'
<1> DEFINE s == cfg.succ[b][1]
<1>1. TypeInv /\ MasksHold(b) /\ LanesWait(b)
  BY GraphFacts DEF IInv, Jump
<1>2. cfg' = cfg /\ strays' = strays /\ block' = s /\ mask' = LoopStart(mask, b, s) /\ Len(cfg.succ[b]) = 1
  BY DEF Jump, GoTo
<1>3. at' = [l \in Lanes |-> IF l \in Here(b) THEN s ELSE at[l]]
  BY <1>1, <1>2, Follow DEF Jump
<1>4. s \in Succs(cfg, b) /\ s \in BlocksOf(cfg)
  BY <1>1, <1>2, GraphFacts
<1>5. s \notin ThenBlocks(cfg)
  BY <1>2, <1>4 DEF ThenBlocks, Preds, IsConditional
<1>6. mask \in [BlocksOf(cfg) \cup {ArgMask} -> SUBSET Lanes]
  BY <1>1 DEF TypeInv
<1>7. AllGoTo(b, s, mask)
  BY <1>1, <1>2, <1>3, <1>4, <1>5, <1>6 DEF AllGoTo
<1> QED
  BY <1>7, AllGo

LEMMA StepIf ==
    ASSUME IInv, NEW b \in BlocksOf(cfg), NEW c \in Conditions(b), If(b, c)
    PROVE  IInv'
<1> DEFINE then == cfg.succ[b][1]
           over == cfg.succ[b][2]
           m == [mask EXCEPT ![then] = ThenMask(b, c)]
<1>1. TypeInv /\ MasksHold(b) /\ LanesWait(b)
  BY GraphFacts DEF IInv, If
<1>2. /\ IsConditional(cfg, b) /\ ~IsLoopTail(cfg, b) /\ Len(cfg.succ[b]) = 2
      /\ cfg' = cfg /\ strays' = strays
      /\ block' = (IF m[then] # {} THEN then ELSE over)
      /\ mask' = LoopStart(m, b, IF m[then] # {} THEN then ELSE over)
  BY DEF If, GoTo, IsConditional, Any
<1>3. at' = [l \in Lanes |->
                IF l \in Here(b) THEN IF l \in c THEN then ELSE over ELSE at[l]]
  BY <1>1, <1>2, Follow DEF If
<1>4. over \in Succs(cfg, b) /\ over \in BlocksOf(cfg) /\ then \in BlocksOf(cfg)
  BY <1>1, <1>2, GraphFacts
<1>5. /\ then \in ThenBlocks(cfg)
      /\ then \in Region(cfg, then)
      /\ b \notin Region(cfg, then)
      /\ Region(cfg, then) \subseteq Region(cfg, ActiveMaskOf(cfg, b))
      /\ over \in Joins(cfg, then) \ ThenBlocks(cfg)
  <2>1. IfsAreThens(cfg)
    BY <1>1, GangAssumption DEF TypeInv, IsStructured
  <2> QED
    BY <2>1, <1>2 DEF IfsAreThens
<1>6. then \in Masks \ {ArgMask}
  BY <1>1, <1>4, <1>5, GraphFacts DEF Masks, MasksOf
<1> DEFINE E == ActiveLanes(b) \cap c
<1>7. /\ m \in [BlocksOf(cfg) \cup {ArgMask} -> SUBSET Lanes] /\ m[then] = E
      /\ E \subseteq Lanes /\ E \ strays = Here(b) \cap c
  <2>1. ThenMask(b, c) = E /\ E \subseteq Lanes
    BY <1>1, LocksStep DEF ThenMask
  <2>2. E \ strays = Here(b) \cap c
    BY <1>1, LocksStep DEF OnPath
  <2> QED
    BY <1>1, <1>4, <2>1, <2>2 DEF TypeInv
<1>8. CASE m[then] # {}
  <2>1. E # {}
    BY <1>7, <1>8
  <2>2. block' = then /\ mask' = [mask EXCEPT ![then] = E]
    BY <1>2, <1>5, <1>8 DEF LoopStart, ThenBlocks, ThenMask
  <2>3. at' = [l \in Lanes |->
                  IF l \in Here(b) THEN IF l \in E THEN then ELSE over ELSE at[l]]
    BY <1>3, <1>7 DEF Here, Loyal
  <2>4. \A l \in Loyal : at[l] \in Region(cfg, then) => at[l] = b
    BY <1>1, <1>5, LocksStep, Innermosts DEF ActiveLanes, OnPath, MasksHold, In, Here
  <2>5. \A n \in Masks \ {then} : then \in Region(cfg, n) => b \in Region(cfg, n)
    <3> SUFFICES ASSUME NEW n \in Masks \ {then}, then \in Region(cfg, n), b \notin Region(cfg, n)
                 PROVE  FALSE
      OBVIOUS
    <3>1. n # ArgMask
      BY <1>1, RegionFacts
    <3>2. then \in Succs(cfg, b)
      BY <1>1, <1>2, GraphFacts
    <3> QED
      BY <1>1, <3>1, <3>2, Ways
  <2>6. \A n \in Masks : b \in Region(cfg, n) => then \in Region(cfg, n)
    BY <1>1, <1>5, Innermosts
  <2>7. over \in Joins(cfg, then)
    BY <1>5
  <2>8. cfg' = cfg /\ strays \subseteq strays' /\ strays' \subseteq Lanes
    BY <1>1, <1>2 DEF TypeInv
  <2>9. E \subseteq Lanes /\ E \ strays' \subseteq Here(b)
    BY <1>2, <1>7
  <2> HIDE DEF then, over, E, m
  <2>10. SomeEnter(b, then, over, E)
    BY <1>1, <1>6, <2>1, <2>2, <2>3, <2>4, <2>5, <2>6, <2>7, <2>8, <2>9 DEF SomeEnter
  <2> QED
    BY <2>10, Enter
<1>9. CASE m[then] = {}
  <2>1. block' = over /\ mask' = LoopStart(m, b, over)
    BY <1>2, <1>9
  <2>2. at' = [l \in Lanes |-> IF l \in Here(b) THEN over ELSE at[l]]
    <3>1. Here(b) \cap c = {}
      BY <1>7, <1>9
    <3> QED
      BY <1>3, <3>1
  <2>3. \A n \in Masks : over \in Region(cfg, n) => m[n] = mask[n]
    BY <1>5, JoinsOutside
  <2>4. over \notin ThenBlocks(cfg)
    BY <1>5
  <2>5. /\ cfg' = cfg /\ strays' = strays
        /\ m \in [BlocksOf(cfg) \cup {ArgMask} -> SUBSET Lanes]
    BY <1>2, <1>7
  <2> HIDE DEF then, over, m
  <2>6. AllGoTo(b, over, m)
    BY <1>1, <1>4, <2>1, <2>2, <2>3, <2>4, <2>5 DEF AllGoTo
  <2> QED
    BY <2>6, AllGo
<1> QED
  BY <1>8, <1>9

LEMMA StepTail ==
    ASSUME IInv, NEW b \in BlocksOf(cfg), NEW c \in Conditions(b), RepeatOrLeave(b, c)
    PROVE  IInv'
<1> DEFINE behind == cfg.succ[b][1]
           header == cfg.succ[b][2]
<1>1. TypeInv /\ MasksHold(b) /\ LanesWait(b)
  BY GraphFacts DEF IInv, RepeatOrLeave
<1>2. /\ IsConditional(cfg, b) /\ Len(cfg.succ[b]) = 2
      /\ header \in LoopHeaders(cfg)
      /\ ActiveMaskOf(cfg, b) = header
      /\ behind \in Joins(cfg, header)
  <2>1. LoopsHaveTails(cfg)
    BY <1>1, GangAssumption DEF TypeInv, IsStructured
  <2> QED
    BY <2>1 DEF LoopsHaveTails, RepeatOrLeave, IsConditional
<1>3. at' = [l \in Lanes |->
                IF l \in Here(b) THEN IF l \in c THEN behind ELSE header ELSE at[l]]
  BY <1>1, <1>2, Follow DEF RepeatOrLeave
<1>4. behind \in Succs(cfg, b) /\ behind \in BlocksOf(cfg) /\ header \in BlocksOf(cfg)
  BY <1>1, <1>2, GraphFacts
<1>5. header \in Masks \ {ArgMask}
  BY <1>1, <1>2, <1>4, GraphFacts DEF Masks, MasksOf
<1> DEFINE E == RepeatMask(b, c)
<1>6. /\ c \subseteq Lanes /\ E = Lanes \ c
      /\ strays' = strays \cup (E \ ActiveLanes(b))
      /\ Here(b) = ActiveLanes(b) \ strays
  BY <1>1, LocksStep DEF Conditions, RepeatOrLeave, RepeatMask, OnPath
<1>7. CASE E # {}
  <2>1. /\ E \subseteq Lanes /\ strays \subseteq strays' /\ strays' \subseteq Lanes
        /\ E \ strays' \subseteq Here(b)
    BY <1>1, <1>6 DEF TypeInv
  <2>2. cfg' = cfg /\ block' = header /\ mask' = [mask EXCEPT ![header] = E]
    BY <1>7 DEF RepeatOrLeave, Any
  <2>3. at' = [l \in Lanes |->
                  IF l \in Here(b) THEN IF l \in E THEN header ELSE behind ELSE at[l]]
    BY <1>3, <1>6
  <2>4. \A l \in Loyal : at[l] \in Region(cfg, header) => at[l] = b
    BY <1>1, <1>2, LocksStep, Innermosts DEF ActiveLanes, OnPath, MasksHold, In, Here
  <2>5. \A n \in Masks \ {header} : header \in Region(cfg, n) => b \in Region(cfg, n)
    BY <1>1, <1>2, <1>5, Innermosts
  <2>6. \A n \in Masks : b \in Region(cfg, n) => header \in Region(cfg, n)
    BY <1>1, <1>2, <1>5, Innermosts
  <2>7. behind \in Joins(cfg, header)
    BY <1>2
  <2> HIDE DEF header, behind, E
  <2>8. SomeEnter(b, header, behind, E)
    BY <1>1, <1>5, <1>7, <2>1, <2>2, <2>3, <2>4, <2>5, <2>6, <2>7 DEF SomeEnter
  <2> QED
    BY <2>8, Enter
<1>8. CASE E = {}
  <2>1. /\ cfg' = cfg /\ block' = behind /\ mask' = LoopStart(mask, b, behind)
        /\ strays' = strays
    BY <1>6, <1>8 DEF RepeatOrLeave, Any, GoTo
  <2>2. at' = [l \in Lanes |-> IF l \in Here(b) THEN behind ELSE at[l]]
    <3>1. Here(b) \subseteq c
      BY <1>6, <1>8 DEF Here, Loyal
    <3> QED
      BY <1>3, <3>1
  <2>3. behind \notin ThenBlocks(cfg)
    BY <1>4 DEF ThenBlocks, Preds, RepeatOrLeave
  <2>4. mask \in [BlocksOf(cfg) \cup {ArgMask} -> SUBSET Lanes]
    BY <1>1 DEF TypeInv
  <2> HIDE DEF behind
  <2>5. AllGoTo(b, behind, mask)
    BY <1>1, <1>4, <2>1, <2>2, <2>3, <2>4 DEF AllGoTo
  <2> QED
    BY <2>5, AllGo
<1> QED
  BY <1>7, <1>8

-----------------------------------------------------------------------------
LEMMA InvInit == Init => IInv
<1> SUFFICES ASSUME Init PROVE IInv
  OBVIOUS
<1>1. PICK called \in (SUBSET Lanes) \ {{}} :
          /\ mask = [m \in BlocksOf(cfg) \cup {ArgMask} |-> IF m = ArgMask THEN called ELSE {}]
          /\ at = [l \in Lanes |-> IF l \in called THEN cfg.entry ELSE Exit]
  BY DEF Init
<1>2. Graph(cfg) /\ OneWayInAndOut(cfg)
  BY GangAssumption DEF Init, IsStructured
<1>3. TypeInv
  BY <1>1, <1>2 DEF Init, TypeInv, Graph
<1>4. block # Exit /\ block = cfg.entry
  BY <1>3, GraphFacts DEF Init
<1>5. Loyal = Lanes /\ strays = {}
  BY DEF Init, Loyal
<1>6. LanesWait(block)
  BY <1>1, <1>4, <1>5 DEF LanesWait
<1>7. MasksHold(block)
  <2> SUFFICES ASSUME NEW m \in Masks, cfg.entry \in Region(cfg, m)
               PROVE  mask[m] = In(m) /\ mask[m] # {}
    BY <1>4, <1>5 DEF MasksHold
  <2>1. m = ArgMask
    BY <1>3, Ways
  <2>2. mask[m] = called
    BY <1>1, <2>1
  <2>3. \A l \in Lanes : at[l] \in Region(cfg, m) <=> l \in called
    BY <1>1, <1>3, <2>1, RegionFacts, GraphFacts
  <2> QED
    BY <1>1, <1>5, <2>2, <2>3 DEF In
<1> QED
  BY <1>3, <1>4, <1>6, <1>7 DEF IInv

LEMMA InvNext == IInv /\ [Next]_vars => IInv'
<1> SUFFICES ASSUME IInv, [Next]_vars PROVE IInv'
  OBVIOUS
<1>1. ASSUME NEW b \in BlocksOf(cfg), Execute(b) PROVE IInv'
  BY <1>1, StepReturn, StepJump, StepIf, StepTail DEF Execute
<1>2. CASE UNCHANGED vars
  <2>1. TypeInv' /\ (block = Exit => block' = Exit /\ at' = at) /\ block' = block
        /\ Loyal' = Loyal
    BY <1>2 DEF vars, IInv, TypeInv, Loyal
  <2>2. MasksHold(block)' <=> MasksHold(block)
    BY <1>2, <2>1 DEF vars, MasksHold, Masks, In
  <2>3. LanesWait(block)' <=> LanesWait(block)
    BY <1>2, <2>1 DEF vars, LanesWait, Waits, Masks
  <2> QED
    BY <2>1, <2>2, <2>3 DEF IInv
<1> QED
  BY <1>1, <1>2 DEF Next, Ended

LEMMA Invariant == Spec => []IInv
BY InvInit, InvNext, PTL DEF Spec

LEMMA InStep == IInv => Lockstep
<1>1. ASSUME IInv, block # Exit
      PROVE  OnPath(block) = {l \in Lanes \ strays : at[l] = block}
  <2>1. TypeInv /\ MasksHold(block) /\ LanesWait(block) /\ block \in BlocksOf(cfg)
    BY <1>1 DEF IInv, TypeInv
  <2> QED
    BY <2>1, LocksStep DEF Here, Loyal
<1> QED
  BY <1>1 DEF IInv, Lockstep, Loyal

\* transformBranch and the masks: each block is executed for exactly the lanes
\* whose own path is there, and for lanes that a stale exit condition has drawn
\* into a loop before.
THEOREM GangKeepsStep == Spec => []Lockstep
BY InStep, Invariant, PTL

\* The "_any" reductions: a block is executed only if it is active for some lane.
THEOREM GangRunsForSomeone == Spec => []NoEmptyPass
<1>1. IInv => NoEmptyPass
  <2>1. ASSUME IInv, block # Exit PROVE ActiveLanes(block) # {}
    <3>1. TypeInv /\ MasksHold(block) /\ LanesWait(block) /\ block \in BlocksOf(cfg)
      BY <2>1 DEF IInv, TypeInv
    <3> QED
      BY <3>1, LocksStep
  <2> QED
    BY <2>1 DEF NoEmptyPass
<1> QED
  BY <1>1, Invariant, PTL

LEMMA MovesTheLanes ==
    ASSUME IInv, NEW b \in BlocksOf(cfg), Execute(b)
    PROVE  [Scalar!Next]_(Scalar!vars)
<1>1. /\ TypeInv /\ MasksHold(b) /\ LanesWait(b)
      /\ cfg' = cfg /\ b # Exit
      /\ \E c \in SUBSET Lanes : LanesFollow(b, c)
  BY GraphFacts DEF IInv, Execute, ReturnFrom, Jump, If, RepeatOrLeave, Conditions
<1>2. PICK c \in SUBSET Lanes : LanesFollow(b, c)
  BY <1>1
<1> DEFINE S == Here(b)
           to == [l \in S |-> at'[l]]
<1>3. S \in SUBSET Lanes /\ \A l \in S : at[l] = b
  BY DEF Here, Loyal
<1>4. Len(cfg.succ[b]) = 1 \/ Len(cfg.succ[b]) = 2 \/ Succs(cfg, b) = {}
  <2>1. Len(cfg.succ[b]) = 0 => Succs(cfg, b) = {}
    BY DEF Succs
  <2> QED
    BY <1>1, <2>1, GraphFacts
<1>5. at' = [l \in Lanes |-> IF l \in S THEN to[l] ELSE at[l]]
  BY <1>1, <1>2, <1>4, Follow
<1>6. \A l \in S : at'[l] \in Scalar!Targets(cfg, b)
  <2>1. CASE Succs(cfg, b) = {}
    <3>1. \A l \in S : at'[l] = Exit
      BY <2>1, <1>1, <1>2, <1>3, Follow
    <3> QED
      BY <2>1, <3>1 DEF Scalar!Targets, Scalar!Succs, Succs, Exit, Scalar!Exit
  <2>2. CASE Succs(cfg, b) # {}
    <3>1. \A l \in S : at'[l] \in Succs(cfg, b)
      <4>1. \A k \in 1..Len(cfg.succ[b]) : cfg.succ[b][k] \in Succs(cfg, b)
        BY DEF Succs
      <4>2. CASE Len(cfg.succ[b]) = 1
        <5>1. \A l \in S : at'[l] = cfg.succ[b][1]
          BY <4>2, <1>1, <1>2, <1>3, Follow
        <5> QED
          BY <4>1, <4>2, <5>1
      <4>3. CASE Len(cfg.succ[b]) = 2
        <5>1. \A l \in S : at'[l] \in {cfg.succ[b][1], cfg.succ[b][2]}
          BY <4>3, <1>1, <1>2, <1>3, Follow
        <5> QED
          BY <4>1, <4>3, <5>1
      <4> QED
        BY <1>4, <2>2, <4>2, <4>3
    <3> QED
      BY <2>2, <3>1 DEF Scalar!Targets, Scalar!Succs, Succs
  <2> QED
    BY <2>1, <2>2
<1>7. to \in [S -> Scalar!Targets(cfg, b)]
  BY <1>6
<1> HIDE DEF S, to
<1>8. b \in Scalar!BlocksOf(cfg)
  BY DEF BlocksOf, Scalar!BlocksOf
<1>9. CASE S # {}
  <2>1. Scalar!Move(S, b)
    BY <1>1, <1>3, <1>5, <1>7, <1>9 DEF Scalar!Move, Scalar!Exit, Exit
  <2> QED
    BY <1>3, <1>8, <2>1 DEF Scalar!Next
<1>10. CASE S = {}
  <2>1. at' = at
    BY <1>1, <1>5, <1>10 DEF TypeInv
  <2> QED
    BY <1>1, <2>1 DEF Scalar!vars
<1> QED
  BY <1>9, <1>10

\* A gang moves a lane only as the lane would move by itself, up to where the
\* lane is drawn into a loop.
THEOREM GangImplementsLanes == Spec => LanesSafely
<1>1. Init => Scalar!Init
  <2> SUFFICES ASSUME Init PROVE Scalar!Init
    OBVIOUS
  <2>1. at \in [Lanes -> {cfg.entry, Exit}]
    BY DEF Init
  <2> QED
    BY <2>1 DEF Init, Scalar!Init, Exit, Scalar!Exit
<1>2. IInv /\ [Next]_vars => [Scalar!Next]_(Scalar!vars)
  BY MovesTheLanes DEF Next, Ended, vars, Scalar!vars
<1>3. Spec => []IInv
  BY Invariant
<1> QED
  BY <1>1, <1>2, <1>3, PTL DEF Spec, LanesSafely

-----------------------------------------------------------------------------
(* The values on top of the execution *)

OnEdges ==
    /\ \A l \in Loyal :
          at[l] \in BlocksOf(cfg) \ {cfg.entry} => laneFrom[l] \in Preds(cfg, at[l])
    /\ block \in BlocksOf(cfg) \ {cfg.entry} => from \in Preds(cfg, block)

JoinersSkipped ==
    block # Exit =>
        \A l \in Loyal :
            at[l] \in BlocksOf(cfg) \ {block} /\ IsJoin(cfg, at[l])
                => laneFrom[l] = PHIDominator(cfg, at[l])

PHIInv == OnEdges /\ JoinersSkipped /\ PHIValueIsOwn

DefMask == ActiveMaskOf(cfg, flow.def)

\* The blocks where a value of the loop is used: it dominates them, and they
\* are behind this loop only.
Behind ==
    {s \in BlocksOf(cfg) \ Region(cfg, DefLoop) :
        /\ Dominates(cfg, flow.def, s)
        /\ \A m \in Masks \ {DefLoop} :
              DefLoop \in Region(cfg, m) => s \in Region(cfg, m)}

RegHolds ==
    \A l \in Loyal :
        at[l] \in Region(cfg, DefMask) \ {flow.def} /\ Dominates(cfg, flow.def, at[l])
            => reg[l] = own[l]

LiveInHolds ==
    IsLiveOut /\ block \in Region(cfg, DefLoop) =>
        \A l \in Loyal : at[l] \in Joins(cfg, DefLoop) => liveIn[l] = own[l]

LiveOutHolds ==
    IsLiveOut /\ block \notin Region(cfg, DefLoop) =>
        \A l \in Loyal : at[l] \in Behind => liveOut[l] = own[l]

FlowInv ==
    /\ flow \in Flows /\ flow.cfg = cfg
    /\ RegHolds /\ LiveInHolds /\ LiveOutHolds

-----------------------------------------------------------------------------
(* The steps of the gang, as the values see them *)

\* The lanes at the gang's block leave it along its edges; the others stay.
LEMMA Moves ==
    ASSUME IInv, NEW b \in BlocksOf(cfg), Execute(b)
    PROVE  /\ TypeInv /\ MasksHold(b) /\ LanesWait(b)
           /\ cfg' = cfg /\ block = b /\ OnPath(b) = Here(b)
           /\ Loyal' \subseteq Loyal /\ Loyal \subseteq Lanes
           /\ \A k \in Loyal : (at[k] = b <=> k \in Here(b)) /\ (at[k] = b <=> k \in ActiveLanes(b))
           /\ \A l \in Loyal : at[l] # b => at'[l] = at[l]
           /\ \A l \in Loyal : at[l] = b => at'[l] \in Succs(cfg, b) \cup {Exit}
           /\ block' \in Succs(cfg, b) \cup {Exit}
           /\ block' = Exit => \A l \in Loyal' : at'[l] = Exit
           /\ Len(cfg.succ[b]) = 1 => \A l \in Loyal : at[l] = b => at'[l] = block'
           /\ IInv'
<1>1. /\ TypeInv /\ MasksHold(b) /\ LanesWait(b) /\ cfg' = cfg /\ block = b
      /\ \E c \in SUBSET Lanes : LanesFollow(b, c)
  BY GraphFacts DEF IInv, Execute, ReturnFrom, Jump, If, RepeatOrLeave, Conditions
<1>2. PICK c \in SUBSET Lanes : LanesFollow(b, c)
  BY <1>1
<1>3. OnPath(b) = Here(b)
  BY <1>1, LocksStep
<1>0. /\ Loyal \subseteq Lanes /\ Loyal' \subseteq Loyal
      /\ \A k \in Loyal : /\ at[k] = b <=> k \in Here(b)
                          /\ at[k] = b <=> k \in ActiveLanes(b)
  BY <1>3 DEF Here, OnPath, Loyal, Execute, ReturnFrom, Jump, If, RepeatOrLeave
<1>4. Len(cfg.succ[b]) = 1 \/ Len(cfg.succ[b]) = 2 \/ Succs(cfg, b) = {}
  <2>1. Len(cfg.succ[b]) = 0 => Succs(cfg, b) = {}
    BY DEF Succs
  <2> QED
    BY <1>1, <2>1, GraphFacts
<1>5. \A k \in 1..Len(cfg.succ[b]) : cfg.succ[b][k] \in Succs(cfg, b)
  BY DEF Succs
<1>6. \A l \in Loyal : at[l] # b => at'[l] = at[l]
  BY <1>0, <1>1, <1>2, <1>4, Follow
<1>7. \A l \in Loyal : at[l] = b => at'[l] \in Succs(cfg, b) \cup {Exit}
  <2>1. CASE Len(cfg.succ[b]) = 1
    BY <2>1, <1>0, <1>1, <1>2, <1>5, Follow
  <2>2. CASE Len(cfg.succ[b]) = 2
    BY <2>2, <1>0, <1>1, <1>2, <1>5, Follow
  <2>3. CASE Succs(cfg, b) = {}
    BY <2>3, <1>0, <1>1, <1>2, Follow
  <2> QED
    BY <1>4, <2>1, <2>2, <2>3
<1>8. block' \in Succs(cfg, b) \cup {Exit}
  <2>1. CASE ReturnFrom(b)
    BY <2>1 DEF ReturnFrom
  <2>2. CASE Jump(b)
    BY <2>2, <1>5 DEF Jump, GoTo
  <2>3. CASE \E d \in Conditions(b) : If(b, d)
    BY <2>3, <1>5 DEF If, GoTo, IsConditional
  <2>4. CASE \E d \in Conditions(b) : RepeatOrLeave(b, d)
    <3>1. Len(cfg.succ[b]) = 2
      <4>1. LoopsHaveTails(cfg)
        BY <1>1, GangAssumption DEF TypeInv, IsStructured
      <4> QED
        BY <2>4, <4>1 DEF LoopsHaveTails, RepeatOrLeave, IsConditional
    <3> QED
      BY <2>4, <3>1, <1>5 DEF RepeatOrLeave, GoTo
  <2> QED
    BY <2>1, <2>2, <2>3, <2>4 DEF Execute
<1>9. Len(cfg.succ[b]) = 1 => \A l \in Loyal : at[l] = b => at'[l] = block'
  <2> SUFFICES ASSUME Len(cfg.succ[b]) = 1
               PROVE  \A l \in Loyal : at[l] = b => at'[l] = block'
    OBVIOUS
  <2>1. \A l \in Loyal : at[l] = b => at'[l] = cfg.succ[b][1]
    BY <1>0, <1>1, <1>2, Follow
  <2>2. Succs(cfg, b) # {}
    BY <1>5
  <2>3. ~IsConditional(cfg, b) /\ ~IsLoopTail(cfg, b)
    <3>1. LoopsHaveTails(cfg)
      BY <1>1, GangAssumption DEF TypeInv, IsStructured
    <3> QED
      BY <3>1 DEF LoopsHaveTails, IsConditional
  <2>4. Jump(b)
    BY <2>2, <2>3 DEF Execute, ReturnFrom, If, RepeatOrLeave
  <2> QED
    BY <2>1, <2>4 DEF Jump, GoTo
<1>10. IInv'
  <2>1. [Next]_vars
    BY DEF Next
  <2> QED
    BY <2>1, InvNext
<1>11. block' = Exit => \A l \in Loyal' : at'[l] = Exit
  BY <1>10 DEF IInv
<1> QED
  BY <1>0, <1>1, <1>3, <1>6, <1>7, <1>8, <1>9, <1>10, <1>11

\* No region is left to a header, so that no lane waits there.
LEMMA NoneWaitsAtHeaders ==
    ASSUME TypeInv, NEW b \in BlocksOf(cfg), LanesWait(b),
           NEW l \in Loyal, at[l] \in LoopHeaders(cfg)
    PROVE  at[l] = b
<1>1. HeadersAreNoJoins(cfg)
  BY ValuesAssumption DEF TypeInv
<1>2. LoopHeaders(cfg) \subseteq BlocksOf(cfg)
  BY DEF LoopHeaders, Headers, TypeInv
<1>3. at[l] # Exit
  BY <1>2, GraphFacts
<1>4. ~Waits(l, b)
  BY <1>1 DEF HeadersAreNoJoins, Waits, Masks
<1> QED
  BY <1>3, <1>4 DEF LanesWait

\* A header is entered by a jump, or repeated by a tail.
LEMMA IntoHeader ==
    ASSUME TypeInv, NEW b \in BlocksOf(cfg), NEW h \in Succs(cfg, b), h \in LoopHeaders(cfg)
    PROVE  Len(cfg.succ[b]) = 1 \/ (IsLoopTail(cfg, b) /\ h = cfg.succ[b][2])
<1>1. HeadersAreNoJoins(cfg) /\ LoopsHaveTails(cfg) /\ IfsAreThens(cfg)
  BY ValuesAssumption, GangAssumption DEF TypeInv, IsStructured
<1>2. PICK k \in 1..Len(cfg.succ[b]) : h = cfg.succ[b][k]
  BY DEF Succs
<1>3. Len(cfg.succ[b]) \in 0..2
  BY GraphFacts
<1>4. Len(cfg.succ[b]) = 1 \/ Len(cfg.succ[b]) = 2
  BY <1>2, <1>3
<1>5. CASE Len(cfg.succ[b]) = 2 /\ IsLoopTail(cfg, b)
  <2>1. cfg.succ[b][2] \in LoopHeaders(cfg) /\ cfg.succ[b][1] \in Joins(cfg, cfg.succ[b][2])
    BY <1>1, <1>5 DEF LoopsHaveTails
  <2>2. cfg.succ[b][2] \in MasksOf(cfg) \ {ArgMask}
    BY <2>1, GraphFacts DEF MasksOf, LoopHeaders, Headers, TypeInv
  <2>3. cfg.succ[b][1] \notin LoopHeaders(cfg)
    BY <1>1, <2>1, <2>2 DEF HeadersAreNoJoins
  <2> QED
    BY <1>2, <1>5, <2>3
<1>6. CASE Len(cfg.succ[b]) = 2 /\ ~IsLoopTail(cfg, b)
  <2> DEFINE then == cfg.succ[b][1]
  <2>1. then \in ThenBlocks(cfg) /\ cfg.succ[b][2] \in Joins(cfg, then)
    BY <1>1, <1>6 DEF IfsAreThens, IsConditional
  <2>2. then \in MasksOf(cfg) \ {ArgMask} /\ then \notin LoopHeaders(cfg)
    BY <2>1, GraphFacts DEF MasksOf, ThenBlocks
  <2>3. cfg.succ[b][2] \notin LoopHeaders(cfg)
    BY <1>1, <2>1, <2>2 DEF HeadersAreNoJoins
  <2> QED
    BY <1>2, <1>6, <2>2, <2>3
<1> QED
  BY <1>4, <1>5, <1>6

LEMMA IfJoins ==
    ASSUME TypeInv, NEW j \in BlocksOf(cfg), IsJoin(cfg, j)
    PROVE  LET p == PHIDominator(cfg, j)
               q == PHIThenBlock(cfg, j)
               t == ActiveMaskOf(cfg, q)
           IN  /\ Preds(cfg, j) = {p, q} /\ p # q
               /\ p \in BlocksOf(cfg) /\ q \in BlocksOf(cfg)
               /\ Len(cfg.succ[q]) = 1
               /\ Len(cfg.succ[p]) = 2 /\ ~IsLoopTail(cfg, p)
               /\ cfg.succ[p][1] = t
               /\ t \in Masks \ {ArgMask} /\ t \in ThenBlocks(cfg)
               /\ j \notin Region(cfg, t)
<1> DEFINE p == PHIDominator(cfg, j)
           q == PHIThenBlock(cfg, j)
           t == ActiveMaskOf(cfg, q)
<1>1. /\ Preds(cfg, j) = {p, q} /\ Len(cfg.succ[q]) = 1
      /\ IsConditional(cfg, p) /\ ~IsLoopTail(cfg, p) /\ cfg.succ[p][1] = t
  BY ValuesAssumption DEF JoinsEndIfs, IsJoin, TypeInv
<1>2. p \in BlocksOf(cfg) /\ q \in BlocksOf(cfg) /\ j \in Succs(cfg, p)
  BY <1>1 DEF Preds
<1>3. IfsAreThens(cfg)
  BY GangAssumption DEF TypeInv, IsStructured
<1>4. t \in ThenBlocks(cfg) /\ t \in Region(cfg, t) /\ cfg.succ[p][2] \in Joins(cfg, t)
  BY <1>1, <1>2, <1>3 DEF IfsAreThens
<1>5. Preds(cfg, t) = {p}
  <2>1. p \in Preds(cfg, t)
    BY <1>1, <1>2, <1>4 DEF Preds, Succs, ThenBlocks, IsConditional
  <2> QED
    BY <1>4, <2>1 DEF ThenBlocks
<1>6. p # q
  BY <1>1 DEF IsConditional
<1>7. j # t
  BY <1>1, <1>2, <1>5, <1>6 DEF Preds
<1>8. j = cfg.succ[p][2]
  BY <1>1, <1>2, <1>7 DEF Succs, IsConditional
<1> QED
  BY <1>1, <1>2, <1>4, <1>6, <1>8, GraphFacts, JoinsOutside DEF IsConditional, Masks, MasksOf, ThenBlocks

-----------------------------------------------------------------------------
(* PHIs *)

LEMMA PHIInit == IInv /\ ValuesInit => PHIInv
<1> SUFFICES ASSUME IInv, ValuesInit PROVE PHIInv
  OBVIOUS
<1>1. /\ TypeInv /\ block = cfg.entry /\ cfg.entry \in BlocksOf(cfg)
      /\ \A l \in Loyal : at[l] \in {cfg.entry, Exit}
  BY GraphFacts DEF IInv, ValuesInit, Init, Loyal
<1>2. Preds(cfg, cfg.entry) = {}
  BY ValuesAssumption DEF JoinsEndIfs, TypeInv, IInv
<1>3. OnEdges
  BY <1>1, GraphFacts DEF OnEdges
<1>4. JoinersSkipped
  BY <1>1, GraphFacts DEF JoinersSkipped
<1>5. PHIValueIsOwn
  BY <1>1, <1>2 DEF PHIValueIsOwn
<1> QED
  BY <1>3, <1>4, <1>5 DEF PHIInv

LEMMA OnEdgesStep ==
    ASSUME IInv, PHIInv, NEW b \in BlocksOf(cfg), ExecuteWithValues(b)
    PROVE  OnEdges'
<1>1. /\ TypeInv /\ cfg' = cfg /\ block = b /\ OnPath(b) = Here(b)
      /\ Loyal' \subseteq Loyal /\ Loyal \subseteq Lanes
      /\ \A k \in Loyal : (at[k] = b <=> k \in Here(b)) /\ (at[k] = b <=> k \in ActiveLanes(b))
      /\ \A l \in Loyal : at[l] # b => at'[l] = at[l]
      /\ \A l \in Loyal : at[l] = b => at'[l] \in Succs(cfg, b) \cup {Exit}
      /\ block' \in Succs(cfg, b) \cup {Exit}
  BY Moves DEF ExecuteWithValues
<1>2. /\ from' = b
      /\ laneFrom' = [l \in Lanes |-> IF l \in Here(b) THEN b ELSE laneFrom[l]]
  BY <1>1 DEF ExecuteWithValues, Carry
<1>3. \A s \in BlocksOf(cfg) : s \in Succs(cfg, b) => b \in Preds(cfg, s)
  BY DEF Preds
<1>4. ASSUME NEW l \in Loyal', at'[l] \in BlocksOf(cfg) \ {cfg.entry}
      PROVE  laneFrom'[l] \in Preds(cfg, at'[l])
  <2>1. CASE at[l] = b
    <3>1. laneFrom'[l] = b
      BY <1>1, <1>2, <2>1
    <3> QED
      BY <1>1, <1>3, <1>4, <2>1, <3>1, GraphFacts
  <2>2. CASE at[l] # b
    <3>1. laneFrom'[l] = laneFrom[l] /\ at'[l] = at[l]
      BY <1>1, <1>2, <2>2
    <3> QED
      BY <1>1, <1>4, <3>1 DEF PHIInv, OnEdges
  <2> QED
    BY <2>1, <2>2
<1>5. block' \in BlocksOf(cfg) => from' \in Preds(cfg, block')
  BY <1>1, <1>2, <1>3, GraphFacts
<1> QED
  BY <1>1, <1>4, <1>5 DEF OnEdges

LEMMA JoinersStep ==
    ASSUME IInv, PHIInv, NEW b \in BlocksOf(cfg), ExecuteWithValues(b)
    PROVE  JoinersSkipped'
<1>1. /\ TypeInv /\ cfg' = cfg /\ block = b /\ OnPath(b) = Here(b)
      /\ Loyal' \subseteq Loyal /\ Loyal \subseteq Lanes
      /\ \A k \in Loyal : (at[k] = b <=> k \in Here(b)) /\ (at[k] = b <=> k \in ActiveLanes(b))
      /\ \A l \in Loyal : at[l] # b => at'[l] = at[l]
      /\ \A l \in Loyal : at[l] = b => at'[l] \in Succs(cfg, b) \cup {Exit}
      /\ Len(cfg.succ[b]) = 1 => \A l \in Loyal : at[l] = b => at'[l] = block'
  BY Moves DEF ExecuteWithValues
<1>2. laneFrom' = [l \in Lanes |-> IF l \in Here(b) THEN b ELSE laneFrom[l]]
  BY <1>1 DEF ExecuteWithValues, Carry
<1> SUFFICES ASSUME NEW l \in Loyal', at'[l] \in BlocksOf(cfg), at'[l] # block',
                    IsJoin(cfg, at'[l])
             PROVE  laneFrom'[l] = PHIDominator(cfg, at'[l])
  BY <1>1 DEF JoinersSkipped
<1>3. CASE at[l] # b
  <2>1. laneFrom'[l] = laneFrom[l] /\ at'[l] = at[l]
    BY <1>1, <1>2, <1>3 DEF Here
  <2>2. b # Exit
    BY <1>1, GraphFacts
  <2> QED
    BY <1>1, <1>3, <2>1, <2>2 DEF PHIInv, JoinersSkipped
<1>4. CASE at[l] = b
  <2>1. laneFrom'[l] = b
    BY <1>1, <1>2, <1>4
  <2>2. b \in Preds(cfg, at'[l])
    BY <1>1, <1>4, GraphFacts DEF Preds
  <2>3. Len(cfg.succ[b]) # 1
    BY <1>1, <1>4
  <2> QED
    BY <1>1, <2>1, <2>2, <2>3, IfJoins
<1> QED
  BY <1>3, <1>4

\* At a join, the mask of the 'then' block tells the lanes that came from its
\* region from those that went around it.
LEMMA SelectAtJoin ==
    ASSUME IInv, PHIInv, NEW b \in BlocksOf(cfg), ExecuteWithValues(b),
           block' \in Succs(cfg, b), IsJoin(cfg, block'),
           NEW l \in Loyal', at'[l] = block'
    PROVE  PHISource(block, l)' = laneFrom'[l]
<1> DEFINE j == block'
           p == PHIDominator(cfg, j)
           q == PHIThenBlock(cfg, j)
           t == ActiveMaskOf(cfg, q)
<1>1. /\ TypeInv /\ MasksHold(b) /\ cfg' = cfg /\ block = b /\ OnPath(b) = Here(b)
      /\ Loyal' \subseteq Loyal /\ Loyal \subseteq Lanes
      /\ \A k \in Loyal : (at[k] = b <=> k \in Here(b)) /\ (at[k] = b <=> k \in ActiveLanes(b))
      /\ at[l] # b => at'[l] = at[l]
  BY Moves DEF ExecuteWithValues
<1>2. /\ from' = b
      /\ laneFrom'[l] = IF at[l] = b THEN b ELSE laneFrom[l]
  BY <1>1 DEF ExecuteWithValues, Carry
<1>3. j \in BlocksOf(cfg)
  BY <1>1, GraphFacts DEF Succs
<1>4. /\ Preds(cfg, j) = {p, q} /\ p # q
      /\ p \in BlocksOf(cfg) /\ q \in BlocksOf(cfg)
      /\ Len(cfg.succ[q]) = 1
      /\ Len(cfg.succ[p]) = 2 /\ ~IsLoopTail(cfg, p)
      /\ cfg.succ[p][1] = t
      /\ t \in Masks \ {ArgMask} /\ t \in ThenBlocks(cfg)
      /\ j \notin Region(cfg, t)
  BY <1>1, <1>3, IfJoins
<1>5. b \in {p, q}
  BY <1>3, <1>4 DEF Preds
<1>6. PHISource(block, l)' = (IF l \notin mask'[t] THEN p ELSE b)
  BY <1>1, <1>2 DEF PHISource
<1>7. at[l] # b => laneFrom[l] = p
  BY <1>1, <1>3, GraphFacts DEF PHIInv, JoinersSkipped
<1>8. \A m : LoopStart(m, b, j) = m
  BY DEF LoopStart, IsJoin
<1> HIDE DEF j, p, q, t
<1>9. CASE b = q
  <2>1. Jump(b)
    <3>1. Succs(cfg, b) # {}
      OBVIOUS
    <3>2. ~IsConditional(cfg, b) /\ ~IsLoopTail(cfg, b)
      <4>1. LoopsHaveTails(cfg)
        BY <1>1, GangAssumption DEF TypeInv, IsStructured
      <4> QED
        BY <4>1, <1>4, <1>9 DEF LoopsHaveTails, IsConditional
    <3> QED
      BY <3>1, <3>2 DEF ExecuteWithValues, Execute, ReturnFrom, If, RepeatOrLeave
  <2>2. mask' = mask
    BY <2>1, <1>8 DEF Jump, GoTo, j
  <2>3. mask[t] = ActiveLanes(b)
    BY <1>9 DEF ActiveLanes, t
  <2>4. l \in mask'[t] <=> at[l] = b
    BY <1>1, <2>2, <2>3
  <2> QED
    BY <1>2, <1>6, <1>7, <2>4
<1>10. CASE b = p
  <2>1. PICK c \in Conditions(b) : If(b, c)
    <3>1. Succs(cfg, b) # {}
      OBVIOUS
    <3> QED
      BY <3>1, <1>4, <1>10 DEF ExecuteWithValues, Execute, ReturnFrom, Jump, RepeatOrLeave
  <2> DEFINE m == [mask EXCEPT ![t] = ThenMask(b, c)]
  <2>2. j # t
    BY <1>1, <1>4, Innermosts
  <2>3. m[t] = {} /\ mask' = m
    BY <2>1, <2>2, <1>4, <1>8, <1>10 DEF If, GoTo, Any, j
  <2>4. l \notin mask'[t]
    BY <2>3
  <2> QED
    BY <1>2, <1>6, <1>7, <1>10, <2>4
<1> QED
  BY <1>5, <1>9, <1>10

LEMMA PHIStep ==
    ASSUME IInv, PHIInv, NEW b \in BlocksOf(cfg), ExecuteWithValues(b)
    PROVE  PHIValueIsOwn'
<1>1. /\ TypeInv /\ LanesWait(b) /\ cfg' = cfg /\ block = b /\ OnPath(b) = Here(b)
      /\ Loyal' \subseteq Loyal /\ Loyal \subseteq Lanes
      /\ \A k \in Loyal : (at[k] = b <=> k \in Here(b)) /\ (at[k] = b <=> k \in ActiveLanes(b))
      /\ \A l \in Loyal : at[l] # b => at'[l] = at[l]
      /\ block' \in Succs(cfg, b) \cup {Exit}
      /\ IInv'
  BY Moves DEF ExecuteWithValues
<1>2. /\ from' = b
      /\ laneFrom' = [l \in Lanes |-> IF l \in Here(b) THEN b ELSE laneFrom[l]]
  BY <1>1 DEF ExecuteWithValues, Carry
<1> SUFFICES ASSUME block' # Exit, NEW l \in OnPath(block)'
             PROVE  PHISource(block, l)' = laneFrom'[l]
  BY DEF PHIValueIsOwn
<1>3. block' \in Succs(cfg, b) /\ block' \in BlocksOf(cfg)
  BY <1>1, GraphFacts DEF Succs
<1>4. l \in Loyal' /\ l \in Loyal /\ l \in Lanes /\ at'[l] = block'
  <2>1. Lockstep'
    BY <1>1, InStep, PTL
  <2> QED
    BY <1>1, <2>1 DEF Lockstep, Loyal
<1>5. CASE IsJoin(cfg, block')
  BY <1>3, <1>4, <1>5, SelectAtJoin
<1>6. CASE ~IsJoin(cfg, block')
  <2>1. PHISource(block, l)' = b
    BY <1>1, <1>2, <1>6 DEF PHISource
  <2>2. CASE at[l] = b
    BY <1>1, <1>2, <1>4, <2>1, <2>2
  <2>3. CASE at[l] # b
    <3>1. at[l] = block' /\ laneFrom'[l] = laneFrom[l]
      BY <1>1, <1>2, <1>4, <2>3 DEF Here
    <3>2. block' \notin LoopHeaders(cfg)
      BY <1>1, <1>4, <2>3, <3>1, NoneWaitsAtHeaders
    <3>3. JoinsEndIfs(cfg)
      BY <1>1, ValuesAssumption DEF TypeInv
    <3>4. b \in Preds(cfg, block')
      BY <1>3 DEF Preds
    <3>5. laneFrom[l] \in Preds(cfg, block')
      BY <3>1, <3>3, <3>4, <1>3, <1>4 DEF PHIInv, OnEdges, JoinsEndIfs
    <3> QED
      BY <1>3, <1>6, <2>1, <3>1, <3>2, <3>3, <3>4, <3>5 DEF JoinsEndIfs
  <2> QED
    BY <2>2, <2>3
<1> QED
  BY <1>5, <1>6

-----------------------------------------------------------------------------
(* Definitions and live-outs *)

LEMMA MasksDominate ==
    ASSUME TypeInv, NEW m \in Masks \ {ArgMask}, NEW b \in Region(cfg, m)
    PROVE  Dominates(cfg, m, b)
BY ValuesAssumption DEF TypeInv, DominanceOrders, Region, Governs

LEMMA DefFacts ==
    ASSUME TypeInv, flow \in Flows, flow.cfg = cfg
    PROVE  /\ flow.def \in BlocksOf(cfg) /\ flow.use \in BlocksOf(cfg) \ {flow.def}
           /\ Dominates(cfg, flow.def, flow.use)
           /\ DefMask \in Masks /\ flow.def \in Region(cfg, DefMask)
           /\ DominanceOrders(cfg)
           /\ \A m \in Masks \ {ArgMask} :
                 flow.def \in Region(cfg, m) =>
                    m = flow.def \/ ~Dominates(cfg, flow.def, m)
           /\ ~IsLiveOut => flow.use \in Region(cfg, DefMask)
<1>1. IsFlow(flow)
  BY ValuesAssumption
<1>2. /\ flow.def \in BlocksOf(cfg) /\ flow.use \in BlocksOf(cfg) \ {flow.def}
      /\ Dominates(cfg, flow.def, flow.use)
      /\ ~IsLiveOut => flow.use \in Region(cfg, DefMask)
  BY <1>1 DEF IsFlow, IsLiveOut, DefMask
<1>3. DominanceOrders(cfg)
  BY ValuesAssumption DEF TypeInv
<1>4. DefMask \in Masks /\ flow.def \in Region(cfg, DefMask)
  BY <1>2, Innermosts DEF DefMask
<1>5. ASSUME NEW m \in Masks \ {ArgMask}, flow.def \in Region(cfg, m), Dominates(cfg, flow.def, m)
      PROVE  m = flow.def
  BY <1>2, <1>3, <1>5, MasksDominate, RegionFacts DEF DominanceOrders
<1> QED
  BY <1>2, <1>3, <1>4, <1>5

LEMMA LoopFacts ==
    ASSUME TypeInv, flow \in Flows, flow.cfg = cfg, IsLiveOut
    PROVE  LET tail == ExitingBlock(cfg, DefLoop)
           IN  /\ DefMask = DefLoop
               /\ DefLoop \in Masks \ {ArgMask} /\ DefLoop \in LoopHeaders(cfg)
               /\ tail \in Region(cfg, DefLoop) /\ tail \in BlocksOf(cfg)
               /\ ActiveMaskOf(cfg, tail) = DefLoop
               /\ IsLoopTail(cfg, tail) /\ Len(cfg.succ[tail]) = 2
               /\ cfg.succ[tail][2] = DefLoop
               /\ cfg.succ[tail][1] \in Joins(cfg, DefLoop)
               /\ Dominates(cfg, flow.def, tail)
               /\ \A b \in Region(cfg, DefLoop) \ {tail} :
                     Succs(cfg, b) \subseteq Region(cfg, DefLoop) \ {DefLoop}
               /\ flow.use \in Behind
<1> DEFINE loop == DefLoop
           tail == ExitingBlock(cfg, loop)
<1>1. /\ DefMask = loop
      /\ Latches(cfg, loop) = {tail} /\ IsLoopTail(cfg, tail)
      /\ cfg.succ[tail][2] = loop
      /\ \A b \in LoopBlocks(cfg, loop) \ {tail} :
            Succs(cfg, b) \subseteq LoopBlocks(cfg, loop)
      /\ Dominates(cfg, flow.def, tail)
      /\ \A m \in Masks \ {loop} : loop \in Region(cfg, m) => flow.use \in Region(cfg, m)
      /\ flow.use \notin LoopBlocks(cfg, loop)
  BY ValuesAssumption DEF IsFlow, HasOneTail, IsLiveOut, LeavesLoop, DefLoop, DefMask, Masks
<1>2. tail \in BlocksOf(cfg)
  BY <1>1 DEF Latches, Preds
<1>3. LoopsHaveTails(cfg)
  BY GangAssumption DEF TypeInv, IsStructured
<1>4. /\ loop \in LoopHeaders(cfg) /\ ActiveMaskOf(cfg, tail) = loop
      /\ Len(cfg.succ[tail]) = 2 /\ cfg.succ[tail][1] \in Joins(cfg, loop)
  BY <1>1, <1>2, <1>3 DEF LoopsHaveTails, IsConditional
<1>5. loop \in BlocksOf(cfg) /\ loop \in Masks \ {ArgMask}
  BY <1>4, GraphFacts DEF Masks, MasksOf, LoopHeaders, Headers, TypeInv
<1>6. LoopBlocks(cfg, loop) \subseteq BlocksOf(cfg)
  BY <1>4, <1>5 DEF LoopBlocks, LoopInfo, TypeInv
<1>7. Region(cfg, loop) = LoopBlocks(cfg, loop)
  BY <1>4, <1>5, <1>6 DEF Region, Governs, ThenBlocks
<1>8. tail \in Region(cfg, loop)
  BY <1>2, <1>4, Innermosts
<1>9. ASSUME NEW b \in Region(cfg, loop) \ {tail}
      PROVE  Succs(cfg, b) \subseteq Region(cfg, loop) \ {loop}
  <2>1. loop \notin Succs(cfg, b)
    <3>1. Dominates(cfg, loop, b)
      BY <1>1, <1>4, <1>5, MasksDominate
    <3> QED
      BY <1>1, <1>6, <1>7, <3>1 DEF Latches, Preds
  <2> QED
    BY <1>1, <1>7, <2>1
<1>10. flow.use \in Behind
  BY <1>1, <1>7, DefFacts DEF Behind
<1> QED
  BY <1>1, <1>2, <1>4, <1>5, <1>8, <1>9, <1>10

\* The register is written at the definition only, for the lanes that are
\* there; every other lane of the mask has to pass there to see it used.
LEMMA RegStep ==
    ASSUME IInv, FlowInv, NEW b \in BlocksOf(cfg), ExecuteWithValues(b)
    PROVE  RegHolds'
<1>1. /\ TypeInv /\ MasksHold(b) /\ LanesWait(b)
      /\ cfg' = cfg /\ block = b /\ OnPath(b) = Here(b)
      /\ Loyal' \subseteq Loyal /\ Loyal \subseteq Lanes
      /\ \A k \in Loyal : (at[k] = b <=> k \in Here(b)) /\ (at[k] = b <=> k \in ActiveLanes(b))
      /\ \A l \in Loyal : at[l] # b => at'[l] = at[l]
      /\ \A l \in Loyal : at[l] = b => at'[l] \in Succs(cfg, b) \cup {Exit}
  BY Moves DEF ExecuteWithValues
<1>2. flow' = flow /\ Define(b) /\ flow \in Flows /\ flow.cfg = cfg
  BY DEF ExecuteWithValues, Carry, FlowInv
<1>3. /\ DefMask \in Masks /\ flow.def \in Region(cfg, DefMask) /\ DominanceOrders(cfg)
      /\ flow.def \in BlocksOf(cfg)
      /\ \A m \in Masks \ {ArgMask} :
            flow.def \in Region(cfg, m) => m = flow.def \/ ~Dominates(cfg, flow.def, m)
  BY <1>1, <1>2, DefFacts
<1>4. DefMask' = DefMask
  BY <1>1, <1>2 DEF DefMask
<1> SUFFICES ASSUME NEW l \in Loyal', at'[l] \in Region(cfg, DefMask), at'[l] # flow.def,
                    Dominates(cfg, flow.def, at'[l])
             PROVE  reg'[l] = own'[l]
  BY <1>1, <1>2, <1>4 DEF RegHolds
<1>5. CASE at[l] = b /\ b = flow.def
  BY <1>1, <1>2, <1>5 DEF Define
<1>6. CASE at[l] # b /\ b = flow.def
  <2>1. In(DefMask) = Here(b)
    BY <1>1, <1>3, <1>6 DEF OnPath, ActiveLanes, MasksHold, DefMask
  <2> QED
    BY <1>1, <1>6, <2>1 DEF In, Here
<1>7. CASE b # flow.def
  <2>1. reg' = reg /\ own' = own
    BY <1>2, <1>7 DEF Define
  <2>2. CASE at[l] # b
    BY <1>1, <2>1, <2>2 DEF FlowInv, RegHolds
  <2>3. CASE at[l] = b
    <3>1. at'[l] \in BlocksOf(cfg) /\ at'[l] \in Succs(cfg, b)
      BY <1>1, <1>3, <2>3, RegionFacts, GraphFacts
    <3>2. Dominates(cfg, flow.def, b)
      BY <1>3, <3>1 DEF DominanceOrders
    <3>3. b \in Region(cfg, DefMask)
      <4> SUFFICES ASSUME b \notin Region(cfg, DefMask) PROVE FALSE
        OBVIOUS
      <4>1. DefMask # ArgMask
        BY <1>1, RegionFacts
      <4>2. at'[l] = DefMask
        BY <1>1, <1>3, <3>1, <4>1, Ways
      <4> QED
        BY <1>3, <4>1, <4>2
    <3> QED
      BY <1>1, <1>7, <2>1, <2>3, <3>2, <3>3 DEF FlowInv, RegHolds
  <2> QED
    BY <2>2, <2>3
<1> QED
  BY <1>5, <1>6, <1>7

\* The select of the tail gives the lanes of the mask the definition, and those
\* that have left the loop what _livein kept for them.
LEMMA SelectHolds ==
    ASSUME IInv, FlowInv, IsLiveOut, NEW b \in BlocksOf(cfg),
           ExecuteWithValues(b), b = ExitingBlock(cfg, DefLoop),
           NEW l \in Loyal, at[l] = b \/ at[l] \in Joins(cfg, DefLoop)
    PROVE  liveOut'[l] = own'[l]
<1>1. /\ TypeInv /\ block = b /\ OnPath(b) = Here(b)
      /\ Loyal' \subseteq Loyal /\ Loyal \subseteq Lanes
      /\ \A k \in Loyal : (at[k] = b <=> k \in Here(b)) /\ (at[k] = b <=> k \in ActiveLanes(b))
      /\ flow \in Flows /\ flow.cfg = cfg /\ Define(b)
      /\ liveOut' = LiveOutSelect(b, reg')
  BY Moves DEF ExecuteWithValues, Carry, LiveOut, FlowInv
<1>2. /\ DefMask = DefLoop /\ b \in Region(cfg, DefLoop)
      /\ Dominates(cfg, flow.def, b)
  BY <1>1, LoopFacts
<1>3. CASE at[l] = b
  <2>1. liveOut'[l] = reg'[l]
    BY <1>1, <1>3 DEF LiveOutSelect
  <2>2. CASE b = flow.def
    BY <1>1, <1>3, <2>1, <2>2 DEF Define
  <2>3. CASE b # flow.def
    BY <1>1, <1>2, <1>3, <2>1, <2>3 DEF Define, FlowInv, RegHolds
  <2> QED
    BY <2>2, <2>3
<1>4. CASE at[l] \in Joins(cfg, DefLoop)
  <2>1. l \notin ActiveLanes(b) /\ l \notin Here(b)
    BY <1>1, <1>2, <1>4, JoinsOutside
  <2>2. liveOut'[l] = liveIn[l]
    BY <1>1, <2>1 DEF LiveOutSelect
  <2>3. own'[l] = own[l]
    BY <1>1, <2>1 DEF Define
  <2> QED
    BY <1>1, <1>2, <1>4, <2>2, <2>3 DEF FlowInv, LiveInHolds
<1> QED
  BY <1>3, <1>4

LEMMA LiveInStep ==
    ASSUME IInv, FlowInv, NEW b \in BlocksOf(cfg), ExecuteWithValues(b)
    PROVE  LiveInHolds'
<1>1. /\ TypeInv /\ LanesWait(b) /\ cfg' = cfg /\ block = b /\ OnPath(b) = Here(b)
      /\ Loyal' \subseteq Loyal /\ Loyal \subseteq Lanes
      /\ \A k \in Loyal : (at[k] = b <=> k \in Here(b)) /\ (at[k] = b <=> k \in ActiveLanes(b))
      /\ \A l \in Loyal : at[l] # b => at'[l] = at[l]
      /\ \A l \in Loyal : at[l] = b => at'[l] \in Succs(cfg, b) \cup {Exit}
      /\ block' \in Succs(cfg, b) \cup {Exit}
      /\ Len(cfg.succ[b]) = 1 => \A l \in Loyal : at[l] = b => at'[l] = block'
  BY Moves DEF ExecuteWithValues
<1>2. flow' = flow /\ flow \in Flows /\ flow.cfg = cfg /\ Define(b) /\ LiveIn(b)
  BY DEF ExecuteWithValues, Carry, FlowInv
<1>3. (IsLiveOut <=> IsLiveOut') /\ DefLoop' = DefLoop
  BY <1>1, <1>2 DEF IsLiveOut, DefLoop
<1> DEFINE loop == DefLoop
           tail == ExitingBlock(cfg, loop)
<1> SUFFICES ASSUME IsLiveOut, block' \in Region(cfg, loop),
                    NEW l \in Loyal', at'[l] \in Joins(cfg, loop)
             PROVE  liveIn'[l] = own'[l]
  BY <1>1, <1>3 DEF LiveInHolds
<1>4. /\ loop \in Masks \ {ArgMask} /\ loop \in LoopHeaders(cfg)
      /\ ActiveMaskOf(cfg, tail) = loop
      /\ cfg.succ[tail][2] = loop /\ Len(cfg.succ[tail]) = 2
      /\ cfg.succ[tail][1] \in Joins(cfg, loop)
      /\ \A d \in Region(cfg, loop) \ {tail} :
            Succs(cfg, d) \subseteq Region(cfg, loop) \ {loop}
  BY <1>1, <1>2, LoopFacts
<1>5. block' \in Succs(cfg, b)
  BY <1>1, <1>4, RegionFacts, GraphFacts
<1>6. at'[l] # Exit /\ at'[l] \notin Region(cfg, loop)
  BY <1>1, GraphFacts, JoinsOutside
<1> HIDE DEF loop, tail
<1>7. CASE b \notin Region(cfg, loop)
  <2>1. block' = loop
    BY <1>1, <1>4, <1>5, <1>7, Ways
  <2>2. Len(cfg.succ[b]) = 1
    <3>1. ~(IsLoopTail(cfg, b) /\ loop = cfg.succ[b][2])
      <4>1. LoopsHaveTails(cfg)
        BY <1>1, GangAssumption DEF TypeInv, IsStructured
      <4>2. IsLoopTail(cfg, b) => ActiveMaskOf(cfg, b) = cfg.succ[b][2]
        BY <4>1 DEF LoopsHaveTails
      <4> QED
        BY <1>1, <1>7, <4>2, Innermosts
    <3> QED
      BY <1>1, <1>4, <1>5, <2>1, <3>1, IntoHeader
  <2>3. at[l] # b /\ at'[l] = at[l]
    BY <1>1, <1>6, <2>1, <2>2
  <2>4. PICK k \in Masks \ {ArgMask} : b \in Region(cfg, k) /\ at[l] \in Joins(cfg, k)
    BY <1>1, <1>6, <2>3 DEF LanesWait, Waits
  <2>5. loop \in Region(cfg, k)
    <3>1. HeadersAreNoJoins(cfg)
      BY <1>1, ValuesAssumption DEF TypeInv
    <3>2. loop \notin Joins(cfg, k)
      BY <1>4, <3>1 DEF HeadersAreNoJoins, Masks
    <3>3. loop \in BlocksOf(cfg)
      BY <1>1, <1>4, RegionFacts
    <3> QED
      BY <1>5, <2>1, <2>4, <3>2, <3>3 DEF Joins
  <2>6. Region(cfg, loop) \subseteq Region(cfg, k) /\ k # loop
    BY <1>1, <1>4, <1>7, <2>4, <2>5, Innermosts
  <2>7. at[l] \in Region(cfg, k)
    BY <1>1, <1>4, <2>3, <2>6, Ways DEF loop
  <2> QED
    BY <2>4, <2>7, JoinsOutside
<1>8. CASE b \in Region(cfg, loop) /\ b # tail
  <2>1. block' # loop /\ at[l] # b
    BY <1>1, <1>4, <1>5, <1>6, <1>8
  <2>2. liveIn' = liveIn
    BY <1>2, <1>3, <2>1 DEF LiveIn, loop
  <2>3. own'[l] = own[l] /\ at'[l] = at[l]
    BY <1>1, <1>2, <2>1 DEF Define
  <2> QED
    BY <1>1, <1>8, <2>2, <2>3 DEF FlowInv, LiveInHolds, loop
<1>9. CASE b = tail
  <2>1. block' = loop
    BY <1>4, <1>5, <1>9, JoinsOutside DEF Succs
  <2>2. liveIn' = liveOut'
    BY <1>2, <1>9, <2>1 DEF LiveIn, LiveInPHI, loop, tail
  <2>3. at[l] = b \/ at[l] \in Joins(cfg, loop)
    BY <1>1
  <2>4. liveOut'[l] = own'[l]
    BY <1>1, <1>9, <2>3, SelectHolds DEF loop, tail
  <2> QED
    BY <2>2, <2>4
<1> QED
  BY <1>7, <1>8, <1>9

LEMMA LiveOutStep ==
    ASSUME IInv, FlowInv, NEW b \in BlocksOf(cfg), ExecuteWithValues(b)
    PROVE  LiveOutHolds'
<1>1. /\ TypeInv /\ LanesWait(b) /\ cfg' = cfg /\ block = b /\ OnPath(b) = Here(b)
      /\ Loyal' \subseteq Loyal /\ Loyal \subseteq Lanes
      /\ \A k \in Loyal : (at[k] = b <=> k \in Here(b)) /\ (at[k] = b <=> k \in ActiveLanes(b))
      /\ \A l \in Loyal : at[l] # b => at'[l] = at[l]
      /\ \A l \in Loyal : at[l] = b => at'[l] \in Succs(cfg, b) \cup {Exit}
      /\ block' \in Succs(cfg, b) \cup {Exit}
      /\ block' = Exit => \A l \in Loyal' : at'[l] = Exit
  BY Moves DEF ExecuteWithValues
<1>2. flow' = flow /\ flow \in Flows /\ flow.cfg = cfg /\ Define(b) /\ LiveOut(b)
  BY DEF ExecuteWithValues, Carry, FlowInv
<1>3. (IsLiveOut <=> IsLiveOut') /\ DefLoop' = DefLoop /\ Behind' = Behind
  BY <1>1, <1>2 DEF IsLiveOut, DefLoop, Behind, Masks
<1> DEFINE loop == DefLoop
           tail == ExitingBlock(cfg, loop)
<1> SUFFICES ASSUME IsLiveOut, block' \notin Region(cfg, loop),
                    NEW l \in Loyal', at'[l] \in Behind
             PROVE  liveOut'[l] = own'[l]
  BY <1>1, <1>3 DEF LiveOutHolds
<1>4. /\ DefMask = loop /\ loop \in Masks \ {ArgMask}
      /\ tail \in Region(cfg, loop) /\ ActiveMaskOf(cfg, tail) = loop
      /\ \A d \in Region(cfg, loop) \ {tail} :
            Succs(cfg, d) \subseteq Region(cfg, loop) \ {loop}
  BY <1>1, <1>2, LoopFacts
<1>5. /\ flow.def \in Region(cfg, loop) /\ flow.def \in BlocksOf(cfg) /\ DominanceOrders(cfg)
      /\ \A m \in Masks \ {ArgMask} :
            flow.def \in Region(cfg, m) => m = flow.def \/ ~Dominates(cfg, flow.def, m)
  BY <1>1, <1>2, <1>4, DefFacts
<1>6. /\ at'[l] \in BlocksOf(cfg) /\ at'[l] # Exit /\ at'[l] \notin Region(cfg, loop)
      /\ Dominates(cfg, flow.def, at'[l])
      /\ \A m \in Masks \ {loop} : loop \in Region(cfg, m) => at'[l] \in Region(cfg, m)
  BY <1>1, GraphFacts DEF Behind
<1> HIDE DEF loop, tail
<1>7. CASE b \notin Region(cfg, loop)
  <2>1. liveOut' = liveOut /\ own' = own
    BY <1>2, <1>4, <1>5, <1>7 DEF LiveOut, Define, loop, tail
  <2>2. at[l] \in Behind
    <3>1. CASE at[l] # b
      BY <1>1, <3>1
    <3>2. CASE at[l] = b
      <4>1. at'[l] \in Succs(cfg, b) /\ at'[l] # flow.def
        BY <1>1, <1>5, <1>6, <3>2
      <4>2. Dominates(cfg, flow.def, b)
        BY <1>5, <1>6, <4>1 DEF DominanceOrders
      <4>3. ASSUME NEW m \in Masks \ {loop}, loop \in Region(cfg, m), b \notin Region(cfg, m)
            PROVE  FALSE
        <5>1. m # ArgMask
          BY <1>1, <4>3, RegionFacts
        <5>2. at'[l] = m
          BY <1>1, <1>6, <4>1, <4>3, <5>1, Ways
        <5>3. flow.def \in Region(cfg, m)
          BY <1>1, <1>4, <1>5, <4>3, Innermosts
        <5> QED
          BY <1>5, <1>6, <4>1, <5>1, <5>2, <5>3
      <4> QED
        BY <1>7, <3>2, <4>2, <4>3 DEF Behind, loop
    <3> QED
      BY <3>1, <3>2
  <2> QED
    BY <1>1, <1>7, <2>1, <2>2 DEF FlowInv, LiveOutHolds, loop
<1>8. CASE b \in Region(cfg, loop)
  <2>1. b = tail
    BY <1>1, <1>4, <1>6, <1>8
  <2>2. at[l] = b \/ at[l] \in Joins(cfg, loop)
    <3> SUFFICES ASSUME at[l] # b PROVE at[l] \in Joins(cfg, loop)
      OBVIOUS
    <3>1. PICK k \in Masks \ {ArgMask} : b \in Region(cfg, k) /\ at[l] \in Joins(cfg, k)
      BY <1>1, <1>6 DEF LanesWait, Waits
    <3>2. loop \in Region(cfg, k)
      BY <1>1, <1>4, <2>1, <3>1, Innermosts
    <3>3. CASE k # loop
      BY <1>1, <1>6, <3>1, <3>2, <3>3, JoinsOutside
    <3> QED
      BY <3>1, <3>3
  <2> QED
    BY <1>1, <2>1, <2>2, SelectHolds DEF loop, tail
<1> QED
  BY <1>7, <1>8

LEMMA FlowInit == IInv /\ ValuesInit => FlowInv
<1> SUFFICES ASSUME IInv, ValuesInit PROVE FlowInv
  OBVIOUS
<1>1. /\ TypeInv /\ block = cfg.entry /\ cfg.entry \in BlocksOf(cfg)
      /\ \A l \in Loyal : at[l] \in {cfg.entry, Exit}
      /\ flow \in Flows /\ flow.cfg = cfg
  BY GraphFacts DEF IInv, ValuesInit, Init, Loyal
<1>2. /\ DefMask \in Masks /\ flow.def \in Region(cfg, DefMask) /\ flow.def \in BlocksOf(cfg)
      /\ Dominates(cfg, flow.def, cfg.entry) => flow.def = cfg.entry
  BY <1>1, DefFacts DEF DominanceOrders
<1>3. Exit \notin BlocksOf(cfg) /\ \A m \in Masks : Region(cfg, m) \subseteq BlocksOf(cfg)
  BY <1>1, GraphFacts, RegionFacts
<1>4. RegHolds
  BY <1>1, <1>2, <1>3 DEF RegHolds
<1>5. IsLiveOut => DefMask = DefLoop /\ cfg.entry \notin Region(cfg, DefLoop)
  BY <1>1, LoopFacts, Ways
<1>6. LiveInHolds
  BY <1>1, <1>5 DEF LiveInHolds
<1>7. LiveOutHolds
  BY <1>1, <1>2, <1>3, <1>5 DEF LiveOutHolds, Behind
<1> QED
  BY <1>1, <1>4, <1>6, <1>7 DEF FlowInv

-----------------------------------------------------------------------------
(* The theorems *)

ValuesInv == IInv /\ PHIInv /\ FlowInv

LEMMA ValuesNextInv ==
    ValuesInv /\ [ValuesNext]_<<vars, valueVars>> => ValuesInv'
<1> SUFFICES ASSUME ValuesInv, [ValuesNext]_<<vars, valueVars>> PROVE ValuesInv'
  OBVIOUS
<1>1. ASSUME NEW b \in BlocksOf(cfg), ExecuteWithValues(b) PROVE ValuesInv'
  <2>1. IInv' /\ cfg' = cfg /\ flow' = flow
    BY <1>1, Moves DEF ExecuteWithValues, Carry, ValuesInv
  <2>2. PHIInv'
    BY <1>1, OnEdgesStep, JoinersStep, PHIStep DEF ValuesInv, PHIInv
  <2>3. FlowInv'
    BY <1>1, <2>1, RegStep, LiveInStep, LiveOutStep DEF ValuesInv, FlowInv
  <2> QED
    BY <2>1, <2>2, <2>3 DEF ValuesInv
<1>2. CASE UNCHANGED <<vars, valueVars>>
  <2>1. IInv'
    BY <1>2, InvNext DEF ValuesInv
  <2>2. PHIInv'
    BY <1>2 DEF vars, valueVars, ValuesInv, PHIInv, OnEdges, JoinersSkipped,
                PHIValueIsOwn, PHISource, ActiveLanes, OnPath, Loyal
  <2>3. FlowInv'
    <3>1. /\ DefMask' = DefMask /\ DefLoop' = DefLoop /\ Behind' = Behind
          /\ IsLiveOut' <=> IsLiveOut
      BY <1>2 DEF vars, valueVars, DefMask, DefLoop, Behind, Masks, IsLiveOut
    <3> QED
      BY <1>2, <3>1 DEF vars, valueVars, ValuesInv, FlowInv, RegHolds, LiveInHolds, LiveOutHolds, Loyal
  <2> QED
    BY <2>1, <2>2, <2>3 DEF ValuesInv
<1> QED
  BY <1>1, <1>2 DEF ValuesNext, Ended

LEMMA ValuesInvariant == ValuesSpec => []ValuesInv
<1>1. ValuesInit => ValuesInv
  BY InvInit, PHIInit, FlowInit DEF ValuesInit, ValuesInv
<1>2. ValuesInv /\ [ValuesNext]_<<vars, valueVars>> => ValuesInv'
  BY ValuesNextInv
<1> QED
  BY <1>1, <1>2, PTL DEF ValuesSpec

\* transformPHIFirstPass: the select on the mask of the 'then' block, and the
\* PHI of a header, give every active lane on its own path the value of the
\* edge the lane itself came over, whatever lanes a loop has drawn in.
THEOREM PHIsAreLaneWise == ValuesSpec => []PHIValueIsOwn
<1>1. ValuesInv => PHIValueIsOwn
  BY DEF ValuesInv, PHIInv
<1> QED
  BY <1>1, ValuesInvariant, PTL

LEMMA UsesHold == ValuesInv => LiveOutIsOwn
<1> SUFFICES ASSUME ValuesInv, block = flow.use, NEW l \in OnPath(block)
             PROVE  ValueUsed[l] = own[l]
  BY DEF LiveOutIsOwn
<1>1. TypeInv /\ flow \in Flows /\ flow.cfg = cfg /\ Lockstep
  BY InStep DEF ValuesInv, IInv, FlowInv
<1>2. /\ flow.use \in BlocksOf(cfg) \ {flow.def} /\ Dominates(cfg, flow.def, flow.use)
      /\ ~IsLiveOut => flow.use \in Region(cfg, DefMask)
  BY <1>1, DefFacts
<1>3. l \in Loyal /\ at[l] = flow.use
  BY <1>1, <1>2, GraphFacts DEF Lockstep, Loyal
<1>4. CASE IsLiveOut
  BY <1>1, <1>3, <1>4, LoopFacts DEF Behind, ValuesInv, FlowInv, LiveOutHolds, ValueUsed
<1>5. CASE ~IsLiveOut
  BY <1>2, <1>3, <1>5 DEF ValuesInv, FlowInv, RegHolds, ValueUsed
<1> QED
  BY <1>4, <1>5

\* LiveOutPHIsStep: a use reads, for every lane that executes it on its own
\* path, the value the lane itself computed last, whatever the other lanes went
\* on to compute.
THEOREM LiveOutsAreLaneWise == ValuesSpec => []LiveOutIsOwn
BY UsesHold, ValuesInvariant, PTL

\* The values ride along: what is proved of the gang holds of it when it
\* carries them.
LEMMA ValuesRideAlong == ValuesSpec => Spec
<1>1. ValuesInit => Init
  BY DEF ValuesInit
<1>2. [ValuesNext]_<<vars, valueVars>> => [Next]_vars
  BY DEF ValuesNext, ExecuteWithValues, Next, vars
<1> QED
  BY <1>1, <1>2, PTL DEF ValuesSpec, Spec
===============================================================================
