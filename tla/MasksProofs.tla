----------------------------- MODULE MasksProofs ------------------------------
(***************************************************************************)
(* For every structured function and every order of its blocks: no mask is *)
(* read before it is there, the pass does not give up, and masks, mask     *)
(* instructions and branches come out as the graph demands.                *)
(***************************************************************************)
EXTENDS Masks, FiniteSetTheorems, SequenceTheorems, TLAPS

-----------------------------------------------------------------------------
(* The graph: which masks govern the blocks at the two ends of an edge     *)

Governors(g, b) == {m \in BlocksOf(g) : Governs(g, m, b)}

LEMMA MasksByGovernors ==
    ASSUME NEW g \in Cfgs
    PROVE  /\ \A b \in BlocksOf(g) : ActiveMaskOf(g, b) = Innermost(g, Governors(g, b))
           /\ \A h \in LoopHeaders(g) :
                 LoopEntryMaskOf(g, h) = Innermost(g, Governors(g, h) \ {h})
<1>1. \A b \in BlocksOf(g) : ActiveMaskOf(g, b) = Innermost(g, Governors(g, b))
  BY DEF ActiveMaskOf, ActiveMasks, Governors
<1>2. ASSUME NEW h \in LoopHeaders(g)
      PROVE  LoopEntryMaskOf(g, h) = Innermost(g, Governors(g, h) \ {h})
  <2>1. {m \in BlocksOf(g) \ {h} : Governs(g, m, h)} = Governors(g, h) \ {h}
    BY DEF Governors
  <2>2. LoopEntryMaskOf(g, h) = Innermost(g, {m \in BlocksOf(g) \ {h} : Governs(g, m, h)})
    BY DEF LoopEntryMaskOf, LoopEntryMasks
  <2> QED
    BY <2>1, <2>2
<1> QED
  BY <1>1, <1>2

\* What structured functions are, as far as it is used below.
LEMMA GraphFacts ==
    ASSUME NEW g \in Cfgs
    PROVE  /\ ArgMask \notin BlocksOf(g) /\ NoBlock \notin BlocksOf(g)
           /\ g.entry \in BlocksOf(g)
           /\ LoopHeaders(g) \subseteq BlocksOf(g) /\ ThenBlocks(g) \subseteq BlocksOf(g)
           /\ \A b \in BlocksOf(g) : Dominates(g, b, b) /\ Succs(g, b) \subseteq BlocksOf(g)
           /\ \A b \in BlocksOf(g) :
                 IsConditional(g, b) => Succs(g, b) = {g.succ[b][1], g.succ[b][2]}
<1>1. Graph(g)
  BY MasksAssumption DEF IsStructured
<1>2. \A b \in BlocksOf(g) : Dominates(g, b, b)
  BY DEF Dominates, DominatorTree
<1>3. LoopHeaders(g) \subseteq BlocksOf(g) /\ ThenBlocks(g) \subseteq BlocksOf(g)
  BY DEF LoopHeaders, Headers, ThenBlocks
<1>4. ASSUME NEW b \in BlocksOf(g)
      PROVE  /\ Succs(g, b) \subseteq BlocksOf(g)
             /\ IsConditional(g, b) => Succs(g, b) = {g.succ[b][1], g.succ[b][2]}
  <2>1. g.succ[b] \in Seq(BlocksOf(g)) /\ Len(g.succ[b]) \in 0..2
    BY <1>1 DEF Graph
  <2>2. \A k \in 1..Len(g.succ[b]) : g.succ[b][k] \in BlocksOf(g)
    BY <2>1
  <2>3. 1..2 = {1, 2}
    OBVIOUS
  <2> QED
    BY <2>1, <2>2, <2>3 DEF Succs, IsConditional
<1> QED
  BY <1>1, <1>2, <1>3, <1>4 DEF Graph

\* Regions around the two ends of an edge.
LEMMA RegionFacts ==
    ASSUME NEW g \in Cfgs
    PROVE  /\ \A m \in MasksOf(g) \ {ArgMask} :
                 /\ m \in BlocksOf(g) /\ m \in Region(g, m)
                 /\ g.entry \notin Region(g, m)
                 /\ Region(g, m) = {b \in BlocksOf(g) : m \in Governors(g, b)}
                 /\ \A s \in Region(g, m) \ {m} : Preds(g, s) \subseteq Region(g, m)
                 /\ \A n \in MasksOf(g) : m \in Region(g, n) =>
                       /\ Region(g, m) \subseteq Region(g, n)
                       /\ n # m => Joins(g, m) \subseteq Region(g, n)
           /\ \A b \in BlocksOf(g) :
                 /\ Governors(g, b) \subseteq MasksOf(g) \ {ArgMask}
                 /\ ActiveMaskOf(g, b) \in MasksOf(g)
                 /\ \A m \in Governors(g, b) : Region(g, ActiveMaskOf(g, b)) \subseteq Region(g, m)
           /\ \A h \in LoopHeaders(g) : LoopEntryMaskOf(g, h) \in MasksOf(g)
           /\ \A m \in MasksOf(g) \ {ArgMask} : ActiveMaskOf(g, m) = m
           /\ \A h \in LoopHeaders(g) : Region(g, h) \cap Preds(g, h) = Latches(g, h)
<1>1. RegionsNest(g) /\ OneWayInAndOut(g) /\ LoopsHaveTails(g)
  BY MasksAssumption DEF IsStructured
<1>2. \A m \in MasksOf(g) \ {ArgMask} :
         /\ m \in BlocksOf(g)
         /\ Region(g, m) = {b \in BlocksOf(g) : m \in Governors(g, b)}
  BY GraphFacts DEF MasksOf, Region, Governors
<1>3. \A b \in BlocksOf(g) : Governors(g, b) \subseteq MasksOf(g) \ {ArgMask}
  BY GraphFacts DEF Governors, Governs, MasksOf
<1>4. \A b \in BlocksOf(g) :
         /\ ActiveMaskOf(g, b) \in MasksOf(g)
         /\ b \in Region(g, ActiveMaskOf(g, b))
         /\ \A n \in MasksOf(g) :
               b \in Region(g, n) => Region(g, ActiveMaskOf(g, b)) \subseteq Region(g, n)
  BY <1>1 DEF RegionsNest, IsInnermost
<1>5. \A m \in MasksOf(g) \ {ArgMask} : ActiveMaskOf(g, m) = m
  BY <1>1 DEF RegionsNest
<1>6. ASSUME NEW m \in MasksOf(g) \ {ArgMask}
      PROVE  /\ m \in BlocksOf(g) /\ m \in Region(g, m)
             /\ g.entry \notin Region(g, m)
             /\ \A s \in Region(g, m) \ {m} : Preds(g, s) \subseteq Region(g, m)
             /\ \A n \in MasksOf(g) : m \in Region(g, n) =>
                   /\ Region(g, m) \subseteq Region(g, n)
                   /\ n # m => Joins(g, m) \subseteq Region(g, n)
  <2>1. m \in BlocksOf(g) /\ m \in Region(g, m)
        /\ \A n \in MasksOf(g) : m \in Region(g, n) => Region(g, m) \subseteq Region(g, n)
    BY <1>2, <1>4, <1>5
  <2>2. /\ g.entry \notin Region(g, m)
        /\ \A b \in BlocksOf(g) \ Region(g, m) : Succs(g, b) \cap Region(g, m) \subseteq {m}
        /\ \A n \in MasksOf(g) \ {m} :
              Region(g, m) \subseteq Region(g, n) => Joins(g, m) \subseteq Region(g, n)
    BY <1>1 DEF OneWayInAndOut
  <2> QED
    BY <2>1, <2>2 DEF Preds
<1>7. \A b \in BlocksOf(g) : \A m \in Governors(g, b) :
         Region(g, ActiveMaskOf(g, b)) \subseteq Region(g, m)
  BY <1>2, <1>3, <1>4
<1>8. \A h \in LoopHeaders(g) : LoopEntryMaskOf(g, h) \in MasksOf(g)
  BY <1>1 DEF RegionsNest, IsInnermost
<1>9. \A h \in LoopHeaders(g) : Region(g, h) \cap Preds(g, h) = Latches(g, h)
  BY <1>1 DEF LoopsHaveTails, Latches
<1> QED
  BY <1>2, <1>3, <1>4, <1>5, <1>6, <1>7, <1>8, <1>9

\* A loop's tail.
LEMMA TailFacts ==
    ASSUME NEW g \in Cfgs, NEW p \in BlocksOf(g), IsLoopTail(g, p)
    PROVE  LET k == LoopFor(g, p)
           IN  /\ k \in LoopHeaders(g) /\ k \in MasksOf(g) \ {ArgMask}
               /\ ActiveMaskOf(g, p) = k /\ p \in Region(g, k)
               /\ IsConditional(g, p)
               /\ g.succ[p][2] = k /\ g.succ[p][1] \in Joins(g, k)
               /\ p \in Latches(g, k)
<1> DEFINE k == LoopFor(g, p)
<1>1. LoopsHaveTails(g) /\ TailsCloseLoops(g) /\ RegionsNest(g)
  BY MasksAssumption DEF IsStructured
<1>2. k = g.succ[p][2]
  BY <1>1 DEF TailsCloseLoops
<1>3. IsConditional(g, p) /\ k \in LoopHeaders(g) /\ ActiveMaskOf(g, p) = k
      /\ g.succ[p][1] \in Joins(g, k)
  BY <1>1, <1>2 DEF LoopsHaveTails
<1>4. p \in Region(g, k)
  BY <1>1, <1>3 DEF RegionsNest, IsInnermost
<1>5. k \in MasksOf(g) \ {ArgMask}
  BY <1>3, GraphFacts DEF MasksOf
<1>6. p \in Preds(g, k)
  BY <1>2, <1>3, GraphFacts DEF Preds
<1>7. p \in Latches(g, k)
  BY <1>3, <1>4, <1>6, RegionFacts
<1> QED
  BY <1>2, <1>3, <1>4, <1>5, <1>7

\* Behind a loop the masks around the loop govern.
LEMMA FromTail ==
    ASSUME NEW g \in Cfgs, NEW b \in BlocksOf(g), NEW p \in Forward(g, b), IsLoopTail(g, p)
    PROVE  Governors(g, b) \ {b} = Governors(g, LoopFor(g, p)) \ {LoopFor(g, p)}
<1> DEFINE k == LoopFor(g, p)
<1>1. p \in BlocksOf(g) /\ p \in Preds(g, b) /\ b \in Succs(g, p) /\ p \notin Latches(g, b)
  BY DEF Forward, Preds
<1>2. /\ k \in LoopHeaders(g) /\ k \in MasksOf(g) \ {ArgMask}
      /\ ActiveMaskOf(g, p) = k /\ p \in Region(g, k)
      /\ Succs(g, p) = {g.succ[p][1], k} /\ g.succ[p][1] \in Joins(g, k)
      /\ p \in Latches(g, k)
  BY <1>1, TailFacts, GraphFacts
<1> HIDE DEF k
<1>3. b # k /\ b \in Joins(g, k) /\ b \notin Region(g, k)
  BY <1>1, <1>2 DEF Joins
<1>4. ASSUME NEW m \in Governors(g, b) \ {b} PROVE m \in Governors(g, k) \ {k}
  <2>1. m \in MasksOf(g) \ {ArgMask} /\ b \in Region(g, m)
    BY RegionFacts
  <2>2. p \in Region(g, m)
    BY <1>1, <2>1, RegionFacts
  <2>3. m \in Governors(g, p)
    BY <2>1, <2>2, RegionFacts
  <2>4. Region(g, k) \subseteq Region(g, m)
    BY <1>1, <1>2, <2>3, RegionFacts
  <2>5. k \in Region(g, m)
    BY <1>2, <2>4, RegionFacts
  <2> QED
    BY <1>3, <2>1, <2>5, RegionFacts
<1>5. ASSUME NEW m \in Governors(g, k) \ {k} PROVE m \in Governors(g, b) \ {b}
  <2>1. m \in MasksOf(g) \ {ArgMask} /\ k \in Region(g, m)
    BY <1>2, RegionFacts
  <2>2. Region(g, k) \subseteq Region(g, m) /\ Joins(g, k) \subseteq Region(g, m)
    BY <1>2, <2>1, RegionFacts
  <2>3. b \in Region(g, m) /\ p \in Region(g, m)
    BY <1>2, <1>3, <2>2
  <2>4. ASSUME m = b PROVE FALSE
    <3>1. CASE b \in LoopHeaders(g)
      BY <1>1, <2>3, <2>4, <3>1, RegionFacts
    <3>2. CASE b \in ThenBlocks(g)
      <4>1. Preds(g, b) = {p}
        BY <1>1, <3>2 DEF ThenBlocks
      <4> QED
        BY <3>2, <4>1 DEF ThenBlocks
    <3> QED
      BY <2>1, <2>4, <3>1, <3>2 DEF MasksOf
  <2> QED
    BY <2>1, <2>3, <2>4, RegionFacts
<1> QED
  BY <1>4, <1>5 DEF k

\* Behind any other block that dominates the ways to b, the same masks govern,
\* unless b is a 'then' block.
LEMMA FromDominator ==
    ASSUME NEW g \in Cfgs, NEW b \in BlocksOf(g) \ ThenBlocks(g), NEW p \in Forward(g, b),
           ~IsLoopTail(g, p), \A q \in Forward(g, b) : Dominates(g, p, q)
    PROVE  Governors(g, b) \ {b} = Governors(g, p)
<1>1. p \in BlocksOf(g) /\ p \in Preds(g, b) /\ b \in Succs(g, p) /\ p \notin Latches(g, b)
  BY DEF Forward, Preds
<1>2. ASSUME NEW m \in Governors(g, b) \ {b} PROVE m \in Governors(g, p)
  <2>1. m \in MasksOf(g) \ {ArgMask} /\ b \in Region(g, m)
    BY RegionFacts
  <2>2. p \in Region(g, m)
    BY <1>1, <2>1, RegionFacts
  <2> QED
    BY <2>1, <2>2, RegionFacts
<1>3. ASSUME NEW m \in Governors(g, p) PROVE m \in Governors(g, b) \ {b}
  <2>1. m \in MasksOf(g) \ {ArgMask} /\ p \in Region(g, m) /\ m \in BlocksOf(g)
    BY <1>1, RegionFacts
  <2>2. m # b
    <3> SUFFICES ASSUME m = b PROVE FALSE
      OBVIOUS
    <3>1. b \in LoopHeaders(g)
      BY <2>1 DEF MasksOf
    <3> QED
      BY <1>1, <2>1, <3>1, RegionFacts
  <2>3. CASE m \in ThenBlocks(g) /\ Dominates(g, m, p)
    <3>1. DominatorsGather(g) /\ WaysMeet(g)
      BY MasksAssumption
    <3>2. \A q \in Forward(g, b) : q \in BlocksOf(g) /\ Dominates(g, m, q)
      BY <1>1, <2>1, <2>3, <3>1 DEF DominatorsGather, Forward, Preds
    <3>3. b # g.entry
      BY <1>1, <3>1 DEF WaysMeet
    <3>4. Dominates(g, m, b)
      BY <2>1, <3>1, <3>2, <3>3 DEF DominatorsGather
    <3> QED
      BY <2>1, <2>2, <2>3, <3>4 DEF Governors, Governs
  <2>4. CASE m \in LoopHeaders(g) /\ p \in LoopBlocks(g, m)
    <3>1. HasOneTail(g, m)
      BY <2>4, MasksAssumption DEF TailsCloseLoops
    <3>2. b \in LoopBlocks(g, m)
      BY <1>1, <2>4, <3>1 DEF HasOneTail
    <3> QED
      BY <2>1, <2>2, <2>4, <3>2 DEF Governors, Governs
  <2> QED
    BY <2>3, <2>4 DEF Governors, Governs
<1> QED
  BY <1>2, <1>3

\* Of a single way in, the entry mask is what calculateEntryMaskFromPredecessor
\* takes from the block it comes from.
LEMMA EntryMask ==
    ASSUME NEW g \in Cfgs, NEW b \in BlocksOf(g) \ ThenBlocks(g), NEW p, Forward(g, b) = {p}
    PROVE  Innermost(g, Governors(g, b) \ {b}) =
               IF IsLoopTail(g, p) THEN LoopEntryMaskOf(g, LoopFor(g, p))
                                   ELSE ActiveMaskOf(g, p)
<1>1. p \in BlocksOf(g)
  BY DEF Forward, Preds
<1>2. CASE IsLoopTail(g, p)
  <2>1. LoopFor(g, p) \in LoopHeaders(g)
    BY <1>1, <1>2, TailFacts
  <2>2. Governors(g, b) \ {b} = Governors(g, LoopFor(g, p)) \ {LoopFor(g, p)}
    BY <1>2, FromTail
  <2> QED
    BY <1>2, <2>1, <2>2, MasksByGovernors
<1>3. CASE ~IsLoopTail(g, p)
  <2>1. \A q \in Forward(g, b) : Dominates(g, p, q)
    BY <1>1, GraphFacts
  <2>2. Governors(g, b) \ {b} = Governors(g, p)
    BY <1>3, <2>1, FromDominator
  <2> QED
    BY <1>1, <1>3, <2>2, MasksByGovernors
<1> QED
  BY <1>2, <1>3

\* Only headers and 'then' blocks govern themselves.
LEMMA NotOwnGovernor ==
    ASSUME NEW g \in Cfgs, NEW b \in BlocksOf(g) \ (ThenBlocks(g) \cup LoopHeaders(g))
    PROVE  Governors(g, b) \ {b} = Governors(g, b)
BY DEF Governors, Governs

\* The four kinds of blocks.
IsHeader(g, b, p, l) ==
    /\ b \in LoopHeaders(g) /\ Cardinality(Preds(g, b)) = 2
    /\ p \in BlocksOf(g) /\ l \in BlocksOf(g) /\ p # l
    /\ Preds(g, b) = {p, l} /\ Forward(g, b) = {p} /\ Latches(g, b) = {l}
    /\ Preheader(g, b) = p
IsEntry(g, b) == b = g.entry /\ Preds(g, b) = {} /\ Cardinality(Preds(g, b)) = 0
HasOneWay(g, b, p) ==
    p \in BlocksOf(g) /\ Preds(g, b) = {p} /\ Cardinality(Preds(g, b)) = 1
HasTwoWays(g, b) ==
    /\ Cardinality(Preds(g, b)) = 2
    /\ \E d, q \in Preds(g, b) : d # q /\ Dominates(g, d, q)
    /\ \E d \in Preds(g, b) : \A q \in Preds(g, b) : Dominates(g, d, q)
    /\ \A d \in Preds(g, b) :
          (\A q \in Preds(g, b) : Dominates(g, d, q)) => ~IsLoopTail(g, d)

LEMMA Kinds ==
    ASSUME NEW g \in Cfgs, NEW b \in BlocksOf(g)
    PROVE  \/ \E p, l \in BlocksOf(g) : IsHeader(g, b, p, l)
           \/ /\ b \notin LoopHeaders(g) /\ Forward(g, b) = Preds(g, b)
              /\ \/ IsEntry(g, b)
                 \/ \E p \in BlocksOf(g) : HasOneWay(g, b, p)
                 \/ HasTwoWays(g, b)
<1>1. WaysMeet(g) /\ TailsCloseLoops(g)
  BY MasksAssumption
<1>2. CASE b \in LoopHeaders(g)
  <2> DEFINE l == ExitingBlock(g, b)
  <2>1. Latches(g, b) = {l}
    BY <1>1, <1>2 DEF TailsCloseLoops, HasOneTail
  <2>2. PICK p \in BlocksOf(g) : Forward(g, b) = {p}
    BY <1>1, <1>2 DEF WaysMeet
  <2> HIDE DEF l
  <2>3. Preds(g, b) = {p, l} /\ p # l /\ l \in BlocksOf(g)
    BY <2>1, <2>2 DEF Forward, Latches, Preds
  <2>4. Dominates(g, b, l) /\ ~Dominates(g, b, p)
    BY <2>1, <2>2, <2>3 DEF Latches
  <2>5. Preheader(g, b) = p
    BY <2>3, <2>4 DEF Preheader
  <2>6. Cardinality(Preds(g, b)) = 2
    <3>1. {p, l} = {p} \cup {l}
      OBVIOUS
    <3>2. IsFiniteSet({p}) /\ Cardinality({p}) = 1 /\ l \notin {p}
      BY <2>3, FS_Singleton
    <3>3. Cardinality({p} \cup {l}) = 1 + 1
      BY <3>2, FS_AddElement
    <3> QED
      BY <2>3, <3>1, <3>3
  <2> QED
    BY <1>2, <2>1, <2>2, <2>3, <2>5, <2>6 DEF IsHeader
<1>3. CASE b \notin LoopHeaders(g)
  <2>1. Forward(g, b) = Preds(g, b)
    BY <1>3 DEF Forward, LoopHeaders, Headers
  <2>2. CASE Preds(g, b) = {}
    BY <1>1, <1>3, <2>1, <2>2, FS_EmptySet DEF WaysMeet, IsEntry
  <2>3. CASE Preds(g, b) # {} /\ \A p, q \in Preds(g, b) : p = q
    <3>1. PICK p : Preds(g, b) = {p}
      BY <2>3
    <3>2. p \in BlocksOf(g) /\ Cardinality(Preds(g, b)) = 1
      BY <3>1, FS_Singleton DEF Preds
    <3> QED
      BY <1>3, <2>1, <3>1, <3>2 DEF HasOneWay
  <2>4. CASE ~(\A p, q \in Preds(g, b) : p = q)
    <3>1. /\ Cardinality(Preds(g, b)) = 2
          /\ \E d \in Preds(g, b) : \A p \in Preds(g, b) : Dominates(g, d, p)
          /\ \A d \in Preds(g, b) :
                IsLoopTail(g, d) => \E p \in Preds(g, b) : ~Dominates(g, d, p)
      BY <1>1, <1>3, <2>4 DEF WaysMeet
    <3>2. \E d, q \in Preds(g, b) : d # q /\ Dominates(g, d, q)
      BY <2>4, <3>1
    <3> QED
      BY <1>3, <2>1, <3>1, <3>2 DEF HasTwoWays
  <2> QED
    BY <2>2, <2>3, <2>4
<1> QED
  BY <1>2, <1>3

\* The block behind an if is one 'then' block, the first successor.
LEMMA OneThen ==
    ASSUME NEW g \in Cfgs, NEW p \in BlocksOf(g), IsConditional(g, p), ~IsLoopTail(g, p),
           NEW b \in BlocksOf(g) \ LoopHeaders(g), Preds(g, b) = {p}
    PROVE  b \in ThenBlocks(g) /\ g.succ[p][1] = b
<1>1. b \in ThenBlocks(g)
  BY DEF ThenBlocks
<1>2. IfsAreThens(g)
  BY MasksAssumption DEF IsStructured
<1>3. g.succ[p][2] \notin ThenBlocks(g)
  BY <1>2 DEF IfsAreThens
<1>4. b \in {g.succ[p][1], g.succ[p][2]}
  <2>1. b \in Succs(g, p)
    BY DEF Preds
  <2> QED
    BY <2>1, GraphFacts
<1> QED
  BY <1>1, <1>3, <1>4

LEMMA NeverAborts == cfg \in Cfgs => \A b \in BlocksOf(cfg) : ~Aborts(b)
<1> SUFFICES ASSUME cfg \in Cfgs, NEW b \in BlocksOf(cfg) PROVE ~Aborts(b)
  OBVIOUS
<1>1. CASE \E p, l \in BlocksOf(cfg) : IsHeader(cfg, b, p, l)
  <2>1. PICK p, l \in BlocksOf(cfg) : IsHeader(cfg, b, p, l)
    BY <1>1
  <2>2. DominatorsGather(cfg) /\ WaysMeet(cfg)
    BY MasksAssumption
  <2>3. p \in Preds(cfg, b) /\ l \in Preds(cfg, b) /\ p # l
    BY <2>1 DEF IsHeader
  <2>4. Dominates(cfg, b, l)
    BY <2>1 DEF IsHeader, Latches
  <2>5. Dominates(cfg, p, b)
    <3>1. \A q \in Forward(cfg, b) : Dominates(cfg, p, q)
      BY <2>1, GraphFacts DEF IsHeader
    <3>2. b # cfg.entry
      BY <2>2, <2>3 DEF WaysMeet
    <3> QED
      BY <2>2, <3>1, <3>2 DEF DominatorsGather
  <2>6. Dominates(cfg, p, l)
    BY <2>2, <2>4, <2>5 DEF DominatorsGather
  <2>7. Cardinality(Preds(cfg, b)) = 2
    BY <2>1 DEF IsHeader
  <2> QED
    BY <2>3, <2>6, <2>7 DEF Aborts
<1>2. CASE b \notin LoopHeaders(cfg) /\ IsEntry(cfg, b)
  BY <1>2 DEF Aborts, IsEntry
<1>3. CASE b \notin LoopHeaders(cfg) /\ \E p \in BlocksOf(cfg) : HasOneWay(cfg, b, p)
  <2>1. PICK p \in BlocksOf(cfg) : HasOneWay(cfg, b, p)
    BY <1>3
  <2>2. ThePredecessor(b) = p
    BY <2>1 DEF HasOneWay, ThePredecessor
  <2>3. IsThen(b) => cfg.succ[ThePredecessor(b)][1] = b
    BY <1>3, <2>1, <2>2, OneThen DEF IsThen, HasOneWay
  <2>4. Cardinality(Preds(cfg, b)) = 1
    BY <2>1 DEF HasOneWay
  <2> QED
    BY <1>3, <2>3, <2>4 DEF Aborts
<1>4. CASE b \notin LoopHeaders(cfg) /\ HasTwoWays(cfg, b)
  BY <1>4 DEF Aborts, HasTwoWays
<1> QED
  BY <1>1, <1>2, <1>3, <1>4, Kinds

\* A handler recurses over the edges that close no loop.
LEMMA CallsAreForward ==
    cfg \in Cfgs => \A b \in BlocksOf(cfg) : Calls(b) = Forward(cfg, b)
<1> SUFFICES ASSUME cfg \in Cfgs, NEW b \in BlocksOf(cfg) PROVE Calls(b) = Forward(cfg, b)
  OBVIOUS
<1>1. CASE \E p, l \in BlocksOf(cfg) : IsHeader(cfg, b, p, l)
  BY <1>1 DEF IsHeader, Calls, LoopHeaderCalls
<1>2. CASE b \notin LoopHeaders(cfg) /\ Forward(cfg, b) = Preds(cfg, b)
  BY <1>2 DEF Calls, TwoPredecessorsCalls
<1> QED
  BY <1>1, <1>2, Kinds

-----------------------------------------------------------------------------
(* The inductive invariant *)

\* The blocks whose handlers have returned.
Finished == Seen \ {stack[k].block : k \in 1..Len(stack)}

Frames == [block : BlocksOf(cfg), calls : SUBSET BlocksOf(cfg)]

TypeInv ==
    /\ cfg \in Cfgs
    /\ unvisited \subseteq BlocksOf(cfg)
    /\ stack \in Seq(Frames)
    /\ Seen \subseteq BlocksOf(cfg)
    /\ DOMAIN condition = BlocksOf(cfg)
    /\ DOMAIN swaps = BlocksOf(cfg)
    /\ phis \in Seq(LoopHeaders(cfg))
    /\ pc \in {"visit", "finalize", "done"}

\* Each call waits for the next one; calls that have returned are finished, and
\* so is everything a finished block has called.
CallsInv ==
    /\ \A k \in 1..Len(stack) :
          /\ stack[k].block \in Seen
          /\ stack[k].calls \subseteq Forward(cfg, stack[k].block)
          /\ \A p \in Forward(cfg, stack[k].block) \ stack[k].calls :
                p \in Finished \/ (k < Len(stack) /\ p = stack[k + 1].block)
    /\ \A k \in 1..(Len(stack) - 1) : stack[k + 1].block \in Forward(cfg, stack[k].block)
    /\ \A j, k \in 1..Len(stack) : stack[j].block = stack[k].block => j = k
    /\ \A b \in Finished : Forward(cfg, b) \subseteq Finished
    /\ BlocksOf(cfg) \ unvisited \subseteq Seen
    /\ pc # "visit" => stack = <<>> /\ unvisited = {}

\* The one block before b.
PredOf(g, b) == CHOOSE p \in BlocksOf(g) : Preds(g, b) = {p}

\* The loop of h has yet to be closed.
Pending(h) == pc = "visit" \/ h \in {phis[k] : k \in 1..Len(phis)}

\* Finished blocks have the masks the graph demands.
MaskInv ==
    /\ \A b \in Finished :
          /\ bb_masks[b].active = ActiveMaskOf(cfg, b)
          /\ bb_masks[b].entry \in MasksOf(cfg)
          /\ b \in LoopHeaders(cfg) => bb_masks[b].entry = LoopEntryMaskOf(cfg, b)
    /\ DOMAIN created = (ThenBlocks(cfg) \cup LoopHeaders(cfg)) \cap Finished
    /\ \A t \in ThenBlocks(cfg) \cap Finished :
          created[t] = [op |-> "and", left |-> ActiveMaskOf(cfg, PredOf(cfg, t)),
                        right |-> Original]
    /\ \A h \in LoopHeaders(cfg) \cap Finished :
          created[h] = [op |-> "phi", left |-> LoopEntryMaskOf(cfg, h),
                        right |-> IF Pending(h) THEN Deferred ELSE Negated(Original)]

\* The branches of finished 'then' blocks and of closed loops are done, all
\* others are untouched.
BranchInv ==
    /\ \A j, k \in 1..Len(phis) : phis[j] = phis[k] => j = k
    /\ pc = "visit" => {phis[k] : k \in 1..Len(phis)} = LoopHeaders(cfg) \cap Finished
    /\ pc = "done" => phis = <<>>
    /\ \A b \in BlocksOf(cfg) :
          swaps[b] = IF \E h \in LoopHeaders(cfg) : b \in Latches(cfg, h) /\ ~Pending(h)
                     THEN 1 ELSE 0
    /\ \A h \in LoopHeaders(cfg) : \A l \in Latches(cfg, h) :
          condition[l] = IF Pending(h) THEN Original ELSE Negated(Original)
    /\ \A t \in ThenBlocks(cfg) \cap Finished : condition[PredOf(cfg, t)] = MaskValue(t)
    /\ \A b \in BlocksOf(cfg) :
          /\ \A h \in LoopHeaders(cfg) : b \notin Latches(cfg, h)
          /\ \A t \in ThenBlocks(cfg) \cap Finished : b # PredOf(cfg, t)
          => condition[b] = Original

IInv == TypeInv /\ CallsInv /\ MaskInv /\ BranchInv

LEMMA InitIInv == Init => IInv
<1> SUFFICES ASSUME Init PROVE IInv
  OBVIOUS
<1> USE DEF Init
<1>1. Seen = {} /\ Finished = {} /\ Len(stack) = 0 /\ Len(phis) = 0 /\ DOMAIN created = {}
  BY DEF Seen, Finished
<1>2. TypeInv
  BY <1>1 DEF TypeInv
<1>3. CallsInv
  BY <1>1 DEF CallsInv
<1>4. MaskInv
  BY <1>1 DEF MaskInv
<1>5. BranchInv
  <2>1. \A h : Pending(h)
    BY DEF Pending
  <2>2. \A h \in LoopHeaders(cfg) : Latches(cfg, h) \subseteq BlocksOf(cfg)
    BY DEF Latches, Preds
  <2> QED
    BY <1>1, <2>1, <2>2 DEF BranchInv
<1> QED
  BY <1>2, <1>3, <1>4, <1>5 DEF IInv

\* The running call and the calls that wait for it.
LEMMA StackSplits ==
    TypeInv /\ stack # <<>> =>
        /\ Len(stack) \in Nat /\ Len(stack) > 0
        /\ Top \in Frames
        /\ Callers \in Seq(Frames) /\ Len(Callers) = Len(stack) - 1
        /\ \A k \in 1..Len(Callers) : Callers[k] = stack[k]
<1> SUFFICES ASSUME TypeInv, stack # <<>>
             PROVE  /\ Len(stack) \in Nat /\ Len(stack) > 0
                    /\ Top \in Frames
                    /\ Callers \in Seq(Frames) /\ Len(Callers) = Len(stack) - 1
                    /\ \A k \in 1..Len(Callers) : Callers[k] = stack[k]
  OBVIOUS
<1> DEFINE n == Len(stack)
<1>1. stack \in Seq(Frames)
  BY DEF TypeInv
<1>2. n \in Nat /\ n > 0
  BY <1>1, EmptySeq
<1>3. Top \in Frames
  BY <1>1, <1>2 DEF Top
<1>4. n - 1 \in 0..n
  BY <1>2
<1>5. \A i \in 1..(n - 1) : stack[i] \in Frames
  BY <1>1, <1>2
<1>6. /\ Callers \in Seq(Frames)
      /\ Len(Callers) = IF 1 <= n - 1 THEN (n - 1) - 1 + 1 ELSE 0
      /\ \A i \in 1..((n - 1) - 1 + 1) : Callers[i] = stack[1 + i - 1]
  <2>1. 1 \in Int /\ n - 1 \in Int
    BY <1>2
  <2> HIDE DEF n
  <2>2. /\ SubSeq(stack, 1, n - 1) \in Seq(Frames)
        /\ Len(SubSeq(stack, 1, n - 1)) = IF 1 <= n - 1 THEN (n - 1) - 1 + 1 ELSE 0
        /\ \A i \in 1..((n - 1) - 1 + 1) : SubSeq(stack, 1, n - 1)[i] = stack[1 + i - 1]
    BY <1>5, <2>1, SubSeqProperties
  <2> QED
    BY <2>2 DEF Callers, n
<1>7. Len(Callers) = n - 1
  <2> HIDE DEF n
  <2>1. CASE 1 <= n - 1
    <3>1. Len(Callers) = (n - 1) - 1 + 1
      BY <1>6, <2>1
    <3> QED
      BY <1>2, <3>1
  <2>2. CASE ~(1 <= n - 1)
    <3>1. Len(Callers) = 0
      BY <1>6, <2>2
    <3> QED
      BY <1>2, <2>2, <3>1
  <2> QED
    BY <2>1, <2>2
<1>8. ASSUME NEW k \in 1..(n - 1) PROVE Callers[k] = stack[k]
  <2>1. k \in 1..((n - 1) - 1 + 1) /\ 1 + k - 1 = k
    BY <1>2
  <2> QED
    BY <1>6, <2>1
<1> QED
  BY <1>2, <1>3, <1>6, <1>7, <1>8

\* Of a loop whose tail is finished the header is.
LEMMA TailFinished ==
    IInv => \A p \in Finished : IsLoopTail(cfg, p) => LoopFor(cfg, p) \in Finished
<1> SUFFICES ASSUME IInv, NEW p \in Finished, IsLoopTail(cfg, p), LoopFor(cfg, p) \notin Finished
             PROVE  FALSE
  OBVIOUS
<1> DEFINE k == LoopFor(cfg, p)
           S == Region(cfg, k) \cap Finished
<1>1. cfg \in Cfgs /\ Finished \subseteq BlocksOf(cfg)
      /\ \A b \in Finished : Forward(cfg, b) \subseteq Finished
  BY DEF IInv, TypeInv, CallsInv, Finished
<1>2. k \in MasksOf(cfg) \ {ArgMask} /\ p \in Region(cfg, k)
  BY <1>1, TailFacts
<1>3. /\ cfg.entry \notin Region(cfg, k)
      /\ \A s \in Region(cfg, k) \ {k} : Preds(cfg, s) \subseteq Region(cfg, k)
  BY <1>1, <1>2, RegionFacts
<1>4. k \notin Finished
  OBVIOUS
<1> HIDE DEF k
<1>5. CyclesAreLoops(cfg)
  BY <1>1, MasksAssumption
<1>6. S \in (SUBSET BlocksOf(cfg)) \ {{}}
  BY <1>1, <1>2
<1>7. PICK b \in S : Forward(cfg, b) \cap S = {}
  BY <1>5, <1>6 DEF CyclesAreLoops
<1>8. Forward(cfg, b) \subseteq Preds(cfg, b) /\ b # k /\ b \in BlocksOf(cfg)
  BY <1>1, <1>4, <1>7 DEF Forward
<1>9. Forward(cfg, b) = {}
  BY <1>1, <1>3, <1>7, <1>8
<1>10. Forward(cfg, b) # {}
  <2>1. ~IsEntry(cfg, b)
    BY <1>3, <1>7 DEF IsEntry
  <2>2. ASSUME NEW q, NEW l, IsHeader(cfg, b, q, l) PROVE Forward(cfg, b) # {}
    BY <2>2 DEF IsHeader
  <2>3. ASSUME NEW q, HasOneWay(cfg, b, q), Forward(cfg, b) = Preds(cfg, b)
        PROVE  Forward(cfg, b) # {}
    BY <2>3 DEF HasOneWay
  <2>4. ASSUME HasTwoWays(cfg, b), Forward(cfg, b) = Preds(cfg, b) PROVE Forward(cfg, b) # {}
    BY <2>4 DEF HasTwoWays
  <2> QED
    BY <1>1, <1>8, <2>1, <2>2, <2>3, <2>4, Kinds
<1> QED
  BY <1>9, <1>10

\* What calculateEntryMaskFromPredecessor returns.
LEMMA FromPredecessor ==
    IInv => \A p \in Finished :
        EntryMaskFromPredecessor(p) = IF IsLoopTail(cfg, p)
                                      THEN LoopEntryMaskOf(cfg, LoopFor(cfg, p))
                                      ELSE ActiveMaskOf(cfg, p)
<1> SUFFICES ASSUME IInv, NEW p \in Finished
             PROVE  EntryMaskFromPredecessor(p) =
                        IF IsLoopTail(cfg, p) THEN LoopEntryMaskOf(cfg, LoopFor(cfg, p))
                                              ELSE ActiveMaskOf(cfg, p)
  OBVIOUS
<1>1. cfg \in Cfgs /\ p \in BlocksOf(cfg)
  BY DEF IInv, TypeInv, Finished
<1>2. \A b \in Finished :
         /\ bb_masks[b].active = ActiveMaskOf(cfg, b)
         /\ b \in LoopHeaders(cfg) => bb_masks[b].entry = LoopEntryMaskOf(cfg, b)
  BY DEF IInv, MaskInv
<1>3. CASE IsLoopTail(cfg, p)
  <2>1. LoopFor(cfg, p) \in LoopHeaders(cfg)
    BY <1>1, <1>3, TailFacts
  <2>2. LoopFor(cfg, p) \in Finished
    BY <1>3, TailFinished
  <2> QED
    BY <1>2, <1>3, <2>1, <2>2 DEF EntryMaskFromPredecessor
<1>4. CASE ~IsLoopTail(cfg, p)
  BY <1>2, <1>4 DEF EntryMaskFromPredecessor
<1> QED
  BY <1>3, <1>4

\* A handler never recurses into a call that is still running.
LEMMA NoCallReturns ==
    IInv /\ stack # <<>> => \A p \in Top.calls : p \in Seen => p \in Finished
<1> SUFFICES ASSUME IInv, stack # <<>>, NEW p \in Top.calls, p \in Seen, p \notin Finished
             PROVE  FALSE
  OBVIOUS
<1> DEFINE n == Len(stack)
<1>1. PICK j \in 1..n : p = stack[j].block
  BY DEF Finished
<1> DEFINE S == {stack[k].block : k \in j..n}
<1>2. n \in Nat /\ n > 0 /\ cfg \in Cfgs /\ Top = stack[n]
  BY StackSplits DEF IInv, TypeInv, Top
<1>3. \A k \in 1..n : stack[k].block \in BlocksOf(cfg) /\ stack[k].calls \subseteq Forward(cfg, stack[k].block)
  <2>1. stack \in Seq(Frames) /\ \A k \in 1..n : stack[k] \in Frames
    BY DEF IInv, TypeInv
  <2> QED
    BY <2>1 DEF Frames, IInv, CallsInv
<1>4. \A k \in 1..(n - 1) : stack[k + 1].block \in Forward(cfg, stack[k].block)
  BY DEF IInv, CallsInv
<1> HIDE DEF n
<1>5. S \subseteq BlocksOf(cfg) /\ stack[j].block \in S
  BY <1>1, <1>2, <1>3
<1>6. CyclesAreLoops(cfg)
  BY <1>2, MasksAssumption
<1>7. PICK b \in S : Forward(cfg, b) \cap S = {}
  BY <1>5, <1>6 DEF CyclesAreLoops
<1>8. PICK k \in j..n : b = stack[k].block
  BY <1>7
<1>9. CASE k = n
  <2>1. p \in Forward(cfg, b)
    BY <1>2, <1>3, <1>8, <1>9
  <2> QED
    BY <1>1, <1>5, <1>7, <2>1
<1>10. CASE k # n
  <2>1. k \in 1..(n - 1) /\ k + 1 \in j..n
    BY <1>1, <1>2, <1>8, <1>10
  <2>2. stack[k + 1].block \in Forward(cfg, b) /\ stack[k + 1].block \in S
    BY <1>4, <1>8, <2>1
  <2> QED
    BY <1>7, <2>2
<1> QED
  BY <1>9, <1>10

\* While no handler returns, nothing is said anew of masks and branches.
LEMMA MasksStay ==
    IInv /\ Finished' = Finished /\ (\A b \in Finished : bb_masks'[b] = bb_masks[b])
         /\ UNCHANGED <<cfg, created, condition, swaps, phis, pc>>
    => MaskInv' /\ BranchInv'
<1> SUFFICES ASSUME IInv, Finished' = Finished, \A b \in Finished : bb_masks'[b] = bb_masks[b],
                    UNCHANGED <<cfg, created, condition, swaps, phis, pc>>
             PROVE  MaskInv' /\ BranchInv'
  OBVIOUS
<1>1. \A h : Pending(h)' = Pending(h)
  BY DEF Pending
<1>2. MaskInv'
  BY <1>1 DEF IInv, MaskInv
<1>3. BranchInv'
  BY <1>1 DEF IInv, BranchInv
<1> QED
  BY <1>2, <1>3

\* The loop of calculate() calls the handler of the next block.
LEMMA NextBlockStep ==
    IInv => \A b \in BlocksOf(cfg) : NextBlock(b) => IInv'
<1> SUFFICES ASSUME IInv, NEW b \in BlocksOf(cfg), NextBlock(b) PROVE IInv'
  OBVIOUS
<1>1. /\ pc = "visit" /\ stack = <<>> /\ unvisited' = unvisited \ {b}
      /\ UNCHANGED <<cfg, created, condition, swaps, phis, pc>>
  BY DEF NextBlock
<1>2. TypeInv /\ CallsInv
  BY DEF IInv
<1>3. Len(stack) = 0 /\ Finished = Seen
  BY <1>1 DEF Finished
<1>4. CASE b \in Seen
  <2>1. stack' = <<>> /\ bb_masks' = bb_masks
    BY <1>4 DEF NextBlock, CalculateBBMasks
  <2>2. Seen' = Seen /\ Finished' = Finished /\ Len(stack') = 0
    BY <1>1, <2>1 DEF Seen, Finished
  <2>3. TypeInv'
    BY <1>1, <1>2, <2>1, <2>2 DEF TypeInv, Frames
  <2>4. CallsInv'
    BY <1>1, <1>2, <1>4, <2>1, <2>2 DEF CallsInv
  <2> QED
    BY <1>1, <2>1, <2>2, <2>3, <2>4, MasksStay DEF IInv
<1>5. CASE b \notin Seen
  <2> DEFINE F == [block |-> b, calls |-> Forward(cfg, b)]
  <2>1. /\ stack' = Append(<<>>, F)
        /\ bb_masks' = Put(bb_masks, b, [entry |-> NullMask, active |-> NullMask])
    BY <1>1, <1>2, <1>5, CallsAreForward DEF NextBlock, CalculateBBMasks, TypeInv
  <2>2. F \in Frames
    BY DEF Frames, Forward, Preds
  <2>3. Len(stack') = 1 /\ stack'[1] = F /\ stack' \in Seq(Frames)
    BY <2>1, <2>2, EmptySeq, AppendProperties
  <2>4. Seen' = Seen \cup {b} /\ \A x \in Seen : bb_masks'[x] = bb_masks[x]
    BY <1>5, <2>1 DEF Seen, Put
  <2>5. {stack'[k].block : k \in 1..Len(stack')} = {b}
    BY <2>3
  <2>6. Finished' = Finished
    BY <1>3, <1>5, <2>4, <2>5 DEF Finished
  <2>7. TypeInv'
    BY <1>1, <1>2, <2>3, <2>4 DEF TypeInv, Frames
  <2>8. CallsInv'
    BY <1>1, <1>2, <2>3, <2>4, <2>6 DEF CallsInv
  <2> QED
    BY <1>1, <1>3, <2>4, <2>6, <2>7, <2>8, MasksStay DEF IInv
<1> QED
  BY <1>4, <1>5

\* A handler recurses into a predecessor, which it finds finished or starts.
LEMMA RecurseStep ==
    IInv => \A p \in BlocksOf(cfg) : Recurse(p) => IInv'
<1> SUFFICES ASSUME IInv, NEW p \in BlocksOf(cfg), Recurse(p) PROVE IInv'
  OBVIOUS
<1> DEFINE n == Len(stack)
           T == [Top EXCEPT !.calls = @ \ {p}]
           c == Append(Callers, T)
<1>1. /\ pc = "visit" /\ stack # <<>> /\ p \in Top.calls /\ CalculateBBMasks(p, c)
      /\ UNCHANGED <<cfg, unvisited, created, condition, swaps, phis, pc>>
  BY DEF Recurse
<1>2. TypeInv /\ CallsInv
  BY DEF IInv
<1>3. /\ n \in Nat /\ n > 0 /\ Top \in Frames /\ Top = stack[n]
      /\ Callers \in Seq(Frames) /\ Len(Callers) = n - 1
      /\ \A k \in 1..(n - 1) : Callers[k] = stack[k]
  BY <1>1, <1>2, StackSplits DEF Top
<1>4. T \in Frames /\ T.block = Top.block /\ T.calls = Top.calls \ {p}
  BY <1>3 DEF Frames
<1> HIDE DEF T
<1>5. c \in Seq(Frames) /\ Len(c) = (n - 1) + 1 /\ c[(n - 1) + 1] = T
      /\ \A k \in 1..(n - 1) : c[k] = Callers[k]
  BY <1>3, <1>4, AppendProperties
<1> HIDE DEF c
<1>6. Len(c) = n /\ c[n] = T /\ (\A k \in 1..(n - 1) : c[k] = stack[k])
  BY <1>3, <1>5
<1>7. /\ \A k \in 1..n : stack[k].block \in Seen /\ stack[k].calls \subseteq Forward(cfg, stack[k].block)
      /\ \A k \in 1..n : \A q \in Forward(cfg, stack[k].block) \ stack[k].calls :
            q \in Finished \/ (k < n /\ q = stack[k + 1].block)
      /\ \A k \in 1..(n - 1) : stack[k + 1].block \in Forward(cfg, stack[k].block)
      /\ \A j, k \in 1..n : stack[j].block = stack[k].block => j = k
      /\ \A b \in Finished : Forward(cfg, b) \subseteq Finished
      /\ BlocksOf(cfg) \ unvisited \subseteq Seen
  BY <1>2 DEF CallsInv
<1>8. Seen \subseteq BlocksOf(cfg) /\ Finished = Seen \ {stack[k].block : k \in 1..n}
  BY <1>2 DEF TypeInv, Finished
<1> HIDE DEF n
<1>9. /\ \A k \in 1..n : c[k].block = stack[k].block
      /\ \A k \in 1..(n - 1) : c[k].calls = stack[k].calls
      /\ c[n].calls = stack[n].calls \ {p}
  BY <1>3, <1>4, <1>6
<1>10. {c[k].block : k \in 1..n} = {stack[k].block : k \in 1..n}
  BY <1>9
<1>11. \A k \in 1..n : c[k].calls \subseteq Forward(cfg, c[k].block)
  BY <1>3, <1>7, <1>9
<1>12. CASE p \in Seen
  <2>1. stack' = c /\ bb_masks' = bb_masks /\ Seen' = Seen
    BY <1>1, <1>12 DEF CalculateBBMasks, Seen
  <2>2. p \in Finished
    BY <1>1, <1>12, NoCallReturns
  <2>3. Finished' = Finished
    BY <1>6, <1>8, <1>10, <2>1 DEF Finished
  <2>4. TypeInv'
    BY <1>1, <1>2, <1>5, <2>1 DEF TypeInv, Frames
  <2>5. \A k \in 1..n : \A q \in Forward(cfg, c[k].block) \ c[k].calls :
           q \in Finished \/ (k < n /\ q = c[k + 1].block)
    BY <1>3, <1>7, <1>9, <2>2
  <2>6. \A k \in 1..(n - 1) : c[k + 1].block \in Forward(cfg, c[k].block)
    BY <1>3, <1>7, <1>9
  <2>7. \A j, k \in 1..n : c[j].block = c[k].block => j = k
    BY <1>7, <1>9
  <2>8. CallsInv'
    BY <1>1, <1>6, <1>7, <1>9, <1>11, <2>1, <2>3, <2>5, <2>6, <2>7 DEF CallsInv
  <2> QED
    BY <1>1, <2>1, <2>3, <2>4, <2>8, MasksStay DEF IInv
<1>13. CASE p \notin Seen
  <2> DEFINE F == [block |-> p, calls |-> Forward(cfg, p)]
             s == Append(c, F)
  <2>1. /\ stack' = s
        /\ bb_masks' = Put(bb_masks, p, [entry |-> NullMask, active |-> NullMask])
    BY <1>1, <1>2, <1>13, CallsAreForward DEF CalculateBBMasks, TypeInv
  <2>2. F \in Frames /\ F.block = p /\ F.calls = Forward(cfg, p)
    BY DEF Frames, Forward, Preds
  <2> HIDE DEF F
  <2>3. /\ s \in Seq(Frames) /\ Len(s) = n + 1 /\ s[n + 1] = F
        /\ \A k \in 1..n : s[k] = c[k]
    BY <1>5, <1>6, <2>2, AppendProperties
  <2> HIDE DEF s
  <2>4. Seen' = Seen \cup {p} /\ \A x \in Seen : bb_masks'[x] = bb_masks[x]
    BY <1>13, <2>1 DEF Seen, Put
  <2>5. {s[k].block : k \in 1..(n + 1)} = {stack[k].block : k \in 1..n} \cup {p}
    BY <1>3, <1>9, <2>2, <2>3
  <2>6. Finished' = Finished
    BY <1>8, <1>13, <2>1, <2>3, <2>4, <2>5 DEF Finished
  <2>7. TypeInv'
    BY <1>1, <1>2, <2>1, <2>3, <2>4 DEF TypeInv, Frames
  <2>8. \A k \in 1..(n + 1) : s[k].block \in Seen' /\ s[k].calls \subseteq Forward(cfg, s[k].block)
    <3> SUFFICES ASSUME NEW k \in 1..(n + 1)
                 PROVE  s[k].block \in Seen' /\ s[k].calls \subseteq Forward(cfg, s[k].block)
      OBVIOUS
    <3>1. CASE k = n + 1
      BY <2>2, <2>3, <2>4, <3>1
    <3>2. CASE k \in 1..n
      <4>1. s[k] = c[k] /\ c[k].block = stack[k].block /\ stack[k].block \in Seen
        BY <1>7, <1>9, <2>3, <3>2
      <4> QED
        BY <1>11, <2>4, <3>2, <4>1
    <3> QED
      BY <1>3, <3>1, <3>2
  <2>9. \A k \in 1..(n + 1) : \A q \in Forward(cfg, s[k].block) \ s[k].calls :
           q \in Finished \/ (k < n + 1 /\ q = s[k + 1].block)
    <3> SUFFICES ASSUME NEW k \in 1..(n + 1), NEW q \in Forward(cfg, s[k].block) \ s[k].calls
                 PROVE  q \in Finished \/ (k < n + 1 /\ q = s[k + 1].block)
      OBVIOUS
    <3>1. CASE k = n + 1
      BY <2>2, <2>3, <3>1
    <3>2. CASE k = n
      BY <1>3, <1>7, <1>9, <2>2, <2>3, <3>2
    <3>3. CASE k \in 1..(n - 1)
      <4>1. q \in Finished \/ q = stack[k + 1].block
        BY <1>3, <1>7, <1>9, <2>3, <3>3
      <4> QED
        BY <1>3, <1>9, <2>3, <3>3, <4>1
    <3> QED
      BY <1>3, <3>1, <3>2, <3>3
  <2>10. \A k \in 1..n : s[k + 1].block \in Forward(cfg, s[k].block)
    <3> SUFFICES ASSUME NEW k \in 1..n PROVE s[k + 1].block \in Forward(cfg, s[k].block)
      OBVIOUS
    <3>1. CASE k = n
      BY <1>1, <1>3, <1>7, <1>9, <2>2, <2>3, <3>1
    <3>2. CASE k \in 1..(n - 1)
      BY <1>3, <1>7, <1>9, <2>3, <3>2
    <3> QED
      BY <1>3, <3>1, <3>2
  <2>11. \A j, k \in 1..(n + 1) : s[j].block = s[k].block => j = k
    <3>1. \A k \in 1..n : s[k].block \in Seen /\ s[k].block = stack[k].block
      BY <1>7, <1>9, <2>3
    <3> QED
      BY <1>3, <1>7, <1>13, <2>2, <2>3, <3>1
  <2>12. BlocksOf(cfg) \ unvisited \subseteq Seen' /\ (n + 1) - 1 = n
    BY <1>3, <1>7, <2>4
  <2>13. CallsInv'
    BY <1>1, <1>7, <2>1, <2>3, <2>6, <2>8, <2>9, <2>10, <2>11, <2>12 DEF CallsInv
  <2> QED
    BY <1>1, <1>8, <2>4, <2>6, <2>7, <2>13, MasksStay DEF IInv
<1> QED
  BY <1>12, <1>13

\* A handler that returns finishes its block, after all it has called.
LEMMA Returns ==
    IInv => \A b \in BlocksOf(cfg) : \A v :
        /\ HandlerReturns(b) /\ bb_masks' = Put(bb_masks, b, v)
        /\ DOMAIN condition' = DOMAIN condition /\ phis' \in Seq(LoopHeaders(cfg))
        => /\ TypeInv' /\ CallsInv'
           /\ b \notin Finished /\ Finished' = Finished \cup {b}
           /\ Forward(cfg, b) \subseteq Finished
           /\ cfg' = cfg /\ swaps' = swaps /\ pc = "visit" /\ pc' = "visit"
           /\ bb_masks'[b] = v /\ \A x \in Finished : bb_masks'[x] = bb_masks[x]
<1> SUFFICES ASSUME IInv, NEW b \in BlocksOf(cfg), NEW v,
                    HandlerReturns(b), bb_masks' = Put(bb_masks, b, v),
                    DOMAIN condition' = DOMAIN condition, phis' \in Seq(LoopHeaders(cfg))
             PROVE  /\ TypeInv' /\ CallsInv'
                    /\ b \notin Finished /\ Finished' = Finished \cup {b}
                    /\ Forward(cfg, b) \subseteq Finished
                    /\ cfg' = cfg /\ swaps' = swaps /\ pc = "visit" /\ pc' = "visit"
                    /\ bb_masks'[b] = v /\ \A x \in Finished : bb_masks'[x] = bb_masks[x]
  OBVIOUS
<1> DEFINE n == Len(stack)
           s == Callers
<1>1. TypeInv /\ CallsInv
  BY DEF IInv
<1>2. /\ pc = "visit" /\ stack # <<>> /\ Top.calls = {} /\ Top.block = b
      /\ stack' = s /\ UNCHANGED <<cfg, unvisited, swaps>>
  BY DEF HandlerReturns
<1>3. pc' = "visit"
  <2>1. ~Aborts(b)
    BY <1>1, NeverAborts DEF TypeInv
  <2> QED
    BY <1>2, <2>1 DEF HandlerReturns
<1>4. /\ n \in Nat /\ n > 0 /\ Top = stack[n]
      /\ s \in Seq(Frames) /\ Len(s) = n - 1 /\ \A k \in 1..(n - 1) : s[k] = stack[k]
  BY <1>1, <1>2, StackSplits DEF Top
<1> HIDE DEF s
<1>5. /\ \A k \in 1..n : stack[k].block \in Seen /\ stack[k].calls \subseteq Forward(cfg, stack[k].block)
      /\ \A k \in 1..n : \A q \in Forward(cfg, stack[k].block) \ stack[k].calls :
            q \in Finished \/ (k < n /\ q = stack[k + 1].block)
      /\ \A k \in 1..(n - 1) : stack[k + 1].block \in Forward(cfg, stack[k].block)
      /\ \A j, k \in 1..n : stack[j].block = stack[k].block => j = k
      /\ \A x \in Finished : Forward(cfg, x) \subseteq Finished
      /\ BlocksOf(cfg) \ unvisited \subseteq Seen
  BY <1>1 DEF CallsInv
<1>6. Seen \subseteq BlocksOf(cfg) /\ Finished = Seen \ {stack[k].block : k \in 1..n}
  BY <1>1 DEF TypeInv, Finished
<1> HIDE DEF n
<1>7. n \in 1..n /\ stack[n].block = b /\ stack[n].calls = {}
  BY <1>2, <1>4
<1>8. b \in Seen /\ b \notin Finished
  BY <1>5, <1>6, <1>7
<1>9. Forward(cfg, b) \subseteq Finished
  <2> SUFFICES ASSUME NEW q \in Forward(cfg, b) PROVE q \in Finished
    OBVIOUS
  <2> QED
    BY <1>4, <1>5, <1>7
<1>10. Seen' = Seen /\ bb_masks'[b] = v /\ \A x \in Finished : bb_masks'[x] = bb_masks[x]
  BY <1>6, <1>8 DEF Seen, Put
<1>11. {stack[k].block : k \in 1..n} = {s[k].block : k \in 1..(n - 1)} \cup {b}
       /\ b \notin {s[k].block : k \in 1..(n - 1)}
  <2>1. \A k \in 1..(n - 1) : k \in 1..n /\ k # n /\ s[k].block = stack[k].block
    BY <1>4
  <2>2. \A k \in 1..n : k = n \/ k \in 1..(n - 1)
    BY <1>4
  <2> QED
    BY <1>5, <1>7, <2>1, <2>2
<1>12. Finished' = Finished \cup {b}
  <2>1. Finished' = Seen \ {s[k].block : k \in 1..(n - 1)}
    BY <1>2, <1>4, <1>10 DEF Finished
  <2> QED
    BY <1>6, <1>8, <1>11, <2>1
<1>13. TypeInv'
  BY <1>1, <1>2, <1>3, <1>4, <1>10 DEF TypeInv, Frames
<1>14. CallsInv'
  <2>1. \A k \in 1..(n - 1) : s[k].block \in Seen /\ s[k].calls \subseteq Forward(cfg, s[k].block)
    BY <1>4, <1>5
  <2>2. \A k \in 1..(n - 1) : \A q \in Forward(cfg, s[k].block) \ s[k].calls :
           q \in Finished' \/ (k < n - 1 /\ q = s[k + 1].block)
    <3> SUFFICES ASSUME NEW k \in 1..(n - 1), NEW q \in Forward(cfg, s[k].block) \ s[k].calls
                 PROVE  q \in Finished' \/ (k < n - 1 /\ q = s[k + 1].block)
      OBVIOUS
    <3>1. q \in Finished \/ q = stack[k + 1].block
      BY <1>4, <1>5
    <3>2. CASE k = n - 1
      BY <1>4, <1>7, <1>12, <3>1, <3>2
    <3>3. CASE k # n - 1
      BY <1>4, <1>12, <3>1, <3>3
    <3> QED
      BY <3>2, <3>3
  <2>3. \A k \in 1..((n - 1) - 1) : s[k + 1].block \in Forward(cfg, s[k].block)
    BY <1>4, <1>5
  <2>4. \A j, k \in 1..(n - 1) : s[j].block = s[k].block => j = k
    BY <1>4, <1>5
  <2>5. \A x \in Finished' : Forward(cfg, x) \subseteq Finished'
    BY <1>5, <1>9, <1>12
  <2> QED
    BY <1>2, <1>3, <1>4, <1>5, <1>10, <2>1, <2>2, <2>3, <2>4, <2>5 DEF CallsInv
<1> QED
  BY <1>2, <1>3, <1>8, <1>9, <1>10, <1>12, <1>13, <1>14

\* What the handler for b owes.
MasksOfBlock(b) ==
    /\ bb_masks'[b].active = ActiveMaskOf(cfg, b)
    /\ bb_masks'[b].entry \in MasksOf(cfg)
    /\ b \in LoopHeaders(cfg) => bb_masks'[b].entry = LoopEntryMaskOf(cfg, b)
InstructionOfBlock(b) ==
    \/ b \notin ThenBlocks(cfg) \cup LoopHeaders(cfg) /\ created' = created
    \/ /\ b \in ThenBlocks(cfg)
       /\ created' = Put(created, b, [op |-> "and",
                                      left |-> ActiveMaskOf(cfg, PredOf(cfg, b)),
                                      right |-> Original])
    \/ /\ b \in LoopHeaders(cfg)
       /\ created' = Put(created, b, [op |-> "phi", left |-> LoopEntryMaskOf(cfg, b),
                                      right |-> Deferred])

LEMMA MaskStep ==
    IInv => \A b \in BlocksOf(cfg) :
        /\ b \notin Finished /\ Finished' = Finished \cup {b} /\ cfg' = cfg
        /\ pc = "visit" /\ pc' = "visit" /\ \A x \in Finished : bb_masks'[x] = bb_masks[x]
        /\ MasksOfBlock(b) /\ InstructionOfBlock(b)
        => MaskInv'
<1> SUFFICES ASSUME IInv, NEW b \in BlocksOf(cfg), b \notin Finished,
                    Finished' = Finished \cup {b}, cfg' = cfg, pc = "visit", pc' = "visit",
                    \A x \in Finished : bb_masks'[x] = bb_masks[x],
                    MasksOfBlock(b), InstructionOfBlock(b)
             PROVE  MaskInv'
  OBVIOUS
<1>1. MaskInv
  BY DEF IInv
<1>2. \A h : Pending(h) /\ Pending(h)'
  BY DEF Pending
<1>3. ThenBlocks(cfg) \cap LoopHeaders(cfg) = {}
  BY DEF ThenBlocks
<1>4. \A x \in Finished' :
         /\ bb_masks'[x].active = ActiveMaskOf(cfg, x)
         /\ bb_masks'[x].entry \in MasksOf(cfg)
         /\ x \in LoopHeaders(cfg) => bb_masks'[x].entry = LoopEntryMaskOf(cfg, x)
  BY <1>1 DEF MaskInv, MasksOfBlock
<1>5. DOMAIN created = (ThenBlocks(cfg) \cup LoopHeaders(cfg)) \cap Finished
  BY <1>1 DEF MaskInv
<1>6. /\ DOMAIN created' = (ThenBlocks(cfg) \cup LoopHeaders(cfg)) \cap Finished'
      /\ \A x \in DOMAIN created : created'[x] = created[x]
  <2>1. CASE b \notin ThenBlocks(cfg) \cup LoopHeaders(cfg)
    BY <1>5, <2>1 DEF InstructionOfBlock
  <2>2. CASE b \in ThenBlocks(cfg) \cup LoopHeaders(cfg)
    <3>1. PICK r : created' = Put(created, b, r)
      BY <2>2 DEF InstructionOfBlock
    <3> QED
      BY <1>5, <2>2, <3>1 DEF Put
  <2> QED
    BY <2>1, <2>2
<1>7. \A t \in ThenBlocks(cfg) \cap Finished' :
         created'[t] = [op |-> "and", left |-> ActiveMaskOf(cfg, PredOf(cfg, t)),
                        right |-> Original]
  <2> SUFFICES ASSUME NEW t \in ThenBlocks(cfg) \cap Finished'
               PROVE  created'[t] = [op |-> "and", left |-> ActiveMaskOf(cfg, PredOf(cfg, t)),
                                     right |-> Original]
    OBVIOUS
  <2>1. CASE t \in Finished
    BY <1>1, <1>5, <1>6, <2>1 DEF MaskInv
  <2>2. CASE t = b
    BY <1>3, <2>2 DEF InstructionOfBlock, Put
  <2> QED
    BY <2>1, <2>2
<1>8. \A h \in LoopHeaders(cfg) \cap Finished' :
         created'[h] = [op |-> "phi", left |-> LoopEntryMaskOf(cfg, h), right |-> Deferred]
  <2> SUFFICES ASSUME NEW h \in LoopHeaders(cfg) \cap Finished'
               PROVE  created'[h] = [op |-> "phi", left |-> LoopEntryMaskOf(cfg, h),
                                     right |-> Deferred]
    OBVIOUS
  <2>1. CASE h \in Finished
    BY <1>1, <1>2, <1>5, <1>6, <2>1 DEF MaskInv
  <2>2. CASE h = b
    BY <1>3, <2>2 DEF InstructionOfBlock, Put
  <2> QED
    BY <2>1, <2>2
<1> QED
  BY <1>2, <1>4, <1>6, <1>7, <1>8 DEF MaskInv

\* The block before a 'then' block, and those that close loops.
LEMMA BeforeThen ==
    ASSUME NEW g \in Cfgs, NEW t \in ThenBlocks(g)
    PROVE  LET p == PredOf(g, t)
           IN  /\ p \in BlocksOf(g) /\ Preds(g, t) = {p}
               /\ IsConditional(g, p) /\ ~IsLoopTail(g, p) /\ g.succ[p][1] = t
<1>1. PICK p \in BlocksOf(g) : Preds(g, t) = {p} /\ IsConditional(g, p) /\ ~IsLoopTail(g, p)
  BY DEF ThenBlocks
<1>2. PredOf(g, t) = p
  BY <1>1 DEF PredOf
<1>3. t \in BlocksOf(g) \ LoopHeaders(g)
  BY DEF ThenBlocks
<1>4. g.succ[p][1] = t
  BY <1>1, <1>3, OneThen
<1> QED
  BY <1>1, <1>2, <1>4

LEMMA LatchesAreTails ==
    ASSUME NEW g \in Cfgs, NEW h \in LoopHeaders(g), NEW l \in Latches(g, h)
    PROVE  l \in BlocksOf(g) /\ IsLoopTail(g, l) /\ g.succ[l][2] = h
<1>1. HasOneTail(g, h)
  BY MasksAssumption DEF TailsCloseLoops
<1> QED
  BY <1>1 DEF HasOneTail, Latches, Preds

\* Only the handlers of 'then' blocks touch conditions.
LEMMA BranchesStay ==
    IInv => \A b \in BlocksOf(cfg) \ ThenBlocks(cfg) :
        /\ b \notin Finished /\ Finished' = Finished \cup {b}
        /\ pc = "visit" /\ pc' = "visit" /\ UNCHANGED <<cfg, swaps, condition>>
        /\ IF b \in LoopHeaders(cfg) THEN phis' = Append(phis, b) ELSE phis' = phis
        => BranchInv'
<1> SUFFICES ASSUME IInv, NEW b \in BlocksOf(cfg) \ ThenBlocks(cfg), b \notin Finished,
                    Finished' = Finished \cup {b}, pc = "visit", pc' = "visit",
                    UNCHANGED <<cfg, swaps, condition>>,
                    IF b \in LoopHeaders(cfg) THEN phis' = Append(phis, b) ELSE phis' = phis
             PROVE  BranchInv'
  OBVIOUS
<1>1. BranchInv
  BY DEF IInv
<1>2. \A h : Pending(h) /\ Pending(h)'
  BY DEF Pending
<1>3. /\ \A j, k \in 1..Len(phis) : phis[j] = phis[k] => j = k
      /\ {phis[k] : k \in 1..Len(phis)} = LoopHeaders(cfg) \cap Finished
  BY <1>1 DEF BranchInv
<1>4. /\ \A j, k \in 1..Len(phis') : phis'[j] = phis'[k] => j = k
      /\ {phis'[k] : k \in 1..Len(phis')} = LoopHeaders(cfg) \cap Finished'
  <2>1. CASE b \notin LoopHeaders(cfg)
    BY <1>3, <2>1
  <2>2. CASE b \in LoopHeaders(cfg)
    <3> DEFINE m == Len(phis)
               s == Append(phis, b)
    <3>1. phis \in Seq(LoopHeaders(cfg)) /\ m \in Nat
      BY DEF IInv, TypeInv
    <3>2. Len(s) = m + 1 /\ s[m + 1] = b /\ \A k \in 1..m : s[k] = phis[k]
      BY <2>2, <3>1, AppendProperties
    <3>3. phis' = s
      BY <2>2
    <3>4. \A k \in 1..m : phis[k] \in LoopHeaders(cfg) \cap Finished /\ phis[k] # b
      BY <1>3
    <3> HIDE DEF s, m
    <3>5. \A j, k \in 1..(m + 1) : s[j] = s[k] => j = k
      <4> SUFFICES ASSUME NEW j \in 1..(m + 1), NEW k \in 1..(m + 1), s[j] = s[k] PROVE j = k
        OBVIOUS
      <4>1. (j \in 1..m \/ j = m + 1) /\ (k \in 1..m \/ k = m + 1)
        BY <3>1
      <4> QED
        BY <1>3, <3>2, <3>4, <4>1 DEF m
    <3>6. {s[k] : k \in 1..(m + 1)} = {phis[k] : k \in 1..m} \cup {b}
      <4>1. \A k \in 1..(m + 1) : k \in 1..m \/ k = m + 1
        BY <3>1
      <4>2. m + 1 \in 1..(m + 1) /\ 1..m \subseteq 1..(m + 1)
        BY <3>1
      <4> QED
        BY <3>2, <4>1, <4>2
    <3> QED
      BY <1>3, <2>2, <3>2, <3>3, <3>5, <3>6 DEF m
  <2> QED
    BY <2>1, <2>2
<1>5. ThenBlocks(cfg) \cap Finished' = ThenBlocks(cfg) \cap Finished
  OBVIOUS
<1> QED
  BY <1>1, <1>2, <1>4, <1>5 DEF BranchInv

LEMMA EntryStep ==
    IInv => \A b \in BlocksOf(cfg) : BBMaskEntry(b) => IInv'
<1> SUFFICES ASSUME IInv, NEW b \in BlocksOf(cfg), BBMaskEntry(b) PROVE IInv'
  OBVIOUS
<1>1. /\ HandlerReturns(b) /\ Preds(cfg, b) = {}
      /\ bb_masks' = Put(bb_masks, b, [entry |-> ArgMask, active |-> ArgMask])
      /\ UNCHANGED <<created, condition, phis>>
  BY DEF BBMaskEntry
<1>2. cfg \in Cfgs /\ phis \in Seq(LoopHeaders(cfg))
  BY DEF IInv, TypeInv
<1>3. /\ TypeInv' /\ CallsInv'
      /\ b \notin Finished /\ Finished' = Finished \cup {b}
      /\ cfg' = cfg /\ swaps' = swaps /\ pc = "visit" /\ pc' = "visit"
      /\ bb_masks'[b] = [entry |-> ArgMask, active |-> ArgMask]
      /\ \A x \in Finished : bb_masks'[x] = bb_masks[x]
  <2>1. phis' \in Seq(LoopHeaders(cfg)) /\ DOMAIN condition' = DOMAIN condition
    BY <1>1, <1>2
  <2> QED
    BY <1>1, <2>1, Returns
<1>4. b = cfg.entry /\ b \notin LoopHeaders(cfg) /\ b \notin ThenBlocks(cfg)
  BY <1>1, <1>2, Kinds DEF IsHeader, IsEntry, HasOneWay, HasTwoWays, ThenBlocks
<1>5. ActiveMaskOf(cfg, b) = ArgMask
  <2>1. Governors(cfg, b) = {}
    <3> SUFFICES ASSUME NEW m \in Governors(cfg, b) PROVE FALSE
      OBVIOUS
    <3>1. m \in MasksOf(cfg) \ {ArgMask}
      BY <1>2, RegionFacts
    <3> QED
      BY <1>2, <1>4, <3>1, RegionFacts
  <2> QED
    BY <1>2, <2>1, MasksByGovernors DEF Innermost
<1>6. MasksOfBlock(b) /\ InstructionOfBlock(b)
  BY <1>1, <1>3, <1>4, <1>5 DEF MasksOfBlock, InstructionOfBlock, MasksOf
<1>7. MaskInv'
  BY <1>3, <1>6, MaskStep
<1>8. BranchInv'
  BY <1>1, <1>3, <1>4, BranchesStay
<1> QED
  BY <1>3, <1>7, <1>8 DEF IInv

LEMMA LoopHeaderStep ==
    IInv => \A b \in BlocksOf(cfg) : BBMaskLoopHeader(b) => IInv'
<1> SUFFICES ASSUME IInv, NEW b \in BlocksOf(cfg), BBMaskLoopHeader(b) PROVE IInv'
  OBVIOUS
<1> DEFINE e == EntryMaskFromPredecessor(Preheader(cfg, b))
<1>1. /\ HandlerReturns(b) /\ b \in LoopHeaders(cfg)
      /\ bb_masks' = Put(bb_masks, b, [entry |-> e, active |-> b])
      /\ created' = Put(created, b, [op |-> "phi", left |-> e, right |-> Deferred])
      /\ phis' = Append(phis, b) /\ condition' = condition
  BY DEF BBMaskLoopHeader
<1>2. cfg \in Cfgs /\ phis \in Seq(LoopHeaders(cfg)) /\ b \notin ThenBlocks(cfg)
  BY <1>1 DEF IInv, TypeInv, ThenBlocks
<1>3. /\ TypeInv' /\ CallsInv'
      /\ b \notin Finished /\ Finished' = Finished \cup {b}
      /\ Forward(cfg, b) \subseteq Finished
      /\ cfg' = cfg /\ swaps' = swaps /\ pc = "visit" /\ pc' = "visit"
      /\ bb_masks'[b] = [entry |-> e, active |-> b]
      /\ \A x \in Finished : bb_masks'[x] = bb_masks[x]
  <2>1. phis' \in Seq(LoopHeaders(cfg)) /\ DOMAIN condition' = DOMAIN condition
    BY <1>1, <1>2, AppendProperties
  <2> HIDE DEF e
  <2> QED
    BY <1>1, <2>1, Returns
<1>4. PICK p, l \in BlocksOf(cfg) : IsHeader(cfg, b, p, l)
  BY <1>1, <1>2, Kinds
<1>5. Forward(cfg, b) = {p} /\ Preheader(cfg, b) = p /\ p \in Finished
  BY <1>3, <1>4 DEF IsHeader
<1>6. e = LoopEntryMaskOf(cfg, b)
  <2>1. e = Innermost(cfg, Governors(cfg, b) \ {b})
    BY <1>2, <1>5, FromPredecessor, EntryMask
  <2> QED
    BY <1>1, <1>2, <2>1, MasksByGovernors
<1>7. ActiveMaskOf(cfg, b) = b /\ LoopEntryMaskOf(cfg, b) \in MasksOf(cfg)
  <2>1. b \in MasksOf(cfg) \ {ArgMask}
    BY <1>1, <1>2, GraphFacts DEF MasksOf
  <2> QED
    BY <1>1, <1>2, <2>1, RegionFacts
<1>8. MasksOfBlock(b)
  BY <1>3, <1>6, <1>7 DEF MasksOfBlock
<1>9. InstructionOfBlock(b)
  BY <1>1, <1>6 DEF InstructionOfBlock
<1>10. MaskInv'
  BY <1>3, <1>8, <1>9, MaskStep
<1>11. BranchInv'
  BY <1>1, <1>2, <1>3, BranchesStay
<1> QED
  BY <1>3, <1>10, <1>11 DEF IInv

LEMMA InheritStep ==
    IInv => \A b \in BlocksOf(cfg) : BBMaskInherit(b) => IInv'
<1> SUFFICES ASSUME IInv, NEW b \in BlocksOf(cfg), BBMaskInherit(b) PROVE IInv'
  OBVIOUS
<1> DEFINE e == EntryMaskFromPredecessor(ThePredecessor(b))
<1>1. /\ HandlerReturns(b) /\ b \notin LoopHeaders(cfg)
      /\ Cardinality(Preds(cfg, b)) = 1 /\ ~IsThen(b)
      /\ bb_masks' = Put(bb_masks, b, [entry |-> e, active |-> e])
      /\ UNCHANGED <<created, condition, phis>>
  BY DEF BBMaskInherit
<1>2. cfg \in Cfgs /\ phis \in Seq(LoopHeaders(cfg))
  BY DEF IInv, TypeInv
<1>3. /\ TypeInv' /\ CallsInv'
      /\ b \notin Finished /\ Finished' = Finished \cup {b}
      /\ Forward(cfg, b) \subseteq Finished
      /\ cfg' = cfg /\ swaps' = swaps /\ pc = "visit" /\ pc' = "visit"
      /\ bb_masks'[b] = [entry |-> e, active |-> e]
      /\ \A x \in Finished : bb_masks'[x] = bb_masks[x]
  <2>1. phis' \in Seq(LoopHeaders(cfg)) /\ DOMAIN condition' = DOMAIN condition
    BY <1>1, <1>2
  <2> HIDE DEF e
  <2> QED
    BY <1>1, <2>1, Returns
<1>4. PICK p \in BlocksOf(cfg) : HasOneWay(cfg, b, p) /\ Forward(cfg, b) = Preds(cfg, b)
  BY <1>1, <1>2, Kinds DEF IsHeader, IsEntry, HasTwoWays
<1>5. Forward(cfg, b) = {p} /\ ThePredecessor(b) = p /\ p \in Finished /\ Preds(cfg, b) = {p}
  BY <1>3, <1>4 DEF HasOneWay, ThePredecessor
<1>6. b \notin ThenBlocks(cfg)
  BY <1>1, <1>5 DEF IsThen, ThenBlocks
<1>7. e = ActiveMaskOf(cfg, b)
  <2>1. e = Innermost(cfg, Governors(cfg, b) \ {b})
    BY <1>2, <1>5, <1>6, FromPredecessor, EntryMask
  <2>2. Governors(cfg, b) \ {b} = Governors(cfg, b)
    BY <1>1, <1>2, <1>6, NotOwnGovernor
  <2> QED
    BY <1>2, <2>1, <2>2, MasksByGovernors
<1>8. MasksOfBlock(b)
  BY <1>1, <1>2, <1>3, <1>7, RegionFacts DEF MasksOfBlock
<1>9. InstructionOfBlock(b)
  BY <1>1, <1>6 DEF InstructionOfBlock
<1>10. MaskInv'
  BY <1>3, <1>8, <1>9, MaskStep
<1>11. BranchInv'
  BY <1>1, <1>3, <1>6, BranchesStay
<1> QED
  BY <1>3, <1>10, <1>11 DEF IInv

LEMMA ThenStep ==
    IInv => \A b \in BlocksOf(cfg) : BBMaskThen(b) => IInv'
<1> SUFFICES ASSUME IInv, NEW b \in BlocksOf(cfg), BBMaskThen(b) PROVE IInv'
  OBVIOUS
<1> DEFINE p == ThePredecessor(b)
           e == EntryMaskFromPredecessor(p)
<1>1. /\ HandlerReturns(b) /\ b \notin LoopHeaders(cfg)
      /\ Cardinality(Preds(cfg, b)) = 1 /\ IsThen(b)
      /\ bb_masks' = Put(bb_masks, b, [entry |-> b, active |-> b])
      /\ created' = Put(created, b, [op |-> "and", left |-> e, right |-> condition[p]])
      /\ condition' = [condition EXCEPT ![p] = MaskValue(b)]
      /\ phis' = phis
  BY DEF BBMaskThen
<1>2. /\ cfg \in Cfgs /\ phis \in Seq(LoopHeaders(cfg))
      /\ DOMAIN condition = BlocksOf(cfg) /\ BranchInv
  BY DEF IInv, TypeInv
<1>3. /\ TypeInv' /\ CallsInv'
      /\ b \notin Finished /\ Finished' = Finished \cup {b}
      /\ Forward(cfg, b) \subseteq Finished
      /\ cfg' = cfg /\ swaps' = swaps /\ pc = "visit" /\ pc' = "visit"
      /\ bb_masks'[b] = [entry |-> b, active |-> b]
      /\ \A x \in Finished : bb_masks'[x] = bb_masks[x]
  <2> HIDE DEF e, p
  <2>1. phis' \in Seq(LoopHeaders(cfg)) /\ DOMAIN condition' = DOMAIN condition
    BY <1>1, <1>2
  <2> QED
    BY <1>1, <2>1, Returns
<1>4. PICK q \in BlocksOf(cfg) : HasOneWay(cfg, b, q) /\ Forward(cfg, b) = Preds(cfg, b)
  BY <1>1, <1>2, Kinds DEF IsHeader, IsEntry, HasTwoWays
<1>5. p = q /\ Preds(cfg, b) = {p} /\ p \in Finished /\ p \in BlocksOf(cfg) /\ PredOf(cfg, b) = p
  BY <1>3, <1>4 DEF HasOneWay, ThePredecessor, PredOf
<1>6. b \in ThenBlocks(cfg) /\ ~IsLoopTail(cfg, p)
  BY <1>1, <1>5 DEF IsThen, ThenBlocks
<1> HIDE DEF p
<1>7. e = ActiveMaskOf(cfg, p)
  BY <1>5, <1>6, FromPredecessor
<1>8. \A h \in LoopHeaders(cfg) : p \notin Latches(cfg, h)
  BY <1>2, <1>6, LatchesAreTails
<1>9. \A t \in ThenBlocks(cfg) \cap Finished : p # PredOf(cfg, t)
  <2> SUFFICES ASSUME NEW t \in ThenBlocks(cfg) \cap Finished, p = PredOf(cfg, t) PROVE FALSE
    OBVIOUS
  <2>1. cfg.succ[p][1] = t /\ cfg.succ[p][1] = b
    BY <1>2, <1>5, <1>6, BeforeThen
  <2> QED
    BY <1>3, <2>1
<1>10. condition[p] = Original
  BY <1>2, <1>5, <1>8, <1>9 DEF BranchInv
<1>11. ActiveMaskOf(cfg, b) = b /\ b \in MasksOf(cfg)
  <2>1. b \in MasksOf(cfg) \ {ArgMask}
    BY <1>2, <1>6, GraphFacts DEF MasksOf
  <2> QED
    BY <1>2, <2>1, RegionFacts
<1>12. MasksOfBlock(b)
  BY <1>1, <1>3, <1>11 DEF MasksOfBlock
<1>13. InstructionOfBlock(b)
  BY <1>1, <1>5, <1>6, <1>7, <1>10 DEF InstructionOfBlock
<1>14. MaskInv'
  BY <1>3, <1>12, <1>13, MaskStep
<1>15. BranchInv'
  <2>1. \A h : Pending(h) /\ Pending(h)'
    BY <1>3 DEF Pending
  <2>2. LoopHeaders(cfg) \cap Finished' = LoopHeaders(cfg) \cap Finished
    BY <1>1, <1>3
  <2>3. condition'[p] = MaskValue(b)
        /\ \A x \in BlocksOf(cfg) \ {p} : condition'[x] = condition[x]
    BY <1>1, <1>2, <1>5
  <2>4. \A h \in LoopHeaders(cfg) : \A l \in Latches(cfg, h) : condition'[l] = Original
    <3> SUFFICES ASSUME NEW h \in LoopHeaders(cfg), NEW l \in Latches(cfg, h)
                 PROVE  condition'[l] = Original
      OBVIOUS
    <3>1. l \in BlocksOf(cfg) \ {p}
      BY <1>2, <1>8, LatchesAreTails
    <3>2. condition[l] = Original
      BY <1>2, <2>1 DEF BranchInv
    <3> QED
      BY <2>3, <3>1, <3>2
  <2>5. \A t \in ThenBlocks(cfg) \cap Finished' : condition'[PredOf(cfg, t)] = MaskValue(t)
    <3> SUFFICES ASSUME NEW t \in ThenBlocks(cfg) \cap Finished'
                 PROVE  condition'[PredOf(cfg, t)] = MaskValue(t)
      OBVIOUS
    <3>1. CASE t = b
      BY <1>5, <2>3, <3>1
    <3>2. CASE t \in Finished
      <4>1. PredOf(cfg, t) \in BlocksOf(cfg) \ {p}
        BY <1>2, <1>9, <3>2, BeforeThen
      <4>2. condition[PredOf(cfg, t)] = MaskValue(t)
        BY <1>2, <3>2 DEF BranchInv
      <4> QED
        BY <2>3, <4>1, <4>2
    <3> QED
      BY <1>3, <3>1, <3>2
  <2>6. \A x \in BlocksOf(cfg) :
           /\ \A h \in LoopHeaders(cfg) : x \notin Latches(cfg, h)
           /\ \A t \in ThenBlocks(cfg) \cap Finished' : x # PredOf(cfg, t)
           => condition'[x] = Original
    <3> SUFFICES ASSUME NEW x \in BlocksOf(cfg),
                        \A h \in LoopHeaders(cfg) : x \notin Latches(cfg, h),
                        \A t \in ThenBlocks(cfg) \cap Finished' : x # PredOf(cfg, t)
                 PROVE  condition'[x] = Original
      OBVIOUS
    <3>1. x # p
      BY <1>3, <1>5, <1>6
    <3>2. condition[x] = Original
      BY <1>2, <1>3 DEF BranchInv
    <3> QED
      BY <2>3, <3>1, <3>2
  <2>7. /\ \A j, k \in 1..Len(phis') : phis'[j] = phis'[k] => j = k
        /\ {phis'[k] : k \in 1..Len(phis')} = LoopHeaders(cfg) \cap Finished'
    BY <1>1, <1>2, <1>3, <2>2 DEF BranchInv
  <2>8. \A x \in BlocksOf(cfg) : swaps'[x] = 0
    BY <1>2, <1>3, <2>1 DEF BranchInv
  <2> QED
    BY <1>3, <2>1, <2>4, <2>5, <2>6, <2>7, <2>8 DEF BranchInv
<1> QED
  BY <1>3, <1>14, <1>15 DEF IInv

LEMMA TwoPredecessorsStep ==
    IInv => \A b \in BlocksOf(cfg) : BBMaskTwoPredecessors(b) => IInv'
<1> SUFFICES ASSUME IInv, NEW b \in BlocksOf(cfg), BBMaskTwoPredecessors(b) PROVE IInv'
  OBVIOUS
<1> DEFINE d == DominatorPred(b)
<1>1. /\ HandlerReturns(b) /\ b \notin LoopHeaders(cfg) /\ Cardinality(Preds(cfg, b)) = 2
      /\ bb_masks' = Put(bb_masks, b, bb_masks[d])
      /\ UNCHANGED <<created, condition, phis>>
  BY DEF BBMaskTwoPredecessors
<1>2. cfg \in Cfgs /\ phis \in Seq(LoopHeaders(cfg)) /\ MaskInv
  BY DEF IInv, TypeInv
<1>3. /\ TypeInv' /\ CallsInv'
      /\ b \notin Finished /\ Finished' = Finished \cup {b}
      /\ Forward(cfg, b) \subseteq Finished
      /\ cfg' = cfg /\ swaps' = swaps /\ pc = "visit" /\ pc' = "visit"
      /\ bb_masks'[b] = bb_masks[d]
      /\ \A x \in Finished : bb_masks'[x] = bb_masks[x]
  <2>1. phis' \in Seq(LoopHeaders(cfg)) /\ DOMAIN condition' = DOMAIN condition
    BY <1>1, <1>2
  <2> HIDE DEF d
  <2> QED
    BY <1>1, <2>1, Returns
<1>4. HasTwoWays(cfg, b) /\ Forward(cfg, b) = Preds(cfg, b)
  BY <1>1, <1>2, Kinds DEF IsHeader, IsEntry, HasOneWay
<1>5. d \in Preds(cfg, b) /\ \A q \in Preds(cfg, b) : Dominates(cfg, d, q)
  BY <1>4 DEF HasTwoWays, DominatorPred
<1> HIDE DEF d
<1>6. ~IsLoopTail(cfg, d) /\ d \in Finished /\ d \in BlocksOf(cfg)
  BY <1>3, <1>4, <1>5 DEF HasTwoWays, Preds
<1>7. b \notin ThenBlocks(cfg)
  <2>1. PICK x, y \in Preds(cfg, b) : x # y
    BY <1>4 DEF HasTwoWays
  <2> QED
    BY <2>1 DEF ThenBlocks
<1>8. ActiveMaskOf(cfg, d) = ActiveMaskOf(cfg, b)
  <2>1. Governors(cfg, b) \ {b} = Governors(cfg, d)
    BY <1>2, <1>4, <1>5, <1>6, <1>7, FromDominator
  <2>2. Governors(cfg, b) \ {b} = Governors(cfg, b)
    BY <1>1, <1>2, <1>7, NotOwnGovernor
  <2> QED
    BY <1>2, <1>6, <2>1, <2>2, MasksByGovernors
<1>9. MasksOfBlock(b)
  BY <1>1, <1>2, <1>3, <1>6, <1>8 DEF MaskInv, MasksOfBlock
<1>10. InstructionOfBlock(b)
  BY <1>1, <1>7 DEF InstructionOfBlock
<1>11. MaskInv'
  BY <1>3, <1>9, <1>10, MaskStep
<1>12. BranchInv'
  BY <1>1, <1>3, <1>7, BranchesStay
<1> QED
  BY <1>3, <1>11, <1>12 DEF IInv

\* The blocks are done, all loops are left to be closed.
LEMMA StartFinalizeStep == IInv /\ StartFinalize => IInv'
<1> SUFFICES ASSUME IInv, StartFinalize PROVE IInv'
  OBVIOUS
<1>1. /\ pc = "visit" /\ stack = <<>> /\ unvisited = {} /\ pc' = "finalize"
      /\ UNCHANGED <<cfg, unvisited, stack, bb_masks, created, condition, swaps, phis>>
  BY DEF StartFinalize
<1>2. TypeInv /\ CallsInv /\ MaskInv /\ BranchInv
  BY DEF IInv
<1>3. Seen' = Seen /\ Finished' = Finished /\ Finished = BlocksOf(cfg)
  <2>1. Len(stack) = 0
    BY <1>1
  <2> QED
    BY <1>1, <1>2, <2>1 DEF Seen, Finished, TypeInv, CallsInv
<1>4. \A h \in LoopHeaders(cfg) : Pending(h) /\ Pending(h)'
  <2>1. {phis[k] : k \in 1..Len(phis)} = LoopHeaders(cfg) \cap Finished
    BY <1>1, <1>2 DEF BranchInv
  <2>2. LoopHeaders(cfg) \subseteq Finished
    BY <1>2, <1>3, GraphFacts DEF TypeInv
  <2> QED
    BY <1>1, <2>1, <2>2 DEF Pending
<1>5. TypeInv'
  BY <1>1, <1>2, <1>3 DEF TypeInv, Frames
<1>6. CallsInv'
  BY <1>1, <1>2, <1>3 DEF CallsInv
<1>7. MaskInv'
  BY <1>1, <1>2, <1>3, <1>4 DEF MaskInv
<1>8. BranchInv'
  BY <1>1, <1>2, <1>3, <1>4 DEF BranchInv
<1> QED
  BY <1>5, <1>6, <1>7, <1>8 DEF IInv

\* finalizeMaskPHIs closes one loop.
LEMMA FinalizePHIStep == IInv /\ FinalizePHI => IInv'
<1> SUFFICES ASSUME IInv, FinalizePHI PROVE IInv'
  OBVIOUS
<1>0. PICK h, l, m : h = Head(phis) /\ l = TheLatch(h) /\ m = Len(phis)
  OBVIOUS
<1>1. /\ pc = "finalize" /\ phis # <<>>
      /\ condition' = [condition EXCEPT ![l] = Negated(condition[l])]
      /\ created' = [created EXCEPT ![h].right = Negated(condition[l])]
      /\ swaps' = [swaps EXCEPT ![l] = @ + 1]
      /\ pc' = IF IsConditional(cfg, l) THEN pc ELSE "abort"
      /\ phis' = Tail(phis) /\ UNCHANGED <<cfg, unvisited, stack, bb_masks>>
  BY <1>0 DEF FinalizePHI, RepeatCondition
<1>2. TypeInv /\ CallsInv /\ MaskInv /\ BranchInv
  BY DEF IInv
<1>3. cfg \in Cfgs /\ phis \in Seq(LoopHeaders(cfg)) /\ m \in Nat
      /\ DOMAIN condition = BlocksOf(cfg) /\ DOMAIN swaps = BlocksOf(cfg)
  BY <1>0, <1>2 DEF TypeInv
<1>4. /\ h \in LoopHeaders(cfg) /\ m > 0 /\ h = phis[1]
      /\ Tail(phis) \in Seq(LoopHeaders(cfg)) /\ Len(Tail(phis)) = m - 1
      /\ \A k \in 1..(m - 1) : Tail(phis)[k] = phis[k + 1]
  BY <1>0, <1>1, <1>3, EmptySeq, HeadTailProperties
<1>5. Seen' = Seen /\ Finished' = Finished /\ Finished = BlocksOf(cfg)
  <2>1. stack = <<>> /\ Len(stack) = 0 /\ unvisited = {}
    BY <1>1, <1>2 DEF CallsInv
  <2> QED
    BY <1>1, <1>2, <2>1 DEF Seen, Finished, TypeInv, CallsInv
<1>6. l \in Latches(cfg, h) /\ l \in BlocksOf(cfg) /\ IsLoopTail(cfg, l) /\ cfg.succ[l][2] = h
      /\ \A x \in Latches(cfg, h) : x = l
  <2>1. HasOneTail(cfg, h)
    BY <1>3, <1>4, MasksAssumption DEF TailsCloseLoops
  <2>2. PICK x : Latches(cfg, h) = {x}
    BY <2>1 DEF HasOneTail
  <2>3. x \in BlocksOf(cfg)
    BY <2>2 DEF Latches, Preds
  <2>4. l = x
    BY <1>0, <2>2, <2>3 DEF TheLatch
  <2> QED
    BY <1>3, <1>4, <2>2, <2>4, LatchesAreTails
<1>7. IsConditional(cfg, l) /\ pc' = "finalize"
  BY <1>1, <1>3, <1>6, TailFacts
<1>8. \A x \in LoopHeaders(cfg) : \A y \in Latches(cfg, x) :
         y \in BlocksOf(cfg) /\ IsLoopTail(cfg, y) /\ (y = l => x = h)
  BY <1>3, <1>6, LatchesAreTails
<1>9. /\ \A j, k \in 1..(m - 1) : Tail(phis)[j] = Tail(phis)[k] => j = k
      /\ {Tail(phis)[k] : k \in 1..(m - 1)} = {phis[k] : k \in 1..m} \ {h}
  <2>1. \A j, k \in 1..m : phis[j] = phis[k] => j = k
    BY <1>0, <1>2 DEF BranchInv
  <2>2. \A k \in 1..(m - 1) : k + 1 \in 1..m /\ k + 1 # 1
    BY <1>3
  <2>3. \A k \in 1..m : k = 1 \/ (k - 1 \in 1..(m - 1) /\ (k - 1) + 1 = k)
    BY <1>3
  <2>4. \A j, k \in 1..(m - 1) : Tail(phis)[j] = Tail(phis)[k] => j = k
    <3> SUFFICES ASSUME NEW j \in 1..(m - 1), NEW k \in 1..(m - 1), Tail(phis)[j] = Tail(phis)[k]
                 PROVE  j = k
      OBVIOUS
    <3>1. j + 1 = k + 1
      BY <1>4, <2>1, <2>2
    <3> QED
      BY <3>1
  <2>5. ASSUME NEW k \in 1..(m - 1) PROVE Tail(phis)[k] \in {phis[i] : i \in 1..m} \ {h}
    <3>1. 1 \in 1..m
      BY <1>3, <1>4
    <3> QED
      BY <1>4, <2>1, <2>2, <3>1
  <2>6. ASSUME NEW k \in 1..m, phis[k] # h PROVE phis[k] \in {Tail(phis)[i] : i \in 1..(m - 1)}
    <3>1. k - 1 \in 1..(m - 1) /\ (k - 1) + 1 = k
      BY <1>4, <2>3, <2>6
    <3>2. Tail(phis)[k - 1] = phis[k]
      BY <1>4, <3>1
    <3> QED
      BY <3>1, <3>2
  <2>7. {Tail(phis)[k] : k \in 1..(m - 1)} = {phis[k] : k \in 1..m} \ {h}
    BY <2>5, <2>6
  <2> QED
    BY <2>4, <2>7
<1>10. /\ Pending(h) /\ ~Pending(h)'
       /\ \A x : x # h => (Pending(x)' <=> Pending(x))
  <2>1. \A x : Pending(x) <=> x \in {phis[k] : k \in 1..m}
    BY <1>0, <1>1 DEF Pending
  <2>2. \A x : Pending(x)' <=> x \in {Tail(phis)[k] : k \in 1..(m - 1)}
    BY <1>1, <1>4, <1>7 DEF Pending
  <2>3. h \in {phis[k] : k \in 1..m}
    <3>1. 1 \in 1..m
      BY <1>3, <1>4
    <3> QED
      BY <1>4, <3>1
  <2> QED
    BY <1>9, <2>1, <2>2, <2>3
<1>11. condition[l] = Original
  BY <1>2, <1>4, <1>6, <1>10 DEF BranchInv
<1>12. TypeInv'
  BY <1>1, <1>2, <1>4, <1>5, <1>7 DEF TypeInv, Frames
<1>13. CallsInv'
  <2>1. stack = <<>> /\ Len(stack) = 0 /\ unvisited = {}
    BY <1>1, <1>2 DEF CallsInv
  <2> QED
    BY <1>1, <1>2, <1>5, <2>1 DEF CallsInv
<1>14. MaskInv'
  <2>1. DOMAIN created = (ThenBlocks(cfg) \cup LoopHeaders(cfg)) \cap Finished
    BY <1>2 DEF MaskInv
  <2>2. h \in DOMAIN created /\ h \notin ThenBlocks(cfg) /\ h \in Finished
    BY <1>3, <1>4, <1>5, <2>1, GraphFacts DEF ThenBlocks
  <2>3. created[h] = [op |-> "phi", left |-> LoopEntryMaskOf(cfg, h), right |-> Deferred]
    BY <1>2, <1>4, <1>10, <2>2 DEF MaskInv
  <2>4. /\ DOMAIN created' = DOMAIN created
        /\ created'[h] = [op |-> "phi", left |-> LoopEntryMaskOf(cfg, h),
                          right |-> Negated(Original)]
        /\ \A x \in DOMAIN created \ {h} : created'[x] = created[x]
    BY <1>1, <1>11, <2>2, <2>3
  <2>5. \A x \in LoopHeaders(cfg) \cap Finished' :
           created'[x] = [op |-> "phi", left |-> LoopEntryMaskOf(cfg, x),
                          right |-> IF Pending(x)' THEN Deferred ELSE Negated(Original)]
    <3> SUFFICES ASSUME NEW x \in LoopHeaders(cfg) \cap Finished'
                 PROVE  created'[x] = [op |-> "phi", left |-> LoopEntryMaskOf(cfg, x),
                                       right |-> IF Pending(x)' THEN Deferred ELSE Negated(Original)]
      OBVIOUS
    <3>1. CASE x = h
      BY <1>10, <2>4, <3>1
    <3>2. CASE x # h
      BY <1>2, <1>5, <1>10, <2>1, <2>4, <3>2 DEF MaskInv
    <3> QED
      BY <3>1, <3>2
  <2>6. \A t \in ThenBlocks(cfg) \cap Finished' :
           created'[t] = [op |-> "and", left |-> ActiveMaskOf(cfg, PredOf(cfg, t)),
                          right |-> Original]
    BY <1>2, <1>5, <2>1, <2>2, <2>4 DEF MaskInv
  <2>7. \A x \in Finished' :
           /\ bb_masks'[x].active = ActiveMaskOf(cfg, x)
           /\ bb_masks'[x].entry \in MasksOf(cfg)
           /\ x \in LoopHeaders(cfg) => bb_masks'[x].entry = LoopEntryMaskOf(cfg, x)
    BY <1>1, <1>2, <1>5 DEF MaskInv
  <2> QED
    BY <1>1, <1>5, <2>1, <2>4, <2>5, <2>6, <2>7 DEF MaskInv
<1>15. BranchInv'
  <2>1. /\ condition'[l] = Negated(Original) /\ swaps'[l] = swaps[l] + 1
        /\ \A x \in BlocksOf(cfg) \ {l} : condition'[x] = condition[x] /\ swaps'[x] = swaps[x]
    BY <1>1, <1>3, <1>6, <1>11
  <2>2. \A t \in ThenBlocks(cfg) : PredOf(cfg, t) \in BlocksOf(cfg) \ {l}
    BY <1>3, <1>6, BeforeThen
  <2>3. \A x \in BlocksOf(cfg) :
           swaps'[x] = IF \E k \in LoopHeaders(cfg) : x \in Latches(cfg, k) /\ ~Pending(k)'
                       THEN 1 ELSE 0
    <3> SUFFICES ASSUME NEW x \in BlocksOf(cfg)
                 PROVE  swaps'[x] = IF \E k \in LoopHeaders(cfg) : x \in Latches(cfg, k) /\ ~Pending(k)'
                                    THEN 1 ELSE 0
      OBVIOUS
    <3>1. swaps[x] = IF \E k \in LoopHeaders(cfg) : x \in Latches(cfg, k) /\ ~Pending(k)
                     THEN 1 ELSE 0
      BY <1>2 DEF BranchInv
    <3>2. CASE x = l
      <4>1. swaps[x] = 0
        BY <1>8, <1>10, <3>1, <3>2
      <4> QED
        BY <1>4, <1>6, <1>10, <2>1, <3>2, <4>1
    <3>3. CASE x # l
      <4>1. \A k \in LoopHeaders(cfg) : x \in Latches(cfg, k) => (Pending(k)' <=> Pending(k))
        BY <1>6, <1>10, <3>3
      <4> QED
        BY <2>1, <3>1, <3>3, <4>1
    <3> QED
      BY <3>2, <3>3
  <2>4. \A k \in LoopHeaders(cfg) : \A x \in Latches(cfg, k) :
           condition'[x] = IF Pending(k)' THEN Original ELSE Negated(Original)
    <3> SUFFICES ASSUME NEW k \in LoopHeaders(cfg), NEW x \in Latches(cfg, k)
                 PROVE  condition'[x] = IF Pending(k)' THEN Original ELSE Negated(Original)
      OBVIOUS
    <3>1. condition[x] = IF Pending(k) THEN Original ELSE Negated(Original)
      BY <1>2 DEF BranchInv
    <3>2. CASE x = l
      BY <1>8, <1>10, <2>1, <3>2
    <3>3. CASE x # l
      <4>1. k # h
        BY <1>6, <3>3
      <4> QED
        BY <1>8, <1>10, <2>1, <3>1, <3>3, <4>1
    <3> QED
      BY <3>2, <3>3
  <2>5. \A t \in ThenBlocks(cfg) \cap Finished' : condition'[PredOf(cfg, t)] = MaskValue(t)
    <3> SUFFICES ASSUME NEW t \in ThenBlocks(cfg) \cap Finished'
                 PROVE  condition'[PredOf(cfg, t)] = MaskValue(t)
      OBVIOUS
    <3>1. condition[PredOf(cfg, t)] = MaskValue(t)
      BY <1>2, <1>5 DEF BranchInv
    <3> QED
      BY <2>1, <2>2, <3>1
  <2>6. \A x \in BlocksOf(cfg) :
           /\ \A k \in LoopHeaders(cfg) : x \notin Latches(cfg, k)
           /\ \A t \in ThenBlocks(cfg) \cap Finished' : x # PredOf(cfg, t)
           => condition'[x] = Original
    BY <1>2, <1>4, <1>5, <1>6, <2>1 DEF BranchInv
  <2> QED
    BY <1>1, <1>4, <1>5, <1>7, <1>9, <2>3, <2>4, <2>5, <2>6 DEF BranchInv
<1> QED
  BY <1>12, <1>13, <1>14, <1>15 DEF IInv

LEMMA ReturnStep == IInv /\ Return => IInv'
<1> SUFFICES ASSUME IInv, Return PROVE IInv'
  OBVIOUS
<1>1. /\ pc = "finalize" /\ phis = <<>> /\ pc' = "done"
      /\ UNCHANGED <<cfg, unvisited, stack, bb_masks, created, condition, swaps, phis>>
  BY DEF Return
<1>2. TypeInv /\ CallsInv /\ MaskInv /\ BranchInv
  BY DEF IInv
<1>3. Seen' = Seen /\ Finished' = Finished
  BY <1>1 DEF Seen, Finished
<1>4. \A h : Pending(h)' <=> Pending(h)
  BY <1>1 DEF Pending
<1>5. TypeInv'
  BY <1>1, <1>2, <1>3 DEF TypeInv, Frames
<1>6. CallsInv'
  BY <1>1, <1>2, <1>3 DEF CallsInv
<1>7. MaskInv'
  BY <1>1, <1>2, <1>3, <1>4 DEF MaskInv
<1>8. BranchInv'
  BY <1>1, <1>2, <1>3, <1>4 DEF BranchInv
<1> QED
  BY <1>5, <1>6, <1>7, <1>8 DEF IInv

LEMMA StutterStep == IInv /\ UNCHANGED vars => IInv'
<1> SUFFICES ASSUME IInv, UNCHANGED vars PROVE IInv'
  OBVIOUS
<1>1. UNCHANGED <<cfg, unvisited, stack, bb_masks, created, condition, swaps, phis, pc>>
  BY DEF vars
<1>2. Seen' = Seen /\ Finished' = Finished
  BY <1>1 DEF Seen, Finished
<1>3. \A h : Pending(h)' <=> Pending(h)
  BY <1>1 DEF Pending
<1>4. TypeInv'
  BY <1>1, <1>2 DEF IInv, TypeInv, Frames
<1>5. CallsInv'
  BY <1>1, <1>2 DEF IInv, CallsInv
<1>6. MaskInv'
  BY <1>1, <1>2, <1>3 DEF IInv, MaskInv
<1>7. BranchInv'
  BY <1>1, <1>2, <1>3 DEF IInv, BranchInv
<1> QED
  BY <1>4, <1>5, <1>6, <1>7 DEF IInv

LEMMA NextIInv == IInv /\ [Next]_vars => IInv'
<1> SUFFICES ASSUME IInv, [Next]_vars PROVE IInv'
  OBVIOUS
<1>1. ASSUME NEW b \in BlocksOf(cfg), NextBlock(b) PROVE IInv'
  BY <1>1, NextBlockStep
<1>2. ASSUME NEW b \in BlocksOf(cfg), Recurse(b) PROVE IInv'
  BY <1>2, RecurseStep
<1>3. ASSUME NEW b \in BlocksOf(cfg), Handler(b) PROVE IInv'
  BY <1>3, EntryStep, LoopHeaderStep, InheritStep, ThenStep, TwoPredecessorsStep DEF Handler
<1>4. CASE StartFinalize
  BY <1>4, StartFinalizeStep
<1>5. CASE FinalizePHI
  BY <1>5, FinalizePHIStep
<1>6. CASE Return
  BY <1>6, ReturnStep
<1>7. CASE Ended \/ UNCHANGED vars
  BY <1>7, StutterStep DEF Ended
<1> QED
  BY <1>1, <1>2, <1>3, <1>4, <1>5, <1>6, <1>7 DEF Next

LEMMA Invariance == Spec => []IInv
<1>1. Init => IInv
  BY InitIInv
<1>2. IInv /\ [Next]_vars => IInv'
  BY NextIInv
<1> QED
  BY <1>1, <1>2, PTL DEF Spec

\* What holds when the pass is done.
LEMMA AtTheEnd ==
    IInv /\ pc = "done" => /\ cfg \in Cfgs /\ Finished = BlocksOf(cfg)
                           /\ \A h : ~Pending(h)
                           /\ \A b \in BlocksOf(cfg) : ThePredecessor(b) = PredOf(cfg, b)
<1> SUFFICES ASSUME IInv, pc = "done"
             PROVE  /\ cfg \in Cfgs /\ Finished = BlocksOf(cfg)
                    /\ \A h : ~Pending(h)
                    /\ \A b \in BlocksOf(cfg) : ThePredecessor(b) = PredOf(cfg, b)
  OBVIOUS
<1>1. TypeInv /\ CallsInv /\ phis = <<>>
  BY DEF IInv, BranchInv
<1>2. stack = <<>> /\ unvisited = {} /\ Len(stack) = 0 /\ Len(phis) = 0
  BY <1>1 DEF CallsInv
<1>3. Finished = BlocksOf(cfg)
  BY <1>1, <1>2 DEF Finished, TypeInv, CallsInv
<1>4. \A h : ~Pending(h)
  BY <1>1, <1>2 DEF Pending
<1> QED
  BY <1>1, <1>3, <1>4 DEF TypeInv, ThePredecessor, PredOf

-----------------------------------------------------------------------------
\* In any order of the blocks, no handler of mask.cpp reads the nullptr that
\* calculateBBMasks has stored for a block whose own call is still running.
THEOREM NullMaskIsNeverRead == Spec => []NoNullMask
<1>1. IInv => NoNullMask
  <2> SUFFICES ASSUME IInv PROVE NoNullMask
    OBVIOUS
  <2>1. cfg \in Cfgs /\ Finished \subseteq BlocksOf(cfg)
    BY DEF IInv, TypeInv, Finished
  <2>2. NullMask \notin MasksOf(cfg)
    BY <2>1, MasksAssumption
  <2>3. \A b \in Finished : bb_masks[b].active # NullMask /\ bb_masks[b].entry # NullMask
    BY <2>1, <2>2, RegionFacts DEF IInv, MaskInv
  <2>4. ASSUME NEW b \in DOMAIN created PROVE created[b].left # NullMask
    <3>1. b \in (ThenBlocks(cfg) \cup LoopHeaders(cfg)) \cap Finished
      BY DEF IInv, MaskInv
    <3>2. CASE b \in ThenBlocks(cfg)
      <4>1. created[b].left = ActiveMaskOf(cfg, PredOf(cfg, b))
        BY <3>1, <3>2 DEF IInv, MaskInv
      <4>2. PredOf(cfg, b) \in BlocksOf(cfg)
        BY <2>1, <3>2, BeforeThen
      <4> QED
        BY <2>1, <2>2, <4>1, <4>2, RegionFacts
    <3>3. CASE b \in LoopHeaders(cfg)
      <4>1. created[b].left = LoopEntryMaskOf(cfg, b)
        BY <3>1, <3>3 DEF IInv, MaskInv
      <4> QED
        BY <2>1, <2>2, <3>3, <4>1, RegionFacts
    <3> QED
      BY <3>1, <3>2, <3>3
  <2> QED
    BY <2>3, <2>4 DEF NoNullMask, Finished
<1> QED
  BY <1>1, Invariance, PTL

\* MasksStep takes every structured function: no FATAL and no assert of
\* mask.cpp fires.
THEOREM NeverGivesUp == Spec => []NoAbort
<1>1. IInv => NoAbort
  BY DEF IInv, TypeInv, NoAbort
<1> QED
  BY <1>1, Invariance, PTL

\* calculate() gives each block the innermost mask that governs it, and a loop
\* the mask it is entered with.
THEOREM MasksRight == Spec => []MasksCorrect
<1>1. IInv => MasksCorrect
  <2> SUFFICES ASSUME IInv, pc = "done"
               PROVE  \A b \in BlocksOf(cfg) :
                          /\ bb_masks[b].active = ActiveMaskOf(cfg, b)
                          /\ b \in LoopHeaders(cfg) =>
                                bb_masks[b].entry = LoopEntryMaskOf(cfg, b)
    BY DEF MasksCorrect
  <2> QED
    BY AtTheEnd DEF IInv, MaskInv
<1> QED
  BY <1>1, Invariance, PTL

\* The And of a 'then' block and the PHI of a loop, completed by
\* finalizeMaskPHIs, are built from the right masks and conditions, and there
\* are no others.
THEOREM InstructionsRight == Spec => []InstructionsCorrect
<1>1. IInv => InstructionsCorrect
  <2> SUFFICES ASSUME IInv, pc = "done" PROVE InstructionsCorrect
    BY DEF InstructionsCorrect
  <2>1. /\ cfg \in Cfgs /\ Finished = BlocksOf(cfg) /\ \A h : ~Pending(h)
        /\ \A b \in BlocksOf(cfg) : ThePredecessor(b) = PredOf(cfg, b)
    BY AtTheEnd
  <2>2. ThenBlocks(cfg) \subseteq BlocksOf(cfg) /\ LoopHeaders(cfg) \subseteq BlocksOf(cfg)
    BY <2>1, GraphFacts
  <2>3. DOMAIN created = ThenBlocks(cfg) \cup LoopHeaders(cfg)
    BY <2>1, <2>2 DEF IInv, MaskInv
  <2>4. \A t \in ThenBlocks(cfg) :
           created[t] = [op |-> "and", left |-> ActiveMaskOf(cfg, ThePredecessor(t)),
                         right |-> Original]
    BY <2>1, <2>2 DEF IInv, MaskInv
  <2>5. \A h \in LoopHeaders(cfg) :
           created[h] = [op |-> "phi", left |-> LoopEntryMaskOf(cfg, h),
                         right |-> Negated(Original)]
    BY <2>1, <2>2 DEF IInv, MaskInv
  <2> QED
    BY <2>3, <2>4, <2>5 DEF InstructionsCorrect
<1> QED
  BY <1>1, Invariance, PTL

\* An if tests the mask of its 'then' block, a loop tail the inverted condition
\* with its successors swapped once; all other branches are as they were.
THEOREM BranchesRight == Spec => []BranchesCorrect
<1>1. IInv => BranchesCorrect
  <2> SUFFICES ASSUME IInv, pc = "done", NEW b \in BlocksOf(cfg)
               PROVE  LET thens == ThenBlocks(cfg) \cap Succs(cfg, b)
                          tail == \E h \in LoopHeaders(cfg) : b \in Latches(cfg, h)
                      IN  /\ swaps[b] = (IF tail THEN 1 ELSE 0)
                          /\ tail => condition[b] = Negated(Original)
                          /\ \A t \in thens : condition[b] = MaskValue(t)
                          /\ ~tail /\ thens = {} => condition[b] = Original
    BY DEF BranchesCorrect
  <2> DEFINE tail == \E h \in LoopHeaders(cfg) : b \in Latches(cfg, h)
  <2>1. cfg \in Cfgs /\ Finished = BlocksOf(cfg) /\ \A h : ~Pending(h)
    BY AtTheEnd
  <2>2. BranchInv /\ ThenBlocks(cfg) \subseteq Finished
    BY <2>1, GraphFacts DEF IInv
  <2>3. \A t \in ThenBlocks(cfg) : t \in Succs(cfg, b) <=> b = PredOf(cfg, t)
    <3> SUFFICES ASSUME NEW t \in ThenBlocks(cfg) PROVE t \in Succs(cfg, b) <=> b = PredOf(cfg, t)
      OBVIOUS
    <3>1. Preds(cfg, t) = {PredOf(cfg, t)}
      BY <2>1, BeforeThen
    <3>2. t \in Succs(cfg, b) <=> b \in Preds(cfg, t)
      BY DEF Preds
    <3> QED
      BY <3>1, <3>2
  <2>4. swaps[b] = (IF tail THEN 1 ELSE 0) /\ (tail => condition[b] = Negated(Original))
    BY <2>1, <2>2 DEF BranchInv
  <2>5. \A t \in ThenBlocks(cfg) \cap Succs(cfg, b) : condition[b] = MaskValue(t)
    BY <2>2, <2>3 DEF BranchInv
  <2>6. ~tail /\ ThenBlocks(cfg) \cap Succs(cfg, b) = {} => condition[b] = Original
    BY <2>2, <2>3 DEF BranchInv
  <2> QED
    BY <2>4, <2>5, <2>6
<1> QED
  BY <1>1, Invariance, PTL
===============================================================================
