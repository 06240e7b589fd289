--------------------------- MODULE InstOrderProofs ---------------------------
(***************************************************************************)
(* For every function, whatever ready instruction Kahn's loop picks: the   *)
(* order lists no instruction twice, lists definitions before uses, is     *)
(* complete when calculate() returns, and a reported cycle is a real one.  *)
(***************************************************************************)
EXTENDS InstOrder, TLAPS

\* The instructions whose dependencies have been collected.
Analyzed == IF pc = "analyze"
            THEN {ProgramOrder[k] : k \in 1..(cursor - 1)}
            ELSE Inst

\* What the maps hold, in terms of the instructions analyzed and placed.
MapsInv ==
    /\ \A i \in Analyzed : pending_defs[i] = Deps(i) \ Placed
    /\ \A i \in Analyzed : ~BadBackedge(i)
    /\ \A i \in Inst \ Analyzed : pending_defs[i] = {}
    /\ \A d, i \in Inst : i \in uses[d] <=> i \in Analyzed /\ d \in Deps(i)
    /\ \A i \in Inst :
          i \in ready <=> /\ i \in Analyzed
                          /\ i \notin Placed
                          /\ Deps(i) \subseteq Placed

\* What the order satisfies in every state.
OrderInv ==
    /\ \A k \in 1..Len(instruction_order) :
          Deps(instruction_order[k]) \subseteq
              {instruction_order[j] : j \in 1..(k - 1)}
    /\ \A j, k \in 1..Len(instruction_order) :
          instruction_order[j] = instruction_order[k] => j = k

IInv ==
    /\ TypeOK
    /\ pc = "analyze" => cursor >= 1
    /\ pc \in {"analyze", "fatal"} => instruction_order = <<>>
    /\ pc \in {"done", "cycle"} => ready = {}
    /\ pc = "done" => StillPending = {}
    /\ pc = "cycle" => StillPending # {}
    /\ OrderInv
    /\ pc # "fatal" => MapsInv
    /\ pc = "fatal" => ready \cap Placed = {}

-----------------------------------------------------------------------------
\* Dependencies are instructions.
LEMMA DepsType ==
    ASSUME TypeOK, NEW i \in Inst
    PROVE  Deps(i) \in SUBSET Inst
  <1>1. operands[i] \in SUBSET Inst
    BY InstAssumption DEF TypeOK
  <1>2. MaskInst(BlockMask[i]) \in SUBSET Inst
        /\ MaskInst(SelectMask[i]) \in SUBSET Inst
    BY InstAssumption DEF MaskInst
  <1> QED
    BY <1>1, <1>2 DEF Deps, OperandDeps, BlockMaskDep, PHIDep

\* Only the choice of the program, made in Init, determines dependencies.
LEMMA DepsStable ==
    ASSUME operands' = operands
    PROVE  \A i : Deps(i)' = Deps(i) /\ BadBackedge(i)' = BadBackedge(i)
  BY DEF Deps, OperandDeps, BlockMaskDep, PHIDep, MaskInst, BadBackedge,
         OperandDominatedByUser

\* What the visitors need is a dependency, unless the FATAL has fired.
LEMMA NeededIsDep ==
    ASSUME NEW i, ~BadBackedge(i)
    PROVE  Needed(i) \subseteq Deps(i)
  BY DEF Needed, Deps, OperandDeps, BlockMaskDep, PHIDep, MaskInst,
         BadBackedge, OperandDominatedByUser

\* Initially nothing is analyzed or placed.
LEMMA InitIInv == Init => IInv
  <1> SUFFICES ASSUME Init PROVE IInv
    OBVIOUS
  <1>1. TypeOK
    BY InstAssumption DEF Init, TypeOK
  <1>2. Analyzed = {} /\ Placed = {}
    BY DEF Init, Analyzed, Placed
  <1>3. MapsInv
    BY <1>2 DEF MapsInv, Init
  <1>4. OrderInv
    BY DEF OrderInv, Init
  <1> QED
    BY <1>1, <1>3, <1>4 DEF IInv, Init

\* Analyzing one instruction records its dependencies in both maps.
LEMMA AnalyzeStep == IInv /\ Analyze => IInv'
  <1> SUFFICES ASSUME IInv, Analyze PROVE IInv'
    OBVIOUS
  <1> DEFINE i == ProgramOrder[cursor]
  <1>1. /\ TypeOK /\ pc = "analyze" /\ cursor \in 1..Len(ProgramOrder)
        /\ MapsInv /\ OrderInv /\ instruction_order = <<>>
        /\ Placed = {} /\ i \in Inst
    BY InstAssumption DEF IInv, Analyze, Placed
  <1>2. /\ pending_defs' = [pending_defs EXCEPT ![i] = Deps(i)]
        /\ uses' = [d \in Inst |->
                      IF d \in Deps(i) THEN uses[d] \cup {i} ELSE uses[d]]
        /\ ready' = IF Deps(i) = {} THEN ready \cup {i} ELSE ready
        /\ cursor' = cursor + 1
        /\ operands' = operands /\ instruction_order' = instruction_order
    BY DEF Analyze
  <1>3. pc' \in {"fatal", "analyze", "place"}
    BY DEF Analyze
  <1>4. Deps(i) \in SUBSET Inst
    BY <1>1, DepsType
  <1>5. TypeOK'
    BY <1>1, <1>2, <1>3, <1>4 DEF TypeOK, Outcomes
  <1>6. OrderInv' /\ Placed' = {} /\ instruction_order' = <<>>
    BY <1>1, <1>2 DEF OrderInv, Placed
  <1>7. ASSUME pc' # "fatal" PROVE MapsInv'
    <2>1. ~BadBackedge(i)
      BY <1>7 DEF Analyze
    <2>2. Analyzed' = Analyzed \cup {i}
      <3>1. Analyzed = {ProgramOrder[k] : k \in 1..(cursor - 1)}
        BY <1>1 DEF Analyzed
      <3>2. \A k : k \in 1..cursor <=> k = cursor \/ k \in 1..(cursor - 1)
        BY <1>1
      <3>3. {ProgramOrder[k] : k \in 1..cursor} = Analyzed \cup {i}
        BY <3>1, <3>2
      <3>4. CASE pc' = "analyze"
        BY <1>1, <1>2, <3>3, <3>4 DEF Analyzed
      <3>5. CASE pc' = "place"
        <4>1. cursor = Len(ProgramOrder)
          BY <1>1, <2>1, <3>5, InstAssumption DEF Analyze
        <4>2. Inst = {ProgramOrder[k] : k \in 1..cursor}
          BY <4>1, InstAssumption
        <4> QED
          BY <4>2, <3>3, <3>5 DEF Analyzed
      <3> QED
        BY <1>3, <1>7, <3>4, <3>5
    <2>3. i \notin Analyzed
      <3>1. \A k \in 1..(cursor - 1) :
              k \in 1..Len(ProgramOrder) /\ k # cursor
        BY <1>1, InstAssumption
      <3> QED
        BY <1>1, <3>1, InstAssumption DEF Analyzed
    <2>4. \A j : Deps(j)' = Deps(j) /\ BadBackedge(j)' = BadBackedge(j)
      BY <1>2, DepsStable
    <2>5. \A j \in Analyzed' : pending_defs'[j] = Deps(j)' \ Placed'
      BY <1>1, <1>2, <1>6, <2>2, <2>3, <2>4 DEF MapsInv, TypeOK
    <2>6. \A j \in Analyzed' : ~BadBackedge(j)'
      BY <1>1, <2>1, <2>2, <2>4 DEF MapsInv
    <2>7. \A j \in Inst \ Analyzed' : pending_defs'[j] = {}
      BY <1>1, <1>2, <2>2 DEF MapsInv, TypeOK
    <2>8. \A d, j \in Inst :
              j \in uses'[d] <=> j \in Analyzed' /\ d \in Deps(j)'
      BY <1>1, <1>2, <2>2, <2>4 DEF MapsInv, TypeOK
    <2>9. \A j \in Inst : j \in ready' <=> /\ j \in Analyzed'
                                           /\ j \notin Placed'
                                           /\ Deps(j)' \subseteq Placed'
      BY <1>1, <1>2, <1>6, <2>2, <2>3, <2>4 DEF MapsInv
    <2> QED
      BY <2>5, <2>6, <2>7, <2>8, <2>9 DEF MapsInv
  <1>8. pc' = "analyze" => cursor' >= 1
    BY <1>1, <1>2
  <1> QED
    BY <1>3, <1>5, <1>6, <1>7, <1>8 DEF IInv

\* Placing a ready instruction keeps the maps exact and the order legal.
LEMMA PlaceStep == ASSUME NEW i \in Inst, IInv, Place(i) PROVE IInv'
  <1>1. /\ TypeOK /\ pc = "place" /\ pc' = pc /\ i \in ready
        /\ MapsInv /\ OrderInv /\ Analyzed = Inst /\ Analyzed' = Inst
    BY DEF IInv, Place, Analyzed
  <1>2. /\ instruction_order' = Append(instruction_order, i)
        /\ pending_defs' = [u \in Inst |-> IF u \in uses[i]
                                           THEN pending_defs[u] \ {i}
                                           ELSE pending_defs[u]]
        /\ ready' = (ready \ {i}) \cup Released(i)
        /\ operands' = operands /\ uses' = uses /\ cursor' = cursor
    BY DEF Place
  <1>3. TypeOK'
    BY <1>1, <1>2 DEF TypeOK, Outcomes, Released
  <1>4. \A j : Deps(j)' = Deps(j) /\ BadBackedge(j)' = BadBackedge(j)
    BY <1>2, DepsStable
  <1>5. /\ Len(instruction_order') = Len(instruction_order) + 1
        /\ \A k \in 1..Len(instruction_order) :
              instruction_order'[k] = instruction_order[k]
        /\ instruction_order'[Len(instruction_order) + 1] = i
        /\ Len(instruction_order) \in Nat
    BY <1>1, <1>2 DEF TypeOK
  <1>6. Placed' = Placed \cup {i}
    <2>1. \A k : k \in 1..(Len(instruction_order) + 1) <=>
              k = Len(instruction_order) + 1 \/ k \in 1..Len(instruction_order)
      BY <1>5
    <2> QED
      BY <1>5, <2>1 DEF Placed
  <1>7. i \notin Placed /\ Deps(i) \subseteq Placed
    BY <1>1 DEF MapsInv
  <1>8. OrderInv'
    <2>1. ASSUME NEW k \in 1..Len(instruction_order')
          PROVE  Deps(instruction_order'[k]) \subseteq
                     {instruction_order'[j] : j \in 1..(k - 1)}
      <3>1. CASE k = Len(instruction_order) + 1
        <4>1. {instruction_order'[j] : j \in 1..(k - 1)} = Placed
          BY <1>5, <3>1 DEF Placed
        <4> QED
          BY <1>4, <1>5, <1>7, <3>1, <4>1
      <3>2. CASE k \in 1..Len(instruction_order)
        <4>1. {instruction_order'[j] : j \in 1..(k - 1)}
                = {instruction_order[j] : j \in 1..(k - 1)}
          BY <1>5, <3>2
        <4> QED
          BY <1>1, <1>4, <1>5, <3>2, <4>1 DEF OrderInv
      <3> QED
        BY <1>5, <2>1, <3>1, <3>2
    <2>2. ASSUME NEW j \in 1..Len(instruction_order'),
                 NEW k \in 1..Len(instruction_order'),
                 instruction_order'[j] = instruction_order'[k]
          PROVE  j = k
      <3>1. \A m \in 1..Len(instruction_order) : instruction_order[m] # i
        BY <1>7 DEF Placed
      <3> QED
        BY <1>1, <1>5, <2>2, <3>1 DEF OrderInv
    <2> QED
      BY <1>4, <2>1, <2>2 DEF OrderInv
  <1>9. MapsInv'
    <2>1. \A u \in Inst : u \in uses[i] <=> i \in Deps(u)
      BY <1>1 DEF MapsInv
    <2>2. \A u \in Inst : pending_defs'[u] = Deps(u)' \ Placed'
      BY <1>1, <1>2, <1>4, <1>6, <2>1 DEF MapsInv
    <2>3. \A u \in Inst : u \in Released(i)
                            <=> i \in Deps(u) /\ Deps(u) \subseteq Placed'
      BY <1>1, <1>6, <2>1 DEF Released, MapsInv
    <2>4. \A u \in Inst : u \in ready' <=> /\ u \notin Placed'
                                           /\ Deps(u)' \subseteq Placed'
      <3> SUFFICES ASSUME NEW u \in Inst
                   PROVE u \in ready' <=> /\ u \notin Placed'
                                          /\ Deps(u) \subseteq Placed'
        BY <1>4
      <3>1. u \in ready <=> u \notin Placed /\ Deps(u) \subseteq Placed
        BY <1>1 DEF MapsInv
      <3>2. u \in ready' <=> (u \in ready /\ u # i) \/ u \in Released(i)
        BY <1>2
      <3>3. u \in Placed => Deps(u) \subseteq Placed
        <4> SUFFICES ASSUME u \in Placed PROVE Deps(u) \subseteq Placed
          OBVIOUS
        <4>1. PICK k \in 1..Len(instruction_order) : u = instruction_order[k]
          BY DEF Placed
        <4>2. {instruction_order[j] : j \in 1..(k - 1)} \subseteq Placed
          BY <1>5, <4>1 DEF Placed
        <4> QED
          BY <1>1, <4>1, <4>2 DEF OrderInv
      <3>4. u \in Released(i) => u \notin Placed'
        BY <1>6, <1>7, <2>3, <3>3
      <3> QED
        BY <1>6, <2>3, <3>1, <3>2, <3>4
    <2> QED
      BY <1>1, <1>2, <1>4, <2>2, <2>4 DEF MapsInv
  <1> QED
    BY <1>1, <1>3, <1>8, <1>9 DEF IInv

\* IInv is inductive.
LEMMA StepIInv == IInv /\ [Next]_vars => IInv'
  <1> SUFFICES ASSUME IInv, [Next]_vars PROVE IInv'
    OBVIOUS
  <1>1. CASE Analyze
    BY <1>1, AnalyzeStep
  <1>2. ASSUME NEW i \in Inst, Place(i) PROVE IInv'
    BY <1>2, PlaceStep
  <1>3. CASE Finish
    <2>1. operands' = operands
      BY <1>3 DEF Finish
    <2>2. \A j : Deps(j)' = Deps(j) /\ BadBackedge(j)' = BadBackedge(j)
      BY <2>1, DepsStable
    <2>3. /\ pc = "place" /\ ready = {} /\ pc' = Outcome
          /\ pc' \in {"done", "cycle"}
          /\ cursor' = cursor /\ pending_defs' = pending_defs
          /\ uses' = uses /\ ready' = ready
          /\ instruction_order' = instruction_order
      BY <1>3 DEF Finish, Outcome
    <2>4. Placed' = Placed /\ Analyzed' = Analyzed
          /\ StillPending' = StillPending
      BY <2>3 DEF Placed, Analyzed, StillPending
    <2>5. MapsInv'
      BY <2>2, <2>3, <2>4 DEF IInv, MapsInv
    <2>6. OrderInv'
      BY <2>2, <2>3 DEF IInv, OrderInv
    <2>7. TypeOK'
      BY <2>1, <2>3 DEF IInv, TypeOK, Outcomes
    <2> QED
      BY <2>3, <2>4, <2>5, <2>6, <2>7 DEF IInv, Outcome
  <1>4. CASE UNCHANGED vars
    <2>1. \A j : Deps(j)' = Deps(j) /\ BadBackedge(j)' = BadBackedge(j)
      BY <1>4, DepsStable DEF vars
    <2>2. /\ pc' = pc /\ cursor' = cursor /\ pending_defs' = pending_defs
          /\ uses' = uses /\ ready' = ready /\ operands' = operands
          /\ instruction_order' = instruction_order
      BY <1>4 DEF vars
    <2>3. Placed' = Placed /\ Analyzed' = Analyzed
          /\ StillPending' = StillPending
      BY <2>2 DEF Placed, Analyzed, StillPending
    <2>4. pc # "fatal" => MapsInv'
      BY <2>1, <2>2, <2>3 DEF IInv, MapsInv
    <2>5. OrderInv'
      <3>1. OrderInv
        BY DEF IInv
      <3> QED
        BY <2>1, <2>2, <3>1 DEF OrderInv
    <2>6. TypeOK'
      BY <2>2 DEF IInv, TypeOK
    <2> QED
      BY <2>2, <2>3, <2>4, <2>5, <2>6 DEF IInv
  <1> QED
    BY <1>1, <1>2, <1>3, <1>4 DEF Next, Ended

\* IInv holds in every reachable state.
LEMMA Inductive == Spec => []IInv
  BY InitIInv, StepIInv, PTL DEF Spec

-----------------------------------------------------------------------------
\* The state of calculate() is well typed for every function.
THEOREM TypeCorrect == Spec => []TypeOK
  <1>1. IInv => TypeOK
    BY DEF IInv
  <1> QED
    BY <1>1, Inductive, PTL

\* Every instruction is placed behind all it needs, for every function and
\* every choice of ready instructions.
THEOREM DefsFirst == Spec => []DefsBeforeUses
  <1>1. IInv => DefsBeforeUses
    <2> SUFFICES ASSUME IInv, NEW k \in 1..Len(instruction_order)
                 PROVE  Needed(instruction_order[k]) \subseteq
                          {instruction_order[j] : j \in 1..(k - 1)}
      BY DEF DefsBeforeUses
    <2>1. pc \notin {"analyze", "fatal"}
      BY DEF IInv
    <2>2. instruction_order[k] \in Inst
      BY DEF IInv, TypeOK
    <2>3. ~BadBackedge(instruction_order[k])
      BY <2>1, <2>2 DEF IInv, MapsInv, Analyzed
    <2> QED
      BY <2>3, NeededIsDep DEF IInv, OrderInv
  <1> QED
    BY <1>1, Inductive, PTL

\* No instruction is placed twice or ready after it was placed.
THEOREM PlacedOnce == Spec => []NoneTwice
  <1>1. IInv => NoneTwice
    BY DEF IInv, OrderInv, MapsInv, NoneTwice, TypeOK
  <1> QED
    BY <1>1, Inductive, PTL

\* When calculate() returns, the order holds every instruction.
THEOREM Complete == Spec => []CompleteWhenDone
  <1>1. IInv => CompleteWhenDone
    <2> SUFFICES ASSUME IInv, pc = "done" PROVE Placed = Inst
      BY DEF CompleteWhenDone
    <2>1. Analyzed = Inst /\ MapsInv /\ ready = {} /\ TypeOK
          /\ StillPending = {}
      BY DEF IInv, Analyzed
    <2>2. \A i \in Inst : pending_defs[i] = {}
      BY <2>1 DEF StillPending
    <2>3. \A i \in Inst : Deps(i) \subseteq Placed
      BY <2>1, <2>2 DEF MapsInv
    <2>4. \A i \in Inst : i \in Placed
      BY <2>1, <2>3 DEF MapsInv
    <2>5. Placed \subseteq Inst
      BY <2>1 DEF TypeOK, Placed
    <2> QED
      BY <2>4, <2>5
  <1> QED
    BY <1>1, Inductive, PTL

\* A reported cycle is a set of instructions each waiting for another of it.
THEOREM RealCycle == Spec => []CycleIsReal
  <1>1. IInv => CycleIsReal
    <2> SUFFICES ASSUME IInv, pc = "cycle"
                 PROVE  /\ StillPending # {}
                        /\ \A i \in StillPending :
                              Deps(i) \cap StillPending # {}
      BY DEF CycleIsReal
    <2>1. Analyzed = Inst /\ MapsInv /\ ready = {} /\ TypeOK
          /\ StillPending # {}
      BY DEF IInv, Analyzed
    <2>2. \A d \in Inst : d \notin Placed => pending_defs[d] # {}
      BY <2>1 DEF MapsInv
    <2>3. ASSUME NEW i \in StillPending
          PROVE  Deps(i) \cap StillPending # {}
      <3>1. i \in Inst /\ pending_defs[i] # {}
        BY DEF StillPending
      <3>2. PICK d \in pending_defs[i] : TRUE
        BY <3>1
      <3>3. d \in Deps(i) /\ d \notin Placed
        BY <2>1, <3>1, <3>2 DEF MapsInv
      <3>4. d \in Inst
        BY <2>1, <3>1, <3>3, DepsType
      <3> QED
        BY <2>2, <3>3, <3>4 DEF StillPending
    <2> QED
      BY <2>1, <2>3
  <1> QED
    BY <1>1, Inductive, PTL
=============================================================================
