--------------------------- MODULE ModuleEntryProofs --------------------------
(***************************************************************************)
(* Proofs about ModuleEntry for every module: which forks become calls of  *)
(* which clones, when the compiler gives up, and that the order of the     *)
(* pointer-keyed maps does not matter.                                     *)
(***************************************************************************)
EXTENDS ModuleEntry, TLAPS

Phases == {"find", "insert", "initialize", "register", "vectorize", "done", "fatal"}
Found == {"insert", "initialize", "register", "vectorize", "done"}
Cloned == {"register", "vectorize", "done"}

MetadataType ==
    [populated : BOOLEAN, gang_num : Nat, gang_size : Nat, grid_size : Nat, sub_name : Nat]

-----------------------------------------------------------------------------
(* The inductive invariant *)

TypeInv ==
    /\ program \in Programs
    /\ phase \in Phases
    /\ block \in 1..(Len(program.blocks) + 1)
    /\ inst \in Nat \ {0}
    /\ block \in DOMAIN program.blocks => inst \in 1..(Len(CallsIn(block)) + 1)
    /\ phase \in Found => block = Len(program.blocks) + 1
    /\ metadata \in MetadataType

\* The metadata is what the calls of the region have set so far.
MetadataInv ==
    phase = "find" /\ block \in DOMAIN program.blocks =>
        /\ metadata.populated <=> Region(block, inst) # {}
        /\ \A op \in Sets :
              Given(block, inst, op) = IF metadata[op] = NoValue THEN {} ELSE {metadata[op]}

\* findPsimCalls has left call i of block b behind.
Passed(b, i) ==
    /\ b \in DOMAIN program.blocks /\ i \in DOMAIN CallsIn(b)
    /\ b < block \/ (b = block /\ i < inst)

PassedInv ==
    /\ \A b \in DOMAIN program.blocks : \A i \in DOMAIN CallsIn(b) :
          Passed(b, i) => WellFormedAt(b, i)
    /\ \A b \in DOMAIN program.blocks :
          b < block => Region(b, Len(CallsIn(b)) + 1) = {}

HasGrid(b, i) == IsFork(b, i) /\ Region(b, i) # {}

IsGridOf(g, b, i) ==
    /\ g.call = <<b, i>>
    /\ g.omp_func = CallsIn(b)[i].arg
    /\ g.vlen \in Given(b, i, "gang_size")
    /\ Given(b, i, "gang_num") \subseteq {g.gang_num}
    /\ g.grid_size \in IF Given(b, i, "grid_size") = {} THEN Given(b, i, "gang_size")
                       ELSE Given(b, i, "grid_size")

GridsInv ==
    /\ \A g \in grids : \E b \in DOMAIN program.blocks : \E i \in DOMAIN CallsIn(b) :
          Passed(b, i) /\ HasGrid(b, i) /\ IsGridOf(g, b, i)
    /\ \A b \in DOMAIN program.blocks : \A i \in DOMAIN CallsIn(b) :
          Passed(b, i) /\ HasGrid(b, i) => \E g \in grids : g.call = <<b, i>>
    /\ \A g, h \in grids : g.call = h.call => g = h

IsLaunchOf(l, g) ==
    l = [call |-> g.call, callee |-> g.omp_func, lanes |-> l.lanes,
         gang_num |-> g.gang_num, grid_size |-> g.grid_size]

LaunchesInv ==
    /\ phase = "find" => launches = {} /\ entry_points = {}
    /\ \A l \in launches : \E g \in grids : IsLaunchOf(l, g)
    /\ \A l, m \in launches : l.call = m.call => l = m
    /\ \A l \in launches : \E e \in entry_points : e.function = l.callee
    /\ \A l \in launches : \A e \in entry_points :
          l.callee \in vectorized /\ e.function = l.callee => l.lanes = e.vlen
    /\ phase \in Found \ {"insert"} => \A g \in grids : Inserted(g)

EntryPointsInv ==
    /\ \A e, f \in entry_points : e.function = f.function => e = f
    /\ \A e \in entry_points : \E g \in grids : g.omp_func = e.function /\ g.vlen = e.vlen

MapsInv ==
    /\ vectorized # {} => phase \in {"vectorize", "done", "fatal"}
    /\ phase = "done" => vectorized = DOMAIN vfinfo_map
    /\ phase \in Cloned =>
          /\ DOMAIN vfinfo_map = {F \in Functions : VFABIs(F) # {}}
          /\ \A F \in DOMAIN vfinfo_map : vfinfo_map[F] = VFABIs(F)
    /\ phase \in {"find", "insert", "initialize"} => registered = {} /\ calls = {}
    /\ resolver_map =
          [F \in Functions |-> IF F \in registered THEN AllVariants(F) ELSE {}]
    /\ phase \in {"vectorize", "done"} => registered = DOMAIN vfinfo_map

-----------------------------------------------------------------------------
(* Blocks and regions *)

CallRecords == [op : Sets \cup {"fork", "other"}, arg : Nat]

\* The calls of a module are typed, settings have a value, and forked and
\* called functions exist.
LEMMA ProgramFacts ==
    ASSUME program \in Programs
    PROVE  /\ Len(program.blocks) \in Nat
           /\ DOMAIN program.blocks = 1..Len(program.blocks)
           /\ \A b \in DOMAIN program.blocks :
                 /\ Len(CallsIn(b)) \in Nat
                 /\ DOMAIN CallsIn(b) = 1..Len(CallsIn(b))
                 /\ \A i \in DOMAIN CallsIn(b) :
                       /\ CallsIn(b)[i] \in CallRecords
                       /\ CallsIn(b)[i].op \in Sets => CallsIn(b)[i].arg \in Nat \ {NoValue}
                       /\ IsFork(b, i) => CallsIn(b)[i].arg \in Functions
           /\ \A F \in Functions : \A s \in program.sites[F] : s.callee \in Functions
<1>1. ProgramOK(program)
  BY ModuleAssumption
<1>2. program.blocks \in Seq(Seq(CallRecords))
  BY <1>1 DEF ProgramOK, CallRecords
<1>3. \A b \in DOMAIN program.blocks : CallsIn(b) \in Seq(CallRecords)
  BY <1>2 DEF CallsIn
<1>4. \A b \in DOMAIN program.blocks : \A i \in DOMAIN CallsIn(b) : CallsIn(b)[i] \in CallRecords
  BY <1>3
<1>5. \A b \in DOMAIN program.blocks : \A i \in DOMAIN CallsIn(b) :
         CallsIn(b)[i].op \in Sets => CallsIn(b)[i].arg \in Nat \ {NoValue}
  BY <1>1, <1>4 DEF ProgramOK, CallsIn, CallRecords
<1>6. \A b \in DOMAIN program.blocks : \A i \in DOMAIN CallsIn(b) :
         IsFork(b, i) => CallsIn(b)[i].arg \in Functions
  BY <1>1 DEF ProgramOK, CallsIn, IsFork, Functions
<1>7. \A F \in Functions : \A s \in program.sites[F] : s.callee \in Functions
  BY <1>1 DEF ProgramOK, Functions
<1> QED
  BY <1>2, <1>3, <1>4, <1>5, <1>6, <1>7

\* A region starts empty, grows by the settings and ends with a fork.
LEMMA RegionSteps ==
    ASSUME program \in Programs, NEW b \in DOMAIN program.blocks
    PROVE  /\ Region(b, 1) = {}
           /\ \A i \in DOMAIN CallsIn(b) :
                 Region(b, i + 1) = IF CallsIn(b)[i].op \in Sets THEN Region(b, i) \cup {i}
                                    ELSE IF IsFork(b, i) THEN {} ELSE Region(b, i)
<1>1. /\ Len(CallsIn(b)) \in Nat
      /\ DOMAIN CallsIn(b) = 1..Len(CallsIn(b))
  BY ProgramFacts
<1>2. Region(b, 1) = {}
  BY <1>1 DEF Region
<1>3. ASSUME NEW i \in DOMAIN CallsIn(b)
      PROVE  Region(b, i + 1) = IF CallsIn(b)[i].op \in Sets THEN Region(b, i) \cup {i}
                                ELSE IF IsFork(b, i) THEN {} ELSE Region(b, i)
  <2>1. \A j \in DOMAIN CallsIn(b) : j < i + 1 <=> j < i \/ j = i
    BY <1>1
  <2>2. \A j \in DOMAIN CallsIn(b) :
           j < i + 1 => j..((i + 1) - 1) = (j..(i - 1)) \cup {i}
    BY <1>1
  <2>3. \A j \in DOMAIN CallsIn(b) :
           j \in Region(b, i + 1) <=> /\ j < i + 1 /\ CallsIn(b)[j].op \in Sets
                                      /\ \A k \in j..(i - 1) : ~IsFork(b, k)
                                      /\ ~IsFork(b, i)
    BY <2>2 DEF Region
  <2>4. CallsIn(b)[i].op \in Sets => ~IsFork(b, i)
    BY DEF IsFork, Sets
  <2>5. \A k \in i..(i - 1) : FALSE
    BY <1>1
  <2>6. Region(b, i + 1) \subseteq DOMAIN CallsIn(b) /\ Region(b, i) \subseteq DOMAIN CallsIn(b)
    BY DEF Region
  <2>7. \A j \in DOMAIN CallsIn(b) :
           j \in Region(b, i) <=> /\ j < i /\ CallsIn(b)[j].op \in Sets
                                  /\ \A k \in j..(i - 1) : ~IsFork(b, k)
    BY DEF Region
  <2>8. CASE CallsIn(b)[i].op \in Sets
    BY <1>1, <2>1, <2>3, <2>4, <2>5, <2>6, <2>7, <2>8
  <2>9. CASE CallsIn(b)[i].op \notin Sets
    BY <1>1, <2>1, <2>3, <2>6, <2>7, <2>9
  <2> QED
    BY <2>8, <2>9
<1> QED
  BY <1>2, <1>3

\* What is given grows with the settings.
LEMMA GivenSteps ==
    ASSUME program \in Programs, NEW b \in DOMAIN program.blocks, NEW op
    PROVE  /\ Given(b, 1, op) = {}
           /\ \A i \in DOMAIN CallsIn(b) :
                 /\ CallsIn(b)[i].op \in Sets =>
                       Given(b, i + 1, op) = Given(b, i, op) \cup
                           (IF CallsIn(b)[i].op = op THEN {CallsIn(b)[i].arg} ELSE {})
                 /\ CallsIn(b)[i].op \notin Sets =>
                       Given(b, i + 1, op) = IF IsFork(b, i) THEN {} ELSE Given(b, i, op)
  BY RegionSteps DEF Given

\* Steps that leave the program alone leave its regions alone.
LEMMA SameProgram ==
    ASSUME program' = program
    PROVE  /\ \A b, i : Region(b, i)' = Region(b, i)
           /\ \A b, i, op : Given(b, i, op)' = Given(b, i, op)
           /\ \A b, i : IsFork(b, i)' = IsFork(b, i)
           /\ \A b, i : HasGrid(b, i)' = HasGrid(b, i)
           /\ \A b, i : WellFormedAt(b, i)' = WellFormedAt(b, i)
           /\ \A b : CallsIn(b)' = CallsIn(b)
           /\ WellFormed' = WellFormed
  BY DEF Region, Given, IsFork, HasGrid, WellFormedAt, CallsIn, WellFormed

-----------------------------------------------------------------------------
(* findPsimCalls *)

FindInv == TypeInv /\ MetadataInv /\ PassedInv /\ GridsInv

\* Once findPsimCalls is left, what it found stays.
LEMMA AfterFind ==
    ASSUME FindInv, UNCHANGED <<program, finding>>, phase' \in Phases \ {"find"},
           phase' \in Found => block = Len(program.blocks) + 1
    PROVE  FindInv'
<1>1. /\ program' = program /\ block' = block /\ inst' = inst
      /\ metadata' = metadata /\ grids' = grids
  BY DEF finding
<1>2. TypeInv'
  BY <1>1 DEF FindInv, TypeInv, CallsIn
<1>3. MetadataInv'
  BY DEF MetadataInv
<1>4. \A b, i : Passed(b, i)' = Passed(b, i)
  BY <1>1 DEF Passed, CallsIn
<1>5. PassedInv'
  BY <1>1, <1>4, SameProgram DEF FindInv, PassedInv
<1>6. \A g, b, i : IsGridOf(g, b, i)' = IsGridOf(g, b, i)
  BY <1>1, SameProgram DEF IsGridOf
<1>7. GridsInv'
  BY <1>1, <1>4, <1>6, SameProgram DEF FindInv, GridsInv
<1> QED
  BY <1>2, <1>3, <1>5, <1>7 DEF FindInv

\* Going past a call.
LEMMA NextCall ==
    ASSUME FindInv, phase = "find", block \in DOMAIN program.blocks,
           inst \in DOMAIN CallsIn(block), NextInst,
           metadata' \in MetadataType, WellFormedAt(block, inst)
    PROVE  /\ TypeInv'
           /\ PassedInv'
           /\ \A b, i : Passed(b, i)' <=> Passed(b, i) \/ (b = block /\ i = inst)
           /\ ~Passed(block, inst)
<1>1. /\ program' = program /\ phase' = phase /\ block' = block /\ inst' = inst + 1
  BY DEF NextInst
<1>2. /\ program \in Programs /\ block \in 1..(Len(program.blocks) + 1)
      /\ inst \in Nat \ {0}
  BY DEF FindInv, TypeInv
<1>3. /\ Len(program.blocks) \in Nat
      /\ \A b \in DOMAIN program.blocks : Len(CallsIn(b)) \in Nat /\ DOMAIN CallsIn(b) = 1..Len(CallsIn(b))
      /\ DOMAIN program.blocks = 1..Len(program.blocks)
  BY <1>2, ProgramFacts
<1>4. TypeInv'
  BY <1>1, <1>2, <1>3, SameProgram DEF FindInv, TypeInv, Found, Phases
<1>5. \A b, i : Passed(b, i)' <=> Passed(b, i) \/ (b = block /\ i = inst)
  BY <1>1, <1>2, <1>3 DEF Passed, CallsIn
<1>6. ~Passed(block, inst)
  BY <1>2, <1>3 DEF Passed
<1>7. PassedInv'
  BY <1>1, <1>5, SameProgram DEF FindInv, PassedInv
<1> QED
  BY <1>4, <1>5, <1>6, <1>7

\* A setting is recorded, unless there is one of its kind already.
LEMMA SettingStep ==
    ASSUME FindInv, NEW op \in Sets, At(op), metadata[op] = NoValue, Record(op),
           op = "gang_size" => Current.arg # NotConstant
    PROVE  FindInv'
<1>1. /\ phase = "find" /\ block \in DOMAIN program.blocks
      /\ inst \in DOMAIN CallsIn(block) /\ CallsIn(block)[inst].op = op
  BY DEF At, Current
<1>2. /\ metadata' = [metadata EXCEPT ![op] = CallsIn(block)[inst].arg, !.populated = TRUE]
      /\ grids' = grids /\ NextInst
  BY DEF Record, Current
<1>3. /\ program \in Programs /\ metadata \in MetadataType
      /\ inst \in Nat
  BY DEF FindInv, TypeInv
<1>4. CallsIn(block)[inst].arg \in Nat \ {NoValue}
  BY <1>1, <1>3, ProgramFacts
<1>5. metadata' \in MetadataType
  BY <1>2, <1>3, <1>4 DEF MetadataType, Sets
<1>6. Given(block, inst, op) = {}
  BY <1>1 DEF FindInv, MetadataInv
<1>7. WellFormedAt(block, inst)
  BY <1>1, <1>6 DEF WellFormedAt, Current, Sets
<1>8. /\ TypeInv' /\ PassedInv'
      /\ \A b, i : Passed(b, i)' <=> Passed(b, i) \/ (b = block /\ i = inst)
  BY <1>1, <1>2, <1>5, <1>7, NextCall
<1>9. /\ program' = program /\ block' = block /\ inst' = inst + 1 /\ phase' = phase
  BY <1>2 DEF NextInst
<1>10. MetadataInv'
  <2>1. metadata'.populated = TRUE
    BY <1>2, <1>3 DEF MetadataType
  <2>2. Region(block, inst + 1) = Region(block, inst) \cup {inst}
    BY <1>1, <1>3, RegionSteps
  <2>3. \A q \in Sets : metadata'[q] = IF q = op THEN CallsIn(block)[inst].arg ELSE metadata[q]
    BY <1>2, <1>3 DEF MetadataType, Sets
  <2>4. \A q \in Sets : Given(block, inst + 1, q) =
            Given(block, inst, q) \cup (IF op = q THEN {CallsIn(block)[inst].arg} ELSE {})
    BY <1>1, <1>3, GivenSteps
  <2>5. \A q \in Sets : Given(block, inst, q) = IF metadata[q] = NoValue THEN {} ELSE {metadata[q]}
    BY <1>1 DEF FindInv, MetadataInv
  <2>6. ASSUME NEW q \in Sets
        PROVE  Given(block, inst + 1, q) = IF metadata'[q] = NoValue THEN {} ELSE {metadata'[q]}
    <3>1. CASE q = op
      BY <1>4, <1>6, <2>3, <2>4, <3>1
    <3>2. CASE q # op
      BY <2>3, <2>4, <2>5, <3>2
    <3> QED
      BY <3>1, <3>2
  <2> QED
    BY <1>9, <2>1, <2>2, <2>6, SameProgram DEF MetadataInv
<1>11. GridsInv'
  <2>1. ~HasGrid(block, inst)
    BY <1>1 DEF HasGrid, IsFork, Sets
  <2>2. \A g, b, i : IsGridOf(g, b, i)' = IsGridOf(g, b, i)
    BY <1>9, SameProgram DEF IsGridOf
  <2> QED
    BY <1>2, <1>8, <1>9, <2>1, <2>2, SameProgram DEF FindInv, GridsInv
<1> QED
  BY <1>8, <1>10, <1>11 DEF FindInv

\* A fork closes the region, and is a grid if there is one.
LEMMA ForkStep ==
    ASSUME FindInv, Fork, phase' # "fatal"
    PROVE  FindInv'
<1>1. /\ phase = "find" /\ block \in DOMAIN program.blocks
      /\ inst \in DOMAIN CallsIn(block) /\ IsFork(block, inst)
  BY DEF Fork, At, Current, IsFork
<1>2. /\ program \in Programs /\ metadata \in MetadataType
      /\ block \in Nat /\ inst \in Nat
  BY DEF FindInv, TypeInv
<1>3. /\ metadata.populated <=> Region(block, inst) # {}
      /\ \A op \in Sets :
            Given(block, inst, op) = IF metadata[op] = NoValue THEN {} ELSE {metadata[op]}
  BY <1>1 DEF FindInv, MetadataInv
<1>4. NextInst
  BY DEF Fork, Fatal
<1>5. /\ program' = program /\ block' = block /\ inst' = inst + 1 /\ phase' = phase
  BY <1>4 DEF NextInst
<1>6. /\ Region(block, inst + 1) = {}
      /\ \A op \in Sets : Given(block, inst + 1, op) = {}
  <2>1. CallsIn(block)[inst].op \notin Sets
    BY <1>1 DEF IsFork, Sets
  <2> QED
    BY <1>1, <1>2, <2>1, RegionSteps, GivenSteps
<1>7. \A g, b, i : IsGridOf(g, b, i)' = IsGridOf(g, b, i)
  BY <1>5, SameProgram DEF IsGridOf
<1>8. CASE ~metadata.populated
  <2>1. metadata' = metadata /\ grids' = grids
    BY <1>8 DEF Fork
  <2>2. Region(block, inst) = {} /\ ~HasGrid(block, inst)
    BY <1>3, <1>8 DEF HasGrid
  <2>3. WellFormedAt(block, inst)
    BY <1>1, <2>2 DEF WellFormedAt, IsFork, Sets
  <2>4. /\ TypeInv' /\ PassedInv'
        /\ \A b, i : Passed(b, i)' <=> Passed(b, i) \/ (b = block /\ i = inst)
    BY <1>1, <1>2, <1>4, <2>1, <2>3, NextCall
  <2>5. \A op \in Sets : metadata[op] = NoValue
    BY <1>3, <2>2 DEF Given
  <2>6. MetadataInv'
    BY <1>5, <1>6, <1>8, <2>1, <2>5, SameProgram DEF MetadataInv
  <2>7. GridsInv'
    BY <1>5, <1>7, <2>1, <2>2, <2>4, SameProgram DEF FindInv, GridsInv
  <2> QED
    BY <2>4, <2>6, <2>7 DEF FindInv
<1>9. CASE metadata.populated
  <2>1. /\ metadata.gang_size # NoValue
        /\ grids' = grids \cup {Grid}
        /\ metadata' = EmptyMetadata
    BY <1>9 DEF Fork, Fatal
  <2>2. Region(block, inst) # {} /\ HasGrid(block, inst)
    BY <1>1, <1>3, <1>9 DEF HasGrid
  <2>3. /\ Given(block, inst, "gang_size") = {metadata.gang_size}
        /\ Given(block, inst, "gang_num") \subseteq {metadata.gang_num}
        /\ Given(block, inst, "grid_size") =
              IF metadata.grid_size = NoValue THEN {} ELSE {metadata.grid_size}
    BY <1>3, <2>1 DEF Sets
  <2>4. WellFormedAt(block, inst)
    BY <1>1, <2>3 DEF WellFormedAt, IsFork, Sets
  <2>5. metadata' \in MetadataType
    BY <2>1 DEF EmptyMetadata, MetadataType, NoValue
  <2>6. /\ TypeInv' /\ PassedInv'
        /\ \A b, i : Passed(b, i)' <=> Passed(b, i) \/ (b = block /\ i = inst)
        /\ ~Passed(block, inst)
    BY <1>1, <1>4, <2>4, <2>5, NextCall
  <2>7. MetadataInv'
    BY <1>5, <1>6, <2>1, SameProgram DEF MetadataInv, EmptyMetadata, Sets
  <2>8. IsGridOf(Grid, block, inst)
    BY <2>3 DEF IsGridOf, Grid, Current
  <2>9. GridsInv'
    <3>1. \A g \in grids' : \E b \in DOMAIN program.blocks : \E i \in DOMAIN CallsIn(b) :
             Passed(b, i)' /\ HasGrid(b, i) /\ IsGridOf(g, b, i)
      BY <1>1, <2>1, <2>2, <2>6, <2>8 DEF FindInv, GridsInv
    <3>2. ASSUME NEW b \in DOMAIN program.blocks, NEW i \in DOMAIN CallsIn(b),
                 Passed(b, i)', HasGrid(b, i)
          PROVE  \E g \in grids' : g.call = <<b, i>>
      <4>1. CASE Passed(b, i)
        BY <2>1, <3>2, <4>1 DEF FindInv, GridsInv
      <4>2. CASE b = block /\ i = inst
        BY <2>1, <2>8, <4>2 DEF IsGridOf
      <4> QED
        BY <2>6, <3>2, <4>1, <4>2
    <3>3. \A g \in grids : g.call # Grid.call
      BY <2>6 DEF FindInv, GridsInv, IsGridOf, Grid
    <3>4. \A g, h \in grids' : g.call = h.call => g = h
      BY <2>1, <3>3 DEF FindInv, GridsInv
    <3> QED
      BY <1>5, <1>7, <3>1, <3>2, <3>4, SameProgram DEF GridsInv
  <2> QED
    BY <2>6, <2>7, <2>9 DEF FindInv
<1> QED
  BY <1>8, <1>9

\* Every step of findPsimCalls preserves what is known of it.
LEMMA FindStep ==
    ASSUME FindInv, Find
    PROVE  FindInv'
<1>1. /\ program \in Programs /\ metadata \in MetadataType /\ block \in 1..(Len(program.blocks) + 1)
      /\ inst \in Nat /\ Len(program.blocks) \in Nat
      /\ DOMAIN program.blocks = 1..Len(program.blocks)
      /\ \A b \in DOMAIN program.blocks : Len(CallsIn(b)) \in Nat /\ DOMAIN CallsIn(b) = 1..Len(CallsIn(b))
  BY ProgramFacts DEF FindInv, TypeInv
<1>2. CASE Fatal
  <2>1. phase' = "fatal" /\ UNCHANGED <<program, finding>>
    BY <1>2 DEF Fatal
  <2> QED
    BY <2>1, AfterFind DEF Phases, Found
<1>3. CASE SetGridGangNum /\ ~Fatal
  BY <1>3, SettingStep DEF SetGridGangNum, Sets, Record
<1>4. CASE SetGridGangSize /\ ~Fatal
  BY <1>4, SettingStep DEF SetGridGangSize, Sets, Record
<1>5. CASE SetGridSize /\ ~Fatal
  BY <1>5, SettingStep DEF SetGridSize, Sets, Record
<1>6. CASE SetGridSubName /\ ~Fatal
  BY <1>6, SettingStep DEF SetGridSubName, Sets, Record
<1>7. CASE Fork /\ ~Fatal
  <2>1. phase = "find" /\ (NextInst => phase' = phase)
    BY <1>7 DEF Fork, At, NextInst
  <2> QED
    BY <1>7, <2>1, ForkStep DEF Fork
<1>8. CASE OtherCall
  <2>1. /\ phase = "find" /\ block \in DOMAIN program.blocks
        /\ inst \in DOMAIN CallsIn(block) /\ CallsIn(block)[inst].op = "other"
        /\ metadata' = metadata /\ grids' = grids /\ NextInst
    BY <1>8 DEF OtherCall, At, Current
  <2>2. /\ program' = program /\ block' = block /\ inst' = inst + 1 /\ phase' = phase
    BY <2>1 DEF NextInst
  <2>3. WellFormedAt(block, inst) /\ ~HasGrid(block, inst)
    BY <2>1 DEF WellFormedAt, HasGrid, IsFork, Sets
  <2>4. /\ TypeInv' /\ PassedInv'
        /\ \A b, i : Passed(b, i)' <=> Passed(b, i) \/ (b = block /\ i = inst)
    BY <1>1, <2>1, <2>3, NextCall
  <2>5. /\ Region(block, inst + 1) = Region(block, inst)
        /\ \A op \in Sets : Given(block, inst + 1, op) = Given(block, inst, op)
    <3>1. CallsIn(block)[inst].op \notin Sets /\ ~IsFork(block, inst)
      BY <2>1 DEF IsFork, Sets
    <3> QED
      BY <1>1, <2>1, <3>1, RegionSteps, GivenSteps
  <2>6. MetadataInv'
    BY <2>1, <2>2, <2>5, SameProgram DEF FindInv, MetadataInv
  <2>7. \A g, b, i : IsGridOf(g, b, i)' = IsGridOf(g, b, i)
    BY <2>2, SameProgram DEF IsGridOf
  <2>8. GridsInv'
    BY <2>1, <2>2, <2>3, <2>4, <2>7, SameProgram DEF FindInv, GridsInv
  <2> QED
    BY <2>4, <2>6, <2>8 DEF FindInv
<1>9. CASE EndBlock /\ ~Fatal
  <2>1. /\ phase = "find" /\ block \in DOMAIN program.blocks
        /\ inst = Len(CallsIn(block)) + 1 /\ ~metadata.populated
        /\ program' = program /\ block' = block + 1 /\ inst' = 1
        /\ metadata' = metadata /\ grids' = grids /\ phase' = phase
    BY <1>9 DEF EndBlock, EndOfBlock
  <2>2. \A b, i : Passed(b, i)' = Passed(b, i)
    <3>1. ASSUME NEW b \in DOMAIN program.blocks, NEW i \in DOMAIN CallsIn(b)
          PROVE  (b < block + 1 \/ (b = block + 1 /\ i < 1)) <=> (b < block \/ (b = block /\ i < inst))
      BY <1>1, <2>1
    <3> QED
      BY <2>1, <3>1 DEF Passed, CallsIn
  <2>3. Region(block, Len(CallsIn(block)) + 1) = {}
    BY <2>1 DEF FindInv, MetadataInv
  <2>4. TypeInv'
    BY <1>1, <2>1, SameProgram DEF FindInv, TypeInv, Found, Phases
  <2>5. PassedInv'
    <3>1. \A b \in DOMAIN program.blocks : b < block + 1 => b < block \/ b = block
      BY <1>1, <2>1
    <3> QED
      BY <2>1, <2>2, <2>3, <3>1, SameProgram DEF FindInv, PassedInv
  <2>6. \A op \in Sets : metadata[op] = NoValue
    BY <2>1, <2>3 DEF FindInv, MetadataInv, Given
  <2>7. \A b \in DOMAIN program.blocks :
           Region(b, 1) = {} /\ \A op \in Sets : Given(b, 1, op) = {}
    BY <1>1, RegionSteps, GivenSteps
  <2>8. MetadataInv'
    <3>1. SUFFICES ASSUME block + 1 \in DOMAIN program.blocks
                   PROVE  /\ ~metadata.populated
                          /\ Region(block + 1, 1) = {}
                          /\ \A op \in Sets : /\ Given(block + 1, 1, op) = {}
                                            /\ metadata[op] = NoValue
      BY <2>1, SameProgram DEF MetadataInv
    <3> QED
      BY <2>1, <2>6, <2>7, <3>1
  <2>9. \A g, b, i : IsGridOf(g, b, i)' = IsGridOf(g, b, i)
    BY <2>1, SameProgram DEF IsGridOf
  <2>10. GridsInv'
    BY <2>1, <2>2, <2>9, SameProgram DEF FindInv, GridsInv
  <2> QED
    BY <2>4, <2>5, <2>8, <2>10 DEF FindInv
<1>10. CASE EndFind
  BY <1>10, AfterFind DEF EndFind, Phases
<1> QED
  BY <1>2, <1>3, <1>4, <1>5, <1>6, <1>7, <1>8, <1>9, <1>10 DEF Find

\* A module that findPsimCalls has gone through is well formed.
LEMMA FoundWellFormed ==
    ASSUME FindInv, block = Len(program.blocks) + 1
    PROVE  WellFormed /\ \A b \in DOMAIN program.blocks : \A i \in DOMAIN CallsIn(b) : Passed(b, i)
<1>1. /\ Len(program.blocks) \in Nat
      /\ DOMAIN program.blocks = 1..Len(program.blocks)
  BY ProgramFacts DEF FindInv, TypeInv
<1>2. \A b \in DOMAIN program.blocks : b < block
  BY <1>1
<1>3. \A b \in DOMAIN program.blocks : \A i \in DOMAIN CallsIn(b) : Passed(b, i)
  BY <1>2 DEF Passed
<1> QED
  BY <1>2, <1>3 DEF FindInv, PassedInv, WellFormed

\* findPsimCalls gives up on modules only that are not.
LEMMA FindFatal ==
    ASSUME FindInv, Find, phase' = "fatal"
    PROVE  ~WellFormed
<1>1. phase = "find"
  BY DEF Find, At, SetGridGangNum, SetGridGangSize, SetGridSize, SetGridSubName, Fork,
         OtherCall, EndBlock, EndOfBlock, EndFind
<1>2. ASSUME NEW op \in Sets, At(op), metadata[op] # NoValue
      PROVE  ~WellFormed
  <2>1. /\ block \in DOMAIN program.blocks /\ inst \in DOMAIN CallsIn(block)
        /\ CallsIn(block)[inst].op = op
    BY <1>2 DEF At, Current
  <2>2. Given(block, inst, op) # {}
    BY <1>1, <1>2, <2>1 DEF FindInv, MetadataInv
  <2>3. ~WellFormedAt(block, inst)
    BY <2>1, <2>2 DEF WellFormedAt
  <2> QED
    BY <2>1, <2>3 DEF WellFormed
<1>3. CASE SetGridGangNum
  BY <1>1, <1>2, <1>3 DEF SetGridGangNum, Record, NextInst, Sets
<1>4. CASE SetGridGangSize
  <2>1. CASE Current.arg = NotConstant
    <3>1. /\ block \in DOMAIN program.blocks /\ inst \in DOMAIN CallsIn(block)
          /\ CallsIn(block)[inst].op = "gang_size" /\ CallsIn(block)[inst].arg = NotConstant
      BY <1>4, <2>1 DEF SetGridGangSize, At, Current
    <3>2. ~WellFormedAt(block, inst)
      BY <3>1 DEF WellFormedAt
    <3> QED
      BY <3>1, <3>2 DEF WellFormed
  <2>2. CASE Current.arg # NotConstant
    BY <1>1, <1>2, <1>4, <2>2 DEF SetGridGangSize, Record, NextInst, Sets
  <2> QED
    BY <2>1, <2>2
<1>5. CASE SetGridSize
  BY <1>1, <1>2, <1>5 DEF SetGridSize, Record, NextInst, Sets
<1>6. CASE SetGridSubName
  BY <1>1, <1>2, <1>6 DEF SetGridSubName, Record, NextInst, Sets
<1>7. CASE Fork
  <2>1. /\ block \in DOMAIN program.blocks /\ inst \in DOMAIN CallsIn(block)
        /\ CallsIn(block)[inst].op = "fork"
    BY <1>7 DEF Fork, At, Current
  <2>2. metadata.populated /\ metadata.gang_size = NoValue
    BY <1>1, <1>7 DEF Fork, NextInst
  <2>3. Region(block, inst) # {} /\ Given(block, inst, "gang_size") = {}
    BY <1>1, <2>1, <2>2 DEF FindInv, MetadataInv, Sets
  <2>4. ~WellFormedAt(block, inst)
    BY <2>1, <2>3 DEF WellFormedAt
  <2> QED
    BY <2>1, <2>4 DEF WellFormed
<1>8. CASE EndBlock
  <2>1. /\ block \in DOMAIN program.blocks /\ inst = Len(CallsIn(block)) + 1
        /\ metadata.populated
    BY <1>1, <1>8 DEF EndBlock, EndOfBlock
  <2>2. Region(block, inst) # {}
    BY <1>1, <2>1 DEF FindInv, MetadataInv
  <2> QED
    BY <2>1, <2>2 DEF WellFormed
<1> QED
  BY <1>1, <1>3, <1>4, <1>5, <1>6, <1>7, <1>8 DEF Find, OtherCall, EndFind, NextInst

-----------------------------------------------------------------------------
(* The steps behind findPsimCalls *)

LateInv ==
    /\ LaunchesInv /\ EntryPointsInv /\ MapsInv /\ ResolvedAgainstAll /\ RejectsExactly

\* Steps that leave the outlined bodies alone leave the VFABIs alone.
LEMMA SameEntryPoints ==
    ASSUME program' = program, entry_points' = entry_points
    PROVE  /\ Functions' = Functions
           /\ \A F : EntryPoint(F)' = EntryPoint(F)
           /\ \A F : VFABIs(F)' = VFABIs(F)
           /\ \A F : AllVariants(F)' = AllVariants(F)
  BY DEF Functions, EntryPoint, VFABIs, AllVariants, EntryVFABI

\* findPsimCalls touches nothing else.
LEMMA FindStepLate ==
    ASSUME FindInv, LateInv, Find
    PROVE  LateInv'
<1>1. /\ phase = "find" /\ phase' \in {"find", "insert", "fatal"} /\ program' = program
      /\ UNCHANGED <<inserting, vectorizing>>
      /\ phase' = "insert" => block = Len(program.blocks) + 1
  BY DEF Find, At, SetGridGangNum, SetGridGangSize, SetGridSize, SetGridSubName, Fork,
         OtherCall, EndBlock, EndOfBlock, EndFind, Record, NextInst, Fatal
<1>2. /\ launches' = launches /\ entry_points' = entry_points /\ vfinfo_map' = vfinfo_map
      /\ resolver_map' = resolver_map /\ registered' = registered
      /\ vectorized' = vectorized /\ calls' = calls
  BY <1>1 DEF inserting, vectorizing
<1>3. launches = {} /\ entry_points = {} /\ registered = {} /\ calls = {} /\ vectorized = {}
  BY <1>1 DEF LateInv, LaunchesInv, MapsInv
<1>4. LaunchesInv'
  BY <1>1, <1>2, <1>3 DEF LaunchesInv, Found
<1>5. EntryPointsInv'
  BY <1>2, <1>3 DEF EntryPointsInv
<1>6. MapsInv'
  BY <1>1, <1>2, <1>3, SameEntryPoints DEF LateInv, MapsInv, Cloned
<1>7. ResolvedAgainstAll'
  BY <1>2, <1>3 DEF ResolvedAgainstAll
<1>8. RejectsExactly'
  <2>1. phase' = "insert" => WellFormed
    BY <1>1, FoundWellFormed
  <2>2. phase' = "fatal" => ~WellFormed
    BY FindFatal
  <2> QED
    BY <1>1, <2>1, <2>2, SameProgram DEF RejectsExactly
<1> QED
  BY <1>4, <1>5, <1>6, <1>7, <1>8 DEF LateInv

\* insertPsimGrids
LEMMA InsertStepLate ==
    ASSUME FindInv, LateInv, Insert
    PROVE  LateInv'
<1>1. /\ phase = "insert" /\ program' = program /\ grids' = grids
      /\ vfinfo_map' = vfinfo_map /\ resolver_map' = resolver_map
      /\ registered' = registered /\ vectorized' = vectorized /\ calls' = calls
  BY DEF Insert, InsertGrid, EndInsert, finding, vectorizing
<1>2. registered = {} /\ calls = {} /\ vectorized = {} /\ WellFormed
  BY <1>1 DEF LateInv, MapsInv, RejectsExactly
<1>3. ASSUME NEW g \in grids, InsertGrid(g)
      PROVE  LateInv'
  <2> DEFINE l == [call |-> g.call, callee |-> g.omp_func, lanes |-> 1,
                   gang_num |-> g.gang_num, grid_size |-> g.grid_size]
  <2>1. /\ phase' = phase /\ launches' = launches \cup {l} /\ entry_points' = NewEntryPoints(g)
        /\ \A m \in launches : m.call # g.call
    BY <1>3 DEF InsertGrid, Inserted
  <2>2. IsLaunchOf(l, g)
    BY DEF IsLaunchOf
  <2>3. /\ entry_points \subseteq entry_points'
        /\ \E e \in entry_points' : e.function = g.omp_func
        /\ \A e \in entry_points' : e \in entry_points
              \/ (e = [function |-> g.omp_func, vlen |-> g.vlen]
                  /\ \A f \in entry_points : f.function # g.omp_func)
    <3> DEFINE new == [function |-> g.omp_func, vlen |-> g.vlen]
    <3>1. new.function = g.omp_func
      OBVIOUS
    <3>2. CASE \E e \in entry_points : e.function = g.omp_func
      BY <2>1, <3>2 DEF NewEntryPoints
    <3>3. CASE \A e \in entry_points : e.function # g.omp_func
      <4>1. entry_points' = entry_points \cup {new}
        BY <2>1, <3>3 DEF NewEntryPoints
      <4> HIDE DEF new
      <4>2. /\ entry_points \subseteq entry_points'
            /\ \E e \in entry_points' : e.function = g.omp_func
            /\ \A e \in entry_points' : e \in entry_points \/ e = new
        BY <3>1, <4>1
      <4> QED
        BY <3>3, <4>2 DEF new
    <3> QED
      BY <3>2, <3>3
  <2>4. LaunchesInv'
    <3>1. \A m \in launches' : \E h \in grids : IsLaunchOf(m, h)
      BY <2>1, <2>2 DEF LateInv, LaunchesInv
    <3>2. \A m, n \in launches' : m.call = n.call => m = n
      BY <2>1 DEF LateInv, LaunchesInv
    <3>3. \A m \in launches' : \E e \in entry_points' : e.function = m.callee
      BY <2>1, <2>3 DEF LateInv, LaunchesInv
    <3>4. \A m, h : IsLaunchOf(m, h)' = IsLaunchOf(m, h)
      BY DEF IsLaunchOf
    <3> QED
      BY <1>1, <1>2, <2>1, <3>1, <3>2, <3>3, <3>4 DEF LaunchesInv, Found
  <2>5. EntryPointsInv'
    BY <1>1, <2>3 DEF LateInv, EntryPointsInv
  <2>6. MapsInv'
    BY <1>1, <1>2, <2>1 DEF LateInv, MapsInv, Cloned, Functions
  <2>7. ResolvedAgainstAll'
    BY <1>1, <1>2 DEF ResolvedAgainstAll
  <2>8. RejectsExactly'
    BY <1>1, <1>2, <2>1, SameProgram DEF RejectsExactly
  <2> QED
    BY <2>4, <2>5, <2>6, <2>7, <2>8 DEF LateInv
<1>4. CASE EndInsert
  <2>1. /\ phase' = "initialize" /\ launches' = launches /\ entry_points' = entry_points
        /\ \A g \in grids : Inserted(g)
    BY <1>4 DEF EndInsert, inserting
  <2>2. LaunchesInv'
    BY <1>1, <1>2, <2>1 DEF LateInv, LaunchesInv, Inserted, IsLaunchOf
  <2>3. EntryPointsInv'
    BY <1>1, <2>1 DEF LateInv, EntryPointsInv
  <2>4. MapsInv'
    BY <1>1, <1>2, <2>1, SameEntryPoints DEF LateInv, MapsInv, Cloned
  <2>5. ResolvedAgainstAll'
    BY <1>1, <1>2 DEF ResolvedAgainstAll
  <2>6. RejectsExactly'
    BY <1>1, <1>2, <2>1, SameProgram DEF RejectsExactly
  <2> QED
    BY <2>2, <2>3, <2>4, <2>5, <2>6 DEF LateInv
<1> QED
  BY <1>3, <1>4 DEF Insert

\* initialize
LEMMA InitializeStepLate ==
    ASSUME FindInv, LateInv, Initialize
    PROVE  LateInv'
<1>1. /\ phase = "initialize" /\ phase' = "register" /\ program' = program /\ grids' = grids
      /\ launches' = launches /\ entry_points' = entry_points
      /\ vfinfo_map' = [F \in {F \in Functions : VFABIs(F) # {}} |-> VFABIs(F)]
      /\ resolver_map' = resolver_map
      /\ registered' = registered /\ vectorized' = vectorized /\ calls' = calls
  BY DEF Initialize, finding, inserting
<1>2. registered = {} /\ calls = {} /\ vectorized = {} /\ WellFormed
  BY <1>1 DEF LateInv, MapsInv, RejectsExactly
<1>3. LaunchesInv'
  BY <1>1, <1>2 DEF LateInv, LaunchesInv, Inserted, IsLaunchOf, Found
<1>4. EntryPointsInv'
  BY <1>1 DEF LateInv, EntryPointsInv
<1>5. MapsInv'
  BY <1>1, <1>2, SameEntryPoints DEF LateInv, MapsInv, Cloned
<1>6. ResolvedAgainstAll'
  BY <1>1, <1>2 DEF ResolvedAgainstAll
<1>7. RejectsExactly'
  BY <1>1, <1>2, SameProgram DEF RejectsExactly
<1> QED
  BY <1>3, <1>4, <1>5, <1>6, <1>7 DEF LateInv

\* The variants of one more function are added.
LEMMA RegisterStepLate ==
    ASSUME FindInv, LateInv, NEW F \in DOMAIN vfinfo_map, Register(F)
    PROVE  LateInv'
<1>1. /\ phase = "register" /\ phase' = phase /\ program' = program /\ grids' = grids
      /\ launches' = launches /\ entry_points' = entry_points
      /\ vfinfo_map' = vfinfo_map /\ vectorized' = vectorized /\ calls' = calls
      /\ registered' = registered \cup {F} /\ F \notin registered
      /\ resolver_map' = IF EntryPoint(F) # {} THEN resolver_map
                         ELSE [resolver_map EXCEPT ![F] = @ \cup vfinfo_map[F]]
  BY DEF Register, finding, inserting
<1>2. /\ F \in Functions /\ vfinfo_map[F] = VFABIs(F)
      /\ resolver_map = [G \in Functions |-> IF G \in registered THEN AllVariants(G) ELSE {}]
      /\ vectorized = {} /\ WellFormed
  BY <1>1 DEF LateInv, MapsInv, RejectsExactly, Cloned
<1>3. EntryPoint(F) = {} => vfinfo_map[F] = AllVariants(F)
  BY <1>2 DEF VFABIs, AllVariants
<1>4. EntryPoint(F) # {} => AllVariants(F) = {}
  BY DEF AllVariants
<1>5. resolver_map' = [G \in Functions |-> IF G \in registered' THEN AllVariants(G) ELSE {}]
  BY <1>1, <1>2, <1>3, <1>4
<1>6. LaunchesInv'
  BY <1>1, <1>2 DEF LateInv, LaunchesInv, Inserted, IsLaunchOf, Found
<1>7. EntryPointsInv'
  BY <1>1 DEF LateInv, EntryPointsInv
<1>8. MapsInv'
  BY <1>1, <1>2, <1>5, SameEntryPoints DEF LateInv, MapsInv, Cloned
<1>9. ResolvedAgainstAll'
  BY <1>1, SameEntryPoints DEF LateInv, ResolvedAgainstAll
<1>10. RejectsExactly'
  BY <1>1, <1>2, SameProgram DEF RejectsExactly
<1> QED
  BY <1>6, <1>7, <1>8, <1>9, <1>10 DEF LateInv

\* Every variant has been added when the clones are vectorized.
LEMMA ResolvesAll ==
    ASSUME FindInv, LateInv, phase = "vectorize", NEW F \in Functions
    PROVE  resolver_map[F] = AllVariants(F)
<1>1. /\ registered = DOMAIN vfinfo_map
      /\ DOMAIN vfinfo_map = {G \in Functions : VFABIs(G) # {}}
      /\ resolver_map[F] = IF F \in registered THEN AllVariants(F) ELSE {}
  BY DEF LateInv, MapsInv, Cloned
<1>2. VFABIs(F) = {} => AllVariants(F) = {}
  BY DEF VFABIs, AllVariants
<1> QED
  BY <1>1, <1>2

\* The launches of a vectorized body call its clone; nothing else changes.
LEMMA ReplaceLaunches ==
    ASSUME LateInv, NEW F,
           launches' = UNION {Replaced(F, l) : l \in launches},
           vectorized' = vectorized \cup {F}, entry_points' = entry_points,
           grids' = grids, phase' = phase, phase = "vectorize"
    PROVE  LaunchesInv'
<1>1. /\ \A l \in launches : \E g \in grids : IsLaunchOf(l, g)
      /\ \A l, m \in launches : l.call = m.call => l = m
      /\ \A l \in launches : \E e \in entry_points : e.function = l.callee
      /\ \A l \in launches : \A e \in entry_points :
            l.callee \in vectorized /\ e.function = l.callee => l.lanes = e.vlen
      /\ \A g \in grids : \E l \in launches : l.call = g.call
      /\ \A e, f \in entry_points : e.function = f.function => e = f
  BY DEF LateInv, LaunchesInv, EntryPointsInv, Inserted, Found
<1>2. ASSUME NEW l \in launches, NEW m \in Replaced(F, l)
      PROVE  /\ m.call = l.call /\ m.callee = l.callee
             /\ \A g \in grids : IsLaunchOf(l, g) => IsLaunchOf(m, g)
             /\ l.callee # F => m = l
             /\ \A e \in entry_points : l.callee = F /\ e.function = F => m.lanes = e.vlen
             /\ l.callee = F => \E e \in entry_points : e.function = F /\ m = [l EXCEPT !.lanes = e.vlen]
  <2>1. PICK g \in grids : IsLaunchOf(l, g)
    BY <1>1
  <2>2. l = [call |-> g.call, callee |-> g.omp_func, lanes |-> l.lanes,
             gang_num |-> g.gang_num, grid_size |-> g.grid_size]
    BY <2>1 DEF IsLaunchOf
  <2>3. CASE l.callee # F
    BY <1>2, <2>3 DEF Replaced
  <2>4. CASE l.callee = F
    <3>1. PICK e \in entry_points : e.function = F /\ m = [l EXCEPT !.lanes = e.vlen]
      BY <1>2, <2>4 DEF Replaced, EntryPoint
    <3>2. m = [call |-> l.call, callee |-> l.callee, lanes |-> e.vlen,
               gang_num |-> l.gang_num, grid_size |-> l.grid_size]
      BY <2>2, <3>1
    <3>3. /\ m.call = l.call /\ m.callee = l.callee /\ m.lanes = e.vlen
          /\ m.gang_num = l.gang_num /\ m.grid_size = l.grid_size
      BY <3>2
    <3>4. \A h \in grids : IsLaunchOf(l, h) => IsLaunchOf(m, h)
      <4> SUFFICES ASSUME NEW h \in grids, IsLaunchOf(l, h) PROVE IsLaunchOf(m, h)
        OBVIOUS
      <4>1. l = [call |-> h.call, callee |-> h.omp_func, lanes |-> l.lanes,
                 gang_num |-> h.gang_num, grid_size |-> h.grid_size]
        BY DEF IsLaunchOf
      <4>2. l.call = h.call /\ l.callee = h.omp_func /\ l.gang_num = h.gang_num /\ l.grid_size = h.grid_size
        BY <4>1
      <4> QED
        BY <3>2, <3>3, <4>2 DEF IsLaunchOf
    <3> QED
      BY <1>1, <2>4, <3>1, <3>3, <3>4
  <2> QED
    BY <2>3, <2>4
<1>3. \A m \in launches' : \E l \in launches : m \in Replaced(F, l)
  OBVIOUS
<1>4. \A m \in launches' : \E g \in grids : IsLaunchOf(m, g)
  BY <1>1, <1>2, <1>3
<1>5. ASSUME NEW m \in launches', NEW n \in launches', m.call = n.call
      PROVE  m = n
  <2>1. PICK l \in launches : m \in Replaced(F, l)
    BY <1>3
  <2>2. PICK k \in launches : n \in Replaced(F, k)
    BY <1>3
  <2>3. l = k
    BY <1>1, <1>2, <1>5, <2>1, <2>2
  <2>4. CASE l.callee # F
    BY <1>2, <2>1, <2>2, <2>3, <2>4
  <2>5. CASE l.callee = F
    BY <1>1, <1>2, <2>1, <2>2, <2>3, <2>5
  <2> QED
    BY <2>4, <2>5
<1>6. \A m \in launches' : \E e \in entry_points : e.function = m.callee
  BY <1>1, <1>2, <1>3
<1>7. \A m \in launches' : \A e \in entry_points :
         m.callee \in vectorized' /\ e.function = m.callee => m.lanes = e.vlen
  BY <1>1, <1>2, <1>3
<1>8. \A g \in grids : \E m \in launches' : m.call = g.call
  <2> SUFFICES ASSUME NEW g \in grids PROVE \E m \in launches' : m.call = g.call
    OBVIOUS
  <2>1. PICK l \in launches : l.call = g.call
    BY <1>1
  <2>2. PICK e \in entry_points : e.function = l.callee
    BY <1>1
  <2>3. \E m : m \in Replaced(F, l)
    BY <2>2 DEF Replaced, EntryPoint
  <2> QED
    BY <1>2, <2>1, <2>3
<1> QED
  BY <1>4, <1>5, <1>6, <1>7, <1>8 DEF LaunchesInv, Inserted, IsLaunchOf

\* Vectorizing the clones of a function.
LEMMA VectorizeStepLate ==
    ASSUME FindInv, LateInv, NEW F \in DOMAIN vfinfo_map, Vectorize(F)
    PROVE  LateInv'
<1>1. phase = "vectorize" /\ program \in Programs
  BY DEF Vectorize, FindInv, TypeInv
<1>2. F \in Functions /\ WellFormed /\ registered = DOMAIN vfinfo_map
  BY <1>1 DEF LateInv, MapsInv, RejectsExactly, Cloned
<1>3. \A v \in vfinfo_map[F] : \A s \in program.sites[F] :
         Resolution(F, v, s).result = Candidates(AllVariants(s.callee), Desired(v, s))
  <2> SUFFICES ASSUME NEW v \in vfinfo_map[F], NEW s \in program.sites[F]
               PROVE  Resolution(F, v, s).result = Candidates(AllVariants(s.callee), Desired(v, s))
    OBVIOUS
  <2>1. s.callee \in Functions
    BY <1>1, <1>2, ProgramFacts
  <2>2. resolver_map[s.callee] = AllVariants(s.callee)
    BY <1>1, <2>1, ResolvesAll
  <2> QED
    BY <2>2 DEF Resolution
<1>4. CASE \E c \in Resolutions(F) : Cardinality(c.result) > 1
  <2>1. Fatal
    BY <1>4 DEF Vectorize
  <2>2. /\ phase' = "fatal" /\ program' = program /\ grids' = grids /\ launches' = launches
        /\ entry_points' = entry_points /\ vfinfo_map' = vfinfo_map
        /\ resolver_map' = resolver_map /\ registered' = registered
        /\ vectorized' = vectorized /\ calls' = calls
    BY <2>1 DEF Fatal, finding, inserting, vectorizing
  <2>3. PICK v \in vfinfo_map[F], s \in program.sites[F] :
            Cardinality(Resolution(F, v, s).result) > 1
    BY <1>4 DEF Resolutions
  <2>4. Cardinality(Candidates(AllVariants(s.callee), Desired(v, s))) > 1
    BY <1>3, <2>3
  <2>5. RejectsExactly'
    BY <2>2, <2>4, SameEntryPoints DEF RejectsExactly
  <2>6. LaunchesInv'
    BY <2>2 DEF LateInv, LaunchesInv, Inserted, IsLaunchOf, Found
  <2>7. EntryPointsInv'
    BY <2>2 DEF LateInv, EntryPointsInv
  <2>8. MapsInv'
    BY <1>1, <2>2, SameEntryPoints DEF LateInv, MapsInv, Cloned
  <2>9. ResolvedAgainstAll'
    BY <2>2, SameEntryPoints DEF LateInv, ResolvedAgainstAll
  <2> QED
    BY <2>5, <2>6, <2>7, <2>8, <2>9 DEF LateInv
<1>5. CASE ~\E c \in Resolutions(F) : Cardinality(c.result) > 1
  <2>1. /\ phase' = phase /\ program' = program /\ grids' = grids
        /\ launches' = UNION {Replaced(F, l) : l \in launches}
        /\ entry_points' = entry_points /\ vfinfo_map' = vfinfo_map
        /\ resolver_map' = resolver_map /\ registered' = registered
        /\ vectorized' = vectorized \cup {F} /\ calls' = calls \cup Resolutions(F)
    BY <1>5 DEF Vectorize, finding
  <2>2. LaunchesInv'
    BY <1>1, <2>1, ReplaceLaunches
  <2>3. EntryPointsInv'
    BY <2>1 DEF LateInv, EntryPointsInv
  <2>4. MapsInv'
    BY <1>1, <2>1, SameEntryPoints DEF LateInv, MapsInv, Cloned
  <2>5. \A c \in Resolutions(F) :
           c.result = Candidates(AllVariants(c.site.callee), Desired(c.vfabi, c.site))
    BY <1>3 DEF Resolutions, Resolution
  <2>6. ResolvedAgainstAll'
    BY <2>1, <2>5, SameEntryPoints DEF LateInv, ResolvedAgainstAll
  <2>7. RejectsExactly'
    BY <1>1, <1>2, <2>1, SameProgram DEF RejectsExactly
  <2> QED
    BY <2>2, <2>3, <2>4, <2>6, <2>7 DEF LateInv
<1> QED
  BY <1>4, <1>5

\* The loops of vectorizeFunctions end.
LEMMA EndStepsLate ==
    ASSUME FindInv, LateInv, EndRegister \/ EndVectorize
    PROVE  LateInv'
<1>1. /\ program' = program /\ grids' = grids /\ launches' = launches
      /\ entry_points' = entry_points /\ vfinfo_map' = vfinfo_map
      /\ resolver_map' = resolver_map /\ registered' = registered
      /\ vectorized' = vectorized /\ calls' = calls
      /\ \/ phase = "register" /\ phase' = "vectorize" /\ registered = DOMAIN vfinfo_map
         \/ phase = "vectorize" /\ phase' = "done" /\ vectorized = DOMAIN vfinfo_map
  BY DEF EndRegister, EndVectorize, AllRegistered, finding, inserting, vectorizing
<1>2. LaunchesInv'
  BY <1>1 DEF LateInv, LaunchesInv, Inserted, IsLaunchOf, Found
<1>3. EntryPointsInv'
  BY <1>1 DEF LateInv, EntryPointsInv
<1>4. MapsInv'
  BY <1>1, SameEntryPoints DEF LateInv, MapsInv, Cloned
<1>5. ResolvedAgainstAll'
  BY <1>1, SameEntryPoints DEF LateInv, ResolvedAgainstAll
<1>6. RejectsExactly'
  BY <1>1, SameProgram DEF LateInv, RejectsExactly
<1> QED
  BY <1>2, <1>3, <1>4, <1>5, <1>6 DEF LateInv

-----------------------------------------------------------------------------
(* The invariant *)

IInv == FindInv /\ LateInv

LEMMA InitIInv == Init => IInv
<1> SUFFICES ASSUME Init PROVE IInv
  OBVIOUS
<1>1. /\ program \in Programs /\ phase = "find" /\ block = 1 /\ inst = 1
      /\ metadata = EmptyMetadata /\ grids = {} /\ launches = {} /\ entry_points = {}
      /\ resolver_map = [F \in Functions |-> {}]
      /\ registered = {} /\ vectorized = {} /\ calls = {}
  BY DEF Init
<1>2. /\ Len(program.blocks) \in Nat /\ DOMAIN program.blocks = 1..Len(program.blocks)
      /\ \A b \in DOMAIN program.blocks : Len(CallsIn(b)) \in Nat /\ DOMAIN CallsIn(b) = 1..Len(CallsIn(b))
  BY <1>1, ProgramFacts
<1>3. TypeInv
  BY <1>1, <1>2 DEF TypeInv, Phases, Found, EmptyMetadata, MetadataType, NoValue
<1>4. MetadataInv
  <2>1. \A b \in DOMAIN program.blocks :
           Region(b, 1) = {} /\ \A op \in Sets : Given(b, 1, op) = {}
    BY <1>1, RegionSteps, GivenSteps
  <2> QED
    BY <1>1, <2>1 DEF MetadataInv, EmptyMetadata, Sets
<1>5. \A b, i : ~Passed(b, i)
  BY <1>1, <1>2 DEF Passed
<1>6. PassedInv /\ GridsInv
  BY <1>1, <1>2, <1>5 DEF PassedInv, GridsInv
<1>7. LaunchesInv /\ EntryPointsInv
  BY <1>1 DEF LaunchesInv, EntryPointsInv, Found
<1>8. MapsInv
  BY <1>1 DEF MapsInv, Cloned
<1>9. ResolvedAgainstAll /\ RejectsExactly
  BY <1>1 DEF ResolvedAgainstAll, RejectsExactly
<1> QED
  BY <1>3, <1>4, <1>6, <1>7, <1>8, <1>9 DEF IInv, FindInv, LateInv

LEMMA NextIInv == IInv /\ [Next]_vars => IInv'
<1> SUFFICES ASSUME IInv, [Next]_vars PROVE IInv'
  OBVIOUS
<1>0. FindInv /\ LateInv
  BY DEF IInv
<1>1. CASE Find
  BY <1>0, <1>1, FindStep, FindStepLate DEF IInv
<1>2. CASE Insert \/ Initialize \/ VectorizeFunctions
  <2>1. /\ UNCHANGED <<program, finding>>
        /\ phase \in Found /\ phase' \in Phases \ {"find"}
    BY <1>2 DEF Insert, InsertGrid, EndInsert, Initialize, VectorizeFunctions, Register,
                Vectorize, EndRegister, EndVectorize, Fatal, Found, Phases
  <2>2. FindInv'
    BY <1>0, <2>1, AfterFind DEF FindInv, TypeInv
  <2>3. LateInv'
    BY <1>0, <1>2, InsertStepLate, InitializeStepLate, RegisterStepLate, VectorizeStepLate,
       EndStepsLate DEF VectorizeFunctions
  <2> QED
    BY <2>2, <2>3 DEF IInv
<1>3. CASE UNCHANGED vars
  <2>1. /\ program' = program /\ phase' = phase /\ block' = block /\ inst' = inst
        /\ metadata' = metadata /\ grids' = grids /\ launches' = launches
        /\ entry_points' = entry_points /\ vfinfo_map' = vfinfo_map
        /\ resolver_map' = resolver_map /\ registered' = registered
        /\ vectorized' = vectorized /\ calls' = calls
    BY <1>3 DEF vars
  <2>2. FindInv'
    <3>1. \A b, i : Passed(b, i)' = Passed(b, i)
      BY <2>1, SameProgram DEF Passed
    <3>2. \A g, b, i : IsGridOf(g, b, i)' = IsGridOf(g, b, i)
      BY <2>1, SameProgram DEF IsGridOf
    <3>3. TypeInv'
      BY <1>0, <2>1, SameProgram DEF FindInv, TypeInv
    <3>4. MetadataInv'
      BY <1>0, <2>1, SameProgram DEF FindInv, MetadataInv
    <3>5. PassedInv'
      BY <1>0, <2>1, <3>1, SameProgram DEF FindInv, PassedInv
    <3>6. GridsInv'
      BY <1>0, <2>1, <3>1, <3>2, SameProgram DEF FindInv, GridsInv
    <3> QED
      BY <3>3, <3>4, <3>5, <3>6 DEF FindInv
  <2>3. LaunchesInv'
    BY <1>0, <2>1 DEF LateInv, LaunchesInv, Inserted, IsLaunchOf
  <2>4. EntryPointsInv'
    BY <1>0, <2>1 DEF LateInv, EntryPointsInv
  <2>5. MapsInv'
    BY <1>0, <2>1, SameEntryPoints DEF LateInv, MapsInv
  <2>6. ResolvedAgainstAll'
    BY <1>0, <2>1, SameEntryPoints DEF LateInv, ResolvedAgainstAll
  <2>7. RejectsExactly'
    BY <1>0, <2>1, SameProgram, SameEntryPoints DEF LateInv, RejectsExactly
  <2> QED
    BY <2>2, <2>3, <2>4, <2>5, <2>6, <2>7 DEF IInv, LateInv
<1> QED
  BY <1>1, <1>2, <1>3 DEF Next

\* A vectorized module launches what its forks said.
LEMMA LaunchesFollow == IInv => LaunchesAreOwn
<1> SUFFICES ASSUME IInv, phase = "done",
                    NEW b \in DOMAIN program.blocks, NEW i \in DOMAIN CallsIn(b)
             PROVE  IF ~IsFork(b, i) \/ Region(b, i) = {}
                    THEN LaunchesOf(b, i) = {}
                    ELSE \E l \in launches :
                            /\ LaunchesOf(b, i) = {l}
                            /\ l.callee = CallsIn(b)[i].arg
                            /\ OneGangSize(l.callee) => l.lanes \in Given(b, i, "gang_size")
                            /\ Given(b, i, "gang_num") \subseteq {l.gang_num}
                            /\ l.grid_size \in IF Given(b, i, "grid_size") = {}
                                               THEN Given(b, i, "gang_size")
                                               ELSE Given(b, i, "grid_size")
  BY DEF LaunchesAreOwn
<1>1. FindInv /\ LateInv
  BY DEF IInv
<1>2. /\ block = Len(program.blocks) + 1 /\ program \in Programs
  BY <1>1 DEF FindInv, TypeInv, Found
<1>3. Passed(b, i)
  BY <1>1, <1>2, FoundWellFormed
<1>4. \A l \in launches : \E g \in grids : IsLaunchOf(l, g) /\ l.call = g.call
                             /\ l.callee = g.omp_func /\ l.gang_num = g.gang_num
                             /\ l.grid_size = g.grid_size
  BY <1>1 DEF LateInv, LaunchesInv, IsLaunchOf
<1>5. \A g \in grids : g.call = <<b, i>> => HasGrid(b, i) /\ IsGridOf(g, b, i)
  <2> SUFFICES ASSUME NEW g \in grids, g.call = <<b, i>>
               PROVE  HasGrid(b, i) /\ IsGridOf(g, b, i)
    OBVIOUS
  <2>1. PICK c \in DOMAIN program.blocks : \E j \in DOMAIN CallsIn(c) :
             HasGrid(c, j) /\ IsGridOf(g, c, j)
    BY <1>1 DEF FindInv, GridsInv
  <2>2. PICK j \in DOMAIN CallsIn(c) : HasGrid(c, j) /\ IsGridOf(g, c, j)
    BY <2>1
  <2>3. g.call = <<c, j>>
    BY <2>2 DEF IsGridOf
  <2>4. c = b /\ j = i
    BY <2>3
  <2> QED
    BY <2>2, <2>4
<1>6. CASE ~HasGrid(b, i)
  BY <1>4, <1>5, <1>6 DEF LaunchesOf, HasGrid
<1>7. CASE HasGrid(b, i)
  <2>1. PICK g \in grids : g.call = <<b, i>>
    BY <1>1, <1>3, <1>7 DEF FindInv, GridsInv
  <2>2. IsGridOf(g, b, i)
    BY <1>5, <2>1
  <2>3. PICK l \in launches : l.call = g.call
    BY <1>1, <2>1 DEF LateInv, LaunchesInv, Inserted, Found
  <2>4. PICK h \in grids : /\ l.call = h.call /\ l.callee = h.omp_func
                           /\ l.gang_num = h.gang_num /\ l.grid_size = h.grid_size
    BY <1>4
  <2>5. h = g
    BY <1>1, <2>3, <2>4 DEF FindInv, GridsInv
  <2>6. LaunchesOf(b, i) = {l}
    BY <1>1, <2>1, <2>3 DEF LateInv, LaunchesInv, LaunchesOf
  <2>7. l.callee = CallsIn(b)[i].arg
    BY <2>2, <2>4, <2>5 DEF IsGridOf
  <2>8. l.callee \in Functions
    BY <1>2, <1>7, <2>7, ProgramFacts DEF HasGrid
  <2>9. PICK e \in entry_points : e.function = l.callee
    BY <1>1 DEF LateInv, LaunchesInv
  <2>10. l.callee \in vectorized
    <3>1. EntryVFABI(l.callee, e.vlen) \in VFABIs(l.callee)
      BY <2>9 DEF VFABIs, EntryPoint
    <3> QED
      BY <1>1, <2>8, <3>1 DEF LateInv, MapsInv, Cloned
  <2>11. l.lanes = e.vlen
    BY <1>1, <2>9, <2>10 DEF LateInv, LaunchesInv
  <2>12. PICK k \in grids : k.omp_func = e.function /\ k.vlen = e.vlen
    BY <1>1 DEF LateInv, EntryPointsInv
  <2>13. OneGangSize(l.callee) => l.lanes \in Given(b, i, "gang_size")
    BY <2>2, <2>4, <2>5, <2>9, <2>11, <2>12 DEF OneGangSize, IsGridOf
  <2> QED
    BY <1>7, <2>2, <2>4, <2>5, <2>6, <2>7, <2>13 DEF IsGridOf, HasGrid
<1> QED
  BY <1>6, <1>7 DEF HasGrid

-----------------------------------------------------------------------------
LEMMA Invariance == Spec => []IInv
<1>1. Init => IInv
  BY InitIInv
<1>2. IInv /\ [Next]_vars => IInv'
  BY NextIInv
<1> QED
  BY <1>1, <1>2, PTL DEF Spec

\* Every fork that a region describes, and no other one, becomes a call of
\* the clone of its own body for its own gang size, with its own gang
\* number and grid size, in every order of the pointer-keyed maps
\* (module.cpp:264-365, 492-522).
THEOREM LaunchesRight == Spec => []LaunchesAreOwn
<1>1. IInv => LaunchesAreOwn
  BY LaunchesFollow
<1> QED
  BY <1>1, Invariance, PTL

\* The compiler goes on with well-formed modules only, and gives up only on
\* those that are not or whose calls have several variants to choose from
\* (module.cpp:126-167, 243, 310-315; resolver.cpp:88-90).
THEOREM RejectsRight == Spec => []RejectsExactly
<1>1. IInv => RejectsExactly
  BY DEF IInv, LateInv
<1> QED
  BY <1>1, Invariance, PTL

\* What a call is resolved to does not depend on the order in which
\* functions are registered and vectorized (module.cpp:492-522).
THEOREM ResolutionsStable == Spec => []ResolvedAgainstAll
<1>1. IInv => ResolvedAgainstAll
  BY DEF IInv, LateInv
<1> QED
  BY <1>1, Invariance, PTL

-----------------------------------------------------------------------------
(* What the calls do *)

\* A call is one of a clone.
CallsInv ==
    \A c \in calls :
        /\ c.caller \in Functions \cap DOMAIN vfinfo_map
        /\ c.vfabi \in vfinfo_map[c.caller]
        /\ c.site \in program.sites[c.caller]

LEMMA NextCallsInv == IInv /\ CallsInv /\ [Next]_vars => CallsInv'
<1> SUFFICES ASSUME IInv, CallsInv, [Next]_vars PROVE CallsInv'
  OBVIOUS
<1>1. ASSUME NEW F \in DOMAIN vfinfo_map, Vectorize(F) PROVE CallsInv'
  <2>1. program' = program /\ vfinfo_map' = vfinfo_map /\ calls' \subseteq calls \cup Resolutions(F)
    BY <1>1 DEF Vectorize, Fatal, finding, vectorizing
  <2>2. ASSUME NEW c \in Resolutions(F)
        PROVE  c.caller = F /\ c.vfabi \in vfinfo_map[F] /\ c.site \in program.sites[F]
    BY <2>2 DEF Resolutions, Resolution
  <2>3. F \in Functions
    BY <1>1 DEF Vectorize, IInv, LateInv, MapsInv, Cloned
  <2> QED
    BY <2>1, <2>2, <2>3 DEF CallsInv, Functions
<1>2. CASE Initialize
  <2>1. calls = {} /\ calls' = calls
    BY <1>2 DEF Initialize, IInv, LateInv, MapsInv
  <2> QED
    BY <2>1 DEF CallsInv, Functions
<1>3. CASE Find \/ Insert \/ EndRegister \/ EndVectorize \/ UNCHANGED vars
  <2>1. program' = program /\ UNCHANGED vectorizing
    BY <1>3 DEF Find, SetGridGangNum, SetGridGangSize, SetGridSize, SetGridSubName, Fork,
                OtherCall, EndBlock, EndFind, Fatal, Record, NextInst, Insert, InsertGrid,
                EndInsert, EndRegister, EndVectorize, vars, vectorizing
  <2> QED
    BY <2>1 DEF CallsInv, vectorizing, Functions
<1>4. ASSUME NEW F \in DOMAIN vfinfo_map, Register(F) PROVE CallsInv'
  BY <1>4 DEF Register, CallsInv, Functions
<1> QED
  BY <1>1, <1>2, <1>3, <1>4 DEF Next, VectorizeFunctions

\* A candidate has the mask and the lanes that the call desires, and every
\* argument comes in as what it promises.
LEMMA CandidatesFit ==
    ASSUME IInv, CallsInv, PromisesHold, NEW c \in calls, NEW w \in c.result
    PROVE  /\ w.mask = (c.vfabi.mask \/ c.site.masked)
           /\ w.vlen = c.vfabi.vlen
           /\ \A k \in DOMAIN c.site.args :
                 LET shape == ShapeIn(c.vfabi, c.site.args[k])
                 IN  \/ w.parameters[k].is_varying
                     \/ shape.kind = "strided" /\ shape.n = w.parameters[k].stride
<1> DEFINE F == c.caller
           u == c.vfabi
           s == c.site
<1>1. /\ F \in DOMAIN vfinfo_map /\ u \in vfinfo_map[F] /\ s \in program.sites[F]
      /\ w \in AllVariants(s.callee) /\ Compatible(w, Desired(u, s))
  BY DEF IInv, LateInv, ResolvedAgainstAll, CallsInv, Candidates
<1>2. F \in Functions /\ program \in Programs
  BY DEF CallsInv, IInv, FindInv, TypeInv
<1>3. SameTarget(w, Desired(u, s))
  BY <1>1 DEF Compatible
<1>4. \A k \in DOMAIN s.args : Suits(w, k, ShapeIn(u, s.args[k]))
  BY <1>1, <1>3 DEF PromisesHold
<1>5. DOMAIN s.args = DOMAIN w.parameters
  BY <1>1, <1>2, ModuleAssumption DEF ProgramOK, AllVariants, Functions
<1>6. ASSUME NEW k \in DOMAIN s.args, ShapeIn(u, s.args[k]).kind = "varying"
      PROVE  w.parameters[k].is_varying
  <2>1. Desired(u, s).parameters[k].is_varying
    BY <1>6 DEF Desired, DesiredParameter, AnyVarying
  <2> QED
    BY <1>1, <1>5, <2>1 DEF Compatible
<1>7. w.mask = (u.mask \/ s.masked) /\ w.vlen = u.vlen
  BY <1>3 DEF SameTarget, Desired
<1> QED
  BY <1>4, <1>6, <1>7 DEF Suits

LEMMA LaneWise == IInv /\ CallsInv /\ PromisesHold => CallsAreLaneWise
<1> SUFFICES ASSUME IInv, CallsInv, PromisesHold, NEW c \in calls,
                    NEW active \in (IF c.vfabi.mask \/ c.site.masked
                                    THEN SUBSET (0..(c.vfabi.vlen - 1))
                                    ELSE {0..(c.vfabi.vlen - 1)})
             PROVE  /\ Running(c, active) = active
                    /\ \A l \in active : \A k \in DOMAIN c.site.args :
                          Got(c, k, l) = Sent(c, k, l)
  BY DEF CallsAreLaneWise
<1>1. CASE c.result = {}
  BY <1>1 DEF Running, Got
<1>2. CASE c.result # {}
  <2> DEFINE w == CHOOSE v \in c.result : TRUE
  <2>1. w \in c.result
    BY <1>2
  <2> HIDE DEF w
  <2>2. /\ w.mask = (c.vfabi.mask \/ c.site.masked) /\ w.vlen = c.vfabi.vlen
        /\ \A k \in DOMAIN c.site.args :
              LET shape == ShapeIn(c.vfabi, c.site.args[k])
              IN  \/ w.parameters[k].is_varying
                  \/ shape.kind = "strided" /\ shape.n = w.parameters[k].stride
    BY <2>1, CandidatesFit
  <2>3. Running(c, active) = active
    <3>1. Running(c, active) = IF w.mask THEN active \cap 0..(w.vlen - 1) ELSE 0..(w.vlen - 1)
      BY <1>2 DEF Running, w
    <3>2. CASE w.mask
      BY <2>2, <3>1, <3>2
    <3>3. CASE ~w.mask
      BY <2>2, <3>1, <3>3
    <3> QED
      BY <3>2, <3>3
  <2>4. ASSUME NEW l \in active, NEW k \in DOMAIN c.site.args
        PROVE  Got(c, k, l) = Sent(c, k, l)
    <3>1. Got(c, k, l) = IF w.parameters[k].is_varying THEN Sent(c, k, l)
                         ELSE w.parameters[k].stride * l
      BY <1>2 DEF Got, w
    <3>2. CASE w.parameters[k].is_varying
      BY <3>1, <3>2
    <3>3. CASE ~w.parameters[k].is_varying
      <4>1. LET shape == ShapeIn(c.vfabi, c.site.args[k])
            IN  shape.kind = "strided" /\ shape.n = w.parameters[k].stride
        BY <2>2, <3>3
      <4>2. Sent(c, k, l) = w.parameters[k].stride * l
        BY <4>1 DEF Sent
      <4> QED
        BY <3>1, <3>3, <4>2
    <3> QED
      BY <3>2, <3>3
  <2> QED
    BY <2>3, <2>4
<1> QED
  BY <1>1, <1>2

\* While the arguments keep the promises of the variants, a call in a clone
\* does what the scalar call does, whatever it is resolved to: the callee runs
\* for the active lanes, and each lane gets its own arguments
\* (resolver.cpp:55-97, transformCallVectFunction, vectorizeUniformCall).
THEOREM CallsRight == Spec /\ []PromisesHold => []CallsAreLaneWise
<1>1. Init => CallsInv
  BY DEF Init, CallsInv
<1>2. IInv /\ CallsInv /\ [Next]_vars => CallsInv'
  BY NextCallsInv
<1>3. IInv /\ CallsInv /\ PromisesHold => CallsAreLaneWise
  BY LaneWise
<1> QED
  BY <1>1, <1>2, <1>3, Invariance, PTL DEF Spec
===============================================================================
