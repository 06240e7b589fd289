---------------------------- MODULE MCShapesAccesses ----------------------------
(* ShapesStep computes the shapes of all values, and at its end maps those of   *)
(* pointers to the instructions that replace loads and stores                   *)
(* (calulateFinalMemInstMappedShapes).  A run is about a function and its       *)
(* shapes, or about one access through a pointer of any offsets, which need not *)
(* be those that a short function computes; the other part stays as it starts.  *)
EXTENDS MCShapes, MCPackedMem

VARIABLE part

partVars == <<shapesVars, vars, part>>

SomeProgram == CHOOSE p \in Programs : TRUE
SomeInst == CHOOSE i \in Insts : TRUE

PartInit ==
    \/ part = "shapes" /\ inst = SomeInst /\ Init /\ ShapesInit
    \/ part = "access" /\ program = SomeProgram /\ ShapesInit /\ Init

PartNext ==
    \/ part = "shapes" /\ ShapesNext /\ UNCHANGED <<vars, part>>
    \/ part = "access" /\ Next /\ UNCHANGED <<shapesVars, part>>

PartSpec == PartInit /\ [][PartNext]_partVars /\ RevisitsGoOn
=================================================================================
