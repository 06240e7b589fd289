------------------------------ MODULE InstOrder ------------------------------
(***************************************************************************)
(* InstructionOrderStep (src/compiler/src/inst_order.cpp): the order in    *)
(* which ShapesStep and TransformStep visit the instructions of a          *)
(* vectorized function.  calculate() collects, for every instruction, the  *)
(* instructions that must be visited before it (its operands, the mask of  *)
(* its block, the select mask of a PHI), and then runs Kahn's algorithm.   *)
(* The set of ready instructions is a std::unordered_set, so the element   *)
(* begin() yields is any of them: Place(I) for an arbitrary ready I.       *)
(*                                                                         *)
(* The dominator tree is LLVM's; the constant Dominates stands for it.     *)
(***************************************************************************)
EXTENDS Naturals, Sequences, FiniteSets

CONSTANTS
    Inst,         \* the instructions of the function
    ProgramOrder, \* the sequence in which the two for-loops visit them
    NoInst,       \* stands for a mask that is a constant, not an instruction
    PHIs,         \* the instructions that are PHINodes
    MaskNamed,    \* the instructions whose name contains "mask"
    Dominates,    \* Dominates[i]: the instructions that i dominates
    BlockMask,    \* BlockMask[i]: active mask of the block of i, or NoInst
    SelectMask,   \* SelectMask[i]: select mask of a two-way PHI without a
                  \*   backedge; NoInst for every other instruction
    Programs      \* the operand relations to consider

ASSUME InstAssumption ==
    /\ NoInst \notin Inst
    /\ ProgramOrder \in Seq(Inst)
    /\ \A i \in Inst : \E k \in 1..Len(ProgramOrder) : ProgramOrder[k] = i
    /\ \A j, k \in 1..Len(ProgramOrder) :
          ProgramOrder[j] = ProgramOrder[k] => j = k
    /\ PHIs \subseteq Inst
    /\ MaskNamed \subseteq Inst
    /\ Dominates \in [Inst -> SUBSET Inst]
    /\ BlockMask \in [Inst -> Inst \cup {NoInst}]
    /\ SelectMask \in [Inst -> Inst \cup {NoInst}]
    /\ Programs \subseteq [Inst -> SUBSET Inst]

VARIABLES
    operands,          \* operands[i]: the instructions i takes as operands
    pc,                \* "analyze", "place", or how calculate() ended
    cursor,            \* index into ProgramOrder while analyzing
    pending_defs,      \* an instruction absent from the C++ map maps to {}
    uses,
    ready,             \* insts_with_no_pending_deps
    instruction_order

vars == <<operands, pc, cursor, pending_defs, uses, ready, instruction_order>>

Outcomes == {"done", "fatal", "cycle"}

-----------------------------------------------------------------------------
(* OperandDominatedByUser: the user dominates its operand, so the edge     *)
(* closes a loop.  Only a PHI may have such an operand.                    *)

OperandDominatedByUser(o, i) == o \in Dominates[i]

\* The mask a block computes is a dependency only if it is an instruction.
MaskInst(m) == {m} \ {NoInst}

BlockMaskDep(i) ==
    IF i \in MaskNamed THEN {} ELSE MaskInst(BlockMask[i])

PHIDepNone(i) == {}
PHIDep(i) == MaskInst(SelectMask[i])

OperandDeps(i) == {o \in operands[i] : ~OperandDominatedByUser(o, i)}

Deps(i) == OperandDeps(i) \cup BlockMaskDep(i) \cup PHIDep(i)

\* The FATAL in OperandDominatedByUser; it ends the compiler, so whatever
\* Analyze stores besides is never read.
BadBackedge(i) ==
    i \notin PHIs /\ \E o \in operands[i] : OperandDominatedByUser(o, i)

-----------------------------------------------------------------------------
Init ==
    /\ operands \in Programs
    /\ pc = "analyze"
    /\ cursor = 1
    /\ pending_defs = [i \in Inst |-> {}]
    /\ uses = [i \in Inst |-> {}]
    /\ ready = {}
    /\ instruction_order = <<>>

\* One iteration of the loops over the blocks and their instructions.
Analyze ==
    /\ pc = "analyze"
    /\ cursor \in 1..Len(ProgramOrder)
    /\ LET i == ProgramOrder[cursor] IN
       /\ pc' = CASE BadBackedge(i) -> "fatal"
                  [] ~BadBackedge(i) /\ cursor < Len(ProgramOrder) -> "analyze"
                  [] OTHER -> "place"
       /\ pending_defs' = [pending_defs EXCEPT ![i] = Deps(i)]
       /\ uses' = [d \in Inst |->
                      IF d \in Deps(i) THEN uses[d] \cup {i} ELSE uses[d]]
       /\ ready' = IF Deps(i) = {} THEN ready \cup {i} ELSE ready
    /\ cursor' = cursor + 1
    /\ UNCHANGED <<operands, instruction_order>>

\* The users of i whose last pending definition is i.
ReleasedAny(i) == uses[i]
Released(i) == {u \in uses[i] : pending_defs[u] \ {i} = {}}

\* One iteration of the while loop, for the element begin() yields.
Place(i) ==
    /\ pc = "place"
    /\ i \in ready
    /\ instruction_order' = Append(instruction_order, i)
    /\ pending_defs' = [u \in Inst |-> IF u \in uses[i]
                                       THEN pending_defs[u] \ {i}
                                       ELSE pending_defs[u]]
    /\ ready' = (ready \ {i}) \cup Released(i)
    /\ UNCHANGED <<operands, pc, cursor, uses>>

StillPendingEntries == {i \in Inst : Deps(i) # {}}
StillPending == {i \in Inst : pending_defs[i] # {}}

\* The end of the while loop and the check for a cycle behind it.
OutcomeUnchecked == "done"
OutcomeWaits == IF StillPending = {} THEN "done" ELSE "place"
Outcome == IF StillPending = {} THEN "done" ELSE "cycle"

Finish ==
    /\ pc = "place"
    /\ ready = {}
    /\ pc' = Outcome
    /\ UNCHANGED <<operands, cursor, pending_defs, uses, ready,
                   instruction_order>>

\* calculate() has returned or the compiler has stopped.
Ended == pc \in Outcomes /\ UNCHANGED vars

Next == Analyze \/ (\E i \in Inst : Place(i)) \/ Finish \/ Ended

Spec == Init /\ [][Next]_vars

\* calculate() is ordinary sequential code: it keeps running until it ends.
FairSpec == Spec /\ WF_vars(Next)

-----------------------------------------------------------------------------
Placed == {instruction_order[k] : k \in 1..Len(instruction_order)}

TypeOK ==
    /\ operands \in Programs
    /\ pc \in {"analyze", "place"} \cup Outcomes
    /\ cursor \in Nat
    /\ pending_defs \in [Inst -> SUBSET Inst]
    /\ uses \in [Inst -> SUBSET Inst]
    /\ ready \subseteq Inst
    /\ instruction_order \in Seq(Inst)

\* What the visitors of the order look up when they reach i: the operands of
\* an ordinary instruction, the operands of a PHI that do not arrive over a
\* backedge, the mask of the block (the mask instructions themselves need
\* none) and the mask a PHI is turned into a select on.
Needed(i) ==
    (IF i \in PHIs THEN {o \in operands[i] : o \notin Dominates[i]}
                   ELSE operands[i])
    \cup (IF i \in MaskNamed THEN {} ELSE {BlockMask[i]} \ {NoInst})
    \cup ({SelectMask[i]} \ {NoInst})

\* Whatever ready instruction every round picks, an instruction is placed
\* only behind everything ShapesStep and TransformStep need when they visit
\* it (the dependencies collected at inst_order.cpp:59-134).
DefsBeforeUses ==
    \A k \in 1..Len(instruction_order) :
        Needed(instruction_order[k]) \subseteq
            {instruction_order[j] : j \in 1..(k - 1)}

\* No instruction enters the order twice (its shape and vector value would be
\* computed twice, which the value cache treats as fatal), and an instruction
\* that is ready has not been placed.
NoneTwice ==
    /\ \A j, k \in 1..Len(instruction_order) :
          instruction_order[j] = instruction_order[k] => j = k
    /\ ready \cap Placed = {}

\* If calculate() returns, every instruction of the function is in the order:
\* none is silently left without a vector form.
CompleteWhenDone == pc = "done" => Placed = Inst

\* The cycle report is never a false alarm: the instructions left over really
\* wait for each other.
CycleIsReal ==
    pc = "cycle" =>
        /\ StillPending # {}
        /\ \A i \in StillPending : Deps(i) \cap StillPending # {}

\* calculate() ends.
Terminates == <>(pc \in Outcomes)
=============================================================================
