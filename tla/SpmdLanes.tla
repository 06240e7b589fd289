------------------------------ MODULE SpmdLanes ------------------------------
(***************************************************************************)
(* What the SPMD programming model promises: every lane of a gang runs the *)
(* function's scalar control-flow graph by itself.  A step moves some      *)
(* lanes that are at the same block, each along an edge of its own choice. *)
(***************************************************************************)
EXTENDS Cfg

CONSTANT Lanes

VARIABLES cfg, at

vars == <<cfg, at>>

Exit == "exit"

\* Where a lane may go from block b.
Targets(g, b) == IF Succs(g, b) = {} THEN {Exit} ELSE Succs(g, b)

Init ==
    /\ cfg \in Cfgs
    /\ at \in [Lanes -> {cfg.entry, Exit}]

\* The lanes of S, all at block b, move on.
Move(S, b) ==
    /\ S # {} /\ b # Exit
    /\ \A l \in S : at[l] = b
    /\ \E to \in [S -> Targets(cfg, b)] :
          at' = [l \in Lanes |-> IF l \in S THEN to[l] ELSE at[l]]
    /\ UNCHANGED cfg

Next == \E S \in SUBSET Lanes, b \in BlocksOf(cfg) : Move(S, b)

\* A step that moves lane l, possibly together with others.
MoveOf(l) == \E S \in {T \in SUBSET Lanes : l \in T} : Move(S, at[l])

\* No lane is left behind for ever.
Fairness == \A l \in Lanes : WF_vars(MoveOf(l))

Spec == Init /\ [][Next]_vars /\ Fairness
=============================================================================
