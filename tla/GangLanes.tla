------------------------------ MODULE GangLanes ------------------------------
(* The lanes of a gang, as the passes number them (num_lanes).               *)
EXTENDS Integers

CONSTANT NumLanes

Lanes == 0..(NumLanes - 1)

ASSUME LanesAssumption == NumLanes \in Nat \ {0}
===============================================================================
