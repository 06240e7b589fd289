------------------------------ MODULE MCGangApi -------------------------------
(* The calls of the programming interface that the lanes of a gang make      *)
(* together (TransformStep::transformCallPsimApi): a gang either exchanges   *)
(* data, or gangs add to a variable of the grid.  Neither touches what the   *)
(* other works on, so that one part moves and the other one stays as it      *)
(* starts.                                                                   *)
EXTENDS MCCollectives, MCReductions

VARIABLE part

apiVars == <<callVars, sumVars, part>>

NoExchange ==
    /\ numLanes = 2
    /\ value = Operand("a", 2, 1) /\ other = Operand("b", 2, 1)
    /\ NoCalls
NoReduction ==
    /\ api = "atomic_add"
    /\ active = [g \in Gangs |-> [p \in 1..Passes |-> {3}]]
    /\ SumInit

ApiInit ==
    \/ part = "exchange" /\ NoCalls /\ NoReduction
    \/ part = "reduction" /\ SumInit /\ NoExchange

ApiNext ==
    \/ part = "exchange" /\ Call /\ UNCHANGED <<sumVars, part>>
    \/ part = "reduction" /\ SumNext /\ UNCHANGED <<callVars, part>>

ApiSpec == ApiInit /\ [][ApiNext]_apiVars
===============================================================================
