------------------------------ MODULE AtomicSum ------------------------------
(* What a reduction over all SPMD threads promises: the contributions of    *)
(* the gangs are added one at a time, in any order, none twice and none     *)
(* lost ("will atomically perform the horizontal sum", README.md:152).      *)
EXTENDS Integers

CONSTANT Contributions \* what is to be added, by name

VARIABLES
    amount, \* contribution -> number
    total,  \* the sum so far
    pending \* the contributions not in it yet

Init ==
    /\ amount \in [Contributions -> Int]
    /\ total = 0
    /\ pending = Contributions

Add(c) ==
    /\ c \in pending
    /\ total' = total + amount[c]
    /\ pending' = pending \ {c}
    /\ UNCHANGED amount

Next == \E c \in Contributions : Add(c)

Spec == Init /\ [][Next]_<<amount, total, pending>>
=============================================================================
