---------------------------- MODULE MCCollectives ----------------------------
(* Gangs of two and four lanes; patterns that permute, repeat, cross into   *)
(* the second operand and leave the range on either side.                   *)
EXTENDS Collectives

Type(width, unsigned) == [width |-> width, unsigned |-> unsigned]

\* unsigned char, char, unsigned short, unsigned int, int.
MCTypes == {Type(1, TRUE), Type(1, FALSE), Type(2, TRUE), Type(4, TRUE),
            Type(4, FALSE)}

MCPatterns == [n \in {2, 4} |->
    {[lane \in 1..n |-> n - lane],
     [lane \in 1..n |-> 2 * n - lane],
     [lane \in 1..n |-> (lane \div 2) * n],
     [lane \in 1..n |-> lane - 2],
     [lane \in 1..n |-> 2 * n - 2 + lane],
     [lane \in 1..n |-> IF lane = n THEN -2 ELSE 0]}]
=============================================================================
