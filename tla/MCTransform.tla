----------------------------- MODULE MCTransform ------------------------------
(* A loop with an if in its body: the gang loads x through an address that   *)
(* is strided, p (varying) and u (not varying) are carried over the backedge, *)
(* t is computed in the 'then' block, of which y is the mask, and meets       *)
(* another value in the join j, which is stored or added to a variable of all *)
(* lanes, n.  The operands of p, y, t and j range over the values in scope, t *)
(* over the kinds of instructions.  The branches are on r, which is varying,  *)
(* and on u2, which is indexed or uniform.                                    *)
EXTENDS Transform

MCParams == {Old("n"), ParamMask}

Kinds == [lane |-> "api", g |-> "simple", hm |-> "loop", p |-> "loop", u |-> "loop",
          x |-> "load", y |-> "simple", t |-> "simple", j |-> "join", c |-> "simple",
          r |-> "simple", b |-> "branch", s |-> "store", u2 |-> "simple", b2 |-> "branch"]

Masks == [n \in DOMAIN Kinds |->
             CASE n \in {"x", "j", "s"} -> "hm" [] n = "t" -> "y" [] OTHER -> "mask"]

Ops(s1, p1, p2, y2, t1, j1, j2, u1) ==
    [lane |-> <<>>, g |-> <<"n", "lane">>, hm |-> <<"mask", "r">>, p |-> <<p1, p2>>,
     u |-> <<u1, "u2">>, x |-> <<"g">>, y |-> <<"p", y2>>, t |-> <<t1>>,
     j |-> <<j1, j2>>, c |-> <<"j", "u">>, r |-> <<"hm", "c">>, b |-> <<"r">>,
     s |-> <<s1, "j">>, u2 |-> <<"u", "n">>, b2 |-> <<"u2">>]

\* t and s are of these kinds, and t is a call of a variant with this parameter.
Fn(t, s, ops, varying, indexed, promise, masked) ==
    LET I == {Old(n) : n \in DOMAIN Kinds}
    IN  [kind    |-> [i \in I |-> CASE i[2] = "t" -> t [] i[2] = "s" -> s
                                    [] OTHER -> Kinds[i[2]]],
         ops     |-> [i \in I |-> [k \in DOMAIN ops[i[2]] |-> Old(ops[i[2]][k])]],
         mask    |-> [i \in I |-> Old(Masks[i[2]])],
         varying |-> {Old(n) : n \in varying},
         indexed |-> {Old(n) : n \in indexed},
         promise |-> [i \in I |-> IF i[2] = "t" THEN promise ELSE {}],
         masked  |-> IF masked THEN {Old("t")} ELSE {}]

AlwaysVarying == {"hm", "p", "x", "y", "t", "j", "c", "r"}
Indexed == {"lane", "g", "u", "u2"}

FnsWith(kinds, t1s, promises) ==
    {Fn(kind, "store", Ops("g", p1, p2, y2, t1, j1, "t", "lane"),
        AlwaysVarying, Indexed, promise, promise = {}) :
        kind \in kinds, p1 \in {"lane", "n"}, p2 \in {"j", "x"},
        y2 \in {"x", "u", "lane"}, t1 \in t1s, j1 \in {"x", "p", "u"},
        promise \in promises}

\* The if depends on a uniform condition, and its PHI is no select.
UniformIf(s, p2) ==
    Fn("simple", s, Ops(IF s = "store" THEN "g" ELSE "n", "n", p2, "lane", "u", "lane", "t", "n"),
       AlwaysVarying \ {"t", "j"}, {"lane", "g", "t", "j"}, {}, TRUE)

\* Sums into n, of a value that is varying or the same for all lanes.
Sums == {Fn("simple", "reduce", Ops("n", "n", p2, y2, t1, j1, "t", u1),
            AlwaysVarying, IF u1 = "n" THEN {"lane", "g"} ELSE Indexed, {}, TRUE) :
            p2 \in {"j", "x"}, y2 \in {"x", "u"}, t1 \in {"x", "u"}, j1 \in {"p", "u"},
            u1 \in {"n", "lane"}}

\* The argument of the call of a variant is replaced itself, or uniform, strided
\* or varying and computed in place; the variant has one parameter for all lanes,
\* or one for each and no mask.
MCFunctions ==
    FnsWith({"simple", "lanes"}, {"x", "p", "u"}, {{}})
        \cup FnsWith({"vcall"}, {"x", "n", "g", "y"}, {{}, {1}})
        \cup Sums \cup {UniformIf(s, p2) : s \in {"store", "reduce"}, p2 \in {"j", "x"}}
===============================================================================
