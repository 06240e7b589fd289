------------------------------ MODULE MCShapes -------------------------------
(* Expressions of two operators over inputs of every kind of shape, and     *)
(* loops with an if in their body.                                          *)
EXTENDS Shapes, TLC

MCMemory == [a \in Words(MaxWidth) |-> (3 * a + 1) % 2^MaxWidth]
MCSamples == {0, 4, 7, 8, 15}
MCVaryingInputs == {[l \in Lanes |-> (5 * l + 2) % 2^MaxWidth]}

W == MaxWidth
Constants ==
    [k0 |-> Uniform({0}, W), k1 |-> Uniform({1}, W), k2 |-> Uniform({2}, W),
     k3 |-> Uniform({3}, W), k4 |-> Uniform({4}, W), k12 |-> Uniform({12}, W),
     true |-> Uniform({1}, 1), false |-> Uniform({0}, 1)]
Arguments ==
    [lane |-> Strided({0}, 1, W),                      \* the lane number
     aligned |-> Strided({0, 4, 8, 12}, 1, W),         \* linear, align 4
     strided |-> Strided(Words(W), 2, W),              \* linear, stride 2
     back |-> Strided(Words(W), 2^W - 1, W),           \* linear, stride -1
     uniform |-> Symbolic(W),
     varying |-> Varying]
AllArgs == Constants @@ Arguments

Instr(op, args, width) == [op |-> op, args |-> args, width |-> width, gang |-> FALSE]
Mask(op, args, width) == [op |-> op, args |-> args, width |-> width, gang |-> TRUE]

ArgsOf(ops) ==
    LET used == UNION {Range(ops[i].args) : i \in DOMAIN ops} \cap DOMAIN AllArgs
    IN  [v \in used |-> AllArgs[v]]

Expression(t, u) ==
    LET ops == [t |-> t, u |-> u]
    IN  [args |-> ArgsOf(ops), ops |-> ops, blocks |-> [E |-> <<"t", "u">>],
         select |-> << >>, inverted |-> {}]

Lhs == {"lane", "aligned", "strided", "back", "uniform", "varying"}

Arithmetic ==
    {Expression(Instr(o, <<x, y>>, W), Instr(q, <<"t", z>>, W)) :
        o \in BinaryOps \cup {"gep"}, x \in Lhs \ {"strided", "varying"}, y \in {"k1", "k3", "k12", "uniform", "lane"},
        q \in BinaryOps \ {"sub", "xor", "srem"}, z \in {"k2", "k12"}}

Compared ==
    {Expression(Instr(o, <<x, y>>, 1), u) :
        o \in Comparisons, x \in Lhs, y \in {"k2", "uniform", "lane"},
        u \in {Instr("zext", <<"t">>, W), Instr("sext", <<"t">>, W),
               Instr("xor", <<"t", "true">>, 1),
               Instr("select", <<"t", "k1", "k3">>, W),
               Instr("select", <<"t", "strided", "strided">>, W),
               Instr("select", <<"t", "lane", "k3">>, W)}}

Converted ==
    {Expression(Instr(o, <<x, y>>, W), u) :
        o \in {"add", "mul", "lshr"}, x \in Lhs, y \in {"k1", "k3", "uniform"},
        u \in {Instr("trunc", <<"t">>, 2), Instr("load", <<"t">>, W),
               Instr("lookup", <<"t">>, W), Instr("freeze", <<"t">>, W),
               Instr("sadd_sat", <<"t", "k3">>, W),
               Instr("sadd_sat", <<"t", "uniform">>, W),
               Instr("insert", <<"t">>, W), Instr("fneg", <<"t">>, W)}}
    \cup
    {Expression(Instr("trunc", <<x>>, 2), Instr(o, <<"t">>, W)) :
        x \in Lhs, o \in {"sext", "zext"}}

Called ==
    {Expression(Instr(o, << >>, W), Instr(q, <<"t", z>>, W)) :
        o \in CallOps \ {"sadd_sat"}, q \in BinaryOps \cup {"gep"},
        z \in {"k1", "k3", "k12", "uniform"}}
    \cup
    {Expression(Instr("thread_num", << >>, W), Instr(q, <<"t", "k4">>, 1)) :
        q \in Comparisons}

\*   s = other; if (c) s = t; x = s + 1;
If(c, t, other, inverted) ==
    LET ops == [c |-> c,
                then_mask |-> Mask("and", <<"loop_mask", "c">>, 1),
                t |-> t,
                s |-> Instr("phi", IF inverted THEN <<"t", other>> ELSE <<other, "t">>, W),
                x |-> Instr("add", <<"s", "k1">>, W)]
    IN  [args |-> ArgsOf(ops) @@ [loop_mask |-> Uniform({1}, 1), repeat_mask |-> Uniform({0}, 1)],
         ops |-> ops,
         blocks |-> [E |-> <<"c">>, H |-> <<"then_mask">>, T |-> <<"t">>, L |-> <<"s">>,
                     X |-> <<"x">>],
         select |-> [v \in {"s"} |-> "then_mask"],
         inverted |-> IF inverted THEN {"s"} ELSE {}]

\* Without the PHIs whose mask is constant and inverted, one of whose operands
\* is not constant (shapes.cpp:927 takes the base of the wrong one).
Ifs ==
    {If(Instr("ult", <<x, y>>, 1), Instr("add", <<z, "k3">>, W), other, FALSE) :
        x \in {"k1", "lane", "uniform"}, y \in {"k2", "uniform"},
        z \in {"k1", "lane", "aligned", "strided"},
        other \in {"k1", "lane", "aligned", "back"}}
    \cup
    {If(Instr("ult", <<x, y>>, 1), Instr("add", <<z, "k3">>, W), other, TRUE) :
        x \in {"lane", "uniform"}, y \in {"k2", "uniform"},
        z \in {"k1", "lane", "aligned", "strided"}, other \in {"k1", "lane", "aligned"}}
    \cup
    {If(Instr("ult", <<"k1", "k2">>, 1), Instr("add", <<z, "k3">>, W), other, TRUE) :
        z \in {"k1", "lane"}, other \in {"k1", "lane"}}

\*   i = 0; p = init;
\*   do { if (c) t = ...; s = c ? t : other; p = next; } while (++i <= limit);
Loop(init, c, t, other, next, limit) ==
    LET ops == [loop_mask |-> Mask("phi", <<"true", "repeat_mask">>, 1),
                i |-> Instr("phi", <<"k0", "i_next">>, W),
                p |-> Instr("phi", <<init, "p_next">>, next.width),
                s_livein |-> Mask("phi", <<"undef", "s_liveout">>, W),
                c |-> c,
                then_mask |-> Mask("and", <<"loop_mask", "c">>, 1),
                t |-> t,
                s |-> Instr("phi", <<other, "t">>, W),
                p_next |-> next,
                i_next |-> Instr("add", <<"i", "k1">>, W),
                exit |-> Instr("ugt", <<"i_next", limit>>, 1),
                s_liveout |-> Mask("select", <<"loop_mask", "s", "s_livein">>, W),
                repeat_mask |-> Mask("xor", <<"exit", "true">>, 1),
                x |-> Instr("add", <<"s_liveout", "k1">>, W)]
    IN  [args |-> ArgsOf(ops), ops |-> ops,
         blocks |-> [E |-> << >>,
                     H |-> <<"loop_mask", "i", "p", "s_livein", "c", "then_mask">>,
                     T |-> <<"t">>,
                     L |-> <<"s", "p_next", "i_next", "exit", "s_liveout", "repeat_mask">>,
                     X |-> <<"x">>],
         select |-> [v \in {"loop_mask", "i", "p", "s_livein", "s"} |->
                        IF v = "s" THEN "then_mask" ELSE "repeat_mask"],
         inverted |-> {}]

\* The header's PHIs feed themselves.
FeedingLoops ==
    {Loop(init, c, t, "p", next, limit) :
        init \in {"k0", "lane", "uniform"},
        c \in {Instr("ult", <<x, "k2">>, 1) : x \in {"p", "lane"}},
        t \in {Instr("add", <<"p", "k1">>, W), Instr("shl", <<"p", "k1">>, W)},
        next \in {Instr("add", <<"s", "k1">>, W), Instr("add", <<"p", "lane">>, W),
                  Instr("sub", <<"s", "p">>, W)},
        limit \in {"k1", "lane"}}

\* p is a flag set in the previous iteration, independent of its own value:
\*   p = false; do { if (!p) ...; p = lane < 2; } while (...)
DelayedLoops ==
    {Loop("false", Instr("xor", <<"p", "true">>, 1), Instr("shl", <<"i", "k1">>, W), "i",
          Instr("ult", <<x, "k2">>, 1), "k1") : x \in {"lane", "aligned"}}

AllPrograms == Arithmetic \cup Compared \cup Converted \cup Called \cup Ifs \cup FeedingLoops
=============================================================================
