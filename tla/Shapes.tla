------------------------------- MODULE Shapes --------------------------------
(***************************************************************************)
(* ShapesStep::calculate (shapes.cpp): the instructions are visited once   *)
(* in an instruction order (module InstOrder), a PHI whose operands or     *)
(* condition have no shape yet being taken for uniform; users of a value   *)
(* whose shape changes are visited again from a work list, an              *)
(* unordered_set, in any order.  Then the function is executed lane by     *)
(* lane, to compare the values with the shapes.                            *)
(*                                                                         *)
(* A function is straight-line code (block E) or E; a loop with an if,     *)
(* H, T, L; and X behind it, in the form MasksStep and LiveOutPHIsStep     *)
(* leave it.                                                               *)
(***************************************************************************)
EXTENDS ShapeRules

CONSTANTS
    Programs, \* records of
              \*   args    name -> shape: arguments and constants
              \*   blocks  block -> sequence of instructions
              \*   ops     instruction -> [op, args, width, gang]; gang:
              \*           executed for all lanes (masks, live-out values)
              \*   select  PHI -> its select mask
              \*   inverted  the PHIs whose first operand is the 'then' block's
    Memory,        \* address -> word
    Samples,       \* the words to try as bases of inputs
    VaryingInputs, \* the lane values to try for varying inputs
    Poison

CallOps == {"lane_num", "gang_size", "gang_num", "thread_num", "sadd_sat",
            "shuffle", "indirect"}
Operations ==
    BinaryOps \cup Comparisons \cup CallOps \cup
    {"sext", "zext", "trunc", "select", "phi", "gep", "load", "lookup", "freeze",
     "insert", "fneg"}

\* What LLVM guarantees: an instruction has its operands, which are arguments,
\* constants or instructions; undef is an operand of PHIs here.
IsProgram(p) ==
    /\ "E" \in DOMAIN p.blocks
    /\ DOMAIN p.args \cap DOMAIN p.ops = {}
    /\ "undef" \notin DOMAIN p.args \cup DOMAIN p.ops
    /\ \A i \in DOMAIN p.ops :
          LET o == p.ops[i]
              names == DOMAIN p.args \cup DOMAIN p.ops
          IN  /\ o.op \in Operations
              /\ o.args \in Seq(names \cup {"undef"})
              /\ o.op \in BinaryOps \cup Comparisons \cup {"gep"} => Len(o.args) = 2
              /\ o.op \in {"sext", "zext", "trunc", "load", "lookup", "freeze"} =>
                    Len(o.args) = 1
              /\ o.op = "select" => Len(o.args) = 3
              /\ o.op # "phi" => "undef" \notin Range(o.args)
              /\ o.op = "phi" =>
                    /\ Len(o.args) \in {1, 2} /\ Range(o.args) # {"undef"}
                    /\ Len(o.args) = 2 => p.select[i] \in names

ASSUME ShapesAssumption ==
    /\ Poison \notin Int
    /\ \A p \in Programs : IsProgram(p)

VARIABLES
    program,
    stage,      \* "order", "queue", "first", "again", "leave", "done"
                \* or "abort"
    shape,      \* the value cache: the names that have a shape -> shape
    work_queue,
    env,        \* the execution: name -> lane -> word or Poison
    at          \* block -> the lanes it was last executed for

shapesVars == <<program, stage, shape, work_queue, env, at>>

Instrs == DOMAIN program.ops
Op(i) == program.ops[i].op
Arg(i, k) == program.ops[i].args[k]
Has(v) == v \in DOMAIN shape
Users(v) == {u \in Instrs : v \in Range(program.ops[u].args)}

IsPHI(i) == Op(i) = "phi"
IsIn(i, b) == b \in DOMAIN program.blocks /\ i \in Range(program.blocks[b])
IsHeaderPHI(i) == IsPHI(i) /\ IsIn(i, "H")

-----------------------------------------------------------------------------
(* calculateShape *)

CallShape(i) ==
    LET n == program.ops[i].width
    IN  CASE Op(i) = "lane_num"   -> Strided({0}, 1, n)
          [] Op(i) = "gang_size"  -> Uniform({NumLanes}, n)
          [] Op(i) = "gang_num"   -> Symbolic(n)
          [] Op(i) = "thread_num" ->
                 Strided({x \in 0..(2^(n - 1) - NumLanes - 2) : x % NumLanes = 0}, 1, n)
          [] Op(i) = "sadd_sat"   ->
                 IF \A v \in Range(program.ops[i].args) : IsUniform(shape[v])
                 THEN Symbolic(n) ELSE Varying
          [] Op(i) = "shuffle"    -> Varying
          [] Op(i) = "indirect"   -> Unknown

\* A PHI with two operands of known shape, and their select mask.
JoinShape(i, a, b, c) ==
    IF AllConstant({a, b, c})
    THEN IF i \in program.inverted THEN SelectShape(c, a, b) ELSE SelectShape(c, b, a)
    ELSE IF ~IsIndexed(a) \/ ~IsIndexed(b) THEN Varying
    ELSE IF a.idx # b.idx THEN Varying
    ELSE IF IsHeaderPHI(i) THEN Indexed(Words(a.width), a.idx, a.width)
    ELSE IF IsUniform(c)
    THEN Indexed({SelectWord(z, y, x) : z \in c.base, x \in a.base, y \in b.base},
                 a.idx, a.width)
    ELSE Varying

\* c is the shape of the select mask, once it has one.
PHIShapeUnder(i, hasMask, c) ==
    LET args == program.ops[i].args
        missing == {k \in DOMAIN args : args[k] \in Instrs /\ ~Has(args[k])}
        widthOf(v) == program.ops[v].width
    IN  IF Len(args) = 1 THEN shape[args[1]]
        ELSE IF missing # {} THEN Symbolic(widthOf(args[Min(missing)]))
        \* the name and the width of the condition
        ELSE IF ~hasMask THEN Symbolic(widthOf(program.select[i]))
        ELSE IF args[1] = "undef" THEN shape[args[2]]
        ELSE IF args[2] = "undef" THEN shape[args[1]]
        ELSE JoinShape(i, shape[args[1]], shape[args[2]], c)

PHIShape(i) ==
    LET mask == program.select[i]
    IN  PHIShapeUnder(i, mask \in Instrs => Has(mask), shape[mask])

CalculateShape(i) ==
    LET S(k) == shape[Arg(i, k)]
        n == program.ops[i].width
    IN  CASE Op(i) \in BinaryOps   -> BinaryOpShape(Op(i), S(1), S(2))
          [] Op(i) \in Comparisons -> CmpShape(Op(i), S(1), S(2))
          [] Op(i) \in CallOps     -> CallShape(i)
          [] Op(i) \in {"sext", "zext", "trunc"} -> ConvertShape(Op(i), S(1), n)
          [] Op(i) = "select"      -> SelectShape(S(1), S(2), S(3))
          [] Op(i) = "phi"         -> PHIShape(i)
          [] Op(i) = "gep"         -> GEPShape(S(1), S(2), 2)
          [] Op(i) = "load"        -> LoadShape(S(1), FALSE, Memory, n)
          [] Op(i) = "lookup"      -> LoadShape(S(1), TRUE, Memory, n)
          [] Op(i) = "freeze"      -> S(1)
          [] Op(i) = "insert"      -> Varying
          [] Op(i) = "fneg"        -> Unknown

\* The users that are in the cache already and are not varying are visited
\* again.
RequeuedPHIs(i) == {u \in Users(i) : Has(u) /\ ~IsVarying(shape[u]) /\ IsPHI(u)}

Requeued(i) == {u \in Users(i) : Has(u) /\ ~IsVarying(shape[u])}

CalculateUnchanged(i, queue) ==
    \E s \in {CalculateShape(i)} :
        IF s = NoShape
        THEN stage' = "abort" /\ UNCHANGED <<shape, work_queue>>
        ELSE /\ shape' = [v \in DOMAIN shape \cup {i} |-> IF v = i THEN s ELSE shape[v]]
             /\ work_queue' = (queue \cup Requeued(i)) \ {i}
             /\ UNCHANGED stage

Calculate(i, queue) ==
    \E s \in {CalculateShape(i)} :
        IF s = NoShape
        THEN stage' = "abort" /\ UNCHANGED <<shape, work_queue>>
        ELSE LET changed == ~Has(i) \/ shape[i] # s
             IN  /\ shape' = [v \in DOMAIN shape \cup {i} |-> IF v = i THEN s ELSE shape[v]]
                 /\ work_queue' = (queue \cup (IF changed THEN Requeued(i) ELSE {})) \ {i}
                 /\ UNCHANGED stage

\* What InstOrder places before i: its operands except over a backedge, the
\* mask of its block, the select mask of a PHI behind an if.
BlockMask(i) ==
    IF i \in {"loop_mask", "then_mask", "repeat_mask"} THEN {}
    ELSE IF IsIn(i, "T") THEN {"then_mask"}
    ELSE IF IsIn(i, "H") \/ IsIn(i, "L") THEN {"loop_mask"}
    ELSE {}

OperandsBefore(i) ==
    IF IsHeaderPHI(i) THEN {Arg(i, 1)}
    ELSE Range(program.ops[i].args) \cup (IF IsPHI(i) THEN {program.select[i]} ELSE {})

-----------------------------------------------------------------------------
(* The execution *)

\* Arguments and the results of calls.
Inputs == DOMAIN program.args \cup {i \in Instrs : Op(i) \in CallOps \ {"sadd_sat"}}

FromShape(s) ==
    IF IsIndexed(s)
    THEN {[l \in Lanes |-> AtLane(s, x, l)] :
             x \in {x \in s.base : HasConstantBase(s) \/ x \in Samples}}
    ELSE VaryingInputs

InputValues(v) ==
    CASE v \notin Instrs -> FromShape(program.args[v])
      [] v \in Instrs ->
         CASE Op(v) = "lane_num"   -> {[l \in Lanes |-> l]}
           [] Op(v) = "gang_size"  -> {[l \in Lanes |-> NumLanes]}
           [] Op(v) = "gang_num"   -> {[l \in Lanes |-> x] : x \in Samples}
           [] Op(v) = "thread_num" ->
                 {[l \in Lanes |-> x * NumLanes + l] :
                     x \in {x \in Samples : (x + 1) * NumLanes + 1 < 2^(MaxWidth - 1)}}
           [] OTHER -> VaryingInputs

Unbound(e) == {v \in Inputs : e[v][0] = Poison}

TypeWidth(v) == IF v \in Instrs THEN program.ops[v].width ELSE MaxWidth

\* Otherwise the result is poison, or the behaviour undefined.
Defined(op, x, y, n) ==
    CASE op \in {"shl", "lshr", "ashr"} -> y < n
      [] op \in {"udiv", "urem"} -> y # 0
      [] op \in {"sdiv", "srem"} -> y # 0 /\ ~(SignedWord(x, n) = -(2^(n - 1)) /\ y = 2^n - 1)
      [] OTHER -> TRUE

Saturated(x, n) == IF x >= 2^(n - 1) THEN 2^(n - 1) - 1
                   ELSE IF x < -(2^(n - 1)) THEN 2^(n - 1) ELSE Cut(x, n)

\* The value of instruction i in lane l.
Eval(i, e, l) ==
    LET X(k) == e[Arg(i, k)][l]
        n == program.ops[i].width
        w == TypeWidth(Arg(i, 1))
        strict == Op(i) \notin {"phi", "select", "freeze"}
    IN  IF Op(i) \in CallOps \ {"sadd_sat"} THEN e[i][l]
        ELSE IF strict /\ \E k \in DOMAIN program.ops[i].args : X(k) = Poison THEN Poison
        ELSE CASE Op(i) \in BinaryOps ->
                    IF Defined(Op(i), X(1), X(2), n) THEN Apply(Op(i), X(1), X(2), n)
                    ELSE Poison
               [] Op(i) \in Comparisons -> Compare(Op(i), X(1), X(2), w)
               [] Op(i) = "sadd_sat" -> Saturated(SignedWord(X(1), n) + SignedWord(X(2), n), n)
               [] Op(i) \in {"sext", "zext", "trunc"} -> Convert(Op(i), X(1), w, n)
               [] Op(i) = "gep" -> Cut(X(1) + 2 * X(2), n)
               [] Op(i) \in {"load", "lookup"} -> Memory[X(1)]
               [] Op(i) = "select" -> IF X(1) = Poison THEN Poison ELSE SelectWord(X(1), X(2), X(3))
               \* behind an if: the lanes of the 'then' block come from there
               [] Op(i) = "phi" -> IF i \in program.inverted
                                   THEN SelectWord(e["then_mask"][l], X(1), X(2))
                                   ELSE SelectWord(e["then_mask"][l], X(2), X(1))
               [] Op(i) \in {"freeze", "insert", "fneg"} -> X(1)

Execute(insts, lanes, e) ==
    LET run[k \in 0..Len(insts)] ==
            IF k = 0 THEN e
            ELSE LET f == run[k - 1]
                     i == insts[k]
                 IN  [f EXCEPT ![i] = [l \in Lanes |->
                         IF l \in lanes \/ program.ops[i].gang THEN Eval(i, f, l)
                                                                ELSE f[i][l]]]
    IN  run[Len(insts)]

\* The PHIs of a header are assigned together.
EnterHeader(k, e) ==
    [v \in DOMAIN e |-> IF v \in Instrs /\ IsHeaderPHI(v) THEN e[Arg(v, k)] ELSE e[v]]

Set(e, m) == {l \in Lanes : e[m][l] = 1}

-----------------------------------------------------------------------------
ShapesInit ==
    /\ program \in Programs
    /\ stage = "order"
    /\ shape = program.args
    /\ work_queue = {}
    /\ env = [v \in DOMAIN program.args \cup DOMAIN program.ops \cup {"undef"} |->
                 IF v \in DOMAIN program.args /\ HasConstantBase(program.args[v])
                 THEN CHOOSE f \in FromShape(program.args[v]) : TRUE
                 ELSE [l \in Lanes |-> Poison]]
    /\ at = [b \in DOMAIN program.blocks |-> {}]

Visit(i) ==
    /\ stage = "order"
    /\ ~Has(i)
    /\ \A v \in OperandsBefore(i) \cup BlockMask(i) : v \in Instrs => Has(v)
    /\ Calculate(i, work_queue)
    /\ UNCHANGED <<program, env, at>>

AllVisited ==
    /\ stage = "order"
    /\ \A i \in Instrs : Has(i)
    /\ stage' = "queue"
    /\ UNCHANGED <<program, shape, work_queue, env, at>>

Revisit(i) ==
    /\ stage = "queue"
    /\ i \in work_queue
    /\ Calculate(i, work_queue)
    /\ UNCHANGED <<program, env, at>>

\* The gang is called, its lanes having inputs of the shapes promised.
Bind ==
    /\ stage = "queue"
    /\ work_queue = {}
    /\ Unbound(env) # {}
    /\ LET v == CHOOSE v \in Unbound(env) : TRUE
       IN  \E f \in InputValues(v) : env' = [env EXCEPT ![v] = f]
    /\ UNCHANGED <<program, stage, shape, work_queue, at>>

Enter ==
    /\ stage = "queue"
    /\ work_queue = {}
    /\ Unbound(env) = {}
    /\ env' = Execute(program.blocks["E"], Lanes, env)
    /\ at' = [at EXCEPT !["E"] = Lanes]
    /\ stage' = IF "H" \in DOMAIN at THEN "first" ELSE "done"
    /\ UNCHANGED <<program, shape, work_queue>>

Iterate ==
    /\ stage \in {"first", "again"}
    /\ LET e == EnterHeader(IF stage = "first" THEN 1 ELSE 2, env)
           active == Set(e, "loop_mask")
           h == Execute(SelectSeq(program.blocks["H"], LAMBDA i : ~IsPHI(i)), active, e)
           then == Set(h, "then_mask")
       IN  /\ env' = Execute(program.blocks["L"], active,
                             Execute(program.blocks["T"], then, h))
           /\ at' = [at EXCEPT !["H"] = active, !["T"] = then, !["L"] = active]
    /\ stage' = IF Set(env', "repeat_mask") # {} THEN "again" ELSE "leave"
    /\ UNCHANGED <<program, shape, work_queue>>

Leave ==
    /\ stage = "leave"
    /\ env' = Execute(program.blocks["X"], Lanes, env)
    /\ at' = [b \in DOMAIN at |-> IF b \in {"E", "X"} THEN Lanes ELSE {}]
    /\ stage' = "done"
    /\ UNCHANGED <<program, shape, work_queue>>

Ended == stage \in {"done", "abort"} /\ UNCHANGED shapesVars

ShapesNext ==
    \/ \E i \in Instrs : Visit(i)
    \/ AllVisited
    \/ \E i \in Instrs : Revisit(i)
    \/ Bind \/ Enter \/ Iterate \/ Leave \/ Ended

ShapesSpec == ShapesInit /\ [][ShapesNext]_shapesVars

\* The while loop over the work list keeps running.
RevisitsGoOn == WF_shapesVars(\E i \in Instrs : Revisit(i))

-----------------------------------------------------------------------------
(* Properties *)

\* The lanes for which v holds a value of the current pass.
Live(v) ==
    IF v \notin Instrs \/ program.ops[v].gang THEN Lanes
    ELSE UNION {at[b] : b \in {b \in DOMAIN at : IsIn(v, b)}}

\* The shapes tell the truth: the lanes that execute an instruction get one
\* of the words of its base plus their own index, whatever the order of the
\* instructions and of the work list, and however the lanes diverge.
\* Everything the compiler emits once for the gang relies on it
\* (shapes.cpp:1241-1286).
ShapesHold ==
    \A v \in DOMAIN shape :
        stage \in {"first", "again", "leave", "done"} /\ IsIndexed(shape[v]) =>
            \E x \in shape[v].base :
                \A l \in Live(v) : env[v][l] \in {Poison, AtLane(shape[v], x, l)}

\* No update is lost: when the work list is empty, a shape that is not
\* varying is the one its operands have in the end, not one of a tentative
\* shape of theirs (shapes.cpp:1125-1146).
Settled ==
    stage \in {"first", "again", "leave", "done"} =>
        \A i \in Instrs : IsVarying(shape[i]) \/ shape[i] = CalculateShape(i)

\* Tentative shapes that feed each other do not keep the work list busy for
\* ever (shapes.cpp:1277-1281).
Terminates == (stage = "queue") ~> (work_queue = {} \/ stage = "abort")
=============================================================================
