----------------------------- MODULE ShapeRules ------------------------------
(***************************************************************************)
(* The shape calculus (shape.h, shape_calc.cpp, transfer functions of      *)
(* shapes.cpp).  The shape of a value is varying, unknown, or indexed: a   *)
(* base common to all lanes and a constant index per lane, in words of a   *)
(* given width.  A z3 expression is represented by the set of words it may *)
(* be equal to: one word for a constant base; an assumption is proved if   *)
(* it holds for all words of the bases.  What the solver knows about two   *)
(* bases together, and the facts from nsw and nuw flags, are left out.     *)
(***************************************************************************)
EXTENDS GangLanes, Sequences, FiniteSets, FiniteSetsExt, Functions

CONSTANT MaxWidth

ASSUME ShapeRulesAssumption == MaxWidth \in Nat \ {0}

Words(n) == 0..(2^n - 1)
Cut(x, n) == x % 2^n
SignedWord(x, n) == IF 2 * x < 2^n THEN x ELSE x - 2^n
Magnitude(x) == IF x < 0 THEN -x ELSE x

\* Bit by bit.
AndOf[x \in Words(MaxWidth)] ==
    [y \in Words(MaxWidth) |->
        IF x = 0 THEN 0 ELSE 2 * AndOf[x \div 2][y \div 2] + (x % 2) * (y % 2)]
And(x, y) == AndOf[x][y]
Or(x, y) == x + y - And(x, y)
Xor(x, y) == x + y - 2 * And(x, y)

\* Division of signed numbers; the values for y = 0 are z3's.
SDiv(x, y) ==
    IF y = 0 THEN IF x < 0 THEN 1 ELSE -1
    ELSE LET q == Magnitude(x) \div Magnitude(y)
         IN  IF (x < 0) = (y < 0) THEN q ELSE -q
SRem(x, y) == IF y = 0 THEN x ELSE x - y * SDiv(x, y)

Apply(op, x, y, n) ==
    CASE op = "add"  -> Cut(x + y, n)
      [] op = "sub"  -> Cut(x - y, n)
      [] op = "mul"  -> Cut(x * y, n)
      [] op = "and"  -> And(x, y)
      [] op = "or"   -> Or(x, y)
      [] op = "xor"  -> Xor(x, y)
      [] op = "shl"  -> Cut(x * 2^y, n)
      [] op = "lshr" -> x \div 2^y
      [] op = "ashr" -> Cut(SignedWord(x, n) \div 2^y, n)
      [] op = "udiv" -> IF y = 0 THEN 2^n - 1 ELSE x \div y
      [] op = "urem" -> IF y = 0 THEN x ELSE x % y
      [] op = "sdiv" -> Cut(SDiv(SignedWord(x, n), SignedWord(y, n)), n)
      [] op = "srem" -> Cut(SRem(SignedWord(x, n), SignedWord(y, n)), n)

BinaryOps == {"add", "sub", "mul", "and", "or", "xor", "shl", "lshr", "ashr",
              "udiv", "urem", "sdiv", "srem"}

Bool(b) == IF b THEN 1 ELSE 0

Compare(op, x, y, n) ==
    CASE op = "eq"  -> Bool(x = y)
      [] op = "ne"  -> Bool(x # y)
      [] op = "ugt" -> Bool(x > y)
      [] op = "ult" -> Bool(x < y)
      [] op = "ule" -> Bool(x <= y)
      [] op = "slt" -> Bool(SignedWord(x, n) < SignedWord(y, n))
      [] op = "sge" -> Bool(SignedWord(x, n) >= SignedWord(y, n))

Comparisons == {"eq", "ne", "ugt", "ult", "ule", "slt", "sge"}

-----------------------------------------------------------------------------
(* Shapes *)

Indexed(base, idx, n) ==
    [type |-> "indexed", width |-> n, base |-> base, idx |-> idx]
Strided(base, stride, n) ==
    Indexed(base, [l \in Lanes |-> Cut(l * stride, n)], n)
Uniform(base, n) == Strided(base, 0, n)
Symbolic(n) == Uniform(Words(n), n)
Varying == [type |-> "varying"]
Unknown == [type |-> "unknown"]
\* Not a shape: the compiler stops with an assertion or an exception.
NoShape == [type |-> "abort"]

IsIndexed(s) == s.type = "indexed"
IsVarying(s) == s.type \in {"varying", "unknown"}
IsUniform(s) ==
    IsIndexed(s) /\ \A l \in Lanes \ {0} : s.idx[l] = s.idx[0]
HasConstantBase(s) == IsIndexed(s) /\ Cardinality(s.base) = 1
AllConstant(shapes) == \A s \in shapes : HasConstantBase(s)
ConstantBase(s) == CHOOSE x \in s.base : TRUE
AtLane(s, x, l) == Cut(x + s.idx[l], s.width)

\* transformKnownBases: base is the result on the bases, actual[l] on the words
\* of lane l.
Known(base, actual, n) ==
    Indexed({base}, [l \in Lanes |-> Cut(actual[l] - base, n)], n)

\* LAMBDAs of one operand: sext, zext and trunc from width m to width n.
Convert(op, x, m, n) == IF op = "sext" THEN Cut(SignedWord(x, m), n) ELSE Cut(x, n)

-----------------------------------------------------------------------------
(* KnownTransforms.  x and y are words of the bases of a and b. *)

AllIndicesZero(s) == \A l \in Lanes : s.idx[l] = 0
NoOverflowAtEnd(s, x) == x + s.idx[NumLanes - 1] < 2^(s.width)
NoUnsignedOverflow(s, x) == \A l \in Lanes : x + s.idx[l] < 2^(s.width)
IsPowerOfTwo(e, n) == And(e, Cut(e - 1, n)) = 0
\* operator% of z3 is smod: its result is 0 for the multiples of d.
IsMultiple(x, d, n) ==
    IF d = 0 THEN x = 0 ELSE SignedWord(x, n) % Magnitude(SignedWord(d, n)) = 0

Rules(op) ==
    CASE op = "and" -> <<"and1", "and2", "and3", "and4">>
      [] op = "mul" -> <<"mul1", "mul2">>
      [] op = "or"  -> <<"or1", "or2">>
      [] OTHER      -> <<op>>

Assumption(rule, a, b, x, y) ==
    LET n == a.width
        positive == SignedWord(y, n) > 0
    IN  CASE rule \in {"add", "sub"} -> TRUE
          [] rule = "and1" -> /\ SignedWord(y, n) < 0 /\ AllIndicesZero(b)
                              /\ IsPowerOfTwo(Cut(-y, n), n)
                              /\ IsMultiple(x, Cut(-y, n), n)
          [] rule = "and2" -> /\ positive /\ AllIndicesZero(b)
                              /\ IsPowerOfTwo(Cut(y + 1, n), n)
                              /\ IsMultiple(x, Cut(y + 1, n), n)
          [] rule = "and3" -> AllIndicesZero(b) /\ x = 0
          [] rule = "and4" -> /\ positive /\ AllIndicesZero(b)
                              /\ \A l \in Lanes : And(x, a.idx[l]) = 0
          \* 2^(n-1) is the smallest signed number: never
          [] rule = "ashr" -> FALSE
          [] rule = "lshr" -> /\ positive /\ AllIndicesZero(b)
                              /\ NoUnsignedOverflow(a, x)
                              /\ Apply("urem", x, Cut(2^y, n), n) = 0
          [] rule = "mul1" -> HasConstantBase(b) /\ AllIndicesZero(b)
          [] rule = "mul2" -> /\ AllIndicesZero(b)
                              /\ \A l \in Lanes : Cut(a.idx[l] * y, n) = 0
          [] rule = "or1"  -> AllIndicesZero(b) /\ HasConstantBase(b) /\ x = 0
          [] rule \in {"or2", "xor"} -> AllIndicesZero(a) /\ AllIndicesZero(b)
          [] rule = "shl"  -> positive /\ AllIndicesZero(b)
          [] rule \in {"udiv", "urem"} ->
                 /\ positive /\ AllIndicesZero(b)
                 /\ NoUnsignedOverflow(a, x)
                 /\ Apply("urem", x, y, n) = 0

ProposedIndex(rule, a, b, y, l) ==
    LET n == a.width
    IN  CASE rule \in {"add", "sub"} -> Apply(rule, a.idx[l], b.idx[l], n)
          [] rule \in {"and1", "and2", "and4"} -> And(a.idx[l], y)
          [] rule = "and3" -> And(a.idx[l], Cut(y + b.idx[l], n))
          [] rule \in {"mul1", "mul2"} -> Cut(a.idx[l] * y, n)
          [] rule = "or1" -> Cut(Or(a.idx[l], y) - y, n)
          [] rule \in {"or2", "xor"} -> 0
          [] rule \in {"shl", "lshr", "udiv", "urem"} -> Apply(rule, a.idx[l], y, n)

Proved(rule, a, b) ==
    \A x \in a.base, y \in b.base : Assumption(rule, a, b, x, y)

\* tryTransform: the first rule whose assumptions are proved.  An index that
\* does not simplify to a number fails an assertion.
TryTransform(op, a, b) ==
    LET rules == Rules(op)
        proved == {k \in DOMAIN rules : Proved(rules[k], a, b)}
    IN  IF a.width # b.width THEN NoShape
        ELSE IF proved = {} THEN Varying
        ELSE LET rule == rules[Min(proved)]
                 of(y) == [l \in Lanes |-> ProposedIndex(rule, a, b, y, l)]
                 idx == {of(y) : y \in b.base}
             IN  IF Cardinality(idx) > 1 THEN NoShape
                 ELSE Indexed({Apply(op, x, y, a.width) : x \in a.base, y \in b.base},
                              CHOOSE i \in idx : TRUE, a.width)

-----------------------------------------------------------------------------
(* The transfer functions *)

\* The checks they begin with.
Checked(shapes, s) ==
    IF \E t \in shapes : t.type = "unknown" THEN Unknown
    ELSE IF \E t \in shapes : IsVarying(t) THEN Varying
    ELSE s

BinaryOpShape(op, a, b) ==
    Checked({a, b},
        IF AllConstant({a, b}) /\ op # "shl" /\ a.width = b.width
        THEN LET f(x, y) == Apply(op, x, y, a.width)
                 x0 == ConstantBase(a)
                 y0 == ConstantBase(b)
                 actual == [l \in Lanes |-> f(AtLane(a, x0, l), AtLane(b, y0, l))]
             IN  Known(f(x0, y0), actual, a.width)
        ELSE IF op \in {"sdiv", "srem"} THEN Unknown
        ELSE TryTransform(op, a, b))

CmpShape(op, a, b) ==
    Checked({a, b},
        LET f(x, y) == Compare(op, x, y, a.width)
        IN  IF op = "ule" THEN Varying
            ELSE IF AllConstant({a, b})
            THEN LET x0 == ConstantBase(a)
                     y0 == ConstantBase(b)
                     actual == [l \in Lanes |-> f(AtLane(a, x0, l), AtLane(b, y0, l))]
                 IN  Known(f(x0, y0), actual, 1)
            ELSE IF IsUniform(a) /\ IsUniform(b)
            THEN Uniform({f(x, y) : x \in a.base, y \in b.base}, 1)
            ELSE Varying)

\* One level of a GEP into an array of elements of the given size.
GEPShape(p, v, size) ==
    Checked({p, v},
        LET n == p.width
        IN  Indexed({Cut(x + y * size, n) : x \in p.base, y \in v.base},
                    [l \in Lanes |-> Cut(p.idx[l] + v.idx[l] * size, n)], n))

\* A load from the address p; table is the value of a constant global, if p
\* is known to point into it.
LoadShape(p, constant, table, n) ==
    IF IsUniform(p) THEN Symbolic(n)
    ELSE IF ~IsIndexed(p) \/ ~constant \/ ~HasConstantBase(p) THEN Varying
    ELSE Indexed({0}, [l \in Lanes |-> table[AtLane(p, ConstantBase(p), l)]], n)

SelectWord(c, x, y) == IF c = 1 THEN x ELSE y

SelectShape(c, a, b) ==
    IF \E s \in {a, b, c} : s.type = "unknown" THEN Unknown
    ELSE IF \E s \in {a, b, c} : ~IsIndexed(s) THEN Varying
    ELSE IF AllConstant({a, b, c})
    THEN LET x0 == ConstantBase(a)
             y0 == ConstantBase(b)
             c0 == ConstantBase(c)
             actual == [l \in Lanes |-> SelectWord(AtLane(c, c0, l), AtLane(a, x0, l), AtLane(b, y0, l))]
         IN  Known(SelectWord(c0, x0, y0), actual, a.width)
    ELSE IF ~IsUniform(c) THEN Varying
    ELSE IF IsUniform(a) /\ IsUniform(b) THEN Symbolic(b.width)
    ELSE IF a.idx = b.idx
    THEN Indexed({SelectWord(z, x, y) : z \in c.base, x \in a.base, y \in b.base},
                 a.idx, a.width)
    ELSE Varying

ExtOverflows(op, a, x, l) ==
    LET half == 2^(a.width - 1)
    IN  \/ x + a.idx[l] >= 2^(a.width)
        \/ op = "sext" /\ (x % half) + (a.idx[l] % half) >= half

ConvertShape(op, a, n) ==
    Checked({a},
        LET f(x) == Convert(op, x, a.width, n)
            base == {f(x) : x \in a.base}
        IN  IF op # "trunc" /\ HasConstantBase(a)
            THEN LET x0 == ConstantBase(a)
                     actual == [l \in Lanes |-> f(AtLane(a, x0, l))]
                 IN  Known(f(x0), actual, n)
            \* extract(-1, 0) of the rule
            ELSE IF op = "sext" /\ a.width = 1 THEN NoShape
            ELSE IF op # "trunc" /\ \E x \in a.base, l \in Lanes : ExtOverflows(op, a, x, l)
            THEN Varying
            ELSE Indexed(base, [l \in Lanes |-> f(a.idx[l])], n))
=============================================================================
