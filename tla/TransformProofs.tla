---------------------------- MODULE TransformProofs ----------------------------
(***************************************************************************)
(* For every function: TransformStep leaves every instruction with         *)
(* operands that are there, that stand for its own and have the form it    *)
(* needs, and deletes what it has replaced, with nothing else.             *)
(*                                                                         *)
(* The invariant says what the tables hold for the instructions visited so *)
(* far.  It can say so exactly, in whatever order they are visited: what   *)
(* stands for a value depends on its kind and on its shape only (Home,     *)
(* VectorOf).  Deleting is about the original operands of the replaced     *)
(* instructions, which are in no cycle, because each has been visited      *)
(* behind its operands (OrderInv).                                         *)
(***************************************************************************)
EXTENDS Transform, FiniteSetTheorems, FunctionTheorems, NaturalsInduction, WellFoundedInduction, TLAPS

\* What stands for a value, and what for it as a vector.
IsNew(v) == v \in Replaced \/ (v \in Insts /\ fn.kind[v] = "join" /\ Varying(v))
Home(v) == IF IsNew(v) THEN New(v) ELSE v
VectorOf(v) == IF Varying(v) THEN Home(v) ELSE Splat(v)

\* The operands of i, as what i has become reads them.
ReadyArgs(i) == [k \in DOMAIN fn.ops[i] |->
                    IF ReadsVector(i, k) THEN VectorOf(fn.ops[i][k]) ELSE Home(fn.ops[i][k])]

Visited == IF pc = "first" THEN Insts \ pending ELSE Insts

Patched == CASE pc = "first"  -> {}
             [] pc = "second" -> Loops \ pending
             [] pc \notin {"first", "second"} -> Loops

\* The branches that need a reduction of their conditions.
Reduced == {i \in Insts : fn.kind[i] = "branch" /\ ~Uniform(fn.ops[i][1])}

\* The operands that i, or the reduction for it, reads as vectors.
Needs(i, k) == ReadsVector(i, k) \/ i \in Reduced

TypeInv ==
    /\ fn \in Functions
    /\ pc \in {"first", "second", "delete", "rejected", "done"}
    /\ pending \subseteq Insts
    /\ pc = "second" => pending \subseteq Loops

CacheInv ==
    /\ mutated = {i \in Visited : Varying(i) /\ fn.kind[i] \in {"simple", "join", "loop"}}
    /\ marked = {i \in Visited \cap Replaced : fn.kind[i] # "vcall"}
    /\ vec = [v \in Values |-> IF v \in Visited /\ Varying(v) THEN Home(v)
                               ELSE IF Splat(v) \in DOMAIN args THEN Splat(v) ELSE None]
    /\ scal = [v \in Values |-> IF v \in Visited /\ ~Varying(v) THEN Home(v) ELSE None]

\* The operands of the original instructions that are left.
OwnArgs(i) ==
    CASE fn.kind[i] \in {"simple", "join"} /\ i \in Visited -> ReadyArgs(i)
      [] i \in Patched                                      -> ReadyArgs(i)
      [] i \in Reduced \cap Visited                         -> <<New(i)>>
      [] OTHER                                              -> fn.ops[i]

NewArgs(i) ==
    CASE i \in Replaced -> ReadyArgs(i)
      [] i \in Reduced  -> <<VectorOf(fn.ops[i][1])>>
      [] OTHER          -> <<VectorOf(fn.mask[i]), i, VectorOf(fn.ops[i][1])>>

Originals == Insts \ deleted
News == {New(i) : i \in {j \in Visited : IsNew(j) \/ j \in Reduced}}
Splats == {Splat(v) : v \in {u \in Visited \cup Params : ~Varying(u)}}

ArgsInv ==
    /\ DOMAIN args \subseteq Originals \cup News \cup Splats
    /\ Originals \cup News \subseteq DOMAIN args
    /\ \A i \in Originals : args[i] = OwnArgs(i)
    /\ \A i \in Visited : IsNew(i) \/ i \in Reduced => args[New(i)] = NewArgs(i)
    /\ \A v \in Values : Splat(v) \in DOMAIN args => args[Splat(v)] = <<Home(v)>>

\* What is read as a vector, and is none, has been broadcast.
SplatsInv ==
    \A i \in Visited : (i \in Loops => i \in Patched) =>
        \A k \in DOMAIN fn.ops[i] :
            Needs(i, k) /\ ~Varying(fn.ops[i][k]) => Splat(fn.ops[i][k]) \in DOMAIN args

OrderInv ==
    /\ \A i \in Visited : Before(i) \subseteq Visited
    /\ \A S \in SUBSET (Visited \cap Replaced) :
          S # {} => \E i \in S : Elements(fn.ops[i]) \cap S = {}

DeletedInv ==
    /\ deleted \subseteq Replaced
    /\ deleted # {} => pc \notin {"first", "second"}
    /\ pc = "done" => marked \subseteq deleted

IInv == TypeInv /\ CacheInv /\ ArgsInv /\ SplatsInv /\ OrderInv /\ DeletedInv

-----------------------------------------------------------------------------
(* Values and their names *)

LEMMA FnFacts ==
    ASSUME fn \in Functions
    PROVE  /\ IsFiniteSet(Insts) /\ Insts \cap Params = {}
           /\ ParamMask \in Params
           /\ \A v \in Values : v = Old(v[2]) /\ v # None
           /\ fn.varying \subseteq Insts
           /\ \A i \in Insts :
                 /\ fn.kind[i] \in {"simple", "join", "loop", "branch",
                                    "load", "store", "api", "reduce", "lanes", "vcall"}
                 /\ fn.ops[i] \in Seq(Values)
                 /\ fn.mask[i] \in Values
                 /\ fn.kind[i] \in {"load", "branch"} => Len(fn.ops[i]) = 1
                 /\ fn.kind[i] \in {"store", "join", "loop"} => Len(fn.ops[i]) = 2
                 /\ fn.kind[i] = "reduce" => Len(fn.ops[i]) > 1
BY TransformAssumption DEF Insts, Values

LEMMA ShapeFacts ==
    ASSUME fn \in Functions, NEW i \in Insts
    PROVE  /\ \A v \in Elements(fn.ops[i]) : v \in Values
           /\ DOMAIN fn.ops[i] = 1..Len(fn.ops[i])
           /\ \A k \in DOMAIN fn.ops[i] : fn.ops[i][k] \in Elements(fn.ops[i])
           /\ fn.kind[i] \in {"simple", "join", "loop", "api"} /\ ~Varying(i) =>
                 \A v \in Elements(fn.ops[i]) : ~Varying(v)
           /\ fn.kind[i] \in {"load", "store"} => ~Varying(fn.ops[i][1])
           /\ fn.kind[i] = "branch" => ~Varying(i) /\ fn.ops[i][1] \in Elements(fn.ops[i])
<1>1. ShapesFit(fn)
  BY TransformAssumption
<1>2. fn.ops[i] \in Seq(Values) /\ fn.varying \subseteq Insts /\ Insts \cap Params = {}
  BY FnFacts
<1>3. i # ParamMask
  BY FnFacts
<1>4. Varying(i) <=> i \in fn.varying
  BY <1>3 DEF Varying
<1>5. \A v \in Elements(fn.ops[i]) : v \in Values
  BY <1>2 DEF Elements
<1>6. DOMAIN fn.ops[i] = 1..Len(fn.ops[i])
  BY <1>2
<1>7. fn.kind[i] \in {"simple", "join", "loop", "api"} /\ ~Varying(i) =>
          \A v \in Elements(fn.ops[i]) : ~Varying(v)
  BY <1>1, <1>4 DEF ShapesFit, Varying, Insts
<1>8. fn.kind[i] \in {"load", "store"} => ~Varying(fn.ops[i][1])
  BY <1>1 DEF ShapesFit, Varying, Insts
<1>9. fn.kind[i] = "branch" => ~Varying(i) /\ fn.ops[i][1] \in Elements(fn.ops[i])
  <2>1. fn.kind[i] = "branch" => ~Varying(i)
    BY <1>1, <1>4 DEF ShapesFit, Insts
  <2>2. fn.kind[i] = "branch" => 1 \in DOMAIN fn.ops[i]
    BY <1>6, FnFacts
  <2> QED
    BY <2>1, <2>2 DEF Elements
<1> QED
  BY <1>5, <1>6, <1>7, <1>8, <1>9 DEF Elements

\* What is not read as a vector is none.
\* What is read without the cache is scalar, and stays.
LEMMA RawFacts ==
    ASSUME fn \in Functions, NEW i \in Insts,
           fn.kind[i] = "reduce" \/ (fn.kind[i] = "branch" /\ Uniform(fn.ops[i][1]))
    PROVE  /\ 1 \in DOMAIN fn.ops[i] /\ fn.ops[i][1] \in Values
           /\ ~Varying(fn.ops[i][1])
           /\ fn.ops[i][1] \notin Replaced
           /\ ~IsNew(fn.ops[i][1]) /\ Home(fn.ops[i][1]) = fn.ops[i][1]
<1> DEFINE v == fn.ops[i][1]
<1>1. DOMAIN fn.ops[i] = 1..Len(fn.ops[i]) /\ Len(fn.ops[i]) \in Nat
  BY FnFacts, ShapeFacts
<1>2. 1 \in DOMAIN fn.ops[i]
  BY <1>1, FnFacts
<1>3. v \in Values
  BY <1>2, ShapeFacts
<1>4. ReadRawFits(fn)
  BY TransformAssumption
<1>5. InPlaceScalar(fn, v)
  <2>1. CASE fn.kind[i] = "reduce"
    BY <1>4, <2>1 DEF ReadRawFits, Insts
  <2>2. CASE fn.kind[i] = "branch"
    <3>1. v \notin fn.varying \cup fn.indexed \cup {ParamMask}
      BY <2>2 DEF Uniform, Varying
    <3>2. v \in fn.varying \cup fn.indexed \cup {ParamMask} \/ InPlaceScalar(fn, v)
      BY <1>4, <2>2 DEF ReadRawFits, Insts
    <3> QED
      BY <3>1, <3>2
  <2> QED
    BY <2>1, <2>2
<1>6. \/ v \in Params \ {ParamMask}
      \/ v \in Insts \ fn.varying /\ fn.kind[v] \in {"simple", "join", "loop"}
  BY <1>5 DEF InPlaceScalar, Insts
<1>7. ~Varying(v)
  BY <1>6, FnFacts DEF Varying
<1>8. v \notin Replaced
  BY <1>6, FnFacts DEF Replaced
<1>9. ~IsNew(v)
  BY <1>7, <1>8 DEF IsNew
<1> QED
  BY <1>2, <1>3, <1>7, <1>8, <1>9 DEF Home

LEMMA ScalarReads ==
    ASSUME fn \in Functions, NEW i \in Insts, fn.kind[i] # "branch",
           NEW k \in DOMAIN fn.ops[i], ~ReadsVector(i, k)
    PROVE  ~Varying(fn.ops[i][k])
<1>1. DOMAIN fn.ops[i] = 1..Len(fn.ops[i]) /\ fn.ops[i][k] \in Elements(fn.ops[i])
  BY ShapeFacts
<1>2. CASE fn.kind[i] = "load"
  BY <1>1, <1>2, FnFacts, ShapeFacts
<1>3. CASE fn.kind[i] = "store"
  <2>1. k = 1
    BY <1>1, <1>3, FnFacts DEF ReadsVector
  <2> QED
    BY <1>3, <2>1, ShapeFacts
<1>4. CASE fn.kind[i] \in {"simple", "join", "loop", "api"}
  <2>1. ~Varying(i)
    BY <1>4 DEF ReadsVector
  <2> QED
    BY <1>1, <1>4, <2>1, ShapeFacts
<1>5. CASE fn.kind[i] = "reduce"
  <2>1. k = 1
    BY <1>5 DEF ReadsVector
  <2> QED
    BY <1>5, <2>1, RawFacts
<1>6. CASE fn.kind[i] = "vcall"
  BY <1>6 DEF ReadsVector
<1>7. fn.kind[i] # "lanes"
  BY DEF ReadsVector
<1> QED
  BY <1>2, <1>3, <1>4, <1>5, <1>6, <1>7, FnFacts

LEMMA Names ==
    ASSUME fn \in Functions, NEW u \in Values, NEW v \in Values
    PROVE  /\ New(u) \notin Values /\ Splat(u) \notin Values
           /\ New(u) # Splat(v) /\ New(u) # None /\ Splat(u) # None
           /\ New(u) = New(v) => u = v
           /\ Splat(u) = Splat(v) => u = v
           /\ Origin(New(u)) = u /\ Origin(Splat(u)) = u
           /\ New(u)[1] # "splat" /\ Splat(u)[1] = "splat"
<1>1. /\ u = Old(u[2]) /\ v = Old(v[2])
      /\ \A x \in Values : x = Old(x[2])
  BY FnFacts
<1>2. \A x \in Values : x[1] = "old"
  BY <1>1 DEF Old
<1>3. New(u)[1] = "new" /\ Splat(u)[1] = "splat" /\ Splat(v)[1] = "splat" /\ None[1] = "old"
  BY DEF New, Splat, None, Old
<1>4. /\ New(u)[2] = u[2] /\ New(v)[2] = v[2]
      /\ Splat(u)[2] = u[2] /\ Splat(v)[2] = v[2]
  BY DEF New, Splat
<1>5. u[2] = v[2] => u = v
  BY <1>1
<1>6. Origin(New(u)) = u /\ Origin(Splat(u)) = u
  BY <1>1, <1>4 DEF Origin
<1> QED
  BY <1>2, <1>3, <1>4, <1>5, <1>6

\* What the function alone determines stays as it is.
LEMMA Rigid ==
    ASSUME fn' = fn
    PROVE  /\ Insts' = Insts /\ Values' = Values /\ Loops' = Loops
           /\ Replaced' = Replaced /\ Reduced' = Reduced
           /\ \A v : Varying(v)' <=> Varying(v)
           /\ \A v : IsNew(v)' <=> IsNew(v)
           /\ \A v : Home(v)' = Home(v)
           /\ \A v : VectorOf(v)' = VectorOf(v)
           /\ \A v : ReadyArgs(v)' = ReadyArgs(v)
           /\ \A v : NewArgs(v)' = NewArgs(v)
           /\ \A v : Before(v)' = Before(v)
           /\ \A v, k : ReadsVector(v, k)' <=> ReadsVector(v, k)
           /\ \A v, k : Needs(v, k)' <=> Needs(v, k)
<1>1. /\ Insts' = Insts /\ Values' = Values /\ Loops' = Loops /\ Replaced' = Replaced
      /\ \A v : Varying(v)' <=> Varying(v)
      /\ \A v : Uniform(v)' <=> Uniform(v)
  BY DEF Insts, Values, Loops, Replaced, Varying, Uniform
<1>2. /\ \A v : Before(v)' = Before(v)
      /\ \A v, k : ReadsVector(v, k)' <=> ReadsVector(v, k)
      /\ Reduced' = Reduced
      /\ \A v, k : Needs(v, k)' <=> Needs(v, k)
  BY <1>1 DEF Before, ReadsVector, Reduced, Needs
<1>3. \A v : IsNew(v)' <=> IsNew(v)
  BY <1>1 DEF IsNew
<1>4. \A v : Home(v)' = Home(v)
  BY <1>3 DEF Home
<1>5. \A v : VectorOf(v)' = VectorOf(v)
  BY <1>1, <1>4 DEF VectorOf
<1>6. \A v : ReadyArgs(v)' = ReadyArgs(v)
  BY <1>2, <1>4, <1>5 DEF ReadyArgs
<1>7. \A v : NewArgs(v)' = NewArgs(v)
  BY <1>1, <1>2, <1>5, <1>6 DEF NewArgs
<1> QED
  BY <1>1, <1>2, <1>3, <1>4, <1>5, <1>6, <1>7

-----------------------------------------------------------------------------
(* The value cache *)

\* The values that have been visited, or need not be.
There == Visited \cup Params

LEMMA HomeFacts ==
    ASSUME fn \in Functions, NEW v \in Values
    PROVE  /\ Home(v) # None
           /\ Home(v) \in Values => Home(v) = v /\ ~IsNew(v)
           /\ Home(v) # Splat(v)
           /\ v \in Params => Home(v) = v
           /\ Varying(v) => v \in Insts \/ v = ParamMask
<1>1. v # None /\ New(v) # None /\ New(v) \notin Values /\ Splat(v) \notin Values
      /\ New(v) # Splat(v)
  BY Names, FnFacts
<1>2. v \in Params => ~IsNew(v)
  BY FnFacts DEF IsNew, Replaced
<1>3. Varying(v) => v \in Insts \/ v = ParamMask
  BY FnFacts DEF Varying
<1> QED
  BY <1>1, <1>2, <1>3 DEF Home

\* There are only such broadcasts as make sense, and no new instruction or
\* broadcast is an original value.
LEMMA ArgsNames ==
    ASSUME IInv, NEW v \in Values
    PROVE  /\ v \in DOMAIN args => v \in Insts
           /\ Splat(v) \in DOMAIN args => v \in There /\ ~Varying(v)
           /\ New(v) \in DOMAIN args => v \in Visited /\ (IsNew(v) \/ v \in Reduced)
<1>1. fn \in Functions /\ Visited \subseteq Insts /\ Insts \subseteq Values
      /\ Visited \cup Params \subseteq Values
  BY DEF IInv, TypeInv, Visited, Values
<1>2. DOMAIN args \subseteq Originals \cup News \cup Splats /\ Originals \subseteq Insts
  BY DEF IInv, ArgsInv, Originals
<1>3. /\ v \notin News /\ v \notin Splats
      /\ Splat(v) \notin Insts /\ Splat(v) \notin News
      /\ New(v) \notin Insts /\ New(v) \notin Splats
  BY <1>1, Names DEF News, Splats
<1>4. New(v) \in News => v \in Visited /\ (IsNew(v) \/ v \in Reduced)
  BY <1>1, Names DEF News
<1>5. Splat(v) \in Splats => v \in There /\ ~Varying(v)
  BY <1>1, Names DEF Splats, There
<1> QED
  BY <1>2, <1>3, <1>4, <1>5

LEMMA CacheFacts ==
    ASSUME IInv, NEW v \in There
    PROVE  /\ v \in Values
           /\ IsVector(v) => Varying(v)
           /\ HasVector(v) <=> Varying(v) \/ Splat(v) \in DOMAIN args
           /\ Vector(v) = VectorOf(v)
           /\ ~Varying(v) => Scalar(v) = Home(v)
<1>1. fn \in Functions /\ Visited \subseteq Insts
  BY DEF IInv, TypeInv, Visited
<1>2. v \in Values
  BY <1>1 DEF There, Values
<1>3. IsVector(v) <=> v \in mutated \cup {ParamMask}
  BY <1>2, ArgsNames DEF IsVector
<1>4. IsVector(v) => Varying(v)
  BY <1>3 DEF IInv, CacheInv, Varying
<1>5. vec[v] = IF v \in Visited /\ Varying(v) THEN Home(v)
               ELSE IF Splat(v) \in DOMAIN args THEN Splat(v) ELSE None
  BY <1>2 DEF IInv, CacheInv
<1>6. scal[v] = IF v \in Visited /\ ~Varying(v) THEN Home(v) ELSE None
  BY <1>2 DEF IInv, CacheInv
<1>7. Home(v) # None /\ Splat(v) # None
  BY <1>1, <1>2, HomeFacts, Names
<1>8. CASE Varying(v)
  <2>1. Splat(v) \notin DOMAIN args
    BY <1>2, <1>8, ArgsNames
  <2>2. CASE v \in Visited
    BY <1>2, <1>4, <1>5, <1>7, <1>8, <2>1, <2>2 DEF HasVector, Vector, VectorOf
  <2>3. CASE v \notin Visited
    <3>1. v = ParamMask /\ v \in Params
      BY <1>1, <1>2, <1>8, <2>3, HomeFacts, FnFacts DEF There
    <3>2. IsVector(v) /\ vec[v] = None /\ Home(v) = v
      BY <1>1, <1>2, <1>3, <1>5, <2>1, <2>3, <3>1, HomeFacts
    <3> QED
      BY <1>2, <1>8, <3>2 DEF HasVector, Vector, VectorOf
  <2> QED
    BY <2>2, <2>3
<1>9. CASE ~Varying(v)
  <2>1. vec[v] = IF Splat(v) \in DOMAIN args THEN Splat(v) ELSE None
    BY <1>5, <1>9
  <2>2. HasVector(v) <=> Splat(v) \in DOMAIN args
    BY <1>2, <1>4, <1>7, <1>9, <2>1 DEF HasVector
  <2>3. Vector(v) = Splat(v)
    <3>1. CASE Splat(v) \in DOMAIN args
      BY <1>2, <1>7, <2>1, <3>1 DEF Vector
    <3>2. CASE Splat(v) \notin DOMAIN args
      <4>1. vec[v] = None /\ ~IsVector(v) /\ ~HasVector(v)
        BY <1>4, <1>9, <2>1, <2>2, <3>2
      <4> QED
        BY <4>1 DEF Vector
    <3> QED
      BY <3>1, <3>2
  <2>4. Scalar(v) = Home(v)
    <3>1. CASE v \in Visited
      BY <1>2, <1>6, <1>7, <1>9, <3>1 DEF Scalar
    <3>2. CASE v \notin Visited
      <4>1. scal[v] = None /\ Home(v) = v
        BY <1>1, <1>2, <1>6, <3>2, HomeFacts DEF There
      <4> QED
        BY <1>2, <4>1 DEF Scalar
    <3> QED
      BY <3>1, <3>2
  <2> QED
    BY <1>2, <1>4, <1>9, <2>2, <2>3, <2>4 DEF VectorOf
<1> QED
  BY <1>8, <1>9

\* The assertion of getVectorValue holds for values that are there.
LEMMA IsReady ==
    ASSUME IInv, NEW V \in SUBSET There
    PROVE  /\ ~NotReady(V)
           /\ \A v \in V : v \in Broadcasts(V) <=> ~Varying(v) /\ Splat(v) \notin DOMAIN args
<1>1. \A v \in V : HasVector(v) <=> Varying(v) \/ Splat(v) \in DOMAIN args
  BY CacheFacts
<1> QED
  BY <1>1 DEF NotReady, Broadcasts

\* Building changes the operands of f and adds the broadcasts that were missing.
LEMMA BuildFacts ==
    ASSUME IInv, NEW V \in SUBSET There, NEW f, Build(f, V),
           \A v \in Values : Splat(v) \notin DOMAIN f
    PROVE  /\ DOMAIN args' = DOMAIN f \cup DOMAIN args
                                \cup {Splat(v) : v \in {u \in V : ~Varying(u)}}
           /\ \A x \in DOMAIN f : args'[x] = f[x]
           /\ \A x \in DOMAIN args \ DOMAIN f : args'[x] = args[x]
           /\ \A v \in V : ~Varying(v) => args'[Splat(v)] = <<Home(v)>>
<1> DEFINE new == {Splat(v) : v \in Broadcasts(V)}
<1>1. fn \in Functions /\ There \subseteq Values
  BY DEF IInv, TypeInv, There, Visited, Values
<1>2. Broadcasts(V) = {v \in V : ~Varying(v) /\ Splat(v) \notin DOMAIN args}
  BY IsReady DEF Broadcasts
<1>3. new \cap DOMAIN f = {} /\ new \cap DOMAIN args = {}
  BY <1>1, <1>2
<1>4. /\ DOMAIN args' = DOMAIN f \cup new \cup DOMAIN args
      /\ \A x \in DOMAIN f : args'[x] = f[x]
      /\ \A x \in new : args'[x] = <<Scalar(Origin(x))>>
      /\ \A x \in DOMAIN args \ (new \cup DOMAIN f) : args'[x] = args[x]
  BY <1>3 DEF Build
<1>5. \A v \in Broadcasts(V) : args'[Splat(v)] = <<Home(v)>>
  <2> TAKE v \in Broadcasts(V)
  <2>1. v \in There /\ v \in Values /\ ~Varying(v)
    BY <1>1, <1>2
  <2>2. Origin(Splat(v)) = v /\ Scalar(v) = Home(v)
    BY <1>1, <2>1, Names, CacheFacts
  <2> QED
    BY <1>4, <2>2
<1>6. \A v \in V : ~Varying(v) => args'[Splat(v)] = <<Home(v)>>
  <2> TAKE v \in V
  <2> HAVE ~Varying(v)
  <2>1. CASE v \in Broadcasts(V)
    BY <1>5, <2>1
  <2>2. CASE v \notin Broadcasts(V)
    <3>1. Splat(v) \in DOMAIN args /\ v \in Values
      BY <1>1, <1>2, <2>2
    <3>2. args[Splat(v)] = <<Home(v)>>
      BY <3>1 DEF IInv, ArgsInv
    <3> QED
      BY <1>3, <1>4, <3>1, <3>2
  <2> QED
    BY <2>1, <2>2
<1>7. DOMAIN args' = DOMAIN f \cup DOMAIN args \cup {Splat(v) : v \in {u \in V : ~Varying(u)}}
  <2>1. new \subseteq {Splat(v) : v \in {u \in V : ~Varying(u)}}
    BY <1>2
  <2>2. {Splat(v) : v \in {u \in V : ~Varying(u)}} \subseteq new \cup DOMAIN args
    BY <1>2
  <2> HIDE DEF new
  <2> QED
    BY <1>4, <2>1, <2>2
<1> QED
  BY <1>3, <1>4, <1>6, <1>7

-----------------------------------------------------------------------------
(* The first pass *)

\* What the visit of i does to the tables, whatever its kind.
Visits(i, V) ==
    /\ Visit(i) /\ pc' = pc
    /\ V \subseteq There
    /\ Store(i, Home(i), V)
    /\ mutated' = IF Varying(i) /\ fn.kind[i] \in {"simple", "join", "loop"}
                  THEN mutated \cup {i} ELSE mutated
    /\ marked' = IF i \in Replaced /\ fn.kind[i] # "vcall" THEN marked \cup {i} ELSE marked
    /\ DOMAIN args' = DOMAIN args \cup {New(j) : j \in {j \in {i} : IsNew(i) \/ i \in Reduced}}
                                  \cup {Splat(v) : v \in {u \in V : ~Varying(u)}}
    /\ \A x \in DOMAIN args \ {i} : args'[x] = args[x]
    /\ args'[i] = CASE fn.kind[i] \in {"simple", "join"} -> ReadyArgs(i)
                    [] i \in Reduced                     -> <<New(i)>>
                    [] OTHER                             -> fn.ops[i]
    /\ IsNew(i) \/ i \in Reduced => args'[New(i)] = NewArgs(i)
    /\ \A v \in V : ~Varying(v) => args'[Splat(v)] = <<Home(v)>>
    /\ i \notin Loops =>
          \A k \in DOMAIN fn.ops[i] :
              Needs(i, k) /\ ~Varying(fn.ops[i][k]) => fn.ops[i][k] \in V

LEMMA VisitsNext ==
    ASSUME IInv, NEW i \in Insts, NEW V, Visits(i, V)
    PROVE  /\ fn \in Functions /\ fn' = fn /\ deleted' = deleted /\ deleted = {}
           /\ pc = "first" /\ pc' = "first"
           /\ i \notin There /\ i \in Values
           /\ Visited' = Visited \cup {i} /\ Visited \subseteq Insts
           /\ Patched' = {} /\ Patched = {}
           /\ TypeInv'
<1>1. /\ fn \in Functions /\ fn' = fn /\ deleted' = deleted /\ deleted = {}
      /\ pc = "first" /\ pc' = "first" /\ i \in pending /\ pending' = pending \ {i}
      /\ pending \subseteq Insts
  BY DEF IInv, TypeInv, DeletedInv, Visits, Visit
<1>2. Insts' = Insts
  BY <1>1, Rigid
<1>3. Visited' = Visited \cup {i} /\ Visited \subseteq Insts /\ i \notin Visited
  BY <1>1, <1>2 DEF Visited
<1>4. i \notin There /\ i \in Values
  BY <1>1, <1>3, FnFacts DEF There, Values
<1>5. TypeInv'
  BY <1>1, <1>2 DEF TypeInv
<1> QED
  BY <1>1, <1>3, <1>4, <1>5 DEF Patched

\* The broadcasts there are behind the visit.
LEMMA VisitsSplats ==
    ASSUME IInv, NEW i \in Insts, NEW V, Visits(i, V), NEW v \in Values
    PROVE  Splat(v) \in DOMAIN args' <=> Splat(v) \in DOMAIN args \/ (v \in V /\ ~Varying(v))
<1>1. fn \in Functions /\ i \in Values /\ V \subseteq Values
  BY VisitsNext DEF Visits, There, Values
<1>2. Splat(v) # New(i)
  BY <1>1, Names
<1>3. Splat(v) \in {Splat(w) : w \in {u \in V : ~Varying(u)}} <=> v \in V /\ ~Varying(v)
  BY <1>1, Names
<1> QED
  BY <1>2, <1>3 DEF Visits

LEMMA VisitsCache ==
    ASSUME IInv, NEW i \in Insts, NEW V, Visits(i, V)
    PROVE  CacheInv'
<1>1. /\ fn \in Functions /\ fn' = fn /\ i \notin There /\ i \in Values
      /\ Visited' = Visited \cup {i} /\ V \subseteq There /\ i \notin Visited
  BY VisitsNext DEF Visits, There
<1>2. /\ Insts' = Insts /\ Values' = Values /\ Replaced' = Replaced
      /\ \A v : Varying(v)' <=> Varying(v)
      /\ \A v : Home(v)' = Home(v)
  BY <1>1, Rigid
<1>3. mutated' = {j \in Visited' : Varying(j)' /\ fn'.kind[j] \in {"simple", "join", "loop"}}
  BY <1>1, <1>2 DEF IInv, CacheInv, Visits
<1>4. marked' = {j \in Visited' \cap Replaced' : fn'.kind[j] # "vcall"}
  BY <1>1, <1>2 DEF IInv, CacheInv, Visits
<1>5. scal' = [v \in Values' |-> IF v \in Visited' /\ ~Varying(v)' THEN Home(v)' ELSE None]
  <2>1. scal = [v \in Values |-> IF v \in Visited /\ ~Varying(v) THEN Home(v) ELSE None]
    BY DEF IInv, CacheInv
  <2>2. scal' = IF Varying(i) THEN scal ELSE [scal EXCEPT ![i] = Home(i)]
    BY DEF Visits, Store
  <2> QED
    BY <1>1, <1>2, <2>1, <2>2
<1>6. vec' = [v \in Values' |-> IF v \in Visited' /\ Varying(v)' THEN Home(v)'
                               ELSE IF Splat(v) \in DOMAIN args' THEN Splat(v) ELSE None]
  <2>1. vec' = [v \in Values |-> CASE v = i /\ Varying(i) -> Home(i)
                                   [] v \in Broadcasts(V) -> Splat(v)
                                   [] OTHER               -> vec[v]]
    BY DEF Visits, Store
  <2>2. ASSUME NEW v \in Values
        PROVE  vec'[v] = IF v \in Visited' /\ Varying(v) THEN Home(v)
                         ELSE IF Splat(v) \in DOMAIN args' THEN Splat(v) ELSE None
    <3>1. v \in Broadcasts(V) <=> v \in V /\ ~Varying(v) /\ Splat(v) \notin DOMAIN args
      BY <1>1, IsReady DEF Broadcasts
    <3>2. vec[v] = IF v \in Visited /\ Varying(v) THEN Home(v)
                   ELSE IF Splat(v) \in DOMAIN args THEN Splat(v) ELSE None
      BY DEF IInv, CacheInv
    <3>3. Splat(v) \in DOMAIN args' <=> Splat(v) \in DOMAIN args \/ (v \in V /\ ~Varying(v))
      BY VisitsSplats
    <3>4. Splat(v) \in DOMAIN args => v \in There /\ ~Varying(v)
      BY ArgsNames
    <3>5. CASE v = i
      <4>1. v \notin Broadcasts(V) /\ Splat(v) \notin DOMAIN args /\ Splat(v) \notin DOMAIN args'
        BY <1>1, <3>1, <3>3, <3>4, <3>5
      <4>2. CASE Varying(i)
        BY <1>1, <2>1, <3>5, <4>1, <4>2
      <4>3. CASE ~Varying(i)
        BY <1>1, <2>1, <3>2, <3>5, <4>1, <4>3
      <4> QED
        BY <4>2, <4>3
    <3>6. CASE v # i /\ v \in Broadcasts(V)
      <4>1. vec'[v] = Splat(v)
        BY <2>1, <3>6
      <4> QED
        BY <3>1, <3>3, <3>6, <4>1
    <3>7. CASE v # i /\ v \notin Broadcasts(V)
      <4>1. vec'[v] = vec[v]
        BY <2>1, <3>7
      <4>2. v \in Visited' <=> v \in Visited
        BY <1>1, <3>7
      <4>3. Splat(v) \in DOMAIN args' <=> Splat(v) \in DOMAIN args
        BY <3>1, <3>3, <3>7
      <4> QED
        BY <3>2, <4>1, <4>2, <4>3
    <3> QED
      BY <3>5, <3>6, <3>7
  <2>3. vec' = [v \in Values |-> vec'[v]]
    BY <2>1
  <2>4. \A v \in Values : vec'[v] = IF v \in Visited' /\ Varying(v)' THEN Home(v)'
                         ELSE IF Splat(v) \in DOMAIN args' THEN Splat(v) ELSE None
    BY <1>2, <2>2
  <2> QED
    BY <1>2, <2>3, <2>4
<1>7. \A v : Splat(v)' = Splat(v)
  BY DEF Splat
<1>8. None' = None
  BY DEF None, Old
<1> QED
  BY <1>3, <1>4, <1>5, <1>6, <1>7, <1>8 DEF CacheInv

LEMMA VisitsArgs ==
    ASSUME IInv, NEW i \in Insts, NEW V, Visits(i, V)
    PROVE  ArgsInv'
<1>1. /\ fn \in Functions /\ fn' = fn /\ i \notin There /\ i \in Values /\ i \notin Visited
      /\ Visited' = Visited \cup {i} /\ V \subseteq There /\ Visited \subseteq Insts
      /\ Patched' = {} /\ Patched = {} /\ deleted' = deleted /\ deleted = {}
      /\ There \subseteq Values /\ Insts \subseteq Values
  BY VisitsNext DEF Visits, There, Values
<1>2. /\ Insts' = Insts /\ Values' = Values /\ Replaced' = Replaced /\ Reduced' = Reduced
      /\ \A v : Varying(v)' <=> Varying(v)
      /\ \A v : IsNew(v)' <=> IsNew(v)
      /\ \A v : Home(v)' = Home(v)
      /\ \A v : ReadyArgs(v)' = ReadyArgs(v)
      /\ \A v : NewArgs(v)' = NewArgs(v)
  BY <1>1, Rigid
<1>3. /\ \A v : New(v)' = New(v)
      /\ \A v : Splat(v)' = Splat(v)
      /\ Params' = Params
  BY DEF New, Splat
<1>4. Originals' = Insts /\ Originals = Insts
  BY <1>1, <1>2 DEF Originals
<1>5. News' = {New(j) : j \in {j \in Visited \cup {i} : IsNew(j) \/ j \in Reduced}}
  BY <1>1, <1>2, <1>3 DEF News
<1>6. Splats' = {Splat(v) : v \in {u \in There \cup {i} : ~Varying(u)}}
  BY <1>1, <1>2, <1>3 DEF Splats, There
<1>7. /\ DOMAIN args \subseteq Insts \cup News \cup Splats
      /\ Insts \cup News \subseteq DOMAIN args
      /\ \A j \in Insts : args[j] = OwnArgs(j)
      /\ \A j \in Visited : IsNew(j) \/ j \in Reduced => args[New(j)] = NewArgs(j)
      /\ \A v \in Values : Splat(v) \in DOMAIN args => args[Splat(v)] = <<Home(v)>>
  BY <1>4 DEF IInv, ArgsInv
<1>8. /\ DOMAIN args' = DOMAIN args \cup {New(j) : j \in {j \in {i} : IsNew(i) \/ i \in Reduced}}
                                  \cup {Splat(v) : v \in {u \in V : ~Varying(u)}}
      /\ \A x \in DOMAIN args \ {i} : args'[x] = args[x]
      /\ IsNew(i) \/ i \in Reduced => args'[New(i)] = NewArgs(i)
      /\ \A v \in V : ~Varying(v) => args'[Splat(v)] = <<Home(v)>>
  BY DEF Visits
<1>9. News' = News \cup {New(j) : j \in {j \in {i} : IsNew(i) \/ i \in Reduced}}
  BY <1>5 DEF News
<1>10. Splats \subseteq Splats' /\ {Splat(v) : v \in {u \in V : ~Varying(u)}} \subseteq Splats'
  BY <1>1, <1>6 DEF Splats, There
<1>11. /\ DOMAIN args' \subseteq Insts \cup News' \cup Splats'
       /\ Insts \cup News' \subseteq DOMAIN args'
  BY <1>7, <1>8, <1>9, <1>10
<1>12. ASSUME NEW j \in Insts PROVE args'[j] = OwnArgs(j)'
  <2>1. OwnArgs(j)' = CASE fn.kind[j] \in {"simple", "join"} /\ j \in Visited \cup {i} -> ReadyArgs(j)
                        [] j \in {}                                           -> ReadyArgs(j)
                        [] j \in Reduced \cap (Visited \cup {i})               -> <<New(j)>>
                        [] OTHER                                              -> fn.ops[j]
    BY <1>1, <1>2, <1>3 DEF OwnArgs
  <2>2. CASE j = i
    <3>1. args'[i] = CASE fn.kind[i] \in {"simple", "join"} -> ReadyArgs(i)
                       [] i \in Reduced                     -> <<New(i)>>
                       [] OTHER                             -> fn.ops[i]
      BY DEF Visits
    <3>2. i \in Reduced => fn.kind[i] \notin {"simple", "join"}
      BY DEF Reduced
    <3>3. CASE fn.kind[i] \in {"simple", "join"}
      BY <2>1, <2>2, <3>1, <3>2, <3>3
    <3>4. CASE i \in Reduced
      BY <2>1, <2>2, <3>1, <3>2, <3>4
    <3>5. CASE fn.kind[i] \notin {"simple", "join"} /\ i \notin Reduced
      BY <2>1, <2>2, <3>1, <3>5
    <3> QED
      BY <3>3, <3>4, <3>5
  <2>3. CASE j # i
    <3>1. args'[j] = args[j] /\ args[j] = OwnArgs(j)
      BY <1>7, <1>8, <2>3
    <3>2. j \in Visited \cup {i} <=> j \in Visited
      BY <2>3
    <3>3. j \in Reduced \cap (Visited \cup {i}) <=> j \in Reduced \cap Visited
      BY <2>3
    <3>4. OwnArgs(j)' = OwnArgs(j)
      BY <1>1, <2>1, <3>2, <3>3 DEF OwnArgs
    <3> QED
      BY <3>1, <3>4
  <2> QED
    BY <2>2, <2>3
<1>13. ASSUME NEW j \in Visited', IsNew(j) \/ j \in Reduced PROVE args'[New(j)] = NewArgs(j)
  <2>1. CASE j = i
    BY <1>8, <1>13, <2>1
  <2>2. CASE j \in Visited
    <3>1. New(j) \in DOMAIN args
      BY <1>7, <1>13, <2>2 DEF News
    <3>2. New(j) # i
      BY <1>1, <2>2, Names
    <3> QED
      BY <1>7, <1>8, <1>13, <2>2, <3>1, <3>2
  <2> QED
    BY <1>1, <2>1, <2>2
<1>14. ASSUME NEW v \in Values, Splat(v) \in DOMAIN args' PROVE args'[Splat(v)] = <<Home(v)>>
  <2>1. CASE Splat(v) \in DOMAIN args
    <3>1. Splat(v) # i
      BY <1>1, Names
    <3> QED
      BY <1>7, <1>8, <2>1, <3>1
  <2>2. CASE Splat(v) \notin DOMAIN args
    BY <1>8, <1>14, <2>2, VisitsSplats
  <2> QED
    BY <2>1, <2>2
<1>15. \A j \in Originals' : args'[j] = OwnArgs(j)'
  BY <1>4, <1>12
<1>16. \A j \in Visited' : IsNew(j)' \/ j \in Reduced' => args'[New(j)'] = NewArgs(j)'
  BY <1>2, <1>3, <1>13
<1>17. \A v \in Values' : Splat(v)' \in DOMAIN args' => args'[Splat(v)'] = <<Home(v)'>>
  BY <1>2, <1>3, <1>14
<1> QED
  BY <1>4, <1>11, <1>15, <1>16, <1>17 DEF ArgsInv

LEMMA VisitsOrder ==
    ASSUME IInv, NEW i \in Insts, NEW V, Visits(i, V)
    PROVE  OrderInv' /\ DeletedInv' /\ SplatsInv'
<1>1. /\ fn \in Functions /\ fn' = fn /\ i \notin There /\ i \in Values /\ i \notin Visited
      /\ Visited' = Visited \cup {i} /\ V \subseteq There /\ Visited \subseteq Insts
      /\ Patched' = {} /\ Patched = {} /\ deleted' = deleted /\ deleted = {}
      /\ pc = "first" /\ pc' = "first"
  BY VisitsNext DEF Visits, There
<1>2. /\ Insts' = Insts /\ Values' = Values /\ Replaced' = Replaced /\ Loops' = Loops
      /\ \A v : Varying(v)' <=> Varying(v)
      /\ \A v : Before(v)' = Before(v)
      /\ \A v, k : Needs(v, k)' <=> Needs(v, k)
  BY <1>1, Rigid
<1>3. Before(i) \subseteq Visited
  <2>1. Before(i) \cap pending = {} /\ Before(i) \subseteq Insts
    BY DEF Visits, Visit, Before
  <2> QED
    BY <1>1, <2>1 DEF Visited
<1>4. \A j \in Replaced : Elements(fn.ops[j]) \cap Insts \subseteq Before(j)
  BY DEF Before, Loops, Replaced
<1>5. ASSUME NEW S \in SUBSET ((Visited \cup {i}) \cap Replaced), S # {}
      PROVE  \E j \in S : Elements(fn.ops[j]) \cap S = {}
  <2>1. S \subseteq Insts
    BY DEF Replaced
  <2>2. CASE S \ {i} = {}
    <3>1. S = {i} /\ i \in Replaced
      BY <1>5, <2>2
    <3>2. Elements(fn.ops[i]) \cap S = {}
      BY <1>1, <1>3, <1>4, <2>1, <3>1
    <3> QED
      BY <3>1, <3>2
  <2>3. CASE S \ {i} # {}
    <3>1. S \ {i} \in SUBSET (Visited \cap Replaced)
      OBVIOUS
    <3>2. PICK j \in S \ {i} : Elements(fn.ops[j]) \cap (S \ {i}) = {}
      BY <2>3, <3>1 DEF IInv, OrderInv
    <3>3. Before(j) \subseteq Visited /\ j \in Replaced
      BY <3>1 DEF IInv, OrderInv
    <3>4. i \notin Elements(fn.ops[j])
      BY <1>1, <1>4, <3>3
    <3> QED
      BY <3>2, <3>4
  <2> QED
    BY <2>2, <2>3
<1>6. OrderInv'
  <2>1. \A j \in Visited' : Before(j)' \subseteq Visited'
    BY <1>1, <1>2, <1>3 DEF IInv, OrderInv
  <2>2. \A S \in SUBSET (Visited' \cap Replaced') :
            S # {} => \E j \in S : Elements(fn.ops[j]) \cap S = {}
    BY <1>1, <1>2, <1>5
  <2>3. \A j : Elements(fn.ops[j])' = Elements(fn.ops[j])
    BY <1>1 DEF Elements
  <2> QED
    BY <1>1, <2>1, <2>2, <2>3 DEF OrderInv
<1>7. DeletedInv'
  BY <1>1 DEF DeletedInv
<1>8. ASSUME NEW j \in Visited', j \notin Loops,
             NEW k \in DOMAIN fn.ops[j], Needs(j, k), ~Varying(fn.ops[j][k])
      PROVE  Splat(fn.ops[j][k]) \in DOMAIN args'
  <2>1. j \in Insts /\ fn.ops[j][k] \in Values
    BY <1>1, ShapeFacts
  <2>2. CASE j = i
    <3>1. fn.ops[j][k] \in V
      BY <1>8, <2>2 DEF Visits
    <3> QED
      BY <1>8, <2>1, <3>1, VisitsSplats
  <2>3. CASE j \in Visited
    <3>1. Splat(fn.ops[j][k]) \in DOMAIN args
      BY <1>8, <2>3 DEF IInv, SplatsInv
    <3> QED
      BY <2>1, <3>1, VisitsSplats
  <2> QED
    BY <1>1, <2>2, <2>3
<1>9. SplatsInv'
  <2>1. \A j \in Visited' : (j \in Loops' => j \in Patched') => j \notin Loops
    BY <1>1, <1>2
  <2>2. \A v : Splat(v)' = Splat(v)
    BY DEF Splat
  <2> QED
    BY <1>1, <1>2, <1>8, <2>1, <2>2 DEF SplatsInv
<1> QED
  BY <1>6, <1>7, <1>9

LEMMA VisitsInv ==
    ASSUME IInv, NEW i \in Insts, NEW V, Visits(i, V)
    PROVE  IInv'
BY VisitsNext, VisitsCache, VisitsArgs, VisitsOrder DEF IInv

\* What an instruction finds when it is visited: its own operands, and
\* everything it reads has been visited.
LEMMA AtVisit ==
    ASSUME IInv, NEW i \in Insts, Visit(i)
    PROVE  /\ fn \in Functions /\ i \in Values /\ i \in DOMAIN args /\ args[i] = fn.ops[i]
           /\ i \notin Loops => Elements(fn.ops[i]) \subseteq There
           /\ fn.mask[i] \in There
           /\ New(i) \notin DOMAIN args
           /\ \A v \in Values : Splat(v) # i /\ Splat(v) # New(i)
           /\ i # New(i)
<1>1. /\ fn \in Functions /\ pc = "first" /\ i \in pending
      /\ Before(i) \cap pending = {} /\ deleted = {}
  BY DEF IInv, TypeInv, DeletedInv, Visit
<1>2. i \in Values /\ i \notin Visited /\ Patched = {} /\ Visited = Insts \ pending
  BY <1>1 DEF Values, Visited, Patched
<1>3. i \in Originals
  BY <1>1 DEF Originals
<1>4. args[i] = fn.ops[i] /\ i \in DOMAIN args
  <2>1. args[i] = OwnArgs(i) /\ i \in DOMAIN args
    BY <1>3 DEF IInv, ArgsInv
  <2>2. OwnArgs(i) = fn.ops[i]
    BY <1>2 DEF OwnArgs
  <2> QED
    BY <2>1, <2>2
<1>5. /\ \A v \in Elements(fn.ops[i]) : v \in Insts \cup Params
      /\ fn.mask[i] \in Insts \cup Params
  BY <1>1, ShapeFacts, FnFacts DEF Values
<1>6. fn.mask[i] \in There
  BY <1>1, <1>2, <1>5 DEF Before, There
<1>7. i \notin Loops => Elements(fn.ops[i]) \subseteq There
  BY <1>1, <1>2, <1>5 DEF Before, There
<1>8. New(i) \notin DOMAIN args
  BY <1>2, ArgsNames
<1>9. \A v \in Values : Splat(v) # i /\ Splat(v) # New(i)
  BY <1>1, <1>2, Names
<1>10. i # New(i)
  BY <1>1, <1>2, Names
<1> QED
  BY <1>1, <1>2, <1>4, <1>6, <1>7, <1>8, <1>9, <1>10

LEMMA InPlaceVisits ==
    ASSUME IInv, NEW i \in Insts, InPlace(i)
    PROVE  \E V : Visits(i, V)
<1> DEFINE V == IF Varying(i) THEN Elements(args[i])
                ELSE {x \in Elements(args[i]) : IsVector(x)}
           ops == [k \in DOMAIN args[i] |->
                      IF args[i][k] \in V THEN Vector(args[i][k]) ELSE Scalar(args[i][k])]
           f == [x \in {i} |-> ops]
<1>1. /\ fn.kind[i] = "simple" \/ (fn.kind[i] = "join" /\ ~Varying(i))
      /\ Visit(i) /\ Go(V) /\ Build(f, V)
      /\ mutated' = IF Varying(i) THEN mutated \cup {i} ELSE mutated
      /\ Store(i, i, V) /\ marked' = marked
  BY DEF InPlace
<1>2. /\ fn \in Functions /\ args[i] = fn.ops[i] /\ i \notin Loops
      /\ Elements(fn.ops[i]) \subseteq There /\ i \in DOMAIN args
      /\ \A v \in Values : Splat(v) # i
  BY <1>1, AtVisit DEF Loops
<1>3. i \notin Replaced /\ i \notin Reduced /\ ~IsNew(i) /\ Home(i) = i
  BY <1>1 DEF Replaced, Reduced, IsNew, Home
<1>4. ~Varying(i) => V = {} /\ \A v \in Elements(fn.ops[i]) : ~Varying(v)
  <2> HAVE ~Varying(i)
  <2>1. \A v \in Elements(fn.ops[i]) : ~Varying(v)
    BY <1>1, <1>2, ShapeFacts
  <2>2. \A v \in Elements(fn.ops[i]) : ~IsVector(v)
    BY <1>2, <2>1, CacheFacts
  <2> QED
    BY <1>2, <2>1, <2>2
<1>5. V \subseteq There /\ (Varying(i) => V = Elements(fn.ops[i]))
  BY <1>2
<1>6. \A k \in DOMAIN fn.ops[i] : ReadsVector(i, k) <=> Varying(i)
  BY <1>1 DEF ReadsVector
<1>7. ops = ReadyArgs(i)
  <2>1. ASSUME NEW k \in DOMAIN fn.ops[i]
        PROVE  ops[k] = IF ReadsVector(i, k) THEN VectorOf(fn.ops[i][k]) ELSE Home(fn.ops[i][k])
    <3>1. fn.ops[i][k] \in Elements(fn.ops[i]) /\ fn.ops[i][k] \in There
      BY <1>2 DEF Elements
    <3>2. CASE Varying(i)
      <4>1. ops[k] = Vector(fn.ops[i][k])
        BY <1>2, <1>5, <3>1, <3>2
      <4> QED
        BY <1>6, <3>1, <3>2, <4>1, CacheFacts
    <3>3. CASE ~Varying(i)
      <4>1. ops[k] = Scalar(fn.ops[i][k])
        BY <1>2, <1>4, <3>3
      <4>2. Scalar(fn.ops[i][k]) = Home(fn.ops[i][k])
        BY <1>4, <3>1, <3>3, CacheFacts
      <4> QED
        BY <1>6, <3>3, <4>1, <4>2
    <3> QED
      BY <3>2, <3>3
  <2> HIDE DEF V
  <2> QED
    BY <1>2, <2>1 DEF ReadyArgs
<1>8. \A k \in DOMAIN fn.ops[i] : Needs(i, k) => fn.ops[i][k] \in V
  BY <1>3, <1>5, <1>6 DEF Elements, Needs
<1>9. DOMAIN f = {i} /\ f[i] = ops
  OBVIOUS
<1> HIDE DEF V, ops, f
<1>10. /\ DOMAIN args' = {i} \cup DOMAIN args \cup {Splat(v) : v \in {u \in V : ~Varying(u)}}
       /\ args'[i] = ops
       /\ \A x \in DOMAIN args \ {i} : args'[x] = args[x]
       /\ \A v \in V : ~Varying(v) => args'[Splat(v)] = <<Home(v)>>
  BY <1>1, <1>2, <1>5, <1>9, BuildFacts
<1>11. pc' = pc
  BY <1>1, <1>5, IsReady DEF Go
<1>12. {New(j) : j \in {j \in {i} : IsNew(i) \/ i \in Reduced}} = {}
  BY <1>3
<1>13. Visits(i, V)
  BY <1>1, <1>2, <1>3, <1>5, <1>6, <1>7, <1>8, <1>10, <1>11, <1>12 DEF Visits
<1> QED
  BY <1>13

LEMMA ReplaceVisits ==
    ASSUME IInv, NEW i \in Insts, Replace(i)
    PROVE  \E V : Visits(i, V)
<1> DEFINE V == {args[i][k] : k \in {n \in DOMAIN args[i] : ReadsVector(i, n)}} \cup MaskOf(i)
           ops == [k \in DOMAIN args[i] |-> Read(i, k)]
           f == [x \in {New(i)} |-> ops]
<1>1. /\ i \in Replaced /\ Visit(i) /\ Go(V) /\ Build(f, V)
      /\ marked' = Obsolete(i) /\ Store(i, New(i), V) /\ mutated' = mutated
  BY DEF Replace
<1>2. /\ fn \in Functions /\ args[i] = fn.ops[i] /\ i \notin Loops
      /\ Elements(fn.ops[i]) \subseteq There /\ fn.mask[i] \in There /\ i \in DOMAIN args
      /\ New(i) \notin DOMAIN args /\ i # New(i)
      /\ \A v \in Values : Splat(v) # New(i)
  BY <1>1, AtVisit DEF Loops, Replaced
<1>3. /\ fn.kind[i] \in {"load", "store", "api", "reduce", "lanes", "vcall"}
      /\ i \notin Reduced /\ IsNew(i) /\ Home(i) = New(i)
  BY <1>1 DEF Replaced, Reduced, IsNew, Home
<1>4. \A k \in DOMAIN fn.ops[i] : fn.ops[i][k] \in There
  BY <1>2 DEF Elements
<1>5. V \subseteq There /\ \A k \in DOMAIN fn.ops[i] : Needs(i, k) => fn.ops[i][k] \in V
  <2>1. MaskOf(i) \subseteq There
    BY <1>2 DEF MaskOf
  <2> QED
    BY <1>2, <1>3, <1>4, <2>1 DEF Needs
<1>6. \A k \in DOMAIN fn.ops[i] : ~ReadsVector(i, k) => ~Varying(fn.ops[i][k])
  BY <1>2, <1>3, ScalarReads
<1>7. ops = ReadyArgs(i)
  <2>1. ASSUME NEW k \in DOMAIN fn.ops[i]
        PROVE  ops[k] = IF ReadsVector(i, k) THEN VectorOf(fn.ops[i][k]) ELSE Home(fn.ops[i][k])
    <3>1. /\ Vector(fn.ops[i][k]) = VectorOf(fn.ops[i][k])
          /\ ~Varying(fn.ops[i][k]) => Scalar(fn.ops[i][k]) = Home(fn.ops[i][k])
      BY <1>4, CacheFacts
    <3>2. ops[k] = Read(i, k)
      BY <1>2
    <3>3. CASE ReadsVector(i, k)
      BY <1>2, <3>1, <3>2, <3>3 DEF Read
    <3>4. CASE ~ReadsVector(i, k) /\ fn.kind[i] = "reduce"
      <4>1. k = 1
        BY <3>4 DEF ReadsVector
      <4>2. Home(fn.ops[i][k]) = fn.ops[i][k]
        BY <1>2, <3>4, <4>1, RawFacts
      <4> QED
        BY <1>2, <3>2, <3>4, <4>2 DEF Read
    <3>5. CASE ~ReadsVector(i, k) /\ fn.kind[i] # "reduce"
      BY <1>2, <1>6, <3>1, <3>2, <3>5 DEF Read
    <3> QED
      BY <3>3, <3>4, <3>5
  <2> QED
    BY <1>2, <2>1 DEF ReadyArgs
<1>8. DOMAIN f = {New(i)} /\ f[New(i)] = ops
  OBVIOUS
<1> HIDE DEF V, ops, f
<1>9. /\ DOMAIN args' = {New(i)} \cup DOMAIN args \cup {Splat(v) : v \in {u \in V : ~Varying(u)}}
      /\ args'[New(i)] = ops
      /\ \A x \in DOMAIN args \ {New(i)} : args'[x] = args[x]
      /\ \A v \in V : ~Varying(v) => args'[Splat(v)] = <<Home(v)>>
  BY <1>1, <1>2, <1>5, <1>8, BuildFacts
<1>10. pc' = pc
  BY <1>1, <1>5, IsReady DEF Go
<1>11. {New(j) : j \in {j \in {i} : IsNew(i) \/ i \in Reduced}} = {New(i)}
  BY <1>3
<1>12. args'[i] = fn.ops[i]
  BY <1>2, <1>9
<1>13. NewArgs(i) = ReadyArgs(i)
  BY <1>1, <1>3 DEF NewArgs
<1>14. marked' = IF i \in Replaced /\ fn.kind[i] # "vcall" THEN marked \cup {i} ELSE marked
  BY <1>1 DEF Obsolete
<1>15. /\ DOMAIN args' = DOMAIN args \cup {New(j) : j \in {j \in {i} : IsNew(i) \/ i \in Reduced}}
                                     \cup {Splat(v) : v \in {u \in V : ~Varying(u)}}
       /\ \A x \in DOMAIN args \ {i} : args'[x] = args[x]
       /\ args'[New(i)] = NewArgs(i)
  BY <1>2, <1>7, <1>9, <1>11, <1>13
<1>16. args'[i] = CASE fn.kind[i] \in {"simple", "join"} -> ReadyArgs(i)
                    [] i \in Reduced                     -> <<New(i)>>
                    [] OTHER                             -> fn.ops[i]
  BY <1>3, <1>12
<1>17. Visits(i, V)
  BY <1>1, <1>3, <1>5, <1>9, <1>10, <1>14, <1>15, <1>16 DEF Visits
<1> QED
  BY <1>17

\* Reading the vector that stands for a value again changes nothing.
LEMMA VectorTwice ==
    ASSUME IInv, NEW v \in There
    PROVE  Vector(VectorOf(v)) = VectorOf(v)
<1>1. fn \in Functions /\ v \in Values /\ Insts \subseteq Values
  BY CacheFacts DEF IInv, TypeInv, Values
<1>2. CASE VectorOf(v) = v
  BY <1>2, CacheFacts
<1>3. CASE VectorOf(v) = New(v) /\ IsNew(v) /\ Varying(v)
  <2>1. v \in Visited
    BY <1>1, <1>3, FnFacts DEF There, IsNew, Replaced
  <2>2. New(v) \in DOMAIN args /\ New(v) \notin Values /\ Origin(New(v)) = v
    BY <1>1, <1>3, <2>1, Names DEF IInv, ArgsInv, News
  <2>3. IsVector(New(v))
    BY <1>1, <1>3, <2>2 DEF IsVector
  <2> QED
    BY <1>3, <2>2, <2>3 DEF Vector
<1>4. CASE VectorOf(v) = Splat(v)
  <2>1. Splat(v) \notin Values
    BY <1>1, Names
  <2>2. Splat(Splat(v)) = Splat(v)
    BY DEF Splat
  <2> QED
    BY <1>4, <2>1, <2>2 DEF Vector
<1> QED
  BY <1>2, <1>3, <1>4 DEF VectorOf, Home

LEMMA SelectPHIVisits ==
    ASSUME IInv, NEW i \in Insts, SelectPHI(i)
    PROVE  \E V : Visits(i, V)
<1> DEFINE V == Elements(args[i]) \cup {fn.mask[i]}
           phi == [k \in DOMAIN args[i] |-> Vector(args[i][k])]
           f == [x \in {i, New(i)} |->
                    IF x = i THEN phi ELSE <<Vector(fn.mask[i]), i, Vector(phi[1])>>]
<1>1. /\ fn.kind[i] = "join" /\ Varying(i) /\ Visit(i) /\ Go(V) /\ Build(f, V)
      /\ mutated' = mutated \cup {i} /\ Store(i, New(i), V) /\ marked' = marked
  BY DEF SelectPHI, Join
<1>2. /\ fn \in Functions /\ args[i] = fn.ops[i] /\ i \notin Loops
      /\ Elements(fn.ops[i]) \subseteq There /\ fn.mask[i] \in There /\ i \in DOMAIN args
      /\ New(i) \notin DOMAIN args /\ i # New(i)
      /\ \A v \in Values : Splat(v) # i /\ Splat(v) # New(i)
  BY <1>1, AtVisit DEF Loops
<1>3. i \notin Replaced /\ i \notin Reduced /\ IsNew(i) /\ Home(i) = New(i)
  BY <1>1 DEF Replaced, Reduced, IsNew, Home
<1>4. V \subseteq There /\ \A k \in DOMAIN fn.ops[i] : fn.ops[i][k] \in V /\ fn.ops[i][k] \in There
  BY <1>2 DEF Elements
<1>5. phi = ReadyArgs(i)
  <2>1. \A k \in DOMAIN fn.ops[i] : ReadsVector(i, k)
    BY <1>1 DEF ReadsVector
  <2>2. \A k \in DOMAIN fn.ops[i] : Vector(fn.ops[i][k]) = VectorOf(fn.ops[i][k])
    BY <1>4, CacheFacts
  <2> QED
    BY <1>2, <2>1, <2>2 DEF ReadyArgs
<1>6. <<Vector(fn.mask[i]), i, Vector(phi[1])>> = NewArgs(i)
  <2>1. 1 \in DOMAIN fn.ops[i]
    BY <1>1, <1>2, FnFacts, ShapeFacts
  <2>2. phi[1] = VectorOf(fn.ops[i][1]) /\ Vector(phi[1]) = VectorOf(fn.ops[i][1])
    BY <1>2, <1>4, <2>1, CacheFacts, VectorTwice
  <2>3. Vector(fn.mask[i]) = VectorOf(fn.mask[i])
    BY <1>2, CacheFacts
  <2> QED
    BY <1>3, <2>2, <2>3 DEF NewArgs
<1>7. /\ DOMAIN f = {i, New(i)} /\ f[i] = phi
      /\ f[New(i)] = <<Vector(fn.mask[i]), i, Vector(phi[1])>>
  BY <1>2
<1> HIDE DEF V, phi, f
<1>8. /\ DOMAIN args' = {i, New(i)} \cup DOMAIN args \cup {Splat(v) : v \in {u \in V : ~Varying(u)}}
      /\ args'[i] = phi /\ args'[New(i)] = NewArgs(i)
      /\ \A x \in DOMAIN args \ {i, New(i)} : args'[x] = args[x]
      /\ \A v \in V : ~Varying(v) => args'[Splat(v)] = <<Home(v)>>
  <2>1. V \in SUBSET There /\ \A v \in Values : Splat(v) \notin DOMAIN f
    BY <1>2, <1>4, <1>7
  <2>2. /\ DOMAIN args' = DOMAIN f \cup DOMAIN args
                             \cup {Splat(v) : v \in {u \in V : ~Varying(u)}}
        /\ \A x \in DOMAIN f : args'[x] = f[x]
        /\ \A x \in DOMAIN args \ DOMAIN f : args'[x] = args[x]
        /\ \A v \in V : ~Varying(v) => args'[Splat(v)] = <<Home(v)>>
    BY <1>1, <2>1, BuildFacts
  <2>3. args'[i] = f[i] /\ args'[New(i)] = f[New(i)]
    BY <1>7, <2>2
  <2> QED
    BY <1>6, <1>7, <2>2, <2>3
<1>9. pc' = pc
  BY <1>1, <1>4, IsReady DEF Go
<1>10. {New(j) : j \in {j \in {i} : IsNew(i) \/ i \in Reduced}} = {New(i)}
  BY <1>3
<1>11. /\ DOMAIN args' = DOMAIN args \cup {New(j) : j \in {j \in {i} : IsNew(i) \/ i \in Reduced}}
                                     \cup {Splat(v) : v \in {u \in V : ~Varying(u)}}
       /\ \A x \in DOMAIN args \ {i} : args'[x] = args[x]
  BY <1>2, <1>8, <1>10
<1>12. args'[i] = CASE fn.kind[i] \in {"simple", "join"} -> ReadyArgs(i)
                    [] i \in Reduced                     -> <<New(i)>>
                    [] OTHER                             -> fn.ops[i]
  BY <1>1, <1>3, <1>5, <1>8
<1>13. Visits(i, V)
  BY <1>1, <1>3, <1>4, <1>8, <1>9, <1>11, <1>12 DEF Visits
<1> QED
  BY <1>13

LEMMA RetypePHIVisits ==
    ASSUME IInv, NEW i \in Insts, RetypePHI(i)
    PROVE  \E V : Visits(i, V)
<1>1. /\ i \in Loops /\ fn.kind[i] = "loop" /\ Visit(i) /\ Store(i, i, {})
      /\ mutated' = IF Varying(i) THEN mutated \cup {i} ELSE mutated
      /\ pc' = pc /\ args' = args /\ marked' = marked
  BY DEF RetypePHI, Loops
<1>2. i \notin Replaced /\ i \notin Reduced /\ ~IsNew(i) /\ Home(i) = i
  BY <1>1 DEF Replaced, Reduced, IsNew, Home
<1>3. args'[i] = fn.ops[i]
  BY <1>1, AtVisit
<1>4. /\ {New(j) : j \in {j \in {i} : IsNew(i) \/ i \in Reduced}} = {}
      /\ {Splat(v) : v \in {u \in {} : ~Varying(u)}} = {}
  BY <1>2
<1>5. Visits(i, {})
  BY <1>1, <1>2, <1>3, <1>4 DEF Visits
<1> QED
  BY <1>5

LEMMA BranchVisits ==
    ASSUME IInv, NEW i \in Insts, Branch(i)
    PROVE  \E V : Visits(i, V)
<1> DEFINE c == fn.ops[i][1]
           V == IF Uniform(c) THEN {} ELSE {c}
           f == [x \in {i, New(i)} |-> IF x = i THEN <<New(i)>> ELSE <<Vector(c)>>]
<1>1. /\ fn \in Functions /\ args[i] = fn.ops[i] /\ i \notin Loops
      /\ Elements(fn.ops[i]) \subseteq There /\ i \in DOMAIN args
      /\ New(i) \notin DOMAIN args /\ i # New(i)
      /\ \A v \in Values : Splat(v) # i /\ Splat(v) # New(i)
      /\ fn.kind[i] = "branch" /\ Visit(i)
  BY AtVisit DEF Branch, Loops
<1>2. /\ Store(i, i, V) /\ mutated' = mutated /\ marked' = marked
      /\ IF Uniform(c) THEN pc' = pc /\ args' = args ELSE Go(V) /\ Build(f, V)
  BY <1>1 DEF Branch
<1>3. /\ i \notin Replaced /\ ~IsNew(i) /\ Home(i) = i /\ ~Varying(i)
      /\ c \in There /\ (i \in Reduced <=> ~Uniform(c))
  BY <1>1, ShapeFacts DEF Replaced, Reduced, IsNew, Home
<1>4. Vector(c) = VectorOf(c)
  BY <1>3, CacheFacts
<1>5. DOMAIN f = {i, New(i)} /\ f[i] = <<New(i)>> /\ f[New(i)] = <<Vector(c)>>
  BY <1>1
<1>6. DOMAIN fn.ops[i] = {1}
  BY <1>1, FnFacts, ShapeFacts
<1>7. ~ReadsVector(i, 1)
  BY <1>1, <1>3 DEF ReadsVector
<1>8. \A k \in DOMAIN fn.ops[i] : Needs(i, k) => fn.ops[i][k] \in V
  BY <1>3, <1>6, <1>7 DEF Needs
<1>9. V \in SUBSET There
  BY <1>3
<1> HIDE DEF f, V
<1>10. CASE ~Uniform(c)
  <2>1. /\ DOMAIN args' = {i, New(i)} \cup DOMAIN args \cup {Splat(v) : v \in {u \in V : ~Varying(u)}}
        /\ args'[i] = <<New(i)>> /\ args'[New(i)] = <<VectorOf(c)>>
        /\ \A x \in DOMAIN args \ {i, New(i)} : args'[x] = args[x]
        /\ \A v \in V : ~Varying(v) => args'[Splat(v)] = <<Home(v)>>
    <3>1. Build(f, V) /\ \A v \in Values : Splat(v) \notin DOMAIN f
      BY <1>1, <1>2, <1>5, <1>10
    <3> HIDE DEF c
    <3>2. /\ DOMAIN args' = DOMAIN f \cup DOMAIN args
                               \cup {Splat(v) : v \in {u \in V : ~Varying(u)}}
          /\ \A x \in DOMAIN f : args'[x] = f[x]
          /\ \A x \in DOMAIN args \ DOMAIN f : args'[x] = args[x]
          /\ \A v \in V : ~Varying(v) => args'[Splat(v)] = <<Home(v)>>
      BY <1>9, <3>1, BuildFacts
    <3>3. args'[i] = f[i] /\ args'[New(i)] = f[New(i)]
      BY <1>5, <3>2
    <3> QED
      BY <1>4, <1>5, <3>2, <3>3
  <2>2. pc' = pc
    BY <1>2, <1>9, <1>10, IsReady DEF Go
  <2>3. {New(j) : j \in {j \in {i} : IsNew(i) \/ i \in Reduced}} = {New(i)}
    BY <1>3, <1>10
  <2>4. NewArgs(i) = <<VectorOf(c)>>
    BY <1>3, <1>10 DEF NewArgs
  <2>5. /\ DOMAIN args' = DOMAIN args \cup {New(j) : j \in {j \in {i} : IsNew(i) \/ i \in Reduced}}
                                      \cup {Splat(v) : v \in {u \in V : ~Varying(u)}}
        /\ \A x \in DOMAIN args \ {i} : args'[x] = args[x]
    BY <1>1, <2>1, <2>3
  <2>6. args'[i] = CASE fn.kind[i] \in {"simple", "join"} -> ReadyArgs(i)
                     [] i \in Reduced                     -> <<New(i)>>
                     [] OTHER                             -> fn.ops[i]
    BY <1>1, <1>3, <1>10, <2>1
  <2> HIDE DEF c
  <2>7. Visits(i, V)
    BY <1>1, <1>2, <1>3, <1>8, <1>9, <2>1, <2>2, <2>4, <2>5, <2>6 DEF Visits
  <2> QED
    BY <2>7
<1>11. CASE Uniform(c)
  <2>1. V = {}
    BY <1>11 DEF V
  <2>2. /\ {New(j) : j \in {j \in {i} : IsNew(i) \/ i \in Reduced}} = {}
        /\ {Splat(v) : v \in {u \in V : ~Varying(u)}} = {}
    BY <1>3, <1>11, <2>1
  <2>3. args' = args /\ pc' = pc /\ args'[i] = fn.ops[i]
    BY <1>1, <1>2, <1>11
  <2> HIDE DEF c
  <2>4. Visits(i, V)
    BY <1>1, <1>2, <1>3, <1>8, <1>9, <1>11, <2>1, <2>2, <2>3 DEF Visits
  <2> QED
    BY <2>4
<1> QED
  BY <1>10, <1>11

LEMMA TransformInv ==
    ASSUME IInv, NEW i \in Insts, Transform(i)
    PROVE  IInv'
BY InPlaceVisits, ReplaceVisits, SelectPHIVisits, RetypePHIVisits, BranchVisits, VisitsInv
   DEF Transform

-----------------------------------------------------------------------------
(* The second pass *)

\* Between the passes the tables stay as they are.
LEMMA TablesStay ==
    ASSUME IInv, UNCHANGED <<fn, args, mutated, vec, scal, marked, deleted>>,
           Visited' = Visited, Patched' = Patched, TypeInv',
           deleted # {} => pc' \notin {"first", "second"},
           pc' = "done" => marked \subseteq deleted
    PROVE  IInv'
<1>1. /\ Insts' = Insts /\ Values' = Values /\ Replaced' = Replaced /\ Reduced' = Reduced
      /\ Loops' = Loops /\ fn' = fn
      /\ \A v : Varying(v)' <=> Varying(v)
      /\ \A v : IsNew(v)' <=> IsNew(v)
      /\ \A v : Home(v)' = Home(v)
      /\ \A v : ReadyArgs(v)' = ReadyArgs(v)
      /\ \A v : NewArgs(v)' = NewArgs(v)
      /\ \A v : Before(v)' = Before(v)
      /\ \A v, k : Needs(v, k)' <=> Needs(v, k)
  BY Rigid
<1>2. CacheInv'
  BY <1>1 DEF IInv, CacheInv
<1>3. Originals' = Originals /\ News' = News /\ Splats' = Splats
  BY <1>1 DEF Originals, News, Splats
<1>4. \A v : OwnArgs(v)' = OwnArgs(v)
  BY <1>1 DEF OwnArgs
<1>5. ArgsInv'
  BY <1>1, <1>3, <1>4 DEF IInv, ArgsInv
<1>6. SplatsInv'
  BY <1>1 DEF IInv, SplatsInv
<1>7. OrderInv'
  <2>1. \A j : Elements(fn.ops[j])' = Elements(fn.ops[j])
    BY <1>1 DEF Elements
  <2> QED
    BY <1>1, <2>1 DEF IInv, OrderInv
<1>8. DeletedInv'
  BY <1>1 DEF IInv, DeletedInv
<1> QED
  BY <1>2, <1>5, <1>6, <1>7, <1>8 DEF IInv

LEMMA PassesInv ==
    ASSUME IInv, SecondPass \/ BeginDelete \/ Verify \/ UNCHANGED vars
    PROVE  IInv'
<1>1. /\ fn \in Functions /\ UNCHANGED <<fn, args, mutated, vec, scal, marked, deleted>>
      /\ pc \in {"first", "second", "delete", "rejected", "done"} /\ pending \subseteq Insts
      /\ pc = "second" => pending \subseteq Loops
      /\ deleted # {} => pc \notin {"first", "second"}
      /\ pc = "done" => marked \subseteq deleted
  BY DEF IInv, TypeInv, DeletedInv, SecondPass, BeginDelete, Verify, vars
<1>2. Insts' = Insts /\ Loops' = Loops /\ Loops \subseteq Insts
  BY <1>1, Rigid DEF Loops
<1>3. CASE SecondPass
  <2>1. pc = "first" /\ pending = {} /\ pc' = "second" /\ pending' = Loops
    BY <1>3 DEF SecondPass
  <2>2. Visited' = Visited /\ Patched' = Patched
    BY <1>2, <2>1 DEF Visited, Patched
  <2>3. TypeInv'
    BY <1>1, <1>2, <2>1 DEF TypeInv
  <2> QED
    BY <1>1, <2>1, <2>2, <2>3, TablesStay
<1>4. CASE BeginDelete
  <2>1. pc = "second" /\ pending = {} /\ pc' = "delete" /\ pending' = pending
    BY <1>4 DEF BeginDelete
  <2>2. Visited' = Visited /\ Patched' = Patched
    BY <1>2, <2>1 DEF Visited, Patched
  <2>3. TypeInv'
    BY <1>1, <1>2, <2>1 DEF TypeInv
  <2> QED
    BY <1>1, <2>1, <2>2, <2>3, TablesStay
<1>5. CASE Verify
  <2>1. /\ pc = "delete" /\ pc' \in {"rejected", "done"} /\ pending' = pending
        /\ marked \subseteq deleted
    BY <1>5 DEF Verify
  <2>2. Visited' = Visited /\ Patched' = Patched
    BY <1>2, <2>1 DEF Visited, Patched
  <2>3. TypeInv'
    BY <1>1, <1>2, <2>1 DEF TypeInv
  <2> QED
    BY <1>1, <2>1, <2>2, <2>3, TablesStay
<1>6. CASE UNCHANGED vars
  <2>1. pc' = pc /\ pending' = pending
    BY <1>6 DEF vars
  <2>2. Visited' = Visited /\ Patched' = Patched
    BY <1>2, <2>1 DEF Visited, Patched
  <2>3. TypeInv'
    BY <1>1, <1>2, <2>1 DEF TypeInv
  <2> QED
    BY <1>1, <2>1, <2>2, <2>3, TablesStay
<1> QED
  BY <1>3, <1>4, <1>5, <1>6

LEMMA PatchPHIInv ==
    ASSUME IInv, NEW i \in Insts, PatchPHI(i)
    PROVE  IInv'
<1> DEFINE V == IF Varying(i) THEN Elements(args[i]) ELSE {}
           f == [x \in {i} |-> LoopArgs(i)]
<1>1. /\ pc = "second" /\ i \in pending /\ pending' = pending \ {i} /\ Go(V) /\ Build(f, V)
      /\ vec' = [v \in Values |-> IF v \in Broadcasts(V) THEN Splat(v) ELSE vec[v]]
      /\ UNCHANGED <<fn, mutated, scal, marked, deleted>>
  BY DEF PatchPHI
<1>2. /\ fn \in Functions /\ i \in Loops /\ deleted = {} /\ Visited = Insts
      /\ Patched = Loops \ pending /\ There = Values
  BY <1>1 DEF IInv, TypeInv, DeletedInv, Visited, Patched, There, Values
<1>3. /\ fn.kind[i] = "loop" /\ i \notin Patched /\ i \notin Replaced /\ i \notin Reduced
      /\ i \in Values
  BY <1>1, <1>2 DEF Loops, Replaced, Reduced, Values
<1>4. args[i] = fn.ops[i] /\ i \in DOMAIN args /\ Originals = Insts
  <2>1. i \in Originals /\ Originals = Insts
    BY <1>2 DEF Originals
  <2>2. OwnArgs(i) = fn.ops[i]
    BY <1>3 DEF OwnArgs
  <2> QED
    BY <2>1, <2>2 DEF IInv, ArgsInv
<1>5. Elements(fn.ops[i]) \subseteq There
  BY <1>2, ShapeFacts
<1>6. V \in SUBSET There /\ \A v \in Values : Splat(v) # i
  BY <1>2, <1>3, <1>4, <1>5, Names
<1>7. \A k \in DOMAIN fn.ops[i] : ReadsVector(i, k) <=> Varying(i)
  BY <1>3 DEF ReadsVector
<1>8. LoopArgs(i) = ReadyArgs(i)
  <2>1. ASSUME NEW k \in DOMAIN fn.ops[i]
        PROVE  LoopArgs(i)[k] = IF ReadsVector(i, k) THEN VectorOf(fn.ops[i][k]) ELSE Home(fn.ops[i][k])
    <3>1. fn.ops[i][k] \in Elements(fn.ops[i]) /\ fn.ops[i][k] \in There
      BY <1>5 DEF Elements
    <3>2. ~Varying(i) => ~Varying(fn.ops[i][k])
      BY <1>2, <1>3, <3>1, ShapeFacts
    <3> QED
      BY <1>4, <1>7, <3>1, <3>2, CacheFacts DEF LoopArgs
  <2> QED
    BY <1>4, <2>1 DEF ReadyArgs, LoopArgs
<1>9. \A k \in DOMAIN fn.ops[i] : Needs(i, k) => fn.ops[i][k] \in V
  BY <1>3, <1>4, <1>7 DEF Elements, Needs
<1>10. \A v \in Values : v \in Broadcasts(V) <=> v \in V /\ ~Varying(v) /\ Splat(v) \notin DOMAIN args
  BY <1>6, IsReady DEF Broadcasts
<1>11. pc' = pc
  BY <1>1, <1>6, IsReady DEF Go
<1>12. DOMAIN f = {i} /\ f[i] = LoopArgs(i)
  OBVIOUS
<1> HIDE DEF V, f
<1>13. /\ DOMAIN args' = DOMAIN f \cup DOMAIN args
                           \cup {Splat(v) : v \in {u \in V : ~Varying(u)}}
       /\ \A x \in DOMAIN f : args'[x] = f[x]
       /\ \A x \in DOMAIN args \ DOMAIN f : args'[x] = args[x]
       /\ \A v \in V : ~Varying(v) => args'[Splat(v)] = <<Home(v)>>
  BY <1>1, <1>6, <1>12, BuildFacts
<1>14. /\ DOMAIN args' = DOMAIN args \cup {Splat(v) : v \in {u \in V : ~Varying(u)}}
       /\ args'[i] = ReadyArgs(i)
       /\ \A x \in DOMAIN args \ {i} : args'[x] = args[x]
  BY <1>4, <1>8, <1>12, <1>13
<1>15. /\ Insts' = Insts /\ Values' = Values /\ Replaced' = Replaced /\ Reduced' = Reduced
       /\ Loops' = Loops
       /\ \A v : Varying(v)' <=> Varying(v)
       /\ \A v : IsNew(v)' <=> IsNew(v)
       /\ \A v : Home(v)' = Home(v)
       /\ \A v : ReadyArgs(v)' = ReadyArgs(v)
       /\ \A v : NewArgs(v)' = NewArgs(v)
       /\ \A v : Before(v)' = Before(v)
       /\ \A v, k : Needs(v, k)' <=> Needs(v, k)
  BY <1>1, Rigid
<1>16. Visited' = Visited /\ Patched' = Patched \cup {i}
  BY <1>1, <1>2, <1>11, <1>15 DEF Visited, Patched
<1>17. \A v \in Values : Splat(v) \in DOMAIN args' <=>
           Splat(v) \in DOMAIN args \/ (v \in V /\ ~Varying(v))
  <2> TAKE v \in Values
  <2>1. Splat(v) \in {Splat(w) : w \in {u \in V : ~Varying(u)}} <=> v \in V /\ ~Varying(v)
    BY <1>2, <1>6, Names
  <2> QED
    BY <1>14, <2>1
<1>18. TypeInv'
  BY <1>1, <1>2, <1>11, <1>15 DEF IInv, TypeInv
<1>19. CacheInv'
  <2>1. ASSUME NEW v \in Values
        PROVE  vec'[v] = IF v \in Visited /\ Varying(v) THEN Home(v)
                         ELSE IF Splat(v) \in DOMAIN args' THEN Splat(v) ELSE None
    <3>1. vec[v] = IF v \in Visited /\ Varying(v) THEN Home(v)
                   ELSE IF Splat(v) \in DOMAIN args THEN Splat(v) ELSE None
      BY DEF IInv, CacheInv
    <3>2. CASE v \in Broadcasts(V)
      BY <1>1, <1>10, <1>17, <3>2
    <3>3. CASE v \notin Broadcasts(V)
      <4>1. Splat(v) \in DOMAIN args' <=> Splat(v) \in DOMAIN args
        BY <1>10, <1>17, <3>3
      <4> QED
        BY <1>1, <3>1, <3>3, <4>1
    <3> QED
      BY <3>2, <3>3
  <2>2. vec' = [v \in Values |-> IF v \in Visited /\ Varying(v) THEN Home(v)
                         ELSE IF Splat(v) \in DOMAIN args' THEN Splat(v) ELSE None]
    BY <1>1, <2>1
  <2>3. \A v : Splat(v)' = Splat(v)
    BY DEF Splat
  <2>4. vec' = [v \in Values' |-> IF v \in Visited' /\ Varying(v)' THEN Home(v)'
                         ELSE IF Splat(v)' \in DOMAIN args' THEN Splat(v)' ELSE None']
    BY <1>15, <1>16, <2>2, <2>3 DEF None, Old
  <2>5. /\ mutated' = {j \in Visited' : Varying(j)' /\ fn'.kind[j] \in {"simple", "join", "loop"}}
        /\ marked' = {j \in Visited' \cap Replaced' : fn'.kind[j] # "vcall"}
        /\ scal' = [v \in Values' |-> IF v \in Visited' /\ ~Varying(v)' THEN Home(v)' ELSE None']
    BY <1>1, <1>15, <1>16 DEF IInv, CacheInv, None, Old
  <2> QED
    BY <2>4, <2>5 DEF CacheInv
<1>20. ArgsInv'
  <2>1. Originals' = Insts /\ News' = News /\ Splats' = Splats
    BY <1>1, <1>2, <1>15, <1>16 DEF Originals, News, Splats
  <2>2. {Splat(v) : v \in {u \in V : ~Varying(u)}} \subseteq Splats
    BY <1>6 DEF Splats, There
  <2>3. /\ DOMAIN args' \subseteq Originals' \cup News' \cup Splats'
        /\ Originals' \cup News' \subseteq DOMAIN args'
    BY <1>4, <1>14, <2>1, <2>2 DEF IInv, ArgsInv
  <2>4. ASSUME NEW j \in Insts PROVE args'[j] = OwnArgs(j)'
    <3>1. OwnArgs(j)' = CASE fn.kind[j] \in {"simple", "join"} /\ j \in Visited -> ReadyArgs(j)
                          [] j \in Patched \cup {i}                    -> ReadyArgs(j)
                          [] j \in Reduced \cap Visited               -> <<New(j)>>
                          [] OTHER                                    -> fn.ops[j]
      BY <1>1, <1>15, <1>16 DEF OwnArgs, New
    <3>2. CASE j = i
      BY <1>3, <1>14, <3>1, <3>2
    <3>3. CASE j # i
      <4>1. OwnArgs(j)' = OwnArgs(j)
        BY <3>1, <3>3 DEF OwnArgs
      <4>2. j \in DOMAIN args /\ args[j] = OwnArgs(j)
        BY <1>4 DEF IInv, ArgsInv
      <4> QED
        BY <1>14, <3>3, <4>1, <4>2
    <3> QED
      BY <3>2, <3>3
  <2>5. ASSUME NEW j \in Visited, IsNew(j) \/ j \in Reduced PROVE args'[New(j)] = NewArgs(j)
    <3>1. New(j) \in DOMAIN args /\ args[New(j)] = NewArgs(j)
      BY <2>5 DEF IInv, ArgsInv, News
    <3>2. New(j) # i
      BY <1>2, <1>3, Names DEF Values
    <3> QED
      BY <1>14, <3>1, <3>2
  <2>6. ASSUME NEW v \in Values, Splat(v) \in DOMAIN args' PROVE args'[Splat(v)] = <<Home(v)>>
    <3>1. CASE Splat(v) \in DOMAIN args
      BY <1>6, <1>14, <3>1 DEF IInv, ArgsInv
    <3>2. CASE Splat(v) \notin DOMAIN args
      BY <1>13, <1>17, <2>6, <3>2
    <3> QED
      BY <3>1, <3>2
  <2>7. (\A v : New(v)' = New(v)) /\ (\A v : Splat(v)' = Splat(v))
    BY DEF New, Splat
  <2>8. \A j \in Originals' : args'[j] = OwnArgs(j)'
    BY <2>1, <2>4
  <2>9. \A j \in Visited' : IsNew(j)' \/ j \in Reduced' => args'[New(j)'] = NewArgs(j)'
    BY <1>15, <1>16, <2>5, <2>7
  <2>10. \A v \in Values' : Splat(v)' \in DOMAIN args' => args'[Splat(v)'] = <<Home(v)'>>
    BY <1>15, <2>6, <2>7
  <2> QED
    BY <2>3, <2>8, <2>9, <2>10 DEF ArgsInv
<1>21. SplatsInv'
  <2>1. ASSUME NEW j \in Visited, j \in Loops => j \in Patched \cup {i},
               NEW k \in DOMAIN fn.ops[j], Needs(j, k), ~Varying(fn.ops[j][k])
        PROVE  Splat(fn.ops[j][k]) \in DOMAIN args'
    <3>1. fn.ops[j][k] \in Values
      BY <1>2, ShapeFacts
    <3>2. CASE j = i
      BY <1>9, <1>17, <2>1, <3>1, <3>2
    <3>3. CASE j # i
      <4>1. Splat(fn.ops[j][k]) \in DOMAIN args
        BY <2>1, <3>3 DEF IInv, SplatsInv
      <4> QED
        BY <1>17, <3>1, <4>1
    <3> QED
      BY <3>2, <3>3
  <2>2. \A v : Splat(v)' = Splat(v)
    BY DEF Splat
  <2> QED
    BY <1>1, <1>15, <1>16, <2>1, <2>2 DEF SplatsInv
<1>22. OrderInv'
  <2>1. \A j : Elements(fn.ops[j])' = Elements(fn.ops[j])
    BY <1>1 DEF Elements
  <2> QED
    BY <1>1, <1>15, <1>16, <2>1 DEF IInv, OrderInv
<1>23. DeletedInv'
  BY <1>1, <1>2, <1>11 DEF DeletedInv
<1> QED
  BY <1>18, <1>19, <1>20, <1>21, <1>22, <1>23 DEF IInv

-----------------------------------------------------------------------------
(* Deleting *)

LEMMA FiniteArgs == ASSUME IInv PROVE IsFiniteSet(DOMAIN args)
<1> DEFINE I == {j \in Visited : IsNew(j) \/ j \in Reduced}
           S == {u \in Visited \cup Params : ~Varying(u)}
           f == [j \in I |-> New(j)]
           g == [u \in S |-> Splat(u)]
<1>1. fn \in Functions /\ Visited \subseteq Insts
  BY DEF IInv, TypeInv, Visited
<1>2. IsFiniteSet(Insts) /\ IsFiniteSet(Params)
  BY <1>1, FnFacts, TransformAssumption
<1>3. IsFiniteSet(I) /\ IsFiniteSet(S)
  <2>1. IsFiniteSet(Insts \cup Params)
    BY <1>2, FS_Union
  <2>2. I \in SUBSET (Insts \cup Params) /\ S \in SUBSET (Insts \cup Params)
    BY <1>1
  <2> HIDE DEF I, S
  <2> QED
    BY <2>1, <2>2, FS_Subset
<1>4. f \in Surjection(I, News)
  BY DEF Surjection, News
<1>5. g \in Surjection(S, Splats)
  BY DEF Surjection, Splats
<1>6. IsFiniteSet(News) /\ IsFiniteSet(Splats)
  <2> HIDE DEF I, S, f, g
  <2> QED
    BY <1>3, <1>4, <1>5, FS_Surjection
<1>7. IsFiniteSet(Insts \cup News \cup Splats)
  BY <1>2, <1>6, FS_Union
<1>8. DOMAIN args \in SUBSET (Insts \cup News \cup Splats)
  BY DEF IInv, ArgsInv, Originals
<1> QED
  BY <1>7, <1>8, FS_Subset

\* A non-empty set of natural numbers has a least element.
LEMMA LeastNat ==
    ASSUME NEW S \in SUBSET Nat, S # {}
    PROVE  \E m \in S : \A n \in S : m <= n
<1> DEFINE below == OpToRel(<, Nat)
<1>1. IsWellFoundedOn(below, Nat)
  BY NatLessThanWellFounded
<1>2. PICK m \in S : \A n \in S : ~(<<n, m>> \in below)
  <2> HIDE DEF below
  <2> QED
    BY <1>1, WFMin
<1>3. \A n \in S : ~(n < m)
  BY <1>2 DEF OpToRel
<1> QED
  BY <1>3

\* The stages of WithUsers up to a number.
AreStages(f, D, N) ==
    f = [n \in 0..N |-> IF n = 0 THEN D ELSE LET R == f[n - 1] IN R \cup Users(R)]

LEMMA StagesExist ==
    ASSUME NEW D, NEW N \in Nat
    PROVE  \E f : AreStages(f, D, N)
<1> DEFINE B == {m \in Nat : ~\E f : AreStages(f, D, m)}
<1>1. ASSUME B # {} PROVE FALSE
  <2>1. PICK m \in B : \A n \in B : m <= n
    <3>1. B \in SUBSET Nat
      OBVIOUS
    <3> HIDE DEF B
    <3> QED
      BY <1>1, <3>1, LeastNat
  <2>2. CASE m = 0
    <3> DEFINE g == [n \in 0..0 |-> D]
    <3>1. AreStages(g, D, 0)
      BY DEF AreStages
    <3> QED
      BY <2>1, <2>2, <3>1
  <2>3. CASE m # 0
    <3>1. m - 1 \in Nat /\ m - 1 \notin B
      BY <2>1, <2>3
    <3>2. PICK f : AreStages(f, D, m - 1)
      BY <3>1
    <3> DEFINE g == [n \in 0..m |-> IF n = m THEN f[m - 1] \cup Users(f[m - 1]) ELSE f[n]]
    <3>3. ASSUME NEW n \in 0..m
          PROVE  g[n] = IF n = 0 THEN D ELSE LET R == g[n - 1] IN R \cup Users(R)
      <4>1. CASE n = m
        <5>1. n # 0 /\ n - 1 \in 0..m /\ n - 1 # m /\ g[n - 1] = f[m - 1]
          BY <2>1, <2>3, <4>1
        <5> QED
          BY <4>1, <5>1
      <4>2. CASE n # m
        <5>1. n \in 0..(m - 1) /\ g[n] = f[n]
          BY <2>1, <4>2
        <5>2. f[n] = IF n = 0 THEN D ELSE LET R == f[n - 1] IN R \cup Users(R)
          BY <3>2, <5>1 DEF AreStages
        <5>3. n # 0 => n - 1 \in 0..m /\ n - 1 # m /\ g[n - 1] = f[n - 1]
          BY <2>1, <4>2
        <5> QED
          BY <5>1, <5>2, <5>3
      <4> QED
        BY <4>1, <4>2
    <3>4. AreStages(g, D, m)
      <4>1. g = [n \in 0..m |-> g[n]]
        OBVIOUS
      <4> HIDE DEF g
      <4> QED
        BY <3>3, <4>1 DEF AreStages
    <3> QED
      BY <2>1, <3>4
  <2> QED
    BY <2>2, <2>3
<1> QED
  BY <1>1

\* D and its users are D and something that uses them, and are in every set that
\* has D and its own users.
Closed(D, W) ==
    /\ D \subseteq W
    /\ \A x \in W : x \in D \/ x \in Users(W)
    /\ \A R : D \subseteq R /\ Users(R) \subseteq R => W \subseteq R

LEMMA WithUsersClosed ==
    ASSUME IInv, NEW D
    PROVE  Closed(D, WithUsers(D))
<1> DEFINE N == Cardinality(DOMAIN args)
           h == CHOOSE f : AreStages(f, D, N)
<1>1. N \in Nat
  BY FiniteArgs, FS_CardinalityType
<1>2. AreStages(h, D, N)
  <2> HIDE DEF N
  <2> QED
    BY <1>1, StagesExist
<1>3. WithUsers(D) = h[N]
  BY DEF WithUsers, AreStages
<1> HIDE DEF h, N
<1> DEFINE B == {n \in 0..N : ~Closed(D, h[n])}
<1>4. ASSUME B # {} PROVE FALSE
  <2>1. PICK m \in B : \A n \in B : m <= n
    <3>1. B \in SUBSET Nat
      OBVIOUS
    <3> HIDE DEF B
    <3> QED
      BY <1>4, <3>1, LeastNat
  <2>2. CASE m = 0
    <3>1. h[0] = D
      BY <1>1, <1>2 DEF AreStages
    <3>2. Closed(D, h[0])
      BY <3>1 DEF Closed
    <3> QED
      BY <2>1, <2>2, <3>2
  <2>3. CASE m # 0
    <3> DEFINE R == h[m - 1]
    <3>1. m - 1 \in 0..N /\ m - 1 \notin B
      BY <1>1, <2>1, <2>3
    <3>2. Closed(D, R)
      BY <3>1
    <3>3. h[m] = R \cup Users(R)
      BY <1>1, <1>2, <2>1, <2>3 DEF AreStages
    <3> HIDE DEF R
    <3>4. Users(R) \subseteq Users(R \cup Users(R))
      BY DEF Users
    <3>5. \A S : R \subseteq S => Users(R) \subseteq Users(S)
      BY DEF Users
    <3>6. Closed(D, R \cup Users(R))
      BY <3>2, <3>4, <3>5 DEF Closed
    <3> QED
      BY <2>1, <3>3, <3>6
  <2> QED
    BY <2>2, <2>3
<1> QED
  BY <1>1, <1>3, <1>4

\* Nothing new reads what has been replaced.
LEMMA StandsForReplaced ==
    ASSUME fn \in Functions, NEW v \in Values
    PROVE  Home(v) \notin Replaced /\ VectorOf(v) \notin Replaced
<1>1. Replaced \subseteq Values
  BY DEF Replaced, Values
<1>2. New(v) \notin Values /\ Splat(v) \notin Values
  BY Names
<1> QED
  BY <1>1, <1>2 DEF Home, VectorOf, IsNew

LEMMA ReadyReadsNone ==
    ASSUME fn \in Functions, NEW i \in Insts
    PROVE  Elements(ReadyArgs(i)) \cap Replaced = {}
<1> SUFFICES ASSUME NEW k \in DOMAIN ReadyArgs(i)
             PROVE  ReadyArgs(i)[k] \notin Replaced
  BY DEF Elements
<1>1. k \in DOMAIN fn.ops[i] /\ fn.ops[i][k] \in Values
  BY ShapeFacts DEF ReadyArgs
<1>2. ReadyArgs(i)[k] \in {Home(fn.ops[i][k]), VectorOf(fn.ops[i][k])}
  BY <1>1 DEF ReadyArgs
<1> QED
  BY <1>1, <1>2, StandsForReplaced

\* Once everything has been visited, only replaced instructions read replaced
\* ones, and they do so through their own operands.
LEMMA ReplacedUseReplaced ==
    ASSUME IInv, pc = "delete", NEW u \in DOMAIN args,
           Elements(args[u]) \cap Replaced # {}
    PROVE  u \in Replaced /\ args[u] = fn.ops[u]
<1>1. /\ fn \in Functions /\ Visited = Insts /\ Patched = Loops /\ Insts \subseteq Values
      /\ Originals \subseteq Insts
  BY DEF IInv, TypeInv, Visited, Patched, Values, Originals
<1>2. u \in Originals \/ u \in News \/ u \in Splats
  BY DEF IInv, ArgsInv
<1>3. CASE u \in Originals
  <2>1. args[u] = OwnArgs(u) /\ u \in Insts
    BY <1>1, <1>3 DEF IInv, ArgsInv
  <2>2. Elements(ReadyArgs(u)) \cap Replaced = {}
    BY <1>1, <2>1, ReadyReadsNone
  <2>3. fn.kind[u] \notin {"simple", "join", "loop"}
    <3>1. ASSUME fn.kind[u] \in {"simple", "join", "loop"} PROVE OwnArgs(u) = ReadyArgs(u)
      <4>1. u \notin Reduced
        BY <3>1 DEF Reduced
      <4> QED
        BY <1>1, <2>1, <3>1, <4>1 DEF OwnArgs, Loops
    <3> QED
      BY <2>1, <2>2, <3>1
  <2>4. u \notin Patched
    BY <1>1, <2>3 DEF Loops
  <2>5. fn.kind[u] # "branch"
    <3>1. ASSUME fn.kind[u] = "branch", u \in Reduced PROVE FALSE
      <4>1. args[u] = <<New(u)>>
        BY <1>1, <2>1, <2>3, <2>4, <3>1 DEF OwnArgs
      <4>2. New(u) \notin Replaced
        BY <1>1, <2>1, Names DEF Replaced, Values
      <4> QED
        BY <4>1, <4>2 DEF Elements
    <3>2. ASSUME fn.kind[u] = "branch", u \notin Reduced PROVE FALSE
      <4>1. args[u] = fn.ops[u]
        BY <1>1, <2>1, <2>3, <2>4, <3>2 DEF OwnArgs
      <4>2. DOMAIN fn.ops[u] = {1}
        BY <1>1, <2>1, <3>2, FnFacts, ShapeFacts
      <4>3. fn.ops[u][1] \in Replaced
        BY <4>1, <4>2 DEF Elements
      <4>4. Uniform(fn.ops[u][1])
        BY <2>1, <3>2 DEF Reduced
      <4> QED
        BY <1>1, <2>1, <3>2, <4>3, <4>4, RawFacts
    <3> QED
      BY <3>1, <3>2
  <2>6. u \in Replaced
    BY <1>1, <2>1, <2>3, <2>5, FnFacts DEF Replaced
  <2>7. u \notin Reduced
    BY <2>5 DEF Reduced
  <2>8. OwnArgs(u) = fn.ops[u]
    BY <2>3, <2>4, <2>7 DEF OwnArgs
  <2> QED
    BY <2>1, <2>6, <2>8
<1>4. CASE u \in News
  <2>1. PICK j \in Visited : (IsNew(j) \/ j \in Reduced) /\ u = New(j)
    BY <1>4 DEF News
  <2>2. args[u] = NewArgs(j) /\ j \in Insts /\ j \in Values
    BY <1>1, <2>1 DEF IInv, ArgsInv
  <2>3. CASE j \in Replaced
    <3>1. NewArgs(j) = ReadyArgs(j)
      BY <2>3 DEF NewArgs, Reduced, Replaced
    <3> QED
      BY <1>1, <2>2, <3>1, ReadyReadsNone
  <2>4. CASE j \in Reduced
    <3>1. NewArgs(j) = <<VectorOf(fn.ops[j][1])>>
      BY <2>4 DEF NewArgs, Reduced, Replaced
    <3>2. fn.ops[j][1] \in Values
      BY <1>1, <2>2, <2>4, ShapeFacts DEF Reduced
    <3>3. VectorOf(fn.ops[j][1]) \notin Replaced
      BY <1>1, <3>2, StandsForReplaced
    <3> QED
      BY <2>2, <3>1, <3>3 DEF Elements
  <2>5. CASE j \notin Replaced /\ j \notin Reduced
    <3>1. NewArgs(j) = <<VectorOf(fn.mask[j]), j, VectorOf(fn.ops[j][1])>>
      BY <2>5 DEF NewArgs
    <3>2. fn.kind[j] = "join"
      BY <2>1, <2>5 DEF IsNew
    <3>3. fn.mask[j] \in Values /\ fn.ops[j][1] \in Values
      <4>1. 1 \in DOMAIN fn.ops[j]
        BY <1>1, <2>2, <3>2, FnFacts, ShapeFacts
      <4> QED
        BY <1>1, <2>2, <4>1, FnFacts, ShapeFacts
    <3>4. VectorOf(fn.mask[j]) \notin Replaced /\ VectorOf(fn.ops[j][1]) \notin Replaced
      BY <1>1, <3>3, StandsForReplaced
    <3> QED
      BY <2>2, <2>5, <3>1, <3>4 DEF Elements
  <2> QED
    BY <2>3, <2>4, <2>5
<1>5. CASE u \in Splats
  <2>1. PICK v \in Visited \cup Params : u = Splat(v)
    BY <1>5 DEF Splats
  <2>2. v \in Values
    BY <1>1, <2>1 DEF Values
  <2>3. args[u] = <<Home(v)>>
    BY <2>1, <2>2 DEF IInv, ArgsInv
  <2>4. Home(v) \notin Replaced
    BY <1>1, <2>2, StandsForReplaced
  <2> QED
    BY <2>3, <2>4 DEF Elements
<1> QED
  BY <1>2, <1>3, <1>4, <1>5

\* Deleting reaches replaced instructions only, and none that uses itself.
LEMMA DeletesReplaced ==
    ASSUME IInv, pc = "delete", NEW D \in SUBSET Replaced
    PROVE  /\ D \subseteq WithUsers(D) /\ WithUsers(D) \subseteq Replaced
           /\ \A d \in Replaced : d \notin WithUsers(Users({d}))
<1>1. \A S \in SUBSET Replaced : \A u \in Users(S) :
          u \in Replaced /\ Elements(fn.ops[u]) \cap S # {}
  <2> TAKE S \in SUBSET Replaced
  <2> TAKE u \in Users(S)
  <2>1. u \in DOMAIN args /\ Elements(args[u]) \cap S # {} /\ Elements(args[u]) \cap Replaced # {}
    BY DEF Users
  <2> QED
    BY <2>1, ReplacedUseReplaced
<1>2. Users(Replaced) \subseteq Replaced
  BY <1>1
<1>3. D \subseteq WithUsers(D) /\ WithUsers(D) \subseteq Replaced
  BY <1>2, WithUsersClosed DEF Closed
<1>4. ASSUME NEW d \in Replaced, d \in WithUsers(Users({d})) PROVE FALSE
  <2> DEFINE W == WithUsers(Users({d}))
  <2>1. Closed(Users({d}), W)
    BY WithUsersClosed
  <2> HIDE DEF W
  <2>2. Users({d}) \subseteq Replaced
    BY <1>1
  <2>3. W \subseteq Replaced
    BY <1>2, <2>1, <2>2 DEF Closed
  <2>4. d \in W
    BY <1>4 DEF W
  <2>5. \A u \in W : Elements(fn.ops[u]) \cap W # {}
    <3> TAKE u \in W
    <3>1. u \in Users({d}) \/ u \in Users(W)
      BY <2>1 DEF Closed
    <3>2. CASE u \in Users({d})
      BY <1>1, <2>4, <3>2
    <3>3. CASE u \in Users(W)
      BY <1>1, <2>3, <3>3
    <3> QED
      BY <3>1, <3>2, <3>3
  <2>6. W \in SUBSET (Visited \cap Replaced)
    <3>1. Visited = Insts
      BY DEF Visited
    <3> QED
      BY <2>3, <3>1 DEF Replaced
  <2> QED
    BY <2>4, <2>5, <2>6 DEF IInv, OrderInv
<1> QED
  BY <1>3, <1>4

LEMMA DeleteInv ==
    ASSUME IInv, NEW i \in Insts, DeleteObsolete(i)
    PROVE  IInv'
<1> DEFINE D == WithUsers({i})
<1>1. /\ pc = "delete" /\ i \in marked
      /\ CASE ~(D \subseteq Insts)                     -> pc' = "fatal"
           [] \E d \in D : d \in WithUsers(Users({d})) -> pc' = "hangs"
           [] OTHER                                    -> UNCHANGED pc
      /\ deleted' = deleted \cup (D \cap Insts)
      /\ args' = [x \in DOMAIN args \ D |-> args[x]]
      /\ UNCHANGED <<fn, pending, mutated, vec, scal, marked>>
  BY DEF DeleteObsolete
<1>2. i \in Replaced
  BY <1>1 DEF IInv, CacheInv
<1>3. D \subseteq Replaced /\ \A d \in Replaced : d \notin WithUsers(Users({d}))
  BY <1>1, <1>2, DeletesReplaced
<1>4. fn \in Functions /\ Replaced \subseteq Insts /\ Insts \subseteq Values
  BY DEF IInv, TypeInv, Replaced, Values
<1> HIDE DEF D
<1>5. pc' = pc
  BY <1>1, <1>3, <1>4
<1>6. /\ Insts' = Insts /\ Values' = Values /\ Replaced' = Replaced /\ Reduced' = Reduced
      /\ Loops' = Loops
      /\ \A v : Varying(v)' <=> Varying(v)
      /\ \A v : IsNew(v)' <=> IsNew(v)
      /\ \A v : Home(v)' = Home(v)
      /\ \A v : ReadyArgs(v)' = ReadyArgs(v)
      /\ \A v : NewArgs(v)' = NewArgs(v)
      /\ \A v : Before(v)' = Before(v)
      /\ \A v, k : Needs(v, k)' <=> Needs(v, k)
  BY <1>1, Rigid
<1>7. Visited' = Visited /\ Patched' = Patched
  BY <1>1, <1>5, <1>6 DEF Visited, Patched
<1>8. \A v \in Values : New(v) \notin D /\ Splat(v) \notin D
  BY <1>3, <1>4, Names
<1>9. \A v \in Values : Splat(v) \in DOMAIN args' <=> Splat(v) \in DOMAIN args
  BY <1>1, <1>8
<1>10. (\A v : New(v)' = New(v)) /\ (\A v : Splat(v)' = Splat(v)) /\ None' = None
  BY DEF New, Splat, None, Old
<1>11. TypeInv'
  BY <1>1, <1>5, <1>6 DEF IInv, TypeInv
<1>12. CacheInv'
  <2>1. vec = [v \in Values |-> IF v \in Visited /\ Varying(v) THEN Home(v)
                                ELSE IF Splat(v) \in DOMAIN args THEN Splat(v) ELSE None]
    BY DEF IInv, CacheInv
  <2>2. vec' = [v \in Values |-> IF v \in Visited /\ Varying(v) THEN Home(v)
                                 ELSE IF Splat(v) \in DOMAIN args' THEN Splat(v) ELSE None]
    BY <1>1, <1>9, <2>1
  <2>3. vec' = [v \in Values' |-> IF v \in Visited' /\ Varying(v)' THEN Home(v)'
                                 ELSE IF Splat(v)' \in DOMAIN args' THEN Splat(v)' ELSE None']
    BY <1>6, <1>7, <1>10, <2>2
  <2>4. /\ mutated' = {j \in Visited' : Varying(j)' /\ fn'.kind[j] \in {"simple", "join", "loop"}}
        /\ marked' = {j \in Visited' \cap Replaced' : fn'.kind[j] # "vcall"}
        /\ scal' = [v \in Values' |-> IF v \in Visited' /\ ~Varying(v)' THEN Home(v)' ELSE None']
    BY <1>1, <1>6, <1>7, <1>10 DEF IInv, CacheInv
  <2> QED
    BY <2>3, <2>4 DEF CacheInv
<1>13. ArgsInv'
  <2>1. Originals' = Originals \ D /\ Originals \subseteq Insts
    BY <1>1, <1>3, <1>4, <1>6 DEF Originals
  <2>2. News' = News /\ Splats' = Splats /\ Visited \subseteq Insts
    BY <1>6, <1>7, <1>10 DEF News, Splats, IInv, TypeInv, Visited
  <2>3. News \cap D = {}
    BY <1>4, <1>8, <2>2 DEF News
  <2>4. DOMAIN args' = DOMAIN args \ D /\ \A x \in DOMAIN args' : args'[x] = args[x]
    BY <1>1
  <2>5. /\ DOMAIN args' \subseteq Originals' \cup News' \cup Splats'
        /\ Originals' \cup News' \subseteq DOMAIN args'
    BY <2>1, <2>2, <2>3, <2>4 DEF IInv, ArgsInv
  <2>6. \A v : OwnArgs(v)' = OwnArgs(v)
    BY <1>1, <1>6, <1>7 DEF OwnArgs
  <2>7. \A j \in Originals' : args'[j] = OwnArgs(j)'
    BY <2>1, <2>4, <2>5, <2>6 DEF IInv, ArgsInv
  <2>8. ASSUME NEW j \in Visited', IsNew(j)' \/ j \in Reduced'
        PROVE  args'[New(j)'] = NewArgs(j)'
    <3>1. j \in Visited /\ (IsNew(j) \/ j \in Reduced) /\ New(j)' = New(j)
      BY <1>6, <1>7, <1>10, <2>8
    <3>2. New(j) \in DOMAIN args'
      BY <2>2, <2>5, <3>1 DEF News
    <3> QED
      BY <1>6, <2>4, <3>1, <3>2 DEF IInv, ArgsInv
  <2>9. ASSUME NEW v \in Values', Splat(v)' \in DOMAIN args'
        PROVE  args'[Splat(v)'] = <<Home(v)'>>
    <3>1. Splat(v)' = Splat(v) /\ v \in Values
      BY <1>6, <1>10
    <3> QED
      BY <1>6, <2>4, <2>9, <3>1 DEF IInv, ArgsInv
  <2> QED
    BY <2>5, <2>7, <2>8, <2>9 DEF ArgsInv
<1>14. SplatsInv'
  <2>1. ASSUME NEW j \in Visited, j \in Loops => j \in Patched,
               NEW k \in DOMAIN fn.ops[j], Needs(j, k), ~Varying(fn.ops[j][k])
        PROVE  Splat(fn.ops[j][k]) \in DOMAIN args'
    <3>1. Splat(fn.ops[j][k]) \in DOMAIN args
      BY <2>1 DEF IInv, SplatsInv
    <3>2. fn.ops[j][k] \in Values
      <4>1. j \in Insts
        BY DEF IInv, TypeInv, Visited
      <4> QED
        BY <1>4, <4>1, ShapeFacts
    <3> QED
      BY <1>9, <3>1, <3>2
  <2> QED
    BY <1>1, <1>6, <1>7, <1>10, <2>1 DEF SplatsInv
<1>15. OrderInv'
  <2>1. \A j : Elements(fn.ops[j])' = Elements(fn.ops[j])
    BY <1>1 DEF Elements
  <2> QED
    BY <1>1, <1>6, <1>7, <2>1 DEF IInv, OrderInv
<1>16. DeletedInv'
  <2>1. deleted' \subseteq Replaced
    BY <1>1, <1>3 DEF IInv, DeletedInv
  <2> QED
    BY <1>1, <1>5, <1>6, <2>1 DEF DeletedInv
<1> QED
  BY <1>11, <1>12, <1>13, <1>14, <1>15, <1>16 DEF IInv

-----------------------------------------------------------------------------
(* The invariant, and what it means in the end *)

LEMMA InitInv == Init => IInv
<1> SUFFICES ASSUME Init PROVE IInv
  OBVIOUS
<1>1. /\ fn \in Functions /\ pc = "first" /\ pending = Insts /\ args = fn.ops
      /\ mutated = {} /\ marked = {} /\ deleted = {}
      /\ vec = [v \in Values |-> None] /\ scal = [v \in Values |-> None]
  BY DEF Init
<1>2. Visited = {} /\ Patched = {} /\ DOMAIN args = Insts
  BY <1>1 DEF Visited, Patched, Insts
<1>3. \A v \in Values : Splat(v) \notin DOMAIN args
  BY <1>1, <1>2, Names DEF Values
<1>4. CacheInv
  BY <1>1, <1>2, <1>3 DEF CacheInv
<1>5. ArgsInv
  <2>1. Originals = Insts /\ News = {}
    BY <1>1, <1>2 DEF Originals, News
  <2>2. \A i : OwnArgs(i) = fn.ops[i]
    BY <1>2 DEF OwnArgs
  <2> QED
    BY <1>1, <1>2, <1>3, <2>1, <2>2 DEF ArgsInv
<1>6. OrderInv /\ SplatsInv /\ DeletedInv /\ TypeInv
  BY <1>1, <1>2 DEF OrderInv, SplatsInv, DeletedInv, TypeInv
<1> QED
  BY <1>4, <1>5, <1>6 DEF IInv

LEMMA NextInv == IInv /\ [Next]_vars => IInv'
<1> SUFFICES ASSUME IInv, [Next]_vars PROVE IInv'
  OBVIOUS
<1>1. ASSUME NEW i \in Insts, Transform(i) PROVE IInv'
  BY <1>1, TransformInv
<1>2. ASSUME NEW i \in Insts, PatchPHI(i) PROVE IInv'
  BY <1>2, PatchPHIInv
<1>3. ASSUME NEW i \in Insts, DeleteObsolete(i) PROVE IInv'
  BY <1>3, DeleteInv
<1>4. CASE SecondPass \/ BeginDelete \/ Verify \/ Ended \/ UNCHANGED vars
  BY <1>4, PassesInv DEF Ended
<1> QED
  BY <1>1, <1>2, <1>3, <1>4 DEF Next

\* What stands for an operand when the step is done.
LEMMA StandsIn ==
    ASSUME IInv, pc = "done", NEW v \in Values
    PROVE  /\ Home(v) \in DOMAIN args \cup Params
           /\ Means(Home(v)) = v /\ Means(VectorOf(v)) = v
           /\ IsVector(Home(v)) <=> Varying(v)
           /\ Splat(v) \in DOMAIN args => IsVector(Splat(v))
<1>1. /\ fn \in Functions /\ Visited = Insts /\ Insts \subseteq Values
      /\ Insts \cap Params = {} /\ Params \subseteq Values
  BY FnFacts DEF IInv, TypeInv, Visited, Values
<1>2. /\ v \in DOMAIN args => v \in Insts
      /\ New(v) \notin Values /\ Splat(v) \notin Values
      /\ Origin(New(v)) = v /\ Origin(Splat(v)) = v
      /\ New(v)[1] # "splat" /\ Splat(v)[1] = "splat"
  BY <1>1, ArgsNames, Names
<1>3. /\ Originals \cup News \subseteq DOMAIN args /\ deleted \subseteq Replaced
      /\ mutated = {i \in Insts : Varying(i) /\ fn.kind[i] \in {"simple", "join", "loop"}}
  BY <1>1 DEF IInv, ArgsInv, DeletedInv, CacheInv
<1>4. Means(New(v)) = v /\ Means(Splat(v)) = v
  BY <1>1, <1>2 DEF Means
<1>5. Splat(v) \in DOMAIN args => IsVector(Splat(v))
  BY <1>1, <1>2 DEF IsVector
<1>6. CASE IsNew(v)
  <2>1. v \in Insts /\ Home(v) = New(v)
    BY <1>6 DEF IsNew, Home, Replaced
  <2>2. New(v) \in DOMAIN args
    BY <1>1, <1>3, <1>6, <2>1 DEF News
  <2>3. IsVector(New(v)) <=> Varying(v)
    <3>1. New(v) \notin mutated \cup {ParamMask}
      BY <1>1, <1>2, <1>3, FnFacts
    <3> QED
      BY <1>1, <1>2, <2>2, <3>1 DEF IsVector
  <2> QED
    BY <1>4, <1>5, <2>1, <2>2, <2>3 DEF VectorOf
<1>7. CASE ~IsNew(v)
  <2>1. Home(v) = v
    BY <1>7 DEF Home
  <2>2. v \in Insts => v \in DOMAIN args
    BY <1>3, <1>7 DEF IsNew, Originals
  <2>3. Means(v) = v
    BY <1>1, <1>7 DEF Means, IsNew, Values
  <2>4. IsVector(v) <=> Varying(v)
    <3>1. IsVector(v) <=> v \in mutated \cup {ParamMask}
      BY <1>1, <1>2 DEF IsVector
    <3>2. v \in Insts /\ Varying(v) => v \in mutated
      BY <1>1, <1>3, <1>7, FnFacts, ShapeFacts DEF IsNew, Replaced
    <3>3. v \notin Insts => (Varying(v) <=> v = ParamMask)
      BY <1>1, FnFacts DEF Varying
    <3>4. v = ParamMask => Varying(v)
      BY DEF Varying
    <3> QED
      BY <1>3, <3>1, <3>2, <3>3, <3>4
  <2> QED
    BY <1>1, <1>4, <1>5, <2>1, <2>2, <2>3, <2>4 DEF VectorOf, Values
<1> QED
  BY <1>6, <1>7

LEMMA ReadyIsOwn ==
    ASSUME IInv, pc = "done", NEW i \in Insts, fn.kind[i] # "branch", NEW k \in DOMAIN fn.ops[i]
    PROVE  ReadsOwn(i, k, ReadyArgs(i)[k])
<1> DEFINE v == fn.ops[i][k]
<1>1. fn \in Functions /\ Visited = Insts /\ Patched = Loops
  BY DEF IInv, TypeInv, Visited, Patched
<1>2. v \in Values
  BY <1>1, ShapeFacts
<1>3. ReadyArgs(i)[k] = IF ReadsVector(i, k) THEN VectorOf(v) ELSE Home(v)
  BY DEF ReadyArgs
<1>4. ~ReadsVector(i, k) => ~Varying(v)
  BY <1>1, ScalarReads
<1>5. ReadsVector(i, k) /\ ~Varying(v) => Splat(v) \in DOMAIN args
  BY <1>1 DEF IInv, SplatsInv, Needs
<1>6. /\ Home(v) \in DOMAIN args \cup Params
      /\ Means(Home(v)) = v /\ Means(VectorOf(v)) = v
      /\ IsVector(Home(v)) <=> Varying(v)
      /\ Splat(v) \in DOMAIN args => IsVector(Splat(v))
  BY <1>2, StandsIn
<1>7. CASE ReadsVector(i, k)
  <2>1. CASE Varying(v)
    BY <1>3, <1>6, <1>7, <2>1 DEF ReadsOwn, StandsFor, VectorOf
  <2>2. CASE ~Varying(v)
    BY <1>3, <1>5, <1>6, <1>7, <2>2 DEF ReadsOwn, StandsFor, VectorOf
  <2> QED
    BY <2>1, <2>2
<1>8. CASE ~ReadsVector(i, k)
  BY <1>3, <1>4, <1>6, <1>8 DEF ReadsOwn, StandsFor
<1> QED
  BY <1>7, <1>8

LEMMA BranchIsOwn ==
    ASSUME IInv, pc = "done", NEW i \in Insts, fn.kind[i] = "branch", NEW k \in DOMAIN fn.ops[i]
    PROVE  IF Uniform(fn.ops[i][k])
           THEN i \in DOMAIN args /\ ReadsOwn(i, k, args[i][k])
           ELSE args[i][k] = New(i) /\ ReadsOwnVector(args[New(i)][1], fn.ops[i][k])
<1> DEFINE c == fn.ops[i][1]
<1>1. /\ fn \in Functions /\ Visited = Insts /\ Patched = Loops
      /\ i \notin Loops /\ i \notin Replaced
  BY DEF IInv, TypeInv, Visited, Patched, Loops, Replaced
<1>2. k = 1 /\ c \in Values
  BY <1>1, FnFacts, ShapeFacts
<1>3. args[i] = OwnArgs(i) /\ i \in Originals /\ i \in DOMAIN args
  BY <1>1 DEF IInv, ArgsInv, DeletedInv, Originals
<1>4. CASE ~Uniform(c)
  <2>1. i \in Reduced
    BY <1>4 DEF Reduced
  <2>2. args[i] = <<New(i)>> /\ args[New(i)] = <<VectorOf(c)>>
    BY <1>1, <1>3, <2>1 DEF IInv, ArgsInv, OwnArgs, NewArgs, Reduced
  <2>3. ~Varying(c) => Splat(c) \in DOMAIN args
    BY <1>1, <1>2, <2>1 DEF IInv, SplatsInv, Needs
  <2>4. ReadsOwnVector(VectorOf(c), c)
    <3>1. /\ Home(c) \in DOMAIN args \cup Params /\ Means(VectorOf(c)) = c
          /\ IsVector(Home(c)) <=> Varying(c)
          /\ Splat(c) \in DOMAIN args => IsVector(Splat(c))
      BY <1>2, StandsIn
    <3> HIDE DEF c
    <3> QED
      BY <2>3, <3>1 DEF ReadsOwnVector, StandsFor, VectorOf
  <2> QED
    BY <1>2, <1>4, <2>2, <2>4
<1>5. CASE Uniform(c)
  <2>1. i \notin Reduced /\ ~Varying(i)
    BY <1>1, <1>5, ShapeFacts DEF Reduced
  <2>2. args[i] = fn.ops[i]
    BY <1>1, <1>3, <2>1 DEF OwnArgs
  <2>3. ~Varying(c) /\ Home(c) = c
    BY <1>1, <1>5, RawFacts
  <2>4. ~ReadsVector(i, k)
    BY <2>1 DEF ReadsVector
  <2>5. ReadsOwn(i, k, c)
    BY <1>2, <2>3, <2>4, StandsIn DEF ReadsOwn, StandsFor
  <2> QED
    BY <1>2, <1>3, <1>5, <2>2, <2>5
<1> QED
  BY <1>4, <1>5

\* After the step every instruction reads, for each operand of the instruction
\* it stands for, something that is still there, stands for this operand and has
\* the form, scalar or vector, that the instruction needs: in whatever order the
\* instructions are visited and the replaced ones deleted
\* (transform.cpp:47-60, 177-279, 1072-1271, value_cache.cpp).
THEOREM OperandsRight == Spec => []ReadsItsOperands
<1>1. IInv => ReadsItsOperands
  <2> SUFFICES ASSUME IInv, pc = "done", NEW i \in Insts, NEW k \in DOMAIN fn.ops[i]
               PROVE  CASE i \in Replaced -> ReadsOwn(i, k, args[New(i)][k])
                        [] fn.kind[i] = "branch" /\ ~Uniform(fn.ops[i][k]) ->
                              /\ args[i][k] = New(i)
                              /\ ReadsOwnVector(args[New(i)][1], fn.ops[i][k])
                        [] OTHER -> i \in DOMAIN args /\ ReadsOwn(i, k, args[i][k])
    BY DEF ReadsItsOperands
  <2>1. /\ fn \in Functions /\ Visited = Insts /\ Patched = Loops /\ deleted \subseteq Replaced
    BY DEF IInv, TypeInv, Visited, Patched, DeletedInv
  <2>2. CASE i \in Replaced
    <3>1. fn.kind[i] # "branch" /\ IsNew(i)
      BY <2>2 DEF Replaced, IsNew
    <3>2. args[New(i)] = NewArgs(i) /\ i \in Insts
      BY <2>1, <3>1 DEF IInv, ArgsInv
    <3>3. NewArgs(i) = ReadyArgs(i)
      BY <2>2, <3>1 DEF NewArgs, Reduced
    <3> QED
      BY <2>2, <3>1, <3>2, <3>3, ReadyIsOwn
  <2>3. CASE fn.kind[i] = "branch"
    BY <2>3, BranchIsOwn DEF Replaced
  <2>4. CASE i \notin Replaced /\ fn.kind[i] # "branch"
    <3>1. fn.kind[i] \in {"simple", "join", "loop"}
      BY <2>1, <2>4, FnFacts DEF Replaced
    <3>2. i \in Originals /\ i \notin Reduced
      BY <2>1, <2>4 DEF Originals, Reduced
    <3>3. i \in DOMAIN args /\ args[i] = OwnArgs(i)
      BY <3>2 DEF IInv, ArgsInv
    <3>4. OwnArgs(i) = ReadyArgs(i)
      BY <2>1, <3>1, <3>2 DEF OwnArgs, Loops
    <3> QED
      BY <2>4, <3>3, <3>4, ReadyIsOwn
  <2> QED
    BY <2>2, <2>3, <2>4
<1> QED
  BY <1>1, InitInv, NextInv, PTL DEF Spec

\* Deleting the obsolete instructions with their users never fails or stalls,
\* takes nothing but what has been replaced, and leaves only calls for which a
\* variant is called (value_cache.cpp, deleteObsoletedInsts).
THEOREM DeletionRight == Spec => []DeletesTheObsolete
<1>1. IInv => DeletesTheObsolete
  <2> SUFFICES ASSUME IInv PROVE DeletesTheObsolete
    OBVIOUS
  <2>1. pc \notin {"fatal", "hangs"} /\ deleted \subseteq Replaced
    BY DEF IInv, TypeInv, DeletedInv
  <2>2. ASSUME pc = "done", NEW i \in Replaced \ deleted PROVE fn.kind[i] = "vcall"
    <3>1. i \in Visited /\ marked \subseteq deleted
      BY <2>2 DEF IInv, DeletedInv, Visited, Replaced
    <3> QED
      BY <2>2, <3>1 DEF IInv, CacheInv
  <2> QED
    BY <2>1, <2>2 DEF DeletesTheObsolete
<1> QED
  BY <1>1, InitInv, NextInv, PTL DEF Spec
===============================================================================
