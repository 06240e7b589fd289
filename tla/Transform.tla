------------------------------ MODULE Transform -------------------------------
(***************************************************************************)
(* TransformStep (transform.cpp) with the ValueCache (value_cache.cpp):    *)
(* every instruction is vectorized in place, kept, or replaced by a new    *)
(* one; the cache maps the original values to what stands for them, as a   *)
(* scalar and as a vector; the replaced ones are deleted in the end,       *)
(* together with whatever still uses them.                                 *)
(*                                                                         *)
(* What an instruction computes is left out.  A replacement of i, however  *)
(* many instructions the code builds for it, is the one instruction        *)
(* New(i), and a broadcast of the scalar value v is Splat(v).              *)
(***************************************************************************)
EXTENDS Naturals, Sequences, FiniteSets

CONSTANTS
    Functions, \* records: kind, ops and mask of each instruction, the varying values
               \* and those that are indexed but not uniform; for calls, the parameters
               \* that are varying in the variant (promise), and if it takes a mask
    Params     \* parameters: of them, the masks are vectors

VARIABLES
    fn,        \* the function
    pc,        \* "first", "second", "delete", "verify", or how it ended
    pending,   \* the instructions that the current pass has not visited
    args,      \* the operands of all instructions there are
    mutated,   \* instructions that have been given a vector type
    vec, scal, \* the vector and the scalar value of the cache's entries
    marked,    \* to_be_deleted
    deleted    \* already_deleted

vars == <<fn, pc, pending, args, mutated, vec, scal, marked, deleted>>

\* A value is a pair of its origin and a name: an instruction or parameter of
\* the function, what replaces it, or its broadcast.
Old(n) == <<"old", n>>
New(i) == <<"new", i[2]>>
Splat(v) == <<"splat", v[2]>>
Origin(x) == Old(x[2])

None == Old("none")
ParamMask == Old("mask")

Insts == DOMAIN fn.ops
Values == Insts \cup Params
Varying(v) == v \in fn.varying \cup {ParamMask}
Uniform(v) == ~Varying(v) /\ v \notin fn.indexed
Elements(s) == {s[k] : k \in DOMAIN s}

Loops == {i \in Insts : fn.kind[i] = "loop"}

\* Instructions that the code leaves behind another one: loads and stores that
\* become masked ones, parts of the programming interface, the sums into a
\* variable of all lanes (psim_atomic_add_local, psim_collective_add_abs_diff),
\* calls lane by lane (gathers and scatters do the same), and calls to vector
\* variants.  A uniform access is simple, and so is psim_get_omp_thread_num().
Replaced ==
    {i \in Insts : fn.kind[i] \in {"load", "store", "api", "reduce", "lanes", "vcall"}}

\* What the order of the instructions guarantees (InstOrder): the operands,
\* but for a loop PHI's second one, and the masks come first.
Before(i) ==
    LET ops == IF i \in Loops THEN {fn.ops[i][1]} ELSE Elements(fn.ops[i])
    IN  (ops \cup {fn.mask[i]}) \cap Insts

\* What ShapesStep says of the operands: only a scattered access has a varying
\* address, and what is computed from varying values is varying, but for what
\* a call returns.  What returns nothing has no shape.
ShapesFit(f) ==
    LET scalar == (DOMAIN f.ops \cup Params) \ (f.varying \cup {ParamMask})
    IN  \A i \in DOMAIN f.ops :
            /\ f.kind[i] \in {"load", "store"} => f.ops[i][1] \in scalar
            /\ f.kind[i] \in {"simple", "join", "loop", "api"} /\ i \notin f.varying =>
                  Elements(f.ops[i]) \subseteq scalar
            /\ f.kind[i] \in {"branch", "reduce"} => i \notin f.varying

\* Values that are scalar, and stay: computed in place.
InPlaceScalar(f, v) ==
    \/ v \in Params \ {ParamMask}
    \/ v \in DOMAIN f.ops \ f.varying /\ f.kind[v] \in {"simple", "join", "loop"}

\* What the code reads without asking the cache: a uniform condition, and the
\* address that lanes add to.  What is uniform and replaced is a number of the
\* gang or the grid, a saturated sum or an element of a table, and no condition
\* (all other calls are varying, calculateShapeCall); the variable is declared
\* outside the SPMD region (README.md), and no lane has an address of its own.
ReadRawFits(f) ==
    \A i \in DOMAIN f.ops :
        /\ f.kind[i] = "branch" =>
              \/ f.ops[i][1] \in f.varying \cup f.indexed \cup {ParamMask}
              \/ InPlaceScalar(f, f.ops[i][1])
        /\ f.kind[i] = "reduce" => InPlaceScalar(f, f.ops[i][1])

ASSUME TransformAssumption ==
    /\ IsFiniteSet(Params) /\ ParamMask \in Params
    /\ \A f \in Functions :
          LET I == DOMAIN f.ops
          IN  /\ IsFiniteSet(I) /\ I \cap Params = {}
              /\ \A v \in I \cup Params : v = Old(v[2]) /\ v # None
              /\ f.varying \subseteq I /\ f.indexed \subseteq (I \cup Params) \ {ParamMask}
              /\ \A i \in I :
                    /\ f.kind[i] \in {"simple", "join", "loop", "branch",
                                     "load", "store", "api", "reduce", "lanes", "vcall"}
                    /\ f.ops[i] \in Seq(I \cup Params)
                    /\ f.mask[i] \in I \cup Params
                    /\ f.kind[i] \in {"load", "branch"} => Len(f.ops[i]) = 1
                    /\ f.kind[i] \in {"store", "join", "loop"} => Len(f.ops[i]) = 2
                    /\ f.kind[i] = "reduce" => Len(f.ops[i]) > 1
              /\ ShapesFit(f) /\ ReadRawFits(f)

-----------------------------------------------------------------------------
(* The value cache *)

IsVector(x) ==
    \/ x \in mutated \cup {ParamMask}
    \/ x \in DOMAIN args \ Insts /\ (x[1] = "splat" \/ Varying(Origin(x)))

\* ValueCache::getScalarValue
Scalar(v) == IF v \in Values /\ scal[v] # None THEN scal[v] ELSE v

\* ValueCache::getVectorValue: the cached value, the value itself if it is a
\* vector, else a broadcast behind its scalar value.
HasVector(x) == IsVector(x) \/ (x \in Values /\ vec[x] # None)
Vector(x) ==
    IF x \in Values /\ vec[x] # None THEN vec[x]
    ELSE IF IsVector(x) THEN x ELSE Splat(x)

Broadcasts(V) == {v \in V : ~HasVector(v)}

\* The assertion on the shape of what is broadcast.
NotReady(V) == \E v \in Broadcasts(V) : Varying(v)

\* The operands f of new and of changed instructions, and the broadcasts that
\* they need.
Build(f, V) ==
    LET splats == {Splat(v) : v \in Broadcasts(V)}
    IN  args' = [x \in DOMAIN f \cup splats \cup DOMAIN args |->
                    CASE x \in DOMAIN f                -> f[x]
                      [] x \in splats \ DOMAIN f       -> <<Scalar(Origin(x))>>
                      [] x \notin splats \cup DOMAIN f -> args[x]]

\* setVectorValue and setScalarValue at the end of transform(), and the vector
\* values of the broadcasts.
Store(i, x, V) ==
    /\ vec' = [v \in Values |-> CASE v = i /\ Varying(i) -> x
                                  [] v \in Broadcasts(V) -> Splat(v)
                                  [] OTHER               -> vec[v]]
    /\ scal' = IF Varying(i) THEN scal ELSE [scal EXCEPT ![i] = x]

-----------------------------------------------------------------------------
Init ==
    /\ fn \in Functions
    /\ pc = "first"
    /\ pending = Insts
    /\ args = fn.ops
    /\ mutated = {}
    /\ vec = [v \in Values |-> None]
    /\ scal = [v \in Values |-> None]
    /\ marked = {}
    /\ deleted = {}

Visit(i) ==
    /\ pc = "first" /\ i \in pending /\ Before(i) \cap pending = {}
    /\ pending' = pending \ {i}
    /\ UNCHANGED <<fn, deleted>>

Go(V) == pc' = IF NotReady(V) THEN "fatal" ELSE pc

\* transformSimpleInstruction, transformInstructionWithoutVectorizing: the
\* operands are replaced by their vector or by their scalar values.
InPlace(i) ==
    LET V == IF Varying(i) THEN Elements(args[i])
             ELSE {x \in Elements(args[i]) : IsVector(x)}
    IN  /\ fn.kind[i] = "simple" \/ (fn.kind[i] = "join" /\ ~Varying(i))
        /\ Visit(i) /\ Go(V)
        /\ Build([x \in {i} |-> [k \in DOMAIN args[i] |->
                     IF args[i][k] \in V THEN Vector(args[i][k]) ELSE Scalar(args[i][k])]], V)
        /\ mutated' = IF Varying(i) THEN mutated \cup {i} ELSE mutated
        /\ Store(i, i, V)
        /\ UNCHANGED marked

\* Which operands are read as vectors.  The address of a packed access is the
\* scalar one, that of a sum has been read raw; the argument of a variant is a
\* vector if it is varying in the call or in the variant.
ReadsVector(i, k) ==
    CASE fn.kind[i] = "load"   -> FALSE
      [] fn.kind[i] = "store"  -> k = 2
      [] fn.kind[i] = "reduce" -> k # 1
      [] fn.kind[i] = "lanes"  -> TRUE
      [] fn.kind[i] = "vcall"  -> Varying(fn.ops[i][k]) \/ k \in fn.promise[i]
      [] OTHER                 -> Varying(i)

\* What stands for operand k of i in the new instruction.
Read(i, k) ==
    CASE ReadsVector(i, k)                             -> Vector(args[i][k])
      [] ~ReadsVector(i, k) /\ fn.kind[i] = "reduce" -> args[i][k]
      [] ~ReadsVector(i, k) /\ fn.kind[i] # "reduce" -> Scalar(args[i][k])

\* The block's mask, for what has an effect or is called under it.
MaskOf(i) ==
    IF fn.kind[i] = "api" \/ (fn.kind[i] = "vcall" /\ i \notin fn.masked)
    THEN {} ELSE {fn.mask[i]}

\* transformCallVectFunction creates the call of the variant, and leaves the
\* old one as it is; all others have their instruction deleted.
Obsolete(i) == IF fn.kind[i] = "vcall" THEN marked ELSE marked \cup {i}

\* vectorizeMemInst, vectorizeUniformCall, transformCallPsimApi,
\* transformCallIntrinsic, transformCallVmath, transformCallVectFunction: a new
\* instruction.  (Of one without a result the code caches the old one or null,
\* which has no users.)
Replace(i) ==
    LET V == {args[i][k] : k \in {n \in DOMAIN args[i] : ReadsVector(i, n)}} \cup MaskOf(i)
    IN  /\ i \in Replaced
        /\ Visit(i) /\ Go(V)
        /\ Build([x \in {New(i)} |-> [k \in DOMAIN args[i] |-> Read(i, k)]], V)
        /\ marked' = Obsolete(i)
        /\ Store(i, New(i), V)
        /\ UNCHANGED mutated

\* Case 3 of transformPHIFirstPass: the PHI becomes one of vectors, for which a
\* select then stands.  It is read instead of the value of the 'then' block; the
\* other value, of the dominator, has been looked up for the PHI already.
JoinUnselected(i) == i
Join(i) == New(i)

SelectPHI(i) ==
    LET V == Elements(args[i]) \cup {fn.mask[i]}
        phi == [k \in DOMAIN args[i] |-> Vector(args[i][k])]
    IN  /\ fn.kind[i] = "join" /\ Varying(i)
        /\ Visit(i) /\ Go(V)
        /\ Build([x \in {i, New(i)} |->
                     IF x = i THEN phi ELSE <<Vector(fn.mask[i]), i, Vector(phi[1])>>], V)
        /\ mutated' = mutated \cup {i}
        /\ Store(i, Join(i), V)
        /\ UNCHANGED marked

\* Case 2: only the type of a loop PHI changes in this pass.
RetypePHI(i) ==
    /\ i \in Loops
    /\ Visit(i)
    /\ mutated' = IF Varying(i) THEN mutated \cup {i} ELSE mutated
    /\ Store(i, i, {})
    /\ UNCHANGED <<pc, args, marked>>

\* transformBranch: the or-reduction of the vector of a condition that is not
\* uniform; one that is only indexed (psim_get_lane_num() < 2) is broadcast.
Branch(i) ==
    LET c == args[i][1]
        V == IF Uniform(c) THEN {} ELSE {c}
    IN  /\ fn.kind[i] = "branch"
        /\ Visit(i)
        /\ IF Uniform(c)
           THEN UNCHANGED <<pc, args>>
           ELSE /\ Go(V)
                /\ Build([x \in {i, New(i)} |->
                             IF x = i THEN <<New(i)>> ELSE <<Vector(c)>>], V)
        /\ Store(i, i, V)
        /\ UNCHANGED <<mutated, marked>>

Transform(i) ==
    InPlace(i) \/ Replace(i) \/ SelectPHI(i) \/ RetypePHI(i) \/ Branch(i)

SecondPass ==
    /\ pc = "first" /\ pending = {}
    /\ pc' = "second" /\ pending' = Loops
    /\ UNCHANGED <<fn, args, mutated, vec, scal, marked, deleted>>

\* transformPHISecondPass: the operands of a loop PHI, once all values are there.
LoopArgsForward(i) == [k \in DOMAIN args[i] |-> IF k = 2 THEN args[i][k] ELSE
                          IF Varying(i) THEN Vector(args[i][k]) ELSE Scalar(args[i][k])]
LoopArgs(i) == [k \in DOMAIN args[i] |->
                   IF Varying(i) THEN Vector(args[i][k]) ELSE Scalar(args[i][k])]

PatchPHI(i) ==
    LET V == IF Varying(i) THEN Elements(args[i]) ELSE {}
    IN  /\ pc = "second" /\ i \in pending
        /\ pending' = pending \ {i}
        /\ Go(V)
        /\ Build([x \in {i} |-> LoopArgs(i)], V)
        /\ vec' = [v \in Values |-> IF v \in Broadcasts(V) THEN Splat(v) ELSE vec[v]]
        /\ UNCHANGED <<fn, mutated, scal, marked, deleted>>

-----------------------------------------------------------------------------
(* ValueCache::deleteObsoletedInsts *)

BeginDelete ==
    /\ pc = "second" /\ pending = {}
    /\ pc' = "delete"
    /\ UNCHANGED <<fn, pending, args, mutated, vec, scal, marked, deleted>>

Users(D) == {u \in DOMAIN args : Elements(args[u]) \cap D # {}}

\* D and the users of its instructions, and theirs.
WithUsers(D) ==
    LET f[n \in 0..Cardinality(DOMAIN args)] ==
            IF n = 0 THEN D ELSE LET R == f[n - 1] IN R \cup Users(R)
    IN  f[Cardinality(DOMAIN args)]

\* deleteInst: an instruction without an entry is none that it can delete, and
\* one that uses itself, through others, keeps it waiting for its last user.
DeleteObsolete(i) ==
    LET D == WithUsers({i})
    IN  /\ pc = "delete" /\ i \in marked \ deleted
        /\ CASE ~(D \subseteq Insts)                        -> pc' = "fatal"
             [] \E d \in D : d \in WithUsers(Users({d}))    -> pc' = "hangs"
             [] OTHER                                       -> UNCHANGED pc
        /\ deleted' = deleted \cup (D \cap Insts)
        /\ args' = [x \in DOMAIN args \ D |-> args[x]]
        /\ UNCHANGED <<fn, pending, mutated, vec, scal, marked>>

\* verifyTransformedFunction: a call that was left has operands of its types.
Verify ==
    /\ pc = "delete" /\ marked \subseteq deleted
    /\ pc' = IF \E i \in Insts \ deleted :
                    fn.kind[i] = "vcall" /\ \E x \in Elements(args[i]) : IsVector(x)
             THEN "rejected" ELSE "done"
    /\ UNCHANGED <<fn, pending, args, mutated, vec, scal, marked, deleted>>

Outcomes == {"done", "rejected", "fatal", "hangs"}

Ended == pc \in Outcomes /\ UNCHANGED vars

Next ==
    \/ \E i \in Insts : Transform(i) \/ PatchPHI(i) \/ DeleteObsolete(i)
    \/ SecondPass \/ BeginDelete \/ Verify
    \/ Ended

Spec == Init /\ [][Next]_vars

-----------------------------------------------------------------------------
\* The original value that an instruction computes.  A PHI behind an if has the
\* right value only for the lanes that the edge taken was for.
Means(x) ==
    CASE x \in Params -> x
      [] x \in Insts -> IF fn.kind[x] = "join" /\ Varying(x) THEN None ELSE x
      [] x \notin Values -> Origin(x)

\* What an instruction that is left reads in the place of operand k of i.
StandsFor(x, v) == x \in DOMAIN args \cup Params /\ Means(x) = v
ReadsOwn(i, k, x) == StandsFor(x, fn.ops[i][k]) /\ (IsVector(x) <=> ReadsVector(i, k))
ReadsOwnVector(x, v) == StandsFor(x, v) /\ IsVector(x)

\* After the step, every instruction reads, for each operand of the
\* instruction it stands for, a value that is still there, that stands for the
\* operand, and that has the form the instruction needs: a branch on a condition
\* that may differ between the lanes asks all of them.  Calls that were left
\* behind are not meant.
ReadsItsOperands ==
    pc = "done" =>
        \A i \in Insts : \A k \in DOMAIN fn.ops[i] :
            CASE i \in Replaced -> ReadsOwn(i, k, args[New(i)][k])
              [] fn.kind[i] = "branch" /\ ~Uniform(fn.ops[i][k]) ->
                    /\ args[i][k] = New(i)
                    /\ ReadsOwnVector(args[New(i)][1], fn.ops[i][k])
              [] OTHER -> i \in DOMAIN args /\ ReadsOwn(i, k, args[i][k])

\* The step deletes what has been replaced, and nothing else: deleting the users
\* of an obsolete instruction neither reaches one that is needed nor fails, and
\* only calls for which a variant is called may be left, and run besides.
DeletesTheObsolete ==
    /\ pc \notin {"fatal", "hangs"}
    /\ deleted \subseteq Replaced
    /\ pc = "done" => \A i \in Replaced \ deleted : fn.kind[i] = "vcall"
===============================================================================
