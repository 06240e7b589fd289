------------------------------ MODULE ModuleEntry -----------------------------
(***************************************************************************)
(* ModuleVectorizer (module.cpp).  The front end leaves a region as calls  *)
(* that set the gang number, gang size, grid size and name of a grid, and  *)
(* a fork of the outlined body.  findPsimCalls collects the grids of every *)
(* basic block, insertPsimGrids replaces the forks by calls, initialize    *)
(* clones the bodies and all functions with "declare simd" variants, and   *)
(* vectorizeFunctions vectorizes the clones, whose calls to other          *)
(* functions are resolved on the way (module Resolver).                    *)
(*                                                                         *)
(* The maps keyed by pointers are iterated in any order.                   *)
(***************************************************************************)
EXTENDS Resolver, FiniteSets

CONSTANTS
    Programs,    \* records of
                 \*   blocks    a sequence of sequences of calls [op, arg]
                 \*   variants  function -> its "declare simd" VFABIs
                 \*   arity     function -> its number of parameters
                 \*   sites     function -> its calls [callee, args, masked]
    NotConstant  \* a gang size that is no constant

Sets == {"gang_num", "gang_size", "grid_size", "sub_name"}
NoValue == 0    \* the null pointer, and the gang size that is not set

\* Calls have arguments, forked and called functions are in the module, and
\* calls and variants have as many arguments as the function.
ProgramOK(p) ==
    /\ p.blocks \in Seq(Seq([op : Sets \cup {"fork", "other"}, arg : Nat]))
    /\ \A b \in DOMAIN p.blocks : \A i \in DOMAIN p.blocks[b] :
          /\ p.blocks[b][i].op \in Sets => p.blocks[b][i].arg # NoValue
          /\ p.blocks[b][i].op = "fork" => p.blocks[b][i].arg \in DOMAIN p.variants
    /\ \A F \in DOMAIN p.variants :
          /\ \A v \in p.variants[F] : DOMAIN v.parameters = 1..p.arity[F]
          /\ \A s \in p.sites[F] : /\ s.callee \in DOMAIN p.variants
                                   /\ DOMAIN s.args = 1..p.arity[s.callee]

ASSUME ModuleAssumption ==
    /\ NotConstant \in Nat \ {NoValue}
    /\ \A p \in Programs : ProgramOK(p)

VARIABLES
    program,
    phase,         \* "find", "insert", "initialize", "register", "vectorize",
                   \* "done" or "fatal"
    block, inst,   \* the call findPsimCalls looks at
    metadata,      \* the grid that is being described in this block
    grids,         \* the forks with a grid
    launches,      \* the calls that replace them
    entry_points,  \* the outlined bodies and their gang sizes
    vfinfo_map,    \* function -> the VFABIs of its clones
    resolver_map,  \* function -> the variants a call may use
    registered,    \* the functions whose variants have been added
    vectorized,    \* the functions whose clones are vectorized
    calls          \* the calls in the clones and what they are resolved to

vars == <<program, phase, block, inst, metadata, grids, launches, entry_points,
          vfinfo_map, resolver_map, registered, vectorized, calls>>

finding == <<block, inst, metadata, grids>>
inserting == <<launches, entry_points>>
vectorizing == <<vfinfo_map, resolver_map, registered, vectorized, calls>>

EmptyMetadata ==
    [populated |-> FALSE, gang_num |-> NoValue, gang_size |-> NoValue,
     grid_size |-> NoValue, sub_name |-> NoValue]

-----------------------------------------------------------------------------
(* findPsimCalls *)

CallsIn(b) == program.blocks[b]
Current == CallsIn(block)[inst]

At(op) ==
    /\ phase = "find"
    /\ block \in DOMAIN program.blocks
    /\ inst \in DOMAIN CallsIn(block)
    /\ Current.op = op

NextInst == inst' = inst + 1 /\ UNCHANGED <<program, phase, block, inserting, vectorizing>>

\* FATAL and assert
Fatal ==
    /\ phase' = "fatal"
    /\ UNCHANGED <<program, finding, inserting, vectorizing>>

Record(field) ==
    /\ metadata' = [metadata EXCEPT ![field] = Current.arg, !.populated = TRUE]
    /\ UNCHANGED grids
    /\ NextInst

SetGridGangNum ==
    /\ At("gang_num")
    /\ IF metadata.gang_num # NoValue THEN Fatal ELSE Record("gang_num")

SetGridGangSize ==
    /\ At("gang_size")
    /\ IF Current.arg = NotConstant \/ metadata.gang_size # NoValue
       THEN Fatal ELSE Record("gang_size")

SetGridSize ==
    /\ At("grid_size")
    /\ IF metadata.grid_size # NoValue THEN Fatal ELSE Record("grid_size")

SetGridSubName ==
    /\ At("sub_name")
    /\ IF metadata.sub_name # NoValue THEN Fatal ELSE Record("sub_name")

\* setGridOmpFunction and finishGridMetadata
Grid ==
    [call |-> <<block, inst>>, omp_func |-> Current.arg,
     gang_num |-> metadata.gang_num, vlen |-> metadata.gang_size,
     grid_size |-> IF metadata.grid_size = NoValue THEN metadata.gang_size
                   ELSE metadata.grid_size]

Fork ==
    /\ At("fork")
    /\ IF ~metadata.populated THEN UNCHANGED <<metadata, grids>> /\ NextInst
       ELSE IF metadata.gang_size = NoValue THEN Fatal
       ELSE /\ grids' = grids \cup {Grid}
            /\ metadata' = EmptyMetadata
            /\ NextInst

OtherCall == At("other") /\ UNCHANGED <<metadata, grids>> /\ NextInst

EndOfBlock ==
    /\ phase = "find"
    /\ block \in DOMAIN program.blocks
    /\ inst = Len(CallsIn(block)) + 1

EndBlockUnchecked ==
    /\ EndOfBlock
    /\ block' = block + 1 /\ inst' = 1
    /\ metadata' = EmptyMetadata
    /\ UNCHANGED <<program, phase, grids, inserting, vectorizing>>

EndBlock ==
    /\ EndOfBlock
    /\ IF metadata.populated THEN Fatal
       ELSE /\ block' = block + 1 /\ inst' = 1
            /\ UNCHANGED <<program, phase, metadata, grids, inserting, vectorizing>>

EndFind ==
    /\ phase = "find"
    /\ block = Len(program.blocks) + 1
    /\ phase' = "insert"
    /\ UNCHANGED <<program, finding, inserting, vectorizing>>

-----------------------------------------------------------------------------
(* insertPsimGrids *)

InsertedBody(g) == \E l \in launches : l.callee = g.omp_func

Inserted(g) == \E l \in launches : l.call = g.call

\* entry_points.insert leaves an entry alone.
NewEntryPoints(g) ==
    IF \E e \in entry_points : e.function = g.omp_func THEN entry_points
    ELSE entry_points \cup {[function |-> g.omp_func, vlen |-> g.vlen]}

InsertGrid(g) ==
    /\ phase = "insert"
    /\ ~Inserted(g)
    /\ launches' = launches \cup
           {[call |-> g.call, callee |-> g.omp_func, lanes |-> 1,
             gang_num |-> g.gang_num, grid_size |-> g.grid_size]}
    /\ entry_points' = NewEntryPoints(g)
    /\ UNCHANGED <<program, phase, finding, vectorizing>>

EndInsert ==
    /\ phase = "insert"
    /\ \A g \in grids : Inserted(g)
    /\ phase' = "initialize"
    /\ UNCHANGED <<program, finding, inserting, vectorizing>>

-----------------------------------------------------------------------------
(* initialize: the clones *)

Functions == DOMAIN program.variants
EntryPoint(F) == {e \in entry_points : e.function = F}

\* finishGridMetadata, insertPsimGrids: unmasked, all parameters uniform
EntryVFABI(F, n) ==
    [isa |-> "e", mask |-> FALSE, vlen |-> n,
     parameters |-> [k \in 1..program.arity[F] |-> OneForAll]]

VFABIs(F) ==
    IF EntryPoint(F) # {} THEN {EntryVFABI(F, e.vlen) : e \in EntryPoint(F)}
    ELSE program.variants[F]

Initialize ==
    /\ phase = "initialize"
    /\ vfinfo_map' = [F \in {F \in Functions : VFABIs(F) # {}} |-> VFABIs(F)]
    /\ phase' = "register"
    /\ UNCHANGED <<program, finding, inserting, resolver_map, registered, vectorized, calls>>

-----------------------------------------------------------------------------
(* vectorizeFunctions *)

Register(F) ==
    /\ phase = "register"
    /\ F \notin registered
    /\ registered' = registered \cup {F}
    /\ resolver_map' = IF EntryPoint(F) # {} THEN resolver_map
                       ELSE [resolver_map EXCEPT ![F] = @ \cup vfinfo_map[F]]
    /\ UNCHANGED <<program, phase, finding, inserting, vfinfo_map, vectorized, calls>>

AllRegisteredOnce == registered # {}
AllRegistered == registered = DOMAIN vfinfo_map

EndRegister ==
    /\ phase = "register"
    /\ AllRegistered
    /\ phase' = "vectorize"
    /\ UNCHANGED <<program, finding, inserting, vectorizing>>

\* The shape of an argument in a clone with VFABI v: a parameter has the one
\* promised (ShapesStep::calculate).
ShapeIn(v, arg) ==
    IF arg.kind # "param" THEN arg
    ELSE IF v.parameters[arg.n].is_varying THEN [kind |-> "varying", n |-> 0]
    ELSE [kind |-> "strided", n |-> v.parameters[arg.n].stride]

\* transformCallVectFunction: indices without a stride count as uniform.
DesiredParameter(shape) ==
    CASE shape.kind = "varying" -> AnyVarying
      [] shape.kind = "strided" -> ByStride(shape.n)
      [] shape.kind = "indexed" -> OneForAll

Desired(v, site) ==
    [isa |-> v.isa, mask |-> v.mask \/ site.masked, vlen |-> v.vlen,
     parameters |-> [k \in DOMAIN site.args |-> DesiredParameter(ShapeIn(v, site.args[k]))]]

Resolution(F, v, site) ==
    [caller |-> F, vfabi |-> v, site |-> site,
     result |-> Candidates(resolver_map[site.callee], Desired(v, site))]

\* replaceAllUsesWith: the launches of an outlined body call its clone.
Replaced(F, l) ==
    IF l.callee # F THEN {l} ELSE {[l EXCEPT !.lanes = e.vlen] : e \in EntryPoint(F)}

\* The calls in the clones of F; one with no candidate is made lane by lane
\* (vectorizeUniformCall).
Resolutions(F) == {Resolution(F, v, s) : v \in vfinfo_map[F], s \in program.sites[F]}

Vectorize(F) ==
    /\ phase = "vectorize"
    /\ F \notin vectorized
    /\ IF \E c \in Resolutions(F) : Cardinality(c.result) > 1
       THEN Fatal
       ELSE /\ vectorized' = vectorized \cup {F}
            /\ calls' = calls \cup Resolutions(F)
            /\ launches' = UNION {Replaced(F, l) : l \in launches}
            /\ UNCHANGED <<program, phase, finding, entry_points, vfinfo_map,
                           resolver_map, registered>>

EndVectorize ==
    /\ phase = "vectorize"
    /\ vectorized = DOMAIN vfinfo_map
    /\ phase' = "done"
    /\ UNCHANGED <<program, finding, inserting, vectorizing>>

-----------------------------------------------------------------------------
Init ==
    /\ program \in Programs
    /\ phase = "find"
    /\ block = 1 /\ inst = 1
    /\ metadata = EmptyMetadata
    /\ grids = {} /\ launches = {} /\ entry_points = {}
    /\ vfinfo_map = [F \in {} |-> {}]
    /\ resolver_map = [F \in Functions |-> {}]
    /\ registered = {} /\ vectorized = {} /\ calls = {}

Find ==
    \/ SetGridGangNum \/ SetGridGangSize \/ SetGridSize \/ SetGridSubName
    \/ Fork \/ OtherCall \/ EndBlock \/ EndFind

Insert == (\E g \in grids : InsertGrid(g)) \/ EndInsert

VectorizeFunctions ==
    \/ \E F \in DOMAIN vfinfo_map : Register(F) \/ Vectorize(F)
    \/ EndRegister \/ EndVectorize

Next == Find \/ Insert \/ Initialize \/ VectorizeFunctions

Spec == Init /\ [][Next]_vars

-----------------------------------------------------------------------------
(* Properties *)

IsFork(b, i) == CallsIn(b)[i].op = "fork"

\* The calls of block b in front of i that no fork has used up.
Region(b, i) ==
    {j \in DOMAIN CallsIn(b) :
        /\ j < i /\ CallsIn(b)[j].op \in Sets
        /\ \A k \in j..(i - 1) : ~IsFork(b, k)}

\* What they set.
Given(b, i, op) == {CallsIn(b)[j].arg : j \in {j \in Region(b, i) : CallsIn(b)[j].op = op}}

\* A setting is the first of its kind in its region, a gang size is a
\* constant, and a region that ends in a fork has one.
WellFormedAt(b, i) ==
    LET c == CallsIn(b)[i]
    IN  /\ c.op \in Sets => Given(b, i, c.op) = {}
        /\ c.op = "gang_size" => c.arg # NotConstant
        /\ c.op = "fork" /\ Region(b, i) # {} => Given(b, i, "gang_size") # {}

WellFormed ==
    \A b \in DOMAIN program.blocks :
        /\ \A i \in DOMAIN CallsIn(b) : WellFormedAt(b, i)
        /\ Region(b, Len(CallsIn(b)) + 1) = {}

\* All forks of F with a grid have the same gang size.
OneGangSize(F) ==
    \A g, h \in grids : g.omp_func = F /\ h.omp_func = F => g.vlen = h.vlen

LaunchesOf(b, i) == {l \in launches : l.call = <<b, i>>}

\* Every fork that a region describes, and no other fork, has become one
\* call: of the clone of its own body for its own gang size, with its own
\* gang number, and with its own grid size or the gang size for want of one,
\* in whatever order the calls of the region, the grids and the functions
\* come (module.cpp:264-365, 492-522).  Two things the code leaves open are
\* left out: bodies that inlining shares between regions of different gang
\* sizes (README, Limits), and gang numbers that are not set.
LaunchesAreOwn ==
    phase = "done" =>
        \A b \in DOMAIN program.blocks : \A i \in DOMAIN CallsIn(b) :
            IF ~IsFork(b, i) \/ Region(b, i) = {}
            THEN LaunchesOf(b, i) = {}
            ELSE \E l \in launches :
                    /\ LaunchesOf(b, i) = {l}
                    /\ l.callee = CallsIn(b)[i].arg
                    /\ OneGangSize(l.callee) => l.lanes \in Given(b, i, "gang_size")
                    /\ Given(b, i, "gang_num") \subseteq {l.gang_num}
                    /\ l.grid_size \in IF Given(b, i, "grid_size") = {}
                                       THEN Given(b, i, "gang_size")
                                       ELSE Given(b, i, "grid_size")

\* The variants that a call could use, had all of them been added.
AllVariants(F) == IF EntryPoint(F) # {} THEN {} ELSE program.variants[F]

\* The compiler gives up for a reason, and never goes on with regions that
\* cannot be told apart: duplicate or dangling settings, a gang size that is
\* missing or not known, several variants to choose from
\* (module.cpp:126-167, 243, 310-315; resolver.cpp:88-90).
RejectsExactly ==
    /\ phase \notin {"find", "fatal"} => WellFormed
    /\ phase = "fatal" =>
          \/ ~WellFormed
          \/ \E F \in DOMAIN vfinfo_map : \E v \in vfinfo_map[F] :
                \E s \in program.sites[F] :
                    Cardinality(Candidates(AllVariants(s.callee), Desired(v, s))) > 1

\* What a call is resolved to depends neither on the order in which the
\* functions are vectorized nor on the one in which their variants are added
\* (module.cpp:492-522).
ResolvedAgainstAll ==
    \A c \in calls :
        c.result = Candidates(AllVariants(c.site.callee), Desired(c.vfabi, c.site))

\* What a variant promises of a parameter is true of an argument of this
\* shape, or the argument is varying.
Suits(v, k, shape) ==
    \/ v.parameters[k].is_varying
    \/ shape.kind = "varying"
    \/ shape.kind = "strided" /\ shape.n = v.parameters[k].stride

\* The arguments keep the promises of the variants that the calls may use: the
\* programmer answers for these, nothing compares the strides.
PromisesHold ==
    \A F \in DOMAIN vfinfo_map : \A u \in vfinfo_map[F] : \A s \in program.sites[F] :
        \A v \in AllVariants(s.callee) :
            SameTarget(v, Desired(u, s)) =>
                \A k \in DOMAIN s.args : Suits(v, k, ShapeIn(u, s.args[k]))

\* What argument k of a call is in lane l, less its value in lane 0.
Sent(c, k, l) ==
    LET s == ShapeIn(c.vfabi, c.site.args[k])
    IN  CASE s.kind = "strided" -> s.n * l
          [] s.kind = "indexed" -> l * l
          [] s.kind = "varying" -> IF l = 0 THEN 0 ELSE 7 + l * l * l

\* What lane l of the callee gets: its own in a vector, or the scalar value
\* and the stride the variant promises.
Got(c, k, l) ==
    LET received(w) == IF w.parameters[k].is_varying THEN Sent(c, k, l)
                       ELSE w.parameters[k].stride * l
    IN  IF c.result = {} THEN Sent(c, k, l)
        ELSE received(CHOOSE w \in c.result : TRUE)

\* The lanes that run the callee.
Running(c, active) ==
    LET lanes(w) == IF w.mask THEN active \cap 0..(w.vlen - 1) ELSE 0..(w.vlen - 1)
    IN  IF c.result = {} THEN active ELSE lanes(CHOOSE w \in c.result : TRUE)

\* A call in a clone, whatever it is resolved to, does what the scalar call
\* does: the callee runs for the active lanes, and each gets its own
\* arguments, which may be parameters of the caller handed on.
CallsAreLaneWise ==
    \A c \in calls :
        LET lanes == 0..(c.vfabi.vlen - 1)
        IN  \A active \in IF c.vfabi.mask \/ c.site.masked THEN SUBSET lanes ELSE {lanes} :
                /\ Running(c, active) = active
                /\ \A l \in active : \A k \in DOMAIN c.site.args :
                      Got(c, k, l) = Sent(c, k, l)
===============================================================================
