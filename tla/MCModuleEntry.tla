----------------------------- MODULE MCModuleEntry ----------------------------
(***************************************************************************)
(* Modules with every short sequence of settings and forks, with pairs of  *)
(* whole regions in one block and in two, and with calls from two bodies   *)
(* to functions with up to two variants.                                   *)
(***************************************************************************)
EXTENDS ModuleEntry, SequencesExt

\* The functions of the modules: two bodies, two functions they call.
BodyA == 1
BodyB == 2
FunF == 3
FunG == 4

C(op, arg) == [op |-> op, arg |-> arg]
MCNotConstant == 99

MaxSettings == 5

Alphabet ==
    {C("gang_num", 11), C("gang_size", 4), C("gang_size", MCNotConstant),
     C("grid_size", 20), C("sub_name", 1), C("fork", BodyA), C("fork", BodyB)}

NoCalls ==
    [variants |-> [F \in {BodyA, BodyB} |-> {}], arity |-> [F \in {BodyA, BodyB} |-> 1],
     sites |-> [F \in {BodyA, BodyB} |-> {}]]

Module(blocks, calling) ==
    [blocks |-> blocks, variants |-> calling.variants, arity |-> calling.arity,
     sites |-> calling.sites]

Sequences == {Module(<<s>>, NoCalls) : s \in SeqOf(Alphabet, MaxSettings)}

\* Whole regions, and what may stand between them.
Region1 ==
    {<<C("gang_size", 4), C("gang_num", 11), C("grid_size", 20), C("sub_name", 1), C("fork", BodyA)>>,
     <<C("gang_num", 11), C("gang_size", 4), C("fork", BodyA)>>,
     <<C("fork", BodyA)>>,
     <<C("gang_num", 11), C("other", 0), C("grid_size", 20), C("fork", BodyA)>>}
Region2 ==
    {<<C("sub_name", 1), C("grid_size", 30), C("gang_size", n), C("gang_num", 12), C("fork", F)>> :
        n \in {2, 4}, F \in {BodyA, BodyB}}
    \cup {<<C("fork", BodyB)>>, <<C("gang_size", 2), C("fork", BodyB), C("gang_num", 12)>>}

Pairs ==
    {Module(<<r \o s>>, NoCalls) : r \in Region1, s \in Region2}
    \cup {Module(<<r, s>>, NoCalls) : r \in Region1, s \in Region2}

\* Body A runs in gangs of four, body B in gangs of two.
TwoLaunches ==
    <<<<C("gang_size", 4), C("gang_num", 11), C("fork", BodyA)>>,
      <<C("gang_size", 2), C("gang_num", 12), C("fork", BodyB)>>>>

V(isa, mask, vlen, parameter) ==
    [isa |-> isa, mask |-> mask, vlen |-> vlen, parameters |-> <<parameter>>]

SomeVariants ==
    {V("e", m, 4, p) : m \in BOOLEAN, p \in {AnyVarying, OneForAll, ByStride(1)}}
    \cup {V("e", FALSE, 2, AnyVarying), V("d", FALSE, 4, AnyVarying)}

Arg(kind, n) == [kind |-> kind, n |-> n]
SomeArgs == {Arg("strided", 0), Arg("strided", 1), Arg("strided", 2), Arg("indexed", 0),
             Arg("varying", 0)}

Site(callee, arg, masked) == [callee |-> callee, args |-> <<arg>>, masked |-> masked]

\* Bodies and F call F and G; F hands its parameter on to G.
Calling(vf, vg, a, b, ma, mb) ==
    [variants |-> [F \in 1..4 |-> CASE F = FunF -> vf [] F = FunG -> vg [] OTHER -> {}],
     arity |-> [F \in 1..4 |-> 1],
     sites |-> [F \in 1..4 |->
         CASE F = BodyA -> {Site(FunF, a, ma), Site(FunG, Arg("param", 1), FALSE)}
           [] F = BodyB -> {Site(FunG, b, mb)}
           [] F = FunF  -> {Site(FunG, Arg("param", 1), FALSE), Site(FunG, b, TRUE)}
           [] F = FunG  -> {}]]

AsEntry(n) == [isa |-> "e", mask |-> FALSE, vlen |-> n, parameters |-> <<OneForAll>>]

ClonesOf(c, F) ==
    CASE F = BodyA -> {AsEntry(4)} [] F = BodyB -> {AsEntry(2)} [] OTHER -> c.variants[F]

\* The programs in which PromisesHold.
MatchingStrides(c) ==
    \A F \in 1..4 : \A u \in ClonesOf(c, F) : \A s \in c.sites[F] :
        \A v \in c.variants[s.callee] :
            v.isa = u.isa /\ v.vlen = u.vlen /\ v.mask = (u.mask \/ s.masked)
                => \A k \in DOMAIN s.args : Suits(v, k, ShapeIn(u, s.args[k]))

FewVariants == {{}} \cup {{v} : v \in SomeVariants} \cup
               {{v, w} : v \in SomeVariants, w \in SomeVariants}

GVariants == {{V("e", m, 4, AnyVarying) : m \in BOOLEAN},
              {V("e", FALSE, 4, OneForAll), V("e", TRUE, 2, AnyVarying)},
              {V("e", FALSE, 4, ByStride(1)), V("e", TRUE, 4, AnyVarying)},
              {V("e", FALSE, 2, ByStride(1)), V("e", FALSE, 2, AnyVarying)}}

AllCallings ==
    {Calling(vf, vg, a, b, ma, mb) :
        vf \in FewVariants, vg \in GVariants, a \in SomeArgs,
        b \in {Arg("strided", 1), Arg("varying", 0)}, ma \in BOOLEAN, mb \in BOOLEAN}

Calls == {Module(TwoLaunches, c) : c \in {c \in AllCallings : MatchingStrides(c)}}

MCPrograms == Sequences \cup Pairs \cup Calls
===============================================================================
