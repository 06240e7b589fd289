------------------------------ MODULE MCPipeline ------------------------------
(***************************************************************************)
(* Two invocations in one directory.  Sources a and b, a second a in       *)
(* another directory, and a library object.                                *)
(***************************************************************************)
EXTENDS Pipeline, TLC

CONSTANTS make1, make2

In2 == {make1, make2}

Src(d, b) == [dir |-> d, base |-> b, kind |-> "source"]
A == Src("src", "a")
B == Src("src", "b")
OtherA == Src("lib", "a")
Lib == [dir |-> "lib", base |-> "l.o", kind |-> "object"]
Text == [dir |-> "lib", base |-> "l.txt", kind |-> "unknown"]

Job(inputs, compile, output) ==
    [inputs |-> inputs, compile |-> compile, output |-> output, tmp |-> "tmp"]

ObjectOf(in) == <<in.dir, in.base, ".o">>
Prog == <<".", "prog", "">>

CompileA == Job(<<A>>, TRUE, ObjectOf(A))
CompileB == Job(<<B>>, TRUE, NoOutput)
CompileOtherA == Job(<<OtherA>>, TRUE, NoOutput)
LinkA == Job(<<A, Lib>>, FALSE, Prog)
LinkAB == Job(<<A, B>>, FALSE, NoOutput)
CompileBoth == Job(<<B, A>>, TRUE, NoOutput)
UnknownKind == Job(<<A, Text>>, FALSE, Prog)
Nothing == Job(<<>>, FALSE, Prog)
TwoOutputs == Job(<<A, B>>, TRUE, Prog)

Both(j, k) == (make1 :> j) @@ (make2 :> k)

\* Two that run at once, with base names of their own or a shared one, and
\* longer ones that run beside one that is refused.
Lines ==
    {Both(CompileA, CompileB), Both(LinkA, CompileB), Both(CompileA, CompileOtherA),
     Both(LinkAB, Nothing), Both(CompileBoth, TwoOutputs), Both(UnknownKind, Nothing)}
===============================================================================
