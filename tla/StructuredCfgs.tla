---------------------------- MODULE StructuredCfgs ----------------------------
(* Control-flow graphs as LoopSimplify, UnifyLoopExits and StructurizeCFG  *)
(* leave them: the true edge of an if enters its 'then' block, the false   *)
(* edge of a loop tail is the backedge.                                    *)
LOCAL INSTANCE TLC
LOCAL INSTANCE Sequences

IfThen == [entry |-> "e", succ |->
    "e" :> <<"t", "j">> @@ "t" :> <<"j">> @@ "j" :> <<>>]

IfThenElse == [entry |-> "e", succ |->
    "e" :> <<"t", "f">> @@ "t" :> <<"f">> @@ "f" :> <<"u", "j">> @@
    "u" :> <<"j">> @@ "j" :> <<>>]

NestedIf == [entry |-> "e", succ |->
    "e" :> <<"t", "j">> @@ "t" :> <<"u", "k">> @@ "u" :> <<"k">> @@
    "k" :> <<"j">> @@ "j" :> <<>>]

SelfLoop == [entry |-> "e", succ |->
    "e" :> <<"h">> @@ "h" :> <<"x", "h">> @@ "x" :> <<>>]

LoopWithIf == [entry |-> "e", succ |->
    "e" :> <<"h">> @@ "h" :> <<"t", "l">> @@ "t" :> <<"l">> @@
    "l" :> <<"x", "h">> @@ "x" :> <<>>]

LoopInIf == [entry |-> "e", succ |->
    "e" :> <<"p", "j">> @@ "p" :> <<"h">> @@ "h" :> <<"x", "h">> @@
    "x" :> <<"j">> @@ "j" :> <<>>]

NestedLoops == [entry |-> "e", succ |->
    "e" :> <<"o">> @@ "o" :> <<"i">> @@ "i" :> <<"l", "i">> @@
    "l" :> <<"x", "o">> @@ "x" :> <<>>]

LoopAfterLoop == [entry |-> "e", succ |->
    "e" :> <<"h">> @@ "h" :> <<"y", "h">> @@ "y" :> <<"k">> @@
    "k" :> <<"x", "k">> @@ "x" :> <<>>]

LoopInIfInLoop == [entry |-> "e", succ |->
    "e" :> <<"o">> @@ "o" :> <<"p", "l">> @@ "p" :> <<"h">> @@
    "h" :> <<"y", "h">> @@ "y" :> <<"l">> @@ "l" :> <<"x", "o">> @@
    "x" :> <<>>]

AllCfgs == {IfThen, IfThenElse, NestedIf, SelfLoop, LoopWithIf, LoopInIf,
            NestedLoops, LoopAfterLoop, LoopInIfInLoop}
=============================================================================
