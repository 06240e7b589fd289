----------------------------- MODULE Reductions ------------------------------
(***************************************************************************)
(* The reductions of a grid into one location: psim_atomic_add_local and   *)
(* PsimCollectiveAddAbsDiff::AddAbsDiff, as                                *)
(* TransformStep::transformCallPsimApi expands them, executed by the       *)
(* OpenMP threads that run the gangs of a "parallel" region (or by one     *)
(* thread, without it).  The location is read and written by separate      *)
(* instructions.                                                           *)
(*                                                                         *)
(* Every gang reaches the call Passes times (it may be in a loop), each    *)
(* time with another set of active lanes.                                  *)
(***************************************************************************)
EXTENDS GangLanes, FiniteSets, FiniteSetsExt, Functions, Sequences

CONSTANTS
    Gangs,    \* the gangs of the grid
    Passes,
    Masks,    \* sets of active lanes
    Workers,  \* the threads that run gangs
    Idle,
    A(_, _),  \* gang, lane -> first value, of an active lane
    B(_, _),  \* gang, lane -> second value
    Garbage,  \* what the lanes outside the mask hold
    NElem,    \* 64, the bytes psadbw takes
    Group     \* 8, the bytes of one of its sums

NArch == NElem \div Group

ASSUME ReductionsAssumption ==
    /\ IsFiniteSet(Gangs) /\ Passes \in Nat \ {0}
    /\ Masks \subseteq SUBSET Lanes
    /\ Idle \notin Gangs
    /\ \A g \in Gangs, l \in Lanes : A(g, l) \in Int /\ B(g, l) \in Int
    /\ NElem \in Nat \ {0} /\ Group \in 1..NElem /\ NElem % Group = 0

VARIABLES
    api,      \* "atomic_add" or "abs_diff"
    active,   \* gang -> pass -> the active lanes
    memory,   \* the location: the accumulators (one for atomic_add)
    todo,     \* the gangs no worker has taken
    running,  \* worker -> its gang, or Idle
    pass,     \* worker -> the pass it is in
    loaded,   \* worker -> what it read, << >> before it does
    stored    \* <<gang, pass>> of the calls that are through

sumVars == <<api, active, memory, todo, running, pass, loaded, stored>>

-----------------------------------------------------------------------------
(* The vector code *)

Accumulators == IF api = "atomic_add" THEN 1 ELSE NArch

Register(x, g, p, l) == IF l \in active[g][p] THEN x ELSE Garbage

\* CreateSelect(mask, a, zero): inactive lanes contribute nothing.
SelectUnmasked(x, g, p, l) == Register(x, g, p, l)
Select(x, g, p, l) == IF l \in active[g][p] THEN Register(x, g, p, l) ELSE 0

Distance(x, y) == IF x < y THEN y - x ELSE x - y

SelectedDistance(g, p, l) ==
    Distance(Select(A(g, l), g, p, l), Select(B(g, l), g, p, l))

\* CreateAddReduce over the lanes.
AddReduce(g, p) == SumFunction([l \in Lanes |-> Select(A(g, l), g, p, l)])

\* psadbw of the lanes j .. j + nelem - 1, zero where there is none: each
\* accumulator gets the sum of its Group of bytes.
Chunk(j) == {l \in Lanes : j <= l /\ l < j + NElem}
BytesOf(j, i) == {l \in Chunk(j) : (l - j) \div Group = i - 1}
SumAbsDiff(g, p, j, i) ==
    SumFunction([l \in BytesOf(j, i) |-> SelectedDistance(g, p, l)])

Starts == {j \in Lanes : j % NElem = 0}

\* The accumulators after the call, given what it loaded.
Result(acc, g, p) ==
    IF api = "atomic_add" THEN <<acc[1] + AddReduce(g, p)>>
    ELSE [i \in 1..NArch |->
             acc[i] + SumFunction([j \in Starts |-> SumAbsDiff(g, p, j, i)])]

\* ReduceSum, after the region.
ReduceSum(acc) == SumFunction(acc)

-----------------------------------------------------------------------------
(* The threads *)

SumInit ==
    /\ api \in {"atomic_add", "abs_diff"}
    /\ active \in [Gangs -> [1..Passes -> Masks]]
    /\ memory = [i \in 1..Accumulators |-> 0]
    /\ todo = Gangs
    /\ running = [w \in Workers |-> Idle]
    /\ pass = [w \in Workers |-> 1]
    /\ loaded = [w \in Workers |-> << >>]
    /\ stored = {}

Take(w, g) ==
    /\ running[w] = Idle
    /\ todo' = todo \ {g}
    /\ running' = [running EXCEPT ![w] = g]
    /\ pass' = [pass EXCEPT ![w] = 1]
    /\ UNCHANGED <<api, active, memory, loaded, stored>>

Load(w) ==
    /\ running[w] # Idle
    /\ loaded[w] = << >>
    /\ loaded' = [loaded EXCEPT ![w] = memory]
    /\ UNCHANGED <<api, active, memory, todo, running, pass, stored>>

StoredValueOverwrites(w) ==
    Result([i \in 1..Accumulators |-> 0], running[w], pass[w])
StoredValue(w) == Result(loaded[w], running[w], pass[w])

Store(w) ==
    /\ running[w] # Idle
    /\ loaded[w] # << >>
    /\ memory' = StoredValue(w)
    /\ loaded' = [loaded EXCEPT ![w] = << >>]
    /\ stored' = stored \cup {<<running[w], pass[w]>>}
    /\ IF pass[w] < Passes
       THEN /\ pass' = [pass EXCEPT ![w] = @ + 1]
            /\ UNCHANGED running
       ELSE /\ running' = [running EXCEPT ![w] = Idle]
            /\ UNCHANGED pass
    /\ UNCHANGED <<api, active, todo>>

Completed == todo = {} /\ \A w \in Workers : running[w] = Idle

SumDone == Completed /\ UNCHANGED sumVars

SumNext ==
    \/ \E w \in Workers, g \in todo : Take(w, g)
    \/ \E w \in Workers : Load(w) \/ Store(w)
    \/ SumDone

SumSpec == SumInit /\ [][SumNext]_sumVars

-----------------------------------------------------------------------------
(* Properties *)

Calls == Gangs \X (1..Passes)

\* What a call adds, lane by lane (tests/sad.cpp:29).
LaneAdds(x, y) == IF api = "atomic_add" THEN x ELSE Max({x, y}) - Min({x, y})
Contribution(call) ==
    SumFunction([l \in active[call[1]][call[2]] |->
                    LaneAdds(A(call[1], l), B(call[1], l))])
Amount == [call \in Calls |-> Contribution(call)]

\* When the region has ended, the location holds the sum over all threads
\* that made the call (tests/sad.cpp:40-41 for AddAbsDiff).
SumIsRight ==
    Completed => ReduceSum(memory) = SumFunction(Amount)

Atomically == INSTANCE AtomicSum WITH
    Contributions <- Calls,
    amount <- Amount,
    total <- ReduceSum(memory),
    pending <- Calls \ stored

\* Every step adds the contribution of one call, or changes nothing.
ImplementsAtomicSum == Atomically!Spec

\* README.md:152: psim_atomic_add_local "will atomically perform the
\* horizontal sum" across all threads, those of a parallel region too.
AtomicAddLosesNothing ==
    Completed /\ api = "atomic_add" =>
        ReduceSum(memory) = SumFunction(Amount)
=============================================================================
