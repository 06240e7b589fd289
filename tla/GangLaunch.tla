----------------------------- MODULE GangLaunch ------------------------------
(***************************************************************************)
(* The loop that "#psim" is turned into (src/compiler/parsimony.py, the    *)
(* launch_*_template strings and process_omp_psim_pragmas): the grid of    *)
(* SPMD threads is cut into gangs, one per iteration, and every iteration  *)
(* picks the variant of the region to run: is this the head gang, the tail *)
(* gang, must the threads check that they exist.  With "parallel" the loop *)
(* is an "omp parallel for", whose workers take iterations in any order.   *)
(***************************************************************************)
EXTENDS Integers, FiniteSets

CONSTANTS
    Launches, \* the "#psim" regions to consider: records of
              \*   unit      "gangs" (num_spmd_gangs) or "threads"
              \*   head      the body mentions psim_is_head_gang
              \*   tail      the body mentions psim_is_tail_gang
              \*   parallel  "parallel" is given
              \*   grid      __psim_grid_size
              \*   gang      $GANG_SIZE$
    Workers,  \* the OpenMP threads of a parallel region
    Master,   \* the one that runs a sequential loop
    Idle,
    Wrap      \* 2^64: uint64_t arithmetic is modulo Wrap

ASSUME LaunchAssumption ==
    /\ Wrap \in Nat
    /\ Idle \notin Nat
    /\ Master \in Workers
    /\ \A l \in Launches :
          /\ l = [unit |-> l.unit, head |-> l.head, tail |-> l.tail,
                  parallel |-> l.parallel, grid |-> l.grid, gang |-> l.gang]
          /\ l.unit \in {"gangs", "threads"}
          /\ l.head \in BOOLEAN /\ l.tail \in BOOLEAN /\ l.parallel \in BOOLEAN
          /\ l.grid \in Nat /\ l.gang \in Nat \ {0}
          \* the loop index does not wrap around
          /\ l.grid + l.gang <= Wrap
          \* grid_size = "((gangs) * (gang_size))"
          /\ l.unit = "gangs" => \E n \in 0..l.grid : l.grid = n * l.gang

VARIABLES
    launch,  \* the region being run
    todo,    \* the iterations no worker has taken
    running, \* worker -> the iteration it executes, or Idle
    runs,    \* SPMD thread -> how often it ran
    ranAs    \* SPMD thread -> the variant it ran in last

vars == <<launch, todo, running, runs, ranAs>>

-----------------------------------------------------------------------------
(* The loop *)

\* The values of __psim_i.
Iterations(l) ==
    {i \in 0..(l.grid - 1) : \E k \in 0..l.grid : i = k * l.gang}

\* uint64_t addition.
Plus(a, b) == (a + b) % Wrap

\* A variant of the region, as genParReg generates it: the values that
\* replace psim_is_head_gang() and psim_is_tail_gang(), and whether the
\* threads check their number against __psim_grid_size.
Variant(head, tail, cond) == [run |-> TRUE, head |-> head, tail |-> tail,
                              cond |-> cond]
Nothing == [run |-> FALSE, head |-> FALSE, tail |-> FALSE, cond |-> FALSE]

Body         == Variant(FALSE, FALSE, FALSE)
BodyCond     == Variant(FALSE, FALSE, TRUE)
HeadGang     == Variant(TRUE, FALSE, FALSE)
HeadCond     == Variant(TRUE, FALSE, TRUE)
TailGang     == Variant(FALSE, TRUE, FALSE)
TailCond     == Variant(FALSE, TRUE, TRUE)
HeadTail     == Variant(TRUE, TRUE, FALSE)
HeadTailCond == Variant(TRUE, TRUE, TRUE)

LaunchGangsHeadBodyTail(i, gang, grid) ==
    IF i = 0 /\ gang = grid THEN HeadTail
    ELSE IF i = 0 THEN HeadGang
    ELSE IF Plus(i, gang) < grid THEN Body
    ELSE IF Plus(i, gang) = grid THEN TailGang
    ELSE Nothing

LaunchGangsBodyTail(i, gang, grid) ==
    IF Plus(i, gang) = grid THEN TailGang ELSE Body

LaunchGangsHeadBody(i, gang, grid) == IF i = 0 THEN HeadGang ELSE Body

LaunchThreadsHeadFirst(i, gang, grid) ==
    IF i = 0 /\ gang > grid THEN HeadTailCond
    ELSE IF i = 0 THEN HeadGang
    ELSE IF Plus(i, gang) < grid THEN Body
    ELSE IF Plus(i, gang) = grid THEN TailGang
    ELSE TailCond
LaunchThreadsHeadBodyTail(i, gang, grid) ==
    IF i = 0 /\ gang = grid THEN HeadTail
    ELSE IF i = 0 /\ gang > grid THEN HeadTailCond
    ELSE IF i = 0 THEN HeadGang
    ELSE IF Plus(i, gang) < grid THEN Body
    ELSE IF Plus(i, gang) = grid THEN TailGang
    ELSE TailCond

LaunchThreadsBodyTail(i, gang, grid) ==
    IF i = 0 /\ gang > grid THEN TailCond
    ELSE IF Plus(i, gang) < grid THEN Body
    ELSE IF Plus(i, gang) = grid THEN TailGang
    ELSE Nothing

LaunchThreadsHeadBody(i, gang, grid) ==
    IF i = 0 /\ gang > grid THEN HeadCond
    ELSE IF i = 0 THEN HeadGang
    ELSE IF Plus(i, gang) <= grid THEN Body
    ELSE BodyCond

LaunchThreadsBodyUnchecked(i, gang, grid) == Body
LaunchThreadsBodyTruncated(i, gang, grid) ==
    IF Plus(i, gang) <= grid THEN Body ELSE Nothing
LaunchThreadsBody(i, gang, grid) ==
    IF Plus(i, gang) <= grid THEN Body ELSE BodyCond

\* The choice of the template in process_omp_psim_pragmas.
LaunchGangs(l, i) ==
    IF l.head /\ l.tail THEN LaunchGangsHeadBodyTail(i, l.gang, l.grid)
    ELSE IF l.head THEN LaunchGangsHeadBody(i, l.gang, l.grid)
    ELSE IF l.tail THEN LaunchGangsBodyTail(i, l.gang, l.grid)
    ELSE Body

LaunchThreads(l, i) ==
    IF l.head /\ l.tail THEN LaunchThreadsHeadBodyTail(i, l.gang, l.grid)
    ELSE IF l.head THEN LaunchThreadsHeadBody(i, l.gang, l.grid)
    ELSE IF l.tail THEN LaunchThreadsBodyTail(i, l.gang, l.grid)
    ELSE LaunchThreadsBody(i, l.gang, l.grid)

Choose(l, i) ==
    IF l.unit = "gangs" THEN LaunchGangs(l, i) ELSE LaunchThreads(l, i)

\* The threads that execute the body in iteration i:
\* "if(__psim_i + psim_get_lane_num() < __psim_grid_size)" guards them.
ThreadsOf(l, i) ==
    {t \in i..(i + l.gang - 1) :
        Choose(l, i).run /\ (Choose(l, i).cond => t < l.grid)}

\* Every thread number an iteration could touch.
Slots(l) == 0..(l.grid + l.gang - 1)

-----------------------------------------------------------------------------
Init ==
    /\ launch \in Launches
    /\ todo = Iterations(launch)
    /\ running = [w \in Workers |-> Idle]
    /\ runs = [t \in Slots(launch) |-> 0]
    /\ ranAs = [t \in Slots(launch) |-> Nothing]

\* Without "parallel" one thread runs the iterations in order.
InOrder(w, i) ==
    launch.parallel \/ (w = Master /\ \A j \in todo : i <= j)

Take(w, i) ==
    /\ i \in todo /\ running[w] = Idle
    /\ InOrder(w, i)
    /\ todo' = todo \ {i}
    /\ running' = [running EXCEPT ![w] = i]
    /\ UNCHANGED <<launch, runs, ranAs>>

\* The gang of w's iteration has executed the region.
Execute(w) ==
    /\ running[w] # Idle
    /\ LET S == ThreadsOf(launch, running[w]) IN
       /\ runs' = [t \in Slots(launch) |->
                      IF t \in S THEN runs[t] + 1 ELSE runs[t]]
       /\ ranAs' = [t \in Slots(launch) |->
                      IF t \in S THEN Choose(launch, running[w]) ELSE ranAs[t]]
    /\ running' = [running EXCEPT ![w] = Idle]
    /\ UNCHANGED <<launch, todo>>

Completed == todo = {} /\ \A w \in Workers : running[w] = Idle

Ended == Completed /\ UNCHANGED vars

Next ==
    \/ \E w \in Workers, i \in todo : Take(w, i)
    \/ \E w \in Workers : Execute(w)
    \/ Ended

Spec == Init /\ [][Next]_vars

-----------------------------------------------------------------------------
TypeOK ==
    /\ launch \in Launches
    /\ todo \subseteq Iterations(launch)
    /\ running \in [Workers -> Iterations(launch) \cup {Idle}]
    /\ runs \in [Slots(launch) -> Nat]
    /\ ranAs \in [Slots(launch) -> [run : BOOLEAN, head : BOOLEAN,
                                    tail : BOOLEAN, cond : BOOLEAN]]

\* The template for bodies that ask for the tail gang only has no branch for
\* a last gang that is cut short by the grid, unless it is the only gang.
DropsLastGang(l) ==
    /\ l.unit = "threads" /\ l.tail /\ ~l.head
    /\ l.grid > l.gang
    /\ l.grid \notin {k * l.gang : k \in 0..l.grid}

\* No SPMD thread runs twice and no thread outside the grid runs at all,
\* whatever workers take which iterations.
AtMostOnce ==
    \A t \in Slots(launch) :
        runs[t] <= 1 /\ (t >= launch.grid => runs[t] = 0)

\* When the region is left, every thread of the grid has run exactly once
\* (unless the template drops the last gang).
ExactlyOnce ==
    Completed /\ ~DropsLastGang(launch) =>
        \A t \in 0..(launch.grid - 1) : runs[t] = 1

\* psim_is_head_gang() is true in the first gang and psim_is_tail_gang() in
\* the last gang of the region, and nowhere else, for a body that asks.
HeadTailRight ==
    \A t \in Slots(launch) : \A i \in Iterations(launch) :
        runs[t] > 0 /\ t \in i..(i + launch.gang - 1) =>
            /\ launch.head => (ranAs[t].head <=> i = 0)
            /\ launch.tail => (ranAs[t].tail <=> i + launch.gang >= launch.grid)
=============================================================================
