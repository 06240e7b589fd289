-------------------------- MODULE GangLaunchProofs ---------------------------
(***************************************************************************)
(* For every grid, gang size, template and number of workers: no SPMD      *)
(* thread runs twice or outside the grid, every thread has run when the    *)
(* region is left (unless the template drops the last gang), and the head  *)
(* and tail flags are those of the gang.                                   *)
(***************************************************************************)
EXTENDS GangLaunch, TLAPS

\* Iteration i has been executed.
Done(i) == i \in Iterations(launch) \ todo /\ \A w \in Workers : running[w] # i

ExclusiveInv ==
    /\ \A w \in Workers : running[w] \notin todo
    /\ \A v, w \in Workers : running[v] = running[w] /\ running[v] # Idle => v = w

RunsInv ==
    /\ \A t \in Slots(launch) :
          runs[t] = IF \E i \in Iterations(launch) :
                          Done(i) /\ t \in ThreadsOf(launch, i)
                    THEN 1 ELSE 0
    /\ \A t \in Slots(launch), i \in Iterations(launch) :
          Done(i) /\ t \in ThreadsOf(launch, i) => ranAs[t] = Choose(launch, i)

IInv == TypeOK /\ ExclusiveInv /\ RunsInv

-----------------------------------------------------------------------------
\* A launch is a record with typed fields.
LEMMA LaunchType ==
    ASSUME NEW l \in Launches
    PROVE  /\ l.grid \in Nat /\ l.gang \in Nat /\ l.gang > 0
           /\ l.head \in BOOLEAN /\ l.tail \in BOOLEAN
           /\ l.unit \in {"gangs", "threads"}
           /\ l.grid + l.gang <= Wrap /\ Wrap \in Nat
  BY LaunchAssumption

\* Multiples of g are at least g apart.
LEMMA Apart ==
    ASSUME NEW g \in Nat, g > 0, NEW j \in Nat, NEW k \in Nat, j * g < k * g
    PROVE  j * g + g <= k * g
  <1>1. \A d \in Nat : d * g \in Nat
    OBVIOUS
  <1>2. j < k
    <2> SUFFICES ASSUME k <= j PROVE FALSE
      OBVIOUS
    <2> DEFINE d == j - k
    <2>1. d \in Nat /\ j = k + d
      OBVIOUS
    <2> HIDE DEF d
    <2>2. (k + d) * g = k * g + d * g
      BY <2>1
    <2>3. d * g >= 0 /\ d * g \in Nat /\ k * g \in Nat
      BY <1>1, <2>1
    <2> QED
      BY <2>1, <2>2, <2>3
  <1> DEFINE e == k - j - 1
  <1>3. e \in Nat /\ k = j + e + 1
    BY <1>2
  <1> HIDE DEF e
  <1>4. (j + e + 1) * g = j * g + e * g + g
    BY <1>3
  <1>5. e * g \in Nat /\ j * g \in Nat
    BY <1>1, <1>3
  <1> QED
    BY <1>3, <1>4, <1>5

\* Iterations are numbers, and the ranges of threads they start do not meet.
LEMMA IterationsDisjoint ==
    ASSUME NEW l \in Launches, NEW i \in Iterations(l), NEW j \in Iterations(l),
           NEW t \in i..(i + l.gang - 1), t \in j..(j + l.gang - 1)
    PROVE  i = j
  <1>1. l.grid \in Nat /\ l.gang \in Nat /\ l.gang > 0
    BY LaunchType
  <1>2. i \in Nat /\ j \in Nat
    BY <1>1 DEF Iterations
  <1>3. PICK m \in Nat : i = m * l.gang
    BY <1>1 DEF Iterations
  <1>4. PICK n \in Nat : j = n * l.gang
    BY <1>1 DEF Iterations
  <1>5. i < j => i + l.gang <= j
    BY <1>1, <1>3, <1>4, Apart
  <1>6. j < i => j + l.gang <= i
    BY <1>1, <1>3, <1>4, Apart
  <1> QED
    BY <1>1, <1>2, <1>5, <1>6

\* Every thread of the grid belongs to an iteration.
LEMMA IterationsCover ==
    ASSUME NEW l \in Launches, NEW t \in 0..(l.grid - 1)
    PROVE  \E i \in Iterations(l) : t \in i..(i + l.gang - 1)
  <1>1. l.grid \in Nat /\ l.gang \in Nat /\ l.gang > 0
    BY LaunchType
  <1> DEFINE k == t \div l.gang
             i == k * l.gang
  <1>2. k \in Nat /\ t = l.gang * k + (t % l.gang)
        /\ t % l.gang \in 0..(l.gang - 1)
    BY <1>1
  <1> HIDE DEF k
  <1>3. i = l.gang * k /\ i \in Nat
    BY <1>1, <1>2
  <1>4. i <= t /\ t <= i + l.gang - 1
    BY <1>1, <1>2, <1>3
  <1>5. k <= i
    <2> DEFINE h == l.gang - 1
    <2>1. h \in Nat /\ l.gang = h + 1
      BY <1>1
    <2> HIDE DEF h
    <2>2. k * (h + 1) = k * h + k /\ k * h \in Nat
      BY <1>2, <2>1
    <2> QED
      BY <1>2, <2>1, <2>2
  <1>6. k \in 0..l.grid /\ i \in 0..(l.grid - 1)
    BY <1>1, <1>2, <1>3, <1>4, <1>5
  <1>7. i \in Iterations(l)
    BY <1>6 DEF Iterations
  <1> QED
    BY <1>1, <1>3, <1>4, <1>7

\* Inside the assumed range uint64_t addition does not wrap.
LEMMA PlusExact ==
    ASSUME NEW l \in Launches, NEW i \in Iterations(l)
    PROVE  Plus(i, l.gang) = i + l.gang
  <1>1. /\ l.grid \in Nat /\ l.gang \in Nat /\ l.gang > 0
        /\ l.grid + l.gang <= Wrap /\ Wrap \in Nat
    BY LaunchType
  <1>2. i \in 0..(l.grid - 1)
    BY DEF Iterations
  <1>3. i + l.gang \in 0..(Wrap - 1)
    BY <1>1, <1>2
  <1>4. Wrap > 0
    BY <1>1, <1>3
  <1>5. \A a \in Nat : a < Wrap => a % Wrap = a
    BY <1>1, <1>4
  <1> QED
    BY <1>1, <1>3, <1>5 DEF Plus

\* A grid given in gangs is a multiple of the gang size: no gang is partial.
LEMMA GangsAreFull ==
    ASSUME NEW l \in Launches, NEW i \in Iterations(l), l.unit = "gangs"
    PROVE  i + l.gang <= l.grid
  <1>1. l.grid \in Nat /\ l.gang \in Nat /\ l.gang > 0
    BY LaunchType
  <1>2. PICK n \in 0..l.grid : l.grid = n * l.gang
    BY LaunchAssumption
  <1>3. PICK k \in 0..l.grid : i = k * l.gang /\ i \in 0..(l.grid - 1)
    BY DEF Iterations
  <1>4. k * l.gang < n * l.gang
    BY <1>1, <1>2, <1>3
  <1> QED
    BY <1>1, <1>2, <1>3, <1>4, Apart

\* The fields of the variants.
Variants == {Body, BodyCond, HeadGang, HeadCond, TailGang, TailCond,
             HeadTail, HeadTailCond, Nothing}

VariantType == [run : BOOLEAN, head : BOOLEAN, tail : BOOLEAN, cond : BOOLEAN]

LEMMA FieldTypes == Variants \subseteq VariantType
  <1>1. \A h, t, c \in BOOLEAN : Variant(h, t, c) \in VariantType
    BY DEF Variant, VariantType
  <1>2. Nothing \in VariantType
    BY DEF Nothing, VariantType
  <1>3. {Body, BodyCond, HeadGang, HeadCond} \subseteq VariantType
    BY <1>1 DEF Body, BodyCond, HeadGang, HeadCond
  <1>4. {TailGang, TailCond, HeadTail, HeadTailCond} \subseteq VariantType
    BY <1>1 DEF TailGang, TailCond, HeadTail, HeadTailCond
  <1> QED
    BY <1>2, <1>3, <1>4 DEF Variants

LEMMA Fields ==
    /\ Nothing.run = FALSE
    /\ Body.run /\ Body.head = FALSE /\ Body.tail = FALSE
    /\ BodyCond.run /\ BodyCond.head = FALSE /\ BodyCond.tail = FALSE
    /\ BodyCond.cond
    /\ HeadGang.run /\ HeadGang.head /\ HeadGang.tail = FALSE
    /\ HeadCond.run /\ HeadCond.head /\ HeadCond.tail = FALSE /\ HeadCond.cond
    /\ TailGang.run /\ TailGang.head = FALSE /\ TailGang.tail
    /\ TailCond.run /\ TailCond.head = FALSE /\ TailCond.tail /\ TailCond.cond
    /\ HeadTail.run /\ HeadTail.head /\ HeadTail.tail
    /\ HeadTailCond.run /\ HeadTailCond.head /\ HeadTailCond.tail
    /\ HeadTailCond.cond
  BY DEF Variant, Nothing, Body, BodyCond, HeadGang, HeadCond,
         TailGang, TailCond, HeadTail, HeadTailCond

\* Only Nothing does not run.
LEMMA VariantsRun ==
    ASSUME NEW v \in Variants
    PROVE  v.run <=> v # Nothing
  <1>1. v # Nothing => v.run
    BY Fields DEF Variants
  <1>2. v = Nothing => v.run = FALSE
    BY Fields
  <1> QED
    BY <1>1, <1>2

\* What a gang that is full, or whose threads are checked, can be.
LEMMA ThreadsVariant ==
    ASSUME NEW l \in Launches, NEW i \in Iterations(l), l.unit = "threads"
    PROVE  LET v == Choose(l, i) IN
           /\ v \in Variants
           /\ v = Nothing => l.tail /\ ~l.head /\ i + l.gang > l.grid
                             /\ ~(i = 0 /\ l.gang > l.grid)
           /\ v # Nothing => v.cond \/ i + l.gang <= l.grid
           /\ v # Nothing /\ l.head => (v.head <=> i = 0)
           /\ v # Nothing /\ l.tail => (v.tail <=> i + l.gang >= l.grid)
  <1>1. /\ l.grid \in Nat /\ l.gang \in Nat /\ l.gang > 0
        /\ l.head \in BOOLEAN /\ l.tail \in BOOLEAN
    BY LaunchType
  <1>2. i \in Nat /\ Plus(i, l.gang) = i + l.gang
    BY <1>1, PlusExact DEF Iterations
  <1>3. Choose(l, i) = LaunchThreads(l, i)
    BY DEF Choose
  <1>4. CASE l.head /\ l.tail
    <2>1. Choose(l, i) = LaunchThreadsHeadBodyTail(i, l.gang, l.grid)
      BY <1>3, <1>4 DEF LaunchThreads
    <2>2. \/ i = 0 /\ l.gang = l.grid /\ Choose(l, i) = HeadTail
          \/ i = 0 /\ l.gang > l.grid /\ Choose(l, i) = HeadTailCond
          \/ i = 0 /\ l.gang < l.grid /\ Choose(l, i) = HeadGang
          \/ i > 0 /\ i + l.gang < l.grid /\ Choose(l, i) = Body
          \/ i > 0 /\ i + l.gang = l.grid /\ Choose(l, i) = TailGang
          \/ i > 0 /\ i + l.gang > l.grid /\ Choose(l, i) = TailCond
      BY <1>1, <1>2, <2>1 DEF LaunchThreadsHeadBodyTail
    <2> QED
      BY <1>1, <1>2, <1>4, <2>2, Fields DEF Variants
  <1>5. CASE l.head /\ ~l.tail
    <2>1. Choose(l, i) = LaunchThreadsHeadBody(i, l.gang, l.grid)
      BY <1>3, <1>5 DEF LaunchThreads
    <2>2. \/ i = 0 /\ l.gang > l.grid /\ Choose(l, i) = HeadCond
          \/ i = 0 /\ l.gang <= l.grid /\ Choose(l, i) = HeadGang
          \/ i > 0 /\ i + l.gang <= l.grid /\ Choose(l, i) = Body
          \/ i > 0 /\ i + l.gang > l.grid /\ Choose(l, i) = BodyCond
      BY <1>1, <1>2, <2>1 DEF LaunchThreadsHeadBody
    <2> QED
      BY <1>1, <1>2, <1>5, <2>2, Fields DEF Variants
  <1>6. CASE ~l.head /\ l.tail
    <2>1. Choose(l, i) = LaunchThreadsBodyTail(i, l.gang, l.grid)
      BY <1>3, <1>6 DEF LaunchThreads
    <2>2. \/ i = 0 /\ l.gang > l.grid /\ Choose(l, i) = TailCond
          \/ i + l.gang < l.grid /\ Choose(l, i) = Body
          \/ i + l.gang = l.grid /\ Choose(l, i) = TailGang
          \/ /\ i + l.gang > l.grid /\ ~(i = 0 /\ l.gang > l.grid)
             /\ Choose(l, i) = Nothing
      BY <1>1, <1>2, <2>1 DEF LaunchThreadsBodyTail
    <2> QED
      BY <1>1, <1>2, <1>6, <2>2, Fields DEF Variants
  <1>7. CASE ~l.head /\ ~l.tail
    <2>1. Choose(l, i) = LaunchThreadsBody(i, l.gang, l.grid)
      BY <1>3, <1>7 DEF LaunchThreads
    <2>2. \/ i + l.gang <= l.grid /\ Choose(l, i) = Body
          \/ i + l.gang > l.grid /\ Choose(l, i) = BodyCond
      BY <1>1, <1>2, <2>1 DEF LaunchThreadsBody
    <2> QED
      BY <1>1, <1>2, <1>7, <2>2, Fields DEF Variants
  <1> QED
    BY <1>1, <1>4, <1>5, <1>6, <1>7

\* The same for a grid given in gangs, none of which is partial.
LEMMA GangsVariant ==
    ASSUME NEW l \in Launches, NEW i \in Iterations(l), l.unit = "gangs"
    PROVE  LET v == Choose(l, i) IN
           /\ v \in Variants \ {Nothing}
           /\ l.head => (v.head <=> i = 0)
           /\ l.tail => (v.tail <=> i + l.gang >= l.grid)
  <1>1. /\ l.grid \in Nat /\ l.gang \in Nat /\ l.gang > 0
        /\ l.head \in BOOLEAN /\ l.tail \in BOOLEAN
    BY LaunchType
  <1>2. /\ i \in Nat /\ Plus(i, l.gang) = i + l.gang
        /\ i + l.gang <= l.grid
    BY <1>1, PlusExact, GangsAreFull DEF Iterations
  <1>3. Choose(l, i) = LaunchGangs(l, i)
    BY DEF Choose
  <1>4. CASE l.head /\ l.tail
    <2>1. Choose(l, i) = LaunchGangsHeadBodyTail(i, l.gang, l.grid)
      BY <1>3, <1>4 DEF LaunchGangs
    <2>2. \/ i = 0 /\ l.gang = l.grid /\ Choose(l, i) = HeadTail
          \/ i = 0 /\ l.gang < l.grid /\ Choose(l, i) = HeadGang
          \/ i > 0 /\ i + l.gang < l.grid /\ Choose(l, i) = Body
          \/ i > 0 /\ i + l.gang = l.grid /\ Choose(l, i) = TailGang
      BY <1>1, <1>2, <2>1 DEF LaunchGangsHeadBodyTail
    <2>3. Choose(l, i) \in Variants \ {Nothing}
      BY <2>2, Fields DEF Variants
    <2> QED
      BY <1>1, <1>2, <1>4, <2>2, <2>3, Fields
  <1>5. CASE l.head /\ ~l.tail
    <2>1. Choose(l, i) = LaunchGangsHeadBody(i, l.gang, l.grid)
      BY <1>3, <1>5 DEF LaunchGangs
    <2>2. \/ i = 0 /\ Choose(l, i) = HeadGang
          \/ i > 0 /\ Choose(l, i) = Body
      BY <1>1, <1>2, <2>1 DEF LaunchGangsHeadBody
    <2>3. Choose(l, i) \in Variants \ {Nothing}
      BY <2>2, Fields DEF Variants
    <2> QED
      BY <1>1, <1>2, <1>5, <2>2, <2>3, Fields
  <1>6. CASE ~l.head /\ l.tail
    <2>1. Choose(l, i) = LaunchGangsBodyTail(i, l.gang, l.grid)
      BY <1>3, <1>6 DEF LaunchGangs
    <2>2. \/ i + l.gang = l.grid /\ Choose(l, i) = TailGang
          \/ i + l.gang < l.grid /\ Choose(l, i) = Body
      BY <1>1, <1>2, <2>1 DEF LaunchGangsBodyTail
    <2>3. Choose(l, i) \in Variants \ {Nothing}
      BY <2>2, Fields DEF Variants
    <2> QED
      BY <1>1, <1>2, <1>6, <2>2, <2>3, Fields
  <1>7. CASE ~l.head /\ ~l.tail
    <2>1. Choose(l, i) = Body
      BY <1>3, <1>7 DEF LaunchGangs
    <2> QED
      BY <1>7, <2>1, Fields DEF Variants
  <1> QED
    BY <1>1, <1>4, <1>5, <1>6, <1>7

\* The variants are the records TypeOK names.
LEMMA ChooseType ==
    ASSUME NEW l \in Launches, NEW i \in Iterations(l)
    PROVE  Choose(l, i) \in [run : BOOLEAN, head : BOOLEAN,
                             tail : BOOLEAN, cond : BOOLEAN]
  <1>1. Choose(l, i) \in Variants
    BY LaunchType, GangsVariant, ThreadsVariant
  <1> QED
    BY <1>1, FieldTypes DEF VariantType

\* No template runs a thread outside the grid: it checks the threads of every
\* gang that reaches beyond it.
LEMMA ThreadsInGrid ==
    ASSUME NEW l \in Launches, NEW i \in Iterations(l), NEW t \in ThreadsOf(l, i)
    PROVE  t < l.grid
  <1>1. /\ l.grid \in Nat /\ l.gang \in Nat /\ i \in Nat
        /\ l.unit \in {"gangs", "threads"}
    BY LaunchType DEF Iterations
  <1>2. /\ t \in i..(i + l.gang - 1)
        /\ Choose(l, i).run
        /\ Choose(l, i).cond => t < l.grid
    BY DEF ThreadsOf
  <1>3. i + l.gang <= l.grid => t < l.grid
    BY <1>1, <1>2
  <1>4. CASE l.unit = "gangs"
    BY <1>3, <1>4, GangsAreFull
  <1>5. CASE l.unit = "threads"
    <2>1. Choose(l, i) # Nothing
      BY <1>2, <1>5, VariantsRun, ThreadsVariant
    <2>2. Choose(l, i).cond \/ i + l.gang <= l.grid
      BY <1>5, <2>1, ThreadsVariant
    <2> QED
      BY <1>2, <1>3, <2>2
  <1> QED
    BY <1>1, <1>4, <1>5

\* Unless the template drops the last gang, every iteration runs a variant.
LEMMA EveryIterationRuns ==
    ASSUME NEW l \in Launches, NEW i \in Iterations(l), ~DropsLastGang(l)
    PROVE  Choose(l, i).run
  <1>1. /\ l.grid \in Nat /\ l.gang \in Nat /\ l.gang > 0
        /\ l.unit \in {"gangs", "threads"}
    BY LaunchType
  <1>2. i \in Nat /\ i < l.grid
    BY <1>1 DEF Iterations
  <1>3. PICK k \in Nat : i = k * l.gang
    BY <1>1 DEF Iterations
  <1>4. CASE l.unit = "gangs"
    <2>1. Choose(l, i) \in Variants \ {Nothing}
      BY <1>4, GangsVariant
    <2> QED
      BY <2>1, VariantsRun
  <1>5. CASE l.unit = "threads"
    <2>0. Choose(l, i) \in Variants
      BY <1>5, ThreadsVariant
    <2>1. SUFFICES ASSUME Choose(l, i) = Nothing PROVE FALSE
      BY <2>0, VariantsRun
    <2>2. /\ l.tail /\ ~l.head /\ i + l.gang > l.grid
          /\ ~(i = 0 /\ l.gang > l.grid)
      BY <1>5, <2>1, ThreadsVariant
    <2>3. 0 * l.gang = 0
      BY <1>1
    <2>4. 0 < i => l.gang <= i
      <3>1. 0 * l.gang < k * l.gang => 0 * l.gang + l.gang <= k * l.gang
        BY <1>1, Apart
      <3> QED
        BY <1>1, <1>2, <1>3, <2>3, <3>1
    <2>5. l.grid > l.gang
      BY <1>1, <1>2, <2>2, <2>4
    <2>6. PICK n \in 0..l.grid : l.grid = n * l.gang
      BY <1>5, <2>2, <2>5 DEF DropsLastGang
    <2>7. i + l.gang <= l.grid
      BY <1>1, <1>2, <1>3, <2>6, Apart
    <2> QED
      BY <1>1, <1>2, <2>2, <2>7
  <1> QED
    BY <1>1, <1>4, <1>5

\* A variant that runs gives the body the flags of its gang.
LEMMA FlagsRight ==
    ASSUME NEW l \in Launches, NEW i \in Iterations(l), Choose(l, i).run
    PROVE  /\ l.head => (Choose(l, i).head <=> i = 0)
           /\ l.tail => (Choose(l, i).tail <=> i + l.gang >= l.grid)
  <1>1. Choose(l, i) \in Variants
    BY LaunchType, GangsVariant, ThreadsVariant
  <1>2. Choose(l, i) # Nothing
    BY <1>1, VariantsRun
  <1> QED
    BY <1>2, LaunchType, GangsVariant, ThreadsVariant

-----------------------------------------------------------------------------
\* Iterations are numbers, and their threads have slots.
LEMMA IterationsNat ==
    ASSUME NEW l \in Launches, NEW i \in Iterations(l)
    PROVE  i \in Nat /\ i # Idle
  <1>1. i \in Nat
    BY LaunchType DEF Iterations
  <1> QED
    BY <1>1, LaunchAssumption

\* Nothing runs before the loop starts.
LEMMA InitIInv == Init => IInv
  <1> SUFFICES ASSUME Init PROVE IInv
    OBVIOUS
  <1>1. launch \in Launches /\ todo = Iterations(launch)
        /\ running = [w \in Workers |-> Idle]
    BY DEF Init
  <1>2. \A i \in Iterations(launch) : i # Idle
    BY <1>1, IterationsNat
  <1>3. TypeOK
    <2>1. runs \in [Slots(launch) -> Nat]
      BY DEF Init
    <2>2. ranAs \in [Slots(launch) -> [run : BOOLEAN, head : BOOLEAN,
                                      tail : BOOLEAN, cond : BOOLEAN]]
      BY DEF Init, Nothing
    <2> QED
      BY <1>1, <2>1, <2>2 DEF TypeOK
  <1>4. ExclusiveInv
    BY <1>1, <1>2 DEF ExclusiveInv
  <1>5. \A i \in Iterations(launch) : ~Done(i)
    BY <1>1 DEF Done
  <1>6. RunsInv
    BY <1>5 DEF RunsInv, Init
  <1> QED
    BY <1>3, <1>4, <1>6 DEF IInv

\* A step that executes nothing keeps the account of what has run.
LEMMA AccountKept ==
    ASSUME RunsInv, UNCHANGED <<launch, runs, ranAs>>,
           \A i \in Iterations(launch) : Done(i)' <=> Done(i)
    PROVE  RunsInv'
  <1>1. launch' = launch /\ runs' = runs /\ ranAs' = ranAs
    OBVIOUS
  <1>2. \A t \in Slots(launch') :
          runs'[t] = IF \E i \in Iterations(launch') :
                           Done(i)' /\ t \in ThreadsOf(launch', i)
                     THEN 1 ELSE 0
    BY <1>1 DEF RunsInv
  <1>3. \A t \in Slots(launch'), i \in Iterations(launch') :
          Done(i)' /\ t \in ThreadsOf(launch', i) =>
              ranAs'[t] = Choose(launch', i)
    BY <1>1 DEF RunsInv
  <1> QED
    BY <1>2, <1>3 DEF RunsInv

\* Taking an iteration: it leaves "todo" for the hands of one worker.
LEMMA TakeStep ==
    ASSUME IInv, NEW w \in Workers, NEW i \in todo, Take(w, i)
    PROVE  IInv'
  <1>1. /\ todo' = todo \ {i}
        /\ running' = [running EXCEPT ![w] = i]
        /\ running[w] = Idle
        /\ launch' = launch /\ runs' = runs /\ ranAs' = ranAs
    BY DEF Take
  <1>2. TypeOK /\ ExclusiveInv /\ RunsInv
    BY DEF IInv
  <1>3. i \in Iterations(launch) /\ launch \in Launches
        /\ running \in [Workers -> Iterations(launch) \cup {Idle}]
    BY <1>2 DEF TypeOK
  <1>4. \A j \in Iterations(launch) : j # Idle
    BY <1>3, IterationsNat
  <1>5. TypeOK'
    BY <1>1, <1>2, <1>3 DEF TypeOK
  <1>6. ExclusiveInv'
    <2>1. \A v \in Workers : running'[v] = IF v = w THEN i ELSE running[v]
      BY <1>1, <1>3
    <2>2. \A v \in Workers : running[v] # i
      BY <1>2 DEF ExclusiveInv
    <2>3. \A v \in Workers : running'[v] \notin todo'
      BY <1>1, <1>2, <2>1 DEF ExclusiveInv
    <2>4. \A v, u \in Workers :
            running'[v] = running'[u] /\ running'[v] # Idle => v = u
      BY <1>2, <2>1, <2>2 DEF ExclusiveInv
    <2> QED
      BY <2>3, <2>4 DEF ExclusiveInv
  <1>7. \A j \in Iterations(launch) : Done(j)' <=> Done(j)
    <2> SUFFICES ASSUME NEW j \in Iterations(launch)
                 PROVE  Done(j)' <=> Done(j)
      OBVIOUS
    <2>1. \A v \in Workers : running'[v] = IF v = w THEN i ELSE running[v]
      BY <1>1, <1>3
    <2>2. Done(j)' <=> /\ j \notin todo \/ j = i
                      /\ \A v \in Workers : running'[v] # j
      BY <1>1, <1>3 DEF Done
    <2>3. CASE j = i
      BY <2>1, <2>2, <2>3 DEF Done
    <2>4. CASE j # i
      BY <1>1, <1>4, <2>1, <2>2, <2>4 DEF Done
    <2> QED
      BY <2>3, <2>4
  <1>8. RunsInv'
    BY <1>1, <1>2, <1>7, AccountKept
  <1> QED
    BY <1>5, <1>6, <1>8 DEF IInv

\* Executing an iteration: its threads had not run, and no other's run.
LEMMA ExecuteStep ==
    ASSUME IInv, NEW w \in Workers, Execute(w)
    PROVE  IInv'
  <1> DEFINE i == running[w]
             S == ThreadsOf(launch, i)
  <1>1. /\ i # Idle
        /\ runs' = [t \in Slots(launch) |->
                       IF t \in S THEN runs[t] + 1 ELSE runs[t]]
        /\ ranAs' = [t \in Slots(launch) |->
                        IF t \in S THEN Choose(launch, i) ELSE ranAs[t]]
        /\ running' = [running EXCEPT ![w] = Idle]
        /\ launch' = launch /\ todo' = todo
    BY DEF Execute
  <1>2. TypeOK /\ ExclusiveInv /\ RunsInv
    BY DEF IInv
  <1>3. /\ i \in Iterations(launch) /\ launch \in Launches
        /\ running \in [Workers -> Iterations(launch) \cup {Idle}]
        /\ todo \subseteq Iterations(launch)
        /\ runs \in [Slots(launch) -> Nat]
        /\ ranAs \in [Slots(launch) -> [run : BOOLEAN, head : BOOLEAN,
                                        tail : BOOLEAN, cond : BOOLEAN]]
    BY <1>1, <1>2 DEF TypeOK
  <1>4. i \notin todo /\ ~Done(i)
    BY <1>2 DEF ExclusiveInv, Done
  <1>5. \A v \in Workers : running'[v] = IF v = w THEN Idle ELSE running[v]
    BY <1>1, <1>3
  <1>6. \A j \in Iterations(launch) : j # Idle
    BY <1>3, IterationsNat
  <1>7. \A j \in Iterations(launch) : Done(j)' <=> Done(j) \/ j = i
    <2> SUFFICES ASSUME NEW j \in Iterations(launch)
                 PROVE  Done(j)' <=> Done(j) \/ j = i
      OBVIOUS
    <2>1. Done(j)' <=> j \notin todo /\ \A v \in Workers : running'[v] # j
      BY <1>1, <1>3 DEF Done
    <2>2. CASE j = i
      <3>1. \A v \in Workers : v # w => running[v] # i
        BY <1>1, <1>2 DEF ExclusiveInv
      <3> QED
        BY <1>4, <1>5, <1>6, <2>1, <2>2, <3>1
    <2>3. CASE j # i
      BY <1>5, <1>6, <2>1, <2>3 DEF Done
    <2> QED
      BY <2>2, <2>3
  <1>8. \A j \in Iterations(launch) : \A t :
          t \in S /\ t \in ThreadsOf(launch, j) => j = i
    BY <1>3, IterationsDisjoint DEF ThreadsOf
  <1>9. TypeOK'
    <2>1. runs' \in [Slots(launch) -> Nat]
      BY <1>1, <1>3
    <2>2. Choose(launch, i) \in [run : BOOLEAN, head : BOOLEAN,
                                tail : BOOLEAN, cond : BOOLEAN]
      BY <1>3, ChooseType
    <2>3. ranAs' \in [Slots(launch) -> [run : BOOLEAN, head : BOOLEAN,
                                       tail : BOOLEAN, cond : BOOLEAN]]
      BY <1>1, <1>3, <2>2
    <2>4. running' \in [Workers -> Iterations(launch) \cup {Idle}]
      BY <1>1, <1>3
    <2> QED
      BY <1>1, <1>3, <2>1, <2>3, <2>4 DEF TypeOK
  <1>10. ExclusiveInv'
    <2>1. Idle \notin todo
      BY <1>3, <1>6
    <2>2. \A v \in Workers : running'[v] \notin todo'
      BY <1>1, <1>2, <1>5, <2>1 DEF ExclusiveInv
    <2>3. \A v, u \in Workers :
            running'[v] = running'[u] /\ running'[v] # Idle => v = u
      BY <1>2, <1>5 DEF ExclusiveInv
    <2> QED
      BY <2>2, <2>3 DEF ExclusiveInv
  <1> HIDE DEF i, S
  <1>11. \A t \in Slots(launch') :
           runs'[t] = IF \E j \in Iterations(launch') :
                            Done(j)' /\ t \in ThreadsOf(launch', j)
                      THEN 1 ELSE 0
    <2> SUFFICES ASSUME NEW t \in Slots(launch)
                 PROVE  runs'[t] = IF \E j \in Iterations(launch) :
                                        Done(j)' /\ t \in ThreadsOf(launch, j)
                                   THEN 1 ELSE 0
      BY <1>1
    <2>1. CASE t \in S
      <3>1. ~\E j \in Iterations(launch) : Done(j) /\ t \in ThreadsOf(launch, j)
        BY <1>4, <1>8, <2>1
      <3>2. runs[t] = 0
        BY <1>2, <3>1 DEF RunsInv
      <3>3. \E j \in Iterations(launch) : Done(j)' /\ t \in ThreadsOf(launch, j)
        BY <1>3, <1>7, <2>1 DEF S
      <3>4. runs'[t] = runs[t] + 1
        BY <1>1, <2>1
      <3> QED
        BY <3>2, <3>3, <3>4
    <2>2. CASE t \notin S
      <3>1. (\E j \in Iterations(launch) : Done(j)' /\ t \in ThreadsOf(launch, j))
            <=> \E j \in Iterations(launch) : Done(j) /\ t \in ThreadsOf(launch, j)
        BY <1>7, <2>2 DEF S
      <3>2. runs'[t] = runs[t]
        BY <1>1, <2>2
      <3> QED
        BY <1>2, <3>1, <3>2 DEF RunsInv
    <2> QED
      BY <2>1, <2>2
  <1>12. \A t \in Slots(launch'), j \in Iterations(launch') :
           Done(j)' /\ t \in ThreadsOf(launch', j) =>
               ranAs'[t] = Choose(launch', j)
    <2> SUFFICES ASSUME NEW t \in Slots(launch), NEW j \in Iterations(launch),
                        Done(j)', t \in ThreadsOf(launch, j)
                 PROVE  ranAs'[t] = Choose(launch, j)
      BY <1>1
    <2>1. CASE j = i
      BY <1>1, <2>1 DEF S
    <2>2. CASE j # i
      <3>1. Done(j) /\ t \notin S
        BY <1>7, <1>8, <2>2
      <3>2. ranAs[t] = Choose(launch, j)
        BY <1>2, <3>1 DEF RunsInv
      <3> QED
        BY <1>1, <3>1, <3>2
    <2> QED
      BY <2>1, <2>2
  <1>13. RunsInv'
    BY <1>11, <1>12 DEF RunsInv
  <1> QED
    BY <1>9, <1>10, <1>13 DEF IInv

LEMMA StepIInv == IInv /\ [Next]_vars => IInv'
  <1> SUFFICES ASSUME IInv, [Next]_vars PROVE IInv'
    OBVIOUS
  <1>1. ASSUME NEW w \in Workers, NEW i \in todo, Take(w, i) PROVE IInv'
    BY <1>1, TakeStep
  <1>2. ASSUME NEW w \in Workers, Execute(w) PROVE IInv'
    BY <1>2, ExecuteStep
  <1>3. CASE UNCHANGED vars
    <2>1. /\ launch' = launch /\ todo' = todo /\ running' = running
          /\ runs' = runs /\ ranAs' = ranAs
      BY <1>3 DEF vars
    <2>2. TypeOK' /\ ExclusiveInv'
      BY <2>1 DEF IInv, TypeOK, ExclusiveInv
    <2>3. \A i \in Iterations(launch) : Done(i)' <=> Done(i)
      BY <2>1 DEF Done
    <2>4. RunsInv'
      BY <2>1, <2>3, AccountKept DEF IInv
    <2> QED
      BY <2>2, <2>4 DEF IInv
  <1> QED
    BY <1>1, <1>2, <1>3 DEF Next, Ended

LEMMA Inductive == Spec => []IInv
  BY InitIInv, StepIInv, PTL DEF Spec

-----------------------------------------------------------------------------
\* The variables of the launch keep their types.
THEOREM TypeCorrect == Spec => []TypeOK
  BY Inductive, PTL DEF IInv

\* Whatever workers take which iterations, no SPMD thread runs twice and none
\* outside the grid runs.
THEOREM RunsAtMostOnce == Spec => []AtMostOnce
  <1>1. IInv => AtMostOnce
    <2> SUFFICES ASSUME IInv, NEW t \in Slots(launch)
                 PROVE  runs[t] <= 1 /\ (t >= launch.grid => runs[t] = 0)
      BY DEF AtMostOnce
    <2>1. launch \in Launches /\ launch.grid \in Nat /\ launch.gang \in Nat
      BY LaunchType DEF IInv, TypeOK
    <2>2. t \in Nat
      BY <2>1 DEF Slots
    <2>3. \/ runs[t] = 0
          \/ runs[t] = 1 /\ \E i \in Iterations(launch) :
                               t \in ThreadsOf(launch, i)
      BY DEF IInv, RunsInv
    <2>4. runs[t] = 1 => t < launch.grid
      BY <2>1, <2>3, ThreadsInGrid
    <2> QED
      BY <2>1, <2>2, <2>3, <2>4
  <1> QED
    BY Inductive, <1>1, PTL

\* When the region is left every thread of the grid has run exactly once,
\* unless the template drops the last gang.
THEOREM RunsExactlyOnce == Spec => []ExactlyOnce
  <1>1. IInv => ExactlyOnce
    <2> SUFFICES ASSUME IInv, Completed, ~DropsLastGang(launch),
                        NEW t \in 0..(launch.grid - 1)
                 PROVE  runs[t] = 1
      BY DEF ExactlyOnce
    <2>1. launch \in Launches /\ launch.grid \in Nat /\ launch.gang \in Nat
          /\ launch.gang > 0
      BY LaunchType DEF IInv, TypeOK
    <2>2. t \in Slots(launch) /\ t < launch.grid
      BY <2>1 DEF Slots
    <2>3. PICK i \in Iterations(launch) : t \in i..(i + launch.gang - 1)
      BY <2>1, IterationsCover
    <2>4. t \in ThreadsOf(launch, i)
      BY <2>1, <2>2, <2>3, EveryIterationRuns DEF ThreadsOf
    <2>5. Done(i)
      BY <2>1, IterationsNat DEF Completed, Done
    <2> QED
      BY <2>2, <2>4, <2>5 DEF IInv, RunsInv
  <1> QED
    BY Inductive, <1>1, PTL

\* psim_is_head_gang() and psim_is_tail_gang() are constants of the variant a
\* gang runs; they are right for it.
THEOREM FlagsOfTheGang == Spec => []HeadTailRight
  <1>1. IInv => HeadTailRight
    <2> SUFFICES ASSUME IInv, NEW t \in Slots(launch),
                        NEW i \in Iterations(launch),
                        runs[t] > 0, t \in i..(i + launch.gang - 1)
                 PROVE  /\ launch.head => (ranAs[t].head <=> i = 0)
                        /\ launch.tail =>
                              (ranAs[t].tail <=> i + launch.gang >= launch.grid)
      BY DEF HeadTailRight
    <2>1. launch \in Launches
      BY DEF IInv, TypeOK
    <2>2. PICK j \in Iterations(launch) : Done(j) /\ t \in ThreadsOf(launch, j)
      BY DEF IInv, RunsInv
    <2>3. t \in j..(j + launch.gang - 1) /\ Choose(launch, j).run
      BY <2>2 DEF ThreadsOf
    <2>4. j = i
      BY <2>1, <2>3, IterationsDisjoint
    <2>5. ranAs[t] = Choose(launch, i)
      BY <2>2, <2>4 DEF IInv, RunsInv
    <2> QED
      BY <2>1, <2>3, <2>4, <2>5, FlagsRight
  <1> QED
    BY Inductive, <1>1, PTL
=============================================================================
