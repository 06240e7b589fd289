# Parsimony: models, checks and proofs

Parsimony is an SPMD compiler: a region of C++ annotated with `#psim` is written
as the code of one thread and executed by *gangs*, groups of threads that the
compiler turns into vector code. `src/compiler/parsimony.py` rewrites the
annotations into loops of OpenMP regions, Clang compiles them to LLVM IR, and
`psv` (`src/compiler/src/`) replaces every region by a vectorized function: one
program counter for the whole gang, masks for the lanes that take part, and
*shapes* that say which values are the same, or strided, across the lanes.

This directory holds TLA+ models of the parts of the compiler whose correctness
is hard to test, TLC configurations that check them on small instances, and
proofs (TLAPS) of what matters most for every instance.

## 1. The system

| part | source | state | operations |
|---|---|---|---|
| front-end driver | `parsimony.py` 398-516 | files in the working and temporary directory | seven steps per input, link |
| gang launch | `parsimony.py` 68-227, 250-392 | the generated loop: `__psim_i`, the OpenMP team | choose a template, run an iteration per gang |
| module entry | `compiler/src/module.cpp` | the list of grids and their metadata | `setGrid*`, `findPsimCalls`, `insertPsimGrids`, `vectorizeFunctions` |
| function pipeline | `function.cpp`, `vectorize.cpp` | `VectorizedFunctionInfo` | analyses, then the five steps below, in this order |
| block masks | `mask.cpp` | `bb_masks`, `loop_header_active_mask_phis`, the branches | `calculateBBMasks` (recursive), `finalizeMaskPHIs` |
| live-outs | `live_out.cpp` | `_livein` PHIs, `_liveout` selects | `calculate` |
| instruction order | `inst_order.cpp` | `pending_defs`, `uses`, `instruction_order` | `calculate` |
| shapes | `shapes.cpp`, `shape*.cpp`, `shape.h` | shape per value, mapped shape per memory access, work list | `calculateShape`, `calculate` |
| value cache | `value_cache.cpp` | scalar and vector value per value, obsolete instructions | `set*`, `get*`, `deleteObsoletedInsts` |
| transformation | `transform.cpp`, `broadcast.cpp` | the instructions themselves | one `transform*` per kind of instruction |
| resolution | `resolver.cpp`, `vfabi.cpp` | vector variants per function | `getBestVFABIMatch` |
| diagnostics | `diagnostics.cpp`, `prints.cpp`, `rename_values.cpp`, `utils.cpp` | none that others use | reporting |
| applications | `src/apps`, `src/scripts`, `src/results` | - | vendored benchmarks, not part of the compiler |

The parts interact by calls in one thread and through the function being
rewritten: MasksStep changes branch conditions that later steps read,
LiveOutPHIsStep and InstructionOrderStep read the masks, ShapesStep and
TransformStep follow the instruction order, and all of them share
`VectorizedFunctionInfo`. Concurrency is in what they produce, not in how they
run: lanes of a gang that diverge and meet again under one program counter, and
gangs that OpenMP workers execute in any order. The one exception is the driver,
of which `make -j` runs several in one directory.

What is hard here, and what the properties are about:

* masks: a lane must execute exactly the blocks its own path visits, through
  nested ifs and through loops that lanes leave at different times;
* order: recursion into blocks that are still being visited, hash-set order,
  conditions overwritten while others still need them, polarity swaps;
* stale registers: the lanes outside a mask compute garbage that must not get
  into another lane's control flow or a value used later;
* boundaries: partial and single gangs, head and tail flags, packed registers that
  span several gangs, negative and misaligned offsets, indices out of range;
* memory: elements that lanes share or skip, masks of inactive lanes, a reduction
  whose load and store other threads may come between;
* tentative answers: a PHI has a shape before its operands have one, and
  everything derived from it must be corrected when it turns out wrong;
* matching things up: the settings of a grid are loose calls in front of a fork,
  maps keyed by pointers are iterated in any order, vector variants promise more
  of their parameters than a caller may know;
* files: every step trusts the file that the step before it left;
* termination: a work list that stalls, a gang that never leaves its loop.

The list with lines is under "hazards" in `PROJECT.json`.

## 2. Modules

### InstOrder, MCInstOrder, InstOrderProofs (`inst_order.cpp`)

`Analyze` is one iteration of the loops over the instructions (lines 59-134),
`Place(i)` one iteration of the work list (136-155) for *any* ready instruction
(the set is unordered), `Finish` the end of the loop with the cycle check.
The dominator tree, the block masks and the select masks are constants.

`MCInstOrder` has one function with an if in a loop; the operands of six of its
instructions range over the values in scope. It also contains the loop that
swaps two variables, whose PHIs really wait for each other.

### Cfg, MaskRules, StructuredCfgs, Masks, MCMasks, MasksProofs (`mask.cpp`)

`Cfg` gives graphs and the LLVM analyses the compiler asks for (dominators,
natural loops, exiting blocks), defined from the graph. `Masks` is MasksStep with
an explicit call stack: `NextBlock` calls `calculateBBMasks` for a block,
`Recurse` for a predecessor of the handler that runs, and `BBMask*` are the
handlers once their calls have returned. The blocks behind the entry come in any order,
although the function order is fixed, because nothing in the step relies on it.
`condition` and `swaps` record what happened to the branches.

`MaskRules` states which mask governs which block without any of that: a 'then'
block governs what it dominates, a loop header governs its loop, the innermost
one wins. `MasksCorrect` is the claim that the pass computes just that.

What the pass relies on is `MasksAssumption`: the graphs are structured (`Regions`, below),
only backedges close cycles, dominance is transitive and gathers over all ways to a
block, two ways meet only behind an if, and a loop has one tail. TLC evaluates it
for the nine graphs; the theorems need no more of a graph.

`StructuredCfgs` has nine graphs in the form StructurizeCFG leaves: ifs, if-else
chains, self loops, a loop in an if, an if in a loop, nested and consecutive loops.

### SpmdLanes, Regions, GangExec, GangProofs (what the masks do at run time)

`SpmdLanes` is the promise of the programming model: lanes that each run the
scalar function. `GangExec` executes the function as `psv` leaves it: the
gang's `block`, the value of every `mask`, a branch taken when any lane wants it
(`transformBranch`). `at[l]` is where lane `l` is on its own path; it moves only
when the gang executes that block with `l` in the mask. `ImplementsLanes`
is the refinement, `LanesSafely` its safety part; the mapping is `at` itself.

The repeat mask is the inverted exit condition of all lanes (`mask.cpp:244`), not
combined with the active mask. A lane outside the loop computes the condition from stale
registers, and when it is false the lane is in the mask of the next iteration: the
violation run `gang_entrants` shows it, as would `for (i = 0; i != n[lane]; i++)`, where `i`
of a lane that has left goes on. Such a lane leaves its own path; `strays` has these
lanes, and their `at[l]` stays where it was. The safety properties are about all others,
whatever the strays do, and hold for any exit conditions; `AllLanesFinish` and the fairness of the refinement leave
them out, as a stray may never come back to its path. A function that is `sticky` keeps its exit conditions true for lanes
outside the loop, as `i < n` does; no lane strays then, and the properties are about all lanes.

`Regions` says in which form `preprocessFunction` (`module.cpp` 436-445) hands a function on, as
far as masks rely on it: the blocks that a mask governs are entered at one block and left to
one block, regions are nested, an if leads into a 'then' block or behind its region, a
loop is left and repeated at its tail; `HasOneTail` is what LoopSimplify and UnifyLoopExits
add. TLC evaluates it for the nine graphs (`GangAssumption`, `MasksAssumption`).

### GangValues, MCGangValues, GangProofs (`live_out.cpp`, PHIs of `transform.cpp`)

Extends GangExec by the registers of one value: `reg`, in which inactive lanes
become garbage whenever the definition is executed, `liveIn` and `liveOut` as
LiveOutPHIsStep creates them for a value used behind its loop, and `own`, what
each lane computed itself; what is computed is the number of the iteration, so that a value of
another iteration shows. PHIs are followed as
"which edge does the value come from": `PHISource` is the edge after the select
of `transformPHIFirstPass`, `laneFrom` the lane's own. `MCGangValues` checks both
modules together, with definitions and uses in the nine graphs with sticky exits, and in three of them with any. `IsFlow` is
what makes a pair of blocks a definition and a use: the one dominates the other, in the
same region or behind the one loop whose tail it dominates.

### GangLanes, PackedMem, MCPackedMem, MCShapesAccesses, VectorCodeProofs (`shapes.cpp` 1155-1209, `transform.cpp` 77-262)

`GangLanes` has the lanes of a gang as all the modules below number them. `PackedMem` is one load or store. `MapMemInst` picks uniform, packed, packed-with-permutation or
gather/scatter from the byte offsets of the lanes, with the unsigned, signed and
rounded comparisons of the code; `RebaseMemPackedIndices`, `MaskRound` and
`MaskDone` are the rearrangement (each round ORs one shuffle into the mask, in
which elements that no lane is routed to are undefined: any of them may come out
set); `Access` is the instruction that results. The specification is one access
per active lane at its own address. The accesses it is about are those of `InstsAreRegular`:
lane 0's offset is 0 (`BaseIsLane0s`), and lanes store to one element together only
as a full gang (`StoresApart`). `MCShapesAccesses` puts accesses and Shapes (below) into one model: `part` says whether
a behaviour is about a function and its shapes or about one access.

### Collectives, MCCollectives, MCGangApi, VectorCodeProofs (`transform.cpp` 543-749)

Shuffle, zip and unzip, each as the sequence of vector instructions it becomes.
Bytes are symbols (operand, lane, position), so that truncation, extension and
bitcast are what they do on a little-endian machine and any misplaced
byte shows. A state is the list of calls made so far; the second call works on the result
of the first. `IndexWrap` is 2^32. `UnzipMostSignificantFirst` is what `src/compiler/README.md:140` says of the order of the
pieces, and the code does not keep: the violation run `unzip_order`. `MCGangApi` is a gang that exchanges data, or gangs that
add to a variable (Reductions, next), as `part` says.

### AtomicSum, Reductions, MCReductions, MCGangApi, VectorCodeProofs (`transform.cpp` 787-893, `parsim.h` 55-73)

`AtomicSum` adds contributions one at a time. `Reductions` is
`psim_atomic_add_local` and `AddAbsDiff` as expanded: load, masked reduction
(for the distances in chunks of 64 bytes with one accumulator per eight),
store. The refinement mapping reads the reduced accumulators as the total and the
calls that have stored as done.

### GangLaunch, MCGangLaunch, GangLaunchProofs (`parsimony.py`)

The eight templates as functions from the iteration to the variant of the body,
the choice between them, and `Take`/`Execute` for the workers of the OpenMP
team; without `parallel` the master takes the iterations in order. Addition is
modulo `Wrap` (2^64).

### ShapeRules, Shapes, MCShapes, MCShapesAccesses, VectorCodeProofs (`shape.h`, `shape_calc.cpp`, `shapes.cpp`)

`ShapeRules` has the shapes and one operator per transfer rule: a shape is
varying, unknown or *indexed*, a base common to all lanes plus a constant per
lane, in words of a width. The bases are z3 expressions in the code; here a base is
the set of words it may be equal to, and a rule's assumption is proved if it holds for
all of them. `Known` is `transformKnownBases`, `TryTransform` the rules with
assumptions about bases that are not known. `NoShape` is an assertion, or an
exception of z3. The bit operations are defined bit by bit (`AndOf`), for words of up to `MaxWidth` bits.

`Shapes` is `ShapesStep::calculate`: `Visit` takes the instructions in any order
InstOrder could have chosen, `Revisit` takes any element of the work list, and `Calculate`
is the recalculation with the requeuing of users that both share. `PHIShapeUnder` is the shape
of a PHI when its select mask has a given shape, or none yet. Behind it, `Bind`,
`Enter`, `Iterate` and `Leave` execute the function lane by lane from inputs of
the promised shapes; thread numbers are multiples of the gang size plus the lane, small enough for the sign
bit to stay clear, as the shape of the call promises. `ShapesHold` compares the two, `Settled` says that no correction has been
lost. `MCShapes` has some 7,000 expressions of two operators, ifs in both polarities, and
loops with an if whose PHIs feed themselves.

### Transform, MCTransform, TransformProofs (`transform.cpp` 47-60, 177-279, 1072-1271, 1571-1601; `value_cache.cpp`)

What TransformStep does to the graph of instructions and operands. Each kind of
instruction is vectorized in place (`InPlace`, `RetypePHI`, `Branch`), put behind
a select (`SelectPHI`) or replaced (`Replace`); the new instructions for `i` are
`New(i)`, a broadcast of `v` is `Splat(v)`. `vec` and `scal` are the two values of a cache entry,
`mutated` the instructions that have a vector type, `args` the operands of all
instructions at this moment. `Visit` takes the instructions in any order that has operands and masks
first, `PatchPHI` is the second pass over loop PHIs, `DeleteObsolete` takes
the entries in any order (the map is keyed by pointers) and deletes the users of an
instruction with it, which fails for an instruction without an entry and stalls for users in a cycle.
The properties compare what is left with the original operands. A value is varying, indexed,
or uniform: a branch asks all lanes about a condition that is varying or indexed
(`psim_get_lane_num() < 2`), and takes a uniform one as it is. `Read` is what a replacement reads: the argument of a
variant is a vector if it is varying in the call or in the variant (`promise`), a sum over all lanes
reads vectors but for the address, which it takes raw. `psim_get_omp_thread_num()` stays in place, as the simple
instructions do. `MCTransform` is
a loop with an if whose operands range over the values in scope, with the
instruction in the 'then' block in place, replaced lane by lane, or a call of a variant, and a store or a
sum behind the if.

### Resolver, ModuleEntry, MCModuleEntry, ModuleEntryProofs (`module.cpp`, `resolver.cpp`, `transform.cpp` 1072-1105)

`ModuleEntry` starts from the calls the front end left. `SetGrid*`, `Fork`,
`OtherCall` and `EndBlock` are `findPsimCalls`, one call per step, with all its
ways to give up; `InsertGrid`, `Initialize`, `Register` and `Vectorize` take the elements of
their pointer-keyed maps in any order. `Resolver` is the matching of variants:
a variant or a call is its `isa`, `mask`, `vlen` and what it promises of its
parameters. The properties are stated from the program text alone (`Region`,
`Given`, `WellFormed`), not from the tables of the pass. `PromisesHold` says that the arguments
of calls keep what the variants promise of them (`Suits`), for which nobody but the programmer answers.

### Pipeline, MCPipeline, PipelineProofs (`parsimony.py` 27-43, 398-516)

`files` maps a file, a directory with a base name and a suffix, to its kind and the versions of the sources it was made
from. Each step of `run_compiler_steps` is an action; a program that fails
leaves its output missing, as it was, or broken (`Spoils`), and `run` then ends the
invocation. Invocations interleave, sources are edited (`Edit`), and finished
invocations are made again (`Again`) on what the previous attempt left.

## 3. Runs

| run | shows | instance |
|---|---|---|
| `inst_order` | definitions before uses, nothing lost or repeated, a reported cycle is real, the step ends | 10 instructions, 252 operand relations, every pick |
| `masks` | no null placeholder is read; masks, mask instructions, branch conditions and polarity are right | 9 graphs, every block order |
| `gang_values` | lockstep, no empty pass, every lane finishes, refinement of SpmdLanes; PHIs and live-outs give each lane its own value, whatever stale conditions draw other lanes into loops | 3 lanes, every called subset; 9 graphs and 12 definition-use pairs with sticky exits and 3 loop repetitions, 3 pairs with any exit conditions and 2 repetitions |
| `gang_entrants` | *violation*: a lane that is not in a loop is in the mask of its next iteration | as `gang_values` |
| `gang_launch` | every SPMD thread once, flags right | all templates, grids 0..10, gangs 2..4, 2 workers |
| `shapes` | values have the shapes the pass computed, no correction is lost, the work list empties; every lane loads and stores its own element, no other memory is touched | 3 lanes; 4-bit words, two-operator expressions, ifs, loops; or one access: element sizes 1, 2, 4, offsets -1..12 elements and a misaligned one, every mask |
| `gang_api` | a shuffle gives each lane what it asks for, if it compiles (with two operands: in range and not widened); unzip takes the pieces of the set it names and undoes zip; a reduction is the sum over all active lanes, one contribution at a time (refinement of AtomicSum) | gangs of 2 and 4, widths 1, 2, 4, six index patterns, two calls in a row; or 2 gangs of 6 lanes, 2 passes, 4 masks, chunks of 4 and groups of 2 bytes, one thread |
| `unzip_order` | *violation*: the first lane of a set gets the least significant piece | the exchanges of `gang_api` |
| `reductions_parallel` | *violation*: with two OpenMP threads an update of `psim_atomic_add_local` is lost | the reductions of `gang_api` with two threads |
| `transform` | every operand is read as the value that stands for it and in the right form; the replaced instructions are deleted, with nothing else | a loop with an if, 540 functions, every order |
| `module_entry` | launches get their own settings, exactly the ill-formed modules are refused, resolution is independent of order, a resolved call does what scalar calls do | sequences of up to five of seven calls, pairs of regions, calls to functions with up to two variants |
| `pipeline` | success means that the result comes from the own sources, and that the temporary files are those of this attempt | two invocations, six command lines, one edit per source, one retry |

Bounds. Three lanes are enough for one lane to be in a loop, one to have left
it and one never to have entered it, which is all a mask distinguishes. `MaxTrips` bounds the repetitions of
all loops of one run together (in the guard `Conditions`): three let an inner
loop repeat in two iterations of the outer one. With strays two are enough for a lane to
leave a loop, be drawn in again while another one stays, and go on with it; the three functions have lanes that have left,
that have not entered, and that wait for an outer loop. The graphs have at most seven
blocks and two levels of nesting; a third level repeats the situation
of the second. Grids up to 10 with gangs of 2 to 4 contain empty
grids, grids below one gang, of one gang, full and partial last gangs behind
one or more full ones. Two workers give every interleaving of two gangs;
gangs touch disjoint threads, so that a third adds no new pair. Packed accesses
span at most four registers: with three lanes, element 11 is the last inside
and 12 the first outside; 2^64 and 2^32 are 256 and 64, beyond every offset
and index in use but small enough for the negative ones to be told apart.
Six lanes in chunks of four leave half a chunk, as a gang of 96 lanes does with
64. `MaxCalls` is two because a call depends on the previous one only through
its result.

Words of four bits have all the boundaries of wide ones: both overflows, a sign
bit, a wider and a narrower type; the samples 0, 4, 7, 8 and 15 are those
boundaries. Two operators in a row suffice because the second one sees only the shape
of the first, and every kind of shape is among the inputs. Five calls are a complete region, or
two short ones that disturb each other; pairs of complete regions are there besides.
Gangs of four and of two, and two variants per function, give a variant of
another length, another mask and another promise next to a fitting one.
The function of `transform` has a value of each form (uniform, strided, varying) computed
in each way (in place, replaced, through a select, over the backedge), and operands that range over them.
Invocations meet in pairs, through a shared name; one retry shows whatever an
attempt leaves to the next one, and one edit tells a file of this attempt from an old one.
`MaxRetries` and `MaxEdits` are guards of `Again` and `Edit`.

Fairness. `inst_order` and `gang_values` are sequential code: weak fairness of
`Next` says that it keeps running. In `gang_values` a loop ends because lanes eventually want to leave
(`MaxTrips`); a program whose lanes never leave its loop does not end in
either semantics. A lane that strays may never come back to its path, and is exempt.
`shapes` has weak fairness of the revisits: the loop over the work list
keeps running, whatever element it takes. The other runs state
no fairness. The configurations of `module_entry` and `pipeline` switch the deadlock check off because a compiler that
has finished or given up takes no more steps; `Ended` of Transform stutters there.

Where the project disagrees with a comment, an assertion or a document of the
repository, the disagreement is a *violation* run and an entry under "findings", or a restriction named under Limits.

## 4. Proofs

The proofs hold for every value of the constants; the assumptions are

* `InstAssumption`: the sets and functions a function consists of; each
  instruction is visited once;
* `LaunchAssumption`: the grid and the gang fit into 64 bits together (beyond that `__psim_i += gang size`,
  `parsimony.py:219`, would wrap around and the loop not end, but no memory holds such a grid); a grid given in
  gangs is a multiple of the gang size, as `grid_size = "((gangs) * (gang_size))"` makes it;
* `GangAssumption`: a gang has lanes, and functions are structured (`IsStructured`), which
  is what LLVM's StructurizeCFG is run for. Nothing is assumed of conditions: the theorems hold for
  functions that are `sticky` or not, and speak of the lanes that are not in `strays`;
* `ValuesAssumption`: two ways meet only where an if ends, regions are not left to loop
  headers, dominance is an order, and every pair of a definition and a use is one (`IsFlow`);
* `MasksAssumption`: of the graphs, what section 2 says, and that the null mask is no mask;
* `PackedMemAssumption`: element sizes and widths are powers of two as far as the comparisons
  rely on it, offsets fit into 64 bits, a gang is far smaller than 2^32, and some lane is
  active. The theorems of VectorCodeProofs about accesses have `InstsAreRegular` as a hypothesis: of the
  accesses that it leaves out they are false (section 5);
* `LanesAssumption`: a gang has lanes;
* `CollectivesAssumption`: gangs and types are not empty, twice the gang size is below 2^32,
  and the indices of a shuffle are ints;
* `ReductionsAssumption`: finitely many gangs, groups that divide a chunk evenly, and an idle worker
  has no gang. The theorems about reductions have `OneThread` as a hypothesis: with two workers they are false,
  which is the run `reductions_parallel`;
* `ShapeRulesAssumption` and `ShapesAssumption`: words have bits, poison is no word, and a program is what LLVM
  accepts as far as operands go (`IsProgram`): it has an entry block, and each instruction its number of operands, which are
  arguments, constants or instructions. `ShapesHoldInStraightLine` has `StraightLine(program)` as a hypothesis: one block
  (operand and result widths agree, lane numbers fit into their type), any number of instructions in any instruction order, of
  every kind but PHIs and loads from constant tables, with arguments that are varying, unknown, or any words of one width
  plus an index per lane that is 0 in the first one. All one-block functions of `MCShapes` without a table are such functions.
  `OperandUpdatesArrive` has no hypothesis: it is about functions with ifs and loops;
* `TransformAssumption`: names are unique; what ShapesStep says of the operands (`ShapesFit`: what is
  computed from a varying value is varying, only a scattered access has a varying
  address); and what the code reads without asking the cache (`ReadRawFits`): a uniform branch condition is not replaced, because
  replaced instructions with uniform results return gang numbers, sizes, saturated sums or table entries, no `i1` (calls
  lane by lane, of variants and of the collectives are varying, `shapes.cpp` 388-457), and the address of a
  sum is a scalar computed in place, because the variable is declared outside the region (`src/compiler/README.md:152`);
* `ModuleAssumption`: calls have the arguments of their kind, and forked and
  called functions are in the module. `CallsRight` has `[]PromisesHold` as a hypothesis, for the
  same reason;
* `PipelineAssumption`: results are not asked for in the place of inputs or of
  temporary files, a file is of one kind, and the temporary directory is not the
  working directory (with `--Xtmp .` the rename has nothing to move).

The arguments:

* InstOrder: the invariant relates the four tables. While analyzing, exactly the
  instructions before the cursor have their dependencies in `pending_defs` and
  `uses`; while placing, `pending_defs[i]` is `Deps(i)` without what has been placed,
  and `ready` is what has nothing pending and has not been placed. None
  of the properties is inductive without it: "definitions before uses" needs that an empty
  `pending_defs[i]` means that all of `Deps(i)` is in the order.
* GangLaunch: the invariant says that a worker's iteration is in nobody else's
  hands and that `runs` counts exactly the iterations that are done. The
  arithmetic is in lemmas: multiples of the gang size are a gang apart
  (`Apart`), so that iterations touch disjoint threads and together cover the
  grid (`IterationsDisjoint`, `IterationsCover`); which variant each template can
  choose (`ThreadsVariant`, `GangsVariant`).
* GangExec: of the regions around the gang's block, each mask holds, but for strays, exactly the lanes that are in its
  region (`MasksHold`), and a lane that is neither at the block nor at the end
  waits where one of these regions is left to (`LanesWait`). `Lockstep` alone is not
  inductive: behind a loop the outer mask takes over, and that it still names the right lanes depends on where those
  that left the loop earlier have been waiting. A stray never becomes loyal again (`Loyal`), so that it is enough to see that
  a tail adds to the mask only lanes that are strays from then on. Steps are of two kinds, all lanes go to one block
  (`AllGo`), or some enter a region while the others wait behind it
  (`Enter`); the lock step of the innermost mask (`LocksStep`) follows from the
  two parts of the invariant. The refinement of SpmdLanes by steps follows; its fairness does not.
* GangValues: on top of that invariant, that lanes behind an if came over the edge that the
  select takes for them (`JoinersSkipped`), that the register holds a lane's own value as long as the lane is in
  the region of the definition and behind it (`RegHolds`: no pass with the lane inactive can
  execute the definition before it is there again), and that the live-in keeps it for the lanes that wait behind
  the loop (`LiveInHolds`), the live-out behind it (`LiveOutHolds`). The last two take turns: each iteration
  moves what the select of the tail kept into the PHI of the header.
* Masks: the invariant says of the stack that each call waits for the next one, over edges that are
  no backedges, and that what a finished block has called is finished (`CallsInv`). As only
  backedges close cycles, no call can come back to a block that is still being visited
  (`NoCallReturns`), which is why the null mask is never read: it is stored for a recursion that does not happen.
  Finished blocks have the masks of the graph (`MaskInv`): at a join the dominating predecessor
  is governed by the same regions (`FromDominator`), behind a tail by those of the header's
  entry (`FromTail`), and the tail's header has been visited before it (`TailFinished`). Branches have been changed
  by finished 'then' blocks and closed loops only (`BranchInv`), each once.
* PackedMem: the indices are the element numbers less the smallest (`IndicesHold`), and after each round
  the mask has the elements of the active lanes routed so far, and no others as long as the
  lanes that share an element agree (`MaskHolds`). That the decision of `MapMemInst` is right is arithmetic: what
  the unsigned and the signed comparisons say of offsets that wrap around (`ShuffledElements`), and that
  the registers reach the largest element (`FactorCovers`).
* Collectives: every call recorded so far has the result it should have (`CallRight`), and the next one works on the last of them
  (`CallsInv`). An instruction at a time, what a vector has in a lane is followed by quotient and remainder:
  positions of a zip are lane times the number of operands plus operand, those of an unzip the same divided by
  the factor, those of a widening shuffle bytes of elements.
* Reductions: with one thread the invariant says that what a call has loaded is what the location holds
  (`ReadsAreFresh`), that the calls that have stored are those the worker has left behind (`StoredAre`), and that the location holds the
  sum of their contributions (`MemoryIs`). Sums over finite sets are a constant, one element more or less, and pointwise
  addition, which turns the lanes, chunks and groups of the expanded code into one sum over the active lanes.
* Shapes: a rule is right if each lane's result is the result on the bases plus the proposed
  index, modulo 2^n (`RuleIsRight`). That is arithmetic modulo 2^n for sums, products and
  shifts, carries and remainders for divisions, and one bit at a time for `and` and `or`, where a word is twice its half
  plus a bit. The transfer functions (`BinaryShapeIs`, `CmpShapeIs`, `SelectShapeIs`, `ConvertShapeIs`) follow, for
  operands without an index in the first lane (`GoodShape`): the base then is what the first lane computes,
  which is what folding the bases relies on. In straight-line code an instruction is visited behind its operands and before its
  users, so that the work list stays empty and every shape is the one its operands have (`StraightShapes`);
  the lanes agree with the shapes before the execution and after each instruction of it (`StraightValues`).
* The work list, for all functions: an instruction that has a shape and is not in the list is up to date with the shapes
  its operands have now (`QueueInv`). A visit changes one shape, and what reads it is brought to the list or is varying;
  what does not read it is as up to date as before (`StillUpToDate`), but for the PHIs whose
  select mask it is, for which `FollowsOperands` says *some* shape of the mask. That is what the
  code guarantees, and where section 5 begins: nothing brings a PHI back for its mask. An instruction that is its own
  operand is left out: when it is first visited it has no shape yet, and does not get on the list (section 5).
* Transform: what stands for a value depends on its kind and its shape only (`Home`, `VectorOf`), so that the
  invariant can say exactly what `vec`, `scal`, `args` and `mutated` hold for the instructions visited so far,
  in whatever order that was (`CacheInv`, `ArgsInv`, `SplatsInv`). All visits of the first pass
  change them in one way (`Visits`), for which this is shown once. The original operands of a
  replaced instruction have only replaced users (`ReplacedUseReplaced`), so that deleting reaches nothing
  else, and no cycle: each of them has been visited behind its operands (`OrderInv`). Neither property is inductive:
  both speak of the end, and a stall depends on edges the first pass has drawn.
* ModuleEntry: the invariant says, of every call of every block up to the cursor,
  what `metadata` holds (the settings since the last fork, if they are well-formed)
  and which grids exist; then that `launches` and `entry_points` follow from `grids`, and
  `vfinfo_map` and `resolver_map` from the entry points and the variants of the program.
  `LaunchesAreOwn` is about the end only; it needs the whole chain, because a
  launch depends on its grid, which depends on the calls the cursor passed long before.
  `CallsAreLaneWise` follows from what the invariant says of a recorded call (`CallsInv`): where it comes from, so that
  its candidates have its gang size and mask (`CandidatesFit`).
* Pipeline: the invariant says that, in front of each step of a running invocation with private names,
  the files of the steps before it are there and were made from the version the
  invocation has read (`Partial`), and that the inputs it is through with have all of
  them (`Complete`). A step extends one chain and leaves the
  others alone because their names differ (`FilesApart`, `OthersApart`); an edit changes no file of a chain.
  `OwnResult` itself says nothing of a running invocation and is not inductive.

Model-checked only: liveness and ENABLED, which are outside what TLAPS can do (`AllLanesFinish`,
the `Terminates` of InstOrder and Shapes, and the fairness in the refinements); that the nine graphs are
structured, which TLC evaluates in the assumptions; `ShapesHold` of functions with ifs and loops, and of `Settled`
what goes beyond `OperandUpdatesArrive`, the masks of PHIs. The
last two are not proved because they are not true of all functions: a PHI is not visited again when its mask gets its shape, and an
inverted one takes the wrong base (section 5), and the loops of the run are those in which the first does
not matter.

## 5. Limits

Inputs on which the code does not do what one expects. Stale exit conditions and the order of unzipped
pieces have violation runs (section 3) and findings; `UnzipTakesItsSet` is about the set of pieces. The following ones the instances
leave out; each is a statement about the code that the model of it shows
when the restriction is lifted:

* **stores that share an element while some lanes are inactive**
  (`transform.cpp:155-173`, `229-233`): the value is that of the last lane that names
  the element, active or not, and an element shared by some lanes makes the mask
  of the others undefined in the later rounds. `StoresApart` lets stores share
  elements only in full gangs; loads that share elements are exempt
  from `NoStrayAccess` for the same reason;
* **offsets from a constant table** (`shapes.cpp:794-816`, `transform.cpp:87-90`):
  the shape of a load from a table has base 0 and the table's values as indices,
  the scalar value is 0, so that a uniform or packed access through equal or consecutive
  values loses the first entry. `BaseIsLane0s` says that lane 0's offset is 0, as it is for
  everything derived from lane numbers;
* **two-operand shuffles** (`transform.cpp:664`, `717`): for an index out of range
  lane `i` gets element `i` of `b` instead of the 0 of `src/compiler/README.md:128`, and a shuffle that widens to
  an unsigned type reads zeroes in the place of `b`. `TwoOperandShuffle` is about indices in range and results that are not wider;
* **widening shuffles** (`transform.cpp:703`): -2, or twice the gang size, goes
  into the shuffle mask as it is, which LLVM refuses; `src/compiler/README.md:122` allows it. `OneOperandShuffle`
  is about calls that compile;
* **uniform tables** (`shapes.cpp:724-760`, `812`): the same base 0 with indices of equal, non-zero words is
  uniform, and a comparison with another uniform value looks at the bases alone. `MCShapes` has a table of different words;
* **loops that swap two variables** (`inst_order.cpp:157-167`): `p = phi(e, q)` and `q = phi(e, p)` in one
  header wait for each other, and the step ends in its `assert(false)`. `CycleIsReal` covers the report;
* **a value that leaves two loops at once** (`live_out.cpp:51-55`, `90`): the live-in of the inner loop starts as
  poison in each iteration of the outer one, so that a lane that left the inner loop
  earlier loses its value. `MCGangValues` has definitions and uses that are one loop apart;
* **the tail-only template** (`parsimony.py:175-191`) runs only full gangs in front of
  the last one if that one is partial: `DropsLastGang`, exempt from `ExactlyOnce`;
* **strided values stored to a uniform address** (`shapes.cpp:1184`) are stored as
  lane 0's. `StoresApart` asks for uniform values there;
* **inverted PHIs with a constant mask** (`shapes.cpp:927`): with an operand that is not
  constant, the shape takes the base of the operand that is not chosen, as in
  `x = 5; if (psim_get_gang_size() == 16) x = n;`. `Ifs` leaves these out;
* **masks that get their shape after the PHI** (`shapes.cpp:849`): only users of a value are
  visited again when its shape changes, and a PHI is no user of its select mask, so that it stays uniform although
  lines 828-830 say that it is recalculated. With `DelayedLoops` as `Programs`, a flag set in the previous iteration,
  TLC finds `ShapesHold` violated. In the loops of the passing run every header PHI depends on itself through its latch operand;
  for a PHI wider than one bit the tentative shape has the width of the mask,
  which z3 can refuse later;
* **calls of variants** (`transform.cpp:1158`): nothing marks the scalar call for deletion. It goes
  if its argument is replaced, as in `tests/funcall.cpp`, stays and is executed besides the variant if the argument
  is uniform or strided, and makes the verification fail if the argument has been vectorized in place.
  `DeletesTheObsolete` exempts these calls;
* **strides of variants** (`resolver.cpp:50-58`): a variant that promises one stride is taken for
  an argument of another. `MatchingStrides` leaves such calls out of the instance, `PromisesHold` is
  the hypothesis of the theorem; without it `CallsAreLaneWise` fails. An argument with irregular indices counts as uniform
  (`transform.cpp:1095-1097`);
* **settings that are missing**: a grid without a gang number passes a null operand on, although
  `module.cpp:246-247` speaks of an implicit 0; a gang size of 0 counts as
  not set; a body that two regions share keeps the gang size of the first
  (`module.cpp:362`), so that `LaunchesAreOwn` has `OneGangSize` as a condition;
* **PHIs that are their own operand** (`shapes.cpp:1145`, `1280`): `p = phi(lane, p)` is tentatively uniform, and stays so, because it has
  no shape yet when its users are put on the work list, and is erased from it after a later visit. LLVM folds
  such PHIs; the instances have none, and `OperandUpdatesArrive` leaves them out;
* **shared base names** (`parsimony.py:411`, `399-408`): the first temporary file is in the working directory
  even with `--Xtmp`, the others are named after the base name, and the default directory is
  always `tmp`. Invocations, or inputs of one invocation, that share a base name disturb each other:
  `parsimony a/x.cpp b/x.cpp` links `tmp/x.cpp.o` twice. `Private` is the
  condition of both properties of Pipeline.

Abstractions of Shapes: what the solver knows about two bases together, and the
facts it gets from `nsw` and `nuw`, are left out, so that a rule may fire more often
in the code than in the model; a bitcast is like `freeze`; GEPs have one level, and extend their indices
with zeroes as the code does; struct GEPs, conversions from floating point and the
array layout optimization are not modelled. The code keeps an iterator into
the work list while it inserts (`shapes.cpp:1278-1280`), which the standard does
not allow for a rehashing set; the model takes the behaviour of libstdc++. In Pipeline each program is one step: it reads its input
and leaves its output at once.

Not modelled: accesses whose elements are vectors already, stores of a varying value
to a uniform address (the transformation does not produce well-formed code for it),
shuffles of floating-point values to another width; in the module entry the parsing of mangled names,
alignments, parameter-count errors, function pointers, metadata arguments and the LLVM
passes that run first; the blocks that a call without a variant expands to (one new instruction in Transform), allocas,
`extractelement` and `insertelement`, the cache entries of what returns nothing (the old instruction or null, without users),
the shapes of constants,
and the parts that "components" in `PROJECT.json` lists so. The text processing of the front end, reporting,
naming and the interface header have no state whose correctness a model would
show. The applications are third-party code (Simd, ispc): with about 300,000
lines they are most of the repository, while the compiler has about 7,600.

## 6. Plan

All modules of section 2 are modelled and checked, and all safety properties of their passing runs are proved but for
those of Shapes: `ShapesHold` is proved for straight-line code, `Settled` for all functions but for the masks of PHIs. Open:

1. `ShapesHold` for ifs, which needs an order of visits in which masks come before
   PHIs, and for loops, which needs a reason for the tentative shapes to be corrected.
2. `vectorizeUniformCall` and `transformAlloca` (`transform.cpp` 281-414, 1283-1467): the blocks of a call
   lane by lane, and the layout of arrays.
