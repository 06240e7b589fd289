---------------------------- MODULE PipelineProofs ----------------------------
(***************************************************************************)
(* For any number of invocations, inputs, edits and retries, an invocation *)
(* that succeeds has made its result, and its temporary files, from its    *)
(* own sources as it read them.                                            *)
(*                                                                         *)
(* The invariant follows the chain of files of every input of a running    *)
(* invocation: what the steps so far have made is there and is of this     *)
(* attempt.  A step of the invocation extends the chain of one input and   *)
(* leaves the others alone (FilesApart); a step of another invocation      *)
(* writes files of its own (OthersApart); an edit changes sources.         *)
(***************************************************************************)
EXTENDS Pipeline, TLAPS

Steps == {"pp0", "pp1", "rename", "pp2", "pre_vec", "post_vec", "o", "return"}

\* The steps in front of which the file of kind k has been made.
LaterThan(k) ==
    CASE k = "pp1" -> {"rename", "pp2", "pre_vec", "post_vec", "o", "return"}
      [] k = "pp0" -> {"pp2", "pre_vec", "post_vec", "o", "return"}
      [] k = "pp2" -> {"pre_vec", "post_vec", "o", "return"}
      [] k = "pre_vec" -> {"post_vec", "o", "return"}
      [] k = "post_vec" -> {"o", "return"}
      [] k = "o" -> {"return"}

AllKinds == Kinds \cup {"o"}
Place(job, in, k) == IF k = "o" THEN FinalName(job, in) ELSE Temporary(job, in, k)
FilesOf(job, in) == {Pp0(in)} \cup {Place(job, in, k) : k \in AllKinds}
Mine(job) == TemporariesOf(job) \cup Written(job)

Holds(f, k, from) == f \in DOMAIN files /\ files[f] = Content(k, from)

\* The files of input n of invocation i in front of step s.
Partial(i, n, s) ==
    LET in == jobs[i].inputs[n]
    IN  /\ s \in {"pp1", "rename"} => Holds(Pp0(in), "pp0", read[i][n])
        /\ s \in LaterThan("pp0") => ~Exists(Pp0(in))
        /\ \A k \in AllKinds :
              s \in LaterThan(k) => Holds(Place(jobs[i], in, k), k, read[i][n])

Complete(i, n) == Partial(i, n, "return")

TypeInv ==
    /\ jobs \in CommandLines
    /\ status \in [Invocations -> {"idle", "running", "ok", "failed"}]
    /\ input \in [Invocations -> Nat]
    /\ step \in [Invocations -> Steps]
    /\ DOMAIN read = Invocations
    /\ \A i \in Invocations : DOMAIN read[i] = DOMAIN jobs[i].inputs

\* Objects that are given are never written.
ObjectsThere ==
    \A i \in Invocations : \A n \in DOMAIN jobs[i].inputs :
        LET in == jobs[i].inputs[n]
        IN  in.kind = "object" => Holds(SourceFile(in), "object", <<SourceFile(in), 0>>)

RunningInv(i) ==
    /\ ~Rejected(i)
    /\ input[i] \in 1..(Len(jobs[i].inputs) + 1)
    /\ \A n \in DOMAIN jobs[i].inputs :
          n < input[i] =>
              /\ jobs[i].inputs[n].kind \in {"source", "object"}
              /\ n \in Sources(jobs[i]) => Complete(i, n)
    /\ input[i] \in Sources(jobs[i]) => Partial(i, input[i], step[i])

OkInv(i) ==
    /\ \A n \in Sources(jobs[i]) : Complete(i, n)
    /\ ~jobs[i].compile =>
          Holds(Binary(jobs[i]), "binary",
                [n \in DOMAIN jobs[i].inputs |-> Contribution(i, n)])

ChainInv(i) ==
    Private(i) =>
        /\ status[i] = "running" => RunningInv(i)
        /\ status[i] = "ok" => OkInv(i)

IInv == TypeInv /\ ObjectsThere /\ \A i \in Invocations : ChainInv(i)

-----------------------------------------------------------------------------
(* Files *)

\* A step that leaves g alone, unless it is a source.
Kept(g) ==
    /\ g \in DOMAIN files' <=> g \in DOMAIN files
    /\ g \in DOMAIN files /\ files[g].kind # "source" => files'[g] = files[g]

Only(F) == \A g : g \notin F => Kept(g)

LEMMA KeptHolds ==
    ASSUME NEW g, NEW k, NEW from, k # "source", Kept(g), Holds(g, k, from)
    PROVE  Holds(g, k, from)'
<1>1. files[g].kind = k
  BY DEF Holds, Content
<1> QED
  BY <1>1 DEF Holds, Kept, Content

LEMMA WithFacts ==
    ASSUME NEW f, NEW c, files' = With(f, c)
    PROVE  /\ DOMAIN files' = DOMAIN files \cup {f}
           /\ files'[f] = c
           /\ \A g : g \in DOMAIN files /\ g # f => files'[g] = files[g]
           /\ Only({f})
BY DEF With, Only, Kept

LEMMA SpoilsFacts ==
    ASSUME NEW f, Spoils(f)
    PROVE  Only({f})
<1>1. CASE files' = files
  BY <1>1 DEF Only, Kept
<1>2. CASE files' = With(f, Broken)
  BY <1>2, WithFacts
<1> QED
  BY <1>1, <1>2 DEF Spoils

LEMMA PartialKept ==
    ASSUME NEW i, NEW n, NEW s, Partial(i, n, s), jobs' = jobs,
           read'[i][n] = read[i][n],
           \A g \in FilesOf(jobs[i], jobs[i].inputs[n]) : Kept(g)
    PROVE  Partial(i, n, s)'
<1> DEFINE in == jobs[i].inputs[n]
<1>1. Kept(Pp0(in)) /\ \A k \in AllKinds : Kept(Place(jobs[i], in, k))
  BY DEF FilesOf
<1>2. \A k \in AllKinds : k # "source"
  BY DEF AllKinds, Kinds
<1>3. (s \in {"pp1", "rename"} => Holds(Pp0(in), "pp0", read[i][n]))'
  <2> SUFFICES ASSUME s \in {"pp1", "rename"}
               PROVE  Holds(Pp0(in), "pp0", read[i][n])'
    OBVIOUS
  <2>1. Holds(Pp0(in), "pp0", read[i][n])
    BY DEF Partial
  <2> QED
    BY <2>1, <1>1 DEF Holds, Kept, Content, Pp0
<1>4. (s \in LaterThan("pp0") => ~Exists(Pp0(in)))'
  BY <1>1 DEF Partial, Exists, Kept, Pp0
<1>5. (\A k \in AllKinds : s \in LaterThan(k) => Holds(Place(jobs[i], in, k), k, read[i][n]))'
  <2> SUFFICES ASSUME NEW k \in AllKinds, s \in LaterThan(k)
               PROVE  Holds(Place(jobs[i], in, k), k, read[i][n])'
    OBVIOUS
  <2>1. Holds(Place(jobs[i], in, k), k, read[i][n])
    BY DEF Partial
  <2>2. files[Place(jobs[i], in, k)].kind # "source"
    BY <2>1, <1>2 DEF Holds, Content
  <2> QED
    BY <2>1, <2>2, <1>1 DEF Holds, Kept, Content, Place, FinalName, Temporary, AnOutput
<1> QED
  BY <1>3, <1>4, <1>5 DEF Partial

-----------------------------------------------------------------------------
(* Names *)

LEMMA JobFacts ==
    ASSUME NEW i \in Invocations, jobs \in CommandLines
    PROVE  /\ jobs[i].inputs \in Seq({jobs[i].inputs[n] : n \in DOMAIN jobs[i].inputs})
           /\ Len(jobs[i].inputs) \in Nat
           /\ DOMAIN jobs[i].inputs = 1..Len(jobs[i].inputs)
           /\ jobs[i].tmp # Cwd
           /\ \A j \in Invocations : NamesApart(jobs[i], jobs[j])
<1>1. jobs[i].inputs \in Seq({jobs[i].inputs[n] : n \in DOMAIN jobs[i].inputs})
  BY PipelineAssumption
<1>2. Len(jobs[i].inputs) \in Nat /\ DOMAIN jobs[i].inputs = 1..Len(jobs[i].inputs)
  BY <1>1
<1>3. jobs[i].tmp # Cwd /\ \A j \in Invocations : NamesApart(jobs[i], jobs[j])
  BY PipelineAssumption
<1> QED
  BY <1>1, <1>2, <1>3

\* Where the files of an input are.
LEMMA PlacesMine ==
    ASSUME NEW i \in Invocations, NEW n \in Sources(jobs[i])
    PROVE  LET job == jobs[i]
               in == job.inputs[n]
           IN  /\ Pp0(in) \in TemporariesOf(job)
               /\ \A k \in AllKinds : Temporary(job, in, k) \in TemporariesOf(job)
               /\ job.compile => FinalName(job, in) \in Written(job)
               /\ ~job.compile => FinalName(job, in) = Temporary(job, in, "o")
               /\ \A f \in FilesOf(job, in) : f \in Mine(job)
<1> DEFINE job == jobs[i]
           in == job.inputs[n]
<1>1. Pp0(in) \in TemporariesOf(job)
  BY DEF TemporariesOf
<1>2. \A k \in AllKinds : Temporary(job, in, k) \in TemporariesOf(job)
  BY DEF TemporariesOf, AllKinds
<1>3. job.compile => FinalName(job, in) \in Written(job)
  BY DEF Written
<1>4. ~job.compile => FinalName(job, in) = Temporary(job, in, "o")
  BY DEF FinalName
<1>5. \A k \in AllKinds : Place(job, in, k) \in Mine(job)
  BY <1>2, <1>3, <1>4 DEF Place, Mine, AllKinds
<1>6. \A f \in FilesOf(job, in) : f \in Mine(job)
  BY <1>1, <1>5 DEF FilesOf, Mine
<1> QED
  BY <1>1, <1>2, <1>3, <1>4, <1>6

\* The files of one input have different names.
LEMMA PlacesApart ==
    ASSUME NEW i \in Invocations, jobs \in CommandLines, NEW n \in Sources(jobs[i]),
           NEW k \in AllKinds
    PROVE  LET in == jobs[i].inputs[n]
           IN  /\ Place(jobs[i], in, k) # Pp0(in)
               /\ \A m \in AllKinds : m # k => Place(jobs[i], in, m) # Place(jobs[i], in, k)
<1> DEFINE job == jobs[i]
           in == job.inputs[n]
<1>1. job.tmp # Cwd /\ NamesApart(job, job)
  BY JobFacts
<1>2. Temporary(job, in, k) # Pp0(in)
  BY <1>1 DEF Temporary, Pp0
<1>3. \A m \in AllKinds : m # k => Temporary(job, in, m) # Temporary(job, in, k)
  BY DEF Temporary
<1>4. CASE ~job.compile
  <2>1. \A m \in AllKinds : Place(job, in, m) = Temporary(job, in, m)
    BY <1>4 DEF Place, FinalName
  <2> QED
    BY <2>1, <1>2, <1>3
<1>5. CASE job.compile
  <2>1. FinalName(job, in) \notin TemporariesOf(job)
    BY <1>5, <1>1, PlacesMine DEF NamesApart
  <2>2. \A m \in AllKinds : FinalName(job, in) # Temporary(job, in, m)
    BY <2>1, PlacesMine
  <2>3. FinalName(job, in) # Pp0(in)
    BY <2>1, PlacesMine
  <2> QED
    BY <2>2, <2>3, <1>2, <1>3 DEF Place
<1> QED
  BY <1>4, <1>5

\* So have the files of two inputs of an invocation with private names.
LEMMA FilesApart ==
    ASSUME NEW i \in Invocations, jobs \in CommandLines, Private(i), ~Rejected(i),
           NEW m \in Sources(jobs[i]), NEW n \in Sources(jobs[i]), m # n
    PROVE  FilesOf(jobs[i], jobs[i].inputs[m]) \cap FilesOf(jobs[i], jobs[i].inputs[n]) = {}
<1> DEFINE job == jobs[i]
           u == job.inputs[m]
           v == job.inputs[n]
<1>1. u.base # v.base
  BY DEF Private
<1>2. job.tmp # Cwd /\ NamesApart(job, job)
  BY JobFacts
<1>3. Pp0(u) # Pp0(v) /\ \A k, l \in AllKinds : Temporary(job, u, k) # Temporary(job, v, l)
  BY <1>1 DEF Pp0, Temporary
<1>4. \A k \in AllKinds : Pp0(u) # Temporary(job, v, k) /\ Pp0(v) # Temporary(job, u, k)
  BY <1>1 DEF Pp0, Temporary
<1>5. CASE ~job.compile
  <2>1. \A k \in AllKinds : Place(job, u, k) = Temporary(job, u, k)
                           /\ Place(job, v, k) = Temporary(job, v, k)
    BY <1>5 DEF Place, FinalName
  <2> QED
    BY <2>1, <1>3, <1>4 DEF FilesOf
<1>6. CASE job.compile
  <2>1. FinalName(job, u) \notin TemporariesOf(job) /\ FinalName(job, v) \notin TemporariesOf(job)
    BY <1>6, <1>2, PlacesMine DEF NamesApart
  <2>2. \A k \in AllKinds : FinalName(job, u) # Temporary(job, v, k)
                           /\ FinalName(job, v) # Temporary(job, u, k)
    BY <2>1, PlacesMine
  <2>3. FinalName(job, u) # Pp0(v) /\ FinalName(job, v) # Pp0(u)
    BY <2>1, PlacesMine
  <2>4. ~AnOutput(job)
    <3>1. DOMAIN job.inputs = 1..Len(job.inputs) /\ Len(job.inputs) \in Nat
      BY JobFacts
    <3>2. m \in 1..Len(job.inputs) /\ n \in 1..Len(job.inputs)
      BY <3>1 DEF Sources
    <3>3. Len(job.inputs) > 1
      BY <3>1, <3>2
    <3> QED
      BY <3>3, <1>6 DEF Rejected
  <2>5. FinalName(job, u) # FinalName(job, v)
    BY <2>4, <1>6, <1>1 DEF FinalName
  <2>6. \A k, l \in AllKinds : Place(job, u, k) # Place(job, v, l)
    BY <2>2, <2>5, <1>3 DEF Place
  <2>7. \A k \in AllKinds : Place(job, u, k) # Pp0(v) /\ Place(job, v, k) # Pp0(u)
    BY <2>3, <1>4 DEF Place
  <2> QED
    BY <2>6, <2>7, <1>3 DEF FilesOf
<1> QED
  BY <1>5, <1>6

\* No other invocation writes them, nor the binary, nor an object that is
\* given.
LEMMA OthersApart ==
    ASSUME NEW i \in Invocations, NEW j \in Invocations, i # j, jobs \in CommandLines, Private(i)
    PROVE  Mine(jobs[i]) \cap Mine(jobs[j]) = {}
<1> DEFINE P(job, n) == Pp0(job.inputs[n])
           T(job, n, k) == Temporary(job, job.inputs[n], k)
<1>1. NamesApart(jobs[i], jobs[j]) /\ NamesApart(jobs[j], jobs[i])
  BY JobFacts
<1>2. Written(jobs[i]) \cap Written(jobs[j]) = {}
  BY DEF Private
<1>3. \A m \in Sources(jobs[i]), n \in Sources(jobs[j]) :
         jobs[i].inputs[m].base # jobs[j].inputs[n].base
  BY DEF Private, BasesOf
<1>4. TemporariesOf(jobs[i]) \cap TemporariesOf(jobs[j]) = {}
  <2> SUFFICES ASSUME NEW f \in TemporariesOf(jobs[i]), f \in TemporariesOf(jobs[j])
               PROVE  FALSE
    OBVIOUS
  <2>1. PICK m \in Sources(jobs[i]) : f[2] = jobs[i].inputs[m].base
    BY DEF TemporariesOf, Pp0, Temporary
  <2>2. PICK n \in Sources(jobs[j]) : f[2] = jobs[j].inputs[n].base
    BY DEF TemporariesOf, Pp0, Temporary
  <2> QED
    BY <2>1, <2>2, <1>3
<1> QED
  BY <1>1, <1>2, <1>4 DEF Mine, NamesApart

LEMMA ObjectsApart ==
    ASSUME NEW i \in Invocations, NEW j \in Invocations, jobs \in CommandLines,
           NEW n \in DOMAIN jobs[i].inputs
    PROVE  SourceFile(jobs[i].inputs[n]) \notin Mine(jobs[j])
<1>1. NamesApart(jobs[i], jobs[j])
  BY JobFacts
<1> QED
  BY <1>1 DEF NamesApart, InputsOf, Mine

-----------------------------------------------------------------------------
(* Steps that leave the chains of an invocation alone *)

Undisturbed(i) ==
    /\ jobs' = jobs
    /\ status'[i] = status[i] /\ input'[i] = input[i]
    /\ step'[i] = step[i] /\ read'[i] = read[i]
    /\ \A g \in Mine(jobs[i]) : Kept(g)

LEMMA UndisturbedKeeps ==
    ASSUME NEW i \in Invocations, Undisturbed(i), ChainInv(i)
    PROVE  ChainInv(i)'
<1>1. \A n, s : n \in Sources(jobs[i]) /\ Partial(i, n, s) => Partial(i, n, s)'
  <2> SUFFICES ASSUME NEW n, NEW s, n \in Sources(jobs[i]), Partial(i, n, s)
               PROVE  Partial(i, n, s)'
    OBVIOUS
  <2>1. \A g \in FilesOf(jobs[i], jobs[i].inputs[n]) : Kept(g)
    BY PlacesMine DEF Undisturbed
  <2> QED
    BY <2>1, PartialKept DEF Undisturbed
<1>2. \A n \in Sources(jobs[i]) : Complete(i, n) => Complete(i, n)'
  BY <1>1 DEF Complete
<1>3. Private(i)' <=> Private(i)
  BY DEF Private, Undisturbed, Sources, BasesOf, Written, FinalName, Binary, AnOutput,
         Temporary
<1>4. ASSUME RunningInv(i) PROVE RunningInv(i)'
  <2>1. (~Rejected(i))' /\ input'[i] \in 1..(Len(jobs'[i].inputs) + 1)
    BY <1>4 DEF RunningInv, Rejected, AnOutput, Undisturbed
  <2>2. (\A n \in DOMAIN jobs[i].inputs :
            n < input[i] =>
              /\ jobs[i].inputs[n].kind \in {"source", "object"}
              /\ n \in Sources(jobs[i]) => Complete(i, n))'
    BY <1>4, <1>2 DEF RunningInv, Undisturbed, Sources
  <2>3. (input[i] \in Sources(jobs[i]) => Partial(i, input[i], step[i]))'
    <3> SUFFICES ASSUME (input[i] \in Sources(jobs[i]))'
                 PROVE  Partial(i, input[i], step[i])'
      OBVIOUS
    <3>1. input[i] \in Sources(jobs[i])
      BY DEF Undisturbed, Sources
    <3> DEFINE n == input[i]
               s == step[i]
    <3>2. Partial(i, n, s)
      BY <3>1, <1>4 DEF RunningInv
    <3>3. PICK m, t : m = n /\ t = s
      OBVIOUS
    <3>4. Partial(i, m, t)
      BY <3>2, <3>3
    <3>5. Partial(i, m, t)'
      BY <3>4, <3>3, <3>1, <1>1
    <3> QED
      BY <3>5, <3>3 DEF Undisturbed
  <2> QED
    BY <2>1, <2>2, <2>3 DEF RunningInv
<1>5. ASSUME OkInv(i) PROVE OkInv(i)'
  <2>1. (\A n \in Sources(jobs[i]) : Complete(i, n))'
    BY <1>5, <1>2 DEF OkInv, Undisturbed, Sources
  <2>2. ASSUME ~jobs[i].compile
        PROVE  Holds(Binary(jobs[i]), "binary",
                     [n \in DOMAIN jobs[i].inputs |-> Contribution(i, n)])'
    <3> DEFINE from == [n \in DOMAIN jobs[i].inputs |-> Contribution(i, n)]
    <3>1. Binary(jobs[i]) \in Mine(jobs[i])
      BY <2>2 DEF Mine, Written
    <3>2. Holds(Binary(jobs[i]), "binary", from)
      BY <2>2, <1>5 DEF OkInv
    <3>3. Kept(Binary(jobs[i])) /\ files[Binary(jobs[i])].kind # "source"
      BY <3>1, <3>2 DEF Undisturbed, Holds, Content
    <3>4. from' = from
      BY DEF Contribution, Undisturbed, Sources, SourceFile
    <3>5. Binary(jobs[i])' = Binary(jobs[i])
      BY DEF Undisturbed, Binary, AnOutput
    <3> QED
      BY <3>2, <3>3, <3>4, <3>5 DEF Holds, Kept, Content
  <2> QED
    BY <2>1, <2>2 DEF OkInv, Undisturbed
<1> QED
  BY <1>3, <1>4, <1>5 DEF ChainInv, Undisturbed

-----------------------------------------------------------------------------
(* What a step of invocation j changes *)

Outside(j) ==
    /\ jobs' = jobs
    /\ Only(Mine(jobs[j]))
    /\ \A i \in Invocations \ {j} :
          /\ status'[i] = status[i] /\ input'[i] = input[i]
          /\ step'[i] = step[i] /\ read'[i] = read[i]

LEMMA OnlyOne ==
    ASSUME NEW F, NEW f \in F, Only({f})
    PROVE  Only(F)
BY DEF Only

LEMMA OnlyNone ==
    ASSUME NEW F, files' = files
    PROVE  Only(F)
BY DEF Only, Kept

LEMMA Controls ==
    ASSUME TypeInv, NEW j \in Invocations
    PROVE  /\ \A s \in Steps : GoTo(j, s) =>
                 /\ TypeInv' /\ jobs' = jobs /\ status' = status /\ input' = input
                 /\ read' = read /\ step'[j] = s
                 /\ \A i \in Invocations \ {j} : step'[i] = step[i]
           /\ NextInput(j) =>
                 /\ TypeInv' /\ jobs' = jobs /\ status' = status /\ read' = read
                 /\ input'[j] = input[j] + 1 /\ step'[j] = "pp0"
                 /\ \A i \in Invocations \ {j} : step'[i] = step[i] /\ input'[i] = input[i]
           /\ \A r \in {"ok", "failed"} : End(j, r) =>
                 /\ TypeInv' /\ jobs' = jobs /\ input' = input /\ step' = step /\ read' = read
                 /\ status'[j] = r
                 /\ \A i \in Invocations \ {j} : status'[i] = status[i]
BY DEF TypeInv, GoTo, NextInput, End, Steps

\* A run of a program, which makes the file to.
LEMMA RunFacts ==
    ASSUME TypeInv, NEW j \in Invocations, NEW from, NEW k, NEW to \in Mine(jobs[j]),
           NEW next \in Steps, Run(j, from, k, to, next)
    PROVE  Outside(j) /\ TypeInv'
<1>1. CASE files' = With(to, Content(k, files[from].from)) /\ GoTo(j, next)
  <2>1. Only(Mine(jobs[j]))
    BY <1>1, WithFacts, OnlyOne
  <2> QED
    BY <1>1, <2>1, Controls DEF Outside
<1>2. CASE Spoils(to) /\ End(j, "failed")
  <2>1. Only(Mine(jobs[j]))
    BY <1>2, SpoilsFacts, OnlyOne
  <2> QED
    BY <1>2, <2>1, Controls DEF Outside
<1> QED
  BY <1>1, <1>2 DEF Run

\* The input at hand and where its files are.
LEMMA AtFacts ==
    ASSUME TypeInv, NEW j \in Invocations, NEW s, At(j, s)
    PROVE  LET job == jobs[j]
           IN  /\ input[j] \in Sources(job)
               /\ In(j) = job.inputs[input[j]]
               /\ Pp0(In(j)) \in Mine(job)
               /\ \A k \in AllKinds : Temporary(job, In(j), k) \in Mine(job)
               /\ FinalName(job, In(j)) \in Mine(job)
<1>1. input[j] \in Sources(jobs[j]) /\ In(j) = jobs[j].inputs[input[j]]
  BY DEF At, In, Sources
<1>2. FinalName(jobs[j], In(j)) \in FilesOf(jobs[j], In(j))
  BY DEF FilesOf, Place, AllKinds
<1> QED
  BY <1>1, <1>2, PlacesMine DEF Mine

LEMMA RenameFacts ==
    ASSUME TypeInv, NEW j \in Invocations, Rename(j), Exists(Pp0(In(j)))
    PROVE  /\ GoTo(j, "pp2")
           /\ DOMAIN files' = (DOMAIN files \cup {Temporary(jobs[j], In(j), "pp0")}) \ {Pp0(In(j))}
           /\ files'[Temporary(jobs[j], In(j), "pp0")] = files[Pp0(In(j))]
           /\ Only({Pp0(In(j)), Temporary(jobs[j], In(j), "pp0")})
<1> DEFINE f == Pp0(In(j))
           g == Temporary(jobs[j], In(j), "pp0")
<1>1. GoTo(j, "pp2") /\ files' = [h \in DOMAIN Moved(j) \ {f} |-> Moved(j)[h]]
  BY DEF Rename
<1>2. DOMAIN Moved(j) = DOMAIN files \cup {g}
  BY DEF Moved, With
<1>3. Moved(j)[g] = files[f]
  BY DEF Moved, With
<1>4. \A h \in DOMAIN files : h # g => Moved(j)[h] = files[h]
  BY DEF Moved, With
<1>5. f # g
  BY JobFacts DEF TypeInv, Pp0, Temporary
<1>6. DOMAIN files' = (DOMAIN files \cup {g}) \ {f}
  BY <1>1, <1>2
<1>7. files'[g] = files[f]
  BY <1>1, <1>2, <1>3, <1>5
<1>8. Only({f, g})
  BY <1>1, <1>2, <1>4 DEF Only, Kept
<1> QED
  BY <1>1, <1>6, <1>7, <1>8

LEMMA StepOutside ==
    ASSUME TypeInv, NEW j \in Invocations,
           Start(j) \/ CompilerStep(j) \/ OtherInput(j) \/ Link(j) \/ Again(j)
    PROVE  Outside(j) /\ TypeInv'
<1> DEFINE job == jobs[j]
<1> USE DEF Steps
<1>1. CASE Start(j)
  <2>1. files' = files /\ jobs' = jobs /\ read' = read
    BY <1>1 DEF Start
  <2>2. TypeInv'
    BY <1>1 DEF Start, TypeInv
  <2> QED
    BY <1>1, <2>1, <2>2, OnlyNone DEF Start, Outside, TypeInv
<1>2. CASE Annotate(j)
  <2>1. Only(Mine(job))
    BY <1>2, AtFacts, WithFacts, OnlyOne DEF Annotate
  <2>2. read' = [read EXCEPT ![j][input[j]] = files[SourceFile(In(j))].from]
        /\ step' = [step EXCEPT ![j] = "pp1"] /\ UNCHANGED <<jobs, status, input>>
    BY <1>2 DEF Annotate
  <2>3. TypeInv'
    BY <2>2 DEF TypeInv
  <2> QED
    BY <2>1, <2>2, <2>3 DEF Outside, TypeInv
<1>3. CASE Preprocess(j)
  BY <1>3, AtFacts, RunFacts DEF Preprocess, AllKinds, Kinds
<1>4. CASE Rename(j)
  <2>1. CASE Exists(Pp0(In(j)))
    <3>1. Only({Pp0(In(j)), Temporary(job, In(j), "pp0")}) /\ GoTo(j, "pp2")
      BY <1>4, <2>1, RenameFacts
    <3>2. Only(Mine(job))
      BY <3>1, <1>4, AtFacts DEF Rename, Only, AllKinds, Kinds
    <3> QED
      BY <3>1, <3>2, Controls DEF Outside
  <2>2. CASE ~Exists(Pp0(In(j)))
    BY <1>4, <2>2, OnlyNone, Controls DEF Rename, Outside
  <2> QED
    BY <2>1, <2>2
<1>5. CASE ProcessPragmas(j)
  <2>1. CASE /\ files' = With(Temporary(job, In(j), "pp2"),
                              Content("pp2", files[Temporary(job, In(j), "pp1")].from))
             /\ GoTo(j, "pre_vec")
    <3>1. Temporary(job, In(j), "pp2") \in Mine(job)
      BY <1>5, AtFacts DEF ProcessPragmas, AllKinds, Kinds
    <3>2. Only(Mine(job))
      BY <2>1, <3>1, WithFacts, OnlyOne
    <3> QED
      BY <2>1, <3>2, Controls DEF Outside
  <2>2. CASE End(j, "failed") /\ UNCHANGED files
    BY <2>2, OnlyNone, Controls DEF Outside
  <2> QED
    BY <1>5, <2>1, <2>2 DEF ProcessPragmas
<1>6. CASE Compile(j)
  BY <1>6, AtFacts, RunFacts DEF Compile, AllKinds, Kinds
<1>7. CASE Vectorize(j)
  BY <1>7, AtFacts, RunFacts DEF Vectorize, AllKinds, Kinds
<1>8. CASE Assemble(j)
  BY <1>8, AtFacts, RunFacts DEF Assemble
<1>9. CASE Return(j)
  BY <1>9, OnlyNone, Controls DEF Return, Outside
<1>10. CASE OtherInput(j)
  BY <1>10, OnlyNone, Controls DEF OtherInput, Outside
<1>11. CASE Link(j)
  <2>1. CASE job.compile
    BY <1>11, <2>1, OnlyNone, Controls DEF Link, Outside
  <2>2. CASE ~job.compile
    <3>1. Binary(job) \in Mine(job)
      BY <2>2 DEF Mine, Written
    <3>2. Only(Mine(job))
      BY <1>11, <2>2, <3>1, WithFacts, SpoilsFacts, OnlyOne DEF Link
    <3> QED
      BY <1>11, <2>2, <3>2, Controls DEF Link, Outside
  <2> QED
    BY <2>1, <2>2
<1>12. CASE Again(j)
  <2>1. files' = files /\ jobs' = jobs /\ read' = read
    BY <1>12 DEF Again
  <2>2. TypeInv'
    BY <1>12 DEF Again, TypeInv
  <2> QED
    BY <1>12, <2>1, <2>2, OnlyNone DEF Again, Outside, TypeInv
<1> QED
  BY <1>1, <1>2, <1>3, <1>4, <1>5, <1>6, <1>7, <1>8, <1>9, <1>10, <1>11, <1>12
  DEF CompilerStep

LEMMA ObjectsKept ==
    ASSUME TypeInv, ObjectsThere, jobs' = jobs, NEW j \in Invocations, Only(Mine(jobs[j]))
    PROVE  ObjectsThere'
<1> SUFFICES ASSUME NEW i \in Invocations, NEW n \in DOMAIN jobs[i].inputs,
                    jobs[i].inputs[n].kind = "object"
             PROVE  Holds(SourceFile(jobs[i].inputs[n]), "object",
                          <<SourceFile(jobs[i].inputs[n]), 0>>)'
  BY DEF ObjectsThere
<1> DEFINE f == SourceFile(jobs[i].inputs[n])
<1>1. Holds(f, "object", <<f, 0>>)
  BY DEF ObjectsThere
<1>2. Kept(f)
  BY ObjectsApart DEF TypeInv, Only
<1>3. Holds(f, "object", <<f, 0>>)'
  BY <1>1, <1>2, KeptHolds
<1>4. f' = f
  BY DEF SourceFile
<1> QED
  BY <1>3, <1>4

-----------------------------------------------------------------------------
(* Steps of a running invocation with private names *)

LEMMA PrivateStays ==
    ASSUME NEW i, jobs' = jobs
    PROVE  /\ Private(i)' <=> Private(i)
           /\ Rejected(i)' <=> Rejected(i)
           /\ Sources(jobs[i])' = Sources(jobs[i])
           /\ \A n : FilesOf(jobs[i], jobs[i].inputs[n])' = FilesOf(jobs[i], jobs[i].inputs[n])
BY DEF Private, Sources, BasesOf, Written, FinalName, Binary, AnOutput, Temporary, Rejected,
       FilesOf, Pp0, Place

\* The file of kind k is added to the chain of input n.
LEMMA Advance ==
    ASSUME TypeInv, NEW i \in Invocations, NEW n \in Sources(jobs[i]),
           NEW k \in AllKinds, NEW s, NEW next, Partial(i, n, s),
           files' = With(Place(jobs[i], jobs[i].inputs[n], k), Content(k, read[i][n])),
           jobs' = jobs, read'[i][n] = read[i][n],
           next \in {"pp1", "rename"} => s \in {"pp1", "rename"},
           next \in LaterThan("pp0") => s \in LaterThan("pp0"),
           \A m \in AllKinds \ {k} : next \in LaterThan(m) => s \in LaterThan(m)
    PROVE  Partial(i, n, next)'
<1> DEFINE in == jobs[i].inputs[n]
           to == Place(jobs[i], in, k)
<1>1. to # Pp0(in) /\ \A m \in AllKinds : m # k => Place(jobs[i], in, m) # to
  BY PlacesApart DEF TypeInv
<1>2. /\ DOMAIN files' = DOMAIN files \cup {to}
      /\ files'[to] = Content(k, read[i][n])
      /\ \A g : g \in DOMAIN files /\ g # to => files'[g] = files[g]
  BY WithFacts
<1>3. (next \in {"pp1", "rename"} => Holds(Pp0(in), "pp0", read[i][n]))'
  BY <1>1, <1>2 DEF Partial, Holds, Content, Pp0
<1>4. (next \in LaterThan("pp0") => ~Exists(Pp0(in)))'
  BY <1>1, <1>2 DEF Partial, Exists, Pp0
<1>5. (\A m \in AllKinds : next \in LaterThan(m) => Holds(Place(jobs[i], in, m), m, read[i][n]))'
  <2> SUFFICES ASSUME NEW m \in AllKinds, next \in LaterThan(m)
               PROVE  Holds(Place(jobs[i], in, m), m, read[i][n])'
    OBVIOUS
  <2>0. Place(jobs[i], in, m)' = Place(jobs[i], in, m)
    BY DEF Place, FinalName, Temporary, AnOutput
  <2>1. CASE m = k
    BY <2>0, <2>1, <1>2 DEF Holds, Content
  <2>2. CASE m # k
    <3>1. Holds(Place(jobs[i], in, m), m, read[i][n])
      BY <2>2 DEF Partial
    <3> QED
      BY <2>0, <2>2, <3>1, <1>1, <1>2 DEF Holds, Content
  <2> QED
    BY <2>1, <2>2
<1> QED
  BY <1>3, <1>4, <1>5 DEF Partial

\* The chains of the other inputs stay as they are.
LEMMA OnlyThisInput ==
    ASSUME TypeInv, NEW i \in Invocations, Private(i), RunningInv(i),
           NEW n \in Sources(jobs[i]), n = input[i],
           jobs' = jobs, input' = input, NEW next, step'[i] = next,
           Only(FilesOf(jobs[i], jobs[i].inputs[n])),
           \A m \in Sources(jobs[i]) \ {n} : read'[i][m] = read[i][m],
           Partial(i, n, next)'
    PROVE  RunningInv(i)'
<1>1. (~Rejected(i))' /\ input'[i] \in 1..(Len(jobs'[i].inputs) + 1)
  BY PrivateStays DEF RunningInv
<1>2. ASSUME NEW m \in Sources(jobs[i]), m < input[i]
      PROVE  Complete(i, m)'
  <2>1. m # n
    BY <1>2 DEF TypeInv
  <2>2. \A g \in FilesOf(jobs[i], jobs[i].inputs[m]) : Kept(g)
    BY <2>1, FilesApart DEF RunningInv, TypeInv, Only
  <2>3. Partial(i, m, "return")
    BY <1>2 DEF RunningInv, Complete, Sources
  <2> QED
    BY <2>1, <2>2, <2>3, PartialKept DEF Complete
<1>3. (\A m \in DOMAIN jobs[i].inputs :
          m < input[i] =>
            /\ jobs[i].inputs[m].kind \in {"source", "object"}
            /\ m \in Sources(jobs[i]) => Complete(i, m))'
  BY <1>2 DEF RunningInv, Sources
<1>4. (input[i] \in Sources(jobs[i]) => Partial(i, input[i], step[i]))'
  <2>1. Partial(i, input[i], step[i])' <=> Partial(i, n, next)'
    BY DEF Partial
  <2> QED
    BY <2>1
<1> QED
  BY <1>1, <1>3, <1>4 DEF RunningInv

LEMMA EndsFailed ==
    ASSUME TypeInv, NEW i \in Invocations, End(i, "failed")
    PROVE  ChainInv(i)'
BY Controls DEF ChainInv

\* A run of a program in the chain of an input.
LEMMA RunOwn ==
    ASSUME TypeInv, NEW i \in Invocations, Private(i), RunningInv(i), status[i] = "running",
           NEW s, At(i, s), NEW k \in AllKinds, NEW from, NEW next \in Steps, NEW before,
           Holds(from, before, read[i][input[i]]),
           Run(i, from, k, Place(jobs[i], In(i), k), next),
           next \in {"pp1", "rename"} => s \in {"pp1", "rename"},
           next \in LaterThan("pp0") => s \in LaterThan("pp0"),
           \A m \in AllKinds \ {k} : next \in LaterThan(m) => s \in LaterThan(m)
    PROVE  ChainInv(i)'
<1> DEFINE to == Place(jobs[i], In(i), k)
<1>1. input[i] \in Sources(jobs[i]) /\ In(i) = jobs[i].inputs[input[i]] /\ step[i] = s
  BY AtFacts DEF At
<1>2. PICK n \in Sources(jobs[i]) : n = input[i]
  BY <1>1
<1>3. Partial(i, n, s)
  BY <1>1, <1>2 DEF RunningInv
<1>4. CASE files' = With(to, Content(k, files[from].from)) /\ GoTo(i, next)
  <2>1. files[from].from = read[i][n]
    BY <1>2 DEF Holds, Content
  <2>2. files' = With(Place(jobs[i], jobs[i].inputs[n], k), Content(k, read[i][n]))
    BY <1>4, <2>1, <1>1, <1>2
  <2>3. jobs' = jobs /\ status' = status /\ input' = input /\ read' = read /\ step'[i] = next
    BY <1>4, Controls
  <2>4. Partial(i, n, next)'
    BY <1>3, <2>2, <2>3, Advance
  <2>5. Only(FilesOf(jobs[i], jobs[i].inputs[n]))
    BY <2>2, WithFacts, OnlyOne DEF FilesOf
  <2>6. RunningInv(i)'
    BY <1>2, <2>3, <2>4, <2>5, OnlyThisInput
  <2> QED
    BY <2>6, <2>3 DEF ChainInv
<1>5. CASE End(i, "failed")
  BY <1>5, EndsFailed
<1> QED
  BY <1>4, <1>5 DEF Run

\* What the steps before s have made for the input at hand.
LEMMA ChainAt ==
    ASSUME TypeInv, NEW i \in Invocations, RunningInv(i), NEW s, At(i, s)
    PROVE  LET in == In(i)
               r == read[i][input[i]]
           IN  /\ s \in {"pp1", "rename"} => Holds(Pp0(in), "pp0", r)
               /\ \A k \in Kinds :
                     s \in LaterThan(k) => Holds(Temporary(jobs[i], in, k), k, r)
<1>1. input[i] \in Sources(jobs[i]) /\ In(i) = jobs[i].inputs[input[i]] /\ step[i] = s
  BY AtFacts DEF At
<1>2. Partial(i, input[i], s)
  BY <1>1 DEF RunningInv
<1>3. \A k \in Kinds : k \in AllKinds /\ Place(jobs[i], In(i), k) = Temporary(jobs[i], In(i), k)
  BY DEF AllKinds, Kinds, Place
<1> QED
  BY <1>1, <1>2, <1>3 DEF Partial

LEMMA AnnotateOwn ==
    ASSUME TypeInv, NEW i \in Invocations, Private(i), RunningInv(i), status[i] = "running",
           Annotate(i)
    PROVE  ChainInv(i)'
<1> DEFINE from == files[SourceFile(In(i))].from
<1>1. input[i] \in Sources(jobs[i]) /\ In(i) = jobs[i].inputs[input[i]]
  BY AtFacts DEF Annotate
<1>2. PICK n \in Sources(jobs[i]) : n = input[i]
  BY <1>1
<1>3. /\ files' = With(Pp0(In(i)), Content("pp0", from))
      /\ read' = [read EXCEPT ![i][input[i]] = from]
      /\ step' = [step EXCEPT ![i] = "pp1"]
      /\ UNCHANGED <<jobs, status, input>>
  BY DEF Annotate
<1>4. read'[i][n] = from /\ \A m \in Sources(jobs[i]) \ {n} : read'[i][m] = read[i][m]
  <2>1. i \in DOMAIN read /\ DOMAIN read[i] = DOMAIN jobs[i].inputs
    BY DEF TypeInv
  <2>2. read'[i] = [read[i] EXCEPT ![input[i]] = from]
    BY <1>3, <2>1
  <2> QED
    BY <1>2, <2>1, <2>2 DEF Sources
<1>5. step'[i] = "pp1" /\ jobs' = jobs /\ status' = status /\ input' = input
  BY <1>3 DEF TypeInv
<1>6. Holds(Pp0(jobs[i].inputs[n]), "pp0", read[i][n])'
  <2>1. Pp0(In(i)) \in DOMAIN files' /\ files'[Pp0(In(i))] = Content("pp0", from)
    BY <1>3, WithFacts
  <2> QED
    BY <2>1, <1>1, <1>2, <1>4, <1>5 DEF Holds, Content, Pp0
<1>7. Partial(i, n, "pp1")'
  BY <1>6 DEF Partial, LaterThan, AllKinds, Kinds
<1>8. Only(FilesOf(jobs[i], jobs[i].inputs[n]))
  BY <1>1, <1>2, <1>3, WithFacts, OnlyOne DEF FilesOf
<1>9. RunningInv(i)'
  BY <1>2, <1>4, <1>5, <1>7, <1>8, OnlyThisInput
<1> QED
  BY <1>5, <1>9 DEF ChainInv

LEMMA RenameOwn ==
    ASSUME TypeInv, NEW i \in Invocations, Private(i), RunningInv(i), status[i] = "running",
           Rename(i)
    PROVE  ChainInv(i)'
<1>1. input[i] \in Sources(jobs[i]) /\ In(i) = jobs[i].inputs[input[i]] /\ step[i] = "rename"
  BY AtFacts DEF Rename, At
<1>2. PICK n \in Sources(jobs[i]) : n = input[i]
  BY <1>1
<1> DEFINE in == jobs[i].inputs[n]
           f == Pp0(in)
           g == Temporary(jobs[i], in, "pp0")
<1>3. Partial(i, n, "rename")
  BY <1>1, <1>2 DEF RunningInv
<1>4. Holds(f, "pp0", read[i][n])
  BY <1>3 DEF Partial
<1>5. /\ GoTo(i, "pp2")
      /\ DOMAIN files' = (DOMAIN files \cup {g}) \ {f}
      /\ files'[g] = files[f]
      /\ Only({f, g})
  BY <1>1, <1>2, <1>4, RenameFacts DEF Holds, Exists
<1>6. jobs' = jobs /\ status' = status /\ input' = input /\ read' = read /\ step'[i] = "pp2"
  BY <1>5, Controls DEF Steps
<1>7. g = Place(jobs[i], in, "pp0")
  BY DEF Place
<1>8. f # g
  BY JobFacts DEF TypeInv, Pp0, Temporary
<1>9. (~Exists(Pp0(in)))'
  BY <1>5, <1>6 DEF Exists, Pp0
<1>10. \A k \in AllKinds : "pp2" \in LaterThan(k) => k \in {"pp0", "pp1"}
  BY DEF AllKinds, Kinds, LaterThan
<1>11. Holds(Place(jobs[i], in, "pp0"), "pp0", read[i][n])'
  <2>1. g \in DOMAIN files' /\ files'[g] = Content("pp0", read[i][n])
    BY <1>4, <1>5, <1>8 DEF Holds
  <2> QED
    BY <2>1, <1>6 DEF Holds, Content, Place, Temporary
<1>12. Holds(Place(jobs[i], in, "pp1"), "pp1", read[i][n])'
  <2>1. Holds(Place(jobs[i], in, "pp1"), "pp1", read[i][n])
    BY <1>3 DEF Partial, LaterThan, AllKinds, Kinds
  <2>2. Place(jobs[i], in, "pp1") # f /\ Place(jobs[i], in, "pp1") # g
    BY <1>7, PlacesApart DEF TypeInv, AllKinds, Kinds
  <2>3. Kept(Place(jobs[i], in, "pp1"))
    BY <2>2, <1>5 DEF Only
  <2>4. Holds(Place(jobs[i], in, "pp1"), "pp1", read[i][n]) /\ "pp1" # "source"
    BY <2>1
  <2> QED
    BY <2>3, <2>4, <1>6 DEF Holds, Kept, Content, Place, Temporary
<1>13. Partial(i, n, "pp2")'
  BY <1>9, <1>10, <1>11, <1>12 DEF Partial
<1>14. Only(FilesOf(jobs[i], in))
  BY <1>5, <1>7 DEF Only, FilesOf, AllKinds, Kinds
<1>15. RunningInv(i)'
  BY <1>2, <1>6, <1>13, <1>14, OnlyThisInput
<1> QED
  BY <1>6, <1>15 DEF ChainInv

\* main goes on to the next input.
LEMMA NextOwn ==
    ASSUME TypeInv, NEW i \in Invocations, Private(i), RunningInv(i), status[i] = "running",
           input[i] \in DOMAIN jobs[i].inputs, NextInput(i), files' = files,
           \/ jobs[i].inputs[input[i]].kind = "object"
           \/ input[i] \in Sources(jobs[i]) /\ Complete(i, input[i])
    PROVE  ChainInv(i)'
<1>1. /\ jobs' = jobs /\ status' = status /\ read' = read
      /\ input'[i] = input[i] + 1 /\ step'[i] = "pp0"
  BY Controls
<1>2. Len(jobs[i].inputs) \in Nat /\ DOMAIN jobs[i].inputs = 1..Len(jobs[i].inputs)
  BY JobFacts DEF TypeInv
<1>3. (~Rejected(i))' /\ input'[i] \in 1..(Len(jobs'[i].inputs) + 1)
  BY <1>1, <1>2, PrivateStays DEF RunningInv
<1>4. \A n, s : Partial(i, n, s) => Partial(i, n, s)'
  BY <1>1, PartialKept, OnlyNone DEF Kept
<1>5. ASSUME NEW n \in DOMAIN jobs[i].inputs, n < input'[i]
      PROVE  /\ jobs[i].inputs[n].kind \in {"source", "object"}
             /\ n \in Sources(jobs[i]) => Complete(i, n)'
  <2>1. n < input[i] \/ n = input[i]
    BY <1>1, <1>2, <1>5
  <2>2. CASE n < input[i]
    BY <2>2, <1>4 DEF RunningInv, Complete
  <2>3. CASE n = input[i]
    <3>1. jobs[i].inputs[n].kind \in {"source", "object"}
      BY <2>3 DEF Sources
    <3>2. n \in Sources(jobs[i]) => Complete(i, n)
      BY <2>3 DEF Sources
    <3> QED
      BY <3>1, <3>2, <1>4 DEF Complete
  <2> QED
    BY <2>1, <2>2, <2>3
<1>6. (\A n \in DOMAIN jobs[i].inputs :
          n < input[i] =>
            /\ jobs[i].inputs[n].kind \in {"source", "object"}
            /\ n \in Sources(jobs[i]) => Complete(i, n))'
  BY <1>1, <1>5 DEF Sources
<1>7. Partial(i, input[i], step[i])'
  BY <1>1 DEF Partial, LaterThan, AllKinds, Kinds
<1>8. RunningInv(i)'
  BY <1>3, <1>6, <1>7 DEF RunningInv
<1> QED
  BY <1>1, <1>8 DEF ChainInv

LEMMA LinkedOwn ==
    ASSUME TypeInv, ObjectsThere, NEW i \in Invocations, RunningInv(i), ~jobs[i].compile,
           input[i] = Len(jobs[i].inputs) + 1
    PROVE  Linked(i) = [n \in DOMAIN jobs[i].inputs |-> Contribution(i, n)]
<1> DEFINE job == jobs[i]
           objs == [n \in DOMAIN job.inputs |-> ObjectFile(job, job.inputs[n])]
<1>1. Len(job.inputs) \in Nat /\ DOMAIN job.inputs = 1..Len(job.inputs)
  BY JobFacts DEF TypeInv
<1>2. ASSUME NEW n \in DOMAIN job.inputs
      PROVE  files[objs[n]].from = Contribution(i, n)
  <2>1. job.inputs[n].kind \in {"source", "object"} /\ (n \in Sources(job) => Complete(i, n))
    BY <1>1 DEF RunningInv
  <2>2. CASE job.inputs[n].kind = "object"
    <3>1. objs[n] = SourceFile(job.inputs[n]) /\ n \notin Sources(job)
      BY <2>2 DEF ObjectFile, Sources
    <3>2. Holds(SourceFile(job.inputs[n]), "object", <<SourceFile(job.inputs[n]), 0>>)
      BY <2>2 DEF ObjectsThere
    <3> QED
      BY <3>1, <3>2 DEF Contribution, Holds, Content
  <2>3. CASE job.inputs[n].kind = "source"
    <3>1. objs[n] = Place(job, job.inputs[n], "o") /\ n \in Sources(job)
      BY <2>3 DEF ObjectFile, Sources, Place
    <3>2. "o" \in AllKinds /\ "return" \in LaterThan("o")
      BY DEF AllKinds, LaterThan
    <3>3. Holds(Place(job, job.inputs[n], "o"), "o", read[i][n])
      BY <2>1, <3>1, <3>2 DEF Complete, Partial
    <3> QED
      BY <3>1, <3>3 DEF Contribution, Holds, Content
  <2> QED
    BY <2>1, <2>2, <2>3
<1> QED
  BY <1>2 DEF Linked

LEMMA LinkOwn ==
    ASSUME TypeInv, ObjectsThere, NEW i \in Invocations, Private(i), RunningInv(i),
           status[i] = "running", Link(i)
    PROVE  ChainInv(i)'
<1> DEFINE job == jobs[i]
<1>1. Len(job.inputs) \in Nat /\ DOMAIN job.inputs = 1..Len(job.inputs)
      /\ NamesApart(job, job)
  BY JobFacts DEF TypeInv
<1>2. \A n \in Sources(job) : Complete(i, n)
  BY <1>1 DEF Link, RunningInv, Sources
<1>3. CASE job.compile
  <2>1. End(i, "ok") /\ files' = files
    BY <1>3 DEF Link
  <2>2. jobs' = jobs /\ read' = read /\ status'[i] = "ok"
    BY <2>1, Controls
  <2>3. \A n, s : Partial(i, n, s) => Partial(i, n, s)'
    BY <2>1, <2>2, PartialKept, OnlyNone DEF Kept
  <2>4. OkInv(i)'
    BY <1>2, <1>3, <2>2, <2>3 DEF OkInv, Complete, Sources
  <2> QED
    BY <2>2, <2>4 DEF ChainInv
<1>4. CASE ~job.compile /\ files' = With(Binary(job), Content("binary", Linked(i)))
           /\ End(i, "ok")
  <2> DEFINE from == [n \in DOMAIN job.inputs |-> Contribution(i, n)]
  <2>1. jobs' = jobs /\ read' = read /\ status'[i] = "ok"
    BY <1>4, Controls
  <2>2. Only({Binary(job)}) /\ Binary(job) \in DOMAIN files'
        /\ files'[Binary(job)] = Content("binary", Linked(i))
    BY <1>4, WithFacts
  <2>3. ASSUME NEW n \in Sources(job)
        PROVE  Complete(i, n)'
    <3>1. \A k \in AllKinds : Place(job, job.inputs[n], k) \in TemporariesOf(job)
      BY <1>4, PlacesMine DEF Place, AllKinds
    <3>2. \A g \in FilesOf(job, job.inputs[n]) : g \in TemporariesOf(job)
      BY <3>1, PlacesMine DEF FilesOf
    <3>3. Binary(job) \notin TemporariesOf(job)
      BY <1>1, <1>4 DEF NamesApart, Written
    <3>4. \A g \in FilesOf(job, job.inputs[n]) : Kept(g)
      BY <2>2, <3>2, <3>3 DEF Only
    <3> QED
      BY <1>2, <2>1, <3>4, PartialKept DEF Complete
  <2>4. Linked(i) = from
    BY <1>4, LinkedOwn DEF Link
  <2>5. from' = from /\ Binary(job)' = Binary(job)
    BY <2>1 DEF Contribution, Sources, SourceFile, Binary, AnOutput
  <2>6. Holds(Binary(job), "binary", from)'
    BY <2>2, <2>4, <2>5 DEF Holds, Content
  <2>7. OkInv(i)'
    BY <2>1, <2>3, <2>6 DEF OkInv, Sources
  <2> QED
    BY <2>1, <2>7 DEF ChainInv
<1>5. CASE End(i, "failed")
  BY <1>5, EndsFailed
<1> QED
  BY <1>3, <1>4, <1>5 DEF Link

LEMMA OwnStep ==
    ASSUME TypeInv, ObjectsThere, NEW i \in Invocations, ChainInv(i),
           Start(i) \/ CompilerStep(i) \/ OtherInput(i) \/ Link(i) \/ Again(i)
    PROVE  ChainInv(i)'
<1>1. jobs' = jobs
  BY StepOutside DEF Outside
<1> SUFFICES ASSUME Private(i)
             PROVE  ChainInv(i)'
  BY <1>1, PrivateStays DEF ChainInv
<1>2. CASE Start(i)
  <2>1. input'[i] = 1 /\ step'[i] = "pp0" /\ (~Rejected(i) \/ status'[i] = "failed")
        /\ status'[i] \in {"running", "failed"}
    BY <1>2 DEF Start, TypeInv
  <2>2. Len(jobs[i].inputs) \in Nat /\ DOMAIN jobs[i].inputs = 1..Len(jobs[i].inputs)
    BY JobFacts DEF TypeInv
  <2>3. Partial(i, input[i], step[i])'
    BY <2>1 DEF Partial, LaterThan, AllKinds, Kinds
  <2>4. ASSUME ~Rejected(i) PROVE RunningInv(i)'
    BY <1>1, <2>1, <2>2, <2>3, <2>4, PrivateStays DEF RunningInv
  <2> QED
    BY <2>1, <2>4 DEF ChainInv
<1>3. CASE Again(i)
  <2>1. status'[i] = "idle"
    BY <1>3 DEF Again, TypeInv
  <2> QED
    BY <2>1 DEF ChainInv
<1>4. CASE CompilerStep(i) \/ OtherInput(i) \/ Link(i)
  <2>1. status[i] = "running"
    BY <1>4 DEF CompilerStep, OtherInput, Link, Annotate, Preprocess, Rename, ProcessPragmas,
                Compile, Vectorize, Assemble, Return, At
  <2>2. RunningInv(i)
    BY <2>1 DEF ChainInv
  <2>3. \A k \in Kinds : k \in AllKinds /\ Place(jobs[i], In(i), k) = Temporary(jobs[i], In(i), k)
    BY DEF AllKinds, Kinds, Place
  <2>4. "o" \in AllKinds /\ Place(jobs[i], In(i), "o") = FinalName(jobs[i], In(i))
    BY DEF AllKinds, Place
  <2>5. CASE Annotate(i)
    BY <2>1, <2>2, <2>5, AnnotateOwn
  <2>6. CASE Preprocess(i)
    <3>1. At(i, "pp1") /\ Run(i, Pp0(In(i)), "pp1", Place(jobs[i], In(i), "pp1"), "rename")
      BY <2>3, <2>6 DEF Preprocess, Kinds
    <3>2. Holds(Pp0(In(i)), "pp0", read[i][input[i]])
      BY <2>2, <3>1, ChainAt
    <3>3. \A m \in AllKinds \ {"pp1"} : "rename" \in LaterThan(m) => "pp1" \in LaterThan(m)
      BY DEF LaterThan, AllKinds, Kinds
    <3>4. "rename" \in LaterThan("pp0") => "pp1" \in LaterThan("pp0")
      BY DEF LaterThan
    <3>5. "pp1" \in AllKinds /\ "rename" \in Steps
      BY DEF AllKinds, Kinds, Steps
    <3> QED
      BY <2>1, <2>2, <3>1, <3>2, <3>3, <3>4, <3>5, RunOwn
  <2>7. CASE Rename(i)
    BY <2>1, <2>2, <2>7, RenameOwn
  <2>8. CASE ProcessPragmas(i)
    <3>1. At(i, "pp2") /\ Run(i, Temporary(jobs[i], In(i), "pp1"), "pp2",
                              Place(jobs[i], In(i), "pp2"), "pre_vec")
      BY <2>3, <2>8 DEF ProcessPragmas, Run, Spoils, Kinds
    <3>2. Holds(Temporary(jobs[i], In(i), "pp1"), "pp1", read[i][input[i]])
      BY <2>2, <3>1, ChainAt DEF Kinds, LaterThan
    <3>3. \A m \in AllKinds \ {"pp2"} : "pre_vec" \in LaterThan(m) => "pp2" \in LaterThan(m)
      BY DEF LaterThan, AllKinds, Kinds
    <3>4. "pre_vec" \in LaterThan("pp0") => "pp2" \in LaterThan("pp0")
      BY DEF LaterThan
    <3>5. "pp2" \in AllKinds /\ "pre_vec" \in Steps
      BY DEF AllKinds, Kinds, Steps
    <3> QED
      BY <2>1, <2>2, <3>1, <3>2, <3>3, <3>4, <3>5, RunOwn
  <2>9. CASE Compile(i)
    <3>1. At(i, "pre_vec") /\ Run(i, Temporary(jobs[i], In(i), "pp2"), "pre_vec",
                                  Place(jobs[i], In(i), "pre_vec"), "post_vec")
      BY <2>3, <2>9 DEF Compile, Kinds
    <3>2. Holds(Temporary(jobs[i], In(i), "pp2"), "pp2", read[i][input[i]])
      BY <2>2, <3>1, ChainAt DEF Kinds, LaterThan
    <3>3. \A m \in AllKinds \ {"pre_vec"} : "post_vec" \in LaterThan(m) => "pre_vec" \in LaterThan(m)
      BY DEF LaterThan, AllKinds, Kinds
    <3>4. "post_vec" \in LaterThan("pp0") => "pre_vec" \in LaterThan("pp0")
      BY DEF LaterThan
    <3>5. "pre_vec" \in AllKinds /\ "post_vec" \in Steps
      BY DEF AllKinds, Kinds, Steps
    <3> QED
      BY <2>1, <2>2, <3>1, <3>2, <3>3, <3>4, <3>5, RunOwn
  <2>10. CASE Vectorize(i)
    <3>1. At(i, "post_vec") /\ Run(i, Temporary(jobs[i], In(i), "pre_vec"), "post_vec",
                                   Place(jobs[i], In(i), "post_vec"), "o")
      BY <2>3, <2>10 DEF Vectorize, Kinds
    <3>2. Holds(Temporary(jobs[i], In(i), "pre_vec"), "pre_vec", read[i][input[i]])
      BY <2>2, <3>1, ChainAt DEF Kinds, LaterThan
    <3>3. \A m \in AllKinds \ {"post_vec"} : "o" \in LaterThan(m) => "post_vec" \in LaterThan(m)
      BY DEF LaterThan, AllKinds, Kinds
    <3>4. "o" \in LaterThan("pp0") => "post_vec" \in LaterThan("pp0")
      BY DEF LaterThan
    <3>5. "post_vec" \in AllKinds /\ "o" \in Steps
      BY DEF AllKinds, Kinds, Steps
    <3> QED
      BY <2>1, <2>2, <3>1, <3>2, <3>3, <3>4, <3>5, RunOwn
  <2>11. CASE Assemble(i)
    <3>1. At(i, "o") /\ Run(i, Temporary(jobs[i], In(i), "post_vec"), "o",
                            Place(jobs[i], In(i), "o"), "return")
      BY <2>4, <2>11 DEF Assemble
    <3>2. Holds(Temporary(jobs[i], In(i), "post_vec"), "post_vec", read[i][input[i]])
      BY <2>2, <3>1, ChainAt DEF Kinds, LaterThan
    <3> QED
      BY <2>1, <2>2, <2>4, <3>1, <3>2, RunOwn DEF Steps, LaterThan, AllKinds, Kinds
  <2>12. CASE Return(i)
    <3>1. input[i] \in Sources(jobs[i]) /\ step[i] = "return"
      BY <2>12, AtFacts DEF Return, At
    <3>2. Complete(i, input[i])
      BY <2>2, <3>1 DEF RunningInv, Complete
    <3> QED
      BY <2>1, <2>2, <2>12, <3>1, <3>2, NextOwn DEF Return, Sources
  <2>13. CASE OtherInput(i)
    BY <2>1, <2>2, <2>13, NextOwn, EndsFailed DEF OtherInput, In
  <2>14. CASE Link(i)
    BY <2>1, <2>2, <2>14, LinkOwn
  <2> QED
    BY <1>4, <2>5, <2>6, <2>7, <2>8, <2>9, <2>10, <2>11, <2>12, <2>13, <2>14 DEF CompilerStep
<1> QED
  BY <1>2, <1>3, <1>4

-----------------------------------------------------------------------------
(* The invariant *)

LEMMA InitInv == Init => IInv
<1> SUFFICES ASSUME Init PROVE IInv
  OBVIOUS
<1>1. TypeInv
  BY DEF Init, TypeInv, Steps
<1>2. ObjectsThere
  <2> SUFFICES ASSUME NEW i \in Invocations, NEW n \in DOMAIN jobs[i].inputs,
                      jobs[i].inputs[n].kind = "object"
               PROVE  Holds(SourceFile(jobs[i].inputs[n]), "object",
                            <<SourceFile(jobs[i].inputs[n]), 0>>)
    BY DEF ObjectsThere
  <2> DEFINE in == jobs[i].inputs[n]
             f == SourceFile(in)
             named == UNION {{jobs[k].inputs[m] : m \in DOMAIN jobs[k].inputs} : k \in Invocations}
             one == CHOOSE x \in named : SourceFile(x) = f
  <2>1. in \in named
    OBVIOUS
  <2>2. one \in named /\ SourceFile(one) = f
    BY <2>1
  <2>3. PICK k \in Invocations : \E m \in DOMAIN jobs[k].inputs : one = jobs[k].inputs[m]
    BY <2>2
  <2>4. one.kind = in.kind
    <3>1. PICK m \in DOMAIN jobs[k].inputs : one = jobs[k].inputs[m]
      BY <2>3
    <3>2. SourceFile(jobs[k].inputs[m]) = SourceFile(jobs[i].inputs[n])
      BY <2>2, <3>1
    <3>3. jobs[k].inputs[m].kind = jobs[i].inputs[n].kind
      BY <3>2, <1>1, PipelineAssumption DEF TypeInv
    <3> QED
      BY <3>3, <3>1
  <2>5. f \in DOMAIN files /\ files[f] = Content(one.kind, <<f, 0>>)
    BY <2>1 DEF Init, InitialFiles
  <2> QED
    BY <2>4, <2>5 DEF Holds
<1>3. \A i \in Invocations : ChainInv(i)
  BY DEF Init, ChainInv
<1> QED
  BY <1>1, <1>2, <1>3 DEF IInv

LEMMA EditInv ==
    ASSUME IInv, NEW f \in DOMAIN files, Edit(f)
    PROVE  IInv'
<1>1. files[f].kind = "source" /\ UNCHANGED <<jobs, status, input, step, read>>
  BY DEF Edit
<1>2. DOMAIN files' = DOMAIN files /\ \A g \in DOMAIN files : g # f => files'[g] = files[g]
  BY DEF Edit
<1>3. Only({})
  BY <1>1, <1>2 DEF Only, Kept
<1>4. TypeInv'
  BY <1>1 DEF IInv, TypeInv
<1>5. ASSUME NEW i \in Invocations PROVE ChainInv(i)'
  <2>1. Undisturbed(i)
    BY <1>1, <1>3 DEF Undisturbed, Only
  <2> QED
    BY <2>1, UndisturbedKeeps DEF IInv
<1>6. ObjectsThere'
  <2> SUFFICES ASSUME NEW i \in Invocations, NEW n \in DOMAIN jobs[i].inputs,
                      jobs[i].inputs[n].kind = "object"
               PROVE  Holds(SourceFile(jobs[i].inputs[n]), "object",
                            <<SourceFile(jobs[i].inputs[n]), 0>>)'
    BY <1>1 DEF ObjectsThere
  <2> DEFINE g == SourceFile(jobs[i].inputs[n])
  <2>1. Holds(g, "object", <<g, 0>>)
    BY DEF IInv, ObjectsThere
  <2>2. Kept(g)
    BY <1>3 DEF Only
  <2>3. g \in DOMAIN files' /\ files'[g] = Content("object", <<g, 0>>)
    BY <2>1, <2>2 DEF Holds, Kept, Content
  <2>4. g' = g
    BY <1>1 DEF SourceFile
  <2> QED
    BY <2>3, <2>4 DEF Holds, Content
<1> QED
  BY <1>4, <1>5, <1>6 DEF IInv

LEMMA StepInv == IInv /\ [Next]_vars => IInv'
<1> SUFFICES ASSUME IInv, [Next]_vars PROVE IInv'
  OBVIOUS
<1>1. ASSUME NEW j \in Invocations,
             Start(j) \/ CompilerStep(j) \/ OtherInput(j) \/ Link(j) \/ Again(j)
      PROVE  IInv'
  <2>1. TypeInv' /\ Outside(j)
    BY <1>1, StepOutside DEF IInv
  <2>2. ObjectsThere'
    BY <2>1, ObjectsKept DEF IInv, Outside
  <2>3. ASSUME NEW i \in Invocations \ {j}, Private(i) PROVE ChainInv(i)'
    <3>1. \A g \in Mine(jobs[i]) : Kept(g)
      BY <2>1, <2>3, OthersApart DEF IInv, TypeInv, Outside, Only
    <3>2. Undisturbed(i)
      BY <2>1, <3>1 DEF Outside, Undisturbed
    <3> QED
      BY <3>2, UndisturbedKeeps DEF IInv
  <2>4. ASSUME NEW i \in Invocations \ {j} PROVE ChainInv(i)'
    BY <2>1, <2>3, PrivateStays DEF Outside, ChainInv
  <2>5. ChainInv(j)'
    BY <1>1, OwnStep DEF IInv
  <2> QED
    BY <2>1, <2>2, <2>4, <2>5 DEF IInv
<1>2. ASSUME NEW f \in DOMAIN files, Edit(f) PROVE IInv'
  BY <1>2, EditInv
<1>3. CASE UNCHANGED vars
  <2>1. TypeInv' /\ ObjectsThere'
    BY <1>3 DEF vars, IInv, TypeInv, ObjectsThere, Holds, SourceFile, Content
  <2>2. \A i \in Invocations : Undisturbed(i)
    BY <1>3 DEF vars, Undisturbed, Kept
  <2>3. \A i \in Invocations : ChainInv(i)'
    BY <2>2, UndisturbedKeeps DEF IInv
  <2> QED
    BY <2>1, <2>3 DEF IInv
<1> QED
  BY <1>1, <1>2, <1>3 DEF Next

LEMMA Invariance == Spec => []IInv
<1>1. Init => IInv
  BY InitInv
<1>2. IInv /\ [Next]_vars => IInv'
  BY StepInv
<1> QED
  BY <1>1, <1>2, PTL DEF Spec

-----------------------------------------------------------------------------
\* An invocation that reports success has made its result from its own
\* inputs as it read them, whatever other invocations, edits, failures and
\* earlier attempts did (parsimony.py:42-43, 398-453, 495-513).
THEOREM ResultIsOwn == Spec => []OwnResult
<1>1. IInv => OwnResult
  <2> SUFFICES ASSUME IInv, NEW i \in Invocations, status[i] = "ok", Private(i)
               PROVE  IF jobs[i].compile
                      THEN \A n \in Sources(jobs[i]) :
                             Is(FinalName(jobs[i], jobs[i].inputs[n]), Content("o", read[i][n]))
                      ELSE Is(Binary(jobs[i]),
                              Content("binary", [n \in DOMAIN jobs[i].inputs |-> Contribution(i, n)]))
    BY DEF OwnResult
  <2>1. OkInv(i)
    BY DEF IInv, ChainInv
  <2>2. "o" \in AllKinds /\ "return" \in LaterThan("o")
    BY DEF AllKinds, LaterThan
  <2>3. ASSUME NEW n \in Sources(jobs[i])
        PROVE  Is(FinalName(jobs[i], jobs[i].inputs[n]), Content("o", read[i][n]))
    BY <2>1, <2>2 DEF OkInv, Complete, Partial, Holds, Place, Is, Exists
  <2> QED
    BY <2>1, <2>3 DEF OkInv, Holds, Is, Exists
<1> QED
  BY <1>1, Invariance, PTL

\* After success the temporary directory has the intermediate files of this
\* attempt, and the working directory none (parsimony.py:411-420).
THEOREM TemporariesRight == Spec => []TemporariesMatch
<1>1. IInv => TemporariesMatch
  <2> SUFFICES ASSUME IInv, NEW i \in Invocations, status[i] = "ok", Private(i),
                      NEW n \in Sources(jobs[i])
               PROVE  LET in == jobs[i].inputs[n]
                      IN  /\ ~Exists(Pp0(in))
                          /\ \A k \in Kinds :
                                Is(Temporary(jobs[i], in, k), Content(k, read[i][n]))
    BY DEF TemporariesMatch
  <2>1. Complete(i, n)
    BY DEF IInv, ChainInv, OkInv
  <2>2. "return" \in LaterThan("pp0")
    BY DEF LaterThan
  <2>3. \A k \in Kinds : /\ k \in AllKinds /\ "return" \in LaterThan(k)
                        /\ Place(jobs[i], jobs[i].inputs[n], k)
                               = Temporary(jobs[i], jobs[i].inputs[n], k)
    BY DEF AllKinds, Kinds, LaterThan, Place
  <2> QED
    BY <2>1, <2>2, <2>3 DEF Complete, Partial, Holds, Exists, Is
<1> QED
  BY <1>1, Invariance, PTL
=============================================================================
