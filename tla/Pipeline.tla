------------------------------- MODULE Pipeline -------------------------------
(***************************************************************************)
(* The driver (parsimony.py): main takes the inputs of a command line in   *)
(* turn, run_compiler_steps makes each of them an object through a chain   *)
(* of files, and the last step links them.  Several invocations may run in *)
(* one working directory ("make -j" in src/apps), sources change, any      *)
(* program that is run may fail, and a failed invocation is tried again.   *)
(*                                                                         *)
(* A file is its directory, its base name and a suffix.  Its content is    *)
(* the kind of file it is and the sources, with their versions, that it    *)
(* was made from.                                                          *)
(***************************************************************************)
EXTENDS Naturals, Sequences

CONSTANTS
    Invocations,
    CommandLines,  \* functions from Invocations to records of
                   \*   inputs   a sequence of [dir, base, kind], the kind
                   \*            being "source", "object" or "unknown"
                   \*   compile  -c
                   \*   output   the file behind -o, or NoOutput
                   \*   tmp      the directory behind --Xtmp, or "tmp"
    Cwd, NoOutput,
    MaxRetries,    \* how often invocations are made again
    MaxEdits       \* how often a source changes

SourceFile(in) == <<in.dir, in.base, "">>
AnOutput(job) == job.output # NoOutput
Sources(job) == {n \in DOMAIN job.inputs : job.inputs[n].kind = "source"}

\* The one temporary file that is not in the temporary directory.
Pp0(in) == <<Cwd, in.base, "pp0">>
Temporary(job, in, kind) == <<job.tmp, in.base, kind>>

FinalName(job, in) ==
    IF ~job.compile THEN Temporary(job, in, "o")
    ELSE IF AnOutput(job) THEN job.output ELSE <<in.dir, in.base, "o">>

Binary(job) == IF AnOutput(job) THEN job.output ELSE <<Cwd, "a.out", "">>

\* An object that is linked: an input, or what run_compiler_steps returned.
ObjectFile(job, in) == IF in.kind = "object" THEN SourceFile(in) ELSE FinalName(job, in)

Kinds == {"pp0", "pp1", "pp2", "pre_vec", "post_vec"}

InputsOf(job) == {SourceFile(job.inputs[n]) : n \in DOMAIN job.inputs}

TemporariesOf(job) ==
    {Pp0(job.inputs[n]) : n \in Sources(job)} \cup
    {Temporary(job, job.inputs[n], k) : n \in Sources(job), k \in Kinds \cup {"o"}}

Written(job) ==
    IF job.compile THEN {FinalName(job, job.inputs[n]) : n \in Sources(job)}
    ELSE {Binary(job)}

\* Command lines do not ask for results in the place of inputs or of
\* temporary files, nor for temporary files in the working directory.
NamesApart(job, other) ==
    /\ InputsOf(job) \cap (TemporariesOf(other) \cup Written(other)) = {}
    /\ TemporariesOf(job) \cap Written(other) = {}

ASSUME PipelineAssumption ==
    \A lines \in CommandLines : \A i \in Invocations :
        /\ lines[i].inputs \in Seq({lines[i].inputs[n] : n \in DOMAIN lines[i].inputs})
        /\ lines[i].compile \in BOOLEAN
        /\ lines[i].tmp # Cwd
        /\ \A j \in Invocations :
              /\ NamesApart(lines[i], lines[j])
              /\ \A m \in DOMAIN lines[i].inputs, n \in DOMAIN lines[j].inputs :
                    SourceFile(lines[i].inputs[m]) = SourceFile(lines[j].inputs[n])
                        => lines[i].inputs[m].kind = lines[j].inputs[n].kind

VARIABLES
    jobs,      \* the command lines
    files,     \* file -> content, of those that exist
    status,    \* "idle", "running", "ok" or "failed"
    input,     \* the input main is at
    step,      \* what is done next with it
    read,      \* invocation -> input -> the version it was made from
    retries

vars == <<jobs, files, status, input, step, read, retries>>

In(i) == jobs[i].inputs[input[i]]

Content(kind, from) == [kind |-> kind, from |-> from]
Broken == Content("broken", <<>>)

Exists(f) == f \in DOMAIN files
Usable(f) == Exists(f) /\ files[f] # Broken
With(f, c) == [g \in DOMAIN files \cup {f} |-> IF g = f THEN c ELSE files[g]]

-----------------------------------------------------------------------------
At(i, s) ==
    /\ status[i] = "running"
    /\ input[i] \in DOMAIN jobs[i].inputs
    /\ In(i).kind = "source"
    /\ step[i] = s

GoTo(i, s) ==
    /\ step' = [step EXCEPT ![i] = s]
    /\ UNCHANGED <<jobs, status, input, read, retries>>

NextInput(i) ==
    /\ input' = [input EXCEPT ![i] = @ + 1]
    /\ step' = [step EXCEPT ![i] = "pp0"]
    /\ UNCHANGED <<jobs, status, read, retries>>

\* sys.exit, or an exception: what has been written stays
End(i, result) ==
    /\ status' = [status EXCEPT ![i] = result]
    /\ UNCHANGED <<jobs, input, step, read, retries>>

\* What a program that fails may have done to its output; a file that it
\* has removed is of as little use as a broken one.
Spoils(f) == files' \in {files, With(f, Broken)}

\* run: a program makes one file from another, or the invocation ends.
RunUnchecked(i, from, kind, to, next) ==
    \/ /\ Usable(from)
       /\ files' = With(to, Content(kind, files[from].from))
       /\ GoTo(i, next)
    \/ Spoils(to) /\ GoTo(i, next)

Run(i, from, kind, to, next) ==
    \/ /\ Usable(from)
       /\ files' = With(to, Content(kind, files[from].from))
       /\ GoTo(i, next)
    \/ Spoils(to) /\ End(i, "failed")

-----------------------------------------------------------------------------
(* main *)

Rejected(i) ==
    \/ jobs[i].inputs = <<>>
    \/ Len(jobs[i].inputs) > 1 /\ AnOutput(jobs[i]) /\ jobs[i].compile

Start(i) ==
    /\ status[i] = "idle"
    /\ IF Rejected(i) THEN status' = [status EXCEPT ![i] = "failed"]
       ELSE status' = [status EXCEPT ![i] = "running"]
    /\ input' = [input EXCEPT ![i] = 1]
    /\ step' = [step EXCEPT ![i] = "pp0"]
    /\ UNCHANGED <<jobs, files, read, retries>>

OtherInput(i) ==
    /\ status[i] = "running"
    /\ input[i] \in DOMAIN jobs[i].inputs
    /\ \/ In(i).kind = "object" /\ NextInput(i)
       \/ In(i).kind = "unknown" /\ End(i, "failed")
    /\ UNCHANGED files

Linked(i) ==
    LET objs == [n \in DOMAIN jobs[i].inputs |-> ObjectFile(jobs[i], jobs[i].inputs[n])]
    IN  [n \in DOMAIN objs |-> files[objs[n]].from]

Link(i) ==
    /\ status[i] = "running"
    /\ input[i] = Len(jobs[i].inputs) + 1
    /\ IF jobs[i].compile THEN End(i, "ok") /\ UNCHANGED files
       ELSE \/ /\ \A n \in DOMAIN jobs[i].inputs : Usable(ObjectFile(jobs[i], jobs[i].inputs[n]))
               /\ files' = With(Binary(jobs[i]), Content("binary", Linked(i)))
               /\ End(i, "ok")
            \/ Spoils(Binary(jobs[i])) /\ End(i, "failed")

-----------------------------------------------------------------------------
(* run_compiler_steps *)

\* process_psim_annotations reads the source.
Annotate(i) ==
    LET from == files[SourceFile(In(i))].from
    IN  /\ At(i, "pp0")
        /\ files' = With(Pp0(In(i)), Content("pp0", from))
        /\ read' = [read EXCEPT ![i][input[i]] = from]
        /\ step' = [step EXCEPT ![i] = "pp1"]
        /\ UNCHANGED <<jobs, status, input, retries>>

Preprocess(i) ==
    At(i, "pp1") /\ Run(i, Pp0(In(i)), "pp1", Temporary(jobs[i], In(i), "pp1"), "rename")

Moved(i) == With(Temporary(jobs[i], In(i), "pp0"), files[Pp0(In(i))])

RenameForgotten(i) == At(i, "rename") /\ GoTo(i, "pp2") /\ UNCHANGED files

Rename(i) ==
    /\ At(i, "rename")
    /\ IF Exists(Pp0(In(i)))
       THEN /\ files' = [f \in DOMAIN Moved(i) \ {Pp0(In(i))} |-> Moved(i)[f]]
            /\ GoTo(i, "pp2")
       ELSE End(i, "failed") /\ UNCHANGED files

\* process_omp_psim_pragmas writes its file last.
ProcessPragmas(i) ==
    /\ At(i, "pp2")
    /\ \/ /\ Usable(Temporary(jobs[i], In(i), "pp1"))
          /\ files' = With(Temporary(jobs[i], In(i), "pp2"),
                           Content("pp2", files[Temporary(jobs[i], In(i), "pp1")].from))
          /\ GoTo(i, "pre_vec")
       \/ End(i, "failed") /\ UNCHANGED files

Compile(i) ==
    /\ At(i, "pre_vec")
    /\ Run(i, Temporary(jobs[i], In(i), "pp2"),
              "pre_vec", Temporary(jobs[i], In(i), "pre_vec"), "post_vec")

Vectorize(i) ==
    /\ At(i, "post_vec")
    /\ Run(i, Temporary(jobs[i], In(i), "pre_vec"),
              "post_vec", Temporary(jobs[i], In(i), "post_vec"), "o")

Assemble(i) ==
    /\ At(i, "o")
    /\ Run(i, Temporary(jobs[i], In(i), "post_vec"), "o", FinalName(jobs[i], In(i)), "return")

Return(i) == At(i, "return") /\ NextInput(i) /\ UNCHANGED files

-----------------------------------------------------------------------------
(* What is around it: an editor, and the user or make *)

Edit(f) ==
    /\ Exists(f) /\ files[f].kind = "source"
    /\ files[f].from[2] < MaxEdits
    /\ files' = [files EXCEPT ![f].from[2] = @ + 1]
    /\ UNCHANGED <<jobs, status, input, step, read, retries>>

Again(i) ==
    /\ status[i] \in {"ok", "failed"}
    /\ retries < MaxRetries
    /\ retries' = retries + 1
    /\ status' = [status EXCEPT ![i] = "idle"]
    /\ UNCHANGED <<jobs, files, input, step, read>>

\* What the command lines name is there, and nothing else.
InitialFiles(job) ==
    LET named == UNION {{job[i].inputs[n] : n \in DOMAIN job[i].inputs} : i \in Invocations}
        kind(f) == (CHOOSE in \in named : SourceFile(in) = f).kind
    IN  [f \in {SourceFile(in) : in \in named} |-> Content(kind(f), <<f, 0>>)]

Init ==
    /\ jobs \in CommandLines
    /\ files = InitialFiles(jobs)
    /\ status = [i \in Invocations |-> "idle"]
    /\ input = [i \in Invocations |-> 1]
    /\ step = [i \in Invocations |-> "pp0"]
    /\ read = [i \in Invocations |-> [n \in DOMAIN jobs[i].inputs |-> <<>>]]
    /\ retries = 0

CompilerStep(i) ==
    \/ Annotate(i) \/ Preprocess(i) \/ Rename(i) \/ ProcessPragmas(i)
    \/ Compile(i) \/ Vectorize(i) \/ Assemble(i) \/ Return(i)

Next ==
    \/ \E i \in Invocations : Start(i) \/ CompilerStep(i) \/ OtherInput(i) \/ Link(i) \/ Again(i)
    \/ \E f \in DOMAIN files : Edit(f)

Spec == Init /\ [][Next]_vars

-----------------------------------------------------------------------------
(* Properties *)

BasesOf(job) == {job.inputs[n].base : n \in Sources(job)}

\* No two sources that are compiled in this directory have the same base
\* name, and no two invocations make the same file.
Private(i) ==
    /\ \A m, n \in Sources(jobs[i]) : m # n => jobs[i].inputs[m].base # jobs[i].inputs[n].base
    /\ \A j \in Invocations \ {i} :
          /\ BasesOf(jobs[i]) \cap BasesOf(jobs[j]) = {}
          /\ Written(jobs[i]) \cap Written(jobs[j]) = {}

Is(f, c) == Exists(f) /\ files[f] = c

\* What input n of invocation i contributes to its result.
Contribution(i, n) ==
    IF n \in Sources(jobs[i]) THEN read[i][n] ELSE <<SourceFile(jobs[i].inputs[n]), 0>>

\* An invocation that reports success has made what it was asked to make,
\* from its own inputs as it read them: every object from its source, the
\* binary from all inputs in their order; and never from files that an
\* earlier attempt, a step that failed or another invocation left behind
\* (parsimony.py:42-43, 398-453, 495-513).  Invocations that share base
\* names do disturb each other (README, Limits).
OwnResult ==
    \A i \in Invocations : status[i] = "ok" /\ Private(i) =>
        IF jobs[i].compile
        THEN \A n \in Sources(jobs[i]) :
                Is(FinalName(jobs[i], jobs[i].inputs[n]), Content("o", read[i][n]))
        ELSE Is(Binary(jobs[i]),
                Content("binary", [n \in DOMAIN jobs[i].inputs |-> Contribution(i, n)]))

\* After success the temporary directory has the intermediate files of this
\* attempt, all of them, for whoever debugs it; and the working directory has
\* none, although the first of them is made there (parsimony.py:411-420;
\* src/compiler/README.md:15).
TemporariesMatch ==
    \A i \in Invocations : status[i] = "ok" /\ Private(i) =>
        \A n \in Sources(jobs[i]) :
            LET in == jobs[i].inputs[n]
            IN  /\ ~Exists(Pp0(in))
                /\ \A k \in Kinds : Is(Temporary(jobs[i], in, k), Content(k, read[i][n]))
===============================================================================
