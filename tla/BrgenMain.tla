------------------------------ MODULE BrgenMain ------------------------------
(***************************************************************************)
(* main() of the brgen driver (src/src/tool/brgen/main.go) on top of the   *)
(* pipeline: reporter goroutines drain Recv(), count results and errors    *)
(* and start a goroutine per file to write; main waits for all of them,    *)
(* writes the test info file and exits.                                    *)
(***************************************************************************)
EXTENDS GeneratorHandler

CONSTANTS
    Reporters,    \* three in the code
    StdoutGens,   \* generators whose output_dir is /dev/stdout
    Dirs, Names, Suffixes,
    OutputDir,    \* [Gens -> Dirs]: output_dir, which generators may share
    BaseOf,       \* [Files -> Names]: the base name of a source without its
                  \* extension; files of two directories may share one
    SpecSuffix,   \* the suffixes of a generator's spec, in order
    ReplyName,    \* resp.Name of each reply of a stdin_stream generator
    OldPaths,     \* where a file of an earlier run is
    TestInfo      \* -test-info is given

ASSUME MainAssumption ==
    /\ IsFiniteSet(Reporters) /\ Reporters # {}
    /\ StdoutGens \subseteq Gens
    /\ OutputDir \in [Gens -> Dirs]
    /\ BaseOf \in [Files -> Names]
    /\ SpecSuffix \in [Gens -> [1..MaxMsgs -> Suffixes]]
    /\ ReplyName \in [Files -> [Gens -> [1..MaxMsgs -> Names \X Suffixes]]]
    /\ OldPaths \subseteq Dirs \X (Names \X Suffixes)
    /\ TestInfo \in BOOLEAN

VARIABLES
    holding,      \* [Reporters -> Seq(Results)]: the result being handled
    reporting,    \* reporters still ranging over the channel
    wg,           \* the WaitGroup main waits for
    total, errs,  \* totalCount, errCount
    writers,      \* [OutTasks -> WriterStages]
    content,      \* [path -> what the file holds]
    main,         \* "wait" | "info" | "exited"
    info,         \* the test info written, if any
    status        \* the exit status

reporterVars == <<holding, reporting, total, errs>>
writerVars == <<writers, content>>
mainVars == <<main, info, status>>
allVars == <<vars, reporterVars, wg, writerVars, mainVars>>

\* As in GeneratorHandler, ...Mutant names an error a property must catch.
\* The file name of an output, and its path: a generator that runs once per
\* file appends the k-th suffix of its spec to the base name of the source,
\* which does not tell directories apart; a stdin_stream generator names the
\* file itself.  Nothing makes the paths of two outputs differ.
FileName(f, g, k) ==
    IF g \in Streaming THEN ReplyName[f][g][k] ELSE <<BaseOf[f], SpecSuffix[g][k]>>
OutputPath(t) == <<OutputDir[t[3]], FileName(t[2], t[3], t[4])>>
OutputPaths == {OutputPath(t) : t \in OutTasks}

WriterStages == {"none", "create", "write", "done", "failed"}

\* What a path holds: no file, one of an earlier run, an empty one, the output
\* of a task, or a part of one or of several outputs.
Absent == <<"absent">>
Stale == <<"stale">>
Empty == <<"empty">>
Torn == <<"torn">>
NoInfo == [total |-> 0, errors |-> 0, files |-> {}]

MainInit ==
    /\ Init
    /\ holding = [r \in Reporters |-> <<>>]
    /\ reporting = Reporters
    /\ wg = Cardinality(Reporters)
    /\ total = 0 /\ errs = 0
    /\ writers = [t \in OutTasks |-> "none"]
    /\ content = [q \in OutputPaths |-> IF q \in OldPaths THEN Stale ELSE Absent]
    /\ main = "wait" /\ info = NoInfo /\ status = 0

-----------------------------------------------------------------------------
(* Reporters.                                                              *)

Take(r) ==
    /\ r \in reporting /\ holding[r] = <<>>
    /\ Recv
    /\ holding' = [holding EXCEPT ![r] = <<Head(queue)>>]
    /\ UNCHANGED <<reporting, wg, total, errs, writerVars, mainVars>>

Release(r) == holding' = [holding EXCEPT ![r] = <<>>]
WritesFile(x) == ~x.err /\ x.task[3] \notin StdoutGens

ReportMutant(r) ==
    /\ holding[r] # <<>>
    /\ LET x == Head(holding[r]) IN
        /\ ~WritesFile(x)
        /\ errs' = IF x.err THEN errs + 1 ELSE errs
        /\ total' = IF x.err THEN total ELSE total + 1
    /\ Release(r)
    /\ UNCHANGED <<vars, reporting, wg, writerVars, mainVars>>

\* An error is counted and printed; an output for stdout is printed.
Report(r) ==
    /\ holding[r] # <<>>
    /\ LET x == Head(holding[r]) IN
        /\ ~WritesFile(x)
        /\ errs' = IF x.err THEN errs + 1 ELSE errs
    /\ total' = total + 1
    /\ Release(r)
    /\ UNCHANGED <<vars, reporting, wg, writerVars, mainVars>>

StartWriterMutant(r) ==
    /\ holding[r] # <<>> /\ WritesFile(Head(holding[r]))
    /\ writers' = [writers EXCEPT ![Head(holding[r]).task] = "create"]
    /\ total' = total + 1
    /\ Release(r)
    /\ UNCHANGED <<vars, reporting, errs, wg, content, mainVars>>

\* MkdirAll succeeded: wg.Add(1) and a goroutine that writes the file.
StartWriter(r) ==
    /\ holding[r] # <<>>
    /\ LET x == Head(holding[r]) IN
        /\ WritesFile(x)
        /\ writers' = [writers EXCEPT ![x.task] = "create"]
    /\ total' = total + 1
    /\ wg' = wg + 1
    /\ Release(r)
    /\ UNCHANGED <<vars, reporting, errs, content, mainVars>>

\* MkdirAll failed: log.Fatal ends the process, whatever else is running.
Fatal(r) ==
    /\ holding[r] # <<>>
    /\ WritesFile(Head(holding[r]))
    /\ total' = total + 1
    /\ main' = "exited" /\ status' = 1
    /\ UNCHANGED <<vars, holding, reporting, errs, wg, writerVars, info>>

ReporterEnds(r) ==
    /\ r \in reporting /\ holding[r] = <<>> /\ Drained
    /\ reporting' = reporting \ {r}
    /\ wg' = wg - 1
    /\ UNCHANGED <<vars, holding, total, errs, writerVars, mainVars>>

-----------------------------------------------------------------------------
(* Writers.                                                                *)

CreateMutant(t) ==
    /\ writers[t] = "create"
    /\ writers' = [writers EXCEPT ![t] = "write"]
    /\ content' = [content EXCEPT ![OutputPath(t)] = IF @ = Absent THEN Empty ELSE @]
    /\ UNCHANGED <<vars, reporterVars, wg, mainVars>>

\* os.Create: the file is there and empty, whatever it held.
Create(t) ==
    /\ writers[t] = "create"
    /\ writers' = [writers EXCEPT ![t] = "write"]
    /\ content' = [content EXCEPT ![OutputPath(t)] = Empty]
    /\ UNCHANGED <<vars, reporterVars, wg, mainVars>>

\* fp.Write at offset 0.  Bytes another writer put there since remain behind
\* a shorter text.
Write(t) ==
    /\ writers[t] = "write"
    /\ writers' = [writers EXCEPT ![t] = "done"]
    /\ \E c \in IF content[OutputPath(t)] = Empty THEN {t} ELSE {t, Torn} :
        content' = [content EXCEPT ![OutputPath(t)] = c]
    /\ wg' = wg - 1
    /\ UNCHANGED <<vars, reporterVars, mainVars>>

WriterFailsMutant(t) ==
    /\ writers[t] \in {"create", "write"}
    /\ writers' = [writers EXCEPT ![t] = "failed"]
    /\ wg' = wg - 2
    /\ UNCHANGED <<vars, reporterVars, content, mainVars>>

WriterRetriesMutant(t) ==
    /\ writers[t] = "write"
    /\ writers' = [writers EXCEPT ![t] = "create"]
    /\ UNCHANGED <<vars, reporterVars, wg, content, mainVars>>

\* Create fails, or Write does and may have written a part: the error is
\* printed and not counted.
WriterFails(t) ==
    /\ \/ writers[t] = "create" /\ UNCHANGED content
       \/ /\ writers[t] = "write"
          /\ \E c \in {content[OutputPath(t)], Torn} :
                content' = [content EXCEPT ![OutputPath(t)] = c]
    /\ writers' = [writers EXCEPT ![t] = "failed"]
    /\ wg' = wg - 1
    /\ UNCHANGED <<vars, reporterVars, mainVars>>

-----------------------------------------------------------------------------
(* main.                                                                   *)

WaitReturns ==
    /\ main = "wait" /\ wg = 0
    /\ main' = "info"
    /\ UNCHANGED <<vars, reporterVars, wg, writerVars, info, status>>

\* If it is asked for, the test info file is written from the counters and
\* g.dirBaseSuffix, which the collector may not be done with; the deferred
\* os.Exit runs with the exitCode of the moment of the defer.
ExitCodeAtDefer == 0
WriteInfo ==
    /\ main = "info"
    /\ info' = IF TestInfo
               THEN [total |-> total, errors |-> errs, files |-> dirBaseSuffix]
               ELSE info
    /\ main' = "exited"
    /\ status' = ExitCodeAtDefer
    /\ UNCHANGED <<vars, reporterVars, wg, writerVars>>

\* Creating the test info file or encoding into it fails: log.Fatal.
InfoFails ==
    /\ main = "info" /\ TestInfo
    /\ main' = "exited" /\ status' = 1
    /\ UNCHANGED <<vars, reporterVars, wg, writerVars, info>>

ReporterStep(r) ==
    Take(r) \/ Report(r) \/ StartWriter(r) \/ ReporterEnds(r)

WriterStep(t) == Create(t) \/ Write(t) \/ WriterFails(t)

MainStep ==
    \/ PipelineStep /\ UNCHANGED <<reporterVars, wg, writerVars, mainVars>>
    \/ \E r \in Reporters : ReporterStep(r) \/ Fatal(r)
    \/ \E t \in OutTasks : WriterStep(t)
    \/ WaitReturns \/ WriteInfo \/ InfoFails

MainNext ==
    \/ main # "exited" /\ MainStep
    \/ main = "exited" /\ UNCHANGED allVars

MainSpec == MainInit /\ [][MainNext]_allVars

(* What the goroutines of the driver do by themselves, with the processes  *)
(* they wait for; signals and fatal errors need not come.                  *)
Runs ==
    \/ \E r \in Reporters : ReporterStep(r)
    \/ \E t \in OutTasks : WriterStep(t)
    \/ WaitReturns \/ WriteInfo \/ InfoFails
    \/ /\ \/ \E p \in Paths : PathStep(p)
          \/ \E f \in Files : FileStep(f)
          \/ \E f \in Files, g \in Gens : ReqStep(f, g)
          \/ \E f \in Files, g \in Gens, k \in 1..MaxMsgs : OutStep(f, g, k)
          \/ HandlerStep
       /\ UNCHANGED <<reporterVars, wg, writerVars, mainVars>>

(* While some goroutine can move, some goroutine does.                     *)
FairMainSpec == MainSpec /\ WF_allVars(main # "exited" /\ Runs)

-----------------------------------------------------------------------------
(* Properties.                                                             *)

MainTypeOK ==
    /\ TypeOK
    /\ holding \in [Reporters -> Seq(Results)]
    /\ reporting \subseteq Reporters
    /\ wg \in Nat /\ total \in Nat /\ errs \in Nat
    /\ writers \in [OutTasks -> WriterStages]
    /\ content \in [OutputPaths -> OutTasks \cup {Absent, Stale, Empty, Torn}]
    /\ main \in {"wait", "info", "exited"}
    /\ info \in [total : Nat, errors : Nat, files : SUBSET Tasks]
    /\ status \in {0, 1}

\* main does not outrun its writers: when it goes on after wg.Wait(), each
\* output taken from the channel was printed, or written or refused by the
\* file system, and no file is left created and not written.
NoWriterCutOff ==
    main # "wait" /\ status = 0 =>
        /\ queue = <<>> /\ closed
        /\ \A r \in delivered : WritesFile(r) => writers[r.task] \in {"done", "failed"}
        /\ \A t \in OutTasks : writers[t] \in {"none", "done", "failed"}

\* The counters main prints are exact for what was delivered, however the
\* reporters interleave.
CountsExact ==
    main # "wait" /\ status = 0 =>
        /\ total = Cardinality(delivered)
        /\ errs = Cardinality({r \in delivered : r.err})

\* No other output was given to a writer for the path of t.
Sole(t) ==
    \A u \in OutTasks :
        u # t /\ OutputPath(u) = OutputPath(t) => writers[u] = "none"

\* A file that one writer alone was started for holds the whole of its output
\* and nothing else once that writer has ended, however long a file of an
\* earlier run was there.
SoleOutputIntact ==
    \A t \in OutTasks :
        writers[t] = "done" /\ Sole(t) => content[OutputPath(t)] = t

\* main ends, whichever goroutine runs first: the channel is closed, the
\* reporters leave their loops and the writers finish.
MainExits == <>(main = "exited")
=============================================================================
