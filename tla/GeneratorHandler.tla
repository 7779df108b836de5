-------------------------- MODULE GeneratorHandler --------------------------
(***************************************************************************)
(* The pipeline of the brgen driver (src/src/tool/brgen): one goroutine    *)
(* per input path, per source file, per (file, generator) request and per  *)
(* generated output, counted by the WaitGroup `works`, with results and    *)
(* errors funnelled through one-place channels into `queue`, which is      *)
(* closed when the context is cancelled.                                   *)
(*                                                                         *)
(* A goroutine is a task with a program counter.  Channels are sequences   *)
(* bounded by the capacity they are made with; the unbuffered channel of   *)
(* Generator.Request is a rendezvous (Offer, then Accept).  A result is    *)
(* named by the task that made it.                                         *)
(***************************************************************************)
EXTENDS Naturals, Sequences, FiniteSets, Functions

CONSTANTS
    Paths,      \* the command-line arguments
    Files,      \* the source files below them
    PathOf,     \* [Files -> Paths]: the argument that leads to a file
    NumGens,    \* the number of generators that answered askSpec
    Streaming,  \* the generators of kind "stdin_stream"
    MaxMsgs,    \* bound: outputs and error replies of one request
    Slots,      \* capacity of loadAstBlock (100 in the code)
    UseHTTP     \* src2json runs as an HTTP server

Gens == 1..NumGens

ASSUME HandlerAssumption ==
    /\ IsFiniteSet(Paths) /\ Paths # {}
    /\ IsFiniteSet(Files)
    /\ PathOf \in [Files -> Paths]
    /\ NumGens \in Nat
    /\ Streaming \subseteq Gens
    /\ MaxMsgs \in Nat \ {0}
    /\ Slots \in Nat \ {0}
    /\ UseHTTP \in BOOLEAN

-----------------------------------------------------------------------------
(* Tasks: the goroutines that `works` counts.                              *)

PathTask(p) == <<"path", p>>
FileTask(f) == <<"file", f>>
ReqTask(f, g) == <<"req", f, g>>
OutTask(f, g, k) == <<"out", f, g, k>>

PathTasks == {PathTask(p) : p \in Paths}
FileTasks == {FileTask(f) : f \in Files}
ReqTasks == {ReqTask(x[1], x[2]) : x \in Files \X Gens}
OutTasks == {OutTask(x[1], x[2], x[3]) : x \in Files \X Gens \X (1..MaxMsgs)}
Tasks == PathTasks \cup FileTasks \cup ReqTasks \cup OutTasks

Ended == {"idle", "done"}
Stages == Ended \cup
    { "lookup", "spawn",                         \* generateAST
      "acquire", "load", "parse", "dispatch",    \* its per-file goroutine
      "offered", "generate", "emit", "report", "fail",  \* handleRequest
      "dir", "result", "ending" }                \* sendGenerated

\* A *Result on its way to the consumer: who made it, and whether Err is set.
Result(t, e) == [task |-> t, err |-> e]
Results == [task : Tasks, err : BOOLEAN]
LoadError(f) == Result(FileTask(f), TRUE)

\* The definitions below named ...Mutant are the errors the properties are
\* tested against; nothing refers to them.
CapMutant == 2
ResultCap == 1      \* make(chan *Result, 1)
ErrCap == 1         \* make(chan error, 1)
DirCap == 1         \* make(chan *DirBaseSuffix, 1)
QueueCap == 1       \* g.queue = make(chan *Result, 1)

VARIABLES
    pc,             \* [Tasks -> Stages]
    works, reqwg,   \* the two WaitGroups
    slots,          \* tokens in loadAstBlock
    msgs,           \* [Files \X Gens -> Nat]: messages a request produced
    errTasks,       \* files whose untracked error goroutine is blocked
    resultQueue, errQueue, dirChan, queue,
    forwarding,     \* the result the forwarder holds, if any
    closed,         \* the forwarder has closed queue and returned
    collecting,     \* the entry the collector holds, if any
    collector,      \* "select" | "returned"
    dirBaseSuffix,  \* the outputs appended to g.dirBaseSuffix
    running,        \* [Gens -> BOOLEAN]: Generator.run has not returned
    ctxDone, signaled,
    stopper, server,
    produced, delivered   \* history: results made, results taken from queue

taskVars == <<pc, works, reqwg, slots, msgs, errTasks, produced>>
forwardVars == <<forwarding, closed>>
collectVars == <<collecting, collector, dirBaseSuffix>>
ctxVars == <<ctxDone, signaled, running>>
httpVars == <<stopper, server>>
vars == <<taskVars, resultQueue, errQueue, dirChan, queue, forwardVars,
          collectVars, ctxVars, httpVars, delivered>>

\* The tasks whose works.Add(1) has happened and whose Done has not.
Outstanding == {t \in Tasks : pc[t] \notin Ended}

\* Every path has its goroutine; StartGenerator then starts the waiters and
\* the forwarder.
Launched == \A p \in Paths : pc[PathTask(p)] # "idle"

FilesOf(p) == {f \in Files : PathOf[f] = p}

Init ==
    /\ pc = [t \in Tasks |-> "idle"]
    /\ works = 0 /\ reqwg = 0 /\ slots = 0
    /\ msgs = [x \in Files \X Gens |-> 0]
    /\ errTasks = {}
    /\ resultQueue = <<>> /\ errQueue = <<>> /\ dirChan = <<>> /\ queue = <<>>
    /\ forwarding = <<>> /\ closed = FALSE
    /\ collecting = <<>> /\ collector = "select" /\ dirBaseSuffix = {}
    /\ running = [g \in Gens |-> TRUE]
    /\ ctxDone = FALSE /\ signaled = FALSE
    /\ stopper = IF UseHTTP THEN "wait" ELSE "done"
    /\ server = IF UseHTTP THEN "starting" ELSE "none"
    /\ produced = {} /\ delivered = {}

-----------------------------------------------------------------------------
(* Moves of tasks.                                                         *)

Move(t, from, to) == pc[t] = from /\ pc' = [pc EXCEPT ![t] = to]

\* t starts the tracked task u: works.Add(1); go ...
Fork(t, from, to, u, start) ==
    /\ pc[t] = from /\ pc[u] = "idle"
    /\ pc' = [pc EXCEPT ![t] = to, ![u] = start]
    /\ works' = works + 1

EndMutant(t, from) == Move(t, from, "done") /\ UNCHANGED works
\* t ends: its deferred works.Done().
End(t, from) == Move(t, from, "done") /\ works' = works - 1

Acquire(t, from, to) == slots < Slots /\ Move(t, from, to) /\ slots' = slots + 1

OnlyTasks == UNCHANGED <<resultQueue, errQueue, dirChan, queue, forwardVars,
                         collectVars, ctxVars, httpVars, delivered>>

-----------------------------------------------------------------------------
(* StartGenerator and generateAST.                                         *)

Launch(p) ==
    /\ Move(PathTask(p), "idle", "lookup")
    /\ works' = works + 1
    /\ UNCHANGED <<reqwg, slots, msgs, errTasks, produced>> /\ OnlyTasks

\* lookupPath fails: the error is printed, nothing else happens.
LookupFails(p) ==
    /\ End(PathTask(p), "lookup")
    /\ UNCHANGED <<reqwg, slots, msgs, errTasks, produced>> /\ OnlyTasks

LookupFinds(p) ==
    /\ FilesOf(p) # {}
    /\ Move(PathTask(p), "lookup", "spawn")
    /\ UNCHANGED <<works, reqwg, slots, msgs, errTasks, produced>> /\ OnlyTasks

SpawnFileMutant(f) ==
    /\ pc[PathTask(PathOf[f])] = "spawn" /\ Move(FileTask(f), "idle", "acquire")
    /\ reqwg' = reqwg + 1
    /\ UNCHANGED <<works, slots, msgs, errTasks, produced>> /\ OnlyTasks

SpawnFile(f) ==
    /\ Fork(PathTask(PathOf[f]), "spawn", "spawn", FileTask(f), "acquire")
    /\ reqwg' = reqwg + 1
    /\ UNCHANGED <<slots, msgs, errTasks, produced>> /\ OnlyTasks

PathDone(p) ==
    /\ \A f \in FilesOf(p) : pc[FileTask(f)] # "idle"
    /\ End(PathTask(p), "spawn")
    /\ UNCHANGED <<reqwg, slots, msgs, errTasks, produced>> /\ OnlyTasks

-----------------------------------------------------------------------------
(* The goroutine of a file: loadAst, then one Request per generator.       *)

AcquireLoad(f) ==
    /\ Acquire(FileTask(f), "acquire", "load")
    /\ UNCHANGED <<works, reqwg, msgs, errTasks, produced>> /\ OnlyTasks

\* The parse begins: the POST reaches the server, or the process starts.
Post(f) ==
    /\ server \in {"none", "up"}
    /\ Move(FileTask(f), "load", "parse")
    /\ UNCHANGED <<works, reqwg, slots, msgs, errTasks, produced>> /\ OnlyTasks

LoadFailsMutant(f) ==
    /\ \E s \in {"load", "parse"} : End(FileTask(f), s)
    /\ slots' = slots - 1
    /\ errTasks' = errTasks \cup {f}
    /\ produced' = produced \cup {LoadError(f)}
    /\ UNCHANGED <<msgs, reqwg>> /\ OnlyTasks

\* loadAst returns an error.  The slot is released, an untracked goroutine
\* is left to send the error, and both WaitGroups are told.
LoadFails(f) ==
    /\ \E s \in {"load", "parse"} : End(FileTask(f), s)
    /\ slots' = slots - 1 /\ reqwg' = reqwg - 1
    /\ errTasks' = errTasks \cup {f}
    /\ produced' = produced \cup {LoadError(f)}
    /\ UNCHANGED msgs /\ OnlyTasks

LoadSucceedsMutant(f) ==
    /\ Move(FileTask(f), "parse", "dispatch")
    /\ UNCHANGED <<slots, works, reqwg, msgs, errTasks, produced>> /\ OnlyTasks

LoadSucceeds(f) ==
    /\ Move(FileTask(f), "parse", "dispatch")
    /\ slots' = slots - 1
    /\ UNCHANGED <<works, reqwg, msgs, errTasks, produced>> /\ OnlyTasks

Requested(f, g) == pc[ReqTask(f, g)] \notin {"idle", "offered"}

\* works.Add(1), then block in gen.Request; generators are taken in order.
Offer(f, g) ==
    /\ \A h \in 1..(g - 1) : Requested(f, h)
    /\ Fork(FileTask(f), "dispatch", "dispatch", ReqTask(f, g), "offered")
    /\ UNCHANGED <<reqwg, slots, msgs, errTasks, produced>> /\ OnlyTasks

\* The rendezvous with Generator.run, which starts handleRequest.
Accept(f, g) ==
    /\ running[g]
    /\ Move(ReqTask(f, g), "offered", "acquire")
    /\ UNCHANGED <<works, reqwg, slots, msgs, errTasks, produced>> /\ OnlyTasks

FileDone(f) ==
    /\ \A g \in Gens : Requested(f, g)
    /\ End(FileTask(f), "dispatch")
    /\ reqwg' = reqwg - 1
    /\ UNCHANGED <<slots, msgs, errTasks, produced>> /\ OnlyTasks

RunReturns(g) ==
    /\ ctxDone /\ running[g]
    /\ running' = [running EXCEPT ![g] = FALSE]
    /\ UNCHANGED <<taskVars, resultQueue, errQueue, dirChan, queue, forwardVars,
                   collectVars, ctxDone, signaled, httpVars, delivered>>

-----------------------------------------------------------------------------
(* Generator.handleRequest and handleStdinStreamRequest.                   *)

AcquireGenerate(f, g) ==
    /\ Acquire(ReqTask(f, g), "acquire", "generate")
    /\ UNCHANGED <<works, reqwg, msgs, errTasks, produced>> /\ OnlyTasks

\* passAst succeeded, or SendRequest did: messages follow.
GenerateSucceeds(f, g) ==
    /\ Move(ReqTask(f, g), "generate", "emit")
    /\ UNCHANGED <<works, reqwg, slots, msgs, errTasks, produced>> /\ OnlyTasks

\* passAst failed or gave too many outputs; SendRequest failed; or, in the
\* middle of a stream, ReceiveResponse failed.  sendResult(req) and return.
GenerateFails(f, g) ==
    /\ \/ Move(ReqTask(f, g), "generate", "fail")
       \/ g \in Streaming /\ Move(ReqTask(f, g), "emit", "fail")
    /\ produced' = produced \cup {Result(ReqTask(f, g), TRUE)}
    /\ UNCHANGED <<works, reqwg, slots, msgs, errTasks>> /\ OnlyTasks

NextMsg(f, g) == msgs[<<f, g>>] + 1
CountMsg(f, g) ==
    /\ msgs[<<f, g>>] < MaxMsgs
    /\ msgs' = [msgs EXCEPT ![<<f, g>>] = @ + 1]

\* sendGenerated: a tracked goroutine per output.
EmitOutput(f, g) ==
    LET out == OutTask(f, g, NextMsg(f, g)) IN
    /\ CountMsg(f, g)
    /\ Fork(ReqTask(f, g), "emit", "emit", out, "dir")
    /\ produced' = produced \cup {Result(out, FALSE)}
    /\ UNCHANGED <<reqwg, slots, errTasks>> /\ OnlyTasks

\* An error reply, or one with a bad name: sendResult(req), then continue.
EmitReport(f, g) ==
    /\ g \in Streaming /\ CountMsg(f, g)
    /\ Move(ReqTask(f, g), "emit", "report")
    /\ produced' = produced \cup {Result(OutTask(f, g, NextMsg(f, g)), TRUE)}
    /\ UNCHANGED <<works, reqwg, slots, errTasks>> /\ OnlyTasks

OnlySend == UNCHANGED <<works, reqwg, slots, msgs, errTasks, produced, errQueue,
                        dirChan, queue, forwardVars, collectVars, ctxVars,
                        httpVars, delivered>>

SendToResultQueueMutant(r) == resultQueue' = Append(resultQueue, r)
SendToResultQueue(r) ==
    /\ Len(resultQueue) < ResultCap
    /\ resultQueue' = Append(resultQueue, r)

SendReport(f, g) ==
    /\ Move(ReqTask(f, g), "report", "emit")
    /\ SendToResultQueue(Result(OutTask(f, g, msgs[<<f, g>>]), TRUE))
    /\ OnlySend

SendFailure(f, g) ==
    /\ Move(ReqTask(f, g), "fail", "ending")
    /\ SendToResultQueue(Result(ReqTask(f, g), TRUE))
    /\ OnlySend

HandlerDoneMutant(f, g) ==
    /\ End(ReqTask(f, g), "ending") \/ End(ReqTask(f, g), "emit")
    /\ slots' = slots - 1
    /\ UNCHANGED <<reqwg, msgs, errTasks, produced>> /\ OnlyTasks

\* The handler returns: after a failure, at the end of the stream, or after
\* the last of at least one output.  It gives its slot back.
HandlerDone(f, g) ==
    /\ \/ End(ReqTask(f, g), "ending")
       \/ /\ g \in Streaming \/ msgs[<<f, g>>] > 0
          /\ End(ReqTask(f, g), "emit")
    /\ slots' = slots - 1
    /\ UNCHANGED <<reqwg, msgs, errTasks, produced>> /\ OnlyTasks

-----------------------------------------------------------------------------
(* The goroutine of an output, the collector of its directory and name.    *)

SendDirMutant(f, g, k) ==
    /\ Move(OutTask(f, g, k), "dir", "result")
    /\ dirChan' = IF dirChan = <<>> THEN <<OutTask(f, g, k)>> ELSE dirChan
    /\ UNCHANGED <<works, reqwg, slots, msgs, errTasks, produced, resultQueue,
                   errQueue, queue, forwardVars, collectVars, ctxVars,
                   httpVars, delivered>>

SendDir(f, g, k) ==
    /\ Len(dirChan) < DirCap
    /\ Move(OutTask(f, g, k), "dir", "result")
    /\ dirChan' = Append(dirChan, OutTask(f, g, k))
    /\ UNCHANGED <<works, reqwg, slots, msgs, errTasks, produced, resultQueue,
                   errQueue, queue, forwardVars, collectVars, ctxVars,
                   httpVars, delivered>>

SendResult(f, g, k) ==
    /\ Move(OutTask(f, g, k), "result", "ending")
    /\ SendToResultQueue(Result(OutTask(f, g, k), FALSE))
    /\ OnlySend

OutputDone(f, g, k) ==
    /\ End(OutTask(f, g, k), "ending")
    /\ UNCHANGED <<reqwg, slots, msgs, errTasks, produced>> /\ OnlyTasks

OnlyCollector == UNCHANGED <<taskVars, resultQueue, errQueue, queue, forwardVars,
                             ctxVars, httpVars, delivered>>

CollectorReceives ==
    /\ collector = "select" /\ collecting = <<>> /\ dirChan # <<>>
    /\ collecting' = <<Head(dirChan)>> /\ dirChan' = Tail(dirChan)
    /\ UNCHANGED <<collector, dirBaseSuffix>> /\ OnlyCollector

CollectorAppends ==
    /\ collecting # <<>>
    /\ dirBaseSuffix' = dirBaseSuffix \cup {Head(collecting)}
    /\ collecting' = <<>>
    /\ UNCHANGED <<collector, dirChan>> /\ OnlyCollector

CollectorReturns ==
    /\ ctxDone /\ collector = "select" /\ collecting = <<>>
    /\ collector' = "returned"
    /\ UNCHANGED <<collecting, dirBaseSuffix, dirChan>> /\ OnlyCollector

-----------------------------------------------------------------------------
(* The goroutines StartGenerator leaves behind: two waiters, a forwarder,  *)
(* and the error senders.                                                  *)

OnlyCtx == UNCHANGED <<taskVars, resultQueue, errQueue, dirChan, queue,
                       forwardVars, collectVars, running, httpVars, delivered>>

CancelWhenDoneMutant ==
    /\ works = 0 /\ ~ctxDone
    /\ ctxDone' = TRUE
    /\ UNCHANGED signaled /\ OnlyCtx

\* works.Wait(); cancel()
CancelWhenDone ==
    /\ Launched /\ works = 0 /\ ~ctxDone
    /\ ctxDone' = TRUE
    /\ UNCHANGED signaled /\ OnlyCtx

\* SIGINT or SIGTERM (signal.NotifyContext).
Signal ==
    /\ ~ctxDone
    /\ ctxDone' = TRUE /\ signaled' = TRUE
    /\ OnlyCtx

OnlyHTTP == UNCHANGED <<taskVars, resultQueue, errQueue, dirChan, queue,
                        forwardVars, collectVars, ctxVars, delivered>>

ServerListens ==
    /\ server = "starting" /\ server' = "up"
    /\ UNCHANGED stopper /\ OnlyHTTP

\* reqwg.Wait().  Without a server requestStop does nothing, and its goroutine
\* starts as "done".
StopWaits ==
    /\ Launched /\ stopper = "wait" /\ reqwg = 0
    /\ stopper' = "stop"
    /\ UNCHANGED server /\ OnlyHTTP

\* requestStop: GET /stop, which only a listening server obeys.
RequestStop ==
    /\ stopper = "stop" /\ stopper' = "done"
    /\ server' = IF server = "up" THEN "stopped" ELSE server
    /\ OnlyHTTP

SendError(f) ==
    /\ f \in errTasks /\ Len(errQueue) < ErrCap
    /\ errTasks' = errTasks \ {f}
    /\ errQueue' = Append(errQueue, LoadError(f))
    /\ UNCHANGED <<pc, works, reqwg, slots, msgs, produced, resultQueue, dirChan,
                   queue, forwardVars, collectVars, ctxVars, httpVars, delivered>>

Selecting == Launched /\ ~closed /\ forwarding = <<>>

OnlyForward == UNCHANGED <<taskVars, dirChan, collectVars, ctxVars, httpVars,
                           delivered>>

ForwardResult ==
    /\ Selecting /\ resultQueue # <<>>
    /\ forwarding' = <<Head(resultQueue)>> /\ resultQueue' = Tail(resultQueue)
    /\ UNCHANGED <<closed, errQueue, queue>> /\ OnlyForward

ForwardError ==
    /\ Selecting /\ errQueue # <<>>
    /\ forwarding' = <<Head(errQueue)>> /\ errQueue' = Tail(errQueue)
    /\ UNCHANGED <<closed, resultQueue, queue>> /\ OnlyForward

ForwardPutsMutant ==
    /\ forwarding # <<>> /\ forwarding' = <<>>
    /\ queue' = IF Len(queue) < QueueCap THEN Append(queue, Head(forwarding)) ELSE queue
    /\ UNCHANGED <<closed, resultQueue, errQueue>> /\ OnlyForward

ForwardPuts ==
    /\ forwarding # <<>> /\ Len(queue) < QueueCap
    /\ queue' = Append(queue, Head(forwarding)) /\ forwarding' = <<>>
    /\ UNCHANGED <<closed, resultQueue, errQueue>> /\ OnlyForward

ForwardClosesMutant ==
    /\ Launched /\ ~closed /\ ctxDone
    /\ closed' = TRUE
    /\ UNCHANGED <<forwarding, resultQueue, errQueue, queue>> /\ OnlyForward

\* The select may take this branch while the other two are ready.
ForwardCloses ==
    /\ Selecting /\ ctxDone
    /\ closed' = TRUE
    /\ UNCHANGED <<forwarding, resultQueue, errQueue, queue>> /\ OnlyForward

-----------------------------------------------------------------------------
(* The consumer of Recv().                                                 *)

Recv ==
    /\ queue # <<>>
    /\ queue' = Tail(queue)
    /\ delivered' = delivered \cup {Head(queue)}
    /\ UNCHANGED <<taskVars, resultQueue, errQueue, dirChan, forwardVars,
                   collectVars, ctxVars, httpVars>>

PathStep(p) == Launch(p) \/ LookupFails(p) \/ LookupFinds(p) \/ PathDone(p)

FileStep(f) ==
    \/ SpawnFile(f) \/ AcquireLoad(f) \/ Post(f) \/ LoadFails(f)
    \/ LoadSucceeds(f) \/ FileDone(f) \/ SendError(f)

ReqStep(f, g) ==
    \/ Offer(f, g) \/ Accept(f, g) \/ AcquireGenerate(f, g)
    \/ GenerateSucceeds(f, g) \/ GenerateFails(f, g) \/ EmitOutput(f, g)
    \/ EmitReport(f, g) \/ SendReport(f, g) \/ SendFailure(f, g)
    \/ HandlerDone(f, g)

OutStep(f, g, k) == SendDir(f, g, k) \/ SendResult(f, g, k) \/ OutputDone(f, g, k)

HandlerStep ==
    \/ CancelWhenDone \/ ServerListens \/ StopWaits \/ RequestStop
    \/ CollectorReceives \/ CollectorAppends \/ CollectorReturns
    \/ ForwardResult \/ ForwardError \/ ForwardPuts \/ ForwardCloses
    \/ \E g \in Gens : RunReturns(g)

PipelineStep ==
    \/ \E p \in Paths : PathStep(p)
    \/ \E f \in Files : FileStep(f)
    \/ \E f \in Files, g \in Gens : ReqStep(f, g)
    \/ \E f \in Files, g \in Gens, k \in 1..MaxMsgs : OutStep(f, g, k)
    \/ HandlerStep
    \/ Signal

\* The range over queue ends: the only state the driver may rest in.
Drained == closed /\ queue = <<>>
Rest == Drained /\ UNCHANGED vars

Next == PipelineStep \/ Recv \/ Rest

Spec == Init /\ [][Next]_vars

-----------------------------------------------------------------------------
(* Properties.                                                             *)

\* Every variable holds a value of its type and no channel holds more than
\* it was made for.
TypeOK ==
    /\ pc \in [Tasks -> Stages]
    /\ works \in Nat /\ reqwg \in Nat /\ slots \in 0..Slots
    /\ msgs \in [Files \X Gens -> 0..MaxMsgs]
    /\ errTasks \subseteq Files
    /\ resultQueue \in Seq(Results) /\ Len(resultQueue) <= ResultCap
    /\ errQueue \in Seq(Results) /\ Len(errQueue) <= ErrCap
    /\ dirChan \in Seq(Tasks) /\ Len(dirChan) <= DirCap
    /\ queue \in Seq(Results) /\ Len(queue) <= QueueCap
    /\ forwarding \in Seq(Results) /\ Len(forwarding) <= 1
    /\ closed \in BOOLEAN
    /\ collecting \in Seq(Tasks) /\ Len(collecting) <= 1
    /\ collector \in {"select", "returned"}
    /\ dirBaseSuffix \subseteq Tasks
    /\ running \in [Gens -> BOOLEAN]
    /\ ctxDone \in BOOLEAN /\ signaled \in BOOLEAN
    /\ stopper \in {"wait", "stop", "done"}
    /\ server \in {"none", "starting", "up", "stopped"}
    /\ produced \subseteq Results /\ delivered \subseteq Results

\* The Adds and Dones of `works` balance over every path through
\* generateAST, handleRequest and sendGenerated: the counter is the number of
\* goroutines started and not ended.
WorksBalanced == works = Cardinality(Outstanding)

\* Likewise for reqwg, which counts the files being loaded or dispatched.
ReqwgBalanced == reqwg = Cardinality(Outstanding \cap FileTasks)

\* Without a signal the context is cancelled only after the last tracked
\* goroutine has ended, so no subprocess is killed and no sender abandoned.
CancelAfterWork == ctxDone /\ ~signaled => Launched /\ Outstanding = {}

\* Once works.Wait() may return, no Add reopens the WaitGroup: every Add is
\* made by a goroutine that is itself counted.
WorksStaysZero == [][Launched /\ works = 0 => works' = 0]_vars

\* Each token of loadAstBlock belongs to one file being parsed or one
\* request being handled: every way out gives it back.
SlotStages == {"load", "parse", "generate", "emit", "report", "fail"}
SlotHolders == {t \in Tasks : pc[t] \in SlotStages}
               \cup {t \in ReqTasks : pc[t] = "ending"}
SlotsHeld == slots = Cardinality(SlotHolders)

\* Where a result that was made and not yet delivered can be.
AtSender ==
    {Result(t, FALSE) : t \in {u \in OutTasks : pc[u] \in {"dir", "result"}}}
    \cup {Result(t, TRUE) : t \in {u \in ReqTasks : pc[u] = "fail"}}
    \cup {Result(OutTask(x[1], x[2], msgs[x]), TRUE) :
            x \in {y \in Files \X Gens : pc[ReqTask(y[1], y[2])] = "report"}}
    \cup {LoadError(f) : f \in errTasks}

InFlight == Range(resultQueue) \cup Range(errQueue) \cup Range(forwarding)
            \cup Range(queue)

\* A result is made once, travels in one place at a time, and is delivered
\* at most once: nothing is dropped or duplicated between the goroutines.
Conservation ==
    /\ produced = AtSender \cup InFlight \cup delivered
    /\ Cardinality(produced) =
         Cardinality(AtSender) + Len(resultQueue) + Len(errQueue)
         + Len(forwarding) + Len(queue) + Cardinality(delivered)

FromHandler(r) == r.task \notin FileTasks
Abandoned == {r \in produced : r \notin delivered \cup Range(queue)}

\* The race between cancel() and the forwarder's select costs at most one
\* result of a generator: the one resultQueue can buffer.
AtMostOneResultLost ==
    closed /\ ~signaled => Cardinality({r \in Abandoned : FromHandler(r)}) <= 1

\* An output whose result has left its goroutine is listed in dirBaseSuffix,
\* or its entry is in the collector's channel or hand: entries are overtaken
\* by the cancellation, never dropped while the collector runs.
DirEntriesKept ==
    \A t \in OutTasks :
        Result(t, FALSE) \in InFlight \cup delivered =>
            t \in dirBaseSuffix \cup Range(dirChan) \cup Range(collecting)

\* When the pipeline ends of itself, each file that was found failed to load
\* or was answered by every generator of the one-process-per-file kind.
EveryRequestAnswered ==
    closed /\ ~signaled =>
        \A f \in Files :
            \/ pc[FileTask(f)] = "idle"
            \/ LoadError(f) \in produced
            \/ \A g \in Gens \ Streaming :
                 \E r \in produced :
                    r.task \in {ReqTask(f, g)} \cup {OutTask(f, g, k) : k \in 1..MaxMsgs}

\* src_tool.md: brgen hands the files to src2json.  The driver does not stop
\* the parse server while a file it found is still to be posted.
StopAfterLastPost ==
    server = "stopped" =>
        \A f \in Files : pc[FileTask(f)] \notin {"acquire", "load"}
                         /\ (pc[FileTask(f)] = "idle" =>
                               pc[PathTask(PathOf[f])] \notin {"idle", "lookup", "spawn"})

\* The pipeline delivers results as ResultDelivery promises.
Delivery == INSTANCE ResultDelivery WITH
    Generated <- {r \in Results : FromHandler(r)},
    made <- produced, got <- delivered,
    buffered <- IF closed THEN Range(queue) ELSE {},
    open <- ~closed, aborted <- signaled
DeliversResults == Delivery!Spec
=============================================================================
