--------------------------- MODULE BrgenMainProofs ---------------------------
(***************************************************************************)
(* main and its reporters, for any number of them.  main uses the pipeline *)
(* as its specification allows (MainUsesHandler), so all that is proved of *)
(* GeneratorHandler holds here as well.  On top of that every delivered    *)
(* result is in the hand of one reporter or handled: counted once, and     *)
(* given to a writer of its own if it is a file (ReportersOK, WritersOK,   *)
(* CountsOK).  wg counts the reporters that range over the channel and the *)
(* writers at work (WgOK), hence main waits for all of them.               *)
(***************************************************************************)
EXTENDS BrgenMain, GeneratorHandlerDelivery

\* The results reporters hold, and the delivered ones they are done with.
Held == {Head(holding[r]) : r \in {s \in Reporters : holding[s] # <<>>}}
Handled == delivered \ Held
ErrorsOf(S) == {x \in S : x.err}

Writing == {t \in OutTasks : writers[t] \in {"create", "write"}}

\* Results that are no errors are made for outputs.
ProducedOK == \A x \in produced : ~x.err => x.task \in OutTasks

ReportersOK ==
    /\ holding \in [Reporters -> Seq(Results)]
    /\ reporting \subseteq Reporters
    /\ \A r \in Reporters :
         /\ Len(holding[r]) <= 1
         /\ holding[r] # <<>> => r \in reporting /\ Head(holding[r]) \in delivered
    /\ \A r, s \in Reporters :
         holding[r] # <<>> /\ holding[s] # <<>> /\ Head(holding[r]) = Head(holding[s])
           => r = s
    /\ reporting # Reporters => Drained

WritersOK ==
    /\ writers \in [OutTasks -> WriterStages]
    /\ \A t \in OutTasks : writers[t] # "none" => Output(t) \in Handled
    /\ \A x \in Handled : WritesFile(x) => writers[x.task] # "none"

WgOK ==
    /\ IsFiniteSet(reporting) /\ IsFiniteSet(Writing)
    /\ wg = Cardinality(reporting) + Cardinality(Writing)

CountsOK ==
    /\ total \in Nat /\ errs \in Nat
    /\ status = 0 => /\ total = Cardinality(Handled)
                     /\ errs = Cardinality(ErrorsOf(Handled))

ExitOK ==
    /\ main \in {"wait", "info", "exited"} /\ status \in {0, 1}
    /\ info \in [total : Nat, errors : Nat, files : SUBSET Tasks]
    /\ main # "exited" => status = 0
    /\ main # "wait" /\ status = 0 => wg = 0

Contents == OutTasks \cup {Absent, Stale, Empty, Torn}

\* What Sole outputs have in their files on the way to SoleOutputIntact.
ContentOK ==
    /\ content \in [OutputPaths -> Contents]
    /\ \A t \in OutTasks :
         Sole(t) => /\ writers[t] = "write" => content[OutputPath(t)] = Empty
                    /\ writers[t] = "done" => content[OutputPath(t)] = t

\* All but ProducedOK, which is about the pipeline alone.
RunInv == ReportersOK /\ WritersOK /\ WgOK /\ CountsOK /\ ExitOK /\ ContentOK

MainInv == ProducedOK /\ RunInv

-----------------------------------------------------------------------------
(* What main leaves to the pipeline.                                       *)

(* Every step of main is a step of the handler, or leaves it alone.        *)
LEMMA MainStepOfHandler ==
  ASSUME [MainNext]_allVars
  PROVE  [Next]_vars
  <1>1. CASE PipelineStep
    BY <1>1 DEF Next
  <1>2. CASE \E r \in Reporters : Take(r)
    BY <1>2 DEF Take, Next
  <1>3. CASE \E r \in Reporters : Report(r) \/ StartWriter(r) \/ ReporterEnds(r) \/ Fatal(r)
    BY <1>3 DEF Report, StartWriter, ReporterEnds, Fatal
  <1>4. CASE (\E t \in OutTasks : WriterStep(t)) \/ WaitReturns \/ WriteInfo \/ InfoFails
    BY <1>4 DEF WriterStep, Create, Write, WriterFails, WaitReturns, WriteInfo, InfoFails
  <1>5. CASE UNCHANGED allVars
    BY <1>5 DEF allVars
  <1> QED BY <1>1, <1>2, <1>3, <1>4, <1>5 DEF MainNext, MainStep, ReporterStep

\* main and the reporters use GeneratorHandler only as its specification
\* allows: the whole driver implements the pipeline.
THEOREM MainUsesHandler == MainSpec => Spec
  <1>1. MainInit => Init
    BY DEF MainInit
  <1> QED BY <1>1, MainStepOfHandler, PTL DEF MainSpec, Spec

(* What a step of the handler makes.                                       *)
LEMMA MakesForOutputs ==
  ASSUME PcOK, Next
  PROVE  \/ produced' = produced
         \/ \E t : produced' = produced \cup {Failure(t)}
         \/ \E t \in OutTasks : produced' = produced \cup {Output(t)}
  <1>1. CASE \E p \in Paths : PathStep(p)
    BY <1>1 DEF PathStep, Launch, LookupFails, LookupFinds, PathDone
  <1>2. CASE \E f \in Files : FileStep(f)
    BY <1>2 DEF FileStep, SpawnFile, AcquireLoad, Post, LoadFails, LoadSucceeds,
       FileDone, SendError, LoadError, Failure
  <1>3. CASE \E f \in Files, g \in Gens : ReqStep(f, g)
    <2>1. PICK f \in Files, g \in Gens : ReqStep(f, g)
      BY <1>3
    <2>2. CASE EmitOutput(f, g)
      <3>1. CountMsg(f, g) /\ produced' = produced \cup {Output(OutTask(f, g, NextMsg(f, g)))}
        BY <2>2 DEF EmitOutput, Output
      <3>2. OutTask(f, g, NextMsg(f, g)) \in OutTasks
        BY <3>1, NextMsgType, OutTaskIs
      <3> QED BY <3>1, <3>2
    <2>3. CASE EmitReport(f, g)
      BY <2>3 DEF EmitReport, Failure
    <2>4. CASE GenerateFails(f, g)
      BY <2>4 DEF GenerateFails, Failure
    <2>5. CASE ~EmitOutput(f, g) /\ ~EmitReport(f, g) /\ ~GenerateFails(f, g)
      BY <2>1, <2>5 DEF ReqStep, Offer, Accept, AcquireGenerate, GenerateSucceeds,
         SendReport, SendFailure, HandlerDone, OnlySend
    <2> QED BY <2>2, <2>3, <2>4, <2>5
  <1>4. CASE \E f \in Files, g \in Gens, k \in 1..MaxMsgs : OutStep(f, g, k)
    BY <1>4 DEF OutStep, SendDir, SendResult, OutputDone, OnlySend
  <1>5. CASE HandlerStep \/ Signal \/ Recv \/ Rest
    BY <1>5 DEF HandlerStep, Signal, Recv, Rest, vars, taskVars, CancelWhenDone,
       OnlyCtx, ServerListens, StopWaits, RequestStop, OnlyHTTP, CollectorReceives,
       CollectorAppends, CollectorReturns, OnlyCollector, ForwardResult,
       ForwardError, ForwardPuts, ForwardCloses, OnlyForward, RunReturns
  <1> QED BY <1>1, <1>2, <1>3, <1>4, <1>5 DEF Next, PipelineStep

(* So that only outputs have results that are no errors.                     *)
LEMMA NextProduced ==
  ASSUME PcOK, ProducedOK, [Next]_vars
  PROVE  ProducedOK'
  <1>1. CASE Next
    <2>1. \A t : Failure(t).err /\ ~Output(t).err /\ Output(t).task = t
      BY DEF Failure, Output, Result
    <2> QED BY <1>1, <2>1, MakesForOutputs DEF ProducedOK
  <1>2. CASE UNCHANGED vars
    BY <1>2 DEF vars, taskVars, ProducedOK
  <1> QED BY <1>1, <1>2

(* Nothing but Recv delivers, and a drained queue stays drained.           *)
LEMMA PipelineKeeps ==
  ASSUME PcOK, ClosingOK, PipelineStep
  PROVE  delivered' = delivered /\ (Drained => Drained')
  <1>1. CASE \E p \in Paths : PathStep(p)
    BY <1>1 DEF PathStep, Launch, LookupFails, LookupFinds, PathDone, OnlyTasks,
       forwardVars, Drained
  <1>2. CASE \E f \in Files : FileStep(f)
    BY <1>2 DEF FileStep, SpawnFile, AcquireLoad, Post, LoadFails, LoadSucceeds,
       FileDone, SendError, OnlyTasks, forwardVars, Drained
  <1>3. CASE \E f \in Files, g \in Gens : ReqStep(f, g)
    <2>1. PICK f \in Files, g \in Gens : ReqStep(f, g)
      BY <1>3
    <2>2. CASE Offer(f, g) \/ Accept(f, g) \/ AcquireGenerate(f, g)
                 \/ GenerateSucceeds(f, g) \/ GenerateFails(f, g)
      <3>1. OnlyTasks
        BY <2>2 DEF Offer, Accept, AcquireGenerate, GenerateSucceeds, GenerateFails
      <3> QED BY <3>1 DEF OnlyTasks, forwardVars, Drained
    <2>3. CASE EmitOutput(f, g) \/ EmitReport(f, g) \/ SendReport(f, g)
                 \/ SendFailure(f, g) \/ HandlerDone(f, g)
      <3>1. OnlyTasks \/ OnlySend
        BY <2>3 DEF EmitOutput, EmitReport, SendReport, SendFailure, HandlerDone
      <3> QED BY <3>1 DEF OnlyTasks, OnlySend, forwardVars, Drained
    <2> QED BY <2>1, <2>2, <2>3 DEF ReqStep
  <1>4. CASE \E f \in Files, g \in Gens, k \in 1..MaxMsgs : OutStep(f, g, k)
    <2>1. UNCHANGED <<delivered, forwardVars, queue>>
      BY <1>4 DEF OutStep, SendDir, SendResult, OutputDone, OnlySend, OnlyTasks
    <2> QED BY <2>1 DEF forwardVars, Drained
  <1>5. CASE HandlerStep \/ Signal
    <2>1. delivered' = delivered
      BY <1>5 DEF HandlerStep, Signal, CancelWhenDone,
         OnlyCtx, ServerListens, StopWaits, RequestStop, OnlyHTTP, CollectorReceives,
         CollectorAppends, CollectorReturns, OnlyCollector, ForwardResult,
         ForwardError, ForwardPuts, ForwardCloses, OnlyForward, RunReturns
    <2>2. closed => UNCHANGED <<closed, queue>>
      BY <1>5 DEF HandlerStep, Signal, CancelWhenDone, ClosingOK, Selecting, forwardVars,
         OnlyCtx, ServerListens, StopWaits, RequestStop, OnlyHTTP, CollectorReceives,
         CollectorAppends, CollectorReturns, OnlyCollector, ForwardResult,
         ForwardError, ForwardPuts, ForwardCloses, OnlyForward, RunReturns
    <2> QED BY <2>1, <2>2 DEF Drained
  <1> QED BY <1>1, <1>2, <1>3, <1>4, <1>5 DEF PipelineStep

-----------------------------------------------------------------------------
(* The results in the hands of the reporters.                              *)

(* The three things a step can do to them.                                 *)
NoHand == UNCHANGED <<holding, delivered>>

Takes(r, x) ==
    /\ r \in reporting /\ holding[r] = <<>>
    /\ x \in Results /\ x \notin delivered
    /\ holding' = [holding EXCEPT ![r] = <<x>>]
    /\ delivered' = delivered \cup {x}

Gives(r) ==
    /\ holding[r] # <<>>
    /\ holding' = [holding EXCEPT ![r] = <<>>] /\ delivered' = delivered

(* What is held was delivered.                                               *)
LEMMA HeldDelivered ==
  ASSUME ReportersOK
  PROVE  Held \subseteq delivered
  BY DEF Held, ReportersOK

(* A reporter that takes a new result has nothing handled yet.               *)
LEMMA TakesHand ==
  ASSUME ReportersOK, NEW r \in Reporters, NEW x, Takes(r, x),
         UNCHANGED reporting, Drained => Drained'
  PROVE  ReportersOK' /\ Handled' = Handled
  <1>0. /\ holding \in [Reporters -> Seq(Results)] /\ holding' \in [Reporters -> Seq(Results)]
        /\ holding'[r] = <<x>> /\ Head(<<x>>) = x /\ <<x>> # <<>> /\ Len(<<x>>) <= 1
        /\ \A s \in Reporters : s # r => holding'[s] = holding[s]
    BY DEF ReportersOK, Takes
  <1>1. Held' = Held \cup {x}
    BY <1>0 DEF Held, Takes
  <1>2. Handled' = Handled
    BY <1>1, HeldDelivered DEF Handled, Takes
  <1>3. \A s \in Reporters :
          /\ Len(holding'[s]) <= 1
          /\ holding'[s] # <<>> => s \in reporting' /\ Head(holding'[s]) \in delivered'
    BY <1>0 DEF ReportersOK, Takes
  <1>4. ASSUME NEW s \in Reporters, NEW u \in Reporters,
               holding'[s] # <<>>, holding'[u] # <<>>,
               Head(holding'[s]) = Head(holding'[u])
        PROVE  s = u
    <2>1. \A v \in Reporters : v # r /\ holding'[v] # <<>> =>
            /\ holding[v] # <<>> /\ Head(holding'[v]) = Head(holding[v])
            /\ Head(holding[v]) # x
      BY <1>0 DEF ReportersOK, Takes
    <2> QED BY <1>0, <1>4, <2>1 DEF ReportersOK
  <1> QED BY <1>0, <1>2, <1>3, <1>4 DEF ReportersOK

(* A reporter that is done with its result has handled one more.             *)
LEMMA GivesHand ==
  ASSUME ReportersOK, NEW r \in Reporters, Gives(r),
         UNCHANGED reporting, Drained => Drained'
  PROVE  /\ ReportersOK' /\ Head(holding[r]) \in delivered
         /\ Handled' = Handled \cup {Head(holding[r])} /\ Head(holding[r]) \notin Handled
  <1> DEFINE x == Head(holding[r])
  <1>0. /\ holding \in [Reporters -> Seq(Results)] /\ holding' \in [Reporters -> Seq(Results)]
        /\ holding'[r] = <<>> /\ Len(<<>>) <= 1
        /\ \A s \in Reporters : s # r => holding'[s] = holding[s]
        /\ x \in Held /\ x \in delivered
    BY DEF ReportersOK, Gives, Held
  <1>1. Held' = Held \ {x}
    <2>1. \A s \in Reporters : holding[s] # <<>> /\ Head(holding[s]) = x => s = r
      BY DEF ReportersOK, Gives
    <2> QED BY <1>0, <2>1 DEF Held
  <1>2. Handled' = Handled \cup {x} /\ x \notin Handled
    BY <1>0, <1>1 DEF Handled, Gives
  <1>3. \A s \in Reporters :
          /\ Len(holding'[s]) <= 1
          /\ holding'[s] # <<>> => s \in reporting' /\ Head(holding'[s]) \in delivered'
    BY <1>0 DEF ReportersOK, Gives
  <1>4. \A s, u \in Reporters :
          holding'[s] # <<>> /\ holding'[u] # <<>> /\ Head(holding'[s]) = Head(holding'[u])
            => s = u
    BY <1>0 DEF ReportersOK
  <1> QED BY <1>0, <1>2, <1>3, <1>4 DEF ReportersOK

(* A step that touches no hand.                                              *)
LEMMA NoHandKept ==
  ASSUME ReportersOK, NoHand, UNCHANGED reporting, Drained => Drained'
  PROVE  ReportersOK' /\ Handled' = Handled
  BY DEF ReportersOK, NoHand, Handled, Held

(* What is handled, and the errors among it, can be counted.               *)
LEMMA HandledFinite ==
  ASSUME JourneyOK, ReportersOK
  PROVE  /\ IsFiniteSet(Handled) /\ Cardinality(Handled) \in Nat
         /\ IsFiniteSet(ErrorsOf(Handled)) /\ Cardinality(ErrorsOf(Handled)) \in Nat
  <1>1. IsFiniteSet(Handled)
    BY FS_Subset DEF JourneyOK, Handled
  <1>2. ErrorsOf(Handled) \in SUBSET Handled
    BY DEF ErrorsOf
  <1>3. IsFiniteSet(ErrorsOf(Handled))
    BY <1>1, <1>2, FS_Subset
  <1> QED BY <1>1, <1>3, FS_CardinalityType

(* One more handled result is one more to count.                             *)
LEMMA OneMoreHandled ==
  ASSUME JourneyOK, ReportersOK, NEW x, x \notin Handled,
         Handled' = Handled \cup {x}
  PROVE  /\ Cardinality(Handled') = Cardinality(Handled) + 1
         /\ x.err => Cardinality(ErrorsOf(Handled)') = Cardinality(ErrorsOf(Handled)) + 1
         /\ ~x.err => ErrorsOf(Handled)' = ErrorsOf(Handled)
  <1>1. Cardinality(Handled \cup {x}) = Cardinality(Handled) + 1
    BY HandledFinite, FS_AddElement
  <1>2. ASSUME x.err
        PROVE  Cardinality(ErrorsOf(Handled)') = Cardinality(ErrorsOf(Handled)) + 1
    <2>1. ErrorsOf(Handled)' = ErrorsOf(Handled) \cup {x} /\ x \notin ErrorsOf(Handled)
      BY <1>2 DEF ErrorsOf
    <2>2. Cardinality(ErrorsOf(Handled) \cup {x}) = Cardinality(ErrorsOf(Handled)) + 1
      BY <2>1, HandledFinite, FS_AddElement
    <2> QED BY <2>1, <2>2
  <1>3. ASSUME ~x.err
        PROVE  ErrorsOf(Handled)' = ErrorsOf(Handled)
    BY <1>3 DEF ErrorsOf
  <1> QED BY <1>1, <1>2, <1>3

-----------------------------------------------------------------------------
(* The steps of the reporters.                                             *)

(* main's counter is a number, and 0 only when nobody is at work.          *)
LEMMA AtWork ==
  ASSUME WgOK
  PROVE  wg \in Nat /\ (wg = 0 <=> reporting = {} /\ Writing = {})
  <1>1. /\ Cardinality(reporting) \in Nat /\ Cardinality(Writing) \in Nat
        /\ Cardinality(reporting) = 0 <=> reporting = {}
        /\ Cardinality(Writing) = 0 <=> Writing = {}
    BY FS_CardinalityType, FS_EmptySet DEF WgOK
  <1> QED BY <1>1 DEF WgOK

restVars == <<wg, total, errs, writerVars, mainVars>>

(* A step that hands nothing over.                                         *)
LEMMA HandledKept ==
  ASSUME RunInv, ReportersOK', Handled' = Handled, UNCHANGED <<reporting, restVars>>
  PROVE  RunInv'
  <1>1. UNCHANGED <<wg, total, errs, writers, content, main, info, status>>
    BY DEF restVars, writerVars, mainVars
  <1>2. WritersOK'
    BY <1>1 DEF RunInv, WritersOK
  <1>3. WgOK'
    BY <1>1 DEF RunInv, WgOK, Writing
  <1>4. CountsOK'
    BY <1>1 DEF RunInv, CountsOK, ErrorsOf
  <1>5. ExitOK'
    BY <1>1 DEF RunInv, ExitOK
  <1>6. ContentOK'
    BY <1>1 DEF RunInv, ContentOK, Sole
  <1> QED BY <1>2, <1>3, <1>4, <1>5, <1>6 DEF RunInv

(* Recv hands the head of the queue to one reporter.                       *)
LEMMA TakeKeeps ==
  ASSUME DeliveryInv, RunInv, NEW r \in Reporters, Take(r)
  PROVE  RunInv'
  <1>0. JourneyOK /\ ChannelsOK /\ ReportersOK
    BY DEF DeliveryInv, TypeInv, RunInv
  <1>1. /\ r \in reporting /\ holding[r] = <<>> /\ queue # <<>>
        /\ holding' = [holding EXCEPT ![r] = <<Head(queue)>>]
        /\ delivered' = delivered \cup {Head(queue)}
        /\ UNCHANGED <<reporting, restVars>>
    BY DEF Take, Recv, restVars
  <1>2. Range(queue) = {Head(queue)} /\ Head(queue) \in Results
    BY <1>0, <1>1, OnePlace DEF ChannelsOK, QueueCap
  <1>3. Head(queue) \notin delivered
    BY <1>0, <1>2 DEF JourneyOK, PlacesApart, Apart
  <1>4. Takes(r, Head(queue))
    BY <1>1, <1>2, <1>3 DEF Takes
  <1>5. ~Drained
    BY <1>1 DEF Drained
  <1>6. ReportersOK' /\ Handled' = Handled
    BY <1>0, <1>1, <1>4, <1>5, TakesHand
  <1> QED BY <1>1, <1>6, HandledKept

(* An error or an output for stdout is counted and printed.                  *)
LEMMA ReportKeeps ==
  ASSUME DeliveryInv, RunInv, NEW r \in Reporters, Report(r)
  PROVE  RunInv'
  <1> DEFINE x == Head(holding[r])
  <1>0. /\ JourneyOK /\ ReportersOK /\ TaskDataOK /\ produced \subseteq Results
        /\ delivered \subseteq produced
    BY DEF DeliveryInv, TypeInv, RunInv, TaskDataOK, JourneyOK
  <1>1. /\ Gives(r) /\ ~WritesFile(x) /\ errs' = (IF x.err THEN errs + 1 ELSE errs)
        /\ total' = total + 1
        /\ UNCHANGED <<reporting, wg, writers, content, main, info, status, closed, queue>>
    BY DEF Report, Gives, Release, vars, forwardVars, writerVars, mainVars
  <1>2. /\ ReportersOK' /\ x \in delivered
        /\ Handled' = Handled \cup {x} /\ x \notin Handled
    BY <1>0, <1>1, GivesHand DEF Drained
  <1> HIDE DEF x
  <1>3. /\ Cardinality(Handled') = Cardinality(Handled) + 1
        /\ x.err => Cardinality(ErrorsOf(Handled)') = Cardinality(ErrorsOf(Handled)) + 1
        /\ ~x.err => ErrorsOf(Handled)' = ErrorsOf(Handled)
    BY <1>0, <1>2, OneMoreHandled
  <1>4. CountsOK'
    <2>1. CASE x.err
      BY <1>1, <1>3, <2>1 DEF RunInv, CountsOK
    <2>2. CASE ~x.err
      BY <1>1, <1>3, <2>2 DEF RunInv, CountsOK
    <2> QED BY <2>1, <2>2
  <1>5. WritersOK'
    BY <1>1, <1>2 DEF RunInv, WritersOK, WritesFile
  <1>6. WgOK' /\ ExitOK' /\ ContentOK'
    BY <1>1 DEF RunInv, WgOK, Writing, ExitOK, ContentOK, Sole
  <1> QED BY <1>2, <1>4, <1>5, <1>6 DEF RunInv

(* The writer of a new result has not been started before.                 *)
LEMMA StartWriterKeeps ==
  ASSUME DeliveryInv, ProducedOK, RunInv, main # "exited",
         NEW r \in Reporters, StartWriter(r)
  PROVE  RunInv'
  <1> DEFINE x == Head(holding[r])
             t == x.task
  <1>0. /\ JourneyOK /\ ReportersOK /\ WritersOK /\ WgOK /\ ExitOK
        /\ produced \subseteq Results /\ delivered \subseteq produced
        /\ Handled \subseteq delivered
    BY DEF DeliveryInv, TypeInv, RunInv, TaskDataOK, JourneyOK, Handled
  <1>1. /\ Gives(r) /\ WritesFile(x) /\ writers' = [writers EXCEPT ![t] = "create"]
        /\ total' = total + 1 /\ wg' = wg + 1
        /\ UNCHANGED <<reporting, errs, content, main, info, status, closed, queue>>
    BY DEF StartWriter, Gives, Release, vars, forwardVars, mainVars
  <1>2. /\ ReportersOK' /\ x \in delivered
        /\ Handled' = Handled \cup {x} /\ x \notin Handled
    BY <1>0, <1>1, GivesHand DEF Drained
  <1>3. r \in reporting
    BY <1>0, <1>1 DEF ReportersOK, Gives
  <1> HIDE DEF x
  <1>4. ~x.err /\ t \in OutTasks /\ x = Output(t)
    <2>1. ~x.err /\ x \in produced /\ x \in Results
      BY <1>0, <1>1, <1>2 DEF WritesFile
    <2> QED BY <2>1 DEF ProducedOK, Results, Output, Result
  <1> HIDE DEF t
  <1>5. writers[t] = "none"
    BY <1>0, <1>2, <1>4 DEF WritersOK
  <1>6. CountsOK'
    <2>1. /\ Cardinality(Handled') = Cardinality(Handled) + 1
          /\ ErrorsOf(Handled)' = ErrorsOf(Handled)
      BY <1>0, <1>2, <1>4, OneMoreHandled
    <2> QED BY <1>1, <2>1 DEF RunInv, CountsOK
  <1>7. /\ writers \in [OutTasks -> WriterStages]
        /\ writers' \in [OutTasks -> WriterStages]
        /\ writers'[t] = "create" /\ \A u \in OutTasks : u # t => writers'[u] = writers[u]
    BY <1>0, <1>1, <1>4 DEF WritersOK, WriterStages
  <1>8. WritersOK'
    <2>1. \A u \in OutTasks : writers'[u] # "none" => Output(u) \in Handled'
      BY <1>0, <1>2, <1>4, <1>7 DEF WritersOK
    <2>2. ASSUME NEW y \in Handled', WritesFile(y) PROVE writers'[y.task] # "none"
      <3>1. y.task \in OutTasks
        BY <1>0, <1>2, <2>2 DEF ProducedOK, WritesFile
      <3>2. y.task = t \/ y \in Handled
        BY <1>2, <1>4, <2>2 DEF Output, Result
      <3> QED BY <1>0, <1>7, <2>2, <3>1, <3>2 DEF WritersOK
    <2> QED BY <1>7, <2>1, <2>2 DEF WritersOK, WritesFile
  <1>9. WgOK'
    <2>1. Writing' = Writing \cup {t} /\ t \notin Writing
      BY <1>4, <1>5, <1>7 DEF Writing
    <2>2. /\ IsFiniteSet(Writing \cup {t})
          /\ Cardinality(Writing \cup {t}) = Cardinality(Writing) + 1
      BY <1>0, <2>1, FS_AddElement DEF WgOK
    <2>3. Cardinality(Writing) \in Nat /\ Cardinality(reporting) \in Nat
      BY <1>0, FS_CardinalityType DEF WgOK
    <2> QED BY <1>0, <1>1, <2>1, <2>2, <2>3 DEF WgOK
  <1>10. ExitOK'
    <2>1. wg # 0
      BY <1>0, <1>3, AtWork
    <2>2. main = "wait"
      BY <1>0, <2>1 DEF ExitOK
    <2> QED BY <1>0, <1>1, <2>2 DEF ExitOK
  <1>11. ContentOK'
    <2>1. ASSUME NEW u \in OutTasks, Sole(u)'
          PROVE  u = t \/ Sole(u)
      BY <1>4, <1>5, <1>7, <2>1 DEF Sole
    <2> QED BY <1>1, <1>7, <2>1 DEF RunInv, ContentOK
  <1> QED BY <1>2, <1>6, <1>8, <1>9, <1>10, <1>11 DEF RunInv

(* The fatal error leaves the result in the hand of its reporter.            *)
LEMMA FatalKeeps ==
  ASSUME RunInv, NEW r \in Reporters, Fatal(r)
  PROVE  RunInv'
  <1>1. /\ NoHand /\ total' = total + 1 /\ main' = "exited" /\ status' = 1
        /\ UNCHANGED <<reporting, errs, wg, writers, content, info, closed, queue>>
    BY DEF Fatal, NoHand, vars, forwardVars, writerVars
  <1>2. ReportersOK' /\ Handled' = Handled
    BY <1>1, NoHandKept DEF RunInv, Drained
  <1>3. WritersOK'
    BY <1>1, <1>2 DEF RunInv, WritersOK
  <1>4. WgOK' /\ CountsOK' /\ ExitOK' /\ ContentOK'
    BY <1>1 DEF RunInv, WgOK, Writing, CountsOK, ExitOK, ContentOK, Sole
  <1> QED BY <1>2, <1>3, <1>4 DEF RunInv

(* A reporter leaves its loop when the queue is drained.                     *)
LEMMA ReporterEndsKeeps ==
  ASSUME RunInv, main # "exited", NEW r \in Reporters, ReporterEnds(r)
  PROVE  RunInv'
  <1>1. /\ r \in reporting /\ holding[r] = <<>> /\ Drained
        /\ reporting' = reporting \ {r} /\ wg' = wg - 1
        /\ UNCHANGED <<holding, delivered, closed, queue>>
        /\ UNCHANGED <<total, errs, writers, content, main, info, status>>
    BY DEF ReporterEnds, vars, forwardVars, writerVars, mainVars
  <1>2. Drained' /\ Handled' = Handled
    BY <1>1 DEF Drained, Handled, Held
  <1>3. ReportersOK'
    BY <1>1, <1>2 DEF RunInv, ReportersOK
  <1>4. WgOK'
    <2>1. /\ IsFiniteSet(reporting \ {r})
          /\ Cardinality(reporting \ {r}) = Cardinality(reporting) - 1
      BY <1>1, FS_RemoveElement DEF RunInv, WgOK
    <2>2. Cardinality(Writing) \in Nat /\ Cardinality(reporting) \in Nat
      BY FS_CardinalityType DEF RunInv, WgOK
    <2>3. Writing' = Writing
      BY <1>1 DEF Writing
    <2> QED BY <1>1, <2>1, <2>2, <2>3 DEF RunInv, WgOK
  <1>5. ExitOK'
    <2>1. main = "wait"
      BY <1>1, AtWork DEF RunInv, ExitOK
    <2> QED BY <1>1, <2>1 DEF RunInv, ExitOK
  <1>6. WritersOK' /\ CountsOK' /\ ContentOK'
    BY <1>1, <1>2 DEF RunInv, WritersOK, CountsOK, ContentOK, Sole, ErrorsOf
  <1> QED BY <1>3, <1>4, <1>5, <1>6 DEF RunInv

-----------------------------------------------------------------------------
(* The steps of the writers and of main.                                   *)

(* The path of an output is one of the paths.                              *)
LEMMA PathsOfOutputs == \A t \in OutTasks : OutputPath(t) \in OutputPaths
  BY DEF OutputPaths

(* What a step of a writer does besides its file: it goes on or ends.      *)
WriterMoves(t, s) ==
    /\ writers[t] \in {"create", "write"} /\ s \in {"write", "done", "failed"}
    /\ writers' = [writers EXCEPT ![t] = s]
    /\ wg' = IF s = "write" THEN wg ELSE wg - 1
    /\ UNCHANGED <<vars, reporterVars, mainVars>>

(* All that it touches besides the file.                                     *)
LEMMA WriterMovesKeeps ==
  ASSUME RunInv, main # "exited", NEW t \in OutTasks, NEW s, WriterMoves(t, s)
  PROVE  /\ ReportersOK' /\ WritersOK' /\ WgOK' /\ CountsOK' /\ ExitOK'
         /\ writers'[t] = s /\ \A u \in OutTasks : u # t => writers'[u] = writers[u]
  <1>0. /\ writers[t] \in {"create", "write"} /\ s \in {"write", "done", "failed"}
        /\ writers' = [writers EXCEPT ![t] = s]
        /\ wg' = IF s = "write" THEN wg ELSE wg - 1
        /\ NoHand /\ UNCHANGED <<closed, queue>>
        /\ UNCHANGED <<reporting, total, errs, main, info, status>>
    BY DEF WriterMoves, NoHand, vars, forwardVars, reporterVars, mainVars
  <1>1. ReportersOK' /\ Handled' = Handled
    BY <1>0, NoHandKept DEF RunInv, Drained
  <1>2. /\ writers \in [OutTasks -> WriterStages]
        /\ writers' \in [OutTasks -> WriterStages]
        /\ writers'[t] = s /\ \A u \in OutTasks : u # t => writers'[u] = writers[u]
    BY <1>0 DEF RunInv, WritersOK, WriterStages
  <1>3. WritersOK'
    BY <1>0, <1>1, <1>2 DEF RunInv, WritersOK
  <1>4. t \in Writing
    BY <1>0 DEF Writing
  <1>5. WgOK'
    <2>0. Cardinality(Writing) \in Nat /\ Cardinality(reporting) \in Nat
      BY FS_CardinalityType DEF RunInv, WgOK
    <2>1. CASE s # "write"
      <3>1. Writing' = Writing \ {t}
        BY <1>0, <1>2, <2>1 DEF Writing
      <3>2. /\ IsFiniteSet(Writing \ {t})
            /\ Cardinality(Writing \ {t}) = Cardinality(Writing) - 1
        BY <1>4, FS_RemoveElement DEF RunInv, WgOK
      <3> QED BY <1>0, <2>0, <2>1, <3>1, <3>2 DEF RunInv, WgOK
    <2>2. CASE s = "write"
      <3>1. Writing' = Writing
        BY <1>2, <1>4, <2>2 DEF Writing
      <3> QED BY <1>0, <2>2, <3>1 DEF RunInv, WgOK
    <2> QED BY <2>1, <2>2
  <1>6. CountsOK'
    BY <1>0, <1>1 DEF RunInv, CountsOK, ErrorsOf
  <1>7. ExitOK'
    <2>1. wg # 0
      BY <1>4, AtWork DEF RunInv
    <2>2. main = "wait"
      BY <2>1 DEF RunInv, ExitOK
    <2> QED BY <1>0, <2>2 DEF RunInv, ExitOK
  <1> QED BY <1>1, <1>2, <1>3, <1>5, <1>6, <1>7

(* It is enough to look at the file of the writer that moved: the others'  *)
(* files are other files if those writers are alone with them.             *)
LEMMA ContentKept ==
  ASSUME RunInv, NEW t \in OutTasks, NEW c \in Contents,
         content' = [content EXCEPT ![OutputPath(t)] = c],
         writers[t] # "none", writers'[t] # "none",
         \A u \in OutTasks : u # t => writers'[u] = writers[u],
         Sole(t) => /\ writers'[t] = "write" => c = Empty
                    /\ writers'[t] = "done" => c = t
  PROVE  ContentOK'
  <1>1. /\ content \in [OutputPaths -> Contents] /\ content' \in [OutputPaths -> Contents]
        /\ content'[OutputPath(t)] = c
        /\ \A n \in OutputPaths : n # OutputPath(t) => content'[n] = content[n]
    BY PathsOfOutputs DEF RunInv, ContentOK
  <1>2. ASSUME NEW u \in OutTasks, Sole(u)'
        PROVE  /\ writers'[u] = "write" => content'[OutputPath(u)] = Empty
               /\ writers'[u] = "done" => content'[OutputPath(u)] = u
    <2>1. Sole(u)
      BY <1>2 DEF Sole
    <2>2. CASE u = t
      BY <1>1, <2>1, <2>2
    <2>3. CASE u # t
      <3>1. OutputPath(u) # OutputPath(t)
        BY <1>2, <2>3 DEF Sole
      <3>2. content'[OutputPath(u)] = content[OutputPath(u)]
        BY <1>1, <3>1, PathsOfOutputs
      <3>3. writers'[u] = writers[u]
        BY <2>3
      <3> QED BY <2>1, <3>2, <3>3 DEF RunInv, ContentOK
    <2> QED BY <2>2, <2>3
  <1> QED BY <1>1, <1>2 DEF ContentOK

(* A writer leaves its file empty, written, torn, or as it was.              *)
LEMMA WriterKeeps ==
  ASSUME RunInv, main # "exited", NEW t \in OutTasks, WriterStep(t)
  PROVE  RunInv'
  <1>0. content[OutputPath(t)] \in Contents
    BY PathsOfOutputs DEF RunInv, ContentOK
  <1>1. CASE Create(t)
    <2>1. /\ WriterMoves(t, "write") /\ writers[t] # "none"
          /\ content' = [content EXCEPT ![OutputPath(t)] = Empty]
      BY <1>1 DEF Create, WriterMoves
    <2>2. /\ ReportersOK' /\ WritersOK' /\ WgOK' /\ CountsOK' /\ ExitOK'
          /\ writers'[t] = "write" /\ \A u \in OutTasks : u # t => writers'[u] = writers[u]
      BY <2>1, WriterMovesKeeps
    <2>3. ContentOK'
      BY <2>1, <2>2, ContentKept DEF Contents
    <2> QED BY <2>2, <2>3 DEF RunInv
  <1>2. CASE Write(t)
    <2>1. PICK c \in IF content[OutputPath(t)] = Empty THEN {t} ELSE {t, Torn} :
            content' = [content EXCEPT ![OutputPath(t)] = c]
      BY <1>2 DEF Write
    <2>2. WriterMoves(t, "done") /\ writers[t] = "write"
      BY <1>2 DEF Write, WriterMoves
    <2>3. /\ ReportersOK' /\ WritersOK' /\ WgOK' /\ CountsOK' /\ ExitOK'
          /\ writers'[t] = "done"
          /\ \A u \in OutTasks : u # t => writers'[u] = writers[u]
      BY <2>2, WriterMovesKeeps
    <2>4. Sole(t) => c = t
      BY <2>1, <2>2 DEF RunInv, ContentOK
    <2>5. c \in Contents
      BY <2>1 DEF Contents
    <2>6. ContentOK'
      BY <2>1, <2>2, <2>3, <2>4, <2>5, ContentKept
    <2> QED BY <2>3, <2>6 DEF RunInv
  <1>3. CASE WriterFails(t)
    <2>1. WriterMoves(t, "failed") /\ writers[t] # "none"
      BY <1>3 DEF WriterFails, WriterMoves
    <2>2. /\ ReportersOK' /\ WritersOK' /\ WgOK' /\ CountsOK' /\ ExitOK'
          /\ writers'[t] = "failed"
          /\ \A u \in OutTasks : u # t => writers'[u] = writers[u]
      BY <2>1, WriterMovesKeeps
    <2>3. PICK c \in {content[OutputPath(t)], Torn} :
            content' = [content EXCEPT ![OutputPath(t)] = c]
      <3>1. CASE UNCHANGED content
        <4>1. content' = [content EXCEPT ![OutputPath(t)] = content[OutputPath(t)]]
          BY <3>1, PathsOfOutputs DEF RunInv, ContentOK
        <4> QED BY <4>1
      <3> QED BY <1>3, <3>1 DEF WriterFails
    <2>4. c \in Contents
      BY <1>0, <2>3 DEF Contents
    <2>5. ContentOK'
      BY <2>1, <2>2, <2>3, <2>4, ContentKept
    <2> QED BY <2>2, <2>5 DEF RunInv
  <1> QED BY <1>1, <1>2, <1>3 DEF WriterStep

(* main itself.                                                              *)
LEMMA MainKeeps ==
  ASSUME DeliveryInv, RunInv, WaitReturns \/ WriteInfo \/ InfoFails
  PROVE  RunInv'
  <1>1. /\ NoHand
        /\ UNCHANGED <<closed, queue, reporting, total, errs, wg, writers, content>>
    BY DEF WaitReturns, WriteInfo, InfoFails, NoHand, vars, forwardVars, reporterVars,
       writerVars
  <1>2. ReportersOK' /\ Handled' = Handled
    BY <1>1, NoHandKept DEF RunInv, Drained
  <1>3. WritersOK'
    BY <1>1, <1>2 DEF RunInv, WritersOK
  <1>4. WgOK' /\ ContentOK'
    BY <1>1 DEF RunInv, WgOK, Writing, ContentOK, Sole
  <1>5. main # "exited" /\ status = 0
    BY DEF WaitReturns, WriteInfo, InfoFails, RunInv, ExitOK
  <1>6. CountsOK'
    BY <1>1, <1>2, <1>5 DEF RunInv, CountsOK, ErrorsOf
  <1>7. ExitOK'
    <2>1. CASE WaitReturns \/ InfoFails
      BY <1>1, <1>5, <2>1 DEF WaitReturns, InfoFails, RunInv, ExitOK
    <2>2. CASE WriteInfo
      <3>1. dirBaseSuffix \subseteq Tasks
        BY DEF DeliveryInv, TypeInv, ChannelsOK
      <3>2. info' \in [total : Nat, errors : Nat, files : SUBSET Tasks]
        BY <2>2, <3>1 DEF WriteInfo, RunInv, ExitOK, CountsOK
      <3> QED BY <1>1, <1>5, <2>2, <3>2 DEF WriteInfo, ExitCodeAtDefer, RunInv, ExitOK
    <2> QED BY <2>1, <2>2
  <1> QED BY <1>2, <1>3, <1>4, <1>6, <1>7 DEF RunInv

-----------------------------------------------------------------------------
(* The invariant and what follows from it.                                 *)

(* The invariant holds initially.                                            *)
LEMMA MainInvInit == MainInit => MainInv
  <1> SUFFICES ASSUME MainInit PROVE MainInv
    OBVIOUS
  <1>1. /\ produced = {} /\ delivered = {} /\ \A r \in Reporters : holding[r] = <<>>
        /\ holding = [r \in Reporters |-> <<>>]
        /\ reporting = Reporters /\ writers = [t \in OutTasks |-> "none"]
        /\ wg = Cardinality(Reporters) /\ total = 0 /\ errs = 0
        /\ content \in [OutputPaths -> {Absent, Stale}]
        /\ main = "wait" /\ info = NoInfo /\ status = 0
    BY DEF MainInit, Init
  <1>2. Handled = {} /\ ErrorsOf(Handled) = {}
    BY <1>1 DEF Handled, ErrorsOf
  <1>3. Writing = {}
    BY <1>1 DEF Writing
  <1>4. ReportersOK
    BY <1>1 DEF ReportersOK
  <1>5. WgOK
    <2>1. IsFiniteSet(Reporters) /\ Cardinality(Reporters) \in Nat
      BY MainAssumption, FS_CardinalityType
    <2> QED BY <1>1, <1>3, <2>1, FS_EmptySet DEF WgOK
  <1>6. CountsOK
    BY <1>1, <1>2, FS_EmptySet DEF CountsOK
  <1>7. WritersOK
    BY <1>1, <1>2 DEF WritersOK, WriterStages
  <1>8. ExitOK
    BY <1>1 DEF ExitOK, NoInfo
  <1>9. ContentOK
    BY <1>1 DEF ContentOK, Contents
  <1> QED
    BY <1>1, <1>4, <1>5, <1>6, <1>7, <1>8, <1>9 DEF MainInv, RunInv, ProducedOK

(* With that of the pipeline every step keeps it.                            *)
LEMMA MainInvStep == DeliveryInv /\ MainInv /\ [MainNext]_allVars => MainInv'
  <1> SUFFICES ASSUME DeliveryInv, MainInv, [MainNext]_allVars PROVE MainInv'
    OBVIOUS
  <1>0. PcOK /\ ClosingOK /\ ProducedOK /\ RunInv
    BY DEF DeliveryInv, TypeInv, WorksInv, MainInv
  <1>1. ProducedOK'
    BY <1>0, MainStepOfHandler, NextProduced
  <1>2. CASE main # "exited" /\ MainStep
    <2> SUFFICES RunInv'
      BY <1>1 DEF MainInv
    <2>1. CASE PipelineStep /\ UNCHANGED <<reporterVars, wg, writerVars, mainVars>>
      <3>1. NoHand /\ (Drained => Drained') /\ UNCHANGED <<reporting, restVars>>
        BY <1>0, <2>1, PipelineKeeps DEF NoHand, reporterVars, restVars
      <3> QED BY <1>0, <3>1, NoHandKept, HandledKept DEF RunInv
    <2>2. CASE \E r \in Reporters : ReporterStep(r) \/ Fatal(r)
      BY <1>0, <1>2, <2>2, TakeKeeps, ReportKeeps, StartWriterKeeps, FatalKeeps,
         ReporterEndsKeeps DEF ReporterStep
    <2>3. CASE \E t \in OutTasks : WriterStep(t)
      BY <1>0, <1>2, <2>3, WriterKeeps
    <2>4. CASE WaitReturns \/ WriteInfo \/ InfoFails
      BY <1>0, <2>4, MainKeeps
    <2> QED BY <1>2, <2>1, <2>2, <2>3, <2>4 DEF MainStep
  <1>3. CASE UNCHANGED allVars
    <2>1. NoHand /\ UNCHANGED <<reporting, restVars, closed, queue>>
      BY <1>3 DEF allVars, vars, forwardVars, reporterVars, restVars, NoHand
    <2>2. RunInv'
      BY <1>0, <2>1, NoHandKept, HandledKept DEF RunInv, Drained
    <2> QED BY <1>1, <2>2 DEF MainInv
  <1> QED BY <1>2, <1>3 DEF MainNext

(* Hence both hold throughout.                                               *)
LEMMA MainInvariant == MainSpec => [](DeliveryInv /\ MainInv)
  <1>1. MainSpec => []DeliveryInv
    BY MainUsesHandler, DeliveryInvariant, PTL
  <1>2. MainSpec /\ []DeliveryInv => []MainInv
    BY MainInvInit, MainInvStep, PTL DEF MainSpec
  <1> QED BY <1>1, <1>2, PTL

\* Every variable of main and the reporters keeps its type; wg does not go
\* below zero, which would panic.
THEOREM MainTypeCorrect == MainSpec => []MainTypeOK
  <1>1. TypeOK /\ MainInv => MainTypeOK
    <2> SUFFICES ASSUME TypeOK, MainInv PROVE MainTypeOK
      OBVIOUS
    <2>1. wg \in Nat
      BY AtWork DEF MainInv, RunInv
    <2> QED
      BY <2>1 DEF MainInv, RunInv, MainTypeOK, ReportersOK, WritersOK, CountsOK, ExitOK,
                  ContentOK, Contents
  <1> QED BY <1>1, MainInvariant, MainUsesHandler, TypeCorrect, PTL

(* When main is past wg.Wait(), everything delivered has been handled.     *)
LEMMA AfterWait ==
  ASSUME RunInv, main # "wait", status = 0
  PROVE  /\ reporting = {} /\ Writing = {} /\ Drained
         /\ Handled = delivered
  <1>1. reporting = {} /\ Writing = {}
    BY AtWork DEF RunInv, ExitOK
  <1>2. reporting # Reporters
    BY <1>1, MainAssumption
  <1>3. Held = {}
    BY <1>1 DEF RunInv, ReportersOK, Held
  <1> QED BY <1>1, <1>2, <1>3 DEF RunInv, ReportersOK, Handled

\* main does not outrun its writers: when it goes on after wg.Wait(), the
\* channel is drained, each output taken from it was printed or given to a
\* writer, and every writer has ended.
THEOREM WritersCorrect == MainSpec => []NoWriterCutOff
  <1>1. DeliveryInv /\ MainInv => NoWriterCutOff
    <2> SUFFICES ASSUME DeliveryInv, MainInv, main # "wait", status = 0
                 PROVE  /\ queue = <<>> /\ closed
                        /\ \A r \in delivered : WritesFile(r) => writers[r.task] \in {"done", "failed"}
                        /\ \A t \in OutTasks : writers[t] \in {"none", "done", "failed"}
      BY DEF NoWriterCutOff
    <2>0. RunInv /\ WritersOK /\ ProducedOK /\ delivered \subseteq produced
      BY DEF MainInv, RunInv, DeliveryInv, JourneyOK
    <2>1. Writing = {} /\ Drained /\ Handled = delivered
      BY <2>0, AfterWait
    <2>2. \A t \in OutTasks : writers[t] \in {"none", "done", "failed"}
      BY <2>0, <2>1 DEF Writing, WritersOK, WriterStages
    <2>3. \A r \in delivered : WritesFile(r) => writers[r.task] \in {"done", "failed"}
      BY <2>0, <2>1, <2>2 DEF WritersOK, WritesFile, ProducedOK
    <2> QED BY <2>1, <2>2, <2>3 DEF Drained
  <1> QED BY <1>1, MainInvariant, PTL

\* The totals main prints count every delivered result and every delivered
\* error once, however the reporters interleave.
THEOREM CountsCorrect == MainSpec => []CountsExact
  <1>1. MainInv => CountsExact
    BY AfterWait DEF MainInv, RunInv, CountsOK, CountsExact, ErrorsOf
  <1> QED BY <1>1, MainInvariant, PTL

\* An output whose file no other output was given a writer for is there in
\* full, and nothing else is, once its writer has ended: whatever the paths of
\* the outputs are, however the writers interleave, and however long a file of
\* an earlier run was there.
THEOREM FilesCorrect == MainSpec => []SoleOutputIntact
  <1>1. MainInv => SoleOutputIntact
    BY DEF MainInv, RunInv, ContentOK, SoleOutputIntact
  <1> QED BY <1>1, MainInvariant, PTL
=============================================================================
