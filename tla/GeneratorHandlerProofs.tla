----------------------- MODULE GeneratorHandlerProofs -----------------------
(***************************************************************************)
(* Proofs about GeneratorHandler, for any number of paths, files,          *)
(* generators, messages and slots.                                         *)
(*                                                                         *)
(* The argument for the WaitGroup: every step of the pipeline moves one    *)
(* counted task, ends one, starts one from a counted task, or is Launch,   *)
(* which happens before the waiters exist.  Hence the counter is the       *)
(* number of counted tasks, it cannot leave 0 once all paths are launched, *)
(* and the cancellation that works.Wait() makes finds nobody at work.      *)
(***************************************************************************)
EXTENDS GeneratorHandler, FiniteSetTheorems, SequenceTheorems, TLAPS

Live == Stages \ Ended

\* What the programs of the tasks rely on.
PcOK ==
    /\ pc \in [Tasks -> Stages]
    /\ msgs \in [Files \X Gens -> 0..MaxMsgs]

WorksInv ==
    /\ PcOK
    /\ IsFiniteSet(Outstanding)
    /\ WorksBalanced
    /\ CancelAfterWork

-----------------------------------------------------------------------------
(* The four things a step can do to the counted tasks.                     *)

Moves == \E t \in Tasks, s \in Live :
    /\ pc[t] \in Live /\ pc' = [pc EXCEPT ![t] = s]
    /\ works' = works

Ends == \E t \in Tasks :
    /\ pc[t] \in Live /\ pc' = [pc EXCEPT ![t] = "done"]
    /\ works' = works - 1

Forks == \E t, u \in Tasks, s, b \in Live :
    /\ pc[t] \in Live /\ pc[u] = "idle"
    /\ pc' = [pc EXCEPT ![t] = s, ![u] = b]
    /\ works' = works + 1

Launches == \E p \in Paths, s \in Live :
    /\ pc[PathTask(p)] = "idle"
    /\ pc' = [pc EXCEPT ![PathTask(p)] = s]
    /\ works' = works + 1

TaskEffect == Moves \/ Ends \/ Forks \/ Launches

(* The names of tasks.                                                     *)
LEMMA TaskNames ==
    /\ \A p \in Paths : PathTask(p) \in Tasks
    /\ \A f \in Files : FileTask(f) \in Tasks
    /\ \A f \in Files, g \in Gens : ReqTask(f, g) \in Tasks
    /\ \A f \in Files, g \in Gens, k \in 1..MaxMsgs : OutTask(f, g, k) \in Tasks
  <1>1. \A p \in Paths : PathTask(p) \in Tasks
    BY DEF Tasks, PathTasks
  <1>2. \A f \in Files : FileTask(f) \in Tasks
    BY DEF Tasks, FileTasks
  <1>3. \A f \in Files, g \in Gens : ReqTask(f, g) \in Tasks
    <2> SUFFICES ASSUME NEW f \in Files, NEW g \in Gens
                 PROVE  ReqTask(f, g) \in ReqTasks
      BY DEF Tasks
    <2>1. <<f, g>> \in Files \X Gens /\ <<f, g>>[1] = f /\ <<f, g>>[2] = g
      OBVIOUS
    <2> QED BY <2>1 DEF ReqTasks
  <1>4. \A f \in Files, g \in Gens, k \in 1..MaxMsgs : OutTask(f, g, k) \in Tasks
    <2> SUFFICES ASSUME NEW f \in Files, NEW g \in Gens, NEW k \in 1..MaxMsgs
                 PROVE  OutTask(f, g, k) \in OutTasks
      BY DEF Tasks
    <2>1. /\ <<f, g, k>> \in Files \X Gens \X (1..MaxMsgs)
          /\ <<f, g, k>>[1] = f /\ <<f, g, k>>[2] = g /\ <<f, g, k>>[3] = k
      OBVIOUS
    <2> QED BY <2>1 DEF OutTasks
  <1> QED BY <1>1, <1>2, <1>3, <1>4

(* Tasks of different kinds are different.                                 *)
LEMMA TaskKinds ==
    /\ \A f, p : FileTask(f) # PathTask(p)
    /\ \A f, g, f2 : ReqTask(f, g) # FileTask(f2)
    /\ \A f, g, k, f2, g2 : OutTask(f, g, k) # ReqTask(f2, g2)
  BY DEF PathTask, FileTask, ReqTask, OutTask

LEMMA MoveEffect ==
  ASSUME NEW t \in Tasks, NEW from \in Live, NEW to \in Live,
         Move(t, from, to), works' = works
  PROVE  TaskEffect
  BY DEF Move, TaskEffect, Moves

LEMMA EndEffect ==
  ASSUME NEW t \in Tasks, NEW from \in Live, End(t, from)
  PROVE  TaskEffect
  BY DEF End, Move, TaskEffect, Ends

LEMMA ForkEffect ==
  ASSUME NEW t \in Tasks, NEW u \in Tasks, NEW from \in Live, NEW to \in Live,
         NEW start \in Live, Fork(t, from, to, u, start)
  PROVE  TaskEffect
  BY DEF Fork, TaskEffect, Forks

LEMMA LiveStages ==
  Live = { "lookup", "spawn", "acquire", "load", "parse", "dispatch", "offered",
           "generate", "emit", "report", "fail", "dir", "result", "ending" }
  BY DEF Live, Stages, Ended

-----------------------------------------------------------------------------
(* Each action has one of the four effects.                                *)

LEMMA PathEffect ==
  ASSUME NEW p \in Paths, PathStep(p)
  PROVE  TaskEffect /\ msgs' = msgs /\ UNCHANGED <<ctxDone, signaled>>
  <1> DEFINE t == PathTask(p)
  <1>0. t \in Tasks
    BY TaskNames
  <1>1. CASE Launch(p)
    <2>1. TaskEffect
      BY <1>1, LiveStages DEF Launch, Move, TaskEffect, Launches
    <2> QED BY <1>1, <2>1 DEF Launch, OnlyTasks, ctxVars
  <1>2. CASE LookupFails(p)
    <2>1. TaskEffect
      BY <1>0, <1>2, EndEffect, LiveStages DEF LookupFails
    <2> QED BY <1>2, <2>1 DEF LookupFails, OnlyTasks, ctxVars
  <1>3. CASE LookupFinds(p)
    <2>1. TaskEffect
      BY <1>0, <1>3, MoveEffect, LiveStages DEF LookupFinds
    <2> QED BY <1>3, <2>1 DEF LookupFinds, OnlyTasks, ctxVars
  <1>4. CASE PathDone(p)
    <2>1. TaskEffect
      BY <1>0, <1>4, EndEffect, LiveStages DEF PathDone
    <2> QED BY <1>4, <2>1 DEF PathDone, OnlyTasks, ctxVars
  <1> QED BY <1>1, <1>2, <1>3, <1>4 DEF PathStep

LEMMA FileEffect ==
  ASSUME NEW f \in Files, FileStep(f)
  PROVE  (TaskEffect \/ UNCHANGED <<pc, works>>)
         /\ msgs' = msgs /\ UNCHANGED <<ctxDone, signaled>>
  <1> DEFINE t == FileTask(f)
  <1>0. t \in Tasks /\ PathTask(PathOf[f]) \in Tasks
    BY TaskNames, HandlerAssumption
  <1>1. CASE SpawnFile(f)
    <2>1. TaskEffect
      BY <1>0, <1>1, ForkEffect, LiveStages DEF SpawnFile
    <2> QED BY <1>1, <2>1 DEF SpawnFile, OnlyTasks, ctxVars
  <1>2. CASE AcquireLoad(f)
    <2>1. TaskEffect
      BY <1>0, <1>2, MoveEffect, LiveStages DEF AcquireLoad, Acquire
    <2> QED BY <1>2, <2>1 DEF AcquireLoad, OnlyTasks, ctxVars
  <1>3. CASE Post(f)
    <2>1. TaskEffect
      BY <1>0, <1>3, MoveEffect, LiveStages DEF Post
    <2> QED BY <1>3, <2>1 DEF Post, OnlyTasks, ctxVars
  <1>4. CASE LoadFails(f)
    <2>1. TaskEffect
      BY <1>0, <1>4, EndEffect, LiveStages DEF LoadFails
    <2> QED BY <1>4, <2>1 DEF LoadFails, OnlyTasks, ctxVars
  <1>5. CASE LoadSucceeds(f)
    <2>1. TaskEffect
      BY <1>0, <1>5, MoveEffect, LiveStages DEF LoadSucceeds
    <2> QED BY <1>5, <2>1 DEF LoadSucceeds, OnlyTasks, ctxVars
  <1>6. CASE FileDone(f)
    <2>1. TaskEffect
      BY <1>0, <1>6, EndEffect, LiveStages DEF FileDone
    <2> QED BY <1>6, <2>1 DEF FileDone, OnlyTasks, ctxVars
  <1>7. CASE SendError(f)
    BY <1>7 DEF SendError, ctxVars
  <1> QED BY <1>1, <1>2, <1>3, <1>4, <1>5, <1>6, <1>7 DEF FileStep

LEMMA NextMsgType ==
  ASSUME PcOK, NEW f \in Files, NEW g \in Gens, CountMsg(f, g)
  PROVE  NextMsg(f, g) \in 1..MaxMsgs /\ msgs' \in [Files \X Gens -> 0..MaxMsgs]
  <1>1. <<f, g>> \in Files \X Gens /\ MaxMsgs \in Nat
    BY HandlerAssumption
  <1>2. msgs[<<f, g>>] \in 0..MaxMsgs
    BY <1>1 DEF PcOK
  <1> QED BY <1>1, <1>2 DEF PcOK, CountMsg, NextMsg

LEMMA ReqEffect ==
  ASSUME PcOK, NEW f \in Files, NEW g \in Gens, ReqStep(f, g)
  PROVE  /\ TaskEffect
         /\ msgs' = msgs \/ msgs' \in [Files \X Gens -> 0..MaxMsgs]
         /\ UNCHANGED <<ctxDone, signaled>>
  <1> DEFINE t == ReqTask(f, g)
  <1>0. t \in Tasks /\ FileTask(f) \in Tasks
    BY TaskNames
  <1>1. CASE Offer(f, g)
    <2>1. TaskEffect
      BY <1>0, <1>1, ForkEffect, LiveStages DEF Offer
    <2> QED BY <1>1, <2>1 DEF Offer, OnlyTasks, ctxVars
  <1>2. CASE Accept(f, g)
    <2>1. TaskEffect
      BY <1>0, <1>2, MoveEffect, LiveStages DEF Accept
    <2> QED BY <1>2, <2>1 DEF Accept, OnlyTasks, ctxVars
  <1>3. CASE AcquireGenerate(f, g)
    <2>1. TaskEffect
      BY <1>0, <1>3, MoveEffect, LiveStages DEF AcquireGenerate, Acquire
    <2> QED BY <1>3, <2>1 DEF AcquireGenerate, OnlyTasks, ctxVars
  <1>4. CASE GenerateSucceeds(f, g)
    <2>1. TaskEffect
      BY <1>0, <1>4, MoveEffect, LiveStages DEF GenerateSucceeds
    <2> QED BY <1>4, <2>1 DEF GenerateSucceeds, OnlyTasks, ctxVars
  <1>5. CASE GenerateFails(f, g)
    <2>1. TaskEffect
      BY <1>0, <1>5, MoveEffect, LiveStages DEF GenerateFails
    <2> QED BY <1>5, <2>1 DEF GenerateFails, OnlyTasks, ctxVars
  <1>6. CASE EmitOutput(f, g)
    <2>1. NextMsg(f, g) \in 1..MaxMsgs /\ msgs' \in [Files \X Gens -> 0..MaxMsgs]
      BY <1>6, NextMsgType DEF EmitOutput
    <2>2. OutTask(f, g, NextMsg(f, g)) \in Tasks
      BY <2>1, TaskNames
    <2>3. TaskEffect
      BY <1>0, <1>6, <2>2, ForkEffect, LiveStages DEF EmitOutput
    <2> QED BY <1>6, <2>1, <2>3 DEF EmitOutput, OnlyTasks, ctxVars
  <1>7. CASE EmitReport(f, g)
    <2>1. msgs' \in [Files \X Gens -> 0..MaxMsgs]
      BY <1>7, NextMsgType DEF EmitReport
    <2>2. TaskEffect
      BY <1>0, <1>7, MoveEffect, LiveStages DEF EmitReport
    <2> QED BY <1>7, <2>1, <2>2 DEF EmitReport, OnlyTasks, ctxVars
  <1>8. CASE SendReport(f, g)
    <2>1. TaskEffect
      BY <1>0, <1>8, MoveEffect, LiveStages DEF SendReport, OnlySend
    <2> QED BY <1>8, <2>1 DEF SendReport, OnlySend, ctxVars
  <1>9. CASE SendFailure(f, g)
    <2>1. TaskEffect
      BY <1>0, <1>9, MoveEffect, LiveStages DEF SendFailure, OnlySend
    <2> QED BY <1>9, <2>1 DEF SendFailure, OnlySend, ctxVars
  <1>10. CASE HandlerDone(f, g)
    <2>1. TaskEffect
      BY <1>0, <1>10, EndEffect, LiveStages DEF HandlerDone
    <2> QED BY <1>10, <2>1 DEF HandlerDone, OnlyTasks, ctxVars
  <1> QED
    BY <1>1, <1>2, <1>3, <1>4, <1>5, <1>6, <1>7, <1>8, <1>9, <1>10 DEF ReqStep

LEMMA OutEffect ==
  ASSUME NEW f \in Files, NEW g \in Gens, NEW k \in 1..MaxMsgs, OutStep(f, g, k)
  PROVE  TaskEffect /\ msgs' = msgs /\ UNCHANGED <<ctxDone, signaled>>
  <1> DEFINE t == OutTask(f, g, k)
  <1>0. t \in Tasks
    BY TaskNames
  <1>1. CASE SendDir(f, g, k)
    <2>1. TaskEffect
      BY <1>0, <1>1, MoveEffect, LiveStages DEF SendDir
    <2> QED BY <1>1, <2>1 DEF SendDir, ctxVars
  <1>2. CASE SendResult(f, g, k)
    <2>1. TaskEffect
      BY <1>0, <1>2, MoveEffect, LiveStages DEF SendResult, OnlySend
    <2> QED BY <1>2, <2>1 DEF SendResult, OnlySend, ctxVars
  <1>3. CASE OutputDone(f, g, k)
    <2>1. TaskEffect
      BY <1>0, <1>3, EndEffect, LiveStages DEF OutputDone
    <2> QED BY <1>3, <2>1 DEF OutputDone, OnlyTasks, ctxVars
  <1> QED BY <1>1, <1>2, <1>3 DEF OutStep

(* The other goroutines leave the tasks alone; two of them cancel.         *)
Cancels == ctxDone' = TRUE /\ (signaled' = TRUE \/ (Launched /\ works = 0))

LEMMA OtherEffect ==
  ASSUME HandlerStep \/ Signal \/ Recv \/ Rest
  PROVE  /\ UNCHANGED <<pc, works, msgs>>
         /\ UNCHANGED <<ctxDone, signaled>> \/ Cancels
  <1>1. CASE CancelWhenDone
    BY <1>1 DEF CancelWhenDone, OnlyCtx, taskVars, Cancels
  <1>2. CASE Signal
    BY <1>2 DEF Signal, OnlyCtx, taskVars, Cancels
  <1>3. CASE ServerListens \/ StopWaits \/ RequestStop
    BY <1>3 DEF ServerListens, StopWaits, RequestStop, OnlyHTTP, taskVars, ctxVars
  <1>4. CASE CollectorReceives \/ CollectorAppends \/ CollectorReturns
    BY <1>4 DEF CollectorReceives, CollectorAppends, CollectorReturns,
                OnlyCollector, taskVars, ctxVars
  <1>5. CASE ForwardResult \/ ForwardError \/ ForwardPuts \/ ForwardCloses
    BY <1>5 DEF ForwardResult, ForwardError, ForwardPuts, ForwardCloses,
                OnlyForward, taskVars, ctxVars
  <1>6. CASE \E g \in Gens : RunReturns(g)
    BY <1>6 DEF RunReturns, taskVars
  <1>7. CASE Recv
    BY <1>7 DEF Recv, taskVars, ctxVars
  <1>8. CASE Rest
    BY <1>8 DEF Rest, vars, taskVars, ctxVars
  <1> QED BY <1>1, <1>2, <1>3, <1>4, <1>5, <1>6, <1>7, <1>8 DEF HandlerStep

-----------------------------------------------------------------------------
(* The counter follows the counted tasks.                                  *)

LEMMA StageSplit ==
  ASSUME NEW t \in Tasks, PcOK
  PROVE  t \in Outstanding <=> pc[t] \in Live
  BY DEF PcOK, Outstanding, Live

LEMMA EffectCounts ==
  ASSUME PcOK, IsFiniteSet(Outstanding), WorksBalanced, TaskEffect
  PROVE  /\ pc' \in [Tasks -> Stages]
         /\ IsFiniteSet(Outstanding')
         /\ works' = Cardinality(Outstanding')
         /\ Outstanding = {} => ~Launched
  <1>0. /\ Cardinality(Outstanding) \in Nat /\ works = Cardinality(Outstanding)
        /\ pc \in [Tasks -> Stages] /\ Live \subseteq Stages
        /\ "done" \in Stages /\ "done" \notin Live /\ "idle" \notin Live
        /\ \A s \in Live : s \notin Ended
        /\ "done" \in Ended /\ "idle" \in Ended
    BY FS_CardinalityType DEF PcOK, WorksBalanced, Live, Stages, Ended
  <1>1. CASE Moves
    <2>1. PICK t \in Tasks, s \in Live :
            pc[t] \in Live /\ pc' = [pc EXCEPT ![t] = s] /\ works' = works
      BY <1>1 DEF Moves
    <2>2. Outstanding' = Outstanding
      BY <1>0, <2>1 DEF Outstanding
    <2>3. t \in Outstanding
      BY <1>0, <2>1 DEF Outstanding
    <2> QED BY <1>0, <2>1, <2>2, <2>3
  <1>2. CASE Ends
    <2>1. PICK t \in Tasks :
            pc[t] \in Live /\ pc' = [pc EXCEPT ![t] = "done"] /\ works' = works - 1
      BY <1>2 DEF Ends
    <2>2. t \in Outstanding /\ Outstanding' = Outstanding \ {t}
      BY <1>0, <2>1 DEF Outstanding
    <2>3. /\ IsFiniteSet(Outstanding \ {t})
          /\ Cardinality(Outstanding \ {t}) = Cardinality(Outstanding) - 1
      BY <2>2, FS_RemoveElement
    <2>4. pc' \in [Tasks -> Stages]
      BY <1>0, <2>1
    <2> QED BY <1>0, <2>1, <2>2, <2>3, <2>4
  <1>3. CASE Forks
    <2>1. PICK t \in Tasks, u \in Tasks, s \in Live, b \in Live :
            /\ pc[t] \in Live /\ pc[u] = "idle"
            /\ pc' = [pc EXCEPT ![t] = s, ![u] = b] /\ works' = works + 1
      BY <1>3 DEF Forks
    <2>2. t # u /\ t \in Outstanding /\ u \notin Outstanding
      BY <1>0, <2>1 DEF Outstanding
    <2>3. Outstanding' = Outstanding \cup {u}
      BY <1>0, <2>1, <2>2 DEF Outstanding
    <2>4. /\ IsFiniteSet(Outstanding \cup {u})
          /\ Cardinality(Outstanding \cup {u}) = Cardinality(Outstanding) + 1
      BY <2>2, FS_AddElement
    <2>5. pc' \in [Tasks -> Stages]
      BY <1>0, <2>1
    <2> QED BY <1>0, <2>1, <2>2, <2>3, <2>4, <2>5
  <1>4. CASE Launches
    <2>1. PICK p \in Paths, s \in Live :
            /\ pc[PathTask(p)] = "idle"
            /\ pc' = [pc EXCEPT ![PathTask(p)] = s] /\ works' = works + 1
      BY <1>4 DEF Launches
    <2> DEFINE u == PathTask(p)
    <2>2. u \in Tasks /\ u \notin Outstanding
      BY <1>0, <2>1, TaskNames DEF Outstanding
    <2>3. Outstanding' = Outstanding \cup {u}
      BY <1>0, <2>1, <2>2 DEF Outstanding
    <2>4. /\ IsFiniteSet(Outstanding \cup {u})
          /\ Cardinality(Outstanding \cup {u}) = Cardinality(Outstanding) + 1
      BY <2>2, FS_AddElement
    <2>5. pc' \in [Tasks -> Stages]
      BY <1>0, <2>1, <2>2
    <2>6. ~Launched
      BY <2>1 DEF Launched
    <2> QED BY <1>0, <2>1, <2>2, <2>3, <2>4, <2>5, <2>6
  <1> QED BY <1>1, <1>2, <1>3, <1>4 DEF TaskEffect

(* Without work nothing is Outstanding, and conversely.                    *)
LEMMA NoWork ==
  ASSUME IsFiniteSet(Outstanding), WorksBalanced
  PROVE  works = 0 <=> Outstanding = {}
  BY FS_EmptySet DEF WorksBalanced

LEMMA StepEffect ==
  ASSUME PcOK, Next
  PROVE  /\ TaskEffect \/ UNCHANGED <<pc, works>>
         /\ msgs' \in [Files \X Gens -> 0..MaxMsgs]
         /\ \/ UNCHANGED <<ctxDone, signaled>>
            \/ Cancels /\ UNCHANGED <<pc, works>>
  <1>0. msgs \in [Files \X Gens -> 0..MaxMsgs]
    BY DEF PcOK
  <1>1. CASE \E p \in Paths : PathStep(p)
    BY <1>0, <1>1, PathEffect
  <1>2. CASE \E f \in Files : FileStep(f)
    BY <1>0, <1>2, FileEffect
  <1>3. CASE \E f \in Files, g \in Gens : ReqStep(f, g)
    BY <1>0, <1>3, ReqEffect
  <1>4. CASE \E f \in Files, g \in Gens, k \in 1..MaxMsgs : OutStep(f, g, k)
    BY <1>0, <1>4, OutEffect
  <1>5. CASE HandlerStep \/ Signal \/ Recv \/ Rest
    BY <1>0, <1>5, OtherEffect
  <1> QED BY <1>1, <1>2, <1>3, <1>4, <1>5 DEF Next, PipelineStep

LEMMA LaunchedStays ==
  ASSUME PcOK, Launched, TaskEffect \/ UNCHANGED <<pc, works>>
  PROVE  Launched'
  <1> SUFFICES ASSUME NEW p \in Paths
               PROVE  pc'[PathTask(p)] # "idle"
    BY DEF Launched
  <1>0. /\ pc \in [Tasks -> Stages] /\ PathTask(p) \in Tasks
        /\ pc[PathTask(p)] # "idle" /\ \A s \in Live : s # "idle"
    BY TaskNames, LiveStages DEF PcOK, Launched
  <1>1. CASE Moves
    BY <1>0, <1>1 DEF Moves
  <1>2. CASE Ends
    BY <1>0, <1>2 DEF Ends
  <1>3. CASE Forks
    BY <1>0, <1>3 DEF Forks
  <1>4. CASE Launches
    BY <1>0, <1>4 DEF Launches, Launched
  <1> QED BY <1>0, <1>1, <1>2, <1>3, <1>4 DEF TaskEffect

-----------------------------------------------------------------------------
(* The invariant and what follows from it.                                 *)

LEMMA WorksInvInit == Init => WorksInv
  <1> SUFFICES ASSUME Init PROVE WorksInv
    OBVIOUS
  <1>1. pc = [t \in Tasks |-> "idle"] /\ "idle" \in Ended /\ "idle" \in Stages
    BY DEF Init, Stages, Ended
  <1>2. Outstanding = {}
    BY <1>1 DEF Outstanding
  <1>3. PcOK
    BY <1>1, HandlerAssumption DEF Init, PcOK
  <1> QED
    BY <1>2, <1>3, FS_EmptySet DEF Init, WorksInv, WorksBalanced, CancelAfterWork

LEMMA WorksInvStep == WorksInv /\ [Next]_vars => WorksInv'
  <1> SUFFICES ASSUME WorksInv, [Next]_vars PROVE WorksInv'
    OBVIOUS
  <1>0. PcOK /\ IsFiniteSet(Outstanding) /\ WorksBalanced /\ CancelAfterWork
    BY DEF WorksInv
  <1>1. CASE Next
    <2>1. /\ TaskEffect \/ UNCHANGED <<pc, works>>
          /\ msgs' \in [Files \X Gens -> 0..MaxMsgs]
          /\ UNCHANGED <<ctxDone, signaled>>
             \/ (Cancels /\ UNCHANGED <<pc, works>>)
      BY <1>0, <1>1, StepEffect
    <2>2. PcOK' /\ IsFiniteSet(Outstanding') /\ WorksBalanced'
      <3>1. CASE TaskEffect
        BY <1>0, <2>1, <3>1, EffectCounts DEF PcOK, WorksBalanced
      <3>2. CASE UNCHANGED <<pc, works>>
        BY <1>0, <2>1, <3>2 DEF PcOK, WorksBalanced, Outstanding
      <3> QED BY <2>1, <3>1, <3>2
    <2>3. CancelAfterWork'
      <3> SUFFICES ASSUME ctxDone', ~signaled'
                   PROVE  Launched' /\ Outstanding' = {}
        BY DEF CancelAfterWork
      <3>1. CASE UNCHANGED <<ctxDone, signaled>>
        <4>1. Launched /\ Outstanding = {}
          BY <1>0, <3>1 DEF CancelAfterWork
        <4>2. ~TaskEffect
          BY <1>0, <4>1, EffectCounts
        <4> QED BY <2>1, <4>1, <4>2 DEF Launched, Outstanding
      <3>2. CASE Cancels /\ UNCHANGED <<pc, works>>
        <4>1. Launched /\ works = 0
          BY <3>2 DEF Cancels
        <4> QED BY <1>0, <3>2, <4>1, NoWork DEF Launched, Outstanding
      <3> QED BY <2>1, <3>1, <3>2
    <2> QED BY <2>2, <2>3 DEF WorksInv
  <1>2. CASE UNCHANGED vars
    BY <1>0, <1>2 DEF vars, taskVars, ctxVars, WorksInv, PcOK, WorksBalanced,
                      Outstanding, CancelAfterWork, Launched
  <1> QED BY <1>1, <1>2

LEMMA WorksInvariant == Spec => []WorksInv
  BY WorksInvInit, WorksInvStep, PTL DEF Spec

\* The Adds and Dones of the WaitGroup `works` balance on every path through
\* generateAST, handleRequest and sendGenerated.
THEOREM WorksCorrect == Spec => []WorksBalanced
  <1>1. WorksInv => WorksBalanced
    BY DEF WorksInv
  <1> QED BY <1>1, WorksInvariant, PTL

\* cancel() by works.Wait() finds every path launched and no goroutine of the
\* pipeline left: no subprocess is killed and no sender abandoned.
THEOREM CancelCorrect == Spec => []CancelAfterWork
  <1>1. WorksInv => CancelAfterWork
    BY DEF WorksInv
  <1> QED BY <1>1, WorksInvariant, PTL

\* Once works.Wait() may return, no Add reopens the WaitGroup.
THEOREM WorksStays == Spec => WorksStaysZero
  <1>1. WorksInv /\ [Next]_vars => [Launched /\ works = 0 => works' = 0]_vars
    <2> SUFFICES ASSUME WorksInv, Next, Launched, works = 0
                 PROVE  works' = 0
      OBVIOUS
    <2>1. Outstanding = {} /\ PcOK /\ IsFiniteSet(Outstanding) /\ WorksBalanced
      BY NoWork DEF WorksInv
    <2>2. ~TaskEffect
      BY <2>1, EffectCounts
    <2> QED BY <2>1, <2>2, StepEffect
  <1> QED BY <1>1, WorksInvariant, PTL DEF Spec, WorksStaysZero

-----------------------------------------------------------------------------
(***************************************************************************)
(* The type invariant.  Two of its conjuncts are not inductive by          *)
(* themselves: `reqwg` stays a natural number because it counts the files  *)
(* at work, and `slots` stays within the capacity of loadAstBlock because  *)
(* it counts the tasks that hold a slot.  Both balances are proved with it.*)
(***************************************************************************)
FilesAtWork == Outstanding \cap FileTasks

\* A task of stage s that holds a slot.
Holds(t, s) == s \in SlotStages \/ (t \in ReqTasks /\ s = "ending")

TaskDataOK == errTasks \subseteq Files /\ produced \subseteq Results

ChannelsOK ==
    /\ resultQueue \in Seq(Results) /\ Len(resultQueue) <= ResultCap
    /\ errQueue \in Seq(Results) /\ Len(errQueue) <= ErrCap
    /\ dirChan \in Seq(Tasks) /\ Len(dirChan) <= DirCap
    /\ queue \in Seq(Results) /\ Len(queue) <= QueueCap
    /\ forwarding \in Seq(Results) /\ Len(forwarding) <= 1
    /\ collecting \in Seq(Tasks) /\ Len(collecting) <= 1
    /\ delivered \subseteq Results
    /\ dirBaseSuffix \subseteq Tasks

FlagsOK ==
    /\ closed \in BOOLEAN
    /\ collector \in {"select", "returned"}
    /\ running \in [Gens -> BOOLEAN]
    /\ ctxDone \in BOOLEAN /\ signaled \in BOOLEAN
    /\ stopper \in {"wait", "stop", "done"}
    /\ server \in {"none", "starting", "up", "stopped"}

SlotInv == IsFiniteSet(SlotHolders) /\ SlotsHeld /\ slots <= Slots
ReqwgInv == IsFiniteSet(FilesAtWork) /\ ReqwgBalanced

\* A request in "report" sends the reply it has counted last.
ReportOK == \A f \in Files, g \in Gens :
    pc[ReqTask(f, g)] = "report" => msgs[<<f, g>>] >= 1

TypeInv == /\ WorksInv /\ SlotInv /\ ReqwgInv
           /\ TaskDataOK /\ ReportOK /\ ChannelsOK /\ FlagsOK

-----------------------------------------------------------------------------
(* Counting.                                                               *)

\* What a step may do to a set and its counter.
Counts(S, T, n, m) ==
    \/ T = S /\ m = n
    \/ \E t : t \notin S /\ T = S \cup {t} /\ m = n + 1
    \/ \E t : t \in S /\ T = S \ {t} /\ m = n - 1

LEMMA CountKept ==
  ASSUME NEW S, NEW T, NEW n, NEW m,
         IsFiniteSet(S), n = Cardinality(S), Counts(S, T, n, m)
  PROVE  IsFiniteSet(T) /\ m = Cardinality(T)
  <1>1. CASE T = S /\ m = n
    BY <1>1
  <1>2. CASE \E t : t \notin S /\ T = S \cup {t} /\ m = n + 1
    BY <1>2, FS_AddElement
  <1>3. CASE \E t : t \in S /\ T = S \ {t} /\ m = n - 1
    BY <1>3, FS_RemoveElement
  <1> QED BY <1>1, <1>2, <1>3 DEF Counts

(* Which tasks are files and requests.                                     *)
LEMMA Kinds ==
    /\ \A p \in Paths : PathTask(p) \notin FileTasks /\ PathTask(p) \notin ReqTasks
    /\ \A f \in Files : FileTask(f) \in FileTasks /\ FileTask(f) \notin ReqTasks
    /\ \A f \in Files, g \in Gens :
         ReqTask(f, g) \in ReqTasks /\ ReqTask(f, g) \notin FileTasks
    /\ \A f \in Files, g \in Gens, k \in 1..MaxMsgs :
         OutTask(f, g, k) \notin ReqTasks /\ OutTask(f, g, k) \notin FileTasks
    /\ \A f \in Files, h \in Files : FileTask(f) = FileTask(h) => f = h
  <1>1. \A f \in Files, g \in Gens : ReqTask(f, g) \in ReqTasks
    <2> SUFFICES ASSUME NEW f \in Files, NEW g \in Gens
                 PROVE  ReqTask(f, g) \in ReqTasks
      OBVIOUS
    <2>1. <<f, g>> \in Files \X Gens /\ <<f, g>>[1] = f /\ <<f, g>>[2] = g
      OBVIOUS
    <2> QED BY <2>1 DEF ReqTasks
  <1>2. \A p : PathTask(p) \notin FileTasks /\ PathTask(p) \notin ReqTasks
    BY DEF PathTask, FileTask, ReqTask, FileTasks, ReqTasks
  <1>3. \A f : FileTask(f) \notin ReqTasks
    BY DEF FileTask, ReqTask, ReqTasks
  <1>4. \A f, g : ReqTask(f, g) \notin FileTasks
    BY DEF FileTask, ReqTask, FileTasks
  <1>5. \A f, g, k : OutTask(f, g, k) \notin ReqTasks /\ OutTask(f, g, k) \notin FileTasks
    BY DEF FileTask, ReqTask, OutTask, FileTasks, ReqTasks
  <1>6. \A f \in Files : FileTask(f) \in FileTasks
    BY DEF FileTasks
  <1>7. \A f \in Files, h \in Files : FileTask(f) = FileTask(h) => f = h
    BY DEF FileTask
  <1> QED BY <1>1, <1>2, <1>3, <1>4, <1>5, <1>6, <1>7

LEMMA HoldersAre ==
  SlotHolders = {t \in Tasks : Holds(t, pc[t])}
  BY DEF SlotHolders, Holds, Tasks

LEMMA FilesAtWorkAre ==
  FilesAtWork = {t \in FileTasks : pc[t] \notin Ended}
  BY DEF FilesAtWork, Outstanding, Tasks

\* A task that moves changes nothing but its own place in the two sets.
LEMMA MoveCounts ==
  ASSUME NEW t \in Tasks, NEW from, NEW to \in Stages, PcOK, Move(t, from, to)
  PROVE  /\ SlotHolders' = IF Holds(t, to) THEN SlotHolders \cup {t}
                                           ELSE SlotHolders \ {t}
         /\ t \in SlotHolders <=> Holds(t, from)
         /\ FilesAtWork' = IF t \in FileTasks /\ to \notin Ended
                           THEN FilesAtWork \cup {t} ELSE FilesAtWork \ {t}
         /\ t \in FilesAtWork <=> t \in FileTasks /\ from \notin Ended
  <1>1. pc \in [Tasks -> Stages] /\ pc[t] = from /\ pc' = [pc EXCEPT ![t] = to]
    BY DEF PcOK, Move
  <1>2. SlotHolders' = {u \in Tasks : Holds(u, pc'[u])}
    BY HoldersAre DEF SlotHolders, Holds, Tasks
  <1>3. FilesAtWork' = {u \in FileTasks : pc'[u] \notin Ended}
    BY DEF FilesAtWork, Outstanding, Tasks
  <1>4. FileTasks \subseteq Tasks
    BY DEF Tasks
  <1>5. \A u \in Tasks : pc'[u] = IF u = t THEN to ELSE pc[u]
    BY <1>1
  <1>6. SlotHolders' = IF Holds(t, to) THEN SlotHolders \cup {t} ELSE SlotHolders \ {t}
    BY <1>2, <1>5, HoldersAre
  <1>7. FilesAtWork' = IF t \in FileTasks /\ to \notin Ended
                       THEN FilesAtWork \cup {t} ELSE FilesAtWork \ {t}
    BY <1>3, <1>4, <1>5, FilesAtWorkAre
  <1> QED BY <1>1, <1>6, <1>7, HoldersAre, FilesAtWorkAre

\* A task that starts another one stays where it is.
LEMMA ForkCounts ==
  ASSUME NEW t \in Tasks, NEW u \in Tasks, NEW s \in Live,
         NEW start \in {"acquire", "offered", "dir"},
         PcOK, Fork(t, s, s, u, start)
  PROVE  /\ SlotHolders' = SlotHolders
         /\ FilesAtWork' = IF u \in FileTasks THEN FilesAtWork \cup {u} ELSE FilesAtWork
         /\ u \notin FilesAtWork
  <1>1. /\ pc \in [Tasks -> Stages] /\ pc[t] = s /\ pc[u] = "idle"
        /\ pc' = [pc EXCEPT ![t] = s, ![u] = start]
    BY DEF PcOK, Fork
  <1>2. \A v \in Tasks : pc'[v] = IF v = u THEN start ELSE pc[v]
    BY <1>1
  <1>3. SlotHolders' = {v \in Tasks : Holds(v, pc'[v])}
    BY HoldersAre DEF SlotHolders, Holds, Tasks
  <1>4. FilesAtWork' = {v \in FileTasks : pc'[v] \notin Ended}
    BY DEF FilesAtWork, Outstanding, Tasks
  <1>5. ~Holds(u, start) /\ ~Holds(u, "idle") /\ start \notin Ended /\ "idle" \in Ended
    BY DEF Holds, SlotStages, Ended
  <1>6. FileTasks \subseteq Tasks
    BY DEF Tasks
  <1>7. SlotHolders' = SlotHolders
    BY <1>1, <1>2, <1>3, <1>5, HoldersAre
  <1>8. FilesAtWork' = IF u \in FileTasks THEN FilesAtWork \cup {u} ELSE FilesAtWork
    BY <1>1, <1>2, <1>4, <1>5, <1>6, FilesAtWorkAre
  <1> QED BY <1>1, <1>5, <1>7, <1>8, FilesAtWorkAre

-----------------------------------------------------------------------------
(* What an action does to the two counters and the data of the tasks.      *)

SlotsFollow == /\ Counts(SlotHolders, SlotHolders', slots, slots')
               /\ slots' = slots + 1 => slots < Slots
ReqwgFollows == Counts(FilesAtWork, FilesAtWork', reqwg, reqwg')
TaskStep == SlotsFollow /\ ReqwgFollows /\ TaskDataOK'

LEMMA QuietMove ==
  ASSUME NEW t \in Tasks, NEW from, NEW to \in Stages, PcOK, Move(t, from, to),
         Holds(t, from) <=> Holds(t, to),
         t \in FileTasks => (from \in Ended <=> to \in Ended)
  PROVE  SlotHolders' = SlotHolders /\ FilesAtWork' = FilesAtWork
  <1>1. /\ SlotHolders' = IF Holds(t, to) THEN SlotHolders \cup {t}
                                          ELSE SlotHolders \ {t}
        /\ t \in SlotHolders <=> Holds(t, from)
        /\ FilesAtWork' = IF t \in FileTasks /\ to \notin Ended
                          THEN FilesAtWork \cup {t} ELSE FilesAtWork \ {t}
        /\ t \in FilesAtWork <=> t \in FileTasks /\ from \notin Ended
    BY MoveCounts
  <1>2. SlotHolders' = SlotHolders
    BY <1>1
  <1>3. FilesAtWork' = FilesAtWork
    BY <1>1
  <1> QED BY <1>2, <1>3

LEMMA QuietStep ==
  ASSUME SlotHolders' = SlotHolders, FilesAtWork' = FilesAtWork, slots \in Nat,
         slots' = slots, reqwg' = reqwg, TaskDataOK'
  PROVE  TaskStep
  BY DEF TaskStep, SlotsFollow, ReqwgFollows, Counts

LEMMA PathStepCounts ==
  ASSUME PcOK, TaskDataOK, slots \in Nat, NEW p \in Paths, PathStep(p)
  PROVE  TaskStep
  <1> DEFINE t == PathTask(p)
  <1>0. t \in Tasks /\ t \notin FileTasks /\ t \notin ReqTasks
    BY TaskNames, Kinds
  <1>1. \E from, to \in {"idle", "lookup", "spawn", "done"} : Move(t, from, to)
    BY DEF PathStep, Launch, LookupFails, LookupFinds, PathDone, End
  <1>2. \A s \in {"idle", "lookup", "spawn", "done"} : s \in Stages /\ ~Holds(t, s)
    BY <1>0 DEF Holds, SlotStages, Stages, Ended
  <1>3. SlotHolders' = SlotHolders /\ FilesAtWork' = FilesAtWork
    BY <1>0, <1>1, <1>2, QuietMove
  <1>4. UNCHANGED <<slots, reqwg, errTasks, produced>>
    BY DEF PathStep, Launch, LookupFails, LookupFinds, PathDone
  <1> QED BY <1>3, <1>4, QuietStep DEF TaskDataOK

LEMMA ResultTypes ==
  ASSUME NEW t \in Tasks, NEW e \in BOOLEAN
  PROVE  Result(t, e) \in Results
  BY DEF Result, Results

LEMMA FileStepCounts ==
  ASSUME PcOK, TaskDataOK, slots \in Nat, reqwg \in Nat, NEW f \in Files, FileStep(f)
  PROVE  TaskStep
  <1> DEFINE t == FileTask(f)
  <1>0. /\ t \in Tasks /\ t \in FileTasks /\ t \notin ReqTasks
        /\ PathTask(PathOf[f]) \in Tasks /\ LoadError(f) \in Results
    BY TaskNames, Kinds, HandlerAssumption, ResultTypes DEF LoadError
  <1>1. /\ {"acquire", "load", "parse", "dispatch", "done", "spawn"} \subseteq Stages
        /\ \A s \in {"load", "parse"} : Holds(t, s)
        /\ \A s \in {"acquire", "dispatch", "done"} : ~Holds(t, s)
        /\ \A s \in {"acquire", "load", "parse", "dispatch"} : s \notin Ended
        /\ "done" \in Ended /\ "spawn" \in Live
    BY <1>0, LiveStages DEF Holds, SlotStages, Stages, Ended
  <1>2. CASE SpawnFile(f)
    <2>1. /\ SlotHolders' = SlotHolders
          /\ FilesAtWork' = FilesAtWork \cup {t} /\ t \notin FilesAtWork
      BY <1>0, <1>1, <1>2, ForkCounts DEF SpawnFile
    <2> QED
      BY <1>2, <2>1 DEF SpawnFile, TaskStep, SlotsFollow, ReqwgFollows, Counts, TaskDataOK
  <1>3. CASE AcquireLoad(f)
    <2>1. Move(t, "acquire", "load") /\ slots' = slots + 1 /\ slots < Slots
      BY <1>3 DEF AcquireLoad, Acquire
    <2>2. /\ SlotHolders' = SlotHolders \cup {t} /\ t \notin SlotHolders
          /\ FilesAtWork' = FilesAtWork
      BY <1>0, <1>1, <2>1, MoveCounts
    <2> QED
      BY <1>3, <2>1, <2>2
      DEF AcquireLoad, TaskStep, SlotsFollow, ReqwgFollows, Counts, TaskDataOK
  <1>4. CASE Post(f)
    <2>1. SlotHolders' = SlotHolders /\ FilesAtWork' = FilesAtWork
      BY <1>0, <1>1, <1>4, QuietMove DEF Post
    <2> QED BY <1>4, <2>1, QuietStep DEF Post, TaskDataOK
  <1>5. CASE LoadFails(f)
    <2>1. PICK s \in {"load", "parse"} : Move(t, s, "done")
      BY <1>5 DEF LoadFails, End
    <2>2. /\ SlotHolders' = SlotHolders \ {t} /\ t \in SlotHolders
          /\ FilesAtWork' = FilesAtWork \ {t} /\ t \in FilesAtWork
      BY <1>0, <1>1, <2>1, MoveCounts
    <2> QED
      BY <1>0, <1>5, <2>2
      DEF LoadFails, TaskStep, SlotsFollow, ReqwgFollows, Counts, TaskDataOK
  <1>6. CASE LoadSucceeds(f)
    <2>1. Move(t, "parse", "dispatch")
      BY <1>6 DEF LoadSucceeds
    <2>2. /\ SlotHolders' = SlotHolders \ {t} /\ t \in SlotHolders
          /\ FilesAtWork' = FilesAtWork
      BY <1>0, <1>1, <2>1, MoveCounts
    <2> QED
      BY <1>6, <2>2
      DEF LoadSucceeds, TaskStep, SlotsFollow, ReqwgFollows, Counts, TaskDataOK
  <1>7. CASE FileDone(f)
    <2>1. Move(t, "dispatch", "done")
      BY <1>7 DEF FileDone, End
    <2>2. /\ SlotHolders' = SlotHolders
          /\ FilesAtWork' = FilesAtWork \ {t} /\ t \in FilesAtWork
      BY <1>0, <1>1, <2>1, MoveCounts
    <2> QED
      BY <1>7, <2>2
      DEF FileDone, TaskStep, SlotsFollow, ReqwgFollows, Counts, TaskDataOK
  <1>8. CASE SendError(f)
    <2>1. SlotHolders' = SlotHolders /\ FilesAtWork' = FilesAtWork
      BY <1>8 DEF SendError, SlotHolders, FilesAtWork, Outstanding
    <2> QED BY <1>8, <2>1, QuietStep DEF SendError, TaskDataOK
  <1> QED
    BY <1>2, <1>3, <1>4, <1>5, <1>6, <1>7, <1>8 DEF FileStep

LEMMA ReqStepCounts ==
  ASSUME PcOK, TaskDataOK, slots \in Nat, NEW f \in Files, NEW g \in Gens,
         ReqStep(f, g)
  PROVE  TaskStep
  <1> DEFINE t == ReqTask(f, g)
  <1>0. /\ t \in Tasks /\ t \in ReqTasks /\ t \notin FileTasks
        /\ FileTask(f) \in Tasks /\ <<f, g>> \in Files \X Gens
        /\ Result(t, TRUE) \in Results
    BY TaskNames, Kinds, ResultTypes
  <1>1. /\ {"offered", "acquire", "generate", "emit", "report", "fail", "ending",
            "done"} \subseteq Stages
        /\ \A s \in {"generate", "emit", "report", "fail", "ending"} : Holds(t, s)
        /\ \A s \in {"offered", "acquire", "done"} : ~Holds(t, s)
        /\ {"emit", "dispatch"} \subseteq Live
    BY <1>0, LiveStages DEF Holds, SlotStages, Stages, Ended
  <1>2. CASE Offer(f, g)
    <2>1. SlotHolders' = SlotHolders /\ FilesAtWork' = FilesAtWork
      BY <1>0, <1>1, <1>2, ForkCounts DEF Offer
    <2> QED BY <1>2, <2>1, QuietStep DEF Offer, TaskDataOK
  <1>3. CASE Accept(f, g)
    <2>1. SlotHolders' = SlotHolders /\ FilesAtWork' = FilesAtWork
      BY <1>0, <1>1, <1>3, QuietMove DEF Accept
    <2> QED BY <1>3, <2>1, QuietStep DEF Accept, TaskDataOK
  <1>4. CASE AcquireGenerate(f, g)
    <2>1. Move(t, "acquire", "generate") /\ slots' = slots + 1 /\ slots < Slots
      BY <1>4 DEF AcquireGenerate, Acquire
    <2>2. /\ SlotHolders' = SlotHolders \cup {t} /\ t \notin SlotHolders
          /\ FilesAtWork' = FilesAtWork
      BY <1>0, <1>1, <2>1, MoveCounts
    <2> QED
      BY <1>4, <2>1, <2>2
      DEF AcquireGenerate, TaskStep, SlotsFollow, ReqwgFollows, Counts, TaskDataOK
  <1>5. CASE GenerateSucceeds(f, g)
    <2>1. SlotHolders' = SlotHolders /\ FilesAtWork' = FilesAtWork
      BY <1>0, <1>1, <1>5, QuietMove DEF GenerateSucceeds
    <2> QED BY <1>5, <2>1, QuietStep DEF GenerateSucceeds, TaskDataOK
  <1>6. CASE GenerateFails(f, g)
    <2>1. \E s \in {"generate", "emit"} : Move(t, s, "fail")
      BY <1>6 DEF GenerateFails
    <2>2. SlotHolders' = SlotHolders /\ FilesAtWork' = FilesAtWork
      BY <1>0, <1>1, <2>1, QuietMove
    <2> QED BY <1>0, <1>6, <2>2, QuietStep DEF GenerateFails, TaskDataOK
  <1>7. CASE EmitOutput(f, g)
    <2>1. NextMsg(f, g) \in 1..MaxMsgs
      BY <1>7, NextMsgType DEF EmitOutput
    <2> DEFINE out == OutTask(f, g, NextMsg(f, g))
    <2>2. out \in Tasks /\ out \notin FileTasks /\ Result(out, FALSE) \in Results
      BY <2>1, TaskNames, Kinds, ResultTypes
    <2>3. SlotHolders' = SlotHolders /\ FilesAtWork' = FilesAtWork
      BY <1>0, <1>1, <1>7, <2>2, ForkCounts DEF EmitOutput
    <2> QED BY <1>7, <2>2, <2>3, QuietStep DEF EmitOutput, TaskDataOK
  <1>8. CASE EmitReport(f, g)
    <2>1. NextMsg(f, g) \in 1..MaxMsgs
      BY <1>8, NextMsgType DEF EmitReport
    <2>2. Result(OutTask(f, g, NextMsg(f, g)), TRUE) \in Results
      BY <2>1, TaskNames, ResultTypes
    <2>3. SlotHolders' = SlotHolders /\ FilesAtWork' = FilesAtWork
      BY <1>0, <1>1, <1>8, QuietMove DEF EmitReport
    <2> QED BY <1>8, <2>2, <2>3, QuietStep DEF EmitReport, TaskDataOK
  <1>9. CASE SendReport(f, g)
    <2>1. SlotHolders' = SlotHolders /\ FilesAtWork' = FilesAtWork
      BY <1>0, <1>1, <1>9, QuietMove DEF SendReport
    <2> QED BY <1>9, <2>1, QuietStep DEF SendReport, OnlySend, TaskDataOK
  <1>10. CASE SendFailure(f, g)
    <2>1. SlotHolders' = SlotHolders /\ FilesAtWork' = FilesAtWork
      BY <1>0, <1>1, <1>10, QuietMove DEF SendFailure
    <2> QED BY <1>10, <2>1, QuietStep DEF SendFailure, OnlySend, TaskDataOK
  <1>11. CASE HandlerDone(f, g)
    <2>1. PICK s \in {"ending", "emit"} : Move(t, s, "done")
      BY <1>11 DEF HandlerDone, End
    <2>2. /\ SlotHolders' = SlotHolders \ {t} /\ t \in SlotHolders
          /\ FilesAtWork' = FilesAtWork
      BY <1>0, <1>1, <2>1, MoveCounts
    <2> QED
      BY <1>11, <2>2
      DEF HandlerDone, TaskStep, SlotsFollow, ReqwgFollows, Counts, TaskDataOK
  <1> QED
    BY <1>2, <1>3, <1>4, <1>5, <1>6, <1>7, <1>8, <1>9, <1>10, <1>11 DEF ReqStep

LEMMA OutStepCounts ==
  ASSUME PcOK, TaskDataOK, slots \in Nat, NEW f \in Files, NEW g \in Gens,
         NEW k \in 1..MaxMsgs, OutStep(f, g, k)
  PROVE  TaskStep
  <1> DEFINE t == OutTask(f, g, k)
  <1>0. t \in Tasks /\ t \notin FileTasks /\ t \notin ReqTasks
    BY TaskNames, Kinds
  <1>1. \E from, to \in {"dir", "result", "ending", "done"} : Move(t, from, to)
    BY DEF OutStep, SendDir, SendResult, OutputDone, End
  <1>2. \A s \in {"dir", "result", "ending", "done"} : s \in Stages /\ ~Holds(t, s)
    BY <1>0 DEF Holds, SlotStages, Stages, Ended
  <1>3. SlotHolders' = SlotHolders /\ FilesAtWork' = FilesAtWork
    BY <1>0, <1>1, <1>2, QuietMove
  <1>4. UNCHANGED <<slots, reqwg, errTasks, produced>>
    BY DEF OutStep, SendDir, SendResult, OutputDone, OnlySend
  <1> QED BY <1>3, <1>4, QuietStep DEF TaskDataOK

LEMMA OtherStepCounts ==
  ASSUME TaskDataOK, slots \in Nat, HandlerStep \/ Signal \/ Recv \/ Rest
  PROVE  TaskStep
  <1>1. UNCHANGED taskVars
    BY DEF HandlerStep, Signal, Recv, Rest, vars, CancelWhenDone, OnlyCtx,
           ServerListens, StopWaits, RequestStop, OnlyHTTP, CollectorReceives,
           CollectorAppends, CollectorReturns, OnlyCollector, ForwardResult,
           ForwardError, ForwardPuts, ForwardCloses, OnlyForward, RunReturns
  <1>2. SlotHolders' = SlotHolders /\ FilesAtWork' = FilesAtWork
    BY <1>1 DEF taskVars, SlotHolders, FilesAtWork, Outstanding
  <1> QED BY <1>1, <1>2, QuietStep DEF taskVars, TaskDataOK

LEMMA NextCounts ==
  ASSUME PcOK, TaskDataOK, slots \in Nat, reqwg \in Nat, Next
  PROVE  TaskStep
  <1>1. CASE \E p \in Paths : PathStep(p)
    BY <1>1, PathStepCounts
  <1>2. CASE \E f \in Files : FileStep(f)
    BY <1>2, FileStepCounts
  <1>3. CASE \E f \in Files, g \in Gens : ReqStep(f, g)
    BY <1>3, ReqStepCounts
  <1>4. CASE \E f \in Files, g \in Gens, k \in 1..MaxMsgs : OutStep(f, g, k)
    BY <1>4, OutStepCounts
  <1>5. CASE HandlerStep \/ Signal \/ Recv \/ Rest
    BY <1>5, OtherStepCounts
  <1> QED BY <1>1, <1>2, <1>3, <1>4, <1>5 DEF Next, PipelineStep

-----------------------------------------------------------------------------
(* The channels.                                                           *)

LEMMA PutFits ==
  ASSUME NEW S, NEW q \in Seq(S), NEW e \in S, NEW cap \in Nat, Len(q) < cap
  PROVE  Append(q, e) \in Seq(S) /\ Len(Append(q, e)) <= cap
  BY LenProperties

LEMMA TakeFits ==
  ASSUME NEW S, NEW q \in Seq(S), q # <<>>, NEW cap \in Nat, Len(q) <= cap
  PROVE  /\ Head(q) \in S
         /\ Tail(q) \in Seq(S) /\ Len(Tail(q)) <= cap
         /\ <<Head(q)>> \in Seq(S) /\ Len(<<Head(q)>>) <= 1
  <1>1. Head(q) \in S /\ Tail(q) \in Seq(S) /\ Len(Tail(q)) = Len(q) - 1 /\ Len(q) \in Nat
    BY HeadTailProperties, LenProperties
  <1> QED BY <1>1

channelVars == <<resultQueue, errQueue, dirChan, queue, forwarding, collecting,
                 delivered, dirBaseSuffix>>

LEMMA ChannelsKept ==
  ASSUME ChannelsOK, UNCHANGED channelVars
  PROVE  ChannelsOK'
  BY DEF channelVars, ChannelsOK

LEMMA SendKeepsChannels ==
  ASSUME ChannelsOK, NEW r \in Results, SendToResultQueue(r), OnlySend
  PROVE  ChannelsOK'
  <1>1. resultQueue' \in Seq(Results) /\ Len(resultQueue') <= ResultCap
    BY PutFits DEF ChannelsOK, SendToResultQueue, ResultCap
  <1> QED
    BY <1>1 DEF ChannelsOK, OnlySend, forwardVars, collectVars

LEMMA PathFileChannels ==
  ASSUME ChannelsOK,
         (\E p \in Paths : PathStep(p)) \/ (\E f \in Files : FileStep(f))
  PROVE  ChannelsOK'
  <1>1. CASE \E p \in Paths : PathStep(p)
    <2>1. UNCHANGED channelVars
      BY <1>1 DEF PathStep, Launch, LookupFails, LookupFinds, PathDone, OnlyTasks,
                  channelVars, forwardVars, collectVars
    <2> QED BY <2>1, ChannelsKept
  <1>2. CASE \E f \in Files : FileStep(f)
    <2>1. PICK f \in Files : FileStep(f)
      BY <1>2
    <2>2. CASE SendError(f)
      <3>1. LoadError(f) \in Results
        BY TaskNames, ResultTypes DEF LoadError
      <3>2. errQueue' \in Seq(Results) /\ Len(errQueue') <= ErrCap
        BY <2>2, <3>1, PutFits DEF ChannelsOK, SendError, ErrCap
      <3> QED
        BY <2>2, <3>2 DEF SendError, ChannelsOK, forwardVars, collectVars
    <2>3. CASE ~SendError(f)
      <3>1. UNCHANGED channelVars
        BY <2>1, <2>3 DEF FileStep, SpawnFile, AcquireLoad, Post, LoadFails,
             LoadSucceeds, FileDone, OnlyTasks, channelVars, forwardVars, collectVars
      <3> QED BY <3>1, ChannelsKept
    <2> QED BY <2>2, <2>3
  <1> QED BY <1>1, <1>2

LEMMA MsgType ==
  ASSUME PcOK, NEW f \in Files, NEW g \in Gens
  PROVE  <<f, g>> \in Files \X Gens /\ msgs[<<f, g>>] \in 0..MaxMsgs /\ MaxMsgs \in Nat
  BY HandlerAssumption DEF PcOK

LEMMA ReqChannels ==
  ASSUME PcOK, ChannelsOK, NEW f \in Files, NEW g \in Gens, ReqStep(f, g),
         ReportOK
  PROVE  ChannelsOK'
  <1>1. CASE SendReport(f, g)
    <2>1. msgs[<<f, g>>] \in 1..MaxMsgs
      BY <1>1, MsgType DEF SendReport, Move, ReportOK
    <2>2. Result(OutTask(f, g, msgs[<<f, g>>]), TRUE) \in Results
      BY <2>1, TaskNames, ResultTypes
    <2> QED BY <1>1, <2>2, SendKeepsChannels DEF SendReport
  <1>2. CASE SendFailure(f, g)
    <2>1. Result(ReqTask(f, g), TRUE) \in Results
      BY TaskNames, ResultTypes
    <2> QED BY <1>2, <2>1, SendKeepsChannels DEF SendFailure
  <1>3. CASE ~SendReport(f, g) /\ ~SendFailure(f, g)
    <2>1. UNCHANGED channelVars
      BY <1>3 DEF ReqStep, Offer, Accept, AcquireGenerate, GenerateSucceeds,
           GenerateFails, EmitOutput, EmitReport, HandlerDone, OnlyTasks,
           channelVars, forwardVars, collectVars
    <2> QED BY <2>1, ChannelsKept
  <1> QED BY <1>1, <1>2, <1>3

LEMMA OutChannels ==
  ASSUME ChannelsOK, NEW f \in Files, NEW g \in Gens, NEW k \in 1..MaxMsgs,
         OutStep(f, g, k)
  PROVE  ChannelsOK'
  <1>0. OutTask(f, g, k) \in Tasks /\ Result(OutTask(f, g, k), FALSE) \in Results
    BY TaskNames, ResultTypes
  <1>1. CASE SendDir(f, g, k)
    <2>1. dirChan' \in Seq(Tasks) /\ Len(dirChan') <= DirCap
      BY <1>0, <1>1, PutFits DEF ChannelsOK, SendDir, DirCap
    <2> QED BY <1>1, <2>1 DEF SendDir, ChannelsOK, forwardVars, collectVars
  <1>2. CASE SendResult(f, g, k)
    BY <1>0, <1>2, SendKeepsChannels DEF SendResult
  <1>3. CASE OutputDone(f, g, k)
    <2>1. UNCHANGED channelVars
      BY <1>3 DEF OutputDone, OnlyTasks, channelVars, forwardVars, collectVars
    <2> QED BY <2>1, ChannelsKept
  <1> QED BY <1>1, <1>2, <1>3 DEF OutStep

LEMMA OtherChannels ==
  ASSUME ChannelsOK, HandlerStep \/ Signal \/ Recv \/ Rest
  PROVE  ChannelsOK'
  <1>1. CASE CollectorReceives
    <2>1. /\ dirChan' \in Seq(Tasks) /\ Len(dirChan') <= DirCap
          /\ collecting' \in Seq(Tasks) /\ Len(collecting') <= 1
      BY <1>1, TakeFits DEF CollectorReceives, ChannelsOK, DirCap
    <2> QED BY <1>1, <2>1 DEF CollectorReceives, OnlyCollector, ChannelsOK, forwardVars
  <1>2. CASE CollectorAppends
    <2>1. Head(collecting) \in Tasks
      BY <1>2, TakeFits DEF CollectorAppends, ChannelsOK
    <2>2. <<>> \in Seq(Tasks) /\ Len(<<>>) <= 1
      OBVIOUS
    <2> QED
      BY <1>2, <2>1, <2>2 DEF CollectorAppends, OnlyCollector, ChannelsOK, forwardVars
  <1>3. CASE ForwardResult
    <2>1. /\ resultQueue' \in Seq(Results) /\ Len(resultQueue') <= ResultCap
          /\ forwarding' \in Seq(Results) /\ Len(forwarding') <= 1
      BY <1>3, TakeFits DEF ForwardResult, ChannelsOK, ResultCap
    <2> QED BY <1>3, <2>1 DEF ForwardResult, OnlyForward, ChannelsOK, collectVars
  <1>4. CASE ForwardError
    <2>1. /\ errQueue' \in Seq(Results) /\ Len(errQueue') <= ErrCap
          /\ forwarding' \in Seq(Results) /\ Len(forwarding') <= 1
      BY <1>4, TakeFits DEF ForwardError, ChannelsOK, ErrCap
    <2> QED BY <1>4, <2>1 DEF ForwardError, OnlyForward, ChannelsOK, collectVars
  <1>5. CASE ForwardPuts
    <2>1. Head(forwarding) \in Results
      BY <1>5, TakeFits DEF ForwardPuts, ChannelsOK
    <2>2. /\ queue' \in Seq(Results) /\ Len(queue') <= QueueCap
          /\ forwarding' \in Seq(Results) /\ Len(forwarding') <= 1
      BY <1>5, <2>1, PutFits DEF ForwardPuts, ChannelsOK, QueueCap
    <2> QED BY <1>5, <2>2 DEF ForwardPuts, OnlyForward, ChannelsOK, collectVars
  <1>6. CASE Recv
    <2>1. Head(queue) \in Results /\ queue' \in Seq(Results) /\ Len(queue') <= QueueCap
      BY <1>6, TakeFits DEF Recv, ChannelsOK, QueueCap
    <2> QED BY <1>6, <2>1 DEF Recv, ChannelsOK, forwardVars, collectVars
  <1>7. CASE \/ CancelWhenDone \/ Signal \/ ServerListens \/ StopWaits \/ RequestStop
             \/ CollectorReturns \/ ForwardCloses \/ Rest
             \/ \E g \in Gens : RunReturns(g)
    <2>1. UNCHANGED channelVars
      BY <1>7 DEF CancelWhenDone, Signal, OnlyCtx, ServerListens, StopWaits,
           RequestStop, OnlyHTTP, CollectorReturns, OnlyCollector, ForwardCloses,
           OnlyForward, Rest, vars, RunReturns, channelVars, forwardVars, collectVars
    <2> QED BY <2>1, ChannelsKept
  <1> QED BY <1>1, <1>2, <1>3, <1>4, <1>5, <1>6, <1>7 DEF HandlerStep

LEMMA NextChannels ==
  ASSUME PcOK, ReportOK, ChannelsOK, Next
  PROVE  ChannelsOK'
  <1>1. CASE (\E p \in Paths : PathStep(p)) \/ (\E f \in Files : FileStep(f))
    BY <1>1, PathFileChannels
  <1>2. CASE \E f \in Files, g \in Gens : ReqStep(f, g)
    BY <1>2, ReqChannels
  <1>3. CASE \E f \in Files, g \in Gens, k \in 1..MaxMsgs : OutStep(f, g, k)
    BY <1>3, OutChannels
  <1>4. CASE HandlerStep \/ Signal \/ Recv \/ Rest
    BY <1>4, OtherChannels
  <1> QED BY <1>1, <1>2, <1>3, <1>4 DEF Next, PipelineStep

-----------------------------------------------------------------------------
(* Reports and flags.                                                      *)

\* No task enters "report" and no count goes down.
NoNewReport ==
    /\ \A t \in Tasks : pc'[t] = "report" => pc[t] = "report"
    /\ \A f \in Files, g \in Gens : msgs'[<<f, g>>] >= msgs[<<f, g>>]

LEMMA CountGrows ==
  ASSUME PcOK, NEW f \in Files, NEW g \in Gens, CountMsg(f, g)
  PROVE  /\ msgs'[<<f, g>>] >= 1
         /\ \A h \in Files, i \in Gens : msgs'[<<h, i>>] >= msgs[<<h, i>>]
  <1>1. /\ msgs \in [Files \X Gens -> 0..MaxMsgs]
        /\ <<f, g>> \in Files \X Gens /\ msgs[<<f, g>>] \in 0..MaxMsgs /\ MaxMsgs \in Nat
        /\ msgs' = [msgs EXCEPT ![<<f, g>>] = msgs[<<f, g>>] + 1]
    BY MsgType DEF PcOK, CountMsg
  <1>2. msgs'[<<f, g>>] = msgs[<<f, g>>] + 1
    BY <1>1
  <1>3. ASSUME NEW h \in Files, NEW i \in Gens
        PROVE  msgs'[<<h, i>>] >= msgs[<<h, i>>]
    <2>1. <<h, i>> \in Files \X Gens /\ msgs[<<h, i>>] \in 0..MaxMsgs
      BY MsgType
    <2> QED BY <1>1, <1>2, <2>1
  <1> QED BY <1>1, <1>2, <1>3

LEMMA SameCounts ==
  ASSUME PcOK, msgs' = msgs
  PROVE  \A f \in Files, g \in Gens : msgs'[<<f, g>>] >= msgs[<<f, g>>]
  <1> SUFFICES ASSUME NEW f \in Files, NEW g \in Gens
               PROVE  msgs'[<<f, g>>] >= msgs[<<f, g>>]
    OBVIOUS
  <1>1. msgs[<<f, g>>] \in 0..MaxMsgs /\ MaxMsgs \in Nat
    BY MsgType
  <1> QED BY <1>1

LEMMA NextReports ==
  ASSUME PcOK, Next
  PROVE  NoNewReport \/ \E f \in Files, g \in Gens : EmitReport(f, g)
  <1>0. pc \in [Tasks -> Stages]
    BY DEF PcOK
  <1>1. CASE \E p \in Paths : PathStep(p)
    <2>1. PICK p \in Paths : PathStep(p)
      BY <1>1
    <2>2. msgs' = msgs /\ \E from, to \in {"idle", "lookup", "spawn", "done"} :
                            Move(PathTask(p), from, to)
      BY <2>1, PathEffect DEF PathStep, Launch, LookupFails, LookupFinds, PathDone, End
    <2> QED BY <1>0, <2>2, SameCounts DEF NoNewReport, Move
  <1>2. CASE \E f \in Files : FileStep(f)
    <2>1. PICK f \in Files : FileStep(f)
      BY <1>2
    <2>2. msgs' = msgs
      BY <2>1, FileEffect
    <2>3. \A t \in Tasks : pc'[t] = "report" => pc[t] = "report"
      BY <1>0, <2>1
      DEF FileStep, SpawnFile, AcquireLoad, Post, LoadFails, LoadSucceeds, FileDone,
          SendError, Acquire, Move, End, Fork
    <2> QED BY <2>2, <2>3, SameCounts DEF NoNewReport
  <1>3. CASE \E f \in Files, g \in Gens : ReqStep(f, g)
    <2>1. PICK f \in Files, g \in Gens : ReqStep(f, g)
      BY <1>3
    <2>2. CASE EmitReport(f, g)
      BY <2>2
    <2>3. CASE EmitOutput(f, g)
      BY <1>0, <2>3, CountGrows DEF EmitOutput, Fork, NoNewReport
    <2>4. CASE ~EmitReport(f, g) /\ ~EmitOutput(f, g)
      <3>1. \A t \in Tasks : pc'[t] = "report" => pc[t] = "report"
        BY <1>0, <2>1, <2>4
        DEF ReqStep, Offer, Accept, AcquireGenerate, GenerateSucceeds, GenerateFails,
            SendReport, SendFailure, HandlerDone, Acquire, Move, End, Fork
      <3>2. msgs' = msgs
        BY <2>1, <2>4
        DEF ReqStep, Offer, Accept, AcquireGenerate, GenerateSucceeds, GenerateFails,
            SendReport, SendFailure, HandlerDone, OnlySend
      <3> QED BY <3>1, <3>2, SameCounts DEF NoNewReport
    <2> QED BY <2>2, <2>3, <2>4
  <1>4. CASE \E f \in Files, g \in Gens, k \in 1..MaxMsgs : OutStep(f, g, k)
    <2>1. PICK f \in Files, g \in Gens, k \in 1..MaxMsgs : OutStep(f, g, k)
      BY <1>4
    <2>2. msgs' = msgs /\ \E from, to \in {"dir", "result", "ending", "done"} :
                            Move(OutTask(f, g, k), from, to)
      BY <2>1, OutEffect DEF OutStep, SendDir, SendResult, OutputDone, End
    <2> QED BY <1>0, <2>2, SameCounts DEF NoNewReport, Move
  <1>5. CASE HandlerStep \/ Signal \/ Recv \/ Rest
    BY <1>5, OtherEffect, SameCounts DEF NoNewReport
  <1> QED BY <1>1, <1>2, <1>3, <1>4, <1>5 DEF Next, PipelineStep

LEMMA ReportsCounted ==
  ASSUME PcOK, ReportOK, Next
  PROVE  ReportOK'
  <1> SUFFICES ASSUME NEW h \in Files, NEW i \in Gens, pc'[ReqTask(h, i)] = "report"
               PROVE  msgs'[<<h, i>>] >= 1
    BY DEF ReportOK
  <1>0. ReqTask(h, i) \in Tasks /\ msgs[<<h, i>>] \in 0..MaxMsgs
        /\ msgs'[<<h, i>>] \in 0..MaxMsgs /\ MaxMsgs \in Nat
    <2>1. msgs' \in [Files \X Gens -> 0..MaxMsgs] /\ <<h, i>> \in Files \X Gens
      BY StepEffect
    <2> QED BY <2>1, TaskNames, MsgType
  <1>1. CASE NoNewReport
    BY <1>0, <1>1 DEF NoNewReport, ReportOK
  <1>2. CASE \E f \in Files, g \in Gens : EmitReport(f, g)
    <2>1. PICK f \in Files, g \in Gens : EmitReport(f, g)
      BY <1>2
    <2>2. /\ msgs'[<<f, g>>] >= 1
          /\ \A j \in Files, k \in Gens : msgs'[<<j, k>>] >= msgs[<<j, k>>]
      BY <2>1, CountGrows DEF EmitReport
    <2>3. CASE h = f /\ i = g
      BY <2>2, <2>3
    <2>4. CASE ~(h = f /\ i = g)
      <3>1. ReqTask(h, i) # ReqTask(f, g)
        BY <2>4 DEF ReqTask
      <3>2. pc[ReqTask(h, i)] = "report"
        BY <1>0, <2>1, <3>1 DEF EmitReport, Move, PcOK
      <3> QED BY <1>0, <2>2, <3>2 DEF ReportOK
    <2> QED BY <2>3, <2>4
  <1> QED BY <1>1, <1>2, NextReports

flagVars == <<closed, collector, ctxVars, httpVars>>

LEMMA NextFlags ==
  ASSUME FlagsOK, Next
  PROVE  FlagsOK'
  <1>1. CASE \/ \E p \in Paths : PathStep(p)
             \/ \E f \in Files : FileStep(f)
             \/ \E f \in Files, g \in Gens : ReqStep(f, g)
             \/ \E f \in Files, g \in Gens, k \in 1..MaxMsgs : OutStep(f, g, k)
    <2>1. UNCHANGED flagVars
      <3>1. CASE \E p \in Paths : PathStep(p)
        BY <3>1 DEF PathStep, Launch, LookupFails, LookupFinds, PathDone, OnlyTasks,
                    flagVars, forwardVars, collectVars
      <3>2. CASE \E f \in Files : FileStep(f)
        BY <3>2 DEF FileStep, SpawnFile, AcquireLoad, Post, LoadFails, LoadSucceeds,
                    FileDone, SendError, OnlyTasks, flagVars, forwardVars, collectVars
      <3>3. CASE \E f \in Files, g \in Gens : ReqStep(f, g)
        <4>1. OnlyTasks \/ OnlySend
          <5>1. PICK f \in Files, g \in Gens : ReqStep(f, g)
            BY <3>3
          <5>2. CASE Offer(f, g) \/ Accept(f, g) \/ AcquireGenerate(f, g) \/ HandlerDone(f, g)
            BY <5>2 DEF Offer, Accept, AcquireGenerate, HandlerDone
          <5>3. CASE GenerateSucceeds(f, g) \/ GenerateFails(f, g)
            BY <5>3 DEF GenerateSucceeds, GenerateFails
          <5>4. CASE EmitOutput(f, g) \/ EmitReport(f, g)
            BY <5>4 DEF EmitOutput, EmitReport
          <5>5. CASE SendReport(f, g) \/ SendFailure(f, g)
            BY <5>5 DEF SendReport, SendFailure
          <5> QED BY <5>1, <5>2, <5>3, <5>4, <5>5 DEF ReqStep
        <4> QED BY <4>1 DEF OnlyTasks, OnlySend, flagVars, forwardVars, collectVars
      <3>4. CASE \E f \in Files, g \in Gens, k \in 1..MaxMsgs : OutStep(f, g, k)
        BY <3>4 DEF OutStep, SendDir, SendResult, OutputDone, OnlyTasks, OnlySend,
                    flagVars, forwardVars, collectVars
      <3> QED BY <1>1, <3>1, <3>2, <3>3, <3>4
    <2> QED BY <2>1 DEF flagVars, ctxVars, httpVars, FlagsOK
  <1>2. CASE CancelWhenDone \/ Signal
    BY <1>2 DEF CancelWhenDone, Signal, OnlyCtx, FlagsOK, forwardVars, collectVars, httpVars
  <1>3. CASE ServerListens \/ StopWaits \/ RequestStop
    BY <1>3 DEF ServerListens, StopWaits, RequestStop, OnlyHTTP, FlagsOK,
                forwardVars, collectVars, ctxVars
  <1>4. CASE CollectorReceives \/ CollectorAppends \/ CollectorReturns
    BY <1>4 DEF CollectorReceives, CollectorAppends, CollectorReturns, OnlyCollector,
                FlagsOK, forwardVars, ctxVars, httpVars
  <1>5. CASE ForwardResult \/ ForwardError \/ ForwardPuts \/ ForwardCloses
    BY <1>5 DEF ForwardResult, ForwardError, ForwardPuts, ForwardCloses, OnlyForward,
                FlagsOK, collectVars, ctxVars, httpVars
  <1>6. CASE \E g \in Gens : RunReturns(g)
    BY <1>6 DEF RunReturns, FlagsOK, forwardVars, collectVars, httpVars
  <1>7. CASE Recv
    BY <1>7 DEF Recv, FlagsOK, forwardVars, collectVars, ctxVars, httpVars
  <1>8. CASE Rest
    BY <1>8 DEF Rest, vars, FlagsOK, forwardVars, collectVars, ctxVars, httpVars
  <1> QED
    BY <1>1, <1>2, <1>3, <1>4, <1>5, <1>6, <1>7, <1>8
    DEF Next, PipelineStep, HandlerStep

-----------------------------------------------------------------------------
(* The invariant and what follows from it.                                 *)

LEMMA SlotInvNat ==
  ASSUME SlotInv
  PROVE  slots \in Nat /\ Slots \in Nat
  BY FS_CardinalityType, HandlerAssumption DEF SlotInv, SlotsHeld

LEMMA ReqwgInvNat ==
  ASSUME ReqwgInv
  PROVE  reqwg \in Nat /\ reqwg = Cardinality(FilesAtWork)
  BY FS_CardinalityType DEF ReqwgInv, ReqwgBalanced, FilesAtWork

LEMMA TypeInvInit == Init => TypeInv
  <1> SUFFICES ASSUME Init PROVE TypeInv
    OBVIOUS
  <1>1. pc = [t \in Tasks |-> "idle"]
    BY DEF Init
  <1>2. SlotHolders = {}
    BY <1>1 DEF SlotHolders, SlotStages, Tasks
  <1>3. FilesAtWork = {}
    BY <1>1 DEF FilesAtWork, Outstanding, Ended
  <1>4. SlotInv
    BY <1>2, FS_EmptySet, HandlerAssumption DEF Init, SlotInv, SlotsHeld
  <1>5. ReqwgInv
    BY <1>3, FS_EmptySet DEF Init, ReqwgInv, ReqwgBalanced, FilesAtWork
  <1>6. ReportOK
    BY <1>1, TaskNames DEF ReportOK
  <1>7. ChannelsOK
    BY DEF Init, ChannelsOK, ResultCap, ErrCap, DirCap, QueueCap
  <1>8. FlagsOK
    BY DEF Init, FlagsOK
  <1>9. TaskDataOK
    BY DEF Init, TaskDataOK
  <1> QED
    BY <1>4, <1>5, <1>6, <1>7, <1>8, <1>9, WorksInvInit DEF TypeInv

LEMMA TypeInvStep == TypeInv /\ [Next]_vars => TypeInv'
  <1> SUFFICES ASSUME TypeInv, [Next]_vars PROVE TypeInv'
    OBVIOUS
  <1>0. /\ WorksInv /\ SlotInv /\ ReqwgInv /\ PcOK
        /\ TaskDataOK /\ ReportOK /\ ChannelsOK /\ FlagsOK
    BY DEF TypeInv, WorksInv
  <1>1. WorksInv'
    BY <1>0, WorksInvStep
  <1>2. CASE Next
    <2>1. TaskStep
      BY <1>0, <1>2, SlotInvNat, ReqwgInvNat, NextCounts
    <2>2. SlotInv'
      <3>1. IsFiniteSet(SlotHolders') /\ slots' = Cardinality(SlotHolders')
        BY <1>0, <2>1, CountKept DEF SlotInv, SlotsHeld, TaskStep, SlotsFollow
      <3>2. slots' \in {slots, slots + 1, slots - 1}
        BY <2>1 DEF TaskStep, SlotsFollow, Counts
      <3>3. slots' <= Slots
        BY <1>0, <2>1, <3>2, SlotInvNat DEF SlotInv, TaskStep, SlotsFollow
      <3> QED BY <3>1, <3>3 DEF SlotInv, SlotsHeld
    <2>3. ReqwgInv'
      <3>1. IsFiniteSet(FilesAtWork') /\ reqwg' = Cardinality(FilesAtWork')
        BY <1>0, <2>1, CountKept, ReqwgInvNat DEF ReqwgInv, TaskStep, ReqwgFollows
      <3> QED BY <3>1 DEF ReqwgInv, ReqwgBalanced, FilesAtWork
    <2>4. TaskDataOK'
      BY <2>1 DEF TaskStep
    <2>5. ReportOK' /\ ChannelsOK' /\ FlagsOK'
      BY <1>0, <1>2, ReportsCounted, NextChannels, NextFlags
    <2> QED BY <1>1, <2>2, <2>3, <2>4, <2>5 DEF TypeInv
  <1>3. CASE UNCHANGED vars
    <2>1. SlotInv' /\ ReqwgInv'
      BY <1>0, <1>3 DEF vars, taskVars, SlotInv, SlotsHeld, SlotHolders, ReqwgInv,
                        ReqwgBalanced, FilesAtWork, Outstanding
    <2>2. TaskDataOK' /\ ReportOK'
      BY <1>0, <1>3 DEF vars, taskVars, TaskDataOK, ReportOK
    <2>3. ChannelsOK' /\ FlagsOK'
      BY <1>0, <1>3 DEF vars, ChannelsOK, FlagsOK, forwardVars, collectVars,
                        ctxVars, httpVars
    <2> QED BY <1>1, <2>1, <2>2, <2>3 DEF TypeInv
  <1> QED BY <1>2, <1>3

LEMMA TypeInvariant == Spec => []TypeInv
  BY TypeInvInit, TypeInvStep, PTL DEF Spec

\* Every variable keeps its type, no channel of the handler holds more than
\* it was made for, and no WaitGroup counter goes below zero.
THEOREM TypeCorrect == Spec => []TypeOK
  <1>1. TypeInv => TypeOK
    <2> SUFFICES ASSUME TypeInv PROVE TypeOK
      OBVIOUS
    <2>1. works \in Nat
      BY FS_CardinalityType DEF TypeInv, WorksInv, WorksBalanced
    <2>2. slots \in 0..Slots /\ reqwg \in Nat
      BY SlotInvNat, ReqwgInvNat DEF TypeInv, SlotInv
    <2>3. PcOK
      BY DEF TypeInv, WorksInv
    <2> QED
      BY <2>1, <2>2, <2>3 DEF TypeInv, TypeOK, PcOK, TaskDataOK, ChannelsOK, FlagsOK
  <1> QED BY <1>1, TypeInvariant, PTL

\* Each token in loadAstBlock belongs to exactly one file being parsed or one
\* request being handled: every way out of loadAst and handleRequest gives the
\* slot back, and no two give back the same one.
THEOREM SlotsCorrect == Spec => []SlotsHeld
  <1>1. TypeInv => SlotsHeld
    BY DEF TypeInv, SlotInv
  <1> QED BY <1>1, TypeInvariant, PTL

\* The Adds and Dones of reqwg balance, so requestStop's Wait returns exactly
\* when no file is being loaded or dispatched.
THEOREM ReqwgCorrect == Spec => []ReqwgBalanced
  <1>1. TypeInv => ReqwgBalanced
    BY DEF TypeInv, ReqwgInv
  <1> QED BY <1>1, TypeInvariant, PTL
=============================================================================
