----------------------- MODULE GeneratorHandlerDelivery -----------------------
(***************************************************************************)
(* What becomes of a result in GeneratorHandler: it is made once, travels  *)
(* in one place at a time, and when the queue closes without a signal all  *)
(* but one of the results of generators have been handed over.             *)
(*                                                                         *)
(* The argument has two halves.  A task tells which results it may have    *)
(* made (TasksOK), so what is made is new.  And every result made is at    *)
(* its sender, in one of the channels, in the forwarder's hand or at the   *)
(* consumer, and in no two of these places (JourneyOK).  Who cancelled     *)
(* found nobody at work, so that what the closing of the queue overtakes   *)
(* is at most what resultQueue holds (ClosingOK and CancelAfterWork).      *)
(* With that each step is a step of ResultDelivery or leaves its variables *)
(* alone.                                                                  *)
(***************************************************************************)
EXTENDS GeneratorHandlerProofs

-----------------------------------------------------------------------------
(* What the program counter of a task tells about what it has made.        *)

Made(t, e) == Result(t, e) \in produced

FileOK(f) ==
    /\ pc[FileTask(f)] \in {"idle", "acquire", "load", "parse", "dispatch", "done"}
    /\ LoadError(f) \in produced => pc[FileTask(f)] = "done"
    /\ pc[FileTask(f)] = "done" =>
         LoadError(f) \in produced \/ \A g \in Gens : Requested(f, g)

ReqOK(f, g) ==
    /\ pc[ReqTask(f, g)] \in {"idle", "offered", "acquire", "generate", "emit",
                              "report", "fail", "ending", "done"}
    /\ Made(ReqTask(f, g), TRUE) => pc[ReqTask(f, g)] \in {"fail", "ending", "done"}
    /\ pc[ReqTask(f, g)] \in {"fail", "ending"} => Made(ReqTask(f, g), TRUE)
    /\ pc[ReqTask(f, g)] = "done" =>
         g \in Streaming \/ Made(ReqTask(f, g), TRUE) \/ msgs[<<f, g>>] > 0

OutOK(f, g, k) ==
    LET t == OutTask(f, g, k) IN
    /\ pc[t] \in {"idle", "dir", "result", "ending", "done"}
    /\ Made(t, FALSE) => pc[t] # "idle"
    /\ k > msgs[<<f, g>>] => pc[t] = "idle" /\ \A e \in BOOLEAN : ~Made(t, e)
    /\ k <= msgs[<<f, g>>] => \E e \in BOOLEAN : Made(t, e)

FilesOK == \A f \in Files : FileOK(f)
ReqsOK == \A f \in Files, g \in Gens : ReqOK(f, g)
OutsOK == \A f \in Files, g \in Gens, k \in 1..MaxMsgs : OutOK(f, g, k)

-----------------------------------------------------------------------------
(* Where the results are.                                                  *)

Output(t) == Result(t, FALSE)
Failure(t) == Result(t, TRUE)

\* The four parts of AtSender, for program counters p, counts m and error
\* senders S.
OutsHeld(p) ==
    {Output(t) : t \in {u \in OutTasks : p[u] \in {"dir", "result"}}}
FailuresHeld(p) == {Failure(t) : t \in {u \in ReqTasks : p[u] = "fail"}}
ReportsHeld(p, m) == {Failure(OutTask(x[1], x[2], m[x])) :
                        x \in {y \in Files \X Gens : p[ReqTask(y[1], y[2])] = "report"}}
ErrorsHeld(S) == {LoadError(f) : f \in S}

Apart(A, B) == A \cap B = {}

\* The results at their senders and those in the four channel places, the
\* delivered ones: six sets of which no two share a result.
PlacesApart(A, R, E, F, Q, D) ==
    /\ Apart(A, R) /\ Apart(A, E) /\ Apart(A, F) /\ Apart(A, Q) /\ Apart(A, D)
    /\ Apart(R, E) /\ Apart(R, F) /\ Apart(R, Q) /\ Apart(R, D)
    /\ Apart(E, F) /\ Apart(E, Q) /\ Apart(E, D)
    /\ Apart(F, Q) /\ Apart(F, D)
    /\ Apart(Q, D)

JourneyOK ==
    /\ produced = AtSender \cup InFlight \cup delivered
    /\ PlacesApart(AtSender, Range(resultQueue), Range(errQueue),
                   Range(forwarding), Range(queue), delivered)
    /\ IsFiniteSet(AtSender) /\ IsFiniteSet(delivered)
    /\ \A r \in Range(errQueue) : ~FromHandler(r)

DirPlaces == dirBaseSuffix \cup Range(dirChan) \cup Range(collecting)

\* An output task past SendDir has its entry on its way.
DirOK == \A t \in OutTasks : pc[t] \in {"result", "ending", "done"} => t \in DirPlaces

ClosingOK ==
    /\ closed => ctxDone /\ Launched /\ forwarding = <<>>
    /\ signaled => ctxDone

TasksOK == FilesOK /\ ReqsOK /\ OutsOK

DeliveryInv == TypeInv /\ TasksOK /\ JourneyOK /\ DirOK /\ ClosingOK

-----------------------------------------------------------------------------
(* Names.                                                                  *)

(* Different arguments name different tasks, and different tasks results.  *)
LEMMA NamesDiffer ==
    /\ \A f, h : FileTask(f) = FileTask(h) => f = h
    /\ \A f, g, h, i : ReqTask(f, g) = ReqTask(h, i) => f = h /\ g = i
    /\ \A f, g, k, h, i, l :
         OutTask(f, g, k) = OutTask(h, i, l) => f = h /\ g = i /\ k = l
    /\ \A f, p : FileTask(f) # PathTask(p)
    /\ \A f, g, p : ReqTask(f, g) # PathTask(p)
    /\ \A f, g, k, p : OutTask(f, g, k) # PathTask(p)
    /\ \A f, g, h : ReqTask(f, g) # FileTask(h)
    /\ \A f, g, k, h : OutTask(f, g, k) # FileTask(h)
    /\ \A f, g, k, h, i : OutTask(f, g, k) # ReqTask(h, i)
    /\ \A t, u, d, e : Result(t, d) = Result(u, e) => t = u /\ d = e
  <1>1. \A t, u, d, e : Result(t, d) = Result(u, e) => t = u /\ d = e
    BY DEF Result
  <1>2. \A f, g, h, i : ReqTask(f, g) = ReqTask(h, i) => f = h /\ g = i
    BY DEF ReqTask
  <1>3. \A f, g, k, h, i, l :
          OutTask(f, g, k) = OutTask(h, i, l) => f = h /\ g = i /\ k = l
    BY DEF OutTask
  <1>4. \A f, h : FileTask(f) = FileTask(h) => f = h
    BY DEF FileTask
  <1>5. /\ \A f, p : FileTask(f) # PathTask(p)
        /\ \A f, g, h : ReqTask(f, g) # FileTask(h)
        /\ \A f, g, k, h, i : OutTask(f, g, k) # ReqTask(h, i)
    BY TaskKinds
  <1>6. /\ \A f, g, p : ReqTask(f, g) # PathTask(p)
        /\ \A f, g, k, p : OutTask(f, g, k) # PathTask(p)
        /\ \A f, g, k, h : OutTask(f, g, k) # FileTask(h)
    BY DEF ReqTask, PathTask, OutTask, FileTask
  <1> QED BY <1>1, <1>2, <1>3, <1>4, <1>5, <1>6

(* The members of OutTasks.                                                *)
LEMMA OutTaskIs ==
    /\ \A t \in OutTasks : \E f \in Files, g \in Gens, k \in 1..MaxMsgs :
         t = OutTask(f, g, k)
    /\ \A f \in Files, g \in Gens, k \in 1..MaxMsgs : OutTask(f, g, k) \in OutTasks
    /\ OutTasks \subseteq Tasks
  <1>1. \A f \in Files, g \in Gens, k \in 1..MaxMsgs : OutTask(f, g, k) \in OutTasks
    <2> SUFFICES ASSUME NEW f \in Files, NEW g \in Gens, NEW k \in 1..MaxMsgs
                 PROVE  OutTask(f, g, k) \in OutTasks
      OBVIOUS
    <2>1. /\ <<f, g, k>> \in Files \X Gens \X (1..MaxMsgs)
          /\ <<f, g, k>>[1] = f /\ <<f, g, k>>[2] = g /\ <<f, g, k>>[3] = k
      OBVIOUS
    <2> QED BY <2>1 DEF OutTasks
  <1>2. \A t \in OutTasks : \E f \in Files, g \in Gens, k \in 1..MaxMsgs :
          t = OutTask(f, g, k)
    BY DEF OutTasks
  <1> QED BY <1>1, <1>2 DEF Tasks

(* The members of ReqTasks.                                                *)
LEMMA ReqTaskIs ==
    /\ \A t \in ReqTasks : \E f \in Files, g \in Gens : t = ReqTask(f, g)
    /\ ReqTasks \subseteq Tasks
  BY DEF ReqTasks, Tasks

-----------------------------------------------------------------------------
(* A step leaves the tasks it does not name as they were.                  *)

\* Neither the program counter of t nor what t has made changes.
SameFor(t) ==
    /\ pc'[t] = pc[t]
    /\ \A e \in BOOLEAN : Result(t, e) \in produced' <=> Result(t, e) \in produced

(* A file none of whose facts changed keeps what its counter tells.          *)
LEMMA KeepFile ==
  ASSUME NEW f \in Files, FileOK(f), SameFor(FileTask(f)),
         \A g \in Gens : Requested(f, g) => Requested(f, g)'
  PROVE  FileOK(f)'
  BY DEF FileOK, SameFor, LoadError

(* Likewise a request, whose count of messages may grow.                     *)
LEMMA KeepReq ==
  ASSUME NEW f \in Files, NEW g \in Gens, ReqOK(f, g), SameFor(ReqTask(f, g)),
         msgs[<<f, g>>] > 0 => msgs'[<<f, g>>] > 0
  PROVE  ReqOK(f, g)'
  BY DEF ReqOK, SameFor, Made

(* Likewise an output.                                                       *)
LEMMA KeepOut ==
  ASSUME NEW f \in Files, NEW g \in Gens, NEW k \in 1..MaxMsgs,
         OutOK(f, g, k), SameFor(OutTask(f, g, k)),
         msgs'[<<f, g>>] = msgs[<<f, g>>]
  PROVE  OutOK(f, g, k)'
  BY DEF OutOK, SameFor, Made

(* A request that was handed over stays so.                                  *)
LEMMA SameRequested ==
  ASSUME NEW f, NEW g, SameFor(ReqTask(f, g)), Requested(f, g)
  PROVE  Requested(f, g)'
  BY DEF SameFor, Requested

(* A task that moves, and makes at most a result of its own.               *)
LEMMA OthersSame ==
  ASSUME PcOK, NEW t \in Tasks, NEW from, NEW to, Move(t, from, to),
         produced' = produced \/ \E e \in BOOLEAN : produced' = produced \cup {Result(t, e)}
  PROVE  \A u \in Tasks : u # t => SameFor(u)
  BY NamesDiffer DEF SameFor, Move, PcOK

(* A task that starts another one.                                         *)
LEMMA OthersSameFork ==
  ASSUME PcOK, NEW t \in Tasks, NEW u \in Tasks, NEW s, NEW start,
         Fork(t, s, s, u, start),
         produced' = produced \/ \E e \in BOOLEAN : produced' = produced \cup {Result(u, e)}
  PROVE  \A v \in Tasks : v # u => SameFor(v)
  BY NamesDiffer DEF SameFor, Fork, PcOK

(* A step that names no task of the three kinds.                             *)
LEMMA AllSame ==
  ASSUME TasksOK, msgs' = msgs,
         \A f \in Files : SameFor(FileTask(f)),
         \A f \in Files, g \in Gens : SameFor(ReqTask(f, g)),
         \A f \in Files, g \in Gens, k \in 1..MaxMsgs : SameFor(OutTask(f, g, k))
  PROVE  TasksOK'
  <1>1. FilesOK'
    BY KeepFile, SameRequested DEF TasksOK, FilesOK
  <1>2. ReqsOK'
    BY KeepReq DEF TasksOK, ReqsOK
  <1>3. OutsOK'
    BY KeepOut DEF TasksOK, OutsOK
  <1> QED BY <1>1, <1>2, <1>3 DEF TasksOK

(* A step that names one file.                                               *)
LEMMA OnlyFile ==
  ASSUME TasksOK, msgs' = msgs, NEW f \in Files,
         \A u \in Tasks : u # FileTask(f) => SameFor(u), FileOK(f)'
  PROVE  TasksOK'
  <1>0. /\ \A h \in Files : h # f => SameFor(FileTask(h))
        /\ \A h \in Files, g \in Gens : SameFor(ReqTask(h, g))
        /\ \A h \in Files, g \in Gens, k \in 1..MaxMsgs : SameFor(OutTask(h, g, k))
    BY TaskNames, NamesDiffer
  <1>1. FilesOK'
    BY <1>0, KeepFile, SameRequested DEF TasksOK, FilesOK
  <1>2. ReqsOK'
    BY <1>0, KeepReq DEF TasksOK, ReqsOK
  <1>3. OutsOK'
    BY <1>0, KeepOut DEF TasksOK, OutsOK
  <1> QED BY <1>1, <1>2, <1>3 DEF TasksOK

(* A step that names one request.                                            *)
LEMMA OnlyReq ==
  ASSUME TasksOK, msgs' = msgs, NEW f \in Files, NEW g \in Gens,
         \A u \in Tasks : u # ReqTask(f, g) => SameFor(u),
         ReqOK(f, g)', Requested(f, g) => Requested(f, g)'
  PROVE  TasksOK'
  <1>0. /\ \A h \in Files : SameFor(FileTask(h))
        /\ \A h \in Files, i \in Gens : (h = f /\ i = g) \/ SameFor(ReqTask(h, i))
        /\ \A h \in Files, i \in Gens, k \in 1..MaxMsgs : SameFor(OutTask(h, i, k))
    BY TaskNames, NamesDiffer
  <1>1. FilesOK'
    <2> SUFFICES ASSUME NEW h \in Files PROVE FileOK(h)'
      BY DEF FilesOK
    <2>1. \A i \in Gens : Requested(h, i) => Requested(h, i)'
      BY <1>0, SameRequested
    <2> QED BY <1>0, <2>1, KeepFile DEF TasksOK, FilesOK
  <1>2. ReqsOK'
    <2> SUFFICES ASSUME NEW h \in Files, NEW i \in Gens PROVE ReqOK(h, i)'
      BY DEF ReqsOK
    <2> QED BY <1>0, KeepReq DEF TasksOK, ReqsOK
  <1>3. OutsOK'
    BY <1>0, KeepOut DEF TasksOK, OutsOK
  <1> QED BY <1>1, <1>2, <1>3 DEF TasksOK

(* A step that names one output.                                             *)
LEMMA OnlyOut ==
  ASSUME TasksOK, msgs' = msgs, NEW f \in Files, NEW g \in Gens, NEW k \in 1..MaxMsgs,
         \A u \in Tasks : u # OutTask(f, g, k) => SameFor(u), OutOK(f, g, k)'
  PROVE  TasksOK'
  <1>0. /\ \A h \in Files : SameFor(FileTask(h))
        /\ \A h \in Files, i \in Gens : SameFor(ReqTask(h, i))
        /\ \A h \in Files, i \in Gens, l \in 1..MaxMsgs :
             (h = f /\ i = g /\ l = k) \/ SameFor(OutTask(h, i, l))
    BY TaskNames, NamesDiffer
  <1>1. FilesOK'
    BY <1>0, KeepFile, SameRequested DEF TasksOK, FilesOK
  <1>2. ReqsOK'
    BY <1>0, KeepReq DEF TasksOK, ReqsOK
  <1>3. OutsOK'
    <2> SUFFICES ASSUME NEW h \in Files, NEW i \in Gens, NEW l \in 1..MaxMsgs
                 PROVE  OutOK(h, i, l)'
      BY DEF OutsOK
    <2> QED BY <1>0, KeepOut DEF TasksOK, OutsOK
  <1> QED BY <1>1, <1>2, <1>3 DEF TasksOK

-----------------------------------------------------------------------------
(* Every step keeps what the tasks tell.                                   *)

(* The goroutines of the arguments.                                          *)
LEMMA PathTasksOK ==
  ASSUME PcOK, TasksOK, NEW p \in Paths, PathStep(p)
  PROVE  TasksOK'
  <1>1. \E from, to \in {"idle", "lookup", "spawn", "done"} : Move(PathTask(p), from, to)
    BY DEF PathStep, Launch, LookupFails, LookupFinds, PathDone, End
  <1>2. produced' = produced /\ msgs' = msgs
    BY DEF PathStep, Launch, LookupFails, LookupFinds, PathDone
  <1>3. \A u \in Tasks : u # PathTask(p) => SameFor(u)
    BY <1>1, <1>2, OthersSame, TaskNames
  <1>4. /\ \A f \in Files : SameFor(FileTask(f))
        /\ \A f \in Files, g \in Gens : SameFor(ReqTask(f, g))
        /\ \A f \in Files, g \in Gens, k \in 1..MaxMsgs : SameFor(OutTask(f, g, k))
    BY <1>3, TaskNames, NamesDiffer
  <1> QED BY <1>2, <1>4, AllSame

(* The goroutines of the files.                                              *)
LEMMA FileTasksOK ==
  ASSUME PcOK, TasksOK, NEW f \in Files, FileStep(f)
  PROVE  TasksOK'
  <1> DEFINE t == FileTask(f)
  <1>0. /\ t \in Tasks /\ PathTask(PathOf[f]) \in Tasks /\ FileOK(f)
        /\ pc \in [Tasks -> Stages] /\ \A g \in Gens : ReqTask(f, g) \in Tasks
    BY TaskNames, HandlerAssumption DEF TasksOK, FilesOK, PcOK
  <1>1. msgs' = msgs
    BY DEF FileStep, SpawnFile, AcquireLoad, Post, LoadFails, LoadSucceeds, FileDone,
           SendError
  <1>2. CASE SpawnFile(f)
    <2>1. Fork(PathTask(PathOf[f]), "spawn", "spawn", t, "acquire") /\ produced' = produced
      BY <1>2 DEF SpawnFile
    <2>2. \A u \in Tasks : u # t => SameFor(u)
      BY <1>0, <2>1, OthersSameFork
    <2>3. pc[t] = "idle" /\ pc'[t] = "acquire"
      BY <1>0, <2>1 DEF Fork
    <2>4. FileOK(f)'
      BY <1>0, <2>1, <2>3 DEF FileOK, LoadError
    <2> QED BY <1>1, <2>2, <2>4, OnlyFile
  <1>3. CASE AcquireLoad(f) \/ Post(f) \/ LoadSucceeds(f)
    <2>1. /\ \E from, to \in {"acquire", "load", "parse", "dispatch"} : Move(t, from, to)
          /\ produced' = produced
      BY <1>3 DEF AcquireLoad, Post, LoadSucceeds, Acquire
    <2>2. \A u \in Tasks : u # t => SameFor(u)
      BY <1>0, <2>1, OthersSame
    <2>3. pc[t] # "done" /\ pc'[t] \in {"acquire", "load", "parse", "dispatch"}
      BY <1>0, <2>1 DEF Move
    <2>4. FileOK(f)'
      BY <1>0, <2>1, <2>3 DEF FileOK, LoadError
    <2> QED BY <1>1, <2>2, <2>4, OnlyFile
  <1>4. CASE LoadFails(f)
    <2>1. /\ \E from \in {"load", "parse"} : Move(t, from, "done")
          /\ produced' = produced \cup {Result(t, TRUE)}
      BY <1>4 DEF LoadFails, End, LoadError
    <2>2. \A u \in Tasks : u # t => SameFor(u)
      BY <1>0, <2>1, OthersSame
    <2>3. pc'[t] = "done"
      BY <1>0, <2>1 DEF Move
    <2>4. FileOK(f)'
      BY <2>1, <2>3 DEF FileOK, LoadError
    <2> QED BY <1>1, <2>2, <2>4, OnlyFile
  <1>5. CASE FileDone(f)
    <2>1. /\ Move(t, "dispatch", "done") /\ produced' = produced
          /\ \A g \in Gens : Requested(f, g)
      BY <1>5 DEF FileDone, End
    <2>2. \A u \in Tasks : u # t => SameFor(u)
      BY <1>0, <2>1, OthersSame
    <2>3. pc'[t] = "done"
      BY <1>0, <2>1 DEF Move
    <2>4. \A g \in Gens : Requested(f, g)'
      BY <1>0, <2>1, <2>2, SameRequested, NamesDiffer
    <2>5. FileOK(f)'
      BY <2>3, <2>4 DEF FileOK
    <2> QED BY <1>1, <2>2, <2>5, OnlyFile
  <1>6. CASE SendError(f)
    <2>1. \A u : SameFor(u)
      BY <1>6 DEF SendError, SameFor
    <2> QED BY <1>1, <2>1, AllSame
  <1> QED BY <1>2, <1>3, <1>4, <1>5, <1>6 DEF FileStep

\* The message that a request counts is one it has not sent before.
LEMMA CountIs ==
  ASSUME PcOK, NEW f \in Files, NEW g \in Gens, CountMsg(f, g)
  PROVE  /\ NextMsg(f, g) = msgs[<<f, g>>] + 1 /\ NextMsg(f, g) \in 1..MaxMsgs
         /\ msgs[<<f, g>>] \in Nat /\ msgs'[<<f, g>>] = NextMsg(f, g)
         /\ \A h \in Files, i \in Gens :
              (h = f /\ i = g) \/ msgs'[<<h, i>>] = msgs[<<h, i>>]
  <1>1. /\ msgs \in [Files \X Gens -> 0..MaxMsgs] /\ <<f, g>> \in Files \X Gens
        /\ msgs[<<f, g>>] \in 0..MaxMsgs /\ MaxMsgs \in Nat
        /\ msgs' = [msgs EXCEPT ![<<f, g>>] = msgs[<<f, g>>] + 1]
    BY MsgType DEF PcOK, CountMsg
  <1>2. NextMsg(f, g) \in 1..MaxMsgs
    BY NextMsgType
  <1>3. msgs'[<<f, g>>] = NextMsg(f, g)
    BY <1>1 DEF NextMsg
  <1>4. ASSUME NEW h \in Files, NEW i \in Gens, ~(h = f /\ i = g)
        PROVE  msgs'[<<h, i>>] = msgs[<<h, i>>]
    <2>1. <<h, i>> \in Files \X Gens /\ <<h, i>> # <<f, g>>
      BY <1>4
    <2> QED BY <1>1, <2>1
  <1> QED BY <1>1, <1>2, <1>3, <1>4 DEF NextMsg

\* A step that counts a message and makes it, as an output or as a report.
LEMMA EmitsOne ==
  ASSUME PcOK, TasksOK, NEW f \in Files, NEW g \in Gens, CountMsg(f, g),
         NEW t, t = OutTask(f, g, NextMsg(f, g)),
         \E e \in BOOLEAN : produced' = produced \cup {Result(t, e)},
         \A u \in Tasks : u # t /\ u # ReqTask(f, g) => SameFor(u),
         pc'[t] \in {"idle", "dir"}, pc'[t] = "idle" => Result(t, FALSE) \notin produced',
         pc[ReqTask(f, g)] = "emit", pc'[ReqTask(f, g)] \in {"emit", "report"}
  PROVE  TasksOK'
  <1> DEFINE m == NextMsg(f, g)
  <1>1. /\ m = msgs[<<f, g>>] + 1 /\ m \in 1..MaxMsgs
        /\ msgs[<<f, g>>] \in Nat /\ msgs'[<<f, g>>] = m
        /\ \A h \in Files, i \in Gens :
             (h = f /\ i = g) \/ msgs'[<<h, i>>] = msgs[<<h, i>>]
    BY CountIs
  <1>2. /\ \A h \in Files : SameFor(FileTask(h))
        /\ \A h \in Files, i \in Gens : (h = f /\ i = g) \/ SameFor(ReqTask(h, i))
        /\ \A h \in Files, i \in Gens, l \in 1..MaxMsgs :
             (h = f /\ i = g /\ l = m) \/ SameFor(OutTask(h, i, l))
    BY TaskNames, NamesDiffer
  <1>3. FilesOK'
    <2> SUFFICES ASSUME NEW h \in Files PROVE FileOK(h)'
      BY DEF FilesOK
    <2>1. ASSUME NEW i \in Gens, Requested(h, i) PROVE Requested(h, i)'
      <3>1. CASE h = f /\ i = g
        BY <3>1 DEF Requested
      <3>2. CASE ~(h = f /\ i = g)
        BY <1>2, <2>1, <3>2, SameRequested
      <3> QED BY <3>1, <3>2
    <2> QED BY <1>2, <2>1, KeepFile DEF TasksOK, FilesOK
  <1>4. ReqsOK'
    <2> SUFFICES ASSUME NEW h \in Files, NEW i \in Gens PROVE ReqOK(h, i)'
      BY DEF ReqsOK
    <2>1. ReqOK(h, i)
      BY DEF TasksOK, ReqsOK
    <2>2. CASE h = f /\ i = g
      <3>1. Result(ReqTask(f, g), TRUE) \in produced'
            <=> Result(ReqTask(f, g), TRUE) \in produced
        <4>1. PICK e \in BOOLEAN : produced' = produced \cup {Result(t, e)}
          OBVIOUS
        <4>2. ReqTask(f, g) # t
          BY TaskKinds
        <4>3. Result(ReqTask(f, g), TRUE) # Result(t, e)
          BY <4>2 DEF Result
        <4> QED BY <4>1, <4>3
      <3> QED BY <2>1, <2>2, <3>1 DEF ReqOK, Made
    <2>3. CASE ~(h = f /\ i = g)
      BY <1>1, <1>2, <2>1, <2>3, KeepReq
    <2> QED BY <2>2, <2>3
  <1>5. OutsOK'
    <2> SUFFICES ASSUME NEW h \in Files, NEW i \in Gens, NEW l \in 1..MaxMsgs
                 PROVE  OutOK(h, i, l)'
      BY DEF OutsOK
    <2>1. OutOK(h, i, l) /\ l \in Nat
      BY HandlerAssumption DEF TasksOK, OutsOK
    <2>2. CASE h = f /\ i = g /\ l = m
      <3>1. OutTask(h, i, l) = t /\ \E e \in BOOLEAN : Result(t, e) \in produced'
        BY <2>2
      <3>2. ~(l > msgs'[<<h, i>>])
        BY <1>1, <2>1, <2>2
      <3> QED BY <3>1, <3>2 DEF OutOK, Made
    <2>3. CASE h = f /\ i = g /\ l # m
      <3>1. SameFor(OutTask(f, g, l))
        BY <1>2, <2>3
      <3>2. l > msgs'[<<f, g>>] => l > msgs[<<f, g>>]
        BY <1>1, <2>1, <2>3
      <3>3. l <= msgs'[<<f, g>>] => l <= msgs[<<f, g>>]
        BY <1>1, <2>1, <2>3
      <3> QED BY <2>1, <2>3, <3>1, <3>2, <3>3 DEF OutOK, SameFor, Made
    <2>4. CASE ~(h = f /\ i = g)
      BY <1>1, <1>2, <2>1, <2>4, KeepOut
    <2> QED BY <2>2, <2>3, <2>4
  <1> QED BY <1>3, <1>4, <1>5 DEF TasksOK

(* The goroutines of the requests.                                           *)
LEMMA ReqTasksOK ==
  ASSUME PcOK, TasksOK, NEW f \in Files, NEW g \in Gens, ReqStep(f, g)
  PROVE  TasksOK'
  <1> DEFINE t == ReqTask(f, g)
  <1>0. /\ t \in Tasks /\ FileTask(f) \in Tasks /\ ReqOK(f, g)
        /\ pc \in [Tasks -> Stages] /\ msgs[<<f, g>>] \in Nat
    BY TaskNames, MsgType DEF TasksOK, ReqsOK, PcOK
  <1>1. CASE Offer(f, g)
    <2>1. /\ Fork(FileTask(f), "dispatch", "dispatch", t, "offered")
          /\ produced' = produced /\ msgs' = msgs
      BY <1>1 DEF Offer
    <2>2. \A u \in Tasks : u # t => SameFor(u)
      BY <1>0, <2>1, OthersSameFork
    <2>3. pc[t] = "idle" /\ pc'[t] = "offered"
      BY <1>0, <2>1 DEF Fork
    <2>4. ReqOK(f, g)' /\ ~Requested(f, g)
      BY <1>0, <2>1, <2>3 DEF ReqOK, Made, Requested
    <2> QED BY <2>1, <2>2, <2>4, OnlyReq
  <1>2. CASE Accept(f, g) \/ AcquireGenerate(f, g) \/ GenerateSucceeds(f, g)
             \/ SendReport(f, g)
    <2> DEFINE S == {"offered", "acquire", "generate", "emit", "report"}
    <2>1. /\ \E from \in S, to \in {"acquire", "generate", "emit"} : Move(t, from, to)
          /\ produced' = produced /\ msgs' = msgs
      BY <1>2 DEF Accept, AcquireGenerate, GenerateSucceeds, SendReport, Acquire,
                  OnlySend
    <2>2. \A u \in Tasks : u # t => SameFor(u)
      BY <1>0, <2>1, OthersSame
    <2>3. pc[t] \in S /\ pc'[t] \in {"acquire", "generate", "emit"}
      BY <1>0, <2>1 DEF Move
    <2>4. ReqOK(f, g)' /\ Requested(f, g)'
      BY <1>0, <2>1, <2>3 DEF ReqOK, Made, Requested
    <2> QED BY <2>1, <2>2, <2>4, OnlyReq
  <1>3. CASE GenerateFails(f, g)
    <2>1. /\ \E from \in {"generate", "emit"} : Move(t, from, "fail")
          /\ produced' = produced \cup {Result(t, TRUE)} /\ msgs' = msgs
      BY <1>3 DEF GenerateFails
    <2>2. \A u \in Tasks : u # t => SameFor(u)
      BY <1>0, <2>1, OthersSame
    <2>3. pc'[t] = "fail"
      BY <1>0, <2>1 DEF Move
    <2>4. ReqOK(f, g)' /\ Requested(f, g)'
      BY <2>1, <2>3 DEF ReqOK, Made, Requested
    <2> QED BY <2>1, <2>2, <2>4, OnlyReq
  <1>4. CASE SendFailure(f, g)
    <2>1. Move(t, "fail", "ending") /\ produced' = produced /\ msgs' = msgs
      BY <1>4 DEF SendFailure, OnlySend
    <2>2. \A u \in Tasks : u # t => SameFor(u)
      BY <1>0, <2>1, OthersSame
    <2>3. pc[t] = "fail" /\ pc'[t] = "ending"
      BY <1>0, <2>1 DEF Move
    <2>4. ReqOK(f, g)' /\ Requested(f, g)'
      BY <1>0, <2>1, <2>3 DEF ReqOK, Made, Requested
    <2> QED BY <2>1, <2>2, <2>4, OnlyReq
  <1>5. CASE HandlerDone(f, g)
    <2>1. /\ \/ Move(t, "ending", "done")
             \/ (g \in Streaming \/ msgs[<<f, g>>] > 0) /\ Move(t, "emit", "done")
          /\ produced' = produced /\ msgs' = msgs
      BY <1>5 DEF HandlerDone, End
    <2>2. \A u \in Tasks : u # t => SameFor(u)
      BY <1>0, <2>1, OthersSame
    <2>3. /\ pc'[t] = "done"
          /\ pc[t] = "ending" \/ g \in Streaming \/ msgs[<<f, g>>] > 0
      BY <1>0, <2>1 DEF Move
    <2>4. g \in Streaming \/ Made(t, TRUE) \/ msgs[<<f, g>>] > 0
      BY <1>0, <2>3 DEF ReqOK
    <2>5. ReqOK(f, g)' /\ Requested(f, g)'
      BY <2>1, <2>3, <2>4 DEF ReqOK, Made, Requested
    <2> QED BY <2>1, <2>2, <2>5, OnlyReq
  <1>6. CASE EmitOutput(f, g)
    <2> DEFINE out == OutTask(f, g, NextMsg(f, g))
    <2>1. /\ CountMsg(f, g) /\ Fork(t, "emit", "emit", out, "dir")
          /\ produced' = produced \cup {Result(out, FALSE)}
      BY <1>6 DEF EmitOutput
    <2>2. out \in Tasks /\ t # out
      BY <2>1, CountIs, TaskNames, TaskKinds
    <2>3. \A u \in Tasks : u # out => SameFor(u)
      BY <1>0, <2>1, <2>2, OthersSameFork
    <2>4. pc[t] = "emit" /\ pc'[t] = "emit" /\ pc'[out] = "dir"
      BY <1>0, <2>1, <2>2 DEF Fork
    <2> QED BY <2>1, <2>3, <2>4, EmitsOne
  <1>7. CASE EmitReport(f, g)
    <2> DEFINE out == OutTask(f, g, NextMsg(f, g))
    <2>1. /\ CountMsg(f, g) /\ Move(t, "emit", "report")
          /\ produced' = produced \cup {Result(out, TRUE)}
      BY <1>7 DEF EmitReport
    <2>2. /\ out \in Tasks /\ t # out
          /\ NextMsg(f, g) \in 1..MaxMsgs /\ NextMsg(f, g) > msgs[<<f, g>>]
      <3>1. NextMsg(f, g) \in 1..MaxMsgs /\ NextMsg(f, g) = msgs[<<f, g>>] + 1
        BY <2>1, CountIs
      <3>2. out \in Tasks /\ t # out
        BY <3>1, TaskNames, TaskKinds
      <3>3. NextMsg(f, g) > msgs[<<f, g>>]
        BY <1>0, <3>1
      <3> QED BY <3>1, <3>2, <3>3
    <2>3. \A u \in Tasks : u # out /\ u # t => SameFor(u)
      BY <1>0, <2>1, NamesDiffer DEF SameFor, Move
    <2>4. pc[t] = "emit" /\ pc'[t] = "report" /\ pc'[out] = pc[out]
      BY <1>0, <2>1, <2>2 DEF Move
    <2>5. pc[out] = "idle" /\ Result(out, FALSE) \notin produced
      BY <2>2 DEF TasksOK, OutsOK, OutOK, Made
    <2>6. Result(out, FALSE) \notin produced'
      <3>1. Result(out, FALSE) # Result(out, TRUE)
        BY DEF Result
      <3> QED BY <2>1, <2>5, <3>1
    <2>7. \E e \in BOOLEAN : produced' = produced \cup {Result(out, e)}
      BY <2>1
    <2>8. pc'[out] \in {"idle", "dir"}
      BY <2>4, <2>5
    <2> HIDE DEF out
    <2> QED
      BY <2>1, <2>3, <2>4, <2>6, <2>7, <2>8, EmitsOne DEF out
  <1> QED BY <1>1, <1>2, <1>3, <1>4, <1>5, <1>6, <1>7 DEF ReqStep

(* The goroutines of the outputs.                                            *)
LEMMA OutTasksOK ==
  ASSUME PcOK, TasksOK, NEW f \in Files, NEW g \in Gens, NEW k \in 1..MaxMsgs,
         OutStep(f, g, k)
  PROVE  TasksOK'
  <1> DEFINE t == OutTask(f, g, k)
  <1>1. /\ \E from, to \in {"dir", "result", "ending", "done"} : Move(t, from, to)
        /\ produced' = produced /\ msgs' = msgs
    BY DEF OutStep, SendDir, SendResult, OutputDone, OnlySend, End
  <1>2. t \in Tasks /\ OutOK(f, g, k) /\ pc \in [Tasks -> Stages]
    BY TaskNames DEF TasksOK, OutsOK, PcOK
  <1>3. \A u \in Tasks : u # t => SameFor(u)
    BY <1>1, <1>2, OthersSame
  <1>4. pc[t] # "idle" /\ pc'[t] \in {"dir", "result", "ending", "done"}
    BY <1>1, <1>2 DEF Move
  <1>5. OutOK(f, g, k)'
    BY <1>1, <1>2, <1>4 DEF OutOK, Made
  <1> QED BY <1>1, <1>3, <1>5, OnlyOut

(* Any step.                                                                 *)
LEMMA NextTasksOK ==
  ASSUME PcOK, TasksOK, Next
  PROVE  TasksOK'
  <1>1. CASE \E p \in Paths : PathStep(p)
    BY <1>1, PathTasksOK
  <1>2. CASE \E f \in Files : FileStep(f)
    BY <1>2, FileTasksOK
  <1>3. CASE \E f \in Files, g \in Gens : ReqStep(f, g)
    BY <1>3, ReqTasksOK
  <1>4. CASE \E f \in Files, g \in Gens, k \in 1..MaxMsgs : OutStep(f, g, k)
    BY <1>4, OutTasksOK
  <1>5. CASE HandlerStep \/ Signal \/ Recv \/ Rest
    <2>1. UNCHANGED taskVars
      BY <1>5 DEF HandlerStep, Signal, Recv, Rest, vars, CancelWhenDone, OnlyCtx,
           ServerListens, StopWaits, RequestStop, OnlyHTTP, CollectorReceives,
           CollectorAppends, CollectorReturns, OnlyCollector, ForwardResult,
           ForwardError, ForwardPuts, ForwardCloses, OnlyForward, RunReturns
    <2>2. msgs' = msgs /\ \A u : SameFor(u)
      BY <2>1 DEF taskVars, SameFor
    <2> QED BY <2>2, AllSame
  <1> QED BY <1>1, <1>2, <1>3, <1>4, <1>5 DEF Next, PipelineStep

-----------------------------------------------------------------------------
(* The results at their senders.                                           *)

(* AtSender is the union of its four parts, before and after a step.         *)
LEMMA SenderParts ==
  /\ AtSender = OutsHeld(pc) \cup FailuresHeld(pc)
                \cup ReportsHeld(pc, msgs) \cup ErrorsHeld(errTasks)
  /\ AtSender' = OutsHeld(pc') \cup FailuresHeld(pc')
                 \cup ReportsHeld(pc', msgs') \cup ErrorsHeld(errTasks')
  BY DEF AtSender, OutsHeld, FailuresHeld, ReportsHeld, ErrorsHeld, Output, Failure

(* Membership in the parts, in terms of files and generators.              *)
LEMMA ReportIs ==
  ASSUME NEW p, NEW m
  PROVE  \A r : r \in ReportsHeld(p, m) <=>
           \E f \in Files, g \in Gens : p[ReqTask(f, g)] = "report"
                /\ r = Failure(OutTask(f, g, m[<<f, g>>]))
  <1> SUFFICES ASSUME NEW r
               PROVE  r \in ReportsHeld(p, m) <=>
                      \E f \in Files, g \in Gens : p[ReqTask(f, g)] = "report"
                         /\ r = Failure(OutTask(f, g, m[<<f, g>>]))
    OBVIOUS
  <1>1. ASSUME r \in ReportsHeld(p, m)
        PROVE  \E f \in Files, g \in Gens : p[ReqTask(f, g)] = "report"
                  /\ r = Failure(OutTask(f, g, m[<<f, g>>]))
    <2>1. PICK x \in Files \X Gens : p[ReqTask(x[1], x[2])] = "report"
                                     /\ r = Failure(OutTask(x[1], x[2], m[x]))
      BY <1>1 DEF ReportsHeld
    <2>2. x[1] \in Files /\ x[2] \in Gens /\ x = <<x[1], x[2]>>
      OBVIOUS
    <2>3. m[x] = m[<<x[1], x[2]>>]
      BY <2>2
    <2> QED BY <2>1, <2>2, <2>3
  <1>2. ASSUME NEW f \in Files, NEW g \in Gens, p[ReqTask(f, g)] = "report",
               r = Failure(OutTask(f, g, m[<<f, g>>]))
        PROVE  r \in ReportsHeld(p, m)
    <2>1. <<f, g>> \in Files \X Gens /\ <<f, g>>[1] = f /\ <<f, g>>[2] = g
      OBVIOUS
    <2> QED BY <1>2, <2>1 DEF ReportsHeld
  <1> QED BY <1>1, <1>2

(* No result is in two parts.                                              *)
LEMMA PartsApart ==
  ASSUME NEW p, NEW m, NEW S
  PROVE  /\ \A r \in OutsHeld(p) :
              r \notin FailuresHeld(p) \cup ReportsHeld(p, m) \cup ErrorsHeld(S)
         /\ \A r \in FailuresHeld(p) :
              r \notin OutsHeld(p) \cup ReportsHeld(p, m) \cup ErrorsHeld(S)
         /\ \A r \in ReportsHeld(p, m) :
              r \notin OutsHeld(p) \cup FailuresHeld(p) \cup ErrorsHeld(S)
         /\ \A r \in ErrorsHeld(S) :
              r \notin OutsHeld(p) \cup FailuresHeld(p) \cup ReportsHeld(p, m)
  <1>1. \A r \in OutsHeld(p) : r.err = FALSE
    BY DEF OutsHeld, Output, Result
  <1>2. \A r \in FailuresHeld(p) : r.err = TRUE /\ \E f, g : r.task = ReqTask(f, g)
    BY ReqTaskIs DEF FailuresHeld, Failure, Result
  <1>3. \A r \in ReportsHeld(p, m) : r.err = TRUE /\ \E f, g, k : r.task = OutTask(f, g, k)
    <2> SUFFICES ASSUME NEW r \in ReportsHeld(p, m)
                 PROVE  r.err = TRUE /\ \E f, g, k : r.task = OutTask(f, g, k)
      OBVIOUS
    <2>1. PICK f \in Files, g \in Gens : p[ReqTask(f, g)] = "report"
                 /\ r = Failure(OutTask(f, g, m[<<f, g>>]))
      BY ReportIs
    <2> QED BY <2>1 DEF Failure, Result
  <1>4. \A r \in ErrorsHeld(S) : r.err = TRUE /\ \E f : r.task = FileTask(f)
    BY DEF ErrorsHeld, LoadError, Result
  <1>5. /\ \A f, g, h : ReqTask(f, g) # FileTask(h)
        /\ \A f, g, k, h : OutTask(f, g, k) # FileTask(h)
        /\ \A f, g, k, h, i : OutTask(f, g, k) # ReqTask(h, i)
    BY NamesDiffer
  <1> QED BY <1>1, <1>2, <1>3, <1>4, <1>5

HoldsOut == {"dir", "result"}

(* No output comes to hold its result or gives it away.                      *)
LEMMA OutsSame ==
  ASSUME NEW p, NEW q, \A u \in OutTasks : p[u] \in HoldsOut <=> q[u] \in HoldsOut
  PROVE  OutsHeld(q) = OutsHeld(p)
  BY DEF OutsHeld, HoldsOut

(* One output comes to hold its result.                                      *)
LEMMA OutsAdd ==
  ASSUME NEW p, NEW q, NEW t \in OutTasks, q[t] \in HoldsOut,
         \A u \in OutTasks : u # t => q[u] = p[u]
  PROVE  OutsHeld(q) = OutsHeld(p) \cup {Output(t)}
  BY DEF OutsHeld, HoldsOut

(* One output gives its result away.                                         *)
LEMMA OutsDrop ==
  ASSUME NEW p, NEW q, NEW t \in OutTasks, p[t] \in HoldsOut, q[t] \notin HoldsOut,
         \A u \in OutTasks : u # t => q[u] = p[u]
  PROVE  /\ OutsHeld(q) = OutsHeld(p) \ {Output(t)}
         /\ Output(t) \in OutsHeld(p)
  <1>1. \A u \in OutTasks : Output(u) = Output(t) => u = t
    BY DEF Output, Failure, Result
  <1> QED BY <1>1 DEF OutsHeld, HoldsOut

(* The same for the failures of requests: none moves.                        *)
LEMMA FailuresSame ==
  ASSUME NEW p, NEW q, \A u \in ReqTasks : p[u] = "fail" <=> q[u] = "fail"
  PROVE  FailuresHeld(q) = FailuresHeld(p)
  BY DEF FailuresHeld

(* One request comes to hold its failure.                                    *)
LEMMA FailuresAdd ==
  ASSUME NEW p, NEW q, NEW t \in ReqTasks, q[t] = "fail",
         \A u \in ReqTasks : u # t => q[u] = p[u]
  PROVE  FailuresHeld(q) = FailuresHeld(p) \cup {Failure(t)}
  BY DEF FailuresHeld

(* One request gives its failure away.                                       *)
LEMMA FailuresDrop ==
  ASSUME NEW p, NEW q, NEW t \in ReqTasks, p[t] = "fail", q[t] # "fail",
         \A u \in ReqTasks : u # t => q[u] = p[u]
  PROVE  /\ FailuresHeld(q) = FailuresHeld(p) \ {Failure(t)}
         /\ Failure(t) \in FailuresHeld(p)
  <1>1. \A u \in ReqTasks : Failure(u) = Failure(t) => u = t
    BY DEF Output, Failure, Result
  <1> QED BY <1>1 DEF FailuresHeld

(* The same for the error replies of streams: none moves.                    *)
LEMMA ReportsSame ==
  ASSUME NEW p, NEW q, NEW m, NEW n,
         \A f \in Files, g \in Gens :
            /\ p[ReqTask(f, g)] = "report" <=> q[ReqTask(f, g)] = "report"
            /\ q[ReqTask(f, g)] = "report" => n[<<f, g>>] = m[<<f, g>>]
  PROVE  ReportsHeld(q, n) = ReportsHeld(p, m)
  <1>1. ASSUME NEW r \in ReportsHeld(q, n) PROVE r \in ReportsHeld(p, m)
    <2>1. PICK f \in Files, g \in Gens : q[ReqTask(f, g)] = "report"
                 /\ r = Failure(OutTask(f, g, n[<<f, g>>]))
      BY <1>1, ReportIs, SMTT(30)
    <2>2. p[ReqTask(f, g)] = "report" /\ r = Failure(OutTask(f, g, m[<<f, g>>]))
      BY <2>1
    <2> QED BY <2>2, ReportIs
  <1>2. ASSUME NEW r \in ReportsHeld(p, m) PROVE r \in ReportsHeld(q, n)
    <2>1. PICK f \in Files, g \in Gens : p[ReqTask(f, g)] = "report"
                 /\ r = Failure(OutTask(f, g, m[<<f, g>>]))
      BY <1>2, ReportIs
    <2>2. q[ReqTask(f, g)] = "report" /\ r = Failure(OutTask(f, g, n[<<f, g>>]))
      BY <2>1
    <2> QED BY <2>2, ReportIs
  <1> QED BY <1>1, <1>2

(* One request comes to hold the reply it has counted last.                  *)
LEMMA ReportsAdd ==
  ASSUME NEW f \in Files, NEW g \in Gens,
         pc[ReqTask(f, g)] # "report", pc'[ReqTask(f, g)] = "report",
         \A h \in Files, i \in Gens :
            (h = f /\ i = g) \/ pc'[ReqTask(h, i)] = pc[ReqTask(h, i)],
         \A h \in Files, i \in Gens : (h = f /\ i = g) \/ msgs'[<<h, i>>] = msgs[<<h, i>>]
  PROVE  ReportsHeld(pc', msgs') = ReportsHeld(pc, msgs)
                             \cup {Failure(OutTask(f, g, msgs'[<<f, g>>]))}
  <1> DEFINE x == Failure(OutTask(f, g, msgs'[<<f, g>>]))
  <1>1. ASSUME NEW r \in ReportsHeld(pc', msgs') PROVE r \in ReportsHeld(pc, msgs) \cup {x}
    <2>1. PICK h \in Files, i \in Gens : pc'[ReqTask(h, i)] = "report"
                 /\ r = Failure(OutTask(h, i, msgs'[<<h, i>>]))
      BY <1>1, ReportIs
    <2>2. CASE h = f /\ i = g
      BY <2>1, <2>2
    <2>3. CASE ~(h = f /\ i = g)
      <3>1. pc[ReqTask(h, i)] = "report" /\ r = Failure(OutTask(h, i, msgs[<<h, i>>]))
        BY <2>1, <2>3
      <3> QED BY <3>1, ReportIs
    <2> QED BY <2>2, <2>3
  <1>2. ASSUME NEW r \in ReportsHeld(pc, msgs) PROVE r \in ReportsHeld(pc', msgs')
    <2>1. PICK h \in Files, i \in Gens : pc[ReqTask(h, i)] = "report"
                 /\ r = Failure(OutTask(h, i, msgs[<<h, i>>]))
      BY <1>2, ReportIs
    <2>2. ~(h = f /\ i = g)
      BY <2>1
    <2>3. pc'[ReqTask(h, i)] = "report" /\ r = Failure(OutTask(h, i, msgs'[<<h, i>>]))
      BY <2>1, <2>2
    <2> QED BY <2>3, ReportIs
  <1>3. x \in ReportsHeld(pc', msgs')
    BY ReportIs
  <1> QED BY <1>1, <1>2, <1>3

(* One request gives its reply away.                                         *)
LEMMA ReportsDrop ==
  ASSUME NEW p, NEW q, NEW m, NEW f \in Files, NEW g \in Gens,
         p[ReqTask(f, g)] = "report", q[ReqTask(f, g)] # "report",
         \A h \in Files, i \in Gens :
            (h = f /\ i = g) \/ q[ReqTask(h, i)] = p[ReqTask(h, i)]
  PROVE  /\ ReportsHeld(q, m) = ReportsHeld(p, m)
                                \ {Failure(OutTask(f, g, m[<<f, g>>]))}
         /\ Failure(OutTask(f, g, m[<<f, g>>])) \in ReportsHeld(p, m)
  <1> DEFINE x == Failure(OutTask(f, g, m[<<f, g>>]))
  <1>1. \A h \in Files, i \in Gens :
          Failure(OutTask(h, i, m[<<h, i>>])) = x => h = f /\ i = g
    BY DEF Failure, Result, OutTask
  <1>2. \A r : r \in ReportsHeld(q, m) <=> r \in ReportsHeld(p, m) /\ r # x
    <2> SUFFICES ASSUME NEW r
                 PROVE  r \in ReportsHeld(q, m) <=> r \in ReportsHeld(p, m) /\ r # x
      OBVIOUS
    <2>1. ASSUME r \in ReportsHeld(q, m) PROVE r \in ReportsHeld(p, m) /\ r # x
      <3>1. PICK h \in Files, i \in Gens : q[ReqTask(h, i)] = "report"
                   /\ r = Failure(OutTask(h, i, m[<<h, i>>]))
        BY <2>1, ReportIs
      <3>2. ~(h = f /\ i = g)
        BY <3>1
      <3> QED BY <1>1, <3>1, <3>2, ReportIs
    <2>2. ASSUME r \in ReportsHeld(p, m), r # x PROVE r \in ReportsHeld(q, m)
      <3>1. PICK h \in Files, i \in Gens : p[ReqTask(h, i)] = "report"
                   /\ r = Failure(OutTask(h, i, m[<<h, i>>]))
        BY <2>2, ReportIs
      <3>2. ~(h = f /\ i = g)
        BY <2>2, <3>1
      <3> QED BY <3>1, <3>2, ReportIs
    <2> QED BY <2>1, <2>2
  <1>3. x \in ReportsHeld(p, m)
    BY ReportIs
  <1> QED BY <1>2, <1>3

-----------------------------------------------------------------------------
(* What a step does to the journey of a result.                            *)

MakesOne == \E r :
    /\ r \notin produced /\ produced' = produced \cup {r}
    /\ AtSender' = AtSender \cup {r}
    /\ UNCHANGED <<resultQueue, errQueue, forwarding, queue, delivered>>

SendsOne == \E r \in Results :
    /\ r \in AtSender /\ AtSender' = AtSender \ {r} /\ produced' = produced
    /\ SendToResultQueue(r)
    /\ UNCHANGED <<errQueue, forwarding, queue, delivered>>

SendsError == \E r \in Results :
    /\ r \in AtSender /\ AtSender' = AtSender \ {r} /\ produced' = produced
    /\ ~FromHandler(r) /\ Len(errQueue) < ErrCap /\ errQueue' = Append(errQueue, r)
    /\ UNCHANGED <<resultQueue, forwarding, queue, delivered>>

CarriesOne ==
    /\ ForwardResult \/ ForwardError \/ ForwardPuts \/ Recv
    /\ AtSender' = AtSender /\ produced' = produced

CarriesNone == UNCHANGED <<resultQueue, errQueue, forwarding, queue, delivered,
                           produced, AtSender>>

JourneyStep == MakesOne \/ SendsOne \/ SendsError \/ CarriesOne \/ CarriesNone

(* A channel with one place.                                               *)
LEMMA OnePlace ==
  ASSUME NEW S, NEW q \in Seq(S), Len(q) <= 1
  PROVE  /\ q = <<>> => Range(q) = {} /\ Len(q) = 0
         /\ q # <<>> => /\ Range(q) = {Head(q)} /\ Len(q) = 1 /\ Tail(q) = <<>>
                        /\ Head(q) \in S
  <1>1. Len(q) \in Nat /\ DOMAIN q = 1..Len(q) /\ (q = <<>> <=> Len(q) = 0)
    BY LenProperties, EmptySeq
  <1>2. ASSUME q = <<>> PROVE Range(q) = {} /\ Len(q) = 0
    BY <1>1, <1>2 DEF Range
  <1>3. ASSUME q # <<>>
        PROVE  Range(q) = {Head(q)} /\ Len(q) = 1 /\ Tail(q) = <<>> /\ Head(q) \in S
    <2>0. Len(q) = 1
      BY <1>1, <1>3
    <2>1. Len(q) = 1 /\ DOMAIN q = {1}
      BY <1>1, <2>0
    <2>2. Head(q) = q[1] /\ Head(q) \in S /\ Tail(q) \in Seq(S) /\ Len(Tail(q)) = 0
      BY <1>3, <2>1, HeadTailProperties
    <2>3. Tail(q) = <<>>
      BY <2>2, EmptySeq
    <2> QED BY <2>1, <2>2, <2>3 DEF Range
  <1> QED BY <1>2, <1>3

(* What is put into a free place is all that is there.                       *)
LEMMA OnePut ==
  ASSUME NEW S, NEW q \in Seq(S), Len(q) < 1, NEW e \in S
  PROVE  q = <<>> /\ Range(q) = {} /\ Append(q, e) = <<e>> /\ Range(<<e>>) = {e}
  <1>1. Len(q) \in Nat /\ (q = <<>> <=> Len(q) = 0)
    BY LenProperties, EmptySeq
  <1>2. q = <<>>
    BY <1>1
  <1>3. Append(q, e) = <<e>>
    BY <1>2
  <1>4. Range(q) = {}
    BY <1>2 DEF Range
  <1>5. Range(<<e>>) = {e}
    BY DEF Range
  <1> QED BY <1>2, <1>3, <1>4, <1>5

(* A new result joins those at their senders.                                *)
LEMMA MakesKeeps ==
  ASSUME JourneyOK, MakesOne
  PROVE  JourneyOK'
  <1>1. PICK r : /\ r \notin produced /\ produced' = produced \cup {r}
                 /\ AtSender' = AtSender \cup {r}
                 /\ UNCHANGED <<resultQueue, errQueue, forwarding, queue, delivered>>
    BY DEF MakesOne
  <1>2. IsFiniteSet(AtSender') /\ IsFiniteSet(delivered')
    BY <1>1, FS_AddElement DEF JourneyOK
  <1>3. r \notin AtSender /\ r \notin InFlight /\ r \notin delivered
    BY <1>1 DEF JourneyOK
  <1>4. InFlight' = InFlight
    BY <1>1 DEF InFlight
  <1>5. produced' = AtSender' \cup InFlight' \cup delivered'
    BY <1>1, <1>4 DEF JourneyOK
  <1>6. PlacesApart(AtSender', Range(resultQueue'), Range(errQueue'),
                    Range(forwarding'), Range(queue'), delivered')
    BY <1>1, <1>3 DEF JourneyOK, PlacesApart, Apart, InFlight
  <1> QED BY <1>1, <1>2, <1>5, <1>6 DEF JourneyOK

(* A result moves from its sender into a channel.                            *)
LEMMA SendsKeeps ==
  ASSUME JourneyOK, ChannelsOK, SendsOne \/ SendsError
  PROVE  JourneyOK'
  <1>1. CASE SendsOne
    <2>1. PICK r \in Results :
            /\ r \in AtSender /\ AtSender' = AtSender \ {r} /\ produced' = produced
            /\ SendToResultQueue(r)
            /\ UNCHANGED <<errQueue, forwarding, queue, delivered>>
      BY <1>1 DEF SendsOne
    <2>2. Range(resultQueue) = {} /\ Range(resultQueue') = {r}
      BY <2>1, OnePut DEF SendToResultQueue, ChannelsOK, ResultCap
    <2>3. IsFiniteSet(AtSender')
      BY <2>1, FS_RemoveElement DEF JourneyOK
    <2>4. produced' = AtSender' \cup InFlight' \cup delivered'
      BY <2>1, <2>2 DEF JourneyOK, InFlight
    <2>5. PlacesApart(AtSender', Range(resultQueue'), Range(errQueue'),
                      Range(forwarding'), Range(queue'), delivered')
      BY <2>1, <2>2 DEF JourneyOK, PlacesApart, Apart
    <2> QED BY <2>1, <2>3, <2>4, <2>5 DEF JourneyOK
  <1>2. CASE SendsError
    <2>1. PICK r \in Results :
            /\ r \in AtSender /\ AtSender' = AtSender \ {r} /\ produced' = produced
            /\ ~FromHandler(r) /\ Len(errQueue) < ErrCap
            /\ errQueue' = Append(errQueue, r)
            /\ UNCHANGED <<resultQueue, forwarding, queue, delivered>>
      BY <1>2 DEF SendsError
    <2>2. Range(errQueue) = {} /\ Range(errQueue') = {r}
      BY <2>1, OnePut DEF ChannelsOK, ErrCap
    <2>3. IsFiniteSet(AtSender')
      BY <2>1, FS_RemoveElement DEF JourneyOK
    <2>4. produced' = AtSender' \cup InFlight' \cup delivered'
      BY <2>1, <2>2 DEF JourneyOK, InFlight
    <2>5. PlacesApart(AtSender', Range(resultQueue'), Range(errQueue'),
                      Range(forwarding'), Range(queue'), delivered')
      BY <2>1, <2>2 DEF JourneyOK, PlacesApart, Apart
    <2>6. \A s \in Range(errQueue') : ~FromHandler(s)
      BY <2>1, <2>2
    <2> QED BY <2>1, <2>3, <2>4, <2>5, <2>6 DEF JourneyOK, FromHandler
  <1> QED BY <1>1, <1>2

(* A result moves on, to the forwarder, the queue or the consumer.           *)
LEMMA CarriesKeeps ==
  ASSUME JourneyOK, ChannelsOK, CarriesOne
  PROVE  JourneyOK'
  <1>0. /\ resultQueue \in Seq(Results) /\ Len(resultQueue) <= 1
        /\ errQueue \in Seq(Results) /\ Len(errQueue) <= 1
        /\ queue \in Seq(Results) /\ Len(queue) <= 1
        /\ forwarding \in Seq(Results) /\ Len(forwarding) <= 1
    BY DEF ChannelsOK, ResultCap, ErrCap, QueueCap
  <1>1. Range(<<>>) = {} /\ \A r : Range(<<r>>) = {r}
    BY DEF Range
  <1> DEFINE R == Range(resultQueue)
             E == Range(errQueue)
             F == Range(forwarding)
             Q == Range(queue)
  <1>2. AtSender' = AtSender /\ produced' = produced
    BY DEF CarriesOne
  <1>3. CASE ForwardResult
    <2>1. /\ resultQueue # <<>> /\ forwarding = <<>>
          /\ forwarding' = <<Head(resultQueue)>> /\ resultQueue' = Tail(resultQueue)
          /\ UNCHANGED <<errQueue, queue, delivered>>
      BY <1>3 DEF ForwardResult, Selecting, OnlyForward
    <2>2. R = {Head(resultQueue)} /\ F = {} /\ R' = {} /\ F' = {Head(resultQueue)}
      <3>1. R = {Head(resultQueue)} /\ Tail(resultQueue) = <<>>
        BY <1>0, <2>1, OnePlace
      <3>2. R' = {}
        BY <1>1, <2>1, <3>1
      <3>3. F = {} /\ F' = {Head(resultQueue)}
        BY <1>1, <2>1
      <3> QED BY <3>1, <3>2, <3>3
    <2>3. E' = E /\ Q' = Q
      BY <2>1
    <2>4. InFlight' = InFlight
      BY <2>2, <2>3 DEF InFlight
    <2>5. PlacesApart(AtSender', R', E', F', Q', delivered')
      BY <1>2, <2>1, <2>2, <2>3 DEF JourneyOK, PlacesApart, Apart
    <2> QED BY <1>2, <2>1, <2>4, <2>5 DEF JourneyOK
  <1>4. CASE ForwardError
    <2>1. /\ errQueue # <<>> /\ forwarding = <<>>
          /\ forwarding' = <<Head(errQueue)>> /\ errQueue' = Tail(errQueue)
          /\ UNCHANGED <<resultQueue, queue, delivered>>
      BY <1>4 DEF ForwardError, Selecting, OnlyForward
    <2>2. E = {Head(errQueue)} /\ F = {} /\ E' = {} /\ F' = {Head(errQueue)}
      <3>1. E = {Head(errQueue)} /\ Tail(errQueue) = <<>>
        BY <1>0, <2>1, OnePlace
      <3>2. E' = {}
        BY <1>1, <2>1, <3>1
      <3>3. F = {} /\ F' = {Head(errQueue)}
        BY <1>1, <2>1
      <3> QED BY <3>1, <3>2, <3>3
    <2>3. R' = R /\ Q' = Q
      BY <2>1
    <2>4. InFlight' = InFlight
      BY <2>2, <2>3 DEF InFlight
    <2>5. PlacesApart(AtSender', R', E', F', Q', delivered')
      BY <1>2, <2>1, <2>2, <2>3 DEF JourneyOK, PlacesApart, Apart
    <2>6. \A s \in E' : ~FromHandler(s)
      BY <2>2
    <2> QED BY <1>2, <2>1, <2>4, <2>5, <2>6 DEF JourneyOK, FromHandler
  <1>5. CASE ForwardPuts
    <2>1. /\ forwarding # <<>> /\ Len(queue) < 1 /\ forwarding' = <<>>
          /\ queue' = Append(queue, Head(forwarding))
          /\ UNCHANGED <<resultQueue, errQueue, delivered>>
      BY <1>5 DEF ForwardPuts, OnlyForward, QueueCap
    <2>2. F = {Head(forwarding)} /\ Head(forwarding) \in Results /\ F' = {}
      BY <1>0, <1>1, <2>1, OnePlace
    <2>3. Q = {} /\ Q' = {Head(forwarding)}
      BY <1>0, <2>1, <2>2, OnePut
    <2>4. R' = R /\ E' = E
      BY <2>1
    <2>5. InFlight' = InFlight
      BY <2>2, <2>3, <2>4 DEF InFlight
    <2>6. PlacesApart(AtSender', R', E', F', Q', delivered')
      BY <1>2, <2>1, <2>2, <2>3, <2>4 DEF JourneyOK, PlacesApart, Apart
    <2> QED BY <1>2, <2>1, <2>5, <2>6 DEF JourneyOK
  <1>6. CASE Recv
    <2>1. /\ queue # <<>> /\ queue' = Tail(queue)
          /\ delivered' = delivered \cup {Head(queue)}
          /\ UNCHANGED <<resultQueue, errQueue, forwarding>>
      BY <1>6 DEF Recv, forwardVars
    <2>2. Q = {Head(queue)} /\ Q' = {}
      BY <1>0, <1>1, <2>1, OnePlace
    <2>3. R' = R /\ E' = E /\ F' = F
      BY <2>1
    <2>4. InFlight' \cup delivered' = InFlight \cup delivered
      BY <2>1, <2>2, <2>3 DEF InFlight
    <2>5. PlacesApart(AtSender', R', E', F', Q', delivered')
      BY <1>2, <2>1, <2>2, <2>3 DEF JourneyOK, PlacesApart, Apart
    <2>6. IsFiniteSet(delivered')
      BY <2>1, FS_AddElement DEF JourneyOK
    <2>7. produced' = AtSender' \cup InFlight' \cup delivered'
      BY <1>2, <2>4 DEF JourneyOK
    <2> QED BY <1>2, <2>1, <2>5, <2>6, <2>7 DEF JourneyOK
  <1> QED BY <1>3, <1>4, <1>5, <1>6 DEF CarriesOne

(* No step of the journey loses or doubles a result.                         *)
LEMMA JourneyKept ==
  ASSUME JourneyOK, ChannelsOK, JourneyStep
  PROVE  JourneyOK'
  <1>1. CASE CarriesNone
    BY <1>1 DEF CarriesNone, JourneyOK, InFlight, FromHandler
  <1> QED
    BY <1>1, MakesKeeps, SendsKeeps, CarriesKeeps DEF JourneyStep

-----------------------------------------------------------------------------
(* Every step makes, sends or carries at most one result.                  *)

journeyVars == <<resultQueue, errQueue, forwarding, queue, delivered>>

(* A step that moves no holder of a result.                                  *)
LEMMA SenderKept ==
  ASSUME \A u \in OutTasks : pc'[u] \in HoldsOut <=> pc[u] \in HoldsOut,
         \A u \in ReqTasks : pc'[u] = pc[u],
         msgs' = msgs, errTasks' = errTasks
  PROVE  AtSender' = AtSender
  <1>1. OutsHeld(pc') = OutsHeld(pc)
    BY OutsSame
  <1>2. FailuresHeld(pc') = FailuresHeld(pc)
    BY FailuresSame
  <1>3. \A f \in Files, g \in Gens : pc'[ReqTask(f, g)] = pc[ReqTask(f, g)]
    BY Kinds
  <1>4. ReportsHeld(pc', msgs') = ReportsHeld(pc, msgs)
    BY <1>3, ReportsSame
  <1> QED BY <1>1, <1>2, <1>4, SenderParts

\* A request that moves and is neither failing nor reporting.
LEMMA SenderKeptReq ==
  ASSUME PcOK, NEW f \in Files, NEW g \in Gens, NEW from, NEW to,
         Move(ReqTask(f, g), from, to), from \notin {"fail", "report"},
         to \notin {"fail", "report"}, msgs' = msgs, errTasks' = errTasks
  PROVE  AtSender' = AtSender
  <1> DEFINE t == ReqTask(f, g)
  <1>0. t \in Tasks /\ pc \in [Tasks -> Stages] /\ pc[t] = from /\ pc'[t] = to
        /\ \A u \in Tasks : u # t => pc'[u] = pc[u]
    BY TaskNames DEF PcOK, Move
  <1>1. \A u \in OutTasks : u \in Tasks /\ u # t
    BY OutTaskIs, TaskKinds
  <1>2. OutsHeld(pc') = OutsHeld(pc)
    BY <1>0, <1>1, OutsSame
  <1>3. \A u \in ReqTasks : pc[u] = "fail" <=> pc'[u] = "fail"
    BY <1>0, ReqTaskIs
  <1>4. FailuresHeld(pc') = FailuresHeld(pc)
    BY <1>3, FailuresSame
  <1>5. \A h \in Files, i \in Gens :
           pc[ReqTask(h, i)] = "report" <=> pc'[ReqTask(h, i)] = "report"
    BY <1>0, TaskNames
  <1>6. ReportsHeld(pc', msgs') = ReportsHeld(pc, msgs)
    BY <1>5, ReportsSame
  <1> QED BY <1>2, <1>4, <1>6, SenderParts

(* The goroutines of the arguments carry no result.                          *)
LEMMA PathJourney ==
  ASSUME PcOK, NEW p \in Paths, PathStep(p)
  PROVE  JourneyStep
  <1>1. \E from, to \in {"idle", "lookup", "spawn", "done"} : Move(PathTask(p), from, to)
    BY DEF PathStep, Launch, LookupFails, LookupFinds, PathDone, End
  <1>2. UNCHANGED <<journeyVars, produced, msgs, errTasks>>
    BY DEF PathStep, Launch, LookupFails, LookupFinds, PathDone, OnlyTasks,
           forwardVars, journeyVars
  <1>3. \A u \in OutTasks \cup ReqTasks : u \in Tasks /\ u # PathTask(p)
    BY OutTaskIs, ReqTaskIs, NamesDiffer
  <1>4. \A u \in OutTasks \cup ReqTasks : pc'[u] = pc[u]
    BY <1>1, <1>3 DEF Move, PcOK
  <1>5. AtSender' = AtSender
    BY <1>2, <1>4, SenderKept
  <1> QED BY <1>2, <1>5 DEF journeyVars, JourneyStep, CarriesNone

(* The goroutine of a file makes its load error and sends it.                *)
LEMMA FileJourney ==
  ASSUME PcOK, TaskDataOK, TasksOK, NEW f \in Files, FileStep(f)
  PROVE  JourneyStep
  <1> DEFINE t == FileTask(f)
  <1>0. /\ t \in Tasks /\ PathTask(PathOf[f]) \in Tasks /\ pc \in [Tasks -> Stages]
        /\ \A u \in OutTasks \cup ReqTasks :
             u \in Tasks /\ u # t /\ u # PathTask(PathOf[f])
    BY TaskNames, HandlerAssumption, OutTaskIs, ReqTaskIs, NamesDiffer DEF PcOK
  <1>1. \A u \in OutTasks \cup ReqTasks : pc'[u] = pc[u]
    BY <1>0 DEF FileStep, SpawnFile, AcquireLoad, Post, LoadFails, LoadSucceeds,
         FileDone, SendError, Fork, Acquire, Move, End
  <1>2. msgs' = msgs
    BY DEF FileStep, SpawnFile, AcquireLoad, Post, LoadFails, LoadSucceeds, FileDone,
           SendError
  <1>3. /\ OutsHeld(pc') = OutsHeld(pc) /\ FailuresHeld(pc') = FailuresHeld(pc)
        /\ ReportsHeld(pc', msgs') = ReportsHeld(pc, msgs)
    <2>1. OutsHeld(pc') = OutsHeld(pc)
      BY <1>1, OutsSame
    <2>2. FailuresHeld(pc') = FailuresHeld(pc)
      BY <1>1, FailuresSame
    <2>3. \A h \in Files, i \in Gens : pc'[ReqTask(h, i)] = pc[ReqTask(h, i)]
      BY <1>1, Kinds
    <2>4. ReportsHeld(pc', msgs') = ReportsHeld(pc, msgs)
      BY <1>2, <2>3, ReportsSame
    <2> QED BY <2>1, <2>2, <2>4
  <1>4. CASE LoadFails(f)
    <2>1. /\ produced' = produced \cup {LoadError(f)} /\ errTasks' = errTasks \cup {f}
          /\ UNCHANGED journeyVars /\ \E s \in {"load", "parse"} : Move(t, s, "done")
      BY <1>4 DEF LoadFails, End, OnlyTasks, forwardVars, journeyVars
    <2>2. LoadError(f) \notin produced
      BY <2>1 DEF Move, TasksOK, FilesOK, FileOK
    <2>3. ErrorsHeld(errTasks') = ErrorsHeld(errTasks) \cup {LoadError(f)}
      BY <2>1 DEF ErrorsHeld
    <2>4. AtSender' = AtSender \cup {LoadError(f)}
      BY <1>3, <2>3, SenderParts
    <2> QED BY <2>1, <2>2, <2>4 DEF journeyVars, JourneyStep, MakesOne
  <1>5. CASE SendError(f)
    <2>1. /\ f \in errTasks /\ Len(errQueue) < ErrCap /\ errTasks' = errTasks \ {f}
          /\ errQueue' = Append(errQueue, LoadError(f)) /\ produced' = produced
          /\ UNCHANGED <<resultQueue, forwarding, queue, delivered, pc>>
      BY <1>5 DEF SendError, forwardVars
    <2>2. \A h \in Files : LoadError(h) = LoadError(f) => h = f
      BY DEF LoadError, Result, FileTask
    <2>3. /\ ErrorsHeld(errTasks') = ErrorsHeld(errTasks) \ {LoadError(f)}
          /\ LoadError(f) \in ErrorsHeld(errTasks)
      BY <2>1, <2>2 DEF ErrorsHeld, TaskDataOK
    <2>4. LoadError(f) \notin OutsHeld(pc) \cup FailuresHeld(pc) \cup ReportsHeld(pc, msgs)
      BY <2>3, PartsApart
    <2>5. AtSender' = AtSender \ {LoadError(f)} /\ LoadError(f) \in AtSender
      BY <1>3, <2>3, <2>4, SenderParts
    <2>6. LoadError(f) \in Results /\ ~FromHandler(LoadError(f))
      BY <1>0, Kinds DEF LoadError, Result, Results, FromHandler
    <2> QED BY <2>1, <2>5, <2>6 DEF JourneyStep, SendsError
  <1>6. CASE ~LoadFails(f) /\ ~SendError(f)
    <2>1. UNCHANGED <<journeyVars, produced, errTasks>>
      BY <1>6 DEF FileStep, SpawnFile, AcquireLoad, Post, LoadSucceeds, FileDone,
           OnlyTasks, forwardVars, journeyVars
    <2>2. AtSender' = AtSender
      BY <1>3, <2>1, SenderParts
    <2> QED BY <2>1, <2>2 DEF journeyVars, JourneyStep, CarriesNone
  <1> QED BY <1>4, <1>5, <1>6

(* The goroutine of an output sends the result made for it.                  *)
LEMMA OutJourney ==
  ASSUME PcOK, TasksOK, NEW f \in Files, NEW g \in Gens, NEW k \in 1..MaxMsgs,
         OutStep(f, g, k)
  PROVE  JourneyStep
  <1> DEFINE t == OutTask(f, g, k)
  <1>0. /\ t \in OutTasks /\ t \in Tasks /\ pc \in [Tasks -> Stages]
        /\ \A u \in ReqTasks : u \in Tasks /\ u # t
        /\ OutTasks \subseteq Tasks
    BY TaskNames, OutTaskIs, ReqTaskIs, NamesDiffer DEF PcOK
  <1>1. UNCHANGED <<produced, msgs, errTasks>>
    BY DEF OutStep, SendDir, SendResult, OutputDone, OnlySend
  <1>2. CASE SendDir(f, g, k) \/ OutputDone(f, g, k)
    <2>1. \/ Move(t, "dir", "result")
          \/ Move(t, "ending", "done")
      BY <1>2 DEF SendDir, OutputDone, End
    <2>2. /\ \A u \in ReqTasks : pc'[u] = pc[u]
          /\ \A u \in OutTasks : pc'[u] \in HoldsOut <=> pc[u] \in HoldsOut
      BY <1>0, <2>1 DEF Move, HoldsOut
    <2>3. AtSender' = AtSender
      BY <1>1, <2>2, SenderKept
    <2>4. UNCHANGED journeyVars
      BY <1>2 DEF SendDir, OutputDone, OnlyTasks, forwardVars, journeyVars
    <2> QED BY <1>1, <2>3, <2>4 DEF journeyVars, JourneyStep, CarriesNone
  <1>3. CASE SendResult(f, g, k)
    <2>1. /\ Move(t, "result", "ending") /\ SendToResultQueue(Output(t))
          /\ UNCHANGED <<errQueue, forwarding, queue, delivered>>
      BY <1>3 DEF SendResult, OnlySend, Output, forwardVars
    <2>2. /\ pc[t] \in HoldsOut /\ pc'[t] \notin HoldsOut
          /\ \A u \in Tasks : u # t => pc'[u] = pc[u]
      BY <1>0, <2>1 DEF Move, HoldsOut
    <2>3. OutsHeld(pc') = OutsHeld(pc) \ {Output(t)} /\ Output(t) \in OutsHeld(pc)
      BY <1>0, <2>2, OutsDrop
    <2>4. \A u \in ReqTasks : pc'[u] = pc[u]
      BY <1>0, <2>2
    <2>5. FailuresHeld(pc') = FailuresHeld(pc)
      BY <2>4, FailuresSame
    <2>6. \A h \in Files, i \in Gens : pc'[ReqTask(h, i)] = pc[ReqTask(h, i)]
      BY <2>4, Kinds
    <2>7. ReportsHeld(pc', msgs') = ReportsHeld(pc, msgs)
      BY <1>1, <2>6, ReportsSame
    <2>8. Output(t) \notin FailuresHeld(pc) \cup ReportsHeld(pc, msgs) \cup ErrorsHeld(errTasks)
      BY <2>3, PartsApart
    <2>9. AtSender' = AtSender \ {Output(t)} /\ Output(t) \in AtSender
      BY <1>1, <2>3, <2>5, <2>7, <2>8, SenderParts
    <2>10. Output(t) \in Results
      BY <1>0 DEF Output, Result, Results
    <2> QED BY <1>1, <2>1, <2>9, <2>10 DEF JourneyStep, SendsOne
  <1> QED BY <1>2, <1>3 DEF OutStep

(* The goroutine of a request makes and sends.                               *)
LEMMA ReqJourney ==
  ASSUME PcOK, ReportOK, TasksOK, NEW f \in Files, NEW g \in Gens, ReqStep(f, g)
  PROVE  JourneyStep
  <1> DEFINE t == ReqTask(f, g)
  <1>0. /\ t \in ReqTasks /\ t \in Tasks /\ pc \in [Tasks -> Stages]
        /\ FileTask(f) \in Tasks /\ ReqTasks \subseteq Tasks
        /\ \A u \in OutTasks : u \in Tasks /\ u # t
        /\ \A u \in OutTasks \cup ReqTasks : u # FileTask(f)
        /\ \A h \in Files, i \in Gens : (h = f /\ i = g) \/ ReqTask(h, i) # t
        /\ \A h \in Files, i \in Gens : ReqTask(h, i) \in Tasks
    BY TaskNames, Kinds, OutTaskIs, ReqTaskIs, NamesDiffer DEF PcOK
  <1>1. errTasks' = errTasks
    BY DEF ReqStep, Offer, Accept, AcquireGenerate, GenerateSucceeds, GenerateFails,
           EmitOutput, EmitReport, SendReport, SendFailure, HandlerDone, OnlySend
  <1>2. CASE Offer(f, g)
    <2>1. /\ Fork(FileTask(f), "dispatch", "dispatch", t, "offered")
          /\ UNCHANGED <<produced, msgs, journeyVars>>
      BY <1>2 DEF Offer, OnlyTasks, forwardVars, journeyVars
    <2>2. /\ pc[t] = "idle" /\ pc'[t] = "offered"
          /\ \A u \in Tasks : u # t => pc'[u] = pc[u]
      BY <1>0, <2>1 DEF Fork
    <2>3. OutsHeld(pc') = OutsHeld(pc)
      BY <1>0, <2>2, OutsSame
    <2>4. \A u \in ReqTasks : pc[u] = "fail" <=> pc'[u] = "fail"
      BY <1>0, <2>2
    <2>5. FailuresHeld(pc') = FailuresHeld(pc)
      BY <2>4, FailuresSame
    <2>6. \A h \in Files, i \in Gens :
             pc[ReqTask(h, i)] = "report" <=> pc'[ReqTask(h, i)] = "report"
      BY <1>0, <2>2
    <2>7. ReportsHeld(pc', msgs') = ReportsHeld(pc, msgs)
      BY <2>1, <2>6, ReportsSame
    <2>8. AtSender' = AtSender
      BY <1>1, <2>3, <2>5, <2>7, SenderParts
    <2> QED BY <2>1, <2>8 DEF journeyVars, JourneyStep, CarriesNone
  <1>3. CASE Accept(f, g) \/ AcquireGenerate(f, g) \/ GenerateSucceeds(f, g)
             \/ HandlerDone(f, g)
    <2>1. /\ \E from \in {"offered", "acquire", "generate", "emit", "ending"},
                to \in {"acquire", "generate", "emit", "done"} : Move(t, from, to)
          /\ UNCHANGED <<produced, msgs, journeyVars>>
      BY <1>3 DEF Accept, AcquireGenerate, GenerateSucceeds, HandlerDone, Acquire,
                  End, OnlyTasks, forwardVars, journeyVars
    <2>2. AtSender' = AtSender
      BY <1>1, <2>1, SenderKeptReq
    <2> QED BY <2>1, <2>2 DEF journeyVars, JourneyStep, CarriesNone
  <1>4. CASE GenerateFails(f, g)
    <2>1. /\ \E from \in {"generate", "emit"} : Move(t, from, "fail")
          /\ produced' = produced \cup {Failure(t)} /\ UNCHANGED <<msgs, journeyVars>>
      BY <1>4 DEF GenerateFails, Failure, OnlyTasks, forwardVars, journeyVars
    <2>2. /\ pc[t] \in {"generate", "emit"} /\ pc'[t] = "fail"
          /\ \A u \in Tasks : u # t => pc'[u] = pc[u]
      BY <1>0, <2>1 DEF Move
    <2>3. Failure(t) \notin produced
      BY <2>2 DEF TasksOK, ReqsOK, ReqOK, Made, Failure
    <2>4. OutsHeld(pc') = OutsHeld(pc)
      BY <1>0, <2>2, OutsSame
    <2>5. FailuresHeld(pc') = FailuresHeld(pc) \cup {Failure(t)}
      BY <1>0, <2>2, FailuresAdd
    <2>6. \A h \in Files, i \in Gens :
             pc[ReqTask(h, i)] = "report" <=> pc'[ReqTask(h, i)] = "report"
      BY <1>0, <2>2
    <2>7. ReportsHeld(pc', msgs') = ReportsHeld(pc, msgs)
      BY <2>1, <2>6, ReportsSame
    <2>8. AtSender' = AtSender \cup {Failure(t)}
      BY <1>1, <2>4, <2>5, <2>7, SenderParts
    <2> QED BY <2>1, <2>3, <2>8 DEF journeyVars, JourneyStep, MakesOne
  <1>5. CASE SendFailure(f, g)
    <2>1. /\ Move(t, "fail", "ending") /\ SendToResultQueue(Failure(t))
          /\ UNCHANGED <<produced, msgs, errQueue, forwarding, queue, delivered>>
      BY <1>5 DEF SendFailure, OnlySend, Failure, forwardVars
    <2>2. /\ pc[t] = "fail" /\ pc'[t] = "ending"
          /\ \A u \in Tasks : u # t => pc'[u] = pc[u]
      BY <1>0, <2>1 DEF Move
    <2>3. OutsHeld(pc') = OutsHeld(pc)
      BY <1>0, <2>2, OutsSame
    <2>4. /\ FailuresHeld(pc') = FailuresHeld(pc) \ {Failure(t)}
          /\ Failure(t) \in FailuresHeld(pc)
      BY <1>0, <2>2, FailuresDrop
    <2>5. \A h \in Files, i \in Gens :
             pc[ReqTask(h, i)] = "report" <=> pc'[ReqTask(h, i)] = "report"
      BY <1>0, <2>2
    <2>6. ReportsHeld(pc', msgs') = ReportsHeld(pc, msgs)
      BY <2>1, <2>5, ReportsSame
    <2>7. Failure(t) \notin OutsHeld(pc) \cup ReportsHeld(pc, msgs) \cup ErrorsHeld(errTasks)
      BY <2>4, PartsApart
    <2>8. AtSender' = AtSender \ {Failure(t)} /\ Failure(t) \in AtSender
      BY <1>1, <2>3, <2>4, <2>6, <2>7, SenderParts
    <2>9. Failure(t) \in Results
      BY <1>0 DEF Failure, Result, Results
    <2> QED BY <2>1, <2>8, <2>9 DEF JourneyStep, SendsOne
  <1>6. CASE SendReport(f, g)
    <2> DEFINE r == Failure(OutTask(f, g, msgs[<<f, g>>]))
    <2>1. /\ Move(t, "report", "emit") /\ SendToResultQueue(r)
          /\ UNCHANGED <<produced, msgs, errQueue, forwarding, queue, delivered>>
      BY <1>6 DEF SendReport, OnlySend, Failure, forwardVars
    <2>2. /\ pc[t] = "report" /\ pc'[t] = "emit"
          /\ \A u \in Tasks : u # t => pc'[u] = pc[u]
      BY <1>0, <2>1 DEF Move
    <2>3. OutsHeld(pc') = OutsHeld(pc)
      BY <1>0, <2>2, OutsSame
    <2>4. \A u \in ReqTasks : pc[u] = "fail" <=> pc'[u] = "fail"
      BY <1>0, <2>2
    <2>5. FailuresHeld(pc') = FailuresHeld(pc)
      BY <2>4, FailuresSame
    <2>6. \A h \in Files, i \in Gens :
             (h = f /\ i = g) \/ pc'[ReqTask(h, i)] = pc[ReqTask(h, i)]
      BY <1>0, <2>2
    <2>7. ReportsHeld(pc', msgs) = ReportsHeld(pc, msgs) \ {r} /\ r \in ReportsHeld(pc, msgs)
      BY <2>2, <2>6, ReportsDrop, SMTT(30)
    <2>8. r \notin OutsHeld(pc) \cup FailuresHeld(pc) \cup ErrorsHeld(errTasks)
      BY <2>7, PartsApart
    <2>9. AtSender' = AtSender \ {r} /\ r \in AtSender
      BY <1>1, <2>1, <2>3, <2>5, <2>7, <2>8, SenderParts
    <2>10. r \in Results
      <3>1. msgs[<<f, g>>] \in 1..MaxMsgs
        BY <2>2, MsgType DEF ReportOK
      <3> QED BY <3>1, TaskNames DEF Failure, Result, Results
    <2> QED BY <2>1, <2>9, <2>10 DEF JourneyStep, SendsOne
  <1>7. CASE EmitOutput(f, g)
    <2> DEFINE out == OutTask(f, g, NextMsg(f, g))
    <2>1. /\ CountMsg(f, g) /\ Fork(t, "emit", "emit", out, "dir")
          /\ produced' = produced \cup {Output(out)} /\ UNCHANGED journeyVars
      BY <1>7 DEF EmitOutput, Output, OnlyTasks, forwardVars, journeyVars
    <2>2. /\ NextMsg(f, g) \in 1..MaxMsgs
          /\ \A h \in Files, i \in Gens :
               (h = f /\ i = g) \/ msgs'[<<h, i>>] = msgs[<<h, i>>]
      BY <2>1, CountIs
    <2>3. out \in OutTasks /\ out \in Tasks /\ out # t
      BY <1>0, <2>2, OutTaskIs
    <2>4. /\ pc[t] = "emit" /\ pc[out] = "idle" /\ pc'[out] = "dir"
          /\ \A u \in Tasks : u # out => pc'[u] = pc[u]
      BY <1>0, <2>1, <2>3 DEF Fork
    <2>5. Output(out) \notin produced
      BY <2>2, <2>4 DEF TasksOK, OutsOK, OutOK, Made, Output
    <2>6. OutsHeld(pc') = OutsHeld(pc) \cup {Output(out)}
      BY <1>0, <2>3, <2>4, OutsAdd DEF HoldsOut
    <2>7. \A u \in ReqTasks : pc'[u] = pc[u]
      <3>1. \A u \in ReqTasks : u # out
        BY ReqTaskIs, TaskKinds
      <3> QED BY <1>0, <2>4, <3>1
    <2>8. FailuresHeld(pc') = FailuresHeld(pc)
      BY <2>7, FailuresSame
    <2>9. \A h \in Files, i \in Gens :
            /\ pc[ReqTask(h, i)] = "report" <=> pc'[ReqTask(h, i)] = "report"
            /\ pc'[ReqTask(h, i)] = "report" => msgs'[<<h, i>>] = msgs[<<h, i>>]
      BY <1>0, <2>2, <2>4, <2>7, Kinds
    <2>10. ReportsHeld(pc', msgs') = ReportsHeld(pc, msgs)
      BY <2>9, ReportsSame
    <2>11. AtSender' = AtSender \cup {Output(out)}
      BY <1>1, <2>6, <2>8, <2>10, SenderParts
    <2> QED BY <2>1, <2>5, <2>11 DEF journeyVars, JourneyStep, MakesOne
  <1>8. CASE EmitReport(f, g)
    <2> DEFINE out == OutTask(f, g, NextMsg(f, g))
    <2>1. /\ CountMsg(f, g) /\ Move(t, "emit", "report")
          /\ produced' = produced \cup {Failure(out)} /\ UNCHANGED journeyVars
      BY <1>8 DEF EmitReport, Failure, OnlyTasks, forwardVars, journeyVars
    <2>2. /\ NextMsg(f, g) \in 1..MaxMsgs /\ NextMsg(f, g) = msgs[<<f, g>>] + 1
          /\ msgs[<<f, g>>] \in Nat /\ msgs'[<<f, g>>] = NextMsg(f, g)
          /\ \A h \in Files, i \in Gens :
               (h = f /\ i = g) \/ msgs'[<<h, i>>] = msgs[<<h, i>>]
      BY <2>1, CountIs
    <2>3. /\ pc[t] = "emit" /\ pc'[t] = "report"
          /\ \A u \in Tasks : u # t => pc'[u] = pc[u]
      BY <1>0, <2>1 DEF Move
    <2>4. NextMsg(f, g) > msgs[<<f, g>>]
      BY <2>2
    <2>5. Failure(out) \notin produced
      BY <2>2, <2>4 DEF TasksOK, OutsOK, OutOK, Made, Failure
    <2>6. OutsHeld(pc') = OutsHeld(pc)
      BY <1>0, <2>3, OutsSame
    <2>7. \A u \in ReqTasks : pc[u] = "fail" <=> pc'[u] = "fail"
      BY <1>0, <2>3
    <2>8. FailuresHeld(pc') = FailuresHeld(pc)
      BY <2>7, FailuresSame
    <2>9. \A h \in Files, i \in Gens :
             (h = f /\ i = g) \/ pc'[ReqTask(h, i)] = pc[ReqTask(h, i)]
      BY <1>0, <2>3
    <2>10. ReportsHeld(pc', msgs') = ReportsHeld(pc, msgs)
                                     \cup {Failure(OutTask(f, g, msgs'[<<f, g>>]))}
      <3>1. \A h \in Files, i \in Gens :
              (h = f /\ i = g) \/ msgs'[<<h, i>>] = msgs[<<h, i>>]
        BY <2>2
      <3>2. pc[ReqTask(f, g)] # "report" /\ pc'[ReqTask(f, g)] = "report"
        BY <2>3
      <3> QED BY <2>9, <3>1, <3>2, ReportsAdd
    <2>11. AtSender' = AtSender \cup {Failure(out)}
      BY <1>1, <2>2, <2>6, <2>8, <2>10, SenderParts
    <2> QED BY <2>1, <2>5, <2>11 DEF journeyVars, JourneyStep, MakesOne
  <1> QED BY <1>2, <1>3, <1>4, <1>5, <1>6, <1>7, <1>8 DEF ReqStep

(* Any step is a step of the journey.                                        *)
LEMMA NextJourney ==
  ASSUME PcOK, TaskDataOK, ReportOK, TasksOK, Next
  PROVE  JourneyStep
  <1>1. CASE \E p \in Paths : PathStep(p)
    BY <1>1, PathJourney
  <1>2. CASE \E f \in Files : FileStep(f)
    BY <1>2, FileJourney
  <1>3. CASE \E f \in Files, g \in Gens : ReqStep(f, g)
    BY <1>3, ReqJourney
  <1>4. CASE \E f \in Files, g \in Gens, k \in 1..MaxMsgs : OutStep(f, g, k)
    BY <1>4, OutJourney
  <1>5. CASE HandlerStep \/ Signal \/ Recv \/ Rest
    <2>1. UNCHANGED taskVars
      BY <1>5 DEF HandlerStep, Signal, Recv, Rest, vars, CancelWhenDone, OnlyCtx,
           ServerListens, StopWaits, RequestStop, OnlyHTTP, CollectorReceives,
           CollectorAppends, CollectorReturns, OnlyCollector, ForwardResult,
           ForwardError, ForwardPuts, ForwardCloses, OnlyForward, RunReturns
    <2>2. AtSender' = AtSender /\ produced' = produced
      BY <2>1 DEF taskVars, AtSender
    <2>3. CASE ForwardResult \/ ForwardError \/ ForwardPuts \/ Recv
      BY <2>2, <2>3 DEF JourneyStep, CarriesOne
    <2>4. CASE ~(ForwardResult \/ ForwardError \/ ForwardPuts \/ Recv)
      <3>1. UNCHANGED journeyVars
        BY <1>5, <2>4 DEF HandlerStep, Signal, Rest, vars, CancelWhenDone, OnlyCtx,
             ServerListens, StopWaits, RequestStop, OnlyHTTP, CollectorReceives,
             CollectorAppends, CollectorReturns, OnlyCollector, ForwardCloses,
             OnlyForward, RunReturns, forwardVars, journeyVars
      <3> QED BY <2>2, <3>1 DEF journeyVars, JourneyStep, CarriesNone
    <2> QED BY <2>3, <2>4
  <1> QED BY <1>1, <1>2, <1>3, <1>4, <1>5 DEF Next, PipelineStep

-----------------------------------------------------------------------------
(* The entries of dirBaseSuffix, and the end of the queue.                 *)

dirVars == <<dirChan, collecting, dirBaseSuffix>>
PastDir == {"result", "ending", "done"}

(* A step that neither moves an entry nor lets an output past SendDir.       *)
LEMMA DirKept ==
  ASSUME DirOK, UNCHANGED dirVars,
         \A t \in OutTasks : pc'[t] \in PastDir => pc[t] \in PastDir
  PROVE  DirOK'
  BY DEF DirOK, DirPlaces, dirVars, PastDir

(* Any step keeps the entries.                                               *)
LEMMA NextDir ==
  ASSUME PcOK, ChannelsOK, DirOK, TasksOK, Next
  PROVE  DirOK'
  <1>0. pc \in [Tasks -> Stages] /\ OutTasks \subseteq Tasks
        /\ Range(<<>>) = {} /\ \A r : Range(<<r>>) = {r}
    BY OutTaskIs DEF PcOK, Range
  <1>1. CASE \E p \in Paths : PathStep(p)
    <2>1. PICK p \in Paths : PathStep(p)
      BY <1>1
    <2>2. \E from, to \in {"idle", "lookup", "spawn", "done"} : Move(PathTask(p), from, to)
      BY <2>1 DEF PathStep, Launch, LookupFails, LookupFinds, PathDone, End
    <2>3. \A t \in OutTasks : t # PathTask(p)
      BY OutTaskIs, NamesDiffer
    <2>4. UNCHANGED dirVars
      BY <2>1 DEF PathStep, Launch, LookupFails, LookupFinds, PathDone, OnlyTasks,
                  collectVars, dirVars
    <2>5. \A t \in OutTasks : pc'[t] = pc[t]
      BY <1>0, <2>2, <2>3 DEF Move
    <2> QED BY <2>4, <2>5, DirKept
  <1>2. CASE \E f \in Files : FileStep(f)
    <2>1. PICK f \in Files : FileStep(f)
      BY <1>2
    <2>2. \A t \in OutTasks : t # FileTask(f) /\ t # PathTask(PathOf[f])
      BY OutTaskIs, NamesDiffer
    <2>3. UNCHANGED dirVars
      BY <2>1 DEF FileStep, SpawnFile, AcquireLoad, Post, LoadFails, LoadSucceeds,
                  FileDone, SendError, OnlyTasks, collectVars, dirVars
    <2>4. \A t \in OutTasks : pc'[t] = pc[t]
      BY <1>0, <2>1, <2>2 DEF FileStep, SpawnFile, AcquireLoad, Post, LoadFails,
         LoadSucceeds, FileDone, SendError, Fork, Acquire, Move, End
    <2> QED BY <2>3, <2>4, DirKept
  <1>3. CASE \E f \in Files, g \in Gens : ReqStep(f, g)
    <2>1. PICK f \in Files, g \in Gens : ReqStep(f, g)
      BY <1>3
    <2>2. \A t \in OutTasks : t # FileTask(f) /\ t # ReqTask(f, g)
      BY OutTaskIs, NamesDiffer
    <2>3. UNCHANGED dirVars
      <3>1. OnlyTasks \/ OnlySend
        BY <2>1 DEF ReqStep, Offer, Accept, AcquireGenerate, GenerateSucceeds,
             GenerateFails, EmitOutput, EmitReport, SendReport, SendFailure, HandlerDone
      <3> QED BY <3>1 DEF OnlyTasks, OnlySend, collectVars, dirVars
    <2>4. CASE EmitOutput(f, g)
      <3>1. \A t \in OutTasks : pc'[t] \in PastDir => pc[t] \in PastDir
        BY <1>0, <2>2, <2>4 DEF EmitOutput, Fork, PastDir
      <3> QED BY <2>3, <3>1, DirKept
    <2>5. CASE ~EmitOutput(f, g)
      <3>1. \A t \in OutTasks : pc'[t] = pc[t]
        BY <1>0, <2>1, <2>2, <2>5 DEF ReqStep, Offer, Accept, AcquireGenerate,
           GenerateSucceeds, GenerateFails, EmitReport, SendReport, SendFailure,
           HandlerDone, Fork, Acquire, Move, End
      <3> QED BY <2>3, <3>1, DirKept
    <2> QED BY <2>4, <2>5
  <1>4. CASE \E f \in Files, g \in Gens, k \in 1..MaxMsgs : OutStep(f, g, k)
    <2>1. PICK f \in Files, g \in Gens, k \in 1..MaxMsgs : OutStep(f, g, k)
      BY <1>4
    <2> DEFINE t == OutTask(f, g, k)
    <2>2. t \in OutTasks /\ t \in Tasks
      BY OutTaskIs, TaskNames
    <2>3. CASE SendDir(f, g, k)
      <3>1. /\ Len(dirChan) < 1 /\ dirChan' = Append(dirChan, t)
            /\ Move(t, "dir", "result") /\ UNCHANGED <<collecting, dirBaseSuffix>>
        BY <2>3 DEF SendDir, DirCap, collectVars
      <3>2. Range(dirChan) = {} /\ Range(dirChan') = {t}
        BY <2>2, <3>1, OnePut DEF ChannelsOK
      <3>3. DirPlaces' = DirPlaces \cup {t}
        BY <3>1, <3>2 DEF DirPlaces
      <3>4. \A u \in OutTasks : u # t => pc'[u] = pc[u]
        BY <1>0, <3>1 DEF Move
      <3> QED BY <3>3, <3>4 DEF DirOK
    <2>4. CASE SendResult(f, g, k) \/ OutputDone(f, g, k)
      <3>1. UNCHANGED dirVars
        BY <2>4 DEF SendResult, OutputDone, OnlySend, OnlyTasks, collectVars, dirVars
      <3>2. \E from, to \in PastDir : Move(t, from, to)
        BY <2>4 DEF SendResult, OutputDone, End, PastDir
      <3>3. \A u \in OutTasks : pc'[u] \in PastDir => pc[u] \in PastDir
        BY <1>0, <2>2, <3>2 DEF Move
      <3> QED BY <3>1, <3>3, DirKept
    <2> QED BY <2>1, <2>3, <2>4 DEF OutStep
  <1>5. CASE HandlerStep \/ Signal \/ Recv \/ Rest
    <2>1. pc' = pc
      BY <1>5, OtherEffect
    <2>2. CASE CollectorReceives
      <3>1. /\ dirChan # <<>> /\ collecting = <<>> /\ collecting' = <<Head(dirChan)>>
            /\ dirChan' = Tail(dirChan) /\ dirBaseSuffix' = dirBaseSuffix
        BY <2>2 DEF CollectorReceives
      <3>2. Range(dirChan) = {Head(dirChan)}
        BY <3>1, OnePlace DEF ChannelsOK, DirCap
      <3>3. Range(collecting) = {} /\ Range(collecting') = {Head(dirChan)}
        BY <1>0, <3>1
      <3>4. DirPlaces \subseteq DirPlaces'
        BY <3>1, <3>2, <3>3 DEF DirPlaces
      <3> QED BY <2>1, <3>4 DEF DirOK
    <2>3. CASE CollectorAppends
      <3>1. /\ collecting # <<>> /\ collecting' = <<>> /\ dirChan' = dirChan
            /\ dirBaseSuffix' = dirBaseSuffix \cup {Head(collecting)}
        BY <2>3 DEF CollectorAppends
      <3>2. Range(collecting) = {Head(collecting)}
        BY <3>1, OnePlace DEF ChannelsOK
      <3>3. DirPlaces \subseteq DirPlaces'
        BY <3>1, <3>2 DEF DirPlaces
      <3> QED BY <2>1, <3>3 DEF DirOK
    <2>4. CASE ~CollectorReceives /\ ~CollectorAppends
      <3>1. UNCHANGED dirVars
        BY <1>5, <2>4 DEF HandlerStep, Signal, Recv, Rest, vars, CancelWhenDone,
           OnlyCtx, ServerListens, StopWaits, RequestStop, OnlyHTTP, CollectorReturns,
           ForwardResult, ForwardError, ForwardPuts, ForwardCloses, OnlyForward,
           RunReturns, collectVars, dirVars
      <3> QED BY <2>1, <3>1, DirKept
    <2> QED BY <2>2, <2>3, <2>4
  <1> QED BY <1>1, <1>2, <1>3, <1>4, <1>5 DEF Next, PipelineStep

(* The forwarder is the only goroutine that closes the queue.              *)
LEMMA NextForwarder ==
  ASSUME Next
  PROVE  \/ UNCHANGED <<closed, forwarding>>
         \/ ~closed /\ UNCHANGED closed
         \/ forwarding' = <<>> /\ UNCHANGED closed
         \/ ctxDone /\ Launched /\ forwarding' = <<>> /\ ~closed /\ ForwardCloses
  <1>1. CASE ForwardResult \/ ForwardError \/ ForwardPuts \/ ForwardCloses
    BY <1>1 DEF ForwardResult, ForwardError, ForwardPuts, ForwardCloses, Selecting
  <1>2. CASE (\E p \in Paths : PathStep(p)) \/ (\E f \in Files : FileStep(f))
    BY <1>2 DEF PathStep, Launch, LookupFails, LookupFinds, PathDone, OnlyTasks,
       FileStep, SpawnFile, AcquireLoad, Post, LoadFails, LoadSucceeds, FileDone,
       SendError, forwardVars
  <1>3. CASE \E f \in Files, g \in Gens : ReqStep(f, g)
    <2>1. OnlyTasks \/ OnlySend
      BY <1>3 DEF ReqStep, Offer, Accept, AcquireGenerate, GenerateSucceeds,
           GenerateFails, EmitOutput, EmitReport, SendReport, SendFailure, HandlerDone
    <2> QED BY <2>1 DEF OnlyTasks, OnlySend, forwardVars
  <1>4. CASE \E f \in Files, g \in Gens, k \in 1..MaxMsgs : OutStep(f, g, k)
    BY <1>4 DEF OutStep, SendDir, SendResult, OutputDone, OnlySend, OnlyTasks, forwardVars
  <1>5. CASE HandlerStep \/ Signal \/ Recv \/ Rest
    BY <1>1, <1>5 DEF HandlerStep, Signal, Recv, Rest, vars, CancelWhenDone, OnlyCtx,
       ServerListens, StopWaits, RequestStop, OnlyHTTP, CollectorReceives,
       CollectorAppends, CollectorReturns, OnlyCollector, RunReturns, forwardVars
  <1> QED BY <1>1, <1>2, <1>3, <1>4, <1>5 DEF Next, PipelineStep

(* Any step keeps what closing tells.                                        *)
LEMMA NextClosing ==
  ASSUME PcOK, ClosingOK, FlagsOK, Next
  PROVE  ClosingOK'
  <1>1. /\ TaskEffect \/ UNCHANGED <<pc, works>>
        /\ UNCHANGED <<ctxDone, signaled>> \/ Cancels
    BY StepEffect
  <1>2. /\ ctxDone => ctxDone'
        /\ signaled' => ctxDone'
    BY <1>1 DEF Cancels, ClosingOK
  <1>3. Launched => Launched'
    BY <1>1, LaunchedStays
  <1>4. closed' => ctxDone' /\ Launched' /\ forwarding' = <<>>
    BY <1>2, <1>3, NextForwarder DEF ClosingOK
  <1> QED BY <1>2, <1>4 DEF ClosingOK

-----------------------------------------------------------------------------
(* The invariant.                                                          *)

(* It holds initially.                                                       *)
LEMMA DeliveryInvInit == Init => DeliveryInv
  <1> SUFFICES ASSUME Init PROVE DeliveryInv
    OBVIOUS
  <1>1. /\ \A t \in Tasks : pc[t] = "idle"
        /\ produced = {} /\ delivered = {} /\ errTasks = {}
        /\ resultQueue = <<>> /\ errQueue = <<>> /\ forwarding = <<>> /\ queue = <<>>
        /\ closed = FALSE /\ signaled = FALSE
    BY DEF Init
  <1>2. TypeInv
    BY TypeInvInit
  <1>3. FilesOK
    BY <1>1, TaskNames DEF FilesOK, FileOK
  <1>4. ReqsOK
    BY <1>1, TaskNames DEF ReqsOK, ReqOK, Made
  <1>5. OutsOK
    <2> SUFFICES ASSUME NEW f \in Files, NEW g \in Gens, NEW k \in 1..MaxMsgs
                 PROVE  OutOK(f, g, k)
      BY DEF OutsOK
    <2>1. msgs[<<f, g>>] = 0 /\ ~(k <= 0)
      <3>1. <<f, g>> \in Files \X Gens
        OBVIOUS
      <3> QED BY <3>1 DEF Init
    <2> QED BY <1>1, <2>1, TaskNames DEF OutOK, Made
  <1>6. Range(<<>>) = {}
    BY DEF Range
  <1>7. AtSender = {}
    <2>1. \A t \in OutTasks : pc[t] = "idle"
      BY <1>1, OutTaskIs
    <2>2. \A t \in ReqTasks : pc[t] = "idle"
      BY <1>1, ReqTaskIs
    <2>3. OutsHeld(pc) = {} /\ FailuresHeld(pc) = {} /\ ErrorsHeld(errTasks) = {}
      BY <1>1, <2>1, <2>2 DEF OutsHeld, FailuresHeld, ErrorsHeld
    <2>4. \A f \in Files, g \in Gens : pc[ReqTask(f, g)] # "report"
      BY <1>1, TaskNames
    <2>5. ReportsHeld(pc, msgs) = {}
      BY <2>4, ReportIs
    <2> QED BY <2>3, <2>5, SenderParts
  <1>8. JourneyOK
    BY <1>1, <1>6, <1>7, FS_EmptySet DEF JourneyOK, InFlight, PlacesApart, Apart
  <1>9. DirOK
    BY <1>1, OutTaskIs DEF DirOK
  <1>10. ClosingOK
    BY <1>1 DEF ClosingOK
  <1> QED BY <1>2, <1>3, <1>4, <1>5, <1>8, <1>9, <1>10 DEF DeliveryInv, TasksOK

(* Every step keeps it.                                                      *)
LEMMA DeliveryInvStep == DeliveryInv /\ [Next]_vars => DeliveryInv'
  <1> SUFFICES ASSUME DeliveryInv, [Next]_vars PROVE DeliveryInv'
    OBVIOUS
  <1>0. /\ TypeInv /\ TasksOK /\ JourneyOK /\ DirOK /\ ClosingOK
        /\ PcOK /\ TaskDataOK /\ ReportOK /\ ChannelsOK /\ FlagsOK
    BY DEF DeliveryInv, TypeInv, WorksInv
  <1>1. TypeInv'
    BY <1>0, TypeInvStep
  <1>2. CASE Next
    BY <1>0, <1>1, <1>2, NextTasksOK, NextJourney, JourneyKept, NextDir, NextClosing
       DEF DeliveryInv
  <1>3. CASE UNCHANGED vars
    <2>1. TasksOK'
      BY <1>0, <1>3, ZenonT(60) DEF vars, taskVars, TasksOK, FilesOK, ReqsOK, OutsOK, FileOK,
                        ReqOK, OutOK, Made, Requested
    <2>2. JourneyOK'
      BY <1>0, <1>3, JourneyKept DEF vars, taskVars, forwardVars, AtSender,
                                     JourneyStep, CarriesNone
    <2>3. DirOK'
      BY <1>0, <1>3 DEF vars, taskVars, collectVars, DirOK, DirPlaces
    <2>4. ClosingOK'
      BY <1>0, <1>3 DEF vars, taskVars, forwardVars, ctxVars, ClosingOK, Launched
    <2> QED BY <1>1, <2>1, <2>2, <2>3, <2>4 DEF DeliveryInv
  <1> QED BY <1>2, <1>3

(* Hence it holds throughout.                                                *)
LEMMA DeliveryInvariant == Spec => []DeliveryInv
  BY DeliveryInvInit, DeliveryInvStep, PTL DEF Spec

-----------------------------------------------------------------------------
(* Counting the results.                                                   *)

(* A channel holds as many results as its length says.                     *)
LEMMA PlaceCount ==
  ASSUME NEW q \in Seq(Results), Len(q) <= 1
  PROVE  IsFiniteSet(Range(q)) /\ Cardinality(Range(q)) = Len(q) /\ Len(q) \in Nat
  <1>1. CASE q = <<>>
    BY <1>1, OnePlace, FS_EmptySet
  <1>2. CASE q # <<>>
    <2>1. Range(q) = {Head(q)} /\ Len(q) = 1
      BY <1>2, OnePlace
    <2>2. IsFiniteSet({Head(q)}) /\ Cardinality({Head(q)}) = 1
      BY FS_Singleton
    <2> QED BY <2>1, <2>2
  <1> QED BY <1>1, <1>2

(* Two sets that share nothing.                                            *)
LEMMA ApartCount ==
  ASSUME NEW S, NEW T, IsFiniteSet(S), IsFiniteSet(T), Apart(S, T)
  PROVE  /\ IsFiniteSet(S \cup T)
         /\ Cardinality(S \cup T) = Cardinality(S) + Cardinality(T)
  <1>1. S \cap T = {} /\ Cardinality({}) = 0
    BY FS_EmptySet DEF Apart
  <1>2. /\ IsFiniteSet(S \cup T)
        /\ Cardinality(S \cup T) = Cardinality(S) + Cardinality(T) - Cardinality({})
    BY <1>1, FS_Union
  <1>3. Cardinality(S) \in Nat /\ Cardinality(T) \in Nat
    BY FS_CardinalityType
  <1> QED BY <1>1, <1>2, <1>3

(* A set and a channel that shares nothing with it.                        *)
LEMMA PlaceAdded ==
  ASSUME NEW S, IsFiniteSet(S), NEW q \in Seq(Results), Len(q) <= 1,
         Apart(S, Range(q))
  PROVE  /\ IsFiniteSet(S \cup Range(q))
         /\ Cardinality(S \cup Range(q)) = Cardinality(S) + Len(q)
  <1>0. Cardinality(S) \in Nat
    BY FS_CardinalityType
  <1>1. CASE q = <<>>
    <2>1. Range(q) = {} /\ Len(q) = 0
      BY <1>1, OnePlace
    <2>2. S \cup Range(q) = S
      BY <2>1
    <2> QED BY <1>0, <2>1, <2>2
  <1>2. CASE q # <<>>
    <2>1. Range(q) = {Head(q)} /\ Len(q) = 1
      BY <1>2, OnePlace
    <2>2. Head(q) \notin S
      BY <2>1 DEF Apart
    <2> QED BY <1>0, <2>1, <2>2, FS_AddElement
  <1> QED BY <1>1, <1>2

\* A result is made once, travels in one place at a time and is delivered at
\* most once: between handleRequest, sendGenerated, the forwarder and Recv
\* nothing is dropped or duplicated.
THEOREM ConservationCorrect == Spec => []Conservation
  <1>1. DeliveryInv => Conservation
    <2> SUFFICES ASSUME DeliveryInv PROVE Conservation
      OBVIOUS
    <2>0. JourneyOK /\ ChannelsOK
      BY DEF DeliveryInv, TypeInv
    <2>1. /\ resultQueue \in Seq(Results) /\ Len(resultQueue) <= 1
          /\ errQueue \in Seq(Results) /\ Len(errQueue) <= 1
          /\ queue \in Seq(Results) /\ Len(queue) <= 1
          /\ forwarding \in Seq(Results) /\ Len(forwarding) <= 1
      BY <2>0 DEF ChannelsOK, ResultCap, ErrCap, QueueCap
    <2> DEFINE R == Range(resultQueue)
               E == Range(errQueue)
               F == Range(forwarding)
               Q == Range(queue)
               D == AtSender \cup delivered
    <2>2. /\ Apart(AtSender, delivered) /\ Apart(D, R) /\ Apart(D \cup R, E)
          /\ Apart(D \cup R \cup E, F) /\ Apart(D \cup R \cup E \cup F, Q)
          /\ IsFiniteSet(AtSender) /\ IsFiniteSet(delivered)
      BY <2>0 DEF JourneyOK, PlacesApart, Apart
    <2>3. IsFiniteSet(D) /\ Cardinality(D) = Cardinality(AtSender) + Cardinality(delivered)
      BY <2>2, ApartCount
    <2> HIDE DEF D
    <2>4. /\ IsFiniteSet(D \cup R)
          /\ Cardinality(D \cup R) = Cardinality(D) + Len(resultQueue)
      BY <2>1, <2>2, <2>3, PlaceAdded
    <2>5. /\ IsFiniteSet(D \cup R \cup E)
          /\ Cardinality(D \cup R \cup E) = Cardinality(D \cup R) + Len(errQueue)
      BY <2>1, <2>2, <2>4, PlaceAdded
    <2>6. /\ IsFiniteSet(D \cup R \cup E \cup F)
          /\ Cardinality(D \cup R \cup E \cup F)
               = Cardinality(D \cup R \cup E) + Len(forwarding)
      BY <2>1, <2>2, <2>5, PlaceAdded
    <2>7. Cardinality(D \cup R \cup E \cup F \cup Q)
            = Cardinality(D \cup R \cup E \cup F) + Len(queue)
      BY <2>1, <2>2, <2>6, PlaceAdded
    <2>8. produced = AtSender \cup InFlight \cup delivered
      BY <2>0 DEF JourneyOK
    <2>9. produced = D \cup R \cup E \cup F \cup Q
      BY <2>8 DEF InFlight, D
    <2>10. /\ Cardinality(AtSender) \in Nat /\ Cardinality(delivered) \in Nat
           /\ Len(resultQueue) \in Nat /\ Len(errQueue) \in Nat
           /\ Len(forwarding) \in Nat /\ Len(queue) \in Nat
      BY <2>1, <2>2, FS_CardinalityType, PlaceCount
    <2> HIDE DEF R, E, F, Q
    <2>11. Cardinality(produced) =
             Cardinality(AtSender) + Len(resultQueue) + Len(errQueue)
             + Len(forwarding) + Len(queue) + Cardinality(delivered)
      BY <2>3, <2>4, <2>5, <2>6, <2>7, <2>9, <2>10
    <2> QED BY <2>8, <2>11 DEF Conservation
  <1> QED BY <1>1, DeliveryInvariant, PTL

(* When the driver ends of itself, only resultQueue can hold a result of a *)
(* generator that nobody will deliver.                                     *)
LEMMA AbandonedWhere ==
  ASSUME DeliveryInv, ctxDone, ~signaled, forwarding = <<>>
  PROVE  /\ IsFiniteSet({r \in Abandoned : FromHandler(r)})
         /\ Cardinality({r \in Abandoned : FromHandler(r)}) <= 1
  <1> DEFINE L == {r \in Abandoned : FromHandler(r)}
  <1>0. /\ JourneyOK /\ ChannelsOK /\ CancelAfterWork /\ TaskDataOK
        /\ pc \in [Tasks -> Stages]
    BY DEF DeliveryInv, TypeInv, WorksInv, PcOK
  <1>1. \A t \in Tasks : pc[t] \in Ended
    BY <1>0 DEF CancelAfterWork, Outstanding
  <1>2. OutsHeld(pc) = {} /\ FailuresHeld(pc) = {}
    BY <1>1, OutTaskIs, ReqTaskIs DEF OutsHeld, FailuresHeld, Ended
  <1>3. ReportsHeld(pc, msgs) = {}
    <2>1. \A f \in Files, g \in Gens : pc[ReqTask(f, g)] # "report"
      BY <1>1, TaskNames DEF Ended
    <2> QED BY <2>1, ReportIs
  <1>4. \A r \in AtSender : ~FromHandler(r)
    <2>1. AtSender = ErrorsHeld(errTasks)
      BY <1>2, <1>3, SenderParts
    <2>2. \A f \in Files : FileTask(f) \in FileTasks
      BY DEF FileTasks
    <2> QED BY <1>0, <2>1, <2>2 DEF ErrorsHeld, LoadError, Result, FromHandler, TaskDataOK
  <1>5. Range(forwarding) = {}
    BY DEF Range
  <1>6. \A r \in Range(errQueue) : ~FromHandler(r)
    BY <1>0 DEF JourneyOK
  <1>7. produced = AtSender \cup InFlight \cup delivered
    BY <1>0 DEF JourneyOK
  <1>8. L \subseteq Range(resultQueue)
    BY <1>4, <1>5, <1>6, <1>7 DEF InFlight, Abandoned
  <1>9. /\ IsFiniteSet(Range(resultQueue)) /\ Cardinality(Range(resultQueue)) <= 1
        /\ Cardinality(Range(resultQueue)) \in Nat
    BY <1>0, PlaceCount DEF ChannelsOK, ResultCap
  <1>10. IsFiniteSet(L) /\ Cardinality(L) <= Cardinality(Range(resultQueue))
         /\ Cardinality(L) \in Nat
    BY <1>8, <1>9, FS_Subset, FS_CardinalityType
  <1> QED BY <1>9, <1>10

\* The race between cancel() and the forwarder's select costs at most one
\* result of a generator.
THEOREM LossCorrect == Spec => []AtMostOneResultLost
  <1>1. DeliveryInv => AtMostOneResultLost
    <2> SUFFICES ASSUME DeliveryInv, closed, ~signaled
                 PROVE  Cardinality({r \in Abandoned : FromHandler(r)}) <= 1
      BY DEF AtMostOneResultLost
    <2>1. ctxDone /\ forwarding = <<>>
      BY DEF DeliveryInv, ClosingOK
    <2> QED BY <2>1, AbandonedWhere
  <1> QED BY <1>1, DeliveryInvariant, PTL

\* An output whose result has left its goroutine has its entry appended to
\* dirBaseSuffix or on the way there.
THEOREM DirCorrect == Spec => []DirEntriesKept
  <1>1. DeliveryInv => DirEntriesKept
    <2> SUFFICES ASSUME DeliveryInv, NEW t \in OutTasks,
                        Output(t) \in InFlight \cup delivered
                 PROVE  t \in DirPlaces
      BY DEF DirEntriesKept, DirPlaces, Output
    <2>0. TasksOK /\ JourneyOK /\ DirOK
      BY DEF DeliveryInv
    <2>1. PICK f \in Files, g \in Gens, k \in 1..MaxMsgs : t = OutTask(f, g, k)
      BY OutTaskIs
    <2>2. OutOK(f, g, k)
      BY <2>0 DEF TasksOK, OutsOK
    <2>3. Output(t) \in produced /\ Output(t) \notin AtSender
      BY <2>0 DEF JourneyOK, PlacesApart, Apart, InFlight
    <2>4. pc[t] # "idle"
      BY <2>1, <2>2, <2>3 DEF OutOK, Made, Output
    <2>5. pc[t] \notin {"dir", "result"}
      <3>1. pc[t] \in {"dir", "result"} => Output(t) \in OutsHeld(pc)
        BY DEF OutsHeld
      <3> QED BY <2>3, <3>1, SenderParts
    <2>6. pc[t] \in {"result", "ending", "done"}
      BY <2>1, <2>2, <2>4, <2>5 DEF OutOK
    <2> QED BY <2>0, <2>6 DEF DirOK
  <1> QED BY <1>1, DeliveryInvariant, PTL

\* When the pipeline ends of itself, each file that was found failed to load
\* or was answered by every one-process-per-file generator.
THEOREM AnswersCorrect == Spec => []EveryRequestAnswered
  <1>1. DeliveryInv => EveryRequestAnswered
    <2> SUFFICES ASSUME DeliveryInv, closed, ~signaled, NEW f \in Files,
                        pc[FileTask(f)] # "idle", LoadError(f) \notin produced,
                        NEW g \in Gens \ Streaming
                 PROVE  \E r \in produced :
                          r.task \in {ReqTask(f, g)} \cup {OutTask(f, g, k) : k \in 1..MaxMsgs}
      BY DEF EveryRequestAnswered
    <2>0. /\ TasksOK /\ PcOK /\ CancelAfterWork /\ ctxDone /\ g \in Gens
      BY DEF DeliveryInv, ClosingOK, TypeInv, WorksInv
    <2>1. FileOK(f) /\ ReqOK(f, g)
      BY <2>0 DEF TasksOK, FilesOK, ReqsOK
    <2>2. pc[FileTask(f)] \in Ended /\ pc[ReqTask(f, g)] \in Ended
      BY <2>0, TaskNames DEF CancelAfterWork, Outstanding, PcOK
    <2>3. Requested(f, g)
      BY <2>0, <2>1, <2>2 DEF FileOK, Ended
    <2>4. pc[ReqTask(f, g)] = "done"
      BY <2>2, <2>3 DEF Requested, Ended
    <2>5. CASE Made(ReqTask(f, g), TRUE)
      BY <2>5 DEF Made, Result
    <2>6. CASE msgs[<<f, g>>] > 0
      <3>1. 1 <= msgs[<<f, g>>] /\ 1 \in 1..MaxMsgs
        BY <2>0, <2>6, MsgType, HandlerAssumption
      <3>2. PICK e \in BOOLEAN : Made(OutTask(f, g, 1), e)
        BY <2>0, <3>1 DEF TasksOK, OutsOK, OutOK
      <3> QED BY <3>1, <3>2 DEF Made, Result
    <2> QED BY <2>1, <2>4, <2>5, <2>6 DEF ReqOK
  <1> QED BY <1>1, DeliveryInvariant, PTL

-----------------------------------------------------------------------------
(* The pipeline implements ResultDelivery.                                 *)

(* Only the forwarder closes the queue, and only a signal sets `signaled`. *)
LEMMA PromiseFrame ==
  ASSUME Next, ~ForwardCloses, ~Signal
  PROVE  UNCHANGED <<closed, signaled>>
  <1>1. CASE \E p \in Paths : PathStep(p)
    BY <1>1, PathEffect, NextForwarder
  <1>2. CASE \E f \in Files : FileStep(f)
    BY <1>2, FileEffect, NextForwarder
  <1>3. CASE \E f \in Files, g \in Gens : ReqStep(f, g)
    <2>1. OnlyTasks \/ OnlySend
      BY <1>3 DEF ReqStep, Offer, Accept, AcquireGenerate, GenerateSucceeds,
           GenerateFails, EmitOutput, EmitReport, SendReport, SendFailure, HandlerDone
    <2> QED BY <2>1 DEF OnlyTasks, OnlySend, forwardVars, ctxVars
  <1>4. CASE \E f \in Files, g \in Gens, k \in 1..MaxMsgs : OutStep(f, g, k)
    BY <1>4, OutEffect, NextForwarder
  <1>5. CASE HandlerStep \/ Recv \/ Rest
    BY <1>5 DEF HandlerStep, Recv, Rest, vars, CancelWhenDone, OnlyCtx,
       ServerListens, StopWaits, RequestStop, OnlyHTTP, CollectorReceives,
       CollectorAppends, CollectorReturns, OnlyCollector, ForwardResult,
       ForwardError, ForwardPuts, OnlyForward, RunReturns, forwardVars, ctxVars
  <1> QED BY <1>1, <1>2, <1>3, <1>4, <1>5 DEF Next, PipelineStep

Buffered == IF closed THEN Range(queue) ELSE {}

(* A step that tells the consumer nothing.                                 *)
LEMMA QuietPromise ==
  ASSUME UNCHANGED <<produced, delivered, closed, signaled>>, Buffered' = Buffered
  PROVE  UNCHANGED Delivery!dvars
  BY DEF Delivery!dvars, Buffered

(* Receiving is a Deliver of the abstract specification.                     *)
LEMMA RecvDelivers ==
  ASSUME JourneyOK, ChannelsOK, Recv
  PROVE  \E r \in Results : Delivery!Deliver(r)
  <1>1. /\ queue # <<>> /\ queue' = Tail(queue)
        /\ delivered' = delivered \cup {Head(queue)}
        /\ UNCHANGED <<produced, closed, signaled>>
    BY DEF Recv, taskVars, forwardVars, ctxVars
  <1>2. /\ Range(queue) = {Head(queue)} /\ Tail(queue) = <<>> /\ Head(queue) \in Results
    BY <1>1, OnePlace DEF ChannelsOK, QueueCap
  <1>3. Range(queue') = {}
    BY <1>1, <1>2 DEF Range
  <1>4. Head(queue) \in produced /\ Head(queue) \notin delivered
    BY <1>2 DEF JourneyOK, InFlight, PlacesApart, Apart
  <1>5. Buffered' = Buffered \ {Head(queue)}
    BY <1>1, <1>2, <1>3 DEF Buffered
  <1>6. Head(queue) \in IF ~closed THEN produced \ delivered ELSE Buffered
    BY <1>2, <1>4 DEF Buffered
  <1> QED BY <1>1, <1>2, <1>5, <1>6 DEF Delivery!Deliver, Buffered

(* The instance of ResultDelivery counts as this module does.              *)
LEMMA SameCardinality == \A S : Delivery!Cardinality(S) = Cardinality(S)
  BY DEF Delivery!Cardinality, Cardinality

(* Closing the queue is a Close, which may overtake one result.              *)
LEMMA ClosingCloses ==
  ASSUME DeliveryInv, ForwardCloses
  PROVE  Delivery!Close
  <1>0. JourneyOK /\ ChannelsOK /\ TaskDataOK
    BY DEF DeliveryInv, TypeInv
  <1>1. /\ ~closed /\ forwarding = <<>> /\ ctxDone /\ closed' = TRUE
        /\ UNCHANGED <<queue, produced, delivered, signaled>>
    BY DEF ForwardCloses, Selecting, OnlyForward, taskVars, ctxVars
  <1>2. Buffered' = Range(queue)
    BY <1>1 DEF Buffered
  <1>3. Buffered' \subseteq produced \ delivered
    BY <1>0, <1>2 DEF JourneyOK, InFlight, PlacesApart, Apart
  <1>4. Cardinality(Buffered') <= 1
    BY <1>0, <1>2, PlaceCount DEF ChannelsOK, QueueCap
  <1>5. signaled \/
          Cardinality((produced \ (delivered \cup Buffered'))
                      \cap {r \in Results : FromHandler(r)}) <= 1
    <2>1. (produced \ (delivered \cup Buffered')) \cap {r \in Results : FromHandler(r)}
            = {r \in Abandoned : FromHandler(r)}
      BY <1>0, <1>2 DEF Abandoned, TaskDataOK
    <2> QED BY <1>1, <2>1, AbandonedWhere
  <1>6. Buffered = {} /\ (IF closed' THEN Range(queue') ELSE {}) = Buffered'
    BY <1>1 DEF Buffered
  <1>7. /\ ~closed /\ ~closed' = FALSE
        /\ UNCHANGED <<produced, delivered, signaled>>
    BY <1>1
  <1> QED BY <1>3, <1>4, <1>5, <1>6, <1>7, SameCardinality DEF Delivery!Close

(* Every step is a step of the abstract specification or none.               *)
LEMMA StepPromise ==
  ASSUME DeliveryInv, DeliveryInv', [Next]_vars
  PROVE  [Delivery!Next]_(Delivery!dvars)
  <1>0. /\ JourneyOK /\ ChannelsOK /\ ClosingOK /\ TaskDataOK /\ PcOK /\ ReportOK
        /\ TasksOK /\ TaskDataOK'
    BY DEF DeliveryInv, TypeInv, WorksInv
  <1>1. CASE ForwardCloses
    BY <1>1, ClosingCloses DEF Delivery!Next
  <1>2. CASE Signal
    <2>1. /\ ~ctxDone /\ signaled' = TRUE
          /\ UNCHANGED <<produced, delivered, queue, closed>>
      BY <1>2 DEF Signal, OnlyCtx, taskVars, forwardVars
    <2>2. ~closed /\ ~signaled
      BY <1>0, <2>1 DEF ClosingOK
    <2>3. Buffered' = Buffered
      BY <2>1 DEF Buffered
    <2>4. Delivery!Abort
      BY <2>1, <2>2, <2>3 DEF Delivery!Abort, Buffered
    <2> QED BY <2>4 DEF Delivery!Next
  <1>3. CASE Recv
    BY <1>0, <1>3, RecvDelivers DEF Delivery!Next
  <1>4. CASE Next /\ ~ForwardCloses /\ ~Signal /\ ~Recv
    <2>1. UNCHANGED <<closed, signaled>> /\ JourneyStep
      BY <1>0, <1>4, PromiseFrame, NextJourney
    <2>2. CASE MakesOne
      <3>1. PICK r : /\ r \notin produced /\ produced' = produced \cup {r}
                     /\ UNCHANGED <<queue, delivered>>
        BY <2>2 DEF MakesOne
      <3>2. r \in Results
        BY <1>0, <3>1 DEF TaskDataOK
      <3>3. Buffered' = Buffered
        BY <2>1, <3>1 DEF Buffered
      <3>4. Delivery!Make(r)
        BY <2>1, <3>1, <3>3 DEF Delivery!Make, Buffered
      <3> QED BY <3>2, <3>4 DEF Delivery!Next
    <2>3. CASE SendsOne \/ SendsError \/ CarriesNone
      <3>1. UNCHANGED <<produced, queue, delivered>>
        BY <2>3 DEF SendsOne, SendsError, CarriesNone
      <3> QED BY <2>1, <3>1, QuietPromise DEF Buffered
    <2>4. CASE CarriesOne
      <3>1. UNCHANGED <<produced, delivered>>
        BY <1>4, <2>4 DEF CarriesOne, ForwardResult, ForwardError, ForwardPuts, OnlyForward
      <3>2. UNCHANGED queue \/ ~closed
        BY <1>0, <1>4, <2>4 DEF CarriesOne, ForwardResult, ForwardError, ForwardPuts,
                                ClosingOK
      <3>3. Buffered' = Buffered
        BY <2>1, <3>2 DEF Buffered
      <3> QED BY <2>1, <3>1, <3>3, QuietPromise
    <2> QED BY <2>1, <2>2, <2>3, <2>4 DEF JourneyStep
  <1>5. CASE UNCHANGED vars
    <2>1. UNCHANGED <<produced, delivered, closed, signaled, queue>>
      BY <1>5 DEF vars, taskVars, forwardVars, ctxVars
    <2> QED BY <2>1, QuietPromise DEF Buffered
  <1> QED BY <1>1, <1>2, <1>3, <1>4, <1>5

\* The pipeline implements ResultDelivery: a result is handed over at most
\* once and only after it was made, and what closing the queue overtakes is
\* what ResultDelivery allows.
THEOREM DeliveryCorrect == Spec => DeliversResults
  <1>1. Init => Delivery!Init
    BY DEF Init, Delivery!Init
  <1>2. DeliveryInv /\ DeliveryInv' /\ [Next]_vars => [Delivery!Next]_(Delivery!dvars)
    BY StepPromise
  <1> QED BY <1>1, <1>2, DeliveryInvariant, PTL DEF Spec, DeliversResults, Delivery!Spec
=============================================================================
