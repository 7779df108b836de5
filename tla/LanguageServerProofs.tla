------------------------- MODULE LanguageServerProofs -------------------------
(***************************************************************************)
(* The safety properties of LanguageServer for any number of requests and  *)
(* changes of the configuration.                                           *)
(*                                                                         *)
(* Every job carries the DocumentInfo it began with, so the invariant ties *)
(* the session of a job to that of its DocumentInfo, and both to the jobs  *)
(* whose trees are kept there.  Configurations only grow, and the promise  *)
(* in documentSettings is dropped by every change: an answered one is the  *)
(* configuration of the moment.                                            *)
(***************************************************************************)
EXTENDS LanguageServer, TLAPS, SequenceTheorems

InfoRecords == [session : Nat, file : Nat, node : Nat]
JobRecords ==
    [kind : {"open", "tokens", "query"}, session : Nat, info : Nat, since : Nat, exe : Nat,
     at : {"settings", "lexer", "parser", "answered"}, waitsFor : Nat,
     process : {"none", "running", "not there"}, stored : Nat, answer : Nat]

TypesInv ==
    /\ configurable \in BOOLEAN /\ open \in BOOLEAN
    /\ config \in Nat \ {0} /\ sessions \in Nat
    /\ infos \in Seq(InfoRecords) /\ info \in Nat /\ info <= Len(infos)
    /\ asked \in Seq(Nat) /\ setting \in Nat /\ setting <= Len(asked)
    /\ jobs \in Seq(JobRecords)

\* The document's entries in the two maps.
EntriesInv ==
    /\ ~open => info = None /\ setting = None
    /\ info # None => infos[info].session = sessions
    /\ setting # None => configurable /\ asked[setting] \in {None, config}

\* A job that is one of a session, if it is one at all.
OfSession(n, session) == n # None => n \in DOMAIN jobs /\ jobs[n].session = session

InfosInv == \A i \in DOMAIN infos :
    /\ OfSession(infos[i].file, infos[i].session)
    /\ OfSession(infos[i].node, infos[i].session)
    /\ infos[i].node # None => infos[i].file # None

JobsInv == \A n \in DOMAIN jobs :
    /\ jobs[n].info \in DOMAIN infos /\ infos[jobs[n].info].session = jobs[n].session
    /\ OfSession(jobs[n].answer, jobs[n].session)
    /\ jobs[n].since <= config
    /\ jobs[n].exe # None => jobs[n].exe >= jobs[n].since

\* A job that waits for the configuration waits for an answer still to come:
\* none is asleep on a promise that has been resolved.
WaitersAwaited == \A n \in DOMAIN jobs :
    /\ jobs[n].at = "settings" <=> jobs[n].waitsFor # None
    /\ jobs[n].waitsFor # None =>
         jobs[n].waitsFor \in DOMAIN asked /\ asked[jobs[n].waitsFor] = None

Inv == /\ TypesInv /\ EntriesInv /\ InfosInv /\ JobsInv /\ WaitersAwaited
       /\ OutdatedByOverlapOnly

-----------------------------------------------------------------------------
(* What an append to a sequence leaves, position by position.              *)
LEMMA AppendAt ==
  ASSUME NEW S, NEW s \in Seq(S), NEW m \in S
  PROVE  /\ Append(s, m) \in Seq(S)
         /\ Len(s) \in Nat /\ Len(Append(s, m)) = Len(s) + 1
         /\ Append(s, m)[Len(s) + 1] = m
         /\ DOMAIN s = 1..Len(s) /\ DOMAIN Append(s, m) = DOMAIN s \cup {Len(s) + 1}
         /\ \A j \in DOMAIN s : Append(s, m)[j] = s[j]
  BY AppendProperties, LenProperties

(* The server starts with empty maps.                                      *)
LEMMA InvInit == Init => Inv
  <1> SUFFICES ASSUME Init PROVE Inv
    OBVIOUS
  <1>1. /\ DOMAIN infos = {} /\ DOMAIN jobs = {}
        /\ infos \in Seq(InfoRecords) /\ Len(infos) = 0
        /\ asked \in Seq(Nat) /\ Len(asked) = 0 /\ jobs \in Seq(JobRecords)
    BY DEF Init
  <1>2. TypesInv
    <2>1. configurable \in BOOLEAN /\ open \in BOOLEAN
      BY DEF Init
    <2>2. config \in Nat \ {0} /\ sessions \in Nat
      BY DEF Init
    <2>3. info = 0 /\ setting = 0
      BY DEF Init, None
    <2> QED BY <1>1, <2>1, <2>2, <2>3 DEF TypesInv
  <1>3. EntriesInv /\ InfosInv /\ JobsInv /\ WaitersAwaited /\ OutdatedByOverlapOnly
    BY <1>1 DEF Init, EntriesInv, InfosInv, JobsInv, WaitersAwaited, OutdatedByOverlapOnly, None
  <1> QED BY <1>2, <1>3 DEF Inv

-----------------------------------------------------------------------------
(* A job begins.                                                           *)

\* What getDocumentSettings does to documentSettings and its promises.
SettingsStep ==
    /\ asked' \in Seq(Nat)
    /\ DOMAIN asked \subseteq DOMAIN asked' /\ \A c \in DOMAIN asked : asked'[c] = asked[c]
    /\ setting' \in Nat /\ setting' <= Len(asked')
    /\ setting' # None => configurable /\ asked'[setting'] \in {None, config}

\* A job that is ready to start, or to wait for the configuration.
Starts(j) ==
    /\ j.exe # None => j.exe >= j.since
    /\ j.at = "settings" <=> j.waitsFor # None
    /\ j.waitsFor # None => j.waitsFor \in DOMAIN asked' /\ asked'[j.waitsFor] = None

(* A job that needs no configuration leaves documentSettings alone.        *)
LEMMA SettingsKept ==
  ASSUME TypesInv, EntriesInv, UNCHANGED <<asked, setting>>
  PROVE  SettingsStep
  BY DEF TypesInv, EntriesInv, SettingsStep

(* Whatever documentSettings holds, the job goes on with the configuration *)
(* of the moment or waits for the answer to come.                          *)
LEMMA SettingsGot ==
  ASSUME TypesInv, EntriesInv, NEW job \in JobRecords, job.exe = None, job.since = config,
         job.at = "answered", job.waitsFor = None,
         GetDocumentSettings(job)
  PROVE  /\ SettingsStep
         /\ \E j \in JobRecords :
              /\ jobs' = Append(jobs, j) /\ Starts(j)
              /\ \A f \in {"session", "info", "since", "stored", "answer"} : j[f] = job[f]
  <1>1. /\ config \in Nat /\ asked \in Seq(Nat) /\ setting \in Nat /\ setting <= Len(asked)
        /\ Len(asked) \in Nat /\ DOMAIN asked = 1..Len(asked)
    BY LenProperties DEF TypesInv
  <1>2. ASSUME jobs' = Append(jobs, Configured(job, config)), UNCHANGED <<asked, setting>>
        PROVE  /\ SettingsStep
               /\ \E j \in JobRecords :
                    /\ jobs' = Append(jobs, j) /\ Starts(j)
                    /\ \A f \in {"session", "info", "since", "stored", "answer"} : j[f] = job[f]
    <2> DEFINE j == Configured(job, config)
    <2>1. j \in JobRecords
      BY <1>1 DEF JobRecords, Configured, Spawn, None
    <2>2. Starts(j)
      <3>1. /\ j.exe = config /\ j.since = config /\ j.waitsFor = None
            /\ j.at \in {"lexer", "parser"}
        BY DEF JobRecords, Configured, Spawn
      <3> HIDE DEF j
      <3> QED BY <1>1, <3>1 DEF Starts
    <2>3. \A f \in {"session", "info", "since", "stored", "answer"} : j[f] = job[f]
      BY DEF JobRecords, Configured, Spawn
    <2> HIDE DEF j
    <2> QED BY <1>2, <2>1, <2>2, <2>3, SettingsKept DEF j
  <1>3. CASE ~configurable /\ jobs' = Append(jobs, Configured(job, config))
             /\ UNCHANGED <<asked, setting>>
    BY <1>2, <1>3
  <1>4. CASE /\ configurable /\ setting # None /\ asked[setting] # None
             /\ jobs' = Append(jobs, Configured(job, asked[setting]))
             /\ UNCHANGED <<asked, setting>>
    <2>1. asked[setting] = config
      BY <1>4 DEF EntriesInv
    <2> QED BY <1>2, <1>4, <2>1
  <1>5. CASE /\ configurable
             /\ IF setting = None
                THEN asked' = Append(asked, None) /\ setting' = Len(asked) + 1
                ELSE setting # None /\ asked[setting] = None /\ UNCHANGED <<asked, setting>>
             /\ jobs' = Append(jobs, [job EXCEPT !.at = "settings", !.waitsFor = setting'])
    <2> DEFINE j == [job EXCEPT !.at = "settings", !.waitsFor = setting']
    <2>1. /\ asked' \in Seq(Nat) /\ DOMAIN asked \subseteq DOMAIN asked'
          /\ \A c \in DOMAIN asked : asked'[c] = asked[c]
          /\ setting' \in DOMAIN asked' /\ asked'[setting'] = None
          /\ setting' \in Nat /\ setting' # None /\ setting' <= Len(asked')
      <3>1. CASE setting = None
        <4>1. asked' = Append(asked, None) /\ setting' = Len(asked) + 1 /\ None \in Nat
          BY <1>5, <3>1 DEF None
        <4> QED BY <1>1, <4>1, AppendAt DEF None
      <3>2. CASE setting # None
        BY <1>1, <1>5, <3>2 DEF None
      <3> QED BY <3>1, <3>2
    <2>2. SettingsStep
      BY <1>5, <2>1 DEF SettingsStep
    <2>3. j \in JobRecords
      BY <2>1 DEF JobRecords
    <2>4. j.exe = None /\ j.at = "settings" /\ j.waitsFor = setting'
      BY DEF JobRecords
    <2>5. \A f \in {"session", "info", "since", "stored", "answer"} : j[f] = job[f]
      BY DEF JobRecords
    <2>6. Starts(j)
      BY <2>1, <2>4 DEF Starts
    <2> HIDE DEF j
    <2> QED BY <1>5, <2>2, <2>3, <2>5, <2>6 DEF j
  <1> QED BY <1>3, <1>4, <1>5 DEF GetDocumentSettings

(* A job begins with the document's entry, made now if there is none.      *)
LEMMA BeginKeeps ==
  ASSUME Inv, NEW j \in JobRecords, jobs' = Append(jobs, j), Starts(j),
         GetOrCreateDocumentInfo, SettingsStep,
         UNCHANGED <<configurable, config>>, open' = TRUE,
         sessions' \in Nat, info # None => sessions' = sessions,
         j.info = info', j.session = sessions', j.since = config, j.stored = None,
         j.answer # None => info # None /\ j.answer = infos[info].node
  PROVE  Inv'
  <1>0. /\ TypesInv /\ EntriesInv /\ InfosInv /\ JobsInv /\ WaitersAwaited
        /\ OutdatedByOverlapOnly
    BY DEF Inv
  <1>1. /\ infos \in Seq(InfoRecords) /\ jobs \in Seq(JobRecords)
        /\ info \in Nat /\ info <= Len(infos) /\ config \in Nat
    BY <1>0 DEF TypesInv
  <1> DEFINE new == Len(jobs) + 1
  <1>2. /\ jobs' \in Seq(JobRecords)
        /\ new \notin DOMAIN jobs /\ new \in Nat
        /\ DOMAIN jobs' = DOMAIN jobs \cup {new}
        /\ jobs'[new] = j /\ \A n \in DOMAIN jobs : jobs'[n] = jobs[n]
        /\ \A n \in DOMAIN jobs : n < new
    BY <1>1, AppendAt
  <1>3. /\ infos' \in Seq(InfoRecords)
        /\ info' \in DOMAIN infos' /\ info' \in Nat /\ info' # None /\ info' <= Len(infos')
        /\ DOMAIN infos' = DOMAIN infos \cup {info'}
        /\ \A i \in DOMAIN infos : infos'[i] = infos[i]
        /\ infos'[info'].session = sessions'
        /\ info' \in DOMAIN infos \/ (infos'[info'].file = None /\ infos'[info'].node = None)
        /\ j.answer # None => info' \in DOMAIN infos /\ j.answer = infos[info'].node
    <2>1. CASE info # None
      <3>1. UNCHANGED <<infos, info>>
        BY <2>1 DEF GetOrCreateDocumentInfo
      <3>2. info \in DOMAIN infos /\ infos[info].session = sessions
        BY <1>0, <1>1, <2>1, LenProperties DEF EntriesInv, None
      <3> QED BY <1>1, <2>1, <3>1, <3>2
    <2>2. CASE info = None
      <3> DEFINE i == [session |-> sessions', file |-> None, node |-> None]
      <3>1. infos' = Append(infos, i) /\ info' = Len(infos) + 1
        BY <2>2 DEF GetOrCreateDocumentInfo
      <3>2. i \in InfoRecords /\ i.session = sessions' /\ i.file = None /\ i.node = None
        BY DEF InfoRecords, None
      <3> HIDE DEF i
      <3> QED BY <1>1, <2>2, <3>1, <3>2, AppendAt DEF None
    <2> QED BY <2>1, <2>2
  <1>4. TypesInv'
    BY <1>0, <1>2, <1>3 DEF TypesInv, SettingsStep
  <1>5. EntriesInv'
    BY <1>3 DEF EntriesInv, SettingsStep
  <1>6. \A n, s : OfSession(n, s) => OfSession(n, s)'
    BY <1>2 DEF OfSession
  <1>7. InfosInv'
    <2> SUFFICES ASSUME NEW i \in DOMAIN infos', NEW r, r = infos'[i]
                 PROVE  /\ OfSession(r.file, r.session)' /\ OfSession(r.node, r.session)'
                        /\ r.node # None => r.file # None
      BY DEF InfosInv, OfSession
    <2>1. CASE i \in DOMAIN infos
      BY <1>0, <1>3, <1>6, <2>1 DEF InfosInv
    <2>2. CASE i \notin DOMAIN infos
      BY <1>3, <2>2 DEF OfSession
    <2> QED BY <2>1, <2>2
  <1>8. JobsInv'
    <2> SUFFICES ASSUME NEW n \in DOMAIN jobs', NEW r, r = jobs'[n]
                 PROVE  /\ r.info \in DOMAIN infos' /\ infos'[r.info].session = r.session
                        /\ OfSession(r.answer, r.session)'
                        /\ r.since <= config
                        /\ r.exe # None => r.exe >= r.since
      BY DEF JobsInv, OfSession
    <2>1. CASE n \in DOMAIN jobs
      BY <1>0, <1>2, <1>3, <1>6, <2>1 DEF JobsInv
    <2>2. CASE n = new
      <3>1. r = j
        BY <1>2, <2>2
      <3>2. OfSession(r.answer, r.session)'
        <4>1. CASE r.answer = None
          BY <4>1 DEF OfSession
        <4>2. CASE r.answer # None
          <5>1. info' \in DOMAIN infos /\ r.answer = infos[info'].node
                /\ infos[info'].session = r.session
            BY <1>3, <3>1, <4>2
          <5> QED BY <1>0, <1>6, <5>1 DEF InfosInv
        <4> QED BY <4>1, <4>2
      <3>3. r.since <= config
        BY <1>1, <3>1
      <3> QED BY <1>3, <3>1, <3>2, <3>3 DEF Starts
    <2> QED BY <1>2, <2>1, <2>2
  <1>9. WaitersAwaited'
    <2> SUFFICES ASSUME NEW n \in DOMAIN jobs', NEW r, r = jobs'[n]
                 PROVE  /\ r.at = "settings" <=> r.waitsFor # None
                        /\ r.waitsFor # None =>
                             r.waitsFor \in DOMAIN asked' /\ asked'[r.waitsFor] = None
      BY DEF WaitersAwaited
    <2>1. CASE n \in DOMAIN jobs
      BY <1>0, <1>2, <2>1 DEF WaitersAwaited, SettingsStep
    <2>2. CASE n = new
      BY <1>2, <2>2 DEF Starts
    <2> QED BY <1>2, <2>1, <2>2
  <1>10. OutdatedByOverlapOnly'
    <2> SUFFICES ASSUME NEW m \in DOMAIN jobs', NEW n \in DOMAIN jobs',
                        jobs'[m].info = jobs'[n].info, jobs'[m].stored # None,
                        jobs'[m].stored < n, jobs'[n].stored # None
                 PROVE  infos'[jobs'[m].info].node # m
      BY DEF OutdatedByOverlapOnly
    <2>1. m \in DOMAIN jobs /\ n \in DOMAIN jobs
      BY <1>2
    <2>2. infos'[jobs'[m].info] = infos[jobs[m].info]
      BY <1>0, <1>2, <1>3, <2>1 DEF JobsInv
    <2> QED BY <1>0, <1>2, <2>1, <2>2 DEF OutdatedByOverlapOnly
  <1> QED BY <1>4, <1>5, <1>7, <1>8, <1>9, <1>10 DEF Inv

(* What a job begins with.                                                 *)
LEMMA JobNew ==
  ASSUME TypesInv, NEW kind \in {"open", "tokens", "query"}, NEW i \in Nat, sessions' \in Nat
  PROVE  /\ Job(kind, i) \in JobRecords
         /\ Job(kind, i).session = sessions' /\ Job(kind, i).info = i
         /\ Job(kind, i).since = config /\ Job(kind, i).exe = None
         /\ Job(kind, i).at = "answered" /\ Job(kind, i).waitsFor = None
         /\ Job(kind, i).stored = None /\ Job(kind, i).answer = None
  BY DEF TypesInv, Job, JobRecords, None

(* Opening the document, asking for its tokens, and the other requests.    *)
LEMMA ClientKeeps ==
  ASSUME Inv, DidOpen \/ SemanticTokens \/ Query
  PROVE  Inv'
  <1>0. /\ TypesInv /\ EntriesInv /\ InfosInv
    BY DEF Inv
  <1>1. /\ UNCHANGED <<configurable, config>> /\ open' = TRUE
        /\ sessions' \in Nat /\ (info # None => sessions' = sessions)
        /\ GetOrCreateDocumentInfo
    BY <1>0 DEF DidOpen, SemanticTokens, Query, TypesInv, EntriesInv
  <1>2. info' \in Nat
    BY <1>0, <1>1, LenProperties DEF GetOrCreateDocumentInfo, TypesInv
  <1>3. ASSUME NEW kind \in {"open", "tokens", "query"}, GetDocumentSettings(Job(kind, info'))
        PROVE  Inv'
    <2> DEFINE job == Job(kind, info')
    <2>1. /\ job \in JobRecords
          /\ job.session = sessions' /\ job.info = info'
          /\ job.since = config /\ job.exe = None
          /\ job.at = "answered" /\ job.waitsFor = None
          /\ job.stored = None /\ job.answer = None
      BY <1>0, <1>1, <1>2, JobNew
    <2> HIDE DEF job
    <2>2. /\ SettingsStep
          /\ \E j \in JobRecords :
               /\ jobs' = Append(jobs, j) /\ Starts(j)
               /\ \A f \in {"session", "info", "since", "stored", "answer"} : j[f] = job[f]
      <3>1. GetDocumentSettings(job)
        BY <1>3 DEF job
      <3> QED BY <1>0, <2>1, <3>1, SettingsGot
    <2>3. PICK j \in JobRecords :
            /\ jobs' = Append(jobs, j) /\ Starts(j)
            /\ \A f \in {"session", "info", "since", "stored", "answer"} : j[f] = job[f]
      BY <2>2
    <2>4. /\ j.info = info' /\ j.session = sessions' /\ j.since = config
          /\ j.stored = None /\ j.answer = None
      BY <2>1, <2>3
    <2> QED BY <1>1, <2>2, <2>3, <2>4, BeginKeeps
  <1>4. CASE /\ Query /\ infos'[info'].node # None
             /\ jobs' = Append(jobs, [Job("query", info') EXCEPT !.answer = infos'[info'].node])
             /\ UNCHANGED <<asked, setting>>
    <2> DEFINE node == infos'[info'].node
               job == Job("query", info')
               j == [job EXCEPT !.answer = node]
    <2>1. info # None /\ UNCHANGED <<infos, info>>
      <3>1. CASE info = None
        <4>1. infos' = Append(infos, [session |-> sessions', file |-> None, node |-> None])
              /\ info' = Len(infos) + 1
          BY <1>1, <3>1 DEF GetOrCreateDocumentInfo
        <4>2. [session |-> sessions', file |-> None, node |-> None] \in InfoRecords
          BY <1>1 DEF InfoRecords, None
        <4>3. infos'[info'].node = None
          BY <1>0, <4>1, <4>2, AppendAt DEF TypesInv
        <4> QED BY <1>4, <4>3
      <3> QED BY <1>1, <3>1 DEF GetOrCreateDocumentInfo
    <2>2. node \in Nat
      <3>1. infos \in Seq(InfoRecords) /\ info \in DOMAIN infos
        BY <1>0, <2>1, LenProperties DEF TypesInv, None
      <3>2. infos[info] \in InfoRecords
        BY <3>1, ElementOfSeq, LenProperties
      <3> QED BY <2>1, <3>2 DEF InfoRecords
    <2> HIDE DEF node
    <2>3. /\ j \in JobRecords /\ j.session = sessions' /\ j.info = info'
          /\ j.since = config /\ j.exe = None /\ j.at = "answered" /\ j.waitsFor = None
          /\ j.stored = None /\ j.answer = node
      <3>1. /\ job \in JobRecords /\ job.session = sessions' /\ job.info = info'
            /\ job.since = config /\ job.exe = None /\ job.at = "answered"
            /\ job.waitsFor = None /\ job.stored = None
        BY <1>0, <1>1, <1>2, JobNew
      <3> HIDE DEF job
      <3> QED BY <2>2, <3>1 DEF JobRecords
    <2>4. jobs' = Append(jobs, j)
      BY <1>4 DEF node
    <2> HIDE DEF j
    <2>5. Starts(j)
      BY <2>3 DEF Starts
    <2>6. SettingsStep
      BY <1>0, <1>4, SettingsKept
    <2>7. j.answer = infos[info].node
      BY <2>1, <2>3 DEF node
    <2> QED BY <1>1, <2>1, <2>3, <2>4, <2>5, <2>6, <2>7, BeginKeeps
  <1> QED BY <1>3, <1>4 DEF DidOpen, SemanticTokens, Query

-----------------------------------------------------------------------------
(* A job goes on, and ends.                                                *)

\* A job that has the configuration it waited for, or the output of a process,
\* remains what it was in everything but its stage.
Follows(r, j) ==
    /\ r \in JobRecords
    /\ r.session = j.session /\ r.info = j.info
    /\ r.since <= j.since /\ (r.exe # None => r.exe >= r.since)
    /\ r.at = "settings" <=> r.waitsFor # None

(* Jobs that go on keep the invariant, as long as their answers are of     *)
(* their sessions.                                                         *)
LEMMA GoesOn ==
  ASSUME Inv, jobs' \in Seq(JobRecords), DOMAIN jobs' = DOMAIN jobs, TypesInv', EntriesInv',
         DOMAIN infos' = DOMAIN infos,
         \A i \in DOMAIN infos : infos'[i].session = infos[i].session,
         \A i \in DOMAIN infos :
           /\ OfSession(infos'[i].file, infos[i].session)
           /\ OfSession(infos'[i].node, infos[i].session)
           /\ infos'[i].node # None => infos'[i].file # None,
         config' = config,
         \A n \in DOMAIN jobs :
           /\ Follows(jobs'[n], jobs[n])
           /\ OfSession(jobs'[n].answer, jobs[n].session)
           /\ jobs'[n].waitsFor # None =>
                jobs'[n].waitsFor \in DOMAIN asked' /\ asked'[jobs'[n].waitsFor] = None,
         OutdatedByOverlapOnly'
  PROVE  Inv'
  <1>0. JobsInv /\ TypesInv
    BY DEF Inv
  <1>1. \A n \in DOMAIN jobs : jobs'[n].session = jobs[n].session
    BY DEF Follows
  <1>2. \A n, s : OfSession(n, s) => OfSession(n, s)'
    BY <1>1 DEF OfSession
  <1>3. InfosInv'
    <2> SUFFICES ASSUME NEW i \in DOMAIN infos', NEW r, r = infos'[i]
                 PROVE  /\ OfSession(r.file, r.session)' /\ OfSession(r.node, r.session)'
                        /\ r.node # None => r.file # None
      BY DEF InfosInv, OfSession
    <2> QED BY <1>2
  <1>4. JobsInv'
    <2> SUFFICES ASSUME NEW n \in DOMAIN jobs', NEW r, r = jobs'[n]
                 PROVE  /\ r.info \in DOMAIN infos' /\ infos'[r.info].session = r.session
                        /\ OfSession(r.answer, r.session)'
                        /\ r.since <= config'
                        /\ r.exe # None => r.exe >= r.since
      BY DEF JobsInv, OfSession
    <2>1. /\ jobs[n].info \in DOMAIN infos /\ infos[jobs[n].info].session = jobs[n].session
          /\ jobs[n].since <= config
      BY <1>0 DEF JobsInv
    <2>2. jobs[n].since \in Nat /\ r.since \in Nat /\ config \in Nat
      <3>1. jobs[n] \in JobRecords
        BY <1>0, ElementOfSeq, LenProperties DEF TypesInv
      <3> QED BY <1>0, <3>1 DEF TypesInv, JobRecords, Follows
    <2>3. Follows(r, jobs[n]) /\ OfSession(r.answer, jobs[n].session)
      OBVIOUS
    <2>4. r.since <= config'
      BY <2>1, <2>2, <2>3 DEF Follows
    <2> QED BY <1>2, <2>1, <2>3, <2>4 DEF Follows
  <1>5. WaitersAwaited'
    BY DEF WaitersAwaited, Follows
  <1> QED BY <1>3, <1>4, <1>5 DEF Inv

(* The record of a job.                                                    *)
LEMMA JobKnown ==
  ASSUME TypesInv, NEW n \in DOMAIN jobs
  PROVE  jobs[n] \in JobRecords /\ n \in 1..Len(jobs) /\ Len(jobs) \in Nat
  BY ElementOfSeq, LenProperties DEF TypesInv

(* A job that does not move.                                               *)
LEMMA Stays ==
  ASSUME Inv, NEW n \in DOMAIN jobs
  PROVE  /\ Follows(jobs[n], jobs[n])
         /\ OfSession(jobs[n].answer, jobs[n].session)
         /\ jobs[n].waitsFor # None =>
              jobs[n].waitsFor \in DOMAIN asked /\ asked[jobs[n].waitsFor] = None
  <1>1. TypesInv /\ JobsInv /\ WaitersAwaited
    BY DEF Inv
  <1>2. jobs[n] \in JobRecords
    BY <1>1, JobKnown
  <1>3. jobs[n].since <= jobs[n].since
    <2>1. jobs[n].since \in Nat
      BY <1>2 DEF JobRecords
    <2> QED BY <2>1
  <1> QED BY <1>1, <1>2, <1>3 DEF JobsInv, WaitersAwaited, Follows

(* What a process is started for.                                          *)
LEMMA SpawnFollows ==
  ASSUME NEW j \in JobRecords, NEW stage \in {"lexer", "parser"}, NEW value \in Nat,
         value # None => value >= j.since
  PROVE  /\ Follows(Spawn(j, stage, value), j)
         /\ Spawn(j, stage, value).answer = j.answer
         /\ Spawn(j, stage, value).stored = j.stored
         /\ Spawn(j, stage, value).waitsFor = None
  <1> DEFINE r == Spawn(j, stage, value)
  <1>1. /\ r \in JobRecords /\ r.session = j.session /\ r.info = j.info /\ r.since = j.since
        /\ r.exe = value /\ r.waitsFor = None /\ r.at = stage
        /\ r.answer = j.answer /\ r.stored = j.stored
    BY DEF Spawn, JobRecords, None
  <1>2. j.since \in Nat
    BY DEF JobRecords
  <1> HIDE DEF r
  <1>3. Follows(r, j)
    BY <1>1, <1>2 DEF Follows
  <1> QED BY <1>1, <1>3 DEF r

(* Closing the document, and a change of the configuration.                *)
LEMMA ClosesKeep ==
  ASSUME Inv, DidClose \/ DidChangeConfiguration
  PROVE  Inv'
  <1>0. /\ TypesInv /\ EntriesInv /\ InfosInv /\ JobsInv /\ WaitersAwaited
        /\ OutdatedByOverlapOnly
    BY DEF Inv
  <1>1. UNCHANGED <<configurable, infos, asked, jobs>> /\ config \in Nat
    BY <1>0 DEF DidClose, DidChangeConfiguration, TypesInv
  <1>2. CASE DidClose
    <2>1. /\ open' = FALSE /\ info' = None /\ setting' = None /\ UNCHANGED <<config, sessions>>
      BY <1>2 DEF DidClose
    <2>2. TypesInv'
      <3>1. Len(infos) \in Nat /\ Len(asked) \in Nat
        BY <1>0, LenProperties DEF TypesInv
      <3>2. open' \in BOOLEAN
        BY <2>1
      <3> QED BY <1>0, <1>1, <2>1, <3>1, <3>2 DEF TypesInv, None
    <2>3. EntriesInv'
      BY <1>0, <2>1 DEF EntriesInv, None
    <2>4. JobsInv'
      BY <1>0, <1>1, <2>1 DEF JobsInv, OfSession
    <2> QED
      BY <1>0, <1>1, <2>2, <2>3, <2>4
      DEF Inv, InfosInv, OfSession, WaitersAwaited, OutdatedByOverlapOnly
  <1>3. CASE DidChangeConfiguration
    <2>1. /\ config' = config + 1 /\ setting' = IF configurable THEN None ELSE setting
          /\ UNCHANGED <<sessions, open, info>>
      BY <1>3 DEF DidChangeConfiguration
    <2>2. setting' = None
      BY <1>0, <2>1 DEF EntriesInv
    <2>3. TypesInv'
      BY <1>0, <1>1, <2>1, <2>2, LenProperties DEF TypesInv, None
    <2>4. EntriesInv'
      BY <1>0, <1>1, <2>1, <2>2 DEF EntriesInv
    <2>5. JobsInv'
      <3> SUFFICES ASSUME NEW n \in DOMAIN jobs
                   PROVE  /\ jobs[n].info \in DOMAIN infos
                          /\ infos[jobs[n].info].session = jobs[n].session
                          /\ OfSession(jobs[n].answer, jobs[n].session)
                          /\ jobs[n].since <= config + 1
                          /\ jobs[n].exe # None => jobs[n].exe >= jobs[n].since
        BY <1>1, <2>1 DEF JobsInv, OfSession
      <3>1. jobs[n].since \in Nat
        BY <1>0, JobKnown DEF JobRecords
      <3> QED BY <1>0, <1>1, <3>1 DEF JobsInv
    <2> QED
      BY <1>0, <1>1, <2>3, <2>4, <2>5
      DEF Inv, InfosInv, OfSession, WaitersAwaited, OutdatedByOverlapOnly
  <1> QED BY <1>2, <1>3

(* The client's answer is the configuration of the moment, which is not    *)
(* older than the jobs that waited for it.                                 *)
LEMMA AnsweredKeeps ==
  ASSUME Inv, NEW c, ConfigurationAnswered(c)
  PROVE  Inv'
  <1>0. /\ TypesInv /\ EntriesInv /\ InfosInv /\ JobsInv /\ WaitersAwaited
        /\ OutdatedByOverlapOnly
    BY DEF Inv
  <1>1. /\ c \in DOMAIN asked /\ asked[c] = None /\ asked' = [asked EXCEPT ![c] = config]
        /\ jobs' = [n \in DOMAIN jobs |->
                      IF jobs[n].waitsFor = c THEN Configured(jobs[n], config) ELSE jobs[n]]
        /\ UNCHANGED <<configurable, config, programs, sessions, open, infos, info, setting>>
    BY DEF ConfigurationAnswered
  <1>2. /\ asked' \in Seq(Nat) /\ Len(asked') = Len(asked) /\ DOMAIN asked' = DOMAIN asked
        /\ asked'[c] = config
        /\ \A d \in DOMAIN asked : d # c => asked'[d] = asked[d]
    BY <1>0, <1>1, ExceptSeq, LenProperties DEF TypesInv
  <1>3. c # None
    BY <1>0, <1>1, LenProperties DEF TypesInv, None
  <1>4. ASSUME NEW n \in DOMAIN jobs
        PROVE  /\ Follows(jobs'[n], jobs[n])
               /\ jobs'[n].answer = jobs[n].answer /\ jobs'[n].stored = jobs[n].stored
               /\ jobs'[n].waitsFor # None =>
                    jobs'[n].waitsFor \in DOMAIN asked' /\ asked'[jobs'[n].waitsFor] = None
    <2>1. CASE jobs[n].waitsFor = c
      <3> DEFINE stage == IF jobs[n].kind = "tokens" THEN "lexer" ELSE "parser"
      <3>1. jobs'[n] = Spawn(jobs[n], stage, config)
        BY <1>1, <2>1 DEF Configured
      <3>2. jobs[n] \in JobRecords /\ stage \in {"lexer", "parser"} /\ config \in Nat
        BY <1>0, JobKnown DEF TypesInv
      <3>3. config >= jobs[n].since
        BY <1>0, <3>2 DEF JobsInv, JobRecords
      <3> HIDE DEF stage
      <3> QED BY <3>1, <3>2, <3>3, SpawnFollows
    <2>2. CASE jobs[n].waitsFor # c
      <3>1. jobs'[n] = jobs[n]
        BY <1>1, <2>2
      <3> QED BY <1>2, <2>2, <3>1, Stays
    <2> QED BY <2>1, <2>2
  <1>5. DOMAIN jobs' = DOMAIN jobs /\ DOMAIN jobs = 1..Len(jobs) /\ Len(jobs) \in Nat
    BY <1>0, <1>1, LenProperties DEF TypesInv
  <1>6. jobs' \in Seq(JobRecords)
    <2>1. \A n \in 1..Len(jobs) : jobs'[n] \in JobRecords
      BY <1>4, <1>5 DEF Follows
    <2>2. jobs' = [n \in 1..Len(jobs) |-> jobs'[n]]
      BY <1>1, <1>5
    <2> QED BY <1>5, <2>1, <2>2, IsASeq
  <1>7. TypesInv'
    BY <1>0, <1>1, <1>2, <1>6 DEF TypesInv
  <1>8. EntriesInv'
    BY <1>0, <1>1, <1>2, LenProperties DEF EntriesInv, TypesInv, None
  <1>9. OutdatedByOverlapOnly'
    BY <1>0, <1>1, <1>4, <1>5 DEF OutdatedByOverlapOnly, Follows
  <1>10. \A n \in DOMAIN jobs : OfSession(jobs'[n].answer, jobs[n].session)
    BY <1>0, <1>4 DEF JobsInv
  <1>11. \A i \in DOMAIN infos :
           /\ OfSession(infos'[i].file, infos[i].session)
           /\ OfSession(infos'[i].node, infos[i].session)
           /\ infos'[i].node # None => infos'[i].file # None
    BY <1>0, <1>1 DEF InfosInv
  <1>12. DOMAIN infos' = DOMAIN infos /\ config' = config
         /\ \A i \in DOMAIN infos : infos'[i].session = infos[i].session
    BY <1>1
  <1> QED BY <1>4, <1>5, <1>6, <1>7, <1>8, <1>9, <1>10, <1>11, <1>12, GoesOn

(* The end of one job, whatever it stores and answers.                     *)
LEMMA EndKeeps ==
  ASSUME Inv, NEW n \in DOMAIN jobs, NEW r \in JobRecords, jobs' = [jobs EXCEPT ![n] = r],
         UNCHANGED <<configurable, config, sessions, open, info, asked, setting>>,
         infos' \in Seq(InfoRecords), DOMAIN infos' = DOMAIN infos,
         \A i \in DOMAIN infos : infos'[i].session = infos[i].session,
         \A i \in DOMAIN infos :
           /\ OfSession(infos'[i].file, infos[i].session)
           /\ OfSession(infos'[i].node, infos[i].session)
           /\ infos'[i].node # None => infos'[i].file # None,
         Follows(r, jobs[n]), r.waitsFor = None, OfSession(r.answer, jobs[n].session),
         \/ r.stored \in {None, jobs[n].stored} /\ \A i \in DOMAIN infos : infos'[i].node = infos[i].node
         \/ /\ r.stored = Len(jobs) /\ infos'[r.info].node = n
            /\ \A i \in DOMAIN infos : i # r.info => infos'[i].node = infos[i].node
  PROVE  Inv'
  <1>0. /\ TypesInv /\ EntriesInv /\ InfosInv /\ JobsInv /\ WaitersAwaited
        /\ OutdatedByOverlapOnly
    BY DEF Inv
  <1>1. /\ jobs' \in Seq(JobRecords) /\ DOMAIN jobs' = DOMAIN jobs /\ jobs'[n] = r
        /\ \A m \in DOMAIN jobs : m # n => jobs'[m] = jobs[m]
        /\ DOMAIN jobs = 1..Len(jobs) /\ Len(jobs) \in Nat
    BY <1>0, ExceptSeq, LenProperties DEF TypesInv
  <1>2. TypesInv'
    <2>1. Len(infos') = Len(infos)
      BY <1>0, LenProperties DEF TypesInv
    <2> QED BY <1>0, <1>1, <2>1 DEF TypesInv
  <1>3. EntriesInv'
    <2>1. info # None => info \in DOMAIN infos
      BY <1>0, LenProperties DEF TypesInv, None
    <2> QED BY <1>0, <2>1 DEF EntriesInv
  <1>4. \A m \in DOMAIN jobs :
          /\ Follows(jobs'[m], jobs[m])
          /\ OfSession(jobs'[m].answer, jobs[m].session)
          /\ jobs'[m].waitsFor # None =>
               jobs'[m].waitsFor \in DOMAIN asked' /\ asked'[jobs'[m].waitsFor] = None
    BY <1>1, Stays
  <1>5. OutdatedByOverlapOnly'
    <2> SUFFICES ASSUME NEW a \in DOMAIN jobs, NEW b \in DOMAIN jobs,
                        jobs'[a].info = jobs'[b].info, jobs'[a].stored # None,
                        jobs'[a].stored < b, jobs'[b].stored # None
                 PROVE  infos'[jobs'[a].info].node # a
      BY <1>1 DEF OutdatedByOverlapOnly
    <2>1. /\ jobs'[a].info = jobs[a].info /\ jobs'[b].info = jobs[b].info
          /\ jobs[a].info \in DOMAIN infos
      BY <1>0, <1>4 DEF Follows, JobsInv
    <2>2. CASE r.stored \in {None, jobs[n].stored}
               /\ \A i \in DOMAIN infos : infos'[i].node = infos[i].node
      <3>1. jobs'[a].stored = jobs[a].stored /\ jobs'[b].stored = jobs[b].stored
        BY <1>1, <2>2
      <3> QED BY <1>0, <2>1, <2>2, <3>1 DEF OutdatedByOverlapOnly
    <2>3. CASE /\ r.stored = Len(jobs) /\ infos'[r.info].node = n
               /\ \A i \in DOMAIN infos : i # r.info => infos'[i].node = infos[i].node
      <3>1. a # n
        BY <1>1, <2>3
      <3>2. jobs'[a] = jobs[a]
        BY <1>1, <3>1
      <3>3. CASE jobs[a].info = r.info
        BY <2>1, <2>3, <3>1, <3>3
      <3>4. CASE jobs[a].info # r.info
        <4>1. b # n
          BY <1>1, <2>1, <3>4
        <4> QED BY <1>0, <1>1, <2>1, <2>3, <3>2, <3>4, <4>1 DEF OutdatedByOverlapOnly
      <3> QED BY <3>3, <3>4
    <2> QED BY <2>2, <2>3
  <1> QED BY <1>1, <1>2, <1>3, <1>4, <1>5, GoesOn


(* What the end of a job leaves of it.                                     *)
LEMMA AnswerIs ==
  ASSUME TypesInv, WaitersAwaited, NEW n \in DOMAIN jobs, jobs[n].at # "settings",
         NEW tree \in BOOLEAN, Answer(n, tree), infos'[jobs[n].info].node \in Nat
  PROVE  \E r \in JobRecords :
           /\ jobs' = [jobs EXCEPT ![n] = r] /\ Follows(r, jobs[n]) /\ r.waitsFor = None
           /\ r.stored = (IF tree THEN Len(jobs) ELSE None) /\ r.info = jobs[n].info
           /\ r.answer \in {None, infos'[jobs[n].info].node}
  <1> DEFINE node == infos'[jobs[n].info].node
             stored == IF tree THEN Len(jobs) ELSE None
             answer == IF jobs[n].kind = "query" THEN node ELSE None
             r == [jobs[n] EXCEPT !.at = "answered", !.process = "none", !.exe = None,
                                  !.since = None, !.stored = stored, !.answer = answer]
  <1>1. jobs[n] \in JobRecords /\ Len(jobs) \in Nat /\ n \in DOMAIN jobs
    BY JobKnown
  <1>2. jobs' = [jobs EXCEPT ![n] = r]
    BY DEF Answer
  <1>3. stored \in Nat /\ answer \in Nat /\ answer \in {None, node}
    BY <1>1 DEF None
  <1> HIDE DEF stored, answer, node
  <1>4. /\ r \in JobRecords /\ r.session = jobs[n].session /\ r.info = jobs[n].info
        /\ r.at = "answered" /\ r.exe = None /\ r.since = None /\ r.stored = stored
        /\ r.answer = answer /\ r.waitsFor = jobs[n].waitsFor
    BY <1>1, <1>3 DEF JobRecords, None
  <1>5. jobs[n].waitsFor = None /\ jobs[n].since \in Nat
    BY <1>1 DEF WaitersAwaited, JobRecords
  <1> HIDE DEF r
  <1>6. Follows(r, jobs[n])
    BY <1>4, <1>5 DEF Follows, None
  <1> QED BY <1>2, <1>3, <1>4, <1>5, <1>6 DEF stored, node

(* The lexer hands over to the parser, or a job ends without a tree.       *)
LEMMA RejectKeeps ==
  ASSUME Inv, NEW n, Tokenized(n) \/ (\E process \in {"running", "not there"} : Reject(n, process))
  PROVE  Inv'
  <1>0. TypesInv /\ InfosInv /\ JobsInv /\ WaitersAwaited
    BY DEF Inv
  <1>1. /\ n \in DOMAIN jobs /\ jobs[n].at \in {"lexer", "parser"}
        /\ UNCHANGED <<configurable, config, sessions, open, infos, info, asked, setting>>
    BY DEF Tokenized, Reject, At, caches
  <1>2. /\ infos \in Seq(InfoRecords)
        /\ \A i \in DOMAIN infos :
             /\ OfSession(infos[i].file, infos[i].session)
             /\ OfSession(infos[i].node, infos[i].session)
             /\ infos[i].node # None => infos[i].file # None
    BY <1>0 DEF TypesInv, InfosInv
  <1>3. /\ jobs[n].info \in DOMAIN infos /\ infos[jobs[n].info].session = jobs[n].session
        /\ infos[jobs[n].info].node \in Nat
    <2>1. jobs[n].info \in DOMAIN infos /\ infos[jobs[n].info].session = jobs[n].session
      BY <1>0, <1>1 DEF JobsInv
    <2>2. infos[jobs[n].info] \in InfoRecords
      BY <1>2, <2>1, ElementOfSeq, LenProperties
    <2> QED BY <2>1, <2>2 DEF InfoRecords
  <1>4. CASE jobs' = [jobs EXCEPT ![n] = Spawn(jobs[n], "parser", jobs[n].exe)]
    <2> DEFINE r == Spawn(jobs[n], "parser", jobs[n].exe)
    <2>1. jobs[n] \in JobRecords /\ jobs[n].exe \in Nat
      BY <1>0, <1>1, JobKnown DEF JobRecords
    <2>2. /\ Follows(r, jobs[n]) /\ r.answer = jobs[n].answer
          /\ r.stored = jobs[n].stored /\ r.waitsFor = None
      BY <1>0, <1>1, <2>1, SpawnFollows DEF JobsInv
    <2>3. r \in JobRecords /\ OfSession(r.answer, jobs[n].session)
      BY <1>0, <1>1, <2>2 DEF Follows, JobsInv
    <2> HIDE DEF r
    <2> QED BY <1>1, <1>2, <1>4, <2>2, <2>3, EndKeeps DEF r
  <1>5. CASE Answer(n, FALSE)
    <2>1. PICK r \in JobRecords :
            /\ jobs' = [jobs EXCEPT ![n] = r] /\ Follows(r, jobs[n]) /\ r.waitsFor = None
            /\ r.stored = None
            /\ r.answer \in {None, infos'[jobs[n].info].node}
      BY <1>0, <1>1, <1>3, <1>5, AnswerIs
    <2>2. OfSession(r.answer, jobs[n].session)
      BY <1>1, <1>2, <1>3, <2>1 DEF OfSession
    <2> QED BY <1>1, <1>2, <2>1, <2>2, EndKeeps
  <1> QED BY <1>1, <1>4, <1>5 DEF Tokenized, Reject

(* The parser's output goes to the DocumentInfo the job began with.        *)
LEMMA ParsedKeeps ==
  ASSUME Inv, NEW n, Parsed(n)
  PROVE  Inv'
  <1>0. TypesInv /\ InfosInv /\ JobsInv /\ WaitersAwaited
    BY DEF Inv
  <1> DEFINE i == jobs[n].info
  <1>1. /\ n \in DOMAIN jobs /\ jobs[n].at = "parser"
        /\ UNCHANGED <<configurable, config, sessions, open, info, asked, setting>>
    BY DEF Parsed, At
  <1>2. PICK tree \in BOOLEAN :
          /\ infos' = [infos EXCEPT ![i].file = n, ![i].node = IF tree THEN n ELSE @]
          /\ Answer(n, tree)
    BY DEF Parsed
  <1>3. /\ infos \in Seq(InfoRecords) /\ i \in DOMAIN infos /\ infos[i] \in InfoRecords
        /\ infos[i].session = jobs[n].session /\ n \in Nat /\ n # None
    <2>1. infos \in Seq(InfoRecords) /\ i \in DOMAIN infos /\ infos[i].session = jobs[n].session
      BY <1>0, <1>1 DEF TypesInv, JobsInv
    <2>2. infos[i] \in InfoRecords
      BY <2>1, ElementOfSeq, LenProperties
    <2>3. n \in Nat /\ n # None
      BY <1>0, <1>1, JobKnown DEF None
    <2> QED BY <2>1, <2>2, <2>3
  <1> DEFINE entry == [infos[i] EXCEPT !.file = n, !.node = IF tree THEN n ELSE infos[i].node]
  <1>4. /\ entry \in InfoRecords /\ entry.session = infos[i].session /\ entry.file = n
        /\ entry.node = IF tree THEN n ELSE infos[i].node
    BY <1>3 DEF InfoRecords
  <1>5. infos' = [infos EXCEPT ![i] = entry]
    BY <1>2
  <1> HIDE DEF entry, i
  <1>6. /\ infos' \in Seq(InfoRecords) /\ DOMAIN infos' = DOMAIN infos /\ infos'[i] = entry
        /\ \A d \in DOMAIN infos : d # i => infos'[d] = infos[d]
    BY <1>3, <1>4, <1>5, ExceptSeq, LenProperties
  <1>7. \A d \in DOMAIN infos :
          /\ OfSession(infos'[d].file, infos[d].session)
          /\ OfSession(infos'[d].node, infos[d].session)
          /\ infos'[d].node # None => infos'[d].file # None
          /\ infos'[d].session = infos[d].session
    BY <1>0, <1>1, <1>3, <1>4, <1>6 DEF InfosInv, OfSession
  <1>8. infos'[i].node \in Nat
    BY <1>4, <1>6 DEF InfoRecords
  <1>9. PICK r \in JobRecords :
          /\ jobs' = [jobs EXCEPT ![n] = r] /\ Follows(r, jobs[n]) /\ r.waitsFor = None
          /\ r.stored = (IF tree THEN Len(jobs) ELSE None) /\ r.info = i
          /\ r.answer \in {None, infos'[i].node}
    BY <1>0, <1>1, <1>2, <1>8, AnswerIs DEF i
  <1>10. OfSession(r.answer, jobs[n].session)
    BY <1>3, <1>7, <1>9 DEF OfSession
  <1>11. \/ r.stored = None /\ \A d \in DOMAIN infos : infos'[d].node = infos[d].node
         \/ /\ r.stored = Len(jobs) /\ infos'[r.info].node = n
            /\ \A d \in DOMAIN infos : d # r.info => infos'[d].node = infos[d].node
    BY <1>4, <1>6, <1>9
  <1> QED BY <1>1, <1>6, <1>7, <1>9, <1>10, <1>11, EndKeeps

-----------------------------------------------------------------------------
(* The invariant, and what it implies.                                     *)

(* Every step preserves it.                                                *)
LEMMA InvStep == Inv /\ [Next]_vars => Inv'
  <1> SUFFICES ASSUME Inv, [Next]_vars PROVE Inv'
    OBVIOUS
  <1>1. CASE DidOpen \/ SemanticTokens \/ Query
    BY <1>1, ClientKeeps
  <1>2. CASE DidClose \/ DidChangeConfiguration
    BY <1>2, ClosesKeep
  <1>3. ASSUME NEW n \in Jobs, ConfigurationAnswered(n) PROVE Inv'
    BY <1>3, AnsweredKeeps
  <1>4. ASSUME NEW n \in Jobs, Tokenized(n) \/ Fails(n) \/ SpawnError(n) \/ Timeout(n)
        PROVE  Inv'
    BY <1>4, RejectKeeps DEF Fails, SpawnError, Timeout
  <1>5. ASSUME NEW n \in Jobs, Parsed(n) PROVE Inv'
    BY <1>5, ParsedKeeps
  <1>6. CASE UNCHANGED vars
    BY <1>6
    DEF vars, caches, Inv, TypesInv, EntriesInv, InfosInv, OfSession, JobsInv,
        WaitersAwaited, OutdatedByOverlapOnly
  <1> QED BY <1>1, <1>2, <1>3, <1>4, <1>5, <1>6 DEF Next, Rest

(* The invariant holds in every state.                                     *)
LEMMA Invariant == Spec => []Inv
  BY InvInit, InvStep, PTL DEF Spec

(* Nothing points nowhere.  The entries of the two maps (documentInfos and *)
(* documentSettings) and every job name a DocumentInfo and a promise that  *)
(* exist, also after the document was closed while the job ran; a file, a  *)
(* tree or an answer is that of a job that has begun, for the same opening *)
(* of the document as what holds it.                                       *)
ReferencesExist ==
    /\ info \in {None} \cup DOMAIN infos /\ setting \in {None} \cup DOMAIN asked
    /\ info # None => infos[info].session = sessions
    /\ \A i \in DOMAIN infos : \A n \in {infos[i].file, infos[i].node} \ {None} :
         n \in DOMAIN jobs /\ jobs[n].info \in DOMAIN infos
           /\ jobs[n].session = infos[i].session
    /\ \A n \in DOMAIN jobs :
         /\ jobs[n].info \in DOMAIN infos /\ infos[jobs[n].info].session = jobs[n].session
         /\ jobs[n].waitsFor \in {None} \cup DOMAIN asked
         /\ jobs[n].answer \in {None} \cup DOMAIN jobs
         /\ jobs[n].answer # None => jobs[jobs[n].answer].session = jobs[n].session

(* The types of the server's state, and that everything in it refers to    *)
(* DocumentInfos, promises and jobs that exist.                            *)
THEOREM TypesCorrect == Spec => [](TypesInv /\ ReferencesExist)
  <1>1. ASSUME Inv PROVE TypesInv /\ ReferencesExist
    <2>1. TypesInv /\ EntriesInv /\ InfosInv /\ JobsInv /\ WaitersAwaited
      BY <1>1 DEF Inv
    <2>2. info \in {None} \cup DOMAIN infos /\ setting \in {None} \cup DOMAIN asked
      <3>1. /\ Len(infos) \in Nat /\ DOMAIN infos = 1..Len(infos)
            /\ Len(asked) \in Nat /\ DOMAIN asked = 1..Len(asked)
        BY <2>1, LenProperties DEF TypesInv
      <3> QED BY <2>1, <3>1 DEF TypesInv, None
    <2>3. ASSUME NEW i \in DOMAIN infos, NEW n \in {infos[i].file, infos[i].node} \ {None}
          PROVE  /\ n \in DOMAIN jobs /\ jobs[n].info \in DOMAIN infos
                 /\ jobs[n].session = infos[i].session
      BY <2>1, <2>3 DEF InfosInv, JobsInv, OfSession
    <2>4. ASSUME NEW n \in DOMAIN jobs
          PROVE  /\ jobs[n].info \in DOMAIN infos
                 /\ infos[jobs[n].info].session = jobs[n].session
                 /\ jobs[n].waitsFor \in {None} \cup DOMAIN asked
                 /\ jobs[n].answer \in {None} \cup DOMAIN jobs
                 /\ jobs[n].answer # None => jobs[jobs[n].answer].session = jobs[n].session
      BY <2>1 DEF JobsInv, WaitersAwaited, OfSession
    <2> QED BY <2>1, <2>2, <2>3, <2>4 DEF ReferencesExist, EntriesInv
  <1> QED BY <1>1, Invariant, PTL

(* CachesCurrent, for any number of requests and changes: no tree crosses  *)
(* from one session to another, a tree has its file, only overlapping      *)
(* parses leave an outdated tree, and no process is started with a         *)
(* configuration older than its job.                                       *)
THEOREM CachesCorrect == Spec => []CachesCurrent
  <1>1. ASSUME Inv PROVE CachesCurrent
    <2>1. /\ EntriesInv /\ InfosInv /\ JobsInv /\ OutdatedByOverlapOnly
      BY <1>1 DEF Inv
    <2>2. SessionsApart
      BY <2>1 DEF SessionsApart, TreeOf, EntriesInv, InfosInv, JobsInv, OfSession
    <2>3. FileOfTree /\ ConfigurationCurrent
      BY <2>1 DEF FileOfTree, ConfigurationCurrent, InfosInv, JobsInv
    <2> QED BY <2>1, <2>2, <2>3 DEF CachesCurrent
  <1> QED BY <1>1, Invariant, PTL

(* No request sleeps on a promise that has been resolved: whoever waits    *)
(* for the configuration waits for an answer the client still owes.        *)
THEOREM NobodyMissed == Spec => []WaitersAwaited
  <1>1. Inv => WaitersAwaited
    BY DEF Inv
  <1> QED BY <1>1, Invariant, PTL
=============================================================================
