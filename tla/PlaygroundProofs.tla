-------------------------- MODULE PlaygroundProofs --------------------------
(***************************************************************************)
(* The workers of Playground, for any number of generations, reloads and   *)
(* kinds of requests.                                                      *)
(*                                                                         *)
(* What a worker's list of turns may hold decides everything: a turn that  *)
(* resumes with a module never stands behind a call, which might trap; at  *)
(* most one job is inside #exec; and each request that was put back has a  *)
(* loop that comes by again.  json2cpp2's makeArgs takes one turn whatever *)
(* the request, so its jobs keep step (Behind), and none of them reads     *)
(* #mod after the trap of another.  src2json's makeArgs takes one turn or  *)
(* two: its jobs get out of step, and one may find no module (ModuleAtHand *)
(* says which).                                                            *)
(***************************************************************************)
EXTENDS Playground, TLAPS, FiniteSetTheorems, SequenceTheorems

Forms(w) ==
    IF w = "json2cpp2" THEN {"json"} ELSE {"plain", "import", "malformed", "tokens"}
\* What a worker is asked is of the caller's own source; what src2json answers
\* is so, too.
Jobs(w) == {j \in [trace : Generations, of : Generations, form : Forms(w)] : j.of = j.trace}
Texts == {None} \cup Generations
Results(w) ==
    {r \in [trace : Generations, of : Texts, usable : BOOLEAN] :
        r.usable => r.of # None /\ (w = "src2json" => r.of = r.trace)}
Steps == {"args", "args made", "no module", "exec", "call",
          "load failed", "throws", "thrown", "next"}
Turns(w) ==
    [job : Jobs(w), at : Steps]
    \cup {t \in [job : Jobs(w), at : {"returned"}, result : Results(w)] :
              t.result.trace = t.job.trace}
    \cup [job : Jobs(w), at : {"resumed"}, then : {"args", "call"}, of : Nat]
Awaits(w) == [job : Jobs(w), then : {"args", "call"}]
Fetches(w) == [job : {j \in Jobs(w) : j.form = "import"}, for : Nat]
Promises == [id : Nat \ {0}, state : {"absent", "loading", "loaded", "failed"}]

WorkerTypesOK(w) ==
    /\ inbox[w] \in Seq(Jobs(w)) /\ msgQueue[w] \in Seq(Jobs(w))
    /\ ready[w] \in Seq(Turns(w)) /\ waiting[w] \in Seq(Awaits(w))
    /\ fetching[w] \subseteq Fetches(w) /\ IsFiniteSet(fetching[w])
    /\ promise[w] \in Promises /\ mod[w] \in Nat
    /\ editor[w] \in Texts /\ capture[w] \in {None} \cup Generations
    /\ outbox[w] \in Seq(Results(w))

Settled(w) == promise[w].state \in {"loaded", "failed"}

\* The module in #mod is the one loaded last.
ModuleOK(w) ==
    /\ mod[w] # None => mod[w] = promise[w].id /\ promise[w].state = "loaded"
    /\ waiting[w] # <<>> => promise[w].state = "loading"
    /\ promise[w].state = "absent" =>
         inbox[w] = <<>> /\ ready[w] = <<>> /\ fetching[w] = {}

\* Nobody resumes with a module that traps before his turn.
ResumedOK(w) ==
    \A i \in DOMAIN ready[w] :
        /\ ready[w][i].at = "resumed" => ready[w][i].of = promise[w].id /\ Settled(w)
        /\ ready[w][i].at = "call" =>
             /\ mod[w] # None
             /\ \A j \in DOMAIN ready[w] : i < j => ready[w][j].at # "resumed"

Nexts(s) == {i \in DOMAIN s : s[i].at = "next"}
\* Each request in the queue has a loop that comes back for it.
QueueOK(w) == Len(msgQueue[w]) <= Cardinality(Nexts(ready[w]))

InExec(turn) ==
    \/ turn.at \in {"call", "returned", "load failed", "throws"}
    \/ turn.at = "resumed" /\ turn.then = "call"
InsideOK(w) ==
    LET R == {i \in DOMAIN ready[w] : InExec(ready[w][i])}
        W == {i \in DOMAIN waiting[w] : waiting[w][i].then = "call"}
    IN /\ \A i \in R : ready[w][i].job.trace = capture[w]
       /\ \A i \in W : waiting[w][i].job.trace = capture[w]
       /\ \A i, j \in R : i = j
       /\ \A i, j \in W : i = j
       /\ R = {} \/ W = {}

\* What stands in a list of turns, and what behind what.
Ats(s) == {s[i].at : i \in DOMAIN s}
Has(s, a) == a \in Ats(s)
Pair(s, a, b) == \E i, j \in DOMAIN s : i < j /\ s[i].at = a /\ s[j].at = b

JsonSteps == {"resumed", "args", "exec", "call", "returned", "next", "thrown"}

\* What may stand behind a turn in json2cpp2's list.
Behind(a) ==
    CASE a = "resumed" -> {"resumed", "args", "thrown"}
      [] a = "args" -> {"args", "exec", "next"}
      [] a = "exec" -> {"exec", "call", "next"}
      [] a = "call" -> {"next"}
      [] a = "returned" -> {"args"}
      [] a = "next" -> {"next", "returned", "args", "exec"}
      [] a = "thrown" -> {"thrown"}
      [] OTHER -> {}

LineOK(s, queue) ==
    /\ Ats(s) \subseteq JsonSteps
    /\ \A a, b \in JsonSteps : Pair(s, a, b) => b \in Behind(a)
    /\ Pair(s, "exec", "next") => Has(s, "call")
    /\ queue # <<>> => ~Pair(s, "args", "next") /\ ~Pair(s, "next", "exec")
\* What the list says of the module and of #textCapture.
LineModuleOK(w) ==
    LET s == ready[w] IN
    /\ Has(s, "args") \/ Has(s, "exec") => mod[w] # None
    /\ Has(s, "exec") \/ Has(s, "call") => editor[w] # None
    /\ Has(s, "thrown") => promise[w].state = "failed"
    /\ mod[w] = None /\ Settled(w) => Ats(s) \subseteq {"resumed", "thrown"}
    /\ capture[w] # None => Has(s, "call") \/ Has(s, "returned")
\* #callEmscriptenMain never has to wait.
ThensOK(w) ==
    /\ \A i \in DOMAIN ready[w] : ready[w][i].at = "resumed" => ready[w][i].then = "args"
    /\ \A i \in DOMAIN waiting[w] : waiting[w][i].then = "args"
JsonOK(w) == LineOK(ready[w], msgQueue[w]) /\ LineModuleOK(w) /\ ThensOK(w)

DomainsOK ==
    /\ DOMAIN inbox = WorkerTypes /\ DOMAIN msgQueue = WorkerTypes
    /\ DOMAIN ready = WorkerTypes /\ DOMAIN waiting = WorkerTypes
    /\ DOMAIN fetching = WorkerTypes /\ DOMAIN promise = WorkerTypes
    /\ DOMAIN mod = WorkerTypes /\ DOMAIN editor = WorkerTypes
    /\ DOMAIN capture = WorkerTypes /\ DOMAIN outbox = WorkerTypes

WorkerOK(w) ==
    /\ WorkerTypesOK(w)
    /\ ModuleOK(w) /\ ResumedOK(w) /\ QueueOK(w) /\ InsideOK(w)
    /\ w = "json2cpp2" => JsonOK(w)
WorkersOK == \A w \in WorkerTypes : WorkerOK(w)
-----------------------------------------------------------------------------
(* Lists of turns.                                                         *)

\* The list after the turn at its head has run, with and without a turn of its
\* job to follow.
Rest(s) == IF s = <<>> THEN s ELSE Tail(s)
Moved(s, r, t) == r = Append(Rest(s), t)
Dropped(s, r) == r = Rest(s)

(* What is left of a list, position by position.                           *)
LEMMA RestAt ==
  ASSUME NEW S, NEW s \in Seq(S)
  PROVE  /\ Rest(s) \in Seq(S) /\ Len(Rest(s)) \in Nat
         /\ DOMAIN Rest(s) = 1..Len(Rest(s))
         /\ \A j \in DOMAIN Rest(s) : j \in Nat /\ 1 < j + 1
              /\ j + 1 \in DOMAIN s /\ Rest(s)[j] = s[j + 1]
         /\ \A k \in DOMAIN s : k # 1 =>
              k - 1 \in DOMAIN Rest(s) /\ Rest(s)[k - 1] = s[k]
         /\ \A k \in DOMAIN s : k \in Nat /\ 1 <= k
         /\ s # <<>> => Head(s) = s[1] /\ Head(s) \in S /\ 1 \in DOMAIN s
  <1>1. CASE s = <<>>
    BY <1>1 DEF Rest
  <1>2. CASE s # <<>>
    <2>1. Len(s) \in Nat /\ Len(s) > 0 /\ DOMAIN s = 1..Len(s)
      BY <1>2, EmptySeq, LenProperties
    <2>2. /\ Tail(s) \in Seq(S) /\ Len(Tail(s)) = Len(s) - 1 /\ Head(s) \in S
          /\ \A j \in 1..Len(Tail(s)) : Tail(s)[j] = s[j + 1]
      BY <1>2, HeadTailProperties
    <2>3. Rest(s) = Tail(s) /\ DOMAIN Tail(s) = 1..Len(Tail(s)) /\ Len(Tail(s)) \in Nat
      BY <1>2, <2>2, LenProperties DEF Rest
    <2>4. Head(s) = s[1]
      OBVIOUS
    <2> QED BY <2>1, <2>2, <2>3, <2>4
  <1> QED BY <1>1, <1>2

LEMMA MovedAt ==
  ASSUME NEW S, NEW s \in Seq(S), NEW t \in S, NEW r, Moved(s, r, t)
  PROVE  /\ r \in Seq(S) /\ r # <<>> /\ Len(r) \in DOMAIN r /\ r[Len(r)] = t
         /\ \A j \in DOMAIN r : j \in Nat
              /\ \/ j = Len(r)
                 \/ j < Len(r) /\ 1 < j + 1 /\ j + 1 \in DOMAIN s /\ r[j] = s[j + 1]
         /\ \A k \in DOMAIN s : k # 1 =>
              k - 1 \in DOMAIN r /\ r[k - 1] = s[k] /\ k - 1 < Len(r)
         /\ \A k \in DOMAIN s : k \in Nat /\ 1 <= k
         /\ s # <<>> => Head(s) = s[1] /\ Head(s) \in S /\ 1 \in DOMAIN s
  <1> DEFINE q == Rest(s)
  <1>1. /\ q \in Seq(S) /\ Len(q) \in Nat /\ DOMAIN q = 1..Len(q)
        /\ \A j \in DOMAIN q : j \in Nat /\ 1 < j + 1 /\ j + 1 \in DOMAIN s /\ q[j] = s[j + 1]
        /\ \A k \in DOMAIN s : k # 1 => k - 1 \in DOMAIN q /\ q[k - 1] = s[k]
        /\ \A k \in DOMAIN s : k \in Nat /\ 1 <= k
        /\ s # <<>> => Head(s) = s[1] /\ Head(s) \in S /\ 1 \in DOMAIN s
    BY RestAt
  <1>2. r = Append(q, t)
    BY DEF Moved
  <1> HIDE DEF q
  <1>3. /\ r \in Seq(S) /\ Len(r) = Len(q) + 1 /\ r[Len(q) + 1] = t
        /\ \A j \in 1..Len(q) : r[j] = q[j]
    BY <1>1, <1>2, AppendProperties
  <1>4. DOMAIN r = 1..Len(r)
    BY <1>3, LenProperties
  <1>5. r # <<>>
    <2>1. Len(q) \in Nat /\ Len(r) = Len(q) + 1
      BY <1>1, <1>3, LenProperties
    <2>2. Len(r) # 0
      BY <2>1
    <2>3. Len(<<>>) = 0
      OBVIOUS
    <2> QED BY <2>2, <2>3
  <1>6. Len(r) \in DOMAIN r /\ r[Len(r)] = t
    BY <1>1, <1>3, <1>4
  <1>7. ASSUME NEW j \in DOMAIN r
        PROVE  /\ j \in Nat
               /\ \/ j = Len(r)
                  \/ j < Len(r) /\ 1 < j + 1 /\ j + 1 \in DOMAIN s /\ r[j] = s[j + 1]
    <2>1. j \in 1..Len(q) + 1 /\ j \in Nat
      BY <1>1, <1>3, <1>4
    <2>2. CASE j = Len(q) + 1
      BY <1>3, <2>1, <2>2
    <2>3. CASE j # Len(q) + 1
      <3>1. j \in 1..Len(q) /\ j < Len(r)
        BY <1>1, <1>3, <2>1, <2>3
      <3> QED BY <1>1, <1>3, <2>1, <3>1
    <2> QED BY <2>2, <2>3
  <1>8. ASSUME NEW k \in DOMAIN s, k # 1
        PROVE  k - 1 \in DOMAIN r /\ r[k - 1] = s[k] /\ k - 1 < Len(r)
    <2>1. k - 1 \in 1..Len(q) /\ q[k - 1] = s[k]
      BY <1>1, <1>8
    <2> QED BY <1>1, <1>3, <1>4, <2>1
  <1> QED BY <1>1, <1>3, <1>5, <1>6, <1>7, <1>8

LEMMA DroppedAt ==
  ASSUME NEW S, NEW s \in Seq(S), NEW r, Dropped(s, r)
  PROVE  /\ r \in Seq(S)
         /\ \A j \in DOMAIN r : j \in Nat /\ 1 < j + 1 /\ j + 1 \in DOMAIN s /\ r[j] = s[j + 1]
         /\ \A k \in DOMAIN s : k # 1 => k - 1 \in DOMAIN r /\ r[k - 1] = s[k]
         /\ \A k \in DOMAIN s : k \in Nat /\ 1 <= k
         /\ s # <<>> => Head(s) = s[1] /\ Head(s) \in S /\ 1 \in DOMAIN s
  BY RestAt DEF Dropped

(* The loops that come back, counted.                                      *)
LEMMA Shifted ==
  ASSUME NEW A, IsFiniteSet(A), A \subseteq Nat
  PROVE  /\ IsFiniteSet({i - 1 : i \in A})
         /\ Cardinality({i - 1 : i \in A}) = Cardinality(A)
  <1> DEFINE B == {i - 1 : i \in A}
             f == [i \in A |-> i - 1]
  <1>1. f \in Bijection(A, B)
    <2>1. f \in [A -> B]
      OBVIOUS
    <2>2. \A b \in B : \E a \in A : f[a] = b
      OBVIOUS
    <2>3. \A a, b \in A : f[a] = f[b] => a = b
      OBVIOUS
    <2> HIDE DEF B, f
    <2>4. f \in Injection(A, B)
      BY <2>1, <2>3 DEF Injection, IsInjective
    <2>5. f \in Surjection(A, B)
      BY <2>1, <2>2 DEF Surjection
    <2> QED BY <2>4, <2>5 DEF Bijection
  <1>2. ExistsBijection(A, B)
    BY <1>1 DEF ExistsBijection
  <1> QED BY <1>2, FS_Bijection

LEMMA NextsFinite ==
  ASSUME NEW S, NEW s \in Seq(S)
  PROVE  /\ IsFiniteSet(Nexts(s)) /\ Cardinality(Nexts(s)) \in Nat
         /\ Nexts(s) = {} => Cardinality(Nexts(s)) = 0
  <1>1. Len(s) \in Nat /\ DOMAIN s = 1..Len(s)
    BY LenProperties
  <1>2. IsFiniteSet(DOMAIN s)
    BY <1>1, FS_Interval
  <1>3. Nexts(s) \subseteq DOMAIN s
    BY DEF Nexts
  <1> QED BY <1>2, <1>3, FS_Subset, FS_CardinalityType, FS_EmptySet

LEMMA NextsDropped ==
  ASSUME NEW S, NEW s \in Seq(S), NEW r, Dropped(s, r)
  PROVE  /\ s # <<>> /\ Head(s).at = "next" =>
              Cardinality(Nexts(r)) = Cardinality(Nexts(s)) - 1
         /\ ~(s # <<>> /\ Head(s).at = "next") =>
              Cardinality(Nexts(r)) = Cardinality(Nexts(s))
  <1> DEFINE A == Nexts(s) \ {1}
  <1>1. /\ r \in Seq(S)
        /\ \A j \in DOMAIN r : j \in Nat /\ 1 < j + 1 /\ j + 1 \in DOMAIN s /\ r[j] = s[j + 1]
        /\ \A k \in DOMAIN s : k # 1 => k - 1 \in DOMAIN r /\ r[k - 1] = s[k]
        /\ \A k \in DOMAIN s : k \in Nat /\ 1 <= k
        /\ s # <<>> => Head(s) = s[1] /\ Head(s) \in S /\ 1 \in DOMAIN s
    BY DroppedAt
  <1>2. IsFiniteSet(Nexts(s)) /\ Cardinality(Nexts(s)) \in Nat
    BY NextsFinite
  <1>3. IsFiniteSet(A) /\ A \subseteq Nat
    BY <1>1, <1>2, FS_Subset DEF Nexts
  <1>4. Nexts(r) = {i - 1 : i \in A}
    <2>1. \A i \in A : i - 1 \in Nexts(r)
      BY <1>1 DEF Nexts
    <2>2. \A j \in Nexts(r) : j + 1 \in A /\ j = (j + 1) - 1
      BY <1>1 DEF Nexts
    <2> QED BY <2>1, <2>2
  <1>5. Cardinality(Nexts(r)) = Cardinality(A)
    BY <1>3, <1>4, Shifted
  <1>6. CASE s # <<>> /\ Head(s).at = "next"
    <2>1. 1 \in Nexts(s)
      BY <1>1, <1>6 DEF Nexts
    <2>2. Cardinality(A) = Cardinality(Nexts(s)) - 1
      BY <1>2, <2>1, FS_RemoveElement
    <2> QED BY <1>5, <1>6, <2>2
  <1>7. CASE ~(s # <<>> /\ Head(s).at = "next")
    <2>1. 1 \notin Nexts(s)
      <3>1. CASE s = <<>>
        BY <3>1 DEF Nexts
      <3>2. CASE s # <<>>
        BY <1>1, <1>7, <3>2 DEF Nexts
      <3> QED BY <3>1, <3>2
    <2>2. A = Nexts(s)
      BY <2>1
    <2> QED BY <1>5, <1>7, <2>2
  <1> QED BY <1>6, <1>7

LEMMA NextsMoved ==
  ASSUME NEW S, NEW s \in Seq(S), NEW t \in S, NEW r, Moved(s, r, t)
  PROVE  \E n \in Nat :
         /\ s # <<>> /\ Head(s).at = "next" => n = Cardinality(Nexts(s)) - 1
         /\ ~(s # <<>> /\ Head(s).at = "next") => n = Cardinality(Nexts(s))
         /\ t.at = "next" => Cardinality(Nexts(r)) = n + 1
         /\ t.at # "next" => Cardinality(Nexts(r)) = n
  <1> DEFINE q == Rest(s)
  <1>1. q \in Seq(S) /\ r = Append(q, t) /\ Dropped(s, q)
    BY RestAt DEF Dropped, Moved
  <1> HIDE DEF q
  <1>2. /\ s # <<>> /\ Head(s).at = "next" =>
              Cardinality(Nexts(q)) = Cardinality(Nexts(s)) - 1
        /\ ~(s # <<>> /\ Head(s).at = "next") =>
              Cardinality(Nexts(q)) = Cardinality(Nexts(s))
    BY <1>1, NextsDropped
  <1>3. /\ IsFiniteSet(Nexts(q)) /\ Cardinality(Nexts(q)) \in Nat
    BY <1>1, NextsFinite
  <1>4. /\ DOMAIN q = 1..Len(q) /\ Len(q) \in Nat
        /\ DOMAIN r = 1..(Len(q) + 1) /\ r[Len(q) + 1] = t
        /\ \A j \in 1..Len(q) : r[j] = q[j]
    BY <1>1, AppendProperties, LenProperties
  <1>5. CASE t.at = "next"
    <2>1. Nexts(r) = Nexts(q) \cup {Len(q) + 1} /\ Len(q) + 1 \notin Nexts(q)
      BY <1>4, <1>5 DEF Nexts
    <2>2. Cardinality(Nexts(r)) = Cardinality(Nexts(q)) + 1
      BY <1>3, <2>1, FS_AddElement
    <2> QED BY <1>2, <1>3, <1>5, <2>2
  <1>6. CASE t.at # "next"
    <2>1. Nexts(r) = Nexts(q)
      BY <1>4, <1>6 DEF Nexts
    <2> QED BY <1>2, <1>3, <1>6, <2>1
  <1> QED BY <1>5, <1>6

(* Who was added is of the elements' set.                                  *)
LEMMA MovedIn ==
  ASSUME NEW S, NEW s \in Seq(S), NEW r \in Seq(S), NEW t, Moved(s, r, t)
  PROVE  t \in S
  <1> DEFINE q == Rest(s)
  <1>1. r = Append(q, t) /\ q \in Seq(S) /\ Len(q) \in Nat
    BY RestAt DEF Moved
  <1> HIDE DEF q
  <1>2. Append(q, t)[Len(q) + 1] = t /\ Len(q) + 1 \in DOMAIN Append(q, t)
    BY <1>1
  <1>3. \A k \in DOMAIN r : r[k] \in S
    BY ElementOfSeq, LenProperties
  <1> QED BY <1>1, <1>2, <1>3
-----------------------------------------------------------------------------
(* What a step of a worker is, to the worker and to the others.            *)

\* The state of worker v stays as it is.
Stays(v) ==
    /\ inbox'[v] = inbox[v] /\ msgQueue'[v] = msgQueue[v] /\ ready'[v] = ready[v]
    /\ waiting'[v] = waiting[v] /\ fetching'[v] = fetching[v] /\ promise'[v] = promise[v]
    /\ mod'[v] = mod[v] /\ editor'[v] = editor[v] /\ capture'[v] = capture[v]
    /\ outbox'[v] = outbox[v]

\* #waitForPromise in the turn of w: the job goes on, or waits, or goes on with
\* what the load has brought.
Waits(w, job, then) ==
    \/ /\ mod[w] # None
       /\ Moved(ready[w], ready'[w], At(job, then)) /\ waiting'[w] = waiting[w]
    \/ /\ mod[w] = None /\ promise[w].state = "loading"
       /\ Dropped(ready[w], ready'[w])
       /\ waiting'[w] = Append(waiting[w], Awaiting(job, then))
    \/ /\ mod[w] = None /\ promise[w].state # "loading"
       /\ Moved(ready[w], ready'[w], Resumed(Awaiting(job, then), promise[w].id))
       /\ waiting'[w] = waiting[w]

\* The head of the loop, when the requests in `queue` are there to take.
Loops(w, queue) ==
    \/ /\ queue = <<>> /\ msgQueue'[w] = queue
       /\ Dropped(ready[w], ready'[w]) /\ waiting'[w] = waiting[w]
    \/ /\ queue # <<>> /\ msgQueue'[w] = Tail(queue)
       /\ Waits(w, Head(queue), "args")

KeepsModule(w) == promise'[w] = promise[w] /\ mod'[w] = mod[w] /\ editor'[w] = editor[w]

LEMMA WaitIs ==
  ASSUME DomainsOK, NEW w \in WorkerTypes, NEW turns, NEW job, NEW then,
         turns = Rest(ready[w]), WaitForPromise(w, turns, job, then)
  PROVE  /\ Waits(w, job, then)
         /\ DOMAIN ready' = WorkerTypes /\ DOMAIN waiting' = WorkerTypes
         /\ \A v \in WorkerTypes \ {w} : ready'[v] = ready[v] /\ waiting'[v] = waiting[v]
  BY DEF WaitForPromise, Waits, DomainsOK, Moved, Dropped

LEMMA LoopIs ==
  ASSUME DomainsOK, NEW w \in WorkerTypes, NEW turns, NEW queue,
         turns = Rest(ready[w]), Loop(w, queue, turns)
  PROVE  /\ Loops(w, queue)
         /\ DOMAIN ready' = WorkerTypes /\ DOMAIN waiting' = WorkerTypes
         /\ DOMAIN msgQueue' = WorkerTypes
         /\ \A v \in WorkerTypes \ {w} :
              ready'[v] = ready[v] /\ waiting'[v] = waiting[v] /\ msgQueue'[v] = msgQueue[v]
  <1>1. CASE queue = <<>>
    BY <1>1 DEF Loop, Loops, DomainsOK, Dropped
  <1>2. CASE queue # <<>>
    <2>1. msgQueue' = [msgQueue EXCEPT ![w] = Tail(queue)]
          /\ WaitForPromise(w, turns, Head(queue), "args")
      BY <1>2 DEF Loop
    <2>2. /\ Waits(w, Head(queue), "args")
          /\ DOMAIN ready' = WorkerTypes /\ DOMAIN waiting' = WorkerTypes
          /\ \A v \in WorkerTypes \ {w} : ready'[v] = ready[v] /\ waiting'[v] = waiting[v]
      BY <2>1, WaitIs
    <2> QED BY <1>2, <2>1, <2>2 DEF Loops, DomainsOK
  <1> QED BY <1>1, <1>2

\* What each action does to its worker.  `Runs` is a turn of a job at one of
\* the places `from` that is followed by turn t of the same job.
Runs(w, from, t) ==
    /\ ready[w] # <<>> /\ Turn(w).at \in from /\ t.job = Turn(w).job
    /\ Moved(ready[w], ready'[w], t)
    /\ inbox'[w] = inbox[w] /\ waiting'[w] = waiting[w]
KeepsQueues(w) == msgQueue'[w] = msgQueue[w] /\ outbox'[w] = outbox[w]
KeepsRest(w) == KeepsModule(w) /\ fetching'[w] = fetching[w] /\ capture'[w] = capture[w]

OnMessageDoes(w) ==
    /\ ready[w] = <<>> /\ inbox[w] # <<>> /\ inbox'[w] = Tail(inbox[w])
    /\ Loops(w, Append(msgQueue[w], Head(inbox[w])))
    /\ outbox'[w] = outbox[w] /\ KeepsRest(w)

LoadEndsDoes(w) ==
    /\ ready[w] = <<>> /\ promise[w].state = "loading"
    /\ \E s \in {"loaded", "failed"} : promise'[w] = [promise[w] EXCEPT !.state = s]
    /\ ready'[w] = [i \in DOMAIN waiting[w] |-> Resumed(waiting[w][i], promise[w].id)]
    /\ waiting'[w] = <<>>
    /\ inbox'[w] = inbox[w] /\ KeepsQueues(w)
    /\ fetching'[w] = fetching[w] /\ capture'[w] = capture[w]
    /\ mod'[w] = mod[w] /\ editor'[w] = editor[w]

Fails(w) == Turn(w).of = promise[w].id /\ promise[w].state = "failed"
StoreModuleDoes(w) ==
    /\ \E a \in {"thrown", "load failed", Turn(w).then} :
         /\ Runs(w, {"resumed"}, At(Turn(w).job, a))
         /\ ~Fails(w) => a = Turn(w).then
         /\ Fails(w) => a = IF Turn(w).then = "args" THEN "thrown" ELSE "load failed"
    /\ mod'[w] = IF Fails(w) THEN mod[w] ELSE Turn(w).of
    /\ promise'[w] = promise[w] /\ editor'[w] = editor[w]
    /\ fetching'[w] = fetching[w] /\ capture'[w] = capture[w] /\ KeepsQueues(w)

MakeArgsDoes(w) ==
    /\ \/ /\ Turn(w).job.form = "import"
          /\ ready[w] # <<>> /\ Turn(w).at = "args"
          /\ Dropped(ready[w], ready'[w]) /\ waiting'[w] = waiting[w]
          /\ inbox'[w] = inbox[w]
          /\ fetching'[w] = fetching[w] \cup {Fetching(Turn(w).job, mod[w])}
       \/ /\ Turn(w).job.form # "import"
          /\ \E a \in {"exec", "no module", "args made"} :
               /\ Runs(w, {"args"}, At(Turn(w).job, a))
               /\ Turn(w).job.form \in {"json", "tokens"} => a = "exec"
          /\ fetching'[w] = fetching[w]
    /\ editor'[w] = IF w = "json2cpp2" THEN Turn(w).job.of ELSE editor[w]
    /\ promise'[w] = promise[w] /\ mod'[w] = mod[w] /\ capture'[w] = capture[w]
    /\ KeepsQueues(w)

FetchEndsDoes(w) ==
    /\ ready[w] = <<>>
    /\ \E f \in fetching[w], a \in {"args made", "thrown"} :
         /\ fetching'[w] = fetching[w] \ {f}
         /\ Moved(ready[w], ready'[w], At(f.job, a))
    /\ inbox'[w] = inbox[w] /\ waiting'[w] = waiting[w] /\ KeepsQueues(w)
    /\ KeepsModule(w) /\ capture'[w] = capture[w]

\* A step from turn to turn that changes nothing else.
ArgsMadeDoes(w) ==
    /\ \E a \in {"thrown", "exec"} :
         Runs(w, {"args made", "no module"}, At(Turn(w).job, a))
    /\ KeepsQueues(w) /\ KeepsRest(w)

RepostDoes(w) ==
    /\ Runs(w, {"exec"}, At(Turn(w).job, "next")) /\ capture[w] # None
    /\ msgQueue'[w] = Append(msgQueue[w], Turn(w).job) /\ outbox'[w] = outbox[w]
    /\ KeepsRest(w)

ExecDoes(w) ==
    /\ ready[w] # <<>> /\ Turn(w).at = "exec" /\ capture[w] = None
    /\ capture'[w] = Turn(w).job.trace
    /\ Waits(w, Turn(w).job, "call")
    /\ inbox'[w] = inbox[w] /\ KeepsQueues(w) /\ KeepsModule(w)
    /\ fetching'[w] = fetching[w]

\* CannotEncode, and the ways an exception takes out of #exec.
ThrowsDoes(w) ==
    /\ \/ /\ Turn(w).job.form = "malformed"
          /\ Runs(w, {"call"}, At(Turn(w).job, "throws"))
       \/ Runs(w, {"throws"}, At(Turn(w).job, "thrown"))
       \/ Runs(w, {"load failed"}, At(Turn(w).job, "throws"))
    /\ KeepsQueues(w) /\ KeepsRest(w)

Compiles(w) ==
    \E u \in BOOLEAN :
        LET of == IF u THEN Input(w) ELSE None
        IN /\ Runs(w, {"call"}, Returned(Turn(w).job, JobResult(Turn(w).job, of, u)))
           /\ u => Input(w) # None

CallMainDoes(w) == Compiles(w) /\ KeepsQueues(w) /\ KeepsRest(w)

TrapDoes(w) ==
    /\ Compiles(w)
    /\ promise'[w] = [id |-> promise[w].id + 1, state |-> "loading"]
    /\ mod'[w] = None /\ editor'[w] = None
    /\ fetching'[w] = fetching[w] /\ capture'[w] = capture[w] /\ KeepsQueues(w)

PostResultDoes(w) ==
    /\ Runs(w, {"returned"}, At(Turn(w).job, "next"))
    /\ outbox'[w] = Append(outbox[w], Turn(w).result) /\ msgQueue'[w] = msgQueue[w]
    /\ capture'[w] = None
    /\ fetching'[w] = fetching[w] /\ KeepsModule(w)

\* Catch and NextRequest.
GoesOnDoes(w) ==
    /\ ready[w] # <<>>
    /\ \/ Turn(w).at = "thrown" /\ outbox'[w] = Append(outbox[w], Failure(Turn(w).job))
       \/ Turn(w).at = "next" /\ outbox'[w] = outbox[w]
    /\ Loops(w, msgQueue[w])
    /\ inbox'[w] = inbox[w] /\ KeepsRest(w)

WorkDoes(w) ==
    \/ OnMessageDoes(w) \/ LoadEndsDoes(w) \/ StoreModuleDoes(w) \/ MakeArgsDoes(w)
    \/ FetchEndsDoes(w) \/ ArgsMadeDoes(w) \/ RepostDoes(w) \/ ExecDoes(w)
    \/ ThrowsDoes(w) \/ CallMainDoes(w) \/ TrapDoes(w) \/ PostResultDoes(w) \/ GoesOnDoes(w)

OthersStay(w) == DomainsOK' /\ \A v \in WorkerTypes \ {w} : Stays(v)

(* A step of a worker touches only what is its own.                        *)
LEMMA OneWorker ==
  ASSUME DomainsOK, NEW w \in WorkerTypes, Work(w)
  PROVE  OthersStay(w) /\ WorkDoes(w)
  <1>0. ready[w] # <<>> => Others(w) = Rest(ready[w])
    BY DEF Others, Rest
  <1>1. CASE OnMessage(w)
    <2>1. Loop(w, Append(msgQueue[w], Head(inbox[w])), <<>>) /\ <<>> = Rest(ready[w])
      BY <1>1 DEF OnMessage, Rest
    <2>2. /\ Loops(w, Append(msgQueue[w], Head(inbox[w])))
          /\ DOMAIN ready' = WorkerTypes /\ DOMAIN waiting' = WorkerTypes
          /\ DOMAIN msgQueue' = WorkerTypes
          /\ \A v \in WorkerTypes \ {w} :
               ready'[v] = ready[v] /\ waiting'[v] = waiting[v] /\ msgQueue'[v] = msgQueue[v]
      BY <2>1, LoopIs
    <2>3. OnMessageDoes(w)
      BY <1>1, <2>2 DEF OnMessage, OnMessageDoes, DomainsOK, KeepsRest, KeepsModule, moduleVars
    <2>4. OthersStay(w)
      BY <1>1, <2>2 DEF OnMessage, DomainsOK, OthersStay, Stays, moduleVars
    <2> QED BY <2>3, <2>4 DEF WorkDoes
  <1>2. CASE LoadEnds(w)
    <2>1. PICK s \in {"loaded", "failed"} : promise' = [promise EXCEPT ![w].state = s]
      BY <1>2 DEF LoadEnds
    <2>2. promise'[w] = [promise[w] EXCEPT !.state = s]
      BY <2>1 DEF DomainsOK
    <2>3. LoadEndsDoes(w)
      BY <1>2, <2>2 DEF LoadEnds, LoadEndsDoes, DomainsOK, KeepsQueues, queueVars
    <2>4. OthersStay(w)
      BY <1>2, <2>1 DEF LoadEnds, DomainsOK, OthersStay, Stays, queueVars
    <2> QED BY <2>3, <2>4 DEF WorkDoes
  <1>3. CASE StoreModule(w)
    <2> DEFINE a == IF ~Fails(w) THEN Turn(w).then
                    ELSE IF Turn(w).then = "args" THEN "thrown" ELSE "load failed"
    <2>1. /\ ready[w] # <<>> /\ Turn(w).at = "resumed"
          /\ ready' = [ready EXCEPT ![w] = Append(Others(w), At(Turn(w).job, a))]
          /\ mod' = IF Fails(w) THEN mod ELSE [mod EXCEPT ![w] = Turn(w).of]
          /\ UNCHANGED <<queueVars, waiting, fetching, promise, editor, capture, cancelled>>
      BY <1>3 DEF StoreModule, Fails
    <2>2. /\ a \in {"thrown", "load failed", Turn(w).then}
          /\ ~Fails(w) => a = Turn(w).then
          /\ Fails(w) => a = IF Turn(w).then = "args" THEN "thrown" ELSE "load failed"
      <3>1. CASE ~Fails(w)
        BY <3>1
      <3>2. CASE Fails(w) /\ Turn(w).then = "args"
        BY <3>2
      <3>3. CASE Fails(w) /\ Turn(w).then # "args"
        BY <3>3
      <3> QED BY <3>1, <3>2, <3>3
    <2> HIDE DEF a
    <2>3. Runs(w, {"resumed"}, At(Turn(w).job, a))
      BY <1>0, <2>1 DEF Runs, DomainsOK, Moved, At, queueVars
    <2>4. StoreModuleDoes(w)
      BY <2>1, <2>2, <2>3 DEF StoreModuleDoes, DomainsOK, KeepsQueues, queueVars
    <2>5. OthersStay(w)
      BY <2>1 DEF DomainsOK, OthersStay, Stays, queueVars
    <2> QED BY <2>4, <2>5 DEF WorkDoes
  <1>4. CASE MakeArgs(w)
    <2> DEFINE job == Turn(w).job
               a == CASE job.form \in {"json", "tokens"} -> "exec"
                      [] OTHER -> IF mod[w] = None THEN "no module" ELSE "args made"
    <2>1. /\ ready[w] # <<>> /\ Turn(w).at = "args"
          /\ editor' = IF w = "json2cpp2" THEN [editor EXCEPT ![w] = job.of] ELSE editor
          /\ UNCHANGED <<queueVars, waiting, promise, mod, capture, cancelled>>
      BY <1>4 DEF MakeArgs
    <2>2. editor'[w] = (IF w = "json2cpp2" THEN job.of ELSE editor[w])
          /\ DOMAIN editor' = WorkerTypes
          /\ \A v \in WorkerTypes \ {w} : editor'[v] = editor[v]
      BY <2>1 DEF DomainsOK
    <2>3. CASE job.form = "import"
      <3>1. /\ fetching' = [fetching EXCEPT ![w] = @ \cup {Fetching(job, mod[w])}]
            /\ ready' = [ready EXCEPT ![w] = Others(w)]
        BY <1>4, <2>3 DEF MakeArgs
      <3>2. MakeArgsDoes(w)
        BY <1>0, <2>1, <2>2, <2>3, <3>1
           DEF MakeArgsDoes, DomainsOK, Dropped, KeepsQueues, queueVars
      <3>3. OthersStay(w)
        BY <2>1, <2>2, <3>1 DEF DomainsOK, OthersStay, Stays, queueVars
      <3> QED BY <3>2, <3>3 DEF WorkDoes
    <2>4. CASE job.form # "import"
      <3>1. /\ fetching' = fetching
            /\ ready' = [ready EXCEPT ![w] = Append(Others(w), At(job, a))]
        BY <1>4, <2>4 DEF MakeArgs
      <3>2. a \in {"exec", "no module", "args made"}
            /\ (job.form \in {"json", "tokens"} => a = "exec")
        OBVIOUS
      <3> HIDE DEF a
      <3>3. Runs(w, {"args"}, At(job, a))
        BY <1>0, <2>1, <3>1 DEF Runs, DomainsOK, Moved, At, queueVars
      <3>4. MakeArgsDoes(w)
        BY <2>1, <2>2, <2>4, <3>1, <3>2, <3>3
           DEF MakeArgsDoes, KeepsQueues, queueVars
      <3>5. OthersStay(w)
        BY <2>1, <2>2, <3>1 DEF DomainsOK, OthersStay, Stays, queueVars
      <3> QED BY <3>4, <3>5 DEF WorkDoes
    <2> QED BY <2>3, <2>4
  <1>5. CASE FetchEnds(w)
    <2>1. PICK f \in fetching[w] :
            /\ fetching' = [fetching EXCEPT ![w] = @ \ {f}]
            /\ \E next \in {"thrown"} \cup (IF f.for = None THEN {} ELSE {"args made"}) :
                 ready' = [ready EXCEPT ![w] = Append(@, At(f.job, next))]
      BY <1>5 DEF FetchEnds
    <2>2. PICK a \in {"args made", "thrown"} :
            ready' = [ready EXCEPT ![w] = Append(@, At(f.job, a))]
      <3>1. PICK next \in {"thrown"} \cup (IF f.for = None THEN {} ELSE {"args made"}) :
              ready' = [ready EXCEPT ![w] = Append(@, At(f.job, next))]
        BY <2>1
      <3>2. next \in {"args made", "thrown"}
        OBVIOUS
      <3> QED BY <3>1, <3>2
    <2>3. ready[w] = <<>> /\ UNCHANGED <<queueVars, waiting, moduleVars, capture, cancelled>>
      BY <1>5 DEF FetchEnds
    <2>4. Moved(ready[w], ready'[w], At(f.job, a))
      BY <2>2, <2>3 DEF Moved, DomainsOK, Rest
    <2>5. FetchEndsDoes(w)
      BY <2>1, <2>3, <2>4
         DEF FetchEndsDoes, DomainsOK, KeepsQueues, queueVars, KeepsModule, moduleVars
    <2>6. OthersStay(w)
      BY <2>1, <2>2, <2>3 DEF DomainsOK, OthersStay, Stays, queueVars, moduleVars
    <2> QED BY <2>5, <2>6 DEF WorkDoes
  <1>6. CASE ArgsMade(w)
    <2>1. PICK a \in {"thrown", "exec"} :
            ready' = [ready EXCEPT ![w] = Append(Others(w), At(Turn(w).job, a))]
      BY <1>6 DEF ArgsMade
    <2>2. Runs(w, {"args made", "no module"}, At(Turn(w).job, a))
      BY <1>0, <1>6, <2>1 DEF ArgsMade, Runs, DomainsOK, Moved, At, queueVars
    <2>3. ArgsMadeDoes(w)
      BY <1>6, <2>2 DEF ArgsMade, ArgsMadeDoes, KeepsQueues, queueVars, KeepsRest,
                        KeepsModule, moduleVars
    <2>4. OthersStay(w)
      BY <1>6 DEF ArgsMade, DomainsOK, OthersStay, Stays, queueVars, moduleVars
    <2> QED BY <2>3, <2>4 DEF WorkDoes
  <1>7. CASE Repost(w)
    <2>1. Runs(w, {"exec"}, At(Turn(w).job, "next"))
      BY <1>0, <1>7 DEF Repost, Runs, DomainsOK, Moved, At
    <2>2. RepostDoes(w)
      BY <1>7, <2>1 DEF Repost, RepostDoes, DomainsOK, KeepsRest, KeepsModule, moduleVars
    <2>3. OthersStay(w)
      BY <1>7 DEF Repost, DomainsOK, OthersStay, Stays, moduleVars
    <2> QED BY <2>2, <2>3 DEF WorkDoes
  <1>8. CASE Exec(w)
    <2>1. /\ Waits(w, Turn(w).job, "call")
          /\ DOMAIN ready' = WorkerTypes /\ DOMAIN waiting' = WorkerTypes
          /\ \A v \in WorkerTypes \ {w} : ready'[v] = ready[v] /\ waiting'[v] = waiting[v]
      <3>1. Others(w) = Rest(ready[w]) /\ WaitForPromise(w, Others(w), Turn(w).job, "call")
        BY <1>0, <1>8 DEF Exec
      <3> QED BY <3>1, WaitIs
    <2>2. ExecDoes(w)
      BY <1>8, <2>1 DEF Exec, ExecDoes, DomainsOK, KeepsQueues, queueVars, KeepsModule, moduleVars
    <2>3. OthersStay(w)
      BY <1>8, <2>1 DEF Exec, DomainsOK, OthersStay, Stays, queueVars, moduleVars
    <2> QED BY <2>2, <2>3 DEF WorkDoes
  <1>9. CASE CannotEncode(w)
    <2>1. Runs(w, {"call"}, At(Turn(w).job, "throws"))
      BY <1>0, <1>9 DEF CannotEncode, Runs, DomainsOK, Moved, At, queueVars
    <2>2. ThrowsDoes(w)
      BY <1>9, <2>1 DEF CannotEncode, ThrowsDoes, KeepsQueues, queueVars, KeepsRest,
                        KeepsModule, moduleVars
    <2>3. OthersStay(w)
      BY <1>9 DEF CannotEncode, DomainsOK, OthersStay, Stays, queueVars, moduleVars
    <2> QED BY <2>2, <2>3 DEF WorkDoes
  <1>10. CASE CallMain(w) \/ Trap(w)
    <2>1. PICK u \in BOOLEAN :
            /\ Returns(w, IF u THEN Input(w) ELSE None, u)
            /\ u => Input(w) # None
      BY <1>10 DEF CallMain, Trap
    <2> DEFINE t == Returned(Turn(w).job, JobResult(Turn(w).job, IF u THEN Input(w) ELSE None, u))
    <2>2. ready' = [ready EXCEPT ![w] = Append(Others(w), t)] /\ t.job = Turn(w).job
      BY <2>1 DEF Returns, Returned
    <2>3. /\ ready[w] # <<>> /\ Turn(w).at = "call"
          /\ UNCHANGED <<queueVars, waiting, fetching, capture, cancelled>>
      BY <1>10 DEF CallMain, Trap
    <2>4. Compiles(w)
      <3>1. Runs(w, {"call"}, t)
        <4> HIDE DEF t
        <4> QED BY <1>0, <2>2, <2>3 DEF Runs, DomainsOK, Moved, queueVars
      <3> QED BY <2>1, <3>1 DEF Compiles
    <2> HIDE DEF t
    <2>5. CASE CallMain(w)
      <3>1. CallMainDoes(w)
        BY <2>3, <2>4, <2>5 DEF CallMain, CallMainDoes, KeepsQueues, queueVars, KeepsRest,
                                KeepsModule, moduleVars
      <3>2. OthersStay(w)
        BY <2>2, <2>3, <2>5 DEF CallMain, DomainsOK, OthersStay, Stays, queueVars, moduleVars
      <3> QED BY <3>1, <3>2 DEF WorkDoes
    <2>6. CASE Trap(w)
      <3>1. TrapDoes(w)
        BY <2>3, <2>4, <2>6 DEF Trap, TrapDoes, DomainsOK, KeepsQueues, queueVars
      <3>2. OthersStay(w)
        BY <2>2, <2>3, <2>6 DEF Trap, DomainsOK, OthersStay, Stays, queueVars
      <3> QED BY <3>1, <3>2 DEF WorkDoes
    <2> QED BY <1>10, <2>5, <2>6
  <1>12. CASE PostResult(w)
    <2>1. Runs(w, {"returned"}, At(Turn(w).job, "next"))
      BY <1>0, <1>12 DEF PostResult, Runs, DomainsOK, Moved, At
    <2>2. PostResultDoes(w)
      BY <1>12, <2>1 DEF PostResult, Post, PostResultDoes, DomainsOK, KeepsModule, moduleVars
    <2>3. OthersStay(w)
      BY <1>12 DEF PostResult, Post, DomainsOK, OthersStay, Stays, moduleVars
    <2> QED BY <2>2, <2>3 DEF WorkDoes
  <1>13. CASE LeaveExec(w)
    <2>1. \/ Runs(w, {"throws"}, At(Turn(w).job, "thrown"))
          \/ Runs(w, {"load failed"}, At(Turn(w).job, "throws"))
      <3>1. /\ ready[w] # <<>>
            /\ \/ /\ Turn(w).at = "throws"
                  /\ ready' = [ready EXCEPT ![w] = Append(Others(w), At(Turn(w).job, "thrown"))]
               \/ /\ Turn(w).at = "load failed"
                  /\ ready' = [ready EXCEPT ![w] = Append(Others(w), At(Turn(w).job, "throws"))]
            /\ UNCHANGED <<queueVars, waiting, fetching, moduleVars, capture, cancelled>>
        BY <1>13 DEF LeaveExec
      <3> QED BY <1>0, <3>1 DEF Runs, DomainsOK, Moved, At, queueVars
    <2>2. ThrowsDoes(w)
      BY <1>13, <2>1 DEF LeaveExec, ThrowsDoes, KeepsQueues, queueVars, KeepsRest,
                         KeepsModule, moduleVars
    <2>3. OthersStay(w)
      BY <1>13 DEF LeaveExec, DomainsOK, OthersStay, Stays, queueVars, moduleVars
    <2> QED BY <2>2, <2>3 DEF WorkDoes
  <1>14. CASE Catch(w) \/ NextRequest(w)
    <2>1. /\ ready[w] # <<>> /\ Loop(w, msgQueue[w], Others(w))
          /\ Others(w) = Rest(ready[w])
      BY <1>0, <1>14 DEF Catch, NextRequest
    <2>2. /\ Loops(w, msgQueue[w])
          /\ DOMAIN ready' = WorkerTypes /\ DOMAIN waiting' = WorkerTypes
          /\ DOMAIN msgQueue' = WorkerTypes
          /\ \A v \in WorkerTypes \ {w} :
               ready'[v] = ready[v] /\ waiting'[v] = waiting[v] /\ msgQueue'[v] = msgQueue[v]
      BY <2>1, LoopIs
    <2>3. GoesOnDoes(w)
      BY <1>14, <2>1, <2>2 DEF Catch, NextRequest, Post, GoesOnDoes, DomainsOK, KeepsRest,
                               KeepsModule, moduleVars
    <2>4. OthersStay(w)
      BY <1>14, <2>2 DEF Catch, NextRequest, Post, DomainsOK, OthersStay, Stays, moduleVars
    <2> QED BY <2>3, <2>4 DEF WorkDoes
  <1> QED BY <1>1, <1>2, <1>3, <1>4, <1>5, <1>6, <1>7, <1>8, <1>9, <1>10, <1>12,
             <1>13, <1>14 DEF Work

-----------------------------------------------------------------------------
(* Types of a worker's state.                                              *)

LEMMA GenerationsAreNumbers == Generations \subseteq Nat \ {0}
  <1>1. MaxGenerations \in Nat
    BY PlaygroundAssumption, Zenon
  <1> QED BY <1>1 DEF Generations

(* What a turn is made of.                                                 *)
LEMMA TurnIs ==
  ASSUME NEW w \in WorkerTypes, NEW t \in Turns(w)
  PROVE  /\ t.job \in Jobs(w) /\ t.at \in Steps \cup {"returned", "resumed"}
         /\ t.at = "resumed" => t.then \in {"args", "call"} /\ t.of \in Nat
         /\ t.at = "returned" => t.result \in Results(w) /\ t.result.trace = t.job.trace
  BY DEF Turns, Steps

\* The turn of a job at one of the plain steps.
MadeAt(w, job, a) == At(job, a) \in Turns(w) /\ At(job, a).at = a /\ At(job, a).job = job

LEMMA AtMade ==
  ASSUME NEW w \in WorkerTypes, NEW job \in Jobs(w), NEW a \in Steps
  PROVE  MadeAt(w, job, a)
  BY DEF At, Turns, MadeAt

LEMMA TurnMade ==
  ASSUME NEW w \in WorkerTypes, NEW job \in Jobs(w)
  PROVE  /\ \A a \in Steps : At(job, a) \in Turns(w) /\ At(job, a).at = a /\ At(job, a).job = job
         /\ \A then \in {"args", "call"} : Awaiting(job, then) \in Awaits(w)
         /\ \A r \in Awaits(w), id \in Nat :
              /\ Resumed(r, id) \in Turns(w) /\ Resumed(r, id).at = "resumed"
              /\ Resumed(r, id).job = r.job
              /\ Resumed(r, id).then = r.then /\ Resumed(r, id).of = id
         /\ \A of \in Texts, u \in BOOLEAN :
              LET t == Returned(job, JobResult(job, of, u)) IN
              (u => of # None /\ (w = "src2json" => of = job.of))
                => t \in Turns(w) /\ t.at = "returned" /\ t.job = job
  <1>1. \A a \in Steps : At(job, a) \in Turns(w) /\ At(job, a).at = a /\ At(job, a).job = job
    BY DEF At, Turns
  <1>2. \A then \in {"args", "call"} : Awaiting(job, then) \in Awaits(w)
    BY DEF Awaiting, Awaits
  <1>3. ASSUME NEW r \in Awaits(w), NEW id \in Nat
        PROVE  /\ Resumed(r, id) \in Turns(w) /\ Resumed(r, id).at = "resumed"
               /\ Resumed(r, id).job = r.job
               /\ Resumed(r, id).then = r.then /\ Resumed(r, id).of = id
    BY DEF Resumed, Awaits, Turns
  <1>4. ASSUME NEW of \in Texts, NEW u \in BOOLEAN,
               u => of # None /\ (w = "src2json" => of = job.of)
        PROVE  LET t == Returned(job, JobResult(job, of, u)) IN
               t \in Turns(w) /\ t.at = "returned" /\ t.job = job
    <2> DEFINE res == JobResult(job, of, u)
    <2>1. res \in Results(w) /\ res.trace = job.trace
      BY <1>4 DEF JobResult, Results, Jobs
    <2> DEFINE t == Returned(job, res)
    <2> HIDE DEF res
    <2>2. t \in [job : Jobs(w), at : {"returned"}, result : Results(w)]
      BY <2>1 DEF Returned
    <2>3. t.result.trace = t.job.trace /\ t.at = "returned" /\ t.job = job
      BY <2>1 DEF Returned
    <2>4. t \in Turns(w)
      BY <2>2, <2>3 DEF Turns
    <2> QED BY <2>3, <2>4 DEF res
  <1> QED BY <1>1, <1>2, <1>3, <1>4

LEMMA WaitTypes ==
  ASSUME NEW w \in WorkerTypes, WorkerTypesOK(w), NEW job \in Jobs(w),
         NEW then \in {"args", "call"}, Waits(w, job, then)
  PROVE  ready'[w] \in Seq(Turns(w)) /\ waiting'[w] \in Seq(Awaits(w))
  <1>1. /\ ready[w] \in Seq(Turns(w)) /\ waiting[w] \in Seq(Awaits(w))
        /\ promise[w].id \in Nat
    BY DEF WorkerTypesOK, Promises
  <1>2. /\ At(job, then) \in Turns(w) /\ Awaiting(job, then) \in Awaits(w)
        /\ Resumed(Awaiting(job, then), promise[w].id) \in Turns(w)
    <2>1. then \in Steps
      BY DEF Steps
    <2>2. At(job, then) \in Turns(w) /\ Awaiting(job, then) \in Awaits(w)
      BY <2>1, TurnMade
    <2>3. \A r \in Awaits(w), id \in Nat : Resumed(r, id) \in Turns(w)
      BY TurnMade
    <2> QED BY <1>1, <2>2, <2>3
  <1>3. \A t \in Turns(w) : Moved(ready[w], ready'[w], t) => ready'[w] \in Seq(Turns(w))
    BY <1>1, MovedAt
  <1>4. Dropped(ready[w], ready'[w]) => ready'[w] \in Seq(Turns(w))
    BY <1>1, DroppedAt
  <1>5. Append(waiting[w], Awaiting(job, then)) \in Seq(Awaits(w))
    BY <1>1, <1>2, AppendProperties
  <1> QED BY <1>1, <1>2, <1>3, <1>4, <1>5 DEF Waits

LEMMA LoopTypes ==
  ASSUME NEW w \in WorkerTypes, WorkerTypesOK(w), NEW queue \in Seq(Jobs(w)), Loops(w, queue)
  PROVE  /\ ready'[w] \in Seq(Turns(w)) /\ waiting'[w] \in Seq(Awaits(w))
         /\ msgQueue'[w] \in Seq(Jobs(w))
  <1>1. CASE queue = <<>> /\ msgQueue'[w] = queue /\ Dropped(ready[w], ready'[w])
               /\ waiting'[w] = waiting[w]
    BY <1>1, DroppedAt DEF WorkerTypesOK
  <1>2. CASE queue # <<>> /\ msgQueue'[w] = Tail(queue) /\ Waits(w, Head(queue), "args")
    <2>1. Tail(queue) \in Seq(Jobs(w)) /\ Head(queue) \in Jobs(w)
      BY <1>2, HeadTailProperties
    <2> QED BY <1>2, <2>1, WaitTypes
  <1> QED BY <1>1, <1>2 DEF Loops

LEMMA RunTypes ==
  ASSUME NEW w \in WorkerTypes, WorkerTypesOK(w), NEW from, NEW t \in Turns(w), Runs(w, from, t)
  PROVE  /\ ready'[w] \in Seq(Turns(w)) /\ inbox'[w] = inbox[w] /\ waiting'[w] = waiting[w]
         /\ Turn(w) \in Turns(w) /\ Turn(w).job \in Jobs(w) /\ Turn(w).at \in from
  <1>1. ready'[w] \in Seq(Turns(w)) /\ Head(ready[w]) \in Turns(w)
    BY MovedAt DEF WorkerTypesOK, Runs
  <1> QED BY <1>1, TurnIs DEF Runs, Turn

(* The turn that runs.                                                     *)
LEMMA HeadTurn ==
  ASSUME NEW w \in WorkerTypes, WorkerTypesOK(w), ready[w] # <<>>
  PROVE  /\ Turn(w) = ready[w][1] /\ 1 \in DOMAIN ready[w] /\ Turn(w) \in Turns(w)
         /\ Turn(w).job \in Jobs(w) /\ Turn(w).at \in Steps \cup {"returned", "resumed"}
         /\ Turn(w).at = "resumed" => Turn(w).then \in {"args", "call"} /\ Turn(w).of \in Nat
         /\ Turn(w).at = "returned" => Turn(w).result \in Results(w)
         /\ Turn(w).job.trace \in Generations /\ Turn(w).job.of \in Generations
  <1>1. Turn(w) = ready[w][1] /\ 1 \in DOMAIN ready[w] /\ Turn(w) \in Turns(w)
    BY RestAt DEF WorkerTypesOK, Turn
  <1>2. Turn(w).job \in Jobs(w)
    BY <1>1, TurnIs
  <1> QED BY <1>1, <1>2, TurnIs DEF Jobs

LEMMA TypesKept ==
  ASSUME NEW w \in WorkerTypes, WorkerTypesOK(w), WorkDoes(w)
  PROVE  WorkerTypesOK(w)'
  <1>0. /\ inbox[w] \in Seq(Jobs(w)) /\ msgQueue[w] \in Seq(Jobs(w))
        /\ ready[w] \in Seq(Turns(w)) /\ waiting[w] \in Seq(Awaits(w))
        /\ fetching[w] \subseteq Fetches(w) /\ IsFiniteSet(fetching[w])
        /\ promise[w] \in Promises /\ mod[w] \in Nat
        /\ editor[w] \in Texts /\ capture[w] \in {None} \cup Generations
        /\ outbox[w] \in Seq(Results(w)) /\ None \in Texts /\ None \in Nat
    BY DEF WorkerTypesOK, Texts, None
  <1> USE <1>0
  <1>1. CASE OnMessageDoes(w)
    <2>1. Head(inbox[w]) \in Jobs(w) /\ Tail(inbox[w]) \in Seq(Jobs(w))
      BY <1>1, HeadTailProperties DEF OnMessageDoes
    <2>2. Append(msgQueue[w], Head(inbox[w])) \in Seq(Jobs(w))
      BY <2>1, AppendProperties
    <2>3. /\ ready'[w] \in Seq(Turns(w)) /\ waiting'[w] \in Seq(Awaits(w))
          /\ msgQueue'[w] \in Seq(Jobs(w))
      BY <1>1, <2>2, LoopTypes DEF OnMessageDoes
    <2> QED BY <1>1, <2>1, <2>3 DEF OnMessageDoes, WorkerTypesOK, KeepsRest, KeepsModule
  <1>2. CASE LoadEndsDoes(w)
    <2>1. waiting'[w] \in Seq(Awaits(w)) /\ promise'[w] \in Promises
      <3>1. waiting'[w] = <<>> /\ <<>> \in Seq(Awaits(w))
        BY <1>2 DEF LoadEndsDoes
      <3>2. promise'[w] \in Promises
        BY <1>2 DEF LoadEndsDoes, Promises
      <3> QED BY <3>1, <3>2
    <2>2. ready'[w] \in Seq(Turns(w))
      <3>1. promise[w].id \in Nat
        BY DEF Promises
      <3>2. DOMAIN waiting[w] = 1..Len(waiting[w]) /\ Len(waiting[w]) \in Nat
            /\ \A i \in DOMAIN waiting[w] : waiting[w][i] \in Awaits(w)
        BY LenProperties, ElementOfSeq
      <3>3. ASSUME NEW i \in DOMAIN waiting[w]
            PROVE  Resumed(waiting[w][i], promise[w].id) \in Turns(w)
        BY <3>1, <3>2 DEF Resumed, Awaits, Turns
      <3> QED BY <1>2, <3>2, <3>3, IsASeq DEF LoadEndsDoes
    <2> QED BY <1>2, <2>1, <2>2 DEF LoadEndsDoes, WorkerTypesOK, KeepsQueues
  <1>3. CASE StoreModuleDoes(w)
    <2>0. ready[w] # <<>> /\ Turn(w).at = "resumed"
      BY <1>3 DEF StoreModuleDoes, Runs
    <2>1. Turn(w).then \in {"args", "call"} /\ Turn(w).of \in Nat /\ Turn(w).job \in Jobs(w)
      BY <2>0, HeadTurn
    <2>2. PICK a \in Steps : Runs(w, {"resumed"}, At(Turn(w).job, a))
      BY <1>3, <2>1 DEF StoreModuleDoes, Steps
    <2>3. ready'[w] \in Seq(Turns(w)) /\ inbox'[w] = inbox[w] /\ waiting'[w] = waiting[w]
      BY <2>1, <2>2, TurnMade, RunTypes
    <2>4. mod'[w] \in Nat
      BY <1>3, <2>1 DEF StoreModuleDoes
    <2> QED BY <1>3, <2>3, <2>4 DEF StoreModuleDoes, WorkerTypesOK, KeepsQueues
  <1>4. CASE MakeArgsDoes(w)
    <2>0. ready[w] # <<>>
      BY <1>4 DEF MakeArgsDoes, Runs
    <2>1. Turn(w).job \in Jobs(w) /\ Turn(w).job.of \in Texts
      BY <2>0, HeadTurn DEF Texts
    <2>2. /\ ready'[w] \in Seq(Turns(w)) /\ inbox'[w] = inbox[w] /\ waiting'[w] = waiting[w]
          /\ fetching'[w] \subseteq Fetches(w) /\ IsFiniteSet(fetching'[w])
      <3>1. CASE Turn(w).job.form = "import"
        <4>1. Fetching(Turn(w).job, mod[w]) \in Fetches(w)
          BY <2>1, <3>1 DEF Fetching, Fetches
        <4>2. /\ Dropped(ready[w], ready'[w]) /\ waiting'[w] = waiting[w]
              /\ inbox'[w] = inbox[w]
              /\ fetching'[w] = fetching[w] \cup {Fetching(Turn(w).job, mod[w])}
          BY <1>4, <3>1 DEF MakeArgsDoes
        <4>3. IsFiniteSet(fetching[w] \cup {Fetching(Turn(w).job, mod[w])})
          BY <1>0, FS_AddElement, Zenon
        <4>4. ready'[w] \in Seq(Turns(w))
          BY <4>2, DroppedAt
        <4> QED BY <4>1, <4>2, <4>3, <4>4
      <3>2. CASE Turn(w).job.form # "import"
        <4>1. PICK a \in Steps : Runs(w, {"args"}, At(Turn(w).job, a))
          BY <1>4, <3>2 DEF MakeArgsDoes, Steps
        <4>2. ready'[w] \in Seq(Turns(w)) /\ inbox'[w] = inbox[w] /\ waiting'[w] = waiting[w]
          BY <2>1, <4>1, TurnMade, RunTypes
        <4> QED BY <1>4, <3>2, <4>2 DEF MakeArgsDoes
      <3> QED BY <3>1, <3>2
    <2>3. editor'[w] \in Texts
      BY <1>4, <2>1 DEF MakeArgsDoes
    <2> QED BY <1>4, <2>2, <2>3 DEF MakeArgsDoes, WorkerTypesOK, KeepsQueues
  <1>5. CASE FetchEndsDoes(w)
    <2>1. PICK f \in fetching[w] : \E a \in {"args made", "thrown"} :
            fetching'[w] = fetching[w] \ {f} /\ Moved(ready[w], ready'[w], At(f.job, a))
      BY <1>5 DEF FetchEndsDoes
    <2>2. PICK a \in Steps : Moved(ready[w], ready'[w], At(f.job, a))
      BY <2>1 DEF Steps
    <2>3. f.job \in Jobs(w)
      BY DEF Fetches
    <2>4. At(f.job, a) \in Turns(w)
      BY <2>3, TurnMade
    <2>5. ready'[w] \in Seq(Turns(w))
      BY <2>2, <2>4, MovedAt
    <2>6. fetching'[w] \subseteq Fetches(w) /\ IsFiniteSet(fetching'[w])
      BY <2>1, FS_RemoveElement
    <2> QED BY <1>5, <2>5, <2>6 DEF FetchEndsDoes, WorkerTypesOK, KeepsQueues, KeepsModule
  <1>6. CASE ArgsMadeDoes(w)
    <2>0. ready[w] # <<>>
      BY <1>6 DEF ArgsMadeDoes, Runs
    <2>1. PICK a \in Steps : Runs(w, {"args made", "no module"}, At(Turn(w).job, a))
      BY <1>6 DEF ArgsMadeDoes, Steps
    <2>2. ready'[w] \in Seq(Turns(w)) /\ inbox'[w] = inbox[w] /\ waiting'[w] = waiting[w]
      BY <2>0, <2>1, HeadTurn, TurnMade, RunTypes
    <2> QED BY <1>6, <2>2 DEF ArgsMadeDoes, WorkerTypesOK, KeepsQueues, KeepsRest, KeepsModule
  <1>7. CASE RepostDoes(w)
    <2>0. Runs(w, {"exec"}, At(Turn(w).job, "next")) /\ ready[w] # <<>> /\ "next" \in Steps
      BY <1>7 DEF RepostDoes, Runs, Steps
    <2>1. Turn(w).job \in Jobs(w) /\ At(Turn(w).job, "next") \in Turns(w)
      BY <2>0, HeadTurn, TurnMade
    <2>2. ready'[w] \in Seq(Turns(w)) /\ inbox'[w] = inbox[w] /\ waiting'[w] = waiting[w]
      BY <2>0, <2>1, RunTypes
    <2>3. msgQueue'[w] \in Seq(Jobs(w))
      BY <1>7, <2>1, AppendProperties DEF RepostDoes
    <2> QED BY <1>7, <2>2, <2>3 DEF RepostDoes, WorkerTypesOK, KeepsRest, KeepsModule
  <1>8. CASE ExecDoes(w)
    <2>0. ready[w] # <<>>
      BY <1>8 DEF ExecDoes
    <2>1. Turn(w).job \in Jobs(w) /\ Turn(w).job.trace \in Generations
      BY <2>0, HeadTurn
    <2>2. ready'[w] \in Seq(Turns(w)) /\ waiting'[w] \in Seq(Awaits(w))
      BY <1>8, <2>1, WaitTypes DEF ExecDoes
    <2> QED BY <1>8, <2>1, <2>2 DEF ExecDoes, WorkerTypesOK, KeepsQueues, KeepsModule
  <1>9. CASE ThrowsDoes(w)
    <2>0. ready[w] # <<>>
      BY <1>9 DEF ThrowsDoes, Runs
    <2>1. PICK a \in Steps : \E from : Runs(w, from, At(Turn(w).job, a))
      BY <1>9 DEF ThrowsDoes, Steps
    <2>2. PICK from : Runs(w, from, At(Turn(w).job, a))
      BY <2>1
    <2>3. At(Turn(w).job, a) \in Turns(w)
      BY <2>0, HeadTurn, TurnMade
    <2>4. ready'[w] \in Seq(Turns(w)) /\ inbox'[w] = inbox[w] /\ waiting'[w] = waiting[w]
      BY <2>2, <2>3, RunTypes
    <2> QED BY <1>9, <2>4 DEF ThrowsDoes, WorkerTypesOK, KeepsQueues, KeepsRest, KeepsModule
  <1>10. CASE CallMainDoes(w) \/ TrapDoes(w)
    <2>0. ready[w] # <<>>
      BY <1>10 DEF CallMainDoes, Compiles, TrapDoes, Runs
    <2>1. Turn(w).job \in Jobs(w) /\ Turn(w).job.of \in Texts
      BY <2>0, HeadTurn DEF Texts
    <2>2. PICK u \in BOOLEAN : \E of \in Texts :
            /\ Runs(w, {"call"}, Returned(Turn(w).job, JobResult(Turn(w).job, of, u)))
            /\ u => of # None /\ (w = "src2json" => of = Turn(w).job.of)
      <3>1. PICK u \in BOOLEAN :
              /\ Runs(w, {"call"}, Returned(Turn(w).job,
                   JobResult(Turn(w).job, IF u THEN Input(w) ELSE None, u)))
              /\ u => Input(w) # None
        BY <1>10 DEF CallMainDoes, TrapDoes, Compiles
      <3>2. (IF u THEN Input(w) ELSE None) \in Texts
            /\ (w = "src2json" => Input(w) = Turn(w).job.of)
        BY <2>1 DEF Input
      <3> QED BY <3>1, <3>2
    <2>3. PICK of \in Texts :
            /\ Runs(w, {"call"}, Returned(Turn(w).job, JobResult(Turn(w).job, of, u)))
            /\ u => of # None /\ (w = "src2json" => of = Turn(w).job.of)
      BY <2>2
    <2>4. Returned(Turn(w).job, JobResult(Turn(w).job, of, u)) \in Turns(w)
      BY <2>1, <2>3, TurnMade
    <2>5. ready'[w] \in Seq(Turns(w)) /\ inbox'[w] = inbox[w] /\ waiting'[w] = waiting[w]
      BY <2>3, <2>4, RunTypes
    <2>6. promise'[w] \in Promises
      <3>1. CASE TrapDoes(w)
        BY <3>1 DEF TrapDoes, Promises
      <3>2. CASE CallMainDoes(w)
        BY <3>2 DEF CallMainDoes, KeepsRest, KeepsModule
      <3> QED BY <1>10, <3>1, <3>2
    <2> QED BY <1>10, <2>5, <2>6 DEF CallMainDoes, TrapDoes, WorkerTypesOK, KeepsQueues,
                                     KeepsRest, KeepsModule
  <1>11. CASE PostResultDoes(w)
    <2>0. Runs(w, {"returned"}, At(Turn(w).job, "next")) /\ ready[w] # <<>>
          /\ Turn(w).at = "returned" /\ "next" \in Steps
      BY <1>11 DEF PostResultDoes, Runs, Steps
    <2>1. At(Turn(w).job, "next") \in Turns(w) /\ Turn(w).result \in Results(w)
      BY <2>0, HeadTurn, TurnMade
    <2>2. ready'[w] \in Seq(Turns(w)) /\ inbox'[w] = inbox[w] /\ waiting'[w] = waiting[w]
      BY <2>0, <2>1, RunTypes
    <2>3. outbox'[w] \in Seq(Results(w))
      BY <1>11, <2>1, AppendProperties DEF PostResultDoes
    <2> QED BY <1>11, <2>2, <2>3 DEF PostResultDoes, WorkerTypesOK, KeepsModule
  <1>12. CASE GoesOnDoes(w)
    <2>0. ready[w] # <<>> /\ Loops(w, msgQueue[w])
      BY <1>12 DEF GoesOnDoes
    <2>1. /\ ready'[w] \in Seq(Turns(w)) /\ waiting'[w] \in Seq(Awaits(w))
          /\ msgQueue'[w] \in Seq(Jobs(w))
      BY <2>0, LoopTypes
    <2>2. Failure(Turn(w).job) \in Results(w)
      BY <1>0, <2>0, HeadTurn DEF Failure, JobResult, Results
    <2>3. outbox'[w] \in Seq(Results(w))
      <3>1. Append(outbox[w], Failure(Turn(w).job)) \in Seq(Results(w))
        BY <2>2, AppendProperties
      <3> QED BY <1>12, <3>1 DEF GoesOnDoes
    <2> QED BY <1>12, <2>1, <2>3 DEF GoesOnDoes, WorkerTypesOK, KeepsRest, KeepsModule
  <1> QED BY <1>1, <1>2, <1>3, <1>4, <1>5, <1>6, <1>7, <1>8, <1>9, <1>10, <1>11, <1>12
      DEF WorkDoes
-----------------------------------------------------------------------------
(* The module in #mod.                                                     *)

(* Who waits, waits for a load that goes on.                               *)
LEMMA WaitModule ==
  ASSUME NEW w \in WorkerTypes, ModuleOK(w), NEW job, NEW then, Waits(w, job, then),
         promise'[w] = promise[w]
  PROVE  waiting'[w] # <<>> => promise'[w].state = "loading"
  BY DEF ModuleOK, Waits

LEMMA LoopModule ==
  ASSUME NEW w \in WorkerTypes, ModuleOK(w), NEW queue, Loops(w, queue),
         promise'[w] = promise[w]
  PROVE  waiting'[w] # <<>> => promise'[w].state = "loading"
  BY WaitModule DEF ModuleOK, Loops

LEMMA ModuleKept ==
  ASSUME NEW w \in WorkerTypes, WorkerTypesOK(w), ModuleOK(w), ResumedOK(w), WorkDoes(w)
  PROVE  ModuleOK(w)'
  <1>1. promise[w].state # "absent"
    <2>1. ready[w] # <<>> \/ inbox[w] # <<>> \/ promise[w].state = "loading"
            \/ fetching[w] # {}
      BY DEF WorkDoes, OnMessageDoes, LoadEndsDoes, StoreModuleDoes, MakeArgsDoes,
             FetchEndsDoes, ArgsMadeDoes, RepostDoes, ExecDoes, ThrowsDoes, CallMainDoes, Compiles,
             TrapDoes, PostResultDoes, GoesOnDoes, Runs
    <2> QED BY <2>1 DEF ModuleOK
  <1>2. CASE LoadEndsDoes(w)
    <2>1. promise[w].state = "loading" /\ mod'[w] = mod[w] /\ waiting'[w] = <<>>
          /\ promise'[w].state \in {"loaded", "failed"}
      BY <1>2 DEF LoadEndsDoes, WorkerTypesOK, Promises
    <2> QED BY <2>1 DEF ModuleOK
  <1>3. CASE StoreModuleDoes(w)
    <2>1. ready[w] # <<>> /\ Turn(w).at = "resumed" /\ waiting'[w] = waiting[w]
      BY <1>3 DEF StoreModuleDoes, Runs
    <2>2. Turn(w).of = promise[w].id /\ Settled(w)
      BY <2>1, HeadTurn DEF ResumedOK
    <2>3. promise'[w] = promise[w] /\ mod'[w] = IF Fails(w) THEN mod[w] ELSE Turn(w).of
      BY <1>3 DEF StoreModuleDoes
    <2> QED BY <1>1, <2>1, <2>2, <2>3 DEF ModuleOK, Settled, Fails
  <1>4. CASE TrapDoes(w)
    BY <1>4 DEF ModuleOK, TrapDoes, Compiles
  <1>5. CASE OnMessageDoes(w) \/ GoesOnDoes(w)
    <2>1. promise'[w] = promise[w] /\ mod'[w] = mod[w] /\ \E queue : Loops(w, queue)
      BY <1>5 DEF OnMessageDoes, GoesOnDoes, KeepsRest, KeepsModule
    <2>2. waiting'[w] # <<>> => promise'[w].state = "loading"
      BY <2>1, LoopModule
    <2> QED BY <1>1, <2>1, <2>2 DEF ModuleOK
  <1>6. CASE ExecDoes(w)
    <2>1. promise'[w] = promise[w] /\ mod'[w] = mod[w] /\ Waits(w, Turn(w).job, "call")
      BY <1>6 DEF ExecDoes, KeepsModule
    <2>2. waiting'[w] # <<>> => promise'[w].state = "loading"
      BY <2>1, WaitModule
    <2> QED BY <1>1, <2>1, <2>2 DEF ModuleOK
  <1>7. ASSUME \/ MakeArgsDoes(w) \/ FetchEndsDoes(w) \/ ArgsMadeDoes(w) \/ RepostDoes(w)
               \/ ThrowsDoes(w) \/ CallMainDoes(w) \/ PostResultDoes(w)
        PROVE  ModuleOK(w)'
    <2>1. promise'[w] = promise[w] /\ mod'[w] = mod[w] /\ waiting'[w] = waiting[w]
      BY <1>7 DEF MakeArgsDoes, FetchEndsDoes, ArgsMadeDoes, RepostDoes, ThrowsDoes,
                  CallMainDoes, Compiles, PostResultDoes, Runs, KeepsRest, KeepsModule
    <2> QED BY <1>1, <2>1 DEF ModuleOK
  <1> QED BY <1>2, <1>3, <1>4, <1>5, <1>6, <1>7 DEF WorkDoes

(* When the turns behind the head stay, and what comes last may do so.     *)
Abides(w) ==
    \A k \in DOMAIN ready[w] : k # 1 =>
        /\ ready[w][k].at = "resumed" => promise'[w] = promise[w]
        /\ ready[w][k].at = "call" => mod'[w] # None

LEMMA ResumedMoved ==
  ASSUME NEW w \in WorkerTypes, WorkerTypesOK(w), ResumedOK(w), Abides(w),
         NEW t \in Turns(w), Moved(ready[w], ready'[w], t),
         t.at = "resumed" => /\ t.of = promise'[w].id /\ Settled(w)'
                             /\ \A k \in DOMAIN ready[w] : ready[w][k].at # "call",
         t.at = "call" => mod'[w] # None
  PROVE  ResumedOK(w)'
  <1> DEFINE s == ready[w]
             r == ready'[w]
  <1>1. /\ r # <<>> /\ Len(r) \in DOMAIN r /\ r[Len(r)] = t
        /\ \A j \in DOMAIN r : j \in Nat
             /\ \/ j = Len(r)
                \/ j < Len(r) /\ 1 < j + 1 /\ j + 1 \in DOMAIN s /\ r[j] = s[j + 1]
    BY MovedAt DEF WorkerTypesOK
  <1>2. SUFFICES ASSUME NEW i \in DOMAIN r
        PROVE /\ r[i].at = "resumed" => r[i].of = promise'[w].id /\ Settled(w)'
              /\ r[i].at = "call" =>
                   mod'[w] # None /\ \A j \in DOMAIN r : i < j => r[j].at # "resumed"
    BY DEF ResumedOK
  <1> HIDE DEF s, r
  <1>3. \A k \in DOMAIN s :
          /\ s[k].at = "resumed" => s[k].of = promise[w].id /\ Settled(w)
          /\ s[k].at = "call" => mod[w] # None
               /\ \A j \in DOMAIN s : k < j => s[j].at # "resumed"
    BY DEF ResumedOK, s
  <1>4. \A k \in DOMAIN s : k # 1 =>
          /\ s[k].at = "resumed" => promise'[w] = promise[w]
          /\ s[k].at = "call" => mod'[w] # None
    BY DEF Abides, s
  <1>5. t.at = "resumed" => \A k \in DOMAIN s : s[k].at # "call"
    BY DEF s
  <1>6. CASE i = Len(r)
    <2>1. \A j \in DOMAIN r : ~(i < j)
      BY <1>1, <1>6
    <2> QED BY <1>1, <1>6, <2>1
  <1>7. CASE i < Len(r) /\ i + 1 \in DOMAIN s /\ i + 1 # 1 /\ r[i] = s[i + 1]
    <2>1. r[i].at = "resumed" => r[i].of = promise'[w].id /\ Settled(w)'
      BY <1>3, <1>4, <1>7 DEF Settled
    <2>2. ASSUME r[i].at = "call", NEW j \in DOMAIN r, i < j PROVE r[j].at # "resumed"
      <3>1. CASE j = Len(r)
        BY <1>1, <1>5, <1>7, <2>2, <3>1
      <3>2. CASE j + 1 \in DOMAIN s /\ r[j] = s[j + 1]
        <4>1. i \in Nat /\ j \in Nat /\ i + 1 < j + 1
          BY <1>1, <2>2
        <4> QED BY <1>3, <1>7, <2>2, <3>2, <4>1
      <3> QED BY <1>1, <3>1, <3>2
    <2> QED BY <1>4, <1>7, <2>1, <2>2
  <1>8. i \in Nat
    BY <1>1
  <1> QED BY <1>1, <1>6, <1>7, <1>8

LEMMA ResumedDropped ==
  ASSUME NEW w \in WorkerTypes, WorkerTypesOK(w), ResumedOK(w), Abides(w),
         Dropped(ready[w], ready'[w])
  PROVE  ResumedOK(w)'
  <1> DEFINE s == ready[w]
             r == ready'[w]
  <1>1. \A j \in DOMAIN r : j \in Nat /\ 1 < j + 1 /\ j + 1 \in DOMAIN s /\ r[j] = s[j + 1]
    BY DroppedAt DEF WorkerTypesOK
  <1>2. \A k \in DOMAIN s :
          /\ s[k].at = "resumed" => s[k].of = promise[w].id /\ Settled(w)
          /\ s[k].at = "call" => mod[w] # None
               /\ \A j \in DOMAIN s : k < j => s[j].at # "resumed"
    BY DEF ResumedOK
  <1>3. \A k \in DOMAIN s : k # 1 =>
          /\ s[k].at = "resumed" => promise'[w] = promise[w]
          /\ s[k].at = "call" => mod'[w] # None
    BY DEF Abides
  <1>4. SUFFICES ASSUME NEW i \in DOMAIN r
        PROVE /\ r[i].at = "resumed" => r[i].of = promise'[w].id /\ Settled(w)'
              /\ r[i].at = "call" =>
                   mod'[w] # None /\ \A j \in DOMAIN r : i < j => r[j].at # "resumed"
    BY DEF ResumedOK
  <1> HIDE DEF s, r
  <1>5. i \in Nat /\ i + 1 \in DOMAIN s /\ i + 1 # 1 /\ r[i] = s[i + 1]
    BY <1>1
  <1>6. r[i].at = "resumed" => r[i].of = promise'[w].id /\ Settled(w)'
    BY <1>2, <1>3, <1>5 DEF Settled
  <1>7. ASSUME r[i].at = "call", NEW j \in DOMAIN r, i < j PROVE r[j].at # "resumed"
    <2>1. j \in Nat /\ j + 1 \in DOMAIN s /\ r[j] = s[j + 1] /\ i + 1 < j + 1
      BY <1>1, <1>5, <1>7
    <2> QED BY <1>2, <1>5, <1>7, <2>1
  <1> QED BY <1>3, <1>5, <1>6, <1>7

LEMMA AbidesWhen ==
  ASSUME NEW w \in WorkerTypes, ResumedOK(w), promise'[w] = promise[w],
         mod'[w] = mod[w] \/ mod'[w] # None
  PROVE  Abides(w)
  BY DEF Abides, ResumedOK

LEMMA ResumedWaits ==
  ASSUME NEW w \in WorkerTypes, WorkerTypesOK(w), ModuleOK(w), ResumedOK(w),
         promise[w].state # "absent", promise'[w] = promise[w], mod'[w] = mod[w],
         NEW job \in Jobs(w), NEW then \in {"args", "call"}, Waits(w, job, then)
  PROVE  ResumedOK(w)'
  <1>0. Abides(w)
    BY AbidesWhen
  <1>1. CASE mod[w] # None /\ Moved(ready[w], ready'[w], At(job, then))
    <2> DEFINE t == At(job, then)
    <2>1. t \in Turns(w) /\ t.at = then
      <3>1. then \in Steps
        BY DEF Steps
      <3> QED BY <3>1, TurnMade
    <2> HIDE DEF t
    <2>2. Moved(ready[w], ready'[w], t)
      BY <1>1 DEF t
    <2>3. t.at # "resumed" /\ mod'[w] # None
      BY <1>1, <2>1
    <2> QED BY <1>0, <2>1, <2>2, <2>3, ResumedMoved
  <1>2. CASE Dropped(ready[w], ready'[w])
    BY <1>0, <1>2, ResumedDropped
  <1>3. CASE /\ mod[w] = None /\ promise[w].state # "loading"
             /\ Moved(ready[w], ready'[w], Resumed(Awaiting(job, then), promise[w].id))
    <2> DEFINE t == Resumed(Awaiting(job, then), promise[w].id)
    <2>1. promise[w] \in Promises /\ promise[w].id \in Nat
      BY DEF WorkerTypesOK, Promises
    <2>2. t \in Turns(w) /\ t.at = "resumed" /\ t.of = promise[w].id
      BY <2>1, TurnMade
    <2>3. Settled(w)'
      BY <1>3, <2>1 DEF Settled, Promises
    <2>4. \A k \in DOMAIN ready[w] : ready[w][k].at # "call"
      BY <1>3 DEF ResumedOK
    <2> HIDE DEF t
    <2>5. Moved(ready[w], ready'[w], t)
      BY <1>3 DEF t
    <2> QED BY <1>0, <2>2, <2>3, <2>4, <2>5, ResumedMoved
  <1> QED BY <1>1, <1>2, <1>3 DEF Waits

LEMMA ResumedLoops ==
  ASSUME NEW w \in WorkerTypes, WorkerTypesOK(w), ModuleOK(w), ResumedOK(w),
         promise[w].state # "absent", promise'[w] = promise[w], mod'[w] = mod[w],
         NEW queue \in Seq(Jobs(w)), Loops(w, queue)
  PROVE  ResumedOK(w)'
  <1>1. CASE Dropped(ready[w], ready'[w])
    BY <1>1, AbidesWhen, ResumedDropped
  <1>2. CASE queue # <<>> /\ Waits(w, Head(queue), "args")
    BY <1>2, HeadTailProperties, ResumedWaits
  <1> QED BY <1>1, <1>2 DEF Loops

(* A turn that is followed by one that needs no module.                    *)
LEMMA ResumedRuns ==
  ASSUME NEW w \in WorkerTypes, WorkerTypesOK(w), ResumedOK(w), Abides(w),
         NEW t \in Turns(w), t.at \notin {"resumed", "call"},
         Moved(ready[w], ready'[w], t)
  PROVE  ResumedOK(w)'
  BY ResumedMoved

LEMMA ResumedKept ==
  ASSUME NEW w \in WorkerTypes, WorkerTypesOK(w), ModuleOK(w), ResumedOK(w), InsideOK(w),
         WorkDoes(w)
  PROVE  ResumedOK(w)'
  <1>1. promise[w].state # "absent"
    <2>1. ready[w] # <<>> \/ inbox[w] # <<>> \/ promise[w].state = "loading"
            \/ fetching[w] # {}
      BY DEF WorkDoes, OnMessageDoes, LoadEndsDoes, StoreModuleDoes, MakeArgsDoes,
             FetchEndsDoes, ArgsMadeDoes, RepostDoes, ExecDoes, ThrowsDoes, CallMainDoes, Compiles,
             TrapDoes, PostResultDoes, GoesOnDoes, Runs
    <2> QED BY <2>1 DEF ModuleOK
  <1>2. CASE LoadEndsDoes(w)
    <2>1. PICK st \in {"loaded", "failed"} : promise'[w] = [promise[w] EXCEPT !.state = st]
      BY <1>2 DEF LoadEndsDoes
    <2>2. promise'[w].id = promise[w].id /\ Settled(w)' /\ promise[w].id \in Nat
      BY <2>1 DEF WorkerTypesOK, Promises, Settled
    <2>3. ready'[w] = [i \in DOMAIN waiting[w] |-> Resumed(waiting[w][i], promise[w].id)]
      BY <1>2 DEF LoadEndsDoes
    <2>4. \A i \in DOMAIN ready'[w] :
            ready'[w][i].at = "resumed" /\ ready'[w][i].of = promise[w].id
      BY <2>3 DEF Resumed
    <2> QED BY <2>2, <2>4 DEF ResumedOK
  <1>3. CASE StoreModuleDoes(w)
    <2>1. ready[w] # <<>> /\ Turn(w).at = "resumed" /\ promise'[w] = promise[w]
          /\ mod'[w] = IF Fails(w) THEN mod[w] ELSE Turn(w).of
      BY <1>3 DEF StoreModuleDoes, Runs
    <2>2. Turn(w).of = promise[w].id /\ Settled(w)
      BY <2>1, HeadTurn DEF ResumedOK
    <2>3. Turn(w).of # None
      BY <2>2 DEF WorkerTypesOK, Promises, None
    <2>4. Turn(w).job \in Jobs(w) /\ Turn(w).then \in {"args", "call"}
      BY <2>1, HeadTurn
    <2>5. PICK a \in {"thrown", "load failed", Turn(w).then} :
            /\ Moved(ready[w], ready'[w], At(Turn(w).job, a))
            /\ ~Fails(w) => a = Turn(w).then
            /\ Fails(w) => a = IF Turn(w).then = "args" THEN "thrown" ELSE "load failed"
      BY <1>3 DEF StoreModuleDoes, Runs
    <2> DEFINE t == At(Turn(w).job, a)
    <2>6. t \in Turns(w) /\ t.at = a
      <3>1. a \in Steps
        BY <2>4, <2>5 DEF Steps
      <3>2. Turn(w).job \in Jobs(w)
        BY <2>4
      <3>3. MadeAt(w, Turn(w).job, a)
        BY <3>1, <3>2, AtMade
      <3> QED BY <3>3 DEF MadeAt
    <2>7. a # "resumed" /\ (a = "call" => mod'[w] # None)
      BY <2>1, <2>3, <2>4, <2>5
    <2>8. Abides(w)
      BY <2>1, <2>3, AbidesWhen
    <2> HIDE DEF t
    <2>9. Moved(ready[w], ready'[w], t)
      BY <2>5 DEF t
    <2> QED BY <2>6, <2>7, <2>8, <2>9, ResumedMoved
  <1>4. CASE TrapDoes(w)
    <2>1. PICK t : Runs(w, {"call"}, t) /\ t.at = "returned"
      <3>1. \E res : Runs(w, {"call"}, Returned(Turn(w).job, res))
        BY <1>4 DEF TrapDoes, Compiles
      <3> QED BY <3>1 DEF Returned
    <2>2. /\ ready[w] # <<>> /\ Turn(w).at = "call" /\ Moved(ready[w], ready'[w], t)
          /\ t \in Turns(w)
      <3>1. ready[w] # <<>> /\ Turn(w).at = "call" /\ Moved(ready[w], ready'[w], t)
        BY <2>1 DEF Runs
      <3> QED BY <3>1, MovedIn, TypesKept DEF WorkerTypesOK
    <2>3. ready[w][1].at = "call" /\ 1 \in DOMAIN ready[w]
      BY <2>2, HeadTurn
    <2>4. \A k \in DOMAIN ready[w] : k # 1 => 1 < k
      BY RestAt DEF WorkerTypesOK
    <2>5. \A k \in DOMAIN ready[w] : k # 1 => ready[w][k].at # "call"
      BY <2>3 DEF InsideOK, InExec
    <2>6. \A k \in DOMAIN ready[w] : k # 1 => ready[w][k].at # "resumed"
      BY <2>3, <2>4 DEF ResumedOK
    <2>7. Abides(w)
      BY <2>5, <2>6 DEF Abides
    <2> QED BY <2>1, <2>2, <2>7, ResumedRuns
  <1>5. CASE OnMessageDoes(w)
    <2>1. Append(msgQueue[w], Head(inbox[w])) \in Seq(Jobs(w))
      BY <1>5, HeadTailProperties, AppendProperties DEF OnMessageDoes, WorkerTypesOK
    <2> QED BY <1>1, <1>5, <2>1, ResumedLoops DEF OnMessageDoes, KeepsRest, KeepsModule
  <1>6. CASE GoesOnDoes(w)
    <2>1. msgQueue[w] \in Seq(Jobs(w))
      BY DEF WorkerTypesOK
    <2> QED BY <1>1, <1>6, <2>1, ResumedLoops DEF GoesOnDoes, KeepsRest, KeepsModule
  <1>7. CASE ExecDoes(w)
    <2>1. Turn(w).job \in Jobs(w)
      BY <1>7, HeadTurn DEF ExecDoes
    <2> QED BY <1>1, <1>7, <2>1, ResumedWaits DEF ExecDoes, KeepsModule
  <1>8. ASSUME \/ MakeArgsDoes(w) \/ FetchEndsDoes(w) \/ ArgsMadeDoes(w) \/ RepostDoes(w)
               \/ ThrowsDoes(w) \/ CallMainDoes(w) \/ PostResultDoes(w)
        PROVE  ResumedOK(w)'
    <2>1. promise'[w] = promise[w] /\ mod'[w] = mod[w]
      BY <1>8 DEF MakeArgsDoes, FetchEndsDoes, ArgsMadeDoes, RepostDoes, ThrowsDoes,
                  CallMainDoes, Compiles, PostResultDoes, KeepsRest, KeepsModule
    <2>2. Abides(w)
      BY <2>1, AbidesWhen
    <2>3. CASE Dropped(ready[w], ready'[w])
      BY <2>2, <2>3, ResumedDropped
    <2>4. ASSUME NEW job \in Jobs(w),
                 \E a \in Steps \ {"call"} : Moved(ready[w], ready'[w], At(job, a))
          PROVE  ResumedOK(w)'
      <3>1. PICK a \in Steps \ {"call"} : Moved(ready[w], ready'[w], At(job, a))
        BY <2>4
      <3>2. At(job, a) \in Turns(w) /\ At(job, a).at = a
        BY <3>1, TurnMade
      <3>3. a \notin {"resumed", "call"}
        BY <3>1 DEF Steps
      <3> QED BY <2>2, <3>1, <3>2, <3>3, ResumedRuns
    <2>5. CASE FetchEndsDoes(w)
      <3>1. PICK f \in fetching[w] : \E a \in {"args made", "thrown"} :
              Moved(ready[w], ready'[w], At(f.job, a))
        BY <2>5 DEF FetchEndsDoes
      <3>2. f.job \in Jobs(w)
        BY DEF WorkerTypesOK, Fetches
      <3>3. \E a \in Steps \ {"call"} : Moved(ready[w], ready'[w], At(f.job, a))
        BY <3>1 DEF Steps
      <3> QED BY <2>4, <3>2, <3>3
    <2>6. CASE CallMainDoes(w)
      <3>1. PICK t : Runs(w, {"call"}, t) /\ t.at = "returned"
        <4>1. \E res : Runs(w, {"call"}, Returned(Turn(w).job, res))
          BY <2>6 DEF CallMainDoes, Compiles
        <4> QED BY <4>1 DEF Returned
      <3>2. Moved(ready[w], ready'[w], t)
        BY <3>1 DEF Runs
      <3>3. t \in Turns(w)
        BY <3>2, MovedIn, TypesKept DEF WorkerTypesOK
      <3> QED BY <2>2, <3>1, <3>2, <3>3, ResumedRuns
    <2>7. ASSUME ~Dropped(ready[w], ready'[w]),
                 \/ MakeArgsDoes(w) \/ ArgsMadeDoes(w) \/ RepostDoes(w)
                 \/ ThrowsDoes(w) \/ PostResultDoes(w)
          PROVE  ResumedOK(w)'
      <3>1. ready[w] # <<>>
            /\ \E a \in Steps \ {"call"} : Moved(ready[w], ready'[w], At(Turn(w).job, a))
        BY <2>7 DEF MakeArgsDoes, ArgsMadeDoes, RepostDoes, ThrowsDoes, PostResultDoes,
                    Runs, Steps
      <3>2. Turn(w).job \in Jobs(w)
        BY <3>1, HeadTurn
      <3> QED BY <2>4, <3>1, <3>2
    <2> QED BY <1>8, <2>3, <2>5, <2>6, <2>7
  <1> QED BY <1>2, <1>3, <1>4, <1>5, <1>6, <1>7, <1>8 DEF WorkDoes
-----------------------------------------------------------------------------
(* The loops that come back for what was put back.                         *)

LEMMA LengthsOfQueues ==
  ASSUME NEW S, NEW q \in Seq(S)
  PROVE  /\ Len(q) \in Nat
         /\ \A x \in S : Append(q, x) \in Seq(S) /\ Len(Append(q, x)) = Len(q) + 1
         /\ q # <<>> => Tail(q) \in Seq(S) /\ Len(Tail(q)) = Len(q) - 1 /\ Head(q) \in S
         /\ q = <<>> => Len(q) = 0
  BY LenProperties, AppendProperties, HeadTailProperties

(* The head's is the only loop that comes back in a step.                  *)
LEMMA WaitNexts ==
  ASSUME NEW w \in WorkerTypes, WorkerTypesOK(w), NEW job \in Jobs(w),
         NEW then \in {"args", "call"}, Waits(w, job, then)
  PROVE  /\ Cardinality(Nexts(ready'[w])) \in Nat
         /\ ready[w] # <<>> /\ Turn(w).at = "next" =>
              Cardinality(Nexts(ready'[w])) = Cardinality(Nexts(ready[w])) - 1
         /\ ~(ready[w] # <<>> /\ Turn(w).at = "next") =>
              Cardinality(Nexts(ready'[w])) = Cardinality(Nexts(ready[w]))
  <1>0. /\ ready[w] \in Seq(Turns(w)) /\ promise[w].id \in Nat
        /\ ready'[w] \in Seq(Turns(w))
    BY WaitTypes DEF WorkerTypesOK, Promises
  <1>1. Cardinality(Nexts(ready'[w])) \in Nat
    BY <1>0, NextsFinite
  <1>2. CASE Dropped(ready[w], ready'[w])
    BY <1>0, <1>1, <1>2, NextsDropped DEF Turn
  <1>3. ASSUME NEW t \in Turns(w), t.at # "next", Moved(ready[w], ready'[w], t)
        PROVE  /\ ready[w] # <<>> /\ Turn(w).at = "next" =>
                    Cardinality(Nexts(ready'[w])) = Cardinality(Nexts(ready[w])) - 1
               /\ ~(ready[w] # <<>> /\ Turn(w).at = "next") =>
                    Cardinality(Nexts(ready'[w])) = Cardinality(Nexts(ready[w]))
    BY <1>0, <1>3, NextsMoved DEF Turn
  <1>4. CASE Moved(ready[w], ready'[w], At(job, then))
    <2>1. then \in Steps /\ then # "next"
      BY DEF Steps
    <2>2. At(job, then) \in Turns(w) /\ At(job, then).at = then
      <3>1. MadeAt(w, job, then)
        BY <2>1, AtMade
      <3> QED BY <3>1 DEF MadeAt
    <2> QED BY <1>1, <1>3, <1>4, <2>1, <2>2
  <1>5. CASE Moved(ready[w], ready'[w], Resumed(Awaiting(job, then), promise[w].id))
    <2>1. /\ Resumed(Awaiting(job, then), promise[w].id) \in Turns(w)
          /\ Resumed(Awaiting(job, then), promise[w].id).at = "resumed"
      BY <1>0, TurnMade
    <2> QED BY <1>1, <1>3, <1>5, <2>1
  <1> QED BY <1>2, <1>4, <1>5 DEF Waits

LEMMA LoopQueue ==
  ASSUME NEW w \in WorkerTypes, WorkerTypesOK(w), NEW queue \in Seq(Jobs(w)), Loops(w, queue)
  PROVE  /\ Cardinality(Nexts(ready'[w])) \in Nat
         /\ ready[w] # <<>> /\ Turn(w).at = "next" =>
              Cardinality(Nexts(ready'[w])) = Cardinality(Nexts(ready[w])) - 1
         /\ ~(ready[w] # <<>> /\ Turn(w).at = "next") =>
              Cardinality(Nexts(ready'[w])) = Cardinality(Nexts(ready[w]))
         /\ Len(msgQueue'[w]) = 0 \/ Len(msgQueue'[w]) = Len(queue) - 1
  <1>0. ready[w] \in Seq(Turns(w)) /\ ready'[w] \in Seq(Turns(w))
    BY LoopTypes DEF WorkerTypesOK
  <1>1. CASE queue = <<>> /\ msgQueue'[w] = queue /\ Dropped(ready[w], ready'[w])
    <2>1. Cardinality(Nexts(ready'[w])) \in Nat
      BY <1>0, NextsFinite
    <2> QED BY <1>0, <1>1, <2>1, NextsDropped, LengthsOfQueues DEF Turn
  <1>2. CASE queue # <<>> /\ msgQueue'[w] = Tail(queue) /\ Waits(w, Head(queue), "args")
    <2>1. Head(queue) \in Jobs(w) /\ Len(Tail(queue)) = Len(queue) - 1
      BY <1>2, LengthsOfQueues
    <2> QED BY <1>2, <2>1, WaitNexts
  <1> QED BY <1>1, <1>2 DEF Loops

(* A turn of a job that is followed by another one.                        *)
LEMMA RunQueue ==
  ASSUME NEW w \in WorkerTypes, WorkerTypesOK(w), QueueOK(w), NEW t \in Turns(w),
         Moved(ready[w], ready'[w], t), ~(ready[w] # <<>> /\ Turn(w).at = "next"),
         \/ msgQueue'[w] = msgQueue[w]
         \/ t.at = "next" /\ Len(msgQueue'[w]) = Len(msgQueue[w]) + 1
  PROVE  QueueOK(w)'
  <1>1. PICK n \in Nat :
          /\ ~(ready[w] # <<>> /\ Head(ready[w]).at = "next") =>
               n = Cardinality(Nexts(ready[w]))
          /\ t.at = "next" => Cardinality(Nexts(ready'[w])) = n + 1
          /\ t.at # "next" => Cardinality(Nexts(ready'[w])) = n
    BY NextsMoved DEF WorkerTypesOK
  <1>2. n = Cardinality(Nexts(ready[w]))
    BY <1>1 DEF Turn
  <1>3. Len(msgQueue[w]) \in Nat /\ Len(msgQueue[w]) <= n
    BY <1>2, LengthsOfQueues DEF WorkerTypesOK, QueueOK
  <1> QED BY <1>1, <1>3 DEF QueueOK

LEMMA QueueKept ==
  ASSUME NEW w \in WorkerTypes, WorkerTypesOK(w), QueueOK(w), WorkDoes(w)
  PROVE  QueueOK(w)'
  <1>0. /\ msgQueue[w] \in Seq(Jobs(w)) /\ Len(msgQueue[w]) \in Nat
        /\ ready[w] \in Seq(Turns(w)) /\ WorkerTypesOK(w)'
        /\ Cardinality(Nexts(ready[w])) \in Nat
        /\ Len(msgQueue[w]) <= Cardinality(Nexts(ready[w]))
    BY TypesKept, LengthsOfQueues, NextsFinite DEF WorkerTypesOK, QueueOK
  <1>1. CASE OnMessageDoes(w)
    <2>1. ready[w] = <<>> /\ Loops(w, Append(msgQueue[w], Head(inbox[w])))
          /\ inbox[w] \in Seq(Jobs(w)) /\ inbox[w] # <<>>
      BY <1>1 DEF OnMessageDoes, WorkerTypesOK
    <2>2. Head(inbox[w]) \in Jobs(w)
      BY <2>1, LengthsOfQueues
    <2>3. /\ Append(msgQueue[w], Head(inbox[w])) \in Seq(Jobs(w))
          /\ Len(Append(msgQueue[w], Head(inbox[w]))) = Len(msgQueue[w]) + 1
      BY <1>0, <2>2, LengthsOfQueues
    <2>4. /\ Cardinality(Nexts(ready'[w])) = Cardinality(Nexts(ready[w]))
          /\ \/ Len(msgQueue'[w]) = 0
             \/ Len(msgQueue'[w]) = Len(Append(msgQueue[w], Head(inbox[w]))) - 1
      BY <2>1, <2>3, LoopQueue
    <2> QED BY <1>0, <2>3, <2>4 DEF QueueOK
  <1>2. CASE LoadEndsDoes(w)
    <2>1. ready[w] = <<>> /\ msgQueue'[w] = msgQueue[w]
      BY <1>2 DEF LoadEndsDoes, KeepsQueues
    <2>2. Nexts(ready[w]) = {}
      BY <2>1 DEF Nexts
    <2>3. Cardinality(Nexts(ready[w])) = 0
      BY <1>0, <2>2, NextsFinite
    <2>4. Cardinality(Nexts(ready'[w])) \in Nat
      BY <1>0, NextsFinite DEF WorkerTypesOK
    <2> QED BY <1>0, <2>1, <2>3, <2>4 DEF QueueOK
  <1>3. CASE GoesOnDoes(w)
    <2>1. Loops(w, msgQueue[w])
      BY <1>3 DEF GoesOnDoes
    <2> QED BY <1>0, <2>1, LoopQueue DEF QueueOK
  <1>4. CASE ExecDoes(w)
    <2>1. ready[w] # <<>> /\ Turn(w).at = "exec" /\ Waits(w, Turn(w).job, "call")
          /\ msgQueue'[w] = msgQueue[w]
      BY <1>4 DEF ExecDoes, KeepsQueues
    <2>2. Turn(w).job \in Jobs(w)
      BY <2>1, HeadTurn
    <2>3. Cardinality(Nexts(ready'[w])) = Cardinality(Nexts(ready[w]))
      BY <2>1, <2>2, WaitNexts
    <2> QED BY <1>0, <2>1, <2>3 DEF QueueOK
  <1>5. ASSUME \/ StoreModuleDoes(w) \/ MakeArgsDoes(w) \/ FetchEndsDoes(w) \/ ArgsMadeDoes(w)
               \/ RepostDoes(w) \/ ThrowsDoes(w) \/ CallMainDoes(w) \/ TrapDoes(w)
               \/ PostResultDoes(w)
        PROVE  QueueOK(w)'
    <2>1. ~(ready[w] # <<>> /\ Turn(w).at = "next")
      BY <1>5 DEF StoreModuleDoes, MakeArgsDoes, FetchEndsDoes, ArgsMadeDoes, RepostDoes,
                  ThrowsDoes, CallMainDoes, Compiles, TrapDoes, PostResultDoes, Runs
    <2>2. ASSUME Dropped(ready[w], ready'[w]), msgQueue'[w] = msgQueue[w]
          PROVE  QueueOK(w)'
      <3>1. Cardinality(Nexts(ready'[w])) = Cardinality(Nexts(ready[w]))
        BY <1>0, <2>1, <2>2, NextsDropped DEF Turn
      <3> QED BY <1>0, <2>2, <3>1 DEF QueueOK
    <2>3. ASSUME NEW t, Moved(ready[w], ready'[w], t),
                 \/ msgQueue'[w] = msgQueue[w]
                 \/ t.at = "next" /\ Len(msgQueue'[w]) = Len(msgQueue[w]) + 1
          PROVE  QueueOK(w)'
      <3>1. t \in Turns(w)
        BY <1>0, <2>3, MovedIn DEF WorkerTypesOK
      <3> QED BY <2>1, <2>3, <3>1, RunQueue
    <2>4. CASE RepostDoes(w)
      <3>1. /\ Moved(ready[w], ready'[w], At(Turn(w).job, "next"))
            /\ msgQueue'[w] = Append(msgQueue[w], Turn(w).job) /\ ready[w] # <<>>
        BY <2>4 DEF RepostDoes, Runs
      <3>2. Len(msgQueue'[w]) = Len(msgQueue[w]) + 1
        BY <1>0, <3>1, HeadTurn, LengthsOfQueues
      <3>3. At(Turn(w).job, "next").at = "next"
        BY DEF At
      <3> QED BY <2>3, <3>1, <3>2, <3>3
    <2>5. ASSUME ~RepostDoes(w)
          PROVE  /\ msgQueue'[w] = msgQueue[w]
                 /\ \/ Dropped(ready[w], ready'[w])
                    \/ \E t : Moved(ready[w], ready'[w], t)
      BY <1>5, <2>5 DEF StoreModuleDoes, MakeArgsDoes, FetchEndsDoes, ArgsMadeDoes,
                        ThrowsDoes, CallMainDoes, Compiles, TrapDoes, PostResultDoes, Runs,
                        KeepsQueues
    <2> QED BY <2>2, <2>3, <2>4, <2>5
  <1> QED BY <1>1, <1>2, <1>3, <1>4, <1>5 DEF WorkDoes
-----------------------------------------------------------------------------
(* One job inside #exec.                                                   *)

InsideReady(w) == {i \in DOMAIN ready[w] : InExec(ready[w][i])}
InsideWaiting(w) == {i \in DOMAIN waiting[w] : waiting[w][i].then = "call"}

LEMMA InsideIs ==
  ASSUME NEW w \in WorkerTypes
  PROVE  InsideOK(w) <=>
         /\ \A i \in InsideReady(w) : ready[w][i].job.trace = capture[w]
         /\ \A i \in InsideWaiting(w) : waiting[w][i].job.trace = capture[w]
         /\ \A i, j \in InsideReady(w) : i = j
         /\ \A i, j \in InsideWaiting(w) : i = j
         /\ InsideReady(w) = {} \/ InsideWaiting(w) = {}
  BY DEF InsideOK, InsideReady, InsideWaiting

(* When the head is inside, it alone is.                                   *)
LEMMA HeadAlone ==
  ASSUME NEW w \in WorkerTypes, WorkerTypesOK(w), InsideOK(w), ready[w] # <<>>, InExec(Turn(w))
  PROVE  InsideReady(w) = {1} /\ InsideWaiting(w) = {} /\ Turn(w).job.trace = capture[w]
  <1>1. Turn(w) = ready[w][1] /\ 1 \in DOMAIN ready[w]
    BY HeadTurn
  <1>2. 1 \in InsideReady(w)
    BY <1>1 DEF InsideReady
  <1> QED BY <1>1, <1>2, InsideIs

(* The list after a turn t was added that is inside if the head was.       *)
LEMMA InsideMoved ==
  ASSUME NEW w \in WorkerTypes, WorkerTypesOK(w), InsideOK(w), NEW t \in Turns(w),
         Moved(ready[w], ready'[w], t), waiting'[w] = waiting[w], capture'[w] = capture[w],
         InExec(t) => ready[w] # <<>> /\ InExec(Turn(w)) /\ t.job = Turn(w).job
  PROVE  InsideOK(w)'
  <1> DEFINE s == ready[w]
             r == ready'[w]
             R == {i \in DOMAIN r : InExec(r[i])}
  <1>1. /\ r # <<>> /\ Len(r) \in DOMAIN r /\ r[Len(r)] = t
        /\ \A j \in DOMAIN r : j \in Nat
             /\ \/ j = Len(r)
                \/ j < Len(r) /\ 1 < j + 1 /\ j + 1 \in DOMAIN s /\ r[j] = s[j + 1]
    BY MovedAt DEF WorkerTypesOK
  <1>2. InsideReady(w)' = R /\ InsideWaiting(w)' = InsideWaiting(w)
    BY DEF InsideReady, InsideWaiting
  <1>3. InsideWaiting(w)' = {i \in DOMAIN waiting'[w] : waiting'[w][i].then = "call"}
    BY DEF InsideWaiting
  <1>4. \A j \in R : j # Len(r) => j \in Nat /\ j + 1 # 1 /\ j + 1 \in InsideReady(w)
                                     /\ r[j] = s[j + 1]
    BY <1>1 DEF InsideReady
  <1>5. /\ \A i \in InsideReady(w) : s[i].job.trace = capture[w]
        /\ \A i \in InsideWaiting(w) : waiting[w][i].job.trace = capture[w]
        /\ \A i, j \in InsideReady(w) : i = j
        /\ \A i, j \in InsideWaiting(w) : i = j
        /\ InsideReady(w) = {} \/ InsideWaiting(w) = {}
    BY InsideIs
  <1>6. CASE InExec(t)
    <2>1. InsideReady(w) = {1} /\ InsideWaiting(w) = {} /\ t.job.trace = capture[w]
      BY <1>6, HeadAlone
    <2>2. \A j \in R : j = Len(r)
      BY <1>4, <2>1
    <2>3. \A j \in R : r[j].job.trace = capture'[w]
      BY <1>1, <2>1, <2>2
    <2> HIDE DEF R, r, s
    <2> QED BY <1>2, <2>1, <2>2, <2>3 DEF InsideOK, InsideReady, InsideWaiting, r, R
  <1>7. CASE ~InExec(t)
    <2>1. \A j \in R : j # Len(r)
      BY <1>1, <1>7
    <2>2. \A j \in R : j \in Nat /\ j + 1 \in InsideReady(w) /\ r[j] = s[j + 1]
      BY <1>4, <2>1
    <2>3. \A i, j \in R : i = j
      BY <1>5, <2>2
    <2>4. \A j \in R : r[j].job.trace = capture'[w]
      BY <1>5, <2>2
    <2>5. R = {} \/ InsideWaiting(w) = {}
      BY <1>5, <2>2
    <2> HIDE DEF R, r, s
    <2> QED BY <1>2, <1>5, <2>3, <2>4, <2>5 DEF InsideOK, InsideReady, InsideWaiting, r, R
  <1> QED BY <1>6, <1>7

(* The head's turn was the last of its loop, or it waits for a load before *)
(* it is inside.                                                           *)
LEMMA InsideDropped ==
  ASSUME NEW w \in WorkerTypes, WorkerTypesOK(w), InsideOK(w),
         Dropped(ready[w], ready'[w]), capture'[w] = capture[w],
         \/ waiting'[w] = waiting[w]
         \/ \E a \in Awaits(w) : a.then = "args" /\ waiting'[w] = Append(waiting[w], a)
  PROVE  InsideOK(w)'
  <1> DEFINE s == ready[w]
             r == ready'[w]
             R == {i \in DOMAIN r : InExec(r[i])}
             W == {i \in DOMAIN waiting'[w] : waiting'[w][i].then = "call"}
  <1>1. \A j \in DOMAIN r : j \in Nat /\ 1 < j + 1 /\ j + 1 \in DOMAIN s /\ r[j] = s[j + 1]
    BY DroppedAt DEF WorkerTypesOK
  <1>2. /\ \A i \in InsideReady(w) : s[i].job.trace = capture[w]
        /\ \A i \in InsideWaiting(w) : waiting[w][i].job.trace = capture[w]
        /\ \A i, j \in InsideReady(w) : i = j
        /\ \A i, j \in InsideWaiting(w) : i = j
        /\ InsideReady(w) = {} \/ InsideWaiting(w) = {}
    BY InsideIs
  <1>3. \A i \in W : i \in InsideWaiting(w) /\ waiting'[w][i] = waiting[w][i]
    <2>1. CASE waiting'[w] = waiting[w]
      BY <2>1 DEF InsideWaiting
    <2>2. ASSUME NEW a \in Awaits(w), a.then = "args", waiting'[w] = Append(waiting[w], a)
          PROVE  \A i \in W : i \in InsideWaiting(w) /\ waiting'[w][i] = waiting[w][i]
      <3> DEFINE q == waiting[w]
      <3>1. q \in Seq(Awaits(w))
        BY DEF WorkerTypesOK
      <3> HIDE DEF q
      <3>2. /\ Len(q) \in Nat /\ DOMAIN q = 1..Len(q)
            /\ DOMAIN Append(q, a) = 1..(Len(q) + 1) /\ Append(q, a)[Len(q) + 1] = a
            /\ \A j \in 1..Len(q) : Append(q, a)[j] = q[j]
        BY <3>1, AppendProperties, LenProperties
      <3>3. waiting'[w] = Append(q, a)
        BY <2>2 DEF q
      <3>4. \A i \in W : i \in 1..Len(q) /\ waiting'[w][i] = q[i]
        BY <2>2, <3>2, <3>3
      <3> QED BY <3>2, <3>4 DEF InsideWaiting, q
    <2> QED BY <2>1, <2>2
  <1>4. \A j \in R : j \in Nat /\ j + 1 \in InsideReady(w) /\ r[j] = s[j + 1]
    BY <1>1 DEF InsideReady
  <1>5. InsideReady(w)' = R /\ InsideWaiting(w)' = W
    BY DEF InsideReady, InsideWaiting
  <1>6. \A i, j \in R : i = j
    BY <1>2, <1>4
  <1>7. (\A i, j \in W : i = j) /\ (R = {} \/ W = {})
    BY <1>2, <1>3, <1>4
  <1>8. \A j \in R : r[j].job.trace = capture'[w]
    BY <1>2, <1>4
  <1>9. \A j \in W : waiting'[w][j].job.trace = capture'[w]
    BY <1>2, <1>3
  <1> HIDE DEF R, r, s, W
  <1> QED BY <1>6, <1>7, <1>8, <1>9 DEF InsideOK, r, R, W

(* #exec is left.                                                          *)
LEMMA InsideLeft ==
  ASSUME NEW w \in WorkerTypes, WorkerTypesOK(w), InsideOK(w), NEW t \in Turns(w),
         ready[w] # <<>>, InExec(Turn(w)), ~InExec(t),
         Moved(ready[w], ready'[w], t), waiting'[w] = waiting[w]
  PROVE  InsideOK(w)'
  <1> DEFINE s == ready[w]
             r == ready'[w]
             R == {i \in DOMAIN r : InExec(r[i])}
  <1>1. InsideReady(w) = {1} /\ InsideWaiting(w) = {}
    BY HeadAlone
  <1>2. /\ r # <<>> /\ Len(r) \in DOMAIN r /\ r[Len(r)] = t
        /\ \A j \in DOMAIN r : j \in Nat
             /\ \/ j = Len(r)
                \/ j < Len(r) /\ 1 < j + 1 /\ j + 1 \in DOMAIN s /\ r[j] = s[j + 1]
    BY MovedAt DEF WorkerTypesOK
  <1>3. \A j \in R : j # Len(r) /\ j + 1 \in InsideReady(w) /\ j + 1 # 1
    BY <1>2 DEF InsideReady
  <1>4. R = {}
    BY <1>1, <1>3
  <1>5. {i \in DOMAIN waiting'[w] : waiting'[w][i].then = "call"} = {}
    BY <1>1 DEF InsideWaiting
  <1> QED BY <1>4, <1>5 DEF InsideOK

(* #exec is entered, when the capture is free.                             *)
LEMMA InsideEntered ==
  ASSUME NEW w \in WorkerTypes, WorkerTypesOK(w), InsideOK(w), ExecDoes(w)
  PROVE  InsideOK(w)'
  <1> DEFINE s == ready[w]
             r == ready'[w]
             job == Turn(w).job
             R == {i \in DOMAIN r : InExec(r[i])}
             W == {i \in DOMAIN waiting'[w] : waiting'[w][i].then = "call"}
  <1>0. /\ s # <<>> /\ capture[w] = None /\ capture'[w] = job.trace /\ Waits(w, job, "call")
        /\ job \in Jobs(w) /\ s \in Seq(Turns(w)) /\ waiting[w] \in Seq(Awaits(w))
        /\ promise[w].id \in Nat
    BY HeadTurn DEF ExecDoes, WorkerTypesOK, Promises
  <1>1. /\ \A i \in DOMAIN s : s[i].job \in Jobs(w)
        /\ \A i \in DOMAIN waiting[w] : waiting[w][i].job \in Jobs(w)
    <2>1. /\ \A i \in DOMAIN s : s[i] \in Turns(w)
          /\ \A i \in DOMAIN waiting[w] : waiting[w][i] \in Awaits(w)
      BY <1>0, LenProperties, ElementOfSeq
    <2> QED BY <2>1, TurnIs DEF Awaits
  <1>2. InsideReady(w) = {} /\ InsideWaiting(w) = {}
    <2>1. \A j \in Jobs(w) : j.trace # None
      BY GenerationsAreNumbers DEF Jobs, None
    <2> QED BY <1>0, <1>1, <2>1, InsideIs DEF InsideReady, InsideWaiting
  <1>3. ASSUME NEW t, t.job = job, Moved(s, r, t), t \in Turns(w), waiting'[w] = waiting[w]
        PROVE  InsideOK(w)'
    <2>1. /\ Len(r) \in DOMAIN r /\ r[Len(r)] = t
          /\ \A j \in DOMAIN r : j \in Nat
               /\ \/ j = Len(r)
                  \/ j < Len(r) /\ 1 < j + 1 /\ j + 1 \in DOMAIN s /\ r[j] = s[j + 1]
      BY <1>0, <1>3, MovedAt
    <2>2. \A j \in R : j = Len(r)
      BY <1>2, <2>1 DEF InsideReady
    <2>3. \A j \in R : r[j].job.trace = capture'[w]
      BY <1>0, <1>3, <2>1, <2>2
    <2>4. W = {}
      BY <1>2, <1>3 DEF InsideWaiting
    <2> HIDE DEF R, r, s, W
    <2> QED BY <2>2, <2>3, <2>4 DEF InsideOK, r, R, W
  <1>4. CASE Moved(s, r, At(job, "call")) /\ waiting'[w] = waiting[w]
    <2>1. At(job, "call") \in Turns(w) /\ At(job, "call").job = job
      <3>1. "call" \in Steps
        BY DEF Steps
      <3>2. MadeAt(w, job, "call")
        BY <1>0, <3>1, AtMade
      <3> QED BY <3>2 DEF MadeAt
    <2> QED BY <1>3, <1>4, <2>1
  <1>5. CASE /\ Moved(s, r, Resumed(Awaiting(job, "call"), promise[w].id))
             /\ waiting'[w] = waiting[w]
    <2>1. /\ Resumed(Awaiting(job, "call"), promise[w].id) \in Turns(w)
          /\ Resumed(Awaiting(job, "call"), promise[w].id).job = Awaiting(job, "call").job
      BY <1>0, TurnMade
    <2>2. Awaiting(job, "call").job = job
      BY DEF Awaiting
    <2> QED BY <1>3, <1>5, <2>1, <2>2
  <1>6. CASE Dropped(s, r) /\ waiting'[w] = Append(waiting[w], Awaiting(job, "call"))
    <2> DEFINE q == waiting[w]
               a == Awaiting(job, "call")
    <2>1. \A j \in DOMAIN r : j \in Nat /\ j + 1 \in DOMAIN s /\ r[j] = s[j + 1]
      BY <1>0, <1>6, DroppedAt
    <2>2. R = {}
      BY <1>2, <2>1 DEF InsideReady
    <2>3. q \in Seq(Awaits(w)) /\ a \in Awaits(w) /\ a.job = job
      BY <1>0 DEF Awaiting, Awaits
    <2>4. \A i \in DOMAIN q : q[i].then # "call"
      BY <1>2 DEF InsideWaiting
    <2> HIDE DEF q, a
    <2>5. /\ Len(q) \in Nat /\ DOMAIN q = 1..Len(q)
          /\ DOMAIN Append(q, a) = 1..(Len(q) + 1) /\ Append(q, a)[Len(q) + 1] = a
          /\ \A j \in 1..Len(q) : Append(q, a)[j] = q[j]
      BY <2>3, AppendProperties, LenProperties
    <2>6. waiting'[w] = Append(q, a)
      BY <1>6 DEF q, a
    <2>7. \A i \in W : i = Len(q) + 1 /\ waiting'[w][i] = a
      BY <2>4, <2>5, <2>6
    <2>8. \A i \in W : waiting'[w][i].job.trace = capture'[w]
      BY <1>0, <2>3, <2>7
    <2> HIDE DEF R, W
    <2> QED BY <2>2, <2>7, <2>8 DEF InsideOK, R, W
  <1> QED BY <1>0, <1>4, <1>5, <1>6 DEF Waits

(* The head of the loop adds nobody that is inside.                        *)
LEMMA InsideLoops ==
  ASSUME NEW w \in WorkerTypes, WorkerTypesOK(w), InsideOK(w), NEW queue \in Seq(Jobs(w)),
         Loops(w, queue), capture'[w] = capture[w]
  PROVE  InsideOK(w)'
  <1>1. CASE Dropped(ready[w], ready'[w]) /\ waiting'[w] = waiting[w]
    BY <1>1, InsideDropped
  <1>2. CASE queue # <<>> /\ Waits(w, Head(queue), "args")
    <2> DEFINE job == Head(queue)
    <2>1. job \in Jobs(w) /\ promise[w].id \in Nat
      BY <1>2, HeadTailProperties DEF WorkerTypesOK, Promises
    <2>2. Waits(w, job, "args")
      BY <1>2
    <2> HIDE DEF job
    <2>3. Awaiting(job, "args") \in Awaits(w) /\ Awaiting(job, "args").then = "args"
      BY <2>1 DEF Awaiting, Awaits
    <2>4. CASE Moved(ready[w], ready'[w], At(job, "args")) /\ waiting'[w] = waiting[w]
      <3>1. At(job, "args") \in Turns(w) /\ At(job, "args").at = "args"
        <4>1. "args" \in Steps
          BY DEF Steps
        <4>2. MadeAt(w, job, "args")
          BY <2>1, <4>1, AtMade
        <4> QED BY <4>2 DEF MadeAt
      <3>2. ~InExec(At(job, "args"))
        BY <3>1 DEF InExec
      <3> QED BY <2>4, <3>1, <3>2, InsideMoved
    <2>5. CASE Dropped(ready[w], ready'[w])
                 /\ waiting'[w] = Append(waiting[w], Awaiting(job, "args"))
      BY <2>3, <2>5, InsideDropped
    <2>6. CASE /\ Moved(ready[w], ready'[w], Resumed(Awaiting(job, "args"), promise[w].id))
               /\ waiting'[w] = waiting[w]
      <3> DEFINE t == Resumed(Awaiting(job, "args"), promise[w].id)
      <3>1. t \in Turns(w) /\ t.at = "resumed" /\ t.then = Awaiting(job, "args").then
        BY <2>1, <2>3, TurnMade
      <3> HIDE DEF t
      <3>2. ~InExec(t)
        BY <2>3, <3>1 DEF InExec
      <3>3. Moved(ready[w], ready'[w], t)
        BY <2>6 DEF t
      <3> QED BY <2>6, <3>1, <3>2, <3>3, InsideMoved
    <2> QED BY <2>2, <2>4, <2>5, <2>6 DEF Waits
  <1> QED BY <1>1, <1>2 DEF Loops

LEMMA InsideKept ==
  ASSUME NEW w \in WorkerTypes, WorkerTypesOK(w), InsideOK(w), WorkDoes(w)
  PROVE  InsideOK(w)'
  <1>1. CASE OnMessageDoes(w)
    <2>1. Append(msgQueue[w], Head(inbox[w])) \in Seq(Jobs(w))
      BY <1>1, LengthsOfQueues DEF OnMessageDoes, WorkerTypesOK
    <2> QED BY <1>1, <2>1, InsideLoops DEF OnMessageDoes, KeepsRest
  <1>2. CASE GoesOnDoes(w)
    BY <1>2, InsideLoops DEF GoesOnDoes, KeepsRest, WorkerTypesOK
  <1>3. CASE LoadEndsDoes(w)
    <2>1. /\ waiting[w] \in Seq(Awaits(w)) /\ waiting'[w] = <<>> /\ capture'[w] = capture[w]
          /\ ready'[w] = [i \in DOMAIN waiting[w] |-> Resumed(waiting[w][i], promise[w].id)]
      BY <1>3 DEF LoadEndsDoes, WorkerTypesOK
    <2>2. \A i \in DOMAIN ready'[w] : i \in DOMAIN waiting[w] /\ ready'[w][i].at = "resumed"
            /\ ready'[w][i].job = waiting[w][i].job /\ ready'[w][i].then = waiting[w][i].then
      BY <2>1 DEF Resumed
    <2>3. \A i \in DOMAIN ready'[w] : InExec(ready'[w][i]) => i \in InsideWaiting(w)
      BY <2>2 DEF InExec, InsideWaiting
    <2>4. DOMAIN waiting'[w] = {}
      BY <2>1
    <2>5. /\ \A i \in InsideWaiting(w) : waiting[w][i].job.trace = capture[w]
          /\ \A i, j \in InsideWaiting(w) : i = j
      BY InsideIs
    <2>6. InsideReady(w)' \subseteq InsideWaiting(w) /\ InsideWaiting(w)' = {}
      BY <2>3, <2>4 DEF InsideReady, InsideWaiting
    <2>7. \A i \in InsideReady(w)' : ready'[w][i].job.trace = capture'[w]
      BY <2>1, <2>2, <2>5, <2>6 DEF InsideReady
    <2> QED BY <2>5, <2>6, <2>7 DEF InsideOK, InsideReady, InsideWaiting
  <1>4. CASE ExecDoes(w)
    BY <1>4, InsideEntered
  <1>5. CASE StoreModuleDoes(w)
    <2>1. PICK a \in {"thrown", "load failed", Turn(w).then} :
            /\ Runs(w, {"resumed"}, At(Turn(w).job, a))
            /\ ~Fails(w) => a = Turn(w).then
            /\ Fails(w) => a = IF Turn(w).then = "args" THEN "thrown" ELSE "load failed"
      BY <1>5 DEF StoreModuleDoes
    <2>2. ready[w] # <<>> /\ Turn(w).at = "resumed"
          /\ Moved(ready[w], ready'[w], At(Turn(w).job, a)) /\ waiting'[w] = waiting[w]
      BY <2>1 DEF Runs
    <2>3. Turn(w).job \in Jobs(w) /\ Turn(w).then \in {"args", "call"}
      BY <2>2, HeadTurn
    <2>4. a \in Steps
      BY <2>1, <2>3 DEF Steps
    <2> DEFINE t == At(Turn(w).job, a)
    <2>5. t \in Turns(w) /\ t.at = a /\ t.job = Turn(w).job
      <3>1. MadeAt(w, Turn(w).job, a)
        BY <2>3, <2>4, AtMade
      <3> QED BY <3>1 DEF MadeAt
    <2> HIDE DEF t
    <2>6. InExec(t) => InExec(Turn(w))
      BY <2>1, <2>2, <2>3, <2>4, <2>5 DEF InExec, Steps
    <2>7. Moved(ready[w], ready'[w], t)
      BY <2>2 DEF t
    <2>8. capture'[w] = capture[w]
      BY <1>5 DEF StoreModuleDoes
    <2> QED BY <2>2, <2>5, <2>6, <2>7, <2>8, InsideMoved
  <1>6. CASE MakeArgsDoes(w)
    <2>0. ready[w] # <<>> /\ capture'[w] = capture[w] /\ waiting'[w] = waiting[w]
      BY <1>6 DEF MakeArgsDoes, Runs
    <2>1. CASE Dropped(ready[w], ready'[w])
      BY <2>0, <2>1, InsideDropped
    <2>2. ASSUME NEW a \in {"exec", "no module", "args made"},
                 Moved(ready[w], ready'[w], At(Turn(w).job, a))
          PROVE  InsideOK(w)'
      <3>1. a \in Steps /\ Turn(w).job \in Jobs(w)
        BY <2>0, HeadTurn DEF Steps
      <3>2. At(Turn(w).job, a) \in Turns(w) /\ At(Turn(w).job, a).at = a
        <4>1. MadeAt(w, Turn(w).job, a)
          BY <3>1, AtMade
        <4> QED BY <4>1 DEF MadeAt
      <3>3. ~InExec(At(Turn(w).job, a))
        BY <3>2 DEF InExec
      <3> QED BY <2>0, <2>2, <3>2, <3>3, InsideMoved
    <2> QED BY <1>6, <2>1, <2>2 DEF MakeArgsDoes, Runs
  <1>7. CASE FetchEndsDoes(w)
    <2>1. PICK f \in fetching[w] : \E a \in {"args made", "thrown"} :
            Moved(ready[w], ready'[w], At(f.job, a))
      BY <1>7 DEF FetchEndsDoes
    <2>2. PICK a \in {"args made", "thrown"} : Moved(ready[w], ready'[w], At(f.job, a))
      BY <2>1
    <2>3. a \in Steps /\ f.job \in Jobs(w)
      BY DEF Steps, WorkerTypesOK, Fetches
    <2>4. At(f.job, a) \in Turns(w) /\ At(f.job, a).at = a
      <3>1. MadeAt(w, f.job, a)
        BY <2>3, AtMade
      <3> QED BY <3>1 DEF MadeAt
    <2>5. ~InExec(At(f.job, a))
      BY <2>4 DEF InExec
    <2> QED BY <1>7, <2>2, <2>4, <2>5, InsideMoved DEF FetchEndsDoes
  <1>8. CASE ArgsMadeDoes(w) \/ RepostDoes(w)
    <2>1. PICK a \in {"thrown", "exec", "next"} :
            \E from : Runs(w, from, At(Turn(w).job, a))
      BY <1>8 DEF ArgsMadeDoes, RepostDoes
    <2>2. ready[w] # <<>> /\ Moved(ready[w], ready'[w], At(Turn(w).job, a))
          /\ waiting'[w] = waiting[w]
      BY <2>1 DEF Runs
    <2>3. a \in Steps /\ Turn(w).job \in Jobs(w)
      BY <2>2, HeadTurn DEF Steps
    <2>4. At(Turn(w).job, a) \in Turns(w) /\ At(Turn(w).job, a).at = a
      <3>1. MadeAt(w, Turn(w).job, a)
        BY <2>3, AtMade
      <3> QED BY <3>1 DEF MadeAt
    <2>5. ~InExec(At(Turn(w).job, a))
      BY <2>4 DEF InExec
    <2>6. capture'[w] = capture[w]
      BY <1>8 DEF ArgsMadeDoes, RepostDoes, KeepsRest
    <2> QED BY <2>2, <2>4, <2>5, <2>6, InsideMoved
  <1>9. CASE ThrowsDoes(w)
    <2>1. PICK a \in {"throws", "thrown"} :
            Runs(w, {"call", "throws", "load failed"}, At(Turn(w).job, a))
      BY <1>9 DEF ThrowsDoes, Runs
    <2>2. ready[w] # <<>> /\ Moved(ready[w], ready'[w], At(Turn(w).job, a))
          /\ waiting'[w] = waiting[w] /\ InExec(Turn(w))
      BY <2>1 DEF Runs, InExec
    <2>3. a \in Steps /\ Turn(w).job \in Jobs(w)
      BY <2>2, HeadTurn DEF Steps
    <2>4. At(Turn(w).job, a) \in Turns(w) /\ At(Turn(w).job, a).job = Turn(w).job
      <3>1. MadeAt(w, Turn(w).job, a)
        BY <2>3, AtMade
      <3> QED BY <3>1 DEF MadeAt
    <2>5. capture'[w] = capture[w]
      BY <1>9 DEF ThrowsDoes, KeepsRest
    <2> QED BY <2>2, <2>4, <2>5, InsideMoved
  <1>10. CASE CallMainDoes(w) \/ TrapDoes(w)
    <2>1. PICK t : Runs(w, {"call"}, t)
      BY <1>10 DEF CallMainDoes, Compiles, TrapDoes
    <2>2. ready[w] # <<>> /\ Turn(w).at = "call" /\ Moved(ready[w], ready'[w], t)
          /\ t.job = Turn(w).job /\ waiting'[w] = waiting[w]
      BY <2>1 DEF Runs
    <2>3. t \in Turns(w)
      BY <2>2, MovedIn, TypesKept DEF WorkerTypesOK
    <2>4. InExec(Turn(w)) /\ capture'[w] = capture[w]
      BY <1>10, <2>2 DEF InExec, CallMainDoes, TrapDoes, KeepsRest
    <2> QED BY <2>2, <2>3, <2>4, InsideMoved
  <1>11. CASE PostResultDoes(w)
    <2>1. ready[w] # <<>> /\ Turn(w).at = "returned" /\ waiting'[w] = waiting[w]
          /\ Moved(ready[w], ready'[w], At(Turn(w).job, "next"))
      BY <1>11 DEF PostResultDoes, Runs
    <2>2. "next" \in Steps /\ Turn(w).job \in Jobs(w)
      BY <2>1, HeadTurn DEF Steps
    <2>3. At(Turn(w).job, "next") \in Turns(w) /\ At(Turn(w).job, "next").at = "next"
      <3>1. MadeAt(w, Turn(w).job, "next")
        BY <2>2, AtMade
      <3> QED BY <3>1 DEF MadeAt
    <2>4. InExec(Turn(w)) /\ ~InExec(At(Turn(w).job, "next"))
      BY <2>1, <2>3 DEF InExec
    <2> QED BY <2>1, <2>3, <2>4, InsideLeft
  <1> QED BY <1>1, <1>2, <1>3, <1>4, <1>5, <1>6, <1>7, <1>8, <1>9, <1>10, <1>11
      DEF WorkDoes
-----------------------------------------------------------------------------
(* json2cpp2's list of turns: what stands in it, and what behind what.     *)

TailHas(s, a) == \E i \in DOMAIN s : i # 1 /\ s[i].at = a
TailPair(s, a, b) == \E i, j \in DOMAIN s : i # 1 /\ i < j /\ s[i].at = a /\ s[j].at = b

LEMMA BehindIs ==
  /\ Behind("resumed") = {"resumed", "args", "thrown"}
  /\ Behind("args") = {"args", "exec", "next"}
  /\ Behind("exec") = {"exec", "call", "next"}
  /\ Behind("call") = {"next"}
  /\ Behind("returned") = {"args"}
  /\ Behind("next") = {"next", "returned", "args", "exec"}
  /\ Behind("thrown") = {"thrown"}
  BY DEF Behind

(* The head stands before all others.                                      *)
LEMMA HeadFirst ==
  ASSUME NEW S, NEW s \in Seq(S)
  PROVE  /\ \A a : TailHas(s, a) => Has(s, a)
         /\ \A a : s # <<>> => (Has(s, a) <=> (Head(s).at = a \/ TailHas(s, a)))
         /\ \A a : TailHas(s, a) => s # <<>> /\ Pair(s, Head(s).at, a)
         /\ \A a, b : TailPair(s, a, b) =>
              Pair(s, a, b) /\ TailHas(s, a) /\ TailHas(s, b)
         /\ s = <<>> => \A a : ~Has(s, a)
  <1>1. /\ \A k \in DOMAIN s : k \in Nat /\ 1 <= k
        /\ s # <<>> => Head(s) = s[1] /\ 1 \in DOMAIN s
    BY RestAt
  <1>2. \A a : TailHas(s, a) => Has(s, a) /\ s # <<>>
    BY DEF TailHas, Has, Ats
  <1>3. \A a : s # <<>> => (Has(s, a) <=> (Head(s).at = a \/ TailHas(s, a)))
    BY <1>1 DEF TailHas, Has, Ats
  <1>4. ASSUME NEW a, TailHas(s, a) PROVE Pair(s, Head(s).at, a)
    <2>1. PICK j \in DOMAIN s : j # 1 /\ s[j].at = a
      BY <1>4 DEF TailHas
    <2>2. 1 \in DOMAIN s /\ 1 < j /\ s[1].at = Head(s).at
      BY <1>1, <1>2, <1>4, <2>1
    <2> QED BY <2>1, <2>2 DEF Pair
  <1>5. ASSUME NEW a, NEW b, TailPair(s, a, b)
        PROVE  Pair(s, a, b) /\ TailHas(s, a) /\ TailHas(s, b)
    <2>1. PICK i \in DOMAIN s : \E j \in DOMAIN s : i # 1 /\ i < j /\ s[i].at = a /\ s[j].at = b
      BY <1>5 DEF TailPair
    <2>2. PICK j \in DOMAIN s : i # 1 /\ i < j /\ s[i].at = a /\ s[j].at = b
      BY <2>1
    <2>3. j # 1
      BY <1>1, <2>1, <2>2
    <2> QED BY <2>2, <2>3 DEF Pair, TailHas
  <1>6. s = <<>> => \A a : ~Has(s, a)
    BY DEF Has, Ats
  <1> QED BY <1>2, <1>3, <1>4, <1>5, <1>6

LEMMA AtsMoved ==
  ASSUME NEW S, NEW s \in Seq(S), NEW t \in S, NEW r, Moved(s, r, t)
  PROVE  /\ \A a : Has(r, a) <=> (a = t.at \/ TailHas(s, a))
         /\ \A a, b : Pair(r, a, b) => TailPair(s, a, b) \/ (TailHas(s, a) /\ b = t.at)
  <1>1. /\ Len(r) \in DOMAIN r /\ r[Len(r)] = t
        /\ \A j \in DOMAIN r : j \in Nat
             /\ \/ j = Len(r)
                \/ j < Len(r) /\ 1 < j + 1 /\ j + 1 \in DOMAIN s /\ r[j] = s[j + 1]
        /\ \A k \in DOMAIN s : k # 1 => k - 1 \in DOMAIN r /\ r[k - 1] = s[k] /\ k - 1 < Len(r)
    BY MovedAt
  <1>2. ASSUME NEW a PROVE Has(r, a) <=> (a = t.at \/ TailHas(s, a))
    <2>1. ASSUME Has(r, a) PROVE a = t.at \/ TailHas(s, a)
      <3>1. PICK j \in DOMAIN r : r[j].at = a
        BY <2>1 DEF Has, Ats
      <3>2. CASE j = Len(r)
        BY <1>1, <3>1, <3>2
      <3>3. CASE 1 < j + 1 /\ j + 1 \in DOMAIN s /\ r[j] = s[j + 1]
        <4>1. j + 1 # 1
          BY <1>1, <3>3
        <4> QED BY <3>1, <3>3, <4>1 DEF TailHas
      <3> QED BY <1>1, <3>2, <3>3
    <2>2. a = t.at => Has(r, a)
      BY <1>1 DEF Has, Ats
    <2>3. TailHas(s, a) => Has(r, a)
      BY <1>1 DEF Has, Ats, TailHas
    <2> QED BY <2>1, <2>2, <2>3
  <1>3. ASSUME NEW a, NEW b, Pair(r, a, b)
        PROVE  TailPair(s, a, b) \/ (TailHas(s, a) /\ b = t.at)
    <2>1. PICK i \in DOMAIN r : \E j \in DOMAIN r : i < j /\ r[i].at = a /\ r[j].at = b
      BY <1>3 DEF Pair
    <2>2. PICK j \in DOMAIN r : i < j /\ r[i].at = a /\ r[j].at = b
      BY <2>1
    <2>3. i \in Nat /\ j \in Nat /\ i + 1 \in DOMAIN s /\ i + 1 # 1 /\ r[i] = s[i + 1]
      <3>1. i # Len(r)
        BY <1>1, <2>2
      <3> QED BY <1>1, <3>1
    <2>4. TailHas(s, a)
      BY <2>2, <2>3 DEF TailHas
    <2>5. CASE j = Len(r)
      BY <1>1, <2>2, <2>4, <2>5
    <2>6. CASE j + 1 \in DOMAIN s /\ r[j] = s[j + 1]
      <3>1. i + 1 < j + 1
        BY <2>2, <2>3
      <3> QED BY <2>2, <2>3, <2>6, <3>1 DEF TailPair
    <2> QED BY <1>1, <2>5, <2>6
  <1> QED BY <1>2, <1>3

LEMMA AtsDropped ==
  ASSUME NEW S, NEW s \in Seq(S), NEW r, Dropped(s, r)
  PROVE  /\ \A a : Has(r, a) <=> TailHas(s, a)
         /\ \A a, b : Pair(r, a, b) => TailPair(s, a, b)
  <1>1. /\ \A j \in DOMAIN r : j \in Nat /\ 1 < j + 1 /\ j + 1 \in DOMAIN s /\ r[j] = s[j + 1]
        /\ \A k \in DOMAIN s : k # 1 => k - 1 \in DOMAIN r /\ r[k - 1] = s[k]
    BY DroppedAt
  <1>2. ASSUME NEW a PROVE Has(r, a) <=> TailHas(s, a)
    <2>1. ASSUME Has(r, a) PROVE TailHas(s, a)
      <3>1. PICK j \in DOMAIN r : r[j].at = a
        BY <2>1 DEF Has, Ats
      <3>2. j + 1 # 1 /\ j + 1 \in DOMAIN s /\ r[j] = s[j + 1]
        BY <1>1
      <3> QED BY <3>1, <3>2 DEF TailHas
    <2>2. TailHas(s, a) => Has(r, a)
      BY <1>1 DEF Has, Ats, TailHas
    <2> QED BY <2>1, <2>2
  <1>3. ASSUME NEW a, NEW b, Pair(r, a, b) PROVE TailPair(s, a, b)
    <2>1. PICK i \in DOMAIN r : \E j \in DOMAIN r : i < j /\ r[i].at = a /\ r[j].at = b
      BY <1>3 DEF Pair
    <2>2. PICK j \in DOMAIN r : i < j /\ r[i].at = a /\ r[j].at = b
      BY <2>1
    <2>3. /\ i + 1 \in DOMAIN s /\ i + 1 # 1 /\ r[i] = s[i + 1]
          /\ j + 1 \in DOMAIN s /\ r[j] = s[j + 1] /\ i + 1 < j + 1
      BY <1>1, <2>2
    <2> QED BY <2>2, <2>3 DEF TailPair
  <1> QED BY <1>2, <1>3

(* A third turn stands behind the first, or before the second.             *)
LEMMA PairOrder ==
  ASSUME NEW S, NEW s \in Seq(S), NEW a, NEW b, NEW c, Pair(s, a, b), Has(s, c), c # a
  PROVE  Pair(s, a, c) \/ Pair(s, c, b)
  <1>1. PICK i \in DOMAIN s : \E j \in DOMAIN s : i < j /\ s[i].at = a /\ s[j].at = b
    BY DEF Pair
  <1>2. PICK j \in DOMAIN s : i < j /\ s[i].at = a /\ s[j].at = b
    BY <1>1
  <1>3. PICK k \in DOMAIN s : s[k].at = c
    BY DEF Has, Ats
  <1>4. i \in Nat /\ j \in Nat /\ k \in Nat
    BY RestAt
  <1>5. i < k \/ k < j
    BY <1>2, <1>3, <1>4
  <1>6. CASE i < k
    BY <1>2, <1>3, <1>6 DEF Pair
  <1>7. CASE k < j
    BY <1>2, <1>3, <1>7 DEF Pair
  <1> QED BY <1>5, <1>6, <1>7

LEMMA LineHead ==
  ASSUME NEW S, NEW s \in Seq(S), NEW queue, LineOK(s, queue), s # <<>>
  PROVE  /\ Head(s).at \in JsonSteps
         /\ \A b : TailHas(s, b) => b \in JsonSteps /\ b \in Behind(Head(s).at)
  <1>1. /\ \A a : TailHas(s, a) => Has(s, a) /\ Pair(s, Head(s).at, a)
        /\ Has(s, Head(s).at)
    BY HeadFirst
  <1>2. \A a : Has(s, a) => a \in JsonSteps
    BY DEF LineOK, Has
  <1> QED BY <1>1, <1>2 DEF LineOK

LEMMA LineMoved ==
  ASSUME NEW S, NEW s \in Seq(S), NEW queue, LineOK(s, queue),
         NEW t \in S, t.at \in JsonSteps, NEW r, Moved(s, r, t), NEW queue2,
         \A a \in JsonSteps : TailHas(s, a) => t.at \in Behind(a),
         TailPair(s, "exec", "next") \/ (TailHas(s, "exec") /\ t.at = "next")
           => TailHas(s, "call"),
         queue2 # <<>> =>
           /\ ~TailPair(s, "args", "next") /\ ~TailPair(s, "next", "exec")
           /\ ~(TailHas(s, "args") /\ t.at = "next") /\ ~(TailHas(s, "next") /\ t.at = "exec")
  PROVE  LineOK(r, queue2)
  <1>1. /\ \A a : Has(r, a) <=> (a = t.at \/ TailHas(s, a))
        /\ \A a, b : Pair(r, a, b) => TailPair(s, a, b) \/ (TailHas(s, a) /\ b = t.at)
    BY AtsMoved
  <1>2. /\ \A a : TailHas(s, a) => Has(s, a)
        /\ \A a, b : TailPair(s, a, b) => Pair(s, a, b)
    BY HeadFirst
  <1>3. \A a : Has(s, a) => a \in JsonSteps
    BY DEF LineOK, Has
  <1>4. \A a : Has(r, a) => a \in JsonSteps
    BY <1>1, <1>2, <1>3
  <1>5. \A a, b \in JsonSteps : Pair(r, a, b) => b \in Behind(a)
    BY <1>1, <1>2 DEF LineOK
  <1>6. Pair(r, "exec", "next") => Has(r, "call")
    BY <1>1
  <1>7. queue2 # <<>> => ~Pair(r, "args", "next") /\ ~Pair(r, "next", "exec")
    BY <1>1
  <1> QED BY <1>4, <1>5, <1>6, <1>7 DEF LineOK, Has

LEMMA LineDropped ==
  ASSUME NEW S, NEW s \in Seq(S), NEW queue, LineOK(s, queue),
         NEW r, Dropped(s, r), NEW queue2,
         TailPair(s, "exec", "next") => TailHas(s, "call"),
         queue2 # <<>> => ~TailPair(s, "args", "next") /\ ~TailPair(s, "next", "exec")
  PROVE  LineOK(r, queue2)
  <1>1. /\ \A a : Has(r, a) <=> TailHas(s, a)
        /\ \A a, b : Pair(r, a, b) => TailPair(s, a, b)
    BY AtsDropped
  <1>2. /\ \A a : TailHas(s, a) => Has(s, a)
        /\ \A a, b : TailPair(s, a, b) => Pair(s, a, b)
    BY HeadFirst
  <1>3. \A a : Has(s, a) => a \in JsonSteps
    BY DEF LineOK, Has
  <1>4. \A a : Has(r, a) => a \in JsonSteps
    BY <1>1, <1>2, <1>3
  <1>5. \A a, b \in JsonSteps : Pair(r, a, b) => b \in Behind(a)
    BY <1>1, <1>2 DEF LineOK
  <1> QED BY <1>1, <1>4, <1>5 DEF LineOK, Has

(* #callEmscriptenMain waits for no load.                                  *)
LEMMA ThensMoved ==
  ASSUME NEW w \in WorkerTypes, WorkerTypesOK(w), ThensOK(w), NEW t \in Turns(w),
         t.at = "resumed" => t.then = "args",
         Moved(ready[w], ready'[w], t), waiting'[w] = waiting[w]
  PROVE  ThensOK(w)'
  <1> DEFINE s == ready[w]
             r == ready'[w]
  <1>1. /\ r[Len(r)] = t
        /\ \A j \in DOMAIN r : j = Len(r) \/ (j + 1 \in DOMAIN s /\ r[j] = s[j + 1])
    BY MovedAt DEF WorkerTypesOK
  <1>2. \A j \in DOMAIN r : r[j].at = "resumed" => r[j].then = "args"
    BY <1>1 DEF ThensOK
  <1> QED BY <1>2 DEF ThensOK

LEMMA ThensDropped ==
  ASSUME NEW w \in WorkerTypes, WorkerTypesOK(w), ThensOK(w),
         Dropped(ready[w], ready'[w]),
         \/ waiting'[w] = waiting[w]
         \/ \E a \in Awaits(w) : a.then = "args" /\ waiting'[w] = Append(waiting[w], a)
  PROVE  ThensOK(w)'
  <1> DEFINE s == ready[w]
             r == ready'[w]
  <1>1. \A j \in DOMAIN r : j + 1 \in DOMAIN s /\ r[j] = s[j + 1]
    <2>1. s \in Seq(Turns(w)) /\ Dropped(s, r)
      BY DEF WorkerTypesOK
    <2> HIDE DEF s, r
    <2> QED BY <2>1, DroppedAt
  <1>2. \A j \in DOMAIN r : r[j].at = "resumed" => r[j].then = "args"
    BY <1>1 DEF ThensOK
  <1>3. \A i \in DOMAIN waiting'[w] : waiting'[w][i].then = "args"
    <2>1. CASE waiting'[w] = waiting[w]
      BY <2>1 DEF ThensOK
    <2>2. ASSUME NEW a \in Awaits(w), a.then = "args", waiting'[w] = Append(waiting[w], a)
          PROVE  \A i \in DOMAIN waiting'[w] : waiting'[w][i].then = "args"
      <3> DEFINE q == waiting[w]
      <3>1. q \in Seq(Awaits(w)) /\ \A i \in DOMAIN q : q[i].then = "args"
        BY DEF WorkerTypesOK, ThensOK
      <3>2. waiting'[w] = Append(q, a)
        BY <2>2
      <3> HIDE DEF q
      <3>3. /\ DOMAIN q = 1..Len(q)
            /\ DOMAIN Append(q, a) = 1..(Len(q) + 1) /\ Append(q, a)[Len(q) + 1] = a
            /\ \A j \in 1..Len(q) : Append(q, a)[j] = q[j]
            /\ Len(q) \in Nat
        BY <3>1, AppendProperties, LenProperties
      <3>4. \A i \in 1..(Len(q) + 1) : i \in 1..Len(q) \/ i = Len(q) + 1
        BY <3>3
      <3>5. \A i \in DOMAIN Append(q, a) : Append(q, a)[i].then = "args"
        BY <2>2, <3>1, <3>3, <3>4
      <3> QED BY <3>2, <3>5
    <2> QED BY <2>1, <2>2
  <1> QED BY <1>2, <1>3 DEF ThensOK

(* The head of the loop, where no turn that asks the module waits for one. *)
LEMMA ThensLoops ==
  ASSUME NEW w \in WorkerTypes, WorkerTypesOK(w), ThensOK(w),
         NEW queue \in Seq(Jobs(w)), Loops(w, queue)
  PROVE  ThensOK(w)'
  <1>1. CASE Dropped(ready[w], ready'[w]) /\ waiting'[w] = waiting[w]
    BY <1>1, ThensDropped
  <1>2. CASE queue # <<>> /\ Waits(w, Head(queue), "args")
    <2> DEFINE job == Head(queue)
    <2>1. job \in Jobs(w) /\ promise[w].id \in Nat
      BY <1>2, HeadTailProperties DEF WorkerTypesOK, Promises
    <2>2. Waits(w, job, "args")
      BY <1>2
    <2> HIDE DEF job
    <2>3. Awaiting(job, "args") \in Awaits(w) /\ Awaiting(job, "args").then = "args"
      BY <2>1 DEF Awaiting, Awaits
    <2>4. CASE Moved(ready[w], ready'[w], At(job, "args")) /\ waiting'[w] = waiting[w]
      <3>1. At(job, "args") \in Turns(w) /\ At(job, "args").at = "args"
        <4>1. "args" \in Steps
          BY DEF Steps
        <4>2. MadeAt(w, job, "args")
          BY <2>1, <4>1, AtMade
        <4> QED BY <4>2 DEF MadeAt
      <3> QED BY <2>4, <3>1, ThensMoved
    <2>5. CASE Dropped(ready[w], ready'[w])
                 /\ waiting'[w] = Append(waiting[w], Awaiting(job, "args"))
      BY <2>3, <2>5, ThensDropped
    <2>6. CASE /\ Moved(ready[w], ready'[w], Resumed(Awaiting(job, "args"), promise[w].id))
               /\ waiting'[w] = waiting[w]
      <3> DEFINE t == Resumed(Awaiting(job, "args"), promise[w].id)
      <3>1. t \in Turns(w) /\ t.then = Awaiting(job, "args").then
        BY <2>1, <2>3, TurnMade
      <3> HIDE DEF t
      <3>2. Moved(ready[w], ready'[w], t)
        BY <2>6 DEF t
      <3> QED BY <2>3, <2>6, <3>1, <3>2, ThensMoved
    <2> QED BY <2>2, <2>4, <2>5, <2>6 DEF Waits
  <1> QED BY <1>1, <1>2 DEF Loops

(* The requests of json2cpp2 have one form.                                *)
LEMMA JsonForm ==
  ASSUME NEW job \in Jobs("json2cpp2")
  PROVE  job.form = "json" /\ job.of # None
  BY GenerationsAreNumbers DEF Jobs, Forms, None

(* What holds before each step of json2cpp2 whose turn is at `h`.          *)
LEMMA JsonTurn ==
  ASSUME NEW w \in WorkerTypes, w = "json2cpp2", WorkerOK(w), ready[w] # <<>>
  PROVE  /\ Turn(w).at \in JsonSteps /\ Has(ready[w], Turn(w).at)
         /\ \A b : TailHas(ready[w], b) =>
              b \in JsonSteps /\ b \in Behind(Turn(w).at) /\ Has(ready[w], b)
         /\ \A b : Has(ready[w], b) => b = Turn(w).at \/ TailHas(ready[w], b)
         /\ \A a, b : TailPair(ready[w], a, b) =>
              Pair(ready[w], a, b) /\ TailHas(ready[w], a) /\ TailHas(ready[w], b)
         /\ Turn(w).at \notin {"resumed", "thrown"} => ~(mod[w] = None /\ Settled(w))
         /\ Turn(w).job \in Jobs(w) /\ ready[w] \in Seq(Turns(w))
  <1>1. ready[w] \in Seq(Turns(w)) /\ Turn(w) = Head(ready[w])
        /\ LineOK(ready[w], msgQueue[w]) /\ LineModuleOK(w)
    BY DEF WorkerOK, WorkerTypesOK, JsonOK, Turn
  <1>2. /\ Turn(w).at \in JsonSteps
        /\ \A b : TailHas(ready[w], b) => b \in JsonSteps /\ b \in Behind(Turn(w).at)
    BY <1>1, LineHead
  <1>3. /\ \A b : TailHas(ready[w], b) => Has(ready[w], b)
        /\ \A b : Has(ready[w], b) <=> (b = Turn(w).at \/ TailHas(ready[w], b))
        /\ \A a, b : TailPair(ready[w], a, b) =>
             Pair(ready[w], a, b) /\ TailHas(ready[w], a) /\ TailHas(ready[w], b)
    BY <1>1, HeadFirst
  <1>4. Turn(w).at \notin {"resumed", "thrown"} => ~(mod[w] = None /\ Settled(w))
    BY <1>1, <1>3 DEF LineModuleOK, Has
  <1>5. Turn(w).job \in Jobs(w)
    BY HeadTurn DEF WorkerOK
  <1> QED BY <1>1, <1>2, <1>3, <1>4, <1>5

(* Nothing in the queue when no loop comes back.                           *)
LEMMA QueueEmpty ==
  ASSUME NEW w \in WorkerTypes, WorkerTypesOK(w), QueueOK(w), ~Has(ready[w], "next")
  PROVE  msgQueue[w] = <<>>
  <1>1. ready[w] \in Seq(Turns(w)) /\ msgQueue[w] \in Seq(Jobs(w))
    BY DEF WorkerTypesOK
  <1>2. Nexts(ready[w]) = {}
    BY DEF Nexts, Has, Ats
  <1>3. Len(msgQueue[w]) \in Nat /\ Len(msgQueue[w]) <= 0
    BY <1>1, <1>2, NextsFinite, LengthsOfQueues DEF QueueOK
  <1>4. Len(msgQueue[w]) = 0
    BY <1>3
  <1> QED BY <1>1, <1>4, EmptySeq

JsonBefore(w) == w = "json2cpp2" /\ WorkerOK(w) /\ WorkDoes(w)

(* The events: a request arrives, a load ends.                             *)
LEMMA JsonEvents ==
  ASSUME NEW w \in WorkerTypes, JsonBefore(w), OnMessageDoes(w) \/ LoadEndsDoes(w)
  PROVE  JsonOK(w)'
  <1>0. /\ w = "json2cpp2" /\ WorkerTypesOK(w) /\ ModuleOK(w) /\ QueueOK(w)
        /\ LineModuleOK(w) /\ ThensOK(w) /\ ready[w] = <<>> /\ ready[w] \in Seq(Turns(w))
        /\ promise[w].id \in Nat /\ promise[w].state \in {"absent", "loading", "loaded", "failed"}
    BY DEF JsonBefore, WorkerOK, JsonOK, OnMessageDoes, LoadEndsDoes, WorkerTypesOK, Promises
  <1>1. \A a : ~Has(ready[w], a) /\ ~TailHas(ready[w], a)
    BY <1>0 DEF Has, Ats, TailHas
  <1>2. capture[w] = None /\ capture'[w] = None
    BY <1>0, <1>1 DEF LineModuleOK, OnMessageDoes, LoadEndsDoes, KeepsRest
  <1>3. CASE OnMessageDoes(w)
    <2> DEFINE queue == Append(msgQueue[w], Head(inbox[w]))
    <2>1. queue \in Seq(Jobs(w)) /\ Head(inbox[w]) \in Jobs(w)
      BY <1>0, <1>3, LengthsOfQueues DEF OnMessageDoes, WorkerTypesOK
    <2>2. Loops(w, queue) /\ promise'[w] = promise[w] /\ mod'[w] = mod[w]
          /\ editor'[w] = editor[w]
      BY <1>3 DEF OnMessageDoes, KeepsRest, KeepsModule
    <2> HIDE DEF queue
    <2>3. ThensOK(w)'
      BY <1>0, <2>1, <2>2, ThensLoops
    <2>4. promise[w].state # "absent"
      BY <1>0, <1>3 DEF OnMessageDoes, ModuleOK
    <2>5. ASSUME NEW t \in Turns(w), Moved(ready[w], ready'[w], t),
                 \/ t.at = "args" /\ mod[w] # None
                 \/ t.at = "resumed"
          PROVE  LineOK(ready'[w], msgQueue'[w]) /\ LineModuleOK(w)'
      <3>1. /\ \A a : Has(ready'[w], a) <=> a = t.at
            /\ \A a, b : ~Pair(ready'[w], a, b)
        <4>1. \A a, b : ~TailPair(ready[w], a, b)
          BY <1>0 DEF TailPair
        <4>2. /\ \A a : Has(ready'[w], a) <=> (a = t.at \/ TailHas(ready[w], a))
              /\ \A a, b : Pair(ready'[w], a, b) =>
                   TailPair(ready[w], a, b) \/ (TailHas(ready[w], a) /\ b = t.at)
          BY <1>0, <2>5, AtsMoved
        <4> QED BY <1>1, <4>1, <4>2
      <3>2. LineOK(ready'[w], msgQueue'[w])
        BY <2>5, <3>1 DEF LineOK, Has, JsonSteps
      <3> QED BY <1>2, <2>2, <2>5, <3>1, <3>2 DEF LineModuleOK, Has, Settled
    <2>6. ASSUME Dropped(ready[w], ready'[w])
          PROVE  LineOK(ready'[w], msgQueue'[w]) /\ LineModuleOK(w)'
      <3>1. \A a, b : ~Has(ready'[w], a) /\ ~Pair(ready'[w], a, b)
        BY <1>0, <2>6 DEF Dropped, Rest, Has, Ats, Pair
      <3>2. LineOK(ready'[w], msgQueue'[w])
        BY <3>1 DEF LineOK, Has
      <3> QED BY <1>2, <3>1, <3>2 DEF LineModuleOK, Has
    <2>7. LineOK(ready'[w], msgQueue'[w]) /\ LineModuleOK(w)'
      <3>1. CASE Dropped(ready[w], ready'[w])
        BY <2>6, <3>1
      <3>2. CASE queue # <<>> /\ Waits(w, Head(queue), "args")
        <4> DEFINE job == Head(queue)
        <4>1. job \in Jobs(w)
          BY <2>1, <3>2, HeadTailProperties
        <4>2. Waits(w, job, "args")
          BY <3>2
        <4> HIDE DEF job
        <4>3. CASE mod[w] # None /\ Moved(ready[w], ready'[w], At(job, "args"))
          <5>1. At(job, "args") \in Turns(w) /\ At(job, "args").at = "args"
            <6>1. "args" \in Steps
              BY DEF Steps
            <6>2. MadeAt(w, job, "args")
              BY <4>1, <6>1, AtMade
            <6> QED BY <6>2 DEF MadeAt
          <5> QED BY <2>5, <4>3, <5>1
        <4>4. CASE Moved(ready[w], ready'[w], Resumed(Awaiting(job, "args"), promise[w].id))
          <5>1. /\ Resumed(Awaiting(job, "args"), promise[w].id) \in Turns(w)
                /\ Resumed(Awaiting(job, "args"), promise[w].id).at = "resumed"
            BY <1>0, <4>1, TurnMade
          <5> QED BY <2>5, <4>4, <5>1
        <4> QED BY <2>6, <4>2, <4>3, <4>4 DEF Waits
      <3> QED BY <2>2, <3>1, <3>2 DEF Loops
    <2> QED BY <2>3, <2>7 DEF JsonOK
  <1>4. CASE LoadEndsDoes(w)
    <2>1. /\ ready'[w] = [i \in DOMAIN waiting[w] |-> Resumed(waiting[w][i], promise[w].id)]
          /\ waiting'[w] = <<>> /\ mod'[w] = mod[w] /\ editor'[w] = editor[w]
      BY <1>4 DEF LoadEndsDoes
    <2>2. \A i \in DOMAIN ready'[w] :
            ready'[w][i].at = "resumed" /\ ready'[w][i].then = "args"
      BY <1>0, <2>1 DEF Resumed, ThensOK
    <2>3. \A a : Has(ready'[w], a) => a = "resumed"
      BY <2>2 DEF Has, Ats
    <2>4. \A a, b : Pair(ready'[w], a, b) => a = "resumed" /\ b = "resumed"
      BY <2>2 DEF Pair
    <2>5. LineOK(ready'[w], msgQueue'[w])
      <3>1. "resumed" \in Behind("resumed") /\ Ats(ready'[w]) \subseteq JsonSteps
        BY <2>3, BehindIs DEF Has, JsonSteps
      <3>2. \A a, b \in JsonSteps : Pair(ready'[w], a, b) => b \in Behind(a)
        BY <2>4, <3>1
      <3>3. ~Pair(ready'[w], "exec", "next") /\ ~Pair(ready'[w], "args", "next")
              /\ ~Pair(ready'[w], "next", "exec")
        BY <2>4
      <3> QED BY <3>1, <3>2, <3>3 DEF LineOK
    <2>6. LineModuleOK(w)'
      <3>1. \A a \in Ats(ready'[w]) : a = "resumed"
        BY <2>3 DEF Has
      <3>2. /\ ~Has(ready'[w], "args") /\ ~Has(ready'[w], "exec") /\ ~Has(ready'[w], "call")
            /\ ~Has(ready'[w], "thrown")
        BY <2>3
      <3>3. Ats(ready'[w]) \subseteq {"resumed", "thrown"}
        BY <3>1
      <3> QED BY <1>2, <3>2, <3>3 DEF LineModuleOK
    <2>7. ThensOK(w)'
      <3>1. DOMAIN waiting'[w] = {}
        BY <2>1
      <3> QED BY <2>2, <3>1 DEF ThensOK
    <2> QED BY <2>5, <2>6, <2>7 DEF JsonOK
  <1> QED BY <1>3, <1>4

(* A turn of a job: StoreModule, MakeArgs, Repost, Exec, the tool's end,   *)
(* PostResult.  The turn that comes next, and the list it comes into.      *)
LEMMA JsonRuns ==
  ASSUME NEW w \in WorkerTypes, JsonBefore(w), ready[w] # <<>>,
         NEW t \in Turns(w), t.at \in JsonSteps, Moved(ready[w], ready'[w], t),
         waiting'[w] = waiting[w], t.at = "resumed" => t.then = "args",
         \A a \in JsonSteps : TailHas(ready[w], a) => t.at \in Behind(a),
         TailPair(ready[w], "exec", "next") \/ (TailHas(ready[w], "exec") /\ t.at = "next")
           => TailHas(ready[w], "call"),
         msgQueue'[w] # <<>> =>
           /\ ~TailPair(ready[w], "args", "next") /\ ~TailPair(ready[w], "next", "exec")
           /\ ~(TailHas(ready[w], "args") /\ t.at = "next")
           /\ ~(TailHas(ready[w], "next") /\ t.at = "exec"),
         TailHas(ready[w], "args") \/ TailHas(ready[w], "exec") \/ t.at \in {"args", "exec"}
           => mod'[w] # None,
         TailHas(ready[w], "exec") \/ TailHas(ready[w], "call") \/ t.at \in {"exec", "call"}
           => editor'[w] # None,
         TailHas(ready[w], "thrown") \/ t.at = "thrown" => promise'[w].state = "failed",
         mod'[w] = None /\ Settled(w)' =>
           /\ t.at \in {"resumed", "thrown"}
           /\ \A a : TailHas(ready[w], a) => a \in {"resumed", "thrown"},
         capture'[w] # None =>
           \/ TailHas(ready[w], "call") \/ TailHas(ready[w], "returned")
           \/ t.at \in {"call", "returned"}
  PROVE  JsonOK(w)'
  <1>1. /\ WorkerTypesOK(w) /\ ready[w] \in Seq(Turns(w))
        /\ LineOK(ready[w], msgQueue[w]) /\ ThensOK(w)
    BY DEF JsonBefore, WorkerOK, JsonOK, WorkerTypesOK
  <1>2. \A a : Has(ready'[w], a) <=> (a = t.at \/ TailHas(ready[w], a))
    BY <1>1, AtsMoved
  <1>3. LineOK(ready'[w], msgQueue'[w])
    BY <1>1, LineMoved
  <1>4. LineModuleOK(w)'
    <2>1. mod'[w] = None /\ Settled(w)' => Ats(ready'[w]) \subseteq {"resumed", "thrown"}
      BY <1>2 DEF Has
    <2> QED BY <1>2, <2>1 DEF LineModuleOK
  <1>5. ThensOK(w)'
    BY <1>1, ThensMoved
  <1> QED BY <1>3, <1>4, <1>5 DEF JsonOK

LEMMA JsonStore ==
  ASSUME NEW w \in WorkerTypes, JsonBefore(w), StoreModuleDoes(w)
  PROVE  JsonOK(w)'
  <1>0. /\ w = "json2cpp2" /\ WorkerOK(w) /\ ready[w] # <<>> /\ Turn(w).at = "resumed"
        /\ waiting'[w] = waiting[w] /\ promise'[w] = promise[w] /\ editor'[w] = editor[w]
        /\ capture'[w] = capture[w] /\ msgQueue'[w] = msgQueue[w]
        /\ mod'[w] = IF Fails(w) THEN mod[w] ELSE Turn(w).of
    BY DEF JsonBefore, StoreModuleDoes, Runs, KeepsQueues
  <1>1. /\ \A b : TailHas(ready[w], b) =>
             b \in {"resumed", "args", "thrown"} /\ Has(ready[w], b)
        /\ \A b : Has(ready[w], b) => b = "resumed" \/ TailHas(ready[w], b)
        /\ \A a, b : TailPair(ready[w], a, b) =>
             TailHas(ready[w], a) /\ TailHas(ready[w], b)
        /\ Turn(w).job \in Jobs(w)
    BY <1>0, JsonTurn, BehindIs
  <1>2. Turn(w).of = promise[w].id /\ Settled(w) /\ Turn(w).of # None /\ Turn(w).then = "args"
    <2>1. Turn(w) = ready[w][1] /\ 1 \in DOMAIN ready[w]
      BY <1>0, HeadTurn DEF WorkerOK
    <2> QED BY <1>0, <2>1 DEF WorkerOK, ResumedOK, JsonOK, ThensOK, WorkerTypesOK,
                              Promises, None
  <1>3. PICK a \in {"thrown", "args"} :
          /\ Moved(ready[w], ready'[w], At(Turn(w).job, a))
          /\ ~Fails(w) => a = "args"
          /\ Fails(w) => a = "thrown"
    BY <1>2 DEF StoreModuleDoes, Runs
  <1> DEFINE t == At(Turn(w).job, a)
  <1>4. t \in Turns(w) /\ t.at = a
    <2>1. a \in Steps
      BY DEF Steps
    <2>2. MadeAt(w, Turn(w).job, a)
      BY <1>1, <2>1, AtMade
    <2> QED BY <2>2 DEF MadeAt
  <1>5. Moved(ready[w], ready'[w], t)
    BY <1>3
  <1> HIDE DEF t
  <1>6. capture[w] = None
    BY <1>0, <1>1 DEF WorkerOK, JsonOK, LineModuleOK
  <1>7. /\ Has(ready[w], "thrown") => promise[w].state = "failed"
        /\ Has(ready[w], "args") => mod[w] # None
        /\ mod[w] # None => promise[w].state = "loaded"
    BY <1>0 DEF WorkerOK, JsonOK, LineModuleOK, ModuleOK
  <1>8. /\ Fails(w) => promise[w].state = "failed" /\ mod'[w] = mod[w]
        /\ ~Fails(w) => promise[w].state = "loaded" /\ mod'[w] # None
    BY <1>0, <1>2 DEF Fails, Settled
  <1>9. \A b \in JsonSteps : TailHas(ready[w], b) => t.at \in Behind(b)
    BY <1>1, <1>3, <1>4, <1>7, <1>8, BehindIs
  <1> QED BY <1>0, <1>1, <1>3, <1>4, <1>5, <1>6, <1>7, <1>8, <1>9, JsonRuns
             DEF JsonSteps, Settled

LEMMA JsonArgs ==
  ASSUME NEW w \in WorkerTypes, JsonBefore(w), MakeArgsDoes(w)
  PROVE  JsonOK(w)'
  <1>0. /\ w = "json2cpp2" /\ WorkerOK(w) /\ ready[w] # <<>> /\ Turn(w).at = "args"
        /\ promise'[w] = promise[w] /\ mod'[w] = mod[w] /\ editor'[w] = Turn(w).job.of
        /\ capture'[w] = capture[w] /\ msgQueue'[w] = msgQueue[w]
    BY DEF JsonBefore, MakeArgsDoes, Runs, KeepsQueues
  <1>1. /\ \A b : TailHas(ready[w], b) =>
             b \in {"args", "exec", "next"} /\ Pair(ready[w], "args", b)
        /\ \A b : Has(ready[w], b) => b = "args" \/ TailHas(ready[w], b)
        /\ \A a, b : TailPair(ready[w], a, b) =>
             Pair(ready[w], a, b) /\ TailHas(ready[w], a) /\ TailHas(ready[w], b)
        /\ Turn(w).job \in Jobs(w) /\ Has(ready[w], "args")
    <2>1. \A b : TailHas(ready[w], b) => Pair(ready[w], "args", b)
      BY <1>0, HeadFirst DEF WorkerOK, WorkerTypesOK, Turn
    <2> QED BY <1>0, <2>1, JsonTurn, BehindIs
  <1>2. Turn(w).job.form = "json" /\ Turn(w).job.of # None
    BY <1>0, <1>1, JsonForm
  <1>3. Moved(ready[w], ready'[w], At(Turn(w).job, "exec")) /\ waiting'[w] = waiting[w]
    BY <1>2 DEF MakeArgsDoes, Runs
  <1> DEFINE t == At(Turn(w).job, "exec")
  <1>4. t \in Turns(w) /\ t.at = "exec"
    <2>1. "exec" \in Steps
      BY DEF Steps
    <2>2. MadeAt(w, Turn(w).job, "exec")
      BY <1>1, <2>1, AtMade
    <2> QED BY <2>2 DEF MadeAt
  <1>5. Moved(ready[w], ready'[w], t)
    BY <1>3
  <1> HIDE DEF t
  <1>6. mod[w] # None /\ ~Has(ready[w], "call") /\ ~Has(ready[w], "returned")
        /\ ~Has(ready[w], "thrown")
    BY <1>0, <1>1 DEF WorkerOK, JsonOK, LineModuleOK
  <1>7. capture[w] = None
    BY <1>0, <1>6 DEF WorkerOK, JsonOK, LineModuleOK
  <1>8. /\ ~Pair(ready[w], "exec", "next")
        /\ msgQueue[w] # <<>> =>
             ~Pair(ready[w], "args", "next") /\ ~Pair(ready[w], "next", "exec")
    BY <1>0, <1>6 DEF WorkerOK, JsonOK, LineOK
  <1>9. ~TailHas(ready[w], "call") /\ ~TailHas(ready[w], "thrown")
    BY <1>1
  <1>10. \A b \in JsonSteps : TailHas(ready[w], b) => t.at \in Behind(b)
    BY <1>1, <1>4, BehindIs
  <1> QED BY <1>0, <1>1, <1>2, <1>3, <1>4, <1>5, <1>6, <1>7, <1>8, <1>9, <1>10, JsonRuns
             DEF JsonSteps

LEMMA JsonRepost ==
  ASSUME NEW w \in WorkerTypes, JsonBefore(w), RepostDoes(w)
  PROVE  JsonOK(w)'
  <1>0. /\ w = "json2cpp2" /\ WorkerOK(w) /\ ready[w] # <<>> /\ Turn(w).at = "exec"
        /\ promise'[w] = promise[w] /\ mod'[w] = mod[w] /\ editor'[w] = editor[w]
        /\ capture'[w] = capture[w] /\ capture[w] # None /\ waiting'[w] = waiting[w]
        /\ Moved(ready[w], ready'[w], At(Turn(w).job, "next"))
    BY DEF JsonBefore, RepostDoes, Runs, KeepsRest, KeepsModule
  <1>1. /\ \A b : TailHas(ready[w], b) => b \in {"exec", "call", "next"}
        /\ \A b : Has(ready[w], b) => b = "exec" \/ TailHas(ready[w], b)
        /\ \A a, b : TailPair(ready[w], a, b) =>
             Pair(ready[w], a, b) /\ TailHas(ready[w], a) /\ TailHas(ready[w], b)
        /\ Turn(w).job \in Jobs(w) /\ Has(ready[w], "exec") /\ ready[w] \in Seq(Turns(w))
    BY <1>0, JsonTurn, BehindIs
  <1> DEFINE t == At(Turn(w).job, "next")
  <1>2. t \in Turns(w) /\ t.at = "next"
    <2>1. "next" \in Steps
      BY DEF Steps
    <2>2. MadeAt(w, Turn(w).job, "next")
      BY <1>1, <2>1, AtMade
    <2> QED BY <2>2 DEF MadeAt
  <1>3. Moved(ready[w], ready'[w], t)
    BY <1>0
  <1> HIDE DEF t
  <1>4. /\ mod[w] # None /\ editor[w] # None
        /\ TailHas(ready[w], "call") /\ Has(ready[w], "call")
    <2>1. mod[w] # None /\ editor[w] # None
            /\ (Has(ready[w], "call") \/ Has(ready[w], "returned"))
      BY <1>0, <1>1 DEF WorkerOK, JsonOK, LineModuleOK
    <2> QED BY <1>1, <2>1
  <1>5. ~Pair(ready[w], "next", "exec")
    <2>1. SUFFICES ASSUME Pair(ready[w], "next", "exec") PROVE FALSE
      OBVIOUS
    <2>2. Pair(ready[w], "next", "call") \/ Pair(ready[w], "call", "exec")
      BY <1>1, <1>4, <2>1, PairOrder
    <2>3. \A a, b \in JsonSteps : Pair(ready[w], a, b) => b \in Behind(a)
      BY <1>0 DEF WorkerOK, JsonOK, LineOK
    <2> QED BY <2>2, <2>3, BehindIs DEF JsonSteps
  <1>6. \A b \in JsonSteps : TailHas(ready[w], b) => t.at \in Behind(b)
    BY <1>1, <1>2, BehindIs
  <1>7. ~TailHas(ready[w], "args") /\ ~TailHas(ready[w], "thrown")
          /\ ~TailPair(ready[w], "args", "next") /\ ~TailPair(ready[w], "next", "exec")
    BY <1>1, <1>5
  <1> QED BY <1>0, <1>1, <1>2, <1>3, <1>4, <1>6, <1>7, JsonRuns DEF JsonSteps

LEMMA JsonExec ==
  ASSUME NEW w \in WorkerTypes, JsonBefore(w), ExecDoes(w)
  PROVE  JsonOK(w)'
  <1>0. /\ w = "json2cpp2" /\ WorkerOK(w) /\ ready[w] # <<>> /\ Turn(w).at = "exec"
        /\ promise'[w] = promise[w] /\ mod'[w] = mod[w] /\ editor'[w] = editor[w]
        /\ capture[w] = None /\ Waits(w, Turn(w).job, "call")
    BY DEF JsonBefore, ExecDoes, KeepsModule
  <1>1. /\ \A b : TailHas(ready[w], b) =>
             b \in {"exec", "call", "next"} /\ Pair(ready[w], "exec", b) /\ Has(ready[w], b)
        /\ \A a, b : TailPair(ready[w], a, b) =>
             TailHas(ready[w], a) /\ TailHas(ready[w], b)
        /\ Turn(w).job \in Jobs(w) /\ Has(ready[w], "exec") /\ ready[w] \in Seq(Turns(w))
    <2>1. \A b : TailHas(ready[w], b) => Pair(ready[w], "exec", b)
      BY <1>0, HeadFirst DEF WorkerOK, WorkerTypesOK, Turn
    <2> QED BY <1>0, <2>1, JsonTurn, BehindIs
  <1>2. mod[w] # None /\ editor[w] # None
    BY <1>0, <1>1 DEF WorkerOK, JsonOK, LineModuleOK
  <1>3. ~Has(ready[w], "call")
    <2>1. SUFFICES ASSUME NEW i \in DOMAIN ready[w], ready[w][i].at = "call" PROVE FALSE
      BY DEF Has, Ats
    <2>2. ready[w][i].job.trace = None
      BY <1>0, <2>1 DEF WorkerOK, InsideOK, InExec
    <2>3. ready[w][i] \in Turns(w)
      BY <1>1, ElementOfSeq, LenProperties
    <2>4. ready[w][i].job \in Jobs(w)
      BY <2>3, TurnIs
    <2> QED BY <2>2, <2>4, GenerationsAreNumbers DEF Jobs, None
  <1>4. \A b : TailHas(ready[w], b) => b = "exec"
    <2>1. Pair(ready[w], "exec", "next") => Has(ready[w], "call")
      BY <1>0 DEF WorkerOK, JsonOK, LineOK
    <2> QED BY <1>1, <1>3, <2>1
  <1>5. Moved(ready[w], ready'[w], At(Turn(w).job, "call")) /\ waiting'[w] = waiting[w]
    BY <1>0, <1>2 DEF Waits
  <1> DEFINE t == At(Turn(w).job, "call")
  <1>6. t \in Turns(w) /\ t.at = "call"
    <2>1. "call" \in Steps
      BY DEF Steps
    <2>2. MadeAt(w, Turn(w).job, "call")
      BY <1>1, <2>1, AtMade
    <2> QED BY <2>2 DEF MadeAt
  <1>7. Moved(ready[w], ready'[w], t)
    BY <1>5
  <1> HIDE DEF t
  <1>8. \A b \in JsonSteps : TailHas(ready[w], b) => t.at \in Behind(b)
    BY <1>4, <1>6, BehindIs
  <1> QED BY <1>0, <1>1, <1>2, <1>4, <1>5, <1>6, <1>7, <1>8, JsonRuns DEF JsonSteps

LEMMA JsonReturns ==
  ASSUME NEW w \in WorkerTypes, JsonBefore(w), CallMainDoes(w) \/ TrapDoes(w)
  PROVE  JsonOK(w)'
  <1>1. PICK t : Runs(w, {"call"}, t) /\ t.at = "returned"
    <2>1. \E res : Runs(w, {"call"}, Returned(Turn(w).job, res))
      BY DEF CallMainDoes, Compiles, TrapDoes
    <2> QED BY <2>1 DEF Returned
  <1>2. /\ w = "json2cpp2" /\ WorkerOK(w) /\ ready[w] # <<>> /\ Turn(w).at = "call"
        /\ waiting'[w] = waiting[w] /\ Moved(ready[w], ready'[w], t)
        /\ msgQueue'[w] = msgQueue[w]
    BY <1>1 DEF JsonBefore, Runs, CallMainDoes, TrapDoes, KeepsQueues
  <1>3. t \in Turns(w)
    BY <1>2, MovedIn, TypesKept DEF JsonBefore, WorkerOK, WorkerTypesOK
  <1>4. /\ \A b : TailHas(ready[w], b) => b = "next"
        /\ \A a, b : TailPair(ready[w], a, b) =>
             TailHas(ready[w], a) /\ TailHas(ready[w], b)
    BY <1>2, JsonTurn, BehindIs
  <1>5. ~(mod'[w] = None /\ Settled(w)')
    <2>1. CASE TrapDoes(w)
      BY <2>1 DEF TrapDoes, Settled
    <2>2. CASE CallMainDoes(w)
      <3>1. ~(mod[w] = None /\ Settled(w))
        BY <1>2, JsonTurn
      <3> QED BY <2>2, <3>1 DEF CallMainDoes, KeepsRest, KeepsModule, Settled
    <2> QED BY <2>1, <2>2
  <1>6. \A b \in JsonSteps : TailHas(ready[w], b) => t.at \in Behind(b)
    BY <1>1, <1>4, BehindIs
  <1> QED BY <1>1, <1>2, <1>3, <1>4, <1>5, <1>6, JsonRuns DEF JsonSteps

LEMMA JsonPost ==
  ASSUME NEW w \in WorkerTypes, JsonBefore(w), PostResultDoes(w)
  PROVE  JsonOK(w)'
  <1>0. /\ w = "json2cpp2" /\ WorkerOK(w) /\ ready[w] # <<>> /\ Turn(w).at = "returned"
        /\ promise'[w] = promise[w] /\ mod'[w] = mod[w] /\ editor'[w] = editor[w]
        /\ capture'[w] = None /\ waiting'[w] = waiting[w] /\ msgQueue'[w] = msgQueue[w]
        /\ Moved(ready[w], ready'[w], At(Turn(w).job, "next"))
    BY DEF JsonBefore, PostResultDoes, Runs, KeepsModule
  <1>1. /\ \A b : TailHas(ready[w], b) => b = "args" /\ Has(ready[w], b)
        /\ \A b : Has(ready[w], b) => b = "returned" \/ TailHas(ready[w], b)
        /\ \A a, b : TailPair(ready[w], a, b) =>
             TailHas(ready[w], a) /\ TailHas(ready[w], b)
        /\ ~(mod[w] = None /\ Settled(w))
        /\ Turn(w).job \in Jobs(w)
    BY <1>0, JsonTurn, BehindIs
  <1>2. msgQueue[w] = <<>>
    <2>1. ~Has(ready[w], "next")
      BY <1>1
    <2> QED BY <1>0, <2>1, QueueEmpty DEF WorkerOK
  <1> DEFINE t == At(Turn(w).job, "next")
  <1>3. t \in Turns(w) /\ t.at = "next"
    <2>1. "next" \in Steps
      BY DEF Steps
    <2>2. MadeAt(w, Turn(w).job, "next")
      BY <1>1, <2>1, AtMade
    <2> QED BY <2>2 DEF MadeAt
  <1>4. Moved(ready[w], ready'[w], t)
    BY <1>0
  <1> HIDE DEF t
  <1>5. Has(ready[w], "args") => mod[w] # None
    BY <1>0 DEF WorkerOK, JsonOK, LineModuleOK
  <1>6. ~(mod'[w] = None /\ Settled(w)')
    BY <1>0, <1>1 DEF Settled
  <1>7. \A b \in JsonSteps : TailHas(ready[w], b) => t.at \in Behind(b)
    BY <1>1, <1>3, BehindIs
  <1> QED BY <1>0, <1>1, <1>2, <1>3, <1>4, <1>5, <1>6, <1>7, JsonRuns DEF JsonSteps

(* The end of a loop, and the turn of a loop that goes on.                 *)
LEMMA JsonGoesOn ==
  ASSUME NEW w \in WorkerTypes, JsonBefore(w), GoesOnDoes(w)
  PROVE  JsonOK(w)'
  <1>0. /\ w = "json2cpp2" /\ WorkerOK(w) /\ ready[w] # <<>> /\ Loops(w, msgQueue[w])
        /\ Turn(w).at \in {"thrown", "next"} /\ WorkerTypesOK(w)
        /\ promise'[w] = promise[w] /\ mod'[w] = mod[w] /\ editor'[w] = editor[w]
        /\ capture'[w] = capture[w] /\ msgQueue[w] \in Seq(Jobs(w))
    BY DEF JsonBefore, GoesOnDoes, KeepsRest, KeepsModule, WorkerOK, WorkerTypesOK
  <1>1. /\ \A b : TailHas(ready[w], b) => b \in Behind(Turn(w).at) /\ Has(ready[w], b)
        /\ \A b : Has(ready[w], b) => b = Turn(w).at \/ TailHas(ready[w], b)
        /\ \A a, b : TailPair(ready[w], a, b) =>
             Pair(ready[w], a, b) /\ TailHas(ready[w], a) /\ TailHas(ready[w], b)
        /\ Turn(w).at = "next" => ~(mod[w] = None /\ Settled(w))
        /\ ready[w] \in Seq(Turns(w))
    BY <1>0, JsonTurn
  <1>2. ThensOK(w)'
    BY <1>0, ThensLoops DEF WorkerOK, JsonOK
  <1>3. /\ LineOK(ready[w], msgQueue[w])
        /\ Has(ready[w], "args") \/ Has(ready[w], "exec") => mod[w] # None
        /\ Has(ready[w], "exec") \/ Has(ready[w], "call") => editor[w] # None
        /\ Has(ready[w], "thrown") => promise[w].state = "failed"
        /\ mod[w] = None /\ Settled(w) => Ats(ready[w]) \subseteq {"resumed", "thrown"}
        /\ capture[w] # None => Has(ready[w], "call") \/ Has(ready[w], "returned")
    BY <1>0 DEF WorkerOK, JsonOK, LineModuleOK
  <1>4. ~Has(ready[w], "call") /\ ~TailPair(ready[w], "exec", "next")
    <2>1. ~Has(ready[w], "call")
      BY <1>0, <1>1, BehindIs
    <2>2. ~Pair(ready[w], "exec", "next")
      BY <1>3, <2>1 DEF LineOK
    <2> QED BY <1>1, <2>1, <2>2
  <1>5. capture[w] # None => TailHas(ready[w], "returned")
    BY <1>0, <1>1, <1>3, <1>4
  \* Without a turn that follows.
  <1>6. ASSUME Dropped(ready[w], ready'[w]),
               msgQueue'[w] # <<>> => msgQueue[w] # <<>>
        PROVE  LineOK(ready'[w], msgQueue'[w]) /\ LineModuleOK(w)'
    <2>1. \A a : Has(ready'[w], a) <=> TailHas(ready[w], a)
      BY <1>1, <1>6, AtsDropped
    <2>2. msgQueue'[w] # <<>> =>
            ~TailPair(ready[w], "args", "next") /\ ~TailPair(ready[w], "next", "exec")
      BY <1>1, <1>3, <1>6 DEF LineOK
    <2>3. LineOK(ready'[w], msgQueue'[w])
      BY <1>1, <1>3, <1>4, <1>6, <2>2, LineDropped
    <2>4. \A a : Has(ready'[w], a) => Has(ready[w], a)
      BY <1>1, <2>1
    <2>5. mod'[w] = None /\ Settled(w)' => Ats(ready'[w]) \subseteq {"resumed", "thrown"}
      BY <1>0, <1>3, <2>4 DEF Settled, Has
    <2>6. capture'[w] # None => Has(ready'[w], "returned")
      BY <1>0, <1>5, <2>1
    <2>7. LineModuleOK(w)'
      BY <1>0, <1>3, <2>4, <2>5, <2>6 DEF LineModuleOK
    <2> QED BY <2>3, <2>7
  <1>7. CASE Turn(w).at = "thrown"
    <2>1. \A b : TailHas(ready[w], b) => b = "thrown"
      BY <1>1, <1>7, BehindIs
    <2>2. ~Has(ready[w], "next")
      BY <1>1, <1>7, <2>1
    <2>3. msgQueue[w] = <<>>
      BY <1>0, <2>2, QueueEmpty DEF WorkerOK
    <2> QED BY <1>0, <1>2, <1>6, <2>3 DEF Loops, JsonOK
  <1>8. CASE Turn(w).at = "next" /\ msgQueue[w] = <<>>
    BY <1>0, <1>2, <1>6, <1>8 DEF Loops, JsonOK
  <1>9. CASE Turn(w).at = "next" /\ msgQueue[w] # <<>>
    <2> DEFINE job == Head(msgQueue[w])
    <2>1. job \in Jobs(w)
      BY <1>0, <1>9, LengthsOfQueues
    <2>2. Waits(w, job, "args")
      BY <1>0, <1>9 DEF Loops
    <2> HIDE DEF job
    <2>3. Has(ready[w], "next") /\ ~Pair(ready[w], "args", "next")
            /\ ~Pair(ready[w], "next", "exec")
      BY <1>0, <1>3, <1>9, JsonTurn DEF LineOK
    <2>4. \A b : TailHas(ready[w], b) => Pair(ready[w], "next", b)
      BY <1>1, <1>9, HeadFirst DEF Turn
    <2>5. \A b : TailHas(ready[w], b) => b \in {"next", "returned", "args"}
      BY <1>1, <1>9, <2>3, <2>4, BehindIs
    <2>6. ~(mod[w] = None /\ Settled(w)) /\ promise[w].state # "absent"
      BY <1>0, <1>1, <1>9 DEF WorkerOK, ModuleOK
    <2>7. CASE mod[w] # None /\ Moved(ready[w], ready'[w], At(job, "args"))
                 /\ waiting'[w] = waiting[w]
      <3> DEFINE t == At(job, "args")
      <3>1. t \in Turns(w) /\ t.at = "args"
        <4>1. "args" \in Steps
          BY DEF Steps
        <4>2. MadeAt(w, job, "args")
          BY <2>1, <4>1, AtMade
        <4> QED BY <4>2 DEF MadeAt
      <3>2. Moved(ready[w], ready'[w], t)
        BY <2>7
      <3> HIDE DEF t
      <3>3. \A b \in JsonSteps : TailHas(ready[w], b) => t.at \in Behind(b)
        BY <2>5, <3>1, BehindIs
      <3>4. ~TailPair(ready[w], "args", "next") /\ ~TailPair(ready[w], "next", "exec")
        BY <1>1, <2>3
      <3>5. ~TailHas(ready[w], "exec") /\ ~TailHas(ready[w], "call")
              /\ ~TailHas(ready[w], "thrown")
        BY <2>5
      <3> QED BY <1>0, <1>4, <1>5, <2>5, <2>6, <2>7, <3>1, <3>2, <3>3, <3>4, <3>5, JsonRuns
                 DEF JsonSteps, Settled
    <2>8. CASE Dropped(ready[w], ready'[w])
      BY <1>2, <1>6, <1>9, <2>8 DEF JsonOK
    <2>9. promise[w].state = "loading" \/ mod[w] # None
      <3>1. promise[w].state \in {"absent", "loading", "loaded", "failed"}
        BY <1>0 DEF WorkerTypesOK, Promises
      <3> QED BY <2>6, <3>1 DEF Settled
    <2> QED BY <2>2, <2>7, <2>8, <2>9 DEF Waits
  <1> QED BY <1>0, <1>7, <1>8, <1>9

(* json2cpp2 fetches nothing, and nothing it is asked is malformed.         *)
LEMMA JsonOnly ==
  ASSUME NEW w \in WorkerTypes, w = "json2cpp2", WorkerOK(w)
  PROVE  ~FetchEndsDoes(w) /\ ~ArgsMadeDoes(w) /\ ~ThrowsDoes(w)
  <1>1. ~FetchEndsDoes(w)
    <2>1. \A j \in Jobs(w) : j.form # "import"
      BY JsonForm
    <2>2. fetching[w] = {}
      BY <2>1 DEF WorkerOK, WorkerTypesOK, Fetches
    <2> QED BY <2>2 DEF FetchEndsDoes
  <1>2. ~ArgsMadeDoes(w)
    <2>1. SUFFICES ASSUME ready[w] # <<>>, Turn(w).at \in {"args made", "no module"}
                   PROVE  FALSE
      BY DEF ArgsMadeDoes, Runs
    <2>2. Turn(w).at \in JsonSteps
      BY <2>1, JsonTurn
    <2> QED BY <2>1, <2>2 DEF JsonSteps
  <1>3. ~ThrowsDoes(w)
    <2>1. SUFFICES ASSUME ready[w] # <<>>,
                          \/ Turn(w).at \in {"throws", "load failed"}
                          \/ Turn(w).job.form = "malformed"
                   PROVE  FALSE
      BY DEF ThrowsDoes, Runs
    <2>2. Turn(w).at \in JsonSteps /\ Turn(w).job.form = "json"
      BY <2>1, JsonTurn, JsonForm
    <2> QED BY <2>1, <2>2 DEF JsonSteps
  <1> QED BY <1>1, <1>2, <1>3

LEMMA JsonKept ==
  ASSUME NEW w \in WorkerTypes, w = "json2cpp2", WorkerOK(w), WorkDoes(w)
  PROVE  JsonOK(w)'
  <1>0. JsonBefore(w)
    BY DEF JsonBefore
  <1>1. ~FetchEndsDoes(w) /\ ~ArgsMadeDoes(w) /\ ~ThrowsDoes(w)
    BY JsonOnly
  <1> QED BY <1>0, <1>1, JsonEvents, JsonStore, JsonArgs, JsonRepost, JsonExec,
             JsonReturns, JsonPost, JsonGoesOn DEF WorkDoes

(* The invariant of a worker survives each of its steps.                   *)
LEMMA WorkerKept ==
  ASSUME NEW w \in WorkerTypes, WorkerOK(w), WorkDoes(w)
  PROVE  WorkerOK(w)'
  <1>1. /\ WorkerTypesOK(w) /\ ModuleOK(w) /\ ResumedOK(w) /\ QueueOK(w) /\ InsideOK(w)
    BY DEF WorkerOK
  <1>2. /\ WorkerTypesOK(w)' /\ ModuleOK(w)' /\ ResumedOK(w)' /\ QueueOK(w)' /\ InsideOK(w)'
    BY <1>1, TypesKept, ModuleKept, ResumedKept, QueueKept, InsideKept
  <1>3. w = "json2cpp2" => JsonOK(w)'
    BY JsonKept
  <1> QED BY <1>2, <1>3 DEF WorkerOK
-----------------------------------------------------------------------------
(* The main thread.                                                        *)

MainTypesOK ==
    /\ mode \in {"page", "server"} /\ asked \in Seq(Requests) /\ Len(asked) <= MaxGenerations
    /\ initPromise \in {"pending", "fulfilled", "rejected"} /\ begun \in Nat /\ begun <= Len(asked)
    /\ DOMAIN stage = Generations /\ DOMAIN answer = Generations
    /\ \A g \in Generations : stage[g] \in {"init", "ast", "code", "done"}
    /\ traceID \in {None} \cup Generations /\ cancelled \subseteq Generations
    /\ generating \in BOOLEAN

Inv == MainTypesOK /\ DomainsOK /\ WorkersOK

\* A step of the main thread, to worker w: it may be given a request, or a
\* result may be taken from it.
AsksMore(w, job) ==
    /\ inbox'[w] = Append(inbox[w], job)
    /\ promise'[w] = [promise[w] EXCEPT !.state = IF @ = "absent" THEN "loading" ELSE @]
MainDoes(w) ==
    /\ msgQueue'[w] = msgQueue[w] /\ ready'[w] = ready[w] /\ waiting'[w] = waiting[w]
    /\ fetching'[w] = fetching[w] /\ mod'[w] = mod[w] /\ editor'[w] = editor[w]
    /\ capture'[w] = capture[w]
    /\ \/ inbox'[w] = inbox[w] /\ promise'[w] = promise[w]
       \/ \E job \in Jobs(w) : AsksMore(w, job)
    /\ outbox'[w] = outbox[w] \/ (outbox[w] # <<>> /\ outbox'[w] = Tail(outbox[w]))

LEMMA MainKeepsWorker ==
  ASSUME NEW w \in WorkerTypes, WorkerOK(w), MainDoes(w)
  PROVE  WorkerOK(w)'
  <1>0. /\ WorkerTypesOK(w) /\ ModuleOK(w) /\ ResumedOK(w) /\ QueueOK(w) /\ InsideOK(w)
        /\ w = "json2cpp2" => JsonOK(w)
        /\ msgQueue'[w] = msgQueue[w] /\ ready'[w] = ready[w] /\ waiting'[w] = waiting[w]
        /\ fetching'[w] = fetching[w] /\ mod'[w] = mod[w] /\ editor'[w] = editor[w]
        /\ capture'[w] = capture[w]
    BY DEF WorkerOK, MainDoes
  <1>1. inbox'[w] \in Seq(Jobs(w))
    <2>1. inbox[w] \in Seq(Jobs(w))
      BY <1>0 DEF WorkerTypesOK
    <2>2. CASE inbox'[w] = inbox[w]
      BY <2>1, <2>2
    <2>3. ASSUME NEW job \in Jobs(w), AsksMore(w, job) PROVE inbox'[w] \in Seq(Jobs(w))
      BY <2>1, <2>3, AppendProperties DEF AsksMore
    <2> QED BY <2>2, <2>3 DEF MainDoes
  <1>2. outbox'[w] \in Seq(Results(w))
    <2>1. outbox[w] \in Seq(Results(w))
      BY <1>0 DEF WorkerTypesOK
    <2> QED BY <2>1, HeadTailProperties DEF MainDoes
  <1>3. /\ promise'[w] \in Promises /\ promise'[w].id = promise[w].id
        /\ \/ promise'[w].state = promise[w].state
           \/ promise[w].state = "absent" /\ promise'[w].state = "loading"
        /\ promise'[w].state = "absent" => inbox'[w] = inbox[w] /\ promise[w].state = "absent"
    BY <1>0 DEF MainDoes, AsksMore, WorkerTypesOK, Promises
  <1>4. WorkerTypesOK(w)'
    BY <1>0, <1>1, <1>2, <1>3 DEF WorkerTypesOK
  <1>5. promise[w].state = "absent" => ready[w] = <<>>
    BY <1>0 DEF ModuleOK
  <1>6. ModuleOK(w)'
    BY <1>0, <1>3 DEF ModuleOK
  <1>7. ResumedOK(w)'
    BY <1>0, <1>3 DEF ResumedOK, Settled
  <1>8. QueueOK(w)' /\ InsideOK(w)'
    BY <1>0 DEF QueueOK, InsideOK
  <1>9. ASSUME w = "json2cpp2" PROVE JsonOK(w)'
    <2>1. LineOK(ready'[w], msgQueue'[w]) /\ ThensOK(w)'
      BY <1>0, <1>9 DEF JsonOK, ThensOK
    <2>2. LineModuleOK(w)'
      BY <1>0, <1>3, <1>9 DEF JsonOK, LineModuleOK, Settled
    <2> QED BY <2>1, <2>2 DEF JsonOK
  <1> QED BY <1>4, <1>6, <1>7, <1>8, <1>9 DEF WorkerOK

(* A worker nothing happens to.                                            *)
LEMMA WorkerStays ==
  ASSUME NEW w \in WorkerTypes, WorkerOK(w), Stays(w)
  PROVE  WorkerOK(w)'
  <1>1. MainDoes(w)
    BY DEF Stays, MainDoes
  <1> QED BY <1>1, MainKeepsWorker

(* What is asked of src2json, and of json2cpp2 with src2json's answer.     *)
LEMMA AskedIsJob ==
  ASSUME Inv, NEW g \in Generations, NEW form \in Forms("src2json")
  PROVE  JobRequest(g, g, form) \in Jobs("src2json")
  BY DEF JobRequest, Jobs

LEMMA AnswerIsJob ==
  ASSUME NEW s \in Results("src2json"), s.usable
  PROVE  s.trace \in Generations /\ s.of = s.trace
         /\ JobRequest(s.trace, s.of, "json") \in Jobs("json2cpp2")
  <1>1. s.trace \in Generations /\ s.of = s.trace
    BY DEF Results
  <1> QED BY <1>1 DEF JobRequest, Jobs, Forms

(* updateGenerated asks for a generation that was called for.              *)
LEMMA BegunIs ==
  ASSUME Inv, begun < Len(asked)
  PROVE  /\ begun + 1 \in Generations /\ begun + 1 <= Len(asked) /\ begun + 1 \in Nat
         /\ asked[begun + 1] \in Requests
         /\ asked[begun + 1].source # "empty" =>
              (IF asked[begun + 1].lang = "tokens" /\ asked[begun + 1].source # "malformed"
               THEN "tokens" ELSE asked[begun + 1].source) \in Forms("src2json")
  <1>1. /\ begun \in Nat /\ Len(asked) \in Nat /\ Len(asked) <= MaxGenerations
        /\ MaxGenerations \in Nat /\ asked \in Seq(Requests)
    <2>1. MaxGenerations \in Nat
      BY PlaygroundAssumption, Zenon
    <2> QED BY <2>1, LenProperties DEF Inv, MainTypesOK
  <1>2. begun + 1 \in Generations /\ begun + 1 <= Len(asked) /\ begun + 1 \in 1..Len(asked)
    BY <1>1 DEF Generations
  <1>3. asked[begun + 1] \in Requests
    BY <1>1, <1>2, ElementOfSeq
  <1>4. Requests \subseteq [source : {"plain", "import", "malformed", "empty"},
                            lang : {"tokens", "json ast", "cpp"}]
    BY PlaygroundAssumption, Zenon
  <1>5. /\ asked[begun + 1].source \in {"plain", "import", "malformed", "empty"}
        /\ asked[begun + 1].lang \in {"tokens", "json ast", "cpp"}
    BY <1>3, <1>4
  <1>6. begun + 1 \in Nat
    BY <1>1
  <1> QED BY <1>2, <1>3, <1>5, <1>6 DEF Forms

LEMMA RequestIs ==
  ASSUME DomainsOK, NEW w \in WorkerTypes, NEW request, DoRequest(w, request)
  PROVE  /\ AsksMore(w, request) /\ DOMAIN inbox' = WorkerTypes /\ DOMAIN promise' = WorkerTypes
         /\ \A v \in WorkerTypes \ {w} : inbox'[v] = inbox[v] /\ promise'[v] = promise[v]
  BY DEF DoRequest, AsksMore, DomainsOK

LEMMA ResultTypes ==
  ASSUME Inv, NEW g \in Generations, NEW value, OnResult(g, value)
  PROVE  /\ DOMAIN stage' = Generations /\ DOMAIN answer' = Generations
         /\ \A h \in Generations : stage'[h] \in {"init", "ast", "code", "done"}
         /\ generating' \in BOOLEAN
  BY DEF Inv, MainTypesOK, OnResult

LEMMA MainSteps ==
  ASSUME Inv, (\E r \in Requests : Generate(r)) \/ Main
  PROVE  /\ MainTypesOK' /\ DomainsOK'
         /\ \A w \in WorkerTypes : MainDoes(w)
  <1>0. /\ MainTypesOK /\ DomainsOK /\ \A w \in WorkerTypes : WorkerTypesOK(w)
        /\ WorkerTypes = {"src2json", "json2cpp2"}
    BY DEF Inv, WorkersOK, WorkerOK, WorkerTypes
  <1>1. ASSUME NEW r \in Requests, Generate(r)
        PROVE  MainTypesOK' /\ DomainsOK' /\ \A w \in WorkerTypes : MainDoes(w)
    <2>1. /\ asked' = Append(asked, r) /\ generating' = (mode = "page")
          /\ Append(asked, r) \in Scripts
          /\ UNCHANGED <<mode, initPromise, begun, stage, answer, traceID, shown, workVars>>
      BY <1>1 DEF Generate
    <2>2. /\ asked' \in Seq(Requests) /\ Len(asked') = Len(asked) + 1 /\ Len(asked) \in Nat
          /\ Len(asked') <= MaxGenerations
      <3>1. \A s \in Scripts : s \in Seq(Requests) /\ Len(s) <= MaxGenerations
        BY PlaygroundAssumption, Zenon
      <3>2. asked \in Seq(Requests)
        BY <1>0 DEF MainTypesOK
      <3>3. asked' \in Scripts
        BY <2>1
      <3>4. Len(asked') <= MaxGenerations
        BY <3>1, <3>3
      <3> QED BY <2>1, <3>2, <3>4, AppendProperties, LenProperties
    <2>3. MainTypesOK'
      BY <1>0, <2>1, <2>2 DEF MainTypesOK, workVars
    <2>4. DomainsOK' /\ \A w \in WorkerTypes : MainDoes(w)
      BY <1>0, <2>1 DEF DomainsOK, MainDoes, workVars, queueVars, turnVars, moduleVars
    <2> QED BY <2>3, <2>4
  <1>2. ASSUME InitEnds
        PROVE  MainTypesOK' /\ DomainsOK' /\ \A w \in WorkerTypes : MainDoes(w)
    <2>1. MainTypesOK'
      BY <1>0, <1>2 DEF InitEnds, MainTypesOK, workVars
    <2>2. DomainsOK' /\ \A w \in WorkerTypes : MainDoes(w)
      BY <1>0, <1>2 DEF InitEnds, DomainsOK, MainDoes, workVars, queueVars, turnVars, moduleVars
    <2> QED BY <2>1, <2>2
  <1>3. ASSUME UpdateGenerated
        PROVE  MainTypesOK' /\ DomainsOK' /\ \A w \in WorkerTypes : MainDoes(w)
    <2> DEFINE g == begun + 1
               form == IF asked[g].lang = "tokens" /\ asked[g].source # "malformed"
                       THEN "tokens" ELSE asked[g].source
    <2>1. /\ begun < Len(asked) /\ begun' = g
          /\ UNCHANGED <<mode, asked, initPromise, msgQueue, outbox, turnVars, mod, editor, capture>>
      BY <1>3 DEF UpdateGenerated
    <2>2. /\ g \in Generations /\ g <= Len(asked) /\ g \in Nat
          /\ asked[g].source # "empty" => form \in Forms("src2json")
      BY <2>1, BegunIs
    <2>3. /\ traceID' \in {None} \cup Generations /\ cancelled' \subseteq Generations
      <3>1. CASE mode = "server"
        BY <1>0, <1>3, <3>1 DEF UpdateGenerated, MainTypesOK
      <3>2. CASE mode # "server"
        <4>1. /\ traceID' = g
              /\ cancelled' = IF SharedMemory /\ traceID # None
                              THEN cancelled \cup {traceID} ELSE cancelled
          BY <1>3, <3>2 DEF UpdateGenerated
        <4>2. traceID \in {None} \cup Generations /\ cancelled \subseteq Generations
          BY <1>0 DEF MainTypesOK
        <4> QED BY <2>2, <4>1, <4>2
      <3> QED BY <3>1, <3>2
    <2>4. CASE asked[g].source = "empty"
      <3>1. OnResult(g, Default) /\ UNCHANGED <<inbox, promise>>
        BY <1>3, <2>4 DEF UpdateGenerated
      <3>2. /\ DOMAIN stage' = Generations /\ DOMAIN answer' = Generations
            /\ \A h \in Generations : stage'[h] \in {"init", "ast", "code", "done"}
            /\ generating' \in BOOLEAN
        BY <2>2, <3>1, ResultTypes
      <3>3. MainTypesOK'
        BY <1>0, <2>1, <2>2, <2>3, <3>2 DEF MainTypesOK
      <3>4. DomainsOK' /\ \A w \in WorkerTypes : MainDoes(w)
        BY <1>0, <2>1, <3>1 DEF DomainsOK, MainDoes, turnVars
      <3> QED BY <3>3, <3>4
    <2>5. CASE asked[g].source # "empty"
      <3>1. /\ stage' = [stage EXCEPT ![g] = "ast"]
            /\ DoRequest("src2json", JobRequest(g, g, form))
            /\ UNCHANGED <<answer, generating, shown>>
        BY <1>3, <2>5 DEF UpdateGenerated
      <3> HIDE DEF form
      <3>2. JobRequest(g, g, form) \in Jobs("src2json")
        BY <2>2, <2>5, AskedIsJob
      <3>3. /\ AsksMore("src2json", JobRequest(g, g, form))
            /\ DOMAIN inbox' = WorkerTypes /\ DOMAIN promise' = WorkerTypes
            /\ inbox'["json2cpp2"] = inbox["json2cpp2"]
            /\ promise'["json2cpp2"] = promise["json2cpp2"]
        BY <1>0, <3>1, RequestIs
      <3>4. MainTypesOK'
        BY <1>0, <2>1, <2>2, <2>3, <3>1 DEF MainTypesOK
      <3>5. DomainsOK'
        BY <1>0, <2>1, <3>3 DEF DomainsOK, turnVars
      <3>6. \A w \in WorkerTypes : MainDoes(w)
        BY <1>0, <2>1, <3>2, <3>3 DEF MainDoes, turnVars
      <3> QED BY <3>4, <3>5, <3>6
    <2> QED BY <2>4, <2>5
  <1>4. ASSUME OnAST
        PROVE  MainTypesOK' /\ DomainsOK' /\ \A w \in WorkerTypes : MainDoes(w)
    <2> DEFINE s == Head(outbox["src2json"])
               goesOn == Newest(s.trace) /\ s.usable /\ asked[s.trace].lang = "cpp"
    <2>1. /\ outbox["src2json"] # <<>>
          /\ outbox' = [outbox EXCEPT !["src2json"] = Tail(@)]
          /\ UNCHANGED <<mode, asked, initPromise, begun, traceID, msgQueue, turnVars, mod, editor,
                         capture, cancelled>>
      BY <1>4 DEF OnAST
    <2>2. s \in Results("src2json") /\ s.trace \in Generations
      <3>1. outbox["src2json"] \in Seq(Results("src2json"))
        BY <1>0 DEF WorkerTypesOK
      <3>2. s \in Results("src2json")
        BY <2>1, <3>1, HeadTailProperties
      <3> QED BY <3>2 DEF Results
    <2>3. /\ outbox'["src2json"] = Tail(outbox["src2json"])
          /\ outbox'["json2cpp2"] = outbox["json2cpp2"] /\ DOMAIN outbox' = WorkerTypes
      BY <1>0, <2>1 DEF DomainsOK
    <2>4. CASE goesOn
      <3>1. /\ stage' = [stage EXCEPT ![s.trace] = "code"]
            /\ DoRequest("json2cpp2", JobRequest(s.trace, s.of, "json"))
            /\ UNCHANGED <<answer, generating, shown>>
        BY <1>4, <2>4 DEF OnAST
      <3>2. JobRequest(s.trace, s.of, "json") \in Jobs("json2cpp2")
        BY <2>2, <2>4, AnswerIsJob
      <3> HIDE DEF s
      <3>3. /\ AsksMore("json2cpp2", JobRequest(s.trace, s.of, "json"))
            /\ DOMAIN inbox' = WorkerTypes /\ DOMAIN promise' = WorkerTypes
            /\ inbox'["src2json"] = inbox["src2json"]
            /\ promise'["src2json"] = promise["src2json"]
        BY <1>0, <3>1, RequestIs
      <3>4. MainTypesOK'
        BY <1>0, <2>1, <2>2, <3>1 DEF MainTypesOK
      <3>5. DomainsOK'
        BY <1>0, <2>1, <2>3, <3>3 DEF DomainsOK, turnVars
      <3>6. \A w \in WorkerTypes : MainDoes(w)
        BY <1>0, <2>1, <2>3, <3>2, <3>3 DEF MainDoes, turnVars
      <3> QED BY <3>4, <3>5, <3>6
    <2>5. CASE ~goesOn
      <3>1. OnResult(s.trace, Outcome(s)) /\ UNCHANGED <<inbox, promise>>
        BY <1>4, <2>5 DEF OnAST
      <3> HIDE DEF s
      <3>2. /\ DOMAIN stage' = Generations /\ DOMAIN answer' = Generations
            /\ \A h \in Generations : stage'[h] \in {"init", "ast", "code", "done"}
            /\ generating' \in BOOLEAN
        BY <2>2, <3>1, ResultTypes
      <3>3. MainTypesOK'
        BY <1>0, <2>1, <3>2 DEF MainTypesOK
      <3>4. DomainsOK' /\ \A w \in WorkerTypes : MainDoes(w)
        BY <1>0, <2>1, <2>3, <3>1 DEF DomainsOK, MainDoes, turnVars
      <3> QED BY <3>3, <3>4
    <2> QED BY <2>4, <2>5
  <1>5. ASSUME OnCode
        PROVE  MainTypesOK' /\ DomainsOK' /\ \A w \in WorkerTypes : MainDoes(w)
    <2> DEFINE res == Head(outbox["json2cpp2"])
    <2>1. /\ outbox["json2cpp2"] # <<>>
          /\ outbox' = [outbox EXCEPT !["json2cpp2"] = Tail(@)]
          /\ OnResult(res.trace, Outcome(res))
          /\ UNCHANGED <<mode, asked, initPromise, begun, traceID, inbox, msgQueue, turnVars,
                         moduleVars, capture, cancelled>>
      BY <1>5 DEF OnCode
    <2>2. res.trace \in Generations
      <3>1. outbox["json2cpp2"] \in Seq(Results("json2cpp2"))
        BY <1>0 DEF WorkerTypesOK
      <3>2. res \in Results("json2cpp2")
        BY <2>1, <3>1, HeadTailProperties
      <3> QED BY <3>2 DEF Results
    <2>3. /\ outbox'["json2cpp2"] = Tail(outbox["json2cpp2"])
          /\ outbox'["src2json"] = outbox["src2json"] /\ DOMAIN outbox' = WorkerTypes
      BY <1>0, <2>1 DEF DomainsOK
    <2> HIDE DEF res
    <2>4. /\ DOMAIN stage' = Generations /\ DOMAIN answer' = Generations
          /\ \A h \in Generations : stage'[h] \in {"init", "ast", "code", "done"}
          /\ generating' \in BOOLEAN
      BY <2>1, <2>2, ResultTypes
    <2>5. MainTypesOK'
      BY <1>0, <2>1, <2>4 DEF MainTypesOK
    <2>6. DomainsOK' /\ \A w \in WorkerTypes : MainDoes(w)
      BY <1>0, <2>1, <2>3 DEF DomainsOK, MainDoes, turnVars, moduleVars
    <2> QED BY <2>5, <2>6
  <1> QED BY <1>1, <1>2, <1>3, <1>4, <1>5 DEF Main

LEMMA InvInit == Init => Inv
  <1> SUFFICES ASSUME Init PROVE Inv
    OBVIOUS
  <1>0. WorkInit /\ WorkerTypes = {"src2json", "json2cpp2"}
    BY DEF Init, WorkerTypes
  <1>1. DomainsOK
    BY <1>0 DEF WorkInit, DomainsOK
  <1>2. MainTypesOK
    <2>1. Modes \subseteq {"page", "server"} /\ MaxGenerations \in Nat
      BY PlaygroundAssumption, Zenon
    <2>2. cancelled = {}
      BY <1>0 DEF WorkInit
    <2>3. asked = <<>> /\ Len(asked) = 0 /\ begun = 0
      BY DEF Init
    <2>4. asked \in Seq(Requests) /\ Len(asked) <= MaxGenerations /\ begun <= Len(asked)
      BY <2>1, <2>3, EmptySeq
    <2>5. /\ mode \in {"page", "server"} /\ initPromise \in {"pending", "fulfilled", "rejected"} /\ begun \in Nat
          /\ DOMAIN stage = Generations /\ DOMAIN answer = Generations
          /\ \A g \in Generations : stage[g] \in {"init", "ast", "code", "done"}
          /\ traceID \in {None} \cup Generations /\ cancelled \subseteq Generations
          /\ generating \in BOOLEAN
      BY <2>1, <2>2 DEF Init
    <2> QED BY <2>4, <2>5 DEF MainTypesOK
  <1>3. ASSUME NEW w \in WorkerTypes PROVE WorkerOK(w)
    <2>1. /\ inbox[w] = <<>> /\ msgQueue[w] = <<>> /\ ready[w] = <<>> /\ waiting[w] = <<>>
          /\ fetching[w] = {} /\ mod[w] = None /\ editor[w] = None /\ capture[w] = None
          /\ outbox[w] = <<>> /\ promise[w].id = 1 /\ promise[w].state \in {"loading", "absent"}
          /\ promise[w] \in Promises
      BY <1>0 DEF WorkInit, Promises
    <2>2. WorkerTypesOK(w)
      BY <2>1, FS_EmptySet, EmptySeq DEF WorkerTypesOK, None, Texts
    <2>3. DOMAIN ready[w] = {} /\ DOMAIN waiting[w] = {} /\ Len(msgQueue[w]) = 0
      BY <2>1
    <2>4. ModuleOK(w) /\ ResumedOK(w) /\ InsideOK(w)
      BY <2>1, <2>3 DEF ModuleOK, ResumedOK, InsideOK
    <2>5. QueueOK(w)
      BY <2>2, <2>3, NextsFinite DEF WorkerTypesOK, QueueOK
    <2>6. JsonOK(w)
      <3>1. Ats(ready[w]) = {} /\ \A a, b : ~Pair(ready[w], a, b)
        BY <2>3 DEF Ats, Pair
      <3> QED BY <2>1, <2>3, <3>1 DEF JsonOK, LineOK, LineModuleOK, ThensOK, Has
    <2> QED BY <2>2, <2>4, <2>5, <2>6 DEF WorkerOK
  <1> QED BY <1>1, <1>2, <1>3 DEF Inv, WorkersOK

LEMMA InvNext == Inv /\ [Next]_vars => Inv'
  <1> SUFFICES ASSUME Inv, [Next]_vars PROVE Inv'
    OBVIOUS
  <1>0. MainTypesOK /\ DomainsOK /\ \A w \in WorkerTypes : WorkerOK(w)
    BY DEF Inv, WorkersOK
  <1>1. CASE (\E r \in Requests : Generate(r)) \/ Main
    <2>1. MainTypesOK' /\ DomainsOK' /\ \A w \in WorkerTypes : MainDoes(w)
      BY <1>1, MainSteps
    <2>2. \A w \in WorkerTypes : WorkerOK(w)'
      BY <1>0, <2>1, MainKeepsWorker
    <2> QED BY <2>1, <2>2 DEF Inv, WorkersOK
  <1>2. ASSUME NEW w \in WorkerTypes, Work(w), UNCHANGED mainVars PROVE Inv'
    <2>1. OthersStay(w) /\ WorkDoes(w)
      BY <1>0, <1>2, OneWorker
    <2>2. WorkerOK(w)'
      BY <1>0, <2>1, WorkerKept
    <2>3. \A v \in WorkerTypes \ {w} : WorkerOK(v)'
      BY <1>0, <2>1, WorkerStays DEF OthersStay
    <2>4. cancelled' = cancelled
      BY <1>2 DEF Work, OnMessage, LoadEnds, StoreModule, MakeArgs, FetchEnds, ArgsMade,
                  Repost, Exec, CannotEncode, CallMain, Trap, PostResult, LeaveExec, Catch,
                  NextRequest
    <2>5. MainTypesOK'
      BY <1>0, <1>2, <2>4 DEF MainTypesOK, mainVars
    <2> QED BY <2>1, <2>2, <2>3, <2>5 DEF Inv, WorkersOK, OthersStay
  <1>3. CASE UNCHANGED vars
    <2>1. MainTypesOK' /\ DomainsOK'
      BY <1>0, <1>3 DEF vars, mainVars, workVars, queueVars, turnVars, moduleVars,
                        MainTypesOK, DomainsOK
    <2>2. \A w \in WorkerTypes : Stays(w)
      BY <1>3 DEF vars, workVars, queueVars, turnVars, moduleVars, Stays
    <2>3. \A w \in WorkerTypes : WorkerOK(w)'
      BY <1>0, <2>2, WorkerStays
    <2> QED BY <2>1, <2>3 DEF Inv, WorkersOK
  <1> QED BY <1>1, <1>2, <1>3 DEF Next
-----------------------------------------------------------------------------
(* What holds at all times.                                                *)

\* Whatever is asked, and whatever traps or fails to load: the workers' lists
\* keep their types and their order.
THEOREM InvCorrect == Spec => []Inv
  BY InvInit, InvNext, PTL DEF Spec

LEMMA InvSays ==
  ASSUME Inv, NEW w \in WorkerTypes
  PROVE  WorkerTypesOK(w) /\ ModuleOK(w) /\ ResumedOK(w) /\ QueueOK(w) /\ InsideOK(w)
         /\ (w = "json2cpp2" => JsonOK(w))
  BY DEF Inv, WorkersOK, WorkerOK

\* What a module prints is collected for the job inside #exec: whichever job
\* calls the module, posts its result or gives up inside #exec has its own id in
\* #textCapture (em_work_ctx.ts).
THEOREM OutputCorrect == Spec => []OutputBelongs
  <1>1. ASSUME Inv, NEW w \in WorkerTypes, NEW i \in DOMAIN ready[w], InExec(ready[w][i])
        PROVE  ready[w][i].job.trace = capture[w]
    <2>1. InsideOK(w)
      BY <1>1, InvSays
    <2> QED BY <1>1, <2>1 DEF InsideOK
  <1>2. ASSUME Inv, NEW w \in WorkerTypes, NEW i \in DOMAIN waiting[w],
               waiting[w][i].then = "call"
        PROVE  waiting[w][i].job.trace = capture[w]
    <2>1. InsideOK(w)
      BY <1>2, InvSays
    <2> QED BY <1>2, <2>1 DEF InsideOK
  <1>3. Inv => OutputBelongs
    BY <1>1, <1>2 DEF OutputBelongs, InExec
  <1> QED BY <1>3, InvCorrect, PTL

\* Where makeArgs and ccall use #mod it is never a module that has trapped, and
\* where a module is called it is there; json2cpp2's makeArgs has one to write
\* /editor.json into, too.
THEOREM ModuleCorrect == Spec => []ModuleAtHand
  <1>1. ASSUME Inv, NEW w \in WorkerTypes, ready[w] # <<>>, Turn(w).at \in {"args", "call"}
        PROVE  /\ mod[w] # None => mod[w] = promise[w].id /\ promise[w].state = "loaded"
               /\ Turn(w).at = "call" \/ w = "json2cpp2" => mod[w] # None
               /\ (w = "json2cpp2" /\ Turn(w).at = "call") => editor[w] # None
    <2>1. /\ WorkerTypesOK(w) /\ ModuleOK(w) /\ ResumedOK(w)
          /\ (w = "json2cpp2" => JsonOK(w))
      BY <1>1, InvSays
    <2>2. ready[w] \in Seq(Turns(w))
      BY <2>1 DEF WorkerTypesOK
    <2>3. 1 \in DOMAIN ready[w] /\ Turn(w) = ready[w][1]
      BY <1>1, <2>2, LenProperties, EmptySeq, HeadTailProperties DEF Turn
    <2>4. mod[w] # None => mod[w] = promise[w].id /\ promise[w].state = "loaded"
      BY <2>1 DEF ModuleOK
    <2>5. Turn(w).at = "call" => mod[w] # None
      BY <2>1, <2>3 DEF ResumedOK
    <2>6. w = "json2cpp2" /\ Turn(w).at = "args" => mod[w] # None
      BY <2>1, <2>3 DEF JsonOK, LineModuleOK, Has, Ats
    <2>7. w = "json2cpp2" /\ Turn(w).at = "call" => editor[w] # None
      BY <2>1, <2>3 DEF JsonOK, LineModuleOK, Has, Ats
    <2> QED BY <1>1, <2>4, <2>5, <2>6, <2>7
  <1>2. Inv => ModuleAtHand
    BY <1>1 DEF ModuleAtHand
  <1> QED BY <1>2, InvCorrect, PTL

\* A worker that waits for an event with its module loaded has left no request
\* without a loop and nobody waiting for a promise that is settled; json2cpp2
\* has no capture left over either.
THEOREM RunsCorrect == Spec => []RunsToEnd
  <1>1. ASSUME Inv, NEW w \in WorkerTypes, ready[w] = <<>>, promise[w].state = "loaded"
        PROVE  /\ msgQueue[w] = <<>> /\ waiting[w] = <<>>
               /\ w = "json2cpp2" => capture[w] = None
    <2>1. /\ WorkerTypesOK(w) /\ ModuleOK(w) /\ QueueOK(w)
          /\ (w = "json2cpp2" => JsonOK(w))
      BY <1>1, InvSays
    <2>2. DOMAIN ready[w] = {}
      BY <1>1
    <2>3. msgQueue[w] = <<>>
      <3>1. Nexts(ready[w]) = {}
        BY <2>2 DEF Nexts
      <3>2. Cardinality(Nexts(ready[w])) = 0
        BY <3>1, FS_EmptySet
      <3>3. msgQueue[w] \in Seq(Jobs(w)) /\ Len(msgQueue[w]) <= 0
        BY <2>1, <3>2 DEF QueueOK, WorkerTypesOK
      <3>4. Len(msgQueue[w]) \in Nat
        BY <3>3, LenProperties
      <3>5. Len(msgQueue[w]) = 0
        BY <3>3, <3>4
      <3> QED BY <3>3, <3>5, EmptySeq
    <2>4. waiting[w] = <<>>
      BY <1>1, <2>1 DEF ModuleOK
    <2>5. w = "json2cpp2" => capture[w] = None
      <3>1. Ats(ready[w]) = {}
        BY <2>2 DEF Ats
      <3> QED BY <2>1, <3>1 DEF JsonOK, LineModuleOK, Has
    <2> QED BY <2>3, <2>4, <2>5
  <1>2. Inv => RunsToEnd
    BY <1>1 DEF RunsToEnd
  <1> QED BY <1>2, InvCorrect, PTL
=============================================================================
