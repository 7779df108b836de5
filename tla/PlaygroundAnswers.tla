-------------------------- MODULE PlaygroundAnswers --------------------------
(***************************************************************************)
(* What becomes of a request in Playground, for any number of generations, *)
(* reloads and kinds of requests: the workers keep it, once, until it is   *)
(* answered, and on the page the answer that is shown was made of the      *)
(* newest source.                                                          *)
(*                                                                         *)
(* A worker holds a request in one of six places, and a step carries one   *)
(* request from place to place; so the sum of what the places hold stays.  *)
(* Who overwrites /editor.json is a matter of order: on the page nothing   *)
(* is asked of json2cpp2 after the newest generation, and the turns keep   *)
(* that order until it has run.                                            *)
(***************************************************************************)
EXTENDS PlaygroundProofs

-----------------------------------------------------------------------------
(* Counting in a list.                                                     *)

Picked(s, S) == {i \in DOMAIN s : s[i] \in S}

LEMMA PickedFinite ==
  ASSUME NEW T, NEW s \in Seq(T), NEW S
  PROVE  /\ IsFiniteSet(Picked(s, S)) /\ Cardinality(Picked(s, S)) \in Nat
         /\ Picked(s, S) \subseteq Nat
         /\ s = <<>> => Cardinality(Picked(s, S)) = 0
         /\ \A i \in Picked(s, S) : Cardinality(Picked(s, S)) >= 1
  <1>1. Len(s) \in Nat /\ DOMAIN s = 1..Len(s)
    BY LenProperties
  <1>2. IsFiniteSet(DOMAIN s) /\ Picked(s, S) \subseteq DOMAIN s
    BY <1>1, FS_Interval DEF Picked
  <1>3. IsFiniteSet(Picked(s, S)) /\ Cardinality(Picked(s, S)) \in Nat
    BY <1>2, FS_Subset, FS_CardinalityType
  <1>4. ASSUME s = <<>> PROVE Cardinality(Picked(s, S)) = 0
    <2>1. DOMAIN s = {}
      BY <1>4
    <2>2. Picked(s, S) = {}
      BY <1>2, <2>1
    <2> QED BY <2>2, FS_EmptySet
  <1>5. ASSUME NEW i \in Picked(s, S) PROVE Cardinality(Picked(s, S)) >= 1
    <2>1. Cardinality(Picked(s, S)) # 0
      BY <1>3, <1>5, FS_EmptySet
    <2> QED BY <1>3, <2>1
  <1> QED BY <1>1, <1>2, <1>3, <1>4, <1>5

LEMMA PickedAppend ==
  ASSUME NEW T, NEW s \in Seq(T), NEW m \in T, NEW S
  PROVE  /\ m \in S => Cardinality(Picked(Append(s, m), S)) = Cardinality(Picked(s, S)) + 1
         /\ m \notin S => Cardinality(Picked(Append(s, m), S)) = Cardinality(Picked(s, S))
  <1> DEFINE r == Append(s, m)
             n == Len(s) + 1
  <1>1. /\ Len(s) \in Nat /\ DOMAIN s = 1..Len(s) /\ DOMAIN r = 1..n /\ r[n] = m
        /\ \A i \in 1..Len(s) : r[i] = s[i]
    BY AppendProperties, LenProperties
  <1> HIDE DEF r
  <1>2. IsFiniteSet(Picked(s, S))
    BY PickedFinite
  <1>3. CASE m \in S
    <2>1. Picked(r, S) = Picked(s, S) \cup {n} /\ n \notin Picked(s, S)
      BY <1>1, <1>3 DEF Picked
    <2> QED BY <1>2, <1>3, <2>1, FS_AddElement DEF r
  <1>4. CASE m \notin S
    <2>1. Picked(r, S) = Picked(s, S)
      BY <1>1, <1>4 DEF Picked
    <2> QED BY <1>4, <2>1 DEF r
  <1> QED BY <1>3, <1>4

LEMMA PickedRest ==
  ASSUME NEW T, NEW s \in Seq(T), NEW S
  PROVE  /\ s # <<>> /\ Head(s) \in S =>
              Cardinality(Picked(Rest(s), S)) = Cardinality(Picked(s, S)) - 1
         /\ ~(s # <<>> /\ Head(s) \in S) =>
              Cardinality(Picked(Rest(s), S)) = Cardinality(Picked(s, S))
  <1> DEFINE A == Picked(s, S) \ {1}
             r == Rest(s)
  <1>1. /\ r \in Seq(T)
        /\ \A j \in DOMAIN r : j \in Nat /\ 1 < j + 1 /\ j + 1 \in DOMAIN s /\ r[j] = s[j + 1]
        /\ \A k \in DOMAIN s : k # 1 => k - 1 \in DOMAIN r /\ r[k - 1] = s[k]
        /\ \A k \in DOMAIN s : k \in Nat /\ 1 <= k
        /\ s # <<>> => Head(s) = s[1] /\ Head(s) \in T /\ 1 \in DOMAIN s
    BY RestAt
  <1> HIDE DEF r
  <1>2. IsFiniteSet(Picked(s, S)) /\ Cardinality(Picked(s, S)) \in Nat
    BY PickedFinite
  <1>3. IsFiniteSet(A) /\ A \subseteq Nat
    BY <1>1, <1>2, FS_Subset DEF Picked
  <1>4. Picked(r, S) = {i - 1 : i \in A}
    <2>1. \A i \in A : i - 1 \in Picked(r, S)
      BY <1>1 DEF Picked
    <2>2. \A j \in Picked(r, S) : j + 1 \in A /\ j = (j + 1) - 1
      BY <1>1 DEF Picked
    <2> QED BY <2>1, <2>2
  <1>5. Cardinality(Picked(r, S)) = Cardinality(A)
    BY <1>3, <1>4, Shifted
  <1>6. CASE s # <<>> /\ Head(s) \in S
    <2>1. 1 \in Picked(s, S)
      BY <1>1, <1>6 DEF Picked
    <2>2. Cardinality(A) = Cardinality(Picked(s, S)) - 1
      BY <1>2, <2>1, FS_RemoveElement
    <2> QED BY <1>5, <1>6, <2>2 DEF r
  <1>7. CASE ~(s # <<>> /\ Head(s) \in S)
    <2>1. 1 \notin Picked(s, S)
      <3>1. CASE s = <<>>
        BY <3>1 DEF Picked
      <3>2. CASE s # <<>>
        BY <1>1, <1>7, <3>2 DEF Picked
      <3> QED BY <3>1, <3>2
    <2>2. A = Picked(s, S)
      BY <2>1
    <2> QED BY <1>5, <1>7, <2>2 DEF r
  <1> QED BY <1>6, <1>7

-----------------------------------------------------------------------------
(* The places of a request.                                                *)

\* How often g is in a list of messages, of waiting jobs, of turns, and in the
\* set of fetches.
Messages(s, g) == Cardinality({i \in DOMAIN s : s[i].trace = g})
Waiters(s, g) == Cardinality({i \in DOMAIN s : s[i].job.trace = g})
Runners(s, g) == Cardinality({i \in DOMAIN s : s[i].job.trace = g /\ s[i].at # "next"})
Fetchers(F, g) == Cardinality({f \in F : f.job.trace = g})

Total(inb, queue, out, wait, turns, fetch, g) ==
    Messages(inb, g) + Messages(queue, g) + Messages(out, g) + Waiters(wait, g)
      + Runners(turns, g) + Fetchers(fetch, g)

\* What a single message, job or turn adds.
OneMessage(m, g) == IF m.trace = g THEN 1 ELSE 0
OneRunner(t, g) == IF t.job.trace = g /\ t.at # "next" THEN 1 ELSE 0
HeadRunner(s, g) == IF s = <<>> THEN 0 ELSE OneRunner(Head(s), g)

LEMMA HeldIs ==
  ASSUME NEW w, NEW g
  PROVE  /\ Held(w, g) = Total(inbox[w], msgQueue[w], outbox[w], waiting[w], ready[w],
                               fetching[w], g)
         /\ Held(w, g)' = Total(inbox'[w], msgQueue'[w], outbox'[w], waiting'[w], ready'[w],
                                fetching'[w], g)
  BY DEF Held, Total, Messages, Waiters, Runners, Fetchers

(* Sequences of records that have a trace.                                 *)
LEMMA MessagesCount ==
  ASSUME NEW w, NEW T \in {Jobs(w), Results(w)}, NEW s \in Seq(T), NEW g
  PROVE  /\ Messages(s, g) \in Nat /\ (s = <<>> => Messages(s, g) = 0)
         /\ \A i \in DOMAIN s : s[i].trace = g => Messages(s, g) >= 1
         /\ \A m \in T : Messages(Append(s, m), g) = Messages(s, g) + OneMessage(m, g)
         /\ s # <<>> => Messages(Tail(s), g) = Messages(s, g) - OneMessage(Head(s), g)
                        /\ Head(s) \in T
  <1> DEFINE S == {m \in T : m.trace = g}
  <1>1. \A q \in Seq(T) : Messages(q, g) = Cardinality(Picked(q, S))
    <2>1. ASSUME NEW q \in Seq(T) PROVE Messages(q, g) = Cardinality(Picked(q, S))
      <3>1. \A i \in DOMAIN q : q[i] \in T
        BY ElementOfSeq, LenProperties
      <3>2. {i \in DOMAIN q : q[i].trace = g} = Picked(q, S)
        BY <3>1 DEF Picked
      <3> QED BY <3>2 DEF Messages
    <2> QED BY <2>1
  <1>2. \A m \in T : m \in S <=> m.trace = g
    OBVIOUS
  <1> HIDE DEF S
  <1>3. /\ Messages(s, g) \in Nat /\ (s = <<>> => Messages(s, g) = 0)
        /\ \A i \in Picked(s, S) : Messages(s, g) >= 1
    BY <1>1, PickedFinite
  <1>4. \A i \in DOMAIN s : s[i].trace = g => i \in Picked(s, S)
    <2>1. \A i \in DOMAIN s : s[i] \in T
      BY ElementOfSeq, LenProperties
    <2> QED BY <1>2, <2>1 DEF Picked
  <1>5. ASSUME NEW m \in T
        PROVE  Messages(Append(s, m), g) = Messages(s, g) + OneMessage(m, g)
    <2>1. Append(s, m) \in Seq(T)
      BY AppendProperties
    <2>2. /\ m \in S => Cardinality(Picked(Append(s, m), S)) = Cardinality(Picked(s, S)) + 1
          /\ m \notin S => Cardinality(Picked(Append(s, m), S)) = Cardinality(Picked(s, S))
      BY PickedAppend
    <2>3. /\ Messages(Append(s, m), g) = Cardinality(Picked(Append(s, m), S))
          /\ Messages(s, g) = Cardinality(Picked(s, S))
      BY <1>1, <2>1
    <2> QED BY <1>2, <1>3, <2>2, <2>3 DEF OneMessage
  <1>6. ASSUME s # <<>>
        PROVE  Messages(Tail(s), g) = Messages(s, g) - OneMessage(Head(s), g) /\ Head(s) \in T
    <2>1. Tail(s) \in Seq(T) /\ Head(s) \in T /\ Rest(s) = Tail(s)
      BY <1>6, HeadTailProperties DEF Rest
    <2>2. /\ Head(s) \in S => Cardinality(Picked(Rest(s), S)) = Cardinality(Picked(s, S)) - 1
          /\ Head(s) \notin S => Cardinality(Picked(Rest(s), S)) = Cardinality(Picked(s, S))
      BY <1>6, PickedRest
    <2>3. /\ Messages(Tail(s), g) = Cardinality(Picked(Rest(s), S))
          /\ Messages(s, g) = Cardinality(Picked(s, S))
      BY <1>1, <2>1
    <2> QED BY <1>2, <1>3, <2>1, <2>2, <2>3 DEF OneMessage
  <1> QED BY <1>3, <1>4, <1>5, <1>6

(* Jobs that wait.                                                         *)
LEMMA WaitersCount ==
  ASSUME NEW w, NEW s \in Seq(Awaits(w)), NEW g
  PROVE  /\ Waiters(s, g) \in Nat /\ (s = <<>> => Waiters(s, g) = 0)
         /\ \A i \in DOMAIN s : s[i].job.trace = g => Waiters(s, g) >= 1
         /\ \A a \in Awaits(w) :
              Waiters(Append(s, a), g) = Waiters(s, g) + OneMessage(a.job, g)
  <1> DEFINE S == {a \in Awaits(w) : a.job.trace = g}
  <1>1. \A q \in Seq(Awaits(w)) : Waiters(q, g) = Cardinality(Picked(q, S))
    <2>1. ASSUME NEW q \in Seq(Awaits(w)) PROVE Waiters(q, g) = Cardinality(Picked(q, S))
      <3>1. \A i \in DOMAIN q : q[i] \in Awaits(w)
        BY ElementOfSeq, LenProperties
      <3>2. {i \in DOMAIN q : q[i].job.trace = g} = Picked(q, S)
        BY <3>1 DEF Picked
      <3> QED BY <3>2 DEF Waiters
    <2> QED BY <2>1
  <1>2. \A a \in Awaits(w) : a \in S <=> a.job.trace = g
    OBVIOUS
  <1> HIDE DEF S
  <1>3. /\ Waiters(s, g) \in Nat /\ (s = <<>> => Waiters(s, g) = 0)
        /\ \A i \in Picked(s, S) : Waiters(s, g) >= 1
    BY <1>1, PickedFinite
  <1>4. \A i \in DOMAIN s : s[i].job.trace = g => i \in Picked(s, S)
    <2>1. \A i \in DOMAIN s : s[i] \in Awaits(w)
      BY ElementOfSeq, LenProperties
    <2> QED BY <1>2, <2>1 DEF Picked
  <1>5. ASSUME NEW a \in Awaits(w)
        PROVE  Waiters(Append(s, a), g) = Waiters(s, g) + OneMessage(a.job, g)
    <2>1. Append(s, a) \in Seq(Awaits(w))
      BY AppendProperties
    <2>2. /\ a \in S => Cardinality(Picked(Append(s, a), S)) = Cardinality(Picked(s, S)) + 1
          /\ a \notin S => Cardinality(Picked(Append(s, a), S)) = Cardinality(Picked(s, S))
      BY PickedAppend
    <2>3. /\ Waiters(Append(s, a), g) = Cardinality(Picked(Append(s, a), S))
          /\ Waiters(s, g) = Cardinality(Picked(s, S))
      BY <1>1, <2>1
    <2> QED BY <1>2, <1>3, <2>2, <2>3 DEF OneMessage
  <1> QED BY <1>3, <1>4, <1>5

(* Turns: what the step of the turn at the head leaves.                    *)
LEMMA RunnersCount ==
  ASSUME NEW w, NEW s \in Seq(Turns(w)), NEW g
  PROVE  /\ Runners(s, g) \in Nat /\ (s = <<>> => Runners(s, g) = 0)
         /\ \A i \in DOMAIN s : s[i].job.trace = g /\ s[i].at # "next" => Runners(s, g) >= 1
         /\ \A r : Dropped(s, r) => Runners(r, g) = Runners(s, g) - HeadRunner(s, g)
         /\ \A r : \A t \in Turns(w) : Moved(s, r, t) =>
              Runners(r, g) = Runners(s, g) - HeadRunner(s, g) + OneRunner(t, g)
  <1> DEFINE S == {t \in Turns(w) : t.job.trace = g /\ t.at # "next"}
  <1>1. \A q \in Seq(Turns(w)) : Runners(q, g) = Cardinality(Picked(q, S))
    <2>1. ASSUME NEW q \in Seq(Turns(w)) PROVE Runners(q, g) = Cardinality(Picked(q, S))
      <3>1. \A i \in DOMAIN q : q[i] \in Turns(w)
        BY ElementOfSeq, LenProperties
      <3>2. {i \in DOMAIN q : q[i].job.trace = g /\ q[i].at # "next"} = Picked(q, S)
        BY <3>1 DEF Picked
      <3> QED BY <3>2 DEF Runners
    <2> QED BY <2>1
  <1>2. \A t \in Turns(w) : t \in S <=> t.job.trace = g /\ t.at # "next"
    OBVIOUS
  <1> HIDE DEF S
  <1>3. /\ Runners(s, g) \in Nat /\ (s = <<>> => Runners(s, g) = 0)
        /\ \A i \in Picked(s, S) : Runners(s, g) >= 1
    BY <1>1, PickedFinite
  <1>4. \A i \in DOMAIN s : s[i].job.trace = g /\ s[i].at # "next" => i \in Picked(s, S)
    <2>1. \A i \in DOMAIN s : s[i] \in Turns(w)
      BY ElementOfSeq, LenProperties
    <2> QED BY <1>2, <2>1 DEF Picked
  <1>5. Rest(s) \in Seq(Turns(w)) /\ (s # <<>> => Head(s) \in Turns(w))
    BY RestAt
  <1>6. Runners(Rest(s), g) = Runners(s, g) - HeadRunner(s, g)
    <2>1. /\ s # <<>> /\ Head(s) \in S =>
               Cardinality(Picked(Rest(s), S)) = Cardinality(Picked(s, S)) - 1
          /\ ~(s # <<>> /\ Head(s) \in S) =>
               Cardinality(Picked(Rest(s), S)) = Cardinality(Picked(s, S))
      BY PickedRest
    <2>2. /\ Runners(Rest(s), g) = Cardinality(Picked(Rest(s), S))
          /\ Runners(s, g) = Cardinality(Picked(s, S))
      BY <1>1, <1>5
    <2>3. s # <<>> => (Head(s) \in S <=> Head(s).job.trace = g /\ Head(s).at # "next")
      BY <1>2, <1>5
    <2> QED BY <1>3, <2>1, <2>2, <2>3 DEF HeadRunner, OneRunner
  <1>7. ASSUME NEW r, NEW t \in Turns(w), Moved(s, r, t)
        PROVE  Runners(r, g) = Runners(s, g) - HeadRunner(s, g) + OneRunner(t, g)
    <2>1. r = Append(Rest(s), t) /\ r \in Seq(Turns(w))
      BY <1>5, <1>7, AppendProperties DEF Moved
    <2>2. /\ t \in S => Cardinality(Picked(r, S)) = Cardinality(Picked(Rest(s), S)) + 1
          /\ t \notin S => Cardinality(Picked(r, S)) = Cardinality(Picked(Rest(s), S))
      BY <1>5, <2>1, PickedAppend
    <2>3. /\ Runners(r, g) = Cardinality(Picked(r, S))
          /\ Runners(Rest(s), g) = Cardinality(Picked(Rest(s), S))
      BY <1>1, <1>5, <2>1
    <2>4. HeadRunner(s, g) \in {0, 1}
      BY DEF HeadRunner, OneRunner
    <2> QED BY <1>2, <1>3, <1>6, <2>2, <2>3, <2>4 DEF OneRunner
  <1> QED BY <1>3, <1>4, <1>6, <1>7 DEF Dropped

(* Jobs whose imports are being fetched.                                   *)
LEMMA FetchersCount ==
  ASSUME NEW F, IsFiniteSet(F), NEW g
  PROVE  /\ Fetchers(F, g) \in Nat
         /\ \A f \in F : f.job.trace = g => Fetchers(F, g) >= 1
         /\ \A f \in F : Fetchers(F \ {f}, g) = Fetchers(F, g) - OneMessage(f.job, g)
         /\ \A f : f \notin F =>
              Fetchers(F \cup {f}, g) = Fetchers(F, g) + OneMessage(f.job, g)
  <1> DEFINE P(A) == {f \in A : f.job.trace = g}
  <1>1. IsFiniteSet(P(F)) /\ Cardinality(P(F)) \in Nat
    <2>1. P(F) \subseteq F
      OBVIOUS
    <2> QED BY <2>1, FS_Subset, FS_CardinalityType
  <1>2. ASSUME NEW f \in F, f.job.trace = g PROVE Fetchers(F, g) >= 1
    <2>1. f \in P(F)
      BY <1>2
    <2>2. Cardinality(P(F)) # 0
      BY <1>1, <2>1, FS_EmptySet
    <2> QED BY <1>1, <2>2 DEF Fetchers
  <1>3. ASSUME NEW f \in F
        PROVE  Fetchers(F \ {f}, g) = Fetchers(F, g) - OneMessage(f.job, g)
    <2>1. CASE f.job.trace = g
      <3>1. P(F \ {f}) = P(F) \ {f} /\ f \in P(F)
        BY <2>1
      <3>2. Cardinality(P(F) \ {f}) = Cardinality(P(F)) - 1
        BY <1>1, <3>1, FS_RemoveElement
      <3> QED BY <2>1, <3>1, <3>2 DEF Fetchers, OneMessage
    <2>2. CASE f.job.trace # g
      <3>1. P(F \ {f}) = P(F)
        BY <2>2
      <3>2. Fetchers(F \ {f}, g) = Fetchers(F, g) /\ Fetchers(F, g) \in Nat
        BY <1>1, <3>1 DEF Fetchers
      <3>3. OneMessage(f.job, g) = 0
        BY <2>2 DEF OneMessage
      <3> QED BY <3>2, <3>3
    <2> QED BY <2>1, <2>2
  <1>4. ASSUME NEW f, f \notin F
        PROVE  Fetchers(F \cup {f}, g) = Fetchers(F, g) + OneMessage(f.job, g)
    <2>1. CASE f.job.trace = g
      <3>1. P(F \cup {f}) = P(F) \cup {f} /\ f \notin P(F)
        BY <1>4, <2>1
      <3>2. Cardinality(P(F) \cup {f}) = Cardinality(P(F)) + 1
        BY <1>1, <3>1, FS_AddElement
      <3> QED BY <2>1, <3>1, <3>2 DEF Fetchers, OneMessage
    <2>2. CASE f.job.trace # g
      <3>1. P(F \cup {f}) = P(F)
        BY <2>2
      <3>2. Fetchers(F \cup {f}, g) = Fetchers(F, g) /\ Fetchers(F, g) \in Nat
        BY <1>1, <3>1 DEF Fetchers
      <3>3. OneMessage(f.job, g) = 0
        BY <2>2 DEF OneMessage
      <3> QED BY <3>2, <3>3
    <2> QED BY <2>1, <2>2
  <1> QED BY <1>1, <1>2, <1>3, <1>4 DEF Fetchers

-----------------------------------------------------------------------------
(* A step of a worker keeps what it holds.                                 *)

CountsTyped(w, g) ==
    /\ Messages(inbox[w], g) \in Nat /\ Messages(msgQueue[w], g) \in Nat
    /\ Messages(outbox[w], g) \in Nat /\ Waiters(waiting[w], g) \in Nat
    /\ Runners(ready[w], g) \in Nat /\ Fetchers(fetching[w], g) \in Nat
    /\ HeadRunner(ready[w], g) \in {0, 1}

LEMMA CountsNat ==
  ASSUME NEW w, NEW g
  PROVE  /\ WorkerTypesOK(w) => CountsTyped(w, g)
         /\ WorkerTypesOK(w)' => CountsTyped(w, g)'
  BY MessagesCount, WaitersCount, RunnersCount, FetchersCount
     DEF CountsTyped, WorkerTypesOK, HeadRunner, OneRunner

LEMMA WaitsCount ==
  ASSUME NEW w, WorkerTypesOK(w), NEW job \in Jobs(w), NEW then \in {"args", "call"},
         Waits(w, job, then), NEW g
  PROVE  Runners(ready'[w], g) + Waiters(waiting'[w], g) =
           Runners(ready[w], g) - HeadRunner(ready[w], g) + Waiters(waiting[w], g)
             + OneMessage(job, g)
  <1>1. /\ ready[w] \in Seq(Turns(w)) /\ waiting[w] \in Seq(Awaits(w)) /\ promise[w].id \in Nat
    BY DEF WorkerTypesOK, Promises
  <1>2. /\ Runners(ready[w], g) \in Nat /\ Waiters(waiting[w], g) \in Nat
        /\ HeadRunner(ready[w], g) \in {0, 1} /\ OneMessage(job, g) \in {0, 1}
    BY CountsNat DEF CountsTyped, OneMessage
  <1>3. ASSUME NEW t \in Turns(w), t.job = job, t.at # "next",
               Moved(ready[w], ready'[w], t), waiting'[w] = waiting[w]
        PROVE  Runners(ready'[w], g) + Waiters(waiting'[w], g) =
                 Runners(ready[w], g) - HeadRunner(ready[w], g) + Waiters(waiting[w], g)
                   + OneMessage(job, g)
    <2>1. Runners(ready'[w], g) =
            Runners(ready[w], g) - HeadRunner(ready[w], g) + OneRunner(t, g)
      BY <1>1, <1>3, RunnersCount
    <2>2. OneRunner(t, g) = OneMessage(job, g)
      BY <1>3 DEF OneRunner, OneMessage
    <2> QED BY <1>2, <1>3, <2>1, <2>2
  <1>4. CASE /\ Dropped(ready[w], ready'[w])
             /\ waiting'[w] = Append(waiting[w], Awaiting(job, then))
    <2>1. Awaiting(job, then) \in Awaits(w) /\ Awaiting(job, then).job = job
      BY DEF Awaiting, Awaits
    <2>2. Waiters(waiting'[w], g) = Waiters(waiting[w], g) + OneMessage(job, g)
      BY <1>1, <1>4, <2>1, WaitersCount
    <2>3. Runners(ready'[w], g) = Runners(ready[w], g) - HeadRunner(ready[w], g)
      BY <1>1, <1>4, RunnersCount
    <2> QED BY <1>2, <2>2, <2>3
  <1>5. CASE Moved(ready[w], ready'[w], At(job, then)) /\ waiting'[w] = waiting[w]
    <2>1. At(job, then) \in Turns(w) /\ At(job, then).job = job /\ At(job, then).at # "next"
      BY DEF At, Turns, Steps
    <2> QED BY <1>3, <1>5, <2>1
  <1>6. CASE /\ Moved(ready[w], ready'[w], Resumed(Awaiting(job, then), promise[w].id))
             /\ waiting'[w] = waiting[w]
    <2> DEFINE t == Resumed(Awaiting(job, then), promise[w].id)
    <2>1. t \in Turns(w) /\ t.job = job /\ t.at # "next"
      BY <1>1 DEF Resumed, Awaiting, Turns
    <2> HIDE DEF t
    <2> QED BY <1>3, <1>6, <2>1 DEF t
  <1> QED BY <1>4, <1>5, <1>6 DEF Waits

LEMMA LoopsCount ==
  ASSUME NEW w \in WorkerTypes, WorkerTypesOK(w), NEW queue \in Seq(Jobs(w)),
         Loops(w, queue), NEW g
  PROVE  Runners(ready'[w], g) + Waiters(waiting'[w], g) + Messages(msgQueue'[w], g) =
           Runners(ready[w], g) - HeadRunner(ready[w], g) + Waiters(waiting[w], g)
             + Messages(queue, g)
  <1>1. /\ ready[w] \in Seq(Turns(w)) /\ waiting[w] \in Seq(Awaits(w))
        /\ Runners(ready[w], g) \in Nat /\ Waiters(waiting[w], g) \in Nat
        /\ HeadRunner(ready[w], g) \in {0, 1} /\ Messages(queue, g) \in Nat
    BY CountsNat, MessagesCount DEF CountsTyped, WorkerTypesOK
  <1>2. CASE /\ queue = <<>> /\ msgQueue'[w] = queue
             /\ Dropped(ready[w], ready'[w]) /\ waiting'[w] = waiting[w]
    <2>1. Runners(ready'[w], g) = Runners(ready[w], g) - HeadRunner(ready[w], g)
      BY <1>1, <1>2, RunnersCount
    <2> QED BY <1>1, <1>2, <2>1
  <1>3. CASE queue # <<>> /\ msgQueue'[w] = Tail(queue) /\ Waits(w, Head(queue), "args")
    <2> DEFINE job == Head(queue)
    <2>1. /\ Messages(Tail(queue), g) = Messages(queue, g) - OneMessage(job, g)
          /\ job \in Jobs(w)
      BY <1>3, MessagesCount
    <2>2. Waits(w, job, "args") /\ OneMessage(job, g) \in {0, 1}
      BY <1>3 DEF OneMessage
    <2> HIDE DEF job
    <2>3. Runners(ready'[w], g) + Waiters(waiting'[w], g) =
            Runners(ready[w], g) - HeadRunner(ready[w], g) + Waiters(waiting[w], g)
              + OneMessage(job, g)
      BY <2>1, <2>2, WaitsCount
    <2>4. Runners(ready'[w], g) \in Nat /\ Waiters(waiting'[w], g) \in Nat
      <3>1. ready'[w] \in Seq(Turns(w)) /\ waiting'[w] \in Seq(Awaits(w))
        BY <2>1, <2>2, WaitTypes
      <3> QED BY <3>1, RunnersCount, WaitersCount
    <2> QED BY <1>1, <1>3, <2>1, <2>2, <2>3, <2>4
  <1> QED BY <1>2, <1>3 DEF Loops

LEMMA RunsCount ==
  ASSUME NEW w \in WorkerTypes, WorkerTypesOK(w), NEW from, NEW t, Runs(w, from, t),
         ready'[w] \in Seq(Turns(w)), "next" \notin from, NEW g
  PROVE  /\ t \in Turns(w)
         /\ t.at # "next" => Runners(ready'[w], g) = Runners(ready[w], g)
         /\ t.at = "next" =>
              Runners(ready'[w], g) = Runners(ready[w], g) - OneMessage(Turn(w).job, g)
  <1>1. /\ ready[w] \in Seq(Turns(w)) /\ Runners(ready[w], g) \in Nat
    BY CountsNat DEF CountsTyped, WorkerTypesOK
  <1>2. t \in Turns(w)
    BY <1>1, MovedIn DEF Runs
  <1>3. Runners(ready'[w], g) =
          Runners(ready[w], g) - HeadRunner(ready[w], g) + OneRunner(t, g)
    BY <1>1, <1>2, RunnersCount DEF Runs
  <1>4. HeadRunner(ready[w], g) = OneMessage(Turn(w).job, g)
    BY DEF Runs, HeadRunner, OneRunner, OneMessage, Turn
  <1>5. OneRunner(t, g) = IF t.at = "next" THEN 0 ELSE OneMessage(Turn(w).job, g)
    BY DEF Runs, OneRunner, OneMessage
  <1>6. OneMessage(Turn(w).job, g) \in {0, 1}
    BY DEF OneMessage
  <1> QED BY <1>1, <1>2, <1>3, <1>4, <1>5, <1>6

(* LoadEnds moves everybody who waits to the list of turns.                *)
LEMMA LoadCount ==
  ASSUME NEW w, WorkerTypesOK(w), LoadEndsDoes(w), NEW g
  PROVE  Runners(ready'[w], g) = Waiters(waiting[w], g) /\ Waiters(waiting'[w], g) = 0
         /\ Runners(ready[w], g) = 0
  <1>1. /\ waiting[w] \in Seq(Awaits(w)) /\ ready[w] \in Seq(Turns(w)) /\ ready[w] = <<>>
        /\ ready'[w] = [i \in DOMAIN waiting[w] |-> Resumed(waiting[w][i], promise[w].id)]
        /\ waiting'[w] = <<>>
    BY DEF WorkerTypesOK, LoadEndsDoes
  <1>2. {i \in DOMAIN ready'[w] : ready'[w][i].job.trace = g /\ ready'[w][i].at # "next"}
          = {i \in DOMAIN waiting[w] : waiting[w][i].job.trace = g}
    BY <1>1 DEF Resumed
  <1>3. Runners(ready[w], g) = 0
    BY <1>1, RunnersCount
  <1>4. <<>> \in Seq(Awaits(w))
    BY EmptySeq
  <1>5. Waiters(waiting'[w], g) = 0
    <2>1. Waiters(<<>>, g) = 0
      BY <1>4, WaitersCount
    <2> QED BY <1>1, <2>1
  <1> QED BY <1>2, <1>3, <1>5 DEF Runners, Waiters

(* A job is fetched for only once.                                         *)
LEMMA FetchIsNew ==
  ASSUME NEW w \in WorkerTypes, WorkerTypesOK(w), ready[w] # <<>>, Turn(w).at = "args",
         Held(w, Turn(w).job.trace) <= 1
  PROVE  Fetching(Turn(w).job, mod[w]) \notin fetching[w]
  <1> DEFINE h == Turn(w).job.trace
  <1>1. CountsTyped(w, h)
    BY CountsNat
  <1>2. Runners(ready[w], h) >= 1
    <2>1. ready[w] \in Seq(Turns(w)) /\ 1 \in DOMAIN ready[w] /\ Turn(w) = ready[w][1]
      BY HeadTurn DEF WorkerTypesOK
    <2> QED BY <2>1, RunnersCount
  <1>3. Held(w, h) <= 1
    OBVIOUS
  <1> HIDE DEF h
  <1>4. Fetchers(fetching[w], h) = 0
    BY <1>1, <1>2, <1>3, HeldIs DEF CountsTyped, Total
  <1>5. \A f \in fetching[w] : f.job.trace # h
    BY <1>4, FetchersCount DEF WorkerTypesOK
  <1> QED BY <1>5 DEF h, Fetching

(* FetchEnds makes a turn of a fetch.                                      *)
LEMMA FetchCount ==
  ASSUME NEW w, NEW s \in Seq(Turns(w)), s = <<>>, NEW t \in Turns(w), t.at # "next",
         NEW r, Moved(s, r, t), NEW F, IsFiniteSet(F), NEW f \in F, f.job = t.job, NEW g
  PROVE  Runners(r, g) + Fetchers(F \ {f}, g) = Fetchers(F, g) /\ Runners(s, g) = 0
  <1>1. Runners(s, g) = 0 /\ HeadRunner(s, g) = 0
    BY RunnersCount DEF HeadRunner
  <1>2. Runners(r, g) = Runners(s, g) - HeadRunner(s, g) + OneRunner(t, g)
    <2>1. \A q : \A u \in Turns(w) : Moved(s, q, u) =>
            Runners(q, g) = Runners(s, g) - HeadRunner(s, g) + OneRunner(u, g)
      BY RunnersCount
    <2> QED BY <2>1
  <1>3. /\ Fetchers(F \ {f}, g) = Fetchers(F, g) - OneMessage(f.job, g)
        /\ Fetchers(F, g) \in Nat
    BY FetchersCount
  <1>4. OneMessage(f.job, g) = OneRunner(t, g) /\ OneRunner(t, g) \in {0, 1}
    BY DEF OneMessage, OneRunner
  <1>5. Fetchers(F \ {f}, g) = Fetchers(F, g) - OneRunner(t, g)
    BY <1>3, <1>4
  <1> QED BY <1>1, <1>2, <1>3, <1>4, <1>5

LEMMA WorkHeld ==
  ASSUME NEW w \in WorkerTypes, WorkerOK(w), WorkDoes(w), NEW g \in Generations,
         \A h \in Generations : Held(w, h) <= 1
  PROVE  Held(w, g)' = Held(w, g)
  <1>0. WorkerTypesOK(w) /\ WorkerTypesOK(w)'
    BY TypesKept DEF WorkerOK
  <1>1. CountsTyped(w, g) /\ CountsTyped(w, g)'
    BY <1>0, CountsNat
  <1>2. /\ inbox[w] \in Seq(Jobs(w)) /\ msgQueue[w] \in Seq(Jobs(w))
        /\ ready[w] \in Seq(Turns(w)) /\ ready'[w] \in Seq(Turns(w))
        /\ waiting[w] \in Seq(Awaits(w)) /\ outbox[w] \in Seq(Results(w))
        /\ IsFiniteSet(fetching[w])
    BY <1>0 DEF WorkerTypesOK
  <1>3. /\ Held(w, g) = Messages(inbox[w], g) + Messages(msgQueue[w], g)
             + Messages(outbox[w], g) + Waiters(waiting[w], g) + Runners(ready[w], g)
             + Fetchers(fetching[w], g)
        /\ Held(w, g)' = Messages(inbox'[w], g) + Messages(msgQueue'[w], g)
             + Messages(outbox'[w], g) + Waiters(waiting'[w], g) + Runners(ready'[w], g)
             + Fetchers(fetching'[w], g)
    BY HeldIs DEF Total
  <1>4. /\ Messages(inbox[w], g) \in Nat /\ Messages(inbox'[w], g) \in Nat
        /\ Messages(msgQueue[w], g) \in Nat /\ Messages(msgQueue'[w], g) \in Nat
        /\ Messages(outbox[w], g) \in Nat /\ Messages(outbox'[w], g) \in Nat
        /\ Waiters(waiting[w], g) \in Nat /\ Waiters(waiting'[w], g) \in Nat
        /\ Runners(ready[w], g) \in Nat /\ Runners(ready'[w], g) \in Nat
        /\ Fetchers(fetching[w], g) \in Nat /\ Fetchers(fetching'[w], g) \in Nat
        /\ HeadRunner(ready[w], g) \in {0, 1}
    BY <1>1 DEF CountsTyped
  <1>5. CASE OnMessageDoes(w)
    <2> DEFINE m == Head(inbox[w])
               queue == Append(msgQueue[w], m)
    <2>1. /\ Messages(inbox'[w], g) = Messages(inbox[w], g) - OneMessage(m, g) /\ m \in Jobs(w)
      BY <1>2, <1>5, MessagesCount DEF OnMessageDoes
    <2>2. /\ queue \in Seq(Jobs(w))
          /\ Messages(queue, g) = Messages(msgQueue[w], g) + OneMessage(m, g)
      BY <1>2, <2>1, MessagesCount, AppendProperties
    <2>3. Loops(w, queue)
      BY <1>5 DEF OnMessageDoes
    <2>4. HeadRunner(ready[w], g) = 0 /\ OneMessage(m, g) \in {0, 1}
      BY <1>5 DEF OnMessageDoes, HeadRunner, OneMessage
    <2> HIDE DEF m, queue
    <2>5. Runners(ready'[w], g) + Waiters(waiting'[w], g) + Messages(msgQueue'[w], g) =
            Runners(ready[w], g) - HeadRunner(ready[w], g) + Waiters(waiting[w], g)
              + Messages(queue, g)
      BY <1>0, <2>2, <2>3, LoopsCount
    <2>6. outbox'[w] = outbox[w] /\ fetching'[w] = fetching[w]
      BY <1>5 DEF OnMessageDoes, KeepsRest
    <2>7. Messages(outbox'[w], g) = Messages(outbox[w], g)
          /\ Fetchers(fetching'[w], g) = Fetchers(fetching[w], g)
      BY <2>6
    <2>8. Messages(queue, g) \in Nat
      BY <2>2, MessagesCount
    <2>9. Runners(ready'[w], g) + Waiters(waiting'[w], g) + Messages(msgQueue'[w], g) =
            Runners(ready[w], g) + Waiters(waiting[w], g) + Messages(msgQueue[w], g)
              + OneMessage(m, g)
      BY <1>4, <2>2, <2>4, <2>5, <2>8, SMTT(30)
    <2>10. Messages(inbox'[w], g) = Messages(inbox[w], g) - OneMessage(m, g)
      BY <2>1
    <2> QED BY <1>3, <1>4, <2>4, <2>7, <2>9, <2>10
  <1>6. CASE LoadEndsDoes(w)
    <2>1. Runners(ready'[w], g) = Waiters(waiting[w], g) /\ Waiters(waiting'[w], g) = 0
          /\ Runners(ready[w], g) = 0
      BY <1>0, <1>6, LoadCount
    <2>2. inbox'[w] = inbox[w] /\ msgQueue'[w] = msgQueue[w] /\ outbox'[w] = outbox[w]
          /\ fetching'[w] = fetching[w]
      BY <1>6 DEF LoadEndsDoes, KeepsQueues
    <2> QED BY <1>3, <1>4, <2>1, <2>2
  \* Nothing but the list of turns changes, and it keeps its requests.
  <1>7. ASSUME Runners(ready'[w], g) = Runners(ready[w], g), inbox'[w] = inbox[w],
               waiting'[w] = waiting[w], KeepsQueues(w), fetching'[w] = fetching[w]
        PROVE  Held(w, g)' = Held(w, g)
    BY <1>3, <1>7 DEF KeepsQueues
  <1>8. ASSUME NEW from, "next" \notin from, NEW t, t.at # "next", Runs(w, from, t),
               KeepsQueues(w), fetching'[w] = fetching[w]
        PROVE  Held(w, g)' = Held(w, g)
    <2>1. Runners(ready'[w], g) = Runners(ready[w], g)
      BY <1>0, <1>2, <1>8, RunsCount
    <2> QED BY <1>7, <1>8, <2>1 DEF Runs
  <1>9. CASE StoreModuleDoes(w)
    <2>1. PICK a \in {"thrown", "load failed", Turn(w).then} :
            Runs(w, {"resumed"}, At(Turn(w).job, a))
      BY <1>9 DEF StoreModuleDoes
    <2>2. Turn(w).then \in {"args", "call"}
      BY <1>0, <2>1, HeadTurn DEF Runs
    <2>3. At(Turn(w).job, a).at # "next"
      BY <2>2 DEF At
    <2>4. KeepsQueues(w) /\ fetching'[w] = fetching[w]
      BY <1>9 DEF StoreModuleDoes
    <2> QED BY <1>8, <2>1, <2>3, <2>4
  <1>10. CASE MakeArgsDoes(w)
    <2>1. KeepsQueues(w)
      BY <1>10 DEF MakeArgsDoes
    <2>2. CASE /\ ready[w] # <<>> /\ Turn(w).at = "args"
               /\ Dropped(ready[w], ready'[w]) /\ waiting'[w] = waiting[w]
               /\ inbox'[w] = inbox[w]
               /\ fetching'[w] = fetching[w] \cup {Fetching(Turn(w).job, mod[w])}
      <3> DEFINE f == Fetching(Turn(w).job, mod[w])
      <3>1. f \notin fetching[w] /\ f.job = Turn(w).job
        <4>1. Turn(w).job.trace \in Generations
          BY <1>0, <2>2, HeadTurn
        <4> QED BY <1>0, <2>2, <4>1, FetchIsNew DEF Fetching
      <3>2. fetching'[w] = fetching[w] \cup {f}
        BY <2>2
      <3> HIDE DEF f
      <3>3. Fetchers(fetching'[w], g) = Fetchers(fetching[w], g) + OneMessage(Turn(w).job, g)
        BY <1>2, <3>1, <3>2, FetchersCount
      <3>4. Runners(ready'[w], g) = Runners(ready[w], g) - HeadRunner(ready[w], g)
        BY <1>2, <2>2, RunnersCount
      <3>5. HeadRunner(ready[w], g) = OneMessage(Turn(w).job, g)
        BY <2>2 DEF HeadRunner, OneRunner, OneMessage, Turn
      <3> QED BY <1>3, <1>4, <2>1, <2>2, <3>3, <3>4, <3>5, SMTT(30) DEF KeepsQueues
    <2>3. CASE /\ \E a \in {"exec", "no module", "args made"} :
                    Runs(w, {"args"}, At(Turn(w).job, a))
               /\ fetching'[w] = fetching[w]
      <3>1. PICK a \in {"exec", "no module", "args made"} :
              Runs(w, {"args"}, At(Turn(w).job, a))
        BY <2>3
      <3>2. At(Turn(w).job, a).at # "next"
        BY DEF At
      <3> QED BY <1>8, <2>1, <2>3, <3>1, <3>2
    <2> QED BY <1>10, <2>2, <2>3 DEF MakeArgsDoes
  <1>11. CASE FetchEndsDoes(w)
    <2>1. PICK f \in fetching[w] : \E a \in {"args made", "thrown"} :
            /\ fetching'[w] = fetching[w] \ {f}
            /\ Moved(ready[w], ready'[w], At(f.job, a))
      BY <1>11 DEF FetchEndsDoes
    <2>2. \E a \in {"args made", "thrown"} : Moved(ready[w], ready'[w], At(f.job, a))
      BY <2>1
    <2>3. fetching'[w] = fetching[w] \ {f} /\ ready[w] = <<>>
      BY <1>11, <2>1 DEF FetchEndsDoes
    <2>4. Runners(ready'[w], g) + Fetchers(fetching'[w], g) = Fetchers(fetching[w], g)
          /\ Runners(ready[w], g) = 0
      <3>1. PICK a \in {"args made", "thrown"} : Moved(ready[w], ready'[w], At(f.job, a))
        BY <2>2
      <3> DEFINE t == At(f.job, a)
      <3>2. t.job = f.job /\ t.at # "next" /\ Moved(ready[w], ready'[w], t)
        BY <3>1 DEF At
      <3> HIDE DEF t
      <3>3. t \in Turns(w)
        BY <1>2, <3>2, MovedIn
      <3>4. /\ Runners(ready'[w], g) + Fetchers(fetching[w] \ {f}, g) = Fetchers(fetching[w], g)
            /\ Runners(ready[w], g) = 0
        BY <1>2, <2>3, <3>2, <3>3, FetchCount, Zenon
      <3> QED BY <2>3, <3>4, Zenon
    <2>5. inbox'[w] = inbox[w] /\ waiting'[w] = waiting[w]
          /\ msgQueue'[w] = msgQueue[w] /\ outbox'[w] = outbox[w]
      BY <1>11 DEF FetchEndsDoes, KeepsQueues
    <2>6. /\ Messages(inbox'[w], g) = Messages(inbox[w], g)
          /\ Waiters(waiting'[w], g) = Waiters(waiting[w], g)
          /\ Messages(msgQueue'[w], g) = Messages(msgQueue[w], g)
          /\ Messages(outbox'[w], g) = Messages(outbox[w], g)
      BY <2>5
    <2> QED BY <1>3, <1>4, <2>4, <2>6
  <1>12. CASE ArgsMadeDoes(w)
    <2>1. PICK a \in {"thrown", "exec"} :
            Runs(w, {"args made", "no module"}, At(Turn(w).job, a))
      BY <1>12 DEF ArgsMadeDoes
    <2>2. At(Turn(w).job, a).at # "next"
      BY DEF At
    <2>3. KeepsQueues(w) /\ fetching'[w] = fetching[w]
      BY <1>12 DEF ArgsMadeDoes, KeepsRest
    <2> QED BY <1>8, <2>1, <2>2, <2>3
  <1>13. CASE RepostDoes(w)
    <2>1. Runs(w, {"exec"}, At(Turn(w).job, "next")) /\ At(Turn(w).job, "next").at = "next"
          /\ Turn(w).job \in Jobs(w)
      BY <1>0, <1>13, HeadTurn DEF RepostDoes, At, Runs
    <2>2. Runners(ready'[w], g) = Runners(ready[w], g) - OneMessage(Turn(w).job, g)
      <3> DEFINE t == At(Turn(w).job, "next")
                 from == {"exec"}
      <3>1. Runs(w, from, t) /\ t.at = "next" /\ "next" \notin from
        BY <2>1
      <3> HIDE DEF t, from
      <3> QED BY <1>0, <1>2, <3>1, RunsCount
    <2>3. Messages(msgQueue'[w], g) = Messages(msgQueue[w], g) + OneMessage(Turn(w).job, g)
      BY <1>2, <1>13, <2>1, MessagesCount DEF RepostDoes
    <2>4. inbox'[w] = inbox[w] /\ waiting'[w] = waiting[w] /\ outbox'[w] = outbox[w]
          /\ fetching'[w] = fetching[w] /\ OneMessage(Turn(w).job, g) \in {0, 1}
      BY <1>13, <2>1 DEF RepostDoes, Runs, KeepsRest, OneMessage
    <2> QED BY <1>3, <1>4, <2>2, <2>3, <2>4
  <1>14. CASE ExecDoes(w)
    <2>1. Turn(w).job \in Jobs(w) /\ Waits(w, Turn(w).job, "call")
      BY <1>0, <1>14, HeadTurn DEF ExecDoes
    <2>2. Runners(ready'[w], g) + Waiters(waiting'[w], g) =
            Runners(ready[w], g) - HeadRunner(ready[w], g) + Waiters(waiting[w], g)
              + OneMessage(Turn(w).job, g)
      BY <1>0, <2>1, WaitsCount
    <2>3. HeadRunner(ready[w], g) = OneMessage(Turn(w).job, g)
      BY <1>14 DEF ExecDoes, HeadRunner, OneRunner, OneMessage, Turn
    <2>4. inbox'[w] = inbox[w] /\ msgQueue'[w] = msgQueue[w] /\ outbox'[w] = outbox[w]
          /\ fetching'[w] = fetching[w] /\ OneMessage(Turn(w).job, g) \in {0, 1}
      BY <1>14 DEF ExecDoes, KeepsQueues, OneMessage
    <2> QED BY <1>3, <1>4, <2>2, <2>3, <2>4
  <1>15. CASE ThrowsDoes(w)
    <2>1. PICK from \in {{"call"}, {"throws"}, {"load failed"}}, a \in {"throws", "thrown"} :
            Runs(w, from, At(Turn(w).job, a))
      BY <1>15 DEF ThrowsDoes
    <2>2. At(Turn(w).job, a).at # "next" /\ "next" \notin from
      BY DEF At
    <2>3. KeepsQueues(w) /\ fetching'[w] = fetching[w]
      BY <1>15 DEF ThrowsDoes, KeepsRest
    <2> QED BY <1>8, <2>1, <2>2, <2>3
  <1>16. CASE CallMainDoes(w) \/ TrapDoes(w)
    <2>1. PICK r : Runs(w, {"call"}, Returned(Turn(w).job, r))
      BY <1>16 DEF CallMainDoes, Compiles, TrapDoes
    <2>2. Returned(Turn(w).job, r).at # "next"
      BY DEF Returned
    <2>3. KeepsQueues(w) /\ fetching'[w] = fetching[w]
      BY <1>16 DEF CallMainDoes, TrapDoes, KeepsRest
    <2> QED BY <1>8, <2>1, <2>2, <2>3
  <1>17. CASE PostResultDoes(w)
    <2>1. Runs(w, {"returned"}, At(Turn(w).job, "next")) /\ At(Turn(w).job, "next").at = "next"
      BY <1>17 DEF PostResultDoes, At
    <2>2. Runners(ready'[w], g) = Runners(ready[w], g) - OneMessage(Turn(w).job, g)
      BY <1>0, <1>2, <2>1, RunsCount
    <2>3. Turn(w).result \in Results(w) /\ Turn(w).result.trace = Turn(w).job.trace
      <3>1. Turn(w) \in Turns(w) /\ Turn(w).at = "returned"
        BY <1>0, <2>1, HeadTurn DEF Runs
      <3> QED BY <3>1, TurnIs
    <2>4. Messages(outbox'[w], g) = Messages(outbox[w], g) + OneMessage(Turn(w).result, g)
      BY <1>2, <1>17, <2>3, MessagesCount DEF PostResultDoes
    <2>5. OneMessage(Turn(w).result, g) = OneMessage(Turn(w).job, g)
          /\ OneMessage(Turn(w).job, g) \in {0, 1}
      BY <2>3 DEF OneMessage
    <2>6. inbox'[w] = inbox[w] /\ waiting'[w] = waiting[w] /\ msgQueue'[w] = msgQueue[w]
          /\ fetching'[w] = fetching[w]
      BY <1>17, <2>1 DEF PostResultDoes, Runs
    <2> QED BY <1>3, <1>4, <2>2, <2>4, <2>5, <2>6
  <1>18. CASE GoesOnDoes(w)
    <2>1. /\ ready[w] # <<>> /\ Loops(w, msgQueue[w]) /\ inbox'[w] = inbox[w]
          /\ fetching'[w] = fetching[w]
      BY <1>18 DEF GoesOnDoes, KeepsRest
    <2>2. Runners(ready'[w], g) + Waiters(waiting'[w], g) + Messages(msgQueue'[w], g) =
            Runners(ready[w], g) - HeadRunner(ready[w], g) + Waiters(waiting[w], g)
              + Messages(msgQueue[w], g)
      BY <1>0, <1>2, <2>1, LoopsCount
    <2>5. /\ Messages(inbox'[w], g) = Messages(inbox[w], g)
          /\ Fetchers(fetching'[w], g) = Fetchers(fetching[w], g)
      BY <2>1
    <2>3. CASE Turn(w).at = "thrown" /\ outbox'[w] = Append(outbox[w], Failure(Turn(w).job))
      <3>1. Failure(Turn(w).job) \in Results(w) /\ Failure(Turn(w).job).trace = Turn(w).job.trace
        <4>1. Turn(w).job.trace \in Generations
          BY <1>0, <2>1, HeadTurn
        <4> QED BY <4>1 DEF Failure, JobResult, Results, Texts
      <3>2. Messages(outbox'[w], g) =
              Messages(outbox[w], g) + OneMessage(Failure(Turn(w).job), g)
        BY <1>2, <2>3, <3>1, MessagesCount
      <3>3. HeadRunner(ready[w], g) = OneMessage(Failure(Turn(w).job), g)
        BY <2>1, <2>3, <3>1 DEF HeadRunner, OneRunner, OneMessage, Turn
      <3> QED BY <1>3, <1>4, <2>2, <2>5, <3>2, <3>3
    <2>4. CASE Turn(w).at = "next" /\ outbox'[w] = outbox[w]
      <3>1. HeadRunner(ready[w], g) = 0
        BY <2>1, <2>4 DEF HeadRunner, OneRunner, Turn
      <3>2. Messages(outbox'[w], g) = Messages(outbox[w], g)
        BY <2>4
      <3> QED BY <1>3, <1>4, <2>2, <2>5, <3>1, <3>2
    <2> QED BY <1>18, <2>3, <2>4 DEF GoesOnDoes
  <1> QED BY <1>5, <1>6, <1>9, <1>10, <1>11, <1>12, <1>13, <1>14, <1>15, <1>16, <1>17, <1>18
          DEF WorkDoes

-----------------------------------------------------------------------------
(* The main thread gives and takes requests.                               *)

\* What worker w holds of a generation at stage st.
Due(w, st) ==
    IF (st = "ast" /\ w = "src2json") \/ (st = "code" /\ w = "json2cpp2") THEN 1 ELSE 0

\* A generation that is not begun is at its first stage.
KeptInv ==
    /\ \A g \in Generations, w \in WorkerTypes : Held(w, g) = Due(w, stage[g])
    /\ \A g \in Generations : g > begun => stage[g] = "init"

Within(w) ==
    /\ msgQueue'[w] = msgQueue[w] /\ ready'[w] = ready[w] /\ waiting'[w] = waiting[w]
    /\ fetching'[w] = fetching[w]

LEMMA MainHeld ==
  ASSUME NEW w, WorkerTypesOK(w), Within(w), NEW g
  PROVE  /\ Held(w, g) \in Nat
         /\ inbox'[w] = inbox[w] /\ outbox'[w] = outbox[w] => Held(w, g)' = Held(w, g)
         /\ \A job \in Jobs(w) :
              inbox'[w] = Append(inbox[w], job) /\ outbox'[w] = outbox[w] =>
                Held(w, g)' = Held(w, g) + OneMessage(job, g)
         /\ outbox[w] # <<>> /\ outbox'[w] = Tail(outbox[w]) /\ inbox'[w] = inbox[w] =>
              Held(w, g)' = Held(w, g) - OneMessage(Head(outbox[w]), g)
         /\ outbox[w] # <<>> /\ Head(outbox[w]).trace = g => Held(w, g) >= 1
  <1>1. CountsTyped(w, g)
    BY CountsNat
  <1> DEFINE In == Messages(inbox[w], g)
             Out == Messages(outbox[w], g)
             Inner == Messages(msgQueue[w], g) + Waiters(waiting[w], g)
                        + Runners(ready[w], g) + Fetchers(fetching[w], g)
  <1>2. /\ In \in Nat /\ Out \in Nat /\ Inner \in Nat
        /\ Held(w, g) = In + Out + Inner
    BY <1>1, HeldIs DEF CountsTyped, Total
  <1>3. Held(w, g)' = Messages(inbox'[w], g) + Messages(msgQueue[w], g)
                        + Messages(outbox'[w], g) + Waiters(waiting[w], g)
                        + Runners(ready[w], g) + Fetchers(fetching[w], g)
    BY HeldIs DEF Total, Within
  <1>4. /\ inbox[w] \in Seq(Jobs(w)) /\ outbox[w] \in Seq(Results(w))
    BY DEF WorkerTypesOK
  <1>5. ASSUME Messages(inbox'[w], g) \in Nat, Messages(outbox'[w], g) \in Nat
        PROVE  Held(w, g)' = Messages(inbox'[w], g) + Messages(outbox'[w], g) + Inner
    BY <1>1, <1>3, <1>5 DEF CountsTyped
  <1> HIDE DEF Inner
  <1>6. ASSUME inbox'[w] = inbox[w], outbox'[w] = outbox[w] PROVE Held(w, g)' = Held(w, g)
    <2>1. Messages(inbox'[w], g) = In /\ Messages(outbox'[w], g) = Out
      BY <1>6
    <2> QED BY <1>2, <1>5, <2>1
  <1>7. ASSUME NEW job \in Jobs(w), inbox'[w] = Append(inbox[w], job), outbox'[w] = outbox[w]
        PROVE  Held(w, g)' = Held(w, g) + OneMessage(job, g)
    <2>1. Messages(inbox'[w], g) = In + OneMessage(job, g)
      BY <1>4, <1>7, MessagesCount
    <2>2. Messages(outbox'[w], g) = Out /\ OneMessage(job, g) \in Nat
      BY <1>7 DEF OneMessage
    <2> QED BY <1>2, <1>5, <2>1, <2>2
  <1>8. ASSUME outbox[w] # <<>>, outbox'[w] = Tail(outbox[w]), inbox'[w] = inbox[w]
        PROVE  Held(w, g)' = Held(w, g) - OneMessage(Head(outbox[w]), g)
    <2>1. Messages(outbox'[w], g) = Out - OneMessage(Head(outbox[w]), g)
      BY <1>4, <1>8, MessagesCount
    <2>2. Messages(inbox'[w], g) = In /\ OneMessage(Head(outbox[w]), g) \in Nat
      BY <1>8 DEF OneMessage
    <2>3. Messages(outbox'[w], g) \in Nat
      <3>1. outbox'[w] \in Seq(Results(w))
        BY <1>4, <1>8, HeadTailProperties
      <3> QED BY <3>1, MessagesCount
    <2> QED BY <1>2, <1>5, <2>1, <2>2, <2>3
  <1>9. ASSUME outbox[w] # <<>>, Head(outbox[w]).trace = g PROVE Held(w, g) >= 1
    <2>1. 1 \in DOMAIN outbox[w] /\ outbox[w][1] = Head(outbox[w])
      BY <1>4, <1>9, LenProperties, EmptySeq
    <2>2. Out >= 1
      BY <1>4, <1>9, <2>1, MessagesCount
    <2> QED BY <1>2, <2>2
  <1> QED BY <1>2, <1>6, <1>7, <1>8, <1>9

LEMMA StaysHeld ==
  ASSUME NEW w, Stays(w), NEW g
  PROVE  Held(w, g)' = Held(w, g)
  BY HeldIs DEF Stays

\* One generation goes from stage to stage.
LEMMA StageMoves ==
  ASSUME MainTypesOK, KeptInv, NEW h \in Generations, begun' \in Nat, begun <= begun',
         h <= begun',
         \A g \in Generations \ {h} : stage'[g] = stage[g],
         \A g \in Generations \ {h}, w \in WorkerTypes : Held(w, g)' = Held(w, g),
         \A w \in WorkerTypes : Held(w, h)' = Due(w, stage'[h])
  PROVE  KeptInv'
  <1>1. begun \in Nat /\ Generations \subseteq Nat
    BY GenerationsAreNumbers DEF MainTypesOK
  <1>2. \A g \in Generations \ {h} : stage'[g] = stage[g]
    OBVIOUS
  <1>3. ASSUME NEW g \in Generations, NEW w \in WorkerTypes
        PROVE  Held(w, g)' = Due(w, stage'[g])
    BY <1>2 DEF KeptInv
  <1>4. ASSUME NEW g \in Generations, g > begun' PROVE stage'[g] = "init"
    <2>1. g # h /\ g > begun
      BY <1>1, <1>4
    <2> QED BY <1>2, <2>1 DEF KeptInv
  <1>5. \A w, g : Due(w, stage[g])' = Due(w, stage'[g])
    BY DEF Due
  <1> QED BY <1>3, <1>4, <1>5 DEF KeptInv

LEMMA KeptBegun ==
  ASSUME Inv, KeptInv, UpdateGenerated
  PROVE  KeptInv'
  <1>a. begun + 1 \in Generations
    BY BegunIs DEF UpdateGenerated
  <1>b. PICK g \in Generations : g = begun + 1
    BY <1>a
  <1> DEFINE form == IF asked[g].lang = "tokens" /\ asked[g].source # "malformed"
                     THEN "tokens" ELSE asked[g].source
  <1>0. MainTypesOK /\ DomainsOK /\ \A w \in WorkerTypes : WorkerTypesOK(w)
    BY DEF Inv, WorkersOK, WorkerOK
  <1>1. /\ begun < Len(asked) /\ begun' = g /\ begun \in Nat
        /\ UNCHANGED <<msgQueue, outbox, turnVars>>
    BY <1>0, <1>b DEF UpdateGenerated, MainTypesOK
  <1>2. /\ g \in Generations /\ g \in Nat /\ g > begun /\ begun <= begun'
        /\ asked[g].source # "empty" => form \in Forms("src2json")
    BY <1>1, <1>b, BegunIs
  <1>3. \A w \in WorkerTypes : Within(w) /\ outbox'[w] = outbox[w]
    BY <1>1 DEF Within, turnVars
  <1>4. \A w \in WorkerTypes : Held(w, g) = 0
    BY <1>2 DEF KeptInv, Due
  <1>5. CASE asked[g].source = "empty"
    <2>1. OnResult(g, Default) /\ UNCHANGED <<inbox, promise>>
      BY <1>b, <1>5 DEF UpdateGenerated
    <2>2. stage' = [stage EXCEPT ![g] = "done"]
      BY <2>1 DEF OnResult
    <2>3. \A w \in WorkerTypes, h \in Generations : Held(w, h)' = Held(w, h)
      BY <1>0, <1>3, <2>1, MainHeld
    <2>4. \A w \in WorkerTypes : Held(w, g)' = Due(w, "done")
      BY <1>2, <1>4, <2>3 DEF Due
    <2>s. stage'[g] = "done" /\ \A h \in Generations \ {g} : stage'[h] = stage[h]
      BY <1>0, <2>2 DEF MainTypesOK
    <2>t. \A w \in WorkerTypes : Held(w, g)' = Due(w, stage'[g])
      BY <2>4, <2>s
    <2> QED BY <1>0, <1>1, <1>2, <2>3, <2>s, <2>t, StageMoves
  <1>6. CASE asked[g].source # "empty"
    <2> DEFINE job == JobRequest(g, g, form)
    <2>1. stage' = [stage EXCEPT ![g] = "ast"] /\ DoRequest("src2json", job)
      BY <1>b, <1>6 DEF UpdateGenerated
    <2>2. job \in Jobs("src2json")
      BY <1>2, <1>6, AskedIsJob
    <2>3. job.trace = g
      BY DEF JobRequest
    <2> HIDE DEF job, form
    <2>4. inbox'["src2json"] = Append(inbox["src2json"], job)
          /\ inbox'["json2cpp2"] = inbox["json2cpp2"]
      BY <1>0, <2>1 DEF DoRequest, DomainsOK, WorkerTypes
    <2>5. \A h \in Generations : Held("json2cpp2", h)' = Held("json2cpp2", h)
      BY <1>0, <1>3, <2>4, MainHeld DEF WorkerTypes
    <2>6. \A h \in Generations :
            Held("src2json", h)' = Held("src2json", h) + OneMessage(job, h)
      BY <1>0, <1>3, <2>2, <2>4, MainHeld DEF WorkerTypes
    <2>7. \A h \in Generations : Held("src2json", h) \in Nat
      BY <1>0, <1>3, MainHeld DEF WorkerTypes
    <2>8. \A h \in Generations \ {g}, w \in WorkerTypes : Held(w, h)' = Held(w, h)
      BY <2>3, <2>5, <2>6, <2>7 DEF WorkerTypes, OneMessage
    <2>9. \A w \in WorkerTypes : Held(w, g)' = Due(w, "ast")
      BY <1>2, <1>4, <2>3, <2>5, <2>6 DEF WorkerTypes, OneMessage, Due
    <2>s. stage'[g] = "ast" /\ \A h \in Generations \ {g} : stage'[h] = stage[h]
      BY <1>0, <2>1 DEF MainTypesOK
    <2>t. \A w \in WorkerTypes : Held(w, g)' = Due(w, stage'[g])
      BY <2>9, <2>s
    <2> QED BY <1>0, <1>1, <1>2, <2>8, <2>s, <2>t, StageMoves
  <1> QED BY <1>5, <1>6

\* A result that arrives is that of a generation that waits for this worker.
LEMMA TakenIs ==
  ASSUME Inv, KeptInv, NEW w \in WorkerTypes, outbox[w] # <<>>, Within(w)
  PROVE  LET r == Head(outbox[w]) IN
         /\ r \in Results(w) /\ r.trace \in Generations
         /\ Held(w, r.trace) = 1 /\ Due(w, stage[r.trace]) = 1
         /\ \A v \in WorkerTypes \ {w} : Held(v, r.trace) = 0
         /\ r.trace <= begun
  <1> DEFINE r == Head(outbox[w])
  <1>1. outbox[w] \in Seq(Results(w)) /\ WorkerTypesOK(w)
    BY DEF Inv, WorkersOK, WorkerOK, WorkerTypesOK
  <1>2. r \in Results(w) /\ r.trace \in Generations
    <2>1. r \in Results(w)
      BY <1>1, HeadTailProperties
    <2> QED BY <2>1 DEF Results
  <1>3. Held(w, r.trace) >= 1
    BY <1>1, MainHeld
  <1> HIDE DEF r
  <1>4. /\ Held(w, r.trace) = Due(w, stage[r.trace])
        /\ \A v \in WorkerTypes : Held(v, r.trace) = Due(v, stage[r.trace])
    BY <1>2 DEF KeptInv
  <1>5. Due(w, stage[r.trace]) = 1
    BY <1>3, <1>4 DEF Due
  <1>6. \A v \in WorkerTypes \ {w} : Due(v, stage[r.trace]) = 0
    BY <1>5 DEF Due, WorkerTypes
  <1>7. stage[r.trace] # "init"
    BY <1>5 DEF Due
  <1>8. r.trace \in Nat /\ begun \in Nat
    BY <1>2, GenerationsAreNumbers DEF Inv, MainTypesOK
  <1>9. r.trace <= begun
    BY <1>2, <1>7, <1>8 DEF KeptInv
  <1> QED BY <1>2, <1>4, <1>5, <1>6, <1>9 DEF r

\* The result is taken from w and ends the generation.
LEMMA KeptResult ==
  ASSUME Inv, KeptInv, NEW w \in WorkerTypes, outbox[w] # <<>>,
         outbox' = [outbox EXCEPT ![w] = Tail(@)], NEW value,
         OnResult(Head(outbox[w]).trace, value),
         UNCHANGED <<begun, inbox, msgQueue, turnVars>>
  PROVE  KeptInv'
  <1> DEFINE r == Head(outbox[w])
  <1>0. MainTypesOK /\ DomainsOK /\ \A v \in WorkerTypes : WorkerTypesOK(v)
    BY DEF Inv, WorkersOK, WorkerOK
  <1>1. \A v \in WorkerTypes : Within(v) /\ inbox'[v] = inbox[v]
    BY DEF Within, turnVars
  <1>2. /\ outbox'[w] = Tail(outbox[w])
        /\ \A v \in WorkerTypes \ {w} : outbox'[v] = outbox[v]
    BY <1>0 DEF DomainsOK
  <1>a. /\ r.trace \in Generations /\ Held(w, r.trace) = 1 /\ r.trace <= begun
        /\ \A v \in WorkerTypes \ {w} : Held(v, r.trace) = 0
    BY <1>1, TakenIs
  <1>b. PICK g \in Generations : g = r.trace
    BY <1>a
  <1>3. /\ g \in Generations /\ Held(w, g) = 1 /\ g <= begun
        /\ \A v \in WorkerTypes \ {w} : Held(v, g) = 0
    BY <1>a, <1>b
  <1>4. \A v \in WorkerTypes \ {w}, h \in Generations : Held(v, h)' = Held(v, h)
    BY <1>0, <1>1, <1>2, MainHeld
  <1>5. \A h \in Generations : /\ Held(w, h)' = Held(w, h) - OneMessage(r, h)
                               /\ Held(w, h) \in Nat
    BY <1>0, <1>1, <1>2, MainHeld
  <1>6. stage' = [stage EXCEPT ![g] = "done"]
    BY <1>b DEF OnResult
  <1> HIDE DEF r
  <1>7. \A h \in Generations \ {g}, v \in WorkerTypes : Held(v, h)' = Held(v, h)
    BY <1>b, <1>4, <1>5 DEF OneMessage
  <1>8. \A v \in WorkerTypes : Held(v, g)' = Due(v, "done")
    BY <1>b, <1>3, <1>4, <1>5 DEF OneMessage, Due
  <1>9. begun' = begun /\ begun \in Nat
    BY <1>0 DEF MainTypesOK
  <1>s. stage'[g] = "done" /\ \A h \in Generations \ {g} : stage'[h] = stage[h]
    BY <1>0, <1>6 DEF MainTypesOK
  <1>t. \A v \in WorkerTypes : Held(v, g)' = Due(v, stage'[g])
    BY <1>8, <1>s
  <1> QED BY <1>0, <1>3, <1>7, <1>9, <1>s, <1>t, StageMoves

LEMMA KeptAST ==
  ASSUME Inv, KeptInv, OnAST
  PROVE  KeptInv'
  <1> DEFINE r == Head(outbox["src2json"])
             goesOn == Newest(r.trace) /\ r.usable /\ asked[r.trace].lang = "cpp"
  <1>0. /\ MainTypesOK /\ DomainsOK /\ \A w \in WorkerTypes : WorkerTypesOK(w)
        /\ WorkerTypes = {"src2json", "json2cpp2"}
    BY DEF Inv, WorkersOK, WorkerOK, WorkerTypes
  <1>1. /\ outbox["src2json"] # <<>> /\ outbox' = [outbox EXCEPT !["src2json"] = Tail(@)]
        /\ UNCHANGED <<begun, msgQueue, turnVars>>
    BY DEF OnAST
  <1>2. CASE ~goesOn
    <2>1. OnResult(r.trace, Outcome(r)) /\ UNCHANGED inbox
      BY <1>2 DEF OnAST
    <2> QED BY <1>0, <1>1, <2>1, KeptResult
  <1>3. CASE goesOn
    <2>a. \A v \in WorkerTypes : Within(v)
      BY <1>1 DEF Within, turnVars
    <2>b. /\ r \in Results("src2json") /\ r.trace \in Generations
          /\ Held("src2json", r.trace) = 1 /\ Held("json2cpp2", r.trace) = 0
          /\ r.trace <= begun
      BY <1>0, <1>1, <2>a, TakenIs
    <2>c. PICK g \in Generations : g = r.trace
      BY <2>b
    <2> DEFINE job == JobRequest(g, r.of, "json")
    <2>1. stage' = [stage EXCEPT ![g] = "code"] /\ DoRequest("json2cpp2", job)
      BY <1>3, <2>c DEF OnAST
    <2>2. \A v \in WorkerTypes : Within(v)
      BY <2>a
    <2>3. /\ r \in Results("src2json") /\ g \in Generations /\ Held("src2json", g) = 1
          /\ Held("json2cpp2", g) = 0 /\ g <= begun
      BY <2>b, <2>c
    <2>4. job \in Jobs("json2cpp2") /\ job.trace = g
      BY <1>3, <2>3, <2>c, AnswerIsJob DEF JobRequest
    <2>5. /\ outbox'["src2json"] = Tail(outbox["src2json"])
          /\ outbox'["json2cpp2"] = outbox["json2cpp2"]
      BY <1>0, <1>1 DEF DomainsOK
    <2> HIDE DEF job
    <2>6. /\ inbox'["json2cpp2"] = Append(inbox["json2cpp2"], job)
          /\ inbox'["src2json"] = inbox["src2json"]
      BY <1>0, <2>1 DEF DoRequest, DomainsOK
    <2>7. \A h \in Generations :
            /\ Held("src2json", h)' = Held("src2json", h) - OneMessage(r, h)
            /\ Held("src2json", h) \in Nat
      BY <1>0, <1>1, <2>2, <2>5, <2>6, MainHeld
    <2>8. \A h \in Generations :
            /\ Held("json2cpp2", h)' = Held("json2cpp2", h) + OneMessage(job, h)
            /\ Held("json2cpp2", h) \in Nat
      BY <1>0, <2>2, <2>4, <2>5, <2>6, MainHeld
    <2> HIDE DEF r
    <2>9. \A h \in Generations \ {g}, w \in WorkerTypes : Held(w, h)' = Held(w, h)
      BY <1>0, <2>c, <2>4, <2>7, <2>8 DEF OneMessage
    <2>10. \A w \in WorkerTypes : Held(w, g)' = Due(w, "code")
      BY <1>0, <2>c, <2>3, <2>4, <2>7, <2>8 DEF OneMessage, Due
    <2>11. begun' = begun /\ begun \in Nat
      BY <1>0, <1>1 DEF MainTypesOK
    <2>s. stage'[g] = "code" /\ \A h \in Generations \ {g} : stage'[h] = stage[h]
      BY <1>0, <2>1 DEF MainTypesOK
    <2>t. \A w \in WorkerTypes : Held(w, g)' = Due(w, stage'[g])
      BY <2>10, <2>s
    <2> QED BY <1>0, <2>3, <2>9, <2>11, <2>s, <2>t, StageMoves
  <1> QED BY <1>2, <1>3

LEMMA KeptNext ==
  ASSUME Inv, KeptInv, [Next]_vars
  PROVE  KeptInv'
  <1>0. MainTypesOK /\ DomainsOK /\ \A w \in WorkerTypes : WorkerOK(w)
    BY DEF Inv, WorkersOK
  \* The counts and the stages stay.
  <1>1. ASSUME \A w \in WorkerTypes, g \in Generations : Held(w, g)' = Held(w, g),
               UNCHANGED <<begun, stage>>
        PROVE  KeptInv'
    <2>1. \A w, g : Due(w, stage[g])' = Due(w, stage[g])
      BY <1>1 DEF Due
    <2> QED BY <1>1, <2>1 DEF KeptInv
  <1>2. ASSUME UNCHANGED <<begun, stage, workVars>> PROVE KeptInv'
    <2>1. \A w \in WorkerTypes : Stays(w)
      BY <1>2 DEF Stays, workVars, queueVars, turnVars, moduleVars
    <2> QED BY <1>1, <1>2, <2>1, StaysHeld
  <1>3. ASSUME NEW r \in Requests, Generate(r) PROVE KeptInv'
    BY <1>2, <1>3 DEF Generate
  <1>4. CASE InitEnds
    BY <1>2, <1>4 DEF InitEnds
  <1>5. CASE UpdateGenerated
    BY <1>5, KeptBegun
  <1>6. CASE OnAST
    BY <1>6, KeptAST
  <1>7. CASE OnCode
    <2>1. /\ outbox["json2cpp2"] # <<>> /\ outbox' = [outbox EXCEPT !["json2cpp2"] = Tail(@)]
          /\ OnResult(Head(outbox["json2cpp2"]).trace, Outcome(Head(outbox["json2cpp2"])))
          /\ UNCHANGED <<begun, inbox, msgQueue, turnVars>>
      BY <1>7 DEF OnCode
    <2> QED BY <2>1, KeptResult DEF WorkerTypes
  <1>8. ASSUME NEW w \in WorkerTypes, Work(w), UNCHANGED mainVars PROVE KeptInv'
    <2>1. OthersStay(w) /\ WorkDoes(w)
      BY <1>0, <1>8, OneWorker
    <2>2. \A g \in Generations : Held(w, g) <= 1
      BY DEF KeptInv, Due
    <2>3. \A g \in Generations : Held(w, g)' = Held(w, g)
      BY <1>0, <2>1, <2>2, WorkHeld
    <2>4. \A v \in WorkerTypes \ {w}, g \in Generations : Held(v, g)' = Held(v, g)
      BY <2>1, StaysHeld DEF OthersStay
    <2> QED BY <1>1, <1>8, <2>3, <2>4 DEF mainVars
  <1>9. CASE UNCHANGED vars
    BY <1>2, <1>9 DEF vars, mainVars
  <1> QED BY <1>3, <1>4, <1>5, <1>6, <1>7, <1>8, <1>9 DEF Next, Main

LEMMA KeptInit ==
  ASSUME Init
  PROVE  KeptInv
  <1>1. ASSUME NEW w \in WorkerTypes, NEW g \in Generations PROVE Held(w, g) = 0
    <2>1. /\ inbox[w] = <<>> /\ msgQueue[w] = <<>> /\ ready[w] = <<>> /\ waiting[w] = <<>>
          /\ fetching[w] = {} /\ outbox[w] = <<>>
      BY DEF Init, WorkInit
    <2>2. /\ inbox[w] \in Seq(Jobs(w)) /\ msgQueue[w] \in Seq(Jobs(w))
          /\ outbox[w] \in Seq(Results(w)) /\ waiting[w] \in Seq(Awaits(w))
          /\ ready[w] \in Seq(Turns(w))
      BY InvInit DEF Inv, WorkersOK, WorkerOK, WorkerTypesOK
    <2>3. /\ Messages(inbox[w], g) = 0 /\ Messages(msgQueue[w], g) = 0
          /\ Messages(outbox[w], g) = 0 /\ Waiters(waiting[w], g) = 0
          /\ Runners(ready[w], g) = 0
      <3>0. ASSUME NEW T \in {Jobs(w), Results(w)}, NEW s \in Seq(T), s = <<>>
            PROVE  Messages(s, g) = 0
        <4>1. {i \in DOMAIN s : s[i].trace = g} = {}
          BY <3>0
        <4> QED BY <4>1, FS_EmptySet DEF Messages
      <3>1. Messages(inbox[w], g) = 0
        BY <2>1, <2>2, <3>0
      <3>2. Messages(msgQueue[w], g) = 0
        BY <2>1, <2>2, <3>0
      <3>3. Messages(outbox[w], g) = 0
        BY <2>1, <2>2, <3>0
      <3>4. Waiters(waiting[w], g) = 0
        BY <2>1, <2>2, WaitersCount
      <3>5. Runners(ready[w], g) = 0
        BY <2>1, <2>2, RunnersCount
      <3> QED BY <3>1, <3>2, <3>3, <3>4, <3>5
    <2>4. Fetchers(fetching[w], g) = 0
      <3>1. {f \in fetching[w] : f.job.trace = g} = {}
        BY <2>1
      <3> QED BY <3>1, FS_EmptySet DEF Fetchers
    <2> QED BY <2>3, <2>4, HeldIs DEF Total
  <1>2. \A g \in Generations : stage[g] = "init"
    BY DEF Init
  <1> QED BY <1>1, <1>2 DEF KeptInv, Due

LEMMA KeptAlways == Spec => [](Inv /\ KeptInv)
  <1>1. Init => Inv /\ KeptInv
    BY InvInit, KeptInit
  <1>2. Inv /\ KeptInv /\ [Next]_vars => (Inv /\ KeptInv)'
    BY InvNext, KeptNext
  <1> QED BY <1>1, <1>2, PTL DEF Spec

\* However often a request is put back into the queue, whatever traps or fails to
\* load: the worker a generation waits for holds its request or its result once,
\* and the other worker nothing (em_work_ctx.ts, request_queue.ts).
THEOREM RequestsKept == Spec => []RequestKept
  <1>1. KeptInv => RequestKept
    BY DEF KeptInv, RequestKept, Due
  <1> QED BY <1>1, KeptAlways, PTL

-----------------------------------------------------------------------------
(* Who stands behind whom.                                                 *)

\* Some element of the list is in S; those in S are all in M; behind one in M
\* those in S are all in M.
In(s, S) == \E i \in DOMAIN s : s[i] \in S
Only(s, S, M) == \A i \in DOMAIN s : s[i] \in S => s[i] \in M
LastIn(s, S, M) == \A i, j \in DOMAIN s : i < j /\ s[i] \in M /\ s[j] \in S => s[j] \in M

LEMMA LineAppend ==
  ASSUME NEW T, NEW s \in Seq(T), NEW x \in T, NEW S, NEW M
  PROVE  /\ In(Append(s, x), S) => In(s, S) \/ x \in S
         /\ Only(s, S, M) /\ (x \in S => x \in M) => Only(Append(s, x), S, M)
         /\ LastIn(s, S, M) /\ (In(s, M) /\ x \in S => x \in M) => LastIn(Append(s, x), S, M)
  <1> DEFINE r == Append(s, x)
             n == Len(s) + 1
  <1>1. /\ Len(s) \in Nat /\ DOMAIN s = 1..Len(s) /\ DOMAIN r = 1..n /\ r[n] = x
        /\ \A i \in 1..Len(s) : r[i] = s[i]
    BY AppendProperties, LenProperties
  <1> HIDE DEF r
  <1>2. \A i \in DOMAIN r : i = n \/ (i \in DOMAIN s /\ r[i] = s[i])
    BY <1>1
  <1>3. \A i, j \in DOMAIN r : i < j => i \in DOMAIN s /\ r[i] = s[i]
    BY <1>1
  <1>4. r[n] = x
    BY <1>1
  <1> HIDE DEF n
  <1>5. In(r, S) => In(s, S) \/ x \in S
    BY <1>2, <1>4 DEF In
  <1>6. Only(s, S, M) /\ (x \in S => x \in M) => Only(r, S, M)
    BY <1>2, <1>4 DEF Only
  <1>7. ASSUME LastIn(s, S, M), In(s, M) /\ x \in S => x \in M PROVE LastIn(r, S, M)
    <2>1. SUFFICES ASSUME NEW i \in DOMAIN r, NEW j \in DOMAIN r, i < j, r[i] \in M, r[j] \in S
                   PROVE  r[j] \in M
      BY DEF LastIn
    <2>2. i \in DOMAIN s /\ r[i] = s[i]
      BY <1>3, <2>1
    <2>3. CASE j = n
      BY <1>4, <1>7, <2>1, <2>2, <2>3 DEF In
    <2>4. CASE j \in DOMAIN s /\ r[j] = s[j]
      BY <1>7, <2>1, <2>2, <2>4 DEF LastIn
    <2> QED BY <1>2, <2>3, <2>4
  <1> QED BY <1>5, <1>6, <1>7 DEF r

LEMMA LineRest ==
  ASSUME NEW T, NEW s \in Seq(T), NEW S, NEW M
  PROVE  /\ In(Rest(s), S) => In(s, S)
         /\ Only(s, S, M) => Only(Rest(s), S, M)
         /\ LastIn(s, S, M) => LastIn(Rest(s), S, M)
         /\ s # <<>> /\ Head(s) \in M /\ LastIn(s, S, M) => Only(Rest(s), S, M)
         /\ s # <<>> /\ Head(s) \in S => In(s, S)
         /\ s # <<>> /\ Head(s) \in S /\ Only(s, S, M) => Head(s) \in M
  <1> DEFINE r == Rest(s)
  <1>1. /\ \A j \in DOMAIN r : j \in Nat /\ 1 < j + 1 /\ j + 1 \in DOMAIN s /\ r[j] = s[j + 1]
        /\ s # <<>> => Head(s) = s[1] /\ 1 \in DOMAIN s
    BY RestAt
  <1> HIDE DEF r
  <1>2. In(r, S) => In(s, S)
    BY <1>1 DEF In
  <1>3. Only(s, S, M) => Only(r, S, M)
    BY <1>1 DEF Only
  <1>4. ASSUME LastIn(s, S, M) PROVE LastIn(r, S, M)
    <2>1. SUFFICES ASSUME NEW i \in DOMAIN r, NEW j \in DOMAIN r, i < j, r[i] \in M, r[j] \in S
                   PROVE  r[j] \in M
      BY DEF LastIn
    <2>2. i + 1 \in DOMAIN s /\ j + 1 \in DOMAIN s /\ i + 1 < j + 1
          /\ r[i] = s[i + 1] /\ r[j] = s[j + 1]
      BY <1>1, <2>1
    <2> QED BY <1>4, <2>1, <2>2 DEF LastIn
  <1>5. ASSUME s # <<>>, Head(s) \in M, LastIn(s, S, M) PROVE Only(r, S, M)
    <2>1. \A j \in DOMAIN r : 1 < j + 1 /\ j + 1 \in DOMAIN s /\ r[j] = s[j + 1]
      BY <1>1
    <2> QED BY <1>1, <1>5, <2>1 DEF LastIn, Only
  <1>6. /\ s # <<>> /\ Head(s) \in S => In(s, S)
        /\ s # <<>> /\ Head(s) \in S /\ Only(s, S, M) => Head(s) \in M
    BY <1>1 DEF In, Only
  <1> QED BY <1>2, <1>3, <1>4, <1>5, <1>6 DEF r

LEMMA LineEmpty ==
  ASSUME NEW s, s = <<>>, NEW S, NEW M
  PROVE  ~In(s, S) /\ Only(s, S, M) /\ LastIn(s, S, M)
  <1>1. DOMAIN s = {}
    OBVIOUS
  <1> QED BY <1>1 DEF In, Only, LastIn

\* The list after the turn at its head, with turn t to follow.
LEMMA LineMove ==
  ASSUME NEW T, NEW s \in Seq(T), NEW t \in T, NEW r, Moved(s, r, t), NEW S, NEW M
  PROVE  /\ In(r, S) => In(s, S) \/ t \in S
         /\ Only(s, S, M) /\ (t \in S => t \in M) => Only(r, S, M)
         /\ LastIn(s, S, M) /\ (In(s, M) /\ t \in S => t \in M) => LastIn(r, S, M)
         /\ s # <<>> /\ Head(s) \in M /\ LastIn(s, S, M) /\ t \notin S => Only(r, S, M)
  <1> DEFINE q == Rest(s)
  <1>1. q \in Seq(T) /\ r = Append(q, t)
    BY RestAt DEF Moved
  <1>2. /\ In(q, S) => In(s, S)
        /\ In(q, M) => In(s, M)
        /\ Only(s, S, M) => Only(q, S, M)
        /\ LastIn(s, S, M) => LastIn(q, S, M)
        /\ s # <<>> /\ Head(s) \in M /\ LastIn(s, S, M) => Only(q, S, M)
    BY LineRest
  <1> HIDE DEF q
  <1>3. /\ In(r, S) => In(q, S) \/ t \in S
        /\ Only(q, S, M) /\ (t \in S => t \in M) => Only(r, S, M)
        /\ LastIn(q, S, M) /\ (In(q, M) /\ t \in S => t \in M) => LastIn(r, S, M)
    BY <1>1, LineAppend
  <1> QED BY <1>2, <1>3

-----------------------------------------------------------------------------
(* Who overwrites /editor.json of json2cpp2.                               *)

OwnJobs(w, n) == {j \in Jobs(w) : j.trace = n}
OwnAwaits(w, n) == {a \in Awaits(w) : a.job.trace = n}
TurnsAt(w, a) == {t \in Turns(w) : t.at = a}
OwnTurns(w, a, n) == {t \in Turns(w) : t.at = a /\ t.job.trace = n}
RightResults(w, n) == {r \in Results(w) : r.trace = n /\ r.usable => r.of = n}
RightTurns(w, n) == {t \in Turns(w) : t.result \in RightResults(w, n)}

\* Behind a job of generation n nothing older is on its way to /editor.json.
Lines(w, n) ==
    /\ LastIn(inbox[w], Jobs(w), OwnJobs(w, n))
    /\ LastIn(msgQueue[w], Jobs(w), OwnJobs(w, n))
    /\ LastIn(waiting[w], Awaits(w), OwnAwaits(w, n))
    /\ \A a \in {"resumed", "args", "exec"} :
         LastIn(ready[w], TurnsAt(w, a), OwnTurns(w, a, n))
\* It waits for the module, or is about to write the file.
Begins(w, n) ==
    \/ In(waiting[w], OwnAwaits(w, n))
    \/ In(ready[w], OwnTurns(w, "resumed", n))
    \/ In(ready[w], OwnTurns(w, "args", n))
\* What has not begun yet, what may still run before it does.
InboxAhead(w, n) ==
    Begins(w, n) \/ In(msgQueue[w], OwnJobs(w, n)) \/ In(ready[w], OwnTurns(w, "exec", n))
      => Only(inbox[w], Jobs(w), OwnJobs(w, n))
QueueAhead(w, n) == Begins(w, n) => Only(msgQueue[w], Jobs(w), OwnJobs(w, n))
TurnsAhead(w, n) ==
    /\ In(ready[w], OwnTurns(w, "args", n)) =>
         Only(ready[w], TurnsAt(w, "resumed"), OwnTurns(w, "resumed", n))
    /\ In(msgQueue[w], OwnJobs(w, n)) =>
         Only(ready[w], TurnsAt(w, "exec"), OwnTurns(w, "exec", n))
    /\ In(ready[w], OwnTurns(w, "exec", n)) =>
         editor[w] = n /\ Only(ready[w], TurnsAt(w, "args"), OwnTurns(w, "args", n))
    /\ In(ready[w], OwnTurns(w, "call", n)) => editor[w] = n
\* What it makes is made of its own text.
Made(w, n) ==
    /\ Only(ready[w], TurnsAt(w, "returned"), RightTurns(w, n))
    /\ Only(outbox[w], Results(w), RightResults(w, n))
OwnOK(w, n) ==
    /\ Lines(w, n) /\ InboxAhead(w, n) /\ QueueAhead(w, n) /\ TurnsAhead(w, n)
    /\ Made(w, n)

LEMMA InTurns ==
  ASSUME NEW w, NEW s, NEW n
  PROVE  /\ \A a : In(s, OwnTurns(w, a, n)) => Has(s, a)
         /\ \A a, M : ~Has(s, a) => Only(s, TurnsAt(w, a), M)
  BY DEF In, Only, OwnTurns, TurnsAt, Has, Ats

\* What the list r, which is s with the turn t in place of its head, has of the job n.
OwnMove(w, s, r, t, n) ==
    /\ \A a : In(r, OwnTurns(w, a, n)) =>
         \/ In(s, OwnTurns(w, a, n)) /\ TailHas(s, a)
         \/ t.at = a /\ t.job.trace = n
    /\ \A a : Only(s, TurnsAt(w, a), OwnTurns(w, a, n))
              /\ (t.at = a => t.job.trace = n)
                => Only(r, TurnsAt(w, a), OwnTurns(w, a, n))
    /\ \A a : LastIn(s, TurnsAt(w, a), OwnTurns(w, a, n))
              /\ (In(s, OwnTurns(w, a, n)) /\ t.at = a => t.job.trace = n)
                => LastIn(r, TurnsAt(w, a), OwnTurns(w, a, n))
    /\ t.job.trace = n /\ LastIn(s, TurnsAt(w, Head(s).at), OwnTurns(w, Head(s).at, n))
         => Only(r, TurnsAt(w, Head(s).at), OwnTurns(w, Head(s).at, n))
    /\ t.job.trace = n => In(s, OwnTurns(w, Head(s).at, n))
    /\ Only(s, TurnsAt(w, Head(s).at), OwnTurns(w, Head(s).at, n)) => t.job.trace = n
    /\ \A M : Only(s, TurnsAt(w, "returned"), M) /\ (t.at = "returned" => t \in M)
                => Only(r, TurnsAt(w, "returned"), M)

\* A turn of a job that is followed by another turn of it.
LEMMA OwnMoved ==
  ASSUME NEW w \in WorkerTypes, NEW s \in Seq(Turns(w)), s # <<>>, NEW t \in Turns(w),
         t.job = Head(s).job, t.at # Head(s).at, NEW r, Moved(s, r, t), NEW n
  PROVE  OwnMove(w, s, r, t, n)
  <1>1. Head(s) \in Turns(w) /\ 1 \in DOMAIN s /\ s[1] = Head(s)
    BY RestAt
  <1>2. \A a : /\ t \in TurnsAt(w, a) <=> t.at = a
               /\ t \in OwnTurns(w, a, n) <=> t.at = a /\ t.job.trace = n
               /\ Head(s) \in TurnsAt(w, a) <=> Head(s).at = a
               /\ Head(s) \in OwnTurns(w, a, n) <=> Head(s).at = a /\ t.job.trace = n
    BY <1>1 DEF TurnsAt, OwnTurns
  <1>3. ASSUME NEW a, In(r, OwnTurns(w, a, n))
        PROVE  \/ In(s, OwnTurns(w, a, n)) /\ TailHas(s, a)
               \/ t.at = a /\ t.job.trace = n
    <2>1. PICK i \in DOMAIN r : r[i] \in OwnTurns(w, a, n)
      BY <1>3 DEF In
    <2>2. \/ r[i] = t
          \/ i + 1 \in DOMAIN s /\ i + 1 # 1 /\ r[i] = s[i + 1]
      BY MovedAt
    <2>3. CASE r[i] = t
      BY <1>2, <2>1, <2>3
    <2>4. CASE i + 1 \in DOMAIN s /\ i + 1 # 1 /\ r[i] = s[i + 1]
      <3>1. s[i + 1].at = a
        BY <2>1, <2>4 DEF OwnTurns
      <3> QED BY <2>1, <2>4, <3>1 DEF In, TailHas
    <2> QED BY <2>2, <2>3, <2>4
  <1>4. ASSUME NEW a, Only(s, TurnsAt(w, a), OwnTurns(w, a, n)), t.at = a => t.job.trace = n
        PROVE  Only(r, TurnsAt(w, a), OwnTurns(w, a, n))
    BY <1>2, <1>4, LineMove
  <1>5. ASSUME NEW a, LastIn(s, TurnsAt(w, a), OwnTurns(w, a, n)),
               In(s, OwnTurns(w, a, n)) /\ t.at = a => t.job.trace = n
        PROVE  LastIn(r, TurnsAt(w, a), OwnTurns(w, a, n))
    BY <1>2, <1>5, LineMove
  <1>6. ASSUME t.job.trace = n, LastIn(s, TurnsAt(w, Head(s).at), OwnTurns(w, Head(s).at, n))
        PROVE  Only(r, TurnsAt(w, Head(s).at), OwnTurns(w, Head(s).at, n))
    BY <1>2, <1>6, LineMove
  <1>7. t.job.trace = n => In(s, OwnTurns(w, Head(s).at, n))
    BY <1>2, LineRest
  <1>8. Only(s, TurnsAt(w, Head(s).at), OwnTurns(w, Head(s).at, n)) => t.job.trace = n
    BY <1>2, LineRest
  <1>9. ASSUME NEW M, Only(s, TurnsAt(w, "returned"), M), t.at = "returned" => t \in M
        PROVE  Only(r, TurnsAt(w, "returned"), M)
    BY <1>2, <1>9, LineMove
  <1> QED BY <1>3, <1>4, <1>5, <1>6, <1>7, <1>8, <1>9 DEF OwnMove

\* The same for the turn of json2cpp2 at the head of its list.
OwnStep(w, n, t) ==
    /\ \A a : In(ready'[w], OwnTurns(w, a, n)) =>
         \/ In(ready[w], OwnTurns(w, a, n)) /\ TailHas(ready[w], a)
         \/ t.at = a /\ t.job.trace = n
    /\ \A a : Only(ready[w], TurnsAt(w, a), OwnTurns(w, a, n))
              /\ (t.at = a => t.job.trace = n)
                => Only(ready'[w], TurnsAt(w, a), OwnTurns(w, a, n))
    /\ \A a : LastIn(ready[w], TurnsAt(w, a), OwnTurns(w, a, n))
              /\ (In(ready[w], OwnTurns(w, a, n)) /\ t.at = a => t.job.trace = n)
                => LastIn(ready'[w], TurnsAt(w, a), OwnTurns(w, a, n))
    /\ t.job.trace = n
       /\ LastIn(ready[w], TurnsAt(w, Turn(w).at), OwnTurns(w, Turn(w).at, n))
         => Only(ready'[w], TurnsAt(w, Turn(w).at), OwnTurns(w, Turn(w).at, n))
    /\ t.job.trace = n => In(ready[w], OwnTurns(w, Turn(w).at, n))
    /\ Only(ready[w], TurnsAt(w, Turn(w).at), OwnTurns(w, Turn(w).at, n)) => t.job.trace = n
    /\ Only(ready[w], TurnsAt(w, "returned"), RightTurns(w, n))
       /\ (t.at = "returned" => t \in RightTurns(w, n))
         => Only(ready'[w], TurnsAt(w, "returned"), RightTurns(w, n))
    \* What is not in the list.
    /\ \A a : In(ready[w], OwnTurns(w, a, n)) => Has(ready[w], a)
    /\ \A b : TailHas(ready[w], b) => b \in Behind(Turn(w).at)
    /\ \A b : Has(ready[w], b) => b = Turn(w).at \/ TailHas(ready[w], b)

LEMMA OwnStepIs ==
  ASSUME NEW w \in WorkerTypes, w = "json2cpp2", WorkerOK(w), ready[w] # <<>>,
         NEW t \in Turns(w), t.job = Turn(w).job, t.at # Turn(w).at,
         Moved(ready[w], ready'[w], t), NEW n
  PROVE  OwnStep(w, n, t)
  <1>1. ready[w] \in Seq(Turns(w)) /\ Turn(w) = Head(ready[w])
    BY DEF WorkerOK, WorkerTypesOK, Turn
  <1>2. OwnMove(w, ready[w], ready'[w], t, n)
    BY <1>1, OwnMoved
  <1>3. /\ \A a : In(ready[w], OwnTurns(w, a, n)) => Has(ready[w], a)
        /\ \A b : TailHas(ready[w], b) => b \in Behind(Turn(w).at)
        /\ \A b : Has(ready[w], b) => b = Turn(w).at \/ TailHas(ready[w], b)
    BY InTurns, JsonTurn
  <1>4. Only(ready[w], TurnsAt(w, "returned"), RightTurns(w, n))
        /\ (t.at = "returned" => t \in RightTurns(w, n))
          => Only(ready'[w], TurnsAt(w, "returned"), RightTurns(w, n))
    BY <1>2 DEF OwnMove
  <1> QED BY <1>1, <1>2, <1>3, <1>4 DEF OwnStep, OwnMove

\* What stays when only the lists of turns and results change.
OwnFrame(w) == inbox'[w] = inbox[w] /\ waiting'[w] = waiting[w]

LEMMA OwnStore ==
  ASSUME NEW w \in WorkerTypes, JsonBefore(w), StoreModuleDoes(w), NEW n, OwnOK(w, n)
  PROVE  OwnOK(w, n)'
  <1>0. /\ w = "json2cpp2" /\ WorkerOK(w) /\ ready[w] # <<>> /\ Turn(w).at = "resumed"
        /\ OwnFrame(w) /\ msgQueue'[w] = msgQueue[w] /\ outbox'[w] = outbox[w]
        /\ editor'[w] = editor[w]
    BY DEF JsonBefore, StoreModuleDoes, Runs, KeepsQueues, OwnFrame
  <1>1. Turn(w).job \in Jobs(w) /\ Turn(w).then = "args"
    <2>1. Turn(w) = ready[w][1] /\ 1 \in DOMAIN ready[w] /\ Turn(w).job \in Jobs(w)
      BY <1>0, HeadTurn DEF WorkerOK
    <2> QED BY <1>0, <2>1 DEF WorkerOK, JsonOK, ThensOK
  <1>2. PICK a \in {"thrown", "args"} : Moved(ready[w], ready'[w], At(Turn(w).job, a))
    BY <1>1 DEF StoreModuleDoes, Runs
  <1> DEFINE t == At(Turn(w).job, a)
  <1>3. t \in Turns(w) /\ t.at = a /\ t.job = Turn(w).job
    <2>1. a \in Steps
      BY DEF Steps
    <2>2. MadeAt(w, Turn(w).job, a)
      BY <1>1, <2>1, AtMade
    <2> QED BY <2>2 DEF MadeAt
  <1>4. Moved(ready[w], ready'[w], t)
    BY <1>2
  <1> HIDE DEF t
  <1>5. OwnStep(w, n, t)
    BY <1>0, <1>3, <1>4, OwnStepIs
  <1>6. ~Has(ready[w], "exec") /\ ~Has(ready[w], "call")
    BY <1>0, <1>5, BehindIs DEF OwnStep
  <1>7. Lines(w, n)'
    BY <1>0, <1>3, <1>5 DEF OwnOK, Lines, TurnsAhead, OwnFrame, OwnStep
  <1>8. Begins(w, n)' => Begins(w, n)
    BY <1>0, <1>3, <1>5 DEF Begins, OwnFrame, OwnStep
  <1>9. /\ ~In(ready'[w], OwnTurns(w, "exec", n)) /\ ~In(ready'[w], OwnTurns(w, "call", n))
    BY <1>3, <1>5, <1>6 DEF OwnStep
  <1>10. InboxAhead(w, n)' /\ QueueAhead(w, n)'
    BY <1>0, <1>8, <1>9 DEF OwnOK, InboxAhead, QueueAhead, OwnFrame
  <1>11. TurnsAhead(w, n)'
    <2>1. In(ready'[w], OwnTurns(w, "args", n)) =>
            Only(ready'[w], TurnsAt(w, "resumed"), OwnTurns(w, "resumed", n))
      BY <1>0, <1>3, <1>5 DEF OwnOK, Lines, TurnsAhead, OwnStep
    <2>2. In(msgQueue'[w], OwnJobs(w, n)) =>
            Only(ready'[w], TurnsAt(w, "exec"), OwnTurns(w, "exec", n))
      BY <1>0, <1>3, <1>5 DEF OwnOK, TurnsAhead, OwnStep
    <2> QED BY <1>9, <2>1, <2>2 DEF TurnsAhead
  <1>12. Made(w, n)'
    BY <1>0, <1>3, <1>5 DEF OwnOK, Made, OwnStep
  <1> QED BY <1>7, <1>10, <1>11, <1>12 DEF OwnOK

LEMMA OwnArgs ==
  ASSUME NEW w \in WorkerTypes, JsonBefore(w), MakeArgsDoes(w), NEW n, OwnOK(w, n)
  PROVE  OwnOK(w, n)'
  <1>0. /\ w = "json2cpp2" /\ WorkerOK(w) /\ ready[w] # <<>> /\ Turn(w).at = "args"
        /\ msgQueue'[w] = msgQueue[w] /\ outbox'[w] = outbox[w]
        /\ editor'[w] = Turn(w).job.of
    BY DEF JsonBefore, MakeArgsDoes, Runs, KeepsQueues
  <1>1. Turn(w).job \in Jobs(w) /\ Turn(w).job.form = "json"
        /\ Turn(w).job.of = Turn(w).job.trace
    <2>1. Turn(w).job \in Jobs(w)
      BY <1>0, JsonTurn
    <2> QED BY <1>0, <2>1, JsonForm DEF Jobs
  <1>2. Moved(ready[w], ready'[w], At(Turn(w).job, "exec")) /\ OwnFrame(w)
    BY <1>1 DEF MakeArgsDoes, Runs, OwnFrame
  <1> DEFINE t == At(Turn(w).job, "exec")
  <1>3. t \in Turns(w) /\ t.at = "exec" /\ t.job = Turn(w).job
    <2>1. "exec" \in Steps
      BY DEF Steps
    <2>2. MadeAt(w, Turn(w).job, "exec")
      BY <1>1, <2>1, AtMade
    <2> QED BY <2>2 DEF MadeAt
  <1>4. Moved(ready[w], ready'[w], t)
    BY <1>2
  <1> HIDE DEF t
  <1>5. OwnStep(w, n, t)
    BY <1>0, <1>3, <1>4, OwnStepIs
  <1>6. ~Has(ready[w], "resumed") /\ ~Has(ready[w], "call")
    BY <1>0, <1>5, BehindIs DEF OwnStep
  <1>a. msgQueue[w] = <<>>
    <2>1. SUFFICES ASSUME msgQueue[w] # <<>> PROVE FALSE
      OBVIOUS
    <2>2. Has(ready[w], "next")
      BY <1>0, <2>1, QueueEmpty DEF WorkerOK
    <2>3. TailHas(ready[w], "next")
      BY <1>0, <1>5, <2>2 DEF OwnStep
    <2>4. Pair(ready[w], "args", "next")
      BY <1>0, <2>3, HeadFirst DEF WorkerOK, WorkerTypesOK, Turn
    <2> QED BY <1>0, <2>1, <2>4 DEF WorkerOK, JsonOK, LineOK
  <1>b. ~In(msgQueue[w], OwnJobs(w, n))
    BY <1>a, LineEmpty
  <1>c. In(ready[w], OwnTurns(w, "exec", n)) => t.job.trace = n
    BY <1>0, <1>5 DEF OwnOK, TurnsAhead, OwnStep
  <1>7. Lines(w, n)'
    BY <1>0, <1>2, <1>3, <1>5, <1>c DEF OwnOK, Lines, OwnFrame, OwnStep
  <1>8. /\ Begins(w, n)' => Begins(w, n)
        /\ In(ready'[w], OwnTurns(w, "exec", n)) =>
             Begins(w, n) \/ In(ready[w], OwnTurns(w, "exec", n))
    BY <1>0, <1>2, <1>3, <1>5 DEF Begins, OwnFrame, OwnStep
  <1>10. InboxAhead(w, n)' /\ QueueAhead(w, n)'
    BY <1>0, <1>2, <1>8, <1>b DEF OwnOK, InboxAhead, QueueAhead, OwnFrame
  <1>11. TurnsAhead(w, n)'
    <2>1. In(ready'[w], OwnTurns(w, "args", n)) =>
            Only(ready'[w], TurnsAt(w, "resumed"), OwnTurns(w, "resumed", n))
      BY <1>0, <1>3, <1>5 DEF OwnOK, TurnsAhead, OwnStep
    <2>2. ASSUME In(ready'[w], OwnTurns(w, "exec", n))
          PROVE  editor'[w] = n /\ Only(ready'[w], TurnsAt(w, "args"), OwnTurns(w, "args", n))
      <3>1. t.job.trace = n
        BY <1>5, <1>c, <2>2 DEF OwnStep
      <3>2. LastIn(ready[w], TurnsAt(w, "args"), OwnTurns(w, "args", n))
        BY DEF OwnOK, Lines
      <3> QED BY <1>0, <1>1, <1>3, <1>5, <3>1, <3>2 DEF OwnStep
    <2>3. ~In(ready'[w], OwnTurns(w, "call", n))
      BY <1>3, <1>5, <1>6 DEF OwnStep
    <2> QED BY <1>0, <1>b, <2>1, <2>2, <2>3 DEF TurnsAhead
  <1>12. Made(w, n)'
    BY <1>0, <1>3, <1>5 DEF OwnOK, Made, OwnStep
  <1> QED BY <1>7, <1>10, <1>11, <1>12 DEF OwnOK

LEMMA OwnRepost ==
  ASSUME NEW w \in WorkerTypes, JsonBefore(w), RepostDoes(w), NEW n, OwnOK(w, n)
  PROVE  OwnOK(w, n)'
  <1>0. /\ w = "json2cpp2" /\ WorkerOK(w) /\ ready[w] # <<>> /\ Turn(w).at = "exec"
        /\ OwnFrame(w) /\ outbox'[w] = outbox[w] /\ editor'[w] = editor[w]
        /\ msgQueue'[w] = Append(msgQueue[w], Turn(w).job)
        /\ Moved(ready[w], ready'[w], At(Turn(w).job, "next"))
    BY DEF JsonBefore, RepostDoes, Runs, KeepsRest, KeepsModule, OwnFrame
  <1>1. Turn(w).job \in Jobs(w) /\ msgQueue[w] \in Seq(Jobs(w))
    BY <1>0, JsonTurn DEF WorkerOK, WorkerTypesOK
  <1> DEFINE t == At(Turn(w).job, "next")
  <1>3. t \in Turns(w) /\ t.at = "next" /\ t.job = Turn(w).job
    <2>1. "next" \in Steps
      BY DEF Steps
    <2>2. MadeAt(w, Turn(w).job, "next")
      BY <1>1, <2>1, AtMade
    <2> QED BY <2>2 DEF MadeAt
  <1>4. Moved(ready[w], ready'[w], t)
    BY <1>0
  <1> HIDE DEF t
  <1>5. OwnStep(w, n, t)
    BY <1>0, <1>3, <1>4, OwnStepIs
  <1>6. ~Has(ready[w], "resumed") /\ ~Has(ready[w], "args")
    BY <1>0, <1>5, BehindIs DEF OwnStep
  <1>7. waiting[w] = <<>>
    <2>1. Has(ready[w], "exec")
      BY <1>0, JsonTurn
    <2> QED BY <1>0, <2>1 DEF WorkerOK, JsonOK, LineModuleOK, ModuleOK
  <1>8. ~Begins(w, n)'
    <2>1. ~In(waiting'[w], OwnAwaits(w, n))
      BY <1>0, <1>7, LineEmpty DEF OwnFrame
    <2> QED BY <1>3, <1>5, <1>6, <2>1 DEF Begins, OwnStep
  \* The job is one more in the queue.
  <1>9. /\ Turn(w).job \in OwnJobs(w, n) <=> t.job.trace = n
        /\ In(msgQueue[w], OwnJobs(w, n)) => t.job.trace = n
    BY <1>0, <1>1, <1>3, <1>5 DEF OwnJobs, OwnOK, TurnsAhead, OwnStep
  <1>10. /\ LastIn(msgQueue'[w], Jobs(w), OwnJobs(w, n))
         /\ In(msgQueue'[w], OwnJobs(w, n)) =>
              In(msgQueue[w], OwnJobs(w, n)) \/ t.job.trace = n
    <2>1. LastIn(msgQueue[w], Jobs(w), OwnJobs(w, n))
      BY DEF OwnOK, Lines
    <2>2. In(msgQueue[w], OwnJobs(w, n)) => Turn(w).job \in OwnJobs(w, n)
      BY <1>9
    <2>3. LastIn(Append(msgQueue[w], Turn(w).job), Jobs(w), OwnJobs(w, n))
      BY <1>1, <2>1, <2>2, LineAppend
    <2>4. In(Append(msgQueue[w], Turn(w).job), OwnJobs(w, n)) =>
            In(msgQueue[w], OwnJobs(w, n)) \/ Turn(w).job \in OwnJobs(w, n)
      BY <1>1, LineAppend
    <2> QED BY <1>0, <1>9, <2>3, <2>4
  <1>11. Lines(w, n)'
    BY <1>0, <1>3, <1>5, <1>10 DEF OwnOK, Lines, OwnFrame, OwnStep
  <1>12. InboxAhead(w, n)' /\ QueueAhead(w, n)'
    <2>1. In(ready'[w], OwnTurns(w, "exec", n)) => In(ready[w], OwnTurns(w, "exec", n))
      BY <1>3, <1>5 DEF OwnStep
    <2>2. t.job.trace = n => In(ready[w], OwnTurns(w, "exec", n))
      BY <1>0, <1>5 DEF OwnStep
    <2> QED BY <1>0, <1>8, <1>10, <2>1, <2>2 DEF OwnOK, InboxAhead, QueueAhead, OwnFrame
  <1>13. TurnsAhead(w, n)'
    <2>1. ~In(ready'[w], OwnTurns(w, "args", n))
      BY <1>3, <1>5, <1>6 DEF OwnStep
    <2>2. ASSUME In(msgQueue'[w], OwnJobs(w, n))
          PROVE  Only(ready'[w], TurnsAt(w, "exec"), OwnTurns(w, "exec", n))
      BY <1>0, <1>3, <1>5, <1>9, <1>10, <2>2 DEF OwnOK, Lines, OwnStep
    <2>3. In(ready'[w], OwnTurns(w, "exec", n)) =>
            editor'[w] = n /\ Only(ready'[w], TurnsAt(w, "args"), OwnTurns(w, "args", n))
      BY <1>0, <1>3, <1>5 DEF OwnOK, TurnsAhead, OwnStep
    <2>4. In(ready'[w], OwnTurns(w, "call", n)) => editor'[w] = n
      BY <1>0, <1>3, <1>5 DEF OwnOK, TurnsAhead, OwnStep
    <2> QED BY <2>1, <2>2, <2>3, <2>4 DEF TurnsAhead
  <1>14. Made(w, n)'
    BY <1>0, <1>3, <1>5 DEF OwnOK, Made, OwnStep
  <1> QED BY <1>11, <1>12, <1>13, <1>14 DEF OwnOK

LEMMA OwnExec ==
  ASSUME NEW w \in WorkerTypes, JsonBefore(w), ExecDoes(w), NEW n, OwnOK(w, n)
  PROVE  OwnOK(w, n)'
  <1>0. /\ w = "json2cpp2" /\ WorkerOK(w) /\ ready[w] # <<>> /\ Turn(w).at = "exec"
        /\ outbox'[w] = outbox[w] /\ editor'[w] = editor[w] /\ msgQueue'[w] = msgQueue[w]
        /\ inbox'[w] = inbox[w] /\ Waits(w, Turn(w).job, "call")
    BY DEF JsonBefore, ExecDoes, KeepsQueues, KeepsModule
  <1>1. Turn(w).job \in Jobs(w) /\ mod[w] # None
    <2>1. Turn(w).job \in Jobs(w) /\ Has(ready[w], "exec")
      BY <1>0, JsonTurn
    <2> QED BY <1>0, <2>1 DEF WorkerOK, JsonOK, LineModuleOK
  <1> DEFINE t == At(Turn(w).job, "call")
  <1>3. t \in Turns(w) /\ t.at = "call" /\ t.job = Turn(w).job
    <2>1. "call" \in Steps
      BY DEF Steps
    <2>2. MadeAt(w, Turn(w).job, "call")
      BY <1>1, <2>1, AtMade
    <2> QED BY <2>2 DEF MadeAt
  <1>4. Moved(ready[w], ready'[w], t) /\ OwnFrame(w)
    BY <1>0, <1>1 DEF Waits, OwnFrame
  <1> HIDE DEF t
  <1>5. OwnStep(w, n, t)
    BY <1>0, <1>3, <1>4, OwnStepIs
  <1>7. Lines(w, n)'
    BY <1>0, <1>3, <1>4, <1>5 DEF OwnOK, Lines, OwnFrame, OwnStep
  <1>8. /\ Begins(w, n)' => Begins(w, n)
        /\ In(ready'[w], OwnTurns(w, "exec", n)) => In(ready[w], OwnTurns(w, "exec", n))
    BY <1>0, <1>3, <1>4, <1>5 DEF Begins, OwnFrame, OwnStep
  <1>10. InboxAhead(w, n)' /\ QueueAhead(w, n)'
    BY <1>0, <1>8 DEF OwnOK, InboxAhead, QueueAhead
  <1>11. TurnsAhead(w, n)'
    <2>1. In(ready'[w], OwnTurns(w, "args", n)) =>
            Only(ready'[w], TurnsAt(w, "resumed"), OwnTurns(w, "resumed", n))
      BY <1>0, <1>3, <1>5 DEF OwnOK, TurnsAhead, OwnStep
    <2>2. In(msgQueue'[w], OwnJobs(w, n)) =>
            Only(ready'[w], TurnsAt(w, "exec"), OwnTurns(w, "exec", n))
      BY <1>0, <1>3, <1>5 DEF OwnOK, TurnsAhead, OwnStep
    <2>3. In(ready'[w], OwnTurns(w, "exec", n)) =>
            editor'[w] = n /\ Only(ready'[w], TurnsAt(w, "args"), OwnTurns(w, "args", n))
      BY <1>0, <1>3, <1>5, <1>8 DEF OwnOK, TurnsAhead, OwnStep
    <2>4. ASSUME In(ready'[w], OwnTurns(w, "call", n)) PROVE editor'[w] = n
      <3>1. In(ready[w], OwnTurns(w, "call", n)) \/ In(ready[w], OwnTurns(w, "exec", n))
        BY <1>0, <1>5, <2>4 DEF OwnStep
      <3> QED BY <1>0, <3>1 DEF OwnOK, TurnsAhead
    <2> QED BY <2>1, <2>2, <2>3, <2>4 DEF TurnsAhead
  <1>12. Made(w, n)'
    BY <1>0, <1>3, <1>5 DEF OwnOK, Made, OwnStep
  <1> QED BY <1>7, <1>10, <1>11, <1>12 DEF OwnOK

\* The module compiles what /editor.json holds, and a job of generation n finds
\* its own text in it.
LEMMA OwnReturns ==
  ASSUME NEW w \in WorkerTypes, JsonBefore(w), CallMainDoes(w) \/ TrapDoes(w),
         NEW n, OwnOK(w, n)
  PROVE  OwnOK(w, n)'
  <1>1. PICK res : /\ Runs(w, {"call"}, Returned(Turn(w).job, res))
                   /\ res.usable => res.of = editor[w]
    <2>1. Compiles(w) /\ w = "json2cpp2"
      BY DEF CallMainDoes, TrapDoes, JsonBefore
    <2> QED BY <2>1 DEF Compiles, Input, JobResult
  <1> DEFINE t == Returned(Turn(w).job, res)
  <1>2. t.at = "returned" /\ t.job = Turn(w).job /\ t.result = res
    BY DEF Returned
  <1>0. /\ w = "json2cpp2" /\ WorkerOK(w) /\ ready[w] # <<>> /\ Turn(w).at = "call"
        /\ Moved(ready[w], ready'[w], t) /\ OwnFrame(w)
        /\ msgQueue'[w] = msgQueue[w] /\ outbox'[w] = outbox[w]
    BY <1>1 DEF JsonBefore, Runs, CallMainDoes, TrapDoes, KeepsQueues, OwnFrame
  <1> HIDE DEF t
  <1>3. t \in Turns(w)
    BY <1>0, MovedIn, TypesKept DEF JsonBefore, WorkerOK, WorkerTypesOK
  <1>5. OwnStep(w, n, t)
    BY <1>0, <1>2, <1>3, OwnStepIs
  <1>6. ~TailHas(ready[w], "resumed") /\ ~TailHas(ready[w], "args")
        /\ ~TailHas(ready[w], "exec") /\ ~TailHas(ready[w], "call")
    BY <1>0, <1>5, BehindIs DEF OwnStep
  <1>7. Lines(w, n)'
    BY <1>0, <1>2, <1>5 DEF OwnOK, Lines, OwnFrame, OwnStep
  <1>8. /\ Begins(w, n)' => Begins(w, n)
        /\ ~In(ready'[w], OwnTurns(w, "args", n))
        /\ ~In(ready'[w], OwnTurns(w, "exec", n))
        /\ ~In(ready'[w], OwnTurns(w, "call", n))
    BY <1>0, <1>2, <1>5, <1>6 DEF Begins, OwnFrame, OwnStep
  <1>9. InboxAhead(w, n)' /\ QueueAhead(w, n)'
    BY <1>0, <1>8 DEF OwnOK, InboxAhead, QueueAhead, OwnFrame
  <1>10. TurnsAhead(w, n)'
    <2>1. In(msgQueue'[w], OwnJobs(w, n)) =>
            Only(ready'[w], TurnsAt(w, "exec"), OwnTurns(w, "exec", n))
      BY <1>0, <1>2, <1>5 DEF OwnOK, TurnsAhead, OwnStep
    <2> QED BY <1>8, <2>1 DEF TurnsAhead
  <1>11. t \in RightTurns(w, n)
    <2>1. t.job.trace = n => editor[w] = n
      BY <1>0, <1>5 DEF OwnOK, TurnsAhead, OwnStep
    <2>2. res \in Results(w) /\ res.trace = t.job.trace
      BY <1>2, <1>3, TurnIs
    <2>3. res \in RightResults(w, n)
      BY <1>1, <2>1, <2>2 DEF RightResults
    <2> QED BY <1>2, <1>3, <2>3 DEF RightTurns
  <1>12. Made(w, n)'
    BY <1>0, <1>5, <1>11 DEF OwnOK, Made, OwnStep
  <1> QED BY <1>7, <1>9, <1>10, <1>12 DEF OwnOK

LEMMA OwnPost ==
  ASSUME NEW w \in WorkerTypes, JsonBefore(w), PostResultDoes(w), NEW n, OwnOK(w, n)
  PROVE  OwnOK(w, n)'
  <1>0. /\ w = "json2cpp2" /\ WorkerOK(w) /\ ready[w] # <<>> /\ Turn(w).at = "returned"
        /\ OwnFrame(w) /\ msgQueue'[w] = msgQueue[w] /\ editor'[w] = editor[w]
        /\ outbox'[w] = Append(outbox[w], Turn(w).result)
        /\ Moved(ready[w], ready'[w], At(Turn(w).job, "next"))
    BY DEF JsonBefore, PostResultDoes, Runs, KeepsModule, OwnFrame
  <1>1. /\ Turn(w).job \in Jobs(w) /\ Turn(w) \in Turns(w) /\ Turn(w).result \in Results(w)
        /\ outbox[w] \in Seq(Results(w)) /\ ready[w] \in Seq(Turns(w))
    BY <1>0, HeadTurn DEF WorkerOK, WorkerTypesOK
  <1> DEFINE t == At(Turn(w).job, "next")
  <1>3. t \in Turns(w) /\ t.at = "next" /\ t.job = Turn(w).job
    <2>1. "next" \in Steps
      BY DEF Steps
    <2>2. MadeAt(w, Turn(w).job, "next")
      BY <1>1, <2>1, AtMade
    <2> QED BY <2>2 DEF MadeAt
  <1>4. Moved(ready[w], ready'[w], t)
    BY <1>0
  <1> HIDE DEF t
  <1>5. OwnStep(w, n, t)
    BY <1>0, <1>3, <1>4, OwnStepIs
  <1>7. Lines(w, n)'
    BY <1>0, <1>3, <1>5 DEF OwnOK, Lines, OwnFrame, OwnStep
  <1>8. \A a \in {"resumed", "args", "exec", "call"} :
          In(ready'[w], OwnTurns(w, a, n)) => In(ready[w], OwnTurns(w, a, n))
    BY <1>3, <1>5 DEF OwnStep
  <1>9. Begins(w, n)' => Begins(w, n)
    BY <1>0, <1>8 DEF Begins, OwnFrame
  <1>10. InboxAhead(w, n)' /\ QueueAhead(w, n)'
    BY <1>0, <1>8, <1>9 DEF OwnOK, InboxAhead, QueueAhead, OwnFrame
  <1>11. TurnsAhead(w, n)'
    BY <1>0, <1>3, <1>5, <1>8 DEF OwnOK, TurnsAhead, OwnStep
  <1>12. Made(w, n)'
    <2>1. Turn(w) \in RightTurns(w, n)
      <3>1. Only(ready[w], TurnsAt(w, "returned"), RightTurns(w, n))
        BY DEF OwnOK, Made
      <3>2. Turn(w) = Head(ready[w]) /\ Turn(w) \in TurnsAt(w, "returned")
        BY <1>0, <1>1 DEF TurnsAt, Turn
      <3> QED BY <1>0, <1>1, <3>1, <3>2, LineRest
    <2>2. Turn(w).result \in RightResults(w, n)
      BY <2>1 DEF RightTurns
    <2>3. Only(outbox[w], Results(w), RightResults(w, n))
      BY DEF OwnOK, Made
    <2>4. Only(outbox'[w], Results(w), RightResults(w, n))
      BY <1>0, <1>1, <2>2, <2>3, LineAppend
    <2>5. Only(ready'[w], TurnsAt(w, "returned"), RightTurns(w, n))
      BY <1>3, <1>5 DEF OwnOK, Made, OwnStep
    <2> QED BY <2>4, <2>5 DEF Made
  <1> QED BY <1>7, <1>10, <1>11, <1>12 DEF OwnOK

\* The head of the loop takes a job of the queue when no job of the list is at
\* "resumed", "exec" or "call".
LEMMA OwnTaken ==
  ASSUME NEW w \in WorkerTypes, w = "json2cpp2", WorkerOK(w), WorkDoes(w), NEW n, OwnOK(w, n),
         NEW job \in Jobs(w), Waits(w, job, "args"),
         ~Has(ready[w], "resumed"), ~Has(ready[w], "exec"), ~Has(ready[w], "call"),
         Only(outbox'[w], Results(w), RightResults(w, n)),
         LastIn(inbox'[w], Jobs(w), OwnJobs(w, n)),
         LastIn(msgQueue'[w], Jobs(w), OwnJobs(w, n)),
         Begins(w, n) => job.trace = n,
         Begins(w, n) \/ In(msgQueue'[w], OwnJobs(w, n)) \/ job.trace = n =>
           Only(inbox'[w], Jobs(w), OwnJobs(w, n)),
         Begins(w, n) \/ job.trace = n => Only(msgQueue'[w], Jobs(w), OwnJobs(w, n))
  PROVE  OwnOK(w, n)'
  <1>1. ready[w] \in Seq(Turns(w)) /\ waiting[w] \in Seq(Awaits(w))
        /\ ready'[w] \in Seq(Turns(w))
    BY TypesKept DEF WorkerOK, WorkerTypesOK
  <1>2. \A a \in {"resumed", "exec", "call"} : ~In(ready[w], OwnTurns(w, a, n))
    BY InTurns
  <1>3. \A M : \A a \in {"resumed", "exec", "call"} : Only(ready[w], TurnsAt(w, a), M)
    BY InTurns
  <1>4. /\ \A a \in {"resumed", "args", "exec"} :
             LastIn(ready[w], TurnsAt(w, a), OwnTurns(w, a, n))
        /\ Only(ready[w], TurnsAt(w, "returned"), RightTurns(w, n))
        /\ LastIn(waiting[w], Awaits(w), OwnAwaits(w, n))
    BY DEF OwnOK, Lines, Made
  \* What follows when the lists are known.
  <1>5. ASSUME In(waiting'[w], OwnAwaits(w, n)) => Begins(w, n) \/ job.trace = n,
               LastIn(waiting'[w], Awaits(w), OwnAwaits(w, n)),
               \A a \in {"resumed", "args"} :
                 In(ready'[w], OwnTurns(w, a, n)) => Begins(w, n) \/ job.trace = n,
               \A a \in {"exec", "call"} : ~In(ready'[w], OwnTurns(w, a, n)),
               \A a \in {"resumed", "args", "exec"} :
                 LastIn(ready'[w], TurnsAt(w, a), OwnTurns(w, a, n)),
               In(ready'[w], OwnTurns(w, "args", n)) =>
                 Only(ready'[w], TurnsAt(w, "resumed"), OwnTurns(w, "resumed", n)),
               Only(ready'[w], TurnsAt(w, "exec"), OwnTurns(w, "exec", n)),
               Only(ready'[w], TurnsAt(w, "returned"), RightTurns(w, n))
        PROVE  OwnOK(w, n)'
    <2>1. Begins(w, n)' => Begins(w, n) \/ job.trace = n
      BY <1>5 DEF Begins
    <2>2. Lines(w, n)'
      BY <1>5 DEF Lines
    <2>3. InboxAhead(w, n)' /\ QueueAhead(w, n)'
      BY <1>5, <2>1 DEF InboxAhead, QueueAhead
    <2>4. TurnsAhead(w, n)'
      BY <1>5 DEF TurnsAhead
    <2>5. Made(w, n)'
      BY <1>5 DEF Made
    <2> QED BY <2>2, <2>3, <2>4, <2>5 DEF OwnOK
  <1>6. CASE mod[w] # None /\ Moved(ready[w], ready'[w], At(job, "args"))
               /\ waiting'[w] = waiting[w]
    <2> DEFINE t == At(job, "args")
    <2>1. t \in Turns(w) /\ t.at = "args" /\ t.job = job
      <3>1. "args" \in Steps
        BY DEF Steps
      <3>2. MadeAt(w, job, "args")
        BY <3>1, AtMade
      <3> QED BY <3>2 DEF MadeAt
    <2>2. Moved(ready[w], ready'[w], t)
      BY <1>6
    <2> HIDE DEF t
    <2>3. \A a : /\ t \in TurnsAt(w, a) <=> a = "args"
                 /\ t \in OwnTurns(w, a, n) <=> a = "args" /\ job.trace = n
      BY <2>1 DEF TurnsAt, OwnTurns
    <2>4. In(waiting[w], OwnAwaits(w, n)) \/ In(ready[w], OwnTurns(w, "args", n))
            => Begins(w, n)
      BY DEF Begins
    <2>5. \A a : In(ready'[w], OwnTurns(w, a, n)) =>
            In(ready[w], OwnTurns(w, a, n)) \/ t \in OwnTurns(w, a, n)
      BY <1>1, <2>1, <2>2, LineMove
    <2>6. \A a \in {"resumed", "args", "exec"} :
            LastIn(ready'[w], TurnsAt(w, a), OwnTurns(w, a, n))
      <3>1. ASSUME NEW a \in {"resumed", "args", "exec"}
            PROVE  LastIn(ready'[w], TurnsAt(w, a), OwnTurns(w, a, n))
        <4>1. In(ready[w], OwnTurns(w, a, n)) /\ t \in TurnsAt(w, a) => t \in OwnTurns(w, a, n)
          BY <2>3, <2>4
        <4>2. LastIn(ready[w], TurnsAt(w, a), OwnTurns(w, a, n))
          BY <1>4
        <4> QED BY <1>1, <2>1, <2>2, <4>1, <4>2, LineMove
      <3> QED BY <3>1
    <2>7. \A a \in {"resumed", "exec"} : Only(ready'[w], TurnsAt(w, a), OwnTurns(w, a, n))
      <3>1. ASSUME NEW a \in {"resumed", "exec"}
            PROVE  Only(ready'[w], TurnsAt(w, a), OwnTurns(w, a, n))
        <4>1. t \notin TurnsAt(w, a) /\ Only(ready[w], TurnsAt(w, a), OwnTurns(w, a, n))
          BY <1>3, <2>3
        <4> QED BY <1>1, <2>1, <2>2, <4>1, LineMove
      <3> QED BY <3>1
    <2>8. Only(ready'[w], TurnsAt(w, "returned"), RightTurns(w, n))
      <3>1. t \notin TurnsAt(w, "returned")
        BY <2>3
      <3> QED BY <1>1, <1>4, <2>1, <2>2, <3>1, LineMove
    <2> QED BY <1>2, <1>4, <1>5, <1>6, <2>3, <2>4, <2>5, <2>6, <2>7, <2>8
  <1>7. CASE mod[w] = None /\ Dropped(ready[w], ready'[w])
               /\ waiting'[w] = Append(waiting[w], Awaiting(job, "args"))
    <2> DEFINE a0 == Awaiting(job, "args")
    <2>1. a0 \in Awaits(w) /\ (a0 \in OwnAwaits(w, n) <=> job.trace = n)
      BY DEF Awaiting, Awaits, OwnAwaits
    <2>2. waiting'[w] = Append(waiting[w], a0) /\ ready'[w] = Rest(ready[w])
      BY <1>7 DEF Dropped
    <2> HIDE DEF a0
    <2>3. /\ In(waiting'[w], OwnAwaits(w, n)) => Begins(w, n) \/ job.trace = n
          /\ LastIn(waiting'[w], Awaits(w), OwnAwaits(w, n))
      <3>1. In(Append(waiting[w], a0), OwnAwaits(w, n)) =>
              In(waiting[w], OwnAwaits(w, n)) \/ a0 \in OwnAwaits(w, n)
        BY <1>1, <2>1, LineAppend
      <3>2. In(waiting[w], OwnAwaits(w, n)) => a0 \in OwnAwaits(w, n)
        BY <2>1 DEF Begins
      <3>3. LastIn(Append(waiting[w], a0), Awaits(w), OwnAwaits(w, n))
        BY <1>1, <1>4, <2>1, <3>2, LineAppend
      <3> QED BY <2>1, <2>2, <3>1, <3>3 DEF Begins
    <2>4. ~In(ready[w], OwnTurns(w, "args", n))
      <3>1. ~Has(ready[w], "args")
        BY <1>7 DEF WorkerOK, JsonOK, LineModuleOK
      <3> QED BY <3>1, InTurns
    <2>5. \A a \in {"resumed", "args", "exec", "call"} : ~In(ready'[w], OwnTurns(w, a, n))
      <3>1. ASSUME NEW a \in {"resumed", "args", "exec", "call"}
            PROVE  ~In(Rest(ready[w]), OwnTurns(w, a, n))
        <4>1. ~In(ready[w], OwnTurns(w, a, n))
          BY <1>2, <2>4
        <4> QED BY <1>1, <4>1, LineRest
      <3> QED BY <2>2, <3>1
    <2>6. \A a \in {"resumed", "args", "exec"} :
            LastIn(ready'[w], TurnsAt(w, a), OwnTurns(w, a, n))
      BY <1>1, <1>4, <2>2, LineRest
    <2>7. \A a \in {"resumed", "exec"} : Only(ready'[w], TurnsAt(w, a), OwnTurns(w, a, n))
      BY <1>1, <1>3, <2>2, LineRest
    <2>8. Only(ready'[w], TurnsAt(w, "returned"), RightTurns(w, n))
      BY <1>1, <1>4, <2>2, LineRest
    <2> QED BY <1>5, <2>3, <2>5, <2>6, <2>7, <2>8
  <1>8. CASE /\ mod[w] = None /\ waiting'[w] = waiting[w]
             /\ Moved(ready[w], ready'[w], Resumed(Awaiting(job, "args"), promise[w].id))
    <2> DEFINE t == Resumed(Awaiting(job, "args"), promise[w].id)
    <2>1. t \in Turns(w) /\ t.at = "resumed" /\ t.job = job
      <3>1. promise[w].id \in Nat
        BY DEF WorkerOK, WorkerTypesOK, Promises
      <3>2. Awaiting(job, "args") \in Awaits(w) /\ Awaiting(job, "args").job = job
        BY DEF Awaiting, Awaits
      <3> QED BY <3>1, <3>2, TurnMade
    <2>2. Moved(ready[w], ready'[w], t)
      BY <1>8
    <2> HIDE DEF t
    <2>3. \A a : /\ t \in TurnsAt(w, a) <=> a = "resumed"
                 /\ t \in OwnTurns(w, a, n) <=> a = "resumed" /\ job.trace = n
      BY <2>1 DEF TurnsAt, OwnTurns
    <2>4. ~In(ready[w], OwnTurns(w, "args", n))
      <3>1. ~Has(ready[w], "args")
        BY <1>8 DEF WorkerOK, JsonOK, LineModuleOK
      <3> QED BY <3>1, InTurns
    <2>5. \A a : In(ready'[w], OwnTurns(w, a, n)) =>
            In(ready[w], OwnTurns(w, a, n)) \/ t \in OwnTurns(w, a, n)
      BY <1>1, <2>1, <2>2, LineMove
    <2>6. \A a \in {"resumed", "args", "exec"} :
            LastIn(ready'[w], TurnsAt(w, a), OwnTurns(w, a, n))
      <3>1. ASSUME NEW a \in {"resumed", "args", "exec"}
            PROVE  LastIn(ready'[w], TurnsAt(w, a), OwnTurns(w, a, n))
        <4>1. ~In(ready[w], OwnTurns(w, a, n))
          BY <1>2, <2>4
        <4>2. LastIn(ready[w], TurnsAt(w, a), OwnTurns(w, a, n))
          BY <1>4
        <4> QED BY <1>1, <2>1, <2>2, <4>1, <4>2, LineMove
      <3> QED BY <3>1
    <2>7. Only(ready'[w], TurnsAt(w, "exec"), OwnTurns(w, "exec", n))
      <3>1. t \notin TurnsAt(w, "exec") /\ Only(ready[w], TurnsAt(w, "exec"), OwnTurns(w, "exec", n))
        BY <1>3, <2>3
      <3> QED BY <1>1, <2>1, <2>2, <3>1, LineMove
    <2>8. Only(ready'[w], TurnsAt(w, "returned"), RightTurns(w, n))
      <3>1. t \notin TurnsAt(w, "returned")
        BY <2>3
      <3> QED BY <1>1, <1>4, <2>1, <2>2, <3>1, LineMove
    <2>9. In(waiting[w], OwnAwaits(w, n)) => Begins(w, n)
      BY DEF Begins
    <2> QED BY <1>2, <1>4, <1>5, <1>8, <2>3, <2>4, <2>5, <2>6, <2>7, <2>8, <2>9
  <1> QED BY <1>6, <1>7, <1>8 DEF Waits

LEMMA OwnGoesOn ==
  ASSUME NEW w \in WorkerTypes, JsonBefore(w), GoesOnDoes(w), NEW n, OwnOK(w, n)
  PROVE  OwnOK(w, n)'
  <1>0. /\ w = "json2cpp2" /\ WorkerOK(w) /\ WorkDoes(w) /\ WorkerTypesOK(w)
        /\ ready[w] # <<>> /\ Loops(w, msgQueue[w]) /\ Turn(w).at \in {"thrown", "next"}
        /\ inbox'[w] = inbox[w] /\ editor'[w] = editor[w]
    BY DEF JsonBefore, GoesOnDoes, KeepsRest, KeepsModule, WorkerOK
  <1>1. /\ ready[w] \in Seq(Turns(w)) /\ msgQueue[w] \in Seq(Jobs(w))
        /\ outbox[w] \in Seq(Results(w)) /\ Turn(w).job \in Jobs(w)
    BY <1>0, HeadTurn DEF WorkerTypesOK
  <1>2. /\ \A b : TailHas(ready[w], b) => b \in Behind(Turn(w).at)
        /\ \A b : Has(ready[w], b) => b = Turn(w).at \/ TailHas(ready[w], b)
        /\ Turn(w).at = "next" => ~(mod[w] = None /\ Settled(w))
    BY <1>0, JsonTurn
  <1>3. Only(outbox'[w], Results(w), RightResults(w, n))
    <2>1. Only(outbox[w], Results(w), RightResults(w, n))
      BY DEF OwnOK, Made
    <2>2. CASE outbox'[w] = outbox[w]
      BY <2>1, <2>2
    <2>3. CASE outbox'[w] = Append(outbox[w], Failure(Turn(w).job))
      <3>1. Failure(Turn(w).job) \in Results(w) /\ ~Failure(Turn(w).job).usable
        BY <1>1 DEF Failure, JobResult, Results, Jobs, Texts
      <3>2. Failure(Turn(w).job) \in RightResults(w, n)
        BY <3>1 DEF RightResults
      <3> QED BY <1>1, <2>1, <2>3, <3>1, <3>2, LineAppend
    <2> QED BY <2>2, <2>3 DEF GoesOnDoes
  <1>4. CASE msgQueue[w] = <<>>
    <2>1. /\ ready'[w] = Rest(ready[w]) /\ waiting'[w] = waiting[w]
          /\ msgQueue'[w] = msgQueue[w]
      BY <1>0, <1>4 DEF Loops, Dropped
    <2>2. \A S, M : /\ In(Rest(ready[w]), S) => In(ready[w], S)
                    /\ Only(ready[w], S, M) => Only(Rest(ready[w]), S, M)
                    /\ LastIn(ready[w], S, M) => LastIn(Rest(ready[w]), S, M)
      BY <1>1, LineRest
    <2>3. Lines(w, n)'
      BY <1>0, <2>1, <2>2 DEF OwnOK, Lines
    <2>4. /\ Begins(w, n)' => Begins(w, n)
          /\ In(ready'[w], OwnTurns(w, "exec", n)) => In(ready[w], OwnTurns(w, "exec", n))
      BY <2>1, <2>2 DEF Begins
    <2>5. InboxAhead(w, n)' /\ QueueAhead(w, n)'
      BY <1>0, <2>1, <2>4 DEF OwnOK, InboxAhead, QueueAhead
    <2>6. TurnsAhead(w, n)'
      BY <1>0, <2>1, <2>2 DEF OwnOK, TurnsAhead
    <2>7. Made(w, n)'
      BY <1>3, <2>1, <2>2 DEF OwnOK, Made
    <2> QED BY <2>3, <2>5, <2>6, <2>7 DEF OwnOK
  <1>5. CASE msgQueue[w] # <<>>
    <2> DEFINE job == Head(msgQueue[w])
    <2>1. job \in Jobs(w) /\ Waits(w, job, "args") /\ msgQueue'[w] = Rest(msgQueue[w])
      BY <1>0, <1>1, <1>5, HeadTailProperties DEF Loops, Rest
    <2>2. Turn(w).at = "next"
      <3>1. Has(ready[w], "next")
        BY <1>0, <1>5, QueueEmpty DEF WorkerOK
      <3> QED BY <1>0, <1>2, <3>1, BehindIs
    <2>3. ~Has(ready[w], "resumed") /\ ~Has(ready[w], "exec") /\ ~Has(ready[w], "call")
      <3>1. ~Pair(ready[w], "next", "exec")
        BY <1>0, <1>5 DEF WorkerOK, JsonOK, LineOK
      <3>2. ~TailHas(ready[w], "exec")
        BY <1>1, <2>2, <3>1, HeadFirst DEF Turn
      <3> QED BY <1>2, <2>2, <3>2, BehindIs
    <2>5. job \in OwnJobs(w, n) <=> job.trace = n
      BY <2>1 DEF OwnJobs
    <2>6. /\ In(Rest(msgQueue[w]), OwnJobs(w, n)) => In(msgQueue[w], OwnJobs(w, n))
          /\ Only(msgQueue[w], Jobs(w), OwnJobs(w, n)) =>
               Only(Rest(msgQueue[w]), Jobs(w), OwnJobs(w, n)) /\ job \in OwnJobs(w, n)
          /\ LastIn(Rest(msgQueue[w]), Jobs(w), OwnJobs(w, n))
          /\ job \in OwnJobs(w, n) =>
               Only(Rest(msgQueue[w]), Jobs(w), OwnJobs(w, n))
               /\ In(msgQueue[w], OwnJobs(w, n))
      <3>1. LastIn(msgQueue[w], Jobs(w), OwnJobs(w, n))
        BY DEF OwnOK, Lines
      <3>2. \A S, M :
              /\ In(Rest(msgQueue[w]), S) => In(msgQueue[w], S)
              /\ Only(msgQueue[w], S, M) => Only(Rest(msgQueue[w]), S, M)
              /\ LastIn(msgQueue[w], S, M) => LastIn(Rest(msgQueue[w]), S, M)
              /\ job \in M /\ LastIn(msgQueue[w], S, M) => Only(Rest(msgQueue[w]), S, M)
              /\ job \in S => In(msgQueue[w], S)
              /\ job \in S /\ Only(msgQueue[w], S, M) => job \in M
        BY <1>1, <1>5, LineRest
      <3> QED BY <2>1, <3>1, <3>2
    <2> HIDE DEF job
    <2>7. Begins(w, n) => job.trace = n /\ Only(msgQueue'[w], Jobs(w), OwnJobs(w, n))
      BY <2>1, <2>5, <2>6 DEF OwnOK, QueueAhead
    <2>8. job.trace = n => Only(msgQueue'[w], Jobs(w), OwnJobs(w, n))
      BY <2>1, <2>5, <2>6
    <2>9. Begins(w, n) \/ In(msgQueue'[w], OwnJobs(w, n)) \/ job.trace = n =>
            Only(inbox'[w], Jobs(w), OwnJobs(w, n))
      BY <1>0, <2>1, <2>5, <2>6 DEF OwnOK, InboxAhead
    <2>10. LastIn(inbox'[w], Jobs(w), OwnJobs(w, n))
             /\ LastIn(msgQueue'[w], Jobs(w), OwnJobs(w, n))
      BY <1>0, <2>1, <2>6 DEF OwnOK, Lines
    <2> QED BY <1>0, <1>3, <2>1, <2>3, <2>7, <2>8, <2>9, <2>10, OwnTaken
  <1> QED BY <1>4, <1>5

LEMMA OwnMessage ==
  ASSUME NEW w \in WorkerTypes, JsonBefore(w), OnMessageDoes(w), NEW n, OwnOK(w, n)
  PROVE  OwnOK(w, n)'
  <1> DEFINE job == Head(inbox[w])
             queue == Append(msgQueue[w], job)
  <1>0. /\ w = "json2cpp2" /\ WorkerOK(w) /\ WorkDoes(w) /\ WorkerTypesOK(w)
        /\ ready[w] = <<>> /\ inbox[w] # <<>> /\ inbox'[w] = Tail(inbox[w])
        /\ Loops(w, queue) /\ outbox'[w] = outbox[w] /\ editor'[w] = editor[w]
    BY DEF JsonBefore, OnMessageDoes, KeepsRest, KeepsModule, WorkerOK
  <1>1. /\ inbox[w] \in Seq(Jobs(w)) /\ msgQueue[w] \in Seq(Jobs(w))
        /\ ready[w] \in Seq(Turns(w))
    BY <1>0 DEF WorkerTypesOK
  <1>2. job \in Jobs(w) /\ inbox'[w] = Rest(inbox[w])
    BY <1>0, <1>1, HeadTailProperties DEF Rest
  <1>3. \A a : ~Has(ready[w], a)
    BY <1>0, <1>1, HeadFirst
  <1>4. msgQueue[w] = <<>>
    BY <1>0, <1>3, QueueEmpty DEF WorkerOK
  <1>5. Head(queue) = job /\ queue # <<>> /\ Tail(queue) = <<>>
    BY <1>2, <1>4
  <1>6. Waits(w, job, "args") /\ msgQueue'[w] = <<>>
    BY <1>0, <1>5 DEF Loops
  <1>7. job \in OwnJobs(w, n) <=> job.trace = n
    BY <1>2 DEF OwnJobs
  <1>8. /\ Only(inbox[w], Jobs(w), OwnJobs(w, n)) =>
             Only(inbox'[w], Jobs(w), OwnJobs(w, n)) /\ job \in OwnJobs(w, n)
        /\ LastIn(inbox'[w], Jobs(w), OwnJobs(w, n))
        /\ job \in OwnJobs(w, n) => Only(inbox'[w], Jobs(w), OwnJobs(w, n))
    <2>1. LastIn(inbox[w], Jobs(w), OwnJobs(w, n))
      BY DEF OwnOK, Lines
    <2>2. \A S, M :
            /\ Only(inbox[w], S, M) => Only(Rest(inbox[w]), S, M)
            /\ LastIn(inbox[w], S, M) => LastIn(Rest(inbox[w]), S, M)
            /\ job \in M /\ LastIn(inbox[w], S, M) => Only(Rest(inbox[w]), S, M)
            /\ job \in S /\ Only(inbox[w], S, M) => job \in M
      BY <1>0, <1>1, LineRest
    <2> QED BY <1>2, <2>1, <2>2
  <1> HIDE DEF job, queue
  <1>9. \A S, M : ~In(msgQueue'[w], S) /\ Only(msgQueue'[w], S, M) /\ LastIn(msgQueue'[w], S, M)
    BY <1>6, LineEmpty
  <1>10. Begins(w, n) => job.trace = n /\ Only(inbox'[w], Jobs(w), OwnJobs(w, n))
    BY <1>7, <1>8 DEF OwnOK, InboxAhead
  <1>11. Only(outbox'[w], Results(w), RightResults(w, n))
    BY <1>0 DEF OwnOK, Made
  <1> QED BY <1>0, <1>2, <1>3, <1>6, <1>7, <1>8, <1>9, <1>10, <1>11, OwnTaken

\* Who waited for a load goes on in the same order.
LEMMA OwnLoad ==
  ASSUME NEW w \in WorkerTypes, JsonBefore(w), LoadEndsDoes(w), NEW n, OwnOK(w, n)
  PROVE  OwnOK(w, n)'
  <1>0. /\ w = "json2cpp2" /\ WorkerOK(w) /\ WorkerTypesOK(w) /\ ready[w] = <<>>
        /\ inbox'[w] = inbox[w] /\ msgQueue'[w] = msgQueue[w] /\ outbox'[w] = outbox[w]
        /\ editor'[w] = editor[w] /\ waiting'[w] = <<>>
        /\ ready'[w] = [i \in DOMAIN waiting[w] |-> Resumed(waiting[w][i], promise[w].id)]
    BY DEF JsonBefore, LoadEndsDoes, KeepsQueues, WorkerOK
  <1>1. /\ waiting[w] \in Seq(Awaits(w)) /\ ready[w] \in Seq(Turns(w))
        /\ promise[w].id \in Nat
    BY <1>0 DEF WorkerTypesOK, Promises
  <1>2. msgQueue[w] = <<>>
    <2>1. ~Has(ready[w], "next")
      BY <1>0, <1>1, HeadFirst
    <2> QED BY <1>0, <2>1, QueueEmpty DEF WorkerOK
  <1>3. /\ DOMAIN ready'[w] = DOMAIN waiting[w]
        /\ \A i \in DOMAIN waiting[w] :
             /\ waiting[w][i] \in Awaits(w)
             /\ ready'[w][i] = Resumed(waiting[w][i], promise[w].id)
    BY <1>0, <1>1, ElementOfSeq, LenProperties
  <1>4. \A a0 \in Awaits(w) :
          /\ Resumed(a0, promise[w].id).at = "resumed"
          /\ Resumed(a0, promise[w].id).job = a0.job
    BY DEF Resumed
  <1>5. \A i \in DOMAIN ready'[w] :
          /\ \A a : a # "resumed" => ready'[w][i] \notin TurnsAt(w, a)
                                     /\ ready'[w][i] \notin OwnTurns(w, a, n)
          /\ ready'[w][i] \in OwnTurns(w, "resumed", n) => waiting[w][i] \in OwnAwaits(w, n)
          /\ waiting[w][i] \in OwnAwaits(w, n) /\ ready'[w][i] \in TurnsAt(w, "resumed")
               => ready'[w][i] \in OwnTurns(w, "resumed", n)
    BY <1>3, <1>4 DEF TurnsAt, OwnTurns, OwnAwaits
  <1>6. \A a : a # "resumed" =>
          /\ ~In(ready'[w], OwnTurns(w, a, n))
          /\ \A M : Only(ready'[w], TurnsAt(w, a), M)
          /\ LastIn(ready'[w], TurnsAt(w, a), OwnTurns(w, a, n))
    BY <1>5 DEF In, Only, LastIn
  <1>7. In(ready'[w], OwnTurns(w, "resumed", n)) => In(waiting[w], OwnAwaits(w, n))
    BY <1>3, <1>5 DEF In
  <1>8. LastIn(ready'[w], TurnsAt(w, "resumed"), OwnTurns(w, "resumed", n))
    <2>1. LastIn(waiting[w], Awaits(w), OwnAwaits(w, n))
      BY DEF OwnOK, Lines
    <2> QED BY <1>3, <1>5, <2>1 DEF LastIn
  <1>9. \A S, M : ~In(waiting'[w], S) /\ LastIn(waiting'[w], S, M)
    BY <1>0, LineEmpty
  <1>10. Begins(w, n)' => Begins(w, n)
    BY <1>6, <1>7, <1>9 DEF Begins
  <1>11. Lines(w, n)'
    BY <1>0, <1>6, <1>8, <1>9 DEF OwnOK, Lines
  <1>12. InboxAhead(w, n)' /\ QueueAhead(w, n)'
    BY <1>0, <1>6, <1>10 DEF OwnOK, InboxAhead, QueueAhead
  <1>13. TurnsAhead(w, n)'
    BY <1>6 DEF TurnsAhead
  <1>14. Made(w, n)'
    BY <1>0, <1>6 DEF OwnOK, Made
  <1> QED BY <1>11, <1>12, <1>13, <1>14 DEF OwnOK

\* Every step of json2cpp2 keeps the order.
LEMMA OwnKept ==
  ASSUME NEW w \in WorkerTypes, w = "json2cpp2", WorkerOK(w), WorkDoes(w), NEW n, OwnOK(w, n)
  PROVE  OwnOK(w, n)'
  <1>0. JsonBefore(w)
    BY DEF JsonBefore
  <1>1. ~FetchEndsDoes(w) /\ ~ArgsMadeDoes(w) /\ ~ThrowsDoes(w)
    BY JsonOnly
  <1> QED BY <1>0, <1>1, OwnMessage, OwnLoad, OwnStore, OwnArgs, OwnRepost, OwnExec,
             OwnReturns, OwnPost, OwnGoesOn DEF WorkDoes

-----------------------------------------------------------------------------
(* The page's newest generation.                                           *)

\* On the page the order is that of the newest generation.
OwnInv == \A n \in Generations : mode = "page" /\ traceID = n => OwnOK("json2cpp2", n)

\* Of a generation a worker does not hold there is nothing in its lists.
LEMMA OwnNew ==
  ASSUME NEW w \in WorkerTypes, WorkerTypesOK(w), NEW n \in Generations, Held(w, n) = 0
  PROVE  OwnOK(w, n)
  <1>0. /\ inbox[w] \in Seq(Jobs(w)) /\ msgQueue[w] \in Seq(Jobs(w))
        /\ ready[w] \in Seq(Turns(w)) /\ waiting[w] \in Seq(Awaits(w))
        /\ outbox[w] \in Seq(Results(w))
    BY DEF WorkerTypesOK
  <1>1. /\ Messages(inbox[w], n) = 0 /\ Messages(msgQueue[w], n) = 0
        /\ Messages(outbox[w], n) = 0 /\ Waiters(waiting[w], n) = 0
        /\ Runners(ready[w], n) = 0
    BY CountsNat, HeldIs DEF CountsTyped, Total
  <1>2. /\ \A i \in DOMAIN inbox[w] : inbox[w][i].trace # n
        /\ \A i \in DOMAIN msgQueue[w] : msgQueue[w][i].trace # n
        /\ \A i \in DOMAIN outbox[w] : outbox[w][i].trace # n
    <2>1. \A i \in DOMAIN inbox[w] : inbox[w][i].trace = n => Messages(inbox[w], n) >= 1
      BY <1>0, MessagesCount
    <2>2. \A i \in DOMAIN msgQueue[w] :
            msgQueue[w][i].trace = n => Messages(msgQueue[w], n) >= 1
      BY <1>0, MessagesCount
    <2>3. \A i \in DOMAIN outbox[w] : outbox[w][i].trace = n => Messages(outbox[w], n) >= 1
      BY <1>0, MessagesCount
    <2> QED BY <1>1, <2>1, <2>2, <2>3
  <1>3. \A i \in DOMAIN waiting[w] : waiting[w][i].job.trace # n
    <2>1. \A i \in DOMAIN waiting[w] :
            waiting[w][i].job.trace = n => Waiters(waiting[w], n) >= 1
      BY <1>0, WaitersCount
    <2> QED BY <1>1, <2>1
  <1>4. \A i \in DOMAIN ready[w] : ready[w][i].job.trace = n => ready[w][i].at = "next"
    <2>1. \A i \in DOMAIN ready[w] :
            ready[w][i].job.trace = n /\ ready[w][i].at # "next" => Runners(ready[w], n) >= 1
      BY <1>0, RunnersCount
    <2> QED BY <1>1, <2>1
  <1>5. /\ ~In(inbox[w], OwnJobs(w, n)) /\ ~In(msgQueue[w], OwnJobs(w, n))
        /\ ~In(waiting[w], OwnAwaits(w, n))
        /\ \A a \in {"resumed", "args", "exec", "call"} : ~In(ready[w], OwnTurns(w, a, n))
    BY <1>2, <1>3, <1>4 DEF In, OwnJobs, OwnAwaits, OwnTurns
  <1>6. \A s, S, M : ~In(s, M) => LastIn(s, S, M)
    BY DEF In, LastIn
  <1>7. Lines(w, n)
    BY <1>5, <1>6 DEF Lines
  <1>8. InboxAhead(w, n) /\ QueueAhead(w, n) /\ TurnsAhead(w, n)
    BY <1>5 DEF InboxAhead, QueueAhead, TurnsAhead, Begins
  <1>9. Only(ready[w], TurnsAt(w, "returned"), RightTurns(w, n))
    <2>1. SUFFICES ASSUME NEW i \in DOMAIN ready[w], ready[w][i] \in TurnsAt(w, "returned")
                   PROVE  ready[w][i] \in RightTurns(w, n)
      BY DEF Only
    <2>2. ready[w][i] \in Turns(w) /\ ready[w][i].at = "returned"
      BY <2>1 DEF TurnsAt
    <2>3. ready[w][i].result \in Results(w)
            /\ ready[w][i].result.trace = ready[w][i].job.trace
      BY <2>2, TurnIs
    <2>4. ready[w][i].result.trace # n
      BY <1>4, <2>2, <2>3
    <2> QED BY <2>2, <2>3, <2>4 DEF RightTurns, RightResults
  <1>10. Only(outbox[w], Results(w), RightResults(w, n))
    BY <1>2 DEF Only, RightResults
  <1> QED BY <1>7, <1>8, <1>9, <1>10 DEF OwnOK, Made

\* What the main thread does to a worker: it may ask more for the newest
\* generation, and take a result.
LEMMA OwnMain ==
  ASSUME NEW w \in WorkerTypes, WorkerTypesOK(w), NEW n, OwnOK(w, n),
         msgQueue'[w] = msgQueue[w], ready'[w] = ready[w], waiting'[w] = waiting[w],
         editor'[w] = editor[w],
         inbox'[w] = inbox[w] \/ \E job \in OwnJobs(w, n) : inbox'[w] = Append(inbox[w], job),
         outbox'[w] = outbox[w] \/ (outbox[w] # <<>> /\ outbox'[w] = Tail(outbox[w]))
  PROVE  OwnOK(w, n)'
  <1>0. inbox[w] \in Seq(Jobs(w)) /\ outbox[w] \in Seq(Results(w))
    BY DEF WorkerTypesOK
  <1>1. /\ LastIn(inbox'[w], Jobs(w), OwnJobs(w, n))
        /\ Only(inbox[w], Jobs(w), OwnJobs(w, n)) => Only(inbox'[w], Jobs(w), OwnJobs(w, n))
    <2>1. LastIn(inbox[w], Jobs(w), OwnJobs(w, n))
      BY DEF OwnOK, Lines
    <2>2. ASSUME NEW job \in OwnJobs(w, n), inbox'[w] = Append(inbox[w], job)
          PROVE  /\ LastIn(inbox'[w], Jobs(w), OwnJobs(w, n))
                 /\ Only(inbox[w], Jobs(w), OwnJobs(w, n)) =>
                      Only(inbox'[w], Jobs(w), OwnJobs(w, n))
      <3>1. job \in Jobs(w)
        BY DEF OwnJobs
      <3> QED BY <1>0, <2>1, <2>2, <3>1, LineAppend
    <2> QED BY <2>1, <2>2
  <1>2. Only(outbox'[w], Results(w), RightResults(w, n))
    <2>1. Only(outbox[w], Results(w), RightResults(w, n))
      BY DEF OwnOK, Made
    <2>2. Only(Rest(outbox[w]), Results(w), RightResults(w, n))
      BY <1>0, <2>1, LineRest
    <2> QED BY <2>1, <2>2 DEF Rest
  <1>3. Lines(w, n)'
    BY <1>1 DEF OwnOK, Lines
  <1>4. InboxAhead(w, n)' /\ QueueAhead(w, n)' /\ TurnsAhead(w, n)'
    BY <1>1 DEF OwnOK, InboxAhead, QueueAhead, TurnsAhead, Begins
  <1>5. Made(w, n)'
    BY <1>2 DEF OwnOK, Made
  <1> QED BY <1>3, <1>4, <1>5 DEF OwnOK

LEMMA OwnNext ==
  ASSUME Inv, KeptInv, OwnInv, [Next]_vars
  PROVE  OwnInv'
  <1> DEFINE w == "json2cpp2"
  <1>0. /\ MainTypesOK /\ DomainsOK /\ \A v \in WorkerTypes : WorkerOK(v)
        /\ w \in WorkerTypes /\ WorkerOK(w) /\ WorkerTypesOK(w)
    BY DEF Inv, WorkersOK, WorkerOK, WorkerTypes
  <1> SUFFICES ASSUME NEW n \in Generations, mode' = "page", traceID' = n
               PROVE  OwnOK(w, n)'
    BY DEF OwnInv
  <1>1. ASSUME UNCHANGED <<mode, traceID>> PROVE OwnOK(w, n)
    BY <1>1 DEF OwnInv
  <1>2. ASSUME UNCHANGED <<mode, traceID, workVars>> PROVE OwnOK(w, n)'
    <2>1. /\ inbox' = inbox /\ msgQueue' = msgQueue /\ ready' = ready /\ waiting' = waiting
          /\ editor' = editor /\ outbox' = outbox
      BY <1>2 DEF workVars, queueVars, turnVars, moduleVars
    <2> QED BY <1>0, <1>1, <1>2, <2>1, OwnMain
  <1>3. ASSUME NEW r \in Requests, Generate(r) PROVE OwnOK(w, n)'
    BY <1>2, <1>3 DEF Generate
  <1>4. CASE InitEnds
    BY <1>2, <1>4 DEF InitEnds
  <1>5. CASE UpdateGenerated
    <2>1. /\ n = begun + 1 /\ begun \in Nat
          /\ UNCHANGED <<msgQueue, outbox, turnVars, editor>>
      BY <1>0, <1>5 DEF UpdateGenerated, MainTypesOK
    <2>2. Held(w, n) = 0
      <3>1. n > begun
        BY <2>1
      <3> QED BY <1>0, <3>1 DEF KeptInv, Due
    <2>3. OwnOK(w, n)
      BY <1>0, <2>2, OwnNew
    <2>4. inbox'[w] = inbox[w]
      BY <1>0, <1>5 DEF UpdateGenerated, DoRequest, DomainsOK, WorkerTypes
    <2> QED BY <1>0, <2>1, <2>3, <2>4, OwnMain DEF turnVars
  <1>6. CASE OnAST
    <2> DEFINE s == Head(outbox["src2json"])
               goesOn == Newest(s.trace) /\ s.usable /\ asked[s.trace].lang = "cpp"
    <2>1. /\ outbox["src2json"] # <<>>
          /\ outbox' = [outbox EXCEPT !["src2json"] = Tail(@)]
          /\ UNCHANGED <<mode, traceID, msgQueue, turnVars, editor>>
      BY <1>6 DEF OnAST
    <2>2. OwnOK(w, n) /\ outbox'[w] = outbox[w]
      BY <1>0, <1>1, <2>1 DEF DomainsOK
    <2>3. CASE ~goesOn
      <3>1. inbox' = inbox
        BY <1>6, <2>3 DEF OnAST
      <3> QED BY <1>0, <2>1, <2>2, <3>1, OwnMain DEF turnVars
    <2>4. CASE goesOn
      <3> DEFINE job == JobRequest(s.trace, s.of, "json")
      <3>1. s \in Results("src2json")
        <4>1. outbox["src2json"] \in Seq(Results("src2json"))
          BY <1>0 DEF WorkerOK, WorkerTypesOK, WorkerTypes
        <4> QED BY <2>1, <4>1, HeadTailProperties
      <3>2. DoRequest(w, job)
        BY <1>6, <2>4 DEF OnAST
      <3>3. job \in Jobs(w) /\ job.trace = s.trace
        BY <2>4, <3>1, AnswerIsJob DEF JobRequest
      <3>4. s.trace = n
        BY <2>1, <2>4 DEF Newest
      <3> HIDE DEF job
      <3>5. job \in OwnJobs(w, n) /\ inbox'[w] = Append(inbox[w], job)
        BY <1>0, <3>2, <3>3, <3>4 DEF OwnJobs, DoRequest, DomainsOK
      <3> QED BY <1>0, <2>1, <2>2, <3>5, OwnMain DEF turnVars
    <2> QED BY <2>3, <2>4
  <1>7. CASE OnCode
    <2>1. /\ outbox[w] # <<>> /\ outbox'[w] = Tail(outbox[w])
          /\ UNCHANGED <<mode, traceID, inbox, msgQueue, turnVars, editor>>
      BY <1>0, <1>7 DEF OnCode, DomainsOK, moduleVars
    <2> QED BY <1>0, <1>1, <2>1, OwnMain DEF turnVars
  <1>8. ASSUME NEW v \in WorkerTypes, Work(v), UNCHANGED mainVars PROVE OwnOK(w, n)'
    <2>1. OthersStay(v) /\ WorkDoes(v)
      BY <1>0, <1>8, OneWorker
    <2>2. OwnOK(w, n)
      BY <1>1, <1>8 DEF mainVars
    <2>3. CASE v = w
      BY <1>0, <2>1, <2>2, <2>3, OwnKept
    <2>4. CASE v # w
      <3>1. Stays(w)
        BY <1>0, <2>1, <2>4 DEF OthersStay
      <3> QED BY <1>0, <2>2, <3>1, OwnMain DEF Stays
    <2> QED BY <2>3, <2>4
  <1>9. CASE UNCHANGED vars
    BY <1>2, <1>9 DEF vars, mainVars
  <1> QED BY <1>3, <1>4, <1>5, <1>6, <1>7, <1>8, <1>9 DEF Next, Main

LEMMA OwnInit == Init => OwnInv
  BY GenerationsAreNumbers DEF Init, OwnInv, None

\* What is shown after a step, when it is code.
LEMMA ShownIs ==
  ASSUME Inv, OwnInv, [Next]_vars, shown' # shown, shown'.value.kind = "code"
  PROVE  shown'.by = traceID /\ shown'.value.of = traceID
  <1>0. /\ MainTypesOK /\ DomainsOK /\ \A v \in WorkerTypes : WorkerTypesOK(v)
    BY DEF Inv, WorkersOK, WorkerOK
  \* A result is shown on the page, and code only of the newest generation.
  <1>1. ASSUME NEW res, OnResult(res.trace, Outcome(res))
        PROVE  /\ mode = "page" /\ shown'.by = res.trace /\ res.trace = traceID
               /\ res.usable /\ shown'.value.of = res.of
    <2>1. mode = "page" /\ shown' = [by |-> res.trace, value |-> Outcome(res)]
      BY <1>1 DEF OnResult
    <2>2. Newest(res.trace) /\ res.usable /\ Outcome(res) = Code(res.of)
      BY <2>1 DEF Outcome, Code, Default, Error
    <2> QED BY <2>1, <2>2 DEF Newest, Code
  <1>2. ~\E r \in Requests : Generate(r)
    BY DEF Generate
  <1>3. ~InitEnds
    BY DEF InitEnds
  <1>4. ~UpdateGenerated
    <2>1. SUFFICES ASSUME UpdateGenerated, OnResult(begun + 1, Default) PROVE FALSE
      BY DEF UpdateGenerated
    <2> QED BY <2>1 DEF OnResult, Default
  <1>5. CASE OnAST
    <2> DEFINE s == Head(outbox["src2json"])
    <2>1. outbox["src2json"] # <<>> /\ OnResult(s.trace, Outcome(s))
      BY <1>5 DEF OnAST
    <2>2. s \in Results("src2json")
      <3>1. outbox["src2json"] \in Seq(Results("src2json"))
        BY <1>0 DEF WorkerTypesOK, WorkerTypes
      <3> QED BY <2>1, <3>1, HeadTailProperties
    <2> HIDE DEF s
    <2>3. shown'.by = s.trace /\ s.trace = traceID /\ s.usable /\ shown'.value.of = s.of
      BY <1>1, <2>1
    <2> QED BY <2>2, <2>3 DEF Results
  <1>6. CASE OnCode
    <2> DEFINE w == "json2cpp2"
               res == Head(outbox[w])
    <2>1. outbox[w] # <<>> /\ OnResult(res.trace, Outcome(res))
      BY <1>6 DEF OnCode
    <2>2. res \in Results(w) /\ outbox[w] \in Seq(Results(w))
      <3>1. outbox[w] \in Seq(Results(w))
        BY <1>0 DEF WorkerTypesOK, WorkerTypes
      <3> QED BY <2>1, <3>1, HeadTailProperties
    <2>3. /\ mode = "page" /\ shown'.by = res.trace /\ res.trace = traceID
          /\ res.usable /\ shown'.value.of = res.of
      BY <1>1, <2>1
    <2>4. traceID \in Generations
      BY <2>2, <2>3 DEF Results
    <2>5. Only(outbox[w], Results(w), RightResults(w, traceID))
      BY <2>3, <2>4 DEF OwnInv, OwnOK, Made
    <2>6. res \in RightResults(w, traceID)
      BY <2>1, <2>2, <2>5, LineRest
    <2> QED BY <2>3, <2>6 DEF RightResults
  <1>7. ~\E w \in WorkerTypes : Work(w) /\ UNCHANGED mainVars
    BY DEF mainVars
  <1>8. ~UNCHANGED vars
    BY DEF vars, mainVars
  <1> QED BY <1>2, <1>3, <1>4, <1>5, <1>6, <1>7, <1>8 DEF Next, Main

\* On the page no outdated code is shown, nor code made of another source, although
\* the jobs that wait for one load of json2cpp2 share /editor.json: the newest
\* generation's writes it last before it is compiled (generator_service.ts,
\* em_work_ctx.ts).
THEOREM ShownCorrect == Spec => PageShowsOwn
  <1>1. Init => Inv /\ KeptInv /\ OwnInv
    BY InvInit, KeptInit, OwnInit
  <1>2. Inv /\ KeptInv /\ OwnInv /\ [Next]_vars => (Inv /\ KeptInv /\ OwnInv)'
    BY InvNext, KeptNext, OwnNext
  <1>3. Inv /\ KeptInv /\ OwnInv /\ [Next]_vars =>
          [shown' # shown /\ shown'.value.kind = "code" =>
             shown'.by = traceID /\ shown'.value.of = traceID]_vars
    BY ShownIs
  <1> QED BY <1>1, <1>2, <1>3, PTL DEF Spec, PageShowsOwn
=============================================================================
