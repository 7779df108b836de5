------------------------------ MODULE WorkContext ------------------------------
(***************************************************************************)
(* The workers of the web playground that run a compiled tool              *)
(* (web/dev/src/s2j/em_work_ctx.ts with request_queue.ts): src2json parses *)
(* a source, json2cpp2 makes code of the JSON it prints.                   *)
(*                                                                         *)
(* A worker is one thread with an event loop.  A message, the end of a     *)
(* load and the end of a fetch are taken only when no continuation of an   *)
(* `await` is ready; ready continuations run in the order in which they    *)
(* became ready.  Every message starts a loop of its own                   *)
(* (#handleRequest), so several jobs are under way at once and take turns  *)
(* at each await.  An action is what runs between two awaits.              *)
(*                                                                         *)
(* A source or a JSON text is the number of the generation it came from.   *)
(***************************************************************************)
EXTENDS Naturals, Sequences, FiniteSets

CONSTANTS
    MaxReloads,     \* bound: modules a worker loads again after a trap
    LoadsMayFail,   \* the factory's promise may be rejected
    SharedMemory    \* SharedArrayBuffer exists: a generation can be cancelled

ASSUME WorkAssumption ==
    MaxReloads \in Nat /\ LoadsMayFail \in BOOLEAN /\ SharedMemory \in BOOLEAN

WorkerTypes == {"src2json", "json2cpp2"}

None == 0       \* no job, no text, no module

VARIABLES
    inbox,      \* messages the event loop has not taken: Seq(JobRequest)
    msgQueue,   \* Seq(JobRequest)
    ready,      \* continuations that may run, first come first served
    waiting,    \* continuations waiting for #promise
    fetching,   \* jobs whose imports are being fetched, and for which module
    promise,    \* [id, state]: the module being loaded, or loaded last
    mod,        \* the id of the module in #mod, None when undefined
    editor,     \* what /editor.json of that module holds
    capture,    \* #textCapture.jobId
    outbox,     \* results posted: Seq(JobResult)
    cancelled   \* trace ids whose shared flag is set

queueVars == <<inbox, msgQueue, outbox>>
turnVars == <<ready, waiting, fetching>>
moduleVars == <<promise, mod, editor>>
workVars == <<queueVars, turnVars, moduleVars, capture, cancelled>>

\* A request: the generation it is for and the text.  `form` is what matters
\* of the text and the language: "tokens" asks for the lexer only, "import"
\* names a file to fetch, "malformed" holds half of a surrogate pair.
JobRequest(g, of, form) == [trace |-> g, of |-> of, form |-> form]
\* A result: `usable` when its stdout is a text to go on with.
JobResult(job, of, usable) == [trace |-> job.trace, of |-> of, usable |-> usable]
Failure(job) == JobResult(job, None, FALSE)

At(job, at) == [job |-> job, at |-> at]
Awaiting(job, then) == [job |-> job, then |-> then]
Returned(job, r) == [job |-> job, at |-> "returned", result |-> r]
Fetching(job, id) == [job |-> job, for |-> id]
Resumed(a, id) == [job |-> a.job, at |-> "resumed", then |-> a.then, of |-> id]

WorkInit ==
    /\ inbox = [w \in WorkerTypes |-> <<>>]
    /\ msgQueue = [w \in WorkerTypes |-> <<>>]
    /\ ready = [w \in WorkerTypes |-> <<>>]
    /\ waiting = [w \in WorkerTypes |-> <<>>]
    /\ fetching = [w \in WorkerTypes |-> {}]
    /\ promise = [w \in WorkerTypes |-> [id |-> 1,
                    state |-> IF w = "src2json" THEN "loading" ELSE "absent"]]
    /\ mod = [w \in WorkerTypes |-> None]
    /\ editor = [w \in WorkerTypes |-> None]
    /\ capture = [w \in WorkerTypes |-> None]
    /\ outbox = [w \in WorkerTypes |-> <<>>]
    /\ cancelled = {}

Turn(w) == Head(ready[w])
Others(w) == Tail(ready[w])

\* #waitForPromise: with a module the await lasts one turn; without one it
\* lasts until #promise is settled and the module was stored.
WaitForPromise(w, turns, job, then) ==
    IF mod[w] # None
    THEN /\ ready' = [ready EXCEPT ![w] = Append(turns, At(job, then))]
         /\ UNCHANGED waiting
    ELSE IF promise[w].state = "loading"
    THEN /\ waiting' = [waiting EXCEPT ![w] = Append(@, Awaiting(job, then))]
         /\ ready' = [ready EXCEPT ![w] = turns]
    ELSE /\ ready' = [ready EXCEPT ![w] =
                        Append(turns, Resumed(Awaiting(job, then), promise[w].id))]
         /\ UNCHANGED waiting

\* The head of the loop in #handleRequest, with `queue` and the turns after
\* this one: the next request is taken, or the loop ends.
Loop(w, queue, turns) ==
    IF queue = <<>>
    THEN /\ msgQueue' = [msgQueue EXCEPT ![w] = queue]
         /\ ready' = [ready EXCEPT ![w] = turns]
         /\ UNCHANGED waiting
    ELSE /\ msgQueue' = [msgQueue EXCEPT ![w] = Tail(queue)]
         /\ WaitForPromise(w, turns, Head(queue), "args")

Post(w, result) == outbox' = [outbox EXCEPT ![w] = Append(@, result)]

\* onmessage: the request is queued and a new loop starts at once.
OnMessage(w) ==
    /\ ready[w] = <<>> /\ inbox[w] # <<>>
    /\ inbox' = [inbox EXCEPT ![w] = Tail(@)]
    /\ Loop(w, Append(msgQueue[w], Head(inbox[w])), <<>>)
    /\ UNCHANGED <<outbox, fetching, moduleVars, capture, cancelled>>

\* Wrong: nobody is told of a load that fails.
LoadEndsMutant(w) ==
    /\ ready[w] = <<>> /\ promise[w].state = "loading"
    /\ \E s \in {"loaded"} \cup (IF LoadsMayFail THEN {"failed"} ELSE {}) :
         /\ promise' = [promise EXCEPT ![w].state = s]
         /\ IF s = "failed" THEN UNCHANGED <<ready, waiting>>
            ELSE /\ ready' = [ready EXCEPT ![w] =
                      [i \in DOMAIN waiting[w] |-> Resumed(waiting[w][i], promise[w].id)]]
                 /\ waiting' = [waiting EXCEPT ![w] = <<>>]
    /\ UNCHANGED <<queueVars, fetching, mod, editor, capture, cancelled>>

\* The factory's promise is settled: who waits for it may go on.
LoadEnds(w) ==
    /\ ready[w] = <<>> /\ promise[w].state = "loading"
    /\ \E s \in {"loaded"} \cup (IF LoadsMayFail THEN {"failed"} ELSE {}) :
         promise' = [promise EXCEPT ![w].state = s]
    /\ ready' = [ready EXCEPT ![w] =
         [i \in DOMAIN waiting[w] |-> Resumed(waiting[w][i], promise[w].id)]]
    /\ waiting' = [waiting EXCEPT ![w] = <<>>]
    /\ UNCHANGED <<queueVars, fetching, mod, editor, capture, cancelled>>

\* The second half of #waitForPromise: the module is stored, or the await
\* throws.
StoreModule(w) ==
    /\ ready[w] # <<>> /\ Turn(w).at = "resumed"
    /\ LET failed == Turn(w).of = promise[w].id /\ promise[w].state = "failed"
       IN /\ mod' = IF failed THEN mod ELSE [mod EXCEPT ![w] = Turn(w).of]
          /\ ready' = [ready EXCEPT ![w] = Append(Others(w),
               At(Turn(w).job, IF ~failed THEN Turn(w).then
                               ELSE IF Turn(w).then = "args" THEN "thrown"
                               ELSE "load failed"))]
    /\ UNCHANGED <<queueVars, waiting, fetching, promise, editor, capture, cancelled>>

\* makeArgs is called with #mod.  json2cpp2's stores the text in /editor.json;
\* src2json's passes it as an argument, after it fetched the imports when there
\* are any.  It touches the module's file system unless only the lexer is
\* asked for, which throws when #mod is undefined.
MakeArgs(w) ==
    /\ ready[w] # <<>> /\ Turn(w).at = "args"
    /\ LET job == Turn(w).job IN
         /\ editor' = IF w = "json2cpp2" THEN [editor EXCEPT ![w] = job.of] ELSE editor
         /\ fetching' = IF job.form = "import"
                        THEN [fetching EXCEPT ![w] = @ \cup {Fetching(job, mod[w])}]
                        ELSE fetching
         /\ ready' = [ready EXCEPT ![w] =
              CASE job.form = "import" -> Others(w)
                [] job.form \in {"json", "tokens"} -> Append(Others(w), At(job, "exec"))
                [] OTHER -> Append(Others(w),
                     At(job, IF mod[w] = None THEN "no module" ELSE "args made"))]
    /\ UNCHANGED <<queueVars, waiting, promise, mod, capture, cancelled>>

FetchEnds(w) ==
    /\ ready[w] = <<>>
    /\ \E f \in fetching[w] :
         /\ fetching' = [fetching EXCEPT ![w] = @ \ {f}]
         /\ \E next \in {"thrown"} \cup (IF f.for = None THEN {} ELSE {"args made"}) :
              ready' = [ready EXCEPT ![w] = Append(@, At(f.job, next))]
    /\ UNCHANGED <<queueVars, waiting, moduleVars, capture, cancelled>>

\* src2json's makeArgs is an async function: its await lasts one more turn.
ArgsMade(w) ==
    /\ ready[w] # <<>> /\ Turn(w).at \in {"args made", "no module"}
    /\ ready' = [ready EXCEPT ![w] = Append(Others(w), At(Turn(w).job,
         IF Turn(w).at = "no module" THEN "thrown" ELSE "exec"))]
    /\ UNCHANGED <<queueVars, waiting, fetching, moduleVars, capture, cancelled>>

\* Wrong: #exec returns and forgets the request.
RepostMutant(w) ==
    /\ ready[w] # <<>> /\ Turn(w).at = "exec" /\ capture[w] # None
    /\ ready' = [ready EXCEPT ![w] = Append(Others(w), At(Turn(w).job, "next"))]
    /\ UNCHANGED <<queueVars, waiting, fetching, moduleVars, capture, cancelled>>

\* #exec while another job runs: the request goes back to the queue.
Repost(w) ==
    /\ ready[w] # <<>> /\ Turn(w).at = "exec" /\ capture[w] # None
    /\ msgQueue' = [msgQueue EXCEPT ![w] = Append(@, Turn(w).job)]
    /\ ready' = [ready EXCEPT ![w] = Append(Others(w), At(Turn(w).job, "next"))]
    /\ UNCHANGED <<inbox, outbox, waiting, fetching, moduleVars, capture, cancelled>>

\* Wrong: #exec does not look whether a job runs.
ExecMutant(w) ==
    /\ ready[w] # <<>> /\ Turn(w).at = "exec"
    /\ capture' = [capture EXCEPT ![w] = Turn(w).job.trace]
    /\ WaitForPromise(w, Others(w), Turn(w).job, "call")
    /\ UNCHANGED <<queueVars, fetching, moduleVars, cancelled>>

\* #exec up to the await in #callEmscriptenMain.
Exec(w) ==
    /\ ready[w] # <<>> /\ Turn(w).at = "exec" /\ capture[w] = None
    /\ capture' = [capture EXCEPT ![w] = Turn(w).job.trace]
    /\ WaitForPromise(w, Others(w), Turn(w).job, "call")
    /\ UNCHANGED <<queueVars, fetching, moduleVars, cancelled>>

\* encodeURIComponent throws on a malformed text, before the try block.
CannotEncode(w) ==
    /\ ready[w] # <<>> /\ Turn(w).at = "call" /\ Turn(w).job.form = "malformed"
    /\ ready' = [ready EXCEPT ![w] = Append(Others(w), At(Turn(w).job, "throws"))]
    /\ UNCHANGED <<queueVars, waiting, fetching, moduleVars, capture, cancelled>>

Returns(w, of, usable) ==
    ready' = [ready EXCEPT ![w] = Append(Others(w),
                Returned(Turn(w).job, JobResult(Turn(w).job, of, usable)))]

\* What the tool compiles: json2cpp2 what /editor.json holds now.
Input(w) == IF w = "json2cpp2" THEN editor[w] ELSE Turn(w).job.of

\* The tool runs to its end.  A cancelled trace ends it early.
CallMain(w) ==
    /\ ready[w] # <<>> /\ Turn(w).at = "call" /\ Turn(w).job.form # "malformed"
    /\ \E usable \in {FALSE} \cup {Turn(w).job.trace \notin cancelled /\ Input(w) # None} :
         Returns(w, IF usable THEN Input(w) ELSE None, usable)
    /\ UNCHANGED <<queueVars, waiting, fetching, moduleVars, capture, cancelled>>

\* Wrong: #initModule leaves the old module in #mod.
TrapMutant(w) ==
    /\ ready[w] # <<>> /\ Turn(w).at = "call" /\ Turn(w).job.form # "malformed"
    /\ Turn(w).job.trace \notin cancelled
    /\ promise[w].id <= MaxReloads
    /\ promise' = [promise EXCEPT ![w] = [id |-> @.id + 1, state |-> "loading"]]
    /\ Returns(w, None, FALSE)
    /\ UNCHANGED <<queueVars, waiting, fetching, mod, editor, capture, cancelled>>

\* The tool traps: the module is loaded again, with an empty file system.  What
\* it had printed is posted, and may do.
Trap(w) ==
    /\ ready[w] # <<>> /\ Turn(w).at = "call" /\ Turn(w).job.form # "malformed"
    /\ Turn(w).job.trace \notin cancelled
    /\ promise[w].id <= MaxReloads
    /\ promise' = [promise EXCEPT ![w] = [id |-> @.id + 1, state |-> "loading"]]
    /\ mod' = [mod EXCEPT ![w] = None]
    /\ editor' = [editor EXCEPT ![w] = None]
    /\ \E usable \in {FALSE} \cup {Input(w) # None} :
         Returns(w, IF usable THEN Input(w) ELSE None, usable)
    /\ UNCHANGED <<queueVars, waiting, fetching, capture, cancelled>>

\* The rest of #exec.
PostResult(w) ==
    /\ ready[w] # <<>> /\ Turn(w).at = "returned"
    /\ Post(w, Turn(w).result)
    /\ capture' = [capture EXCEPT ![w] = None]
    /\ ready' = [ready EXCEPT ![w] = Append(Others(w), At(Turn(w).job, "next"))]
    /\ UNCHANGED <<inbox, msgQueue, waiting, fetching, moduleVars, cancelled>>

\* An exception leaves #callEmscriptenMain, then #exec; the capture is not
\* cleared.
LeaveExec(w) ==
    /\ ready[w] # <<>> /\ Turn(w).at \in {"load failed", "throws"}
    /\ ready' = [ready EXCEPT ![w] = Append(Others(w),
         At(Turn(w).job, IF Turn(w).at = "throws" THEN "thrown" ELSE "throws"))]
    /\ UNCHANGED <<queueVars, waiting, fetching, moduleVars, capture, cancelled>>

\* #handleRequest catches it, posts it and goes on.
Catch(w) ==
    /\ ready[w] # <<>> /\ Turn(w).at = "thrown"
    /\ Post(w, Failure(Turn(w).job))
    /\ Loop(w, msgQueue[w], Others(w))
    /\ UNCHANGED <<inbox, fetching, moduleVars, capture, cancelled>>

\* Wrong: a loop handles the one request it was started for.
NextRequestMutant(w) ==
    /\ ready[w] # <<>> /\ Turn(w).at = "next"
    /\ ready' = [ready EXCEPT ![w] = Others(w)]
    /\ UNCHANGED <<queueVars, waiting, fetching, moduleVars, capture, cancelled>>

\* #exec has returned: the loop goes on.
NextRequest(w) ==
    /\ ready[w] # <<>> /\ Turn(w).at = "next"
    /\ Loop(w, msgQueue[w], Others(w))
    /\ UNCHANGED <<inbox, outbox, fetching, moduleVars, capture, cancelled>>

\* What one worker does.
Work(w) ==
    \/ OnMessage(w) \/ LoadEnds(w) \/ StoreModule(w)
    \/ MakeArgs(w) \/ FetchEnds(w) \/ ArgsMade(w)
    \/ Repost(w) \/ Exec(w) \/ CannotEncode(w) \/ CallMain(w) \/ Trap(w)
    \/ PostResult(w) \/ LeaveExec(w) \/ Catch(w) \/ NextRequest(w)
=============================================================================
