------------------------------ MODULE Playground ------------------------------
(***************************************************************************)
(* The main thread of the web playground, and of the HTTP and MCP server   *)
(* made from it (web/dev/src/s2j, stores, server): GeneratorService and    *)
(* updateGenerated send a source to the worker src2json and the JSON that  *)
(* comes back to json2cpp2.                                                *)
(*                                                                         *)
(* On the page all generations share one UpdateTracer: a new one cancels   *)
(* the one before, whose result is dropped.  The server gives every        *)
(* request a tracer of its own.  The other generators follow the path of   *)
(* json2cpp2.                                                              *)
(*                                                                         *)
(* Generation g is the g-th call of generate(); its source is named g.     *)
(***************************************************************************)
EXTENDS WorkContext

CONSTANTS
    MaxGenerations,     \* bound: calls of generate()
    Modes,              \* who uses the service: "page", "server"
    Requests,           \* what can be asked: records [source, lang]
    Scripts             \* bound: what is asked in a run, so far and in all

ASSUME PlaygroundAssumption ==
    /\ MaxGenerations \in Nat
    /\ Modes \subseteq {"page", "server"}
    /\ Requests \subseteq [source : {"plain", "import", "malformed", "empty"},
                           lang : {"tokens", "json ast", "cpp"}]
    /\ \A s \in Scripts : s \in Seq(Requests) /\ Len(s) <= MaxGenerations

Generations == 1..MaxGenerations

VARIABLES
    mode,       \* who uses the service
    asked,      \* the calls of generate(): Seq(Requests)
    initPromise, \* of init(): "pending" | "fulfilled" | "rejected"
    begun,      \* the calls that are past `await this.init()`
    stage,      \* [Generations -> "init" | "ast" | "code" | "done"]
    answer,     \* [Generations -> ...]: what onResult was called with
    traceID,    \* the page's tracer: its newest generation, None at first
    generating, \* the flag of the page's store
    shown       \* its result: [by, value]

mainVars == <<mode, asked, initPromise, begun, stage, answer, traceID, generating, shown>>
vars == <<mainVars, workVars>>

\* Not editorAlreadyUpdated: a tracer used once has nothing newer.
Newest(g) == mode = "server" \/ traceID = g

\* What onResult is given: a text made of source `of`, the default text, or
\* an error message.
Code(of) == [kind |-> "code", of |-> of]
Default == [kind |-> "default", of |-> None]
Error == [kind |-> "error", of |-> None]
Unset == [kind |-> "unset", of |-> None]

Init ==
    /\ WorkInit
    /\ mode \in Modes
    /\ asked = <<>> /\ begun = 0
    /\ initPromise = IF mode = "server" THEN "fulfilled" ELSE "pending"
    /\ stage = [g \in Generations |-> "init"]
    /\ answer = [g \in Generations |-> Unset]
    /\ traceID = None
    /\ generating = FALSE
    /\ shown = [by |-> None, value |-> Unset]

\* Calls that wait for init() go on before the next event.  Once it is rejected
\* they only throw, and every later call: the promise is kept, and the await is
\* before the try block.
Idle == ~(initPromise = "fulfilled" /\ begun < Len(asked))

\* generate() of the store, or of a request to the server.
Generate(r) ==
    /\ Idle /\ Append(asked, r) \in Scripts
    /\ asked' = Append(asked, r)
    /\ generating' = (mode = "page")
    /\ UNCHANGED <<mode, initPromise, begun, stage, answer, traceID, shown, workVars>>

\* The scripts of the other workers were imported, or one was not; the start of
\* the page, or the first call, began it.  A server that is up has done it.
InitEnds ==
    /\ initPromise = "pending"
    /\ initPromise' \in {"fulfilled"} \cup (IF LoadsMayFail THEN {"rejected"} ELSE {})
    /\ UNCHANGED <<mode, asked, begun, stage, answer, traceID, generating, shown, workVars>>

\* generate() ends: the page's store takes the result.
OnResult(g, value) ==
    /\ stage' = [stage EXCEPT ![g] = "done"]
    /\ answer' = [answer EXCEPT ![g] = value]
    /\ IF mode = "page"
       THEN generating' = FALSE /\ shown' = [by |-> g, value |-> value]
       ELSE UNCHANGED <<generating, shown>>

\* What a worker's result is to the caller: an outdated one is dropped.
Outcome(res) ==
    IF ~Newest(res.trace) THEN Default ELSE IF res.usable THEN Code(res.of) ELSE Error

\* getWorker and doRequest: the worker is created on first use.
DoRequest(w, request) ==
    /\ inbox' = [inbox EXCEPT ![w] = Append(@, request)]
    /\ promise' = [promise EXCEPT ![w].state = IF @ = "absent" THEN "loading" ELSE @]

\* updateGenerated up to its first await.
UpdateGenerated ==
    /\ initPromise = "fulfilled" /\ begun < Len(asked)
    /\ begun' = begun + 1
    /\ LET g == begun + 1
       IN /\ IF mode = "server" THEN UNCHANGED <<traceID, cancelled>>
             ELSE /\ traceID' = g
                  /\ cancelled' = IF SharedMemory /\ traceID # None
                                  THEN cancelled \cup {traceID} ELSE cancelled
          /\ IF asked[g].source = "empty"
             THEN OnResult(g, Default) /\ UNCHANGED <<inbox, promise>>
             ELSE /\ stage' = [stage EXCEPT ![g] = "ast"]
                  /\ DoRequest("src2json", JobRequest(g, g,
                        IF asked[g].lang = "tokens" /\ asked[g].source # "malformed"
                        THEN "tokens" ELSE asked[g].source))
                  /\ UNCHANGED <<answer, generating, shown>>
    /\ UNCHANGED <<mode, asked, initPromise, msgQueue, outbox, turnVars, mod, editor, capture>>

\* A result of src2json arrives.
OnAST ==
    /\ Idle /\ outbox["src2json"] # <<>>
    /\ outbox' = [outbox EXCEPT !["src2json"] = Tail(@)]
    /\ LET s == Head(outbox["src2json"])
           g == s.trace
           goesOn == Newest(g) /\ s.usable /\ asked[g].lang = "cpp"
       IN IF goesOn
          THEN /\ stage' = [stage EXCEPT ![g] = "code"]
               /\ DoRequest("json2cpp2", JobRequest(g, s.of, "json"))
               /\ UNCHANGED <<answer, generating, shown>>
          ELSE /\ OnResult(g, Outcome(s))
               /\ UNCHANGED <<inbox, promise>>
    /\ UNCHANGED <<mode, asked, initPromise, begun, traceID, msgQueue, turnVars, mod, editor,
                   capture, cancelled>>

\* Wrong: the tracer is asked after the first await only.
OnCodeMutant ==
    /\ Idle /\ outbox["json2cpp2"] # <<>>
    /\ outbox' = [outbox EXCEPT !["json2cpp2"] = Tail(@)]
    /\ LET res == Head(outbox["json2cpp2"])
       IN OnResult(res.trace, IF res.usable THEN Code(res.of) ELSE Error)
    /\ UNCHANGED <<mode, asked, initPromise, begun, traceID, inbox, msgQueue, turnVars,
                   moduleVars, capture, cancelled>>

\* A result of json2cpp2 arrives: the second half of handleLanguage.
OnCode ==
    /\ Idle /\ outbox["json2cpp2"] # <<>>
    /\ outbox' = [outbox EXCEPT !["json2cpp2"] = Tail(@)]
    /\ LET res == Head(outbox["json2cpp2"])
       IN OnResult(res.trace, Outcome(res))
    /\ UNCHANGED <<mode, asked, initPromise, begun, traceID, inbox, msgQueue, turnVars, moduleVars,
                   capture, cancelled>>

Main == InitEnds \/ UpdateGenerated \/ OnAST \/ OnCode

Next ==
    \/ \E r \in Requests : Generate(r)
    \/ Main
    \/ \E w \in WorkerTypes : Work(w) /\ UNCHANGED mainVars

\* Threads run; loads and fetches end in time, in one way or the other.
Spec ==
    /\ Init /\ [][Next]_vars
    /\ WF_vars(Main)
    /\ \A w \in WorkerTypes : WF_vars(Work(w) /\ UNCHANGED mainVars)
-----------------------------------------------------------------------------
(* Properties *)

\* The request of g, or its result, as often as worker w holds it.
Held(w, g) ==
    LET In(s) == Cardinality({i \in DOMAIN s : s[i].trace = g})
        Turns(s) == Cardinality({i \in DOMAIN s : s[i].job.trace = g})
    IN In(inbox[w]) + In(msgQueue[w]) + In(outbox[w]) + Turns(waiting[w])
         + Cardinality({i \in DOMAIN ready[w] :
                          ready[w][i].job.trace = g /\ ready[w][i].at # "next"})
         + Cardinality({f \in fetching[w] : f.job.trace = g})

\* No request is lost or handled twice, however often it is put back into the
\* queue and whatever traps: while a generation waits for a worker, that
\* worker holds its request or its result once, and the other one nothing.
RequestKept ==
    \A g \in Generations, w \in WorkerTypes :
        Held(w, g) = IF \/ stage[g] = "ast" /\ w = "src2json"
                        \/ stage[g] = "code" /\ w = "json2cpp2"
                     THEN 1 ELSE 0

\* A module prints into the one #textCapture: only the job whose id is there
\* is inside #exec.
OutputBelongs ==
    \A w \in WorkerTypes :
        /\ \A i \in DOMAIN ready[w] :
             LET turn == ready[w][i] IN
             turn.at \in {"call", "returned", "load failed", "throws"}
               \/ (turn.at = "resumed" /\ turn.then = "call")
               => turn.job.trace = capture[w]
        /\ \A i \in DOMAIN waiting[w] :
             waiting[w][i].then = "call" => waiting[w][i].job.trace = capture[w]

\* Where makeArgs and ccall use #mod it is never a module that has trapped;
\* where it is called, and where json2cpp2's makeArgs writes /editor.json, it
\* is there, and json2cpp2 finds an /editor.json in it.
ModuleAtHand ==
    \A w \in WorkerTypes :
        ready[w] # <<>> /\ Turn(w).at \in {"args", "call"} =>
            /\ mod[w] # None => mod[w] = promise[w].id /\ promise[w].state = "loaded"
            /\ Turn(w).at = "call" \/ w = "json2cpp2" => mod[w] # None
            /\ (w = "json2cpp2" /\ Turn(w).at = "call") => editor[w] # None

\* A worker that takes its next event with its module loaded has left nothing
\* behind: no request without a loop to handle it, no one waiting for a
\* promise that is settled.  So only requests that waited for one load, or
\* for a fetch, take turns.
RunsToEnd ==
    \A w \in WorkerTypes :
        ready[w] = <<>> /\ promise[w].state = "loaded" =>
            /\ msgQueue[w] = <<>> /\ waiting[w] = <<>>
            /\ w = "json2cpp2" => capture[w] = None

\* On the page no outdated code is shown, nor code made of another source:
\* what passes the tracer's tests is the newest generation's, although requests
\* that wait for one load share /editor.json.
PageShowsOwn ==
    [][shown' # shown /\ shown'.value.kind = "code" =>
         shown'.by = traceID /\ shown'.value.of = traceID]_vars

AllDone == \A g \in DOMAIN asked : stage[g] = "done"
Unencodable == \E g \in DOMAIN asked : asked[g].source = "malformed"

\* Once init() is fulfilled every call of generate() gets its result, whatever
\* traps or fails to load, unless a source has no UTF-8 form: no job waits for
\* ever for a load, a capture or a loop.  (After a source that cannot be encoded
\* nothing takes the capture back: CannotEncode.  A rejected init() is kept and
\* awaited outside the try block, generator_service.ts:66 and 130: then no call
\* ever gets a result.)
Settles == []<>(AllDone \/ Unencodable \/ initPromise = "rejected")

\* "Run code generation for the given source and language"
\* (generator_service.ts:111): what a caller is given was made of its source.
AnswerIsOwn ==
    \A g \in Generations : answer[g].kind = "code" => answer[g].of = g
=============================================================================
