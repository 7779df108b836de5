--------------------------- MODULE LanguageServer ---------------------------
(***************************************************************************)
(* The language server (lsp/server/src/server.ts) and one document of its  *)
(* client.  Opening the document, asking for its tokens and, while it has  *)
(* no tree yet, every other request start src2json on the text of that     *)
(* moment; the tree goes to the DocumentInfo the job began with.           *)
(*                                                                         *)
(* The server is one thread.  An action is an event and what follows it up *)
(* to the next await that has to wait: for the client's configuration, or  *)
(* for a process.  Sessions are the times the document is opened; they,    *)
(* configurations and jobs are numbered as they come.  A change of the     *)
(* text touches nothing the server keeps.  A job takes the text of the     *)
(* moment it begins, so a tree is as new as the number of its job.         *)
(***************************************************************************)
EXTENDS Naturals, Sequences

CONSTANTS
    MaxJobs,        \* bound: parses on opening, and requests of the client
    MaxConfigs      \* bound: changes of the configuration

ASSUME ServerAssumption == MaxJobs \in Nat /\ MaxConfigs \in Nat

VARIABLES
    configurable,   \* hasConfigurationCapability
    config,         \* the client's configuration: one more than its changes
    programs,       \* the configurations whose path can be spawned
    sessions,       \* the number of times the document was opened
    open,           \* it is in `documents`, as of the last of them
    infos,          \* every DocumentInfo made: [session, file, node]
    info,           \* the document's entry in documentInfos, or None
    asked,          \* every getConfiguration: the configuration answered, or None
    setting,        \* the document's entry in documentSettings, or None
    jobs            \* parses and requests, in the order they began

caches == <<infos, info, asked, setting>>
vars == <<configurable, config, programs, sessions, open, caches, jobs>>

None == 0

Init ==
    /\ configurable \in BOOLEAN
    /\ config = 1 /\ programs \in SUBSET (1..(MaxConfigs + 1))
    /\ sessions = 0 /\ open = FALSE
    /\ infos = <<>> /\ info = None
    /\ asked = <<>> /\ setting = None
    /\ jobs = <<>>

\* `since` is the configuration when a job began, `exe` the one its processes
\* are started with.  A tree is named by the job that parsed it, and `stored`
\* is the number of jobs that had begun when it did.  The answer is the tree
\* it is made from, if it is made from one: prevSemanticTokens is never
\* assigned, so those of SemanticTokens depend on no cache.
Job(kind, i) ==
    [kind |-> kind, session |-> sessions', info |-> i, since |-> config, exe |-> None,
     at |-> "answered", waitsFor |-> None, process |-> "none", stored |-> None, answer |-> None]

-----------------------------------------------------------------------------
(* Starting a job, and a process for it.                                   *)

Spawn(job, stage, value) ==
    [job EXCEPT !.at = stage, !.exe = value, !.waitsFor = None,
                !.process = IF value \in programs THEN "running" ELSE "not there"]
Configured(job, value) ==
    Spawn(job, IF job.kind = "tokens" THEN "lexer" ELSE "parser", value)

\* getDocumentSettings: the global settings, the promise that is cached, or a
\* new one.
GetDocumentSettings(job) ==
    \/ /\ ~configurable
       /\ jobs' = Append(jobs, Configured(job, config))
       /\ UNCHANGED <<asked, setting>>
    \/ /\ configurable /\ setting # None /\ asked[setting] # None
       /\ jobs' = Append(jobs, Configured(job, asked[setting]))
       /\ UNCHANGED <<asked, setting>>
    \/ /\ configurable
       /\ IF setting = None
          THEN asked' = Append(asked, None) /\ setting' = Len(asked) + 1
          ELSE setting # None /\ asked[setting] = None /\ UNCHANGED <<asked, setting>>
       /\ jobs' = Append(jobs, [job EXCEPT !.at = "settings", !.waitsFor = setting'])

GetOrCreateDocumentInfo ==
    IF info # None THEN UNCHANGED <<infos, info>>
    ELSE /\ infos' = Append(infos, [session |-> sessions', file |-> None, node |-> None])
         /\ info' = Len(infos) + 1

-----------------------------------------------------------------------------
(* What the client sends.                                                  *)

\* documents.onDidOpen: a parse that nobody waits for.
DidOpen ==
    /\ ~open /\ Len(jobs) < MaxJobs
    /\ open' = TRUE /\ sessions' = sessions + 1
    /\ GetOrCreateDocumentInfo
    /\ GetDocumentSettings(Job("open", info'))
    /\ UNCHANGED <<configurable, config, programs>>

DidCloseMutant ==
    /\ open
    /\ open' = FALSE
    /\ setting' = None
    /\ UNCHANGED <<configurable, config, programs, sessions, infos, info, asked, jobs>>

\* documents.onDidClose: what runs goes on, with the DocumentInfo it has.
DidClose ==
    /\ open
    /\ open' = FALSE
    /\ info' = None /\ setting' = None
    /\ UNCHANGED <<configurable, config, programs, sessions, infos, asked, jobs>>

DidChangeConfiguration ==
    /\ config <= MaxConfigs
    /\ config' = config + 1
    /\ setting' = IF configurable THEN None ELSE setting
    /\ UNCHANGED <<configurable, programs, sessions, open, infos, info, asked, jobs>>

\* textDocument/semanticTokens/full.
SemanticTokens ==
    /\ open /\ Len(jobs) < MaxJobs
    /\ UNCHANGED <<configurable, config, programs, sessions, open>>
    /\ GetOrCreateDocumentInfo
    /\ GetDocumentSettings(Job("tokens", info'))

\* Hover, definition, type definition, symbols and completion: ensureParsed,
\* and an answer from the tree there is.
Query ==
    /\ open /\ Len(jobs) < MaxJobs
    /\ UNCHANGED <<configurable, config, programs, sessions, open>>
    /\ GetOrCreateDocumentInfo
    /\ LET job == Job("query", info')
           node == infos'[info'].node
       IN  IF node = None THEN GetDocumentSettings(job)
           ELSE /\ jobs' = Append(jobs, [job EXCEPT !.answer = node])
                /\ UNCHANGED <<asked, setting>>

\* The client answers workspace/configuration; an answer without a path, or a
\* refusal, gives the default settings.  All that wait for it go on.
ConfigurationAnswered(c) ==
    /\ c \in DOMAIN asked /\ asked[c] = None
    /\ asked' = [asked EXCEPT ![c] = config]
    /\ jobs' = [n \in DOMAIN jobs |->
                  IF jobs[n].waitsFor = c THEN Configured(jobs[n], config) ELSE jobs[n]]
    /\ UNCHANGED <<configurable, config, programs, sessions, open, infos, info, setting>>

-----------------------------------------------------------------------------
(* execSrc2JSON: a promise settled by the first of its events.  What comes *)
(* after it, such as the exit of a process that was killed, has no effect. *)

At(n, stage, process) ==
    n \in DOMAIN jobs /\ jobs[n].at = stage /\ jobs[n].process = process

\* A query is answered from the tree its DocumentInfo has by then.
Answer(n, tree) ==
    jobs' = [jobs EXCEPT ![n].at = "answered", ![n].process = "none",
                         ![n].exe = None, ![n].since = None,
                         ![n].stored = IF tree THEN Len(jobs) ELSE None,
                         ![n].answer = IF jobs[n].kind = "query"
                                       THEN infos'[jobs[n].info].node ELSE None]

\* The lexer's output: without tokens there is no parse.
Tokenized(n) ==
    /\ At(n, "lexer", "running")
    /\ \/ jobs' = [jobs EXCEPT ![n] = Spawn(@, "parser", @.exe)]
       \/ Answer(n, FALSE)
    /\ UNCHANGED <<configurable, config, programs, sessions, open, caches>>

\* The parser's: prevFile is set in any case, prevNode only when there is a
\* tree and parseAST can read it.
Parsed(n) ==
    /\ At(n, "parser", "running")
    /\ \E tree \in BOOLEAN :
        /\ infos' = [infos EXCEPT ![jobs[n].info].file = n,
                                  ![jobs[n].info].node = IF tree THEN n ELSE @]
        /\ Answer(n, tree)
    /\ UNCHANGED <<configurable, config, programs, sessions, open, info, asked, setting>>

\* The promise is rejected: the tokens of the lexer alone, nothing, or the
\* tree of another job.
Reject(n, process) ==
    /\ At(n, "lexer", process) \/ At(n, "parser", process)
    /\ UNCHANGED <<configurable, config, programs, sessions, open, caches>>
    /\ Answer(n, FALSE)

\* "exit" with another code or a signal, before the output was complete, or
\* with what is no file of tokens or trees.
Fails(n) == Reject(n, "running")

SpawnErrorMutant(n) == n \in DOMAIN jobs /\ jobs[n].process = "not there" /\ UNCHANGED vars
\* "error": there is no such program.  The timer finds an exitCode and does nothing.
SpawnError(n) == Reject(n, "not there")

\* 10 s are over and exitCode is null: the process is killed.
Timeout(n) == Reject(n, "running")

-----------------------------------------------------------------------------
Jobs == 1..MaxJobs

\* Nothing to do until the client sends something.
Rest == (\A n \in DOMAIN jobs : jobs[n].at = "answered") /\ UNCHANGED vars

Next ==
    \/ DidOpen \/ DidClose \/ DidChangeConfiguration
    \/ SemanticTokens \/ Query
    \/ \E n \in Jobs :
        \/ ConfigurationAnswered(n)
        \/ Tokenized(n) \/ Parsed(n) \/ Fails(n) \/ SpawnError(n) \/ Timeout(n)
    \/ Rest

\* The client answers what it is asked, events of the system arrive, and
\* timers fire.  src2json may run for ever.
Spec ==
    /\ Init /\ [][Next]_vars
    /\ \A n \in Jobs :
        WF_vars(ConfigurationAnswered(n)) /\ WF_vars(SpawnError(n)) /\ WF_vars(Timeout(n))

-----------------------------------------------------------------------------
(* Properties.                                                             *)

TreeOf(job, session) == job # None => jobs[job].session = session

(* What a document is closed and opened again over does not mix: whatever  *)
(* is still running when it is closed, no tree parsed from a text of one   *)
(* session is kept for, or answers a request of, another, and a closed     *)
(* document has no entry in either map (server.ts:434).                    *)
SessionsApart ==
    /\ ~open => info = None /\ setting = None
    /\ info # None => infos[info].session = sessions
    /\ \A i \in DOMAIN infos :
        TreeOf(infos[i].file, infos[i].session) /\ TreeOf(infos[i].node, infos[i].session)
    /\ \A n \in DOMAIN jobs : TreeOf(jobs[n].answer, jobs[n].session)

(* definitionHandler reads `docInfo.prevFile!` when there is a prevNode,   *)
(* however many parses, with a tree or without, have ended meanwhile: the  *)
(* file is there.                                                          *)
FileOfTree == \A i \in DOMAIN infos : infos[i].node # None => infos[i].file # None

(* Parses of one document overlap, and the last to end decides prevNode,   *)
(* whichever text it read.  That is the only way to an outdated tree: one  *)
(* stored before a job began is gone when that job has stored its own.     *)
OutdatedByOverlapOnly ==
    \A m, n \in DOMAIN jobs :
      jobs[m].info = jobs[n].info /\ jobs[m].stored # None /\ jobs[m].stored < n
        /\ jobs[n].stored # None => infos[jobs[m].info].node # m

(* A process is started with a configuration that is not older than the    *)
(* job, with any changes, closings and answers on the way in between.      *)
ConfigurationCurrent == \A n \in DOMAIN jobs : jobs[n].exe # None => jobs[n].exe >= jobs[n].since

(* Each cache holds what its readers take for granted.                     *)
CachesCurrent == SessionsApart /\ FileOfTree /\ OutdatedByOverlapOnly /\ ConfigurationCurrent

(* Every request, and every parse on opening, comes to an end, though      *)
(* src2json may be missing, hang, or die at any moment.                    *)
RequestsAnswered == \A n \in Jobs : n \in DOMAIN jobs ~> n \in DOMAIN jobs /\ jobs[n].at = "answered"
=============================================================================
