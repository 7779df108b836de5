# A verification project for brgen

brgen compiles descriptions of binary formats (`*.bgn`) into encoders and
decoders in many languages. Two things are hard in it. One is what runs the
compiler: a driver that starts a goroutine for everything it does, generator
processes that answer many requests over one pair of pipes, a web playground
that starts a new run before the last one has ended. The other is the parts of
the compiler with a state of their own: the token stream with its lazy lexer,
the expression parser with an explicit stack, and the analysis of sizes and
offsets in two passes over cyclic references. This project models those parts
in TLA+, checks them with TLC on small instances, and proves with TLAPS what
matters most for instances of every size.

Paths below are relative to the repository.

## 1. The system

| Component | State | Operations | Interacts by |
|---|---|---|---|
| Driver pipeline, `src/tool/brgen/generator_handler.go`, `generator.go`, `stdin_stream.go` | WaitGroups `works` and `reqwg`, the slots of `loadAstBlock`, channels `resultQueue`, `errQueue`, `dirBaseSuffixChan`, `queue`, the context, the list `dirBaseSuffix` | `Init`, `StartGenerator`, `generateAST`, `loadAst`, `requestStop`, `Request`, `run`, `handleRequest`, `handleStdinStreamRequest`, `sendGenerated`, `Recv` | channels between goroutines; HTTP to the parse server; processes |
| Driver main, `src/tool/brgen/main.go` | `wg`, `totalCount`, `errCount`, the files it writes, the exit code | three reporters, a writer per file, the test info file | ranges over `Recv()`, reads `dirBaseSuffix` |
| Generator protocol, `astlib/ast2go/request/` (Go), `src/tool/common/send.h` (C++ server) | stream map, next ID, `closeError`, two pipes, a handler per request, the process | `CreateStream`, `SendRequest`, `ReceiveResponse`, `sender`, `reader`, `closeOnce`, `Run`, `respond`, `RespondEnd`, `cmd.Wait` | whole messages on two pipes, unbuffered channels |
| Web playground, `web/dev/src/s2j/`, `stores/`, `server/` | job queue of each worker, text capture, the WebAssembly module and its files, trace IDs, the store's `generating` and `result` | `#handleRequest`, `#exec`, `#initModule`, `doRequest`, `updateGenerated`, `handleLanguage`, `generate`, `getTraceID` | `postMessage`, promises, one shared flag per trace |
| Language server, `lsp/server/src/server.ts` | `documentInfos` with `prevNode` and `prevFile`, `documentSettings`, the processes and timers of `execSrc2JSON` | open, close, configuration change, tokens, and the queries hover, definition, symbols, completion | LSP requests and configuration answers, `src2json` processes |
| Token stream, `src/core/ast/stream.h`, `stream.cpp` | token list, cursor, last skip, recovery positions, regex mode | consume, skip, recover, shrink, `set_regex_mode` | called by the parser, calls the lexer when a token is looked at |
| Expression parser, `src/core/ast/parse.cpp` | the stack of pending operators in `parse_expr`, one per nested call | `parse`, `parse_expr`, `parse_unary`, `parse_post` | moves the stream's cursor, switches its regex mode |
| Type attributes, `src/core/middle/type_attribute.cpp` | marks and sizes of types, offsets and alignments of fields | recursion marks, non-dynamic types, two size passes | reads and writes the AST; read by the generators |
| VM2, `src/vm/vm2/` | registers, stack, memory, free list | one step per instruction, allocator | embedded by `json2vm` |
| Rest of the parser, typing passes, generators (first generation `json2*`, second generation `ebmgen`/`ebm2*`), AST libraries, test drivers | trees | pure transformations | files and pipes |

`src2json` turns a `.bgn` file into an AST in JSON, either as a process per file
or as an HTTP server that the driver starts (`use_http`). A generator turns the
AST into outputs, either as a process per file or as one process of kind
`stdin_stream` that serves every request (`spec/generator_spec_file.md`,
`example/brgen_help/generator.bgn`).

### What is hard in it

* **Counting goroutines.** `works` must reach 0 exactly when all work is over.
  Its `Add` and `Done` are made by different goroutines; the count of a request
  even passes through a channel (`generator_handler.go:297`,
  `generator.go:170`). One missing `Done` hangs the driver; one missing `Add`
  cancels a run in progress.
* **Ending.** The end of the work cancels the context, and the forwarder
  chooses at random between the cancelled context and results that are ready
  (`generator_handler.go:355-365`).
* **Bounded resources that hold one another.** A request keeps its load slot
  while it waits to send; outputs wait for the collector and then for the
  forwarder, which waits for the reporters.
* **Multiplexing.** One reader serves all streams of a generator over an
  unbuffered channel each; one response to an unknown stream closes all.
* **Ends that look alike.** `io.EOF` is the end of a stream and also the exit
  of the process (`exec.go:38-39`).
* **Stale state.** Workers and the language server start a new job before the
  last has ended, and share files and caches between them. Every message to a
  worker starts a loop of its own, and the loops take turns at each `await`.
* **Looking ahead with a mode.** A token is lexed when it is first looked at,
  and whether a slash may begin a regular expression depends on the parser's
  position at that moment (`parse.cpp:773`, `1091`).
* **An explicit stack.** `parse_expr` replaces recursion by labels and a stack
  of half-built operators; each of its paths must keep every operand.
* **Cycles.** Formats refer to each other; sizes and offsets are computed in
  two passes with the cycles cut.

`PROJECT.json` lists each hazard at its line with the properties that watch it.

### What makes each component correct

* Pipeline: counters equal what they count; no slot leaks; nothing is lost or
  delivered twice between goroutines; the context is cancelled after the work;
  every request is answered; the parse server lives as long as it is needed.
* Main: no file is cut off, counts are exact, a file holds the output it was
  written for, main ends, and the test info lists what was generated.
* Protocol: replies reach the client whose request they answer, in order and
  complete; a stream's end is its last message; nobody waits for ever.
* Playground: each call of `generate` gets one result, made from its own
  source; requests are neither lost nor handled twice; a module that trapped is
  never used again; the page shows no outdated code.
* Language server: what is cached belongs to the session and the configuration
  it is used for; a pair of file and tree is complete; every request is answered.
* Token stream: no iterator to an erased token is kept, recovery ends.
* Expressions: the tree holds every operand, at its operator's precedence; an
  expression ends only where none can go on.
* Type attributes: marks are exact whatever the order of the visit, a size that
  is given is the length of every value, offsets place the fields.

## 2. Modules

| Module | Lines it stands for | What it is |
|---|---|---|
| `GeneratorHandler` | the driver pipeline | specification `Spec` and its properties |
| `ResultDelivery` | `Recv()` as its caller sees it | abstract specification |
| `BrgenMain` | `main()` on top of `GeneratorHandler` | composition, `FairMainSpec` |
| `RequestManager` | `request.go`, `response.go`, `exec.go`, the worker threads of `send.h` | client, pipes, server and process in one specification |
| `TokenStream` | `stream.h`, `stream.cpp`, the tokens of `lexer.h` they need | operators on a stream |
| `ExprParser` | `parse()` and `parse_expr` with what they call | specification over a `TokenStream` |
| `TypeAttribute` | `type_attribute.cpp` | specification; each step is one pass |
| `WorkContext` | `em_work_ctx.ts`, `request_queue.ts`, the callbacks of `src2json_worker.ts` and `json2cpp2_worker.ts` | the actions of a worker |
| `Playground` | `generator.ts`, `generator_service.ts`, `update.ts`, `job_mgr.ts`, `generatorStore.ts` | the main thread on top of two workers, `Spec` |
| `LanguageServer` | `server.ts` | specification `Spec` of the server and one document |
| `GeneratorHandlerProofs` | | WaitGroup, cancellation, type, slot and `reqwg` theorems |
| `GeneratorHandlerDelivery` | | what becomes of a result; the refinement of `ResultDelivery` |
| `BrgenMainProofs` | | theorems about main, on top of those about the pipeline |
| `RequestManagerProofs` | | all safety properties of the protocol |
| `PlaygroundProofs` | | theorems about the workers of the playground |
| `PlaygroundAnswers` | | what becomes of a request, and whose code the page shows |
| `LanguageServerProofs` | | types and caches of the language server |
| `ExprParserProofs` | | the token stream's iterators, the progress of statements, the trees and the ends of expressions, and that every token read is in the program |
| `MCGeneratorHandler`, `MCBrgenMain`, `MCRequestManager`, `MCExprParser`, `MCTypeAttribute`, `MCPlayground`, `MCLanguageServer` | | values for TLC |

### GeneratorHandler

A *task* is a goroutine that `works` counts: one per argument, per source file,
per (file, generator) request, and per output. `pc[t]` is where it is:

| Stage | The goroutine is |
|---|---|
| `lookup`, `spawn` | in `lookupPath`; in the loop that starts the files |
| `acquire`, `load`, `parse` | waiting for a slot; about to start the parse; waiting for its answer |
| `dispatch` | in the loop over the generators |
| `offered` | a request counted and blocked in `gen.Request` |
| `generate`, `emit`, `report`, `fail` | waiting for the generator; between messages; in `sendResult` with an error reply; in `sendResult` with a failure |
| `dir`, `result` | an output blocked on `dirBaseSuffixChan`; on `resultQueue` |
| `ending`, `done` | about to run its deferred calls; gone |

Sends on buffered channels need room (`ResultCap` and the others are the
capacities the code gives to `make`), `Generator.Request`, unbuffered, is a
rendezvous of `Offer` and `Accept`. A step ends where another goroutine could
see a difference: at a channel operation, a WaitGroup operation, the use of a
slot. What a goroutine does by itself between two of those belongs to one
action, for example everything `loadAst` and its caller do after a failure
(`LoadFails`). `LoadFails` leaves behind the goroutine that sends the error;
`works` does not count it (`errTasks`).

A result is a record of the task that made it and whether `Err` is set: what
the properties tell apart. Command lines, JSON, temporary files and file names
are left out. A failing load, a generator that fails, gives no output, or fails
in the middle of a stream, is a free choice. `MaxMsgs` bounds the outputs and
error replies of one request. The variant of `loadAst` that calls src2json as a
library behaves like the process variant.

`produced` and `delivered` are history variables. No action reads them.

### ResultDelivery

What a caller of `Recv()` may rely on: a result is delivered at most once and
after it was made; after the channel is closed at most one buffered result
follows; without a signal, closing loses at most one of the results that
generators made. (Errors of `loadAst` may be lost without bound, because
nothing counts the goroutines that send them.) `GeneratorHandler` implements it
with `buffered` mapped to what is in `queue` after closing.

### BrgenMain

Adds the reporters and writers. The path of an output is made as the code makes
it: the generator's `output_dir`, and either the base name of the source with a
suffix of the generator's spec or the name a stdin_stream generator gives
(`OutputPath`). The constants say which directories, names and suffixes
coincide; nothing keeps two outputs from one path. `content` is what is at each
path: nothing, a file of an earlier run (`Stale`), an empty one, an output, or a
mixture (`Torn`). A writer creates its file and writes it in two steps, and
either may fail (`WriterFails`): the error is printed and not counted. The test
info, if it is asked for, and the exit status are written in `WriteInfo`;
`ExitCodeAtDefer` is the value `os.Exit`'s argument had when it was deferred.
`log.Fatal`, in a reporter (`Fatal`) or when the test info cannot be written
(`InfoFails`), ends the process in whatever state it is.

### RequestManager

Clients are the goroutines of `handleStdinStreamRequest`: create a stream, send
one request, receive until EOF or an error. `sender` and `reader` are the
manager's two goroutines, `server` and `handler` the generator process's. A
message is a record whose `from` and `k` stand for its contents. Every `Write`
of a message is atomic, as the code writes each under a lock. The parent keeps
the child's ends of both pipes open, so a dead process is noticed by `cmd.Wait`
alone (`Reap`); the reader sees no end of file. `Workers` distinguishes the Go
server (a goroutine per request) from the C++ one (a fixed number of threads).
`SendComplete` has no caller and is left out.

### TokenStream and ExprParser

A text is a sequence of lexemes, and a token remembers what the lexer made of it
*when it looked*: the slash is the only lexeme that reads differently in regex
mode. Blanks at the start of a line or of the text are an `indent` token, others
a `space`: only `skip_white` passes an indent. A stream is a record: the tokens
lexed so far, the cursor, the last skip and the last recovery as positions in
place of iterators, the regex mode and the comments met. `begin` is where the
list starts after `shrink`, so an iterator to an erased token is a position
below it.

`calls` is the C++ call stack: a frame per `parse_expr`, `parse_unary` and
`parse_post`, with the label it is at and, for `parse_expr`, its stack of
pending operators. An action is what runs between two labels. Trees keep the
shape and the operators; names, types and locations are left out.
`prog` holds the elements of the program. A strict parse ends at the first
error, a tolerant one recovers and goes on.

### TypeAttribute

A program is a table of nodes: formats, fields' types, arrays, references,
enums and the union of a `match`. The phases follow the calls in order: marks
of recursive references, non-dynamic types, and the two passes over sizes. A
step of the specification is one whole pass over the program; a recursive
function of the code over the tree is a recursive operator that threads its
results.
`None` is `nullopt`. The branches of a union may be empty, and a union may be
exhaustive or not. Where an empty value spoils an alignment (section 5),
`FieldsPlaced` makes no claim: a union that `MayBeEmpty` although a branch ends
within a byte is a field of the struct, or below one, and the alignments from
there on are left out. Sizes, offsets and the tail are claimed there as well.

### WorkContext and Playground

`ready[w]` holds the continuations of a worker in the order in which they
became ready: the microtask queue. A message, the end of a load and the end of
a fetch are taken only when it is empty. Each action on `ready` runs the
continuation at its head up to the next `await` and appends what follows; the
number of turns an `await` lasts is kept, since it decides who overtakes whom
(`ArgsMade` is the extra turn of an `async` callback; `LeaveExec` are the turns
an exception takes on its way out).

| `at` | What runs next |
|---|---|
| `resumed` | the rest of `#waitForPromise`, after `#promise` was settled |
| `args`, `args made` | `makeArgs`; the `return` of an `async` one |
| `exec`, `call` | `#exec`; `#callEmscriptenMain` after its `await` |
| `returned`, `throws`, `thrown` | `#exec` after the call; an exception leaving it; the `catch` of `#handleRequest` |
| `next` | the head of the loop |

Texts are named by the generation they come from, so a result says whose source
it was compiled from. `mod` is the number of the module in `#mod`; a trap starts
the load of the next number, with an empty file system. `fetching` are the jobs
whose imports are on their way, each with the module its files are meant for. A
trap of another job can fall between `#waitForPromise` and `makeArgs`, which is
then called with `#mod` undefined: `no module` is the turn in which that throws.
The call itself is one step that ends well, badly or in a trap; a trap posts
what the module had printed by then, which may be nothing or code.

On the main thread an action is one event: a call of `generate`, the end of
`init()`, or a message from a worker and everything that follows it up to the
next `await`. `initPromise` is the service's cached promise: it is fulfilled, or
rejected when a script that `init()` imports does not load; then every call of
`generate` throws at its first `await`. `mode` says whether the page's one
tracer or one tracer per request is used. `stage` says for which worker a
generation waits, and stands for the resolver maps. `Scripts` bounds what is
asked in a run, by its beginnings.

### LanguageServer

An action is an event of the server's one thread: a message of the client, the
answer to `workspace/configuration`, or an event of a process or its timer. What
follows it up to the next `await` that has to wait is part of the action; an
`await` on something that is there already lets no other event in. A *job* is a
call of `tokenizeSource`, of `ensureParsed` by a query, or of `parseOnlyImpl` on
opening; `at` is where it waits.

`infos` holds every `DocumentInfo`, also those that closing took out of the map
while jobs go on with them. `asked` and `setting` are the promises of the
configuration and the one that is cached. The outcomes of a process that the
server tells apart are the actions `Tokenized`, `Parsed` (with a tree or
without), `Fails`, `SpawnError` and `Timeout`. An exit before all output was read
is a `Fails`: the server listens to `exit`, not `close`, and cut-off JSON does not
parse. Trees are named by the job that made them, which also orders the texts
they come from; so a change of the text, which touches no state of the server,
needs no action. Diagnostics and the contents of answers are left out.

## 3. Checks

| Run | Instance | Checks |
|---|---|---|
| `handler_all` | 1 file, 2 generators, one of them stdin_stream, 1 message each, 1 slot, HTTP; 1.5 million states | `TypeOK`, `WorksBalanced`, `ReqwgBalanced`, `SlotsHeld`, `EveryRequestAnswered`, `WorksStaysZero`, `CancelAfterWork`, `Conservation`, `AtMostOneResultLost`, `DirEntriesKept`, refinement of `ResultDelivery` |
| `handler_stop` | 1 file, 1 generator, HTTP | finds `StopAfterLastPost` violated |
| `main_exit` | 2 reporters, 1 file, 2 outputs of one path with a file of an earlier run, test info; 464 thousand states | `MainTypeOK`, `NoWriterCutOff`, `CountsExact`, `SoleOutputIntact`, `MainExits` |
| `request_serve` | 2 clients, 2 replies each, pipes of 1 message, 2 workers, exits and failures; 106 thousand states | `TypeOK`, `RepliesInOrder`, `EofIsComplete`, `NoStray`, `ReaderWaitsForReceiver`, `AllServed` |
| `request_eof` | 1 client, clean exit | finds `RepliesBeforeEof` violated |
| `expr_parser` | 12 thousand texts, strict and tolerant | `IteratorsInList`, `NothingDropped`, `PrecedenceKept`, `ExpressionTakesAll`, `StatementsAdvance` |
| `expr_regex` | a few texts with slashes | finds `SlashAfterOperandDivides` violated |
| `expr_range` | a few texts with ranges | finds `RangesNotChained` violated |
| `type_attribute` | 13 thousand programs; 65 thousand states | `RecursiveMarks`, `NonDynamicExact`, `SizeSound`, `FieldsPlaced`, `SecondPassStable` |
| `playground` | 2 generations of 5 kinds, 3 of C++ code or an import, or 4 that end in src2json, page and server, 1 trap per worker, loads and an `init()` that fail; 896 thousand states | `RequestKept`, `OutputBelongs`, `ModuleAtHand`, `RunsToEnd`, `PageShowsOwn`, `Settles` |
| `language_server` | 3 jobs, 1 change of the configuration, programs there or not; 66 thousand states | `CachesCurrent`, `RequestsAnswered` |
| `playground_own` | 2 requests to the server, no trap | finds `AnswerIsOwn` violated |

Deadlock is checked in every run but those of the playground, which rests when
nobody asks (`Settles` excludes that it rests with a call unanswered, unless
`init()` was rejected). In the driver's runs a signal may come until the context
is cancelled, so that some step is always there; that the driver does not get
stuck waiting for room or for its slot is what `MainExits` shows, since signals
carry no fairness. The states in which the other programs rest (`Rest` in the
handler and the language server, `main = "exited"`, all clients served, the text
or the program done) are explicit disjuncts, so any other state without a step
is reported.

**Bounds.** One slot where the code has 100, pipes of one message where the
system has 64 KiB, and one-place channels as in the code: the smallest
capacities, where every wait for room happens. Two requests of one file, of
either kind of generator, compete for the slot, for `resultQueue` and the
collector's channel, while the server may still not listen or be stopped. More
arguments and files are left to the proofs, which cover any number: an instance
with two files and one generator has as many states and passes as well. Two
clients are what it takes to mix streams. With two reporters one can hold a
result while the other leaves. None of the invariants compares more than two of
a kind. `main_exit` gives both outputs of a file one path, where a file of an
earlier run is, so that two writers meet there; the request keeps the one slot
while its outputs fill the channels one after the other.

The texts of `expr_parser` are those of a few lexemes from a palette with an
operator of each kind of layer, brackets, a slash, a comment, a blank and a line
end; an error in the stack needs two operators of different layers and one to
come back to. The programs of `type_attribute` are all reference graphs of three
formats, and all formats of up to three fields from a palette of 15 types, among
them a match with an empty last branch and one that is not exhaustive, next to
one of three second formats: field, neighbour before and neighbour behind. No
match has an empty first branch (section 5). Three jobs in `language_server` are
two parses that overlap and a query that finds what they left, or a parse from
before closing, the one on opening again and a query. Three generations in
`playground` are one that runs, one that waits for its turn, and one that makes
both outdated, of the kinds that use both workers or fetch; any two kinds are
combined as well; four that end in src2json are as many as it takes for a
request to meet a trap between two of its turns. One trap per worker gives a
load before and one after jobs are under way. The palette has both numbers of
turns `makeArgs` can take, a fetch, a generation that ends in src2json, one that
needs no worker, and one whose text cannot be encoded.

**Fairness.** `FairMainSpec` asks only that the driver goes on: while some
goroutine can move, or a process it waits for can end, something of that kind
happens (`Runs`). The Go scheduler does more, it runs every goroutine; but the
driver has no loop that goes on for ever, so this is enough for `MainExits`,
which then says that no order of the goroutines leaves the driver waiting for
itself. The model assumes that `src2json` and each generator end or answer
(their steps are inside `FileStep` and `ReqStep`). Signals, fatal errors and
failures of pipes carry no fairness. In `RequestManager`, `FairSpec` gives weak
fairness to each goroutine: a handler keeps going while the process runs, and
`cmd.Wait` returns after it ended.

In `Playground` the main thread and each worker are threads of their own and
get weak fairness each; it includes that `init()`, a load and a fetch end some
time, well or badly, and that a compiled tool returns or traps. Nobody has to call
`generate`. In `LanguageServer` the client answers what it is asked, the event of
a process that could not be started arrives, and timers fire; a process that
runs need not end. `ExprParser` and `TypeAttribute` need none: what they compute is
stated by invariants.

Each property also has a mutated definition (`...Mutant`, in the module it
mutates): a plausible error in the code, such as a forgotten `Add`, a second
`Done`, a larger buffer or a dropped message, under which TLC finds the
property violated.

## 4. Proofs

Every theorem holds for all values of the constants that meet the module's
assumptions: any number of paths, files, generators, messages, slots,
reporters, clients, replies, workers, places in a pipe, requests, traps and
loads; and any text for the parser, of any length and any lexemes but the empty one.

| Module | Theorem | States |
|---|---|---|
| `GeneratorHandlerProofs` | `WorksCorrect` | `Spec => []WorksBalanced` |
| | `CancelCorrect` | `Spec => []CancelAfterWork` |
| | `WorksStays` | `Spec => WorksStaysZero` |
| | `TypeCorrect` | `Spec => []TypeOK` |
| | `SlotsCorrect` | `Spec => []SlotsHeld` |
| | `ReqwgCorrect` | `Spec => []ReqwgBalanced` |
| `GeneratorHandlerDelivery` | `ConservationCorrect` | `Spec => []Conservation` |
| | `LossCorrect` | `Spec => []AtMostOneResultLost` |
| | `DirCorrect` | `Spec => []DirEntriesKept` |
| | `AnswersCorrect` | `Spec => []EveryRequestAnswered` |
| | `DeliveryCorrect` | `Spec => DeliversResults`, the refinement |
| `BrgenMainProofs` | `MainUsesHandler` | `MainSpec => Spec` |
| | `MainTypeCorrect` | `MainSpec => []MainTypeOK` |
| | `WritersCorrect` | `MainSpec => []NoWriterCutOff` |
| | `CountsCorrect` | `MainSpec => []CountsExact` |
| | `FilesCorrect` | `MainSpec => []SoleOutputIntact` |
| `RequestManagerProofs` | `TypeCorrect` | `Spec => []TypeOK` |
| | `OrderCorrect` | `Spec => []RepliesInOrder` |
| | `EofCorrect` | `Spec => []EofIsComplete` |
| | `StrayCorrect` | `Spec => []NoStray` |
| | `ReaderCorrect` | `Spec => []ReaderWaitsForReceiver` |
| `PlaygroundProofs` | `InvCorrect` | `Spec => []Inv`, the invariant the next three rest on |
| | `OutputCorrect` | `Spec => []OutputBelongs` |
| | `ModuleCorrect` | `Spec => []ModuleAtHand` |
| | `RunsCorrect` | `Spec => []RunsToEnd` |
| `PlaygroundAnswers` | `RequestsKept` | `Spec => []RequestKept` |
| | `ShownCorrect` | `Spec => PageShowsOwn` |
| `LanguageServerProofs` | `TypesCorrect` | `Spec => [](TypesInv /\ ReferencesExist)` |
| | `CachesCorrect` | `Spec => []CachesCurrent` |
| | `NobodyMissed` | `Spec => []WaitersAwaited` |
| `ExprParserProofs` | `IteratorsKept` | `Spec => []IteratorsInList` |
| | `StatementsConsume` | `Spec => []StatementsAdvance` |
| | `OperatorsLayered` | `Spec => []PrecedenceKept` |
| | `ExpressionsWhole` | `Spec => []ExpressionTakesAll` |
| | `TokensKept` | `Spec => []NothingDropped` |
| | `ProgramComplete` | `Spec => []ProgramSpelled`, that the leaves of every program are the tokens read |

### The pipeline

*The WaitGroup.* Every action has one of four effects on the counted tasks:
it moves one, ends one, starts one *from a counted one*, or launches a path
(`TaskEffect`). The lemmas `PathEffect` to `OutEffect` establish this per
action, and `EffectCounts` that the counter follows the set. Because a task is
started only by a counted one, and paths are launched before the waiters exist,
no effect is possible once the counter is 0 and all paths are launched.
That gives `WorksStays`. It also makes `CancelAfterWork` inductive:
the only step that cancels without a signal needs `works = 0`, and from then on
nothing is outstanding. The invariant is `WorksInv`: types of `pc` and `msgs`,
finiteness of the outstanding tasks, the balance, and `CancelAfterWork`.

*Types, slots, reqwg.* `TypeOK` is not inductive: nothing in it says that
`slots` is below its capacity when a slot is given back or that `reqwg` is
positive at a `Done`. `TypeInv` adds that `slots` and `reqwg` are
the cardinalities of the tasks that hold a slot and of the files at work, that
both sets are finite, and that a request in `report` has counted a reply
(`ReportOK`: otherwise it would send a result of no task). `MoveCounts` and
`ForkCounts` say what a step of one task does to the two sets. Each action then
either keeps a set and its counter, or changes the set by one element and the
counter by one (`Counts`), and `CountKept` turns that into the balance.

*Delivery.* `Conservation` counts results, and counting needs two facts: what
is made is new, and what was made is in one place. `TasksOK` tells from each
task's program counter which results it may have made; so a step that makes one
makes a new one. `JourneyOK` says that the results made are those at their
senders, in the three channels, in the forwarder's hand and delivered, and that
no two of these places share one. `MakesKeeps`, `SendsKeeps` and `CarriesKeeps`
show it for the three things a step can do: make a result, send one, carry one
from a channel to the next. `ClosingOK` says that a closed queue means that the
context was done and everything was launched. With `CancelAfterWork`
the tasks were then over, so what closing overtakes is what `resultQueue`
holds, which is `AtMostOneResultLost`. `DirOK` and `EveryRequestAnswered`
follow the same tasks. The invariant is `DeliveryInv`. `DeliveryCorrect` maps a
step of the pipeline to a step of `ResultDelivery` or to a stutter
(`StepPromise`); its initial states map to initial states.

*main.* `MainUsesHandler` shows that main and its reporters use the pipeline as
its specification allows, so `DeliveryInv` holds of the composition and is not
proved again. `MainInv` adds whose hand a delivered result is in: at most one
reporter's, else it has been handled (`ReportersOK`); a handled output that goes
to a file has a writer of its own (`WritersOK`); `wg` is the number of
reporters that range over the channel plus that of writers at work
(`WgOK`), and the counters are the numbers of handled results and errors
(`CountsOK`). When `wg` is 0 no reporter is left, so nothing is in a hand and
the channel is drained. `FilesCorrect` assumes nothing of the paths, which may
coincide in any way. `ContentOK` follows the file of a `Sole` output, one for
whose path no other writer was started: empty once it is created, whatever was
there before, and whole once it is written. A writer that starts later ends the
claim for both, and a writer's steps touch its own path only, so the file of a
sole output is safe from all others. Where two writers do meet one output is
lost (section 5).

### The protocol

`RepliesInOrder` and `EofIsComplete` say what a client received and nothing of
what is on its way. The invariant accounts for every reply a handler made: the
first ones are received, one may be in the reader's hands (`ReadingInv`), and the
rest are in the pipe, each there (`CompleteInv`), nothing else (`ContentsInv`),
in order and before the end of their stream (`OrderInv`). IDs are unique
(`IdsInv`), and the map holds the streams that were created and have not ended
(`MapInv`). A stream leaves the map with its end, after which nothing of it is
in the pipe, so the reader finds the stream of whatever it reads: `NoStray`.
`ReaderWaitsForReceiver` follows, since a client stops receiving only at the end
of its stream (`ClosingInv`).

### The playground

What a worker's list of turns may hold decides everything, and `Inv` says it
for both workers:

* `ModuleOK`: a module in `#mod` is the one loaded last, and nobody waits for a
  promise that is settled.
* `ResumedOK`: a turn that resumes with a module never stands behind a call. If
  it did, the call could trap and the turn would store the dead module again.
  With a call in the list there is a module, so `CallMain` has one.
* `QueueOK`: each request in the queue has a turn `next` that comes by for it. A
  request is put back in the step that appends one.
* `InsideOK`: at most one job is inside `#exec`, and `#textCapture` has its id.

For `json2cpp2`, `JsonOK` says more: `Behind(a)` is what may stand behind `a` in
the list. Every request takes the same turns there, so those that were resumed
together stay together; a call is followed by loops that end and by nothing
that needs the module. Hence no `args` meets a trap. For `src2json`
this is false, and `ModuleAtHand` does not claim it.

Each action takes the first turn and appends at most one, or sets the list
anew. `OneWorker` reduces a step to that of one worker, and there is a
lemma per conjunct: `TypesKept`, `ModuleKept`, `ResumedKept`, `QueueKept`,
`InsideKept`, `JsonKept`. A step of the main thread can only put a request into
an inbox, which begins the load of an absent module, or take a result
(`MainSteps`, `MainKeepsWorker`).

*A request is kept.* A worker holds a request in one of six places: inbox,
queue, outbox, among those that wait for the module, in a turn (unless the job
is over, at `next`), among the fetches. `WorkHeld` shows that a step of a worker
carries one request from place to place, so that the sum of the counts stays;
the lemmas `MessagesCount` to `FetchersCount` say what one more or one less
element does to each count. A set of fetches could swallow a second fetch of
the same job, so the step that begins one needs the sum to be at most 1
(`FetchIsNew`). `KeptInv` is `RequestKept` with the fact that a generation not
yet begun is at its first stage; the main thread moves the stage of a
generation in the step that gives or takes its request (`StageMoves`).

*Whose code is shown.* A result with the trace of the newest generation passes
the tracer's test; that it was made of that generation's source is a matter of
the order in which jobs of `json2cpp2` write `/editor.json`. For the newest
generation n, `OwnOK` says of each list (inbox, queue, waiting, and the turns at
`resumed`, `args` and `exec`) that behind a job of n there is no older one
(`Lines`), and of one list and the next that no older job can still write after
n has (`InboxAhead`, `QueueAhead`, `TurnsAhead`); once n has written,
`editor` is n until its module is called. It holds because on the page nothing older is
asked of `json2cpp2` once n has begun (`Newest` in `OnAST`), and because the
requests of `json2cpp2` keep step (`JsonOK`): the one that is put back behind
others finds no job of n between itself and its next turn. `OwnKept` proves it
for each action. When a generation begins there is nothing of it anywhere
(`OwnNew`, from `KeptInv`), so the invariant begins anew for it (`OwnNext`).
`AnswerIsOwn` has no such theorem: on the server it is false (`playground_own`).

### The language server

Every job carries the `DocumentInfo` it began with, so `Inv` ties the session of
a job to that of its `DocumentInfo` (`JobsInv`), and the trees and files kept
there to jobs of that session (`InfosInv`). `ReferencesExist` is what follows
for the pointers: the two maps, a tree or file that is kept, and what a job
began with, waits for or answers with, all name something that exists, of one
session. Configurations only grow, and every change drops the promise in
`documentSettings` (`EntriesInv`): an answered one holds the configuration of
the moment. `WaitersAwaited`, that a job waits only for a promise still open, is
part of it and a result of its own: with it no job sleeps on an answer that was
already given.

### The expression parser

`TokenStream` and `ExprParser` declare no RECURSIVE operator: the loop of
`SkipWhile`, the walk of `IsFinallyIdent` and the levels of a tree (`Below`) are
recursive functions over the naturals. TLAPS knows a function by its
definition only once it exists; `RoundsSome` and `LevelsSome` build it up to
each bound, `RoundsSame` and `LevelsSame` show that it is unique, and
`SkipWhileLoop` and `BelowIs` give the equations. The induction in them is on a
set of numbers (`NatSet`, from the least element of its complement), since the
library's induction theorems cannot be used here.

*The stream.* `SInv` says of the stream that there are no more tokens than
lexemes lexed, that list, cursor and recorded recovery are in order
(`StreamOK`), and that a saved `lastSkip` stands before the cursor and not
before the recovery (`SkipOK`); of the call stack (`Shape`) that each function
below the top waits for the kind of function above it. For each method of the stream a
lemma says what it keeps (`MaybeParseIs`, `ConsumeIs`, `SkipTagIs`,
`RecoverIs`, `ShrinkIs`).

*Progress.* A recovery may move the cursor back, and a statement may consume
nothing, so neither measures progress. `Rank` is where the last skip began or
else the cursor; no step lowers it. `Score` counts it twice and adds one when a
recovery has been recorded there: a recovery either records a new place or
consumes a token, so each raises `Score` (`RecoverIs`). `AInv` says that the
number of statements is at most `Score`, with one to come if the present
statement has raised it already (`Pending`); `Fresh` says which frames are on
the stack as long as it has not, and `FreshStep` that no expression returns
before it has.

*Trees.* `Sound(n)` is `WellLayered` at every level below n, with the right
number of children; `Tight(n)` adds that n is no binary operator. `WellLayered` is the language's
precedence (`KidLayers`) but for the first operand of a range, which the parser
lets be a range (`AcceptedLayers`; `expr_range` shows it). `Ordered(ops)`
describes the explicit stack: layers fall from bottom to top, only the
right-associative ones repeat, and every entry is a half-built node whose left
side fits. `FrameOK` ties the stack and the layer to the label the frame is at:
between operators the expression so far is of the present layer or tighter
(`AtLoop`), an operator that has just taken its right side is not. What a
function hands back is sound, and tight if an operand was asked for (`RetOK`).
`UpdateStackIs` and `PoppedIs` are the two places where an operator leaves the
stack.

*Ends.* `Open(t)` holds when only blanks stand between a range without an end
and the cursor. `TInv` says what cannot be at the cursor, unless `Open`: when the
loop is at layer d, no operator of a layer tighter than d and none of
`( . [` (`Taken(d - 1)`); after the whole expression, no operator at all. A layer is
left only when its operators are not at the cursor (`LeavesLayerStops`), and
neither skipping blanks nor a change of the regex mode brings one there
(`StopsSkips`, `StopsSet`), because a token is lexed when it is first looked at.

*Tokens.* The nodes that the parser holds form one row (`Row`): the finished
program, then for each frame of the call stack what it has in hand
(`FrameRow`: the entries of `ops` with their operators, `expr`, the prefix
operators, an opening bracket), and last what the callee returned. `Unfolded`
replaces each node by its parts until only leaves are left; `Final(a, r)` says that
the row a ends as the leaves r, and `Same(a, b)` that two rows end alike. `NInv` says
that `Row` ends, and as the tokens read (`Spells`). Every step is one of two
kinds: it reads tokens and puts their leaves at the end of the row (`Wrote`), or
it builds a node from neighbours in the row (`SameBinary`, `SameCond`, `SamePost`),
which changes the row but not what it ends as. `FinalCat` and `SameCat` let
a step speak of its own frame alone; `NGoesOn`, `NCall` and `NReturn` carry that to
the whole stack. The rest of `NInv` is what the rows rest on: a half-built operator
lacks just its last operand (`OpsTidy`), there is an expression where one is
combined, and since the last skip began only blanks were passed (`SkipBlank`),
so that going back to it reads nothing twice. `Reads` says what a method of the
stream may do: pass blanks and the tokens it names. When a statement is complete the row is the program
(`RowIsProgram`). A lexeme has at least one character (`SourcesAssumption`): the
empty text stands for a regular expression.

### Only model-checked

* Liveness: `MainExits`, `AllServed`, `Settles`, `RequestsAnswered`. TLAPS does not
  prove properties that need fairness.
* `TypeAttribute`: `RecursiveMarks`, `NonDynamicExact`, `SizeSound`,
  `FieldsPlaced`, `SecondPassStable`. A step is a whole pass that walks a cyclic
  graph with RECURSIVE operators, which the SMT backend does not see; what a walk
  computes for every graph is an induction over the walk.

## 5. What the checks found

* **The parse server can be stopped before it was used** (`handler_stop`).
  `requestStop` waits for `reqwg`, which is 0 until `generateAST` has looked a
  path up (`generator_handler.go:283` and `351`).
* **The last output can be lost.** Its sender calls `works.Done`
  as soon as the result is buffered in `resultQueue`; the context may be
  cancelled before the forwarder has taken it, and the forwarder may then
  choose to close. `AtMostOneResultLost` bounds the damage: one result, the
  capacity of the buffer.
* **EOF can overtake replies** (`request_eof`). A generator that exits with
  status 0 makes `cmd.Wait` close the manager with `io.EOF` while replies are
  still in the pipe; the driver takes it for the end of the stream.
  `EofIsComplete` says this is the only way.
* **A slash after an index or a call is a regular expression** (`expr_regex`).
  `parse_expr` switches regular expressions on when it returns, also to
  `parse_call` and `parse_index`; the token after the closing bracket is then
  lexed in the wrong mode, and `a[i] / b` is an error. A parenthesised operand
  is not affected: `parse_post` switches the mode off after it.
* **Ranges are chained** (`expr_range`). `is_range_op` asks for an operator
  between `range_inclusive` and `range_exclusive` (`expr_layer.h:70`), which
  stand in the other order in the enumeration, so it is never true: the error
  branch at `parse.cpp:1060` is dead, and `a .. b .. c`, which a comment there
  says the language does not support, is parsed as `(a .. b) .. c`.
* **Two requests can share an answer** (`playground_own`). The server gives
  every request its own tracer, so none is outdated. Two that wait for the module
  of `json2cpp2` (or `json2c`) write `/editor.json` one after the other and
  only then run. `RunsToEnd` shows that this takes a load: a request that
  finds the module loaded is finished before the next message is taken.
  On the page the overwritten request is always outdated (`PageShowsOwn`).

Seen while modelling, without a run of its own:

* An empty branch of a match counts for nothing.
  `set_struct_union_bit_alignment` uses size 0 for "no branch seen yet"
  (`type_attribute.cpp:360`): a match whose first branch is empty gets the size
  of the second. A branch of no bits is said to suit any alignment (line 368): a
  match of four bits or nothing is recorded as ending at bit 4, and what follows
  is placed by it. The same holds of a match that is not exhaustive.
* Two sources can share a file. The path of an output does not have the source's
  directory in it, so two sources of one base name have one output: one is lost,
  or the file has bytes of both, and both are reported.
* The test info can be incomplete. `main` reads `dirBaseSuffix` without waiting
  for the goroutine that appends to it.
* A failed `init()` is for ever. The rejected promise is cached and awaited
  outside the `try` (`generator_service.ts:130`): neither this call nor a later
  one calls `onResult`, and the store's `generating` is never cleared. `Settles`
  shows that once `init()` is fulfilled every call ends.
* One source can stop a worker of the playground: `encodeURIComponent` throws on
  half of a surrogate pair (`em_work_ctx.ts:103`), after the capture was taken
  and before the `try`. Every later request goes round in the queue, and the
  loop of resolved promises takes no further event. `Settles` leaves such a
  source out, and shows that besides a rejected `init()` no other failure has
  this effect, not even a load that fails while a job holds the capture
  (possible when its imports were fetched during the load).
* `makeArgs` of `src2json` can be called with an undefined module
  (`em_work_ctx.ts:169`). Of requests that waited for one load, those for the
  lexer's tokens and those for the AST get out of step, and the trap of one falls
  into the turn another's `makeArgs` has to wait for; `fetchImportFile` then
  reads `FS` of undefined (`dummy_fs.ts:20`) and the request is answered with a
  TypeError, although the module is being loaded again. It takes four requests:
  the attempt to prove an earlier, stronger `ModuleAtHand` found it, after
  three generations had shown nothing. `json2cpp2`, whose requests keep step,
  is not affected (`ModuleCorrect`).
* The exit status is always 0: `defer os.Exit(exitCode)`
  evaluates `exitCode` at once (`main.go:134`), before line 237 sets it to 1.
* A superseded generation still calls `onResult`, with the text "(generated
  code)" (`generator_service.ts:199`). It clears `generating` while the newest
  is under way, and replaces the newest result when it ends last, for example
  a C++ generation overtaken by the tokens of the next. The page never shows
  outdated code, but it may show none.
* In the language server the last parse to end decides the tree, whichever text
  it read (`OutdatedByOverlapOnly` says that only overlapping parses do this),
  and offsets in the tree's text are turned into positions of the present one
  (`server.ts:217`). A query parses only while there is no tree at all
  (`server.ts:260`): a client that does not ask for tokens, for which the parse on
  opening is made (`server.ts:426`), gets answers from the text as it was opened,
  whatever was typed since. Completion takes the offset before the `await`
  and the text after it (`server.ts:462`).
* In a cycle of formats, a reference that is visited before the cycle is closed
  keeps the size of the first pass after the second; `SizeSound` and
  `FieldsPlaced` are stated for programs without cycles.

## 6. What is not modelled

* The statements other than expressions, scopes, the typing passes, generics,
  block traits, the code generators and the EBM tool chain: sequential
  transformations of trees without a state that outlives a call. `ebmgen` and
  the `ebm2*` programs are for the most part generated code (77 thousand lines
  each for a dozen targets).
* What the language server looks up in a tree (`astlib/ast2ts/src/analyze.ts`),
  its diagnostics, and an `error` event of a process's `stdin`, which nobody
  listens to.
* VM2: unfinished code. `RET` sets the stack pointer to the base pointer before
  it pops, which always traps; `POP`, `INC`, `DEC`, `NEG` and `NOT` fall through
  into the next case; the comparisons are not handled. No program with a call
  runs, and a model would restate single lines. The first VM's `add_static`
  returns the program counter in place of an index, so the programs compiled
  for it do not load.
* The Go and Rust workers of the playground, includes fetched for C++, the third
  stage of the binary-module languages, and a worker whose script does not start
  (`JobManager` only logs its error event).
* The HTTP server of `src2json`: its network library is outside the
  repository. The driver's view (starting, up, stopped) is in `GeneratorHandler`.
* The shared `*Result` that a stream overwrites between two error replies
  (`stdin_stream.go:46`): results are immutable in the model.
* Types of expressions in `type_attribute.cpp` (lines 122-131 and 479-500: a
  `UnionType` is the type of an identifier with a field in each branch of a
  match): they are computed from the types of fields, and no field's size or mark
  is computed from them. Arguments of fields (`peek`, `sub_range`, an explicit
  alignment).
* Encoding of messages.

## 7. Plan

Done: `GeneratorHandler` with `ResultDelivery`, `BrgenMain`, `RequestManager`,
`TokenStream` and `ExprParser`, `TypeAttribute`, `WorkContext` and
`Playground`, `LanguageServer`; proofs of all safety properties of all modules but
`TypeAttribute`, with the exceptions listed in section 4. What could follow:

* `TypeAttribute`: the walks as steps over an explicit stack. Then what a pass
   has marked so far is a state, and an invariant can speak of it.
