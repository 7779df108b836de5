---------------------------- MODULE RequestManager ----------------------------
(***************************************************************************)
(* One generator process serving the requests of many goroutines           *)
(* (astlib/ast2go/request): the client side multiplexes streams over the   *)
(* pipes of the process, a sender and a reader goroutine own the pipes,    *)
(* and the server side runs a handler per request.                         *)
(*                                                                         *)
(* A client is a goroutine that creates a stream, sends one request and    *)
(* receives until EOF or an error, as the driver's handler does.  Pipes    *)
(* carry whole messages: every Write is one message, written under the     *)
(* lock of its file.  The driver keeps the process's ends of both pipes    *)
(* open, so neither side ever sees the other's pipe closed.                *)
(***************************************************************************)
EXTENDS Naturals, Sequences, FiniteSets

CONSTANTS
    Clients,
    MaxReplies,   \* bound: replies of one handler
    PipeCap,      \* messages a pipe holds
    Workers,      \* handlers at work at once: no limit in the Go server, half
                  \* of the processors in the C++ one
    MayExit,      \* how the process may end by itself: "clean", "crashed"
    IOFails       \* a pipe may fail, or a generator print bytes of no message

ASSUME ManagerAssumption ==
    /\ IsFiniteSet(Clients)
    /\ MaxReplies \in Nat
    /\ PipeCap \in Nat \ {0}
    /\ Workers \in Nat \ {0}
    /\ MayExit \subseteq {"clean", "crashed"}
    /\ IOFails \in BOOLEAN

IDs == 1..Cardinality(Clients)

\* What the pipes carry.  `from` stands for the contents: the request of that
\* client, or the k-th reply made from it.
Header == [type |-> "header"]
Request(i, c) == [type |-> "request", id |-> i, from |-> c]
Reply(i, c, k) == [type |-> "reply", id |-> i, from |-> c, k |-> k]
EndOfCode(i) == [type |-> "end", id |-> i]

Requests == {Request(x[1], x[2]) : x \in IDs \X Clients}
Replies == {Reply(x[1], x[2], x[3]) : x \in IDs \X Clients \X (1..MaxReplies)}
Responses == Replies \cup {EndOfCode(i) : i \in IDs}

VARIABLES
    pc,         \* [Clients -> "start" | "send" | "receive" | "eof" | "failed"]
    id,         \* [Clients -> Nat]: the ID of its stream, 0 before there is one
    nextID,
    streams,    \* the map: a function from IDs to clients
    ended,      \* clients whose src channel is closed
    received,   \* [Clients -> Seq(Replies)]
    sender, sending,    \* its state, the request it holds
    reader, reading,    \* its state, the reply it holds
    err,        \* "none" until closeError is closed
    reqPipe, respPipe,
    process,    \* "running" | "clean" | "crashed" | "killed"
    reaped,     \* cmd.Wait has returned
    server,     \* "hello" | "greet" | "serve"
    handler,    \* [Clients -> "none" | "queued" | "run" | "panic" | "ending" | "done"]
    replied     \* [Clients -> Nat]: replies the handler has written

clientVars == <<pc, id, nextID, received>>
mapVars == <<streams, ended>>
senderVars == <<sender, sending>>
readerVars == <<reader, reading>>
closeVars == <<err, process>>
serverVars == <<server, handler, replied>>
vars == <<clientVars, mapVars, senderVars, readerVars, closeVars, reqPipe,
          respPipe, reaped, serverVars>>

Init ==
    /\ pc = [c \in Clients |-> "start"] /\ id = [c \in Clients |-> 0]
    /\ nextID = 1
    /\ streams = <<>> /\ ended = {}
    /\ received = [c \in Clients |-> <<>>]
    /\ sender = "header" /\ sending = <<>>
    /\ reader = "header" /\ reading = <<>>
    /\ err = "none"
    /\ reqPipe = <<>> /\ respPipe = <<>>
    /\ process = "running" /\ reaped = FALSE
    /\ server = "hello"
    /\ handler = [c \in Clients |-> "none"]
    /\ replied = [c \in Clients |-> 0]

Closed == err # "none"

\* closeOnce: the first error is kept; unless it is io.EOF, onError kills the
\* process.
CloseOnce(e) ==
    IF Closed THEN UNCHANGED closeVars
    ELSE /\ err' = e
         /\ process' = IF e # "eof" /\ process = "running" THEN "killed" ELSE process

Put(pipe, m) == Len(pipe) < PipeCap /\ pipe' = Append(pipe, m)

-----------------------------------------------------------------------------
(* Clients.                                                                *)

Goes(c, from, to) == pc[c] = from /\ pc' = [pc EXCEPT ![c] = to]
OnlyClient == UNCHANGED <<readerVars, mapVars, closeVars, reqPipe, respPipe,
                          reaped, serverVars>>

CreateStreamMutant(c) ==
    /\ Goes(c, "start", "send")
    /\ id' = [id EXCEPT ![c] = nextID]
    /\ streams' = [i \in DOMAIN streams \cup {nextID} |->
                     IF i = nextID THEN c ELSE streams[i]]
    /\ UNCHANGED <<nextID, received, ended, senderVars, readerVars, closeVars,
                   reqPipe, respPipe, reaped, serverVars>>

\* Under mapLock.
CreateStream(c) ==
    /\ Goes(c, "start", "send")
    /\ id' = [id EXCEPT ![c] = nextID]
    /\ nextID' = nextID + 1
    /\ streams' = [i \in DOMAIN streams \cup {nextID} |->
                     IF i = nextID THEN c ELSE streams[i]]
    /\ UNCHANGED <<received, ended, senderVars, readerVars, closeVars, reqPipe,
                   respPipe, reaped, serverVars>>

\* The send on s.base.send meets the sender's select.
SendRequest(c) ==
    /\ sender = "select"
    /\ Goes(c, "send", "receive")
    /\ sender' = "write" /\ sending' = <<Request(id[c], c)>>
    /\ UNCHANGED <<id, nextID, received>> /\ OnlyClient

\* <-closeError
SendFails(c) ==
    /\ Closed /\ Goes(c, "send", "failed")
    /\ UNCHANGED <<id, nextID, received, senderVars>> /\ OnlyClient

\* The receive on s.src meets the reader's send.
ReceiveReplyMutant(c) ==
    /\ reader = "deliver" /\ streams[Head(reading).id] = c
    /\ \E to \in {"receive", "failed"} : Goes(c, "receive", to)
    /\ received' = [received EXCEPT ![c] = Append(@, Head(reading))]
    /\ reader' = "read" /\ reading' = <<>>
    /\ UNCHANGED <<id, nextID, mapVars, senderVars, closeVars, reqPipe, respPipe,
                   reaped, serverVars>>

ReceiveReply(c) ==
    /\ reader = "deliver" /\ streams[Head(reading).id] = c
    /\ pc[c] = "receive"
    /\ received' = [received EXCEPT ![c] = Append(@, Head(reading))]
    /\ reader' = "read" /\ reading' = <<>>
    /\ UNCHANGED <<pc, id, nextID, mapVars, senderVars, closeVars, reqPipe,
                   respPipe, reaped, serverVars>>

\* s.src is closed: nil, which ReceiveResponse turns into io.EOF.
ReceiveEnd(c) ==
    /\ c \in ended /\ Goes(c, "receive", "eof")
    /\ UNCHANGED <<id, nextID, received, senderVars>> /\ OnlyClient

\* <-closeError, which the select may prefer to a reply that is ready.  The
\* caller takes io.EOF for the end of its stream.
ReceiveFails(c) ==
    /\ Closed /\ Goes(c, "receive", IF err = "eof" THEN "eof" ELSE "failed")
    /\ UNCHANGED <<id, nextID, received, senderVars>> /\ OnlyClient

-----------------------------------------------------------------------------
(* sender().                                                               *)

OnlySender == UNCHANGED <<clientVars, mapVars, readerVars, respPipe, reaped,
                          serverVars>>

WriteHeader ==
    /\ sender = "header" /\ sender' = "select"
    /\ Put(reqPipe, Header)
    /\ UNCHANGED <<sending, closeVars>> /\ OnlySender

WriteRequestMutant ==
    /\ sender = "write" /\ sender' = "select" /\ sending' = <<>>
    /\ reqPipe' = Append(reqPipe, Head(sending))
    /\ UNCHANGED closeVars /\ OnlySender

WriteRequest ==
    /\ sender = "write" /\ sender' = "select" /\ sending' = <<>>
    /\ Put(reqPipe, Head(sending))
    /\ UNCHANGED closeVars /\ OnlySender

WriteFails ==
    /\ IOFails /\ sender \in {"header", "write"}
    /\ sender' = "done" /\ sending' = <<>>
    /\ CloseOnce("fail")
    /\ UNCHANGED reqPipe /\ OnlySender

SenderStops ==
    /\ sender = "select" /\ Closed
    /\ sender' = "done"
    /\ UNCHANGED <<sending, reqPipe, closeVars>> /\ OnlySender

-----------------------------------------------------------------------------
(* reader().                                                               *)

OnlyReader == UNCHANGED <<clientVars, senderVars, reqPipe, reaped, serverVars>>
Got(m) == respPipe # <<>> /\ Head(respPipe) = m /\ respPipe' = Tail(respPipe)

ReadHeader ==
    /\ reader = "header" /\ Got(Header)
    /\ reader' = "read"
    /\ UNCHANGED <<reading, mapVars, closeVars>> /\ OnlyReader

\* "stream %d not found": no stream is left open.
Stray ==
    /\ reader' = "done"
    /\ CloseOnce("stray")
    /\ UNCHANGED <<reading, mapVars>>

EndStream(i) ==
    /\ ended' = ended \cup {streams[i]}
    /\ streams' = [j \in DOMAIN streams \ {i} |-> streams[j]]
    /\ UNCHANGED <<readerVars, closeVars>>

ReadEnd ==
    /\ reader = "read"
    /\ \E i \in IDs :
        /\ Got(EndOfCode(i))
        /\ IF i \in DOMAIN streams THEN EndStream(i) ELSE Stray
    /\ OnlyReader

HoldReplyMutant(m) ==
    /\ \/ reader' = "deliver" /\ reading' = <<m>>
       \/ UNCHANGED readerVars
    /\ UNCHANGED <<mapVars, closeVars>>

\* The reader blocks in got.src <- m.
HoldReply(m) ==
    /\ reader' = "deliver" /\ reading' = <<m>>
    /\ UNCHANGED <<mapVars, closeVars>>

ReadReply ==
    /\ reader = "read"
    /\ \E m \in Replies :
        /\ Got(m)
        /\ IF m.id \in DOMAIN streams THEN HoldReply(m) ELSE Stray
    /\ OnlyReader

ReadFails ==
    /\ IOFails /\ reader \in {"header", "read"}
    /\ reader' = "done"
    /\ CloseOnce("fail")
    /\ UNCHANGED <<reading, mapVars, respPipe>> /\ OnlyReader

-----------------------------------------------------------------------------
(* The process: Run, its handlers, and its end.                            *)

Running == process = "running"
OnlyServer == UNCHANGED <<clientVars, mapVars, senderVars, readerVars,
                          closeVars, reaped>>
Handles(c, from, to) == handler[c] = from /\ handler' = [handler EXCEPT ![c] = to]

\* handshake: our header first, then the client's.
ServerHello ==
    /\ Running /\ server = "hello" /\ server' = "greet"
    /\ Put(respPipe, Header)
    /\ UNCHANGED <<reqPipe, handler, replied>> /\ OnlyServer

ServerGreets ==
    /\ Running /\ server = "greet" /\ server' = "serve"
    /\ reqPipe # <<>> /\ reqPipe' = Tail(reqPipe)
    /\ UNCHANGED <<respPipe, handler, replied>> /\ OnlyServer

ServerReceives(c) ==
    /\ Running /\ server = "serve"
    /\ reqPipe # <<>> /\ Head(reqPipe) = Request(id[c], c)
    /\ reqPipe' = Tail(reqPipe)
    /\ Handles(c, "none", "queued")
    /\ UNCHANGED <<respPipe, server, replied>> /\ OnlyServer

Working == {c \in Clients : handler[c] \in {"run", "panic", "ending"}}

HandlerStarts(c) ==
    /\ Running /\ Cardinality(Working) < Workers
    /\ Handles(c, "queued", "run")
    /\ UNCHANGED <<reqPipe, respPipe, server, replied>> /\ OnlyServer

\* RespondSource or RespondError, by the callback or, after a panic, by the
\* deferred recover.
Respond(c, from, to) ==
    /\ Running /\ replied[c] < MaxReplies
    /\ Handles(c, from, to)
    /\ replied' = [replied EXCEPT ![c] = @ + 1]
    /\ Put(respPipe, Reply(id[c], c, replied[c] + 1))
    /\ UNCHANGED <<reqPipe, server>> /\ OnlyServer

HandlerReplies(c) == Respond(c, "run", "run")

HandlerReturns(c) ==
    /\ Running /\ Handles(c, "run", "ending")
    /\ UNCHANGED <<reqPipe, respPipe, server, replied>> /\ OnlyServer

HandlerPanics(c) ==
    /\ Running /\ replied[c] < MaxReplies
    /\ Handles(c, "run", "panic")
    /\ UNCHANGED <<reqPipe, respPipe, server, replied>> /\ OnlyServer

HandlerRecovers(c) == Respond(c, "panic", "ending")

HandlerEndsMutant(c) ==
    /\ Running
    /\ Handles(c, "ending", "done") \/ Handles(c, "panic", "panic")
    /\ Put(respPipe, EndOfCode(id[c]))
    /\ UNCHANGED <<reqPipe, server, replied>> /\ OnlyServer

\* The outermost deferred call: RespondEnd.
HandlerEnds(c) ==
    /\ Running /\ Handles(c, "ending", "done")
    /\ Put(respPipe, EndOfCode(id[c]))
    /\ UNCHANGED <<reqPipe, server, replied>> /\ OnlyServer

\* A generator is a program of its own; it may end at any time.
ProcessExits ==
    /\ Running /\ process' \in MayExit
    /\ UNCHANGED <<clientVars, mapVars, senderVars, readerVars, err, reqPipe,
                   respPipe, reaped, serverVars>>

ReapMutant ==
    /\ ~Running /\ ~reaped /\ reaped' = TRUE
    /\ IF process = "clean" THEN CloseOnce("eof") ELSE UNCHANGED closeVars
    /\ UNCHANGED <<clientVars, mapVars, senderVars, readerVars, reqPipe,
                   respPipe, serverVars>>

\* cmd.Wait returns: CloseWithError, where no error becomes io.EOF.  What is
\* left in the pipe has not been read.
Reap ==
    /\ ~Running /\ ~reaped /\ reaped' = TRUE
    /\ CloseOnce(IF process = "clean" THEN "eof" ELSE "fail")
    /\ UNCHANGED <<clientVars, mapVars, senderVars, readerVars, reqPipe,
                   respPipe, serverVars>>

-----------------------------------------------------------------------------
ClientStep(c) ==
    \/ CreateStream(c) \/ SendRequest(c) \/ SendFails(c)
    \/ ReceiveReply(c) \/ ReceiveEnd(c) \/ ReceiveFails(c)

SenderStep == WriteHeader \/ WriteRequest \/ SenderStops
ReaderStep == ReadHeader \/ ReadEnd \/ ReadReply
ServerStep == ServerHello \/ ServerGreets \/ \E c \in Clients : ServerReceives(c)

HandlerStep(c) ==
    \/ HandlerStarts(c) \/ HandlerReplies(c) \/ HandlerReturns(c)
    \/ HandlerPanics(c) \/ HandlerRecovers(c) \/ HandlerEnds(c)

Served == \A c \in Clients : pc[c] \in {"eof", "failed"}

Next ==
    \/ \E c \in Clients : ClientStep(c) \/ HandlerStep(c)
    \/ SenderStep \/ WriteFails
    \/ ReaderStep \/ ReadFails
    \/ ServerStep
    \/ ProcessExits \/ Reap
    \/ Served /\ UNCHANGED vars

Spec == Init /\ [][Next]_vars

(* Goroutines, threads and the operating system make progress; processes   *)
(* need not exit and pipes need not fail.                                  *)
FairSpec ==
    /\ Spec
    /\ \A c \in Clients : WF_vars(ClientStep(c)) /\ WF_vars(HandlerStep(c))
    /\ WF_vars(SenderStep) /\ WF_vars(ReaderStep) /\ WF_vars(ServerStep)
    /\ WF_vars(Reap)

-----------------------------------------------------------------------------
(* Properties.                                                             *)

TypeOK ==
    /\ pc \in [Clients -> {"start", "send", "receive", "eof", "failed"}]
    /\ id \in [Clients -> {0} \cup IDs]
    /\ nextID \in 1..(Cardinality(Clients) + 1)
    /\ DOMAIN streams \subseteq IDs /\ \A i \in DOMAIN streams : streams[i] \in Clients
    /\ ended \subseteq Clients
    /\ received \in [Clients -> Seq(Replies)]
    /\ sender \in {"header", "select", "write", "done"}
    /\ sending \in Seq(Requests) /\ Len(sending) = (IF sender = "write" THEN 1 ELSE 0)
    /\ reader \in {"header", "read", "deliver", "done"}
    /\ reading \in Seq(Replies) /\ Len(reading) = (IF reader = "deliver" THEN 1 ELSE 0)
    /\ err \in {"none", "eof", "fail", "stray"}
    /\ reqPipe \in Seq(Requests \cup {Header}) /\ Len(reqPipe) <= PipeCap
    /\ respPipe \in Seq(Responses \cup {Header}) /\ Len(respPipe) <= PipeCap
    /\ process \in {"running", "clean", "crashed", "killed"}
    /\ reaped \in BOOLEAN
    /\ server \in {"hello", "greet", "serve"}
    /\ handler \in [Clients -> {"none", "queued", "run", "panic", "ending", "done"}]
    /\ replied \in [Clients -> 0..MaxReplies]

\* A client receives the replies its own handler made from its own request,
\* in the order they were made and without gaps, however the streams mix in
\* the pipes.
RepliesInOrder ==
    \A c \in Clients :
        /\ Len(received[c]) <= replied[c]
        /\ \A k \in DOMAIN received[c] : received[c][k] = Reply(id[c], c, k)

\* Unless the process exited by itself with status 0, a client that sees EOF
\* has every reply, and its handler is done.
EofIsComplete ==
    \A c \in Clients : pc[c] = "eof" /\ process # "clean" =>
        handler[c] = "done" /\ Len(received[c]) = replied[c]

\* The server answers a stream while it is in the client's map and never
\* after its end, so no response closes the streams of everybody.
NoStray == err # "stray"

\* While the manager is open, the single reader never waits for a client
\* that has stopped receiving: nobody's replies are held up for good.
ReaderWaitsForReceiver ==
    reader = "deliver" /\ ~Closed => pc[streams[Head(reading).id]] = "receive"

\* Every client gets EOF or an error, with the smallest pipes, whatever the
\* process does.
AllServed == <>Served

\* generator.bgn: the sources of a response "is sent asynchroniously and
\* terminated by EOF".  EOF comes after the replies.
RepliesBeforeEof ==
    \A c \in Clients : pc[c] = "eof" => Len(received[c]) = replied[c]
=============================================================================
