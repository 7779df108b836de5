------------------------- MODULE RequestManagerProofs -------------------------
(***************************************************************************)
(* The safety properties of RequestManager for any number of clients,      *)
(* replies and workers and any size of the pipes.                          *)
(*                                                                         *)
(* What a client has received says nothing of what is still on its way, so *)
(* the invariant accounts for every reply a handler has made: the first    *)
(* ones have been received, at most one is in the reader's hands, and the  *)
(* rest are in the pipe, each once, in order, and before the end of the    *)
(* stream.  No reply is lost, so the end of a stream comes after all of    *)
(* them; and a stream leaves the map only with its end, so the reader      *)
(* always finds the stream of what it reads.                               *)
(***************************************************************************)
EXTENDS RequestManager, TLAPS, FiniteSetTheorems, SequenceTheorems

Started == {c \in Clients : pc[c] # "start"}
Sent == {c \in Clients : pc[c] \notin {"start", "send"}}

\* IDs are handed out one by one, so that no two streams share one.
IdsInv ==
    /\ nextID = Cardinality(Started) + 1
    /\ \A c \in Started : id[c] \in 1..(nextID - 1)
    /\ \A c, d \in Started : id[c] = id[d] => c = d

\* The map holds the streams that have been created and have not ended.
MapInv ==
    /\ \A i \in DOMAIN streams :
         streams[i] \in Started \ ended /\ id[streams[i]] = i
    /\ \A c \in Started \ ended : id[c] \in DOMAIN streams /\ streams[id[c]] = c

\* A request on its way is that of a client that waits for its replies.
IsRequest(m) == \E c \in Sent : m = Request(id[c], c)
RequestsInv ==
    /\ \A j \in DOMAIN reqPipe : reqPipe[j] = Header \/ IsRequest(reqPipe[j])
    /\ sender = "write" => IsRequest(Head(sending))

\* A handler works for a client that has sent its request, and the stream of a
\* client ends when its handler is done and all its replies are received.
HandlersInv == \A c \in Clients :
    /\ handler[c] # "none" => c \in Sent
    /\ handler[c] \in {"none", "queued"} => replied[c] = 0
    /\ c \in ended => handler[c] = "done" /\ Len(received[c]) = replied[c]

\* Replies of c that have left the pipe.
Read(c) == IF reader = "deliver" /\ Head(reading).from = c
           THEN Len(received[c]) + 1 ELSE Len(received[c])

ReadingInv ==
    /\ \A c \in Clients : Read(c) <= replied[c]
    /\ reader = "deliver" =>
         \E c \in Clients : Head(reading) = Reply(id[c], c, Len(received[c]) + 1)

\* What the pipe to the client holds: replies that have not been read, and ends
\* of streams that are still in the map.
IsReply(m) == \E c \in Clients : \E k \in (Read(c) + 1)..replied[c] : m = Reply(id[c], c, k)
IsEnd(m) == \E c \in Clients \ ended : handler[c] = "done" /\ m = EndOfCode(id[c])

ContentsInv == \A j \in DOMAIN respPipe :
    respPipe[j] = Header \/ IsReply(respPipe[j]) \/ IsEnd(respPipe[j])
\* No reply is lost on the way.
CompleteInv == \A c \in Clients : \A k \in (Read(c) + 1)..replied[c] :
    \E j \in DOMAIN respPipe : respPipe[j] = Reply(id[c], c, k)
\* The replies of a stream are in order, and nothing of it follows its end.
OrderInv == \A i, j \in DOMAIN respPipe : i < j =>
    /\ respPipe[i].type = "reply" /\ respPipe[j].type = "reply"
         /\ respPipe[i].id = respPipe[j].id => respPipe[i].k < respPipe[j].k
    /\ respPipe[i].type = "end" /\ respPipe[j].type # "header" =>
         respPipe[i].id # respPipe[j].id

\* io.EOF stands for a clean exit; while the manager is open, a client stops
\* receiving only at the end of its stream.
ClosingInv ==
    /\ err # "stray"
    /\ err = "eof" => process = "clean"
    /\ ~Closed => \A c \in Clients : pc[c] \in {"eof", "failed"} => c \in ended

Inv == /\ TypeOK /\ IdsInv /\ MapInv /\ RequestsInv /\ HandlersInv /\ ReadingInv
       /\ ContentsInv /\ CompleteInv /\ OrderInv /\ ClosingInv
       /\ RepliesInOrder /\ EofIsComplete

-----------------------------------------------------------------------------
(* Pipes and messages.                                                     *)

(* What a write adds to a pipe, position by position.                      *)
LEMMA PutAt ==
  ASSUME NEW S, NEW p \in Seq(S), NEW m \in S
  PROVE  /\ Append(p, m) \in Seq(S)
         /\ Len(Append(p, m)) = Len(p) + 1
         /\ Append(p, m)[Len(p) + 1] = m
         /\ DOMAIN Append(p, m) = DOMAIN p \cup {Len(p) + 1}
         /\ \A j \in DOMAIN p : Append(p, m)[j] = p[j] /\ j < Len(p) + 1 /\ j \in Nat
  BY AppendProperties, LenProperties

(* What a read leaves in a pipe, position by position.                     *)
LEMMA TakeAt ==
  ASSUME NEW S, NEW p \in Seq(S), p # <<>>
  PROVE  /\ Tail(p) \in Seq(S)
         /\ Len(Tail(p)) = Len(p) - 1
         /\ Head(p) = p[1] /\ Head(p) \in S /\ 1 \in DOMAIN p
         /\ \A j \in DOMAIN Tail(p) :
              j + 1 \in DOMAIN p /\ 1 < j + 1 /\ Tail(p)[j] = p[j + 1] /\ j \in Nat
         /\ \A j \in DOMAIN p : j # 1 =>
              j - 1 \in DOMAIN Tail(p) /\ Tail(p)[j - 1] = p[j] /\ 1 < j
  BY HeadTailProperties, LenProperties

(* The hand that holds one message.                                        *)
LEMMA OneAt ==
  ASSUME NEW S, NEW m \in S
  PROVE  <<m>> \in Seq(S) /\ Len(<<m>>) = 1 /\ Head(<<m>>) = m
  OBVIOUS

(* The messages of one pipe are told apart by their types.                 *)
LEMMA Messages ==
  /\ \A i \in IDs, c \in Clients : Request(i, c) \in Requests
  /\ \A i \in IDs, c \in Clients, k \in 1..MaxReplies : Reply(i, c, k) \in Replies
  /\ \A m \in Replies : m.id \in IDs /\ m.from \in Clients /\ m.k \in 1..MaxReplies
                        /\ m = Reply(m.id, m.from, m.k)
  /\ \A m \in Requests : m # Header
  /\ \A i \in IDs : EndOfCode(i) \in Responses
  /\ Replies \subseteq Responses
  <1>1. ASSUME NEW i \in IDs, NEW c \in Clients
        PROVE  Request(i, c) \in Requests
    <2>1. <<i, c>> \in IDs \X Clients /\ <<i, c>>[1] = i /\ <<i, c>>[2] = c
      OBVIOUS
    <2> QED BY <2>1 DEF Requests
  <1>2. ASSUME NEW i \in IDs, NEW c \in Clients, NEW k \in 1..MaxReplies
        PROVE  Reply(i, c, k) \in Replies
    <2>1. /\ <<i, c, k>> \in IDs \X Clients \X (1..MaxReplies)
          /\ <<i, c, k>>[1] = i /\ <<i, c, k>>[2] = c /\ <<i, c, k>>[3] = k
      OBVIOUS
    <2> QED BY <2>1 DEF Replies
  <1>3. ASSUME NEW m \in Replies
        PROVE  /\ m.id \in IDs /\ m.from \in Clients /\ m.k \in 1..MaxReplies
               /\ m = Reply(m.id, m.from, m.k)
    <2>1. PICK x \in IDs \X Clients \X (1..MaxReplies) : m = Reply(x[1], x[2], x[3])
      BY DEF Replies
    <2>2. x[1] \in IDs /\ x[2] \in Clients /\ x[3] \in 1..MaxReplies
      OBVIOUS
    <2>3. m.id = x[1] /\ m.from = x[2] /\ m.k = x[3]
      BY <2>1 DEF Reply
    <2> QED BY <2>1, <2>2, <2>3
  <1>4. \A m \in Requests : m # Header
    BY DEF Requests, Request, Header
  <1> QED BY <1>1, <1>2, <1>3, <1>4 DEF Responses

(* No more IDs are handed out than there are clients.                      *)
LEMMA IdsBounded ==
  ASSUME TypeOK, IdsInv
  PROVE  /\ IsFiniteSet(Started) /\ Cardinality(Started) \in Nat
         /\ Cardinality(Started) <= Cardinality(Clients)
         /\ Cardinality(Clients) \in Nat
         /\ \A c \in Started : id[c] \in IDs
         /\ Sent \subseteq Started
  <1>1. IsFiniteSet(Clients) /\ Started \subseteq Clients
    BY ManagerAssumption DEF Started
  <1>2. /\ IsFiniteSet(Started) /\ Cardinality(Started) \in Nat
        /\ Cardinality(Started) <= Cardinality(Clients)
        /\ Cardinality(Clients) \in Nat
    BY <1>1, FS_Subset, FS_CardinalityType
  <1>3. \A c \in Started : id[c] \in IDs
    BY <1>2 DEF IdsInv, IDs
  <1>4. Sent \subseteq Started
    BY DEF Started, Sent
  <1> QED BY <1>2, <1>3, <1>4

(* Nothing is on its way at first.                                         *)
LEMMA InvInit == Init => Inv
  <1> SUFFICES ASSUME Init PROVE Inv
    OBVIOUS
  <1>1. Started = {} /\ Sent = {} /\ DOMAIN streams = {} /\ DOMAIN respPipe = {}
        /\ DOMAIN reqPipe = {}
    BY DEF Init, Started, Sent
  <1>2. /\ Cardinality(Started) = 0
        /\ Cardinality(Clients) \in Nat
    BY <1>1, FS_EmptySet, FS_CardinalityType, ManagerAssumption
  <1>3. TypeOK
    <2>1. /\ pc \in [Clients -> {"start", "send", "receive", "eof", "failed"}]
          /\ id \in [Clients -> {0} \cup IDs]
          /\ received \in [Clients -> Seq(Replies)]
          /\ handler \in [Clients -> {"none", "queued", "run", "panic", "ending", "done"}]
          /\ replied \in [Clients -> 0..MaxReplies]
      BY ManagerAssumption DEF Init
    <2>2. /\ nextID \in 1..(Cardinality(Clients) + 1)
          /\ DOMAIN streams \subseteq IDs
          /\ \A i \in DOMAIN streams : streams[i] \in Clients
      BY <1>1, <1>2 DEF Init
    <2>3. /\ sending \in Seq(Requests) /\ Len(sending) = 0 /\ sender # "write"
          /\ reading \in Seq(Replies) /\ Len(reading) = 0 /\ reader # "deliver"
      BY DEF Init
    <2>4. /\ reqPipe \in Seq(Requests \cup {Header}) /\ Len(reqPipe) <= PipeCap
          /\ respPipe \in Seq(Responses \cup {Header}) /\ Len(respPipe) <= PipeCap
      BY ManagerAssumption DEF Init
    <2>5. /\ ended \subseteq Clients
          /\ sender \in {"header", "select", "write", "done"}
          /\ reader \in {"header", "read", "deliver", "done"}
          /\ err \in {"none", "eof", "fail", "stray"}
          /\ process \in {"running", "clean", "crashed", "killed"}
          /\ reaped \in BOOLEAN
          /\ server \in {"hello", "greet", "serve"}
      BY DEF Init
    <2> QED BY <2>1, <2>2, <2>3, <2>4, <2>5 DEF TypeOK
  <1>4. IdsInv /\ MapInv /\ RequestsInv
    BY <1>1, <1>2 DEF Init, IdsInv, MapInv, RequestsInv, Started
  <1>5. HandlersInv /\ ReadingInv /\ ClosingInv
    BY DEF Init, HandlersInv, ReadingInv, Read, ClosingInv, Closed
  <1>6. ContentsInv /\ OrderInv
    BY <1>1 DEF ContentsInv, OrderInv
  <1>7. CompleteInv /\ RepliesInOrder /\ EofIsComplete
    BY DEF Init, CompleteInv, Read, RepliesInOrder, EofIsComplete
  <1> QED BY <1>3, <1>4, <1>5, <1>6, <1>7 DEF Inv

-----------------------------------------------------------------------------
(* Steps that touch neither the responses nor the counts of replies.       *)

(* What such a step keeps.                                                 *)
LEMMA ResponsesKept ==
  ASSUME TypeOK, HandlersInv, ReadingInv, ContentsInv, CompleteInv, OrderInv,
         RepliesInOrder,
         UNCHANGED <<respPipe, reader, reading, received, replied, ended>>,
         \A c \in Clients : handler[c] # "none" => id'[c] = id[c],
         \A c \in Clients : handler[c] = "done" => handler'[c] = "done"
  PROVE  ReadingInv' /\ ContentsInv' /\ CompleteInv' /\ OrderInv' /\ RepliesInOrder'
  <1>1. \A c \in Clients : Read(c)' = Read(c)
    BY DEF Read
  <1>2. \A c \in Clients : /\ Len(received[c]) \in Nat /\ Read(c) \in Nat
                           /\ Len(received[c]) <= Read(c)
                           /\ replied[c] \in Nat /\ Read(c) <= replied[c]
    <2>1. \A c \in Clients : Len(received[c]) \in Nat
      BY LenProperties DEF TypeOK
    <2>2. \A c \in Clients : replied[c] \in Nat
      BY ManagerAssumption DEF TypeOK
    <2>3. \A c \in Clients : Read(c) \in Nat /\ Len(received[c]) <= Read(c)
      BY <2>1 DEF Read
    <2> QED BY <2>1, <2>2, <2>3 DEF ReadingInv
  <1>3. \A c \in Clients : replied[c] > 0 => id'[c] = id[c]
    BY DEF HandlersInv
  <1>4. ReadingInv'
    <2>1. ASSUME reader = "deliver"
          PROVE  \E c \in Clients : Head(reading) = Reply(id[c], c, Len(received[c]) + 1)
                                    /\ id'[c] = id[c]
      <3>1. PICK c \in Clients : Head(reading) = Reply(id[c], c, Len(received[c]) + 1)
        BY <2>1 DEF ReadingInv
      <3>2. Head(reading).from = c
        BY <3>1 DEF Reply
      <3>3. replied[c] > 0
        BY <1>2, <2>1, <3>2 DEF Read
      <3> QED BY <1>3, <3>1, <3>3
    <2> QED BY <1>1, <2>1 DEF ReadingInv
  <1>5. ASSUME NEW j \in DOMAIN respPipe
        PROVE  respPipe[j] = Header \/ IsReply(respPipe[j])' \/ IsEnd(respPipe[j])'
    <2>1. CASE respPipe[j] = Header
      BY <2>1
    <2>2. CASE IsReply(respPipe[j])
      <3>1. PICK c \in Clients : \E k \in (Read(c) + 1)..replied[c] :
              respPipe[j] = Reply(id[c], c, k)
        BY <2>2 DEF IsReply
      <3>2. replied[c] > 0
        BY <1>2, <3>1
      <3>3. (Read(c)' + 1)..replied'[c] = (Read(c) + 1)..replied[c]
        BY <1>1
      <3> QED BY <1>3, <3>1, <3>2, <3>3 DEF IsReply
    <2>3. CASE IsEnd(respPipe[j])
      BY <2>3 DEF IsEnd
    <2> QED BY <2>1, <2>2, <2>3 DEF ContentsInv
  <1>6. ContentsInv'
    BY <1>5 DEF ContentsInv
  <1>7. CompleteInv'
    <2> SUFFICES ASSUME NEW c \in Clients, NEW k \in (Read(c) + 1)..replied[c]
                 PROVE  \E j \in DOMAIN respPipe : respPipe[j] = Reply(id'[c], c, k)
      BY <1>1 DEF CompleteInv
    <2>1. replied[c] > 0
      BY <1>2
    <2> QED BY <1>3, <2>1 DEF CompleteInv
  <1>8. OrderInv'
    BY DEF OrderInv
  <1>9. RepliesInOrder'
    <2> SUFFICES ASSUME NEW c \in Clients
                 PROVE  /\ Len(received[c]) <= replied[c]
                        /\ \A k \in DOMAIN received[c] : received[c][k] = Reply(id'[c], c, k)
      BY DEF RepliesInOrder
    <2>1. ASSUME NEW k \in DOMAIN received[c]
          PROVE  received[c][k] = Reply(id'[c], c, k)
      <3>1. received[c] \in Seq(Replies)
        BY DEF TypeOK
      <3>2. replied[c] > 0
        BY <1>2, <3>1, LenProperties
      <3> QED BY <1>3, <3>2 DEF RepliesInOrder
    <2> QED BY <2>1 DEF RepliesInOrder
  <1> QED BY <1>4, <1>6, <1>7, <1>8, <1>9

-----------------------------------------------------------------------------
(* Clients.                                                                *)

(* A client that is past its request keeps the sets of clients.            *)
LEMMA LaterMove ==
  ASSUME TypeOK, NEW c \in Clients, NEW from \in {"receive", "eof", "failed"},
         NEW to \in {"receive", "eof", "failed"}, Goes(c, from, to)
  PROVE  Started' = Started /\ Sent' = Sent
  BY DEF TypeOK, Goes, Started, Sent

(* A new stream gets an ID that no other has.                              *)
LEMMA CreateKeeps ==
  ASSUME Inv, NEW c \in Clients, CreateStream(c)
  PROVE  Inv'
  <1>0. /\ TypeOK /\ IdsInv /\ MapInv /\ RequestsInv /\ HandlersInv /\ ReadingInv
        /\ ContentsInv /\ CompleteInv /\ OrderInv /\ ClosingInv
        /\ RepliesInOrder /\ EofIsComplete
    BY DEF Inv
  <1>1. /\ pc[c] = "start" /\ pc' = [pc EXCEPT ![c] = "send"]
        /\ id' = [id EXCEPT ![c] = nextID] /\ nextID' = nextID + 1
        /\ streams' = [i \in DOMAIN streams \cup {nextID} |->
                         IF i = nextID THEN c ELSE streams[i]]
    BY DEF CreateStream, Goes
  <1>2. /\ UNCHANGED <<received, ended, sender, sending, reader, reading, err,
                       process, reqPipe, respPipe, reaped, server, handler, replied>>
    BY DEF CreateStream, senderVars, readerVars, closeVars, serverVars
  <1>3. Started' = Started \cup {c} /\ c \notin Started /\ Sent' = Sent /\ c \notin Sent
    BY <1>0, <1>1 DEF TypeOK, Started, Sent
  <1>4. /\ IsFiniteSet(Started) /\ Cardinality(Started) \in Nat
        /\ Cardinality(Clients) \in Nat
        /\ \A d \in Started : id[d] \in IDs
        /\ Sent \subseteq Started
    BY <1>0, IdsBounded
  <1>5. Cardinality(Started') = Cardinality(Started) + 1
    BY <1>3, <1>4, FS_AddElement
  <1>6. Cardinality(Started') <= Cardinality(Clients)
    BY <1>3, ManagerAssumption, FS_Subset DEF Started
  <1>7. /\ nextID \in IDs /\ nextID = Cardinality(Started) + 1
        /\ \A d \in Started : id'[d] = id[d] /\ id[d] < nextID
        /\ id'[c] = nextID
        /\ \A i \in DOMAIN streams : i < nextID
    <2>1. nextID \in IDs /\ nextID = Cardinality(Started) + 1
      BY <1>0, <1>4, <1>5, <1>6 DEF IdsInv, IDs
    <2>2. \A d \in Started : id'[d] = id[d] /\ id[d] < nextID
      <3> SUFFICES ASSUME NEW d \in Started PROVE id'[d] = id[d] /\ id[d] < nextID
        OBVIOUS
      <3>1. d # c /\ d \in Clients
        BY <1>3 DEF Started
      <3>2. id'[d] = id[d]
        BY <1>0, <1>1, <3>1 DEF TypeOK
      <3>3. id[d] < nextID
        BY <1>0, <1>4, <2>1 DEF IdsInv, IDs
      <3> QED BY <3>2, <3>3
    <2>3. id'[c] = nextID
      BY <1>0, <1>1 DEF TypeOK
    <2>4. \A i \in DOMAIN streams : i < nextID
      BY <1>0, <2>2 DEF MapInv
    <2> QED BY <2>1, <2>2, <2>3, <2>4
  <1>8. handler[c] = "none" /\ replied[c] = 0
    BY <1>0, <1>3 DEF HandlersInv, TypeOK
  <1>9. TypeOK'
    BY <1>0, <1>1, <1>2, <1>4, <1>5, <1>6, <1>7 DEF TypeOK, IDs
  <1>10. IdsInv'
    BY <1>0, <1>1, <1>3, <1>4, <1>5, <1>7 DEF IdsInv
  <1>11. MapInv'
    BY <1>0, <1>1, <1>2, <1>3, <1>7, <1>8 DEF MapInv, HandlersInv
  <1>12. RequestsInv'
    BY <1>0, <1>2, <1>3, <1>4, <1>7 DEF RequestsInv, IsRequest
  <1>13. HandlersInv'
    BY <1>0, <1>2, <1>3 DEF HandlersInv
  <1>14. \A d \in Clients : handler[d] # "none" => id'[d] = id[d]
    BY <1>0, <1>1, <1>8 DEF TypeOK
  <1>15. ReadingInv' /\ ContentsInv' /\ CompleteInv' /\ OrderInv' /\ RepliesInOrder'
    BY <1>0, <1>2, <1>14, ResponsesKept
  <1>16. ClosingInv'
    BY <1>0, <1>1, <1>2 DEF ClosingInv, Closed, TypeOK
  <1>17. EofIsComplete'
    BY <1>0, <1>1, <1>2 DEF EofIsComplete, TypeOK
  <1> QED BY <1>9, <1>10, <1>11, <1>12, <1>13, <1>15, <1>16, <1>17
     DEF Inv

(* The send of a request, and what a client does after it.                 *)
LEMMA SendKeeps ==
  ASSUME Inv, NEW c \in Clients, SendRequest(c) \/ SendFails(c)
  PROVE  Inv'
  <1>0. /\ TypeOK /\ IdsInv /\ MapInv /\ RequestsInv /\ HandlersInv /\ ReadingInv
        /\ ContentsInv /\ CompleteInv /\ OrderInv /\ ClosingInv
        /\ RepliesInOrder /\ EofIsComplete
    BY DEF Inv
  <1>1. PICK to \in {"receive", "failed"} :
          pc[c] = "send" /\ pc' = [pc EXCEPT ![c] = to] /\ (Closed \/ to = "receive")
    BY DEF SendRequest, SendFails, Goes
  <1>2. UNCHANGED <<id, nextID, received, streams, ended, reader, reading, err,
                    process, reqPipe, respPipe, reaped, server, handler, replied>>
    BY DEF SendRequest, SendFails, OnlyClient, readerVars, mapVars, closeVars, serverVars
  <1>3. Started' = Started /\ Sent' = Sent \cup {c}
    BY <1>0, <1>1 DEF TypeOK, Started, Sent
  <1>4. \/ sender = "select" /\ sender' = "write" /\ sending' = <<Request(id[c], c)>>
        \/ UNCHANGED <<sender, sending>>
    BY DEF SendRequest, SendFails, senderVars
  <1>5. Request(id[c], c) \in Requests
    <2>1. c \in Started
      BY <1>1 DEF Started
    <2> QED BY <1>0, <2>1, IdsBounded, Messages
  <1>6. TypeOK'
    <2>1. /\ sender' \in {"header", "select", "write", "done"}
          /\ sending' \in Seq(Requests) /\ Len(sending') = (IF sender' = "write" THEN 1 ELSE 0)
      <3>1. CASE UNCHANGED <<sender, sending>>
        BY <1>0, <3>1 DEF TypeOK
      <3>2. CASE sender' = "write" /\ sending' = <<Request(id[c], c)>>
        BY <1>5, <3>2, OneAt
      <3> QED BY <1>4, <3>1, <3>2
    <2> QED BY <1>0, <1>1, <1>2, <2>1 DEF TypeOK
  <1>7. IdsInv' /\ MapInv'
    BY <1>0, <1>2, <1>3 DEF IdsInv, MapInv
  <1>8. RequestsInv'
    <2>1. \A m : IsRequest(m) => IsRequest(m)'
      BY <1>2, <1>3 DEF IsRequest
    <2>2. sender' = "write" => IsRequest(Head(sending))'
      BY <1>0, <1>2, <1>3, <1>4, <2>1 DEF RequestsInv, IsRequest
    <2> QED BY <1>0, <1>2, <2>1, <2>2 DEF RequestsInv
  <1>9. HandlersInv'
    BY <1>0, <1>2, <1>3 DEF HandlersInv
  <1>10. ReadingInv' /\ ContentsInv' /\ CompleteInv' /\ OrderInv' /\ RepliesInOrder'
    BY <1>0, <1>2, ResponsesKept
  <1>11. ClosingInv' /\ EofIsComplete'
    BY <1>0, <1>1, <1>2 DEF ClosingInv, Closed, EofIsComplete, TypeOK
  <1> QED BY <1>6, <1>7, <1>8, <1>9, <1>10, <1>11 DEF Inv

(* A client stops receiving, at the end of its stream or at closeError.    *)
LEMMA LeaveKeeps ==
  ASSUME Inv, NEW c \in Clients, ReceiveEnd(c) \/ ReceiveFails(c)
  PROVE  Inv'
  <1>0. /\ TypeOK /\ IdsInv /\ MapInv /\ RequestsInv /\ HandlersInv /\ ReadingInv
        /\ ContentsInv /\ CompleteInv /\ OrderInv /\ ClosingInv
        /\ RepliesInOrder /\ EofIsComplete
    BY DEF Inv
  <1>1. PICK to \in {"eof", "failed"} :
          /\ pc[c] = "receive" /\ pc' = [pc EXCEPT ![c] = to]
          /\ \/ c \in ended
             \/ Closed /\ (to = "eof" => err = "eof")
    BY DEF ReceiveEnd, ReceiveFails, Goes
  <1>2. UNCHANGED <<id, nextID, received, streams, ended, sender, sending, reader,
                    reading, err, process, reqPipe, respPipe, reaped, server, handler,
                    replied>>
    BY DEF ReceiveEnd, ReceiveFails, OnlyClient, senderVars, readerVars, mapVars,
           closeVars, serverVars
  <1>3. Started' = Started /\ Sent' = Sent
    BY <1>0, <1>1 DEF TypeOK, Started, Sent
  <1>4. TypeOK'
    BY <1>0, <1>1, <1>2 DEF TypeOK
  <1>5. IdsInv' /\ MapInv'
    BY <1>0, <1>2, <1>3 DEF IdsInv, MapInv
  <1>6. RequestsInv'
    BY <1>0, <1>2, <1>3 DEF RequestsInv, IsRequest
  <1>7. HandlersInv'
    BY <1>0, <1>2, <1>3 DEF HandlersInv
  <1>8. ReadingInv' /\ ContentsInv' /\ CompleteInv' /\ OrderInv' /\ RepliesInOrder'
    BY <1>0, <1>2, ResponsesKept
  <1>9. ClosingInv'
    BY <1>0, <1>1, <1>2 DEF ClosingInv, Closed, TypeOK
  <1>10. EofIsComplete'
    BY <1>0, <1>1, <1>2 DEF EofIsComplete, ClosingInv, HandlersInv, TypeOK
  <1> QED BY <1>4, <1>5, <1>6, <1>7, <1>8, <1>9, <1>10 DEF Inv

(* A reply reaches the client it was made for, which is still there.       *)
LEMMA ReceiveKeeps ==
  ASSUME Inv, NEW c \in Clients, ReceiveReply(c)
  PROVE  Inv'
  <1>0. /\ TypeOK /\ IdsInv /\ MapInv /\ RequestsInv /\ HandlersInv /\ ReadingInv
        /\ ContentsInv /\ CompleteInv /\ OrderInv /\ ClosingInv
        /\ RepliesInOrder /\ EofIsComplete
    BY DEF Inv
  <1> DEFINE m == Head(reading)
  <1>1. /\ reader = "deliver" /\ streams[m.id] = c /\ pc[c] = "receive"
        /\ received' = [received EXCEPT ![c] = Append(@, m)]
        /\ reader' = "read" /\ reading' = <<>>
        /\ UNCHANGED <<pc, id, nextID, streams, ended, sender, sending, err, process,
                       reqPipe, respPipe, reaped, server, handler, replied>>
    BY DEF ReceiveReply, mapVars, senderVars, closeVars, serverVars
  <1>2. m = Reply(id[c], c, Len(received[c]) + 1) /\ Len(received[c]) + 1 <= replied[c]
    <2>1. PICK d \in Clients : m = Reply(id[d], d, Len(received[d]) + 1)
      BY <1>0, <1>1 DEF ReadingInv
    <2>2. m.from = d /\ m.id = id[d]
      BY <2>1 DEF Reply
    <2>3. Len(received[d]) + 1 <= replied[d]
      BY <1>0, <1>1, <2>2 DEF ReadingInv, Read
    <2>4. Len(received[d]) \in Nat /\ replied[d] \in Nat
      BY <1>0, LenProperties, ManagerAssumption DEF TypeOK
    <2>5. d \in Started \ ended
      BY <1>0, <2>3, <2>4, IdsBounded DEF HandlersInv
    <2>6. d = c
      BY <1>0, <1>1, <2>2, <2>5 DEF MapInv
    <2> QED BY <2>1, <2>3, <2>6
  <1>3. /\ received[c] \in Seq(Replies) /\ m \in Replies
        /\ received' \in [Clients -> Seq(Replies)]
        /\ received'[c] = Append(received[c], m)
        /\ \A d \in Clients : d # c => received'[d] = received[d]
    <2>1. received[c] \in Seq(Replies) /\ received \in [Clients -> Seq(Replies)]
      BY <1>0 DEF TypeOK
    <2>2. reading \in Seq(Replies) /\ Len(reading) = 1 /\ Len(<<>>) = 0
      BY <1>0, <1>1 DEF TypeOK
    <2>3. m \in Replies
      BY <2>2, HeadTailProperties
    <2>4. Append(received[c], m) \in Seq(Replies)
      BY <2>1, <2>3, AppendProperties
    <2> QED BY <1>1, <2>1, <2>3, <2>4
  <1>4. /\ Len(received'[c]) = Len(received[c]) + 1
        /\ received'[c][Len(received[c]) + 1] = m
        /\ DOMAIN received'[c] = DOMAIN received[c] \cup {Len(received[c]) + 1}
        /\ \A k \in DOMAIN received[c] : received'[c][k] = received[c][k]
    BY <1>3, PutAt
  <1>5. \A d \in Clients : Read(d)' = Read(d)
    <2>1. m.from = c
      BY <1>2 DEF Reply
    <2> QED BY <1>1, <1>3, <1>4, <2>1 DEF Read
  <1>6. TypeOK'
    BY <1>0, <1>1, <1>3 DEF TypeOK
  <1>7. IdsInv' /\ MapInv' /\ RequestsInv'
    BY <1>0, <1>1 DEF IdsInv, MapInv, RequestsInv, IsRequest, Started, Sent
  <1>8. HandlersInv'
    <2>1. c \notin ended
      BY <1>0, <1>2, <1>3, LenProperties DEF HandlersInv
    <2> QED BY <1>0, <1>1, <1>3, <2>1 DEF HandlersInv, Sent
  <1>9. ReadingInv' /\ ContentsInv' /\ CompleteInv' /\ OrderInv'
    BY <1>0, <1>1, <1>5 DEF ReadingInv, ContentsInv, IsReply, IsEnd, CompleteInv, OrderInv
  <1>10. RepliesInOrder'
    BY <1>0, <1>1, <1>2, <1>3, <1>4 DEF RepliesInOrder
  <1>11. ClosingInv' /\ EofIsComplete'
    BY <1>0, <1>1, <1>3 DEF ClosingInv, Closed, EofIsComplete
  <1> QED BY <1>6, <1>7, <1>8, <1>9, <1>10, <1>11 DEF Inv

-----------------------------------------------------------------------------
(* The sender, and the steps that close the manager.                       *)

(* Closing keeps the first error, and io.EOF stands for a clean exit.      *)
LEMMA Closes ==
  ASSUME TypeOK, ClosingInv, EofIsComplete, NEW e \in {"eof", "fail"}, CloseOnce(e),
         e = "eof" => process = "clean",
         UNCHANGED <<pc, ended, handler, received, replied>>
  PROVE  /\ ClosingInv' /\ EofIsComplete'
         /\ err' \in {"none", "eof", "fail", "stray"}
         /\ process' \in {"running", "clean", "crashed", "killed"}
  BY DEF TypeOK, ClosingInv, EofIsComplete, CloseOnce, Closed, closeVars

(* The sender's steps.                                                     *)
LEMMA SenderKeeps ==
  ASSUME Inv, SenderStep \/ WriteFails
  PROVE  Inv'
  <1>0. /\ TypeOK /\ IdsInv /\ MapInv /\ RequestsInv /\ HandlersInv /\ ReadingInv
        /\ ContentsInv /\ CompleteInv /\ OrderInv /\ ClosingInv
        /\ RepliesInOrder /\ EofIsComplete
    BY DEF Inv
  <1>1. UNCHANGED <<pc, id, nextID, received, streams, ended, reader, reading,
                    respPipe, reaped, server, handler, replied>>
    BY DEF SenderStep, WriteHeader, WriteRequest, SenderStops, WriteFails, OnlySender,
           clientVars, mapVars, readerVars, serverVars
  <1>2. IdsInv' /\ MapInv' /\ HandlersInv'
    BY <1>0, <1>1 DEF IdsInv, MapInv, HandlersInv, Started, Sent
  <1>3. ReadingInv' /\ ContentsInv' /\ CompleteInv' /\ OrderInv' /\ RepliesInOrder'
    BY <1>0, <1>1, ResponsesKept
  <1>4. \A m : IsRequest(m)' <=> IsRequest(m)
    BY <1>1 DEF IsRequest, Sent
  <1>5. reqPipe \in Seq(Requests \cup {Header})
    BY <1>0 DEF TypeOK
  <1>6. CASE WriteHeader
    <2>1. /\ sender' = "select" /\ sender = "header" /\ UNCHANGED <<sending, err, process>>
          /\ Len(reqPipe) < PipeCap /\ reqPipe' = Append(reqPipe, Header)
      BY <1>6 DEF WriteHeader, Put, closeVars
    <2>2. /\ reqPipe' \in Seq(Requests \cup {Header})
          /\ Len(reqPipe') = Len(reqPipe) + 1
          /\ reqPipe'[Len(reqPipe) + 1] = Header
          /\ DOMAIN reqPipe' = DOMAIN reqPipe \cup {Len(reqPipe) + 1}
          /\ \A j \in DOMAIN reqPipe : reqPipe'[j] = reqPipe[j]
      BY <1>5, <2>1, PutAt
    <2>3. TypeOK'
      BY <1>0, <1>1, <2>1, <2>2, LenProperties, ManagerAssumption DEF TypeOK
    <2>4. RequestsInv'
      BY <1>0, <1>4, <2>1, <2>2 DEF RequestsInv
    <2>5. ClosingInv' /\ EofIsComplete'
      BY <1>0, <1>1, <2>1 DEF ClosingInv, Closed, EofIsComplete
    <2> QED BY <1>2, <1>3, <2>3, <2>4, <2>5 DEF Inv
  <1>7. CASE WriteRequest
    <2>1. /\ sender = "write" /\ sender' = "select" /\ sending' = <<>>
          /\ UNCHANGED <<err, process>>
          /\ Len(reqPipe) < PipeCap /\ reqPipe' = Append(reqPipe, Head(sending))
      BY <1>7 DEF WriteRequest, Put, closeVars
    <2>2. Head(sending) \in Requests
      <3>1. sending \in Seq(Requests) /\ Len(sending) = 1
        BY <1>0, <2>1 DEF TypeOK
      <3>2. Len(<<>>) = 0
        OBVIOUS
      <3> QED BY <3>1, <3>2, HeadTailProperties
    <2>3. /\ reqPipe' \in Seq(Requests \cup {Header})
          /\ Len(reqPipe') = Len(reqPipe) + 1
          /\ reqPipe'[Len(reqPipe) + 1] = Head(sending)
          /\ DOMAIN reqPipe' = DOMAIN reqPipe \cup {Len(reqPipe) + 1}
          /\ \A j \in DOMAIN reqPipe : reqPipe'[j] = reqPipe[j]
      BY <1>5, <2>1, <2>2, PutAt
    <2>4. TypeOK'
      BY <1>0, <1>1, <2>1, <2>3, LenProperties, ManagerAssumption DEF TypeOK
    <2>5. RequestsInv'
      BY <1>0, <1>4, <2>1, <2>3 DEF RequestsInv
    <2>6. ClosingInv' /\ EofIsComplete'
      BY <1>0, <1>1, <2>1 DEF ClosingInv, Closed, EofIsComplete
    <2> QED BY <1>2, <1>3, <2>4, <2>5, <2>6 DEF Inv
  <1>8. CASE SenderStops
    <2>1. sender = "select" /\ sender' = "done" /\ UNCHANGED <<sending, err, process, reqPipe>>
      BY <1>8 DEF SenderStops, closeVars
    <2>2. TypeOK'
      BY <1>0, <1>1, <2>1 DEF TypeOK
    <2>3. RequestsInv'
      BY <1>0, <1>4, <2>1 DEF RequestsInv
    <2>4. ClosingInv' /\ EofIsComplete'
      BY <1>0, <1>1, <2>1 DEF ClosingInv, Closed, EofIsComplete
    <2> QED BY <1>2, <1>3, <2>2, <2>3, <2>4 DEF Inv
  <1>9. CASE WriteFails
    <2>1. sender' = "done" /\ sending' = <<>> /\ UNCHANGED reqPipe /\ CloseOnce("fail")
      BY <1>9 DEF WriteFails
    <2>2. /\ ClosingInv' /\ EofIsComplete'
          /\ err' \in {"none", "eof", "fail", "stray"}
          /\ process' \in {"running", "clean", "crashed", "killed"}
      BY <1>0, <1>1, <2>1, Closes
    <2>3. TypeOK'
      BY <1>0, <1>1, <2>1, <2>2 DEF TypeOK
    <2>4. RequestsInv'
      BY <1>0, <1>4, <2>1 DEF RequestsInv
    <2> QED BY <1>2, <1>3, <2>2, <2>3, <2>4 DEF Inv
  <1> QED BY <1>6, <1>7, <1>8, <1>9 DEF SenderStep

(* The process ends, and cmd.Wait returns.                                 *)
LEMMA EndKeeps ==
  ASSUME Inv, ProcessExits \/ Reap
  PROVE  Inv'
  <1>0. /\ TypeOK /\ IdsInv /\ MapInv /\ RequestsInv /\ HandlersInv /\ ReadingInv
        /\ ContentsInv /\ CompleteInv /\ OrderInv /\ ClosingInv
        /\ RepliesInOrder /\ EofIsComplete
    BY DEF Inv
  <1>1. UNCHANGED <<pc, id, nextID, received, streams, ended, sender, sending, reader,
                    reading, reqPipe, respPipe, server, handler, replied>>
    BY DEF ProcessExits, Reap, clientVars, mapVars, senderVars, readerVars, serverVars
  <1>2. IdsInv' /\ MapInv' /\ RequestsInv' /\ HandlersInv'
    BY <1>0, <1>1 DEF IdsInv, MapInv, RequestsInv, IsRequest, HandlersInv, Started, Sent
  <1>3. ReadingInv' /\ ContentsInv' /\ CompleteInv' /\ OrderInv' /\ RepliesInOrder'
    BY <1>0, <1>1, ResponsesKept
  <1>4. CASE ProcessExits
    <2>1. /\ process = "running" /\ process' \in {"clean", "crashed"}
          /\ UNCHANGED <<err, reaped>>
      BY <1>4, ManagerAssumption DEF ProcessExits, Running
    <2>2. TypeOK'
      BY <1>0, <1>1, <2>1 DEF TypeOK
    <2>3. ClosingInv' /\ EofIsComplete'
      BY <1>0, <1>1, <2>1 DEF ClosingInv, Closed, EofIsComplete
    <2> QED BY <1>2, <1>3, <2>2, <2>3 DEF Inv
  <1>5. CASE Reap
    <2>1. reaped' = TRUE /\ CloseOnce(IF process = "clean" THEN "eof" ELSE "fail")
      BY <1>5 DEF Reap
    <2>2. /\ ClosingInv' /\ EofIsComplete'
          /\ err' \in {"none", "eof", "fail", "stray"}
          /\ process' \in {"running", "clean", "crashed", "killed"}
      BY <1>0, <1>1, <2>1, Closes
    <2>3. TypeOK'
      BY <1>0, <1>1, <2>1, <2>2 DEF TypeOK
    <2> QED BY <1>2, <1>3, <2>2, <2>3 DEF Inv
  <1> QED BY <1>4, <1>5

-----------------------------------------------------------------------------
(* The reader.                                                             *)

(* What the reader takes off the pipe, and what it leaves.                 *)
LEMMA ReaderTakes ==
  ASSUME TypeOK, NEW m, Got(m)
  PROVE  /\ respPipe \in Seq(Responses \cup {Header})
         /\ respPipe' = Tail(respPipe) /\ respPipe[1] = m /\ 1 \in DOMAIN respPipe
         /\ respPipe' \in Seq(Responses \cup {Header}) /\ Len(respPipe') <= PipeCap
         /\ \A j \in DOMAIN respPipe' :
              j + 1 \in DOMAIN respPipe /\ 1 < j + 1 /\ respPipe'[j] = respPipe[j + 1]
              /\ j \in Nat
         /\ \A j \in DOMAIN respPipe : j # 1 =>
              j - 1 \in DOMAIN respPipe' /\ respPipe'[j - 1] = respPipe[j] /\ 1 < j
  <1>1. /\ respPipe \in Seq(Responses \cup {Header}) /\ Len(respPipe) <= PipeCap
        /\ respPipe # <<>> /\ respPipe' = Tail(respPipe) /\ Head(respPipe) = m
    BY DEF TypeOK, Got
  <1>2. Len(respPipe) \in Nat /\ PipeCap \in Nat
    BY <1>1, LenProperties, ManagerAssumption
  <1> QED BY <1>1, <1>2, TakeAt

(* The counts of replies are natural numbers.                              *)
LEMMA CountsKnown ==
  ASSUME TypeOK, ReadingInv
  PROVE  \A c \in Clients : /\ Len(received[c]) \in Nat /\ Read(c) \in Nat
                            /\ Len(received[c]) <= Read(c)
                            /\ replied[c] \in Nat /\ Read(c) <= replied[c]
  <1>1. \A c \in Clients : Len(received[c]) \in Nat
    BY LenProperties DEF TypeOK
  <1>2. \A c \in Clients : replied[c] \in Nat
    BY ManagerAssumption DEF TypeOK
  <1>3. \A c \in Clients : Read(c) \in Nat /\ Len(received[c]) <= Read(c)
    BY <1>1 DEF Read
  <1> QED BY <1>1, <1>2, <1>3 DEF ReadingInv

(* What the reader leaves in the pipe keeps its order.                     *)
LEMMA OrderLeft ==
  ASSUME TypeOK, OrderInv, NEW m, Got(m)
  PROVE  OrderInv'
  <1> SUFFICES ASSUME NEW i \in DOMAIN respPipe', NEW j \in DOMAIN respPipe', i < j
               PROVE  /\ respPipe'[i].type = "reply" /\ respPipe'[j].type = "reply"
                           /\ respPipe'[i].id = respPipe'[j].id =>
                              respPipe'[i].k < respPipe'[j].k
                      /\ respPipe'[i].type = "end" /\ respPipe'[j].type # "header" =>
                           respPipe'[i].id # respPipe'[j].id
    BY DEF OrderInv
  <1>1. /\ i + 1 \in DOMAIN respPipe /\ respPipe'[i] = respPipe[i + 1]
        /\ j + 1 \in DOMAIN respPipe /\ respPipe'[j] = respPipe[j + 1]
        /\ i + 1 < j + 1
    BY ReaderTakes
  <1> QED BY <1>1 DEF OrderInv

(* The reply at the head is the next one of a stream that has not ended.   *)
LEMMA HeadReply ==
  ASSUME Inv, NEW m \in Replies, Got(m)
  PROVE  \E c \in Started \ ended : /\ m = Reply(id[c], c, Read(c) + 1)
                                    /\ Read(c) + 1 <= replied[c]
  <1>0. /\ TypeOK /\ IdsInv /\ MapInv /\ RequestsInv /\ HandlersInv /\ ReadingInv
        /\ ContentsInv /\ CompleteInv /\ OrderInv
    BY DEF Inv
  <1>1. m = respPipe[1] /\ 1 \in DOMAIN respPipe
    BY <1>0, ReaderTakes
  <1>2. m.type = "reply"
    BY Messages DEF Reply
  <1>3. IsReply(m)
    BY <1>0, <1>1, <1>2 DEF ContentsInv, IsEnd, Header, EndOfCode
  <1>4. PICK c \in Clients : \E k \in (Read(c) + 1)..replied[c] : m = Reply(id[c], c, k)
    BY <1>3 DEF IsReply
  <1>5. PICK k \in (Read(c) + 1)..replied[c] : m = Reply(id[c], c, k)
    BY <1>4
  <1>6. /\ Len(received[c]) \in Nat /\ Read(c) \in Nat /\ replied[c] \in Nat
        /\ Len(received[c]) <= Read(c) /\ Read(c) + 1 <= replied[c]
        /\ Read(c) + 1 \in (Read(c) + 1)..replied[c] /\ k \in Nat
    BY <1>0, <1>5, CountsKnown
  <1>7. PICK j \in DOMAIN respPipe : respPipe[j] = Reply(id[c], c, Read(c) + 1)
    BY <1>0, <1>6 DEF CompleteInv
  <1>8. k = Read(c) + 1
    <2>1. CASE j = 1
      <3>1. Reply(id[c], c, k) = Reply(id[c], c, Read(c) + 1)
        BY <1>1, <1>5, <1>7, <2>1
      <3>2. \A n : Reply(id[c], c, n).k = n
        BY DEF Reply
      <3> QED BY <3>1, <3>2
    <2>2. CASE j # 1
      <3>1. 1 < j
        BY <1>0, <2>2, ReaderTakes
      <3>2. respPipe[1] = Reply(id[c], c, k)
        BY <1>1, <1>5
      <3>3. k < Read(c) + 1
        BY <1>0, <1>1, <1>7, <3>1, <3>2 DEF OrderInv, Reply
      <3> QED BY <1>5, <1>6, <3>3
    <2> QED BY <2>1, <2>2
  <1>9. c \in Started \ ended
    BY <1>0, <1>6, IdsBounded DEF HandlersInv
  <1> QED BY <1>5, <1>6, <1>8, <1>9

(* The end at the head is that of a stream in the map whose replies have   *)
(* all been read.                                                          *)
LEMMA HeadEnd ==
  ASSUME Inv, reader = "read", NEW i \in IDs, Got(EndOfCode(i))
  PROVE  \E c \in Started \ ended : /\ i = id[c] /\ handler[c] = "done"
                                    /\ Len(received[c]) = replied[c]
  <1>0. /\ TypeOK /\ IdsInv /\ MapInv /\ RequestsInv /\ HandlersInv /\ ReadingInv
        /\ ContentsInv /\ CompleteInv /\ OrderInv
    BY DEF Inv
  <1>1. respPipe[1] = EndOfCode(i) /\ 1 \in DOMAIN respPipe
    BY <1>0, ReaderTakes
  <1>2. PICK c \in Clients \ ended : handler[c] = "done" /\ i = id[c]
    <2>1. IsEnd(EndOfCode(i))
      BY <1>0, <1>1 DEF ContentsInv, IsReply, Header, EndOfCode, Reply
    <2> QED BY <2>1 DEF IsEnd, EndOfCode
  <1>3. c \in Started
    BY <1>0, <1>2, IdsBounded DEF HandlersInv
  <1>4. /\ Read(c) = Len(received[c]) /\ Len(received[c]) \in Nat
        /\ replied[c] \in Nat /\ Read(c) <= replied[c]
    BY <1>0, CountsKnown DEF Read
  <1>5. ASSUME Len(received[c]) # replied[c] PROVE FALSE
    <2>1. Read(c) + 1 \in (Read(c) + 1)..replied[c]
      BY <1>4, <1>5
    <2>2. PICK j \in DOMAIN respPipe : respPipe[j] = Reply(id[c], c, Read(c) + 1)
      BY <1>0, <2>1 DEF CompleteInv
    <2>3. j # 1
      BY <1>1, <2>2 DEF Reply, EndOfCode
    <2>4. 1 < j
      BY <1>0, <2>3, ReaderTakes
    <2> QED BY <1>0, <1>1, <1>2, <2>2, <2>4 DEF OrderInv, Reply, EndOfCode
  <1> QED BY <1>2, <1>3, <1>5

(* The reader holds a reply until its client takes it.                     *)
LEMMA ReadReplyKeeps ==
  ASSUME Inv, ReadReply
  PROVE  Inv'
  <1>0. /\ TypeOK /\ IdsInv /\ MapInv /\ RequestsInv /\ HandlersInv /\ ReadingInv
        /\ ContentsInv /\ CompleteInv /\ OrderInv /\ ClosingInv
        /\ RepliesInOrder /\ EofIsComplete
    BY DEF Inv
  <1>1. PICK m \in Replies :
          reader = "read" /\ Got(m) /\ IF m.id \in DOMAIN streams THEN HoldReply(m) ELSE Stray
    BY DEF ReadReply
  <1>2. PICK c \in Started \ ended : m = Reply(id[c], c, Read(c) + 1) /\ Read(c) + 1 <= replied[c]
    BY <1>1, HeadReply
  <1>3. m.id = id[c] /\ m.from = c /\ m.k = Read(c) + 1 /\ m.type = "reply" /\ c \in Clients
    BY <1>2 DEF Reply, Started
  <1>4. id[c] \in DOMAIN streams
    BY <1>0, <1>2 DEF MapInv
  <1>5. /\ reader' = "deliver" /\ reading' = <<m>>
        /\ UNCHANGED <<pc, id, nextID, received, streams, ended, sender, sending, err,
                       process, reqPipe, reaped, server, handler, replied>>
    BY <1>1, <1>3, <1>4
    DEF ReadReply, HoldReply, OnlyReader, clientVars, mapVars, senderVars, closeVars, serverVars
  <1>6. reading' \in Seq(Replies) /\ Len(reading') = 1 /\ Head(reading') = m
    BY <1>5, OneAt
  <1>7. /\ Read(c) = Len(received[c]) /\ Read(c)' = Read(c) + 1
        /\ \A d \in Clients : d # c => Read(d)' = Read(d)
        /\ \A d \in Clients : Read(d) <= Read(d)'
    <2>1. \A d \in Clients : Read(d) = Len(received[d]) /\ Len(received[d]) \in Nat
      BY <1>0, <1>1, CountsKnown DEF Read
    <2>2. \A d \in Clients : Read(d)' = IF d = c THEN Len(received[d]) + 1 ELSE Len(received[d])
      BY <1>3, <1>5, <1>6 DEF Read
    <2> QED BY <1>3, <2>1, <2>2
  <1>8. /\ \A j \in DOMAIN respPipe' :
             j + 1 \in DOMAIN respPipe /\ 1 < j + 1 /\ respPipe'[j] = respPipe[j + 1]
        /\ \A j \in DOMAIN respPipe : j # 1 =>
              j - 1 \in DOMAIN respPipe' /\ respPipe'[j - 1] = respPipe[j]
        /\ respPipe' \in Seq(Responses \cup {Header}) /\ Len(respPipe') <= PipeCap
        /\ respPipe[1] = m /\ 1 \in DOMAIN respPipe
    BY <1>0, <1>1, ReaderTakes
  <1>9. TypeOK'
    BY <1>0, <1>5, <1>6, <1>8 DEF TypeOK
  <1>10. IdsInv' /\ MapInv' /\ RequestsInv' /\ HandlersInv'
    BY <1>0, <1>5 DEF IdsInv, MapInv, RequestsInv, IsRequest, HandlersInv, Started, Sent
  <1>11. ReadingInv'
    <2>1. \A d \in Clients : Read(d)' <= replied[d]
      BY <1>0, <1>2, <1>7 DEF ReadingInv
    <2>2. Head(reading') = Reply(id[c], c, Len(received[c]) + 1)
      BY <1>2, <1>6, <1>7
    <2> QED BY <1>3, <1>5, <2>1, <2>2 DEF ReadingInv
  <1>12. \A d \in Clients : Read(d) \in Nat /\ replied[d] \in Nat /\ Read(d)' \in Nat
    <2>1. \A d \in Clients : Read(d) \in Nat /\ replied[d] \in Nat
      BY <1>0, CountsKnown
    <2> QED BY <1>7, <2>1
  <1>13. ContentsInv'
    <2> SUFFICES ASSUME NEW j \in DOMAIN respPipe', NEW msg, msg = respPipe'[j]
                 PROVE  msg = Header \/ IsReply(msg)' \/ IsEnd(msg)'
      BY DEF ContentsInv, IsReply, IsEnd
    <2>1. j + 1 \in DOMAIN respPipe /\ 1 < j + 1 /\ msg = respPipe[j + 1]
      BY <1>8
    <2>2. CASE IsEnd(msg)
      BY <1>5, <2>1, <2>2 DEF IsEnd
    <2>3. CASE IsReply(msg)
      <3>1. PICK d \in Clients : \E k \in (Read(d) + 1)..replied[d] :
              msg = Reply(id[d], d, k)
        BY <2>3 DEF IsReply
      <3>2. PICK k \in (Read(d) + 1)..replied[d] : msg = Reply(id[d], d, k)
        BY <3>1
      <3>3. d = c => Read(c) + 1 < k
        <4>1. msg.type = "reply" /\ msg.id = id[d] /\ msg.k = k
          BY <3>2 DEF Reply
        <4>2. m.id = msg.id => m.k < msg.k
          BY <1>0, <1>3, <1>8, <2>1, <4>1 DEF OrderInv
        <4> QED BY <1>3, <4>1, <4>2
      <3>4. k \in (Read(d)' + 1)..replied[d]
        BY <1>7, <1>12, <3>2, <3>3
      <3> QED BY <1>5, <2>1, <3>2, <3>4 DEF IsReply
    <2>4. CASE msg = Header
      BY <2>1, <2>4
    <2> QED BY <1>0, <2>1, <2>2, <2>3, <2>4 DEF ContentsInv
  <1>14. CompleteInv'
    <2> SUFFICES ASSUME NEW d \in Clients, NEW k \in (Read(d)' + 1)..replied[d]
                 PROVE  \E j \in DOMAIN respPipe' : respPipe'[j] = Reply(id[d], d, k)
      BY <1>5 DEF CompleteInv
    <2>1. k \in (Read(d) + 1)..replied[d]
      BY <1>7, <1>12
    <2>2. PICK j \in DOMAIN respPipe : respPipe[j] = Reply(id[d], d, k)
      BY <1>0, <2>1 DEF CompleteInv
    <2>3. ASSUME j = 1 PROVE FALSE
      <3>1. Reply(id[d], d, k) = m
        BY <1>8, <2>2, <2>3
      <3>2. d = c /\ k = Read(c) + 1
        BY <1>3, <3>1 DEF Reply
      <3> QED BY <1>7, <1>12, <3>2
    <2> QED BY <1>8, <2>2, <2>3
  <1>15. OrderInv'
    BY <1>0, <1>1, OrderLeft
  <1>16. RepliesInOrder' /\ ClosingInv' /\ EofIsComplete'
    BY <1>0, <1>5 DEF RepliesInOrder, ClosingInv, Closed, EofIsComplete
  <1> QED BY <1>9, <1>10, <1>11, <1>13, <1>14, <1>15, <1>16 DEF Inv

(* A stream that ends leaves the map.                                      *)
LEMMA ReadEndKeeps ==
  ASSUME Inv, ReadEnd
  PROVE  Inv'
  <1>0. /\ TypeOK /\ IdsInv /\ MapInv /\ RequestsInv /\ HandlersInv /\ ReadingInv
        /\ ContentsInv /\ CompleteInv /\ OrderInv /\ ClosingInv
        /\ RepliesInOrder /\ EofIsComplete
    BY DEF Inv
  <1>1. PICK i \in IDs : /\ reader = "read" /\ Got(EndOfCode(i))
                         /\ IF i \in DOMAIN streams THEN EndStream(i) ELSE Stray
    BY DEF ReadEnd
  <1>2. PICK c \in Started \ ended : i = id[c] /\ handler[c] = "done"
                                     /\ Len(received[c]) = replied[c]
    BY <1>1, HeadEnd
  <1>3. i \in DOMAIN streams /\ streams[i] = c /\ c \in Clients
    BY <1>0, <1>2 DEF MapInv, Started
  <1>4. /\ ended' = ended \cup {c}
        /\ streams' = [j \in DOMAIN streams \ {i} |-> streams[j]]
        /\ UNCHANGED <<pc, id, nextID, received, reader, reading, sender, sending, err,
                       process, reqPipe, reaped, server, handler, replied>>
    BY <1>1, <1>3
    DEF ReadEnd, EndStream, OnlyReader, clientVars, readerVars, senderVars, closeVars, serverVars
  <1>5. /\ \A j \in DOMAIN respPipe' :
             j + 1 \in DOMAIN respPipe /\ 1 < j + 1 /\ respPipe'[j] = respPipe[j + 1]
        /\ \A j \in DOMAIN respPipe : j # 1 =>
              j - 1 \in DOMAIN respPipe' /\ respPipe'[j - 1] = respPipe[j]
        /\ respPipe' \in Seq(Responses \cup {Header}) /\ Len(respPipe') <= PipeCap
        /\ respPipe[1] = EndOfCode(i) /\ 1 \in DOMAIN respPipe
    BY <1>0, <1>1, ReaderTakes
  <1>6. \A d \in Clients : Read(d)' = Read(d)
    BY <1>4 DEF Read
  <1>7. TypeOK'
    BY <1>0, <1>3, <1>4, <1>5 DEF TypeOK
  <1>8. IdsInv' /\ RequestsInv'
    BY <1>0, <1>4 DEF IdsInv, RequestsInv, IsRequest, Started, Sent
  <1>9. MapInv'
    BY <1>0, <1>2, <1>3, <1>4 DEF MapInv, IdsInv, Started
  <1>10. HandlersInv'
    BY <1>0, <1>2, <1>4 DEF HandlersInv, Sent
  <1>11. ReadingInv'
    BY <1>0, <1>4, <1>6 DEF ReadingInv
  <1>12. ContentsInv'
    <2> SUFFICES ASSUME NEW j \in DOMAIN respPipe', NEW msg, msg = respPipe'[j]
                 PROVE  msg = Header \/ IsReply(msg)' \/ IsEnd(msg)'
      BY DEF ContentsInv, IsReply, IsEnd
    <2>1. j + 1 \in DOMAIN respPipe /\ 1 < j + 1 /\ msg = respPipe[j + 1]
      BY <1>5
    <2>2. CASE IsEnd(msg)
      <3>1. PICK d \in Clients \ ended : handler[d] = "done" /\ msg = EndOfCode(id[d])
        BY <2>2 DEF IsEnd
      <3>2. id[d] # i
        <4>1. msg.type = "end" /\ msg.id = id[d]
          BY <3>1 DEF EndOfCode
        <4>2. EndOfCode(i).type = "end" /\ EndOfCode(i).id = i
          BY DEF EndOfCode
        <4> QED BY <1>0, <1>5, <2>1, <4>1, <4>2 DEF OrderInv
      <3> QED BY <1>2, <1>4, <2>1, <3>1, <3>2 DEF IsEnd
    <2>3. CASE IsReply(msg)
      BY <1>4, <1>6, <2>1, <2>3 DEF IsReply
    <2>4. CASE msg = Header
      BY <2>1, <2>4
    <2> QED BY <1>0, <2>1, <2>2, <2>3, <2>4 DEF ContentsInv
  <1>13. CompleteInv'
    <2> SUFFICES ASSUME NEW d \in Clients, NEW k \in (Read(d) + 1)..replied[d]
                 PROVE  \E j \in DOMAIN respPipe' : respPipe'[j] = Reply(id[d], d, k)
      BY <1>4, <1>6 DEF CompleteInv
    <2>1. PICK j \in DOMAIN respPipe : respPipe[j] = Reply(id[d], d, k)
      BY <1>0 DEF CompleteInv
    <2>2. j # 1
      BY <1>5, <2>1 DEF Reply, EndOfCode
    <2> QED BY <1>5, <2>1, <2>2
  <1>14. OrderInv'
    BY <1>0, <1>1, OrderLeft
  <1>15. RepliesInOrder' /\ ClosingInv' /\ EofIsComplete'
    BY <1>0, <1>4 DEF RepliesInOrder, ClosingInv, Closed, EofIsComplete
  <1> QED BY <1>7, <1>8, <1>9, <1>10, <1>11, <1>12, <1>13, <1>14, <1>15 DEF Inv

(* The reader's other steps.                                               *)
LEMMA ReaderKeeps ==
  ASSUME Inv, ReadHeader \/ ReadFails
  PROVE  Inv'
  <1>0. /\ TypeOK /\ IdsInv /\ MapInv /\ RequestsInv /\ HandlersInv /\ ReadingInv
        /\ ContentsInv /\ CompleteInv /\ OrderInv /\ ClosingInv
        /\ RepliesInOrder /\ EofIsComplete
    BY DEF Inv
  <1>1. /\ reader \in {"header", "read"} /\ reader' \in {"read", "done"}
        /\ UNCHANGED <<pc, id, nextID, received, streams, ended, sender, sending, reading,
                       reqPipe, reaped, server, handler, replied>>
    BY DEF ReadHeader, ReadFails, OnlyReader, clientVars, mapVars, senderVars, serverVars
  <1>2. IdsInv' /\ MapInv' /\ RequestsInv' /\ HandlersInv'
    BY <1>0, <1>1 DEF IdsInv, MapInv, RequestsInv, IsRequest, HandlersInv, Started, Sent
  <1>3. \A d \in Clients : Read(d)' = Read(d)
    BY <1>1 DEF Read
  <1>4. ReadingInv' /\ RepliesInOrder'
    BY <1>0, <1>1, <1>3 DEF ReadingInv, RepliesInOrder
  <1>5. CASE ReadHeader
    <2>1. Got(Header) /\ UNCHANGED <<err, process>>
      BY <1>5 DEF ReadHeader, closeVars
    <2>2. /\ \A j \in DOMAIN respPipe' :
               j + 1 \in DOMAIN respPipe /\ respPipe'[j] = respPipe[j + 1]
          /\ \A j \in DOMAIN respPipe : j # 1 =>
                j - 1 \in DOMAIN respPipe' /\ respPipe'[j - 1] = respPipe[j]
          /\ respPipe' \in Seq(Responses \cup {Header}) /\ Len(respPipe') <= PipeCap
          /\ respPipe[1] = Header
      BY <1>0, <2>1, ReaderTakes
    <2>3. TypeOK'
      BY <1>0, <1>1, <2>1, <2>2 DEF TypeOK
    <2>4. ContentsInv'
      <3>1. \A m : IsReply(m) => IsReply(m)'
        BY <1>1, <1>3 DEF IsReply
      <3>2. \A m : IsEnd(m) => IsEnd(m)'
        BY <1>1 DEF IsEnd
      <3> QED BY <1>0, <2>2, <3>1, <3>2 DEF ContentsInv
    <2>5. CompleteInv'
      <3> SUFFICES ASSUME NEW d \in Clients, NEW k \in (Read(d) + 1)..replied[d]
                   PROVE  \E j \in DOMAIN respPipe' : respPipe'[j] = Reply(id[d], d, k)
        BY <1>1, <1>3 DEF CompleteInv
      <3>1. PICK j \in DOMAIN respPipe : respPipe[j] = Reply(id[d], d, k)
        BY <1>0 DEF CompleteInv
      <3>2. j # 1
        BY <2>2, <3>1 DEF Reply, Header
      <3> QED BY <2>2, <3>1, <3>2
    <2>6. OrderInv'
      BY <1>0, <2>1, OrderLeft
    <2>7. ClosingInv' /\ EofIsComplete'
      BY <1>0, <1>1, <2>1 DEF ClosingInv, Closed, EofIsComplete
    <2> QED BY <1>2, <1>4, <2>3, <2>4, <2>5, <2>6, <2>7 DEF Inv
  <1>6. CASE ReadFails
    <2>1. CloseOnce("fail") /\ UNCHANGED respPipe
      BY <1>6 DEF ReadFails
    <2>2. /\ ClosingInv' /\ EofIsComplete'
          /\ err' \in {"none", "eof", "fail", "stray"}
          /\ process' \in {"running", "clean", "crashed", "killed"}
      BY <1>0, <1>1, <2>1, Closes
    <2>3. TypeOK'
      BY <1>0, <1>1, <2>1, <2>2 DEF TypeOK
    <2>4. ContentsInv' /\ CompleteInv' /\ OrderInv'
      BY <1>0, <1>1, <1>3, <2>1
      DEF ContentsInv, IsReply, IsEnd, CompleteInv, OrderInv
    <2> QED BY <1>2, <1>4, <2>2, <2>3, <2>4 DEF Inv
  <1> QED BY <1>5, <1>6

-----------------------------------------------------------------------------
(* The server and its handlers.                                            *)

(* A message written to the client keeps the order when the pipe holds no  *)
(* later reply and no end of its stream.                                   *)
LEMMA OrderPut ==
  ASSUME TypeOK, OrderInv, NEW m \in Responses \cup {Header}, Put(respPipe, m),
         \A j \in DOMAIN respPipe :
           /\ respPipe[j].type = "reply" /\ m.type = "reply" /\ respPipe[j].id = m.id =>
                respPipe[j].k < m.k
           /\ respPipe[j].type = "end" /\ m.type # "header" => respPipe[j].id # m.id
  PROVE  /\ respPipe' \in Seq(Responses \cup {Header}) /\ Len(respPipe') <= PipeCap
         /\ \A j \in DOMAIN respPipe : j \in DOMAIN respPipe' /\ respPipe'[j] = respPipe[j]
         /\ \A j \in DOMAIN respPipe' : \/ respPipe'[j] = m
                                        \/ j \in DOMAIN respPipe /\ respPipe'[j] = respPipe[j]
         /\ \E j \in DOMAIN respPipe' : respPipe'[j] = m
         /\ OrderInv'
  <1>1. /\ respPipe \in Seq(Responses \cup {Header})
        /\ Len(respPipe) < PipeCap /\ respPipe' = Append(respPipe, m)
        /\ Len(respPipe) \in Nat /\ PipeCap \in Nat
    BY LenProperties, ManagerAssumption DEF TypeOK, Put
  <1>2. /\ respPipe' \in Seq(Responses \cup {Header})
        /\ Len(respPipe') = Len(respPipe) + 1
        /\ respPipe'[Len(respPipe) + 1] = m
        /\ DOMAIN respPipe' = DOMAIN respPipe \cup {Len(respPipe) + 1}
        /\ \A j \in DOMAIN respPipe :
             respPipe'[j] = respPipe[j] /\ j < Len(respPipe) + 1 /\ j \in Nat
    BY <1>1, PutAt
  <1>3. ASSUME NEW i \in DOMAIN respPipe', NEW j \in DOMAIN respPipe', i < j
        PROVE  /\ respPipe'[i].type = "reply" /\ respPipe'[j].type = "reply"
                    /\ respPipe'[i].id = respPipe'[j].id =>
                       respPipe'[i].k < respPipe'[j].k
               /\ respPipe'[i].type = "end" /\ respPipe'[j].type # "header" =>
                    respPipe'[i].id # respPipe'[j].id
    <2>1. i \in DOMAIN respPipe
      BY <1>1, <1>2, <1>3
    <2>2. CASE j \in DOMAIN respPipe
      BY <1>2, <1>3, <2>1, <2>2 DEF OrderInv
    <2>3. CASE j = Len(respPipe) + 1
      BY <1>2, <2>1, <2>3
    <2> QED BY <1>2, <2>2, <2>3
  <1>4. OrderInv'
    BY <1>3 DEF OrderInv
  <1> QED BY <1>1, <1>2, <1>4

(* The handshake.                                                          *)
LEMMA ServerKeeps ==
  ASSUME Inv, ServerHello \/ ServerGreets
  PROVE  Inv'
  <1>0. /\ TypeOK /\ IdsInv /\ MapInv /\ RequestsInv /\ HandlersInv /\ ReadingInv
        /\ ContentsInv /\ CompleteInv /\ OrderInv /\ ClosingInv
        /\ RepliesInOrder /\ EofIsComplete
    BY DEF Inv
  <1>1. /\ server' \in {"greet", "serve"}
        /\ UNCHANGED <<pc, id, nextID, received, streams, ended, sender, sending, reader,
                       reading, err, process, reaped, handler, replied>>
    BY DEF ServerHello, ServerGreets, OnlyServer, clientVars, mapVars, senderVars,
           readerVars, closeVars
  <1>2. IdsInv' /\ MapInv' /\ HandlersInv' /\ ReadingInv' /\ ClosingInv'
        /\ RepliesInOrder' /\ EofIsComplete'
    BY <1>0, <1>1 DEF IdsInv, MapInv, HandlersInv, ReadingInv, Read, ClosingInv, Closed,
                      RepliesInOrder, EofIsComplete, Started, Sent
  <1>3. \A m : /\ IsRequest(m)' <=> IsRequest(m)
               /\ IsReply(m) => IsReply(m)'
               /\ IsEnd(m) => IsEnd(m)'
    BY <1>1 DEF IsRequest, IsReply, IsEnd, Read, Sent
  <1>4. CASE ServerHello
    <2>1. Put(respPipe, Header) /\ UNCHANGED reqPipe
      BY <1>4 DEF ServerHello
    <2>2. Header.type = "header"
      BY DEF Header
    <2>3. /\ respPipe' \in Seq(Responses \cup {Header}) /\ Len(respPipe') <= PipeCap
          /\ \A j \in DOMAIN respPipe : j \in DOMAIN respPipe' /\ respPipe'[j] = respPipe[j]
          /\ \A j \in DOMAIN respPipe' : \/ respPipe'[j] = Header
                                         \/ j \in DOMAIN respPipe /\ respPipe'[j] = respPipe[j]
          /\ OrderInv'
      BY <1>0, <2>1, <2>2, OrderPut
    <2>4. TypeOK'
      BY <1>0, <1>1, <2>1, <2>3 DEF TypeOK
    <2>5. RequestsInv'
      BY <1>0, <1>1, <1>3, <2>1 DEF RequestsInv
    <2>6. ContentsInv'
      BY <1>0, <1>3, <2>3 DEF ContentsInv
    <2>7. CompleteInv'
      BY <1>0, <1>1, <2>3 DEF CompleteInv, Read
    <2> QED BY <1>2, <2>3, <2>4, <2>5, <2>6, <2>7 DEF Inv
  <1>5. CASE ServerGreets
    <2>1. reqPipe # <<>> /\ reqPipe' = Tail(reqPipe) /\ UNCHANGED respPipe
      BY <1>5 DEF ServerGreets
    <2>2. /\ reqPipe' \in Seq(Requests \cup {Header}) /\ Len(reqPipe') = Len(reqPipe) - 1
          /\ \A j \in DOMAIN reqPipe' :
               j + 1 \in DOMAIN reqPipe /\ reqPipe'[j] = reqPipe[j + 1]
      BY <1>0, <2>1, TakeAt DEF TypeOK
    <2>3. Len(reqPipe') <= PipeCap
      BY <1>0, <2>2, LenProperties, ManagerAssumption DEF TypeOK
    <2>4. TypeOK'
      BY <1>0, <1>1, <2>1, <2>2, <2>3 DEF TypeOK
    <2>5. RequestsInv'
      BY <1>0, <1>1, <1>3, <2>2 DEF RequestsInv
    <2>6. ContentsInv' /\ CompleteInv' /\ OrderInv'
      BY <1>0, <1>1, <1>3, <2>1 DEF ContentsInv, CompleteInv, Read, OrderInv
    <2> QED BY <1>2, <2>4, <2>5, <2>6 DEF Inv
  <1> QED BY <1>4, <1>5

(* A handler moves without a word to the client.                           *)
LEMMA QuietHandlerKeeps ==
  ASSUME Inv, NEW c \in Clients,
         ServerReceives(c) \/ HandlerStarts(c) \/ HandlerReturns(c) \/ HandlerPanics(c)
  PROVE  Inv'
  <1>0. /\ TypeOK /\ IdsInv /\ MapInv /\ RequestsInv /\ HandlersInv /\ ReadingInv
        /\ ContentsInv /\ CompleteInv /\ OrderInv /\ ClosingInv
        /\ RepliesInOrder /\ EofIsComplete
    BY DEF Inv
  <1>1. /\ UNCHANGED <<pc, id, nextID, received, streams, ended, sender, sending, reader,
                       reading, err, process, reaped, respPipe, server, replied>>
    BY DEF ServerReceives, HandlerStarts, HandlerReturns, HandlerPanics, OnlyServer,
           clientVars, mapVars, senderVars, readerVars, closeVars
  <1>2. PICK from \in {"none", "queued", "run"}, to \in {"queued", "run", "ending", "panic"} :
          /\ handler[c] = from /\ handler' = [handler EXCEPT ![c] = to]
          /\ to = "queued" => from = "none"
    BY DEF ServerReceives, HandlerStarts, HandlerReturns, HandlerPanics, Handles
  <1>3. \/ UNCHANGED reqPipe /\ handler[c] # "none"
        \/ /\ reqPipe # <<>> /\ reqPipe' = Tail(reqPipe) /\ Head(reqPipe) = Request(id[c], c)
    BY DEF ServerReceives, HandlerStarts, HandlerReturns, HandlerPanics, Handles
  <1>4. /\ reqPipe' \in Seq(Requests \cup {Header}) /\ Len(reqPipe') <= PipeCap
        /\ \A j \in DOMAIN reqPipe' :
             \E i \in DOMAIN reqPipe : reqPipe'[j] = reqPipe[i]
        /\ c \in Sent
    <2>1. CASE UNCHANGED reqPipe /\ handler[c] # "none"
      BY <1>0, <2>1 DEF TypeOK, HandlersInv
    <2>2. CASE /\ reqPipe # <<>> /\ reqPipe' = Tail(reqPipe)
               /\ Head(reqPipe) = Request(id[c], c)
      <3>1. /\ reqPipe' \in Seq(Requests \cup {Header}) /\ Len(reqPipe') = Len(reqPipe) - 1
            /\ Head(reqPipe) = reqPipe[1] /\ 1 \in DOMAIN reqPipe
            /\ \A j \in DOMAIN reqPipe' :
                 j + 1 \in DOMAIN reqPipe /\ reqPipe'[j] = reqPipe[j + 1]
        BY <1>0, <2>2, TakeAt DEF TypeOK
      <3>2. Len(reqPipe') <= PipeCap
        BY <1>0, <3>1, LenProperties, ManagerAssumption DEF TypeOK
      <3>3. PICK d \in Sent : Request(id[c], c) = Request(id[d], d)
        BY <1>0, <2>2, <3>1 DEF RequestsInv, IsRequest, Header, Request
      <3>4. c = d
        BY <3>3 DEF Request
      <3> QED BY <3>1, <3>2, <3>3, <3>4
    <2> QED BY <1>3, <2>1, <2>2
  <1>5. TypeOK'
    BY <1>0, <1>1, <1>2, <1>4 DEF TypeOK
  <1>6. IdsInv' /\ MapInv'
    BY <1>0, <1>1 DEF IdsInv, MapInv, Started
  <1>7. RequestsInv'
    BY <1>0, <1>1, <1>4 DEF RequestsInv, IsRequest, Sent
  <1>8. /\ handler[c] # "done" /\ handler'[c] = to
        /\ \A d \in Clients : d # c => handler'[d] = handler[d]
    BY <1>0, <1>2 DEF TypeOK
  <1>9. HandlersInv'
    BY <1>0, <1>1, <1>2, <1>4, <1>8 DEF HandlersInv, Sent
  <1>10. ReadingInv' /\ ContentsInv' /\ CompleteInv' /\ OrderInv' /\ RepliesInOrder'
    BY <1>0, <1>1, <1>8, ResponsesKept
  <1>11. ClosingInv' /\ EofIsComplete'
    BY <1>0, <1>1, <1>8 DEF ClosingInv, Closed, EofIsComplete
  <1> QED BY <1>5, <1>6, <1>7, <1>9, <1>10, <1>11 DEF Inv

(* A reply is written after those before it, and before the end.           *)
LEMMA RespondKeeps ==
  ASSUME Inv, NEW c \in Clients, HandlerReplies(c) \/ HandlerRecovers(c)
  PROVE  Inv'
  <1>0. /\ TypeOK /\ IdsInv /\ MapInv /\ RequestsInv /\ HandlersInv /\ ReadingInv
        /\ ContentsInv /\ CompleteInv /\ OrderInv /\ ClosingInv
        /\ RepliesInOrder /\ EofIsComplete
    BY DEF Inv
  <1> DEFINE n == replied[c] + 1
             m == Reply(id[c], c, n)
  <1>1. /\ UNCHANGED <<pc, id, nextID, received, streams, ended, sender, sending, reader,
                       reading, err, process, reaped, reqPipe, server>>
        /\ replied[c] < MaxReplies /\ replied' = [replied EXCEPT ![c] = n]
        /\ Put(respPipe, m)
    BY DEF HandlerReplies, HandlerRecovers, Respond, OnlyServer,
           clientVars, mapVars, senderVars, readerVars, closeVars
  <1>2. PICK from \in {"run", "panic"}, to \in {"run", "ending"} :
          handler[c] = from /\ handler' = [handler EXCEPT ![c] = to]
    BY DEF HandlerReplies, HandlerRecovers, Respond, Handles
  <1>3. /\ handler'[c] = to /\ replied'[c] = n
        /\ \A d \in Clients : d # c => handler'[d] = handler[d] /\ replied'[d] = replied[d]
    BY <1>0, <1>1, <1>2 DEF TypeOK
  <1>4. /\ \A d \in Clients : /\ Len(received[d]) \in Nat /\ Read(d) \in Nat
                              /\ replied[d] \in Nat /\ Read(d) <= replied[d]
                              /\ replied[d] <= replied'[d]
                              /\ Len(received[d]) <= replied[d]
        /\ n \in 1..MaxReplies /\ MaxReplies \in Nat
    <2>1. \A d \in Clients : /\ Len(received[d]) \in Nat /\ Read(d) \in Nat
                             /\ replied[d] \in Nat /\ Read(d) <= replied[d]
                             /\ Len(received[d]) <= replied[d]
      BY <1>0, CountsKnown DEF RepliesInOrder
    <2>2. n \in 1..MaxReplies /\ MaxReplies \in Nat
      BY <1>1, <2>1, ManagerAssumption
    <2> QED BY <1>3, <2>1, <2>2
  <1>5. c \in Sent /\ c \in Started /\ id[c] \in IDs /\ c \notin ended
    BY <1>0, <1>2, IdsBounded DEF HandlersInv
  <1>6. m \in Replies /\ m \in Responses
    BY <1>4, <1>5, Messages
  <1>7. m.type = "reply" /\ m.id = id[c] /\ m.k = n
    BY DEF Reply
  <1>8. \A d \in Clients : d # c /\ handler[d] # "none" => id[d] # id[c]
    BY <1>0, <1>5, IdsBounded DEF HandlersInv, IdsInv
  <1>9. ASSUME NEW j \in DOMAIN respPipe
        PROVE  /\ respPipe[j].type = "reply" /\ m.type = "reply" /\ respPipe[j].id = m.id =>
                    respPipe[j].k < m.k
               /\ respPipe[j].type = "end" /\ m.type # "header" => respPipe[j].id # m.id
    <2>1. CASE respPipe[j] = Header
      BY <2>1 DEF Header
    <2>2. CASE IsEnd(respPipe[j])
      <3>1. PICK d \in Clients \ ended : handler[d] = "done" /\ respPipe[j] = EndOfCode(id[d])
        BY <2>2 DEF IsEnd
      <3>2. respPipe[j].type = "end" /\ respPipe[j].id = id[d]
        BY <3>1 DEF EndOfCode
      <3> QED BY <1>2, <1>7, <1>8, <3>1, <3>2
    <2>3. CASE IsReply(respPipe[j])
      <3>1. PICK d \in Clients : \E k \in (Read(d) + 1)..replied[d] :
              respPipe[j] = Reply(id[d], d, k)
        BY <2>3 DEF IsReply
      <3>2. PICK k \in (Read(d) + 1)..replied[d] : respPipe[j] = Reply(id[d], d, k)
        BY <3>1
      <3>3. respPipe[j].type = "reply" /\ respPipe[j].id = id[d] /\ respPipe[j].k = k
        BY <3>2 DEF Reply
      <3>4. handler[d] # "none"
        BY <1>0, <1>4, <3>2 DEF HandlersInv
      <3>5. d = c => k < n
        BY <1>4, <3>2
      <3> QED BY <1>7, <1>8, <3>3, <3>4, <3>5
    <2> QED BY <1>0, <2>1, <2>2, <2>3 DEF ContentsInv
  <1>10. /\ respPipe' \in Seq(Responses \cup {Header}) /\ Len(respPipe') <= PipeCap
         /\ \A j \in DOMAIN respPipe : j \in DOMAIN respPipe' /\ respPipe'[j] = respPipe[j]
         /\ \A j \in DOMAIN respPipe' : \/ respPipe'[j] = m
                                        \/ j \in DOMAIN respPipe /\ respPipe'[j] = respPipe[j]
         /\ \E j \in DOMAIN respPipe' : respPipe'[j] = m
         /\ OrderInv'
    <2> HIDE DEF m
    <2> QED BY <1>0, <1>1, <1>6, <1>9, OrderPut
  <1>11. TypeOK'
    BY <1>0, <1>1, <1>2, <1>4, <1>10 DEF TypeOK
  <1>12. IdsInv' /\ MapInv' /\ RequestsInv'
    BY <1>0, <1>1 DEF IdsInv, MapInv, RequestsInv, IsRequest, Started, Sent
  <1>13. HandlersInv'
    BY <1>0, <1>1, <1>2, <1>3, <1>5 DEF HandlersInv, Sent
  <1>14. \A d \in Clients : Read(d)' = Read(d)
    BY <1>1 DEF Read
  <1>15. ReadingInv'
    <2>1. \A d \in Clients : Read(d) <= replied'[d]
      BY <1>3, <1>4
    <2> QED BY <1>0, <1>1, <1>14, <2>1 DEF ReadingInv
  <1>16. ContentsInv'
    <2>1. \A x : IsEnd(x) => IsEnd(x)'
      BY <1>1, <1>2, <1>3 DEF IsEnd
    <2>2. ASSUME NEW x, IsReply(x) PROVE IsReply(x)'
      <3>1. PICK d \in Clients : \E k \in (Read(d) + 1)..replied[d] : x = Reply(id[d], d, k)
        BY <2>2 DEF IsReply
      <3>2. PICK k \in (Read(d) + 1)..replied[d] : x = Reply(id[d], d, k)
        BY <3>1
      <3>3. k \in (Read(d)' + 1)..replied'[d]
        BY <1>3, <1>4, <1>14, <3>2
      <3> QED BY <1>1, <3>2, <3>3 DEF IsReply
    <2>3. \A x : x = m => IsReply(x)'
      <3>1. n \in (Read(c)' + 1)..replied'[c]
        BY <1>3, <1>4, <1>14
      <3> QED BY <1>1, <3>1 DEF IsReply
    <2> HIDE DEF m
    <2>4. ASSUME NEW j \in DOMAIN respPipe', NEW x, x = respPipe'[j]
          PROVE  x = Header \/ IsReply(x)' \/ IsEnd(x)'
      <3>1. CASE x = m
        BY <2>3, <3>1
      <3>2. CASE j \in DOMAIN respPipe /\ x = respPipe[j]
        BY <1>0, <2>1, <2>2, <3>2 DEF ContentsInv
      <3> QED BY <1>10, <2>4, <3>1, <3>2
    <2> QED BY <2>4 DEF ContentsInv, IsReply, IsEnd
  <1>17. CompleteInv'
    <2> SUFFICES ASSUME NEW d \in Clients, NEW k \in (Read(d) + 1)..replied'[d]
                 PROVE  \E j \in DOMAIN respPipe' : respPipe'[j] = Reply(id[d], d, k)
      BY <1>1, <1>14 DEF CompleteInv
    <2>1. CASE d = c /\ k = n
      BY <1>10, <2>1
    <2>2. CASE ~(d = c /\ k = n)
      <3>1. k \in (Read(d) + 1)..replied[d]
        BY <1>3, <1>4, <2>2
      <3>2. PICK j \in DOMAIN respPipe : respPipe[j] = Reply(id[d], d, k)
        BY <1>0, <3>1 DEF CompleteInv
      <3> QED BY <1>10, <3>2
    <2> QED BY <2>1, <2>2
  <1>18. RepliesInOrder'
    <2>1. \A d \in Clients : Len(received[d]) <= replied'[d]
      BY <1>3, <1>4
    <2> QED BY <1>0, <1>1, <2>1 DEF RepliesInOrder
  <1>19. ClosingInv' /\ EofIsComplete'
    BY <1>0, <1>1, <1>2, <1>3 DEF ClosingInv, Closed, EofIsComplete
  <1> QED BY <1>10, <1>11, <1>12, <1>13, <1>15, <1>16, <1>17, <1>18, <1>19 DEF Inv

(* The end of a stream is written once, after its last reply.              *)
LEMMA HandlerEndKeeps ==
  ASSUME Inv, NEW c \in Clients, HandlerEnds(c)
  PROVE  Inv'
  <1>0. /\ TypeOK /\ IdsInv /\ MapInv /\ RequestsInv /\ HandlersInv /\ ReadingInv
        /\ ContentsInv /\ CompleteInv /\ OrderInv /\ ClosingInv
        /\ RepliesInOrder /\ EofIsComplete
    BY DEF Inv
  <1> DEFINE m == EndOfCode(id[c])
  <1>1. /\ UNCHANGED <<pc, id, nextID, received, streams, ended, sender, sending, reader,
                       reading, err, process, reaped, reqPipe, server, replied>>
        /\ handler[c] = "ending" /\ handler' = [handler EXCEPT ![c] = "done"]
        /\ Put(respPipe, m)
    BY DEF HandlerEnds, Handles, OnlyServer, clientVars, mapVars, senderVars, readerVars,
           closeVars
  <1>2. /\ handler'[c] = "done"
        /\ \A d \in Clients : d # c => handler'[d] = handler[d]
    BY <1>0, <1>1 DEF TypeOK
  <1>3. c \in Sent /\ c \in Started /\ id[c] \in IDs /\ c \notin ended
    BY <1>0, <1>1, IdsBounded DEF HandlersInv
  <1>4. \A d \in Clients : d # c /\ handler[d] # "none" => id[d] # id[c]
    BY <1>0, <1>3, IdsBounded DEF HandlersInv, IdsInv
  <1>5. m \in Responses /\ m.type = "end" /\ m.id = id[c]
    BY <1>3, Messages DEF EndOfCode
  <1>6. ASSUME NEW j \in DOMAIN respPipe
        PROVE  /\ respPipe[j].type = "reply" /\ m.type = "reply" /\ respPipe[j].id = m.id =>
                    respPipe[j].k < m.k
               /\ respPipe[j].type = "end" /\ m.type # "header" => respPipe[j].id # m.id
    <2>1. CASE respPipe[j].type # "end"
      BY <1>5, <2>1
    <2>2. CASE IsEnd(respPipe[j])
      <3>1. PICK d \in Clients \ ended : handler[d] = "done" /\ respPipe[j] = EndOfCode(id[d])
        BY <2>2 DEF IsEnd
      <3>2. respPipe[j].type = "end" /\ respPipe[j].id = id[d]
        BY <3>1 DEF EndOfCode
      <3> QED BY <1>1, <1>4, <1>5, <3>1, <3>2
    <2> QED BY <1>0, <2>1, <2>2 DEF ContentsInv, IsReply, Header, Reply
  <1>7. /\ respPipe' \in Seq(Responses \cup {Header}) /\ Len(respPipe') <= PipeCap
        /\ \A j \in DOMAIN respPipe : j \in DOMAIN respPipe' /\ respPipe'[j] = respPipe[j]
        /\ \A j \in DOMAIN respPipe' : \/ respPipe'[j] = m
                                       \/ j \in DOMAIN respPipe /\ respPipe'[j] = respPipe[j]
        /\ OrderInv'
    <2> HIDE DEF m
    <2> QED BY <1>0, <1>1, <1>5, <1>6, OrderPut
  <1>8. TypeOK'
    BY <1>0, <1>1, <1>7 DEF TypeOK
  <1>9. IdsInv' /\ MapInv' /\ RequestsInv'
    BY <1>0, <1>1 DEF IdsInv, MapInv, RequestsInv, IsRequest, Started, Sent
  <1>10. HandlersInv'
    BY <1>0, <1>1, <1>2, <1>3 DEF HandlersInv, Sent
  <1>11. \A d \in Clients : Read(d)' = Read(d)
    BY <1>1 DEF Read
  <1>12. ReadingInv' /\ RepliesInOrder'
    BY <1>0, <1>1, <1>11 DEF ReadingInv, RepliesInOrder
  <1>13. ContentsInv'
    <2>1. \A x : /\ IsReply(x) => IsReply(x)'
                 /\ IsEnd(x) => IsEnd(x)'
      BY <1>1, <1>2, <1>11 DEF IsReply, IsEnd
    <2>2. \A x : x = m => IsEnd(x)'
      BY <1>1, <1>2, <1>3 DEF IsEnd
    <2> HIDE DEF m
    <2>3. ASSUME NEW j \in DOMAIN respPipe', NEW x, x = respPipe'[j]
          PROVE  x = Header \/ IsReply(x)' \/ IsEnd(x)'
      BY <1>0, <1>7, <2>1, <2>2, <2>3 DEF ContentsInv
    <2> QED BY <2>3 DEF ContentsInv, IsReply, IsEnd
  <1>14. CompleteInv'
    <2> SUFFICES ASSUME NEW d \in Clients, NEW k \in (Read(d) + 1)..replied[d]
                 PROVE  \E j \in DOMAIN respPipe' : respPipe'[j] = Reply(id[d], d, k)
      BY <1>1, <1>11 DEF CompleteInv
    <2>1. PICK j \in DOMAIN respPipe : respPipe[j] = Reply(id[d], d, k)
      BY <1>0 DEF CompleteInv
    <2> QED BY <1>7, <2>1
  <1>15. ClosingInv' /\ EofIsComplete'
    BY <1>0, <1>1, <1>2 DEF ClosingInv, Closed, EofIsComplete
  <1> QED BY <1>7, <1>8, <1>9, <1>10, <1>12, <1>13, <1>14, <1>15 DEF Inv

-----------------------------------------------------------------------------
(* The invariant, and what it implies.                                     *)

(* Every step preserves it.                                                *)
LEMMA InvStep == Inv /\ [Next]_vars => Inv'
  <1> SUFFICES ASSUME Inv, [Next]_vars PROVE Inv'
    OBVIOUS
  <1>1. ASSUME NEW c \in Clients, ClientStep(c) PROVE Inv'
    BY <1>1, CreateKeeps, SendKeeps, ReceiveKeeps, LeaveKeeps DEF ClientStep
  <1>2. ASSUME NEW c \in Clients, HandlerStep(c) PROVE Inv'
    BY <1>2, QuietHandlerKeeps, RespondKeeps, HandlerEndKeeps DEF HandlerStep
  <1>3. CASE SenderStep \/ WriteFails
    BY <1>3, SenderKeeps
  <1>4. CASE ReaderStep \/ ReadFails
    BY <1>4, ReadReplyKeeps, ReadEndKeeps, ReaderKeeps DEF ReaderStep
  <1>5. CASE ServerStep
    BY <1>5, ServerKeeps, QuietHandlerKeeps DEF ServerStep
  <1>6. CASE ProcessExits \/ Reap
    BY <1>6, EndKeeps
  <1>7. CASE UNCHANGED vars
    BY <1>7
    DEF vars, clientVars, mapVars, senderVars, readerVars, closeVars, serverVars, Inv,
        TypeOK, IdsInv, MapInv, RequestsInv, IsRequest, HandlersInv, ReadingInv, Read,
        ContentsInv, IsReply, IsEnd, CompleteInv, OrderInv, ClosingInv, Closed,
        RepliesInOrder, EofIsComplete, Started, Sent
  <1> QED BY <1>1, <1>2, <1>3, <1>4, <1>5, <1>6, <1>7 DEF Next

(* The invariant holds in every state.                                     *)
LEMMA Invariant == Spec => []Inv
  BY InvInit, InvStep, PTL DEF Spec

(* Nobody waits on a reader that waits on a client that is gone.           *)
LEMMA ReaderNeverStuck ==
  ASSUME Inv
  PROVE  ReaderWaitsForReceiver
  <1>0. /\ TypeOK /\ IdsInv /\ MapInv /\ HandlersInv /\ ReadingInv /\ ClosingInv
    BY DEF Inv
  <1> SUFFICES ASSUME reader = "deliver", ~Closed
               PROVE  pc[streams[Head(reading).id]] = "receive"
    BY DEF ReaderWaitsForReceiver
  <1>1. PICK c \in Clients : Head(reading) = Reply(id[c], c, Len(received[c]) + 1)
    BY <1>0 DEF ReadingInv
  <1>2. Head(reading).from = c /\ Head(reading).id = id[c]
    BY <1>1 DEF Reply
  <1>3. Read(c) = Len(received[c]) + 1
    BY <1>2 DEF Read
  <1>4. Len(received[c]) \in Nat /\ replied[c] \in Nat /\ Len(received[c]) + 1 <= replied[c]
    BY <1>0, <1>3, CountsKnown
  <1>5. c \in Sent \ ended
    BY <1>0, <1>4 DEF HandlersInv
  <1>6. streams[id[c]] = c
    BY <1>0, <1>5, IdsBounded DEF MapInv
  <1>7. pc[c] = "receive"
    BY <1>0, <1>5 DEF ClosingInv, Sent, TypeOK
  <1> QED BY <1>2, <1>6, <1>7

(* TypeOK: in particular an ID is never larger than the number of streams  *)
(* and neither pipe holds more than it can.                                *)
THEOREM TypeCorrect == Spec => []TypeOK
  <1>1. Inv => TypeOK
    BY DEF Inv
  <1> QED BY <1>1, Invariant, PTL

(* RepliesInOrder: for any number of clients, replies, handlers at work    *)
(* and any size of the pipes, a client receives the replies of its own     *)
(* request, in order and without gaps.                                     *)
THEOREM OrderCorrect == Spec => []RepliesInOrder
  <1>1. Inv => RepliesInOrder
    BY DEF Inv
  <1> QED BY <1>1, Invariant, PTL

(* EofIsComplete: unless the process exited with status 0, EOF comes after *)
(* every reply.                                                            *)
THEOREM EofCorrect == Spec => []EofIsComplete
  <1>1. Inv => EofIsComplete
    BY DEF Inv
  <1> QED BY <1>1, Invariant, PTL

(* NoStray: no response of the server's is for a stream that is not open.  *)
THEOREM StrayCorrect == Spec => []NoStray
  <1>1. Inv => NoStray
    BY DEF Inv, ClosingInv, NoStray
  <1> QED BY <1>1, Invariant, PTL

(* ReaderWaitsForReceiver: while the manager is open, the client that the  *)
(* reader waits for is receiving.                                          *)
THEOREM ReaderCorrect == Spec => []ReaderWaitsForReceiver
  <1>1. Inv => ReaderWaitsForReceiver
    BY ReaderNeverStuck
  <1> QED BY <1>1, Invariant, PTL
=============================================================================
