------------------------------ MODULE FileClient ------------------------------
(***************************************************************************)
(* The clients of the file server (net/file/pnFileClient) and the          *)
(* transaction numbers that all clients share (net/pnClient).              *)
(*                                                                         *)
(* Threads of the application send requests; the server answers each in    *)
(* messages of some entries and sends the next one when the last has been  *)
(* acknowledged; the client's dispatch thread handles one message at a     *)
(* time.  The messages of different transactions come in any order.  The   *)
(* objects and threads behind a connection are the subject of SocketThread.*)
(***************************************************************************)
EXTENDS Naturals, Sequences

CONSTANTS
  Client,    \* the file clients of the program
  Thread,    \* the application's threads
  MaxTrans,  \* BOUND on the transactions
  Total      \* how many entries or pieces the server has for a transaction

ASSUME TransAssumption == MaxTrans \in Nat /\ Total \in [1..MaxTrans -> Nat]

Trans == 1..MaxTrans
Kinds == {"manifest", "download", "build"}

VARIABLES
  s_transId,  \* the last transaction number
  caller,     \* a thread is idle or in a request that it has numbered
  conn,       \* a client's connection; "broken" when a send or recv has failed
  asked,      \* the requests of a client's present connection
  request,    \* what the application knows of a transaction
  handed,     \* what the callbacks have handed to it
  server,     \* the server's side of a transaction
  wire,       \* the message on its way to the client
  queued,     \* the transactions with an entry in fMfsQueue and fMfsOffset
  files,      \* fMfsQueue: the array that is being filled
  offset,     \* fMfsOffset
  undefined   \* a handler has run on a message that was not received whole

maps == <<queued, files, offset>>
vars == <<s_transId, caller, conn, asked, request, handed, server, wire, maps, undefined>>

Idle == [trans |-> 0]
NoMessage == [id |-> "none", result |-> "ok", total |-> 0, entries |-> <<>>]
NoServer == [kind |-> "none", sent |-> 0, state |-> "none"]

Requests == [trans : Trans, client : Client, kind : Kinds]
Servers == [kind : Kinds \cup {"none"}, sent : Nat,
            state : {"none", "ready", "waiting", "ended"}]
Messages == [id : Kinds \cup {"none"}, result : {"ok", "error"},
             total : Nat, entries : Seq(Nat)]

TypeOK ==
  /\ s_transId \in 0..MaxTrans
  /\ caller \in [Thread -> {Idle} \cup Requests]
  /\ conn \in [Client -> {"down", "up", "broken"}]
  /\ asked \in [Client -> SUBSET Trans]
  /\ request \in [Trans -> Kinds \cup {"free", "answered", "refused", "dropped"}]
  /\ handed \in [Trans -> Seq(Nat)]
  /\ server \in [Trans -> Servers]
  /\ wire \in [Trans -> Messages]
  /\ queued \in SUBSET Trans
  /\ files \in [Trans -> Seq(Nat)]
  /\ offset \in [Trans -> Nat]
  /\ undefined \in BOOLEAN

Init ==
  /\ s_transId = 0
  /\ caller = [h \in Thread |-> Idle]
  /\ conn = [c \in Client |-> "down"]
  /\ asked = [c \in Client |-> {}]
  /\ request = [t \in Trans |-> "free"]
  /\ handed = [t \in Trans |-> <<>>]
  /\ server = [t \in Trans |-> NoServer]
  /\ wire = [t \in Trans |-> NoMessage]
  /\ queued = {}
  /\ files = [t \in Trans |-> <<>>]
  /\ offset = [t \in Trans |-> 0]
  /\ undefined = FALSE

-----------------------------------------------------------------------------
(* Connection.                                                             *)

\* Connect, and a new Dispatch with empty maps.
Connect(c) ==
  /\ conn[c] = "down"
  /\ conn' = [conn EXCEPT ![c] = "up"]
  /\ UNCHANGED <<s_transId, caller, asked, request, handed, server, wire, maps, undefined>>

Broken(c) == conn' = [conn EXCEPT ![c] = "broken"]

\* select fails in waitForData, or the send of a ping does.
Break(c) ==
  /\ conn[c] = "up"
  /\ Broken(c)
  /\ UNCHANGED <<s_transId, caller, asked, request, handed, server, wire, maps, undefined>>

\* The dispatch thread has ended when the Dispatch is deleted with its maps.  No
\* thread of the application is in a request to this client.
Disconnect(c) ==
  /\ conn[c] # "down"
  /\ \A h \in Thread : caller[h] # Idle => caller[h].client # c
  /\ conn' = [conn EXCEPT ![c] = "down"]
  /\ asked' = [asked EXCEPT ![c] = {}]
  /\ request' = [t \in Trans |->
       IF t \in asked[c] /\ request[t] \in Kinds THEN "dropped" ELSE request[t]]
  /\ server' = [t \in Trans |-> IF t \in asked[c] THEN NoServer ELSE server[t]]
  /\ wire' = [t \in Trans |-> IF t \in asked[c] THEN NoMessage ELSE wire[t]]
  /\ queued' = queued \ asked[c]
  /\ UNCHANGED <<s_transId, caller, handed, files, offset, undefined>>

-----------------------------------------------------------------------------
(* Requests.                                                               *)

\* Mutant: the number before it is incremented.
nextTransIdOld(h, c, kind) ==
  /\ s_transId < MaxTrans
  /\ s_transId' = s_transId + 1
  /\ caller' = [caller EXCEPT ![h] = [trans |-> s_transId, client |-> c, kind |-> kind]]

\* Mutant: two threads may read the same number.
nextTransIdUnlocked(h, c, kind) ==
  /\ s_transId < MaxTrans
  /\ s_transId' \in {s_transId + 1} \cup ({s_transId} \ {0})
  /\ caller' = [caller EXCEPT ![h] = [trans |-> s_transId', client |-> c, kind |-> kind]]

\* nextTransId, under its mutex, at the beginning of a request.
nextTransId(h, c, kind) ==
  /\ s_transId < MaxTrans
  /\ s_transId' = s_transId + 1
  /\ caller' = [caller EXCEPT ![h] = [trans |-> s_transId', client |-> c, kind |-> kind]]

BeginRequest(h, c, kind) ==
  /\ caller[h] = Idle /\ conn[c] # "down"
  /\ nextTransId(h, c, kind)
  /\ UNCHANGED <<conn, asked, request, handed, server, wire, maps, undefined>>

\* fSock->send; the number is returned also if the send has failed.
SendRequest(h) ==
  /\ caller[h] # Idle
  /\ LET t == caller[h].trans  c == caller[h].client IN
     /\ request' = [request EXCEPT ![t] = caller[h].kind]
     /\ asked' = [asked EXCEPT ![c] = @ \cup {t}]
     /\ \/ /\ conn[c] = "up" /\ conn' = conn
           /\ server' = [server EXCEPT
                ![t] = [kind |-> caller[h].kind, sent |-> 0, state |-> "ready"]]
        \/ Broken(c) /\ server' = server
  /\ caller' = [caller EXCEPT ![h] = Idle]
  /\ UNCHANGED <<s_transId, handed, wire, maps, undefined>>

-----------------------------------------------------------------------------
(* The server, as the client's handlers take it to be.                     *)

\* The next entries, at least one if there are any.
SendChunk(t) ==
  /\ server[t].state = "ready" /\ server[t].kind # "build"
  /\ \E last \in server[t].sent..Total[t] :
       LET first == server[t].sent  n == last - first IN
       /\ n > 0 \/ Total[t] = 0
       /\ wire' = [wire EXCEPT ![t] =
            [id |-> server[t].kind, result |-> "ok", total |-> Total[t],
             entries |-> [j \in 1..n |-> first + j]]]
       /\ server' = [server EXCEPT ![t].sent = last, ![t].state = "waiting"]
  /\ UNCHANGED <<s_transId, caller, conn, asked, request, handed, maps, undefined>>

\* An error, at once or after some entries; or a build number.
SendLast(t) ==
  /\ server[t].state = "ready"
  /\ \E result \in {"ok", "error"} :
       /\ result = "ok" => server[t].kind = "build"
       /\ wire' = [wire EXCEPT ![t] =
            [id |-> server[t].kind, result |-> result, total |-> 0, entries |-> <<>>]]
  /\ server' = [server EXCEPT ![t].state = "ended"]
  /\ UNCHANGED <<s_transId, caller, conn, asked, request, handed, maps, undefined>>

-----------------------------------------------------------------------------
(* The dispatch thread.                                                    *)

\* recv has a message for this client, in one piece.
Receive(c, t) ==
  /\ conn[c] = "up" /\ t \in asked[c] /\ wire[t] # NoMessage
  /\ wire' = [wire EXCEPT ![t] = NoMessage]

\* Mutant: no acknowledgement.
NoAck(c, t) == UNCHANGED <<conn, server>>

\* sendManifestEntryAck and sendFileDownloadChunkAck: the server goes on, unless
\* the send fails.
Ack(c, t) ==
  \/ /\ conn' = conn
     /\ server' = [server EXCEPT ![t].state =
          IF server[t].sent = Total[t] THEN "ended" ELSE IF @ = "waiting" THEN "ready" ELSE @]
  \/ Broken(c) /\ server' = server

\* A callback of the application.
HandOver(t, result, entries, last) ==
  /\ handed' = [handed EXCEPT ![t] = @ \o entries]
  /\ request' = [request EXCEPT ![t] =
       IF result = "error" THEN "refused" ELSE IF last THEN "answered" ELSE @]

\* A first chunk has a new array, a later one goes on in the one that is queued.
Begun(t) == IF t \in queued THEN offset[t] ELSE 0
Array(t) == IF t \in queued THEN files[t] ELSE [j \in 1..wire[t].total |-> 0]

\* Mutant: a later chunk is read to where the first one was.
FilledFromStart(t) ==
  [j \in 1..Len(Array(t)) |->
     IF j <= Len(wire[t].entries) THEN wire[t].entries[j] ELSE Array(t)[j]]

\* Where the loop over the entries of the message stops, and the array then.
LoopEnd(t) ==
  LET end == Begun(t) + Len(wire[t].entries) IN
  IF end < wire[t].total THEN end ELSE wire[t].total
Filled(t) ==
  [j \in 1..Len(Array(t)) |->
     IF Begun(t) < j /\ j <= LoopEnd(t) THEN wire[t].entries[j - Begun(t)] ELSE Array(t)[j]]

ManifestReply(c, t) ==
  /\ Receive(c, t) /\ wire[t].id = "manifest"
  /\ Ack(c, t)
  /\ \/ /\ LoopEnd(t) < wire[t].total
        /\ queued' = queued \cup {t}
        /\ files' = [files EXCEPT ![t] = Filled(t)]
        /\ offset' = [offset EXCEPT ![t] = LoopEnd(t)]
        /\ UNCHANGED <<request, handed>>
     \/ /\ LoopEnd(t) >= wire[t].total
        /\ HandOver(t, wire[t].result, SubSeq(Filled(t), 1, wire[t].total), TRUE)
        /\ queued' = queued \ {t}
        /\ UNCHANGED <<files, offset>>
  /\ UNCHANGED <<s_transId, caller, asked, undefined>>

FileDownloadReply(c, t) ==
  /\ Receive(c, t) /\ wire[t].id = "download"
  /\ HandOver(t, wire[t].result, wire[t].entries,
              Len(handed[t]) + Len(wire[t].entries) = wire[t].total)
  /\ Ack(c, t)
  /\ UNCHANGED <<s_transId, caller, asked, maps, undefined>>

BuildIdReply(c, t) ==
  /\ Receive(c, t) /\ wire[t].id = "build"
  /\ HandOver(t, wire[t].result, <<>>, TRUE)
  /\ UNCHANGED <<s_transId, caller, conn, asked, server, maps, undefined>>

\* A handler runs on bytes that are not a message: no case is theirs, or they
\* are handed over for some transaction (0 is an entry that nobody has sent, and
\* what was handed over before may still be in the memory), or they start an
\* array for it.
StrayHandler ==
  \/ UNCHANGED <<request, handed, maps>>
  \/ /\ \E t \in Trans, result \in {"ok", "error"}, last \in BOOLEAN :
          \E entries \in {<<0>>, handed[t]} : HandOver(t, result, entries, last)
     /\ UNCHANGED maps
  \/ /\ \E t \in Trans :
          /\ queued' = queued \cup {t}
          /\ files' = [files EXCEPT ![t] = <<0>>]
          /\ offset' = [offset EXCEPT ![t] = 0]
     /\ UNCHANGED <<request, handed>>

\* The message comes in two parts: the second one is read over the first.
TornMessage(c, t) ==
  /\ Receive(c, t)
  /\ undefined' = TRUE
  /\ StrayHandler
  /\ UNCHANGED <<s_transId, caller, conn, asked, server>>

\* A recv inside dispatch fails, or the server has closed the connection, and
\* nobody looks at the result: the switch runs on a header and a buffer that were
\* not filled, or the read loop adds up zeros for ever and no handler runs.  recv
\* closes the socket unless the connection was reset.
FailedRecv(c) ==
  /\ conn[c] # "down"
  /\ Broken(c) \/ conn' = conn
  /\ undefined' = TRUE
  /\ StrayHandler
  /\ UNCHANGED <<s_transId, caller, asked, server, wire>>

Dispatch(c, t) == ManifestReply(c, t) \/ FileDownloadReply(c, t) \/ BuildIdReply(c, t)

Next ==
  /\ ~undefined
  /\ \/ \E c \in Client : Connect(c) \/ Break(c) \/ Disconnect(c) \/ FailedRecv(c)
     \/ \E h \in Thread : \/ SendRequest(h)
                          \/ \E c \in Client, kind \in Kinds : BeginRequest(h, c, kind)
     \/ \E t \in Trans : \/ SendChunk(t) \/ SendLast(t)
                         \/ \E c \in Client : Dispatch(c, t) \/ TornMessage(c, t)

Spec == Init /\ [][Next]_vars

\* The dispatch thread runs and the server goes on answering.
FairSpec ==
  /\ Spec
  /\ \A t \in Trans :
       /\ WF_vars(~undefined /\ (SendChunk(t) \/ SendLast(t)))
       /\ \A c \in Client : WF_vars(~undefined /\ (Dispatch(c, t) \/ TornMessage(c, t)))

-----------------------------------------------------------------------------
(* Properties.                                                             *)

\* Clients with interleaved transactions, chunked messages, errors and connections
\* lost between two messages do what Answers promises: a number is issued once, a
\* manifest is handed over whole and once, a download in order
\* (Dispatch::dispatch).  The promise ends when a recv fails inside a message, or
\* brings a part of it.
Answered == INSTANCE Answers
AnswersSpec == Answered!Spec

\* The maps of a Dispatch hold unfinished manifests of the present connection and
\* no others, filled up to the offset with what the server has sent for them,
\* until a handler runs on a message that was not received whole.
QueueUnfinished ==
  ~undefined => \A t \in queued :
    /\ request[t] = "manifest" /\ \E c \in Client : t \in asked[c]
    /\ offset[t] < Total[t] /\ Len(files[t]) = Total[t]
    /\ \A j \in 1..offset[t] : files[t][j] = j
    /\ wire[t] = NoMessage => offset[t] = server[t].sent

\* Every request that has reached the server comes to an end, unless the connection
\* is lost: each message is acknowledged, and the server, which waits for that,
\* sends the next one.
RequestEnds ==
  \A c \in Client, t \in Trans :
    (t \in asked[c] /\ server[t].state # "none")
      ~> (request[t] \notin Kinds \/ conn[c] = "broken" \/ undefined)
=============================================================================
