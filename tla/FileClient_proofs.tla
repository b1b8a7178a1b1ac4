--------------------------- MODULE FileClient_proofs ---------------------------
(***************************************************************************)
(* FileClient implements Answers, for any number of clients, threads and   *)
(* transactions and whatever the server has for them.                      *)
(***************************************************************************)
EXTENDS FileClient, SequenceTheorems, TLAPS

Entries(n) == [j \in 1..n |-> j]

\* How many entries of a transaction the client has received.
Got(t) == IF request[t] = "manifest" THEN Begun(t) ELSE Len(handed[t])

\* Numbers are issued once: whoever has one is the only one to use it.
NumberInv ==
  /\ \A t \in Trans : t > s_transId => request[t] = "free"
  /\ \A h \in Thread : caller[h] # Idle =>
       caller[h].trans <= s_transId /\ request[caller[h].trans] = "free"
  /\ \A g, h \in Thread :
       g # h /\ caller[g] # Idle /\ caller[h] # Idle => caller[g].trans # caller[h].trans

\* Nothing is known of a transaction before its request has been sent.
FreeInv(t) ==
  request[t] = "free" =>
    /\ server[t].state = "none" /\ wire[t] = NoMessage
    /\ t \notin queued /\ handed[t] = <<>>
    /\ \A c \in Client : t \notin asked[c]

\* What the application has been handed of an open transaction.
HandedInv(t) ==
  /\ request[t] \in {"manifest", "build"} => handed[t] = <<>>
  /\ request[t] = "download" =>
       Len(handed[t]) <= Total[t] /\ handed[t] = Entries(Len(handed[t]))

\* The array that is being filled.
QueueInv(t) ==
  t \in queued =>
    /\ request[t] = "manifest" /\ \E c \in Client : t \in asked[c]
    /\ offset[t] < Total[t] /\ Len(files[t]) = Total[t]
    /\ \A j \in 1..offset[t] : files[t][j] = j
    /\ wire[t] = NoMessage => offset[t] = server[t].sent

\* The server is ready when the client has all that it has sent; a message on its
\* way has what comes next.
NextEntries(t) ==
  /\ wire[t].id # "build" /\ wire[t].id = server[t].kind
  /\ wire[t].result = "ok" /\ wire[t].total = Total[t]
  /\ server[t].state = "waiting"
  /\ Got(t) <= server[t].sent /\ server[t].sent <= Total[t]
  /\ wire[t].entries = [j \in 1..server[t].sent - Got(t) |-> Got(t) + j]

LastMessage(t) ==
  /\ wire[t].total = 0 /\ wire[t].entries = <<>>
  /\ wire[t].id = "build" \/ wire[t].result = "error"
  /\ server[t].state = "ended"

FlowInv(t) ==
  /\ server[t].state = "ready" =>
       /\ wire[t] = NoMessage /\ server[t].kind = request[t]
       /\ server[t].kind # "build" =>
            Got(t) = server[t].sent /\ server[t].sent <= Total[t]
  /\ wire[t] # NoMessage =>
       /\ request[t] \in Kinds /\ request[t] = wire[t].id
       /\ NextEntries(t) \/ LastMessage(t)

TransInv(t) == FreeInv(t) /\ HandedInv(t) /\ QueueInv(t) /\ FlowInv(t)

IInv == TypeOK /\ NumberInv /\ \A t \in Trans : TransInv(t)

\* When a handler has run on a message that was not received whole, only the
\* types are left of that.
Safe == TypeOK /\ (~undefined => IInv)

-----------------------------------------------------------------------------
(* Sequences of numbered entries.                                          *)

LEMMA EntriesProperties ==
  ASSUME NEW n \in Nat
  PROVE  Entries(n) \in Seq(Nat) /\ Len(Entries(n)) = n
BY DEF Entries

LEMMA RunProperties ==
  ASSUME NEW a \in Nat, NEW n \in Nat
  PROVE  [j \in 1..n |-> a + j] \in Seq(Nat) /\ Len([j \in 1..n |-> a + j]) = n
OBVIOUS

\* Numbered entries followed by the next ones.
LEMMA EntriesConcat ==
  ASSUME NEW a \in Nat, NEW n \in Nat
  PROVE  Entries(a) \o [j \in 1..n |-> a + j] = Entries(a + n)
<1> DEFINE e == Entries(a)
           r == [j \in 1..n |-> a + j]
           f == Entries(a + n)
<1>1. /\ e \in Seq(Nat) /\ Len(e) = a /\ \A i \in 1..a : e[i] = i
      /\ r \in Seq(Nat) /\ Len(r) = n /\ \A i \in 1..n : r[i] = a + i
      /\ f \in Seq(Nat) /\ Len(f) = a + n /\ \A i \in 1..a + n : f[i] = i
  BY EntriesProperties, RunProperties DEF Entries
<1> HIDE DEF e, r, f
<1>2. /\ e \o r \in Seq(Nat) /\ Len(e \o r) = a + n
      /\ \A i \in 1..a + n : (e \o r)[i] = IF i <= a THEN e[i] ELSE r[i - a]
  BY <1>1, ConcatProperties
<1>3. ASSUME NEW i \in 1..a + n PROVE (e \o r)[i] = f[i]
  <2>0. i <= a \/ i > a
    OBVIOUS
  <2>1. CASE i <= a
    BY <1>1, <1>2, <2>1
  <2>2. CASE i > a
    <3>1. i - a \in 1..n /\ a + (i - a) = i /\ ~(i <= a)
      BY <2>2
    <3>2. (e \o r)[i] = r[i - a]
      BY <1>2, <3>1
    <3>3. r[i - a] = i
      BY <1>1, <3>1
    <3>4. f[i] = i
      BY <1>1
    <3> QED
      BY <3>2, <3>3, <3>4
  <2> QED
    BY <2>0, <2>1, <2>2
<1>4. e \o r = f
  BY <1>1, <1>2, <1>3, SeqEqual
<1> QED
  BY <1>4 DEF e, r, f

\* The array that a manifest is handed over with.
LEMMA EntriesOfArray ==
  ASSUME NEW n \in Nat, NEW s \in Seq(Nat), Len(s) = n, \A j \in 1..n : s[j] = j
  PROVE  <<>> \o SubSeq(s, 1, n) = Entries(n)
<1>1. /\ SubSeq(s, 1, n) \in Seq(Nat)
      /\ Len(SubSeq(s, 1, n)) = n
      /\ \A i \in 1..n : SubSeq(s, 1, n)[i] = s[i]
  <2>1. \A i \in 1..n : s[i] \in Nat
    OBVIOUS
  <2>2. /\ SubSeq(s, 1, n) \in Seq(Nat)
        /\ Len(SubSeq(s, 1, n)) = (IF 1 <= n THEN n - 1 + 1 ELSE 0)
        /\ \A i \in 1..n - 1 + 1 : SubSeq(s, 1, n)[i] = s[1 + i - 1]
    BY <2>1, SubSeqProperties
  <2> QED
    BY <2>2
<1>2. SubSeq(s, 1, n) = Entries(n)
  BY <1>1, EntriesProperties, SeqEqual DEF Entries
<1> QED
  BY <1>1, <1>2, ConcatEmptySeq

-----------------------------------------------------------------------------
(* The invariant.                                                          *)

\* A state in which nothing has been asked satisfies the invariant.
LEMMA InitInv == Init => IInv
<1> SUFFICES ASSUME Init PROVE IInv
  OBVIOUS
<1>1. TypeOK
  <2>1. s_transId \in 0..MaxTrans
    BY TransAssumption DEF Init
  <2>2. /\ conn \in [Client -> {"down", "up", "broken"}]
        /\ asked \in [Client -> SUBSET Trans]
        /\ caller \in [Thread -> {Idle} \cup Requests]
    BY DEF Init
  <2>3. /\ server \in [Trans -> Servers]
        /\ wire \in [Trans -> Messages]
    BY DEF Init, NoServer, NoMessage, Servers, Messages
  <2>4. /\ handed \in [Trans -> Seq(Nat)] /\ files \in [Trans -> Seq(Nat)]
        /\ request \in [Trans -> Kinds \cup {"free", "answered", "refused", "dropped"}]
        /\ offset \in [Trans -> Nat]
    BY DEF Init
  <2> QED
    BY <2>1, <2>2, <2>3, <2>4 DEF Init, TypeOK
<1>2. NumberInv
  BY DEF Init, NumberInv, Trans
<1>3. ASSUME NEW t \in Trans PROVE TransInv(t)
  BY DEF Init, TransInv, FreeInv, HandedInv, QueueInv, FlowInv, NoServer
<1> QED
  BY <1>1, <1>2, <1>3 DEF IInv

\* A transaction keeps its invariant in a step that is about another one.
LEMMA Untouched ==
  ASSUME NEW t \in Trans, TransInv(t),
         request'[t] = request[t], handed'[t] = handed[t],
         server'[t] = server[t], wire'[t] = wire[t],
         files'[t] = files[t], offset'[t] = offset[t], t \in queued' <=> t \in queued,
         \A c \in Client : t \in asked'[c] <=> t \in asked[c]
  PROVE  TransInv(t)'
<1>1. FreeInv(t)' /\ HandedInv(t)'
  BY DEF TransInv, FreeInv, HandedInv, NoMessage
<1>2. QueueInv(t)'
  BY DEF TransInv, QueueInv, NoMessage
<1>3. Got(t)' = Got(t)
  BY DEF Got, Begun
<1>4. FlowInv(t)'
  BY <1>3 DEF TransInv, FlowInv, NextEntries, LastMessage, NoMessage
<1> QED
  BY <1>1, <1>2, <1>4 DEF TransInv

\* connect, and a connection that breaks.
LEMMA ConnectionInv ==
  ASSUME IInv, NEW c \in Client, Connect(c) \/ Break(c)
  PROVE  IInv'
<1>1. TypeOK'
  BY DEF IInv, TypeOK, Connect, Break, Broken, maps
<1>2. NumberInv'
  BY DEF IInv, NumberInv, Connect, Break, maps
<1>3. ASSUME NEW t \in Trans PROVE TransInv(t)'
  BY Untouched DEF IInv, Connect, Break, maps
<1> QED
  BY <1>1, <1>2, <1>3 DEF IInv

\* disconnect gives up what is open on this connection.
LEMMA DisconnectInv ==
  ASSUME IInv, NEW c \in Client, Disconnect(c)
  PROVE  IInv'
<1>1. TypeOK'
  <2>1. NoServer \in Servers /\ NoMessage \in Messages
    BY DEF NoServer, NoMessage, Servers, Messages
  <2>2. server' \in [Trans -> Servers] /\ wire' \in [Trans -> Messages]
    BY <2>1 DEF IInv, TypeOK, Disconnect
  <2>3. /\ request' \in [Trans -> Kinds \cup {"free", "answered", "refused", "dropped"}]
        /\ asked' \in [Client -> SUBSET Trans]
        /\ conn' \in [Client -> {"down", "up", "broken"}]
        /\ queued' \in SUBSET Trans
    BY DEF IInv, TypeOK, Disconnect
  <2> QED
    BY <2>2, <2>3 DEF IInv, TypeOK, Disconnect
<1>2. NumberInv'
  <2>1. \A t \in Trans : request[t] = "free" => request'[t] = "free"
    BY DEF IInv, TypeOK, Disconnect, Kinds
  <2>2. caller' = caller /\ s_transId' = s_transId
    BY DEF Disconnect
  <2>3. \A h \in Thread : caller[h] # Idle => caller[h].trans \in Trans
    BY DEF IInv, TypeOK, Requests
  <2> QED
    BY <2>1, <2>2, <2>3 DEF IInv, NumberInv, Idle
<1>3. ASSUME NEW t \in Trans PROVE TransInv(t)'
  <2>0. TransInv(t)
    BY DEF IInv
  <2>1. CASE t \in asked[c]
    <3>1. request'[t] \notin Kinds \cup {"free"}
      BY <2>0, <2>1 DEF Disconnect, Kinds, TransInv, FreeInv
    <3>2. server'[t] = NoServer /\ wire'[t] = NoMessage /\ t \notin queued'
      BY <2>1 DEF Disconnect
    <3> QED
      BY <3>1, <3>2
         DEF TransInv, FreeInv, HandedInv, QueueInv, FlowInv, NoServer, NoMessage, Kinds
  <2>2. CASE t \notin asked[c]
    <3>1. \A d \in Client : t \in asked'[d] <=> t \in asked[d]
      BY <2>2 DEF Disconnect, IInv, TypeOK
    <3> QED
      BY <2>0, <2>2, <3>1, Untouched DEF Disconnect
  <2> QED
    BY <2>1, <2>2
<1> QED
  BY <1>1, <1>2, <1>3 DEF IInv

\* A request gets a number that nobody has.
LEMMA BeginRequestInv ==
  ASSUME IInv, NEW h \in Thread, NEW c \in Client, NEW kind \in Kinds,
         BeginRequest(h, c, kind)
  PROVE  IInv'
<1>1. s_transId + 1 \in Trans
  BY TransAssumption DEF IInv, TypeOK, BeginRequest, nextTransId, Trans
<1>2. TypeOK'
  <2>1. /\ s_transId' = s_transId + 1
        /\ caller' = [caller EXCEPT ![h] = [trans |-> s_transId', client |-> c, kind |-> kind]]
    BY DEF BeginRequest, nextTransId
  <2>2. s_transId' \in 0..MaxTrans
    BY <1>1, <2>1 DEF Trans
  <2>3. [trans |-> s_transId', client |-> c, kind |-> kind] \in Requests
    BY <1>1, <2>1 DEF Requests
  <2>4. caller' \in [Thread -> {Idle} \cup Requests]
    BY <2>1, <2>3 DEF IInv, TypeOK
  <2> QED
    BY <2>2, <2>4 DEF IInv, TypeOK, BeginRequest, maps
<1>3. NumberInv'
  <2>1. /\ s_transId \in Nat /\ s_transId' = s_transId + 1 /\ request' = request
        /\ request[s_transId + 1] = "free"
    BY <1>1 DEF IInv, TypeOK, NumberInv, BeginRequest, nextTransId, Trans
  <2>2. /\ caller'[h].trans = s_transId + 1
        /\ \A g \in Thread : g # h => caller'[g] = caller[g]
    BY DEF IInv, TypeOK, BeginRequest, nextTransId
  <2>3. \A g \in Thread : caller[g] # Idle => caller[g].trans \in Nat /\ caller[g].trans <= s_transId
    BY DEF IInv, TypeOK, NumberInv, Trans, Servers, Requests
  <2>4. \A t \in Trans : t > s_transId' => request'[t] = "free"
    BY <2>1 DEF IInv, NumberInv, Trans
  <2>5. \A g \in Thread : caller'[g] # Idle =>
          caller'[g].trans <= s_transId' /\ request'[caller'[g].trans] = "free"
    BY <2>1, <2>2, <2>3 DEF IInv, NumberInv
  <2>6. \A f, g \in Thread : f # g /\ caller'[f] # Idle /\ caller'[g] # Idle =>
          caller'[f].trans # caller'[g].trans
    BY <2>1, <2>2, <2>3 DEF IInv, NumberInv
  <2> QED
    BY <2>4, <2>5, <2>6 DEF NumberInv, Idle
<1>4. ASSUME NEW t \in Trans PROVE TransInv(t)'
  BY Untouched DEF IInv, BeginRequest, maps
<1> QED
  BY <1>2, <1>3, <1>4 DEF IInv

\* A request is sent, or the send fails.
LEMMA SendRequestInv ==
  ASSUME IInv, NEW h \in Thread, SendRequest(h)
  PROVE  IInv'
<1> DEFINE u == caller[h].trans
           d == caller[h].client
<1>0. /\ u \in Trans /\ d \in Client /\ caller[h].kind \in Kinds
      /\ request[u] = "free" /\ u <= s_transId
  BY DEF IInv, TypeOK, NumberInv, SendRequest, Requests
<1>1. /\ request' = [request EXCEPT ![u] = caller[h].kind]
      /\ asked' = [asked EXCEPT ![d] = @ \cup {u}]
      /\ caller' = [caller EXCEPT ![h] = Idle]
      /\ UNCHANGED <<s_transId, handed, wire, maps, undefined>>
      /\ \/ conn' = conn /\ server' = [server EXCEPT
              ![u] = [kind |-> caller[h].kind, sent |-> 0, state |-> "ready"]]
         \/ conn' = [conn EXCEPT ![d] = "broken"] /\ server' = server
  BY DEF SendRequest, Broken
<1> HIDE DEF u, d
<1>2. TypeOK'
  <2>1. /\ server' \in [Trans -> Servers]
        /\ conn' \in [Client -> {"down", "up", "broken"}]
    <3>1. CASE conn' = conn /\ server' = [server EXCEPT
                 ![u] = [kind |-> caller[h].kind, sent |-> 0, state |-> "ready"]]
      BY <1>0, <3>1 DEF IInv, TypeOK, Servers
    <3>2. CASE conn' = [conn EXCEPT ![d] = "broken"] /\ server' = server
      BY <1>0, <3>2 DEF IInv, TypeOK
    <3> QED
      BY <1>1, <3>1, <3>2
  <2>2. /\ request' \in [Trans -> Kinds \cup {"free", "answered", "refused", "dropped"}]
        /\ caller' \in [Thread -> {Idle} \cup Requests]
        /\ asked' \in [Client -> SUBSET Trans]
    BY <1>0, <1>1 DEF IInv, TypeOK
  <2> QED
    BY <1>1, <2>1, <2>2 DEF IInv, TypeOK, maps
<1>3. NumberInv'
  <2>1. \A t \in Trans : t # u => request'[t] = request[t]
    BY <1>0, <1>1 DEF IInv, TypeOK
  <2>2. \A g \in Thread : caller'[g] # Idle =>
          g # h /\ caller'[g] = caller[g] /\ caller[g].trans # u /\ caller[g].trans \in Trans
    BY <1>1 DEF IInv, TypeOK, NumberInv, u, SendRequest, Requests
  <2>3. u \in Nat /\ s_transId \in Nat
    BY <1>0 DEF IInv, TypeOK, Trans
  <2> QED
    BY <1>0, <1>1, <2>1, <2>2, <2>3 DEF IInv, NumberInv, Idle, Trans
<1>4. ASSUME NEW t \in Trans PROVE TransInv(t)'
  <2>0. TransInv(t)
    BY DEF IInv
  <2>1. CASE t = u
    <3>1. /\ request'[t] = caller[h].kind /\ handed'[t] = <<>> /\ Len(handed'[t]) = 0
          /\ t \notin queued' /\ wire'[t] = NoMessage
      BY <1>0, <1>1, <2>0, <2>1 DEF IInv, TypeOK, TransInv, FreeInv, maps
    <3>2. \/ server'[t].state = "none"
          \/ server'[t] = [kind |-> caller[h].kind, sent |-> 0, state |-> "ready"]
      BY <1>0, <1>1, <2>0, <2>1 DEF IInv, TypeOK, TransInv, FreeInv
    <3>3. FreeInv(t)' /\ QueueInv(t)'
      BY <1>0, <3>1 DEF FreeInv, QueueInv, Kinds
    <3>4. HandedInv(t)'
      BY <3>1, TransAssumption DEF HandedInv, Entries, Trans
    <3>5. Got(t)' = 0
      BY <3>1 DEF Got, Begun
    <3>6. FlowInv(t)'
      BY <3>1, <3>2, <3>5, TransAssumption DEF FlowInv, Trans
    <3> QED
      BY <3>3, <3>4, <3>6 DEF TransInv
  <2>2. CASE t # u
    <3>1. /\ request'[t] = request[t] /\ server'[t] = server[t]
          /\ \A c \in Client : t \in asked'[c] <=> t \in asked[c]
      BY <1>0, <1>1, <2>2 DEF IInv, TypeOK
    <3> QED
      BY <1>1, <2>0, <3>1, Untouched DEF maps
  <2> QED
    BY <2>1, <2>2
<1> QED
  BY <1>2, <1>3, <1>4 DEF IInv

\* The numbers are not concerned when only the rest changes.
LEMMA NumbersKept ==
  ASSUME IInv, s_transId' = s_transId, caller' = caller,
         \A t \in Trans : request[t] = "free" => request'[t] = "free"
  PROVE  NumberInv'
BY DEF IInv, TypeOK, NumberInv, Requests

\* The server sends the next entries, or an end.
LEMMA ServerInv ==
  ASSUME IInv, NEW u \in Trans, SendChunk(u) \/ SendLast(u)
  PROVE  IInv'
<1>0. /\ server[u].state = "ready" /\ wire[u] = NoMessage /\ server[u].kind = request[u]
      /\ request[u] \in Kinds /\ server[u].sent \in Nat /\ Total[u] \in Nat
      /\ server[u].kind # "build" => Got(u) = server[u].sent /\ server[u].sent <= Total[u]
  <2>1. server[u].state = "ready" /\ TransInv(u)
    BY DEF SendChunk, SendLast, IInv
  <2>2. server[u].kind \in Kinds \cup {"none"} /\ request[u] # "none" /\ server[u].sent \in Nat
    BY DEF IInv, TypeOK, Kinds, Servers
  <2> QED
    BY <2>1, <2>2, TransAssumption DEF TransInv, FlowInv, Trans
<1>1. /\ UNCHANGED <<s_transId, caller, conn, asked, request, handed, maps, undefined>>
      /\ \A t \in Trans : t # u => wire'[t] = wire[t] /\ server'[t] = server[t]
  BY DEF SendChunk, SendLast, IInv, TypeOK
<1>2. CASE SendChunk(u)
  <2>1. PICK last \in server[u].sent..Total[u] :
          /\ wire' = [wire EXCEPT ![u] =
               [id |-> server[u].kind, result |-> "ok", total |-> Total[u],
                entries |-> [j \in 1..last - server[u].sent |-> server[u].sent + j]]]
          /\ server' = [server EXCEPT ![u].sent = last, ![u].state = "waiting"]
    BY <1>2 DEF SendChunk
  <2>2. /\ wire'[u] = [id |-> server[u].kind, result |-> "ok", total |-> Total[u],
                       entries |-> [j \in 1..last - server[u].sent |-> server[u].sent + j]]
        /\ server'[u] = [server[u] EXCEPT !.sent = last, !.state = "waiting"]
    BY <2>1 DEF IInv, TypeOK
  <2> DEFINE es == [j \in 1..last - server[u].sent |-> server[u].sent + j]
  <2>3. last \in Nat /\ last - server[u].sent \in Nat /\ es \in Seq(Nat)
    <3>1. last \in Nat /\ last - server[u].sent \in Nat
      BY <1>0, <2>1
    <3> QED
      BY <1>0, <3>1, RunProperties
  <2> HIDE DEF es
  <2>4. TypeOK'
    <3>1. wire' \in [Trans -> Messages]
      BY <1>0, <2>1, <2>3 DEF IInv, TypeOK, es, Messages
    <3>2. server' \in [Trans -> Servers]
      <4> DEFINE s == [server[u] EXCEPT !.sent = last, !.state = "waiting"]
      <4>1. server' = [server EXCEPT ![u] = s] /\ server \in [Trans -> Servers]
        BY <2>1 DEF IInv, TypeOK
      <4>2. server[u] \in Servers
        BY <4>1
      <4>3. s \in Servers
        BY <2>3, <4>2 DEF Servers
      <4> HIDE DEF s
      <4> QED
        BY <4>1, <4>3
    <3> QED
      BY <1>1, <3>1, <3>2 DEF IInv, TypeOK, maps
  <2>5. TransInv(u)'
    <3>0. TransInv(u) /\ server[u].kind # "build" /\ Got(u)' = Got(u)
      BY <1>1, <1>2 DEF IInv, SendChunk, Got, Begun, maps
    <3>1. FreeInv(u)' /\ HandedInv(u)'
      BY <1>0, <1>1, <3>0 DEF TransInv, FreeInv, HandedInv, Kinds
    <3>2. wire'[u] # NoMessage
      BY <1>0, <2>2 DEF NoMessage, Kinds
    <3>3. QueueInv(u)'
      BY <1>1, <3>0, <3>2 DEF TransInv, QueueInv, maps
    <3>4. server'[u].kind = server[u].kind /\ server'[u].sent = last /\ server'[u].state = "waiting"
      BY <2>2 DEF IInv, TypeOK
    <3>5. Got(u)' = server[u].sent /\ server[u].sent <= last /\ last <= Total[u]
      BY <1>0, <2>1, <3>0
    <3>6. wire'[u].entries = [j \in 1..server'[u].sent - Got(u)' |-> Got(u)' + j]
      BY <2>2, <3>4, <3>5
    <3>7. NextEntries(u)'
      BY <1>0, <2>2, <3>0, <3>4, <3>5, <3>6 DEF NextEntries
    <3>8. FlowInv(u)'
      BY <1>0, <1>1, <2>2, <3>4, <3>7 DEF FlowInv
    <3> QED
      BY <3>1, <3>3, <3>8 DEF TransInv
  <2> QED
    BY <1>1, <2>4, <2>5, NumbersKept, Untouched DEF IInv, maps
<1>3. CASE SendLast(u)
  <2>1. PICK result \in {"ok", "error"} :
          /\ result = "ok" => server[u].kind = "build"
          /\ wire' = [wire EXCEPT ![u] =
               [id |-> server[u].kind, result |-> result, total |-> 0, entries |-> <<>>]]
          /\ server' = [server EXCEPT ![u].state = "ended"]
    BY <1>3 DEF SendLast
  <2>2. /\ wire'[u] = [id |-> server[u].kind, result |-> result, total |-> 0, entries |-> <<>>]
        /\ server'[u].state = "ended"
    BY <2>1 DEF IInv, TypeOK
  <2>4. TypeOK'
    <3>1. wire' \in [Trans -> Messages]
      BY <1>0, <2>1 DEF IInv, TypeOK, Messages
    <3>2. server' \in [Trans -> Servers]
      BY <2>1 DEF IInv, TypeOK, Servers
    <3> QED
      BY <1>1, <3>1, <3>2 DEF IInv, TypeOK, maps
  <2>5. TransInv(u)'
    <3>0. TransInv(u)
      BY DEF IInv
    <3>1. FreeInv(u)' /\ HandedInv(u)'
      BY <1>0, <1>1, <3>0 DEF TransInv, FreeInv, HandedInv, Kinds
    <3>2. wire'[u] # NoMessage
      BY <1>0, <2>2 DEF NoMessage, Kinds
    <3>3. QueueInv(u)'
      BY <1>1, <3>0, <3>2 DEF TransInv, QueueInv, maps
    <3>5. FlowInv(u)'
      BY <1>0, <1>1, <2>1, <2>2 DEF FlowInv, LastMessage
    <3> QED
      BY <3>1, <3>3, <3>5 DEF TransInv
  <2> QED
    BY <1>1, <2>4, <2>5, NumbersKept, Untouched DEF IInv, maps
<1> QED
  BY <1>2, <1>3

\* What the acknowledgement does: the server is ready only if it has more.
LEMMA AckProperties ==
  ASSUME IInv, NEW c \in Client, NEW u \in Trans, Ack(c, u)
  PROVE  /\ server' \in [Trans -> Servers]
         /\ conn' \in [Client -> {"down", "up", "broken"}]
         /\ \A t \in Trans : t # u => server'[t] = server[t]
         /\ server'[u].kind = server[u].kind /\ server'[u].sent = server[u].sent
         /\ server'[u].state = "ready" =>
              \/ server[u].state = "ready"
              \/ server[u].state = "waiting" /\ server[u].sent # Total[u]
<1>1. /\ server[u] \in Servers /\ server \in [Trans -> Servers]
      /\ conn \in [Client -> {"down", "up", "broken"}]
  BY DEF IInv, TypeOK
<1>2. CASE /\ conn' = conn
           /\ server' = [server EXCEPT ![u].state =
                IF server[u].sent = Total[u] THEN "ended"
                ELSE IF @ = "waiting" THEN "ready" ELSE @]
  <2> DEFINE s == IF server[u].sent = Total[u] THEN "ended"
                  ELSE IF server[u].state = "waiting" THEN "ready" ELSE server[u].state
  <2>1. /\ s \in {"none", "ready", "waiting", "ended"}
        /\ server' = [server EXCEPT ![u].state = s]
    BY <1>1, <1>2 DEF Servers
  <2>2. s = "ready" => \/ server[u].state = "ready"
                       \/ server[u].state = "waiting" /\ server[u].sent # Total[u]
    OBVIOUS
  <2> HIDE DEF s
  <2>3. server'[u].state = s /\ server'[u].kind = server[u].kind /\ server'[u].sent = server[u].sent
    BY <1>1, <2>1 DEF Servers
  <2>4. /\ server' \in [Trans -> Servers]
        /\ \A t \in Trans : t # u => server'[t] = server[t]
    BY <1>1, <2>1 DEF Servers
  <2> QED
    BY <1>1, <1>2, <2>2, <2>3, <2>4
<1>3. CASE conn' = [conn EXCEPT ![c] = "broken"] /\ server' = server
  BY <1>1, <1>3
<1> QED
  BY <1>2, <1>3 DEF Ack, Broken

\* What a message finds and leaves in the array of its manifest.
LEMMA ManifestProperties ==
  ASSUME IInv, NEW u \in Trans, wire[u].id = "manifest", NextEntries(u), request[u] = "manifest"
  PROVE  /\ LoopEnd(u) = server[u].sent /\ wire[u].total = Total[u]
         /\ Filled(u) \in Seq(Nat) /\ Len(Filled(u)) = Total[u]
         /\ \A j \in 1..server[u].sent : Filled(u)[j] = j
<1> DEFINE b == Begun(u)
           s == server[u].sent
           es == wire[u].entries
           a == Array(u)
<1>1. /\ b \in Nat /\ s \in Nat /\ Total[u] \in Nat /\ b <= s /\ s <= Total[u]
      /\ wire[u].total = Total[u] /\ es = [j \in 1..s - b |-> b + j]
  BY TransAssumption DEF IInv, TypeOK, Begun, NextEntries, Got, Trans, Messages, Servers
<1>2. s - b \in Nat /\ Len(es) = s - b
  BY <1>1, RunProperties
<1>3. /\ a \in Seq(Nat) /\ Len(a) = Total[u]
      /\ \A j \in 1..b : a[j] = j
  <2>1. CASE u \in queued
    BY <2>1 DEF Array, Begun, IInv, TypeOK, TransInv, QueueInv
  <2>2. CASE u \notin queued
    BY <1>1, <2>2 DEF Array, Begun
  <2> QED
    BY <2>1, <2>2
<1>4. LoopEnd(u) = s
  BY <1>1, <1>2 DEF LoopEnd
<1> HIDE DEF b, s, es, a
<1>5. Filled(u) = [j \in 1..Total[u] |-> IF b < j /\ j <= s THEN es[j - b] ELSE a[j]]
  BY <1>3, <1>4 DEF Filled, b, es, a
<1>6. ASSUME NEW j \in 1..Total[u]
      PROVE  /\ (IF b < j /\ j <= s THEN es[j - b] ELSE a[j]) \in Nat
             /\ j <= s => (IF b < j /\ j <= s THEN es[j - b] ELSE a[j]) = j
  <2>0. j \in Nat /\ (b < j \/ j <= b) /\ (j <= s \/ s < j)
    BY <1>1
  <2>1. CASE b < j /\ j <= s
    <3>1. j - b \in 1..s - b /\ b + (j - b) = j
      BY <1>1, <2>1
    <3> QED
      BY <1>1, <2>0, <2>1, <3>1
  <2>2. CASE j <= b
    BY <1>1, <1>3, <2>0, <2>2
  <2>3. CASE s < j
    BY <1>1, <1>3, <2>0, <2>3
  <2> QED
    BY <2>0, <2>1, <2>2, <2>3
<1>7. /\ Filled(u) \in Seq(Nat) /\ Len(Filled(u)) = Total[u]
      /\ \A j \in 1..Total[u] : j <= s => Filled(u)[j] = j
  <2> DEFINE f(j) == IF b < j /\ j <= s THEN es[j - b] ELSE a[j]
             k == Total[u]
  <2>1. \A j \in 1..k : f(j) \in Nat /\ (j <= s => f(j) = j)
    BY <1>6
  <2>2. Filled(u) = [j \in 1..k |-> f(j)] /\ k \in Nat
    BY <1>1, <1>5
  <2> HIDE DEF f, k
  <2> QED
    BY <2>1, <2>2 DEF k
<1>8. \A j \in 1..s : Filled(u)[j] = j
  BY <1>1, <1>7
<1> QED
  BY <1>1, <1>4, <1>7, <1>8 DEF s

\* A chunk of a manifest is queued: what has been received grows.
LEMMA ManifestQueuedInv ==
  ASSUME IInv, NEW c \in Client, NEW u \in Trans, ManifestReply(c, u),
         LoopEnd(u) < wire[u].total
  PROVE  IInv'
<1>0. /\ conn[c] = "up" /\ u \in asked[c] /\ wire[u] # NoMessage /\ wire[u].id = "manifest"
      /\ wire' = [wire EXCEPT ![u] = NoMessage] /\ Ack(c, u)
      /\ UNCHANGED <<s_transId, caller, asked, undefined>>
  BY DEF ManifestReply, Receive
<1>1. /\ request[u] = "manifest" /\ TransInv(u)
      /\ NextEntries(u) \/ LastMessage(u)
  BY <1>0 DEF IInv, TransInv, FlowInv
<1>2. LoopEnd(u) \in Nat /\ wire[u].total \in Nat
  <2>1. Begun(u) \in Nat /\ wire[u].entries \in Seq(Nat) /\ wire[u].total \in Nat
    BY DEF IInv, TypeOK, Begun, Messages
  <2> QED
    BY <2>1 DEF LoopEnd
<1>3. NextEntries(u)
  BY <1>1, <1>2 DEF LastMessage
<1>4. /\ LoopEnd(u) = server[u].sent /\ wire[u].total = Total[u]
      /\ Filled(u) \in Seq(Nat) /\ Len(Filled(u)) = Total[u]
      /\ \A j \in 1..server[u].sent : Filled(u)[j] = j
  BY <1>0, <1>1, <1>3, ManifestProperties
<1>5. /\ queued' = queued \cup {u}
      /\ files' = [files EXCEPT ![u] = Filled(u)]
      /\ offset' = [offset EXCEPT ![u] = LoopEnd(u)]
      /\ UNCHANGED <<request, handed>>
  <2>1. ~(LoopEnd(u) >= wire[u].total)
    BY <1>2
  <2> QED
    BY <2>1 DEF ManifestReply
<1>6. /\ server'[u].kind = server[u].kind /\ server'[u].sent = server[u].sent
      /\ \A t \in Trans : t # u => server'[t] = server[t]
  BY <1>0, AckProperties
<1>7. TypeOK'
  <2>1. /\ server' \in [Trans -> Servers]
        /\ conn' \in [Client -> {"down", "up", "broken"}]
    BY <1>0, AckProperties
  <2>2. /\ files' \in [Trans -> Seq(Nat)] /\ offset' \in [Trans -> Nat]
        /\ queued' \in SUBSET Trans
    BY <1>2, <1>4, <1>5 DEF IInv, TypeOK
  <2>3. wire' \in [Trans -> Messages]
    BY <1>0 DEF IInv, TypeOK, NoMessage, Messages
  <2> QED
    BY <1>0, <1>5, <2>1, <2>2, <2>3 DEF IInv, TypeOK
<1>8. NumberInv'
  BY <1>0, <1>5, NumbersKept
<1>9. ASSUME NEW t \in Trans, t # u PROVE TransInv(t)'
  <2>1. /\ TransInv(t) /\ request'[t] = request[t] /\ handed'[t] = handed[t]
        /\ server'[t] = server[t] /\ wire'[t] = wire[t] /\ files'[t] = files[t]
        /\ offset'[t] = offset[t] /\ (t \in queued' <=> t \in queued)
    BY <1>0, <1>5, <1>6, <1>9 DEF IInv, TypeOK
  <2> QED
    BY <1>0, <2>1, Untouched
<1>10. TransInv(u)'
  <2>1. /\ u \in queued' /\ files'[u] = Filled(u) /\ offset'[u] = server[u].sent
        /\ wire'[u] = NoMessage /\ request'[u] = "manifest" /\ handed'[u] = handed[u]
    BY <1>0, <1>1, <1>4, <1>5 DEF IInv, TypeOK
  <2>2. FreeInv(u)' /\ HandedInv(u)'
    BY <1>1, <2>1 DEF FreeInv, HandedInv, TransInv
  <2>3. QueueInv(u)'
    BY <1>0, <1>4, <1>6, <2>1 DEF QueueInv
  <2>4. Got(u)' = server[u].sent
    BY <2>1 DEF Got, Begun
  <2>5. FlowInv(u)'
    BY <1>3, <1>0, <1>6, <2>1, <2>4 DEF FlowInv, NextEntries
  <2> QED
    BY <2>2, <2>3, <2>5 DEF TransInv
<1> QED
  BY <1>7, <1>8, <1>9, <1>10 DEF IInv

\* What the application is handed of a manifest: all of it, or nothing.
LEMMA ManifestHanded ==
  ASSUME IInv, NEW c \in Client, NEW u \in Trans, ManifestReply(c, u),
         LoopEnd(u) >= wire[u].total
  PROVE  /\ request[u] = "manifest" /\ server[u].state # "ready"
         /\ server[u].state = "waiting" => server[u].sent = Total[u]
         /\ \/ /\ request' = [request EXCEPT ![u] = "answered"]
               /\ handed' = [handed EXCEPT ![u] = Entries(Total[u])]
            \/ /\ request' = [request EXCEPT ![u] = "refused"]
               /\ handed' = handed
<1>0. wire[u] # NoMessage /\ wire[u].id = "manifest"
  BY DEF ManifestReply, Receive
<1>1. /\ request[u] = "manifest" /\ TransInv(u) /\ handed[u] = <<>>
      /\ NextEntries(u) \/ LastMessage(u)
  BY <1>0 DEF IInv, TransInv, FlowInv, HandedInv
<1>2. LoopEnd(u) \in Nat /\ wire[u].total \in Nat /\ Begun(u) \in Nat
  <2>1. Begun(u) \in Nat /\ wire[u].entries \in Seq(Nat) /\ wire[u].total \in Nat
    BY DEF IInv, TypeOK, Begun, Messages
  <2> QED
    BY <2>1 DEF LoopEnd
<1>3. HandOver(u, wire[u].result, SubSeq(Filled(u), 1, wire[u].total), TRUE)
  <2>1. ~(LoopEnd(u) < wire[u].total)
    BY <1>2
  <2> QED
    BY <2>1 DEF ManifestReply
<1>4. CASE NextEntries(u)
  <2>1. /\ LoopEnd(u) = server[u].sent /\ wire[u].total = Total[u]
        /\ Filled(u) \in Seq(Nat) /\ Len(Filled(u)) = Total[u]
        /\ \A j \in 1..server[u].sent : Filled(u)[j] = j
    BY <1>0, <1>1, <1>4, ManifestProperties
  <2>2. server[u].sent = Total[u] /\ Total[u] \in Nat
    BY <1>2, <1>4, <2>1 DEF NextEntries
  <2>3. <<>> \o SubSeq(Filled(u), 1, Total[u]) = Entries(Total[u])
    BY <2>1, <2>2, EntriesOfArray
  <2>4. handed' = [handed EXCEPT ![u] = Entries(Total[u])]
    BY <1>1, <1>3, <2>1, <2>3 DEF HandOver
  <2>5. request' = [request EXCEPT ![u] = "answered"]
    BY <1>3, <1>4 DEF HandOver, NextEntries
  <2> QED
    BY <1>1, <1>4, <2>2, <2>4, <2>5 DEF NextEntries
<1>5. CASE LastMessage(u)
  <2>1. wire[u].total = 0 /\ wire[u].result = "error" /\ server[u].state = "ended"
    BY <1>0, <1>5 DEF LastMessage
  <2>2. SubSeq(Filled(u), 1, 0) = <<>>
    BY SubSeqEmpty
  <2>a. handed[u] \o <<>> = handed[u]
    BY ConcatEmptySeq DEF IInv, TypeOK
  <2>3. handed' = [handed EXCEPT ![u] = <<>>]
    BY <1>1, <1>3, <2>1, <2>2, <2>a DEF HandOver
  <2>4. handed' = handed
    BY <1>1, <2>3 DEF IInv, TypeOK
  <2>5. request' = [request EXCEPT ![u] = "refused"]
    BY <1>3, <2>1 DEF HandOver
  <2> QED
    BY <1>1, <2>1, <2>4, <2>5
<1> QED
  BY <1>1, <1>4, <1>5

\* A manifest is handed over, and its entries leave the maps.
LEMMA ManifestHandedInv ==
  ASSUME IInv, NEW c \in Client, NEW u \in Trans, ManifestReply(c, u),
         LoopEnd(u) >= wire[u].total
  PROVE  IInv'
<1>0. /\ wire' = [wire EXCEPT ![u] = NoMessage] /\ Ack(c, u)
      /\ UNCHANGED <<s_transId, caller, asked, undefined>>
  BY DEF ManifestReply, Receive
<1>1. /\ request[u] = "manifest" /\ server[u].state # "ready"
      /\ server[u].state = "waiting" => server[u].sent = Total[u]
      /\ \/ /\ request' = [request EXCEPT ![u] = "answered"]
            /\ handed' = [handed EXCEPT ![u] = Entries(Total[u])]
         \/ /\ request' = [request EXCEPT ![u] = "refused"]
            /\ handed' = handed
  BY ManifestHanded
<1>2. queued' = queued \ {u} /\ UNCHANGED <<files, offset>>
  <2>1. wire[u].entries \in Seq(Nat) /\ wire[u].total \in Nat /\ Begun(u) \in Nat
    BY DEF IInv, TypeOK, Begun, Messages
  <2>2. ~(LoopEnd(u) < wire[u].total)
    BY <2>1 DEF LoopEnd
  <2> QED
    BY <2>2 DEF ManifestReply
<1>3. /\ server' \in [Trans -> Servers]
      /\ conn' \in [Client -> {"down", "up", "broken"}]
      /\ server'[u].state # "ready"
      /\ \A t \in Trans : t # u => server'[t] = server[t]
  BY <1>0, <1>1, AckProperties
<1>4. /\ \A t \in Trans : t # u => request'[t] = request[t] /\ handed'[t] = handed[t]
      /\ request'[u] \in {"answered", "refused"}
      /\ request' \in [Trans -> Kinds \cup {"free", "answered", "refused", "dropped"}]
      /\ handed' \in [Trans -> Seq(Nat)]
  <2>1. Entries(Total[u]) \in Seq(Nat)
    BY TransAssumption, EntriesProperties DEF Trans
  <2>2. CASE /\ request' = [request EXCEPT ![u] = "answered"]
             /\ handed' = [handed EXCEPT ![u] = Entries(Total[u])]
    BY <2>1, <2>2 DEF IInv, TypeOK
  <2>3. CASE request' = [request EXCEPT ![u] = "refused"] /\ handed' = handed
    BY <2>3 DEF IInv, TypeOK
  <2> QED
    BY <1>1, <2>2, <2>3
<1>5. wire' \in [Trans -> Messages]
  BY <1>0 DEF IInv, TypeOK, NoMessage, Messages
<1>6. TypeOK'
  BY <1>0, <1>2, <1>3, <1>4, <1>5 DEF IInv, TypeOK
<1>7. NumberInv'
  BY <1>0, <1>1, <1>4, NumbersKept
<1>8. ASSUME NEW t \in Trans, t # u PROVE TransInv(t)'
  <2>1. /\ TransInv(t) /\ request'[t] = request[t] /\ handed'[t] = handed[t]
        /\ server'[t] = server[t] /\ wire'[t] = wire[t] /\ files'[t] = files[t]
        /\ offset'[t] = offset[t] /\ (t \in queued' <=> t \in queued)
    BY <1>0, <1>2, <1>3, <1>4, <1>8 DEF IInv, TypeOK
  <2> QED
    BY <1>0, <2>1, Untouched
<1>9. TransInv(u)'
  <2>1. wire'[u] = NoMessage
    BY <1>0 DEF IInv, TypeOK
  <2> QED
    BY <1>2, <1>3, <1>4, <2>1 DEF TransInv, FreeInv, HandedInv, QueueInv, FlowInv
<1> QED
  BY <1>6, <1>7, <1>8, <1>9 DEF IInv

\* What the application is handed of a download: the next pieces, or nothing.
LEMMA PieceHanded ==
  ASSUME IInv, NEW c \in Client, NEW u \in Trans, FileDownloadReply(c, u)
  PROVE  /\ request[u] = "download" /\ server[u].state # "ready"
         /\ \/ /\ server[u].state = "waiting"
               /\ server[u].sent \in Len(handed[u])..Total[u]
               /\ handed' = [handed EXCEPT ![u] = Entries(server[u].sent)]
               /\ request' = IF server[u].sent = Total[u]
                             THEN [request EXCEPT ![u] = "answered"] ELSE request
            \/ /\ server[u].state = "ended" /\ handed' = handed
               /\ request' = [request EXCEPT ![u] = "refused"]
<1>0. /\ wire[u] # NoMessage /\ wire[u].id = "download"
      /\ HandOver(u, wire[u].result, wire[u].entries,
                  Len(handed[u]) + Len(wire[u].entries) = wire[u].total)
  BY DEF FileDownloadReply, Receive
<1>1. /\ request[u] = "download" /\ handed[u] = Entries(Len(handed[u]))
      /\ NextEntries(u) \/ LastMessage(u)
      /\ Got(u) = Len(handed[u]) /\ Len(handed[u]) \in Nat /\ server[u].sent \in Nat
      /\ handed[u] \in Seq(Nat)
  BY <1>0 DEF IInv, TypeOK, TransInv, FlowInv, HandedInv, Got, Servers
<1>2. CASE NextEntries(u)
  <2> DEFINE k == Len(handed[u])
             n == server[u].sent - k
             es == wire[u].entries
  <2>1. /\ n \in Nat /\ k + n = server[u].sent /\ server[u].sent <= Total[u]
        /\ wire[u].total = Total[u] /\ es = [j \in 1..n |-> k + j]
        /\ wire[u].result = "ok" /\ server[u].state = "waiting" /\ Total[u] \in Nat
    BY <1>1, <1>2, TransAssumption DEF NextEntries, Trans
  <2>2. Len(es) = n
    BY <1>1, <2>1, RunProperties
  <2>3. handed[u] \o es = Entries(server[u].sent)
    BY <1>1, <2>1, EntriesConcat
  <2>4. handed' = [handed EXCEPT ![u] = Entries(server[u].sent)]
    BY <1>0, <2>3 DEF HandOver
  <2>5. (k + Len(es) = wire[u].total) <=> (server[u].sent = Total[u])
    BY <2>1, <2>2
  <2>6. request' = IF server[u].sent = Total[u]
                   THEN [request EXCEPT ![u] = "answered"] ELSE request
    <3>1. CASE server[u].sent = Total[u]
      BY <1>0, <2>1, <2>5, <3>1 DEF HandOver
    <3>2. CASE server[u].sent # Total[u]
      <4>1. request' = [request EXCEPT ![u] = request[u]]
        BY <1>0, <2>1, <2>5, <3>2 DEF HandOver
      <4> QED
        BY <3>2, <4>1 DEF IInv, TypeOK
    <3> QED
      BY <3>1, <3>2
  <2>7. server[u].sent \in Len(handed[u])..Total[u]
    BY <1>1, <2>1
  <2> QED
    BY <1>1, <2>1, <2>4, <2>6, <2>7
<1>3. CASE LastMessage(u)
  <2>1. wire[u].result = "error" /\ wire[u].entries = <<>> /\ server[u].state = "ended"
    BY <1>0, <1>3 DEF LastMessage
  <2>2. handed' = [handed EXCEPT ![u] = handed[u]]
    BY <1>0, <1>1, <2>1, ConcatEmptySeq DEF HandOver
  <2>3. request' = [request EXCEPT ![u] = "refused"]
    BY <1>0, <2>1 DEF HandOver
  <2> QED
    BY <1>1, <2>1, <2>2, <2>3 DEF IInv, TypeOK
<1> QED
  BY <1>1, <1>2, <1>3

\* A message of a download is handed over.
LEMMA FileDownloadReplyInv ==
  ASSUME IInv, NEW c \in Client, NEW u \in Trans, FileDownloadReply(c, u)
  PROVE  IInv'
<1>0. /\ wire' = [wire EXCEPT ![u] = NoMessage] /\ Ack(c, u)
      /\ UNCHANGED <<s_transId, caller, asked, maps, undefined>>
  BY DEF FileDownloadReply, Receive
<1> DEFINE s == server[u].sent
<1>1. /\ request[u] = "download" /\ server[u].state # "ready"
      /\ \/ /\ server[u].state = "waiting"
            /\ s \in Len(handed[u])..Total[u]
            /\ handed' = [handed EXCEPT ![u] = Entries(s)]
            /\ request' = IF s = Total[u] THEN [request EXCEPT ![u] = "answered"] ELSE request
         \/ /\ server[u].state = "ended" /\ handed' = handed
            /\ request' = [request EXCEPT ![u] = "refused"]
  BY PieceHanded
<1>2. /\ server' \in [Trans -> Servers]
      /\ conn' \in [Client -> {"down", "up", "broken"}]
      /\ server'[u].kind = server[u].kind /\ server'[u].sent = s
      /\ server'[u].state = "ready" => server[u].state = "waiting" /\ s # Total[u]
      /\ \A t \in Trans : t # u => server'[t] = server[t]
  BY <1>0, <1>1, AckProperties
<1>3. /\ s \in Nat /\ Total[u] \in Nat /\ TransInv(u) /\ u \notin queued
      /\ Entries(s) \in Seq(Nat) /\ Len(Entries(s)) = s
  BY <1>1, TransAssumption, EntriesProperties DEF IInv, TypeOK, TransInv, QueueInv, Trans, Servers
<1> HIDE DEF s
<1>4. /\ \A t \in Trans : t # u => request'[t] = request[t] /\ handed'[t] = handed[t]
      /\ request' \in [Trans -> Kinds \cup {"free", "answered", "refused", "dropped"}]
      /\ handed' \in [Trans -> Seq(Nat)]
      /\ \/ request'[u] \in {"answered", "refused"}
         \/ /\ request'[u] = "download" /\ handed'[u] = Entries(s)
            /\ s # Total[u] /\ s <= Total[u]
  <2>1. CASE /\ s \in Len(handed[u])..Total[u]
             /\ handed' = [handed EXCEPT ![u] = Entries(s)]
             /\ request' = IF s = Total[u] THEN [request EXCEPT ![u] = "answered"] ELSE request
    <3>1. s <= Total[u] /\ handed'[u] = Entries(s) /\ handed' \in [Trans -> Seq(Nat)]
          /\ \A t \in Trans : t # u => handed'[t] = handed[t]
      BY <1>3, <2>1 DEF IInv, TypeOK
    <3>2. CASE s = Total[u]
      BY <2>1, <3>1, <3>2 DEF IInv, TypeOK
    <3>3. CASE s # Total[u]
      BY <1>1, <2>1, <3>1, <3>3 DEF IInv, TypeOK
    <3> QED
      BY <3>2, <3>3
  <2>2. CASE handed' = handed /\ request' = [request EXCEPT ![u] = "refused"]
    BY <2>2 DEF IInv, TypeOK
  <2> QED
    BY <1>1, <2>1, <2>2
<1>5. wire' \in [Trans -> Messages]
  BY <1>0 DEF IInv, TypeOK, NoMessage, Messages
<1>6. TypeOK'
  BY <1>0, <1>2, <1>4, <1>5 DEF IInv, TypeOK, maps
<1>7. NumberInv'
  BY <1>0, <1>1, <1>4, NumbersKept
<1>8. ASSUME NEW t \in Trans, t # u PROVE TransInv(t)'
  <2>1. /\ TransInv(t) /\ request'[t] = request[t] /\ handed'[t] = handed[t]
        /\ server'[t] = server[t] /\ wire'[t] = wire[t]
    BY <1>0, <1>2, <1>4, <1>8 DEF IInv, TypeOK
  <2> QED
    BY <1>0, <2>1, Untouched DEF maps
<1>9. TransInv(u)'
  <2>1. wire'[u] = NoMessage /\ u \notin queued'
    BY <1>0, <1>3 DEF IInv, TypeOK, maps
  <2>2. CASE request'[u] \in {"answered", "refused"}
    <3>1. server'[u].state # "ready"
      <4>1. CASE server[u].state = "waiting" /\ s # Total[u]
        <5>1. request'[u] = request[u]
          BY <1>1, <4>1
        <5> QED
          BY <1>1, <2>2, <5>1
      <4> QED
        BY <1>2, <4>1
    <3> QED
      BY <2>1, <2>2, <3>1 DEF TransInv, FreeInv, HandedInv, QueueInv, FlowInv
  <2>3. CASE /\ request'[u] = "download" /\ handed'[u] = Entries(s)
             /\ s # Total[u] /\ s <= Total[u]
    <3>1. FreeInv(u)' /\ QueueInv(u)'
      BY <2>1, <2>3 DEF FreeInv, QueueInv
    <3>2. HandedInv(u)'
      BY <1>3, <2>3 DEF HandedInv
    <3>3. Got(u)' = s
      BY <1>3, <2>3 DEF Got
    <3>4. server'[u].state = "ready" => server'[u].kind = "download"
      <4>1. wire[u] # NoMessage /\ wire[u].id = "download"
        BY DEF FileDownloadReply, Receive
      <4>2. NextEntries(u) \/ LastMessage(u)
        BY <1>3, <4>1 DEF TransInv, FlowInv
      <4> QED
        BY <1>2, <4>1, <4>2 DEF NextEntries, LastMessage
    <3>5. FlowInv(u)'
      BY <1>2, <2>1, <2>3, <3>3, <3>4 DEF FlowInv
    <3> QED
      BY <3>1, <3>2, <3>5 DEF TransInv
  <2> QED
    BY <1>4, <2>2, <2>3
<1> QED
  BY <1>6, <1>7, <1>8, <1>9 DEF IInv

\* A build number is handed over.
LEMMA BuildIdReplyInv ==
  ASSUME IInv, NEW c \in Client, NEW u \in Trans, BuildIdReply(c, u)
  PROVE  /\ IInv' /\ handed' = handed /\ request[u] = "build"
         /\ \E r \in {"answered", "refused"} : request' = [request EXCEPT ![u] = r]
<1>0. /\ wire[u] # NoMessage /\ wire[u].id = "build"
      /\ wire' = [wire EXCEPT ![u] = NoMessage]
      /\ HandOver(u, wire[u].result, <<>>, TRUE)
      /\ UNCHANGED <<s_transId, caller, conn, asked, server, maps, undefined>>
  BY DEF BuildIdReply, Receive
<1>1. /\ request[u] = "build" /\ server[u].state = "ended" /\ u \notin queued
  BY <1>0 DEF IInv, TransInv, QueueInv, FlowInv, NextEntries, LastMessage
<1>2. handed' = handed
  <2>1. handed[u] \o <<>> = handed[u]
    BY ConcatEmptySeq DEF IInv, TypeOK
  <2> QED
    BY <1>0, <2>1 DEF HandOver, IInv, TypeOK
<1>3. PICK r \in {"answered", "refused"} : request' = [request EXCEPT ![u] = r]
  BY <1>0 DEF HandOver
<1>4. TypeOK'
  <2>1. wire' \in [Trans -> Messages]
    BY <1>0 DEF IInv, TypeOK, NoMessage, Messages
  <2> QED
    BY <1>0, <1>2, <1>3, <2>1 DEF IInv, TypeOK, maps
<1>5. /\ \A t \in Trans : t # u => request'[t] = request[t]
      /\ request'[u] = r
  BY <1>3 DEF IInv, TypeOK
<1>6. NumberInv'
  BY <1>0, <1>1, <1>5, NumbersKept
<1>7. ASSUME NEW t \in Trans, t # u PROVE TransInv(t)'
  <2>1. TransInv(t) /\ request'[t] = request[t] /\ wire'[t] = wire[t]
    BY <1>0, <1>5, <1>7 DEF IInv, TypeOK
  <2> QED
    BY <1>0, <1>2, <2>1, Untouched DEF maps
<1>8. TransInv(u)'
  <2>1. wire'[u] = NoMessage /\ u \notin queued' /\ server'[u].state = "ended"
    BY <1>0, <1>1 DEF IInv, TypeOK, maps
  <2> QED
    BY <1>3, <1>5, <2>1 DEF TransInv, FreeInv, HandedInv, QueueInv, FlowInv
<1> QED
  BY <1>1, <1>2, <1>3, <1>4, <1>6, <1>7, <1>8 DEF IInv

\* What a stray handler does keeps the types.
LEMMA StrayTypes ==
  ASSUME TypeOK, NEW c \in Client, FailedRecv(c) \/ \E t \in Trans : TornMessage(c, t)
  PROVE  TypeOK' /\ undefined' = TRUE
<1>1. /\ undefined' = TRUE /\ StrayHandler
      /\ UNCHANGED <<s_transId, caller, asked, server>>
      /\ conn' = conn \/ Broken(c)
      /\ wire' = wire \/ \E t \in Trans : wire' = [wire EXCEPT ![t] = NoMessage]
  BY DEF FailedRecv, TornMessage, Receive
<1>2. wire' \in [Trans -> Messages] /\ conn' \in [Client -> {"down", "up", "broken"}]
  <2>1. NoMessage \in Messages
    BY DEF NoMessage, Messages
  <2>2. wire' \in [Trans -> Messages]
    BY <1>1, <2>1 DEF TypeOK
  <2>3. conn' \in [Client -> {"down", "up", "broken"}]
    BY <1>1 DEF TypeOK, Broken
  <2> QED
    BY <2>2, <2>3
<1>3. /\ request' \in [Trans -> Kinds \cup {"free", "answered", "refused", "dropped"}]
      /\ handed' \in [Trans -> Seq(Nat)] /\ files' \in [Trans -> Seq(Nat)]
      /\ queued' \in SUBSET Trans /\ offset' \in [Trans -> Nat]
  <2>1. CASE UNCHANGED <<request, handed, maps>>
    BY <2>1 DEF TypeOK, maps
  <2>2. CASE /\ UNCHANGED maps
             /\ \E t \in Trans, result \in {"ok", "error"}, last \in BOOLEAN :
                  \E entries \in {<<0>>, handed[t]} : HandOver(t, result, entries, last)
    <3>1. PICK t \in Trans, result \in {"ok", "error"}, last \in BOOLEAN :
            \E entries \in {<<0>>, handed[t]} : HandOver(t, result, entries, last)
      BY <2>2
    <3>2. PICK entries \in {<<0>>, handed[t]} : HandOver(t, result, entries, last)
      BY <3>1
    <3>3. <<0>> \in Seq(Nat) /\ handed[t] \in Seq(Nat)
      BY DEF TypeOK
    <3>4. entries \in Seq(Nat)
      BY <3>3
    <3>5. handed[t] \o entries \in Seq(Nat)
      BY <3>3, <3>4, ConcatProperties
    <3>6. handed' \in [Trans -> Seq(Nat)]
      BY <3>2, <3>5 DEF TypeOK, HandOver
    <3>7. request' \in [Trans -> Kinds \cup {"free", "answered", "refused", "dropped"}]
      BY <3>2 DEF TypeOK, HandOver
    <3> QED
      BY <2>2, <3>6, <3>7 DEF TypeOK, maps
  <2>3. CASE /\ UNCHANGED <<request, handed>>
             /\ \E t \in Trans : /\ queued' = queued \cup {t}
                                /\ files' = [files EXCEPT ![t] = <<0>>]
                                /\ offset' = [offset EXCEPT ![t] = 0]
    <3>1. <<0>> \in Seq(Nat) /\ 0 \in Nat
      OBVIOUS
    <3>2. PICK t \in Trans : /\ queued' = queued \cup {t}
                             /\ files' = [files EXCEPT ![t] = <<0>>]
                             /\ offset' = [offset EXCEPT ![t] = 0]
      BY <2>3
    <3> QED
      BY <2>3, <3>1, <3>2 DEF TypeOK
  <2> QED
    BY <1>1, <2>1, <2>2, <2>3 DEF StrayHandler
<1> QED
  BY <1>1, <1>2, <1>3 DEF TypeOK

\* Every step preserves the invariant.
LEMMA StepInv == ASSUME IInv, [Next]_vars, ~undefined' PROVE IInv'
<1>1. CASE UNCHANGED vars
  <2>1. TypeOK' /\ NumberInv'
    BY <1>1 DEF IInv, TypeOK, NumberInv, vars, maps
  <2>2. ASSUME NEW t \in Trans PROVE TransInv(t)'
    BY <1>1, Untouched DEF IInv, vars, maps
  <2> QED
    BY <2>1, <2>2 DEF IInv
<1>2. CASE Next
  <2>1. CASE \E c \in Client : Connect(c) \/ Break(c) \/ Disconnect(c)
    BY <2>1, ConnectionInv, DisconnectInv
  <2>2. CASE \E h \in Thread : SendRequest(h)
    BY <2>2, SendRequestInv
  <2>3. CASE \E h \in Thread, c \in Client, kind \in Kinds : BeginRequest(h, c, kind)
    BY <2>3, BeginRequestInv
  <2>4. CASE \E t \in Trans : SendChunk(t) \/ SendLast(t)
    BY <2>4, ServerInv
  <2>5. ASSUME NEW t \in Trans, NEW c \in Client, ManifestReply(c, t)
        PROVE  IInv'
    <3>1. LoopEnd(t) < wire[t].total \/ LoopEnd(t) >= wire[t].total
      BY <2>5 DEF ManifestReply
    <3> QED
      BY <2>5, <3>1, ManifestQueuedInv, ManifestHandedInv
  <2>6. CASE \E t \in Trans, c \in Client : FileDownloadReply(c, t)
    BY <2>6, FileDownloadReplyInv
  <2>7. CASE \E t \in Trans, c \in Client : BuildIdReply(c, t)
    BY <2>7, BuildIdReplyInv
  <2> QED
    BY <1>2, <2>1, <2>2, <2>3, <2>4, <2>5, <2>6, <2>7
       DEF Next, Dispatch, TornMessage, FailedRecv
<1> QED
  BY <1>1, <1>2

LEMMA SafeStep == ASSUME Safe, [Next]_vars PROVE Safe'
<1>1. CASE UNCHANGED vars
  <2>1. ASSUME IInv PROVE IInv'
    <3>1. TypeOK' /\ NumberInv'
      BY <1>1, <2>1 DEF IInv, TypeOK, NumberInv, vars, maps
    <3>2. ASSUME NEW t \in Trans PROVE TransInv(t)'
      BY <1>1, <2>1, Untouched DEF IInv, vars, maps
    <3> QED
      BY <3>1, <3>2 DEF IInv
  <2>2. TypeOK'
    BY <1>1 DEF Safe, TypeOK, vars, maps
  <2>3. undefined' = undefined
    BY <1>1 DEF vars
  <2> QED
    BY <2>1, <2>2, <2>3 DEF Safe
<1>2. CASE Next /\ ~undefined'
  <2>1. IInv
    BY <1>2 DEF Next, Safe
  <2>2. IInv'
    BY <1>2, <2>1, StepInv
  <2> QED
    BY <2>2 DEF Safe, IInv
<1>3. CASE Next /\ undefined'
  <2>1. ~undefined
    BY <1>3 DEF Next
  <2>2. \/ \E c \in Client : FailedRecv(c)
        \/ \E c \in Client, t \in Trans : TornMessage(c, t)
        \/ undefined' = undefined
    BY <1>3
       DEF Next, Dispatch, Connect, Break, Disconnect, SendRequest, BeginRequest, SendChunk,
           SendLast, ManifestReply, FileDownloadReply, BuildIdReply
  <2> QED
    BY <1>3, <2>1, <2>2, StrayTypes DEF Safe
<1> QED
  BY <1>1, <1>2, <1>3

LEMMA Invariance == Spec => []Safe
<1>1. Init => Safe
  BY InitInv DEF Safe, IInv
<1>2. Safe /\ [Next]_vars => Safe'
  BY SafeStep
<1> QED
  BY <1>1, <1>2, PTL DEF Spec

\* Every variable of the file clients keeps its type (pnFileClient, pnClient).
THEOREM TypeCorrect == Spec => []TypeOK
<1>1. Safe => TypeOK
  BY DEF Safe
<1> QED
  BY <1>1, Invariance, PTL

\* fMfsQueue and fMfsOffset hold unfinished manifests of the present connection,
\* filled up to the offset with what the server has sent, as long as every handler
\* has had a whole message (Dispatch::dispatch).
THEOREM QueueCorrect == Spec => []QueueUnfinished
<1>1. Safe => QueueUnfinished
  BY DEF Safe, IInv, TransInv, QueueInv, QueueUnfinished, TypeOK
<1> QED
  BY <1>1, Invariance, PTL

\* A step of the clients is a step of Answers, or none.
LEMMA StepRefines ==
  ASSUME Safe, [Next]_vars
  PROVE  [Answered!Next]_<<request, handed, undefined>>
<1> USE DEF Answered!Trans, Trans
<1>1. CASE UNCHANGED vars
  BY <1>1 DEF vars
<1>2. CASE Next
  <2>0. ~undefined /\ IInv
    BY <1>2 DEF Next, Safe
  <2>1. ASSUME \E c \in Client : Connect(c) \/ Break(c)
        PROVE  UNCHANGED <<request, handed>>
    BY <2>1 DEF Connect, Break
  <2>2. ASSUME NEW c \in Client, Disconnect(c)
        PROVE  \E T \in SUBSET Trans : Answered!Drop(T)
    <3> DEFINE T == {t \in asked[c] : request[t] \in Kinds}
    <3>1. T \in SUBSET Trans
      BY <2>0 DEF IInv, TypeOK
    <3>2. request' = [t \in Trans |-> IF t \in T THEN "dropped" ELSE request[t]]
      BY <2>2 DEF Disconnect
    <3>3. handed' = handed
      BY <2>2 DEF Disconnect
    <3>4. Answered!Drop(T)
      BY <3>1, <3>2, <3>3 DEF Answered!Drop, Answered!Open, Kinds
    <3> QED
      BY <3>1, <3>4
  <2>3. ASSUME NEW h \in Thread, SendRequest(h)
        PROVE  \E t \in Trans : Answered!Issue(t)
    <3>1. /\ caller[h].trans \in Trans /\ caller[h].kind \in Kinds
          /\ request[caller[h].trans] = "free"
      BY <2>0, <2>3 DEF IInv, TypeOK, NumberInv, SendRequest, Requests
    <3>2. /\ request' = [request EXCEPT ![caller[h].trans] = caller[h].kind]
          /\ handed' = handed
      BY <2>3 DEF SendRequest
    <3> QED
      BY <3>1, <3>2 DEF Answered!Issue, Answered!Open, Kinds
  <2>4. ASSUME \E h \in Thread, c \in Client, kind \in Kinds : BeginRequest(h, c, kind)
        PROVE  UNCHANGED <<request, handed>>
    BY <2>4 DEF BeginRequest
  <2>5. ASSUME \E t \in Trans : SendChunk(t) \/ SendLast(t)
        PROVE  UNCHANGED <<request, handed>>
    BY <2>5 DEF SendChunk, SendLast
  <2>6. ASSUME NEW t \in Trans, NEW c \in Client, ManifestReply(c, t)
        PROVE  \/ Answered!Manifest(t) \/ Answered!Refuse(t)
               \/ UNCHANGED <<request, handed>>
    <3>1. CASE LoopEnd(t) < wire[t].total
      <4>1. ~(LoopEnd(t) >= wire[t].total)
        <5>1. wire[t].entries \in Seq(Nat) /\ wire[t].total \in Nat /\ Begun(t) \in Nat
          BY <2>0 DEF IInv, TypeOK, Begun, Messages
        <5>2. LoopEnd(t) \in Nat
          BY <5>1 DEF LoopEnd
        <5> QED
          BY <3>1, <5>1, <5>2
      <4> QED
        BY <2>6, <4>1 DEF ManifestReply
    <3>2. CASE LoopEnd(t) >= wire[t].total
      <4>1. /\ request[t] = "manifest"
            /\ \/ /\ request' = [request EXCEPT ![t] = "answered"]
                  /\ handed' = [handed EXCEPT ![t] = Entries(Total[t])]
               \/ /\ request' = [request EXCEPT ![t] = "refused"]
                  /\ handed' = handed
        BY <2>0, <2>6, <3>2, ManifestHanded
      <4> QED
        BY <4>1 DEF Answered!Manifest, Answered!Refuse, Answered!Open, Answered!Entries, Entries
    <3> QED
      BY <2>6, <3>1, <3>2 DEF ManifestReply
  <2>7. ASSUME NEW t \in Trans, NEW c \in Client, FileDownloadReply(c, t)
        PROVE  Answered!Piece(t) \/ Answered!Refuse(t)
    <3>1. /\ request[t] = "download"
          /\ \/ /\ server[t].sent \in Len(handed[t])..Total[t]
                /\ handed' = [handed EXCEPT ![t] = Entries(server[t].sent)]
                /\ request' = IF server[t].sent = Total[t]
                              THEN [request EXCEPT ![t] = "answered"] ELSE request
             \/ /\ handed' = handed
                /\ request' = [request EXCEPT ![t] = "refused"]
      BY <2>0, <2>7, PieceHanded
    <3> QED
      BY <3>1 DEF Answered!Piece, Answered!Refuse, Answered!Open, Answered!Entries, Entries
  <2>8. ASSUME NEW t \in Trans, NEW c \in Client, BuildIdReply(c, t)
        PROVE  Answered!BuildId(t) \/ Answered!Refuse(t)
    <3>1. /\ handed' = handed /\ request[t] = "build"
          /\ \E r \in {"answered", "refused"} : request' = [request EXCEPT ![t] = r]
      BY <2>0, <2>8, BuildIdReplyInv
    <3> QED
      BY <3>1 DEF Answered!BuildId, Answered!Refuse, Answered!Open
  <2>9. CASE \E c \in Client : FailedRecv(c) \/ \E t \in Trans : TornMessage(c, t)
    <3>1. undefined' = TRUE
      BY <2>9 DEF FailedRecv, TornMessage
    <3> QED
      BY <3>1 DEF Answered!Next
  <2>10. CASE undefined' = undefined
    <3>1. Answered!Kept \/ UNCHANGED <<request, handed>>
      BY <1>2, <2>0, <2>1, <2>2, <2>3, <2>4, <2>5, <2>6, <2>7, <2>8, <2>10
         DEF Next, Dispatch, TornMessage, FailedRecv, Answered!Kept
    <3> QED
      BY <2>0, <2>10, <3>1 DEF Answered!Next
  <2>11. \/ \E c \in Client : FailedRecv(c) \/ \E t \in Trans : TornMessage(c, t)
         \/ undefined' = undefined
    BY <1>2
       DEF Next, Dispatch, Connect, Break, Disconnect, SendRequest, BeginRequest, SendChunk,
           SendLast, ManifestReply, FileDownloadReply, BuildIdReply
  <2> QED
    BY <2>9, <2>10, <2>11
<1> QED
  BY <1>1, <1>2

\* The clients do what Answers promises: a number is used once, a manifest is
\* handed over whole and once, a download in order (Dispatch::dispatch, nextTransId),
\* until a recv fails inside a message or brings a part of it.
THEOREM ImplementsAnswers == Spec => AnswersSpec
<1>1. Init => Answered!Init
  BY DEF Init, Answered!Init, Answered!Trans, Trans
<1>2. Safe /\ [Next]_vars => [Answered!Next]_<<request, handed, undefined>>
  BY StepRefines
<1> QED
  BY <1>1, <1>2, Invariance, PTL DEF Spec, AnswersSpec, Answered!Spec
=============================================================================
