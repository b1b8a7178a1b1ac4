-------------------------------- MODULE Channel --------------------------------
(***************************************************************************)
(* One direction of an encrypted connection: threads that send messages    *)
(* (pnSocket::sendMsg over pnRC4Socket::send) and the dispatch thread at   *)
(* the other end (pnRC4Socket::recv under pnSocket::recvMsg and dispatch). *)
(*                                                                         *)
(* A value of a message is a cell: a number, the length of a string, a     *)
(* character, an element of an array, a block of fixed size.  RC4 is a     *)
(* stream of keys: a cell is enciphered with the key of a position, and    *)
(* deciphers to itself with the key of that position only.                 *)
(***************************************************************************)
EXTENDS Naturals, Sequences

CONSTANTS
  Thread,  \* the threads that send
  Fields,  \* the message tables: the types of a message's fields
  Uses,    \* as what requests and handlers use them
  UsedAs,  \* ... and the uses that fit a type
  Sends    \* what a thread sends, one message of each set in turn (BOUND)

Types == {"integer", "block", "string", "count", "var"}

Message == UNION {UNION {Sends[h][i] : i \in DOMAIN Sends[h]} : h \in Thread}

ASSUME TablesAssumption ==
  /\ \A id \in DOMAIN Fields : Fields[id] \in Seq(Types)
  /\ \A h \in Thread : Sends[h] \in Seq(SUBSET Message)

VARIABLES
  next,       \* how many messages a thread has sent or given up
  stage,      \* where a thread is in send
  msg,        \* the message it sends
  cBuf,       \* ... and the cells it has enciphered
  fSendLock,  \* the threads that hold the lock
  fSend,      \* the position of the sender's cipher
  sender,     \* the sender's socket, "closed" by a send that failed
  cut,        \* a send has been truncated
  wire,       \* the cells on their way
  receiver,   \* the receiver's socket: "open", "failed", or "refused" a message
  fRecv,      \* the position of the receiver's cipher
  reader,     \* where dispatch and recvMsg are
  buf,        \* what the present call of recv has got
  astray,     \* dispatch goes on with cells it cannot decipher or has not got
  sent,       \* the messages sent whole while the cipher streams agreed
  handled     \* the messages handed to the handlers

sending == <<next, stage, msg, cBuf, fSendLock, fSend, sender, cut, sent>>
receiving == <<receiver, fRecv, reader, buf, astray, handled>>
vars == <<sending, wire, receiving>>

NoMsg == [id |-> "", data |-> <<>>]
\* dispatch waits for a message ID: field 0.
Start == [field |-> 0, body |-> FALSE, len |-> 0, count |-> 0, msg |-> NoMsg]

Init ==
  /\ next = [h \in Thread |-> 0]
  /\ stage = [h \in Thread |-> "idle"]
  /\ msg = [h \in Thread |-> NoMsg]
  /\ cBuf = [h \in Thread |-> <<>>]
  /\ fSendLock = {}
  /\ fSend = 0 /\ sender = "open" /\ cut = FALSE
  /\ wire = <<>>
  /\ receiver = "open" /\ fRecv = 0
  /\ reader = Start /\ buf = <<>>
  /\ astray = FALSE
  /\ sent = <<>> /\ handled = <<>>

Known(id) == id \in DOMAIN Fields
Descriptor(id) == IF Known(id) THEN Fields[id] ELSE <<>>

IsSequence(s) == Len(s) \in Nat /\ s = [i \in 1..Len(s) |-> s[i]]

\* The data of a message are those of its table.  The field in front of an array
\* is its count, and the request sets it to the number of elements.
FitsTable(m) ==
  LET D == Descriptor(m.id) IN
  /\ m = [id |-> m.id, data |-> m.data]
  /\ IsSequence(m.data) /\ Len(m.data) = Len(D)
  /\ \A i \in DOMAIN D :
       /\ D[i] \in {"string", "var"} => IsSequence(m.data[i])
       /\ D[i] = "count" => m.data[i] \in Nat
       /\ D[i] = "var" =>
            i > 1 /\ D[i - 1] = "count" /\ m.data[i - 1] = Len(m.data[i])

ASSUME MessagesAssumption == \A m \in Message : FitsTable(m)

-----------------------------------------------------------------------------
(* Sending.                                                                *)

\* Field v of type type behind a buffer and the count that is in force.
Written(b, type, v) ==
  CASE type \in {"integer", "block"} -> [b EXCEPT !.cells = Append(@, v)]
    [] type = "string" -> [b EXCEPT !.cells = Append(@, Len(v)) \o v]
    [] type = "count"  -> [cells |-> Append(b.cells, v), count |-> v]
    [] type = "var"    -> [cells |-> b.cells \o SubSeq(v, 1, b.count), count |-> 0]

\* sendMsg: the buffer of a message.
Buffer(m) ==
  LET D == Descriptor(m.id)
      B[i \in 0..Len(D)] ==
        IF i = 0 THEN [cells |-> <<m.id>>, count |-> 0]
        ELSE Written(B[i - 1], D[i], m.data[i])
  IN  B[Len(D)].cells

\* NCMessageSize: a loop of its own over the same fields.
Counted(s, type, v) ==
  CASE type \in {"integer", "block"} -> [s EXCEPT !.size = @ + 1]
    [] type = "string" -> [s EXCEPT !.size = @ + 1 + Len(v)]
    [] type = "count"  -> [size |-> s.size + 1, count |-> v]
    [] type = "var"    -> [size |-> s.size + s.count, count |-> 0]

MessageSize(m) ==
  LET D == Descriptor(m.id)
      S[i \in 0..Len(D)] ==
        IF i = 0 THEN [size |-> 0, count |-> 0]
        ELSE Counted(S[i - 1], D[i], m.data[i])
  IN  S[Len(D)].size


\* A request fills a message.
BeginMsg(h, m) ==
  /\ stage[h] = "idle"
  /\ stage' = [stage EXCEPT ![h] = "begun"]
  /\ msg' = [msg EXCEPT ![h] = m]
  /\ next' = [next EXCEPT ![h] = @ + 1]
  /\ UNCHANGED <<cBuf, fSendLock, fSend, sender, cut, sent, wire, receiving>>

Enciphered(m) ==
  LET cells == Buffer(m) IN
  [i \in 1..(1 + MessageSize(m)) |-> [val |-> cells[i], key |-> fSend + i]]

\* Mutant: the lock is not taken.
EncryptUnlocked(h) ==
  /\ stage[h] = "begun"
  /\ cBuf' = [cBuf EXCEPT ![h] = Enciphered(msg[h])]
  /\ fSend' = fSend + 1 + MessageSize(msg[h])
  /\ stage' = [stage EXCEPT ![h] = "enciphered"]
  /\ UNCHANGED <<next, msg, fSendLock, sender, cut, sent, wire, receiving>>

\* Mutant: every message is enciphered from the same position.
EncryptAgain(h) ==
  /\ stage[h] = "begun" /\ fSendLock = {}
  /\ fSendLock' = {h}
  /\ cBuf' = [cBuf EXCEPT ![h] = Enciphered(msg[h])]
  /\ stage' = [stage EXCEPT ![h] = "enciphered"]
  /\ UNCHANGED <<next, msg, fSend, sender, cut, sent, wire, receiving>>

\* pnRC4Socket::send: with the lock the cipher goes on by the whole message.
Encrypt(h) ==
  /\ stage[h] = "begun" /\ fSendLock = {}
  /\ fSendLock' = {h}
  /\ cBuf' = [cBuf EXCEPT ![h] = Enciphered(msg[h])]
  /\ fSend' = fSend + 1 + MessageSize(msg[h])
  /\ stage' = [stage EXCEPT ![h] = "enciphered"]
  /\ UNCHANGED <<next, msg, sender, cut, sent, wire, receiving>>

\* The lock is released on every way out of send.
Sent(h) ==
  /\ stage[h] = "enciphered"
  /\ stage' = [stage EXCEPT ![h] = "idle"]
  /\ cBuf' = [cBuf EXCEPT ![h] = <<>>]
  /\ fSendLock' = fSendLock \ {h}
  /\ UNCHANGED <<next, msg, fSend, receiving>>

TransmitWhole(h) ==
  /\ Sent(h) /\ sender = "open"
  /\ wire' = wire \o cBuf[h]
  /\ sent' = IF cut THEN sent ELSE Append(sent, msg[h])
  /\ UNCHANGED <<sender, cut>>

\* "Send truncated".
TransmitPart(h) ==
  /\ Sent(h) /\ sender = "open"
  /\ \E n \in 1..(Len(cBuf[h]) - 1) : wire' = wire \o SubSeq(cBuf[h], 1, n)
  /\ cut' = TRUE
  /\ UNCHANGED <<sender, sent>>

\* "Send failed", and every later one on the closed socket.
TransmitNothing(h) ==
  /\ Sent(h)
  /\ sender' = "closed"
  /\ UNCHANGED <<wire, cut, sent>>

-----------------------------------------------------------------------------
(* Receiving.                                                              *)

Type == Descriptor(reader.msg.id)[reader.field]

\* How much the present call of recv asks for.
Size ==
  IF reader.field = 0 THEN 1
  ELSE IF Type = "string" /\ reader.body THEN reader.len
  ELSE IF Type = "var" THEN reader.count
  ELSE 1

\* The reader goes on with the next field.
Put(value) ==
  [reader EXCEPT !.field = @ + 1, !.body = FALSE, !.msg.data = Append(@, value)]

\* Mutant: an integer stays what NCAllocMessage has made it.
StoredNowhere(values) ==
  IF reader.field = 0 THEN [reader EXCEPT !.field = 1, !.msg.id = values[1]]
  ELSE CASE Type = "integer" -> Put(0)
         [] Type = "block" -> Put(values[1])
         [] Type = "count" -> [Put(values[1]) EXCEPT !.count = values[1]]
         [] Type = "var" -> [Put(values) EXCEPT !.count = 0]
         [] Type = "string" -> IF reader.body THEN Put(values)
                               ELSE [reader EXCEPT !.body = TRUE, !.len = values[1]]

\* Where dispatch and recvMsg are when recv has returned the values.
Stored(values) ==
  IF reader.field = 0 THEN [reader EXCEPT !.field = 1, !.msg.id = values[1]]
  ELSE CASE Type \in {"integer", "block"} -> Put(values[1])
         [] Type = "count" -> [Put(values[1]) EXCEPT !.count = values[1]]
         [] Type = "var" -> [Put(values) EXCEPT !.count = 0]
         [] Type = "string" -> IF reader.body THEN Put(values)
                               ELSE [reader EXCEPT !.body = TRUE, !.len = values[1]]

\* recv behind what it has got.
Got(n) == buf \o SubSeq(wire, 1, n)

\* The socket has n cells, fewer than recv still wants.
RecvPart(n) ==
  /\ receiver = "open" /\ ~astray
  /\ n > 0 /\ n <= Len(wire) /\ Len(buf) + n < Size
  /\ buf' = Got(n)
  /\ wire' = SubSeq(wire, n + 1, Len(wire))
  /\ UNCHANGED <<sending, receiver, fRecv, reader, astray, handled>>

\* The keys of the receiver's cipher are those the cells were enciphered with.
Deciphers(cells) == \A i \in DOMAIN cells : cells[i].key = fRecv + i

Values(cells) == [i \in DOMAIN cells |-> cells[i].val]

Complete(r) == r.field > Len(Descriptor(r.msg.id))

\* dispatch goes on, or its loop ends.
Reads(r) ==
  /\ \/ /\ ~Known(r.msg.id)              \* "Got invalid message ID"
        /\ receiver' = "refused" /\ reader' = Start
        /\ UNCHANGED handled
     \/ /\ Known(r.msg.id) /\ ~Complete(r)
        /\ reader' = r
        /\ UNCHANGED <<receiver, handled>>
     \/ /\ Known(r.msg.id) /\ Complete(r)
        /\ handled' = Append(handled, r.msg)
        /\ reader' = Start
        /\ UNCHANGED receiver
  /\ UNCHANGED astray

GoesAstray == astray' = TRUE /\ UNCHANGED <<receiver, reader, handled>>

\* Mutant: recv asks the socket at least once, also for an empty array.
RecvRestAsksAlways ==
  /\ receiver = "open" /\ ~astray
  /\ \E n \in 1..Len(wire) :
       /\ Len(buf) + n = Size
       /\ wire' = SubSeq(wire, n + 1, Len(wire))
       /\ fRecv' = fRecv + Size
       /\ buf' = <<>>
       /\ IF Deciphers(Got(n)) THEN Reads(Stored(Values(Got(n)))) ELSE GoesAstray
  /\ UNCHANGED sending

\* recv has the rest.  The cipher goes on by the size of this call.
RecvRest ==
  /\ receiver = "open" /\ ~astray
  /\ \E n \in 0..Len(wire) :
       /\ Len(buf) + n = Size
       /\ wire' = SubSeq(wire, n + 1, Len(wire))
       /\ fRecv' = fRecv + Size
       /\ buf' = <<>>
       /\ IF Deciphers(Got(n)) THEN Reads(Stored(Values(Got(n)))) ELSE GoesAstray
  /\ UNCHANGED sending

\* recv returns -1, with the parts it has got lost; nobody looks at the result.
RecvFails ==
  /\ receiver = "open" /\ ~astray
  /\ receiver' = "failed" /\ astray' = TRUE
  /\ UNCHANGED <<sending, wire, fRecv, reader, buf, handled>>

-----------------------------------------------------------------------------

Begins(h) ==
  next[h] < Len(Sends[h]) /\ \E m \in Sends[h][next[h] + 1] : BeginMsg(h, m)
Transmits(h) == TransmitWhole(h) \/ TransmitPart(h) \/ TransmitNothing(h)
Receives == RecvRest \/ \E n \in 1..Len(wire) : RecvPart(n)

Next ==
  \/ \E h \in Thread : Begins(h) \/ Encrypt(h) \/ Transmits(h)
  \/ Receives \/ RecvFails

Spec == Init /\ [][Next]_vars

\* The dispatch thread runs and the network delivers.
FairSpec == Spec /\ WF_vars(Receives)

-----------------------------------------------------------------------------
(* Properties.                                                             *)

\* The receiver's cipher is never ahead of the sender's.
TypeOK ==
  /\ next \in [Thread -> Nat]
  /\ stage \in [Thread -> {"idle", "begun", "enciphered"}]
  /\ fSendLock \in SUBSET Thread
  /\ fSend \in Nat /\ fRecv \in Nat /\ fRecv <= fSend
  /\ sender \in {"open", "closed"} /\ receiver \in {"open", "failed", "refused"}
  /\ cut \in BOOLEAN /\ astray \in BOOLEAN

\* Both ends are in step: as long as no send is truncated and no recv fails, the
\* receiver deciphers every cell with the key it was enciphered with, however
\* the threads that send interleave and the cells are cut up (pnRC4Socket).
InStep == astray => cut \/ receiver = "failed"

\* The messages are handled in the order and with the contents they were sent
\* with: sendMsg, NCMessageSize and recvMsg agree on every message of the tables.
Queue == INSTANCE MessageQueue WITH
  intact <- ~cut /\ sender = "open"
QueueSpec == Queue!Spec

\* Every message sent is handled, also those before a send that was truncated,
\* unless the receiver's connection fails or an unknown message closes it.
EverySentHandled == (handled # sent) ~> (handled = sent \/ receiver # "open")

\* The handlers take every field of a message as what its table says it is
\* (dispatch of the three clients), and requests fill them so.
FieldsAsDescribed ==
  \A n \in DOMAIN handled :
    LET id == handled[n].id IN
    id \in DOMAIN Uses =>
      \A i \in DOMAIN Uses[id] : Uses[id][i] \in UsedAs[Fields[id][i]]
=============================================================================
