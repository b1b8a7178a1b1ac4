---------------------------- MODULE Channel_proofs ----------------------------
(***************************************************************************)
(* Proofs about Channel, for any threads, tables and messages: its type    *)
(* invariant, that the ciphers of the two ends stay in step, that sendMsg, *)
(* NCMessageSize and recvMsg agree on every message of any table, and that *)
(* Channel implements MessageQueue.                                        *)
(***************************************************************************)
EXTENDS Channel, Induction, SequenceTheorems, TLAPS

Val == {Buffer(m)[i] : m \in Message, i \in Nat}
Cell == [val : Val, key : Nat]

\* The position behind all cells that have been put on the wire.
Taken == fRecv + Len(buf) + Len(wire)

CellsTyped ==
  /\ cBuf \in [Thread -> Seq(Cell)]
  /\ wire \in Seq(Cell) /\ buf \in Seq(Cell)

MsgTyped ==
  /\ msg \in [Thread -> Message \union {NoMsg}]
  /\ \A h \in Thread : stage[h] # "idle" => msg[h] \in Message

\* A thread is between the cipher and the socket with the lock only.
LockHeld ==
  /\ \A h \in Thread : h \in fSendLock <=> stage[h] = "enciphered"
  /\ \A g, h \in fSendLock : g = h

\* The cells on their way and in the buffer of recv have the next keys.
KeysFollow ==
  ~cut =>
    /\ \A i \in 1..Len(buf) : buf[i].key = fRecv + i
    /\ \A i \in 1..Len(wire) : wire[i].key = fRecv + Len(buf) + i

\* What the holder of the lock is going to send comes behind them ...
NotAhead ==
  /\ Taken <= fSend
  /\ \A h \in fSendLock : Taken + Len(cBuf[h]) <= fSend

\* ... and without a gap, as long as everything gets there.
NoGap ==
  ~cut /\ sender = "open" =>
    /\ fSendLock = {} => fSend = Taken
    /\ \A h \in fSendLock :
         /\ fSend = Taken + Len(cBuf[h])
         /\ \A i \in 1..Len(cBuf[h]) : cBuf[h][i].key = Taken + i

IInv ==
  /\ TypeOK /\ CellsTyped /\ MsgTyped /\ LockHeld
  /\ KeysFollow /\ NotAhead /\ NoGap /\ InStep

-----------------------------------------------------------------------------
(* Sequences.                                                              *)

\* The first n elements of a sequence.
LEMMA PrefixOf ==
  ASSUME NEW S, NEW s \in Seq(S), NEW n \in 0..Len(s)
  PROVE  /\ SubSeq(s, 1, n) \in Seq(S)
         /\ Len(SubSeq(s, 1, n)) = n
         /\ \A i \in 1..n : SubSeq(s, 1, n)[i] = s[i]
OBVIOUS

\* The elements behind the first n.
LEMMA RestOf ==
  ASSUME NEW S, NEW s \in Seq(S), NEW n \in 0..Len(s)
  PROVE  /\ SubSeq(s, n + 1, Len(s)) \in Seq(S)
         /\ Len(SubSeq(s, n + 1, Len(s))) = Len(s) - n
         /\ \A i \in 1..(Len(s) - n) : SubSeq(s, n + 1, Len(s))[i] = s[n + i]
OBVIOUS

\* Two sequences one behind the other.
LEMMA Joined ==
  ASSUME NEW S, NEW s \in Seq(S), NEW t \in Seq(S)
  PROVE  /\ s \o t \in Seq(S)
         /\ Len(s \o t) = Len(s) + Len(t)
         /\ \A i \in 1..Len(s) : (s \o t)[i] = s[i]
         /\ \A i \in 1..Len(t) : (s \o t)[Len(s) + i] = t[i]
         /\ \A i \in (Len(s) + 1)..(Len(s) + Len(t)) : (s \o t)[i] = t[i - Len(s)]
OBVIOUS

\* What recv has with n more cells: their keys still are the next ones.
LEMMA GotFollows ==
  ASSUME TypeOK, CellsTyped, KeysFollow, NEW n \in 0..Len(wire)
  PROVE  /\ Got(n) \in Seq(Cell) /\ Len(Got(n)) = Len(buf) + n
         /\ ~cut => \A i \in 1..Len(Got(n)) : Got(n)[i].key = fRecv + i
<1> DEFINE part == SubSeq(wire, 1, n)
<1>1. wire \in Seq(Cell) /\ buf \in Seq(Cell)
  BY DEF CellsTyped
<1>2. part \in Seq(Cell) /\ Len(part) = n /\ \A i \in 1..n : part[i] = wire[i]
  BY <1>1, PrefixOf
<1> HIDE DEF part
<1>3. /\ buf \o part \in Seq(Cell) /\ Len(buf \o part) = Len(buf) + n
      /\ \A i \in 1..Len(buf) : (buf \o part)[i] = buf[i]
      /\ \A i \in (Len(buf) + 1)..(Len(buf) + n) :
            (buf \o part)[i] = part[i - Len(buf)]
  <2>1. /\ buf \o part \in Seq(Cell) /\ Len(buf \o part) = Len(buf) + Len(part)
        /\ \A i \in 1..Len(buf) : (buf \o part)[i] = buf[i]
        /\ \A i \in (Len(buf) + 1)..(Len(buf) + Len(part)) :
              (buf \o part)[i] = part[i - Len(buf)]
    <3>1. buf \in Seq(Cell) /\ part \in Seq(Cell)
      BY <1>1, <1>2
    <3> QED BY <3>1, Joined
  <2>2. Len(part) = n
    BY <1>2
  <2> QED BY <2>1, <2>2
<1>4. ASSUME ~cut, NEW i \in 1..(Len(buf) + n)
      PROVE  (buf \o part)[i].key = fRecv + i
  <2> Len(buf) \in Nat /\ Len(wire) \in Nat /\ fRecv \in Nat
    BY <1>1 DEF TypeOK
  <2>1. CASE i \in 1..Len(buf)
    BY <1>3, <1>4, <2>1 DEF KeysFollow
  <2>2. CASE i \in (Len(buf) + 1)..(Len(buf) + n)
    <3>1. i - Len(buf) \in 1..n /\ i - Len(buf) \in 1..Len(wire)
      BY <2>2
    <3>2. (buf \o part)[i] = wire[i - Len(buf)]
      BY <1>2, <1>3, <2>2, <3>1
    <3>3. wire[i - Len(buf)].key = fRecv + Len(buf) + (i - Len(buf))
      BY <1>4, <3>1 DEF KeysFollow
    <3>4. fRecv + Len(buf) + (i - Len(buf)) = fRecv + i
      BY <2>2
    <3>5. (buf \o part)[i].key = wire[i - Len(buf)].key
      BY <3>2
    <3> QED BY <3>3, <3>4, <3>5, Zenon
  <2>3. i \in 1..Len(buf) \/ i \in (Len(buf) + 1)..(Len(buf) + n)
    BY <1>4
  <2> QED BY <2>1, <2>2, <2>3, Zenon
<1>5. Got(n) = buf \o part
  BY DEF Got, part
<1> QED BY <1>3, <1>4, <1>5

\* ... and those of the cells it leaves on the wire come behind them.
LEMMA RestFollows ==
  ASSUME TypeOK, CellsTyped, KeysFollow, NEW n \in 0..Len(wire),
         NEW rest, rest = SubSeq(wire, n + 1, Len(wire))
  PROVE  /\ rest \in Seq(Cell) /\ Len(rest) = Len(wire) - n
         /\ ~cut => \A i \in 1..Len(rest) :
                      rest[i].key = fRecv + Len(buf) + n + i
<1>1. wire \in Seq(Cell) /\ buf \in Seq(Cell) /\ fRecv \in Nat
      /\ Len(buf) \in Nat /\ Len(wire) \in Nat
  BY DEF CellsTyped, TypeOK
<1>2. /\ rest \in Seq(Cell) /\ Len(rest) = Len(wire) - n
      /\ \A i \in 1..(Len(wire) - n) : rest[i] = wire[n + i]
  BY <1>1, RestOf
<1>3. ASSUME ~cut, NEW i \in 1..(Len(wire) - n)
      PROVE  rest[i].key = fRecv + Len(buf) + n + i
  <2>1. n + i \in 1..Len(wire)
    BY <1>1
  <2>2. wire[n + i].key = fRecv + Len(buf) + (n + i)
    BY <1>3, <2>1 DEF KeysFollow
  <2> QED BY <1>1, <1>2, <2>2
<1> QED BY <1>2, <1>3
-----------------------------------------------------------------------------
(* The fields of a message in its buffer, and how they are read again.     *)

\* A sequence is one over its own elements.
LEMMA SequenceOf ==
  ASSUME NEW s, IsSequence(s)
  PROVE  /\ Len(s) \in Nat
         /\ s = [i \in 1..Len(s) |-> s[i]]
         /\ s \in Seq({s[i] : i \in 1..Len(s)})
<1>1. Len(s) \in Nat /\ s = [i \in 1..Len(s) |-> s[i]]
  BY DEF IsSequence
<1>2. s \in [1..Len(s) -> {s[i] : i \in 1..Len(s)}]
  BY <1>1, Zenon
<1> QED
  BY <1>1, <1>2

\* The fields of a message that is known, and none of one that is not.
LEMMA TableOf ==
  ASSUME NEW m \in Message
  PROVE  /\ Descriptor(m.id) \in Seq(Types)
         /\ Len(Descriptor(m.id)) \in Nat
         /\ DOMAIN Descriptor(m.id) = 1..Len(Descriptor(m.id))
         /\ \A i \in 1..Len(Descriptor(m.id)) : Descriptor(m.id)[i] \in Types
         /\ Known(m.id) => Descriptor(m.id) = Fields[m.id]
         /\ ~Known(m.id) => Len(Descriptor(m.id)) = 0
<1>1. Descriptor(m.id) \in Seq(Types)
  <2>1. CASE Known(m.id)
    BY <2>1, TablesAssumption DEF Known, Descriptor
  <2>2. CASE ~Known(m.id)
    BY <2>2 DEF Descriptor
  <2> QED
    BY <2>1, <2>2
<1>2. /\ Known(m.id) => Descriptor(m.id) = Fields[m.id]
      /\ ~Known(m.id) => Len(Descriptor(m.id)) = 0
  BY DEF Descriptor
<1> QED
  BY <1>1, <1>2

\* The data of a message are those of its table (MessagesAssumption).
LEMMA DataOf ==
  ASSUME NEW m \in Message, NEW D, D = Descriptor(m.id)
  PROVE  /\ m = [id |-> m.id, data |-> m.data]
         /\ IsSequence(m.data) /\ Len(m.data) = Len(D)
         /\ \A i \in 1..Len(D) :
              /\ D[i] \in {"string", "var"} => IsSequence(m.data[i])
              /\ D[i] = "count" => m.data[i] \in Nat
              /\ D[i] = "var" => /\ i > 1 /\ D[i - 1] = "count"
                                 /\ m.data[i - 1] = Len(m.data[i])
<1>1. FitsTable(m)
  BY MessagesAssumption
<1>2. DOMAIN D = 1..Len(D)
  BY TableOf
<1> QED
  BY <1>1, <1>2 DEF FitsTable

\* What the fields of a message can put into its buffer.
Contents(m) ==
  LET fields == 1..Len(Descriptor(m.id)) IN
  Nat \union {m.id} \union {m.data[i] : i \in fields}
      \union UNION {{m.data[i][j] : j \in 1..Len(m.data[i])} : i \in fields}

Buffers(m) == [cells : Seq(Contents(m)), count : Nat]

\* How many cells field i of a message has ...
Width(m, i) ==
  LET type == Descriptor(m.id)[i] IN
  CASE type \in {"integer", "block", "count"} -> 1
    [] type = "string" -> 1 + Len(m.data[i])
    [] type = "var"    -> Len(m.data[i])

\* ... and that they are behind cell p.
FieldAt(m, i, cells, p) ==
  LET type == Descriptor(m.id)[i]
      v == m.data[i]
  IN  /\ type \in {"integer", "block", "count"} => cells[p + 1] = v
      /\ type = "string" => /\ cells[p + 1] = Len(v)
                            /\ \A j \in 1..Len(v) : cells[p + 1 + j] = v[j]
      /\ type = "var" => \A j \in 1..Len(v) : cells[p + j] = v[j]

\* The width of a string, as it is written and as it is counted.
LEMMA SumsAgree ==
  ASSUME NEW a \in Nat, NEW b \in Nat
  PROVE  a + 1 + b = a + (1 + b)
OBVIOUS

\* A sequence with one more element.
LEMMA AppendOf ==
  ASSUME NEW S, NEW s \in Seq(S), NEW e \in S
  PROVE  /\ Append(s, e) \in Seq(S)
         /\ Len(Append(s, e)) = Len(s) + 1
         /\ Len(s) \in Nat
         /\ \A i \in 1..Len(s) : Append(s, e)[i] = s[i]
         /\ Append(s, e)[Len(s) + 1] = e
OBVIOUS

\* sendMsg writes a field behind the others, in as many cells as it is wide.
LEMMA FieldWritten ==
  ASSUME NEW m \in Message, NEW i \in 1..Len(Descriptor(m.id)),
         NEW type, type = Descriptor(m.id)[i],
         NEW v, v = m.data[i],
         NEW b \in Buffers(m), type = "var" => b.count = Len(v),
         NEW w, w = Written(b, type, v)
  PROVE  /\ w \in Buffers(m)
         /\ Len(b.cells) \in Nat /\ Width(m, i) \in Nat
         /\ Len(w.cells) = Len(b.cells) + Width(m, i)
         /\ \A q \in 1..Len(b.cells) : w.cells[q] = b.cells[q]
         /\ FieldAt(m, i, w.cells, Len(b.cells))
         /\ type = "count" => w.count = v
         /\ type = "var" => w.count = 0
         /\ type \notin {"count", "var"} => w.count = b.count
<1> DEFINE S == Contents(m)
<1>1. b.cells \in Seq(S) /\ b.count \in Nat /\ Len(b.cells) \in Nat
  BY DEF Buffers
<1>2. type \in Types
  BY TableOf
<1>3. /\ type \in {"string", "var"} => IsSequence(v)
      /\ type = "count" => v \in Nat
  BY DataOf
<1>4. v \in S
  BY DEF Contents
<1>5. Nat \subseteq S
  BY DEF Contents
<1>6. ASSUME IsSequence(v) PROVE v \in Seq(S) /\ Len(v) \in Nat
  <2>1. Len(v) \in Nat /\ v = [j \in 1..Len(v) |-> v[j]]
    BY <1>6 DEF IsSequence
  <2>2. \A j \in 1..Len(v) : v[j] \in S
    BY DEF Contents
  <2> HIDE DEF S
  <2>3. v \in [1..Len(v) -> S]
    BY <2>1, <2>2, Zenon
  <2> QED
    BY <2>1, <2>3
<1> HIDE DEF S
<1>7. CASE type \in {"integer", "block"}
  <2>1. w = [b EXCEPT !.cells = Append(@, v)]
    BY <1>7 DEF Written
  <2>2. w.cells = Append(b.cells, v) /\ w.count = b.count
    BY <2>1 DEF Buffers
  <2>3. w = [cells |-> w.cells, count |-> w.count]
    BY <2>1 DEF Buffers
  <2>4. Width(m, i) = 1
    BY <1>7 DEF Width
  <2>5. Append(b.cells, v) \in Seq(S) /\ Len(Append(b.cells, v)) = Len(b.cells) + 1
        /\ \A q \in 1..Len(b.cells) : Append(b.cells, v)[q] = b.cells[q]
        /\ Append(b.cells, v)[Len(b.cells) + 1] = v
    BY <1>1, <1>4, AppendOf
  <2>6. FieldAt(m, i, w.cells, Len(b.cells))
    BY <1>7, <2>2, <2>5 DEF FieldAt
  <2>7. w \in Buffers(m)
    BY <1>1, <2>2, <2>3, <2>5 DEF Buffers, S
  <2> QED
    BY <1>1, <1>7, <2>2, <2>4, <2>5, <2>6, <2>7
<1>8. CASE type = "count"
  <2>2. w.cells = Append(b.cells, v) /\ w.count = v
        /\ w = [cells |-> w.cells, count |-> w.count]
    BY <1>8 DEF Written
  <2>4. Width(m, i) = 1
    BY <1>8 DEF Width
  <2>5. Append(b.cells, v) \in Seq(S) /\ Len(Append(b.cells, v)) = Len(b.cells) + 1
        /\ \A q \in 1..Len(b.cells) : Append(b.cells, v)[q] = b.cells[q]
        /\ Append(b.cells, v)[Len(b.cells) + 1] = v
    BY <1>1, <1>4, AppendOf
  <2>6. FieldAt(m, i, w.cells, Len(b.cells))
    BY <1>8, <2>2, <2>5 DEF FieldAt
  <2>7. w \in Buffers(m)
    BY <1>3, <1>8, <2>2, <2>5 DEF Buffers, S
  <2> QED
    BY <1>1, <1>8, <2>2, <2>4, <2>5, <2>6, <2>7
<1>9. CASE type = "string"
  <2> DEFINE a == Append(b.cells, Len(v))
  <2>1. w = [b EXCEPT !.cells = a \o v]
    BY <1>9 DEF Written
  <2>2. w.cells = a \o v /\ w.count = b.count
    BY <2>1 DEF Buffers
  <2>3. w = [cells |-> w.cells, count |-> w.count]
    BY <2>1 DEF Buffers
  <2>4. v \in Seq(S) /\ Len(v) \in Nat
    BY <1>3, <1>6, <1>9
  <2>5. Width(m, i) = 1 + Len(v)
    BY <1>9 DEF Width
  <2>6. a \in Seq(S) /\ Len(a) = Len(b.cells) + 1
        /\ (\A q \in 1..Len(b.cells) : a[q] = b.cells[q])
        /\ a[Len(b.cells) + 1] = Len(v)
    BY <1>1, <1>5, <2>4, AppendOf
  <2> HIDE DEF a
  <2>7. /\ a \o v \in Seq(S) /\ Len(a \o v) = Len(a) + Len(v)
        /\ \A q \in 1..Len(a) : (a \o v)[q] = a[q]
        /\ \A q \in 1..Len(v) : (a \o v)[Len(a) + q] = v[q]
    <3>1. a \in Seq(S) /\ v \in Seq(S)
      BY <2>4, <2>6
    <3> QED
      BY <3>1
  <2>8. Len(b.cells) + 1 \in 1..Len(a)
    BY <1>1, <2>6
  <2>9. FieldAt(m, i, w.cells, Len(b.cells))
    BY <1>9, <2>2, <2>6, <2>7, <2>8 DEF FieldAt
  <2>10. \A q \in 1..Len(b.cells) : w.cells[q] = b.cells[q]
    BY <1>1, <2>2, <2>6, <2>7
  <2>11. w \in Buffers(m)
    BY <1>1, <2>2, <2>3, <2>7 DEF Buffers, S
  <2>12. Len(w.cells) = Len(b.cells) + Width(m, i)
    <3>1. Len(w.cells) = Len(b.cells) + 1 + Len(v)
      BY <1>1, <2>2, <2>4, <2>6, <2>7
    <3>2. Len(b.cells) + 1 + Len(v) = Len(b.cells) + (1 + Len(v))
      BY <1>1, <2>4, SumsAgree, Zenon
    <3> QED
      BY <2>5, <3>1, <3>2, Zenon
  <2>13. Width(m, i) \in Nat
    BY <2>4, <2>5
  <2>14. w.count = b.count
    BY <2>2
  <2> QED
    BY <1>1, <1>9, <2>9, <2>10, <2>11, <2>12, <2>13, <2>14
<1>10. CASE type = "var"
  <2> DEFINE a == b.cells
  <2>0. b.count = Len(v)
    BY <1>10
  <2>4. v \in Seq(S) /\ Len(v) \in Nat
    BY <1>3, <1>6, <1>10
  <2>1. SubSeq(v, 1, b.count) = v
    BY <2>0, <2>4
  <2>2. w.cells = a \o v /\ w.count = 0 /\ w = [cells |-> w.cells, count |-> w.count]
    BY <1>10, <2>1 DEF Written
  <2>5. Width(m, i) = Len(v)
    BY <1>10 DEF Width
  <2>7. /\ a \o v \in Seq(S) /\ Len(a \o v) = Len(a) + Len(v)
        /\ \A q \in 1..Len(a) : (a \o v)[q] = a[q]
        /\ \A q \in 1..Len(v) : (a \o v)[Len(a) + q] = v[q]
    <3>1. a \in Seq(S) /\ v \in Seq(S)
      BY <1>1, <2>4
    <3> HIDE DEF a
    <3> QED
      BY <3>1
  <2>9. FieldAt(m, i, w.cells, Len(b.cells))
    BY <1>10, <2>2, <2>7 DEF FieldAt
  <2>11. w \in Buffers(m)
    <3>1. w.cells \in Seq(S) /\ w.count \in Nat
      BY <2>2, <2>7
    <3> QED
      BY <2>2, <3>1 DEF Buffers, S
  <2> QED
    BY <1>1, <1>10, <2>2, <2>4, <2>5, <2>7, <2>9, <2>11
<1> QED
  BY <1>2, <1>7, <1>8, <1>9, <1>10 DEF Types

NoCells(m) == [cells |-> <<m.id>>, count |-> 0]

\* g: the buffer of a message behind each of its fields.
Writings(m, g) ==
  LET D == Descriptor(m.id) IN
  /\ g \in [0..Len(D) -> Buffers(m)] /\ g[0] = NoCells(m)
  /\ \A i \in 1..Len(D) : /\ g[i] = Written(g[i - 1], D[i], m.data[i])
                          /\ D[i] = "var" => g[i - 1].count = Len(m.data[i])

\* The buffer behind each field is defined, and an array is written with its count.
LEMMA WritingsExist ==
  ASSUME NEW m \in Message, NEW D, D = Descriptor(m.id)
  PROVE  \E g : /\ Writings(m, g)
                /\ g = [i \in 0..Len(D) |->
                          IF i = 0 THEN NoCells(m) ELSE Written(g[i - 1], D[i], m.data[i])]
<1> DEFINE n == Len(D)
<1> DEFINE S == Buffers(m)
<1> DEFINE Fits(i, b) == D[i] = "var" => b.count = Len(m.data[i])
<1> DEFINE To(i, b) == IF Fits(i, b) THEN Written(b, D[i], m.data[i]) ELSE b
<1> DEFINE step == [i \in 1..n |-> [b \in S |-> To(i, b)]]
<1>1. n \in Nat
  BY TableOf
<1>2. NoCells(m) \in S
  <2>1. m.id \in Contents(m)
    BY DEF Contents
  <2>2. <<m.id>> \in Seq(Contents(m))
    BY <2>1
  <2> QED
    BY <2>2 DEF NoCells, Buffers
<1>3. \A i \in 1..n : \A b \in S : Fits(i, b) =>
        /\ To(i, b) = Written(b, D[i], m.data[i])
        /\ Written(b, D[i], m.data[i]) \in S
        /\ D[i] = "count" => To(i, b).count = m.data[i]
  <2> TAKE i \in 1..n
  <2> TAKE b \in S
  <2> HAVE Fits(i, b)
  <2>0. D[i] = "var" => b.count = Len(m.data[i])
    OBVIOUS
  <2>1. To(i, b) = Written(b, D[i], m.data[i])
    OBVIOUS
  <2> PICK w : w = Written(b, D[i], m.data[i])
    OBVIOUS
  <2>2. /\ w \in Buffers(m)
        /\ D[i] = "count" => w.count = m.data[i]
    <3> HIDE DEF Fits, To
    <3> QED
      BY <2>0, FieldWritten
  <2> HIDE DEF To, Fits
  <2> QED
    BY <2>1, <2>2
<1>4. step \in [1..n -> [S -> S]]
  <2>1. \A i \in 1..n : \A b \in S : To(i, b) \in S
    <3> HIDE DEF Fits, S
    <3> QED
      BY <1>3
  <2> HIDE DEF To, S
  <2> QED
    BY <2>1
<1>5. PICK g \in [0..n -> S] : Follow(g, n, NoCells(m), step)
  <2> HIDE DEF step, S, n
  <2> QED
    BY <1>1, <1>2, <1>4, Recursion, Zenon
<1>6. g[0] = NoCells(m) /\ \A i \in 1..n : g[i] = step[i][g[i - 1]]
  <2> HIDE DEF step, S, n
  <2>1. g = [i \in 0..n |-> IF i = 0 THEN NoCells(m) ELSE step[i][g[i - 1]]]
    BY <1>5, Zenon DEF Follow
  <2>2. PICK f : /\ f = [i \in 0..n |-> IF i = 0 THEN NoCells(m) ELSE step[i][g[i - 1]]]
                 /\ g = f
    BY <2>1
  <2>3. \A i \in 0..n : f[i] = IF i = 0 THEN NoCells(m) ELSE step[i][g[i - 1]]
    BY <2>2, Zenon
  <2>4. 0 \in 0..n /\ \A i \in 1..n : i \in 0..n /\ i # 0
    BY <1>1
  <2> QED
    BY <2>2, <2>3, <2>4, Zenon
<1>7. \A i \in 1..n : g[i - 1] \in S /\ g[i] = To(i, g[i - 1])
  <2> TAKE i \in 1..n
  <2>1. g[i - 1] \in S
    <3>1. i - 1 \in 0..n
      BY <1>1
    <3> HIDE DEF S, n, step
    <3> QED
      BY <1>5, <3>1
  <2>2. step[i][g[i - 1]] = To(i, g[i - 1])
    <3> HIDE DEF To, S, n
    <3> QED
      BY <2>1, Zenon
  <2> HIDE DEF step, To, S, n
  <2> QED
    BY <1>6, <2>1, <2>2
<1>8. \A i \in 1..n : Fits(i, g[i - 1])
  <2> TAKE i \in 1..n
  <2> SUFFICES ASSUME D[i] = "var" PROVE g[i - 1].count = Len(m.data[i])
    OBVIOUS
  <2>1. i > 1 /\ D[i - 1] = "count" /\ m.data[i - 1] = Len(m.data[i])
    BY DataOf
  <2> PICK k \in 1..n : k = i - 1
    BY <1>1, <2>1
  <2>2. D[k] = "count" /\ m.data[k] = Len(m.data[i])
    BY <2>1
  <2>3. Fits(k, g[k - 1])
    BY <2>2
  <2>4. g[k - 1] \in S /\ g[k] = To(k, g[k - 1])
    <3> HIDE DEF To, S, n
    <3> QED
      BY <1>7
  <2>5. To(k, g[k - 1]).count = m.data[k]
    <3> HIDE DEF To, S, n, Fits
    <3> QED
      BY <1>3, <2>2, <2>3, <2>4
  <2> HIDE DEF To, S, n, Fits
  <2> QED
    BY <2>2, <2>4, <2>5
<1>9. \A i \in 1..n : g[i] = Written(g[i - 1], D[i], m.data[i])
  <2> HIDE DEF To, S, n, Fits
  <2> QED
    BY <1>3, <1>7, <1>8
<1>10. Writings(m, g)
  <2>1. \A i \in 1..n : D[i] = "var" => g[i - 1].count = Len(m.data[i])
    BY <1>8
  <2> HIDE DEF To, Fits, step
  <2> QED
    BY <1>5, <1>6, <1>9, <2>1, Zenon DEF Writings
<1>11. g = [i \in 0..n |-> IF i = 0 THEN NoCells(m) ELSE Written(g[i - 1], D[i], m.data[i])]
  <2> DEFINE h == [i \in 0..n |-> IF i = 0 THEN NoCells(m) ELSE Written(g[i - 1], D[i], m.data[i])]
  <2>1. \A i \in 0..n : g[i] = h[i]
    <3> HIDE DEF To, Fits, step, S, n
    <3> TAKE i \in 0..n
    <3>1. h[i] = IF i = 0 THEN NoCells(m) ELSE Written(g[i - 1], D[i], m.data[i])
      BY Zenon
    <3>2. CASE i = 0
      BY <1>6, <3>1, <3>2
    <3>3. CASE i # 0
      <4>1. i \in 1..n
        BY <1>1, <3>3
      <4> HIDE DEF h
      <4> QED
        BY <1>9, <3>1, <3>3, <4>1
    <3> QED
      BY <3>2, <3>3
  <2>2. g = [i \in 0..n |-> g[i]] /\ h = [i \in 0..n |-> h[i]]
    <3> HIDE DEF step, S
    <3> QED
      BY <1>5
  <2> HIDE DEF h, n, S, step
  <2> QED
    BY <2>1, <2>2 DEF h
<1> QED
  BY <1>10, <1>11

Counts == [size : Nat, count : Nat]
NoCount == [size |-> 0, count |-> 0]

\* c: what NCMessageSize has counted behind each field.
Countings(m, c) ==
  LET D == Descriptor(m.id) IN
  /\ c \in [0..Len(D) -> Counts] /\ c[0] = NoCount
  /\ \A i \in 1..Len(D) : c[i] = Counted(c[i - 1], D[i], m.data[i])

\* NCMessageSize counts a field with its width, an array with the count in force.
LEMMA FieldCounted ==
  ASSUME NEW m \in Message, NEW i \in 1..Len(Descriptor(m.id)),
         NEW type, type = Descriptor(m.id)[i],
         NEW v, v = m.data[i], NEW s \in Counts, NEW c, c = Counted(s, type, v)
  PROVE  /\ c \in Counts
         /\ type = "var" => c.size = s.size + s.count
         /\ type # "var" => c.size = s.size + Width(m, i)
         /\ type = "count" => c.count = v
         /\ type = "var" => c.count = 0
         /\ type \notin {"count", "var"} => c.count = s.count
<1>1. s.size \in Nat /\ s.count \in Nat
  BY DEF Counts
<1>2. type \in Types
  BY TableOf
<1>3. /\ type \in {"string", "var"} => Len(v) \in Nat
      /\ type = "count" => v \in Nat
  BY DataOf DEF IsSequence
<1>4. CASE type \in {"integer", "block"}
  <2>1. c = [s EXCEPT !.size = @ + 1] /\ Width(m, i) = 1
    BY <1>4 DEF Counted, Width
  <2>2. c = [size |-> s.size + 1, count |-> s.count]
    BY <2>1 DEF Counts
  <2> QED
    BY <1>1, <1>4, <2>1, <2>2 DEF Counts
<1>5. CASE type = "count"
  <2>1. c = [size |-> s.size + 1, count |-> v] /\ Width(m, i) = 1
    BY <1>5 DEF Counted, Width
  <2> QED
    BY <1>1, <1>3, <1>5, <2>1 DEF Counts
<1>6. CASE type = "string"
  <2>1. c = [s EXCEPT !.size = @ + 1 + Len(v)] /\ Width(m, i) = 1 + Len(v)
    BY <1>6 DEF Counted, Width
  <2>2. c = [size |-> s.size + 1 + Len(v), count |-> s.count]
    BY <2>1 DEF Counts
  <2>3. s.size + 1 + Len(v) = s.size + (1 + Len(v)) /\ s.size + 1 + Len(v) \in Nat
    <3>1. s.size \in Nat /\ Len(v) \in Nat
      BY <1>1, <1>3, <1>6
    <3>2. s.size + 1 + Len(v) = s.size + (1 + Len(v))
      BY <3>1, SumsAgree, Zenon
    <3>3. s.size + (1 + Len(v)) \in Nat
      BY <3>1
    <3> QED
      BY <3>2, <3>3
  <2> QED
    BY <1>1, <1>6, <2>1, <2>2, <2>3 DEF Counts
<1>7. CASE type = "var"
  <2>1. c = [size |-> s.size + s.count, count |-> 0]
    BY <1>7 DEF Counted
  <2> QED
    BY <1>1, <1>7, <2>1 DEF Counts
<1> QED
  BY <1>2, <1>4, <1>5, <1>6, <1>7 DEF Types

\* What is counted behind each field is defined.
LEMMA CountingsExist ==
  ASSUME NEW m \in Message, NEW D, D = Descriptor(m.id)
  PROVE  \E c : /\ Countings(m, c)
                /\ c = [i \in 0..Len(D) |->
                          IF i = 0 THEN NoCount ELSE Counted(c[i - 1], D[i], m.data[i])]
<1> DEFINE n == Len(D)
<1> DEFINE S == Counts
<1> DEFINE To(i, s) == Counted(s, D[i], m.data[i])
<1> DEFINE step == [i \in 1..n |-> [s \in S |-> To(i, s)]]
<1>1. n \in Nat
  BY TableOf
<1>2. NoCount \in S
  BY DEF NoCount, Counts
<1>4. step \in [1..n -> [S -> S]]
  <2>1. \A i \in 1..n : \A s \in S : To(i, s) \in S
    BY FieldCounted
  <2> HIDE DEF To, S
  <2> QED
    BY <2>1
<1>5. PICK c \in [0..n -> S] : Follow(c, n, NoCount, step)
  <2> HIDE DEF step, S, n
  <2> QED
    BY <1>1, <1>2, <1>4, Recursion, Zenon
<1>6. c[0] = NoCount /\ \A i \in 1..n : c[i] = step[i][c[i - 1]]
  <2> HIDE DEF step, S, n
  <2>1. c = [i \in 0..n |-> IF i = 0 THEN NoCount ELSE step[i][c[i - 1]]]
    BY <1>5, Zenon DEF Follow
  <2>2. PICK f : /\ f = [i \in 0..n |-> IF i = 0 THEN NoCount ELSE step[i][c[i - 1]]]
                 /\ c = f
    BY <2>1
  <2>3. \A i \in 0..n : f[i] = IF i = 0 THEN NoCount ELSE step[i][c[i - 1]]
    BY <2>2, Zenon
  <2>4. 0 \in 0..n /\ \A i \in 1..n : i \in 0..n /\ i # 0
    BY <1>1
  <2> QED
    BY <2>2, <2>3, <2>4, Zenon
<1>7. \A i \in 1..n : c[i] = To(i, c[i - 1])
  <2> TAKE i \in 1..n
  <2>1. c[i - 1] \in S
    <3>1. i - 1 \in 0..n
      BY <1>1
    <3> HIDE DEF S, n, step
    <3> QED
      BY <1>5, <3>1
  <2>2. step[i][c[i - 1]] = To(i, c[i - 1])
    <3> HIDE DEF To, S, n
    <3> QED
      BY <2>1, Zenon
  <2> HIDE DEF step, To, S, n
  <2> QED
    BY <1>6, <2>1, <2>2
<1>10. Countings(m, c)
  <2> HIDE DEF step
  <2> QED
    BY <1>5, <1>6, <1>7, Zenon DEF Countings
<1>11. c = [i \in 0..n |-> IF i = 0 THEN NoCount ELSE To(i, c[i - 1])]
  <2> DEFINE h == [i \in 0..n |-> IF i = 0 THEN NoCount ELSE To(i, c[i - 1])]
  <2>1. \A i \in 0..n : c[i] = h[i]
    <3> HIDE DEF To, step, S, n
    <3> TAKE i \in 0..n
    <3>1. h[i] = IF i = 0 THEN NoCount ELSE To(i, c[i - 1])
      BY Zenon
    <3>2. CASE i = 0
      BY <1>6, <3>1, <3>2
    <3>3. CASE i # 0
      <4>1. i \in 1..n
        BY <1>1, <3>3
      <4> HIDE DEF h
      <4> QED
        BY <1>7, <3>1, <3>3, <4>1
    <3> QED
      BY <3>2, <3>3
  <2>2. c = [i \in 0..n |-> c[i]] /\ h = [i \in 0..n |-> h[i]]
    <3> HIDE DEF step, S
    <3> QED
      BY <1>5
  <2> HIDE DEF h, n, S, step
  <2> QED
    BY <2>1, <2>2 DEF h
<1> QED
  BY <1>10, <1>11

\* The buffer is what is written behind the last field ...
LEMMA BufferWritten ==
  ASSUME NEW m \in Message
  PROVE  \E g : /\ Writings(m, g) /\ Buffer(m) = g[Len(Descriptor(m.id))].cells
<1> DEFINE D == Descriptor(m.id)
<1> DEFINE W(g) == g = [i \in 0..Len(D) |->
                          IF i = 0 THEN NoCells(m) ELSE Written(g[i - 1], D[i], m.data[i])]
<1> DEFINE w == CHOOSE g : W(g)
<1>1. PICK g : Writings(m, g) /\ W(g)
  BY WritingsExist
<1>2. W(w)
  <2> HIDE DEF W
  <2> QED
    BY <1>1
<1>3. Buffer(m) = w[Len(D)].cells
  BY DEF Buffer, NoCells
<1>4. Len(D) \in Nat
  BY TableOf
<1>5. \A i \in 0..Len(D) : w[i] = g[i]
  <2> DEFINE T == {i \in 0..Len(D) : w[i] = g[i]}
  <2>1. PICK f : f = [i \in 0..Len(D) |-> IF i = 0 THEN NoCells(m) ELSE
                                            Written(w[i - 1], D[i], m.data[i])] /\ w = f
    BY <1>2
  <2>2. \A i \in 0..Len(D) : w[i] = IF i = 0 THEN NoCells(m) ELSE Written(w[i - 1], D[i], m.data[i])
    <3> HIDE DEF w, D
    <3> QED
      BY <2>1, Zenon
  <2>3. g[0] = NoCells(m) /\ \A i \in 1..Len(D) : g[i] = Written(g[i - 1], D[i], m.data[i])
    BY <1>1 DEF Writings
  <2> HIDE DEF w, W, D
  <2>4. 0 \in T
    BY <1>4, <2>2, <2>3
  <2>5. \A i \in 0..Len(D) - 1 : i \in T => i + 1 \in T
    <3> SUFFICES ASSUME NEW i \in 0..Len(D) - 1, i \in T PROVE i + 1 \in T
      OBVIOUS
    <3>1. PICK k \in 1..Len(D) : k = i + 1 /\ k - 1 = i /\ k # 0 /\ k \in 0..Len(D)
      BY <1>4
    <3>2. w[k] = Written(w[k - 1], D[k], m.data[k]) /\ g[k] = Written(g[k - 1], D[k], m.data[k])
      BY <2>2, <2>3, <3>1
    <3>3. w[k - 1] = g[k - 1]
      BY <3>1
    <3> QED
      BY <3>1, <3>2, <3>3
  <2> HIDE DEF T
  <2>6. \A i \in 0..Len(D) : i \in T
    BY <1>4, <2>4, <2>5, UpTo
  <2> QED
    BY <2>6 DEF T
<1>6. w[Len(D)] = g[Len(D)]
  <2> HIDE DEF w, D
  <2>1. Len(D) \in 0..Len(D)
    BY <1>4
  <2> QED
    BY <1>5, <2>1
<1> QED
  BY <1>1, <1>3, <1>6, Zenon

\* ... and the size what is counted behind it.
LEMMA SizeCounted ==
  ASSUME NEW m \in Message
  PROVE  \E c : /\ Countings(m, c) /\ MessageSize(m) = c[Len(Descriptor(m.id))].size
<1> DEFINE D == Descriptor(m.id)
<1> DEFINE W(g) == g = [i \in 0..Len(D) |->
                          IF i = 0 THEN NoCount ELSE Counted(g[i - 1], D[i], m.data[i])]
<1> DEFINE w == CHOOSE g : W(g)
<1>1. PICK g : Countings(m, g) /\ W(g)
  BY CountingsExist
<1>2. W(w)
  <2> HIDE DEF W
  <2> QED
    BY <1>1
<1>3. MessageSize(m) = w[Len(D)].size
  BY DEF MessageSize, NoCount
<1>4. Len(D) \in Nat
  BY TableOf
<1>5. \A i \in 0..Len(D) : w[i] = g[i]
  <2> DEFINE T == {i \in 0..Len(D) : w[i] = g[i]}
  <2>1. PICK f : f = [i \in 0..Len(D) |-> IF i = 0 THEN NoCount ELSE
                                            Counted(w[i - 1], D[i], m.data[i])] /\ w = f
    BY <1>2
  <2>2. \A i \in 0..Len(D) : w[i] = IF i = 0 THEN NoCount ELSE Counted(w[i - 1], D[i], m.data[i])
    <3> HIDE DEF w, D
    <3> QED
      BY <2>1, Zenon
  <2>3. g[0] = NoCount /\ \A i \in 1..Len(D) : g[i] = Counted(g[i - 1], D[i], m.data[i])
    BY <1>1 DEF Countings
  <2> HIDE DEF w, W, D
  <2>4. 0 \in T
    BY <1>4, <2>2, <2>3
  <2>5. \A i \in 0..Len(D) - 1 : i \in T => i + 1 \in T
    <3> SUFFICES ASSUME NEW i \in 0..Len(D) - 1, i \in T PROVE i + 1 \in T
      OBVIOUS
    <3>1. PICK k \in 1..Len(D) : k = i + 1 /\ k - 1 = i /\ k # 0 /\ k \in 0..Len(D)
      BY <1>4
    <3>2. w[k] = Counted(w[k - 1], D[k], m.data[k]) /\ g[k] = Counted(g[k - 1], D[k], m.data[k])
      BY <2>2, <2>3, <3>1
    <3>3. w[k - 1] = g[k - 1]
      BY <3>1
    <3> QED
      BY <3>1, <3>2, <3>3
  <2> HIDE DEF T
  <2>6. \A i \in 0..Len(D) : i \in T
    BY <1>4, <2>4, <2>5, UpTo
  <2> QED
    BY <2>6 DEF T
<1>6. w[Len(D)] = g[Len(D)]
  <2> HIDE DEF w, D
  <2>1. Len(D) \in 0..Len(D)
    BY <1>4
  <2> QED
    BY <1>5, <2>1
<1> QED
  BY <1>1, <1>3, <1>6, Zenon

\* The fields of a message in its buffer: field i ends with cell P[i].
LaidOut(m, P) ==
  LET D == Descriptor(m.id) IN
  /\ P \in [0..Len(D) -> Nat]
  /\ P[0] = 1 /\ P[Len(D)] = 1 + MessageSize(m)
  /\ Buffer(m)[1] = m.id
  /\ \A i \in 1..Len(D) : /\ P[i] = P[i - 1] + Width(m, i)
                          /\ P[i] <= P[Len(D)]
                          /\ FieldAt(m, i, Buffer(m), P[i - 1])

\* b with field i of m behind it is w.
FieldIsWritten(m, i, b, w) ==
  /\ Width(m, i) \in Nat
  /\ Len(w.cells) = Len(b.cells) + Width(m, i)
  /\ \A q \in 1..Len(b.cells) : w.cells[q] = b.cells[q]
  /\ FieldAt(m, i, w.cells, Len(b.cells))
  /\ Descriptor(m.id)[i] = "count" => w.count = m.data[i]
  /\ Descriptor(m.id)[i] = "var" => w.count = 0
  /\ Descriptor(m.id)[i] \notin {"count", "var"} => w.count = b.count

\* What Written adds, for a b, type and v that are given by equations.
LEMMA FieldWrittenNow ==
  ASSUME NEW m \in Message, NEW i \in 1..Len(Descriptor(m.id)), NEW b, NEW w,
         b \in Buffers(m), w = Written(b, Descriptor(m.id)[i], m.data[i]),
         Descriptor(m.id)[i] = "var" => b.count = Len(m.data[i])
  PROVE  FieldIsWritten(m, i, b, w)
BY FieldWritten DEF FieldIsWritten

\* sendMsg writes the fields one behind the other, and NCMessageSize counts
\* what it writes.
LEMMA Layout ==
  ASSUME NEW m \in Message
  PROVE  \E P : LaidOut(m, P)
<1> DEFINE D == Descriptor(m.id)
<1> DEFINE n == Len(D)
<1>1. n \in Nat
  BY TableOf
<1>2. PICK g : Writings(m, g) /\ Buffer(m) = g[n].cells
  BY BufferWritten
<1>3. PICK c : Countings(m, c) /\ MessageSize(m) = c[n].size
  BY SizeCounted
<1> DEFINE P == [i \in 0..n |-> Len(g[i].cells)]
<1>4. /\ g \in [0..n -> Buffers(m)] /\ g[0] = NoCells(m)
      /\ \A i \in 1..n : /\ g[i] = Written(g[i - 1], D[i], m.data[i])
                         /\ D[i] = "var" => g[i - 1].count = Len(m.data[i])
  BY <1>2 DEF Writings
<1>5. /\ c \in [0..n -> Counts] /\ c[0] = NoCount
      /\ \A i \in 1..n : c[i] = Counted(c[i - 1], D[i], m.data[i])
  BY <1>3 DEF Countings
<1>6. \A i \in 0..n : P[i] \in Nat /\ P[i] = Len(g[i].cells)
  <2> TAKE i \in 0..n
  <2>1. g[i] \in Buffers(m)
    BY <1>4
  <2>2. g[i].cells \in Seq(Contents(m))
    BY <2>1 DEF Buffers
  <2>3. Len(g[i].cells) \in Nat
    BY <2>2
  <2>4. P[i] = Len(g[i].cells)
    BY Zenon
  <2> QED
    BY <2>3, <2>4
<1>7. \A i \in 1..n : /\ Width(m, i) \in Nat /\ P[i] = P[i - 1] + Width(m, i)
                      /\ \A q \in 1..P[i - 1] : g[i].cells[q] = g[i - 1].cells[q]
                      /\ FieldAt(m, i, g[i].cells, P[i - 1])
                      /\ D[i] = "count" => g[i].count = m.data[i]
                      /\ D[i] = "var" => g[i].count = 0
                      /\ D[i] \notin {"count", "var"} => g[i].count = g[i - 1].count
  <2> TAKE i \in 1..n
  <2>1. i - 1 \in 0..n /\ i \in 0..n
    BY <1>1
  <2>2. P[i - 1] = Len(g[i - 1].cells) /\ P[i] = Len(g[i].cells)
    BY <1>6, <2>1
  <2> PICK b : b = g[i - 1]
    OBVIOUS
  <2> PICK w : w = g[i]
    OBVIOUS
  <2> HIDE DEF P
  <2>3. b \in Buffers(m) /\ w = Written(b, D[i], m.data[i])
        /\ (D[i] = "var" => b.count = Len(m.data[i]))
    BY <1>4, <2>1
  <2>4. /\ Width(m, i) \in Nat
        /\ Len(w.cells) = Len(b.cells) + Width(m, i)
        /\ \A q \in 1..Len(b.cells) : w.cells[q] = b.cells[q]
        /\ FieldAt(m, i, w.cells, Len(b.cells))
        /\ D[i] = "count" => w.count = m.data[i]
        /\ D[i] = "var" => w.count = 0
        /\ D[i] \notin {"count", "var"} => w.count = b.count
    <3>1. i \in 1..Len(Descriptor(m.id))
      OBVIOUS
    <3>2. b \in Buffers(m)
      BY <2>3
    <3>3. w = Written(b, Descriptor(m.id)[i], m.data[i])
      BY <2>3
    <3>4. Descriptor(m.id)[i] = "var" => b.count = Len(m.data[i])
      BY <2>3
    <3> HIDE DEF n
    <3>5. FieldIsWritten(m, i, b, w)
      BY <3>1, <3>2, <3>3, <3>4, FieldWrittenNow
    <3> QED
      BY <3>5, Zenon DEF FieldIsWritten
  <2> QED
    BY <2>2, <2>4
<1> HIDE DEF P
<1>8. \A k \in 0..n : \A i \in 0..k :
        P[i] <= P[k] /\ \A q \in 1..P[i] : g[k].cells[q] = g[i].cells[q]
  <2> DEFINE Keeps(i, k) == P[i] <= P[k] /\ \A q \in 1..P[i] : g[k].cells[q] = g[i].cells[q]
  <2> DEFINE T == {k \in 0..n : \A i \in 0..k : Keeps(i, k)}
  <2>1. 0 \in T
    <3>1. P[0] \in Nat /\ 0 \in 0..n
      BY <1>1, <1>6
    <3>2. Keeps(0, 0)
      BY <3>1
    <3>3. \A i \in 0..0 : i = 0
      OBVIOUS
    <3> HIDE DEF Keeps
    <3> QED
      BY <3>1, <3>2, <3>3
  <2>2. \A k \in 0..n - 1 : k \in T => k + 1 \in T
    <3> SUFFICES ASSUME NEW k \in 0..n - 1, k \in T PROVE k + 1 \in T
      OBVIOUS
    <3>1. PICK l \in 1..n : l = k + 1 /\ l - 1 = k /\ l \in 0..n /\ k \in 0..n
      BY <1>1
    <3>2. \A i \in 0..l : i = l \/ i \in 0..k
      BY <3>1
    <3>3. \A i \in 0..k : Keeps(i, k)
      OBVIOUS
    <3>4. P[l] \in Nat /\ P[k] \in Nat
      BY <1>6, <3>1
    <3>5. Keeps(l, l)
      BY <3>4
    <3>6. /\ Width(m, l) \in Nat /\ P[l] = P[k] + Width(m, l)
          /\ \A q \in 1..P[k] : g[l].cells[q] = g[k].cells[q]
      BY <1>7, <3>1
    <3>7. P[k] <= P[l]
      BY <3>4, <3>6
    <3>8. ASSUME NEW i \in 0..k PROVE Keeps(i, l)
      <4>1. P[i] \in Nat /\ P[i] <= P[k]
            /\ \A q \in 1..P[i] : g[k].cells[q] = g[i].cells[q]
        <5>1. i \in 0..n
          BY <3>1
        <5> QED
          BY <1>6, <3>3, <5>1
      <4>2. \A q \in 1..P[i] : q \in 1..P[k]
        BY <3>4, <4>1
      <4> QED
        BY <3>4, <3>6, <3>7, <4>1, <4>2
    <3> HIDE DEF Keeps
    <3> QED
      BY <3>1, <3>2, <3>5, <3>8
  <2> HIDE DEF T
  <2>3. \A k \in 0..n : k \in T
    BY <1>1, <2>1, <2>2, UpTo
  <2> QED
    BY <2>3 DEF T
<1>9. \A k \in 0..n : 1 + c[k].size = P[k] /\ c[k].count = g[k].count
  <2> DEFINE T == {k \in 0..n : 1 + c[k].size = P[k] /\ c[k].count = g[k].count}
  <2>1. 0 \in T
    <3>1. c[0].size = 0 /\ c[0].count = 0 /\ g[0].count = 0 /\ 0 \in 0..n
      BY <1>1, <1>4, <1>5 DEF NoCount, NoCells
    <3>2. P[0] = Len(<<m.id>>)
      <4>1. P[0] = Len(g[0].cells)
        BY <1>6, <3>1, Zenon
      <4>2. g[0].cells = <<m.id>>
        BY <1>4 DEF NoCells
      <4> QED
        BY <4>1, <4>2, Zenon
    <3> QED
      BY <3>1, <3>2
  <2>2. \A k \in 0..n - 1 : k \in T => k + 1 \in T
    <3> SUFFICES ASSUME NEW k \in 0..n - 1, k \in T PROVE k + 1 \in T
      OBVIOUS
    <3>1. PICK l \in 1..n : l = k + 1 /\ l - 1 = k /\ l \in 0..n /\ k \in 0..n
      BY <1>1
    <3>2. 1 + c[k].size = P[k] /\ c[k].count = g[k].count
      OBVIOUS
    <3> PICK s : s = c[k]
      OBVIOUS
    <3> PICK d : d = c[l]
      OBVIOUS
    <3>3. s \in Counts /\ d = Counted(s, D[l], m.data[l])
      BY <1>5, <3>1
    <3>4. /\ D[l] = "var" => d.size = s.size + s.count
          /\ D[l] # "var" => d.size = s.size + Width(m, l)
          /\ D[l] = "count" => d.count = m.data[l]
          /\ D[l] = "var" => d.count = 0
          /\ D[l] \notin {"count", "var"} => d.count = s.count
      BY <3>3, FieldCounted
    <3>5. /\ Width(m, l) \in Nat /\ P[l] = P[k] + Width(m, l)
          /\ D[l] = "count" => g[l].count = m.data[l]
          /\ D[l] = "var" => g[l].count = 0
          /\ D[l] \notin {"count", "var"} => g[l].count = g[k].count
      BY <1>7, <3>1
    <3>6. d.count = g[l].count
      BY <3>2, <3>4, <3>5
    <3>7. d.size = s.size + Width(m, l)
      <4>1. CASE D[l] = "var"
        <5>1. g[k].count = Len(m.data[l])
          BY <1>4, <3>1, <4>1
        <5>2. Width(m, l) = Len(m.data[l])
          BY <4>1 DEF Width
        <5> QED
          BY <3>2, <3>4, <4>1, <5>1, <5>2
      <4> QED
        BY <3>4, <4>1
    <3>8. s.size \in Nat
      BY <3>3 DEF Counts
    <3>9. 1 + (s.size + Width(m, l)) = 1 + s.size + Width(m, l)
      BY <3>5, <3>8
    <3>10. 1 + d.size = P[l]
      BY <3>2, <3>5, <3>7, <3>9
    <3> QED
      BY <3>1, <3>6, <3>10
  <2> HIDE DEF T
  <2>3. \A k \in 0..n : k \in T
    BY <1>1, <2>1, <2>2, UpTo
  <2> QED
    BY <2>3 DEF T
<1>10. P[0] = 1 /\ Buffer(m)[1] = m.id
  <2>1. 0 \in 0..n /\ n \in 0..n /\ 0 \in 0..n
    BY <1>1
  <2>2. g[0].cells = <<m.id>>
    BY <1>4 DEF NoCells
  <2>3. P[0] = 1
    <3>1. P[0] = Len(<<m.id>>)
      <4>1. P[0] = Len(g[0].cells)
        BY <1>6, <2>1, Zenon
      <4> QED
        BY <2>2, <4>1, Zenon
    <3> QED
      BY <3>1
  <2>4. \A q \in 1..P[0] : g[n].cells[q] = g[0].cells[q]
    BY <1>8, <2>1
  <2>5. g[n].cells[1] = g[0].cells[1]
    BY <2>3, <2>4
  <2> QED
    BY <1>2, <2>2, <2>3, <2>5
<1>11. P[n] = 1 + MessageSize(m)
  <2>1. n \in 0..n
    BY <1>1
  <2> QED
    BY <1>3, <1>9, <2>1
<1>12. P \in [0..n -> Nat]
  BY <1>6 DEF P
<1>13. ASSUME NEW i \in 1..n
       PROVE  /\ P[i] = P[i - 1] + Width(m, i)
              /\ P[i] <= P[n]
              /\ FieldAt(m, i, Buffer(m), P[i - 1])
  <2>1. i \in 0..n /\ n \in 0..n
    BY <1>1
  <2>2. P[i] = P[i - 1] + Width(m, i) /\ FieldAt(m, i, g[i].cells, P[i - 1])
        /\ Width(m, i) \in Nat
    BY <1>7
  <2>3. P[i] <= P[n] /\ \A q \in 1..P[i] : Buffer(m)[q] = g[i].cells[q]
    BY <1>2, <1>8, <2>1
  <2>4. P[i - 1] \in Nat /\ P[i] \in Nat
    <3>1. i - 1 \in 0..n
      BY <1>1
    <3> QED
      BY <1>6, <2>1, <3>1
  <2>5. FieldAt(m, i, Buffer(m), P[i - 1])
    <3> DEFINE v == m.data[i]
    <3> DEFINE p == P[i - 1]
    <3> HIDE DEF p, n, D
    <3>0. p \in Nat /\ P[i] = p + Width(m, i)
      BY <2>2, <2>4 DEF p
    <3>1. CASE Descriptor(m.id)[i] \in {"integer", "block", "count"}
      <4>1. p + 1 \in 1..P[i]
        BY <3>0, <3>1 DEF Width
      <4> QED
        BY <2>2, <2>3, <3>1, <4>1 DEF FieldAt, p
    <3>2. CASE Descriptor(m.id)[i] = "string"
      <4>1. P[i] = p + (1 + Len(v)) /\ Len(v) \in Nat
        BY <3>0, <3>2, DataOf DEF Width, IsSequence, n, D
      <4>2. p + 1 \in 1..P[i] /\ \A j \in 1..Len(v) : p + 1 + j \in 1..P[i]
        BY <3>0, <4>1
      <4> QED
        BY <2>2, <2>3, <3>2, <4>2 DEF FieldAt, p
    <3>3. CASE Descriptor(m.id)[i] = "var"
      <4>1. P[i] = p + Len(v) /\ Len(v) \in Nat
        BY <3>0, <3>3, DataOf DEF Width, IsSequence, n, D
      <4>2. \A j \in 1..Len(v) : p + j \in 1..P[i]
        BY <3>0, <4>1
      <4> QED
        BY <2>2, <2>3, <3>3, <4>2 DEF FieldAt, p
    <3> QED
      <4>1. Descriptor(m.id)[i] \in Types
        BY TableOf DEF n, D
      <4> QED
        BY <3>1, <3>2, <3>3, <4>1 DEF Types
  <2> QED
    BY <2>2, <2>3, <2>5
<1> QED
  BY <1>10, <1>11, <1>12, <1>13 DEF LaidOut

\* The size of a message is a number.
LEMMA SizesKnown == \A m \in Message : MessageSize(m) \in Nat
<1> SUFFICES ASSUME NEW m \in Message PROVE MessageSize(m) \in Nat
  OBVIOUS
<1>1. PICK c : /\ Countings(m, c) /\ MessageSize(m) = c[Len(Descriptor(m.id))].size
  BY SizeCounted
<1>2. Len(Descriptor(m.id)) \in Nat
  BY TableOf
<1>3. c[Len(Descriptor(m.id))] \in Counts
  BY <1>1, <1>2 DEF Countings
<1> QED
  BY <1>1, <1>3 DEF Counts

\* dispatch and recvMsg have read c cells of m: they wait for its ID, or for
\* field r.field, of a string its length or its characters.
ReaderAt(r, m, P, c) ==
  LET D == Descriptor(m.id)
      i == r.field
  IN  \/ r = Start /\ c = 0
      \/ /\ Known(m.id) /\ i \in 1..Len(D) /\ r.body \in BOOLEAN
         /\ r = [field |-> i, body |-> r.body, len |-> r.len, count |-> r.count,
                 msg |-> [id |-> m.id, data |-> [j \in 1..(i - 1) |-> m.data[j]]]]
         /\ r.body => /\ D[i] = "string" /\ r.len = Len(m.data[i])
                      /\ c = P[i - 1] + 1
         /\ ~r.body => c = P[i - 1]
         /\ D[i] = "var" => r.count = Len(m.data[i])

\* They go on with m behind its first c cells, or they have m.
GoesOn(r, m, P, c) ==
  /\ r.msg.id = m.id
  /\ Known(m.id) => \/ Complete(r) /\ r.msg = m /\ c = 1 + MessageSize(m)
                    \/ ~Complete(r) /\ ReaderAt(r, m, P, c)

\* The next value behind the first k.
LEMMA AppendNext ==
  ASSUME NEW f, NEW k \in Nat
  PROVE  Append([j \in 1..k |-> f[j]], f[k + 1]) = [j \in 1..(k + 1) |-> f[j]]
<1> DEFINE s == [j \in 1..k |-> f[j]]
<1> DEFINE t == [j \in 1..(k + 1) |-> f[j]]
<1> DEFINE S == {f[j] : j \in 1..(k + 1)}
<1>1. s \in [1..k -> S] /\ t \in [1..(k + 1) -> S] /\ f[k + 1] \in S
  OBVIOUS
<1>2. \A j \in 1..k : s[j] = t[j]
  OBVIOUS
<1>3. t[k + 1] = f[k + 1]
  OBVIOUS
<1> HIDE DEF s, t, S
<1>4. s \in Seq(S) /\ Len(s) = k /\ t \in Seq(S) /\ Len(t) = k + 1
  BY <1>1
<1>5. /\ Append(s, f[k + 1]) \in Seq(S) /\ Len(Append(s, f[k + 1])) = k + 1
      /\ \A j \in 1..k : Append(s, f[k + 1])[j] = s[j]
      /\ Append(s, f[k + 1])[k + 1] = f[k + 1]
  BY <1>1, <1>4
<1>6. \A j \in 1..(k + 1) : Append(s, f[k + 1])[j] = t[j]
  BY <1>2, <1>3, <1>5
<1>7. Append(s, f[k + 1]) = t
  BY <1>4, <1>5, <1>6, SeqEqual
<1> QED
  BY <1>7 DEF s, t

\* Behind field i they wait for the next one, or have the message.
LEMMA NextField ==
  ASSUME NEW m \in Message, NEW P, LaidOut(m, P), Known(m.id),
         NEW i \in 1..Len(Descriptor(m.id)), NEW len, NEW count, NEW r,
         Descriptor(m.id)[i] = "count" => count = m.data[i],
         r = [field |-> i + 1, body |-> FALSE, len |-> len, count |-> count,
              msg |-> [id |-> m.id, data |-> [j \in 1..i |-> m.data[j]]]]
  PROVE  GoesOn(r, m, P, P[i])
<1> DEFINE D == Descriptor(m.id)
<1> DEFINE n == Len(D)
<1>1. n \in Nat /\ i \in Nat
  BY TableOf
<1>2. r.field = i + 1 /\ r.body = FALSE /\ r.len = len /\ r.count = count
      /\ r.msg = [id |-> m.id, data |-> [j \in 1..i |-> m.data[j]]] /\ r.msg.id = m.id
  OBVIOUS
<1>3. Complete(r) <=> i + 1 > n
  BY <1>2 DEF Complete
<1>4. CASE i = n
  <2>1. m = [id |-> m.id, data |-> m.data] /\ IsSequence(m.data) /\ Len(m.data) = n
    BY DataOf
  <2>2. m.data = [j \in 1..n |-> m.data[j]]
    BY <2>1 DEF IsSequence
  <2>3. r.msg = m
    <3> HIDE DEF n
    <3> QED
      BY <1>2, <1>4, <2>1, <2>2
  <2>4. P[i] = 1 + MessageSize(m)
    BY <1>4 DEF LaidOut
  <2> QED
    BY <1>1, <1>2, <1>3, <1>4, <2>3, <2>4 DEF GoesOn
<1>5. CASE i # n
  <2>1. i + 1 \in 1..n /\ i + 1 - 1 = i
    BY <1>1, <1>5
  <2> PICK k \in 1..n : k = i + 1
    BY <2>1
  <2>2. D[k] = "var" => count = Len(m.data[k])
    <3> SUFFICES ASSUME D[k] = "var" PROVE count = Len(m.data[k])
      OBVIOUS
    <3>1. D[k - 1] = "count" /\ m.data[k - 1] = Len(m.data[k])
      BY DataOf
    <3>2. k - 1 = i
      BY <2>1
    <3> QED
      BY <3>1, <3>2
  <2>3. r = [field |-> k, body |-> r.body, len |-> r.len, count |-> r.count,
             msg |-> [id |-> m.id, data |-> [j \in 1..(k - 1) |-> m.data[j]]]]
    <3>1. k - 1 = i
      BY <2>1
    <3> HIDE DEF n
    <3> QED
      BY <1>2, <3>1
  <2>4. ReaderAt(r, m, P, P[i])
    <3>1. r.field = k /\ k - 1 = i /\ r.body \in BOOLEAN /\ ~r.body
      BY <1>2, <2>1
    <3> QED
      BY <1>2, <2>2, <2>3, <3>1, Zenon DEF ReaderAt
  <2> QED
    BY <1>1, <1>2, <1>3, <2>1, <2>4 DEF GoesOn
<1> QED
  BY <1>4, <1>5

\* Field i of m is the one the reader is at.
AtField(m, i) ==
  /\ Known(m.id) /\ i \in 1..Len(Descriptor(m.id)) /\ reader.body \in BOOLEAN
  /\ reader = [field |-> i, body |-> reader.body, len |-> reader.len,
               count |-> reader.count,
               msg |-> [id |-> m.id, data |-> [j \in 1..(i - 1) |-> m.data[j]]]]

\* What the reader knows at field i of m.
LEMMA AtFieldFacts ==
  ASSUME NEW m \in Message, NEW i, AtField(m, i)
  PROVE  /\ reader.field = i /\ i # 0 /\ i \in Nat /\ i \in 1..Len(Descriptor(m.id))
         /\ reader.msg = [id |-> m.id, data |-> [j \in 1..(i - 1) |-> m.data[j]]]
         /\ reader.msg.id = m.id
         /\ Type = Descriptor(m.id)[i]
         /\ Descriptor(m.id)[i] \in Types
<1>1. reader.field = i /\ reader.msg = [id |-> m.id, data |-> [j \in 1..(i - 1) |-> m.data[j]]]
  BY DEF AtField
<1>2. reader.msg.id = m.id
  BY <1>1
<1>3. i \in 1..Len(Descriptor(m.id))
  BY DEF AtField
<1>4. Descriptor(m.id)[i] \in Types /\ Len(Descriptor(m.id)) \in Nat
  BY <1>3, TableOf
<1> QED
  BY <1>1, <1>2, <1>3, <1>4 DEF Type

\* Field i of m is between P[i - 1] and P[i].
LEMMA WidthKnown ==
  ASSUME NEW m \in Message, NEW i \in 1..Len(Descriptor(m.id)), NEW P, LaidOut(m, P)
  PROVE  /\ P[i - 1] \in Nat /\ P[i] \in Nat /\ Width(m, i) \in Nat
         /\ P[i] = P[i - 1] + Width(m, i)
         /\ P[i] <= 1 + MessageSize(m)
<1> DEFINE n == Len(Descriptor(m.id))
<1>1. n \in Nat
  BY TableOf
<1>2. i - 1 \in 0..n /\ i \in 0..n
  BY <1>1
<1>3. P[i - 1] \in Nat /\ P[i] \in Nat
  BY <1>2 DEF LaidOut
<1>4. P[i] = P[i - 1] + Width(m, i) /\ P[i] <= P[n] /\ P[n] = 1 + MessageSize(m)
  BY DEF LaidOut
<1>5. Width(m, i) \in Nat
  <2>1. Descriptor(m.id)[i] \in Types
    BY TableOf
  <2>2. Descriptor(m.id)[i] \in {"string", "var"} => Len(m.data[i]) \in Nat
    BY DataOf DEF IsSequence
  <2>3. CASE Descriptor(m.id)[i] \in {"integer", "block", "count"}
    BY <2>3 DEF Width
  <2>4. CASE Descriptor(m.id)[i] = "string"
    BY <2>2, <2>4 DEF Width
  <2>5. CASE Descriptor(m.id)[i] = "var"
    BY <2>2, <2>5 DEF Width
  <2> QED
    BY <2>1, <2>3, <2>4, <2>5 DEF Types
<1> QED
  BY <1>3, <1>4, <1>5

\* Put moves the reader behind field i.
LEMMA PutBehind ==
  ASSUME NEW m \in Message, NEW i, AtField(m, i)
  PROVE  Put(m.data[i]) =
           [field |-> i + 1, body |-> FALSE, len |-> reader.len, count |-> reader.count,
            msg |-> [id |-> m.id, data |-> [j \in 1..i |-> m.data[j]]]]
<1> DEFINE data == [j \in 1..(i - 1) |-> m.data[j]]
<1> DEFINE more == [j \in 1..i |-> m.data[j]]
<1>1. Append(data, m.data[i]) = more
  <2>1. i \in Nat /\ i # 0
    BY AtFieldFacts
  <2>2. PICK k \in Nat : k = i - 1 /\ k + 1 = i
    BY <2>1
  <2> QED
    BY <2>2, AppendNext
<1> HIDE DEF data, more
<1> PICK rd : rd = reader
  OBVIOUS
<1> PICK d : d = Append(data, m.data[i])
  OBVIOUS
<1> PICK q : q = [rd EXCEPT !.field = @ + 1, !.body = FALSE, !.msg.data = d]
  OBVIOUS
<1>2. rd = [field |-> i, body |-> rd.body, len |-> rd.len, count |-> rd.count,
            msg |-> [id |-> m.id, data |-> data]]
  BY DEF AtField, data
<1>3. rd.field = i /\ rd.msg = [id |-> m.id, data |-> data] /\ rd.msg.data = data
  <2>1. rd.field = i /\ rd.msg = [id |-> m.id, data |-> data]
    BY <1>2
  <2> QED
    BY <2>1
<1>4. Put(m.data[i]) = q
  <2>1. Put(m.data[i]) = [rd EXCEPT !.field = @ + 1, !.body = FALSE,
                                    !.msg.data = Append(@, m.data[i])]
    BY DEF Put
  <2> QED
    BY <1>3, <2>1
<1>5. q.field = i + 1 /\ q.body = FALSE /\ q.len = rd.len /\ q.count = rd.count
  BY <1>2, <1>3
<1>6. q.msg = [rd.msg EXCEPT !.data = d]
  BY <1>2
<1>7. q.msg = [id |-> m.id, data |-> d]
  <2> PICK w : w = rd.msg
    OBVIOUS
  <2> PICK v : v = q.msg
    OBVIOUS
  <2>1. w = [id |-> m.id, data |-> data] /\ v = [w EXCEPT !.data = d]
    BY <1>3, <1>6
  <2>2. v.id = m.id /\ v.data = d
    BY <2>1
  <2>3. v = [id |-> v.id, data |-> v.data]
    BY <2>1
  <2> QED
    BY <2>2, <2>3, Zenon
<1>8. q = [field |-> q.field, body |-> q.body, len |-> q.len, count |-> q.count, msg |-> q.msg]
  BY <1>2
<1> QED
  BY <1>1, <1>4, <1>5, <1>7, <1>8, Zenon DEF more

\* The next call of recv reads the values of m behind its first c cells; the
\* calls do not reach behind the message.
LEMMA Parsed ==
  ASSUME NEW m \in Message, NEW P, LaidOut(m, P), NEW c \in Nat,
         ReaderAt(reader, m, P, c)
  PROVE  /\ Size \in Nat /\ c + Size <= 1 + MessageSize(m)
         /\ \A values : values = [j \in 1..Size |-> Buffer(m)[c + j]] =>
              GoesOn(Stored(values), m, P, c + Size)
<1> DEFINE D == Descriptor(m.id)
<1> DEFINE Goal == /\ Size \in Nat /\ c + Size <= 1 + MessageSize(m)
                   /\ \A values : values = [j \in 1..Size |-> Buffer(m)[c + j]] =>
                        GoesOn(Stored(values), m, P, c + Size)
<1> SUFFICES Goal
  OBVIOUS
<1>1. Len(D) \in Nat /\ MessageSize(m) \in Nat
  BY TableOf, SizesKnown
<1>2. CASE reader = Start /\ c = 0
  <2>1. Size = 1
    BY <1>2 DEF Size, Start
  <2>2. ASSUME NEW values, values = [j \in 1..Size |-> Buffer(m)[c + j]]
        PROVE  GoesOn(Stored(values), m, P, c + Size)
    <3>1. values[1] = m.id
      <4>1. 1 \in 1..Size /\ c + 1 = 1
        BY <1>2, <2>1
      <4>2. values[1] = Buffer(m)[c + 1]
        BY <2>2, <4>1
      <4> QED
        BY <4>1, <4>2 DEF LaidOut
    <3> DEFINE r == Stored(values)
    <3>2. r = [reader EXCEPT !.field = 1, !.msg.id = m.id]
      BY <1>2, <3>1 DEF Stored, Start
    <3>3. r = [field |-> 1, body |-> FALSE, len |-> 0, count |-> 0,
               msg |-> [id |-> m.id, data |-> <<>>]]
      BY <1>2, <3>2 DEF Start, NoMsg
    <3>4. <<>> = [j \in 1..0 |-> m.data[j]]
      OBVIOUS
    <3> HIDE DEF r
    <3>5. r.field = 1 /\ r.body = FALSE /\ r.len = 0 /\ r.count = 0
          /\ r.msg = [id |-> m.id, data |-> <<>>] /\ r.msg.id = m.id
      BY <3>3
    <3>6. P[0] = 1 /\ P[Len(D)] = 1 + MessageSize(m)
      BY DEF LaidOut
    <3>7. c + Size = 1
      BY <1>2, <2>1
    <3>8. CASE Len(D) = 0
      <4>1. m = [id |-> m.id, data |-> m.data] /\ IsSequence(m.data) /\ Len(m.data) = 0
        BY <3>8, DataOf
      <4>2. m.data = [j \in 1..0 |-> m.data[j]]
        BY <4>1 DEF IsSequence
      <4>3. r.msg = m
        BY <3>4, <3>5, <4>1, <4>2
      <4>4. 1 = 1 + MessageSize(m)
        BY <3>6, <3>8
      <4>5. Complete(r)
        BY <3>5, <3>8 DEF Complete
      <4> QED
        BY <3>5, <3>7, <4>3, <4>4, <4>5 DEF GoesOn, r
    <3>9. CASE Len(D) # 0
      <4> SUFFICES ASSUME Known(m.id) PROVE ~Complete(r) /\ ReaderAt(r, m, P, 1)
        BY <3>5, <3>7 DEF GoesOn, r
      <4>1. ~Complete(r)
        BY <1>1, <3>5, <3>9 DEF Complete
      <4>2. 1 \in 1..Len(D) /\ 1 - 1 = 0
        BY <1>1, <3>9
      <4>3. D[1] # "var"
        BY <4>2, DataOf
      <4>4. r = [field |-> 1, body |-> r.body, len |-> r.len, count |-> r.count,
                 msg |-> [id |-> m.id, data |-> [j \in 1..(1 - 1) |-> m.data[j]]]]
        BY <3>3, <3>4, <3>5, <4>2
      <4>5. r.body \in BOOLEAN /\ ~r.body /\ P[1 - 1] = 1
        BY <3>5, <3>6, <4>2
      <4> QED
        BY <3>5, <4>1, <4>2, <4>3, <4>4, <4>5, Zenon DEF ReaderAt
    <3> QED
      BY <3>8, <3>9 DEF r
  <2> QED
    BY <1>1, <1>2, <2>1, <2>2
<1>3. CASE ~(reader = Start /\ c = 0)
  <2> DEFINE i == reader.field
  <2>1. /\ AtField(m, i)
        /\ reader.body => /\ D[i] = "string" /\ reader.len = Len(m.data[i])
                          /\ c = P[i - 1] + 1
        /\ ~reader.body => c = P[i - 1]
        /\ D[i] = "var" => reader.count = Len(m.data[i])
    BY <1>3, Zenon DEF ReaderAt, AtField
  <2>2. /\ i # 0 /\ i \in Nat /\ i \in 1..Len(D) /\ Type = D[i] /\ D[i] \in Types
        /\ reader.msg = [id |-> m.id, data |-> [j \in 1..(i - 1) |-> m.data[j]]]
    BY <2>1, AtFieldFacts
  <2>3. /\ P[i - 1] \in Nat /\ P[i] \in Nat /\ Width(m, i) \in Nat
        /\ P[i] = P[i - 1] + Width(m, i) /\ P[i] <= 1 + MessageSize(m)
    BY <2>2, WidthKnown
  <2>4. FieldAt(m, i, Buffer(m), P[i - 1])
    BY <2>2 DEF LaidOut
  <2>5. D[i] \in {"string", "var"} => IsSequence(m.data[i])
    BY <2>2, DataOf
  <2>6. reader = [field |-> i, body |-> reader.body, len |-> reader.len,
                  count |-> reader.count,
                  msg |-> [id |-> m.id, data |-> [j \in 1..(i - 1) |-> m.data[j]]]]
    BY <2>1 DEF AtField
  <2>7. Known(m.id) /\ reader.body \in BOOLEAN
    BY <2>1 DEF AtField
  <2> HIDE DEF i
  <2> DEFINE v == m.data[i]
  <2> DEFINE Behind(count) ==
        [field |-> i + 1, body |-> FALSE, len |-> reader.len, count |-> count,
         msg |-> [id |-> m.id, data |-> [j \in 1..i |-> m.data[j]]]]
  <2>8. Put(v) = Behind(reader.count)
    BY <2>1, PutBehind
  <2>9. \A count : (D[i] = "count" => count = v) => GoesOn(Behind(count), m, P, P[i])
    <3> TAKE count
    <3> HAVE D[i] = "count" => count = v
    <3> QED
      BY <2>2, <2>7, NextField
  <2>10. \A count : [Put(v) EXCEPT !.count = count] = Behind(count)
    <3> TAKE count
    <3> PICK w : w = Put(v)
      OBVIOUS
    <3> PICK x : x = [w EXCEPT !.count = count]
      OBVIOUS
    <3>1. w = Behind(reader.count)
      BY <2>8, Zenon
    <3>2. /\ x.field = i + 1 /\ x.body = FALSE /\ x.len = reader.len /\ x.count = count
          /\ x.msg = [id |-> m.id, data |-> [j \in 1..i |-> m.data[j]]]
      BY <3>1
    <3>3. x = [field |-> x.field, body |-> x.body, len |-> x.len, count |-> x.count,
               msg |-> x.msg]
      BY <3>1, Zenon
    <3>4. x = Behind(count)
      BY <3>2, <3>3, Zenon
    <3> QED
      BY <3>4, Zenon
  <2>11. reader.field # 0 /\ reader.field = i
    BY <2>2 DEF i
  <2> HIDE DEF Behind
  <2>12. CASE D[i] \in {"integer", "block", "count"}
    <3>1. Width(m, i) = 1 /\ ~reader.body /\ D[i] \notin {"string", "var"}
      BY <2>1, <2>12 DEF Width
    <3>2. Size = 1 /\ c = P[i - 1] /\ c + Size = P[i]
      BY <2>1, <2>2, <2>3, <2>11, <3>1 DEF Size
    <3>3. ASSUME NEW values, values = [j \in 1..Size |-> Buffer(m)[c + j]]
          PROVE  GoesOn(Stored(values), m, P, c + Size)
      <4>1. values[1] = Buffer(m)[c + 1]
        BY <3>2, <3>3
      <4>2. values[1] = v
        BY <2>4, <2>12, <3>2, <4>1 DEF FieldAt
      <4>3. CASE D[i] = "count"
        <5>1. Stored(values) = [Put(v) EXCEPT !.count = v]
          BY <2>2, <2>11, <4>2, <4>3 DEF Stored
        <5>2. Stored(values) = Behind(v)
          BY <2>10, <5>1
        <5> QED
          BY <2>9, <3>2, <5>2
      <4>4. CASE D[i] \in {"integer", "block"}
        <5>1. Stored(values) = Put(v)
          BY <2>2, <2>11, <4>2, <4>4 DEF Stored
        <5>2. Stored(values) = Behind(reader.count)
          BY <2>8, <5>1
        <5>3. D[i] # "count"
          BY <4>4
        <5> QED
          BY <2>9, <3>2, <5>2, <5>3
      <4> QED
        BY <2>12, <4>3, <4>4
    <3> QED
      BY <2>3, <3>2, <3>3
  <2>13. CASE D[i] = "var"
    <3>1. Width(m, i) = Len(v) /\ ~reader.body /\ Len(v) \in Nat
          /\ v = [j \in 1..Len(v) |-> v[j]]
      BY <2>1, <2>5, <2>13 DEF Width, IsSequence
    <3>2. Size = Len(v) /\ c = P[i - 1] /\ c + Size = P[i]
      BY <2>1, <2>2, <2>3, <2>11, <2>13, <3>1 DEF Size
    <3>3. ASSUME NEW values, values = [j \in 1..Size |-> Buffer(m)[c + j]]
          PROVE  GoesOn(Stored(values), m, P, c + Size)
      <4>1. \A j \in 1..Len(v) : Buffer(m)[c + j] = v[j]
        BY <2>4, <2>13, <3>2 DEF FieldAt
      <4>2. values = v
        <5> HIDE DEF v
        <5> QED
          BY <3>1, <3>2, <3>3, <4>1
      <4>3. Stored(values) = [Put(v) EXCEPT !.count = 0]
        BY <2>2, <2>11, <2>13, <4>2 DEF Stored
      <4>4. Stored(values) = Behind(0)
        BY <2>10, <4>3
      <4> QED
        BY <2>9, <2>13, <3>2, <4>4
    <3> QED
      BY <2>3, <3>2, <3>3
  <2>14. CASE D[i] = "string" /\ reader.body
    <3>1. Width(m, i) = 1 + Len(v) /\ Len(v) \in Nat /\ v = [j \in 1..Len(v) |-> v[j]]
      BY <2>5, <2>14 DEF Width, IsSequence
    <3>2. Size = Len(v) /\ c = P[i - 1] + 1
      BY <2>1, <2>2, <2>11, <2>14 DEF Size
    <3>3. c + Size = P[i]
      BY <2>3, <3>1, <3>2
    <3>4. ASSUME NEW values, values = [j \in 1..Size |-> Buffer(m)[c + j]]
          PROVE  GoesOn(Stored(values), m, P, c + Size)
      <4>1. \A j \in 1..Len(v) : Buffer(m)[c + j] = v[j]
        BY <2>4, <2>14, <3>2 DEF FieldAt
      <4>2. values = v
        <5> HIDE DEF v
        <5> QED
          BY <3>1, <3>2, <3>4, <4>1
      <4>3. Stored(values) = Put(v)
        BY <2>2, <2>11, <2>14, <4>2 DEF Stored
      <4>4. Stored(values) = Behind(reader.count)
        BY <2>8, <4>3
      <4>5. D[i] # "count"
        BY <2>14
      <4> QED
        BY <2>9, <3>3, <4>4, <4>5
    <3> QED
      BY <2>3, <3>1, <3>2, <3>3, <3>4
  <2>15. CASE D[i] = "string" /\ ~reader.body
    <3>1. Width(m, i) = 1 + Len(v) /\ Len(v) \in Nat
      BY <2>5, <2>15 DEF Width, IsSequence
    <3>2. Size = 1 /\ c = P[i - 1]
      BY <2>1, <2>2, <2>11, <2>15 DEF Size
    <3>3. c + Size <= P[i] /\ c + Size = P[i - 1] + 1
      BY <2>3, <3>1, <3>2
    <3>4. ASSUME NEW values, values = [j \in 1..Size |-> Buffer(m)[c + j]]
          PROVE  GoesOn(Stored(values), m, P, c + Size)
      <4>1. values[1] = Buffer(m)[c + 1]
        BY <3>2, <3>4
      <4>2. values[1] = Len(v)
        BY <2>4, <2>15, <3>2, <4>1 DEF FieldAt
      <4> PICK r : r = Stored(values)
        OBVIOUS
      <4> PICK rd : rd = reader
        OBVIOUS
      <4>3. r = [rd EXCEPT !.body = TRUE, !.len = Len(v)]
        BY <2>2, <2>11, <2>15, <4>2 DEF Stored
      <4>4. rd = [field |-> i, body |-> rd.body, len |-> rd.len, count |-> rd.count,
                  msg |-> [id |-> m.id, data |-> [j \in 1..(i - 1) |-> m.data[j]]]]
        BY <2>6
      <4>5. r = [field |-> i, body |-> TRUE, len |-> Len(v), count |-> rd.count,
                 msg |-> [id |-> m.id, data |-> [j \in 1..(i - 1) |-> m.data[j]]]]
        <5>1. /\ r.field = i /\ r.body = TRUE /\ r.len = Len(v) /\ r.count = rd.count
              /\ r.msg = [id |-> m.id, data |-> [j \in 1..(i - 1) |-> m.data[j]]]
          BY <4>3, <4>4
        <5>2. r = [field |-> r.field, body |-> r.body, len |-> r.len, count |-> r.count,
                   msg |-> r.msg]
          BY <4>3, <4>4, Zenon
        <5> QED
          BY <5>1, <5>2, Zenon
      <4>6. r.field = i /\ r.body = TRUE /\ r.len = Len(v)
            /\ r.msg = [id |-> m.id, data |-> [j \in 1..(i - 1) |-> m.data[j]]]
        BY <4>5
      <4>7. r.msg.id = m.id
        BY <4>6
      <4>8. ~Complete(r)
        <5>1. i <= Len(D)
          BY <1>1, <2>2
        <5> QED
          BY <1>1, <2>2, <4>6, <4>7, <5>1 DEF Complete
      <4>9. ReaderAt(r, m, P, c + Size)
        <5>1. r = [field |-> i, body |-> r.body, len |-> r.len, count |-> r.count,
                   msg |-> [id |-> m.id, data |-> [j \in 1..(i - 1) |-> m.data[j]]]]
          BY <4>5
        <5>2. D[i] # "var" /\ r.body \in BOOLEAN
          BY <2>15, <4>6
        <5> QED
          BY <2>2, <2>7, <2>15, <3>3, <4>6, <5>1, <5>2, Zenon DEF ReaderAt
      <4> QED
        BY <4>7, <4>8, <4>9 DEF GoesOn
    <3>5. Size \in Nat /\ c + Size <= 1 + MessageSize(m)
      BY <1>1, <2>3, <3>2, <3>3
    <3> QED
      BY <3>4, <3>5
  <2> QED
    <3>1. \/ D[i] \in {"integer", "block", "count"} \/ D[i] = "var"
          \/ (D[i] = "string" /\ reader.body) \/ (D[i] = "string" /\ ~reader.body)
      BY <2>2, <2>7 DEF Types
    <3> HIDE DEF Goal, D
    <3> QED
      BY <2>12, <2>13, <2>14, <2>15, <3>1, Zenon
<1> QED
  BY <1>2, <1>3

-----------------------------------------------------------------------------
(* Every step keeps the invariant.                                         *)

\* Before anything is sent the ciphers are in step.
LEMMA InitInv ==
  ASSUME Init
  PROVE  IInv
<1>1. TypeOK
  <2>1. /\ next \in [Thread -> Nat]
        /\ stage \in [Thread -> {"idle", "begun", "enciphered"}]
        /\ fSendLock \in SUBSET Thread
    BY DEF Init
  <2>2. fSend \in Nat /\ fRecv \in Nat /\ fRecv <= fSend
    BY DEF Init
  <2>3. cut \in BOOLEAN /\ astray \in BOOLEAN
        /\ sender \in {"open", "closed"}
        /\ receiver \in {"open", "failed", "refused"}
    BY Zenon DEF Init
  <2> QED BY <2>1, <2>2, <2>3, Zenon DEF TypeOK
<1>2. CellsTyped /\ MsgTyped
  BY DEF Init, CellsTyped, MsgTyped
<1>3. LockHeld /\ InStep
  BY DEF Init, LockHeld, InStep
<1>4. Len(buf) = 0 /\ Len(wire) = 0 /\ Taken = 0
  BY DEF Init, Taken
<1>5. KeysFollow /\ NotAhead /\ NoGap
  BY <1>4 DEF Init, KeysFollow, NotAhead, NoGap
<1> QED BY <1>1, <1>2, <1>3, <1>5 DEF IInv

\* Positions and lengths are numbers.
LEMMA TakenInNat ==
  ASSUME TypeOK, CellsTyped
  PROVE  /\ Taken \in Nat /\ Len(buf) \in Nat /\ Len(wire) \in Nat
         /\ \A h \in Thread : cBuf[h] \in Seq(Cell) /\ Len(cBuf[h]) \in Nat
BY DEF TypeOK, CellsTyped, Taken

\* A request changes none of it.
LEMMA BeginInv ==
  ASSUME IInv, NEW h \in Thread, Begins(h)
  PROVE  IInv'
<1>1. PICK m \in Sends[h][next[h] + 1] : BeginMsg(h, m)
  BY DEF Begins
<1>2. m \in Message
  <2>1. Sends[h] \in Seq(SUBSET Message)
    BY TablesAssumption
  <2>2. next[h] \in Nat /\ next[h] < Len(Sends[h])
    BY DEF IInv, TypeOK, Begins
  <2>3. next[h] + 1 \in 1..Len(Sends[h])
    BY <2>1, <2>2
  <2>4. Sends[h][next[h] + 1] \in SUBSET Message
    BY <2>1, <2>3
  <2> QED BY <2>4
<1>3. UNCHANGED <<cBuf, fSendLock, fSend, sender, cut, wire, receiver, fRecv,
                  buf, astray>>
  BY <1>1 DEF BeginMsg, receiving
<1>4. TypeOK'
  BY <1>1, <1>3 DEF IInv, TypeOK, BeginMsg
<1>5. CellsTyped' /\ KeysFollow' /\ NotAhead' /\ NoGap' /\ InStep'
  BY <1>3 DEF IInv, CellsTyped, KeysFollow, NotAhead, NoGap, InStep, Taken
<1>6. MsgTyped'
  BY <1>1, <1>2 DEF IInv, TypeOK, MsgTyped, BeginMsg
<1>7. LockHeld'
  BY <1>1, <1>3 DEF IInv, TypeOK, LockHeld, BeginMsg
<1> QED BY <1>4, <1>5, <1>6, <1>7 DEF IInv

\* The cells of a message, enciphered: one behind the other from here.
LEMMA EncipheredCells ==
  ASSUME TypeOK, NEW m \in Message
  PROVE  /\ Enciphered(m) \in Seq(Cell)
         /\ Len(Enciphered(m)) = 1 + MessageSize(m)
         /\ \A i \in 1..Len(Enciphered(m)) : Enciphered(m)[i].key = fSend + i
<1> DEFINE k == 1 + MessageSize(m)
           cells == [i \in 1..k |-> [val |-> Buffer(m)[i], key |-> fSend + i]]
<1>1. k \in Nat /\ fSend \in Nat
  BY SizesKnown DEF TypeOK
<1>2. \A i \in 1..k : Buffer(m)[i] \in Val
  BY DEF Val
<1> HIDE DEF k
<1>3. \A i \in 1..k : [val |-> Buffer(m)[i], key |-> fSend + i] \in Cell
  BY <1>1, <1>2 DEF Cell
<1>4. cells \in [1..k -> Cell]
  BY <1>3
<1>5. cells \in Seq(Cell) /\ Len(cells) = k
  BY <1>1, <1>4
<1>6. \A i \in 1..k : cells[i].key = fSend + i
  OBVIOUS
<1> QED BY <1>5, <1>6 DEF Enciphered, k

\* With the lock a thread takes the next positions.
LEMMA EncryptInv ==
  ASSUME IInv, NEW h \in Thread, Encrypt(h)
  PROVE  IInv'
<1> DEFINE k == 1 + MessageSize(msg[h])
<1>1. msg[h] \in Message
  BY DEF IInv, MsgTyped, Encrypt
<1>2. k \in Nat
  BY <1>1, SizesKnown
<1>3. /\ Enciphered(msg[h]) \in Seq(Cell) /\ Len(Enciphered(msg[h])) = k
      /\ \A i \in 1..k : Enciphered(msg[h])[i].key = fSend + i
  BY <1>1, EncipheredCells DEF IInv
<1>4. /\ stage[h] = "begun" /\ fSendLock = {} /\ fSendLock' = {h}
      /\ cBuf' = [cBuf EXCEPT ![h] = Enciphered(msg[h])] /\ fSend' = fSend + k
      /\ stage' = [stage EXCEPT ![h] = "enciphered"]
      /\ UNCHANGED <<next, msg, sender, cut, wire, receiver, fRecv, buf, astray>>
  <2>1. fSend' = fSend + 1 + MessageSize(msg[h])
    BY DEF Encrypt
  <2>2. fSend \in Nat /\ MessageSize(msg[h]) \in Nat
    BY <1>1, SizesKnown DEF IInv, TypeOK
  <2>3. fSend' = fSend + k
    BY <2>1, <2>2
  <2> HIDE DEF k
  <2> QED BY <2>3 DEF Encrypt, receiving
<1> HIDE DEF k
<1>5. cBuf' \in [Thread -> Seq(Cell)] /\ cBuf'[h] = Enciphered(msg[h])
  BY <1>3, <1>4 DEF IInv, CellsTyped
<1>6. Taken \in Nat /\ Taken' = Taken /\ fSend \in Nat
  BY <1>4, TakenInNat DEF IInv, Taken, TypeOK
<1>7. TypeOK'
  <2>1. fSend' \in Nat /\ fRecv \in Nat /\ fRecv <= fSend'
    BY <1>2, <1>4 DEF IInv, TypeOK
  <2> QED BY <1>4, <2>1 DEF IInv, TypeOK
<1>8. CellsTyped' /\ KeysFollow' /\ InStep'
  BY <1>4, <1>5 DEF IInv, CellsTyped, KeysFollow, InStep
<1>9. MsgTyped'
  BY <1>1, <1>4 DEF IInv, TypeOK, MsgTyped
<1>10. LockHeld'
  BY <1>4 DEF IInv, TypeOK, LockHeld
<1>11. NotAhead'
  <2>1. Taken + k <= fSend + k /\ Taken <= fSend + k
    BY <1>2, <1>6 DEF IInv, NotAhead
  <2> QED BY <1>3, <1>4, <1>5, <1>6, <2>1 DEF NotAhead
<1>12. NoGap'
  <2> SUFFICES ASSUME ~cut, sender = "open"
               PROVE  /\ fSend' = Taken + Len(cBuf'[h])
                      /\ \A i \in 1..Len(cBuf'[h]) : cBuf'[h][i].key = Taken + i
    BY <1>4, <1>6 DEF NoGap
  <2>1. fSend = Taken
    BY <1>4 DEF IInv, NoGap
  <2> QED BY <1>3, <1>4, <1>5, <2>1
<1> QED BY <1>7, <1>8, <1>9, <1>10, <1>11, <1>12 DEF IInv

\* The parts of the invariant that do not look at the wire, when send returns.
LEMMA SentInv ==
  ASSUME IInv, NEW h \in Thread, Sent(h)
  PROVE  /\ fSendLock = {h} /\ fSendLock' = {}
         /\ cBuf' \in [Thread -> Seq(Cell)]
         /\ UNCHANGED <<next, msg, fSend, receiver, fRecv, buf, astray>>
         /\ stage' \in [Thread -> {"idle", "begun", "enciphered"}]
         /\ MsgTyped' /\ LockHeld'
<1>1. h \in fSendLock /\ fSendLock \in SUBSET Thread
  BY DEF IInv, LockHeld, TypeOK, Sent
<1>2. fSendLock = {h} /\ fSendLock' = {}
  BY <1>1 DEF IInv, LockHeld, Sent
<1>3. cBuf' \in [Thread -> Seq(Cell)]
  BY DEF IInv, CellsTyped, Sent
<1>4. UNCHANGED <<next, msg, fSend, receiver, fRecv, buf, astray>>
  BY DEF Sent, receiving
<1>5. stage' = [stage EXCEPT ![h] = "idle"]
  BY DEF Sent
<1>6. stage' \in [Thread -> {"idle", "begun", "enciphered"}] /\ MsgTyped'
  BY <1>4, <1>5 DEF IInv, TypeOK, MsgTyped
<1>7. LockHeld'
  BY <1>2, <1>5 DEF IInv, TypeOK, LockHeld
<1> QED BY <1>2, <1>3, <1>4, <1>6, <1>7

\* send puts a whole message on the wire.
LEMMA WholeInv ==
  ASSUME IInv, NEW h \in Thread, TransmitWhole(h)
  PROVE  IInv'
<1> DEFINE c == cBuf[h]
<1>1. Sent(h) /\ sender = "open" /\ wire' = wire \o c
      /\ UNCHANGED <<sender, cut>>
  BY DEF TransmitWhole
<1>2. /\ fSendLock = {h} /\ fSendLock' = {} /\ cBuf' \in [Thread -> Seq(Cell)]
      /\ UNCHANGED <<next, msg, fSend, receiver, fRecv, buf, astray>>
      /\ stage' \in [Thread -> {"idle", "begun", "enciphered"}]
      /\ MsgTyped' /\ LockHeld'
  BY <1>1, SentInv
<1>3. wire \in Seq(Cell) /\ c \in Seq(Cell) /\ buf \in Seq(Cell)
      /\ fRecv \in Nat /\ fSend \in Nat
  BY DEF IInv, CellsTyped, TypeOK
<1> HIDE DEF c
<1>4. /\ wire' \in Seq(Cell) /\ Len(wire') = Len(wire) + Len(c)
      /\ \A i \in 1..Len(wire) : wire'[i] = wire[i]
      /\ \A i \in (Len(wire) + 1)..(Len(wire) + Len(c)) :
            wire'[i] = c[i - Len(wire)]
  BY <1>1, <1>3, Joined
<1>5. Len(wire) \in Nat /\ Len(c) \in Nat /\ Len(buf) \in Nat
  BY <1>3
<1>6. Taken' = Taken + Len(c) /\ Taken \in Nat
  BY <1>2, <1>3, <1>4, <1>5 DEF Taken
<1>7. TypeOK' /\ CellsTyped' /\ InStep'
  BY <1>1, <1>2, <1>3, <1>4 DEF IInv, TypeOK, CellsTyped, InStep
<1>8. NotAhead'
  <2>1. Taken + Len(c) <= fSend
    BY <1>2 DEF IInv, NotAhead, c
  <2> QED BY <1>2, <1>6, <2>1 DEF NotAhead
<1>9. ASSUME ~cut
      PROVE  /\ fSend = Taken + Len(c)
             /\ \A i \in 1..Len(c) : c[i].key = Taken + i
  BY <1>1, <1>2, <1>9 DEF IInv, NoGap, c
<1>10. NoGap'
  BY <1>1, <1>2, <1>6, <1>9 DEF NoGap
<1>11. KeysFollow'
  <2> SUFFICES ASSUME ~cut, NEW i \in 1..(Len(wire) + Len(c))
               PROVE  wire'[i].key = fRecv + Len(buf) + i
    BY <1>1, <1>2, <1>4 DEF KeysFollow, IInv
  <2>1. CASE i \in 1..Len(wire)
    <3>1. wire[i].key = fRecv + Len(buf) + i
      BY <2>1 DEF IInv, KeysFollow
    <3> QED BY <1>4, <2>1, <3>1
  <2>2. CASE i \in (Len(wire) + 1)..(Len(wire) + Len(c))
    <3>1. i - Len(wire) \in 1..Len(c)
      BY <1>5, <2>2
    <3>2. c[i - Len(wire)].key = Taken + (i - Len(wire))
      BY <1>9, <3>1
    <3>3. Taken + (i - Len(wire)) = fRecv + Len(buf) + i
      BY <1>3, <1>5, <2>2 DEF Taken
    <3> QED BY <1>4, <2>2, <3>2, <3>3
  <2> QED BY <1>5, <2>1, <2>2
<1> QED BY <1>2, <1>7, <1>8, <1>10, <1>11 DEF IInv

\* send is truncated.
LEMMA PartInv ==
  ASSUME IInv, NEW h \in Thread, TransmitPart(h)
  PROVE  IInv'
<1>1. PICK n \in 1..(Len(cBuf[h]) - 1) : wire' = wire \o SubSeq(cBuf[h], 1, n)
  BY DEF TransmitPart
<1> DEFINE c == SubSeq(cBuf[h], 1, n)
<1>2. Sent(h) /\ cut' = TRUE /\ sender' = sender
  BY DEF TransmitPart
<1>3. /\ fSendLock = {h} /\ fSendLock' = {} /\ cBuf' \in [Thread -> Seq(Cell)]
      /\ UNCHANGED <<next, msg, fSend, receiver, fRecv, buf, astray>>
      /\ stage' \in [Thread -> {"idle", "begun", "enciphered"}]
      /\ MsgTyped' /\ LockHeld'
  BY <1>2, SentInv
<1>4. wire \in Seq(Cell) /\ cBuf[h] \in Seq(Cell) /\ buf \in Seq(Cell)
      /\ fRecv \in Nat /\ fSend \in Nat
  BY DEF IInv, CellsTyped, TypeOK
<1>5. Len(wire) \in Nat /\ Len(buf) \in Nat /\ Len(cBuf[h]) \in Nat
  BY <1>4
<1>6. n \in 0..Len(cBuf[h]) /\ n \in Nat
  BY <1>5
<1>7. c \in Seq(Cell) /\ Len(c) = n
  BY <1>4, <1>6, PrefixOf
<1> HIDE DEF c
<1>8. wire' \in Seq(Cell) /\ Len(wire') = Len(wire) + Len(c)
  BY <1>1, <1>4, <1>7, Joined DEF c
<1>9. Taken' = Taken + n /\ Taken \in Nat
  BY <1>3, <1>4, <1>5, <1>6, <1>7, <1>8 DEF Taken
<1>10. NotAhead'
  <2>1. Taken + Len(cBuf[h]) <= fSend
    BY <1>3 DEF IInv, NotAhead
  <2>2. Taken + n <= fSend
    BY <1>4, <1>5, <1>6, <1>9, <2>1
  <2> QED BY <1>3, <1>9, <2>2 DEF NotAhead
<1>11. TypeOK' /\ CellsTyped'
  BY <1>2, <1>3, <1>4, <1>8 DEF IInv, TypeOK, CellsTyped
<1>12. KeysFollow' /\ NoGap' /\ InStep'
  BY <1>2 DEF KeysFollow, NoGap, InStep
<1> QED BY <1>3, <1>10, <1>11, <1>12 DEF IInv

\* send fails.
LEMMA NothingInv ==
  ASSUME IInv, NEW h \in Thread, TransmitNothing(h)
  PROVE  IInv'
<1>1. Sent(h) /\ sender' = "closed" /\ wire' = wire /\ cut' = cut
  BY DEF TransmitNothing
<1>2. /\ fSendLock = {h} /\ fSendLock' = {} /\ cBuf' \in [Thread -> Seq(Cell)]
      /\ UNCHANGED <<next, msg, fSend, receiver, fRecv, buf, astray>>
      /\ stage' \in [Thread -> {"idle", "begun", "enciphered"}]
      /\ MsgTyped' /\ LockHeld'
  BY <1>1, SentInv
<1>3. TypeOK' /\ CellsTyped'
  BY <1>1, <1>2 DEF IInv, TypeOK, CellsTyped
<1>4. KeysFollow' /\ NotAhead' /\ NoGap' /\ InStep'
  BY <1>1, <1>2 DEF IInv, KeysFollow, NotAhead, NoGap, InStep, Taken
<1> QED BY <1>2, <1>3, <1>4 DEF IInv

\* A step of the receiver that moves cells and loses none.
LEMMA SenderInv ==
  ASSUME IInv, UNCHANGED sending, Taken' = Taken
  PROVE  MsgTyped' /\ LockHeld' /\ NotAhead' /\ NoGap'
BY DEF IInv, sending, MsgTyped, LockHeld, NotAhead, NoGap

\* recv gets a part.
LEMMA RecvPartInv ==
  ASSUME IInv, NEW n \in 1..Len(wire), RecvPart(n)
  PROVE  IInv'
<1>1. TypeOK /\ CellsTyped /\ KeysFollow /\ n \in 0..Len(wire)
  BY TakenInNat DEF IInv
<1>2. /\ UNCHANGED <<sending, receiver, fRecv, astray>> /\ buf' = Got(n)
      /\ wire' = SubSeq(wire, n + 1, Len(wire))
  BY DEF RecvPart
<1>3. /\ buf' \in Seq(Cell) /\ Len(buf') = Len(buf) + n
      /\ ~cut => \A i \in 1..Len(buf') : buf'[i].key = fRecv + i
  BY <1>1, <1>2, GotFollows
<1>4. /\ wire' \in Seq(Cell) /\ Len(wire') = Len(wire) - n
      /\ ~cut => \A i \in 1..Len(wire') : wire'[i].key = fRecv + Len(buf) + n + i
  BY <1>1, <1>2, RestFollows
<1>5. Len(buf) \in Nat /\ Len(wire) \in Nat /\ fRecv \in Nat /\ n \in Nat
  BY <1>1 DEF CellsTyped, TypeOK
<1>6. Taken' = Taken
  <2>1. Taken' = fRecv + (Len(buf) + n) + (Len(wire) - n)
    BY <1>2, <1>3, <1>4 DEF Taken
  <2>2. Taken = fRecv + Len(buf) + Len(wire)
    BY DEF Taken
  <2> QED BY <1>5, <2>1, <2>2
<1>7. fRecv + Len(buf') = fRecv + Len(buf) + n
  BY <1>3, <1>5
<1>8. TypeOK' /\ CellsTyped' /\ InStep'
  BY <1>2, <1>3, <1>4 DEF IInv, TypeOK, CellsTyped, InStep, sending
<1>9. KeysFollow'
  BY <1>2, <1>3, <1>4, <1>7 DEF KeysFollow, sending
<1> QED BY <1>2, <1>6, <1>8, <1>9, SenderInv DEF IInv

\* recv gets the rest and deciphers it with the next keys.
LEMMA RecvRestInv ==
  ASSUME IInv, RecvRest
  PROVE  IInv'
<1>1. PICK n \in 0..Len(wire) :
        /\ Len(buf) + n = Size
        /\ wire' = SubSeq(wire, n + 1, Len(wire))
        /\ fRecv' = fRecv + Size /\ buf' = <<>>
        /\ IF Deciphers(Got(n)) THEN Reads(Stored(Values(Got(n))))
           ELSE GoesAstray
  BY DEF RecvRest
<1>2. TypeOK /\ CellsTyped /\ KeysFollow /\ UNCHANGED sending
  BY DEF IInv, RecvRest
<1>3. Len(buf) \in Nat /\ Len(wire) \in Nat /\ fRecv \in Nat /\ n \in Nat
      /\ fRecv' = fRecv + Len(buf) + n
  BY <1>1, <1>2 DEF CellsTyped, TypeOK
<1>4. /\ wire' \in Seq(Cell) /\ Len(wire') = Len(wire) - n
      /\ ~cut => \A i \in 1..Len(wire') : wire'[i].key = fRecv + Len(buf) + n + i
  BY <1>1, <1>2, RestFollows
<1>5. Taken' = Taken
  <2>1. buf' = <<>> /\ Len(buf') = 0
    BY <1>1
  <2> QED BY <1>3, <1>4, <2>1 DEF Taken
<1>6. ~cut => Deciphers(Got(n))
  BY <1>2, GotFollows DEF Deciphers
<1>7. receiver' \in {"open", "failed", "refused"} /\ astray' \in BOOLEAN
  <2>1. CASE Deciphers(Got(n))
    BY <1>1, <1>2, <2>1 DEF Reads, TypeOK
  <2>2. CASE ~Deciphers(Got(n))
    BY <1>1, <1>2, <2>2 DEF GoesAstray, TypeOK
  <2> QED BY <2>1, <2>2
<1>8. InStep'
  <2>1. CASE cut
    BY <1>2, <2>1 DEF InStep, sending
  <2>2. CASE ~cut
    <3>1. ~astray /\ astray' = astray
      BY <1>1, <1>6, <2>2 DEF Reads, RecvRest
    <3> QED BY <3>1 DEF InStep
  <2> QED BY <2>1, <2>2
<1>9. MsgTyped' /\ LockHeld' /\ NotAhead' /\ NoGap'
  BY <1>2, <1>5, SenderInv
<1>10. CellsTyped'
  BY <1>1, <1>2, <1>4 DEF CellsTyped, sending
<1>11. KeysFollow'
  <2>1. Len(buf') = 0 /\ fRecv' + Len(buf') = fRecv + Len(buf) + n
    BY <1>1, <1>3
  <2> QED BY <1>2, <1>4, <2>1 DEF KeysFollow, sending
<1>12. TypeOK'
  <2>1. fRecv' \in Nat /\ fRecv' <= fSend
    <3>1. Taken <= fSend /\ Taken = fRecv + Len(buf) + Len(wire)
      BY DEF IInv, NotAhead, Taken
    <3>2. fSend \in Nat /\ n <= Len(wire)
      BY <1>2 DEF TypeOK
    <3> QED BY <1>3, <3>1, <3>2
  <2> QED BY <1>2, <1>7, <2>1 DEF TypeOK, sending
<1> QED BY <1>8, <1>9, <1>10, <1>11, <1>12 DEF IInv

\* recv fails.
LEMMA RecvFailsInv ==
  ASSUME IInv, RecvFails
  PROVE  IInv'
<1>1. UNCHANGED <<sending, wire, fRecv, buf>>
      /\ receiver' = "failed" /\ astray' = TRUE
  BY DEF RecvFails
<1>2. Taken' = Taken
  BY <1>1 DEF Taken
<1>3. TypeOK' /\ CellsTyped' /\ KeysFollow' /\ InStep'
  BY <1>1 DEF IInv, TypeOK, CellsTyped, KeysFollow, InStep, sending
<1> QED BY <1>1, <1>2, <1>3, SenderInv DEF IInv

\* Nothing happens.
LEMMA StutterInv ==
  ASSUME IInv, UNCHANGED vars
  PROVE  IInv'
<1>1. UNCHANGED <<sending, wire, receiver, fRecv, buf, astray>>
  BY DEF vars, receiving
<1>2. Taken' = Taken
  BY <1>1 DEF Taken
<1>3. TypeOK' /\ CellsTyped' /\ KeysFollow' /\ InStep'
  BY <1>1 DEF IInv, TypeOK, CellsTyped, KeysFollow, InStep, sending
<1> QED BY <1>1, <1>2, <1>3, SenderInv DEF IInv

\* Every step keeps the ciphers in step.
LEMMA NextInv ==
  ASSUME IInv, [Next]_vars
  PROVE  IInv'
<1>1. CASE Next
  <2>1. ASSUME NEW h \in Thread, Begins(h) PROVE IInv'
    BY <2>1, BeginInv
  <2>2. ASSUME NEW h \in Thread, Encrypt(h) PROVE IInv'
    BY <2>2, EncryptInv
  <2>3. ASSUME NEW h \in Thread, Transmits(h) PROVE IInv'
    BY <2>3, WholeInv, PartInv, NothingInv DEF Transmits
  <2>4. CASE RecvRest
    BY <2>4, RecvRestInv
  <2>5. ASSUME NEW n \in 1..Len(wire), RecvPart(n) PROVE IInv'
    BY <2>5, RecvPartInv
  <2>6. CASE RecvFails
    BY <2>6, RecvFailsInv
  <2> QED BY <1>1, <2>1, <2>2, <2>3, <2>4, <2>5, <2>6 DEF Next, Receives
<1>2. CASE UNCHANGED vars
  BY <1>2, StutterInv
<1> QED BY <1>1, <1>2

-----------------------------------------------------------------------------

\* In every run of the two ends the variables have their types, and the
\* receiver's cipher is never ahead of the sender's (pnRC4Socket).
THEOREM TypeCorrect == Spec => []TypeOK
<1>1. Init => IInv
  BY InitInv
<1>2. IInv /\ [Next]_vars => IInv'
  BY NextInv
<1>3. IInv => TypeOK
  BY DEF IInv
<1> QED BY <1>1, <1>2, <1>3, PTL DEF Spec

\* The receiver deciphers every cell with the key it was enciphered with unless
\* a send was truncated or a recv failed, for any number of threads that send.
THEOREM CiphersInStep == Spec => []InStep
<1>1. Init => IInv
  BY InitInv
<1>2. IInv /\ [Next]_vars => IInv'
  BY NextInv
<1>3. IInv => InStep
  BY DEF IInv
<1> QED BY <1>1, <1>2, <1>3, PTL DEF Spec

-----------------------------------------------------------------------------
(* The messages in the order of the wire: where each of them lies among the   *)
(* positions of the ciphers, and how far the reader is.                       *)

\* all: the messages sent, and behind them the one whose send was truncated.
\* E[n]: the position of the last cell of message n.
Placed(all, E) ==
  /\ all \in Seq(Message) /\ E \in [Nat -> Nat] /\ E[0] = 0
  /\ \A n \in 1..Len(all) : E[n] = E[n - 1] + (1 + MessageSize(all[n]))
  /\ \A n \in Nat : n < Len(all) => E[n] < E[Len(all)]

\* A cell of one of these positions has the value that the message has there.
Carries(x, all, E) ==
  \A n \in 1..Len(all) :
    E[n - 1] < x.key /\ x.key <= E[n] => x.val = Buffer(all[n])[x.key - E[n - 1]]

\* The cells that have been put on the wire and not been deciphered yet.
InTransit ==
  {buf[i] : i \in 1..Len(buf)} \union {wire[i] : i \in 1..Len(wire)}

\* Of the message that was truncated the last cell is missing.
CellsRight(all, E) ==
  \A x \in InTransit :
    /\ Carries(x, all, E)
    /\ cut => x.key # E[Len(all)]
    /\ ~cut => x.key <= E[Len(all)]

Covers(all) ==
  /\ ~cut => all = sent
  /\ cut => /\ Len(all) = Len(sent) + 1
            /\ \A n \in 1..Len(sent) : all[n] = sent[n]

\* What is enciphered later comes behind a message that was truncated.
BehindAll(all, E) ==
  /\ ~cut => Taken = E[Len(all)]
  /\ cut => /\ E[Len(all)] <= fSend
            /\ \A h \in fSendLock : \A i \in 1..Len(cBuf[h]) :
                 E[Len(all)] < cBuf[h][i].key

\* The reader is in the message behind those that were handled.
ReaderIn(all, E) ==
  receiver = "open" /\ ~astray =>
    /\ Len(handled) <= Len(all)
    /\ cut => fRecv < E[Len(all)]
    /\ \/ reader = Start /\ fRecv = E[Len(handled)]
       \/ /\ Len(handled) < Len(all)
          /\ \E c \in Nat : \E P :
               /\ LaidOut(all[Len(handled) + 1], P)
               /\ ReaderAt(reader, all[Len(handled) + 1], P, c)
               /\ fRecv = E[Len(handled)] + c

\* The holder of the lock has enciphered its whole message.
WholeMessage ==
  \A h \in fSendLock :
    /\ Len(cBuf[h]) = 1 + MessageSize(msg[h])
    /\ \A i \in 1..Len(cBuf[h]) : cBuf[h][i].val = Buffer(msg[h])[i]

Ordered(all, E) ==
  /\ Placed(all, E) /\ CellsRight(all, E) /\ Covers(all)
  /\ BehindAll(all, E) /\ ReaderIn(all, E)

QInv ==
  /\ sent \in Seq(Message) /\ handled \in Seq(Message) /\ WholeMessage
  /\ \E all, E : Ordered(all, E)

\* all2 and E2: one more message behind the others.
Longer(all, E, m, all2, E2) ==
  /\ all2 \in Seq(Message) /\ Len(all2) = Len(all) + 1 /\ all2[Len(all) + 1] = m
  /\ E2 \in [Nat -> Nat]
  /\ E2[Len(all) + 1] = E[Len(all)] + (1 + MessageSize(m))
  /\ \A n \in 1..Len(all) : all2[n] = all[n]
  /\ \A n \in 0..Len(all) : E2[n] = E[n]

\* The ends of the messages are numbers, and the last is the greatest.
LEMMA PlacedFacts ==
  ASSUME NEW all, NEW E, Placed(all, E)
  PROVE  /\ Len(all) \in Nat /\ \A n \in 1..Len(all) : all[n] \in Message
         /\ \A n \in Nat : E[n] \in Nat
         /\ \A n \in 0..Len(all) : E[n] <= E[Len(all)]
         /\ \A n \in 0..Len(all) : n < Len(all) => E[n] < E[Len(all)]
<1>1. all \in Seq(Message)
  BY DEF Placed
<1>2. E \in [Nat -> Nat]
  BY DEF Placed
<1>3. \A n \in Nat : n < Len(all) => E[n] < E[Len(all)]
  BY DEF Placed
<1>4. Len(all) \in Nat /\ \A n \in 1..Len(all) : all[n] \in Message
  BY <1>1
<1>5. \A n \in Nat : E[n] \in Nat
  BY <1>2
<1> HIDE DEF Placed
<1> PICK k \in Nat : k = Len(all)
  BY <1>4
<1>6. ASSUME NEW n \in 0..k PROVE E[n] <= E[k] /\ (n < k => E[n] < E[k])
  <2>1. n \in Nat /\ (n = k \/ n < k) /\ E[n] \in Nat /\ E[k] \in Nat
    BY <1>5
  <2>2. n < k => E[n] < E[k]
    BY <1>3, <2>1
  <2> QED
    BY <2>1, <2>2
<1> QED
  BY <1>4, <1>5, <1>6

\* A function with one more value given.
GivenNext(E, k, v, F) ==
  F \in [Nat -> Nat] /\ F[k + 1] = v /\ \A n \in 0..k : F[n] = E[n]

\* There is one.
LEMMA FunctionChanged ==
  ASSUME NEW E \in [Nat -> Nat], NEW k \in Nat, NEW v \in Nat
  PROVE  \E F : GivenNext(E, k, v, F)
<1> DEFINE F == [n \in Nat |-> IF n = k + 1 THEN v ELSE E[n]]
<1>1. F \in [Nat -> Nat]
  OBVIOUS
<1>2. k + 1 \in Nat /\ \A n \in 0..k : n \in Nat /\ n # k + 1
  OBVIOUS
<1>3. F[k + 1] = v /\ \A n \in 0..k : F[n] = E[n]
  BY <1>2
<1>4. GivenNext(E, k, v, F)
  BY <1>1, <1>3, Zenon DEF GivenNext
<1> QED
  BY <1>4

\* There is a place for one more message ...
LEMMA LongerExists ==
  ASSUME NEW all, NEW E, Placed(all, E), NEW m \in Message
  PROVE  \E E2 : Longer(all, E, m, Append(all, m), E2)
<1>1. all \in Seq(Message) /\ E \in [Nat -> Nat]
  BY DEF Placed
<1>2. Len(all) \in Nat /\ E[Len(all)] \in Nat /\ MessageSize(m) \in Nat
  BY <1>1, SizesKnown
<1> PICK k \in Nat : k = Len(all)
  BY <1>2
<1> PICK v \in Nat : v = E[k] + (1 + MessageSize(m))
  BY <1>2
<1> PICK F : GivenNext(E, k, v, F)
  BY <1>1, FunctionChanged
<1>3. F \in [Nat -> Nat] /\ F[k + 1] = v /\ \A n \in 0..k : F[n] = E[n]
  BY DEF GivenNext
<1>4. /\ Append(all, m) \in Seq(Message) /\ Len(Append(all, m)) = Len(all) + 1
      /\ \A i \in 1..Len(all) : Append(all, m)[i] = all[i]
      /\ Append(all, m)[Len(all) + 1] = m
  BY <1>1, AppendOf
<1> QED
  BY <1>3, <1>4 DEF Longer

\* What is not behind b is in front of any message behind b.
LEMMA LessBehind ==
  ASSUME NEW a \in Nat, NEW b \in Nat, NEW c \in Nat, a <= b
  PROVE  a < b + (1 + c)
OBVIOUS

\* ... behind the others.
LEMMA LongerPlaced ==
  ASSUME NEW all, NEW E, Placed(all, E), NEW m \in Message, NEW all2, NEW E2,
         Longer(all, E, m, all2, E2)
  PROVE  Placed(all2, E2)
<1> PICK k \in Nat : k = Len(all)
  BY PlacedFacts
<1>1. /\ all2 \in Seq(Message) /\ Len(all2) = k + 1 /\ all2[k + 1] = m
      /\ E2 \in [Nat -> Nat]
      /\ E2[k + 1] = E[k] + (1 + MessageSize(m))
      /\ \A n \in 1..k : all2[n] = all[n]
      /\ \A n \in 0..k : E2[n] = E[n]
  BY DEF Longer
<1>2. /\ \A n \in Nat : E[n] \in Nat
      /\ \A n \in 0..k : E[n] <= E[k]
      /\ MessageSize(m) \in Nat
  BY PlacedFacts, SizesKnown
<1>3. E[0] = 0 /\ \A n \in 1..k : E[n] = E[n - 1] + (1 + MessageSize(all[n]))
  BY DEF Placed
<1>4. ASSUME NEW n \in 1..(k + 1)
      PROVE  E2[n] = E2[n - 1] + (1 + MessageSize(all2[n]))
  <2>1. CASE n = k + 1
    <3>1. n - 1 = k /\ k \in 0..k
      BY <2>1
    <3> QED
      BY <1>1, <2>1, <3>1
  <2>2. CASE n # k + 1
    <3>1. n \in 1..k /\ n \in 0..k /\ n - 1 \in 0..k
      BY <2>2
    <3>2. E2[n] = E[n] /\ E2[n - 1] = E[n - 1] /\ all2[n] = all[n]
      BY <1>1, <3>1
    <3>3. E[n] = E[n - 1] + (1 + MessageSize(all[n]))
      BY <1>3, <3>1
    <3> QED
      BY <3>2, <3>3
  <2> QED
    BY <2>1, <2>2
<1>5. ASSUME NEW n \in Nat, n < k + 1 PROVE E2[n] < E2[k + 1]
  <2>1. n \in 0..k
    BY <1>5
  <2>2. E2[n] = E[n] /\ E[n] <= E[k] /\ E[n] \in Nat /\ E[k] \in Nat
    BY <1>1, <1>2, <2>1
  <2>3. E[n] < E[k] + (1 + MessageSize(m))
    BY <1>2, <2>2, LessBehind, Zenon
  <2> QED
    BY <1>1, <2>2, <2>3
<1>6. E2[0] = 0
  <2>1. 0 \in 0..k
    OBVIOUS
  <2> QED
    BY <1>1, <1>3, <2>1
<1> QED
  BY <1>1, <1>4, <1>5, <1>6 DEF Placed

\* The cells of the messages before it keep their places ...
LEMMA CarriesStill ==
  ASSUME NEW all, NEW E, Placed(all, E), NEW m \in Message, NEW all2, NEW E2,
         Longer(all, E, m, all2, E2), NEW x \in Cell,
         Carries(x, all, E), x.key <= E[Len(all)]
  PROVE  Carries(x, all2, E2)
<1> PICK k \in Nat : k = Len(all)
  BY PlacedFacts
<1>1. /\ Len(all2) = k + 1 /\ \A n \in 1..k : all2[n] = all[n]
      /\ \A n \in 0..k : E2[n] = E[n]
  BY DEF Longer
<1>2. x.key \in Nat /\ E[k] \in Nat
  BY PlacedFacts DEF Cell
<1> SUFFICES ASSUME NEW n \in 1..(k + 1), E2[n - 1] < x.key, x.key <= E2[n]
             PROVE  x.val = Buffer(all2[n])[x.key - E2[n - 1]]
  BY <1>1 DEF Carries
<1>3. CASE n = k + 1
  <2>1. n - 1 = k /\ k \in 0..k
    BY <1>3
  <2>2. E[k] < x.key
    BY <1>1, <2>1
  <2> QED
    BY <1>2, <2>2
<1>4. CASE n # k + 1
  <2>1. n \in 1..k /\ n \in 0..k /\ n - 1 \in 0..k
    BY <1>4
  <2>2. E2[n] = E[n] /\ E2[n - 1] = E[n - 1] /\ all2[n] = all[n]
    BY <1>1, <2>1
  <2> QED
    BY <2>1, <2>2 DEF Carries
<1> QED
  BY <1>3, <1>4

\* ... and its own cells have theirs.
LEMMA CarriesOwn ==
  ASSUME NEW all, NEW E, Placed(all, E), NEW m \in Message, NEW all2, NEW E2,
         Longer(all, E, m, all2, E2), NEW x \in Cell, NEW i \in Nat, i > 0,
         x.key = E[Len(all)] + i, x.val = Buffer(m)[i]
  PROVE  Carries(x, all2, E2)
<1> PICK k \in Nat : k = Len(all)
  BY PlacedFacts
<1>1. /\ Len(all2) = k + 1 /\ all2[k + 1] = m /\ \A n \in 0..k : E2[n] = E[n]
  BY DEF Longer
<1>2. x.key \in Nat /\ E[k] \in Nat /\ \A n \in 0..k : E[n] <= E[k]
  BY PlacedFacts DEF Cell
<1> SUFFICES ASSUME NEW n \in 1..(k + 1), E2[n - 1] < x.key, x.key <= E2[n]
             PROVE  x.val = Buffer(all2[n])[x.key - E2[n - 1]]
  BY <1>1 DEF Carries
<1>3. CASE n = k + 1
  <2>1. n - 1 = k /\ k \in 0..k
    BY <1>3
  <2>2. E2[n - 1] = E[k] /\ all2[n] = m
    BY <1>1, <1>3, <2>1
  <2>3. x.key - E[k] = i
    BY <1>2
  <2> QED
    BY <2>2, <2>3
<1>4. CASE n # k + 1
  <2>1. n \in 0..k
    BY <1>4
  <2>2. E2[n] = E[n] /\ E[n] <= E[k] /\ E[n] \in Nat
    BY <1>1, <1>2, <2>1, PlacedFacts
  <2> QED
    BY <1>2, <2>2
<1> QED
  BY <1>3, <1>4

\* A cell behind all of them carries nothing of theirs.
LEMMA CarriesNone ==
  ASSUME NEW all, NEW E, Placed(all, E), NEW x \in Cell, E[Len(all)] < x.key
  PROVE  Carries(x, all, E)
<1> PICK k \in Nat : k = Len(all)
  BY PlacedFacts
<1>1. x.key \in Nat /\ E[k] \in Nat
  BY PlacedFacts DEF Cell
<1>2. ASSUME NEW n \in 1..k PROVE ~(x.key <= E[n])
  <2>1. n \in 0..k
    OBVIOUS
  <2>2. E[n] <= E[k] /\ E[n] \in Nat
    BY <2>1, PlacedFacts
  <2> QED
    BY <1>1, <2>2
<1> QED
  BY <1>2 DEF Carries

\* Before anything is sent no message is in transit.
LEMMA QInit ==
  ASSUME Init
  PROVE  QInv
<1> DEFINE E == [n \in Nat |-> 0]
<1>1. sent = <<>> /\ handled = <<>> /\ buf = <<>> /\ wire = <<>> /\ fSendLock = {}
      /\ reader = Start /\ fRecv = 0 /\ cut = FALSE
  BY DEF Init
<1>2. sent \in Seq(Message) /\ handled \in Seq(Message) /\ WholeMessage
  BY <1>1 DEF WholeMessage
<1>3. Len(<<>>) = 0 /\ E[0] = 0 /\ E \in [Nat -> Nat]
  OBVIOUS
<1> HIDE DEF E
<1>4. Placed(<<>>, E)
  BY <1>3 DEF Placed
<1>5. InTransit = {}
  BY <1>1 DEF InTransit
<1>6. CellsRight(<<>>, E) /\ Covers(<<>>)
  BY <1>1, <1>5 DEF CellsRight, Covers
<1>7. BehindAll(<<>>, E)
  BY <1>1, <1>3 DEF BehindAll, Taken
<1>8. ReaderIn(<<>>, E)
  BY <1>1, <1>3 DEF ReaderIn
<1> QED
  BY <1>2, <1>4, <1>6, <1>7, <1>8 DEF QInv, Ordered

\* The cells in transit are cells.
LEMMA InTransitTyped ==
  ASSUME CellsTyped
  PROVE  InTransit \subseteq Cell
<1>1. buf \in Seq(Cell) /\ wire \in Seq(Cell)
  BY DEF CellsTyped
<1> QED
  BY <1>1 DEF InTransit

\* Nothing happens.
LEMMA QStutter ==
  ASSUME QInv, UNCHANGED vars
  PROVE  QInv'
<1>1. UNCHANGED <<msg, cBuf, fSendLock, fSend, cut, sent, wire, receiver, fRecv,
                  reader, buf, astray, handled>>
  BY DEF vars, sending, receiving
<1>2. PICK all, E : Ordered(all, E)
  BY DEF QInv
<1>3. InTransit' = InTransit /\ Taken' = Taken
  BY <1>1 DEF InTransit, Taken
<1>4. Ordered(all, E)'
  BY <1>1, <1>2, <1>3 DEF Ordered, CellsRight, Covers, BehindAll, ReaderIn
<1>5. sent' \in Seq(Message) /\ handled' \in Seq(Message) /\ WholeMessage'
  BY <1>1 DEF QInv, WholeMessage
<1> QED
  BY <1>4, <1>5 DEF QInv

\* A request takes nobody else's message away.
LEMMA QBegins ==
  ASSUME IInv, QInv, NEW h \in Thread, Begins(h)
  PROVE  QInv' /\ UNCHANGED <<sent, handled, cut, sender>>
<1>1. PICK m : BeginMsg(h, m)
  BY DEF Begins
<1>2. /\ stage[h] = "idle" /\ msg' = [msg EXCEPT ![h] = m]
      /\ UNCHANGED <<cBuf, fSendLock, fSend, cut, sender, sent, wire, receiver, fRecv,
                     reader, buf, astray, handled>>
  BY <1>1 DEF BeginMsg, receiving
<1>3. PICK all, E : Ordered(all, E)
  BY DEF QInv
<1>4. InTransit' = InTransit /\ Taken' = Taken
  BY <1>2 DEF InTransit, Taken
<1>5. Ordered(all, E)'
  BY <1>2, <1>3, <1>4 DEF Ordered, CellsRight, Covers, BehindAll, ReaderIn
<1>6. WholeMessage'
  <2> SUFFICES ASSUME NEW g \in fSendLock PROVE msg'[g] = msg[g]
    BY <1>2 DEF QInv, WholeMessage
  <2>1. g \in Thread /\ stage[g] = "enciphered"
    BY DEF IInv, TypeOK, LockHeld
  <2>2. msg \in [Thread -> Message \union {NoMsg}]
    BY DEF IInv, MsgTyped
  <2> QED
    BY <1>2, <2>1, <2>2
<1> QED
  BY <1>2, <1>5, <1>6 DEF QInv

\* The message is enciphered as it is in its buffer.
LEMMA QEncrypt ==
  ASSUME IInv, QInv, NEW h \in Thread, Encrypt(h)
  PROVE  QInv' /\ UNCHANGED <<sent, handled, cut, sender>>
<1>1. /\ stage[h] = "begun" /\ fSendLock = {} /\ fSendLock' = {h}
      /\ cBuf' = [cBuf EXCEPT ![h] = Enciphered(msg[h])]
      /\ fSend' = fSend + 1 + MessageSize(msg[h])
      /\ UNCHANGED <<msg, cut, sender, sent, wire, receiver, fRecv, reader, buf,
                     astray, handled>>
  BY DEF Encrypt, receiving
<1>2. msg[h] \in Message
  BY <1>1 DEF IInv, MsgTyped
<1>3. PICK all, E : Ordered(all, E)
  BY DEF QInv
<1>4. InTransit' = InTransit /\ Taken' = Taken
  BY <1>1 DEF InTransit, Taken
<1>5. CellsRight(all, E)' /\ Covers(all)' /\ ReaderIn(all, E)' /\ Placed(all, E)
  BY <1>1, <1>3, <1>4 DEF Ordered, CellsRight, Covers, ReaderIn
<1> PICK m \in Message : m = msg[h]
  BY <1>2
<1>6. /\ cBuf'[h] = Enciphered(m) /\ Len(Enciphered(m)) = 1 + MessageSize(m)
      /\ \A i \in 1..Len(Enciphered(m)) : Enciphered(m)[i].key = fSend + i
  <2>1. cBuf'[h] = Enciphered(m)
    BY <1>1 DEF IInv, CellsTyped
  <2> QED
    BY <2>1, EncipheredCells DEF IInv
<1>7. \A i \in 1..(1 + MessageSize(m)) : Enciphered(m)[i].val = Buffer(m)[i]
  BY DEF Enciphered
<1>8. WholeMessage'
  BY <1>1, <1>6, <1>7 DEF WholeMessage
<1>9. BehindAll(all, E)'
  <2>1. ASSUME cut, NEW i \in 1..(1 + MessageSize(m))
        PROVE  E[Len(all)] < fSend + i
    <3>1. E[Len(all)] <= fSend /\ E[Len(all)] \in Nat /\ fSend \in Nat
      BY <1>3, <2>1, PlacedFacts DEF Ordered, BehindAll, IInv, TypeOK
    <3> QED
      BY <3>1
  <2>2. ASSUME cut PROVE E[Len(all)] <= fSend'
    <3>1. E[Len(all)] <= fSend /\ E[Len(all)] \in Nat /\ fSend \in Nat
      BY <1>3, <2>2, PlacedFacts DEF Ordered, BehindAll, IInv, TypeOK
    <3> QED
      BY <1>1, <3>1, SizesKnown
  <2>3. ~cut => Taken = E[Len(all)]
    BY <1>3 DEF Ordered, BehindAll
  <2>4. cut' = cut /\ fSendLock' = {h}
    BY <1>1
  <2> QED
    BY <1>4, <1>6, <2>1, <2>2, <2>3, <2>4 DEF BehindAll
<1>10. Ordered(all, E)'
  BY <1>5, <1>9 DEF Ordered
<1> QED
  BY <1>1, <1>8, <1>10 DEF QInv

\* What send does with the lock when it returns.
LEMMA QSent ==
  ASSUME IInv, QInv, NEW h \in Thread, Sent(h)
  PROVE  /\ fSendLock = {h} /\ fSendLock' = {} /\ WholeMessage' /\ msg[h] \in Message
         /\ UNCHANGED <<fSend, receiver, fRecv, reader, buf, astray, handled>>
         /\ cBuf[h] \in Seq(Cell) /\ Len(cBuf[h]) = 1 + MessageSize(msg[h])
         /\ \A i \in 1..Len(cBuf[h]) : cBuf[h][i].val = Buffer(msg[h])[i]
<1>1. fSendLock = {h} /\ fSendLock' = {}
  BY SentInv
<1>2. UNCHANGED <<fSend, receiver, fRecv, reader, buf, astray, handled>>
  BY DEF Sent, receiving
<1>3. WholeMessage'
  BY <1>1 DEF WholeMessage
<1>4. stage[h] = "enciphered"
  BY DEF Sent
<1>5. msg[h] \in Message /\ cBuf[h] \in Seq(Cell)
  BY <1>4 DEF IInv, MsgTyped, CellsTyped
<1> QED
  BY <1>1, <1>2, <1>3, <1>5 DEF QInv, WholeMessage

ElementsOf(s) == {s[i] : i \in 1..Len(s)}

\* The elements of two sequences that are joined.
LEMMA ElementsJoined ==
  ASSUME NEW s \in Seq(Cell), NEW c \in Seq(Cell), NEW w, w = s \o c
  PROVE  /\ Len(w) = Len(s) + Len(c)
         /\ ElementsOf(w) = ElementsOf(s) \union ElementsOf(c)
<1>1. Len(s) \in Nat /\ Len(c) \in Nat
  OBVIOUS
<1>2. /\ Len(w) = Len(s) + Len(c)
      /\ \A i \in 1..Len(s) : w[i] = s[i]
      /\ \A i \in 1..Len(c) : w[Len(s) + i] = c[i]
      /\ \A i \in (Len(s) + 1)..(Len(s) + Len(c)) : w[i] = c[i - Len(s)]
  <2>1. Len(w) = Len(s) + Len(c)
    OBVIOUS
  <2>2. \A i \in 1..Len(s) : w[i] = s[i]
    OBVIOUS
  <2>3. \A i \in 1..Len(c) : w[Len(s) + i] = c[i]
    OBVIOUS
  <2>4. \A i \in (Len(s) + 1)..(Len(s) + Len(c)) : w[i] = c[i - Len(s)]
    OBVIOUS
  <2> QED
    BY <2>1, <2>2, <2>3, <2>4, Zenon
<1>3. ASSUME NEW i \in 1..Len(w)
      PROVE  \/ \E j \in 1..Len(s) : w[i] = s[j]
             \/ \E j \in 1..Len(c) : w[i] = c[j]
  <2>1. CASE i \in 1..Len(s)
    BY <1>2, <2>1
  <2>2. CASE i \in (Len(s) + 1)..(Len(s) + Len(c))
    <3>1. i - Len(s) \in 1..Len(c)
      BY <1>1, <2>2
    <3> QED
      BY <1>2, <2>2, <3>1
  <2> QED
    BY <1>1, <1>2, <2>1, <2>2
<1>4. /\ \A j \in 1..Len(s) : j \in 1..Len(w)
      /\ \A j \in 1..Len(c) : Len(s) + j \in 1..Len(w)
  BY <1>1, <1>2
<1>5. {w[i] : i \in 1..Len(w)} \subseteq {s[i] : i \in 1..Len(s)} \union {c[i] : i \in 1..Len(c)}
  BY <1>3, Zenon
<1>6. \A j \in 1..Len(s) : s[j] \in {w[i] : i \in 1..Len(w)}
  BY <1>2, <1>4
<1>7. \A j \in 1..Len(c) : c[j] \in {w[i] : i \in 1..Len(w)}
  BY <1>2, <1>4
<1>8. {s[i] : i \in 1..Len(s)} \union {c[i] : i \in 1..Len(c)} \subseteq {w[i] : i \in 1..Len(w)}
  BY <1>6, <1>7, Zenon
<1> QED
  BY <1>2, <1>5, <1>8, Zenon DEF ElementsOf

\* Cells more on the wire.
LEMMA TransitGrows ==
  ASSUME CellsTyped, TypeOK, NEW c \in Seq(Cell), wire' = wire \o c, buf' = buf,
         fRecv' = fRecv
  PROVE  /\ InTransit' = InTransit \union {c[i] : i \in 1..Len(c)}
         /\ Taken' = Taken + Len(c)
<1>1. wire \in Seq(Cell) /\ Len(wire) \in Nat /\ Len(c) \in Nat /\ Len(buf) \in Nat
      /\ fRecv \in Nat
  BY DEF CellsTyped, TypeOK
<1> PICK w : w = wire \o c
  OBVIOUS
<1>2. /\ Len(w) = Len(wire) + Len(c)
      /\ ElementsOf(w) = ElementsOf(wire) \union ElementsOf(c)
  BY <1>1, ElementsJoined
<1>3. InTransit' = {buf[i] : i \in 1..Len(buf)} \union {w[i] : i \in 1..Len(w)}
  BY DEF InTransit
<1>4. InTransit' = InTransit \union {c[i] : i \in 1..Len(c)}
  BY <1>2, <1>3, Zenon DEF InTransit, ElementsOf
<1>5. Taken' = Taken + Len(c)
  <2>1. Taken' = fRecv + Len(buf) + Len(w)
    BY DEF Taken
  <2> QED
    BY <1>1, <1>2, <2>1 DEF Taken
<1> QED
  BY <1>4, <1>5

\* The first n cells of what a thread has enciphered.
Begun(h, c, n) ==
  /\ c \in Seq(Cell) /\ n \in 1..Len(cBuf[h]) /\ Len(c) = n
  /\ \A i \in 1..n : c[i] = cBuf[h][i]

\* all2 and E2: the messages with the one that a send has put behind the others,
\* n of its cells.
Extended(h, n, all2, E2) ==
  /\ all2 = Append(sent, msg[h]) /\ Len(all2) = Len(sent) + 1
  /\ \A i \in 1..Len(sent) : all2[i] = sent[i]
  /\ Placed(all2, E2) /\ ReaderIn(all2, E2)'
  /\ \A x \in InTransit' : Carries(x, all2, E2) /\ x.key <= Taken'
  /\ Taken' + Len(cBuf[h]) = E2[Len(all2)] + n
  /\ fSend' = E2[Len(all2)] /\ Len(cBuf[h]) \in Nat /\ Taken' \in Nat

\* A send that puts its cells, or the first of them, behind all the others.
LEMMA SendExtends ==
  ASSUME IInv, QInv, NEW h \in Thread, Sent(h), ~cut, sender = "open",
         NEW all, NEW E, Ordered(all, E), NEW c, NEW n, Begun(h, c, n),
         wire' = wire \o c
  PROVE  \E all2, E2 : Extended(h, n, all2, E2)
<1>1. /\ fSendLock = {h} /\ msg[h] \in Message
      /\ UNCHANGED <<fSend, receiver, fRecv, reader, buf, astray, handled>>
      /\ cBuf[h] \in Seq(Cell) /\ Len(cBuf[h]) = 1 + MessageSize(msg[h])
      /\ \A i \in 1..Len(cBuf[h]) : cBuf[h][i].val = Buffer(msg[h])[i]
  BY QSent
<1>2. TypeOK /\ CellsTyped
  BY DEF IInv
<1>3. /\ fSend = Taken + Len(cBuf[h]) /\ Taken \in Nat /\ fRecv \in Nat /\ fRecv <= Taken
      /\ \A i \in 1..Len(cBuf[h]) : cBuf[h][i].key = Taken + i
  <2>1. NoGap
    BY DEF IInv
  <2>2. /\ fSend = Taken + Len(cBuf[h])
        /\ \A i \in 1..Len(cBuf[h]) : cBuf[h][i].key = Taken + i
    BY <1>1, <2>1 DEF NoGap
  <2>3. Taken \in Nat /\ Len(buf) \in Nat /\ Len(wire) \in Nat /\ fRecv \in Nat
    BY <1>2, TakenInNat DEF TypeOK
  <2>4. fRecv <= Taken
    BY <2>3 DEF Taken
  <2> QED
    BY <2>2, <2>3, <2>4
<1>4. /\ c \in Seq(Cell) /\ n \in 1..Len(cBuf[h]) /\ Len(c) = n /\ n \in Nat
      /\ \A i \in 1..n : c[i] = cBuf[h][i]
  BY <1>1 DEF Begun
<1>5. /\ InTransit' = InTransit \union {c[i] : i \in 1..n} /\ Taken' = Taken + n
  <2>1. buf' = buf /\ fRecv' = fRecv
    BY <1>1
  <2> QED
    BY <1>2, <1>4, <2>1, TransitGrows
<1>6. all = sent /\ Taken = E[Len(all)] /\ Placed(all, E)
  BY DEF Ordered, Covers, BehindAll
<1> PICK k \in Nat : k = Len(all)
  BY <1>6, PlacedFacts
<1> PICK m \in Message : m = msg[h]
  BY <1>1
<1> PICK all2 : all2 = Append(all, m)
  OBVIOUS
<1>7. PICK E2 : Longer(all, E, m, all2, E2)
  BY <1>6, LongerExists
<1>8. Placed(all2, E2)
  BY <1>6, <1>7, LongerPlaced
<1>9. /\ Len(all2) = k + 1 /\ E2[k + 1] = E[k] + (1 + MessageSize(m))
      /\ \A i \in 1..k : all2[i] = all[i]
      /\ \A i \in 0..k : E2[i] = E[i]
  BY <1>7 DEF Longer
<1>10. E[k] \in Nat /\ MessageSize(m) \in Nat /\ Len(cBuf[h]) = 1 + MessageSize(m)
       /\ Len(cBuf[h]) \in Nat /\ E[k] = Taken
  BY <1>1, <1>6, PlacedFacts, SizesKnown
<1>11. ASSUME NEW x \in InTransit' PROVE Carries(x, all2, E2) /\ x.key <= Taken'
  <2>1. CASE x \in InTransit
    <3>1. x \in Cell /\ x.key \in Nat
      BY <1>2, <2>1, InTransitTyped DEF Cell
    <3>2. Carries(x, all, E) /\ x.key <= E[Len(all)]
      BY <2>1 DEF Ordered, CellsRight
    <3>3. Carries(x, all2, E2)
      BY <1>6, <1>7, <3>1, <3>2, CarriesStill
    <3>4. x.key <= Taken'
      BY <1>3, <1>4, <1>5, <1>10, <3>1, <3>2
    <3> QED
      BY <3>3, <3>4
  <2>2. CASE x \in {c[i] : i \in 1..n}
    <3>1. PICK i \in 1..n : x = c[i]
      BY <2>2
    <3>2. i \in 1..Len(cBuf[h]) /\ i \in Nat /\ i > 0
      BY <1>4
    <3>3. x \in Cell /\ x = cBuf[h][i]
      BY <1>1, <1>4, <3>1, <3>2
    <3>4. x.key = E[Len(all)] + i /\ x.val = Buffer(m)[i]
      BY <1>1, <1>3, <1>10, <3>2, <3>3
    <3>5. Carries(x, all2, E2)
      BY <1>6, <1>7, <3>2, <3>3, <3>4, CarriesOwn
    <3>6. x.key <= Taken'
      BY <1>3, <1>4, <1>5, <1>10, <3>4
    <3> QED
      BY <3>5, <3>6
  <2> QED
    BY <1>5, <2>1, <2>2
<1>12. Taken' + Len(cBuf[h]) = E2[k + 1] + n
  BY <1>3, <1>4, <1>5, <1>9, <1>10
<1>13. fSend' = E2[k + 1]
  BY <1>1, <1>3, <1>9, <1>10
<1>14. ReaderIn(all2, E2)'
  <2> SUFFICES ASSUME receiver = "open", ~astray
               PROVE  /\ Len(handled) <= k + 1
                      /\ fRecv < E2[k + 1]
                      /\ \/ reader = Start /\ fRecv = E2[Len(handled)]
                         \/ /\ Len(handled) < k + 1
                            /\ \E d \in Nat : \E P :
                                 /\ LaidOut(all2[Len(handled) + 1], P)
                                 /\ ReaderAt(reader, all2[Len(handled) + 1], P, d)
                                 /\ fRecv = E2[Len(handled)] + d
    BY <1>1, <1>9 DEF ReaderIn
  <2>1. handled \in Seq(Message)
    BY DEF QInv
  <2>2. /\ Len(handled) <= k
        /\ \/ reader = Start /\ fRecv = E[Len(handled)]
           \/ /\ Len(handled) < k
              /\ \E d \in Nat : \E P :
                   /\ LaidOut(all[Len(handled) + 1], P)
                   /\ ReaderAt(reader, all[Len(handled) + 1], P, d)
                   /\ fRecv = E[Len(handled)] + d
    BY DEF Ordered, ReaderIn
  <2> PICK q \in Nat : q = Len(handled)
    BY <2>1
  <2>3. q \in 0..k /\ E2[q] = E[q] /\ q <= k + 1
    BY <1>9, <2>2
  <2>4. q < k => q < k + 1 /\ all2[q + 1] = all[q + 1]
    BY <1>9
  <2>5. fRecv < E2[k + 1]
    BY <1>3, <1>9, <1>10
  <2> QED
    BY <2>2, <2>3, <2>4, <2>5
<1>15. /\ all2 = Append(sent, msg[h]) /\ Len(all2) = Len(sent) + 1
       /\ \A i \in 1..Len(sent) : all2[i] = sent[i]
  BY <1>6, <1>9
<1>16. /\ Taken' + Len(cBuf[h]) = E2[Len(all2)] + n
       /\ fSend' = E2[Len(all2)] /\ Len(cBuf[h]) \in Nat
  BY <1>9, <1>10, <1>12, <1>13
<1>17. Taken' \in Nat
  BY <1>3, <1>4, <1>5
<1>18. Extended(h, n, all2, E2)
  BY <1>8, <1>11, <1>12, <1>14, <1>15, <1>16, <1>17, Zenon DEF Extended
<1> QED
  BY <1>18

\* Behind a message that was truncated nothing changes for the others.
LEMMA SendBehind ==
  ASSUME IInv, QInv, NEW h \in Thread, Sent(h), cut,
         NEW all, NEW E, Ordered(all, E), NEW c, NEW n, Begun(h, c, n),
         wire' = wire \o c, cut' = cut, sent' = sent
  PROVE  Ordered(all, E)'
<1>1. /\ fSendLock = {h} /\ fSendLock' = {}
      /\ UNCHANGED <<fSend, receiver, fRecv, reader, buf, astray, handled>>
      /\ cBuf[h] \in Seq(Cell)
  BY QSent
<1>2. TypeOK /\ CellsTyped
  BY DEF IInv
<1>3. /\ c \in Seq(Cell) /\ n \in 1..Len(cBuf[h]) /\ Len(c) = n
      /\ \A i \in 1..n : c[i] = cBuf[h][i]
  BY DEF Begun
<1>4. InTransit' = InTransit \union {c[i] : i \in 1..n}
  <2>1. buf' = buf /\ fRecv' = fRecv
    BY <1>1
  <2> QED
    BY <1>2, <1>3, <2>1, TransitGrows
<1>5. Placed(all, E) /\ Covers(all)' /\ ReaderIn(all, E)'
  BY <1>1 DEF Ordered, Covers, ReaderIn
<1>6. BehindAll(all, E)'
  <2>1. E[Len(all)] <= fSend
    BY DEF Ordered, BehindAll
  <2> QED
    BY <1>1, <2>1 DEF BehindAll
<1>7. CellsRight(all, E)'
  <2> SUFFICES ASSUME NEW x \in InTransit'
               PROVE  Carries(x, all, E) /\ x.key # E[Len(all)]
    BY DEF CellsRight
  <2>1. CASE x \in InTransit
    BY <2>1 DEF Ordered, CellsRight
  <2>2. CASE x \in {c[i] : i \in 1..n}
    <3>1. PICK i \in 1..n : x = c[i]
      BY <2>2
    <3>2. i \in 1..Len(cBuf[h]) /\ x = cBuf[h][i] /\ x \in Cell
      BY <1>1, <1>3, <3>1
    <3>3. E[Len(all)] < x.key /\ x.key \in Nat /\ E[Len(all)] \in Nat
      BY <1>1, <1>5, <3>2, PlacedFacts DEF Ordered, BehindAll, Cell
    <3>4. Carries(x, all, E)
      BY <1>5, <3>2, <3>3, CarriesNone
    <3> QED
      BY <3>3, <3>4
  <2> QED
    BY <1>4, <2>1, <2>2
<1> QED
  BY <1>5, <1>6, <1>7 DEF Ordered

\* A whole message goes behind the others, or is lost behind a truncated one.
LEMMA QWhole ==
  ASSUME IInv, QInv, NEW h \in Thread, TransmitWhole(h)
  PROVE  /\ QInv' /\ UNCHANGED <<handled, cut, sender>> /\ sender = "open"
         /\ cut => sent' = sent
         /\ ~cut => \E m \in Message : sent' = Append(sent, m)
<1>1. /\ Sent(h) /\ sender = "open" /\ UNCHANGED <<sender, cut>>
      /\ wire' = wire \o cBuf[h]
      /\ sent' = IF cut THEN sent ELSE Append(sent, msg[h])
  BY DEF TransmitWhole
<1>2. /\ fSendLock' = {} /\ WholeMessage' /\ msg[h] \in Message
      /\ handled' = handled
      /\ cBuf[h] \in Seq(Cell) /\ Len(cBuf[h]) = 1 + MessageSize(msg[h])
  BY <1>1, QSent
<1>3. PICK all, E : Ordered(all, E)
  BY DEF QInv
<1> PICK n : n = Len(cBuf[h])
  OBVIOUS
<1>4. Begun(h, cBuf[h], n) /\ n \in Nat
  BY <1>2, SizesKnown DEF Begun
<1>5. sent \in Seq(Message) /\ handled \in Seq(Message)
  BY DEF QInv
<1>6. sent' \in Seq(Message) /\ handled' \in Seq(Message)
  BY <1>1, <1>2, <1>5
<1>7. CASE cut
  <2>1. Ordered(all, E)'
    BY <1>1, <1>3, <1>4, <1>7, SendBehind
  <2>2. QInv'
    BY <1>2, <1>6, <2>1 DEF QInv
  <2> QED
    BY <1>1, <1>2, <1>7, <2>2
<1>8. CASE ~cut
  <2> PICK all2, E2 : Extended(h, n, all2, E2)
    BY <1>1, <1>3, <1>4, <1>8, SendExtends
  <2>1. /\ all2 = Append(sent, msg[h])
        /\ Placed(all2, E2) /\ ReaderIn(all2, E2)'
        /\ \A x \in InTransit' : Carries(x, all2, E2) /\ x.key <= Taken'
        /\ Taken' + n = E2[Len(all2)] + n /\ Taken' \in Nat
    BY DEF Extended
  <2>2. Taken' = E2[Len(all2)]
    BY <1>4, <2>1, PlacedFacts
  <2>3. CellsRight(all2, E2)'
    BY <1>1, <1>8, <2>1, <2>2 DEF CellsRight
  <2>4. Covers(all2)'
    BY <1>1, <1>8, <2>1 DEF Covers
  <2>5. BehindAll(all2, E2)'
    BY <1>1, <1>8, <2>2 DEF BehindAll
  <2>6. Ordered(all2, E2)'
    BY <2>1, <2>3, <2>4, <2>5 DEF Ordered
  <2>7. QInv'
    BY <1>2, <1>6, <2>6 DEF QInv
  <2> QED
    BY <1>1, <1>2, <1>8, <2>7
<1> QED
  BY <1>7, <1>8

\* A truncated message goes behind the others, without its last cell.
LEMMA QPart ==
  ASSUME IInv, QInv, NEW h \in Thread, TransmitPart(h)
  PROVE  QInv' /\ UNCHANGED <<sent, handled, sender>> /\ cut'
<1>1. PICK n \in 1..(Len(cBuf[h]) - 1) : wire' = wire \o SubSeq(cBuf[h], 1, n)
  BY DEF TransmitPart
<1>2. Sent(h) /\ sender = "open" /\ UNCHANGED <<sender, sent>> /\ cut' = TRUE
  BY DEF TransmitPart
<1>3. /\ fSendLock' = {} /\ WholeMessage' /\ msg[h] \in Message
      /\ handled' = handled /\ receiver' = receiver
      /\ cBuf[h] \in Seq(Cell) /\ Len(cBuf[h]) \in Nat
  BY <1>2, QSent, SizesKnown
<1>4. PICK all, E : Ordered(all, E)
  BY DEF QInv
<1> PICK c : c = SubSeq(cBuf[h], 1, n)
  OBVIOUS
<1>5. Begun(h, c, n) /\ n \in Nat
  <2>1. n \in 0..Len(cBuf[h]) /\ n \in 1..Len(cBuf[h])
    BY <1>3
  <2> QED
    BY <1>3, <2>1, PrefixOf DEF Begun
<1>6. n < Len(cBuf[h])
  BY <1>3
<1>7. sent' \in Seq(Message) /\ handled' \in Seq(Message)
  BY <1>2, <1>3 DEF QInv
<1>8. CASE cut
  <2>1. Ordered(all, E)'
    BY <1>1, <1>2, <1>4, <1>5, <1>8, SendBehind
  <2>2. QInv'
    BY <1>3, <1>7, <2>1 DEF QInv
  <2> QED
    BY <1>2, <1>3, <2>2
<1>9. CASE ~cut
  <2> PICK all2, E2 : Extended(h, n, all2, E2)
    BY <1>1, <1>2, <1>4, <1>5, <1>9, SendExtends
  <2>1. /\ Len(all2) = Len(sent) + 1 /\ \A i \in 1..Len(sent) : all2[i] = sent[i]
        /\ Placed(all2, E2) /\ ReaderIn(all2, E2)'
        /\ \A x \in InTransit' : Carries(x, all2, E2) /\ x.key <= Taken'
        /\ Taken' + Len(cBuf[h]) = E2[Len(all2)] + n
        /\ fSend' = E2[Len(all2)] /\ Taken' \in Nat
    BY DEF Extended
  <2>2. E2[Len(all2)] \in Nat
    BY <2>1, PlacedFacts
  <2>3. Taken' < E2[Len(all2)]
    BY <1>3, <1>5, <1>6, <2>1, <2>2
  <2>4. InTransit' \subseteq Cell
    <3>1. CellsTyped'
      BY PartInv DEF IInv
    <3> QED
      BY <3>1 DEF CellsTyped, InTransit
  <2>5. CellsRight(all2, E2)'
    <3> SUFFICES ASSUME NEW x \in InTransit'
                 PROVE  Carries(x, all2, E2) /\ x.key # E2[Len(all2)]
      BY <1>2 DEF CellsRight
    <3>1. x.key \in Nat
      BY <2>4 DEF Cell
    <3> QED
      BY <2>1, <2>2, <2>3, <3>1
  <2>6. Covers(all2)'
    BY <1>2, <2>1 DEF Covers
  <2>7. BehindAll(all2, E2)'
    BY <1>2, <1>3, <2>1, <2>2 DEF BehindAll
  <2>8. Ordered(all2, E2)'
    BY <2>1, <2>5, <2>6, <2>7 DEF Ordered
  <2>9. QInv'
    BY <1>3, <1>7, <2>8 DEF QInv
  <2> QED
    BY <1>2, <1>3, <2>9
<1> QED
  BY <1>8, <1>9

\* A send that fails puts nothing on the wire.
LEMMA QNothing ==
  ASSUME IInv, QInv, NEW h \in Thread, TransmitNothing(h)
  PROVE  QInv' /\ UNCHANGED <<sent, handled, cut>> /\ sender' = "closed"
<1>1. Sent(h) /\ sender' = "closed" /\ UNCHANGED <<wire, cut, sent>>
  BY DEF TransmitNothing
<1>2. /\ fSendLock' = {} /\ WholeMessage'
      /\ UNCHANGED <<fSend, receiver, fRecv, reader, buf, astray, handled>>
  BY <1>1, QSent
<1>3. PICK all, E : Ordered(all, E)
  BY DEF QInv
<1>4. InTransit' = InTransit /\ Taken' = Taken
  BY <1>1, <1>2 DEF InTransit, Taken
<1>5. Ordered(all, E)'
  BY <1>1, <1>2, <1>3, <1>4 DEF Ordered, CellsRight, Covers, BehindAll, ReaderIn
<1> QED
  BY <1>1, <1>2, <1>5 DEF QInv

\* Behind a recv that failed nothing is handled any more.
LEMMA QRecvFails ==
  ASSUME IInv, QInv, RecvFails
  PROVE  QInv' /\ UNCHANGED <<sent, handled, cut, sender>>
<1>1. /\ receiver' = "failed" /\ astray' = TRUE
      /\ UNCHANGED <<msg, cBuf, fSendLock, fSend, sender, cut, sent, wire, fRecv,
                     reader, buf, handled>>
  BY DEF RecvFails, sending
<1>2. PICK all, E : Ordered(all, E)
  BY DEF QInv
<1>3. InTransit' = InTransit /\ Taken' = Taken
  BY <1>1 DEF InTransit, Taken
<1>4. Ordered(all, E)'
  BY <1>1, <1>2, <1>3 DEF Ordered, CellsRight, Covers, BehindAll, ReaderIn
<1> QED
  BY <1>1, <1>4 DEF QInv, WholeMessage

\* recv takes n cells from the wire: none is added, and nobody else is concerned.
LEMMA TransitTaken ==
  ASSUME IInv, NEW n \in 0..Len(wire), NEW rest, rest = SubSeq(wire, n + 1, Len(wire))
  PROVE  /\ rest \in Seq(Cell) /\ Len(rest) + n = Len(wire)
         /\ Len(wire) \in Nat /\ Len(buf) \in Nat /\ Len(rest) \in Nat
         /\ Got(n) \in Seq(Cell) /\ Len(Got(n)) = Len(buf) + n
         /\ \A i \in 1..Len(rest) : rest[i] \in InTransit
         /\ \A i \in 1..Len(Got(n)) : Got(n)[i] \in InTransit
<1>1. TypeOK /\ CellsTyped /\ KeysFollow
  BY DEF IInv
<1>2. wire \in Seq(Cell) /\ buf \in Seq(Cell) /\ Len(wire) \in Nat /\ Len(buf) \in Nat
  BY <1>1 DEF CellsTyped
<1>3. /\ rest \in Seq(Cell) /\ Len(rest) = Len(wire) - n
      /\ \A i \in 1..(Len(wire) - n) : rest[i] = wire[n + i]
  BY <1>2, RestOf
<1>4. ASSUME NEW i \in 1..Len(rest) PROVE rest[i] \in InTransit
  <2>1. n + i \in 1..Len(wire) /\ rest[i] = wire[n + i]
    BY <1>2, <1>3
  <2> QED
    BY <2>1 DEF InTransit
<1> PICK front : front = SubSeq(wire, 1, n)
  OBVIOUS
<1>5. front \in Seq(Cell) /\ Len(front) = n /\ \A i \in 1..n : front[i] = wire[i]
  BY <1>2, PrefixOf
<1> PICK got : got = buf \o front
  OBVIOUS
<1>6. got = Got(n)
  BY DEF Got
<1>7. got \in Seq(Cell)
  BY <1>2, <1>5
<1>8. /\ Len(got) = Len(buf) + n
      /\ ElementsOf(got) = ElementsOf(buf) \union ElementsOf(front)
  <2>1. /\ Len(got) = Len(buf) + Len(front)
        /\ ElementsOf(got) = ElementsOf(buf) \union ElementsOf(front)
    BY <1>2, <1>5, ElementsJoined
  <2> QED
    BY <1>5, <2>1, Zenon
<1>9. ElementsOf(front) \subseteq InTransit
  <2>1. ASSUME NEW i \in 1..n PROVE front[i] \in InTransit
    <3>1. i \in 1..Len(wire) /\ front[i] = wire[i]
      BY <1>2, <1>5
    <3> QED
      BY <3>1 DEF InTransit
  <2> QED
    BY <1>5, <2>1 DEF ElementsOf
<1>10. ElementsOf(buf) \subseteq InTransit
  BY DEF InTransit, ElementsOf
<1>11. ElementsOf(got) \subseteq InTransit
  BY <1>8, <1>9, <1>10, Zenon
<1>12. \A i \in 1..Len(got) : got[i] \in InTransit
  BY <1>11, Zenon DEF ElementsOf
<1>13. Len(rest) + n = Len(wire) /\ Len(rest) \in Nat
  BY <1>2, <1>3
<1> QED
  BY <1>2, <1>3, <1>4, <1>6, <1>7, <1>8, <1>12, <1>13, Zenon

\* Cells that recv has got have left the wire.
LEMMA TakenKept ==
  ASSUME fRecv \in Nat, NEW n \in Nat, NEW g, NEW r,
         Len(buf) \in Nat, Len(wire) \in Nat, Len(r) \in Nat,
         Len(g) = Len(buf) + n, Len(r) + n = Len(wire)
  PROVE  fRecv + Len(g) + Len(r) = Taken
BY DEF Taken

\* A part of what recv wants stays in transit.
LEMMA QRecvPart ==
  ASSUME IInv, QInv, NEW n \in 1..Len(wire), RecvPart(n)
  PROVE  QInv' /\ UNCHANGED <<sent, handled, cut, sender>>
<1>1. /\ UNCHANGED <<msg, cBuf, fSendLock, fSend, cut, sent, sender, receiver, fRecv,
                     reader, astray, handled>>
      /\ buf' = Got(n) /\ wire' = SubSeq(wire, n + 1, Len(wire))
  BY DEF RecvPart, sending
<1> PICK rest : rest = SubSeq(wire, n + 1, Len(wire))
  OBVIOUS
<1> PICK got : got = Got(n)
  OBVIOUS
<1>2. n \in 0..Len(wire) /\ n \in Nat
  OBVIOUS
<1>3. /\ Len(rest) + n = Len(wire) /\ Len(got) = Len(buf) + n
      /\ Len(wire) \in Nat /\ Len(buf) \in Nat /\ Len(rest) \in Nat
      /\ \A i \in 1..Len(rest) : rest[i] \in InTransit
      /\ \A i \in 1..Len(got) : got[i] \in InTransit
  BY <1>2, TransitTaken
<1>4. InTransit' = {got[i] : i \in 1..Len(got)} \union {rest[i] : i \in 1..Len(rest)}
  BY <1>1 DEF InTransit
<1>5. InTransit' \subseteq InTransit
  BY <1>3, <1>4
<1>6. Taken' = Taken
  <2>1. Taken' = fRecv + Len(got) + Len(rest)
    BY <1>1 DEF Taken
  <2>2. fRecv \in Nat /\ n \in Nat
    BY DEF IInv, TypeOK
  <2>3. Len(wire) \in Nat /\ Len(buf) \in Nat /\ Len(rest) \in Nat
    BY <1>3
  <2>4. Len(got) = Len(buf) + n /\ Len(rest) + n = Len(wire)
    BY <1>3
  <2>5. fRecv + Len(got) + Len(rest) = Taken
    BY <2>2, <2>3, <2>4, TakenKept
  <2> QED
    BY <2>1, <2>5, Zenon
<1>7. PICK all, E : Ordered(all, E)
  BY DEF QInv
<1>8. Placed(all, E) /\ Covers(all)' /\ BehindAll(all, E)' /\ ReaderIn(all, E)'
  BY <1>1, <1>6, <1>7 DEF Ordered, Covers, BehindAll, ReaderIn
<1>9. CellsRight(all, E)'
  BY <1>1, <1>5, <1>7 DEF Ordered, CellsRight
<1>10. Ordered(all, E)'
  BY <1>8, <1>9 DEF Ordered
<1> QED
  BY <1>1, <1>10 DEF QInv, WholeMessage

\* recv has the rest of what it wants: the cells in transit are fewer.
LEMMA RestTaken ==
  ASSUME IInv, NEW n \in 0..Len(wire), NEW all, NEW E, Ordered(all, E),
         Len(buf) + n = Size, wire' = SubSeq(wire, n + 1, Len(wire)),
         fRecv' = fRecv + Size, buf' = <<>>, UNCHANGED sending
  PROVE  Placed(all, E) /\ CellsRight(all, E)' /\ Covers(all)' /\ BehindAll(all, E)'
<1> PICK rest : rest = SubSeq(wire, n + 1, Len(wire))
  OBVIOUS
<1>1. /\ Len(rest) + n = Len(wire)
      /\ Len(wire) \in Nat /\ Len(buf) \in Nat /\ Len(rest) \in Nat
      /\ \A i \in 1..Len(rest) : rest[i] \in InTransit
  BY TransitTaken
<1>2. UNCHANGED <<cBuf, fSendLock, fSend, cut, sent>>
  BY DEF sending
<1>3. InTransit' \subseteq InTransit
  <2>1. InTransit' = {rest[i] : i \in 1..Len(rest)}
    <3>1. 1..Len(<<>>) = {}
      OBVIOUS
    <3> QED
      BY <3>1 DEF InTransit
  <2> QED
    BY <1>1, <2>1
<1>4. Taken' = Taken
  <2>1. Taken' = (fRecv + Size) + 0 + Len(rest)
    BY DEF Taken
  <2>2. fRecv \in Nat /\ n \in Nat
    BY DEF IInv, TypeOK
  <2>3. (fRecv + Size) + 0 + Len(rest) = Taken
    <3> HIDE DEF Size
    <3> QED
      BY <1>1, <2>2 DEF Taken
  <2> QED
    BY <2>1, <2>3, Zenon
<1>5. Placed(all, E) /\ Covers(all)' /\ BehindAll(all, E)'
  BY <1>2, <1>4 DEF Ordered, Covers, BehindAll
<1>6. CellsRight(all, E)'
  BY <1>2, <1>3 DEF Ordered, CellsRight
<1> QED
  BY <1>5, <1>6

\* m: the message that the reader is in, behind c of its cells.
InMessage(all, E, m, P, c) ==
  /\ Len(handled) < Len(all) /\ m = all[Len(handled) + 1] /\ m \in Message
  /\ c \in Nat /\ LaidOut(m, P) /\ ReaderAt(reader, m, P, c)
  /\ fRecv = E[Len(handled)] + c

\* What the receiver deciphers is a part of a message.
LEMMA MessageRead ==
  ASSUME IInv, QInv, receiver = "open", ~astray, NEW all, NEW E, Ordered(all, E),
         NEW n \in 0..Len(wire), Len(buf) + n = Size, Deciphers(Got(n))
  PROVE  \E m, P, c : InMessage(all, E, m, P, c)
<1>1. Placed(all, E) /\ CellsRight(all, E) /\ ReaderIn(all, E)
  BY DEF Ordered
<1>2. handled \in Seq(Message)
  BY DEF QInv
<1> PICK h \in Nat : h = Len(handled)
  BY <1>2
<1> PICK k \in Nat : k = Len(all)
  BY <1>1, PlacedFacts
<1>3. /\ h <= k /\ (cut => fRecv < E[k])
      /\ \/ reader = Start /\ fRecv = E[h]
         \/ /\ h < k
            /\ \E c \in Nat : \E P :
                 /\ LaidOut(all[h + 1], P)
                 /\ ReaderAt(reader, all[h + 1], P, c)
                 /\ fRecv = E[h] + c
  BY <1>1 DEF ReaderIn
<1>4. E[h] \in Nat /\ E[k] \in Nat
  BY <1>1, PlacedFacts
<1>5. ASSUME h < k PROVE h + 1 \in 1..k /\ all[h + 1] \in Message
  <2>1. h + 1 \in 1..k
    BY <1>5
  <2> QED
    BY <1>1, <2>1, PlacedFacts
<1>6. CASE reader = Start /\ fRecv = E[h]
  <2>1. h # k
    <3> SUFFICES ASSUME h = k PROVE FALSE
      OBVIOUS
    <3>1. ~cut
      BY <1>3, <1>4, <1>6
    <3>2. Size = 1
      BY <1>6 DEF Size, Start
    <3> PICK x : x = Got(n)[1]
      OBVIOUS
    <3>3. Len(Got(n)) = 1 /\ Got(n) \in Seq(Cell) /\ x \in InTransit
      <4>1. /\ Got(n) \in Seq(Cell) /\ Len(Got(n)) = Len(buf) + n
            /\ \A i \in 1..Len(Got(n)) : Got(n)[i] \in InTransit
        BY TransitTaken
      <4>2. Len(Got(n)) = 1
        BY <3>2, <4>1
      <4>3. 1 \in 1..Len(Got(n))
        BY <4>2
      <4>4. x \in InTransit
        BY <4>1, <4>3, Zenon
      <4> QED
        BY <4>1, <4>2, <4>4, Zenon
    <3>4. x.key = fRecv + 1
      BY <3>3 DEF Deciphers
    <3>5. x.key <= E[k]
      BY <1>1, <3>1, <3>3 DEF CellsRight
    <3> QED
      BY <1>4, <1>6, <3>4, <3>5
  <2>2. h < k
    BY <1>3, <2>1
  <2> PICK m \in Message : m = all[h + 1]
    BY <1>5, <2>2
  <2>3. PICK P : LaidOut(m, P)
    BY Layout
  <2>4. ReaderAt(reader, m, P, 0)
    BY <1>6 DEF ReaderAt
  <2>5. fRecv = E[h] + 0
    BY <1>4, <1>6
  <2>6. InMessage(all, E, m, P, 0)
    BY <2>2, <2>3, <2>4, <2>5 DEF InMessage
  <2> QED
    BY <2>6
<1>7. ASSUME h < k, NEW c \in Nat, NEW P, LaidOut(all[h + 1], P),
             ReaderAt(reader, all[h + 1], P, c), fRecv = E[h] + c
      PROVE  \E m, Q, d : InMessage(all, E, m, Q, d)
  <2>1. InMessage(all, E, all[h + 1], P, c)
    BY <1>5, <1>7 DEF InMessage
  <2> QED
    BY <2>1
<1> QED
  BY <1>3, <1>6, <1>7

\* Positions in a message that begins behind position a.
LEMMA PositionsAgree ==
  ASSUME NEW a \in Nat, NEW c \in Nat, NEW i \in Nat, NEW f, f = a + c
  PROVE  f \in Nat /\ f + i = a + (c + i) /\ c + i \in Nat
OBVIOUS

\* Positions that are not behind its last one.
LEMMA PositionsWithin ==
  ASSUME NEW c \in Nat, NEW s \in Nat, NEW u \in Nat, c + s <= u
  PROVE  /\ \A i \in 1..s : i \in Nat /\ c + i <= u /\ c + i > 0
         /\ \A a \in Nat : a + (c + s) <= a + u
OBVIOUS

\* It is the next part of that message, and of a truncated one not the last.
LEMMA PartRead ==
  ASSUME IInv, QInv, NEW all, NEW E, Ordered(all, E),
         receiver = "open", ~astray,
         NEW n \in 0..Len(wire), Len(buf) + n = Size, Deciphers(Got(n)),
         NEW m, NEW P, NEW c, InMessage(all, E, m, P, c)
  PROVE  /\ Size \in Nat /\ fRecv + Size = E[Len(handled)] + (c + Size)
         /\ GoesOn(Stored(Values(Got(n))), m, P, c + Size)
         /\ E[Len(handled) + 1] = E[Len(handled)] + (1 + MessageSize(m))
         /\ cut => fRecv + Size < E[Len(all)]
<1>1. Placed(all, E) /\ CellsRight(all, E) /\ ReaderIn(all, E)
  BY DEF Ordered
<1>2. handled \in Seq(Message)
  BY DEF QInv
<1> PICK h \in Nat : h = Len(handled)
  BY <1>2
<1> PICK k \in Nat : k = Len(all)
  BY <1>1, PlacedFacts
<1>3. /\ h < k /\ m = all[h + 1] /\ m \in Message /\ c \in Nat
      /\ LaidOut(m, P) /\ ReaderAt(reader, m, P, c) /\ fRecv = E[h] + c
  BY DEF InMessage
<1>4. Size \in Nat /\ c + Size <= 1 + MessageSize(m)
  BY <1>3, Parsed
<1>5. \A values : values = [j \in 1..Size |-> Buffer(m)[c + j]] =>
                    GoesOn(Stored(values), m, P, c + Size)
  BY <1>3, Parsed
<1> PICK s \in Nat : s = Size
  BY <1>4
<1> PICK got : got = Got(n)
  OBVIOUS
<1>6. got \in Seq(Cell) /\ Len(got) = s /\ \A i \in 1..s : got[i] \in InTransit
  BY TransitTaken
<1>7. \A i \in 1..s : got[i].key = fRecv + i
  BY <1>6 DEF Deciphers
<1>8. /\ E[h] \in Nat /\ E[h + 1] \in Nat /\ E[k] \in Nat /\ MessageSize(m) \in Nat
      /\ h + 1 \in 1..k /\ h + 1 \in 0..k /\ (h + 1) - 1 = h
  BY <1>1, <1>3, PlacedFacts, SizesKnown
<1>9. E[h + 1] = E[h] + (1 + MessageSize(m))
  BY <1>1, <1>3, <1>8 DEF Placed
<1>10. ASSUME NEW i \in 1..s PROVE got[i].val = Buffer(m)[c + i]
  <2> PICK x : x = got[i]
    OBVIOUS
  <2>1. x.key = E[h] + (c + i) /\ Carries(x, all, E)
    <3>1. i \in Nat /\ x.key = fRecv + i /\ x \in InTransit
      BY <1>6, <1>7
    <3>2. fRecv + i = E[h] + (c + i)
      <4> PICK a \in Nat : a = E[h]
        BY <1>8
      <4>1. fRecv = a + c /\ c \in Nat /\ i \in Nat
        BY <1>3, <3>1, Zenon
      <4>2. fRecv + i = a + (c + i)
        BY <4>1, PositionsAgree
      <4> QED
        BY <4>2, Zenon
    <3> QED
      BY <1>1, <3>1, <3>2 DEF CellsRight
  <2>2. c + i <= 1 + MessageSize(m) /\ c + i > 0 /\ c + i \in Nat
    <3>1. 1 + MessageSize(m) \in Nat /\ c + s <= 1 + MessageSize(m)
      BY <1>4, <1>8
    <3>2. i \in Nat /\ c + i <= 1 + MessageSize(m) /\ c + i > 0
      BY <1>3, <3>1, PositionsWithin, Zenon
    <3> QED
      BY <1>3, <3>2
  <2>3. E[h] < x.key /\ x.key <= E[h + 1] /\ x.key - E[h] = c + i
    BY <1>8, <1>9, <2>1, <2>2
  <2>4. x.val = Buffer(all[h + 1])[x.key - E[h]]
    BY <1>8, <2>1, <2>3 DEF Carries
  <2> QED
    BY <1>3, <2>3, <2>4
<1>11. Values(got) = [j \in 1..s |-> Buffer(m)[c + j]]
  <2>1. DOMAIN got = 1..s
    BY <1>6
  <2> QED
    BY <1>10, <2>1 DEF Values
<1>12. GoesOn(Stored(Values(got)), m, P, c + s)
  BY <1>5, <1>11
<1>13. fRecv + s = E[h] + (c + s) /\ c + s <= 1 + MessageSize(m)
  <2> PICK a \in Nat : a = E[h]
    BY <1>8
  <2>1. fRecv = a + c /\ c \in Nat
    BY <1>3, Zenon
  <2>2. fRecv + s = a + (c + s)
    BY <2>1, PositionsAgree
  <2>3. c + s <= 1 + MessageSize(m)
    BY <1>4, Zenon
  <2> QED
    BY <2>2, <2>3, Zenon
<1>14. ASSUME cut PROVE fRecv + s < E[k]
  <2>1. fRecv < E[k]
    BY <1>1, <1>14 DEF ReaderIn
  <2>2. E[h + 1] <= E[k]
    BY <1>1, <1>8, PlacedFacts
  <2>3. fRecv + s <= E[k] /\ fRecv \in Nat
    <3>1. fRecv \in Nat
      BY <1>3, <1>8, PositionsAgree, Zenon
    <3>2. 1 + MessageSize(m) \in Nat
      BY <1>8
    <3>3. E[h] + (c + s) <= E[h] + (1 + MessageSize(m))
      BY <1>3, <1>8, <1>13, <3>2, PositionsWithin, Zenon
    <3>4. fRecv + s <= E[h + 1]
      BY <1>9, <1>13, <3>3, Zenon
    <3> QED
      BY <1>8, <2>2, <3>1, <3>4
  <2>4. CASE s = 0
    BY <2>1, <2>3, <2>4
  <2>5. CASE s # 0
    <3>1. s \in 1..s
      BY <2>5
    <3>2. got[s] \in InTransit /\ got[s].key = fRecv + s
      BY <1>6, <1>7, <3>1
    <3>3. got[s].key # E[k]
      BY <1>1, <1>14, <3>2 DEF CellsRight
    <3> QED
      BY <1>8, <2>3, <3>2, <3>3
  <2> QED
    BY <2>4, <2>5
<1> QED
  BY <1>9, <1>12, <1>13, <1>14

\* The next of the messages that were sent is handled.
NextHandled ==
  /\ Len(handled) < Len(sent)
  /\ handled' = Append(handled, sent[Len(handled) + 1])

\* The receiver goes on, and what it hands to a handler is the next message.
LEMMA MessageHandled ==
  ASSUME IInv, QInv, NEW all, NEW E, Ordered(all, E), receiver = "open", ~astray,
         NEW m, NEW P, NEW c, InMessage(all, E, m, P, c),
         NEW s \in Nat, fRecv + s = E[Len(handled)] + (c + s),
         E[Len(handled) + 1] = E[Len(handled)] + (1 + MessageSize(m)),
         cut => fRecv + s < E[Len(all)],
         NEW r, GoesOn(r, m, P, c + s), Reads(r), fRecv' = fRecv + s, cut' = cut
  PROVE  ReaderIn(all, E)' /\ (handled' = handled \/ NextHandled)
<1>1. Placed(all, E) /\ Covers(all)
  BY DEF Ordered
<1>2. handled \in Seq(Message) /\ sent \in Seq(Message)
  BY DEF QInv
<1> PICK h \in Nat : h = Len(handled)
  BY <1>2
<1> PICK k \in Nat : k = Len(all)
  BY <1>1, PlacedFacts
<1>3. h < k /\ m = all[h + 1] /\ m \in Message /\ c \in Nat /\ LaidOut(m, P)
  BY DEF InMessage
<1>4. r.msg.id = m.id
  BY DEF GoesOn
<1>5. c + s \in Nat /\ fRecv + s = E[h] + (c + s)
  BY <1>3
<1>6. CASE ~Known(r.msg.id)
  BY <1>6 DEF Reads, ReaderIn
<1>7. CASE Known(r.msg.id) /\ ~Complete(r)
  <2>1. reader' = r /\ handled' = handled
    BY <1>7 DEF Reads
  <2>2. ReaderAt(r, m, P, c + s)
    BY <1>4, <1>7 DEF GoesOn
  <2>3. ReaderAt(reader', m, P, c + s)
    BY <2>1, <2>2
  <2>4. /\ Len(handled') <= k /\ (cut' => fRecv' < E[k]) /\ Len(handled') < k
        /\ Len(handled') = h
    BY <1>3, <2>1
  <2>5. \E d \in Nat : \E Q :
           /\ LaidOut(all[h + 1], Q) /\ ReaderAt(reader', all[h + 1], Q, d)
           /\ fRecv' = E[h] + d
    BY <1>3, <1>5, <2>3
  <2>6. ReaderIn(all, E)'
    BY <2>4, <2>5 DEF ReaderIn
  <2> QED
    BY <2>1, <2>6
<1>8. CASE Known(r.msg.id) /\ Complete(r)
  <2>1. reader' = Start /\ handled' = Append(handled, r.msg)
    BY <1>8 DEF Reads
  <2>2. r.msg = m /\ c + s = 1 + MessageSize(m)
    BY <1>4, <1>8 DEF GoesOn
  <2>3. fRecv' = E[h + 1]
    BY <1>5, <2>2
  <2>4. Len(handled') = h + 1
    BY <1>2, <1>3, <2>1, <2>2
  <2>5. h + 1 <= k
    BY <1>3
  <2>6. ReaderIn(all, E)'
    BY <2>1, <2>3, <2>4, <2>5 DEF ReaderIn
  <2>7. h < Len(sent) /\ m = sent[h + 1]
    <3>1. CASE ~cut
      BY <1>1, <1>3, <3>1 DEF Covers
    <3>2. CASE cut
      <4>1. k = Len(sent) + 1 /\ \A i \in 1..Len(sent) : all[i] = sent[i]
        BY <1>1, <3>2 DEF Covers
      <4>2. E[h + 1] < E[k]
        BY <2>3, <3>2
      <4>3. h + 1 # k
        <5>1. E[k] \in Nat
          BY <1>1, PlacedFacts
        <5> QED
          BY <4>2, <5>1
      <4>4. Len(sent) \in Nat
        BY <1>2
      <4>5. h < Len(sent) /\ h + 1 \in 1..Len(sent)
        BY <1>3, <4>1, <4>3, <4>4
      <4> QED
        BY <1>3, <4>1, <4>5
    <3> QED
      BY <3>1, <3>2
  <2>8. NextHandled
    BY <2>1, <2>2, <2>7 DEF NextHandled
  <2> QED
    BY <2>6, <2>8
<1> QED
  BY <1>6, <1>7, <1>8

\* The reader goes on, and handles the next message or none.
LEMMA QRecvRest ==
  ASSUME IInv, QInv, RecvRest
  PROVE  QInv' /\ UNCHANGED <<sent, cut, sender>> /\ (handled' = handled \/ NextHandled)
<1>1. /\ receiver = "open" /\ ~astray /\ UNCHANGED sending
      /\ \E n \in 0..Len(wire) :
           /\ Len(buf) + n = Size
           /\ wire' = SubSeq(wire, n + 1, Len(wire))
           /\ fRecv' = fRecv + Size /\ buf' = <<>>
           /\ IF Deciphers(Got(n)) THEN Reads(Stored(Values(Got(n)))) ELSE GoesAstray
  BY DEF RecvRest
<1>2. UNCHANGED <<msg, cBuf, fSendLock, cut, sender, sent>>
  BY <1>1 DEF sending
<1>3. PICK n \in 0..Len(wire) :
        /\ Len(buf) + n = Size
        /\ wire' = SubSeq(wire, n + 1, Len(wire))
        /\ fRecv' = fRecv + Size /\ buf' = <<>>
        /\ IF Deciphers(Got(n)) THEN Reads(Stored(Values(Got(n)))) ELSE GoesAstray
  BY <1>1
<1>4. PICK all, E : Ordered(all, E)
  BY DEF QInv
<1>5. Placed(all, E) /\ CellsRight(all, E)' /\ Covers(all)' /\ BehindAll(all, E)'
  BY <1>1, <1>3, <1>4, RestTaken
<1>6. ReaderIn(all, E)' /\ (handled' = handled \/ NextHandled)
  <2>1. CASE ~Deciphers(Got(n))
    <3>1. astray' = TRUE /\ handled' = handled
      BY <1>3, <2>1 DEF GoesAstray
    <3> QED
      BY <3>1 DEF ReaderIn
  <2>2. CASE Deciphers(Got(n))
    <3>1. PICK m, P, c : InMessage(all, E, m, P, c)
      BY <1>1, <1>3, <1>4, <2>2, MessageRead
    <3> PICK r : r = Stored(Values(Got(n)))
      OBVIOUS
    <3>2. /\ Size \in Nat /\ fRecv + Size = E[Len(handled)] + (c + Size)
          /\ GoesOn(r, m, P, c + Size)
          /\ E[Len(handled) + 1] = E[Len(handled)] + (1 + MessageSize(m))
          /\ cut => fRecv + Size < E[Len(all)]
      BY <1>1, <1>3, <1>4, <2>2, <3>1, PartRead
    <3>3. Reads(r)
      BY <1>3, <2>2
    <3> PICK s \in Nat : s = Size
      BY <3>2
    <3> QED
      BY <1>1, <1>2, <1>3, <1>4, <3>1, <3>2, <3>3, MessageHandled
  <2> QED
    BY <2>1, <2>2
<1>7. Ordered(all, E)'
  BY <1>5, <1>6 DEF Ordered
<1>8. sent' \in Seq(Message) /\ handled' \in Seq(Message)
  <2>1. sent \in Seq(Message) /\ handled \in Seq(Message)
    BY DEF QInv
  <2>2. CASE handled' = handled
    BY <1>2, <2>1, <2>2
  <2>3. CASE NextHandled
    <3>1. Len(handled) < Len(sent) /\ handled' = Append(handled, sent[Len(handled) + 1])
      BY <2>3 DEF NextHandled
    <3>2. sent[Len(handled) + 1] \in Message
      BY <2>1, <3>1
    <3> QED
      BY <1>2, <2>1, <3>1, <3>2
  <2> QED
    BY <1>6, <2>2, <2>3
<1>9. WholeMessage'
  BY <1>2 DEF QInv, WholeMessage
<1>10. QInv'
  BY <1>7, <1>8, <1>9 DEF QInv
<1> QED
  BY <1>2, <1>6, <1>10

\* Every step of Channel is one of MessageQueue or leaves its state alone.
LEMMA QNext ==
  ASSUME IInv, QInv, [Next]_vars
  PROVE  /\ QInv'
         /\ Queue!Next \/ UNCHANGED <<sent, handled, ~cut /\ sender = "open">>
<1>1. CASE UNCHANGED vars
  <2>1. UNCHANGED <<sent, handled, cut, sender>>
    BY <1>1 DEF vars, sending, receiving
  <2> QED
    BY <1>1, <2>1, QStutter
<1>2. ASSUME NEW h \in Thread, Begins(h) \/ Encrypt(h)
      PROVE  QInv' /\ UNCHANGED <<sent, handled, cut, sender>>
  BY <1>2, QBegins, QEncrypt
<1>3. ASSUME NEW h \in Thread, TransmitWhole(h)
      PROVE  QInv' /\ (Queue!Send \/ UNCHANGED <<sent, handled, cut, sender>>)
  <2>1. /\ QInv' /\ UNCHANGED <<handled, cut, sender>> /\ sender = "open"
        /\ cut => sent' = sent
        /\ ~cut => \E m \in Message : sent' = Append(sent, m)
    BY <1>3, QWhole
  <2>2. CASE cut
    BY <2>1, <2>2
  <2>3. CASE ~cut
    <3>1. PICK m \in Message : sent' = Append(sent, m)
      BY <2>1, <2>3
    <3>2. sent \in Seq(Message)
      BY DEF QInv
    <3> PICK s : s = Append(sent, m)
      OBVIOUS
    <3>3. /\ Len(s) = Len(sent) + 1 /\ SubSeq(s, 1, Len(sent)) = sent
          /\ s[Len(s)] \in Message
      BY <3>2
    <3>4. Queue!Send
      BY <2>1, <2>3, <3>1, <3>3 DEF Queue!Send
    <3> QED
      BY <2>1, <3>4
  <2> QED
    BY <2>2, <2>3
<1>4. ASSUME NEW h \in Thread, TransmitPart(h) \/ TransmitNothing(h)
      PROVE  QInv' /\ Queue!Break
  <2>1. CASE TransmitPart(h)
    <3>1. QInv' /\ UNCHANGED <<sent, handled, sender>> /\ cut'
      BY <2>1, QPart
    <3> QED
      BY <3>1 DEF Queue!Break
  <2>2. CASE TransmitNothing(h)
    <3>1. QInv' /\ UNCHANGED <<sent, handled, cut>> /\ sender' = "closed"
      BY <2>2, QNothing
    <3> QED
      BY <3>1 DEF Queue!Break
  <2> QED
    BY <1>4, <2>1, <2>2
<1>5. ASSUME RecvRest
      PROVE  QInv' /\ (Queue!Handle \/ UNCHANGED <<sent, handled, cut, sender>>)
  <2>1. QInv' /\ UNCHANGED <<sent, cut, sender>> /\ (handled' = handled \/ NextHandled)
    BY <1>5, QRecvRest
  <2> QED
    BY <2>1 DEF NextHandled, Queue!Handle
<1>6. ASSUME NEW n \in 1..Len(wire), RecvPart(n)
      PROVE  QInv' /\ UNCHANGED <<sent, handled, cut, sender>>
  BY <1>6, QRecvPart
<1>7. ASSUME RecvFails
      PROVE  QInv' /\ UNCHANGED <<sent, handled, cut, sender>>
  BY <1>7, QRecvFails
<1>8. UNCHANGED <<sent, handled, cut, sender>> =>
        UNCHANGED <<sent, handled, ~cut /\ sender = "open">>
  OBVIOUS
<1> QED
  BY <1>1, <1>2, <1>3, <1>4, <1>5, <1>6, <1>7, <1>8
     DEF Next, Transmits, Receives, Queue!Next

\* Channel implements MessageQueue: the messages are handled one by one, in the
\* order and with the contents they were sent with, as long as no send fails or is
\* truncated; and of those sent before that, the first ones.
THEOREM QueueRefined == Spec => QueueSpec
<1>1. Init => IInv /\ QInv
  BY InitInv, QInit
<1>2. IInv /\ QInv /\ [Next]_vars => IInv' /\ QInv'
  BY NextInv, QNext
<1>3. Init => Queue!Init
  BY DEF Init, Queue!Init
<1>4. IInv /\ QInv /\ [Next]_vars
        => [Queue!Next]_<<sent, handled, ~cut /\ sender = "open">>
  BY QNext
<1> QED
  BY <1>1, <1>2, <1>3, <1>4, PTL DEF Spec, QueueSpec, Queue!Spec

\* The requests and the handlers use every field of the messages of Sends as what
\* its table says it is: this is a matter of the tables alone.
UsesFit ==
  \A m \in Message : m.id \in DOMAIN Uses =>
    \A i \in DOMAIN Uses[m.id] : Uses[m.id][i] \in UsedAs[Fields[m.id][i]]

\* If the uses fit the tables, then no message reaches its handler as another one or
\* shifted against its table: the handlers find each field as what they take it for.
THEOREM FieldsDescribed ==
  ASSUME UsesFit
  PROVE  Spec => []FieldsAsDescribed
<1>1. Init => IInv /\ QInv
  BY InitInv, QInit
<1>2. IInv /\ QInv /\ [Next]_vars => IInv' /\ QInv'
  BY NextInv, QNext
<1>3. QInv => FieldsAsDescribed
  <2> SUFFICES ASSUME QInv, NEW n \in DOMAIN handled
               PROVE  handled[n] \in Message
    BY DEF FieldsAsDescribed, UsesFit
  <2>1. handled \in Seq(Message)
    BY DEF QInv
  <2> QED
    BY <2>1
<1> QED
  BY <1>1, <1>2, <1>3, PTL DEF Spec
===============================================================================
