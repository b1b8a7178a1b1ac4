------------------------- MODULE EncryptedStream_proofs -------------------------
(***************************************************************************)
(* Proofs about EncryptedStream: the type invariant, and that a file       *)
(* written and read through it is the sequence of bytes of ByteStream.     *)
(* The inductive invariant says what is in every block of a file, whole,   *)
(* cut off or being written, and what a reader's buffer holds.             *)
(***************************************************************************)
EXTENDS EncryptedStream, Induction, SequenceTheorems

-----------------------------------------------------------------------------
(* Positions and blocks.                                                   *)

\* The blocks of b bytes that n bytes take.
Ceil(n, b) == (n + b - 1) \div b

LEMMA DivMod ==
  ASSUME NEW a \in Nat, NEW b \in Nat \ {0}
  PROVE  /\ a \div b \in Nat /\ a % b \in 0..b-1
         /\ a = (a \div b) * b + (a % b)
OBVIOUS

LEMMA DivModOf ==
  ASSUME NEW q \in Nat, NEW b \in Nat \ {0}, NEW r \in 0..b - 1
  PROVE  (q * b + r) \div b = q /\ (q * b + r) % b = r
OBVIOUS

LEMMA DivModNext ==
  ASSUME NEW a \in Nat, NEW b \in Nat \ {0}
  PROVE  /\ (a + 1) % b = IF (a % b) + 1 = b THEN 0 ELSE (a % b) + 1
         /\ (a + 1) \div b = IF (a % b) + 1 = b THEN (a \div b) + 1 ELSE a \div b
<1>1. PICK q \in Nat, r \in 0..b - 1 : q = a \div b /\ r = a % b /\ a = q * b + r
  BY DivMod
<1>2. CASE r + 1 = b
  <2>1. a + 1 = (q + 1) * b + 0 /\ q + 1 \in Nat /\ 0 \in 0..b - 1
    BY <1>1, <1>2
  <2>2. ((q + 1) * b + 0) \div b = q + 1 /\ ((q + 1) * b + 0) % b = 0
    BY <2>1, DivModOf, Zenon
  <2>3. (a + 1) \div b = q + 1 /\ (a + 1) % b = 0
    BY <2>1, <2>2, Zenon
  <2> QED
    BY <1>1, <1>2, <2>3
<1>3. CASE r + 1 # b
  <2>1. a + 1 = q * b + (r + 1) /\ r + 1 \in 0..b - 1
    BY <1>1, <1>3
  <2>2. (q * b + (r + 1)) \div b = q /\ (q * b + (r + 1)) % b = r + 1
    BY <2>1, DivModOf, Zenon
  <2>3. (a + 1) \div b = q /\ (a + 1) % b = r + 1
    BY <2>1, <2>2, Zenon
  <2> QED
    BY <1>1, <1>3, <2>3
<1> QED
  BY <1>2, <1>3

LEMMA CeilDiv ==
  ASSUME NEW a \in Nat, NEW b \in Nat \ {0}
  PROVE  /\ Ceil(a, b) \in Nat
         /\ Ceil(a, b) = IF a % b = 0 THEN a \div b ELSE (a \div b) + 1
<1>1. PICK q \in Nat, r \in 0..b - 1 : q = a \div b /\ r = a % b /\ a = q * b + r
  BY DivMod
<1>2. CASE r = 0
  <2>1. a + b - 1 = q * b + (b - 1) /\ b - 1 \in 0..b - 1
    BY <1>1, <1>2
  <2>2. (a + b - 1) \div b = q
    BY <2>1, DivModOf, Zenon
  <2> QED
    BY <1>1, <1>2, <2>2 DEF Ceil
<1>3. CASE r # 0
  <2>1. a + b - 1 = (q + 1) * b + (r - 1) /\ r - 1 \in 0..b - 1 /\ q + 1 \in Nat
    BY <1>1, <1>3
  <2>2. ((q + 1) * b + (r - 1)) \div b = q + 1
    BY <2>1, DivModOf, Zenon
  <2>3. (a + b - 1) \div b = q + 1
    BY <2>1, <2>2, Zenon
  <2> QED
    BY <1>1, <1>3, <2>3 DEF Ceil
<1> QED
  BY <1>2, <1>3

LEMMA CeilMonotone ==
  ASSUME NEW a \in Nat, NEW c \in Nat, NEW b \in Nat \ {0}, a <= c
  PROVE  Ceil(a, b) <= Ceil(c, b)
BY DEF Ceil
\* One byte more takes a block more if the blocks were full.
LEMMA CeilNext ==
  ASSUME NEW a \in Nat, NEW b \in Nat \ {0}
  PROVE  Ceil(a + 1, b) = IF a % b = 0 THEN Ceil(a, b) + 1 ELSE Ceil(a, b)
<1>1. /\ a \div b \in Nat /\ a % b \in 0..b - 1
      /\ (a + 1) % b = IF (a % b) + 1 = b THEN 0 ELSE (a % b) + 1
      /\ (a + 1) \div b = IF (a % b) + 1 = b THEN (a \div b) + 1 ELSE a \div b
  BY DivMod, DivModNext
<1>2. Ceil(a, b) = IF a % b = 0 THEN a \div b ELSE (a \div b) + 1
  BY CeilDiv
<1>3. Ceil(a + 1, b) = IF (a + 1) % b = 0 THEN (a + 1) \div b ELSE ((a + 1) \div b) + 1
  <2>1. a + 1 \in Nat
    OBVIOUS
  <2> QED
    BY <2>1, CeilDiv
<1> QED
  <2> HIDE DEF Ceil
  <2> DEFINE q == a \div b
  <2> DEFINE r == a % b
  <2>1. q \in Nat /\ r \in 0..b - 1 /\ b \in Nat
    BY <1>1
  <2>2. Ceil(a, b) = IF r = 0 THEN q ELSE q + 1
    BY <1>2
  <2>3. Ceil(a + 1, b) = IF r + 1 = b THEN q + 1 ELSE q + 1
    BY <1>1, <1>3
  <2> HIDE DEF q
  <2> QED
    BY <2>1, <2>2, <2>3

\* At the beginning.
LEMMA ZeroBlocks ==
  ASSUME NEW b \in Nat \ {0}
  PROVE  0 % b = 0 /\ 0 \div b = 0 /\ Ceil(0, b) = 0
<1>1. 0 \in Nat /\ 0 \in 0..b - 1 /\ 0 * b + 0 = 0
  OBVIOUS
<1>2. (0 * b + 0) \div b = 0 /\ (0 * b + 0) % b = 0
  BY <1>1, DivModOf, Zenon
<1>3. 0 \div b = 0 /\ 0 % b = 0
  BY <1>1, <1>2, Zenon
<1>4. Ceil(0, b) = IF 0 % b = 0 THEN 0 \div b ELSE (0 \div b) + 1
  BY <1>1, CeilDiv
<1> QED
  BY <1>3, <1>4, Zenon

\* The bytes of the first k blocks are the first k * b bytes.
LEMMA InFirstBlocks ==
  ASSUME NEW b \in Nat \ {0}, NEW k \in Nat, NEW j \in 1..k, NEW c \in 1..b
  PROVE  (j - 1) * b + c \in 1..k * b
OBVIOUS

\* What stands at position p of a file of that size.
Cell(p, size) == IF p <= size THEN p ELSE 0

\* Block j of such a file, and the first k blocks as they are on the disk.
Block(type, j, size) ==
  [c \in 1..BlockSize[type] |-> Cell((j - 1) * BlockSize[type] + c, size)]
FileBlocks(type, size, k) ==
  [j \in 1..k |-> Enciphered(type, Block(type, j, size))]

\* Every cipher has a block size.
LEMMA Sizes ==
  ASSUME NEW type \in Ciphers
  PROVE  BlockSize[type] \in Nat \ {0} /\ type # "none"
BY SizesAssumption DEF Ciphers

\* A block holds bytes.
LEMMA BlockBytes ==
  ASSUME NEW type \in Ciphers, NEW j \in Nat \ {0}, NEW size \in 0..MaxSize
  PROVE  Block(type, j, size) \in [1..BlockSize[type] -> Bytes]
<1>1. BlockSize[type] \in Nat \ {0} /\ MaxSize \in Nat
  BY Sizes, SizesAssumption
<1>2. ASSUME NEW c \in 1..BlockSize[type]
      PROVE  Cell((j - 1) * BlockSize[type] + c, size) \in Bytes
  <2>1. (j - 1) * BlockSize[type] + c \in Nat
    BY <1>1
  <2> QED
    BY <1>1, <2>1 DEF Cell, Bytes
<1> QED
  BY <1>2 DEF Block

\* The blocks of a file are a sequence.
LEMMA FileBlocksSeq ==
  ASSUME NEW type, NEW size, NEW k \in Nat
  PROVE  /\ Len(FileBlocks(type, size, k)) = k
         /\ \A j \in 1..k : FileBlocks(type, size, k)[j] = Enciphered(type, Block(type, j, size))
         /\ FileBlocks(type, size, k) \in Seq({Enciphered(type, Block(type, j, size)) : j \in 1..k})
BY DEF FileBlocks

\* The next block is appended.
LEMMA NextBlock ==
  ASSUME NEW type, NEW size, NEW k \in Nat
  PROVE  Append(FileBlocks(type, size, k), Enciphered(type, Block(type, k + 1, size)))
           = FileBlocks(type, size, k + 1)
<1> DEFINE s == FileBlocks(type, size, k)
<1> DEFINE e == Enciphered(type, Block(type, k + 1, size))
<1>1. Len(s) = k /\ s \in Seq({Enciphered(type, Block(type, j, size)) : j \in 1..k})
  BY FileBlocksSeq
<1>2. Append(s, e) = [j \in 1..k + 1 |-> IF j <= k THEN s[j] ELSE e]
  <2> DEFINE T == {Enciphered(type, Block(type, j, size)) : j \in 1..k} \cup {e}
  <2>1. s \in Seq(T) /\ e \in T
    BY <1>1
  <2> DEFINE a == Append(s, e)
  <2> HIDE DEF s, e, T
  <2>2. /\ a \in Seq(T) /\ Len(a) = k + 1 /\ a[k + 1] = e
        /\ \A j \in 1..k : a[j] = s[j]
    BY <1>1, <2>1, AppendProperties
  <2> HIDE DEF a
  <2>3. a = [j \in 1..k + 1 |-> a[j]]
    BY <2>2
  <2>4. \A j \in 1..k + 1 : a[j] = IF j <= k THEN s[j] ELSE e
    BY <2>2
  <2>5. a = [j \in 1..k + 1 |-> IF j <= k THEN s[j] ELSE e]
    BY <2>3, <2>4
  <2> QED
    BY <2>5 DEF a
<1>3. \A j \in 1..k + 1 : (IF j <= k THEN s[j] ELSE e) = Enciphered(type, Block(type, j, size))
  BY DEF FileBlocks
<1> QED
  BY <1>2, <1>3 DEF FileBlocks

\* All but the last.
LEMMA FrontBlocks ==
  ASSUME NEW type, NEW size, NEW k \in Nat \ {0}
  PROVE  Front(FileBlocks(type, size, k)) = FileBlocks(type, size, k - 1)
<1> DEFINE s == FileBlocks(type, size, k)
<1>1. Len(s) = k /\ s \in Seq({Enciphered(type, Block(type, j, size)) : j \in 1..k})
  BY FileBlocksSeq
<1>2. Front(s) = [j \in 1..k - 1 |-> s[j]]
  <2> HIDE DEF s
  <2> QED
    BY <1>1 DEF Front
<1>3. \A j \in 1..k - 1 : s[j] = Enciphered(type, Block(type, j, size))
  BY DEF FileBlocks
<1> QED
  BY <1>2, <1>3 DEF FileBlocks

\* Blocks that are full do not change when the file grows.
LEMMA FullBlocks ==
  ASSUME NEW type \in Ciphers, NEW size \in Nat, NEW more \in Nat, size <= more,
         NEW k \in Nat, k * BlockSize[type] <= size
  PROVE  FileBlocks(type, size, k) = FileBlocks(type, more, k)
<1>1. BlockSize[type] \in Nat \ {0}
  BY Sizes
<1>2. ASSUME NEW j \in 1..k, NEW c \in 1..BlockSize[type]
      PROVE  Cell((j - 1) * BlockSize[type] + c, size) = Cell((j - 1) * BlockSize[type] + c, more)
  <2>1. (j - 1) * BlockSize[type] + c \in 1..k * BlockSize[type]
    BY <1>1, InFirstBlocks
  <2>2. k * BlockSize[type] \in Nat
    BY <1>1
  <2> HIDE DEF Cell
  <2>3. PICK p \in Nat : p = (j - 1) * BlockSize[type] + c /\ p <= k * BlockSize[type]
    BY <2>1, <2>2
  <2>4. p <= size /\ p <= more
    BY <2>2, <2>3
  <2> QED
    BY <2>3, <2>4 DEF Cell
<1>3. ASSUME NEW j \in 1..k
      PROVE  Block(type, j, size) = Block(type, j, more)
  BY <1>2 DEF Block
<1> QED
  BY <1>3 DEF FileBlocks

-----------------------------------------------------------------------------
(* The inductive invariant.                                                *)

\* What is being written: full blocks in the file, the rest in the buffer.
WriterInv ==
  fMode = "write" =>
    /\ header = NoHeader /\ ~cutOff /\ fDataPos = fDataSize /\ fDataSize \in 0..MaxSize
    /\ written = [i \in 1..fDataSize |-> i]
    /\ blocks = FileBlocks(fEType, fDataPos, fDataPos \div szInc)
    /\ fLBuffer = Block(fEType, (fDataPos \div szInc) + 1, fDataPos)
    /\ base = Len(blocks)

\* A file with a header holds what was written, up to where it is cut off.
FileInv ==
  IF header = NoHeader THEN fMode # "read" /\ (fMode = "closed" => written = <<>>)
  ELSE /\ header \in [type : Ciphers, size : 0..MaxSize]
       /\ written = [i \in 1..header.size |-> i]
       /\ \E k \in 0..Ceil(header.size, BlockSize[header.type]) :
            /\ blocks = FileBlocks(header.type, header.size, k)
            /\ ~cutOff => k = Ceil(header.size, BlockSize[header.type])

\* The base stream is not behind the reader; if it is not ahead of it either,
\* the buffer holds the block of the reader's position.
ReaderInv ==
  fMode = "read" =>
    /\ fEType = header.type /\ fDataSize = header.size
    /\ fDataPos \in 0..fDataSize
    /\ base \in Ceil(fDataPos, szInc)..Len(blocks)
    /\ fDataPos % szInc # 0 =>
         /\ fLBuffer \in [1..szInc -> Bytes]
         /\ base = Ceil(fDataPos, szInc) => fLBuffer = Block(fEType, base, fDataSize)

Types ==
  /\ fMode \in {"closed", "write", "read"}
  /\ fEType \in Ciphers
  /\ header.size \in 0..MaxSize /\ fDataSize \in 0..MaxSize
  /\ fDataPos \in 0..fDataSize
  /\ cutOff \in BOOLEAN

IInv == Types /\ WriterInv /\ FileInv /\ ReaderInv

-----------------------------------------------------------------------------
(* Writing.                                                                *)

\* The state of write with the buffer at byte `at`.
WriteState(at) ==
  [buf |-> Block(fEType, (at \div szInc) + 1, at),
   blocks |-> FileBlocks(fEType, at, at \div szInc), at |-> at]

\* write of one byte leads from one such state to the next.
LEMMA WriteNext ==
  ASSUME fEType \in Ciphers, NEW at \in Nat
  PROVE  WriteByte(WriteState(at), at + 1) = WriteState(at + 1)
<1> DEFINE b == szInc
<1> DEFINE put == [buf |-> Block(fEType, (at \div szInc) + 1, at + 1),
                   blocks |-> FileBlocks(fEType, at, at \div szInc), at |-> at + 1]
<1>0. szInc \in Nat \ {0} /\ szInc = BlockSize[fEType]
  BY Sizes DEF szInc
<1>1. PICK q \in Nat, r \in 0..szInc - 1 :
        /\ q = at \div szInc /\ r = at % szInc /\ at = q * szInc + r
        /\ (at + 1) % szInc = IF r + 1 = szInc THEN 0 ELSE r + 1
        /\ (at + 1) \div szInc = IF r + 1 = szInc THEN q + 1 ELSE q
  <2>1. /\ at \div szInc \in Nat /\ at % szInc \in 0..szInc - 1
        /\ at = (at \div szInc) * szInc + (at % szInc)
    BY <1>0, DivMod
  <2>2. /\ (at + 1) % szInc = IF (at % szInc) + 1 = szInc THEN 0 ELSE (at % szInc) + 1
        /\ (at + 1) \div szInc = IF (at % szInc) + 1 = szInc THEN (at \div szInc) + 1 ELSE at \div szInc
    BY <1>0, DivModNext
  <2> QED
    BY <2>1, <2>2, Zenon
<1>2. [Block(fEType, q + 1, at) EXCEPT ![r + 1] = at + 1] = Block(fEType, q + 1, at + 1)
  <2>1. ASSUME NEW c \in 1..szInc
        PROVE  (IF c = r + 1 THEN at + 1 ELSE Cell(q * szInc + c, at)) = Cell(q * szInc + c, at + 1)
    <3>1. PICK m \in Nat : m = q * szInc
      BY <1>0
    <3>2. at = m + r
      BY <1>1, <3>1, Zenon
    <3>3. c \in Nat /\ r \in Nat
      BY <1>0
    <3>4. (IF c = r + 1 THEN at + 1 ELSE Cell(m + c, at)) = Cell(m + c, at + 1)
      BY <3>2, <3>3 DEF Cell
    <3> QED
      BY <3>1, <3>4, Zenon
  <2>2. \A size : Block(fEType, q + 1, size) = [c \in 1..szInc |-> Cell(q * szInc + c, size)]
    <3>1. q + 1 - 1 = q
      OBVIOUS
    <3>2. \A size, c : Cell((q + 1 - 1) * BlockSize[fEType] + c, size) = Cell(q * szInc + c, size)
      BY <1>0, <3>1, Zenon
    <3> QED
      BY <1>0, <3>2 DEF Block
  <2>3. [Block(fEType, q + 1, at) EXCEPT ![r + 1] = at + 1]
          = [c \in 1..szInc |-> IF c = r + 1 THEN at + 1 ELSE Cell(q * szInc + c, at)]
    <3>1. r + 1 \in 1..szInc
      BY <1>0
    <3> QED
      BY <2>2, <3>1
  <2>4. [Block(fEType, q + 1, at) EXCEPT ![r + 1] = at + 1]
          = [c \in 1..szInc |-> Cell(q * szInc + c, at + 1)]
    BY <2>1, <2>3
  <2> QED
    BY <2>2, <2>4, Zenon
<1>3. WriteByte(WriteState(at), at + 1) = IF r + 1 = szInc THEN Flushed(put) ELSE put
  <2>1. PICK B, F : /\ B = Block(fEType, q + 1, at) /\ F = FileBlocks(fEType, at, q)
                    /\ [B EXCEPT ![r + 1] = at + 1] = Block(fEType, q + 1, at + 1)
    BY <1>2, Zenon
  <2>2. WriteState(at) = [buf |-> B, blocks |-> F, at |-> at]
    BY <1>1, <2>1, Zenon DEF WriteState
  <2>3. put = [buf |-> [B EXCEPT ![r + 1] = at + 1], blocks |-> F, at |-> at + 1]
    BY <1>1, <2>1, Zenon
  <2>4. PICK w, v : /\ w = [buf |-> B, blocks |-> F, at |-> at]
                    /\ v = [w EXCEPT !.buf[r + 1] = at + 1, !.at = @ + 1]
    OBVIOUS
  <2>5. v.buf = [B EXCEPT ![r + 1] = at + 1] /\ v.blocks = F /\ v.at = at + 1
    BY <2>4
  <2>6. v = [buf |-> v.buf, blocks |-> v.blocks, at |-> v.at]
    BY <2>4, Zenon
  <2>7. w.at % szInc = r
    BY <1>1, <2>4
  <2>8. WriteByte(w, at + 1) = IF r + 1 = szInc THEN Flushed(v) ELSE v
    BY <2>4, <2>7, Zenon DEF WriteByte
  <2>9. v = put
    BY <2>3, <2>5, <2>6, Zenon
  <2> HIDE DEF put
  <2> QED
    BY <2>2, <2>4, <2>8, <2>9, Zenon
<1>4. FileBlocks(fEType, at, q) = FileBlocks(fEType, at + 1, q)
  <2>1. q * BlockSize[fEType] <= at
    BY <1>0, <1>1
  <2> QED
    BY <2>1, FullBlocks
<1>5. CASE r + 1 = szInc
  <2>1. Append(FileBlocks(fEType, at + 1, q), Enciphered(fEType, Block(fEType, q + 1, at + 1)))
          = FileBlocks(fEType, at + 1, q + 1)
    BY NextBlock
  <2>2. Zeros(fEType) = Block(fEType, q + 1 + 1, at + 1)
    <3>1. ASSUME NEW c \in 1..szInc
          PROVE  Cell((q + 1 + 1 - 1) * szInc + c, at + 1) = 0
      <4>1. (q + 1 + 1 - 1) * szInc = at + 1
        BY <1>0, <1>1, <1>5
      <4> QED
        BY <1>0, <4>1 DEF Cell
    <3> QED
      BY <1>0, <3>1 DEF Zeros, Block
  <2>3. Flushed(put) = WriteState(at + 1)
    <3>1. PICK B, F, G, Z : /\ B = Block(fEType, q + 1, at + 1) /\ F = FileBlocks(fEType, at, q)
                            /\ G = FileBlocks(fEType, at + 1, q + 1) /\ Z = Zeros(fEType)
                            /\ Append(F, Enciphered(fEType, B)) = G
      BY <1>4, <2>1, Zenon
    <3>2. put = [buf |-> B, blocks |-> F, at |-> at + 1]
      BY <1>1, <3>1, Zenon
    <3>3. WriteState(at + 1) = [buf |-> Z, blocks |-> G, at |-> at + 1]
      BY <1>1, <1>5, <2>2, <3>1, Zenon DEF WriteState
    <3>4. PICK w, v : /\ w = [buf |-> B, blocks |-> F, at |-> at + 1]
                      /\ v = [w EXCEPT !.blocks = Append(@, Enciphered(fEType, w.buf)), !.buf = Z]
      OBVIOUS
    <3>5. v.buf = Z /\ v.blocks = Append(F, Enciphered(fEType, B)) /\ v.at = at + 1
      BY <3>4
    <3>6. v = [buf |-> v.buf, blocks |-> v.blocks, at |-> v.at]
      BY <3>4, Zenon
    <3>7. Flushed(w) = v
      BY <3>1, <3>4, Zenon DEF Flushed
    <3> HIDE DEF put
    <3> QED
      BY <3>1, <3>2, <3>3, <3>4, <3>5, <3>6, <3>7, Zenon
  <2> QED
    BY <1>3, <1>5, <2>3
<1>6. CASE r + 1 # szInc
  <2>1. WriteState(at + 1) = put
    BY <1>1, <1>4, <1>6, Zenon DEF WriteState
  <2> HIDE DEF put
  <2> QED
    BY <1>3, <1>6, <2>1
<1> QED
  BY <1>5, <1>6

\* write of the next n bytes.
LEMMA WritingNext ==
  ASSUME IInv, fMode = "write", NEW n \in Nat
  PROVE  Writing([i \in 1..n |-> fDataPos + i]) = WriteState(fDataPos + n)
<1> DEFINE new == [i \in 1..n |-> fDataPos + i]
<1> DEFINE start == [buf |-> fLBuffer, blocks |-> blocks, at |-> fDataPos]
<1> DEFINE W(w) == w = [i \in 0..n |-> IF i = 0 THEN start ELSE WriteByte(w[i - 1], new[i])]
<1> DEFINE v == [i \in 0..n |-> WriteState(fDataPos + i)]
<1> DEFINE w == CHOOSE w : W(w)
<1>0. fDataPos \in Nat /\ fEType \in Ciphers
  BY SizesAssumption DEF IInv, Types
<1>1. start = WriteState(fDataPos + 0)
  BY <1>0 DEF IInv, WriterInv, WriteState
<1>2. \A i \in 1..n : WriteByte(WriteState(fDataPos + (i - 1)), fDataPos + i) = WriteState(fDataPos + i)
  <2> SUFFICES ASSUME NEW i \in 1..n
               PROVE  WriteByte(WriteState(fDataPos + (i - 1)), fDataPos + i) = WriteState(fDataPos + i)
    OBVIOUS
  <2>1. PICK at \in Nat : at = fDataPos + (i - 1) /\ at + 1 = fDataPos + i
    BY <1>0
  <2> QED
    BY <1>0, <2>1, WriteNext, Zenon
<1>3. W(v)
  <2>1. ASSUME NEW i \in 0..n
        PROVE  v[i] = IF i = 0 THEN start ELSE WriteByte(v[i - 1], new[i])
    <3>1. CASE i = 0
      BY <1>1, <3>1
    <3>2. CASE i # 0
      <4>1. i - 1 \in 0..n /\ i \in 1..n
        BY <3>2
      <4>2. v[i - 1] = WriteState(fDataPos + (i - 1)) /\ new[i] = fDataPos + i
        BY <4>1
      <4> QED
        BY <1>2, <3>2, <4>1, <4>2
    <3> QED
      BY <3>1, <3>2
  <2>2. v = [i \in 0..n |-> v[i]]
    OBVIOUS
  <2> HIDE DEF v
  <2> QED
    BY <2>1, <2>2
<1>4. W(w)
  <2> HIDE DEF v, W
  <2> QED
    BY <1>3
<1>5. \A i \in 0..n : w[i] = WriteState(fDataPos + i)
  <2> HIDE DEF w
  <2> DEFINE T == {i \in 0..n : w[i] = WriteState(fDataPos + i)}
  <2>1. \A i \in 0..n : w[i] = IF i = 0 THEN start ELSE WriteByte(w[i - 1], new[i])
    <3>1. PICK f : /\ f = [i \in 0..n |-> IF i = 0 THEN start ELSE WriteByte(w[i - 1], new[i])]
                   /\ w = f
      BY <1>4
    <3> HIDE DEF start, new
    <3>2. \A i \in 0..n : f[i] = IF i = 0 THEN start ELSE WriteByte(w[i - 1], new[i])
      BY <3>1, Zenon
    <3> QED
      BY <3>1, <3>2, Zenon
  <2>2. 0 \in T
    <3>1. w[0] = start
      <4> HIDE DEF start, new
      <4>1. 0 \in 0..n
        OBVIOUS
      <4> QED
        BY <2>1, <4>1, Zenon
    <3> HIDE DEF start
    <3> QED
      BY <1>1, <3>1
  <2>3. \A i \in 0..n - 1 : i \in T => i + 1 \in T
    <3> SUFFICES ASSUME NEW i \in 0..n - 1, i \in T PROVE i + 1 \in T
      OBVIOUS
    <3>1. PICK k \in 1..n : k = i + 1 /\ k - 1 = i
      OBVIOUS
    <3>2. w[k] = WriteByte(w[k - 1], new[k])
      <4> HIDE DEF start, new
      <4>1. k \in 0..n /\ k # 0
        OBVIOUS
      <4> QED
        BY <2>1, <4>1, Zenon
    <3>3. w[k] = WriteByte(WriteState(fDataPos + (k - 1)), fDataPos + k)
      BY <3>1, <3>2
    <3> QED
      BY <1>2, <3>1, <3>3
  <2> HIDE DEF T
  <2>4. \A i \in 0..n : i \in T
    BY <2>2, <2>3, UpTo
  <2> QED
    BY <2>4 DEF T
<1>6. Len(new) = n
  OBVIOUS
<1>7. Writing(new) = w[n]
  <2> HIDE DEF new
  <2> QED
    BY <1>6, Zenon DEF Writing
<1> QED
  <2> HIDE DEF w
  <2> QED
    BY <1>5, <1>7

-----------------------------------------------------------------------------
(* Reading.                                                                *)

\* The states of a read: a buffer that is used is a block of bytes.
Readings ==
  {r \in [at : Nat, base : 0..Len(blocks), buf : {fLBuffer} \cup [1..szInc -> Bytes],
          out : Seq(Bytes), failed : BOOLEAN] :
     r.at % szInc # 0 => r.buf \in [1..szInc -> Bytes]}

\* What a step of read does to each part of its state.
LEMMA ReadParts ==
  ASSUME NEW r, r = [at |-> r.at, base |-> r.base, buf |-> r.buf, out |-> r.out, failed |-> r.failed]
  PROVE  /\ r.failed \/ (r.at % szInc = 0 /\ r.base = Len(blocks)) =>
              ReadByte(r) = [at |-> r.at, base |-> r.base, buf |-> r.buf, out |-> r.out, failed |-> TRUE]
         /\ ~r.failed /\ r.at % szInc = 0 /\ r.base # Len(blocks) =>
              ReadByte(r) = [at |-> r.at + 1, base |-> r.base + 1,
                             buf |-> Deciphered(fEType, blocks[r.base + 1]),
                             out |-> Append(r.out, Deciphered(fEType, blocks[r.base + 1])[1]),
                             failed |-> r.failed]
         /\ ~r.failed /\ r.at % szInc # 0 =>
              ReadByte(r) = [at |-> r.at + 1, base |-> r.base, buf |-> r.buf,
                             out |-> Append(r.out, r.buf[(r.at % szInc) + 1]), failed |-> r.failed]
<1>1. PICK f : f = [r EXCEPT !.failed = TRUE]
  OBVIOUS
<1>2. f = [at |-> r.at, base |-> r.base, buf |-> r.buf, out |-> r.out, failed |-> TRUE]
  BY <1>1, Zenon
<1>3. PICK D : D = Deciphered(fEType, blocks[r.base + 1])
  OBVIOUS
<1>4. PICK d : d = [r EXCEPT !.buf = D, !.base = @ + 1]
  OBVIOUS
<1>5. /\ d = [at |-> d.at, base |-> d.base, buf |-> d.buf, out |-> d.out, failed |-> d.failed]
      /\ d.at = r.at /\ d.base = r.base + 1 /\ d.buf = D /\ d.out = r.out /\ d.failed = r.failed
  <2>1. d = [at |-> d.at, base |-> d.base, buf |-> d.buf, out |-> d.out, failed |-> d.failed]
    BY <1>4, Zenon
  <2>2. d.at = r.at /\ d.base = r.base + 1 /\ d.buf = D /\ d.out = r.out /\ d.failed = r.failed
    BY <1>4
  <2> QED
    BY <2>1, <2>2, Zenon
<1>6. \A q, x : q = [at |-> q.at, base |-> q.base, buf |-> q.buf, out |-> q.out, failed |-> q.failed] =>
        [q EXCEPT !.out = Append(@, x), !.at = @ + 1]
          = [at |-> q.at + 1, base |-> q.base, buf |-> q.buf, out |-> Append(q.out, x), failed |-> q.failed]
  <2> SUFFICES ASSUME NEW q, NEW x,
                      q = [at |-> q.at, base |-> q.base, buf |-> q.buf, out |-> q.out, failed |-> q.failed]
               PROVE  [q EXCEPT !.out = Append(@, x), !.at = @ + 1]
                        = [at |-> q.at + 1, base |-> q.base, buf |-> q.buf, out |-> Append(q.out, x), failed |-> q.failed]
    OBVIOUS
  <2>1. PICK v : v = [q EXCEPT !.out = Append(@, x), !.at = @ + 1]
    OBVIOUS
  <2>2. v = [at |-> v.at, base |-> v.base, buf |-> v.buf, out |-> v.out, failed |-> v.failed]
    BY <2>1, Zenon
  <2>3. v.at = q.at + 1 /\ v.base = q.base /\ v.buf = q.buf /\ v.out = Append(q.out, x) /\ v.failed = q.failed
    BY <2>1
  <2> QED
    BY <2>1, <2>2, <2>3, Zenon
<1>7. 0 + 1 = 1
  OBVIOUS
<1>8. CASE r.failed \/ (r.at % szInc = 0 /\ r.base = Len(blocks))
  <2>1. ReadByte(r) = f
    BY <1>1, <1>8, Zenon DEF ReadByte
  <2> QED
    BY <1>2, <1>8, <2>1, Zenon
<1>9. CASE ~r.failed /\ r.at % szInc = 0 /\ r.base # Len(blocks)
  <2>1. ReadByte(r) = [d EXCEPT !.out = Append(@, d.buf[1]), !.at = @ + 1]
    BY <1>3, <1>4, <1>7, <1>9, Zenon DEF ReadByte
  <2>2. ReadByte(r) = [at |-> d.at + 1, base |-> d.base, buf |-> d.buf, out |-> Append(d.out, d.buf[1]), failed |-> d.failed]
    BY <1>5, <1>6, <2>1, Zenon
  <2>3. ReadByte(r) = [at |-> r.at + 1, base |-> r.base + 1, buf |-> D, out |-> Append(r.out, D[1]), failed |-> r.failed]
    BY <1>5, <2>2, Zenon
  <2> QED
    BY <1>3, <1>9, <2>3, Zenon
<1>10. CASE ~r.failed /\ r.at % szInc # 0
  <2>1. ReadByte(r) = [r EXCEPT !.out = Append(@, r.buf[(r.at % szInc) + 1]), !.at = @ + 1]
    BY <1>10, Zenon DEF ReadByte
  <2> QED
    BY <1>6, <1>10, <2>1, Zenon
<1> QED
  BY <1>8, <1>9, <1>10, Zenon

\* A reader finds the blocks of the file it has opened.
LEMMA ReaderBlocks ==
  ASSUME IInv, fMode = "read"
  PROVE  /\ szInc \in Nat \ {0} /\ fEType \in Ciphers
         /\ MaxSize \in Nat /\ fDataSize \in 0..MaxSize /\ fDataPos \in 0..fDataSize
         /\ Len(blocks) \in Nat /\ Len(blocks) <= Ceil(fDataSize, szInc)
         /\ ~cutOff => Len(blocks) = Ceil(fDataSize, szInc)
         /\ written = [i \in 1..fDataSize |-> i]
         /\ \A j \in 1..Len(blocks) :
              /\ Deciphered(fEType, blocks[j]) = Block(fEType, j, fDataSize)
              /\ Block(fEType, j, fDataSize) \in [1..szInc -> Bytes]
<1>1. /\ szInc \in Nat \ {0} /\ szInc = BlockSize[fEType] /\ fEType \in Ciphers
      /\ MaxSize \in Nat /\ fDataSize \in 0..MaxSize /\ fDataPos \in 0..fDataSize
  BY Sizes, SizesAssumption DEF IInv, Types, szInc
<1>2. /\ header # NoHeader /\ fEType = header.type /\ fDataSize = header.size
  BY DEF IInv, FileInv, ReaderInv
<1>3. written = [i \in 1..fDataSize |-> i]
  BY <1>2, Zenon DEF IInv, FileInv
<1>4. PICK k \in 0..Ceil(fDataSize, szInc) :
        /\ blocks = FileBlocks(fEType, fDataSize, k)
        /\ ~cutOff => k = Ceil(fDataSize, szInc)
  BY <1>1, <1>2, Zenon DEF IInv, FileInv
<1>5. Ceil(fDataSize, szInc) \in Nat
  <2>1. fDataSize \in Nat
    BY <1>1
  <2> QED
    BY <1>1, <2>1, CeilDiv
<1>6. k \in Nat /\ k <= Ceil(fDataSize, szInc)
  <2> HIDE DEF Ceil
  <2> QED
    BY <1>4, <1>5
<1>7. /\ Len(blocks) = k
      /\ \A j \in 1..k : blocks[j] = Enciphered(fEType, Block(fEType, j, fDataSize))
  BY <1>4, <1>6, FileBlocksSeq
<1>8. ASSUME NEW j \in 1..k
      PROVE  /\ Deciphered(fEType, blocks[j]) = Block(fEType, j, fDataSize)
             /\ Block(fEType, j, fDataSize) \in [1..szInc -> Bytes]
  <2>1. j \in Nat \ {0}
    BY <1>6
  <2>2. Block(fEType, j, fDataSize) \in [1..szInc -> Bytes]
    BY <1>1, <2>1, BlockBytes
  <2>3. PICK B : B = Block(fEType, j, fDataSize) /\ blocks[j] = [cipher |-> fEType, cells |-> B]
    BY <1>7 DEF Enciphered
  <2>4. Deciphered(fEType, blocks[j]) = B
    BY <2>3 DEF Deciphered
  <2> QED
    BY <2>2, <2>3, <2>4, Zenon
<1> QED
  BY <1>1, <1>3, <1>4, <1>6, <1>7, <1>8, Zenon

\* read of one byte stays in these states.
LEMMA ReadTyped ==
  ASSUME IInv, fMode = "read", NEW r \in Readings
  PROVE  ReadByte(r) \in Readings
<1>1. /\ r \in [at : Nat, base : 0..Len(blocks), buf : {fLBuffer} \cup [1..szInc -> Bytes],
                out : Seq(Bytes), failed : BOOLEAN]
      /\ r.at % szInc # 0 => r.buf \in [1..szInc -> Bytes]
  BY DEF Readings
<1>2. r = [at |-> r.at, base |-> r.base, buf |-> r.buf, out |-> r.out, failed |-> r.failed]
  BY <1>1
<1>3. /\ r.at \in Nat /\ r.base \in 0..Len(blocks) /\ r.buf \in {fLBuffer} \cup [1..szInc -> Bytes]
      /\ r.out \in Seq(Bytes) /\ r.failed \in BOOLEAN
  BY <1>1
<1>4. szInc \in Nat \ {0} /\ Len(blocks) \in Nat
  BY ReaderBlocks
<1>5. ASSUME NEW at \in Nat, NEW b \in 0..Len(blocks), NEW buf \in [1..szInc -> Bytes],
             NEW out \in Seq(Bytes), NEW f \in BOOLEAN
      PROVE  [at |-> at, base |-> b, buf |-> buf, out |-> out, failed |-> f] \in Readings
  BY DEF Readings
<1>6. CASE r.failed \/ (r.at % szInc = 0 /\ r.base = Len(blocks))
  <2>1. ReadByte(r) = [at |-> r.at, base |-> r.base, buf |-> r.buf, out |-> r.out, failed |-> TRUE]
    BY <1>2, <1>6, ReadParts
  <2> QED
    BY <1>1, <1>3, <2>1 DEF Readings
<1>7. CASE ~r.failed /\ r.at % szInc = 0 /\ r.base # Len(blocks)
  <2>1. ReadByte(r) = [at |-> r.at + 1, base |-> r.base + 1,
                       buf |-> Deciphered(fEType, blocks[r.base + 1]),
                       out |-> Append(r.out, Deciphered(fEType, blocks[r.base + 1])[1]),
                       failed |-> r.failed]
    BY <1>2, <1>7, ReadParts
  <2>2. r.at + 1 \in Nat /\ r.base + 1 \in 1..Len(blocks)
    BY <1>3, <1>4, <1>7
  <2>3. PICK D : D = Deciphered(fEType, blocks[r.base + 1]) /\ D \in [1..szInc -> Bytes]
    BY <2>2, ReaderBlocks
  <2>4. Append(r.out, D[1]) \in Seq(Bytes)
    <3>1. 1 \in 1..szInc
      BY <1>4
    <3>2. D[1] \in Bytes
      BY <2>3, <3>1
    <3> QED
      BY <1>3, <3>2, AppendProperties
  <2>5. r.base + 1 \in 0..Len(blocks)
    BY <2>2, <1>4
  <2> QED
    <3>1. PICK at \in Nat, b \in 0..Len(blocks), buf \in [1..szInc -> Bytes],
               out \in Seq(Bytes), f \in BOOLEAN :
            ReadByte(r) = [at |-> at, base |-> b, buf |-> buf, out |-> out, failed |-> f]
      BY <1>3, <2>1, <2>2, <2>3, <2>4, <2>5, Zenon
    <3> QED
      BY <1>5, <3>1
<1>8. CASE ~r.failed /\ r.at % szInc # 0
  <2>1. ReadByte(r) = [at |-> r.at + 1, base |-> r.base, buf |-> r.buf,
                       out |-> Append(r.out, r.buf[(r.at % szInc) + 1]), failed |-> r.failed]
    BY <1>2, <1>8, ReadParts
  <2>2. r.at + 1 \in Nat /\ (r.at % szInc) + 1 \in 1..szInc
    <3>1. r.at % szInc \in 0..szInc - 1
      BY <1>3, <1>4, DivMod
    <3> QED
      BY <1>3, <1>4, <3>1
  <2>3. r.buf \in [1..szInc -> Bytes]
    BY <1>1, <1>8
  <2>4. Append(r.out, r.buf[(r.at % szInc) + 1]) \in Seq(Bytes)
    <3>1. r.buf[(r.at % szInc) + 1] \in Bytes
      BY <2>2, <2>3
    <3> QED
      BY <1>3, <3>1, AppendProperties
  <2> QED
    <3>1. PICK at \in Nat, b \in 0..Len(blocks), buf \in [1..szInc -> Bytes],
               out \in Seq(Bytes), f \in BOOLEAN :
            ReadByte(r) = [at |-> at, base |-> b, buf |-> buf, out |-> out, failed |-> f]
      BY <1>3, <2>1, <2>2, <2>3, <2>4, Zenon
    <3> QED
      BY <1>5, <3>1
<1> QED
  BY <1>3, <1>6, <1>7, <1>8

\* Cell i of a block.
LEMMA BlockCells ==
  ASSUME NEW j, NEW size, NEW i \in 1..szInc
  PROVE  Block(fEType, j, size)[i] = Cell((j - 1) * szInc + i, size)
<1> USE DEF szInc
<1> QED
  BY Zenon DEF Block

\* Two numbers that go on together.
LEMMA BothNext ==
  ASSUME NEW m \in Nat, NEW c \in Nat, NEW b \in Nat, NEW a \in Nat, m + c = b + a
  PROVE  m + 1 + c = b + (a + 1)
OBVIOUS

\* A read from position at, with the base stream at b, that has come i bytes
\* far or has failed: if the base stream was where it belongs, it has read the
\* bytes behind at, and it fails only in a file that is cut off.
Reached(r, at, b, i) ==
  /\ r \in Readings
  /\ r.base >= b
  /\ IF r.base = b THEN r.buf = fLBuffer ELSE r.buf \in [1..szInc -> Bytes]
  /\ ~r.failed =>
       /\ r.at = at + i /\ Len(r.out) = i
       /\ r.base + Ceil(at, szInc) = b + Ceil(at + i, szInc)
       /\ b = Ceil(at, szInc) =>
            /\ r.out = [k \in 1..i |-> at + k]
            /\ (at + i) % szInc # 0 => r.buf = Block(fEType, r.base, fDataSize)
  /\ r.failed /\ b = Ceil(at, szInc) => Len(blocks) < Ceil(fDataSize, szInc)

\* The beginning of a read.
LEMMA ReadStart ==
  ASSUME IInv, fMode = "read", NEW at \in Nat, NEW b \in 0..Len(blocks),
         at % szInc # 0 => /\ fLBuffer \in [1..szInc -> Bytes]
                           /\ b = Ceil(at, szInc) => fLBuffer = Block(fEType, b, fDataSize)
  PROVE  Reached([at |-> at, base |-> b, buf |-> fLBuffer, out |-> <<>>, failed |-> FALSE], at, b, 0)
<1>1. PICK r : r = [at |-> at, base |-> b, buf |-> fLBuffer, out |-> <<>>, failed |-> FALSE]
  OBVIOUS
<1>2. r.at = at /\ r.base = b /\ r.buf = fLBuffer /\ r.out = <<>> /\ r.failed = FALSE
  BY <1>1
<1>3. r \in Readings
  <2>1. <<>> \in Seq(Bytes)
    OBVIOUS
  <2> QED
    BY <1>1, <1>2, <2>1 DEF Readings
<1>4. at + 0 = at /\ b >= b /\ Len(<<>>) = 0 /\ <<>> = [k \in 1..0 |-> at + k]
  <2>1. \A k \in 1..0 : FALSE
    OBVIOUS
  <2> QED
    BY <2>1
<1>5. Reached(r, at, b, 0)
  BY <1>2, <1>3, <1>4, Zenon DEF Reached
<1> QED
  BY <1>1, <1>5, Zenon

\* read of one byte.
LEMMA ReadReached ==
  ASSUME IInv, fMode = "read", NEW at \in Nat, NEW b \in 0..Len(blocks), NEW i \in Nat,
         at + i + 1 <= fDataSize, NEW r, Reached(r, at, b, i)
  PROVE  Reached(ReadByte(r), at, b, i + 1)
<1>1. /\ r \in [at : Nat, base : 0..Len(blocks), buf : {fLBuffer} \cup [1..szInc -> Bytes],
                out : Seq(Bytes), failed : BOOLEAN]
      /\ r.at % szInc # 0 => r.buf \in [1..szInc -> Bytes]
  BY DEF Reached, Readings
<1>2. r = [at |-> r.at, base |-> r.base, buf |-> r.buf, out |-> r.out, failed |-> r.failed]
  BY <1>1
<1>3. /\ r.at \in Nat /\ r.base \in 0..Len(blocks) /\ r.out \in Seq(Bytes) /\ r.failed \in BOOLEAN
  BY <1>1
<1>4. szInc \in Nat \ {0} /\ Len(blocks) \in Nat /\ fDataSize \in Nat
  BY ReaderBlocks
<1>5. ReadByte(r) \in Readings
  BY ReadTyped DEF Reached
<1>6. CASE r.failed
  <2>1. ReadByte(r) = r
    BY <1>2, <1>3, <1>6, ReadParts
  <2> QED
    BY <1>6, <2>1 DEF Reached
<1>7. PICK x \in Nat : x = at + i /\ x + 1 <= fDataSize /\ at + (i + 1) = x + 1
  BY <1>4
<1>8. PICK c \in Nat, a \in Nat, e \in Nat :
        /\ c = Ceil(at, szInc) /\ a = Ceil(x, szInc) /\ e = Ceil(x + 1, szInc)
        /\ e = IF x % szInc = 0 THEN a + 1 ELSE a
  <2>1. x + 1 \in Nat
    OBVIOUS
  <2>2. Ceil(at, szInc) \in Nat /\ Ceil(x, szInc) \in Nat /\ Ceil(x + 1, szInc) \in Nat
    BY <1>4, <2>1, CeilDiv
  <2>3. Ceil(x + 1, szInc) = IF x % szInc = 0 THEN Ceil(x, szInc) + 1 ELSE Ceil(x, szInc)
    BY <1>4, CeilNext
  <2> QED
    BY <2>2, <2>3, Zenon
<1>9. ASSUME ~r.failed
      PROVE  /\ r.at = x /\ Len(r.out) = i
             /\ r.base + c = b + a
             /\ b = c =>
                  /\ r.out = [k \in 1..i |-> at + k]
                  /\ x % szInc # 0 => r.buf = Block(fEType, r.base, fDataSize)
             /\ r.base >= b
             /\ IF r.base = b THEN r.buf = fLBuffer ELSE r.buf \in [1..szInc -> Bytes]
  BY <1>7, <1>8, <1>9, Zenon DEF Reached
<1>10. PICK l \in 0..szInc - 1, q \in Nat : /\ l = x % szInc /\ q = x \div szInc /\ x = q * szInc + l
                                            /\ a = IF l = 0 THEN q ELSE q + 1
  <2>1. x \div szInc \in Nat /\ x % szInc \in 0..szInc - 1 /\ x = (x \div szInc) * szInc + (x % szInc)
    BY <1>4, DivMod
  <2>2. Ceil(x, szInc) = IF x % szInc = 0 THEN x \div szInc ELSE (x \div szInc) + 1
    BY <1>4, CeilDiv
  <2> QED
    BY <1>8, <2>1, <2>2, Zenon
<1>11. \A o : o = [k \in 1..i |-> at + k] => Append(o, x + 1) = [k \in 1..i + 1 |-> at + k]
  <2> SUFFICES ASSUME NEW o \in Seq(Nat), Len(o) = i, \A k \in 1..i : o[k] = at + k
               PROVE  Append(o, x + 1) = [k \in 1..i + 1 |-> at + k]
    <3> SUFFICES ASSUME NEW o, o = [k \in 1..i |-> at + k]
                 PROVE  o \in Seq(Nat) /\ Len(o) = i /\ \A k \in 1..i : o[k] = at + k
      BY Zenon
    <3>1. \A k \in 1..i : at + k \in Nat
      OBVIOUS
    <3> QED
      BY <3>1
  <2>1. x + 1 \in Nat
    OBVIOUS
  <2>2. PICK s : s = Append(o, x + 1)
    OBVIOUS
  <2>3. s \in Seq(Nat) /\ Len(s) = i + 1 /\ s[i + 1] = x + 1 /\ \A k \in 1..i : s[k] = o[k]
    BY <2>1, <2>2, AppendProperties
  <2>5. \A k \in 1..i + 1 : s[k] = at + k
    <3> SUFFICES ASSUME NEW k \in 1..i + 1 PROVE s[k] = at + k
      OBVIOUS
    <3>1. CASE k = i + 1
      BY <1>7, <2>3, <3>1
    <3>2. CASE k \in 1..i
      BY <2>3, <3>2
    <3> QED
      BY <3>1, <3>2
  <2>4. s = [k \in 1..i + 1 |-> s[k]]
    BY <2>3
  <2> QED
    BY <2>2, <2>4, <2>5
\* Failing: the base stream is at the end of the file.
<1>12. CASE ~r.failed /\ r.at % szInc = 0 /\ r.base = Len(blocks)
  <2>1. PICK v : v = ReadByte(r) /\ v = [at |-> r.at, base |-> r.base, buf |-> r.buf, out |-> r.out, failed |-> TRUE]
    BY <1>2, <1>12, ReadParts
  <2>2. v.base = r.base /\ v.buf = r.buf /\ v.failed = TRUE
    BY <2>1
  <2>3. b = c => Len(blocks) < Ceil(fDataSize, szInc)
    <3>1. Ceil(x + 1, szInc) <= Ceil(fDataSize, szInc) /\ Ceil(fDataSize, szInc) \in Nat
      <4>1. x + 1 \in Nat
        OBVIOUS
      <4> QED
        BY <1>4, <1>7, <4>1, CeilMonotone, CeilDiv
    <3>2. PICK f \in Nat : f = Ceil(fDataSize, szInc) /\ e <= f
      BY <1>8, <3>1
    <3>3. e = a + 1 /\ r.base + c = b + a /\ r.base = Len(blocks)
      BY <1>8, <1>9, <1>12, Zenon
    <3> HIDE DEF Ceil
    <3>4. b = c => Len(blocks) < f
      BY <1>3, <1>4, <3>2, <3>3
    <3> QED
      BY <3>2, <3>4
  <2> QED
    BY <1>5, <1>8, <1>9, <1>12, <2>1, <2>2, <2>3, Zenon DEF Reached
\* At the beginning of a block: the next block is deciphered.
<1>13. CASE ~r.failed /\ r.at % szInc = 0 /\ r.base # Len(blocks)
  <2>0. /\ r.at = x /\ Len(r.out) = i /\ r.base + c = b + a /\ r.base >= b
        /\ x % szInc = 0 /\ e = a + 1 /\ l = 0 /\ a = q
    BY <1>8, <1>9, <1>10, <1>13, Zenon
  <2>1. PICK D : /\ D = Deciphered(fEType, blocks[r.base + 1])
                 /\ D = Block(fEType, r.base + 1, fDataSize) /\ D \in [1..szInc -> Bytes]
    <3>1. r.base + 1 \in 1..Len(blocks)
      BY <1>3, <1>4, <1>13
    <3> QED
      BY <3>1, ReaderBlocks
  <2>2. PICK v : v = ReadByte(r) /\ v = [at |-> r.at + 1, base |-> r.base + 1, buf |-> D,
                                         out |-> Append(r.out, D[1]), failed |-> r.failed]
    BY <1>2, <1>13, <2>1, ReadParts
  <2>3. v.at = x + 1 /\ v.base = r.base + 1 /\ v.buf = D /\ v.out = Append(r.out, D[1]) /\ v.failed = r.failed
    BY <2>0, <2>2
  <2>4. Len(v.out) = i + 1
    <3>1. D[1] \in Bytes
      <4>1. 1 \in 1..szInc
        BY <1>4
      <4> QED
        BY <2>1, <4>1
    <3> QED
      BY <1>3, <2>0, <2>3, <3>1, AppendProperties
  <2>5. v.base + c = b + e
    <3>1. PICK m : m = r.base /\ m \in Nat
      BY <1>3, <1>4
    <3>2. b \in Nat /\ m + c = b + a /\ e = a + 1 /\ v.base = m + 1
      BY <1>4, <2>0, <2>3, <3>1
    <3>3. m + 1 + c = b + (a + 1)
      <4>1. m \in Nat /\ b \in Nat /\ m + c = b + a
        BY <3>1, <3>2, Zenon
      <4> QED
        BY <4>1, BothNext, SMT
    <3> QED
      BY <3>2, <3>3
  <2>6. v.base >= b /\ v.base # b
    <3>1. r.base \in Nat /\ b \in Nat
      BY <1>3, <1>4
    <3> QED
      BY <2>0, <2>3, <3>1
  <2>7. ASSUME b = c
        PROVE  v.out = [k \in 1..i + 1 |-> at + k]
    <3>1. r.base = q
      <4>1. r.base \in Nat /\ b \in Nat
        BY <1>3, <1>4
      <4> QED
        BY <2>0, <2>7, <4>1
    <3>2. D[1] = x + 1
      <4>1. 1 \in 1..szInc /\ szInc = BlockSize[fEType]
        BY <1>4 DEF szInc
      <4>2. PICK j : j = r.base + 1 /\ D = Block(fEType, j, fDataSize)
        BY <2>1, Zenon
      <4>3. D[1] = Cell((j - 1) * szInc + 1, fDataSize)
        BY <4>1, <4>2, BlockCells
      <4>4. (j - 1) * szInc + 1 = x + 1
        <5>1. j - 1 = q
          BY <3>1, <4>2
        <5>2. x = q * szInc + 0
          BY <1>10, <2>0, Zenon
        <5> QED
          BY <1>4, <5>1, <5>2
      <4> QED
        BY <1>7, <4>3, <4>4 DEF Cell
    <3>3. r.out = [k \in 1..i |-> at + k]
      BY <1>9, <1>13, <2>7
    <3> QED
      BY <1>11, <2>3, <3>2, <3>3, Zenon
  <2> QED
    BY <1>5, <1>7, <1>8, <1>13, <2>1, <2>2, <2>3, <2>4, <2>5, <2>6, <2>7, ZenonT(60) DEF Reached
\* Within a block.
<1>14. CASE ~r.failed /\ r.at % szInc # 0
  <2>1. PICK v : v = ReadByte(r) /\ v = [at |-> r.at + 1, base |-> r.base, buf |-> r.buf,
                                         out |-> Append(r.out, r.buf[(r.at % szInc) + 1]), failed |-> r.failed]
    BY <1>2, <1>14, ReadParts
  <2>0. /\ r.at = x /\ Len(r.out) = i /\ r.base + c = b + a
        /\ x % szInc # 0 /\ e = a /\ l # 0 /\ a = q + 1 /\ r.at % szInc = l
    BY <1>8, <1>9, <1>10, <1>14, Zenon
  <2>2. /\ v.at = x + 1 /\ v.base = r.base /\ v.buf = r.buf /\ v.failed = r.failed
        /\ v.out = Append(r.out, r.buf[l + 1])
    BY <2>0, <2>1
  <2>3. l # 0 /\ l + 1 \in 1..szInc
    BY <1>4, <2>0
  <2>4. Len(v.out) = i + 1
    <3>1. r.buf[l + 1] \in Bytes
      BY <1>1, <1>14, <2>3
    <3> QED
      <4>1. Len(Append(r.out, r.buf[l + 1])) = Len(r.out) + 1
        BY <1>3, <3>1, AppendProperties
      <4> QED
        BY <2>0, <2>2, <4>1, Zenon
  <2>5. v.base + c = b + e
    BY <1>8, <1>9, <1>10, <1>14, <2>2, <2>3, Zenon
  <2>6. ASSUME b = c
        PROVE  /\ v.out = [k \in 1..i + 1 |-> at + k]
               /\ v.buf = Block(fEType, v.base, fDataSize)
    <3>1. r.base = q + 1
      <4>1. r.base + c = b + a /\ a = q + 1
        BY <1>9, <1>10, <1>14, <2>3, Zenon
      <4> QED
        BY <1>3, <2>6, <4>1
    <3>2. r.buf = Block(fEType, q + 1, fDataSize)
      BY <1>9, <1>10, <1>14, <2>3, <2>6, <3>1, Zenon
    <3>3. r.buf[l + 1] = x + 1
      <4>1. szInc = BlockSize[fEType]
        BY DEF szInc
      <4>2. r.buf[l + 1] = Cell((q + 1 - 1) * szInc + (l + 1), fDataSize)
        BY <2>3, <3>2, BlockCells
      <4>3. (q + 1 - 1) * szInc + (l + 1) = x + 1
        <5>1. q + 1 - 1 = q
          OBVIOUS
        <5>2. x = q * szInc + l
          BY <1>10
        <5> QED
          BY <1>4, <5>1, <5>2
      <4> QED
        BY <1>7, <4>2, <4>3 DEF Cell
    <3>4. r.out = [k \in 1..i |-> at + k]
      BY <1>9, <1>14, <2>6
    <3> QED
      BY <1>11, <2>2, <3>1, <3>2, <3>3, <3>4, Zenon
  <2> QED
    BY <1>5, <1>7, <1>8, <1>9, <1>14, <2>1, <2>2, <2>4, <2>5, <2>6, ZenonT(60) DEF Reached
<1> QED
  BY <1>3, <1>6, <1>12, <1>13, <1>14

\* A read of n bytes that are there.
LEMMA ReadingReached ==
  ASSUME IInv, fMode = "read", NEW at \in Nat, NEW b \in 0..Len(blocks), NEW n \in Nat,
         at + n <= fDataSize,
         at % szInc # 0 => /\ fLBuffer \in [1..szInc -> Bytes]
                           /\ b = Ceil(at, szInc) => fLBuffer = Block(fEType, b, fDataSize)
  PROVE  Reached(Reading(at, b, n), at, b, n)
<1> DEFINE start == [at |-> at, base |-> b, buf |-> fLBuffer, out |-> <<>>, failed |-> FALSE]
<1> DEFINE W(g) == g = [i \in 0..n |-> IF i = 0 THEN start ELSE ReadByte(g[i - 1])]
<1> DEFINE w == CHOOSE g : W(g)
<1>1. Reached(start, at, b, 0)
  BY ReadStart
<1>2. \E g : W(g)
  <2> DEFINE one == [r \in Readings |-> ReadByte(r)]
  <2> DEFINE step == [i \in 1..n |-> one]
  <2>1. start \in Readings
    <3> HIDE DEF start
    <3> QED
      BY <1>1 DEF Reached
  <2>2. one \in [Readings -> Readings]
    <3>1. \A r \in Readings : ReadByte(r) \in Readings
      BY ReadTyped
    <3> QED
      BY <3>1
  <2>3. step \in [1..n -> [Readings -> Readings]]
    <3> HIDE DEF one
    <3> QED
      BY <2>2
  <2>4. PICK g \in [0..n -> Readings] : Follow(g, n, start, step)
    <3> HIDE DEF start, step
    <3> QED
      BY <2>1, <2>3, Recursion, Zenon
  <2>5. g = [i \in 0..n |-> IF i = 0 THEN start ELSE step[i][g[i - 1]]]
    <3> HIDE DEF start, step
    <3> QED
      BY <2>4, Zenon DEF Follow
  <2>6. ASSUME NEW i \in 0..n
        PROVE  (IF i = 0 THEN start ELSE step[i][g[i - 1]]) = IF i = 0 THEN start ELSE ReadByte(g[i - 1])
    <3> HIDE DEF start
    <3>1. CASE i # 0
      <4>1. i \in 1..n /\ i - 1 \in 0..n
        BY <3>1
      <4>2. g[i - 1] \in Readings
        BY <4>1
      <4>3. step[i] = one
        BY <4>1
      <4>4. one[g[i - 1]] = ReadByte(g[i - 1])
        BY <4>2
      <4> HIDE DEF step, one
      <4> QED
        BY <4>3, <4>4
    <3> QED
      BY <3>1
  <2>7. W(g)
    <3> HIDE DEF start, step
    <3> QED
      BY <2>5, <2>6
  <2> QED
    <3> HIDE DEF W
    <3> QED
      BY <2>7
<1>3. W(w)
  <2> HIDE DEF W
  <2> QED
    BY <1>2
<1>4. \A i \in 0..n : w[i] = IF i = 0 THEN start ELSE ReadByte(w[i - 1])
  <2>1. PICK f : /\ f = [i \in 0..n |-> IF i = 0 THEN start ELSE ReadByte(w[i - 1])]
                 /\ w = f
    BY <1>3
  <2> HIDE DEF start, w
  <2>2. \A i \in 0..n : f[i] = IF i = 0 THEN start ELSE ReadByte(w[i - 1])
    BY <2>1, Zenon
  <2> QED
    BY <2>1, <2>2, Zenon
<1>5. \A i \in 0..n : Reached(w[i], at, b, i)
  <2> HIDE DEF w, start
  <2> DEFINE T == {i \in 0..n : Reached(w[i], at, b, i)}
  <2>1. 0 \in T
    <3>1. 0 \in 0..n
      OBVIOUS
    <3>2. w[0] = start
      BY <1>4, <3>1, Zenon
    <3> QED
      BY <1>1, <3>1, <3>2, Zenon
  <2>2. \A i \in 0..n - 1 : i \in T => i + 1 \in T
    <3> SUFFICES ASSUME NEW i \in 0..n - 1, i \in T PROVE i + 1 \in T
      OBVIOUS
    <3>1. i \in Nat /\ i + 1 \in 0..n /\ i + 1 # 0 /\ i + 1 - 1 = i
      OBVIOUS
    <3>2. at + i + 1 <= fDataSize
      <4>1. fDataSize \in Nat
        BY ReaderBlocks
      <4> QED
        BY <4>1
    <3>3. w[i + 1] = ReadByte(w[i])
      <4>1. PICK k \in 0..n : k = i + 1 /\ k # 0 /\ k - 1 = i
        OBVIOUS
      <4>2. w[k] = ReadByte(w[k - 1])
        BY <1>4, <4>1, Zenon
      <4> QED
        BY <4>1, <4>2
    <3>4. Reached(w[i], at, b, i)
      OBVIOUS
    <3>5. Reached(ReadByte(w[i]), at, b, i + 1)
      BY <3>1, <3>2, <3>4, ReadReached
    <3> QED
      BY <3>1, <3>3, <3>5, Zenon
  <2> HIDE DEF T
  <2>3. \A i \in 0..n : i \in T
    BY <2>1, <2>2, UpTo
  <2> QED
    BY <2>3 DEF T
<1>6. Reading(at, b, n) = w[n]
  BY Zenon DEF Reading
<1> QED
  <2> HIDE DEF w
  <2>1. n \in 0..n
    OBVIOUS
  <2> QED
    BY <1>5, <1>6, <2>1, Zenon

-----------------------------------------------------------------------------
(* The invariant is kept.                                                  *)

\* The initial states.
LEMMA InitInv == Init => IInv
<1> SUFFICES ASSUME Init PROVE IInv
  OBVIOUS
<1>1. header = NoHeader /\ header.size = 0 /\ MaxSize \in Nat
  BY SizesAssumption DEF Init, NoHeader
<1>2. Types
  <2>1. fDataSize \in 0..MaxSize /\ fDataPos \in 0..fDataSize /\ header.size \in 0..MaxSize
    BY <1>1 DEF Init
  <2>2. fMode \in {"closed", "write", "read"} /\ fEType \in Ciphers /\ cutOff \in BOOLEAN
    BY DEF Init
  <2> QED
    BY <2>1, <2>2, Zenon DEF Types
<1> QED
  BY <1>1, <1>2 DEF Init, IInv, WriterInv, FileInv, ReaderInv

\* A step that only closes a file that stays as it is, or leaves all alone.
LEMMA FileStays ==
  ASSUME IInv, UNCHANGED <<header, blocks, fEType, fDataPos, fDataSize, cutOff>>,
         \/ /\ fMode' = "closed"
            /\ IF fMode = "write" THEN written' = <<>> ELSE written' = written
         \/ UNCHANGED <<fMode, written, base, fLBuffer>>
  PROVE  IInv'
<1>1. Types'
  BY DEF IInv, Types
<1>2. WriterInv'
  BY DEF IInv, WriterInv, szInc
<1>3. ReaderInv'
  BY DEF IInv, ReaderInv, szInc
<1>4. FileInv'
  <2>1. CASE fMode = "write" /\ fMode' = "closed"
    <3>1. written' = <<>>
      BY <2>1
    <3>2. header' = NoHeader
      BY <2>1 DEF IInv, WriterInv
    <3> QED
      BY <2>1, <3>1, <3>2 DEF FileInv
  <2>2. CASE fMode # "write" \/ fMode' # "closed"
    <3>1. written' = written /\ fMode' \in {"closed", fMode}
      BY <2>2
    <3>2. (fMode' = "closed" /\ fMode = "closed") \/ fMode' = fMode \/ (fMode = "read" /\ fMode' = "closed")
      BY <2>2, <3>1 DEF IInv, Types
    <3> QED
      BY <3>1, <3>2 DEF IInv, FileInv
  <2> QED
    BY <2>1, <2>2
<1> QED
  BY <1>1, <1>2, <1>3, <1>4 DEF IInv

\* open of a new file.
LEMMA OpenWriteInv ==
  ASSUME IInv, NEW type \in Ciphers, OpenWrite(type)
  PROVE  IInv'
<1>1. /\ fMode' = "write" /\ fEType' = type /\ header' = NoHeader /\ blocks' = <<>> /\ base' = 0
      /\ fDataPos' = 0 /\ fDataSize' = 0 /\ written' = <<>> /\ cutOff' = FALSE
      /\ fLBuffer' = Zeros(type)
  BY DEF OpenWrite
<1>2. BlockSize[type] \in Nat \ {0} /\ MaxSize \in Nat
  BY Sizes, SizesAssumption
<1>3. Types'
  <2>1. fDataSize' \in 0..MaxSize /\ fDataPos' \in 0..fDataSize'
    BY <1>1, <1>2
  <2>2. header'.size \in 0..MaxSize
    BY <1>1, <1>2 DEF NoHeader
  <2>3. fMode' \in {"closed", "write", "read"} /\ fEType' \in Ciphers /\ cutOff' \in BOOLEAN
    BY <1>1
  <2> QED
    BY <2>1, <2>2, <2>3, Zenon DEF Types
<1>4. 0 \div BlockSize[type] = 0
  BY <1>2, ZeroBlocks
<1>5. WriterInv'
  <2>1. Zeros(type) = Block(type, 0 + 1, 0)
    <3>1. ASSUME NEW c \in 1..BlockSize[type]
          PROVE  Cell((0 + 1 - 1) * BlockSize[type] + c, 0) = 0
      BY <1>2 DEF Cell
    <3> QED
      BY <3>1 DEF Zeros, Block
  <2>2. <<>> = FileBlocks(type, 0, 0) /\ <<>> = [i \in 1..0 |-> i] /\ Len(<<>>) = 0
    <3>1. \A i \in 1..0 : FALSE
      OBVIOUS
    <3> QED
      BY <3>1 DEF FileBlocks
  <2>3. /\ header' = NoHeader /\ ~cutOff' /\ fDataPos' = fDataSize' /\ fDataSize' \in 0..MaxSize
        /\ base' = Len(blocks')
    BY <1>1, <1>2, <2>2
  <2>4. /\ written' = [i \in 1..fDataSize' |-> i]
        /\ blocks' = FileBlocks(fEType', fDataPos', fDataPos' \div szInc')
        /\ fLBuffer' = Block(fEType', (fDataPos' \div szInc') + 1, fDataPos')
    BY <1>1, <1>4, <2>1, <2>2 DEF szInc
  <2> QED
    BY <2>3, <2>4 DEF WriterInv
<1>6. FileInv' /\ ReaderInv'
  BY <1>1 DEF FileInv, ReaderInv
<1> QED
  BY <1>3, <1>5, <1>6 DEF IInv

\* The bytes that have been written behind those there are.
LEMMA MoreBytes ==
  ASSUME NEW m \in Nat, NEW n \in Nat
  PROVE  [i \in 1..m |-> i] \o [i \in 1..n |-> m + i] = [i \in 1..m + n |-> i]
<1> DEFINE s == [i \in 1..m |-> i]
<1> DEFINE t == [i \in 1..n |-> m + i]
<1>1. s \in Seq(Nat) /\ Len(s) = m /\ t \in Seq(Nat) /\ Len(t) = n
  OBVIOUS
<1>2. \A i \in 1..m + n : (s \o t)[i] = i
  <2> SUFFICES ASSUME NEW i \in 1..m + n PROVE (s \o t)[i] = i
    OBVIOUS
  <2>1. (s \o t)[i] = IF i <= m THEN s[i] ELSE t[i - m]
    <3> HIDE DEF s, t
    <3> QED
      BY <1>1, ConcatProperties
  <2>2. CASE i <= m
    <3>1. s[i] = i
      BY <2>2
    <3> QED
      BY <2>1, <2>2, <3>1
  <2>3. CASE ~(i <= m)
    <3>1. t[i - m] = i
      BY <2>3
    <3> QED
      BY <2>1, <2>3, <3>1
  <2> QED
    BY <2>2, <2>3
<1>3. s \o t \in Seq(Nat) /\ Len(s \o t) = m + n
  <2> HIDE DEF s, t
  <2> QED
    BY <1>1, ConcatProperties
<1>4. PICK u \in Seq(Nat) : u = s \o t /\ Len(u) = m + n
  <2> HIDE DEF s, t
  <2> QED
    BY <1>3
<1>5. u = [i \in 1..m + n |-> u[i]]
  BY <1>4
<1>6. \A i \in 1..m + n : u[i] = i
  BY <1>2, <1>4, Zenon
<1>7. u = [i \in 1..m + n |-> i]
  BY <1>5, <1>6
<1> QED
  BY <1>4, <1>7, Zenon

\* What write does.
LEMMA WriteInv ==
  ASSUME IInv, NEW n \in Nat, Write(n)
  PROVE  /\ IInv'
         /\ written' = [i \in 1..fDataSize + n |-> i]
<1> DEFINE new == [i \in 1..n |-> fDataPos + i]
<1>1. /\ fMode = "write" /\ fMode' = "write" /\ fDataPos + n <= MaxSize
      /\ fLBuffer' = Writing(new).buf /\ blocks' = Writing(new).blocks
      /\ written' = written \o new
      /\ base' = Len(blocks') /\ fDataPos' = fDataPos + n /\ fDataSize' = fDataPos + n
      /\ UNCHANGED <<header, fEType, cutOff>>
  BY DEF Write
<1>2. /\ MaxSize \in Nat /\ fDataPos = fDataSize /\ fDataPos \in Nat /\ header = NoHeader /\ ~cutOff
      /\ written = [i \in 1..fDataPos |-> i] /\ fEType \in Ciphers
  BY <1>1, SizesAssumption DEF IInv, Types, WriterInv
<1>3. Writing(new) = WriteState(fDataPos + n)
  BY <1>1, WritingNext
<1>4. szInc' = szInc
  BY <1>1 DEF szInc
<1>5. /\ fLBuffer' = Block(fEType, ((fDataPos + n) \div szInc) + 1, fDataPos + n)
      /\ blocks' = FileBlocks(fEType, fDataPos + n, (fDataPos + n) \div szInc)
  <2> HIDE DEF new
  <2>1. fLBuffer' = WriteState(fDataPos + n).buf /\ blocks' = WriteState(fDataPos + n).blocks
    BY <1>1, <1>3, Zenon
  <2> QED
    BY <2>1 DEF WriteState
<1>6. written' = [i \in 1..fDataPos + n |-> i]
  BY <1>1, <1>2, MoreBytes
<1>7. fDataPos + n \in 0..MaxSize
  BY <1>1, <1>2
<1>8. Types'
  <2>1. fDataPos' \in 0..fDataSize' /\ fDataSize' \in 0..MaxSize
    BY <1>1, <1>2, <1>7
  <2> QED
    BY <1>1, <2>1 DEF IInv, Types
<1>9. WriterInv'
  <2>1. /\ header' = NoHeader /\ ~cutOff' /\ fDataPos' = fDataSize' /\ fDataSize' \in 0..MaxSize
        /\ base' = Len(blocks')
    BY <1>1, <1>2, <1>7
  <2>2. /\ written' = [i \in 1..fDataSize' |-> i]
        /\ blocks' = FileBlocks(fEType', fDataPos', fDataPos' \div szInc')
        /\ fLBuffer' = Block(fEType', (fDataPos' \div szInc') + 1, fDataPos')
    <3>1. fEType' = fEType /\ fDataPos' = fDataPos + n /\ fDataSize' = fDataPos + n
      BY <1>1, Zenon
    <3> QED
      BY <1>4, <1>5, <1>6, <3>1, Zenon
  <2> QED
    BY <2>1, <2>2 DEF WriterInv
<1>10. FileInv' /\ ReaderInv'
  BY <1>1, <1>2 DEF FileInv, ReaderInv
<1> QED
  BY <1>2, <1>6, <1>8, <1>9, <1>10 DEF IInv

\* close writes the last block and the header.
LEMMA CloseWriteInv ==
  ASSUME IInv, CloseWrite
  PROVE  IInv' /\ header' # NoHeader
<1>1. /\ fMode = "write" /\ fMode' = "closed"
      /\ blocks' = LastBlock([buf |-> fLBuffer, blocks |-> blocks]).blocks
      /\ header' = [type |-> fEType, size |-> fDataSize]
      /\ UNCHANGED <<fEType, fDataPos, fDataSize, written, cutOff>>
  BY DEF CloseWrite
<1>2. /\ MaxSize \in Nat /\ fDataPos = fDataSize /\ fDataPos \in Nat /\ fDataSize \in 0..MaxSize
      /\ ~cutOff /\ written = [i \in 1..fDataSize |-> i] /\ fEType \in Ciphers
      /\ blocks = FileBlocks(fEType, fDataPos, fDataPos \div szInc)
      /\ fLBuffer = Block(fEType, (fDataPos \div szInc) + 1, fDataPos)
  BY <1>1, SizesAssumption DEF IInv, Types, WriterInv
<1>3. szInc \in Nat \ {0} /\ szInc = BlockSize[fEType] /\ fEType # "none"
  BY <1>2, Sizes DEF szInc
<1>4. PICK q \in Nat, c \in Nat :
        /\ q = fDataPos \div szInc /\ c = Ceil(fDataPos, szInc)
        /\ c = IF fDataPos % szInc = 0 THEN q ELSE q + 1
  <2>1. fDataPos \div szInc \in Nat
    BY <1>2, <1>3, DivMod
  <2>2. /\ Ceil(fDataPos, szInc) \in Nat
        /\ Ceil(fDataPos, szInc) = IF fDataPos % szInc = 0 THEN fDataPos \div szInc
                                   ELSE (fDataPos \div szInc) + 1
    BY <1>2, <1>3, CeilDiv
  <2> QED
    BY <2>1, <2>2, Zenon
<1>5. blocks' = FileBlocks(fEType, fDataPos, c)
  <2>1. PICK w : w = [buf |-> fLBuffer, blocks |-> blocks]
    OBVIOUS
  <2>2. w.buf = fLBuffer /\ w.blocks = blocks
    BY <2>1
  <2>3. CASE fDataPos % szInc = 0
    BY <1>1, <1>2, <1>4, <2>1, <2>2, <2>3, Zenon DEF LastBlock
  <2>4. CASE fDataPos % szInc # 0
    <3>1. PICK v : v = [w EXCEPT !.blocks = Append(@, Enciphered(fEType, w.buf)), !.buf = Zeros(fEType)]
      OBVIOUS
    <3>2. v.blocks = Append(w.blocks, Enciphered(fEType, w.buf))
      BY <2>1, <3>1
    <3>3. blocks' = v.blocks
      BY <1>1, <2>1, <2>4, <3>1, Zenon DEF LastBlock, Flushed
    <3>4. blocks' = Append(FileBlocks(fEType, fDataPos, q), Enciphered(fEType, Block(fEType, q + 1, fDataPos)))
      BY <1>2, <1>4, <2>2, <3>2, <3>3, Zenon
    <3> QED
      BY <1>4, <2>4, <3>4, NextBlock
  <2> QED
    BY <2>3, <2>4
<1>6. header' # NoHeader /\ header'.type = fEType /\ header'.size = fDataSize
  BY <1>1, <1>3 DEF NoHeader
<1>7. Types'
  BY <1>1, <1>2, <1>6 DEF IInv, Types
<1>8. WriterInv' /\ ReaderInv'
  BY <1>1 DEF WriterInv, ReaderInv
<1>9. FileInv'
  <2>1. header' \in [type : Ciphers, size : 0..MaxSize]
    BY <1>1, <1>2
  <2>2. written' = [i \in 1..header'.size |-> i]
    BY <1>1, <1>2, <1>6, Zenon
  <2>3. c = Ceil(header'.size, BlockSize[header'.type])
    BY <1>2, <1>3, <1>4, <1>6, Zenon
  <2>4. blocks' = FileBlocks(header'.type, header'.size, c)
    BY <1>2, <1>5, <1>6, Zenon
  <2>5. c \in 0..Ceil(header'.size, BlockSize[header'.type])
    <3> HIDE DEF Ceil
    <3> QED
      BY <2>3
  <2>6. \E k \in 0..Ceil(header'.size, BlockSize[header'.type]) :
            /\ blocks' = FileBlocks(header'.type, header'.size, k)
            /\ ~cutOff' => k = Ceil(header'.size, BlockSize[header'.type])
    BY <2>3, <2>4, <2>5, Zenon
  <2> QED
    BY <1>6, <2>1, <2>2, <2>6, Zenon DEF FileInv
<1> QED
  BY <1>6, <1>7, <1>8, <1>9 DEF IInv

\* A file that is cut off keeps its first blocks.
LEMMA TruncateInv ==
  ASSUME IInv, Truncate
  PROVE  IInv'
<1>1. /\ fMode = "closed" /\ fMode' = "closed" /\ header # NoHeader /\ blocks # <<>>
      /\ blocks' = Front(blocks) /\ cutOff' = TRUE
      /\ UNCHANGED <<header, fEType, fDataPos, fDataSize, written>>
  BY DEF Truncate
<1>2. /\ header \in [type : Ciphers, size : 0..MaxSize]
      /\ written = [i \in 1..header.size |-> i]
  BY <1>1, Zenon DEF IInv, FileInv
<1>3. PICK k \in 0..Ceil(header.size, BlockSize[header.type]) :
        blocks = FileBlocks(header.type, header.size, k)
  BY <1>1, Zenon DEF IInv, FileInv
<1>4. Ceil(header.size, BlockSize[header.type]) \in Nat
  <2>1. header.size \in Nat /\ header.type \in Ciphers
    BY <1>2, SizesAssumption
  <2> QED
    BY <2>1, Sizes, CeilDiv
<1>5. k # 0
  <2> SUFFICES ASSUME k = 0 PROVE FALSE
    OBVIOUS
  <2>1. \A j \in 1..0 : FALSE
    OBVIOUS
  <2>2. FileBlocks(header.type, header.size, 0) = <<>>
    BY <2>1 DEF FileBlocks
  <2> QED
    BY <1>1, <1>3, <2>2
<1>6. k \in Nat \ {0} /\ k - 1 \in 0..Ceil(header.size, BlockSize[header.type])
  <2> HIDE DEF Ceil
  <2> QED
    BY <1>4, <1>5
<1>7. blocks' = FileBlocks(header.type, header.size, k - 1)
  BY <1>1, <1>3, <1>6, FrontBlocks
<1>8. Types' /\ WriterInv' /\ ReaderInv'
  BY <1>1 DEF IInv, Types, WriterInv, ReaderInv
<1>9. FileInv'
  <2>1. header' = header /\ header' # NoHeader /\ written' = written /\ cutOff' = TRUE
    BY <1>1
  <2>2. \E j \in 0..Ceil(header'.size, BlockSize[header'.type]) :
            /\ blocks' = FileBlocks(header'.type, header'.size, j)
            /\ ~cutOff' => j = Ceil(header'.size, BlockSize[header'.type])
    BY <1>6, <1>7, <2>1, Zenon
  <2> QED
    BY <1>2, <2>1, <2>2, Zenon DEF FileInv
<1> QED
  BY <1>8, <1>9 DEF IInv

\* open of a file that has a header.
LEMMA OpenReadInv ==
  ASSUME IInv, OpenRead
  PROVE  IInv' /\ base' = Ceil(fDataPos', szInc')
<1>1. /\ fMode = "closed" /\ fMode' = "read" /\ header # NoHeader
      /\ fEType' = header.type /\ fDataSize' = header.size /\ base' = 0 /\ fDataPos' = 0
      /\ UNCHANGED <<header, blocks, written, cutOff>>
  BY DEF OpenRead, file
<1>2. header \in [type : Ciphers, size : 0..MaxSize] /\ MaxSize \in Nat
  BY <1>1, SizesAssumption, Zenon DEF IInv, FileInv
<1>3. header.type \in Ciphers /\ header.size \in 0..MaxSize
  BY <1>2
<1>4. szInc' \in Nat \ {0} /\ szInc' = BlockSize[header.type]
  BY <1>1, <1>3, Sizes DEF szInc
<1>5. 0 % szInc' = 0 /\ Ceil(0, szInc') = 0
  BY <1>4, ZeroBlocks
<1>6. Types'
  BY <1>1, <1>2, <1>3 DEF IInv, Types
<1>7. WriterInv' /\ FileInv'
  BY <1>1 DEF IInv, WriterInv, FileInv
<1>8. Len(blocks) \in Nat
  <2>1. PICK k \in 0..Ceil(header.size, BlockSize[header.type]) :
          blocks = FileBlocks(header.type, header.size, k)
    BY <1>1, Zenon DEF IInv, FileInv
  <2>2. k \in Nat
    OBVIOUS
  <2> QED
    BY <2>1, <2>2, FileBlocksSeq
<1>9. ReaderInv'
  <2>1. base' \in Ceil(fDataPos', szInc')..Len(blocks')
    <3> HIDE DEF Ceil
    <3>1. 0 \in 0..Len(blocks)
      BY <1>8
    <3> QED
      BY <1>1, <1>5, <3>1, Zenon
  <2>2. fDataPos' \in 0..fDataSize'
    BY <1>1, <1>2, <1>3
  <2>3. ~(fDataPos' % szInc' # 0)
    BY <1>1, <1>5, Zenon
  <2> QED
    BY <1>1, <2>1, <2>2, <2>3, Zenon DEF ReaderInv
<1> QED
  BY <1>1, <1>5, <1>6, <1>7, <1>9, Zenon DEF IInv

\* After a read of n bytes behind position at, with the base stream at b.
LEMMA AfterReading ==
  ASSUME IInv, fMode = "read", NEW at \in Nat, NEW b \in 0..Len(blocks), NEW n \in Nat,
         at + n <= fDataSize, Ceil(at, szInc) <= b,
         at % szInc # 0 => /\ fLBuffer \in [1..szInc -> Bytes]
                           /\ b = Ceil(at, szInc) => fLBuffer = Block(fEType, b, fDataSize),
         NEW r, r = Reading(at, b, n),
         fLBuffer' = r.buf, base' = r.base, fDataPos' = IF r.failed THEN at ELSE at + n,
         UNCHANGED <<fMode, file, fEType, fDataSize, written, cutOff>>
  PROVE  /\ IInv'
         /\ r.failed \in BOOLEAN
         /\ ~r.failed =>
              /\ base' = Ceil(at + n, szInc) <=> b = Ceil(at, szInc)
              /\ Len(r.out) = n
              /\ b = Ceil(at, szInc) => r.out = [k \in 1..n |-> at + k]
         /\ r.failed =>
              /\ base' >= b
              /\ b = Ceil(at, szInc) => cutOff
<1>1. Reached(r, at, b, n)
  BY ReadingReached
<1>2. /\ szInc \in Nat \ {0} /\ MaxSize \in Nat /\ fDataSize \in 0..MaxSize /\ Len(blocks) \in Nat
      /\ ~cutOff => Len(blocks) = Ceil(fDataSize, szInc)
  BY ReaderBlocks
<1>3. PICK c \in Nat, e \in Nat, f \in Nat :
        c = Ceil(at, szInc) /\ e = Ceil(at + n, szInc) /\ f = Ceil(fDataSize, szInc)
  <2>1. at + n \in Nat /\ fDataSize \in Nat
    BY <1>2
  <2>2. Ceil(at, szInc) \in Nat /\ Ceil(at + n, szInc) \in Nat /\ Ceil(fDataSize, szInc) \in Nat
    BY <1>2, <2>1, CeilDiv
  <2> QED
    BY <2>2, Zenon
<1>4. /\ r.base \in 0..Len(blocks) /\ r.failed \in BOOLEAN
      /\ r.at % szInc # 0 => r.buf \in [1..szInc -> Bytes]
      /\ r.base >= b
  BY <1>1 DEF Reached, Readings
<1>5. ASSUME ~r.failed
      PROVE  /\ r.at = at + n /\ Len(r.out) = n
             /\ r.base + c = b + e
             /\ b = c => /\ r.out = [k \in 1..n |-> at + k]
                         /\ (at + n) % szInc # 0 => r.buf = Block(fEType, r.base, fDataSize)
  BY <1>1, <1>3, <1>5, Zenon DEF Reached
<1>6. PICK m \in Nat, d \in Nat : m = r.base /\ d = b /\ m <= Len(blocks) /\ c <= d
  <2>1. c <= b
    BY <1>3, Zenon
  <2> QED
    BY <1>2, <1>4, <2>1
<1>7. ASSUME ~r.failed
      PROVE  (m = e <=> d = c) /\ e <= m
  <2>1. m + c = d + e
    BY <1>5, <1>6, <1>7, Zenon
  <2> QED
    BY <1>6, <2>1
<1>8. fDataPos' \in 0..fDataSize
  <2>1. at \in 0..fDataSize /\ at + n \in 0..fDataSize
    BY <1>2
  <2> QED
    BY <1>4, <2>1, Zenon
<1>9. /\ fMode' = "read" /\ header' = header /\ blocks' = blocks /\ fEType' = fEType
      /\ fDataSize' = fDataSize /\ written' = written /\ cutOff' = cutOff /\ szInc' = szInc
  BY DEF file, szInc
<1>10. Types'
  BY <1>8, <1>9 DEF IInv, Types
<1>11. WriterInv' /\ FileInv'
  BY <1>9 DEF IInv, WriterInv, FileInv
<1>12. ReaderInv'
  <2>1. fEType' = header'.type /\ fDataSize' = header'.size /\ fDataPos' \in 0..fDataSize'
    BY <1>8, <1>9 DEF IInv, ReaderInv
  <2>2. CASE ~r.failed
    <3>1. fDataPos' = at + n /\ base' = m /\ m \in e..Len(blocks)
      BY <1>2, <1>6, <1>7, <2>2
    <3>2. (at + n) % szInc # 0 => r.buf \in [1..szInc -> Bytes]
      BY <1>4, <1>5, <2>2, Zenon
    <3>3. (at + n) % szInc # 0 /\ m = e => r.buf = Block(fEType, m, fDataSize)
      BY <1>5, <1>6, <1>7, <2>2, Zenon
    <3> QED
      BY <1>3, <1>9, <2>1, <3>1, <3>2, <3>3, Zenon DEF ReaderInv
  <2>3. CASE r.failed
    <3>1. fDataPos' = at /\ base' = m /\ m \in c..Len(blocks)
      <4>1. m >= d
        BY <1>4, <1>6
      <4> QED
        BY <1>2, <1>6, <2>3, <4>1
    <3>2. at % szInc # 0 => r.buf \in [1..szInc -> Bytes]
      BY <1>1, Zenon DEF Reached
    <3>3. at % szInc # 0 /\ m = c => r.buf = Block(fEType, m, fDataSize)
      <4>1. m = c => r.base = b /\ b = c
        <5>1. m >= d
          BY <1>4, <1>6
        <5> QED
          BY <1>6, <5>1
      <4>2. r.base = b => r.buf = fLBuffer
        BY <1>1, Zenon DEF Reached
      <4> QED
        BY <1>3, <1>6, <4>1, <4>2, Zenon
    <3> QED
      BY <1>3, <1>9, <2>1, <3>1, <3>2, <3>3, Zenon DEF ReaderInv
  <2> QED
    BY <1>4, <2>2, <2>3
<1>13. ASSUME r.failed, b = c
       PROVE  cutOff
  <2>1. Len(blocks) < f
    BY <1>1, <1>3, <1>13, Zenon DEF Reached
  <2>2. Len(blocks) # f
    BY <1>2, <2>1
  <2>3. cutOff \in BOOLEAN
    BY DEF IInv, Types
  <2> QED
    BY <1>2, <1>3, <2>2, <2>3, Zenon
<1>14. r.failed => base' >= b
  BY <1>4
<1>15. ~r.failed => (base' = e <=> b = c)
  BY <1>6, <1>7, Zenon
<1> QED
  BY <1>3, <1>4, <1>5, <1>10, <1>11, <1>12, <1>13, <1>14, <1>15, Zenon DEF IInv

\* Where a reader reads on: from its position.
LEMMA FromHere ==
  ASSUME IInv, fMode = "read"
  PROVE  /\ fDataPos \in Nat /\ base \in 0..Len(blocks) /\ Ceil(fDataPos, szInc) <= base
         /\ fDataPos % szInc # 0 =>
              /\ fLBuffer \in [1..szInc -> Bytes]
              /\ base = Ceil(fDataPos, szInc) => fLBuffer = Block(fEType, base, fDataSize)
<1>1. /\ szInc \in Nat \ {0} /\ MaxSize \in Nat /\ fDataSize \in 0..MaxSize /\ Len(blocks) \in Nat
      /\ fDataPos \in 0..fDataSize
  BY ReaderBlocks
<1>2. fDataPos \in Nat
  BY <1>1
<1>3. Ceil(fDataPos, szInc) \in Nat
  BY <1>1, <1>2, CeilDiv
<1>4. /\ base \in Ceil(fDataPos, szInc)..Len(blocks)
      /\ fDataPos % szInc # 0 =>
           /\ fLBuffer \in [1..szInc -> Bytes]
           /\ base = Ceil(fDataPos, szInc) => fLBuffer = Block(fEType, base, fDataSize)
  BY DEF IInv, ReaderInv
<1>5. base \in 0..Len(blocks) /\ Ceil(fDataPos, szInc) <= base
  <2> HIDE DEF Ceil
  <2> QED
    BY <1>1, <1>3, <1>4
<1> QED
  BY <1>2, <1>4, <1>5, Zenon

\* ... or from the beginning, after rewind.
LEMMA FromStart ==
  ASSUME IInv, fMode = "read"
  PROVE  /\ 0 \in 0..Len(blocks) /\ Ceil(0, szInc) = 0 /\ Ceil(0, szInc) <= 0 /\ 0 % szInc = 0
         /\ 0 % szInc # 0 =>
              /\ fLBuffer \in [1..szInc -> Bytes]
              /\ 0 = Ceil(0, szInc) => fLBuffer = Block(fEType, 0, fDataSize)
<1>1. szInc \in Nat \ {0} /\ Len(blocks) \in Nat
  BY ReaderBlocks
<1>2. 0 % szInc = 0 /\ Ceil(0, szInc) = 0
  BY <1>1, ZeroBlocks
<1>3. 0 \in 0..Len(blocks)
  BY <1>1
<1>4. 0 <= 0
  OBVIOUS
<1> QED
  BY <1>2, <1>3, <1>4, Zenon

\* What read does.
LEMMA ReadInv ==
  ASSUME IInv, NEW n \in Nat \ {0}, Read(n)
  PROVE  /\ IInv'
         /\ fMode = "read" /\ fDataPos + n <= fDataSize
         /\ UNCHANGED <<fMode, file, fEType, fDataSize, written, cutOff>>
         /\ \/ /\ fDataPos' = fDataPos + n /\ Len(returned') = n
               /\ base' = Ceil(fDataPos', szInc) <=> base = Ceil(fDataPos, szInc)
               /\ base = Ceil(fDataPos, szInc) => returned' = [k \in 1..n |-> fDataPos + k]
            \/ /\ UNCHANGED <<fDataPos, returned>>
               /\ base' >= base
               /\ base = Ceil(fDataPos, szInc) => cutOff
<1>1. PICK r : r = Reading(fDataPos, base, n)
  OBVIOUS
<1>2. /\ fMode = "read" /\ fDataPos + n <= fDataSize
      /\ fLBuffer' = r.buf /\ base' = r.base
      /\ \/ ~r.failed /\ fDataPos' = fDataPos + n /\ returned' = r.out
         \/ r.failed /\ UNCHANGED <<fDataPos, returned>>
      /\ UNCHANGED <<fMode, file, fEType, fDataSize, written, cutOff>>
  BY <1>1, Zenon DEF Read, Available
<1>3. fDataPos' = IF r.failed THEN fDataPos ELSE fDataPos + n
  BY <1>2
<1>4. n \in Nat
  OBVIOUS
<1>5. /\ IInv'
      /\ ~r.failed =>
           /\ base' = Ceil(fDataPos + n, szInc) <=> base = Ceil(fDataPos, szInc)
           /\ Len(r.out) = n
           /\ base = Ceil(fDataPos, szInc) => r.out = [k \in 1..n |-> fDataPos + k]
      /\ r.failed =>
           /\ base' >= base
           /\ base = Ceil(fDataPos, szInc) => cutOff
  BY <1>1, <1>2, <1>3, <1>4, FromHere, AfterReading
<1> QED
  BY <1>2, <1>5, Zenon

\* What skip does, from the position or, in seek, from the beginning.
LEMMA SkipInv ==
  ASSUME IInv, fMode = "read", NEW at \in Nat, NEW b \in 0..Len(blocks), NEW n \in Nat,
         Ceil(at, szInc) <= b, at <= fDataSize,
         at % szInc # 0 => /\ fLBuffer \in [1..szInc -> Bytes]
                           /\ b = Ceil(at, szInc) => fLBuffer = Block(fEType, b, fDataSize),
         SkipFrom(at, b, n),
         UNCHANGED <<fMode, file, fEType, fDataSize, written, cutOff>>
  PROVE  /\ IInv'
         /\ \/ /\ fDataPos' = at + n /\ at + n <= fDataSize
               /\ base' = Ceil(fDataPos', szInc) <=> b = Ceil(at, szInc)
            \/ /\ fDataPos' = at /\ base' >= b
               /\ b = Ceil(at, szInc) => cutOff
            \/ fDataPos' = at /\ base' = b
<1>1. PICK r : r = Reading(at, b, n)
  OBVIOUS
<1>2. CASE at + n <= fDataSize
  <2>1. fLBuffer' = r.buf /\ base' = r.base /\ fDataPos' = IF r.failed THEN at ELSE at + n
    BY <1>1, <1>2, Zenon DEF SkipFrom, Available
  <2>2. /\ IInv' /\ r.failed \in BOOLEAN
        /\ ~r.failed => (base' = Ceil(at + n, szInc) <=> b = Ceil(at, szInc))
        /\ r.failed => /\ base' >= b
                       /\ b = Ceil(at, szInc) => cutOff
    BY <1>1, <1>2, <2>1, AfterReading
  <2> QED
    BY <1>2, <2>1, <2>2, Zenon
<1>3. CASE ~(at + n <= fDataSize)
  <2>1. fLBuffer' = fLBuffer /\ base' = b /\ fDataPos' = at
    BY <1>3, Zenon DEF SkipFrom, Available
  <2>2. /\ fMode' = "read" /\ header' = header /\ blocks' = blocks /\ fEType' = fEType
        /\ fDataSize' = fDataSize /\ written' = written /\ cutOff' = cutOff /\ szInc' = szInc
    BY DEF file, szInc
  <2>3. /\ szInc \in Nat \ {0} /\ MaxSize \in Nat /\ fDataSize \in 0..MaxSize /\ Len(blocks) \in Nat
    BY ReaderBlocks
  <2>4. Types'
    <3>1. at \in 0..fDataSize
      BY <2>3
    <3> QED
      BY <2>1, <2>2, <3>1 DEF IInv, Types
  <2>5. WriterInv' /\ FileInv'
    BY <2>2 DEF IInv, WriterInv, FileInv
  <2>6. ReaderInv'
    <3>1. fEType' = header'.type /\ fDataSize' = header'.size
      BY <2>2 DEF IInv, ReaderInv
    <3>2. at \in 0..fDataSize
      BY <2>3
    <3>3. b \in Ceil(at, szInc)..Len(blocks)
      <4>1. Ceil(at, szInc) \in Nat
        BY <2>3, CeilDiv
      <4> HIDE DEF Ceil
      <4> QED
        BY <2>3, <4>1
    <3> QED
      BY <2>1, <2>2, <3>1, <3>2, <3>3, Zenon DEF ReaderInv
  <2> QED
    BY <2>1, <2>4, <2>5, <2>6, Zenon DEF IInv
<1> QED
  BY <1>2, <1>3

-----------------------------------------------------------------------------
(* The type invariant.                                                     *)

\* A seek to position p.
LEMMA SeekInv ==
  ASSUME IInv, NEW p \in Nat, Seek(p)
  PROVE  /\ IInv'
         /\ fMode = "read" /\ UNCHANGED <<fMode, file, fEType, fDataSize, returned, written, cutOff>>
         /\ \/ fDataPos' = p /\ p <= fDataSize /\ base' = Ceil(fDataPos', szInc)
            \/ fDataPos' = 0 /\ (base' # Ceil(0, szInc) => cutOff)
<1>1. /\ fMode = "read" /\ SkipFrom(0, 0, p)
      /\ UNCHANGED <<fMode, file, fEType, fDataSize, returned, written, cutOff>>
  BY DEF Seek
<1>2. 0 <= fDataSize /\ 0 + p = p /\ 0 \in Nat
  BY <1>1, ReaderBlocks
<1>3. /\ IInv'
      /\ \/ /\ fDataPos' = 0 + p /\ 0 + p <= fDataSize
            /\ base' = Ceil(fDataPos', szInc) <=> 0 = Ceil(0, szInc)
         \/ /\ fDataPos' = 0 /\ base' >= 0
            /\ 0 = Ceil(0, szInc) => cutOff
         \/ fDataPos' = 0 /\ base' = 0
  BY <1>1, <1>2, FromStart, SkipInv
<1>4. Ceil(0, szInc) = 0
  BY <1>1, FromStart
<1> QED
  BY <1>1, <1>2, <1>3, <1>4, Zenon

\* A skip of n bytes.
LEMMA SkipHereInv ==
  ASSUME IInv, NEW n \in Nat, Skip(n)
  PROVE  /\ IInv'
         /\ fMode = "read" /\ UNCHANGED <<fMode, file, fEType, fDataSize, returned, written, cutOff>>
         /\ \/ /\ fDataPos' = fDataPos + n /\ fDataPos + n <= fDataSize
               /\ base' = Ceil(fDataPos', szInc) <=> base = Ceil(fDataPos, szInc)
            \/ /\ fDataPos' = fDataPos /\ base' >= base
               /\ base = Ceil(fDataPos, szInc) => cutOff
            \/ fDataPos' = fDataPos /\ base' = base
<1>1. /\ fMode = "read" /\ SkipFrom(fDataPos, base, n)
      /\ UNCHANGED <<fMode, file, fEType, fDataSize, returned, written, cutOff>>
  BY DEF Skip
<1>2. fDataPos <= fDataSize
  BY <1>1, ReaderBlocks
<1>3. /\ IInv'
      /\ \/ /\ fDataPos' = fDataPos + n /\ fDataPos + n <= fDataSize
            /\ base' = Ceil(fDataPos', szInc) <=> base = Ceil(fDataPos, szInc)
         \/ /\ fDataPos' = fDataPos /\ base' >= base
            /\ base = Ceil(fDataPos, szInc) => cutOff
         \/ fDataPos' = fDataPos /\ base' = base
  BY <1>1, <1>2, FromHere, SkipInv
<1> QED
  BY <1>1, <1>3, Zenon

\* Every step keeps the invariant.
LEMMA NextInv == IInv /\ [Next]_vars => IInv'
<1> SUFFICES ASSUME IInv, [Next]_vars PROVE IInv'
  OBVIOUS
<1>0. MaxSize \in Nat
  BY SizesAssumption
<1>1. ASSUME NEW type \in Ciphers, OpenWrite(type) PROVE IInv'
  BY <1>1, OpenWriteInv
<1>2. ASSUME NEW n \in 1..MaxSize, Write(n) PROVE IInv'
  BY <1>2, WriteInv
<1>3. CASE CloseWrite
  BY <1>3, CloseWriteInv
<1>4. CASE Crash
  <2>1. /\ UNCHANGED <<header, blocks, fEType, fDataPos, fDataSize, cutOff>>
        /\ fMode' = "closed" /\ fMode = "write" /\ written' = <<>>
    BY <1>4 DEF Crash, file
  <2> QED
    BY <2>1, FileStays
<1>5. CASE OpenRead
  BY <1>5, OpenReadInv
<1>6. CASE CloseRead
  <2>1. /\ UNCHANGED <<header, blocks, fEType, fDataPos, fDataSize, cutOff>>
        /\ fMode' = "closed" /\ fMode = "read" /\ written' = written
    BY <1>6 DEF CloseRead, file
  <2> QED
    BY <2>1, FileStays
<1>7. ASSUME NEW n \in 1..(MaxSize + 1), Read(n) PROVE IInv'
  <2>1. n \in Nat \ {0}
    OBVIOUS
  <2> QED
    BY <1>7, <2>1, ReadInv
<1>8. ASSUME NEW n \in 1..(MaxSize + 1), Skip(n) PROVE IInv'
  <2>1. n \in Nat
    OBVIOUS
  <2> QED
    BY <1>8, <2>1, SkipHereInv
<1>9. ASSUME NEW n \in 1..(MaxSize + 1), Seek(n - 1) PROVE IInv'
  <2>1. n - 1 \in Nat
    OBVIOUS
  <2> QED
    BY <1>9, <2>1, SeekInv
<1>10. ASSUME NEW n \in 1..(MaxSize + 1), SkipBack(n) PROVE IInv'
  <2>1. fDataPos - n \in Nat
    BY <1>0, <1>10 DEF SkipBack, IInv, Types
  <2> QED
    BY <1>10, <2>1, SeekInv DEF SkipBack
<1>11. CASE Truncate
  BY <1>11, TruncateInv
<1>12. CASE UNCHANGED vars
  <2>1. /\ UNCHANGED <<header, blocks, fEType, fDataPos, fDataSize, cutOff>>
        /\ UNCHANGED <<fMode, written, base, fLBuffer>>
    BY <1>12 DEF vars, file
  <2> QED
    BY <2>1, FileStays
<1> QED
  BY <1>1, <1>2, <1>3, <1>4, <1>5, <1>6, <1>7, <1>8, <1>9, <1>10, <1>11, <1>12
     DEF Next, Writes, Reads

\* The inductive invariant is an invariant.
LEMMA Invariance == Spec => []IInv
BY InitInv, NextInv, PTL DEF Spec

\* The invariant implies the types that the runs check.
LEMMA InvTypes == IInv => TypeOK
<1> SUFFICES ASSUME IInv PROVE TypeOK
  OBVIOUS
<1>1. Types
  BY DEF IInv
<1>2. CASE fMode = "closed"
  BY <1>1, <1>2 DEF Types, TypeOK
<1>3. CASE fMode = "write"
  <2>1. /\ fDataPos \in Nat /\ fEType \in Ciphers /\ fDataPos \in 0..MaxSize
        /\ blocks = FileBlocks(fEType, fDataPos, fDataPos \div szInc)
        /\ fLBuffer = Block(fEType, (fDataPos \div szInc) + 1, fDataPos)
        /\ base = Len(blocks)
    BY <1>1, <1>3, SizesAssumption DEF IInv, WriterInv, Types
  <2>2. szInc \in Nat \ {0} /\ szInc = BlockSize[fEType]
    BY <2>1, Sizes DEF szInc
  <2>3. fDataPos \div szInc \in Nat
    BY <2>1, <2>2, DivMod
  <2>4. base \in 0..Len(blocks)
    <3>1. Len(blocks) \in Nat
      BY <2>1, <2>3, FileBlocksSeq
    <3> QED
      BY <2>1, <3>1
  <2>5. fLBuffer \in [1..szInc -> Bytes]
    <3>1. (fDataPos \div szInc) + 1 \in Nat \ {0}
      BY <2>3
    <3> QED
      BY <2>1, <2>2, <3>1, BlockBytes
  <2> QED
    BY <1>1, <2>4, <2>5 DEF Types, TypeOK
<1>4. CASE fMode = "read"
  BY <1>1, <1>4, FromHere DEF Types, TypeOK
<1> QED
  BY <1>1, <1>2, <1>3, <1>4 DEF Types

\* The type invariant: the stream is never behind its end, the base stream of
\* an open one never behind the file's, and a writer's buffer is a block.
THEOREM TypeCorrect == Spec => []TypeOK
BY Invariance, InvTypes, PTL

-----------------------------------------------------------------------------
(* The file is a sequence of bytes.                                        *)

\* The variables of ByteStream.
Pos == IF fMode = "read" THEN fDataPos ELSE 0
Certain == fMode = "read" => base = BlocksOf(fDataPos)
StreamVars == <<fMode, written, header # NoHeader, ~cutOff, Pos, returned, Certain>>

\* What they are of an open file.
LEMMA OfReader ==
  /\ fMode = "read" => Pos = fDataPos /\ (Certain <=> base = Ceil(fDataPos, szInc))
  /\ fMode # "read" => Pos = 0 /\ Certain = TRUE
<1>1. fMode = "read" => Pos = fDataPos /\ (Certain <=> base = Ceil(fDataPos, szInc))
  BY Zenon DEF Pos, Certain, BlocksOf, Ceil
<1>2. fMode # "read" => Pos = 0 /\ Certain = TRUE
  BY Zenon DEF Pos, Certain
<1> QED
  BY <1>1, <1>2

\* The same in the next state.
LEMMA OfReaderNext ==
  /\ fMode' = "read" => Pos' = fDataPos' /\ (Certain' <=> base' = Ceil(fDataPos', szInc'))
  /\ fMode' # "read" => Pos' = 0 /\ Certain' = TRUE
<1>1. fMode' = "read" => Pos' = fDataPos' /\ (Certain' <=> base' = Ceil(fDataPos', szInc'))
  BY Zenon DEF Pos, Certain, BlocksOf, Ceil
<1>2. fMode' # "read" => Pos' = 0 /\ Certain' = TRUE
  BY Zenon DEF Pos, Certain
<1> QED
  BY <1>1, <1>2

\* A read returns a part of what was written.
LEMMA PartOf ==
  ASSUME NEW m \in Nat, NEW at \in Nat, NEW n \in Nat, at + n <= m
  PROVE  /\ Len([i \in 1..m |-> i]) = m
         /\ SubSeq([i \in 1..m |-> i], at + 1, at + n) = [k \in 1..n |-> at + k]
OBVIOUS

\* write adds to the end.
LEMMA WriteRefines ==
  ASSUME IInv, NEW n \in Nat \ {0}, Write(n)
  PROVE  Stream!Write
<1>1. /\ fMode = "write" /\ UNCHANGED <<fMode, header, returned, cutOff>>
  BY DEF Write
<1>2. written' = [i \in 1..fDataSize + n |-> i] /\ written = [i \in 1..fDataSize |-> i] /\ fDataSize \in Nat
  <2>1. n \in Nat
    OBVIOUS
  <2>2. written' = [i \in 1..fDataSize + n |-> i]
    BY <2>1, WriteInv
  <2>3. written = [i \in 1..fDataSize |-> i] /\ fDataSize \in Nat
    BY <1>1, SizesAssumption DEF IInv, Types, WriterInv
  <2> QED
    BY <2>2, <2>3
<1>3. Len(written) = fDataSize /\ Len(written') = fDataSize + n
  BY <1>2
<1>4. Len(written') > Len(written)
  BY <1>2, <1>3
<1>5. SubSeq(written', 1, Len(written)) = written
  <2>1. SubSeq([i \in 1..fDataSize + n |-> i], 0 + 1, 0 + fDataSize) = [k \in 1..fDataSize |-> 0 + k]
    <3>1. fDataSize + n \in Nat /\ 0 \in Nat /\ 0 + fDataSize <= fDataSize + n
      BY <1>2
    <3> QED
      BY <1>2, <3>1, PartOf
  <2>2. 0 + 1 = 1 /\ 0 + fDataSize = fDataSize /\ \A k \in 1..fDataSize : 0 + k = k
    BY <1>2
  <2> QED
    BY <1>2, <1>3, <2>1, <2>2
<1>6. (header # NoHeader)' = (header # NoHeader) /\ (~cutOff)' = (~cutOff)
  BY <1>1
<1>7. Pos' = Pos /\ Certain' = Certain
  BY <1>1 DEF Pos, Certain
<1> QED
  BY <1>1, <1>4, <1>5, <1>6, <1>7, Zenon DEF Stream!Write, Pos, Certain

\* read.
LEMMA ReadRefines ==
  ASSUME IInv, NEW n \in Nat \ {0}, Read(n)
  PROVE  Stream!Read \/ Stream!ReadBlindly \/ Stream!ReadFails \/ UNCHANGED StreamVars
<1>1. /\ fMode = "read" /\ fDataPos + n <= fDataSize
      /\ UNCHANGED <<fMode, header, fEType, fDataSize, written, cutOff>>
      /\ \/ /\ fDataPos' = fDataPos + n /\ Len(returned') = n
            /\ base' = Ceil(fDataPos', szInc) <=> base = Ceil(fDataPos, szInc)
            /\ base = Ceil(fDataPos, szInc) => returned' = [k \in 1..n |-> fDataPos + k]
         \/ /\ UNCHANGED <<fDataPos, returned>>
            /\ base' >= base
            /\ base = Ceil(fDataPos, szInc) => cutOff
  BY ReadInv DEF file
<1>2. /\ szInc \in Nat \ {0} /\ fDataSize \in Nat /\ fDataPos \in Nat
      /\ written = [i \in 1..fDataSize |-> i] /\ szInc' = szInc
  BY <1>1, ReaderBlocks DEF szInc
<1>3. Len(written) = fDataSize
  BY <1>2
<1>4. /\ Pos = fDataPos /\ (Certain <=> base = Ceil(fDataPos, szInc))
      /\ Pos' = fDataPos' /\ (Certain' <=> base' = Ceil(fDataPos', szInc))
  BY <1>1, <1>2, OfReader, OfReaderNext, Zenon
<1>5. Certain \in BOOLEAN /\ Certain' \in BOOLEAN
  BY DEF Certain
<1>6. (header # NoHeader)' = (header # NoHeader) /\ (~cutOff)' = (~cutOff)
  BY <1>1
<1>7. CASE /\ fDataPos' = fDataPos + n /\ Len(returned') = n
           /\ base' = Ceil(fDataPos', szInc) <=> base = Ceil(fDataPos, szInc)
           /\ base = Ceil(fDataPos, szInc) => returned' = [k \in 1..n |-> fDataPos + k]
  <2>1. Certain' = Certain
    BY <1>4, <1>5, <1>7, Zenon
  <2>2. CASE Certain
    <3>1. returned' = SubSeq(written, Pos + 1, Pos + n)
      <4>1. SubSeq([i \in 1..fDataSize |-> i], fDataPos + 1, fDataPos + n) = [k \in 1..n |-> fDataPos + k]
        <5>1. n \in Nat
          OBVIOUS
        <5> QED
          BY <1>1, <1>2, <5>1, PartOf
      <4> QED
        BY <1>2, <1>4, <1>7, <2>2, <4>1, Zenon
    <3>2. n \in 1..(Len(written) - Pos)
      BY <1>1, <1>2, <1>3, <1>4
    <3>3. Pos' = Pos + n
      BY <1>4, <1>7, Zenon
    <3>4. Stream!Read
      BY <1>1, <1>6, <2>1, <2>2, <3>1, <3>2, <3>3, Zenon DEF Stream!Read, Pos, Certain
    <3> QED
      BY <3>4
  <2>3. CASE ~Certain
    <3>1. Pos' \in Pos..Len(written) /\ Len(returned') = Pos' - Pos
      BY <1>1, <1>2, <1>3, <1>4, <1>7
    <3>2. Stream!ReadBlindly
      BY <1>1, <1>6, <2>1, <2>3, <3>1, Zenon DEF Stream!ReadBlindly, Pos, Certain
    <3> QED
      BY <3>2
  <2> QED
    BY <2>2, <2>3
<1>8. CASE /\ UNCHANGED <<fDataPos, returned>>
           /\ base' >= base
           /\ base = Ceil(fDataPos, szInc) => cutOff
  <2>1. Pos' = Pos /\ returned' = returned
    BY <1>4, <1>8
  <2>2. CASE Certain' = Certain
    BY <1>1, <1>6, <2>1, <2>2, Zenon DEF StreamVars
  <2>3. CASE Certain /\ ~Certain'
    <3>1. ~(~cutOff) /\ Certain' = FALSE
      BY <1>4, <1>5, <1>8, <2>3, Zenon
    <3>2. Stream!ReadFails
      BY <1>1, <1>6, <2>1, <3>1, Zenon DEF Stream!ReadFails, Pos, Certain
    <3> QED
      BY <3>2
  <2>4. ~(~Certain /\ Certain')
    <3> SUFFICES ASSUME ~Certain, Certain' PROVE FALSE
      OBVIOUS
    <3>1. base' = Ceil(fDataPos, szInc) /\ base # Ceil(fDataPos, szInc)
      BY <1>4, <1>8, Zenon
    <3>2. base \in 0..Len(blocks) /\ Ceil(fDataPos, szInc) <= base /\ Len(blocks) \in Nat
      BY <1>1, FromHere, ReaderBlocks
    <3>3. Ceil(fDataPos, szInc) \in Nat
      BY <1>2, CeilDiv
    <3> HIDE DEF Ceil
    <3> QED
      BY <1>8, <3>1, <3>2, <3>3
  <2> QED
    BY <1>5, <2>2, <2>3, <2>4
<1> QED
  BY <1>1, <1>7, <1>8

\* skip.
LEMMA SkipRefines ==
  ASSUME IInv, NEW n \in Nat, Skip(n)
  PROVE  Stream!Position \/ Stream!ReadBlindly \/ Stream!ReadFails \/ UNCHANGED StreamVars
<1>1. /\ fMode = "read"
      /\ UNCHANGED <<fMode, header, fEType, fDataSize, returned, written, cutOff>>
      /\ \/ /\ fDataPos' = fDataPos + n /\ fDataPos + n <= fDataSize
            /\ base' = Ceil(fDataPos', szInc) <=> base = Ceil(fDataPos, szInc)
         \/ /\ fDataPos' = fDataPos /\ base' >= base
            /\ base = Ceil(fDataPos, szInc) => cutOff
         \/ fDataPos' = fDataPos /\ base' = base
  BY SkipHereInv DEF file
<1>2. /\ szInc \in Nat \ {0} /\ fDataSize \in Nat /\ fDataPos \in Nat
      /\ written = [i \in 1..fDataSize |-> i] /\ szInc' = szInc
  BY <1>1, ReaderBlocks DEF szInc
<1>3. Len(written) = fDataSize
  BY <1>2
<1>4. /\ Pos = fDataPos /\ (Certain <=> base = Ceil(fDataPos, szInc))
      /\ Pos' = fDataPos' /\ (Certain' <=> base' = Ceil(fDataPos', szInc))
  BY <1>1, <1>2, OfReader, OfReaderNext, Zenon
<1>5. Certain \in BOOLEAN /\ Certain' \in BOOLEAN
  BY DEF Certain
<1>6. (header # NoHeader)' = (header # NoHeader) /\ (~cutOff)' = (~cutOff)
  BY <1>1
<1>7. CASE /\ fDataPos' = fDataPos + n /\ fDataPos + n <= fDataSize
           /\ base' = Ceil(fDataPos', szInc) <=> base = Ceil(fDataPos, szInc)
  <2>1. Certain' = Certain
    BY <1>4, <1>5, <1>7, Zenon
  <2>2. Pos' \in Pos..Len(written) /\ Pos' \in 0..Len(written) /\ returned' = returned
    BY <1>1, <1>2, <1>3, <1>4, <1>7
  <2>3. CASE Certain
    <3>1. Certain' = TRUE
      BY <1>5, <2>1, <2>3
    <3>2. Stream!Position
      BY <1>1, <1>6, <2>2, <3>1, Zenon DEF Stream!Position, Pos, Certain
    <3> QED
      BY <3>2
  <2>4. CASE ~Certain
    <3>1. Stream!ReadBlindly
      BY <1>1, <1>6, <2>1, <2>2, <2>4, Zenon DEF Stream!ReadBlindly, Pos, Certain
    <3> QED
      BY <3>1
  <2> QED
    BY <2>3, <2>4
<1>8. CASE \/ /\ fDataPos' = fDataPos /\ base' >= base
              /\ base = Ceil(fDataPos, szInc) => cutOff
           \/ fDataPos' = fDataPos /\ base' = base
  <2>1. Pos' = Pos /\ returned' = returned
    BY <1>1, <1>4, <1>8
  <2>2. CASE Certain' = Certain
    BY <1>1, <1>6, <2>1, <2>2, Zenon DEF StreamVars
  <2>3. CASE Certain /\ ~Certain'
    <3>1. ~(~cutOff) /\ Certain' = FALSE
      BY <1>4, <1>5, <1>8, <2>3, Zenon
    <3>2. Stream!ReadFails
      BY <1>1, <1>6, <2>1, <3>1, Zenon DEF Stream!ReadFails, Pos, Certain
    <3> QED
      BY <3>2
  <2>4. ~(~Certain /\ Certain')
    <3> SUFFICES ASSUME ~Certain, Certain' PROVE FALSE
      OBVIOUS
    <3>1. base' = Ceil(fDataPos, szInc) /\ base # Ceil(fDataPos, szInc)
      BY <1>4, <1>8, Zenon
    <3>2. base \in 0..Len(blocks) /\ Ceil(fDataPos, szInc) <= base /\ Len(blocks) \in Nat
      BY <1>1, FromHere, ReaderBlocks
    <3>3. Ceil(fDataPos, szInc) \in Nat
      BY <1>2, CeilDiv
    <3> HIDE DEF Ceil
    <3> QED
      BY <1>8, <3>1, <3>2, <3>3
  <2> QED
    BY <1>5, <2>2, <2>3, <2>4
<1> QED
  BY <1>1, <1>7, <1>8

\* seek, rewind and skip backwards.
LEMMA SeekRefines ==
  ASSUME IInv, NEW p \in Nat, Seek(p)
  PROVE  Stream!Position \/ Stream!PositionFails
<1>1. /\ fMode = "read" /\ UNCHANGED <<fMode, header, fEType, fDataSize, returned, written, cutOff>>
      /\ \/ fDataPos' = p /\ p <= fDataSize /\ base' = Ceil(fDataPos', szInc)
         \/ fDataPos' = 0 /\ (base' # Ceil(0, szInc) => cutOff)
  BY SeekInv DEF file
<1>2. /\ szInc \in Nat \ {0} /\ fDataSize \in Nat
      /\ written = [i \in 1..fDataSize |-> i] /\ szInc' = szInc
  BY <1>1, ReaderBlocks DEF szInc
<1>3. Len(written) = fDataSize
  BY <1>2
<1>4. Pos' = fDataPos' /\ (Certain' <=> base' = Ceil(fDataPos', szInc))
  BY <1>1, <1>2, OfReaderNext, Zenon
<1>5. Certain' \in BOOLEAN
  BY DEF Certain
<1>6. (header # NoHeader)' = (header # NoHeader) /\ (~cutOff)' = (~cutOff)
  BY <1>1
<1>7. CASE fDataPos' = p /\ p <= fDataSize /\ base' = Ceil(fDataPos', szInc)
  <2>1. Certain' = TRUE /\ returned' = returned
    BY <1>1, <1>4, <1>5, <1>7, Zenon
  <2>2. Pos' \in 0..Len(written)
    BY <1>2, <1>3, <1>4, <1>7
  <2>3. Stream!Position
    BY <1>1, <1>6, <2>1, <2>2, Zenon DEF Stream!Position, Pos, Certain
  <2> QED
    BY <2>3
<1>8. CASE fDataPos' = 0 /\ (base' # Ceil(0, szInc) => cutOff)
  <2>1. Certain' = TRUE \/ (~(~cutOff) /\ Certain' = FALSE)
    BY <1>4, <1>5, <1>8, Zenon
  <2>2. Pos' = 0 /\ returned' = returned
    BY <1>1, <1>4, <1>8, Zenon
  <2>3. Stream!PositionFails
    BY <1>1, <1>6, <2>1, <2>2, Zenon DEF Stream!PositionFails, Pos, Certain
  <2> QED
    BY <2>3
<1> QED
  BY <1>1, <1>7, <1>8

\* Every step is one of ByteStream, or changes nothing there.
LEMMA StepRefines == IInv /\ [Next]_vars => [Stream!Next]_StreamVars
<1> SUFFICES ASSUME IInv, [Next]_vars PROVE Stream!Next \/ UNCHANGED StreamVars
  OBVIOUS
<1>0. MaxSize \in Nat
  BY SizesAssumption
<1>1. ASSUME NEW type \in Ciphers, OpenWrite(type) PROVE Stream!Create
  <2>1. /\ fMode = "closed" /\ fMode' = "write" /\ written' = <<>> /\ header' = NoHeader
        /\ cutOff' = FALSE /\ returned' = returned
    BY <1>1 DEF OpenWrite
  <2>2. (header # NoHeader)' = FALSE /\ (~cutOff)' = TRUE
    BY <2>1
  <2>3. Pos' = Pos /\ Certain' = Certain
    BY <2>1 DEF Pos, Certain
  <2> QED
    BY <2>1, <2>2, <2>3, Zenon DEF Stream!Create, Pos, Certain
<1>2. ASSUME NEW n \in 1..MaxSize, Write(n) PROVE Stream!Write
  <2>1. n \in Nat \ {0}
    OBVIOUS
  <2> QED
    BY <1>2, <2>1, WriteRefines
<1>3. ASSUME CloseWrite PROVE Stream!Finish
  <2>1. fMode = "write" /\ fMode' = "closed" /\ UNCHANGED <<returned, written, cutOff>>
    BY <1>3 DEF CloseWrite
  <2>2. (header # NoHeader)' = TRUE /\ (~cutOff)' = (~cutOff)
    BY <1>3, <2>1, CloseWriteInv
  <2>3. Pos' = Pos /\ Certain' = Certain
    BY <2>1 DEF Pos, Certain
  <2> QED
    BY <2>1, <2>2, <2>3, Zenon DEF Stream!Finish, Pos, Certain
<1>4. ASSUME Crash PROVE Stream!Crash
  <2>1. fMode = "write" /\ fMode' = "closed" /\ written' = <<>> /\ UNCHANGED <<header, returned, cutOff>>
    BY <1>4 DEF Crash, file
  <2>2. (header # NoHeader)' = (header # NoHeader) /\ (~cutOff)' = (~cutOff)
    BY <2>1
  <2>3. Pos' = Pos /\ Certain' = Certain
    BY <2>1 DEF Pos, Certain
  <2> QED
    BY <2>1, <2>2, <2>3, Zenon DEF Stream!Crash, Pos, Certain
<1>5. ASSUME OpenRead PROVE Stream!Open
  <2>1. /\ fMode = "closed" /\ fMode' = "read" /\ header # NoHeader /\ fDataPos' = 0
        /\ UNCHANGED <<header, returned, written, cutOff>>
    BY <1>5 DEF OpenRead, file
  <2>2. (header # NoHeader)' = (header # NoHeader) /\ (~cutOff)' = (~cutOff)
    BY <2>1
  <2>3. Pos' = 0 /\ Certain' = TRUE
    <3>1. base' = Ceil(fDataPos', szInc')
      BY <1>5, OpenReadInv
    <3>2. Certain' \in BOOLEAN
      BY DEF Certain
    <3> QED
      BY <2>1, <3>1, <3>2, OfReaderNext, Zenon
  <2> QED
    BY <2>1, <2>2, <2>3, Zenon DEF Stream!Open, Pos, Certain
<1>6. ASSUME CloseRead PROVE Stream!Close
  <2>1. fMode = "read" /\ fMode' = "closed" /\ UNCHANGED <<header, returned, written, cutOff>>
    BY <1>6 DEF CloseRead, file
  <2>2. (header # NoHeader)' = (header # NoHeader) /\ (~cutOff)' = (~cutOff)
    BY <2>1
  <2>3. Pos' = 0 /\ Certain' = TRUE
    BY <2>1, OfReaderNext
  <2> QED
    BY <2>1, <2>2, <2>3, Zenon DEF Stream!Close, Pos, Certain
<1>7. ASSUME NEW n \in 1..(MaxSize + 1), Read(n)
      PROVE  Stream!Read \/ Stream!ReadBlindly \/ Stream!ReadFails \/ UNCHANGED StreamVars
  <2>1. n \in Nat \ {0}
    OBVIOUS
  <2> QED
    BY <1>7, <2>1, ReadRefines
<1>8. ASSUME NEW n \in 1..(MaxSize + 1), Skip(n)
      PROVE  Stream!Position \/ Stream!ReadBlindly \/ Stream!ReadFails \/ UNCHANGED StreamVars
  <2>1. n \in Nat
    OBVIOUS
  <2> QED
    BY <1>8, <2>1, SkipRefines
<1>9. ASSUME NEW n \in 1..(MaxSize + 1), Seek(n - 1) PROVE Stream!Position \/ Stream!PositionFails
  <2>1. n - 1 \in Nat
    OBVIOUS
  <2> QED
    BY <1>9, <2>1, SeekRefines
<1>10. ASSUME NEW n \in 1..(MaxSize + 1), SkipBack(n) PROVE Stream!Position \/ Stream!PositionFails
  <2>1. fDataPos - n \in Nat
    BY <1>0, <1>10 DEF SkipBack, IInv, Types
  <2> QED
    BY <1>10, <2>1, SeekRefines DEF SkipBack
<1>11. ASSUME Truncate PROVE Stream!CutOff
  <2>1. fMode = "closed" /\ fMode' = "closed" /\ cutOff' = TRUE /\ UNCHANGED <<header, returned, written>>
    BY <1>11 DEF Truncate
  <2>2. (header # NoHeader)' = (header # NoHeader) /\ (~cutOff)' = FALSE
    BY <2>1
  <2>3. Pos' = Pos /\ Certain' = Certain
    BY <2>1 DEF Pos, Certain
  <2> QED
    BY <2>1, <2>2, <2>3, Zenon DEF Stream!CutOff, Pos, Certain
<1>12. ASSUME UNCHANGED vars PROVE UNCHANGED StreamVars
  <2>1. UNCHANGED <<fMode, header, base, fEType, fDataPos, returned, written, cutOff>>
    BY <1>12 DEF vars, file
  <2> QED
    BY <2>1 DEF StreamVars, Pos, Certain, BlocksOf, szInc
<1> QED
  BY <1>1, <1>2, <1>3, <1>4, <1>5, <1>6, <1>7, <1>8, <1>9, <1>10, <1>11, <1>12, Zenon
     DEF Next, Writes, Reads, Stream!Next

\* What is read through an encrypted stream, from any position, is what was
\* written; a file that is cut off fails, and fails only below its end; a file
\* that was not closed cannot be opened.
THEOREM StreamRefined == Spec => StreamSpec
<1>1. Init => Stream!Init
  <2> SUFFICES ASSUME Init PROVE Stream!Init
    OBVIOUS
  <2>1. fMode = "closed" /\ header = NoHeader /\ written = <<>> /\ returned = <<>> /\ cutOff = FALSE
    BY DEF Init
  <2>2. (header # NoHeader) = FALSE /\ (~cutOff) = TRUE /\ Pos = 0 /\ Certain = TRUE
    BY <2>1 DEF Pos, Certain
  <2> QED
    BY <2>1, <2>2, Zenon DEF Stream!Init, Pos, Certain
<1> QED
  BY <1>1, StepRefines, Invariance, PTL
     DEF Spec, StreamSpec, Stream!Spec, StreamVars, Pos, Certain

=============================================================================
