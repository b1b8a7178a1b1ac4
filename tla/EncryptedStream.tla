---------------------------- MODULE EncryptedStream ----------------------------
(***************************************************************************)
(* plEncryptedStream over a file: a writer that adds to the end, readers   *)
(* that position themselves, the block buffer between them and the file.   *)
(* The writing program may end before it closes; a file may be cut off.    *)
(***************************************************************************)
EXTENDS Naturals, SequencesExt

CONSTANTS
  BlockSize,  \* the block size of each cipher
  MaxSize     \* BOUND on the bytes of a file

\* kEncNone is refused by open.
ASSUME SizesAssumption ==
  /\ MaxSize \in Nat /\ BlockSize \in [DOMAIN BlockSize -> Nat \ {0}]
  /\ "none" \notin DOMAIN BlockSize

Ciphers == DOMAIN BlockSize
\* Byte i of a file is the i-th that was written; 0 is padding.
Bytes == 0..MaxSize

VARIABLES
  fMode,      \* "closed", "write" or "read"
  header,     \* the header of the file, or NoHeader
  blocks,     \* ... and its enciphered blocks
  base,       \* the position of the base stream, in blocks
  fEType, fLBuffer, fDataPos, fDataSize,
  returned,   \* what the last read has returned
  written,    \* the bytes the last writer has written
  cutOff      \* the file has been truncated since it was written

file == <<header, blocks>>
vars == <<fMode, file, base, fEType, fLBuffer, fDataPos, fDataSize,
          returned, written, cutOff>>

NoHeader == [type |-> "none", size |-> 0]
Zeros(type) == [i \in 1..BlockSize[type] |-> 0]
Enciphered(type, cells) == [cipher |-> type, cells |-> cells]
\* Another cipher makes noise of them.
Deciphered(type, block) ==
  IF block.cipher = type THEN block.cells ELSE Zeros(type)

Init ==
  /\ fMode = "closed" /\ header = NoHeader /\ blocks = <<>> /\ base = 0
  /\ fEType \in Ciphers /\ fLBuffer = Zeros(fEType)
  /\ fDataPos = 0 /\ fDataSize = 0
  /\ returned = <<>> /\ written = <<>> /\ cutOff = FALSE

szInc == BlockSize[fEType]

-----------------------------------------------------------------------------
(* Writing.                                                                *)

OpenWrite(type) ==
  /\ fMode = "closed" /\ fMode' = "write"
  /\ fEType' = type /\ fLBuffer' = Zeros(type)
  /\ header' = NoHeader /\ blocks' = <<>> /\ base' = 0
  /\ fDataPos' = 0 /\ fDataSize' = 0
  /\ written' = <<>> /\ cutOff' = FALSE
  /\ UNCHANGED returned

\* CryptFlush: the buffer goes to the file and is cleared.
Flushed(w) ==
  [w EXCEPT !.blocks = Append(@, Enciphered(fEType, w.buf)), !.buf = Zeros(fEType)]

\* write, byte by byte: a full buffer is flushed.
WriteByte(w, byte) ==
  LET lp == w.at % szInc
      put == [w EXCEPT !.buf[lp + 1] = byte, !.at = @ + 1]
  IN  IF lp + 1 = szInc THEN Flushed(put) ELSE put

\* write of the bytes new behind the position.
Writing(new) ==
  LET w[i \in 0..Len(new)] ==
        IF i = 0 THEN [buf |-> fLBuffer, blocks |-> blocks, at |-> fDataPos]
        ELSE WriteByte(w[i - 1], new[i])
  IN  w[Len(new)]

Write(n) ==
  /\ fMode = "write" /\ fDataPos + n <= MaxSize
  /\ LET new == [i \in 1..n |-> fDataPos + i]
     IN  /\ fLBuffer' = Writing(new).buf /\ blocks' = Writing(new).blocks
         /\ written' = written \o new
  /\ base' = Len(blocks')
  /\ fDataPos' = fDataPos + n /\ fDataSize' = fDataPos + n
  /\ UNCHANGED <<fMode, header, fEType, returned, cutOff>>

\* close writes a last block that is not full.
LastBlock(w) == IF fDataPos % szInc # 0 THEN Flushed(w) ELSE w

CloseWrite ==
  /\ fMode = "write" /\ fMode' = "closed"
  /\ LET w == LastBlock([buf |-> fLBuffer, blocks |-> blocks])
     IN  fLBuffer' = w.buf /\ blocks' = w.blocks
  /\ header' = [type |-> fEType, size |-> fDataSize]
  /\ base' = 0
  /\ UNCHANGED <<fEType, fDataPos, fDataSize, returned, written, cutOff>>

\* The program ends without close: the place of the header holds zeros.
Crash ==
  /\ fMode = "write" /\ fMode' = "closed"
  /\ written' = <<>>
  /\ UNCHANGED <<file, base, fEType, fLBuffer, fDataPos, fDataSize, returned, cutOff>>

\* A copy of the file is incomplete.
Truncate ==
  /\ fMode = "closed" /\ header # NoHeader /\ blocks # <<>>
  /\ blocks' = Front(blocks) /\ cutOff' = TRUE
  /\ UNCHANGED <<fMode, header, base, fEType, fLBuffer, fDataPos, fDataSize,
                 returned, written>>

-----------------------------------------------------------------------------
(* Reading.                                                                *)

\* A file without header is refused ("File is not encrypted").
OpenRead ==
  /\ fMode = "closed" /\ header # NoHeader
  /\ fMode' = "read"
  /\ fEType' = header.type /\ fDataSize' = header.size
  /\ base' = 0 /\ fDataPos' = 0
  /\ UNCHANGED <<file, fLBuffer, returned, written, cutOff>>

CloseRead ==
  /\ fMode = "read" /\ fMode' = "closed"
  /\ UNCHANGED <<file, base, fEType, fLBuffer, fDataPos, fDataSize,
                 returned, written, cutOff>>

\* read, byte by byte from position r.at: at a block boundary the buffer is
\* advanced.  The base stream throws at its end.
ReadByte(r) ==
  LET lp == r.at % szInc
      end == r.base = Len(blocks)
      q == IF lp = 0 THEN [r EXCEPT !.buf = Deciphered(fEType, blocks[r.base + 1]),
                                    !.base = @ + 1]
           ELSE r
  IN  IF r.failed \/ (lp = 0 /\ end) THEN [r EXCEPT !.failed = TRUE]
      ELSE [q EXCEPT !.out = Append(@, q.buf[lp + 1]), !.at = @ + 1]

\* read of n bytes behind position at, with the base stream at b.
Reading(at, b, n) ==
  LET r[i \in 0..n] ==
        IF i = 0 THEN [at |-> at, base |-> b, buf |-> fLBuffer, out |-> <<>>,
                       failed |-> FALSE]
        ELSE ReadByte(r[i - 1])
  IN  r[n]

\* Mutant: the last byte that is padding may be read.
AvailablePadded(at, n) == at + n <= fDataSize + 1

\* "Read past end of stream" otherwise.
Available(at, n) == at + n <= fDataSize

Read(n) ==
  /\ fMode = "read" /\ Available(fDataPos, n)
  /\ LET r == Reading(fDataPos, base, n) IN
     /\ fLBuffer' = r.buf /\ base' = r.base
     /\ \/ ~r.failed /\ fDataPos' = fDataPos + n /\ returned' = r.out
        \/ r.failed /\ UNCHANGED <<fDataPos, returned>>
  /\ UNCHANGED <<fMode, file, fEType, fDataSize, written, cutOff>>

\* skip of n bytes forward is a read, from a position and a base position.
SkipFrom(at, b, n) ==
  LET r == Reading(at, b, n) IN
  IF Available(at, n)
  THEN /\ fLBuffer' = r.buf /\ base' = r.base
       /\ fDataPos' = IF r.failed THEN at ELSE at + n
  ELSE fLBuffer' = fLBuffer /\ base' = b /\ fDataPos' = at

Skip(n) ==
  /\ fMode = "read"
  /\ SkipFrom(fDataPos, base, n)
  /\ UNCHANGED <<fMode, file, fEType, fDataSize, returned, written, cutOff>>

\* Mutant: the base stream is not rewound.
SeekFromHere(p) ==
  /\ fMode = "read"
  /\ SkipFrom(0, base, p)
  /\ UNCHANGED <<fMode, file, fEType, fDataSize, returned, written, cutOff>>

\* seek is rewind and skip, so one that fails leaves the stream rewound.
Seek(p) ==
  /\ fMode = "read"
  /\ SkipFrom(0, 0, p)
  /\ UNCHANGED <<fMode, file, fEType, fDataSize, returned, written, cutOff>>

\* skip backwards.
SkipBack(n) == n <= fDataPos /\ Seek(fDataPos - n)

-----------------------------------------------------------------------------

Writes == \/ \E type \in Ciphers : OpenWrite(type)
          \/ \E n \in 1..MaxSize : Write(n)
          \/ CloseWrite \/ Crash
Reads == \/ OpenRead \/ CloseRead
         \/ \E n \in 1..(MaxSize + 1) : Read(n) \/ Skip(n) \/ Seek(n - 1) \/ SkipBack(n)

Next == Writes \/ Reads \/ Truncate

Spec == Init /\ [][Next]_vars

-----------------------------------------------------------------------------
(* Properties.                                                             *)

\* The stream is never behind its end.
TypeOK ==
  /\ fMode \in {"closed", "write", "read"}
  /\ header.size \in 0..MaxSize /\ fDataSize \in 0..MaxSize
  /\ fDataPos \in 0..fDataSize
  /\ base \in 0..Len(blocks) \/ fMode = "closed"
  /\ fLBuffer \in [1..szInc -> Bytes] \/ fMode # "write"
  /\ cutOff \in BOOLEAN

\* How many blocks hold n bytes.
BlocksOf(n) == (n + szInc - 1) \div szInc

\* The file is a sequence of bytes to its readers (read, seek, skip, rewind),
\* also after reads that have failed, if they position themselves anew.
Stream == INSTANCE ByteStream WITH
  mode <- fMode, data <- written, whole <- header # NoHeader, intact <- ~cutOff,
  pos <- IF fMode = "read" THEN fDataPos ELSE 0, got <- returned,
  certain <- fMode = "read" => base = BlocksOf(fDataPos)
StreamSpec == Stream!Spec
=============================================================================
