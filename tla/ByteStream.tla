------------------------------ MODULE ByteStream ------------------------------
(***************************************************************************)
(* What a file written and read through an encrypted stream promises: it   *)
(* reads as the bytes that were written, wherever the reader positions     *)
(* itself, or cannot be opened at all.  Of a file that has been truncated  *)
(* since, a read that fails leaves the reader where nothing is certain     *)
(* until it positions itself anew.  EncryptedStream implements this.       *)
(***************************************************************************)
EXTENDS Naturals, Sequences

VARIABLES
  mode,      \* "closed", "write" or "read"
  data,      \* the bytes written
  whole,     \* the writer has closed the file
  intact,    \* ... and nothing has been cut off since
  pos,       \* the position of the reader
  got,       \* what its last read returned
  certain    \* no read has failed half way

Init ==
  /\ mode = "closed" /\ data = <<>> /\ whole = FALSE /\ intact = TRUE
  /\ pos = 0 /\ got = <<>> /\ certain = TRUE

Create ==
  /\ mode = "closed" /\ mode' = "write"
  /\ data' = <<>> /\ whole' = FALSE /\ intact' = TRUE
  /\ UNCHANGED <<pos, got, certain>>

\* Bytes are added at the end.
Write ==
  /\ mode = "write"
  /\ Len(data') > Len(data) /\ SubSeq(data', 1, Len(data)) = data
  /\ UNCHANGED <<mode, whole, intact, pos, got, certain>>

Finish ==
  /\ mode = "write" /\ mode' = "closed" /\ whole' = TRUE
  /\ UNCHANGED <<data, intact, pos, got, certain>>

\* The writing program ends before it has closed the file.
Crash ==
  /\ mode = "write" /\ mode' = "closed" /\ data' = <<>>
  /\ UNCHANGED <<whole, intact, pos, got, certain>>

CutOff ==
  /\ mode = "closed" /\ intact' = FALSE
  /\ UNCHANGED <<mode, data, whole, pos, got, certain>>

Open ==
  /\ mode = "closed" /\ whole /\ mode' = "read"
  /\ pos' = 0 /\ certain' = TRUE
  /\ UNCHANGED <<data, whole, intact, got>>

Close ==
  /\ mode = "read" /\ mode' = "closed"
  /\ pos' = 0 /\ certain' = TRUE
  /\ UNCHANGED <<data, whole, intact, got>>

Read ==
  /\ mode = "read" /\ certain
  /\ \E n \in 1..(Len(data) - pos) :
       got' = SubSeq(data, pos + 1, pos + n) /\ pos' = pos + n
  /\ UNCHANGED <<mode, data, whole, intact, certain>>

ReadBlindly ==
  /\ mode = "read" /\ ~certain
  /\ pos' \in pos..Len(data)
  /\ got' = got \/ Len(got') = pos' - pos
  /\ UNCHANGED <<mode, data, whole, intact, certain>>

\* Only a file that has been cut off fails below its end.
ReadFails ==
  /\ mode = "read" /\ ~intact /\ certain' = FALSE
  /\ UNCHANGED <<mode, data, whole, intact, pos, got>>

Position ==
  /\ mode = "read" /\ certain' = TRUE /\ pos' \in 0..Len(data)
  /\ UNCHANGED <<mode, data, whole, intact, got>>

\* A target beyond the end, or one in the part that has been cut off.
PositionFails ==
  /\ mode = "read" /\ pos' = 0
  /\ certain' = TRUE \/ (~intact /\ certain' = FALSE)
  /\ UNCHANGED <<mode, data, whole, intact, got>>

Next ==
  Create \/ Write \/ Finish \/ Crash \/ CutOff \/ Open \/ Close
  \/ Read \/ ReadBlindly \/ ReadFails \/ Position \/ PositionFails

Spec == Init /\ [][Next]_<<mode, data, whole, intact, pos, got, certain>>
=============================================================================
