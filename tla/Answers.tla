-------------------------------- MODULE Answers --------------------------------
(***************************************************************************)
(* What the file client promises of its requests, whatever the server does *)
(* and however the answers are cut into messages: a manifest is handed to  *)
(* the application once, whole and in one call, or refused; a download is  *)
(* handed over piece by piece, in order.  That holds until a message       *)
(* cannot be received whole: the program then goes on with bytes that are  *)
(* no message, and promises nothing any more.  FileClient implements this. *)
(***************************************************************************)
EXTENDS Naturals, Sequences

CONSTANTS
  MaxTrans,  \* BOUND on the transactions
  Total      \* how many entries or pieces the server has for a transaction

Trans == 1..MaxTrans

VARIABLES
  request,   \* what the application knows of a transaction
  handed,    \* what it has been handed for it
  undefined  \* a handler has run on a message that was not received whole

\* The entries of a manifest and the pieces of a file are numbered.
Entries(n) == [j \in 1..n |-> j]

Open == {"manifest", "download", "build"}

Init ==
  /\ request = [t \in Trans |-> "free"]
  /\ handed = [t \in Trans |-> <<>>]
  /\ undefined = FALSE

\* The transaction number is new.
Issue(t) ==
  /\ request[t] = "free"
  /\ \E kind \in Open : request' = [request EXCEPT ![t] = kind]
  /\ UNCHANGED handed

Manifest(t) ==
  /\ request[t] = "manifest"
  /\ request' = [request EXCEPT ![t] = "answered"]
  /\ handed' = [handed EXCEPT ![t] = Entries(Total[t])]

Piece(t) ==
  /\ request[t] = "download"
  /\ \E n \in Len(handed[t])..Total[t] :
       /\ handed' = [handed EXCEPT ![t] = Entries(n)]
       /\ request' = IF n = Total[t] THEN [request EXCEPT ![t] = "answered"] ELSE request

BuildId(t) ==
  /\ request[t] = "build"
  /\ request' = [request EXCEPT ![t] = "answered"]
  /\ UNCHANGED handed

Refuse(t) ==
  /\ request[t] \in Open
  /\ request' = [request EXCEPT ![t] = "refused"]
  /\ UNCHANGED handed

\* disconnect gives up the open transactions of a client.
Drop(T) ==
  /\ \A t \in T : request[t] \in Open
  /\ request' = [t \in Trans |-> IF t \in T THEN "dropped" ELSE request[t]]
  /\ UNCHANGED handed

Kept == \/ \E t \in Trans : Issue(t) \/ Manifest(t) \/ Piece(t) \/ BuildId(t) \/ Refuse(t)
        \/ \E T \in SUBSET Trans : Drop(T)

Next == (Kept /\ ~undefined /\ UNCHANGED undefined) \/ undefined'

Spec == Init /\ [][Next]_<<request, handed, undefined>>
=============================================================================
