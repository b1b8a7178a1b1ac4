----------------------------- MODULE MessageQueue -----------------------------
(***************************************************************************)
(* What an encrypted connection promises to the two ends, in one direction:*)
(* the messages that were sent are handled one by one, each as it was sent,*)
(* until the connection is broken; of those sent before that, the first    *)
(* ones may still be handled.  Channel implements this.                    *)
(***************************************************************************)
EXTENDS Naturals, Sequences

CONSTANT Message

VARIABLES
  sent,      \* the messages sent, in the order of the wire
  handled,   \* what the dispatch thread has handed to the handlers
  intact     \* no send has failed or been truncated

Init == sent = <<>> /\ handled = <<>> /\ intact = TRUE

Send ==
  /\ intact
  /\ Len(sent') = Len(sent) + 1 /\ SubSeq(sent', 1, Len(sent)) = sent
  /\ sent'[Len(sent')] \in Message
  /\ UNCHANGED <<handled, intact>>

Handle ==
  /\ Len(handled) < Len(sent)
  /\ handled' = Append(handled, sent[Len(handled) + 1])
  /\ UNCHANGED <<sent, intact>>

Break == intact' = FALSE /\ UNCHANGED <<sent, handled>>

Next == Send \/ Handle \/ Break

Spec == Init /\ [][Next]_<<sent, handled, intact>>
=============================================================================
