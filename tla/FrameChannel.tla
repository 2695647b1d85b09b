---------------------------- MODULE FrameChannel ----------------------------
(***************************************************************************)
(* What a TCP_ connection promises in one direction, whatever its framing:  *)
(* the commands are those sent, in order, none lost or torn, until the      *)
(* connection closes; after that there are none.                            *)
(***************************************************************************)
EXTENDS Naturals, Sequences

CONSTANT Message
VARIABLES
  sent,      \* the messages handed to the sending end
  received,  \* the commands the receiving end has produced
  open       \* OnClose has not been called yet

chanVars == <<sent, received, open>>

Init == sent = <<>> /\ received = <<>> /\ open = TRUE

\* Some message is appended.
Send ==
  /\ Len(sent') = Len(sent) + 1
  /\ SubSeq(sent', 1, Len(sent)) = sent
  /\ sent'[Len(sent) + 1] \in Message
  /\ UNCHANGED <<received, open>>

Receive ==
  /\ open
  /\ Len(received) < Len(sent)
  /\ received' = Append(received, sent[Len(received) + 1])
  /\ UNCHANGED <<sent, open>>

Close ==
  /\ open
  /\ open' = FALSE
  /\ UNCHANGED <<sent, received>>

Next == Send \/ Receive \/ Close

Spec == Init /\ [][Next]_chanVars
=============================================================================
