----------------------------- MODULE PacketPipe -----------------------------
(***************************************************************************)
(* What one direction of the game connection promises: packets come out as *)
(* they went in, each once and in order.  It may stop at any time.         *)
(***************************************************************************)
EXTENDS Naturals, Sequences

VARIABLES sent, received

Init == sent = << >> /\ received = << >>

Put ==
  /\ Len(sent') = Len(sent) + 1 /\ SubSeq(sent', 1, Len(sent)) = sent
  /\ UNCHANGED received

Get ==
  /\ Len(received) < Len(sent)
  /\ received' = Append(received, sent[Len(received) + 1])
  /\ UNCHANGED sent

Next == Put \/ Get

Spec == Init /\ [][Next]_<<sent, received>>

=============================================================================
