---------------------------- MODULE PacketChannel ----------------------------
(***************************************************************************)
(* What LLP::Connection promises to its callers: the packets the other     *)
(* side wrote on this link are received in the order they were written,    *)
(* none twice and none left out, and a packet that stays in reach is       *)
(* received sooner or later.  How long it stays there is the link's doing: *)
(* what a closed link has lost is never received, and nobody need ever     *)
(* notice.                                                                 *)
(* The promise ends with the first packet that the framing cannot carry    *)
(* (one not in Framable): from there on anything may be received.          *)
(***************************************************************************)
EXTENDS Naturals, Sequences

CONSTANTS
  Packets,   \* what may be written
  Framable   \* the part of it that the framing can carry

VARIABLES
  sent,      \* the packets written on this link
  received,  \* the packets handed to the callers on this link
  inReach    \* whether the next one to receive is not lost: not the channel's

(* inReach moves as the link likes.                                        *)
channelVars == <<sent, received>>

Intact(n) == \A i \in 1 .. n : sent[i] \in Framable

Pending == Len(received) < Len(sent) /\ Intact(Len(received) + 1)

Init == sent = <<>> /\ received = <<>>

Write == \E p \in Packets : sent' = Append(sent, p) /\ UNCHANGED received

Receive ==
  /\ Pending
  /\ received' = Append(received, sent[Len(received) + 1])
  /\ UNCHANGED sent

(* At a packet that cannot be framed, and ever after, whatever the bytes   *)
(* look like.                                                              *)
ReceiveGarbage ==
  /\ \E k \in 1 .. Len(sent) : sent[k] \notin Framable /\ k <= Len(received) + 1
  /\ Len(received') = Len(received) + 1
  /\ SubSeq(received', 1, Len(received)) = received
  /\ UNCHANGED sent

(* Disconnect(): the link and everything on it is gone.                    *)
Reset == sent' = <<>> /\ received' = <<>>

Next == Write \/ Receive \/ ReceiveGarbage \/ Reset

Safety == Init /\ [][Next]_channelVars

Spec == Safety /\ WF_channelVars(inReach /\ Receive)

=============================================================================
