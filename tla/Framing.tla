------------------------------- MODULE Framing -------------------------------
(***************************************************************************)
(* How LLP packets are cut out of a TCP stream: LLP::Packet, the reader    *)
(* Connection::ReadPacket and the waiting loop Outbound::ReadNextPacket,   *)
(* byte by byte.  Module Connection takes a packet to be atomic; this one  *)
(* shows what that rests on.                                               *)
(*                                                                         *)
(* The other side writes packets with GetBytes; TCP delivers their bytes   *)
(* in order and in pieces of any size.  ReadPacket makes at most one step  *)
(* per call (a header, a length, or some data), and a call of              *)
(* ReadNextPacket may give up between any two of them and leave a partial  *)
(* packet in INCOMING for the next call.                                   *)
(***************************************************************************)
EXTENDS Integers, Sequences, SequencesExt

CONSTANTS
  Packets,      \* what the other side may write: [HEADER, LENGTH, DATA]
  LengthBytes,  \* BOUND: bytes of the length header, 4 in the code
  MaxSent       \* BOUND: packets written on one link

ASSUME FramingAssumption ==
  /\ LengthBytes \in Nat \ {0}
  /\ MaxSent \in Nat

Byte == 0 .. 255

(* LENGTH shifted right by 0, 8, 16 ... bits.                              *)
Shifts(n) ==
  LET shifted[i \in 0 .. LengthBytes] == IF i = 0 THEN n ELSE shifted[i - 1] \div 256
  IN  shifted

(* The types of Packet's fields: LENGTH is as wide as its header.          *)
LengthType == {n \in Nat : Shifts(n)[LengthBytes] = 0}

ASSUME PacketsAssumption ==
  \A p \in Packets : p \in [HEADER : Byte, LENGTH : LengthType, DATA : Seq(Byte)]

VARIABLES
  sent,          \* the packets written on this link
  wire,          \* their bytes that are still under way
  socket,        \* bytes that have arrived and wait to be read
  INCOMING,      \* the packet being built
  ERROR_HANDLE,  \* whether the last socket operation left an error
  link,          \* whether the other side still holds its end open
  pc,            \* "idle", inside ReadNextPacket: "loop", or "got" a packet
  received       \* the packets handed to the callers on this link

framingVars == <<sent, wire, socket, INCOMING, ERROR_HANDLE, link, pc, received>>

NULL_PACKET == [HEADER |-> 255, LENGTH |-> 0, DATA |-> <<>>]

(* Packet::IsNull, Header and Complete.                                    *)
IsNull(p) == p.HEADER = 255
Header(p) == \/ p.HEADER < 128 /\ p.LENGTH > 0
             \/ p.HEADER \in 128 .. 254 /\ p.LENGTH = 0
Complete(p) == Header(p) /\ Len(p.DATA) = p.LENGTH

(* The length is written and read with its most significant byte first.    *)
LengthOf(bytes) ==
  LET value[i \in 0 .. Len(bytes)] == IF i = 0 THEN 0 ELSE 256 * value[i - 1] + bytes[i]
  IN  value[Len(bytes)]
LengthHeader(n) == [i \in 1 .. LengthBytes |-> Shifts(n)[LengthBytes - i] % 256]

GetBytes(p) ==
  <<p.HEADER>> \o IF p.HEADER < 128 THEN LengthHeader(p.LENGTH) \o p.DATA ELSE <<>>

FramingInit ==
  /\ sent = <<>>
  /\ wire = <<>>
  /\ socket = <<>>
  /\ INCOMING = NULL_PACKET
  /\ ERROR_HANDLE = FALSE
  /\ link = "up"
  /\ pc = "idle"
  /\ received = <<>>

-----------------------------------------------------------------------------
(* The other side and the network (external).  When the link drops, what   *)
(* has not arrived is lost, in the middle of a packet if need be.          *)
Write ==
  /\ link = "up"
  /\ Len(sent) < MaxSent
  /\ \E p \in Packets : sent' = Append(sent, p) /\ wire' = wire \o GetBytes(p)
  /\ UNCHANGED <<socket, INCOMING, ERROR_HANDLE, link, pc, received>>

Arrive ==
  /\ \E n \in 1 .. Len(wire) :
       /\ socket' = socket \o SubSeq(wire, 1, n)
       /\ wire' = SubSeq(wire, n + 1, Len(wire))
  /\ UNCHANGED <<sent, INCOMING, ERROR_HANDLE, link, pc, received>>

LinkDrops ==
  /\ link = "up"
  /\ link' = "down"
  /\ wire' = <<>>
  /\ UNCHANGED <<sent, socket, INCOMING, ERROR_HANDLE, pc, received>>

(* A request of the client itself finds the link broken.  Nothing else     *)
(* does, and nobody need ever make one.                                    *)
WriteFails ==
  /\ link = "down" /\ pc = "idle"
  /\ ERROR_HANDLE' = TRUE
  /\ UNCHANGED <<sent, wire, socket, INCOMING, link, pc, received>>

-----------------------------------------------------------------------------
(* The three reads of ReadPacket, each of which returns after it.          *)
ReadHeader ==
  /\ IsNull(INCOMING)
  /\ socket # <<>>
  /\ INCOMING' = [INCOMING EXCEPT !.HEADER = Head(socket)]
  /\ socket' = Tail(socket)

ReadLength ==
  /\ ~ IsNull(INCOMING) /\ ~ Complete(INCOMING)
  /\ INCOMING.LENGTH = 0
  /\ Len(socket) >= LengthBytes
  /\ INCOMING' = [INCOMING EXCEPT !.LENGTH = LengthOf(SubSeq(socket, 1, LengthBytes))]
  /\ socket' = SubSeq(socket, LengthBytes + 1, Len(socket))

DataMissing == INCOMING.LENGTH - Len(INCOMING.DATA)

(* Mutant: takes all there is, into the next packet.                       *)
ReadDataGreedy ==
  /\ ~ IsNull(INCOMING) /\ ~ Complete(INCOMING)
  /\ INCOMING.LENGTH > 0
  /\ socket # <<>>
  /\ DataMissing > 0
  /\ INCOMING' = [INCOMING EXCEPT !.DATA = @ \o socket]
  /\ socket' = <<>>

ReadData ==
  /\ ~ IsNull(INCOMING) /\ ~ Complete(INCOMING)
  /\ INCOMING.LENGTH > 0
  /\ socket # <<>>
  /\ DataMissing > 0
  /\ LET n == IF Len(socket) < DataMissing THEN Len(socket) ELSE DataMissing
     IN /\ INCOMING' = [INCOMING EXCEPT !.DATA = @ \o SubSeq(socket, 1, n)]
        /\ socket' = SubSeq(socket, n + 1, Len(socket))

ReadNothing ==
  /\ \/ ERROR_HANDLE
     \/ IsNull(INCOMING) /\ socket = <<>>
     \/ ~ IsNull(INCOMING) /\ INCOMING.LENGTH = 0 /\ Len(socket) < LengthBytes
     \/ ~ IsNull(INCOMING) /\ INCOMING.LENGTH > 0 /\ (socket = <<>> \/ DataMissing <= 0)
  /\ UNCHANGED <<INCOMING, socket>>

ReadPacket ==
  \/ ~ ERROR_HANDLE /\ (ReadHeader \/ ReadLength \/ ReadData)
  \/ ReadNothing

(* ReadNextPacket: while the packet is not complete, one ReadPacket, then  *)
(* a look at the timer and at the error; either one ends the call with a   *)
(* null packet, also when this very ReadPacket completed INCOMING.         *)
ReadNextPacket ==
  /\ pc = "idle"
  /\ pc' = "loop"
  /\ UNCHANGED <<sent, wire, socket, INCOMING, ERROR_HANDLE, link, received>>

LoopOnce ==
  /\ pc = "loop" /\ ~ Complete(INCOMING)
  /\ ReadPacket
  /\ pc' \in IF ERROR_HANDLE THEN {"idle"} ELSE {"idle", "loop"}
  /\ UNCHANGED <<sent, wire, ERROR_HANDLE, link, received>>

ReturnPacket ==
  /\ pc = "loop" /\ Complete(INCOMING)
  /\ pc' = "got"
  /\ UNCHANGED <<sent, wire, socket, INCOMING, ERROR_HANDLE, link, received>>

(* The caller resets the packet it was given, or leaves it in INCOMING,    *)
(* where the next call finds it complete.                                  *)
ResetPacket ==
  /\ pc = "got"
  /\ pc' = "idle"
  /\ received' = Append(received, INCOMING)
  /\ INCOMING' = NULL_PACKET
  /\ UNCHANGED <<sent, wire, socket, ERROR_HANDLE, link>>

KeepPacket ==
  /\ pc = "got"
  /\ pc' = "idle"
  /\ UNCHANGED <<sent, wire, socket, INCOMING, ERROR_HANDLE, link, received>>

(* Mutant: Disconnect() without ResetPacket() when the packet is partial.  *)
DisconnectKeepsPart ==
  /\ pc = "idle"
  /\ INCOMING' = IF Complete(INCOMING) THEN NULL_PACKET ELSE INCOMING
  /\ link' = "up"
  /\ sent' = <<>> /\ received' = <<>>
  /\ wire' = <<>> /\ socket' = <<>>
  /\ ERROR_HANDLE' = FALSE
  /\ UNCHANGED pc

(* Disconnect() and the next Connect(): only Disconnect() drops the part   *)
(* of a packet that INCOMING may hold.                                     *)
Disconnect ==
  /\ pc = "idle"
  /\ INCOMING' = NULL_PACKET
  /\ link' = "up"
  /\ sent' = <<>> /\ received' = <<>>
  /\ wire' = <<>> /\ socket' = <<>>
  /\ ERROR_HANDLE' = FALSE
  /\ UNCHANGED pc

FramingNext ==
  \/ Write \/ Arrive \/ LinkDrops \/ WriteFails
  \/ ReadNextPacket \/ LoopOnce \/ ReturnPacket
  \/ ResetPacket \/ KeepPacket \/ Disconnect

(* TCP delivers what it can; the main loop calls ReadNextPacket again and  *)
(* again; a kept packet is dropped by a later pass (WaitWorkUpdate resets  *)
(* whatever it finds).  Nothing is assumed of noticing that the link has   *)
(* dropped: the main loop writes only when a thread wants a block or has   *)
(* flagged a share, and it pings only before its first pass.               *)
FramingFairness ==
  /\ WF_framingVars(Arrive)
  /\ WF_framingVars(ReadNextPacket) /\ WF_framingVars(LoopOnce) /\ WF_framingVars(ReturnPacket)
  /\ SF_framingVars(ResetPacket)

FramingSpec == FramingInit /\ [][FramingNext]_framingVars
FramingFairSpec == FramingSpec /\ FramingFairness

-----------------------------------------------------------------------------
(* What the framing can carry: the null header is skipped, and a data      *)
(* packet without data never gets past its length (Connection.cpp:94).     *)
Framable ==
  {p \in Packets : \/ p.HEADER < 128 /\ p.LENGTH > 0 /\ Len(p.DATA) = p.LENGTH
                   \/ p.HEADER \in 128 .. 254 /\ p.LENGTH = 0 /\ p.DATA = <<>>}

(* The bytes read so far into a packet under construction.                 *)
BytesRead(p) ==
  IF IsNull(p) THEN <<>>
  ELSE <<p.HEADER>> \o (IF p.LENGTH = 0 THEN <<>> ELSE LengthHeader(p.LENGTH)) \o p.DATA

BytesOf(ps) == FlattenSeq([i \in 1 .. Len(ps) |-> GetBytes(ps[i])])

Known == BytesOf(received) \o BytesRead(INCOMING) \o socket \o wire

(* However the stream was cut into pieces and wherever calls gave up, the  *)
(* packets received, the partial packet, and the bytes still to be read    *)
(* are the bytes written, in order and without a gap; after a drop, all    *)
(* but a tail of them (ReadPacket, ReadNextPacket).                        *)
NoByteLost ==
  (\A i \in 1 .. Len(sent) : sent[i] \in Framable) =>
    IF link = "up" THEN Known = BytesOf(sent) ELSE IsPrefix(Known, BytesOf(sent))

(* The next packet has arrived to its last byte, so a drop cannot hurt it. *)
NextArrived ==
  /\ Len(received) < Len(sent)
  /\ Len(GetBytes(sent[Len(received) + 1])) <= Len(BytesRead(INCOMING)) + Len(socket)

(* The next packet can be had while the link carries it, and after a drop  *)
(* if it has arrived, until an error makes ReadPacket stop reading.        *)
InReach == link = "up" \/ (~ ERROR_HANDLE /\ NextArrived)

(* The link hands out whole packets in order, and one that stays in reach  *)
(* sooner or later, wherever the reader gives up and however the stream is *)
(* cut: the promise of PacketChannel, which the module Connection builds   *)
(* on.                                                                     *)
Channel == INSTANCE PacketChannel WITH inReach <- InReach
DeliversPackets == Channel!Spec

=============================================================================
