------------------------------ MODULE MCLinks ------------------------------
(* A request, data of one and of two bytes (one of which looks like a null *)
(* header), and the packet the framing cannot carry.                       *)
EXTENDS Links

RequestPacket(h) == [HEADER |-> h, LENGTH |-> 0, DATA |-> <<>>]
DataPacket(d)    == [HEADER |-> 0, LENGTH |-> Len(d), DATA |-> d]

MCPackets == {RequestPacket(253), DataPacket(<<7>>), DataPacket(<<255, 1>>), DataPacket(<<>>)}
=============================================================================
