------------------------------ MODULE BlockCodec ------------------------------
(* A block on its way through the bytes of the pool protocol: a BLOCK_DATA      *)
(* packet read into a CBlock (miner.cpp, Miner.h), the header hashed from the    *)
(* object's memory (CBlock.h), and the share written into a SUBMIT_BLOCK packet. *)
(* The pool lays a block out as the client reads it.                             *)
EXTENDS WordBytes

CONSTANTS
  PrevWidth,   \* words of hashPrevBlock
  MerkleWidth, \* words of hashMerkleRoot
  WordValues,  \* values of the words a block is made of
  NULL

ASSUME CodecAssumption ==
  /\ PrevWidth \in Nat \ {0} /\ MerkleWidth \in Nat \ {0}
  /\ WordValues \subseteq 0..WordSize - 1

VARIABLES coSent,   \* the pool's work: the share bits and the block
          coData,   \* the bytes of the packet under way
          coBits,   \* PoolWork::m_unBits
          coBlock,  \* the CBlock
          coPhase   \* "pool", "read", "client", "submit"

coVars == <<coSent, coData, coBits, coBlock, coPhase>>

(* An object as the constructor leaves it: the channel is not initialized, so  *)
(* it is any word (one of WordValues).                                           *)
NewCBlock(garbage) ==
  [version |-> 0, prev |-> Zero(PrevWidth), merkle |-> Zero(MerkleWidth), channel |-> garbage,
   height |-> 0, bits |-> 0, nonce |-> <<0, 0>>]

(* ----------------------- numbers in the packets ---------------------------- *)

(* A 64-bit number is its two words, the low one first. *)
uint2bytes(v) == GetBytes([i \in Words(1) |-> v])

uint2bytes64(v) == uint2bytes(v[0]) \o uint2bytes(v[1])

bytes2uint(data, nOffset) == FourBytes(data, nOffset)

bytes2uint64(data) == [i \in Words(2) |-> bytes2uint(data, 4 * i)]

(* --------------------------------- blocks ---------------------------------- *)

Bytes(data, first, last) == SubSeq(data, first + 1, last)  \* [first, last) of a vector

(* Mutant: the merkle root's bytes are counted from the front and run one word  *)
(* short of it.                                                                  *)
DeserializeBlockShort(data, block) ==
  LET end == Len(data)
      prevEnd == 4 + 4 * PrevWidth
      word(back) == bytes2uint(Bytes(data, end - back, end - back + 4), 0)
  IN  IF data = << >> THEN NULL
      ELSE [block EXCEPT !.version = bytes2uint(data, 0),
                         !.prev    = SetBytes(Bytes(data, 4, prevEnd), PrevWidth),
                         !.merkle  = SetBytes(Bytes(data, prevEnd - 4, end - 20), MerkleWidth),
                         !.channel = word(20), !.height = word(16), !.bits = word(12),
                         !.nonce   = bytes2uint64(Bytes(data, end - 8, end))]

(* The first fields are found from the front, the last ones from the end. *)
DeserializeBlock(data, block) ==
  LET end == Len(data)
      prevEnd == 4 + 4 * PrevWidth
      word(back) == bytes2uint(Bytes(data, end - back, end - back + 4), 0)
  IN  IF data = << >> THEN NULL
      ELSE [block EXCEPT !.version = bytes2uint(data, 0),
                         !.prev    = SetBytes(Bytes(data, 4, prevEnd), PrevWidth),
                         !.merkle  = SetBytes(Bytes(data, prevEnd, end - 20), MerkleWidth),
                         !.channel = word(20), !.height = word(16), !.bits = word(12),
                         !.nonce   = bytes2uint64(Bytes(data, end - 8, end))]

(* The header of a block as the pool sends it. *)
Wire(block) ==
  uint2bytes(block.version) \o GetBytes(block.prev) \o GetBytes(block.merkle)
    \o uint2bytes(block.channel) \o uint2bytes(block.height) \o uint2bytes(block.bits)
    \o uint2bytes64(block.nonce)

(* Mutant: the nonce is cut to an unsigned int on its way. *)
ShareCut(block) == GetBytes(block.merkle) \o uint2bytes(block.nonce[0]) \o uint2bytes(0)

(* SubmitBlock's data, and the length it declares: 72 for sixteen words. *)
Share(block) == GetBytes(block.merkle) \o uint2bytes64(block.nonce)

ShareLength == 4 * MerkleWidth + 8

CodecInit ==
  /\ coSent = NULL /\ coData = << >> /\ coBits = 0 /\ coBlock = NULL /\ coPhase = "pool"

Some(width) == [Words(width) -> WordValues]

PoolSendsBlock ==
  /\ coPhase = "pool"
  /\ \E v, c, h, b, s \in WordValues : \E p \in Some(PrevWidth), m \in Some(MerkleWidth), n \in Some(2) :
       LET block == [version |-> v, prev |-> p, merkle |-> m, channel |-> c, height |-> h,
                     bits |-> b, nonce |-> n]
       IN  coSent' = [bits |-> s, block |-> block] /\ coData' = uint2bytes(s) \o Wire(block)
  /\ coPhase' = "read"
  /\ UNCHANGED <<coBits, coBlock>>

(* WaitWorkUpdate: the block behind the first four bytes, and those. *)
ReadWork ==
  /\ coPhase = "read"
  /\ \E garbage \in WordValues :
       coBlock' = DeserializeBlock(Bytes(coData, 4, Len(coData)), NewCBlock(garbage))
  /\ coBits' = bytes2uint(coData, 0)
  /\ coPhase' = "client"
  /\ UNCHANGED <<coSent, coData>>

(* The mining thread stores a nonce and the connection thread submits it. *)
SubmitShare ==
  /\ coPhase = "client"
  /\ \E nonce \in Some(2) : coBlock' = [coBlock EXCEPT !.nonce = nonce]
  /\ coData' = Share(coBlock')
  /\ coPhase' = "submit"
  /\ UNCHANGED <<coSent, coBits>>

CodecNext == PoolSendsBlock \/ ReadWork \/ SubmitShare

CodecSpec == CodecInit /\ [][CodecNext]_coVars

(* ------------------------------- properties ------------------------------- *)

(* The block a thread is given is the one the pool sent, field by field and     *)
(* whatever the new object held, with the share bits of the same packet          *)
(* (WaitWorkUpdate, DeserializeBlock).                                           *)
BlockSurvivesWire ==
  coPhase = "client" => coBlock = coSent.block /\ coBits = coSent.bits

(* A submitted share names the merkle root the pool sent and the nonce found,   *)
(* read back the way the client itself reads these numbers, and is as long as    *)
(* its packet says (SubmitBlock).                                                *)
ShareSurvivesWire ==
  coPhase = "submit" =>
    /\ Len(coData) = ShareLength
    /\ SetBytes(Bytes(coData, 0, 4 * MerkleWidth), MerkleWidth) = coSent.block.merkle
    /\ bytes2uint64(Bytes(coData, 4 * MerkleWidth, ShareLength)) = coBlock.nonce
===============================================================================
