---------------------------- MODULE HashTemplates ----------------------------
(* The hashes of hash/templates.h: a Skein digest of the data, hashed again by *)
(* Keccak at a rate, an output length and a suffix of its own, and the two      *)
(* halves of a Skein1024 computation that MinerThread sends to a board: the      *)
(* chaining value after the whole blocks of the header ("key2") and the last    *)
(* block, the one with the nonce ("message2"). The board does the rest.         *)
EXTENDS Skein, KeccakSponge

CONSTANTS PartBytes,  \* lengths of one part of a template's data
          Nonces      \* nonces a board may come back with

ASSUME TemplatesAssumption == PartBytes \subseteq Nat /\ Nonces \subseteq Nat

VARIABLES tpCall,   \* the template called and its data, part by part
          tpDigest, \* what it returned
          tpWork,   \* what a board was sent
          tpNonce,  \* the nonce of the block under way
          tpPhase   \* "idle", "hashed", "sent", "found"

tpVars == <<tpCall, tpDigest, tpWork, tpNonce, tpPhase>>

(* ----------------------------- templates.h -------------------------------- *)

(* The second stage, over the digest of the first as unknown bytes. *)
KeccakStage(rate, bits, suffix) ==
  LET h == Keccak_HashUpdate(Keccak_HashInitialize(rate, bits \div 8, suffix),
                             Data(0, bits \div 8), NoTail)
      f == Keccak_HashFinal(h)
  IN  [perms |-> f.hash.sponge.state.perms, out |-> f.out]

SHA3Suffix == {1, 2}   \* 0x06
SK1024Suffix == {0, 2} \* 0x05

SK64(m) ==
  [skein  |-> Skein_256_Final(Skein_256_Update(Skein_256_Init(NewContext(32), 64), m)).hashVal,
   keccak |-> KeccakStage(1344, 64, SHA3Suffix)]

SK256(m) ==
  [skein  |-> Skein_256_Final(Skein_256_Update(Skein_256_Init(NewContext(32), 256), m)).hashVal,
   keccak |-> KeccakStage(1088, 256, SHA3Suffix)]

SK512_1(m) ==
  [skein  |-> Skein_512_Final(Skein_512_Update(Skein_512_Init(NewContext(64), 512), m)).hashVal,
   keccak |-> KeccakStage(576, 512, SHA3Suffix)]

SK512_2(m1, m2) ==
  LET c == Skein_512_Update(Skein_512_Update(Skein_512_Init(NewContext(64), 512), m1), m2)
  IN  [skein |-> Skein_512_Final(c).hashVal, keccak |-> KeccakStage(576, 512, SHA3Suffix)]

(* Mutant: the third part is taken for the second. *)
SK512_3Twice(m1, m2, m3) == SK512_2(m1, m2)

SK512_3(m1, m2, m3) ==
  LET c == Skein_512_Update(Skein_512_Update(Skein_512_Update(
             Skein_512_Init(NewContext(64), 512), m1), m2), m3)
  IN  [skein |-> Skein_512_Final(c).hashVal, keccak |-> KeccakStage(576, 512, SHA3Suffix)]

SK576(m) ==
  [skein  |-> Skein1024_Final(Skein1024_Update(Skein1024_Init(NewContext(128), 576), m)).hashVal,
   keccak |-> KeccakStage(1024, 576, SHA3Suffix)]

SK1024(m) ==
  [skein  |-> Skein1024_Final(Skein1024_Update(Skein1024_Init(NewContext(128), 1024), m)).hashVal,
   keccak |-> KeccakStage(576, 1024, SK1024Suffix)]

(* The sixteen words of the chaining value; the seventeenth that is sent is    *)
(* their XOR with the key schedule's parity.                                    *)
SKEINKEY2(m) == Skein1024_Update(Skein1024_Init(NewContext(128), 1024), m).X

(* Mutant: the bytes of a word keep their order. *)
SKEINMESSAGE2Straight(m) ==
  LET c == Skein1024_Update(Skein1024_Init(NewContext(128), 1024), m)
  IN  [i \in 1..128 |-> IF i <= c.bCnt THEN c.b[i] ELSE 0]

(* The bytes that wait in b[], each word with its most significant byte first. *)
SKEINMESSAGE2(m) ==
  LET c == Skein1024_Update(Skein1024_Init(NewContext(128), 1024), m)
      swapped(i) == ((i - 1) \div 8) * 8 + 8 - ((i - 1) % 8)
  IN  [i \in 1..128 |-> IF i <= c.bCnt THEN c.b[swapped(i)] ELSE 0]

(* ------------------------------- CBlock ----------------------------------- *)

(* BEGIN(m_unVersion) to END(m_ullNonce): version, previous block, Merkle      *)
(* root, channel, height and bits, then the nonce.                              *)
HeaderBytes == 4 + 128 + 64 + 4 + 4 + 4 + 8

NonceBytes(nonce) == [i \in 1..8 |-> 2000 + 8 * nonce + i]
Header(nonce) == Message(0, HeaderBytes - 8) \o NonceBytes(nonce)

GetHash(nonce)     == SK1024(Header(nonce))
GetKey2(nonce)     == SKEINKEY2(Header(nonce))
GetMessage2(nonce) == SKEINMESSAGE2(Header(nonce))

(* ------------------------- the board's half (external) -------------------- *)

(* The board puts its nonce over the last word of the header, compresses the   *)
(* block as the last of the header under the chaining value it was sent, and    *)
(* runs the output stage.                                                       *)
BoardHash(work, nonce) ==
  LET rest  == HeaderBytes % 128
      bytes == [i \in 1..128 |-> work.message2[((i - 1) \div 8) * 8 + 8 - ((i - 1) % 8)]]
      block == [i \in 1..128 |-> IF i > rest THEN 0
                                 ELSE IF i > rest - 8 THEN NonceBytes(nonce)[i - (rest - 8)]
                                 ELSE bytes[i]]
      last  == [T0 |-> HeaderBytes, T1 |-> [type |-> "MSG", first |-> FALSE, final |-> TRUE],
                block |-> block]
  IN  << [X |-> UBI(128, Append(work.key2, last), Word(0), "OUT"), bytes |-> 128] >>

(* ----------------------------- the calls ---------------------------------- *)

Templates ==
  {[name |-> t, lens |-> <<n>>] : t \in {"SK64", "SK256", "SK512", "SK576", "SK1024"},
                                  n \in PartBytes}
    \cup {[name |-> "SK512", lens |-> <<n, m>>] : n, m \in PartBytes}
    \cup {[name |-> "SK512", lens |-> <<n, m, k>>] : n, m, k \in PartBytes}

Digest(call) ==
  LET n    == call.lens
      p(i) == Message(IF i = 1 THEN 0 ELSE IF i = 2 THEN n[1] ELSE n[1] + n[2], n[i])
  IN  CASE call.name = "SK64"   -> SK64(p(1))
        [] call.name = "SK256"  -> SK256(p(1))
        [] call.name = "SK576"  -> SK576(p(1))
        [] call.name = "SK1024" -> SK1024(p(1))
        [] call.name = "SK512"  -> (CASE Len(n) = 1 -> SK512_1(p(1))
                                      [] Len(n) = 2 -> SK512_2(p(1), p(2))
                                      [] Len(n) = 3 -> SK512_3(p(1), p(2), p(3)))

NoCall == [name |-> "", lens |-> << >>]

TpInit ==
  /\ tpCall = NoCall /\ tpDigest = << >> /\ tpWork = << >>
  /\ tpNonce = 0 /\ tpPhase = "idle"

CallTemplate(call) ==
  /\ tpPhase = "idle"
  /\ tpCall' = call /\ tpDigest' = Digest(call) /\ tpPhase' = "hashed"
  /\ UNCHANGED <<tpWork, tpNonce>>

(* MinerThread sends the block it was given, with the nonce it came with. *)
SendWork(nonce) ==
  /\ tpPhase = "idle"
  /\ tpWork' = [key2 |-> GetKey2(nonce), message2 |-> GetMessage2(nonce)]
  /\ tpNonce' = nonce /\ tpPhase' = "sent"
  /\ UNCHANGED <<tpCall, tpDigest>>

(* The board answers with a nonce, MinerThread sets it (SetNonce) and          *)
(* ServerConnection hashes the block (GetHash).                                 *)
ReceiveNonce(nonce) ==
  /\ tpPhase = "sent"
  /\ tpNonce' = nonce /\ tpDigest' = GetHash(nonce) /\ tpPhase' = "found"
  /\ UNCHANGED <<tpCall, tpWork>>

(* The caller has its digest and goes on. *)
Return ==
  /\ tpPhase \in {"hashed", "found"}
  /\ tpCall' = NoCall /\ tpDigest' = << >> /\ tpWork' = << >> /\ tpNonce' = 0
  /\ tpPhase' = "idle"

TpNext == \/ Return
          \/ \E call \in Templates : CallTemplate(call)
          \/ \E nonce \in Nonces : SendWork(nonce) \/ ReceiveNonce(nonce)

(* One of the three at a time: a Skein context, a Keccak instance, or the      *)
(* templates, which have contexts and instances of their own.                   *)
htVars == <<skVars, spVars, tpVars>>

HtInit == SkInit /\ SpInit /\ TpInit

UseSkein  == spPhase = "fresh" /\ tpPhase = "idle" /\ SkNext /\ UNCHANGED <<spVars, tpVars>>
UseKeccak == skPhase = "fresh" /\ tpPhase = "idle" /\ SpNext /\ UNCHANGED <<skVars, tpVars>>
UseBoth   == skPhase = "fresh" /\ spPhase = "fresh" /\ TpNext /\ UNCHANGED <<skVars, spVars>>

HtNext == UseSkein \/ UseKeccak \/ UseBoth

HtSpec == HtInit /\ [][HtNext]_htVars

(* ------------------------------- properties ------------------------------- *)

(* [Skein block bytes, output bits, Keccak rate, suffix] of a template. *)
Recipe(name) ==
  CASE name = "SK64"   -> [N |-> 32,  bits |-> 64,   rate |-> 1344, suffix |-> SHA3Suffix]
    [] name = "SK256"  -> [N |-> 32,  bits |-> 256,  rate |-> 1088, suffix |-> SHA3Suffix]
    [] name = "SK512"  -> [N |-> 64,  bits |-> 512,  rate |-> 576,  suffix |-> SHA3Suffix]
    [] name = "SK576"  -> [N |-> 128, bits |-> 576,  rate |-> 1024, suffix |-> SHA3Suffix]
    [] name = "SK1024" -> [N |-> 128, bits |-> 1024, rate |-> 576,  suffix |-> SK1024Suffix]

TwoStageHash(name, M) ==
  LET r == Recipe(name)
      blocks == PaddedBlocks(r.rate, Data(0, r.bits \div 8), NoTail, r.suffix)
      out == SqueezedBytes(r.rate, Len(blocks), r.bits \div 8)
  IN  [skein  |-> SkeinHash(r.N, r.bits, << >>, M),
       keccak |-> [perms |-> blocks \o [k \in 1..(r.bits - 1) \div r.rate |-> {}], out |-> out]]

(* The length of the data, of one to three parts. *)
Total(lens) == lens[1] + (IF Len(lens) >= 2 THEN lens[2] ELSE 0)
                       + (IF Len(lens) = 3 THEN lens[3] ELSE 0)

(* Every template is the Keccak hash of the Skein hash of its data, and a hash *)
(* of two or three parts is the hash of their concatenation, empty parts        *)
(* included: SK64 to SK1024.                                                     *)
PartsHashAsOne ==
  tpPhase = "hashed" =>
    tpDigest = TwoStageHash(tpCall.name, Message(0, Total(tpCall.lens)))

(* What the board computes from key2, message2 and the nonce it found is the   *)
(* Skein stage of the hash the miner computes of the block with that nonce:     *)
(* SKEINKEY2 and SKEINMESSAGE2 split Skein1024_Update exactly at the block with *)
(* the nonce in it.                                                              *)
MidStateCompletes ==
  tpPhase = "found" =>
    /\ BoardHash(tpWork, tpNonce) = tpDigest.skein
    /\ tpDigest = TwoStageHash("SK1024", Header(tpNonce))
=============================================================================
