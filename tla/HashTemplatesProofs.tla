-------------------------- MODULE HashTemplatesProofs --------------------------
(***************************************************************************)
(* The hashes of templates.h are two-stage hashes of their data, however   *)
(* many parts it comes in, and a board that is sent the chaining value and *)
(* the last block of a header computes the Skein stage of the hash the     *)
(* miner computes of the block with the nonce the board found              *)
(* (PartsHashAsOne, MidStateCompletes). Both follow from what the          *)
(* operations of a context and of a hash instance do to any stream, so     *)
(* they are here for every length of the parts and every nonce.            *)
(***************************************************************************)
EXTENDS Computations, SkeinProofs, KeccakProofs, IntegerProofs

(* A Skein context, N bytes a block, that was fed so many bytes of a text. *)
Chain(N, bits) == ConfiguredChain(N, bits, << >>)

Feeding(N, bits, M, fed, c) == Streams(N, Chain(N, bits), "MSG", M, bits, fed, c)

(* Without a key the chaining value is one.                                *)
LEMMA ChainIsChain ==
  ASSUME NEW N \in Sizes, NEW bits \in Nat
  PROVE  Chain(N, bits) \in Seq(Compression)
<1> PICK z \in Nat : z = 0
  OBVIOUS
<1>1. Key(z) = << >>
  BY KeyIs
<1>2. ConfiguredChain(N, bits, Key(z)) \in Seq(Compression)
  BY ChainType
<1> QED
  BY ONLY <1>1, <1>2, Zenon DEF Chain

(* A context just initialised.                                             *)
LEMMA FeedingBegins ==
  ASSUME NEW N \in Sizes, NEW bits \in Nat, NEW M \in Texts, NEW z \in Nat, z = 0
  PROVE  Feeding(N, bits, M, z, InitAs(N, NewContext(N), bits))
<1> PICK c, G : c = InitAs(N, NewContext(N), bits) /\ G = Chain(N, bits)
  OBVIOUS
<1> PICK type \in Types : type = "MSG"
  BY DEF Types
<1>1. N \in Nat /\ N >= 32 /\ N \in Nat \ {0}
  BY SizeIs
<1>2. Used(N, NewContext(N))
  BY NewIsUsed
<1>3. PICK b \in [1..N -> Int] : c = Fresh(bits, "MSG", ConfiguredChain(N, bits, << >>), b)
  BY ONLY <1>1, <1>2, InitIs, bits \in Nat, c = InitAs(N, NewContext(N), bits)
<1>4. c = Fresh(bits, type, G, b)
  BY ONLY <1>3, type = "MSG", G = Chain(N, bits), Zenon DEF Chain
<1>5. G \in Seq(Compression)
  BY ONLY ChainIsChain, N \in Sizes, bits \in Nat, G = Chain(N, bits)
<1>6. Streams(N, G, type, M, bits, z, c)
  BY ONLY <1>1, <1>4, <1>5, FreshStreams, type \in Types, M \in Texts, b \in [1..N -> Int], z \in Nat, z = 0
<1> QED
  BY ONLY <1>6, type = "MSG", c = InitAs(N, NewContext(N), bits), G = Chain(N, bits), Zenon DEF Feeding

(* Another part of the text.                                               *)
LEMMA FeedingGoesOn ==
  ASSUME NEW N \in Sizes, NEW bits \in Nat, NEW M \in Texts, NEW fed \in Nat, NEW c,
         Feeding(N, bits, M, fed, c), NEW m \in Nat, NEW msg, msg = Part(M, fed, m)
  PROVE  Feeding(N, bits, M, fed + m, UpdateAs(N, c, msg))
<1> PICK G : G = Chain(N, bits)
  OBVIOUS
<1> PICK type \in Types : type = "MSG"
  BY DEF Types
<1>1. N \in Nat \ {0}
  BY SizeIs
<1>2. G \in Seq(Compression)
  BY ONLY ChainIsChain, N \in Sizes, bits \in Nat, G = Chain(N, bits)
<1>3. Streams(N, G, type, M, bits, fed, c)
  BY ONLY Feeding(N, bits, M, fed, c), type = "MSG", G = Chain(N, bits), Zenon DEF Feeding
<1>4. Streams(N, G, type, M, bits, fed + m, UpdateAs(N, c, msg))
  BY ONLY <1>1, <1>2, <1>3, UpdateStreams, type \in Types, M \in Texts, fed \in Nat, m \in Nat,
          msg = Part(M, fed, m)
<1> QED
  BY ONLY <1>4, type = "MSG", G = Chain(N, bits), Zenon DEF Feeding

(* What Final returns is the Skein hash of the text up to there.           *)
LEMMA FeedingEnds ==
  ASSUME NEW N \in Sizes, NEW bits \in Nat, NEW M \in Texts, NEW fed \in Nat, NEW c,
         Feeding(N, bits, M, fed, c)
  PROVE  FinalAs(N, c).hashVal = SkeinHash(N, bits, << >>, Part(M, 0, fed))
<1> PICK G, text : G = Chain(N, bits) /\ text = Part(M, 0, fed)
  OBVIOUS
<1> PICK type \in Types : type = "MSG"
  BY DEF Types
<1>1. N \in Nat /\ N >= 32 /\ N \in Nat \ {0}
  BY SizeIs
<1>2. G \in Seq(Compression)
  BY ONLY ChainIsChain, N \in Sizes, bits \in Nat, G = Chain(N, bits)
<1>3. Streams(N, G, type, M, bits, fed, c)
  BY ONLY Feeding(N, bits, M, fed, c), type = "MSG", G = Chain(N, bits), Zenon DEF Feeding
<1> PICK u, d : u = UBI(N, G, text, type) /\ d = PadAndCompress(N, c)
  OBVIOUS
<1>4. Holds(N, bits, u, d)
  BY ONLY <1>1, <1>2, <1>3, PadCompletes, type \in Types, M \in Texts, fed \in Nat,
          u = UBI(N, G, text, type) /\ d = PadAndCompress(N, c), G = Chain(N, bits) /\ text = Part(M, 0, fed)
<1>5. u \in Seq(Compression)
  BY ONLY <1>1, <1>2, UBIType, type \in Types, M \in Texts, fed \in Nat,
          u = UBI(N, G, text, type) /\ d = PadAndCompress(N, c), G = Chain(N, bits) /\ text = Part(M, 0, fed)
<1>6. PICK byteCnt \in Nat : byteCnt = (bits + 7) \div 8
  OBVIOUS
<1>7. PICK blocks \in Nat : blocks = (byteCnt + N - 1) \div N
  <2>1. byteCnt + N - 1 \in Nat
    BY <1>1
  <2> QED
    BY <1>1, <2>1, Division
<1>8. CounterMode(N, d).hashVal = Outs(N, u, byteCnt, blocks)
  BY ONLY <1>1, <1>4, <1>5, <1>6, <1>7, CounterModeIs, bits \in Nat
<1>9. u = UBI(N, ConfiguredChain(N, bits, << >>), text, "MSG")
  BY ONLY u = UBI(N, G, text, type) /\ d = PadAndCompress(N, c), G = Chain(N, bits) /\ text = Part(M, 0, fed),
          type = "MSG", Zenon DEF Chain
<1>10. SkeinHash(N, bits, << >>, text) = Outs(N, u, byteCnt, blocks)
  BY ONLY <1>1, <1>6, <1>7, <1>9, DigestIs, bits \in Nat
<1>11. FinalAs(N, c) = CounterMode(N, d)
  BY ONLY u = UBI(N, G, text, type) /\ d = PadAndCompress(N, c), Zenon DEF FinalAs
<1> QED
  BY ONLY <1>8, <1>10, <1>11, G = Chain(N, bits) /\ text = Part(M, 0, fed)

(***************************************************************************)
(* Data in one, two or three parts.                                        *)
(***************************************************************************)

Begin(N, bits) == InitAs(N, NewContext(N), bits)

(* The context that was fed the first bytes of the data, and its digest.   *)
Fed(N, bits, fed, c) ==
  /\ Feeding(N, bits, MessageBytes, fed, c)
  /\ FinalAs(N, c).hashVal = SkeinHash(N, bits, << >>, Message(0, fed))

(* Another part of the data.                                               *)
LEMMA PartFed ==
  ASSUME NEW N \in Sizes, NEW bits \in Nat, NEW fed \in Nat, NEW c, Feeding(N, bits, MessageBytes, fed, c),
         NEW m \in Nat, NEW len \in Nat, len = fed + m, NEW d, d = UpdateAs(N, c, Message(fed, m))
  PROVE  Fed(N, bits, len, d)
<1> PICK z \in Nat : z = 0
  OBVIOUS
<1> PICK msg : msg = Message(fed, m)
  OBVIOUS
<1>1. MessageBytes \in Texts /\ msg = Part(MessageBytes, fed, m)
  BY BytesAre, msg = Message(fed, m)
<1>2. Feeding(N, bits, MessageBytes, fed + m, UpdateAs(N, c, msg))
  BY ONLY <1>1, FeedingGoesOn, N \in Sizes, bits \in Nat, fed \in Nat, m \in Nat,
          Feeding(N, bits, MessageBytes, fed, c)
<1>3. Feeding(N, bits, MessageBytes, fed + m, d)
  BY ONLY <1>2, msg = Message(fed, m), d = UpdateAs(N, c, Message(fed, m)), Zenon
<1>4. Feeding(N, bits, MessageBytes, len, d)
  BY ONLY <1>3, len = fed + m, Zenon
<1>5. FinalAs(N, d).hashVal = SkeinHash(N, bits, << >>, Part(MessageBytes, 0, len))
  BY ONLY <1>1, <1>4, FeedingEnds, N \in Sizes, bits \in Nat, len \in Nat
<1>6. Message(z, len) = Part(MessageBytes, z, len)
  BY BytesAre
<1>7. FinalAs(N, d).hashVal = SkeinHash(N, bits, << >>, Message(0, len))
  BY ONLY <1>5, <1>6, z = 0, Zenon
<1> QED
  BY ONLY <1>4, <1>7 DEF Fed

LEMMA OnePart ==
  ASSUME NEW N \in Sizes, NEW bits \in Nat, NEW n \in Nat, NEW z, z = 0,
         NEW c, c = UpdateAs(N, Begin(N, bits), Message(z, n))
  PROVE  Fed(N, bits, n, c)
<1> PICK b : b = Begin(N, bits)
  OBVIOUS
<1>1. z \in Nat /\ z + n = n
  OBVIOUS
<1>2. MessageBytes \in Texts
  BY <1>1, BytesAre
<1>3. Feeding(N, bits, MessageBytes, z, InitAs(N, NewContext(N), bits))
  BY ONLY <1>1, <1>2, FeedingBegins, N \in Sizes, bits \in Nat, z = 0
<1>4. Feeding(N, bits, MessageBytes, z, b)
  BY ONLY <1>3, b = Begin(N, bits), Zenon DEF Begin
<1>5. c = UpdateAs(N, b, Message(z, n))
  BY ONLY c = UpdateAs(N, Begin(N, bits), Message(z, n)), b = Begin(N, bits)
<1>6. Fed(N, bits, n, c)
  BY ONLY <1>1, <1>4, <1>5, PartFed, N \in Sizes, bits \in Nat, n \in Nat
<1> QED
  BY ONLY <1>6

LEMMA TwoParts ==
  ASSUME NEW N \in Sizes, NEW bits \in Nat, NEW n \in Nat, NEW m \in Nat, NEW z, z = 0,
         NEW len \in Nat, len = n + m,
         NEW c, c = UpdateAs(N, UpdateAs(N, Begin(N, bits), Message(z, n)), Message(n, m))
  PROVE  Fed(N, bits, len, c)
<1> PICK e : e = UpdateAs(N, Begin(N, bits), Message(z, n))
  OBVIOUS
<1>0. Fed(N, bits, n, e)
  BY ONLY OnePart, N \in Sizes, bits \in Nat, n \in Nat, z = 0,
          e = UpdateAs(N, Begin(N, bits), Message(z, n))
<1>1. Feeding(N, bits, MessageBytes, n, e)
  BY <1>0 DEF Fed
<1>2. c = UpdateAs(N, e, Message(n, m))
  BY ONLY c = UpdateAs(N, UpdateAs(N, Begin(N, bits), Message(z, n)), Message(n, m)),
          e = UpdateAs(N, Begin(N, bits), Message(z, n))
<1> QED
  BY ONLY <1>1, <1>2, PartFed, N \in Sizes, bits \in Nat, n \in Nat, m \in Nat, len \in Nat, len = n + m

LEMMA ThreeParts ==
  ASSUME NEW N \in Sizes, NEW bits \in Nat, NEW n \in Nat, NEW m \in Nat, NEW k \in Nat, NEW z, z = 0,
         NEW len \in Nat, len = (n + m) + k,
         NEW c, c = UpdateAs(N, UpdateAs(N, UpdateAs(N, Begin(N, bits), Message(z, n)), Message(n, m)),
                             Message(n + m, k))
  PROVE  Fed(N, bits, len, c)
<1> PICK e : e = UpdateAs(N, UpdateAs(N, Begin(N, bits), Message(z, n)), Message(n, m))
  OBVIOUS
<1> PICK fed \in Nat : fed = n + m
  OBVIOUS
<1>0. Fed(N, bits, fed, e)
  BY ONLY TwoParts, N \in Sizes, bits \in Nat, n \in Nat, m \in Nat, z = 0, fed \in Nat, fed = n + m,
          e = UpdateAs(N, UpdateAs(N, Begin(N, bits), Message(z, n)), Message(n, m))
<1>1. Feeding(N, bits, MessageBytes, fed, e)
  BY <1>0 DEF Fed
<1>5. len = fed + k
  OBVIOUS
<1>3. c = UpdateAs(N, e, Message(fed, k))
  BY ONLY c = UpdateAs(N, UpdateAs(N, UpdateAs(N, Begin(N, bits), Message(z, n)), Message(n, m)),
                       Message(n + m, k)),
          e = UpdateAs(N, UpdateAs(N, Begin(N, bits), Message(z, n)), Message(n, m)), fed = n + m, Zenon
<1> QED
  BY ONLY <1>1, <1>3, <1>5, PartFed, N \in Sizes, bits \in Nat, fed \in Nat, k \in Nat, len \in Nat

(***************************************************************************)
(* The second stage: an instance is initialised, given the b bytes of a    *)
(* digest and asked for as many, which takes m permutations more than the  *)
(* input did.                                                              *)
(***************************************************************************)

Stage(rate, b, suffix, m) ==
  LET blocks == PaddedBlocks(rate, Data(0, b), NoTail, suffix)
  IN  [perms |-> blocks \o [k \in 1..m |-> {}], out |-> SqueezedBytes(rate, Len(blocks), b)]

StageAt(R, rate, b, suffix, st, m, at) == b = m * R + at /\ at <= R /\ st = Stage(rate, b, suffix, m)

LEMMA WholeBytesUpdate ==
  ASSUME NEW h, NEW bytes, NEW tail, tail.n = 0, NEW len, NEW s, NEW suffix, h = Hash(s, len, suffix)
  PROVE  Keccak_HashUpdate(h, bytes, tail).fixedOutputLength = len
<1> PICK s2 : s2 = Keccak_SpongeAbsorb(h.sponge, bytes)
  OBVIOUS
<1> PICK h2 : h2 = WithSponge(h, s2)
  OBVIOUS
<1>1. h2 = Hash(s2, len, suffix)
  BY ONLY WithSpongeIs, h = Hash(s, len, suffix), h2 = WithSponge(h, s2)
<1>2. Keccak_HashUpdate(h, bytes, tail) = h2
  BY ONLY tail.n = 0, s2 = Keccak_SpongeAbsorb(h.sponge, bytes), h2 = WithSponge(h, s2)
     DEF Keccak_HashUpdate, WithSponge
<1> QED
  BY ONLY <1>1, <1>2, HashHas

LEMMA KeccakStageIs ==
  ASSUME NEW R \in Nat \ {0}, NEW rate, rate = 8 * R, NEW b \in Nat, NEW bits, bits \div 8 = b,
         NEW suffix \in SUBSET (0..7), suffix # {}, NEW st, st = KeccakStage(rate, bits, suffix)
  PROVE  \E m \in Nat, at \in Nat : StageAt(R, rate, b, suffix, st, m, at)
<1> PICK z \in Nat : z = 0
  OBVIOUS
<1> PICK tail \in Tails : tail = NoTail
  BY NoTailIs
<1> PICK h0 : h0 = Keccak_HashInitialize(rate, b, suffix)
  OBVIOUS
<1> PICK h : h = Keccak_HashUpdate(h0, Data(z, b), tail)
  OBVIOUS
<1> PICK r : r = Keccak_HashFinal(h)
  OBVIOUS
<1>1. tail.n = 0
  BY ONLY NoTailIs, tail = NoTail
<1>2. Took(R, z, suffix, h0)
  BY ONLY InitializeTakes, R \in Nat \ {0}, b \in Nat, suffix \in SUBSET (0..7), rate = 8 * R,
          h0 = Keccak_HashInitialize(rate, b, suffix), z = 0
<1>3. JoinSuffix(tail, suffix) = suffix /\ suffix \subseteq 0..15
  BY ONLY <1>1, JoinIs, tail \in Tails, suffix \in SUBSET (0..7)
<1>4. Took(R, z + b, JoinSuffix(tail, suffix), h)
  BY ONLY <1>2, UpdateTakes, R \in Nat \ {0}, z \in Nat, b \in Nat, suffix \in SUBSET (0..7), tail \in Tails,
          h = Keccak_HashUpdate(h0, Data(z, b), tail)
<1>5. z + b = b
  BY z = 0
<1>6. Took(R, b, suffix, h)
  BY ONLY <1>3, <1>4, <1>5, Zenon
<1>7. \E s : h0 = Hash(s, b, suffix)
  BY h0 = Keccak_HashInitialize(rate, b, suffix) DEF Keccak_HashInitialize, Hash
<1>8. h.fixedOutputLength = b
  BY ONLY <1>1, <1>7, WholeBytesUpdate, h = Keccak_HashUpdate(h0, Data(z, b), tail)
<1>9. PICK B \in Nat \ {0} : \E F : Input(R, b, suffix, F, B) /\ Gave(R, F, B, r.hash, r.out)
                                     /\ Len(r.out) = h.fixedOutputLength
  BY ONLY <1>3, <1>6, FinalGives, R \in Nat \ {0}, b \in Nat, r = Keccak_HashFinal(h)
<1>10. PICK F : Input(R, b, suffix, F, B) /\ Gave(R, F, B, r.hash, r.out)
                /\ Len(r.out) = h.fixedOutputLength
  BY ONLY <1>9
<1> PICK blocks : blocks = PaddedBlocks(8 * R, Data(0, b), tail, suffix)
  OBVIOUS
<1>11. PICK m \in Nat : \E at \in Nat : IsOutput(R, blocks, r.hash, r.out, m, at)
  BY ONLY <1>3, <1>10, OutputIsKeccak, R \in Nat \ {0}, b \in Nat, tail \in Tails,
          suffix \in SUBSET (0..7), suffix # {}, B \in Nat \ {0},
          blocks = PaddedBlocks(8 * R, Data(0, b), tail, suffix)
<1>12. PICK at \in Nat : IsOutput(R, blocks, r.hash, r.out, m, at)
  BY ONLY <1>11
<1>13. Len(r.out) = b
  BY ONLY <1>8, <1>10
<1>14. b = m * R + at /\ at <= R
  BY ONLY <1>12, <1>13 DEF IsOutput
<1>15. r.hash.sponge.state.perms = blocks \o [k \in 1..m |-> {}]
  BY ONLY <1>12 DEF IsOutput
<1>16. r.out = SqueezedBytes(rate, Len(blocks), b)
  BY ONLY <1>12, <1>13, rate = 8 * R, Zenon DEF IsOutput
<1>17. blocks = PaddedBlocks(rate, Data(0, b), NoTail, suffix)
  BY ONLY rate = 8 * R, tail = NoTail, blocks = PaddedBlocks(8 * R, Data(0, b), tail, suffix), Zenon
<1>18. st = [perms |-> r.hash.sponge.state.perms, out |-> r.out]
  <2>1. h = Keccak_HashUpdate(Keccak_HashInitialize(rate, bits \div 8, suffix), Data(0, bits \div 8), NoTail)
    BY ONLY bits \div 8 = b, h0 = Keccak_HashInitialize(rate, b, suffix), z = 0, tail = NoTail,
            h = Keccak_HashUpdate(h0, Data(z, b), tail), Zenon
  <2> QED
    BY ONLY <2>1, st = KeccakStage(rate, bits, suffix), r = Keccak_HashFinal(h), Zenon DEF KeccakStage
<1>19. st = Stage(rate, b, suffix, m)
  BY ONLY <1>15, <1>16, <1>17, <1>18, Zenon DEF Stage
<1>20. StageAt(R, rate, b, suffix, st, m, at)
  BY ONLY <1>14, <1>19 DEF StageAt
<1> QED
  BY ONLY <1>20, m \in Nat, at \in Nat

(* For the lengths of the templates the number of permutations is known: no *)
(* digest ends where a block of the output does.                           *)
Only(R, b, top) == \A m \in Nat, at \in Nat : b = m * R + at /\ at <= R => m = top

Known(rate, bits, b, suffix, m) == KeccakStage(rate, bits, suffix) = Stage(rate, b, suffix, m)

LEMMA OnlyStage ==
  ASSUME NEW R \in Nat \ {0}, NEW rate, rate = 8 * R, NEW b \in Nat, NEW bits, bits \div 8 = b,
         NEW suffix \in SUBSET (0..7), suffix # {}, NEW top, Only(R, b, top)
  PROVE  Known(rate, bits, b, suffix, top)
<1> PICK st : st = KeccakStage(rate, bits, suffix)
  OBVIOUS
<1>1. PICK m \in Nat : \E at \in Nat : StageAt(R, rate, b, suffix, st, m, at)
  BY ONLY KeccakStageIs, R \in Nat \ {0}, rate = 8 * R, b \in Nat, bits \div 8 = b,
          suffix \in SUBSET (0..7), suffix # {}, st = KeccakStage(rate, bits, suffix)
<1>2. PICK at \in Nat : StageAt(R, rate, b, suffix, st, m, at)
  BY ONLY <1>1
<1>3. b = m * R + at /\ at <= R /\ st = Stage(rate, b, suffix, m)
  BY ONLY <1>2 DEF StageAt
<1>4. m = top
  BY ONLY <1>3, Only(R, b, top), m \in Nat, at \in Nat DEF Only
<1> QED
  BY ONLY <1>3, <1>4, st = KeccakStage(rate, bits, suffix) DEF Known

LEMMA StagesAre ==
  /\ Known(1344, 64, 8, SHA3Suffix, 0)
  /\ Known(1088, 256, 32, SHA3Suffix, 0)
  /\ Known(576, 512, 64, SHA3Suffix, 0)
  /\ Known(1024, 576, 72, SHA3Suffix, 0)
  /\ Known(576, 1024, 128, SK1024Suffix, 1)
<1> PICK sha3, own : sha3 = SHA3Suffix /\ own = SK1024Suffix
  OBVIOUS
<1>1. sha3 \in SUBSET (0..7) /\ sha3 # {} /\ own \in SUBSET (0..7) /\ own # {}
  BY DEF SHA3Suffix, SK1024Suffix
<1>2. Known(1344, 64, 8, sha3, 0)
  <2>1. Only(168, 8, 0) /\ 64 \div 8 = 8 /\ 1344 = 8 * 168
    BY DEF Only
  <2> QED
    BY ONLY <1>1, <2>1, OnlyStage
<1>3. Known(1088, 256, 32, sha3, 0)
  <2>1. Only(136, 32, 0) /\ 256 \div 8 = 32 /\ 1088 = 8 * 136
    BY DEF Only
  <2> QED
    BY ONLY <1>1, <2>1, OnlyStage
<1>4. Known(576, 512, 64, sha3, 0)
  <2>1. Only(72, 64, 0) /\ 512 \div 8 = 64 /\ 576 = 8 * 72
    BY DEF Only
  <2> QED
    BY ONLY <1>1, <2>1, OnlyStage
<1>5. Known(1024, 576, 72, sha3, 0)
  <2> PICK R \in Nat \ {0} : R = 128
    OBVIOUS
  <2> PICK b \in Nat : b = 72
    OBVIOUS
  <2> PICK bits, rate : bits = 576 /\ rate = 1024
    OBVIOUS
  <2> PICK m : m = 0
    OBVIOUS
  <2>1. Only(R, b, m)
    BY ONLY R = 128, b = 72, m = 0 DEF Only
  <2>2. bits \div 8 = b /\ rate = 8 * R
    OBVIOUS
  <2>3. Known(rate, bits, b, sha3, m)
    BY ONLY <1>1, <2>1, <2>2, OnlyStage, R \in Nat \ {0}, b \in Nat
  <2> QED
    BY ONLY <2>3, b = 72, bits = 576 /\ rate = 1024, m = 0, ZenonT(30)
<1>6. Known(576, 1024, 128, own, 1)
  <2> PICK R \in Nat \ {0} : R = 72
    OBVIOUS
  <2> PICK b \in Nat : b = 128
    OBVIOUS
  <2> PICK bits, rate : bits = 1024 /\ rate = 576
    OBVIOUS
  <2> PICK m : m = 1
    OBVIOUS
  <2>1. Only(R, b, m)
    BY ONLY R = 72, b = 128, m = 1 DEF Only
  <2>2. bits \div 8 = b /\ rate = 8 * R
    OBVIOUS
  <2>3. Known(rate, bits, b, own, m)
    BY ONLY <1>1, <2>1, <2>2, OnlyStage, R \in Nat \ {0}, b \in Nat
  <2> QED
    BY ONLY <2>3, b = 128, bits = 1024 /\ rate = 576, m = 1, ZenonT(30)
<1> QED
  BY ONLY <1>2, <1>3, <1>4, <1>5, <1>6, sha3 = SHA3Suffix /\ own = SK1024Suffix

(***************************************************************************)
(* Every template.                                                         *)
(***************************************************************************)

Numbers(N, bits, rate, suffix) == [N |-> N, bits |-> bits, rate |-> rate, suffix |-> suffix]

Both(sk, st) == [skein |-> sk, keccak |-> st]

LEMMA RecipesAre ==
  /\ Recipe("SK64") = Numbers(32, 64, 1344, SHA3Suffix)
  /\ Recipe("SK256") = Numbers(32, 256, 1088, SHA3Suffix)
  /\ Recipe("SK512") = Numbers(64, 512, 576, SHA3Suffix)
  /\ Recipe("SK576") = Numbers(128, 576, 1024, SHA3Suffix)
  /\ Recipe("SK1024") = Numbers(128, 1024, 576, SK1024Suffix)
BY DEF Recipe, Numbers

LEMMA TwoStages ==
  ASSUME NEW name, NEW M, NEW N, NEW bits, NEW rate, NEW suffix,
         Recipe(name) = Numbers(N, bits, rate, suffix),
         NEW b, b = bits \div 8, NEW m, m = (bits - 1) \div rate
  PROVE  TwoStageHash(name, M) = Both(SkeinHash(N, bits, << >>, M), Stage(rate, b, suffix, m))
<1> PICK r : r = Recipe(name)
  OBVIOUS
<1>1. r.N = N /\ r.bits = bits /\ r.rate = rate /\ r.suffix = suffix
  BY r = Recipe(name) DEF Numbers
<1>2. b = r.bits \div 8 /\ m = (r.bits - 1) \div r.rate
  BY ONLY <1>1, b = bits \div 8, m = (bits - 1) \div rate, Zenon
<1>3. TwoStageHash(name, M) = Both(SkeinHash(r.N, r.bits, << >>, M), Stage(r.rate, b, r.suffix, m))
  BY ONLY <1>2, r = Recipe(name), Zenon DEF TwoStageHash, Stage, Both
<1> QED
  BY ONLY <1>1, <1>3, Zenon

(* What a template returns, given the context that was fed its data: the   *)
(* recipe's two stages of the data.                                        *)
Returns(name, N, bits, rate, suffix, c, d) ==
  /\ Recipe(name) = Numbers(N, bits, rate, suffix)
  /\ Known(rate, bits, bits \div 8, suffix, (bits - 1) \div rate)
  /\ d = Both(FinalAs(N, c).hashVal, KeccakStage(rate, bits, suffix))

IsTwoStage(name, len, d) == d = TwoStageHash(name, Message(0, len))

Gives(name, M, d) == d = TwoStageHash(name, M)

LEMMA TemplateGives ==
  ASSUME NEW name, NEW N, NEW bits, NEW rate, NEW suffix, NEW M, NEW c,
         FinalAs(N, c).hashVal = SkeinHash(N, bits, << >>, M),
         NEW d, Returns(name, N, bits, rate, suffix, c, d)
  PROVE  Gives(name, M, d)
<1> PICK b, m : b = bits \div 8 /\ m = (bits - 1) \div rate
  OBVIOUS
<1>1. /\ Recipe(name) = Numbers(N, bits, rate, suffix)
      /\ Known(rate, bits, b, suffix, m)
      /\ d = Both(FinalAs(N, c).hashVal, KeccakStage(rate, bits, suffix))
  BY ONLY Returns(name, N, bits, rate, suffix, c, d), b = bits \div 8 /\ m = (bits - 1) \div rate, Zenon
     DEF Returns
<1>2. TwoStageHash(name, M) = Both(SkeinHash(N, bits, << >>, M), Stage(rate, b, suffix, m))
  BY ONLY <1>1, TwoStages, b = bits \div 8 /\ m = (bits - 1) \div rate
<1>3. KeccakStage(rate, bits, suffix) = Stage(rate, b, suffix, m)
  BY ONLY <1>1 DEF Known
<1> QED
  BY ONLY <1>1, <1>2, <1>3, FinalAs(N, c).hashVal = SkeinHash(N, bits, << >>, M), Zenon DEF Gives

LEMMA TemplateIs ==
  ASSUME NEW name, NEW N, NEW bits, NEW rate, NEW suffix, NEW len, NEW c, Fed(N, bits, len, c),
         NEW d, Returns(name, N, bits, rate, suffix, c, d)
  PROVE  IsTwoStage(name, len, d)
<1> PICK M : M = Message(0, len)
  OBVIOUS
<1>1. FinalAs(N, c).hashVal = SkeinHash(N, bits, << >>, M)
  BY ONLY Fed(N, bits, len, c), M = Message(0, len), Zenon DEF Fed
<1>2. Gives(name, M, d)
  BY ONLY <1>1, TemplateGives, Returns(name, N, bits, rate, suffix, c, d)
<1> QED
  BY ONLY <1>2, M = Message(0, len), Zenon DEF Gives, IsTwoStage

LEMMA SK64Is ==
  ASSUME NEW n \in Nat
  PROVE  IsTwoStage("SK64", n, SK64(Message(0, n)))
<1> PICK N : N = 32
  OBVIOUS
<1> PICK bits : bits = 64
  OBVIOUS
<1> PICK z : z = 0
  OBVIOUS
<1>1. N \in Sizes /\ bits \in Nat
  BY N = 32, bits = 64 DEF Sizes
<1> PICK c : c = UpdateAs(N, Begin(N, bits), Message(z, n))
  OBVIOUS
<1>2. Fed(N, bits, n, c)
  BY ONLY <1>1, OnePart, n \in Nat, z = 0, c = UpdateAs(N, Begin(N, bits), Message(z, n))
<1>3. Recipe("SK64") = Numbers(N, bits, 1344, SHA3Suffix)
  BY ONLY RecipesAre, N = 32, bits = 64
<1>4. Known(1344, bits, bits \div 8, SHA3Suffix, (bits - 1) \div 1344)
  <2>1. bits \div 8 = 8 /\ (bits - 1) \div 1344 = 0
    BY ONLY bits = 64
  <2>2. Known(1344, bits, 8, SHA3Suffix, 0)
    BY ONLY StagesAre, bits = 64
  <2> QED
    BY ONLY <2>1, <2>2
<1> PICK d : d = SK64(Message(0, n))
  OBVIOUS
<1>5. d = Both(FinalAs(N, c).hashVal, KeccakStage(1344, bits, SHA3Suffix))
  BY ONLY N = 32, bits = 64, z = 0, c = UpdateAs(N, Begin(N, bits), Message(z, n)), d = SK64(Message(0, n))
     DEF SK64, Skein_256_Init, Skein_256_Update, Skein_256_Final, Begin, Both
<1>6. Returns("SK64", N, bits, 1344, SHA3Suffix, c, d)
  BY ONLY <1>3, <1>4, <1>5 DEF Returns
<1>7. IsTwoStage("SK64", n, d)
  BY ONLY <1>2, <1>6, TemplateIs
<1> QED
  BY ONLY <1>7, d = SK64(Message(0, n))

LEMMA SK256Is ==
  ASSUME NEW n \in Nat
  PROVE  IsTwoStage("SK256", n, SK256(Message(0, n)))
<1> PICK N : N = 32
  OBVIOUS
<1> PICK bits : bits = 256
  OBVIOUS
<1> PICK z : z = 0
  OBVIOUS
<1>1. N \in Sizes /\ bits \in Nat
  BY N = 32, bits = 256 DEF Sizes
<1> PICK c : c = UpdateAs(N, Begin(N, bits), Message(z, n))
  OBVIOUS
<1>2. Fed(N, bits, n, c)
  BY ONLY <1>1, OnePart, n \in Nat, z = 0, c = UpdateAs(N, Begin(N, bits), Message(z, n))
<1>3. Recipe("SK256") = Numbers(N, bits, 1088, SHA3Suffix)
  BY ONLY RecipesAre, N = 32, bits = 256
<1>4. Known(1088, bits, bits \div 8, SHA3Suffix, (bits - 1) \div 1088)
  <2>1. bits \div 8 = 32 /\ (bits - 1) \div 1088 = 0
    BY ONLY bits = 256
  <2>2. Known(1088, bits, 32, SHA3Suffix, 0)
    BY ONLY StagesAre, bits = 256
  <2> QED
    BY ONLY <2>1, <2>2
<1> PICK d : d = SK256(Message(0, n))
  OBVIOUS
<1>5. d = Both(FinalAs(N, c).hashVal, KeccakStage(1088, bits, SHA3Suffix))
  BY ONLY N = 32, bits = 256, z = 0, c = UpdateAs(N, Begin(N, bits), Message(z, n)),
          d = SK256(Message(0, n))
     DEF SK256, Skein_256_Init, Skein_256_Update, Skein_256_Final, Begin, Both
<1>6. Returns("SK256", N, bits, 1088, SHA3Suffix, c, d)
  BY ONLY <1>3, <1>4, <1>5 DEF Returns
<1>7. IsTwoStage("SK256", n, d)
  BY ONLY <1>2, <1>6, TemplateIs
<1> QED
  BY ONLY <1>7, d = SK256(Message(0, n))

LEMMA SK576Is ==
  ASSUME NEW n \in Nat
  PROVE  IsTwoStage("SK576", n, SK576(Message(0, n)))
<1> PICK N : N = 128
  OBVIOUS
<1> PICK bits : bits = 576
  OBVIOUS
<1> PICK z : z = 0
  OBVIOUS
<1>1. N \in Sizes /\ bits \in Nat
  BY N = 128, bits = 576 DEF Sizes
<1> PICK c : c = UpdateAs(N, Begin(N, bits), Message(z, n))
  OBVIOUS
<1>2. Fed(N, bits, n, c)
  BY ONLY <1>1, OnePart, n \in Nat, z = 0, c = UpdateAs(N, Begin(N, bits), Message(z, n))
<1>3. Recipe("SK576") = Numbers(N, bits, 1024, SHA3Suffix)
  BY ONLY RecipesAre, N = 128, bits = 576
<1>4. Known(1024, bits, bits \div 8, SHA3Suffix, (bits - 1) \div 1024)
  <2>1. bits \div 8 = 72 /\ (bits - 1) \div 1024 = 0
    BY ONLY bits = 576
  <2>2. Known(1024, bits, 72, SHA3Suffix, 0)
    BY ONLY StagesAre, bits = 576
  <2> QED
    BY ONLY <2>1, <2>2
<1> PICK d : d = SK576(Message(0, n))
  OBVIOUS
<1>5. d = Both(FinalAs(N, c).hashVal, KeccakStage(1024, bits, SHA3Suffix))
  BY ONLY N = 128, bits = 576, z = 0, c = UpdateAs(N, Begin(N, bits), Message(z, n)),
          d = SK576(Message(0, n))
     DEF SK576, Skein1024_Init, Skein1024_Update, Skein1024_Final, Begin, Both
<1>6. Returns("SK576", N, bits, 1024, SHA3Suffix, c, d)
  BY ONLY <1>3, <1>4, <1>5 DEF Returns
<1>7. IsTwoStage("SK576", n, d)
  BY ONLY <1>2, <1>6, TemplateIs
<1> QED
  BY ONLY <1>7, d = SK576(Message(0, n))

LEMMA SK1024Is ==
  ASSUME NEW n \in Nat
  PROVE  IsTwoStage("SK1024", n, SK1024(Message(0, n)))
<1> PICK N : N = 128
  OBVIOUS
<1> PICK bits : bits = 1024
  OBVIOUS
<1> PICK z : z = 0
  OBVIOUS
<1>1. N \in Sizes /\ bits \in Nat
  BY N = 128, bits = 1024 DEF Sizes
<1> PICK c : c = UpdateAs(N, Begin(N, bits), Message(z, n))
  OBVIOUS
<1>2. Fed(N, bits, n, c)
  BY ONLY <1>1, OnePart, n \in Nat, z = 0, c = UpdateAs(N, Begin(N, bits), Message(z, n))
<1>3. Recipe("SK1024") = Numbers(N, bits, 576, SK1024Suffix)
  BY ONLY RecipesAre, N = 128, bits = 1024
<1>4. Known(576, bits, bits \div 8, SK1024Suffix, (bits - 1) \div 576)
  <2>1. bits \div 8 = 128 /\ (bits - 1) \div 576 = 1
    BY ONLY bits = 1024
  <2>2. Known(576, bits, 128, SK1024Suffix, 1)
    BY ONLY StagesAre, bits = 1024
  <2> QED
    BY ONLY <2>1, <2>2
<1> PICK d : d = SK1024(Message(0, n))
  OBVIOUS
<1>5. d = Both(FinalAs(N, c).hashVal, KeccakStage(576, bits, SK1024Suffix))
  BY ONLY N = 128, bits = 1024, z = 0, c = UpdateAs(N, Begin(N, bits), Message(z, n)),
          d = SK1024(Message(0, n))
     DEF SK1024, Skein1024_Init, Skein1024_Update, Skein1024_Final, Begin, Both
<1>6. Returns("SK1024", N, bits, 576, SK1024Suffix, c, d)
  BY ONLY <1>3, <1>4, <1>5 DEF Returns
<1>7. IsTwoStage("SK1024", n, d)
  BY ONLY <1>2, <1>6, TemplateIs
<1> QED
  BY ONLY <1>7, d = SK1024(Message(0, n))

LEMMA SK512_1Is ==
  ASSUME NEW n \in Nat
  PROVE  IsTwoStage("SK512", n, SK512_1(Message(0, n)))
<1> PICK N : N = 64
  OBVIOUS
<1> PICK bits : bits = 512
  OBVIOUS
<1> PICK z : z = 0
  OBVIOUS
<1>1. N \in Sizes /\ bits \in Nat
  BY N = 64, bits = 512 DEF Sizes
<1> PICK c : c = UpdateAs(N, Begin(N, bits), Message(z, n))
  OBVIOUS
<1>2. Fed(N, bits, n, c)
  BY ONLY <1>1, OnePart, n \in Nat, z = 0, c = UpdateAs(N, Begin(N, bits), Message(z, n))
<1>3. Recipe("SK512") = Numbers(N, bits, 576, SHA3Suffix)
  BY ONLY RecipesAre, N = 64, bits = 512
<1>4. Known(576, bits, bits \div 8, SHA3Suffix, (bits - 1) \div 576)
  <2>1. bits \div 8 = 64 /\ (bits - 1) \div 576 = 0
    BY ONLY bits = 512
  <2>2. Known(576, bits, 64, SHA3Suffix, 0)
    BY ONLY StagesAre, bits = 512
  <2> QED
    BY ONLY <2>1, <2>2
<1> PICK d : d = SK512_1(Message(0, n))
  OBVIOUS
<1>5. d = Both(FinalAs(N, c).hashVal, KeccakStage(576, bits, SHA3Suffix))
  BY ONLY N = 64, bits = 512, z = 0, c = UpdateAs(N, Begin(N, bits), Message(z, n)),
          d = SK512_1(Message(0, n))
     DEF SK512_1, Skein_512_Init, Skein_512_Update, Skein_512_Final, Begin, Both
<1>6. Returns("SK512", N, bits, 576, SHA3Suffix, c, d)
  BY ONLY <1>3, <1>4, <1>5 DEF Returns
<1>7. IsTwoStage("SK512", n, d)
  BY ONLY <1>2, <1>6, TemplateIs
<1> QED
  BY ONLY <1>7, d = SK512_1(Message(0, n))

LEMMA SK512_2Is ==
  ASSUME NEW n \in Nat, NEW m \in Nat, NEW len \in Nat, len = n + m
  PROVE  IsTwoStage("SK512", len, SK512_2(Message(0, n), Message(n, m)))
<1> PICK N : N = 64
  OBVIOUS
<1> PICK bits : bits = 512
  OBVIOUS
<1> PICK z : z = 0
  OBVIOUS
<1>1. N \in Sizes /\ bits \in Nat
  BY N = 64, bits = 512 DEF Sizes
<1> PICK c : c = UpdateAs(N, UpdateAs(N, Begin(N, bits), Message(z, n)), Message(n, m))
  OBVIOUS
<1>2. Fed(N, bits, len, c)
  BY ONLY <1>1, TwoParts, n \in Nat, m \in Nat, len \in Nat, len = n + m, z = 0, c = UpdateAs(N, UpdateAs(N, Begin(N, bits), Message(z, n)), Message(n, m))
<1>3. Recipe("SK512") = Numbers(N, bits, 576, SHA3Suffix)
  BY ONLY RecipesAre, N = 64, bits = 512
<1>4. Known(576, bits, bits \div 8, SHA3Suffix, (bits - 1) \div 576)
  <2>1. bits \div 8 = 64 /\ (bits - 1) \div 576 = 0
    BY ONLY bits = 512
  <2>2. Known(576, bits, 64, SHA3Suffix, 0)
    BY ONLY StagesAre, bits = 512
  <2> QED
    BY ONLY <2>1, <2>2
<1> PICK d : d = SK512_2(Message(0, n), Message(n, m))
  OBVIOUS
<1>5. d = Both(FinalAs(N, c).hashVal, KeccakStage(576, bits, SHA3Suffix))
  BY ONLY N = 64, bits = 512, z = 0, c = UpdateAs(N, UpdateAs(N, Begin(N, bits), Message(z, n)), Message(n, m)),
          d = SK512_2(Message(0, n), Message(n, m))
     DEF SK512_2, Skein_512_Init, Skein_512_Update, Skein_512_Final, Begin, Both
<1>6. Returns("SK512", N, bits, 576, SHA3Suffix, c, d)
  BY ONLY <1>3, <1>4, <1>5 DEF Returns
<1>7. IsTwoStage("SK512", len, d)
  BY ONLY <1>2, <1>6, TemplateIs
<1> QED
  BY ONLY <1>7, d = SK512_2(Message(0, n), Message(n, m))

LEMMA SK512_3Is ==
  ASSUME NEW n \in Nat, NEW m \in Nat, NEW k \in Nat, NEW len \in Nat, len = (n + m) + k
  PROVE  IsTwoStage("SK512", len, SK512_3(Message(0, n), Message(n, m), Message(n + m, k)))
<1> PICK N : N = 64
  OBVIOUS
<1> PICK bits : bits = 512
  OBVIOUS
<1> PICK z : z = 0
  OBVIOUS
<1>1. N \in Sizes /\ bits \in Nat
  BY N = 64, bits = 512 DEF Sizes
<1> PICK c : c = UpdateAs(N, UpdateAs(N, UpdateAs(N, Begin(N, bits), Message(z, n)), Message(n, m)), Message(n + m, k))
  OBVIOUS
<1>2. Fed(N, bits, len, c)
  BY ONLY <1>1, ThreeParts, n \in Nat, m \in Nat, k \in Nat,
          len \in Nat, len = (n + m) + k, z = 0, c = UpdateAs(N, UpdateAs(N, UpdateAs(N, Begin(N, bits), Message(z, n)), Message(n, m)), Message(n + m, k))
<1>3. Recipe("SK512") = Numbers(N, bits, 576, SHA3Suffix)
  BY ONLY RecipesAre, N = 64, bits = 512
<1>4. Known(576, bits, bits \div 8, SHA3Suffix, (bits - 1) \div 576)
  <2>1. bits \div 8 = 64 /\ (bits - 1) \div 576 = 0
    BY ONLY bits = 512
  <2>2. Known(576, bits, 64, SHA3Suffix, 0)
    BY ONLY StagesAre, bits = 512
  <2> QED
    BY ONLY <2>1, <2>2
<1> PICK d : d = SK512_3(Message(0, n), Message(n, m), Message(n + m, k))
  OBVIOUS
<1>5. d = Both(FinalAs(N, c).hashVal, KeccakStage(576, bits, SHA3Suffix))
  BY ONLY N = 64, bits = 512, z = 0, c = UpdateAs(N, UpdateAs(N, UpdateAs(N, Begin(N, bits), Message(z, n)), Message(n, m)), Message(n + m, k)),
          d = SK512_3(Message(0, n), Message(n, m), Message(n + m, k))
     DEF SK512_3, Skein_512_Init, Skein_512_Update, Skein_512_Final, Begin, Both
<1>6. Returns("SK512", N, bits, 576, SHA3Suffix, c, d)
  BY ONLY <1>3, <1>4, <1>5 DEF Returns
<1>7. IsTwoStage("SK512", len, d)
  BY ONLY <1>2, <1>6, TemplateIs
<1> QED
  BY ONLY <1>7, d = SK512_3(Message(0, n), Message(n, m), Message(n + m, k))

(***************************************************************************)
(* The calls: any template, any lengths of its parts.                      *)
(***************************************************************************)

Call(name, lens) == [name |-> name, lens |-> lens]

Names == {"SK64", "SK256", "SK512", "SK576", "SK1024"}

(* The data of a call, part by part.                                       *)
Kinds(call) ==
  \/ \E name \in Names : \E n \in Nat : call = Call(name, << n >>)
  \/ \E n \in Nat : \E m \in Nat : call = Call("SK512", << n, m >>)
  \/ \E n \in Nat : \E m \in Nat : \E k \in Nat : call = Call("SK512", << n, m, k >>)

LEMMA KindsAre ==
  ASSUME NEW call \in Templates
  PROVE  Kinds(call)
BY TemplatesAssumption DEF Templates, Kinds, Call, Names

LEMMA LengthsAre ==
  ASSUME NEW n \in Nat, NEW m \in Nat, NEW k \in Nat
  PROVE  /\ Total(<< n >>) = n /\ Len(<< n >>) = 1 /\ << n >>[1] = n
         /\ Total(<< n, m >>) = n + m /\ Len(<< n, m >>) = 2 /\ << n, m >>[1] = n /\ << n, m >>[2] = m
         /\ Total(<< n, m, k >>) = (n + m) + k /\ Len(<< n, m, k >>) = 3
         /\ << n, m, k >>[1] = n /\ << n, m, k >>[2] = m /\ << n, m, k >>[3] = k
BY DEF Total

LEMMA OnePartDigest ==
  ASSUME NEW name \in Names, NEW n \in Nat, NEW lens, lens = << n >>,
         NEW call, call = Call(name, lens)
  PROVE  IsTwoStage(name, n, Digest(call))
<1>1. call.name = name /\ call.lens = lens
  BY DEF Call
<1>2. Len(lens) = 1 /\ lens[1] = n
  BY LengthsAre
<1> PICK msg : msg = Message(0, n)
  OBVIOUS
<1>3. CASE name = "SK64"
  <2>1. Digest(call) = SK64(msg)
    BY ONLY <1>1, <1>2, <1>3, msg = Message(0, n) DEF Digest
  <2> QED
    BY ONLY <1>3, <2>1, SK64Is, n \in Nat, msg = Message(0, n)
<1>4. CASE name = "SK256"
  <2>1. Digest(call) = SK256(msg)
    BY ONLY <1>1, <1>2, <1>4, msg = Message(0, n) DEF Digest
  <2> QED
    BY ONLY <1>4, <2>1, SK256Is, n \in Nat, msg = Message(0, n)
<1>5. CASE name = "SK512"
  <2>1. Digest(call) = SK512_1(msg)
    BY ONLY <1>1, <1>2, <1>5, msg = Message(0, n) DEF Digest
  <2> QED
    BY ONLY <1>5, <2>1, SK512_1Is, n \in Nat, msg = Message(0, n)
<1>6. CASE name = "SK576"
  <2>1. Digest(call) = SK576(msg)
    BY ONLY <1>1, <1>2, <1>6, msg = Message(0, n) DEF Digest
  <2> QED
    BY ONLY <1>6, <2>1, SK576Is, n \in Nat, msg = Message(0, n)
<1>7. CASE name = "SK1024"
  <2>1. Digest(call) = SK1024(msg)
    BY ONLY <1>1, <1>2, <1>7, msg = Message(0, n) DEF Digest
  <2> QED
    BY ONLY <1>7, <2>1, SK1024Is, n \in Nat, msg = Message(0, n)
<1> QED
  BY <1>3, <1>4, <1>5, <1>6, <1>7 DEF Names

LEMMA TwoPartsDigest ==
  ASSUME NEW n \in Nat, NEW m \in Nat, NEW lens, lens = << n, m >>, NEW call, call = Call("SK512", lens),
         NEW len \in Nat, len = n + m
  PROVE  IsTwoStage("SK512", len, Digest(call))
<1>1. call.name = "SK512" /\ call.lens = lens
  BY DEF Call
<1>2. Len(lens) = 2 /\ lens[1] = n /\ lens[2] = m
  BY LengthsAre
<1> PICK m1, m2 : m1 = Message(0, n) /\ m2 = Message(n, m)
  OBVIOUS
<1>3. Digest(call) = SK512_2(m1, m2)
  BY ONLY <1>1, <1>2, m1 = Message(0, n) /\ m2 = Message(n, m) DEF Digest
<1> QED
  BY ONLY <1>3, SK512_2Is, n \in Nat, m \in Nat, len \in Nat, len = n + m,
          m1 = Message(0, n) /\ m2 = Message(n, m)

LEMMA ThreePartsDigest ==
  ASSUME NEW n \in Nat, NEW m \in Nat, NEW k \in Nat, NEW lens, lens = << n, m, k >>,
         NEW call, call = Call("SK512", lens), NEW len \in Nat, len = (n + m) + k
  PROVE  IsTwoStage("SK512", len, Digest(call))
<1>1. call.name = "SK512" /\ call.lens = lens
  BY DEF Call
<1>2. Len(lens) = 3 /\ lens[1] = n /\ lens[2] = m /\ lens[3] = k
  BY LengthsAre
<1> PICK m1, m2, m3 : m1 = Message(0, n) /\ m2 = Message(n, m) /\ m3 = Message(n + m, k)
  OBVIOUS
<1>3. Digest(call) = SK512_3(m1, m2, m3)
  BY ONLY <1>1, <1>2, m1 = Message(0, n) /\ m2 = Message(n, m) /\ m3 = Message(n + m, k) DEF Digest
<1> QED
  BY ONLY <1>3, SK512_3Is, n \in Nat, m \in Nat, k \in Nat, len \in Nat, len = (n + m) + k,
          m1 = Message(0, n) /\ m2 = Message(n, m) /\ m3 = Message(n + m, k)

LEMMA DigestIsTwoStage ==
  ASSUME NEW call \in Templates
  PROVE  IsTwoStage(call.name, Total(call.lens), Digest(call))
<1>1. Kinds(call)
  BY KindsAre
<1>2. CASE \E name \in Names : \E n \in Nat : call = Call(name, << n >>)
  <2>1. PICK name \in Names : \E n \in Nat : call = Call(name, << n >>)
    BY <1>2
  <2>2. PICK n \in Nat : call = Call(name, << n >>)
    BY <2>1
  <2> PICK lens : lens = << n >>
    OBVIOUS
  <2>3. IsTwoStage(name, n, Digest(call))
    BY ONLY <2>2, OnePartDigest, name \in Names, n \in Nat, lens = << n >>
  <2>4. call.name = name /\ call.lens = lens /\ Total(lens) = n
    BY <2>2, LengthsAre DEF Call
  <2> QED
    BY ONLY <2>3, <2>4
<1>3. CASE \E n \in Nat : \E m \in Nat : call = Call("SK512", << n, m >>)
  <2>1. PICK n \in Nat : \E m \in Nat : call = Call("SK512", << n, m >>)
    BY <1>3
  <2>2. PICK m \in Nat : call = Call("SK512", << n, m >>)
    BY <2>1
  <2> PICK lens : lens = << n, m >>
    OBVIOUS
  <2> PICK len \in Nat : len = n + m
    OBVIOUS
  <2>3. IsTwoStage("SK512", len, Digest(call))
    BY ONLY <2>2, TwoPartsDigest, n \in Nat, m \in Nat, lens = << n, m >>, len \in Nat, len = n + m
  <2>4. call.name = "SK512" /\ call.lens = lens /\ Total(lens) = len
    BY <2>2, LengthsAre DEF Call
  <2> QED
    BY ONLY <2>3, <2>4
<1>4. CASE \E n \in Nat : \E m \in Nat : \E k \in Nat : call = Call("SK512", << n, m, k >>)
  <2>1. PICK n \in Nat : \E m \in Nat : \E k \in Nat : call = Call("SK512", << n, m, k >>)
    BY <1>4
  <2>2. PICK m \in Nat : \E k \in Nat : call = Call("SK512", << n, m, k >>)
    BY <2>1
  <2>3. PICK k \in Nat : call = Call("SK512", << n, m, k >>)
    BY <2>2
  <2> PICK lens : lens = << n, m, k >>
    OBVIOUS
  <2> PICK len \in Nat : len = (n + m) + k
    OBVIOUS
  <2>4. IsTwoStage("SK512", len, Digest(call))
    BY ONLY <2>3, ThreePartsDigest, n \in Nat, m \in Nat, k \in Nat, lens = << n, m, k >>,
            len \in Nat, len = (n + m) + k
  <2>5. call.name = "SK512" /\ call.lens = lens
    BY ONLY <2>3, lens = << n, m, k >> DEF Call
  <2>6. Total(lens) = len
    BY ONLY n \in Nat, m \in Nat, k \in Nat, lens = << n, m, k >>, len = (n + m) + k DEF Total
  <2> QED
    BY ONLY <2>4, <2>5, <2>6
<1> QED
  BY ONLY <1>1, <1>2, <1>3, <1>4 DEF Kinds

(***************************************************************************)
(* The header of a block as a text: the nonce is its last eight bytes.     *)
(***************************************************************************)

HeaderText(nonce) ==
  [p \in Nat |-> IF p <= 208 THEN 1000 + p ELSE 2000 + 8 * nonce + (p - 208)]

(* The number before its first byte. *)
Before(nonce) == 2000 + 8 * nonce

(* The header's text, byte by byte.                                        *)
HeadOf(M) == \A p \in 1..208 : M[p] = 1000 + p
TailOf(M, q) == \A i \in 1..8 : M[208 + i] = q + i

LEMMA TextIs ==
  ASSUME NEW nonce \in Nat, NEW M, M = HeaderText(nonce), NEW q, q = Before(nonce)
  PROVE  M \in Texts /\ HeadOf(M) /\ TailOf(M, q)
BY DEF HeaderText, Texts, Before, HeadOf, TailOf

LEMMA NonceBytesAre ==
  ASSUME NEW nonce \in Nat, NEW q, q = Before(nonce), NEW y, y = NonceBytes(nonce)
  PROVE  y \in Seq(Int) /\ Len(y) = 8 /\ \A i \in 1..8 : y[i] = q + i
BY DEF NonceBytes, Before

LEMMA HeaderIs ==
  ASSUME NEW nonce \in Nat, NEW M, M = HeaderText(nonce), NEW z, z = 0
  PROVE  Header(nonce) = Part(M, z, 216)
<1> PICK q \in Int : q = Before(nonce)
  BY DEF Before
<1> PICK x : x = Message(0, 208)
  OBVIOUS
<1> PICK y : y = NonceBytes(nonce)
  OBVIOUS
<1> PICK w : w = x \o y
  BY Zenon
<1>1. HeaderBytes - 8 = 208
  BY DEF HeaderBytes
<1>2. Header(nonce) = w
  BY ONLY <1>1, x = Message(0, 208), y = NonceBytes(nonce), w = x \o y DEF Header
<1>3. x \in Seq(Int) /\ Len(x) = 208 /\ \A i \in 1..208 : x[i] = 1000 + i
  BY ONLY x = Message(0, 208) DEF Message
<1>4. y \in Seq(Int) /\ Len(y) = 8 /\ \A i \in 1..8 : y[i] = q + i
  BY ONLY NonceBytesAre, nonce \in Nat, q = Before(nonce), y = NonceBytes(nonce)
<1>5. HeadOf(M) /\ TailOf(M, q)
  BY ONLY TextIs, nonce \in Nat, M = HeaderText(nonce), q = Before(nonce)
<1>6. w \in Seq(Int) /\ Len(w) = 216
  <2>1. 216 = Len(x) + Len(y)
    BY ONLY <1>3, <1>4
  <2>2. x \in Seq(Int) /\ y \in Seq(Int)
    BY ONLY <1>3, <1>4
  <2> QED
    BY ONLY <2>1, <2>2, w = x \o y, Joined
<1>7. \A i \in 1..216 : w[i] = M[i]
  <2>1. x \in Seq(Int) /\ y \in Seq(Int)
    BY ONLY <1>3, <1>4
  <2>2. Follow(w, x, y)
    BY ONLY <2>1, w = x \o y, JoinedAt
  <2>3. /\ \A i \in 1..208 : w[i] = x[i]
        /\ \A i \in 1..8 : w[208 + i] = y[i]
    BY ONLY <1>3, <1>4, <2>2 DEF Follow
  <2>6. \A i \in 1..208 : M[i] = w[i]
    <3>1. \A i \in 1..208 : x[i] = 1000 + i
      BY <1>3
    <3>2. \A i \in 1..208 : M[i] = 1000 + i
      BY <1>5 DEF HeadOf
    <3> QED
      BY ONLY <3>1, <3>2, <2>3
  <2>7. \A i \in 1..8 : M[208 + i] = w[208 + i]
    <3>1. \A i \in 1..8 : y[i] = q + i
      BY <1>4
    <3>2. \A i \in 1..8 : M[208 + i] = q + i
      BY <1>5 DEF TailOf
    <3> QED
      BY ONLY <3>1, <3>2, <2>3
  <2> SUFFICES ASSUME NEW i \in 1..216
               PROVE  w[i] = M[i]
    OBVIOUS
  <2>4. CASE i <= 208
    <3>1. i \in 1..208
      BY <2>4
    <3> QED
      BY ONLY <3>1, <2>6
  <2>5. CASE i > 208
    <3> PICK j \in 1..8 : i = 208 + j
      BY <2>5
    <3>1. w[208 + j] = M[208 + j]
      BY ONLY <2>7, j \in 1..8
    <3> QED
      BY ONLY <3>1, i = 208 + j, j \in 1..8
  <2> QED
    BY ONLY <2>4, <2>5, i \in 1..216
<1>8. w = [i \in 1..216 |-> w[i]]
  BY ONLY <1>6
<1>9. \A i \in 1..216 : M[z + i] = M[i]
  BY z = 0
<1>10. Part(M, z, 216) = [i \in 1..216 |-> w[i]]
  BY ONLY <1>7, <1>9 DEF Part
<1> QED
  BY ONLY <1>2, <1>8, <1>10

(* The context of SK1024, SKEINKEY2 and SKEINMESSAGE2 for a header.         *)
Digesting(nonce) == Skein1024_Update(Skein1024_Init(NewContext(128), 1024), Header(nonce))

LEMMA HeaderFed ==
  ASSUME NEW nonce \in Nat, NEW M, M = HeaderText(nonce), NEW N, N = 128, NEW bits, bits = 1024,
         NEW len, len = 216
  PROVE  Feeding(N, bits, M, len, Digesting(nonce))
<1> PICK z \in Nat : z = 0
  OBVIOUS
<1> PICK msg : msg = Header(nonce)
  OBVIOUS
<1> PICK c : c = InitAs(N, NewContext(N), bits)
  OBVIOUS
<1>1. N \in Sizes /\ bits \in Nat /\ len \in Nat /\ z + len = len
  BY DEF Sizes
<1>2. M \in Texts
  BY TextIs
<1>3. msg = Part(M, z, len)
  BY HeaderIs
<1>4. Feeding(N, bits, M, z, c)
  BY ONLY <1>1, <1>2, FeedingBegins, z \in Nat, z = 0, c = InitAs(N, NewContext(N), bits)
<1>5. Feeding(N, bits, M, z + len, UpdateAs(N, c, msg))
  BY ONLY <1>1, <1>2, <1>3, <1>4, FeedingGoesOn, z \in Nat
<1>6. Digesting(nonce) = UpdateAs(N, c, msg)
  BY ONLY N = 128, bits = 1024, c = InitAs(N, NewContext(N), bits), msg = Header(nonce)
     DEF Digesting, Skein1024_Update, Skein1024_Init
<1> QED
  BY ONLY <1>1, <1>5, <1>6

(* One block is compressed and the last 88 bytes wait.                     *)
HeaderCtx(M, c, b) ==
  /\ c.X = Chain(128, 1024) \o Comps(128, "MSG", M, 1)
  /\ c.bCnt = 88 /\ c.b = b
  /\ b \in [1..128 -> Int]
  /\ \A i \in 1..88 : b[i] = M[128 + i]

LEMMA HeaderWaits ==
  ASSUME NEW nonce \in Nat, NEW M, M = HeaderText(nonce)
  PROVE  \E b : HeaderCtx(M, Digesting(nonce), b)
<1> PICK c : c = Digesting(nonce)
  OBVIOUS
<1>1. Feeding(128, 1024, M, 216, c)
  BY HeaderFed
<1>2. Streams(128, Chain(128, 1024), "MSG", M, 1024, 216, c)
  BY ONLY <1>1 DEF Feeding
<1>3. PICK k \in Nat : \E n \in Nat : \E b : Stream(128, Chain(128, 1024), "MSG", M, 1024, 216, c, k, n, b)
  BY ONLY <1>2 DEF Streams
<1>4. PICK n \in Nat : \E b : Stream(128, Chain(128, 1024), "MSG", M, 1024, 216, c, k, n, b)
  BY ONLY <1>3
<1>5. PICK b : Stream(128, Chain(128, 1024), "MSG", M, 1024, 216, c, k, n, b)
  BY ONLY <1>4
<1>6. k = 1 /\ n = 88
  <2>1. 216 = k * 128 + n /\ n <= 128
    BY ONLY <1>5 DEF Stream
  <2> QED
    BY ONLY <2>1, k \in Nat, n \in Nat
<1>7. Stream(128, Chain(128, 1024), "MSG", M, 1024, 216, c, 1, 88, b)
  BY ONLY <1>5, <1>6
<1>8. c = Ctx(1024, 88, 1 * 128, Tw("MSG", 1), Chain(128, 1024) \o Comps(128, "MSG", M, 1), b)
  BY ONLY <1>7 DEF Stream, At
<1>9. c.bCnt = 88 /\ c.X = Chain(128, 1024) \o Comps(128, "MSG", M, 1) /\ c.b = b
  BY ONLY <1>8 DEF Ctx
<1>10. b \in [1..128 -> Int] /\ \A i \in 1..88 : b[i] = M[128 + i]
  BY ONLY <1>7 DEF Stream, Waits
<1>11. HeaderCtx(M, c, b)
  BY ONLY <1>9, <1>10 DEF HeaderCtx
<1> QED
  BY ONLY <1>11, c = Digesting(nonce)

(***************************************************************************)
(* The two halves of the computation: what a board is sent for one nonce,   *)
(* completed with another, is the computation for the other.               *)
(***************************************************************************)

(* A byte's place in its word, the other way round. *)
Swapped(i) == ((i - 1) \div 8) * 8 + 8 - ((i - 1) % 8)

LEMMA SwapIs ==
  ASSUME NEW i \in 1..88
  PROVE  Swapped(i) \in 1..88 /\ Swapped(Swapped(i)) = i
<1> PICK j \in 0..87 : j = i - 1
  OBVIOUS
<1> PICK q \in Int, r \in Int : q = j \div 8 /\ r = j % 8
  OBVIOUS
<1>1. j = q * 8 + r /\ r \in 0..7 /\ q \in 0..10
  BY q = j \div 8 /\ r = j % 8
<1>2. Swapped(i) = q * 8 + 8 - r
  BY ONLY j = i - 1, q = j \div 8 /\ r = j % 8 DEF Swapped
<1> PICK s \in Int : s = q * 8 + 8 - r
  OBVIOUS
<1>3. s \in 1..88
  BY ONLY <1>1, s = q * 8 + 8 - r
<1>4. (s - 1) \div 8 = q /\ (s - 1) % 8 = 7 - r
  BY ONLY <1>1, s = q * 8 + 8 - r, s \in Int
<1>5. Swapped(s) = q * 8 + 8 - (7 - r)
  BY ONLY <1>4 DEF Swapped
<1>6. q * 8 + 8 - (7 - r) = i
  BY ONLY <1>1, j = i - 1, i \in 1..88
<1> QED
  BY ONLY <1>2, <1>3, <1>5, <1>6, s = q * 8 + 8 - r

(* The block a board compresses, and the compression.                      *)
BoardBlock(rest, message2, nonce) ==
  [i \in 1..128 |-> IF i > rest THEN 0
                    ELSE IF i > rest - 8 THEN NonceBytes(nonce)[i - (rest - 8)]
                    ELSE [j \in 1..128 |-> message2[Swapped(j)]][i]]

BoardLast(bytes, block) ==
  [T0 |-> bytes, T1 |-> [type |-> "MSG", first |-> FALSE, final |-> TRUE], block |-> block]

BoardOut(key2, last) == << [X |-> UBI(128, Append(key2, last), Word(0), "OUT"), bytes |-> 128] >>

LEMMA BoardUnfolds ==
  ASSUME NEW work, NEW nonce
  PROVE  BoardHash(work, nonce)
           = BoardOut(work.key2, BoardLast(HeaderBytes, BoardBlock(HeaderBytes % 128, work.message2, nonce)))
BY Zenon DEF BoardHash, BoardOut, BoardLast, BoardBlock, Swapped

LEMMA BytesOfHeader == HeaderBytes = 216 /\ HeaderBytes % 128 = 88
BY DEF HeaderBytes

(* message2 is the waiting bytes, swapped.                                 *)
Message2(b) == [i \in 1..128 |-> IF i <= 88 THEN b[Swapped(i)] ELSE 0]

LEMMA SentIs ==
  ASSUME NEW nonce, NEW M, NEW b, HeaderCtx(M, Digesting(nonce), b)
  PROVE  /\ GetKey2(nonce) = Chain(128, 1024) \o Comps(128, "MSG", M, 1)
         /\ GetMessage2(nonce) = Message2(b)
<1> PICK c : c = Digesting(nonce)
  OBVIOUS
<1>1. c.X = Chain(128, 1024) \o Comps(128, "MSG", M, 1) /\ c.bCnt = 88 /\ c.b = b
  BY DEF HeaderCtx
<1>2. GetKey2(nonce) = c.X
  BY ONLY c = Digesting(nonce), Zenon DEF GetKey2, SKEINKEY2, Digesting
<1>3. GetMessage2(nonce) = [i \in 1..128 |-> IF i <= c.bCnt THEN c.b[Swapped(i)] ELSE 0]
  BY ONLY c = Digesting(nonce), ZenonT(30) DEF GetMessage2, SKEINMESSAGE2, Digesting, Swapped
<1>4. GetMessage2(nonce) = Message2(b)
  BY ONLY <1>1, <1>3, ZenonT(30) DEF Message2
<1> QED
  BY ONLY <1>1, <1>2, <1>4

(* The bytes of a header that wait.                                        *)
Kept88(M, b) == b \in [1..128 -> Int] /\ \A i \in 1..88 : b[i] = M[128 + i]

(* Headers differ in their last eight bytes only.                          *)
LEMMA BoardBlockIs ==
  ASSUME NEW sent \in Nat, NEW nonce \in Nat, NEW M, M = HeaderText(sent), NEW M2, M2 = HeaderText(nonce),
         NEW b, Kept88(M, b),
         NEW block, block = BoardBlock(88, Message2(b), nonce)
  PROVE  block = Padded(128, M2, 1, 88)
<1> PICK q \in Int : q = Before(nonce)
  BY DEF Before
<1> PICK p \in Int : p = Before(sent)
  BY DEF Before
<1>1. HeadOf(M) /\ HeadOf(M2) /\ TailOf(M2, q)
  BY ONLY TextIs, sent \in Nat, nonce \in Nat, M = HeaderText(sent), M2 = HeaderText(nonce),
          q = Before(nonce), p = Before(sent)
<1> PICK y : y = NonceBytes(nonce)
  OBVIOUS
<1>2. \A i \in 1..8 : y[i] = q + i
  BY ONLY NonceBytesAre, nonce \in Nat, q = Before(nonce), y = NonceBytes(nonce)
<1> PICK w : w = Message2(b)
  OBVIOUS
<1>3. \A i \in 1..80 : w[Swapped(i)] = M2[128 + i]
  <2> SUFFICES ASSUME NEW i \in 1..80
               PROVE  w[Swapped(i)] = M2[128 + i]
    OBVIOUS
  <2>1. i \in 1..88 /\ 128 + i \in 1..208
    OBVIOUS
  <2> PICK s : s = Swapped(i)
    OBVIOUS
  <2>2. s \in 1..88 /\ Swapped(s) = i
    BY ONLY <2>1, SwapIs, s = Swapped(i)
  <2>3. w[s] = b[i]
    BY ONLY <2>2, w = Message2(b) DEF Message2
  <2>4. b[i] = M[128 + i]
    BY <2>1 DEF Kept88
  <2>5. M[128 + i] = 1000 + (128 + i) /\ M2[128 + i] = 1000 + (128 + i)
    BY ONLY <1>1, <2>1 DEF HeadOf
  <2> QED
    BY ONLY <2>3, <2>4, <2>5, s = Swapped(i)
<1>4. \A i \in 1..8 : y[i] = M2[208 + i]
  <2>1. \A i \in 1..8 : M2[208 + i] = q + i
    BY ONLY <1>1 DEF TailOf
  <2> QED
    BY ONLY <1>2, <2>1
<1>5. block = [i \in 1..128 |-> IF i > 88 THEN 0 ELSE IF i > 80 THEN y[i - 80] ELSE w[Swapped(i)]]
  BY ONLY block = BoardBlock(88, Message2(b), nonce), y = NonceBytes(nonce), w = Message2(b)
     DEF BoardBlock
<1>6. \A i \in 1..128 : block[i] = IF i > 88 THEN 0 ELSE M2[1 * 128 + i]
  <2> SUFFICES ASSUME NEW i \in 1..128
               PROVE  block[i] = IF i > 88 THEN 0 ELSE M2[1 * 128 + i]
    OBVIOUS
  <2>1. CASE i > 88
    BY ONLY <1>5, <2>1, i \in 1..128
  <2>2. CASE ~ (i > 88) /\ i > 80
    <3> PICK j \in 1..8 : j = i - 80
      BY <2>2
    <3>1. block[i] = y[j]
      BY ONLY <1>5, <2>2, i \in 1..128, j = i - 80
    <3>2. y[j] = M2[208 + j] /\ 208 + j = 1 * 128 + i
      BY ONLY <1>4, j \in 1..8, j = i - 80, i \in 1..128
    <3> QED
      BY ONLY <2>2, <3>1, <3>2
  <2>3. CASE ~ (i > 88) /\ ~ (i > 80)
    <3>1. block[i] = w[Swapped(i)]
      BY ONLY <1>5, <2>3, i \in 1..128
    <3>2. w[Swapped(i)] = M2[128 + i]
      BY ONLY <1>3, <2>3, i \in 1..128
    <3> QED
      BY ONLY <2>3, <3>1, <3>2, i \in 1..128
  <2> QED
    BY ONLY <2>1, <2>2, <2>3
<1>7. block = [i \in 1..128 |-> block[i]]
  BY ONLY <1>5
<1> QED
  BY ONLY <1>6, <1>7 DEF Padded

(* The first blocks of two headers are the same block.                     *)
LEMMA SameFirstBlock ==
  ASSUME NEW sent \in Nat, NEW nonce \in Nat, NEW M, M = HeaderText(sent), NEW M2, M2 = HeaderText(nonce)
  PROVE  Comps(128, "MSG", M, 1) = Comps(128, "MSG", M2, 1)
<1> PICK q : q = Before(nonce)
  OBVIOUS
<1> PICK p : p = Before(sent)
  OBVIOUS
<1>1. HeadOf(M) /\ HeadOf(M2)
  BY ONLY TextIs, sent \in Nat, nonce \in Nat, M = HeaderText(sent), M2 = HeaderText(nonce),
          q = Before(nonce), p = Before(sent)
<1> PICK from \in Int : from = (1 - 1) * 128
  OBVIOUS
<1>2. \A i \in 1..128 : M[from + i] = M2[from + i]
  <2>1. \A i \in 1..128 : from + i = i /\ i \in 1..208
    BY from = (1 - 1) * 128
  <2> QED
    BY ONLY <1>1, <2>1 DEF HeadOf
<1>3. Part(M, from, 128) = Part(M2, from, 128)
  BY ONLY <1>2 DEF Part
<1> PICK one : one = 1
  OBVIOUS
<1>4. Comp(128, "MSG", M, one) = Comp(128, "MSG", M2, one)
  BY ONLY <1>3, one = 1, from = (1 - 1) * 128 DEF Comp
<1>5. \A i \in 1..1 : i = one
  BY one = 1
<1> QED
  BY ONLY <1>4, <1>5 DEF Comps

(* The digest of a header is one output block, taken from the chaining     *)
(* value after its last block.                                             *)
LEMMA HeaderDigest ==
  ASSUME NEW nonce \in Nat, NEW M, M = HeaderText(nonce)
  PROVE  SkeinHash(128, 1024, << >>, Header(nonce))
           = BoardOut(Chain(128, 1024) \o Comps(128, "MSG", M, 1), LastComp(128, "MSG", M, 1, 88))
<1> PICK N : N = 128
  OBVIOUS
<1> PICK bits : bits = 1024
  OBVIOUS
<1> PICK z : z = 0
  OBVIOUS
<1> PICK fed \in Nat : fed = 216
  OBVIOUS
<1> PICK k \in Nat : k = 1
  OBVIOUS
<1> PICK n \in Nat : n = 88
  OBVIOUS
<1> PICK type \in Types : type = "MSG"
  BY DEF Types
<1> PICK text : text = Header(nonce)
  OBVIOUS
<1> PICK G : G = Chain(N, bits)
  OBVIOUS
<1>1. N \in Sizes /\ N \in Nat \ {0} /\ N \in Nat /\ N >= 32 /\ bits \in Nat
  BY DEF Sizes
<1>2. M \in Texts /\ text = Part(M, z, fed)
  BY TextIs, HeaderIs
<1>3. text = Part(M, 0, fed)
  BY ONLY <1>2, z = 0
<1>4. Cut(N, fed, k, n)
  BY DEF Cut
<1>5. G \in Seq(Compression)
  BY ONLY <1>1, ChainIsChain, G = Chain(N, bits)
<1>6. UBI(N, G, text, type) = Append(G \o Comps(N, type, M, k), LastComp(N, type, M, k, n))
  BY ONLY <1>1, <1>2, <1>3, <1>4, <1>5, UBIIs, type \in Types, k \in Nat, n \in Nat, fed \in Nat
<1> PICK key : key = UBI(N, G, text, type)
  OBVIOUS
<1> PICK blocks \in Nat : blocks = 1
  OBVIOUS
<1> PICK byteCnt \in Nat : byteCnt = 128
  OBVIOUS
<1>7. key = UBI(N, ConfiguredChain(N, bits, << >>), text, "MSG")
  BY ONLY key = UBI(N, G, text, type), G = Chain(N, bits), type = "MSG", Zenon DEF Chain
<1>8. byteCnt = (bits + 7) \div 8 /\ blocks = (byteCnt + N - 1) \div N
  BY ONLY byteCnt = 128, bits = 1024, N = 128, blocks = 1
<1>9. SkeinHash(N, bits, << >>, text) = Outs(N, key, byteCnt, blocks)
  BY ONLY <1>1, <1>7, <1>8, DigestIs, byteCnt \in Nat, blocks \in Nat
<1>10. Outs(N, key, byteCnt, blocks) = << [X |-> UBI(128, key, Word(0), "OUT"), bytes |-> 128] >>
  <2>1. Out(N, key, byteCnt, 1) = [X |-> UBI(128, key, Word(0), "OUT"), bytes |-> 128]
    BY ONLY N = 128, byteCnt = 128 DEF Out, Taken
  <2> QED
    BY ONLY <2>1, blocks = 1 DEF Outs
<1>11. key = Append(Chain(128, 1024) \o Comps(128, "MSG", M, 1), LastComp(128, "MSG", M, 1, 88))
  BY ONLY <1>6, key = UBI(N, G, text, type), G = Chain(N, bits), N = 128, bits = 1024, k = 1, n = 88,
          type = "MSG"
<1>12. SkeinHash(128, 1024, << >>, Header(nonce)) = << [X |-> UBI(128, key, Word(0), "OUT"), bytes |-> 128] >>
  BY ONLY <1>9, <1>10, N = 128, bits = 1024, text = Header(nonce)
<1> QED
  BY ONLY <1>11, <1>12, ZenonT(30) DEF BoardOut

(* A board completes what it was sent, whatever nonce that came with.      *)
LEMMA BoardCompletes ==
  ASSUME NEW sent \in Nat, NEW nonce \in Nat,
         NEW work, work = [key2 |-> GetKey2(sent), message2 |-> GetMessage2(sent)]
  PROVE  BoardHash(work, nonce) = SkeinHash(128, 1024, << >>, Header(nonce))
<1> PICK M : M = HeaderText(sent)
  OBVIOUS
<1> PICK M2 : M2 = HeaderText(nonce)
  OBVIOUS
<1>1. PICK b : HeaderCtx(M, Digesting(sent), b)
  BY HeaderWaits
<1>2. Kept88(M, b)
  BY ONLY <1>1 DEF HeaderCtx, Kept88
<1> PICK key2 : key2 = Chain(128, 1024) \o Comps(128, "MSG", M2, 1)
  BY Zenon
<1>3. work.key2 = key2 /\ work.message2 = Message2(b)
  <2>1. GetKey2(sent) = Chain(128, 1024) \o Comps(128, "MSG", M, 1) /\ GetMessage2(sent) = Message2(b)
    BY ONLY <1>1, SentIs
  <2>2. Comps(128, "MSG", M, 1) = Comps(128, "MSG", M2, 1)
    BY ONLY SameFirstBlock, sent \in Nat, nonce \in Nat, M = HeaderText(sent), M2 = HeaderText(nonce)
  <2>3. work.key2 = GetKey2(sent) /\ work.message2 = GetMessage2(sent)
    BY ONLY work = [key2 |-> GetKey2(sent), message2 |-> GetMessage2(sent)]
  <2> QED
    BY ONLY <2>1, <2>2, <2>3, key2 = Chain(128, 1024) \o Comps(128, "MSG", M2, 1)
<1> PICK block : block = BoardBlock(88, Message2(b), nonce)
  OBVIOUS
<1>4. block = Padded(128, M2, 1, 88)
  BY ONLY <1>2, BoardBlockIs, sent \in Nat, nonce \in Nat, M = HeaderText(sent), M2 = HeaderText(nonce),
          block = BoardBlock(88, Message2(b), nonce)
<1> PICK last : last = BoardLast(216, block)
  OBVIOUS
<1>5. last = LastComp(128, "MSG", M2, 1, 88)
  <2> PICK no : no = (1 = 0)
    OBVIOUS
  <2> PICK fed : fed = 1 * 128 + 88
    OBVIOUS
  <2>1. LastComp(128, "MSG", M2, 1, 88) = [T0 |-> fed, T1 |-> T("MSG", no, TRUE), block |-> block]
    BY ONLY <1>4, fed = 1 * 128 + 88, no = (1 = 0), Zenon DEF LastComp
  <2>2. no = FALSE
    <3>1. ~ (1 = 0)
      OBVIOUS
    <3> QED
      BY ONLY <3>1, no = (1 = 0), Zenon
  <2>3. fed = 216
    BY ONLY fed = 1 * 128 + 88
  <2>4. T("MSG", no, TRUE) = [type |-> "MSG", first |-> FALSE, final |-> TRUE]
    BY ONLY <2>2, Zenon DEF T
  <2>5. last = [T0 |-> 216, T1 |-> [type |-> "MSG", first |-> FALSE, final |-> TRUE], block |-> block]
    BY ONLY last = BoardLast(216, block), Zenon DEF BoardLast
  <2> QED
    BY ONLY <2>1, <2>3, <2>4, <2>5, Zenon
<1>6. BoardHash(work, nonce) = BoardOut(key2, last)
  <2> PICK whole, rest : whole = HeaderBytes /\ rest = HeaderBytes % 128
    OBVIOUS
  <2>1. BoardHash(work, nonce) = BoardOut(work.key2, BoardLast(whole, BoardBlock(rest, work.message2, nonce)))
    BY ONLY BoardUnfolds, whole = HeaderBytes /\ rest = HeaderBytes % 128, Zenon
  <2>2. whole = 216 /\ rest = 88
    BY ONLY BytesOfHeader, whole = HeaderBytes /\ rest = HeaderBytes % 128
  <2> QED
    BY ONLY <1>3, <2>1, <2>2, block = BoardBlock(88, Message2(b), nonce), last = BoardLast(216, block)
<1>7. SkeinHash(128, 1024, << >>, Header(nonce)) = BoardOut(key2, LastComp(128, "MSG", M2, 1, 88))
  BY ONLY HeaderDigest, nonce \in Nat, M2 = HeaderText(nonce),
          key2 = Chain(128, 1024) \o Comps(128, "MSG", M2, 1)
<1> QED
  BY ONLY <1>5, <1>6, <1>7

(* The miner's hash of a header: the two stages of SK1024.                 *)
LEMMA HeaderIsHashed ==
  ASSUME NEW nonce \in Nat
  PROVE  /\ GetHash(nonce) = TwoStageHash("SK1024", Header(nonce))
         /\ GetHash(nonce).skein = SkeinHash(128, 1024, << >>, Header(nonce))
<1> PICK N : N = 128
  OBVIOUS
<1> PICK bits : bits = 1024
  OBVIOUS
<1> PICK len : len = 216
  OBVIOUS
<1> PICK z : z = 0
  OBVIOUS
<1> PICK M : M = HeaderText(nonce)
  OBVIOUS
<1> PICK c : c = Digesting(nonce)
  OBVIOUS
<1> PICK text : text = Header(nonce)
  OBVIOUS
<1> PICK d : d = GetHash(nonce)
  OBVIOUS
<1>1. N \in Sizes /\ bits \in Nat /\ len \in Nat
  BY DEF Sizes
<1>2. M \in Texts /\ text = Part(M, z, len)
  BY TextIs, HeaderIs
<1>3. text = Part(M, 0, len)
  BY ONLY <1>2, z = 0
<1>4. Feeding(N, bits, M, len, c)
  BY HeaderFed
<1>5. FinalAs(N, c).hashVal = SkeinHash(N, bits, << >>, text)
  BY ONLY <1>1, <1>2, <1>3, <1>4, FeedingEnds
<1>6. Recipe("SK1024") = Numbers(N, bits, 576, SK1024Suffix)
  BY ONLY RecipesAre, N = 128, bits = 1024
<1>7. Known(576, bits, bits \div 8, SK1024Suffix, (bits - 1) \div 576)
  <2>1. bits \div 8 = 128 /\ (bits - 1) \div 576 = 1
    BY ONLY bits = 1024
  <2>2. Known(576, bits, 128, SK1024Suffix, 1)
    BY ONLY StagesAre, bits = 1024
  <2> QED
    BY ONLY <2>1, <2>2
<1>8. d = Both(FinalAs(N, c).hashVal, KeccakStage(576, bits, SK1024Suffix))
  BY ONLY N = 128, bits = 1024, c = Digesting(nonce), d = GetHash(nonce)
     DEF GetHash, SK1024, Digesting, Skein1024_Final, Both
<1>9. Returns("SK1024", N, bits, 576, SK1024Suffix, c, d)
  BY ONLY <1>6, <1>7, <1>8 DEF Returns
<1>10. Gives("SK1024", text, d)
  BY ONLY <1>5, <1>9, TemplateGives
<1>11. d = TwoStageHash("SK1024", text)
  BY ONLY <1>10 DEF Gives
<1>12. d.skein = SkeinHash(N, bits, << >>, text)
  BY ONLY <1>5, <1>8 DEF Both
<1> QED
  BY ONLY <1>11, <1>12, d = GetHash(nonce), text = Header(nonce), N = 128, bits = 1024

(***************************************************************************)
(* The invariant: what was returned and what was sent is what the          *)
(* functions compute, of calls the templates have and of some nonces.      *)
(***************************************************************************)

Sent(nonce) == [key2 |-> GetKey2(nonce), message2 |-> GetMessage2(nonce)]

TpInv ==
  /\ tpPhase \in {"idle", "hashed", "sent", "found"}
  /\ tpPhase = "hashed" => tpCall \in Templates /\ tpDigest = Digest(tpCall)
  /\ tpPhase \in {"sent", "found"} => \E sent \in Nonces : tpWork = Sent(sent)
  /\ tpPhase = "found" => tpNonce \in Nonces /\ tpDigest = GetHash(tpNonce)

LEMMA TpNextKeeps == TpInv /\ [TpNext]_tpVars => TpInv'
<1> SUFFICES ASSUME TpInv, [TpNext]_tpVars
             PROVE  TpInv'
  OBVIOUS
<1>1. CASE Return
  BY ONLY <1>1 DEF Return, TpInv
<1>2. ASSUME NEW call \in Templates, CallTemplate(call)
      PROVE  TpInv'
  BY ONLY <1>2 DEF CallTemplate, TpInv
<1>3. ASSUME NEW nonce \in Nonces, SendWork(nonce)
      PROVE  TpInv'
  <2>1. tpWork' = Sent(nonce) /\ tpPhase' = "sent"
    BY ONLY <1>3 DEF SendWork, Sent
  <2> QED
    BY ONLY <2>1, nonce \in Nonces DEF TpInv
<1>4. ASSUME NEW nonce \in Nonces, ReceiveNonce(nonce)
      PROVE  TpInv'
  <2>1. /\ tpPhase = "sent" /\ tpWork' = tpWork
        /\ tpNonce' = nonce /\ tpDigest' = GetHash(nonce) /\ tpPhase' = "found"
    BY ONLY <1>4 DEF ReceiveNonce
  <2>2. \E sent \in Nonces : tpWork = Sent(sent)
    BY ONLY <2>1, TpInv DEF TpInv
  <2> QED
    BY ONLY <2>1, <2>2, nonce \in Nonces DEF TpInv
<1>5. CASE UNCHANGED tpVars
  BY ONLY <1>5, TpInv DEF TpInv, tpVars
<1> QED
  BY ONLY <1>1, <1>2, <1>3, <1>4, <1>5, [TpNext]_tpVars DEF TpNext

(* A template is called, a board is sent work or a nonce comes back, or     *)
(* nothing of the templates changes.                                       *)
LEMMA TemplatesStep == [HtNext]_htVars => [TpNext]_tpVars
BY DEF HtNext, UseSkein, UseKeccak, UseBoth, htVars, tpVars

(* The state of the templates between any two calls.                       *)
THEOREM TemplatesInvariant == HtSpec => []TpInv
<1>1. HtInit => TpInv
  BY DEF HtInit, TpInit, TpInv
<1>2. TpInv /\ [HtNext]_htVars => TpInv'
  BY TemplatesStep, TpNextKeeps
<1> QED
  BY <1>1, <1>2, PTL DEF HtSpec

LEMMA PartsAsOne == TpInv => PartsHashAsOne
<1> SUFFICES ASSUME TpInv, tpPhase = "hashed"
             PROVE  tpDigest = TwoStageHash(tpCall.name, Message(0, Total(tpCall.lens)))
  BY DEF PartsHashAsOne
<1>1. tpCall \in Templates /\ tpDigest = Digest(tpCall)
  BY ONLY TpInv, tpPhase = "hashed" DEF TpInv
<1>2. IsTwoStage(tpCall.name, Total(tpCall.lens), Digest(tpCall))
  BY ONLY <1>1, DigestIsTwoStage
<1> QED
  BY ONLY <1>1, <1>2, Zenon DEF IsTwoStage

LEMMA BoardAgrees == TpInv => MidStateCompletes
<1> SUFFICES ASSUME TpInv, tpPhase = "found"
             PROVE  /\ BoardHash(tpWork, tpNonce) = tpDigest.skein
                    /\ tpDigest = TwoStageHash("SK1024", Header(tpNonce))
  BY DEF MidStateCompletes
<1> PICK nonce : nonce = tpNonce
  OBVIOUS
<1> PICK work : work = tpWork
  OBVIOUS
<1>1. nonce \in Nonces /\ tpDigest = GetHash(nonce)
  BY ONLY TpInv, tpPhase = "found", nonce = tpNonce DEF TpInv
<1>2. PICK sent \in Nonces : work = Sent(sent)
  BY ONLY TpInv, tpPhase = "found", work = tpWork DEF TpInv
<1>3. sent \in Nat /\ nonce \in Nat
  BY ONLY <1>1, sent \in Nonces, TemplatesAssumption
<1>4. work = [key2 |-> GetKey2(sent), message2 |-> GetMessage2(sent)]
  BY ONLY <1>2, Zenon DEF Sent
<1>5. BoardHash(work, nonce) = SkeinHash(128, 1024, << >>, Header(nonce))
  BY ONLY <1>3, <1>4, BoardCompletes
<1>6. /\ GetHash(nonce) = TwoStageHash("SK1024", Header(nonce))
      /\ GetHash(nonce).skein = SkeinHash(128, 1024, << >>, Header(nonce))
  BY ONLY <1>3, HeaderIsHashed
<1> QED
  BY ONLY <1>1, <1>5, <1>6, nonce = tpNonce, work = tpWork

(***************************************************************************)
(* However many parts the data of a template came in, what it returns is    *)
(* the Keccak hash of the Skein hash of all of it: SK64 to SK1024, for any  *)
(* lengths of the parts.                                                   *)
(***************************************************************************)
THEOREM PartsHashAsOneHolds == HtSpec => []PartsHashAsOne
BY TemplatesInvariant, PartsAsOne, PTL

(***************************************************************************)
(* A board that was sent the chaining value and the last block of a header, *)
(* with whatever nonce, computes with the nonce it found the Skein stage of *)
(* the hash the miner computes of the block with that nonce: SKEINKEY2,     *)
(* SKEINMESSAGE2 and GetHash.                                              *)
(***************************************************************************)
THEOREM MidStateCompletesHolds == HtSpec => []MidStateCompletes
BY TemplatesInvariant, BoardAgrees, PTL

(***************************************************************************)
(* Contexts, hash instances and templates side by side: a context behaves   *)
(* as it does alone, and so does an instance, so what is proved of them     *)
(* holds beside each other.                                                *)
(***************************************************************************)
THEOREM TemplatesImplement == HtSpec => SkSpec /\ SpSpec
<1>1. HtInit => SkInit /\ SpInit
  BY DEF HtInit
<1>2. [HtNext]_htVars => [SkNext]_skVars
  BY DEF HtNext, UseSkein, UseKeccak, UseBoth, htVars
<1>3. [HtNext]_htVars => [SpNext]_spVars
  BY DEF HtNext, UseSkein, UseKeccak, UseBoth, htVars
<1> QED
  BY ONLY <1>1, <1>2, <1>3, PTL DEF HtSpec, SkSpec, SpSpec

(* What is proved of a Skein context and of a Keccak instance alone holds   *)
(* while the templates use contexts and instances of their own.            *)
THEOREM HashesHoldBeside ==
  HtSpec => [](StreamIsUBI /\ DigestIsSkein /\ AbsorbsInOrder /\ HashIsKeccak)
BY ONLY TemplatesImplement, StreamIsUBIHolds, DigestIsSkeinHolds, AbsorbsInOrderHolds,
        HashIsKeccakHolds, PTL

-----------------------------------------------------------------------------
(***************************************************************************)
(* Everything the miner computes, side by side: each unit behaves as it    *)
(* does alone, moving or not, when Computations puts them together.        *)
(***************************************************************************)
THEOREM ComputationsImplement == Spec => HtSpec /\ TfSpec /\ KfSpec /\ UiSpec /\ CodecSpec
<1>1. Init => HtInit /\ TfInit /\ KfInit /\ UiInit /\ CodecInit
  BY DEF Init
<1>2. [Next]_vars => /\ [HtNext]_htVars /\ [TfNext]_tfVars /\ [KfNext]_kfVars
                     /\ [UiNext]_uiVars /\ [CodecNext]_coVars
  BY DEF Next, vars
<1> QED
  BY ONLY <1>1, <1>2, PTL DEF Spec, HtSpec, TfSpec, KfSpec, UiSpec, CodecSpec

(* So what is proved of the units holds of their composition: the hashes,  *)
(* whole and in parts, are those of their definitions (StreamIsUBI,        *)
(* DigestIsSkein, AbsorbsInOrder, HashIsKeccak, PartsHashAsOne), a board   *)
(* can complete them (MidStateCompletes), the functions below them are     *)
(* Threefish and Keccak-f (InjectsSubkeys, StepsAreThreefish,              *)
(* RoundsAreKeccakF), the integers count (CountsModulo) and come back from *)
(* what is written of them (ReadsWhatItWrites), and neither a block nor a  *)
(* share is changed on the wire (BlockSurvivesWire, ShareSurvivesWire).    *)
THEOREM ComputedAsDefined ==
  Spec => /\ [](StreamIsUBI /\ DigestIsSkein /\ AbsorbsInOrder /\ HashIsKeccak)
          /\ [](PartsHashAsOne /\ MidStateCompletes)
          /\ [](InjectsSubkeys /\ RoundsAreKeccakF)
          /\ [](ReadsWhatItWrites /\ BlockSurvivesWire /\ ShareSurvivesWire)
          /\ StepsAreThreefish
          /\ CountsModulo
<1>1. HtSpec => [](StreamIsUBI /\ DigestIsSkein /\ AbsorbsInOrder /\ HashIsKeccak)
  BY HashesHoldBeside
<1>2. HtSpec => [](PartsHashAsOne /\ MidStateCompletes)
  BY ONLY PartsHashAsOneHolds, MidStateCompletesHolds, PTL
<1>3. TfSpec /\ KfSpec => [](InjectsSubkeys /\ RoundsAreKeccakF)
  BY ONLY InjectsSubkeysHolds, RoundsAreKeccakFHolds, PTL
<1>4. UiSpec /\ CodecSpec => [](ReadsWhatItWrites /\ BlockSurvivesWire /\ ShareSurvivesWire)
  BY ONLY ReadsWhatItWritesHolds, BlockSurvivesWireHolds, ShareSurvivesWireHolds, PTL
<1> QED
  BY ONLY <1>1, <1>2, <1>3, <1>4, ComputationsImplement, StepsAreThreefishHolds, WordsCount, PTL
=============================================================================
