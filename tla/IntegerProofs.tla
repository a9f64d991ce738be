---------------------------- MODULE IntegerProofs ----------------------------
(***************************************************************************)
(* The integers of hash/uint1024.h and their bytes. The words of an        *)
(* integer count: every operator on them is the one of the counter that    *)
(* BigInteger states, for words of any number of bits and integers of any  *)
(* number of words. And nothing is lost where an integer is written in     *)
(* bytes or in hexadecimal digits, or where a block goes from the pool to  *)
(* the client and a share back: each pair of conversions is shown to be    *)
(* inverse, and the header is taken apart at the offsets that the code     *)
(* counts out.                                                             *)
(***************************************************************************)
EXTENDS BlockCodec, Uint1024, SharedLemmas, FiniteSetTheorems

-----------------------------------------------------------------------------
(* Words and their bytes.                                                  *)

(* The values of a word.                                                   *)
WordRange == 0 .. WordSize - 1

(* A byte has more than one value and a word at least one.                 *)
LEMMA WordSizeType == Byte \in Nat /\ Byte > 1 /\ WordSize \in Nat /\ WordSize > 0
<1>1. Byte \in Nat /\ Byte > 1
  BY ByteAssumption
<1>2. Byte * Byte \in Nat /\ Byte * Byte > 0
  BY <1>1
<1>3. (Byte * Byte) * Byte \in Nat /\ (Byte * Byte) * Byte > 0
  BY <1>1, <1>2
<1>4. ((Byte * Byte) * Byte) * Byte \in Nat /\ ((Byte * Byte) * Byte) * Byte > 0
  BY <1>1, <1>3
<1> QED
  BY <1>1, <1>4 DEF WordSize

(* The bytes of a word, read with the highest first, are the word again:   *)
(* what uint2bytes writes is what bytes2uint reads.                        *)
LEMMA BytesMakeWord ==
  ASSUME NEW v \in WordRange
  PROVE  LET b == BytesOfWord(v)
         IN  /\ b \in Seq(Nat)
             /\ ((b[4] * Byte + b[3]) * Byte + b[2]) * Byte + b[1] = v
             /\ (((b[4] * Byte + b[3]) * Byte + b[2]) * Byte + b[1]) % WordSize = v
<1>1. Byte \in Nat \ {0} /\ v \in Nat /\ v < WordSize /\ WordSize \in Nat /\ WordSize > 0
  BY WordSizeType DEF WordRange
<1>2. PICK v1 \in Nat, r0 \in Nat : v1 = v \div Byte /\ r0 = v % Byte /\ v = Byte * v1 + r0
  BY <1>1, Division
<1>3. PICK v2 \in Nat, r1 \in Nat : v2 = v1 \div Byte /\ r1 = v1 % Byte /\ v1 = Byte * v2 + r1
  BY <1>1, Division
<1>4. PICK v3 \in Nat, r2 \in Nat : v3 = v2 \div Byte /\ r2 = v2 % Byte /\ v2 = Byte * v3 + r2
  BY <1>1, Division
<1>5. PICK v4 \in Nat, r3 \in Nat : v4 = v3 \div Byte /\ r3 = v3 % Byte /\ v3 = Byte * v4 + r3
  BY <1>1, Division
<1>6. BytesOfWord(v) = <<r0, r1, r2, r3>>
  BY <1>2, <1>3, <1>4, <1>5 DEF BytesOfWord
<1>7. v4 = 0
  <2> PICK m1 \in Nat, m2 \in Nat, m3 \in Nat :
         m1 = Byte /\ m2 = Byte * Byte /\ m3 = Byte * Byte * Byte /\ WordSize = Byte * m3
         /\ m3 = Byte * m2 /\ m2 = Byte * m1 /\ m1 = Byte * 1
    <3>1. Byte * Byte \in Nat
      BY <1>1
    <3>2. (Byte * Byte) * Byte \in Nat
      BY <1>1, <3>1
    <3>3. (Byte * Byte) * Byte = Byte * (Byte * Byte)
      BY <1>1, <3>1
    <3>4. ((Byte * Byte) * Byte) * Byte = Byte * ((Byte * Byte) * Byte)
      BY <1>1, <3>2
    <3> QED
      BY <1>1, <3>1, <3>2, <3>3, <3>4 DEF WordSize
  <2>1. v1 < m3
    <3>1. Byte * v1 + r0 < Byte * m3
      BY <1>1, <1>2
    <3> QED
      BY <3>1, <1>1, DivisionBound
  <2>2. v2 < m2
    BY <2>1, <1>1, <1>3, DivisionBound
  <2>3. v3 < m1
    <3>1. Byte * v3 + r2 < Byte * m1
      BY <2>2, <1>4
    <3> QED
      BY <3>1, <1>1, DivisionBound
  <2>4. v4 < 1
    <3>1. Byte * v4 + r3 < Byte * 1 /\ 1 \in Nat
      BY <2>3, <1>5, <1>1
    <3> QED
      BY <3>1, <1>1, DivisionBound
  <2> QED
    BY <2>4
<1>8. v3 = r3 /\ v2 = r3 * Byte + r2 /\ v1 = (r3 * Byte + r2) * Byte + r1
      /\ v = ((r3 * Byte + r2) * Byte + r1) * Byte + r0
  <2>1. v3 = r3
    BY <1>1, <1>5, <1>7
  <2>2. v2 = r3 * Byte + r2
    <3>1. v2 = Byte * v3 + r2
      BY <1>4
    <3>2. Byte * v3 = v3 * Byte
      BY <1>1
    <3> QED
      BY <3>1, <3>2, <2>1
  <2>3. v1 = (r3 * Byte + r2) * Byte + r1
    <3>1. v1 = Byte * v2 + r1 /\ Byte * v2 = v2 * Byte
      BY <1>1, <1>3
    <3> QED
      BY <3>1, <2>2
  <2>4. v = ((r3 * Byte + r2) * Byte + r1) * Byte + r0
    <3>1. v = Byte * v1 + r0 /\ Byte * v1 = v1 * Byte
      BY <1>1, <1>2
    <3> QED
      BY <3>1, <2>3
  <2> QED
    BY <2>1, <2>2, <2>3, <2>4
<1>9. v % WordSize = v
  BY <1>1
<1> QED
  BY <1>6, <1>8, <1>9

(* An integer of a width has that many words.                              *)
LEMMA WordsSize ==
  ASSUME NEW w \in Nat
  PROVE  IsFiniteSet(Words(w)) /\ Cardinality(Words(w)) = w
BY FS_Interval DEF Words

(* GetBytes writes four bytes a word, the highest of each first.           *)
LEMMA GetBytesIs ==
  ASSUME NEW w \in Nat, NEW a \in [Words(w) -> WordRange]
  PROVE  /\ GetBytes(a) \in Seq(Nat) /\ Len(GetBytes(a)) = 4 * w
         /\ \A i \in Words(w) : /\ GetBytes(a)[4 * i + 1] = BytesOfWord(a[i])[4]
                                /\ GetBytes(a)[4 * i + 2] = BytesOfWord(a[i])[3]
                                /\ GetBytes(a)[4 * i + 3] = BytesOfWord(a[i])[2]
                                /\ GetBytes(a)[4 * i + 4] = BytesOfWord(a[i])[1]
<1>1. Cardinality(DOMAIN a) = w
  BY WordsSize
<1>2. \A i \in Words(w) : \A j \in 1 .. 4 : BytesOfWord(a[i])[j] \in Nat
  <2> TAKE i \in Words(w)
  <2>1. a[i] \in WordRange
    OBVIOUS
  <2>2. PICK b \in Seq(Nat) : b = BytesOfWord(a[i])
    BY <2>1, BytesMakeWord
  <2>3. Len(b) = 4
    BY <2>2 DEF BytesOfWord
  <2>4. \A j \in 1 .. 4 : b[j] \in Nat
    <3>1. \A j \in 1 .. Len(b) : b[j] \in Nat
      BY ONLY b \in Seq(Nat)
    <3> QED
      BY ONLY <3>1, <2>3
  <2> QED
    BY <2>2, <2>4
<1>3. GetBytes(a) = [k \in 1 .. 4 * w |->
          BytesOfWord(a[(4 * ((k - 1) \div 4) + (3 - ((k - 1) % 4))) \div 4])
                     [((4 * ((k - 1) \div 4) + (3 - ((k - 1) % 4))) % 4) + 1]]
  BY <1>1 DEF GetBytes, ByteAt
<1>4. \A k \in 1 .. 4 * w :
        /\ (4 * ((k - 1) \div 4) + (3 - ((k - 1) % 4))) \div 4 = (k - 1) \div 4
        /\ (4 * ((k - 1) \div 4) + (3 - ((k - 1) % 4))) % 4 = 3 - ((k - 1) % 4)
        /\ (k - 1) \div 4 \in Words(w) /\ 4 - ((k - 1) % 4) \in 1 .. 4
  <2> TAKE k \in 1 .. 4 * w
  <2>0. k - 1 \in Nat /\ 4 \in Nat \ {0}
    OBVIOUS
  <2>1. PICK q \in Nat, r \in Nat :
          q = (k - 1) \div 4 /\ r = (k - 1) % 4 /\ r < 4 /\ k - 1 = 4 * q + r
    BY <2>0, Division
  <2>2. (4 * q + (3 - r)) \div 4 = q /\ (4 * q + (3 - r)) % 4 = 3 - r
    <3>1. PICK t \in 0 .. 3 : t = 3 - r
      BY <2>1
    <3>2. (4 * q + t) \div 4 = q /\ (4 * q + t) % 4 = t
      OBVIOUS
    <3> QED
      BY <3>1, <3>2
  <2>3. q \in 0 .. w - 1 /\ 4 - r \in 1 .. 4
    BY <2>1
  <2> QED
    BY <2>1, <2>2, <2>3 DEF Words
<1>5. GetBytes(a) = [k \in 1 .. 4 * w |-> BytesOfWord(a[(k - 1) \div 4])[4 - ((k - 1) % 4)]]
  <2>1. \A k \in 1 .. 4 * w :
          BytesOfWord(a[(4 * ((k - 1) \div 4) + (3 - ((k - 1) % 4))) \div 4])
                     [((4 * ((k - 1) \div 4) + (3 - ((k - 1) % 4))) % 4) + 1]
          = BytesOfWord(a[(k - 1) \div 4])[4 - ((k - 1) % 4)]
    <3> TAKE k \in 1 .. 4 * w
    <3>1. PICK r \in 0 .. 3 : r = (k - 1) % 4
      BY Division
    <3>2. (3 - r) + 1 = 4 - r
      OBVIOUS
    <3> QED
      BY <1>4, <3>1, <3>2
  <2> QED
    BY <1>3, <2>1
<1>6. \A k \in 1 .. 4 * w : BytesOfWord(a[(k - 1) \div 4])[4 - ((k - 1) % 4)] \in Nat
  BY <1>2, <1>4
<1>7. GetBytes(a) \in Seq(Nat) /\ Len(GetBytes(a)) = 4 * w
  BY <1>5, <1>6
<1>8. ASSUME NEW i \in Words(w)
      PROVE  /\ GetBytes(a)[4 * i + 1] = BytesOfWord(a[i])[4]
             /\ GetBytes(a)[4 * i + 2] = BytesOfWord(a[i])[3]
             /\ GetBytes(a)[4 * i + 3] = BytesOfWord(a[i])[2]
             /\ GetBytes(a)[4 * i + 4] = BytesOfWord(a[i])[1]
  <2>1. i \in 0 .. w - 1
    BY DEF Words
  <2>2. /\ 4 * i + 1 \in 1 .. 4 * w /\ (4 * i + 1 - 1) \div 4 = i /\ (4 * i + 1 - 1) % 4 = 0
        /\ 4 * i + 2 \in 1 .. 4 * w /\ (4 * i + 2 - 1) \div 4 = i /\ (4 * i + 2 - 1) % 4 = 1
        /\ 4 * i + 3 \in 1 .. 4 * w /\ (4 * i + 3 - 1) \div 4 = i /\ (4 * i + 3 - 1) % 4 = 2
        /\ 4 * i + 4 \in 1 .. 4 * w /\ (4 * i + 4 - 1) \div 4 = i /\ (4 * i + 4 - 1) % 4 = 3
    BY <2>1
  <2>3. \A k \in 1 .. 4 * w : GetBytes(a)[k] = BytesOfWord(a[(k - 1) \div 4])[4 - ((k - 1) % 4)]
    BY <1>5
  <2>4. 4 - 0 = 4 /\ 4 - 1 = 3 /\ 4 - 2 = 2 /\ 4 - 3 = 1
    OBVIOUS
  <2> QED
    BY <2>2, <2>3, <2>4
<1> QED
  BY <1>7, <1>8

(* SetBytes reads back what GetBytes wrote, whatever the width.            *)
LEMMA SetBytesReads ==
  ASSUME NEW w \in Nat, NEW a \in [Words(w) -> WordRange]
  PROVE  SetBytes(GetBytes(a), w) = a
<1>1. ASSUME NEW i \in Words(w) PROVE FourBytes(GetBytes(a), 4 * i) = a[i]
  <2>1. a[i] \in WordRange
    OBVIOUS
  <2> QED
    BY <2>1, BytesMakeWord, GetBytesIs DEF FourBytes
<1> QED
  BY <1>1 DEF SetBytes

(* uint2bytes writes four bytes that bytes2uint reads back.                *)
LEMMA Uint2BytesIs ==
  ASSUME NEW v \in WordRange
  PROVE  uint2bytes(v) \in Seq(Nat) /\ Len(uint2bytes(v)) = 4 /\ bytes2uint(uint2bytes(v), 0) = v
<1> DEFINE a == [i \in Words(1) |-> v]
<1>1. a \in [Words(1) -> WordRange] /\ 0 \in Words(1) /\ a[0] = v
  BY DEF Words
<1>2. SetBytes(GetBytes(a), 1) = a /\ GetBytes(a) \in Seq(Nat) /\ Len(GetBytes(a)) = 4
  <2> HIDE DEF a
  <2>1. 1 \in Nat /\ 4 * 1 = 4
    OBVIOUS
  <2> QED
    BY <1>1, <2>1, SetBytesReads, GetBytesIs
<1>3. FourBytes(GetBytes(a), 4 * 0) = v
  BY <1>1, <1>2 DEF SetBytes
<1> QED
  BY <1>2, <1>3 DEF uint2bytes, bytes2uint

(* The bytes of the first part of a packet do not depend on what follows.  *)
LEMMA PieceBefore ==
  ASSUME NEW s \in Seq(Nat), NEW t \in Seq(Nat), NEW lo \in Nat, NEW hi \in Nat,
         lo <= hi, hi <= Len(s)
  PROVE  Bytes(s \o t, lo, hi) = Bytes(s, lo, hi)
BY DEF Bytes

(* What follows the first part is the second.                              *)
LEMMA LastPiece ==
  ASSUME NEW s \in Seq(Nat), NEW t \in Seq(Nat), NEW lo \in Nat, NEW hi \in Nat,
         lo = Len(s), hi = Len(s) + Len(t)
  PROVE  Bytes(s \o t, lo, hi) = t
BY DEF Bytes

(* All the bytes of a sequence are the sequence.                           *)
LEMMA WholePiece ==
  ASSUME NEW s \in Seq(Nat), NEW n \in Nat, n = Len(s)
  PROVE  Bytes(s, 0, n) = s
BY DEF Bytes

(* uint2bytes64 writes eight bytes that bytes2uint64 reads back.           *)
LEMMA Uint2Bytes64Is ==
  ASSUME NEW n \in [Words(2) -> WordRange]
  PROVE  /\ uint2bytes64(n) \in Seq(Nat) /\ Len(uint2bytes64(n)) = 8
         /\ bytes2uint64(uint2bytes64(n)) = n
<1>1. n[0] \in WordRange /\ n[1] \in WordRange /\ Words(2) = {0, 1}
  BY DEF Words
<1>2. PICK s \in Seq(Nat), t \in Seq(Nat) :
        /\ s = uint2bytes(n[0]) /\ Len(s) = 4 /\ bytes2uint(s, 0) = n[0]
        /\ t = uint2bytes(n[1]) /\ Len(t) = 4 /\ bytes2uint(t, 0) = n[1]
  BY <1>1, Uint2BytesIs
<1>3. PICK u \in Seq(Nat) : u = s \o t /\ Len(u) = 8
  <2>1. s \o t \in Seq(Nat) /\ Len(s \o t) = 8
    <3>1. s \o t \in Seq(Nat) /\ Len(s \o t) = Len(s) + Len(t)
      BY ONLY s \in Seq(Nat), t \in Seq(Nat), ConcatProperties
    <3>2. Len(s) = 4 /\ Len(t) = 4
      BY <1>2
    <3> QED
      BY ONLY <3>1, <3>2
  <2> QED
    BY ONLY <2>1
<1>4. u[1] = s[1] /\ u[2] = s[2] /\ u[3] = s[3] /\ u[4] = s[4]
      /\ u[5] = t[1] /\ u[6] = t[2] /\ u[7] = t[3] /\ u[8] = t[4]
  BY <1>2, <1>3
<1>5. bytes2uint(u, 4 * 0) = n[0] /\ bytes2uint(u, 4 * 1) = n[1]
  <2>1. 4 * 0 + 1 = 1 /\ 4 * 0 + 2 = 2 /\ 4 * 0 + 3 = 3 /\ 4 * 0 + 4 = 4
        /\ 4 * 1 + 1 = 5 /\ 4 * 1 + 2 = 6 /\ 4 * 1 + 3 = 7 /\ 4 * 1 + 4 = 8
        /\ 0 + 1 = 1 /\ 0 + 2 = 2 /\ 0 + 3 = 3 /\ 0 + 4 = 4
    OBVIOUS
  <2> QED
    BY <1>2, <1>4, <2>1 DEF bytes2uint, FourBytes
<1>6. bytes2uint64(u) = [i \in Words(2) |-> n[i]]
  BY <1>1, <1>5 DEF bytes2uint64
<1>7. uint2bytes64(n) = u
  BY <1>2, <1>3 DEF uint2bytes64
<1> QED
  BY <1>3, <1>6, <1>7

-----------------------------------------------------------------------------
(* The headers the pool may send.                                          *)
BlockRecords ==
  [version : WordRange, prev : [Words(PrevWidth) -> WordRange], merkle : [Words(MerkleWidth) -> WordRange],
   channel : WordRange, height : WordRange, bits : WordRange, nonce : [Words(2) -> WordRange]]

(* The pieces of a header, which are read back as the fields.              *)
Pieces(block, v, p, m, c, h, b, n) ==
  /\ v = uint2bytes(block.version) /\ Len(v) = 4 /\ bytes2uint(v, 0) = block.version
  /\ p = GetBytes(block.prev) /\ Len(p) = 4 * PrevWidth /\ SetBytes(p, PrevWidth) = block.prev
  /\ m = GetBytes(block.merkle) /\ Len(m) = 4 * MerkleWidth
  /\ SetBytes(m, MerkleWidth) = block.merkle
  /\ c = uint2bytes(block.channel) /\ Len(c) = 4 /\ bytes2uint(c, 0) = block.channel
  /\ h = uint2bytes(block.height) /\ Len(h) = 4 /\ bytes2uint(h, 0) = block.height
  /\ b = uint2bytes(block.bits) /\ Len(b) = 4 /\ bytes2uint(b, 0) = block.bits
  /\ n = uint2bytes64(block.nonce) /\ Len(n) = 8 /\ bytes2uint64(n) = block.nonce

(* The pieces of a header are sequences of the lengths that                *)
(* DeserializeBlock counts on, and each one is read back as its field.     *)
LEMMA PiecesReadBack ==
  ASSUME NEW block \in BlockRecords
  PROVE  \E v, p, m, c, h, b, n \in Seq(Nat) : Pieces(block, v, p, m, c, h, b, n)
<1>1. /\ block.version \in WordRange /\ block.channel \in WordRange /\ block.height \in WordRange
      /\ block.bits \in WordRange /\ block.prev \in [Words(PrevWidth) -> WordRange]
      /\ block.merkle \in [Words(MerkleWidth) -> WordRange] /\ block.nonce \in [Words(2) -> WordRange]
      /\ PrevWidth \in Nat /\ MerkleWidth \in Nat
  BY CodecAssumption DEF BlockRecords
<1>2. PICK v \in Seq(Nat) : v = uint2bytes(block.version) /\ Len(v) = 4 /\ bytes2uint(v, 0) = block.version
  BY <1>1, Uint2BytesIs
<1>3. PICK c \in Seq(Nat) : c = uint2bytes(block.channel) /\ Len(c) = 4 /\ bytes2uint(c, 0) = block.channel
  BY <1>1, Uint2BytesIs
<1>4. PICK h \in Seq(Nat) : h = uint2bytes(block.height) /\ Len(h) = 4 /\ bytes2uint(h, 0) = block.height
  BY <1>1, Uint2BytesIs
<1>5. PICK b \in Seq(Nat) : b = uint2bytes(block.bits) /\ Len(b) = 4 /\ bytes2uint(b, 0) = block.bits
  BY <1>1, Uint2BytesIs
<1>6. PICK p \in Seq(Nat) : p = GetBytes(block.prev) /\ Len(p) = 4 * PrevWidth
                            /\ SetBytes(p, PrevWidth) = block.prev
  BY <1>1, GetBytesIs, SetBytesReads
<1>7. PICK m \in Seq(Nat) : m = GetBytes(block.merkle) /\ Len(m) = 4 * MerkleWidth
                            /\ SetBytes(m, MerkleWidth) = block.merkle
  BY <1>1, GetBytesIs, SetBytesReads
<1>8. PICK n \in Seq(Nat) : n = uint2bytes64(block.nonce) /\ Len(n) = 8
                            /\ bytes2uint64(n) = block.nonce
  BY <1>1, Uint2Bytes64Is
<1> QED
  BY <1>2, <1>3, <1>4, <1>5, <1>6, <1>7, <1>8 DEF Pieces

(* u is t behind s.                                                        *)
Behind(u, s, t) ==
  /\ u \in Seq(Nat) /\ u = s \o t /\ Len(u) = Len(s) + Len(t)
  /\ \A lo, hi \in Nat : lo <= hi /\ hi <= Len(s) => Bytes(u, lo, hi) = Bytes(s, lo, hi)
  /\ Bytes(u, Len(s), Len(u)) = t

(* Two sequences can be put behind each other, and both are found again.   *)
LEMMA BehindIs ==
  ASSUME NEW s \in Seq(Nat), NEW t \in Seq(Nat)
  PROVE  \E u \in Seq(Nat) : Behind(u, s, t)
<1>1. PICK u : u = s \o t
  OBVIOUS
<1>2. s \o t \in Seq(Nat) /\ Len(s \o t) = Len(s) + Len(t)
  OBVIOUS
<1>3. \A lo, hi \in Nat : lo <= hi /\ hi <= Len(s) => Bytes(s \o t, lo, hi) = Bytes(s, lo, hi)
  BY PieceBefore
<1>4. Bytes(s \o t, Len(s), Len(s \o t)) = t
  BY <1>2, LastPiece
<1>5. Behind(u, s, t) /\ u \in Seq(Nat)
  BY <1>1, <1>2, <1>3, <1>4 DEF Behind
<1> QED
  BY ONLY <1>5

(* Seven pieces, one after the other, e bytes in all.                      *)
LaidOut(w, e, v, p, m, c, h, b, n) ==
  /\ w = v \o p \o m \o c \o h \o b \o n /\ Len(w) = e /\ e = Len(p) + Len(m) + 24
  /\ Bytes(w, 0, 4) = v
  /\ Bytes(w, 4, 4 + Len(p)) = p
  /\ Bytes(w, 4 + Len(p), e - 20) = m
  /\ Bytes(w, e - 20, e - 16) = c
  /\ Bytes(w, e - 16, e - 12) = h
  /\ Bytes(w, e - 12, e - 8) = b
  /\ Bytes(w, e - 8, e) = n

(* Seven pieces of the lengths of a header are found at the offsets of     *)
(* DeserializeBlock, the last five of which count from the end of the      *)
(* packet.                                                                 *)
LEMMA SevenPieces ==
  ASSUME NEW v \in Seq(Nat), NEW p \in Seq(Nat), NEW m \in Seq(Nat), NEW c \in Seq(Nat),
         NEW h \in Seq(Nat), NEW b \in Seq(Nat), NEW n \in Seq(Nat),
         Len(v) = 4, Len(c) = 4, Len(h) = 4, Len(b) = 4, Len(n) = 8
  PROVE  \E w \in Seq(Nat), e \in Nat : LaidOut(w, e, v, p, m, c, h, b, n)
<1>l. Len(p) \in Nat /\ Len(m) \in Nat
  OBVIOUS
<1> PICK P \in Nat, M \in Nat : P = Len(p) /\ M = Len(m)
  BY <1>l
<1>0. Bytes(v, 0, 4) = v
  BY WholePiece
<1>2. PICK w2 \in Seq(Nat) : Behind(w2, v, p)
  BY BehindIs
<1>3. PICK w3 \in Seq(Nat) : Behind(w3, w2, m)
  BY BehindIs
<1>4. PICK w4 \in Seq(Nat) : Behind(w4, w3, c)
  BY BehindIs
<1>5. PICK w5 \in Seq(Nat) : Behind(w5, w4, h)
  BY BehindIs
<1>6. PICK w6 \in Seq(Nat) : Behind(w6, w5, b)
  BY BehindIs
<1>7. PICK w \in Seq(Nat) : Behind(w, w6, n)
  BY BehindIs
<1>8. \E e2, e3, e4, e5, e6, e \in Nat :
        e2 = 4 + P /\ e3 = e2 + M /\ e4 = e3 + 4 /\ e5 = e4 + 4 /\ e6 = e5 + 4 /\ e = e6 + 8
  <2>1. \E e2 \in Nat : e2 = 4 + P
    BY ONLY P \in Nat
  <2> PICK e2 \in Nat : e2 = 4 + P
    BY ONLY <2>1
  <2>2. \E e3 \in Nat : e3 = e2 + M
    BY ONLY M \in Nat, e2 \in Nat
  <2> PICK e3 \in Nat : e3 = e2 + M
    BY ONLY <2>2
  <2>3. \E e4 \in Nat : e4 = e3 + 4
    BY ONLY e3 \in Nat
  <2> PICK e4 \in Nat : e4 = e3 + 4
    BY ONLY <2>3
  <2>4. \E e5 \in Nat : e5 = e4 + 4
    BY ONLY e4 \in Nat
  <2> PICK e5 \in Nat : e5 = e4 + 4
    BY ONLY <2>4
  <2>5. \E e6 \in Nat : e6 = e5 + 4
    BY ONLY e5 \in Nat
  <2> PICK e6 \in Nat : e6 = e5 + 4
    BY ONLY <2>5
  <2>6. \E e \in Nat : e = e6 + 8
    BY ONLY e6 \in Nat
  <2> QED
    BY ONLY <2>6, e2 = 4 + P, e3 = e2 + M, e4 = e3 + 4, e5 = e4 + 4, e6 = e5 + 4,
            e2 \in Nat, e3 \in Nat, e4 \in Nat, e5 \in Nat, e6 \in Nat
<1> PICK e2 \in Nat, e3 \in Nat, e4 \in Nat, e5 \in Nat, e6 \in Nat, e \in Nat :
      e2 = 4 + P /\ e3 = e2 + M /\ e4 = e3 + 4 /\ e5 = e4 + 4 /\ e6 = e5 + 4 /\ e = e6 + 8
  BY ONLY <1>8
<1>12. /\ Len(w2) = e2 /\ Bytes(w2, 4, e2) = p
       /\ \A lo, hi \in Nat : lo <= hi /\ hi <= 4 => Bytes(w2, lo, hi) = Bytes(v, lo, hi)
  BY <1>2 DEF Behind
<1>13. /\ Len(w3) = e3 /\ Bytes(w3, e2, e3) = m
       /\ \A lo, hi \in Nat : lo <= hi /\ hi <= e2 => Bytes(w3, lo, hi) = Bytes(w2, lo, hi)
  BY <1>3, <1>12 DEF Behind
<1>14. /\ Len(w4) = e4 /\ Bytes(w4, e3, e4) = c
       /\ \A lo, hi \in Nat : lo <= hi /\ hi <= e3 => Bytes(w4, lo, hi) = Bytes(w3, lo, hi)
  BY <1>4, <1>13 DEF Behind
<1>15. /\ Len(w5) = e5 /\ Bytes(w5, e4, e5) = h
       /\ \A lo, hi \in Nat : lo <= hi /\ hi <= e4 => Bytes(w5, lo, hi) = Bytes(w4, lo, hi)
  BY <1>5, <1>14 DEF Behind
<1>16. /\ Len(w6) = e6 /\ Bytes(w6, e5, e6) = b
       /\ \A lo, hi \in Nat : lo <= hi /\ hi <= e5 => Bytes(w6, lo, hi) = Bytes(w5, lo, hi)
  BY <1>6, <1>15 DEF Behind
<1>17. /\ Len(w) = e /\ Bytes(w, e6, e) = n
       /\ \A lo, hi \in Nat : lo <= hi /\ hi <= e6 => Bytes(w, lo, hi) = Bytes(w6, lo, hi)
  BY <1>7, <1>16 DEF Behind
<1>20. w = v \o p \o m \o c \o h \o b \o n
  BY <1>2, <1>3, <1>4, <1>5, <1>6, <1>7 DEF Behind
<1>21. /\ e = P + M + 24 /\ e - 20 = e3 /\ e - 16 = e4 /\ e - 12 = e5 /\ e - 8 = e6 /\ 4 + P = e2
       /\ 4 <= e2 /\ e2 <= e3 /\ e3 <= e4 /\ e4 <= e5 /\ e5 <= e6
  BY ONLY P \in Nat, M \in Nat, e2 \in Nat, e3 \in Nat, e4 \in Nat, e5 \in Nat, e6 \in Nat,
          e \in Nat, e2 = 4 + P, e3 = e2 + M, e4 = e3 + 4, e5 = e4 + 4, e6 = e5 + 4, e = e6 + 8
<1> DEFINE Within == /\ e2 \in Nat /\ e3 \in Nat /\ e4 \in Nat /\ e5 \in Nat /\ e6 \in Nat
                     /\ 4 <= e2 /\ e2 <= e3 /\ e3 <= e4 /\ e4 <= e5 /\ e5 <= e6
<1>22. Within
  BY ONLY <1>21, e2 \in Nat, e3 \in Nat, e4 \in Nat, e5 \in Nat, e6 \in Nat
<1>23. /\ Bytes(w, 0, 4) = v /\ Bytes(w, 4, e2) = p /\ Bytes(w, e2, e3) = m
       /\ Bytes(w, e3, e4) = c /\ Bytes(w, e4, e5) = h /\ Bytes(w, e5, e6) = b
  <2>1. Bytes(w2, 0, 4) = v
    BY ONLY <1>0, <1>12
  <2>2. Bytes(w3, 0, 4) = v /\ Bytes(w3, 4, e2) = p
    BY ONLY <2>1, <1>12, <1>13, <1>22
  <2>3. Bytes(w4, 0, 4) = v /\ Bytes(w4, 4, e2) = p /\ Bytes(w4, e2, e3) = m
    BY ONLY <2>2, <1>13, <1>14, <1>22
  <2>4. /\ Bytes(w5, 0, 4) = v /\ Bytes(w5, 4, e2) = p /\ Bytes(w5, e2, e3) = m
        /\ Bytes(w5, e3, e4) = c
    BY ONLY <2>3, <1>14, <1>15, <1>22
  <2>5. /\ Bytes(w6, 0, 4) = v /\ Bytes(w6, 4, e2) = p /\ Bytes(w6, e2, e3) = m
        /\ Bytes(w6, e3, e4) = c /\ Bytes(w6, e4, e5) = h
    BY ONLY <2>4, <1>15, <1>16, <1>22
  <2> QED
    BY ONLY <2>5, <1>16, <1>17, <1>22
<1>24. P = Len(p) /\ M = Len(m)
  OBVIOUS
<1> QED
  BY ONLY w \in Seq(Nat), e \in Nat, <1>17, <1>20, <1>21, <1>23, <1>24 DEF LaidOut

(* LLP::DeserializeBlock reads the header that the pool wrote, and nothing *)
(* of the garbage in the block it fills is left.                           *)
LEMMA WireReadsBack ==
  ASSUME NEW block \in BlockRecords, NEW garbage
  PROVE  /\ Wire(block) \in Seq(Nat)
         /\ DeserializeBlock(Wire(block), NewCBlock(garbage)) = block
<1>1. PICK v \in Seq(Nat), p \in Seq(Nat), m \in Seq(Nat), c \in Seq(Nat),
           h \in Seq(Nat), b \in Seq(Nat), n \in Seq(Nat) : Pieces(block, v, p, m, c, h, b, n)
  BY PiecesReadBack
<1>p. Len(v) = 4 /\ Len(c) = 4 /\ Len(h) = 4 /\ Len(b) = 4 /\ Len(n) = 8
  BY <1>1 DEF Pieces
<1>2. PICK w \in Seq(Nat), e \in Nat : LaidOut(w, e, v, p, m, c, h, b, n)
  BY <1>p, SevenPieces
<1>3. Wire(block) = w
  BY <1>1, <1>2 DEF Wire, Pieces, LaidOut
<1>e. PICK P \in Nat, M \in Nat : P = Len(p) /\ M = Len(m) /\ P = 4 * PrevWidth
  <2>1. Len(p) \in Nat /\ Len(m) \in Nat
    OBVIOUS
  <2>2. Len(p) = 4 * PrevWidth
    BY <1>1 DEF Pieces
  <2> QED
    BY <2>1, <2>2
<1>l. /\ Len(w) = e /\ e = P + M + 24
      /\ Bytes(w, 0, 4) = v
      /\ Bytes(w, 4, 4 + P) = p
      /\ Bytes(w, 4 + P, e - 20) = m
      /\ Bytes(w, e - 20, e - 16) = c
      /\ Bytes(w, e - 16, e - 12) = h
      /\ Bytes(w, e - 12, e - 8) = b
      /\ Bytes(w, e - 8, e) = n
  BY <1>2, <1>e DEF LaidOut
<1>4. bytes2uint(w, 0) = block.version
  <2>1. w[1] = v[1] /\ w[2] = v[2] /\ w[3] = v[3] /\ w[4] = v[4]
    <3>1. Len(w) >= 4
      BY <1>l
    <3>2. \A i \in 1 .. 4 : SubSeq(w, 1, 4)[i] = w[i]
      BY ONLY <3>1, w \in Seq(Nat)
    <3>3. SubSeq(w, 1, 4) = v
      BY <1>l DEF Bytes
    <3> QED
      BY ONLY <3>2, <3>3, SMTT(30)
  <2>2. 0 + 1 = 1 /\ 0 + 2 = 2 /\ 0 + 3 = 3 /\ 0 + 4 = 4
    OBVIOUS
  <2>3. bytes2uint(v, 0) = block.version
    BY <1>1 DEF Pieces
  <2> QED
    BY ONLY <2>1, <2>2, <2>3 DEF bytes2uint, FourBytes
<1>5. w # <<>>
  <2>1. Len(w) # 0
    BY ONLY <1>l, P \in Nat, M \in Nat
  <2> QED
    BY ONLY <2>1, w \in Seq(Nat)
<1>6. e - 20 + 4 = e - 16 /\ e - 16 + 4 = e - 12 /\ e - 12 + 4 = e - 8
  OBVIOUS
<1>r. /\ SetBytes(p, PrevWidth) = block.prev /\ SetBytes(m, MerkleWidth) = block.merkle
      /\ bytes2uint(c, 0) = block.channel /\ bytes2uint(h, 0) = block.height
      /\ bytes2uint(b, 0) = block.bits /\ bytes2uint64(n) = block.nonce
  BY <1>1 DEF Pieces
<1>7. DeserializeBlock(w, NewCBlock(garbage)) =
        [NewCBlock(garbage) EXCEPT !.version = block.version, !.prev = block.prev,
           !.merkle = block.merkle, !.channel = block.channel, !.height = block.height,
           !.bits = block.bits, !.nonce = block.nonce]
  BY ONLY <1>r, <1>l, <1>4, <1>5, <1>6, <1>e DEF DeserializeBlock
<1>8. block = [version |-> block.version, prev |-> block.prev, merkle |-> block.merkle,
               channel |-> block.channel, height |-> block.height, bits |-> block.bits,
               nonce |-> block.nonce]
  BY DEF BlockRecords
<1>9. DeserializeBlock(w, NewCBlock(garbage)) = block
  BY ONLY <1>7, <1>8 DEF NewCBlock
<1> QED
  BY <1>3, <1>9

-----------------------------------------------------------------------------
-----------------------------------------------------------------------------
(* The packet under way holds the bits and the header that the pool sent;  *)
(* behind the read the block is that header; a share is the header with    *)
(* another nonce, written as SUBMIT_SHARE writes it.                       *)
CodecInv ==
  /\ coPhase \in {"pool", "read", "client", "submit"}
  /\ coPhase # "pool" => coSent.bits \in WordRange /\ coSent.block \in BlockRecords
  /\ coPhase = "read" => coData = uint2bytes(coSent.bits) \o Wire(coSent.block)
  /\ coPhase = "client" => coBlock = coSent.block /\ coBits = coSent.bits
  /\ coPhase = "submit" =>
       \E n \in [Words(2) -> WordRange] : /\ coBlock = [coSent.block EXCEPT !.nonce = n]
                                     /\ coData = Share(coBlock)

(* What the pool may put into a field are words.                           *)
LEMMA SomeWords == ASSUME NEW w PROVE Some(w) \subseteq [Words(w) -> WordRange] /\ WordValues \subseteq WordRange
BY CodecAssumption DEF Some, WordRange

(* The pool writes the packet CodecInv describes.                          *)
LEMMA PoolSendsBlockInv ==
  ASSUME CodecInv, PoolSendsBlock
  PROVE  CodecInv'
<1>1. PICK v \in WordValues, c \in WordValues, h \in WordValues, b \in WordValues, s \in WordValues,
           p \in Some(PrevWidth), m \in Some(MerkleWidth), n \in Some(2) :
        /\ coSent' = [bits |-> s, block |-> [version |-> v, prev |-> p, merkle |-> m, channel |-> c,
                                             height |-> h, bits |-> b, nonce |-> n]]
        /\ coData' = uint2bytes(s) \o Wire([version |-> v, prev |-> p, merkle |-> m, channel |-> c,
                                             height |-> h, bits |-> b, nonce |-> n])
  BY DEF PoolSendsBlock
<1>2. coSent'.bits \in WordRange /\ coSent'.block \in BlockRecords
      /\ coData' = uint2bytes(coSent'.bits) \o Wire(coSent'.block)
  BY <1>1, SomeWords DEF BlockRecords
<1>3. coPhase' = "read"
  BY DEF PoolSendsBlock
<1> QED
  BY <1>2, <1>3 DEF CodecInv

(* The bits come from the first four bytes and the header from the rest.   *)
LEMMA ReadWorkInv ==
  ASSUME CodecInv, ReadWork
  PROVE  CodecInv'
<1>1. /\ coPhase = "read" /\ coPhase' = "client" /\ coSent' = coSent
      /\ coSent.bits \in WordRange /\ coSent.block \in BlockRecords
      /\ coData = uint2bytes(coSent.bits) \o Wire(coSent.block)
  BY DEF ReadWork, CodecInv
<1>2. PICK garbage \in WordValues :
         coBlock' = DeserializeBlock(Bytes(coData, 4, Len(coData)), NewCBlock(garbage))
  BY DEF ReadWork
<1>3. PICK s \in Seq(Nat), w \in Seq(Nat) :
        /\ s = uint2bytes(coSent.bits) /\ Len(s) = 4 /\ bytes2uint(s, 0) = coSent.bits
        /\ w = Wire(coSent.block) /\ DeserializeBlock(w, NewCBlock(garbage)) = coSent.block
  BY <1>1, Uint2BytesIs, WireReadsBack
<1>4. coData = s \o w /\ Len(coData) = 4 + Len(w) /\ Len(w) \in Nat
  <2>1. Len(s \o w) = Len(s) + Len(w) /\ Len(w) \in Nat
    BY ONLY s \in Seq(Nat), w \in Seq(Nat)
  <2>2. coData = s \o w
    BY <1>1, <1>3
  <2>3. Len(s) = 4
    BY <1>3
  <2> QED
    BY ONLY <2>1, <2>2, <2>3
<1>5. Bytes(coData, 4, Len(coData)) = w
  BY <1>3, <1>4, LastPiece
<1>6. bytes2uint(coData, 0) = coSent.bits
  <2>1. coData[1] = s[1] /\ coData[2] = s[2] /\ coData[3] = s[3] /\ coData[4] = s[4]
    BY <1>3, <1>4
  <2>2. 0 + 1 = 1 /\ 0 + 2 = 2 /\ 0 + 3 = 3 /\ 0 + 4 = 4
    OBVIOUS
  <2> QED
    BY <1>3, <2>1, <2>2 DEF bytes2uint, FourBytes
<1>7. coBlock' = coSent.block /\ coBits' = coSent.bits
  BY <1>2, <1>3, <1>5, <1>6 DEF ReadWork
<1> QED
  BY <1>1, <1>7 DEF CodecInv

(* Only the nonce changes in a share.                                      *)
LEMMA SubmitShareInv ==
  ASSUME CodecInv, SubmitShare
  PROVE  CodecInv'
<1>1. /\ coPhase = "client" /\ coPhase' = "submit" /\ coSent' = coSent /\ coBlock = coSent.block
      /\ coSent.bits \in WordRange /\ coSent.block \in BlockRecords
  BY DEF SubmitShare, CodecInv
<1>2. PICK n \in Some(2) : coBlock' = [coBlock EXCEPT !.nonce = n]
  BY DEF SubmitShare
<1>3. n \in [Words(2) -> WordRange] /\ coBlock' = [coSent'.block EXCEPT !.nonce = n]
      /\ coData' = Share(coBlock')
  BY <1>1, <1>2, SomeWords DEF SubmitShare
<1> QED
  BY <1>1, <1>3 DEF CodecInv

(* CodecInv holds in every reachable state, for every width of the hashes  *)
(* and whatever a byte is.                                                 *)
THEOREM CodecInvariant == CodecSpec => []CodecInv
<1>1. CodecInit => CodecInv
  BY DEF CodecInit, CodecInv
<1>2. CodecInv /\ [CodecNext]_coVars => CodecInv'
  <2>1. CASE UNCHANGED coVars
    BY <2>1 DEF coVars, CodecInv
  <2> QED
    BY <2>1, PoolSendsBlockInv, ReadWorkInv, SubmitShareInv DEF CodecNext
<1> QED
  BY <1>1, <1>2, PTL DEF CodecSpec

(* The block that the client works on is the block the pool sent, field by *)
(* field (ReadPacket and DeserializeBlock).                                *)
THEOREM BlockSurvivesWireHolds == CodecSpec => []BlockSurvivesWire
<1>1. CodecInv => BlockSurvivesWire
  BY DEF CodecInv, BlockSurvivesWire
<1> QED
  BY <1>1, CodecInvariant, PTL

(* The pool finds the merkle root in the first bytes of a share and the    *)
(* nonce in the last eight.                                                *)
LEMMA ShareReadsBack ==
  ASSUME CodecInv
  PROVE  ShareSurvivesWire
<1> SUFFICES ASSUME coPhase = "submit"
             PROVE  /\ Len(coData) = ShareLength
                    /\ SetBytes(Bytes(coData, 0, 4 * MerkleWidth), MerkleWidth) = coSent.block.merkle
                    /\ bytes2uint64(Bytes(coData, 4 * MerkleWidth, ShareLength)) = coBlock.nonce
  BY DEF ShareSurvivesWire
<1>1. coSent.block \in BlockRecords
  BY DEF CodecInv
<1>2. PICK nonce \in [Words(2) -> WordRange] : coBlock = [coSent.block EXCEPT !.nonce = nonce]
                                          /\ coData = Share(coBlock)
  BY DEF CodecInv
<1>3. coBlock.merkle = coSent.block.merkle /\ coBlock.nonce = nonce
      /\ coBlock.merkle \in [Words(MerkleWidth) -> WordRange] /\ MerkleWidth \in Nat
  BY <1>1, <1>2, CodecAssumption DEF BlockRecords
<1>4. PICK m \in Seq(Nat), n \in Seq(Nat), M \in Nat :
        /\ M = 4 * MerkleWidth
        /\ m = GetBytes(coBlock.merkle) /\ Len(m) = M /\ SetBytes(m, MerkleWidth) = coBlock.merkle
        /\ n = uint2bytes64(nonce) /\ Len(n) = 8 /\ bytes2uint64(n) = nonce
  <2>1. 4 * MerkleWidth \in Nat
    BY <1>3
  <2>2. /\ GetBytes(coBlock.merkle) \in Seq(Nat) /\ Len(GetBytes(coBlock.merkle)) = 4 * MerkleWidth
        /\ SetBytes(GetBytes(coBlock.merkle), MerkleWidth) = coBlock.merkle
    BY <1>3, GetBytesIs, SetBytesReads
  <2>3. /\ uint2bytes64(nonce) \in Seq(Nat) /\ Len(uint2bytes64(nonce)) = 8
        /\ bytes2uint64(uint2bytes64(nonce)) = nonce
    BY Uint2Bytes64Is
  <2> QED
    BY <2>1, <2>2, <2>3
<1>5. coData = m \o n
  BY <1>2, <1>3, <1>4 DEF Share
<1>6. PICK u \in Seq(Nat) : Behind(u, m, n)
  BY BehindIs
<1>7. u = coData /\ Len(u) = M + 8 /\ Bytes(u, 0, M) = m /\ Bytes(u, M, M + 8) = n
  <2>1. u = coData
    BY <1>5, <1>6 DEF Behind
  <2>2. Len(u) = M + 8 /\ Bytes(u, M, M + 8) = n /\ Bytes(u, 0, M) = Bytes(m, 0, M)
    BY <1>4, <1>6 DEF Behind
  <2> QED
    BY <2>1, <2>2, <1>4, WholePiece
<1> QED
  BY <1>3, <1>4, <1>7 DEF ShareLength

(* A share carries the merkle root the pool sent and the nonce the board   *)
(* found (SUBMIT_SHARE).                                                   *)
THEOREM ShareSurvivesWireHolds == CodecSpec => []ShareSurvivesWire
BY ShareReadsBack, CodecInvariant, PTL

-----------------------------------------------------------------------------
(* The sizes the proofs speak of.                                          *)
LEMMA SizesAre ==
  /\ WordSize \in Nat \ {0} /\ WIDTH \in Nat /\ WIDTH >= 2 /\ DIGIT \in Nat \ {0}
  /\ DIGIT * WIDTH \in Nat
  /\ WordSize = Power(2, DIGIT)
  /\ Power(WordSize, WIDTH) \in Nat \ {0}
  /\ Power(WordSize, WIDTH) = Power(2, DIGIT * WIDTH)
<1>1. WordSize \in Nat \ {0}
  BY WordSizeType
<1>2. WIDTH \in Nat /\ WIDTH >= 2 /\ DIGIT \in Nat \ {0} /\ WordSize = Power(2, DIGIT)
  BY DigitAssumption
<1>3. DIGIT * WIDTH \in Nat
  BY <1>2
<1>4. Power(WordSize, WIDTH) \in Nat \ {0}
  BY <1>1, <1>2, PowerType
<1>5. Power(Power(2, DIGIT), WIDTH) = Power(2, DIGIT * WIDTH)
  <2>1. 2 \in Nat \ {0} /\ DIGIT \in Nat
    BY <1>2
  <2> QED
    BY <1>2, <2>1, PowerOfPower
<1> QED
  BY <1>1, <1>2, <1>3, <1>4, <1>5

(* An integer of w words.                                                  *)
Integer(w) == [Words(w) -> WordRange]

(* What is known of every integer of w words.                              *)
LEMMA WordsOf ==
  ASSUME NEW w \in Nat, NEW a \in Integer(w)
  PROVE  /\ DOMAIN a = 0..w - 1 /\ a = [i \in 0..w - 1 |-> a[i]]
         /\ \A i \in 0..w - 1 : a[i] \in Nat /\ a[i] < WordSize /\ a[i] \in WordRange
<1>1. a \in [0..w - 1 -> WordRange]
  BY DEF Integer, Words
<1>2. \A x \in WordRange : x \in Nat /\ x < WordSize
  BY SizesAre DEF WordRange
<1> QED
  BY <1>1, <1>2

(* What an integer is worth, and its words as the digits of that.          *)
LEMMA ValueFacts ==
  ASSUME NEW w \in Nat, NEW a \in Integer(w)
  PROVE  /\ Value(a) = Number(WordSize, a, w)
         /\ Digits(WordSize, a, w)
         /\ Value(a) \in Nat /\ Value(a) < Power(WordSize, w)
         /\ \A k \in 0..w - 1 : DigitOf(WordSize, Value(a), k) = a[k]
<1>1. Cardinality(DOMAIN a) = w
  <2>1. DOMAIN a = Words(w)
    BY DEF Integer
  <2> QED
    BY <2>1, WordsSize
<1>2. Value(a) = Number(WordSize, a, w)
  BY <1>1 DEF Value
<1>3. Digits(WordSize, a, w)
  BY DEF Digits, Integer, Words, WordRange
<1>4. Number(WordSize, a, w) \in Nat /\ Number(WordSize, a, w) < Power(WordSize, w)
  BY <1>3, SizesAre, NumberBound
<1>5. \A k \in 0..w - 1 : DigitOf(WordSize, Number(WordSize, a, w), k) = a[k]
  BY <1>3, SizesAre, DigitOfNumber
<1> QED
  BY <1>2, <1>3, <1>4, <1>5

(* An integer with the words of v is worth v.                              *)
LEMMA ValueIs ==
  ASSUME NEW w \in Nat, NEW a \in Integer(w), NEW v \in Nat, v < Power(WordSize, w),
         \A k \in 0..w - 1 : a[k] = DigitOf(WordSize, v, k)
  PROVE  Value(a) = v
<1>1. PICK u \in Nat : u = Value(a)
  BY ValueFacts
<1>2. u < Power(WordSize, w) /\ \A k \in 0..w - 1 : DigitOf(WordSize, u, k) = a[k]
  BY <1>1, ValueFacts
<1>3. \A k \in 0..w - 1 : DigitOf(WordSize, u, k) = DigitOf(WordSize, v, k)
  BY <1>2
<1>4. WordSize \in Nat \ {0}
  BY SizesAre
<1>5. u = v
  BY <1>2, <1>3, <1>4, SameDigits
<1> QED
  BY <1>1, <1>5

(* Of and Value are inverse.                                               *)
LEMMA OfIs ==
  ASSUME NEW w \in Nat, NEW v \in Nat, v < Power(WordSize, w)
  PROVE  Of(v, w) \in Integer(w) /\ Value(Of(v, w)) = v
<1>1. \A k \in 0..w - 1 : DigitOf(WordSize, v, k) \in WordRange
  <2> TAKE k \in 0..w - 1
  <2>1. k \in Nat
    OBVIOUS
  <2> QED
    BY <2>1, DigitType, SizesAre DEF WordRange
<1>2. Of(v, w) \in Integer(w) /\ \A k \in 0..w - 1 : Of(v, w)[k] = DigitOf(WordSize, v, k)
  BY <1>1 DEF Of, Integer, Words
<1> QED
  BY <1>2, ValueIs

(* The words of an integer's value are the integer.                        *)
LEMMA OfValue ==
  ASSUME NEW w \in Nat, NEW a \in Integer(w)
  PROVE  Of(Value(a), w) = a
<1>1. \A k \in 0..w - 1 : DigitOf(WordSize, Value(a), k) = a[k]
  BY ValueFacts
<1> QED
  BY <1>1 DEF Of, Integer, Words

-----------------------------------------------------------------------------
(* ~a, a word at a time.                                                   *)
LEMMA ComplementCounts ==
  ASSUME NEW w \in Nat, NEW a \in Integer(w)
  PROVE  /\ Complement(a) \in Integer(w)
         /\ Value(Complement(a)) = Power(WordSize, w) - 1 - Value(a)
<1> DEFINE b == Complement(a)
           zero == [i \in 0..w - 1 |-> 0]
           one == [i \in 0..w |-> 1]
<1>1. \A i \in 0..w - 1 : a[i] \in Nat /\ a[i] < WordSize /\ b[i] = WordSize - 1 - a[i]
  <2>1. \A i \in DOMAIN a : b[i] = WordSize - 1 - a[i]
    BY DEF Complement
  <2> HIDE DEF b
  <2> QED
    BY <2>1, WordsOf
<1>2. b \in Integer(w) /\ \A i \in 0..w - 1 : b[i] \in Nat
  BY <1>1, SizesAre, SMTT(30) DEF Integer, Words, WordRange, Complement
<1>3. Number(WordSize, a, w) + Number(WordSize, b, w) + 1
        = Number(WordSize, zero, w) + Power(WordSize, w) * 1
  <2>1. \A i \in 0..w - 1 : zero[i] \in Nat /\ zero[i] = 0
    OBVIOUS
  <2>2. \A i \in 0..w : one[i] \in Nat /\ one[i] = 1
    OBVIOUS
  <2>3. \A i \in 0..w - 1 : a[i] + b[i] + one[i] = zero[i] + WordSize * one[i + 1]
    <3> TAKE i \in 0..w - 1
    <3>1. i \in 0..w /\ i + 1 \in 0..w
      OBVIOUS
    <3>2. PICK ai \in Nat : ai = a[i] /\ b[i] = WordSize - 1 - ai
      BY <1>1
    <3>3. ai + (WordSize - 1 - ai) + 1 = 0 + WordSize * 1
      BY SizesAre
    <3> QED
      BY <2>1, <2>2, <3>1, <3>2, <3>3
  <2>4. 0 \in 0..w /\ w \in 0..w
    OBVIOUS
  <2> HIDE DEF zero, one, b
  <2>5. Number(WordSize, a, w) + Number(WordSize, b, w) + one[0]
          = Number(WordSize, zero, w) + Power(WordSize, w) * one[w]
    <3>1. Carry(WordSize, w, a, b, zero, one)
      BY <1>1, <1>2, <2>1, <2>2, <2>3 DEF Carry
    <3> QED
      BY <3>1, SizesAre, Carries
  <2> QED
    BY <2>2, <2>4, <2>5
<1>4. Number(WordSize, zero, w) = 0
  <2>1. \A i \in 0..w - 1 : zero[i] = 0
    OBVIOUS
  <2> QED
    BY <2>1, SizesAre, NumberOfZeros
<1> HIDE DEF b, zero
<1>5. PICK p \in Nat, x \in Nat, y \in Nat :
        p = Power(WordSize, w) /\ x = Value(a) /\ y = Value(b) /\ x + y + 1 = 0 + p * 1
  <2>1. Power(WordSize, w) \in Nat
    BY SizesAre, PowerType
  <2>2. Value(a) \in Nat /\ Value(a) = Number(WordSize, a, w)
    BY ValueFacts
  <2>3. Value(b) \in Nat /\ Value(b) = Number(WordSize, b, w)
    BY <1>2, ValueFacts
  <2> QED
    BY <1>3, <1>4, <2>1, <2>2, <2>3
<1>6. y = p - 1 - x
  BY <1>5
<1> QED
  BY <1>2, <1>5, <1>6 DEF b

(* The remainder of a sum that overflows k times.                          *)
LEMMA Wraps ==
  ASSUME NEW p \in Nat \ {0}, NEW s \in Nat, NEW r \in Nat, NEW k \in Nat, s = r + p * k, r < p
  PROVE  r = s % p
<1>1. p * k = k * p /\ k * p \in Nat
  OBVIOUS
<1>2. s = k * p + r
  BY <1>1
<1> QED
  BY <1>2, QuotientIs

(* ++a: the carry goes through the words that are full.                    *)
LEMMA IncrementIs ==
  ASSUME NEW w \in Nat, NEW a \in Integer(w)
  PROVE  /\ Increment(a) \in Integer(w)
         /\ Value(Increment(a)) = (Value(a) + 1) % Power(WordSize, w)
<1> DEFINE b == Increment(a)
           zero == [i \in 0..w - 1 |-> 0]
           c == [i \in 0..w |-> IF \A j \in 0..w - 1 : j < i => a[j] = WordSize - 1 THEN 1 ELSE 0]
<1>a. DOMAIN a = 0..w - 1 /\ \A i \in 0..w - 1 : a[i] \in Nat /\ a[i] < WordSize
  BY WordsOf
<1>b. b = [i \in 0..w - 1 |-> b[i]]
      /\ \A i \in 0..w - 1 : b[i] = IF \A j \in 0..w - 1 : j < i => a[j] = WordSize - 1
                                    THEN (a[i] + 1) % WordSize ELSE a[i]
  BY <1>a DEF Increment, Reaches
<1>c. /\ \A i \in 0..w : c[i] = IF \A j \in 0..w - 1 : j < i => a[j] = WordSize - 1 THEN 1 ELSE 0
      /\ \A i \in 0..w : c[i] \in Nat
      /\ 0 \in 0..w /\ w \in 0..w
  OBVIOUS
<1>z. \A i \in 0..w - 1 : zero[i] = 0 /\ zero[i] \in Nat
  OBVIOUS
<1> HIDE DEF b, c, zero
<1>1. ASSUME NEW i \in 0..w - 1
      PROVE  b[i] \in 0..WordSize - 1 /\ a[i] + zero[i] + c[i] = b[i] + WordSize * c[i + 1]
  <2>1. PICK x \in Nat : x = a[i] /\ x < WordSize
    BY <1>a
  <2>2. i \in 0..w /\ i + 1 \in 0..w
    OBVIOUS
  <2>3. (\A j \in 0..w - 1 : j < i + 1 => a[j] = WordSize - 1)
          <=> (\A j \in 0..w - 1 : j < i => a[j] = WordSize - 1) /\ a[i] = WordSize - 1
    <3>1. \A j \in 0..w - 1 : j < i + 1 <=> j < i \/ j = i
      OBVIOUS
    <3> QED
      BY <3>1
  <2>4. CASE ~ \A j \in 0..w - 1 : j < i => a[j] = WordSize - 1
    <3>1. c[i] = 0 /\ c[i + 1] = 0 /\ b[i] = x
      BY <2>1, <2>2, <2>3, <2>4, <1>b, <1>c
    <3> QED
      BY <3>1, <2>1, <1>z, SizesAre
  <2>5. CASE (\A j \in 0..w - 1 : j < i => a[j] = WordSize - 1) /\ x # WordSize - 1
    <3>1. c[i] = 1 /\ c[i + 1] = 0 /\ b[i] = (x + 1) % WordSize
      BY <2>1, <2>2, <2>3, <2>5, <1>b, <1>c
    <3>2. x + 1 \in Nat /\ x + 1 < WordSize
      BY <2>1, <2>5, SizesAre
    <3>3. (x + 1) % WordSize = x + 1
      BY <3>2, SizesAre, SmallRemainder
    <3> QED
      BY <3>1, <3>2, <3>3, <2>1, <1>z, SizesAre
  <2>6. CASE (\A j \in 0..w - 1 : j < i => a[j] = WordSize - 1) /\ x = WordSize - 1
    <3>1. c[i] = 1 /\ c[i + 1] = 1 /\ b[i] = (x + 1) % WordSize
      BY <2>1, <2>2, <2>3, <2>6, <1>b, <1>c
    <3>2. x + 1 = WordSize
      BY <2>6, SizesAre
    <3>3. WordSize % WordSize = 0
      BY SizesAre
    <3>4. b[i] = 0
      BY <3>1, <3>2, <3>3
    <3>5. x + 0 + 1 = 0 + WordSize * 1 /\ 0 \in 0..WordSize - 1
      BY <3>2, SizesAre
    <3> QED
      BY <3>1, <3>4, <3>5, <2>1, <1>z
  <2> QED
    BY <2>4, <2>5, <2>6
<1>2. b \in Integer(w)
  BY <1>b, <1>1 DEF Integer, Words, WordRange
<1>3. \A i \in 0..w - 1 : b[i] \in Nat
  BY <1>2, WordsOf
<1>4. Number(WordSize, a, w) + Number(WordSize, zero, w) + c[0]
        = Number(WordSize, b, w) + Power(WordSize, w) * c[w]
  <2>1. Carry(WordSize, w, a, zero, b, c)
    BY <1>a, <1>1, <1>3, <1>c, <1>z DEF Carry
  <2> QED
    BY <2>1, SizesAre, Carries
<1>5. Number(WordSize, zero, w) = 0 /\ c[0] = 1
  <2>1. c[0] = 1
    BY <1>c
  <2> QED
    BY <2>1, <1>z, SizesAre, NumberOfZeros
<1>6. PICK p \in Nat \ {0}, x \in Nat, y \in Nat, k \in Nat :
        p = Power(WordSize, w) /\ x = Value(a) /\ y = Value(b) /\ y < p /\ k = c[w]
        /\ x = Number(WordSize, a, w) /\ y = Number(WordSize, b, w)
  <2>1. Power(WordSize, w) \in Nat \ {0}
    BY SizesAre, PowerType
  <2>2. Value(a) \in Nat /\ Value(a) = Number(WordSize, a, w)
    BY ValueFacts
  <2>3. Value(b) \in Nat /\ Value(b) = Number(WordSize, b, w) /\ Value(b) < Power(WordSize, w)
    BY <1>2, ValueFacts
  <2> QED
    BY <1>c, <2>1, <2>2, <2>3
<1>7. PICK s \in Nat : s = x + 1 /\ s = y + p * k
  <2>1. x + 0 + 1 = y + p * k
    BY <1>4, <1>5, <1>6
  <2> QED
    BY <2>1
<1>8. y = s % p
  BY <1>6, <1>7, Wraps
<1> QED
  BY <1>2, <1>6, <1>7, <1>8 DEF b

(* --a: the borrow goes through the words that are zero.                   *)
LEMMA DecrementIs ==
  ASSUME NEW w \in Nat, NEW a \in Integer(w)
  PROVE  /\ Decrement(a) \in Integer(w)
         /\ Value(Decrement(a)) = (Value(a) + Power(WordSize, w) - 1) % Power(WordSize, w)
<1> DEFINE b == Decrement(a)
           zero == [i \in 0..w - 1 |-> 0]
           c == [i \in 0..w |-> IF \A j \in 0..w - 1 : j < i => a[j] = 0 THEN 1 ELSE 0]
<1>a. DOMAIN a = 0..w - 1 /\ \A i \in 0..w - 1 : a[i] \in Nat /\ a[i] < WordSize
  BY WordsOf
<1>b. b = [i \in 0..w - 1 |-> b[i]]
      /\ \A i \in 0..w - 1 : b[i] = IF \A j \in 0..w - 1 : j < i => a[j] = 0
                                    THEN (a[i] - 1) % WordSize ELSE a[i]
  BY <1>a DEF Decrement, Reaches
<1>c. /\ \A i \in 0..w : c[i] = IF \A j \in 0..w - 1 : j < i => a[j] = 0 THEN 1 ELSE 0
      /\ \A i \in 0..w : c[i] \in 0..1
      /\ 0 \in 0..w /\ w \in 0..w
  OBVIOUS
<1>z. \A i \in 0..w - 1 : zero[i] = 0 /\ zero[i] \in Nat
  OBVIOUS
<1> HIDE DEF b, c, zero
<1>1. ASSUME NEW i \in 0..w - 1
      PROVE  b[i] \in 0..WordSize - 1 /\ b[i] + zero[i] + c[i] = a[i] + WordSize * c[i + 1]
  <2>1. PICK x \in Nat : x = a[i] /\ x < WordSize
    BY <1>a
  <2>2. i \in 0..w /\ i + 1 \in 0..w
    OBVIOUS
  <2>3. (\A j \in 0..w - 1 : j < i + 1 => a[j] = 0)
          <=> (\A j \in 0..w - 1 : j < i => a[j] = 0) /\ a[i] = 0
    <3>1. \A j \in 0..w - 1 : j < i + 1 <=> j < i \/ j = i
      OBVIOUS
    <3> QED
      BY <3>1
  <2>4. CASE ~ \A j \in 0..w - 1 : j < i => a[j] = 0
    <3>1. c[i] = 0 /\ c[i + 1] = 0 /\ b[i] = x
      BY <2>1, <2>2, <2>3, <2>4, <1>b, <1>c
    <3> QED
      BY <3>1, <2>1, <1>z, SizesAre
  <2>5. CASE (\A j \in 0..w - 1 : j < i => a[j] = 0) /\ x # 0
    <3>1. c[i] = 1 /\ c[i + 1] = 0 /\ b[i] = (x - 1) % WordSize
      BY <2>1, <2>2, <2>3, <2>5, <1>b, <1>c
    <3>2. x - 1 \in Nat /\ x - 1 < WordSize
      BY <2>1, <2>5, SizesAre
    <3>3. (x - 1) % WordSize = x - 1
      BY <3>2, SizesAre, SmallRemainder
    <3> QED
      BY <3>1, <3>2, <3>3, <2>1, <1>z, SizesAre
  <2>6. CASE (\A j \in 0..w - 1 : j < i => a[j] = 0) /\ x = 0
    <3>1. c[i] = 1 /\ c[i + 1] = 1 /\ b[i] = (0 - 1) % WordSize
      BY <2>1, <2>2, <2>3, <2>6, <1>b, <1>c
    <3>3. (0 - 1) % WordSize = WordSize - 1
      BY SizesAre
    <3> QED
      BY <3>1, <3>3, <2>1, <2>6, <1>z, SizesAre
  <2> QED
    BY <2>4, <2>5, <2>6
<1>2. b \in Integer(w)
  BY <1>b, <1>1 DEF Integer, Words, WordRange
<1>3. \A i \in 0..w - 1 : b[i] \in Nat
  BY <1>2, WordsOf
<1>4. Number(WordSize, b, w) + Number(WordSize, zero, w) + c[0]
        = Number(WordSize, a, w) + Power(WordSize, w) * c[w]
  <2>1. \A i \in 0..w : c[i] \in Nat
    BY <1>c
  <2>2. Carry(WordSize, w, b, zero, a, c)
    BY <1>a, <1>1, <1>3, <2>1, <1>z DEF Carry
  <2> QED
    BY <2>2, SizesAre, Carries
<1>5. Number(WordSize, zero, w) = 0 /\ c[0] = 1
  <2>1. c[0] = 1
    BY <1>c
  <2> QED
    BY <2>1, <1>z, SizesAre, NumberOfZeros
<1>6. PICK p \in Nat \ {0}, x \in Nat, y \in Nat, k \in 0..1 :
        p = Power(WordSize, w) /\ x = Value(a) /\ y = Value(b) /\ y < p /\ k = c[w]
        /\ x = Number(WordSize, a, w) /\ y = Number(WordSize, b, w)
  <2>1. Power(WordSize, w) \in Nat \ {0}
    BY SizesAre, PowerType
  <2>2. Value(a) \in Nat /\ Value(a) = Number(WordSize, a, w)
    BY ValueFacts
  <2>3. Value(b) \in Nat /\ Value(b) = Number(WordSize, b, w) /\ Value(b) < Power(WordSize, w)
    BY <1>2, ValueFacts
  <2> QED
    BY <1>c, <2>1, <2>2, <2>3
<1>7. PICK s \in Nat, l \in Nat : s = x + p - 1 /\ l = 1 - k /\ s = y + p * l
  <2>1. y + 0 + 1 = x + p * k
    BY <1>4, <1>5, <1>6
  <2>2. CASE k = 0
    BY <2>1, <2>2
  <2>3. CASE k = 1
    BY <2>1, <2>3
  <2> QED
    BY <2>2, <2>3
<1>8. y = s % p
  BY <1>6, <1>7, Wraps
<1> QED
  BY <1>2, <1>6, <1>7, <1>8 DEF b

(* -a is ~a and one.                                                       *)
LEMMA NegativeIs ==
  ASSUME NEW w \in Nat, NEW a \in Integer(w)
  PROVE  /\ Negative(a) \in Integer(w)
         /\ Value(Negative(a)) = (Power(WordSize, w) - Value(a)) % Power(WordSize, w)
<1>1. Complement(a) \in Integer(w) /\ Value(Complement(a)) = Power(WordSize, w) - 1 - Value(a)
  BY ComplementCounts
<1>2. PICK p \in Nat \ {0}, x \in Nat : p = Power(WordSize, w) /\ x = Value(a)
  BY SizesAre, PowerType, ValueFacts
<1>3. p - 1 - x + 1 = p - x
  OBVIOUS
<1> QED
  BY <1>1, <1>2, <1>3, IncrementIs DEF Negative

(* The carries of an addition.                                             *)
LEMMA PlusCarries ==
  ASSUME NEW w \in Nat, NEW a \in Integer(w), NEW b \in Integer(w)
  PROVE  \E c \in [0..w -> Nat] :
            /\ c[0] = 0
            /\ \A i \in 0..w - 1 : c[i + 1] = (c[i] + a[i] + b[i]) \div WordSize
            /\ Plus(a, b) = [i \in 0..w - 1 |-> (c[i] + a[i] + b[i]) % WordSize]
<1>a. /\ \A i \in 0..w - 1 : a[i] \in Nat /\ b[i] \in Nat
      /\ DOMAIN a = 0..w - 1 /\ Cardinality(DOMAIN a) = w
  <2>1. DOMAIN a = 0..w - 1 /\ DOMAIN a = Words(w)
    BY WordsOf DEF Words
  <2> QED
    BY <2>1, WordsOf, WordsSize
<1> DEFINE step == [i \in Nat |-> [v \in Nat |->
                      IF i \in 1..w THEN (v + a[i - 1] + b[i - 1]) \div WordSize ELSE v]]
<1>1. step \in [Nat -> [Nat -> Nat]]
  <2>1. ASSUME NEW i \in Nat, NEW v \in Nat, i \in 1..w
        PROVE  (v + a[i - 1] + b[i - 1]) \div WordSize \in Nat
    <3>1. i - 1 \in 0..w - 1
      BY <2>1
    <3>2. PICK s \in Nat : s = v + a[i - 1] + b[i - 1]
      BY <3>1, <1>a
    <3>3. s \div WordSize \in Nat
      BY SizesAre
    <3> QED
      BY <3>2, <3>3
  <2> QED
    BY <2>1
<1>2. \A i \in 1..w, v \in Nat : step[i][v] = (v + a[i - 1] + b[i - 1]) \div WordSize
  OBVIOUS
<1> HIDE DEF step
<1>3. PICK f : Iterates(f, Nat, 0, step, w)
  <2>1. 0 \in Nat
    OBVIOUS
  <2> QED
    BY <2>1, <1>1, RecursionUpTo
<1>4. f \in [0..w -> Nat] /\ f[0] = 0
  BY <1>3 DEF Iterates
<1>5. \A i \in 1..w : f[i] = (f[i - 1] + a[i - 1] + b[i - 1]) \div WordSize
  <2> TAKE i \in 1..w
  <2>1. f[i] = step[i][f[i - 1]]
    BY <1>3 DEF Iterates
  <2>2. i - 1 \in 0..w
    OBVIOUS
  <2> QED
    BY <1>2, <1>4, <2>1, <2>2
<1>6. f = [i \in 0..Cardinality(DOMAIN a) |->
             IF i = 0 THEN 0 ELSE (f[i - 1] + a[i - 1] + b[i - 1]) \div WordSize]
  <2>1. f = [i \in 0..w |-> IF i = 0 THEN 0 ELSE (f[i - 1] + a[i - 1] + b[i - 1]) \div WordSize]
    BY <1>4, <1>5
  <2> QED
    BY ONLY <2>1, <1>a
<1> DEFINE P == CHOOSE p : p = [i \in 0..Cardinality(DOMAIN a) |->
                  IF i = 0 THEN 0 ELSE (p[i - 1] + a[i - 1] + b[i - 1]) \div WordSize]
<1>p. P = [i \in 0..Cardinality(DOMAIN a) |->
             IF i = 0 THEN 0 ELSE (P[i - 1] + a[i - 1] + b[i - 1]) \div WordSize]
  BY ONLY <1>6, Zenon
<1>q. Plus(a, b) = [i \in DOMAIN a |-> (P[i] + a[i] + b[i]) % WordSize]
  BY DEF Plus
<1> HIDE DEF P
<1>7. P = [i \in 0..w |-> IF i = 0 THEN 0 ELSE (P[i - 1] + a[i - 1] + b[i - 1]) \div WordSize]
  BY ONLY <1>p, <1>a
<1>8. Plus(a, b) = [i \in 0..w - 1 |-> (P[i] + a[i] + b[i]) % WordSize]
  BY ONLY <1>q, <1>a
<1>9. P = [i \in 0..w |-> P[i]] /\ P[0] = 0
      /\ \A i \in 1..w : P[i] = (P[i - 1] + a[i - 1] + b[i - 1]) \div WordSize
  <2>1. ASSUME NEW i \in 0..w
        PROVE  P[i] = IF i = 0 THEN 0 ELSE (P[i - 1] + a[i - 1] + b[i - 1]) \div WordSize
    BY ONLY <1>7, Zenon, i \in 0..w
  <2>2. 0 \in 0..w /\ \A i \in 1..w : i \in 0..w /\ i # 0
    OBVIOUS
  <2>3. P = [i \in 0..w |-> P[i]]
    BY ONLY <1>7, <2>1, Zenon
  <2> QED
    BY ONLY <2>1, <2>2, <2>3, Zenon
<1>10. Iterates(P, Nat, 0, step, w)
  <2>1. \A i \in 1..w : P[i - 1] \in Nat => P[i] = step[i][P[i - 1]]
    BY <1>9, <1>2
  <2>2. Takes(P, Nat, 0, step, w)
    BY ONLY <2>1, <1>9, Zenon DEF Takes
  <2>3. 0 \in Nat
    OBVIOUS
  <2> QED
    BY <2>2, <2>3, <1>1, StepsAre
<1>11. P \in [0..w -> Nat]
  BY <1>10 DEF Iterates
<1>12. \A i \in 0..w - 1 : P[i + 1] = (P[i] + a[i] + b[i]) \div WordSize
  <2> TAKE i \in 0..w - 1
  <2>1. PICK j \in 1..w : j = i + 1 /\ j - 1 = i
    OBVIOUS
  <2>2. P[j] = (P[j - 1] + a[j - 1] + b[j - 1]) \div WordSize
    BY ONLY <1>9, j \in 1..w
  <2> QED
    BY ONLY <2>1, <2>2
<1> QED
  BY <1>8, <1>9, <1>11, <1>12

(* a + b: the carry of a word goes to the next one.                        *)
LEMMA PlusIs ==
  ASSUME NEW w \in Nat, NEW a \in Integer(w), NEW b \in Integer(w)
  PROVE  /\ Plus(a, b) \in Integer(w)
         /\ Value(Plus(a, b)) = (Value(a) + Value(b)) % Power(WordSize, w)
<1>1. PICK c \in [0..w -> Nat] :
            /\ c[0] = 0
            /\ \A i \in 0..w - 1 : c[i + 1] = (c[i] + a[i] + b[i]) \div WordSize
            /\ Plus(a, b) = [i \in 0..w - 1 |-> (c[i] + a[i] + b[i]) % WordSize]
  BY PlusCarries
<1>a. \A i \in 0..w - 1 : a[i] \in Nat /\ b[i] \in Nat
  BY WordsOf
<1>s. PICK s : s = Plus(a, b)
  OBVIOUS
<1>2. ASSUME NEW i \in 0..w - 1
      PROVE  s[i] \in 0..WordSize - 1 /\ a[i] + b[i] + c[i] = s[i] + WordSize * c[i + 1]
  <2>1. PICK x \in Nat, y \in Nat, z \in Nat, n \in Nat :
          x = a[i] /\ y = b[i] /\ z = c[i] /\ n = c[i + 1]
    <3>1. i \in 0..w /\ i + 1 \in 0..w
      OBVIOUS
    <3> QED
      BY <3>1, <1>1, <1>a
  <2>2. PICK t \in Nat : t = z + x + y /\ t = x + y + z
    OBVIOUS
  <2>3. PICK q \in Nat, r \in Nat : q = t \div WordSize /\ r = t % WordSize /\ r < WordSize /\ t = WordSize * q + r
    BY SizesAre, Division
  <2>4. s[i] = r /\ n = q
    BY <1>1, <1>s, <2>1, <2>2, <2>3
  <2>5. WordSize * q \in Nat
    BY SizesAre
  <2>6. r \in 0..WordSize - 1
    BY <2>3, SizesAre
  <2> QED
    BY <2>1, <2>2, <2>3, <2>4, <2>5, <2>6
<1>3. s \in Integer(w)
  BY <1>1, <1>s, <1>2 DEF Integer, Words, WordRange
<1>4. \A i \in 0..w - 1 : s[i] \in Nat
  BY <1>3, WordsOf
<1>5. Number(WordSize, a, w) + Number(WordSize, b, w) + c[0]
        = Number(WordSize, s, w) + Power(WordSize, w) * c[w]
  <2>1. \A i \in 0..w : c[i] \in Nat
    OBVIOUS
  <2>2. Carry(WordSize, w, a, b, s, c)
    BY <1>a, <1>2, <1>4, <2>1 DEF Carry
  <2> QED
    BY <2>2, SizesAre, Carries
<1>6. PICK p \in Nat \ {0}, x \in Nat, y \in Nat, z \in Nat, k \in Nat :
        p = Power(WordSize, w) /\ x = Value(a) /\ y = Value(b) /\ z = Value(s) /\ z < p /\ k = c[w]
        /\ x = Number(WordSize, a, w) /\ y = Number(WordSize, b, w) /\ z = Number(WordSize, s, w)
  <2>1. Power(WordSize, w) \in Nat \ {0} /\ c[w] \in Nat
    <3>1. w \in 0..w
      OBVIOUS
    <3>2. c[w] \in Nat
      BY ONLY <3>1, c \in [0..w -> Nat]
    <3> QED
      BY <3>2, SizesAre, PowerType
  <2>2. Value(a) \in Nat /\ Value(a) = Number(WordSize, a, w)
    BY ValueFacts
  <2>3. Value(b) \in Nat /\ Value(b) = Number(WordSize, b, w)
    BY ValueFacts
  <2>4. Value(s) \in Nat /\ Value(s) = Number(WordSize, s, w) /\ Value(s) < Power(WordSize, w)
    BY <1>3, ValueFacts
  <2> QED
    BY <2>1, <2>2, <2>3, <2>4
<1>7. PICK t \in Nat : t = x + y /\ t = z + p * k
  <2>1. x + y + 0 = z + p * k
    BY <1>1, <1>5, <1>6
  <2> QED
    BY <2>1
<1>8. z = t % p
  BY <1>6, <1>7, Wraps
<1> QED
  BY <1>3, <1>6, <1>7, <1>8, <1>s

(* a - b is a + -b.                                                        *)
LEMMA MinusIs ==
  ASSUME NEW w \in Nat, NEW a \in Integer(w), NEW b \in Integer(w)
  PROVE  /\ Plus(a, Negative(b)) \in Integer(w)
         /\ Value(Plus(a, Negative(b))) = (Value(a) + Power(WordSize, w) - Value(b)) % Power(WordSize, w)
<1>1. PICK p \in Nat \ {0}, x \in Nat, y \in Nat :
        p = Power(WordSize, w) /\ x = Value(a) /\ y = Value(b) /\ y < p
  BY SizesAre, PowerType, ValueFacts
<1>2. PICK m \in Nat : m = p - y
  BY <1>1
<1>3. PICK q \in Nat, r \in Nat : r = m % p /\ m = p * q + r
  BY Division
<1>4. Negative(b) \in Integer(w) /\ Value(Negative(b)) = r
  BY <1>1, <1>2, <1>3, NegativeIs
<1>5. Plus(a, Negative(b)) \in Integer(w) /\ Value(Plus(a, Negative(b))) = (x + r) % p
  BY <1>1, <1>4, PlusIs
<1>6. PICK t \in Nat, u \in Nat : t = x + r /\ u = x + p - y /\ u = p * q + t
  <2>1. PICK pq \in Nat : pq = p * q
    OBVIOUS
  <2>2. x + p - y = x + m /\ x + m = pq + (x + r) /\ x + m \in Nat /\ x + r \in Nat
    BY <1>2, <1>3, <2>1
  <2> QED
    BY ONLY <2>1, <2>2
<1>7. (p * q + t) % p = t % p
  BY DropMultiple
<1> QED
  BY <1>1, <1>5, <1>6, <1>7

-----------------------------------------------------------------------------
(* Digits of a number that is multiplied, divided or cut by a power.       *)
LEMMA DigitsMoveUp ==
  ASSUME NEW B \in Nat \ {0}, NEW u \in Nat, NEW s \in Nat, NEW k \in Nat
  PROVE  DigitOf(B, u * Power(B, s), k) = IF k < s THEN 0 ELSE DigitOf(B, u, k - s)
<1>s. PICK S \in Nat \ {0} : S = Power(B, s)
  BY PowerType
<1>u. PICK uS \in Nat : uS = u * S
  OBVIOUS
<1>1. CASE k < s
  <2>1. PICK g \in Nat : s = k + (g + 1)
    <3>1. s - k - 1 \in Nat /\ s = k + ((s - k - 1) + 1)
      BY <1>1
    <3> QED
      BY <3>1
  <2>2. PICK K \in Nat \ {0}, Z \in Nat \ {0} : K = Power(B, k) /\ Z = Power(B, g)
    BY PowerType
  <2>3. S = K * (B * Z)
    <3>1. PICK h \in Nat : h = g + 1
      OBVIOUS
    <3>2. Power(B, h) = B * Z
      BY <3>1, <2>2, PowerSteps
    <3>3. Power(B, k + h) = K * Power(B, h)
      BY <2>2, PowerAdd
    <3> QED
      BY <3>1, <3>2, <3>3, <2>1, <1>s
  <2>4. PICK z \in Nat : z = Z * u
    OBVIOUS
  <2>5. PICK q \in Nat : q = B * z
    OBVIOUS
  <2>6. uS = q * K + 0
    <3>1. u * (K * (B * Z)) = (B * (Z * u)) * K
      BY ONLY u \in Nat, K \in Nat, B \in Nat, Z \in Nat
    <3>2. q * K + 0 = q * K
      OBVIOUS
    <3> QED
      BY <3>1, <3>2, <2>3, <2>4, <2>5, <1>u
  <2>7. uS \div K = q
    <3>1. 0 \in Nat /\ 0 < K
      OBVIOUS
    <3> QED
      BY <2>6, <3>1, QuotientIs
  <2>8. q % B = 0
    <3>1. (B * z + 0) % B = 0 % B
      <4>1. 0 \in Nat
        OBVIOUS
      <4> QED
        BY <4>1, DropMultiple
    <3>2. 0 % B = 0 /\ B * z + 0 = q
      BY <2>5
    <3> QED
      BY <3>1, <3>2
  <2>9. DigitOf(B, uS, k) = 0
    BY <2>2, <2>7, <2>8 DEF DigitOf
  <2> QED
    BY <2>9, <1>1, <1>s, <1>u
<1>2. CASE ~ (k < s)
  <2>1. PICK g \in Nat : k = s + g /\ g = k - s
    <3>1. k - s \in Nat /\ k = s + (k - s)
      BY <1>2
    <3> QED
      BY <3>1
  <2>2. PICK G \in Nat \ {0} : G = Power(B, g)
    BY PowerType
  <2>3. PICK K \in Nat : K = Power(B, k) /\ K = S * G
    <3>1. Power(B, s + g) = S * G
      BY <1>s, <2>2, PowerAdd
    <3>2. S * G \in Nat
      OBVIOUS
    <3> QED
      BY <3>1, <3>2, <2>1
  <2>4. uS \div S = u
    <3>1. 0 \in Nat /\ 0 < S /\ uS = u * S + 0
      BY <1>u
    <3> QED
      BY <3>1, QuotientIs
  <2>5. DividesTwice(uS, S, G, K)
    BY <2>3, DivideTwice
  <2>6. uS \div K = u \div G
    BY <2>4, <2>5 DEF DividesTwice
  <2>7. DigitOf(B, uS, k) = DigitOf(B, u, g)
    BY <2>2, <2>3, <2>6 DEF DigitOf
  <2> QED
    BY <2>1, <2>7, <1>2, <1>s, <1>u
<1> QED
  BY <1>1, <1>2

(* Dividing by a power moves the digits down.                              *)
LEMMA DigitsMoveDown ==
  ASSUME NEW B \in Nat \ {0}, NEW u \in Nat, NEW s \in Nat, NEW k \in Nat
  PROVE  DigitOf(B, u \div Power(B, s), k) = DigitOf(B, u, k + s)
<1>1. PICK S \in Nat \ {0}, K \in Nat \ {0} : S = Power(B, s) /\ K = Power(B, k)
  BY PowerType
<1>2. PICK Z \in Nat : Z = Power(B, k + s) /\ Z = S * K
  <2>1. Power(B, s + k) = S * K /\ s + k = k + s
    BY <1>1, PowerAdd
  <2>2. S * K \in Nat
    OBVIOUS
  <2> QED
    BY <2>1, <2>2
<1>3. DividesTwice(u, S, K, Z)
  BY <1>2, DivideTwice
<1>4. u \div Z = (u \div S) \div K
  BY <1>3 DEF DividesTwice
<1> QED
  BY <1>1, <1>2, <1>4 DEF DigitOf

(* A remainder by a power keeps the digits below it and no others.         *)
LEMMA DigitsCut ==
  ASSUME NEW B \in Nat \ {0}, NEW u \in Nat, NEW m \in Nat, NEW k \in Nat, k < m
  PROVE  DigitOf(B, u % Power(B, m), k) = DigitOf(B, u, k)
<1>1. PICK M \in Nat \ {0} : M = Power(B, m)
  BY PowerType
<1>2. DigitOf(B, u, m * 0 + k) = DigitOf(B, DigitOf(M, u, 0), k)
  <2>1. 0 \in Nat
    OBVIOUS
  <2> QED
    BY <2>1, <1>1, DigitOfDigit
<1>3. DigitOf(M, u, 0) = u % M
  <2>1. Power(M, 0) = 1
    BY PowerSteps
  <2>2. u \div 1 = u
    OBVIOUS
  <2> QED
    BY <2>1, <2>2 DEF DigitOf
<1>4. m * 0 + k = k
  OBVIOUS
<1> QED
  BY <1>1, <1>2, <1>3, <1>4

(* A bit is 0 or 1.                                                        *)
LEMMA BitType ==
  ASSUME NEW v \in Nat, NEW k \in Nat
  PROVE  DigitOf(2, v, k) \in {0, 1}
<1>1. DigitOf(2, v, k) \in 0..2 - 1
  <2>1. 2 \in Nat \ {0}
    OBVIOUS
  <2> QED
    BY <2>1, DigitType
<1> QED
  BY <1>1

(* An operation on bits, bit by bit.                                       *)
Combines(r, ones, x, y, n) ==
  /\ r \in Nat /\ r < Power(2, n)
  /\ \A k \in 0..n - 1 :
       DigitOf(2, r, k) = IF <<DigitOf(2, x, k), DigitOf(2, y, k)>> \in ones THEN 1 ELSE 0

(* Combine puts the operation into every bit and stays below the power.    *)
LEMMA CombineIs ==
  ASSUME NEW ones, NEW x \in Nat, NEW y \in Nat, NEW n \in Nat
  PROVE  Combines(Combine(ones, x, y, n), ones, x, y, n)
<1> DEFINE d == [k \in 0..n - 1 |-> IF <<DigitOf(2, x, k), DigitOf(2, y, k)>> \in ones THEN 1 ELSE 0]
<1>1. Combine(ones, x, y, n) = Number(2, d, n)
  BY DEF Combine
<1>2. \A k \in 0..n - 1 :
        d[k] = IF <<DigitOf(2, x, k), DigitOf(2, y, k)>> \in ones THEN 1 ELSE 0
  OBVIOUS
<1>3. Digits(2, d, n)
  <2>1. \A k \in 0..n - 1 : d[k] \in 0..2 - 1
    BY <1>2
  <2> QED
    BY ONLY <2>1 DEF Digits
<1> HIDE DEF d
<1>4. 2 \in Nat \ {0}
  OBVIOUS
<1>5. Number(2, d, n) \in Nat /\ Number(2, d, n) < Power(2, n)
  BY <1>3, <1>4, NumberBound
<1>6. \A k \in 0..n - 1 : DigitOf(2, Number(2, d, n), k) = d[k]
  BY <1>3, <1>4, DigitOfNumber
<1> QED
  BY <1>1, <1>2, <1>5, <1>6 DEF Combines

(* The bits of an integer are those of its words.                          *)
LEMMA BitOfWord ==
  ASSUME NEW w \in Nat, NEW a \in Integer(w), NEW i \in 0..w - 1, NEW j \in 0..DIGIT - 1
  PROVE  DigitOf(2, Value(a), DIGIT * i + j) = DigitOf(2, a[i], j)
<1>1. PICK v \in Nat : v = Value(a) /\ DigitOf(WordSize, v, i) = a[i]
  BY ValueFacts
<1>2. 2 \in Nat \ {0} /\ DIGIT \in Nat /\ i \in Nat /\ j \in Nat /\ j < DIGIT
  BY SizesAre
<1>3. DigitOf(2, v, DIGIT * i + j) = DigitOf(2, DigitOf(Power(2, DIGIT), v, i), j)
  BY <1>2, DigitOfDigit
<1> QED
  BY <1>1, <1>3, SizesAre

(* The power of two above all bits of w words.                             *)
LEMMA BitsOfWords ==
  ASSUME NEW w \in Nat
  PROVE  DIGIT * w \in Nat /\ Power(WordSize, w) = Power(2, DIGIT * w)
<1>1. 2 \in Nat \ {0} /\ DIGIT \in Nat
  BY SizesAre
<1>2. Power(Power(2, DIGIT), w) = Power(2, DIGIT * w)
  BY <1>1, PowerOfPower
<1> QED
  BY <1>1, <1>2, SizesAre

(* An integer with the bits of v is worth v.                               *)
LEMMA SameBits ==
  ASSUME NEW w \in Nat, NEW a \in Integer(w), NEW v \in Nat, v < Power(2, DIGIT * w),
         \A i \in 0..w - 1, j \in 0..DIGIT - 1 : DigitOf(2, a[i], j) = DigitOf(2, v, DIGIT * i + j)
  PROVE  Value(a) = v
<1>1. PICK u \in Nat : u = Value(a) /\ u < Power(2, DIGIT * w)
  BY ValueFacts, BitsOfWords
<1>2. PICK n \in Nat : n = DIGIT * w
  BY BitsOfWords
<1>3. \A k \in 0..n - 1 : DigitOf(2, u, k) = DigitOf(2, v, k)
  <2> TAKE k \in 0..n - 1
  <2>0. DIGIT \in Nat \ {0} /\ k \in Nat
    BY SizesAre
  <2>1. PICK i \in Nat, j \in Nat : j < DIGIT /\ k = DIGIT * i + j
    BY <2>0, Division
  <2>2. i < w
    <3>1. DIGIT * i + j < DIGIT * w
      BY <2>1, <1>2
    <3> QED
      BY <3>1, <2>0, DivisionBound
  <2>3. i \in 0..w - 1 /\ j \in 0..DIGIT - 1
    BY <2>0, <2>1, <2>2
  <2>4. DigitOf(2, u, DIGIT * i + j) = DigitOf(2, a[i], j)
    BY <2>3, <1>1, BitOfWord
  <2>5. DigitOf(2, a[i], j) = DigitOf(2, v, DIGIT * i + j)
    BY <2>3
  <2> QED
    BY <2>1, <2>4, <2>5
<1>4. 2 \in Nat \ {0}
  OBVIOUS
<1>5. u = v
  BY <1>1, <1>2, <1>3, <1>4, SameDigits
<1> QED
  BY <1>1, <1>5

(* ^=, &= and |= work on the bits of the integers.                         *)
LEMMA BitwiseIs ==
  ASSUME NEW w \in Nat, NEW op, NEW a \in Integer(w), NEW b \in Integer(w)
  PROVE  /\ Bitwise(op, a, b) \in Integer(w)
         /\ Value(Bitwise(op, a, b)) = Combine(op, Value(a), Value(b), DIGIT * w)
<1> DEFINE r == Bitwise(op, a, b)
<1>1. \A i \in 0..w - 1 : a[i] \in Nat /\ b[i] \in Nat
  BY WordsOf
<1>2. r = [i \in 0..w - 1 |-> Combine(op, a[i], b[i], DIGIT)]
  <2>1. DOMAIN a = 0..w - 1
    BY WordsOf
  <2>2. r = [i \in DOMAIN a |-> Combine(op, a[i], b[i], DIGIT)]
    BY DEF Bitwise
  <2> QED
    BY ONLY <2>1, <2>2
<1> HIDE DEF r
<1>3. r \in Integer(w)
  <2>1. \A i \in 0..w - 1 : Combine(op, a[i], b[i], DIGIT) \in 0..WordSize - 1
    <3> TAKE i \in 0..w - 1
    <3>1. PICK x \in Nat, y \in Nat : x = a[i] /\ y = b[i]
      BY <1>1
    <3>2. PICK c : c = Combine(op, x, y, DIGIT)
      OBVIOUS
    <3>3. c \in Nat /\ c < WordSize
      BY <3>2, SizesAre, CombineIs DEF Combines
    <3>4. c \in 0..WordSize - 1
      BY <3>3, SizesAre
    <3> QED
      BY <3>1, <3>2, <3>4
  <2> QED
    BY <2>1, <1>2 DEF Integer, Words, WordRange
<1>4. PICK x \in Nat, y \in Nat : x = Value(a) /\ y = Value(b)
  BY ValueFacts
<1>5. PICK n \in Nat : n = DIGIT * w
  BY BitsOfWords
<1>6. PICK v \in Nat : v = Combine(op, x, y, n) /\ v < Power(2, n)
        /\ \A k \in 0..n - 1 : DigitOf(2, v, k)
                                 = IF <<DigitOf(2, x, k), DigitOf(2, y, k)>> \in op THEN 1 ELSE 0
  <2>1. PICK c : c = Combine(op, x, y, n)
    OBVIOUS
  <2>2. Combines(c, op, x, y, n)
    BY <2>1, CombineIs
  <2> QED
    BY <2>1, <2>2 DEF Combines
<1>7. ASSUME NEW i \in 0..w - 1, NEW j \in 0..DIGIT - 1
      PROVE  DigitOf(2, r[i], j) = DigitOf(2, v, DIGIT * i + j)
  <2>1. PICK p \in Nat, q \in Nat : p = a[i] /\ q = b[i]
    BY <1>1
  <2>2. r[i] = Combine(op, p, q, DIGIT)
    BY <1>2, <2>1
  <2>3. DigitOf(2, Combine(op, p, q, DIGIT), j)
          = IF <<DigitOf(2, p, j), DigitOf(2, q, j)>> \in op THEN 1 ELSE 0
    <3>1. DIGIT \in Nat
      BY SizesAre
    <3> QED
      BY <3>1, CombineIs DEF Combines
  <2>4. PICK k : k = DIGIT * i + j
    OBVIOUS
  <2>5. k \in 0..n - 1
    <3>1. PICK g \in Nat : w = i + 1 + g
      <4>1. w - i - 1 \in Nat /\ w = i + 1 + (w - i - 1)
        OBVIOUS
      <4> QED
        BY <4>1
    <3>2. PICK di \in Nat, dg \in Nat : di = DIGIT * i /\ dg = DIGIT * g /\ DIGIT * w = di + DIGIT + dg
      <4>1. i \in Nat /\ DIGIT \in Nat
        BY SizesAre
      <4>2. DIGIT * (i + 1 + g) = DIGIT * i + DIGIT + DIGIT * g
        BY ONLY <4>1, g \in Nat
      <4>3. DIGIT * i \in Nat /\ DIGIT * g \in Nat
        BY <4>1
      <4> QED
        BY <4>2, <4>3, <3>1
    <3> QED
      BY <3>2, <1>5, <2>4, SizesAre
  <2>6. DigitOf(2, x, k) = DigitOf(2, p, j) /\ DigitOf(2, y, k) = DigitOf(2, q, j)
    BY <2>1, <2>4, <1>4, BitOfWord
  <2> QED
    BY <2>2, <2>3, <2>4, <2>5, <2>6, <1>6
<1>8. Value(r) = v
  BY <1>3, <1>5, <1>6, <1>7, SameBits
<1> QED
  BY <1>3, <1>4, <1>5, <1>6, <1>8 DEF r

-----------------------------------------------------------------------------
(* The two words of a uint64.                                              *)
LEMMA WordsOfUint64 ==
  ASSUME NEW v \in Nat, v < WordSize * WordSize
  PROVE  /\ v < Power(WordSize, WIDTH)
         /\ DigitOf(WordSize, v, 0) = v % WordSize
         /\ DigitOf(WordSize, v, 1) = v \div WordSize
         /\ \A i \in 2..WIDTH - 1 : DigitOf(WordSize, v, i) = 0
<1>w. PICK B \in Nat \ {0} : B = WordSize
  BY SizesAre
<1>1. PICK q \in Nat, r \in Nat : q = v \div B /\ r = v % B /\ r < B /\ v = B * q + r
  BY Division
<1>2. q < B
  <2>1. B * q + r < B * B
    BY <1>1, <1>w
  <2> QED
    BY <2>1, DivisionBound
<1>3. Power(B, 0) = 1 /\ Power(B, 1) = B /\ Power(B, 2) = B * B
  <2>1. Power(B, 0) = 1 /\ Power(B, 0 + 1) = B * Power(B, 0) /\ Power(B, 1 + 1) = B * Power(B, 1)
    BY PowerSteps
  <2>2. 0 + 1 = 1 /\ 1 + 1 = 2 /\ B * 1 = B
    OBVIOUS
  <2> QED
    BY <2>1, <2>2
<1>4. DigitOf(B, v, 0) = v % B
  <2>1. v \div 1 = v
    OBVIOUS
  <2> QED
    BY <2>1, <1>3 DEF DigitOf
<1>5. DigitOf(B, v, 1) = q
  <2>1. q % B = q
    BY <1>2, SmallRemainder
  <2> QED
    BY <2>1, <1>1, <1>3 DEF DigitOf
<1>6. v < Power(B, 2)
  BY <1>3, <1>w
<1>7. \A i \in 2..WIDTH - 1 : DigitOf(B, v, i) = 0
  <2> TAKE i \in 2..WIDTH - 1
  <2>1. i \in Nat /\ i >= 2 /\ 2 \in Nat
    OBVIOUS
  <2> QED
    BY <2>1, <1>6, NoDigitsAbove
<1>8. v < Power(B, WIDTH)
  <2>1. PICK g \in Nat : WIDTH = 2 + g
    <3>1. WIDTH - 2 \in Nat /\ WIDTH = 2 + (WIDTH - 2)
      BY SizesAre
    <3> QED
      BY <3>1
  <2>2. PICK p \in Nat \ {0}, x \in Nat \ {0} : p = Power(B, g) /\ x = Power(B, 2)
    BY PowerType
  <2>3. Power(B, 2 + g) = x * p
    BY <2>2, PowerAdd
  <2>4. v < x * p
    <3>1. PICK h \in Nat : p = h + 1
      <4>1. p - 1 \in Nat /\ p = (p - 1) + 1
        OBVIOUS
      <4> QED
        BY <4>1
    <3>2. x * p = x * h + x /\ x * h \in Nat
      BY <3>1
    <3> QED
      BY <3>2, <2>2, <1>6
  <2> QED
    BY <2>1, <2>3, <2>4
<1> QED
  BY <1>1, <1>4, <1>5, <1>7, <1>8, <1>w

(* The constructor from 64 bits makes the words of the number.             *)
LEMMA FromUint64Is ==
  ASSUME NEW v \in Nat, v < WordSize * WordSize
  PROVE  FromUint64(v) = Of(v, WIDTH)
<1>1. FromUint64(v) = [i \in 0..WIDTH - 1 |-> FromUint64(v)[i]]
  BY DEF FromUint64, Words
<1>2. Of(v, WIDTH) = [i \in 0..WIDTH - 1 |-> DigitOf(WordSize, v, i)]
  BY DEF Of, Words
<1>3. ASSUME NEW i \in 0..WIDTH - 1
      PROVE  FromUint64(v)[i] = DigitOf(WordSize, v, i)
  <2>0. i = 0 \/ i = 1 \/ i \in 2..WIDTH - 1
    BY SizesAre
  <2>1. CASE i = 0
    <3>1. FromUint64(v)[0] = v % WordSize
      BY <2>1 DEF FromUint64, Words
    <3> QED
      BY <3>1, <2>1, WordsOfUint64
  <2>2. CASE i = 1
    <3>1. FromUint64(v)[1] = v \div WordSize
      BY <2>2 DEF FromUint64, Words
    <3> QED
      BY <3>1, <2>2, WordsOfUint64
  <2>3. CASE i \in 2..WIDTH - 1
    <3>1. i # 0 /\ i # 1
      BY <2>3
    <3>2. FromUint64(v)[i] = 0
      BY <3>1 DEF FromUint64, Words
    <3> QED
      BY <3>2, <2>3, WordsOfUint64
  <2> QED
    BY <2>0, <2>1, <2>2, <2>3
<1> QED
  BY ONLY <1>1, <1>2, <1>3

(* == a uint64.                                                            *)
LEMMA EqualUint64Is ==
  ASSUME NEW a \in Integer(WIDTH), NEW v \in Nat, v < WordSize * WordSize
  PROVE  EqualUint64(a, v) <=> Value(a) = v
<1>w. WIDTH \in Nat /\ 0 \in 0..WIDTH - 1 /\ 1 \in 0..WIDTH - 1 /\ 0..WIDTH - 1 = {0, 1} \cup 2..WIDTH - 1
      /\ DOMAIN a \ {0, 1} = 2..WIDTH - 1
  <2>1. DOMAIN a = 0..WIDTH - 1 /\ WIDTH \in Nat /\ WIDTH >= 2
    BY WordsOf, SizesAre
  <2> QED
    BY <2>1
<1>1. EqualUint64(a, v) <=> \A k \in 0..WIDTH - 1 : a[k] = DigitOf(WordSize, v, k)
  <2>1. EqualUint64(a, v) <=> a[0] = DigitOf(WordSize, v, 0) /\ a[1] = DigitOf(WordSize, v, 1)
                              /\ \A k \in 2..WIDTH - 1 : a[k] = DigitOf(WordSize, v, k)
    BY <1>w, WordsOfUint64 DEF EqualUint64
  <2> QED
    BY ONLY <2>1, <1>w
<1>2. ASSUME \A k \in 0..WIDTH - 1 : a[k] = DigitOf(WordSize, v, k)
      PROVE  Value(a) = v
  BY <1>2, <1>w, WordsOfUint64, ValueIs
<1>3. ASSUME Value(a) = v
      PROVE  \A k \in 0..WIDTH - 1 : a[k] = DigitOf(WordSize, v, k)
  BY <1>3, <1>w, ValueFacts
<1> QED
  BY <1>1, <1>2, <1>3

(* An operation that keeps a bit beside a zero keeps a word beside zero.   *)
LEMMA CombineZero ==
  ASSUME NEW op, <<0, 0>> \notin op, <<1, 0>> \in op, NEW n \in Nat, NEW x \in Nat, x < Power(2, n)
  PROVE  Combine(op, x, 0, n) = x
<1>0. 0 \in Nat /\ 2 \in Nat \ {0}
  OBVIOUS
<1>1. PICK c : c = Combine(op, x, 0, n)
  OBVIOUS
<1>2. Combines(c, op, x, 0, n)
  BY <1>0, <1>1, CombineIs
<1>3. c \in Nat /\ c < Power(2, n)
  BY <1>2 DEF Combines
<1>4. \A k \in 0..n - 1 : DigitOf(2, c, k) = DigitOf(2, x, k)
  <2> TAKE k \in 0..n - 1
  <2>1. DigitOf(2, x, k) \in {0, 1}
    BY BitType
  <2>2. DigitOf(2, 0, k) = 0
    <3>1. k \in Nat /\ k >= 0 /\ 0 < Power(2, 0)
      BY <1>0, PowerSteps
    <3> QED
      BY <3>1, <1>0, NoDigitsAbove
  <2>3. DigitOf(2, c, k) = IF <<DigitOf(2, x, k), DigitOf(2, 0, k)>> \in op THEN 1 ELSE 0
    BY <1>2 DEF Combines
  <2> QED
    BY <2>1, <2>2, <2>3
<1>5. c = x
  BY <1>0, <1>3, <1>4, SameDigits
<1> QED
  BY <1>1, <1>5

(* ^= and |= a uint64.                                                     *)
LEMMA BitwiseUint64Is ==
  ASSUME NEW op, <<0, 0>> \notin op, <<1, 0>> \in op,
         NEW a \in Integer(WIDTH), NEW v \in Nat, v < WordSize * WordSize
  PROVE  BitwiseUint64(op, a, v) = Bitwise(op, a, Of(v, WIDTH))
<1>a. DOMAIN a = 0..WIDTH - 1 /\ WIDTH \in Nat /\ WIDTH >= 2
      /\ a = [i \in 0..WIDTH - 1 |-> a[i]]
      /\ \A i \in 0..WIDTH - 1 : a[i] \in Nat /\ a[i] < WordSize
  BY WordsOf, SizesAre
<1>o. \A i \in 0..WIDTH - 1 : Of(v, WIDTH)[i] = DigitOf(WordSize, v, i)
  BY DEF Of, Words
<1> DEFINE p == BitwiseUint64(op, a, v)
           q == Bitwise(op, a, Of(v, WIDTH))
<1>1. /\ p = [i \in 0..WIDTH - 1 |-> p[i]]
      /\ p[0] = Combine(op, a[0], v % WordSize, DIGIT)
      /\ p[1] = Combine(op, a[1], v \div WordSize, DIGIT)
      /\ \A i \in 2..WIDTH - 1 : p[i] = a[i]
  <2>1. PICK x, y : x = Combine(op, a[0], v % WordSize, DIGIT) /\ y = Combine(op, a[1], v \div WordSize, DIGIT)
    OBVIOUS
  <2>2. p = [a EXCEPT ![0] = x, ![1] = y]
    BY <2>1 DEF BitwiseUint64
  <2>3. DOMAIN a = 0..WIDTH - 1 /\ 0 \in 0..WIDTH - 1 /\ 1 \in 0..WIDTH - 1 /\ 0 # 1
        /\ \A i \in 2..WIDTH - 1 : i \in 0..WIDTH - 1 /\ i # 0 /\ i # 1
    BY <1>a
  <2> HIDE DEF p
  <2> QED
    BY ONLY <2>1, <2>2, <2>3
<1>2. q = [i \in 0..WIDTH - 1 |-> q[i]]
      /\ \A i \in 0..WIDTH - 1 : q[i] = Combine(op, a[i], DigitOf(WordSize, v, i), DIGIT)
  BY <1>a, <1>o DEF Bitwise
<1> HIDE DEF p, q
<1>3. ASSUME NEW i \in 0..WIDTH - 1
      PROVE  p[i] = q[i]
  <2>0. i = 0 \/ i = 1 \/ i \in 2..WIDTH - 1
    BY <1>a
  <2>1. CASE i = 0 \/ i = 1
    BY <2>1, <1>1, <1>2, WordsOfUint64
  <2>2. CASE i \in 2..WIDTH - 1
    <3>1. q[i] = Combine(op, a[i], 0, DIGIT)
      BY <2>2, <1>2, WordsOfUint64
    <3>2. PICK x \in Nat : x = a[i] /\ x < Power(2, DIGIT)
      BY <1>a, SizesAre
    <3>3. Combine(op, x, 0, DIGIT) = x
      BY <3>2, SizesAre, CombineZero
    <3> QED
      BY <3>1, <3>2, <3>3, <2>2, <1>1
  <2> QED
    BY <2>0, <2>1, <2>2
<1>4. p = q
  BY ONLY <1>1, <1>2, <1>3
<1> QED
  BY <1>4 DEF p, q

-----------------------------------------------------------------------------
(* An integer of zeros only is 0.                                          *)
LEMMA IsZeroIs ==
  ASSUME NEW w \in Nat, NEW a \in Integer(w)
  PROVE  IsZero(a) <=> Value(a) = 0
<1>1. ASSUME NEW k \in 0..w - 1 PROVE DigitOf(WordSize, 0, k) = 0
  <2>1. k \in Nat /\ k >= 0 /\ 0 \in Nat /\ 0 < Power(WordSize, 0) /\ WordSize \in Nat \ {0}
    BY SizesAre, PowerSteps
  <2> QED
    BY <2>1, NoDigitsAbove
<1>2. IsZero(a) <=> \A k \in 0..w - 1 : a[k] = 0
  <2>1. DOMAIN a = 0..w - 1
    BY WordsOf
  <2> QED
    BY <2>1 DEF IsZero
<1>3. ASSUME \A k \in 0..w - 1 : a[k] = 0
      PROVE  Value(a) = 0
  <2>1. Value(a) = Number(WordSize, a, w)
    BY ValueFacts
  <2> QED
    BY <1>3, <2>1, SizesAre, NumberOfZeros
<1>4. ASSUME Value(a) = 0
      PROVE  \A k \in 0..w - 1 : a[k] = 0
  BY <1>4, <1>1, ValueFacts
<1> QED
  BY <1>2, <1>3, <1>4

(* Integers with the same words are the same, with others they are not.    *)
LEMMA EqualIs ==
  ASSUME NEW w \in Nat, NEW a \in Integer(w), NEW b \in Integer(w)
  PROVE  Equal(a, b) <=> Value(a) = Value(b)
<1>1. Equal(a, b) <=> \A k \in 0..w - 1 : a[k] = b[k]
  <2>1. DOMAIN a = 0..w - 1
    BY WordsOf
  <2> QED
    BY <2>1 DEF Equal
<1>2. ASSUME \A k \in 0..w - 1 : a[k] = b[k]
      PROVE  Value(a) = Value(b)
  <2>1. a = [k \in 0..w - 1 |-> a[k]] /\ b = [k \in 0..w - 1 |-> b[k]]
    BY WordsOf
  <2>2. a = b
    BY ONLY <2>1, <1>2
  <2> QED
    BY <2>2
<1>3. ASSUME Value(a) = Value(b)
      PROVE  \A k \in 0..w - 1 : a[k] = b[k]
  BY <1>3, ValueFacts
<1> QED
  BY <1>1, <1>2, <1>3

(* The word that decides, and what it decides.                             *)
LEMMA SomeWordDecides ==
  ASSUME NEW w \in Nat, NEW a \in Integer(w), NEW b \in Integer(w), NEW k \in 0..w - 1, a[k] # b[k]
  PROVE  \E i \in 0..w - 1 : Decides(a, b, i)
<1> DEFINE T == {j \in Nat : j < w /\ a[w - 1 - j] # b[w - 1 - j]}
<1>1. T # {}
  <2>1. PICK j \in Nat : j = w - 1 - k
    OBVIOUS
  <2>2. j < w /\ w - 1 - j = k
    BY <2>1
  <2>3. j \in T
    BY <2>2
  <2> QED
    BY <2>3
<1>2. T \in SUBSET Nat
  OBVIOUS
<1>3. PICK j \in T : \A y \in T : j <= y
  <2> HIDE DEF T
  <2> QED
    BY <1>1, <1>2, Least
<1>4. PICK i \in 0..w - 1 : i = w - 1 - j
  OBVIOUS
<1>5. \A h \in 0..w - 1 : h > i => a[h] = b[h]
  <2> SUFFICES ASSUME NEW h \in 0..w - 1, h > i, a[h] # b[h] PROVE FALSE
    OBVIOUS
  <2>1. PICK y \in Nat : y = w - 1 - h
    OBVIOUS
  <2>2. y < w /\ w - 1 - y = h /\ y < j
    BY <2>1, <1>4
  <2>3. y \in T
    BY <2>2
  <2>4. j <= y
    BY <2>3, <1>3
  <2> QED
    BY <2>2, <2>4
<1>6. a[i] # b[i]
  BY <1>4
<1>7. DOMAIN a = 0..w - 1
  BY WordsOf
<1> QED
  BY <1>5, <1>6, <1>7 DEF Decides

(* The topmost words that differ decide a comparison.                      *)
LEMMA DecidesIs ==
  ASSUME NEW w \in Nat, NEW a \in Integer(w), NEW b \in Integer(w), NEW i \in DOMAIN a, Decides(a, b, i)
  PROVE  /\ a[i] < b[i] => Value(a) < Value(b)
         /\ a[i] > b[i] => Value(b) < Value(a)
         /\ a[i] < b[i] \/ a[i] > b[i]
<1>1. DOMAIN a = 0..w - 1 /\ \A k \in 0..w - 1 : a[k] \in Nat /\ b[k] \in Nat
  BY WordsOf
<1>2. i \in 0..w - 1 /\ a[i] # b[i] /\ \A k \in i + 1..w - 1 : a[k] = b[k]
  <2>1. i \in 0..w - 1
    BY <1>1
  <2>2. \A k \in i + 1..w - 1 : k \in 0..w - 1 /\ k > i
    BY <2>1
  <2> QED
    BY <2>1, <2>2, <1>1 DEF Decides
<1>3. a[i] < b[i] \/ a[i] > b[i]
  BY <1>1, <1>2
<1>4. /\ Value(a) = Number(WordSize, a, w) /\ Digits(WordSize, a, w)
      /\ Value(b) = Number(WordSize, b, w) /\ Digits(WordSize, b, w)
  BY ValueFacts
<1>5. ASSUME a[i] < b[i]
      PROVE  Value(a) < Value(b)
  BY <1>2, <1>4, <1>5, SizesAre, NumberLess
<1>6. ASSUME a[i] > b[i]
      PROVE  Value(b) < Value(a)
  <2>1. b[i] < a[i] /\ \A k \in i + 1..w - 1 : b[k] = a[k]
    BY <1>1, <1>2, <1>6
  <2> QED
    BY <2>1, <1>2, <1>4, SizesAre, NumberLess
<1> QED
  BY <1>3, <1>5, <1>6

(* Every comparison is that of the numbers.                                *)
LEMMA ComparisonsAre ==
  ASSUME NEW w \in Nat, NEW a \in Integer(w), NEW b \in Integer(w)
  PROVE  /\ Less(a, b) <=> Value(a) < Value(b)
         /\ AtMost(a, b) <=> Value(a) <= Value(b)
         /\ Greater(a, b) <=> Value(a) > Value(b)
         /\ AtLeast(a, b) <=> Value(a) >= Value(b)
<1>1. PICK x \in Nat, y \in Nat : x = Value(a) /\ y = Value(b)
  BY ValueFacts
<1>2. Less(a, b) => x < y
  BY <1>1, DecidesIs DEF Less
<1>3. Greater(a, b) => y < x
  BY <1>1, DecidesIs DEF Greater
<1>4. Less(a, b) \/ Greater(a, b) \/ x = y
  <2>1. CASE \A k \in DOMAIN a : a[k] = b[k]
    BY <2>1, <1>1, EqualIs DEF Equal
  <2>2. CASE \E k \in DOMAIN a : a[k] # b[k]
    <3>1. DOMAIN a = 0..w - 1
      BY WordsOf
    <3>2. PICK k \in 0..w - 1 : a[k] # b[k]
      BY <2>2, <3>1
    <3>3. PICK i \in 0..w - 1 : Decides(a, b, i)
      BY <3>2, SomeWordDecides
    <3>4. a[i] < b[i] \/ a[i] > b[i]
      BY <3>1, <3>3, DecidesIs
    <3> QED
      BY <3>1, <3>3, <3>4 DEF Less, Greater
  <2> QED
    BY <2>1, <2>2
<1>5. AtMost(a, b) <=> ~ Greater(a, b)
  BY DEF AtMost, Greater
<1>6. AtLeast(a, b) <=> ~ Less(a, b)
  BY DEF AtLeast, Less
<1> QED
  BY <1>1, <1>2, <1>3, <1>4, <1>5, <1>6

-----------------------------------------------------------------------------
(* Shifts. Bits that one word of a shifted integer gets from two words x, the   *)
(* one that moves into its place, and y, its neighbour.                          *)
LEMMA OrIs ==
  ASSUME NEW x \in Nat, NEW y \in Nat, NEW j \in Nat, j < DIGIT
  PROVE  DigitOf(2, Combine(Or, x, y, DIGIT), j)
           = IF DigitOf(2, x, j) = 1 THEN 1 ELSE DigitOf(2, y, j)
<1>1. DIGIT \in Nat /\ j \in 0..DIGIT - 1
  BY SizesAre
<1>2. DigitOf(2, Combine(Or, x, y, DIGIT), j)
        = IF <<DigitOf(2, x, j), DigitOf(2, y, j)>> \in Or THEN 1 ELSE 0
  BY <1>1, CombineIs DEF Combines
<1>3. DigitOf(2, x, j) \in {0, 1} /\ DigitOf(2, y, j) \in {0, 1}
  BY BitType
<1> QED
  BY <1>2, <1>3 DEF Or

ShiftedUp(c, x, y, s) ==
  /\ c \in WordRange
  /\ \A j \in 0..DIGIT - 1 :
       DigitOf(2, c, j) = IF j < s THEN DigitOf(2, y, j + (DIGIT - s)) ELSE DigitOf(2, x, j - s)

ShiftedDown(c, x, y, s) ==
  /\ c \in WordRange
  /\ \A j \in 0..DIGIT - 1 :
       DigitOf(2, c, j) = IF j + s < DIGIT THEN DigitOf(2, x, j + s) ELSE DigitOf(2, y, (j + s) - DIGIT)

(* Combining the bits of two words gives a word.                           *)
LEMMA CombineInWord ==
  ASSUME NEW op, NEW x \in Nat, NEW y \in Nat
  PROVE  Combine(op, x, y, DIGIT) \in WordRange
<1>1. PICK c : c = Combine(op, x, y, DIGIT)
  OBVIOUS
<1>2. c \in Nat /\ c < WordSize
  BY <1>1, SizesAre, CombineIs DEF Combines
<1> QED
  BY <1>1, <1>2, SizesAre DEF WordRange

(* One word of a shift to the left: the bits of x move up, those of y fill in. *)
LEMMA WordUp ==
  ASSUME NEW x \in WordRange, NEW y \in WordRange, NEW s \in 0..DIGIT - 1
  PROVE  ShiftedUp(Combine(Or, (x * Power(2, s)) % WordSize,
                           IF s = 0 THEN 0 ELSE y \div Power(2, DIGIT - s), DIGIT), x, y, s)
<1>0. /\ 2 \in Nat \ {0} /\ 0 \in Nat /\ DIGIT \in Nat /\ s \in Nat /\ s < DIGIT /\ DIGIT - s \in Nat
      /\ WordSize \in Nat \ {0}
  BY SizesAre
<1>1. x \in Nat /\ y \in Nat /\ x < Power(2, DIGIT) /\ y < Power(2, DIGIT)
  BY <1>0, SizesAre DEF WordRange
<1>2. PICK S \in Nat \ {0}, T \in Nat \ {0} : S = Power(2, s) /\ T = Power(2, DIGIT - s)
  BY <1>0, PowerType
<1>3. PICK u \in Nat : u = x * S
  BY <1>1
<1>4. PICK hi \in Nat : hi = u % Power(2, DIGIT) /\ hi = (x * Power(2, s)) % WordSize
  <2>1. u % WordSize \in Nat
    BY <1>0
  <2> QED
    BY <2>1, <1>2, <1>3, SizesAre
<1>5. PICK lo \in Nat : lo = (IF s = 0 THEN 0 ELSE y \div Power(2, DIGIT - s))
  <2>1. y \div T \in Nat
    BY <1>1
  <2> QED
    BY <2>1, <1>2
<1>6. PICK c : c = Combine(Or, hi, lo, DIGIT)
  OBVIOUS
<1>7. ASSUME NEW j \in 0..DIGIT - 1
      PROVE  DigitOf(2, c, j) = IF j < s THEN DigitOf(2, y, j + (DIGIT - s)) ELSE DigitOf(2, x, j - s)
  <2>0. j \in Nat /\ j < DIGIT /\ j + (DIGIT - s) \in Nat
    BY <1>0
  <2>1. DigitOf(2, hi, j) = IF j < s THEN 0 ELSE DigitOf(2, x, j - s)
    <3>1. DigitOf(2, hi, j) = DigitOf(2, u, j)
      BY <1>0, <1>4, <2>0, DigitsCut
    <3>2. DigitOf(2, x * Power(2, s), j) = IF j < s THEN 0 ELSE DigitOf(2, x, j - s)
      BY <1>0, <1>1, <2>0, DigitsMoveUp
    <3> QED
      BY <3>1, <3>2, <1>2, <1>3
  <2>2. DigitOf(2, lo, j) = IF j < s THEN DigitOf(2, y, j + (DIGIT - s)) ELSE 0
    <3>1. CASE s = 0
      <4>1. 0 < Power(2, 0)
        BY <1>0, PowerSteps
      <4>2. DigitOf(2, 0, j) = 0
        BY <4>1, <1>0, <2>0, NoDigitsAbove
      <4>3. lo = 0 /\ ~ (j < s)
        BY <3>1, <1>5, <2>0
      <4> QED
        BY <4>2, <4>3
    <3>2. CASE s # 0
      <4>1. DigitOf(2, y \div Power(2, DIGIT - s), j) = DigitOf(2, y, j + (DIGIT - s))
        BY <1>0, <1>1, <2>0, DigitsMoveDown
      <4>2. ASSUME ~ (j < s) PROVE DigitOf(2, y, j + (DIGIT - s)) = 0
        <5>1. j + (DIGIT - s) >= DIGIT
          BY <4>2, <1>0, <2>0
        <5> QED
          BY <5>1, <1>0, <1>1, <2>0, NoDigitsAbove
      <4> QED
        BY <3>2, <4>1, <4>2, <1>5
    <3> QED
      BY <3>1, <3>2
  <2>3. DigitOf(2, c, j) = IF DigitOf(2, hi, j) = 1 THEN 1 ELSE DigitOf(2, lo, j)
    BY <2>0, <1>6, OrIs
  <2>4. CASE j < s
    <3>1. DigitOf(2, hi, j) = 0 /\ DigitOf(2, lo, j) = DigitOf(2, y, j + (DIGIT - s))
      BY <2>1, <2>2, <2>4
    <3> QED
      BY <3>1, <2>3, <2>4
  <2>5. CASE ~ (j < s)
    <3>1. DigitOf(2, hi, j) = DigitOf(2, x, j - s) /\ DigitOf(2, lo, j) = 0
      BY <2>1, <2>2, <2>5
    <3>2. DigitOf(2, hi, j) \in {0, 1}
      BY <2>0, BitType
    <3> QED
      BY <3>1, <3>2, <2>3, <2>5
  <2> QED
    BY <2>4, <2>5
<1>8. c \in WordRange
  BY <1>6, CombineInWord
<1>9. ShiftedUp(c, x, y, s)
  BY <1>7, <1>8 DEF ShiftedUp
<1> QED
  BY <1>9, <1>4, <1>5, <1>6

(* One word of a shift to the right: the bits of x move down, those of y fill in. *)
LEMMA WordDown ==
  ASSUME NEW x \in WordRange, NEW y \in WordRange, NEW s \in 0..DIGIT - 1
  PROVE  ShiftedDown(Combine(Or, x \div Power(2, s),
                             IF s = 0 THEN 0 ELSE (y * Power(2, DIGIT - s)) % WordSize, DIGIT), x, y, s)
<1>0. /\ 2 \in Nat \ {0} /\ 0 \in Nat /\ DIGIT \in Nat /\ s \in Nat /\ s < DIGIT /\ DIGIT - s \in Nat
      /\ WordSize \in Nat \ {0}
  BY SizesAre
<1>1. x \in Nat /\ y \in Nat /\ x < Power(2, DIGIT) /\ y < Power(2, DIGIT)
  BY <1>0, SizesAre DEF WordRange
<1>2. PICK S \in Nat \ {0}, T \in Nat \ {0} : S = Power(2, s) /\ T = Power(2, DIGIT - s)
  BY <1>0, PowerType
<1>3. PICK u \in Nat : u = y * T
  BY <1>1
<1>4. PICK lo \in Nat : lo = x \div Power(2, s)
  <2>1. x \div S \in Nat
    BY <1>1
  <2> QED
    BY <2>1, <1>2
<1>c. PICK cut \in Nat : cut = u % Power(2, DIGIT) /\ cut = (y * Power(2, DIGIT - s)) % WordSize
  <2>1. u % WordSize \in Nat
    BY <1>0
  <2> QED
    BY <2>1, <1>2, <1>3, SizesAre
<1>5. PICK hi \in Nat : hi = (IF s = 0 THEN 0 ELSE (y * Power(2, DIGIT - s)) % WordSize)
  BY <1>c
<1>6. PICK c : c = Combine(Or, lo, hi, DIGIT)
  OBVIOUS
<1>7. ASSUME NEW j \in 0..DIGIT - 1
      PROVE  DigitOf(2, c, j) = IF j + s < DIGIT THEN DigitOf(2, x, j + s) ELSE DigitOf(2, y, (j + s) - DIGIT)
  <2>0. j \in Nat /\ j < DIGIT /\ j + s \in Nat
    BY <1>0
  <2>1. DigitOf(2, lo, j) = IF j + s < DIGIT THEN DigitOf(2, x, j + s) ELSE 0
    <3>1. DigitOf(2, lo, j) = DigitOf(2, x, j + s)
      BY <1>0, <1>1, <1>4, <2>0, DigitsMoveDown
    <3>2. ASSUME ~ (j + s < DIGIT) PROVE DigitOf(2, x, j + s) = 0
      <4>1. j + s >= DIGIT
        BY <3>2, <1>0, <2>0
      <4> QED
        BY <4>1, <1>0, <1>1, <2>0, NoDigitsAbove
    <3> QED
      BY <3>1, <3>2
  <2>2. DigitOf(2, hi, j) = IF j + s < DIGIT THEN 0 ELSE DigitOf(2, y, (j + s) - DIGIT)
    <3>1. CASE s = 0
      <4>1. 0 < Power(2, 0)
        BY <1>0, PowerSteps
      <4>2. DigitOf(2, 0, j) = 0
        BY <4>1, <1>0, <2>0, NoDigitsAbove
      <4>3. hi = 0 /\ j + s < DIGIT
        BY <3>1, <1>5, <2>0
      <4> QED
        BY <4>2, <4>3
    <3>2. CASE s # 0
      <4>1. hi = cut
        BY <3>2, <1>5, <1>c
      <4>2. DigitOf(2, hi, j) = DigitOf(2, u, j)
        BY <4>1, <1>0, <1>c, <2>0, DigitsCut
      <4>3. DigitOf(2, y * Power(2, DIGIT - s), j) = IF j < DIGIT - s THEN 0 ELSE DigitOf(2, y, j - (DIGIT - s))
        BY <1>0, <1>1, <2>0, DigitsMoveUp
      <4>4. j - (DIGIT - s) = (j + s) - DIGIT /\ (j < DIGIT - s <=> j + s < DIGIT)
        BY <1>0, <2>0
      <4> QED
        BY <4>2, <4>3, <4>4, <1>2, <1>3
    <3> QED
      BY <3>1, <3>2
  <2>3. DigitOf(2, c, j) = IF DigitOf(2, lo, j) = 1 THEN 1 ELSE DigitOf(2, hi, j)
    BY <2>0, <1>6, OrIs
  <2>4. CASE j + s < DIGIT
    <3>1. DigitOf(2, lo, j) = DigitOf(2, x, j + s) /\ DigitOf(2, hi, j) = 0
      BY <2>1, <2>2, <2>4
    <3>2. DigitOf(2, lo, j) \in {0, 1}
      BY <2>0, BitType
    <3> QED
      BY <3>1, <3>2, <2>3, <2>4
  <2>5. CASE ~ (j + s < DIGIT)
    <3>1. DigitOf(2, lo, j) = 0 /\ DigitOf(2, hi, j) = DigitOf(2, y, (j + s) - DIGIT)
      BY <2>1, <2>2, <2>5
    <3> QED
      BY <3>1, <2>3, <2>5
  <2> QED
    BY <2>4, <2>5
<1>8. c \in WordRange
  BY <1>6, CombineInWord
<1>9. ShiftedDown(c, x, y, s)
  BY <1>7, <1>8 DEF ShiftedDown
<1> QED
  BY <1>9, <1>4, <1>5, <1>6

(* What the integer becomes, bit by bit.                                        *)
MovedUp(v, V, n, h) ==
  /\ v \in Nat /\ v < Power(2, n)
  /\ v = IF h < n THEN (V % Power(2, n - h)) * Power(2, h) ELSE 0
  /\ \A t \in 0..n - 1 : DigitOf(2, v, t) = IF t < h THEN 0 ELSE DigitOf(2, V, t - h)

MovedDown(v, V, n, h) ==
  /\ v \in Nat /\ v < Power(2, n)
  /\ v = IF h < n THEN V \div Power(2, h) ELSE 0
  /\ \A t \in 0..n - 1 : DigitOf(2, v, t) = DigitOf(2, V, t + h)

(* A number shifted to the left is a number of n bits.                     *)
LEMMA UpIs ==
  ASSUME NEW n \in Nat, NEW V \in Nat, V < Power(2, n), NEW h \in Nat
  PROVE  \E v : MovedUp(v, V, n, h)
<1>0. 2 \in Nat \ {0} /\ 0 \in Nat
  OBVIOUS
<1>1. CASE h < n
  <2>1. PICK g \in Nat : g = n - h /\ g + h = n
    <3>1. n - h \in Nat /\ (n - h) + h = n
      BY <1>1
    <3> QED
      BY <3>1
  <2>2. PICK H \in Nat \ {0}, G \in Nat \ {0} : H = Power(2, h) /\ G = Power(2, g)
    BY <1>0, PowerType
  <2>3. Power(2, n) = G * H
    <3>1. Power(2, g + h) = G * H
      BY <1>0, <2>2, PowerAdd
    <3> QED
      BY <3>1, <2>1
  <2>4. PICK r \in Nat : r = V % G /\ r < G
    BY <2>2
  <2>5. PICK v \in Nat : v = r * H
    OBVIOUS
  <2>6. v < Power(2, n)
    <3>1. PICK d \in Nat : G = r + d + 1
      <4>1. G - r - 1 \in Nat /\ G = r + (G - r - 1) + 1
        BY <2>4
      <4> QED
        BY <4>1
    <3>2. G * H = r * H + d * H + H
      <4>1. (r + d + 1) * H = r * H + d * H + H
        BY ONLY r \in Nat, d \in Nat, H \in Nat
      <4> QED
        BY <4>1, <3>1
    <3>3. PICK dH \in Nat : dH = d * H
      OBVIOUS
    <3> QED
      BY <3>2, <3>3, <2>3, <2>5
  <2>7. \A t \in 0..n - 1 : DigitOf(2, v, t) = IF t < h THEN 0 ELSE DigitOf(2, V, t - h)
    <3> TAKE t \in 0..n - 1
    <3>1. t \in Nat /\ (~ (t < h) => t - h \in Nat /\ t - h < g)
      BY <2>1
    <3>2. DigitOf(2, r * Power(2, h), t) = IF t < h THEN 0 ELSE DigitOf(2, r, t - h)
      BY <1>0, <3>1, DigitsMoveUp
    <3>3. ASSUME ~ (t < h) PROVE DigitOf(2, r, t - h) = DigitOf(2, V, t - h)
      <4>1. PICK z \in Nat : z = t - h /\ z < g
        BY <3>1, <3>3
      <4>2. DigitOf(2, V % Power(2, g), z) = DigitOf(2, V, z)
        BY <4>1, <1>0, DigitsCut
      <4> QED
        BY <4>1, <4>2, <2>2, <2>4
    <3> QED
      BY <3>2, <3>3, <2>2, <2>5
  <2>8. v = IF h < n THEN (V % Power(2, n - h)) * Power(2, h) ELSE 0
    BY <1>1, <2>1, <2>2, <2>4, <2>5
  <2>9. MovedUp(v, V, n, h)
    BY <2>6, <2>7, <2>8 DEF MovedUp
  <2> QED
    BY <2>9
<1>2. CASE ~ (h < n)
  <2>1. 0 < Power(2, n) /\ 0 < Power(2, 0)
    <3>1. Power(2, n) \in Nat \ {0} /\ Power(2, 0) \in Nat \ {0}
      BY <1>0, PowerType
    <3> QED
      BY <3>1
  <2>2. \A t \in 0..n - 1 : DigitOf(2, 0, t) = IF t < h THEN 0 ELSE DigitOf(2, V, t - h)
    <3> TAKE t \in 0..n - 1
    <3>1. t \in Nat /\ t >= 0 /\ t < h
      BY <1>2
    <3>2. DigitOf(2, 0, t) = 0
      BY <1>0, <2>1, <3>1, NoDigitsAbove
    <3> QED
      BY <3>1, <3>2
  <2>3. MovedUp(0, V, n, h)
    BY <2>1, <2>2, <1>2, <1>0 DEF MovedUp
  <2> QED
    BY <2>3
<1> QED
  BY <1>1, <1>2

(* A number shifted to the right is a number of n bits.                    *)
LEMMA DownIs ==
  ASSUME NEW n \in Nat, NEW V \in Nat, V < Power(2, n), NEW h \in Nat
  PROVE  \E v : MovedDown(v, V, n, h)
<1>0. 2 \in Nat \ {0} /\ 0 \in Nat
  OBVIOUS
<1>1. CASE h < n
  <2>1. PICK H \in Nat \ {0} : H = Power(2, h)
    BY <1>0, PowerType
  <2>2. PICK v \in Nat : v = V \div H /\ v <= V
    <3>1. PICK q \in Nat, r \in Nat : q = V \div H /\ r = V % H /\ r < H /\ V = H * q + r
      BY Division
    <3>2. PICK z \in Nat : H = z + 1
      <4>1. H - 1 \in Nat /\ H = (H - 1) + 1
        OBVIOUS
      <4> QED
        BY <4>1
    <3>3. V = z * q + q + r
      <4>1. (z + 1) * q + r = z * q + q + r
        BY ONLY z \in Nat, q \in Nat, r \in Nat
      <4> QED
        BY <4>1, <3>1, <3>2
    <3>4. PICK zq \in Nat : zq = z * q
      OBVIOUS
    <3> QED
      BY <3>1, <3>3, <3>4
  <2>3. v < Power(2, n)
    <3>1. Power(2, n) \in Nat
      BY <1>0, PowerType
    <3> QED
      BY <3>1, <2>2
  <2>4. \A t \in 0..n - 1 : DigitOf(2, v, t) = DigitOf(2, V, t + h)
    <3> TAKE t \in 0..n - 1
    <3>1. t \in Nat
      OBVIOUS
    <3>2. DigitOf(2, V \div Power(2, h), t) = DigitOf(2, V, t + h)
      BY <1>0, <3>1, DigitsMoveDown
    <3> QED
      BY <3>2, <2>1, <2>2
  <2>5. v = IF h < n THEN V \div Power(2, h) ELSE 0
    BY <1>1, <2>1, <2>2
  <2>6. MovedDown(v, V, n, h)
    BY <2>3, <2>4, <2>5 DEF MovedDown
  <2> QED
    BY <2>6
<1>2. CASE ~ (h < n)
  <2>1. 0 < Power(2, n) /\ 0 < Power(2, 0)
    <3>1. Power(2, n) \in Nat \ {0} /\ Power(2, 0) \in Nat \ {0}
      BY <1>0, PowerType
    <3> QED
      BY <3>1
  <2>2. \A t \in 0..n - 1 : DigitOf(2, 0, t) = DigitOf(2, V, t + h)
    <3> TAKE t \in 0..n - 1
    <3>1. t \in Nat /\ t >= 0 /\ t + h \in Nat /\ t + h >= n
      BY <1>2
    <3>2. DigitOf(2, 0, t) = 0
      BY <1>0, <2>1, <3>1, NoDigitsAbove
    <3>3. DigitOf(2, V, t + h) = 0
      BY <1>0, <3>1, NoDigitsAbove
    <3> QED
      BY <3>2, <3>3
  <2>3. MovedDown(0, V, n, h)
    BY <2>1, <2>2, <1>2, <1>0 DEF MovedDown
  <2> QED
    BY <2>3
<1> QED
  BY <1>1, <1>2

(* Bit D i + j is bit j of word i, also above the words, where all are 0.       *)
LEMMA BitAt ==
  ASSUME NEW w \in Nat, NEW a \in Integer(w), NEW i \in Nat, NEW j \in 0..DIGIT - 1
  PROVE  DigitOf(2, Value(a), DIGIT * i + j) = DigitOf(2, IF i \in DOMAIN a THEN a[i] ELSE 0, j)
<1>0. DOMAIN a = 0..w - 1 /\ DIGIT \in Nat \ {0} /\ j \in Nat
  BY WordsOf, SizesAre
<1>1. CASE i \in 0..w - 1
  BY <1>0, <1>1, BitOfWord
<1>2. CASE i \notin 0..w - 1
  <2>1. PICK g \in Nat : i = w + g
    <3>1. i - w \in Nat /\ i = w + (i - w)
      BY <1>2
    <3> QED
      BY <3>1
  <2>2. PICK dw \in Nat, dg \in Nat : dw = DIGIT * w /\ dg = DIGIT * g /\ DIGIT * i = dw + dg
    <3>1. DIGIT * (w + g) = DIGIT * w + DIGIT * g
      BY ONLY <1>0, w \in Nat, g \in Nat
    <3>2. DIGIT * w \in Nat /\ DIGIT * g \in Nat
      BY <1>0
    <3> QED
      BY <3>1, <3>2, <2>1
  <2>3. PICK v \in Nat : v = Value(a) /\ v < Power(2, dw)
    BY <2>2, ValueFacts, BitsOfWords
  <2>4. PICK t \in Nat : t = DIGIT * i + j /\ t >= dw
    <3>1. dw + dg + j \in Nat /\ dw + dg + j >= dw
      BY <1>0
    <3> QED
      BY <3>1, <2>2
  <2>5. 2 \in Nat \ {0} /\ 0 \in Nat /\ 0 >= 0 /\ j >= 0
    BY <1>0
  <2>6. DigitOf(2, v, t) = 0
    BY <2>3, <2>4, <2>5, NoDigitsAbove
  <2>7. DigitOf(2, 0, j) = 0
    <3>1. 0 < Power(2, 0)
      BY <2>5, PowerSteps
    <3> QED
      BY <3>1, <2>5, <1>0, NoDigitsAbove
  <2> QED
    BY <2>3, <2>4, <2>6, <2>7, <1>0, <1>2
<1> QED
  BY <1>1, <1>2

(* Every bit of w words is a bit of one of them.                                *)
LEMMA PlaceOfBit ==
  ASSUME NEW w \in Nat, NEW i \in 0..w - 1, NEW j \in 0..DIGIT - 1
  PROVE  DIGIT * i + j \in 0..DIGIT * w - 1
<1>1. PICK g \in Nat : w = i + 1 + g
  <2>1. w - i - 1 \in Nat /\ w = i + 1 + (w - i - 1)
    OBVIOUS
  <2> QED
    BY <2>1
<1>2. PICK di \in Nat, dg \in Nat : di = DIGIT * i /\ dg = DIGIT * g /\ DIGIT * w = di + DIGIT + dg
  <2>1. i \in Nat /\ DIGIT \in Nat
    BY SizesAre
  <2>2. DIGIT * (i + 1 + g) = DIGIT * i + DIGIT + DIGIT * g
    BY ONLY <2>1, g \in Nat
  <2>3. DIGIT * i \in Nat /\ DIGIT * g \in Nat
    BY <2>1
  <2> QED
    BY <2>2, <2>3, <1>1
<1> QED
  BY <1>2, SizesAre

(* operator<<= multiplies by a power of two, modulo the size.              *)
LEMMA ShiftLeftIs ==
  ASSUME NEW w \in Nat, NEW a \in Integer(w), NEW h \in Nat
  PROVE  /\ ShiftLeft(a, h) \in Integer(w)
         /\ Value(ShiftLeft(a, h))
              = IF h < DIGIT * w THEN (Value(a) % Power(2, DIGIT * w - h)) * Power(2, h) ELSE 0
<1>0. /\ DOMAIN a = 0..w - 1 /\ (\A i \in 0..w - 1 : a[i] \in WordRange) /\ 0 \in WordRange
      /\ DIGIT \in Nat \ {0} /\ 2 \in Nat \ {0} /\ 0 \in Nat
  BY WordsOf, SizesAre DEF WordRange
<1>1. PICK k \in Nat, s \in Nat : k = h \div DIGIT /\ s = h % DIGIT /\ s < DIGIT /\ h = DIGIT * k + s
  BY <1>0, Division
<1>s. s \in 0..DIGIT - 1
  BY <1>0, <1>1
<1> DEFINE At(i) == IF i >= 0 THEN a[i] ELSE 0
           r == ShiftLeft(a, h)
<1>2. \A i \in 0..w - 1 : At(i - k) \in WordRange /\ At(i - k - 1) \in WordRange
  <2> TAKE i \in 0..w - 1
  <2>1. (i - k >= 0 => i - k \in 0..w - 1) /\ (i - k - 1 >= 0 => i - k - 1 \in 0..w - 1)
    OBVIOUS
  <2> QED
    BY <2>1, <1>0
<1>3. r = [i \in 0..w - 1 |->
             Combine(Or, (At(i - k) * Power(2, s)) % WordSize,
                     IF s = 0 THEN 0 ELSE At(i - k - 1) \div Power(2, DIGIT - s), DIGIT)]
  BY <1>0, <1>1 DEF ShiftLeft
<1> HIDE DEF r
<1>4. ASSUME NEW i \in 0..w - 1
      PROVE  ShiftedUp(r[i], At(i - k), At(i - k - 1), s)
  <2>1. PICK x \in WordRange, y \in WordRange : x = At(i - k) /\ y = At(i - k - 1)
    BY <1>2
  <2>2. ShiftedUp(Combine(Or, (x * Power(2, s)) % WordSize,
                           IF s = 0 THEN 0 ELSE y \div Power(2, DIGIT - s), DIGIT), x, y, s)
    BY <1>s, WordUp
  <2> QED
    BY <1>3, <2>1, <2>2
<1>5. r \in Integer(w)
  <2>1. \A i \in 0..w - 1 : r[i] \in WordRange
    BY <1>4 DEF ShiftedUp
  <2>2. r = [i \in 0..w - 1 |-> r[i]]
    BY <1>3
  <2> QED
    BY ONLY <2>1, <2>2 DEF Integer, Words
<1>6. PICK n \in Nat : n = DIGIT * w
  BY BitsOfWords
<1>7. PICK V \in Nat : V = Value(a) /\ V < Power(2, n)
  BY <1>6, ValueFacts, BitsOfWords
<1>8. PICK v \in Nat :
        /\ v = IF h < n THEN (V % Power(2, n - h)) * Power(2, h) ELSE 0
        /\ v < Power(2, n)
        /\ \A t \in 0..n - 1 : DigitOf(2, v, t) = IF t < h THEN 0 ELSE DigitOf(2, V, t - h)
  <2>1. PICK u : MovedUp(u, V, n, h)
    BY <1>7, UpIs
  <2> QED
    BY <2>1 DEF MovedUp
<1>9. ASSUME NEW i \in 0..w - 1, NEW j \in 0..DIGIT - 1
      PROVE  DigitOf(2, r[i], j) = DigitOf(2, v, DIGIT * i + j)
  <2>0. DIGIT * i + j \in 0..n - 1 /\ i \in Nat /\ j \in Nat
    BY <1>6, PlaceOfBit
  <2>z. DigitOf(2, 0, j) = 0 /\ DigitOf(2, 0, j - s + DIGIT) = 0 /\ (j >= s => DigitOf(2, 0, j - s) = 0)
    <3>1. 0 < Power(2, 0)
      BY <1>0, PowerSteps
    <3>2. j - s + DIGIT \in Nat /\ (j >= s => j - s \in Nat) /\ \A x \in Nat : x >= 0
      BY <1>0, <1>1, <2>0
    <3> QED
      BY <3>1, <3>2, <1>0, <2>0, NoDigitsAbove
  <2>1. DigitOf(2, r[i], j) = IF j < s THEN DigitOf(2, At(i - k - 1), j + (DIGIT - s))
                                       ELSE DigitOf(2, At(i - k), j - s)
    BY <1>4 DEF ShiftedUp
  <2>2. DigitOf(2, v, DIGIT * i + j)
          = IF DIGIT * i + j < h THEN 0 ELSE DigitOf(2, V, (DIGIT * i + j) - h)
    BY <2>0, <1>8
  <2>3. CASE j >= s /\ i >= k
    <3>1. PICK g \in Nat, f \in 0..DIGIT - 1 : g = i - k /\ f = j - s /\ g \in 0..w - 1 /\ i = k + g /\ j = s + f
      <4>1. i - k \in Nat /\ j - s \in 0..DIGIT - 1 /\ i - k \in 0..w - 1 /\ i = k + (i - k) /\ j = s + (j - s)
        BY <2>3, <2>0, <1>0, <1>1
      <4> QED
        BY <4>1
    <3>2. PICK dg \in Nat : dg = DIGIT * g /\ DIGIT * i + j = h + (dg + f)
      <4>1. DIGIT * (k + g) + (s + f) = (DIGIT * k + s) + (DIGIT * g + f)
        BY ONLY <1>0, k \in Nat, g \in Nat, s \in Nat, f \in 0..DIGIT - 1
      <4>2. DIGIT * g \in Nat
        BY <1>0
      <4> QED
        BY <4>1, <4>2, <3>1, <1>1
    <3>3. ~ (DIGIT * i + j < h) /\ (DIGIT * i + j) - h = DIGIT * g + f
      BY <3>2, <1>0
    <3>4. DigitOf(2, V, DIGIT * g + f) = DigitOf(2, a[g], f)
      BY <3>1, <1>7, BitOfWord
    <3>5. At(i - k) = a[g]
      BY <3>1
    <3> QED
      BY <2>1, <2>2, <3>1, <3>3, <3>4, <3>5, <2>3, <2>0, <1>1
  <2>4. CASE j >= s /\ i < k
    <3>1. DIGIT * i + j < h
      <4>1. PICK g \in Nat : k = i + 1 + g
        <5>1. k - i - 1 \in Nat /\ k = i + 1 + (k - i - 1)
          BY <2>4, <2>0
        <5> QED
          BY <5>1
      <4>2. PICK di \in Nat, dg \in Nat : di = DIGIT * i /\ dg = DIGIT * g /\ DIGIT * k = di + DIGIT + dg
        <5>1. DIGIT * (i + 1 + g) = DIGIT * i + DIGIT + DIGIT * g
          BY ONLY <1>0, <2>0, g \in Nat
        <5>2. DIGIT * i \in Nat /\ DIGIT * g \in Nat
          BY <1>0, <2>0
        <5> QED
          BY <5>1, <5>2, <4>1
      <4> QED
        BY <4>2, <1>1, <1>0
    <3>2. At(i - k) = 0
      BY <2>4, <2>0
    <3>3. ~ (j < s)
      BY <2>4, <2>0, <1>1
    <3> QED
      BY <2>1, <2>2, <2>z, <3>1, <3>2, <3>3, <2>4
  <2>5. CASE j < s /\ i > k
    <3>1. PICK g \in Nat, f \in 0..DIGIT - 1 :
            g = i - k - 1 /\ f = j + (DIGIT - s) /\ g \in 0..w - 1 /\ i = k + g + 1 /\ j + DIGIT = s + f
      <4>1. i - k - 1 \in Nat /\ j + (DIGIT - s) \in 0..DIGIT - 1 /\ i - k - 1 \in 0..w - 1
            /\ i = k + (i - k - 1) + 1 /\ j + DIGIT = s + (j + (DIGIT - s))
        BY <2>5, <2>0, <1>0, <1>1
      <4> QED
        BY <4>1
    <3>2. PICK dg \in Nat : dg = DIGIT * g /\ DIGIT * i + j = h + (dg + f)
      <4>1. DIGIT * (k + g + 1) + j = DIGIT * k + DIGIT * g + (j + DIGIT)
        BY ONLY <1>0, k \in Nat, g \in Nat, j \in Nat
      <4>2. PICK dk \in Nat, dg \in Nat : dk = DIGIT * k /\ dg = DIGIT * g
        BY <1>0
      <4>3. dk + dg + (s + f) = (dk + s) + (dg + f)
        BY <1>0
      <4> QED
        BY <4>1, <4>2, <4>3, <3>1, <1>1, <2>0
    <3>3. ~ (DIGIT * i + j < h) /\ (DIGIT * i + j) - h = DIGIT * g + f
      BY <3>2, <1>0
    <3>4. DigitOf(2, V, DIGIT * g + f) = DigitOf(2, a[g], f)
      BY <3>1, <1>7, BitOfWord
    <3>5. At(i - k - 1) = a[g]
      BY <3>1
    <3> QED
      BY <2>1, <2>2, <3>1, <3>3, <3>4, <3>5, <2>5
  <2>6. CASE j < s /\ i <= k
    <3>1. DIGIT * i + j < h
      <4>1. PICK g \in Nat : k = i + g
        <5>1. k - i \in Nat /\ k = i + (k - i)
          BY <2>6, <2>0
        <5> QED
          BY <5>1
      <4>2. PICK di \in Nat, dg \in Nat : di = DIGIT * i /\ dg = DIGIT * g /\ DIGIT * k = di + dg
        <5>1. DIGIT * (i + g) = DIGIT * i + DIGIT * g
          BY ONLY <1>0, <2>0, g \in Nat
        <5>2. DIGIT * i \in Nat /\ DIGIT * g \in Nat
          BY <1>0, <2>0
        <5> QED
          BY <5>1, <5>2, <4>1
      <4> QED
        BY <4>2, <1>1, <1>0, <2>0, <2>6
    <3>2. At(i - k - 1) = 0
      BY <2>6, <2>0
    <3>3. DigitOf(2, 0, j + (DIGIT - s)) = 0
      <4>1. j + (DIGIT - s) = j - s + DIGIT
        BY <2>0, <1>0
      <4> QED
        BY <4>1, <2>z
    <3> QED
      BY <2>1, <2>2, <3>3, <3>1, <3>2, <2>6
  <2>7. (j >= s \/ j < s) /\ (i > k \/ i <= k) /\ (i >= k \/ i < k)
    BY <2>0, <1>1
  <2> QED
    BY <2>3, <2>4, <2>5, <2>6, <2>7
<1>10. Value(r) = v
  <2>1. v < Power(2, DIGIT * w)
    BY <1>6, <1>8
  <2> QED
    BY <2>1, <1>5, <1>9, SameBits
<1> QED
  BY <1>5, <1>6, <1>7, <1>8, <1>10 DEF r

(* operator>>= divides by a power of two.                                  *)
LEMMA ShiftRightIs ==
  ASSUME NEW w \in Nat, NEW a \in Integer(w), NEW h \in Nat
  PROVE  /\ ShiftRight(a, h) \in Integer(w)
         /\ Value(ShiftRight(a, h)) = IF h < DIGIT * w THEN Value(a) \div Power(2, h) ELSE 0
<1>0. /\ DOMAIN a = 0..w - 1 /\ (\A i \in 0..w - 1 : a[i] \in WordRange) /\ 0 \in WordRange
      /\ DIGIT \in Nat \ {0} /\ 2 \in Nat \ {0} /\ 0 \in Nat
  BY WordsOf, SizesAre DEF WordRange
<1>1. PICK k \in Nat, s \in Nat : k = h \div DIGIT /\ s = h % DIGIT /\ s < DIGIT /\ h = DIGIT * k + s
  BY <1>0, Division
<1>s. s \in 0..DIGIT - 1
  BY <1>0, <1>1
<1> DEFINE At(i) == IF i \in DOMAIN a THEN a[i] ELSE 0
           r == ShiftRight(a, h)
<1>2. \A i \in 0..w - 1 : At(i + k) \in WordRange /\ At(i + k + 1) \in WordRange
  BY <1>0
<1>3. r = [i \in 0..w - 1 |->
             Combine(Or, At(i + k) \div Power(2, s),
                     IF s = 0 THEN 0 ELSE (At(i + k + 1) * Power(2, DIGIT - s)) % WordSize, DIGIT)]
  BY <1>0, <1>1 DEF ShiftRight
<1> HIDE DEF r
<1>4. ASSUME NEW i \in 0..w - 1
      PROVE  ShiftedDown(r[i], At(i + k), At(i + k + 1), s)
  <2>1. PICK x \in WordRange, y \in WordRange : x = At(i + k) /\ y = At(i + k + 1)
    BY <1>2
  <2>2. ShiftedDown(Combine(Or, x \div Power(2, s),
                             IF s = 0 THEN 0 ELSE (y * Power(2, DIGIT - s)) % WordSize, DIGIT), x, y, s)
    BY <1>s, WordDown
  <2> QED
    BY <1>3, <2>1, <2>2
<1>5. r \in Integer(w)
  <2>1. \A i \in 0..w - 1 : r[i] \in WordRange
    BY <1>4 DEF ShiftedDown
  <2>2. r = [i \in 0..w - 1 |-> r[i]]
    BY <1>3
  <2> QED
    BY ONLY <2>1, <2>2 DEF Integer, Words
<1>6. PICK n \in Nat : n = DIGIT * w
  BY BitsOfWords
<1>7. PICK V \in Nat : V = Value(a) /\ V < Power(2, n)
  BY <1>6, ValueFacts, BitsOfWords
<1>8. PICK v \in Nat :
        /\ v = IF h < n THEN V \div Power(2, h) ELSE 0
        /\ v < Power(2, n)
        /\ \A t \in 0..n - 1 : DigitOf(2, v, t) = DigitOf(2, V, t + h)
  <2>1. PICK u : MovedDown(u, V, n, h)
    BY <1>7, DownIs
  <2> QED
    BY <2>1 DEF MovedDown
<1>9. ASSUME NEW i \in 0..w - 1, NEW j \in 0..DIGIT - 1
      PROVE  DigitOf(2, r[i], j) = DigitOf(2, v, DIGIT * i + j)
  <2>0. DIGIT * i + j \in 0..n - 1 /\ i \in Nat /\ j \in Nat
    BY <1>6, PlaceOfBit
  <2>1. DigitOf(2, r[i], j) = IF j + s < DIGIT THEN DigitOf(2, At(i + k), j + s)
                                               ELSE DigitOf(2, At(i + k + 1), (j + s) - DIGIT)
    BY <1>4 DEF ShiftedDown
  <2>2. DigitOf(2, v, DIGIT * i + j) = DigitOf(2, V, (DIGIT * i + j) + h)
    BY <2>0, <1>8
  <2>e. PICK di \in Nat, dk \in Nat : di = DIGIT * i /\ dk = DIGIT * k
    BY <1>0, <2>0
  <2>3. CASE j + s < DIGIT
    <3>1. PICK g \in Nat, f \in 0..DIGIT - 1 : g = i + k /\ f = j + s
      <4>1. i + k \in Nat /\ j + s \in 0..DIGIT - 1
        BY <2>3, <2>0, <1>0, <1>1
      <4> HIDE DEF At
      <4> QED
        BY ONLY <4>1
    <3>2. (DIGIT * i + j) + h = DIGIT * g + f
      <4>1. DIGIT * (i + k) = di + dk
        <5>1. DIGIT * (i + k) = DIGIT * i + DIGIT * k
          BY ONLY <1>0, <2>0, k \in Nat
        <5> QED
          BY <5>1, <2>e
      <4>2. (di + j) + (dk + s) = (di + dk) + (j + s)
        BY <2>0
      <4> QED
        BY <4>1, <4>2, <3>1, <2>e, <1>1
    <3>3. DigitOf(2, V, DIGIT * g + f) = DigitOf(2, At(g), f)
      BY <3>1, <1>7, BitAt
    <3> QED
      BY <2>1, <2>2, <3>1, <3>2, <3>3, <2>3
  <2>4. CASE ~ (j + s < DIGIT)
    <3>1. PICK g \in Nat, f \in 0..DIGIT - 1 : g = i + k + 1 /\ f = (j + s) - DIGIT /\ j + s = DIGIT + f
      <4>1. i + k + 1 \in Nat /\ (j + s) - DIGIT \in 0..DIGIT - 1 /\ j + s = DIGIT + ((j + s) - DIGIT)
        BY <2>4, <2>0, <1>0, <1>1
      <4> HIDE DEF At
      <4> QED
        BY ONLY <4>1
    <3>2. (DIGIT * i + j) + h = DIGIT * g + f
      <4>1. DIGIT * (i + k + 1) = di + dk + DIGIT
        <5>1. DIGIT * (i + k + 1) = DIGIT * i + DIGIT * k + DIGIT
          BY ONLY <1>0, <2>0, k \in Nat
        <5> QED
          BY <5>1, <2>e
      <4>2. (di + j) + (dk + s) = (di + dk) + (j + s) /\ (di + dk) + (DIGIT + f) = (di + dk + DIGIT) + f
        BY <2>0, <1>0
      <4> QED
        BY <4>1, <4>2, <3>1, <2>e, <1>1
    <3>3. DigitOf(2, V, DIGIT * g + f) = DigitOf(2, At(g), f)
      BY <3>1, <1>7, BitAt
    <3> QED
      BY <2>1, <2>2, <3>1, <3>2, <3>3, <2>4
  <2> QED
    BY <2>3, <2>4
<1>10. Value(r) = v
  <2>1. v < Power(2, DIGIT * w)
    BY <1>6, <1>8
  <2> QED
    BY <2>1, <1>5, <1>9, SameBits
<1> QED
  BY <1>5, <1>6, <1>7, <1>8, <1>10 DEF r

-----------------------------------------------------------------------------
(* Every operator counts.                                                       *)

(* The numerals of the abstract counter are those of the words.                 *)
LEMMA SameNumerals ==
  /\ \A x, y : Counter!Power(x, y) = Power(x, y)
  /\ \A z, x, y, k : Counter!Combine(z, x, y, k) = Combine(z, x, y, k)
  /\ Counter!Xor = Xor /\ Counter!And = And /\ Counter!Or = Or
<1>1. ASSUME NEW x, NEW y PROVE Counter!Power(x, y) = Power(x, y)
  BY DEF Counter!Power, Power
<1>2. ASSUME NEW x, NEW y, NEW z PROVE Counter!Number(x, y, z) = Number(x, y, z)
  BY DEF Counter!Number, Number
<1>3. ASSUME NEW x, NEW y, NEW z PROVE Counter!DigitOf(x, y, z) = DigitOf(x, y, z)
  BY <1>1 DEF Counter!DigitOf, DigitOf
<1>4. ASSUME NEW z, NEW x, NEW y, NEW k PROVE Counter!Combine(z, x, y, k) = Combine(z, x, y, k)
  BY <1>2, <1>3 DEF Counter!Combine, Combine
<1> QED
  BY <1>1, <1>4 DEF Counter!Xor, Counter!And, Counter!Or, Xor, And, Or

(* The modulus of BigInteger is the number of values of WIDTH words.       *)
LEMMA ModulusIs ==
  /\ Counter!Modulus = Power(WordSize, WIDTH)
  /\ Power(WordSize, WIDTH) \in Nat \ {0}
  /\ Power(WordSize, WIDTH) = Power(2, DIGIT * WIDTH)
BY SameNumerals, SizesAre DEF Counter!Modulus

(* An operand fits, so its words have its value.                           *)
LEMMA OperandIs ==
  ASSUME NEW v \in Operands
  PROVE  /\ v \in Nat /\ v < Power(WordSize, WIDTH)
         /\ Of(v, WIDTH) \in Integer(WIDTH) /\ Value(Of(v, WIDTH)) = v
<1>1. v \in 0..Power(WordSize, WIDTH) - 1
  BY DigitAssumption, SizesAre
<1>2. v \in Nat /\ v < Power(WordSize, WIDTH) /\ WIDTH \in Nat
  BY <1>1, SizesAre
<1> QED
  BY <1>2, OfIs

(* The operands of 64 bits are those the counter calls short.                   *)
LEMMA ShortIs ==
  ASSUME NEW v \in Operands
  PROVE  v < WordSize * WordSize <=> v \in Counter!Shorts
<1>1. 2 \in Nat \ {0} /\ DIGIT \in Nat
  BY SizesAre
<1>2. Power(2, DIGIT + DIGIT) = WordSize * WordSize
  BY <1>1, SizesAre, PowerAdd
<1>3. DIGIT + DIGIT = 2 * DIGIT
  BY <1>1
<1> QED
  BY <1>2, <1>3, SameNumerals DEF Counter!Shorts

UiTypeOK == pn \in Integer(WIDTH) /\ uiAnswer \in BOOLEAN

(* The unary operators map to those of BigInteger.                         *)
LEMMA UnaryCounts ==
  ASSUME UiTypeOK, Unary
  PROVE  pn' \in Integer(WIDTH) /\ Counter!Unary
<1>0. pn \in Integer(WIDTH) /\ WIDTH \in Nat
  BY SizesAre DEF UiTypeOK
<1>1. CASE Sets("~", 0, Complement(pn))
  BY <1>0, <1>1, ModulusIs, ComplementCounts DEF Sets, Calls, Counter!Unary, Counter!Sets
<1>2. CASE Sets("neg", 0, Negative(pn))
  BY <1>0, <1>2, ModulusIs, NegativeIs DEF Sets, Calls, Counter!Unary, Counter!Sets
<1>3. CASE Sets("++", 0, Increment(pn))
  BY <1>0, <1>3, ModulusIs, IncrementIs DEF Sets, Calls, Counter!Unary, Counter!Sets
<1>4. CASE Sets("--", 0, Decrement(pn))
  BY <1>0, <1>4, ModulusIs, DecrementIs DEF Sets, Calls, Counter!Unary, Counter!Sets
<1>5. CASE Tells("!", 0, IsZero(pn))
  <2>1. IsZero(pn) = (Value(pn) = 0)
    BY <1>0, IsZeroIs DEF IsZero
  <2>2. pn' = pn /\ uiCall' = <<"!", 0>> /\ uiAnswer' = (Value(pn) = 0)
    BY <1>5, <2>1 DEF Tells, Calls
  <2>3. Counter!Tells("!", 0, Value(pn) = 0)
    BY <2>2 DEF Counter!Tells
  <2> QED
    BY <1>0, <2>2, <2>3 DEF Counter!Unary
<1> QED
  BY <1>1, <1>2, <1>3, <1>4, <1>5 DEF Unary

(* The operators with an integer on the right map to those of BigInteger. *)
LEMMA BinaryCounts ==
  ASSUME UiTypeOK, NEW v \in Operands, Binary(v)
  PROVE  pn' \in Integer(WIDTH) /\ Counter!Binary(v)
<1>0. pn \in Integer(WIDTH) /\ WIDTH \in Nat
  BY SizesAre DEF UiTypeOK
<1>b. PICK b \in Integer(WIDTH) : b = Of(v, WIDTH) /\ Value(b) = v
  BY OperandIs
<1>1. \/ Sets("^=", v, Bitwise(Xor, pn, b))
      \/ Sets("&=", v, Bitwise(And, pn, b))
      \/ Sets("|=", v, Bitwise(Or, pn, b))
      \/ Sets("+=", v, Plus(pn, b))
      \/ Sets("-=", v, Minus(pn, b))
  BY <1>b DEF Binary
<1>2. CASE Sets("^=", v, Bitwise(Xor, pn, b))
  <2>1. /\ Bitwise(Xor, pn, b) \in Integer(WIDTH)
        /\ Value(Bitwise(Xor, pn, b)) = Counter!Combine(Counter!Xor, Value(pn), v, DIGIT * WIDTH)
    BY <1>0, <1>b, SameNumerals, BitwiseIs
  <2> QED
    BY <1>2, <2>1 DEF Sets, Calls, Counter!Binary, Counter!Sets
<1>3. CASE Sets("&=", v, Bitwise(And, pn, b))
  <2>1. /\ Bitwise(And, pn, b) \in Integer(WIDTH)
        /\ Value(Bitwise(And, pn, b)) = Counter!Combine(Counter!And, Value(pn), v, DIGIT * WIDTH)
    BY <1>0, <1>b, SameNumerals, BitwiseIs
  <2> QED
    BY <1>3, <2>1 DEF Sets, Calls, Counter!Binary, Counter!Sets
<1>4. CASE Sets("|=", v, Bitwise(Or, pn, b))
  <2>1. /\ Bitwise(Or, pn, b) \in Integer(WIDTH)
        /\ Value(Bitwise(Or, pn, b)) = Counter!Combine(Counter!Or, Value(pn), v, DIGIT * WIDTH)
    BY <1>0, <1>b, SameNumerals, BitwiseIs
  <2> QED
    BY <1>4, <2>1 DEF Sets, Calls, Counter!Binary, Counter!Sets
<1>5. CASE Sets("+=", v, Plus(pn, b))
  <2>1. /\ Plus(pn, b) \in Integer(WIDTH)
        /\ Value(Plus(pn, b)) = (Value(pn) + v) % Counter!Modulus
    BY <1>0, <1>b, ModulusIs, PlusIs
  <2> QED
    BY <1>5, <2>1 DEF Sets, Calls, Counter!Binary, Counter!Sets
<1>6. CASE Sets("-=", v, Minus(pn, b))
  <2>1. /\ Minus(pn, b) \in Integer(WIDTH)
        /\ Value(Minus(pn, b)) = (Value(pn) + Counter!Modulus - v) % Counter!Modulus
    BY <1>0, <1>b, ModulusIs, MinusIs DEF Minus
  <2> QED
    BY <1>6, <2>1 DEF Sets, Calls, Counter!Binary, Counter!Sets
<1> QED
  BY <1>1, <1>2, <1>3, <1>4, <1>5, <1>6

(* The operators with 64 bits on the right map to those of BigInteger.     *)
LEMMA ShortsCount ==
  ASSUME UiTypeOK, NEW v \in Operands, v < WordSize * WordSize, WithUint64(v)
  PROVE  pn' \in Integer(WIDTH) /\ Counter!WithShort(v)
<1>0. pn \in Integer(WIDTH) /\ WIDTH \in Nat /\ v \in Nat
  BY SizesAre, OperandIs DEF UiTypeOK
<1>b. PICK b \in Integer(WIDTH) : b = Of(v, WIDTH) /\ b = FromUint64(v) /\ Value(b) = v
  BY <1>0, OperandIs, FromUint64Is
<1>2. CASE Sets("=64", v, FromUint64(v))
  BY <1>2, <1>b DEF Sets, Calls, Counter!WithShort, Counter!Sets
<1>3. CASE Sets("^=64", v, BitwiseUint64(Xor, pn, v))
  <2>1. BitwiseUint64(Xor, pn, v) = Bitwise(Xor, pn, b)
    <3>1. <<0, 0>> \notin Xor /\ <<1, 0>> \in Xor
      BY DEF Xor
    <3> QED
      BY <3>1, <1>0, <1>b, BitwiseUint64Is
  <2>2. /\ Bitwise(Xor, pn, b) \in Integer(WIDTH)
        /\ Value(Bitwise(Xor, pn, b)) = Counter!Combine(Counter!Xor, Value(pn), v, DIGIT * WIDTH)
    BY <1>0, <1>b, SameNumerals, BitwiseIs
  <2> QED
    BY <1>3, <2>1, <2>2 DEF Sets, Calls, Counter!WithShort, Counter!Sets
<1>4. CASE Sets("|=64", v, BitwiseUint64(Or, pn, v))
  <2>1. BitwiseUint64(Or, pn, v) = Bitwise(Or, pn, b)
    <3>1. <<0, 0>> \notin Or /\ <<1, 0>> \in Or
      BY DEF Or
    <3> QED
      BY <3>1, <1>0, <1>b, BitwiseUint64Is
  <2>2. /\ Bitwise(Or, pn, b) \in Integer(WIDTH)
        /\ Value(Bitwise(Or, pn, b)) = Counter!Combine(Counter!Or, Value(pn), v, DIGIT * WIDTH)
    BY <1>0, <1>b, SameNumerals, BitwiseIs
  <2> QED
    BY <1>4, <2>1, <2>2 DEF Sets, Calls, Counter!WithShort, Counter!Sets
<1>5. CASE Sets("+=64", v, PlusUint64(pn, v))
  <2>1. /\ PlusUint64(pn, v) \in Integer(WIDTH)
        /\ Value(PlusUint64(pn, v)) = (Value(pn) + v) % Counter!Modulus
    BY <1>0, <1>b, ModulusIs, PlusIs DEF PlusUint64
  <2> QED
    BY <1>5, <2>1 DEF Sets, Calls, Counter!WithShort, Counter!Sets
<1>6. CASE Sets("-=64", v, MinusUint64(pn, v))
  <2>1. /\ MinusUint64(pn, v) \in Integer(WIDTH)
        /\ Value(MinusUint64(pn, v)) = (Value(pn) + Counter!Modulus - v) % Counter!Modulus
    BY <1>0, <1>b, ModulusIs, MinusIs DEF MinusUint64
  <2> QED
    BY <1>6, <2>1 DEF Sets, Calls, Counter!WithShort, Counter!Sets
<1>7. CASE Tells("==64", v, EqualUint64(pn, v))
  <2>1. EqualUint64(pn, v) = (Value(pn) = v)
    BY <1>0, EqualUint64Is DEF EqualUint64
  <2>2. pn' = pn /\ uiCall' = <<"==64", v>> /\ uiAnswer' = (Value(pn) = v)
    BY <1>7, <2>1 DEF Tells, Calls
  <2>3. Counter!Tells("==64", v, Value(pn) = v)
    BY <2>2 DEF Counter!Tells
  <2> QED
    BY <1>0, <2>2, <2>3 DEF Counter!WithShort
<1> QED
  BY <1>2, <1>3, <1>4, <1>5, <1>6, <1>7 DEF WithUint64

(* The shifts map to those of BigInteger.                                  *)
LEMMA ShiftsCount ==
  ASSUME UiTypeOK, NEW s \in Nat, Shifts(s)
  PROVE  pn' \in Integer(WIDTH) /\ Counter!Shifts(s)
<1>0. pn \in Integer(WIDTH) /\ WIDTH \in Nat
  BY SizesAre DEF UiTypeOK
<1>1. CASE Sets("<<=", s, ShiftLeft(pn, s))
  BY <1>0, <1>1, SameNumerals, ShiftLeftIs DEF Sets, Calls, Counter!Shifts, Counter!Sets
<1>2. CASE Sets(">>=", s, ShiftRight(pn, s))
  BY <1>0, <1>2, SameNumerals, ShiftRightIs DEF Sets, Calls, Counter!Shifts, Counter!Sets
<1> QED
  BY <1>1, <1>2 DEF Shifts

(* The comparisons map to those of BigInteger.                             *)
LEMMA ComparisonsCount ==
  ASSUME UiTypeOK, NEW v \in Operands, Comparisons(v)
  PROVE  pn' \in Integer(WIDTH) /\ Counter!Comparisons(v)
<1>0. pn \in Integer(WIDTH) /\ WIDTH \in Nat
  BY SizesAre DEF UiTypeOK
<1>b. PICK b \in Integer(WIDTH) : b = Of(v, WIDTH) /\ Value(b) = v
  BY OperandIs
<1>t. /\ Less(pn, b) = (Value(pn) < v) /\ AtMost(pn, b) = (Value(pn) <= v)
      /\ Greater(pn, b) = (Value(pn) > v) /\ AtLeast(pn, b) = (Value(pn) >= v)
      /\ Equal(pn, b) = (Value(pn) = v)
  <2>1. /\ Less(pn, b) <=> Value(pn) < v
        /\ AtMost(pn, b) <=> Value(pn) <= v
        /\ Greater(pn, b) <=> Value(pn) > v
        /\ AtLeast(pn, b) <=> Value(pn) >= v
        /\ Equal(pn, b) <=> Value(pn) = v
    BY <1>0, <1>b, ComparisonsAre, EqualIs
  <2>2. Less(pn, b) = (Value(pn) < v)
    <3>1. Less(pn, b) \in BOOLEAN
      BY DEF Less
    <3> QED
      BY <2>1, <3>1
  <2>3. AtMost(pn, b) = (Value(pn) <= v)
    BY <2>1 DEF AtMost
  <2>4. Greater(pn, b) = (Value(pn) > v)
    <3>1. Greater(pn, b) \in BOOLEAN
      BY DEF Greater
    <3> QED
      BY <2>1, <3>1
  <2>5. AtLeast(pn, b) = (Value(pn) >= v)
    BY <2>1 DEF AtLeast
  <2>6. Equal(pn, b) = (Value(pn) = v)
    BY <2>1 DEF Equal
  <2> QED
    BY <2>2, <2>3, <2>4, <2>5, <2>6
<1>1. \/ Tells("<", v, Less(pn, b))
      \/ Tells("<=", v, AtMost(pn, b))
      \/ Tells(">", v, Greater(pn, b))
      \/ Tells(">=", v, AtLeast(pn, b))
      \/ Tells("==", v, Equal(pn, b))
  BY <1>b DEF Comparisons
<1>2. CASE Tells("<", v, Less(pn, b))
  <2>1. pn' = pn /\ uiCall' = <<"<", v>> /\ uiAnswer' = (Value(pn) < v)
    BY <1>2, <1>t DEF Tells, Calls
  <2>2. Counter!Tells("<", v, Value(pn) < v)
    BY <2>1 DEF Counter!Tells
  <2> QED
    BY <1>0, <2>1, <2>2 DEF Counter!Comparisons
<1>3. CASE Tells("<=", v, AtMost(pn, b))
  <2>1. pn' = pn /\ uiCall' = <<"<=", v>> /\ uiAnswer' = (Value(pn) <= v)
    BY <1>3, <1>t DEF Tells, Calls
  <2>2. Counter!Tells("<=", v, Value(pn) <= v)
    BY <2>1 DEF Counter!Tells
  <2> QED
    BY <1>0, <2>1, <2>2 DEF Counter!Comparisons
<1>4. CASE Tells(">", v, Greater(pn, b))
  <2>1. pn' = pn /\ uiCall' = <<">", v>> /\ uiAnswer' = (Value(pn) > v)
    BY <1>4, <1>t DEF Tells, Calls
  <2>2. Counter!Tells(">", v, Value(pn) > v)
    BY <2>1 DEF Counter!Tells
  <2> QED
    BY <1>0, <2>1, <2>2 DEF Counter!Comparisons
<1>5. CASE Tells(">=", v, AtLeast(pn, b))
  <2>1. pn' = pn /\ uiCall' = <<">=", v>> /\ uiAnswer' = (Value(pn) >= v)
    BY <1>5, <1>t DEF Tells, Calls
  <2>2. Counter!Tells(">=", v, Value(pn) >= v)
    BY <2>1 DEF Counter!Tells
  <2> QED
    BY <1>0, <2>1, <2>2 DEF Counter!Comparisons
<1>6. CASE Tells("==", v, Equal(pn, b))
  <2>1. pn' = pn /\ uiCall' = <<"==", v>> /\ uiAnswer' = (Value(pn) = v)
    BY <1>6, <1>t DEF Tells, Calls
  <2>2. Counter!Tells("==", v, Value(pn) = v)
    BY <2>1 DEF Counter!Tells
  <2> QED
    BY <1>0, <2>1, <2>2 DEF Counter!Comparisons
<1> QED
  BY <1>1, <1>2, <1>3, <1>4, <1>5, <1>6

(* A step of the words is a step of the counter.                                *)
LEMMA StepCounts ==
  ASSUME UiTypeOK, UiNext
  PROVE  pn' \in Integer(WIDTH) /\ Counter!Next
<1>1. CASE Unary
  BY <1>1, UnaryCounts DEF Counter!Next
<1>2. ASSUME NEW v \in Operands, Binary(v) \/ Comparisons(v)
      PROVE  pn' \in Integer(WIDTH) /\ Counter!Next
  <2>1. pn' \in Integer(WIDTH) /\ (Counter!Binary(v) \/ Counter!Comparisons(v))
    BY <1>2, BinaryCounts, ComparisonsCount
  <2> QED
    BY <2>1 DEF Counter!Next
<1>3. ASSUME NEW v \in Operands, v < WordSize * WordSize, WithUint64(v)
      PROVE  pn' \in Integer(WIDTH) /\ Counter!Next
  <2>1. pn' \in Integer(WIDTH) /\ Counter!WithShort(v) /\ v \in Counter!Shorts
    BY <1>3, ShortsCount, ShortIs
  <2> QED
    BY <2>1 DEF Counter!Next
<1>4. ASSUME NEW s \in 0..DIGIT * WIDTH + 1, Shifts(s)
      PROVE  pn' \in Integer(WIDTH) /\ Counter!Next
  <2>1. s \in Nat
    BY SizesAre
  <2>2. pn' \in Integer(WIDTH) /\ Counter!Shifts(s)
    BY <1>4, <2>1, ShiftsCount
  <2> QED
    BY <2>2 DEF Counter!Next
<1> QED
  BY <1>1, <1>2, <1>3, <1>4 DEF UiNext

(* The words of base_uint stay words, and a comparison answers yes or no.       *)
THEOREM UiTypeCorrect == UiSpec => []UiTypeOK
<1>1. UiInit => UiTypeOK
  BY OperandIs DEF UiInit, UiTypeOK
<1>2. UiTypeOK /\ [UiNext]_uiVars => UiTypeOK'
  <2> SUFFICES ASSUME UiTypeOK, [UiNext]_uiVars PROVE UiTypeOK'
    OBVIOUS
  <2>1. CASE UiNext
    <3>1. pn' \in Integer(WIDTH)
      BY <2>1, StepCounts
    <3>2. uiAnswer' \in BOOLEAN
      BY <2>1 DEF UiNext, UiTypeOK, Unary, Binary, WithUint64, Shifts, Comparisons, Sets, Tells,
                  IsZero, EqualUint64, Less, AtMost, Greater, AtLeast, Equal
    <3> QED
      BY <3>1, <3>2 DEF UiTypeOK
  <2>2. CASE UNCHANGED uiVars
    BY <2>2 DEF uiVars, UiTypeOK
  <2> QED
    BY <2>1, <2>2
<1> QED
  BY <1>1, <1>2, PTL DEF UiSpec

(* base_uint counts: whatever the width of a word and the number of words, its  *)
(* operators and comparisons are those of the integers modulo 2^BITS.           *)
THEOREM WordsCount == UiSpec => CountsModulo
<1>1. UiInit => Counter!Init
  BY OperandIs DEF UiInit, Counter!Init
<1>2. UiTypeOK /\ [UiNext]_uiVars => [Counter!Next]_Counter!vars
  <2> SUFFICES ASSUME UiTypeOK, [UiNext]_uiVars PROVE [Counter!Next]_Counter!vars
    OBVIOUS
  <2>1. CASE UiNext
    BY <2>1, StepCounts
  <2>2. CASE UNCHANGED uiVars
    BY <2>2 DEF uiVars, Counter!vars
  <2> QED
    BY <2>1, <2>2
<1> QED
  BY <1>1, <1>2, UiTypeCorrect, PTL DEF UiSpec, CountsModulo, Counter!Spec

-----------------------------------------------------------------------------
(* What an integer writes, and reads.                                           *)

(* A word is eight hexadecimal digits.                                          *)
LEMMA HexSizes ==
  /\ HexDigit \in Nat \ {0} /\ WordSize = Power(HexDigit, 8)
  /\ \A w \in Nat : Power(HexDigit, 8 * w) = Power(WordSize, w)
<1>1. PICK e \in Nat : e = DIGIT \div 8 /\ DIGIT = e * 8
  <2>1. 8 \in Nat \ {0} /\ DIGIT \in Nat /\ DIGIT % 8 = 0
    BY DigitAssumption
  <2>2. PICK q \in Nat, r \in Nat : q = DIGIT \div 8 /\ r = DIGIT % 8 /\ r < 8 /\ DIGIT = 8 * q + r
    BY <2>1, Division
  <2>3. DIGIT = q * 8
    BY <2>1, <2>2
  <2> QED
    BY <2>2, <2>3
<1>2. 2 \in Nat \ {0} /\ 8 \in Nat
  OBVIOUS
<1>3. PICK h \in Nat \ {0} : h = HexDigit /\ h = Power(2, e)
  BY <1>1, <1>2, PowerType DEF HexDigit
<1>4. Power(Power(2, e), 8) = Power(2, e * 8)
  BY <1>2, PowerOfPower
<1>5. Power(h, 8) = WordSize
  BY <1>1, <1>3, <1>4, SizesAre
<1>6. ASSUME NEW w \in Nat PROVE Power(h, 8 * w) = Power(WordSize, w)
  <2>1. Power(Power(h, 8), w) = Power(h, 8 * w)
    BY <1>2, PowerOfPower
  <2> QED
    BY <2>1, <1>5
<1> QED
  BY <1>3, <1>5, <1>6

(* HexAt is the digit of the integer.                                           *)
LEMMA HexAtIs ==
  ASSUME NEW w \in Nat, NEW a \in Integer(w), NEW k \in 0..8 * w - 1
  PROVE  /\ HexAt(a, k) = DigitOf(HexDigit, Value(a), k)
         /\ HexAt(a, k) \in 0..HexDigit - 1
<1>1. PICK i \in Nat, j \in Nat : i = k \div 8 /\ j = k % 8 /\ j < 8 /\ k = 8 * i + j
  <2>1. 8 \in Nat \ {0} /\ k \in Nat
    OBVIOUS
  <2> QED
    BY <2>1, Division
<1>2. i \in 0..w - 1
  BY <1>1
<1>3. PICK v \in Nat : v = Value(a) /\ DigitOf(WordSize, v, i) = a[i]
  BY <1>2, ValueFacts
<1>4. PICK h \in Nat \ {0}, m \in Nat : h = HexDigit /\ m = 8 /\ Power(h, m) = WordSize
  <2>1. 8 \in Nat
    OBVIOUS
  <2> QED
    BY <2>1, HexSizes
<1>5. DigitOf(h, v, m * i + j) = DigitOf(h, DigitOf(Power(h, m), v, i), j)
  <2>1. j < m
    BY <1>1, <1>4
  <2> QED
    BY <2>1, DigitOfDigit
<1>6. HexAt(a, k) = DigitOf(HexDigit, v, k)
  <2>1. m * i + j = k
    BY <1>1, <1>4
  <2>2. HexAt(a, k) = DigitOf(h, a[i], j)
    BY <1>1, <1>4 DEF HexAt
  <2> QED
    BY <2>1, <2>2, <1>3, <1>4, <1>5
<1>7. DigitOf(HexDigit, v, k) \in 0..HexDigit - 1
  <2>1. k \in Nat
    OBVIOUS
  <2> QED
    BY <2>1, HexSizes, DigitType
<1> QED
  BY <1>3, <1>6, <1>7

(* GetHex writes the digits, the highest first.                                 *)
LEMMA GetHexIs ==
  ASSUME NEW w \in Nat, NEW a \in Integer(w)
  PROVE  /\ GetHex(a) \in Seq(Int) /\ Len(GetHex(a)) = 8 * w
         /\ \A k \in 1..8 * w : GetHex(a)[k] = HexAt(a, 8 * w - k) /\ GetHex(a)[k] \in 0..HexDigit - 1
<1>1. Cardinality(DOMAIN a) = w
  <2>1. DOMAIN a = Words(w)
    BY DEF Integer
  <2> QED
    BY <2>1, WordsSize
<1>2. PICK n \in Nat : n = 8 * w
  OBVIOUS
<1>3. GetHex(a) = [k \in 1..n |-> HexAt(a, n - k)]
  BY <1>1, <1>2 DEF GetHex
<1>4. \A k \in 1..n : HexAt(a, n - k) \in 0..HexDigit - 1
  <2> TAKE k \in 1..n
  <2>1. n - k \in 0..8 * w - 1
    BY <1>2
  <2> QED
    BY <2>1, HexAtIs
<1>5. 0..HexDigit - 1 \subseteq Int
  OBVIOUS
<1>6. GetHex(a) \in Seq(Int) /\ Len(GetHex(a)) = n
  BY <1>3, <1>4, <1>5
<1>7. \A k \in 1..n : GetHex(a)[k] = HexAt(a, n - k) /\ GetHex(a)[k] \in 0..HexDigit - 1
  BY <1>3, <1>4
<1> QED
  BY <1>2, <1>6, <1>7

(* The hexadecimal string is the number, highest digit first.                   *)
LEMMA HexIsNumber ==
  ASSUME NEW w \in Nat, NEW a \in Integer(w)
  PROVE  LET hex == GetHex(a)
             digits == [k \in 0..8 * w - 1 |-> hex[8 * w - k]]
         IN  Number(HexDigit, digits, 8 * w) = Value(a)
<1>1. PICK hex \in Seq(Int), n \in Nat :
        /\ hex = GetHex(a) /\ n = 8 * w /\ Len(hex) = n
        /\ \A k \in 1..n : hex[k] = HexAt(a, n - k)
  BY GetHexIs
<1>2. PICK d : d = [k \in 0..n - 1 |-> hex[n - k]]
  OBVIOUS
<1>3. PICK v \in Nat : v = Value(a) /\ v < Power(WordSize, w)
  BY ValueFacts
<1>4. \A k \in 0..n - 1 : d[k] = DigitOf(HexDigit, v, k)
  <2> TAKE k \in 0..n - 1
  <2>1. n - k \in 1..n /\ n - (n - k) = k /\ k \in 0..8 * w - 1
    BY <1>1
  <2>2. d[k] = HexAt(a, k)
    BY <2>1, <1>1, <1>2
  <2> QED
    BY <2>1, <2>2, <1>3, HexAtIs
<1>5. Number(HexDigit, d, n) = v % Power(HexDigit, n)
  BY <1>4, HexSizes, NumberOfDigits, ZenonT(30)
<1>6. Power(HexDigit, n) = Power(WordSize, w) /\ Power(WordSize, w) \in Nat \ {0}
  BY <1>1, HexSizes, SizesAre, PowerType
<1>7. Number(HexDigit, d, n) = v
  BY <1>3, <1>5, <1>6, SmallRemainder
<1> QED
  BY <1>1, <1>2, <1>3, <1>7

(* How far the prefix of a sequence goes in which every element has a property. *)
Prefix(l, T) == {k \in 1..l : \A j \in 1..k : j \in T}

(* The prefix of n elements that have the property has n members.          *)
LEMMA PrefixSize ==
  ASSUME NEW n \in Nat, NEW l \in Nat, n <= l, NEW T \in SUBSET Int,
         1..n \subseteq T, n < l => n + 1 \notin T
  PROVE  Cardinality(Prefix(l, T)) = n
<1>1. Prefix(l, T) = 1..n
  <2>1. ASSUME NEW k \in 1..l, \A j \in 1..k : j \in T PROVE k \in 1..n
    <3>1. CASE k <= n
      BY <3>1
    <3>2. CASE k > n
      <4>1. n + 1 \in 1..k /\ n < l
        BY <3>2
      <4> QED
        BY <4>1, <2>1
    <3> QED
      BY <3>1, <3>2
  <2>2. ASSUME NEW k \in 1..n PROVE k \in 1..l /\ \A j \in 1..k : j \in T
    BY <2>2
  <2> QED
    BY <2>1, <2>2 DEF Prefix
<1>2. Cardinality(1..n) = n
  BY FS_Interval
<1> QED
  BY <1>1, <1>2

(* SetHex reads digits up to the first other character, the last one lowest.    *)
LEMMA SetHexReads ==
  ASSUME NEW w \in Nat, NEW a \in Integer(w), NEW str, NEW s \in Seq(Int),
         s = Skip0x(SkipBlanks(str)), 8 * w <= Len(s),
         \A k \in 1..8 * w : s[k] = GetHex(a)[k],
         8 * w < Len(s) => ~ IsHex(s[8 * w + 1])
  PROVE  SetHex(str, w) = a
<1>1. PICK n \in Nat, l \in Nat : n = 8 * w /\ l = Len(s) /\ n <= l
  <2>1. Len(s) \in Nat
    OBVIOUS
  <2> QED
    BY <2>1
<1>2. \A k \in 1..n : s[k] = HexAt(a, n - k) /\ IsHex(s[k])
  BY <1>1, GetHexIs DEF IsHex
<1>3. Cardinality({k \in DOMAIN s : \A j \in 1..k : IsHex(s[j])}) = n
  <2> DEFINE T == {j \in Int : IsHex(s[j])}
  <2>1. DOMAIN s = 1..l
    BY <1>1
  <2>2. \A k \in DOMAIN s : (\A j \in 1..k : IsHex(s[j])) <=> \A j \in 1..k : j \in T
    BY <2>1
  <2>3. 1..n \subseteq T /\ T \in SUBSET Int /\ (n < l => n + 1 \notin T)
    BY <1>1, <1>2
  <2> HIDE DEF T
  <2>4. {k \in DOMAIN s : \A j \in 1..k : IsHex(s[j])} = Prefix(l, T)
    BY <2>1, <2>2 DEF Prefix
  <2> QED
    <3>1. Cardinality(Prefix(l, T)) = n
      BY <2>3, <1>1, PrefixSize
    <3> QED
      BY ONLY <2>4, <3>1
<1> DEFINE d(k) == IF k < n THEN s[n - k] ELSE 0
<1>4. SetHex(str, w) = [i \in Words(w) |-> Number(HexDigit, [j \in 0..7 |-> d(8 * i + j)], 8)]
  BY <1>3 DEF SetHex
<1>5. ASSUME NEW i \in 0..w - 1
      PROVE  Number(HexDigit, [j \in 0..7 |-> d(8 * i + j)], 8) = a[i]
  <2>1. PICK e : e = [j \in 0..7 |-> d(8 * i + j)]
    OBVIOUS
  <2>2. a[i] \in Nat /\ a[i] < WordSize
    BY WordsOf
  <2>3. \A j \in 0..8 - 1 : e[j] = DigitOf(HexDigit, a[i], j)
    <3> TAKE j \in 0..8 - 1
    <3>1. PICK k \in 0..n - 1 : k = 8 * i + j /\ k \div 8 = i /\ k % 8 = j
      <4>1. 8 * i + j \in 0..n - 1
        BY <1>1
      <4>2. (8 * i + j) \div 8 = i /\ (8 * i + j) % 8 = j
        OBVIOUS
      <4> HIDE DEF d
      <4> QED
        BY <4>1, <4>2
    <3>2. e[j] = s[n - k] /\ n - k \in 1..n /\ n - (n - k) = k
      BY <2>1, <3>1
    <3>3. e[j] = HexAt(a, k)
      BY <3>2, <1>2
    <3> QED
      BY <3>1, <3>3 DEF HexAt
  <2>4. 8 \in Nat
    OBVIOUS
  <2>5. Number(HexDigit, e, 8) = a[i] % Power(HexDigit, 8)
    <3>1. PICK h \in Nat \ {0}, m \in Nat, x \in Nat : h = HexDigit /\ m = 8 /\ x = a[i]
      BY <2>2, <2>4, HexSizes
    <3>2. \A j \in 0..m - 1 : e[j] = DigitOf(h, x, j)
      BY <2>3, <3>1
    <3>3. Number(h, e, m) = x % Power(h, m)
      BY <3>2, NumberOfDigits
    <3> QED
      BY <3>1, <3>3
  <2>6. a[i] % WordSize = a[i]
    BY <2>2, SizesAre, SmallRemainder
  <2> QED
    BY <2>1, <2>5, <2>6, HexSizes
<1> HIDE DEF d
<1>6. a = [i \in 0..w - 1 |-> a[i]]
  BY WordsOf
<1> QED
  BY <1>4, <1>5, <1>6 DEF Words

(* A string of digits, and one with blanks and "0x" before them and others      *)
(* behind them.                                                                 *)
LEMMA SkipsNothing ==
  ASSUME NEW s \in Seq(Int), Len(s) > 0, s[1] \in 0..HexDigit - 1, s[2] \in 0..HexDigit - 1
  PROVE  Skip0x(SkipBlanks(s)) = s
<1>1. PICK l \in Nat : l = Len(s) /\ l > 0 /\ DOMAIN s = 1..l
  OBVIOUS
<1>2. s[1] # Blank /\ s[2] # LetterX
  <2>1. HexDigit \in Nat
    BY HexSizes
  <2> QED
    BY ONLY <2>1, s[1] \in 0..HexDigit - 1, s[2] \in 0..HexDigit - 1 DEF Blank, LetterX
<1>3. {k \in DOMAIN s : \A j \in 1..k : s[j] = Blank} = {}
  <2>1. ASSUME NEW k \in 1..l PROVE ~ \A j \in 1..k : s[j] = Blank
    <3>1. 1 \in 1..k
      OBVIOUS
    <3> QED
      BY <3>1, <1>2
  <2> QED
    BY <2>1, <1>1
<1>4. Cardinality({}) = 0
  BY FS_EmptySet
<1>5. SubSeq(s, 0 + 1, Len(s)) = s
  OBVIOUS
<1>6. SkipBlanks(s) = s
  BY <1>3, <1>4, <1>5 DEF SkipBlanks
<1> QED
  BY <1>2, <1>6 DEF Skip0x

(* SetHex skips the blanks and the 0x in front of the digits, and nothing else. *)
LEMMA SkipsPrefix ==
  ASSUME NEW h \in Seq(Int)
  PROVE  Skip0x(SkipBlanks(<<Blank, Blank, 0, LetterX>> \o h)) = h
<1>1. PICK l \in Nat : l = Len(h)
  OBVIOUS
<1>2. PICK t \in Seq(Int) : t = <<Blank, Blank, 0, LetterX>> \o h
  <2>1. <<Blank, Blank, 0, LetterX>> \in Seq(Int)
    BY DEF Blank, LetterX
  <2>2. <<Blank, Blank, 0, LetterX>> \o h \in Seq(Int)
    BY <2>1, ConcatProperties
  <2> QED
    BY <2>2
<1>3. /\ Len(t) = l + 4 /\ DOMAIN t = 1..l + 4
      /\ t[1] = Blank /\ t[2] = Blank /\ t[3] = 0 /\ t[4] = LetterX
      /\ \A k \in 1..l : t[k + 4] = h[k]
  BY <1>1, <1>2 DEF Blank, LetterX
<1>4. Cardinality({k \in DOMAIN t : \A j \in 1..k : t[j] = Blank}) = 2
  <2> DEFINE T == {j \in Int : t[j] = Blank}
  <2>1. 1..2 \subseteq T /\ T \in SUBSET Int /\ 2 + 1 \notin T
    <3>1. t[3] # Blank
      BY <1>3 DEF Blank
    <3>2. \A j \in 1..2 : j = 1 \/ j = 2
      OBVIOUS
    <3> QED
      BY <3>1, <3>2, <1>3
  <2>2. \A k \in 1..l + 4 : (\A j \in 1..k : t[j] = Blank) <=> \A j \in 1..k : j \in T
    OBVIOUS
  <2> HIDE DEF T
  <2>3. {k \in DOMAIN t : \A j \in 1..k : t[j] = Blank} = Prefix(l + 4, T)
    BY <2>2, <1>3 DEF Prefix
  <2>4. 2 \in Nat /\ l + 4 \in Nat /\ 2 <= l + 4
    OBVIOUS
  <2>5. Cardinality(Prefix(l + 4, T)) = 2
    BY <2>1, <2>4, PrefixSize
  <2> QED
    BY ONLY <2>3, <2>5
<1>5. PICK u \in Seq(Int) : u = SubSeq(t, 3, l + 4)
  <2>1. SubSeq(t, 3, l + 4) \in Seq(Int)
    BY <1>3, SubSeqProperties
  <2> QED
    BY <2>1
<1>6. /\ Len(u) = l + 2 /\ u[1] = 0 /\ u[2] = LetterX
      /\ \A k \in 1..l : u[k + 2] = h[k]
  BY <1>3, <1>5
<1>7. SkipBlanks(t) = u
  <2>1. SkipBlanks(t) = SubSeq(t, 2 + 1, Len(t))
    BY <1>4 DEF SkipBlanks
  <2>2. 2 + 1 = 3
    OBVIOUS
  <2> QED
    BY ONLY <2>1, <2>2, <1>3, <1>5
<1>8. Skip0x(u) = SubSeq(u, 3, l + 2)
  BY <1>6 DEF Skip0x
<1>9. SubSeq(u, 3, l + 2) = h
  <2>1. Len(SubSeq(u, 3, l + 2)) = l /\ SubSeq(u, 3, l + 2) \in Seq(Int)
        /\ \A k \in 1..l : SubSeq(u, 3, l + 2)[k] = h[k]
    BY <1>6
  <2>2. PICK x \in Seq(Int) : x = SubSeq(u, 3, l + 2)
    BY <2>1
  <2>3. Len(x) = Len(h) /\ \A k \in 1..Len(x) : x[k] = h[k]
    BY <2>1, <2>2, <1>1
  <2>4. x = h
    BY <2>3, SeqEqual
  <2> QED
    BY <2>2, <2>4
<1> QED
  BY <1>2, <1>7, <1>8, <1>9

(* SetHex reads back the digits GetHex wrote.                              *)
LEMMA HexReadsBack ==
  ASSUME NEW w \in Nat, w > 0, NEW a \in Integer(w)
  PROVE  /\ SetHex(GetHex(a), w) = a
         /\ SetHex(<<Blank, Blank, 0, LetterX>> \o GetHex(a) \o <<LetterX, 0>>, w) = a
<1>1. PICK hex \in Seq(Int), n \in Nat :
        /\ hex = GetHex(a) /\ n = 8 * w /\ Len(hex) = n
        /\ \A k \in 1..n : hex[k] \in 0..HexDigit - 1
  BY GetHexIs
<1>2. SetHex(hex, w) = a
  <2>1. 1 \in 1..n /\ 2 \in 1..n /\ n > 0
    BY <1>1
  <2>2. hex = Skip0x(SkipBlanks(hex))
    BY <2>1, <1>1, SkipsNothing
  <2>3. 8 * w <= Len(hex) /\ ~ (8 * w < Len(hex)) /\ \A k \in 1..8 * w : hex[k] = GetHex(a)[k]
    BY <1>1
  <2> QED
    BY <2>2, <2>3, SetHexReads
<1>3. SetHex(<<Blank, Blank, 0, LetterX>> \o hex \o <<LetterX, 0>>, w) = a
  <2>1. PICK tail \in Seq(Int) : tail = <<LetterX, 0>> /\ Len(tail) = 2 /\ tail[1] = LetterX
    <3>1. <<LetterX, 0>> \in Seq(Int)
      BY DEF LetterX
    <3> QED
      BY <3>1
  <2>2. PICK pre \in Seq(Int) : pre = <<Blank, Blank, 0, LetterX>>
    <3>1. <<Blank, Blank, 0, LetterX>> \in Seq(Int)
      BY DEF Blank, LetterX
    <3> QED
      BY <3>1
  <2>3. PICK s \in Seq(Int) : s = hex \o tail
    <3>1. hex \o tail \in Seq(Int)
      BY ConcatProperties
    <3> QED
      BY <3>1
  <2>4. Len(s) = n + 2 /\ (\A k \in 1..n : s[k] = hex[k]) /\ s[n + 1] = LetterX
    <3>1. Len(hex) = n
      BY <1>1
    <3>2. /\ Len(hex \o tail) = Len(hex) + Len(tail)
          /\ \A i \in 1..Len(hex) + Len(tail) :
               (hex \o tail)[i] = IF i <= Len(hex) THEN hex[i] ELSE tail[i - Len(hex)]
      BY ConcatProperties
    <3>3. Len(s) = n + 2 /\ \A i \in 1..n + 2 : s[i] = IF i <= n THEN hex[i] ELSE tail[i - n]
      BY ONLY <3>1, <3>2, <2>1, <2>3
    <3>4. n + 1 \in 1..n + 2 /\ (n + 1) - n = 1 /\ ~ (n + 1 <= n)
      OBVIOUS
    <3>5. s[n + 1] = tail[1]
      BY ONLY <3>3, <3>4
    <3>6. \A k \in 1..n : s[k] = hex[k]
      BY ONLY n \in Nat, <3>3
    <3> QED
      BY <2>1, <3>3, <3>5, <3>6
  <2>5. (pre \o hex) \o tail = pre \o s
    <3>1. PICK S : S = Int
      OBVIOUS
    <3>2. pre \in Seq(S) /\ hex \in Seq(S) /\ tail \in Seq(S)
      BY <3>1
    <3>3. pre \o (hex \o tail) = (pre \o hex) \o tail
      BY ONLY <3>2, ConcatAssociates
    <3> QED
      BY <3>3, <2>3
  <2>6. s = Skip0x(SkipBlanks(pre \o s))
    BY <2>2, SkipsPrefix
  <2>7. ~ IsHex(s[n + 1])
    BY <2>4, HexSizes DEF IsHex, LetterX
  <2>8. 8 * w <= Len(s) /\ (\A k \in 1..8 * w : s[k] = GetHex(a)[k]) /\ ~ IsHex(s[8 * w + 1])
    BY <1>1, <2>4, <2>7
  <2>9. SetHex(pre \o s, w) = a
    BY <2>6, <2>8, SetHexReads
  <2> QED
    BY <2>1, <2>2, <2>5, <2>9
<1> QED
  BY <1>1, <1>2, <1>3

(* The constructors from a vector read the memory as it is.                     *)
LEMMA VectorReadsBack ==
  ASSUME NEW w \in Nat, NEW a \in Integer(w)
  PROVE  FromVector([k \in 1..4 * w |-> ByteAt(a, k - 1)], w) = a
<1>1. PICK n \in Nat : n = 4 * w
  OBVIOUS
<1>2. PICK data : data = [k \in 1..n |-> ByteAt(a, k - 1)]
  OBVIOUS
<1>3. Len(data) = n
  BY <1>2
<1>4. ASSUME NEW i \in 0..w - 1
      PROVE  ((data[4 * i + 4] * Byte + data[4 * i + 3]) * Byte + data[4 * i + 2]) * Byte
               + data[4 * i + 1] = a[i]
  <2>1. PICK b : b = BytesOfWord(a[i])
    OBVIOUS
  <2>2. ASSUME NEW j \in 1..4 PROVE data[4 * i + j] = b[j]
    <3>1. 4 * i + j \in 1..n
      BY <1>1
    <3>2. PICK q \in Nat : q = (4 * i + j) - 1 /\ q \div 4 = i /\ (q % 4) + 1 = j
      <4>1. (4 * i + j) - 1 \in Nat /\ ((4 * i + j) - 1) \div 4 = i /\ (((4 * i + j) - 1) % 4) + 1 = j
        OBVIOUS
      <4> QED
        BY <4>1
    <3>3. data[4 * i + j] = ByteAt(a, q)
      BY <1>2, <3>1, <3>2
    <3> QED
      BY <3>2, <3>3, <2>1 DEF ByteAt
  <2>3. data[4 * i + 1] = b[1] /\ data[4 * i + 2] = b[2] /\ data[4 * i + 3] = b[3] /\ data[4 * i + 4] = b[4]
    BY <2>2
  <2>4. a[i] \in WordRange
    BY WordsOf
  <2>5. ((b[4] * Byte + b[3]) * Byte + b[2]) * Byte + b[1] = a[i]
    BY <2>1, <2>4, BytesMakeWord
  <2> QED
    BY ONLY <2>3, <2>5
<1>5. a = [i \in 0..w - 1 |-> a[i]]
  BY WordsOf
<1>6. FromVector(data, w) = a
  BY <1>1, <1>3, <1>4, <1>5 DEF FromVector, Words
<1> QED
  BY <1>1, <1>2, <1>6

(* An integer of more words is worth the same, and gives the words back.        *)
LEMMA WidenIs ==
  ASSUME NEW w \in Nat, NEW a \in Integer(w), NEW z \in Nat, w <= z
  PROVE  Narrow(Widen(a, z), w) = a /\ Value(Widen(a, z)) = Value(a)
<1>1. DOMAIN a = 0..w - 1 /\ a = [i \in 0..w - 1 |-> a[i]] /\ \A i \in 0..w - 1 : a[i] \in WordRange
  BY WordsOf
<1>2. PICK b : b = Widen(a, z)
  OBVIOUS
<1>3. b = [i \in 0..z - 1 |-> IF i \in 0..w - 1 THEN a[i] ELSE 0]
  BY <1>1, <1>2 DEF Widen, Words
<1>4. b \in Integer(z)
  <2>1. 0 \in WordRange
    BY SizesAre DEF WordRange
  <2> QED
    BY <2>1, <1>1, <1>3 DEF Integer, Words
<1>5. Narrow(b, w) = a
  <2>1. \A i \in 0..w - 1 : b[i] = a[i]
    BY <1>3
  <2> QED
    BY <2>1, <1>1 DEF Narrow, Words
<1>6. Value(b) = Value(a)
  <2>1. PICK v \in Nat : v = Value(a) /\ v < Power(WordSize, w)
                        /\ \A k \in 0..w - 1 : DigitOf(WordSize, v, k) = a[k]
    BY ValueFacts
  <2>2. \A k \in 0..z - 1 : b[k] = DigitOf(WordSize, v, k)
    <3> TAKE k \in 0..z - 1
    <3>1. CASE k \in 0..w - 1
      BY <3>1, <2>1, <1>3
    <3>2. CASE k \notin 0..w - 1
      <4>1. k \in Nat /\ k >= w /\ WordSize \in Nat \ {0}
        BY <3>2, SizesAre
      <4>2. DigitOf(WordSize, v, k) = 0
        BY <4>1, <2>1, NoDigitsAbove
      <4> QED
        BY <4>2, <3>2, <1>3
    <3> QED
      BY <3>1, <3>2
  <2>3. v < Power(WordSize, z)
    <3>1. PICK g \in Nat : z = w + g
      <4>1. z - w \in Nat /\ z = w + (z - w)
        OBVIOUS
      <4> QED
        BY <4>1
    <3>2. WordSize \in Nat \ {0}
      BY SizesAre
    <3>3. PICK p \in Nat \ {0}, q \in Nat \ {0} : p = Power(WordSize, w) /\ q = Power(WordSize, g)
      BY <3>2, PowerType
    <3>4. Power(WordSize, z) = p * q
      BY <3>1, <3>2, <3>3, PowerAdd
    <3>5. p * q >= p
      <4>1. PICK r \in Nat : q = r + 1
        <5>1. q - 1 \in Nat /\ q = (q - 1) + 1
          OBVIOUS
        <5> QED
          BY <5>1
      <4>2. p * (r + 1) = p * r + p /\ p * r \in Nat
        BY ONLY p \in Nat, r \in Nat
      <4> QED
        BY <4>1, <4>2
    <3>6. p * q \in Nat
      OBVIOUS
    <3> QED
      BY <2>1, <3>3, <3>4, <3>5, <3>6
  <2>4. Value(b) = v
    BY <1>4, <2>2, <2>3, ValueIs
  <2> QED
    BY <2>1, <2>4
<1> QED
  BY <1>2, <1>5, <1>6

(* What an integer writes it reads: GetBytes and SetBytes, GetHex and SetHex    *)
(* with all that may stand around the digits, the constructors from a vector    *)
(* and from an integer of another width, for every value it can have.           *)
THEOREM ReadsWhatItWritesHolds == UiSpec => []ReadsWhatItWrites
<1>1. UiTypeOK => ReadsWhatItWrites
  <2> SUFFICES ASSUME UiTypeOK PROVE ReadsWhatItWrites
    OBVIOUS
  <2>1. pn \in Integer(WIDTH) /\ WIDTH \in Nat /\ WIDTH > 0
    BY SizesAre DEF UiTypeOK
  <2>2. SetBytes(GetBytes(pn), WIDTH) = pn
    BY <2>1, SetBytesReads DEF Integer
  <2>3. LET hex == GetHex(pn)
            digits == [k \in 0..8 * WIDTH - 1 |-> hex[8 * WIDTH - k]]
        IN  Number(HexDigit, digits, 8 * WIDTH) = Value(pn)
    BY <2>1, HexIsNumber
  <2>4. /\ SetHex(GetHex(pn), WIDTH) = pn
        /\ SetHex(<<Blank, Blank, 0, LetterX>> \o GetHex(pn) \o <<LetterX, 0>>, WIDTH) = pn
    BY <2>1, HexReadsBack
  <2>5. FromVector([k \in 1..4 * WIDTH |-> ByteAt(pn, k - 1)], WIDTH) = pn
    BY <2>1, VectorReadsBack
  <2>6. Narrow(Widen(pn, 2 * WIDTH), WIDTH) = pn /\ Value(Widen(pn, 2 * WIDTH)) = Value(pn)
    <3>1. 2 * WIDTH \in Nat /\ WIDTH <= 2 * WIDTH
      BY <2>1
    <3> QED
      BY <3>1, <2>1, WidenIs
  <2> QED
    BY <2>2, <2>3, <2>4, <2>5, <2>6 DEF ReadsWhatItWrites
<1> QED
  BY <1>1, UiTypeCorrect, PTL

=============================================================================
