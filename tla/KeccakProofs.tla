---------------------------- MODULE KeccakProofs ----------------------------
(***************************************************************************)
(* The Keccak sponge is correct for every rate of whole bytes, delimited   *)
(* suffix, output length and cut of an input of any length that fits an    *)
(* unsigned int (LengthAssumption of KeccakSponge), the last piece         *)
(* with bits beyond its whole bytes: the state absorbs the input in order  *)
(* whatever the pieces, and the hash is the sponge function of the padded  *)
(* input (AbsorbsInOrder, HashIsKeccak). The input is laid out as a tape   *)
(* of bytes, each the set of its bits, the delimiter and the padding part  *)
(* of it; a sponge stands somewhere on the tape. And the permutation's     *)
(* in-place rounds are those of Keccak-f on coordinates, for every state   *)
(* (RoundsAreKeccakF).                                                     *)
(***************************************************************************)
EXTENDS KeccakSponge, KeccakF, SharedLemmas, FiniteSetTheorems

(* The record of a Keccak_SpongeInstance and of its state, and their fields. *)
State(perms, since) == [perms |-> perms, since |-> since]
Sponge(st, rate, at, sq) == [state |-> st, rate |-> rate, byteIOIndex |-> at, squeezing |-> sq]

SpongeFields == {"state", "rate", "byteIOIndex", "squeezing"}

(* The fields of a state.                                                   *)
LEMMA StateHas ==
  ASSUME NEW p, NEW x, NEW st, st = State(p, x)
  PROVE  st.perms = p /\ st.since = x /\ DOMAIN st = {"perms", "since"}
BY DEF State

(* A record with these fields is that state.                                *)
LEMMA StateIs ==
  ASSUME NEW p, NEW x, NEW st, st = [f \in {"perms", "since"} |-> st[f]], st.perms = p, st.since = x
  PROVE  st = State(p, x)
BY DEF State

(* The fields of a sponge.                                                  *)
LEMMA SpongeHas ==
  ASSUME NEW st, NEW rate, NEW at, NEW sq, NEW s, s = Sponge(st, rate, at, sq)
  PROVE  s.state = st /\ s.rate = rate /\ s.byteIOIndex = at /\ s.squeezing = sq
         /\ DOMAIN s = SpongeFields
BY DEF Sponge, SpongeFields

(* A record with these fields is that sponge.                               *)
LEMMA SpongeIs ==
  ASSUME NEW st, NEW rate, NEW at, NEW sq, NEW s, s = [f \in SpongeFields |-> s[f]],
         s.state = st, s.rate = rate, s.byteIOIndex = at, s.squeezing = sq
  PROVE  s = Sponge(st, rate, at, sq)
BY DEF Sponge, SpongeFields

(* What the state's operations do to it. *)
LEMMA PermuteIs ==
  ASSUME NEW p, NEW x, NEW st, st = State(p, x)
  PROVE  KeccakF1600_StatePermute(st) = State(Append(p, x), {})
BY StateHas DEF KeccakF1600_StatePermute, State

(* What is XORed in. *)
XorIn(x, at, data) == XorBits(x, UNION {{<<at + i - 1, t>> : t \in data[i]} : i \in DOMAIN data})

(* XORing bytes in changes what lies in the state since its last            *)
(* permutation.                                                             *)
LEMMA XorBytesIs ==
  ASSUME NEW p, NEW x, NEW st, st = State(p, x), NEW at, NEW data
  PROVE  KeccakF1600_StateXORBytes(st, at, data)
           = State(p, XorIn(x, at, data))
<1>1. st.perms = p /\ st.since = x /\ st = [f \in {"perms", "since"} |-> st[f]]
  BY DEF State
<1> PICK y : y = XorIn(x, at, data)
  OBVIOUS
<1>2. PICK d : d = [st EXCEPT !.since = y]
  OBVIOUS
<1>3. d = [f \in {"perms", "since"} |-> d[f]] /\ d.perms = p /\ d.since = y
  BY ONLY <1>1, <1>2
<1>4. d = State(p, y)
  BY ONLY <1>3, StateIs
<1>5. KeccakF1600_StateXORBytes(st, at, data) = [st EXCEPT !.since = y]
  BY <1>1 DEF KeccakF1600_StateXORBytes, XorIn
<1> QED
  BY <1>2, <1>4, <1>5

(* So does complementing a bit.                                             *)
LEMMA ComplementIs ==
  ASSUME NEW p, NEW x, NEW st, st = State(p, x), NEW position
  PROVE  KeccakF1600_StateComplementBit(st, position)
           = State(p, XorBits(x, {<<position \div 8, position % 8>>}))
<1>1. st.perms = p /\ st.since = x /\ st = [f \in {"perms", "since"} |-> st[f]]
  BY DEF State
<1> PICK y : y = XorBits(x, {<<position \div 8, position % 8>>})
  OBVIOUS
<1>2. PICK d : d = [st EXCEPT !.since = y]
  OBVIOUS
<1>3. d = [f \in {"perms", "since"} |-> d[f]] /\ d.perms = p /\ d.since = y
  BY ONLY <1>1, <1>2
<1>4. d = State(p, y)
  BY ONLY <1>3, StateIs
<1>5. KeccakF1600_StateComplementBit(st, position) = [st EXCEPT !.since = y]
  BY <1>1 DEF KeccakF1600_StateComplementBit
<1> QED
  BY <1>2, <1>4, <1>5

(* The assignments of one turn of a loop over the blocks.                   *)
Stepped(s, st, at) == [s EXCEPT !.state = st, !.byteIOIndex = at]

(* They leave the rate and the phase alone.                                 *)
LEMMA StepIs ==
  ASSUME NEW st, NEW rate, NEW at, NEW sq, NEW s, s = Sponge(st, rate, at, sq), NEW st2, NEW at2
  PROVE  Stepped(s, st2, at2) = Sponge(st2, rate, at2, sq)
<1>1. s.rate = rate /\ s.squeezing = sq /\ s = [f \in SpongeFields |-> s[f]]
  BY DEF Sponge, SpongeFields
<1>2. PICK d : d = [s EXCEPT !.state = st2, !.byteIOIndex = at2]
  OBVIOUS
<1>3. d = [f \in SpongeFields |-> d[f]] /\ d.state = st2 /\ d.byteIOIndex = at2 /\ d.rate = rate /\ d.squeezing = sq
  BY ONLY <1>1, <1>2 DEF SpongeFields
<1>4. d = Sponge(st2, rate, at2, sq)
  BY ONLY <1>3, SpongeIs
<1> QED
  BY <1>2, <1>4 DEF Stepped

(* The assignments that end the absorbing phase: at is 0, squeezing is      *)
(* TRUE.                                                                    *)
Shut(s, st) == [s EXCEPT !.state = st, !.byteIOIndex = 0, !.squeezing = TRUE]

Commences(z, yes) == z = 0 /\ yes = TRUE

(* They leave the rate alone.                                               *)
LEMMA ClosedIs ==
  ASSUME NEW st, NEW rate, NEW at, NEW sq, NEW s, s = Sponge(st, rate, at, sq), NEW st2,
         NEW z, NEW yes, Commences(z, yes)
  PROVE  Shut(s, st2) = Sponge(st2, rate, z, yes)
<1>1. s.rate = rate /\ s = [f \in SpongeFields |-> s[f]]
  BY DEF Sponge, SpongeFields
<1>2. PICK d : d = [s EXCEPT !.state = st2, !.byteIOIndex = z, !.squeezing = yes]
  OBVIOUS
<1>3. d = [f \in SpongeFields |-> d[f]] /\ d.state = st2 /\ d.byteIOIndex = z /\ d.rate = rate /\ d.squeezing = yes
  BY ONLY <1>1, <1>2 DEF SpongeFields
<1>4. d = Sponge(st2, rate, z, yes)
  BY ONLY <1>3, SpongeIs
<1>5. Shut(s, st2) = d
  BY ONLY <1>2, Commences(z, yes), Zenon DEF Shut, Commences
<1> QED
  BY ONLY <1>4, <1>5

(* The bytes of a message from one on, as they lie in the rate. M[p] is byte p *)
(* of the message, counted from 0. *)
Block(M, from, len) == UNION {{<<i, t>> : t \in M[from + i]} : i \in 0..len - 1}

(* Block k of the message, and the first q of them.                         *)
BlockNo(R, M, k) == Block(M, (k - 1) * R, R)
BlocksOf(R, M, q) == [k \in 1..q |-> BlockNo(R, M, k)]

(* A sponge that was given q blocks and r bytes of the message. *)
Absorbed(R, M, q, r) == Sponge(State(BlocksOf(R, M, q), Block(M, q * R, r)), 8 * R, r, FALSE)

(* The members of a block.                                                  *)
LEMMA BlockHas ==
  ASSUME NEW M, NEW from \in Nat, NEW len \in Nat
  PROVE  \A x : x \in Block(M, from, len) <=> \E i \in 0..len - 1 : \E t \in M[from + i] : x = <<i, t>>
BY DEF Block

(* A rate in bits, counted in bytes.                                        *)
LEMMA Eighth == ASSUME NEW R \in Nat PROVE (8 * R) \div 8 = R
<1>1. (R * 8 + 0) \div 8 = R
  BY QuotientIs
<1> QED
  BY <1>1

(* Data: each byte the set of its tokens. *)
Data8 == Seq(SUBSET Int)

(* Data that is n bytes of the message. *)
Piece(M, from, n, data) == DOMAIN data = 1..n /\ \A i \in 1..n : data[i] = M[from + i - 1]

(* n bytes after r of a block make it a block of r + n. *)
LEMMA BlockGrows ==
  ASSUME NEW M, NEW base \in Nat, NEW r \in Nat, NEW n \in Nat, NEW data,
         Piece(M, base + r, n, data)
  PROVE  XorIn(Block(M, base, r), r, data) = Block(M, base, r + n)
<1>0. DOMAIN data = 1..n /\ \A i \in 1..n : data[i] = M[base + r + i - 1]
  BY DEF Piece
<1> DEFINE new == UNION {{<<r + i - 1, t>> : t \in data[i]} : i \in DOMAIN data}
<1>1. \A x : x \in new <=> \E i \in 1..n : \E t \in data[i] : x = <<r + i - 1, t>>
  BY ONLY <1>0
<1>2. \A x : x \in new <=> \E j \in r..r + n - 1 : \E t \in M[base + j] : x = <<j, t>>
  <2>1. ASSUME NEW x, x \in new
        PROVE  \E j \in r..r + n - 1 : \E t \in M[base + j] : x = <<j, t>>
    <3>1. PICK i \in 1..n : \E t \in data[i] : x = <<r + i - 1, t>>
      BY <1>1, <2>1
    <3>2. PICK j \in r..r + n - 1 : j = r + i - 1
      OBVIOUS
    <3>3. base + r + i - 1 = base + j
      BY <3>2
    <3> QED
      BY <1>0, <3>1, <3>2, <3>3
  <2>2. ASSUME NEW x, NEW j \in r..r + n - 1, NEW t \in M[base + j], x = <<j, t>>
        PROVE  x \in new
    <3>1. PICK i \in 1..n : i = j - r + 1
      OBVIOUS
    <3>2. base + r + i - 1 = base + j /\ r + i - 1 = j
      BY <3>1
    <3> QED
      BY <1>0, <1>1, <3>2, <2>2
  <2> QED
    BY <2>1, <2>2
<1> HIDE DEF new
<1>3. \A x : x \in Block(M, base, r) <=> \E i \in 0..r - 1 : \E t \in M[base + i] : x = <<i, t>>
  BY ONLY BlockHas, base \in Nat, r \in Nat
<1>4. \A x : x \in Block(M, base, r + n) <=> \E i \in 0..r + n - 1 : \E t \in M[base + i] : x = <<i, t>>
  <2>1. PICK m \in Nat : m = r + n
    OBVIOUS
  <2>2. \A x : x \in Block(M, base, m) <=> \E i \in 0..m - 1 : \E t \in M[base + i] : x = <<i, t>>
    BY ONLY base \in Nat, m \in Nat DEF Block
  <2> QED
    BY ONLY <2>1, <2>2
<1>5. \A x : ~ (x \in Block(M, base, r) /\ x \in new)
  <2> SUFFICES ASSUME NEW x, x \in Block(M, base, r), x \in new PROVE FALSE
    OBVIOUS
  <2>1. PICK i \in 0..r - 1 : \E t : x = <<i, t>>
    BY <1>3
  <2>2. PICK j \in r..r + n - 1 : \E u : x = <<j, u>>
    BY <1>2
  <2> QED
    BY <2>1, <2>2
<1>6. \A x : x \in Block(M, base, r + n) <=> x \in Block(M, base, r) \/ x \in new
  <2>1. \A i : i \in 0..r + n - 1 <=> i \in 0..r - 1 \/ i \in r..r + n - 1
    OBVIOUS
  <2> QED
    BY <1>2, <1>3, <1>4, <2>1
<1>7. XorBits(Block(M, base, r), new) = Block(M, base, r + n)
  BY <1>5, <1>6 DEF XorBits
<1> QED
  BY <1>7 DEF new, XorIn

(* The last byte of a block has come, or not. *)
LEMMA BlocksGrow ==
  ASSUME NEW R \in Nat, NEW M, NEW q \in Nat
  PROVE  Append(BlocksOf(R, M, q), Block(M, q * R, R)) = BlocksOf(R, M, q + 1)
<1>1. BlockNo(R, M, q + 1) = Block(M, q * R, R)
  <2>1. q + 1 - 1 = q
    OBVIOUS
  <2> QED
    BY ONLY <2>1 DEF BlockNo
<1>2. Append(BlocksOf(R, M, q), BlockNo(R, M, q + 1)) = BlocksOf(R, M, q + 1)
  BY DEF BlocksOf
<1> QED
  BY <1>1, <1>2

(* No bytes, no bits.                                                       *)
LEMMA EmptyBlock ==
  ASSUME NEW M, NEW from
  PROVE  Block(M, from, 0) = {}
BY DEF Block

(* Where a sponge stands after p bytes. *)
Stands(R, M, s, p) ==
  \E q \in Nat, r \in Nat : p = q * R + r /\ r < R /\ s = Absorbed(R, M, q, r)

(* A part of a piece is a piece.                                            *)
LEMMA PieceOfPiece ==
  ASSUME NEW M, NEW from \in Nat, NEW data \in Data8, Piece(M, from, Len(data), data),
         NEW at \in Nat, NEW n \in Nat, at + n <= Len(data)
  PROVE  Piece(M, from + at, n, SubSeq(data, at + 1, at + n))
<1>1. Len(data) \in Nat /\ at + n - (at + 1) + 1 = n
  BY DEF Data8
<1>2. /\ DOMAIN SubSeq(data, at + 1, at + n) = 1..n
      /\ \A i \in 1..n : SubSeq(data, at + 1, at + n)[i] = data[at + i]
  BY <1>1 DEF Data8
<1>3. ASSUME NEW i \in 1..n
      PROVE  data[at + i] = M[from + at + i - 1]
  <2>1. PICK j \in 1..Len(data) : j = at + i
    BY <1>1
  <2>2. from + j - 1 = from + at + i - 1
    BY <2>1
  <2> QED
    BY <2>1, <2>2 DEF Piece
<1> QED
  BY <1>2, <1>3 DEF Piece

(* A turn of the loop of Keccak_SpongeAbsorb. *)
TurnedTo(s, at) == [sponge |-> s, at |-> at]

(* The fields of what a turn leaves.                                        *)
LEMMA TurnedHas ==
  ASSUME NEW s, NEW at, NEW a, a = TurnedTo(s, at)
  PROVE  a.sponge = s /\ a.at = at
BY DEF TurnedTo

(* The turn took n bytes, and stands after them. *)
AdvancesBy(R, M, from, at, n, a) == \E s : Stands(R, M, s, from + at + n) /\ a = TurnedTo(s, at + n)

(* A turn that leads from one byte to another takes all there is, or comes  *)
(* to the end of its block.                                                 *)
NextBlock(R, from, at, at2, len) ==
  at2 = len \/ (from + at2) \div R = (from + at) \div R + 1

(* It took no more than there is, and went as far as it can.                *)
Advances(R, M, from, at, len, a) ==
  \E n \in Nat : /\ at + n <= len /\ NextBlock(R, from, at, at + n, len)
                 /\ AdvancesBy(R, M, from, at, n, a)

(* Going on from r bytes of block q by n: to the end of the block, or to the *)
(* end of what there is.                                                    *)
LEMMA BlockEnds ==
  ASSUME NEW R \in Nat \ {0}, NEW from \in Nat, NEW at \in Nat, NEW n \in Nat, NEW len \in Nat,
         NEW q \in Nat, NEW r \in Nat, r < R, from + at = q * R + r,
         r + n = R \/ at + n = len
  PROVE  NextBlock(R, from, at, at + n, len)
<1>1. CASE at + n = len
  BY ONLY <1>1 DEF NextBlock
<1>2. CASE r + n = R
  <2> PICK q2 \in Nat, z \in Nat, base \in Nat : q2 = q + 1 /\ z = 0 /\ base = q * R
    OBVIOUS
  <2>1. q2 * R = base + R
    OBVIOUS
  <2>2. from + (at + n) = q2 * R + z
    BY ONLY <1>2, <2>1, from + at = q * R + r, q2 = q + 1 /\ z = 0 /\ base = q * R, base \in Nat,
            from \in Nat, at \in Nat, n \in Nat, r \in Nat, R \in Nat
  <2>3. (q2 * R + z) \div R = q2
    BY ONLY QuotientIs, R \in Nat \ {0}, q2 \in Nat, z \in Nat, z = 0
  <2>4. (q * R + r) \div R = q
    BY ONLY QuotientIs, R \in Nat \ {0}, q \in Nat, r \in Nat, r < R
  <2> QED
    BY ONLY <2>2, <2>3, <2>4, from + at = q * R + r, q2 = q + 1 /\ z = 0 /\ base = q * R DEF NextBlock
<1> QED
  BY ONLY <1>1, <1>2, r + n = R \/ at + n = len

(* Where a sponge with q blocks and r bytes stands.                         *)
LEMMA StandsAt ==
  ASSUME NEW R, NEW M, NEW q \in Nat, NEW r \in Nat, r < R, NEW p, p = q * R + r
  PROVE  Stands(R, M, Absorbed(R, M, q, r), p)
BY DEF Stands

(* A turn fills the block at hand, or takes all that is left.               *)
LEMMA AbsorbTurnIs ==
  ASSUME NEW R \in Nat \ {0}, NEW M, NEW q \in Nat, NEW r \in Nat, r < R,
         NEW from \in Nat, NEW data \in Data8, Piece(M, from, Len(data), data),
         NEW at \in Nat, at < Len(data), from + at = q * R + r,
         NEW s, s = Absorbed(R, M, q, r)
  PROVE  Advances(R, M, from, at, Len(data), AbsorbTurn(TurnedTo(s, at), data))
<1> PICK base \in Nat : base = q * R
  OBVIOUS
<1>0. from + at = base + r
  OBVIOUS
<1> PICK p, x, st : p = BlocksOf(R, M, q) /\ x = Block(M, base, r) /\ st = State(p, x)
  OBVIOUS
<1> PICK no : no = FALSE
  OBVIOUS
<1> PICK rate : rate = 8 * R
  OBVIOUS
<1>1. s = Sponge(st, rate, r, no)
  BY ONLY s = Absorbed(R, M, q, r), base = q * R, no = FALSE, rate = 8 * R,
          p = BlocksOf(R, M, q) /\ x = Block(M, base, r) /\ st = State(p, x), Zenon DEF Absorbed
<1>2. s.state = st /\ s.rate = rate /\ s.byteIOIndex = r
  BY ONLY <1>1, SpongeHas
<1>3. s.rate \div 8 = R
  BY <1>2, Eighth
<1> PICK a : a = TurnedTo(s, at)
  OBVIOUS
<1>4. a.sponge = s /\ a.at = at
  BY ONLY TurnedHas, a = TurnedTo(s, at)
<1> PICK len \in Nat : len = Len(data)
  BY ONLY data \in Data8 DEF Data8
<1> PICK left \in Nat \ {0} : left = len - at
  <2>1. at < len
    BY ONLY at < Len(data), len = Len(data)
  <2>2. len - at \in Nat \ {0}
    BY ONLY <2>1, len \in Nat, at \in Nat
  <2> QED
    BY ONLY <2>2
<1> PICK n \in Nat : n = IF left > R - r THEN R - r ELSE left
  <2>1. (IF left > R - r THEN R - r ELSE left) \in Nat
    BY ONLY left \in Nat, R \in Nat, r \in Nat, r < R
  <2> QED
    BY ONLY <2>1
<1>5. 0 < n /\ at + n <= Len(data) /\ r + n <= R
  OBVIOUS
<1> PICK piece : piece = SubSeq(data, at + 1, at + n)
  OBVIOUS
<1>6. Piece(M, base + r, n, piece)
  BY ONLY <1>0, <1>5, PieceOfPiece, data \in Data8, from \in Nat, at \in Nat, n \in Nat,
          Piece(M, from, Len(data), data), piece = SubSeq(data, at + 1, at + n)
<1> PICK st2 : st2 = KeccakF1600_StateXORBytes(st, r, piece)
  OBVIOUS
<1>7. st2 = State(p, Block(M, base, r + n))
  <2>1. PICK y : y = XorIn(x, r, piece)
    OBVIOUS
  <2>2. st2 = State(p, y)
    BY ONLY <2>1, XorBytesIs, st = State(p, x), st2 = KeccakF1600_StateXORBytes(st, r, piece)
  <2>3. x = Block(M, base, r)
    OBVIOUS
  <2>4. y = Block(M, base, r + n)
    <3>1. XorIn(Block(M, base, r), r, piece) = Block(M, base, r + n)
      BY ONLY <1>6, BlockGrows, base \in Nat, r \in Nat, n \in Nat
    <3> QED
      BY ONLY <2>1, <2>3, <3>1
  <2> QED
    BY ONLY <2>2, <2>4
<1> PICK full : full = BlockIsFull(s, r + n)
  OBVIOUS
<1>8. full <=> r + n = R
  BY <1>3 DEF BlockIsFull
<1> PICK st3 : st3 = IF full THEN KeccakF1600_StatePermute(st2) ELSE st2
  OBVIOUS
<1> PICK r2 : r2 = IF full THEN 0 ELSE r + n
  OBVIOUS
<1>9. AbsorbTurn(a, data) = TurnedTo(Stepped(s, st3, r2), at + n)
  <2>1. s.rate \div 8 - s.byteIOIndex = R - r
    BY <1>2, <1>3
  <2>2. left # 0
    OBVIOUS
  <2> QED
    BY ONLY <1>2, <1>4, <2>1, <2>2, left = len - at, len = Len(data), n = (IF left > R - r THEN R - r ELSE left),
            piece = SubSeq(data, at + 1, at + n), st2 = KeccakF1600_StateXORBytes(st, r, piece),
            full = BlockIsFull(s, r + n), st3 = (IF full THEN KeccakF1600_StatePermute(st2) ELSE st2),
            r2 = (IF full THEN 0 ELSE r + n), Zenon
       DEF AbsorbTurn, TurnedTo, Stepped
<1>10. AbsorbTurn(a, data) = TurnedTo(Sponge(st3, rate, r2, no), at + n)
  <2>1. Stepped(s, st3, r2) = Sponge(st3, rate, r2, no)
    BY ONLY <1>1, StepIs
  <2> QED
    BY ONLY <1>9, <2>1
<1> PICK s2 : s2 = Sponge(st3, rate, r2, no)
  OBVIOUS
<1>11. Stands(R, M, s2, from + at + n)
  <2>1. CASE full
    <3>1. r + n = R /\ r2 = 0
      BY ONLY <1>8, <2>1, r2 = (IF full THEN 0 ELSE r + n)
    <3>2. st3 = State(Append(p, Block(M, base, R)), {})
      <4>1. st2 = State(p, Block(M, base, R))
        BY ONLY <1>7, <3>1
      <4> QED
        BY ONLY <4>1, <2>1, PermuteIs, st3 = (IF full THEN KeccakF1600_StatePermute(st2) ELSE st2)
    <3>3. Append(p, Block(M, base, R)) = BlocksOf(R, M, q + 1)
      BY ONLY BlocksGrow, R \in Nat, q \in Nat, p = BlocksOf(R, M, q), base = q * R, Zenon
    <3> PICK q2 \in Nat : q2 = q + 1
      OBVIOUS
    <3>4. Block(M, q2 * R, r2) = {}
      BY <3>1, EmptyBlock
    <3>5. st3 = State(BlocksOf(R, M, q2), Block(M, q2 * R, r2))
      BY ONLY <3>2, <3>3, <3>4, q2 = q + 1
    <3>6. s2 = Absorbed(R, M, q2, r2)
      BY ONLY <3>5, no = FALSE, rate = 8 * R, s2 = Sponge(st3, rate, r2, no), Zenon DEF Absorbed
    <3>7. from + at + n = q2 * R + r2
      <4>1. q2 * R = q * R + R
        OBVIOUS
      <4> QED
        BY ONLY <1>0, <3>1, <4>1, base = q * R, base \in Nat, from \in Nat, at \in Nat, n \in Nat,
                r \in Nat, R \in Nat
    <3>8. r2 \in Nat /\ r2 < R
      BY ONLY <3>1, R \in Nat \ {0}
    <3> QED
      BY ONLY <3>6, <3>7, <3>8, StandsAt, q2 \in Nat
  <2>2. CASE ~ full
    <3>1. r2 = r + n /\ r2 < R /\ r2 \in Nat
      BY ONLY <1>5, <1>8, <2>2, r2 = (IF full THEN 0 ELSE r + n), r \in Nat, n \in Nat, R \in Nat
    <3>2. st3 = State(BlocksOf(R, M, q), Block(M, q * R, r2))
      BY ONLY <1>7, <2>2, <3>1, st3 = (IF full THEN KeccakF1600_StatePermute(st2) ELSE st2),
              p = BlocksOf(R, M, q), base = q * R
    <3>3. s2 = Absorbed(R, M, q, r2)
      BY ONLY <3>2, no = FALSE, rate = 8 * R, s2 = Sponge(st3, rate, r2, no), Zenon DEF Absorbed
    <3>4. from + at + n = q * R + r2
      BY ONLY <1>0, <3>1, base = q * R, base \in Nat, from \in Nat, at \in Nat, n \in Nat, r \in Nat
    <3> QED
      BY ONLY <3>1, <3>3, <3>4, StandsAt, q \in Nat
  <2> QED
    BY <2>1, <2>2
<1>12. AdvancesBy(R, M, from, at, n, AbsorbTurn(a, data))
  BY ONLY <1>10, <1>11, s2 = Sponge(st3, rate, r2, no) DEF AdvancesBy
<1>13. NextBlock(R, from, at, at + n, Len(data))
  <2>1. r + n = R \/ at + n = len
    BY ONLY left = len - at, n = (IF left > R - r THEN R - r ELSE left), left \in Nat, R \in Nat, r \in Nat,
            len \in Nat, at \in Nat, n \in Nat
  <2> QED
    BY ONLY <2>1, BlockEnds, R \in Nat \ {0}, from \in Nat, at \in Nat, n \in Nat, len \in Nat, len = Len(data),
            q \in Nat, r \in Nat, r < R, from + at = q * R + r
<1> QED
  BY ONLY <1>5, <1>12, <1>13, n \in Nat, a = TurnedTo(s, at) DEF Advances

(* A loop whose every turn makes progress, until there is nothing left. *)
Ends(f, V, b, next, size, len) ==
  /\ f \in [0..len -> V] /\ f[0] = b /\ size[f[len]] = len
  /\ \A i \in 1..len : f[i] = next[f[i - 1]]

(* A loop that makes progress as long as something is left comes to its end *)
(* in as many turns as there are places.                                    *)
LEMMA LoopEnds ==
  ASSUME NEW V, NEW b \in V, NEW len \in Nat, NEW next \in [V -> V], NEW size \in [V -> 0..len],
         \A a \in V : size[a] < len => size[a] < size[next[a]],
         \A a \in V : size[a] = len => next[a] = a
  PROVE  \E f : Ends(f, V, b, next, size, len)
<1> DEFINE step == [i \in Nat |-> next]
<1>1. step \in [Nat -> [V -> V]]
  OBVIOUS
<1>2. \A i \in Nat : step[i] = next
  OBVIOUS
<1> HIDE DEF step
<1>3. PICK f : Iterates(f, V, b, step, len)
  BY <1>1, RecursionUpTo
<1>4. f \in [0..len -> V] /\ f[0] = b /\ \A i \in 1..len : f[i] = next[f[i - 1]]
  BY <1>2, <1>3 DEF Iterates
<1> DEFINE T == {i \in 0..len : i <= size[f[i]]}
<1>5. 0 \in T
  BY <1>4
<1>6. ASSUME NEW i \in 1..len, i - 1 \in T
      PROVE  i \in T
  <2>1. PICK a \in V : a = f[i - 1]
    BY <1>4
  <2>2. i - 1 <= size[a] /\ f[i] = next[a] /\ next[a] \in V /\ size[a] \in 0..len /\ size[next[a]] \in 0..len
    BY <1>4, <1>6, <2>1
  <2>3. CASE size[a] < len
    BY <2>1, <2>2, <2>3
  <2>4. CASE size[a] = len
    BY <2>1, <2>2, <2>4
  <2> QED
    BY <2>2, <2>3, <2>4
<1>7. T \in SUBSET (0..len)
  OBVIOUS
<1> HIDE DEF T
<1>8. T = 0..len
  BY ONLY <1>5, <1>6, <1>7, InductUpTo, len \in Nat
<1>9. len \in 0..len /\ f[len] \in V
  BY <1>4
<1>10. size[f[len]] = len
  BY <1>8, <1>9 DEF T
<1> QED
  BY ONLY <1>4, <1>10 DEF Ends

(* The loop over n bytes, as long as it may take.                           *)
EndsInTurns(f, V, b, next, at, len, turns) ==
  /\ f \in [0..turns -> V] /\ f[0] = b /\ at[f[turns]] = len
  /\ \A i \in 1..turns : f[i] = next[f[i - 1]]

(* Every turn from less than len takes the rest or comes to the end of a    *)
(* block, and nothing changes any more at the end.                          *)
Turning(R, V, from, next, at, len) ==
  /\ \A a \in V : at[a] < len => NextBlock(R, from, at[a], at[next[a]], len)
  /\ \A a \in V : at[a] = len => next[a] = a

TurnsEnd(V, b, next, at, len, turns) ==
  turns \in Nat /\ \E f : EndsInTurns(f, V, b, next, at, len, turns)

(* Turns that take all there is or come to the end of a block have taken    *)
(* everything after the block begun, the whole blocks and the rest.         *)
LEMMA BlocksEnd ==
  ASSUME NEW R \in Nat \ {0}, NEW from \in Nat, NEW len \in Nat, NEW turns, turns = len \div R + 2,
         NEW V, NEW b \in V, NEW next \in [V -> V], NEW at \in [V -> 0..len],
         Turning(R, V, from, next, at, len)
  PROVE  TurnsEnd(V, b, next, at, len, turns)
<1>0. /\ \A a \in V : at[a] < len => NextBlock(R, from, at[a], at[next[a]], len)
      /\ \A a \in V : at[a] = len => next[a] = a
  BY ONLY Turning(R, V, from, next, at, len), Zenon DEF Turning
<1>1. PICK qf \in Nat, rf \in Nat : from = R * qf + rf /\ rf < R
  BY Division
<1>2. PICK ql \in Nat, rl \in Nat : ql = len \div R /\ len = R * ql + rl /\ rl < R
  BY Division
<1>3. turns \in Nat /\ turns = ql + 2
  BY ONLY <1>2, turns = len \div R + 2
<1>4. ASSUME NEW x \in 0..len
      PROVE  (from + x) \div R \in Nat /\ (from + x) \div R >= qf /\ (from + x) \div R < qf + turns
  <2> PICK v \in Nat : v = from + x
    OBVIOUS
  <2>1. PICK q \in Nat, r \in Nat : q = v \div R /\ v = R * q + r /\ r < R
    BY Division
  <2>7. rf < R /\ rl < R
    BY ONLY <1>1, <1>2
  <2>8. r < R
    BY ONLY <2>1
  <2>0. R * qf \in Nat /\ R * ql \in Nat
    OBVIOUS
  <2> PICK top \in Nat : top = qf + turns
    BY ONLY <1>3, qf \in Nat
  <2> PICK sum \in Nat : sum = R * qf + R * ql
    BY ONLY <2>0
  <2>2. R * top = sum + 2 * R
    BY ONLY <1>3, top = qf + turns, sum = R * qf + R * ql, R \in Nat, qf \in Nat, ql \in Nat
  <2>3. v <= from + len
    BY ONLY v = from + x, x \in 0..len, from \in Nat, len \in Nat
  <2>4. v < R * top
    <3>0. R * top \in Nat
      OBVIOUS
    <3> PICK a \in Nat, c \in Nat, d \in Nat : a = R * qf /\ c = R * ql /\ d = R * top
      BY ONLY <2>0, <3>0
    <3>1. from = a + rf /\ len = c + rl /\ sum = a + c /\ d = sum + 2 * R
      BY ONLY <1>1, <1>2, <2>2, a = R * qf /\ c = R * ql /\ d = R * top, sum = R * qf + R * ql
    <3>2. v < d
      BY ONLY <2>7, <2>3, <3>1, a \in Nat, c \in Nat, d \in Nat, rf \in Nat, rl \in Nat, R \in Nat \ {0},
              v \in Nat, sum \in Nat, from \in Nat, len \in Nat
    <3> QED
      BY ONLY <3>2, a = R * qf /\ c = R * ql /\ d = R * top
  <2>5. q < top
    BY ONLY <2>1, <2>4, DivisionBound, R \in Nat \ {0}, q \in Nat, r \in Nat, top \in Nat
  <2>6. q >= qf
    <3> PICK q2 \in Nat : q2 = q + 1
      OBVIOUS
    <3>1. R * q2 = R * q + R
      OBVIOUS
    <3>2. R * qf + rf < R * q2
      <4>0. R * qf \in Nat /\ R * q \in Nat /\ R * q2 \in Nat
        OBVIOUS
      <4> PICK a \in Nat, c \in Nat, d \in Nat : a = R * qf /\ c = R * q /\ d = R * q2
        BY ONLY <4>0
      <4>1. from = a + rf /\ v = c + r /\ d = c + R
        BY ONLY <1>1, <2>1, <3>1, a = R * qf /\ c = R * q /\ d = R * q2
      <4>2. v >= from
        BY ONLY v = from + x, x \in 0..len, from \in Nat, len \in Nat
      <4>3. a + rf < d
        BY ONLY <2>8, <4>1, <4>2, a \in Nat, c \in Nat, d \in Nat, rf \in Nat, r \in Nat, R \in Nat,
              v \in Nat, from \in Nat
      <4> QED
        BY ONLY <4>3, a = R * qf /\ c = R * q /\ d = R * q2
    <3>3. qf < q2
      BY ONLY <3>2, DivisionBound, R \in Nat \ {0}, qf \in Nat, rf \in Nat, q2 \in Nat
    <3> QED
      BY ONLY <3>3, q2 = q + 1, q \in Nat, qf \in Nat
  <2> QED
    BY ONLY <2>1, <2>5, <2>6, v = from + x, top = qf + turns
<1> DEFINE past(a) == IF at[a] = len THEN turns ELSE (from + at[a]) \div R - qf
           size == [a \in V |-> past(a)]
<1>5. ASSUME NEW a \in V
      PROVE  /\ past(a) \in 0..turns /\ next[a] \in V /\ (past(a) = turns => at[a] = len)
             /\ past(a) < turns => past(a) < past(next[a])
  <2> PICK x \in 0..len, y \in 0..len : x = at[a] /\ y = at[next[a]]
    OBVIOUS
  <2> PICK i \in Nat, j \in Nat : i = (from + x) \div R /\ j = (from + y) \div R
    BY <1>4
  <2>1. i >= qf /\ i < qf + turns /\ j >= qf /\ j < qf + turns
    BY ONLY <1>4, x \in 0..len, y \in 0..len, i = (from + x) \div R /\ j = (from + y) \div R
  <2>2. x < len => y = len \/ j = i + 1
    BY ONLY i = (from + x) \div R /\ j = (from + y) \div R, x = at[a] /\ y = at[next[a]], a \in V,
            <1>0 DEF NextBlock
  <2>3. /\ past(a) = IF x = len THEN turns ELSE i - qf
        /\ past(next[a]) = IF y = len THEN turns ELSE j - qf
    BY ONLY i = (from + x) \div R /\ j = (from + y) \div R, x = at[a] /\ y = at[next[a]]
  <2> HIDE DEF past
  <2> QED
    BY ONLY <1>3, <2>1, <2>2, <2>3, x = at[a] /\ y = at[next[a]], a \in V, next \in [V -> V],
            i \in Nat, j \in Nat, qf \in Nat, x \in 0..len, y \in 0..len, len \in Nat
<1>6. \A a \in V : at[a] = len => past(a) = turns
  OBVIOUS
<1> HIDE DEF past
<1>7. /\ size \in [V -> 0..turns]
      /\ \A a \in V : size[a] < turns => size[a] < size[next[a]]
      /\ \A a \in V : size[a] = turns => next[a] = a
  BY ONLY <1>0, <1>5
<1>8. \A a \in V : size[a] = turns => at[a] = len
  BY ONLY <1>5
<1> HIDE DEF size
<1>9. PICK f : Ends(f, V, b, next, size, turns)
  BY ONLY <1>3, <1>7, LoopEnds, b \in V, next \in [V -> V]
<1>10. EndsInTurns(f, V, b, next, at, len, turns)
  BY ONLY <1>3, <1>8, <1>9 DEF Ends, EndsInTurns
<1> QED
  BY ONLY <1>3, <1>10 DEF TurnsEnd

(* What satisfies the recursion of the absorbing loop is its value.         *)
LEMMA AbsorbTurnsFollow ==
  ASSUME NEW s, NEW data, NEW len \in Nat, MaxTurns(s, Len(data)) = len, NEW g, g[0] = TurnedTo(s, 0),
         \A i \in 1..len : g[i] = AbsorbTurn(g[i - 1], data)
  PROVE  AbsorbTurns(s, data)[len] = g[len]
<1> DEFINE f == AbsorbTurns(s, data)
           h == [i \in 0..len |-> g[i]]
<1>0. h = [i \in 0..len |-> IF i = 0 THEN TurnedTo(s, 0) ELSE AbsorbTurn(h[i - 1], data)]
  <2>1. ASSUME NEW i \in 0..len, i # 0
        PROVE  g[i] = AbsorbTurn(h[i - 1], data)
    <3>1. i \in 1..len /\ i - 1 \in 0..len
      BY <2>1
    <3>2. h[i - 1] = g[i - 1]
      BY <3>1
    <3> QED
      BY <3>1, <3>2
  <2> QED
    BY <2>1
<1>1. f = [i \in 0..len |-> IF i = 0 THEN TurnedTo(s, 0) ELSE AbsorbTurn(f[i - 1], data)]
  <2> HIDE DEF h
  <2> QED
    BY <1>0 DEF AbsorbTurns, TurnedTo
<1> HIDE DEF f, h
<1> DEFINE S == {i \in 0..len : f[i] = g[i]}
<1>2. 0 \in S
  BY <1>1
<1>3. ASSUME NEW i \in 1..len, i - 1 \in S PROVE i \in S
  <2>1. f[i] = AbsorbTurn(f[i - 1], data)
    BY <1>1
  <2>2. g[i] = AbsorbTurn(g[i - 1], data)
    OBVIOUS
  <2> QED
    BY <1>3, <2>1, <2>2
<1>4. S \in SUBSET (0..len)
  OBVIOUS
<1> HIDE DEF S
<1>5. S = 0..len
  BY <1>2, <1>3, <1>4, InductUpTo
<1>6. f[len] = g[len]
  <2>1. len \in 0..len
    OBVIOUS
  <2> QED
    BY <1>5, <2>1 DEF S
<1> QED
  BY <1>6 DEF f

(* Where the loop may be after its turns. *)
Reached(R, M, from, a, at) == \E s : Stands(R, M, s, from + at) /\ a = TurnedTo(s, at)

(* A turn leads from one reached place to a later one, or stays at the      *)
(* end.                                                                     *)
LEMMA AbsorbTurnReaches ==
  ASSUME NEW R \in Nat \ {0}, NEW M, NEW from \in Nat, NEW data \in Data8,
         Piece(M, from, Len(data), data), NEW at \in Nat, NEW len \in Nat, len = Len(data), at <= len,
         NEW a, Reached(R, M, from, a, at)
  PROVE  \E at2 \in 0..len : /\ Reached(R, M, from, AbsorbTurn(a, data), at2)
                              /\ IF at < len THEN NextBlock(R, from, at, at2, len)
                                 ELSE at2 = at /\ AbsorbTurn(a, data) = a
<1>1. PICK s : Stands(R, M, s, from + at) /\ a = TurnedTo(s, at)
  BY DEF Reached
<1>2. PICK q \in Nat, r \in Nat : from + at = q * R + r /\ r < R /\ s = Absorbed(R, M, q, r)
  BY <1>1 DEF Stands
<1>3. CASE at < len
  <2>1. at < Len(data)
    BY <1>3
  <2>2. Advances(R, M, from, at, Len(data), AbsorbTurn(TurnedTo(s, at), data))
    BY ONLY <2>1, <1>2, AbsorbTurnIs, R \in Nat \ {0}, from \in Nat, data \in Data8,
            Piece(M, from, Len(data), data), at \in Nat, q \in Nat, r \in Nat
  <2>3. PICK n \in Nat : /\ at + n <= Len(data) /\ NextBlock(R, from, at, at + n, Len(data))
                         /\ AdvancesBy(R, M, from, at, n, AbsorbTurn(TurnedTo(s, at), data))
    BY <2>2 DEF Advances
  <2>4. PICK s2 : Stands(R, M, s2, from + at + n) /\ AbsorbTurn(TurnedTo(s, at), data) = TurnedTo(s2, at + n)
    BY <2>3 DEF AdvancesBy
  <2>5. PICK at2 \in 0..len : at2 = at + n
    BY <2>3
  <2>6. from + at2 = from + at + n
    BY ONLY <2>5, from \in Nat, at \in Nat, n \in Nat
  <2>7. AbsorbTurn(a, data) = TurnedTo(s2, at2)
    BY ONLY <1>1, <2>4, <2>5
  <2>8. Reached(R, M, from, AbsorbTurn(a, data), at2)
    BY ONLY <2>4, <2>6, <2>7 DEF Reached
  <2>9. NextBlock(R, from, at, at2, len)
    BY ONLY <2>3, <2>5, len = Len(data)
  <2> QED
    BY ONLY <1>3, <2>8, <2>9, at2 \in 0..len
<1>4. CASE at = len
  <2>1. a.at = at
    BY ONLY <1>1, TurnedHas
  <2>2. Len(data) - a.at = 0
    BY <1>4, <2>1
  <2>3. AbsorbTurn(a, data) = a
    BY ONLY <2>2, Zenon DEF AbsorbTurn
  <2>4. at \in 0..len /\ ~ (at < len)
    BY <1>4
  <2>5. Reached(R, M, from, AbsorbTurn(a, data), at)
    BY ONLY <2>3, Reached(R, M, from, a, at)
  <2> QED
    BY ONLY <2>3, <2>4, <2>5
<1> QED
  BY ONLY <1>3, <1>4, at \in Nat, len \in Nat, at <= len

(* Absorbing data that goes on with the message: Keccak_SpongeAbsorb.       *)
LEMMA AbsorbIs ==
  ASSUME NEW R \in Nat \ {0}, NEW M, NEW from \in Nat, NEW data \in Data8, NEW len \in Nat,
         len = Len(data), Piece(M, from, len, data), NEW s, Stands(R, M, s, from)
  PROVE  Stands(R, M, Keccak_SpongeAbsorb(s, data), from + len)
<1> DEFINE
      Places == {x \in Nat \X Nat \X (0..len) : x[2] < R /\ from + x[3] = x[1] * R + x[2]}
      V == {TurnedTo(Absorbed(R, M, x[1], x[2]), x[3]) : x \in Places}
      next == [a \in V |-> AbsorbTurn(a, data)]
      size == [a \in V |-> a.at]
      b == TurnedTo(s, 0)
<1>1. ASSUME NEW a, NEW at \in 0..len, Reached(R, M, from, a, at)
      PROVE  a \in V /\ a.at = at
  <2>1. PICK t : Stands(R, M, t, from + at) /\ a = TurnedTo(t, at)
    BY <1>1 DEF Reached
  <2>2. PICK q \in Nat, r \in Nat : from + at = q * R + r /\ r < R /\ t = Absorbed(R, M, q, r)
    BY <2>1 DEF Stands
  <2>3. PICK x : x = <<q, r, at>>
    OBVIOUS
  <2>4. x \in Places /\ x[1] = q /\ x[2] = r /\ x[3] = at
    BY <2>2, <2>3
  <2>5. a = TurnedTo(Absorbed(R, M, x[1], x[2]), x[3])
    BY ONLY <2>1, <2>2, <2>4
  <2>6. a \in V
    BY ONLY <2>4, <2>5
  <2> QED
    BY ONLY <2>1, <2>6, TurnedHas
<1>2. ASSUME NEW a \in V
      PROVE  a.at \in 0..len /\ Reached(R, M, from, a, a.at)
  <2>1. PICK x \in Places : a = TurnedTo(Absorbed(R, M, x[1], x[2]), x[3])
    BY ONLY a \in V
  <2> PICK q, r, at : q = x[1] /\ r = x[2] /\ at = x[3]
    OBVIOUS
  <2>2. q \in Nat /\ r \in Nat /\ at \in 0..len /\ r < R /\ from + at = q * R + r
    OBVIOUS
  <2>3. a = TurnedTo(Absorbed(R, M, q, r), at)
    BY ONLY <2>1, q = x[1] /\ r = x[2] /\ at = x[3]
  <2>4. a.at = at
    BY ONLY <2>3, TurnedHas
  <2>5. Stands(R, M, Absorbed(R, M, q, r), from + at)
    BY ONLY <2>2, StandsAt
  <2>6. Reached(R, M, from, a, at)
    BY ONLY <2>3, <2>5 DEF Reached
  <2> QED
    BY ONLY <2>2, <2>4, <2>6
<1> HIDE DEF V
<1>3. ASSUME NEW a \in V
      PROVE  /\ next[a] \in V /\ size[a] \in 0..len /\ next[a] = AbsorbTurn(a, data)
             /\ size[a] < len => NextBlock(R, from, size[a], size[next[a]], len)
             /\ size[a] = len => next[a] = a
  <2> PICK at \in Nat : at = a.at /\ at <= len
    BY <1>2
  <2>1. Reached(R, M, from, a, at)
    BY ONLY <1>2, a \in V, at = a.at
  <2>2. PICK at2 \in 0..len : /\ Reached(R, M, from, AbsorbTurn(a, data), at2)
                              /\ IF at < len THEN NextBlock(R, from, at, at2, len)
                                 ELSE at2 = at /\ AbsorbTurn(a, data) = a
    <3>1. Piece(M, from, Len(data), data)
      BY ONLY Piece(M, from, len, data), len = Len(data)
    <3> QED
      BY ONLY <2>1, <3>1, AbsorbTurnReaches, R \in Nat \ {0}, from \in Nat, data \in Data8,
              len \in Nat, len = Len(data), at \in Nat, at <= len
  <2>3. AbsorbTurn(a, data) \in V /\ AbsorbTurn(a, data).at = at2
    BY ONLY <1>1, <2>2
  <2>4. next[a] = AbsorbTurn(a, data) /\ size[a] = at /\ size[next[a]] = at2
    BY ONLY <2>3, a \in V, at = a.at
  <2> QED
    BY ONLY <2>2, <2>3, <2>4, at \in Nat, at <= len, len \in Nat
<1>4. b \in V /\ b.at = 0
  <2>1. from + 0 = from /\ 0 \in 0..len
    OBVIOUS
  <2>2. Reached(R, M, from, b, 0)
    BY ONLY <2>1, Stands(R, M, s, from) DEF Reached
  <2> QED
    BY ONLY <1>1, <2>1, <2>2
<1>5. next \in [V -> V] /\ size \in [V -> 0..len]
  BY ONLY <1>3
<1> HIDE DEF next, size, b
<1> PICK turns : turns = len \div R + 2
  OBVIOUS
<1>15. Turning(R, V, from, next, size, len)
  BY ONLY <1>3 DEF Turning
<1>16. TurnsEnd(V, b, next, size, len, turns)
  BY ONLY <1>4, <1>5, <1>15, BlocksEnd, len \in Nat, R \in Nat \ {0}, from \in Nat, turns = len \div R + 2
<1>6. turns \in Nat
  BY ONLY <1>16 DEF TurnsEnd
<1>7. PICK g : EndsInTurns(g, V, b, next, size, len, turns)
  BY ONLY <1>16 DEF TurnsEnd
<1>8. /\ g \in [0..turns -> V] /\ g[0] = b /\ size[g[turns]] = len
      /\ \A i \in 1..turns : g[i] = AbsorbTurn(g[i - 1], data)
  BY ONLY <1>6, <1>7, <1>3 DEF EndsInTurns
<1>9. MaxTurns(s, Len(data)) = turns
  <2>1. PICK q \in Nat, r \in Nat : s = Absorbed(R, M, q, r)
    BY ONLY Stands(R, M, s, from) DEF Stands
  <2>2. s.rate = 8 * R
    BY ONLY <2>1 DEF Absorbed, Sponge
  <2> QED
    BY ONLY <2>2, Eighth, R \in Nat \ {0}, turns = len \div R + 2, len = Len(data) DEF MaxTurns
<1>10. AbsorbTurns(s, data)[turns] = g[turns]
  BY ONLY <1>6, <1>8, <1>9, AbsorbTurnsFollow DEF b
<1>11. g[turns] \in V /\ g[turns].at = len
  BY ONLY <1>6, <1>8 DEF size
<1>12. PICK t : Stands(R, M, t, from + len) /\ g[turns] = TurnedTo(t, len)
  BY ONLY <1>2, <1>11 DEF Reached
<1>13. Keccak_SpongeAbsorb(s, data) = t
  BY ONLY <1>9, <1>10, <1>12, TurnedHas DEF Keccak_SpongeAbsorb
<1> QED
  BY ONLY <1>12, <1>13

(* Only the bytes that were taken matter. *)
Alike(M, M2, p) == \A i \in 0..p - 1 : M[i] = M2[i]

(* Tapes with the same first bytes have the same first blocks.              *)
LEMMA BlockAlike ==
  ASSUME NEW M, NEW M2, NEW p \in Nat, Alike(M, M2, p), NEW from \in Nat, NEW len \in Nat,
         from + len <= p
  PROVE  Block(M, from, len) = Block(M2, from, len)
<1>1. ASSUME NEW i \in 0..len - 1 PROVE M[from + i] = M2[from + i]
  <2>1. PICK j \in 0..p - 1 : j = from + i
    OBVIOUS
  <2> QED
    BY <2>1 DEF Alike
<1> QED
  BY <1>1 DEF Block

LEMMA BlocksAlike ==
  ASSUME NEW M, NEW M2, NEW p \in Nat, Alike(M, M2, p), NEW R \in Nat, NEW q \in Nat,
         q * R <= p
  PROVE  BlocksOf(R, M, q) = BlocksOf(R, M2, q)
<1>1. ASSUME NEW k \in 1..q PROVE BlockNo(R, M, k) = BlockNo(R, M2, k)
  <2> PICK j \in Nat : j = k - 1
    OBVIOUS
  <2> PICK left \in Nat : left = q - k
    OBVIOUS
  <2>1. q * R = j * R + R + left * R /\ j * R \in Nat /\ left * R \in Nat
    <3>1. q = j + 1 + left
      OBVIOUS
    <3>2. (j + 1 + left) * R = j * R + R + left * R
      OBVIOUS
    <3> QED
      BY <3>1, <3>2
  <2> PICK from \in Nat : from = j * R
    BY <2>1
  <2>2. from + R <= p
    BY <2>1
  <2>3. Block(M, from, R) = Block(M2, from, R)
    BY ONLY <2>2, BlockAlike, p \in Nat, Alike(M, M2, p), from \in Nat, R \in Nat
  <2> QED
    BY ONLY <2>3, from = j * R, j = k - 1 DEF BlockNo
<1> QED
  BY ONLY <1>1 DEF BlocksOf

(* A sponge that stands on the one stands on the other.                     *)
LEMMA StandsAlike ==
  ASSUME NEW M, NEW M2, NEW p \in Nat, Alike(M, M2, p), NEW R \in Nat, NEW s, Stands(R, M, s, p)
  PROVE  Stands(R, M2, s, p)
<1>1. PICK q \in Nat, r \in Nat : p = q * R + r /\ r < R /\ s = Absorbed(R, M, q, r)
  BY DEF Stands
<1> PICK base \in Nat : base = q * R
  OBVIOUS
<1>2. BlocksOf(R, M, q) = BlocksOf(R, M2, q)
  <2>1. q * R <= p
    BY <1>1
  <2> QED
    BY ONLY <2>1, BlocksAlike, p \in Nat, Alike(M, M2, p), R \in Nat, q \in Nat
<1>3. Block(M, base, r) = Block(M2, base, r)
  <2>1. base + r <= p
    BY <1>1
  <2> QED
    BY ONLY <2>1, BlockAlike, p \in Nat, Alike(M, M2, p), base \in Nat, r \in Nat
<1>4. s = Absorbed(R, M2, q, r)
  BY ONLY <1>1, <1>2, <1>3, base = q * R, Zenon DEF Absorbed
<1> QED
  BY ONLY <1>1, <1>4, q \in Nat, r \in Nat DEF Stands

(* The message with the padding's last bit in byte last. *)
Marked(M, last) == [p \in Nat |-> M[p] \cup (IF p = last THEN {7} ELSE {})]

(* A message that ends in byte `to`, with the bits of the suffix. *)
EndsIn(M, to) == M[to] \subseteq 0..7 /\ \A p \in Nat : p > to => M[p] = {}

(* The marked tape differs in one byte.                                     *)
LEMMA MarkedAt ==
  ASSUME NEW M, NEW last \in Nat, NEW p \in Nat
  PROVE  Marked(M, last)[p] = IF p = last THEN M[p] \cup {7} ELSE M[p]
BY DEF Marked

(* It is the same before that byte.                                         *)
LEMMA MarkedAlike ==
  ASSUME NEW M, NEW last \in Nat, NEW p \in Nat, p <= last
  PROVE  Alike(M, Marked(M, last), p)
<1>1. ASSUME NEW i \in 0..p - 1 PROVE Marked(M, last)[i] = M[i]
  <2>1. i \in Nat /\ i # last
    OBVIOUS
  <2> QED
    BY ONLY <2>1, MarkedAt, last \in Nat
<1> QED
  BY ONLY <1>1 DEF Alike

(* The block of the last bit alone, and with the end of the message in it. *)
LEMMA LoneBlock ==
  ASSUME NEW R \in Nat \ {0}, NEW M, NEW to \in Nat, EndsIn(M, to), NEW base \in Nat, base > to,
         NEW last \in Nat, last = base + R - 1
  PROVE  Block(Marked(M, last), base, R) = {<<R - 1, 7>>}
<1>1. ASSUME NEW i \in 0..R - 1
      PROVE  Marked(M, last)[base + i] = IF i = R - 1 THEN {7} ELSE {}
  <2>1. PICK p \in Nat : p = base + i
    OBVIOUS
  <2>2. M[p] = {} /\ (p = last <=> i = R - 1)
    BY <2>1 DEF EndsIn
  <2>3. Marked(M, last)[p] = IF p = last THEN M[p] \cup {7} ELSE M[p]
    BY ONLY MarkedAt, last \in Nat, p \in Nat
  <2>4. {} \cup {7} = {7}
    OBVIOUS
  <2> QED
    BY ONLY <2>1, <2>2, <2>3, <2>4
<1>2. R - 1 \in 0..R - 1
  OBVIOUS
<1> QED
  BY ONLY <1>1, <1>2 DEF Block

(* The input's last byte, M[base + r], leaves the block's last bit free.    *)
LeavesLastBit(R, M, base, r, last) ==
  r < R /\ EndsIn(M, base + r) /\ last = base + R - 1 /\ ~ (7 \in M[base + r] /\ r = R - 1)

(* The delimiter and the padding's last bit share a block.                  *)
LEMMA SharedBlock ==
  ASSUME NEW R \in Nat \ {0}, NEW M, NEW base \in Nat, NEW r \in Nat, NEW last \in Nat,
         LeavesLastBit(R, M, base, r, last)
  PROVE  XorBits(Block(M, base, r + 1), {<<R - 1, 7>>}) = Block(Marked(M, last), base, R)
<1>0. r < R /\ EndsIn(M, base + r) /\ last = base + R - 1 /\ ~ (7 \in M[base + r] /\ r = R - 1)
  BY DEF LeavesLastBit
<1>1. ~ (<<R - 1, 7>> \in Block(M, base, r + 1))
  <2> SUFFICES ASSUME <<R - 1, 7>> \in Block(M, base, r + 1) PROVE FALSE
    OBVIOUS
  <2>1. PICK i \in 0..r : \E t \in M[base + i] : <<R - 1, 7>> = <<i, t>>
    BY DEF Block
  <2>2. i = R - 1 /\ 7 \in M[base + i]
    BY <2>1
  <2>3. i = r
    BY <2>2, <1>0
  <2> QED
    BY <2>2, <2>3, <1>0
<1>2. ASSUME NEW i \in 0..R - 1
      PROVE  /\ i # R - 1 => Marked(M, last)[base + i] = M[base + i]
             /\ i = R - 1 => Marked(M, last)[base + i] = M[base + i] \cup {7}
             /\ i > r => M[base + i] = {}
  <2>1. PICK p \in Nat : p = base + i
    OBVIOUS
  <2>2. (p = last <=> i = R - 1) /\ (i > r => p > base + r)
    BY <2>1, <1>0
  <2>3. Marked(M, last)[p] = IF p = last THEN M[p] \cup {7} ELSE M[p]
    BY ONLY MarkedAt, last \in Nat, p \in Nat
  <2>4. i > r => M[p] = {}
    BY <2>2, <1>0 DEF EndsIn
  <2> QED
    BY ONLY <2>1, <2>2, <2>3, <2>4
<1>3. \A x : x \in Block(M, base, r + 1) <=> \E i \in 0..r : \E t \in M[base + i] : x = <<i, t>>
  <2>1. r + 1 - 1 = r
    OBVIOUS
  <2> QED
    BY ONLY <2>1 DEF Block
<1>4. \A x : x \in Block(Marked(M, last), base, R) <=>
             \E i \in 0..R - 1 : \E t \in Marked(M, last)[base + i] : x = <<i, t>>
  BY ONLY R \in Nat \ {0} DEF Block
<1>5. R - 1 \in 0..R - 1 /\ \A i \in 0..r : i \in 0..R - 1
  BY <1>0
<1>6. \A x : x \in Block(Marked(M, last), base, R) <=> x \in Block(M, base, r + 1) \/ x = <<R - 1, 7>>
  <2>1. ASSUME NEW x, x \in Block(Marked(M, last), base, R)
        PROVE  x \in Block(M, base, r + 1) \/ x = <<R - 1, 7>>
    <3>1. PICK i \in 0..R - 1 : \E t \in Marked(M, last)[base + i] : x = <<i, t>>
      BY ONLY <1>4, <2>1
    <3>2. PICK t \in Marked(M, last)[base + i] : x = <<i, t>>
      BY ONLY <3>1
    <3>3. CASE t \in M[base + i]
      <4>1. ~ (i > r)
        BY ONLY <1>2, <3>3, i \in 0..R - 1
      <4>2. i \in 0..r
        BY ONLY <4>1, i \in 0..R - 1, R \in Nat, r \in Nat
      <4> QED
        BY ONLY <1>3, <3>2, <3>3, <4>2
    <3>4. CASE t \notin M[base + i]
      <4>1. i = R - 1 /\ t = 7
        BY ONLY <1>2, <3>2, <3>4, i \in 0..R - 1, t \in Marked(M, last)[base + i]
      <4> QED
        BY ONLY <3>2, <4>1
    <3> QED
      BY ONLY <3>3, <3>4
  <2>2. ASSUME NEW x, x \in Block(M, base, r + 1)
        PROVE  x \in Block(Marked(M, last), base, R)
    <3>1. PICK i \in 0..r : \E t \in M[base + i] : x = <<i, t>>
      BY ONLY <1>3, <2>2
    <3>2. i \in 0..R - 1
      BY ONLY <1>5
    <3> QED
      BY ONLY <1>2, <1>4, <3>1, <3>2
  <2>3. <<R - 1, 7>> \in Block(Marked(M, last), base, R)
    BY ONLY <1>2, <1>4, <1>5
  <2> QED
    BY ONLY <2>1, <2>2, <2>3
<1> QED
  BY ONLY <1>1, <1>6 DEF XorBits

(* How many blocks a message of q blocks and r bytes and the bits D is when  *)
(* it is padded.                                                             *)
Padding(R, D, q, r) == IF 7 \in D /\ r = R - 1 THEN q + 2 ELSE q + 1

(* The sponge after B blocks of the padded message, ready to be squeezed.   *)
Closed(R, M, B) == Sponge(State(BlocksOf(R, Marked(M, B * R - 1), B), {}), 8 * R, 0, TRUE)

(* The last, partial byte joins the block at hand.                          *)
LEMMA LastByte ==
  ASSUME NEW M, NEW base \in Nat, NEW r \in Nat, NEW D, D = M[base + r]
  PROVE  XorIn(Block(M, base, r), r, <<D>>) = Block(M, base, r + 1)
<1>1. Piece(M, base + r, 1, <<D>>)
  <2>1. DOMAIN <<D>> = 1..1 /\ \A i \in 1..1 : i = 1
    OBVIOUS
  <2>2. base + r + 1 - 1 = base + r
    OBVIOUS
  <2> QED
    BY <2>1, <2>2 DEF Piece
<1> QED
  BY <1>1, BlockGrows

(* The padding's last bit is bit 7 of the last byte of the rate.            *)
LEMMA LastBitPosition ==
  ASSUME NEW R \in Nat \ {0}
  PROVE  (8 * R - 1) \div 8 = R - 1 /\ (8 * R - 1) % 8 = 7
<1> PICK k \in Nat : k = R - 1
  OBVIOUS
<1>1. (k * 8 + 7) \div 8 = k /\ (k * 8 + 7) % 8 = 7
  BY QuotientIs
<1>2. 8 * R - 1 = k * 8 + 7
  OBVIOUS
<1> QED
  BY <1>1, <1>2

(* Keccak_SpongeAbsorbLastFewBits adds the delimited bits and the padding:  *)
(* one block more when the delimiter fills the last byte of a block.        *)
LEMMA LastBitsAre ==
  ASSUME NEW R \in Nat \ {0}, NEW M, NEW q \in Nat, NEW r \in Nat, r < R,
         NEW s, s = Absorbed(R, M, q, r), NEW D, D = M[q * R + r], EndsIn(M, q * R + r),
         NEW B, B = Padding(R, D, q, r)
  PROVE  Keccak_SpongeAbsorbLastFewBits(s, D) = Closed(R, M, B)
<1> PICK base \in Nat : base = q * R
  OBVIOUS
<1> PICK p, x, st : p = BlocksOf(R, M, q) /\ x = Block(M, base, r) /\ st = State(p, x)
  OBVIOUS
<1> PICK no : no = FALSE
  OBVIOUS
<1> PICK rate : rate = 8 * R
  OBVIOUS
<1>1. s = Sponge(st, rate, r, no)
  BY ONLY s = Absorbed(R, M, q, r), base = q * R, no = FALSE, rate = 8 * R,
          p = BlocksOf(R, M, q) /\ x = Block(M, base, r) /\ st = State(p, x), Zenon DEF Absorbed
<1>2. s.state = st /\ s.rate = rate /\ s.byteIOIndex = r
  BY ONLY <1>1, SpongeHas
<1>3. s.rate \div 8 = R
  BY <1>2, Eighth
<1>4. D = M[base + r] /\ EndsIn(M, base + r)
  BY ONLY D = M[q * R + r], EndsIn(M, q * R + r), base = q * R
<1> PICK st1, y : st1 = KeccakF1600_StateXORBytes(st, r, <<D>>) /\ y = Block(M, base, r + 1)
  OBVIOUS
<1>5. st1 = State(p, y)
  <2>1. XorIn(x, r, <<D>>) = y
    BY ONLY <1>4, LastByte, base \in Nat, r \in Nat,
            p = BlocksOf(R, M, q) /\ x = Block(M, base, r) /\ st = State(p, x),
            st1 = KeccakF1600_StateXORBytes(st, r, <<D>>) /\ y = Block(M, base, r + 1)
  <2> PICK one : one = <<D>>
    OBVIOUS
  <2>2. st1 = KeccakF1600_StateXORBytes(st, r, one) /\ XorIn(x, r, one) = y
    BY ONLY <2>1, one = <<D>>, st1 = KeccakF1600_StateXORBytes(st, r, <<D>>) /\ y = Block(M, base, r + 1)
  <2>3. KeccakF1600_StateXORBytes(st, r, one) = State(p, XorIn(x, r, one))
    BY ONLY XorBytesIs, p = BlocksOf(R, M, q) /\ x = Block(M, base, r) /\ st = State(p, x)
  <2> QED
    BY ONLY <2>2, <2>3
<1> PICK more : more = NeedsAnotherBlock(s, D)
  OBVIOUS
<1>6. more <=> 7 \in D /\ r = R - 1
  BY ONLY <1>2, <1>3, more = NeedsAnotherBlock(s, D) DEF NeedsAnotherBlock
<1> PICK st2 : st2 = IF more THEN KeccakF1600_StatePermute(st1) ELSE st1
  OBVIOUS
<1> PICK st3 : st3 = KeccakF1600_StateComplementBit(st2, rate - 1)
  OBVIOUS
<1> PICK st4 : st4 = KeccakF1600_StatePermute(st3)
  OBVIOUS
<1>7. Keccak_SpongeAbsorbLastFewBits(s, D) = Shut(s, st4)
  BY ONLY <1>2, st1 = KeccakF1600_StateXORBytes(st, r, <<D>>) /\ y = Block(M, base, r + 1),
          more = NeedsAnotherBlock(s, D), st2 = (IF more THEN KeccakF1600_StatePermute(st1) ELSE st1),
          st3 = KeccakF1600_StateComplementBit(st2, rate - 1), st4 = KeccakF1600_StatePermute(st3), Zenon
     DEF Keccak_SpongeAbsorbLastFewBits, Shut
<1> PICK z, yes : Commences(z, yes)
  BY DEF Commences
<1>8. Keccak_SpongeAbsorbLastFewBits(s, D) = Sponge(st4, rate, z, yes)
  <2>1. Shut(s, st4) = Sponge(st4, rate, z, yes)
    BY ONLY <1>1, ClosedIs, Commences(z, yes)
  <2> QED
    BY ONLY <1>7, <2>1, Zenon
<1>9. ASSUME NEW P, NEW w, st2 = State(P, w)
      PROVE  st4 = State(Append(P, XorBits(w, {<<R - 1, 7>>})), {})
  <2> PICK place, v : place = rate - 1 /\ v = XorBits(w, {<<R - 1, 7>>})
    OBVIOUS
  <2>1. place \div 8 = R - 1 /\ place % 8 = 7
    BY ONLY LastBitPosition, R \in Nat \ {0}, rate = 8 * R, place = rate - 1 /\ v = XorBits(w, {<<R - 1, 7>>})
  <2>2. st3 = State(P, XorBits(w, {<<place \div 8, place % 8>>}))
    BY ONLY <1>9, ComplementIs, st3 = KeccakF1600_StateComplementBit(st2, rate - 1),
            place = rate - 1 /\ v = XorBits(w, {<<R - 1, 7>>})
  <2>3. st3 = State(P, v)
    BY ONLY <2>1, <2>2, place = rate - 1 /\ v = XorBits(w, {<<R - 1, 7>>})
  <2> QED
    BY ONLY <2>3, PermuteIs, st4 = KeccakF1600_StatePermute(st3), place = rate - 1 /\ v = XorBits(w, {<<R - 1, 7>>})
<1>10. CASE more
  <2>1. 7 \in D /\ r = R - 1 /\ r + 1 = R
    BY ONLY <1>6, <1>10, R \in Nat, r \in Nat
  <2>2. B = q + 2
    BY ONLY <2>1, B = Padding(R, D, q, r) DEF Padding
  <2> PICK next \in Nat : next = q + 1
    OBVIOUS
  <2> PICK full \in Nat : full = next * R
    OBVIOUS
  <2> PICK last \in Nat : last = full + R - 1
    OBVIOUS
  <2>3. full = base + R /\ last = B * R - 1 /\ B = next + 1
    <3>1. (q + 1) * R = q * R + R /\ (q + 2) * R = q * R + R + R
      OBVIOUS
    <3> QED
      BY ONLY <2>2, <3>1, next = q + 1, full = next * R, last = full + R - 1, base = q * R,
              base \in Nat, R \in Nat, q \in Nat
  <2>4. st2 = State(BlocksOf(R, M, next), {})
    <3>1. st1 = State(p, Block(M, q * R, R))
      BY ONLY <1>5, <2>1, base = q * R,
              st1 = KeccakF1600_StateXORBytes(st, r, <<D>>) /\ y = Block(M, base, r + 1)
    <3>2. st2 = State(Append(p, Block(M, q * R, R)), {})
      BY ONLY <1>10, <3>1, PermuteIs, st2 = (IF more THEN KeccakF1600_StatePermute(st1) ELSE st1)
    <3>3. Append(p, Block(M, q * R, R)) = BlocksOf(R, M, q + 1)
      BY ONLY BlocksGrow, R \in Nat, q \in Nat, p = BlocksOf(R, M, q) /\ x = Block(M, base, r) /\ st = State(p, x)
    <3> QED
      BY ONLY <3>2, <3>3, next = q + 1
  <2>5. XorBits({}, {<<R - 1, 7>>}) = {<<R - 1, 7>>}
    BY DEF XorBits
  <2>6. st4 = State(Append(BlocksOf(R, M, next), {<<R - 1, 7>>}), {})
    BY ONLY <1>9, <2>4, <2>5
  <2>7. Block(Marked(M, last), full, R) = {<<R - 1, 7>>}
    <3>1. EndsIn(M, base + r) /\ base + r \in Nat /\ full > base + r
      BY ONLY <1>4, <2>1, <2>3, base \in Nat, r \in Nat, R \in Nat, full \in Nat
    <3> QED
      BY ONLY <3>1, LoneBlock, R \in Nat \ {0}, full \in Nat, last \in Nat, last = full + R - 1
  <2>8. BlocksOf(R, M, next) = BlocksOf(R, Marked(M, last), next)
    <3>1. full <= last
      BY ONLY last = full + R - 1, R \in Nat \ {0}, full \in Nat, last \in Nat
    <3>2. Alike(M, Marked(M, last), full)
      BY ONLY <3>1, MarkedAlike, full \in Nat, last \in Nat
    <3>3. next * R <= full
      BY ONLY full = next * R, full \in Nat
    <3> QED
      BY ONLY <3>2, <3>3, BlocksAlike, full \in Nat, R \in Nat, next \in Nat
  <2>9. Append(BlocksOf(R, Marked(M, last), next), Block(Marked(M, last), next * R, R))
          = BlocksOf(R, Marked(M, last), next + 1)
    BY ONLY BlocksGrow, R \in Nat, next \in Nat
  <2>10. st4 = State(BlocksOf(R, Marked(M, last), B), {})
    BY ONLY <2>3, <2>6, <2>7, <2>8, <2>9, full = next * R
  <2> QED
    BY ONLY <1>8, <2>3, <2>10, rate = 8 * R, Commences(z, yes), Zenon DEF Closed, Commences
<1>11. CASE ~ more
  <2>1. ~ (7 \in D /\ r = R - 1)
    BY ONLY <1>6, <1>11
  <2>2. B = q + 1
    BY ONLY <2>1, B = Padding(R, D, q, r) DEF Padding
  <2> PICK last \in Nat : last = base + R - 1
    OBVIOUS
  <2>3. last = B * R - 1
    <3>1. (q + 1) * R = q * R + R
      OBVIOUS
    <3> QED
      BY ONLY <2>2, <3>1, last = base + R - 1, base = q * R
  <2>4. st2 = State(p, y)
    BY ONLY <1>5, <1>11, st2 = (IF more THEN KeccakF1600_StatePermute(st1) ELSE st1)
  <2>5. st4 = State(Append(p, XorBits(y, {<<R - 1, 7>>})), {})
    BY ONLY <1>9, <2>4
  <2>6. XorBits(Block(M, base, r + 1), {<<R - 1, 7>>}) = Block(Marked(M, last), base, R)
    <3>1. ~ (7 \in M[base + r] /\ r = R - 1)
      BY ONLY <1>4, <2>1
    <3> QED
      <4>1. LeavesLastBit(R, M, base, r, last)
        BY ONLY <1>4, <3>1, r < R, last = base + R - 1, Zenon DEF LeavesLastBit
      <4> QED
        BY ONLY <4>1, SharedBlock, R \in Nat \ {0}, base \in Nat, r \in Nat, last \in Nat, Zenon
  <2>7. BlocksOf(R, M, q) = BlocksOf(R, Marked(M, last), q)
    <3>1. base <= last
      BY ONLY last = base + R - 1, R \in Nat \ {0}, base \in Nat, last \in Nat
    <3>2. Alike(M, Marked(M, last), base)
      BY ONLY <3>1, MarkedAlike, base \in Nat, last \in Nat
    <3>3. q * R <= base
      BY ONLY base = q * R, base \in Nat
    <3> QED
      BY ONLY <3>2, <3>3, BlocksAlike, base \in Nat, R \in Nat, q \in Nat
  <2>8. Append(BlocksOf(R, Marked(M, last), q), Block(Marked(M, last), q * R, R))
          = BlocksOf(R, Marked(M, last), q + 1)
    BY ONLY BlocksGrow, R \in Nat, q \in Nat
  <2>9. st4 = State(BlocksOf(R, Marked(M, last), B), {})
    BY ONLY <2>2, <2>5, <2>6, <2>7, <2>8, base = q * R,
            p = BlocksOf(R, M, q) /\ x = Block(M, base, r) /\ st = State(p, x),
            st1 = KeccakF1600_StateXORBytes(st, r, <<D>>) /\ y = Block(M, base, r + 1)
  <2> QED
    BY ONLY <1>8, <2>3, <2>9, rate = 8 * R, Commences(z, yes), Zenon DEF Closed, Commences
<1> QED
  BY <1>10, <1>11

-----------------------------------------------------------------------------
(* The whole input: n bytes of data, then the bits J, the last partial byte  *)
(* with the suffix.                                                          *)
Tape(n, J) == [p \in Nat |-> IF p < n THEN {1000 + p + 1} ELSE {b \in 0..7 : 8 * (p - n) + b \in J}]

(* The input as a tape: n whole bytes, then the bits J from the next byte   *)
(* on.                                                                      *)
IsTape(M, n, J) ==
  /\ \A p \in 0..n - 1 : M[p] = {1000 + p + 1}
  /\ M[n] = {b \in 0..7 : b \in J}
  /\ M[n + 1] = {b \in 0..7 : 8 + b \in J}
  /\ \A p \in Nat : p > n + 1 => M[p] = {}

(* The tape is one.                                                         *)
LEMMA TapeAt ==
  ASSUME NEW n \in Nat, NEW J, J \subseteq 0..15
  PROVE  IsTape(Tape(n, J), n, J)
<1>1. \A p \in 0..n - 1 : Tape(n, J)[p] = {1000 + p + 1}
  BY DEF Tape
<1>2. ASSUME NEW p \in Nat, p >= n
      PROVE  Tape(n, J)[p] = {b \in 0..7 : 8 * (p - n) + b \in J}
  BY <1>2 DEF Tape
<1>3. Tape(n, J)[n] = {b \in 0..7 : b \in J}
  <2>1. \A b \in 0..7 : 8 * (n - n) + b = b
    OBVIOUS
  <2> QED
    BY <1>2, <2>1
<1>4. Tape(n, J)[n + 1] = {b \in 0..7 : 8 + b \in J}
  <2>1. \A b \in 0..7 : 8 * (n + 1 - n) + b = 8 + b
    OBVIOUS
  <2> QED
    BY <1>2, <2>1
<1>5. ASSUME NEW p \in Nat, p > n + 1
      PROVE  Tape(n, J)[p] = {}
  <2>1. \A b \in 0..7 : 8 * (p - n) + b > 15
    BY <1>5
  <2>2. \A b \in 0..7 : ~ (8 * (p - n) + b \in J)
    BY <2>1
  <2> QED
    BY <1>2, <1>5, <2>2
<1> QED
  BY <1>1, <1>3, <1>4, <1>5 DEF IsTape

(* Bit b after n bytes lies in byte n or in the next one.                   *)
LEMMA BitPlace ==
  ASSUME NEW n \in Nat, NEW b \in 0..15
  PROVE  /\ b < 8 => (8 * n + b) \div 8 = n /\ (8 * n + b) % 8 = b
         /\ ~ (b < 8) => (8 * n + b) \div 8 = n + 1 /\ (8 * n + b) % 8 = b - 8
<1>1. CASE b < 8
  <2>1. (n * 8 + b) \div 8 = n /\ (n * 8 + b) % 8 = b
    BY <1>1, QuotientIs
  <2> QED
    BY <1>1, <2>1
<1>2. CASE ~ (b < 8)
  <2> PICK c \in Nat : c = b - 8 /\ c < 8
    BY <1>2
  <2> PICK m \in Nat : m = n + 1
    OBVIOUS
  <2>1. (m * 8 + c) \div 8 = m /\ (m * 8 + c) % 8 = c
    BY QuotientIs
  <2>2. 8 * n + b = m * 8 + c
    OBVIOUS
  <2> QED
    BY <1>2, <2>1, <2>2
<1> QED
  BY <1>1, <1>2

(* The parts of PaddedBlocks. *)
Ones(bytes, tail, suffix) ==
  {8 * Len(bytes) + b : b \in tail.ones} \cup {8 * Len(bytes) + tail.n + b : b \in suffix}

(* The parts of PaddedBlocks: the place of the delimiter, all bits of the   *)
(* padded message, and those of block k counted from its beginning.         *)
Delimiter(ones) == CHOOSE b \in ones : \A c \in ones : c <= b

All(ones, end, bytes) ==
  {<<b \div 8, b % 8>> : b \in ones \cup {end}} \cup UNION {{<<i - 1, t>> : t \in bytes[i]} : i \in DOMAIN bytes}

PaddedBlock(R, all, k) ==
  {<<x[1] - (k - 1) * R, x[2]>> : x \in {y \in all : y[1] \div R = k - 1}}

(* PaddedBlocks in these terms.                                             *)
LEMMA PaddedUnfolds ==
  ASSUME NEW rate, NEW bytes, NEW tail, NEW suffix, NEW ones, ones = Ones(bytes, tail, suffix),
         NEW blocks, blocks = (Delimiter(ones) + 1) \div rate + 1,
         NEW all, all = All(ones, blocks * rate - 1, bytes)
  PROVE  PaddedBlocks(rate, bytes, tail, suffix)
           = [k \in 1..blocks |-> PaddedBlock(rate \div 8, all, k)]
BY Zenon DEF PaddedBlocks, Ones, Delimiter, All, PaddedBlock

(* A partial byte. *)
Tails == {t \in [n : 0..7, ones : SUBSET (0..7)] : \A b \in t.ones : b < t.n}

(* The bits after the whole bytes are those that JoinSuffix joins.          *)
LEMMA OnesAre ==
  ASSUME NEW bytes, NEW n \in Nat, n = Len(bytes), NEW tail \in Tails, NEW suffix \in SUBSET (0..7),
         NEW J, J = JoinSuffix(tail, suffix)
  PROVE  J \subseteq 0..15 /\ Ones(bytes, tail, suffix) = {8 * n + b : b \in J}
<1>1. tail.n \in 0..7 /\ tail.ones \subseteq 0..7
  BY DEF Tails
<1>2. \A b : b \in J <=> b \in tail.ones \/ \E c \in suffix : b = c + tail.n
  BY DEF JoinSuffix
<1>3. J \subseteq 0..15
  BY <1>1, <1>2, SMTT(30)
<1>4. \A x : x \in Ones(bytes, tail, suffix) <=>
             (\E b \in tail.ones : x = 8 * n + b) \/ \E c \in suffix : x = 8 * n + tail.n + c
  BY DEF Ones
<1>5. \A c \in suffix : 8 * n + tail.n + c = 8 * n + (c + tail.n)
  BY <1>1
<1>6. \A x : x \in Ones(bytes, tail, suffix) <=> \E b \in J : x = 8 * n + b
  BY <1>2, <1>4, <1>5
<1>7. Ones(bytes, tail, suffix) = {8 * n + b : b \in J}
  BY ONLY <1>6
<1> QED
  BY <1>3, <1>7

(* The delimiter is the last of them.                                       *)
LEMMA DelimiterIs ==
  ASSUME NEW n \in Nat, NEW J, J \subseteq 0..15, J # {}
  PROVE  \E j \in J : (\A b \in J : b <= j) /\ Delimiter({8 * n + b : b \in J}) = 8 * n + j
<1> DEFINE below == {15 - b : b \in J}
<1>1. below \in SUBSET Nat /\ below # {}
  OBVIOUS
<1>2. PICK x \in below : \A y \in below : x <= y
  BY ONLY <1>1, Least
<1>3. PICK j \in J : x = 15 - j
  OBVIOUS
<1>4. \A b \in J : b <= j
  <2> SUFFICES ASSUME NEW b \in J PROVE b <= j
    OBVIOUS
  <2>1. 15 - b \in below
    OBVIOUS
  <2>2. 15 - j <= 15 - b
    BY <1>2, <1>3, <2>1
  <2>3. j \in 0..15 /\ b \in 0..15
    OBVIOUS
  <2> QED
    BY ONLY <2>2, <2>3
<1> HIDE DEF below
<1> PICK ones : ones = {8 * n + b : b \in J}
  OBVIOUS
<1>5. 8 * n + j \in ones /\ \A c \in ones : c <= 8 * n + j
  BY <1>4
<1>6. \A c \in ones : c \in Int
  OBVIOUS
<1>7. Delimiter(ones) \in ones /\ \A c \in ones : c <= Delimiter(ones)
  BY ONLY <1>5 DEF Delimiter
<1>8. Delimiter(ones) = 8 * n + j
  BY ONLY <1>5, <1>6, <1>7
<1> QED
  BY ONLY <1>4, <1>8, ones = {8 * n + b : b \in J}, j \in J

(* All the bytes given to the hash.                                          *)
Given(bytes, n) == DOMAIN bytes = 1..n /\ \A i \in 1..n : bytes[i] = {1000 + i}

(* The bits that the blocks are cut from are those of the message M.         *)
CutFrom(all, M) == \A x : x \in all <=> \E p \in Nat : \E t \in M[p] : x = <<p, t>>

(* All that the blocks are cut from is the tape with its last bit.           *)
LEMMA AllIs ==
  ASSUME NEW n \in Nat, NEW J, J \subseteq 0..15, NEW last \in Nat,
         NEW bytes, Given(bytes, n),
         NEW all, all = All({8 * n + b : b \in J}, 8 * last + 7, bytes)
  PROVE  CutFrom(all, Marked(Tape(n, J), last))
<1> PICK M, end : M = Tape(n, J) /\ end = 8 * last + 7
  OBVIOUS
<1>1. /\ \A p \in 0..n - 1 : M[p] = {1000 + p + 1}
      /\ M[n] = {b \in 0..7 : b \in J}
      /\ M[n + 1] = {b \in 0..7 : 8 + b \in J}
      /\ \A p \in Nat : p > n + 1 => M[p] = {}
  <2>1. IsTape(M, n, J)
    BY ONLY TapeAt, n \in Nat, J \subseteq 0..15, M = Tape(n, J) /\ end = 8 * last + 7
  <2> QED
    BY ONLY <2>1 DEF IsTape
<1>2. end \div 8 = last /\ end % 8 = 7
  <2>1. (last * 8 + 7) \div 8 = last /\ (last * 8 + 7) % 8 = 7
    BY ONLY QuotientIs, last \in Nat
  <2> QED
    BY <2>1
<1>3. \A x : x \in all <=> \/ \E b \in J : x = <<(8 * n + b) \div 8, (8 * n + b) % 8>>
                           \/ x = <<end \div 8, end % 8>>
                           \/ \E i \in 1..n : x = <<i - 1, 1000 + i>>
  <2>1. all = {<<c \div 8, c % 8>> : c \in {8 * n + b : b \in J} \cup {end}}
                \cup UNION {{<<i - 1, t>> : t \in bytes[i]} : i \in DOMAIN bytes}
    BY DEF All
  <2>0. DOMAIN bytes = 1..n /\ \A i \in 1..n : bytes[i] = {1000 + i}
    BY DEF Given
  <2>2. \A x : x \in {<<c \div 8, c % 8>> : c \in {8 * n + b : b \in J} \cup {end}} <=>
                 \/ \E b \in J : x = <<(8 * n + b) \div 8, (8 * n + b) % 8>>
                 \/ x = <<end \div 8, end % 8>>
    <3> PICK ones : ones = {8 * n + b : b \in J}
      OBVIOUS
    <3>1. \A x : x \in {<<c \div 8, c % 8>> : c \in ones \cup {end}} <=>
                   (\E c \in ones : x = <<c \div 8, c % 8>>) \/ x = <<end \div 8, end % 8>>
      BY Zenon
    <3>2. \A x : (\E c \in ones : x = <<c \div 8, c % 8>>) <=>
                   \E b \in J : x = <<(8 * n + b) \div 8, (8 * n + b) % 8>>
      BY ONLY ones = {8 * n + b : b \in J}
    <3> QED
      BY ONLY <3>1, <3>2, ones = {8 * n + b : b \in J}
  <2>3. \A x : x \in UNION {{<<i - 1, t>> : t \in bytes[i]} : i \in DOMAIN bytes} <=>
                 \E i \in 1..n : x = <<i - 1, 1000 + i>>
    <3>1. \A i \in 1..n : {<<i - 1, t>> : t \in bytes[i]} = {<<i - 1, 1000 + i>>}
      BY ONLY <2>0
    <3> QED
      BY ONLY <2>0, <3>1, SMTT(30)
  <2> QED
    BY ONLY <2>1, <2>2, <2>3
<1>4. \A p \in Nat : Marked(M, last)[p] = IF p = last THEN M[p] \cup {7} ELSE M[p]
  BY ONLY MarkedAt, last \in Nat
<1>5. ASSUME NEW x, x \in all
      PROVE  \E p \in Nat : \E t \in Marked(M, last)[p] : x = <<p, t>>
  <2>1. CASE \E b \in J : x = <<(8 * n + b) \div 8, (8 * n + b) % 8>>
    <3>1. PICK b \in J : x = <<(8 * n + b) \div 8, (8 * n + b) % 8>>
      BY <2>1
    <3>2. b \in 0..15
      OBVIOUS
    <3>3. CASE b < 8
      <4>1. x = <<n, b>>
        BY ONLY <3>1, <3>2, <3>3, BitPlace, n \in Nat
      <4>2. b \in M[n]
        BY ONLY <1>1, <3>2, <3>3, b \in J
      <4>3. b \in Marked(M, last)[n]
        BY ONLY <1>4, <4>2, n \in Nat
      <4> QED
        BY ONLY <4>1, <4>3, n \in Nat
    <3>4. CASE ~ (b < 8)
      <4>1. x = <<n + 1, b - 8>>
        BY ONLY <3>1, <3>2, <3>4, BitPlace, n \in Nat
      <4> PICK c \in 0..7 : c = b - 8
        BY ONLY <3>2, <3>4
      <4>2. 8 + c = b
        BY ONLY <3>2, c = b - 8
      <4>3. c \in M[n + 1]
        BY ONLY <1>1, <4>2, c \in 0..7, b \in J
      <4> PICK m \in Nat : m = n + 1
        OBVIOUS
      <4>4. c \in Marked(M, last)[m]
        BY ONLY <1>4, <4>3, m \in Nat, m = n + 1
      <4> QED
        BY ONLY <4>1, <4>4, m \in Nat, m = n + 1, c = b - 8
    <3> QED
      BY ONLY <3>3, <3>4
  <2>2. CASE x = <<end \div 8, end % 8>>
    <3>1. x = <<last, 7>>
      BY ONLY <1>2, <2>2
    <3>2. 7 \in Marked(M, last)[last]
      BY ONLY <1>4, last \in Nat
    <3> QED
      BY ONLY <3>1, <3>2, last \in Nat
  <2>3. CASE \E i \in 1..n : x = <<i - 1, 1000 + i>>
    <3>1. PICK i \in 1..n : x = <<i - 1, 1000 + i>>
      BY <2>3
    <3> PICK p \in 0..n - 1 : p = i - 1
      OBVIOUS
    <3>2. p \in Nat /\ 1000 + p + 1 = 1000 + i
      OBVIOUS
    <3> PICK t : t = 1000 + i
      OBVIOUS
    <3>3. t \in M[p]
      BY ONLY <1>1, <3>2, p \in 0..n - 1, t = 1000 + i
    <3>4. t \in Marked(M, last)[p]
      BY ONLY <1>4, <3>2, <3>3, ZenonT(30)
    <3> QED
      BY ONLY <3>1, <3>2, <3>4, p = i - 1, t = 1000 + i
  <2> QED
    BY ONLY <1>3, <1>5, <2>1, <2>2, <2>3
<1>6. ASSUME NEW p \in Nat, NEW t \in Marked(M, last)[p], NEW x, x = <<p, t>>
      PROVE  x \in all
  <2>1. CASE p = last /\ t = 7
    BY ONLY <1>2, <1>3, <1>6, <2>1
  <2>2. CASE t \in M[p]
    <3>1. CASE p < n
      <4>1. p \in 0..n - 1
        BY <3>1
      <4>2. t = 1000 + p + 1
        BY ONLY <1>1, <2>2, <4>1
      <4> PICK i \in 1..n : i = p + 1
        BY <3>1
      <4>3. x = <<i - 1, 1000 + i>>
        BY ONLY <1>6, <4>2, i = p + 1, p \in Nat
      <4> QED
        BY ONLY <1>3, <4>3, i \in 1..n
    <3>2. CASE p = n
      <4>1. t \in 0..7 /\ t \in J
        BY ONLY <1>1, <2>2, <3>2
      <4>2. (8 * n + t) \div 8 = n /\ (8 * n + t) % 8 = t
        <5>1. t \in 0..15 /\ t < 8
          BY ONLY <4>1
        <5> QED
          BY ONLY <5>1, BitPlace, n \in Nat
      <4>3. x = <<(8 * n + t) \div 8, (8 * n + t) % 8>>
        BY ONLY <1>6, <3>2, <4>2
      <4> QED
        BY ONLY <1>3, <4>1, <4>3
    <3>3. CASE p = n + 1
      <4>1. t \in 0..7 /\ 8 + t \in J
        BY ONLY <1>1, <2>2, <3>3
      <4> PICK b \in 0..15 : b = 8 + t
        BY <4>1
      <4>2. (8 * n + b) \div 8 = n + 1 /\ (8 * n + b) % 8 = b - 8 /\ b - 8 = t
        <5>1. ~ (b < 8) /\ b - 8 = t
          BY ONLY <4>1, b = 8 + t
        <5> QED
          BY ONLY <5>1, BitPlace, n \in Nat, b \in 0..15
      <4>3. x = <<(8 * n + b) \div 8, (8 * n + b) % 8>>
        BY ONLY <1>6, <3>3, <4>2
      <4> QED
        BY ONLY <1>3, <4>1, <4>3, b = 8 + t
    <3>4. CASE p > n + 1
      BY ONLY <1>1, <2>2, <3>4, p \in Nat
    <3> QED
      BY <3>1, <3>2, <3>3, <3>4
  <2>3. t \in M[p] \/ (p = last /\ t = 7)
    BY ONLY <1>4, p \in Nat, t \in Marked(M, last)[p]
  <2> QED
    BY ONLY <2>1, <2>2, <2>3
<1> QED
  BY ONLY <1>5, <1>6, M = Tape(n, J) /\ end = 8 * last + 7 DEF CutFrom

(* A block cut from the bits is that block of the tape.                     *)
LEMMA PaddedBlockIs ==
  ASSUME NEW R \in Nat \ {0}, NEW M, NEW all, NEW k \in Nat \ {0}, CutFrom(all, M)
  PROVE  PaddedBlock(R, all, k) = BlockNo(R, M, k)
<1> PICK m \in Nat : m = k - 1
  OBVIOUS
<1> PICK base \in Nat : base = m * R
  OBVIOUS
<1>1. ASSUME NEW p \in Nat
      PROVE  p \div R = m <=> \E i \in 0..R - 1 : p = base + i
  <2>1. ASSUME p \div R = m
        PROVE  \E i \in 0..R - 1 : p = base + i
    <3>1. PICK q \in Nat, r \in Nat : q = p \div R /\ r = p % R /\ r < R /\ p = R * q + r
      BY ONLY Division, R \in Nat \ {0}, p \in Nat
    <3>2. R * m = m * R
      OBVIOUS
    <3>3. p = base + r /\ r \in 0..R - 1
      BY <2>1, <3>1, <3>2
    <3> QED
      BY ONLY <3>3
  <2>2. ASSUME NEW i \in 0..R - 1, p = base + i
        PROVE  p \div R = m
    <3>1. i \in Nat /\ i < R
      OBVIOUS
    <3>2. (m * R + i) \div R = m
      BY ONLY <3>1, QuotientIs, m \in Nat, R \in Nat \ {0}
    <3> QED
      BY ONLY <3>2, <2>2, base = m * R
  <2> QED
    BY ONLY <2>1, <2>2
<1>2. PaddedBlock(R, all, k) = {<<x[1] - base, x[2]>> : x \in {y \in all : y[1] \div R = m}}
  BY ONLY m = k - 1, base = m * R DEF PaddedBlock
<1>3. BlockNo(R, M, k) = UNION {{<<i, t>> : t \in M[base + i]} : i \in 0..R - 1}
  BY ONLY m = k - 1, base = m * R DEF BlockNo, Block
<1>4. ASSUME NEW z, z \in PaddedBlock(R, all, k)
      PROVE  z \in BlockNo(R, M, k)
  <2>1. PICK x \in all : x[1] \div R = m /\ z = <<x[1] - base, x[2]>>
    BY ONLY <1>2, <1>4
  <2>2. PICK p \in Nat : \E t \in M[p] : x = <<p, t>>
    BY ONLY x \in all, CutFrom(all, M) DEF CutFrom
  <2>3. PICK t \in M[p] : x = <<p, t>>
    BY ONLY <2>2
  <2>4. x[1] = p /\ x[2] = t
    BY ONLY <2>3
  <2>5. PICK i \in 0..R - 1 : p = base + i
    BY ONLY <1>1, <2>1, <2>4, p \in Nat
  <2>6. p - base = i
    BY ONLY <2>5, base \in Nat, i \in 0..R - 1
  <2>7. z = <<i, t>> /\ t \in M[base + i]
    BY ONLY <2>1, <2>4, <2>5, <2>6, t \in M[p]
  <2> QED
    BY ONLY <1>3, <2>7, i \in 0..R - 1
<1>5. ASSUME NEW z, z \in BlockNo(R, M, k)
      PROVE  z \in PaddedBlock(R, all, k)
  <2>1. PICK i \in 0..R - 1 : z \in {<<i, t>> : t \in M[base + i]}
    BY ONLY <1>3, <1>5
  <2>2. PICK t \in M[base + i] : z = <<i, t>>
    BY ONLY <2>1
  <2> PICK p \in Nat : p = base + i
    OBVIOUS
  <2> PICK x : x = <<p, t>>
    OBVIOUS
  <2>3. x[1] = p /\ x[2] = t
    BY ONLY x = <<p, t>>
  <2>4. x \in all
    BY ONLY <2>2, x = <<p, t>>, p = base + i, p \in Nat, CutFrom(all, M) DEF CutFrom
  <2>5. x[1] \div R = m
    BY ONLY <1>1, <2>3, p = base + i, p \in Nat, i \in 0..R - 1
  <2>6. p - base = i
    OBVIOUS
  <2>7. z = <<x[1] - base, x[2]>>
    BY ONLY <2>2, <2>3, <2>6
  <2> QED
    BY ONLY <1>2, <2>4, <2>5, <2>7
<1> QED
  BY ONLY <1>4, <1>5, <1>2, <1>3

(* The bits of the second of the two bytes the suffix may be spread over, and  *)
(* the number of whole bytes before the one it ends in.                        *)
High(J) == {b \in 0..7 : 8 + b \in J}
Length(n, J) == IF High(J) = {} THEN n ELSE n + 1

(* Bit j of J is bit d of the byte J ends in.                                  *)
BitOf(n, J, j, d) == 8 * n + j = 8 * Length(n, J) + d /\ (7 \in Tape(n, J)[Length(n, J)] <=> d = 7)

(* Where the delimiter, the highest bit of J, is.                              *)
LEMMA DelimiterAt ==
  ASSUME NEW n \in Nat, NEW J, J \subseteq 0..15, NEW j \in J, \A b \in J : b <= j
  PROVE  \E d \in 0..7 : BitOf(n, J, j, d)
<1>1. /\ Tape(n, J)[n] = {b \in 0..7 : b \in J}
      /\ Tape(n, J)[n + 1] = {b \in 0..7 : 8 + b \in J}
  <2>1. IsTape(Tape(n, J), n, J)
    BY ONLY TapeAt, n \in Nat, J \subseteq 0..15
  <2> QED
    BY ONLY <2>1 DEF IsTape
<1>2. j \in 0..15
  OBVIOUS
<1>3. CASE j < 8
  <2>1. High(J) = {}
    <3> SUFFICES ASSUME NEW b \in 0..7, 8 + b \in J PROVE FALSE
      BY DEF High
    <3>1. 8 + b <= j
      BY ONLY 8 + b \in J, \A c \in J : c <= j
    <3> QED
      BY ONLY <3>1, <1>2, <1>3, b \in 0..7
  <2>2. Length(n, J) = n
    BY ONLY <2>1 DEF Length
  <2>3. 7 \in Tape(n, J)[n] <=> j = 7
    <3>1. 7 \in Tape(n, J)[n] <=> 7 \in J
      BY ONLY <1>1
    <3>2. 7 \in J => 7 <= j
      OBVIOUS
    <3> QED
      BY ONLY <1>2, <1>3, <3>1, <3>2, j \in J
  <2>4. j \in 0..7
    BY ONLY <1>2, <1>3
  <2> QED
    BY ONLY <2>2, <2>3, <2>4 DEF BitOf
<1>4. CASE ~ (j < 8)
  <2> PICK d \in 0..7 : d = j - 8
    BY ONLY <1>2, <1>4
  <2>1. 8 + d = j
    BY ONLY <1>2, d = j - 8
  <2>2. High(J) # {}
    BY ONLY <2>1, d \in 0..7, j \in J DEF High
  <2>3. Length(n, J) = n + 1
    BY ONLY <2>2 DEF Length
  <2>4. 7 \in Tape(n, J)[n + 1] <=> d = 7
    <3>1. 7 \in Tape(n, J)[n + 1] <=> 8 + 7 \in J
      BY ONLY <1>1
    <3>2. 8 + 7 \in J => 8 + 7 <= j
      OBVIOUS
    <3> QED
      BY ONLY <1>2, <2>1, <3>1, <3>2, j \in J, d \in 0..7
  <2>5. 8 * n + j = 8 * (n + 1) + d
    BY ONLY <1>2, <2>1, n \in Nat, d \in 0..7
  <2> QED
    BY ONLY <2>3, <2>4, <2>5, d \in 0..7 DEF BitOf
<1> QED
  BY ONLY <1>3, <1>4

(* The highest bit of D, d, is the last of its byte.                           *)
TopBit(D, d) == 7 \in D <=> d = 7

(* Padding after bit d of byte L makes B blocks.                               *)
BlocksUpTo(R, L, d, B) == (8 * L + d + 1) \div (8 * R) + 1 = B /\ B \in Nat \ {0}

(* PaddedBlocks counts as many blocks as Keccak_SpongeAbsorbLastFewBits     *)
(* fills.                                                                   *)
LEMMA BlocksOfBits ==
  ASSUME NEW R \in Nat \ {0}, NEW q \in Nat, NEW r \in Nat, r < R, NEW d \in 0..7,
         NEW D, TopBit(D, d), NEW L \in Nat, L = q * R + r
  PROVE  BlocksUpTo(R, L, d, Padding(R, D, q, r))
<1> PICK rate \in Nat \ {0} : rate = 8 * R
  OBVIOUS
<1> PICK base \in Nat : base = q * R
  OBVIOUS
<1>1. q * rate = 8 * base
  <2>1. q * (8 * R) = 8 * (q * R)
    OBVIOUS
  <2> QED
    BY ONLY <2>1, rate = 8 * R, base = q * R
<1>2. 8 * L + d + 1 = q * rate + (8 * r + d + 1)
  BY ONLY <1>1, L = q * R + r, base = q * R, base \in Nat, r \in Nat, d \in 0..7, L \in Nat
<1>3. CASE d = 7 /\ r = R - 1
  <2>1. 8 * r + d + 1 = rate
    BY ONLY <1>3, rate = 8 * R, R \in Nat
  <2>2. (q + 1) * rate = q * rate + rate
    OBVIOUS
  <2> PICK next \in Nat : next = q + 1
    OBVIOUS
  <2> PICK z \in Nat : z = 0
    OBVIOUS
  <2>3. z < rate
    OBVIOUS
  <2>4. (next * rate + z) \div rate = next
    BY ONLY <2>3, QuotientIs, next \in Nat, z \in Nat, rate \in Nat \ {0}
  <2>5. 8 * L + d + 1 = next * rate + z
    <3>1. q * rate \in Nat
      OBVIOUS
    <3> QED
      BY ONLY <3>1, <1>2, <2>1, <2>2, next = q + 1, z = 0, rate \in Nat
  <2>6. (8 * L + d + 1) \div rate = next
    BY ONLY <2>4, <2>5
  <2>7. Padding(R, D, q, r) = q + 2
    BY ONLY <1>3, TopBit(D, d) DEF Padding, TopBit
  <2> QED
    BY ONLY <2>6, <2>7, next = q + 1, q \in Nat, rate = 8 * R DEF BlocksUpTo
<1>4. CASE ~ (d = 7 /\ r = R - 1)
  <2> PICK rest \in Nat : rest = 8 * r + d + 1
    OBVIOUS
  <2>1. rest < rate
    BY ONLY <1>4, rest = 8 * r + d + 1, rate = 8 * R, R \in Nat, r \in Nat, r < R, d \in 0..7
  <2>2. (q * rate + rest) \div rate = q
    BY ONLY <2>1, QuotientIs, q \in Nat, rest \in Nat, rate \in Nat \ {0}
  <2>3. (8 * L + d + 1) \div rate = q
    BY ONLY <1>2, <2>2, rest = 8 * r + d + 1
  <2>4. Padding(R, D, q, r) = q + 1
    BY ONLY <1>4, TopBit(D, d) DEF Padding, TopBit
  <2> QED
    BY ONLY <2>3, <2>4, q \in Nat, rate = 8 * R DEF BlocksUpTo
<1> QED
  BY <1>3, <1>4

(* The padded message is the marked tape, cut into B blocks.                *)
PadsTo(R, bytes, tail, suffix, n, J, B) ==
  PaddedBlocks(8 * R, bytes, tail, suffix) = BlocksOf(R, Marked(Tape(n, J), B * R - 1), B)

(* The padded message is the tape, cut into blocks.                            *)
LEMMA PaddedIs ==
  ASSUME NEW R \in Nat \ {0}, NEW n \in Nat,
         NEW bytes, Given(bytes, n), Len(bytes) = n,
         NEW tail \in Tails, NEW suffix \in SUBSET (0..7), suffix # {},
         NEW J, J = JoinSuffix(tail, suffix), NEW L \in Nat, L = Length(n, J),
         NEW q \in Nat, NEW r \in Nat, r < R, L = q * R + r, NEW B, B = Padding(R, Tape(n, J)[L], q, r)
  PROVE  PadsTo(R, bytes, tail, suffix, n, J, B)
<1>1. J \subseteq 0..15 /\ Ones(bytes, tail, suffix) = {8 * n + b : b \in J}
  BY ONLY OnesAre, n \in Nat, Len(bytes) = n, tail \in Tails, suffix \in SUBSET (0..7), J = JoinSuffix(tail, suffix)
<1>2. J # {}
  <2>1. PICK c \in suffix : TRUE
    OBVIOUS
  <2>2. c + tail.n \in J
    BY ONLY c \in suffix, J = JoinSuffix(tail, suffix) DEF JoinSuffix
  <2> QED
    BY ONLY <2>2
<1> PICK ones : ones = Ones(bytes, tail, suffix)
  OBVIOUS
<1>3. PICK j \in J : (\A b \in J : b <= j) /\ Delimiter({8 * n + b : b \in J}) = 8 * n + j
  BY ONLY <1>1, <1>2, DelimiterIs, n \in Nat
<1>0. PICK d \in 0..7 : BitOf(n, J, j, d)
  BY ONLY <1>1, <1>3, DelimiterAt, n \in Nat, j \in J
<1>4. 8 * n + j = 8 * L + d /\ (7 \in Tape(n, J)[L] <=> d = 7)
  BY ONLY <1>0, L = Length(n, J) DEF BitOf
<1>5. Delimiter(ones) = 8 * L + d
  BY ONLY <1>1, <1>3, <1>4, ones = Ones(bytes, tail, suffix)
<1> PICK D : D = Tape(n, J)[L]
  OBVIOUS
<1>6. (8 * L + d + 1) \div (8 * R) + 1 = B /\ B \in Nat \ {0}
  <2>1. TopBit(D, d)
    BY ONLY <1>4, D = Tape(n, J)[L] DEF TopBit
  <2>2. B = Padding(R, D, q, r)
    BY ONLY B = Padding(R, Tape(n, J)[L], q, r), D = Tape(n, J)[L]
  <2>3. BlocksUpTo(R, L, d, Padding(R, D, q, r))
    BY ONLY <2>1, BlocksOfBits, R \in Nat \ {0}, q \in Nat, r \in Nat, r < R, d \in 0..7, L \in Nat,
            L = q * R + r
  <2> QED
    BY ONLY <2>2, <2>3 DEF BlocksUpTo
<1> PICK rate \in Nat : rate = 8 * R
  OBVIOUS
<1>7. B = (Delimiter(ones) + 1) \div rate + 1
  BY ONLY <1>5, <1>6, rate = 8 * R
<1> PICK last \in Nat : last = B * R - 1
  <2>1. PICK c \in Nat : B = c + 1
    BY <1>6
  <2>2. (c + 1) * R = c * R + R /\ c * R \in Nat
    OBVIOUS
  <2>3. c * R + R - 1 \in Nat
    BY ONLY <2>2, R \in Nat \ {0}
  <2> QED
    BY ONLY <2>1, <2>2, <2>3
<1> PICK all : all = All(ones, B * rate - 1, bytes)
  OBVIOUS
<1>8. B * rate - 1 = 8 * last + 7
  <2> PICK b \in Nat : b = B
    BY ONLY <1>6
  <2>1. b * (8 * R) = 8 * (b * R)
    BY ONLY b \in Nat, R \in Nat
  <2> PICK all2 \in Nat : all2 = b * R
    OBVIOUS
  <2> QED
    BY ONLY <2>1, rate = 8 * R, last = B * R - 1, b = B, all2 = b * R, all2 \in Nat
<1>9. PaddedBlocks(rate, bytes, tail, suffix) = [k \in 1..B |-> PaddedBlock(rate \div 8, all, k)]
  BY ONLY PaddedUnfolds, <1>7, ones = Ones(bytes, tail, suffix), all = All(ones, B * rate - 1, bytes)
<1>10. rate \div 8 = R
  BY ONLY Eighth, rate = 8 * R, R \in Nat
<1> PICK M : M = Marked(Tape(n, J), last)
  OBVIOUS
<1>11. CutFrom(all, M)
  <2>1. all = All({8 * n + b : b \in J}, 8 * last + 7, bytes)
    BY ONLY <1>1, <1>8, ones = Ones(bytes, tail, suffix), all = All(ones, B * rate - 1, bytes)
  <2> QED
    BY ONLY <1>1, <2>1, AllIs, n \in Nat, last \in Nat, Given(bytes, n), M = Marked(Tape(n, J), last)
       DEF Given
<1>12. \A k \in 1..B : PaddedBlock(R, all, k) = BlockNo(R, M, k)
  <2> SUFFICES ASSUME NEW k \in 1..B PROVE PaddedBlock(R, all, k) = BlockNo(R, M, k)
    OBVIOUS
  <2>1. k \in Nat \ {0}
    OBVIOUS
  <2> QED
    BY ONLY <1>11, <2>1, PaddedBlockIs, R \in Nat \ {0}
<1>13. [k \in 1..B |-> PaddedBlock(R, all, k)] = BlocksOf(R, M, B)
  BY ONLY <1>12 DEF BlocksOf
<1> QED
  BY ONLY <1>9, <1>10, <1>13, rate = 8 * R, M = Marked(Tape(n, J), last), last = B * R - 1 DEF PadsTo

-----------------------------------------------------------------------------
(* The sponge while it is squeezed: the input's blocks F went through the    *)
(* permutation, then m empty ones, and at bytes of the rate were read.       *)
Perms(F, B, m) == [k \in 1..B + m |-> IF k <= B THEN F[k] ELSE {}]

(* A sponge after B blocks of input and m permutations of output, at byte   *)
(* `at` of the rate.                                                        *)
Squeezed(R, F, B, m, at) == Sponge(State(Perms(F, B, m), {}), 8 * R, at, TRUE)

(* Where it stands after n bytes of output.                                  *)
StandsOut(R, F, B, s, n) ==
  \E m \in Nat, at \in Nat : n = m * R + at /\ at <= R /\ s = Squeezed(R, F, B, m, at)

(* k bytes of output, after `from` of them.                                  *)
OutByte(R, B, j) == [after |-> B + j \div R, byte |-> j % R, since |-> {}]
OutBytes(R, B, from, k) == [i \in 1..k |-> OutByte(R, B, from + i - 1)]

(* Where such a sponge stands.                                              *)
LEMMA StandsOutAt ==
  ASSUME NEW R, NEW F, NEW B, NEW m \in Nat, NEW at \in Nat, at <= R, NEW n, n = m * R + at
  PROVE  StandsOut(R, F, B, Squeezed(R, F, B, m, at), n)
BY DEF StandsOut

(* One permutation more.                                                     *)
LEMMA PermsGrow ==
  ASSUME NEW F, NEW B \in Nat, NEW m \in Nat
  PROVE  Append(Perms(F, B, m), {}) = Perms(F, B, m + 1) /\ Len(Perms(F, B, m)) = B + m
<1> PICK len \in Nat : len = B + m
  OBVIOUS
<1> DEFINE g == [k \in 1..len |-> IF k <= B THEN F[k] ELSE {}]
           h == [k \in 1..len + 1 |-> IF k <= B THEN F[k] ELSE {}]
<1>1. Len(g) = len /\ Append(g, {}) = h
  <2>1. \A k \in 1..len + 1 : k > len => ~ (k <= B)
    OBVIOUS
  <2>2. \A k \in 1..len + 1 : h[k] = IF k \in 1..len THEN g[k] ELSE {}
    BY <2>1
  <2>3. Len(g) = len /\ Append(g, {}) = [k \in 1..len + 1 |-> IF k \in 1..len THEN g[k] ELSE {}]
    <3> HIDE DEF h
    <3> QED
      OBVIOUS
  <2> QED
    BY <2>2, <2>3
<1>2. B + (m + 1) = len + 1
  OBVIOUS
<1>3. g = Perms(F, B, m) /\ h = Perms(F, B, m + 1)
  BY <1>2 DEF Perms
<1> QED
  BY ONLY <1>1, <1>3, len = B + m

(* The sponge read to the end of its rate is permuted.                       *)
Permuted(s, st) == [s EXCEPT !.state = st, !.byteIOIndex = 0]

(* A permutation between two blocks of output.                              *)
LEMMA TurnIs ==
  ASSUME NEW st, NEW rate, NEW at, NEW sq, NEW s, s = Sponge(st, rate, at, sq), NEW st2, NEW z, z = 0
  PROVE  Permuted(s, st2) = Sponge(st2, rate, z, sq)
<1>1. Permuted(s, st2) = Stepped(s, st2, z)
  BY DEF Permuted, Stepped
<1> QED
  BY ONLY <1>1, StepIs, s = Sponge(st, rate, at, sq)

(* The assignment after a run of output bytes.                              *)
Moved(s, at) == [s EXCEPT !.byteIOIndex = at]

(* It leaves the rest alone.                                                *)
LEMMA MovedIs ==
  ASSUME NEW st, NEW rate, NEW at, NEW sq, NEW s, s = Sponge(st, rate, at, sq), NEW at2
  PROVE  Moved(s, at2) = Sponge(st, rate, at2, sq)
<1>1. s.state = st /\ s.rate = rate /\ s.squeezing = sq /\ s = [f \in SpongeFields |-> s[f]]
  BY DEF Sponge, SpongeFields
<1>2. PICK d : d = [s EXCEPT !.byteIOIndex = at2]
  OBVIOUS
<1>3. d = [f \in SpongeFields |-> d[f]] /\ d.state = st /\ d.byteIOIndex = at2 /\ d.rate = rate /\ d.squeezing = sq
  BY ONLY <1>1, <1>2 DEF SpongeFields
<1>4. d = Sponge(st, rate, at2, sq)
  BY ONLY <1>3, SpongeIs
<1> QED
  BY <1>2, <1>4 DEF Moved

(* What is read after n bytes goes on with the output.                       *)
LEMMA ExtractIs ==
  ASSUME NEW R \in Nat \ {0}, NEW F, NEW B \in Nat, NEW m \in Nat, NEW at \in Nat, NEW x \in Nat,
         at + x <= R, NEW n \in Nat, n = m * R + at, NEW st, st = State(Perms(F, B, m), {})
  PROVE  KeccakF1600_StateExtractBytes(st, at, x) = OutBytes(R, B, n, x)
<1>1. st.perms = Perms(F, B, m) /\ st.since = {}
  BY ONLY StateHas, st = State(Perms(F, B, m), {})
<1>2. Len(st.perms) = B + m
  <2>1. Len(Perms(F, B, m)) = B + m
    BY PermsGrow
  <2> QED
    BY ONLY <1>1, <2>1
<1>3. ASSUME NEW i \in 1..x
      PROVE  OutByte(R, B, n + i - 1) = [after |-> Len(st.perms), byte |-> at + i - 1,
                                         since |-> {y \in st.since : y[1] = at + i - 1}]
  <2> PICK r \in Nat : r = at + i - 1
    OBVIOUS
  <2>1. r < R
    OBVIOUS
  <2>2. (m * R + r) \div R = m /\ (m * R + r) % R = r
    BY ONLY <2>1, QuotientIs, R \in Nat \ {0}, m \in Nat, r \in Nat
  <2> PICK base \in Nat : base = m * R
    OBVIOUS
  <2>3. n + i - 1 = base + r
    BY ONLY n = m * R + at, base = m * R, r = at + i - 1, base \in Nat, at \in Nat, i \in 1..x, x \in Nat
  <2>4. {y \in st.since : y[1] = at + i - 1} = {}
    BY ONLY <1>1
  <2>5. (n + i - 1) \div R = m /\ (n + i - 1) % R = at + i - 1
    BY ONLY <2>2, <2>3, base = m * R, r = at + i - 1
  <2> QED
    BY ONLY <1>2, <2>4, <2>5 DEF OutByte
<1> QED
  BY ONLY <1>3 DEF OutBytes, KeccakF1600_StateExtractBytes

(* Two pieces of the output that follow one another are one.                 *)
Joins(R, B, from, k, x) ==
  OutBytes(R, B, from, k) \o OutBytes(R, B, from + k, x) = OutBytes(R, B, from, k + x)

(* Output bytes follow one another.                                         *)
LEMMA OutBytesJoin ==
  ASSUME NEW R, NEW B, NEW from \in Nat, NEW k \in Nat, NEW x \in Nat
  PROVE  Joins(R, B, from, k, x)
<1> DEFINE f == [i \in 1..k |-> OutByte(R, B, from + i - 1)]
           g == [i \in 1..x |-> OutByte(R, B, from + k + i - 1)]
           h == [i \in 1..k + x |-> OutByte(R, B, from + i - 1)]
<1>1. f = OutBytes(R, B, from, k) /\ g = OutBytes(R, B, from + k, x) /\ h = OutBytes(R, B, from, k + x)
  BY DEF OutBytes
<1>2. Len(f) = k /\ Len(g) = x
  OBVIOUS
<1> PICK s, u : s = f /\ u = g
  OBVIOUS
<1>3. s \o u = [i \in 1..k + x |-> IF i <= k THEN f[i] ELSE g[i - k]]
  <2> PICK S : S = {OutByte(R, B, j) : j \in Int}
    OBVIOUS
  <2>1. s \in Seq(S) /\ u \in Seq(S) /\ Len(s) = k /\ Len(u) = x
    <3>1. \A i \in 1..k : OutByte(R, B, from + i - 1) \in S
      OBVIOUS
    <3>2. \A i \in 1..x : OutByte(R, B, from + k + i - 1) \in S
      OBVIOUS
    <3>3. s \in [1..k -> S] /\ u \in [1..x -> S]
      BY <3>1, <3>2
    <3>4. s \in Seq(S) /\ u \in Seq(S)
      BY ONLY <3>3, k \in Nat, x \in Nat
    <3>5. Len(s) = k /\ Len(u) = x
      BY <1>2
    <3> QED
      BY ONLY <3>4, <3>5
  <2> HIDE DEF f, g, h
  <2>2. s \o u = [i \in 1..Len(s) + Len(u) |-> IF i <= Len(s) THEN s[i] ELSE u[i - Len(s)]]
    <3>1. /\ s \o u \in Seq(S) /\ Len(s \o u) = Len(s) + Len(u)
          /\ \A i \in 1..Len(s) + Len(u) : (s \o u)[i] = IF i <= Len(s) THEN s[i] ELSE u[i - Len(s)]
      BY ONLY <2>1, ConcatProperties
    <3> PICK w, len : w = s \o u /\ len = Len(s) + Len(u)
      OBVIOUS
    <3>2. w \in Seq(S) /\ Len(w) = len
      BY ONLY <3>1, w = s \o u /\ len = Len(s) + Len(u)
    <3>3. w = [i \in 1..len |-> w[i]]
      BY ONLY <3>2
    <3> QED
      BY ONLY <3>1, <3>3, w = s \o u /\ len = Len(s) + Len(u)
  <2>3. \A i : (IF i <= k THEN s[i] ELSE u[i - k]) = (IF i <= k THEN f[i] ELSE g[i - k])
    BY ONLY s = f /\ u = g
  <2> QED
    BY ONLY <2>1, <2>2, <2>3
<1>4. ASSUME NEW i \in 1..k + x
      PROVE  h[i] = IF i <= k THEN f[i] ELSE g[i - k]
  <2>1. h[i] = OutByte(R, B, from + i - 1)
    OBVIOUS
  <2>2. CASE i <= k
    <3>1. i \in 1..k
      BY <2>2
    <3> QED
      BY <2>1, <2>2, <3>1
  <2>3. CASE ~ (i <= k)
    <3> PICK j \in 1..x : j = i - k
      BY <2>3
    <3>1. g[j] = OutByte(R, B, from + k + j - 1)
      OBVIOUS
    <3>2. from + k + j - 1 = from + i - 1
      OBVIOUS
    <3> QED
      BY ONLY <2>1, <2>3, <3>1, <3>2, j = i - k
  <2> QED
    BY ONLY <2>2, <2>3
<1>5. h = [i \in 1..k + x |-> h[i]]
  OBVIOUS
<1> HIDE DEF f, g, h
<1>6. f \o g = h
  BY ONLY <1>3, <1>4, <1>5, s = f /\ u = g
<1> QED
  BY ONLY <1>1, <1>6 DEF Joins

(* A turn of the loop of Keccak_SpongeSqueeze.                               *)
Drawn(s, out) == [sponge |-> s, out |-> out]

(* The fields of what a turn of the squeezing loop leaves.                  *)
LEMMA DrawnHas ==
  ASSUME NEW s, NEW out, NEW a, a = Drawn(s, out)
  PROVE  a.sponge = s /\ a.out = out
BY DEF Drawn

(* It drew k bytes, the sponge standing at `from` before.                   *)
DrawnTo(R, F, B, from, a, k) ==
  \E s : StandsOut(R, F, B, s, from + k) /\ a = Drawn(s, OutBytes(R, B, from, k))

(* The state that the next byte is read from.                                *)
Ready(s) == IF s.byteIOIndex = s.rate \div 8 THEN Permuted(s, KeccakF1600_StatePermute(s.state)) ELSE s

(* A sponge at the end of its block is permuted before it is read, and not  *)
(* earlier.                                                                 *)
LEMMA ReadyIs ==
  ASSUME NEW R \in Nat \ {0}, NEW F, NEW B \in Nat, NEW s, NEW n \in Nat, StandsOut(R, F, B, s, n)
  PROVE  \E m \in Nat, at \in Nat : n = m * R + at /\ at < R /\ Ready(s) = Squeezed(R, F, B, m, at)
<1>1. PICK m \in Nat, at \in Nat : n = m * R + at /\ at <= R /\ s = Squeezed(R, F, B, m, at)
  BY DEF StandsOut
<1> PICK yes : yes = TRUE
  OBVIOUS
<1> PICK rate : rate = 8 * R
  OBVIOUS
<1> PICK p, e : p = Perms(F, B, m) /\ e = {}
  OBVIOUS
<1> PICK st : st = State(p, e)
  OBVIOUS
<1>2. s = Sponge(st, rate, at, yes)
  BY ONLY <1>1, yes = TRUE, rate = 8 * R, p = Perms(F, B, m) /\ e = {}, st = State(p, e), Zenon DEF Squeezed
<1>3. s.state = st /\ s.rate = rate /\ s.byteIOIndex = at
  BY ONLY <1>2, SpongeHas
<1>4. s.rate \div 8 = R
  BY <1>3, Eighth
<1>5. CASE at < R
  <2>1. Ready(s) = s
    BY ONLY <1>3, <1>4, <1>5, R \in Nat, at \in Nat DEF Ready
  <2> QED
    BY ONLY <1>1, <1>5, <2>1, m \in Nat, at \in Nat
<1>6. CASE ~ (at < R)
  <2>1. at = R
    BY ONLY <1>1, <1>6, R \in Nat, at \in Nat
  <2> PICK st2 : st2 = KeccakF1600_StatePermute(st)
    OBVIOUS
  <2>2. Ready(s) = Permuted(s, st2)
    BY ONLY <1>3, <1>4, <2>1, st2 = KeccakF1600_StatePermute(st) DEF Ready
  <2> PICK m2 \in Nat, z \in Nat : m2 = m + 1 /\ z = 0
    OBVIOUS
  <2>3. st2 = State(Perms(F, B, m2), {})
    <3>1. st2 = State(Append(p, e), {})
      BY ONLY PermuteIs, st = State(p, e), st2 = KeccakF1600_StatePermute(st)
    <3>2. Append(Perms(F, B, m), {}) = Perms(F, B, m + 1)
      BY ONLY PermsGrow, B \in Nat, m \in Nat
    <3> QED
      BY ONLY <3>1, <3>2, p = Perms(F, B, m) /\ e = {}, m2 = m + 1 /\ z = 0
  <2>4. Permuted(s, st2) = Sponge(st2, rate, z, yes)
    BY ONLY <1>2, TurnIs, m2 = m + 1 /\ z = 0
  <2>5. Ready(s) = Squeezed(R, F, B, m2, z)
    BY ONLY <2>2, <2>3, <2>4, yes = TRUE, rate = 8 * R, Zenon DEF Squeezed
  <2>6. n = m2 * R + z
    <3>1. (m + 1) * R = m * R + R
      OBVIOUS
    <3> PICK base \in Nat : base = m * R
      OBVIOUS
    <3> QED
      BY ONLY <1>1, <2>1, <3>1, m2 = m + 1 /\ z = 0, base = m * R, base \in Nat, R \in Nat
  <2>7. z < R
    BY ONLY m2 = m + 1 /\ z = 0, R \in Nat \ {0}
  <2> QED
    BY ONLY <2>5, <2>6, <2>7, m2 \in Nat, z \in Nat
<1> QED
  BY <1>5, <1>6

(* The turn drew what is left of the block or of the request, if anything.   *)
Progresses(R, F, B, from, k, n, a, b) ==
  \E k2 \in 0..n : /\ DrawnTo(R, F, B, from, b, k2)
                   /\ IF k < n THEN NextBlock(R, from, k, k2, n) ELSE k2 = k /\ b = a

(* A turn draws what is left of the block, or of the request.               *)
LEMMA SqueezeTurnIs ==
  ASSUME NEW R \in Nat \ {0}, NEW F, NEW B \in Nat, NEW from \in Nat, NEW n \in Nat, NEW k \in 0..n,
         NEW a, DrawnTo(R, F, B, from, a, k)
  PROVE  Progresses(R, F, B, from, k, n, a, SqueezeTurn(a, n))
<1>1. PICK s : StandsOut(R, F, B, s, from + k) /\ a = Drawn(s, OutBytes(R, B, from, k))
  BY DEF DrawnTo
<1> PICK o : o = OutBytes(R, B, from, k)
  OBVIOUS
<1>2. a.sponge = s /\ a.out = o
  BY ONLY <1>1, DrawnHas, o = OutBytes(R, B, from, k)
<1>3. Len(o) = k
  BY DEF OutBytes
<1> PICK left \in Nat : left = n - k
  OBVIOUS
<1> PICK t : t = Ready(s)
  OBVIOUS
<1> PICK pos \in Nat : pos = from + k
  OBVIOUS
<1>4. PICK m \in Nat, at \in Nat : pos = m * R + at /\ at < R /\ t = Squeezed(R, F, B, m, at)
  BY ONLY <1>1, ReadyIs, R \in Nat \ {0}, B \in Nat, pos \in Nat, pos = from + k, t = Ready(s)
<1> PICK yes : yes = TRUE
  OBVIOUS
<1> PICK rate : rate = 8 * R
  OBVIOUS
<1> PICK st : st = State(Perms(F, B, m), {})
  OBVIOUS
<1>5. t = Sponge(st, rate, at, yes)
  BY ONLY <1>4, yes = TRUE, rate = 8 * R, st = State(Perms(F, B, m), {}), Zenon DEF Squeezed
<1>6. t.state = st /\ t.rate = rate /\ t.byteIOIndex = at
  BY ONLY <1>5, SpongeHas
<1>7. t.rate \div 8 = R
  BY <1>6, Eighth
<1>8. CASE k = n
  <2>1. left = 0
    BY <1>8
  <2>2. SqueezeTurn(a, n) = a
    BY ONLY <1>2, <1>3, <2>1, left = n - k, Zenon DEF SqueezeTurn
  <2>3. ~ (k < n)
    BY <1>8
  <2> QED
    BY ONLY <2>2, <2>3, DrawnTo(R, F, B, from, a, k), k \in 0..n DEF Progresses
<1>9. CASE k # n
  <2>1. left > 0 /\ k < n
    BY <1>9
  <2> PICK x \in Nat : x = IF left > R - at THEN R - at ELSE left
    <3>1. (IF left > R - at THEN R - at ELSE left) \in Nat
      BY ONLY <1>4, left \in Nat, R \in Nat, at \in Nat
    <3> QED
      BY ONLY <3>1
  <2>2. 0 < x /\ k + x <= n /\ at + x <= R
    BY ONLY <1>4, <2>1, left = n - k, left \in Nat, R \in Nat, at \in Nat, k \in 0..n, n \in Nat,
            x = (IF left > R - at THEN R - at ELSE left)
  <2> PICK at2 \in Nat : at2 = at + x
    BY ONLY at \in Nat, x \in Nat
  <2> PICK got : got = KeccakF1600_StateExtractBytes(st, at, x)
    OBVIOUS
  <2>3. SqueezeTurn(a, n) = Drawn(Moved(t, at2), o \o got)
    <3>1. t = IF s.byteIOIndex = s.rate \div 8
                THEN [s EXCEPT !.state = KeccakF1600_StatePermute(@), !.byteIOIndex = 0] ELSE s
      BY ONLY t = Ready(s), Zenon DEF Ready, Permuted
    <3>2. t.rate \div 8 - t.byteIOIndex = R - at
      BY ONLY <1>6, <1>7
    <3>3. left # 0
      BY ONLY <2>1, left \in Nat
    <3> QED
      BY ONLY <1>2, <1>3, <1>6, <3>1, <3>2, <3>3, left = n - k, x = (IF left > R - at THEN R - at ELSE left),
              at2 = at + x, got = KeccakF1600_StateExtractBytes(st, at, x), Zenon
         DEF SqueezeTurn, Drawn, Moved
  <2>4. Moved(t, at2) = Squeezed(R, F, B, m, at2)
    <3>1. Moved(t, at2) = Sponge(st, rate, at2, yes)
      BY ONLY <1>5, MovedIs
    <3> QED
      BY ONLY <3>1, yes = TRUE, rate = 8 * R, st = State(Perms(F, B, m), {}), Zenon DEF Squeezed
  <2> PICK k2 \in 0..n : k2 = k + x
    BY ONLY <2>2, k \in 0..n, x \in Nat, n \in Nat
  <2>5. o \o got = OutBytes(R, B, from, k2)
    <3>1. got = OutBytes(R, B, pos, x)
      BY ONLY <1>4, <2>2, ExtractIs, R \in Nat \ {0}, B \in Nat, m \in Nat, at \in Nat, x \in Nat, pos \in Nat,
              st = State(Perms(F, B, m), {}), got = KeccakF1600_StateExtractBytes(st, at, x)
    <3>2. k \in Nat
      OBVIOUS
    <3>3. Joins(R, B, from, k, x)
      BY ONLY <3>2, OutBytesJoin, from \in Nat, x \in Nat
    <3> QED
      BY ONLY <3>1, <3>3, Zenon, pos = from + k, k2 = k + x, o = OutBytes(R, B, from, k) DEF Joins
  <2>6. StandsOut(R, F, B, Squeezed(R, F, B, m, at2), from + k2)
    <3> PICK base \in Nat : base = m * R
      OBVIOUS
    <3>1. from + k2 = m * R + at2
      BY ONLY <1>4, pos = from + k, k2 = k + x, at2 = at + x, base = m * R, base \in Nat, from \in Nat,
              k \in 0..n, x \in Nat, at \in Nat, n \in Nat
    <3>2. at2 <= R
      BY ONLY <2>2, at2 = at + x
    <3> QED
      BY ONLY <3>1, <3>2, StandsOutAt, m \in Nat, at2 \in Nat
  <2>7. DrawnTo(R, F, B, from, SqueezeTurn(a, n), k2)
    BY ONLY <2>3, <2>4, <2>5, <2>6 DEF DrawnTo
  <2>8. NextBlock(R, from, k, k2, n)
    <3>1. at + x = R \/ k + x = n
      BY ONLY left = n - k, left \in Nat, x = (IF left > R - at THEN R - at ELSE left), R \in Nat, at \in Nat,
              k \in 0..n, n \in Nat, x \in Nat
    <3>2. k \in Nat /\ from + k = m * R + at
      BY ONLY <1>4, pos = from + k, k \in 0..n, n \in Nat
    <3> QED
      BY ONLY <1>4, <3>1, <3>2, BlockEnds, R \in Nat \ {0}, from \in Nat, n \in Nat, m \in Nat, at \in Nat,
              x \in Nat, k2 = k + x
  <2> QED
    BY ONLY <2>1, <2>7, <2>8, k2 \in 0..n DEF Progresses
<1> QED
  BY <1>8, <1>9

(* What satisfies the recursion of the squeezing loop is its value.         *)
LEMMA SqueezeTurnsFollow ==
  ASSUME NEW s, NEW n, NEW len \in Nat, MaxTurns(s, n) = len, NEW g, g[0] = Drawn(s, <<>>),
         \A i \in 1..len : g[i] = SqueezeTurn(g[i - 1], n)
  PROVE  SqueezeTurns(s, n)[len] = g[len]
<1> DEFINE f == SqueezeTurns(s, n)
           h == [i \in 0..len |-> g[i]]
<1>0. h = [i \in 0..len |-> IF i = 0 THEN Drawn(s, <<>>) ELSE SqueezeTurn(h[i - 1], n)]
  <2>1. ASSUME NEW i \in 0..len, i # 0
        PROVE  g[i] = SqueezeTurn(h[i - 1], n)
    <3>1. i \in 1..len /\ i - 1 \in 0..len
      BY <2>1
    <3>2. h[i - 1] = g[i - 1]
      BY <3>1
    <3> QED
      BY <3>1, <3>2
  <2> QED
    BY <2>1
<1>1. f = [i \in 0..len |-> IF i = 0 THEN Drawn(s, <<>>) ELSE SqueezeTurn(f[i - 1], n)]
  <2> HIDE DEF h
  <2> QED
    BY <1>0 DEF SqueezeTurns, Drawn
<1> HIDE DEF f, h
<1> DEFINE S == {i \in 0..len : f[i] = g[i]}
<1>2. 0 \in S
  BY <1>1
<1>3. ASSUME NEW i \in 1..len, i - 1 \in S PROVE i \in S
  <2>1. f[i] = SqueezeTurn(f[i - 1], n)
    BY <1>1
  <2>2. g[i] = SqueezeTurn(g[i - 1], n)
    OBVIOUS
  <2> QED
    BY <1>3, <2>1, <2>2
<1>4. S \in SUBSET (0..len)
  OBVIOUS
<1> HIDE DEF S
<1>5. S = 0..len
  BY <1>2, <1>3, <1>4, InductUpTo
<1>6. f[len] = g[len]
  <2>1. len \in 0..len
    OBVIOUS
  <2> QED
    BY <1>5, <2>1 DEF S
<1> QED
  BY <1>6 DEF f

(* n bytes more are read, whatever was read before: Keccak_SpongeSqueeze.    *)
LEMMA SqueezeTurnsDraw ==
  ASSUME NEW R \in Nat \ {0}, NEW F, NEW B \in Nat, NEW from \in Nat, NEW n \in Nat,
         NEW s, StandsOut(R, F, B, s, from)
  PROVE  DrawnTo(R, F, B, from, SqueezeTurns(s, n)[MaxTurns(s, n)], n)
<1> DEFINE
      Places == {x \in Nat \X Nat \X (0..n) : x[2] <= R /\ from + x[3] = x[1] * R + x[2]}
      V == {Drawn(Squeezed(R, F, B, x[1], x[2]), OutBytes(R, B, from, x[3])) : x \in Places}
      next == [a \in V |-> SqueezeTurn(a, n)]
      size == [a \in V |-> Len(a.out)]
      b == Drawn(s, OutBytes(R, B, from, 0))
<1>0. ASSUME NEW k \in Nat PROVE Len(OutBytes(R, B, from, k)) = k
  BY DEF OutBytes
<1>1. ASSUME NEW a, NEW k \in 0..n, DrawnTo(R, F, B, from, a, k)
      PROVE  a \in V /\ Len(a.out) = k
  <2>1. PICK t : StandsOut(R, F, B, t, from + k) /\ a = Drawn(t, OutBytes(R, B, from, k))
    BY <1>1 DEF DrawnTo
  <2>2. PICK m \in Nat, at \in Nat : from + k = m * R + at /\ at <= R /\ t = Squeezed(R, F, B, m, at)
    BY <2>1 DEF StandsOut
  <2>3. PICK x : x = <<m, at, k>>
    OBVIOUS
  <2>4. x \in Places /\ x[1] = m /\ x[2] = at /\ x[3] = k
    BY <2>2, <2>3
  <2>5. a = Drawn(Squeezed(R, F, B, x[1], x[2]), OutBytes(R, B, from, x[3]))
    BY ONLY <2>1, <2>2, <2>4
  <2>6. a \in V
    BY ONLY <2>4, <2>5
  <2>7. k \in Nat
    OBVIOUS
  <2> QED
    BY ONLY <1>0, <2>1, <2>6, <2>7, DrawnHas
<1>2. ASSUME NEW a \in V
      PROVE  Len(a.out) \in 0..n /\ DrawnTo(R, F, B, from, a, Len(a.out))
  <2>1. PICK x \in Places : a = Drawn(Squeezed(R, F, B, x[1], x[2]), OutBytes(R, B, from, x[3]))
    BY ONLY a \in V
  <2> PICK m, at, k : m = x[1] /\ at = x[2] /\ k = x[3]
    OBVIOUS
  <2>2. m \in Nat /\ at \in Nat /\ k \in 0..n /\ at <= R /\ from + k = m * R + at
    OBVIOUS
  <2>3. a = Drawn(Squeezed(R, F, B, m, at), OutBytes(R, B, from, k))
    BY ONLY <2>1, m = x[1] /\ at = x[2] /\ k = x[3]
  <2>4. k \in Nat
    BY ONLY <2>2, n \in Nat
  <2>5. Len(a.out) = k
    BY ONLY <1>0, <2>3, <2>4, DrawnHas, SMTT(30)
  <2>6. StandsOut(R, F, B, Squeezed(R, F, B, m, at), from + k)
    BY ONLY <2>2, StandsOutAt
  <2>7. DrawnTo(R, F, B, from, a, k)
    BY ONLY <2>3, <2>6 DEF DrawnTo
  <2> QED
    BY ONLY <2>2, <2>5, <2>7
<1> HIDE DEF V
<1>3. ASSUME NEW a \in V
      PROVE  /\ next[a] \in V /\ size[a] \in 0..n /\ next[a] = SqueezeTurn(a, n)
             /\ size[a] < n => NextBlock(R, from, size[a], size[next[a]], n)
             /\ size[a] = n => next[a] = a
  <2> PICK k \in 0..n : k = Len(a.out)
    BY <1>2
  <2>1. DrawnTo(R, F, B, from, a, k)
    BY ONLY <1>2, a \in V, k = Len(a.out)
  <2>2. Progresses(R, F, B, from, k, n, a, SqueezeTurn(a, n))
    BY ONLY <2>1, SqueezeTurnIs, R \in Nat \ {0}, B \in Nat, from \in Nat, n \in Nat, k \in 0..n
  <2>3. PICK k2 \in 0..n : /\ DrawnTo(R, F, B, from, SqueezeTurn(a, n), k2)
                           /\ IF k < n THEN NextBlock(R, from, k, k2, n)
                              ELSE k2 = k /\ SqueezeTurn(a, n) = a
    BY ONLY <2>2 DEF Progresses
  <2>4. SqueezeTurn(a, n) \in V /\ Len(SqueezeTurn(a, n).out) = k2
    BY ONLY <1>1, <2>3
  <2>5. next[a] = SqueezeTurn(a, n) /\ size[a] = k /\ size[next[a]] = k2
    BY ONLY <2>4, a \in V, k = Len(a.out)
  <2> QED
    BY ONLY <2>3, <2>4, <2>5, k \in 0..n, n \in Nat
<1>4. b \in V /\ Len(b.out) = 0
  <2>1. from + 0 = from /\ 0 \in 0..n
    OBVIOUS
  <2>2. DrawnTo(R, F, B, from, b, 0)
    BY ONLY <2>1, StandsOut(R, F, B, s, from) DEF DrawnTo
  <2> QED
    BY ONLY <1>1, <2>1, <2>2
<1>5. next \in [V -> V] /\ size \in [V -> 0..n]
  BY ONLY <1>3
<1> HIDE DEF next, size, b
<1> PICK turns : turns = n \div R + 2
  OBVIOUS
<1>15. Turning(R, V, from, next, size, n)
  BY ONLY <1>3 DEF Turning
<1>16. TurnsEnd(V, b, next, size, n, turns)
  BY ONLY <1>4, <1>5, <1>15, BlocksEnd, n \in Nat, R \in Nat \ {0}, from \in Nat, turns = n \div R + 2
<1>6. turns \in Nat
  BY ONLY <1>16 DEF TurnsEnd
<1>7. PICK g : EndsInTurns(g, V, b, next, size, n, turns)
  BY ONLY <1>16 DEF TurnsEnd
<1>8. /\ g \in [0..turns -> V] /\ g[0] = b /\ size[g[turns]] = n
      /\ \A i \in 1..turns : g[i] = SqueezeTurn(g[i - 1], n)
  BY ONLY <1>6, <1>7, <1>3 DEF EndsInTurns
<1>13. MaxTurns(s, n) = turns
  <2>1. PICK m \in Nat, at \in Nat : s = Squeezed(R, F, B, m, at)
    BY ONLY StandsOut(R, F, B, s, from) DEF StandsOut
  <2>2. s.rate = 8 * R
    BY ONLY <2>1 DEF Squeezed, Sponge
  <2> QED
    BY ONLY <2>2, Eighth, R \in Nat \ {0}, turns = n \div R + 2 DEF MaxTurns
<1>9. b = Drawn(s, <<>>)
  <2>1. OutBytes(R, B, from, 0) = <<>>
    BY DEF OutBytes
  <2> QED
    BY ONLY <2>1 DEF b
<1>10. SqueezeTurns(s, n)[turns] = g[turns]
  BY ONLY <1>6, <1>8, <1>9, <1>13, SqueezeTurnsFollow
<1>11. g[turns] \in V /\ Len(g[turns].out) = n
  BY ONLY <1>6, <1>8 DEF size
<1>12. DrawnTo(R, F, B, from, g[turns], n)
  BY ONLY <1>2, <1>11
<1> QED
  BY ONLY <1>10, <1>12, <1>13

(* Keccak_SpongeSqueeze gives the n bytes after those given before.         *)
LEMMA SqueezeIs ==
  ASSUME NEW R \in Nat \ {0}, NEW F, NEW B \in Nat, NEW from \in Nat, NEW n \in Nat,
         NEW s, StandsOut(R, F, B, s, from)
  PROVE  DrawnTo(R, F, B, from, Keccak_SpongeSqueeze(s, n), n)
<1>1. PICK m \in Nat, at \in Nat : s = Squeezed(R, F, B, m, at)
  BY DEF StandsOut
<1>2. s.squeezing
  BY ONLY <1>1 DEF Squeezed, Sponge
<1>3. Keccak_SpongeSqueeze(s, n) = SqueezeTurns(s, n)[MaxTurns(s, n)]
  BY ONLY <1>2 DEF Keccak_SpongeSqueeze
<1>4. DrawnTo(R, F, B, from, SqueezeTurns(s, n)[MaxTurns(s, n)], n)
  BY SqueezeTurnsDraw
<1> QED
  BY ONLY <1>3, <1>4

(* The sponge after the last bits is ready to be read from its first byte.    *)
LEMMA ClosedStandsOut ==
  ASSUME NEW R \in Nat \ {0}, NEW M, NEW B \in Nat, NEW F, F = BlocksOf(R, Marked(M, B * R - 1), B)
  PROVE  StandsOut(R, F, B, Closed(R, M, B), 0)
<1>1. Perms(F, B, 0) = F
  <2>1. F = [k \in 1..B |-> F[k]]
    BY DEF BlocksOf
  <2>2. B + 0 = B
    OBVIOUS
  <2>3. Perms(F, B, 0) = [k \in 1..B |-> F[k]]
    BY ONLY <2>2, B \in Nat DEF Perms
  <2> QED
    BY ONLY <2>1, <2>3
<1>2. Closed(R, M, B) = Squeezed(R, F, B, 0, 0)
  BY ONLY <1>1, F = BlocksOf(R, Marked(M, B * R - 1), B), Zenon DEF Closed, Squeezed
<1>3. 0 = 0 * R + 0 /\ 0 <= R
  OBVIOUS
<1>4. StandsOut(R, F, B, Squeezed(R, F, B, 0, 0), 0)
  BY ONLY <1>3, StandsOutAt
<1> QED
  BY ONLY <1>2, <1>4

-----------------------------------------------------------------------------
(* A Keccak_HashInstance.                                                    *)
Hash(s, len, suffix) == [sponge |-> s, fixedOutputLength |-> len, delimitedSuffix |-> suffix]

HashFields == {"sponge", "fixedOutputLength", "delimitedSuffix"}

(* The fields of a Keccak_HashInstance.                                     *)
LEMMA HashHas ==
  ASSUME NEW s, NEW len, NEW suffix, NEW h, h = Hash(s, len, suffix)
  PROVE  h.sponge = s /\ h.fixedOutputLength = len /\ h.delimitedSuffix = suffix
BY DEF Hash

(* A record with these fields is that instance.                             *)
LEMMA HashIs ==
  ASSUME NEW s, NEW len, NEW suffix, NEW h, h = [f \in HashFields |-> h[f]], h.sponge = s,
         h.fixedOutputLength = len, h.delimitedSuffix = suffix
  PROVE  h = Hash(s, len, suffix)
BY DEF Hash, HashFields

(* The assignments of Keccak_HashSqueeze and Keccak_HashUpdate.             *)
WithSponge(h, s) == [h EXCEPT !.sponge = s]
WithBoth(h, s, suffix) == [h EXCEPT !.sponge = s, !.delimitedSuffix = suffix]

(* They leave the rest alone.                                               *)
LEMMA WithSpongeIs ==
  ASSUME NEW s, NEW len, NEW suffix, NEW h, h = Hash(s, len, suffix), NEW s2
  PROVE  WithSponge(h, s2) = Hash(s2, len, suffix)
<1>1. h.fixedOutputLength = len /\ h.delimitedSuffix = suffix /\ h = [f \in HashFields |-> h[f]]
  BY DEF Hash, HashFields
<1>2. PICK d : d = [h EXCEPT !.sponge = s2]
  OBVIOUS
<1>3. d = [f \in HashFields |-> d[f]] /\ d.sponge = s2 /\ d.fixedOutputLength = len /\ d.delimitedSuffix = suffix
  BY ONLY <1>1, <1>2 DEF HashFields
<1>4. d = Hash(s2, len, suffix)
  BY ONLY <1>3, HashIs
<1> QED
  BY <1>2, <1>4 DEF WithSponge

LEMMA WithBothIs ==
  ASSUME NEW s, NEW len, NEW suffix, NEW h, h = Hash(s, len, suffix), NEW s2, NEW suffix2
  PROVE  WithBoth(h, s2, suffix2) = Hash(s2, len, suffix2)
<1>1. h.fixedOutputLength = len /\ h = [f \in HashFields |-> h[f]]
  BY DEF Hash, HashFields
<1>2. PICK d : d = [h EXCEPT !.sponge = s2, !.delimitedSuffix = suffix2]
  OBVIOUS
<1>3. d = [f \in HashFields |-> d[f]] /\ d.sponge = s2 /\ d.fixedOutputLength = len /\ d.delimitedSuffix = suffix2
  BY ONLY <1>1, <1>2 DEF HashFields
<1>4. d = Hash(s2, len, suffix2)
  BY ONLY <1>3, HashIs
<1> QED
  BY <1>2, <1>4 DEF WithBoth

(* The hash has taken the tape of n bytes and the bits J, but for the bits    *)
(* that are kept for the end.                                                 *)
Took(R, n, J, h) ==
  \E s : \E len \in Nat : /\ Stands(R, Tape(n, J), s, Length(n, J))
                          /\ h = Hash(s, len, Tape(n, J)[Length(n, J)])

(* What every reachable state of a hash instance satisfies: while it absorbs  *)
(* it has taken what was given, without the bits kept for the end; while it   *)
(* is squeezed the whole padded input went through the permutation, and what   *)
(* was read is the output from its start.                                     *)
Absorbing == \E R \in Nat \ {0} : Took(R, spGiven, JoinSuffix(spTail, spAsked), spHash)

(* B blocks F, the input padded. *)
Input(R, n, J, F, B) ==
  \E q \in Nat, r \in Nat : /\ Length(n, J) = q * R + r /\ r < R
                            /\ B = Padding(R, Tape(n, J)[Length(n, J)], q, r)
                            /\ F = BlocksOf(R, Marked(Tape(n, J), B * R - 1), B)

(* An instance that gave out, all of its output up to now.                  *)
Gave(R, F, B, h, out) ==
  /\ StandsOut(R, F, B, h.sponge, Len(out))
  /\ out = OutBytes(R, B, 0, Len(out))
  /\ \E len, suffix : h = Hash(h.sponge, len, suffix)

(* The state of the system while it squeezes.                               *)
Squeezing ==
  \E R \in Nat \ {0} : \E B \in Nat \ {0} : \E F : \E n \in Nat :
    /\ Input(R, spGiven, JoinSuffix(spTail, spAsked), F, B)
    /\ Gave(R, F, B, spHash, spOut)
    /\ Len(spOut) = n

(* The types of what the calls left for the next one.                       *)
SpTypes ==
  /\ spPhase \in {"fresh", "absorbing", "squeezing"}
  /\ spGiven \in Nat /\ spTail \in Tails /\ spAsked \in SUBSET (0..7)

(* The inductive invariant. HashIsKeccak is not inductive: it does not say  *)
(* that the sponge's position and the output agree, nor anything before     *)
(* the squeezing phase; AbsorbsInOrder says nothing once a partial byte     *)
(* has been taken.                                                          *)
SpInv ==
  /\ SpTypes
  /\ spPhase = "fresh" => spGiven = 0 /\ spTail = NoTail
  /\ spPhase # "fresh" => spAsked # {}
  /\ spPhase = "absorbing" => Absorbing
  /\ spPhase = "squeezing" => Squeezing

(* The bits JoinSuffix joins lie in two bytes.                              *)
LEMMA JoinIs ==
  ASSUME NEW tail \in Tails, NEW suffix \in SUBSET (0..7)
  PROVE  /\ JoinSuffix(tail, suffix) \subseteq 0..15
         /\ tail.n = 0 => JoinSuffix(tail, suffix) = suffix
<1>1. tail.n \in 0..7 /\ tail.ones \subseteq 0..7 /\ \A b \in tail.ones : b < tail.n
  BY DEF Tails
<1>2. JoinSuffix(tail, suffix) \subseteq 0..15
  BY <1>1 DEF JoinSuffix
<1>3. ASSUME tail.n = 0
      PROVE  JoinSuffix(tail, suffix) = suffix
  <2>1. tail.ones = {}
    BY <1>1, <1>3
  <2>2. \A b \in suffix : b + tail.n = b
    BY <1>3
  <2> QED
    BY <2>1, <2>2 DEF JoinSuffix
<1> QED
  BY <1>2, <1>3

(* The bits that are kept, in the case of each number of bytes.               *)
LEMMA KeptAre ==
  ASSUME NEW n \in Nat, NEW J, J \subseteq 0..15
  PROVE  /\ High(J) = {} => Length(n, J) = n /\ Tape(n, J)[Length(n, J)] = {b \in J : b < 8}
         /\ High(J) # {} => Length(n, J) = n + 1 /\ Tape(n, J)[Length(n, J)] = High(J)
         /\ Tape(n, J)[n] = {b \in J : b < 8}
         /\ High(J) = {b - 8 : b \in J \ {c \in J : c < 8}}
<1>1. IsTape(Tape(n, J), n, J)
  BY ONLY TapeAt, n \in Nat, J \subseteq 0..15
<1>2. Tape(n, J)[n] = {b \in 0..7 : b \in J} /\ Tape(n, J)[n + 1] = {b \in 0..7 : 8 + b \in J}
  BY ONLY <1>1 DEF IsTape
<1>3. {b \in 0..7 : b \in J} = {b \in J : b < 8}
  <2>1. \A b \in J : b \in 0..15
    OBVIOUS
  <2>2. \A b : (b \in J /\ b < 8) <=> (b \in 0..7 /\ b \in J)
    BY ONLY <2>1
  <2> QED
    BY ONLY <2>2
<1>4. High(J) = {b - 8 : b \in J \ {c \in J : c < 8}}
  <2>1. ASSUME NEW b \in High(J) PROVE b \in {c - 8 : c \in J \ {e \in J : e < 8}}
    <3>1. b \in 0..7 /\ 8 + b \in J
      BY DEF High
    <3>2. ~ (8 + b < 8) /\ b = (8 + b) - 8
      BY <3>1
    <3> QED
      BY <3>1, <3>2
  <2>2. ASSUME NEW c \in J, ~ (c < 8) PROVE c - 8 \in High(J)
    <3>1. c - 8 \in 0..7 /\ 8 + (c - 8) = c
      BY <2>2
    <3> QED
      BY <3>1 DEF High
  <2> QED
    BY <2>1, <2>2
<1> QED
  BY ONLY <1>2, <1>3, <1>4 DEF Length, High

(* The data of a call of Keccak_HashUpdate.                                 *)
LEMMA DataIs ==
  ASSUME NEW from \in Nat, NEW n \in Nat
  PROVE  /\ Data(from, n) \in Data8 /\ Len(Data(from, n)) = n /\ DOMAIN Data(from, n) = 1..n
         /\ \A i \in 1..n : Data(from, n)[i] = {1000 + from + i}
<1>1. \A i \in 1..n : {1000 + from + i} \in SUBSET Int
  OBVIOUS
<1>2. [i \in 1..n |-> {1000 + from + i}] \in [1..n -> SUBSET Int]
  BY <1>1
<1>3. [i \in 1..n |-> {1000 + from + i}] \in Seq(SUBSET Int)
  BY <1>2
<1> QED
  BY <1>3 DEF Data, Data8

(* The whole bytes of a tape.                                               *)
LEMMA TapeBefore ==
  ASSUME NEW M, NEW n, NEW J, IsTape(M, n, J), NEW p \in 0..n - 1
  PROVE  M[p] = {1000 + p + 1}
<1>1. \A x \in 0..n - 1 : M[x] = {1000 + x + 1}
  BY ONLY IsTape(M, n, J) DEF IsTape
<1> QED
  BY ONLY <1>1, p \in 0..n - 1

(* Absorbing n bytes more of a longer tape.                                   *)
LEMMA TakesBytes ==
  ASSUME NEW R \in Nat \ {0}, NEW n \in Nat, NEW J, J \subseteq 0..15, NEW m \in Nat, NEW J2, J2 \subseteq 0..15,
         NEW s, Stands(R, Tape(n, J), s, n)
  PROVE  Stands(R, Tape(n + m, J2), Keccak_SpongeAbsorb(s, Data(n, m)), n + m)
<1> PICK M, M2, n2 : M = Tape(n, J) /\ M2 = Tape(n + m, J2) /\ n2 = n + m
  OBVIOUS
<1>1. IsTape(M, n, J)
  BY ONLY TapeAt, n \in Nat, J \subseteq 0..15, M = Tape(n, J) /\ M2 = Tape(n + m, J2) /\ n2 = n + m
<1>2. IsTape(M2, n2, J2)
  <2>1. n2 \in Nat
    OBVIOUS
  <2> QED
    BY ONLY <2>1, TapeAt, J2 \subseteq 0..15, M = Tape(n, J) /\ M2 = Tape(n + m, J2) /\ n2 = n + m
<1>3. Alike(M, M2, n)
  <2> SUFFICES ASSUME NEW i \in 0..n - 1 PROVE M[i] = M2[i]
    BY DEF Alike
  <2>1. i \in 0..n2 - 1
    OBVIOUS
  <2>2. M[i] = {1000 + i + 1}
    BY ONLY <1>1, i \in 0..n - 1, TapeBefore
  <2>3. M2[i] = {1000 + i + 1}
    BY ONLY <1>2, <2>1, TapeBefore
  <2> QED
    BY ONLY <2>2, <2>3
<1>4. Stands(R, M, s, n)
  OBVIOUS
<1>5. Stands(R, M2, s, n)
  BY ONLY <1>3, <1>4, StandsAlike, n \in Nat, R \in Nat \ {0}
<1> PICK data : data = Data(n, m)
  OBVIOUS
<1>6. data \in Data8 /\ Len(data) = m /\ DOMAIN data = 1..m /\ \A i \in 1..m : data[i] = {1000 + n + i}
  BY ONLY DataIs, n \in Nat, m \in Nat, data = Data(n, m)
<1>7. Piece(M2, n, m, data)
  <2>1. ASSUME NEW i \in 1..m PROVE data[i] = M2[n + i - 1]
    <3> PICK p \in 0..n2 - 1 : p = n + i - 1
      OBVIOUS
    <3>1. M2[p] = {1000 + p + 1}
      BY ONLY <1>2, p \in 0..n2 - 1, TapeBefore
    <3>2. 1000 + p + 1 = 1000 + n + i
      OBVIOUS
    <3>3. data[i] = {1000 + n + i}
      BY ONLY <1>6, i \in 1..m
    <3> QED
      BY ONLY <3>1, <3>2, <3>3, p = n + i - 1
  <2> QED
    BY ONLY <1>6, <2>1 DEF Piece
<1>8. Stands(R, M2, Keccak_SpongeAbsorb(s, data), n + m)
  BY ONLY <1>5, <1>6, <1>7, AbsorbIs, R \in Nat \ {0}, n \in Nat, m \in Nat, ZenonT(30)
<1> QED
  BY ONLY <1>8, data = Data(n, m), M = Tape(n, J) /\ M2 = Tape(n + m, J2) /\ n2 = n + m

(* Where a whole tape ends.                                                   *)
LEMMA TapeEnds ==
  ASSUME NEW n \in Nat, NEW J, J \subseteq 0..15
  PROVE  EndsIn(Tape(n, J), Length(n, J)) /\ Length(n, J) \in Nat
<1> PICK M : M = Tape(n, J)
  OBVIOUS
<1>1. IsTape(M, n, J)
  BY ONLY TapeAt, n \in Nat, J \subseteq 0..15, M = Tape(n, J)
<1>2. /\ M[n] = {b \in 0..7 : b \in J}
      /\ M[n + 1] = {b \in 0..7 : 8 + b \in J}
      /\ \A p \in Nat : p > n + 1 => M[p] = {}
  BY ONLY <1>1 DEF IsTape
<1>3. CASE High(J) = {}
  <2>1. Length(n, J) = n
    BY ONLY <1>3 DEF Length
  <2>2. M[n + 1] = {}
    BY ONLY <1>2, <1>3 DEF High
  <2>3. ASSUME NEW p \in Nat, p > n PROVE M[p] = {}
    <3>1. p = n + 1 \/ p > n + 1
      BY ONLY <2>3, n \in Nat, p \in Nat
    <3> QED
      BY ONLY <1>2, <2>2, <3>1, p \in Nat
  <2>4. M[n] \subseteq 0..7
    BY ONLY <1>2
  <2> QED
    BY ONLY <2>1, <2>3, <2>4, M = Tape(n, J), n \in Nat DEF EndsIn
<1>4. CASE High(J) # {}
  <2>1. Length(n, J) = n + 1
    BY ONLY <1>4 DEF Length
  <2>2. M[n + 1] \subseteq 0..7
    BY ONLY <1>2
  <2> QED
    BY ONLY <1>2, <2>1, <2>2, M = Tape(n, J), n \in Nat DEF EndsIn
<1> QED
  BY <1>3, <1>4

(* The hash calls.                                                            *)
LEMMA InitializeTakes ==
  ASSUME NEW R \in Nat \ {0}, NEW len \in Nat, NEW suffix \in SUBSET (0..7), NEW rate, rate = 8 * R
  PROVE  Took(R, 0, suffix, Keccak_HashInitialize(rate, len, suffix))
<1> PICK n, M : n = 0 /\ M = Tape(n, suffix)
  OBVIOUS
<1>1. suffix \subseteq 0..15 /\ High(suffix) = {} /\ {b \in suffix : b < 8} = suffix
  <2>1. \A b \in suffix : b \in 0..7
    OBVIOUS
  <2>2. \A b \in 0..7 : ~ (8 + b \in 0..7) /\ b \in 0..15 /\ b < 8
    OBVIOUS
  <2> QED
    BY ONLY <2>1, <2>2 DEF High
<1>2. Length(n, suffix) = n /\ M[Length(n, suffix)] = suffix
  <2>1. n \in Nat
    OBVIOUS
  <2> QED
    BY ONLY <1>1, <2>1, KeptAre, n = 0 /\ M = Tape(n, suffix)
<1> PICK no : no = FALSE
  OBVIOUS
<1> PICK z : z = 0
  OBVIOUS
<1> PICK s : s = Absorbed(R, M, z, z)
  OBVIOUS
<1>3. Stands(R, M, s, n)
  <2>1. n = z * R + z /\ z < R /\ z \in Nat
    OBVIOUS
  <2> QED
    BY ONLY <2>1, StandsAt, s = Absorbed(R, M, z, z)
<1>4. Keccak_SpongeInitialize(rate) = s
  <2>1. BlocksOf(R, M, z) = << >>
    BY DEF BlocksOf
  <2>2. Block(M, z * R, z) = {}
    BY EmptyBlock
  <2>3. s = Sponge(State(<< >>, {}), rate, z, no)
    BY ONLY <2>1, <2>2, s = Absorbed(R, M, z, z), rate = 8 * R, no = FALSE, Zenon DEF Absorbed
  <2>4. Keccak_SpongeInitialize(rate) = Sponge(State(<< >>, {}), rate, z, no)
    BY ONLY z = 0, no = FALSE, Zenon
       DEF Keccak_SpongeInitialize, KeccakF1600_StateInitialize, Sponge, State
  <2> QED
    BY ONLY <2>3, <2>4
<1>5. Keccak_HashInitialize(rate, len, suffix) = Hash(s, len, suffix)
  BY ONLY <1>4, Zenon DEF Keccak_HashInitialize, Hash
<1> QED
  BY ONLY <1>2, <1>3, <1>5, len \in Nat, n = 0 /\ M = Tape(n, suffix), Zenon DEF Took

(* Keccak_HashUpdate takes the whole bytes, and a partial byte joins the    *)
(* delimited suffix.                                                        *)
LEMMA UpdateTakes ==
  ASSUME NEW R \in Nat \ {0}, NEW n \in Nat, NEW suffix \in SUBSET (0..7), NEW h, Took(R, n, suffix, h),
         NEW m \in Nat, NEW tail \in Tails
  PROVE  Took(R, n + m, JoinSuffix(tail, suffix), Keccak_HashUpdate(h, Data(n, m), tail))
<1>1. suffix \subseteq 0..15 /\ High(suffix) = {} /\ {b \in suffix : b < 8} = suffix
  <2>1. \A b \in suffix : b \in 0..7
    OBVIOUS
  <2>2. \A b \in 0..7 : ~ (8 + b \in 0..7) /\ b \in 0..15 /\ b < 8
    OBVIOUS
  <2> QED
    BY ONLY <2>1, <2>2 DEF High
<1>2. Length(n, suffix) = n /\ Tape(n, suffix)[Length(n, suffix)] = suffix
  BY ONLY <1>1, KeptAre, n \in Nat
<1>3. PICK s : \E len \in Nat : /\ Stands(R, Tape(n, suffix), s, Length(n, suffix))
                                /\ h = Hash(s, len, Tape(n, suffix)[Length(n, suffix)])
  BY DEF Took
<1>4. PICK len \in Nat : /\ Stands(R, Tape(n, suffix), s, Length(n, suffix))
                         /\ h = Hash(s, len, Tape(n, suffix)[Length(n, suffix)])
  BY ONLY <1>3
<1>5. Stands(R, Tape(n, suffix), s, n) /\ h = Hash(s, len, suffix)
  BY ONLY <1>2, <1>4
<1>6. h.sponge = s /\ h.fixedOutputLength = len /\ h.delimitedSuffix = suffix
  BY ONLY <1>5, HashHas
<1> PICK J, n2, M : J = JoinSuffix(tail, suffix) /\ n2 = n + m /\ M = Tape(n2, J)
  OBVIOUS
<1>7. J \subseteq 0..15 /\ (tail.n = 0 => J = suffix)
  BY ONLY JoinIs, tail \in Tails, suffix \in SUBSET (0..7), J = JoinSuffix(tail, suffix) /\ n2 = n + m /\ M = Tape(n2, J)
<1>8. n2 \in Nat
  OBVIOUS
<1> PICK bytes, absorbed : bytes = Data(n, m) /\ absorbed = Keccak_SpongeAbsorb(s, bytes)
  OBVIOUS
<1>9. Stands(R, M, absorbed, n2)
  <2>1. Stands(R, Tape(n + m, J), Keccak_SpongeAbsorb(s, Data(n, m)), n + m)
    BY ONLY <1>1, <1>5, <1>7, TakesBytes, R \in Nat \ {0}, n \in Nat, m \in Nat
  <2> QED
    BY ONLY <2>1, J = JoinSuffix(tail, suffix) /\ n2 = n + m /\ M = Tape(n2, J),
            bytes = Data(n, m) /\ absorbed = Keccak_SpongeAbsorb(s, bytes)
<1> PICK low, high : low = {b \in J : b < 8} /\ high = {b - 8 : b \in J \ low}
  OBVIOUS
<1>10. /\ high = {} => Length(n2, J) = n2 /\ M[Length(n2, J)] = low
       /\ high # {} => Length(n2, J) = n2 + 1 /\ M[Length(n2, J)] = high
       /\ M[n2] = low
  <2>1. High(J) = high
    BY ONLY <1>7, <1>8, KeptAre, low = {b \in J : b < 8} /\ high = {b - 8 : b \in J \ low}
  <2>2. /\ High(J) = {} => Length(n2, J) = n2 /\ Tape(n2, J)[Length(n2, J)] = {b \in J : b < 8}
        /\ High(J) # {} => Length(n2, J) = n2 + 1 /\ Tape(n2, J)[Length(n2, J)] = High(J)
        /\ Tape(n2, J)[n2] = {b \in J : b < 8}
    BY ONLY <1>7, <1>8, KeptAre
  <2> QED
    BY ONLY <2>1, <2>2, low = {b \in J : b < 8} /\ high = {b - 8 : b \in J \ low},
            J = JoinSuffix(tail, suffix) /\ n2 = n + m /\ M = Tape(n2, J)
<1>11. tail.n \in 0..7
  BY DEF Tails
<1> PICK h2 : h2 = Keccak_HashUpdate(h, bytes, tail)
  OBVIOUS
<1>12. CASE tail.n = 0
  <2>1. h2 = WithSponge(h, absorbed)
    BY ONLY <1>6, <1>12, bytes = Data(n, m) /\ absorbed = Keccak_SpongeAbsorb(s, bytes),
            h2 = Keccak_HashUpdate(h, bytes, tail) DEF Keccak_HashUpdate, WithSponge
  <2>2. h2 = Hash(absorbed, len, suffix)
    BY ONLY <1>5, <2>1, WithSpongeIs
  <2>3. Length(n2, J) = n2 /\ M[n2] = suffix
    <3>1. high = {} /\ low = suffix
      BY ONLY <1>1, <1>7, <1>12, low = {b \in J : b < 8} /\ high = {b - 8 : b \in J \ low}
    <3> QED
      BY ONLY <1>10, <3>1
  <2> QED
    BY ONLY <1>9, <2>2, <2>3, len \in Nat, J = JoinSuffix(tail, suffix) /\ n2 = n + m /\ M = Tape(n2, J),
            bytes = Data(n, m) /\ absorbed = Keccak_SpongeAbsorb(s, bytes),
            h2 = Keccak_HashUpdate(h, bytes, tail) DEF Took
<1>13. CASE tail.n > 0 /\ high = {}
  <2> PICK d1, d2, d3 : d1 = WithSponge(h, absorbed) /\ d2 = WithBoth(h, absorbed, low)
                        /\ d3 = WithBoth(h, Keccak_SpongeAbsorb(absorbed, << low >>), high)
    OBVIOUS
  <2>0. h2 = CASE tail.n = 0 -> d1
               [] tail.n > 0 /\ high = {} -> d2
               [] tail.n > 0 /\ high # {} -> d3
    BY ONLY <1>6, bytes = Data(n, m) /\ absorbed = Keccak_SpongeAbsorb(s, bytes),
            J = JoinSuffix(tail, suffix) /\ n2 = n + m /\ M = Tape(n2, J),
            low = {b \in J : b < 8} /\ high = {b - 8 : b \in J \ low},
            d1 = WithSponge(h, absorbed) /\ d2 = WithBoth(h, absorbed, low)
                        /\ d3 = WithBoth(h, Keccak_SpongeAbsorb(absorbed, << low >>), high),
            h2 = Keccak_HashUpdate(h, bytes, tail), Zenon DEF Keccak_HashUpdate, WithBoth, WithSponge
  <2>1. h2 = WithBoth(h, absorbed, low)
    BY ONLY <1>11, <1>13, <2>0, d1 = WithSponge(h, absorbed) /\ d2 = WithBoth(h, absorbed, low)
                        /\ d3 = WithBoth(h, Keccak_SpongeAbsorb(absorbed, << low >>), high)
  <2>2. h2 = Hash(absorbed, len, low)
    BY ONLY <1>5, <2>1, WithBothIs
  <2> QED
    BY ONLY <1>9, <1>10, <1>13, <2>2, len \in Nat, J = JoinSuffix(tail, suffix) /\ n2 = n + m /\ M = Tape(n2, J),
            bytes = Data(n, m) /\ absorbed = Keccak_SpongeAbsorb(s, bytes),
            h2 = Keccak_HashUpdate(h, bytes, tail) DEF Took
<1>14. CASE tail.n > 0 /\ high # {}
  <2> PICK one, absorbed2 : one = << low >> /\ absorbed2 = Keccak_SpongeAbsorb(absorbed, one)
    OBVIOUS
  <2>1. h2 = WithBoth(h, absorbed2, high)
    BY ONLY <1>6, <1>11, <1>14, bytes = Data(n, m) /\ absorbed = Keccak_SpongeAbsorb(s, bytes),
            J = JoinSuffix(tail, suffix) /\ n2 = n + m /\ M = Tape(n2, J),
            low = {b \in J : b < 8} /\ high = {b - 8 : b \in J \ low},
            one = << low >> /\ absorbed2 = Keccak_SpongeAbsorb(absorbed, one),
            h2 = Keccak_HashUpdate(h, bytes, tail) DEF Keccak_HashUpdate, WithBoth
  <2>2. h2 = Hash(absorbed2, len, high)
    BY ONLY <1>5, <2>1, WithBothIs
  <2>3. Stands(R, M, absorbed2, n2 + 1)
    <3> PICK o : o = 1
      OBVIOUS
    <3>1. one \in Data8 /\ o = Len(one)
      <4>1. low \in SUBSET Int
        BY <1>7
      <4>2. << low >> \in Seq(SUBSET Int)
        BY ONLY <4>1
      <4> QED
        BY ONLY <4>2, o = 1, one = << low >> /\ absorbed2 = Keccak_SpongeAbsorb(absorbed, one) DEF Data8
    <3>2. Piece(M, n2, o, one)
      <4>1. DOMAIN one = 1..1 /\ one[1] = low /\ \A i \in 1..1 : i = 1
        OBVIOUS
      <4>2. n2 + 1 - 1 = n2
        BY <1>8
      <4> QED
        BY ONLY <1>10, <4>1, <4>2, o = 1 DEF Piece
    <3>3. Stands(R, M, Keccak_SpongeAbsorb(absorbed, one), n2 + o)
      <4>1. o \in Nat
        OBVIOUS
      <4> QED
        BY ONLY <1>8, <1>9, <3>1, <3>2, <4>1, AbsorbIs, R \in Nat \ {0}
    <3> QED
      BY ONLY <3>3, o = 1, one = << low >> /\ absorbed2 = Keccak_SpongeAbsorb(absorbed, one)
  <2> QED
    BY ONLY <1>10, <1>14, <2>2, <2>3, len \in Nat, J = JoinSuffix(tail, suffix) /\ n2 = n + m /\ M = Tape(n2, J),
            bytes = Data(n, m) /\ absorbed = Keccak_SpongeAbsorb(s, bytes),
            h2 = Keccak_HashUpdate(h, bytes, tail) DEF Took
<1> QED
  BY ONLY <1>11, <1>12, <1>13, <1>14

(* What Final and each HashSqueeze leave and return.                          *)
LEMMA SqueezeGives ==
  ASSUME NEW R \in Nat \ {0}, NEW F, NEW B \in Nat, NEW h, NEW s, NEW len, NEW suffix, h = Hash(s, len, suffix),
         NEW t, NEW from \in Nat, StandsOut(R, F, B, t, from), NEW out, out = OutBytes(R, B, 0, from),
         NEW n \in Nat, NEW r, r = Keccak_SpongeSqueeze(t, n), NEW h2, h2 = WithSponge(h, r.sponge)
  PROVE  Gave(R, F, B, h2, out \o r.out) /\ Len(out \o r.out) \in Nat
<1>1. DrawnTo(R, F, B, from, r, n)
  BY ONLY SqueezeIs, R \in Nat \ {0}, B \in Nat, from \in Nat, n \in Nat, StandsOut(R, F, B, t, from),
          r = Keccak_SpongeSqueeze(t, n)
<1>2. PICK t2 : StandsOut(R, F, B, t2, from + n) /\ r = Drawn(t2, OutBytes(R, B, from, n))
  BY ONLY <1>1 DEF DrawnTo
<1>3. r.sponge = t2 /\ r.out = OutBytes(R, B, from, n)
  BY ONLY <1>2, DrawnHas
<1>4. h2 = Hash(t2, len, suffix)
  BY ONLY <1>3, WithSpongeIs, h = Hash(s, len, suffix), h2 = WithSponge(h, r.sponge)
<1>5. h2.sponge = t2
  BY ONLY <1>4, HashHas
<1> PICK z \in Nat : z = 0
  OBVIOUS
<1> PICK all \in Nat : all = from + n
  OBVIOUS
<1>6. out \o r.out = OutBytes(R, B, 0, all)
  <2>1. Joins(R, B, z, from, n)
    BY ONLY OutBytesJoin, z \in Nat, from \in Nat, n \in Nat
  <2>2. z + from = from
    OBVIOUS
  <2> QED
    BY ONLY <1>3, <2>1, <2>2, z = 0, all = from + n, out = OutBytes(R, B, 0, from), Zenon DEF Joins
<1>7. Len(OutBytes(R, B, 0, all)) = all
  BY DEF OutBytes
<1> QED
  BY ONLY <1>2, <1>4, <1>5, <1>6, <1>7, all = from + n, all \in Nat DEF Gave

(* Keccak_HashFinal pads, and gives the first bytes of the output.          *)
LEMMA FinalGives ==
  ASSUME NEW R \in Nat \ {0}, NEW n \in Nat, NEW J, J \subseteq 0..15, NEW h, Took(R, n, J, h),
         NEW r, r = Keccak_HashFinal(h)
  PROVE  /\ h.fixedOutputLength \in Nat
         /\ \E B \in Nat \ {0} : \E F : /\ Input(R, n, J, F, B)
                                       /\ Gave(R, F, B, r.hash, r.out)
                                       /\ Len(r.out) = h.fixedOutputLength
<1> PICK L, M : L = Length(n, J) /\ M = Tape(n, J)
  OBVIOUS
<1>1. EndsIn(M, L) /\ L \in Nat
  BY ONLY TapeEnds, n \in Nat, J \subseteq 0..15, L = Length(n, J) /\ M = Tape(n, J)
<1>2. PICK s : \E len \in Nat : Stands(R, M, s, L) /\ h = Hash(s, len, M[L])
  BY DEF Took
<1>3. PICK len \in Nat : Stands(R, M, s, L) /\ h = Hash(s, len, M[L])
  BY ONLY <1>2
<1>4. PICK q \in Nat, k \in Nat : L = q * R + k /\ k < R /\ s = Absorbed(R, M, q, k)
  BY ONLY <1>3 DEF Stands
<1> PICK D : D = M[L]
  OBVIOUS
<1>5. h.sponge = s /\ h.fixedOutputLength = len /\ h.delimitedSuffix = D
  BY ONLY <1>3, HashHas, D = M[L]
<1>6. PICK B : B = Padding(R, D, q, k) /\ B \in Nat \ {0}
  BY DEF Padding
<1> PICK F : F = BlocksOf(R, Marked(M, B * R - 1), B)
  OBVIOUS
<1> PICK t : t = Keccak_SpongeAbsorbLastFewBits(s, D)
  OBVIOUS
<1>7. t = Closed(R, M, B)
  <2>1. D = M[q * R + k] /\ EndsIn(M, q * R + k)
    BY ONLY <1>1, <1>4, D = M[L]
  <2> QED
    BY ONLY <1>4, <1>6, <2>1, LastBitsAre, R \in Nat \ {0}, t = Keccak_SpongeAbsorbLastFewBits(s, D)
<1>8. StandsOut(R, F, B, t, 0)
  <2>1. B \in Nat
    BY ONLY <1>6
  <2> QED
    BY ONLY <1>7, <2>1, ClosedStandsOut, R \in Nat \ {0}, F = BlocksOf(R, Marked(M, B * R - 1), B)
<1> PICK sq : sq = Keccak_SpongeSqueeze(t, len)
  OBVIOUS
<1> PICK h2 : h2 = WithSponge(h, sq.sponge)
  OBVIOUS
<1>9. r.hash = h2 /\ r.out = sq.out
  BY ONLY <1>5, r = Keccak_HashFinal(h), t = Keccak_SpongeAbsorbLastFewBits(s, D),
          sq = Keccak_SpongeSqueeze(t, len), h2 = WithSponge(h, sq.sponge) DEF Keccak_HashFinal, WithSponge
<1> PICK out : out = << >>
  OBVIOUS
<1>10. out = OutBytes(R, B, 0, 0)
  BY DEF OutBytes
<1>11. Gave(R, F, B, h2, out \o sq.out) /\ Len(out \o sq.out) \in Nat
  <2>1. B \in Nat /\ 0 \in Nat
    BY ONLY <1>6
  <2> QED
    BY ONLY <1>3, <1>8, <1>10, <2>1, SqueezeGives, R \in Nat \ {0}, len \in Nat,
            sq = Keccak_SpongeSqueeze(t, len), h2 = WithSponge(h, sq.sponge)
<1>12. out \o sq.out = sq.out /\ Len(sq.out) = len
  <2>1. DrawnTo(R, F, B, 0, sq, len)
    <3>1. B \in Nat /\ 0 \in Nat
      BY ONLY <1>6
    <3> QED
      BY ONLY <1>8, <3>1, SqueezeIs, R \in Nat \ {0}, len \in Nat, sq = Keccak_SpongeSqueeze(t, len)
  <2>2. PICK t2 : sq = Drawn(t2, OutBytes(R, B, 0, len))
    BY ONLY <2>1 DEF DrawnTo
  <2>3. sq.out = OutBytes(R, B, 0, len)
    BY ONLY <2>2, DrawnHas
  <2> PICK z \in Nat : z = 0
    OBVIOUS
  <2>4. Joins(R, B, z, z, len)
    BY ONLY OutBytesJoin, z \in Nat, len \in Nat
  <2>5. z + z = z /\ z + len = len
    OBVIOUS
  <2>6. out \o sq.out = sq.out
    BY ONLY <1>10, <2>3, <2>4, <2>5, z = 0, Zenon DEF Joins
  <2>7. Len(OutBytes(R, B, 0, len)) = len
    BY DEF OutBytes
  <2> QED
    BY ONLY <2>3, <2>6, <2>7
<1>13. Input(R, n, J, F, B)
  BY ONLY <1>4, <1>6, F = BlocksOf(R, Marked(M, B * R - 1), B), D = M[L], L = Length(n, J) /\ M = Tape(n, J)
     DEF Input
<1>14. Gave(R, F, B, r.hash, r.out) /\ Len(r.out) = h.fixedOutputLength
  BY ONLY <1>5, <1>9, <1>11, <1>12
<1> QED
  BY ONLY <1>5, <1>6, <1>13, <1>14, len \in Nat

-----------------------------------------------------------------------------
(* An input of whole bytes has no partial one.                              *)
LEMMA NoTailIs == NoTail \in Tails /\ NoTail.n = 0
BY DEF NoTail, Tails

(* SpInv holds before the first call.                                       *)
LEMMA SpInitInv == SpInit => SpInv
<1> SUFFICES ASSUME SpInit PROVE SpInv
  OBVIOUS
<1>1. spPhase = "fresh" /\ spGiven = 0 /\ spTail = NoTail /\ spAsked = {}
  BY DEF SpInit
<1> QED
  BY ONLY <1>1, NoTailIs DEF SpInv, SpTypes

(* Keccak_HashInitialize leaves an empty sponge, the suffix waiting.        *)
LEMMA InitializeKeeps ==
  ASSUME SpInv, NEW rate \in Rates, NEW n \in OutputBytes, NEW suffix \in DelimitedSuffixes,
         CallHashInitialize(rate, 1600 - rate, n, suffix)
  PROVE  SpInv'
<1>1. /\ spPhase = "fresh" /\ suffix # {} /\ rate > 0 /\ rate % 8 = 0
      /\ spHash' = Keccak_HashInitialize(rate, n, suffix)
      /\ spAsked' = suffix /\ spPhase' = "absorbing"
      /\ spGiven' = spGiven /\ spTail' = spTail
  BY DEF CallHashInitialize, HashAccepts, SpongeAccepts
<1>2. rate \in Nat /\ n \in Nat /\ suffix \in SUBSET (0..7)
  BY SpongeAssumption
<1>3. spGiven = 0 /\ spTail = NoTail
  BY ONLY <1>1, SpInv DEF SpInv
<1>4. PICK R \in Nat \ {0} : rate = 8 * R
  <2>1. PICK q \in Nat, r \in Nat : q = rate \div 8 /\ r = rate % 8 /\ rate = 8 * q + r
    BY ONLY <1>2, Division
  <2>2. rate = 8 * q /\ q # 0
    BY ONLY <1>1, <2>1
  <2> QED
    BY ONLY <2>2
<1>5. Took(R, 0, suffix, spHash')
  BY ONLY <1>1, <1>2, <1>4, InitializeTakes
<1>6. JoinSuffix(NoTail, suffix) = suffix
  BY ONLY <1>2, NoTailIs, JoinIs
<1>7. Absorbing'
  BY ONLY <1>1, <1>3, <1>5, <1>6 DEF Absorbing
<1>8. SpTypes'
  BY ONLY <1>1, <1>2, <1>3, NoTailIs DEF SpTypes
<1> QED
  BY ONLY <1>1, <1>7, <1>8 DEF SpInv

(* Keccak_HashUpdate is not called again after a partial byte.              *)
LEMMA UpdateKeeps ==
  ASSUME SpInv, NEW bits \in InputBits, NEW ones \in {{}, 0..(bits % 8) - 1}, CallHashUpdate(bits, ones)
  PROVE  SpInv'
<1>1. /\ spPhase = "absorbing" /\ spTail.n = 0
      /\ spTail' = [n |-> bits % 8, ones |-> ones]
      /\ spHash' = Keccak_HashUpdate(spHash, Data(spGiven, BytesIn(bits)), spTail')
      /\ spGiven' = spGiven + BytesIn(bits)
      /\ spAsked' = spAsked /\ spPhase' = spPhase
  BY DEF CallHashUpdate
<1>2. PICK m \in Nat, k \in Nat : m = BytesIn(bits) /\ k = bits % 8 /\ k < 8
  <2>1. bits \in Nat
    BY SpongeAssumption
  <2>2. PICK q \in Nat, r \in Nat : q = bits \div 8 /\ r = bits % 8 /\ r < 8
    BY ONLY <2>1, Division
  <2> QED
    BY ONLY <2>2 DEF BytesIn
<1>3. SpTypes /\ spAsked # {} /\ Absorbing
  BY ONLY <1>1, SpInv DEF SpInv
<1>4. spGiven \in Nat /\ spTail \in Tails /\ spAsked \in SUBSET (0..7)
  BY ONLY <1>3 DEF SpTypes
<1>5. spTail' \in Tails
  <2>1. ones \in SUBSET (0..7) /\ \A b \in ones : b < k
    BY ONLY <1>2, ones \in {{}, 0..(bits % 8) - 1}
  <2>2. k \in 0..7
    BY ONLY <1>2
  <2>3. spTail' = [n |-> k, ones |-> ones]
    BY ONLY <1>1, <1>2
  <2> QED
    BY ONLY <2>1, <2>2, <2>3 DEF Tails
<1>6. JoinSuffix(spTail, spAsked) = spAsked
  BY ONLY <1>1, <1>4, JoinIs
<1>7. PICK R \in Nat \ {0} : Took(R, spGiven, spAsked, spHash)
  BY ONLY <1>3, <1>6 DEF Absorbing
<1>8. Took(R, spGiven + m, JoinSuffix(spTail', spAsked), Keccak_HashUpdate(spHash, Data(spGiven, m), spTail'))
  BY ONLY <1>2, <1>4, <1>5, <1>7, UpdateTakes
<1>9. Absorbing'
  BY ONLY <1>1, <1>2, <1>8 DEF Absorbing
<1>10. SpTypes'
  <2>1. spGiven' \in Nat
    BY ONLY <1>1, <1>2, <1>4
  <2> QED
    BY ONLY <1>1, <1>3, <1>5, <2>1 DEF SpTypes
<1> QED
  BY ONLY <1>1, <1>3, <1>9, <1>10 DEF SpInv

(* Keccak_HashFinal leaves a sponge whose output is under way.              *)
LEMMA FinalKeeps ==
  ASSUME SpInv, CallHashFinal
  PROVE  SpInv'
<1> PICK r : r = Keccak_HashFinal(spHash)
  OBVIOUS
<1>1. /\ spPhase = "absorbing" /\ spPhase' = "squeezing"
      /\ spHash' = r.hash /\ spOut' = r.out
      /\ spGiven' = spGiven /\ spTail' = spTail /\ spAsked' = spAsked
  BY DEF CallHashFinal
<1>2. SpTypes /\ spAsked # {} /\ Absorbing
  BY ONLY <1>1, SpInv DEF SpInv
<1>3. spGiven \in Nat /\ spTail \in Tails /\ spAsked \in SUBSET (0..7)
  BY ONLY <1>2 DEF SpTypes
<1> PICK J : J = JoinSuffix(spTail, spAsked)
  OBVIOUS
<1>4. J \subseteq 0..15
  BY ONLY <1>3, JoinIs, J = JoinSuffix(spTail, spAsked)
<1>5. PICK R \in Nat \ {0} : Took(R, spGiven, J, spHash)
  BY ONLY <1>2, J = JoinSuffix(spTail, spAsked) DEF Absorbing
<1> PICK k : k = spHash.fixedOutputLength
  OBVIOUS
<1>6. /\ k \in Nat
      /\ \E B \in Nat \ {0} : \E F :
           Input(R, spGiven, J, F, B) /\ Gave(R, F, B, r.hash, r.out) /\ Len(r.out) = k
  BY ONLY <1>3, <1>4, <1>5, FinalGives, r = Keccak_HashFinal(spHash), k = spHash.fixedOutputLength
<1>7. Squeezing'
  BY ONLY <1>1, <1>6, J = JoinSuffix(spTail, spAsked) DEF Squeezing
<1>8. SpTypes'
  BY ONLY <1>1, <1>2 DEF SpTypes
<1> QED
  BY ONLY <1>1, <1>2, <1>7, <1>8 DEF SpInv

(* Keccak_HashSqueeze goes on from where the output stopped.                *)
LEMMA SqueezeKeeps ==
  ASSUME SpInv, NEW n \in OutputBytes, CallHashSqueeze(n)
  PROVE  SpInv'
<1> PICK t : t = spHash.sponge
  OBVIOUS
<1> PICK r, h2 : r = Keccak_SpongeSqueeze(t, n) /\ h2 = WithSponge(spHash, r.sponge)
  OBVIOUS
<1>1. /\ spPhase = "squeezing" /\ spPhase' = spPhase
      /\ spHash' = h2 /\ spOut' = spOut \o r.out
      /\ spGiven' = spGiven /\ spTail' = spTail /\ spAsked' = spAsked
  BY DEF CallHashSqueeze, Keccak_HashSqueeze, WithSponge
<1>2. SpTypes /\ spAsked # {} /\ Squeezing
  BY ONLY <1>1, SpInv DEF SpInv
<1>3. n \in Nat
  BY SpongeAssumption
<1>4. PICK R \in Nat \ {0} : \E B \in Nat \ {0} : \E F : \E k \in Nat :
        /\ Input(R, spGiven, JoinSuffix(spTail, spAsked), F, B)
        /\ Gave(R, F, B, spHash, spOut)
        /\ Len(spOut) = k
  BY ONLY <1>2 DEF Squeezing
<1>5. PICK B \in Nat \ {0} : \E F : \E k \in Nat :
        /\ Input(R, spGiven, JoinSuffix(spTail, spAsked), F, B)
        /\ Gave(R, F, B, spHash, spOut)
        /\ Len(spOut) = k
  BY ONLY <1>4
<1>6. PICK F : \E k \in Nat :
        /\ Input(R, spGiven, JoinSuffix(spTail, spAsked), F, B)
        /\ Gave(R, F, B, spHash, spOut)
        /\ Len(spOut) = k
  BY ONLY <1>5
<1>7. PICK k \in Nat :
        /\ Input(R, spGiven, JoinSuffix(spTail, spAsked), F, B)
        /\ Gave(R, F, B, spHash, spOut)
        /\ Len(spOut) = k
  BY ONLY <1>6
<1>8. StandsOut(R, F, B, t, k) /\ spOut = OutBytes(R, B, 0, k)
  BY ONLY <1>7, t = spHash.sponge DEF Gave
<1>9. PICK len, suffix : spHash = Hash(t, len, suffix)
  BY ONLY <1>7, t = spHash.sponge DEF Gave
<1>10. Gave(R, F, B, h2, spOut \o r.out) /\ Len(spOut \o r.out) \in Nat
  <2>1. B \in Nat
    OBVIOUS
  <2> QED
    BY ONLY <1>3, <1>8, <1>9, <2>1, SqueezeGives, R \in Nat \ {0}, k \in Nat,
            r = Keccak_SpongeSqueeze(t, n) /\ h2 = WithSponge(spHash, r.sponge)
<1>11. Squeezing'
  BY ONLY <1>1, <1>7, <1>10, R \in Nat \ {0}, B \in Nat \ {0} DEF Squeezing
<1>12. SpTypes'
  BY ONLY <1>1, <1>2 DEF SpTypes
<1> QED
  BY ONLY <1>1, <1>2, <1>11, <1>12 DEF SpInv

(* Every call keeps SpInv.                                                  *)
LEMMA SpNextKeeps == SpInv /\ [SpNext]_spVars => SpInv'
<1> SUFFICES ASSUME SpInv, [SpNext]_spVars PROVE SpInv'
  OBVIOUS
<1>1. ASSUME NEW rate \in Rates, NEW n \in OutputBytes, NEW suffix \in DelimitedSuffixes,
             CallHashInitialize(rate, 1600 - rate, n, suffix)
      PROVE  SpInv'
  BY <1>1, InitializeKeeps
<1>2. ASSUME NEW bits \in InputBits, NEW ones \in {{}, 0..(bits % 8) - 1}, CallHashUpdate(bits, ones)
      PROVE  SpInv'
  BY <1>2, UpdateKeeps
<1>3. ASSUME CallHashFinal PROVE SpInv'
  BY <1>3, FinalKeeps
<1>4. ASSUME NEW n \in OutputBytes, CallHashSqueeze(n) PROVE SpInv'
  BY <1>4, SqueezeKeeps
<1>5. ASSUME UNCHANGED spVars PROVE SpInv'
  <2>1. /\ spHash' = spHash /\ spGiven' = spGiven /\ spTail' = spTail /\ spAsked' = spAsked
        /\ spOut' = spOut /\ spPhase' = spPhase
    BY <1>5 DEF spVars
  <2> QED
    BY ONLY <2>1, SpInv DEF SpInv, SpTypes, Absorbing, Squeezing
<1> QED
  BY <1>1, <1>2, <1>3, <1>4, <1>5 DEF SpNext

(* A hash instance has always taken what it was given and has permuted once   *)
(* for each full block; when it is squeezed, the padded input went through    *)
(* the permutation: KeccakHash.c on top of KeccakSponge.c.                     *)
THEOREM SpongeInvariant == SpSpec => []SpInv
<1>1. SpInit => SpInv
  BY SpInitInv
<1>2. SpInv /\ [SpNext]_spVars => SpInv'
  BY SpNextKeeps
<1> QED
  BY <1>1, <1>2, PTL DEF SpSpec

(* AbsorbsInOrder follows: the position is the quotient and the rest of     *)
(* the bytes given.                                                         *)
LEMMA InOrder == SpInv => AbsorbsInOrder
<1> SUFFICES ASSUME SpInv, spPhase = "absorbing" /\ spTail.n = 0
             PROVE  LET R    == spHash.sponge.rate \div 8
                        full == spGiven \div R
                    IN  /\ spHash.sponge.state.perms =
                             [k \in 1..full |-> {<<i, 1000 + (k - 1) * R + i + 1>> : i \in 0..R - 1}]
                        /\ spHash.sponge.state.since = {<<i, 1000 + full * R + i + 1>> : i \in 0..(spGiven % R) - 1}
                        /\ spHash.sponge.byteIOIndex = spGiven % R
  BY DEF AbsorbsInOrder
<1>1. Absorbing /\ spGiven \in Nat /\ spTail \in Tails /\ spAsked \in SUBSET (0..7)
  BY DEF SpInv, SpTypes
<1> PICK J, n : J = spAsked /\ n = spGiven
  OBVIOUS
<1>2. JoinSuffix(spTail, spAsked) = J /\ J \subseteq 0..15 /\ High(J) = {}
  <2>1. JoinSuffix(spTail, spAsked) = J
    BY <1>1, JoinIs
  <2>2. \A b \in J : b \in 0..7
    BY <1>1
  <2>3. High(J) = {}
    BY ONLY <2>2 DEF High
  <2> QED
    BY <2>1, <2>2, <2>3
<1>3. PICK R \in Nat \ {0} : Took(R, n, J, spHash)
  BY ONLY <1>1, <1>2, J = spAsked /\ n = spGiven DEF Absorbing
<1>4. n \in Nat /\ Length(n, J) = n
  BY ONLY <1>1, <1>2, J = spAsked /\ n = spGiven DEF Length
<1> PICK M : M = Tape(n, J)
  OBVIOUS
<1>5. PICK s : Stands(R, M, s, n) /\ \E len, suffix : spHash = Hash(s, len, suffix)
  BY ONLY <1>3, <1>4, M = Tape(n, J) DEF Took
<1>6. spHash.sponge = s
  BY ONLY <1>5, HashHas
<1>7. PICK q \in Nat, r \in Nat : n = q * R + r /\ r < R /\ s = Absorbed(R, M, q, r)
  BY ONLY <1>5 DEF Stands
<1>8. /\ s.state.perms = BlocksOf(R, M, q) /\ s.state.since = Block(M, q * R, r)
      /\ s.rate = 8 * R /\ s.byteIOIndex = r
  BY ONLY <1>7 DEF Absorbed, Sponge, State
<1>9. s.rate \div 8 = R
  BY ONLY <1>8, Eighth, R \in Nat \ {0}
<1>10. n \div R = q /\ n % R = r
  BY ONLY <1>7, QuotientIs, R \in Nat \ {0}, q \in Nat, r \in Nat
<1>11. IsTape(M, n, J)
  BY ONLY <1>2, <1>4, TapeAt, M = Tape(n, J)
<1>12. ASSUME NEW base \in Nat, NEW k \in Nat, base + k <= n
       PROVE  Block(M, base, k) = {<<i, 1000 + base + i + 1>> : i \in 0..k - 1}
  <2>1. ASSUME NEW i \in 0..k - 1 PROVE M[base + i] = {1000 + base + i + 1}
    <3> PICK p \in 0..n - 1 : p = base + i
      BY <1>4, <1>12
    <3>1. M[p] = {1000 + p + 1}
      BY ONLY <1>11, TapeBefore, p \in 0..n - 1
    <3>2. 1000 + p + 1 = 1000 + base + i + 1
      OBVIOUS
    <3> QED
      BY ONLY <3>1, <3>2, p = base + i
  <2>2. \A i \in 0..k - 1 : {<<i, t>> : t \in M[base + i]} = {<<i, 1000 + base + i + 1>>}
    BY ONLY <2>1
  <2> QED
    BY ONLY <2>2 DEF Block
<1>13. BlocksOf(R, M, q) = [k \in 1..q |-> {<<i, 1000 + (k - 1) * R + i + 1>> : i \in 0..R - 1}]
  <2>1. ASSUME NEW k \in 1..q
        PROVE  BlockNo(R, M, k) = {<<i, 1000 + (k - 1) * R + i + 1>> : i \in 0..R - 1}
    <3> PICK j \in Nat, left \in Nat : j = k - 1 /\ left = q - k
      OBVIOUS
    <3>1. q * R = j * R + R + left * R /\ j * R \in Nat /\ left * R \in Nat
      <4>1. q = j + 1 + left
        OBVIOUS
      <4>2. (j + 1 + left) * R = j * R + R + left * R
        OBVIOUS
      <4> QED
        BY <4>1, <4>2
    <3> PICK base \in Nat : base = j * R
      BY <3>1
    <3>2. base + R <= n
      BY <1>7, <3>1
    <3>3. Block(M, base, R) = {<<i, 1000 + base + i + 1>> : i \in 0..R - 1}
      BY <1>12, <3>2
    <3> QED
      BY ONLY <3>3, base = j * R, j = k - 1 /\ left = q - k DEF BlockNo
  <2> QED
    BY ONLY <2>1 DEF BlocksOf
<1>14. Block(M, q * R, r) = {<<i, 1000 + q * R + i + 1>> : i \in 0..r - 1}
  <2> PICK base \in Nat : base = q * R
    OBVIOUS
  <2>1. base + r <= n
    BY <1>7
  <2>2. Block(M, base, r) = {<<i, 1000 + base + i + 1>> : i \in 0..r - 1}
    BY <1>12, <2>1
  <2> QED
    BY ONLY <2>2, base = q * R
<1> QED
  BY ONLY <1>6, <1>8, <1>9, <1>10, <1>13, <1>14, J = spAsked /\ n = spGiven

(* An output of m whole rates and `at` bytes: the blocks, and as many       *)
(* permutations after them as it takes to get there.                        *)
IsOutput(R, blocks, h, out, m, at) ==
  /\ Len(out) = m * R + at /\ at <= R /\ h.sponge.rate = 8 * R
  /\ h.sponge.state.perms = blocks \o [k \in 1..m |-> {}]
  /\ Len(h.sponge.state.perms) - Len(blocks) = m
  /\ out = SqueezedBytes(8 * R, Len(blocks), Len(out))

(* The blocks and the output of an instance that took an input and gave out *)
(* agree with the definition of the sponge function.                        *)
LEMMA OutputIsKeccak ==
  ASSUME NEW R \in Nat \ {0}, NEW n \in Nat, NEW tail \in Tails, NEW suffix \in SUBSET (0..7), suffix # {},
         NEW J, J = JoinSuffix(tail, suffix), NEW B \in Nat \ {0}, NEW F, Input(R, n, J, F, B),
         NEW h, NEW out, Gave(R, F, B, h, out)
  PROVE  \E m \in Nat, at \in Nat : IsOutput(R, PaddedBlocks(8 * R, Data(0, n), tail, suffix), h, out, m, at)
<1> PICK s, len : s = h.sponge /\ len = Len(out)
  OBVIOUS
<1>5. StandsOut(R, F, B, s, len) /\ out = OutBytes(R, B, 0, len)
  BY ONLY Gave(R, F, B, h, out), s = h.sponge /\ len = Len(out) DEF Gave
<1>6. PICK m \in Nat, at \in Nat : len = m * R + at /\ at <= R /\ s = Squeezed(R, F, B, m, at)
  BY ONLY <1>5 DEF StandsOut
<1>7. s.state.perms = Perms(F, B, m) /\ s.rate = 8 * R
  BY ONLY <1>6 DEF Squeezed, Sponge, State
<1>8. PICK q \in Nat, r \in Nat : /\ Length(n, J) = q * R + r /\ r < R
                                  /\ B = Padding(R, Tape(n, J)[Length(n, J)], q, r)
                                  /\ F = BlocksOf(R, Marked(Tape(n, J), B * R - 1), B)
  BY ONLY Input(R, n, J, F, B) DEF Input
<1> PICK bytes, blocks, rate : /\ bytes = Data(0, n) /\ rate = 8 * R
                               /\ blocks = PaddedBlocks(rate, bytes, tail, suffix)
  OBVIOUS
<1>9. n \in Nat /\ J \subseteq 0..15 /\ Length(n, J) \in Nat
  <2>1. J \subseteq 0..15
    BY ONLY JoinIs, J = JoinSuffix(tail, suffix), tail \in Tails, suffix \in SUBSET (0..7)
  <2> QED
    BY ONLY <2>1, TapeEnds, n \in Nat
<1>10. Given(bytes, n) /\ Len(bytes) = n
  <2> PICK z \in Nat : z = 0
    OBVIOUS
  <2>1. /\ Len(bytes) = n /\ DOMAIN bytes = 1..n
        /\ \A i \in 1..n : bytes[i] = {1000 + z + i}
    BY ONLY <1>9, DataIs, z \in Nat, z = 0, bytes = Data(0, n) /\ rate = 8 * R
                               /\ blocks = PaddedBlocks(rate, bytes, tail, suffix)
  <2>2. \A i \in 1..n : 1000 + z + i = 1000 + i
    BY ONLY z = 0, <1>9
  <2> QED
    BY ONLY <2>1, <2>2 DEF Given
<1>11. blocks = F
  <2> PICK L \in Nat : L = Length(n, J)
    BY ONLY <1>9
  <2>1. /\ L = q * R + r /\ B = Padding(R, Tape(n, J)[L], q, r)
        /\ F = BlocksOf(R, Marked(Tape(n, J), B * R - 1), B)
    BY ONLY <1>8, L = Length(n, J)
  <2>2. PadsTo(R, bytes, tail, suffix, n, J, B)
    BY ONLY <1>8, <1>9, <1>10, <2>1, PaddedIs, R \in Nat \ {0}, L = Length(n, J), tail \in Tails,
            suffix \in SUBSET (0..7), suffix # {}, J = JoinSuffix(tail, suffix)
  <2> QED
    BY ONLY <2>1, <2>2, bytes = Data(0, n) /\ rate = 8 * R
                               /\ blocks = PaddedBlocks(rate, bytes, tail, suffix) DEF PadsTo
<1>12. F = [k \in 1..B |-> F[k]] /\ Len(F) = B
  BY ONLY <1>8, B \in Nat \ {0} DEF BlocksOf
<1>13. Perms(F, B, m) = F \o [k \in 1..m |-> {}] /\ Len(Perms(F, B, m)) = B + m
  <2> PICK e : e = [k \in 1..m |-> {}]
    OBVIOUS
  <2>1. Len(e) = m
    BY ONLY e = [k \in 1..m |-> {}], m \in Nat
  <2>2. F \o e = [i \in 1..B + m |-> IF i <= B THEN F[i] ELSE e[i - B]]
    BY ONLY <1>12, <2>1
  <2>3. \A i \in 1..B + m : (IF i <= B THEN F[i] ELSE e[i - B]) = IF i <= B THEN F[i] ELSE {}
    BY ONLY e = [k \in 1..m |-> {}], m \in Nat, B \in Nat \ {0}
  <2>4. F \o e = Perms(F, B, m)
    BY ONLY <2>2, <2>3 DEF Perms
  <2>5. Len(Perms(F, B, m)) = B + m
    BY ONLY PermsGrow, B \in Nat \ {0}, m \in Nat
  <2> QED
    BY ONLY <2>4, <2>5, e = [k \in 1..m |-> {}]
<1>14. B + m - B = m
  OBVIOUS
<1>15. out = SqueezedBytes(rate, B, len)
  <2>1. rate \div 8 = R
    BY ONLY Eighth, R \in Nat \ {0}, bytes = Data(0, n) /\ rate = 8 * R
                               /\ blocks = PaddedBlocks(rate, bytes, tail, suffix)
  <2>2. \A i \in 1..len : 0 + i - 1 = i - 1
    OBVIOUS
  <2> QED
    BY ONLY <1>5, <2>1, <2>2 DEF SqueezedBytes, OutBytes, OutByte
<1> PICK perms : perms = h.sponge.state.perms
  OBVIOUS
<1>16. Len(perms) - Len(blocks) = m
  BY ONLY <1>7, <1>11, <1>12, <1>13, <1>14, perms = h.sponge.state.perms, s = h.sponge /\ len = Len(out)
<1>17. perms = blocks \o [k \in 1..m |-> {}]
  BY ONLY <1>7, <1>11, <1>13, perms = h.sponge.state.perms, s = h.sponge /\ len = Len(out)
<1>18. out = SqueezedBytes(rate, Len(blocks), Len(out))
  BY ONLY <1>11, <1>12, <1>15, s = h.sponge /\ len = Len(out)
<1>19. Len(out) = m * R + at /\ at <= R /\ h.sponge.rate = 8 * R
  BY ONLY <1>6, <1>7, s = h.sponge /\ len = Len(out)
<1>20. IsOutput(R, blocks, h, out, m, at)
  BY ONLY <1>16, <1>17, <1>18, <1>19, perms = h.sponge.state.perms, rate = 8 * R, Zenon DEF IsOutput
<1> QED
  BY ONLY <1>20, m \in Nat, at \in Nat, bytes = Data(0, n) /\ rate = 8 * R
                               /\ blocks = PaddedBlocks(rate, bytes, tail, suffix)

(* HashIsKeccak follows. *)
LEMMA IsKeccak == SpInv => HashIsKeccak
<1> SUFFICES ASSUME SpInv, spPhase = "squeezing"
             PROVE  LET rate   == spHash.sponge.rate
                        blocks == PaddedBlocks(rate, Data(0, spGiven), spTail, spAsked)
                        perms  == spHash.sponge.state.perms
                    IN  /\ perms = blocks \o [k \in 1..Len(perms) - Len(blocks) |-> {}]
                        /\ spOut = SqueezedBytes(rate, Len(blocks), Len(spOut))
  BY DEF HashIsKeccak
<1>1. Squeezing /\ spAsked # {} /\ spGiven \in Nat /\ spTail \in Tails /\ spAsked \in SUBSET (0..7)
  BY DEF SpInv, SpTypes
<1> PICK J : J = JoinSuffix(spTail, spAsked)
  OBVIOUS
<1>2. PICK R \in Nat \ {0} : \E B \in Nat \ {0} : \E F :
        Input(R, spGiven, J, F, B) /\ Gave(R, F, B, spHash, spOut)
  BY ONLY <1>1, J = JoinSuffix(spTail, spAsked) DEF Squeezing
<1>3. PICK B \in Nat \ {0} : \E F : Input(R, spGiven, J, F, B) /\ Gave(R, F, B, spHash, spOut)
  BY ONLY <1>2
<1>4. PICK F : Input(R, spGiven, J, F, B) /\ Gave(R, F, B, spHash, spOut)
  BY ONLY <1>3
<1> PICK rate, blocks, perms : /\ rate = spHash.sponge.rate /\ perms = spHash.sponge.state.perms
                               /\ blocks = PaddedBlocks(8 * R, Data(0, spGiven), spTail, spAsked)
  OBVIOUS
<1>5. \E m \in Nat, at \in Nat : IsOutput(R, blocks, spHash, spOut, m, at)
  BY ONLY <1>1, <1>4, OutputIsKeccak, J = JoinSuffix(spTail, spAsked), R \in Nat \ {0}, B \in Nat \ {0},
          blocks = PaddedBlocks(8 * R, Data(0, spGiven), spTail, spAsked)
<1>6. PICK m \in Nat, at \in Nat : IsOutput(R, blocks, spHash, spOut, m, at)
  BY ONLY <1>5
<1>7. /\ rate = 8 * R /\ perms = blocks \o [k \in 1..m |-> {}] /\ Len(perms) - Len(blocks) = m
      /\ spOut = SqueezedBytes(rate, Len(blocks), Len(spOut))
  BY ONLY <1>6, rate = spHash.sponge.rate, perms = spHash.sponge.state.perms, Zenon DEF IsOutput
<1>8. perms = blocks \o [k \in 1..Len(perms) - Len(blocks) |-> {}]
  BY ONLY <1>7, Zenon
<1> QED
  BY ONLY <1>7, <1>8, rate = spHash.sponge.rate, perms = spHash.sponge.state.perms,
          blocks = PaddedBlocks(8 * R, Data(0, spGiven), spTail, spAsked), Zenon

(* However the input is cut into calls of Keccak_HashUpdate, the permutation  *)
(* has taken each full block of it in order and the sponge holds the rest,    *)
(* for every rate: Keccak_SpongeAbsorb.                                        *)
THEOREM AbsorbsInOrderHolds == SpSpec => []AbsorbsInOrder
BY SpongeInvariant, InOrder, PTL

(* What comes out is Keccak of the padded input, for every rate, suffix and   *)
(* length of the input in bits, in any number of calls of Keccak_HashSqueeze:  *)
(* the partial byte, the suffix, the padding, the last block of its own, and   *)
(* the order of the output.                                                   *)
THEOREM HashIsKeccakHolds == SpSpec => []HashIsKeccak
BY SpongeInvariant, IsKeccak, PTL

-----------------------------------------------------------------------------
(* The words of the permutation.                                           *)
States25 == [0..24 -> Word64]

(* The five lanes of a column, counted at one bit.                         *)
One(p) == IF p THEN 1 ELSE 0

(* Its cardinality, member by member.                                      *)
LEMMA CountFive ==
  ASSUME NEW S \in SUBSET (0..4)
  PROVE  Cardinality(S) = One(0 \in S) + One(1 \in S) + One(2 \in S) + One(3 \in S) + One(4 \in S)
<1> DEFINE U(k) == {i \in 0..k - 1 : i \in S}
<1>0. \A i \in S : i \in 0..4
  OBVIOUS
<1>1. ASSUME NEW k \in 0..4, IsFiniteSet(U(k)), Cardinality(U(k)) \in Nat
      PROVE  /\ IsFiniteSet(U(k + 1)) /\ Cardinality(U(k + 1)) \in Nat
             /\ Cardinality(U(k + 1)) = Cardinality(U(k)) + One(k \in S)
  <2>1. CASE k \in S
    <3>1. U(k + 1) = U(k) \cup {k} /\ k \notin U(k)
      BY <1>0, <2>1
    <3> HIDE DEF U
    <3> QED
      BY <1>1, <2>1, <3>1, FS_AddElement DEF One
  <2>2. CASE k \notin S
    <3>1. U(k + 1) = U(k)
      BY <1>0, <2>2
    <3> HIDE DEF U
    <3> QED
      BY <1>1, <2>2, <3>1 DEF One
  <2> QED
    BY <2>1, <2>2
<1>2. IsFiniteSet(U(0)) /\ Cardinality(U(0)) = 0
  <2>1. U(0) = {}
    BY <1>0
  <2> QED
    BY <2>1, FS_EmptySet
<1>3. U(5) = S
  <2>1. 5 - 1 = 4
    OBVIOUS
  <2>2. \A i : i \in U(5) <=> i \in S
    BY <1>0, <2>1
  <2> QED
    BY <2>2
<1> HIDE DEF U
<1>4. /\ IsFiniteSet(U(1)) /\ Cardinality(U(1)) \in Nat
      /\ Cardinality(U(1)) = Cardinality(U(0)) + One(0 \in S)
  <2>1. 0 \in 0..4 /\ 0 + 1 = 1 /\ 0 \in Nat
    OBVIOUS
  <2> QED
    BY <1>1, <1>2, <2>1
<1>5. /\ IsFiniteSet(U(2)) /\ Cardinality(U(2)) \in Nat
      /\ Cardinality(U(2)) = Cardinality(U(1)) + One(1 \in S)
  <2>1. 1 \in 0..4 /\ 1 + 1 = 2
    OBVIOUS
  <2> QED
    BY <1>1, <1>4, <2>1
<1>6. /\ IsFiniteSet(U(3)) /\ Cardinality(U(3)) \in Nat
      /\ Cardinality(U(3)) = Cardinality(U(2)) + One(2 \in S)
  <2>1. 2 \in 0..4 /\ 2 + 1 = 3
    OBVIOUS
  <2> QED
    BY <1>1, <1>5, <2>1
<1>7. /\ IsFiniteSet(U(4)) /\ Cardinality(U(4)) \in Nat
      /\ Cardinality(U(4)) = Cardinality(U(3)) + One(3 \in S)
  <2>1. 3 \in 0..4 /\ 3 + 1 = 4
    OBVIOUS
  <2> QED
    BY <1>1, <1>6, <2>1
<1>8. Cardinality(U(5)) = Cardinality(U(4)) + One(4 \in S)
  <2>1. 4 \in 0..4 /\ 4 + 1 = 5
    OBVIOUS
  <2> QED
    BY <1>1, <1>7, <2>1
<1> QED
  BY <1>2, <1>3, <1>4, <1>5, <1>6, <1>7, <1>8 DEF One

(* Whether a bit is in an exclusive or of five is the parity of its count. *)
Xor5(a, b, c, d, e) == Xor64(Xor64(Xor64(Xor64(a, b), c), d), e)

(* The parity, bit by bit.                                                 *)
LEMMA InXor5 ==
  ASSUME NEW a, NEW b, NEW c, NEW d, NEW e, NEW z
  PROVE  z \in Xor5(a, b, c, d, e) <=>
           (One(z \in a) + One(z \in b) + One(z \in c) + One(z \in d) + One(z \in e)) % 2 = 1
<1>1. \A x, y : One(z \in Xor64(x, y)) = (One(z \in x) + One(z \in y)) % 2
  <2>1. ASSUME NEW x, NEW y PROVE One(z \in Xor64(x, y)) = (One(z \in x) + One(z \in y)) % 2
    <3>1. z \in Xor64(x, y) <=> (z \in x /\ z \notin y) \/ (z \in y /\ z \notin x)
      BY InXor
    <3>2. CASE z \in x /\ z \in y
      BY <3>1, <3>2 DEF One
    <3>3. CASE z \in x /\ z \notin y
      BY <3>1, <3>3 DEF One
    <3>4. CASE z \notin x /\ z \in y
      BY <3>1, <3>4 DEF One
    <3>5. CASE z \notin x /\ z \notin y
      BY <3>1, <3>5 DEF One
    <3> QED
      BY <3>2, <3>3, <3>4, <3>5
  <2> QED
    BY <2>1
<1>2. PICK p \in 0..1, q \in 0..1, r \in 0..1, s \in 0..1, t \in 0..1 :
        p = One(z \in a) /\ q = One(z \in b) /\ r = One(z \in c) /\ s = One(z \in d) /\ t = One(z \in e)
  BY DEF One
<1>3. One(z \in Xor5(a, b, c, d, e)) = (((((((p + q) % 2) + r) % 2) + s) % 2) + t) % 2
  <2>1. PICK f : f = Xor64(a, b)
    OBVIOUS
  <2>2. PICK g : g = Xor64(f, c)
    OBVIOUS
  <2>3. PICK h : h = Xor64(g, d)
    OBVIOUS
  <2>4. /\ One(z \in f) = (p + q) % 2
        /\ One(z \in g) = (One(z \in f) + r) % 2
        /\ One(z \in h) = (One(z \in g) + s) % 2
        /\ One(z \in Xor64(h, e)) = (One(z \in h) + t) % 2
    BY <1>1, <1>2, <2>1, <2>2, <2>3
  <2>5. Xor5(a, b, c, d, e) = Xor64(h, e)
    BY <2>1, <2>2, <2>3 DEF Xor5
  <2> QED
    BY <2>4, <2>5
<1>4. (((((((p + q) % 2) + r) % 2) + s) % 2) + t) % 2 = (p + q + r + s + t) % 2
  OBVIOUS
<1>5. z \in Xor5(a, b, c, d, e) <=> One(z \in Xor5(a, b, c, d, e)) = 1
  BY DEF One
<1> QED
  BY <1>2, <1>3, <1>4, <1>5

(* So the columns of the code are those of the definition.                 *)
LEMMA ColumnIs ==
  ASSUME NEW st \in States25, NEW x \in 0..4
  PROVE  /\ Xor5(st[x], st[5 + x], st[10 + x], st[15 + x], st[20 + x])
              = {z \in 0..63 : Cardinality({y \in 0..4 : z \in st[(x % 5) + 5 * y]}) % 2 = 1}
         /\ Xor5(st[x], st[5 + x], st[10 + x], st[15 + x], st[20 + x]) \in Word64
<1>1. /\ st[x] \in Word64 /\ st[5 + x] \in Word64 /\ st[10 + x] \in Word64
      /\ st[15 + x] \in Word64 /\ st[20 + x] \in Word64
  <2>1. x \in 0..24 /\ 5 + x \in 0..24 /\ 10 + x \in 0..24 /\ 15 + x \in 0..24 /\ 20 + x \in 0..24
    OBVIOUS
  <2> QED
    BY <2>1 DEF States25
<1>2. PICK w : w = Xor5(st[x], st[5 + x], st[10 + x], st[15 + x], st[20 + x])
  OBVIOUS
<1>3. w \in Word64
  <2>1. \A a \in Word64, b \in Word64 : Xor64(a, b) \in Word64
    <3>1. 0 \in Nat
      OBVIOUS
    <3> QED
      BY <3>1, WordsStay
  <2> QED
    BY <1>1, <1>2, <2>1, Zenon DEF Xor5
<1>4. ASSUME NEW z
      PROVE  z \in w <=> Cardinality({y \in 0..4 : z \in st[(x % 5) + 5 * y]}) % 2 = 1
  <2>1. PICK S \in SUBSET (0..4) : S = {y \in 0..4 : z \in st[(x % 5) + 5 * y]}
    OBVIOUS
  <2>2. /\ 0 \in S <=> z \in st[x]
        /\ 1 \in S <=> z \in st[5 + x]
        /\ 2 \in S <=> z \in st[10 + x]
        /\ 3 \in S <=> z \in st[15 + x]
        /\ 4 \in S <=> z \in st[20 + x]
    <3>1. /\ (x % 5) + 5 * 0 = x /\ (x % 5) + 5 * 1 = 5 + x /\ (x % 5) + 5 * 2 = 10 + x
          /\ (x % 5) + 5 * 3 = 15 + x /\ (x % 5) + 5 * 4 = 20 + x
      OBVIOUS
    <3>2. \A y \in 0..4 : y \in S <=> z \in st[(x % 5) + 5 * y]
      BY <2>1
    <3>3. 0 \in 0..4 /\ 1 \in 0..4 /\ 2 \in 0..4 /\ 3 \in 0..4 /\ 4 \in 0..4
      OBVIOUS
    <3> QED
      BY <3>1, <3>2, <3>3, Zenon
  <2>3. /\ One(0 \in S) = One(z \in st[x]) /\ One(1 \in S) = One(z \in st[5 + x])
        /\ One(2 \in S) = One(z \in st[10 + x]) /\ One(3 \in S) = One(z \in st[15 + x])
        /\ One(4 \in S) = One(z \in st[20 + x])
    BY <2>2, Zenon DEF One
  <2>4. Cardinality(S) = One(z \in st[x]) + One(z \in st[5 + x]) + One(z \in st[10 + x])
                           + One(z \in st[15 + x]) + One(z \in st[20 + x])
    BY <2>3, CountFive
  <2> QED
    BY <1>2, <2>1, <2>4, InXor5
<1> QED
  BY <1>2, <1>3, <1>4 DEF Word64

(* Theta is the theta of the definition.                                   *)
Parities(st) == [x \in 0..4 |-> {z \in 0..63 :
                   Cardinality({y \in 0..4 : z \in st[(x % 5) + 5 * y]}) % 2 = 1}]
Beside(C, x) == Xor64(C[(x + 4) % 5], RotL64(C[(x + 1) % 5], 1))

(* A lane takes what is beside its column.                                 *)
LEMMA ThetaIs ==
  ASSUME NEW st \in States25
  PROVE  /\ Theta(st) \in States25
         /\ \A i \in 0..24 : Theta(st)[i] = Xor64(st[i], Beside(Parities(st), i % 5))
<1> DEFINE BC == [x \in 0..4 |-> Xor5(st[x], st[5 + x], st[10 + x], st[15 + x], st[20 + x])]
           temp == [x \in 0..4 |-> Beside(BC, x)]
<1>1. BC = Parities(st) /\ BC \in [0..4 -> Word64]
  BY ColumnIs DEF Parities
<1>2. Theta(st) = [i \in 0..24 |-> Xor64(st[i], temp[i % 5])]
  BY Zenon DEF Theta, Xor5, Beside
<1> HIDE DEF BC
<1>3. ASSUME NEW i \in 0..24
      PROVE  /\ Xor64(st[i], temp[i % 5]) = Xor64(st[i], Beside(BC, i % 5))
             /\ Xor64(st[i], temp[i % 5]) \in Word64
  <2>1. PICK x \in 0..4 : x = i % 5
    OBVIOUS
  <2>2. temp[x] = Beside(BC, x)
    OBVIOUS
  <2>3. Beside(BC, x) \in Word64
    <3>1. (x + 4) % 5 \in 0..4 /\ (x + 1) % 5 \in 0..4 /\ 1 \in Nat
      OBVIOUS
    <3>2. PICK a \in Word64, b \in Word64 : a = BC[(x + 4) % 5] /\ b = BC[(x + 1) % 5]
      BY <1>1, <3>1
    <3>3. RotL64(b, 1) \in Word64
      BY <3>1, WordsStay
    <3>4. Xor64(a, RotL64(b, 1)) \in Word64
      BY <3>1, <3>3, WordsStay
    <3> QED
      BY <3>2, <3>4 DEF Beside
  <2>4. st[i] \in Word64
    BY DEF States25
  <2>5. Xor64(st[i], Beside(BC, x)) \in Word64
    <3>1. 0 \in Nat
      OBVIOUS
    <3> QED
      BY <2>3, <2>4, <3>1, WordsStay
  <2> QED
    BY <2>1, <2>2, <2>5
<1> HIDE DEF temp
<1> QED
  BY <1>1, <1>2, <1>3 DEF States25

-----------------------------------------------------------------------------
(* The walk over the lanes.                                                *)

(* The lane a turn of the walk moves, and where the lanes are in the walk. *)
From(x) == IF x = 1 THEN 1 ELSE KeccakF_PiLane[x - 1]
TurnOf ==
  << 24, 18, 6, 12, 7, 23, 2, 9, 22, 1, 3, 17, 16, 20, 13, 8, 4, 5, 15, 19, 10, 21, 14, 11 >>

(* The tables are of lanes and of turns.                                   *)
LEMMA TableTypes ==
  /\ \A x \in 1..24 : KeccakF_PiLane[x] \in 1..24 /\ KeccakF_RotationConstants[x] \in 0..63
  /\ \A x \in 1..24 : From(x) \in 1..24
<1>1. \A x \in 1..24 : KeccakF_PiLane[x] \in 1..24
  BY DEF KeccakF_PiLane
<1>2. \A x \in 1..24 : KeccakF_RotationConstants[x] \in 0..63
  BY DEF KeccakF_RotationConstants
<1>3. ASSUME NEW x \in 1..24 PROVE From(x) \in 1..24
  <2>1. CASE x = 1
    BY <2>1 DEF From
  <2>2. CASE x # 1
    <3>1. x - 1 \in 1..24
      BY <2>2
    <3> QED
      BY <1>1, <2>2, <3>1 DEF From
  <2> QED
    BY <2>1, <2>2
<1> QED
  BY <1>1, <1>2, <1>3

(* The walk comes through every lane but the first, once.                  *)
LEMMA TurnOfIs ==
  /\ \A x \in 1..24 : TurnOf[KeccakF_PiLane[x]] = x
  /\ \A i \in 1..24 : TurnOf[i] \in 1..24 /\ KeccakF_PiLane[TurnOf[i]] = i
<1>1. \A x \in 1..24 : TurnOf[KeccakF_PiLane[x]] = x
  BY DEF KeccakF_PiLane, TurnOf
<1>2. \A i \in 1..24 : TurnOf[i] \in 1..24
  BY DEF TurnOf
<1>3. \A i \in 1..24 : KeccakF_PiLane[TurnOf[i]] = i
  BY DEF KeccakF_PiLane, TurnOf
<1> QED
  BY <1>1, <1>2, <1>3

(* One turn of the walk.                                                   *)
Walks == [state : States25, temp : Word64]
OneTurn(a, x) ==
  [state |-> [a.state EXCEPT ![KeccakF_PiLane[x]] = RotL64(a.temp, KeccakF_RotationConstants[x])],
   temp  |-> a.state[KeccakF_PiLane[x]]]

(* After x turns, x lanes are where the next ones were, turned; the lane   *)
(* that the last one was put over is in temp; the others are untouched.    *)
Walked(a, st, x) ==
  /\ a.temp = st[From(x + 1)]
  /\ \A y \in 1..x : a.state[KeccakF_PiLane[y]] = RotL64(st[From(y)], KeccakF_RotationConstants[y])
  /\ \A y \in x + 1..24 : a.state[KeccakF_PiLane[y]] = st[KeccakF_PiLane[y]]
  /\ a.state[0] = st[0]

(* One more.                                                               *)
LEMMA OneTurnIs ==
  ASSUME NEW st \in States25, NEW a \in Walks, NEW x \in 1..24
  PROVE  OneTurn(a, x) \in Walks /\ (Walked(a, st, x - 1) => Walked(OneTurn(a, x), st, x))
<1>1. PICK p \in 1..24, r \in 0..63 : p = KeccakF_PiLane[x] /\ r = KeccakF_RotationConstants[x]
  BY TableTypes
<1>2. PICK s \in States25, t \in Word64 : s = a.state /\ t = a.temp
  BY DEF Walks
<1>3. PICK b : b = OneTurn(a, x)
  OBVIOUS
<1>4. PICK w \in Word64 : w = RotL64(t, r)
  <2>1. r \in Nat
    OBVIOUS
  <2> QED
    BY <2>1, WordsStay
<1>5. b = [state |-> [s EXCEPT ![p] = w], temp |-> s[p]]
  BY <1>1, <1>2, <1>3, <1>4 DEF OneTurn
<1>6. PICK u \in States25 : u = [s EXCEPT ![p] = w] /\ u[p] = w /\ \A i \in 0..24 : i # p => u[i] = s[i]
  <2>1. p \in 0..24 /\ s \in [0..24 -> Word64]
    BY DEF States25
  <2>2. PICK u : u = [s EXCEPT ![p] = w]
    OBVIOUS
  <2>3. u \in [0..24 -> Word64] /\ u[p] = w /\ \A i \in 0..24 : i # p => u[i] = s[i]
    BY <2>1, <2>2
  <2> QED
    BY <2>2, <2>3 DEF States25
<1>7. b.state = u /\ b.temp = s[p] /\ b \in Walks
  <2>1. s[p] \in Word64
    <3>1. p \in 0..24
      OBVIOUS
    <3> QED
      BY <3>1 DEF States25
  <2> QED
    BY <1>5, <1>6, <2>1 DEF Walks
<1>8. ASSUME Walked(a, st, x - 1) PROVE Walked(b, st, x)
  <2>1. /\ t = st[From(x)]
        /\ \A y \in 1..x - 1 : s[KeccakF_PiLane[y]] = RotL64(st[From(y)], KeccakF_RotationConstants[y])
        /\ \A y \in x..24 : s[KeccakF_PiLane[y]] = st[KeccakF_PiLane[y]]
        /\ s[0] = st[0]
    <3>1. (x - 1) + 1 = x
      OBVIOUS
    <3> QED
      BY <1>2, <1>8, <3>1 DEF Walked
  <2>2. \A y \in 1..24 : y # x => KeccakF_PiLane[y] # p /\ KeccakF_PiLane[y] \in 0..24
    <3>1. ASSUME NEW y \in 1..24, KeccakF_PiLane[y] = p PROVE y = x
      <4>1. TurnOf[KeccakF_PiLane[y]] = y /\ TurnOf[KeccakF_PiLane[x]] = x
        BY TurnOfIs
      <4> QED
        BY <1>1, <3>1, <4>1
    <3> QED
      BY <3>1, TableTypes
  <2>3. ASSUME NEW y \in 1..x
        PROVE  u[KeccakF_PiLane[y]] = RotL64(st[From(y)], KeccakF_RotationConstants[y])
    <3>1. CASE y = x
      BY <1>1, <1>4, <1>6, <2>1, <3>1
    <3>2. CASE y # x
      <4>1. y \in 1..24 /\ y \in 1..x - 1
        BY <3>2
      <4> QED
        BY <1>6, <2>1, <2>2, <3>2, <4>1
    <3> QED
      BY <3>1, <3>2
  <2>4. ASSUME NEW y \in x + 1..24 PROVE u[KeccakF_PiLane[y]] = st[KeccakF_PiLane[y]]
    <3>1. y \in 1..24 /\ y \in x..24 /\ y # x
      OBVIOUS
    <3> QED
      BY <1>6, <2>1, <2>2, <3>1
  <2>5. u[0] = st[0]
    <3>1. 0 \in 0..24 /\ 0 # p
      OBVIOUS
    <3> QED
      BY <1>6, <2>1, <3>1
  <2>6. s[p] = st[From(x + 1)]
    <3>1. x \in x..24 /\ x + 1 # 1 /\ (x + 1) - 1 = x
      OBVIOUS
    <3>2. From(x + 1) = p
      BY <1>1, <3>1 DEF From
    <3> QED
      BY <1>1, <2>1, <3>1, <3>2
  <2> QED
    BY <1>7, <2>3, <2>4, <2>5, <2>6 DEF Walked
<1> QED
  BY <1>3, <1>7, <1>8

(* The whole walk: every lane where the next one was, turned by its number *)
(* of bits, and the first lane where it is.                                *)
LEMMA RhoPiIs ==
  ASSUME NEW st \in States25
  PROVE  /\ RhoPi(st) \in States25 /\ RhoPi(st)[0] = st[0]
         /\ \A x \in 1..24 : RhoPi(st)[KeccakF_PiLane[x]]
                               = RotL64(st[From(x)], KeccakF_RotationConstants[x])
<1> DEFINE b == [state |-> st, temp |-> st[1]]
           F == CHOOSE f : f = [x \in 0..24 |-> IF x = 0 THEN b ELSE OneTurn(f[x - 1], x)]
           step == [x \in Nat |-> [a \in Walks |-> IF x \in 1..24 THEN OneTurn(a, x) ELSE a]]
<1>1. RhoPi(st) = F[24].state
  BY DEF RhoPi, OneTurn
<1>2. b \in Walks
  <2>1. st[1] \in Word64
    BY DEF States25
  <2> QED
    BY <2>1 DEF Walks
<1>3. step \in [Nat -> [Walks -> Walks]]
  <2>1. ASSUME NEW x \in Nat, NEW a \in Walks
        PROVE  (IF x \in 1..24 THEN OneTurn(a, x) ELSE a) \in Walks
    BY OneTurnIs
  <2> QED
    BY <2>1
<1>4. \A x \in 1..24, a \in Walks : x \in Nat /\ step[x][a] = OneTurn(a, x)
  OBVIOUS
<1>5. b.state = st /\ b.temp = st[1]
  OBVIOUS
<1> HIDE DEF step, b
<1>6. PICK f : Iterates(f, Walks, b, step, 24)
  <2>1. 24 \in Nat
    OBVIOUS
  <2> QED
    BY <1>2, <1>3, <2>1, RecursionUpTo
<1>7. f \in [0..24 -> Walks] /\ f[0] = b /\ \A x \in 1..24 : f[x] = OneTurn(f[x - 1], x)
  <2>1. f \in [0..24 -> Walks] /\ f[0] = b /\ \A x \in 1..24 : f[x] = step[x][f[x - 1]]
    BY <1>6 DEF Iterates
  <2>2. \A x \in 1..24 : f[x - 1] \in Walks
    <3>1. \A x \in 1..24 : x - 1 \in 0..24
      OBVIOUS
    <3> QED
      BY <2>1, <3>1
  <2> QED
    BY <1>4, <2>1, <2>2
<1>8. f = [x \in 0..24 |-> IF x = 0 THEN b ELSE OneTurn(f[x - 1], x)]
  BY <1>7
<1>9. F = [x \in 0..24 |-> IF x = 0 THEN b ELSE OneTurn(F[x - 1], x)]
  BY <1>8
<1> HIDE DEF F
<1>10. F = [x \in 0..24 |-> F[x]] /\ F[0] = b /\ \A x \in 1..24 : F[x] = OneTurn(F[x - 1], x)
  <2>1. ASSUME NEW x \in 1..24 PROVE F[x] = OneTurn(F[x - 1], x)
    <3>1. x \in 0..24 /\ x # 0
      OBVIOUS
    <3> QED
      BY <1>9, <3>1
  <2> QED
    BY <1>9, <2>1
<1>11. F \in [0..24 -> Walks]
  <2>1. Takes(F, Walks, b, step, 24)
    BY <1>4, <1>10 DEF Takes
  <2>2. 24 \in Nat
    OBVIOUS
  <2> QED
    BY <1>2, <1>3, <2>1, <2>2, StepsAre DEF Iterates
<1> DEFINE P == {x \in 0..24 : Walked(F[x], st, x)}
<1>12. P = 0..24
  <2>1. 0 \in P
    <3>1. From(0 + 1) = 1
      BY DEF From
    <3>2. Walked(F[0], st, 0)
      BY <1>5, <1>10, <3>1, TurnOfIs, TableTypes DEF Walked
    <3> QED
      BY <3>2
  <2>2. ASSUME NEW x \in 1..24, x - 1 \in P PROVE x \in P
    <3>1. PICK a \in Walks : a = F[x - 1]
      <4>1. x - 1 \in 0..24
        OBVIOUS
      <4> QED
        BY <1>11, <4>1
    <3>2. Walked(OneTurn(a, x), st, x)
      BY <2>2, <3>1, OneTurnIs
    <3>3. F[x] = OneTurn(a, x)
      BY <1>10, <3>1
    <3> QED
      BY <3>2, <3>3
  <2>3. P \in SUBSET (0..24) /\ 24 \in Nat
    OBVIOUS
  <2> HIDE DEF P
  <2> QED
    BY <2>1, <2>2, <2>3, InductUpTo
<1>13. Walked(F[24], st, 24) /\ F[24] \in Walks
  BY <1>11, <1>12
<1> QED
  BY <1>1, <1>13 DEF Walked, Walks

-----------------------------------------------------------------------------
(* The coordinates.                                                        *)

(* Each lane of the walk is where the definition moves the one before, and *)
(* is turned by the triangular number of its place.                        *)
LEMMA WalkMoves ==
  \A x \in 1..24 : /\ KeccakF_PiLane[x] % 5 = From(x) \div 5
                   /\ KeccakF_PiLane[x] \div 5 = (2 * (From(x) % 5) + 3 * (From(x) \div 5)) % 5
<1>1. \A x \in 2..24 :
        /\ KeccakF_PiLane[x] % 5 = KeccakF_PiLane[x - 1] \div 5
        /\ KeccakF_PiLane[x] \div 5
             = (2 * (KeccakF_PiLane[x - 1] % 5) + 3 * (KeccakF_PiLane[x - 1] \div 5)) % 5
  BY DEF KeccakF_PiLane
<1>2. KeccakF_PiLane[1] = 10
  BY DEF KeccakF_PiLane
<1>3. ASSUME NEW x \in 1..24
      PROVE  /\ KeccakF_PiLane[x] % 5 = From(x) \div 5
             /\ KeccakF_PiLane[x] \div 5 = (2 * (From(x) % 5) + 3 * (From(x) \div 5)) % 5
  <2>1. CASE x = 1
    BY <1>2, <2>1 DEF From
  <2>2. CASE x # 1
    <3>1. x \in 2..24
      BY <2>2
    <3> QED
      BY <1>1, <2>2, <3>1 DEF From
  <2> QED
    BY <2>1, <2>2
<1> QED
  BY <1>3

(* The rotations.                                                          *)
LEMMA RotationsAre ==
  \A x \in 1..24 : KeccakF_RotationConstants[x] = ((x * (x + 1)) \div 2) % 64
BY DEF KeccakF_RotationConstants

(* No lane comes twice.                                                    *)
LEMMA FromOnce ==
  ASSUME NEW x \in 1..24, NEW y \in 1..24, From(x) = From(y)
  PROVE  x = y
<1>1. \A z \in 1..24 : TurnOf[From(z)] = IF z = 1 THEN 24 ELSE z - 1
  <2>1. ASSUME NEW z \in 1..24 PROVE TurnOf[From(z)] = IF z = 1 THEN 24 ELSE z - 1
    <3>1. CASE z = 1
      <4>1. TurnOf[1] = 24
        BY DEF TurnOf
      <4> QED
        BY <3>1, <4>1 DEF From
    <3>2. CASE z # 1
      <4>1. z - 1 \in 1..24
        BY <3>2
      <4> QED
        BY <3>2, <4>1, TurnOfIs DEF From
    <3> QED
      BY <3>1, <3>2
  <2> QED
    BY <2>1
<1> QED
  BY <1>1

(* LaneAt is the walk in coordinates.                                      *)
LEMMA LaneAtIs ==
  \A t \in 0..23 : LaneAt[t] = <<From(t + 1) % 5, From(t + 1) \div 5>>
<1> DEFINE f == [t \in 0..23 |-> <<From(t + 1) % 5, From(t + 1) \div 5>>]
<1>1. ASSUME NEW t \in 0..23
      PROVE  f[t] = IF t = 0 THEN <<1, 0>> ELSE <<f[t - 1][2], (2 * f[t - 1][1] + 3 * f[t - 1][2]) % 5>>
  <2>1. CASE t = 0
    <3>1. From(0 + 1) = 1 /\ 1 % 5 = 1 /\ 1 \div 5 = 0
      BY DEF From
    <3> QED
      BY <2>1, <3>1
  <2>2. CASE t # 0
    <3>1. t \in 1..24 /\ t - 1 \in 0..23 /\ (t - 1) + 1 = t /\ t + 1 # 1 /\ (t + 1) - 1 = t
      BY <2>2
    <3>2. From(t + 1) = KeccakF_PiLane[t]
      BY <3>1 DEF From
    <3>3. f[t - 1] = <<From(t) % 5, From(t) \div 5>>
      BY <3>1
    <3>4. f[t] = <<KeccakF_PiLane[t] % 5, KeccakF_PiLane[t] \div 5>>
      BY <3>2
    <3> QED
      BY <2>2, <3>1, <3>3, <3>4, WalkMoves
  <2> QED
    BY <2>1, <2>2
<1>2. f = [t \in 0..23 |->
             IF t = 0 THEN <<1, 0>> ELSE <<f[t - 1][2], (2 * f[t - 1][1] + 3 * f[t - 1][2]) % 5>>]
  BY <1>1
<1>3. LaneAt = [t \in 0..23 |-> IF t = 0 THEN <<1, 0>>
                ELSE <<LaneAt[t - 1][2], (2 * LaneAt[t - 1][1] + 3 * LaneAt[t - 1][2]) % 5>>]
  <2> HIDE DEF f
  <2> QED
    BY <1>2 DEF LaneAt
<1> DEFINE P == {t \in 0..23 : LaneAt[t] = f[t]}
<1>4. P = 0..23
  <2>1. 0 \in P
    <3>1. 0 \in 0..23
      OBVIOUS
    <3> QED
      BY <1>1, <1>3, <3>1
  <2>2. ASSUME NEW t \in 1..23, t - 1 \in P PROVE t \in P
    <3> HIDE DEF f
    <3>1. t \in 0..23 /\ t # 0 /\ LaneAt[t - 1] = f[t - 1]
      BY <2>2
    <3> QED
      BY <1>1, <1>3, <3>1
  <2>3. P \in SUBSET (0..23) /\ 23 \in Nat
    OBVIOUS
  <2> HIDE DEF P
  <2> QED
    BY <2>1, <2>2, <2>3, InductUpTo
<1> QED
  BY <1>4

(* Offset is the table of rotations.                                       *)
LEMMA OffsetIs ==
  /\ \A x \in 1..24 : Offset(From(x) % 5, From(x) \div 5) = KeccakF_RotationConstants[x]
  /\ Offset(0, 0) = 0
<1>1. ASSUME NEW x \in 1..24
      PROVE  Offset(From(x) % 5, From(x) \div 5) = KeccakF_RotationConstants[x]
  <2>1. PICK f \in 1..24 : f = From(x)
    BY TableTypes
  <2>2. PICK X \in 0..4, Y \in 0..4 : X = f % 5 /\ Y = f \div 5 /\ f = X + 5 * Y
    OBVIOUS
  <2>3. ~(X = 0 /\ Y = 0)
    BY <2>2
  <2>4. PICK t \in 0..23 : t = x - 1 /\ t + 1 = x
    OBVIOUS
  <2>5. LaneAt[t] = <<X, Y>>
    BY <2>1, <2>2, <2>4, LaneAtIs
  <2>6. ASSUME NEW u \in 0..23, LaneAt[u] = <<X, Y>> PROVE u = t
    <3>1. PICK y \in 1..24 : y = u + 1
      OBVIOUS
    <3>2. From(y) % 5 = X /\ From(y) \div 5 = Y
      BY <2>6, <3>1, LaneAtIs
    <3>3. From(y) \in 1..24
      BY TableTypes
    <3>4. From(y) = f
      BY <2>2, <3>2, <3>3
    <3>5. y = x
      BY <2>1, <3>4, FromOnce
    <3> QED
      BY <2>4, <3>1, <3>5
  <2>7. (CHOOSE u \in 0..23 : LaneAt[u] = <<X, Y>>) = t
    BY <2>5, <2>6
  <2>8. Offset(X, Y) = (((t + 1) * (t + 2)) \div 2) % 64
    BY <2>3, <2>7 DEF Offset
  <2>9. t + 2 = x + 1
    BY <2>4
  <2> QED
    BY <2>1, <2>2, <2>4, <2>8, <2>9, RotationsAre
<1>2. Offset(0, 0) = 0
  BY DEF Offset
<1> QED
  BY <1>1, <1>2

-----------------------------------------------------------------------------
(* A round.                                                                *)

(* The lanes of the definition after theta and the turning, and after they *)
(* have been put in their places.                                          *)
Places5 == (0..4) \X (0..4)
MovedLanes(st) ==
  [p \in Places5 |-> RotL64(Xor64(st[(p[1] % 5) + 5 * p[2]], Beside(Parities(st), p[1])),
                            Offset(p[1], p[2]))]
PlacedLanes(st) ==
  [q \in Places5 |-> MovedLanes(st)[CHOOSE p \in Places5 : q = <<p[2], (2 * p[1] + 3 * p[2]) % 5>>]]

(* A lane in its place is the one that is moved there.                     *)
Leads(f, x, y, X, Y) ==
  /\ x \in 0..4 /\ y \in 0..4 /\ f = x + 5 * y
  /\ X = y /\ Y = (2 * x + 3 * y) % 5

Led(st, f, x, y, X, Y) ==
  PlacedLanes(st)[<<X, Y>>] = RotL64(Xor64(st[f], Beside(Parities(st), x)), Offset(x, y))

(* The lanes in their places.                                              *)
LEMMA PlacedIs ==
  ASSUME NEW st, NEW f, NEW x, NEW y, NEW X, NEW Y, Leads(f, x, y, X, Y)
  PROVE  Led(st, f, x, y, X, Y)
<1>0. /\ x \in 0..4 /\ y \in 0..4 /\ f = x + 5 * y
      /\ X \in 0..4 /\ Y \in 0..4 /\ X = y /\ Y = (2 * x + 3 * y) % 5
  BY DEF Leads
<1>1. <<x, y>> \in Places5 /\ <<X, Y>> \in Places5
  BY <1>0 DEF Places5
<1>2. ASSUME NEW p \in Places5, <<X, Y>> = <<p[2], (2 * p[1] + 3 * p[2]) % 5>>
      PROVE  p = <<x, y>>
  <2>1. PICK u \in 0..4, v \in 0..4 : p = <<u, v>>
    BY DEF Places5
  <2>2. v = y /\ (2 * u + 3 * v) % 5 = (2 * x + 3 * y) % 5
    BY <1>0, <1>2, <2>1
  <2>3. u = x
    BY <1>0, <2>2
  <2> QED
    BY <2>1, <2>2, <2>3
<1>3. (CHOOSE p \in Places5 : <<X, Y>> = <<p[2], (2 * p[1] + 3 * p[2]) % 5>>) = <<x, y>>
  BY <1>0, <1>1, <1>2
<1>4. PlacedLanes(st)[<<X, Y>>] = MovedLanes(st)[<<x, y>>]
  BY <1>1, <1>3 DEF PlacedLanes
<1>5. MovedLanes(st)[<<x, y>>]
        = RotL64(Xor64(st[(x % 5) + 5 * y], Beside(Parities(st), x)), Offset(x, y))
  BY <1>1 DEF MovedLanes
<1>6. x % 5 = x
  BY <1>0
<1> QED
  BY <1>0, <1>4, <1>5, <1>6 DEF Led

(* A word turned by no bits is the word.                                   *)
LEMMA NoTurn ==
  ASSUME NEW w \in Word64
  PROVE  RotL64(w, 0) = w
<1>1. \A b \in w : (b + 0) % 64 = b
  BY DEF Word64
<1> QED
  BY <1>1 DEF RotL64

(* What the code has in its array is in place.                             *)
LEMMA PlacedByWalk ==
  ASSUME NEW st \in States25, NEW i \in 0..24
  PROVE  PlacedLanes(st)[<<i % 5, i \div 5>>] = RhoPi(Theta(st))[i]
<1>1. PICK X \in 0..4, Y \in 0..4 : X = i % 5 /\ Y = i \div 5
  OBVIOUS
<1>2. Theta(st) \in States25 /\ \A j \in 0..24 : Theta(st)[j] = Xor64(st[j], Beside(Parities(st), j % 5))
  BY ThetaIs
<1>3. CASE i = 0
  <2>1. X = 0 /\ Y = 0 /\ 0 = (2 * 0 + 3 * 0) % 5 /\ 0 + 5 * 0 = 0 /\ 0 % 5 = 0 /\ 0 \in 0..4 /\ 0 \in 0..24
    BY <1>1, <1>3
  <2>2. PlacedLanes(st)[<<X, Y>>] = RotL64(Xor64(st[0], Beside(Parities(st), 0)), Offset(0, 0))
    <3>1. Leads(0, 0, 0, 0, 0)
      BY <2>1 DEF Leads
    <3> QED
      BY <2>1, <3>1, PlacedIs DEF Led
  <2>3. PlacedLanes(st)[<<X, Y>>] = RotL64(Theta(st)[0], 0)
    BY <1>2, <2>1, <2>2, OffsetIs
  <2>4. RotL64(Theta(st)[0], 0) = Theta(st)[0]
    <3>1. Theta(st)[0] \in Word64
      BY <1>2, <2>1 DEF States25
    <3> QED
      BY <3>1, NoTurn
  <2>5. RhoPi(Theta(st))[0] = Theta(st)[0]
    BY <1>2, RhoPiIs
  <2> QED
    BY <1>1, <1>3, <2>3, <2>4, <2>5
<1>4. CASE i # 0
  <2>1. PICK t \in 1..24 : t = TurnOf[i] /\ KeccakF_PiLane[t] = i
    <3>1. i \in 1..24
      BY <1>4
    <3> QED
      BY <3>1, TurnOfIs
  <2>2. PICK f \in 1..24 : f = From(t)
    BY TableTypes
  <2>3. PICK x \in 0..4, y \in 0..4 : x = f % 5 /\ y = f \div 5 /\ f = x + 5 * y /\ f \in 0..24
    OBVIOUS
  <2>4. Leads(f, x, y, X, Y)
    BY <1>1, <2>1, <2>2, <2>3, WalkMoves DEF Leads
  <2>5. PlacedLanes(st)[<<X, Y>>]
          = RotL64(Xor64(st[f], Beside(Parities(st), x)), Offset(x, y))
    <3>1. Led(st, f, x, y, X, Y)
      BY <2>4, PlacedIs
    <3> QED
      BY ONLY <3>1 DEF Led
  <2>6. Offset(x, y) = KeccakF_RotationConstants[t]
    BY <2>2, <2>3, OffsetIs
  <2>7. PlacedLanes(st)[<<X, Y>>] = RotL64(Theta(st)[f], KeccakF_RotationConstants[t])
    BY <1>2, <2>3, <2>5, <2>6
  <2>8. RhoPi(Theta(st))[i] = RotL64(Theta(st)[f], KeccakF_RotationConstants[t])
    BY <1>2, <2>1, <2>2, RhoPiIs
  <2> QED
    BY <1>1, <2>7, <2>8
<1> QED
  BY <1>3, <1>4

(* Chi keeps words words.                                                  *)
LEMMA ChiType ==
  ASSUME NEW st \in States25
  PROVE  /\ Chi(st) \in States25
         /\ \A i \in 0..24 : Chi(st)[i] = Xor64(st[5 * (i \div 5) + (i % 5)],
              st[5 * (i \div 5) + (((i % 5) + 2) % 5)] \ st[5 * (i \div 5) + (((i % 5) + 1) % 5)])
<1>1. ASSUME NEW i \in 0..24
      PROVE  /\ Chi(st)[i] = Xor64(st[5 * (i \div 5) + (i % 5)],
              st[5 * (i \div 5) + (((i % 5) + 2) % 5)] \ st[5 * (i \div 5) + (((i % 5) + 1) % 5)])
             /\ Chi(st)[i] \in Word64
  <2>1. PICK X \in 0..4, Y \in 0..4 : X = i % 5 /\ Y = i \div 5 /\ i - X = 5 * Y
    OBVIOUS
  <2>2. X % 5 = X
    OBVIOUS
  <2>3. Chi(st)[i] = Xor64(st[5 * Y + X], st[5 * Y + ((X + 2) % 5)] \ st[5 * Y + ((X + 1) % 5)])
    BY <2>1, <2>2 DEF Chi
  <2>4. /\ 5 * Y + X \in 0..24 /\ 5 * Y + ((X + 2) % 5) \in 0..24 /\ 5 * Y + ((X + 1) % 5) \in 0..24
    OBVIOUS
  <2>5. PICK a \in Word64, b \in Word64, c \in Word64 :
          a = st[5 * Y + X] /\ b = st[5 * Y + ((X + 2) % 5)] /\ c = st[5 * Y + ((X + 1) % 5)]
    BY <2>4 DEF States25
  <2>6. b \ c \in Word64 /\ 0 \in Nat
    BY DEF Word64
  <2>7. Xor64(a, b \ c) \in Word64
    BY <2>6, WordsStay
  <2> QED
    BY <2>1, <2>3, <2>5, <2>7
<1>2. Chi(st) = [i \in 0..24 |-> Chi(st)[i]]
  BY DEF Chi
<1> QED
  BY <1>1, <1>2 DEF States25

(* One round: the four steps of the code, one after the other, are the     *)
(* round of the definition.                                                *)
LEMMA RoundOfKeccak ==
  ASSUME NEW st \in States25, NEW r
  PROVE  KeccakRound(st, r)
           = [Chi(RhoPi(Theta(st))) EXCEPT ![0] = Xor64(@, RoundConstants[r])]
<1> DEFINE chi(x, y) == Xor64(PlacedLanes(st)[<<x, y>>],
                              PlacedLanes(st)[<<(x + 2) % 5, y>>] \ PlacedLanes(st)[<<(x + 1) % 5, y>>])
<1>1. KeccakRound(st, r)
        = [i \in 0..24 |-> IF i = 0 THEN Xor64(chi(i % 5, i \div 5), RoundConstants[r])
                           ELSE chi(i % 5, i \div 5)]
  BY Zenon DEF KeccakRound, PlacedLanes, MovedLanes, Places5, Parities, Beside
<1>2. PICK s \in States25 : s = RhoPi(Theta(st))
  BY ThetaIs, RhoPiIs
<1>3. ASSUME NEW i \in 0..24 PROVE chi(i % 5, i \div 5) = Chi(s)[i]
  <2>1. PICK X \in 0..4, Y \in 0..4 : X = i % 5 /\ Y = i \div 5
    OBVIOUS
  <2>2. ASSUME NEW x \in 0..4 PROVE PlacedLanes(st)[<<x, Y>>] = s[5 * Y + x]
    <3>1. PICK j \in 0..24 : j = 5 * Y + x /\ j % 5 = x /\ j \div 5 = Y
      OBVIOUS
    <3> QED
      BY <1>2, <3>1, PlacedByWalk
  <2>3. (X + 2) % 5 \in 0..4 /\ (X + 1) % 5 \in 0..4
    OBVIOUS
  <2>4. chi(X, Y) = Xor64(s[5 * Y + X], s[5 * Y + ((X + 2) % 5)] \ s[5 * Y + ((X + 1) % 5)])
    BY <2>2, <2>3
  <2> HIDE DEF chi
  <2> QED
    BY <2>1, <2>4, ChiType
<1>4. Chi(s) = [i \in 0..24 |-> Chi(s)[i]]
  BY DEF Chi
<1>5. [Chi(s) EXCEPT ![0] = Xor64(@, RoundConstants[r])]
        = [i \in 0..24 |-> IF i = 0 THEN Xor64(Chi(s)[i], RoundConstants[r]) ELSE Chi(s)[i]]
  BY <1>4
<1> HIDE DEF chi
<1> QED
  BY <1>1, <1>2, <1>3, <1>5

-----------------------------------------------------------------------------
(* The round constants.                                                    *)

(* One turn of the register, turn j giving bit Power(2, j - 1) - 1.        *)
Registers8 == [lfsr : SUBSET Int, constant : SUBSET Int]
RegisterTurn(a, j) ==
  [lfsr |-> ShiftRegister(a.lfsr),
   constant |-> IF 0 \in a.lfsr THEN a.constant \cup {Power(2, j - 1) - 1} ELSE a.constant]

(* A turn gives a register.                                                *)
LEMMA RegisterTurnType ==
  ASSUME NEW j \in 1..7, NEW a \in Registers8
  PROVE  RegisterTurn(a, j) \in Registers8
<1>1. a.lfsr \in SUBSET Int /\ a.constant \in SUBSET Int
  BY DEF Registers8
<1>2. PICK p \in Int : p = Power(2, j - 1) - 1
  <2>1. j - 1 \in Nat /\ 2 \in Nat
    OBVIOUS
  <2>2. Power(2, j - 1) \in Nat
    BY <2>1, PowerSteps
  <2> QED
    BY <2>2
<1>3. ShiftRegister(a.lfsr) \in SUBSET Int
  BY <1>1 DEF ShiftRegister, Xor64
<1> QED
  BY <1>1, <1>2, <1>3 DEF RegisterTurn, Registers8

(* Seven of them, from register a to register h.                           *)
Passes(a, b, c, d, e, f, g, h) ==
  /\ ShiftRegister(a) = b /\ ShiftRegister(b) = c /\ ShiftRegister(c) = d
  /\ ShiftRegister(d) = e /\ ShiftRegister(e) = f /\ ShiftRegister(f) = g
  /\ ShiftRegister(g) = h

Lowest(l, p) == IF 0 \in l THEN {p} ELSE {}
LowestOf(a, b, c, d, e, f, g) ==
  Lowest(a, 0) \cup Lowest(b, 1) \cup Lowest(c, 3) \cup Lowest(d, 7) \cup Lowest(e, 15)
    \cup Lowest(f, 31) \cup Lowest(g, 63)

(* The powers of two of the constants' bits.                               *)
LEMMA Powers ==
  /\ Power(2, 0) = 1 /\ Power(2, 1) = 2 /\ Power(2, 2) = 4 /\ Power(2, 3) = 8
  /\ Power(2, 4) = 16 /\ Power(2, 5) = 32 /\ Power(2, 6) = 64 /\ Power(2, 7) = 128
  /\ Power(2, 8) = 256 /\ Power(2, 9) = 512 /\ Power(2, 10) = 1024 /\ Power(2, 11) = 2048
  /\ Power(2, 12) = 4096 /\ Power(2, 13) = 8192 /\ Power(2, 14) = 16384 /\ Power(2, 15) = 32768
<1>1. ASSUME NEW k \in Nat PROVE Power(2, k + 1) = 2 * Power(2, k)
  <2>1. 2 \in Nat
    OBVIOUS
  <2> QED
    BY <2>1, PowerSteps
<1>2. Power(2, 0) = 1
  <2>1. 2 \in Nat
    OBVIOUS
  <2> QED
    BY <2>1, PowerSteps
<1>3. /\ 0 + 1 = 1 /\ 1 + 1 = 2 /\ 2 + 1 = 3 /\ 3 + 1 = 4 /\ 4 + 1 = 5 /\ 5 + 1 = 6 /\ 6 + 1 = 7
      /\ 7 + 1 = 8 /\ 8 + 1 = 9 /\ 9 + 1 = 10 /\ 10 + 1 = 11 /\ 11 + 1 = 12 /\ 12 + 1 = 13
      /\ 13 + 1 = 14 /\ 14 + 1 = 15
  OBVIOUS
<1> QED
  BY <1>1, <1>2, <1>3


(* What the seven turns of register a give.                                *)
RegisterGives(a, h, bits) ==
  KeccakF1600_GetNextRoundConstant(a) = [lfsr |-> h, constant |-> bits]

(* So the code's seven turns, from one register to the next, give the bits *)
(* of a round constant.                                                    *)
LEMMA SevenTurns ==
  ASSUME NEW a \in SUBSET Int, NEW b, NEW c, NEW d, NEW e, NEW f, NEW g, NEW h,
         NEW bits, Passes(a, b, c, d, e, f, g, h), LowestOf(a, b, c, d, e, f, g) = bits
  PROVE  RegisterGives(a, h, bits)
<1> DEFINE base == [lfsr |-> a, constant |-> {}]
           F == CHOOSE k : k = [j \in 0..7 |-> IF j = 0 THEN base ELSE RegisterTurn(k[j - 1], j)]
           step == [j \in Nat |-> [r \in Registers8 |-> IF j \in 1..7 THEN RegisterTurn(r, j) ELSE r]]
<1>1. KeccakF1600_GetNextRoundConstant(a) = F[7]
  BY DEF KeccakF1600_GetNextRoundConstant, RegisterTurn
<1>2. base \in Registers8
  BY DEF Registers8
<1>3. step \in [Nat -> [Registers8 -> Registers8]]
  <2>1. ASSUME NEW j \in Nat, NEW r \in Registers8
        PROVE  (IF j \in 1..7 THEN RegisterTurn(r, j) ELSE r) \in Registers8
    BY RegisterTurnType
  <2> QED
    BY <2>1
<1>4. \A j \in 1..7, r \in Registers8 : j \in Nat /\ step[j][r] = RegisterTurn(r, j)
  OBVIOUS
<1>5. base.lfsr = a /\ base.constant = {}
  OBVIOUS
<1> HIDE DEF step, base
<1>6. PICK k : Iterates(k, Registers8, base, step, 7)
  <2>1. 7 \in Nat
    OBVIOUS
  <2> QED
    BY <1>2, <1>3, <2>1, RecursionUpTo
<1>7. k \in [0..7 -> Registers8] /\ k[0] = base /\ \A j \in 1..7 : k[j] = RegisterTurn(k[j - 1], j)
  <2>1. k \in [0..7 -> Registers8] /\ k[0] = base /\ \A j \in 1..7 : k[j] = step[j][k[j - 1]]
    BY <1>6 DEF Iterates
  <2>2. \A j \in 1..7 : k[j - 1] \in Registers8
    <3>1. \A j \in 1..7 : j - 1 \in 0..7
      OBVIOUS
    <3> QED
      BY <2>1, <3>1
  <2> QED
    BY <1>4, <2>1, <2>2
<1>8. k = [j \in 0..7 |-> IF j = 0 THEN base ELSE RegisterTurn(k[j - 1], j)]
  BY <1>7
<1>9. F = [j \in 0..7 |-> IF j = 0 THEN base ELSE RegisterTurn(F[j - 1], j)]
  BY <1>8
<1> HIDE DEF F
<1>10. /\ F[0] = base /\ F[1] = RegisterTurn(F[0], 1) /\ F[2] = RegisterTurn(F[1], 2)
       /\ F[3] = RegisterTurn(F[2], 3) /\ F[4] = RegisterTurn(F[3], 4) /\ F[5] = RegisterTurn(F[4], 5)
       /\ F[6] = RegisterTurn(F[5], 6) /\ F[7] = RegisterTurn(F[6], 7)
  <2>1. F[0] = base
    BY <1>9
  <2>2. \A j \in 1..7 : F[j] = RegisterTurn(F[j - 1], j)
    <3>1. \A j \in 1..7 : j \in 0..7 /\ j # 0
      OBVIOUS
    <3> QED
      BY <1>9, <3>1
  <2>3. /\ 1 - 1 = 0 /\ 2 - 1 = 1 /\ 3 - 1 = 2 /\ 4 - 1 = 3 /\ 5 - 1 = 4 /\ 6 - 1 = 5 /\ 7 - 1 = 6
        /\ 1 \in 1..7 /\ 2 \in 1..7 /\ 3 \in 1..7 /\ 4 \in 1..7 /\ 5 \in 1..7 /\ 6 \in 1..7 /\ 7 \in 1..7
    OBVIOUS
  <2> QED
    BY <2>1, <2>2, <2>3
<1>11. /\ Power(2, 1 - 1) - 1 = 0 /\ Power(2, 2 - 1) - 1 = 1 /\ Power(2, 3 - 1) - 1 = 3
       /\ Power(2, 4 - 1) - 1 = 7 /\ Power(2, 5 - 1) - 1 = 15 /\ Power(2, 6 - 1) - 1 = 31
       /\ Power(2, 7 - 1) - 1 = 63
  BY Powers
<1>12. ASSUME NEW r, NEW j, NEW p, Power(2, j - 1) - 1 = p
       PROVE  /\ RegisterTurn(r, j).lfsr = ShiftRegister(r.lfsr)
              /\ RegisterTurn(r, j).constant = r.constant \cup Lowest(r.lfsr, p)
  BY <1>12 DEF RegisterTurn, Lowest
<1>13. /\ F[0].lfsr = a /\ F[1].lfsr = b /\ F[2].lfsr = c /\ F[3].lfsr = d /\ F[4].lfsr = e
       /\ F[5].lfsr = f /\ F[6].lfsr = g /\ F[7].lfsr = h
  <2>1. \A r, j : RegisterTurn(r, j).lfsr = ShiftRegister(r.lfsr)
    BY <1>12
  <2>2. /\ ShiftRegister(a) = b /\ ShiftRegister(b) = c /\ ShiftRegister(c) = d
        /\ ShiftRegister(d) = e /\ ShiftRegister(e) = f /\ ShiftRegister(f) = g
        /\ ShiftRegister(g) = h
    BY DEF Passes
  <2>3. F[0].lfsr = a
    BY <1>5, <1>10
  <2>4. F[1].lfsr = b
    BY <1>10, <2>1, <2>2, <2>3
  <2>5. F[2].lfsr = c
    BY <1>10, <2>1, <2>2, <2>4
  <2>6. F[3].lfsr = d
    BY <1>10, <2>1, <2>2, <2>5
  <2>7. F[4].lfsr = e
    BY <1>10, <2>1, <2>2, <2>6
  <2>8. F[5].lfsr = f
    BY <1>10, <2>1, <2>2, <2>7
  <2>9. F[6].lfsr = g
    BY <1>10, <2>1, <2>2, <2>8
  <2>10. F[7].lfsr = h
    BY <1>10, <2>1, <2>2, <2>9
  <2> QED
    BY <2>3, <2>4, <2>5, <2>6, <2>7, <2>8, <2>9, <2>10
<1>14. /\ F[0].constant = {}
       /\ F[1].constant = F[0].constant \cup Lowest(a, 0) /\ F[2].constant = F[1].constant \cup Lowest(b, 1)
       /\ F[3].constant = F[2].constant \cup Lowest(c, 3) /\ F[4].constant = F[3].constant \cup Lowest(d, 7)
       /\ F[5].constant = F[4].constant \cup Lowest(e, 15) /\ F[6].constant = F[5].constant \cup Lowest(f, 31)
       /\ F[7].constant = F[6].constant \cup Lowest(g, 63)
  <2>1. F[0].constant = {}
    BY <1>5, <1>10
  <2>2. F[1].constant = F[0].constant \cup Lowest(a, 0)
    BY <1>10, <1>11, <1>12, <1>13
  <2>3. F[2].constant = F[1].constant \cup Lowest(b, 1)
    BY <1>10, <1>11, <1>12, <1>13
  <2>4. F[3].constant = F[2].constant \cup Lowest(c, 3)
    BY <1>10, <1>11, <1>12, <1>13
  <2>5. F[4].constant = F[3].constant \cup Lowest(d, 7)
    BY <1>10, <1>11, <1>12, <1>13
  <2>6. F[5].constant = F[4].constant \cup Lowest(e, 15)
    BY <1>10, <1>11, <1>12, <1>13
  <2>7. F[6].constant = F[5].constant \cup Lowest(f, 31)
    BY <1>10, <1>11, <1>12, <1>13
  <2>8. F[7].constant = F[6].constant \cup Lowest(g, 63)
    BY <1>10, <1>11, <1>12, <1>13
  <2> QED
    BY <2>1, <2>2, <2>3, <2>4, <2>5, <2>6, <2>7, <2>8
<1>15. F[7].constant = LowestOf(a, b, c, d, e, f, g)
  BY <1>14 DEF LowestOf
<1>16. F[7] = [lfsr |-> F[7].lfsr, constant |-> F[7].constant]
  BY <1>10 DEF RegisterTurn
<1> QED
  BY <1>1, <1>13, <1>15, <1>16 DEF RegisterGives

-----------------------------------------------------------------------------
(* The register at the start of each round and at the end, and the bits of *)
(* the rounds' constants.                                                  *)
Registers ==
  << {0}, {7}, {3, 4, 6, 7}, {1, 3, 4}, {0, 1, 2, 3, 4, 6, 7}, {0, 3}, {0, 2, 4, 5},
     {0, 1, 2, 3, 6}, {1, 3, 6, 7}, {4, 5, 6}, {0, 6}, {2, 3, 5, 6, 7}, {0, 2, 4, 6, 7},
     {0, 2, 3, 6, 7}, {0, 1, 5, 6}, {0, 1, 3, 5, 7}, {1, 3, 5, 7}, {1, 3, 5},
     {1, 4, 5, 6, 7}, {3, 5, 6, 7}, {0, 1, 2, 4, 5}, {1, 2, 3, 4, 5}, {0, 1, 3}, {2, 6},
     {1, 2, 3, 7} >>

ConstantBits ==
  << {0}, {1, 7, 15}, {1, 3, 7, 15, 63}, {15, 31, 63}, {0, 1, 3, 7, 15}, {0, 31},
     {0, 7, 15, 31, 63}, {0, 3, 15, 63}, {1, 3, 7}, {3, 7}, {0, 3, 15, 31}, {1, 3, 31},
     {0, 1, 3, 7, 15, 31}, {0, 1, 3, 7, 63}, {0, 3, 7, 15, 63}, {0, 1, 15, 63}, {1, 15, 63},
     {7, 63}, {1, 3, 15}, {1, 3, 31, 63}, {0, 7, 15, 31, 63}, {7, 15, 63}, {0, 31},
     {3, 15, 31, 63} >>

(* What the code computes from the register at the start of a round.       *)
NextRegister(r) ==
  KeccakF1600_GetNextRoundConstant(Registers[r])
    = [lfsr |-> Registers[r + 1], constant |-> ConstantBits[r]]

(* The register runs through the table, and gives the constants' bits.     *)
LEMMA RegistersAre == \A r \in 1..24 : NextRegister(r)
<1>1. NextRegister(1)
  <2>1. Passes({0}, {1}, {2}, {3}, {4}, {5}, {6}, {7})
    BY DEF Passes, ShiftRegister, Xor64
  <2>2. LowestOf({0}, {1}, {2}, {3}, {4}, {5}, {6})
          = {0}
    BY DEF LowestOf, Lowest
  <2>3. {0} \in SUBSET Int
    OBVIOUS
  <2>4. RegisterGives({0}, {7}, {0})
    BY <2>1, <2>2, <2>3, SevenTurns, SMT
  <2>5. /\ Registers[1] = {0} /\ Registers[1 + 1] = {7}
        /\ ConstantBits[1] = {0}
    BY DEF Registers, ConstantBits
  <2> QED
    BY <2>4, <2>5 DEF NextRegister, RegisterGives
<1>2. NextRegister(2)
  <2>1. Passes({7}, {0, 4, 5, 6}, {1, 5, 6, 7}, {0, 2, 4, 5, 7}, {0, 1, 3, 4},
                {1, 2, 4, 5}, {2, 3, 5, 6}, {3, 4, 6, 7})
    BY DEF Passes, ShiftRegister, Xor64
  <2>2. LowestOf({7}, {0, 4, 5, 6}, {1, 5, 6, 7}, {0, 2, 4, 5, 7}, {0, 1, 3, 4},
                   {1, 2, 4, 5}, {2, 3, 5, 6})
          = {1, 7, 15}
    BY DEF LowestOf, Lowest
  <2>3. {7} \in SUBSET Int
    OBVIOUS
  <2>4. RegisterGives({7}, {3, 4, 6, 7}, {1, 7, 15})
    BY <2>1, <2>2, <2>3, SevenTurns, SMT
  <2>5. /\ Registers[2] = {7} /\ Registers[2 + 1] = {3, 4, 6, 7}
        /\ ConstantBits[2] = {1, 7, 15}
    BY DEF Registers, ConstantBits
  <2> QED
    BY <2>4, <2>5 DEF NextRegister, RegisterGives
<1>3. NextRegister(3)
  <2>1. Passes({3, 4, 6, 7}, {0, 6, 7}, {0, 1, 4, 5, 6, 7}, {0, 1, 2, 4, 7},
                {0, 1, 2, 3, 4, 6}, {1, 2, 3, 4, 5, 7}, {0, 2, 3},
                {1, 3, 4})
    BY DEF Passes, ShiftRegister, Xor64
  <2>2. LowestOf({3, 4, 6, 7}, {0, 6, 7}, {0, 1, 4, 5, 6, 7}, {0, 1, 2, 4, 7},
                   {0, 1, 2, 3, 4, 6}, {1, 2, 3, 4, 5, 7}, {0, 2, 3})
          = {1, 3, 7, 15, 63}
    BY DEF LowestOf, Lowest
  <2>3. {3, 4, 6, 7} \in SUBSET Int
    OBVIOUS
  <2>4. RegisterGives({3, 4, 6, 7}, {1, 3, 4}, {1, 3, 7, 15, 63})
    BY <2>1, <2>2, <2>3, SevenTurns, SMT
  <2>5. /\ Registers[3] = {3, 4, 6, 7} /\ Registers[3 + 1] = {1, 3, 4}
        /\ ConstantBits[3] = {1, 3, 7, 15, 63}
    BY DEF Registers, ConstantBits
  <2> QED
    BY <2>4, <2>5 DEF NextRegister, RegisterGives
<1>4. NextRegister(4)
  <2>1. Passes({1, 3, 4}, {2, 4, 5}, {3, 5, 6}, {4, 6, 7}, {0, 4, 6, 7}, {0, 1, 4, 6, 7},
                {0, 1, 2, 4, 6, 7}, {0, 1, 2, 3, 4, 6, 7})
    BY DEF Passes, ShiftRegister, Xor64
  <2>2. LowestOf({1, 3, 4}, {2, 4, 5}, {3, 5, 6}, {4, 6, 7}, {0, 4, 6, 7},
                   {0, 1, 4, 6, 7}, {0, 1, 2, 4, 6, 7})
          = {15, 31, 63}
    BY DEF LowestOf, Lowest
  <2>3. {1, 3, 4} \in SUBSET Int
    OBVIOUS
  <2>4. RegisterGives({1, 3, 4}, {0, 1, 2, 3, 4, 6, 7}, {15, 31, 63})
    BY <2>1, <2>2, <2>3, SevenTurns, SMT
  <2>5. /\ Registers[4] = {1, 3, 4} /\ Registers[4 + 1] = {0, 1, 2, 3, 4, 6, 7}
        /\ ConstantBits[4] = {15, 31, 63}
    BY DEF Registers, ConstantBits
  <2> QED
    BY <2>4, <2>5 DEF NextRegister, RegisterGives
<1>5. NextRegister(5)
  <2>1. Passes({0, 1, 2, 3, 4, 6, 7}, {0, 1, 2, 3, 6, 7}, {0, 1, 2, 3, 5, 6, 7},
                {0, 1, 2, 3, 5, 7}, {0, 1, 2, 3, 5}, {1, 2, 3, 4, 6},
                {2, 3, 4, 5, 7}, {0, 3})
    BY DEF Passes, ShiftRegister, Xor64
  <2>2. LowestOf({0, 1, 2, 3, 4, 6, 7}, {0, 1, 2, 3, 6, 7}, {0, 1, 2, 3, 5, 6, 7},
                   {0, 1, 2, 3, 5, 7}, {0, 1, 2, 3, 5},
                   {1, 2, 3, 4, 6}, {2, 3, 4, 5, 7})
          = {0, 1, 3, 7, 15}
    BY DEF LowestOf, Lowest
  <2>3. {0, 1, 2, 3, 4, 6, 7} \in SUBSET Int
    OBVIOUS
  <2>4. RegisterGives({0, 1, 2, 3, 4, 6, 7}, {0, 3}, {0, 1, 3, 7, 15})
    BY <2>1, <2>2, <2>3, SevenTurns, SMT
  <2>5. /\ Registers[5] = {0, 1, 2, 3, 4, 6, 7} /\ Registers[5 + 1] = {0, 3}
        /\ ConstantBits[5] = {0, 1, 3, 7, 15}
    BY DEF Registers, ConstantBits
  <2> QED
    BY <2>4, <2>5 DEF NextRegister, RegisterGives
<1>6. NextRegister(6)
  <2>1. Passes({0, 3}, {1, 4}, {2, 5}, {3, 6}, {4, 7}, {0, 4, 6}, {1, 5, 7}, {0, 2, 4, 5})
    BY DEF Passes, ShiftRegister, Xor64
  <2>2. LowestOf({0, 3}, {1, 4}, {2, 5}, {3, 6}, {4, 7}, {0, 4, 6}, {1, 5, 7})
          = {0, 31}
    BY DEF LowestOf, Lowest
  <2>3. {0, 3} \in SUBSET Int
    OBVIOUS
  <2>4. RegisterGives({0, 3}, {0, 2, 4, 5}, {0, 31})
    BY <2>1, <2>2, <2>3, SevenTurns, SMT
  <2>5. /\ Registers[6] = {0, 3} /\ Registers[6 + 1] = {0, 2, 4, 5}
        /\ ConstantBits[6] = {0, 31}
    BY DEF Registers, ConstantBits
  <2> QED
    BY <2>4, <2>5 DEF NextRegister, RegisterGives
<1>7. NextRegister(7)
  <2>1. Passes({0, 2, 4, 5}, {1, 3, 5, 6}, {2, 4, 6, 7}, {0, 3, 4, 6, 7}, {0, 1, 6, 7},
                {0, 1, 2, 4, 5, 6, 7}, {0, 1, 2, 3, 4, 7}, {0, 1, 2, 3, 6})
    BY DEF Passes, ShiftRegister, Xor64
  <2>2. LowestOf({0, 2, 4, 5}, {1, 3, 5, 6}, {2, 4, 6, 7}, {0, 3, 4, 6, 7},
                   {0, 1, 6, 7}, {0, 1, 2, 4, 5, 6, 7},
                   {0, 1, 2, 3, 4, 7})
          = {0, 7, 15, 31, 63}
    BY DEF LowestOf, Lowest
  <2>3. {0, 2, 4, 5} \in SUBSET Int
    OBVIOUS
  <2>4. RegisterGives({0, 2, 4, 5}, {0, 1, 2, 3, 6}, {0, 7, 15, 31, 63})
    BY <2>1, <2>2, <2>3, SevenTurns, SMT
  <2>5. /\ Registers[7] = {0, 2, 4, 5} /\ Registers[7 + 1] = {0, 1, 2, 3, 6}
        /\ ConstantBits[7] = {0, 7, 15, 31, 63}
    BY DEF Registers, ConstantBits
  <2> QED
    BY <2>4, <2>5 DEF NextRegister, RegisterGives
<1>8. NextRegister(8)
  <2>1. Passes({0, 1, 2, 3, 6}, {1, 2, 3, 4, 7}, {0, 2, 3, 6}, {1, 3, 4, 7}, {0, 2, 6},
                {1, 3, 7}, {0, 2, 5, 6}, {1, 3, 6, 7})
    BY DEF Passes, ShiftRegister, Xor64
  <2>2. LowestOf({0, 1, 2, 3, 6}, {1, 2, 3, 4, 7}, {0, 2, 3, 6}, {1, 3, 4, 7},
                   {0, 2, 6}, {1, 3, 7}, {0, 2, 5, 6})
          = {0, 3, 15, 63}
    BY DEF LowestOf, Lowest
  <2>3. {0, 1, 2, 3, 6} \in SUBSET Int
    OBVIOUS
  <2>4. RegisterGives({0, 1, 2, 3, 6}, {1, 3, 6, 7}, {0, 3, 15, 63})
    BY <2>1, <2>2, <2>3, SevenTurns, SMT
  <2>5. /\ Registers[8] = {0, 1, 2, 3, 6} /\ Registers[8 + 1] = {1, 3, 6, 7}
        /\ ConstantBits[8] = {0, 3, 15, 63}
    BY DEF Registers, ConstantBits
  <2> QED
    BY <2>4, <2>5 DEF NextRegister, RegisterGives
<1>9. NextRegister(9)
  <2>1. Passes({1, 3, 6, 7}, {0, 2, 5, 6, 7}, {0, 1, 3, 4, 5, 7}, {0, 1, 2}, {1, 2, 3},
                {2, 3, 4}, {3, 4, 5}, {4, 5, 6})
    BY DEF Passes, ShiftRegister, Xor64
  <2>2. LowestOf({1, 3, 6, 7}, {0, 2, 5, 6, 7}, {0, 1, 3, 4, 5, 7}, {0, 1, 2},
                   {1, 2, 3}, {2, 3, 4}, {3, 4, 5})
          = {1, 3, 7}
    BY DEF LowestOf, Lowest
  <2>3. {1, 3, 6, 7} \in SUBSET Int
    OBVIOUS
  <2>4. RegisterGives({1, 3, 6, 7}, {4, 5, 6}, {1, 3, 7})
    BY <2>1, <2>2, <2>3, SevenTurns, SMT
  <2>5. /\ Registers[9] = {1, 3, 6, 7} /\ Registers[9 + 1] = {4, 5, 6}
        /\ ConstantBits[9] = {1, 3, 7}
    BY DEF Registers, ConstantBits
  <2> QED
    BY <2>4, <2>5 DEF NextRegister, RegisterGives
<1>10. NextRegister(10)
  <2>1. Passes({4, 5, 6}, {5, 6, 7}, {0, 4, 5, 7}, {0, 1, 4}, {1, 2, 5}, {2, 3, 6},
                {3, 4, 7}, {0, 6})
    BY DEF Passes, ShiftRegister, Xor64
  <2>2. LowestOf({4, 5, 6}, {5, 6, 7}, {0, 4, 5, 7}, {0, 1, 4}, {1, 2, 5}, {2, 3, 6},
                   {3, 4, 7})
          = {3, 7}
    BY DEF LowestOf, Lowest
  <2>3. {4, 5, 6} \in SUBSET Int
    OBVIOUS
  <2>4. RegisterGives({4, 5, 6}, {0, 6}, {3, 7})
    BY <2>1, <2>2, <2>3, SevenTurns, SMT
  <2>5. /\ Registers[10] = {4, 5, 6} /\ Registers[10 + 1] = {0, 6}
        /\ ConstantBits[10] = {3, 7}
    BY DEF Registers, ConstantBits
  <2> QED
    BY <2>4, <2>5 DEF NextRegister, RegisterGives
<1>11. NextRegister(11)
  <2>1. Passes({0, 6}, {1, 7}, {0, 2, 4, 5, 6}, {1, 3, 5, 6, 7}, {0, 2, 5, 7},
                {0, 1, 3, 4, 5}, {1, 2, 4, 5, 6}, {2, 3, 5, 6, 7})
    BY DEF Passes, ShiftRegister, Xor64
  <2>2. LowestOf({0, 6}, {1, 7}, {0, 2, 4, 5, 6}, {1, 3, 5, 6, 7}, {0, 2, 5, 7},
                   {0, 1, 3, 4, 5}, {1, 2, 4, 5, 6})
          = {0, 3, 15, 31}
    BY DEF LowestOf, Lowest
  <2>3. {0, 6} \in SUBSET Int
    OBVIOUS
  <2>4. RegisterGives({0, 6}, {2, 3, 5, 6, 7}, {0, 3, 15, 31})
    BY <2>1, <2>2, <2>3, SevenTurns, SMT
  <2>5. /\ Registers[11] = {0, 6} /\ Registers[11 + 1] = {2, 3, 5, 6, 7}
        /\ ConstantBits[11] = {0, 3, 15, 31}
    BY DEF Registers, ConstantBits
  <2> QED
    BY <2>4, <2>5 DEF NextRegister, RegisterGives
<1>12. NextRegister(12)
  <2>1. Passes({2, 3, 5, 6, 7}, {0, 3, 5, 7}, {0, 1, 5}, {1, 2, 6}, {2, 3, 7},
                {0, 3, 5, 6}, {1, 4, 6, 7}, {0, 2, 4, 6, 7})
    BY DEF Passes, ShiftRegister, Xor64
  <2>2. LowestOf({2, 3, 5, 6, 7}, {0, 3, 5, 7}, {0, 1, 5}, {1, 2, 6}, {2, 3, 7},
                   {0, 3, 5, 6}, {1, 4, 6, 7})
          = {1, 3, 31}
    BY DEF LowestOf, Lowest
  <2>3. {2, 3, 5, 6, 7} \in SUBSET Int
    OBVIOUS
  <2>4. RegisterGives({2, 3, 5, 6, 7}, {0, 2, 4, 6, 7}, {1, 3, 31})
    BY <2>1, <2>2, <2>3, SevenTurns, SMT
  <2>5. /\ Registers[12] = {2, 3, 5, 6, 7} /\ Registers[12 + 1] = {0, 2, 4, 6, 7}
        /\ ConstantBits[12] = {1, 3, 31}
    BY DEF Registers, ConstantBits
  <2> QED
    BY <2>4, <2>5 DEF NextRegister, RegisterGives
<1>13. NextRegister(13)
  <2>1. Passes({0, 2, 4, 6, 7}, {0, 1, 3, 4, 6, 7}, {0, 1, 2, 6, 7},
                {0, 1, 2, 3, 4, 5, 6, 7}, {0, 1, 2, 3, 7},
                {0, 1, 2, 3, 5, 6}, {1, 2, 3, 4, 6, 7}, {0, 2, 3, 6, 7})
    BY DEF Passes, ShiftRegister, Xor64
  <2>2. LowestOf({0, 2, 4, 6, 7}, {0, 1, 3, 4, 6, 7}, {0, 1, 2, 6, 7},
                   {0, 1, 2, 3, 4, 5, 6, 7}, {0, 1, 2, 3, 7},
                   {0, 1, 2, 3, 5, 6}, {1, 2, 3, 4, 6, 7})
          = {0, 1, 3, 7, 15, 31}
    BY DEF LowestOf, Lowest
  <2>3. {0, 2, 4, 6, 7} \in SUBSET Int
    OBVIOUS
  <2>4. RegisterGives({0, 2, 4, 6, 7}, {0, 2, 3, 6, 7}, {0, 1, 3, 7, 15, 31})
    BY <2>1, <2>2, <2>3, SevenTurns, SMT
  <2>5. /\ Registers[13] = {0, 2, 4, 6, 7} /\ Registers[13 + 1] = {0, 2, 3, 6, 7}
        /\ ConstantBits[13] = {0, 1, 3, 7, 15, 31}
    BY DEF Registers, ConstantBits
  <2> QED
    BY <2>4, <2>5 DEF NextRegister, RegisterGives
<1>14. NextRegister(14)
  <2>1. Passes({0, 2, 3, 6, 7}, {0, 1, 3, 5, 6, 7}, {0, 1, 2, 5, 7}, {0, 1, 2, 3, 4, 5},
                {1, 2, 3, 4, 5, 6}, {2, 3, 4, 5, 6, 7}, {0, 3, 7},
                {0, 1, 5, 6})
    BY DEF Passes, ShiftRegister, Xor64
  <2>2. LowestOf({0, 2, 3, 6, 7}, {0, 1, 3, 5, 6, 7}, {0, 1, 2, 5, 7},
                   {0, 1, 2, 3, 4, 5}, {1, 2, 3, 4, 5, 6},
                   {2, 3, 4, 5, 6, 7}, {0, 3, 7})
          = {0, 1, 3, 7, 63}
    BY DEF LowestOf, Lowest
  <2>3. {0, 2, 3, 6, 7} \in SUBSET Int
    OBVIOUS
  <2>4. RegisterGives({0, 2, 3, 6, 7}, {0, 1, 5, 6}, {0, 1, 3, 7, 63})
    BY <2>1, <2>2, <2>3, SevenTurns, SMT
  <2>5. /\ Registers[14] = {0, 2, 3, 6, 7} /\ Registers[14 + 1] = {0, 1, 5, 6}
        /\ ConstantBits[14] = {0, 1, 3, 7, 63}
    BY DEF Registers, ConstantBits
  <2> QED
    BY <2>4, <2>5 DEF NextRegister, RegisterGives
<1>15. NextRegister(15)
  <2>1. Passes({0, 1, 5, 6}, {1, 2, 6, 7}, {0, 2, 3, 4, 5, 6, 7}, {0, 1, 3, 7},
                {0, 1, 2, 5, 6}, {1, 2, 3, 6, 7}, {0, 2, 3, 5, 6, 7},
                {0, 1, 3, 5, 7})
    BY DEF Passes, ShiftRegister, Xor64
  <2>2. LowestOf({0, 1, 5, 6}, {1, 2, 6, 7}, {0, 2, 3, 4, 5, 6, 7}, {0, 1, 3, 7},
                   {0, 1, 2, 5, 6}, {1, 2, 3, 6, 7}, {0, 2, 3, 5, 6, 7})
          = {0, 3, 7, 15, 63}
    BY DEF LowestOf, Lowest
  <2>3. {0, 1, 5, 6} \in SUBSET Int
    OBVIOUS
  <2>4. RegisterGives({0, 1, 5, 6}, {0, 1, 3, 5, 7}, {0, 3, 7, 15, 63})
    BY <2>1, <2>2, <2>3, SevenTurns, SMT
  <2>5. /\ Registers[15] = {0, 1, 5, 6} /\ Registers[15 + 1] = {0, 1, 3, 5, 7}
        /\ ConstantBits[15] = {0, 3, 7, 15, 63}
    BY DEF Registers, ConstantBits
  <2> QED
    BY <2>4, <2>5 DEF NextRegister, RegisterGives
<1>16. NextRegister(16)
  <2>1. Passes({0, 1, 3, 5, 7}, {0, 1, 2, 5}, {1, 2, 3, 6}, {2, 3, 4, 7}, {0, 3, 6},
                {1, 4, 7}, {0, 2, 4, 6}, {1, 3, 5, 7})
    BY DEF Passes, ShiftRegister, Xor64
  <2>2. LowestOf({0, 1, 3, 5, 7}, {0, 1, 2, 5}, {1, 2, 3, 6}, {2, 3, 4, 7}, {0, 3, 6},
                   {1, 4, 7}, {0, 2, 4, 6})
          = {0, 1, 15, 63}
    BY DEF LowestOf, Lowest
  <2>3. {0, 1, 3, 5, 7} \in SUBSET Int
    OBVIOUS
  <2>4. RegisterGives({0, 1, 3, 5, 7}, {1, 3, 5, 7}, {0, 1, 15, 63})
    BY <2>1, <2>2, <2>3, SevenTurns, SMT
  <2>5. /\ Registers[16] = {0, 1, 3, 5, 7} /\ Registers[16 + 1] = {1, 3, 5, 7}
        /\ ConstantBits[16] = {0, 1, 15, 63}
    BY DEF Registers, ConstantBits
  <2> QED
    BY <2>4, <2>5 DEF NextRegister, RegisterGives
<1>17. NextRegister(17)
  <2>1. Passes({1, 3, 5, 7}, {0, 2, 5}, {1, 3, 6}, {2, 4, 7}, {0, 3, 4, 6}, {1, 4, 5, 7},
                {0, 2, 4}, {1, 3, 5})
    BY DEF Passes, ShiftRegister, Xor64
  <2>2. LowestOf({1, 3, 5, 7}, {0, 2, 5}, {1, 3, 6}, {2, 4, 7}, {0, 3, 4, 6},
                   {1, 4, 5, 7}, {0, 2, 4})
          = {1, 15, 63}
    BY DEF LowestOf, Lowest
  <2>3. {1, 3, 5, 7} \in SUBSET Int
    OBVIOUS
  <2>4. RegisterGives({1, 3, 5, 7}, {1, 3, 5}, {1, 15, 63})
    BY <2>1, <2>2, <2>3, SevenTurns, SMT
  <2>5. /\ Registers[17] = {1, 3, 5, 7} /\ Registers[17 + 1] = {1, 3, 5}
        /\ ConstantBits[17] = {1, 15, 63}
    BY DEF Registers, ConstantBits
  <2> QED
    BY <2>4, <2>5 DEF NextRegister, RegisterGives
<1>18. NextRegister(18)
  <2>1. Passes({1, 3, 5}, {2, 4, 6}, {3, 5, 7}, {0, 5}, {1, 6}, {2, 7}, {0, 3, 4, 5, 6},
                {1, 4, 5, 6, 7})
    BY DEF Passes, ShiftRegister, Xor64
  <2>2. LowestOf({1, 3, 5}, {2, 4, 6}, {3, 5, 7}, {0, 5}, {1, 6}, {2, 7},
                   {0, 3, 4, 5, 6})
          = {7, 63}
    BY DEF LowestOf, Lowest
  <2>3. {1, 3, 5} \in SUBSET Int
    OBVIOUS
  <2>4. RegisterGives({1, 3, 5}, {1, 4, 5, 6, 7}, {7, 63})
    BY <2>1, <2>2, <2>3, SevenTurns, SMT
  <2>5. /\ Registers[18] = {1, 3, 5} /\ Registers[18 + 1] = {1, 4, 5, 6, 7}
        /\ ConstantBits[18] = {7, 63}
    BY DEF Registers, ConstantBits
  <2> QED
    BY <2>4, <2>5 DEF NextRegister, RegisterGives
<1>19. NextRegister(19)
  <2>1. Passes({1, 4, 5, 6, 7}, {0, 2, 4, 7}, {0, 1, 3, 4, 6}, {1, 2, 4, 5, 7},
                {0, 2, 3, 4}, {1, 3, 4, 5}, {2, 4, 5, 6}, {3, 5, 6, 7})
    BY DEF Passes, ShiftRegister, Xor64
  <2>2. LowestOf({1, 4, 5, 6, 7}, {0, 2, 4, 7}, {0, 1, 3, 4, 6}, {1, 2, 4, 5, 7},
                   {0, 2, 3, 4}, {1, 3, 4, 5}, {2, 4, 5, 6})
          = {1, 3, 15}
    BY DEF LowestOf, Lowest
  <2>3. {1, 4, 5, 6, 7} \in SUBSET Int
    OBVIOUS
  <2>4. RegisterGives({1, 4, 5, 6, 7}, {3, 5, 6, 7}, {1, 3, 15})
    BY <2>1, <2>2, <2>3, SevenTurns, SMT
  <2>5. /\ Registers[19] = {1, 4, 5, 6, 7} /\ Registers[19 + 1] = {3, 5, 6, 7}
        /\ ConstantBits[19] = {1, 3, 15}
    BY DEF Registers, ConstantBits
  <2> QED
    BY <2>4, <2>5 DEF NextRegister, RegisterGives
<1>20. NextRegister(20)
  <2>1. Passes({3, 5, 6, 7}, {0, 5, 7}, {0, 1, 4, 5}, {1, 2, 5, 6}, {2, 3, 6, 7},
                {0, 3, 5, 6, 7}, {0, 1, 5, 7}, {0, 1, 2, 4, 5})
    BY DEF Passes, ShiftRegister, Xor64
  <2>2. LowestOf({3, 5, 6, 7}, {0, 5, 7}, {0, 1, 4, 5}, {1, 2, 5, 6}, {2, 3, 6, 7},
                   {0, 3, 5, 6, 7}, {0, 1, 5, 7})
          = {1, 3, 31, 63}
    BY DEF LowestOf, Lowest
  <2>3. {3, 5, 6, 7} \in SUBSET Int
    OBVIOUS
  <2>4. RegisterGives({3, 5, 6, 7}, {0, 1, 2, 4, 5}, {1, 3, 31, 63})
    BY <2>1, <2>2, <2>3, SevenTurns, SMT
  <2>5. /\ Registers[20] = {3, 5, 6, 7} /\ Registers[20 + 1] = {0, 1, 2, 4, 5}
        /\ ConstantBits[20] = {1, 3, 31, 63}
    BY DEF Registers, ConstantBits
  <2> QED
    BY <2>4, <2>5 DEF NextRegister, RegisterGives
<1>21. NextRegister(21)
  <2>1. Passes({0, 1, 2, 4, 5}, {1, 2, 3, 5, 6}, {2, 3, 4, 6, 7}, {0, 3, 6, 7},
                {0, 1, 5, 6, 7}, {0, 1, 2, 4, 5, 7}, {0, 1, 2, 3, 4},
                {1, 2, 3, 4, 5})
    BY DEF Passes, ShiftRegister, Xor64
  <2>2. LowestOf({0, 1, 2, 4, 5}, {1, 2, 3, 5, 6}, {2, 3, 4, 6, 7}, {0, 3, 6, 7},
                   {0, 1, 5, 6, 7}, {0, 1, 2, 4, 5, 7}, {0, 1, 2, 3, 4})
          = {0, 7, 15, 31, 63}
    BY DEF LowestOf, Lowest
  <2>3. {0, 1, 2, 4, 5} \in SUBSET Int
    OBVIOUS
  <2>4. RegisterGives({0, 1, 2, 4, 5}, {1, 2, 3, 4, 5}, {0, 7, 15, 31, 63})
    BY <2>1, <2>2, <2>3, SevenTurns, SMT
  <2>5. /\ Registers[21] = {0, 1, 2, 4, 5} /\ Registers[21 + 1] = {1, 2, 3, 4, 5}
        /\ ConstantBits[21] = {0, 7, 15, 31, 63}
    BY DEF Registers, ConstantBits
  <2> QED
    BY <2>4, <2>5 DEF NextRegister, RegisterGives
<1>22. NextRegister(22)
  <2>1. Passes({1, 2, 3, 4, 5}, {2, 3, 4, 5, 6}, {3, 4, 5, 6, 7}, {0, 7}, {0, 1, 4, 5, 6},
                {1, 2, 5, 6, 7}, {0, 2, 3, 4, 5, 7}, {0, 1, 3})
    BY DEF Passes, ShiftRegister, Xor64
  <2>2. LowestOf({1, 2, 3, 4, 5}, {2, 3, 4, 5, 6}, {3, 4, 5, 6, 7}, {0, 7},
                   {0, 1, 4, 5, 6}, {1, 2, 5, 6, 7}, {0, 2, 3, 4, 5, 7})
          = {7, 15, 63}
    BY DEF LowestOf, Lowest
  <2>3. {1, 2, 3, 4, 5} \in SUBSET Int
    OBVIOUS
  <2>4. RegisterGives({1, 2, 3, 4, 5}, {0, 1, 3}, {7, 15, 63})
    BY <2>1, <2>2, <2>3, SevenTurns, SMT
  <2>5. /\ Registers[22] = {1, 2, 3, 4, 5} /\ Registers[22 + 1] = {0, 1, 3}
        /\ ConstantBits[22] = {7, 15, 63}
    BY DEF Registers, ConstantBits
  <2> QED
    BY <2>4, <2>5 DEF NextRegister, RegisterGives
<1>23. NextRegister(23)
  <2>1. Passes({0, 1, 3}, {1, 2, 4}, {2, 3, 5}, {3, 4, 6}, {4, 5, 7}, {0, 4}, {1, 5},
                {2, 6})
    BY DEF Passes, ShiftRegister, Xor64
  <2>2. LowestOf({0, 1, 3}, {1, 2, 4}, {2, 3, 5}, {3, 4, 6}, {4, 5, 7}, {0, 4}, {1, 5})
          = {0, 31}
    BY DEF LowestOf, Lowest
  <2>3. {0, 1, 3} \in SUBSET Int
    OBVIOUS
  <2>4. RegisterGives({0, 1, 3}, {2, 6}, {0, 31})
    BY <2>1, <2>2, <2>3, SevenTurns, SMT
  <2>5. /\ Registers[23] = {0, 1, 3} /\ Registers[23 + 1] = {2, 6}
        /\ ConstantBits[23] = {0, 31}
    BY DEF Registers, ConstantBits
  <2> QED
    BY <2>4, <2>5 DEF NextRegister, RegisterGives
<1>24. NextRegister(24)
  <2>1. Passes({2, 6}, {3, 7}, {0, 5, 6}, {1, 6, 7}, {0, 2, 4, 5, 6, 7}, {0, 1, 3, 4, 7},
                {0, 1, 2, 6}, {1, 2, 3, 7})
    BY DEF Passes, ShiftRegister, Xor64
  <2>2. LowestOf({2, 6}, {3, 7}, {0, 5, 6}, {1, 6, 7}, {0, 2, 4, 5, 6, 7},
                   {0, 1, 3, 4, 7}, {0, 1, 2, 6})
          = {3, 15, 31, 63}
    BY DEF LowestOf, Lowest
  <2>3. {2, 6} \in SUBSET Int
    OBVIOUS
  <2>4. RegisterGives({2, 6}, {1, 2, 3, 7}, {3, 15, 31, 63})
    BY <2>1, <2>2, <2>3, SevenTurns, SMT
  <2>5. /\ Registers[24] = {2, 6} /\ Registers[24 + 1] = {1, 2, 3, 7}
        /\ ConstantBits[24] = {3, 15, 31, 63}
    BY DEF Registers, ConstantBits
  <2> QED
    BY <2>4, <2>5 DEF NextRegister, RegisterGives
<1>25. ASSUME NEW r \in 1..24 PROVE NextRegister(r)
  <2>1. r = 1 \/ r = 2 \/ r = 3 \/ r = 4 \/ r = 5 \/ r = 6 \/ r = 7 \/ r = 8 \/ r = 9 \/ r = 10 \/ r = 11 \/
        r = 12 \/ r = 13 \/ r = 14 \/ r = 15 \/ r = 16 \/ r = 17 \/ r = 18 \/ r = 19 \/ r = 20 \/
        r = 21 \/ r = 22 \/ r = 23 \/ r = 24
    OBVIOUS
  <2> QED
    BY <2>1, <1>1, <1>2, <1>3, <1>4, <1>5, <1>6, <1>7, <1>8, <1>9, <1>10, <1>11, <1>12,
       <1>13, <1>14, <1>15, <1>16, <1>17, <1>18, <1>19, <1>20, <1>21, <1>22,
       <1>23, <1>24
<1> QED
  BY <1>25

-----------------------------------------------------------------------------
(* The constants of the definition, group by group.                        *)
Group(v) == {j \in 0..15 : DigitOf(2, v, j) = 1}

(* S is the set of the one bits of the sixteen of v.                       *)
GroupOnes(v, S) == /\ \A j \in S : j \in 0..15
              /\ \A j \in 0..15 : j \in S <=> (v \div Power(2, j)) % 2 = 1

(* A group is the set of its ones.                                         *)
LEMMA GroupIs ==
  ASSUME NEW v, NEW S, GroupOnes(v, S)
  PROVE  Group(v) = S
<1>1. \A j : j \in Group(v) <=> j \in S
  BY DEF Group, GroupOnes, DigitOf
<1> QED
  BY <1>1

(* A constant is the union of its groups.                                  *)
Union4(a, b, c, d, A, B, C, D) ==
  Hex(a, b, c, d) = {48 + i : i \in A} \cup {32 + i : i \in B} \cup {16 + i : i \in C} \cup {0 + i : i \in D}

(* Its groups are all there is in it.                                      *)
LEMMA HexIs ==
  ASSUME NEW a, NEW b, NEW c, NEW d, NEW A, NEW B, NEW C, NEW D,
         Group(a) = A, Group(b) = B, Group(c) = C, Group(d) = D
  PROVE  Union4(a, b, c, d, A, B, C, D)
BY Zenon DEF Union4, Hex, Group

(* The round constants of the definition are those of the register.        *)
LEMMA ConstantsAre == \A r \in 1..24 : RoundConstants[r] = ConstantBits[r]
<1>1. Group(0) = {}
  <2>1. GroupOnes(0, {})
    BY Powers DEF GroupOnes
  <2> QED
    BY <2>1, GroupIs, SMT
<1>2. Group(\h0001) = {0}
  <2>1. GroupOnes(\h0001, {0})
    BY Powers DEF GroupOnes
  <2> QED
    BY <2>1, GroupIs, SMT
<1>3. Group(\h000A) = {1, 3}
  <2>1. GroupOnes(\h000A, {1, 3})
    BY Powers DEF GroupOnes
  <2> QED
    BY <2>1, GroupIs, SMT
<1>4. Group(\h0080) = {7}
  <2>1. GroupOnes(\h0080, {7})
    BY Powers DEF GroupOnes
  <2> QED
    BY <2>1, GroupIs, SMT
<1>5. Group(\h0088) = {3, 7}
  <2>1. GroupOnes(\h0088, {3, 7})
    BY Powers DEF GroupOnes
  <2> QED
    BY <2>1, GroupIs, SMT
<1>6. Group(\h008A) = {1, 3, 7}
  <2>1. GroupOnes(\h008A, {1, 3, 7})
    BY Powers DEF GroupOnes
  <2> QED
    BY <2>1, GroupIs, SMT
<1>7. Group(\h008B) = {0, 1, 3, 7}
  <2>1. GroupOnes(\h008B, {0, 1, 3, 7})
    BY Powers DEF GroupOnes
  <2> QED
    BY <2>1, GroupIs, SMT
<1>8. Group(\h8000) = {15}
  <2>1. GroupOnes(\h8000, {15})
    BY Powers DEF GroupOnes
  <2> QED
    BY <2>1, GroupIs, SMT
<1>9. Group(\h8002) = {1, 15}
  <2>1. GroupOnes(\h8002, {1, 15})
    BY Powers DEF GroupOnes
  <2> QED
    BY <2>1, GroupIs, SMT
<1>10. Group(\h8003) = {0, 1, 15}
  <2>1. GroupOnes(\h8003, {0, 1, 15})
    BY Powers DEF GroupOnes
  <2> QED
    BY <2>1, GroupIs, SMT
<1>11. Group(\h8008) = {3, 15}
  <2>1. GroupOnes(\h8008, {3, 15})
    BY Powers DEF GroupOnes
  <2> QED
    BY <2>1, GroupIs, SMT
<1>12. Group(\h8009) = {0, 3, 15}
  <2>1. GroupOnes(\h8009, {0, 3, 15})
    BY Powers DEF GroupOnes
  <2> QED
    BY <2>1, GroupIs, SMT
<1>13. Group(\h800A) = {1, 3, 15}
  <2>1. GroupOnes(\h800A, {1, 3, 15})
    BY Powers DEF GroupOnes
  <2> QED
    BY <2>1, GroupIs, SMT
<1>14. Group(\h8080) = {7, 15}
  <2>1. GroupOnes(\h8080, {7, 15})
    BY Powers DEF GroupOnes
  <2> QED
    BY <2>1, GroupIs, SMT
<1>15. Group(\h8081) = {0, 7, 15}
  <2>1. GroupOnes(\h8081, {0, 7, 15})
    BY Powers DEF GroupOnes
  <2> QED
    BY <2>1, GroupIs, SMT
<1>16. Group(\h8082) = {1, 7, 15}
  <2>1. GroupOnes(\h8082, {1, 7, 15})
    BY Powers DEF GroupOnes
  <2> QED
    BY <2>1, GroupIs, SMT
<1>17. Group(\h8089) = {0, 3, 7, 15}
  <2>1. GroupOnes(\h8089, {0, 3, 7, 15})
    BY Powers DEF GroupOnes
  <2> QED
    BY <2>1, GroupIs, SMT
<1>18. Group(\h808A) = {1, 3, 7, 15}
  <2>1. GroupOnes(\h808A, {1, 3, 7, 15})
    BY Powers DEF GroupOnes
  <2> QED
    BY <2>1, GroupIs, SMT
<1>19. Group(\h808B) = {0, 1, 3, 7, 15}
  <2>1. GroupOnes(\h808B, {0, 1, 3, 7, 15})
    BY Powers DEF GroupOnes
  <2> QED
    BY <2>1, GroupIs, SMT
<1>20. RoundConstants[1] = ConstantBits[1]
  <2>1. Union4(0, 0, 0, \h0001, {}, {}, {}, {0})
    BY <1>1, <1>2, HexIs, SMT
  <2>2. {48 + i : i \in {}} \cup {32 + i : i \in {}} \cup {16 + i : i \in {}} \cup {0 + i : i \in {0}}
          = {0}
    OBVIOUS
  <2>3. RoundConstants[1] = Hex(0, 0, 0, \h0001)
    BY DEF RoundConstants
  <2>4. ConstantBits[1] = {0}
    BY DEF ConstantBits
  <2> QED
    BY <2>1, <2>2, <2>3, <2>4, SMT DEF Union4
<1>21. RoundConstants[2] = ConstantBits[2]
  <2>1. Union4(0, 0, 0, \h8082, {}, {}, {}, {1, 7, 15})
    BY <1>1, <1>16, HexIs, SMT
  <2>2. {48 + i : i \in {}} \cup {32 + i : i \in {}} \cup {16 + i : i \in {}} \cup {0 + i : i \in {1, 7, 15}}
          = {1, 7, 15}
    OBVIOUS
  <2>3. RoundConstants[2] = Hex(0, 0, 0, \h8082)
    BY DEF RoundConstants
  <2>4. ConstantBits[2] = {1, 7, 15}
    BY DEF ConstantBits
  <2> QED
    BY <2>1, <2>2, <2>3, <2>4, SMT DEF Union4
<1>22. RoundConstants[3] = ConstantBits[3]
  <2>1. Union4(\h8000, 0, 0, \h808A, {15}, {}, {}, {1, 3, 7, 15})
    BY <1>1, <1>8, <1>18, HexIs, SMT
  <2>2. {48 + i : i \in {15}} \cup {32 + i : i \in {}} \cup {16 + i : i \in {}} \cup {0 + i : i \in {1, 3, 7, 15}}
          = {1, 3, 7, 15, 63}
    OBVIOUS
  <2>3. RoundConstants[3] = Hex(\h8000, 0, 0, \h808A)
    BY DEF RoundConstants
  <2>4. ConstantBits[3] = {1, 3, 7, 15, 63}
    BY DEF ConstantBits
  <2> QED
    BY <2>1, <2>2, <2>3, <2>4, SMT DEF Union4
<1>23. RoundConstants[4] = ConstantBits[4]
  <2>1. Union4(\h8000, 0, \h8000, \h8000, {15}, {}, {15}, {15})
    BY <1>1, <1>8, HexIs, SMT
  <2>2. {48 + i : i \in {15}} \cup {32 + i : i \in {}} \cup {16 + i : i \in {15}} \cup {0 + i : i \in {15}}
          = {15, 31, 63}
    OBVIOUS
  <2>3. RoundConstants[4] = Hex(\h8000, 0, \h8000, \h8000)
    BY DEF RoundConstants
  <2>4. ConstantBits[4] = {15, 31, 63}
    BY DEF ConstantBits
  <2> QED
    BY <2>1, <2>2, <2>3, <2>4, SMT DEF Union4
<1>24. RoundConstants[5] = ConstantBits[5]
  <2>1. Union4(0, 0, 0, \h808B, {}, {}, {}, {0, 1, 3, 7, 15})
    BY <1>1, <1>19, HexIs, SMT
  <2>2. {48 + i : i \in {}} \cup {32 + i : i \in {}} \cup {16 + i : i \in {}} \cup {0 + i : i \in {0, 1, 3, 7, 15}}
          = {0, 1, 3, 7, 15}
    OBVIOUS
  <2>3. RoundConstants[5] = Hex(0, 0, 0, \h808B)
    BY DEF RoundConstants
  <2>4. ConstantBits[5] = {0, 1, 3, 7, 15}
    BY DEF ConstantBits
  <2> QED
    BY <2>1, <2>2, <2>3, <2>4, SMT DEF Union4
<1>25. RoundConstants[6] = ConstantBits[6]
  <2>1. Union4(0, 0, \h8000, \h0001, {}, {}, {15}, {0})
    BY <1>1, <1>2, <1>8, HexIs, SMT
  <2>2. {48 + i : i \in {}} \cup {32 + i : i \in {}} \cup {16 + i : i \in {15}} \cup {0 + i : i \in {0}}
          = {0, 31}
    OBVIOUS
  <2>3. RoundConstants[6] = Hex(0, 0, \h8000, \h0001)
    BY DEF RoundConstants
  <2>4. ConstantBits[6] = {0, 31}
    BY DEF ConstantBits
  <2> QED
    BY <2>1, <2>2, <2>3, <2>4, SMT DEF Union4
<1>26. RoundConstants[7] = ConstantBits[7]
  <2>1. Union4(\h8000, 0, \h8000, \h8081, {15}, {}, {15}, {0, 7, 15})
    BY <1>1, <1>8, <1>15, HexIs, SMT
  <2>2. {48 + i : i \in {15}} \cup {32 + i : i \in {}} \cup {16 + i : i \in {15}} \cup {0 + i : i \in {0, 7, 15}}
          = {0, 7, 15, 31, 63}
    OBVIOUS
  <2>3. RoundConstants[7] = Hex(\h8000, 0, \h8000, \h8081)
    BY DEF RoundConstants
  <2>4. ConstantBits[7] = {0, 7, 15, 31, 63}
    BY DEF ConstantBits
  <2> QED
    BY <2>1, <2>2, <2>3, <2>4, SMT DEF Union4
<1>27. RoundConstants[8] = ConstantBits[8]
  <2>1. Union4(\h8000, 0, 0, \h8009, {15}, {}, {}, {0, 3, 15})
    BY <1>1, <1>8, <1>12, HexIs, SMT
  <2>2. {48 + i : i \in {15}} \cup {32 + i : i \in {}} \cup {16 + i : i \in {}} \cup {0 + i : i \in {0, 3, 15}}
          = {0, 3, 15, 63}
    OBVIOUS
  <2>3. RoundConstants[8] = Hex(\h8000, 0, 0, \h8009)
    BY DEF RoundConstants
  <2>4. ConstantBits[8] = {0, 3, 15, 63}
    BY DEF ConstantBits
  <2> QED
    BY <2>1, <2>2, <2>3, <2>4, SMT DEF Union4
<1>28. RoundConstants[9] = ConstantBits[9]
  <2>1. Union4(0, 0, 0, \h008A, {}, {}, {}, {1, 3, 7})
    BY <1>1, <1>6, HexIs, SMT
  <2>2. {48 + i : i \in {}} \cup {32 + i : i \in {}} \cup {16 + i : i \in {}} \cup {0 + i : i \in {1, 3, 7}}
          = {1, 3, 7}
    OBVIOUS
  <2>3. RoundConstants[9] = Hex(0, 0, 0, \h008A)
    BY DEF RoundConstants
  <2>4. ConstantBits[9] = {1, 3, 7}
    BY DEF ConstantBits
  <2> QED
    BY <2>1, <2>2, <2>3, <2>4, SMT DEF Union4
<1>29. RoundConstants[10] = ConstantBits[10]
  <2>1. Union4(0, 0, 0, \h0088, {}, {}, {}, {3, 7})
    BY <1>1, <1>5, HexIs, SMT
  <2>2. {48 + i : i \in {}} \cup {32 + i : i \in {}} \cup {16 + i : i \in {}} \cup {0 + i : i \in {3, 7}}
          = {3, 7}
    OBVIOUS
  <2>3. RoundConstants[10] = Hex(0, 0, 0, \h0088)
    BY DEF RoundConstants
  <2>4. ConstantBits[10] = {3, 7}
    BY DEF ConstantBits
  <2> QED
    BY <2>1, <2>2, <2>3, <2>4, SMT DEF Union4
<1>30. RoundConstants[11] = ConstantBits[11]
  <2>1. Union4(0, 0, \h8000, \h8009, {}, {}, {15}, {0, 3, 15})
    BY <1>1, <1>8, <1>12, HexIs, SMT
  <2>2. {48 + i : i \in {}} \cup {32 + i : i \in {}} \cup {16 + i : i \in {15}} \cup {0 + i : i \in {0, 3, 15}}
          = {0, 3, 15, 31}
    OBVIOUS
  <2>3. RoundConstants[11] = Hex(0, 0, \h8000, \h8009)
    BY DEF RoundConstants
  <2>4. ConstantBits[11] = {0, 3, 15, 31}
    BY DEF ConstantBits
  <2> QED
    BY <2>1, <2>2, <2>3, <2>4, SMT DEF Union4
<1>31. RoundConstants[12] = ConstantBits[12]
  <2>1. Union4(0, 0, \h8000, \h000A, {}, {}, {15}, {1, 3})
    BY <1>1, <1>3, <1>8, HexIs, SMT
  <2>2. {48 + i : i \in {}} \cup {32 + i : i \in {}} \cup {16 + i : i \in {15}} \cup {0 + i : i \in {1, 3}}
          = {1, 3, 31}
    OBVIOUS
  <2>3. RoundConstants[12] = Hex(0, 0, \h8000, \h000A)
    BY DEF RoundConstants
  <2>4. ConstantBits[12] = {1, 3, 31}
    BY DEF ConstantBits
  <2> QED
    BY <2>1, <2>2, <2>3, <2>4, SMT DEF Union4
<1>32. RoundConstants[13] = ConstantBits[13]
  <2>1. Union4(0, 0, \h8000, \h808B, {}, {}, {15}, {0, 1, 3, 7, 15})
    BY <1>1, <1>8, <1>19, HexIs, SMT
  <2>2. {48 + i : i \in {}} \cup {32 + i : i \in {}} \cup {16 + i : i \in {15}} \cup {0 + i : i \in {0, 1, 3, 7, 15}}
          = {0, 1, 3, 7, 15, 31}
    OBVIOUS
  <2>3. RoundConstants[13] = Hex(0, 0, \h8000, \h808B)
    BY DEF RoundConstants
  <2>4. ConstantBits[13] = {0, 1, 3, 7, 15, 31}
    BY DEF ConstantBits
  <2> QED
    BY <2>1, <2>2, <2>3, <2>4, SMT DEF Union4
<1>33. RoundConstants[14] = ConstantBits[14]
  <2>1. Union4(\h8000, 0, 0, \h008B, {15}, {}, {}, {0, 1, 3, 7})
    BY <1>1, <1>7, <1>8, HexIs, SMT
  <2>2. {48 + i : i \in {15}} \cup {32 + i : i \in {}} \cup {16 + i : i \in {}} \cup {0 + i : i \in {0, 1, 3, 7}}
          = {0, 1, 3, 7, 63}
    OBVIOUS
  <2>3. RoundConstants[14] = Hex(\h8000, 0, 0, \h008B)
    BY DEF RoundConstants
  <2>4. ConstantBits[14] = {0, 1, 3, 7, 63}
    BY DEF ConstantBits
  <2> QED
    BY <2>1, <2>2, <2>3, <2>4, SMT DEF Union4
<1>34. RoundConstants[15] = ConstantBits[15]
  <2>1. Union4(\h8000, 0, 0, \h8089, {15}, {}, {}, {0, 3, 7, 15})
    BY <1>1, <1>8, <1>17, HexIs, SMT
  <2>2. {48 + i : i \in {15}} \cup {32 + i : i \in {}} \cup {16 + i : i \in {}} \cup {0 + i : i \in {0, 3, 7, 15}}
          = {0, 3, 7, 15, 63}
    OBVIOUS
  <2>3. RoundConstants[15] = Hex(\h8000, 0, 0, \h8089)
    BY DEF RoundConstants
  <2>4. ConstantBits[15] = {0, 3, 7, 15, 63}
    BY DEF ConstantBits
  <2> QED
    BY <2>1, <2>2, <2>3, <2>4, SMT DEF Union4
<1>35. RoundConstants[16] = ConstantBits[16]
  <2>1. Union4(\h8000, 0, 0, \h8003, {15}, {}, {}, {0, 1, 15})
    BY <1>1, <1>8, <1>10, HexIs, SMT
  <2>2. {48 + i : i \in {15}} \cup {32 + i : i \in {}} \cup {16 + i : i \in {}} \cup {0 + i : i \in {0, 1, 15}}
          = {0, 1, 15, 63}
    OBVIOUS
  <2>3. RoundConstants[16] = Hex(\h8000, 0, 0, \h8003)
    BY DEF RoundConstants
  <2>4. ConstantBits[16] = {0, 1, 15, 63}
    BY DEF ConstantBits
  <2> QED
    BY <2>1, <2>2, <2>3, <2>4, SMT DEF Union4
<1>36. RoundConstants[17] = ConstantBits[17]
  <2>1. Union4(\h8000, 0, 0, \h8002, {15}, {}, {}, {1, 15})
    BY <1>1, <1>8, <1>9, HexIs, SMT
  <2>2. {48 + i : i \in {15}} \cup {32 + i : i \in {}} \cup {16 + i : i \in {}} \cup {0 + i : i \in {1, 15}}
          = {1, 15, 63}
    OBVIOUS
  <2>3. RoundConstants[17] = Hex(\h8000, 0, 0, \h8002)
    BY DEF RoundConstants
  <2>4. ConstantBits[17] = {1, 15, 63}
    BY DEF ConstantBits
  <2> QED
    BY <2>1, <2>2, <2>3, <2>4, SMT DEF Union4
<1>37. RoundConstants[18] = ConstantBits[18]
  <2>1. Union4(\h8000, 0, 0, \h0080, {15}, {}, {}, {7})
    BY <1>1, <1>4, <1>8, HexIs, SMT
  <2>2. {48 + i : i \in {15}} \cup {32 + i : i \in {}} \cup {16 + i : i \in {}} \cup {0 + i : i \in {7}}
          = {7, 63}
    OBVIOUS
  <2>3. RoundConstants[18] = Hex(\h8000, 0, 0, \h0080)
    BY DEF RoundConstants
  <2>4. ConstantBits[18] = {7, 63}
    BY DEF ConstantBits
  <2> QED
    BY <2>1, <2>2, <2>3, <2>4, SMT DEF Union4
<1>38. RoundConstants[19] = ConstantBits[19]
  <2>1. Union4(0, 0, 0, \h800A, {}, {}, {}, {1, 3, 15})
    BY <1>1, <1>13, HexIs, SMT
  <2>2. {48 + i : i \in {}} \cup {32 + i : i \in {}} \cup {16 + i : i \in {}} \cup {0 + i : i \in {1, 3, 15}}
          = {1, 3, 15}
    OBVIOUS
  <2>3. RoundConstants[19] = Hex(0, 0, 0, \h800A)
    BY DEF RoundConstants
  <2>4. ConstantBits[19] = {1, 3, 15}
    BY DEF ConstantBits
  <2> QED
    BY <2>1, <2>2, <2>3, <2>4, SMT DEF Union4
<1>39. RoundConstants[20] = ConstantBits[20]
  <2>1. Union4(\h8000, 0, \h8000, \h000A, {15}, {}, {15}, {1, 3})
    BY <1>1, <1>3, <1>8, HexIs, SMT
  <2>2. {48 + i : i \in {15}} \cup {32 + i : i \in {}} \cup {16 + i : i \in {15}} \cup {0 + i : i \in {1, 3}}
          = {1, 3, 31, 63}
    OBVIOUS
  <2>3. RoundConstants[20] = Hex(\h8000, 0, \h8000, \h000A)
    BY DEF RoundConstants
  <2>4. ConstantBits[20] = {1, 3, 31, 63}
    BY DEF ConstantBits
  <2> QED
    BY <2>1, <2>2, <2>3, <2>4, SMT DEF Union4
<1>40. RoundConstants[21] = ConstantBits[21]
  <2>1. Union4(\h8000, 0, \h8000, \h8081, {15}, {}, {15}, {0, 7, 15})
    BY <1>1, <1>8, <1>15, HexIs, SMT
  <2>2. {48 + i : i \in {15}} \cup {32 + i : i \in {}} \cup {16 + i : i \in {15}} \cup {0 + i : i \in {0, 7, 15}}
          = {0, 7, 15, 31, 63}
    OBVIOUS
  <2>3. RoundConstants[21] = Hex(\h8000, 0, \h8000, \h8081)
    BY DEF RoundConstants
  <2>4. ConstantBits[21] = {0, 7, 15, 31, 63}
    BY DEF ConstantBits
  <2> QED
    BY <2>1, <2>2, <2>3, <2>4, SMT DEF Union4
<1>41. RoundConstants[22] = ConstantBits[22]
  <2>1. Union4(\h8000, 0, 0, \h8080, {15}, {}, {}, {7, 15})
    BY <1>1, <1>8, <1>14, HexIs, SMT
  <2>2. {48 + i : i \in {15}} \cup {32 + i : i \in {}} \cup {16 + i : i \in {}} \cup {0 + i : i \in {7, 15}}
          = {7, 15, 63}
    OBVIOUS
  <2>3. RoundConstants[22] = Hex(\h8000, 0, 0, \h8080)
    BY DEF RoundConstants
  <2>4. ConstantBits[22] = {7, 15, 63}
    BY DEF ConstantBits
  <2> QED
    BY <2>1, <2>2, <2>3, <2>4, SMT DEF Union4
<1>42. RoundConstants[23] = ConstantBits[23]
  <2>1. Union4(0, 0, \h8000, \h0001, {}, {}, {15}, {0})
    BY <1>1, <1>2, <1>8, HexIs, SMT
  <2>2. {48 + i : i \in {}} \cup {32 + i : i \in {}} \cup {16 + i : i \in {15}} \cup {0 + i : i \in {0}}
          = {0, 31}
    OBVIOUS
  <2>3. RoundConstants[23] = Hex(0, 0, \h8000, \h0001)
    BY DEF RoundConstants
  <2>4. ConstantBits[23] = {0, 31}
    BY DEF ConstantBits
  <2> QED
    BY <2>1, <2>2, <2>3, <2>4, SMT DEF Union4
<1>43. RoundConstants[24] = ConstantBits[24]
  <2>1. Union4(\h8000, 0, \h8000, \h8008, {15}, {}, {15}, {3, 15})
    BY <1>1, <1>8, <1>11, HexIs, SMT
  <2>2. {48 + i : i \in {15}} \cup {32 + i : i \in {}} \cup {16 + i : i \in {15}} \cup {0 + i : i \in {3, 15}}
          = {3, 15, 31, 63}
    OBVIOUS
  <2>3. RoundConstants[24] = Hex(\h8000, 0, \h8000, \h8008)
    BY DEF RoundConstants
  <2>4. ConstantBits[24] = {3, 15, 31, 63}
    BY DEF ConstantBits
  <2> QED
    BY <2>1, <2>2, <2>3, <2>4, SMT DEF Union4
<1>44. ASSUME NEW r \in 1..24 PROVE RoundConstants[r] = ConstantBits[r]
  <2>1. r = 1 \/ r = 2 \/ r = 3 \/ r = 4 \/ r = 5 \/ r = 6 \/ r = 7 \/ r = 8 \/ r = 9 \/ r = 10 \/ r = 11
        \/ r = 12 \/ r = 13 \/ r = 14 \/ r = 15 \/ r = 16 \/ r = 17 \/ r = 18 \/ r = 19 \/ r = 20 \/ r = 21
        \/ r = 22 \/ r = 23 \/ r = 24
    OBVIOUS
  <2> QED
    BY <2>1, <1>20, <1>21, <1>22, <1>23, <1>24, <1>25, <1>26, <1>27, <1>28, <1>29, <1>30, <1>31,
       <1>32, <1>33, <1>34, <1>35, <1>36, <1>37, <1>38, <1>39, <1>40, <1>41, <1>42,
       <1>43
<1> QED
  BY <1>44

(* A constant is a word.                                                   *)
LEMMA ConstantType == \A r \in 1..24 : ConstantBits[r] \in Word64
<1>1. ASSUME NEW r \in 1..24 PROVE ConstantBits[r] \in SUBSET (0..63)
  BY DEF ConstantBits
<1> QED
  BY <1>1 DEF Word64

-----------------------------------------------------------------------------
(* The permutation.                                                        *)

(* What holds of it between two steps: the state is that of the round's     *)
(* start with the steps done so far, and the register is the round's.       *)
KfInv ==
  /\ kfRound \in 0..24
  /\ kfStep \in {"theta", "rhopi", "chi", "iota", "done"}
  /\ kfStep = "done" <=> kfRound = 24
  /\ kfState \in States25 /\ kfBefore \in States25
  /\ kfLfsr = Registers[kfRound + 1]
  /\ kfStep = "rhopi" => kfState = Theta(kfBefore)
  /\ kfStep = "chi" => kfState = RhoPi(Theta(kfBefore))
  /\ kfStep = "iota" => kfState = Chi(RhoPi(Theta(kfBefore)))
  /\ RoundsAreKeccakF

(* The start.                                                              *)
LEMMA KfStarts == KfInit => KfInv
<1> SUFFICES ASSUME KfInit PROVE KfInv
  OBVIOUS
<1>1. /\ kfState \in States25 /\ kfBefore \in States25
      /\ kfLfsr = {0} /\ kfRound = 0 /\ kfStep = "theta"
  BY StatesAssumption DEF KfInit, States25
<1>2. Registers[0 + 1] = {0}
  BY DEF Registers
<1> QED
  BY <1>1, <1>2 DEF KfInv, RoundsAreKeccakF

(* The first three steps of a round.                                       *)
LEMMA KfSteps ==
  ASSUME KfInv, DoTheta \/ DoRhoPi \/ DoChi
  PROVE  KfInv'
<1>1. /\ kfRound \in 0..24 /\ (kfStep = "done" <=> kfRound = 24)
      /\ kfState \in States25 /\ kfBefore \in States25
      /\ kfLfsr = Registers[kfRound + 1]
  BY DEF KfInv
<1>2. CASE DoTheta
  <2>1. /\ kfStep = "theta" /\ kfStep' = "rhopi" /\ kfState' = Theta(kfState) /\ kfBefore' = kfState
        /\ kfLfsr' = kfLfsr /\ kfRound' = kfRound
    BY <1>2 DEF DoTheta
  <2>2. kfState' \in States25
    BY <1>1, <2>1, ThetaIs
  <2> QED
    BY <1>1, <2>1, <2>2 DEF KfInv, RoundsAreKeccakF
<1>3. CASE DoRhoPi
  <2>1. /\ kfStep = "rhopi" /\ kfStep' = "chi" /\ kfState' = RhoPi(kfState) /\ kfBefore' = kfBefore
        /\ kfLfsr' = kfLfsr /\ kfRound' = kfRound
    BY <1>3 DEF DoRhoPi
  <2>2. kfState' \in States25
    BY <1>1, <2>1, RhoPiIs
  <2>3. kfState = Theta(kfBefore)
    BY <2>1 DEF KfInv
  <2> QED
    BY <1>1, <2>1, <2>2, <2>3 DEF KfInv, RoundsAreKeccakF
<1>4. CASE DoChi
  <2>1. /\ kfStep = "chi" /\ kfStep' = "iota" /\ kfState' = Chi(kfState) /\ kfBefore' = kfBefore
        /\ kfLfsr' = kfLfsr /\ kfRound' = kfRound
    BY <1>4 DEF DoChi
  <2>2. kfState' \in States25
    BY <1>1, <2>1, ChiType
  <2>3. kfState = RhoPi(Theta(kfBefore))
    BY <2>1 DEF KfInv
  <2> QED
    BY <1>1, <2>1, <2>2, <2>3 DEF KfInv, RoundsAreKeccakF
<1> QED
  BY <1>2, <1>3, <1>4

(* The last step: the register gives the round's constant, and the round   *)
(* done is the round of the definition.                                    *)
LEMMA KfRoundEnds ==
  ASSUME KfInv, DoIota
  PROVE  KfInv'
<1>1. /\ kfRound \in 0..24 /\ (kfStep = "done" <=> kfRound = 24)
      /\ kfState \in States25 /\ kfBefore \in States25
      /\ kfLfsr = Registers[kfRound + 1]
      /\ kfStep = "iota" => kfState = Chi(RhoPi(Theta(kfBefore)))
  BY DEF KfInv
<1>2. PICK next : next = KeccakF1600_GetNextRoundConstant(kfLfsr)
  OBVIOUS
<1>3. /\ kfStep = "iota" /\ kfState' = [kfState EXCEPT ![0] = Xor64(@, next.constant)]
      /\ kfLfsr' = next.lfsr /\ kfRound' = kfRound + 1 /\ kfBefore' = kfBefore
      /\ kfStep' = IF kfRound' = 24 THEN "done" ELSE "theta"
  BY <1>2 DEF DoIota, cKeccakNumberOfRounds
<1>4. PICK r \in 1..24 : r = kfRound + 1
  BY <1>1, <1>3
<1>5. next.lfsr = Registers[r + 1] /\ next.constant = ConstantBits[r]
  <2>1. NextRegister(r)
    BY RegistersAre
  <2>2. next = [lfsr |-> Registers[r + 1], constant |-> ConstantBits[r]]
    BY <1>1, <1>2, <1>4, <2>1 DEF NextRegister
  <2> QED
    BY <2>2
<1>6. ConstantBits[r] = RoundConstants[r] /\ ConstantBits[r] \in Word64
  BY ConstantsAre, ConstantType
<1>7. kfState' \in States25
  <2>1. kfState[0] \in Word64
    <3>1. 0 \in 0..24
      OBVIOUS
    <3> QED
      BY <1>1, <3>1 DEF States25
  <2>2. PICK w \in Word64 : w = Xor64(kfState[0], ConstantBits[r])
    <3>1. 0 \in Nat
      OBVIOUS
    <3> QED
      BY <1>6, <2>1, <3>1, WordsStay
  <2>3. kfState' = [kfState EXCEPT ![0] = w]
    BY <1>3, <1>5, <2>2
  <2> QED
    BY <1>1, <2>3 DEF States25
<1>8. kfState' = KeccakRound(kfBefore, r)
  <2>1. kfState = Chi(RhoPi(Theta(kfBefore)))
    BY <1>1, <1>3
  <2> QED
    BY <1>1, <1>3, <1>5, <1>6, <2>1, RoundOfKeccak
<1>9. /\ kfRound' \in 0..24 /\ kfRound' = r
      /\ kfStep' \in {"theta", "rhopi", "chi", "iota", "done"}
      /\ kfStep' = "done" <=> kfRound' = 24
      /\ kfStep' # "rhopi" /\ kfStep' # "chi" /\ kfStep' # "iota"
  BY <1>3, <1>4
<1>10. RoundsAreKeccakF'
  BY <1>3, <1>8, <1>9 DEF RoundsAreKeccakF
<1>11. kfLfsr' = Registers[kfRound' + 1]
  BY <1>3, <1>5, <1>9
<1> QED
  BY <1>1, <1>3, <1>7, <1>9, <1>10, <1>11 DEF KfInv

(* The permutation keeps its invariant: the state is 25 words, that of the *)
(* round's start after the steps done so far, and the shift register holds *)
(* the round's value.                                                      *)
THEOREM KfInvariant == KfSpec => []KfInv
<1>1. KfInit => KfInv
  BY KfStarts
<1>2. KfInv /\ [KfNext]_kfVars => KfInv'
  <2> SUFFICES ASSUME KfInv, [KfNext]_kfVars PROVE KfInv'
    OBVIOUS
  <2>1. CASE DoTheta \/ DoRhoPi \/ DoChi
    BY <2>1, KfSteps
  <2>2. CASE DoIota
    BY <2>2, KfRoundEnds
  <2>3. CASE UNCHANGED kfVars
    BY <2>3 DEF KfInv, RoundsAreKeccakF, kfVars
  <2> QED
    BY <2>1, <2>2, <2>3 DEF KfNext
<1> QED
  BY <1>1, <1>2, PTL DEF KfSpec

(* Every round of KeccakF1600_StatePermute is the round of Keccak-f, for   *)
(* every state: the columns' parities, the walk over the lanes with its    *)
(* tables, the rows and the constants of the shift register are those of   *)
(* the definition on coordinates (RoundsAreKeccakF).                       *)
THEOREM RoundsAreKeccakFHolds == KfSpec => []RoundsAreKeccakF
<1>1. KfInv => RoundsAreKeccakF
  BY DEF KfInv
<1> QED
  BY <1>1, KfInvariant, PTL
=============================================================================
