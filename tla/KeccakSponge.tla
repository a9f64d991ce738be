----------------------------- MODULE KeccakSponge -----------------------------
(* The Keccak sponge of hash/KeccakSponge.c and the hash interface of          *)
(* hash/KeccakHash.c on top of it: input is XORed into the first bytes of the  *)
(* state (the rate), every full block of it is followed by the permutation,    *)
(* the padding ends the input, and the output is read from the same bytes.     *)
(*                                                                             *)
(* The permutation is symbolic (its arithmetic is in KeccakF.tla): a state is  *)
(* the sequence of what was XORed in before each permutation so far, and what  *)
(* was XORed in since the last. What is XORed in is a set of <<byte of the      *)
(* state, token>>: tokens 0..7 are the bits of that byte, a greater token a     *)
(* whole byte of data, unknown.                                                 *)
EXTENDS Integers, SequencesExt

CONSTANTS Rates,       \* rates in bits
          DelimitedSuffixes, \* delimited suffixes, each the set of its one bits
          InputBits,   \* lengths of one HashUpdate, in bits
          OutputBytes, \* lengths of one HashSqueeze; the fixed output lengths
          MaxInput,    \* bound: bytes of input
          MaxOutput    \* bound: bytes of output

ASSUME SpongeAssumption ==
  /\ \A r \in Rates : r \in Nat /\ r <= 1600 /\ r % 8 = 0
  /\ \A s \in DelimitedSuffixes : s \subseteq 0..7
  /\ InputBits \subseteq Nat /\ OutputBytes \subseteq Nat
  /\ MaxInput \in Nat /\ MaxOutput \in Nat

(* Lengths fit an unsigned int, so the casts of what is left of a call's data *)
(* (KeccakSponge.c:70 and 179) change nothing. All lengths of the program are  *)
(* below 256 bytes. No proof uses this.                                        *)
ASSUME LengthAssumption ==
  \A n \in OutputBytes \cup {MaxInput} : n \div 65536 < 65536

VARIABLES spHash,    \* Keccak_HashInstance
          spGiven,   \* bytes given to HashUpdate so far
          spTail,    \* the bits of the last, partial byte: [n, ones]
          spAsked,   \* the suffix HashInitialize was given
          spOut,     \* the output read so far
          spPhase    \* "fresh", "absorbing", "squeezing"

spVars == <<spHash, spGiven, spTail, spAsked, spOut, spPhase>>

Data(from, n) == [i \in 1..n |-> {1000 + from + i}]
BytesIn(bits) == bits \div 8

(* --------------------- the state (Keccak-compact64.c) -------------------- *)

KeccakF1600_StateInitialize == [perms |-> << >>, since |-> {}]

XorBits(a, b) == (a \ b) \cup (b \ a)

(* StateXORBytesInLane, StateXORLanes: data is a sequence of bytes (sets of    *)
(* tokens) for the bytes of the state from `at` on. In what pieces of a lane   *)
(* the bytes are passed makes no difference to the state.                       *)
KeccakF1600_StateXORBytes(st, at, data) ==
  [st EXCEPT !.since = XorBits(@, UNION {{<<at + i - 1, t>> : t \in data[i]} : i \in DOMAIN data})]

KeccakF1600_StateComplementBit(st, position) ==
  [st EXCEPT !.since = XorBits(@, {<<position \div 8, position % 8>>})]

KeccakF1600_StatePermute(st) == [perms |-> Append(st.perms, st.since), since |-> {}]

(* A byte read: which byte of the state, after how many permutations, and     *)
(* what was XORed on it since.                                                 *)
KeccakF1600_StateExtractBytes(st, at, n) ==
  [i \in 1..n |-> [after |-> Len(st.perms), byte |-> at + i - 1,
                   since |-> {x \in st.since : x[1] = at + i - 1}]]

(* --------------------------- KeccakSponge.c ------------------------------ *)

NoSponge == [state |-> KeccakF1600_StateInitialize, rate |-> 0, byteIOIndex |-> 0,
             squeezing |-> FALSE]

SpongeAccepts(rate, capacity) ==
  /\ rate + capacity = 1600
  /\ rate > 0 /\ rate <= 1600 /\ rate % 8 = 0

Keccak_SpongeInitialize(rate) ==
  [state |-> KeccakF1600_StateInitialize, rate |-> rate, byteIOIndex |-> 0, squeezing |-> FALSE]

(* Mutant: a block ends one byte early. *)
BlockIsFullEarly(s, n) == n >= s.rate \div 8 - 1

(* byteIOIndex has come to the end of the rate. *)
BlockIsFull(s, n) == n = s.rate \div 8

(* One turn of the loop takes a whole block (the fast lane) or what still fits *)
(* into the block begun (the normal lane), and permutes at the end of a block. *)
(* a.at bytes were taken before.                                                *)
AbsorbTurn(a, data) ==
  LET s    == a.sponge
      room == s.rate \div 8 - s.byteIOIndex
      left == Len(data) - a.at
      n    == IF left > room THEN room ELSE left
      st   == KeccakF1600_StateXORBytes(s.state, s.byteIOIndex, SubSeq(data, a.at + 1, a.at + n))
      full == BlockIsFull(s, s.byteIOIndex + n)
  IN  IF left = 0 THEN a
      ELSE [sponge |-> [s EXCEPT !.state = IF full THEN KeccakF1600_StatePermute(st) ELSE st,
                                 !.byteIOIndex = IF full THEN 0 ELSE @ + n],
            at |-> a.at + n]

(* The turns n bytes can take: the block begun, whole blocks, and the rest. *)
MaxTurns(s, n) == n \div (s.rate \div 8) + 2

(* What every turn leaves. *)
AbsorbTurns(s, data) ==
  LET after[i \in 0..MaxTurns(s, Len(data))] == IF i = 0 THEN [sponge |-> s, at |-> 0]
                                                ELSE AbsorbTurn(after[i - 1], data)
  IN  after

Keccak_SpongeAbsorb(s, data) == AbsorbTurns(s, data)[MaxTurns(s, Len(data))].sponge

(* The first bit of the padding is the last bit of the rate. *)
NeedsAnotherBlock(s, delimited) ==
  /\ 7 \in delimited
  /\ s.byteIOIndex = s.rate \div 8 - 1

(* The last bits, delimited by the first one of the padding, then the one at   *)
(* the end of the rate, in a block of its own when the first one sits there.   *)
Keccak_SpongeAbsorbLastFewBits(s, delimited) ==
  LET st  == KeccakF1600_StateXORBytes(s.state, s.byteIOIndex, << delimited >>)
      st2 == IF NeedsAnotherBlock(s, delimited) THEN KeccakF1600_StatePermute(st) ELSE st
  IN  [s EXCEPT !.state = KeccakF1600_StatePermute(
                            KeccakF1600_StateComplementBit(st2, s.rate - 1)),
                !.byteIOIndex = 0, !.squeezing = TRUE]

(* Output bytes come from the rate; with all of it read, the state is permuted *)
(* before the next byte.                                                       *)
SqueezeTurn(a, n) ==
  LET s    == a.sponge
      t    == IF s.byteIOIndex = s.rate \div 8
                THEN [s EXCEPT !.state = KeccakF1600_StatePermute(@), !.byteIOIndex = 0] ELSE s
      room == t.rate \div 8 - t.byteIOIndex
      left == n - Len(a.out)
      k    == IF left > room THEN room ELSE left
  IN  IF left = 0 THEN a
      ELSE [sponge |-> [t EXCEPT !.byteIOIndex = @ + k],
            out |-> a.out \o KeccakF1600_StateExtractBytes(t.state, t.byteIOIndex, k)]

SqueezeTurns(s, n) ==
  LET after[i \in 0..MaxTurns(s, n)] == IF i = 0 THEN [sponge |-> s, out |-> << >>]
                                        ELSE SqueezeTurn(after[i - 1], n)
  IN  after

Keccak_SpongeSqueeze(s, n) ==
  LET ready == IF s.squeezing THEN s ELSE Keccak_SpongeAbsorbLastFewBits(s, {0})
  IN  SqueezeTurns(ready, n)[MaxTurns(ready, n)]

(* ---------------------------- KeccakHash.c ------------------------------- *)

HashAccepts(rate, capacity, suffix) == suffix # {} /\ SpongeAccepts(rate, capacity)

Keccak_HashInitialize(rate, outputBytes, suffix) ==
  [sponge |-> Keccak_SpongeInitialize(rate), fixedOutputLength |-> outputBytes,
   delimitedSuffix |-> suffix]

(* Mutant: the suffix is put on byte boundaries, over the partial byte. *)
JoinSuffixOver(tail, suffix) == tail.ones \cup suffix

(* lastByte | (delimitedSuffix << (databitlen % 8)), 16 bits. *)
JoinSuffix(tail, suffix) == tail.ones \cup {b + tail.n : b \in suffix}

(* Whole bytes are absorbed; a partial last byte is joined with the suffix,    *)
(* and absorbed as a byte of its own when the two fill it.                      *)
Keccak_HashUpdate(h, bytes, tail) ==
  LET absorbed == Keccak_SpongeAbsorb(h.sponge, bytes)
      last     == JoinSuffix(tail, h.delimitedSuffix)
      low      == {b \in last : b < 8}
      high     == {b - 8 : b \in last \ low}
  IN  CASE tail.n = 0 -> [h EXCEPT !.sponge = absorbed]
        [] tail.n > 0 /\ high = {} -> [h EXCEPT !.sponge = absorbed, !.delimitedSuffix = low]
        [] tail.n > 0 /\ high # {} -> [h EXCEPT !.sponge = Keccak_SpongeAbsorb(absorbed, << low >>),
                                                !.delimitedSuffix = high]

(* What Final writes, with the instance it leaves. *)
Keccak_HashFinal(h) ==
  LET r == Keccak_SpongeSqueeze(Keccak_SpongeAbsorbLastFewBits(h.sponge, h.delimitedSuffix),
                                h.fixedOutputLength)
  IN  [hash |-> [h EXCEPT !.sponge = r.sponge], out |-> r.out]

Keccak_HashSqueeze(h, n) ==
  LET r == Keccak_SpongeSqueeze(h.sponge, n)
  IN  [hash |-> [h EXCEPT !.sponge = r.sponge], out |-> r.out]

(* ------------------------- one instance in use --------------------------- *)

NoTail == [n |-> 0, ones |-> {}]

SpInit ==
  /\ spHash = [sponge |-> NoSponge, fixedOutputLength |-> 0, delimitedSuffix |-> {}]
  /\ spGiven = 0 /\ spTail = NoTail /\ spAsked = {} /\ spOut = << >> /\ spPhase = "fresh"

(* FAIL, and nothing happens, for a rate and capacity that do not add up to    *)
(* 1600 bits or an empty suffix.                                               *)
CallHashInitialize(rate, capacity, n, suffix) ==
  /\ spPhase = "fresh"
  /\ HashAccepts(rate, capacity, suffix)
  /\ spHash' = Keccak_HashInitialize(rate, n, suffix)
  /\ spAsked' = suffix /\ spPhase' = "absorbing"
  /\ UNCHANGED <<spGiven, spTail, spOut>>

(* As its comment asks, only the last call has a partial byte. Absorbing again *)
(* after the output has begun is refused (KeccakSponge.c:47 and 111): no caller *)
(* does so.                                                                     *)
CallHashUpdate(bits, ones) ==
  /\ spPhase = "absorbing" /\ spTail.n = 0
  /\ spGiven + BytesIn(bits) <= MaxInput
  /\ spTail' = [n |-> bits % 8, ones |-> ones]
  /\ spHash' = Keccak_HashUpdate(spHash, Data(spGiven, BytesIn(bits)), spTail')
  /\ spGiven' = spGiven + BytesIn(bits)
  /\ UNCHANGED <<spAsked, spOut, spPhase>>

CallHashFinal ==
  /\ spPhase = "absorbing"
  /\ LET r == Keccak_HashFinal(spHash)
     IN  spHash' = r.hash /\ spOut' = r.out
  /\ spPhase' = "squeezing"
  /\ UNCHANGED <<spGiven, spTail, spAsked>>

(* Lengths are in bytes, so FAIL for bits left over (KeccakHash.c:76) has no    *)
(* occasion.                                                                    *)
CallHashSqueeze(n) ==
  /\ spPhase = "squeezing"
  /\ Len(spOut) + n <= MaxOutput
  /\ LET r == Keccak_HashSqueeze(spHash, n)
     IN  spHash' = r.hash /\ spOut' = spOut \o r.out
  /\ UNCHANGED <<spGiven, spTail, spAsked, spPhase>>

SpNext ==
  \/ \E rate \in Rates, n \in OutputBytes, suffix \in DelimitedSuffixes :
       CallHashInitialize(rate, 1600 - rate, n, suffix)
  \/ \E bits \in InputBits :
       \E ones \in {{}, 0..(bits % 8) - 1} : CallHashUpdate(bits, ones)
  \/ CallHashFinal
  \/ \E n \in OutputBytes : CallHashSqueeze(n)

SpSpec == SpInit /\ [][SpNext]_spVars

(* ------------------ what the sponge is, by its definition ---------------- *)

(* The message, the bits of the suffix, a one, as few zeroes as make it whole  *)
(* blocks with the final one. The suffix has its own one as a delimiter.       *)
PaddedBlocks(rate, bytes, tail, suffix) ==
  LET from   == 8 * Len(bytes) + tail.n
      ones   == {8 * Len(bytes) + b : b \in tail.ones} \cup {from + b : b \in suffix}
      first  == CHOOSE b \in ones : \A c \in ones : c <= b   \* the delimiter
      blocks == (first + 1) \div rate + 1
      all    == {<<b \div 8, b % 8>> : b \in ones \cup {blocks * rate - 1}}
                  \cup UNION {{<<i - 1, t>> : t \in bytes[i]} : i \in DOMAIN bytes}
  IN  [k \in 1..blocks |->
         {<<x[1] - (k - 1) * (rate \div 8), x[2]>> :
            x \in {y \in all : y[1] \div (rate \div 8) = k - 1}}]

(* Byte j of the output is byte j of the rate, after one permutation more for  *)
(* every rate of it.                                                           *)
SqueezedBytes(rate, blocks, n) ==
  [j \in 1..n |-> [after |-> blocks + (j - 1) \div (rate \div 8),
                   byte |-> (j - 1) % (rate \div 8), since |-> {}]]

(* ------------------------------- properties ------------------------------ *)

(* While input comes the sponge has permuted once for each full block and      *)
(* holds the rest, whatever the pieces were, and byteIOIndex is where the next  *)
(* byte goes: Keccak_SpongeAbsorb.                                              *)
AbsorbsInOrder ==
  (spPhase = "absorbing" /\ spTail.n = 0) =>
    LET R    == spHash.sponge.rate \div 8
        full == spGiven \div R
    IN  /\ spHash.sponge.state.perms =
             [k \in 1..full |-> {<<i, 1000 + (k - 1) * R + i + 1>> : i \in 0..R - 1}]
        /\ spHash.sponge.state.since = {<<i, 1000 + full * R + i + 1>> : i \in 0..(spGiven % R) - 1}
        /\ spHash.sponge.byteIOIndex = spGiven % R

(* After Final the blocks that went through the permutation are the padded     *)
(* message, and every byte of the output, over any number of squeezes, is the   *)
(* next byte of the rate: Keccak_HashUpdate, _HashFinal, _HashSqueeze and        *)
(* Keccak_SpongeAbsorbLastFewBits.                                               *)
HashIsKeccak ==
  spPhase = "squeezing" =>
    LET rate   == spHash.sponge.rate
        blocks == PaddedBlocks(rate, Data(0, spGiven), spTail, spAsked)
        perms  == spHash.sponge.state.perms
    IN  /\ perms = blocks \o [k \in 1..Len(perms) - Len(blocks) |-> {}]
        /\ spOut = SqueezedBytes(rate, Len(blocks), Len(spOut))
=============================================================================
