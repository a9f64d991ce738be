------------------------------- MODULE KeccakF -------------------------------
(* The permutation Keccak-f[1600] as hash/Keccak-compact64.c computes it: in   *)
(* place, lane by lane, on an array of 25 words, with the tables of the lanes'  *)
(* order and rotations and a shift register for the round constants; one step    *)
(* of a round an action.                                                         *)
EXTENDS Word64, SequencesExt

CONSTANTS States  \* the states to permute

ASSUME StatesAssumption == States \subseteq [0..24 -> Word64]

VARIABLES kfState,  \* state[25]
          kfBefore, \* the state at the start of the round (for the property)
          kfLfsr,   \* LFSRstate
          kfRound,  \* rounds done
          kfStep    \* the next step of the round, or "done"

kfVars == <<kfState, kfBefore, kfLfsr, kfRound, kfStep>>

cKeccakNumberOfRounds == 24

KeccakF_RotationConstants ==
  << 1, 3, 6, 10, 15, 21, 28, 36, 45, 55, 2, 14, 27, 41, 56, 8, 25, 43, 62, 18, 39, 61, 20, 44 >>

KeccakF_PiLane ==
  << 10, 7, 11, 17, 18, 3, 5, 16, 8, 21, 24, 4, 15, 23, 19, 13, 12, 2, 20, 14, 22, 9, 6, 1 >>

(* BC[x] is the XOR of column x; every lane of column x takes the columns on   *)
(* both sides of it, the right one turned by one.                                *)
Theta(st) ==
  LET BC == [x \in 0..4 |->
              Xor64(Xor64(Xor64(Xor64(st[x], st[5 + x]), st[10 + x]), st[15 + x]), st[20 + x])]
      temp == [x \in 0..4 |-> Xor64(BC[(x + 4) % 5], RotL64(BC[(x + 1) % 5], 1))]
  IN  [i \in 0..24 |-> Xor64(st[i], temp[i % 5])]

(* Mutant: a lane is read after it has been written. *)
RhoPiNoTemp(st) ==
  LET walked[x \in 0..24] ==
        IF x = 0 THEN st
        ELSE LET s == walked[x - 1]
             IN  [s EXCEPT ![KeccakF_PiLane[x]] = RotL64(s[IF x = 1 THEN 1 ELSE KeccakF_PiLane[x - 1]],
                                                         KeccakF_RotationConstants[x])]
  IN  walked[24]

(* One chain through all the lanes but the first, each put where the next one   *)
(* was, with the lane that was there kept in temp.                               *)
RhoPi(st) ==
  LET walked[x \in 0..24] ==
        IF x = 0 THEN [state |-> st, temp |-> st[1]]
        ELSE LET a == walked[x - 1]
             IN  [state |-> [a.state EXCEPT ![KeccakF_PiLane[x]] =
                               RotL64(a.temp, KeccakF_RotationConstants[x])],
                  temp  |-> a.state[KeccakF_PiLane[x]]]
  IN  walked[24].state

(* Row by row: BC[x] ^ (~BC[x+1] & BC[x+2]). *)
Chi(st) ==
  [i \in 0..24 |-> LET row == i - (i % 5)
                       BC(x) == st[row + (x % 5)]
                   IN  Xor64(BC(i % 5), BC((i % 5) + 2) \ BC((i % 5) + 1))]

(* KeccakF1600_GetNextRoundConstant: seven turns of the register, turn j       *)
(* giving the bit 2^(j-1) - 1 of the constant.                                      *)
ShiftRegister(lfsr) ==
  LET shifted == {b + 1 : b \in lfsr} \ {8}
  IN  IF 7 \in lfsr THEN Xor64(shifted, {0, 4, 5, 6}) ELSE shifted

KeccakF1600_GetNextRoundConstant(lfsr) ==
  LET turned[j \in 0..7] ==
        IF j = 0 THEN [lfsr |-> lfsr, constant |-> {}]
        ELSE LET a == turned[j - 1]
             IN  [lfsr |-> ShiftRegister(a.lfsr),
                  constant |-> IF 0 \in a.lfsr THEN a.constant \cup {Power(2, j - 1) - 1}
                               ELSE a.constant]
  IN  turned[7]

KfInit ==
  /\ kfState \in States /\ kfBefore = kfState
  /\ kfLfsr = {0} /\ kfRound = 0 /\ kfStep = "theta"

DoTheta ==
  /\ kfStep = "theta"
  /\ kfState' = Theta(kfState) /\ kfBefore' = kfState /\ kfStep' = "rhopi"
  /\ UNCHANGED <<kfLfsr, kfRound>>

DoRhoPi ==
  /\ kfStep = "rhopi"
  /\ kfState' = RhoPi(kfState) /\ kfStep' = "chi"
  /\ UNCHANGED <<kfBefore, kfLfsr, kfRound>>

DoChi ==
  /\ kfStep = "chi"
  /\ kfState' = Chi(kfState) /\ kfStep' = "iota"
  /\ UNCHANGED <<kfBefore, kfLfsr, kfRound>>

DoIota ==
  /\ kfStep = "iota"
  /\ LET next == KeccakF1600_GetNextRoundConstant(kfLfsr)
     IN  kfState' = [kfState EXCEPT ![0] = Xor64(@, next.constant)] /\ kfLfsr' = next.lfsr
  /\ kfRound' = kfRound + 1
  /\ kfStep' = IF kfRound' = cKeccakNumberOfRounds THEN "done" ELSE "theta"
  /\ UNCHANGED kfBefore

KfNext == DoTheta \/ DoRhoPi \/ DoChi \/ DoIota

KfSpec == KfInit /\ [][KfNext]_kfVars

(* ------------- a round of Keccak-f on coordinates, by definition ---------- *)

(* Lane (x, y) is lane x + 5y of the array. The lane that comes t steps after   *)
(* (1, 0) under (x, y) -> (y, 2x + 3y) is turned by (t+1)(t+2)/2.                 *)
LaneAt[t \in 0..23] ==
  IF t = 0 THEN <<1, 0>>
  ELSE LET p == LaneAt[t - 1] IN <<p[2], (2 * p[1] + 3 * p[2]) % 5>>

Offset(x, y) == IF x = 0 /\ y = 0 THEN 0
                ELSE LET t == CHOOSE u \in 0..23 : LaneAt[u] = <<x, y>>
                     IN  (((t + 1) * (t + 2)) \div 2) % 64

RoundConstants ==
  << Hex(0, 0, 0, \h0001), Hex(0, 0, 0, \h8082), Hex(\h8000, 0, 0, \h808A),
     Hex(\h8000, 0, \h8000, \h8000), Hex(0, 0, 0, \h808B), Hex(0, 0, \h8000, \h0001),
     Hex(\h8000, 0, \h8000, \h8081), Hex(\h8000, 0, 0, \h8009), Hex(0, 0, 0, \h008A),
     Hex(0, 0, 0, \h0088), Hex(0, 0, \h8000, \h8009), Hex(0, 0, \h8000, \h000A),
     Hex(0, 0, \h8000, \h808B), Hex(\h8000, 0, 0, \h008B), Hex(\h8000, 0, 0, \h8089),
     Hex(\h8000, 0, 0, \h8003), Hex(\h8000, 0, 0, \h8002), Hex(\h8000, 0, 0, \h0080),
     Hex(0, 0, 0, \h800A), Hex(\h8000, 0, \h8000, \h000A), Hex(\h8000, 0, \h8000, \h8081),
     Hex(\h8000, 0, 0, \h8080), Hex(0, 0, \h8000, \h0001), Hex(\h8000, 0, \h8000, \h8008) >>

KeccakRound(st, r) ==
  LET a(x, y)  == st[(x % 5) + 5 * y]
      C        == [x \in 0..4 |-> {z \in 0..63 :
                     Cardinality({y \in 0..4 : z \in a(x, y)}) % 2 = 1}]
      D(x)     == Xor64(C[(x + 4) % 5], RotL64(C[(x + 1) % 5], 1))
      moved    == [p \in (0..4) \X (0..4) |-> RotL64(Xor64(a(p[1], p[2]), D(p[1])), Offset(p[1], p[2]))]
      B        == [q \in (0..4) \X (0..4) |->
                     moved[CHOOSE p \in (0..4) \X (0..4) : q = <<p[2], (2 * p[1] + 3 * p[2]) % 5>>]]
      chi(x, y) == Xor64(B[<<x, y>>], B[<<(x + 2) % 5, y>>] \ B[<<(x + 1) % 5, y>>])
  IN  [i \in 0..24 |-> LET l == chi(i % 5, i \div 5)
                       IN  IF i = 0 THEN Xor64(l, RoundConstants[r]) ELSE l]

(* Every round of KeccakF1600_StatePermute, with its in-place walk over the     *)
(* lanes, its tables and its shift register, is the round of Keccak-f.            *)
RoundsAreKeccakF ==
  (kfStep \in {"theta", "done"} /\ kfRound > 0) => kfState = KeccakRound(kfBefore, kfRound)
===============================================================================
