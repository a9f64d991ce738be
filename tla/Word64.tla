-------------------------------- MODULE Word64 --------------------------------
(* 64-bit words as the sets of their one bits, bit 0 the least significant,    *)
(* with the operations C has on unsigned long long.                             *)
EXTENDS Numerals

Word64 == SUBSET (0..63)

(* A constant written in four groups of sixteen bits, the highest first. *)
Hex(a, b, c, d) ==
  LET bits(v, from) == {from + i : i \in {j \in 0..15 : DigitOf(2, v, j) = 1}}
  IN  bits(a, 48) \cup bits(b, 32) \cup bits(c, 16) \cup bits(d, 0)

(* A number below 2^16 as a word. *)
Small(v) == Hex(0, 0, 0, v)

Xor64(a, b) == (a \ b) \cup (b \ a)

RotL64(a, n) == {(b + n) % 64 : b \in a}

(* The bits into which there is a carry when a and b are added: those above a  *)
(* bit of both, or of one of them where there is a carry.                        *)
CarriesInto(a, b) ==
  LET upTo[i \in 0..63] ==
        IF i = 0 THEN {}
        ELSE LET below == upTo[i - 1]
             IN  IF i - 1 \in a \cap b \/ (i - 1 \in below /\ i - 1 \in a \cup b)
                 THEN below \cup {i} ELSE below
  IN  upTo[63]

(* Addition modulo 2^64: the sum without carries, and the carries. *)
Add64(a, b) == Xor64(Xor64(a, b), CarriesInto(a, b))
===============================================================================
