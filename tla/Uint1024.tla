------------------------------- MODULE Uint1024 -------------------------------
(* The integers of hash/uint1024.h: an array pn of WIDTH unsigned words, the    *)
(* lowest first, on which every operation works word by word, with a carry, a    *)
(* borrow or the bits shifted out taken to the next one. The words are DIGIT     *)
(* bits wide, 32 in the code; a byte is a quarter of a word, a hexadecimal       *)
(* digit half a byte.                                                            *)
EXTENDS WordBytes, Numerals

CONSTANTS
  DIGIT,     \* bits of a word
  WIDTH,     \* words of an integer
  Operands,  \* values the operations are called with
  MaxCalls   \* bound: operations in a row

ASSUME DigitAssumption ==
  /\ DIGIT \in Nat \ {0} /\ DIGIT % 8 = 0 /\ WordSize = Power(2, DIGIT)
  /\ WIDTH \in Nat /\ WIDTH >= 2
  /\ Operands \subseteq 0..Power(2, DIGIT * WIDTH) - 1

VARIABLES pn,       \* pn[WIDTH]
          uiCall,   \* the operator last called, and its operand
          uiAnswer, \* what the last comparison returned
          uiCalls   \* operations called

uiVars == <<pn, uiCall, uiAnswer, uiCalls>>

HexDigit == Power(2, DIGIT \div 8)

(* pn of an integer, and the integer of a pn. *)
Of(v, width) == [i \in Words(width) |-> DigitOf(WordSize, v, i)]
Value(a) == Number(WordSize, a, Cardinality(DOMAIN a))

(* ---------------------------- word by word -------------------------------- *)

IsZero(a) == \A i \in DOMAIN a : a[i] = 0

Complement(a) == [i \in DOMAIN a |-> WordSize - 1 - a[i]]

(* The words a ++ or -- reaches: up to the first that stays clear of the limit. *)
Reaches(a, limit) == {i \in DOMAIN a : \A j \in DOMAIN a : j < i => a[j] = limit}

Increment(a) == [i \in DOMAIN a |-> IF i \in Reaches(a, WordSize - 1) THEN (a[i] + 1) % WordSize ELSE a[i]]

(* Mutant: the borrow is passed on while words become zero. *)
DecrementWrong(a) == [i \in DOMAIN a |-> IF i \in Reaches(a, 1) THEN (a[i] - 1) % WordSize ELSE a[i]]

Decrement(a) == [i \in DOMAIN a |-> IF i \in Reaches(a, 0) THEN (a[i] - 1) % WordSize ELSE a[i]]

Negative(a) == Increment(Complement(a))

FromUint64(v) == [i \in Words(WIDTH) |-> CASE i = 0 -> v % WordSize [] i = 1 -> v \div WordSize
                                           [] OTHER -> 0]

Bitwise(op, a, b) == [i \in DOMAIN a |-> Combine(op, a[i], b[i], DIGIT)]

BitwiseUint64(op, a, v) ==
  [a EXCEPT ![0] = Combine(op, @, v % WordSize, DIGIT),
            ![1] = Combine(op, @, v \div WordSize, DIGIT)]

(* Word i becomes the upper part of word i-k and, unless the shift is a whole  *)
(* number of words, what is shifted out of word i-k-1.                          *)
ShiftLeft(a, shift) ==
  LET k == shift \div DIGIT
      s == shift % DIGIT
      At(i) == IF i >= 0 THEN a[i] ELSE 0
  IN  [i \in DOMAIN a |->
         Combine(Or, (At(i - k) * Power(2, s)) % WordSize,
                 IF s = 0 THEN 0 ELSE At(i - k - 1) \div Power(2, DIGIT - s), DIGIT)]

ShiftRight(a, shift) ==
  LET k == shift \div DIGIT
      s == shift % DIGIT
      At(i) == IF i \in DOMAIN a THEN a[i] ELSE 0
  IN  [i \in DOMAIN a |->
         Combine(Or, At(i + k) \div Power(2, s),
                 IF s = 0 THEN 0 ELSE (At(i + k + 1) * Power(2, DIGIT - s)) % WordSize, DIGIT)]

Plus(a, b) ==
  LET carry[i \in 0..Cardinality(DOMAIN a)] ==
        IF i = 0 THEN 0 ELSE (carry[i - 1] + a[i - 1] + b[i - 1]) \div WordSize
  IN  [i \in DOMAIN a |-> (carry[i] + a[i] + b[i]) % WordSize]

Minus(a, b) == Plus(a, Negative(b))

PlusUint64(a, v) == Plus(a, FromUint64(v))
MinusUint64(a, v) == Plus(a, Negative(FromUint64(v)))

(* The highest word that differs decides. *)
Decides(a, b, i) == a[i] # b[i] /\ \A j \in DOMAIN a : j > i => a[j] = b[j]

Less(a, b)    == \E i \in DOMAIN a : Decides(a, b, i) /\ a[i] < b[i]
AtMost(a, b)  == ~ \E i \in DOMAIN a : Decides(a, b, i) /\ a[i] > b[i]
Greater(a, b) == \E i \in DOMAIN a : Decides(a, b, i) /\ a[i] > b[i]
AtLeast(a, b) == ~ \E i \in DOMAIN a : Decides(a, b, i) /\ a[i] < b[i]
Equal(a, b)   == \A i \in DOMAIN a : a[i] = b[i]

EqualUint64(a, v) ==
  a[0] = v % WordSize /\ a[1] = v \div WordSize /\ \A i \in DOMAIN a \ {0, 1} : a[i] = 0

(* ------------------------- hexadecimal and vectors ------------------------ *)

(* Hexadecimal digit k of the integer. *)
HexAt(a, k) == DigitOf(HexDigit, a[k \div 8], k % 8)

GetHex(a) == LET digits == 8 * Cardinality(DOMAIN a)
             IN  [k \in 1..digits |-> HexAt(a, digits - k)]

(* The characters of a string: hexadecimal digits by their value, and others. *)
Blank == -1
LetterX == -2
IsHex(c) == c \in 0..HexDigit - 1

SkipBlanks(s) == SubSeq(s, Cardinality({k \in DOMAIN s : \A j \in 1..k : s[j] = Blank}) + 1, Len(s))

Skip0x(s) == IF Len(s) > 1 /\ s[1] = 0 /\ s[2] = LetterX THEN SubSeq(s, 3, Len(s)) ELSE s

(* Mutant: the lowest digit is taken from the front of the string. *)
SetHexForward(str, width) ==
  LET s    == Skip0x(SkipBlanks(str))
      n    == Cardinality({k \in DOMAIN s : \A j \in 1..k : IsHex(s[j])})
      d(k) == IF k < n THEN s[k + 1] ELSE 0
  IN  [i \in Words(width) |-> Number(HexDigit, [j \in 0..7 |-> d(8 * i + j)], 8)]

(* Blanks, "0x", then digits up to anything else: the last digit is the lowest, *)
(* and digits that do not fit are left out.                                      *)
SetHex(str, width) ==
  LET s    == Skip0x(SkipBlanks(str))
      n    == Cardinality({k \in DOMAIN s : \A j \in 1..k : IsHex(s[j])})
      d(k) == IF k < n THEN s[n - k] ELSE 0
  IN  [i \in Words(width) |-> Number(HexDigit, [j \in 0..7 |-> d(8 * i + j)], 8)]

(* uint256(vch), uint576(vch) and uint1024(vch) copy the memory as it is, and   *)
(* give zero for another length.                                                 *)
FromVector(data, width) ==
  IF Len(data) # 4 * width THEN Zero(width)
  ELSE [i \in Words(width) |->
          ((data[4 * i + 4] * Byte + data[4 * i + 3]) * Byte + data[4 * i + 2]) * Byte
            + data[4 * i + 1]]

(* A 1024-bit integer from a 256- or 512-bit one, and back. *)
Widen(b, width) == [i \in Words(width) |-> IF i \in DOMAIN b THEN b[i] ELSE 0]
Narrow(a, width) == [i \in Words(width) |-> a[i]]

(* ----------------------------- the operators ------------------------------ *)

UiInit ==
  /\ \E v \in Operands : pn = Of(v, WIDTH)
  /\ uiCall = <<"new", 0>> /\ uiAnswer = FALSE /\ uiCalls = 0

Calls(op, v) == uiCalls < MaxCalls /\ uiCalls' = uiCalls + 1 /\ uiCall' = <<op, v>>
Sets(op, v, value) == Calls(op, v) /\ pn' = value /\ UNCHANGED uiAnswer
Tells(op, v, truth) == Calls(op, v) /\ uiAnswer' = truth /\ UNCHANGED pn

Unary ==
  \/ Sets("~", 0, Complement(pn))
  \/ Sets("neg", 0, Negative(pn))
  \/ Sets("++", 0, Increment(pn))
  \/ Sets("--", 0, Decrement(pn))
  \/ Tells("!", 0, IsZero(pn))

Binary(v) ==
  LET b == Of(v, WIDTH)
  IN  \/ Sets("^=", v, Bitwise(Xor, pn, b))
      \/ Sets("&=", v, Bitwise(And, pn, b))
      \/ Sets("|=", v, Bitwise(Or, pn, b))
      \/ Sets("+=", v, Plus(pn, b))
      \/ Sets("-=", v, Minus(pn, b))

WithUint64(v) ==
  \/ Sets("=64", v, FromUint64(v))
  \/ Sets("^=64", v, BitwiseUint64(Xor, pn, v))
  \/ Sets("|=64", v, BitwiseUint64(Or, pn, v))
  \/ Sets("+=64", v, PlusUint64(pn, v))
  \/ Sets("-=64", v, MinusUint64(pn, v))
  \/ Tells("==64", v, EqualUint64(pn, v))

Shifts(s) ==
  \/ Sets("<<=", s, ShiftLeft(pn, s))
  \/ Sets(">>=", s, ShiftRight(pn, s))

Comparisons(v) ==
  LET b == Of(v, WIDTH)
  IN  \/ Tells("<", v, Less(pn, b))
      \/ Tells("<=", v, AtMost(pn, b))
      \/ Tells(">", v, Greater(pn, b))
      \/ Tells(">=", v, AtLeast(pn, b))
      \/ Tells("==", v, Equal(pn, b))

UiNext ==
  \/ Unary
  \/ \E v \in Operands : Binary(v) \/ Comparisons(v)
  \/ \E v \in {w \in Operands : w < WordSize * WordSize} : WithUint64(v)
  \/ \E s \in 0..DIGIT * WIDTH + 1 : Shifts(s)

UiSpec == UiInit /\ [][UiNext]_uiVars

(* ------------------------------- properties ------------------------------- *)

(* base_uint counts: every operator on the words, carries and borrows through   *)
(* all of them included, does to the integer what its name says, modulo          *)
(* 2^BITS, and every comparison is that of the integers.                         *)
Counter == INSTANCE BigInteger WITH
             BITS <- DIGIT * WIDTH, SHORT <- 2 * DIGIT,
             n <- Value(pn), call <- uiCall, answer <- uiAnswer
CountsModulo == Counter!Spec

(* What GetBytes and GetHex write, SetBytes and SetHex read, also behind        *)
(* blanks and "0x" and before other characters; the hexadecimal string is the    *)
(* number, highest digit first; a number widened and narrowed is the same.       *)
ReadsWhatItWrites ==
  LET hex == GetHex(pn)
      digits == [k \in 0..8 * WIDTH - 1 |-> hex[8 * WIDTH - k]]
  IN  /\ SetBytes(GetBytes(pn), WIDTH) = pn
      /\ Number(HexDigit, digits, 8 * WIDTH) = Value(pn)
      /\ SetHex(hex, WIDTH) = pn
      /\ SetHex(<<Blank, Blank, 0, LetterX>> \o hex \o <<LetterX, 0>>, WIDTH) = pn
      /\ FromVector([k \in 1..4 * WIDTH |-> ByteAt(pn, k - 1)], WIDTH) = pn
      /\ Narrow(Widen(pn, 2 * WIDTH), WIDTH) = pn
      /\ Value(Widen(pn, 2 * WIDTH)) = Value(pn)
===============================================================================
