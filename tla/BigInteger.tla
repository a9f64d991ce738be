------------------------------ MODULE BigInteger ------------------------------
(* What the integers of hash/uint1024.h promise: a register of BITS bits that   *)
(* counts modulo 2^BITS, and comparisons that agree with the order of the       *)
(* integers.                                                                     *)
EXTENDS Numerals

CONSTANTS
  BITS,     \* the width of the register
  SHORT,    \* the width of a uint64 operand
  Operands  \* the values the calls are made with

VARIABLES n,       \* the value
          call,    \* the operation last called, and its operand
          answer   \* what the last comparison returned

vars == <<n, call, answer>>

Modulus == Power(2, BITS)

Shorts == {v \in Operands : v < Power(2, SHORT)}

Sets(op, v, value) == call' = <<op, v>> /\ n' = value /\ UNCHANGED answer
Tells(op, v, truth) == call' = <<op, v>> /\ answer' = truth /\ UNCHANGED n

Init == n \in Operands /\ call = <<"new", 0>> /\ answer = FALSE

Unary ==
  \/ Sets("~", 0, Modulus - 1 - n)
  \/ Sets("neg", 0, (Modulus - n) % Modulus)
  \/ Sets("++", 0, (n + 1) % Modulus)
  \/ Sets("--", 0, (n + Modulus - 1) % Modulus)
  \/ Tells("!", 0, n = 0)

Binary(v) ==
  \/ Sets("^=", v, Combine(Xor, n, v, BITS))
  \/ Sets("&=", v, Combine(And, n, v, BITS))
  \/ Sets("|=", v, Combine(Or, n, v, BITS))
  \/ Sets("+=", v, (n + v) % Modulus)
  \/ Sets("-=", v, (n + Modulus - v) % Modulus)

WithShort(v) ==
  \/ Sets("=64", v, v)
  \/ Sets("^=64", v, Combine(Xor, n, v, BITS))
  \/ Sets("|=64", v, Combine(Or, n, v, BITS))
  \/ Sets("+=64", v, (n + v) % Modulus)
  \/ Sets("-=64", v, (n + Modulus - v) % Modulus)
  \/ Tells("==64", v, n = v)

Shifts(s) ==
  \/ Sets("<<=", s, IF s < BITS THEN (n % Power(2, BITS - s)) * Power(2, s) ELSE 0)
  \/ Sets(">>=", s, IF s < BITS THEN n \div Power(2, s) ELSE 0)

Comparisons(v) ==
  \/ Tells("<", v, n < v)
  \/ Tells("<=", v, n <= v)
  \/ Tells(">", v, n > v)
  \/ Tells(">=", v, n >= v)
  \/ Tells("==", v, n = v)

Next ==
  \/ Unary
  \/ \E v \in Operands : Binary(v) \/ Comparisons(v)
  \/ \E v \in Shorts : WithShort(v)
  \/ \E s \in 0..BITS + 1 : Shifts(s)

Spec == Init /\ [][Next]_vars
===============================================================================
