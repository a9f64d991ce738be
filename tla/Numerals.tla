------------------------------- MODULE Numerals -------------------------------
(* Numbers and their digits: what an array of words, a string of digits and a   *)
(* row of bits are worth.                                                        *)
EXTENDS Integers

(* b to the power of k. *)
Power(b, k) ==
  LET p[i \in 0..k] == IF i = 0 THEN 1 ELSE b * p[i - 1]
  IN  p[k]

(* The number whose digits to the base B are d[width - 1], the highest, down to  *)
(* d[0].                                                                         *)
Number(B, d, width) ==
  LET value[i \in 0..width] == IF i = 0 THEN 0 ELSE B * value[i - 1] + d[width - i]
  IN  value[width]

(* Digit k of v. *)
DigitOf(B, v, k) == (v \div Power(B, k)) % B

(* The bits of x and y side by side; which pairs of them give a one is the       *)
(* operation.                                                                    *)
Xor == {<<0, 1>>, <<1, 0>>}
And == {<<1, 1>>}
Or  == {<<0, 1>>, <<1, 0>>, <<1, 1>>}

Combine(ones, x, y, width) ==
  Number(2, [k \in 0..width - 1 |->
               IF <<DigitOf(2, x, k), DigitOf(2, y, k)>> \in ones THEN 1 ELSE 0], width)
===============================================================================
