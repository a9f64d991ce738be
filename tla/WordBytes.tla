------------------------------ MODULE WordBytes ------------------------------
(* The bytes of the integers of hash/uint1024.h. An integer is an array of      *)
(* words, the lowest first, and a word is four bytes; in packets every word has  *)
(* its highest byte first.                                                       *)
EXTENDS Integers, Sequences, FiniteSets

CONSTANT Byte  \* values of a byte, 256 in the code

ASSUME ByteAssumption == Byte \in Nat \ {0, 1}

WordSize == Byte * Byte * Byte * Byte

Words(width) == 0..width - 1

Zero(width) == [i \in Words(width) |-> 0]

(* A word shifted right by no byte, one, two and three, each cut to a byte. *)
BytesOfWord(v) ==
  LET v1 == v \div Byte
      v2 == v1 \div Byte
      v3 == v2 \div Byte
  IN  <<v % Byte, v1 % Byte, v2 % Byte, v3 % Byte>>

(* Byte k of the integer in memory. *)
ByteAt(a, k) == BytesOfWord(a[k \div 4])[(k % 4) + 1]

(* Every word with its highest byte first, the lowest word first. *)
GetBytes(a) == [k \in 1..4 * Cardinality(DOMAIN a) |->
                  ByteAt(a, 4 * ((k - 1) \div 4) + (3 - ((k - 1) % 4)))]

(* A number from the four bytes behind an offset, as bytes2uint and SetBytes   *)
(* put it together.                                                             *)
FourBytes(data, offset) ==
  (((data[offset + 1] * Byte + data[offset + 2]) * Byte + data[offset + 3]) * Byte
     + data[offset + 4]) % WordSize

SetBytes(data, width) == [i \in Words(width) |-> FourBytes(data, 4 * i)]
=============================================================================
