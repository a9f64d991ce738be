---------------------------- MODULE MCComputations ----------------------------
EXTENDS Computations

\* Output lengths with and without a tabulated chaining value, one block and
\* more of output.
MCHashBits == [N \in {32, 64, 128} |-> CASE N = 32  -> {64, 256, 264}
                                         [] N = 64  -> {512, 520}
                                         [] N = 128 -> {576, 1024, 1032}]

\* The suffixes the templates use and the ones at both ends of a byte.
MCSuffixes == {{1, 2}, {0, 2}, {0}, {7}, {0, 1, 2, 3, 4}}

\* All configurations skein_iv.h has a table for.
MCBlocks ==
  {ConfigCase(256, b) : b \in {128, 160, 224, 256}}
    \cup {ConfigCase(512, b) : b \in {128, 160, 224, 256, 384, 512}}
    \cup {ConfigCase(1024, b) : b \in {384, 512, 1024}}

\* All zero, one bit, and a third of the bits.
MCStates ==
  {[i \in 0..24 |-> {}], [i \in 0..24 |-> IF i = 7 THEN {63} ELSE {}],
   [i \in 0..24 |-> {b \in 0..63 : (b * (i + 3)) % 7 < 3}]}

\* Values of 24 bits on both sides of every carry.
MCOperands ==
  {0, 1, 255, 256, 65535, 65536, 66049, 8388608, 11206655, 16777215}

\* The bytes 0, 1, 2, 3 and 3, 2, 1, 0.
MCWordValues == {27, 228}
===============================================================================
