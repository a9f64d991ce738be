------------------------------ MODULE Threefish ------------------------------
(* The block function of hash/skein_block.cpp on real 64-bit words, one round  *)
(* or key injection a step, and the chaining values skein_iv.h tabulates.       *)
(*                                                                              *)
(* The key schedule is the array kw: the three tweak words (ts) at its start,   *)
(* the key words (ks) from the fourth on. The 256- and 512-bit functions are     *)
(* unrolled and pick the words modulo their number; the 1024-bit one loops,      *)
(* and turns the schedule by appending to both parts, the tweak's running into   *)
(* the key's behind the words already used.                                      *)
EXTENDS Word64, SequencesExt

CONSTANTS Blocks  \* the compressions to run

ASSUME BlocksAssumption ==
  \A c \in Blocks :
    /\ c.size \in {256, 512, 1024}
    /\ c.T0 \in Word64 /\ c.add \in Word64 /\ c.T1 \in Word64
    /\ c.chain \in [1..c.size \div 64 -> Word64] /\ c.block \in [1..c.size \div 64 -> Word64]

VARIABLES tfCase,  \* the compression under way
          tfKw,    \* kw[]
          tfX,     \* X0, X1, ...
          tfRound, \* rounds done
          tfInj,   \* key injections done
          tfPhase  \* "start", "running", "done"

tfVars == <<tfCase, tfKw, tfX, tfRound, tfInj, tfPhase>>

(* ------------------------ constants of the function ---------------------- *)

SKEIN_KS_PARITY == Hex(\h5555, \h5555, \h5555, \h5555)
SKEIN_SCHEMA_VER == Hex(\h0000, \h0001, \h3341, \h4853)

(* SKEIN_T1_BLK_TYPE_CFG_FINAL with the FIRST flag: type 4 in bits 56 to 61,   *)
(* FIRST and FINAL above it.                                                    *)
CfgFinal == {58, 62, 63}

R_256 ==
  << <<5, 56>>, <<36, 28>>, <<13, 46>>, <<58, 44>>,
     <<26, 20>>, <<53, 35>>, <<11, 42>>, <<59, 50>> >>

R_512 ==
  << <<38, 30, 50, 53>>, <<48, 20, 43, 31>>,
     <<34, 14, 15, 27>>, <<26, 12, 58, 7>>,
     <<33, 49, 8, 42>>, <<39, 27, 41, 14>>,
     <<29, 26, 11, 9>>, <<33, 51, 39, 35>> >>

R1024 ==
  << <<55, 43, 37, 40, 16, 22, 38, 12>>,
     <<25, 25, 46, 13, 14, 13, 52, 57>>,
     <<33, 8, 18, 57, 21, 12, 32, 54>>,
     <<34, 43, 25, 60, 44, 9, 59, 34>>,
     <<28, 7, 47, 48, 51, 9, 35, 41>>,
     <<17, 6, 18, 25, 43, 42, 40, 15>>,
     <<58, 7, 32, 45, 19, 18, 2, 56>>,
     <<47, 49, 27, 58, 37, 48, 53, 56>> >>

(* The words a round mixes, two by two, in the four rounds that repeat. *)
R256_8_rounds == << <<0, 1, 2, 3>>, <<0, 3, 2, 1>>, <<0, 1, 2, 3>>, <<0, 3, 2, 1>> >>

(* Mutant: a typing error in the third round. *)
R512_Swapped == << <<0, 1, 2, 3, 4, 5, 6, 7>>, <<2, 1, 4, 7, 6, 5, 0, 3>>,
                   <<4, 1, 6, 3, 2, 5, 0, 7>>, <<6, 1, 0, 7, 2, 5, 4, 3>> >>

R512_8_rounds == << <<0, 1, 2, 3, 4, 5, 6, 7>>, <<2, 1, 4, 7, 6, 5, 0, 3>>,
                    <<4, 1, 6, 3, 0, 5, 2, 7>>, <<6, 1, 0, 7, 2, 5, 4, 3>> >>

R1024_8_rounds == << <<0, 1, 2, 3, 4, 5, 6, 7, 8, 9, 10, 11, 12, 13, 14, 15>>,
                     <<0, 9, 2, 13, 6, 11, 4, 15, 10, 7, 12, 3, 14, 5, 8, 1>>,
                     <<0, 7, 2, 5, 4, 3, 6, 1, 12, 15, 14, 13, 8, 11, 10, 9>>,
                     <<0, 15, 2, 11, 6, 13, 4, 9, 14, 1, 8, 5, 10, 3, 12, 7>> >>

(* What sets the three functions apart. *)
Shape(size) ==
  CASE size = 256  -> [words |-> 4,  rounds |-> 72, order |-> R256_8_rounds,  rot |-> R_256]
    [] size = 512  -> [words |-> 8,  rounds |-> 72, order |-> R512_8_rounds,  rot |-> R_512]
    [] size = 1024 -> [words |-> 16, rounds |-> 80, order |-> R1024_8_rounds, rot |-> R1024]

(* --------------------------- the block function --------------------------- *)

Ts(kw, i) == kw[i]      \* KW_TWK_BASE
Ks(kw, i) == kw[i + 3]  \* KW_KEY_BASE

XorAll(ws) ==
  LET upTo[i \in 0..Len(ws)] == IF i = 0 THEN {} ELSE Xor64(upTo[i - 1], ws[i])
  IN  upTo[Len(ws)]

(* kw[] for a chaining value and a tweak, with the words derived from them. *)
KeyWords(chain, T0, T1) ==
  LET n  == Len(chain)
      kw == <<T0, T1, Xor64(T0, T1)>> \o chain \o <<Xor64(XorAll(chain), SKEIN_KS_PARITY)>>
  IN  [i \in 0..n + 3 |-> kw[i + 1]]

(* Key word i, with a tweak word on the third and second from last and the     *)
(* number of the injection on the last.                                         *)
InjectWords(X, n, k, t0, t1, number) ==
  [i \in 0..n - 1 |->
     Add64(Add64(X[i], k[i]), CASE i = n - 3 -> t0 [] i = n - 2 -> t1
                                [] i = n - 1 -> Small(number) [] OTHER -> {})]

(* The first full key injection. *)
FirstKey(block, kw, n) ==
  InjectWords([i \in 0..n - 1 |-> block[i + 1]], n, [i \in 0..n - 1 |-> Ks(kw, i)],
              Ts(kw, 0), Ts(kw, 1), 0)

(* Mutant: the XOR takes the word as it was before the addition. *)
MixRoundOldWord(X, order, rot) ==
  LET mixed[j \in 0..Len(rot)] ==
        IF j = 0 THEN X
        ELSE LET x == mixed[j - 1]
                 p == order[2 * j - 1]
                 q == order[2 * j]
             IN  [x EXCEPT ![p] = Add64(x[p], x[q]), ![q] = Xor64(RotL64(x[q], rot[j]), x[p])]
  IN  mixed[Len(rot)]

(* Round256, Round512, Round1024: X##p0 += X##p1, rotate X##p1, XOR, by pairs. *)
MixRound(X, order, rot) ==
  LET mixed[j \in 0..Len(rot)] ==
        IF j = 0 THEN X
        ELSE LET x == mixed[j - 1]
                 p == order[2 * j - 1]
                 q == order[2 * j]
                 s == Add64(x[p], x[q])
             IN  [x EXCEPT ![p] = s, ![q] = Xor64(RotL64(x[q], rot[j]), s)]
  IN  mixed[Len(rot)]

(* I256(R), I512(R): words (R)+1, (R)+2, ... of the key, modulo their number. *)
I256(X, kw, R) == InjectWords(X, 4, [i \in 0..3 |-> Ks(kw, (R + 1 + i) % 5)],
                              Ts(kw, (R + 1) % 3), Ts(kw, (R + 2) % 3), R + 1)

I512(X, kw, R) == InjectWords(X, 8, [i \in 0..7 |-> Ks(kw, (R + 1 + i) % 9)],
                              Ts(kw, (R + 1) % 3), Ts(kw, (R + 2) % 3), R + 1)

(* I1024(R) of the loop's turn r, i being r + R: the words from ks[i] and ts[i] *)
(* on.                                                                           *)
I1024(X, kw, i) == InjectWords(X, 16, [j \in 0..15 |-> Ks(kw, i + j)],
                               Ts(kw, i), Ts(kw, i + 1), i)

(* Writes kw[at], which may lie beyond what has been written so far. *)
Write(kw, at, v) == [i \in DOMAIN kw \cup {at} |-> IF i = at THEN v ELSE kw[i]]

(* Mutant: the tweak is turned first, over the key word still to be copied. *)
TurnTweakFirst(kw, i) ==
  LET turned == Write(kw, i + 2, Ts(kw, i - 1)) IN Write(turned, i + 16 + 3, Ks(turned, i - 1))

(* ks[r+(R)+16] = ks[r+(R)-1], then ts[r+(R)+2] = ts[r+(R)-1]: the second one  *)
(* is written on the place the first one was read from.                         *)
Turn(kw, i) ==
  LET turned == Write(kw, i + 16 + 3, Ks(kw, i - 1)) IN Write(turned, i + 2, Ts(turned, i - 1))

FeedForward(X, block) == [i \in 1..Len(block) |-> Xor64(X[i - 1], block[i])]

(* --------------------------------- steps ---------------------------------- *)

TfInit ==
  /\ tfCase \in Blocks
  /\ tfKw = << >> /\ tfX = << >> /\ tfRound = 0 /\ tfInj = 0 /\ tfPhase = "start"

(* ts[0] += byteCntAdd, the key schedule, the first injection. *)
Start ==
  /\ tfPhase = "start"
  /\ tfKw' = KeyWords(tfCase.chain, Add64(tfCase.T0, tfCase.add), tfCase.T1)
  /\ tfX' = FirstKey(tfCase.block, tfKw', Shape(tfCase.size).words)
  /\ tfPhase' = "running"
  /\ UNCHANGED <<tfCase, tfRound, tfInj>>

Round ==
  /\ tfPhase = "running" /\ tfRound \div 4 = tfInj /\ tfRound < Shape(tfCase.size).rounds
  /\ LET shape == Shape(tfCase.size)
     IN  tfX' = MixRound(tfX, shape.order[(tfRound % 4) + 1], shape.rot[(tfRound % 8) + 1])
  /\ tfRound' = tfRound + 1
  /\ UNCHANGED <<tfCase, tfKw, tfInj, tfPhase>>

(* After every fourth round; the loop of the 1024-bit function counts its      *)
(* injections from one.                                                          *)
Inject ==
  /\ tfPhase = "running" /\ tfRound \div 4 > tfInj
  /\ CASE tfCase.size = 256  -> tfX' = I256(tfX, tfKw, tfInj) /\ tfKw' = tfKw
       [] tfCase.size = 512  -> tfX' = I512(tfX, tfKw, tfInj) /\ tfKw' = tfKw
       [] tfCase.size = 1024 -> tfX' = I1024(tfX, tfKw, tfInj + 1) /\ tfKw' = Turn(tfKw, tfInj + 1)
  /\ tfInj' = tfInj + 1
  /\ UNCHANGED <<tfCase, tfRound, tfPhase>>

(* The feed-forward XOR gives the new chaining value. *)
Finish ==
  /\ tfPhase = "running"
  /\ tfRound = Shape(tfCase.size).rounds /\ tfInj = tfRound \div 4
  /\ tfX' = FeedForward(tfX, tfCase.block)
  /\ tfPhase' = "done"
  /\ UNCHANGED <<tfCase, tfKw, tfRound, tfInj>>

TfNext == Start \/ Round \/ Inject \/ Finish

TfSpec == TfInit /\ [][TfNext]_tfVars

(* ------------------------------- skein_iv.h ------------------------------- *)

SKEIN_256_IV_128 ==
  << Hex(\h302F, \h7EA2, \h3D7F, \hE2E1), Hex(\hADE4, \h683A, \h6913, \h752B),
     Hex(\h975C, \hFABE, \hF208, \hAB0A), Hex(\h2AF4, \hBA95, \hF831, \hF55B) >>

SKEIN_256_IV_160 ==
  << Hex(\hA38A, \h0D80, \hA368, \h7723), Hex(\hB73C, \hDB6A, \h5963, \hFFC9),
     Hex(\h9633, \hE8EA, \h07A1, \hB447), Hex(\hCA0E, \hD09E, \hC952, \h9C22) >>

SKEIN_256_IV_224 ==
  << Hex(\hB809, \h2969, \h9AE0, \hF431), Hex(\hD340, \hDC14, \hA069, \h29DC),
     Hex(\hAE86, \h6594, \hBDE4, \hDC5A), Hex(\h3397, \h67C2, \h5A60, \hEA1D) >>

SKEIN_256_IV_256 ==
  << Hex(\h3885, \h1268, \h0E66, \h0046), Hex(\h4B72, \hD5DE, \hC5A8, \hFF01),
     Hex(\h281A, \h9298, \hCA5E, \hB3A5), Hex(\h54CA, \h5249, \hF460, \h70C4) >>

SKEIN_512_IV_128 ==
  << Hex(\h477D, \hF9EF, \hAFC4, \hF08A), Hex(\h7A64, \hD342, \h3366, \h0E14),
     Hex(\h7165, \h3C44, \hCEBC, \h89C5), Hex(\h63D2, \hA36D, \h65B0, \hAB91),
     Hex(\h52B9, \h3FB0, \h9782, \hEA89), Hex(\h20F3, \h6980, \h8B96, \h0829),
     Hex(\hE8DF, \h80FB, \h3030, \h3B9B), Hex(\hB89D, \h3902, \h1A47, \h6D1F) >>

SKEIN_512_IV_160 ==
  << Hex(\h0045, \hFA2C, \hAD91, \h3A2C), Hex(\hF45C, \h9A76, \hBF75, \hCE81),
     Hex(\h0ED7, \h58A9, \h3D1F, \h266B), Hex(\hC0E6, \h5E85, \h1EDC, \hD67A),
     Hex(\h1E02, \h4D51, \hF5E7, \h583E), Hex(\hA271, \hF855, \h4E52, \hB0E1),
     Hex(\h5292, \h867D, \h8AC6, \h74F9), Hex(\hADA3, \h25FA, \h60C3, \hB226) >>

SKEIN_512_IV_224 ==
  << Hex(\hF2DA, \hA169, \h8216, \hCC98), Hex(\h00E0, \h6A48, \h8983, \hAE05),
     Hex(\hC080, \hCEA9, \h5948, \h958F), Hex(\h2A8F, \h314B, \h57F4, \hADD1),
     Hex(\hBCD0, \h6591, \h360A, \h405A), Hex(\hF81A, \h11A1, \h02D9, \h1F70),
     Hex(\h85C6, \hFFA5, \h4810, \hA739), Hex(\h1E07, \hAFE0, \h1802, \hCE74) >>

SKEIN_512_IV_256 ==
  << Hex(\h88C0, \h7F38, \hD4F9, \h5AD4), Hex(\h3DF0, \hD33A, \h8610, \hE240),
     Hex(\h3E24, \h3F6E, \hDB6F, \hAC74), Hex(\hBAC4, \hF4CD, \hD7A9, \h0A24),
     Hex(\hDF90, \hFD1F, \hDEEE, \hBA04), Hex(\hA4F5, \h796B, \hDB7F, \hDDA8),
     Hex(\hDA18, \h2FD2, \h964B, \hC923), Hex(\h55F7, \h6677, \hEF69, \h61F9) >>

SKEIN_512_IV_384 ==
  << Hex(\hE5BF, \h4D02, \hBA62, \h494C), Hex(\h7AA1, \hEABC, \hC3E6, \hFC68),
     Hex(\hBBE5, \hFC26, \hE103, \h8C5A), Hex(\h53C9, \h903E, \h8F88, \hE9FA),
     Hex(\hF30D, \h8DDD, \hFB94, \h0C83), Hex(\h500F, \hDA3C, \h4865, \hABEC),
     Hex(\h2226, \hC67F, \h745B, \hC5E7), Hex(\h015D, \hA800, \h77C6, \h39F7) >>

SKEIN_512_IV_512 ==
  << Hex(\hA8D4, \h7980, \h544A, \h6E32), Hex(\h8475, \h1153, \h3E9B, \h1A8A),
     Hex(\h6FAE, \hE870, \hD8E8, \h1A00), Hex(\h58B0, \hD9D6, \hCB55, \h7F92),
     Hex(\h9BBC, \h0051, \hDAC1, \hD4E9), Hex(\hB744, \hE2B1, \hD189, \hE7CA),
     Hex(\h9793, \h50FA, \h709C, \h5EF3), Hex(\h0350, \h125A, \h9206, \h7BCD) >>

SKEIN1024_IV_384 ==
  << Hex(\h7600, \hB2E3, \h9FC7, \h3E48), Hex(\h7A45, \h43BB, \hECCD, \h60E4),
     Hex(\h8AB8, \h79D6, \h2F53, \hE192), Hex(\h1484, \h7919, \hA7F0, \hAC6E),
     Hex(\h4F77, \h4735, \hAA99, \hCB7F), Hex(\h607C, \hF3C2, \h4176, \h0EE1),
     Hex(\hC0BF, \h6D7B, \hFF9F, \h27DB), Hex(\h7D32, \h1485, \h9934, \h2254),
     Hex(\hE723, \h1BB0, \hCDF9, \hDD49), Hex(\h641D, \hE8E6, \h464D, \hB3F4),
     Hex(\h0561, \h3046, \hA01C, \hF005), Hex(\h7347, \hEE0B, \hB09E, \h8BCC),
     Hex(\h5103, \hA256, \h161A, \h26FF), Hex(\h8161, \hEAC4, \h3A11, \h76C2),
     Hex(\hB960, \h7373, \hCF92, \hC2CC), Hex(\hFDE8, \hD4AD, \hD376, \h300D) >>

SKEIN1024_IV_512 ==
  << Hex(\h8CF6, \h3BE5, \hE1ED, \hF4B7), Hex(\h256F, \hD425, \hCBDE, \h61EB),
     Hex(\h497B, \h412D, \hEBA3, \hEF9D), Hex(\h3CBD, \h412A, \hD829, \h3FBA),
     Hex(\hD5AE, \h34D6, \hF26F, \h646E), Hex(\h7287, \h9C01, \h0DA1, \h7B79),
     Hex(\h61BD, \h8F18, \h05AF, \hF621), Hex(\h75CB, \h3C94, \h9CE0, \hE463),
     Hex(\hAF27, \h329D, \h2CD7, \h1E37), Hex(\h7DB5, \hEC5E, \h1141, \hCE9F),
     Hex(\h7648, \h4C13, \h20CA, \hB67B), Hex(\h57EB, \h52A6, \h561B, \hE8C5),
     Hex(\h5116, \h1125, \hE681, \h412D), Hex(\hF510, \hD937, \h5439, \hA9BC),
     Hex(\hD18A, \hF77C, \hFC42, \h5E3C), Hex(\hEB05, \h160C, \h3FEB, \hB037) >>

SKEIN1024_IV_1024 ==
  << Hex(\h5A43, \h52BE, \h6209, \h2156), Hex(\h5F6E, \h8B1A, \h72F0, \h01CA),
     Hex(\hFFCB, \hFE9C, \hA1A2, \hCE26), Hex(\h6C23, \hC396, \h6703, \h8BCA),
     Hex(\h583A, \h8BFC, \hCE34, \hEB6C), Hex(\h3FDB, \hFB11, \hD4A4, \h6A3E),
     Hex(\h3304, \hACFC, \hA830, \h0998), Hex(\hB2F6, \h675F, \hA17F, \h0FD2),
     Hex(\h9D25, \h9973, \h0EF7, \hAB6B), Hex(\h0914, \hA20D, \h3DFE, \hA9E4),
     Hex(\hCC1A, \h9CAF, \hA494, \hDBD3), Hex(\h9828, \h030D, \hA0A6, \h388C),
     Hex(\h0D33, \h9D5D, \hAADE, \hE3DC), Hex(\hFC46, \hDE35, \hC4E2, \hA086),
     Hex(\h53D6, \hE4F5, \h2E19, \hA6D1), Hex(\h5663, \h952F, \h715D, \h1DDD) >>

Tabulated(size, bits) ==
  CASE size = 256 /\ bits = 128 -> SKEIN_256_IV_128
    [] size = 256 /\ bits = 160 -> SKEIN_256_IV_160
    [] size = 256 /\ bits = 224 -> SKEIN_256_IV_224
    [] size = 256 /\ bits = 256 -> SKEIN_256_IV_256
    [] size = 512 /\ bits = 128 -> SKEIN_512_IV_128
    [] size = 512 /\ bits = 160 -> SKEIN_512_IV_160
    [] size = 512 /\ bits = 224 -> SKEIN_512_IV_224
    [] size = 512 /\ bits = 256 -> SKEIN_512_IV_256
    [] size = 512 /\ bits = 384 -> SKEIN_512_IV_384
    [] size = 512 /\ bits = 512 -> SKEIN_512_IV_512
    [] size = 1024 /\ bits = 384 -> SKEIN1024_IV_384
    [] size = 1024 /\ bits = 512 -> SKEIN1024_IV_512
    [] size = 1024 /\ bits = 1024 -> SKEIN1024_IV_1024

(* The configuration blocks the tables are made from: zero chaining value,     *)
(* schema, output length and no tree, 32 bytes.                                 *)
ConfigCase(size, bits) ==
  [size |-> size, bits |-> bits, T0 |-> {}, add |-> Small(32), T1 |-> CfgFinal,
   chain |-> [i \in 1..size \div 64 |-> {}],
   block |-> [i \in 1..size \div 64 |-> CASE i = 1 -> SKEIN_SCHEMA_VER [] i = 2 -> Small(bits)
                                          [] OTHER -> {}]]

(* ------------------------------- properties ------------------------------- *)

(* Subkey s of Threefish, by its definition: the key and the tweak extended    *)
(* with their parity words, counted through modulo 17 and 3.                     *)
Subkey(case, s) ==
  LET n == Len(case.chain)
      k == Append(case.chain, Xor64(XorAll(case.chain), SKEIN_KS_PARITY))
      t0 == Add64(case.T0, case.add)
      t == <<t0, case.T1, Xor64(t0, case.T1)>>
  IN  [i \in 0..n - 1 |->
         Add64(k[((s + i) % (n + 1)) + 1],
               CASE i = n - 3 -> t[(s % 3) + 1] [] i = n - 2 -> t[((s + 1) % 3) + 1]
                 [] i = n - 1 -> Small(s) [] OTHER -> {})]

(* The words the next injection adds are the next subkey, for all the turns    *)
(* of the schedule inside its one array, the tweak part growing over the key     *)
(* part: Skein_xxx_Process_Block, I256, I512 and I1024.                          *)
InjectsSubkeys ==
  (tfPhase = "running" /\ tfInj < Shape(tfCase.size).rounds \div 4) =>
    LET n    == Len(tfCase.chain)
        zero == [i \in 0..n - 1 |-> {}]
    IN  Subkey(tfCase, tfInj + 1) =
          CASE tfCase.size = 256  -> I256(zero, tfKw, tfInj)
            [] tfCase.size = 512  -> I512(zero, tfKw, tfInj)
            [] tfCase.size = 1024 -> I1024(zero, tfKw, tfInj + 1)

(* How Threefish permutes its words after a round: where word i comes from. *)
Permutation(n) ==
  CASE n = 4  -> <<0, 3, 2, 1>>
    [] n = 8  -> <<2, 1, 4, 7, 6, 5, 0, 3>>
    [] n = 16 -> <<0, 9, 2, 13, 6, 11, 4, 15, 10, 7, 12, 3, 14, 5, 8, 1>>

(* The code leaves the words in place instead: X[Place(n, d)[i]] is word i      *)
(* after d rounds, and after four every word is back.                            *)
Place(n, d) ==
  LET from(i) == Permutation(n)[i + 1]
  IN  [i \in 0..n - 1 |-> CASE d % 4 = 0 -> i
                            [] d % 4 = 1 -> from(i)
                            [] d % 4 = 2 -> from(from(i))
                            [] d % 4 = 3 -> from(from(from(i)))]

Cipher(X, n, d) == [i \in 0..n - 1 |-> X[Place(n, d)[i]]]

(* Round d of Threefish by its definition: MIX on neighbours, then permute.    *)
ThreefishRound(v, n, rot) ==
  LET mixed == [i \in 0..n - 1 |->
                  IF i % 2 = 0 THEN Add64(v[i], v[i + 1])
                  ELSE Xor64(RotL64(v[i], rot[(i + 1) \div 2]), Add64(v[i - 1], v[i]))]
  IN  [i \in 0..n - 1 |-> mixed[Permutation(n)[i + 1]]]

AddSubkey(v, case, s) == [i \in 0..Len(case.chain) - 1 |-> Add64(v[i], Subkey(case, s)[i])]

(* Every step of Skein_xxx_Process_Block, with its words that stay in place     *)
(* and its schedule turned in place, is a step of Threefish: the first subkey     *)
(* added to the block, rounds, a subkey after each four.                         *)
StepsAreThreefish ==
  [][LET n     == Len(tfCase.chain)
         shape == Shape(tfCase.size)
     IN  /\ tfPhase' # tfPhase /\ tfPhase = "start" =>
               tfX' = AddSubkey([i \in 0..n - 1 |-> tfCase.block[i + 1]], tfCase, 0)
         /\ tfRound' # tfRound =>
               Cipher(tfX', n, tfRound') =
                 ThreefishRound(Cipher(tfX, n, tfRound), n, shape.rot[(tfRound % 8) + 1])
         /\ tfInj' # tfInj =>
               Cipher(tfX', n, tfRound) = AddSubkey(Cipher(tfX, n, tfRound), tfCase, tfInj')
     ]_tfVars

(* What Skein_xxx_Init takes from skein_iv.h is what the configuration block   *)
(* would have given: the comment there says the values "are generated using      *)
(* the Threefish block function".                                                *)
TablesAreConfigured ==
  tfPhase = "done" => tfX = Tabulated(tfCase.size, tfCase.bits)
===============================================================================
