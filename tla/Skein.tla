-------------------------------- MODULE Skein --------------------------------
(* Skein hashing as hash/skein.cpp does it: a context is initialised, fed the *)
(* message in pieces, and finished. Every block size has its own copy of each *)
(* function; the copies differ in the size alone, so each is the same operator *)
(* here with its own number of block bytes.                                    *)
(*                                                                             *)
(* The Threefish compression is symbolic: a chaining value is the sequence of  *)
(* the compressions that made it, each with its tweak and its block (the       *)
(* arithmetic is in Threefish.tla). A byte is a number: below 256 the byte     *)
(* itself, above that a byte of the message or of the key, by its position.    *)
EXTENDS Integers, SequencesExt

CONSTANTS HashBits,   \* HashBits[N] : output lengths asked of N-byte Skein
          KeyBytes,   \* lengths of the MAC key, 0 for none
          ChunkBytes, \* lengths of the message piece one Update is given
          MaxBytes    \* bound: length of the whole message

ASSUME SizesAssumption ==
  /\ DOMAIN HashBits \subseteq {32, 64, 128}
  /\ \A N \in DOMAIN HashBits : HashBits[N] \subseteq Nat \ {0}
  /\ KeyBytes \subseteq Nat /\ ChunkBytes \subseteq Nat /\ MaxBytes \in Nat

VARIABLES skCall,  \* block bytes, output bits and key length of the hash under way
          skCtx,   \* Skein_xxx_Ctxt_t
          skFed,   \* message bytes given to Update so far
          skOut,   \* what the last Final, Final_Pad or Output wrote to hashVal
          skPhase  \* "fresh", "absorbing", "padded" (Final_Pad), "done"

skVars == <<skCall, skCtx, skFed, skOut, skPhase>>

Unset == -1  \* memory nobody has written
Message(from, n) == [i \in 1..n |-> 1000 + from + i]
Key(n)           == [i \in 1..n |-> 100000 + i]
Zeros(n)         == [i \in 1..n |-> 0]
Word(v)          == <<v % 256, (v \div 256) % 256>> \o Zeros(6)

(* ------------------------------- skein.h --------------------------------- *)

Tweak(type, final) == [type |-> type, first |-> TRUE, final |-> final]

(* Skein_Start_New_Type: T[0] = 0, T[1] = FIRST | type, bCnt = 0. *)
Skein_Start_New_Type(c, t1) == [c EXCEPT !.T0 = 0, !.T1 = t1, !.bCnt = 0]

(* The configuration block: schema and version ("SHA3", 1), the output length *)
(* in bits and the tree information, the rest zero.                           *)
SKEIN_CFG_STR_LEN == 32
ConfigBlock(N, bits, treeInfo) ==
  <<83, 72, 65, 51, 1, 0, 0, 0>> \o Word(bits) \o Word(treeInfo) \o Zeros(N - 24)

(* ------------------------- the block function ---------------------------- *)

(* A block adds `add` to the count in T[0], is compressed under the tweak, and *)
(* clears the FIRST flag.                                                      *)
Compress(c, block, add) ==
  [c EXCEPT !.T0 = @ + add,
            !.X  = Append(@, [T0 |-> c.T0 + add, T1 |-> c.T1, block |-> block]),
            !.T1.first = FALSE]

(* The context after every turn of the loop over the blocks of blk. *)
Turns(N, c, blk, add) ==
  LET after[i \in 0..Len(blk) \div N] ==
        IF i = 0 THEN c ELSE Compress(after[i - 1], SubSeq(blk, (i - 1) * N + 1, i * N), add)
  IN  after

Process_Block(N, c, blk, add) == Turns(N, c, blk, add)[Len(blk) \div N]

(* --------------------------- initialisation ------------------------------ *)

(* The output lengths whose chaining value after the configuration block is   *)
(* tabulated in skein_iv.h, and the tables: what the block leaves (the run on *)
(* Threefish checks the numbers themselves).                                  *)
Precomputed(N) == CASE N = 32  -> {128, 160, 224, 256}
                    [] N = 64  -> {224, 256, 384, 512}
                    [] N = 128 -> {384, 512, 1024}

SKEIN_IV(N, bits) ==
  << [T0 |-> SKEIN_CFG_STR_LEN, T1 |-> Tweak("CFG", TRUE), block |-> ConfigBlock(N, bits, 0)] >>

InitAs(N, c, bits) ==
  LET asked == [c EXCEPT !.hashBitLen = bits]
      tabulated == [asked EXCEPT !.X = SKEIN_IV(N, bits)]
      computed  == Process_Block(N,
                     Skein_Start_New_Type([asked EXCEPT !.X = <<>>], Tweak("CFG", TRUE)),
                     ConfigBlock(N, bits, 0), SKEIN_CFG_STR_LEN)
  IN  Skein_Start_New_Type(IF bits \in Precomputed(N) THEN tabulated ELSE computed,
                           Tweak("MSG", FALSE))

(* ------------------------------- Update ---------------------------------- *)

(* memcpy into b[] behind the bytes that wait there. *)
Buffer(c, msg) ==
  [c EXCEPT !.b = [i \in DOMAIN @ |-> IF i \in c.bCnt + 1..c.bCnt + Len(msg)
                                        THEN msg[i - c.bCnt] ELSE @[i]],
            !.bCnt = @ + Len(msg)]

(* Mutant: whole blocks are all compressed at once. *)
DirectBytesAll(N, len) == IF len > N THEN (len \div N) * N ELSE 0

(* How much of the input is compressed where it stands, without b[]. *)
DirectBytes(N, len) == IF len > N THEN ((len - 1) \div N) * N ELSE 0

(* The bytes that wait are compressed only when more than a block has come:   *)
(* the last block, full or not, stays in b[] until Final knows it is the last. *)
UpdateAs(N, c, msg) ==
  LET room    == N - c.bCnt
      full    == Buffer(c, SubSeq(msg, 1, room))
      flushed == [Process_Block(N, full, full.b, N) EXCEPT !.bCnt = 0]
      emptied == IF c.bCnt > 0 THEN flushed ELSE c
      left    == IF c.bCnt > 0 THEN SubSeq(msg, room + 1, Len(msg)) ELSE msg
      n       == DirectBytes(N, Len(left))
      direct  == Process_Block(N, emptied, SubSeq(left, 1, n), N)
  IN  IF Len(msg) + c.bCnt > N
        THEN Buffer(direct, SubSeq(left, n + 1, Len(left)))
        ELSE Buffer(c, msg)

(* ------------------------------- finishing ------------------------------- *)

(* Tag the block as the final one, pad it with zeroes, compress it with the   *)
(* count of the bytes it really holds.                                        *)
PadAndCompress(N, c) ==
  LET padded == [i \in 1..N |-> IF i > c.bCnt THEN 0 ELSE c.b[i]]
  IN  Process_Block(N, [c EXCEPT !.T1.final = TRUE, !.b = padded], padded, c.bCnt)

(* Mutant: the chaining value stays as the last output block left it. *)
KeyLeftAsIs(run, key) == run

(* memcpy(ctx->X, X): the chaining value for the next output block. *)
KeyRestored(run, key) == [run EXCEPT !.X = key]

(* Threefish in counter mode: block i of the output compresses the number i   *)
(* under the chaining value key, which is put back for the next block. An      *)
(* output is the sequence of the values it takes its bytes from, with their    *)
(* number.                                                                     *)
OutputBlock(N, a, key, byteCnt, i) ==
  LET counter == Word(i - 1) \o Zeros(N - 8)
      run == Process_Block(N, Skein_Start_New_Type([a.ctx EXCEPT !.b = counter],
                                                   Tweak("OUT", TRUE)), counter, 8)
      left == byteCnt - (i - 1) * N
  IN  [ctx |-> KeyRestored(run, key),
       hashVal |-> Append(a.hashVal, [X |-> run.X, bytes |-> IF left >= N THEN N ELSE left])]

OutputTurns(N, c, byteCnt, blocks) ==
  LET after[i \in 0..blocks] == IF i = 0 THEN [ctx |-> [c EXCEPT !.b = Zeros(N)], hashVal |-> <<>>]
                                ELSE OutputBlock(N, after[i - 1], c.X, byteCnt, i)
  IN  after

CounterMode(N, c) ==
  LET byteCnt == (c.hashBitLen + 7) \div 8
      blocks  == (byteCnt + N - 1) \div N
  IN  OutputTurns(N, c, byteCnt, blocks)[blocks]

FinalAs(N, c) == CounterMode(N, PadAndCompress(N, c))

FinalPadAs(N, c) ==
  LET d == PadAndCompress(N, c)
  IN  [ctx |-> d, hashVal |-> << [X |-> d.X, bytes |-> N] >>]

(* Keyed or tree hashing: the key is hashed as a message of its own, of type   *)
(* KEY and with no output stage, and its chaining value is the key of the      *)
(* configuration block. (The bytes of cfg.b are read back as the same words.)  *)
InitExtAs(N, c, bits, treeInfo, key) ==
  LET mini  == Skein_Start_New_Type([c EXCEPT !.hashBitLen = 8 * N, !.X = <<>>],
                                    Tweak("KEY", FALSE))
      keyed == IF key = <<>> THEN [c EXCEPT !.X = <<>>]
                             ELSE FinalPadAs(N, UpdateAs(N, mini, key)).ctx
      start == Skein_Start_New_Type([keyed EXCEPT !.hashBitLen = bits], Tweak("CFG", TRUE))
  IN  Skein_Start_New_Type(
        Process_Block(N, start, ConfigBlock(N, bits, treeInfo), SKEIN_CFG_STR_LEN),
        Tweak("MSG", FALSE))

(* -------------------- the functions, per block size ---------------------- *)

Skein_256_Init(c, bits) == InitAs(32, c, bits)
Skein_512_Init(c, bits) == InitAs(64, c, bits)
Skein1024_Init(c, bits) == InitAs(128, c, bits)

Skein_256_InitExt(c, bits, treeInfo, key) == InitExtAs(32, c, bits, treeInfo, key)
Skein_512_InitExt(c, bits, treeInfo, key) == InitExtAs(64, c, bits, treeInfo, key)
Skein1024_InitExt(c, bits, treeInfo, key) == InitExtAs(128, c, bits, treeInfo, key)

Skein_256_Update(c, msg) == UpdateAs(32, c, msg)
Skein_512_Update(c, msg) == UpdateAs(64, c, msg)
Skein1024_Update(c, msg) == UpdateAs(128, c, msg)

Skein_256_Final(c) == FinalAs(32, c)
Skein_512_Final(c) == FinalAs(64, c)
Skein1024_Final(c) == FinalAs(128, c)

Skein_256_Final_Pad(c) == FinalPadAs(32, c)
Skein_512_Final_Pad(c) == FinalPadAs(64, c)
Skein1024_Final_Pad(c) == FinalPadAs(128, c)

Skein_256_Output(c) == CounterMode(32, c)
Skein_512_Output(c) == CounterMode(64, c)
Skein1024_Output(c) == CounterMode(128, c)

(* The function of a block size, chosen when the program is compiled. *)
HashInit(N, c, bits) == CASE N = 32  -> Skein_256_Init(c, bits)
                          [] N = 64  -> Skein_512_Init(c, bits)
                          [] N = 128 -> Skein1024_Init(c, bits)

HashInitExt(N, c, bits, key) == CASE N = 32  -> Skein_256_InitExt(c, bits, 0, key)
                                  [] N = 64  -> Skein_512_InitExt(c, bits, 0, key)
                                  [] N = 128 -> Skein1024_InitExt(c, bits, 0, key)

HashUpdate(N, c, msg) == CASE N = 32  -> Skein_256_Update(c, msg)
                           [] N = 64  -> Skein_512_Update(c, msg)
                           [] N = 128 -> Skein1024_Update(c, msg)

HashFinal(N, c) == CASE N = 32  -> Skein_256_Final(c)
                     [] N = 64  -> Skein_512_Final(c)
                     [] N = 128 -> Skein1024_Final(c)

HashFinalPad(N, c) == CASE N = 32  -> Skein_256_Final_Pad(c)
                        [] N = 64  -> Skein_512_Final_Pad(c)
                        [] N = 128 -> Skein1024_Final_Pad(c)

HashOutput(N, c) == CASE N = 32  -> Skein_256_Output(c)
                      [] N = 64  -> Skein_512_Output(c)
                      [] N = 128 -> Skein1024_Output(c)

(* ------------------------- one context in use ---------------------------- *)

(* A context on the stack: nothing in it has a value yet. *)
NewContext(N) == [hashBitLen |-> Unset, bCnt |-> Unset, T0 |-> Unset, T1 |-> Tweak("none", FALSE),
                  X |-> << >>, b |-> [i \in 1..N |-> Unset]]

SkInit ==
  /\ skCall = [N |-> 0, bits |-> Unset, key |-> 0]
  /\ skCtx = NewContext(0)
  /\ skFed = 0 /\ skOut = << >> /\ skPhase = "fresh"

(* A context is used for one hash after another, or for the first time. *)
Context(N) == IF skCall.N = N THEN skCtx ELSE NewContext(N)

CallInit(N, bits) ==
  /\ skPhase \in {"fresh", "padded", "done"}
  /\ skCtx' = HashInit(N, Context(N), bits)
  /\ skCall' = [N |-> N, bits |-> bits, key |-> 0]
  /\ skFed' = 0 /\ skOut' = << >> /\ skPhase' = "absorbing"

CallInitExt(N, bits, k) ==
  /\ skPhase \in {"fresh", "padded", "done"}
  /\ skCtx' = HashInitExt(N, Context(N), bits, Key(k))
  /\ skCall' = [N |-> N, bits |-> bits, key |-> k]
  /\ skFed' = 0 /\ skOut' = << >> /\ skPhase' = "absorbing"

CallUpdate(n) ==
  /\ skPhase = "absorbing"
  /\ skFed + n <= MaxBytes
  /\ skCtx' = HashUpdate(skCall.N, skCtx, Message(skFed, n))
  /\ skFed' = skFed + n
  /\ UNCHANGED <<skCall, skOut, skPhase>>

CallFinal ==
  /\ skPhase = "absorbing"
  /\ LET r == HashFinal(skCall.N, skCtx)
     IN  skCtx' = r.ctx /\ skOut' = r.hashVal
  /\ skPhase' = "done"
  /\ UNCHANGED <<skCall, skFed>>

CallFinalPad ==
  /\ skPhase = "absorbing"
  /\ LET r == HashFinalPad(skCall.N, skCtx)
     IN  skCtx' = r.ctx /\ skOut' = r.hashVal
  /\ skPhase' = "padded"
  /\ UNCHANGED <<skCall, skFed>>

CallOutput ==
  /\ skPhase = "padded"
  /\ LET r == HashOutput(skCall.N, skCtx)
     IN  skCtx' = r.ctx /\ skOut' = r.hashVal
  /\ skPhase' = "done"
  /\ UNCHANGED <<skCall, skFed>>

SkNext == \/ \E N \in DOMAIN HashBits : \E bits \in HashBits[N] :
               \/ CallInit(N, bits)
               \/ \E k \in KeyBytes : CallInitExt(N, bits, k)
          \/ \E n \in ChunkBytes : CallUpdate(n)
          \/ CallFinal \/ CallFinalPad \/ CallOutput

SkSpec == SkInit /\ [][SkNext]_skVars

(* --------------------- what Skein is, by its definition ------------------ *)

(* Unique Block Iteration: the message cut into blocks, the last one padded   *)
(* with zeroes, each under the count of the bytes up to its end.              *)
UBI(N, G, M, type) ==
  LET blocks == IF M = << >> THEN 1 ELSE (Len(M) + N - 1) \div N
  IN  G \o [i \in 1..blocks |->
             [T0 |-> IF i = blocks THEN Len(M) ELSE i * N,
              T1 |-> [type |-> type, first |-> i = 1, final |-> i = blocks],
              block |-> [j \in 1..N |-> IF (i - 1) * N + j \in DOMAIN M
                                          THEN M[(i - 1) * N + j] ELSE 0]]]

ConfiguredChain(N, bits, key) ==
  UBI(N, IF key = << >> THEN << >> ELSE UBI(N, << >>, key, "KEY"),
      SubSeq(ConfigBlock(N, bits, 0), 1, SKEIN_CFG_STR_LEN), "CFG")

SkeinHash(N, bits, key, M) ==
  LET G       == UBI(N, ConfiguredChain(N, bits, key), M, "MSG")
      byteCnt == (bits + 7) \div 8
      blocks  == (byteCnt + N - 1) \div N
  IN  [i \in 1..blocks |-> [X |-> UBI(N, G, Word(i - 1), "OUT"),
                            bytes |-> IF i < blocks THEN N ELSE byteCnt - (i - 1) * N]]

(* -------------------------------- properties ----------------------------- *)

(* However the message was cut into pieces, the context between two calls of  *)
(* Update is the hash of what was given so far but for its last block, which  *)
(* waits in b[] untouched (also when it is full): Skein_xxx_Init, _InitExt and *)
(* _Update.                                                                    *)
StreamIsUBI ==
  skPhase = "absorbing" =>
    LET N     == skCall.N
        chain == ConfiguredChain(N, skCall.bits, Key(skCall.key))
        kept  == IF skFed = 0 THEN 0 ELSE (skFed - 1) \div N
    IN  /\ skCtx.X = SubSeq(UBI(N, chain, Message(0, skFed), "MSG"), 1, Len(chain) + kept)
        /\ skCtx.T0 = kept * N
        /\ skCtx.T1 = [type |-> "MSG", first |-> kept = 0, final |-> FALSE]
        /\ SubSeq(skCtx.b, 1, skCtx.bCnt) = Message(kept * N, skFed - kept * N)

(* Final, and Final_Pad followed by Output, give the Skein hash of the whole   *)
(* message under the key, for any cut of the message, any key length and any   *)
(* earlier use of the context: Skein_xxx_Final, _Final_Pad and _Output.        *)
DigestIsSkein ==
  skPhase = "done" =>
    skOut = SkeinHash(skCall.N, skCall.bits, Key(skCall.key), Message(0, skFed))
=============================================================================
