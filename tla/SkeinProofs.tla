----------------------------- MODULE SkeinProofs -----------------------------
(***************************************************************************)
(* Skein hashing is correct for every block size, output length, key       *)
(* length, message and cut of the message into pieces: a context that is   *)
(* being fed is the Unique Block Iteration of what it was given but for    *)
(* the last block, and what it returns is the Skein hash (StreamIsUBI,     *)
(* DigestIsSkein). The loops are recursive functions; each is known once a *)
(* function is named that satisfies its recursion.                         *)
(***************************************************************************)
EXTENDS Skein, Threefish, SharedLemmas

(* The values a context, its tweak and a compression are made of, as       *)
(* operators: the provers match an operator, and not a record constructor. *)
T(type, first, final) == [type |-> type, first |-> first, final |-> final]

Ctx(h, n, t0, t1, x, b) == [hashBitLen |-> h, bCnt |-> n, T0 |-> t0, T1 |-> t1, X |-> x, b |-> b]

(* The types of message that are hashed, and what the first of them are    *)
(* made of.                                                                *)
Types == {"KEY", "CFG", "MSG", "OUT"}
Tweaks == [type : Types, first : BOOLEAN, final : BOOLEAN]

Compression == [T0 : Int, T1 : Tweaks, block : Seq(Int)]

(* A message or a key, of which as many bytes are used as are given. *)
Texts == [Nat -> Int]

Part(M, from, n) == [i \in 1..n |-> M[from + i]]

(* The tweak after k blocks of a message. *)
Tw(type, k) == T(type, k = 0, FALSE)

(* The compression of block i of a message that goes on, and of the first  *)
(* k.                                                                      *)
Comp(N, type, M, i) ==
  [T0 |-> i * N, T1 |-> Tw(type, i - 1), block |-> Part(M, (i - 1) * N, N)]

Comps(N, type, M, k) == [i \in 1..k |-> Comp(N, type, M, i)]

(* A context that compressed k blocks of M under the chaining value G and  *)
(* holds n bytes in b.                                                     *)
At(N, G, type, M, h, n, b, k) ==
  Ctx(h, n, k * N, Tw(type, k), G \o Comps(N, type, M, k), b)

-----------------------------------------------------------------------------
(* What satisfies the recursion of Process_Block is its value: a loop of n *)
(* turns is known by naming the context after each of them.                *)
LEMMA TurnsFollow ==
  ASSUME NEW N, NEW c, NEW blk, NEW add, NEW n \in Nat, Len(blk) \div N = n, NEW g,
         g[0] = c,
         \A i \in 1..n : g[i] = Compress(g[i - 1], SubSeq(blk, (i - 1) * N + 1, i * N), add)
  PROVE  Process_Block(N, c, blk, add) = g[n]
<1> DEFINE f == Turns(N, c, blk, add)
           h == [i \in 0..n |-> g[i]]
<1>0. h = [i \in 0..n |-> IF i = 0 THEN c
             ELSE Compress(h[i - 1], SubSeq(blk, (i - 1) * N + 1, i * N), add)]
  <2>1. ASSUME NEW i \in 0..n, i # 0
        PROVE  g[i] = Compress(h[i - 1], SubSeq(blk, (i - 1) * N + 1, i * N), add)
    <3>1. i \in 1..n /\ i - 1 \in 0..n
      BY <2>1
    <3>2. h[i - 1] = g[i - 1]
      BY <3>1
    <3> QED
      BY <3>1, <3>2
  <2> QED
    BY <2>1
<1>1. f = [i \in 0..n |-> IF i = 0 THEN c
             ELSE Compress(f[i - 1], SubSeq(blk, (i - 1) * N + 1, i * N), add)]
  <2> HIDE DEF h
  <2> QED
    BY <1>0 DEF Turns
<1> HIDE DEF f, h
<1> DEFINE S == {i \in 0..n : f[i] = g[i]}
<1>2. 0 \in S
  BY <1>1
<1>3. ASSUME NEW i \in 1..n, i - 1 \in S PROVE i \in S
  <2>1. f[i] = Compress(f[i - 1], SubSeq(blk, (i - 1) * N + 1, i * N), add)
    BY <1>1
  <2>2. g[i] = Compress(g[i - 1], SubSeq(blk, (i - 1) * N + 1, i * N), add)
    OBVIOUS
  <2> QED
    BY <1>3, <2>1, <2>2
<1>4. S \in SUBSET (0..n)
  OBVIOUS
<1> HIDE DEF S
<1>5. S = 0..n
  BY <1>2, <1>3, <1>4, InductUpTo
<1>6. f[n] = g[n]
  <2>1. n \in 0..n
    OBVIOUS
  <2> QED
    BY <1>5, <2>1 DEF S
<1> QED
  BY <1>6 DEF Process_Block, f

(* The fields of Skein_xxx_Ctxt_t, and a context that has them is known by *)
(* them.                                                                   *)
CtxFields == {"hashBitLen", "bCnt", "T0", "T1", "X", "b"}

(* A function on exactly those fields is the record of its fields' values. *)
LEMMA CtxIs ==
  ASSUME NEW h, NEW n, NEW t0, NEW t1, NEW x, NEW b, NEW c, c = [f \in CtxFields |-> c[f]],
         c.hashBitLen = h, c.bCnt = n, c.T0 = t0, c.T1 = t1, c.X = x, c.b = b
  PROVE  c = Ctx(h, n, t0, t1, x, b)
BY DEF Ctx, CtxFields

(* The fields of a context that is given by them.                          *)
LEMMA CtxHas ==
  ASSUME NEW h, NEW n, NEW t0, NEW t1, NEW x, NEW b, NEW c, c = Ctx(h, n, t0, t1, x, b)
  PROVE  /\ c.hashBitLen = h /\ c.bCnt = n /\ c.T0 = t0 /\ c.T1 = t1 /\ c.X = x /\ c.b = b
         /\ DOMAIN c = CtxFields
BY DEF Ctx, CtxFields

(* The same for a tweak.                                                   *)
LEMMA TweakHas ==
  ASSUME NEW type, NEW first, NEW final, NEW t, t = T(type, first, final)
  PROVE  t.type = type /\ t.first = first /\ t.final = final /\ DOMAIN t = {"type", "first", "final"}
BY DEF T

(* A tweak is known by its fields.                                         *)
LEMMA TweakIs ==
  ASSUME NEW type, NEW first, NEW final, NEW t, t = [f \in {"type", "first", "final"} |-> t[f]],
         t.type = type, t.first = first, t.final = final
  PROVE  t = T(type, first, final)
BY DEF T

(* Clearing FIRST leaves the rest of a tweak.                              *)
LEMMA FirstCleared ==
  ASSUME NEW type, NEW first, NEW final, NEW t, t = T(type, first, final)
  PROVE  [t EXCEPT !.first = FALSE] = T(type, FALSE, final)
<1>1. PICK u : u = [t EXCEPT !.first = FALSE]
  OBVIOUS
<1>2. t.type = type /\ t.final = final /\ DOMAIN t = {"type", "first", "final"}
  BY TweakHas
<1>3. u = [f \in {"type", "first", "final"} |-> u[f]]
  BY <1>1, <1>2
<1>4. u.type = type /\ u.final = final
  BY <1>1, <1>2
<1>5. u.first = FALSE
  BY <1>1, <1>2
<1>6. PICK no : no = FALSE
  OBVIOUS
<1>7. u.first = no
  BY ONLY <1>5, <1>6, Zenon
<1>8. u = T(type, no, final)
  BY ONLY <1>3, <1>4, <1>7, TweakIs
<1> QED
  BY ONLY <1>1, <1>6, <1>8, Zenon

(* One turn of Process_Block, field by field.                              *)
LEMMA CompressIs ==
  ASSUME NEW h, NEW n, NEW t0, NEW t1, NEW t2, NEW x, NEW b, NEW block, NEW add,
         t2 = [t1 EXCEPT !.first = FALSE], NEW c, c = Ctx(h, n, t0, t1, x, b)
  PROVE  Compress(c, block, add)
           = Ctx(h, n, t0 + add, t2, Append(x, [T0 |-> t0 + add, T1 |-> t1, block |-> block]), b)
<1>1. PICK d : d = Compress(c, block, add)
  OBVIOUS
<1>2. /\ c.hashBitLen = h /\ c.bCnt = n /\ c.T0 = t0 /\ c.T1 = t1 /\ c.X = x
      /\ c.b = b /\ DOMAIN c = CtxFields
  BY CtxHas
<1>3. d = [f \in CtxFields |-> d[f]]
  BY <1>1, <1>2 DEF Compress
<1>4. d.hashBitLen = h /\ d.bCnt = n /\ d.T0 = t0 + add /\ d.b = b
  BY <1>1, <1>2 DEF Compress, CtxFields
<1>5. d.T1 = [c.T1 EXCEPT !.first = FALSE]
  BY <1>1, <1>2 DEF Compress, CtxFields
<1>6. d.X = Append(x, [T0 |-> t0 + add, T1 |-> t1, block |-> block])
  BY <1>1, <1>2 DEF Compress, CtxFields
<1>7. d.T1 = t2
  BY ONLY <1>2, <1>5, t2 = [t1 EXCEPT !.first = FALSE], Zenon
<1>8. d = Ctx(h, n, d.T0, t2, d.X, b)
  BY ONLY <1>3, <1>4, <1>7, CtxIs
<1> QED
  BY ONLY <1>1, <1>4, <1>6, <1>8, Zenon

(* Process_Block of one block is one turn.                                 *)
LEMMA ProcessOne ==
  ASSUME NEW N \in Nat \ {0}, NEW c, NEW blk \in Seq(Int), Len(blk) = N, NEW add
  PROVE  Process_Block(N, c, blk, add) = Compress(c, blk, add)
<1> DEFINE g == [i \in 0..1 |-> IF i = 0 THEN c ELSE Compress(c, blk, add)]
<1>1. Len(blk) \div N = 1
  OBVIOUS
<1>2. SubSeq(blk, (1 - 1) * N + 1, 1 * N) = blk
  OBVIOUS
<1>3. \A i \in 1..1 : g[i] = Compress(g[i - 1], SubSeq(blk, (i - 1) * N + 1, i * N), add)
  <2> SUFFICES ASSUME NEW i \in 1..1
               PROVE  g[i] = Compress(g[i - 1], SubSeq(blk, (i - 1) * N + 1, i * N), add)
    OBVIOUS
  <2>1. i = 1 /\ g[i - 1] = c /\ g[i] = Compress(c, blk, add)
    OBVIOUS
  <2> QED
    BY <2>1, <1>2
<1>4. g[1] = Compress(c, blk, add) /\ g[0] = c
  OBVIOUS
<1>5. 1 \in Nat
  OBVIOUS
<1> HIDE DEF g
<1> QED
  BY ONLY <1>1, <1>3, <1>4, <1>5, TurnsFollow

-----------------------------------------------------------------------------
(* The tweak of a message that goes on is a tweak.                         *)
LEMMA TwType ==
  ASSUME NEW type \in Types, NEW k
  PROVE  Tw(type, k) \in Tweaks
BY DEF Tw, T, Tweaks

(* After a block of it FIRST is clear.                                     *)
LEMMA TwNext ==
  ASSUME NEW type, NEW k \in Nat
  PROVE  [Tw(type, k) EXCEPT !.first = FALSE] = Tw(type, k + 1)
<1>1. PICK t : t = Tw(type, k)
  OBVIOUS
<1>2. [t EXCEPT !.first = FALSE] = T(type, FALSE, FALSE)
  <2>1. PICK f, no : f = (k = 0) /\ no = FALSE
    BY ONLY Zenon
  <2>2. t = T(type, f, no)
    BY ONLY <1>1, <2>1, Zenon DEF Tw
  <2>3. [t EXCEPT !.first = FALSE] = T(type, FALSE, no)
    BY ONLY <2>2, FirstCleared
  <2> QED
    BY ONLY <2>1, <2>3, Zenon
<1>3. Tw(type, k + 1) = T(type, FALSE, FALSE)
  <2>1. (k + 1 = 0) = FALSE
    OBVIOUS
  <2> QED
    BY ONLY <2>1, Zenon DEF Tw
<1> QED
  BY ONLY <1>1, <1>2, <1>3, Zenon

(* A part of a message is a sequence of its length.                        *)
LEMMA PartIs ==
  ASSUME NEW M \in Texts, NEW from \in Nat, NEW n \in Nat
  PROVE  /\ Part(M, from, n) \in Seq(Int) /\ Len(Part(M, from, n)) = n
         /\ \A i \in 1..n : Part(M, from, n)[i] = M[from + i]
BY DEF Part, Texts

(* A part of a part is a part.                                             *)
IsPart(M, from, n, lo, len) ==
  SubSeq(Part(M, from, n), lo + 1, lo + len) = Part(M, from + lo, len)

(* A part of a part, wherever it is cut.                                   *)
LEMMA PartOfPart ==
  ASSUME NEW M \in Texts, NEW from \in Nat, NEW n \in Nat, NEW lo \in Nat, NEW len \in Nat,
         lo + len <= n
  PROVE  IsPart(M, from, n, lo, len)
<1>1. SubSeq(Part(M, from, n), lo + 1, lo + len)
        = [i \in 1..lo + len - (lo + 1) + 1 |-> Part(M, from, n)[i + (lo + 1) - 1]]
  BY PartIs
<1>2. lo + len - (lo + 1) + 1 = len
  OBVIOUS
<1>3. ASSUME NEW i \in 1..len PROVE Part(M, from, n)[i + (lo + 1) - 1] = M[from + lo + i]
  <2>1. i + (lo + 1) - 1 \in 1..n /\ i + (lo + 1) - 1 = lo + i
    OBVIOUS
  <2>2. from + (lo + i) = from + lo + i
    OBVIOUS
  <2> QED
    BY <2>1, <2>2 DEF Part
<1> QED
  BY <1>1, <1>2, <1>3 DEF Part, IsPart

(* The block that turn i of Process_Block takes of q blocks.               *)
LEMMA BlockOfPart ==
  ASSUME NEW N \in Nat \ {0}, NEW M \in Texts, NEW k \in Nat, NEW q \in Nat, NEW i \in 1..q
  PROVE  SubSeq(Part(M, k * N, q * N), (i - 1) * N + 1, i * N) = Part(M, (k + (i - 1)) * N, N)
<1>1. (i - 1) * N \in Nat /\ (i - 1) * N + N = i * N /\ k * N + (i - 1) * N = (k + (i - 1)) * N
      /\ k * N \in Nat /\ q * N \in Nat
  OBVIOUS
<1>2. i * N <= q * N
  <2>1. PICK d \in Nat : q = i + d
    <3>1. q - i \in Nat /\ q = i + (q - i)
      OBVIOUS
    <3> QED
      BY <3>1
  <2>2. q * N = i * N + d * N /\ d * N \in Nat /\ i * N \in Nat
    BY <2>1
  <2> QED
    BY <2>2
<1> PICK from \in Nat, len \in Nat, lo \in Nat, n \in Nat :
      from = k * N /\ len = q * N /\ lo = (i - 1) * N /\ n = N
  BY <1>1
<1>3. lo + n <= len
  BY <1>1, <1>2
<1>4. IsPart(M, from, len, lo, n)
  BY ONLY <1>3, PartOfPart, M \in Texts, from \in Nat, len \in Nat, lo \in Nat, n \in Nat
<1> QED
  BY <1>1, <1>4 DEF IsPart

(* A compression of a message is one.                                      *)
LEMMA CompType ==
  ASSUME NEW N \in Nat, NEW type \in Types, NEW M \in Texts, NEW i \in Nat \ {0}
  PROVE  Comp(N, type, M, i) \in Compression
<1>1. i * N \in Int /\ (i - 1) * N \in Nat
  OBVIOUS
<1>2. Part(M, (i - 1) * N, N) \in Seq(Int)
  BY <1>1, PartIs
<1> QED
  BY <1>1, <1>2, TwType DEF Comp, Compression

(* Chaining values can be put together in either order.                    *)
LEMMA ChainsAssociate == \A s, t, u \in Seq(Compression) : s \o (t \o u) = (s \o t) \o u
BY ConcatAssociates

(* One block more of a message is one compression more behind its chaining *)
(* value.                                                                  *)
LEMMA OneMore ==
  ASSUME NEW N \in Nat, NEW type \in Types, NEW M \in Texts, NEW k \in Nat,
         NEW G \in Seq(Compression)
  PROVE  Append(G \o Comps(N, type, M, k), Comp(N, type, M, k + 1)) = G \o Comps(N, type, M, k + 1)
<1> PICK s : s = Comps(N, type, M, k)
  OBVIOUS
<1> PICK x : x = Comp(N, type, M, k + 1)
  OBVIOUS
<1> PICK t : t = Comps(N, type, M, k + 1)
  OBVIOUS
<1>1. s = [i \in 1..k |-> Comp(N, type, M, i)] /\ t = [i \in 1..k + 1 |-> Comp(N, type, M, i)]
  BY DEF Comps
<1>2. \A i \in 1..k + 1 : Comp(N, type, M, i) \in Compression
  <2>1. \A i \in 1..k + 1 : i \in Nat \ {0}
    OBVIOUS
  <2> QED
    BY <2>1, CompType
<1>3. s \in Seq(Compression) /\ Len(s) = k /\ x \in Compression
  BY <1>1, <1>2
<1>4. t \in Seq(Compression) /\ Len(t) = k + 1
  BY <1>1, <1>2
<1>5. \A i \in 1..k : t[i] = s[i]
  BY <1>1
<1>6. t[k + 1] = x
  BY <1>1
<1>7. t = Append(s, x)
  BY ONLY <1>3, <1>4, <1>5, <1>6, k \in Nat
<1>8. Append(s, x) = s \o <<x>> /\ Append(G \o s, x) = (G \o s) \o <<x>>
  BY ONLY <1>3, G \in Seq(Compression), AppendIsConcat
<1>9. (G \o s) \o <<x>> = G \o (s \o <<x>>)
  <2>1. <<x>> \in Seq(Compression)
    BY ONLY <1>3
  <2> QED
    BY ONLY <2>1, ChainsAssociate, <1>3, G \in Seq(Compression), Zenon
<1> QED
  BY ONLY <1>7, <1>8, <1>9, s = Comps(N, type, M, k), x = Comp(N, type, M, k + 1),
          t = Comps(N, type, M, k + 1)

(* Process_Block of q blocks of M, from block k on, brings a context from  *)
(* k blocks to k + q: the loop keeps the count in T[0], the tweak and the  *)
(* chaining value in step.                                                 *)
LEMMA ProcessMany ==
  ASSUME NEW N \in Nat \ {0}, NEW type \in Types, NEW M \in Texts, NEW k \in Nat,
         NEW G \in Seq(Compression), NEW q \in Nat, NEW h, NEW n, NEW b
  PROVE  Process_Block(N, At(N, G, type, M, h, n, b, k), Part(M, k * N, q * N), N)
           = At(N, G, type, M, h, n, b, k + q)
<1> PICK blk : blk = Part(M, k * N, q * N)
  OBVIOUS
<1> DEFINE g == [i \in 0..q |-> At(N, G, type, M, h, n, b, k + i)]
<1>1. blk \in Seq(Int) /\ Len(blk) = q * N /\ q * N \in Nat /\ k * N \in Nat
  <2>1. q * N \in Nat /\ k * N \in Nat
    OBVIOUS
  <2> QED
    BY ONLY <2>1, M \in Texts, blk = Part(M, k * N, q * N), PartIs
<1>2. Len(blk) \div N = q
  <2>1. PICK z \in Nat : z = 0
    OBVIOUS
  <2>2. (q * N + z) \div N = q
    BY ONLY QuotientIs, <2>1, N \in Nat \ {0}, q \in Nat, z < N
  <2>3. q * N + z = q * N
    BY <1>1, <2>1
  <2> QED
    BY ONLY <1>1, <2>2, <2>3
<1>3. ASSUME NEW i \in 1..q
      PROVE  g[i] = Compress(g[i - 1], SubSeq(blk, (i - 1) * N + 1, i * N), N)
  <2>1. PICK j \in Nat : j = k + (i - 1)
    OBVIOUS
  <2>2. k + i = j + 1 /\ (j + 1) - 1 = j /\ j + 1 \in Nat
    BY <2>1
  <2>3. SubSeq(blk, (i - 1) * N + 1, i * N) = Part(M, j * N, N)
    <3>1. SubSeq(Part(M, k * N, q * N), (i - 1) * N + 1, i * N) = Part(M, (k + (i - 1)) * N, N)
      BY BlockOfPart
    <3> QED
      BY <3>1, <2>1
  <2>4. PICK t1, t2 : t1 = Tw(type, j) /\ t2 = Tw(type, j + 1) /\ t2 = [t1 EXCEPT !.first = FALSE]
    BY TwNext
  <2>5. PICK x : x = G \o Comps(N, type, M, j)
    OBVIOUS
  <2>6. PICK c : c = Ctx(h, n, j * N, t1, x, b)
    OBVIOUS
  <2>7. c = g[i - 1]
    <3>1. g[i - 1] = At(N, G, type, M, h, n, b, j)
      BY <2>1
    <3> QED
      BY ONLY <3>1, <2>4, <2>5, <2>6 DEF At
  <2>8. Compress(c, Part(M, j * N, N), N)
          = Ctx(h, n, j * N + N, t2,
                Append(x, [T0 |-> j * N + N, T1 |-> t1, block |-> Part(M, j * N, N)]), b)
    BY ONLY <2>4, <2>6, CompressIs
  <2>9. j * N + N = (j + 1) * N
    OBVIOUS
  <2>10. [T0 |-> j * N + N, T1 |-> t1, block |-> Part(M, j * N, N)] = Comp(N, type, M, j + 1)
    BY <2>2, <2>4, <2>9 DEF Comp
  <2>11. Append(x, Comp(N, type, M, j + 1)) = G \o Comps(N, type, M, j + 1)
    BY <2>5, OneMore
  <2>12. g[i] = Ctx(h, n, (j + 1) * N, t2, G \o Comps(N, type, M, j + 1), b)
    BY <2>2, <2>4 DEF At
  <2> HIDE DEF g
  <2> QED
    BY ONLY <2>3, <2>7, <2>8, <2>9, <2>10, <2>11, <2>12, Zenon
<1>4. g[0] = At(N, G, type, M, h, n, b, k) /\ g[q] = At(N, G, type, M, h, n, b, k + q)
  OBVIOUS
<1> HIDE DEF g
<1>5. \A i \in 1..q : g[i] = Compress(g[i - 1], SubSeq(blk, (i - 1) * N + 1, i * N), N)
  BY <1>3
<1>6. Process_Block(N, At(N, G, type, M, h, n, b, k), blk, N) = g[q]
  <2> PICK c : c = At(N, G, type, M, h, n, b, k)
    OBVIOUS
  <2>1. g[0] = c
    BY <1>4
  <2>2. Process_Block(N, c, blk, N) = g[q]
    BY ONLY <1>2, <2>1, <1>5, TurnsFollow, q \in Nat
  <2> QED
    BY <2>2
<1> QED
  BY <1>4, <1>6

-----------------------------------------------------------------------------
(* A part cut in two.                                                      *)
Splits(M, from, n, lo) ==
  /\ SubSeq(Part(M, from, n), 1, lo) = Part(M, from, lo)
  /\ SubSeq(Part(M, from, n), lo + 1, n) = Part(M, from + lo, n - lo)

(* Both halves are the parts of M they should be.                          *)
LEMMA PartSplits ==
  ASSUME NEW M \in Texts, NEW from \in Nat, NEW n \in Nat, NEW lo \in Nat, lo <= n
  PROVE  Splits(M, from, n, lo)
<1> PICK z \in Nat, r \in Nat : z = 0 /\ r = n - lo
  OBVIOUS
<1>1. z + lo <= n /\ lo + r <= n
  OBVIOUS
<1>2. IsPart(M, from, n, z, lo) /\ IsPart(M, from, n, lo, r)
  BY <1>1, PartOfPart
<1>3. z + 1 = 1 /\ z + lo = lo /\ from + z = from /\ lo + r = n /\ r = n - lo
  OBVIOUS
<1> QED
  BY ONLY <1>2, <1>3 DEF IsPart, Splits

(* Skein_Start_New_Type, field by field.                                   *)
LEMMA StartIs ==
  ASSUME NEW h, NEW n, NEW t0, NEW t1, NEW x, NEW b, NEW c, c = Ctx(h, n, t0, t1, x, b), NEW t
  PROVE  Skein_Start_New_Type(c, t) = Ctx(h, 0, 0, t, x, b)
<1>1. PICK d : d = Skein_Start_New_Type(c, t)
  OBVIOUS
<1>2. /\ c.hashBitLen = h /\ c.bCnt = n /\ c.T0 = t0 /\ c.T1 = t1 /\ c.X = x
      /\ c.b = b /\ DOMAIN c = CtxFields
  BY CtxHas
<1>3. d = [f \in CtxFields |-> d[f]]
  BY <1>1, <1>2 DEF Skein_Start_New_Type
<1>4. d.hashBitLen = h /\ d.bCnt = 0 /\ d.T0 = 0 /\ d.T1 = t /\ d.X = x /\ d.b = b
  BY <1>1, <1>2 DEF Skein_Start_New_Type, CtxFields
<1> QED
  BY ONLY <1>1, <1>3, <1>4, CtxIs

(* Setting bCnt, field by field.                                           *)
LEMMA CountIs ==
  ASSUME NEW h, NEW n, NEW t0, NEW t1, NEW x, NEW b, NEW c, c = Ctx(h, n, t0, t1, x, b), NEW m
  PROVE  [c EXCEPT !.bCnt = m] = Ctx(h, m, t0, t1, x, b)
<1>1. PICK d : d = [c EXCEPT !.bCnt = m]
  OBVIOUS
<1>2. /\ c.hashBitLen = h /\ c.bCnt = n /\ c.T0 = t0 /\ c.T1 = t1 /\ c.X = x
      /\ c.b = b /\ DOMAIN c = CtxFields
  BY CtxHas
<1>3. d = [f \in CtxFields |-> d[f]]
  BY <1>1, <1>2
<1>4. d.hashBitLen = h /\ d.bCnt = m /\ d.T0 = t0 /\ d.T1 = t1 /\ d.X = x /\ d.b = b
  BY <1>1, <1>2 DEF CtxFields
<1>5. d = Ctx(h, m, t0, t1, x, b)
  BY ONLY <1>3, <1>4, CtxIs
<1> QED
  BY ONLY <1>1, <1>5, Zenon

(* The first n bytes of a buffer are those of M behind base. *)
Waits(b, N, M, base, n) == b \in [1..N -> Int] /\ \A i \in 1..n : b[i] = M[base + i]

(* memcpy of a part of M behind the bytes that wait leaves more of M       *)
(* waiting, as long as the block has room for it.                          *)
LEMMA BufferIs ==
  ASSUME NEW N \in Nat, NEW M \in Texts, NEW base \in Nat, NEW n \in Nat, NEW m \in Nat,
         n + m <= N, NEW h, NEW t0, NEW t1, NEW x, NEW b, Waits(b, N, M, base, n),
         NEW c, c = Ctx(h, n, t0, t1, x, b), NEW msg, msg = Part(M, base + n, m)
  PROVE  \E b2 : Buffer(c, msg) = Ctx(h, n + m, t0, t1, x, b2) /\ Waits(b2, N, M, base, n + m)
<1> PICK d : d = Buffer(c, msg)
  OBVIOUS
<1>1. /\ c.hashBitLen = h /\ c.bCnt = n /\ c.T0 = t0 /\ c.T1 = t1 /\ c.X = x
      /\ c.b = b /\ DOMAIN c = CtxFields
  BY CtxHas
<1>2. base + n \in Nat
  OBVIOUS
<1>3. Len(msg) = m /\ \A i \in 1..m : msg[i] = M[base + n + i]
  BY <1>2, PartIs
<1>4. b \in [1..N -> Int] /\ \A i \in 1..n : b[i] = M[base + i]
  BY DEF Waits
<1>5. d = [f \in CtxFields |-> d[f]]
  BY <1>1 DEF Buffer
<1>6. d.hashBitLen = h /\ d.T0 = t0 /\ d.T1 = t1 /\ d.X = x
  BY <1>1 DEF Buffer, CtxFields
<1>7. d.bCnt = n + m
  BY <1>1, <1>3 DEF Buffer, CtxFields
<1>8. d.b = [i \in 1..N |-> IF i \in n + 1..n + m THEN msg[i - n] ELSE b[i]]
  <2>1. d.b = [i \in DOMAIN b |-> IF i \in n + 1..n + m THEN msg[i - n] ELSE b[i]]
    BY <1>1, <1>3 DEF Buffer, CtxFields
  <2> QED
    BY <2>1, <1>4
<1>9. \A i \in 1..N : i \in n + 1..n + m => msg[i - n] = M[base + i] /\ M[base + i] \in Int
  <2> SUFFICES ASSUME NEW i \in n + 1..n + m
               PROVE  msg[i - n] = M[base + i] /\ M[base + i] \in Int
    OBVIOUS
  <2>1. i - n \in 1..m /\ base + n + (i - n) = base + i /\ base + i \in Nat
    OBVIOUS
  <2> QED
    BY <2>1, <1>3 DEF Texts
<1>10. \A i \in 1..n + m : i \in 1..N /\ (i \in n + 1..n + m \/ i \in 1..n)
  OBVIOUS
<1>11. Waits(d.b, N, M, base, n + m)
  <2>1. d.b \in [1..N -> Int]
    <3>1. ASSUME NEW i \in 1..N
          PROVE  (IF i \in n + 1..n + m THEN msg[i - n] ELSE b[i]) \in Int
      <4>1. CASE i \in n + 1..n + m
        <5>1. msg[i - n] \in Int
          BY <1>9, <4>1
        <5> QED
          BY <4>1, <5>1
      <4>2. CASE ~ (i \in n + 1..n + m)
        BY <1>4, <4>2
      <4> QED
        BY <4>1, <4>2
    <3> QED
      BY <1>8, <3>1
  <2>2. \A i \in 1..n + m : d.b[i] = M[base + i]
    <3> SUFFICES ASSUME NEW i \in 1..n + m PROVE d.b[i] = M[base + i]
      OBVIOUS
    <3>1. i \in 1..N
      BY <1>10
    <3>2. CASE i \in n + 1..n + m
      BY <1>8, <1>9, <3>1, <3>2
    <3>3. CASE ~ (i \in n + 1..n + m)
      BY <1>4, <1>8, <1>10, <3>1, <3>3
    <3> QED
      BY <3>2, <3>3
  <2> QED
    BY <2>1, <2>2 DEF Waits
<1>12. PICK s : s = n + m
  OBVIOUS
<1>13. d = Ctx(h, s, t0, t1, x, d.b)
  BY ONLY <1>5, <1>6, <1>7, <1>12, CtxIs
<1> QED
  BY <1>11, <1>12, <1>13

-----------------------------------------------------------------------------
(* A context that was given `fed` bytes: all but the last n in k blocks. *)
Stream(N, G, type, M, h, fed, c, k, n, b) ==
  /\ c = At(N, G, type, M, h, n, b, k)
  /\ fed = k * N + n /\ n <= N /\ (n = 0 => k = 0)
  /\ Waits(b, N, M, k * N, n)

(* How many blocks and how many bytes is not said.                         *)
Streams(N, G, type, M, h, fed, c) ==
  \E k \in Nat, n \in Nat : \E b : Stream(N, G, type, M, h, fed, c, k, n, b)

(* Input that is hashed where it stands. *)
LEMMA DirectIs ==
  ASSUME NEW N \in Nat \ {0}, NEW len \in Nat \ {0}
  PROVE  \E q \in Nat, r \in Nat : /\ DirectBytes(N, len) = q * N /\ len = q * N + r
                                   /\ 0 < r /\ r <= N
<1>1. len - 1 \in Nat
  OBVIOUS
<1>2. PICK q \in Nat, s \in Nat : q = (len - 1) \div N /\ s < N /\ len - 1 = N * q + s
  BY <1>1, Division
<1>3. N * q = q * N /\ q * N \in Nat
  OBVIOUS
<1>4. PICK r \in Nat : r = s + 1
  OBVIOUS
<1>5. len = q * N + r /\ 0 < r /\ r <= N
  BY <1>2, <1>3, <1>4
<1>6. DirectBytes(N, len) = q * N
  <2>1. CASE len > N
    BY <1>2, <2>1 DEF DirectBytes
  <2>2. CASE ~ (len > N)
    <3>1. q = 0
      <4>1. N * q + s < N * 1
        BY <1>2, <2>2
      <4>2. 1 \in Nat
        OBVIOUS
      <4>3. q < 1
        BY <4>1, <4>2, DivisionBound
      <4> QED
        BY <4>3
    <3>2. q * N = 0
      BY <3>1
    <3> QED
      BY <2>2, <3>2 DEF DirectBytes
  <2> QED
    BY <2>1, <2>2
<1> QED
  BY <1>5, <1>6

(* From a block boundary on: whole blocks, then what is left. *)
LEMMA RestOfUpdate ==
  ASSUME NEW N \in Nat \ {0}, NEW type \in Types, NEW M \in Texts, NEW G \in Seq(Compression),
         NEW h, NEW k \in Nat, NEW len \in Nat \ {0}, NEW b, b \in [1..N -> Int],
         NEW e, e = At(N, G, type, M, h, 0, b, k), NEW left, left = Part(M, k * N, len),
         NEW d, d = DirectBytes(N, len)
  PROVE  Streams(N, G, type, M, h, k * N + len,
                 Buffer(Process_Block(N, e, SubSeq(left, 1, d), N), SubSeq(left, d + 1, len)))
<1>1. PICK q \in Nat, r \in Nat : d = q * N /\ len = q * N + r /\ 0 < r /\ r <= N
  BY DirectIs
<1>2. k * N \in Nat /\ d \in Nat /\ d <= len /\ len - d = r /\ len \in Nat
      /\ k * N + d = (k + q) * N /\ (k + q) * N \in Nat /\ k + q \in Nat
      /\ k * N + len = (k + q) * N + r
  <2>1. k * N \in Nat /\ q * N \in Nat /\ k * N + q * N = (k + q) * N
    OBVIOUS
  <2> QED
    BY <1>1, <2>1
<1>3. Splits(M, k * N, len, d)
  BY <1>2, PartSplits
<1>4. SubSeq(left, 1, d) = Part(M, k * N, q * N)
  BY ONLY <1>1, <1>3, left = Part(M, k * N, len) DEF Splits
<1>5. SubSeq(left, d + 1, len) = Part(M, (k + q) * N, r)
  BY ONLY <1>1, <1>2, <1>3, left = Part(M, k * N, len) DEF Splits
<1>6. Process_Block(N, e, SubSeq(left, 1, d), N) = At(N, G, type, M, h, 0, b, k + q)
  <2>1. PICK z : z = 0
    OBVIOUS
  <2>2. Process_Block(N, At(N, G, type, M, h, z, b, k), Part(M, k * N, q * N), N)
          = At(N, G, type, M, h, z, b, k + q)
    BY ONLY ProcessMany, N \in Nat \ {0}, type \in Types, M \in Texts, k \in Nat,
            G \in Seq(Compression), q \in Nat
  <2> QED
    BY ONLY <1>4, <2>1, <2>2, e = At(N, G, type, M, h, 0, b, k), Zenon
<1>7. PICK p : p = k + q
  OBVIOUS
<1>8. PICK f : f = At(N, G, type, M, h, 0, b, p)
  OBVIOUS
<1>9. PICK msg : msg = Part(M, p * N, r)
  OBVIOUS
<1>10. \E b2 : Buffer(f, msg) = At(N, G, type, M, h, r, b2, p) /\ Waits(b2, N, M, p * N, r)
  <2>1. PICK base \in Nat, z \in Nat : base = p * N /\ z = 0
    BY <1>2, <1>7
  <2>2. Waits(b, N, M, base, z)
    BY <2>1 DEF Waits
  <2>3. PICK t0, t1, x : t0 = p * N /\ t1 = Tw(type, p) /\ x = G \o Comps(N, type, M, p)
    OBVIOUS
  <2>4. f = Ctx(h, z, t0, t1, x, b)
    BY ONLY <1>8, <2>1, <2>3 DEF At
  <2>5. msg = Part(M, base + z, r) /\ z + r <= N
    BY <1>1, <1>9, <2>1
  <2>6. PICK b2 : Buffer(f, msg) = Ctx(h, z + r, t0, t1, x, b2) /\ Waits(b2, N, M, base, z + r)
    BY ONLY <2>2, <2>4, <2>5, BufferIs, N \in Nat, M \in Texts, base \in Nat, z \in Nat, r \in Nat
  <2>7. z + r = r
    BY <2>1
  <2> QED
    BY ONLY <2>1, <2>3, <2>6, <2>7 DEF At
<1>11. PICK b2 : Buffer(f, msg) = At(N, G, type, M, h, r, b2, p) /\ Waits(b2, N, M, p * N, r)
  BY <1>10
<1>12. Stream(N, G, type, M, h, k * N + len, Buffer(f, msg), p, r, b2)
  BY <1>1, <1>2, <1>7, <1>11 DEF Stream
<1>13. Buffer(f, msg) = Buffer(Process_Block(N, e, SubSeq(left, 1, d), N), SubSeq(left, d + 1, len))
  BY ONLY <1>5, <1>6, <1>7, <1>8, <1>9, Zenon
<1> QED
  BY ONLY <1>2, <1>7, <1>12, <1>13, r \in Nat, Zenon DEF Streams

(* Update: however the input is cut, the context goes on with the stream. *)
LEMMA UpdateStreams ==
  ASSUME NEW N \in Nat \ {0}, NEW type \in Types, NEW M \in Texts, NEW G \in Seq(Compression),
         NEW h, NEW fed \in Nat, NEW c, Streams(N, G, type, M, h, fed, c), NEW m \in Nat,
         NEW msg, msg = Part(M, fed, m)
  PROVE  Streams(N, G, type, M, h, fed + m, UpdateAs(N, c, msg))
<1>0. PICK k \in Nat, n \in Nat : \E b : Stream(N, G, type, M, h, fed, c, k, n, b)
  BY DEF Streams
<1>1. PICK b : Stream(N, G, type, M, h, fed, c, k, n, b)
  BY <1>0
<1>2. /\ c = At(N, G, type, M, h, n, b, k)
      /\ fed = k * N + n /\ n <= N /\ (n = 0 => k = 0)
      /\ Waits(b, N, M, k * N, n) /\ k * N \in Nat
  BY <1>1 DEF Stream
<1> PICK base \in Nat : base = k * N
  BY <1>2
<1> PICK t1, x : t1 = Tw(type, k) /\ x = G \o Comps(N, type, M, k)
  OBVIOUS
<1>3. c = Ctx(h, n, base, t1, x, b)
  BY <1>2 DEF At
<1>4. c.bCnt = n
  BY <1>3, CtxHas
<1>5. Len(msg) = m
  BY PartIs
<1>6. msg = Part(M, base + n, m)
  BY <1>2
<1>7. CASE m + n <= N
  <2>1. ~ (Len(msg) + c.bCnt > N)
    BY <1>4, <1>5, <1>7
  <2>2. UpdateAs(N, c, msg) = Buffer(c, msg)
    BY <2>1, Zenon DEF UpdateAs
  <2>3. n + m <= N /\ N \in Nat
    BY <1>7
  <2>4. PICK b2 : Buffer(c, msg) = Ctx(h, n + m, base, t1, x, b2) /\ Waits(b2, N, M, base, n + m)
    <3>1. Waits(b, N, M, base, n)
      BY <1>2
    <3> QED
      BY ONLY <1>3, <1>6, <2>3, <3>1, BufferIs, M \in Texts, base \in Nat, n \in Nat, m \in Nat
  <2>5. PICK p \in Nat : p = n + m
    OBVIOUS
  <2>6. Buffer(c, msg) = At(N, G, type, M, h, p, b2, k)
    BY <2>4, <2>5 DEF At
  <2>7. fed + m = k * N + p /\ p <= N /\ Waits(b2, N, M, k * N, p)
    BY <1>2, <2>3, <2>4, <2>5
  <2>8. p = 0 => k = 0
    BY <1>2, <2>5
  <2>9. Stream(N, G, type, M, h, fed + m, UpdateAs(N, c, msg), k, p, b2)
    BY ONLY <2>2, <2>6, <2>7, <2>8 DEF Stream
  <2> QED
    BY <2>9 DEF Streams
<1>8. CASE ~ (m + n <= N) /\ n = 0
  <2>1. Len(msg) + c.bCnt > N /\ ~ (c.bCnt > 0) /\ k = 0 /\ base = 0 /\ fed = 0
    BY <1>2, <1>4, <1>5, <1>8
  <2>2. PICK d : d = DirectBytes(N, m)
    OBVIOUS
  <2>3. UpdateAs(N, c, msg)
          = Buffer(Process_Block(N, c, SubSeq(msg, 1, d), N), SubSeq(msg, d + 1, m))
    BY <1>5, <2>1, <2>2, Zenon DEF UpdateAs
  <2>4. m \in Nat \ {0}
    BY <1>8
  <2>5. c = At(N, G, type, M, h, 0, b, k)
    BY ONLY <1>2, <1>8, Zenon
  <2>6. msg = Part(M, k * N, m)
    BY <1>6, <1>8, <1>2
  <2>7. b \in [1..N -> Int]
    BY <1>2 DEF Waits
  <2>8. Streams(N, G, type, M, h, k * N + m, UpdateAs(N, c, msg))
    <3>1. Streams(N, G, type, M, h, k * N + m,
                 Buffer(Process_Block(N, c, SubSeq(msg, 1, d), N), SubSeq(msg, d + 1, m)))
      BY ONLY <2>2, <2>4, <2>5, <2>6, <2>7, RestOfUpdate, N \in Nat \ {0}, type \in Types,
              M \in Texts, G \in Seq(Compression), k \in Nat
    <3> QED
      BY ONLY <2>3, <3>1, Zenon
  <2>9. k * N + m = fed + m
    BY <1>2, <1>8
  <2> QED
    BY ONLY <2>8, <2>9, Zenon
<1>9. CASE ~ (m + n <= N) /\ n # 0
  <2>1. Len(msg) + c.bCnt > N /\ c.bCnt > 0
    BY <1>4, <1>5, <1>9
  <2> PICK room \in Nat, rest \in Nat : room = N - n /\ rest = m - room
    BY <1>2, <1>9
  <2>2. room <= m /\ n + room = N /\ rest \in Nat \ {0} /\ m = room + rest
    BY <1>9
  <2> PICK first, left : first = SubSeq(msg, 1, room) /\ left = SubSeq(msg, room + 1, m)
    OBVIOUS
  <2>3. base + n \in Nat /\ base + n + room = base + N /\ base + N = (k + 1) * N
    <3>1. k * N + N = (k + 1) * N
      OBVIOUS
    <3>2. base + n \in Nat /\ base + n + room = base + N
      BY ONLY <2>2, base \in Nat, n \in Nat, room \in Nat
    <3> QED
      BY ONLY <3>1, <3>2, base = k * N
  <2>4. Splits(M, base + n, m, room)
    BY <2>2, <2>3, PartSplits
  <2>5. first = Part(M, base + n, room) /\ left = Part(M, (k + 1) * N, rest)
    BY <1>6, <2>2, <2>3, <2>4 DEF Splits
  <2>6. PICK b2 : Buffer(c, first) = Ctx(h, n + room, base, t1, x, b2)
                  /\ Waits(b2, N, M, base, n + room)
    <3>1. Waits(b, N, M, base, n) /\ n + room <= N /\ N \in Nat
      BY <1>2, <2>2
    <3> QED
      BY ONLY <1>3, <2>5, <3>1, BufferIs, M \in Texts, base \in Nat, n \in Nat, room \in Nat
  <2>7. PICK full : full = Buffer(c, first)
    OBVIOUS
  <2>8. full = At(N, G, type, M, h, N, b2, k)
    BY ONLY <2>2, <2>6, <2>7, base = k * N, t1 = Tw(type, k), x = G \o Comps(N, type, M, k)
       DEF At
  <2>9. full.b = b2
    <3>1. full = Ctx(h, n + room, base, t1, x, b2)
      BY ONLY <2>6, <2>7
    <3> QED
      BY ONLY <3>1, CtxHas
  <2>10. b2 = Part(M, k * N, N) /\ b2 \in [1..N -> Int]
    BY <2>2, <2>6 DEF Waits, Part
  <2>11. Process_Block(N, full, b2, N) = At(N, G, type, M, h, N, b2, k + 1)
    <3>1. 1 \in Nat /\ 1 * N = N
      OBVIOUS
    <3>2. PICK one : one = 1
      OBVIOUS
    <3>3. one \in Nat /\ one * N = N
      BY <3>1, <3>2
    <3>4. Process_Block(N, At(N, G, type, M, h, N, b2, k), Part(M, k * N, one * N), N)
            = At(N, G, type, M, h, N, b2, k + one)
      BY ONLY <3>3, ProcessMany, N \in Nat \ {0}, type \in Types, M \in Texts, k \in Nat,
              G \in Seq(Compression)
    <3> QED
      BY ONLY <2>8, <2>10, <3>2, <3>3, <3>4, Zenon
  <2>12. PICK flushed : flushed = [Process_Block(N, full, full.b, N) EXCEPT !.bCnt = 0]
    OBVIOUS
  <2>13. flushed = At(N, G, type, M, h, 0, b2, k + 1)
    <3>1. PICK e : e = Process_Block(N, full, b2, N)
      OBVIOUS
    <3>2. PICK t0, t2, x2, z : t0 = (k + 1) * N /\ t2 = Tw(type, k + 1)
                           /\ x2 = G \o Comps(N, type, M, k + 1) /\ z = 0
      OBVIOUS
    <3>3. e = Ctx(h, N, t0, t2, x2, b2)
      BY ONLY <2>11, <3>1, <3>2 DEF At
    <3>4. [e EXCEPT !.bCnt = z] = Ctx(h, z, t0, t2, x2, b2)
      BY ONLY <3>3, CountIs
    <3>5. flushed = [e EXCEPT !.bCnt = z]
      BY ONLY <2>9, <2>12, <3>1, <3>2, Zenon
    <3> QED
      BY ONLY <3>2, <3>4, <3>5, Zenon DEF At
  <2>14. PICK d : d = DirectBytes(N, rest)
    OBVIOUS
  <2>15. Len(left) = rest
    BY <2>5, PartIs
  <2>16. UpdateAs(N, c, msg)
          = Buffer(Process_Block(N, flushed, SubSeq(left, 1, d), N), SubSeq(left, d + 1, rest))
    <3>1. N - c.bCnt = room
      BY <1>4
    <3>2. Len(left) = rest /\ left = SubSeq(msg, room + 1, Len(msg))
      BY <1>5, <2>15
    <3> QED
      BY ONLY <2>1, <2>7, <2>12, <2>14, <3>1, <3>2, first = SubSeq(msg, 1, room), Zenon
         DEF UpdateAs
  <2>17. Streams(N, G, type, M, h, (k + 1) * N + rest, UpdateAs(N, c, msg))
    <3> PICK j \in Nat : j = k + 1
      OBVIOUS
    <3>1. flushed = At(N, G, type, M, h, 0, b2, j) /\ left = Part(M, j * N, rest)
      BY ONLY <2>5, <2>13, j = k + 1, Zenon
    <3>2. b2 \in [1..N -> Int] /\ rest \in Nat \ {0}
      BY ONLY <2>2, <2>10
    <3>3. Streams(N, G, type, M, h, j * N + rest,
             Buffer(Process_Block(N, flushed, SubSeq(left, 1, d), N), SubSeq(left, d + 1, rest)))
      BY ONLY <2>14, <3>1, <3>2, RestOfUpdate, N \in Nat \ {0}, type \in Types,
              M \in Texts, G \in Seq(Compression), j \in Nat
    <3> QED
      BY ONLY <2>16, <3>3, j = k + 1, Zenon
  <2>18. (k + 1) * N + rest = fed + m
    BY <1>2, <2>2, <2>3
  <2> QED
    BY ONLY <2>17, <2>18, Zenon
<1> QED
  BY <1>7, <1>8, <1>9
-----------------------------------------------------------------------------
(* The last block of a message: n bytes behind k blocks, padded with zeroes. *)
Padded(N, M, k, n) == [j \in 1..N |-> IF j > n THEN 0 ELSE M[k * N + j]]

(* Its compression, the one tagged final.                                  *)
LastComp(N, type, M, k, n) ==
  [T0 |-> k * N + n, T1 |-> T(type, k = 0, TRUE), block |-> Padded(N, M, k, n)]

(* A message of fed bytes is k blocks and a last one of n bytes. *)
Cut(N, fed, k, n) == fed = k * N + n /\ n <= N /\ (n = 0 => k = 0)

(* The blocks of UBI and their number, named.                              *)
UBIBlocks(N, text) == IF text = << >> THEN 1 ELSE (Len(text) + N - 1) \div N

(* UBI has one block more than a stream has compressed.                    *)
LEMMA BlocksAre ==
  ASSUME NEW N \in Nat \ {0}, NEW M \in Texts, NEW k \in Nat, NEW n \in Nat, NEW fed \in Nat,
         Cut(N, fed, k, n)
  PROVE  UBIBlocks(N, Part(M, 0, fed)) = k + 1
<1> PICK text : text = Part(M, 0, fed)
  OBVIOUS
<1>1. text \in Seq(Int) /\ Len(text) = fed
  BY PartIs
<1>2. fed = k * N + n /\ n <= N /\ (n = 0 => k = 0) /\ k * N \in Nat
  BY DEF Cut
<1>3. CASE n = 0
  <2>1. fed = 0 /\ k = 0
    BY <1>2, <1>3
  <2>2. text = << >>
    BY <1>1, <2>1
  <2> QED
    BY <2>1, <2>2 DEF UBIBlocks
<1>4. CASE n # 0
  <2>1. text # << >>
    <3>1. fed # 0
      BY <1>2, <1>4
    <3> QED
      BY <1>1, <3>1
  <2>2. PICK r \in Nat, q \in Nat : r = n - 1 /\ q = k + 1
    BY <1>4
  <2>3. fed + N - 1 = q * N + r /\ r < N
    <3>1. q * N = k * N + N
      BY <2>2
    <3>2. PICK a \in Nat : a = k * N
      BY <1>2
    <3>3. fed = a + n /\ r = n - 1 /\ q * N = a + N /\ n <= N
      BY <1>2, <2>2, <3>1, <3>2
    <3>4. fed + N - 1 = a + N + r /\ r < N
      BY ONLY <3>3, a \in Nat, n \in Nat, N \in Nat, r \in Nat, fed \in Nat
    <3> QED
      BY ONLY <3>3, <3>4
  <2>4. (q * N + r) \div N = q
    BY ONLY <2>3, QuotientIs, N \in Nat \ {0}, q \in Nat, r \in Nat
  <2>5. (Len(text) + N - 1) \div N = k + 1
    BY ONLY <1>1, <2>2, <2>3, <2>4
  <2> QED
    BY ONLY <2>1, <2>5, text = Part(M, 0, fed), Zenon DEF UBIBlocks
<1> QED
  BY <1>3, <1>4

UBIBlock(N, text, type, blocks, i) ==
  [T0 |-> IF i = blocks THEN Len(text) ELSE i * N,
   T1 |-> [type |-> type, first |-> i = 1, final |-> i = blocks],
   block |-> [j \in 1..N |-> IF (i - 1) * N + j \in DOMAIN text THEN text[(i - 1) * N + j] ELSE 0]]

(* UBI by the names above.                                                 *)
LEMMA UBIUnfolds ==
  ASSUME NEW N, NEW G, NEW text, NEW type, NEW blocks, blocks = UBIBlocks(N, text)
  PROVE  UBI(N, G, text, type) = G \o [i \in 1..blocks |-> UBIBlock(N, text, type, blocks, i)]
BY Zenon DEF UBI, UBIBlocks, UBIBlock

(* Every block of UBI but the last is the one the stream compressed.       *)
LEMMA WholeBlock ==
  ASSUME NEW N \in Nat \ {0}, NEW type, NEW M \in Texts, NEW k \in Nat, NEW n \in Nat,
         NEW fed \in Nat, Cut(N, fed, k, n), NEW i \in 1..k
  PROVE  UBIBlock(N, Part(M, 0, fed), type, k + 1, i) = Comp(N, type, M, i)
<1> PICK text : text = Part(M, 0, fed)
  OBVIOUS
<1>1. DOMAIN text = 1..fed /\ \A j \in 1..fed : text[j] = M[j]
  BY DEF Part
<1>2. i # k + 1 /\ (i = 1 <=> i - 1 = 0)
  OBVIOUS
<1>3. i * N <= fed /\ (i - 1) * N \in Nat /\ (i - 1) * N + N = i * N
  <2>1. PICK d \in Nat : k = i + d
    <3>1. k - i \in Nat /\ k = i + (k - i)
      OBVIOUS
    <3> QED
      BY <3>1
  <2>2. k * N = i * N + d * N /\ d * N \in Nat /\ i * N \in Nat
    BY <2>1
  <2>3. fed = k * N + n
    BY DEF Cut
  <2>4. (i - 1) * N \in Nat /\ (i - 1) * N + N = i * N
    OBVIOUS
  <2> QED
    BY <2>2, <2>3, <2>4
<1>4. [j \in 1..N |-> IF (i - 1) * N + j \in DOMAIN text THEN text[(i - 1) * N + j] ELSE 0]
        = Part(M, (i - 1) * N, N)
  <2> PICK lo \in Nat : lo = (i - 1) * N
    BY <1>3
  <2>1. \A j \in 1..N : lo + j \in 1..fed
    BY <1>3
  <2>2. \A j \in 1..N : lo + j \in DOMAIN text /\ text[lo + j] = M[lo + j]
    BY <1>1, <2>1
  <2>3. [j \in 1..N |-> IF lo + j \in DOMAIN text THEN text[lo + j] ELSE 0]
          = [j \in 1..N |-> M[lo + j]]
    BY ONLY <2>2
  <2> QED
    BY ONLY <2>3, lo = (i - 1) * N DEF Part
<1>5. [type |-> type, first |-> i = 1, final |-> i = k + 1] = Tw(type, i - 1)
  <2>1. (i = 1) = (i - 1 = 0) /\ (i = k + 1) = FALSE
    BY <1>2, Zenon
  <2> QED
    BY ONLY <2>1, Zenon DEF Tw, T
<1>6. (IF i = k + 1 THEN Len(text) ELSE i * N) = i * N
  BY <1>2
<1> QED
  BY ONLY <1>4, <1>5, <1>6, text = Part(M, 0, fed), Zenon DEF UBIBlock, Comp

(* The last one is the one PadAndCompress makes.                           *)
LEMMA LastBlock ==
  ASSUME NEW N \in Nat \ {0}, NEW type, NEW M \in Texts, NEW k \in Nat, NEW n \in Nat,
         NEW fed \in Nat, Cut(N, fed, k, n)
  PROVE  UBIBlock(N, Part(M, 0, fed), type, k + 1, k + 1) = LastComp(N, type, M, k, n)
<1> PICK text, b : text = Part(M, 0, fed) /\ b = k + 1
  OBVIOUS
<1>1. DOMAIN text = 1..fed /\ (\A j \in 1..fed : text[j] = M[j]) /\ Len(text) = fed
  BY DEF Part
<1> PICK lo \in Nat : lo = k * N
  OBVIOUS
<1>2. fed = lo + n /\ n <= N /\ (b - 1) * N = lo /\ (b = 1 <=> k = 0)
  <2>1. b - 1 = k /\ (b = 1 <=> k = 0)
    OBVIOUS
  <2> QED
    BY <2>1 DEF Cut
<1>3. [j \in 1..N |-> IF (b - 1) * N + j \in DOMAIN text THEN text[(b - 1) * N + j] ELSE 0]
        = Padded(N, M, k, n)
  <2>1. \A j \in 1..N : lo + j \in DOMAIN text <=> ~ (j > n)
    BY <1>1, <1>2
  <2>2. \A j \in 1..N : ~ (j > n) => text[lo + j] = M[lo + j]
    BY <1>1, <2>1
  <2>3. [j \in 1..N |-> IF lo + j \in DOMAIN text THEN text[lo + j] ELSE 0]
          = [j \in 1..N |-> IF j > n THEN 0 ELSE M[lo + j]]
    BY ONLY <2>1, <2>2
  <2> QED
    BY ONLY <1>2, <2>3, lo = k * N, Zenon DEF Padded
<1>4. [type |-> type, first |-> b = 1, final |-> b = b] = T(type, k = 0, TRUE)
  <2>1. (b = 1) = (k = 0) /\ (b = b) = TRUE
    BY <1>2, Zenon
  <2> QED
    BY ONLY <2>1, Zenon DEF T
<1>5. (IF b = b THEN Len(text) ELSE b * N) = k * N + n
  BY <1>1, <1>2
<1> QED
  BY ONLY <1>3, <1>4, <1>5, text = Part(M, 0, fed), b = k + 1, Zenon DEF UBIBlock, LastComp

(* It is a compression of a block.                                         *)
LEMMA LastType ==
  ASSUME NEW N \in Nat \ {0}, NEW type \in Types, NEW M \in Texts, NEW k \in Nat, NEW n \in Nat
  PROVE  LastComp(N, type, M, k, n) \in Compression /\ Padded(N, M, k, n) \in Seq(Int)
         /\ Len(Padded(N, M, k, n)) = N /\ Padded(N, M, k, n) \in [1..N -> Int]
<1>1. k * N \in Nat
  OBVIOUS
<1>2. ASSUME NEW j \in 1..N PROVE (IF j > n THEN 0 ELSE M[k * N + j]) \in Int
  <2>1. k * N + j \in Nat
    BY <1>1
  <2> QED
    BY <2>1 DEF Texts
<1>3. Padded(N, M, k, n) \in [1..N -> Int]
  BY <1>2 DEF Padded
<1>4. Padded(N, M, k, n) \in Seq(Int) /\ Len(Padded(N, M, k, n)) = N
  BY <1>3
<1>5. T(type, k = 0, TRUE) \in Tweaks
  BY DEF T, Tweaks
<1>6. LastComp(N, type, M, k, n) \in Compression
  <2>1. k * N + n \in Int
    BY <1>1
  <2> QED
    BY <1>4, <1>5, <2>1 DEF LastComp, Compression
<1> QED
  BY ONLY <1>3, <1>4, <1>6

(* The compressions of a stream are a chaining value.                      *)
LEMMA CompsType ==
  ASSUME NEW N \in Nat, NEW type \in Types, NEW M \in Texts, NEW k \in Nat
  PROVE  Comps(N, type, M, k) \in Seq(Compression) /\ Len(Comps(N, type, M, k)) = k
<1>1. \A i \in 1..k : i \in Nat \ {0}
  OBVIOUS
<1>2. \A i \in 1..k : Comp(N, type, M, i) \in Compression
  BY <1>1, CompType
<1> QED
  BY <1>2 DEF Comps

(* UBI of a message is what the stream compressed and the last block.      *)
LEMMA UBIIs ==
  ASSUME NEW N \in Nat \ {0}, NEW type \in Types, NEW M \in Texts, NEW k \in Nat, NEW n \in Nat,
         NEW fed \in Nat, Cut(N, fed, k, n), NEW G \in Seq(Compression)
  PROVE  UBI(N, G, Part(M, 0, fed), type)
           = Append(G \o Comps(N, type, M, k), LastComp(N, type, M, k, n))
<1> PICK text, b : text = Part(M, 0, fed) /\ b = k + 1
  OBVIOUS
<1> PICK u : u = [i \in 1..b |-> UBIBlock(N, text, type, b, i)]
  OBVIOUS
<1> PICK s : s = Comps(N, type, M, k)
  OBVIOUS
<1> PICK x : x = LastComp(N, type, M, k, n)
  OBVIOUS
<1>1. UBI(N, G, text, type) = G \o u
  <2>1. b = UBIBlocks(N, text)
    BY BlocksAre
  <2> QED
    BY <2>1, UBIUnfolds
<1>2. s \in Seq(Compression) /\ Len(s) = k /\ \A i \in 1..k : s[i] = Comp(N, type, M, i)
  BY CompsType, SMTT(30) DEF Comps
<1>3. x \in Compression
  BY LastType
<1>4. \A i \in 1..k : u[i] = s[i]
  <2> SUFFICES ASSUME NEW i \in 1..k PROVE u[i] = s[i]
    OBVIOUS
  <2>1. i \in 1..b
    OBVIOUS
  <2>2. UBIBlock(N, text, type, b, i) = Comp(N, type, M, i)
    BY WholeBlock
  <2> QED
    BY <1>2, <2>1, <2>2
<1>5. u[k + 1] = x
  <2>1. k + 1 \in 1..b
    OBVIOUS
  <2>2. UBIBlock(N, text, type, b, k + 1) = x
    BY LastBlock
  <2> QED
    BY <2>1, <2>2
<1>6. u \in Seq(Compression) /\ Len(u) = k + 1
  <2>1. ASSUME NEW i \in 1..k + 1 PROVE u[i] \in Compression
    <3>1. CASE i = k + 1
      BY ONLY <1>3, <1>5, <3>1
    <3>2. CASE i # k + 1
      <4>1. i \in 1..k
        BY <3>2
      <4>2. s[i] \in Compression
        BY ONLY <1>2, <4>1
      <4> QED
        BY ONLY <1>4, <4>1, <4>2
    <3> QED
      BY ONLY <3>1, <3>2
  <2>2. u = [i \in 1..k + 1 |-> u[i]]
    OBVIOUS
  <2> QED
    BY ONLY <2>1, <2>2, k \in Nat
<1>7. u = Append(s, x)
  BY ONLY <1>2, <1>3, <1>4, <1>5, <1>6, k \in Nat
<1>8. Append(s, x) = s \o <<x>> /\ Append(G \o s, x) = (G \o s) \o <<x>>
  BY ONLY <1>2, <1>3, G \in Seq(Compression), AppendIsConcat
<1>9. (G \o s) \o <<x>> = G \o (s \o <<x>>)
  <2>1. <<x>> \in Seq(Compression)
    BY ONLY <1>3
  <2> QED
    BY ONLY <2>1, ChainsAssociate, <1>2, G \in Seq(Compression), Zenon
<1> QED
  BY ONLY <1>1, <1>7, <1>8, <1>9, s = Comps(N, type, M, k), x = LastComp(N, type, M, k, n),
          text = Part(M, 0, fed)
-----------------------------------------------------------------------------
(* A context with x as its chaining value, whatever the rest of it is. *)
Holds(N, h, x, c) ==
  \E n, t0, t1, b : c = Ctx(h, n, t0, t1, x, b) /\ b \in [1..N -> Int]

(* PadAndCompress turns a stream into UBI of all it was given.             *)
LEMMA PadCompletes ==
  ASSUME NEW N \in Nat \ {0}, NEW type \in Types, NEW M \in Texts, NEW G \in Seq(Compression),
         NEW h, NEW fed \in Nat, NEW c, Streams(N, G, type, M, h, fed, c)
  PROVE  Holds(N, h, UBI(N, G, Part(M, 0, fed), type), PadAndCompress(N, c))
<1>0. PICK k \in Nat, n \in Nat : \E b : Stream(N, G, type, M, h, fed, c, k, n, b)
  BY DEF Streams
<1>1. PICK b : Stream(N, G, type, M, h, fed, c, k, n, b)
  BY <1>0
<1>2. /\ c = At(N, G, type, M, h, n, b, k)
      /\ fed = k * N + n /\ Cut(N, fed, k, n)
      /\ Waits(b, N, M, k * N, n) /\ n <= N
  BY <1>1 DEF Stream, Cut
<1> PICK base, t1, x : base = k * N /\ t1 = Tw(type, k) /\ x = G \o Comps(N, type, M, k)
  OBVIOUS
<1> PICK padded : padded = Padded(N, M, k, n)
  OBVIOUS
<1>3. c = Ctx(h, n, base, t1, x, b)
  BY ONLY <1>2, base = k * N, t1 = Tw(type, k), x = G \o Comps(N, type, M, k) DEF At
<1>4. padded \in Seq(Int) /\ Len(padded) = N /\ padded \in [1..N -> Int]
  BY LastType
<1>5. [i \in 1..N |-> IF i > c.bCnt THEN 0 ELSE c.b[i]] = padded
  <2>1. c.bCnt = n /\ c.b = b
    BY ONLY <1>3, CtxHas
  <2>2. \A i \in 1..N : ~ (i > n) => b[i] = M[k * N + i]
    BY <1>2 DEF Waits
  <2>3. [i \in 1..N |-> IF i > n THEN 0 ELSE b[i]] = [i \in 1..N |-> IF i > n THEN 0 ELSE M[k * N + i]]
    BY ONLY <2>2
  <2> QED
    BY ONLY <2>1, <2>3, padded = Padded(N, M, k, n) DEF Padded
<1>6. PICK d : d = [c EXCEPT !.T1.final = TRUE, !.b = padded]
  OBVIOUS
<1>7. PICK t2 : t2 = [t1 EXCEPT !.final = TRUE]
  OBVIOUS
<1>8. d = Ctx(h, n, base, t2, x, padded)
  <2>1. /\ c.hashBitLen = h /\ c.bCnt = n /\ c.T0 = base /\ c.T1 = t1 /\ c.X = x
        /\ c.b = b /\ DOMAIN c = CtxFields
    BY ONLY <1>3, CtxHas
  <2>2. d = [f \in CtxFields |-> d[f]]
    BY ONLY <1>6, <2>1
  <2>3. d.hashBitLen = h /\ d.bCnt = n /\ d.T0 = base /\ d.X = x /\ d.b = padded
    BY ONLY <1>6, <2>1 DEF CtxFields
  <2>4. d.T1 = [c.T1 EXCEPT !.final = TRUE]
    BY ONLY <1>6, <2>1 DEF CtxFields
  <2>5. d.T1 = t2
    BY ONLY <1>7, <2>1, <2>4, Zenon
  <2> QED
    BY ONLY <2>2, <2>3, <2>5, CtxIs
<1>9. t2 = T(type, k = 0, TRUE)
  <2>1. PICK f, no, yes : f = (k = 0) /\ no = FALSE /\ yes = TRUE
    BY ONLY Zenon
  <2>2. t1 = T(type, f, no)
    BY ONLY <2>1, t1 = Tw(type, k), Zenon DEF Tw
  <2>3. t1.type = type /\ t1.first = f /\ DOMAIN t1 = {"type", "first", "final"}
    BY ONLY <2>2, TweakHas
  <2>4. t2 = [g \in {"type", "first", "final"} |-> t2[g]]
    BY ONLY <1>7, <2>3
  <2>5. t2.type = type /\ t2.first = f
    BY ONLY <1>7, <2>3
  <2>6. t2.final = TRUE
    BY ONLY <1>7, <2>3
  <2>7. t2.final = yes
    BY ONLY <2>1, <2>6, Zenon
  <2>8. t2 = T(type, f, yes)
    BY ONLY <2>4, <2>5, <2>7, TweakIs
  <2> QED
    BY ONLY <2>1, <2>8, Zenon
<1>10. PICK t3 : t3 = [t2 EXCEPT !.first = FALSE]
  OBVIOUS
<1>11. PadAndCompress(N, c) = Process_Block(N, d, padded, n)
  <2>1. c.bCnt = n
    BY ONLY <1>3, CtxHas
  <2> QED
    BY ONLY <1>5, <1>6, <2>1, Zenon DEF PadAndCompress
<1>12. Process_Block(N, d, padded, n) = Compress(d, padded, n)
  BY ONLY <1>4, ProcessOne, N \in Nat \ {0}
<1>13. Compress(d, padded, n)
         = Ctx(h, n, base + n, t3, Append(x, [T0 |-> base + n, T1 |-> t2, block |-> padded]), padded)
  BY ONLY <1>8, <1>10, CompressIs
<1>14. [T0 |-> base + n, T1 |-> t2, block |-> padded] = LastComp(N, type, M, k, n)
  BY ONLY <1>9, base = k * N, padded = Padded(N, M, k, n), Zenon DEF LastComp
<1>15. UBI(N, G, Part(M, 0, fed), type) = Append(x, LastComp(N, type, M, k, n))
  BY <1>2, UBIIs
<1>16. PadAndCompress(N, c)
         = Ctx(h, n, base + n, t3, UBI(N, G, Part(M, 0, fed), type), padded)
  BY ONLY <1>11, <1>12, <1>13, <1>14, <1>15, Zenon
<1> QED
  BY ONLY <1>4, <1>16 DEF Holds

-----------------------------------------------------------------------------
(* A message of one block. *)
LEMMA ZerosAre ==
  ASSUME NEW n \in Nat
  PROVE  Zeros(n) \in Seq(Int) /\ Len(Zeros(n)) = n /\ \A i \in 1..n : Zeros(n)[i] = 0
BY DEF Zeros

(* Two sequences of bytes, one behind the other.                           *)
LEMMA Joined ==
  ASSUME NEW p \in Seq(Int), NEW z \in Seq(Int), NEW n, n = Len(p) + Len(z)
  PROVE  p \o z \in Seq(Int) /\ Len(p \o z) = n /\ p \o z \in [1..n -> Int]
<1>1. p \o z \in Seq(Int) /\ Len(p \o z) = n
  BY ConcatProperties
<1>2. PICK u : u = p \o z
  OBVIOUS
<1>3. u \in Seq(Int) /\ Len(u) = n
  BY ONLY <1>1, <1>2
<1>4. u \in [1..n -> Int]
  BY ONLY <1>3
<1> QED
  BY ONLY <1>2, <1>3, <1>4

(* UBI of a message of at most a block is one compression, first and       *)
(* final, of the message padded with zeroes.                               *)
LEMMA ShortMessage ==
  ASSUME NEW N \in Nat \ {0}, NEW type \in Types, NEW s \in Seq(Int), NEW n \in Nat, n = Len(s),
         0 < n, n <= N, NEW G \in Seq(Compression)
  PROVE  /\ UBI(N, G, s, type)
              = Append(G, [T0 |-> n, T1 |-> T(type, TRUE, TRUE), block |-> s \o Zeros(N - n)])
         /\ UBI(N, G, s, type) \in Seq(Compression)
<1> PICK k \in Nat : k = 0
  OBVIOUS
<1>1. PICK M : M = [i \in Nat |-> IF i \in 1..n THEN s[i] ELSE 0]
  OBVIOUS
<1>2. M \in Texts
  <2>1. ASSUME NEW i \in Nat PROVE (IF i \in 1..n THEN s[i] ELSE 0) \in Int
    OBVIOUS
  <2> QED
    BY ONLY <1>1, <2>1 DEF Texts
<1>3. Part(M, 0, n) = s
  <2>1. \A i \in 1..n : M[0 + i] = s[i]
    BY <1>1
  <2>2. s = [i \in 1..n |-> s[i]]
    OBVIOUS
  <2> QED
    BY ONLY <2>1, <2>2 DEF Part
<1>4. k * N = 0 /\ Cut(N, n, k, n)
  BY DEF Cut
<1>5. UBI(N, G, s, type) = Append(G \o Comps(N, type, M, k), LastComp(N, type, M, k, n))
  BY <1>2, <1>3, <1>4, UBIIs, SMTT(30)
<1>6. G \o Comps(N, type, M, k) = G
  <2>1. Comps(N, type, M, k) \in Seq(Compression) /\ Len(Comps(N, type, M, k)) = 0
    BY <1>2, CompsType
  <2>2. Comps(N, type, M, k) = << >>
    BY <2>1
  <2> QED
    BY <2>2
<1>7. Padded(N, M, k, n) = s \o Zeros(N - n)
  <2> PICK m \in Nat : m = N - n
    OBVIOUS
  <2>1. PICK z : m = N - n /\ z = Zeros(m)
    OBVIOUS
  <2>2. z \in Seq(Int) /\ Len(z) = m /\ \A i \in 1..m : z[i] = 0
    BY <2>1, ZerosAre
  <2>3. PICK u : u = s \o z
    OBVIOUS
  <2>4. u = [j \in 1..N |-> IF j <= n THEN s[j] ELSE z[j - n]]
    BY <2>1, <2>2, <2>3
  <2>5. \A j \in 1..N : IF j > n THEN u[j] = 0 ELSE u[j] = s[j]
    <3> SUFFICES ASSUME NEW j \in 1..N PROVE IF j > n THEN u[j] = 0 ELSE u[j] = s[j]
      OBVIOUS
    <3>1. CASE j > n
      <4>1. j - n \in 1..m
        BY <2>1, <3>1
      <4> QED
        BY <2>2, <2>4, <3>1, <4>1
    <3>2. CASE ~ (j > n)
      BY <2>4, <3>2
    <3> QED
      BY <3>1, <3>2
  <2>6. \A j \in 1..N : ~ (j > n) => M[k * N + j] = s[j]
    BY <1>1, <1>4
  <2>7. [j \in 1..N |-> IF j > n THEN 0 ELSE M[k * N + j]] = [j \in 1..N |-> u[j]]
    BY ONLY <2>5, <2>6
  <2>8. u = [j \in 1..N |-> u[j]]
    BY <2>4
  <2> QED
    BY ONLY <2>1, <2>3, <2>7, <2>8 DEF Padded
<1>8. T(type, k = 0, TRUE) = T(type, TRUE, TRUE)
  <2>1. (k = 0) = TRUE
    BY Zenon
  <2> QED
    BY ONLY <2>1, Zenon
<1>9. k * N + n = n
  BY <1>4
<1>10. LastComp(N, type, M, k, n)
         = [T0 |-> n, T1 |-> T(type, TRUE, TRUE), block |-> s \o Zeros(N - n)]
  BY ONLY <1>7, <1>8, <1>9, Zenon DEF LastComp
<1>11. LastComp(N, type, M, k, n) \in Compression
  BY <1>2, LastType
<1>12. Append(G, LastComp(N, type, M, k, n)) \in Seq(Compression)
  BY ONLY <1>11, G \in Seq(Compression)
<1> QED
  BY ONLY <1>5, <1>6, <1>10, <1>12

(* A new message of one block, compressed under a chaining value. *)
Begun(c, type) == Skein_Start_New_Type(c, Tweak(type, TRUE))

Ran(h, n, type, x, b) == Ctx(h, 0, n, T(type, FALSE, TRUE), x, b)

(* blk is the padded block of the message s of n bytes.                    *)
Short(N, s, n, blk) ==
  s \in Seq(Int) /\ n = Len(s) /\ 0 < n /\ n <= N /\ blk = s \o Zeros(N - n)

(* What such a call leaves is a context.                                   *)
LEMMA RanIs ==
  ASSUME NEW h, NEW n, NEW type, NEW x, NEW b, NEW c, c = Ran(h, n, type, x, b)
  PROVE  \E z, t : c = Ctx(h, z, n, t, x, b)
BY DEF Ran

(* Such a call computes UBI of the message: configuration block and output *)
(* blocks are compressed like this.                                        *)
LEMMA ShortRun ==
  ASSUME NEW N \in Nat \ {0}, NEW type \in Types, NEW s, NEW n \in Nat, NEW blk,
         Short(N, s, n, blk), NEW G \in Seq(Compression), NEW h, NEW m, NEW t0, NEW t1, NEW b,
         NEW c, c = Ctx(h, m, t0, t1, G, b)
  PROVE  Process_Block(N, Begun(c, type), blk, n) = Ran(h, n, type, UBI(N, G, s, type), b)
<1> PICK t, d : t = Tweak(type, TRUE) /\ d = Skein_Start_New_Type(c, t)
  OBVIOUS
<1>1. d = Ctx(h, 0, 0, t, G, b)
  BY ONLY StartIs, c = Ctx(h, m, t0, t1, G, b), d = Skein_Start_New_Type(c, t)
<1>0. s \in Seq(Int) /\ n = Len(s) /\ 0 < n /\ n <= N /\ blk = s \o Zeros(N - n)
  BY DEF Short
<1>2. blk \in Seq(Int) /\ Len(blk) = N
  <2>1. N - n \in Nat
    BY <1>0
  <2>2. PICK z : z = Zeros(N - n)
    OBVIOUS
  <2>3. z \in Seq(Int) /\ Len(z) = N - n
    BY <2>1, <2>2, ZerosAre
  <2>4. N = Len(s) + Len(z)
    BY <1>0, <2>3
  <2> QED
    BY ONLY <1>0, <2>2, <2>3, <2>4, Joined
<1>3. Process_Block(N, d, blk, n) = Compress(d, blk, n)
  BY ONLY <1>2, ProcessOne, N \in Nat \ {0}
<1>4. t = T(type, TRUE, TRUE)
  BY Zenon DEF Tweak, T
<1>5. PICK t2 : t2 = [t EXCEPT !.first = FALSE]
  OBVIOUS
<1>6. t2 = T(type, FALSE, TRUE)
  <2>1. PICK yes : yes = TRUE
    BY ONLY Zenon
  <2>2. t = T(type, yes, yes)
    BY ONLY <1>4, <2>1, Zenon
  <2>3. [t EXCEPT !.first = FALSE] = T(type, FALSE, yes)
    BY ONLY <2>2, FirstCleared
  <2> QED
    BY ONLY <1>5, <2>1, <2>3, Zenon
<1>7. PICK z \in Nat : z = 0
  OBVIOUS
<1>8. d = Ctx(h, z, z, t, G, b)
  BY ONLY <1>1, <1>7
<1>9. Compress(d, blk, n) = Ctx(h, z, z + n, t2, Append(G, [T0 |-> z + n, T1 |-> t, block |-> blk]), b)
  BY ONLY <1>5, <1>8, CompressIs
<1>10. z + n = n
  BY <1>7
<1>11. UBI(N, G, s, type) = Append(G, [T0 |-> n, T1 |-> T(type, TRUE, TRUE), block |-> s \o Zeros(N - n)])
  BY <1>0, ShortMessage, ZenonT(30)
<1>12. Append(G, [T0 |-> z + n, T1 |-> t, block |-> blk]) = UBI(N, G, s, type)
  BY ONLY <1>0, <1>4, <1>10, <1>11, Zenon
<1> QED
  BY ONLY <1>3, <1>6, <1>7, <1>9, <1>10, <1>12, t = Tweak(type, TRUE),
          d = Skein_Start_New_Type(c, t), Zenon DEF Begun, Ran
-----------------------------------------------------------------------------
(* Setting b[], X and hashBitLen, field by field.                          *)
LEMMA BufIs ==
  ASSUME NEW h, NEW n, NEW t0, NEW t1, NEW x, NEW b, NEW c, c = Ctx(h, n, t0, t1, x, b), NEW b2
  PROVE  [c EXCEPT !.b = b2] = Ctx(h, n, t0, t1, x, b2)
<1>1. PICK d : d = [c EXCEPT !.b = b2]
  OBVIOUS
<1>2. /\ c.hashBitLen = h /\ c.bCnt = n /\ c.T0 = t0 /\ c.T1 = t1 /\ c.X = x
      /\ c.b = b /\ DOMAIN c = CtxFields
  BY CtxHas
<1>3. d = [f \in CtxFields |-> d[f]]
  BY <1>1, <1>2
<1>4. d.hashBitLen = h /\ d.bCnt = n /\ d.T0 = t0 /\ d.T1 = t1 /\ d.X = x /\ d.b = b2
  BY <1>1, <1>2 DEF CtxFields
<1>5. d = Ctx(h, n, t0, t1, x, b2)
  BY ONLY <1>3, <1>4, CtxIs
<1> QED
  BY ONLY <1>1, <1>5, Zenon

(* Setting X, field by field.                                              *)
LEMMA ChainIs ==
  ASSUME NEW h, NEW n, NEW t0, NEW t1, NEW x, NEW b, NEW c, c = Ctx(h, n, t0, t1, x, b), NEW x2
  PROVE  [c EXCEPT !.X = x2] = Ctx(h, n, t0, t1, x2, b)
<1>1. PICK d : d = [c EXCEPT !.X = x2]
  OBVIOUS
<1>2. /\ c.hashBitLen = h /\ c.bCnt = n /\ c.T0 = t0 /\ c.T1 = t1 /\ c.X = x
      /\ c.b = b /\ DOMAIN c = CtxFields
  BY CtxHas
<1>3. d = [f \in CtxFields |-> d[f]]
  BY <1>1, <1>2
<1>4. d.hashBitLen = h /\ d.bCnt = n /\ d.T0 = t0 /\ d.T1 = t1 /\ d.X = x2 /\ d.b = b
  BY <1>1, <1>2 DEF CtxFields
<1>5. d = Ctx(h, n, t0, t1, x2, b)
  BY ONLY <1>3, <1>4, CtxIs
<1> QED
  BY ONLY <1>1, <1>5, Zenon

(* Setting hashBitLen, field by field.                                     *)
LEMMA LengthIs ==
  ASSUME NEW h, NEW n, NEW t0, NEW t1, NEW x, NEW b, NEW c, c = Ctx(h, n, t0, t1, x, b), NEW h2
  PROVE  [c EXCEPT !.hashBitLen = h2] = Ctx(h2, n, t0, t1, x, b)
<1>1. PICK d : d = [c EXCEPT !.hashBitLen = h2]
  OBVIOUS
<1>2. /\ c.hashBitLen = h /\ c.bCnt = n /\ c.T0 = t0 /\ c.T1 = t1 /\ c.X = x
      /\ c.b = b /\ DOMAIN c = CtxFields
  BY CtxHas
<1>3. d = [f \in CtxFields |-> d[f]]
  BY <1>1, <1>2
<1>4. d.hashBitLen = h2 /\ d.bCnt = n /\ d.T0 = t0 /\ d.T1 = t1 /\ d.X = x /\ d.b = b
  BY <1>1, <1>2 DEF CtxFields
<1>5. d = Ctx(h2, n, t0, t1, x, b)
  BY ONLY <1>3, <1>4, CtxIs
<1> QED
  BY ONLY <1>1, <1>5, Zenon

(* A word is eight bytes.                                                  *)
LEMMA WordIs ==
  ASSUME NEW v \in Nat
  PROVE  Word(v) \in Seq(Int) /\ Len(Word(v)) = 8
<1>1. 6 \in Nat
  OBVIOUS
<1>2. Zeros(6) \in Seq(Int) /\ Len(Zeros(6)) = 6
  BY <1>1, ZerosAre
<1>3. PICK p, z : p = <<v % 256, (v \div 256) % 256>> /\ z = Zeros(6)
  OBVIOUS
<1>4. p \in Seq(Int) /\ Len(p) = 2
  <2>1. v % 256 \in Int /\ (v \div 256) % 256 \in Int
    OBVIOUS
  <2> QED
    BY <1>3, <2>1
<1>5. p \o z \in Seq(Int) /\ Len(p \o z) = 8
  <2>1. z \in Seq(Int) /\ Len(z) = 6
    BY ONLY <1>2, <1>3, Zenon
  <2>2. 8 = Len(p) + Len(z)
    BY ONLY <1>4, <2>1
  <2> QED
    BY ONLY <1>4, <2>1, <2>2, Joined
<1> QED
  BY ONLY <1>3, <1>5 DEF Word

-----------------------------------------------------------------------------
(* The counter of an output block, and what the output takes from it. *)
CounterBlock(N, i) == Word(i - 1) \o Zeros(N - 8)

Taken(N, byteCnt, i) == LET left == byteCnt - (i - 1) * N IN IF left >= N THEN N ELSE left

Out(N, key, byteCnt, i) == [X |-> UBI(N, key, Word(i - 1), "OUT"), bytes |-> Taken(N, byteCnt, i)]

Outs(N, key, byteCnt, n) ==
  [i \in 1..n |-> Out(N, key, byteCnt, i)]

(* What the output stage starts from, and what it returns.                 *)
First(N, c) == [ctx |-> [c EXCEPT !.b = Zeros(N)], hashVal |-> << >>]

(* A context and an output.                                                *)
Result(c, outs) == [ctx |-> c, hashVal |-> outs]

(* What satisfies the recursion of the output stage is its value.          *)
LEMMA OutputTurnsFollow ==
  ASSUME NEW N, NEW c, NEW byteCnt, NEW n \in Nat, NEW g,
         g[0] = First(N, c), NEW key, key = c.X,
         \A i \in 1..n : g[i] = OutputBlock(N, g[i - 1], key, byteCnt, i)
  PROVE  OutputTurns(N, c, byteCnt, n)[n] = g[n]
<1> DEFINE f == OutputTurns(N, c, byteCnt, n)
           h == [i \in 0..n |-> g[i]]
<1>0. h = [i \in 0..n |-> IF i = 0 THEN First(N, c)
                          ELSE OutputBlock(N, h[i - 1], key, byteCnt, i)]
  <2>1. ASSUME NEW i \in 0..n, i # 0
        PROVE  g[i] = OutputBlock(N, h[i - 1], key, byteCnt, i)
    <3>1. i \in 1..n /\ i - 1 \in 0..n
      BY <2>1
    <3>2. h[i - 1] = g[i - 1]
      BY <3>1
    <3> QED
      BY <3>1, <3>2
  <2> QED
    BY <2>1
<1>1. f = [i \in 0..n |-> IF i = 0 THEN First(N, c)
                          ELSE OutputBlock(N, f[i - 1], key, byteCnt, i)]
  <2> HIDE DEF h
  <2> QED
    BY <1>0, Zenon DEF OutputTurns, First
<1>2. f[0] = g[0]
  <2>1. 0 \in 0..n
    OBVIOUS
  <2> HIDE DEF f, h
  <2> QED
    BY <1>1, <2>1, Zenon
<1> HIDE DEF f, h
<1> DEFINE S == {i \in 0..n : f[i] = g[i]}
<1>3. 0 \in S
  BY <1>2
<1>4. ASSUME NEW i \in 1..n, i - 1 \in S PROVE i \in S
  <2>1. f[i] = OutputBlock(N, f[i - 1], key, byteCnt, i)
    <3>1. i \in 0..n /\ i # 0
      OBVIOUS
    <3> QED
      BY <1>1, <3>1, Zenon
  <2>2. g[i] = OutputBlock(N, g[i - 1], key, byteCnt, i)
    OBVIOUS
  <2> QED
    BY <1>4, <2>1, <2>2
<1>5. S \in SUBSET (0..n)
  OBVIOUS
<1> HIDE DEF S
<1>6. S = 0..n
  BY <1>3, <1>4, <1>5, InductUpTo
<1>7. f[n] = g[n]
  <2>1. n \in 0..n
    OBVIOUS
  <2> QED
    BY <1>6, <2>1 DEF S
<1> QED
  BY <1>7 DEF f

(* The context before an output block: it holds the key. *)
LEMMA OutputBlockIs ==
  ASSUME NEW N \in Nat, N >= 32, NEW key \in Seq(Compression), NEW h, NEW byteCnt, NEW i \in Nat \ {0},
         NEW m, NEW t0, NEW t1, NEW b, NEW outs, NEW a,
         NEW d, d = Ctx(h, m, t0, t1, key, b), a = Result(d, outs)
  PROVE  OutputBlock(N, a, key, byteCnt, i)
           = Result(Ran(h, 8, "OUT", key, CounterBlock(N, i)), Append(outs, Out(N, key, byteCnt, i)))
<1> PICK type \in Types : type = "OUT"
  BY DEF Types
<1> PICK eight \in Nat : eight = 8
  OBVIOUS
<1> PICK counter : counter = CounterBlock(N, i)
  OBVIOUS
<1> PICK w : w = Word(i - 1)
  OBVIOUS
<1>1. w \in Seq(Int) /\ eight = Len(w) /\ 0 < eight /\ eight <= N /\ N \in Nat \ {0}
  <2>1. i - 1 \in Nat
    OBVIOUS
  <2> QED
    BY <2>1, WordIs
<1>2. counter = w \o Zeros(N - eight)
  BY Zenon DEF CounterBlock
<1>3. PICK e : e = [a.ctx EXCEPT !.b = counter]
  OBVIOUS
<1>4. e = Ctx(h, m, t0, t1, key, counter)
  <2>2. a.ctx = d
    BY ONLY a = Result(d, outs) DEF Result
  <2>3. [d EXCEPT !.b = counter] = Ctx(h, m, t0, t1, key, counter)
    BY ONLY d = Ctx(h, m, t0, t1, key, b), BufIs
  <2> QED
    BY ONLY <1>3, <2>2, <2>3, Zenon
<1>5. PICK run : run = Process_Block(N, Begun(e, type), counter, eight)
  OBVIOUS
<1>6. run = Ran(h, eight, type, UBI(N, key, w, type), counter)
  <2>1. Short(N, w, eight, counter) /\ N \in Nat \ {0}
    BY ONLY <1>1, <1>2 DEF Short
  <2> QED
    BY ONLY <1>4, <1>5, <2>1, ShortRun, type \in Types, eight \in Nat, key \in Seq(Compression)
<1>7. PICK z, t2 : z = 0 /\ t2 = T(type, FALSE, TRUE)
  OBVIOUS
<1>8. run.X = UBI(N, key, w, type)
      /\ KeyRestored(run, key) = Ran(h, eight, type, key, counter)
  <2>1. run = Ctx(h, z, eight, t2, UBI(N, key, w, type), counter)
    BY ONLY <1>6, <1>7, Zenon DEF Ran
  <2>2. run.X = UBI(N, key, w, type)
    BY ONLY <2>1, CtxHas
  <2>3. [run EXCEPT !.X = key] = Ctx(h, z, eight, t2, key, counter)
    BY ONLY <2>1, ChainIs
  <2> QED
    BY ONLY <1>7, <2>2, <2>3, Zenon DEF KeyRestored, Ran
<1>9. a.hashVal = outs
  BY ONLY a = Result(d, outs) DEF Result
<1>10. OutputBlock(N, a, key, byteCnt, i)
         = [ctx |-> KeyRestored(run, key),
            hashVal |-> Append(a.hashVal, [X |-> run.X, bytes |-> Taken(N, byteCnt, i)])]
  BY ONLY <1>3, <1>5, type = "OUT", eight = 8, counter = CounterBlock(N, i), Zenon
     DEF OutputBlock, Taken, CounterBlock, Begun
<1> QED
  BY ONLY <1>8, <1>9, <1>10, type = "OUT", eight = 8, counter = CounterBlock(N, i),
          w = Word(i - 1), Zenon DEF Result, Out

(* The output grows by one block a turn.                                   *)
LEMMA OutsGrow ==
  ASSUME NEW N, NEW key, NEW byteCnt, NEW n \in Nat
  PROVE  Outs(N, key, byteCnt, n + 1)
           = Append(Outs(N, key, byteCnt, n), Out(N, key, byteCnt, n + 1))
BY DEF Outs

(* The output stage, for any output length: it takes its bytes from UBI of *)
(* 0, 1, 2, ... under the chaining value it was called with.               *)
LEMMA CounterModeIs ==
  ASSUME NEW N \in Nat, N >= 32, NEW key \in Seq(Compression), NEW bits \in Nat, NEW c,
         Holds(N, bits, key, c), NEW byteCnt \in Nat, byteCnt = (bits + 7) \div 8,
         NEW blocks \in Nat, blocks = (byteCnt + N - 1) \div N
  PROVE  /\ CounterMode(N, c).hashVal = Outs(N, key, byteCnt, blocks)
         /\ Holds(N, bits, key, CounterMode(N, c).ctx)
<1>1. PICK n, t0, t1, b : c = Ctx(bits, n, t0, t1, key, b) /\ b \in [1..N -> Int]
  BY DEF Holds
<1>2. c.hashBitLen = bits /\ c.X = key
  BY ONLY <1>1, CtxHas
<1>3. PICK first : first = Ctx(bits, n, t0, t1, key, Zeros(N))
  OBVIOUS
<1>4. [c EXCEPT !.b = Zeros(N)] = first
  BY ONLY <1>1, <1>3, BufIs
<1> DEFINE after(i) == IF i = 0 THEN first
                       ELSE Ran(bits, 8, "OUT", key, CounterBlock(N, i))
           g == [i \in 0..blocks |-> [ctx |-> after(i), hashVal |-> Outs(N, key, byteCnt, i)]]
<1>5. g[0] = First(N, c)
  <2>1. Outs(N, key, byteCnt, 0) = << >>
    BY DEF Outs
  <2>2. g[0] = [ctx |-> first, hashVal |-> Outs(N, key, byteCnt, 0)]
    OBVIOUS
  <2> QED
    BY ONLY <1>4, <2>1, <2>2, Zenon DEF First
<1>6. ASSUME NEW i \in 1..blocks
      PROVE  g[i] = OutputBlock(N, g[i - 1], key, byteCnt, i)
  <2>1. PICK j \in Nat : j = i - 1
    OBVIOUS
  <2>2. i \in Nat \ {0} /\ i \in 0..blocks /\ j \in 0..blocks /\ i # 0 /\ i = j + 1
    BY <2>1
  <2>3. g[j] = Result(after(j), Outs(N, key, byteCnt, j))
    BY <2>2 DEF Result
  <2>4. \E m, u0, u1, d : after(j) = Ctx(bits, m, u0, u1, key, d)
    BY <1>3 DEF Ran
  <2>5. PICK m, u0, u1, d : after(j) = Ctx(bits, m, u0, u1, key, d)
    BY <2>4
  <2>6. PICK outs, a, e : outs = Outs(N, key, byteCnt, j) /\ a = g[j] /\ e = after(j)
    OBVIOUS
  <2>7. a = Result(e, outs)
    BY ONLY <2>3, <2>6
  <2>8. e = Ctx(bits, m, u0, u1, key, d)
    BY ONLY <2>5, <2>6
  <2>9. OutputBlock(N, a, key, byteCnt, i)
          = Result(Ran(bits, 8, "OUT", key, CounterBlock(N, i)), Append(outs, Out(N, key, byteCnt, i)))
    BY ONLY <2>2, <2>7, <2>8, OutputBlockIs, N \in Nat, N >= 32, key \in Seq(Compression)
  <2>10. Outs(N, key, byteCnt, i) = Append(outs, Out(N, key, byteCnt, i))
    <3>1. Outs(N, key, byteCnt, j + 1)
            = Append(Outs(N, key, byteCnt, j), Out(N, key, byteCnt, j + 1))
      BY OutsGrow
    <3> QED
      BY ONLY <2>2, <2>6, <3>1
  <2>11. g[i] = Result(Ran(bits, 8, "OUT", key, CounterBlock(N, i)), Outs(N, key, byteCnt, i))
    BY <2>2 DEF Result
  <2> HIDE DEF g
  <2> QED
    BY ONLY <2>1, <2>6, <2>9, <2>10, <2>11, Zenon
<1>7. blocks \in 0..blocks
  OBVIOUS
<1>8. g[blocks] = [ctx |-> after(blocks), hashVal |-> Outs(N, key, byteCnt, blocks)]
  BY <1>7
<1> HIDE DEF g
<1>9. OutputTurns(N, c, byteCnt, blocks)[blocks] = g[blocks]
  <2>1. \A i \in 1..blocks : g[i] = OutputBlock(N, g[i - 1], key, byteCnt, i)
    BY <1>6
  <2> QED
    BY ONLY <1>2, <1>5, <2>1, blocks \in Nat, OutputTurnsFollow
<1>10. CounterMode(N, c) = g[blocks]
  BY ONLY <1>2, <1>9, byteCnt = (bits + 7) \div 8, blocks = (byteCnt + N - 1) \div N, Zenon
     DEF CounterMode
<1>11. Holds(N, bits, key, after(blocks))
  <2>1. CASE blocks = 0
    <3>1. Zeros(N) \in [1..N -> Int]
      BY DEF Zeros
    <3> QED
      BY <1>3, <2>1, <3>1 DEF Holds
  <2>2. CASE blocks # 0
    <3>1. CounterBlock(N, blocks) \in [1..N -> Int]
      <4>1. blocks - 1 \in Nat /\ N - 8 \in Nat
        BY <2>2
      <4>2. Word(blocks - 1) \in Seq(Int) /\ Len(Word(blocks - 1)) = 8
        BY <4>1, WordIs
      <4>3. Zeros(N - 8) \in Seq(Int) /\ Len(Zeros(N - 8)) = N - 8
        BY <4>1, ZerosAre
      <4>4. PICK w, z : w = Word(blocks - 1) /\ z = Zeros(N - 8)
        OBVIOUS
      <4>5. N = Len(w) + Len(z) /\ w \in Seq(Int) /\ z \in Seq(Int)
        <5>1. w \in Seq(Int) /\ Len(w) = 8 /\ z \in Seq(Int) /\ Len(z) = N - 8
          BY ONLY <4>2, <4>3, <4>4, Zenon
        <5> QED
          BY ONLY <5>1, N \in Nat
      <4>6. w \o z \in [1..N -> Int]
        BY ONLY <4>5, Joined
      <4> QED
        BY ONLY <4>4, <4>6 DEF CounterBlock
    <3>2. after(blocks) = Ran(bits, 8, "OUT", key, CounterBlock(N, blocks))
      BY <2>2
    <3> HIDE DEF after
    <3> QED
      BY <3>1, <3>2, RanIs DEF Holds
  <2> QED
    BY <2>1, <2>2
<1> HIDE DEF after
<1> QED
  BY <1>8, <1>10, <1>11
-----------------------------------------------------------------------------
(* Every message is cut in one way. *)
LEMMA CutExists ==
  ASSUME NEW N \in Nat \ {0}, NEW fed \in Nat
  PROVE  \E k \in Nat, n \in Nat : Cut(N, fed, k, n)
<1>1. CASE fed = 0
  <2> PICK z \in Nat : z = 0
    OBVIOUS
  <2>1. z * N = 0
    OBVIOUS
  <2>2. Cut(N, fed, z, z)
    BY <1>1, <2>1 DEF Cut
  <2> QED
    BY <2>2
<1>2. CASE fed # 0
  <2>1. PICK q \in Nat, r \in Nat : fed = q * N + r /\ 0 < r /\ r <= N
    BY <1>2, DirectIs
  <2>2. Cut(N, fed, q, r)
    BY <2>1 DEF Cut
  <2> QED
    BY <2>2
<1> QED
  BY <1>1, <1>2

(* UBI is a chaining value.                                                *)
LEMMA UBIType ==
  ASSUME NEW N \in Nat \ {0}, NEW type \in Types, NEW M \in Texts, NEW fed \in Nat,
         NEW G \in Seq(Compression)
  PROVE  UBI(N, G, Part(M, 0, fed), type) \in Seq(Compression)
<1>1. PICK k \in Nat, n \in Nat : Cut(N, fed, k, n)
  BY CutExists
<1>2. UBI(N, G, Part(M, 0, fed), type) = Append(G \o Comps(N, type, M, k), LastComp(N, type, M, k, n))
  BY <1>1, UBIIs
<1>3. Comps(N, type, M, k) \in Seq(Compression)
  BY CompsType
<1>4. LastComp(N, type, M, k, n) \in Compression
  BY LastType
<1>5. PICK s, x : s = Comps(N, type, M, k) /\ x = LastComp(N, type, M, k, n)
  OBVIOUS
<1>6. G \o s \in Seq(Compression)
  BY ONLY <1>3, <1>5, G \in Seq(Compression), ConcatProperties
<1>7. PICK u : u = G \o s
  OBVIOUS
<1>8. Append(u, x) \in Seq(Compression)
  BY ONLY <1>4, <1>5, <1>6, <1>7
<1> QED
  BY ONLY <1>2, <1>5, <1>7, <1>8

(* A context a message has begun in is the stream of no bytes. *)
Fresh(h, type, x, b) == Ctx(h, 0, 0, Tweak(type, FALSE), x, b)

(* Nothing compressed and nothing waiting.                                 *)
LEMMA FreshStreams ==
  ASSUME NEW N \in Nat \ {0}, NEW type \in Types, NEW M \in Texts, NEW G \in Seq(Compression),
         NEW h, NEW b \in [1..N -> Int], NEW c, c = Fresh(h, type, G, b), NEW z \in Nat, z = 0
  PROVE  Streams(N, G, type, M, h, z, c)
<1>1. z * N = z
  OBVIOUS
<1>2. Tweak(type, FALSE) = Tw(type, z)
  <2>1. (z = 0) = TRUE
    BY Zenon
  <2> QED
    BY ONLY <2>1, Zenon DEF Tweak, Tw, T
<1>3. G \o Comps(N, type, M, z) = G
  <2>1. Comps(N, type, M, z) \in Seq(Compression) /\ Len(Comps(N, type, M, z)) = 0
    BY CompsType
  <2>2. Comps(N, type, M, z) = << >>
    BY <2>1
  <2> QED
    BY <2>2
<1>4. c = At(N, G, type, M, h, z, b, z)
  BY ONLY <1>1, <1>2, <1>3, z = 0, c = Fresh(h, type, G, b), Zenon DEF Fresh, At
<1>5. Waits(b, N, M, z * N, z)
  BY <1>1 DEF Waits
<1>6. z = z * N + z /\ z <= N
  BY <1>1
<1>7. Stream(N, G, type, M, h, z, c, z, z, b)
  BY ONLY <1>4, <1>5, <1>6 DEF Stream
<1> QED
  BY ONLY <1>7, z \in Nat DEF Streams

-----------------------------------------------------------------------------
(* Where the bytes of two sequences are when they are put together.        *)
Follow(u, p, z) == /\ \A i \in 1..Len(p) : u[i] = p[i]
                   /\ \A i \in 1..Len(z) : u[Len(p) + i] = z[i]

(* The bytes of both sequences, by their place.                            *)
LEMMA JoinedAt ==
  ASSUME NEW p \in Seq(Int), NEW z \in Seq(Int), NEW u, u = p \o z
  PROVE  Follow(u, p, z)
<1>1. \A i \in 1..Len(p) : u[i] = p[i]
  OBVIOUS
<1>2. ASSUME NEW i \in 1..Len(z) PROVE u[Len(p) + i] = z[i]
  <2>1. PICK n \in Nat, m \in Nat : n = Len(p) /\ m = Len(z)
    OBVIOUS
  <2>2. n + i \in 1..n + m /\ n + i > n /\ n + i - n = i
    BY <2>1
  <2> QED
    BY <2>1, <2>2
<1> QED
  BY <1>1, <1>2 DEF Follow

(* The configuration block is one short message. *)
Config(N, bits) == SubSeq(ConfigBlock(N, bits, 0), 1, SKEIN_CFG_STR_LEN)

(* The first 32 bytes of 24 bytes and zeroes, padded, are those 24 bytes   *)
(* and zeroes.                                                             *)
LEMMA PaddedWithZeroes ==
  ASSUME NEW N \in Nat, N >= 32, NEW p \in Seq(Int), Len(p) = 24
  PROVE  Short(N, SubSeq(p \o Zeros(N - 24), 1, 32), 32, p \o Zeros(N - 24))
<1> PICK m \in Nat, r \in Nat : m = N - 24 /\ r = N - 32
  OBVIOUS
<1> PICK y, z : y = Zeros(m) /\ z = Zeros(r)
  OBVIOUS
<1>1. y \in Seq(Int) /\ Len(y) = m /\ \A i \in 1..m : y[i] = 0
  BY ZerosAre
<1>2. z \in Seq(Int) /\ Len(z) = r /\ \A i \in 1..r : z[i] = 0
  BY ZerosAre
<1>3. PICK u : u = p \o y
  OBVIOUS
<1>4. u \in Seq(Int) /\ Len(u) = N
  <2>1. N = Len(p) + Len(y)
    BY <1>1
  <2> QED
    BY ONLY <1>1, <1>3, <2>1, Joined, p \in Seq(Int)
<1>5. \A i \in 1..N : i > 24 => u[i] = 0
  <2> SUFFICES ASSUME NEW i \in 1..N, i > 24 PROVE u[i] = 0
    OBVIOUS
  <2>1. PICK j \in 1..m : i = 24 + j
    <3>1. i - 24 \in 1..m /\ i = 24 + (i - 24)
      OBVIOUS
    <3> QED
      BY <3>1
  <2>2. u[24 + j] = y[j]
    <3>1. Len(p) = 24 /\ Len(y) = m
      BY <1>1
    <3>2. \A l \in 1..Len(y) : u[Len(p) + l] = y[l]
      BY ONLY <1>1, <1>3, JoinedAt, p \in Seq(Int) DEF Follow
    <3> QED
      BY ONLY <3>1, <3>2, j \in 1..m
  <2> QED
    BY <1>1, <2>1, <2>2
<1>6. PICK s : s = SubSeq(u, 1, 32)
  OBVIOUS
<1>7. s \in Seq(Int) /\ Len(s) = 32 /\ \A i \in 1..32 : s[i] = u[i]
  <2>2. s = [i \in 1..32 |-> u[i]]
    BY ONLY <1>4, <1>6
  <2>3. \A i \in 1..32 : u[i] \in Int
    BY ONLY <1>4, N \in Nat, N >= 32
  <2> QED
    BY ONLY <2>2, <2>3
<1>7a. s \in Seq(Int) /\ Len(s) = 32 /\ z \in Seq(Int) /\ Len(z) = r
  BY ONLY <1>2, <1>7
<1>8. PICK v : v = s \o z
  OBVIOUS
<1>9. v \in Seq(Int) /\ Len(v) = N
  <2>1. N = Len(s) + Len(z)
    BY ONLY <1>7a, r = N - 32, N \in Nat, N >= 32
  <2> QED
    BY ONLY <1>7a, <1>8, <2>1, Joined
<1>10. \A i \in 1..N : v[i] = u[i]
  <2> SUFFICES ASSUME NEW i \in 1..N PROVE v[i] = u[i]
    OBVIOUS
  <2>0. (\A l \in 1..Len(s) : v[l] = s[l]) /\ \A l \in 1..Len(z) : v[Len(s) + l] = z[l]
    <3>1. Follow(v, s, z)
      BY ONLY <1>7a, <1>8, JoinedAt
    <3> QED
      BY ONLY <3>1 DEF Follow
  <2>1. CASE i <= 32
    <3>1. i \in 1..32
      BY <2>1
    <3> QED
      BY ONLY <1>7, <2>0, <3>1
  <2>2. CASE ~ (i <= 32)
    <3>1. PICK j \in 1..r : i = 32 + j
      <4>1. i - 32 \in 1..r /\ i = 32 + (i - 32)
        BY <2>2
      <4> QED
        BY <4>1
    <3>2. v[32 + j] = z[j]
      BY ONLY <1>2, <1>7, <2>0, <3>1
    <3>3. v[i] = 0
      BY <1>2, <3>1, <3>2
    <3>4. u[i] = 0
      BY <1>5, <2>2
    <3> QED
      BY ONLY <3>3, <3>4
  <2> QED
    BY <2>1, <2>2
<1>11. v = u
  BY ONLY <1>4, <1>9, <1>10
<1>12. Short(N, s, 32, u)
  <2>1. 32 = Len(s) /\ 0 < 32 /\ 32 <= N
    BY <1>7
  <2>2. u = s \o Zeros(N - 32)
    BY ONLY <1>8, <1>11, z = Zeros(r), r = N - 32
  <2> QED
    BY ONLY <1>7, <2>1, <2>2 DEF Short
<1> QED
  BY ONLY <1>3, <1>6, <1>12, y = Zeros(m), m = N - 24, Zenon

(* It is 32 bytes long, and the rest of the block is zero for every block  *)
(* size.                                                                   *)
LEMMA ConfigIs ==
  ASSUME NEW N \in Nat, N >= 32, NEW bits \in Nat
  PROVE  Short(N, Config(N, bits), 32, ConfigBlock(N, bits, 0))
<1> PICK a : a = <<83, 72, 65, 51, 1, 0, 0, 0>>
  OBVIOUS
<1> PICK w, t : w = Word(bits) /\ t = Word(0)
  OBVIOUS
<1>1. a \in Seq(Int) /\ Len(a) = 8
  OBVIOUS
<1>2. w \in Seq(Int) /\ Len(w) = 8 /\ t \in Seq(Int) /\ Len(t) = 8
  <2>1. 0 \in Nat
    OBVIOUS
  <2> QED
    BY <2>1, WordIs
<1>3. PICK e : e = a \o w
  OBVIOUS
<1>4. e \in Seq(Int) /\ Len(e) = 16
  <2>1. 16 = Len(a) + Len(w)
    BY <1>1, <1>2
  <2> QED
    BY ONLY <1>1, <1>2, <1>3, <2>1, Joined
<1>5. PICK p : p = e \o t
  OBVIOUS
<1>6. p \in Seq(Int) /\ Len(p) = 24
  <2>1. 24 = Len(e) + Len(t)
    BY ONLY <1>2, <1>4
  <2> QED
    BY ONLY <1>2, <1>4, <1>5, <2>1, Joined
<1>7. Short(N, SubSeq(p \o Zeros(N - 24), 1, 32), 32, p \o Zeros(N - 24))
  BY <1>6, PaddedWithZeroes
<1>8. ConfigBlock(N, bits, 0) = p \o Zeros(N - 24)
  BY ONLY <1>3, <1>5, a = <<83, 72, 65, 51, 1, 0, 0, 0>>, w = Word(bits), t = Word(0), Zenon
     DEF ConfigBlock
<1> QED
  BY ONLY <1>7, <1>8, Zenon DEF Config, SKEIN_CFG_STR_LEN

(* The calls of _Init and _InitExt around the configuration block.         *)
Configured(N, bits, c) ==
  Skein_Start_New_Type(Process_Block(N, Begun(c, "CFG"), ConfigBlock(N, bits, 0), 32),
                       Tweak("MSG", FALSE))

(* They leave a context in which the message begins, under UBI of the      *)
(* configuration.                                                          *)
LEMMA ConfigRun ==
  ASSUME NEW N \in Nat, N >= 32, NEW bits \in Nat, NEW G \in Seq(Compression), NEW h, NEW n,
         NEW t0, NEW t1, NEW b, NEW c, c = Ctx(h, n, t0, t1, G, b)
  PROVE  /\ Configured(N, bits, c) = Fresh(h, "MSG", UBI(N, G, Config(N, bits), "CFG"), b)
         /\ UBI(N, G, Config(N, bits), "CFG") \in Seq(Compression)
<1> PICK type \in Types : type = "CFG"
  BY DEF Types
<1> PICK len \in Nat : len = 32
  OBVIOUS
<1> PICK s, blk, t : s = Config(N, bits) /\ blk = ConfigBlock(N, bits, 0) /\ t = Tweak("MSG", FALSE)
  OBVIOUS
<1>1. Short(N, s, len, blk) /\ N \in Nat \ {0}
  BY ConfigIs
<1>2. PICK d : d = Process_Block(N, Begun(c, type), blk, len)
  OBVIOUS
<1>3. PICK x : x = UBI(N, G, s, type)
  OBVIOUS
<1>4. d = Ran(h, len, type, x, b)
  BY ONLY <1>1, <1>2, <1>3, ShortRun, type \in Types, len \in Nat, G \in Seq(Compression),
          c = Ctx(h, n, t0, t1, G, b)
<1>5. PICK z, u : d = Ctx(h, z, len, u, x, b)
  BY ONLY <1>4, RanIs
<1>6. Skein_Start_New_Type(d, t) = Ctx(h, 0, 0, t, x, b)
  BY ONLY <1>5, StartIs
<1>7. x \in Seq(Compression)
  <2>1. s \in Seq(Int) /\ len = Len(s) /\ 0 < len /\ len <= N
    BY ONLY <1>1 DEF Short
  <2> QED
    BY ONLY <1>1, <1>3, <2>1, ShortMessage, type \in Types, len \in Nat, G \in Seq(Compression)
<1> QED
  BY ONLY <1>2, <1>3, <1>6, <1>7, type = "CFG", len = 32, s = Config(N, bits),
          blk = ConfigBlock(N, bits, 0), t = Tweak("MSG", FALSE), Zenon DEF Fresh, Configured
-----------------------------------------------------------------------------
(* A context of the block size, with whatever in it. *)
Used(N, c) == \E h, n, t0, t1, x, b : c = Ctx(h, n, t0, t1, x, b) /\ b \in [1..N -> Int]

(* A context nobody has written is one.                                    *)
LEMMA NewIsUsed ==
  ASSUME NEW N
  PROVE  Used(N, NewContext(N))
<1>1. PICK b, t : b = [i \in 1..N |-> Unset] /\ t = Tweak("none", FALSE)
  OBVIOUS
<1>2. b \in [1..N -> Int]
  BY <1>1 DEF Unset
<1>3. NewContext(N) = Ctx(Unset, Unset, Unset, t, << >>, b)
  BY ONLY <1>1, Zenon DEF NewContext, Ctx
<1> QED
  BY ONLY <1>2, <1>3 DEF Used

(* Without a key the configuration is hashed under nothing.                *)
LEMMA NoKeyChain ==
  ASSUME NEW N, NEW bits
  PROVE  ConfiguredChain(N, bits, << >>) = UBI(N, << >>, Config(N, bits), "CFG")
BY Zenon DEF ConfiguredChain, Config

(* The tabulated chaining values are those the configuration block leaves. *)
LEMMA TableIs ==
  ASSUME NEW N \in Nat, N >= 32, NEW bits \in Nat
  PROVE  SKEIN_IV(N, bits) = UBI(N, << >>, Config(N, bits), "CFG")
<1> PICK type \in Types : type = "CFG"
  BY DEF Types
<1> PICK len \in Nat : len = 32
  OBVIOUS
<1> PICK s, blk, g : s = Config(N, bits) /\ blk = ConfigBlock(N, bits, 0) /\ g = << >>
  OBVIOUS
<1>1. Short(N, s, len, blk) /\ N \in Nat \ {0}
  BY ConfigIs
<1>2. s \in Seq(Int) /\ len = Len(s) /\ 0 < len /\ len <= N /\ blk = s \o Zeros(N - len)
  BY ONLY <1>1 DEF Short
<1>3. g \in Seq(Compression)
  BY ONLY g = << >>
<1>4. UBI(N, g, s, type) = Append(g, [T0 |-> len, T1 |-> T(type, TRUE, TRUE), block |-> s \o Zeros(N - len)])
  BY ONLY <1>1, <1>2, <1>3, ShortMessage, type \in Types, len \in Nat, ZenonT(30)
<1>5. PICK r : r = [T0 |-> len, T1 |-> T(type, TRUE, TRUE), block |-> blk]
  OBVIOUS
<1>6. Append(g, r) = <<r>>
  BY ONLY g = << >>
<1>7. SKEIN_IV(N, bits) = <<r>>
  BY ONLY <1>5, type = "CFG", len = 32, blk = ConfigBlock(N, bits, 0), Zenon
     DEF SKEIN_IV, SKEIN_CFG_STR_LEN, Tweak, T
<1> QED
  BY ONLY <1>2, <1>4, <1>5, <1>6, <1>7, type = "CFG", s = Config(N, bits), g = << >>, Zenon

(* _Init leaves the chaining value of the configuration, tabulated or not, *)
(* and whatever was in the context before.                                 *)
LEMMA InitIs ==
  ASSUME NEW N \in Nat, N >= 32, NEW bits \in Nat, NEW c, Used(N, c)
  PROVE  \E b \in [1..N -> Int] :
            InitAs(N, c, bits) = Fresh(bits, "MSG", ConfiguredChain(N, bits, << >>), b)
<1>1. PICK h, n, t0, t1, x, b : c = Ctx(h, n, t0, t1, x, b) /\ b \in [1..N -> Int]
  BY DEF Used
<1>2. PICK asked : asked = [c EXCEPT !.hashBitLen = bits]
  OBVIOUS
<1>3. asked = Ctx(bits, n, t0, t1, x, b)
  BY ONLY <1>1, <1>2, LengthIs
<1>4. PICK g, chain : g = << >> /\ chain = UBI(N, g, Config(N, bits), "CFG")
  OBVIOUS
<1>5. PICK t : t = Tweak("MSG", FALSE)
  OBVIOUS
<1>6. PICK tabulated : tabulated = [asked EXCEPT !.X = chain]
  OBVIOUS
<1>7. Skein_Start_New_Type(tabulated, t) = Fresh(bits, "MSG", chain, b)
  <2>1. tabulated = Ctx(bits, n, t0, t1, chain, b)
    BY ONLY <1>3, <1>6, ChainIs
  <2>2. Skein_Start_New_Type(tabulated, t) = Ctx(bits, 0, 0, t, chain, b)
    BY ONLY <2>1, StartIs
  <2> QED
    BY ONLY <1>5, <2>2, Zenon DEF Fresh
<1>8. PICK cleared : cleared = [asked EXCEPT !.X = g]
  OBVIOUS
<1>9. PICK computed : computed = Process_Block(N, Begun(cleared, "CFG"), ConfigBlock(N, bits, 0), 32)
  OBVIOUS
<1>10. Skein_Start_New_Type(computed, t) = Fresh(bits, "MSG", chain, b)
  <2>1. cleared = Ctx(bits, n, t0, t1, g, b)
    BY ONLY <1>3, <1>8, ChainIs
  <2>2. g \in Seq(Compression)
    BY <1>4
  <2>3. Configured(N, bits, cleared) = Fresh(bits, "MSG", UBI(N, g, Config(N, bits), "CFG"), b)
    BY ONLY <2>1, <2>2, ConfigRun, N \in Nat, N >= 32, bits \in Nat
  <2> QED
    BY ONLY <1>4, <1>5, <1>9, <2>3, Zenon DEF Configured
<1>11. tabulated = [asked EXCEPT !.X = SKEIN_IV(N, bits)]
  BY ONLY <1>4, <1>6, TableIs, N \in Nat, N >= 32, bits \in Nat, Zenon
<1>12. InitAs(N, c, bits)
         = Skein_Start_New_Type(IF bits \in Precomputed(N) THEN tabulated ELSE computed, t)
  BY ONLY <1>2, <1>4, <1>5, <1>8, <1>9, <1>11, Zenon DEF InitAs, Begun, SKEIN_CFG_STR_LEN
<1>13. InitAs(N, c, bits) = Fresh(bits, "MSG", chain, b)
  <2>1. CASE bits \in Precomputed(N)
    BY ONLY <1>7, <1>12, <2>1, Zenon
  <2>2. CASE ~ (bits \in Precomputed(N))
    BY ONLY <1>10, <1>12, <2>2, Zenon
  <2> QED
    BY ONLY <2>1, <2>2
<1>14. chain = ConfiguredChain(N, bits, << >>)
  BY ONLY <1>4, NoKeyChain, Zenon
<1> QED
  BY ONLY <1>1, <1>13, <1>14, Zenon

(* The key, of which as many bytes are hashed as it is long. *)
KeyText == [i \in Nat |-> 100000 + i]

(* Key is such a message.                                                  *)
LEMMA KeyIs ==
  ASSUME NEW k \in Nat
  PROVE  KeyText \in Texts /\ Key(k) = Part(KeyText, 0, k) /\ (Key(k) = << >> <=> k = 0)
<1>1. KeyText \in Texts
  BY DEF KeyText, Texts
<1>2. Key(k) = Part(KeyText, 0, k)
  <2>1. \A i \in 1..k : KeyText[0 + i] = 100000 + i
    BY DEF KeyText
  <2> QED
    BY ONLY <2>1 DEF Part, Key
<1>3. Key(k) = << >> <=> k = 0
  <2>1. Key(k) \in Seq(Int) /\ Len(Key(k)) = k
    BY DEF Key
  <2> QED
    BY ONLY <2>1
<1> QED
  BY ONLY <1>1, <1>2, <1>3

(* The chaining value of the key, hashed as a message of its own. *)
LEMMA KeyedIs ==
  ASSUME NEW N \in Nat, N >= 32, NEW c, Used(N, c), NEW k \in Nat \ {0}, NEW h
  PROVE  Holds(N, h, UBI(N, << >>, Key(k), "KEY"),
               FinalPadAs(N, UpdateAs(N, Skein_Start_New_Type([c EXCEPT !.hashBitLen = h, !.X = << >>],
                                                              Tweak("KEY", FALSE)), Key(k))).ctx)
<1> PICK type \in Types : type = "KEY"
  BY DEF Types
<1> PICK z \in Nat : z = 0
  OBVIOUS
<1> PICK g, t : g = << >> /\ t = Tweak("KEY", FALSE)
  OBVIOUS
<1>1. PICK h0, n, t0, t1, x, b : c = Ctx(h0, n, t0, t1, x, b) /\ b \in [1..N -> Int]
  BY DEF Used
<1>2. PICK d : d = [c EXCEPT !.hashBitLen = h, !.X = g]
  OBVIOUS
<1>3. d = Ctx(h, n, t0, t1, g, b)
  <2>1. /\ c.hashBitLen = h0 /\ c.bCnt = n /\ c.T0 = t0 /\ c.T1 = t1 /\ c.X = x
        /\ c.b = b /\ DOMAIN c = CtxFields
    BY ONLY <1>1, CtxHas
  <2>2. d = [f \in CtxFields |-> d[f]]
    BY ONLY <1>2, <2>1
  <2>3. d.hashBitLen = h /\ d.bCnt = n /\ d.T0 = t0 /\ d.T1 = t1 /\ d.X = g /\ d.b = b
    BY ONLY <1>2, <2>1 DEF CtxFields
  <2> QED
    BY ONLY <2>2, <2>3, CtxIs
<1>4. PICK mini : mini = Skein_Start_New_Type(d, t)
  OBVIOUS
<1>5. mini = Fresh(h, type, g, b)
  <2>1. mini = Ctx(h, 0, 0, t, g, b)
    BY ONLY <1>3, <1>4, StartIs
  <2> QED
    BY ONLY <2>1, t = Tweak("KEY", FALSE), type = "KEY", Zenon DEF Fresh
<1>6. N \in Nat \ {0} /\ KeyText \in Texts /\ g \in Seq(Compression) /\ z + k = k /\ k \in Nat
  BY KeyIs
<1>7. Streams(N, g, type, KeyText, h, z, mini)
  BY ONLY <1>1, <1>5, <1>6, FreshStreams, type \in Types, z \in Nat, z = 0
<1>8. PICK msg : msg = Key(k)
  OBVIOUS
<1>9. msg = Part(KeyText, z, k) /\ msg = Part(KeyText, 0, k)
  BY <1>6, <1>8, KeyIs
<1>10. PICK e : e = UpdateAs(N, mini, msg)
  OBVIOUS
<1>11. Streams(N, g, type, KeyText, h, z + k, UpdateAs(N, mini, msg))
  BY ONLY <1>6, <1>7, <1>9, UpdateStreams, type \in Types, z \in Nat
<1>12. Streams(N, g, type, KeyText, h, k, e)
  BY ONLY <1>6, <1>10, <1>11
<1>13. Holds(N, h, UBI(N, g, Part(KeyText, 0, k), type), PadAndCompress(N, e))
  BY ONLY <1>6, <1>12, PadCompletes, type \in Types
<1>14. FinalPadAs(N, e).ctx = PadAndCompress(N, e)
  BY ONLY DEF FinalPadAs
<1> QED
  BY ONLY <1>2, <1>4, <1>8, <1>9, <1>10, <1>13, <1>14, g = << >>, t = Tweak("KEY", FALSE),
          type = "KEY", Zenon

(* What a call of Init or InitExt leaves. *)
Opened(N, bits, k, c) ==
  \E b \in [1..N -> Int] : c = Fresh(bits, "MSG", ConfiguredChain(N, bits, Key(k)), b)

(* _InitExt leaves the chaining value of the key and the configuration,    *)
(* for keys of any length, none included.                                  *)
LEMMA InitExtIs ==
  ASSUME NEW N \in Nat, N >= 32, NEW bits \in Nat, NEW c, Used(N, c), NEW k \in Nat
  PROVE  Opened(N, bits, k, InitExtAs(N, c, bits, 0, Key(k)))
<1> PICK key, h8 : key = Key(k) /\ h8 = 8 * N
  OBVIOUS
<1>1. PICK mini : mini = Skein_Start_New_Type([c EXCEPT !.hashBitLen = h8, !.X = << >>],
                                              Tweak("KEY", FALSE))
  OBVIOUS
<1>2. PICK keyed : keyed = IF key = << >> THEN [c EXCEPT !.X = << >>]
                           ELSE FinalPadAs(N, UpdateAs(N, mini, key)).ctx
  OBVIOUS
<1>3. PICK G : G = IF key = << >> THEN << >> ELSE UBI(N, << >>, key, "KEY")
  OBVIOUS
<1>4. G \in Seq(Compression) /\ \E h : Holds(N, h, G, keyed)
  <2>1. CASE k = 0
    <3>1. key = << >>
      BY <2>1, KeyIs
    <3>2. G = << >> /\ keyed = [c EXCEPT !.X = << >>]
      BY ONLY <1>2, <1>3, <3>1, Zenon
    <3>3. PICK h, n, t0, t1, x, b : c = Ctx(h, n, t0, t1, x, b) /\ b \in [1..N -> Int]
      BY DEF Used
    <3>4. PICK g : g = << >>
      OBVIOUS
    <3>5. [c EXCEPT !.X = g] = Ctx(h, n, t0, t1, g, b)
      BY ONLY <3>3, ChainIs
    <3>6. keyed = Ctx(h, n, t0, t1, G, b)
      BY ONLY <3>2, <3>4, <3>5, Zenon
    <3> QED
      BY ONLY <3>2, <3>3, <3>6 DEF Holds
  <2>2. CASE k # 0
    <3>1. key # << >> /\ k \in Nat \ {0}
      BY <2>2, KeyIs
    <3>2. G = UBI(N, << >>, key, "KEY") /\ keyed = FinalPadAs(N, UpdateAs(N, mini, key)).ctx
      BY ONLY <1>2, <1>3, <3>1, Zenon
    <3>3. Holds(N, h8, UBI(N, << >>, Key(k), "KEY"),
               FinalPadAs(N, UpdateAs(N, Skein_Start_New_Type([c EXCEPT !.hashBitLen = h8, !.X = << >>],
                                                              Tweak("KEY", FALSE)), Key(k))).ctx)
      BY <3>1, KeyedIs
    <3>4. Holds(N, h8, G, keyed)
      BY ONLY <1>1, <3>2, <3>3, key = Key(k), Zenon
    <3>5. G \in Seq(Compression)
      <4>1. PICK type \in Types, g \in Seq(Compression) : type = "KEY" /\ g = << >>
        <5>1. "KEY" \in Types /\ << >> \in Seq(Compression)
          BY DEF Types
        <5> QED
          BY <5>1
      <4>2. key = Part(KeyText, 0, k) /\ KeyText \in Texts /\ N \in Nat \ {0}
        BY KeyIs
      <4>3. UBI(N, g, Part(KeyText, 0, k), type) \in Seq(Compression)
        BY ONLY <4>1, <4>2, UBIType, k \in Nat
      <4> QED
        BY ONLY <3>2, <4>1, <4>2, <4>3, Zenon
    <3> QED
      BY ONLY <3>4, <3>5
  <2> QED
    BY ONLY <2>1, <2>2
<1>5. PICK h, n, t0, t1, b : keyed = Ctx(h, n, t0, t1, G, b) /\ b \in [1..N -> Int]
  BY <1>4 DEF Holds
<1>6. PICK d : d = [keyed EXCEPT !.hashBitLen = bits]
  OBVIOUS
<1>7. d = Ctx(bits, n, t0, t1, G, b)
  BY ONLY <1>5, <1>6, LengthIs
<1>8. Configured(N, bits, d) = Fresh(bits, "MSG", UBI(N, G, Config(N, bits), "CFG"), b)
  BY ONLY <1>4, <1>7, ConfigRun, N \in Nat, N >= 32, bits \in Nat
<1>9. InitExtAs(N, c, bits, 0, key) = Configured(N, bits, d)
  BY ONLY <1>1, <1>2, <1>6, h8 = 8 * N, Zenon
     DEF InitExtAs, Begun, Configured, SKEIN_CFG_STR_LEN
<1>10. ConfiguredChain(N, bits, key) = UBI(N, G, Config(N, bits), "CFG")
  BY ONLY <1>3, Zenon DEF ConfiguredChain, Config
<1> QED
  BY ONLY <1>5, <1>8, <1>9, <1>10, key = Key(k), Zenon DEF Opened
-----------------------------------------------------------------------------
(* The message, of which as many bytes are hashed as Update was given. *)
MessageBytes == [i \in Nat |-> 1000 + i]

(* Message is such a message.                                              *)
LEMMA BytesAre ==
  ASSUME NEW from \in Nat, NEW n \in Nat
  PROVE  MessageBytes \in Texts /\ Message(from, n) = Part(MessageBytes, from, n)
<1>1. MessageBytes \in Texts
  BY DEF MessageBytes, Texts
<1>2. \A i \in 1..n : MessageBytes[from + i] = 1000 + from + i
  BY DEF MessageBytes
<1> QED
  BY ONLY <1>1, <1>2 DEF Part, Message

(* How many blocks are compressed of fed bytes: all but the last one, also *)
(* when it is full.                                                        *)
Kept(N, fed) == IF fed = 0 THEN 0 ELSE (fed - 1) \div N

(* It is the number of blocks in which a message is cut.                   *)
LEMMA KeptIs ==
  ASSUME NEW N \in Nat \ {0}, NEW fed \in Nat, NEW k \in Nat, NEW n \in Nat, Cut(N, fed, k, n)
  PROVE  Kept(N, fed) = k
<1>1. fed = k * N + n /\ n <= N /\ (n = 0 => k = 0) /\ k * N \in Nat
  BY DEF Cut
<1>2. CASE n = 0
  <2>1. k = 0 /\ fed = 0
    BY <1>1, <1>2
  <2> QED
    BY <2>1 DEF Kept
<1>3. CASE n # 0
  <2> PICK r \in Nat : r = n - 1
    BY <1>3
  <2>1. fed - 1 = k * N + r /\ r < N /\ fed # 0
    BY <1>1, <1>3
  <2>2. (k * N + r) \div N = k
    BY ONLY <2>1, QuotientIs, N \in Nat \ {0}, k \in Nat, r \in Nat
  <2> QED
    BY ONLY <2>1, <2>2, Zenon DEF Kept
<1> QED
  BY <1>2, <1>3

(* What StreamIsUBI says of a context that was given fed bytes. *)
Agrees(N, chain, fed, c) ==
  LET kept == Kept(N, fed)
  IN  /\ c.X = SubSeq(UBI(N, chain, Message(0, fed), "MSG"), 1, Len(chain) + kept)
      /\ c.T0 = kept * N
      /\ c.T1 = [type |-> "MSG", first |-> kept = 0, final |-> FALSE]
      /\ SubSeq(c.b, 1, c.bCnt) = Message(kept * N, fed - kept * N)

(* A stream is what StreamIsUBI says.                                      *)
LEMMA StreamAgrees ==
  ASSUME NEW N \in Nat \ {0}, NEW chain \in Seq(Compression), NEW h, NEW fed \in Nat, NEW c,
         Streams(N, chain, "MSG", MessageBytes, h, fed, c)
  PROVE  Agrees(N, chain, fed, c)
<1> PICK type \in Types : type = "MSG"
  BY DEF Types
<1>0. PICK k \in Nat, n \in Nat : \E b : Stream(N, chain, type, MessageBytes, h, fed, c, k, n, b)
  BY DEF Streams
<1>1. PICK b : Stream(N, chain, type, MessageBytes, h, fed, c, k, n, b)
  BY <1>0
<1>2. /\ c = At(N, chain, type, MessageBytes, h, n, b, k) /\ Cut(N, fed, k, n)
      /\ Waits(b, N, MessageBytes, k * N, n) /\ fed = k * N + n /\ n <= N
  BY <1>1 DEF Stream, Cut
<1> PICK base \in Nat : base = k * N
  <2>1. k * N \in Nat
    OBVIOUS
  <2> QED
    BY <2>1
<1> PICK t, x : t = Tw(type, k) /\ x = chain \o Comps(N, type, MessageBytes, k)
  OBVIOUS
<1>3. c = Ctx(h, n, base, t, x, b)
  BY ONLY <1>2, base = k * N, t = Tw(type, k), x = chain \o Comps(N, type, MessageBytes, k) DEF At
<1>4. c.X = x /\ c.T0 = base /\ c.T1 = t /\ c.b = b /\ c.bCnt = n
  BY ONLY <1>3, CtxHas
<1>5. Kept(N, fed) = k
  BY <1>2, KeptIs
<1>6. x = SubSeq(UBI(N, chain, Message(0, fed), type), 1, Len(chain) + k)
  <2>1. PICK s, l : s = Comps(N, type, MessageBytes, k) /\ l = LastComp(N, type, MessageBytes, k, n)
    OBVIOUS
  <2>2. 0 \in Nat
    OBVIOUS
  <2>3. MessageBytes \in Texts /\ Message(0, fed) = Part(MessageBytes, 0, fed)
    BY <2>2, BytesAre
  <2>4. s \in Seq(Compression) /\ Len(s) = k
    BY ONLY <2>1, <2>3, CompsType, N \in Nat \ {0}, k \in Nat, type \in Types
  <2>5. l \in Compression
    BY ONLY <2>1, <2>3, LastType, N \in Nat \ {0}, k \in Nat, n \in Nat, type \in Types
  <2>6. x \in Seq(Compression) /\ Len(x) = Len(chain) + k
    BY ONLY <2>1, <2>4, ConcatProperties, chain \in Seq(Compression),
            x = chain \o Comps(N, type, MessageBytes, k)
  <2>7. UBI(N, chain, Part(MessageBytes, 0, fed), type)
          = Append(chain \o Comps(N, type, MessageBytes, k), LastComp(N, type, MessageBytes, k, n))
    BY ONLY <1>2, <2>3, UBIIs, N \in Nat \ {0}, k \in Nat, n \in Nat, type \in Types, fed \in Nat,
            chain \in Seq(Compression), SMTT(30)
  <2>8. UBI(N, chain, Message(0, fed), type) = Append(x, l)
    BY ONLY <2>1, <2>3, <2>7, x = chain \o Comps(N, type, MessageBytes, k), Zenon
  <2>9. SubSeq(Append(x, l), 1, Len(x)) = x
    BY ONLY <2>5, <2>6
  <2> QED
    BY ONLY <2>6, <2>8, <2>9
<1>7. t = [type |-> "MSG", first |-> k = 0, final |-> FALSE]
  BY ONLY t = Tw(type, k), type = "MSG", Zenon DEF Tw, T
<1>8. SubSeq(b, 1, n) = Message(base, fed - base)
  <2>1. fed - base = n
    BY <1>2
  <2>2. Message(base, n) = Part(MessageBytes, base, n)
    BY BytesAre
  <2>3. b \in Seq(Int) /\ Len(b) = N /\ \A i \in 1..n : b[i] = MessageBytes[base + i]
    BY <1>2 DEF Waits
  <2>4. SubSeq(b, 1, n) = [i \in 1..n |-> b[i]]
    BY ONLY <2>3, n \in Nat
  <2> QED
    BY ONLY <2>1, <2>2, <2>3, <2>4 DEF Part
<1> QED
  BY ONLY <1>4, <1>5, <1>6, <1>7, <1>8, base = k * N, type = "MSG", Zenon DEF Agrees

(* The output stage under UBI of the message is the Skein hash.            *)
LEMMA DigestIs ==
  ASSUME NEW N \in Nat, N >= 32, NEW bits \in Nat, NEW key, NEW M, NEW G,
         G = UBI(N, ConfiguredChain(N, bits, key), M, "MSG"),
         NEW byteCnt \in Nat, byteCnt = (bits + 7) \div 8,
         NEW blocks \in Nat, blocks = (byteCnt + N - 1) \div N
  PROVE  SkeinHash(N, bits, key, M) = Outs(N, G, byteCnt, blocks)
<1>1. SkeinHash(N, bits, key, M)
        = [i \in 1..blocks |-> [X |-> UBI(N, G, Word(i - 1), "OUT"),
                                bytes |-> IF i < blocks THEN N ELSE byteCnt - (i - 1) * N]]
  BY ONLY G = UBI(N, ConfiguredChain(N, bits, key), M, "MSG"), byteCnt = (bits + 7) \div 8,
          blocks = (byteCnt + N - 1) \div N, Zenon DEF SkeinHash
<1>2. ASSUME NEW i \in 1..blocks
      PROVE  (IF i < blocks THEN N ELSE byteCnt - (i - 1) * N) = Taken(N, byteCnt, i)
  <2>1. byteCnt + N - 1 \in Nat /\ N \in Nat \ {0}
    OBVIOUS
  <2>2. PICK q \in Nat, s \in Nat : q = (byteCnt + N - 1) \div N /\ s < N /\ byteCnt + N - 1 = N * q + s
    BY ONLY <2>1, Division
  <2>3. PICK j \in Nat : j = i - 1
    OBVIOUS
  <2>4. PICK d \in Nat : q = j + 1 + d
    <3>1. blocks - i \in Nat /\ blocks = (i - 1) + 1 + (blocks - i)
      OBVIOUS
    <3>2. q = j + 1 + (blocks - i)
      BY ONLY <2>2, <2>3, <3>1, blocks = (byteCnt + N - 1) \div N
    <3> QED
      BY <3>1, <3>2
  <2>5. PICK a \in Nat, e \in Nat : a = j * N /\ e = d * N
    <3>1. j * N \in Nat /\ d * N \in Nat
      OBVIOUS
    <3> QED
      BY <3>1
  <2>6. byteCnt - 1 = a + e + s
    <3>1. N * q = j * N + N + d * N
      BY ONLY <2>4, N \in Nat, q \in Nat, j \in Nat, d \in Nat
    <3>2. byteCnt + N - 1 = a + N + e + s
      BY ONLY <2>2, <2>5, <3>1
    <3> QED
      BY ONLY <3>2, byteCnt \in Nat, N \in Nat, a \in Nat, e \in Nat, s \in Nat
  <2>7. byteCnt - (i - 1) * N = byteCnt - a
    BY ONLY <2>3, <2>5
  <2>8. i < blocks <=> d > 0
    BY <2>2, <2>3, <2>4
  <2>9. CASE d > 0
    <3>1. e >= N
      <4>1. PICK f \in Nat : d = f + 1
        <5>1. d - 1 \in Nat /\ d = (d - 1) + 1
          BY <2>9
        <5> QED
          BY <5>1
      <4>2. d * N = f * N + N /\ f * N \in Nat
        BY ONLY <4>1, f \in Nat, N \in Nat, d \in Nat
      <4> QED
        BY ONLY <2>5, <4>2, N \in Nat, e \in Nat
    <3>2. byteCnt - a >= N
      BY ONLY <2>6, <3>1, byteCnt \in Nat, N \in Nat, a \in Nat, e \in Nat, s \in Nat
    <3> QED
      BY ONLY <2>7, <2>8, <2>9, <3>2, Zenon DEF Taken
  <2>10. CASE ~ (d > 0)
    <3>1. e = 0
      <4>1. d = 0
        BY <2>10
      <4>2. d * N = 0
        BY <4>1
      <4> QED
        BY ONLY <2>5, <4>2
    <3>2. byteCnt - a <= N
      BY ONLY <2>2, <2>6, <3>1, byteCnt \in Nat, N \in Nat, a \in Nat, s \in Nat
    <3>3. byteCnt - a >= N => byteCnt - a = N
      BY ONLY <3>2, byteCnt \in Nat, N \in Nat, a \in Nat
    <3> QED
      BY ONLY <2>7, <2>8, <2>10, <3>3, Zenon DEF Taken
  <2> QED
    BY ONLY <2>9, <2>10
<1> QED
  BY ONLY <1>1, <1>2 DEF Outs, Out
-----------------------------------------------------------------------------
(* The block sizes of skein.h.                                             *)
Sizes == {32, 64, 128}

(* The function of every block size is the same operator. *)
LEMMA ForBlockSize ==
  ASSUME NEW N \in Sizes, NEW c
  PROVE  /\ \A bits : HashInit(N, c, bits) = InitAs(N, c, bits)
         /\ \A bits, key : HashInitExt(N, c, bits, key) = InitExtAs(N, c, bits, 0, key)
         /\ \A msg : HashUpdate(N, c, msg) = UpdateAs(N, c, msg)
         /\ HashFinal(N, c) = FinalAs(N, c)
         /\ HashFinalPad(N, c) = FinalPadAs(N, c)
         /\ HashOutput(N, c) = CounterMode(N, c)
<1>1. CASE N = 32
  BY <1>1 DEF HashInit, HashInitExt, HashUpdate, HashFinal, HashFinalPad, HashOutput,
     Skein_256_Init, Skein_256_InitExt, Skein_256_Update, Skein_256_Final, Skein_256_Final_Pad,
     Skein_256_Output
<1>2. CASE N = 64
  BY <1>2 DEF HashInit, HashInitExt, HashUpdate, HashFinal, HashFinalPad, HashOutput,
     Skein_512_Init, Skein_512_InitExt, Skein_512_Update, Skein_512_Final, Skein_512_Final_Pad,
     Skein_512_Output
<1>3. CASE N = 128
  BY <1>3 DEF HashInit, HashInitExt, HashUpdate, HashFinal, HashFinalPad, HashOutput,
     Skein1024_Init, Skein1024_InitExt, Skein1024_Update, Skein1024_Final, Skein1024_Final_Pad,
     Skein1024_Output
<1> QED
  BY <1>1, <1>2, <1>3 DEF Sizes

(* A context that holds a chaining value is a context.                     *)
LEMMA UsedWhenHeld ==
  ASSUME NEW N, NEW h, NEW x, NEW c, Holds(N, h, x, c)
  PROVE  Used(N, c)
BY DEF Holds, Used

(* ------------------------------ the invariant ---------------------------- *)

(* The chaining value the message is hashed under, and the one behind it. *)
SkChain == ConfiguredChain(skCall.N, skCall.bits, Key(skCall.key))
SkHashed == UBI(skCall.N, SkChain, Message(0, skFed), "MSG")

(* A hash has begun, of a known kind.                                      *)
SkCalled == skCall.N \in Sizes /\ skCall.bits \in Nat /\ skCall.key \in Nat

(* Between two calls of Update: the context is the stream of what it was   *)
(* given.                                                                  *)
SkAbsorbing == /\ SkChain \in Seq(Compression)
               /\ Streams(skCall.N, SkChain, "MSG", MessageBytes, skCall.bits, skFed, skCtx)

(* After Final_Pad it holds UBI of the message.                            *)
SkPadded == SkHashed \in Seq(Compression) /\ Holds(skCall.N, skCall.bits, SkHashed, skCtx)

(* After the output it can be used again, and the output is the Skein      *)
(* hash.                                                                   *)
SkDone == /\ Used(skCall.N, skCtx)
          /\ skOut = SkeinHash(skCall.N, skCall.bits, Key(skCall.key), Message(0, skFed))

(* The inductive invariant: StreamIsUBI and DigestIsSkein are not          *)
(* inductive, since they do not say what b[] holds beyond the bytes that   *)
(* wait, nor what Final_Pad leaves for Output, nor that a context may be   *)
(* reused.                                                                 *)
SkInv ==
  /\ skFed \in Nat
  /\ skPhase \in {"fresh", "absorbing", "padded", "done"}
  /\ skPhase = "fresh" => skCall.N = 0
  /\ skPhase # "fresh" => SkCalled
  /\ skPhase = "absorbing" => SkAbsorbing
  /\ skPhase = "padded" => SkPadded
  /\ skPhase = "done" => SkDone

(* Block sizes are numbers, and large enough for the configuration.        *)
LEMMA SizeIs ==
  ASSUME NEW N \in Sizes
  PROVE  N \in Nat /\ N >= 32 /\ N \in Nat \ {0}
BY DEF Sizes

(* What is asked of _Init is.                                              *)
LEMMA CallSizes ==
  ASSUME NEW N \in DOMAIN HashBits, NEW bits \in HashBits[N]
  PROVE  N \in Sizes /\ bits \in Nat
BY SizesAssumption DEF Sizes

(* A context on the stack, or the one of the last hash. *)
LEMMA ContextIsUsed ==
  ASSUME SkInv, skPhase \in {"fresh", "padded", "done"}, NEW N \in Sizes
  PROVE  Used(N, Context(N))
<1>1. CASE skCall.N # N
  <2>1. Context(N) = NewContext(N)
    BY ONLY <1>1, Zenon DEF Context
  <2> QED
    BY ONLY <2>1, NewIsUsed, Zenon
<1>2. CASE skCall.N = N
  <2>1. Context(N) = skCtx
    BY ONLY <1>2, Zenon DEF Context
  <2>2. skPhase # "fresh"
    <3>1. N # 0
      BY SizeIs
    <3> QED
      BY ONLY <1>2, <3>1, SkInv DEF SkInv
  <2>3. CASE skPhase = "padded"
    <3>1. Holds(skCall.N, skCall.bits, SkHashed, skCtx)
      BY ONLY <2>3, SkInv DEF SkInv, SkPadded
    <3> QED
      BY ONLY <1>2, <2>1, <3>1, UsedWhenHeld, Zenon
  <2>4. CASE skPhase = "done"
    <3>1. Used(skCall.N, skCtx)
      BY ONLY <2>4, SkInv DEF SkInv, SkDone
    <3> QED
      BY ONLY <1>2, <2>1, <3>1, Zenon
  <2> QED
    BY ONLY <2>2, <2>3, <2>4, skPhase \in {"fresh", "padded", "done"}
<1> QED
  BY ONLY <1>1, <1>2

(* The chaining value the message is hashed under is one.                  *)
LEMMA ChainType ==
  ASSUME NEW N \in Sizes, NEW bits \in Nat, NEW k \in Nat
  PROVE  ConfiguredChain(N, bits, Key(k)) \in Seq(Compression)
<1> PICK key, G : key = Key(k) /\ G = IF key = << >> THEN << >> ELSE UBI(N, << >>, key, "KEY")
  OBVIOUS
<1>1. ConfiguredChain(N, bits, key) = UBI(N, G, Config(N, bits), "CFG")
  BY Zenon DEF ConfiguredChain, Config
<1> PICK g \in Seq(Compression), type \in Types : g = << >> /\ type = "KEY"
  <2>1. << >> \in Seq(Compression) /\ "KEY" \in Types
    BY DEF Types
  <2> QED
    BY <2>1
<1>2. G \in Seq(Compression)
  <2>1. N \in Nat \ {0} /\ KeyText \in Texts /\ key = Part(KeyText, 0, k)
    BY SizeIs, KeyIs
  <2>2. UBI(N, g, Part(KeyText, 0, k), type) \in Seq(Compression)
    BY ONLY <2>1, UBIType, g \in Seq(Compression), type \in Types, k \in Nat
  <2>3. CASE key = << >>
    BY ONLY <2>3, g \in Seq(Compression), g = << >>,
            G = IF key = << >> THEN << >> ELSE UBI(N, << >>, key, "KEY"), Zenon
  <2>4. CASE key # << >>
    BY ONLY <2>1, <2>2, <2>4, g = << >>, type = "KEY",
            G = IF key = << >> THEN << >> ELSE UBI(N, << >>, key, "KEY"), Zenon
  <2> QED
    BY ONLY <2>3, <2>4
<1>3. N \in Nat /\ N >= 32
  BY SizeIs
<1>4. PICK c, h, b : c = Ctx(h, h, h, h, G, b)
  OBVIOUS
<1>5. UBI(N, G, Config(N, bits), "CFG") \in Seq(Compression)
  BY ONLY <1>2, <1>3, <1>4, ConfigRun, bits \in Nat
<1> QED
  BY ONLY <1>1, <1>5, key = Key(k), Zenon

(* _Init and _InitExt begin a stream.                                      *)
LEMMA OpenedInvariant ==
  ASSUME NEW N \in Sizes, NEW bits \in Nat, NEW k \in Nat, Opened(N, bits, k, skCtx'),
         skCall' = [N |-> N, bits |-> bits, key |-> k], skFed' = 0, skPhase' = "absorbing"
  PROVE  SkInv'
<1> PICK chain : chain = ConfiguredChain(N, bits, Key(k))
  OBVIOUS
<1>1. skCall'.N = N /\ skCall'.bits = bits /\ skCall'.key = k
  BY ONLY skCall' = [N |-> N, bits |-> bits, key |-> k]
<1>2. PICK b \in [1..N -> Int] : skCtx' = Fresh(bits, "MSG", chain, b)
  BY ONLY Opened(N, bits, k, skCtx'), chain = ConfiguredChain(N, bits, Key(k)) DEF Opened
<1>3. chain \in Seq(Compression)
  BY ChainType
<1>4. PICK type \in Types, z \in Nat : type = "MSG" /\ z = 0
  BY DEF Types
<1>5. N \in Nat \ {0} /\ MessageBytes \in Texts
  BY SizeIs DEF MessageBytes, Texts
<1>6. PICK c : c = skCtx'
  OBVIOUS
<1>7. c = Fresh(bits, type, chain, b)
  BY ONLY <1>2, <1>4, <1>6
<1>8. Streams(N, chain, type, MessageBytes, bits, z, c)
  BY ONLY <1>3, <1>4, <1>5, <1>7, FreshStreams, b \in [1..N -> Int]
<1>9. SkChain' = chain
  BY ONLY <1>1, chain = ConfiguredChain(N, bits, Key(k)), Zenon DEF SkChain
<1>10. SkAbsorbing'
  BY ONLY <1>1, <1>3, <1>4, <1>6, <1>8, <1>9, skFed' = 0, Zenon DEF SkAbsorbing
<1>11. SkCalled'
  BY ONLY <1>1, N \in Sizes, bits \in Nat, k \in Nat, Zenon DEF SkCalled
<1>12. skFed' \in Nat
  BY ONLY skFed' = 0
<1> QED
  BY ONLY <1>10, <1>11, <1>12, skPhase' = "absorbing" DEF SkInv

(* _Init keeps the invariant.                                              *)
LEMMA InitInvariant ==
  ASSUME SkInv, NEW N \in DOMAIN HashBits, NEW bits \in HashBits[N], CallInit(N, bits)
  PROVE  SkInv'
<1>1. N \in Sizes /\ bits \in Nat
  BY CallSizes
<1>2. /\ skPhase \in {"fresh", "padded", "done"} /\ skCtx' = HashInit(N, Context(N), bits)
      /\ skCall' = [N |-> N, bits |-> bits, key |-> 0] /\ skFed' = 0 /\ skPhase' = "absorbing"
  BY DEF CallInit
<1>3. PICK c, e : c = Context(N) /\ e = skCtx'
  OBVIOUS
<1>4. Used(N, c)
  BY ONLY <1>1, <1>2, <1>3, SkInv, ContextIsUsed
<1>5. e = InitAs(N, c, bits)
  BY ONLY <1>1, <1>2, <1>3, ForBlockSize, Zenon
<1>6. N \in Nat /\ N >= 32
  BY <1>1, SizeIs
<1>7. PICK b \in [1..N -> Int] : InitAs(N, c, bits) = Fresh(bits, "MSG", ConfiguredChain(N, bits, << >>), b)
  BY ONLY <1>1, <1>4, <1>6, InitIs
<1>8. PICK z \in Nat : z = 0
  OBVIOUS
<1>9. Key(z) = << >>
  BY <1>8, KeyIs
<1>10. Opened(N, bits, z, e)
  BY ONLY <1>5, <1>7, <1>9, Zenon DEF Opened
<1> QED
  BY ONLY <1>1, <1>2, <1>3, <1>8, <1>10, OpenedInvariant

(* _InitExt keeps the invariant.                                           *)
LEMMA InitExtInvariant ==
  ASSUME SkInv, NEW N \in DOMAIN HashBits, NEW bits \in HashBits[N], NEW k \in KeyBytes,
         CallInitExt(N, bits, k)
  PROVE  SkInv'
<1>1. N \in Sizes /\ bits \in Nat /\ k \in Nat
  BY CallSizes, SizesAssumption
<1>2. /\ skPhase \in {"fresh", "padded", "done"} /\ skCtx' = HashInitExt(N, Context(N), bits, Key(k))
      /\ skCall' = [N |-> N, bits |-> bits, key |-> k] /\ skFed' = 0 /\ skPhase' = "absorbing"
  BY DEF CallInitExt
<1>3. PICK c, e : c = Context(N) /\ e = skCtx'
  OBVIOUS
<1>4. Used(N, c)
  BY ONLY <1>1, <1>2, <1>3, SkInv, ContextIsUsed
<1>5. e = InitExtAs(N, c, bits, 0, Key(k))
  BY ONLY <1>1, <1>2, <1>3, ForBlockSize, Zenon
<1>6. N \in Nat /\ N >= 32
  BY <1>1, SizeIs
<1>7. Opened(N, bits, k, InitExtAs(N, c, bits, 0, Key(k)))
  BY ONLY <1>1, <1>4, <1>6, InitExtIs
<1>8. Opened(N, bits, k, e)
  BY ONLY <1>5, <1>7, Zenon
<1> QED
  BY ONLY <1>1, <1>2, <1>3, <1>8, OpenedInvariant

(* _Update keeps the invariant: the stream goes on.                        *)
LEMMA UpdateInvariant ==
  ASSUME SkInv, NEW m \in ChunkBytes, CallUpdate(m)
  PROVE  SkInv'
<1>1. /\ skPhase = "absorbing" /\ skCtx' = HashUpdate(skCall.N, skCtx, Message(skFed, m))
      /\ skFed' = skFed + m /\ skCall' = skCall /\ skPhase' = skPhase
  BY DEF CallUpdate
<1>2. skFed \in Nat /\ SkCalled /\ SkAbsorbing
  BY ONLY <1>1, SkInv DEF SkInv
<1>3. m \in Nat
  BY SizesAssumption
<1> PICK type \in Types : type = "MSG"
  BY DEF Types
<1>4. PICK N, bits, chain, c, fed :
        /\ N = skCall.N /\ bits = skCall.bits /\ chain = SkChain /\ c = skCtx /\ fed = skFed
        /\ type = "MSG"
  OBVIOUS
<1>5. N \in Sizes /\ chain \in Seq(Compression) /\ fed \in Nat
      /\ Streams(N, chain, type, MessageBytes, bits, fed, c)
  BY ONLY <1>2, <1>4, Zenon DEF SkCalled, SkAbsorbing
<1>6. N \in Nat \ {0} /\ MessageBytes \in Texts /\ Message(fed, m) = Part(MessageBytes, fed, m)
  BY <1>3, <1>5, SizeIs, BytesAre
<1>7. Streams(N, chain, type, MessageBytes, bits, fed + m, UpdateAs(N, c, Message(fed, m)))
  BY ONLY <1>3, <1>4, <1>5, <1>6, type \in Types, UpdateStreams
<1>8. skCtx' = UpdateAs(N, c, Message(fed, m))
  BY ONLY <1>1, <1>4, <1>5, ForBlockSize, Zenon
<1>9. SkChain' = chain
  BY ONLY <1>1, <1>4, Zenon DEF SkChain
<1>10. SkAbsorbing'
  BY ONLY <1>1, <1>4, <1>5, <1>7, <1>8, <1>9, Zenon DEF SkAbsorbing
<1>11. SkCalled'
  BY ONLY <1>1, <1>2, Zenon DEF SkCalled
<1>12. skFed' \in Nat
  BY ONLY <1>1, <1>2, <1>3
<1> QED
  BY ONLY <1>1, <1>10, <1>11, <1>12 DEF SkInv

(* Final and Final_Pad: the last block of the message. *)
LEMMA FinishedIs ==
  ASSUME SkInv, skPhase = "absorbing"
  PROVE  SkHashed \in Seq(Compression)
         /\ Holds(skCall.N, skCall.bits, SkHashed, PadAndCompress(skCall.N, skCtx))
<1>1. skFed \in Nat /\ SkCalled /\ SkAbsorbing
  BY ONLY SkInv, skPhase = "absorbing" DEF SkInv
<1> PICK type \in Types : type = "MSG"
  BY DEF Types
<1>2. PICK N, bits, chain, c, fed :
        /\ N = skCall.N /\ bits = skCall.bits /\ chain = SkChain /\ c = skCtx /\ fed = skFed
        /\ type = "MSG"
  OBVIOUS
<1>3. N \in Sizes /\ chain \in Seq(Compression) /\ fed \in Nat
      /\ Streams(N, chain, type, MessageBytes, bits, fed, c)
  BY ONLY <1>1, <1>2, Zenon DEF SkCalled, SkAbsorbing
<1>4. N \in Nat \ {0} /\ MessageBytes \in Texts /\ Message(0, fed) = Part(MessageBytes, 0, fed)
  <2>1. 0 \in Nat
    OBVIOUS
  <2> QED
    BY <1>3, <2>1, SizeIs, BytesAre
<1>5. Holds(N, bits, UBI(N, chain, Part(MessageBytes, 0, fed), type), PadAndCompress(N, c))
  BY ONLY <1>2, <1>3, <1>4, type \in Types, PadCompletes
<1>6. UBI(N, chain, Part(MessageBytes, 0, fed), type) \in Seq(Compression)
  BY ONLY <1>2, <1>3, <1>4, type \in Types, UBIType
<1>7. SkHashed = UBI(N, chain, Part(MessageBytes, 0, fed), type)
  BY ONLY <1>2, <1>4, Zenon DEF SkHashed
<1> QED
  BY ONLY <1>2, <1>5, <1>6, <1>7, Zenon

(* Output, and the second half of Final. *)
LEMMA OutputIs ==
  ASSUME NEW d, SkCalled, SkHashed \in Seq(Compression),
         Holds(skCall.N, skCall.bits, SkHashed, d), NEW r, r = CounterMode(skCall.N, d)
  PROVE  /\ Used(skCall.N, r.ctx)
         /\ r.hashVal = SkeinHash(skCall.N, skCall.bits, Key(skCall.key), Message(0, skFed))
<1>1. PICK N, bits, key, G, M :
        N = skCall.N /\ bits = skCall.bits /\ key = Key(skCall.key) /\ G = SkHashed /\ M = Message(0, skFed)
  OBVIOUS
<1>2. N \in Sizes /\ bits \in Nat /\ G \in Seq(Compression) /\ Holds(N, bits, G, d)
      /\ r = CounterMode(N, d)
  BY ONLY <1>1, SkCalled, SkHashed \in Seq(Compression), Holds(skCall.N, skCall.bits, SkHashed, d),
          r = CounterMode(skCall.N, d), Zenon DEF SkCalled
<1>3. G = UBI(N, ConfiguredChain(N, bits, key), M, "MSG")
  BY ONLY <1>1, Zenon DEF SkHashed, SkChain
<1>4. N \in Nat /\ N >= 32
  BY <1>2, SizeIs
<1>5. PICK byteCnt \in Nat : byteCnt = (bits + 7) \div 8
  BY <1>2
<1>6. PICK blocks \in Nat : blocks = (byteCnt + N - 1) \div N
  <2>1. byteCnt + N - 1 \in Nat /\ N \in Nat \ {0}
    BY <1>4
  <2> QED
    BY <2>1, Division
<1>7. r.hashVal = Outs(N, G, byteCnt, blocks) /\ Holds(N, bits, G, r.ctx)
  <2>1. CounterMode(N, d).hashVal = Outs(N, G, byteCnt, blocks) /\ Holds(N, bits, G, CounterMode(N, d).ctx)
    BY ONLY <1>2, <1>4, <1>5, <1>6, CounterModeIs
  <2> QED
    BY ONLY <1>2, <2>1, Zenon
<1>8. SkeinHash(N, bits, key, M) = Outs(N, G, byteCnt, blocks)
  BY ONLY <1>2, <1>3, <1>4, <1>5, <1>6, DigestIs
<1>9. Used(N, r.ctx)
  BY ONLY <1>7, UsedWhenHeld
<1> QED
  BY ONLY <1>1, <1>7, <1>8, <1>9, Zenon

(* The output of _Final and _Output keeps the invariant.                   *)
LEMMA DoneInvariant ==
  ASSUME SkInv, SkCalled, NEW r, Used(skCall.N, r.ctx),
         r.hashVal = SkeinHash(skCall.N, skCall.bits, Key(skCall.key), Message(0, skFed)),
         skCtx' = r.ctx, skOut' = r.hashVal, skPhase' = "done", skCall' = skCall, skFed' = skFed
  PROVE  SkInv'
<1>1. SkDone' /\ SkCalled'
  BY Zenon DEF SkDone, SkCalled
<1>2. skFed' \in Nat
  BY DEF SkInv
<1> QED
  BY ONLY <1>1, <1>2, skPhase' = "done" DEF SkInv

(* _Final keeps the invariant.                                             *)
LEMMA FinalInvariant ==
  ASSUME SkInv, CallFinal
  PROVE  SkInv'
<1>1. PICK r : /\ r = HashFinal(skCall.N, skCtx) /\ skCtx' = r.ctx /\ skOut' = r.hashVal
               /\ skPhase = "absorbing" /\ skPhase' = "done" /\ skCall' = skCall /\ skFed' = skFed
  BY DEF CallFinal
<1>2. SkCalled
  BY ONLY <1>1, SkInv DEF SkInv
<1>3. PICK d : d = PadAndCompress(skCall.N, skCtx)
  OBVIOUS
<1>4. r = CounterMode(skCall.N, d)
  BY ONLY <1>1, <1>2, <1>3, ForBlockSize, Zenon DEF SkCalled, FinalAs
<1>5. SkHashed \in Seq(Compression) /\ Holds(skCall.N, skCall.bits, SkHashed, d)
  BY ONLY <1>1, <1>3, SkInv, FinishedIs
<1>6. /\ Used(skCall.N, r.ctx)
      /\ r.hashVal = SkeinHash(skCall.N, skCall.bits, Key(skCall.key), Message(0, skFed))
  BY ONLY <1>2, <1>4, <1>5, OutputIs
<1> QED
  BY ONLY <1>1, <1>2, <1>6, SkInv, DoneInvariant

(* _Final_Pad keeps the invariant.                                         *)
LEMMA FinalPadInvariant ==
  ASSUME SkInv, CallFinalPad
  PROVE  SkInv'
<1>1. PICK r : /\ r = HashFinalPad(skCall.N, skCtx) /\ skCtx' = r.ctx
               /\ skPhase = "absorbing" /\ skPhase' = "padded" /\ skCall' = skCall /\ skFed' = skFed
  BY DEF CallFinalPad
<1>2. SkCalled /\ skFed \in Nat
  BY ONLY <1>1, SkInv DEF SkInv
<1>3. PICK d : d = PadAndCompress(skCall.N, skCtx)
  OBVIOUS
<1>4. skCtx' = d
  <2>1. r = FinalPadAs(skCall.N, skCtx)
    BY ONLY <1>1, <1>2, ForBlockSize, Zenon DEF SkCalled
  <2>2. FinalPadAs(skCall.N, skCtx).ctx = PadAndCompress(skCall.N, skCtx)
    BY ONLY DEF FinalPadAs
  <2> QED
    BY ONLY <1>1, <1>3, <2>1, <2>2, Zenon
<1>5. SkHashed \in Seq(Compression) /\ Holds(skCall.N, skCall.bits, SkHashed, d)
  BY ONLY <1>1, <1>3, SkInv, FinishedIs
<1>6. SkHashed' = SkHashed
  BY ONLY <1>1, Zenon DEF SkHashed, SkChain
<1>7. SkPadded' /\ SkCalled'
  BY ONLY <1>1, <1>2, <1>4, <1>5, <1>6, Zenon DEF SkPadded, SkCalled
<1>8. skFed' \in Nat
  BY ONLY <1>1, <1>2
<1> QED
  BY ONLY <1>1, <1>7, <1>8 DEF SkInv

(* _Output keeps the invariant.                                            *)
LEMMA OutputInvariant ==
  ASSUME SkInv, CallOutput
  PROVE  SkInv'
<1>1. PICK r : /\ r = HashOutput(skCall.N, skCtx) /\ skCtx' = r.ctx /\ skOut' = r.hashVal
               /\ skPhase = "padded" /\ skPhase' = "done" /\ skCall' = skCall /\ skFed' = skFed
  BY DEF CallOutput
<1>2. SkCalled /\ SkHashed \in Seq(Compression) /\ Holds(skCall.N, skCall.bits, SkHashed, skCtx)
  BY ONLY <1>1, SkInv DEF SkInv, SkPadded
<1>3. r = CounterMode(skCall.N, skCtx)
  BY ONLY <1>1, <1>2, ForBlockSize, Zenon DEF SkCalled
<1>4. /\ Used(skCall.N, r.ctx)
      /\ r.hashVal = SkeinHash(skCall.N, skCall.bits, Key(skCall.key), Message(0, skFed))
  BY ONLY <1>2, <1>3, OutputIs
<1> QED
  BY ONLY <1>1, <1>2, <1>4, SkInv, DoneInvariant

(* The invariant holds for every output length, key length and cut of the  *)
(* message, and for messages of any length (Skein_xxx_Init to _Output of   *)
(* skein.cpp).                                                             *)
THEOREM SkeinInvariant == SkSpec => []SkInv
<1>1. SkInit => SkInv
  BY DEF SkInit, SkInv
<1>2. SkInv /\ [SkNext]_skVars => SkInv'
  <2> SUFFICES ASSUME SkInv, [SkNext]_skVars PROVE SkInv'
    OBVIOUS
  <2>1. ASSUME NEW N \in DOMAIN HashBits, NEW bits \in HashBits[N], CallInit(N, bits) PROVE SkInv'
    BY ONLY <2>1, SkInv, InitInvariant
  <2>2. ASSUME NEW N \in DOMAIN HashBits, NEW bits \in HashBits[N], NEW k \in KeyBytes,
               CallInitExt(N, bits, k)
        PROVE  SkInv'
    BY ONLY <2>2, SkInv, InitExtInvariant
  <2>3. ASSUME NEW n \in ChunkBytes, CallUpdate(n) PROVE SkInv'
    BY ONLY <2>3, SkInv, UpdateInvariant
  <2>4. CASE CallFinal
    BY ONLY <2>4, SkInv, FinalInvariant
  <2>5. CASE CallFinalPad
    BY ONLY <2>5, SkInv, FinalPadInvariant
  <2>6. CASE CallOutput
    BY ONLY <2>6, SkInv, OutputInvariant
  <2>7. CASE UNCHANGED skVars
    BY <2>7 DEF SkInv, SkCalled, SkAbsorbing, SkPadded, SkDone, SkChain, SkHashed, skVars
  <2> QED
    BY ONLY <2>1, <2>2, <2>3, <2>4, <2>5, <2>6, <2>7, [SkNext]_skVars DEF SkNext
<1> QED
  BY ONLY <1>1, <1>2, PTL DEF SkSpec

(* StreamIsUBI: between two calls of Update the context is UBI of what was *)
(* given but for the last block, which waits in b[].                       *)
THEOREM StreamIsUBIHolds == SkSpec => []StreamIsUBI
<1>1. SkInv => StreamIsUBI
  <2> SUFFICES ASSUME SkInv, skPhase = "absorbing"
               PROVE  Agrees(skCall.N, SkChain, skFed, skCtx)
    BY Zenon DEF StreamIsUBI, Agrees, Kept, SkChain
  <2>1. skFed \in Nat /\ SkCalled /\ SkAbsorbing
    BY ONLY SkInv, skPhase = "absorbing" DEF SkInv
  <2>2. skCall.N \in Nat \ {0}
    BY <2>1, SizeIs DEF SkCalled
  <2>3. SkChain \in Seq(Compression)
        /\ Streams(skCall.N, SkChain, "MSG", MessageBytes, skCall.bits, skFed, skCtx)
    BY ONLY <2>1 DEF SkAbsorbing
  <2> QED
    BY ONLY <2>1, <2>2, <2>3, StreamAgrees
<1> QED
  BY ONLY <1>1, SkeinInvariant, PTL

(* DigestIsSkein: Final, and Final_Pad followed by Output, give the Skein  *)
(* hash of the whole message.                                              *)
THEOREM DigestIsSkeinHolds == SkSpec => []DigestIsSkein
<1>1. SkInv => DigestIsSkein
  BY ONLY Zenon DEF SkInv, SkDone, DigestIsSkein
<1> QED
  BY ONLY <1>1, SkeinInvariant, PTL

-----------------------------------------------------------------------------
(* A round.                                                                *)

(* An array of n words.                                                    *)
Array(n) == [0..n - 1 -> Word64]

(* The pairs of a round: every word is in one pair.                        *)
Pairs(order, n, m) ==
  /\ order \in [1..n -> 0..n - 1] /\ n = 2 * m
  /\ \A i, j \in 1..n : order[i] = order[j] => i = j

(* One mixing.                                                             *)
MixPair(x, p, q, r) ==
  [x EXCEPT ![p] = Add64(x[p], x[q]), ![q] = Xor64(RotL64(x[q], r), Add64(x[p], x[q]))]

(* y is x with words p and q mixed.                                        *)
OnePair(y, x, p, q, r, n) ==
  /\ y \in Array(n)
  /\ y[p] = Add64(x[p], x[q])
  /\ y[q] = Xor64(RotL64(x[q], r), Add64(x[p], x[q]))
  /\ \A i \in 0..n - 1 : i # p /\ i # q => y[i] = x[i]

(* Mixing does that.                                                       *)
LEMMA MixPairIs ==
  ASSUME NEW n \in Nat, NEW x \in Array(n), NEW p \in 0..n - 1, NEW q \in 0..n - 1, p # q,
         NEW r \in Nat
  PROVE  OnePair(MixPair(x, p, q, r), x, p, q, r, n)
<1>1. PICK s \in Word64, t \in Word64 :
        s = Add64(x[p], x[q]) /\ t = Xor64(RotL64(x[q], r), s)
  <2>1. x[p] \in Word64 /\ x[q] \in Word64
    BY DEF Array
  <2> QED
    BY <2>1, AddCounts, WordsStay
<1>2. MixPair(x, p, q, r) = [x EXCEPT ![p] = s, ![q] = t]
  BY <1>1 DEF MixPair
<1> QED
  BY <1>1, <1>2 DEF Array, OnePair

(* What a round makes of X: each pair is mixed.                            *)
Mixed(Y, X, order, rot, m) ==
  \A j \in 1..m :
     /\ Y[order[2 * j - 1]] = Add64(X[order[2 * j - 1]], X[order[2 * j]])
     /\ Y[order[2 * j]] = Xor64(RotL64(X[order[2 * j]], rot[j]),
                                Add64(X[order[2 * j - 1]], X[order[2 * j]]))

(* From k on the words are those of X.                                     *)
Untouched(x, X, order, k, n) == \A i \in k..n : x[order[i]] = X[order[i]]

(* A pair mixed behind those before it.                                    *)
LEMMA OneMorePair ==
  ASSUME NEW n \in Nat, NEW m \in Nat, NEW order, Pairs(order, n, m),
         NEW rot \in [1..m -> Nat], NEW X \in Array(n), NEW x \in Array(n),
         NEW j \in 1..m, Mixed(x, X, order, rot, j - 1),
         Untouched(x, X, order, 2 * j - 1, n)
  PROVE  /\ MixPair(x, order[2 * j - 1], order[2 * j], rot[j]) \in Array(n)
         /\ Mixed(MixPair(x, order[2 * j - 1], order[2 * j], rot[j]), X, order, rot, j)
         /\ Untouched(MixPair(x, order[2 * j - 1], order[2 * j], rot[j]), X, order, 2 * j + 1, n)
<1>1. /\ order \in [1..n -> 0..n - 1] /\ n = 2 * m
      /\ \A i, k \in 1..n : order[i] = order[k] => i = k
  BY DEF Pairs
<1>2. 2 * j - 1 \in 1..n /\ 2 * j \in 1..n /\ 2 * j - 1 # 2 * j
  BY <1>1
<1>3. PICK a \in 1..n, b \in 1..n : a = 2 * j - 1 /\ b = 2 * j /\ a # b
  BY <1>2
<1>4. PICK p \in 0..n - 1, q \in 0..n - 1 : p = order[a] /\ q = order[b] /\ p # q
  <2>1. order[a] \in 0..n - 1 /\ order[b] \in 0..n - 1
    BY <1>1
  <2>2. order[a] # order[b]
    BY <1>1, <1>3
  <2> QED
    BY <2>1, <2>2
<1>5. PICK y : y = MixPair(x, p, q, rot[j])
  OBVIOUS
<1>6. /\ y \in Array(n)
      /\ y[p] = Add64(x[p], x[q]) /\ y[q] = Xor64(RotL64(x[q], rot[j]), Add64(x[p], x[q]))
      /\ \A i \in 0..n - 1 : i # p /\ i # q => y[i] = x[i]
  <2>1. PICK r \in Nat : r = rot[j]
    OBVIOUS
  <2>2. y = MixPair(x, p, q, r)
    BY <1>5, <2>1
  <2>3. OnePair(MixPair(x, p, q, r), x, p, q, r, n)
    BY <1>4, MixPairIs
  <2> QED
    BY <2>1, <2>2, <2>3 DEF OnePair
<1>7. \A i \in 1..n : i # a /\ i # b => y[order[i]] = x[order[i]]
  BY <1>1, <1>3, <1>4, <1>6
<1>8. x[p] = X[p] /\ x[q] = X[q]
  <2>1. a \in 2 * j - 1..n /\ b \in 2 * j - 1..n
    BY <1>3
  <2> QED
    BY <1>4, <2>1 DEF Untouched
<1>9. Mixed(y, X, order, rot, j)
  <2>1. ASSUME NEW k \in 1..j
        PROVE  /\ y[order[2 * k - 1]] = Add64(X[order[2 * k - 1]], X[order[2 * k]])
               /\ y[order[2 * k]] = Xor64(RotL64(X[order[2 * k]], rot[k]),
                                          Add64(X[order[2 * k - 1]], X[order[2 * k]]))
    <3>1. CASE k = j
      BY <1>3, <1>4, <1>6, <1>8, <3>1
    <3>2. CASE k # j
      <4>1. k \in 1..j - 1
        BY <3>2
      <4>2. PICK c \in 1..n, d \in 1..n : c = 2 * k - 1 /\ d = 2 * k /\ c # a /\ c # b /\ d # a /\ d # b
        <5>1. 2 * k - 1 \in 1..n /\ 2 * k \in 1..n /\ 2 * k < 2 * j - 1
          BY <1>1, <4>1
        <5> QED
          BY <1>3, <5>1
      <4>3. y[order[c]] = x[order[c]] /\ y[order[d]] = x[order[d]]
        BY <1>7, <4>2
      <4>4. /\ x[order[c]] = Add64(X[order[c]], X[order[d]])
            /\ x[order[d]] = Xor64(RotL64(X[order[d]], rot[k]), Add64(X[order[c]], X[order[d]]))
        BY <4>1, <4>2 DEF Mixed
      <4> QED
        BY <4>2, <4>3, <4>4
    <3> QED
      BY <3>1, <3>2
  <2> QED
    BY <2>1 DEF Mixed
<1>10. Untouched(y, X, order, 2 * j + 1, n)
  <2>1. ASSUME NEW i \in 2 * j + 1..n PROVE y[order[i]] = X[order[i]]
    <3>1. i \in 1..n /\ i # a /\ i # b /\ i \in 2 * j - 1..n
      BY <1>3
    <3>2. x[order[i]] = X[order[i]]
      BY <3>1 DEF Untouched
    <3> QED
      BY <1>7, <3>1, <3>2
  <2> QED
    BY <2>1 DEF Untouched
<1>11. y = MixPair(x, order[2 * j - 1], order[2 * j], rot[j])
  BY <1>3, <1>4, <1>5
<1> QED
  BY <1>6, <1>9, <1>10, <1>11

(* MixRound mixes every pair.                                              *)
LEMMA MixRoundIs ==
  ASSUME NEW n \in Nat, NEW m \in Nat, NEW order, Pairs(order, n, m),
         NEW rot \in [1..m -> Nat], NEW X \in Array(n)
  PROVE  MixRound(X, order, rot) \in Array(n) /\ Mixed(MixRound(X, order, rot), X, order, rot, m)
<1> DEFINE F == CHOOSE f : f = [j \in 0..m |->
                  IF j = 0 THEN X ELSE MixPair(f[j - 1], order[2 * j - 1], order[2 * j], rot[j])]
           step == [j \in Nat |-> [x \in Array(n) |->
                      IF j \in 1..m THEN MixPair(x, order[2 * j - 1], order[2 * j], rot[j]) ELSE x]]
<1>1. MixRound(X, order, rot) = F[m]
  <2>1. Len(rot) = m
    OBVIOUS
  <2> QED
    BY <2>1 DEF MixRound, MixPair
<1>2. /\ order \in [1..n -> 0..n - 1] /\ n = 2 * m
      /\ \A i, k \in 1..n : order[i] = order[k] => i = k
  BY DEF Pairs
<1>3. \A j \in 1..m : /\ 2 * j - 1 \in 1..n /\ 2 * j \in 1..n /\ 2 * j - 1 # 2 * j
                      /\ order[2 * j - 1] # order[2 * j]
  BY <1>2
<1>4. step \in [Nat -> [Array(n) -> Array(n)]]
  <2>1. ASSUME NEW j \in Nat, NEW x \in Array(n)
        PROVE  (IF j \in 1..m THEN MixPair(x, order[2 * j - 1], order[2 * j], rot[j]) ELSE x)
                 \in Array(n)
    <3>1. CASE j \in 1..m
      <4>1. PICK p \in 0..n - 1, q \in 0..n - 1, r \in Nat :
              p = order[2 * j - 1] /\ q = order[2 * j] /\ p # q /\ r = rot[j]
        <5>1. PICK a \in 1..n, b \in 1..n : a = 2 * j - 1 /\ b = 2 * j /\ order[a] # order[b]
          BY <1>3, <3>1
        <5>2. order[a] \in 0..n - 1 /\ order[b] \in 0..n - 1 /\ rot[j] \in Nat
          BY <1>2, <3>1
        <5> QED
          BY <5>1, <5>2
      <4>2. MixPair(x, p, q, r) \in Array(n)
        BY <4>1, MixPairIs DEF OnePair
      <4> QED
        BY <3>1, <4>1, <4>2
    <3>2. CASE j \notin 1..m
      BY <3>2
    <3> QED
      BY <3>1, <3>2
  <2> QED
    BY <2>1
<1>5. \A j \in 1..m, x \in Array(n) :
         j \in Nat /\ step[j][x] = MixPair(x, order[2 * j - 1], order[2 * j], rot[j])
  OBVIOUS
<1> HIDE DEF step
<1>6. PICK f : Iterates(f, Array(n), X, step, m)
  BY <1>4, RecursionUpTo
<1>7. /\ f \in [0..m -> Array(n)] /\ f[0] = X
      /\ \A j \in 1..m : f[j] = MixPair(f[j - 1], order[2 * j - 1], order[2 * j], rot[j])
  <2>1. f \in [0..m -> Array(n)] /\ f[0] = X /\ \A j \in 1..m : f[j] = step[j][f[j - 1]]
    BY <1>6 DEF Iterates
  <2>2. \A j \in 1..m : f[j - 1] \in Array(n)
    <3>1. \A j \in 1..m : j - 1 \in 0..m
      OBVIOUS
    <3> QED
      BY <2>1, <3>1
  <2> QED
    BY <1>5, <2>1, <2>2
<1>8. f = [j \in 0..m |->
             IF j = 0 THEN X ELSE MixPair(f[j - 1], order[2 * j - 1], order[2 * j], rot[j])]
  BY <1>7
<1>9. F = [j \in 0..m |->
             IF j = 0 THEN X ELSE MixPair(F[j - 1], order[2 * j - 1], order[2 * j], rot[j])]
  BY <1>8
<1> HIDE DEF F
<1>10. F = [j \in 0..m |-> F[j]] /\ F[0] = X
       /\ \A j \in 1..m : F[j] = MixPair(F[j - 1], order[2 * j - 1], order[2 * j], rot[j])
  <2>1. ASSUME NEW j \in 1..m
        PROVE  F[j] = MixPair(F[j - 1], order[2 * j - 1], order[2 * j], rot[j])
    <3>1. j \in 0..m /\ j # 0
      OBVIOUS
    <3> QED
      BY <1>9, <3>1
  <2> QED
    BY <1>9, <2>1
<1>11. Takes(F, Array(n), X, step, m)
  BY <1>5, <1>10 DEF Takes
<1>12. F \in [0..m -> Array(n)]
  BY <1>4, <1>11, StepsAre DEF Iterates
<1> DEFINE P == {j \in 0..m : /\ Mixed(F[j], X, order, rot, j)
                              /\ Untouched(F[j], X, order, 2 * j + 1, n)}
<1>13. P = 0..m
  <2>1. 0 \in P
    <3>1. Mixed(F[0], X, order, rot, 0)
      BY DEF Mixed
    <3> QED
      BY <1>10, <3>1 DEF Untouched
  <2>2. ASSUME NEW j \in 1..m, j - 1 \in P PROVE j \in P
    <3>1. PICK x \in Array(n) : x = F[j - 1]
      <4>1. j - 1 \in 0..m
        OBVIOUS
      <4> QED
        BY <1>12, <4>1
    <3>2. Mixed(x, X, order, rot, j - 1) /\ Untouched(x, X, order, 2 * j - 1, n)
      <4>1. 2 * (j - 1) + 1 = 2 * j - 1
        OBVIOUS
      <4> QED
        BY <2>2, <3>1, <4>1
    <3>3. /\ Mixed(MixPair(x, order[2 * j - 1], order[2 * j], rot[j]), X, order, rot, j)
          /\ Untouched(MixPair(x, order[2 * j - 1], order[2 * j], rot[j]), X, order, 2 * j + 1, n)
      BY <3>2, OneMorePair
    <3>4. F[j] = MixPair(x, order[2 * j - 1], order[2 * j], rot[j])
      BY <1>10, <3>1
    <3> QED
      BY <3>3, <3>4
  <2>3. P \in SUBSET (0..m)
    OBVIOUS
  <2> HIDE DEF P
  <2> QED
    BY <2>1, <2>2, <2>3, InductUpTo
<1>14. m \in 0..m
  OBVIOUS
<1> QED
  BY <1>1, <1>12, <1>13, <1>14

(* The orders of the four rounds: each pairs all words, and together they  *)
(* walk through the powers of the permutation, back to where it began.     *)
Routes(order, n, m) ==
  /\ Permutation(n) \in [1..n -> 0..n - 1]
  /\ \A e \in 1..4 : Pairs(order[e], n, m)
  /\ \A e \in 1..4, i \in 0..n - 1 : order[e][i + 1] = Place(n, e - 1)[i]
  /\ \A e \in 0..3, i \in 0..n - 1 : Place(n, e + 1)[i] = Place(n, e)[Permutation(n)[i + 1]]

(* One order after the other. *)
LEMMA RoutesBy ==
  ASSUME NEW n \in Nat, NEW m \in Nat, NEW order,
         \A e \in 1..4 : Pairs(order[e], n, m),
         Permutation(n) \in [1..n -> 0..n - 1],
         \A i \in 0..n - 1 : order[1][i + 1] = i,
         \A i \in 0..n - 1 : order[2][i + 1] = Permutation(n)[i + 1],
         \A i \in 0..n - 1 : order[3][i + 1] = Permutation(n)[Permutation(n)[i + 1] + 1],
         \A i \in 0..n - 1 : order[4][i + 1] =
            Permutation(n)[Permutation(n)[Permutation(n)[i + 1] + 1] + 1],
         \A i \in 0..n - 1 :
            Permutation(n)[Permutation(n)[Permutation(n)[Permutation(n)[i + 1] + 1] + 1] + 1] = i
  PROVE  Routes(order, n, m)
<1> DEFINE from(i) == Permutation(n)[i + 1]
<1>1. \A i \in 0..n - 1 : from(i) \in 0..n - 1
  OBVIOUS
<1>f. \A i \in 0..n - 1 : from(from(from(from(i)))) = i
  OBVIOUS
<1>2. \A d \in Nat : \A i \in 0..n - 1 :
         /\ d % 4 = 0 => Place(n, d)[i] = i
         /\ d % 4 = 1 => Place(n, d)[i] = from(i)
         /\ d % 4 = 2 => Place(n, d)[i] = from(from(i))
         /\ d % 4 = 3 => Place(n, d)[i] = from(from(from(i)))
  <2>1. ASSUME NEW d \in Nat, NEW i \in 0..n - 1
        PROVE  Place(n, d)[i] = CASE d % 4 = 0 -> i [] d % 4 = 1 -> from(i)
                                  [] d % 4 = 2 -> from(from(i)) [] d % 4 = 3 -> from(from(from(i)))
    BY DEF Place
  <2> HIDE DEF from
  <2> QED
    BY <2>1
<1>3. \A i \in 0..n - 1 : /\ Place(n, 0)[i] = i /\ Place(n, 1)[i] = from(i)
                          /\ Place(n, 2)[i] = from(from(i)) /\ Place(n, 3)[i] = from(from(from(i)))
                          /\ Place(n, 4)[i] = i
  <2>1. ASSUME NEW i \in 0..n - 1
        PROVE  /\ Place(n, 0)[i] = i /\ Place(n, 1)[i] = from(i)
               /\ Place(n, 2)[i] = from(from(i)) /\ Place(n, 3)[i] = from(from(from(i)))
               /\ Place(n, 4)[i] = i
    <3>1. 0 % 4 = 0 /\ 1 % 4 = 1 /\ 2 % 4 = 2 /\ 3 % 4 = 3 /\ 4 % 4 = 0
      OBVIOUS
    <3> HIDE DEF from
    <3> QED
      BY <1>2, <3>1
  <2> QED
    BY <2>1
<1>4. \A e \in 1..4, i \in 0..n - 1 : order[e][i + 1] = Place(n, e - 1)[i]
  <2>1. ASSUME NEW e \in 1..4, NEW i \in 0..n - 1 PROVE order[e][i + 1] = Place(n, e - 1)[i]
    <3>1. CASE e = 1
      BY <1>3, <3>1
    <3>2. CASE e = 2
      BY <1>3, <3>2
    <3>3. CASE e = 3
      BY <1>3, <3>3
    <3>4. CASE e = 4
      BY <1>3, <3>4
    <3> QED
      BY <3>1, <3>2, <3>3, <3>4
  <2> QED
    BY <2>1
<1>5. \A e \in 0..3, i \in 0..n - 1 : Place(n, e + 1)[i] = Place(n, e)[Permutation(n)[i + 1]]
  <2>1. ASSUME NEW e \in 0..3, NEW i \in 0..n - 1 PROVE Place(n, e + 1)[i] = Place(n, e)[from(i)]
    <3>1. from(i) \in 0..n - 1
      BY <1>1
    <3> HIDE DEF from
    <3>2. CASE e = 0
      <4>1. e + 1 = 1
        BY <3>2
      <4> QED
        BY <1>3, <3>1, <3>2, <4>1
    <3>3. CASE e = 1
      <4>1. e + 1 = 2
        BY <3>3
      <4> QED
        BY <1>3, <3>1, <3>3, <4>1
    <3>4. CASE e = 2
      <4>1. e + 1 = 3
        BY <3>4
      <4> QED
        BY <1>3, <3>1, <3>4, <4>1
    <3>5. CASE e = 3
      <4>1. Place(n, e + 1)[i] = i
        <5>1. e + 1 = 4
          BY <3>5
        <5> QED
          BY ONLY <1>3, <5>1, i \in 0..n - 1
      <4>2. Place(n, e)[from(i)] = from(from(from(from(i))))
        BY ONLY <1>3, <3>1, <3>5
      <4> QED
        BY ONLY <1>f, <4>1, <4>2, i \in 0..n - 1
    <3> QED
      BY <3>2, <3>3, <3>4, <3>5
  <2> QED
    BY <2>1
<1> QED
  BY <1>4, <1>5 DEF Routes

(* The three functions' tables of orders.                                  *)
LEMMA Routes256 == Routes(R256_8_rounds, 4, 2)
<1>1. /\ Permutation(4) \in [1..4 -> 0..4 - 1]
      /\ \A e \in 1..4 : Pairs(R256_8_rounds[e], 4, 2)
  BY DEF Pairs, R256_8_rounds, Permutation
<1>2. /\ \A i \in 0..4 - 1 : R256_8_rounds[1][i + 1] = i
      /\ \A i \in 0..4 - 1 : R256_8_rounds[2][i + 1] = Permutation(4)[i + 1]
      /\ \A i \in 0..4 - 1 : R256_8_rounds[3][i + 1] = Permutation(4)[Permutation(4)[i + 1] + 1]
      /\ \A i \in 0..4 - 1 : R256_8_rounds[4][i + 1] =
            Permutation(4)[Permutation(4)[Permutation(4)[i + 1] + 1] + 1]
      /\ \A i \in 0..4 - 1 :
            Permutation(4)[Permutation(4)[Permutation(4)[Permutation(4)[i + 1] + 1] + 1] + 1] = i
  BY DEF R256_8_rounds, Permutation
<1>3. 4 \in Nat /\ 2 \in Nat
  OBVIOUS
<1> QED
  BY <1>1, <1>2, <1>3, RoutesBy

(* Eight words.                                                            *)
LEMMA Routes512 == Routes(R512_8_rounds, 8, 4)
<1>1. /\ Permutation(8) \in [1..8 -> 0..8 - 1]
      /\ \A e \in 1..4 : Pairs(R512_8_rounds[e], 8, 4)
  BY DEF Pairs, R512_8_rounds, Permutation
<1>2. /\ \A i \in 0..8 - 1 : R512_8_rounds[1][i + 1] = i
      /\ \A i \in 0..8 - 1 : R512_8_rounds[2][i + 1] = Permutation(8)[i + 1]
      /\ \A i \in 0..8 - 1 : R512_8_rounds[3][i + 1] = Permutation(8)[Permutation(8)[i + 1] + 1]
      /\ \A i \in 0..8 - 1 : R512_8_rounds[4][i + 1] =
            Permutation(8)[Permutation(8)[Permutation(8)[i + 1] + 1] + 1]
      /\ \A i \in 0..8 - 1 :
            Permutation(8)[Permutation(8)[Permutation(8)[Permutation(8)[i + 1] + 1] + 1] + 1] = i
  BY DEF R512_8_rounds, Permutation
<1>3. 8 \in Nat /\ 4 \in Nat
  OBVIOUS
<1> QED
  BY <1>1, <1>2, <1>3, RoutesBy

(* Sixteen words.                                                          *)
LEMMA Routes1024 == Routes(R1024_8_rounds, 16, 8)
<1>1. /\ Permutation(16) \in [1..16 -> 0..16 - 1]
      /\ \A e \in 1..4 : Pairs(R1024_8_rounds[e], 16, 8)
  <2>1. /\ Pairs(R1024_8_rounds[1], 16, 8) /\ Pairs(R1024_8_rounds[2], 16, 8)
        /\ Pairs(R1024_8_rounds[3], 16, 8) /\ Pairs(R1024_8_rounds[4], 16, 8)
    BY DEF Pairs, R1024_8_rounds
  <2>2. Permutation(16) \in [1..16 -> 0..16 - 1]
    BY DEF Permutation
  <2> QED
    BY <2>1, <2>2
<1>2. /\ \A i \in 0..16 - 1 : R1024_8_rounds[1][i + 1] = i
      /\ \A i \in 0..16 - 1 : R1024_8_rounds[2][i + 1] = Permutation(16)[i + 1]
  BY DEF R1024_8_rounds, Permutation
<1>3. \A i \in 0..16 - 1 : R1024_8_rounds[3][i + 1] = Permutation(16)[Permutation(16)[i + 1] + 1]
  BY DEF R1024_8_rounds, Permutation
<1>4. \A i \in 0..16 - 1 : R1024_8_rounds[4][i + 1] =
         Permutation(16)[Permutation(16)[Permutation(16)[i + 1] + 1] + 1]
  BY DEF R1024_8_rounds, Permutation
<1>5. \A i \in 0..16 - 1 :
         Permutation(16)[Permutation(16)[Permutation(16)[Permutation(16)[i + 1] + 1] + 1] + 1] = i
  BY DEF Permutation
<1>6. 16 \in Nat /\ 8 \in Nat
  OBVIOUS
<1> QED
  BY <1>1, <1>2, <1>3, <1>4, <1>5, <1>6, RoutesBy

(* Place depends on the round modulo four only.                            *)
LEMMA PlacesRepeat ==
  ASSUME NEW n, NEW d \in Nat, NEW e \in Nat, d % 4 = e % 4
  PROVE  Place(n, d) = Place(n, e)
BY DEF Place

(* Y is X, after d rounds, with one more round done. *)
IsRound(Y, X, rot, d, n) ==
  /\ Y \in Array(n)
  /\ Cipher(Y, n, d + 1) = ThreefishRound(Cipher(X, n, d), n, rot)

(* A round in place is a round of Threefish.                               *)
LEMMA RoundIs ==
  ASSUME NEW n \in Nat, NEW m \in Nat, NEW orders, Routes(orders, n, m),
         NEW rot \in [1..m -> Nat], NEW X \in Array(n), NEW d \in Nat
  PROVE  IsRound(MixRound(X, orders[(d % 4) + 1], rot), X, rot, d, n)
<1>1. PICK e \in 0..3 : e = d % 4
  OBVIOUS
<1>2. PICK order : order = orders[e + 1]
  OBVIOUS
<1>3. /\ Permutation(n) \in [1..n -> 0..n - 1]
      /\ Pairs(order, n, m)
      /\ \A i \in 0..n - 1 : order[i + 1] = Place(n, e)[i]
      /\ \A i \in 0..n - 1 : Place(n, e + 1)[i] = Place(n, e)[Permutation(n)[i + 1]]
  <2>1. e + 1 \in 1..4 /\ (e + 1) - 1 = e
    OBVIOUS
  <2> QED
    BY <1>2, <2>1 DEF Routes
<1>4. Place(n, d) = Place(n, e) /\ Place(n, d + 1) = Place(n, e + 1)
  <2>1. d % 4 = e % 4 /\ (d + 1) % 4 = (e + 1) % 4
    BY <1>1
  <2>2. d \in Nat /\ e \in Nat /\ d + 1 \in Nat /\ e + 1 \in Nat
    OBVIOUS
  <2> QED
    BY <2>1, <2>2, PlacesRepeat
<1>5. PICK Y : Y = MixRound(X, order, rot) /\ Y \in Array(n) /\ Mixed(Y, X, order, rot, m)
  BY <1>3, MixRoundIs
<1>6. order \in [1..n -> 0..n - 1] /\ n = 2 * m
  BY <1>3 DEF Pairs
<1>7. PICK v : v = Cipher(X, n, d) /\ v \in Array(n) /\ \A i \in 0..n - 1 : v[i] = X[order[i + 1]]
  <2>1. \A i \in 0..n - 1 : i + 1 \in 1..n /\ order[i + 1] \in 0..n - 1
    BY <1>6
  <2>2. Cipher(X, n, d) = [i \in 0..n - 1 |-> X[order[i + 1]]]
    BY <1>3, <1>4 DEF Cipher
  <2>3. \A i \in 0..n - 1 : X[order[i + 1]] \in Word64
    BY <2>1 DEF Array
  <2> QED
    BY <2>2, <2>3 DEF Array
<1> DEFINE mixed == [i \in 0..n - 1 |->
              IF i % 2 = 0 THEN Add64(v[i], v[i + 1])
              ELSE Xor64(RotL64(v[i], rot[(i + 1) \div 2]), Add64(v[i - 1], v[i]))]
<1>8. ASSUME NEW k \in 0..n - 1 PROVE Y[order[k + 1]] = mixed[k]
  <2>1. CASE k % 2 = 0
    <3>1. PICK j \in 1..m : k = 2 * j - 2 /\ k + 1 = 2 * j - 1 /\ k + 2 = 2 * j /\ k + 1 \in 0..n - 1
      <4>1. (k \div 2) + 1 \in 1..m /\ k = 2 * ((k \div 2) + 1) - 2
        BY <1>6, <2>1
      <4>2. k + 1 \in 0..n - 1
        BY <1>6, <2>1, SMTT(30)
      <4>3. PICK j \in 1..m : k = 2 * j - 2
        BY <4>1
      <4> QED
        BY <4>2, <4>3
    <3>2. Y[order[2 * j - 1]] = Add64(X[order[2 * j - 1]], X[order[2 * j]])
      BY <1>5 DEF Mixed
    <3>3. v[k] = X[order[k + 1]] /\ v[k + 1] = X[order[k + 2]]
      <4>1. (k + 1) + 1 = k + 2
        OBVIOUS
      <4> QED
        BY <1>7, <3>1, <4>1
    <3>4. Y[order[k + 1]] = Add64(v[k], v[k + 1])
      BY <3>1, <3>2, <3>3
    <3> QED
      BY <2>1, <3>4
  <2>2. CASE k % 2 # 0
    <3>1. PICK j \in 1..m : k = 2 * j - 1 /\ k + 1 = 2 * j /\ k - 1 \in 0..n - 1 /\ (k + 1) \div 2 = j
      <4>1. (k + 1) \div 2 \in 1..m /\ k = 2 * ((k + 1) \div 2) - 1 /\ k - 1 \in 0..n - 1
        <5>1. k % 2 = 1 /\ k = 2 * (k \div 2) + 1 /\ k \div 2 \in Nat
          BY <2>2
        <5>2. PICK h \in Nat : k = 2 * h + 1
          BY <5>1
        <5>3. (k + 1) \div 2 = h + 1 /\ h + 1 \in 1..m /\ k = 2 * (h + 1) - 1
          BY <1>6, <5>2
        <5> QED
          BY <5>2, <5>3
      <4>2. PICK j \in 1..m : k = 2 * j - 1 /\ j = (k + 1) \div 2
        BY <4>1
      <4> QED
        BY <4>1, <4>2
    <3>2. Y[order[2 * j]] = Xor64(RotL64(X[order[2 * j]], rot[j]),
                                  Add64(X[order[2 * j - 1]], X[order[2 * j]]))
      BY <1>5 DEF Mixed
    <3>3. v[k] = X[order[k + 1]] /\ v[k - 1] = X[order[k]]
      <4>1. (k - 1) + 1 = k
        OBVIOUS
      <4> QED
        BY <1>7, <3>1, <4>1
    <3>4. Y[order[k + 1]] = Xor64(RotL64(v[k], rot[(k + 1) \div 2]), Add64(v[k - 1], v[k]))
      BY <3>1, <3>2, <3>3
    <3> QED
      BY <2>2, <3>4
  <2> QED
    BY <2>1, <2>2
<1>9. ThreefishRound(v, n, rot) = [i \in 0..n - 1 |-> mixed[Permutation(n)[i + 1]]]
  BY DEF ThreefishRound
<1> HIDE DEF mixed
<1>10. Cipher(Y, n, d + 1) = [i \in 0..n - 1 |-> mixed[Permutation(n)[i + 1]]]
  <2>1. ASSUME NEW i \in 0..n - 1 PROVE Y[Place(n, d + 1)[i]] = mixed[Permutation(n)[i + 1]]
    <3>1. PICK k \in 0..n - 1 : k = Permutation(n)[i + 1]
      BY <1>3
    <3>2. Place(n, d + 1)[i] = order[k + 1]
      BY <1>3, <1>4, <3>1
    <3> QED
      BY <1>8, <3>1, <3>2
  <2> QED
    BY <2>1 DEF Cipher
<1> QED
  BY <1>1, <1>2, <1>5, <1>7, <1>9, <1>10 DEF IsRound

-----------------------------------------------------------------------------
(* The key schedule.                                                       *)

(* The exclusive or of words is a word.                                    *)
LEMMA XorAllType ==
  ASSUME NEW n \in Nat, NEW ws \in [1..n -> Word64]
  PROVE  XorAll(ws) \in Word64
<1> DEFINE F == CHOOSE f : f = [i \in 0..n |-> IF i = 0 THEN {} ELSE Xor64(f[i - 1], ws[i])]
           step == [i \in Nat |-> [s \in Word64 |-> IF i \in 1..n THEN Xor64(s, ws[i]) ELSE s]]
<1>1. XorAll(ws) = F[n]
  <2>1. Len(ws) = n
    OBVIOUS
  <2> QED
    BY <2>1 DEF XorAll
<1>2. step \in [Nat -> [Word64 -> Word64]]
  <2>1. ASSUME NEW i \in Nat, NEW s \in Word64 PROVE (IF i \in 1..n THEN Xor64(s, ws[i]) ELSE s) \in Word64
    <3>1. 0 \in Nat
      OBVIOUS
    <3> QED
      BY <3>1, WordsStay
  <2> QED
    BY <2>1
<1>3. {} \in Word64
  BY DEF Word64
<1>4. \A i \in 1..n, s \in Word64 : i \in Nat /\ step[i][s] = Xor64(s, ws[i])
  OBVIOUS
<1> HIDE DEF step
<1>5. PICK f : Iterates(f, Word64, {}, step, n)
  BY <1>2, <1>3, RecursionUpTo
<1>6. f \in [0..n -> Word64] /\ f[0] = {} /\ \A i \in 1..n : f[i] = Xor64(f[i - 1], ws[i])
  <2>1. f \in [0..n -> Word64] /\ f[0] = {} /\ \A i \in 1..n : f[i] = step[i][f[i - 1]]
    BY <1>5 DEF Iterates
  <2>2. \A i \in 1..n : f[i - 1] \in Word64
    <3>1. \A i \in 1..n : i - 1 \in 0..n
      OBVIOUS
    <3> QED
      BY <2>1, <3>1
  <2> QED
    BY <1>4, <2>1, <2>2
<1>7. f = [i \in 0..n |-> IF i = 0 THEN {} ELSE Xor64(f[i - 1], ws[i])]
  BY <1>6
<1>8. F = [i \in 0..n |-> IF i = 0 THEN {} ELSE Xor64(F[i - 1], ws[i])]
  BY <1>7
<1> HIDE DEF F
<1>9. Takes(F, Word64, {}, step, n)
  <2>1. F = [i \in 0..n |-> F[i]] /\ F[0] = {}
    BY <1>8
  <2>2. ASSUME NEW i \in 1..n, F[i - 1] \in Word64 PROVE F[i] = step[i][F[i - 1]]
    <3>1. i \in 0..n /\ i # 0
      OBVIOUS
    <3>2. F[i] = Xor64(F[i - 1], ws[i])
      BY <1>8, <3>1
    <3> QED
      BY <1>4, <2>2, <3>2
  <2> QED
    BY <2>1, <2>2 DEF Takes
<1>10. Iterates(F, Word64, {}, step, n)
  BY <1>2, <1>3, <1>9, StepsAre
<1>11. n \in 0..n
  OBVIOUS
<1> QED
  BY <1>1, <1>10, <1>11 DEF Iterates

(* The length of a sequence that is given as a function.                   *)
LEMMA FunctionLength ==
  ASSUME NEW S, NEW n \in Nat, NEW s \in [1..n -> S]
  PROVE  s \in Seq(S) /\ Len(s) = n
OBVIOUS

(* What sets the three functions apart, with its types.                    *)
OfShape(c, n, m) ==
  /\ c.size \div 64 = n /\ n = 2 * m /\ m > 0
  /\ Shape(c.size).words = n /\ Shape(c.size).rounds \in {72, 80}
  /\ c.chain \in Seq(Word64) /\ Len(c.chain) = n
  /\ c.chain \in [1..n -> Word64] /\ c.block \in [1..n -> Word64]
  /\ c.T0 \in Word64 /\ c.add \in Word64 /\ c.T1 \in Word64
  /\ Routes(Shape(c.size).order, n, m)
  /\ \A i \in 1..8 : Shape(c.size).rot[i] \in [1..m -> Nat]
  /\ (c.size = 256 /\ n = 4) \/ (c.size = 512 /\ n = 8) \/ (c.size = 1024 /\ n = 16)

(* Every compression has one of the three shapes.                          *)
LEMMA ShapeIs ==
  ASSUME NEW c \in Blocks
  PROVE  \E n \in {4, 8, 16}, m \in Nat : OfShape(c, n, m)
<1>1. /\ c.size \in {256, 512, 1024}
      /\ c.T0 \in Word64 /\ c.add \in Word64 /\ c.T1 \in Word64
      /\ c.chain \in [1..c.size \div 64 -> Word64] /\ c.block \in [1..c.size \div 64 -> Word64]
  BY BlocksAssumption
<1>2. PICK s : s = c.size
  OBVIOUS
<1>3. CASE s = 256
  <2>1. s \div 64 = 4 /\ 4 = 2 * 2 /\ 2 > 0 /\ 2 \in Nat /\ 4 \in Nat
    BY <1>3
  <2>2. Shape(s) = [words |-> 4, rounds |-> 72, order |-> R256_8_rounds, rot |-> R_256]
    BY <1>3 DEF Shape
  <2>3. \A i \in 1..8 : R_256[i] \in [1..2 -> Nat]
    BY DEF R_256
  <2>4. c.chain \in [1..4 -> Word64] /\ c.block \in [1..4 -> Word64]
    BY <1>1, <1>2, <2>1, ZenonT(30)
  <2>5. c.chain \in Seq(Word64) /\ Len(c.chain) = 4
    BY <2>1, <2>4, FunctionLength
  <2>6. /\ Shape(c.size).words = 4 /\ Shape(c.size).rounds = 72
        /\ Shape(c.size).order = R256_8_rounds /\ Shape(c.size).rot = R_256
    BY <1>2, <2>2
  <2>7. OfShape(c, 4, 2)
    <3>1. c.size \div 64 = 4 /\ c.size = 256
      BY <1>2, <1>3, <2>1
    <3>2. Shape(c.size).words = 4 /\ Shape(c.size).rounds \in {72, 80}
      BY <2>6
    <3>3. Routes(Shape(c.size).order, 4, 2)
      BY <2>6, Routes256
    <3>4. \A i \in 1..8 : Shape(c.size).rot[i] \in [1..2 -> Nat]
      BY <2>3, <2>6
    <3>5. (c.size = 256 /\ 4 = 4) \/ (c.size = 512 /\ 4 = 8) \/ (c.size = 1024 /\ 4 = 16)
      BY ONLY <3>1
    <3> QED
      BY ONLY <1>1, <2>1, <2>4, <2>5, <3>1, <3>2, <3>3, <3>4, <3>5, Zenon DEF OfShape
  <2> QED
    BY <2>1, <2>7
<1>4. CASE s = 512
  <2>1. s \div 64 = 8 /\ 8 = 2 * 4 /\ 4 > 0 /\ 4 \in Nat /\ 8 \in Nat
    BY <1>4
  <2>2. Shape(s) = [words |-> 8, rounds |-> 72, order |-> R512_8_rounds, rot |-> R_512]
    BY <1>4 DEF Shape
  <2>3. \A i \in 1..8 : R_512[i] \in [1..4 -> Nat]
    BY DEF R_512
  <2>4. c.chain \in [1..8 -> Word64] /\ c.block \in [1..8 -> Word64]
    BY <1>1, <1>2, <2>1, ZenonT(30)
  <2>5. c.chain \in Seq(Word64) /\ Len(c.chain) = 8
    BY <2>1, <2>4, FunctionLength
  <2>6. /\ Shape(c.size).words = 8 /\ Shape(c.size).rounds = 72
        /\ Shape(c.size).order = R512_8_rounds /\ Shape(c.size).rot = R_512
    BY <1>2, <2>2
  <2>7. OfShape(c, 8, 4)
    <3>1. c.size \div 64 = 8 /\ c.size = 512
      BY <1>2, <1>4, <2>1
    <3>2. Shape(c.size).words = 8 /\ Shape(c.size).rounds \in {72, 80}
      BY <2>6
    <3>3. Routes(Shape(c.size).order, 8, 4)
      BY <2>6, Routes512
    <3>4. \A i \in 1..8 : Shape(c.size).rot[i] \in [1..4 -> Nat]
      BY <2>3, <2>6
    <3>5. (c.size = 256 /\ 8 = 4) \/ (c.size = 512 /\ 8 = 8) \/ (c.size = 1024 /\ 8 = 16)
      BY ONLY <3>1
    <3> QED
      BY ONLY <1>1, <2>1, <2>4, <2>5, <3>1, <3>2, <3>3, <3>4, <3>5, ZenonT(30) DEF OfShape
  <2> QED
    BY <2>1, <2>7
<1>5. CASE s = 1024
  <2>1. s \div 64 = 16 /\ 16 = 2 * 8 /\ 8 > 0 /\ 8 \in Nat /\ 16 \in Nat
    BY <1>5
  <2>2. Shape(s) = [words |-> 16, rounds |-> 80, order |-> R1024_8_rounds, rot |-> R1024]
    BY <1>5 DEF Shape
  <2>3. \A i \in 1..8 : R1024[i] \in [1..8 -> Nat]
    BY DEF R1024
  <2>4. c.chain \in [1..16 -> Word64] /\ c.block \in [1..16 -> Word64]
    BY <1>1, <1>2, <2>1, ZenonT(30)
  <2>5. c.chain \in Seq(Word64) /\ Len(c.chain) = 16
    BY <2>1, <2>4, FunctionLength
  <2>6. /\ Shape(c.size).words = 16 /\ Shape(c.size).rounds = 80
        /\ Shape(c.size).order = R1024_8_rounds /\ Shape(c.size).rot = R1024
    BY <1>2, <2>2
  <2>7. OfShape(c, 16, 8)
    <3>1. c.size \div 64 = 16 /\ c.size = 1024
      BY <1>2, <1>5, <2>1
    <3>2. Shape(c.size).words = 16 /\ Shape(c.size).rounds \in {72, 80}
      BY <2>6
    <3>3. Routes(Shape(c.size).order, 16, 8)
      BY <2>6, Routes1024
    <3>4. \A i \in 1..8 : Shape(c.size).rot[i] \in [1..8 -> Nat]
      BY <2>3, <2>6
    <3>5. (c.size = 256 /\ 16 = 4) \/ (c.size = 512 /\ 16 = 8) \/ (c.size = 1024 /\ 16 = 16)
      BY ONLY <3>1
    <3> QED
      BY ONLY <1>1, <2>1, <2>4, <2>5, <3>1, <3>2, <3>3, <3>4, <3>5, Zenon, ZenonT(30) DEF OfShape
  <2> QED
    BY <2>1, <2>7
<1> QED
  BY <1>1, <1>2, <1>3, <1>4, <1>5

(* The words of a subkey: the key with its parity, the tweak with its own. *)
KeyPart(c) == Append(c.chain, Xor64(XorAll(c.chain), SKEIN_KS_PARITY))
TweakPart(c) == <<Add64(c.T0, c.add), c.T1, Xor64(Add64(c.T0, c.add), c.T1)>>

(* kw[] is made of the two.                                                *)
LEMMA PartsAre ==
  ASSUME NEW c, NEW n \in Nat, c.chain \in [1..n -> Word64],
         c.T0 \in Word64, c.add \in Word64, c.T1 \in Word64
  PROVE  /\ KeyPart(c) \in [1..n + 1 -> Word64]
         /\ TweakPart(c) \in [1..3 -> Word64]
         /\ KeyWords(c.chain, Add64(c.T0, c.add), c.T1) = [i \in 0..n + 3 |->
              IF i < 3 THEN TweakPart(c)[i + 1] ELSE KeyPart(c)[i - 2]]
<1>1. PICK ch : ch = c.chain /\ ch \in [1..n -> Word64] /\ ch \in Seq(Word64) /\ Len(ch) = n
  OBVIOUS
<1>2. PICK z \in Word64 : z = Xor64(XorAll(ch), SKEIN_KS_PARITY)
  BY <1>1, XorAllType, ConstantIsWord, WordsStay DEF SKEIN_KS_PARITY
<1>3. PICK k : k = Append(ch, z) /\ k \in [1..n + 1 -> Word64]
               /\ (\A i \in 1..n : k[i] = ch[i]) /\ k[n + 1] = z
  <2>1. Append(ch, z) \in Seq(Word64) /\ Len(Append(ch, z)) = n + 1
    BY <1>1
  <2>2. Append(ch, z) \in [1..n + 1 -> Word64]
    BY <2>1, LenProperties
  <2>3. (\A i \in 1..n : Append(ch, z)[i] = ch[i]) /\ Append(ch, z)[n + 1] = z
    BY <1>1, AppendProperties
  <2> QED
    BY <2>2, <2>3
<1>4. PICK a \in Word64, b \in Word64, x \in Word64 :
        a = Add64(c.T0, c.add) /\ b = c.T1 /\ x = Xor64(a, b)
  <2>1. PICK a \in Word64 : a = Add64(c.T0, c.add)
    BY AddCounts
  <2>2. Xor64(a, c.T1) \in Word64
    <3>1. 0 \in Nat
      OBVIOUS
    <3> QED
      BY <3>1, WordsStay
  <2> QED
    BY <2>1, <2>2
<1>5. PICK t : t = <<a, b, x>> /\ t \in [1..3 -> Word64] /\ t \in Seq(Word64) /\ Len(t) = 3
  <2>1. <<a, b, x>> \in [1..3 -> Word64] /\ 3 \in Nat
    OBVIOUS
  <2>2. <<a, b, x>> \in Seq(Word64) /\ Len(<<a, b, x>>) = 3
    BY <2>1, FunctionLength
  <2> QED
    BY <2>1, <2>2
<1>6. PICK l : l = <<z>> /\ l \in Seq(Word64) /\ Len(l) = 1 /\ l[1] = z
  <2>1. <<z>> \in [1..1 -> Word64] /\ 1 \in Nat /\ <<z>>[1] = z
    OBVIOUS
  <2>2. <<z>> \in Seq(Word64) /\ Len(<<z>>) = 1
    BY <2>1, FunctionLength
  <2> QED
    BY <2>1, <2>2
<1>7. PICK u : u = t \o ch /\ u \in Seq(Word64) /\ Len(u) = n + 3
               /\ \A i \in 1..n + 3 : u[i] = IF i <= 3 THEN t[i] ELSE ch[i - 3]
  <2>1. /\ t \o ch \in Seq(Word64) /\ Len(t \o ch) = 3 + n
        /\ \A i \in 1..3 + n : (t \o ch)[i] = IF i <= 3 THEN t[i] ELSE ch[i - 3]
    BY <1>1, <1>5, ConcatProperties
  <2>2. 3 + n = n + 3
    OBVIOUS
  <2> QED
    BY <2>1, <2>2
<1>8. PICK w : w = u \o l /\ \A i \in 1..n + 4 : w[i] = IF i <= n + 3 THEN u[i] ELSE l[i - (n + 3)]
  <2>1. \A i \in 1..(n + 3) + 1 : (u \o l)[i] = IF i <= n + 3 THEN u[i] ELSE l[i - (n + 3)]
    BY <1>6, <1>7, ConcatProperties
  <2>2. (n + 3) + 1 = n + 4
    OBVIOUS
  <2> QED
    BY <2>1, <2>2
<1>9. ASSUME NEW i \in 0..n + 3 PROVE w[i + 1] = IF i < 3 THEN t[i + 1] ELSE k[i - 2]
  <2>1. CASE i < 3
    <3>1. i + 1 \in 1..n + 4 /\ i + 1 <= n + 3 /\ i + 1 \in 1..n + 3 /\ i + 1 <= 3
      BY <2>1
    <3> QED
      BY <1>7, <1>8, <2>1, <3>1
  <2>2. CASE i >= 3 /\ i < n + 3
    <3>1. i + 1 \in 1..n + 4 /\ i + 1 <= n + 3 /\ i + 1 \in 1..n + 3 /\ ~(i + 1 <= 3) /\ (i + 1) - 3 = i - 2
          /\ i - 2 \in 1..n
      BY <2>2
    <3> QED
      BY <1>3, <1>7, <1>8, <2>2, <3>1
  <2>3. CASE i = n + 3
    <3>1. i + 1 \in 1..n + 4 /\ ~(i + 1 <= n + 3) /\ (i + 1) - (n + 3) = 1 /\ i - 2 = n + 1 /\ ~(i < 3)
      BY <2>3
    <3> QED
      BY <1>3, <1>6, <1>8, <3>1
  <2> QED
    BY <2>1, <2>2, <2>3
<1>10. KeyWords(ch, a, b) = [i \in 0..n + 3 |-> w[i + 1]]
  BY <1>1, <1>2, <1>4, <1>5, <1>6, <1>7, <1>8 DEF KeyWords
<1>11. KeyPart(c) = k /\ TweakPart(c) = t
  BY <1>1, <1>2, <1>3, <1>4, <1>5 DEF KeyPart, TweakPart
<1> QED
  BY <1>1, <1>3, <1>4, <1>5, <1>9, <1>10, <1>11, ZenonT(30)

(* The schedule after i turns: n + 1 words of the key from the i-th on,    *)
(* three of the tweak from the i-th on, each counted through.              *)
Schedule(kw, c, n, i) ==
  /\ kw = [j \in 0..n + 3 + i |-> kw[j]]
  /\ \A j \in 0..n : kw[i + j + 3] = KeyPart(c)[((i + j) % (n + 1)) + 1]
  /\ \A j \in 0..2 : kw[i + j] = TweakPart(c)[((i + j) % 3) + 1]

(* At the start it is the key and the tweak.                               *)
LEMMA ScheduleBegins ==
  ASSUME NEW c, NEW n \in Nat, NEW m, OfShape(c, n, m)
  PROVE  Schedule(KeyWords(c.chain, Add64(c.T0, c.add), c.T1), c, n, 0)
<1>1. PICK kw : kw = KeyWords(c.chain, Add64(c.T0, c.add), c.T1)
  OBVIOUS
<1>2. kw = [i \in 0..n + 3 |-> IF i < 3 THEN TweakPart(c)[i + 1] ELSE KeyPart(c)[i - 2]]
  <2>1. c.chain \in [1..n -> Word64] /\ c.T0 \in Word64 /\ c.add \in Word64 /\ c.T1 \in Word64
    BY DEF OfShape
  <2>2. KeyWords(c.chain, Add64(c.T0, c.add), c.T1) = [i \in 0..n + 3 |->
              IF i < 3 THEN TweakPart(c)[i + 1] ELSE KeyPart(c)[i - 2]]
    BY ONLY n \in Nat, <2>1, PartsAre
  <2> QED
    BY <1>1, <2>2
<1>3. ASSUME NEW j \in 0..n PROVE kw[0 + j + 3] = KeyPart(c)[((0 + j) % (n + 1)) + 1]
  <2>1. /\ 0 + j + 3 = j + 3 /\ j + 3 \in 0..n + 3 /\ ~(j + 3 < 3) /\ (j + 3) - 2 = j + 1
        /\ (0 + j) % (n + 1) = j
    OBVIOUS
  <2> QED
    BY <1>2, <2>1
<1>4. ASSUME NEW j \in 0..2 PROVE kw[0 + j] = TweakPart(c)[((0 + j) % 3) + 1]
  <2>1. 0 + j = j /\ j \in 0..n + 3 /\ j < 3 /\ (0 + j) % 3 = j
    OBVIOUS
  <2> QED
    BY <1>2, <2>1
<1>5. kw = [j \in 0..n + 3 + 0 |-> kw[j]]
  <2>1. n + 3 + 0 = n + 3
    OBVIOUS
  <2> QED
    BY <1>2, <2>1
<1> QED
  BY <1>1, <1>3, <1>4, <1>5 DEF Schedule

(* One word written.                                                       *)
UpTo(kw, l) == kw = [j \in 0..l |-> kw[j]]
Written(w, kw, l, at, v) ==
  /\ w = [j \in (0..l) \cup {at} |-> w[j]]
  /\ w[at] = v
  /\ \A j \in 0..l : j # at => w[j] = kw[j]

(* Write does that.                                                        *)
LEMMA WriteIs ==
  ASSUME NEW kw, NEW l \in Nat, UpTo(kw, l), NEW at, NEW v
  PROVE  Written(Write(kw, at, v), kw, l, at, v)
<1>1. DOMAIN kw = 0..l
  BY DEF UpTo
<1> QED
  BY <1>1 DEF Write, Written

(* The 1024-bit function turns the schedule: the key word that falls out of *)
(* its part comes back at its end before a tweak word takes its place.     *)
LEMMA TurnSchedules ==
  ASSUME NEW c, NEW kw, NEW n \in Nat, n = 16, NEW i \in Nat, NEW h \in Nat, h = i + 1,
         Schedule(kw, c, n, i)
  PROVE  Schedule(Turn(kw, h), c, n, h)
<1>1. /\ kw = [j \in 0..n + 3 + i |-> kw[j]]
      /\ \A j \in 0..16 : kw[i + j + 3] = KeyPart(c)[((i + j) % 17) + 1]
      /\ \A j \in 0..2 : kw[i + j] = TweakPart(c)[((i + j) % 3) + 1]
  <2>1. n + 1 = 17
    OBVIOUS
  <2> QED
    BY <2>1 DEF Schedule
<1>2. PICK l \in Nat : l = i + 19 /\ n + 3 + i = l
  OBVIOUS
<1>3. PICK w : w = Write(kw, l + 1, kw[i + 3])
  OBVIOUS
<1>4. /\ w = [j \in 0..l + 1 |-> w[j]] /\ w[l + 1] = kw[i + 3]
      /\ \A j \in 0..l : w[j] = kw[j]
  <2>1. UpTo(kw, l)
    BY ONLY <1>1, <1>2, Zenon DEF UpTo
  <2>0. Written(w, kw, l, l + 1, kw[i + 3])
    BY <1>2, <1>3, <2>1, WriteIs
  <2>2. /\ w = [j \in (0..l) \cup {l + 1} |-> w[j]] /\ w[l + 1] = kw[i + 3]
        /\ \A j \in 0..l : j # l + 1 => w[j] = kw[j]
    BY <2>0 DEF Written
  <2>3. (0..l) \cup {l + 1} = 0..l + 1 /\ \A j \in 0..l : j # l + 1
    OBVIOUS
  <2> QED
    BY <2>2, <2>3
<1>5. PICK t : t = Write(w, i + 3, w[i])
  OBVIOUS
<1>6. /\ t = [j \in 0..l + 1 |-> t[j]] /\ t[i + 3] = w[i]
      /\ \A j \in 0..l + 1 : j # i + 3 => t[j] = w[j]
  <2>1. i + 3 \in 0..(l + 1) + 1 /\ l + 1 \in Nat /\ (0..l + 1) \cup {i + 3} = 0..l + 1
    BY <1>2
  <2>0. Written(t, w, l + 1, i + 3, w[i])
    <3>1. UpTo(w, l + 1)
      BY <1>4, Zenon DEF UpTo
    <3> QED
      BY <1>5, <2>1, <3>1, WriteIs
  <2>2. /\ t = [j \in (0..l + 1) \cup {i + 3} |-> t[j]] /\ t[i + 3] = w[i]
        /\ \A j \in 0..l + 1 : j # i + 3 => t[j] = w[j]
    BY <2>0 DEF Written
  <2> QED
    BY <2>1, <2>2
<1>7. t = Turn(kw, h)
  <2>1. h + 16 + 3 = l + 1 /\ (h - 1) + 3 = i + 3 /\ h + 2 = i + 3 /\ h - 1 = i
    BY <1>2
  <2> QED
    BY <1>3, <1>5, <2>1 DEF Turn, Ks, Ts
<1>8. ASSUME NEW j \in 0..n PROVE t[h + j + 3] = KeyPart(c)[((h + j) % (n + 1)) + 1]
  <2>0. h + j + 3 \in 0..l + 1 /\ h + j + 3 # i + 3 /\ n + 1 = 17
    BY <1>2
  <2>1. t[h + j + 3] = w[h + j + 3]
    BY <1>6, <2>0
  <2>2. CASE j = 16
    <3>1. h + j + 3 = l + 1 /\ (h + j) % 17 = (i + 0) % 17 /\ i + 0 + 3 = i + 3
      BY <1>2, <2>2
    <3>2. kw[i + 0 + 3] = KeyPart(c)[((i + 0) % 17) + 1]
      BY <1>1
    <3> QED
      BY <1>4, <2>0, <2>1, <3>1, <3>2
  <2>3. CASE j # 16
    <3>1. PICK k \in 0..16 : k = j + 1
      BY <2>3
    <3>2. h + j + 3 = i + k + 3 /\ h + j = i + k /\ i + k + 3 \in 0..l
      BY <1>2, <3>1
    <3>3. kw[i + k + 3] = KeyPart(c)[((i + k) % 17) + 1]
      BY <1>1
    <3> QED
      BY <1>4, <2>0, <2>1, <3>2, <3>3
  <2> QED
    BY <2>2, <2>3
<1>9. ASSUME NEW j \in 0..2 PROVE t[h + j] = TweakPart(c)[((h + j) % 3) + 1]
  <2>1. CASE j = 2
    <3>1. h + j = i + 3 /\ (h + j) % 3 = (i + 0) % 3 /\ i + 0 = i /\ i \in 0..l
      BY <1>2, <2>1
    <3>2. kw[i + 0] = TweakPart(c)[((i + 0) % 3) + 1]
      BY <1>1
    <3> QED
      BY <1>4, <1>6, <3>1, <3>2
  <2>2. CASE j # 2
    <3>1. PICK k \in 0..2 : k = j + 1
      BY <2>2
    <3>2. h + j = i + k /\ h + j # i + 3 /\ i + k \in 0..l /\ i + k \in 0..l + 1
      BY <1>2, <3>1
    <3>3. kw[i + k] = TweakPart(c)[((i + k) % 3) + 1]
      BY <1>1
    <3> QED
      BY <1>4, <1>6, <3>2, <3>3
  <2> QED
    BY <2>1, <2>2
<1>10. t = [j \in 0..n + 3 + h |-> t[j]]
  <2>1. n + 3 + h = l + 1
    BY <1>2
  <2> QED
    BY <1>6, <2>1
<1> QED
  BY <1>7, <1>8, <1>9, <1>10 DEF Schedule

(* The words an injection takes from the schedule are those of subkey s.   *)
TakesSubkey(k, t0, t1, c, n, s) ==
  /\ \A i \in 0..n - 1 : k[i] = KeyPart(c)[((s + i) % (n + 1)) + 1]
  /\ t0 = TweakPart(c)[(s % 3) + 1] /\ t1 = TweakPart(c)[((s + 1) % 3) + 1]

(* Adding them one after the other is adding the subkey.                   *)
LEMMA InjectIs ==
  ASSUME NEW c, NEW n \in Nat, NEW m, OfShape(c, n, m), NEW s \in Nat, NEW X \in Array(n),
         NEW k, NEW t0, NEW t1, TakesSubkey(k, t0, t1, c, n, s)
  PROVE  /\ InjectWords(X, n, k, t0, t1, s) = AddSubkey(X, c, s)
         /\ InjectWords(X, n, k, t0, t1, s) \in Array(n)
         /\ Subkey(c, s) \in Array(n)
<1> DEFINE more(i) == CASE i = n - 3 -> t0 [] i = n - 2 -> t1 [] i = n - 1 -> Small(s) [] OTHER -> {}
<1>1. Len(c.chain) = n /\ KeyPart(c) \in [1..n + 1 -> Word64] /\ TweakPart(c) \in [1..3 -> Word64]
  BY PartsAre, ZenonT(60) DEF OfShape
<1>2. t0 \in Word64 /\ t1 \in Word64
  <2>1. (s % 3) + 1 \in 1..3 /\ ((s + 1) % 3) + 1 \in 1..3
    OBVIOUS
  <2> QED
    BY <1>1, <2>1 DEF TakesSubkey
<1>3. \A i \in 0..n - 1 : k[i] \in Word64 /\ X[i] \in Word64
  <2>1. ASSUME NEW i \in 0..n - 1 PROVE k[i] \in Word64
    <3>1. ((s + i) % (n + 1)) + 1 \in 1..n + 1
      <4>1. s + i \in Nat /\ n + 1 \in Nat \ {0}
        OBVIOUS
      <4>2. (s + i) % (n + 1) \in 0..n
        BY <4>1
      <4> QED
        BY <4>2
    <3> QED
      BY <1>1, <3>1 DEF TakesSubkey
  <2> QED
    BY <2>1 DEF Array
<1>4. \A i \in 0..n - 1 : more(i) \in Word64
  <2>1. Small(s) \in Word64 /\ {} \in Word64
    BY ConstantIsWord DEF Word64
  <2> QED
    BY <1>2, <2>1
<1>5. Subkey(c, s) = [i \in 0..n - 1 |-> Add64(k[i], more(i))]
  <2>1. ASSUME NEW i \in 0..n - 1
        PROVE  Add64(KeyPart(c)[((s + i) % (n + 1)) + 1],
                 CASE i = n - 3 -> TweakPart(c)[(s % 3) + 1]
                   [] i = n - 2 -> TweakPart(c)[((s + 1) % 3) + 1]
                   [] i = n - 1 -> Small(s) [] OTHER -> {}) = Add64(k[i], more(i))
    BY DEF TakesSubkey
  <2>2. Subkey(c, s) = [i \in 0..n - 1 |->
          Add64(KeyPart(c)[((s + i) % (n + 1)) + 1],
                 CASE i = n - 3 -> TweakPart(c)[(s % 3) + 1]
                   [] i = n - 2 -> TweakPart(c)[((s + 1) % 3) + 1]
                   [] i = n - 1 -> Small(s) [] OTHER -> {})]
    <3>1. Subkey(c, s) = [i \in 0..Len(c.chain) - 1 |->
          Add64(KeyPart(c)[((s + i) % (Len(c.chain) + 1)) + 1],
                 CASE i = Len(c.chain) - 3 -> TweakPart(c)[(s % 3) + 1]
                   [] i = Len(c.chain) - 2 -> TweakPart(c)[((s + 1) % 3) + 1]
                   [] i = Len(c.chain) - 1 -> Small(s) [] OTHER -> {})]
      BY DEF Subkey, KeyPart, TweakPart
    <3>2. Len(c.chain) = n
      BY <1>1
    <3> QED
      BY ONLY <3>1, <3>2, Zenon
  <2> HIDE DEF more
  <2> QED
    BY <2>1, <2>2, Zenon
<1>6. InjectWords(X, n, k, t0, t1, s) = [i \in 0..n - 1 |-> Add64(Add64(X[i], k[i]), more(i))]
  BY DEF InjectWords
<1> HIDE DEF more
<1>7. ASSUME NEW i \in 0..n - 1
      PROVE  /\ Add64(Add64(X[i], k[i]), more(i)) = Add64(X[i], Subkey(c, s)[i])
             /\ Add64(X[i], Subkey(c, s)[i]) \in Word64 /\ Subkey(c, s)[i] \in Word64
  <2>1. PICK x \in Word64, y \in Word64, z \in Word64 : x = X[i] /\ y = k[i] /\ z = more(i)
    BY <1>3, <1>4
  <2>2. Add64(Add64(x, y), z) = Add64(x, Add64(y, z)) /\ Add64(y, z) \in Word64
        /\ Add64(x, Add64(y, z)) \in Word64
    BY AddAssociates, AddCounts
  <2> QED
    BY <1>5, <2>1, <2>2
<1> QED
  BY <1>1, <1>5, <1>6, <1>7 DEF AddSubkey, Array

(* The words of the schedule as it was made, counted through.              *)
LEMMA UnturnedTakes ==
  ASSUME NEW c, NEW n \in Nat, NEW kw, Schedule(kw, c, n, 0), NEW s \in Nat
  PROVE  TakesSubkey([i \in 0..n - 1 |-> Ks(kw, (s + i) % (n + 1))],
                     Ts(kw, s % 3), Ts(kw, (s + 1) % 3), c, n, s)
<1>1. ASSUME NEW j \in 0..n PROVE kw[j + 3] = KeyPart(c)[j + 1]
  <2>1. kw[0 + j + 3] = KeyPart(c)[((0 + j) % (n + 1)) + 1]
    BY DEF Schedule
  <2>2. 0 + j + 3 = j + 3 /\ (0 + j) % (n + 1) = j
    OBVIOUS
  <2> QED
    BY <2>1, <2>2
<1>2. ASSUME NEW j \in 0..2 PROVE kw[j] = TweakPart(c)[j + 1]
  <2>1. kw[0 + j] = TweakPart(c)[((0 + j) % 3) + 1]
    BY DEF Schedule
  <2>2. 0 + j = j /\ (0 + j) % 3 = j
    OBVIOUS
  <2> QED
    BY <2>1, <2>2
<1>3. ASSUME NEW i \in 0..n - 1
      PROVE  Ks(kw, (s + i) % (n + 1)) = KeyPart(c)[((s + i) % (n + 1)) + 1]
  <2>1. s + i \in Nat /\ n + 1 \in Nat \ {0}
    OBVIOUS
  <2>2. (s + i) % (n + 1) \in 0..n
    BY <2>1
  <2> QED
    BY <1>1, <2>2 DEF Ks
<1>4. s % 3 \in 0..2 /\ (s + 1) % 3 \in 0..2
  OBVIOUS
<1> QED
  BY <1>2, <1>3, <1>4 DEF TakesSubkey, Ts

(* The first words of the schedule are subkey 0.                           *)
LEMMA FirstTakes ==
  ASSUME NEW c, NEW n \in Nat, NEW kw, Schedule(kw, c, n, 0)
  PROVE  TakesSubkey([i \in 0..n - 1 |-> Ks(kw, i)], Ts(kw, 0), Ts(kw, 1), c, n, 0)
<1>1. [i \in 0..n - 1 |-> Ks(kw, (0 + i) % (n + 1))] = [i \in 0..n - 1 |-> Ks(kw, i)]
  <2>1. ASSUME NEW i \in 0..n - 1 PROVE Ks(kw, (0 + i) % (n + 1)) = Ks(kw, i)
    <3>1. (0 + i) % (n + 1) = i
      OBVIOUS
    <3> QED
      BY <3>1
  <2> QED
    BY <2>1
<1>2. 0 % 3 = 0 /\ (0 + 1) % 3 = 1 /\ 0 \in Nat
  OBVIOUS
<1>3. TakesSubkey([i \in 0..n - 1 |-> Ks(kw, (0 + i) % (n + 1))],
                  Ts(kw, 0 % 3), Ts(kw, (0 + 1) % 3), c, n, 0)
  BY <1>2, UnturnedTakes
<1> QED
  BY <1>1, <1>2, <1>3

(* The next words of the turned schedule.                                  *)
LEMMA TurnedTakes ==
  ASSUME NEW c, NEW n \in Nat, n = 16, NEW kw, NEW i \in Nat, Schedule(kw, c, n, i),
         NEW s \in Nat, s = i + 1
  PROVE  TakesSubkey([j \in 0..n - 1 |-> Ks(kw, s + j)], Ts(kw, s), Ts(kw, s + 1), c, n, s)
<1>1. ASSUME NEW j \in 0..n - 1 PROVE Ks(kw, s + j) = KeyPart(c)[((s + j) % (n + 1)) + 1]
  <2>1. PICK h \in 0..n : h = j + 1
    OBVIOUS
  <2>2. kw[i + h + 3] = KeyPart(c)[((i + h) % (n + 1)) + 1]
    BY DEF Schedule
  <2>3. i + h = s + j
    BY <2>1
  <2> QED
    BY <2>2, <2>3 DEF Ks
<1>2. /\ kw[i + 1] = TweakPart(c)[((i + 1) % 3) + 1]
      /\ kw[i + 2] = TweakPart(c)[((i + 2) % 3) + 1]
  BY DEF Schedule
<1>3. i + 1 = s /\ i + 2 = s + 1
  OBVIOUS
<1> QED
  BY <1>1, <1>2, <1>3 DEF TakesSubkey, Ts

(* The injection after i injections, of the three functions.               *)
NextInjection(X, kw, c, i) ==
  CASE c.size = 256  -> I256(X, kw, i)
    [] c.size = 512  -> I512(X, kw, i)
    [] c.size = 1024 -> I1024(X, kw, i + 1)
Turned(c, i) == IF c.size = 1024 THEN i ELSE 0

(* It adds the next subkey.                                                *)
LEMMA InjectionIs ==
  ASSUME NEW c, NEW n \in Nat, NEW m, OfShape(c, n, m), NEW X \in Array(n), NEW kw,
         NEW i \in Nat, Schedule(kw, c, n, Turned(c, i))
  PROVE  /\ NextInjection(X, kw, c, i) = AddSubkey(X, c, i + 1)
         /\ NextInjection(X, kw, c, i) \in Array(n)
         /\ Subkey(c, i + 1) \in Array(n)
<1>1. PICK s \in Nat : s = i + 1 /\ i + 2 = s + 1
  OBVIOUS
<1>2. (c.size = 256 /\ n = 4) \/ (c.size = 512 /\ n = 8) \/ (c.size = 1024 /\ n = 16)
  BY DEF OfShape
<1>3. \A k, t0, t1 : TakesSubkey(k, t0, t1, c, n, s) =>
        /\ InjectWords(X, n, k, t0, t1, s) = AddSubkey(X, c, s)
        /\ InjectWords(X, n, k, t0, t1, s) \in Array(n)
        /\ Subkey(c, s) \in Array(n)
  BY InjectIs
<1>4. CASE c.size = 256 /\ n = 4
  <2>1. Schedule(kw, c, 4, 0)
    BY <1>4 DEF Turned
  <2>2. TakesSubkey([j \in 0..4 - 1 |-> Ks(kw, (s + j) % (4 + 1))],
                    Ts(kw, s % 3), Ts(kw, (s + 1) % 3), c, 4, s)
    BY <2>1, UnturnedTakes
  <2>3. NextInjection(X, kw, c, i) = I256(X, kw, i)
    BY <1>4 DEF NextInjection
  <2>4. I256(X, kw, i) = InjectWords(X, 4, [j \in 0..4 - 1 |-> Ks(kw, (s + j) % (4 + 1))],
                                     Ts(kw, s % 3), Ts(kw, (s + 1) % 3), s)
    <3>1. 4 - 1 = 3 /\ 4 + 1 = 5
      OBVIOUS
    <3> QED
      BY <1>1, <3>1 DEF I256
  <2> QED
    BY <1>1, <1>3, <1>4, <2>2, <2>3, <2>4
<1>5. CASE c.size = 512 /\ n = 8
  <2>1. Schedule(kw, c, 8, 0)
    BY <1>5 DEF Turned
  <2>2. TakesSubkey([j \in 0..8 - 1 |-> Ks(kw, (s + j) % (8 + 1))],
                    Ts(kw, s % 3), Ts(kw, (s + 1) % 3), c, 8, s)
    BY <2>1, UnturnedTakes
  <2>3. NextInjection(X, kw, c, i) = I512(X, kw, i)
    BY <1>5 DEF NextInjection
  <2>4. I512(X, kw, i) = InjectWords(X, 8, [j \in 0..8 - 1 |-> Ks(kw, (s + j) % (8 + 1))],
                                     Ts(kw, s % 3), Ts(kw, (s + 1) % 3), s)
    <3>1. 8 - 1 = 7 /\ 8 + 1 = 9
      OBVIOUS
    <3> QED
      BY <1>1, <3>1 DEF I512
  <2> QED
    BY <1>1, <1>3, <1>5, <2>2, <2>3, <2>4
<1>6. CASE c.size = 1024 /\ n = 16
  <2>1. Schedule(kw, c, 16, i)
    BY <1>6 DEF Turned
  <2>2. TakesSubkey([j \in 0..16 - 1 |-> Ks(kw, s + j)], Ts(kw, s), Ts(kw, s + 1), c, 16, s)
    BY <1>1, <2>1, TurnedTakes
  <2>3. NextInjection(X, kw, c, i) = I1024(X, kw, s)
    BY <1>1, <1>6 DEF NextInjection
  <2>4. I1024(X, kw, s) = InjectWords(X, 16, [j \in 0..16 - 1 |-> Ks(kw, s + j)],
                                      Ts(kw, s), Ts(kw, s + 1), s)
    <3>1. 16 - 1 = 15
      OBVIOUS
    <3> QED
      BY <3>1 DEF I1024
  <2> QED
    BY <1>1, <1>3, <1>6, <2>2, <2>3, <2>4
<1> QED
  BY <1>2, <1>4, <1>5, <1>6

-----------------------------------------------------------------------------
(* The inductive invariant of the block function.                          *)
TfRunning ==
  LET n == Shape(tfCase.size).words
  IN  /\ tfX \in Array(n)
      /\ 4 * tfInj <= tfRound /\ tfRound <= 4 * tfInj + 4
      /\ tfRound <= Shape(tfCase.size).rounds
      /\ Schedule(tfKw, tfCase, n, Turned(tfCase, tfInj))

TfInv ==
  /\ tfCase \in Blocks
  /\ tfRound \in Nat /\ tfInj \in Nat
  /\ tfPhase \in {"start", "running", "done"}
  /\ tfPhase = "start" => tfRound = 0 /\ tfInj = 0
  /\ tfPhase = "running" => TfRunning
  /\ tfPhase = "done" => tfX \in [1..Shape(tfCase.size).words -> Word64]

(* The start adds subkey 0 to the block.                                   *)
LEMMA StartAdds ==
  ASSUME NEW c, NEW n \in Nat, NEW m, OfShape(c, n, m)
  PROVE  LET kw == KeyWords(c.chain, Add64(c.T0, c.add), c.T1)
             b  == [i \in 0..n - 1 |-> c.block[i + 1]]
         IN  /\ FirstKey(c.block, kw, n) = AddSubkey(b, c, 0)
             /\ FirstKey(c.block, kw, n) \in Array(n)
             /\ Schedule(kw, c, n, 0)
<1>1. PICK kw : kw = KeyWords(c.chain, Add64(c.T0, c.add), c.T1)
  OBVIOUS
<1>2. PICK b : b = [i \in 0..n - 1 |-> c.block[i + 1]]
  OBVIOUS
<1>3. Schedule(kw, c, n, 0)
  BY <1>1, ScheduleBegins
<1>4. b \in Array(n)
  <2>1. c.block \in [1..n -> Word64]
    BY DEF OfShape
  <2> QED
    BY <1>2, <2>1 DEF Array
<1>5. TakesSubkey([i \in 0..n - 1 |-> Ks(kw, i)], Ts(kw, 0), Ts(kw, 1), c, n, 0)
  BY <1>3, FirstTakes
<1>6. FirstKey(c.block, kw, n)
        = InjectWords(b, n, [i \in 0..n - 1 |-> Ks(kw, i)], Ts(kw, 0), Ts(kw, 1), 0)
  BY <1>2, Zenon DEF FirstKey
<1>7. 0 \in Nat
  OBVIOUS
<1>8. FirstKey(c.block, kw, n) = AddSubkey(b, c, 0) /\ FirstKey(c.block, kw, n) \in Array(n)
  BY <1>4, <1>5, <1>6, <1>7, InjectIs
<1> QED
  BY <1>1, <1>2, <1>3, <1>8

(* Its four steps, as they are when the shape is known.                    *)
LEMMA StartStepIs ==
  ASSUME NEW n \in Nat, NEW m, OfShape(tfCase, n, m), Start
  PROVE  /\ tfX' = AddSubkey([i \in 0..n - 1 |-> tfCase.block[i + 1]], tfCase, 0)
         /\ tfX' \in Array(n) /\ Schedule(tfKw', tfCase, n, 0)
<1>1. tfKw' = KeyWords(tfCase.chain, Add64(tfCase.T0, tfCase.add), tfCase.T1)
  BY DEF Start
<1>2. tfX' = FirstKey(tfCase.block, tfKw', n)
  BY DEF Start, OfShape
<1> QED
  BY <1>1, <1>2, StartAdds

(* A round: the next round of Threefish on the words where they stay.      *)
LEMMA RoundStepIs ==
  ASSUME NEW n \in Nat, NEW m \in Nat, OfShape(tfCase, n, m), TfInv, Round
  PROVE  /\ tfX' \in Array(n)
         /\ Cipher(tfX', n, tfRound + 1)
              = ThreefishRound(Cipher(tfX, n, tfRound), n, Shape(tfCase.size).rot[(tfRound % 8) + 1])
<1>1. tfX \in Array(n) /\ tfRound \in Nat
  BY DEF TfInv, TfRunning, Round, OfShape
<1>2. Routes(Shape(tfCase.size).order, n, m)
  BY DEF OfShape
<1>3. PICK rot \in [1..m -> Nat] : rot = Shape(tfCase.size).rot[(tfRound % 8) + 1]
  <2>1. PICK e \in 1..8 : e = (tfRound % 8) + 1
    BY <1>1
  <2>2. \A i \in 1..8 : Shape(tfCase.size).rot[i] \in [1..m -> Nat]
    BY ONLY OfShape(tfCase, n, m), Zenon DEF OfShape
  <2> QED
    BY <2>1, <2>2
<1>4. tfX' = MixRound(tfX, Shape(tfCase.size).order[(tfRound % 4) + 1], rot)
  BY <1>3, Zenon DEF Round
<1>5. IsRound(tfX', tfX, rot, tfRound, n)
  BY <1>1, <1>2, <1>3, <1>4, RoundIs
<1> QED
  BY <1>3, <1>5, Zenon DEF IsRound

(* An injection: the next subkey, and the schedule turned once more.       *)
LEMMA InjectStepIs ==
  ASSUME NEW n \in Nat, NEW m, OfShape(tfCase, n, m), TfInv, Inject
  PROVE  /\ tfX' = AddSubkey(tfX, tfCase, tfInj + 1) /\ tfX' \in Array(n)
         /\ tfRound = 4 * (tfInj + 1)
         /\ Schedule(tfKw', tfCase, n, Turned(tfCase, tfInj + 1))
<1>1. /\ tfX \in Array(n) /\ tfRound \in Nat /\ tfInj \in Nat
      /\ 4 * tfInj <= tfRound /\ tfRound <= 4 * tfInj + 4
      /\ Schedule(tfKw, tfCase, n, Turned(tfCase, tfInj))
  BY DEF TfInv, TfRunning, Inject, OfShape
<1>2. tfRound = 4 * (tfInj + 1)
  <2>1. tfRound \div 4 > tfInj
    BY DEF Inject
  <2> QED
    BY <1>1, <2>1
<1>3. tfX' = NextInjection(tfX, tfKw, tfCase, tfInj)
  <2>1. CASE tfCase.size = 256
    BY <2>1 DEF Inject, NextInjection
  <2>2. CASE tfCase.size = 512
    BY <2>2 DEF Inject, NextInjection
  <2>3. CASE tfCase.size = 1024
    BY <2>3 DEF Inject, NextInjection
  <2> QED
    BY <2>1, <2>2, <2>3 DEF OfShape
<1>4. tfX' = AddSubkey(tfX, tfCase, tfInj + 1) /\ tfX' \in Array(n)
  BY <1>1, <1>3, InjectionIs
<1>5. Schedule(tfKw', tfCase, n, Turned(tfCase, tfInj + 1))
  <2>1. CASE tfCase.size = 1024
    <3>1. n = 16 /\ tfKw' = Turn(tfKw, tfInj + 1)
      BY <2>1 DEF Inject, OfShape
    <3>2. Schedule(tfKw, tfCase, n, tfInj)
      BY <1>1, <2>1 DEF Turned
    <3>3. Schedule(tfKw', tfCase, n, tfInj + 1)
      BY <1>1, <3>1, <3>2, TurnSchedules
    <3> QED
      BY <2>1, <3>3 DEF Turned
  <2>2. CASE tfCase.size # 1024
    <3>0. tfCase.size = 256 \/ tfCase.size = 512
      BY ONLY <2>2, OfShape(tfCase, n, m), Zenon DEF OfShape
    <3>1. tfKw' = tfKw
      <4>1. CASE tfCase.size = 256
        BY ONLY <4>1, Inject DEF Inject
      <4>2. CASE tfCase.size = 512
        BY ONLY <4>2, Inject DEF Inject
      <4> QED
        BY ONLY <3>0, <4>1, <4>2
    <3> QED
      BY <1>1, <2>2, <3>1 DEF Turned
  <2> QED
    BY <2>1, <2>2
<1> QED
  BY <1>2, <1>4, <1>5

(* The feed-forward leaves words.                                          *)
LEMMA FinishIs ==
  ASSUME NEW n \in Nat, NEW m, OfShape(tfCase, n, m), TfInv, Finish
  PROVE  tfX' \in [1..n -> Word64]
<1>1. tfX \in Array(n) /\ tfCase.block \in [1..n -> Word64]
  BY DEF TfInv, TfRunning, Finish, OfShape
<1>2. Len(tfCase.block) = n
  BY <1>1, FunctionLength
<1>3. ASSUME NEW i \in 1..n PROVE Xor64(tfX[i - 1], tfCase.block[i]) \in Word64
  <2>1. i - 1 \in 0..n - 1
    OBVIOUS
  <2>2. tfX[i - 1] \in Word64 /\ tfCase.block[i] \in Word64 /\ 0 \in Nat
    BY <1>1, <2>1 DEF Array
  <2> QED
    BY <2>2, WordsStay
<1> QED
  BY <1>2, <1>3 DEF Finish, FeedForward

-----------------------------------------------------------------------------
(* The initial states and the steps keep the invariant.                    *)
LEMMA TfInvInit == TfInit => TfInv
<1> SUFFICES ASSUME TfInit PROVE TfInv
  OBVIOUS
<1>1. tfCase \in Blocks /\ tfRound = 0 /\ tfInj = 0 /\ tfPhase = "start"
  BY DEF TfInit
<1> QED
  BY <1>1 DEF TfInv

(* Every step keeps it.                                                    *)
LEMMA TfInvStep == TfInv /\ [TfNext]_tfVars => TfInv'
<1> SUFFICES ASSUME TfInv, [TfNext]_tfVars PROVE TfInv'
  OBVIOUS
<1>0. tfCase \in Blocks /\ tfRound \in Nat /\ tfInj \in Nat
  BY DEF TfInv
<1>n. PICK n \in {4, 8, 16}, m \in Nat : OfShape(tfCase, n, m)
  BY <1>0, ShapeIs
<1>s. n \in Nat /\ Shape(tfCase.size).words = n /\ Shape(tfCase.size).rounds \in Nat
  BY <1>n DEF OfShape
<1>1. CASE Start
  <2>1. tfRound = 0 /\ tfInj = 0
    BY <1>1 DEF TfInv, Start
  <2>2. tfCase' = tfCase /\ tfRound' = 0 /\ tfInj' = 0 /\ tfPhase' = "running"
    BY <1>1, <2>1 DEF Start
  <2>3. tfX' \in Array(n) /\ Schedule(tfKw', tfCase, n, 0)
    BY <1>1, <1>n, <1>s, StartStepIs
  <2>4. 0 \in Nat /\ 4 * 0 <= 0 /\ 0 <= 4 * 0 + 4 /\ 0 <= Shape(tfCase.size).rounds
    BY <1>s
  <2>5. Turned(tfCase, 0) = 0
    BY DEF Turned
  <2>6. TfRunning'
    BY <1>s, <2>2, <2>3, <2>4, <2>5 DEF TfRunning
  <2> QED
    BY <1>0, <2>2, <2>4, <2>6 DEF TfInv
<1>2. CASE Round
  <2>1. /\ tfPhase = "running" /\ tfRound \div 4 = tfInj /\ tfRound < Shape(tfCase.size).rounds
        /\ tfCase' = tfCase /\ tfKw' = tfKw /\ tfRound' = tfRound + 1 /\ tfInj' = tfInj
        /\ tfPhase' = "running"
    BY <1>2 DEF Round
  <2>2. 4 * tfInj <= tfRound /\ Schedule(tfKw, tfCase, n, Turned(tfCase, tfInj))
    BY <1>s, <2>1 DEF TfInv, TfRunning
  <2>3. tfX' \in Array(n)
    BY <1>2, <1>n, <1>s, RoundStepIs
  <2>4. /\ tfRound' \in Nat /\ 4 * tfInj <= tfRound + 1 /\ tfRound + 1 <= 4 * tfInj + 4
        /\ tfRound + 1 <= Shape(tfCase.size).rounds
    BY <1>0, <1>s, <2>1
  <2>5. TfRunning'
    BY <1>s, <2>1, <2>2, <2>3, <2>4 DEF TfRunning
  <2> QED
    BY <1>0, <2>1, <2>4, <2>5 DEF TfInv
<1>3. CASE Inject
  <2>1. /\ tfPhase = "running" /\ tfCase' = tfCase /\ tfRound' = tfRound /\ tfInj' = tfInj + 1
        /\ tfPhase' = "running"
    BY <1>3 DEF Inject
  <2>2. tfRound <= Shape(tfCase.size).rounds
    BY <2>1 DEF TfInv, TfRunning
  <2>3. /\ tfX' \in Array(n) /\ tfRound = 4 * (tfInj + 1)
        /\ Schedule(tfKw', tfCase, n, Turned(tfCase, tfInj + 1))
    BY <1>3, <1>n, <1>s, InjectStepIs
  <2>4. tfInj + 1 \in Nat /\ 4 * (tfInj + 1) <= tfRound /\ tfRound <= 4 * (tfInj + 1) + 4
    BY <1>0, <2>3
  <2>5. TfRunning'
    BY <1>s, <2>1, <2>2, <2>3, <2>4 DEF TfRunning
  <2> QED
    BY <1>0, <2>1, <2>4, <2>5 DEF TfInv
<1>4. CASE Finish
  <2>1. tfCase' = tfCase /\ tfRound' = tfRound /\ tfInj' = tfInj /\ tfPhase' = "done"
    BY <1>4 DEF Finish
  <2>2. tfX' \in [1..n -> Word64]
    BY <1>4, <1>n, <1>s, FinishIs
  <2> QED
    BY <1>0, <1>s, <2>1, <2>2 DEF TfInv
<1>5. CASE UNCHANGED tfVars
  BY <1>5 DEF TfInv, TfRunning, tfVars
<1> QED
  BY <1>1, <1>2, <1>3, <1>4, <1>5 DEF TfNext

(* The words stay words, rounds and injections alternate as the code       *)
(* unrolls them, and the schedule is the one of Threefish throughout:      *)
(* Skein_xxx_Process_Block for every chaining value, tweak and block.      *)
THEOREM TfInvariant == TfSpec => []TfInv
<1> QED
  BY TfInvInit, TfInvStep, PTL DEF TfSpec

(* What the injections add is the next subkey of Threefish, for every      *)
(* chaining value, tweak and block.                                        *)
LEMMA TfInvInjects == TfInv => InjectsSubkeys
<1> SUFFICES ASSUME TfInv, tfPhase = "running", tfInj < Shape(tfCase.size).rounds \div 4
             PROVE  InjectsSubkeys
  BY DEF InjectsSubkeys
<1>1. tfCase \in Blocks /\ tfInj \in Nat
  BY DEF TfInv
<1>2. PICK n \in {4, 8, 16}, m \in Nat : OfShape(tfCase, n, m)
  BY <1>1, ShapeIs
<1>3. n \in Nat /\ Shape(tfCase.size).words = n /\ Len(tfCase.chain) = n
  BY <1>2 DEF OfShape
<1>4. PICK zero \in Array(n) : zero = [i \in 0..n - 1 |-> {}]
  <2>1. {} \in Word64
    BY DEF Word64
  <2>2. [i \in 0..n - 1 |-> {}] \in Array(n)
    BY <2>1 DEF Array
  <2> QED
    BY <2>2
<1>5. Schedule(tfKw, tfCase, n, Turned(tfCase, tfInj))
  BY <1>3 DEF TfInv, TfRunning
<1>6. /\ NextInjection(zero, tfKw, tfCase, tfInj) = AddSubkey(zero, tfCase, tfInj + 1)
      /\ Subkey(tfCase, tfInj + 1) \in Array(n)
  <2>1. PICK i \in Nat : i = tfInj
    BY <1>1
  <2>5. PICK kw, c : kw = tfKw /\ c = tfCase
    OBVIOUS
  <2>2. OfShape(c, n, m) /\ Schedule(kw, c, n, Turned(c, i)) /\ n \in Nat
    BY <1>2, <1>3, <1>5, <2>1, <2>5
  <2>3. /\ NextInjection(zero, kw, c, i) = AddSubkey(zero, c, i + 1)
        /\ NextInjection(zero, kw, c, i) \in Array(n)
        /\ Subkey(c, i + 1) \in Array(n)
    BY <2>2, InjectionIs
  <2> QED
    BY <2>1, <2>3, <2>5
<1>7. AddSubkey(zero, tfCase, tfInj + 1) = Subkey(tfCase, tfInj + 1)
  <2>1. PICK S \in Array(n) : S = Subkey(tfCase, tfInj + 1)
    BY <1>6
  <2>2. ASSUME NEW i \in 0..n - 1 PROVE Add64(zero[i], S[i]) = S[i]
    <3>1. S[i] \in Word64 /\ zero[i] = {}
      BY <1>4 DEF Array
    <3> QED
      BY <3>1, AddNothing
  <2>3. AddSubkey(zero, tfCase, tfInj + 1) = [i \in 0..n - 1 |-> Add64(zero[i], S[i])]
    BY <1>3, <2>1 DEF AddSubkey
  <2>4. S = [i \in 0..n - 1 |-> S[i]]
    BY DEF Array
  <2> QED
    BY <2>1, <2>2, <2>3, <2>4
<1>8. Subkey(tfCase, tfInj + 1) = NextInjection([i \in 0..n - 1 |-> {}], tfKw, tfCase, tfInj)
  BY <1>4, <1>6, <1>7
<1> QED
  BY <1>3, <1>8, ZenonT(30) DEF InjectsSubkeys, NextInjection

(* InjectsSubkeys: the words the next injection adds are the next subkey,  *)
(* for all the turns of the schedule inside its one array.                 *)
THEOREM InjectsSubkeysHolds == TfSpec => []InjectsSubkeys
<1> QED
  BY TfInvariant, TfInvInjects, PTL

(* After every fourth round the words are in place.                        *)
LEMMA PlaceReturns ==
  ASSUME NEW n \in Nat, NEW d \in Nat, d % 4 = 0, NEW X \in Array(n)
  PROVE  Cipher(X, n, d) = X
<1>1. \A i \in 0..n - 1 : Place(n, d)[i] = i
  BY DEF Place
<1>2. X = [i \in 0..n - 1 |-> X[i]]
  BY DEF Array
<1> QED
  BY <1>1, <1>2 DEF Cipher

(* The three kinds of steps.                                               *)
BlockStep ==
  LET n     == Len(tfCase.chain)
      shape == Shape(tfCase.size)
  IN  /\ tfPhase' # tfPhase /\ tfPhase = "start" =>
            tfX' = AddSubkey([i \in 0..n - 1 |-> tfCase.block[i + 1]], tfCase, 0)
      /\ tfRound' # tfRound =>
            Cipher(tfX', n, tfRound') =
              ThreefishRound(Cipher(tfX, n, tfRound), n, shape.rot[(tfRound % 8) + 1])
      /\ tfInj' # tfInj =>
            Cipher(tfX', n, tfRound) = AddSubkey(Cipher(tfX, n, tfRound), tfCase, tfInj')

(* Every step is one of them.                                              *)
LEMMA StepIsThreefish == TfInv /\ [TfNext]_tfVars => [BlockStep]_tfVars
<1> SUFFICES ASSUME TfInv, TfNext PROVE BlockStep
  OBVIOUS
<1>1. tfCase \in Blocks /\ tfRound \in Nat /\ tfInj \in Nat
  BY DEF TfInv
<1>2. PICK n \in {4, 8, 16}, m \in Nat : OfShape(tfCase, n, m)
  BY <1>1, ShapeIs
<1>3. n \in Nat /\ Shape(tfCase.size).words = n /\ Len(tfCase.chain) = n
  BY <1>2 DEF OfShape
<1>4. CASE Start
  <2>1. tfX' = AddSubkey([i \in 0..n - 1 |-> tfCase.block[i + 1]], tfCase, 0)
    BY <1>2, <1>3, <1>4, StartStepIs
  <2>2. tfRound' = tfRound /\ tfInj' = tfInj
    BY <1>4 DEF Start
  <2> QED
    BY <1>3, <2>1, <2>2 DEF BlockStep
<1>5. CASE Round
  <2>1. Cipher(tfX', n, tfRound + 1)
          = ThreefishRound(Cipher(tfX, n, tfRound), n, Shape(tfCase.size).rot[(tfRound % 8) + 1])
    BY <1>2, <1>3, <1>5, RoundStepIs
  <2>2. tfRound' = tfRound + 1 /\ tfInj' = tfInj /\ tfPhase' = tfPhase
    BY <1>5 DEF Round
  <2> QED
    BY <1>3, <2>1, <2>2, Zenon DEF BlockStep
<1>6. CASE Inject
  <2>1. tfX \in Array(n)
    BY <1>3, <1>6 DEF TfInv, TfRunning, Inject
  <2>2. /\ tfX' = AddSubkey(tfX, tfCase, tfInj + 1) /\ tfX' \in Array(n)
        /\ tfRound = 4 * (tfInj + 1)
    BY <1>2, <1>3, <1>6, InjectStepIs
  <2>3. tfRound % 4 = 0
    BY <1>1, <2>2
  <2>4. Cipher(tfX, n, tfRound) = tfX /\ Cipher(tfX', n, tfRound) = tfX'
    BY <1>1, <1>3, <2>1, <2>2, <2>3, PlaceReturns
  <2>5. tfRound' = tfRound /\ tfInj' = tfInj + 1 /\ tfPhase' = tfPhase
    BY <1>6 DEF Inject
  <2>6. Cipher(tfX', n, tfRound) = AddSubkey(Cipher(tfX, n, tfRound), tfCase, tfInj')
    BY <2>2, <2>4, <2>5
  <2> QED
    BY <1>3, <2>5, <2>6, Zenon DEF BlockStep
<1>7. CASE Finish
  <2>1. tfPhase = "running" /\ tfRound' = tfRound /\ tfInj' = tfInj
    BY <1>7 DEF Finish
  <2> QED
    BY <2>1 DEF BlockStep
<1> QED
  BY <1>4, <1>5, <1>6, <1>7 DEF TfNext

(* Every step is a step of Threefish: for every chaining value, tweak and  *)
(* block, what the three functions compute with their words in place and   *)
(* their schedule turned in place is the cipher by its definition.         *)
THEOREM StepsAreThreefishHolds == TfSpec => StepsAreThreefish
<1>1. TfSpec => [][BlockStep]_tfVars
  BY TfInvariant, StepIsThreefish, PTL DEF TfSpec
<1> QED
  BY <1>1, PTL DEF StepsAreThreefish, BlockStep
=============================================================================
