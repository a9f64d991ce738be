----------------------------- MODULE SharedLemmas -----------------------------
(***************************************************************************)
(* What the proofs of several modules rest on. Induction and recursion     *)
(* without predicate parameters, and what FlattenSeq computes: the         *)
(* induction theorems of the library take a predicate, which the provers   *)
(* cannot instantiate; here the predicate is a set of naturals. Recursive  *)
(* functions are then unique and exist, and operators that are defined by  *)
(* them can be reasoned about. Among these are the numbers of Numerals:    *)
(* digits and numbers are the same thing, whatever the base.               *)
(***************************************************************************)
EXTENDS Word64, Sequences, SequencesExt, SequenceTheorems, WellFoundedInduction, TLAPS

(* A set of naturals that is not empty has a least member.                 *)
LEMMA Least ==
  ASSUME NEW T \in SUBSET Nat, T # {}
  PROVE  \E x \in T : \A y \in T : x <= y
<1> DEFINE R == OpToRel(<, Nat)
<1>1. IsWellFoundedOn(R, Nat)
  BY NatLessThanWellFounded
<1>2. \A x, y \in Nat : <<x, y>> \in R <=> x < y
  BY DEF OpToRel
<1> HIDE DEF R
<1>3. PICK x \in T : \A y \in T : ~ (<<y, x>> \in R)
  BY <1>1, WFMin
<1>4. \A y \in T : ~ (y < x)
  BY <1>2, <1>3
<1>5. \A y \in T : x \in Nat /\ y \in Nat
  BY <1>3
<1> QED
  BY <1>3, <1>4, <1>5

(* Induction over the naturals, with the set of those that are reached     *)
(* instead of a predicate.                                                 *)
LEMMA Induct ==
  ASSUME NEW T \in SUBSET Nat, 0 \in T, \A n \in T : n + 1 \in T
  PROVE  T = Nat
<1> SUFFICES ASSUME T # Nat PROVE FALSE
  OBVIOUS
<1>1. Nat \ T \in SUBSET Nat /\ Nat \ T # {}
  OBVIOUS
<1>2. PICK x \in Nat \ T : \A y \in Nat \ T : x <= y
  BY <1>1, Least
<1>3. x # 0 /\ x - 1 \in Nat
  BY <1>2
<1>4. x - 1 \in T
  BY <1>2, <1>3
<1> QED
  BY <1>2, <1>3, <1>4

(* The same for the naturals up to n.                                      *)
LEMMA InductUpTo ==
  ASSUME NEW n \in Nat, NEW T \in SUBSET (0 .. n),
         0 \in T, \A i \in 1 .. n : i - 1 \in T => i \in T
  PROVE  T = 0 .. n
<1> DEFINE U == {i \in Nat : i <= n => i \in T}
<1>1. U = Nat
  <2>1. 0 \in U
    OBVIOUS
  <2>2. ASSUME NEW i \in U PROVE i + 1 \in U
    <3>1. i \in Nat /\ i + 1 \in Nat /\ (i <= n => i \in T)
      OBVIOUS
    <3>2. PICK j \in Nat : j = i + 1
      BY <3>1
    <3>3. j <= n => j \in 1 .. n /\ j - 1 = i /\ i <= n
      BY <3>1, <3>2
    <3>4. j <= n => j \in T
      BY <3>1, <3>3
    <3> QED
      BY <3>2, <3>4
  <2>3. U \in SUBSET Nat
    OBVIOUS
  <2> HIDE DEF U
  <2> QED
    BY <2>1, <2>2, <2>3, Induct
<1>2. \A i \in 0 .. n : i \in T
  BY <1>1
<1>3. \A i \in T : i \in 0 .. n
  OBVIOUS
<1> QED
  BY <1>2, <1>3

(* Two functions that begin alike and take the same steps are one.         *)
LEMMA RecursionUnique ==
  ASSUME NEW V, NEW n \in Nat, NEW step \in [Nat -> [V -> V]],
         NEW f \in [0 .. n -> V], NEW g \in [0 .. n -> V], f[0] = g[0],
         \A i \in 1 .. n : f[i] = step[i][f[i - 1]],
         \A i \in 1 .. n : g[i] = step[i][g[i - 1]]
  PROVE  f = g
<1> DEFINE T == {i \in 0 .. n : f[i] = g[i]}
<1>1. 0 \in T
  OBVIOUS
<1>2. ASSUME NEW i \in 1 .. n, i - 1 \in T PROVE i \in T
  <2>1. f[i - 1] = g[i - 1] /\ i \in 0 .. n
    BY <1>2
  <2>2. f[i] = step[i][f[i - 1]] /\ g[i] = step[i][g[i - 1]]
    OBVIOUS
  <2> QED
    BY <2>1, <2>2
<1>3. T \in SUBSET (0 .. n)
  OBVIOUS
<1> HIDE DEF T
<1>4. T = 0 .. n
  BY <1>1, <1>2, <1>3, InductUpTo
<1>5. \A i \in 0 .. n : f[i] = g[i]
  BY <1>4 DEF T
<1> QED
  BY <1>5

-----------------------------------------------------------------------------
(* f is what the steps make of b: f[0] = b, f[i] = step[i][f[i - 1]].      *)
Iterates(f, V, b, step, n) ==
  /\ f \in [0 .. n -> V]
  /\ f[0] = b
  /\ \A i \in 1 .. n : f[i] = step[i][f[i - 1]]

(* There is such a function for any b and any steps: a recursive function  *)
(* over 0 .. n has values.                                                 *)
LEMMA RecursionUpTo ==
  ASSUME NEW V, NEW b \in V, NEW n \in Nat, NEW step \in [Nat -> [V -> V]]
  PROVE  \E f : Iterates(f, V, b, step, n)
<1> DEFINE
      Computes(f, m) == f \in [0 .. m -> V] /\ f[0] = b
                        /\ \A i \in 1 .. m : f[i] = step[i][f[i - 1]]
      T == {m \in Nat : \E f : Computes(f, m)}
<1>1. 0 \in T
  <2>1. Computes([i \in 0 .. 0 |-> b], 0)
    OBVIOUS
  <2> QED
    BY <2>1
<1>2. \A m \in T : m + 1 \in T
  <2> SUFFICES ASSUME NEW m \in T PROVE m + 1 \in T
    OBVIOUS
  <2>1. PICK f : Computes(f, m)
    OBVIOUS
  <2> DEFINE g == [i \in 0 .. m + 1 |-> IF i = m + 1 THEN step[m + 1][f[m]] ELSE f[i]]
  <2>2. f[m] \in V /\ step[m + 1] \in [V -> V]
    BY <2>1
  <2>3. g \in [0 .. m + 1 -> V]
    BY <2>1, <2>2
  <2>4. g[0] = b
    BY <2>1
  <2>5. ASSUME NEW i \in 1 .. m + 1 PROVE g[i] = step[i][g[i - 1]]
    <3>1. CASE i = m + 1
      <4>1. g[i] = step[i][f[m]]
        BY <3>1
      <4>2. g[i - 1] = f[m]
        BY <3>1
      <4> QED
        BY <4>1, <4>2
    <3>2. CASE i # m + 1
      <4>1. i \in 1 .. m /\ g[i] = f[i] /\ g[i - 1] = f[i - 1]
        BY <3>2
      <4> QED
        BY <4>1, <2>1
    <3> QED
      BY <3>1, <3>2
  <2>6. Computes(g, m + 1)
    BY <2>3, <2>4, <2>5
  <2>7. m + 1 \in Nat /\ \E h : Computes(h, m + 1)
    <3> HIDE DEF Computes, g
    <3> QED
      BY <2>6
  <2> QED
    BY <2>7
<1>3. T \in SUBSET Nat
  OBVIOUS
<1>4. T = Nat
  <2> HIDE DEF T
  <2> QED
    BY <1>1, <1>2, <1>3, Induct
<1>5. n \in T
  BY <1>4
<1> QED
  BY <1>5 DEF Iterates

(* A function that begins with b and takes the steps wherever its values   *)
(* are of the type has values of that type.                                *)
Takes(F, V, b, step, n) ==
  /\ F = [i \in 0 .. n |-> F[i]]
  /\ F[0] = b
  /\ \A i \in 1 .. n : F[i - 1] \in V => F[i] = step[i][F[i - 1]]

LEMMA StepsAre ==
  ASSUME NEW V, NEW b \in V, NEW n \in Nat, NEW step \in [Nat -> [V -> V]],
         NEW F, Takes(F, V, b, step, n)
  PROVE  Iterates(F, V, b, step, n)
<1> DEFINE T == {i \in 0 .. n : F[i] \in V}
<1>1. F[0] = b /\ \A i \in 1 .. n : F[i - 1] \in V => F[i] = step[i][F[i - 1]]
  BY Zenon DEF Takes
<1>2. 0 \in T
  BY <1>1
<1>3. ASSUME NEW i \in 1 .. n, i - 1 \in T
      PROVE  i \in T
  <2>1. F[i - 1] \in V /\ i \in Nat /\ i \in 0 .. n
    BY <1>3
  <2>2. F[i] = step[i][F[i - 1]]
    BY <1>1, <2>1
  <2>3. F[i] \in V
    BY <2>1, <2>2
  <2> QED
    BY <2>1, <2>3
<1>4. T \in SUBSET (0 .. n)
  OBVIOUS
<1> HIDE DEF T
<1>5. T = 0 .. n
  BY <1>2, <1>3, <1>4, InductUpTo
<1>6. \A i \in 0 .. n : F[i] \in V
  BY <1>5 DEF T
<1>7. ASSUME NEW i \in 1 .. n
      PROVE  F[i] = step[i][F[i - 1]]
  <2>1. i - 1 \in 0 .. n
    OBVIOUS
  <2> QED
    BY <1>1, <1>6, <2>1
<1>8. F \in [0 .. n -> V]
  BY <1>6 DEF Takes
<1> QED
  BY <1>1, <1>7, <1>8 DEF Iterates

-----------------------------------------------------------------------------
(* Quotient and remainder, named once so that a proof need not carry \div  *)
(* and %.                                                                  *)
LEMMA Division ==
  ASSUME NEW B \in Nat \ {0}, NEW v \in Nat
  PROVE  \E q \in Nat, r \in Nat : q = v \div B /\ r = v % B /\ r < B /\ v = B * q + r
<1>1. v \div B \in Nat /\ v % B \in Nat /\ v % B < B /\ v = B * (v \div B) + (v % B)
  OBVIOUS
<1> QED
  BY <1>1

(* A quotient is below m when the number is below B times m.               *)
LEMMA DivisionBound ==
  ASSUME NEW B \in Nat \ {0}, NEW q \in Nat, NEW r \in Nat, NEW m \in Nat, B * q + r < B * m
  PROVE  q < m
<1> SUFFICES ASSUME q >= m PROVE FALSE
  OBVIOUS
<1>1. PICK d \in Nat : q = m + d
  <2>1. q - m \in Nat /\ q = m + (q - m)
    OBVIOUS
  <2> QED
    BY <2>1
<1>2. B * q = B * m + B * d
  BY <1>1
<1>3. B * d \in Nat /\ B * m \in Nat
  OBVIOUS
<1> QED
  BY <1>2, <1>3

(* The quotient of k times B and a remainder is k.                         *)
LEMMA QuotientIs ==
  ASSUME NEW B \in Nat \ {0}, NEW k \in Nat, NEW r \in Nat, r < B
  PROVE  (k * B + r) \div B = k /\ (k * B + r) % B = r
<1>1. k * B \in Nat /\ k * B = B * k
  OBVIOUS
<1>2. PICK q \in Nat, s \in Nat :
        q = (k * B + r) \div B /\ s = (k * B + r) % B /\ s < B /\ k * B + r = B * q + s
  BY <1>1, Division
<1>3. q < k + 1
  <2>1. B * (k + 1) = k * B + B
    BY <1>1
  <2>2. B * q + s < B * (k + 1)
    BY <1>2, <2>1, <1>1
  <2>3. k + 1 \in Nat
    OBVIOUS
  <2> QED
    BY <2>2, <2>3, DivisionBound
<1>4. k < q + 1
  <2>1. B * (q + 1) = B * q + B /\ B * q \in Nat
    OBVIOUS
  <2>2. B * k + r < B * (q + 1)
    BY <1>1, <1>2, <2>1
  <2>3. q + 1 \in Nat
    OBVIOUS
  <2> QED
    BY <2>2, <2>3, DivisionBound
<1>5. q = k
  BY <1>3, <1>4
<1>6. s = r
  BY <1>1, <1>2, <1>5
<1> QED
  BY <1>2, <1>5, <1>6

-----------------------------------------------------------------------------
(* FlattenSeq(ss) is what joining the members of ss one by one makes.      *)
LEMMA FlattenIs ==
  ASSUME NEW S, NEW ss \in Seq(Seq(S)), NEW n \in Nat, n = Len(ss),
         NEW f \in [0 .. n -> Seq(S)],
         f[0] = <<>>, \A i \in 1 .. n : f[i] = f[i - 1] \o ss[i]
  PROVE  FlattenSeq(ss) = f[n]
<1>1. \A i \in 1 .. n : ss[i] \in Seq(S)
  OBVIOUS
<1>2. CASE n = 0
  <2>1. ss = <<>>
    BY <1>2, EmptySeq
  <2> QED
    BY <2>1, <1>2 DEF FlattenSeq
<1>3. CASE n # 0
  <2> DEFINE h == [i \in 1 .. n |-> f[i]]
             F == CHOOSE g : g = [i \in 1 .. n |-> IF i = 1 THEN ss[i] ELSE g[i - 1] \o ss[i]]
  <2>1. h = [i \in 1 .. n |-> IF i = 1 THEN ss[i] ELSE h[i - 1] \o ss[i]]
    <3>1. ASSUME NEW i \in 1 .. n
          PROVE  f[i] = IF i = 1 THEN ss[i] ELSE h[i - 1] \o ss[i]
      <4>1. f[i] = f[i - 1] \o ss[i]
        OBVIOUS
      <4>2. CASE i = 1
        <5>1. f[i - 1] = <<>> /\ ss[i] \in Seq(S)
          BY <1>1, <4>2
        <5> QED
          BY <5>1, <4>1, <4>2, ConcatEmptySeq
      <4>3. CASE i # 1
        <5>1. i - 1 \in 1 .. n
          BY <4>3
        <5>2. h[i - 1] = f[i - 1]
          BY <5>1
        <5> QED
          BY <4>1, <4>3, <5>2
      <4> QED
        BY <4>2, <4>3
    <3> QED
      BY <3>1
  <2>2. F = [i \in 1 .. n |-> IF i = 1 THEN ss[i] ELSE F[i - 1] \o ss[i]]
    <3> HIDE DEF h
    <3> QED
      BY <2>1
  <2> DEFINE T == {i \in 0 .. n : i > 0 => F[i] = f[i]}
  <2> HIDE DEF F
  <2>3. T = 0 .. n
    <3>1. 0 \in T
      OBVIOUS
    <3>2. ASSUME NEW i \in 1 .. n, i - 1 \in T PROVE i \in T
      <4>1. f[i] = f[i - 1] \o ss[i]
        OBVIOUS
      <4>2. F[i] = IF i = 1 THEN ss[i] ELSE F[i - 1] \o ss[i]
        BY ONLY i \in 1 .. n, n \in Nat, <2>2
      <4>3. CASE i = 1
        <5>1. f[i - 1] = <<>> /\ ss[i] \in Seq(S)
          BY <4>3, <1>1
        <5>2. <<>> \o ss[i] = ss[i]
          BY <5>1, ConcatEmptySeq
        <5>3. F[i] = f[i]
          BY <5>1, <5>2, <4>1, <4>2, <4>3
        <5> QED
          BY <5>3
      <4>4. CASE i # 1
        <5>1. F[i - 1] = f[i - 1]
          BY <4>4, <3>2
        <5>2. F[i] = f[i]
          BY <5>1, <4>1, <4>2, <4>4
        <5> QED
          BY <5>2
      <4> QED
        BY <4>3, <4>4
    <3>3. T \in SUBSET (0 .. n)
      OBVIOUS
    <3> HIDE DEF T
    <3> QED
      BY <3>1, <3>2, <3>3, InductUpTo
  <2>4. F[n] = f[n]
    <3>1. n \in 0 .. n
      OBVIOUS
    <3>2. n \in T
      BY ONLY <3>1, <2>3
    <3> QED
      BY <3>2, <1>3
  <2>5. FlattenSeq(ss) = F[n]
    BY <1>3 DEF F, FlattenSeq
  <2> QED
    BY <2>4, <2>5, <1>3
<1> QED
  BY <1>2, <1>3

(* The same with the joined prefixes of ss for existing.                   *)
LEMMA FlattenPrefixes ==
  ASSUME NEW S, NEW ss \in Seq(Seq(S)), NEW n \in Nat, n = Len(ss)
  PROVE  \E f \in [0 .. n -> Seq(S)] :
            /\ f[0] = <<>>
            /\ \A i \in 1 .. n : f[i] = f[i - 1] \o ss[i]
            /\ FlattenSeq(ss) = f[n]
<1> DEFINE V == Seq(S)
           step == [i \in Nat |-> [v \in V |-> IF i \in 1 .. n THEN v \o ss[i] ELSE v]]
<1>1. <<>> \in V
  OBVIOUS
<1>2. step \in [Nat -> [V -> V]]
  <2>1. \A i \in 1 .. n : ss[i] \in Seq(S)
    OBVIOUS
  <2> QED
    BY <2>1, ConcatProperties
<1>3. ASSUME NEW i \in 1 .. n, NEW v \in V PROVE step[i][v] = v \o ss[i]
  <2>1. i \in Nat
    OBVIOUS
  <2>2. step[i] = [w \in V |-> IF i \in 1 .. n THEN w \o ss[i] ELSE w]
    BY ONLY <2>1
  <2> HIDE DEF V, step
  <2> QED
    BY ONLY <2>2, i \in 1 .. n, v \in V
<1> HIDE DEF step, V
<1>3a. PICK f : Iterates(f, V, <<>>, step, n)
  BY <1>1, <1>2, RecursionUpTo
<1>4. f \in [0 .. n -> V] /\ f[0] = <<>> /\ \A i \in 1 .. n : f[i] = step[i][f[i - 1]]
  BY <1>3a DEF Iterates
<1>5. ASSUME NEW i \in 1 .. n PROVE f[i] = f[i - 1] \o ss[i]
  <2>1. i - 1 \in 0 .. n
    OBVIOUS
  <2>2. f[i - 1] \in V
    BY <2>1, <1>4
  <2> QED
    BY <2>2, <1>3, <1>4
<1>6. FlattenSeq(ss) = f[n]
  BY <1>4, <1>5, FlattenIs DEF V
<1> QED
  BY <1>4, <1>5, <1>6 DEF V

(* A flattened sequence of sequences over S is a sequence over S.          *)
LEMMA FlattenType ==
  ASSUME NEW S, NEW ss \in Seq(Seq(S))
  PROVE  FlattenSeq(ss) \in Seq(S)
<1>1. Len(ss) \in Nat
  OBVIOUS
<1>2. PICK n \in Nat : n = Len(ss)
  BY <1>1
<1>3. n \in 0 .. n
  OBVIOUS
<1>4. PICK f \in [0 .. n -> Seq(S)] : /\ f[0] = <<>>
                                      /\ \A i \in 1 .. n : f[i] = f[i - 1] \o ss[i]
                                      /\ FlattenSeq(ss) = f[n]
  BY <1>2, FlattenPrefixes
<1> QED
  BY <1>3, <1>4

(* Nothing flattened is nothing.                                           *)
LEMMA FlattenEmpty == FlattenSeq(<<>>) = <<>>
BY DEF FlattenSeq

(* One sequence more at the end.                                           *)
LEMMA FlattenAppend ==
  ASSUME NEW S, NEW ss \in Seq(Seq(S)), NEW s \in Seq(S)
  PROVE  FlattenSeq(Append(ss, s)) = FlattenSeq(ss) \o s
<1> DEFINE tt == Append(ss, s)
<1>0. Len(ss) \in Nat
  OBVIOUS
<1>n. PICK n \in Nat : n = Len(ss)
  BY <1>0
<1>1. PICK f \in [0 .. n -> Seq(S)] :
            /\ f[0] = <<>>
            /\ \A i \in 1 .. n : f[i] = f[i - 1] \o ss[i]
            /\ FlattenSeq(ss) = f[n]
  BY <1>n, FlattenPrefixes
<1>2. tt \in Seq(Seq(S)) /\ Len(tt) = n + 1 /\ tt[n + 1] = s
      /\ \A i \in 1 .. n : tt[i] = ss[i]
  BY <1>n
<1> HIDE DEF tt
<1> DEFINE g == [i \in 0 .. n + 1 |-> IF i = n + 1 THEN f[n] \o s ELSE f[i]]
<1>3. f[n] \o s \in Seq(S)
  BY <1>1, <1>2, ConcatProperties
<1>4. g \in [0 .. n + 1 -> Seq(S)] /\ g[0] = <<>>
  BY <1>1, <1>2, <1>3
<1>5. ASSUME NEW i \in 1 .. n + 1 PROVE g[i] = g[i - 1] \o tt[i]
  <2>1. CASE i = n + 1
    <3>1. g[i] = f[n] \o s /\ i - 1 = n /\ n \in 0 .. n + 1 /\ n # n + 1
      BY <2>1
    <3>2. g[i - 1] = f[n]
      BY <3>1
    <3> QED
      BY <3>1, <3>2, <1>2, <2>1
  <2>2. CASE i # n + 1
    <3>1. i \in 1 .. n /\ g[i] = f[i] /\ g[i - 1] = f[i - 1]
      BY <2>2, <1>2
    <3> QED
      BY <3>1, <1>1, <1>2
  <2> QED
    BY <2>1, <2>2
<1>6. FlattenSeq(tt) = g[n + 1]
  <2> HIDE DEF g
  <2>1. n + 1 \in Nat
    OBVIOUS
  <2> QED
    BY <1>2, <1>4, <1>5, <2>1, FlattenIs
<1> QED
  BY <1>1, <1>2, <1>6 DEF tt

(* Concatenation is associative.                                           *)
LEMMA ConcatAssociates ==
  ASSUME NEW S
  PROVE  \A s, t, u \in Seq(S) : s \o (t \o u) = (s \o t) \o u
BY ConcatAssociative

(* The same of three sequences, for steps that hold nothing but names.     *)
Associates(s, t, u) == s \o (t \o u) = (s \o t) \o u

LEMMA Regroups ==
  ASSUME NEW S, NEW s \in Seq(S), NEW t \in Seq(S), NEW u \in Seq(S)
  PROVE  Associates(s, t, u)
BY ConcatAssociative DEF Associates

(* The first sequence taken off the front.                                 *)
LEMMA FlattenCons ==
  ASSUME NEW S, NEW ss \in Seq(Seq(S)), ss # <<>>
  PROVE  FlattenSeq(ss) = ss[1] \o FlattenSeq(Tail(ss))
<1> DEFINE tt == Tail(ss)
<1>0. Len(ss) \in Nat
  OBVIOUS
<1>n. PICK n \in Nat : n = Len(ss)
  BY <1>0
<1>1. n > 0 /\ tt \in Seq(Seq(S)) /\ Len(tt) = n - 1 /\ ss[1] \in Seq(S)
      /\ \A i \in 1 .. n - 1 : tt[i] = ss[i + 1]
  BY <1>n, HeadTailProperties
<1>2. n - 1 \in Nat /\ \A i \in 1 .. n - 1 : tt[i] \in Seq(S)
  BY <1>1
<1>h. PICK h \in Seq(S) : h = ss[1]
  BY <1>1
<1> HIDE DEF tt
<1>3. PICK f \in [0 .. n - 1 -> Seq(S)] :
            /\ f[0] = <<>>
            /\ \A i \in 1 .. n - 1 : f[i] = f[i - 1] \o tt[i]
            /\ FlattenSeq(tt) = f[n - 1]
  <2> PICK m \in Nat : m = n - 1
    BY <1>2
  <2>1. tt \in Seq(Seq(S)) /\ m = Len(tt)
    BY <1>1
  <2>2. \E f \in [0 .. m -> Seq(S)] :
            /\ f[0] = <<>>
            /\ \A i \in 1 .. m : f[i] = f[i - 1] \o tt[i]
            /\ FlattenSeq(tt) = f[m]
    BY ONLY <2>1, FlattenPrefixes, m \in Nat, ZenonT(30)
  <2> QED
    BY ONLY <2>2, m = n - 1
<1> DEFINE g == [i \in 0 .. n |-> IF i = 0 THEN <<>> ELSE h \o f[i - 1]]
<1>4. \A i \in 1 .. n : f[i - 1] \in Seq(S) /\ h \o f[i - 1] \in Seq(S)
  BY <1>1, <1>3, ConcatProperties
<1>5. g \in [0 .. n -> Seq(S)] /\ g[0] = <<>>
  BY <1>1, <1>4
<1>6. ASSUME NEW i \in 1 .. n PROVE g[i] = g[i - 1] \o ss[i]
  <2>1. CASE i = 1
    <3>0. i - 1 = 0 /\ i # 0 /\ i \in 0 .. n /\ 0 \in 0 .. n
      BY <2>1, <1>1
    <3>1. g[i] = h \o <<>> /\ g[i - 1] = <<>>
      BY <3>0, <1>3
    <3> QED
      BY <3>1, <2>1, <1>h, ConcatEmptySeq
  <2>2. CASE i # 1
    <3>1. i - 1 \in 1 .. n - 1 /\ i - 1 + 1 = i
      BY <2>2, <1>1
    <3>j. PICK j \in 1 .. n : j = i - 1
      BY <3>1
    <3>0. \A k \in 1 .. n : g[k] = h \o f[k - 1]
      OBVIOUS
    <3>2. g[i] = h \o f[i - 1] /\ g[j] = h \o f[j - 1]
      BY <3>0
    <3>3. f[j] = f[j - 1] \o tt[j] /\ tt[j] = ss[i]
      BY <3>1, <3>j, <1>3, <1>1
    <3>4. f[j - 1] \in Seq(S) /\ tt[j] \in Seq(S)
      BY <3>1, <3>j, <1>3, <1>2
    <3>5. h \o (f[j - 1] \o tt[j]) = (h \o f[j - 1]) \o tt[j]
      <4>1. PICK v \in Seq(S), w \in Seq(S) : v = f[j - 1] /\ w = tt[j]
        BY <3>4
      <4>2. h \o (v \o w) = (h \o v) \o w
        <5>1. Associates(h, v, w)
          BY Regroups, Zenon
        <5> QED
          BY ONLY <5>1, Zenon DEF Associates
      <4> QED
        BY <4>1, <4>2
    <3> QED
      BY <3>2, <3>3, <3>5, <3>j
  <2> QED
    BY <2>1, <2>2
<1>7. FlattenSeq(ss) = g[n]
  <2> HIDE DEF g
  <2> QED
    BY <1>n, <1>5, <1>6, FlattenIs
<1>8. g[n] = h \o f[n - 1]
  BY <1>1, SMTT(30)
<1> QED
  BY <1>8, <1>h, <1>3, <1>7 DEF tt

-----------------------------------------------------------------------------
(* Numbers and their digits.                                               *)

(* Multiplying by B and adding, again and again, beginning with b.         *)
Climbs(h, B, b, e, n) ==
  /\ h \in [0..n -> Nat]
  /\ h[0] = b
  /\ \A i \in 1..n : h[i] = B * h[i - 1] + e[i]

(* It has a result at every step.                                          *)
LEMMA Affine ==
  ASSUME NEW B \in Nat, NEW b \in Nat, NEW n \in Nat, NEW e \in [1..n -> Nat]
  PROVE  \E h : Climbs(h, B, b, e, n)
<1> DEFINE step == [i \in Nat |-> [v \in Nat |-> IF i \in 1..n THEN B * v + e[i] ELSE v]]
<1>1. step \in [Nat -> [Nat -> Nat]]
  <2>1. ASSUME NEW i \in Nat, NEW v \in Nat, i \in 1..n PROVE B * v + e[i] \in Nat
    <3>1. e[i] \in Nat /\ B * v \in Nat
      BY <2>1
    <3> QED
      BY <3>1
  <2> QED
    BY <2>1
<1>2. \A i \in 1..n, v \in Nat : step[i][v] = B * v + e[i]
  OBVIOUS
<1> HIDE DEF step
<1>3. PICK f : Iterates(f, Nat, b, step, n)
  BY <1>1, RecursionUpTo
<1>4. f \in [0..n -> Nat] /\ f[0] = b
  BY <1>3 DEF Iterates
<1>5. ASSUME NEW i \in 1..n PROVE f[i] = B * f[i - 1] + e[i]
  <2>1. f[i] = step[i][f[i - 1]]
    BY <1>3 DEF Iterates
  <2>2. i - 1 \in 0..n
    OBVIOUS
  <2> QED
    BY <1>2, <1>4, <2>1, <2>2
<1> QED
  BY <1>4, <1>5 DEF Climbs

(* ... and only one: a function that takes the same steps is that one.     *)
Follows(g, B, b, e, n) ==
  /\ g = [i \in 0..n |-> g[i]]
  /\ g[0] = b
  /\ \A i \in 1..n : g[i] = B * g[i - 1] + e[i]

(* A function that takes the affine steps from the same start is the one that climbs them. *)
LEMMA AffineUnique ==
  ASSUME NEW B \in Nat, NEW n \in Nat, NEW e \in [1..n -> Nat],
         NEW b, NEW f, Climbs(f, B, b, e, n),
         NEW g, Follows(g, B, b, e, n)
  PROVE  g = f
<1>0. /\ f \in [0..n -> Nat] /\ f[0] = g[0] /\ \A i \in 1..n : f[i] = B * f[i - 1] + e[i]
      /\ \A i \in 1..n : g[i] = B * g[i - 1] + e[i]
  BY DEF Climbs, Follows
<1>g. g = [i \in 0..n |-> g[i]]
  BY DEF Follows
<1> DEFINE T == {i \in 0..n : f[i] = g[i]}
<1>1. 0 \in T
  BY <1>0
<1>2. ASSUME NEW i \in 1..n, i - 1 \in T PROVE i \in T
  <2>1. f[i - 1] = g[i - 1] /\ i \in 0..n
    BY <1>2
  <2>2. f[i] = B * f[i - 1] + e[i] /\ g[i] = B * g[i - 1] + e[i]
    BY <1>0
  <2> QED
    BY ONLY <2>1, <2>2
<1>3. T \in SUBSET (0..n)
  OBVIOUS
<1> HIDE DEF T
<1>4. T = 0..n
  BY <1>1, <1>2, <1>3, InductUpTo
<1>5. \A i \in 0..n : f[i] = g[i]
  BY <1>4 DEF T
<1>6. f = [i \in 0..n |-> f[i]]
  BY <1>0
<1>7. [i \in 0..n |-> f[i]] = [i \in 0..n |-> g[i]]
  BY ONLY <1>5
<1> QED
  BY ONLY <1>6, <1>7, <1>g

(* The steps of Power.                                                     *)
LEMMA PowerFunction ==
  ASSUME NEW B \in Nat, NEW k \in Nat
  PROVE  \E p \in [0..k -> Nat] : p[0] = 1 /\ (\A i \in 1..k : p[i] = B * p[i - 1]) /\ Power(B, k) = p[k]
<1>1. PICK e \in [1..k -> Nat] : \A i \in 1..k : e[i] = 0
  <2>1. [i \in 1..k |-> 0] \in [1..k -> Nat]
    OBVIOUS
  <2> QED
    BY <2>1
<1>2. PICK h \in [0..k -> Nat] : h[0] = 1 /\ \A i \in 1..k : h[i] = B * h[i - 1] + e[i]
  <2>1. 1 \in Nat
    OBVIOUS
  <2>2. PICK h : Climbs(h, B, 1, e, k)
    BY <2>1, Affine
  <2> QED
    BY <2>2 DEF Climbs
<1>3. \A i \in 1..k : h[i] = B * h[i - 1]
  <2> TAKE i \in 1..k
  <2>1. h[i - 1] \in Nat /\ h[i] = B * h[i - 1] + e[i] /\ e[i] = 0
    BY <1>1, <1>2
  <2>2. B * h[i - 1] \in Nat
    BY <2>1
  <2> QED
    BY <2>1, <2>2
<1>4. h = [i \in 0..k |-> IF i = 0 THEN 1 ELSE B * h[i - 1]]
  BY <1>2, <1>3
<1> DEFINE P == CHOOSE p : p = [i \in 0..k |-> IF i = 0 THEN 1 ELSE B * p[i - 1]]
<1>5. P = [i \in 0..k |-> IF i = 0 THEN 1 ELSE B * P[i - 1]]
  BY ONLY <1>4, Zenon
<1>6. Power(B, k) = P[k]
  BY DEF Power
<1> HIDE DEF P
<1>7. P = [i \in 0..k |-> P[i]] /\ P[0] = 1 /\ \A i \in 1..k : P[i] = B * P[i - 1]
  <2>1. ASSUME NEW i \in 0..k
        PROVE  P[i] = IF i = 0 THEN 1 ELSE B * P[i - 1]
    BY ONLY <1>5, Zenon, i \in 0..k
  <2>2. 0 \in 0..k /\ \A i \in 1..k : i \in 0..k /\ i # 0
    OBVIOUS
  <2>3. P = [i \in 0..k |-> P[i]]
    BY ONLY <1>5, <2>1, Zenon
  <2> QED
    BY ONLY <2>1, <2>2, <2>3, Zenon
<1>8. P = h
  <2> DEFINE T == {i \in 0..k : P[i] = h[i]}
  <2>1. 0 \in T
    BY <1>2, <1>7
  <2>2. ASSUME NEW i \in 1..k, i - 1 \in T PROVE i \in T
    <3>1. i \in 0..k /\ P[i - 1] = h[i - 1]
      BY <2>2
    <3> QED
      BY <3>1, <1>3, <1>7
  <2>3. T \in SUBSET (0..k)
    OBVIOUS
  <2> HIDE DEF T
  <2>4. T = 0..k
    BY <2>1, <2>2, <2>3, InductUpTo
  <2>5. \A i \in 0..k : P[i] = h[i]
    BY <2>4 DEF T
  <2> QED
    BY <2>5, <1>7
<1> QED
  BY <1>2, <1>3, <1>6, <1>8

(* A power is one at zero and B times the one before.                      *)
LEMMA PowerSteps ==
  ASSUME NEW B \in Nat
  PROVE  /\ Power(B, 0) = 1
         /\ \A k \in Nat : Power(B, k) \in Nat /\ Power(B, k + 1) = B * Power(B, k)
<1>1. Power(B, 0) = 1
  <2>1. PICK p \in [0..0 -> Nat] : p[0] = 1 /\ Power(B, 0) = p[0]
    BY PowerFunction
  <2> QED
    BY <2>1
<1>2. ASSUME NEW k \in Nat PROVE Power(B, k) \in Nat /\ Power(B, k + 1) = B * Power(B, k)
  <2>1. PICK p \in [0..k -> Nat] : p[0] = 1 /\ (\A i \in 1..k : p[i] = B * p[i - 1]) /\ Power(B, k) = p[k]
    BY PowerFunction
  <2>k. PICK m \in Nat : m = k + 1
    OBVIOUS
  <2>2. PICK q \in [0..m -> Nat] : q[0] = 1 /\ (\A i \in 1..m : q[i] = B * q[i - 1]) /\ Power(B, m) = q[m]
    BY PowerFunction
  <2> DEFINE T == {i \in 0..k : p[i] = q[i]}
  <2>3. 0 \in T
    BY <2>1, <2>2
  <2>4. ASSUME NEW i \in 1..k, i - 1 \in T PROVE i \in T
    <3>1. i \in 0..k /\ p[i - 1] = q[i - 1] /\ i \in 1..m
      BY <2>4, <2>k
    <3> QED
      BY <3>1, <2>1, <2>2
  <2>5. T \in SUBSET (0..k)
    OBVIOUS
  <2> HIDE DEF T
  <2>6. T = 0..k
    BY <2>3, <2>4, <2>5, InductUpTo
  <2>7. p[k] = q[k]
    <3>1. k \in 0..k
      OBVIOUS
    <3>2. k \in T
      BY ONLY <3>1, <2>6
    <3> QED
      BY <3>2 DEF T
  <2>8. m \in 1..m /\ m - 1 = k
    BY <2>k
  <2>9. q[m] = B * q[k]
    BY <2>2, <2>8
  <2> QED
    BY <2>1, <2>2, <2>7, <2>9, <2>k
<1> QED
  BY <1>1, <1>2

(* What Power is by its first values.                                      *)
LEMMA PowerType ==
  ASSUME NEW B \in Nat \ {0}, NEW k \in Nat
  PROVE  Power(B, k) \in Nat \ {0}
<1> DEFINE T == {i \in Nat : Power(B, i) > 0}
<1>1. 0 \in T
  BY PowerSteps
<1>2. ASSUME NEW i \in T PROVE i + 1 \in T
  <2>1. PICK x \in Nat : x = Power(B, i) /\ x > 0 /\ i + 1 \in Nat
    BY PowerSteps
  <2>2. Power(B, i + 1) = B * x
    BY PowerSteps, <2>1
  <2>3. B * x > 0
    BY <2>1
  <2> QED
    BY <2>1, <2>2, <2>3
<1>3. T \in SUBSET Nat
  OBVIOUS
<1> HIDE DEF T
<1>4. T = Nat
  BY <1>1, <1>2, <1>3, Induct
<1>5. Power(B, k) > 0
  BY <1>4 DEF T
<1> QED
  BY <1>5, PowerSteps

-----------------------------------------------------------------------------
(* Horner's steps.                                                         *)
Horner(h, B, d, n) ==
  /\ h \in [0..n -> Nat]
  /\ h[0] = 0
  /\ \A i \in 1..n : h[i] = B * h[i - 1] + d[n - i]

(* Number is the end of Horner's steps, most significant digit first.      *)
LEMMA NumberFunction ==
  ASSUME NEW B \in Nat, NEW n \in Nat, NEW d, \A i \in 0..n - 1 : d[i] \in Nat
  PROVE  \E h : Horner(h, B, d, n) /\ Number(B, d, n) = h[n]
<1>1. PICK e \in [1..n -> Nat] : \A i \in 1..n : e[i] = d[n - i]
  <2>1. \A i \in 1..n : n - i \in 0..n - 1
    OBVIOUS
  <2>2. [i \in 1..n |-> d[n - i]] \in [1..n -> Nat]
    BY <2>1
  <2> QED
    BY <2>2
<1>c. PICK h : Climbs(h, B, 0, e, n)
  <2>1. 0 \in Nat
    OBVIOUS
  <2> QED
    BY <2>1, Affine
<1>2. h \in [0..n -> Nat] /\ h[0] = 0 /\ \A i \in 1..n : h[i] = B * h[i - 1] + e[i]
  BY <1>c DEF Climbs
<1>3. \A i \in 1..n : h[i] = B * h[i - 1] + d[n - i]
  BY <1>1, <1>2
<1>4. h = [i \in 0..n |-> IF i = 0 THEN 0 ELSE B * h[i - 1] + d[n - i]]
  BY <1>2, <1>3
<1> DEFINE P == CHOOSE p : p = [i \in 0..n |-> IF i = 0 THEN 0 ELSE B * p[i - 1] + d[n - i]]
<1>5. P = [i \in 0..n |-> IF i = 0 THEN 0 ELSE B * P[i - 1] + d[n - i]]
  BY ONLY <1>4, Zenon
<1>6. Number(B, d, n) = P[n]
  BY DEF Number
<1> HIDE DEF P
<1>7. P = [i \in 0..n |-> P[i]] /\ P[0] = 0 /\ \A i \in 1..n : P[i] = B * P[i - 1] + d[n - i]
  <2>1. ASSUME NEW i \in 0..n
        PROVE  P[i] = IF i = 0 THEN 0 ELSE B * P[i - 1] + d[n - i]
    BY ONLY <1>5, Zenon, i \in 0..n
  <2>2. 0 \in 0..n /\ \A i \in 1..n : i \in 0..n /\ i # 0
    OBVIOUS
  <2>3. P = [i \in 0..n |-> P[i]]
    BY ONLY <1>5, <2>1, Zenon
  <2> QED
    BY ONLY <2>1, <2>2, <2>3, Zenon
<1>8. P = h
  <2>1. \A i \in 1..n : P[i] = B * P[i - 1] + e[i]
    BY <1>7, <1>1
  <2>2. Follows(P, B, 0, e, n)
    BY <2>1, <1>7 DEF Follows
  <2> QED
    BY <2>2, <1>c, AffineUnique
<1> QED
  BY <1>2, <1>3, <1>6, <1>8 DEF Horner

(* A number is built up from its lowest digit as well.                     *)
LEMMA NumberSteps ==
  ASSUME NEW B \in Nat, NEW d
  PROVE  /\ Number(B, d, 0) = 0
         /\ \A n \in Nat : (\A i \in 0..n - 1 : d[i] \in Nat) => Number(B, d, n) \in Nat
         /\ \A n \in Nat : (\A i \in 0..n : d[i] \in Nat)
                          => Number(B, d, n + 1) = Number(B, d, n) + Power(B, n) * d[n]
<1>1. Number(B, d, 0) = 0
  <2>1. PICK h : Horner(h, B, d, 0) /\ Number(B, d, 0) = h[0]
    <3>1. 0 \in Nat /\ \A i \in 0..0 - 1 : d[i] \in Nat
      OBVIOUS
    <3> QED
      BY <3>1, NumberFunction
  <2> QED
    BY <2>1 DEF Horner
<1>2. ASSUME NEW n \in Nat, \A i \in 0..n - 1 : d[i] \in Nat
      PROVE  Number(B, d, n) \in Nat
  <2>1. PICK h : Horner(h, B, d, n) /\ Number(B, d, n) = h[n]
    BY <1>2, NumberFunction
  <2> QED
    BY <2>1 DEF Horner
<1>3. ASSUME NEW n \in Nat, \A i \in 0..n : d[i] \in Nat
      PROVE  Number(B, d, n + 1) = Number(B, d, n) + Power(B, n) * d[n]
  <2>h. PICK h : Horner(h, B, d, n) /\ Number(B, d, n) = h[n]
    <3>1. \A i \in 0..n - 1 : d[i] \in Nat
      BY <1>3
    <3> QED
      BY <3>1, NumberFunction
  <2>1. h \in [0..n -> Nat] /\ h[0] = 0 /\ \A i \in 1..n : h[i] = B * h[i - 1] + d[n - i]
    BY <2>h DEF Horner
  <2>m. PICK m \in Nat : m = n + 1
    OBVIOUS
  <2>g. PICK g : Horner(g, B, d, m) /\ Number(B, d, m) = g[m]
    <3>1. \A i \in 0..m - 1 : d[i] \in Nat
      BY <1>3, <2>m
    <3> QED
      BY <3>1, NumberFunction
  <2>2. g \in [0..m -> Nat] /\ g[0] = 0 /\ \A i \in 1..m : g[i] = B * g[i - 1] + d[m - i]
    BY <2>g DEF Horner
  <2>x. PICK x \in Nat : x = d[n]
    BY <1>3
  <2> DEFINE T == {i \in 0..n : g[i + 1] = h[i] + Power(B, i) * x}
  <2>3. 0 \in T
    <3>1. 1 \in 1..m /\ m - 1 = n
      BY <2>m
    <3>2. g[1] = B * g[1 - 1] + d[m - 1]
      BY <3>1, <2>2
    <3>3. g[1] = x
      BY <3>1, <3>2, <2>2, <2>x
    <3>4. 0 + 1 = 1 /\ Power(B, 0) = 1 /\ h[0] = 0 /\ 0 + 1 * x = x
      BY <2>1, PowerSteps
    <3>5. g[0 + 1] = h[0] + Power(B, 0) * x /\ 0 \in 0..n
      BY <3>3, <3>4
    <3> QED
      BY ONLY <3>5
  <2>4. ASSUME NEW i \in 1..n, i - 1 \in T PROVE i \in T
    <3>1. g[i - 1 + 1] = h[i - 1] + Power(B, i - 1) * x /\ i - 1 + 1 = i /\ i - 1 \in Nat /\ i \in 0..n
      BY <2>4
    <3>2. i + 1 \in 1..m /\ i + 1 - 1 = i /\ m - (i + 1) = n - i /\ i \in 0..m /\ i - 1 \in 0..n
          /\ n - i \in 0..n
      BY <2>m
    <3>3. g[i + 1] = B * g[i] + d[n - i]
      BY <3>2, <2>2
    <3>4. h[i] = B * h[i - 1] + d[n - i]
      BY <2>1
    <3>5. PICK q \in Nat, y \in Nat, z \in Nat : q = Power(B, i - 1) /\ y = h[i - 1] /\ z = d[n - i]
      BY <3>1, <3>2, PowerSteps, <1>3, <2>1
    <3>6. Power(B, i) = B * q
      BY <3>1, <3>5, PowerSteps
    <3>7. B * (y + q * x) + z = (B * y + z) + (B * q) * x
      BY ONLY B \in Nat, y \in Nat, q \in Nat, x \in Nat, z \in Nat
    <3>8. g[i] = y + q * x
      BY <3>1, <3>5
    <3>9. g[i + 1] = h[i] + Power(B, i) * x
      BY <3>3, <3>4, <3>5, <3>6, <3>7, <3>8
    <3> QED
      BY <3>1, <3>9
  <2>5. T \in SUBSET (0..n)
    OBVIOUS
  <2> HIDE DEF T
  <2>6. T = 0..n
    BY <2>3, <2>4, <2>5, InductUpTo
  <2>7. g[n + 1] = h[n] + Power(B, n) * x
    <3>1. n \in 0..n
      OBVIOUS
    <3>2. n \in T
      BY ONLY <3>1, <2>6
    <3> QED
      BY <3>2 DEF T
  <2>8. g[m] = h[n] + Power(B, n) * d[n]
    BY <2>7, <2>x, <2>m
  <2> QED
    BY ONLY <2>8, <2>h, <2>g, <2>m
<1> QED
  BY <1>1, <1>2, <1>3

-----------------------------------------------------------------------------
(* Quotients of quotients, and the remainder by a product.                 *)
DividesTwice(v, X, Y, Z) ==
  v \div Z = (v \div X) \div Y /\ v % Z = (v % X) + X * ((v \div X) % Y)

(* Dividing by X and then by Y is dividing by their product.               *)
LEMMA DivideTwice ==
  ASSUME NEW v \in Nat, NEW X \in Nat \ {0}, NEW Y \in Nat \ {0}, NEW Z \in Nat, Z = X * Y
  PROVE  DividesTwice(v, X, Y, Z)
<1>1. PICK q \in Nat, r \in Nat : q = v \div X /\ r = v % X /\ r < X /\ v = X * q + r
  BY Division
<1>2. PICK p \in Nat, s \in Nat : p = q \div Y /\ s = q % Y /\ s < Y /\ q = Y * p + s
  BY Division
<1>3. X * Y \in Nat \ {0}
  OBVIOUS
<1>4. PICK t \in Nat : t = X * s + r
  OBVIOUS
<1>5. t < X * Y
  <2>1. PICK g \in Nat : Y = s + 1 + g
    <3>1. Y - s - 1 \in Nat /\ Y = s + 1 + (Y - s - 1)
      BY <1>2
    <3> QED
      BY <3>1
  <2>2. X * Y = X * s + X + X * g /\ X * g \in Nat /\ X * s \in Nat
    BY <2>1
  <2> QED
    BY <1>1, <1>4, <2>2
<1>6. v = p * (X * Y) + t
  <2>1. v = X * (Y * p + s) + r
    BY <1>1, <1>2
  <2>2. X * (Y * p + s) = p * (X * Y) + X * s
    OBVIOUS
  <2>3. p * (X * Y) \in Nat /\ X * s \in Nat
    OBVIOUS
  <2> QED
    BY <2>1, <2>2, <2>3, <1>4
<1>8. v \div Z = p /\ v % Z = t
  <2>1. Z \in Nat \ {0} /\ t < Z /\ v = p * Z + t
    BY <1>3, <1>5, <1>6
  <2> QED
    BY <2>1, QuotientIs
<1>9. t = r + X * s
  <2>1. X * s \in Nat
    OBVIOUS
  <2> QED
    BY <2>1, <1>4
<1> QED
  BY ONLY <1>1, <1>2, <1>8, <1>9 DEF DividesTwice

(* What is a multiple of C is not in the remainder.                        *)
LEMMA DropMultiple ==
  ASSUME NEW C \in Nat \ {0}, NEW z \in Nat, NEW w \in Nat
  PROVE  (C * z + w) % C = w % C /\ (C * z + w) \div C = z + (w \div C)
<1>1. PICK q \in Nat, r \in Nat : q = w \div C /\ r = w % C /\ r < C /\ w = C * q + r
  BY Division
<1>2. PICK k \in Nat : k = z + q
  OBVIOUS
<1>3. C * z + w = k * C + r
  <2>1. C * z + (C * q + r) = (z + q) * C + r
    OBVIOUS
  <2> QED
    BY <2>1, <1>1, <1>2
<1>4. PICK x \in Nat : x = C * z + w
  OBVIOUS
<1>5. (k * C + r) \div C = k /\ (k * C + r) % C = r
  BY <1>1, QuotientIs
<1>6. x \div C = k /\ x % C = r
  BY <1>3, <1>4, <1>5
<1> QED
  BY ONLY <1>1, <1>2, <1>4, <1>6

(* A remainder that is taken again is the same.                            *)
LEMMA SmallRemainder ==
  ASSUME NEW C \in Nat \ {0}, NEW w \in Nat, w < C
  PROVE  w % C = w /\ w \div C = 0
<1>1. 0 * C + w = w /\ 0 \in Nat
  OBVIOUS
<1> QED
  BY <1>1, QuotientIs

(* Exponents add and multiply.                                             *)
LEMMA PowerAdd ==
  ASSUME NEW B \in Nat \ {0}, NEW x \in Nat, NEW y \in Nat
  PROVE  Power(B, x + y) = Power(B, x) * Power(B, y)
<1> DEFINE T == {i \in Nat : Power(B, x + i) = Power(B, x) * Power(B, i)}
<1>x. PICK X \in Nat : X = Power(B, x)
  BY PowerType
<1>1. 0 \in T
  <2>1. Power(B, 0) = 1 /\ x + 0 = x /\ X * 1 = X
    BY PowerSteps
  <2> QED
    BY <2>1, <1>x
<1>2. ASSUME NEW i \in T PROVE i + 1 \in T
  <2>1. i \in Nat /\ i + 1 \in Nat /\ x + i \in Nat /\ x + (i + 1) = (x + i) + 1
    OBVIOUS
  <2>2. PICK I \in Nat : I = Power(B, i)
    BY <2>1, PowerType
  <2>3. Power(B, x + i) = X * I
    BY <2>2, <1>x
  <2>4. Power(B, i + 1) = B * I
    BY <2>1, <2>2, PowerSteps
  <2>5. Power(B, (x + i) + 1) = B * (X * I)
    BY <2>1, <2>3, PowerSteps
  <2>6. B * (X * I) = X * (B * I)
    BY ONLY B \in Nat, X \in Nat, I \in Nat
  <2> QED
    BY <2>1, <2>4, <2>5, <2>6, <1>x
<1>3. T \in SUBSET Nat
  OBVIOUS
<1> HIDE DEF T
<1>4. T = Nat
  BY <1>1, <1>2, <1>3, Induct
<1>5. y \in T
  BY <1>4
<1> QED
  BY <1>5 DEF T

(* A power of a power.                                                     *)
LEMMA PowerOfPower ==
  ASSUME NEW C \in Nat \ {0}, NEW m \in Nat, NEW i \in Nat
  PROVE  Power(Power(C, m), i) = Power(C, m * i)
<1>b. PICK B \in Nat \ {0} : B = Power(C, m)
  BY PowerType
<1> DEFINE T == {j \in Nat : Power(B, j) = Power(C, m * j)}
<1>1. 0 \in T
  <2>1. Power(B, 0) = 1 /\ Power(C, 0) = 1 /\ m * 0 = 0
    BY PowerSteps
  <2> QED
    BY <2>1
<1>2. ASSUME NEW j \in T PROVE j + 1 \in T
  <2>1. j \in Nat /\ j + 1 \in Nat /\ m * j \in Nat /\ m * (j + 1) = m + m * j
    OBVIOUS
  <2>2. Power(B, j + 1) = B * Power(B, j)
    BY <2>1, PowerSteps
  <2>j. PICK mj \in Nat : mj = m * j
    BY <2>1
  <2>3. Power(C, m + mj) = B * Power(C, mj)
    BY <1>b, PowerAdd
  <2>4. Power(B, j) = Power(C, mj)
    BY <2>j
  <2> QED
    BY <2>1, <2>2, <2>3, <2>4, <2>j
<1>3. T \in SUBSET Nat
  OBVIOUS
<1> HIDE DEF T
<1>4. T = Nat
  BY <1>1, <1>2, <1>3, Induct
<1>5. i \in T
  BY <1>4
<1> QED
  BY <1>5, <1>b DEF T

-----------------------------------------------------------------------------
(* Digits to the base B.                                                   *)
Digits(B, d, n) == \A i \in 0..n - 1 : d[i] \in 0..B - 1

(* n digits are worth less than the n-th power.                            *)
LEMMA NumberBound ==
  ASSUME NEW B \in Nat \ {0}, NEW d, NEW n \in Nat, Digits(B, d, n)
  PROVE  Number(B, d, n) \in Nat /\ Number(B, d, n) < Power(B, n)
<1>d. \A i \in 0..n - 1 : d[i] \in Nat /\ d[i] < B
  BY DEF Digits
<1> DEFINE T == {i \in 0..n : Number(B, d, i) < Power(B, i)}
<1>1. 0 \in T
  BY NumberSteps, PowerSteps
<1>2. ASSUME NEW i \in 1..n, i - 1 \in T PROVE i \in T
  <2>j. PICK j \in Nat : j = i - 1 /\ j + 1 = i /\ j \in 0..n - 1 /\ i \in 0..n
    OBVIOUS
  <2>0. \A k \in 0..j : d[k] \in Nat
    BY <1>d, <2>j
  <2>1. PICK x \in Nat, y \in Nat, z \in Nat : x = Number(B, d, j) /\ y = Power(B, j) /\ z = d[j]
    <3>1. \A k \in 0..j - 1 : d[k] \in Nat
      BY <2>0
    <3>2. Number(B, d, j) \in Nat
      BY <3>1, NumberSteps
    <3>3. d[j] \in Nat /\ Power(B, j) \in Nat
      BY <2>j, <1>d, PowerType
    <3> QED
      BY <3>2, <3>3
  <2>2. x < y
    BY <1>2, <2>1, <2>j
  <2>3. Number(B, d, i) = x + y * z
    <3>1. Number(B, d, j + 1) = Number(B, d, j) + Power(B, j) * d[j]
      BY <2>0, NumberSteps
    <3> QED
      BY <3>1, <2>1, <2>j
  <2>4. Power(B, i) = B * y
    BY <2>1, <2>j, PowerSteps
  <2>5. z < B
    BY <2>1, <2>j, <1>d
  <2>6. x + y * z < B * y
    <3>1. PICK g \in Nat : B = z + 1 + g
      <4>1. B - z - 1 \in Nat /\ B = z + 1 + (B - z - 1)
        BY <2>5
      <4> QED
        BY <4>1
    <3>2. B * y = y * z + y + g * y /\ g * y \in Nat /\ y * z \in Nat
      BY <3>1
    <3> QED
      BY <3>2, <2>2
  <2> QED
    BY <2>3, <2>4, <2>6, <2>j
<1>3. T \in SUBSET (0..n)
  OBVIOUS
<1> HIDE DEF T
<1>4. T = 0..n
  BY <1>1, <1>2, <1>3, InductUpTo
<1>5. Number(B, d, n) < Power(B, n)
  <2>1. n \in 0..n
    OBVIOUS
  <2>2. n \in T
    BY ONLY <2>1, <1>4
  <2> QED
    BY <2>2 DEF T
<1>6. Number(B, d, n) \in Nat
  BY <1>d, NumberSteps
<1> QED
  BY <1>5, <1>6

(* A digit is a digit.                                                     *)
LEMMA DigitType ==
  ASSUME NEW B \in Nat \ {0}, NEW v \in Nat, NEW k \in Nat
  PROVE  DigitOf(B, v, k) \in Nat /\ DigitOf(B, v, k) < B /\ DigitOf(B, v, k) \in 0..B - 1
<1>1. PICK p \in Nat \ {0} : p = Power(B, k)
  BY PowerType
<1>2. PICK q \in Nat : q = v \div p
  BY Division
<1>3. PICK r \in Nat : r = q % B /\ r < B
  BY Division
<1>4. DigitOf(B, v, k) = r
  BY <1>1, <1>2, <1>3 DEF DigitOf
<1> QED
  BY <1>3, <1>4

(* The number of the lowest n digits of v is the remainder of v.           *)
LEMMA NumberOfDigits ==
  ASSUME NEW B \in Nat \ {0}, NEW v \in Nat, NEW n \in Nat, NEW d,
         \A i \in 0..n - 1 : d[i] = DigitOf(B, v, i)
  PROVE  Number(B, d, n) = v % Power(B, n)
<1> DEFINE T == {i \in 0..n : Number(B, d, i) = v % Power(B, i)}
<1>1. 0 \in T
  <2>1. v % 1 = 0
    OBVIOUS
  <2>2. Number(B, d, 0) = 0 /\ Power(B, 0) = 1
    BY NumberSteps, PowerSteps
  <2> QED
    BY <2>1, <2>2
<1>2. ASSUME NEW i \in 1..n, i - 1 \in T PROVE i \in T
  <2>j. PICK j \in Nat : j = i - 1 /\ j + 1 = i /\ j \in 0..n - 1 /\ i \in 0..n
    OBVIOUS
  <2>0. \A k \in 0..j : d[k] \in Nat
    <3> TAKE k \in 0..j
    <3>1. k \in 0..n - 1 /\ k \in Nat
      BY <2>j
    <3> QED
      BY <3>1, DigitType
  <2>1. PICK p \in Nat \ {0} : p = Power(B, j)
    BY PowerType
  <2>2. Number(B, d, j) = v % p
    BY <1>2, <2>1, <2>j
  <2>3. d[j] = (v \div p) % B
    BY <2>1, <2>j DEF DigitOf
  <2>4. Number(B, d, j + 1) = Number(B, d, j) + p * d[j]
    BY <2>0, <2>1, NumberSteps
  <2>6. PICK z \in Nat : z = Power(B, j + 1) /\ z = p * B
    <3>1. Power(B, j + 1) = B * p
      BY <2>1, PowerSteps
    <3>2. PICK x \in Nat : x = B * p /\ x = p * B
      BY ONLY B \in Nat, p \in Nat
    <3> QED
      BY ONLY <3>1, <3>2
  <2>5. v % z = (v % p) + p * d[j]
    <3>1. DividesTwice(v, p, B, z)
      BY <2>6, DivideTwice
    <3> QED
      BY <3>1, <2>3 DEF DividesTwice
  <2>7. Number(B, d, i) = v % Power(B, i)
    BY <2>2, <2>3, <2>4, <2>5, <2>6, <2>j
  <2> QED
    BY <2>7, <2>j
<1>3. T \in SUBSET (0..n)
  OBVIOUS
<1> HIDE DEF T
<1>4. T = 0..n
  BY <1>1, <1>2, <1>3, InductUpTo
<1>5. n \in 0..n
  OBVIOUS
<1>6. n \in T
  BY ONLY <1>4, <1>5
<1> QED
  BY <1>6 DEF T

(* Above its lowest m digits a number is a multiple of the m-th power.     *)
LEMMA NumberSplits ==
  ASSUME NEW B \in Nat \ {0}, NEW d, NEW n \in Nat, NEW m \in 0..n,
         \A i \in 0..n - 1 : d[i] \in Nat
  PROVE  \E rest \in Nat : Number(B, d, n) = Number(B, d, m) + Power(B, m) * rest
<1>m. PICK p \in Nat \ {0} : p = Power(B, m)
  BY PowerType
<1>x. PICK x \in Nat : x = Number(B, d, m)
  <2>1. \A i \in 0..m - 1 : d[i] \in Nat
    OBVIOUS
  <2>2. m \in Nat
    OBVIOUS
  <2> QED
    BY <2>1, <2>2, NumberSteps
<1>n. PICK w \in Nat : w = n - m
  OBVIOUS
<1> DEFINE T == {i \in 0..w : \E rest \in Nat : Number(B, d, m + i) = x + p * rest}
<1>1. 0 \in T
  <2>1. x + p * 0 = x /\ m + 0 = m /\ 0 \in 0..w
    OBVIOUS
  <2>2. Number(B, d, m + 0) = x + p * 0
    BY <2>1, <1>x
  <2> QED
    BY <2>1, <2>2
<1>2. ASSUME NEW i \in 1..w, i - 1 \in T PROVE i \in T
  <2>j. PICK j \in Nat : j = i - 1 /\ j + 1 = i /\ i \in 0..w
    OBVIOUS
  <2>k. PICK k \in Nat : k = m + j /\ k + 1 = m + i /\ k \in 0..n - 1
    BY <2>j, <1>n
  <2>1. PICK rest \in Nat : Number(B, d, k) = x + p * rest
    BY <1>2, <2>j, <2>k
  <2>2. Number(B, d, k + 1) = Number(B, d, k) + Power(B, k) * d[k]
    <3>1. \A l \in 0..k : d[l] \in Nat
      BY <2>k
    <3> QED
      BY <3>1, NumberSteps
  <2>3. PICK y \in Nat, z \in Nat : y = Power(B, j) /\ z = d[k]
    BY <2>k, PowerType
  <2>4. Power(B, k) = p * y
    BY <2>k, <2>3, <1>m, PowerAdd
  <2>5. x + p * rest + (p * y) * z = x + p * (rest + y * z)
    BY ONLY x \in Nat, p \in Nat, rest \in Nat, y \in Nat, z \in Nat
  <2>6. rest + y * z \in Nat
    OBVIOUS
  <2>7. Number(B, d, m + i) = x + p * (rest + y * z)
    BY <2>1, <2>2, <2>3, <2>4, <2>5, <2>k
  <2> QED
    BY <2>6, <2>7, <2>j
<1>3. T \in SUBSET (0..w)
  OBVIOUS
<1>4. T = 0..w
  <2> HIDE DEF T
  <2> QED
    BY <1>1, <1>2, <1>3, InductUpTo
<1>5. w \in T
  <2>1. w \in 0..w
    OBVIOUS
  <2> HIDE DEF T
  <2> QED
    BY ONLY <1>4, <2>1
<1>6. m + w = n
  BY <1>n
<1> QED
  BY <1>5, <1>6, <1>m, <1>x

(* The digits of a number are the ones it was made of.                     *)
LEMMA DigitOfNumber ==
  ASSUME NEW B \in Nat \ {0}, NEW d, NEW n \in Nat, Digits(B, d, n), NEW k \in 0..n - 1
  PROVE  DigitOf(B, Number(B, d, n), k) = d[k]
<1>d. \A i \in 0..n - 1 : d[i] \in Nat /\ d[i] < B
  BY DEF Digits
<1>m. PICK m \in 0..n : m = k + 1 /\ m \in Nat /\ k \in Nat
  OBVIOUS
<1>1. PICK rest \in Nat : Number(B, d, n) = Number(B, d, m) + Power(B, m) * rest
  BY <1>d, NumberSplits
<1>2. PICK p \in Nat \ {0} : p = Power(B, k)
  BY <1>m, PowerType
<1>3. Power(B, m) = B * p
  BY <1>2, <1>m, PowerSteps
<1>4. PICK x \in Nat, z \in Nat : x = Number(B, d, k) /\ x < p /\ z = d[k] /\ z < B
  <2>1. Digits(B, d, k)
    BY DEF Digits
  <2> QED
    BY <2>1, <1>m, <1>d, <1>2, NumberBound
<1>5. Number(B, d, m) = x + p * z
  <2>1. \A i \in 0..k : d[i] \in Nat
    BY <1>d
  <2>2. Number(B, d, k + 1) = Number(B, d, k) + Power(B, k) * d[k]
    BY <2>1, <1>m, NumberSteps
  <2> QED
    BY <2>2, <1>2, <1>4, <1>m
<1>6. PICK q \in Nat : q = B * rest + z
  OBVIOUS
<1>7. Number(B, d, n) = q * p + x
  <2>1. x + p * z + (B * p) * rest = (B * rest + z) * p + x
    BY ONLY x \in Nat, p \in Nat, z \in Nat, B \in Nat, rest \in Nat
  <2> QED
    BY <2>1, <1>1, <1>3, <1>5, <1>6
<1>8. Number(B, d, n) \div p = q
  BY <1>4, <1>7, QuotientIs
<1>9. q % B = z
  <2>1. q % B = z % B
    BY <1>6, DropMultiple
  <2>2. z % B = z
    BY <1>4, SmallRemainder
  <2> QED
    BY <2>1, <2>2
<1> QED
  BY <1>2, <1>4, <1>8, <1>9 DEF DigitOf

(* Numbers with the same digits are the same.                              *)
LEMMA SameDigits ==
  ASSUME NEW B \in Nat \ {0}, NEW n \in Nat, NEW u \in Nat, NEW v \in Nat,
         u < Power(B, n), v < Power(B, n), \A i \in 0..n - 1 : DigitOf(B, u, i) = DigitOf(B, v, i)
  PROVE  u = v
<1> DEFINE d == [i \in 0..n - 1 |-> DigitOf(B, u, i)]
<1>1. \A i \in 0..n - 1 : d[i] = DigitOf(B, u, i) /\ d[i] = DigitOf(B, v, i)
  OBVIOUS
<1> HIDE DEF d
<1>2. Number(B, d, n) = u % Power(B, n) /\ Number(B, d, n) = v % Power(B, n)
  BY <1>1, NumberOfDigits
<1>3. u % Power(B, n) = u /\ v % Power(B, n) = v
  BY PowerType, SmallRemainder
<1> QED
  BY <1>2, <1>3

(* A number below the n-th power has no digits from n on.                  *)
LEMMA NoDigitsAbove ==
  ASSUME NEW B \in Nat \ {0}, NEW n \in Nat, NEW v \in Nat, v < Power(B, n), NEW k \in Nat, k >= n
  PROVE  DigitOf(B, v, k) = 0
<1>1. PICK j \in Nat : k = n + j
  <2>1. k - n \in Nat /\ k = n + (k - n)
    OBVIOUS
  <2> QED
    BY <2>1
<1>2. PICK p \in Nat \ {0}, q \in Nat \ {0} : p = Power(B, n) /\ q = Power(B, j)
  BY PowerType
<1>3. PICK z \in Nat : z = Power(B, k) /\ z = p * q
  <2>1. p * q \in Nat
    OBVIOUS
  <2> QED
    BY <2>1, <1>1, <1>2, PowerAdd
<1>4. v \div p = 0
  BY <1>2, SmallRemainder
<1>5. v \div z = (v \div p) \div q
  <2>1. DividesTwice(v, p, q, z)
    BY <1>3, DivideTwice
  <2> QED
    BY <2>1 DEF DividesTwice
<1>6. 0 \div q = 0 /\ 0 % B = 0
  <2>1. 0 \in Nat /\ 0 < q /\ 0 < B
    OBVIOUS
  <2> QED
    BY <2>1, SmallRemainder
<1> QED
  BY <1>3, <1>4, <1>5, <1>6 DEF DigitOf

(* The digits to a base C are those of the digits to a power of C.         *)
LEMMA DigitOfDigit ==
  ASSUME NEW C \in Nat \ {0}, NEW m \in Nat, NEW v \in Nat, NEW i \in Nat, NEW j \in Nat, j < m
  PROVE  DigitOf(C, v, m * i + j) = DigitOf(C, DigitOf(Power(C, m), v, i), j)
<1>1. PICK B \in Nat \ {0}, X \in Nat \ {0}, Y \in Nat \ {0} :
        B = Power(C, m) /\ X = Power(B, i) /\ Y = Power(C, j)
  BY PowerType
<1>2. PICK g \in Nat : m = j + (1 + g)
  <2>1. m - j - 1 \in Nat /\ m = j + (1 + (m - j - 1))
    OBVIOUS
  <2> QED
    BY <2>1
<1>3. PICK Z \in Nat \ {0} : Z = Power(C, g)
  BY PowerType
<1>4. B = Y * (C * Z)
  <2>1. PICK h \in Nat : h = g + 1 /\ h = 1 + g
    OBVIOUS
  <2>2. Power(C, h) = C * Z
    BY <2>1, <1>3, PowerSteps
  <2>3. Power(C, j + h) = Y * Power(C, h)
    BY <1>1, PowerAdd
  <2> QED
    BY <2>1, <2>2, <2>3, <1>1, <1>2
<1>5. PICK xy \in Nat : xy = Power(C, m * i + j) /\ xy = X * Y
  <2>1. PICK mi \in Nat : mi = m * i
    OBVIOUS
  <2>2. X = Power(C, mi)
    BY <2>1, <1>1, PowerOfPower
  <2>3. X * Y \in Nat
    OBVIOUS
  <2> QED
    BY <2>1, <2>2, <2>3, <1>1, PowerAdd
<1>6. v \div xy = (v \div X) \div Y
  <2>1. DividesTwice(v, X, Y, xy)
    BY <1>5, DivideTwice
  <2> QED
    BY <2>1 DEF DividesTwice
<1>7. PICK u \in Nat : u = v \div X
  BY Division
<1>8. PICK q \in Nat, r \in Nat : q = u \div B /\ r = u % B /\ u = B * q + r
  BY Division
<1>9. u \div Y = C * (Z * q) + (r \div Y)
  <2>1. B * q = Y * ((C * Z) * q)
    <3>1. (Y * (C * Z)) * q = Y * ((C * Z) * q)
      BY ONLY Y \in Nat, C \in Nat, Z \in Nat, q \in Nat
    <3> QED
      BY <3>1, <1>4
  <2>2. PICK z \in Nat : z = (C * Z) * q /\ z = C * (Z * q)
    <3>1. (C * Z) * q = C * (Z * q)
      BY ONLY C \in Nat, Z \in Nat, q \in Nat
    <3>2. Z * q \in Nat
      OBVIOUS
    <3>3. C * (Z * q) \in Nat
      BY <3>2
    <3> QED
      BY <3>1, <3>3
  <2>3. (Y * z + r) \div Y = z + (r \div Y)
    BY DropMultiple
  <2> QED
    BY <2>1, <2>2, <2>3, <1>8
<1>10. PICK s \in Nat : s = r \div Y
  BY Division
<1>11. (u \div Y) % C = s % C
  <2>1. PICK z \in Nat : z = Z * q
    OBVIOUS
  <2>2. (C * z + s) % C = s % C
    BY DropMultiple
  <2> QED
    BY <2>1, <2>2, <1>9, <1>10
<1>12. DigitOf(B, v, i) = r
  BY <1>1, <1>7, <1>8 DEF DigitOf
<1>13. DigitOf(C, r, j) = s % C
  BY <1>1, <1>10 DEF DigitOf
<1>14. DigitOf(C, v, m * i + j) = (u \div Y) % C
  BY <1>5, <1>6, <1>7 DEF DigitOf
<1> QED
  BY <1>1, <1>11, <1>12, <1>13, <1>14

(* The highest digit that differs decides.                                 *)
LEMMA NumberLess ==
  ASSUME NEW B \in Nat \ {0}, NEW d, NEW e, NEW n \in Nat, Digits(B, d, n), Digits(B, e, n),
         NEW k \in 0..n - 1, d[k] < e[k], \A i \in k + 1..n - 1 : d[i] = e[i]
  PROVE  Number(B, d, n) < Number(B, e, n)
<1>d. \A i \in 0..n - 1 : d[i] \in Nat /\ d[i] < B /\ e[i] \in Nat
  BY DEF Digits
<1>k. k \in Nat
  OBVIOUS
<1>n. PICK w \in Nat : n = k + 1 + w
  <2>1. n - k - 1 \in Nat /\ n = k + 1 + (n - k - 1)
    OBVIOUS
  <2> QED
    BY <2>1
<1>v. ASSUME NEW c, \A i \in 0..n - 1 : c[i] \in Nat, NEW m \in 0..n
      PROVE  /\ Number(B, c, m) \in Nat
             /\ m < n => Number(B, c, m + 1) = Number(B, c, m) + Power(B, m) * c[m]
  <2>1. m \in Nat /\ \A i \in 0..m - 1 : c[i] \in Nat
    BY <1>v
  <2>2. m < n => \A i \in 0..m : c[i] \in Nat
    BY <1>v
  <2> QED
    BY <2>1, <2>2, NumberSteps
<1> DEFINE T == {j \in 0..w : Number(B, d, k + 1 + j) < Number(B, e, k + 1 + j)}
<1>1. 0 \in T
  <2>1. PICK p \in Nat, x \in Nat, y \in Nat, a \in Nat, b \in Nat :
           p = Power(B, k) /\ x = Number(B, d, k) /\ y = Number(B, e, k) /\ a = d[k] /\ b = e[k]
    <3>1. k \in 0..n
      OBVIOUS
    <3> QED
      BY <3>1, <1>d, <1>v, <1>k, PowerType
  <2>2. x < p
    <3>1. Digits(B, d, k)
      BY DEF Digits
    <3> QED
      BY <3>1, <2>1, <1>k, NumberBound
  <2>3. Number(B, d, k + 1) = x + p * a /\ Number(B, e, k + 1) = y + p * b
    <3>1. k \in 0..n /\ k < n
      OBVIOUS
    <3> QED
      BY <3>1, <2>1, <1>d, <1>v
  <2>4. PICK g \in Nat : b = a + 1 + g
    <3>1. b - a - 1 \in Nat /\ b = a + 1 + (b - a - 1)
      BY <2>1
    <3> QED
      BY <3>1
  <2>5. p * b = p * a + p + p * g /\ p * g \in Nat /\ p * a \in Nat
    BY <2>4
  <2>6. x + p * a < y + p * b
    BY <2>2, <2>5
  <2>7. k + 1 + 0 = k + 1 /\ 0 \in 0..w
    OBVIOUS
  <2> QED
    BY <2>3, <2>6, <2>7
<1>2. ASSUME NEW j \in 1..w, j - 1 \in T PROVE j \in T
  <2>1. PICK m \in 0..n - 1 : m = k + 1 + (j - 1) /\ m + 1 = k + 1 + j /\ j \in 0..w
    BY <1>n, <1>k
  <2>2. d[m] = e[m] /\ m \in 0..n /\ m < n /\ m \in Nat
    BY <2>1, <1>k
  <2>3. PICK p \in Nat, x \in Nat, y \in Nat, a \in Nat :
           p = Power(B, m) /\ x = Number(B, d, m) /\ y = Number(B, e, m) /\ a = d[m]
    BY <1>d, <1>v, <2>2, PowerType
  <2>4. Number(B, d, m + 1) = x + p * a /\ Number(B, e, m + 1) = y + p * a
    BY <1>d, <1>v, <2>2, <2>3
  <2>5. x < y
    BY <1>2, <2>1, <2>3
  <2>6. x + p * a < y + p * a
    <3>1. p * a \in Nat
      OBVIOUS
    <3> QED
      BY <3>1, <2>5
  <2> QED
    BY <2>1, <2>4, <2>6
<1>3. T \in SUBSET (0..w)
  OBVIOUS
<1> HIDE DEF T
<1>4. T = 0..w
  BY <1>1, <1>2, <1>3, InductUpTo
<1>5. w \in T
  <2>1. w \in 0..w
    OBVIOUS
  <2> QED
    BY ONLY <1>4, <2>1
<1> QED
  BY <1>5, <1>n DEF T

-----------------------------------------------------------------------------
(* Adding word by word with a carry, in either direction, adds numbers.    *)
Carry(B, n, x, y, z, c) ==
  /\ \A i \in 0..n - 1 : x[i] \in Nat /\ y[i] \in Nat /\ z[i] \in Nat
  /\ \A i \in 0..n : c[i] \in Nat
  /\ \A i \in 0..n - 1 : x[i] + y[i] + c[i] = z[i] + B * c[i + 1]

(* Adding digit by digit with carries adds the numbers.                    *)
LEMMA Carries ==
  ASSUME NEW B \in Nat \ {0}, NEW n \in Nat, NEW x, NEW y, NEW z, NEW c, Carry(B, n, x, y, z, c)
  PROVE  Number(B, x, n) + Number(B, y, n) + c[0] = Number(B, z, n) + Power(B, n) * c[n]
<1>h. /\ \A i \in 0..n - 1 : x[i] \in Nat /\ y[i] \in Nat /\ z[i] \in Nat
      /\ \A i \in 0..n : c[i] \in Nat
      /\ \A i \in 0..n - 1 : x[i] + y[i] + c[i] = z[i] + B * c[i + 1]
  BY DEF Carry
<1>v. ASSUME NEW d, \A i \in 0..n - 1 : d[i] \in Nat, NEW m \in 0..n
      PROVE  /\ Number(B, d, m) \in Nat
             /\ m < n => Number(B, d, m + 1) = Number(B, d, m) + Power(B, m) * d[m]
  <2>1. m \in Nat /\ \A i \in 0..m - 1 : d[i] \in Nat
    BY <1>v
  <2>2. m < n => \A i \in 0..m : d[i] \in Nat
    BY <1>v
  <2> QED
    BY <2>1, <2>2, NumberSteps
<1> DEFINE T == {i \in 0..n : Number(B, x, i) + Number(B, y, i) + c[0]
                              = Number(B, z, i) + Power(B, i) * c[i]}
<1>1. 0 \in T
  <2>1. Number(B, x, 0) = 0 /\ Number(B, y, 0) = 0 /\ Number(B, z, 0) = 0 /\ Power(B, 0) = 1
    BY NumberSteps, PowerSteps
  <2>2. PICK u \in Nat : u = c[0] /\ 0 \in 0..n
    <3>1. 0 \in 0..n
      OBVIOUS
    <3> QED
      BY <3>1, <1>h
  <2>3. 0 + 0 + u = 0 + 1 * u
    OBVIOUS
  <2> QED
    BY <2>1, <2>2, <2>3
<1>2. ASSUME NEW i \in 1..n, i - 1 \in T PROVE i \in T
  <2>j. PICK j \in Nat : j = i - 1 /\ j + 1 = i /\ j \in 0..n - 1 /\ j \in 0..n /\ i \in 0..n /\ j < n
    OBVIOUS
  <2>1. PICK X \in Nat, Y \in Nat, Z \in Nat :
          X = Number(B, x, j) /\ Y = Number(B, y, j) /\ Z = Number(B, z, j)
    BY <1>v, <2>j, <1>h
  <2>2. PICK xj \in Nat, yj \in Nat, zj \in Nat : xj = x[j] /\ yj = y[j] /\ zj = z[j]
    BY <2>j, <1>h
  <2>3. PICK p \in Nat : p = Power(B, j)
    BY PowerType
  <2>4. PICK c0 \in Nat, cj \in Nat, ci \in Nat : c0 = c[0] /\ cj = c[j] /\ ci = c[i]
    <3>1. 0 \in 0..n
      OBVIOUS
    <3> QED
      BY <3>1, <2>j, <1>h
  <2>5. /\ Number(B, x, i) = X + p * xj
        /\ Number(B, y, i) = Y + p * yj
        /\ Number(B, z, i) = Z + p * zj
    BY <1>v, <2>j, <2>1, <2>2, <2>3, <1>h
  <2>6. X + Y + c0 = Z + p * cj
    BY <1>2, <2>j, <2>1, <2>3, <2>4
  <2>7. xj + yj + cj = zj + B * ci
    BY <2>j, <2>2, <2>4, <1>h
  <2>8. Power(B, i) = B * p
    BY <2>j, <2>3, PowerSteps
  <2>9. X + p * xj + (Y + p * yj) + c0 = Z + p * zj + (B * p) * ci
    <3>1. p * (xj + yj + cj) = p * (zj + B * ci)
      BY <2>7
    <3>2. p * (xj + yj + cj) = p * xj + p * yj + p * cj
      BY ONLY p \in Nat, xj \in Nat, yj \in Nat, cj \in Nat
    <3>3. p * (zj + B * ci) = p * zj + (B * p) * ci
      BY ONLY p \in Nat, zj \in Nat, B \in Nat, ci \in Nat
    <3>4. p * xj \in Nat /\ p * yj \in Nat /\ p * cj \in Nat /\ p * zj \in Nat /\ (B * p) * ci \in Nat
      OBVIOUS
    <3> QED
      BY <3>1, <3>2, <3>3, <3>4, <2>6
  <2>10. Number(B, x, i) + Number(B, y, i) + c[0] = Number(B, z, i) + Power(B, i) * c[i]
    BY <2>4, <2>5, <2>8, <2>9
  <2> QED
    BY <2>10, <2>j
<1>3. T \in SUBSET (0..n)
  OBVIOUS
<1> HIDE DEF T
<1>4. T = 0..n
  BY <1>1, <1>2, <1>3, InductUpTo
<1>5. n \in T
  <2>1. n \in 0..n
    OBVIOUS
  <2> QED
    BY ONLY <1>4, <2>1
<1> QED
  BY <1>5 DEF T

(* Zeros are worth nothing.                                                *)
LEMMA NumberOfZeros ==
  ASSUME NEW B \in Nat \ {0}, NEW n \in Nat, NEW d, \A i \in 0..n - 1 : d[i] = 0
  PROVE  Number(B, d, n) = 0
<1>1. \A i \in Nat : DigitOf(B, 0, i) = 0
  <2>1. 0 < Power(B, 0) /\ 0 \in Nat
    BY PowerSteps
  <2>2. \A i \in Nat : i >= 0
    OBVIOUS
  <2> QED
    BY <2>1, <2>2, NoDigitsAbove
<1>2. Number(B, d, n) = 0 % Power(B, n)
  <2>1. \A i \in 0..n - 1 : d[i] = DigitOf(B, 0, i)
    BY <1>1
  <2>2. 0 \in Nat
    OBVIOUS
  <2> QED
    BY <2>1, <2>2, NumberOfDigits
<1>3. PICK p \in Nat \ {0} : p = Power(B, n)
  BY PowerType
<1>4. 0 % p = 0
  BY SmallRemainder
<1> QED
  BY <1>2, <1>3, <1>4

-----------------------------------------------------------------------------
(* Words of 64 bits.                                                       *)

(* The carries of a sum, each given by the bit below it.                   *)
Carried(C, a, b) ==
  /\ C \subseteq 1..63
  /\ \A i \in 1..63 : i \in C <=> \/ i - 1 \in a /\ i - 1 \in b
                                  \/ i - 1 \in C /\ (i - 1 \in a \/ i - 1 \in b)

(* CarriesInto finds them.                                                 *)
LEMMA CarriesAre ==
  ASSUME NEW a, NEW b
  PROVE  Carried(CarriesInto(a, b), a, b)
<1> DEFINE F == CHOOSE f : f = [i \in 0..63 |->
                  IF i = 0 THEN {}
                  ELSE IF i - 1 \in a \cap b \/ (i - 1 \in f[i - 1] /\ i - 1 \in a \cup b)
                       THEN f[i - 1] \cup {i} ELSE f[i - 1]]
           V == SUBSET Nat
           On(i, s) == i - 1 \in a \cap b \/ (i - 1 \in s /\ i - 1 \in a \cup b)
           step == [i \in Nat |-> [s \in V |-> IF On(i, s) THEN s \cup {i} ELSE s]]
<1>1. CarriesInto(a, b) = F[63]
  BY DEF CarriesInto
<1>2. step \in [Nat -> [V -> V]]
  OBVIOUS
<1>3. PICK f : Iterates(f, V, {}, step, 63)
  BY <1>2, RecursionUpTo
<1>4. /\ f \in [0..63 -> V] /\ f[0] = {}
      /\ \A i \in 1..63 : f[i] = IF On(i, f[i - 1]) THEN f[i - 1] \cup {i} ELSE f[i - 1]
  <2>1. f \in [0..63 -> V] /\ f[0] = {} /\ \A i \in 1..63 : f[i] = step[i][f[i - 1]]
    BY <1>3 DEF Iterates
  <2>2. \A i \in 1..63 : i \in Nat /\ f[i - 1] \in V
    <3>1. \A i \in 1..63 : i \in Nat /\ i - 1 \in 0..63
      OBVIOUS
    <3> QED
      BY <2>1, <3>1
  <2>3. \A i \in Nat, s \in V : step[i][s] = IF On(i, s) THEN s \cup {i} ELSE s
    OBVIOUS
  <2> HIDE DEF step, On
  <2> QED
    BY <2>1, <2>2, <2>3
<1>5. f = [i \in 0..63 |->
             IF i = 0 THEN {}
             ELSE IF i - 1 \in a \cap b \/ (i - 1 \in f[i - 1] /\ i - 1 \in a \cup b)
                  THEN f[i - 1] \cup {i} ELSE f[i - 1]]
  BY <1>4
<1>6. F = [i \in 0..63 |->
             IF i = 0 THEN {}
             ELSE IF i - 1 \in a \cap b \/ (i - 1 \in F[i - 1] /\ i - 1 \in a \cup b)
                  THEN F[i - 1] \cup {i} ELSE F[i - 1]]
  BY <1>5
<1> HIDE DEF F
<1>m. \A i \in 1..63 : F[i] = IF On(i, F[i - 1]) THEN F[i - 1] \cup {i} ELSE F[i - 1]
  <2>1. ASSUME NEW i \in 1..63
        PROVE  F[i] = IF On(i, F[i - 1]) THEN F[i - 1] \cup {i} ELSE F[i - 1]
    <3>1. i \in 0..63 /\ i # 0
      OBVIOUS
    <3>2. \A k \in 0..63 : F[k] = IF k = 0 THEN {}
                                 ELSE IF On(k, F[k - 1]) THEN F[k - 1] \cup {k} ELSE F[k - 1]
      BY <1>6, Zenon
    <3> HIDE DEF On
    <3> QED
      BY <3>1, <3>2
  <2> QED
    BY <2>1
<1>7. Takes(F, V, {}, step, 63)
  <2>2. \A i \in Nat, s \in V : step[i][s] = IF On(i, s) THEN s \cup {i} ELSE s
    OBVIOUS
  <2>3. F = [i \in 0..63 |-> F[i]] /\ F[0] = {}
    BY <1>6
  <2> HIDE DEF step, On
  <2>4. \A i \in 1..63 : i \in Nat
    OBVIOUS
  <2> QED
    BY <1>m, <2>2, <2>3, <2>4 DEF Takes
<1>8. /\ F \in [0..63 -> V] /\ F[0] = {}
      /\ \A i \in 1..63 : F[i] = IF On(i, F[i - 1]) THEN F[i - 1] \cup {i} ELSE F[i - 1]
  <2>1. Iterates(F, V, {}, step, 63)
    BY <1>2, <1>7, StepsAre
  <2> QED
    BY <1>m, <2>1 DEF Iterates
<1> HIDE DEF step
<1> DEFINE P == {i \in 0..63 : F[i] \subseteq 1..i}
           Q == {i \in 0..63 : \A j \in 0..i : \A k \in 0..63 : k <= j => (k \in F[i] <=> k \in F[j])}
<1>9. P = 0..63
  <2>1. 0 \in P
    BY <1>8
  <2>2. ASSUME NEW i \in 1..63, i - 1 \in P PROVE i \in P
    BY <1>8, <2>2
  <2>3. 63 \in Nat /\ P \in SUBSET (0..63)
    OBVIOUS
  <2> HIDE DEF P
  <2> QED
    BY <2>1, <2>2, <2>3, InductUpTo
<1>10. Q = 0..63
  <2>1. 0 \in Q
    OBVIOUS
  <2>2. ASSUME NEW i \in 1..63, i - 1 \in Q PROVE i \in Q
    <3>1. \A k \in 0..63 : k <= i - 1 => (k \in F[i] <=> k \in F[i - 1])
      BY <1>8
    <3>2. ASSUME NEW j \in 0..i, NEW k \in 0..63, k <= j PROVE k \in F[i] <=> k \in F[j]
      <4>1. CASE j = i
        BY <4>1
      <4>2. CASE j # i
        <5>1. j \in 0..i - 1 /\ k <= i - 1
          BY <3>2, <4>2
        <5> QED
          BY <2>2, <3>1, <3>2, <5>1
      <4> QED
        BY <4>1, <4>2
    <3> QED
      BY <3>2
  <2>3. 63 \in Nat /\ Q \in SUBSET (0..63)
    OBVIOUS
  <2> HIDE DEF Q
  <2> QED
    BY <2>1, <2>2, <2>3, InductUpTo
<1>11. ASSUME NEW i \in 1..63 PROVE i \in F[63] <=> On(i, F[63])
  <2>1. i \in 0..63 /\ i - 1 \in 0..63 /\ i <= i /\ i - 1 <= i - 1 /\ i \in 0..63 /\ 63 \in 0..63
    OBVIOUS
  <2>2. (i \in F[63] <=> i \in F[i]) /\ (i - 1 \in F[63] <=> i - 1 \in F[i - 1])
    BY <1>10, <2>1
  <2>3. i \notin F[i - 1]
    BY <1>9, <2>1
  <2>4. F[i] = IF On(i, F[i - 1]) THEN F[i - 1] \cup {i} ELSE F[i - 1]
    BY <1>8
  <2> QED
    BY <2>2, <2>3, <2>4
<1>12. F[63] \subseteq 1..63
  BY <1>9
<1> QED
  BY <1>1, <1>11, <1>12 DEF Carried

(* Exclusive or, bit by bit.                                               *)
LEMMA InXor ==
  ASSUME NEW a, NEW b, NEW k
  PROVE  k \in Xor64(a, b) <=> (k \in a /\ k \notin b) \/ (k \in b /\ k \notin a)
BY DEF Xor64

(* An odd number of three.                                                 *)
Odd(p, q, r) == \/ p /\ q /\ r
                \/ p /\ ~q /\ ~r
                \/ ~p /\ q /\ ~r
                \/ ~p /\ ~q /\ r

(* A word as a number.                                                     *)
Bit(a, k) == IF k \in a THEN 1 ELSE 0
Bits(a) == [k \in 0..63 |-> Bit(a, k)]
Worth(a) == Number(2, Bits(a), 64)

(* It is below 2^64.                                                      *)
LEMMA WorthType ==
  ASSUME NEW a
  PROVE  Worth(a) \in Nat /\ Worth(a) < Power(2, 64)
<1>1. Digits(2, Bits(a), 64)
  BY DEF Digits, Bits, Bit
<1> QED
  BY <1>1, NumberBound DEF Worth

(* Words that are worth the same are the same.                             *)
LEMMA WorthTells ==
  ASSUME NEW a \in Word64, NEW b \in Word64, Worth(a) = Worth(b)
  PROVE  a = b
<1>1. Digits(2, Bits(a), 64) /\ Digits(2, Bits(b), 64)
  BY DEF Digits, Bits, Bit
<1>2. ASSUME NEW k \in 0..63 PROVE k \in a <=> k \in b
  <2>1. k \in 0..64 - 1 /\ 2 \in Nat \ {0} /\ 64 \in Nat
    OBVIOUS
  <2>2. DigitOf(2, Worth(a), k) = Bits(a)[k] /\ DigitOf(2, Worth(b), k) = Bits(b)[k]
    BY <1>1, <2>1, DigitOfNumber DEF Worth
  <2>3. Bits(a)[k] = Bits(b)[k]
    BY <2>2
  <2> QED
    BY <2>3 DEF Bits, Bit
<1> QED
  BY <1>2 DEF Word64

(* Add64 adds modulo 2^64.                                                 *)
LEMMA AddCounts ==
  ASSUME NEW a \in Word64, NEW b \in Word64
  PROVE  Add64(a, b) \in Word64 /\ Worth(Add64(a, b)) = (Worth(a) + Worth(b)) % Power(2, 64)
<1>1. PICK C : C = CarriesInto(a, b) /\ Carried(C, a, b)
  BY CarriesAre
<1>2. /\ C \subseteq 1..63
      /\ \A i \in 1..63 : i \in C <=> \/ i - 1 \in a /\ i - 1 \in b
                                      \/ i - 1 \in C /\ (i - 1 \in a \/ i - 1 \in b)
  BY <1>1 DEF Carried
<1>3. PICK s : s = Add64(a, b)
  OBVIOUS
<1>4. \A k : k \in s <=> Odd(k \in a, k \in b, k \in C)
  <2>1. PICK x : x = Xor64(a, b)
    OBVIOUS
  <2>2. s = Xor64(x, C)
    BY <1>1, <1>3, <2>1 DEF Add64
  <2>3. ASSUME NEW k PROVE k \in s <=> Odd(k \in a, k \in b, k \in C)
    <3>1. k \in s <=> (k \in x /\ k \notin C) \/ (k \in C /\ k \notin x)
      BY <2>2, InXor
    <3>2. k \in x <=> (k \in a /\ k \notin b) \/ (k \in b /\ k \notin a)
      BY <2>1, InXor
    <3> QED
      BY <3>1, <3>2 DEF Odd
  <2> QED
    BY <2>3
<1>5. s \in Word64
  <2>1. \A k : k \in s => k \in 0..63
    <3>1. a \subseteq 0..63 /\ b \subseteq 0..63 /\ C \subseteq 0..63
      BY <1>2 DEF Word64
    <3>2. ASSUME NEW k, k \in s PROVE k \in a \/ k \in b \/ k \in C
      BY <1>4, <3>2, Zenon DEF Odd
    <3> QED
      BY <3>1, <3>2
  <2>2. s = Xor64(Xor64(a, b), C)
    BY <1>1, <1>3 DEF Add64
  <2> QED
    BY <2>1, <2>2 DEF Word64, Xor64
<1>6. PICK out : out = IF (63 \in a /\ 63 \in b) \/ (63 \in C /\ (63 \in a \/ 63 \in b)) THEN 1 ELSE 0
  OBVIOUS
<1> DEFINE c == [i \in 0..64 |-> IF i = 64 THEN out ELSE Bit(C, i)]
<1>7. Carry(2, 64, Bits(a), Bits(b), Bits(s), c)
  <2>1. \A i \in 0..63 : /\ Bits(a)[i] \in Nat /\ Bits(a)[i] = Bit(a, i)
                         /\ Bits(b)[i] \in Nat /\ Bits(b)[i] = Bit(b, i)
                         /\ Bits(s)[i] \in Nat /\ Bits(s)[i] = Bit(s, i)
    BY DEF Bits, Bit
  <2>2. \A i \in 0..64 : c[i] \in Nat
    BY <1>6 DEF Bit
  <2>3. ASSUME NEW i \in 0..63
        PROVE  Bit(a, i) + Bit(b, i) + c[i] = Bit(s, i) + 2 * c[i + 1]
    <3>1. c[i] = Bit(C, i)
      OBVIOUS
    <3>2. c[i + 1] = IF (i \in a /\ i \in b) \/ (i \in C /\ (i \in a \/ i \in b)) THEN 1 ELSE 0
      <4>1. CASE i = 63
        BY <1>6, <4>1
      <4>2. CASE i # 63
        <5>1. i + 1 \in 1..63 /\ (i + 1) - 1 = i
          BY <4>2
        <5>2. c[i + 1] = Bit(C, i + 1)
          BY <4>2
        <5> QED
          BY <1>2, <5>1, <5>2 DEF Bit
      <4> QED
        BY <4>1, <4>2
    <3>3. i \in s <=> Odd(i \in a, i \in b, i \in C)
      BY <1>4
    <3> HIDE DEF c
    <3>4. PICK p \in 0..1, q \in 0..1, r \in 0..1, t \in 0..1, u \in 0..1 : /\ p = Bit(a, i) /\ q = Bit(b, i) /\ r = c[i]
                               /\ t = Bit(s, i) /\ u = c[i + 1]
      BY <3>1, <3>2 DEF Bit
    <3>5. /\ p = IF i \in a THEN 1 ELSE 0
          /\ q = IF i \in b THEN 1 ELSE 0
          /\ r = IF i \in C THEN 1 ELSE 0
          /\ t = IF i \in s THEN 1 ELSE 0
      BY <3>1, <3>4 DEF Bit
    <3>6. u = IF (i \in a /\ i \in b) \/ (i \in C /\ (i \in a \/ i \in b)) THEN 1 ELSE 0
      BY <3>2, <3>4
    <3>7. p + q + r = t + 2 * u
      BY <3>3, <3>5, <3>6 DEF Odd
    <3> QED
      BY <3>4, <3>7
  <2> HIDE DEF c
  <2>4. 64 - 1 = 63
    OBVIOUS
  <2> QED
    BY <2>1, <2>2, <2>3, <2>4 DEF Carry
<1>8. c[0] = 0 /\ c[64] \in Nat
  BY <1>2, <1>6 DEF Bit
<1> HIDE DEF c
<1>9. Worth(a) + Worth(b) + c[0] = Worth(s) + Power(2, 64) * c[64]
  BY <1>7, Carries DEF Worth
<1>10. PICK M \in Nat \ {0}, x \in Nat, y \in Nat, z \in Nat, o \in Nat :
         M = Power(2, 64) /\ x = Worth(a) /\ y = Worth(b) /\ z = Worth(s) /\ o = c[64] /\ z < M
  <2>1. Power(2, 64) \in Nat \ {0}
    <3>1. 2 \in Nat \ {0} /\ 64 \in Nat
      OBVIOUS
    <3> QED
      BY <3>1, PowerType
  <2> QED
    BY <1>8, <2>1, WorthType
<1>11. x + y = M * o + z
  <2>1. x + y + 0 = z + M * o
    BY <1>8, <1>9, <1>10
  <2>2. M * o \in Nat
    OBVIOUS
  <2> QED
    BY <2>1, <2>2
<1>12. (M * o + z) % M = z
  <2>1. (M * o + z) % M = z % M
    BY DropMultiple
  <2>2. z % M = z
    BY <1>10, SmallRemainder
  <2> QED
    BY <2>1, <2>2
<1> QED
  BY <1>3, <1>5, <1>10, <1>11, <1>12

(* A remainder taken before an addition makes no difference after it.      *)
LEMMA RemainderFirst ==
  ASSUME NEW M \in Nat \ {0}, NEW x \in Nat, NEW c \in Nat
  PROVE  ((x % M) + c) % M = (x + c) % M
<1>1. PICK q \in Nat, r \in Nat : r = x % M /\ x = M * q + r
  BY Division
<1>2. (M * q + (r + c)) % M = (r + c) % M
  <2>1. r + c \in Nat
    OBVIOUS
  <2> QED
    BY <2>1, DropMultiple
<1>3. PICK p \in Nat : p = M * q
  OBVIOUS
<1>4. p + (r + c) = x + c
  BY <1>1, <1>3
<1> QED
  BY <1>1, <1>2, <1>3, <1>4

(* Nothing added is nothing changed.                                       *)
LEMMA AddNothing ==
  ASSUME NEW a \in Word64
  PROVE  Add64({}, a) = a /\ Add64(a, {}) = a
<1>1. {} \in Word64
  BY DEF Word64
<1>2. Worth({}) = 0
  <2>1. 2 \in Nat \ {0} /\ 64 \in Nat /\ \A i \in 0..64 - 1 : Bits({})[i] = 0
    BY DEF Bits, Bit
  <2> QED
    BY <2>1, NumberOfZeros DEF Worth
<1>3. PICK M \in Nat \ {0}, v \in Nat : M = Power(2, 64) /\ v = Worth(a) /\ v < M
  <2>1. 2 \in Nat \ {0} /\ 64 \in Nat
    OBVIOUS
  <2>2. Power(2, 64) \in Nat \ {0}
    BY <2>1, PowerType
  <2> QED
    BY <2>2, WorthType
<1>4. (0 + v) % M = v /\ (v + 0) % M = v
  <2>1. v % M = v /\ 0 + v = v /\ v + 0 = v
    BY <1>3, SmallRemainder
  <2> QED
    BY <2>1
<1>5. Add64({}, a) \in Word64 /\ Worth(Add64({}, a)) = Worth(a)
  BY <1>1, <1>2, <1>3, <1>4, AddCounts
<1>6. Add64(a, {}) \in Word64 /\ Worth(Add64(a, {})) = Worth(a)
  BY <1>1, <1>2, <1>3, <1>4, AddCounts
<1> QED
  BY <1>5, <1>6, WorthTells

(* It does not matter in which order three words are added.                *)
LEMMA AddAssociates ==
  ASSUME NEW a \in Word64, NEW b \in Word64, NEW c \in Word64
  PROVE  Add64(Add64(a, b), c) = Add64(a, Add64(b, c))
<1>1. PICK M \in Nat \ {0}, x \in Nat, y \in Nat, z \in Nat :
        M = Power(2, 64) /\ x = Worth(a) /\ y = Worth(b) /\ z = Worth(c)
  <2>1. 2 \in Nat \ {0} /\ 64 \in Nat
    OBVIOUS
  <2>2. Power(2, 64) \in Nat \ {0}
    BY <2>1, PowerType
  <2> QED
    BY <2>2, WorthType
<1>2. PICK ab \in Word64, bc \in Word64 : ab = Add64(a, b) /\ bc = Add64(b, c)
  BY AddCounts
<1>3. PICK u \in Nat, v \in Nat : u = (x + y) % M /\ v = (y + z) % M
  OBVIOUS
<1>4. Worth(ab) = u /\ Worth(bc) = v
  BY <1>1, <1>2, <1>3, AddCounts
<1>5. /\ Add64(ab, c) \in Word64 /\ Worth(Add64(ab, c)) = (u + z) % M
      /\ Add64(a, bc) \in Word64 /\ Worth(Add64(a, bc)) = (x + v) % M
  BY <1>1, <1>4, AddCounts
<1>6. (u + z) % M = (x + v) % M
  <2>1. PICK s \in Nat, t \in Nat : s = x + y /\ t = y + z
    OBVIOUS
  <2>2. (u + z) % M = (s + z) % M
    BY <1>3, <2>1, RemainderFirst
  <2>3. (v + x) % M = (t + x) % M
    BY <1>3, <2>1, RemainderFirst
  <2>4. s + z = t + x /\ v + x = x + v
    BY <2>1
  <2> QED
    BY <2>2, <2>3, <2>4
<1>7. Add64(ab, c) = Add64(a, bc)
  BY <1>5, <1>6, WorthTells
<1> QED
  BY <1>2, <1>7

(* The other operations on words give words.                               *)
LEMMA WordsStay ==
  ASSUME NEW a \in Word64, NEW b \in Word64, NEW n \in Nat
  PROVE  Xor64(a, b) \in Word64 /\ RotL64(a, n) \in Word64
<1>1. \A k \in 0..63 : (k + n) % 64 \in 0..63
  OBVIOUS
<1> QED
  BY <1>1 DEF Word64, Xor64, RotL64

(* A constant is a word, and so is a small number.                         *)
LEMMA ConstantIsWord ==
  /\ \A a, b, c, d : Hex(a, b, c, d) \in Word64
  /\ \A v : Small(v) \in Word64
<1>1. ASSUME NEW a, NEW b, NEW c, NEW d PROVE Hex(a, b, c, d) \in Word64
  <2>1. \A j \in 0..15 : 48 + j \in 0..63 /\ 32 + j \in 0..63 /\ 16 + j \in 0..63 /\ 0 + j \in 0..63
    OBVIOUS
  <2> QED
    BY <2>1 DEF Hex, Word64
<1> QED
  BY <1>1 DEF Small
=============================================================================
