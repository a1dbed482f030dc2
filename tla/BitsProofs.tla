----------------------------- MODULE BitsProofs -----------------------------
(***************************************************************************)
(* What the proofs about the two codecs need of numbers and of the         *)
(* operators of Bits: induction and recursion on the natural numbers,      *)
(* division, powers of two, fields, and reads.                             *)
(***************************************************************************)
EXTENDS Bits, FiniteSetTheorems, SequenceTheorems, TLAPS

(* Induction, in terms of a set: the induction theorems of the library have  *)
(* an operator for a parameter, which the provers do not instantiate. The    *)
(* intervals 1 .. n are finite sets, of which inclusion is well founded.     *)
LEMMA SetInduction ==
  ASSUME NEW S \in SUBSET Nat, 0 \in S, \A n \in S : n + 1 \in S
  PROVE  S = Nat
<1> SUFFICES ASSUME S # Nat PROVE FALSE
  OBVIOUS
<1> DEFINE T == {1 .. n : n \in Nat \ S}
           R == StrictSubsetOrdering(Nat)
           F == FiniteSubsetsOf(Nat)
<1>1. T \subseteq F
  <2>1. ASSUME NEW n \in Nat PROVE 1 .. n \subseteq Nat /\ IsFiniteSet(1 .. n)
    BY FS_Interval
  <2> QED
    BY <2>1 DEF FiniteSubsetsOf
<1>2. T # {}
  OBVIOUS
<1>3. IsWellFoundedOn(R, F)
  BY FS_StrictSubsetOrderingWellFounded
<1>4. PICK x \in T : \A y \in T : ~ (<<y, x>> \in R)
  <2> HIDE DEF T, R, F
  <2> QED
    BY <1>1, <1>2, <1>3, WFMin
<1>5. PICK m \in Nat \ S : x = 1 .. m
  OBVIOUS
<1>6. m # 0 /\ m - 1 \in Nat /\ (m - 1) + 1 = m
  OBVIOUS
<1>7. m - 1 \notin S
  BY <1>5, <1>6
<1>8. 1 .. m - 1 \in T
  BY <1>6, <1>7
<1>9. <<1 .. m - 1, 1 .. m>> \in R
  <2>1. 1 .. m - 1 \subseteq Nat /\ 1 .. m \subseteq Nat /\ 1 .. m - 1 \subseteq 1 .. m
        /\ m \in 1 .. m /\ m \notin 1 .. m - 1
    BY <1>5, <1>6
  <2> QED
    BY <2>1 DEF StrictSubsetOrdering
<1> QED
  BY <1>4, <1>5, <1>8, <1>9

(* A set of naturals with a member has a least one: the induction these      *)
(* proofs rest on.                                                           *)
LEMMA LeastExists ==
  ASSUME NEW S \in SUBSET Nat, S # {}
  PROVE  \E x \in S : \A y \in S : x <= y
<1> SUFFICES ASSUME \A x \in S : \E y \in S : y < x PROVE FALSE
  OBVIOUS
<1> DEFINE V == {n \in Nat : \A x \in S : x > n}
<1>1. 0 \in V
  OBVIOUS
<1>2. ASSUME NEW n \in V PROVE n + 1 \in V
  <2>1. n + 1 \notin S
    <3>1. ASSUME n + 1 \in S PROVE FALSE
      <4>1. PICK y \in S : y < n + 1
        BY <3>1
      <4> QED
        BY <4>1
    <3> QED
      BY <3>1
  <2>2. \A x \in S : x > n
    OBVIOUS
  <2> QED
    BY <2>1, <2>2
<1>3. V \in SUBSET Nat
  OBVIOUS
<1> HIDE DEF V
<1>4. V = Nat
  BY <1>1, <1>2, <1>3, SetInduction
<1>5. PICK x \in S : TRUE
  OBVIOUS
<1>6. x \in V
  BY <1>4
<1> QED
  BY <1>6 DEF V

(* And a bounded one has a greatest. *)
LEMMA GreatestExists ==
  ASSUME NEW n \in Nat, NEW S \in SUBSET (0 .. n), S # {}
  PROVE  \E x \in S : \A y \in S : x >= y
<1> DEFINE T == {k \in Nat : n - k \in S}
<1>1. T \in SUBSET Nat /\ T # {}
  <2>1. PICK x \in S : TRUE
    OBVIOUS
  <2>2. n - x \in Nat /\ n - (n - x) = x
    OBVIOUS
  <2>3. n - x \in T
    BY <2>2
  <2> QED
    BY <2>3
<1>2. PICK t \in T : \A y \in T : t <= y
  <2> HIDE DEF T
  <2> QED
    BY <1>1, LeastExists
<1>3. t \in Nat /\ n - t \in S
  OBVIOUS
<1>4. ASSUME NEW y \in S PROVE n - t >= y
  <2>1. n - y \in Nat /\ n - (n - y) = y
    OBVIOUS
  <2>2. n - y \in T
    BY <2>1
  <2>3. t <= n - y
    BY <1>2, <2>2
  <2> QED
    BY <1>3, <2>1, <2>3
<1> QED
  BY <1>3, <1>4

(* Recursion, in terms of functions. *)
(* g follows step from f0 on for n steps. *)
Follows(g, f0, step, S, n) ==
  /\ g \in [Nat -> S]
  /\ g[0] = f0
  /\ \A i \in Nat : i < n => g[i + 1] = step[i][g[i]]

(* Beginnings of a recursion agree as far as they go. *)
LEMMA FollowsUnique ==
  ASSUME NEW S, NEW f0, NEW step, NEW m \in Nat, NEW n \in Nat, m <= n, NEW g, NEW h,
         Follows(g, f0, step, S, m), Follows(h, f0, step, S, n)
  PROVE  g[m] = h[m]
<1> DEFINE V == {i \in Nat : i <= m => g[i] = h[i]}
<1>1. 0 \in V
  BY DEF Follows
<1>2. ASSUME NEW i \in V PROVE i + 1 \in V
  <2>1. CASE i + 1 <= m
    <3>1. i \in Nat /\ i < m /\ i < n /\ g[i] = h[i]
      BY <2>1
    <3>2. g[i + 1] = step[i][g[i]] /\ h[i + 1] = step[i][h[i]]
      BY <3>1 DEF Follows
    <3> QED
      BY <3>1, <3>2
  <2> QED
    BY <2>1
<1>3. V \in SUBSET Nat
  OBVIOUS
<1> HIDE DEF V
<1>4. V = Nat
  BY <1>1, <1>2, <1>3, SetInduction
<1> QED
  BY <1>4 DEF V

Recurs(g, f0, step, S) ==
  /\ g \in [Nat -> S]
  /\ g[0] = f0
  /\ \A n \in Nat : g[n + 1] = step[n][g[n]]

(* A recursion over the naturals defines a function. *)
LEMMA Recursion ==
  ASSUME NEW S, NEW f0 \in S, NEW step \in [Nat -> [S -> S]]
  PROVE  \E g : Recurs(g, f0, step, S)
<1> DEFINE E == {n \in Nat : \E g : Follows(g, f0, step, S, n)}
<1>1. E = Nat
  <2>1. 0 \in E
    <3>1. Follows([i \in Nat |-> f0], f0, step, S, 0)
      BY DEF Follows
    <3> QED
      BY <3>1
  <2>2. ASSUME NEW n \in E PROVE n + 1 \in E
    <3>1. PICK g : Follows(g, f0, step, S, n)
      OBVIOUS
    <3> DEFINE h == [g EXCEPT ![n + 1] = step[n][g[n]]]
    <3>2. g \in [Nat -> S] /\ n \in Nat
      BY <3>1 DEF Follows
    <3>3. step[n][g[n]] \in S
      BY <3>2
    <3>4. h \in [Nat -> S] /\ h[n + 1] = step[n][g[n]]
          /\ \A i \in Nat : i # n + 1 => h[i] = g[i]
      BY <3>2, <3>3
    <3> HIDE DEF h
    <3>5. ASSUME NEW i \in Nat, i < n + 1 PROVE h[i + 1] = step[i][h[i]]
      <4>1. CASE i = n
        BY <3>2, <3>4, <4>1
      <4>2. CASE i < n
        <5>1. h[i + 1] = g[i + 1] /\ h[i] = g[i]
          BY <3>2, <3>4, <4>2
        <5>2. g[i + 1] = step[i][g[i]]
          BY <3>1, <4>2 DEF Follows
        <5> QED
          BY <5>1, <5>2
      <4> QED
        BY <3>2, <3>5, <4>1, <4>2
    <3>6. Follows(h, f0, step, S, n + 1)
      BY <3>1, <3>2, <3>4, <3>5 DEF Follows
    <3> QED
      BY <3>2, <3>6
  <2> HIDE DEF E
  <2>3. E \in SUBSET Nat
    BY DEF E
  <2> QED
    BY <2>1, <2>2, <2>3, SetInduction
<1> DEFINE b(n) == CHOOSE g : Follows(g, f0, step, S, n)
           f == [n \in Nat |-> b(n)[n]]
<1>3. ASSUME NEW n \in Nat PROVE Follows(b(n), f0, step, S, n)
  <2>1. \E g : Follows(g, f0, step, S, n)
    BY <1>1
  <2> QED
    BY <2>1
<1> HIDE DEF b
<1>4. f \in [Nat -> S] /\ f[0] = f0
  <2>1. \A n \in Nat : b(n)[n] \in S
    BY <1>3 DEF Follows
  <2>2. b(0)[0] = f0
    BY <1>3 DEF Follows
  <2> QED
    BY <2>1, <2>2
<1>5. ASSUME NEW n \in Nat PROVE f[n + 1] = step[n][f[n]]
  <2>1. Follows(b(n), f0, step, S, n) /\ Follows(b(n + 1), f0, step, S, n + 1)
    BY <1>3
  <2>2. b(n)[n] = b(n + 1)[n]
    BY <2>1, FollowsUnique
  <2>3. b(n + 1)[n + 1] = step[n][b(n + 1)[n]]
    BY <2>1 DEF Follows
  <2> QED
    BY <2>2, <2>3
<1> HIDE DEF f
<1>6. Recurs(f, f0, step, S)
  BY <1>4, <1>5 DEF Recurs
<1> QED
  BY <1>6

-----------------------------------------------------------------------------
(* Division and powers of two.                                               *)
LEMMA DivMod ==
  ASSUME NEW a \in Int, NEW m \in Nat \ {0}
  PROVE  /\ a \div m \in Int /\ a % m \in 0 .. m - 1
         /\ a = m * (a \div m) + (a % m)
OBVIOUS
(* Division with remainder has one result. *)
LEMMA DivModUnique ==
  ASSUME NEW a \in Int, NEW m \in Nat \ {0}, NEW q \in Int, NEW r \in 0 .. m - 1,
         a = m * q + r
  PROVE  a \div m = q /\ a % m = r
<1>1. /\ a \div m \in Int /\ a % m \in 0 .. m - 1
      /\ a = m * (a \div m) + (a % m)
  BY DivMod
<1> DEFINE p == a \div m
           s == a % m
<1> HIDE DEF p, s
<1>2. p \in Int /\ s \in 0 .. m - 1 /\ m * (p - q) = r - s
  BY <1>1 DEF p, s
<1>3. ASSUME p - q > 0 PROVE FALSE
  <2>1. m * (p - q) >= m
    BY <1>2, <1>3
  <2> QED
    BY <1>2, <2>1
<1>4. ASSUME p - q < 0 PROVE FALSE
  <2>1. m * (p - q) <= - m
    BY <1>2, <1>4
  <2> QED
    BY <1>2, <2>1
<1>5. p = q
  BY <1>2, <1>3, <1>4
<1> QED
  BY <1>2, <1>5 DEF p, s
(* The recursion of Pow2 has its solution: powers of two are positive, each  *)
(* twice the one before.                                                     *)
LEMMA Pow2Def ==
  /\ Pow2[0] = 1
  /\ \A n \in Nat : Pow2[n] \in Nat \ {0} /\ Pow2[n + 1] = 2 * Pow2[n]
<1> DEFINE P == Nat \ {0}
           one == 1
           step == [n \in Nat |-> [a \in P |-> 2 * a]]
<1>1. one \in P /\ step \in [Nat -> [P -> P]]
  OBVIOUS
<1>2. \A a \in P, n \in Nat : step[n][a] = 2 * a
  OBVIOUS
<1> HIDE DEF step, P, one
<1>3. PICK g : Recurs(g, one, step, P)
  BY <1>1, Recursion
<1>4. \A n \in Nat : g[n] \in P /\ g[n + 1] = 2 * g[n]
  BY <1>2, <1>3 DEF Recurs
<1>5. \A n \in Nat : g[n] = IF n = 0 THEN 1 ELSE 2 * g[n - 1]
  <2>1. ASSUME NEW n \in Nat, n # 0 PROVE g[n] = 2 * g[n - 1]
    <3>1. n - 1 \in Nat /\ (n - 1) + 1 = n
      BY <2>1
    <3> QED
      BY <1>4, <3>1
  <2> QED
    BY <1>3, <2>1 DEF one, Recurs
<1>6. g = [n \in Nat |-> IF n = 0 THEN 1 ELSE 2 * g[n - 1]]
  BY <1>3, <1>5 DEF Recurs
<1>7. Pow2 = [n \in Nat |-> IF n = 0 THEN 1 ELSE 2 * Pow2[n - 1]]
  BY <1>6 DEF Pow2
<1>8. Pow2[0] = 1 /\ \A n \in Nat : n # 0 => Pow2[n] = 2 * Pow2[n - 1]
  BY <1>7
<1> DEFINE V == {n \in Nat : Pow2[n] \in P}
<1> QED
  <2>1. 0 \in V
    BY <1>8 DEF P
  <2>2. ASSUME NEW n \in V PROVE n + 1 \in V
    BY <1>8 DEF P
  <2>3. V \in SUBSET Nat
    OBVIOUS
  <2> HIDE DEF V
  <2>4. V = Nat
    BY <2>1, <2>2, <2>3, SetInduction
  <2>5. \A n \in Nat : Pow2[n + 1] = 2 * Pow2[n]
    BY <1>8
  <2>6. \A n \in Nat : Pow2[n] \in P
    BY <2>4 DEF V
  <2> QED
    BY <1>8, <2>5, <2>6 DEF P

(* A shorter power of two divides a longer one. *)
LEMMA PowersDivide ==
  ASSUME NEW m \in Nat, NEW n \in Nat, m <= n
  PROVE  \E q \in Nat : Pow2[n] = Pow2[m] * q
<1> DEFINE S == {i \in Nat : \E q \in Nat : Pow2[m + i] = Pow2[m] * q}
<1>1. Pow2[m] \in Nat
  BY Pow2Def
<1>2. 0 \in S
  <2>1. m + 0 = m /\ Pow2[m] = Pow2[m] * 1
    BY <1>1
  <2> QED
    BY <2>1
<1>3. ASSUME NEW i \in S PROVE i + 1 \in S
  <2>1. i \in Nat /\ m + i \in Nat /\ (m + i) + 1 = m + (i + 1)
    OBVIOUS
  <2>2. Pow2[m + (i + 1)] = 2 * Pow2[m + i]
    BY <2>1, Pow2Def
  <2>3. PICK q \in Nat : Pow2[m + i] = Pow2[m] * q
    OBVIOUS
  <2> DEFINE P == Pow2[m]
             Q == Pow2[m + (i + 1)]
  <2> HIDE DEF P, Q
  <2>4. Q = 2 * (P * q) /\ P \in Nat
    BY <1>1, <2>2, <2>3 DEF P, Q
  <2>5. Q = P * (2 * q) /\ 2 * q \in Nat
    BY <2>4
  <2> QED
    BY <2>1, <2>5 DEF P, Q
<1>4. S = Nat
  <2> HIDE DEF S
  <2>1. S \in SUBSET Nat
    BY DEF S
  <2> QED
    BY <1>2, <1>3, <2>1, SetInduction
<1>5. n - m \in Nat /\ m + (n - m) = n
  OBVIOUS
<1>6. n - m \in S
  <2> HIDE DEF S
  <2> QED
    BY <1>4, <1>5
<1> QED
  BY <1>5, <1>6
(* A loop over 1 .. n, as a recursive function on 0 .. n gives it.           *)
Loops(f, f0, step, n, S) ==
  /\ f \in [0 .. n -> S]
  /\ f[0] = f0
  /\ \A i \in 1 .. n : f[i] = step[i][f[i - 1]]

(* A loop over 1 .. n, written as a recursive function, computes what its    *)
(* steps say.                                                                *)
LEMMA LoopExists ==
  ASSUME NEW n \in Nat, NEW S, NEW f0 \in S, NEW step \in [1 .. n -> [S -> S]]
  PROVE  \E f : Loops(f, f0, step, n, S)
<1> DEFINE idle == [x \in S |-> x]
           s == [k \in Nat |-> IF k + 1 \in 1 .. n THEN step[k + 1] ELSE idle]
<1>1. s \in [Nat -> [S -> S]]
  <2>1. idle \in [S -> S]
    OBVIOUS
  <2> HIDE DEF idle
  <2> QED
    BY <2>1
<1>2. \A k \in Nat : k + 1 \in 1 .. n => s[k] = step[k + 1]
  OBVIOUS
<1> HIDE DEF s
<1>3. PICK g : Recurs(g, f0, s, S)
  BY <1>1, Recursion
<1>4. g \in [Nat -> S] /\ g[0] = f0 /\ \A k \in Nat : g[k + 1] = s[k][g[k]]
  BY <1>3 DEF Recurs
<1> DEFINE f == [i \in 0 .. n |-> g[i]]
<1>5. f \in [0 .. n -> S] /\ f[0] = f0 /\ \A i \in 0 .. n : f[i] = g[i]
  BY <1>4
<1> HIDE DEF f
<1>6. ASSUME NEW i \in 1 .. n PROVE f[i] = step[i][f[i - 1]]
  <2>1. i - 1 \in Nat /\ (i - 1) + 1 = i /\ i \in 0 .. n /\ i - 1 \in 0 .. n
    OBVIOUS
  <2>2. g[i] = s[i - 1][g[i - 1]] /\ s[i - 1] = step[i]
    BY <1>2, <1>4, <2>1
  <2> QED
    BY <1>5, <2>1, <2>2
<1>7. Loops(f, f0, step, n, S)
  BY <1>5, <1>6 DEF Loops
<1> QED
  BY <1>7

-----------------------------------------------------------------------------
(* Fields. *)
(* val[k] is the number that the first k of the bits stand for. *)
Reads(val, bits) ==
  /\ val \in [0 .. Len(bits) -> Nat]
  /\ val[0] = 0
  /\ \A k \in 0 .. Len(bits) - 1 : val[k + 1] = 2 * val[k] + bits[k + 1]
  /\ NumberOf(bits) = val[Len(bits)]

(* NumberOf reads its bits from the first to the last. *)
LEMMA NumberOfReads ==
  ASSUME NEW n \in Nat, NEW bits \in [1 .. n -> Bit], Len(bits) = n
  PROVE  \E val : Reads(val, bits)
<1> DEFINE zero == 0
           step == [k \in Nat |-> [v \in Nat |-> 2 * v + (IF k + 1 <= n THEN bits[k + 1] ELSE 0)]]
           value == CHOOSE f : f = [k \in 0 .. n |-> IF k = 0 THEN 0 ELSE 2 * f[k - 1] + bits[k]]
<1>1. zero \in Nat /\ step \in [Nat -> [Nat -> Nat]]
  BY DEF Bit
<1>2. \A k \in 0 .. n - 1, v \in Nat : step[k][v] = 2 * v + bits[k + 1]
  OBVIOUS
<1> HIDE DEF step, zero
<1>3. PICK g : Recurs(g, zero, step, Nat)
  BY <1>1, Recursion
<1> DEFINE f == [k \in 0 .. n |-> g[k]]
<1>4. f \in [0 .. n -> Nat] /\ f[0] = 0
  <2>1. g \in [Nat -> Nat] /\ g[0] = 0
    BY <1>3 DEF Recurs, zero
  <2> QED
    BY <2>1
<1>5. ASSUME NEW k \in 1 .. n PROVE f[k] = 2 * f[k - 1] + bits[k]
  <2>1. k - 1 \in 0 .. n - 1 /\ (k - 1) + 1 = k
    OBVIOUS
  <2>2. g[k] = step[k - 1][g[k - 1]] /\ g[k - 1] \in Nat
    <3>1. g \in [Nat -> Nat] /\ \A i \in Nat : g[i + 1] = step[i][g[i]]
      BY <1>3 DEF Recurs
    <3>2. k - 1 \in Nat
      BY <2>1
    <3> QED
      BY <2>1, <3>1, <3>2
  <2>3. g[k] = 2 * g[k - 1] + bits[k]
    BY <1>2, <2>1, <2>2
  <2> QED
    BY <2>1, <2>3
<1>6. f = [k \in 0 .. n |-> IF k = 0 THEN 0 ELSE 2 * f[k - 1] + bits[k]]
  <2> HIDE DEF f
  <2> QED
    BY <1>4, <1>5
<1> HIDE DEF f
<1>7. value = [k \in 0 .. n |-> IF k = 0 THEN 0 ELSE 2 * value[k - 1] + bits[k]]
  BY <1>6
<1>8. NumberOf(bits) = value[n]
  BY DEF NumberOf
<1> HIDE DEF value
<1>9. value[0] = 0 /\ \A k \in 1 .. n : value[k] = 2 * value[k - 1] + bits[k]
  BY <1>7
<1> DEFINE V == {k \in Nat : k <= n => value[k] \in Nat}
<1>10. V = Nat
  <2>1. 0 \in V
    BY <1>9
  <2>2. ASSUME NEW k \in V PROVE k + 1 \in V
    <3>1. CASE k + 1 <= n
      <4>1. k + 1 \in 1 .. n /\ (k + 1) - 1 = k /\ value[k] \in Nat /\ bits[k + 1] \in Nat
        BY <3>1 DEF Bit
      <4>2. value[k + 1] = 2 * value[k] + bits[k + 1]
        BY <1>9, <4>1
      <4> QED
        BY <4>1, <4>2
    <3> QED
      BY <3>1
  <2>3. V \in SUBSET Nat
    OBVIOUS
  <2> HIDE DEF V
  <2> QED
    BY <2>1, <2>2, <2>3, SetInduction
<1>11. value \in [0 .. n -> Nat]
  <2>1. \A k \in 0 .. n : value[k] \in Nat
    BY <1>10
  <2>2. value = [k \in 0 .. n |-> value[k]]
    BY <1>7
  <2> QED
    BY <2>1, <2>2
<1>12. \A k \in 0 .. n - 1 : value[k + 1] = 2 * value[k] + bits[k + 1]
  <2>1. ASSUME NEW k \in 0 .. n - 1 PROVE k + 1 \in 1 .. n /\ (k + 1) - 1 = k
    OBVIOUS
  <2> QED
    BY <1>9, <2>1
<1>13. Reads(value, bits)
  BY <1>8, <1>9, <1>11, <1>12 DEF Reads
<1> QED
  BY <1>13

(* A function on 1 .. n to bits is a sequence of n bits. *)
LEMMA BitsLength ==
  ASSUME NEW n \in Nat, NEW bits \in [1 .. n -> Bit]
  PROVE  bits \in Seq(Bit) /\ Len(bits) = n
OBVIOUS

(* gt_put_bits writes as many bits as it was told to. *)
LEMMA FieldType ==
  ASSUME NEW v \in Int, NEW n \in Nat
  PROVE  /\ FieldBits(v, n) \in [1 .. n -> Bit]
         /\ FieldBits(v, n) \in Seq(Bit) /\ Len(FieldBits(v, n)) = n
<1>1. ASSUME NEW i \in 1 .. n PROVE (v \div Pow2[n - i]) % 2 \in Bit
  <2>1. Pow2[n - i] \in Nat \ {0}
    <3>1. n - i \in Nat
      OBVIOUS
    <3> QED
      BY <3>1, Pow2Def
  <2>2. v \div Pow2[n - i] \in Int
    BY <2>1, DivMod
  <2> QED
    BY <2>2 DEF Bit
<1>2. FieldBits(v, n) \in [1 .. n -> Bit]
  BY <1>1 DEF FieldBits
<1> QED
  BY <1>2

(* A field holds its number modulo the power of two of its width. *)
LEMMA NumberOfField ==
  ASSUME NEW v \in Int, NEW n \in Nat
  PROVE  NumberOf(FieldBits(v, n)) = v % Pow2[n]
<1> DEFINE bits == FieldBits(v, n)
           c == v \div Pow2[n]
<1>1. bits \in [1 .. n -> Bit] /\ Len(bits) = n
  BY FieldType
<1>2. PICK val : Reads(val, bits)
  <2> HIDE DEF bits
  <2> QED
    BY <1>1, NumberOfReads
<1>3. c \in Int
  BY Pow2Def, DivMod
<1> DEFINE V == {k \in Nat : k <= n => val[k] = (v \div Pow2[n - k]) - Pow2[k] * c}
<1>4. 0 \in V
  <2>1. val[0] = 0 /\ Pow2[0] = 1 /\ Pow2[n - 0] = Pow2[n]
    BY <1>2, Pow2Def DEF Reads
  <2> QED
    BY <1>3, <2>1
<1>5. ASSUME NEW k \in V PROVE k + 1 \in V
  <2> SUFFICES ASSUME k + 1 <= n
               PROVE  val[k + 1] = (v \div Pow2[n - (k + 1)]) - Pow2[k + 1] * c
    OBVIOUS
  <2> DEFINE P == Pow2[n - (k + 1)]
             a == v \div P
             b == v \div (2 * P)
             e == Pow2[k]
  <2>1. P \in Nat \ {0} /\ Pow2[n - k] = 2 * P /\ e \in Nat /\ Pow2[k + 1] = 2 * e
    <3>1. n - (k + 1) \in Nat /\ (n - (k + 1)) + 1 = n - k /\ k \in Nat
      OBVIOUS
    <3> QED
      BY <3>1, Pow2Def
  <2>2. val[k] = b - e * c
    BY <2>1
  <2>3. bits[k + 1] = a % 2
    BY DEF FieldBits
  <2>4. val[k + 1] = 2 * val[k] + bits[k + 1]
    <3>1. k \in 0 .. Len(bits) - 1
      BY <1>1
    <3> QED
      BY <1>2, <3>1 DEF Reads
  <2>5. a = 2 * b + (a % 2) /\ a \in Int /\ b \in Int
    <3> HIDE DEF P
    <3> QED
      BY <2>1
  <2>6. Pow2[k + 1] * c = 2 * (e * c)
    <3> HIDE DEF c, e
    <3> QED
      BY <1>3, <2>1
  <2>7. e * c \in Int
    <3> HIDE DEF c, e
    <3> QED
      BY <1>3, <2>1
  <2> HIDE DEF P, a, b, e, bits, c
  <2>8. val[k + 1] = a - Pow2[k + 1] * c
    <3> DEFINE d == e * c
    <3>1. d \in Int /\ val[k + 1] = 2 * (b - d) + (a % 2) /\ Pow2[k + 1] * c = 2 * d
      BY <2>2, <2>3, <2>4, <2>6, <2>7
    <3> HIDE DEF d
    <3> QED
      BY <2>5, <3>1
  <2> QED
    BY <2>8 DEF a, P
<1>6. V \in SUBSET Nat
  OBVIOUS
<1> HIDE DEF V
<1>7. n \in V
  BY <1>4, <1>5, <1>6, SetInduction
<1>8. val[n] = v - Pow2[n] * c
  <2>1. val[n] = (v \div Pow2[n - n]) - Pow2[n] * c
    BY <1>7 DEF V
  <2>2. Pow2[n - n] = 1 /\ v \div 1 = v
    BY Pow2Def
  <2> QED
    BY <2>1, <2>2
<1>9. v = Pow2[n] * c + (v % Pow2[n]) /\ v % Pow2[n] \in Int /\ Pow2[n] * c \in Int
  <2> DEFINE m == Pow2[n]
  <2>1. m \in Nat \ {0}
    BY Pow2Def
  <2> HIDE DEF m
  <2>2. /\ v % m \in 0 .. m - 1 /\ v \div m \in Int
        /\ v = m * (v \div m) + (v % m)
    BY <2>1, DivMod
  <2>3. m * (v \div m) \in Int
    BY <2>1, <2>2
  <2> QED
    BY <2>1, <2>2, <2>3 DEF m
<1>10. NumberOf(bits) = val[n]
  BY <1>1, <1>2 DEF Reads
<1> HIDE DEF bits, c
<1>11. NumberOf(bits) = v % Pow2[n]
  BY <1>8, <1>9, <1>10
<1> QED
  BY <1>11 DEF bits

(* A field that is nowhere greater is not a greater number. *)
LEMMA NumberOfLess ==
  ASSUME NEW n \in Nat, NEW a \in [1 .. n -> Bit], NEW b \in [1 .. n -> Bit],
         Len(a) = n, Len(b) = n, \A i \in 1 .. n : a[i] <= b[i]
  PROVE  /\ NumberOf(a) \in Nat /\ NumberOf(b) \in Nat
         /\ NumberOf(a) <= NumberOf(b)
<1>1. PICK v : Reads(v, a)
  BY NumberOfReads
<1>2. PICK w : Reads(w, b)
  BY NumberOfReads
<1>3. /\ \A k \in 0 .. n : v[k] \in Nat /\ w[k] \in Nat
      /\ v[0] = 0 /\ w[0] = 0
      /\ \A k \in 0 .. n - 1 : v[k + 1] = 2 * v[k] + a[k + 1] /\ w[k + 1] = 2 * w[k] + b[k + 1]
      /\ NumberOf(a) = v[n] /\ NumberOf(b) = w[n]
  BY <1>1, <1>2 DEF Reads
<1> DEFINE V == {k \in Nat : k <= n => v[k] <= w[k]}
<1>4. 0 \in V
  BY <1>3
<1>5. ASSUME NEW k \in V PROVE k + 1 \in V
  <2> SUFFICES ASSUME k + 1 <= n PROVE v[k + 1] <= w[k + 1]
    OBVIOUS
  <2>1. k \in 0 .. n - 1 /\ k \in 0 .. n /\ k + 1 \in 1 .. n /\ k <= n
    OBVIOUS
  <2>2. v[k] <= w[k] /\ a[k + 1] <= b[k + 1]
    BY <2>1
  <2>3. v[k + 1] = 2 * v[k] + a[k + 1] /\ w[k + 1] = 2 * w[k] + b[k + 1]
    BY <1>3, <2>1
  <2>4. v[k] \in Nat /\ w[k] \in Nat /\ a[k + 1] \in Int /\ b[k + 1] \in Int
    BY <1>3, <2>1 DEF Bit
  <2> QED
    BY <2>2, <2>3, <2>4
<1>6. V = Nat
  <2>1. V \in SUBSET Nat
    OBVIOUS
  <2> HIDE DEF V
  <2> QED
    BY <1>4, <1>5, <2>1, SetInduction
<1>7. v[n] <= w[n]
  BY <1>6
<1> QED
  BY <1>3, <1>7

(* Zeros read as zero. *)
LEMMA NumberOfZeros ==
  ASSUME NEW n \in Nat
  PROVE  NumberOf(Zeros(n)) = 0
<1>1. ASSUME NEW i \in 1 .. n PROVE (0 \div Pow2[n - i]) % 2 = 0
  <2>1. n - i \in Nat
    OBVIOUS
  <2>2. Pow2[n - i] \in Nat \ {0}
    BY <2>1, Pow2Def
  <2> DEFINE p == Pow2[n - i]
  <2> HIDE DEF p
  <2>3. 0 \div p = 0
    BY <2>2 DEF p
  <2> QED
    BY <2>3 DEF p
<1>2. Zeros(n) = FieldBits(0, n)
  BY <1>1 DEF Zeros, FieldBits
<1>3. NumberOf(FieldBits(0, n)) = 0 % Pow2[n]
  BY NumberOfField
<1>4. 0 % Pow2[n] = 0
  <2> DEFINE p == Pow2[n]
  <2>1. p \in Nat \ {0}
    BY Pow2Def
  <2> HIDE DEF p
  <2>2. 0 % p = 0
    BY <2>1
  <2> QED
    BY <2>2 DEF p
<1> QED
  BY <1>2, <1>3, <1>4

-----------------------------------------------------------------------------
(* Concatenation as an operator of its own, and its laws. *)
Cat(s, t) == s \o t

(* Bits behind bits are bits. *)
LEMMA CatType == \A s, t \in Seq(Bit) : Cat(s, t) \in Seq(Bit)
BY ConcatProperties DEF Cat

(* The order in which codes are joined does not matter. *)
LEMMA CatGroups == \A s, t, u \in Seq(Bit) : Cat(Cat(s, t), u) = Cat(s, Cat(t, u))
BY ConcatAssociative DEF Cat

(* A code of several fields is its first field and a code of the others.     *)
Fields(code, a, rest) ==
  /\ rest \in Seq(Bit)
  /\ code \in Seq(Bit)
  /\ code = a \o rest
  /\ Len(code) = Len(a) + Len(rest)

(* A code that is written in two fields begins with the first of them. *)
LEMMA TwoFields ==
  ASSUME NEW a \in Seq(Bit), NEW b \in Seq(Bit), NEW code, code = a \o b
  PROVE  Fields(code, a, b)
BY ConcatProperties DEF Fields

(* One of three fields. *)
LEMMA ThreeFields ==
  ASSUME NEW a \in Seq(Bit), NEW b \in Seq(Bit), NEW c \in Seq(Bit),
         NEW rest, rest = b \o c, NEW code, code = a \o b \o c
  PROVE  Fields(code, a, rest)
<1>1. rest = Cat(b, c) /\ code = Cat(Cat(a, b), c)
  BY DEF Cat
<1>2. rest \in Seq(Bit)
  BY <1>1, CatType
<1>3. code = Cat(a, rest)
  BY <1>1, CatGroups
<1>4. code = a \o rest
  BY <1>3 DEF Cat
<1> QED
  BY <1>2, <1>4, TwoFields

(* One of four. *)
LEMMA FourFields ==
  ASSUME NEW a \in Seq(Bit), NEW b \in Seq(Bit), NEW c \in Seq(Bit), NEW d \in Seq(Bit),
         NEW rest, rest = b \o (c \o d), NEW code, code = a \o b \o c \o d
  PROVE  Fields(code, a, rest)
<1>1. rest = Cat(b, Cat(c, d)) /\ code = Cat(Cat(Cat(a, b), c), d)
  BY DEF Cat
<1>2. rest \in Seq(Bit)
  BY <1>1, CatType
<1>3. code = Cat(a, rest)
  BY <1>1, CatType, CatGroups
<1>4. code = a \o rest
  BY <1>3 DEF Cat
<1> QED
  BY <1>2, <1>4, TwoFields

-----------------------------------------------------------------------------
(* Reads. *)
Readers == {r \in [buf : Seq(Bit), pos : Nat, eof : BOOLEAN] : r.pos <= Len(r.buf)}

(* Whatever gt_get_bits meets, it returns n bits and leaves a reader of the  *)
(* same buffer.                                                              *)
LEMMA GetType ==
  ASSUME NEW r \in Readers, NEW n \in Nat
  PROVE  /\ Get(r, n).bits \in [1 .. n -> Bit]
         /\ Get(r, n).r \in Readers
         /\ Get(r, n).r.buf = r.buf
<1>1. /\ r.buf \in Seq(Bit) /\ r.pos \in Nat /\ r.eof \in BOOLEAN /\ r.pos <= Len(r.buf)
      /\ Len(r.buf) \in Nat
  BY LenProperties DEF Readers
<1>2. \A i \in 1 .. n : r.pos + i <= Len(r.buf) => r.buf[r.pos + i] \in Bit
  BY <1>1, ElementOfSeq
<1>3. Get(r, n).bits \in [1 .. n -> Bit]
  BY <1>2 DEF Get, Bit
<1> DEFINE p == IF r.pos + n <= Len(r.buf) THEN r.pos + n ELSE Len(r.buf)
           e == r.eof \/ r.pos + n > Len(r.buf)
<1>4. Get(r, n).r = [buf |-> r.buf, pos |-> p, eof |-> e]
  BY DEF Get, Readers
<1>5. p \in Nat /\ p <= Len(r.buf)
  BY <1>1
<1>6. e \in BOOLEAN
  BY <1>1, Zenon
<1> HIDE DEF p, e
<1> QED
  BY <1>1, <1>3, <1>4, <1>5, <1>6 DEF Readers

(* The reader behind n bits that are there. *)
Behind(r, n) == [buf |-> r.buf, pos |-> r.pos + n, eof |-> r.eof]

(* A read of bits that are there, and one that runs into the end. *)
LEMMA GetWhole ==
  ASSUME NEW r \in Readers, NEW n \in Nat, r.pos + n <= Len(r.buf)
  PROVE  /\ Get(r, n).bits = [i \in 1 .. n |-> r.buf[r.pos + i]]
         /\ Get(r, n).r = Behind(r, n)
<1>1. r.pos \in Nat /\ Len(r.buf) \in Nat /\ r.eof \in BOOLEAN
  BY LenProperties DEF Readers
<1>2. \A i \in 1 .. n : r.pos + i <= Len(r.buf)
  BY <1>1
<1>3. Get(r, n).bits = [i \in 1 .. n |-> r.buf[r.pos + i]]
  BY <1>2 DEF Get
<1>4. (r.eof \/ r.pos + n > Len(r.buf)) = r.eof
  <2>1. ~ (r.pos + n > Len(r.buf))
    BY <1>1
  <2> QED
    BY <1>1, <2>1, Zenon
<1> QED
  BY <1>3, <1>4 DEF Behind, Get, Readers

(* A field that is not all there raises the end mark, which stays. *)
LEMMA GetTorn ==
  ASSUME NEW r \in Readers, NEW n \in Nat, r.eof \/ r.pos + n > Len(r.buf)
  PROVE  Get(r, n).r.eof = TRUE
<1>1. (r.eof \/ r.pos + n > Len(r.buf)) = TRUE
  BY Zenon
<1> QED
  BY <1>1 DEF Get, Readers

(* What is left to read begins as code does, if it is as long. *)
Agrees(r, code) ==
  \A i \in 1 .. Len(code) : r.pos + i <= Len(r.buf) => r.buf[r.pos + i] = code[i]

(* All of code can be read, or not all of it. *)
Whole(r, code) == Agrees(r, code) /\ r.pos + Len(code) <= Len(r.buf)
Torn(r, code)  == Agrees(r, code) /\ r.pos + Len(code) > Len(r.buf)

(* A read of the first part gives it and leaves the second.                  *)
Parts(r, a, b) ==
  /\ Whole(r, a)
  /\ Get(r, Len(a)).bits = a
  /\ Get(r, Len(a)).r = Behind(r, Len(a))
  /\ Get(r, Len(a)).r \in Readers
  /\ Whole(Get(r, Len(a)).r, b)

(* If a code is in the buffer, so is its first field, and the rest behind    *)
(* it.                                                                       *)
LEMMA WholeParts ==
  ASSUME NEW r \in Readers, NEW a \in Seq(Bit), NEW b \in Seq(Bit), NEW c,
         c = a \o b, Whole(r, c)
  PROVE  Parts(r, a, b)
<1> DEFINE n == Len(a)
           m == Len(b)
<1>1. n \in Nat /\ m \in Nat /\ r.pos \in Nat /\ Len(r.buf) \in Nat
  BY LenProperties DEF Readers
<1>2. /\ Len(a \o b) = n + m
      /\ \A i \in 1 .. n + m : (a \o b)[i] = IF i <= n THEN a[i] ELSE b[i - n]
  BY ConcatProperties
<1>3. /\ r.pos + (n + m) <= Len(r.buf)
      /\ \A i \in 1 .. n + m : r.buf[r.pos + i] = (a \o b)[i]
  <2>1. /\ r.pos + (n + m) <= Len(r.buf)
        /\ \A i \in 1 .. n + m : r.pos + i <= Len(r.buf) => r.buf[r.pos + i] = (a \o b)[i]
    BY <1>2 DEF Whole, Agrees
  <2> HIDE DEF n, m
  <2>2. \A i \in 1 .. n + m : r.pos + i <= Len(r.buf)
    BY <1>1, <2>1
  <2> QED
    BY <2>1, <2>2
<1>4. /\ Get(r, n).bits = [i \in 1 .. n |-> r.buf[r.pos + i]]
      /\ Get(r, n).r = Behind(r, n)
      /\ Get(r, n).r \in Readers
  <2>1. r.pos + n <= Len(r.buf)
    BY <1>1, <1>3
  <2> QED
    BY <1>1, <2>1, GetWhole, GetType
<1>5. Get(r, n).bits = a
  <2>1. \A i \in 1 .. n : r.buf[r.pos + i] = a[i]
    BY <1>1, <1>2, <1>3
  <2>2. a = [i \in 1 .. n |-> a[i]]
    BY LenProperties
  <2> HIDE DEF n
  <2> QED
    BY <1>4, <2>1, <2>2
<1>6. Whole(Get(r, n).r, b)
  <2>1. ASSUME NEW i \in 1 .. m PROVE r.buf[(r.pos + n) + i] = b[i]
    <3>1. n + i \in 1 .. n + m /\ ~ (n + i <= n) /\ (n + i) - n = i
          /\ r.pos + (n + i) = (r.pos + n) + i
      BY <1>1
    <3>2. r.buf[r.pos + (n + i)] = (a \o b)[n + i] /\ (a \o b)[n + i] = b[(n + i) - n]
      BY <1>2, <1>3, <3>1
    <3> QED
      BY <3>1, <3>2
  <2>2. (r.pos + n) + m <= Len(r.buf)
    BY <1>1, <1>3
  <2> QED
    BY <1>4, <2>1, <2>2 DEF Whole, Agrees, Behind
<1>7. Whole(r, a)
  <2>1. \A i \in 1 .. n : r.buf[r.pos + i] = a[i]
    BY <1>1, <1>2, <1>3
  <2>2. r.pos + n <= Len(r.buf)
    BY <1>1, <1>3
  <2> QED
    BY <2>1, <2>2 DEF Whole, Agrees
<1> QED
  BY <1>4, <1>5, <1>6, <1>7 DEF Parts

(* A whole code is what is read.                                             *)
LEMMA WholeRead ==
  ASSUME NEW r \in Readers, NEW a \in Seq(Bit), Whole(r, a)
  PROVE  /\ Get(r, Len(a)).bits = a
         /\ Get(r, Len(a)).r = Behind(r, Len(a))
         /\ Get(r, Len(a)).r \in Readers
<1>1. a = a \o << >> /\ << >> \in Seq(Bit)
  BY ConcatEmptySeq, EmptySeq
<1> QED
  BY <1>1, WholeParts DEF Parts

(* A torn code is torn in its first part, or that is read and it is torn in  *)
(* the second.                                                               *)
TornIn(r, a, b) ==
  \/ Torn(r, a) /\ Get(r, Len(a)).r.eof = TRUE
  \/ /\ Whole(r, a)
     /\ Get(r, Len(a)).bits = a
     /\ Get(r, Len(a)).r = Behind(r, Len(a))
     /\ Get(r, Len(a)).r \in Readers
     /\ Torn(Get(r, Len(a)).r, b)

(* If a code is torn, its first field is, or its rest. *)
LEMMA TornParts ==
  ASSUME NEW r \in Readers, NEW a \in Seq(Bit), NEW b \in Seq(Bit), NEW c,
         c = a \o b, Torn(r, c)
  PROVE  TornIn(r, a, b)
<1> DEFINE n == Len(a)
           m == Len(b)
<1>1. n \in Nat /\ m \in Nat /\ r.pos \in Nat /\ Len(r.buf) \in Nat
  BY LenProperties DEF Readers
<1>2. /\ Len(a \o b) = n + m
      /\ \A i \in 1 .. n + m : (a \o b)[i] = IF i <= n THEN a[i] ELSE b[i - n]
  BY ConcatProperties
<1>3. /\ r.pos + (n + m) > Len(r.buf)
      /\ \A i \in 1 .. n + m : r.pos + i <= Len(r.buf) => r.buf[r.pos + i] = (a \o b)[i]
  BY <1>1, <1>2 DEF Torn, Agrees
<1>4. \A i \in 1 .. n : r.pos + i <= Len(r.buf) => r.buf[r.pos + i] = a[i]
  BY <1>1, <1>2, <1>3
<1>5. CASE r.pos + n > Len(r.buf)
  <2>1. Torn(r, a)
    BY <1>4, <1>5 DEF Torn, Agrees
  <2>2. Get(r, n).r.eof = TRUE
    BY <1>1, <1>5, GetTorn
  <2> QED
    BY <2>1, <2>2 DEF TornIn
<1>6. CASE r.pos + n <= Len(r.buf)
  <2>1. Whole(r, a)
    BY <1>4, <1>6 DEF Whole, Agrees
  <2>3. /\ Get(r, n).bits = a
        /\ Get(r, n).r = Behind(r, n)
        /\ Get(r, n).r \in Readers
    BY <2>1, WholeRead
  <2>4. ASSUME NEW i \in 1 .. m, (r.pos + n) + i <= Len(r.buf) PROVE r.buf[(r.pos + n) + i] = b[i]
    <3>1. n + i \in 1 .. n + m /\ ~ (n + i <= n) /\ (n + i) - n = i
          /\ r.pos + (n + i) = (r.pos + n) + i
      BY <1>1
    <3>2. r.buf[r.pos + (n + i)] = (a \o b)[n + i] /\ (a \o b)[n + i] = b[(n + i) - n]
      BY <1>2, <1>3, <2>4, <3>1
    <3> QED
      BY <3>1, <3>2
  <2>5. (r.pos + n) + m > Len(r.buf)
    BY <1>1, <1>3
  <2>6. Torn(Get(r, n).r, b)
    BY <2>3, <2>4, <2>5 DEF Torn, Agrees, Behind
  <2> QED
    BY <2>1, <2>3, <2>6 DEF TornIn
<1>7. r.pos + n > Len(r.buf) \/ r.pos + n <= Len(r.buf)
  <2> HIDE DEF n
  <2> QED
    BY <1>1
<1> QED
  BY <1>5, <1>6, <1>7

(* A torn code reads as a code that is nowhere greater, and nothing is left. *)
LEMMA TornRead ==
  ASSUME NEW r \in Readers, NEW a \in Seq(Bit), Torn(r, a)
  PROVE  /\ Get(r, Len(a)).r.eof = TRUE
         /\ Get(r, Len(a)).r.pos = Len(r.buf)
         /\ \A i \in 1 .. Len(a) : Get(r, Len(a)).bits[i] <= a[i]
<1> DEFINE n == Len(a)
<1>1. n \in Nat /\ r.pos \in Nat /\ Len(r.buf) \in Nat /\ r.pos + n > Len(r.buf)
  BY LenProperties DEF Readers, Torn
<1>2. \A i \in 1 .. n : r.pos + i <= Len(r.buf) => r.buf[r.pos + i] = a[i]
  BY DEF Torn, Agrees
<1>3. \A i \in 1 .. n : a[i] \in Bit
  BY ElementOfSeq
<1>4. Get(r, n).r.eof = TRUE
  BY <1>1, GetTorn
<1> HIDE DEF n
<1>5. /\ \A i \in 1 .. n :
           Get(r, n).bits[i] = IF r.pos + i <= Len(r.buf) THEN r.buf[r.pos + i] ELSE 0
      /\ Get(r, n).r.pos = IF r.pos + n <= Len(r.buf) THEN r.pos + n ELSE Len(r.buf)
  BY DEF Get, Readers
<1>6. ASSUME NEW i \in 1 .. n PROVE Get(r, n).bits[i] <= a[i]
  <2>1. a[i] = 0 \/ a[i] = 1
    BY <1>3 DEF Bit
  <2>2. CASE r.pos + i <= Len(r.buf)
    BY <1>2, <1>5, <2>1, <2>2
  <2>3. CASE ~ (r.pos + i <= Len(r.buf))
    BY <1>5, <2>1, <2>3
  <2> QED
    BY <2>2, <2>3
<1>7. Get(r, n).r.pos = Len(r.buf)
  BY <1>1, <1>5
<1> QED
  BY <1>4, <1>6, <1>7 DEF n

(* Behind the last bit every bit reads as 0. *)
LEMMA GetAtEnd ==
  ASSUME NEW r \in Readers, NEW n \in Nat, r.pos = Len(r.buf)
  PROVE  /\ Get(r, n).bits = Zeros(n)
         /\ Get(r, n).r.pos = Len(r.buf)
         /\ n > 0 => Get(r, n).r.eof = TRUE
<1>1. r.pos \in Nat /\ Len(r.buf) \in Nat
  BY LenProperties DEF Readers
<1>2. \A i \in 1 .. n : ~ (r.pos + i <= Len(r.buf))
  BY <1>1
<1>3. Get(r, n).bits = Zeros(n)
  BY <1>2 DEF Get, Zeros
<1>4. Get(r, n).r.pos = Len(r.buf)
  <2>1. Get(r, n).r.pos = IF r.pos + n <= Len(r.buf) THEN r.pos + n ELSE Len(r.buf)
    BY DEF Get, Readers
  <2> QED
    BY <1>1, <2>1
<1>5. n > 0 => r.pos + n > Len(r.buf)
  BY <1>1
<1> QED
  BY <1>3, <1>4, <1>5, GetTorn

(* A reader on a code, and on the first bits of a code.                      *)
LEMMA ReaderOnCode ==
  ASSUME NEW code \in Seq(Bit)
  PROVE  /\ ReaderOn(code) \in Readers
         /\ ReaderOn(code).eof = FALSE
         /\ Whole(ReaderOn(code), code)
<1>1. Len(code) \in Nat
  BY LenProperties
<1>2. ReaderOn(code) = [buf |-> code, pos |-> 0, eof |-> FALSE]
  BY DEF ReaderOn
<1>3. Agrees(ReaderOn(code), code)
  <2> SUFFICES ASSUME NEW i \in 1 .. Len(code) PROVE code[0 + i] = code[i]
    BY <1>2 DEF Agrees
  <2>1. 0 + i = i
    BY <1>1
  <2> QED
    BY <2>1
<1>4. 0 + Len(code) <= Len(code) /\ 0 <= Len(code)
  BY <1>1
<1> QED
  BY <1>2, <1>3, <1>4 DEF Whole, Readers

(* Every proper prefix of a code is torn. *)
LEMMA ReaderOnTorn ==
  ASSUME NEW code \in Seq(Bit), NEW k \in 0 .. Len(code) - 1
  PROVE  /\ ReaderOn(SubSeq(code, 1, k)) \in Readers
         /\ Torn(ReaderOn(SubSeq(code, 1, k)), code)
<1>1. Len(code) \in Nat /\ k \in Nat /\ k <= Len(code)
  BY LenProperties
<1> DEFINE c == SubSeq(code, 1, k)
<1>2. c \in Seq(Bit) /\ Len(c) = k /\ \A i \in 1 .. k : c[i] = code[i]
  <2>1. \A i \in 1 .. k : i \in 1 .. Len(code)
    BY <1>1
  <2>2. \A i \in 1 .. k : code[i] \in Bit
    BY <2>1, ElementOfSeq
  <2>3. c = [i \in 1 .. k |-> code[i]]
    BY <1>1 DEF c
  <2>4. c \in [1 .. k -> Bit]
    BY <2>2, <2>3
  <2> HIDE DEF c
  <2> QED
    BY <1>1, <2>3, <2>4
<1> HIDE DEF c
<1>3. ReaderOn(c) = [buf |-> c, pos |-> 0, eof |-> FALSE]
  BY DEF ReaderOn
<1>4. ReaderOn(c) \in Readers
  BY <1>1, <1>2, <1>3 DEF Readers
<1>5. Agrees(ReaderOn(c), code)
  <2> SUFFICES ASSUME NEW i \in 1 .. Len(code), 0 + i <= Len(c) PROVE c[0 + i] = code[i]
    BY <1>3 DEF Agrees
  <2>1. 0 + i = i /\ i \in 1 .. k
    BY <1>1, <1>2
  <2> QED
    BY <1>2, <2>1
<1>6. 0 + Len(code) > Len(c)
  BY <1>1, <1>2
<1> QED
  BY <1>3, <1>4, <1>5, <1>6 DEF Torn, c
=============================================================================
