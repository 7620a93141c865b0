--------------------------- MODULE LabellingProofs ---------------------------
(***************************************************************************)
(* What estimate_pose()'s labelling computes, for any number of points     *)
(* with any coordinates: it has exactly one result, and that result does   *)
(* not depend on the order in which detect_points() found the points.      *)
(*                                                                         *)
(* Induction over the number of points is by a least counterexample, a     *)
(* member of a set of naturals.                                            *)
(***************************************************************************)
EXTENDS PoseTracker, FiniteSetTheorems, TLAPS

USE SMTT(60)

-----------------------------------------------------------------------------
(* Induction and recursion *)

\* A set of naturals with a member has a least one.
LEMMA LeastMember ==
    ASSUME NEW T, T \subseteq Nat, T # {}
    PROVE  \E m \in T : \A k \in T : m <= k
  <1>1. PICK m \in T : \A k \in T : <<k, m>> \notin OpToRel(<, Nat)
    BY NatLessThanWellFounded, WFMin, Zenon
  <1>2. ASSUME NEW k \in T, k < m
        PROVE  FALSE
    <2>1. <<k, m>> \in Nat \X Nat
      OBVIOUS
    <2>2. <<k, m>>[1] < <<k, m>>[2]
      BY <1>2
    <2>3. <<k, m>> \in OpToRel(<, Nat)
      BY <2>1, <2>2, Zenon DEF OpToRel
    <2> QED
      BY <1>1, <2>3, Zenon
  <1>3. ASSUME NEW k \in T
        PROVE  m <= k
    <2>1. m \in Nat /\ k \in Nat /\ ~(k < m)
      BY <1>2
    <2> QED
      BY <2>1
  <1> QED
    BY <1>3, Zenon

\* A set with zero and with the successor of every natural in it has them all.
LEMMA Induction ==
    ASSUME NEW T, 0 \in T, \A n \in Nat : n \in T => n + 1 \in T
    PROVE  Nat \subseteq T
  <1> DEFINE Missing == Nat \ T
  <1> SUFFICES ASSUME Missing # {}
               PROVE  FALSE
    OBVIOUS
  <1>1. Missing \subseteq Nat
    OBVIOUS
  <1> HIDE DEF Missing
  <1>2. PICK m \in Missing : \A k \in Missing : m <= k
    BY <1>1, LeastMember, Zenon
  <1> USE DEF Missing
  <1>3. m # 0 /\ m - 1 \in Nat /\ (m - 1) + 1 = m
    BY <1>2
  <1>4. m - 1 \in T
    BY <1>2, <1>3
  <1> QED
    BY <1>2, <1>3, <1>4

\* f has the values of a loop that begins with s0 and whose i-th round takes
\* the value v it has to step[i][v].
Loop(f, S, s0, n, step) ==
    f \in [0..n -> S] /\ f[0] = s0 /\ \A i \in 1..n : f[i] = step[i][f[i - 1]]

\* Every loop has such values.
LEMMA Iteration ==
    ASSUME NEW S, NEW s0 \in S, NEW n \in Nat, NEW step \in [1..n -> [S -> S]]
    PROVE  \E f : Loop(f, S, s0, n, step)
  <1> DEFINE Rounds(m, f) == f[0] = s0 /\ \A i \in 1..m : f[i] = step[i][f[i - 1]]
             T == {m \in Nat : m <= n => \E f \in [0..m -> S] : Rounds(m, f)}
  <1>1. 0 \in T
    <2> DEFINE f == [i \in 0..0 |-> s0]
    <2>1. f \in [0..0 -> S] /\ f[0] = s0
      OBVIOUS
    <2> HIDE DEF f
    <2>2. Rounds(0, f)
      BY <2>1
    <2> QED
      BY <2>1, <2>2, Zenon
  <1>2. ASSUME NEW m \in Nat, m \in T
        PROVE  m + 1 \in T
    <2> SUFFICES ASSUME m + 1 <= n
                 PROVE  \E f \in [0..(m + 1) -> S] : Rounds(m + 1, f)
      OBVIOUS
    <2>1. PICK f \in [0..m -> S] : Rounds(m, f)
      BY <1>2
    <2> DEFINE g == [i \in 0..(m + 1) |-> IF i <= m THEN f[i] ELSE step[m + 1][f[m]]]
    <2>2. step[m + 1][f[m]] \in S
      OBVIOUS
    <2>3. g \in [0..(m + 1) -> S]
      BY <2>2
    <2>4. /\ \A i \in 0..m : g[i] = f[i]
          /\ g[m + 1] = step[m + 1][f[m]]
      OBVIOUS
    <2> HIDE DEF g
    <2>5. g[0] = s0
      BY <2>1, <2>4
    <2>6. ASSUME NEW i \in 1..(m + 1)
          PROVE  g[i] = step[i][g[i - 1]]
      <3>1. CASE i <= m
        <4>1. i \in 1..m /\ i \in 0..m /\ i - 1 \in 0..m
          BY <3>1
        <4> QED
          BY <2>1, <2>4, <4>1, Zenon
      <3>2. CASE i = m + 1
        <4>1. i - 1 = m /\ m \in 0..m
          BY <3>2
        <4> QED
          BY <2>4, <3>2, <4>1, Zenon
      <3> QED
        BY <3>1, <3>2
    <2> QED
      BY <2>3, <2>5, <2>6, Zenon
  <1> HIDE DEF T
  <1>3. n \in T
    BY <1>1, <1>2, Induction
  <1>4. n <= n
    OBVIOUS
  <1> QED
    BY <1>3, <1>4, Zenon DEF T, Loop

-----------------------------------------------------------------------------
(* Sums of integers *)

\* g has the sums of the first members of s: the values of one of the
\* variables that avg_coord() adds up.
Sums(g, s, n) ==
    /\ g \in [0..n -> Int]
    /\ g[0] = 0
    /\ \A i \in 1..n : g[i] = g[i - 1] + s[i]

\* There are such sums.
LEMMA SumsExist ==
    ASSUME NEW n \in Nat, NEW s \in [1..n -> Int]
    PROVE  \E g : Sums(g, s, n)
  <1> DEFINE step == [i \in 1..n |-> [v \in Int |-> v + s[i]]]
  <1>1. step \in [1..n -> [Int -> Int]] /\ 0 \in Int
    OBVIOUS
  <1>2. \A i \in 1..n, v \in Int : step[i][v] = v + s[i]
    OBVIOUS
  <1> HIDE DEF step
  <1>3. PICK g : Loop(g, Int, 0, n, step)
    BY <1>1, Iteration, Zenon
  <1>4. \A i \in 1..n : g[i] = g[i - 1] + s[i]
    <2>1. \A i \in 1..n : i - 1 \in 0..n
      OBVIOUS
    <2> QED
      BY <1>2, <1>3, <2>1, Zenon DEF Loop
  <1> QED
    BY <1>3, <1>4, Zenon DEF Loop, Sums

\* The sums of all members but the last one.
LEMMA SumsOfFront ==
    ASSUME NEW m \in Nat, NEW N, N = m + 1, NEW s, NEW g, Sums(g, s, N)
    PROVE  Sums([i \in 0..m |-> g[i]], [i \in 1..m |-> s[i]], m)
  <1> DEFINE f == [i \in 0..m |-> g[i]]
             t == [i \in 1..m |-> s[i]]
  <1>1. /\ g \in [0..N -> Int] /\ g[0] = 0
        /\ \A i \in 1..N : g[i] = g[i - 1] + s[i]
    BY Zenon DEF Sums
  <1>2. f \in [0..m -> Int] /\ f[0] = 0
    BY <1>1
  <1>3. ASSUME NEW i \in 1..m
        PROVE  f[i] = f[i - 1] + t[i]
    <2>1. i \in 0..m /\ i - 1 \in 0..m /\ i \in 1..N
      OBVIOUS
    <2> QED
      BY <1>1, <2>1, Zenon
  <1> QED
    BY <1>2, <1>3, Zenon DEF Sums

\* The sum of t is the sum of s and d.
SumsDiffer(s, t, n, d) ==
    \A g, h : Sums(g, s, n) /\ Sums(h, t, n) => h[n] = g[n] + d

\* Replacing the k-th member changes the sum by the difference.
LEMMA SumUpdate ==
    ASSUME NEW n \in Nat, NEW s \in [1..n -> Int], NEW k \in 1..n, NEW v \in Int,
           NEW t, t = [s EXCEPT ![k] = v]
    PROVE  SumsDiffer(s, t, n, v - s[k])
  <1> SUFFICES ASSUME NEW g, Sums(g, s, n), NEW h, Sums(h, t, n)
               PROVE  h[n] = g[n] + (v - s[k])
    BY DEF SumsDiffer
  <1> DEFINE Right(i) == h[i] = IF i < k THEN g[i] ELSE g[i] + (v - s[k])
             T == {i \in Nat : i <= n => Right(i)}
  <1>1. /\ g \in [0..n -> Int] /\ g[0] = 0 /\ \A i \in 1..n : g[i] = g[i - 1] + s[i]
        /\ h \in [0..n -> Int] /\ h[0] = 0 /\ \A i \in 1..n : h[i] = h[i - 1] + t[i]
    BY Zenon DEF Sums
  <1>2. 0 \in T
    BY <1>1
  <1>3. ASSUME NEW i \in Nat, i \in T, i + 1 <= n
        PROVE  Right(i + 1)
    <2>1. i \in 0..n /\ i + 1 \in 1..n /\ i + 1 \in 0..n /\ (i + 1) - 1 = i
      BY <1>3
    <2>2. g[i] \in Int /\ h[i] \in Int /\ g[i + 1] \in Int
      BY <1>1, <2>1, Zenon
    <2>3. s[i + 1] \in Int /\ s[k] \in Int
      BY <2>1, Zenon
    <2>4. g[i + 1] = g[i] + s[i + 1] /\ h[i + 1] = h[i] + t[i + 1]
      BY <1>1, <2>1, Zenon
    <2>5. t[i + 1] = IF i + 1 = k THEN v ELSE s[i + 1]
      BY <2>1
    <2>6. Right(i)
      BY <1>3
    <2>7. CASE i + 1 < k
      BY <2>2, <2>3, <2>4, <2>5, <2>6, <2>7
    <2>8. CASE i + 1 = k
      <3>1. h[i + 1] = g[i] + v /\ g[i + 1] = g[i] + s[k]
        BY <2>1, <2>4, <2>5, <2>6, <2>8
      <3> QED
        BY <2>2, <2>3, <2>8, <3>1
    <2>9. CASE i + 1 > k
      BY <2>2, <2>3, <2>4, <2>5, <2>6, <2>9
    <2> QED
      BY <2>7, <2>8, <2>9
  <1> HIDE DEF Right
  <1>4. \A i \in Nat : i \in T => i + 1 \in T
    BY <1>3
  <1> HIDE DEF T
  <1>5. n \in T
    BY <1>2, <1>4, Induction, Zenon
  <1>6. Right(n)
    BY <1>5 DEF T
  <1>7. ~(n < k)
    OBVIOUS
  <1> QED
    BY <1>6, <1>7, Zenon DEF Right

-----------------------------------------------------------------------------
(* Permutations *)

\* The members of s in the order of the permutation p.
Permuted(s, p, n) == [i \in 1..n |-> s[p[i]]]

\* A permutation takes every place to a place of its own.
LEMMA PermutationFacts ==
    ASSUME NEW n, NEW p
    PROVE  p \in Permutations(n) <=>
              p \in [1..n -> 1..n] /\ \A i, j \in 1..n : p[i] = p[j] => i = j
  BY Zenon DEF Permutations

\* A permutation has every value.
LEMMA PermutationIsOnto ==
    ASSUME NEW n \in Nat, NEW p \in Permutations(n), NEW v \in 1..n
    PROVE  \E k \in 1..n : p[k] = v
  <1> SUFFICES ASSUME \A k \in 1..n : p[k] # v
               PROVE  FALSE
    OBVIOUS
  <1> DEFINE S == 1..n
             T == S \ {v}
  <1>1. IsFiniteSet(S) /\ Cardinality(S) = n
    BY FS_Interval
  <1>2. v \in S
    OBVIOUS
  <1>3. p \in [S -> T] /\ \A i, j \in S : p[i] = p[j] => i = j
    BY PermutationFacts
  <1> HIDE DEF S
  <1>4. IsFiniteSet(T) /\ Cardinality(T) = Cardinality(S) - 1
    BY <1>1, <1>2, FS_RemoveElement
  <1> HIDE DEF T
  <1>5. Cardinality(T) < Cardinality(S)
    BY <1>1, <1>4
  <1>6. \E i, j \in S : i # j /\ p[i] = p[j]
    BY <1>1, <1>3, <1>4, <1>5, FS_PigeonHole
  <1> QED
    BY <1>3, <1>6

\* The values of one permutation from the i-th place on and those of another
\* one up to the i-th place cannot all be different: there are n + 1 of them.
LEMMA PermutationsMeet ==
    ASSUME NEW n \in Nat, NEW a \in Permutations(n), NEW c \in Permutations(n), NEW i \in 1..n
    PROVE  \E j \in i..n, k \in 1..i : c[j] = a[k]
  <1> DEFINE S == 1..(n + 1)
             T == 1..n
             f == [m \in S |-> IF m <= i THEN a[m] ELSE c[m - 1]]
  <1>1. IsFiniteSet(S) /\ Cardinality(S) = n + 1 /\ IsFiniteSet(T) /\ Cardinality(T) = n
    BY FS_Interval
  <1>2. /\ a \in [T -> T] /\ \A x, y \in T : a[x] = a[y] => x = y
        /\ c \in [T -> T] /\ \A x, y \in T : c[x] = c[y] => x = y
    BY PermutationFacts, Zenon
  <1>3. f \in [S -> T]
    <2>1. ASSUME NEW m \in S
          PROVE  (IF m <= i THEN a[m] ELSE c[m - 1]) \in T
      <3>1. m <= i => m \in T
        OBVIOUS
      <3>2. ~(m <= i) => m - 1 \in T
        OBVIOUS
      <3> QED
        BY <1>2, <3>1, <3>2, Zenon
    <2> QED
      BY <2>1, Zenon
  <1>4. \E x, y \in S : x # y /\ f[x] = f[y]
    <2> HIDE DEF S, T, f
    <2>1. Cardinality(T) < Cardinality(S)
      BY <1>1
    <2> QED
      BY <1>1, <1>3, <2>1, FS_PigeonHole
  <1>5. PICK x \in S, y \in S : x < y /\ f[x] = f[y]
    BY <1>4
  <1>6. x <= i
    BY <1>2, <1>5
  <1>7. y > i
    BY <1>2, <1>5
  <1>8. x \in 1..i /\ y - 1 \in i..n /\ c[y - 1] = a[x]
    BY <1>5, <1>6, <1>7
  <1> QED
    BY <1>8

\* One permutation after another is a permutation.
LEMMA PermutationsCompose ==
    ASSUME NEW n \in Nat, NEW p \in Permutations(n), NEW q \in Permutations(n)
    PROVE  [i \in 1..n |-> p[q[i]]] \in Permutations(n)
  <1> DEFINE r == [i \in 1..n |-> p[q[i]]]
  <1>1. /\ p \in [1..n -> 1..n] /\ \A i, j \in 1..n : p[i] = p[j] => i = j
        /\ q \in [1..n -> 1..n] /\ \A i, j \in 1..n : q[i] = q[j] => i = j
    BY PermutationFacts, Zenon
  <1>2. \A i \in 1..n : q[i] \in 1..n /\ p[q[i]] \in 1..n
    BY <1>1
  <1>3. r \in [1..n -> 1..n]
    BY <1>2, Zenon
  <1>4. ASSUME NEW i \in 1..n, NEW j \in 1..n, r[i] = r[j]
        PROVE  i = j
    <2>1. p[q[i]] = p[q[j]]
      BY <1>4, Zenon
    <2> QED
      BY <1>1, <1>2, <2>1, Zenon
  <1> HIDE DEF r
  <1>5. r \in Permutations(n)
    BY <1>3, <1>4, PermutationFacts, Zenon
  <1> QED
    BY <1>5, Zenon DEF r

\* Every permutation has an inverse.
LEMMA PermutationInverse ==
    ASSUME NEW n \in Nat, NEW p \in Permutations(n)
    PROVE  \E q \in Permutations(n) : \A i \in 1..n : p[q[i]] = i
  <1> DEFINE q == [i \in 1..n |-> CHOOSE k \in 1..n : p[k] = i]
  <1>1. \A i \in 1..n : q[i] \in 1..n /\ p[q[i]] = i
    BY PermutationIsOnto
  <1>2. q \in [1..n -> 1..n]
    BY <1>1
  <1> HIDE DEF q
  <1>3. q \in Permutations(n)
    BY <1>1, <1>2, PermutationFacts, Zenon
  <1> QED
    BY <1>1, <1>3

\* A sequence has one sum.
LEMMA SumsUnique ==
    ASSUME NEW n \in Nat, NEW s \in [1..n -> Int], NEW g, Sums(g, s, n), NEW h, Sums(h, s, n)
    PROVE  g[n] = h[n]
  <1>1. CASE n = 0
    BY <1>1 DEF Sums
  <1>2. CASE n # 0
    <2>1. n \in 1..n /\ g[n] \in Int /\ s[n] \in Int
      BY <1>2 DEF Sums
    <2>2. s = [s EXCEPT ![n] = s[n]]
      BY <2>1
    <2>3. SumsDiffer(s, s, n, s[n] - s[n])
      BY <2>1, <2>2, SumUpdate, Zenon
    <2>4. h[n] = g[n] + (s[n] - s[n])
      BY <2>3, Zenon DEF SumsDiffer
    <2> QED
      BY <2>1, <2>4
  <1> QED
    BY <1>1, <1>2

\* The sum of m integers does not depend on their order.
OrderFree(m) ==
    \A u \in [1..m -> Int], q \in Permutations(m) :
        \A b, c : Sums(b, u, m) /\ Sums(c, Permuted(u, q, m), m) => b[m] = c[m]

\* A permutation of one place more, with the last value taken out of it.
LEMMA PermutationOfFront ==
    ASSUME NEW m \in Nat, NEW N, N = m + 1,
           NEW q \in Permutations(N), NEW k \in 1..N, q[k] = N
    PROVE  [i \in 1..m |-> IF i = k THEN q[N] ELSE q[i]] \in Permutations(m)
  <1> DEFINE r == [i \in 1..m |-> IF i = k THEN q[N] ELSE q[i]]
  <1>1. /\ q \in [1..N -> 1..N]
        /\ \A i, j \in 1..N : q[i] = q[j] => i = j
    BY PermutationFacts, Zenon
  <1>2. ASSUME NEW i \in 1..m
        PROVE  r[i] \in 1..m
    <2>1. i \in 1..N /\ N \in 1..N /\ i # N
      OBVIOUS
    <2>2. q[i] \in 1..N /\ q[N] \in 1..N
      BY <1>1, <2>1, Zenon
    <2>3. CASE i = k
      <3>1. q[N] # N
        BY <1>1, <2>1, <2>3, Zenon
      <3> QED
        BY <2>2, <2>3, <3>1
    <2>4. CASE i # k
      <3>1. q[i] # N
        BY <1>1, <2>1, <2>4, Zenon
      <3> QED
        BY <2>2, <2>4, <3>1
    <2> QED
      BY <2>3, <2>4
  <1>3. r \in [1..m -> 1..m]
    BY <1>2, Zenon
  <1>4. ASSUME NEW i \in 1..m, NEW j \in 1..m, r[i] = r[j]
        PROVE  i = j
    <2>1. /\ i \in 1..N /\ j \in 1..N /\ N \in 1..N
          /\ i # N /\ j # N
      OBVIOUS
    <2> QED
      BY <1>1, <1>4, <2>1, Zenon
  <1> HIDE DEF r
  <1>5. r \in Permutations(m)
    BY <1>3, <1>4, PermutationFacts, Zenon
  <1> QED
    BY <1>5, Zenon DEF r

\* One member more does not make the sum depend on the order: the last member
\* changes places with the one that the permutation puts there.
LEMMA OrderFreeStep ==
    ASSUME NEW m \in Nat, OrderFree(m), NEW N, N = m + 1
    PROVE  OrderFree(N)
  <1>n. N \in Nat /\ N \in 1..N /\ N - 1 = m /\ m \in 0..m /\ \A i \in 1..m : i \in 1..N
    OBVIOUS
  <1> SUFFICES ASSUME NEW u \in [1..N -> Int], NEW q \in Permutations(N), NEW b, NEW c,
                      Sums(b, u, N), Sums(c, Permuted(u, q, N), N)
               PROVE  b[N] = c[N]
    BY DEF OrderFree
  <1>1. PICK k \in 1..N : q[k] = N
    BY <1>n, PermutationIsOnto, ZenonT(60)
  <1> DEFINE v  == Permuted(u, q, N)
             u1 == [i \in 1..m |-> u[i]]
             v1 == [i \in 1..m |-> v[i]]
             b1 == [i \in 0..m |-> b[i]]
             c1 == [i \in 0..m |-> c[i]]
             r  == [i \in 1..m |-> IF i = k THEN q[N] ELSE q[i]]
             w  == Permuted(u1, r, m)
  <1>2. /\ q \in [1..N -> 1..N]
        /\ v \in [1..N -> Int] /\ \A i \in 1..N : v[i] = u[q[i]]
    <2>1. q \in [1..N -> 1..N]
      BY PermutationFacts, Zenon
    <2> QED
      BY <2>1 DEF Permuted
  <1>3. u1 \in [1..m -> Int] /\ v1 \in [1..m -> Int] /\ \A i \in 1..m : v1[i] = v[i]
    <2> HIDE DEF v
    <2> QED
      BY <1>2, <1>n
  <1>4. Sums(b1, u1, m) /\ Sums(c1, v1, m) /\ b1[m] = b[m] /\ c1[m] = c[m]
    BY <1>n, SumsOfFront, Zenon
  <1>5. r \in Permutations(m)
    BY <1>1, PermutationOfFront, ZenonT(60)
  <1>6. b[N] = b[m] + u[N] /\ c[N] = c[m] + v[N]
    BY <1>n, Zenon DEF Sums
  <1>7. b[m] \in Int /\ c[m] \in Int /\ u[N] \in Int /\ v[N] \in Int
    BY <1>2, <1>n DEF Sums
  <1>r. /\ r \in [1..m -> 1..m]
        /\ \A i \in 1..m : (i = k => r[i] = q[N]) /\ (i # k => r[i] = q[i])
    BY <1>5, PermutationFacts, Zenon
  <1>u. \A i \in 1..m : u1[r[i]] = u[r[i]] /\ u1[r[i]] \in Int
    <2> HIDE DEF r
    <2> QED
      BY <1>3, <1>r, Zenon
  <1>8. w \in [1..m -> Int] /\ \A i \in 1..m : w[i] = u[r[i]]
    <2> HIDE DEF r, u1
    <2> QED
      BY <1>u, Zenon DEF Permuted
  <1>9. \A i \in 1..m : w[i] = IF i = k THEN v[N] ELSE v1[i]
    <2> HIDE DEF w, v, v1, r
    <2>1. ASSUME NEW i \in 1..m
          PROVE  w[i] = IF i = k THEN v[N] ELSE v1[i]
      <3>0. w[i] = u[r[i]] /\ v1[i] = v[i] /\ v[i] = u[q[i]] /\ v[N] = u[q[N]]
        BY <1>2, <1>3, <1>8, <1>n, Zenon
      <3>1. CASE i = k
        BY <1>r, <3>0, <3>1, Zenon
      <3>2. CASE i # k
        BY <1>r, <3>0, <3>2, Zenon
      <3> QED
        BY <3>1, <3>2, Zenon
    <2> QED
      BY <2>1, Zenon
  <1>10. PICK d : Sums(d, w, m)
    BY <1>8, SumsExist, Zenon
  <1>11. b1[m] = d[m]
    <2> HIDE DEF b1, u1, r
    <2>1. \A x, y : Sums(x, u1, m) /\ Sums(y, w, m) => x[m] = y[m]
      BY <1>3, <1>5, Zenon DEF OrderFree
    <2> QED
      BY <1>4, <1>10, <2>1, Zenon
  <1> HIDE DEF v, u1, v1, b1, c1, r, w
  <1>12. CASE k = N
    <2>1. \A i \in 1..m : i # k
      BY <1>12, <1>n
    <2>2. w = v1
      BY <1>3, <1>8, <1>9, <2>1
    <2>3. d[m] = c1[m]
      BY <1>3, <1>4, <1>10, <2>2, SumsUnique, ZenonT(60)
    <2> QED
      BY <1>1, <1>2, <1>4, <1>6, <1>11, <1>12, <2>3, Zenon
  <1>13. CASE k # N
    <2>1. k \in 1..m
      BY <1>13, <1>n
    <2>2. w = [v1 EXCEPT ![k] = v[N]]
      BY <1>3, <1>8, <1>9, <2>1
    <2>3. SumsDiffer(v1, w, m, v[N] - v1[k])
      BY <1>3, <1>7, <2>1, <2>2, SumUpdate, Zenon
    <2>4. d[m] = c1[m] + (v[N] - v1[k])
      BY <1>4, <1>10, <2>3, Zenon DEF SumsDiffer
    <2>5. v1[k] = u[N]
      BY <1>1, <1>2, <1>3, <2>1, Zenon
    <2> QED
      BY <1>4, <1>6, <1>7, <1>11, <2>4, <2>5
  <1> QED
    BY <1>12, <1>13

\* The sum of any integers does not depend on their order.
LEMMA SumPermutation ==
    ASSUME NEW n \in Nat
    PROVE  OrderFree(n)
  <1> DEFINE T == {m \in Nat : OrderFree(m)}
  <1>1. OrderFree(0)
    BY Zenon DEF OrderFree, Sums
  <1>2. 0 \in T /\ \A m \in Nat : m \in T => m + 1 \in T
    <2>1. \A m \in Nat : m + 1 \in Nat
      OBVIOUS
    <2>2. 0 \in Nat
      OBVIOUS
    <2> QED
      BY <1>1, <2>1, <2>2, OrderFreeStep, Zenon
  <1> HIDE DEF T
  <1>3. n \in T
    BY <1>2, Induction
  <1> QED
    BY <1>3, Zenon DEF T

-----------------------------------------------------------------------------
(* Sorting *)

\* A point with its distance, as add_distance() pairs them.
Pair == [p : Point, d : Int]

\* No point comes before itself in point_comparator()'s order.
LEMMA ComparatorIrreflexive ==
    ASSUME NEW a \in Pair
    PROVE  ~point_comparator(a, a)
  BY DEF point_comparator, Pair, Point

\* point_comparator()'s order is transitive, over distances, x and y.
LEMMA ComparatorTransitive ==
    ASSUME NEW a \in Pair, NEW b \in Pair, NEW c \in Pair,
           point_comparator(a, b), point_comparator(b, c)
    PROVE  point_comparator(a, c)
  <1>1. /\ a.d \in Int /\ b.d \in Int /\ c.d \in Int
        /\ a.p.x \in Int /\ b.p.x \in Int /\ c.p.x \in Int
        /\ a.p.y \in Int /\ b.p.y \in Int /\ c.p.y \in Int
    BY DEF Pair, Point
  <1>2. CASE a.d = b.d /\ b.d = c.d
    BY <1>1, <1>2 DEF point_comparator
  <1>3. CASE ~(a.d = b.d /\ b.d = c.d)
    BY <1>1, <1>3 DEF point_comparator
  <1> QED
    BY <1>2, <1>3

\* point_comparator() leaves only equal points unordered.
LEMMA ComparatorTotal ==
    ASSUME NEW a \in Pair, NEW b \in Pair,
           ~point_comparator(a, b), ~point_comparator(b, a)
    PROVE  a = b
  <1>1. /\ a.d \in Int /\ b.d \in Int
        /\ a.p.x \in Int /\ b.p.x \in Int /\ a.p.y \in Int /\ b.p.y \in Int
    BY DEF Pair, Point
  <1>2. a.d = b.d
    BY <1>1 DEF point_comparator
  <1>3. a.p.x = b.p.x /\ a.p.y = b.p.y
    BY <1>1, <1>2 DEF point_comparator
  <1> QED
    BY <1>2, <1>3 DEF Pair, Point

\* point_comparator() is a strict total order, as std::sort() demands of it,
\* and two points that it does not order are the same point at the same
\* distance: so there is one sorted sequence.
THEOREM ComparatorIsStrictTotalOrder ==
    /\ \A a \in Pair : ~point_comparator(a, a)
    /\ \A a, b, c \in Pair :
          point_comparator(a, b) /\ point_comparator(b, c) => point_comparator(a, c)
    /\ \A a, b \in Pair : point_comparator(a, b) \/ point_comparator(b, a) \/ a = b
  BY ComparatorIrreflexive, ComparatorTransitive, ComparatorTotal

\* What std::sort() may do to s: a permutation that leaves no two members in
\* the wrong order.
Sorted(s, q, n) ==
    /\ q \in Permutations(n)
    /\ \A i, j \in 1..n : i < j => ~point_comparator(s[q[j]], s[q[i]])

\* Of two sorted orders neither has a larger member at any place.
LEMMA SortedNotAbove ==
    ASSUME NEW n \in Nat, NEW s \in [1..n -> Pair], NEW a, Sorted(s, a, n),
           NEW c, Sorted(s, c, n), NEW i \in 1..n
    PROVE  ~point_comparator(s[a[i]], s[c[i]])
  <1>1. a \in Permutations(n) /\ c \in Permutations(n)
    BY Zenon DEF Sorted
  <1>2. a \in [1..n -> 1..n] /\ c \in [1..n -> 1..n]
    BY <1>1, PermutationFacts, Zenon
  <1>3. PICK j \in i..n, k \in 1..i : c[j] = a[k]
    BY <1>1, PermutationsMeet, Zenon
  <1>4. j \in 1..n /\ k \in 1..n /\ (i = j \/ i < j) /\ (k = i \/ k < i)
    OBVIOUS
  <1> DEFINE x == s[c[i]]
             y == s[c[j]]
             z == s[a[i]]
  <1>5. x \in Pair /\ y \in Pair /\ z \in Pair
    BY <1>2, <1>4, Zenon
  <1>6. ~point_comparator(y, x)
    BY <1>4, <1>5, ComparatorIrreflexive, Zenon DEF Sorted
  <1>7. ~point_comparator(z, y)
    <2>1. y = s[a[k]]
      BY <1>3, Zenon
    <2> QED
      BY <1>4, <1>5, <2>1, ComparatorIrreflexive, Zenon DEF Sorted
  <1> HIDE DEF x, y, z
  <1>8. ~point_comparator(z, x)
    BY <1>5, <1>6, <1>7, ComparatorTransitive, ComparatorTotal, Zenon
  <1> QED
    BY <1>8, Zenon DEF x, z

\* A member that goes between the k-th and the one before it keeps a
\* permutation a permutation.
LEMMA InsertedPermutation ==
    ASSUME NEW m \in Nat, NEW N, N = m + 1, NEW a \in Permutations(m), NEW k \in 1..N,
           NEW b, b = [i \in 1..N |-> IF i < k THEN a[i] ELSE IF i = k THEN N ELSE a[i - 1]]
    PROVE  b \in Permutations(N)
  <1>1. a \in [1..m -> 1..m] /\ \A i, j \in 1..m : a[i] = a[j] => i = j
    BY PermutationFacts, Zenon
  <1>2. ASSUME NEW i \in 1..N
        PROVE  /\ i < k => i \in 1..m /\ b[i] = a[i] /\ a[i] \in 1..m
               /\ i = k => b[i] = N
               /\ i > k => i - 1 \in 1..m /\ b[i] = a[i - 1] /\ a[i - 1] \in 1..m
    <2>1. (i < k => i \in 1..m) /\ (i > k => i - 1 \in 1..m)
      OBVIOUS
    <2>2. /\ i \in 1..m => a[i] \in 1..m
          /\ i - 1 \in 1..m => a[i - 1] \in 1..m
      BY <1>1, Zenon
    <2> QED
      BY <2>1, <2>2
  <1>3. \A i \in 1..m : i \in 1..N /\ i # N
    OBVIOUS
  <1>4. ASSUME NEW i \in 1..N
        PROVE  b[i] \in 1..N
    <2>1. (i < k \/ i = k \/ i > k) /\ N \in 1..N
      OBVIOUS
    <2> QED
      BY <1>2, <1>3, <2>1, Zenon
  <1>5. b \in [1..N -> 1..N]
    BY <1>4, Zenon
  <1>6. ASSUME NEW i \in 1..N, NEW j \in 1..N, i < j, b[i] = b[j]
        PROVE  FALSE
    <2>1. CASE j < k
      <3>1. a[i] = a[j] /\ i \in 1..m /\ j \in 1..m
        BY <1>2, <1>6, <2>1
      <3> QED
        BY <1>1, <1>6, <3>1
    <2>2. CASE j = k
      BY <1>2, <1>3, <1>6, <2>2
    <2>3. CASE j > k /\ i < k
      <3>1. a[i] = a[j - 1] /\ i \in 1..m /\ j - 1 \in 1..m
        BY <1>2, <1>6, <2>3
      <3> QED
        BY <1>1, <2>3, <3>1
    <2>4. CASE j > k /\ i = k
      <3>1. b[i] = N /\ b[j] = a[j - 1] /\ a[j - 1] \in 1..m
        BY <1>2, <1>3, <2>4, Zenon
      <3> QED
        BY <1>6, <3>1
    <2>5. CASE j > k /\ i > k
      <3>1. a[i - 1] = a[j - 1] /\ i - 1 \in 1..m /\ j - 1 \in 1..m
        BY <1>2, <1>6, <2>5
      <3> QED
        BY <1>1, <1>6, <3>1
    <2> QED
      BY <2>1, <2>2, <2>3, <2>4, <2>5
  <1>7. \A i, j \in 1..N : b[i] = b[j] => i = j
    <2>1. \A i, j \in 1..N : i < j \/ i = j \/ j < i
      OBVIOUS
    <2> QED
      BY <1>6, <2>1, Zenon
  <1> QED
    BY <1>5, <1>7, PermutationFacts, ZenonT(60)

\* A sorted order of all members but the last gives one of all of them: the
\* last one goes before the first that is larger.
LEMMA SortInsert ==
    ASSUME NEW m \in Nat, NEW N, N = m + 1, NEW s, \A i \in 1..N : s[i] \in Pair,
           NEW a, Sorted(s, a, m)
    PROVE  \E b : Sorted(s, b, N)
  <1> DEFINE K == {k \in 1..N : k = N \/ point_comparator(s[N], s[a[k]])}
  <1>1. a \in Permutations(m) /\ a \in [1..m -> 1..m]
    BY PermutationFacts, Zenon DEF Sorted
  <1>2. N \in K /\ K \subseteq Nat
    OBVIOUS
  <1>3. PICK k \in K : \A i \in K : k <= i
    <2> HIDE DEF K
    <2> QED
      BY <1>2, LeastMember, Zenon
  <1>4. k \in 1..N /\ (k = N \/ point_comparator(s[N], s[a[k]]))
    BY <1>3, Zenon
  <1>5. ASSUME NEW i \in 1..m, i < k
        PROVE  ~point_comparator(s[N], s[a[i]])
    <2>1. i \in 1..N /\ ~(k <= i)
      BY <1>4, <1>5
    <2> QED
      BY <1>3, <2>1, Zenon
  <1>6. ASSUME NEW i \in 1..m, k <= i
        PROVE  ~point_comparator(s[a[i]], s[N])
    <2>1. N \in 1..N /\ k # N /\ k \in 1..m /\ (i = k \/ k < i) /\ \A l \in 1..m : l \in 1..N
      BY <1>4, <1>6
    <2>2. s[N] \in Pair /\ s[a[k]] \in Pair /\ s[a[i]] \in Pair
      BY <1>1, <2>1, Zenon
    <2>3. point_comparator(s[N], s[a[k]])
      BY <1>4, <2>1, Zenon
    <2>4. ~point_comparator(s[a[i]], s[a[k]])
      BY <2>1, <2>2, ComparatorIrreflexive, Zenon DEF Sorted
    <2> QED
      BY <2>2, <2>3, <2>4, ComparatorTransitive, Zenon
  <1> DEFINE b == [i \in 1..N |-> IF i < k THEN a[i] ELSE IF i = k THEN N ELSE a[i - 1]]
  <1>7. b \in Permutations(N)
    BY <1>1, <1>4, InsertedPermutation, ZenonT(60)
  <1>8. ASSUME NEW i \in 1..N
        PROVE  /\ i < k => i \in 1..m /\ b[i] = a[i]
               /\ i = k => b[i] = N
               /\ i > k => i - 1 \in 1..m /\ k <= i - 1 /\ b[i] = a[i - 1]
    BY <1>4
  <1> HIDE DEF b, K
  <1>9. ASSUME NEW i \in 1..N, NEW j \in 1..N, i < j
        PROVE  ~point_comparator(s[b[j]], s[b[i]])
    <2>1. CASE j < k
      <3>1. i \in 1..m /\ j \in 1..m /\ b[i] = a[i] /\ b[j] = a[j]
        BY <1>4, <1>8, <1>9, <2>1
      <3> QED
        BY <1>9, <3>1, Zenon DEF Sorted
    <2>2. CASE j = k
      <3>1. i \in 1..m /\ b[i] = a[i] /\ b[j] = N /\ i < k
        BY <1>4, <1>8, <1>9, <2>2
      <3> QED
        BY <1>5, <3>1, Zenon
    <2>3. CASE j > k /\ i < k
      <3>1. i \in 1..m /\ j - 1 \in 1..m /\ i < j - 1 /\ b[i] = a[i] /\ b[j] = a[j - 1]
        BY <1>4, <1>8, <2>3
      <3> QED
        BY <3>1, Zenon DEF Sorted
    <2>4. CASE j > k /\ i = k
      <3>1. j - 1 \in 1..m /\ k <= j - 1 /\ b[i] = N /\ b[j] = a[j - 1]
        BY <1>4, <1>8, <2>4
      <3> QED
        BY <1>6, <3>1, Zenon
    <2>5. CASE j > k /\ i > k
      <3>1. /\ i - 1 \in 1..m /\ j - 1 \in 1..m /\ i - 1 < j - 1
            /\ b[i] = a[i - 1] /\ b[j] = a[j - 1]
        BY <1>4, <1>8, <1>9, <2>5
      <3> QED
        BY <3>1, Zenon DEF Sorted
    <2> QED
      BY <1>4, <2>1, <2>2, <2>3, <2>4, <2>5
  <1> QED
    BY <1>7, <1>9, Zenon DEF Sorted

\* Any pairs can be sorted.
LEMMA SortExists ==
    ASSUME NEW n \in Nat, NEW s \in [1..n -> Pair]
    PROVE  \E a : Sorted(s, a, n)
  <1> DEFINE T == {m \in Nat : m <= n => \E a : Sorted(s, a, m)}
  <1>1. 0 \in T
    <2> DEFINE a == [i \in 1..0 |-> 0]
    <2>1. a \in [1..0 -> 1..0] /\ \A i, j \in 1..0 : FALSE
      OBVIOUS
    <2> HIDE DEF a
    <2>2. a \in Permutations(0)
      BY <2>1, PermutationFacts, Zenon
    <2>3. Sorted(s, a, 0)
      BY <2>1, <2>2, Zenon DEF Sorted
    <2> QED
      BY <2>3
  <1>2. ASSUME NEW m \in Nat, m \in T, m + 1 <= n
        PROVE  \E a : Sorted(s, a, m + 1)
    <2>1. m <= n /\ \A i \in 1..(m + 1) : s[i] \in Pair
      BY <1>2
    <2>2. PICK a : Sorted(s, a, m)
      BY <1>2, <2>1, Zenon
    <2> QED
      BY <2>1, <2>2, SortInsert, Zenon
  <1>3. \A m \in Nat : m \in T => m + 1 \in T
    BY <1>2
  <1> HIDE DEF T
  <1>4. n \in T /\ n <= n
    BY <1>1, <1>3, Induction
  <1> QED
    BY <1>4, Zenon DEF T

\* Two permutations put the same members in the same places.
SameOrder(s, a, c, n) == \A i \in 1..n : s[a[i]] = s[c[i]]

\* std::sort() has one result: however it permutes the members, they come out
\* in the same order.
LEMMA SortIsUnique ==
    ASSUME NEW n \in Nat, NEW s \in [1..n -> Pair], NEW a, Sorted(s, a, n),
           NEW c, Sorted(s, c, n)
    PROVE  SameOrder(s, a, c, n)
  <1> SUFFICES ASSUME NEW i \in 1..n
               PROVE  s[a[i]] = s[c[i]]
    BY Zenon DEF SameOrder
  <1>1. a \in [1..n -> 1..n] /\ c \in [1..n -> 1..n]
    BY PermutationFacts, Zenon DEF Sorted
  <1>2. s[a[i]] \in Pair /\ s[c[i]] \in Pair
    BY <1>1
  <1>3. ~point_comparator(s[a[i]], s[c[i]]) /\ ~point_comparator(s[c[i]], s[a[i]])
    BY SortedNotAbove, Zenon
  <1> QED
    BY <1>2, <1>3, ComparatorTotal, Zenon

-----------------------------------------------------------------------------
(* The centroid *)

\* A vector of points, and its coordinates.
LEMMA PointsFacts ==
    ASSUME NEW pts \in Seq(Point)
    PROVE  /\ Len(pts) \in Nat
           /\ pts \in [1..Len(pts) -> Point]
           /\ \A i \in 1..Len(pts) :
                 pts[i] \in Point /\ pts[i].x \in Int /\ pts[i].y \in Int
  <1>1. Len(pts) \in Nat /\ pts \in [1..Len(pts) -> Point]
    OBVIOUS
  <1>2. \A p \in Point : p.x \in Int /\ p.y \in Int
    BY DEF Point
  <1> QED
    BY <1>1, <1>2, Zenon

\* The coordinates of the points, as avg_coord() reads them.
Xs(pts) == [i \in 1..Len(pts) |-> pts[i].x]
Ys(pts) == [i \in 1..Len(pts) |-> pts[i].y]

\* avg_coord() returns the sums of the coordinates.
LEMMA AvgCoord ==
    ASSUME NEW pts \in Seq(Point), NEW n, n = Len(pts)
    PROVE  \E g, h : /\ Sums(g, Xs(pts), n) /\ Sums(h, Ys(pts), n)
                     /\ avg_coord(pts) = [x |-> g[n], y |-> h[n]]
  <1> DEFINE Body(f) == [i \in 0..n |->
                           IF i = 0 THEN [x |-> 0, y |-> 0]
                           ELSE [x |-> f[i - 1].x + pts[i].x, y |-> f[i - 1].y + pts[i].y]]
             sum == CHOOSE f : f = Body(f)
  <1>1. avg_coord(pts) = sum[n]
    BY DEF avg_coord
  <1>2. n \in Nat /\ \A i \in 1..n : pts[i].x \in Int /\ pts[i].y \in Int
    BY PointsFacts, Zenon
  <1>3. Xs(pts) \in [1..n -> Int] /\ Ys(pts) \in [1..n -> Int]
    BY <1>2, Zenon DEF Xs, Ys
  <1>4. PICK g, h : Sums(g, Xs(pts), n) /\ Sums(h, Ys(pts), n)
    BY <1>2, <1>3, SumsExist, Zenon
  <1>5. /\ g[0] = 0 /\ h[0] = 0
        /\ \A i \in 1..n : g[i] = g[i - 1] + pts[i].x /\ h[i] = h[i - 1] + pts[i].y
    BY <1>4, Zenon DEF Sums, Xs, Ys
  <1> DEFINE f == [i \in 0..n |-> [x |-> g[i], y |-> h[i]]]
  <1>6. f = Body(f)
    <2>1. ASSUME NEW i \in 0..n
          PROVE  [x |-> g[i], y |-> h[i]] =
                    IF i = 0 THEN [x |-> 0, y |-> 0]
                    ELSE [x |-> f[i - 1].x + pts[i].x, y |-> f[i - 1].y + pts[i].y]
      <3>1. CASE i = 0
        BY <1>5, <3>1, Zenon
      <3>2. CASE i # 0
        <4>1. i \in 1..n /\ i - 1 \in 0..n
          BY <1>2, <3>2
        <4>2. f[i - 1].x = g[i - 1] /\ f[i - 1].y = h[i - 1]
          BY <4>1
        <4> QED
          BY <1>5, <3>2, <4>1, <4>2, Zenon
      <3> QED
        BY <3>1, <3>2, Zenon
    <2> QED
      BY <2>1, ZenonT(60)
  <1>7. sum = Body(sum)
    BY <1>6, Zenon
  <1> DEFINE T == {i \in Nat : i <= n => sum[i] = f[i]}
  <1> HIDE DEF sum, f
  <1>8. 0 \in T
    <2>1. 0 \in 0..n
      BY <1>2
    <2> QED
      BY <1>6, <1>7, <2>1
  <1>9. ASSUME NEW i \in Nat, i \in T, i + 1 <= n
        PROVE  sum[i + 1] = f[i + 1]
    <2>1. i + 1 \in 0..n /\ i + 1 # 0 /\ (i + 1) - 1 = i /\ i <= n
      BY <1>2, <1>9
    <2>2. sum[i] = f[i]
      BY <1>9, <2>1
    <2>3. /\ sum[i + 1] = [x |-> sum[i].x + pts[i + 1].x, y |-> sum[i].y + pts[i + 1].y]
          /\ f[i + 1] = [x |-> f[i].x + pts[i + 1].x, y |-> f[i].y + pts[i + 1].y]
      BY <1>6, <1>7, <2>1
    <2> QED
      BY <2>2, <2>3, Zenon
  <1>10. \A i \in Nat : i \in T => i + 1 \in T
    BY <1>9
  <1> HIDE DEF T
  <1>11. n \in T
    BY <1>2, <1>8, <1>10, Induction, Zenon
  <1>12. sum[n] = f[n] /\ n \in 0..n
    BY <1>2, <1>11 DEF T
  <1>13. f[n] = [x |-> g[n], y |-> h[n]]
    BY <1>12, Zenon DEF f
  <1> QED
    BY <1>1, <1>4, <1>12, <1>13, Zenon

\* The points in another order are as many points.
LEMMA PermutedPoints ==
    ASSUME NEW pts \in Seq(Point), NEW p \in Permutations(Len(pts))
    PROVE  /\ Permuted(pts, p, Len(pts)) \in Seq(Point)
           /\ Len(Permuted(pts, p, Len(pts))) = Len(pts)
           /\ \A i \in 1..Len(pts) : Permuted(pts, p, Len(pts))[i] = pts[p[i]]
  <1> DEFINE n == Len(pts)
             q == Permuted(pts, p, n)
  <1>1. n \in Nat /\ p \in [1..n -> 1..n] /\ \A i \in 1..n : pts[i] \in Point
    BY PointsFacts, PermutationFacts, Zenon
  <1>2. q \in [1..n -> Point] /\ \A i \in 1..n : q[i] = pts[p[i]]
    BY <1>1, Zenon DEF Permuted
  <1> HIDE DEF n, q
  <1>3. q \in Seq(Point) /\ Len(q) = n
    BY <1>1, <1>2
  <1> QED
    BY <1>2, <1>3, Zenon DEF n, q

\* avg_coord() does not depend on the order of the points.
LEMMA AvgCoordPermuted ==
    ASSUME NEW pts \in Seq(Point), NEW p \in Permutations(Len(pts))
    PROVE  avg_coord(Permuted(pts, p, Len(pts))) = avg_coord(pts)
  <1> DEFINE n == Len(pts)
             q == Permuted(pts, p, n)
  <1>1. n \in Nat /\ p \in [1..n -> 1..n] /\ p \in Permutations(n)
    BY PointsFacts, PermutationFacts, Zenon
  <1>2. q \in Seq(Point) /\ Len(q) = n /\ \A i \in 1..n : q[i] = pts[p[i]]
    BY PermutedPoints, Zenon
  <1>3. Xs(pts) \in [1..n -> Int] /\ Ys(pts) \in [1..n -> Int]
    BY PointsFacts, Zenon DEF Xs, Ys
  <1> HIDE DEF q
  <1>4. Xs(q) = Permuted(Xs(pts), p, n) /\ Ys(q) = Permuted(Ys(pts), p, n)
    <2>1. \A i \in 1..n : q[i].x = Xs(pts)[p[i]] /\ q[i].y = Ys(pts)[p[i]]
      BY <1>1, <1>2, Zenon DEF Xs, Ys
    <2>2. /\ Xs(q) = [i \in 1..n |-> Xs(pts)[p[i]]]
          /\ Ys(q) = [i \in 1..n |-> Ys(pts)[p[i]]]
      BY <1>2, <2>1, Zenon DEF Xs, Ys
    <2> QED
      BY <2>2, Zenon DEF Permuted
  <1>5. PICK g, h : /\ Sums(g, Xs(pts), n) /\ Sums(h, Ys(pts), n)
                    /\ avg_coord(pts) = [x |-> g[n], y |-> h[n]]
    BY AvgCoord, Zenon
  <1>6. PICK b, c : /\ Sums(b, Xs(q), n) /\ Sums(c, Ys(q), n)
                    /\ avg_coord(q) = [x |-> b[n], y |-> c[n]]
    BY <1>2, AvgCoord, Zenon
  <1> HIDE DEF n
  <1>7. g[n] = b[n] /\ h[n] = c[n]
    <2>1. OrderFree(n)
      BY <1>1, SumPermutation, Zenon
    <2>2. ASSUME NEW u \in [1..n -> Int], NEW x, NEW y,
                 Sums(x, u, n), Sums(y, Permuted(u, p, n), n)
          PROVE  x[n] = y[n]
      BY <1>1, <2>1, <2>2, ZenonT(60) DEF OrderFree
    <2>3. Sums(b, Permuted(Xs(pts), p, n), n) /\ Sums(c, Permuted(Ys(pts), p, n), n)
      BY <1>4, <1>6
    <2> QED
      BY <1>3, <1>5, <2>2, <2>3
  <1> QED
    BY <1>5, <1>6, <1>7, Zenon DEF n, q

-----------------------------------------------------------------------------
(* The labelling *)

\* The pairs that estimate_pose() sorts.
Distances(pts) == add_distance(pts, avg_coord(pts))

\* add_distance() keeps every point at its place.
LEMMA DistancesFacts ==
    ASSUME NEW pts \in Seq(Point), NEW n, n = Len(pts)
    PROVE  /\ Distances(pts) \in [1..n -> Pair]
           /\ Len(Distances(pts)) = n
           /\ \A i \in 1..n : Distances(pts)[i].p = pts[i]
  <1> DEFINE mid == avg_coord(pts)
             dist(p) == (mid.x - n * p.x) * (mid.x - n * p.x)
                          + (mid.y - n * p.y) * (mid.y - n * p.y)
             D == [i \in 1..n |-> [p |-> pts[i], d |-> dist(pts[i])]]
  <1>1. n \in Nat /\ \A i \in 1..n : pts[i] \in Point /\ pts[i].x \in Int /\ pts[i].y \in Int
    BY PointsFacts, Zenon
  <1>2. mid.x \in Int /\ mid.y \in Int
    <2>1. PICK g, h : /\ Sums(g, Xs(pts), n) /\ Sums(h, Ys(pts), n)
                      /\ mid = [x |-> g[n], y |-> h[n]]
      BY AvgCoord, Zenon
    <2>2. n \in 0..n
      BY <1>1
    <2>3. g[n] \in Int /\ h[n] \in Int
      BY <2>1, <2>2, Zenon DEF Sums
    <2> HIDE DEF mid
    <2> QED
      BY <2>1, <2>3
  <1>3. Distances(pts) = D
    BY Zenon DEF Distances, add_distance
  <1> HIDE DEF mid
  <1>4. \A p \in Point : dist(p) \in Int
    <2>1. \A p \in Point : mid.x - n * p.x \in Int /\ mid.y - n * p.y \in Int
      BY <1>1, <1>2 DEF Point
    <2>2. \A a, b \in Int : a * a + b * b \in Int
      OBVIOUS
    <2> QED
      BY <2>1, <2>2, Zenon
  <1> HIDE DEF dist
  <1>5. \A i \in 1..n : [p |-> pts[i], d |-> dist(pts[i])] \in Pair
    BY <1>1, <1>4, Zenon DEF Pair
  <1>6. D \in [1..n -> Pair]
    BY <1>5, Zenon
  <1>7. \A i \in 1..n : D[i].p = pts[i]
    BY Zenon
  <1> HIDE DEF D
  <1>8. Len(D) = n
    BY <1>1, <1>6
  <1> QED
    BY <1>3, <1>6, <1>7, <1>8, Zenon

\* The points in another order have their distances in that order.
LEMMA DistancesPermuted ==
    ASSUME NEW pts \in Seq(Point), NEW n, n = Len(pts), NEW p \in Permutations(n)
    PROVE  Distances(Permuted(pts, p, n)) = Permuted(Distances(pts), p, n)
  <1> DEFINE q == Permuted(pts, p, n)
             mid == avg_coord(pts)
             dist(r) == (mid.x - n * r.x) * (mid.x - n * r.x)
                          + (mid.y - n * r.y) * (mid.y - n * r.y)
             D == [i \in 1..n |-> [p |-> pts[i], d |-> dist(pts[i])]]
  <1>1. Len(q) = n /\ \A i \in 1..n : q[i] = pts[p[i]]
    BY PermutedPoints, Zenon
  <1>2. avg_coord(q) = mid
    BY AvgCoordPermuted, Zenon
  <1> HIDE DEF q, mid
  <1>3. Distances(q) = [i \in 1..n |-> [p |-> q[i], d |-> dist(q[i])]]
    BY <1>1, <1>2, Zenon DEF Distances, add_distance
  <1>4. Distances(pts) = D
    BY Zenon DEF Distances, add_distance, mid
  <1>5. p \in [1..n -> 1..n]
    BY PermutationFacts, Zenon
  <1> HIDE DEF dist
  <1>6. \A i \in 1..n : [p |-> q[i], d |-> dist(q[i])] = D[p[i]]
    <2>1. ASSUME NEW i \in 1..n
          PROVE  [p |-> q[i], d |-> dist(q[i])] = D[p[i]]
      <3>1. D[p[i]] = [p |-> pts[p[i]], d |-> dist(pts[p[i]])]
        BY <1>5, Zenon
      <3> QED
        BY <1>1, <3>1, Zenon
    <2> QED
      BY <2>1, Zenon
  <1> HIDE DEF D
  <1>7. Distances(q) = [i \in 1..n |-> D[p[i]]]
    BY <1>3, <1>6, Zenon
  <1> QED
    BY <1>4, <1>7, Zenon DEF Permuted, q

\* Sorted, the pairs have the points in the order of q.
SortsTo(pts, q, n) == \E a : Sorted(Distances(pts), a, n) /\ q = Permuted(pts, a, n)

\* estimate_pose() labels the points by a permutation that sorts the pairs.
LEMMA LabellingsFacts ==
    ASSUME NEW pts \in Seq(Point), NEW n, n = Len(pts), NEW q
    PROVE  q \in Labellings(pts) <=> SortsTo(pts, q, n)
  <1> DEFINE D == Distances(pts)
  <1>1. Len(D) = n /\ \A i \in 1..n : D[i].p = pts[i]
    BY DistancesFacts, Zenon
  <1> HIDE DEF D
  <1>2. \A s : s \in sort(D) <=> \E a : Sorted(D, a, n) /\ s = Permuted(D, a, n)
    BY <1>1, Zenon DEF sort, Sorted, Permuted
  <1>3. ASSUME NEW a, Sorted(D, a, n)
        PROVE  [i \in 1..Len(Permuted(D, a, n)) |-> Permuted(D, a, n)[i].p] = Permuted(pts, a, n)
    <2>1. n \in Nat /\ a \in [1..n -> 1..n]
      BY <1>3, PointsFacts, PermutationFacts, Zenon DEF Sorted
    <2>2. \A i \in 1..n : Permuted(D, a, n)[i].p = pts[a[i]]
      BY <1>1, <2>1, Zenon DEF Permuted
    <2>3. Len(Permuted(D, a, n)) = n
      BY <2>1 DEF Permuted
    <2>4. [i \in 1..n |-> Permuted(D, a, n)[i].p] = [i \in 1..n |-> pts[a[i]]]
      BY <2>2, Zenon
    <2> QED
      BY <2>3, <2>4, Zenon DEF Permuted
  <1>4. q \in Labellings(pts) <=> \E s \in sort(D) : q = [i \in 1..Len(s) |-> s[i].p]
    BY Zenon DEF Labellings, Distances, D
  <1>5. ASSUME q \in Labellings(pts)
        PROVE  \E a : Sorted(D, a, n) /\ q = Permuted(pts, a, n)
    <2>1. PICK s \in sort(D) : q = [i \in 1..Len(s) |-> s[i].p]
      BY <1>4, <1>5, Zenon
    <2>2. PICK a : Sorted(D, a, n) /\ s = Permuted(D, a, n)
      BY <1>2, Zenon
    <2>3. q = Permuted(pts, a, n)
      BY <1>3, <2>1, <2>2, Zenon
    <2> QED
      BY <2>2, <2>3, Zenon
  <1>6. ASSUME NEW a, Sorted(D, a, n), q = Permuted(pts, a, n)
        PROVE  q \in Labellings(pts)
    BY <1>2, <1>3, <1>4, <1>6, Zenon
  <1> QED
    BY <1>5, <1>6, Zenon DEF D, SortsTo

\* Whatever order the points come in, the labelling is the same, and it is the
\* only one.
LEMMA OneLabelling ==
    ASSUME NEW pts \in Seq(Point), NEW n, n = Len(pts), NEW p \in Permutations(n),
           NEW q, q \in Labellings(pts)
    PROVE  Labellings(Permuted(pts, p, n)) = {q}
  <1>0. SortsTo(pts, q, n)
    BY LabellingsFacts, Zenon
  <1> DEFINE D == Distances(pts)
             r == Permuted(pts, p, n)
             E == Distances(r)
  <1>1. n \in Nat /\ D \in [1..n -> Pair] /\ p \in [1..n -> 1..n]
    BY PointsFacts, DistancesFacts, PermutationFacts, Zenon
  <1>2. r \in Seq(Point) /\ n = Len(r) /\ \A i \in 1..n : r[i] = pts[p[i]]
    BY PermutedPoints, Zenon
  <1>3. \A i \in 1..n : E[i] = D[p[i]]
    <2>1. E = Permuted(D, p, n)
      BY DistancesPermuted, Zenon
    <2> HIDE DEF D, E
    <2>2. E = [i \in 1..n |-> D[p[i]]]
      BY <2>1, Zenon DEF Permuted
    <2> QED
      BY <2>2, Zenon
  <1> HIDE DEF E, r
  <1>4. PICK a : Sorted(D, a, n) /\ q = Permuted(pts, a, n)
    BY <1>0, Zenon DEF SortsTo
  <1> HIDE DEF D
  <1>5. ASSUME NEW t, t \in Labellings(r)
        PROVE  t = q
    <2>0. SortsTo(r, t, n)
      BY <1>2, <1>5, LabellingsFacts, Zenon
    <2>1. PICK b : Sorted(E, b, n) /\ t = Permuted(r, b, n)
      BY <2>0, Zenon DEF E, SortsTo
    <2> DEFINE c == [i \in 1..n |-> p[b[i]]]
    <2>2. b \in Permutations(n) /\ b \in [1..n -> 1..n]
      BY <2>1, PermutationFacts, Zenon DEF Sorted
    <2>3. c \in Permutations(n)
      BY <1>1, <2>2, PermutationsCompose, Zenon
    <2>4. \A i \in 1..n : D[c[i]] = E[b[i]] /\ pts[c[i]] = r[b[i]]
      BY <1>2, <1>3, <2>2, Zenon
    <2> HIDE DEF c
    <2>5. Sorted(D, c, n)
      <3>1. ASSUME NEW i \in 1..n, NEW j \in 1..n, i < j
            PROVE  ~point_comparator(D[c[j]], D[c[i]])
        <4>1. ~point_comparator(E[b[j]], E[b[i]])
          BY <2>1, <3>1, Zenon DEF Sorted
        <4> QED
          BY <2>4, <4>1, Zenon
      <3> QED
        BY <2>3, <3>1, Zenon DEF Sorted
    <2>6. \A i \in 1..n : pts[c[i]] = pts[a[i]]
      <3>1. SameOrder(D, c, a, n)
        BY <1>1, <1>4, <2>5, SortIsUnique, Zenon
      <3>2. \A i \in 1..n : D[i].p = pts[i]
        BY DistancesFacts, Zenon DEF D
      <3>3. c \in [1..n -> 1..n] /\ a \in [1..n -> 1..n]
        BY <1>4, <2>3, PermutationFacts, Zenon DEF Sorted
      <3>4. ASSUME NEW i \in 1..n
            PROVE  pts[c[i]] = pts[a[i]]
        <4>1. pts[c[i]] = D[c[i]].p /\ pts[a[i]] = D[a[i]].p
          BY <3>2, <3>3, Zenon
        <4>2. D[c[i]] = D[a[i]]
          BY <3>1, Zenon DEF SameOrder
        <4> QED
          BY <4>1, <4>2, Zenon
      <3> QED
        BY <3>4, Zenon
    <2>7. [i \in 1..n |-> r[b[i]]] = [i \in 1..n |-> pts[a[i]]]
      BY <2>4, <2>6, Zenon
    <2> QED
      BY <1>4, <2>1, <2>7, Zenon DEF Permuted
  <1>6. q \in Labellings(r)
    <2>1. PICK v \in Permutations(n) : \A i \in 1..n : p[v[i]] = i
      BY <1>1, PermutationInverse, ZenonT(60)
    <2> DEFINE b == [i \in 1..n |-> v[a[i]]]
    <2>2. a \in Permutations(n) /\ a \in [1..n -> 1..n] /\ v \in [1..n -> 1..n]
      BY <1>4, PermutationFacts, Zenon DEF Sorted
    <2>3. b \in Permutations(n)
      BY <1>1, <2>2, PermutationsCompose, Zenon
    <2>4. \A i \in 1..n : b[i] \in 1..n /\ p[b[i]] = a[i]
      BY <2>1, <2>2, Zenon
    <2> HIDE DEF b
    <2>5. \A i \in 1..n : E[b[i]] = D[a[i]] /\ r[b[i]] = pts[a[i]]
      <3>1. ASSUME NEW i \in 1..n
            PROVE  E[b[i]] = D[a[i]] /\ r[b[i]] = pts[a[i]]
        <4>1. b[i] \in 1..n /\ p[b[i]] = a[i]
          BY <2>4, Zenon
        <4>2. E[b[i]] = D[p[b[i]]] /\ r[b[i]] = pts[p[b[i]]]
          BY <1>2, <1>3, <4>1, Zenon
        <4> QED
          BY <4>1, <4>2, Zenon
      <3> QED
        BY <3>1, Zenon
    <2>6. Sorted(E, b, n)
      <3>1. ASSUME NEW i \in 1..n, NEW j \in 1..n, i < j
            PROVE  ~point_comparator(E[b[j]], E[b[i]])
        <4>1. ~point_comparator(D[a[j]], D[a[i]])
          BY <1>4, <3>1, Zenon DEF Sorted
        <4> QED
          BY <2>5, <4>1, Zenon
      <3> QED
        BY <2>3, <3>1, Zenon DEF Sorted
    <2>7. [i \in 1..n |-> r[b[i]]] = [i \in 1..n |-> pts[a[i]]]
      BY <2>5, Zenon
    <2>8. q = Permuted(r, b, n)
      BY <1>4, <2>7, Zenon DEF Permuted
    <2>9. SortsTo(r, q, n)
      BY <2>6, <2>8, Zenon DEF E, SortsTo
    <2> QED
      BY <1>2, <2>9, LabellingsFacts, Zenon
  <1> QED
    BY <1>5, <1>6, Zenon DEF r

\* The labels are a permutation of the points, and labelling them again, as is
\* done when they have become the model, does not change them.
LEMMA LabelledPoints ==
    ASSUME NEW pts \in Seq(Point), NEW q \in Labellings(pts)
    PROVE  q \in Seq(Point) /\ Len(q) = Len(pts) /\ Labellings(q) = {q}
  <1>0. SortsTo(pts, q, Len(pts))
    BY LabellingsFacts, Zenon
  <1>1. PICK a : Sorted(Distances(pts), a, Len(pts)) /\ q = Permuted(pts, a, Len(pts))
    BY <1>0, Zenon DEF SortsTo
  <1>2. a \in Permutations(Len(pts))
    BY <1>1, Zenon DEF Sorted
  <1>3. q \in Seq(Point) /\ Len(q) = Len(pts)
    BY <1>1, <1>2, PermutedPoints, Zenon
  <1>4. Labellings(q) = {q}
    BY <1>1, <1>2, OneLabelling, Zenon
  <1> QED
    BY <1>3, <1>4

\* estimate_pose() labels any points, of any number, in one way, and the
\* order in which detect_points() found them makes no difference: the labels
\* are a function of the points as a bag, although they are computed from a
\* sum in that order and by an unstable sort.
THEOREM LabellingIsCanonical ==
    \A pts \in Seq(Point) :
        \E q \in Seq(Point) :
            /\ Len(q) = Len(pts)
            /\ Labellings(q) = {q}
            /\ \A p \in Permutations(Len(pts)) :
                  Labellings([i \in 1..Len(pts) |-> pts[p[i]]]) = {q}
  <1> SUFFICES ASSUME NEW pts \in Seq(Point)
               PROVE  \E q \in Seq(Point) :
                          /\ Len(q) = Len(pts)
                          /\ Labellings(q) = {q}
                          /\ \A p \in Permutations(Len(pts)) :
                                Labellings([i \in 1..Len(pts) |-> pts[p[i]]]) = {q}
    BY Zenon
  <1>1. Len(pts) \in Nat /\ Distances(pts) \in [1..Len(pts) -> Pair]
    BY PointsFacts, DistancesFacts, Zenon
  <1>2. PICK a : Sorted(Distances(pts), a, Len(pts))
    BY <1>1, SortExists, Zenon
  <1>3. PICK q : q \in Labellings(pts)
    <2>1. SortsTo(pts, Permuted(pts, a, Len(pts)), Len(pts))
      BY <1>2, Zenon DEF SortsTo
    <2>2. Permuted(pts, a, Len(pts)) \in Labellings(pts)
      BY <2>1, LabellingsFacts, Zenon
    <2> QED
      BY <2>2, Zenon
  <1>4. \A p \in Permutations(Len(pts)) : Labellings([i \in 1..Len(pts) |-> pts[p[i]]]) = {q}
    <2>1. \A p \in Permutations(Len(pts)) : Labellings(Permuted(pts, p, Len(pts))) = {q}
      BY <1>3, OneLabelling, Zenon
    <2> QED
      BY <2>1, Zenon DEF Permuted
  <1> QED
    BY <1>3, <1>4, LabelledPoints, Zenon

-----------------------------------------------------------------------------
(* Detection *)

\* The centroid of a contour.
Centroid(c) == [x |-> c.x, y |-> c.y]

\* pts are the centroids of the blobs among the first m contours, each one
\* once and in their order: the j-th is that of contour at[j].
DetectedAt(pts, at, contours, m) ==
    /\ pts \in Seq(Point)
    /\ at \in [1..Len(pts) -> 1..m]
    /\ \A i, j \in 1..Len(pts) : i < j => at[i] < at[j]
    /\ \A j \in 1..Len(pts) : IsBlob(contours[at[j]]) /\ pts[j] = Centroid(contours[at[j]])
    /\ \A k \in 1..m : IsBlob(contours[k]) => \E j \in 1..Len(pts) : at[j] = k

\* A contour that is no blob changes nothing.
LEMMA DetectSkips ==
    ASSUME NEW m \in Nat, NEW N, N = m + 1, NEW contours, NEW pts, NEW at,
           DetectedAt(pts, at, contours, m), ~IsBlob(contours[N])
    PROVE  DetectedAt(pts, at, contours, N)
  <1> DEFINE n == Len(pts)
  <1>1. /\ pts \in Seq(Point) /\ at \in [1..n -> 1..m]
        /\ \A i, j \in 1..n : i < j => at[i] < at[j]
        /\ \A j \in 1..n : IsBlob(contours[at[j]]) /\ pts[j] = Centroid(contours[at[j]])
        /\ \A k \in 1..m : IsBlob(contours[k]) => \E j \in 1..n : at[j] = k
    BY Zenon DEF DetectedAt
  <1>2. (\A k \in 1..m : k \in 1..N) /\ (\A k \in 1..N : k = N \/ k \in 1..m)
    OBVIOUS
  <1>3. at \in [1..n -> 1..N]
    BY <1>1, <1>2, Zenon
  <1>4. \A k \in 1..N : IsBlob(contours[k]) => \E j \in 1..n : at[j] = k
    BY <1>1, <1>2, Zenon
  <1> QED
    BY <1>1, <1>3, <1>4, Zenon DEF DetectedAt

\* What push_back() does to a vector of points.
LEMMA PushBack ==
    ASSUME NEW pts \in Seq(Point), NEW c \in Point
    PROVE  /\ Len(pts) \in Nat
           /\ Append(pts, c) \in Seq(Point) /\ Len(Append(pts, c)) = Len(pts) + 1
           /\ Append(pts, c)[Len(pts) + 1] = c
           /\ \A j \in 1..Len(pts) : Append(pts, c)[j] = pts[j]
  OBVIOUS

\* A blob's centroid is pushed back.
LEMMA DetectPushes ==
    ASSUME NEW m \in Nat, NEW N, N = m + 1, NEW contours, NEW pts, NEW at,
           DetectedAt(pts, at, contours, m), IsBlob(contours[N]),
           Centroid(contours[N]) \in Point
    PROVE  \E to : DetectedAt(Append(pts, Centroid(contours[N])), to, contours, N)
  <1> DEFINE n == Len(pts)
             c == Centroid(contours[N])
             new == Append(pts, c)
             to == [j \in 1..(n + 1) |-> IF j <= n THEN at[j] ELSE N]
  <1>1. /\ pts \in Seq(Point) /\ at \in [1..n -> 1..m]
        /\ \A i, j \in 1..n : i < j => at[i] < at[j]
        /\ \A j \in 1..n : IsBlob(contours[at[j]]) /\ pts[j] = Centroid(contours[at[j]])
        /\ \A k \in 1..m : IsBlob(contours[k]) => \E j \in 1..n : at[j] = k
    BY Zenon DEF DetectedAt
  <1>2. /\ n \in Nat /\ new \in Seq(Point) /\ Len(new) = n + 1
        /\ new[n + 1] = c /\ \A j \in 1..n : new[j] = pts[j]
    BY <1>1, PushBack, ZenonT(60)
  <1> HIDE DEF n, c, new
  <1>3. \A j \in 1..(n + 1) : j = n + 1 \/ (j \in 1..n /\ j <= n)
    BY <1>2
  <1>4. /\ \A j \in 1..n : to[j] = at[j] /\ at[j] \in 1..m /\ at[j] \in 1..N /\ at[j] < N
        /\ to[n + 1] = N /\ N \in 1..N
    <2>1. \A k \in 1..m : k \in 1..N /\ k < N
      OBVIOUS
    <2>2. \A j \in 1..n : at[j] \in 1..m
      BY <1>1, Zenon
    <2>3. /\ \A j \in 1..n : j \in 1..(n + 1) /\ j <= n
          /\ n + 1 \in 1..(n + 1) /\ ~(n + 1 <= n) /\ N \in 1..N
      BY <1>2
    <2> QED
      BY <2>1, <2>2, <2>3, Zenon
  <1>5. to \in [1..(n + 1) -> 1..N]
    BY <1>3, <1>4, Zenon
  <1> HIDE DEF to
  <1>6. ASSUME NEW i \in 1..(n + 1), NEW j \in 1..(n + 1), i < j
        PROVE  to[i] < to[j]
    <2>1. i \in 1..n
      BY <1>2, <1>6
    <2>2. CASE j = n + 1
      BY <1>4, <2>1, <2>2, Zenon
    <2>3. CASE j \in 1..n
      BY <1>1, <1>4, <1>6, <2>1, <2>3, ZenonT(60)
    <2> QED
      BY <1>3, <2>2, <2>3, ZenonT(60)
  <1>7. ASSUME NEW j \in 1..(n + 1)
        PROVE  IsBlob(contours[to[j]]) /\ new[j] = Centroid(contours[to[j]])
    <2>1. CASE j = n + 1
      BY <1>2, <1>4, <2>1, Zenon DEF c
    <2>2. CASE j \in 1..n
      BY <1>1, <1>2, <1>4, <2>2, Zenon
    <2> QED
      BY <1>3, <2>1, <2>2, Zenon
  <1>8. ASSUME NEW k \in 1..N, IsBlob(contours[k])
        PROVE  \E j \in 1..(n + 1) : to[j] = k
    <2>1. (k = N \/ k \in 1..m) /\ n + 1 \in 1..(n + 1) /\ \A j \in 1..n : j \in 1..(n + 1)
      BY <1>2
    <2> QED
      BY <1>1, <1>4, <1>8, <2>1, ZenonT(60)
  <1>9. DetectedAt(new, to, contours, N)
    BY <1>2, <1>5, <1>6, <1>7, <1>8 DEF DetectedAt
  <1> QED
    BY <1>9, Zenon DEF new, c

\* Contours have points for centroids.
LEMMA CentroidFacts ==
    ASSUME NEW contours \in Seq(Contour)
    PROVE  /\ Len(contours) \in Nat
           /\ \A i \in 1..Len(contours) : Centroid(contours[i]) \in Point
  <1>1. Len(contours) \in Nat /\ \A i \in 1..Len(contours) : contours[i] \in Contour
    OBVIOUS
  <1>2. \A c \in Contour : Centroid(c) \in Point
    BY PoseAssumption DEF Centroid, Point
  <1> QED
    BY <1>1, <1>2, Zenon

\* found has the vectors that the rounds of detect_points()'s loop leave.
DetectRounds(found, contours, n) ==
    /\ detect_points(contours) = found[n]
    /\ found[0] = Empty
    /\ \A i \in 1..n : found[i] = IF IsBlob(contours[i])
                                  THEN Append(found[i - 1], Centroid(contours[i]))
                                  ELSE found[i - 1]

\* detect_points() is that loop.
LEMMA DetectLoop ==
    ASSUME NEW contours \in Seq(Contour), NEW n, n = Len(contours)
    PROVE  \E found : DetectRounds(found, contours, n)
  <1> DEFINE Body(f) == [i \in 0..n |->
                           IF i = 0 THEN Empty
                           ELSE IF IsBlob(contours[i])
                                THEN Append(f[i - 1], Centroid(contours[i]))
                                ELSE f[i - 1]]
             found == CHOOSE f : f = Body(f)
             step == [i \in 1..n |-> [v \in Seq(Point) |->
                        IF IsBlob(contours[i]) THEN Append(v, Centroid(contours[i])) ELSE v]]
  <1>1. detect_points(contours) = found[n]
    BY DEF detect_points, Centroid
  <1>2. n \in Nat /\ \A i \in 1..n : Centroid(contours[i]) \in Point
    BY CentroidFacts, Zenon
  <1>3. Empty \in Seq(Point)
    BY DEF Empty
  <1>4. step \in [1..n -> [Seq(Point) -> Seq(Point)]]
    BY <1>2, PushBack, Zenon
  <1>5. PICK f : Loop(f, Seq(Point), Empty, n, step)
    <2> HIDE DEF step
    <2> QED
      BY <1>2, <1>3, <1>4, Iteration, ZenonT(60)
  <1>6. f = Body(f)
    <2>1. /\ f \in [0..n -> Seq(Point)] /\ f[0] = Empty
          /\ \A i \in 1..n : f[i] = step[i][f[i - 1]]
      BY <1>5, Zenon DEF Loop
    <2>2. ASSUME NEW i \in 0..n
          PROVE  f[i] = IF i = 0 THEN Empty
                        ELSE IF IsBlob(contours[i])
                             THEN Append(f[i - 1], Centroid(contours[i]))
                             ELSE f[i - 1]
      <3>1. CASE i = 0
        BY <2>1, <3>1, Zenon
      <3>2. CASE i # 0
        <4>1. i \in 1..n /\ i - 1 \in 0..n
          BY <1>2, <3>2
        <4>2. f[i - 1] \in Seq(Point)
          BY <2>1, <4>1, Zenon
        <4> QED
          BY <2>1, <3>2, <4>1, <4>2, ZenonT(60)
      <3> QED
        BY <3>1, <3>2, Zenon
    <2> QED
      BY <2>1, <2>2, Zenon
  <1>7. found = Body(found)
    BY <1>6, Zenon
  <1> HIDE DEF found
  <1>8. 0 \in 0..n /\ \A i \in 1..n : i \in 0..n /\ i # 0
    BY <1>2
  <1>9. \A i \in 0..n : found[i] = IF i = 0 THEN Empty
                                   ELSE IF IsBlob(contours[i])
                                        THEN Append(found[i - 1], Centroid(contours[i]))
                                        ELSE found[i - 1]
    <2> DEFINE g == Body(found)
    <2>1. \A i \in 0..n : g[i] = IF i = 0 THEN Empty
                                 ELSE IF IsBlob(contours[i])
                                      THEN Append(found[i - 1], Centroid(contours[i]))
                                      ELSE found[i - 1]
      BY Zenon
    <2>2. found = g
      BY <1>7, Zenon
    <2> HIDE DEF g
    <2> QED
      BY <2>1, <2>2, Zenon
  <1>10. DetectRounds(found, contours, n)
    BY <1>1, <1>8, <1>9, Zenon DEF DetectRounds
  <1> QED
    BY <1>10, Zenon

\* detect_points() returns the centroids of the contours that are not at the
\* origin and are larger than 300: all of them, each one once, and in the
\* order in which findContours() gave them.
THEOREM DetectPointsFindsTheBlobs ==
    \A contours \in Seq(Contour) :
        \E at : DetectedAt(detect_points(contours), at, contours, Len(contours))
  <1> SUFFICES ASSUME NEW contours \in Seq(Contour)
               PROVE  \E at : DetectedAt(detect_points(contours), at, contours, Len(contours))
    BY Zenon
  <1> DEFINE n == Len(contours)
  <1>1. n \in Nat /\ \A i \in 1..n : Centroid(contours[i]) \in Point
    BY CentroidFacts, Zenon
  <1> HIDE DEF n
  <1>2. PICK found : DetectRounds(found, contours, n)
    BY DetectLoop, Zenon DEF n
  <1> USE DEF DetectRounds
  <1> DEFINE T == {m \in Nat : m <= n => \E at : DetectedAt(found[m], at, contours, m)}
  <1>3. 0 \in T
    <2> DEFINE at == [j \in 1..0 |-> 0]
    <2>1. /\ Empty \in Seq(Point) /\ Len(Empty) = 0 /\ at \in [1..0 -> 1..0]
          /\ \A j \in 1..0 : FALSE
      BY DEF Empty
    <2> HIDE DEF at
    <2>2. DetectedAt(Empty, at, contours, 0)
      BY <2>1 DEF DetectedAt
    <2> QED
      BY <1>2, <2>2
  <1>4. ASSUME NEW m \in Nat, m \in T, m + 1 <= n
        PROVE  \E at : DetectedAt(found[m + 1], at, contours, m + 1)
    <2>1. m <= n /\ m + 1 \in 1..n /\ (m + 1) - 1 = m
      BY <1>1, <1>4
    <2>2. PICK at : DetectedAt(found[m], at, contours, m)
      BY <1>4, <2>1, Zenon
    <2>3. CASE IsBlob(contours[m + 1])
      <3>1. found[m + 1] = Append(found[m], Centroid(contours[m + 1]))
        BY <1>2, <2>1, <2>3, Zenon
      <3>2. \E to : DetectedAt(Append(found[m], Centroid(contours[m + 1])), to, contours, m + 1)
        BY <1>1, <2>1, <2>2, <2>3, DetectPushes, ZenonT(60)
      <3> QED
        BY <3>1, <3>2, Zenon
    <2>4. CASE ~IsBlob(contours[m + 1])
      <3>1. found[m + 1] = found[m]
        BY <1>2, <2>1, <2>4, Zenon
      <3>2. DetectedAt(found[m], at, contours, m + 1)
        BY <2>2, <2>4, DetectSkips, Zenon
      <3> QED
        BY <3>1, <3>2, Zenon
    <2> QED
      BY <2>3, <2>4
  <1>5. \A m \in Nat : m \in T => m + 1 \in T
    BY <1>4
  <1> HIDE DEF T
  <1>6. n \in T /\ n <= n
    BY <1>1, <1>3, <1>5, Induction
  <1> QED
    BY <1>2, <1>6, Zenon DEF T, n

=============================================================================
