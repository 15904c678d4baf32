----------------------------- MODULE PureLemmas -----------------------------
(***************************************************************************)
(* Lemmas of what has no state.  Induction over the natural numbers, stated *)
(* with sets in place of predicates so that first-order provers can use it, *)
(* and the existence of the function that iterates another one: what a      *)
(* recursive definition of the models needs before anything can be proved   *)
(* of it.  What the sequences of the models hold after they are put         *)
(* together.  That c3_linearize finds Python's order whenever there is one. *)
(***************************************************************************)
EXTENDS C3Mro, FiniteSetTheorems, WellFoundedInduction, TLAPS

-----------------------------------------------------------------------------
(* Induction, recursion and sequences *)

\* A set of natural numbers has a least element.
LEMMA LeastExists ==
  ASSUME NEW T \in SUBSET Nat, T # {}
  PROVE  \E x \in T : \A y \in T : x <= y
<1> DEFINE R == OpToRel(<, Nat)
<1>1. IsWellFoundedOn(R, Nat)
  BY NatLessThanWellFounded
<1>2. \A a, b \in Nat : a < b => <<a, b>> \in R
  BY DEF OpToRel
<1> HIDE DEF R
<1>3. PICK x \in T : \A y \in T : ~ (<<y, x>> \in R)
  BY <1>1, WFMin
<1>4. \A y \in T : ~ (y < x)
  <2> TAKE y \in T
  <2>1. y \in Nat /\ x \in Nat
    OBVIOUS
  <2>2. ~ (<<y, x>> \in R)
    BY <1>3
  <2> QED
    BY <2>1, <2>2, <1>2, Zenon
<1> QED
  BY <1>4

\* So has a set of integers that is bounded from below, and one bounded from above a greatest.
LEMMA BoundsExist ==
  ASSUME NEW m \in Int, NEW n \in Int, NEW T \in SUBSET (m .. n), T # {}
  PROVE  /\ \E x \in T : \A y \in T : x <= y
         /\ \E x \in T : \A y \in T : x >= y
<1> DEFINE Up == {y - m : y \in T}
           Down == {n - y : y \in T}
<1>0. \A y \in T : y - m \in Nat /\ n - y \in Nat
  OBVIOUS
<1>1. Up \in SUBSET Nat /\ Up # {} /\ Down \in SUBSET Nat /\ Down # {}
  <2>1. Up \subseteq Nat /\ Down \subseteq Nat
    BY <1>0
  <2>2. Up # {} /\ Down # {}
    OBVIOUS
  <2> QED
    BY <2>1, <2>2
<1>2. PICK a \in Up : \A y \in Up : a <= y
  BY <1>1, LeastExists
<1>3. PICK b \in Down : \A y \in Down : b <= y
  BY <1>1, LeastExists
<1>4. \A y \in T : y \in Int /\ y - m \in Up /\ n - y \in Down
  OBVIOUS
<1>5. PICK x \in T : a = x - m
  OBVIOUS
<1>6. PICK z \in T : b = n - z
  OBVIOUS
<1> HIDE DEF Up, Down
<1>7. \A y \in T : x <= y
  BY <1>2, <1>4, <1>5
<1>8. \A y \in T : z >= y
  BY <1>3, <1>4, <1>6
<1> QED
  BY <1>7, <1>8

\* Induction: S is the set of numbers of which something is shown.
LEMMA Induct ==
  ASSUME NEW S, 0 \in S, \A n \in Nat : n \in S => n + 1 \in S
  PROVE  \A n \in Nat : n \in S
<1> SUFFICES ASSUME Nat \ S # {} PROVE FALSE
  OBVIOUS
<1> DEFINE T == Nat \ S
<1>0. T \in SUBSET Nat /\ T # {}
  OBVIOUS
<1>1. PICK x \in T : \A y \in T : x <= y
  BY <1>0, LeastExists, Zenon
<1>2. x # 0 /\ x - 1 \in Nat /\ x - 1 \in S
  BY <1>1
<1> QED
  BY <1>1, <1>2

\* The same below a bound.
LEMMA InductUpTo ==
  ASSUME NEW m \in Nat, NEW S, 0 \in S, \A n \in 0 .. m - 1 : n \in S => n + 1 \in S
  PROVE  \A n \in 0 .. m : n \in S
<1> DEFINE T == S \cup {n \in Nat : n > m}
<1>1. 0 \in T /\ \A n \in Nat : n \in T => n + 1 \in T
  OBVIOUS
<1> HIDE DEF T
<1>2. \A n \in Nat : n \in T
  BY <1>1, Induct
<1> QED
  BY <1>2 DEF T

-----------------------------------------------------------------------------
\* Iteration.

\* g holds the first n + 1 iterates of F from A.
Run(U, A, F, n, g) ==
  /\ g \in [0 .. n -> U] /\ g[0] = A
  /\ \A i \in 0 .. n - 1 : g[i + 1] = F[g[i]]

\* There is such a g for every n.
LEMMA RunsExist ==
  ASSUME NEW U, NEW A \in U, NEW F \in [U -> U], NEW n \in Nat
  PROVE  \E g : Run(U, A, F, n, g)
<1> DEFINE S == {k \in Nat : \E g : Run(U, A, F, k, g)}
<1>1. 0 \in S
  <2> DEFINE g == [i \in 0 .. 0 |-> A]
  <2>1. Run(U, A, F, 0, g)
    BY DEF Run
  <2> QED
    BY <2>1
<1>2. ASSUME NEW k \in Nat, k \in S PROVE k + 1 \in S
  <2>1. PICK g : Run(U, A, F, k, g)
    BY <1>2
  <2> DEFINE h == [i \in 0 .. k + 1 |-> IF i = k + 1 THEN F[g[k]] ELSE g[i]]
  <2>2. g[k] \in U /\ \A i \in 0 .. k : g[i] \in U
    BY <2>1 DEF Run
  <2>3. h \in [0 .. k + 1 -> U]
    BY <2>2
  <2>4. \A i \in 0 .. k : h[i] = g[i]
    OBVIOUS
  <2>5. h[k + 1] = F[g[k]]
    OBVIOUS
  <2> HIDE DEF h
  <2>6. \A i \in 0 .. (k + 1) - 1 : h[i + 1] = F[h[i]]
    BY <2>1, <2>4, <2>5 DEF Run
  <2>7. Run(U, A, F, k + 1, h)
    BY <2>1, <2>3, <2>4, <2>6 DEF Run
  <2> QED
    BY <2>7
<1> HIDE DEF S
<1>3. \A k \in Nat : k \in S
  BY <1>1, <1>2, Induct
<1> QED
  BY <1>3 DEF S

\* Two of them agree where both are defined.
LEMMA RunsAgree ==
  ASSUME NEW U, NEW A, NEW F, NEW n \in Nat, NEW m \in Nat, NEW g, NEW h,
         Run(U, A, F, n, g), Run(U, A, F, m, h),
         NEW k \in Nat, k <= n, k <= m
  PROVE  g[k] = h[k]
<1> DEFINE S == {i \in Nat : i <= n /\ i <= m => g[i] = h[i]}
<1>1. 0 \in S
  BY DEF Run
<1>2. ASSUME NEW i \in Nat, i \in S PROVE i + 1 \in S
  BY <1>2 DEF Run
<1> HIDE DEF S
<1>3. \A i \in Nat : i \in S
  BY <1>1, <1>2, Induct
<1> QED
  BY <1>3 DEF S

Iterates(f, U, A, F) ==
  f \in [Nat -> U] /\ f[0] = A /\ \A n \in Nat : f[n + 1] = F[f[n]]

\* A function can be iterated: what justifies f[0] = A, f[n + 1] = F[f[n]].
LEMMA IterationExists ==
  ASSUME NEW U, NEW A \in U, NEW F \in [U -> U]
  PROVE  \E f : Iterates(f, U, A, F)
<1> DEFINE G(n) == CHOOSE g : Run(U, A, F, n, g)
           f == [n \in Nat |-> G(n)[n]]
<1>1. \A n \in Nat : Run(U, A, F, n, G(n))
  BY RunsExist, Zenon
<1> HIDE DEF G
<1>2. \A n \in Nat : G(n)[n] \in U
  BY <1>1 DEF Run
<1>3. f \in [Nat -> U]
  BY <1>2
<1>4. f[0] = A
  BY <1>1 DEF Run
<1>5. ASSUME NEW n \in Nat PROVE f[n + 1] = F[f[n]]
  <2>1. Run(U, A, F, n, G(n)) /\ Run(U, A, F, n + 1, G(n + 1)) /\ n + 1 \in Nat
    BY <1>1
  <2>2. G(n)[n] = G(n + 1)[n]
    <3>1. n <= n /\ n <= n + 1
      OBVIOUS
    <3>2. ASSUME NEW g, NEW h, Run(U, A, F, n, g), Run(U, A, F, n + 1, h)
          PROVE  g[n] = h[n]
      BY <2>1, <3>1, <3>2, RunsAgree
    <3> QED
      BY <2>1, <3>2
  <2>3. G(n + 1)[n + 1] = F[G(n + 1)[n]]
    BY <2>1 DEF Run
  <2> QED
    BY <2>1, <2>2, <2>3
<1> HIDE DEF f
<1>6. Iterates(f, U, A, F)
  BY <1>3, <1>4, <1>5 DEF Iterates
<1> QED
  BY <1>6

Recurs(f, U, A, F) ==
  f \in [Nat -> U] /\ f[0] = A /\ \A n \in Nat : f[n + 1] = F[<<n, f[n]>>]

\* The same where the step depends on how often it has been taken.
LEMMA RecursionExists ==
  ASSUME NEW U, NEW A \in U, NEW F \in [Nat \X U -> U]
  PROVE  \E f : Recurs(f, U, A, F)
<1> DEFINE V == Nat \X U
           G == [x \in V |-> <<x[1] + 1, F[x]>>]
           B == <<0, A>>
<1>1. B \in V /\ G \in [V -> V]
  <2>1. ASSUME NEW x \in V PROVE <<x[1] + 1, F[x]>> \in V
    OBVIOUS
  <2>2. B \in V
    OBVIOUS
  <2> HIDE DEF B, V
  <2>3. G \in [V -> V]
    BY <2>1
  <2> QED
    BY <2>2, <2>3
<1>2. ASSUME NEW n \in Nat, NEW u \in U PROVE G[<<n, u>>] = <<n + 1, F[<<n, u>>]>>
  <2>1. <<n, u>> \in V
    OBVIOUS
  <2> HIDE DEF V
  <2>2. \A x \in V : G[x] = <<x[1] + 1, F[x]>>
    BY Zenon
  <2> HIDE DEF G
  <2> QED
    BY <2>1, <2>2
<1> HIDE DEF G
<1>3. PICK g : Iterates(g, V, B, G)
  BY <1>1, IterationExists, Zenon
<1>4. g \in [Nat -> V] /\ g[0] = B /\ \A n \in Nat : g[n + 1] = G[g[n]]
  BY <1>3 DEF Iterates
<1> DEFINE S == {n \in Nat : g[n][1] = n}
<1>5. \A n \in Nat : g[n] \in V /\ g[n][1] \in Nat /\ g[n][2] \in U /\ g[n] = <<g[n][1], g[n][2]>>
  BY <1>4
<1> HIDE DEF V
<1>6. 0 \in S
  BY <1>4
<1>7. ASSUME NEW n \in Nat, n \in S PROVE n + 1 \in S
  <2>1. g[n + 1] = G[<<n, g[n][2]>>]
    BY <1>4, <1>5, <1>7
  <2>2. g[n + 1] = <<n + 1, F[<<n, g[n][2]>>]>>
    BY <1>2, <1>5, <2>1
  <2> QED
    BY <2>2
<1> HIDE DEF S
<1>8. \A n \in Nat : n \in S
  BY <1>6, <1>7, Induct
<1> DEFINE f == [n \in Nat |-> g[n][2]]
<1>9. f \in [Nat -> U]
  BY <1>5
<1>10. f[0] = A
  BY <1>4
<1>11. ASSUME NEW n \in Nat PROVE f[n + 1] = F[<<n, f[n]>>]
  <2>1. g[n] = <<n, g[n][2]>>
    BY <1>5, <1>8 DEF S
  <2>2. g[n + 1] = <<n + 1, F[<<n, g[n][2]>>]>>
    <3>1. g[n][2] \in U /\ g[n + 1] = G[g[n]]
      BY <1>4, <1>5
    <3> QED
      BY <1>2, <2>1, <3>1
  <2>3. f[n + 1] = g[n + 1][2] /\ f[n] = g[n][2]
    OBVIOUS
  <2> QED
    BY <2>2, <2>3
<1> HIDE DEF f
<1>12. Recurs(f, U, A, F)
  BY <1>9, <1>10, <1>11 DEF Recurs
<1> QED
  BY <1>12

-----------------------------------------------------------------------------
(* Sequences *)

\* What ToSet of a sequence has: its elements.
LEMMA RangeFacts ==
  ASSUME NEW A, NEW s \in Seq(A)
  PROVE  /\ s \in Seq(ToSet(s)) /\ ToSet(s) \subseteq A /\ Len(s) \in Nat
         /\ DOMAIN s = 1 .. Len(s)
         /\ \A x : x \in ToSet(s) <=> \E i \in 1 .. Len(s) : s[i] = x
<1>1. Len(s) \in Nat /\ DOMAIN s = 1 .. Len(s) /\ s \in [1 .. Len(s) -> A]
  OBVIOUS
<1>2. \A x : x \in ToSet(s) <=> \E i \in 1 .. Len(s) : s[i] = x
  BY <1>1 DEF ToSet
<1>3. s \in [1 .. Len(s) -> ToSet(s)]
  BY <1>1, <1>2
<1>4. s \in Seq(ToSet(s))
  BY <1>1, <1>3
<1>5. ToSet(s) \subseteq A
  BY <1>1 DEF ToSet
<1> QED
  BY <1>1, <1>2, <1>4, <1>5, Zenon

\* What is in the one or the other is in both, one after the other.
LEMMA ConcatRange ==
  ASSUME NEW A, NEW s \in Seq(A), NEW t \in Seq(A)
  PROVE  /\ s \o t \in Seq(A)
         /\ \A x : x \in ToSet(s \o t) <=> x \in ToSet(s) \/ x \in ToSet(t)
<1> DEFINE u == s \o t
           m == Len(s)
           n == Len(t)
<1>1. /\ u \in Seq(A) /\ Len(u) = m + n /\ m \in Nat /\ n \in Nat
      /\ \A i \in 1 .. m : i \in 1 .. m + n /\ u[i] = s[i]
      /\ \A i \in 1 .. n : i + m \in 1 .. m + n /\ u[i + m] = t[i]
      /\ \A i \in m + 1 .. m + n : i - m \in 1 .. n /\ u[i] = t[i - m]
  OBVIOUS
<1>2. \A x : x \in ToSet(s) <=> \E i \in 1 .. m : s[i] = x
  BY RangeFacts
<1>3. \A x : x \in ToSet(t) <=> \E i \in 1 .. n : t[i] = x
  BY RangeFacts
<1> HIDE DEF u
<1>4. \A x : x \in ToSet(u) <=> \E i \in 1 .. m + n : u[i] = x
  <2>1. \A x : x \in ToSet(u) <=> \E i \in 1 .. Len(u) : u[i] = x
    BY <1>1, RangeFacts
  <2> QED
    BY <1>1, <2>1
<1> HIDE DEF m, n
<1>5. ASSUME NEW x, x \in ToSet(u) PROVE x \in ToSet(s) \/ x \in ToSet(t)
  <2>1. PICK i \in 1 .. m + n : u[i] = x
    BY <1>4, <1>5
  <2>2. CASE i \in 1 .. m
    BY <1>1, <1>2, <2>1, <2>2
  <2>3. CASE i \in m + 1 .. m + n
    BY <1>1, <1>3, <2>1, <2>3
  <2> QED
    BY <1>1, <2>2, <2>3
<1>6. ASSUME NEW x, x \in ToSet(s) \/ x \in ToSet(t) PROVE x \in ToSet(u)
  <2>1. CASE x \in ToSet(s)
    BY <1>1, <1>2, <1>4, <2>1
  <2>2. CASE x \in ToSet(t)
    BY <1>1, <1>3, <1>4, <2>2
  <2> QED
    BY <1>6, <2>1, <2>2
<1> QED
  BY <1>1, <1>5, <1>6 DEF u

\* f[i] holds the first i of N sequences, one after the other.
Flattens(f, A, N, ss) ==
  /\ f[1] = ss[1]
  /\ \A i \in 1 .. N : f[i] \in Seq(A)
  /\ \A i \in 2 .. N : f[i] = f[i - 1] \o ss[i]

\* Flattening concatenates one sequence after the other.
LEMMA FlattenDefined ==
  ASSUME NEW A, NEW N \in Nat \ {0}, NEW ss \in [1 .. N -> Seq(A)]
  PROVE  \E f : FlattenSeq(ss) = f[N] /\ Flattens(f, A, N, ss)
<1> DEFINE U == Seq(A)
           F == [p \in Nat \X U |-> IF p[1] + 2 \in 1 .. N THEN p[2] \o ss[p[1] + 2] ELSE p[2]]
           flatten[i \in 1 .. N] == IF i = 1 THEN ss[i] ELSE flatten[i - 1] \o ss[i]
           Fits(f) == f = [i \in 1 .. N |-> IF i = 1 THEN ss[i] ELSE f[i - 1] \o ss[i]]
<1>1. Len(ss) = N /\ N # 0 /\ 1 \in 1 .. N
  OBVIOUS
<1>2. F \in [Nat \X U -> U] /\ ss[1] \in U
  <2>1. ASSUME NEW p \in Nat \X U
        PROVE  (IF p[1] + 2 \in 1 .. N THEN p[2] \o ss[p[1] + 2] ELSE p[2]) \in U
    <3>1. p[1] \in Nat /\ p[2] \in Seq(A)
      OBVIOUS
    <3>2. CASE p[1] + 2 \in 1 .. N
      <4>1. ss[p[1] + 2] \in Seq(A)
        BY <3>2
      <4>2. p[2] \o ss[p[1] + 2] \in Seq(A)
        BY <3>1, <4>1
      <4> QED
        BY <3>2, <4>2
    <3> QED
      BY <3>1, <3>2
  <2>2. F \in [Nat \X U -> U]
    <3> HIDE DEF U
    <3> QED
      BY <2>1
  <2> QED
    BY <1>1, <2>2
<1>3. ASSUME NEW n \in Nat, NEW u \in U, n + 2 \in 1 .. N PROVE F[<<n, u>>] = u \o ss[n + 2]
  <2>1. <<n, u>> \in Nat \X U
    OBVIOUS
  <2> HIDE DEF U
  <2>2. \A p \in Nat \X U :
           F[p] = IF p[1] + 2 \in 1 .. N THEN p[2] \o ss[p[1] + 2] ELSE p[2]
    BY Zenon
  <2> HIDE DEF F
  <2> QED
    BY <1>3, <2>1, <2>2
<1> HIDE DEF F, U
<1>4. PICK h : Recurs(h, U, ss[1], F)
  BY <1>2, RecursionExists, Zenon
<1>5. h \in [Nat -> U] /\ h[0] = ss[1] /\ \A n \in Nat : h[n + 1] = F[<<n, h[n]>>]
  BY <1>4 DEF Recurs
<1> DEFINE f == [i \in 1 .. N |-> h[i - 1]]
<1>6. ASSUME NEW i \in 1 .. N, i # 1 PROVE h[i - 1] = f[i - 1] \o ss[i]
  <2>1. i - 2 \in Nat /\ (i - 2) + 1 = i - 1 /\ (i - 2) + 2 = i /\ i - 1 \in 1 .. N
        /\ (i - 1) - 1 = i - 2
    BY <1>6
  <2>2. f[i - 1] = h[i - 2] /\ h[i - 2] \in U /\ h[i - 1] = F[<<i - 2, h[i - 2]>>]
    BY <1>5, <2>1
  <2> QED
    BY <1>3, <2>1, <2>2
<1>7. \A i \in 1 .. N : h[i - 1] = IF i = 1 THEN ss[i] ELSE f[i - 1] \o ss[i]
  <2>1. 1 - 1 = 0
    OBVIOUS
  <2> QED
    BY <1>5, <1>6, <2>1, Zenon
<1>8. Fits(f)
  BY <1>7, Zenon
<1> HIDE DEF f
<1>9. \E x : Fits(x)
  BY <1>8
<1>10. Fits(flatten)
  BY <1>9, Zenon
<1> DEFINE K == [i \in 1 .. N |-> IF i = 1 THEN ss[i] ELSE flatten[i - 1] \o ss[i]]
<1>11. flatten = K
  BY <1>10, Zenon
<1>12. FlattenSeq(ss) = flatten[N]
  BY <1>1, Zenon DEF FlattenSeq
<1> HIDE DEF flatten
<1>13. \A i \in 1 .. N : K[i] = IF i = 1 THEN ss[i] ELSE flatten[i - 1] \o ss[i]
  BY Zenon
<1> HIDE DEF K
<1>14. \A i \in 1 .. N : flatten[i] = IF i = 1 THEN ss[i] ELSE flatten[i - 1] \o ss[i]
  BY <1>11, <1>13, Zenon
<1>15. flatten[1] = ss[1] /\ \A i \in 2 .. N : flatten[i] = flatten[i - 1] \o ss[i]
  <2>1. 1 \in 1 .. N /\ \A i \in 2 .. N : i \in 1 .. N /\ i # 1
    BY <1>1
  <2> QED
    BY <1>14, <2>1
<1> DEFINE S == {k \in Nat : flatten[k + 1] \in Seq(A)}
<1>16. 0 \in S
  <2>1. 0 + 1 = 1 /\ ss[1] \in Seq(A)
    BY <1>1
  <2> QED
    BY <1>15, <2>1
<1>17. ASSUME NEW k \in 0 .. (N - 1) - 1, k \in S PROVE k + 1 \in S
  <2>1. k + 2 \in 2 .. N /\ (k + 2) - 1 = k + 1 /\ (k + 1) + 1 = k + 2 /\ k + 1 \in Nat
    OBVIOUS
  <2>2. flatten[k + 2] = flatten[k + 1] \o ss[k + 2]
    BY <1>15, <2>1
  <2>3. flatten[k + 1] \in Seq(A) /\ ss[k + 2] \in Seq(A)
    BY <1>17, <2>1
  <2> HIDE DEF flatten
  <2>4. flatten[k + 2] \in Seq(A)
    BY <2>2, <2>3
  <2> QED
    BY <2>1, <2>4 DEF S
<1> HIDE DEF S
<1>18. \A k \in 0 .. N - 1 : k \in S
  <2> DEFINE m == N - 1
  <2>1. m \in Nat /\ \A k \in 0 .. m - 1 : k \in S => k + 1 \in S
    BY <1>17
  <2> HIDE DEF m
  <2>2. \A k \in 0 .. m : k \in S
    BY <1>16, <2>1, InductUpTo
  <2> QED
    BY <2>2 DEF m
<1>19. \A i \in 1 .. N : flatten[i] \in Seq(A)
  <2> TAKE i \in 1 .. N
  <2>1. i - 1 \in 0 .. N - 1 /\ (i - 1) + 1 = i
    OBVIOUS
  <2>2. flatten[(i - 1) + 1] \in Seq(A)
    BY <1>18, <2>1 DEF S
  <2> QED
    BY <2>1, <2>2
<1>20. Flattens(flatten, A, N, ss)
  BY <1>15, <1>19, Zenon DEF Flattens
<1> QED
  BY <1>12, <1>20, Zenon

\* Flattening keeps the elements.
LEMMA FlattenFacts ==
  ASSUME NEW A, NEW N \in Nat \ {0}, NEW ss \in [1 .. N -> Seq(A)]
  PROVE  /\ FlattenSeq(ss) \in Seq(A)
         /\ \A x : x \in ToSet(FlattenSeq(ss)) <=> \E k \in 1 .. N : x \in ToSet(ss[k])
<1>0. PICK f : FlattenSeq(ss) = f[N] /\ Flattens(f, A, N, ss)
  BY FlattenDefined
<1>1. /\ FlattenSeq(ss) = f[N] /\ f[1] = ss[1]
      /\ \A i \in 1 .. N : f[i] \in Seq(A)
      /\ \A i \in 2 .. N : f[i] = f[i - 1] \o ss[i]
  BY <1>0 DEF Flattens
<1> DEFINE Holds(i) == \A x : x \in ToSet(f[i]) <=> \E k \in 1 .. i : x \in ToSet(ss[k])
           S == {k \in Nat : Holds(k + 1)}
<1>2. 0 \in S
  <2>1. 0 + 1 = 1 /\ \A k \in 1 .. 1 : k = 1
    OBVIOUS
  <2> QED
    BY <1>1, <2>1
<1>3. ASSUME NEW k \in 0 .. (N - 1) - 1, k \in S PROVE k + 1 \in S
  <2> DEFINE i == k + 1
  <2>1. /\ i \in 1 .. N /\ i + 1 \in 2 .. N /\ i + 1 \in 1 .. N /\ (i + 1) - 1 = i /\ i \in Nat
        /\ \A j : j \in 1 .. i + 1 <=> j \in 1 .. i \/ j = i + 1
    OBVIOUS
  <2>2. f[i + 1] = f[i] \o ss[i + 1] /\ f[i] \in Seq(A)
    BY <1>1, <2>1
  <2>3. Holds(i) /\ ss[i + 1] \in Seq(A)
    BY <1>3, <2>1
  <2> HIDE DEF i
  <2>4. \A x : x \in ToSet(f[i + 1]) <=> x \in ToSet(f[i]) \/ x \in ToSet(ss[i + 1])
    BY <2>2, <2>3, ConcatRange
  <2>5. Holds(i + 1)
    BY <2>1, <2>3, <2>4
  <2> QED
    BY <2>1, <2>5 DEF i
<1> HIDE DEF S
<1>4. \A k \in 0 .. N - 1 : k \in S
  <2> DEFINE m == N - 1
  <2>1. m \in Nat /\ \A k \in 0 .. m - 1 : k \in S => k + 1 \in S
    BY <1>3
  <2> HIDE DEF m
  <2>2. \A k \in 0 .. m : k \in S
    BY <1>2, <2>1, InductUpTo
  <2> QED
    BY <2>2 DEF m
<1>5. N - 1 \in S /\ (N - 1) + 1 = N
  BY <1>4
<1>6. Holds((N - 1) + 1)
  BY <1>5 DEF S
<1> HIDE DEF Holds
<1>7. Holds(N)
  BY <1>5, <1>6
<1>8. N \in 1 .. N
  OBVIOUS
<1>9. f[N] \in Seq(A) /\ \A x : x \in ToSet(f[N]) <=> \E k \in 1 .. N : x \in ToSet(ss[k])
  BY <1>1, <1>7, <1>8 DEF Holds
<1> QED
  BY <1>1, <1>9, Zenon

-----------------------------------------------------------------------------
(* The merge of C3 *)

\* A state of the loop: what is in the result is c and what has been removed
\* from the lists; nothing else is, nothing twice, and all in the lists' order.
MergeState(now, r, D, c, m, lists) ==
    /\ now \in [1 .. m -> Nat] /\ r \in Seq(D)
    /\ \A k \in 1 .. m : now[k] <= Len(lists[k])
    /\ Len(r) >= 1 /\ r[1] = c
    /\ \A a \in 2 .. Len(r) : \E k \in 1 .. m : \E i \in 1 .. now[k] : lists[k][i] = r[a]
    /\ \A k \in 1 .. m : \A i \in 1 .. now[k] : \E a \in 1 .. Len(r) : r[a] = lists[k][i]
    /\ \A k \in 1 .. m : \A j \in now[k] + 1 .. Len(lists[k]) :
          \A a \in 1 .. Len(r) : r[a] # lists[k][j]
    /\ \A a, b \in 1 .. Len(r) : a # b => r[a] # r[b]
    /\ \A k \in 1 .. m : \A i, j \in 1 .. now[k] : i < j => Precedes(r, lists[k][i], lists[k][j])

\* x is the next item of list first, in no list's tail, and has been taken.
Takes(p, q, now, r, first, x, m, lists) ==
    /\ p[first] < Len(lists[first]) /\ x = lists[first][p[first] + 1]
    /\ \A k \in 1 .. m : \A j \in p[k] + 2 .. Len(lists[k]) : lists[k][j] # x
    /\ \A k \in 1 .. m :
            \/ now[k] = p[k] /\ (p[k] < Len(lists[k]) => lists[k][p[k] + 1] # x)
            \/ now[k] = p[k] + 1 /\ p[k] < Len(lists[k]) /\ lists[k][p[k] + 1] = x
    /\ Len(r) = Len(q) + 1 /\ r[Len(q) + 1] = x /\ \A a \in 1 .. Len(q) : r[a] = q[a]

\* Before the first round nothing is removed.
LEMMA MergeStarts ==
  ASSUME NEW D, NEW c \in D, NEW m \in Nat, NEW lists \in [1 .. m -> Seq(D)],
         \A k \in 1 .. m : \A i \in 1 .. Len(lists[k]) : lists[k][i] # c
  PROVE  MergeState([k \in 1 .. m |-> 0], <<c>>, D, c, m, lists)
<1>1. \A k \in 1 .. m : Len(lists[k]) \in Nat
  OBVIOUS
<1>2. Len(<<c>>) = 1 /\ <<c>>[1] = c /\ <<c>> # <<>> /\ <<c>> \in Seq(D)
  OBVIOUS
<1> QED
  BY <1>1, <1>2 DEF MergeState

\* What taking x out of the lists keeps, x being in no tail.
LEMMA TakeKeeps ==
  ASSUME NEW D, NEW c, NEW m \in Nat, NEW lists,
         \A k \in 1 .. m : Len(lists[k]) \in Nat,
         NEW p, NEW q, MergeState(p, q, D, c, m, lists), NEW now, NEW r,
         now \in [1 .. m -> Nat] /\ r \in Seq(D),
         NEW first \in 1 .. m, NEW x, Takes(p, q, now, r, first, x, m, lists)
  PROVE  MergeState(now, r, D, c, m, lists)
<1> DEFINE n == Len(q)
<1>0. /\ p[first] < Len(lists[first]) /\ x = lists[first][p[first] + 1]
      /\ \A k \in 1 .. m : \A j \in p[k] + 2 .. Len(lists[k]) : lists[k][j] # x
      /\ \A k \in 1 .. m :
            \/ now[k] = p[k] /\ (p[k] < Len(lists[k]) => lists[k][p[k] + 1] # x)
            \/ now[k] = p[k] + 1 /\ p[k] < Len(lists[k]) /\ lists[k][p[k] + 1] = x
      /\ Len(r) = n + 1 /\ r[n + 1] = x /\ \A a \in 1 .. n : r[a] = q[a]
  BY DEF Takes
<1>1. \A k \in 1 .. m : Len(lists[k]) \in Nat /\ p[k] \in Nat /\ p[k] <= Len(lists[k])
  <2>1. p \in [1 .. m -> Nat] /\ \A k \in 1 .. m : p[k] <= Len(lists[k])
    BY DEF MergeState
  <2> QED
    BY <2>1
<1>2. q \in Seq(D) /\ n \in Nat /\ n >= 1 /\ q[1] = c
  BY DEF MergeState
<1>4. /\ Len(r) = n + 1 /\ r[n + 1] = x /\ r \in Seq(D)
      /\ \A a \in 1 .. n : r[a] = q[a]
      /\ \A a \in 1 .. n + 1 : a \in 1 .. n \/ a = n + 1
      /\ n + 1 \in 1 .. n + 1 /\ \A a \in 1 .. n : a \in 1 .. n + 1 /\ a < n + 1
      /\ DOMAIN r = 1 .. n + 1 /\ DOMAIN q = 1 .. n
  BY <1>0, <1>2
<1>5. \A a \in 1 .. n : q[a] # x
  <2>1. p[first] + 1 \in p[first] + 1 .. Len(lists[first])
    BY <1>0, <1>1
  <2>2. \A j \in p[first] + 1 .. Len(lists[first]) : \A a \in 1 .. Len(q) : q[a] # lists[first][j]
    BY DEF MergeState
  <2> QED
    BY <1>0, <2>1, <2>2
<1>6. \A k \in 1 .. m :
         /\ now[k] <= Len(lists[k]) /\ now[k] \in Nat
         /\ \/ now[k] = p[k] /\ (p[k] < Len(lists[k]) => lists[k][p[k] + 1] # x)
            \/ now[k] = p[k] + 1 /\ p[k] < Len(lists[k]) /\ lists[k][p[k] + 1] = x
  BY <1>0, <1>1
<1>7. now[first] = p[first] + 1
  BY <1>0, <1>1
<1> HIDE DEF n
<1>8. \A a \in 2 .. n + 1 : \E k \in 1 .. m : \E i \in 1 .. now[k] : lists[k][i] = r[a]
  <2>0. Len(q) = n
    BY DEF n
  <2> TAKE a \in 2 .. n + 1
  <2>1. CASE a = n + 1
    <3>1. first \in 1 .. m /\ p[first] + 1 \in 1 .. now[first] /\ lists[first][p[first] + 1] = r[a]
      BY <1>0, <1>1, <1>4, <1>7, <2>1
    <3> QED
      BY <3>1
  <2>2. CASE a \in 2 .. n
    <3>1. PICK k \in 1 .. m : \E i \in 1 .. p[k] : lists[k][i] = q[a]
      BY <2>2 DEF MergeState, n
    <3>2. PICK i \in 1 .. p[k] : lists[k][i] = q[a]
      BY <3>1
    <3>3. i \in 1 .. now[k]
      <4>1. p[k] \in Nat /\ now[k] \in Nat /\ (now[k] = p[k] \/ now[k] = p[k] + 1)
        BY <1>1, <1>6, Zenon
      <4>2. \A N \in Nat : \A h \in 1 .. N : h \in 1 .. N + 1
        OBVIOUS
      <4> QED
        BY <3>2, <4>1, <4>2, Zenon
    <3>4. r[a] = q[a]
      BY <1>4, <2>2
    <3> QED
      BY <3>1, <3>2, <3>3, <3>4
  <2> QED
    BY <1>4, <2>1, <2>2
<1>9. ASSUME NEW k \in 1 .. m, NEW i \in 1 .. now[k]
       PROVE  \/ i \in 1 .. p[k] /\ \E a \in 1 .. n : r[a] = lists[k][i]
              \/ i = p[k] + 1 /\ r[n + 1] = lists[k][i]
  <2>1. i \in 1 .. p[k] \/ (i = p[k] + 1 /\ now[k] = p[k] + 1)
    <3>1. p[k] \in Nat /\ (now[k] = p[k] \/ now[k] = p[k] + 1)
      BY <1>1, <1>6
    <3> QED
      BY <1>9, <3>1
  <2>2. CASE i \in 1 .. p[k]
    <3>1. PICK a \in 1 .. n : q[a] = lists[k][i]
      BY <2>2 DEF MergeState, n
    <3> QED
      BY <1>4, <2>2, <3>1
  <2>3. CASE i = p[k] + 1 /\ now[k] = p[k] + 1
    BY <1>4, <1>6, <2>3
  <2> QED
    BY <2>1, <2>2, <2>3
<1>10. ASSUME NEW k \in 1 .. m, NEW i \in 1 .. now[k]
       PROVE  \E a \in 1 .. n + 1 : r[a] = lists[k][i]
  <2>1. n + 1 \in 1 .. n + 1 /\ \A a \in 1 .. n : a \in 1 .. n + 1
    BY <1>4
  <2> QED
    BY <1>9, <2>1
<1>11. \A k \in 1 .. m : \A j \in now[k] + 1 .. Len(lists[k]) : \A a \in 1 .. n + 1 : r[a] # lists[k][j]
  <2> TAKE k \in 1 .. m
  <2> TAKE j \in now[k] + 1 .. Len(lists[k])
  <2> TAKE a \in 1 .. n + 1
  <2>1. /\ j \in p[k] + 1 .. Len(lists[k])
        /\ j \in p[k] + 2 .. Len(lists[k]) \/ (j = p[k] + 1 /\ now[k] = p[k] /\ p[k] < Len(lists[k]))
    <3>1. now[k] \in Nat /\ Len(lists[k]) \in Nat /\ p[k] \in Nat
      BY <1>1, <1>6
    <3>2. now[k] = p[k] \/ now[k] = p[k] + 1
      BY <1>6
    <3>3. \A P, Q, J \in Nat : J \in P + 1 .. Q => (J = P + 1 /\ P < Q) \/ J \in P + 2 .. Q
      OBVIOUS
    <3>4. \A P, Q, J \in Nat : J \in (P + 1) + 1 .. Q => J \in P + 1 .. Q /\ J \in P + 2 .. Q
      OBVIOUS
    <3>5. j \in Nat
      BY <3>1
    <3> QED
      BY <3>1, <3>2, <3>3, <3>4, <3>5, Zenon
  <2>2. CASE a \in 1 .. n
    <3>1. q[a] # lists[k][j]
      BY <2>1, <2>2 DEF MergeState, n
    <3> QED
      BY <1>4, <2>2, <3>1
  <2>3. CASE a = n + 1
    <3>1. lists[k][j] # x
      <4>1. CASE j \in p[k] + 2 .. Len(lists[k])
        BY <1>0, <4>1
      <4>2. CASE j = p[k] + 1 /\ now[k] = p[k] /\ p[k] < Len(lists[k])
        <5>1. now[k] # p[k] + 1
          BY <1>1, <4>2
        <5> QED
          BY <1>6, <4>2, <5>1
      <4> QED
        BY <2>1, <4>1, <4>2
    <3> QED
      BY <1>4, <2>3, <3>1
  <2> QED
    BY <1>4, <2>2, <2>3
<1>12. \A a, b \in 1 .. n + 1 : a # b => r[a] # r[b]
  <2>1. \A a, b \in 1 .. n : a # b => q[a] # q[b]
    BY DEF MergeState, n
  <2> QED
    BY <1>4, <1>5, <2>1
<1>13. ASSUME NEW k \in 1 .. m, NEW i \in 1 .. now[k], NEW j \in 1 .. now[k], i < j
       PROVE  Precedes(r, lists[k][i], lists[k][j])
  <2> SUFFICES \E a, b \in 1 .. n + 1 : a < b /\ r[a] = lists[k][i] /\ r[b] = lists[k][j]
    BY <1>4, Zenon DEF Precedes
  <2>0. (now[k] = p[k] \/ now[k] = p[k] + 1) /\ p[k] \in Nat /\ i \in Nat /\ j \in Nat
        /\ 1 <= i /\ i < j /\ j <= now[k]
    BY <1>1, <1>6, <1>13
  <2>1. CASE j \in 1 .. p[k]
    <3>1. i \in 1 .. p[k]
      BY <2>0, <2>1
    <3>2. Precedes(q, lists[k][i], lists[k][j])
      <4>1. \A l \in 1 .. m : \A a, b \in 1 .. p[l] : a < b => Precedes(q, lists[l][a], lists[l][b])
        BY Zenon DEF MergeState
      <4> QED
        BY <1>13, <2>1, <3>1, <4>1
    <3>3. PICK a \in 1 .. n, b \in 1 .. n : a < b /\ q[a] = lists[k][i] /\ q[b] = lists[k][j]
      BY <1>4, <3>2 DEF Precedes
    <3>4. a \in 1 .. n + 1 /\ b \in 1 .. n + 1
      BY <1>4
    <3> QED
      BY <1>4, <3>3, <3>4
  <2>2. CASE j \notin 1 .. p[k]
    <3>1. j = p[k] + 1 /\ i \in 1 .. p[k]
      BY <2>0, <2>2
    <3>2. r[n + 1] = lists[k][j]
      BY <1>9, <3>1, <2>2
    <3>3. PICK a \in 1 .. n : r[a] = lists[k][i]
      <4>1. i # p[k] + 1
        BY <2>0, <3>1
      <4> QED
        BY <1>9, <4>1
    <3>4. a \in 1 .. n + 1 /\ n + 1 \in 1 .. n + 1 /\ a < n + 1
      BY <1>4
    <3> QED
      BY <3>2, <3>3, <3>4
  <2> QED
    BY <2>1, <2>2
<1>14. \A k \in 1 .. m : now[k] <= Len(lists[k])
  BY <1>6
<1>15. r[1] = c /\ n + 1 >= 1
  BY <1>2, <1>4
<1>16. now \in [1 .. m -> Nat] /\ r \in Seq(D) /\ Len(r) = n + 1
  BY <1>4
<1> QED
  BY ONLY <1>8, <1>10, <1>11, <1>12, <1>13, <1>14, <1>15, <1>16 DEF MergeState

\* A round leaves the state if there is no candidate, or takes one class more.
RoundGives(p, q, D, c, m, lists) ==
    LET s == [at |-> p, result |-> q]
    IN \/ Candidates(lists, p) = {} /\ Round(lists, s) = s
       \/ /\ Candidates(lists, p) # {}
          /\ \E now, r : /\ Round(lists, s) = [at |-> now, result |-> r]
                       /\ MergeState(now, r, D, c, m, lists) /\ Len(r) = Len(q) + 1

\* A round keeps all that; it takes one class more, or there was no candidate.
LEMMA RoundKeeps ==
  ASSUME NEW D, NEW c, NEW m \in Nat, NEW lists \in [1 .. m -> Seq(D)], NEW p, NEW q,
         MergeState(p, q, D, c, m, lists)
  PROVE  RoundGives(p, q, D, c, m, lists)
<1> DEFINE found == Candidates(lists, p)
           first == Min(found)
           x == lists[first][p[first] + 1]
           now == [k \in 1 .. m |-> IF p[k] < Len(lists[k]) /\ lists[k][p[k] + 1] = x
                                   THEN p[k] + 1 ELSE p[k]]
           r == Append(q, x)
           s == [at |-> p, result |-> q]
<1>0. DOMAIN lists = 1 .. m /\ \A k \in 1 .. m : Len(lists[k]) \in Nat
  OBVIOUS
<1>1. CASE found = {}
  BY <1>1 DEF Round, RoundGives
<1>2. CASE found # {}
  <2>1. Round(lists, s) = [at |-> now, result |-> r]
    BY <1>0, <1>2 DEF Round
  <2>2. first \in found
    <3>1. found \in SUBSET (1 .. m)
      BY <1>0 DEF Candidates
    <3> HIDE DEF found
    <3>2. \E y \in found : \A z \in found : y <= z
      <4>1. 1 \in Int /\ m \in Int
        OBVIOUS
      <4> QED
        BY <1>2, <3>1, <4>1, BoundsExist
    <3> QED
      BY <3>2 DEF Min
  <2>3. /\ first \in 1 .. m /\ p[first] < Len(lists[first])
        /\ \A k \in 1 .. m : \A j \in p[k] + 2 .. Len(lists[k]) : lists[k][j] # x
    BY <1>0, <2>2 DEF Candidates
  <2> HIDE DEF found, first
  <2>4. p \in [1 .. m -> Nat] /\ q \in Seq(D)
    BY Zenon DEF MergeState
  <2>5. x \in D
    BY <2>3, <2>4
  <2>6. r \in Seq(D) /\ Len(r) = Len(q) + 1 /\ r[Len(q) + 1] = x /\ \A a \in 1 .. Len(q) : r[a] = q[a]
    <3> HIDE DEF x
    <3> QED
      BY <2>4, <2>5
  <2>7. now \in [1 .. m -> Nat]
    BY <2>4
  <2>8. \A k \in 1 .. m :
            \/ now[k] = p[k] /\ (p[k] < Len(lists[k]) => lists[k][p[k] + 1] # x)
            \/ now[k] = p[k] + 1 /\ p[k] < Len(lists[k]) /\ lists[k][p[k] + 1] = x
    OBVIOUS
  <2> HIDE DEF r, now
  <2>9. Takes(p, q, now, r, first, x, m, lists)
    BY <2>3, <2>6, <2>8, Zenon DEF Takes, x
  <2> HIDE DEF x
  <2>10. MergeState(now, r, D, c, m, lists)
    BY <1>0, <2>3, <2>6, <2>7, <2>9, TakeKeeps
  <2> QED
    BY <1>2, <2>1, <2>6, <2>10, Zenon DEF found, RoundGives
<1> QED
  BY <1>1, <1>2

MergeStates(D, c, m, lists) ==
    {s \in [at : [1 .. m -> Nat], result : Seq(D)] : MergeState(s.at, s.result, D, c, m, lists)}

\* What the loop has done after n rounds, as MergeOnto defines it.
Merges(f, c, lists) ==
    /\ f[0] = [at |-> [k \in DOMAIN lists |-> 0], result |-> <<c>>]
    /\ \A n \in Nat : f[n + 1] = Round(lists, f[n])

MergeEnd(end, lists) == IF \A k \in DOMAIN lists : end.at[k] = Len(lists[k]) THEN end.result ELSE None

\* A round from s ends in such a state; a class has been taken or nothing done.
RoundFrom(s, D, c, m, lists) ==
    /\ Round(lists, s) \in MergeStates(D, c, m, lists)
    /\ \/ Candidates(lists, s.at) = {} /\ Round(lists, s) = s
       \/ Len(Round(lists, s).result) = Len(s.result) + 1

\* The rounds stay in the states of the loop.
LEMMA RoundsStay ==
  ASSUME NEW D, NEW c, NEW m \in Nat, NEW lists \in [1 .. m -> Seq(D)],
         NEW s \in MergeStates(D, c, m, lists)
  PROVE  RoundFrom(s, D, c, m, lists)
<1> DEFINE p == s.at
           q == s.result
           t == Round(lists, s)
<1>1. s = [at |-> p, result |-> q] /\ MergeState(p, q, D, c, m, lists)
  BY DEF MergeStates
<1>2. RoundGives(p, q, D, c, m, lists)
  BY <1>1, RoundKeeps
<1>3. CASE Candidates(lists, p) = {} /\ t = s
  BY <1>3 DEF RoundFrom
<1>4. CASE /\ Candidates(lists, p) # {}
           /\ \E now, r : /\ t = [at |-> now, result |-> r]
                        /\ MergeState(now, r, D, c, m, lists) /\ Len(r) = Len(q) + 1
  <2>1. PICK now, r : t = [at |-> now, result |-> r] /\ MergeState(now, r, D, c, m, lists)
                     /\ Len(r) = Len(q) + 1
    BY <1>4
  <2>2. now \in [1 .. m -> Nat] /\ r \in Seq(D)
    BY <2>1, Zenon DEF MergeState
  <2>3. t.at = now /\ t.result = r /\ t \in [at : [1 .. m -> Nat], result : Seq(D)]
    BY <2>1, <2>2
  <2> QED
    BY <1>4, <2>1, <2>3 DEF MergeStates, RoundFrom
<1> QED
  <2>1. s = [at |-> p, result |-> q]
    BY <1>1
  <2> QED
    BY <1>2, <1>3, <1>4, <2>1, Zenon DEF RoundGives

\* merge's loop is the sequence of its rounds, all in states of the loop.
LEMMA MergeDefined ==
  ASSUME NEW D, NEW c \in D, NEW m \in Nat, NEW lists \in [1 .. m -> Seq(D)],
         \A k \in 1 .. m : \A i \in 1 .. Len(lists[k]) : lists[k][i] # c
  PROVE  \E f : /\ MergeOnto(c, lists) = MergeEnd(f[Cardinality(UNION {ToSet(l) : l \in ToSet(lists)})], lists)
                /\ Merges(f, c, lists)
                /\ \A n \in Nat : f[n] \in MergeStates(D, c, m, lists)
<1> DEFINE U == MergeStates(D, c, m, lists)
           A == [at |-> [k \in DOMAIN lists |-> 0], result |-> <<c>>]
           F == [s \in U |-> Round(lists, s)]
           after[n \in Nat] == IF n = 0 THEN A ELSE Round(lists, after[n - 1])
           Fits(f) == f = [n \in Nat |-> IF n = 0 THEN A ELSE Round(lists, f[n - 1])]
<1>1. A \in U
  <2>1. MergeState([k \in 1 .. m |-> 0], <<c>>, D, c, m, lists) /\ DOMAIN lists = 1 .. m
    BY MergeStarts
  <2>2. [k \in 1 .. m |-> 0] \in [1 .. m -> Nat] /\ <<c>> \in Seq(D)
    OBVIOUS
  <2> QED
    BY <2>1, <2>2 DEF MergeStates
<1> HIDE DEF A
<1>2. \A s \in U : Round(lists, s) \in U
  BY RoundsStay DEF RoundFrom
<1>3. F \in [U -> U] /\ \A s \in U : F[s] = Round(lists, s)
  <2> HIDE DEF U
  <2> QED
    BY <1>2
<1> HIDE DEF F
<1>4. PICK h : Iterates(h, U, A, F)
  <2> HIDE DEF U
  <2> QED
    BY <1>1, <1>3, IterationExists, Zenon
<1>5. h \in [Nat -> U] /\ h[0] = A /\ \A n \in Nat : h[n + 1] = Round(lists, h[n])
  <2> HIDE DEF U
  <2> QED
    BY <1>3, <1>4 DEF Iterates
<1>6. \A n \in Nat : h[n] = IF n = 0 THEN A ELSE Round(lists, h[n - 1])
  <2> TAKE n \in Nat
  <2>1. CASE n = 0
    BY <1>5, <2>1
  <2>2. CASE n # 0
    <3>1. n - 1 \in Nat /\ (n - 1) + 1 = n
      BY <2>2
    <3>2. h[(n - 1) + 1] = Round(lists, h[n - 1])
      BY <1>5, <3>1
    <3> QED
      BY <2>2, <3>1, <3>2
  <2> QED
    BY <2>1, <2>2
<1>7. Fits(h)
  BY <1>5, <1>6, Zenon
<1>8. \E f : Fits(f)
  BY <1>7
<1>9. Fits(after)
  BY <1>8, Zenon
<1> DEFINE K == [n \in Nat |-> IF n = 0 THEN A ELSE Round(lists, after[n - 1])]
<1>10. after = K
  BY <1>9, Zenon
<1>11. MergeOnto(c, lists) = MergeEnd(after[Cardinality(UNION {ToSet(l) : l \in ToSet(lists)})], lists)
  BY Zenon DEF MergeOnto, MergeEnd, A
<1> HIDE DEF after
<1>12. \A n \in Nat : K[n] = IF n = 0 THEN A ELSE Round(lists, after[n - 1])
  BY Zenon
<1> HIDE DEF K
<1>13. after[0] = A /\ \A n \in Nat : after[n + 1] = Round(lists, after[n])
  <2>1. 0 \in Nat /\ \A n \in Nat : n + 1 \in Nat /\ n + 1 # 0 /\ (n + 1) - 1 = n
    OBVIOUS
  <2> QED
    BY <1>10, <1>12, <2>1
<1>14. \A n \in Nat : after[n] \in U
  <2> DEFINE S == {n \in Nat : after[n] \in U}
  <2> HIDE DEF U
  <2>1. 0 \in S
    BY <1>1, <1>13
  <2>2. ASSUME NEW n \in Nat, n \in S PROVE n + 1 \in S
    <3>1. after[n] \in U /\ n + 1 \in Nat
      BY <2>2
    <3>2. after[n + 1] = Round(lists, after[n])
      BY <1>13
    <3>3. after[n + 1] \in U
      BY <1>2, <3>1, <3>2, Zenon
    <3> QED
      BY <3>1, <3>3
  <2> HIDE DEF S
  <2>3. \A n \in Nat : n \in S
    BY <2>1, <2>2, Induct
  <2> QED
    BY <2>3 DEF S
<1> QED
  BY <1>11, <1>13, <1>14, Zenon DEF Merges, A

\* M is c and what the lists have, once, in their order.
MergeHolds(M, D, c, m, lists) ==
    /\ M \in Seq(D) /\ Len(M) >= 1 /\ M[1] = c
    /\ \A a \in 2 .. Len(M) : \E k \in 1 .. m : \E i \in 1 .. Len(lists[k]) : lists[k][i] = M[a]
    /\ \A k \in 1 .. m : \A i \in 1 .. Len(lists[k]) : \E a \in 1 .. Len(M) : M[a] = lists[k][i]
    /\ \A a, b \in 1 .. Len(M) : a # b => M[a] # M[b]
    /\ (\A k \in 1 .. m : KeepsOrder(lists[k], M)) /\ FirstListsFirst(M, lists)

ClassesIn(lists) == UNION {ToSet(l) : l \in ToSet(lists)}
AreClasses(C, D, m, lists) ==
    /\ \A x : x \in C <=> \E k \in 1 .. m : \E i \in 1 .. Len(lists[k]) : lists[k][i] = x
    /\ C \subseteq D /\ IsFiniteSet(C) /\ Cardinality(C) \in Nat

\* The classes of the lists, of which there are finitely many.
LEMMA FewClasses ==
  ASSUME NEW D, IsFiniteSet(D), NEW m \in Nat, NEW lists \in [1 .. m -> Seq(D)]
  PROVE  AreClasses(ClassesIn(lists), D, m, lists)
<1> DEFINE C == UNION {ToSet(l) : l \in ToSet(lists)}
<1>1. \A x : x \in C <=> \E k \in 1 .. m : \E i \in 1 .. Len(lists[k]) : lists[k][i] = x
  <2>1. \A x : x \in C <=> \E k \in 1 .. m : x \in ToSet(lists[k])
    <3>1. DOMAIN lists = 1 .. m /\ ToSet(lists) = {lists[k] : k \in 1 .. m}
      BY DEF ToSet
    <3> QED
      BY <3>1, Zenon
  <2>2. \A k \in 1 .. m : \A x : x \in ToSet(lists[k]) <=> \E i \in 1 .. Len(lists[k]) : lists[k][i] = x
    BY RangeFacts
  <2> QED
    BY <2>1, <2>2, Zenon
<1>2. \A k \in 1 .. m : /\ lists[k] \in Seq(D) /\ Len(lists[k]) \in Nat
                        /\ \A i \in 1 .. Len(lists[k]) : lists[k][i] \in D
  OBVIOUS
<1>3. C \in SUBSET D
  <2> HIDE DEF C
  <2>1. ASSUME NEW x \in C PROVE x \in D
    BY <1>1, <1>2, <2>1
  <2> QED
    BY <2>1
<1> HIDE DEF C
<1>4. IsFiniteSet(C) /\ Cardinality(C) \in Nat
  BY <1>3, FS_Subset, FS_CardinalityType
<1> QED
  BY <1>1, <1>3, <1>4, Zenon DEF C, AreClasses, ClassesIn

AllOf(q) == {q[a] : a \in 1 .. Len(q)}

\* Of what is left of a list, everything waits but the first.
LEMMA LeftWaits ==
  ASSUME NEW D, NEW c, NEW m \in Nat, NEW lists \in [1 .. m -> Seq(D)], NEW p, NEW q,
         MergeState(p, q, D, c, m, lists),
         NEW k \in 1 .. m, NEW b \in p[k] + 2 .. Len(lists[k])
  PROVE  Waits(lists[k][b], AllOf(q), lists)
<1> DEFINE placed == AllOf(q)
           l == lists[k]
           z == lists[k][p[k] + 1]
<1>1. p[k] \in Nat /\ l \in Seq(D) /\ Len(l) \in Nat /\ DOMAIN l = 1 .. Len(l)
  <2>1. p \in [1 .. m -> Nat]
    BY Zenon DEF MergeState
  <2> QED
    BY <2>1
<1>2. p[k] + 1 \in p[k] + 1 .. Len(l) /\ p[k] + 1 \in DOMAIN l /\ b \in DOMAIN l /\ p[k] + 1 < b
  BY <1>1
<1>3. z \notin placed
  <2>1. \A j \in p[k] + 1 .. Len(lists[k]) : \A a \in 1 .. Len(q) : q[a] # lists[k][j]
    BY Zenon DEF MergeState
  <2>2. \A a \in 1 .. Len(q) : q[a] # z
    BY <1>2, <2>1, Zenon
  <2> QED
    BY <2>2, Zenon DEF AllOf
<1>4. z \in ToSet(l)
  <2>1. \A x : x \in ToSet(l) <=> \E i \in 1 .. Len(l) : l[i] = x
    BY <1>1, RangeFacts
  <2> QED
    BY <1>1, <1>2, <2>1, Zenon
<1>5. Precedes(l, z, lists[k][b])
  BY <1>2, Zenon DEF Precedes
<1>6. l \in ToSet(lists)
  BY DEF ToSet
<1> HIDE DEF z
<1> QED
  BY <1>3, <1>4, <1>5, <1>6, Zenon DEF Waits

\* A round takes the class of the first list that offers one.
LEMMA RoundPicks ==
  ASSUME NEW D, NEW c, NEW m \in Nat, NEW lists \in [1 .. m -> Seq(D)],
         NEW s \in MergeStates(D, c, m, lists), FirstListsFirst(s.result, lists)
  PROVE  FirstListsFirst(Round(lists, s).result, lists)
<1> DEFINE p == s.at
           q == s.result
           n == Len(q)
           found == Candidates(lists, p)
           first == Min(found)
           x == lists[first][p[first] + 1]
           r == Append(q, x)
           Left(j) == {r[a] : a \in 1 .. j - 1}
<1>0. DOMAIN lists = 1 .. m /\ \A k \in 1 .. m : lists[k] \in Seq(D) /\ Len(lists[k]) \in Nat
  OBVIOUS
<1>1. MergeState(p, q, D, c, m, lists) /\ p \in [1 .. m -> Nat] /\ q \in Seq(D)
  BY DEF MergeStates
<1>2. CASE found = {}
  BY <1>2 DEF Round
<1>3. CASE found # {}
  <2>1. Round(lists, s).result = r
    BY <1>3 DEF Round
  <2>2. first \in found /\ \A y \in found : first <= y
    <3>1. found \in SUBSET (1 .. m)
      BY <1>0 DEF Candidates
    <3> HIDE DEF found
    <3>2. \E y \in found : \A z \in found : y <= z
      <4>1. 1 \in Int /\ m \in Int
        OBVIOUS
      <4> QED
        BY <1>3, <3>1, <4>1, BoundsExist
    <3> QED
      BY <3>2 DEF Min
  <2>3. first \in 1 .. m /\ p[first] < Len(lists[first])
    BY <1>0, <2>2 DEF Candidates
  <2>4. \A h \in 1 .. first - 1 : h \in 1 .. m /\ h \notin found
    <3> TAKE h \in 1 .. first - 1
    <3>1. first \in Int /\ m \in Int /\ h < first
      BY <2>3
    <3> HIDE DEF found, first
    <3> QED
      BY <2>2, <2>3, <3>1
  <2>5. \A h \in 1 .. first - 1 :
           p[h] < Len(lists[h]) =>
              \E k \in 1 .. m : \E b \in p[k] + 2 .. Len(lists[k]) : lists[k][b] = lists[h][p[h] + 1]
    BY <1>0, <2>4, Zenon DEF Candidates
  <2> HIDE DEF found, first
  <2>6. x \in D /\ x \in ToSet(lists[first])
    <3>1. p[first] + 1 \in 1 .. Len(lists[first])
      BY <1>0, <1>1, <2>3
    <3>2. \A y : y \in ToSet(lists[first]) <=> \E i \in 1 .. Len(lists[first]) : lists[first][i] = y
      BY <1>0, <2>3, RangeFacts
    <3> QED
      BY <1>0, <2>3, <3>1, <3>2
  <2> HIDE DEF x
  <2>7. /\ n \in Nat /\ r \in Seq(D) /\ Len(r) = n + 1 /\ r[n + 1] = x
        /\ \A a \in 1 .. n : r[a] = q[a]
    BY <1>1, <2>6
  <2> HIDE DEF r
  <2>8. \A j \in 2 .. n + 1 : Left(j) = {q[a] : a \in 1 .. j - 1}
    <3> TAKE j \in 2 .. n + 1
    <3>1. \A a \in 1 .. j - 1 : r[a] = q[a]
      BY <2>7
    <3> QED
      BY <3>1
  <2>9. ASSUME NEW j \in 2 .. n
        PROVE  \E k \in 1 .. m :
                  /\ r[j] \in ToSet(lists[k])
                  /\ \A h \in 1 .. k - 1 : \A y \in ToSet(lists[h]) \ Left(j) : Waits(y, Left(j), lists)
    <3>1. r[j] = q[j] /\ j \in 2 .. n + 1
      BY <2>7
    <3>2. Left(j) = {q[a] : a \in 1 .. j - 1}
      BY <2>8, <3>1
    <3> HIDE DEF Left
    <3> QED
      BY <1>0, <3>1, <3>2, Zenon DEF FirstListsFirst
  <2>10. \A h \in 1 .. first - 1 : \A y \in ToSet(lists[h]) \ Left(n + 1) : Waits(y, Left(n + 1), lists)
    <3> DEFINE placed == AllOf(q)
    <3>0. Left(n + 1) = placed
      <4>1. (n + 1) - 1 = Len(q)
        BY <2>7
      <4>2. n >= 1
        BY <1>1, Zenon DEF MergeState
      <4>3. n + 1 \in 2 .. n + 1
        BY <2>7, <4>2
      <4>4. Left(n + 1) = {q[a] : a \in 1 .. (n + 1) - 1}
        BY <2>8, <4>3
      <4> HIDE DEF Left
      <4> QED
        BY <4>1, <4>4 DEF AllOf
    <3> HIDE DEF Left
    <3> SUFFICES ASSUME NEW h \in 1 .. first - 1, NEW y \in ToSet(lists[h]) \ placed
                 PROVE  Waits(y, placed, lists)
      BY <3>0, Zenon
    <3> HIDE DEF p, q
    <3>1. h \in 1 .. m
      BY <2>4
    <3>2. PICK i \in 1 .. Len(lists[h]) : lists[h][i] = y
      <4>1. \A z : z \in ToSet(lists[h]) <=> \E i \in 1 .. Len(lists[h]) : lists[h][i] = z
        BY <1>0, <3>1, RangeFacts
      <4> QED
        BY <4>1
    <3>3. ~(i \in 1 .. p[h])
      <4>1. \A k \in 1 .. m : \A j \in 1 .. p[k] : \E a \in 1 .. Len(q) : q[a] = lists[k][j]
        BY <1>1, Zenon DEF MergeState
      <4>2. \A a \in 1 .. Len(q) : q[a] # y
        BY Zenon DEF AllOf
      <4> QED
        BY <3>1, <3>2, <4>1, <4>2, Zenon
    <3>4. p[h] \in Nat /\ Len(lists[h]) \in Nat
      BY <1>0, <1>1, <3>1
    <3>5. CASE i = p[h] + 1
      <4>1. p[h] < Len(lists[h])
        BY <3>4, <3>5
      <4>2. PICK k \in 1 .. m : \E b \in p[k] + 2 .. Len(lists[k]) : lists[k][b] = lists[h][p[h] + 1]
        BY <2>5, <4>1
      <4>3. PICK b \in p[k] + 2 .. Len(lists[k]) : lists[k][b] = lists[h][p[h] + 1]
        BY <4>2
      <4>4. Waits(lists[k][b], placed, lists)
        BY <1>1, LeftWaits
      <4> QED
        BY <3>2, <3>5, <4>3, <4>4
    <3>6. CASE i # p[h] + 1
      <4>1. i \in p[h] + 2 .. Len(lists[h])
        BY <3>3, <3>4, <3>6
      <4>2. Waits(lists[h][i], placed, lists)
        BY <1>1, <3>1, <4>1, LeftWaits
      <4> QED
        BY <3>2, <4>2
    <3> QED
      BY <3>5, <3>6
  <2>11. \A j \in 2 .. Len(r) : j \in 2 .. n \/ j = n + 1
    BY <2>7
  <2> HIDE DEF Left
  <2>12. \A j \in 2 .. Len(r) :
            \E k \in 1 .. m :
               /\ r[j] \in ToSet(lists[k])
               /\ \A h \in 1 .. k - 1 : \A y \in ToSet(lists[h]) \ Left(j) : Waits(y, Left(j), lists)
    BY <2>3, <2>6, <2>7, <2>9, <2>10, <2>11, Zenon
  <2> QED
    BY <1>0, <2>1, <2>12, Zenon DEF FirstListsFirst, Left
<1> QED
  BY <1>2, <1>3

\* Every round does.
LEMMA MergePicks ==
  ASSUME NEW D, NEW c \in D, NEW m \in Nat, NEW lists \in [1 .. m -> Seq(D)], NEW f,
         Merges(f, c, lists), \A n \in Nat : f[n] \in MergeStates(D, c, m, lists)
  PROVE  \A n \in Nat : FirstListsFirst(f[n].result, lists)
<1> DEFINE S == {n \in Nat : FirstListsFirst(f[n].result, lists)}
<1>1. 0 \in S
  <2>1. f[0].result = <<c>>
    BY DEF Merges
  <2>2. \A j \in 2 .. Len(<<c>>) : FALSE
    OBVIOUS
  <2>3. FirstListsFirst(<<c>>, lists)
    BY <2>2, Zenon DEF FirstListsFirst
  <2> QED
    BY <2>1, <2>3
<1>2. ASSUME NEW n \in Nat, n \in S PROVE n + 1 \in S
  <2>1. f[n + 1] = Round(lists, f[n]) /\ f[n] \in MergeStates(D, c, m, lists) /\ n + 1 \in Nat
    BY DEF Merges
  <2>2. FirstListsFirst(Round(lists, f[n]).result, lists)
    BY <1>2, <2>1, RoundPicks
  <2> QED
    BY <2>1, <2>2
<1> HIDE DEF S
<1>3. \A n \in Nat : n \in S
  BY <1>1, <1>2, Induct
<1> QED
  BY <1>3 DEF S

\* What the merge returns, if it does, is c and what the lists have, in order.
LEMMA MergeSound ==
  ASSUME NEW D, NEW c \in D, NEW m \in Nat, NEW lists \in [1 .. m -> Seq(D)],
         IsFiniteSet(D), \A k \in 1 .. m : \A i \in 1 .. Len(lists[k]) : lists[k][i] # c,
         MergeOnto(c, lists) # None
  PROVE  MergeHolds(MergeOnto(c, lists), D, c, m, lists)
<1> DEFINE N == Cardinality(UNION {ToSet(l) : l \in ToSet(lists)})
           M == MergeOnto(c, lists)
<1>1. PICK f : /\ M = MergeEnd(f[N], lists) /\ Merges(f, c, lists)
               /\ \A n \in Nat : f[n] \in MergeStates(D, c, m, lists)
  BY MergeDefined, Zenon
<1>2. N \in Nat
  BY FewClasses, Zenon DEF AreClasses, ClassesIn
<1> HIDE DEF N, M
<1>3. f[N] \in MergeStates(D, c, m, lists)
  BY <1>1, <1>2
<1> DEFINE p == f[N].at
           q == f[N].result
<1>4. MergeState(p, q, D, c, m, lists)
  BY <1>3 DEF MergeStates
<1>5. DOMAIN lists = 1 .. m
  OBVIOUS
<1>6. \A k \in 1 .. m : p[k] = Len(lists[k])
  BY <1>1, <1>5, Zenon DEF MergeEnd, M
<1>7. M = q
  BY <1>1, <1>5, <1>6, Zenon DEF MergeEnd
<1> HIDE DEF p, q
<1>8. \A k \in 1 .. m : KeepsOrder(lists[k], q)
  <2>1. \A k \in 1 .. m : \A i, j \in 1 .. p[k] : i < j => Precedes(q, lists[k][i], lists[k][j])
    BY <1>4, Zenon DEF MergeState
  <2>2. \A k \in 1 .. m : DOMAIN lists[k] = 1 .. p[k]
    BY <1>6
  <2> QED
    BY <2>1, <2>2, Zenon DEF KeepsOrder
<1>9. /\ q \in Seq(D) /\ Len(q) >= 1 /\ q[1] = c
      /\ \A a \in 2 .. Len(q) : \E k \in 1 .. m : \E i \in 1 .. p[k] : lists[k][i] = q[a]
      /\ \A k \in 1 .. m : \A i \in 1 .. p[k] : \E a \in 1 .. Len(q) : q[a] = lists[k][i]
      /\ \A a, b \in 1 .. Len(q) : a # b => q[a] # q[b]
  BY <1>4, Zenon DEF MergeState
<1>10. /\ \A a \in 2 .. Len(q) : \E k \in 1 .. m : \E i \in 1 .. Len(lists[k]) : lists[k][i] = q[a]
       /\ \A k \in 1 .. m : \A i \in 1 .. Len(lists[k]) : \E a \in 1 .. Len(q) : q[a] = lists[k][i]
  <2>1. \A k \in 1 .. m : 1 .. p[k] = 1 .. Len(lists[k])
    BY <1>6
  <2>2. ASSUME NEW a \in 2 .. Len(q)
        PROVE  \E k \in 1 .. m : \E i \in 1 .. Len(lists[k]) : lists[k][i] = q[a]
    <3>1. PICK k \in 1 .. m : \E i \in 1 .. p[k] : lists[k][i] = q[a]
      BY <1>9
    <3>2. PICK i \in 1 .. p[k] : lists[k][i] = q[a]
      BY <3>1
    <3>3. i \in 1 .. Len(lists[k])
      BY <2>1, <3>2, Zenon
    <3> QED
      BY <3>2, <3>3
  <2>3. ASSUME NEW k \in 1 .. m, NEW i \in 1 .. Len(lists[k])
        PROVE  \E a \in 1 .. Len(q) : q[a] = lists[k][i]
    BY <1>9, <2>1
  <2> QED
    BY <2>2, <2>3
<1>11. FirstListsFirst(q, lists)
  <2>1. \A n \in Nat : FirstListsFirst(f[n].result, lists)
    BY <1>1, MergePicks
  <2> QED
    BY <1>2, <2>1 DEF q
<1>12. MergeHolds(q, D, c, m, lists)
  BY <1>8, <1>9, <1>10, <1>11, Zenon DEF MergeHolds
<1> QED
  BY <1>7, <1>12 DEF M

\* Each round takes a class until there is no candidate.
LEMMA MergeProgress ==
  ASSUME NEW D, NEW c \in D, NEW m \in Nat, NEW lists \in [1 .. m -> Seq(D)], NEW f,
         Merges(f, c, lists), \A n \in Nat : f[n] \in MergeStates(D, c, m, lists)
  PROVE  \A n \in Nat : Candidates(lists, f[n].at) = {} \/ Len(f[n].result) = n + 1
<1> DEFINE S == {n \in Nat : Candidates(lists, f[n].at) = {} \/ Len(f[n].result) = n + 1}
<1>1. 0 \in S
  <2>1. f[0].result = <<c>> /\ Len(<<c>>) = 1
    BY DEF Merges
  <2>2. 0 \in Nat /\ 0 + 1 = 1
    OBVIOUS
  <2> QED
    BY <2>1, <2>2
<1>2. ASSUME NEW n \in Nat, n \in S PROVE n + 1 \in S
  <2>0. n + 1 \in Nat
    OBVIOUS
  <2>1. f[n + 1] = Round(lists, f[n]) /\ n + 1 \in Nat /\ f[n] \in MergeStates(D, c, m, lists)
    BY <2>0, Zenon DEF Merges
  <2>2. \/ Candidates(lists, f[n].at) = {} /\ Round(lists, f[n]) = f[n]
        \/ Len(Round(lists, f[n]).result) = Len(f[n].result) + 1
    <3>1. RoundFrom(f[n], D, c, m, lists)
      BY <2>1, RoundsStay
    <3> QED
      BY <3>1, Zenon DEF RoundFrom
  <2>3. CASE Candidates(lists, f[n].at) = {} /\ Round(lists, f[n]) = f[n]
    BY <2>1, <2>3
  <2>4. CASE /\ Candidates(lists, f[n].at) # {}
             /\ Len(Round(lists, f[n]).result) = Len(f[n].result) + 1
    <3>1. Len(f[n].result) = n + 1
      BY <1>2, <2>4
    <3> QED
      BY <2>1, <2>4, <3>1
  <2>5. CASE /\ Candidates(lists, f[n].at) = {}
             /\ Len(Round(lists, f[n]).result) = Len(f[n].result) + 1
    <3>1. Round(lists, f[n]) = f[n]
      <4>1. Round(lists, f[n]) = f[n]
        BY <2>1, <2>5 DEF Round
      <4> QED
        BY <4>1
    <3> QED
      BY <2>1, <2>5, <3>1
  <2> QED
    BY <2>2, <2>3, <2>4, <2>5
<1> HIDE DEF S
<1>3. \A n \in Nat : n \in S
  BY <1>1, <1>2, Induct
<1> QED
  BY <1>3 DEF S

AllTaken(p, m, lists) == \A k \in 1 .. m : p[k] = Len(lists[k])

\* When as many classes are taken as there are, none is left.
LEMMA MergeFull ==
  ASSUME NEW D, IsFiniteSet(D), NEW c, NEW m \in Nat, NEW lists \in [1 .. m -> Seq(D)], NEW p, NEW q,
         MergeState(p, q, D, c, m, lists),
         Len(q) = Cardinality(ClassesIn(lists)) + 1
  PROVE  AllTaken(p, m, lists)
<1> DEFINE C == ClassesIn(lists)
           N == Cardinality(C)
           g == [a \in 1 .. N |-> q[a + 1]]
<1>1. /\ \A x : x \in C <=> \E k \in 1 .. m : \E i \in 1 .. Len(lists[k]) : lists[k][i] = x
      /\ IsFiniteSet(C) /\ N \in Nat
  <2>1. AreClasses(C, D, m, lists)
    BY FewClasses
  <2> HIDE DEF C
  <2> QED
    BY <2>1, Zenon DEF AreClasses
<1>2. \A k \in 1 .. m : Len(lists[k]) \in Nat
  OBVIOUS
<1> HIDE DEF C
<1>4. IsFiniteSet(C) /\ N \in Nat
  BY <1>1
<1>5. q \in Seq(D) /\ Len(q) = N + 1 /\ p \in [1 .. m -> Nat]
  BY Zenon DEF MergeState, C
<1>6. \A k \in 1 .. m : p[k] \in Nat /\ p[k] <= Len(lists[k])
  BY <1>5, Zenon DEF MergeState
<1> HIDE DEF N
<1>7. \A a \in 1 .. N : a + 1 \in 2 .. Len(q) /\ a + 1 \in 1 .. Len(q)
  BY <1>4, <1>5
<1>8. \A a \in 2 .. Len(q) : q[a] \in C
  <2>1. \A a \in 2 .. Len(q) : \E k \in 1 .. m : \E i \in 1 .. p[k] : lists[k][i] = q[a]
    BY Zenon DEF MergeState
  <2>2. \A k \in 1 .. m : \A i \in 1 .. p[k] : i \in 1 .. Len(lists[k])
    BY <1>2, <1>6
  <2> QED
    BY <1>1, <2>1, <2>2, Zenon
<1>9. g \in Injection(1 .. N, C)
  <2>1. g \in [1 .. N -> C]
    BY <1>7, <1>8
  <2>2. \A a, b \in 1 .. Len(q) : a # b => q[a] # q[b]
    BY Zenon DEF MergeState
  <2>3. ASSUME NEW a \in 1 .. N, NEW b \in 1 .. N, g[a] = g[b] PROVE a = b
    <3>1. q[a + 1] = q[b + 1]
      BY <2>3
    <3>2. a + 1 = b + 1
      BY <1>7, <2>2, <3>1, Zenon
    <3> QED
      BY <1>4, <3>2
  <2> HIDE DEF g
  <2> QED
    BY <2>1, <2>3, Zenon DEF Injection, IsInjective
<1>10. IsFiniteSet(1 .. N) /\ Cardinality(1 .. N) = N
  <2>1. 1 \in Int /\ N \in Int /\ (IF 1 > N THEN 0 ELSE N - 1 + 1) = N
    BY <1>4
  <2> QED
    BY <2>1, FS_Interval
<1>11. g \in Surjection(1 .. N, C)
  <2> HIDE DEF g
  <2> QED
    BY <1>4, <1>9, <1>10, FS_Injection DEF N
<1>12. \A x \in C : \E a \in 1 .. Len(q) : q[a] = x
  <2> TAKE x \in C
  <2>1. PICK a \in 1 .. N : g[a] = x
    <3> HIDE DEF g
    <3> QED
      BY <1>11, Zenon DEF Surjection
  <2>2. q[a + 1] = x
    BY <2>1
  <2> QED
    BY <1>7, <2>2, Zenon
<1> SUFFICES ASSUME NEW k \in 1 .. m PROVE p[k] = Len(lists[k])
  BY Zenon DEF AllTaken
<1>13. CASE p[k] < Len(lists[k])
  <2> DEFINE j == Len(lists[k])
  <2>1. j \in p[k] + 1 .. Len(lists[k]) /\ j \in 1 .. Len(lists[k])
    BY <1>2, <1>6, <1>13
  <2>2. \A a \in 1 .. Len(q) : q[a] # lists[k][j]
    BY <2>1, Zenon DEF MergeState
  <2>3. lists[k][j] \in C
    BY <1>1, <2>1, Zenon
  <2> QED
    BY <1>12, <2>2, <2>3, Zenon
<1> QED
  BY <1>2, <1>6, <1>13

\* w has the lists' classes, once, in their order.
Admits(w, m, lists) ==
    /\ Len(w) \in Nat /\ DOMAIN w = 1 .. Len(w)
    /\ \A a, b \in 1 .. Len(w) : w[a] = w[b] => a = b
    /\ \A k \in 1 .. m : \A i \in 1 .. Len(lists[k]) : \E a \in 1 .. Len(w) : w[a] = lists[k][i]
    /\ \A k \in 1 .. m : KeepsOrder(lists[k], w)

\* As long as a list has an item left, what is first in w is a candidate.
LEMMA CandidateExists ==
  ASSUME NEW D, NEW m \in Nat, NEW lists \in [1 .. m -> Seq(D)],
         NEW p \in [1 .. m -> Nat], NEW w, Admits(w, m, lists),
         NEW k0 \in 1 .. m, p[k0] < Len(lists[k0])
  PROVE  Candidates(lists, p) # {}
<1> DEFINE L == Len(w)
           T == {a \in 1 .. L : \E k \in 1 .. m : \E i \in p[k] + 1 .. Len(lists[k]) : w[a] = lists[k][i]}
<1>0. \A P, Q \in Nat :
         /\ \A J \in P + 2 .. Q : J \in 1 .. Q /\ J > P + 1
         /\ \A J \in 1 .. Q : J > P + 1 => P + 1 \in 1 .. Q /\ P + 1 \in P + 1 .. Q /\ P + 1 < J
  OBVIOUS
<1>1. /\ L \in Nat /\ DOMAIN w = 1 .. L
      /\ \A a, b \in 1 .. L : w[a] = w[b] => a = b
      /\ \A k \in 1 .. m : \A i \in 1 .. Len(lists[k]) : \E a \in 1 .. L : w[a] = lists[k][i]
      /\ \A k \in 1 .. m : KeepsOrder(lists[k], w)
  BY Zenon DEF Admits
<1> HIDE DEF L
<1>2. \A k \in 1 .. m : Len(lists[k]) \in Nat /\ p[k] \in Nat /\ DOMAIN lists[k] = 1 .. Len(lists[k])
  OBVIOUS
<1>3. T # {} /\ T \in SUBSET (1 .. L)
  <2>1. p[k0] + 1 \in 1 .. Len(lists[k0]) /\ p[k0] + 1 \in p[k0] + 1 .. Len(lists[k0])
    BY <1>2
  <2>2. PICK a \in 1 .. L : w[a] = lists[k0][p[k0] + 1]
    BY <1>1, <2>1
  <2> QED
    BY <2>1, <2>2
<1>4. PICK a \in T : \A b \in T : a <= b
  <2> HIDE DEF T
  <2>1. 1 \in Int /\ L \in Int
    BY <1>1
  <2> QED
    BY <1>3, <2>1, BoundsExist
<1>5. PICK k \in 1 .. m : \E i \in p[k] + 1 .. Len(lists[k]) : w[a] = lists[k][i]
  OBVIOUS
<1>6. PICK i \in p[k] + 1 .. Len(lists[k]) : w[a] = lists[k][i]
  BY <1>5
<1>7. ASSUME NEW l \in 1 .. m, NEW j \in 1 .. Len(lists[l]), lists[l][j] = w[a], j > p[l] + 1
      PROVE  FALSE
  <2> DEFINE h == p[l] + 1
  <2>1. h \in 1 .. Len(lists[l]) /\ h \in p[l] + 1 .. Len(lists[l]) /\ h < j
    <3>1. p[l] \in Nat /\ Len(lists[l]) \in Nat
      BY <1>2
    <3> QED
      BY <1>0, <1>7, <3>1, Zenon
  <2>2. Precedes(w, lists[l][h], lists[l][j])
    <3> HIDE DEF h
    <3>1. KeepsOrder(lists[l], w) /\ DOMAIN lists[l] = 1 .. Len(lists[l])
      BY <1>1, <1>2
    <3> QED
      BY <2>1, <3>1, Zenon DEF KeepsOrder
  <2>3. PICK x \in 1 .. L, y \in 1 .. L : x < y /\ w[x] = lists[l][h] /\ w[y] = lists[l][j]
    BY <1>1, <2>2 DEF Precedes
  <2>4. x \in T
    <3> HIDE DEF h
    <3> QED
      BY <2>1, <2>3
  <2>5. y = a
    BY <1>1, <1>3, <1>7, <2>3
  <2> HIDE DEF T
  <2> QED
    BY <1>3, <1>4, <2>3, <2>4, <2>5
<1>8. i = p[k] + 1 /\ p[k] < Len(lists[k])
  <2>1. i \in 1 .. Len(lists[k]) /\ i \in Int /\ p[k] \in Nat /\ p[k] + 1 <= i
    BY <1>2, <1>6
  <2>2. ~(i > p[k] + 1)
    BY <1>6, <1>7, <2>1, Zenon
  <2>3. p[k] \in Nat /\ Len(lists[k]) \in Nat
    BY <1>2
  <2>4. \A P, Q \in Nat : \A I \in 1 .. Q : P + 1 <= I /\ ~(I > P + 1) => I = P + 1 /\ P < Q
    OBVIOUS
  <2> QED
    BY <2>1, <2>2, <2>3, <2>4, Zenon
<1>9. \A l \in 1 .. m : \A j \in p[l] + 2 .. Len(lists[l]) : lists[l][j] # lists[k][p[k] + 1]
  <2> SUFFICES ASSUME NEW l \in 1 .. m, NEW j \in p[l] + 2 .. Len(lists[l]),
                      lists[l][j] = lists[k][p[k] + 1]
               PROVE  FALSE
    BY Zenon
  <2>1. j \in 1 .. Len(lists[l]) /\ j > p[l] + 1
    <3>1. p[l] \in Nat /\ Len(lists[l]) \in Nat
      BY <1>2
    <3> QED
      BY <1>0, <3>1, Zenon
  <2>2. lists[l][j] = w[a]
    BY <1>6, <1>8
  <2> QED
    BY <1>7, <2>1, <2>2
<1>10. DOMAIN lists = 1 .. m
  OBVIOUS
<1>11. k \in Candidates(lists, p)
  BY <1>8, <1>9, <1>10, Zenon DEF Candidates
<1> QED
  BY <1>11

\* The merge returns something if there is an order that it could return.
LEMMA MergeComplete ==
  ASSUME NEW D, IsFiniteSet(D), NEW c \in D, NEW m \in Nat, NEW lists \in [1 .. m -> Seq(D)],
         \A k \in 1 .. m : \A i \in 1 .. Len(lists[k]) : lists[k][i] # c,
         NEW w, Admits(w, m, lists)
  PROVE  MergeOnto(c, lists) # None
<1> DEFINE N == Cardinality(ClassesIn(lists))
           M == MergeOnto(c, lists)
<1>1. PICK f : /\ M = MergeEnd(f[N], lists) /\ Merges(f, c, lists)
               /\ \A n \in Nat : f[n] \in MergeStates(D, c, m, lists)
  BY MergeDefined, Zenon DEF ClassesIn
<1>2. N \in Nat
  BY FewClasses, Zenon DEF AreClasses
<1> HIDE DEF M
<1>3. Candidates(lists, f[N].at) = {} \/ Len(f[N].result) = N + 1
  <2> HIDE DEF N
  <2> QED
    BY <1>1, <1>2, MergeProgress
<1>4. f[N] \in MergeStates(D, c, m, lists)
  BY <1>1, <1>2, Zenon
<1> DEFINE p == f[N].at
           q == f[N].result
<1>5. MergeState(p, q, D, c, m, lists)
  BY <1>4 DEF MergeStates
<1>6. DOMAIN lists = 1 .. m
  OBVIOUS
<1>7. p \in [1 .. m -> Nat] /\ \A k \in 1 .. m : p[k] <= Len(lists[k]) /\ Len(lists[k]) \in Nat
  <2>1. p \in [1 .. m -> Nat] /\ \A k \in 1 .. m : p[k] <= Len(lists[k])
    BY <1>5, Zenon DEF MergeState
  <2> HIDE DEF p
  <2> QED
    BY <2>1
<1> HIDE DEF p, q
<1>8. \A k \in 1 .. m : p[k] = Len(lists[k])
  <2>1. CASE Candidates(lists, p) = {}
    <3> SUFFICES ASSUME NEW k \in 1 .. m, p[k] # Len(lists[k]) PROVE FALSE
      BY Zenon
    <3>1. p[k] < Len(lists[k])
      BY <1>7
    <3> QED
      BY <1>7, <2>1, <3>1, CandidateExists
  <2>2. CASE Len(q) = N + 1
    <3>1. Len(q) = Cardinality(ClassesIn(lists)) + 1
      BY <2>2
    <3> HIDE DEF N
    <3>2. AllTaken(p, m, lists)
      BY <1>5, <3>1, MergeFull
    <3> QED
      BY <3>2, Zenon DEF AllTaken
  <2> QED
    BY <1>3, <2>1, <2>2 DEF p, q
<1>9. M = q
  BY <1>1, <1>6, <1>8, Zenon DEF MergeEnd, p, q
<1>10. q \in Seq(D) /\ Len(q) >= 1
  BY <1>5, Zenon DEF MergeState
<1>11. q # <<>>
  BY <1>10
<1> QED
  BY <1>9, <1>11 DEF M, None

-----------------------------------------------------------------------------
(* Ancestors and linearizations *)

\* What Ancestors defines: the least set with c's bases and the bases of its members.
LEMMA AncestorsFacts ==
  ASSUME NEW D, NEW P \in [D -> Seq(D)], NEW c \in D
  PROVE  /\ Ancestors(c, P) \in SUBSET D
         /\ ToSet(P[c]) \subseteq Ancestors(c, P)
         /\ \A d \in Ancestors(c, P) : ToSet(P[d]) \subseteq Ancestors(c, P)
         /\ \A S \in SUBSET D : ToSet(P[c]) \subseteq S /\ Closed(S, P) => Ancestors(c, P) \subseteq S
<1> DEFINE A == Ancestors(c, P)
<1>1. DOMAIN P = D /\ \A d \in D : P[d] \in Seq(D) /\ ToSet(P[d]) \subseteq D
  <2>1. \A d \in D : P[d] \in Seq(D)
    OBVIOUS
  <2> QED
    BY <2>1, RangeFacts
<1>2. \A d : d \in A <=> d \in D /\ \A S \in SUBSET D :
                ToSet(P[c]) \subseteq S /\ Closed(S, P) => d \in S
  BY <1>1, Zenon DEF Ancestors
<1> HIDE DEF A
<1>3. A \in SUBSET D /\ ToSet(P[c]) \subseteq A
  BY <1>1, <1>2
<1>4. ASSUME NEW d \in A PROVE ToSet(P[d]) \subseteq A
  <2> SUFFICES ASSUME NEW e \in ToSet(P[d]) PROVE e \in A
    OBVIOUS
  <2>1. d \in D /\ e \in D
    BY <1>1, <1>3
  <2>2. ASSUME NEW S \in SUBSET D, ToSet(P[c]) \subseteq S, Closed(S, P) PROVE e \in S
    <3>1. d \in S
      BY <1>2, <2>2
    <3> QED
      BY <2>2, <3>1 DEF Closed
  <2> QED
    BY <1>2, <2>1, <2>2
<1>5. \A S \in SUBSET D : ToSet(P[c]) \subseteq S /\ Closed(S, P) => A \subseteq S
  BY <1>2
<1> QED
  BY <1>3, <1>4, <1>5 DEF A

\* An ancestor is a base or an ancestor of one.
LEMMA AncestorsUnfold ==
  ASSUME NEW D, NEW P \in [D -> Seq(D)], NEW c \in D
  PROVE  \A x : x \in Ancestors(c, P) <=>
                   x \in ToSet(P[c]) \/ \E p \in ToSet(P[c]) : x \in Ancestors(p, P)
<1> DEFINE A == Ancestors(c, P)
           B == ToSet(P[c])
           S == B \cup UNION {Ancestors(p, P) : p \in B}
<1>1. A \in SUBSET D /\ B \subseteq A /\ \A d \in A : ToSet(P[d]) \subseteq A
  BY AncestorsFacts
<1>2. \A p \in B : p \in D
  BY <1>1
<1>3. \A p \in B : /\ Ancestors(p, P) \in SUBSET D /\ ToSet(P[p]) \subseteq Ancestors(p, P)
                   /\ \A d \in Ancestors(p, P) : ToSet(P[d]) \subseteq Ancestors(p, P)
  BY <1>2, AncestorsFacts
<1>4. \A p \in B : Ancestors(p, P) \subseteq A
  <2> TAKE p \in B
  <2>1. Closed(A, P) /\ ToSet(P[p]) \subseteq A
    BY <1>1 DEF Closed
  <2>2. \A T \in SUBSET D : ToSet(P[p]) \subseteq T /\ Closed(T, P) => Ancestors(p, P) \subseteq T
    BY <1>2, AncestorsFacts
  <2> HIDE DEF A, B
  <2> QED
    BY <1>1, <2>1, <2>2
<1>5. S \in SUBSET D /\ B \subseteq S /\ Closed(S, P)
  <2> HIDE DEF B, A
  <2>1. S \in SUBSET D /\ B \subseteq S
    BY <1>2, <1>3
  <2>2. ASSUME NEW d \in S PROVE ToSet(P[d]) \subseteq S
    <3>1. CASE d \in B
      BY <1>3, <3>1
    <3>2. CASE \E p \in B : d \in Ancestors(p, P)
      BY <1>3, <3>2
    <3> QED
      BY <2>2, <3>1, <3>2
  <2> HIDE DEF S
  <2> QED
    BY <2>1, <2>2 DEF Closed
<1>6. A \subseteq S
  <2>1. \A T \in SUBSET D : B \subseteq T /\ Closed(T, P) => A \subseteq T
    BY AncestorsFacts
  <2> HIDE DEF A, B, S
  <2> QED
    BY <1>5, <2>1
<1> QED
  <2> HIDE DEF A, B
  <2>1. \A x : x \in A <=> x \in B \/ \E p \in B : x \in Ancestors(p, P)
    BY <1>1, <1>4, <1>6
  <2> QED
    BY <2>1, Zenon DEF A, B

\* M has c and then its ancestors, once; c is not one of them.
IsOrder(M, c, D, P) ==
    /\ M \in Seq(D) /\ Len(M) >= 1 /\ M[1] = c
    /\ c \notin Ancestors(c, P) /\ ToSet(M) = Ancestors(c, P) \cup {c}
    /\ \A a, b \in 1 .. Len(M) : a # b => M[a] # M[b]

Orders(D, P) == {g \in [D -> Seq(D)] : \A c \in D : g[c] # None => IsOrder(g[c], c, D, P)}

\* What c's bases have been found, and the bases themselves: the lists to merge.
MergeLists(c, P, g) == Append([k \in DOMAIN P[c] |-> g[P[c][k]]], P[c])

\* The lists have c's ancestors, and c is not one.
MayMerge(lists, m, c, D, P, g) ==
    /\ m \in Nat /\ lists \in [1 .. m + 1 -> Seq(D)] /\ lists[m + 1] = P[c]
    /\ \A k \in 1 .. m : P[c][k] \in D /\ lists[k] = g[P[c][k]] /\ IsOrder(lists[k], P[c][k], D, P)
    /\ c \notin Ancestors(c, P)
    /\ \A x : x \in Ancestors(c, P) <=>
                 \E k \in 1 .. m + 1 : \E i \in 1 .. Len(lists[k]) : lists[k][i] = x

\* The linearizations found for the bases, and the bases, may be merged.
LEMMA ListsToMerge ==
  ASSUME NEW D, NEW P \in [D -> Seq(D)], NEW g \in Orders(D, P), NEW c \in D,
         \A k \in DOMAIN P[c] : g[P[c][k]] # None
  PROVE  MayMerge(MergeLists(c, P, g), Len(P[c]), c, D, P, g)
<1> DEFINE m == Len(P[c])
           front == [k \in DOMAIN P[c] |-> g[P[c][k]]]
           lists == MergeLists(c, P, g)
<1>1. P[c] \in Seq(D) /\ m \in Nat /\ DOMAIN P[c] = 1 .. m /\ \A k \in 1 .. m : P[c][k] \in D
  OBVIOUS
<1>2. g \in [D -> Seq(D)]
  BY DEF Orders
<1>3. front \in [1 .. m -> Seq(D)] /\ \A k \in 1 .. m : front[k] = g[P[c][k]]
  BY <1>1, <1>2
<1>4. lists \in [1 .. m + 1 -> Seq(D)] /\ lists[m + 1] = P[c] /\ \A k \in 1 .. m : lists[k] = front[k]
  <2> HIDE DEF front
  <2>1. lists = Append(front, P[c])
    BY DEF MergeLists, front
  <2>2. front \in Seq(Seq(D)) /\ Len(front) = m
    <3> HIDE DEF m
    <3> DEFINE V == Seq(D)
    <3>1. front \in [1 .. m -> V]
      BY <1>3
    <3> HIDE DEF V
    <3>2. front \in Seq(V) /\ Len(front) = m
      BY <1>1, <3>1
    <3> QED
      BY <3>2 DEF V
  <2>3. lists \in Seq(Seq(D)) /\ Len(lists) = m + 1 /\ lists[m + 1] = P[c]
        /\ \A k \in 1 .. m : lists[k] = front[k]
    <3> HIDE DEF lists, m
    <3> QED
      BY <1>1, <2>1, <2>2
  <2> HIDE DEF lists
  <2> QED
    BY <2>3
<1>5. \A k \in 1 .. m : lists[k] = g[P[c][k]] /\ IsOrder(lists[k], P[c][k], D, P)
  <2> TAKE k \in 1 .. m
  <2>1. lists[k] = g[P[c][k]] /\ P[c][k] \in D /\ g[P[c][k]] # None
    BY <1>1, <1>3, <1>4
  <2>2. \A d \in D : g[d] # None => IsOrder(g[d], d, D, P)
    BY DEF Orders
  <2> HIDE DEF lists
  <2> QED
    BY <2>1, <2>2
<1> HIDE DEF lists, front
<1> DEFINE B == ToSet(P[c])
           A == Ancestors(c, P)
<1>6. \A x : x \in B <=> \E i \in 1 .. m : P[c][i] = x
  BY <1>1, RangeFacts
<1>7. \A x : x \in A <=> x \in B \/ \E p \in B : x \in Ancestors(p, P)
  BY AncestorsUnfold
<1>8. c \notin A
  <2> SUFFICES ASSUME c \in A PROVE FALSE
    OBVIOUS
  <2>1. PICK p \in B : c = p \/ c \in Ancestors(p, P)
    BY <1>7
  <2>2. p \in D /\ p \notin Ancestors(p, P)
    <3>1. PICK i \in 1 .. m : P[c][i] = p
      BY <1>6
    <3> QED
      BY <1>1, <1>5, <3>1 DEF IsOrder
  <2>3. ToSet(P[p]) \subseteq Ancestors(p, P) /\ \A d \in Ancestors(p, P) : ToSet(P[d]) \subseteq Ancestors(p, P)
    BY <2>2, AncestorsFacts
  <2> QED
    BY <2>1, <2>2, <2>3
<1>9. \A k \in 1 .. m : \A x : x \in ToSet(lists[k]) <=> \E i \in 1 .. Len(lists[k]) : lists[k][i] = x
  <2> TAKE k \in 1 .. m
  <2>1. lists[k] \in Seq(D)
    BY <1>5, Zenon DEF IsOrder
  <2> QED
    BY <2>1, RangeFacts
<1>10. \A x : x \in A <=> \E k \in 1 .. m + 1 : \E i \in 1 .. Len(lists[k]) : lists[k][i] = x
  <2> TAKE x
  <2>1. ASSUME x \in A
        PROVE  \E k \in 1 .. m + 1 : \E i \in 1 .. Len(lists[k]) : lists[k][i] = x
    <3>1. CASE x \in B
      <4>1. m + 1 \in 1 .. m + 1 /\ Len(lists[m + 1]) = m
        BY <1>1, <1>4
      <4>2. \E i \in 1 .. m : lists[m + 1][i] = x
        BY <1>4, <1>6, <3>1
      <4> QED
        BY <4>1, <4>2
    <3>2. CASE \E p \in B : x \in Ancestors(p, P)
      <4>1. PICK p \in B : x \in Ancestors(p, P)
        BY <3>2
      <4>2. PICK k \in 1 .. m : P[c][k] = p
        BY <1>6
      <4>3. x \in ToSet(lists[k])
        BY <1>5, <4>1, <4>2 DEF IsOrder
      <4>4. k \in 1 .. m + 1
        BY <1>1
      <4> QED
        BY <1>9, <4>3, <4>4
    <3> QED
      BY <1>7, <2>1, <3>1, <3>2
  <2>2. ASSUME NEW k \in 1 .. m + 1, NEW i \in 1 .. Len(lists[k]), lists[k][i] = x PROVE x \in A
    <3>1. CASE k = m + 1
      <4>1. i \in 1 .. m /\ P[c][i] = x
        BY <1>4, <2>2, <3>1
      <4> QED
        BY <1>6, <1>7, <4>1
    <3>2. CASE k \in 1 .. m
      <4>1. x \in ToSet(lists[k])
        BY <1>9, <2>2, <3>2
      <4>2. P[c][k] \in B
        BY <1>6, <3>2
      <4> HIDE DEF B, A
      <4>3. x \in Ancestors(P[c][k], P) \/ x = P[c][k]
        <5>1. ToSet(lists[k]) = Ancestors(P[c][k], P) \cup {P[c][k]}
          BY <1>5, <3>2, Zenon DEF IsOrder
        <5> QED
          BY <4>1, <5>1
      <4> QED
        BY <1>7, <4>2, <4>3
    <3> QED
      BY <1>1, <3>1, <3>2
  <2> QED
    BY <2>1, <2>2
<1> HIDE DEF m
<1>11. MayMerge(lists, m, c, D, P, g)
  BY <1>1, <1>4, <1>5, <1>8, <1>10, Zenon DEF MayMerge, A
<1> QED
  BY <1>11 DEF lists, m

\* The lists that Linearized merges, or None.
LEMMA LinearizedIs ==
  ASSUME NEW c, NEW P, NEW g
  PROVE  /\ (\E k \in DOMAIN P[c] : g[P[c][k]] = None) => Linearized(c, P, g) = None
         /\ (\A k \in DOMAIN P[c] : g[P[c][k]] # None) =>
               Linearized(c, P, g) = MergeOnto(c, MergeLists(c, P, g))
<1> DEFINE l == [k \in DOMAIN P[c] |-> g[P[c][k]]]
<1>1. DOMAIN l = DOMAIN P[c] /\ \A k \in DOMAIN P[c] : l[k] = g[P[c][k]]
  OBVIOUS
<1>2. Linearized(c, P, g) = IF \E k \in DOMAIN l : l[k] = None THEN None ELSE MergeOnto(c, MergeLists(c, P, g))
  BY Zenon DEF Linearized, MergeLists
<1> HIDE DEF l
<1> QED
  BY <1>1, <1>2, Zenon

\* A linearization that is found is an order of the ancestors.
LEMMA LinearizedOrders ==
  ASSUME NEW D, IsFiniteSet(D), NEW P \in [D -> Seq(D)], NEW g \in Orders(D, P), NEW c \in D,
         Linearized(c, P, g) # None
  PROVE  IsOrder(Linearized(c, P, g), c, D, P)
<1> DEFINE lists == MergeLists(c, P, g)
           m == Len(P[c])
           M == Linearized(c, P, g)
<1>1. \A k \in DOMAIN P[c] : g[P[c][k]] # None
  BY LinearizedIs, Zenon
<1>2. M = MergeOnto(c, lists)
  BY <1>1, LinearizedIs, Zenon
<1>3. MayMerge(lists, m, c, D, P, g)
  BY <1>1, ListsToMerge
<1> HIDE DEF lists, m, M
<1>4. /\ m \in Nat /\ lists \in [1 .. m + 1 -> Seq(D)] /\ c \notin Ancestors(c, P)
      /\ \A x : x \in Ancestors(c, P) <=>
                 \E k \in 1 .. m + 1 : \E i \in 1 .. Len(lists[k]) : lists[k][i] = x
  BY <1>3, Zenon DEF MayMerge
<1>5. \A k \in 1 .. m + 1 : \A i \in 1 .. Len(lists[k]) : lists[k][i] # c
  BY <1>4, Zenon
<1>6. MergeHolds(M, D, c, m + 1, lists)
  <2>1. m + 1 \in Nat /\ MergeOnto(c, lists) # None
    BY <1>2, <1>4 DEF M
  <2> QED
    BY <1>2, <1>4, <1>5, <2>1, MergeSound
<1>7. /\ M \in Seq(D) /\ Len(M) >= 1 /\ M[1] = c
      /\ \A a, b \in 1 .. Len(M) : a # b => M[a] # M[b]
      /\ \A a \in 2 .. Len(M) : \E k \in 1 .. m + 1 : \E i \in 1 .. Len(lists[k]) : lists[k][i] = M[a]
      /\ \A k \in 1 .. m + 1 : \A i \in 1 .. Len(lists[k]) : \E a \in 1 .. Len(M) : M[a] = lists[k][i]
  BY <1>6, Zenon DEF MergeHolds
<1>8. \A x : x \in ToSet(M) <=> \E a \in 1 .. Len(M) : M[a] = x
  BY <1>7, RangeFacts
<1>9. ToSet(M) = Ancestors(c, P) \cup {c}
  <2>1. ASSUME NEW x \in ToSet(M) PROVE x \in Ancestors(c, P) \/ x = c
    <3>1. PICK a \in 1 .. Len(M) : M[a] = x
      BY <1>8
    <3>2. a = 1 \/ a \in 2 .. Len(M)
      OBVIOUS
    <3> QED
      BY <1>4, <1>7, <3>1, <3>2
  <2>2. ASSUME NEW x \in Ancestors(c, P) PROVE x \in ToSet(M)
    <3>1. PICK k \in 1 .. m + 1 : \E i \in 1 .. Len(lists[k]) : lists[k][i] = x
      BY <1>4, Zenon
    <3> QED
      BY <1>7, <1>8, <3>1, Zenon
  <2>3. c \in ToSet(M)
    <3>1. 1 \in 1 .. Len(M)
      BY <1>7
    <3> QED
      BY <1>7, <1>8, <3>1
  <2> QED
    BY <2>1, <2>2, <2>3
<1> QED
  BY <1>4, <1>7, <1>9, Zenon DEF IsOrder, M

-----------------------------------------------------------------------------
(* Deeper and deeper calls of linearize *)

NoneYet(P) == [c \in DOMAIN P |-> None]
Deeper(P, g) == [c \in DOMAIN P |-> Linearized(c, P, g)]

\* What is found at each depth, as Linearize defines it.
Levels(f, P) == f[0] = NoneYet(P) /\ \A n \in Nat : f[n + 1] = Deeper(P, f[n])

\* One call more gives orders of the ancestors again.
LEMMA DeeperOrders ==
  ASSUME NEW D, IsFiniteSet(D), NEW P \in [D -> Seq(D)], NEW g \in Orders(D, P)
  PROVE  Deeper(P, g) \in Orders(D, P)
<1>1. \A c \in D : Linearized(c, P, g) # None => IsOrder(Linearized(c, P, g), c, D, P)
  BY LinearizedOrders
<1>2. None \in Seq(D)
  BY DEF None
<1>3. \A c \in D : Linearized(c, P, g) \in Seq(D)
  BY <1>1, <1>2, Zenon DEF IsOrder
<1>4. Deeper(P, g) \in [D -> Seq(D)] /\ \A c \in D : Deeper(P, g)[c] = Linearized(c, P, g)
  <2>1. DOMAIN P = D
    OBVIOUS
  <2>2. Deeper(P, g) = [c \in D |-> Linearized(c, P, g)]
    BY <2>1, Zenon DEF Deeper
  <2> DEFINE S == Seq(D)
  <2>3. \A c \in D : Linearized(c, P, g) \in S
    BY <1>3
  <2> HIDE DEF S
  <2>4. Deeper(P, g) \in [D -> S] /\ \A c \in D : Deeper(P, g)[c] = Linearized(c, P, g)
    BY <2>2, <2>3
  <2> QED
    BY <2>4 DEF S
<1> QED
  BY <1>1, <1>4, Zenon DEF Orders

\* Linearize is what is found at a depth of as many calls as there are classes.
LEMMA LevelsDefined ==
  ASSUME NEW D, IsFiniteSet(D), NEW P \in [D -> Seq(D)]
  PROVE  \E f : /\ Levels(f, P) /\ \A n \in Nat : f[n] \in Orders(D, P)
                /\ \A c \in D : Linearize(c, P) = f[Cardinality(D)][c]
<1> DEFINE U == Orders(D, P)
           A == NoneYet(P)
           F == [g \in U |-> Deeper(P, g)]
           lin[n \in Nat] == IF n = 0 THEN [c \in DOMAIN P |-> None]
                             ELSE [c \in DOMAIN P |-> Linearized(c, P, lin[n - 1])]
           Fits(f) == f = [n \in Nat |-> IF n = 0 THEN [c \in DOMAIN P |-> None]
                             ELSE [c \in DOMAIN P |-> Linearized(c, P, f[n - 1])]]
<1>0. DOMAIN P = D
  OBVIOUS
<1>1. A \in U
  <2>1. None \in Seq(D)
    BY DEF None
  <2>2. A \in [D -> Seq(D)] /\ \A c \in D : A[c] = None
    <3> DEFINE S == Seq(D)
    <3>1. None \in S
      BY <2>1
    <3> HIDE DEF S
    <3>2. A \in [D -> S] /\ \A c \in D : A[c] = None
      BY <1>0, <3>1 DEF NoneYet
    <3> QED
      BY <3>2 DEF S
  <2> QED
    BY <2>2, Zenon DEF Orders
<1> HIDE DEF A
<1>2. \A g \in U : Deeper(P, g) \in U
  BY DeeperOrders
<1> HIDE DEF U
<1>3. F \in [U -> U] /\ \A g \in U : F[g] = Deeper(P, g)
  BY <1>2
<1> HIDE DEF F
<1>4. PICK h : Iterates(h, U, A, F)
  BY <1>1, <1>3, IterationExists, Zenon
<1>5. h \in [Nat -> U] /\ h[0] = A /\ \A n \in Nat : h[n + 1] = Deeper(P, h[n])
  BY <1>3, <1>4 DEF Iterates
<1>6. \A n \in Nat : h[n] = IF n = 0 THEN A ELSE Deeper(P, h[n - 1])
  <2> TAKE n \in Nat
  <2>1. CASE n = 0
    BY <1>5, <2>1
  <2>2. CASE n # 0
    <3>1. n - 1 \in Nat /\ (n - 1) + 1 = n
      BY <2>2
    <3>2. h[(n - 1) + 1] = Deeper(P, h[n - 1])
      BY <1>5, <3>1
    <3> QED
      BY <2>2, <3>1, <3>2
  <2> QED
    BY <2>1, <2>2
<1>7. Fits(h)
  <2> DEFINE G == [n \in Nat |-> IF n = 0 THEN A ELSE Deeper(P, h[n - 1])]
  <2>1. h = G
    BY <1>5, <1>6, Zenon
  <2> QED
    BY <2>1, Zenon DEF A, NoneYet, Deeper
<1>8. \E f : Fits(f)
  BY <1>7
<1>9. Fits(lin)
  BY <1>8, Zenon
<1>10. \A c \in D : Linearize(c, P) = lin[Cardinality(D)][c]
  BY <1>0, Zenon DEF Linearize
<1> DEFINE K == [n \in Nat |-> IF n = 0 THEN A ELSE Deeper(P, lin[n - 1])]
<1>11. lin = K
  BY <1>9, Zenon DEF A, NoneYet, Deeper
<1> HIDE DEF lin
<1>12. \A n \in Nat : K[n] = IF n = 0 THEN A ELSE Deeper(P, lin[n - 1])
  BY Zenon
<1> HIDE DEF K
<1>13. lin[0] = A /\ \A n \in Nat : lin[n + 1] = Deeper(P, lin[n])
  <2>1. 0 \in Nat /\ \A n \in Nat : n + 1 \in Nat /\ n + 1 # 0 /\ (n + 1) - 1 = n
    OBVIOUS
  <2> QED
    BY <1>11, <1>12, <2>1
<1>14. \A n \in Nat : lin[n] \in U
  <2> DEFINE S == {n \in Nat : lin[n] \in U}
  <2>1. 0 \in S
    BY <1>1, <1>13
  <2>2. ASSUME NEW n \in Nat, n \in S PROVE n + 1 \in S
    <3>1. lin[n] \in U /\ n + 1 \in Nat
      BY <2>2
    <3>2. lin[n + 1] \in U
      BY <1>2, <1>13, <3>1, Zenon
    <3> QED
      BY <3>1, <3>2
  <2> HIDE DEF S
  <2>3. \A n \in Nat : n \in S
    BY <2>1, <2>2, Induct
  <2> QED
    BY <2>3 DEF S
<1> QED
  BY <1>10, <1>13, <1>14, Zenon DEF Levels, A, U

\* What has been found is found again at the next depth.
Widens(g, h, D) == \A c \in D : g[c] # None => h[c] = g[c]

\* Who knows more finds more.
LEMMA DeeperGrows ==
  ASSUME NEW D, NEW P \in [D -> Seq(D)], NEW g, NEW h, Widens(g, h, D)
  PROVE  Widens(Deeper(P, g), Deeper(P, h), D)
<1> SUFFICES ASSUME NEW c \in D, Deeper(P, g)[c] # None PROVE Deeper(P, h)[c] = Deeper(P, g)[c]
  BY Zenon DEF Widens
<1>1. DOMAIN P = D /\ \A k \in DOMAIN P[c] : P[c][k] \in D
  OBVIOUS
<1>2. Deeper(P, g)[c] = Linearized(c, P, g) /\ Deeper(P, h)[c] = Linearized(c, P, h)
  BY <1>1 DEF Deeper
<1>3. \A k \in DOMAIN P[c] : g[P[c][k]] # None
  BY <1>2, LinearizedIs, Zenon
<1>4. \A k \in DOMAIN P[c] : h[P[c][k]] = g[P[c][k]]
  BY <1>1, <1>3 DEF Widens
<1>5. MergeLists(c, P, g) = MergeLists(c, P, h)
  <2>1. [k \in DOMAIN P[c] |-> g[P[c][k]]] = [k \in DOMAIN P[c] |-> h[P[c][k]]]
    BY <1>4
  <2> QED
    BY <2>1, Zenon DEF MergeLists
<1>6. Linearized(c, P, g) = MergeOnto(c, MergeLists(c, P, g))
  BY <1>3, LinearizedIs, Zenon
<1>7. Linearized(c, P, h) = MergeOnto(c, MergeLists(c, P, h))
  <2>1. \A k \in DOMAIN P[c] : h[P[c][k]] # None
    BY <1>3, <1>4
  <2> QED
    BY <2>1, LinearizedIs, Zenon
<1> QED
  BY <1>2, <1>5, <1>6, <1>7

\* Nothing that was found is lost at another depth.
LEMMA LevelsGrow ==
  ASSUME NEW D, NEW P \in [D -> Seq(D)], NEW f, Levels(f, P)
  PROVE  \A n \in Nat : Widens(f[n], f[n + 1], D)
<1> DEFINE S == {n \in Nat : Widens(f[n], f[n + 1], D)}
<1>0. f[0] = NoneYet(P) /\ \A n \in Nat : f[n + 1] = Deeper(P, f[n])
  BY Zenon DEF Levels
<1>1. 0 \in S
  <2>1. \A c \in D : f[0][c] = None
    BY <1>0 DEF NoneYet
  <2>2. Widens(f[0], f[0 + 1], D)
    BY <2>1, Zenon DEF Widens
  <2> QED
    BY <2>2
<1>2. ASSUME NEW n \in Nat, n \in S PROVE n + 1 \in S
  <2>1. n + 1 \in Nat
    OBVIOUS
  <2>2. Widens(f[n], f[n + 1], D)
    BY <1>2
  <2>3. f[n + 1] = Deeper(P, f[n]) /\ f[(n + 1) + 1] = Deeper(P, f[n + 1])
    BY <1>0, <2>1, Zenon
  <2>4. Widens(Deeper(P, f[n]), Deeper(P, f[n + 1]), D)
    BY <2>2, DeeperGrows
  <2>5. Widens(f[n + 1], f[(n + 1) + 1], D)
    BY <2>3, <2>4
  <2> QED
    BY <2>1, <2>5
<1> HIDE DEF S
<1>3. \A n \in Nat : n \in S
  BY <1>1, <1>2, Induct
<1> QED
  BY <1>3 DEF S

\* The classes with a linearization.
Linear(g, D) == {c \in D : g[c] # None}

\* Another depth finds more classes or nothing new.
LEMMA MoreOrSame ==
  ASSUME NEW D, IsFiniteSet(D), NEW P \in [D -> Seq(D)], NEW g \in Orders(D, P), NEW h \in Orders(D, P),
         Widens(g, h, D)
  PROVE  h = g \/ Cardinality(Linear(g, D)) + 1 <= Cardinality(Linear(h, D))
<1> DEFINE S == Linear(g, D)
           T == Linear(h, D)
<1>1. S \subseteq T /\ T \subseteq D
  BY DEF Linear, Widens
<1>2. IsFiniteSet(T) /\ IsFiniteSet(S) /\ Cardinality(S) \in Nat /\ Cardinality(T) \in Nat
  <2> HIDE DEF S, T
  <2>1. IsFiniteSet(T)
    BY <1>1, FS_Subset
  <2>2. IsFiniteSet(S)
    BY <1>1, <2>1, FS_Subset
  <2> QED
    BY <2>1, <2>2, FS_CardinalityType
<1>3. CASE S = T
  <2>1. g \in [D -> Seq(D)] /\ h \in [D -> Seq(D)]
    BY DEF Orders
  <2>2. \A c \in D : h[c] = g[c]
    BY <1>3 DEF Linear, Widens
  <2>3. h = g
    <3> DEFINE V == Seq(D)
    <3>1. g \in [D -> V] /\ h \in [D -> V]
      BY <2>1
    <3> HIDE DEF V
    <3> QED
      BY <2>2, <3>1
  <2> QED
    BY <2>3
<1>4. CASE S # T
  <2> HIDE DEF S, T
  <2>1. Cardinality(S) <= Cardinality(T) /\ Cardinality(S) # Cardinality(T)
    BY <1>1, <1>2, <1>4, FS_Subset
  <2>2. \A x, y \in Nat : x <= y /\ x # y => x + 1 <= y
    OBVIOUS
  <2>3. Cardinality(S) + 1 <= Cardinality(T)
    BY <1>2, <2>1, <2>2, Zenon
  <2> QED
    BY <2>3 DEF S, T
<1> QED
  BY <1>3, <1>4

\* L is what linearize finds for every class, and finds from what it has found.
IsFixed(L, D, P) ==
    /\ L \in Orders(D, P)
    /\ \A c \in D : Linearize(c, P) = L[c] /\ L[c] = Linearized(c, P, L)

\* At a depth of as many calls as there are classes nothing new is found.
LEMMA LinearizeFixed ==
  ASSUME NEW D, IsFiniteSet(D), NEW P \in [D -> Seq(D)]
  PROVE  \E L : IsFixed(L, D, P)
<1> DEFINE N == Cardinality(D)
<1>1. PICK f : /\ Levels(f, P) /\ \A n \in Nat : f[n] \in Orders(D, P)
               /\ \A c \in D : Linearize(c, P) = f[N][c]
  BY LevelsDefined, Zenon
<1>2. N \in Nat
  BY FS_CardinalityType
<1> DEFINE S == {n \in Nat : f[n + 1] = f[n] \/ n <= Cardinality(Linear(f[n], D))}
<1>0. f[0] = NoneYet(P) /\ \A n \in Nat : f[n + 1] = Deeper(P, f[n])
  BY <1>1, Zenon DEF Levels
<1>3. \A n \in Nat : Widens(f[n], f[n + 1], D)
  BY <1>1, LevelsGrow
<1>4. \A n \in Nat : /\ Linear(f[n], D) \subseteq D /\ IsFiniteSet(Linear(f[n], D))
                     /\ Cardinality(Linear(f[n], D)) \in Nat /\ Cardinality(Linear(f[n], D)) <= N
  <2> TAKE n \in Nat
  <2>1. Linear(f[n], D) \subseteq D
    BY DEF Linear
  <2> QED
    BY <2>1, FS_Subset, FS_CardinalityType
<1> HIDE DEF N
<1>5. 0 \in S
  BY <1>4
<1>6. ASSUME NEW n \in Nat, n \in S PROVE n + 1 \in S
  <2>1. n + 1 \in Nat
    OBVIOUS
  <2>2. f[n + 1] = Deeper(P, f[n]) /\ f[(n + 1) + 1] = Deeper(P, f[n + 1])
    BY <1>0, <2>1, Zenon
  <2>3. CASE f[n + 1] = f[n]
    <3>1. f[(n + 1) + 1] = f[n + 1]
      BY <2>2, <2>3, Zenon
    <3> QED
      BY <2>1, <3>1
  <2>4. CASE f[n + 1] # f[n]
    <3>1. n <= Cardinality(Linear(f[n], D))
      BY <1>6, <2>4
    <3>2. Cardinality(Linear(f[n], D)) + 1 <= Cardinality(Linear(f[n + 1], D))
      BY <1>1, <1>3, <2>1, <2>4, MoreOrSame
    <3>3. n + 1 <= Cardinality(Linear(f[n + 1], D))
      <4>1. \A x, y, z \in Nat : x <= y /\ y + 1 <= z => x + 1 <= z
        OBVIOUS
      <4> QED
        BY <1>4, <2>1, <3>1, <3>2, <4>1, Zenon
    <3> QED
      BY <2>1, <3>3
  <2> QED
    BY <2>3, <2>4
<1> HIDE DEF S
<1>7. \A n \in Nat : n \in S
  BY <1>5, <1>6, Induct
<1>8. f[N + 1] = f[N] \/ N <= Cardinality(Linear(f[N], D))
  BY <1>2, <1>7 DEF S
<1>9. f[N + 1] = f[N]
  <2> SUFFICES ASSUME N <= Cardinality(Linear(f[N], D)), f[N + 1] # f[N] PROVE FALSE
    BY <1>8
  <2>1. N + 1 \in Nat
    BY <1>2
  <2>2. Cardinality(Linear(f[N], D)) + 1 <= Cardinality(Linear(f[N + 1], D))
    BY <1>1, <1>2, <1>3, <2>1, MoreOrSame
  <2>3. Cardinality(Linear(f[N + 1], D)) <= N /\ Cardinality(Linear(f[N + 1], D)) \in Nat
        /\ Cardinality(Linear(f[N], D)) \in Nat
    BY <1>2, <1>4, <2>1, Zenon
  <2>4. \A x, y, z \in Nat : ~(x <= y /\ y + 1 <= z /\ z <= x)
    OBVIOUS
  <2> QED
    BY <1>2, <2>2, <2>3, <2>4, Zenon
<1>10. f[N] \in Orders(D, P) /\ f[N] = Deeper(P, f[N])
  BY <1>0, <1>1, <1>2, <1>9, Zenon
<1>11. \A c \in D : f[N][c] = Linearized(c, P, f[N])
  <2>1. DOMAIN P = D
    OBVIOUS
  <2>2. \A c \in D : Deeper(P, f[N])[c] = Linearized(c, P, f[N])
    BY <2>1 DEF Deeper
  <2> QED
    BY <1>10, <2>2, Zenon
<1>12. IsFixed(f[N], D, P)
  BY <1>1, <1>10, <1>11, Zenon DEF IsFixed
<1> QED
  BY <1>12

-----------------------------------------------------------------------------
(* linearize finds what Python does *)

\* The orders of a finite set are its sequences without repetition that have it all.
LEMMA OrderOfSet ==
  ASSUME NEW A, IsFiniteSet(A), NEW D, NEW M \in Seq(D), ToSet(M) = A,
         \A a, b \in 1 .. Len(M) : a # b => M[a] # M[b]
  PROVE  M \in SetToSeqs(A) /\ Len(M) = Cardinality(A)
<1> DEFINE n == Len(M)
           N == Cardinality(A)
<1>1. n \in Nat /\ DOMAIN M = 1 .. n /\ \A x : x \in ToSet(M) <=> \E i \in 1 .. n : M[i] = x
  BY RangeFacts
<1>2. M \in [1 .. n -> A]
  <2>1. \A i \in 1 .. n : M[i] \in A
    BY <1>1
  <2>2. M = [i \in 1 .. n |-> M[i]]
    OBVIOUS
  <2> HIDE DEF n
  <2> QED
    BY <2>1, <2>2
<1> HIDE DEF n
<1>3. M \in Bijection(1 .. n, A)
  <2>1. \A a, b \in 1 .. n : M[a] = M[b] => a = b
    BY DEF n
  <2>2. \A x \in A : \E i \in 1 .. n : M[i] = x
    BY <1>1
  <2> QED
    BY <1>2, <2>1, <2>2, Zenon DEF Bijection, Injection, Surjection, IsInjective
<1>4. IsFiniteSet(1 .. n) /\ Cardinality(1 .. n) = n
  <2>1. 1 \in Int /\ n \in Int /\ (IF 1 > n THEN 0 ELSE n - 1 + 1) = n
    BY <1>1
  <2> QED
    BY <2>1, FS_Interval
<1>5. N = n
  <2>1. ExistsBijection(1 .. n, A)
    BY <1>3, Zenon DEF ExistsBijection
  <2> QED
    BY <1>4, <2>1, FS_Bijection
<1>6. \A a, b \in 1 .. N : a # b => M[a] # M[b]
  BY <1>5 DEF n
<1>7. M \in [1 .. N -> A]
  BY <1>2, <1>5
<1> QED
  BY <1>5, <1>6, <1>7, Zenon DEF SetToSeqs, n

\* What MroIsPythons asks of c.
MroHolds(c, P) ==
    IF HasMro(c, P) THEN IsPythonsMro(Linearize(c, P), c, P) ELSE Linearize(c, P) = None

\* linearize finds Python's order if there is one, and None if not, whatever the bases of the classes are.
LEMMA LinearizeIsPythons ==
  ASSUME NEW D, IsFiniteSet(D), NEW P \in [D -> Seq(D)], NEW c \in D
  PROVE  MroHolds(c, P)
<1>1. PICK L : IsFixed(L, D, P)
  BY LinearizeFixed
<1> DEFINE A == Ancestors(c, P)
           lists == MergeLists(c, P, L)
           m == Len(P[c])
           M == Linearize(c, P)
<1>2. /\ L \in Orders(D, P) /\ \A d \in D : Linearize(d, P) = L[d] /\ L[d] = Linearized(d, P, L)
  BY <1>1, Zenon DEF IsFixed
<1>3. P[c] \in Seq(D) /\ m \in Nat /\ DOMAIN P[c] = 1 .. m /\ \A k \in 1 .. m : P[c][k] \in D
  OBVIOUS
<1>4. A \in SUBSET D /\ IsFiniteSet(A \cup {c})
  <2>1. A \in SUBSET D
    BY AncestorsFacts
  <2>2. A \cup {c} \subseteq D
    BY <2>1
  <2> HIDE DEF A
  <2>3. IsFiniteSet(A \cup {c})
    BY <2>2, FS_Subset
  <2> QED
    BY <2>1, <2>3
<1>5. \A p : p \in ToSet(P[c]) <=> \E k \in 1 .. m : P[c][k] = p
  BY <1>3, RangeFacts
<1>6. ASSUME \A k \in 1 .. m : L[P[c][k]] # None
      PROVE  /\ M = MergeOnto(c, lists) /\ MayMerge(lists, m, c, D, P, L)
  <2>1. \A k \in DOMAIN P[c] : L[P[c][k]] # None
    BY <1>3, <1>6
  <2>2. Linearized(c, P, L) = MergeOnto(c, lists)
    BY <2>1, LinearizedIs, Zenon
  <2>3. MayMerge(lists, m, c, D, P, L)
    BY <1>2, <2>1, ListsToMerge
  <2> QED
    BY <1>2, <2>2, <2>3
<1>7. ASSUME MayMerge(lists, m, c, D, P, L)
      PROVE  /\ m + 1 \in Nat /\ lists \in [1 .. m + 1 -> Seq(D)] /\ lists[m + 1] = P[c]
             /\ \A k \in 1 .. m : lists[k] = L[P[c][k]]
             /\ \A k \in 1 .. m + 1 : \A i \in 1 .. Len(lists[k]) : lists[k][i] # c
             /\ \A k \in 1 .. m + 1 : \A i \in 1 .. Len(lists[k]) : lists[k][i] \in A
             /\ \A k \in 1 .. m + 1 : k \in 1 .. m \/ k = m + 1
             /\ m + 1 \in 1 .. m + 1 /\ \A k \in 1 .. m : k \in 1 .. m + 1
  <2>1. /\ lists \in [1 .. m + 1 -> Seq(D)] /\ lists[m + 1] = P[c] /\ c \notin A
        /\ \A k \in 1 .. m : lists[k] = L[P[c][k]]
        /\ \A x : x \in A <=> \E k \in 1 .. m + 1 : \E i \in 1 .. Len(lists[k]) : lists[k][i] = x
    BY <1>7, Zenon DEF MayMerge
  <2> HIDE DEF A, lists, m
  <2>2. /\ \A k \in 1 .. m + 1 : \A i \in 1 .. Len(lists[k]) : lists[k][i] # c
        /\ \A k \in 1 .. m + 1 : \A i \in 1 .. Len(lists[k]) : lists[k][i] \in A
    BY <2>1, Zenon
  <2>3. /\ m + 1 \in Nat /\ \A k \in 1 .. m + 1 : k \in 1 .. m \/ k = m + 1
        /\ m + 1 \in 1 .. m + 1 /\ \A k \in 1 .. m : k \in 1 .. m + 1
    BY <1>3
  <2> QED
    BY <2>1, <2>2, <2>3
<1> HIDE DEF A, lists, m, M
<1>8. ASSUME HasMro(c, P) PROVE M # None
  <2>1. PICK w : /\ w \in SetToSeqs(A \cup {c}) /\ KeepsOrder(P[c], w)
                 /\ \A p \in ToSet(P[c]) : KeepsOrder(Linearize(p, P), w)
    BY <1>8, Zenon DEF HasMro, IsMro, A
  <2>2. \A k \in 1 .. m : L[P[c][k]] # None
    <3>1. \A p \in ToSet(P[c]) : Linearize(p, P) # None
      BY <1>8, Zenon DEF HasMro
    <3> QED
      BY <1>2, <1>3, <1>5, <3>1
  <2>3. M = MergeOnto(c, lists) /\ MayMerge(lists, m, c, D, P, L)
    BY <1>6, <2>2
  <2> DEFINE N == Cardinality(A \cup {c})
  <2>4. N \in Nat /\ w \in [1 .. N -> A \cup {c}] /\ \A a, b \in 1 .. N : a # b => w[a] # w[b]
    BY <1>4, <2>1, FS_CardinalityType DEF SetToSeqs
  <2> HIDE DEF N
  <2>5. Len(w) = N /\ DOMAIN w = 1 .. N
    BY <2>4
  <2>6. \A x \in A : \E a \in 1 .. N : w[a] = x
    <3>1. w \in Injection(1 .. N, A \cup {c})
      BY <2>4, Zenon DEF Injection, IsInjective
    <3>2. IsFiniteSet(1 .. N) /\ Cardinality(1 .. N) = N
      <4>1. 1 \in Int /\ N \in Int /\ (IF 1 > N THEN 0 ELSE N - 1 + 1) = N
        BY <2>4
      <4> QED
        BY <4>1, FS_Interval
    <3>3. w \in Surjection(1 .. N, A \cup {c})
      BY <1>4, <3>1, <3>2, FS_Injection DEF N
    <3> QED
      BY <3>3, Zenon DEF Surjection
  <2>7. Admits(w, m + 1, lists)
    <3>1. \A a, b \in 1 .. N : w[a] = w[b] => a = b
      BY <2>4
    <3>2. \A k \in 1 .. m + 1 : \A i \in 1 .. Len(lists[k]) : \E a \in 1 .. N : w[a] = lists[k][i]
      BY <1>7, <2>3, <2>6, Zenon
    <3>3. ASSUME NEW k \in 1 .. m + 1 PROVE KeepsOrder(lists[k], w)
      <4>1. CASE k = m + 1
        BY <1>7, <2>1, <2>3, <4>1, Zenon
      <4>2. CASE k \in 1 .. m
        <5>1. lists[k] = L[P[c][k]] /\ P[c][k] \in D /\ P[c][k] \in ToSet(P[c])
          BY <1>3, <1>5, <1>7, <2>3, <4>2, Zenon
        <5>2. lists[k] = Linearize(P[c][k], P)
          BY <1>2, <5>1, Zenon
        <5> QED
          BY <2>1, <5>1, <5>2, Zenon
      <4> QED
        BY <1>7, <2>3, <4>1, <4>2, Zenon
    <3> QED
      BY <2>4, <2>5, <3>1, <3>2, <3>3, Zenon DEF Admits
  <2>8. MergeOnto(c, lists) # None
    <3>1. /\ m + 1 \in Nat /\ lists \in [1 .. m + 1 -> Seq(D)]
          /\ \A k \in 1 .. m + 1 : \A i \in 1 .. Len(lists[k]) : lists[k][i] # c
      BY <1>7, <2>3, Zenon
    <3> QED
      BY <2>7, <3>1, MergeComplete
  <2> QED
    BY <2>3, <2>8
<1>9. ASSUME M # None PROVE HasMro(c, P) /\ IsPythonsMro(M, c, P)
  <2>1. M = L[c] /\ L[c] = Linearized(c, P, L)
    BY <1>2 DEF M
  <2>2. \A k \in 1 .. m : L[P[c][k]] # None
    <3>1. \A k \in DOMAIN P[c] : L[P[c][k]] # None
      BY <1>9, <2>1, LinearizedIs, Zenon
    <3> QED
      BY <1>3, <3>1
  <2>3. M = MergeOnto(c, lists) /\ MayMerge(lists, m, c, D, P, L)
    BY <1>6, <2>2
  <2>4. IsOrder(M, c, D, P)
    <3>1. \A d \in D : L[d] # None => IsOrder(L[d], d, D, P)
      BY <1>2, Zenon DEF Orders
    <3> QED
      BY <1>9, <2>1, <3>1
  <2>5. /\ M \in Seq(D) /\ Len(M) >= 1 /\ M[1] = c /\ c \notin A /\ ToSet(M) = A \cup {c}
        /\ \A a, b \in 1 .. Len(M) : a # b => M[a] # M[b]
    BY <2>4, Zenon DEF IsOrder, A
  <2>6. M \in SetToSeqs(A \cup {c})
    BY <1>4, <2>5, OrderOfSet
  <2>7. MergeHolds(M, D, c, m + 1, lists)
    <3>1. /\ m + 1 \in Nat /\ lists \in [1 .. m + 1 -> Seq(D)] /\ MergeOnto(c, lists) # None
          /\ \A k \in 1 .. m + 1 : \A i \in 1 .. Len(lists[k]) : lists[k][i] # c
      BY <1>7, <1>9, <2>3, Zenon
    <3> QED
      BY <2>3, <3>1, MergeSound
  <2>8. \A k \in 1 .. m + 1 : KeepsOrder(lists[k], M)
    BY <2>7, Zenon DEF MergeHolds
  <2>9. KeepsOrder(P[c], M)
    BY <1>7, <2>3, <2>8, Zenon
  <2>10. \A p \in ToSet(P[c]) : p \in D /\ Linearize(p, P) # None /\ KeepsOrder(Linearize(p, P), M)
    <3> TAKE p \in ToSet(P[c])
    <3>1. PICK k \in 1 .. m : P[c][k] = p
      BY <1>5
    <3>2. p \in D /\ L[p] # None /\ lists[k] = L[p] /\ k \in 1 .. m + 1
      BY <1>3, <1>7, <2>2, <2>3, <3>1, Zenon
    <3>3. Linearize(p, P) = L[p]
      BY <1>2, <3>2
    <3> QED
      BY <2>8, <3>2, <3>3, Zenon
  <2>11. Head(M) = c
    BY <2>5
  <2>12. IsMro(M, c, P)
    BY <2>6, <2>9, <2>10, <2>11, Zenon DEF IsMro, A
  <2>13. HasMro(c, P)
    BY <2>5, <2>6, <2>10, <2>12, Zenon DEF HasMro, A
  <2>14. FirstListsFirst(M, lists)
    BY <2>7, Zenon DEF MergeHolds
  <2>15. lists = Append([k \in DOMAIN P[c] |-> Linearize(P[c][k], P)], P[c])
    <3>1. \A k \in DOMAIN P[c] : Linearize(P[c][k], P) = L[P[c][k]]
      BY <1>2, <1>3
    <3>2. [k \in DOMAIN P[c] |-> Linearize(P[c][k], P)] = [k \in DOMAIN P[c] |-> L[P[c][k]]]
      BY <3>1, Zenon
    <3> QED
      BY <3>2, Zenon DEF lists, MergeLists
  <2>16. IsPythonsMro(M, c, P)
    BY <2>12, <2>14, <2>15, Zenon DEF IsPythonsMro
  <2> QED
    BY <2>13, <2>16
<1>10. CASE HasMro(c, P)
  BY <1>8, <1>9, <1>10, Zenon DEF MroHolds, M
<1>11. CASE ~HasMro(c, P)
  BY <1>9, <1>11, Zenon DEF MroHolds, M
<1> QED
  BY <1>10, <1>11

\* A list put behind others.
LEMMA OneListed ==
  ASSUME NEW D, NEW m \in Nat, NEW front \in [1 .. m -> Seq(D)], NEW l \in Seq(D)
  PROVE  /\ DOMAIN Append(front, l) = 1 .. m + 1 /\ Append(front, l)[m + 1] = l
         /\ \A k \in 1 .. m : Append(front, l)[k] = front[k]
         /\ ToSet(Append(front, l)) = ToSet(front) \cup {l}
<1> DEFINE V == Seq(D)
           lists == Append(front, l)
<1>1. front \in [1 .. m -> V] /\ l \in V
  OBVIOUS
<1> HIDE DEF V
<1>2. front \in Seq(V) /\ Len(front) = m /\ DOMAIN front = 1 .. m
  BY <1>1
<1>3. /\ lists \in Seq(V) /\ Len(lists) = m + 1 /\ lists[m + 1] = l
      /\ \A k \in 1 .. m : lists[k] = front[k]
  BY <1>1, <1>2
<1> HIDE DEF lists
<1>4. DOMAIN lists = 1 .. m + 1
  BY <1>3
<1>5. \A x : x \in ToSet(lists) <=> x \in ToSet(front) \cup {l}
  <2>1. \A k : k \in 1 .. m + 1 <=> k \in 1 .. m \/ k = m + 1
    OBVIOUS
  <2>2. ToSet(lists) = {lists[k] : k \in 1 .. m + 1} /\ ToSet(front) = {front[k] : k \in 1 .. m}
    BY <1>2, <1>4, Zenon DEF ToSet
  <2>3. \A k \in 1 .. m : lists[k] = front[k]
    BY <1>3
  <2>4. lists[m + 1] = l
    BY <1>3
  <2> QED
    BY <2>1, <2>2, <2>3, <2>4, Zenon
<1> QED
  BY <1>3, <1>4, <1>5 DEF lists

\* w has the lists' order and no class twice.
Respects(w, n, lists) ==
    /\ DOMAIN w = 1 .. n /\ \A a, b \in 1 .. n : w[a] = w[b] => a = b
    /\ \A l \in ToSet(lists) : KeepsOrder(l, w)

\* What is placed before j.
UpTo(w, j) == {w[a] : a \in 1 .. j - 1}

\* The class at j is in list k, and all that is left in the lists before waits.
TakenFrom(k, w, j, lists) ==
    /\ w[j] \in ToSet(lists[k])
    /\ \A g \in 1 .. k - 1 : \A y \in ToSet(lists[g]) \ UpTo(w, j) :
          Waits(y, UpTo(w, j), lists)

\* What is before j in w does not wait for what is not.
LEMMA NoneWaits ==
  ASSUME NEW w, NEW n \in Nat, NEW lists, Respects(w, n, lists), NEW j \in 1 .. n,
         Waits(w[j], UpTo(w, j), lists)
  PROVE  FALSE
<1>0. PICK l \in ToSet(lists) : \E z \in ToSet(l) \ UpTo(w, j) : Precedes(l, z, w[j])
  BY Zenon DEF Waits
<1>1. PICK z \in ToSet(l) \ UpTo(w, j) : Precedes(l, z, w[j])
  BY <1>0, Zenon
<1>2. PICK a \in DOMAIN l, b \in DOMAIN l : a < b /\ l[a] = z /\ l[b] = w[j]
  BY <1>1, Zenon DEF Precedes
<1>3. Precedes(w, z, w[j])
  BY <1>1, <1>2, Zenon DEF Respects, KeepsOrder
<1>4. DOMAIN w = 1 .. n
  BY DEF Respects
<1>5. PICK x \in 1 .. n, y \in 1 .. n : x < y /\ w[x] = z /\ w[y] = w[j]
  BY <1>3, <1>4 DEF Precedes
<1>6. y = j
  BY <1>5 DEF Respects
<1>7. x \in 1 .. j - 1
  BY <1>5, <1>6
<1> QED
  BY <1>1, <1>5, <1>7 DEF UpTo

\* v takes its class at j from a list before that of w: it could not.
LEMMA SameList ==
  ASSUME NEW w, NEW v, NEW n \in Nat, NEW lists, NEW m \in Nat,
         Respects(w, n, lists), NEW j \in 1 .. n, UpTo(w, j) = UpTo(v, j),
         NEW k \in 1 .. m, w[j] \in ToSet(lists[k]),
         NEW h \in 1 .. m, TakenFrom(h, v, j, lists)
  PROVE  h <= k
<1> SUFFICES ASSUME ~(h <= k) PROVE FALSE
  OBVIOUS
<1>1. k \in 1 .. h - 1
  OBVIOUS
<1>2. w[j] \notin UpTo(w, j)
  <2>1. \A a \in 1 .. j - 1 : a \in 1 .. n /\ a # j
    OBVIOUS
  <2> QED
    BY <2>1 DEF Respects, UpTo
<1>3. Waits(w[j], UpTo(w, j), lists)
  BY <1>1, <1>2, Zenon DEF TakenFrom
<1> QED
  BY <1>3, NoneWaits

\* What is placed before j, one by one.
Agree(w, v, j) == \A a \in 1 .. j - 1 : w[a] = v[a]

\* If both take the class at j from one list, it is the same class.
LEMMA SameClass ==
  ASSUME NEW D, NEW lists, NEW l \in ToSet(lists), l \in Seq(D), NEW w, NEW v, NEW n \in Nat,
         Respects(w, n, lists), Respects(v, n, lists), NEW j \in 1 .. n,
         Agree(w, v, j), w[j] \in ToSet(l), v[j] \in ToSet(l)
  PROVE  Agree(w, v, j + 1)
<1>1. \A x : x \in ToSet(l) <=> \E i \in 1 .. Len(l) : l[i] = x
  BY RangeFacts
<1>2. PICK a \in 1 .. Len(l), b \in 1 .. Len(l) : l[a] = w[j] /\ l[b] = v[j]
  BY <1>1
<1>3. a \in DOMAIN l /\ b \in DOMAIN l /\ KeepsOrder(l, w) /\ KeepsOrder(l, v)
  BY DEF Respects
<1>4. DOMAIN w = 1 .. n /\ DOMAIN v = 1 .. n
  BY DEF Respects
<1>5. ~(a < b)
  <2> SUFFICES ASSUME a < b PROVE FALSE
    OBVIOUS
  <2>1. Precedes(v, w[j], v[j])
    BY <1>2, <1>3, Zenon DEF KeepsOrder
  <2>2. PICK x \in 1 .. n, y \in 1 .. n : x < y /\ v[x] = w[j] /\ v[y] = v[j]
    BY <1>4, <2>1 DEF Precedes
  <2>3. y = j
    BY <2>2 DEF Respects
  <2>4. x \in 1 .. j - 1
    BY <2>2, <2>3
  <2>5. w[x] = w[j]
    BY <2>2, <2>4 DEF Agree
  <2> QED
    BY <2>2, <2>4, <2>5 DEF Respects
<1>6. ~(b < a)
  <2> SUFFICES ASSUME b < a PROVE FALSE
    OBVIOUS
  <2>1. Precedes(w, v[j], w[j])
    BY <1>2, <1>3, Zenon DEF KeepsOrder
  <2>2. PICK x \in 1 .. n, y \in 1 .. n : x < y /\ w[x] = v[j] /\ w[y] = w[j]
    BY <1>4, <2>1 DEF Precedes
  <2>3. y = j
    BY <2>2 DEF Respects
  <2>4. x \in 1 .. j - 1
    BY <2>2, <2>3
  <2>5. v[x] = v[j]
    BY <2>2, <2>4 DEF Agree
  <2> QED
    BY <2>2, <2>4, <2>5 DEF Respects
<1>7. a = b
  BY <1>5, <1>6
<1>8. \A i \in 1 .. (j + 1) - 1 : i = j \/ i \in 1 .. j - 1
  OBVIOUS
<1> QED
  BY <1>2, <1>7, <1>8 DEF Agree

\* w has the members of A, c first, none twice.
IsListing(w, A, c) ==
    /\ Cardinality(A) \in Nat /\ w \in [1 .. Cardinality(A) -> A] /\ w[1] = c
    /\ \A a, b \in 1 .. Cardinality(A) : w[a] = w[b] => a = b

\* An order that Python allows has every ancestor once.
LEMMA MroIsOrder ==
  ASSUME NEW D, IsFiniteSet(D), NEW P \in [D -> Seq(D)], NEW c \in D, NEW w, NEW A,
         A = Ancestors(c, P) \cup {c}, IsMro(w, c, P)
  PROVE  IsListing(w, A, c)
<1>1. IsFiniteSet(A)
  <2>1. A \subseteq D
    BY AncestorsFacts
  <2> QED
    BY <2>1, FS_Subset
<1>2. w \in SetToSeqs(A) /\ Head(w) = c
  BY Zenon DEF IsMro
<1> DEFINE N == Cardinality(A)
<1>3. N \in Nat /\ w \in [1 .. N -> A] /\ \A a, b \in 1 .. N : w[a] = w[b] => a = b
  <2>1. w \in [1 .. N -> A] /\ \A a, b \in 1 .. N : a # b => w[a] # w[b]
    BY <1>2, Zenon DEF SetToSeqs
  <2> QED
    BY <1>1, <2>1, FS_CardinalityType
<1> HIDE DEF N
<1>4. w[1] = c
  BY <1>2, <1>3
<1> QED
  BY <1>3, <1>4 DEF N, IsListing

\* There is one order that Python computes, for any classes with any bases: the
\* order in which super() looks for a method is no matter of choice (mro.rs:14-83).
THEOREM OneOrder ==
  ASSUME NEW D, IsFiniteSet(D), NEW P \in [D -> Seq(D)], NEW c \in D,
         NEW u, NEW v, IsPythonsMro(u, c, P), IsPythonsMro(v, c, P)
  PROVE  u = v
<1> DEFINE A == Ancestors(c, P) \cup {c}
           N == Cardinality(A)
           m == Len(P[c])
           front == [k \in DOMAIN P[c] |-> Linearize(P[c][k], P)]
           lists == Append(front, P[c])
<1>1. P[c] \in Seq(D) /\ m \in Nat /\ DOMAIN P[c] = 1 .. m /\ \A k \in 1 .. m : P[c][k] \in D
  OBVIOUS
<1>2. front \in [1 .. m -> Seq(D)]
  <2>1. PICK L : IsFixed(L, D, P)
    BY LinearizeFixed
  <2>2. L \in [D -> Seq(D)] /\ \A d \in D : Linearize(d, P) = L[d]
    BY <2>1, Zenon DEF IsFixed, Orders
  <2>3. \A k \in 1 .. m : Linearize(P[c][k], P) \in Seq(D)
    BY <1>1, <2>2
  <2> QED
    BY <1>1, <2>3
<1>3. ToSet(front) = {Linearize(P[c][k], P) : k \in 1 .. m}
      /\ ToSet(P[c]) = {P[c][k] : k \in 1 .. m}
  BY <1>1, Zenon DEF ToSet
<1> HIDE DEF m, front
<1>4. /\ DOMAIN lists = 1 .. m + 1 /\ lists[m + 1] = P[c]
      /\ \A k \in 1 .. m : lists[k] = front[k]
      /\ ToSet(lists) = ToSet(front) \cup {P[c]}
  <2>1. m \in Nat /\ front \in [1 .. m -> Seq(D)] /\ P[c] \in Seq(D)
    BY <1>1, <1>2
  <2> QED
    BY <2>1, OneListed
<1>5. /\ \A k \in 1 .. m + 1 : lists[k] \in Seq(D) /\ lists[k] \in ToSet(lists)
      /\ \A l \in ToSet(lists) :
            l = P[c] \/ \E p \in ToSet(P[c]) : l = Linearize(p, P)
  <2> HIDE DEF lists
  <2>1. \A k \in 1 .. m + 1 : k \in 1 .. m \/ k = m + 1
    BY <1>1
  <2>2. \A k \in 1 .. m : front[k] \in Seq(D)
    BY <1>2
  <2>3. \A k \in 1 .. m + 1 : lists[k] \in ToSet(lists)
    BY <1>4, Zenon DEF ToSet
  <2> QED
    BY <1>1, <1>3, <1>4, <2>1, <2>2, <2>3, Zenon
<1> HIDE DEF lists
<1>6. ASSUME NEW w, IsPythonsMro(w, c, P)
      PROVE  /\ N \in Nat /\ w \in [1 .. N -> A] /\ w[1] = c /\ Respects(w, N, lists)
             /\ FirstListsFirst(w, lists)
  <2>1. IsMro(w, c, P) /\ FirstListsFirst(w, lists)
    BY <1>6, Zenon DEF IsPythonsMro, lists, front
  <2>2. N \in Nat /\ w \in [1 .. N -> A] /\ w[1] = c
        /\ \A a, b \in 1 .. N : w[a] = w[b] => a = b
    <3>1. A = Ancestors(c, P) \cup {c} /\ N = Cardinality(A) /\ IsMro(w, c, P)
      BY <2>1
    <3> HIDE DEF A, N
    <3>2. IsListing(w, A, c)
      BY <3>1, MroIsOrder
    <3> QED
      BY <3>1, <3>2 DEF IsListing
  <2>3. \A l \in ToSet(lists) : KeepsOrder(l, w)
    BY <1>5, <2>1, Zenon DEF IsMro
  <2> HIDE DEF A, N
  <2>4. DOMAIN w = 1 .. N
    BY <2>2
  <2> QED
    BY <2>1, <2>2, <2>3, <2>4, Zenon DEF Respects
<1> HIDE DEF A, N
<1>7. /\ N \in Nat /\ u \in [1 .. N -> A] /\ v \in [1 .. N -> A] /\ u[1] = v[1]
      /\ Respects(u, N, lists) /\ FirstListsFirst(u, lists)
      /\ Respects(v, N, lists) /\ FirstListsFirst(v, lists)
  <2>1. /\ N \in Nat /\ u \in [1 .. N -> A] /\ u[1] = c /\ Respects(u, N, lists)
        /\ FirstListsFirst(u, lists)
    BY <1>6, Zenon
  <2>2. /\ v \in [1 .. N -> A] /\ v[1] = c /\ Respects(v, N, lists)
        /\ FirstListsFirst(v, lists)
    BY <1>6, Zenon
  <2> QED
    BY <2>1, <2>2
<1>8. Len(u) = N /\ Len(v) = N
  BY <1>7
<1>9. ASSUME NEW j \in 2 .. N, \A a \in 1 .. j - 1 : u[a] = v[a]
      PROVE  u[j] = v[j]
  <2>1. UpTo(u, j) = UpTo(v, j)
    BY <1>9 DEF UpTo
  <2>2. PICK k \in 1 .. m + 1 : TakenFrom(k, u, j, lists)
    BY <1>4, <1>7, <1>8, Zenon DEF FirstListsFirst, TakenFrom, UpTo
  <2>3. PICK h \in 1 .. m + 1 : TakenFrom(h, v, j, lists)
    BY <1>4, <1>7, <1>8, Zenon DEF FirstListsFirst, TakenFrom, UpTo
  <2>4. m + 1 \in Nat /\ j \in 1 .. N
    BY <1>1, <1>7
  <2>5. u[j] \in ToSet(lists[k]) /\ v[j] \in ToSet(lists[h])
    BY <2>2, <2>3, Zenon DEF TakenFrom
  <2>6. h <= k
    BY <1>7, <2>1, <2>3, <2>4, <2>5, SameList
  <2>7. k <= h
    BY <1>7, <2>1, <2>2, <2>4, <2>5, SameList
  <2>8. k = h
    BY <2>4, <2>6, <2>7
  <2>9. lists[k] \in Seq(D) /\ lists[k] \in ToSet(lists)
    BY <1>5
  <2>10. Agree(u, v, j) /\ v[j] \in ToSet(lists[k])
    BY <1>9, <2>5, <2>8 DEF Agree
  <2>11. Agree(u, v, j + 1)
    BY <1>7, <2>4, <2>5, <2>9, <2>10, SameClass
  <2> QED
    BY <2>4, <2>11 DEF Agree
<1> DEFINE S == {n \in Nat : \A a \in 1 .. n : a <= N => u[a] = v[a]}
<1>10. 0 \in S
  OBVIOUS
<1>11. ASSUME NEW n \in Nat, n \in S PROVE n + 1 \in S
  <2>1. \A a \in 1 .. n : a <= N => u[a] = v[a]
    BY <1>11
  <2>2. n + 1 <= N => u[n + 1] = v[n + 1]
    <3>1. CASE n = 0
      BY <1>7, <3>1
    <3>2. CASE n # 0 /\ n + 1 <= N
      <4>1. n + 1 \in 2 .. N /\ \A a \in 1 .. (n + 1) - 1 : u[a] = v[a]
        BY <1>7, <2>1, <3>2
      <4> QED
        BY <1>9, <4>1
    <3> QED
      BY <3>1, <3>2
  <2>3. \A a \in 1 .. n + 1 : a \in 1 .. n \/ a = n + 1
    OBVIOUS
  <2> QED
    BY <2>1, <2>2, <2>3
<1> HIDE DEF S
<1>12. N \in S
  BY <1>7, <1>10, <1>11, Induct
<1>13. \A a \in 1 .. N : u[a] = v[a]
  BY <1>7, <1>12 DEF S
<1> QED
  BY <1>7, <1>13

-----------------------------------------------------------------------------
(* Sequences of the members of a set, and blanks in what is flattened *)

\* order has the members of T, once.
Enumerates(order, T) ==
    /\ order \in Seq(T) /\ Len(order) = Cardinality(T)
    /\ \A x : x \in T <=> \E i \in 1 .. Len(order) : order[i] = x

\* What SetToSeqs and SetToSeq promise.
LEMMA SetToSeqsFacts ==
  ASSUME NEW T, IsFiniteSet(T), NEW order, order \in SetToSeqs(T) \/ order = SetToSeq(T)
  PROVE  Enumerates(order, T)
<1> DEFINE n == Cardinality(T)
<1>1. n \in Nat /\ ExistsBijection(1 .. n, T)
  BY FS_CardinalityType
<1>2. order \in [1 .. n -> T] /\ \A a, b \in 1 .. n : order[a] = order[b] => a = b
  <2>1. CASE order \in SetToSeqs(T)
    BY <2>1 DEF SetToSeqs
  <2>2. CASE order = SetToSeq(T)
    <3>1. PICK g : g \in Bijection(1 .. n, T)
      BY <1>1, Zenon DEF ExistsBijection
    <3>2. g \in [1 .. n -> T] /\ IsInjective(g)
      BY <3>1, Zenon DEF Bijection, Injection
    <3>3. SetToSeq(T) \in [1 .. n -> T] /\ IsInjective(SetToSeq(T))
      BY <3>2, Zenon DEF SetToSeq
    <3>4. DOMAIN SetToSeq(T) = 1 .. n
      BY <3>3
    <3> QED
      BY <2>2, <3>3, <3>4, Zenon DEF IsInjective
  <2> QED
    BY <2>1, <2>2
<1>3. order \in Surjection(1 .. n, T)
  <2>1. order \in Injection(1 .. n, T)
    BY <1>2, Zenon DEF Injection, IsInjective
  <2>2. IsFiniteSet(1 .. n) /\ Cardinality(1 .. n) = n
    <3>1. 1 \in Int /\ n \in Int /\ (IF 1 > n THEN 0 ELSE n - 1 + 1) = n
      BY <1>1
    <3> HIDE DEF n
    <3> QED
      BY <3>1, FS_Interval
  <2> QED
    BY <2>1, <2>2, FS_Injection
<1> HIDE DEF n
<1>4. order \in Seq(T) /\ Len(order) = n
  BY <1>1, <1>2
<1>5. \A x : x \in T <=> \E i \in 1 .. n : order[i] = x
  <2>1. \A x \in T : \E i \in 1 .. n : order[i] = x
    BY <1>3, Zenon DEF Surjection
  <2> QED
    BY <1>2, <2>1
<1> QED
  BY <1>4, <1>5, Zenon DEF Enumerates, n

\* tt is ss with blanks after it.
Padded(tt, ss, A) ==
    /\ ss \in Seq(Seq(A)) /\ tt \in Seq(Seq(A)) /\ Len(ss) <= Len(tt)
    /\ \A i \in 1 .. Len(tt) : tt[i] = IF i <= Len(ss) THEN ss[i] ELSE <<>>

\* Blanks at the end add nothing.
LEMMA FlattenPadded ==
  ASSUME NEW A, NEW ss, NEW tt, Padded(tt, ss, A)
  PROVE  FlattenSeq(tt) = FlattenSeq(ss)
<1> DEFINE N == Len(ss)
           M == Len(tt)
<1>1. /\ ss \in [1 .. N -> Seq(A)] /\ tt \in [1 .. M -> Seq(A)] /\ N \in Nat /\ M \in Nat /\ N <= M
      /\ \A i \in 1 .. M : tt[i] = IF i <= N THEN ss[i] ELSE <<>>
  <2>1. /\ ss \in Seq(Seq(A)) /\ tt \in Seq(Seq(A)) /\ Len(ss) <= Len(tt)
        /\ \A i \in 1 .. Len(tt) : tt[i] = IF i <= Len(ss) THEN ss[i] ELSE <<>>
    BY Zenon DEF Padded
  <2> DEFINE V == Seq(A)
  <2>2. ss \in Seq(V) /\ tt \in Seq(V)
    BY <2>1
  <2> HIDE DEF V
  <2>3. ss \in [1 .. N -> V] /\ tt \in [1 .. M -> V] /\ N \in Nat /\ M \in Nat
    BY <2>2
  <2> QED
    BY <2>1, <2>3 DEF V
<1>2. CASE M = 0
  <2>1. ss = tt
    <3>1. N = 0
      BY <1>1, <1>2
    <3>2. ss \in [{} -> Seq(A)] /\ tt \in [{} -> Seq(A)]
      <4>1. 1 .. N = {} /\ 1 .. M = {}
        BY <1>2, <3>1
      <4> QED
        BY <1>1, <4>1
    <3> DEFINE V == Seq(A)
    <3> HIDE DEF V, N, M
    <3>3. ss \in [{} -> V] /\ tt \in [{} -> V]
      BY <3>2 DEF V
    <3> QED
      BY <3>3
  <2> QED
    BY <2>1
<1>3. CASE M # 0
  <2>1. M \in Nat \ {0}
    BY <1>1, <1>3
  <2>2. PICK g : FlattenSeq(tt) = g[M] /\ Flattens(g, A, M, tt)
    <3> HIDE DEF M
    <3> QED
      BY <1>1, <2>1, FlattenDefined
  <2>3. /\ g[1] = tt[1] /\ \A i \in 1 .. M : g[i] \in Seq(A)
        /\ \A i \in 2 .. M : g[i] = g[i - 1] \o tt[i]
    BY <2>2, Zenon DEF Flattens
  <2>4. \A s \in Seq(A) : s \o <<>> = s
    OBVIOUS
  <2>5. CASE N = 0
    <3> HIDE DEF N, M
    <3> DEFINE S == {i \in 1 .. M : g[i] = <<>>} \cup {0}
    <3>1. 0 \in S /\ 1 \in S
      <4>1. 1 \in 1 .. M /\ tt[1] = <<>>
        BY <1>1, <2>1, <2>5
      <4> QED
        BY <2>3, <4>1
    <3>2. ASSUME NEW i \in 0 .. M - 1, i \in S PROVE i + 1 \in S
      <4>1. CASE i = 0
        BY <3>1, <4>1
      <4>2. CASE i # 0
        <5>1. i + 1 \in 2 .. M /\ i + 1 \in 1 .. M /\ (i + 1) - 1 = i /\ ~(i + 1 <= N)
          BY <1>1, <2>5, <4>2
        <5>2. g[i + 1] = g[i] \o tt[i + 1] /\ tt[i + 1] = <<>> /\ g[i] = <<>>
          BY <1>1, <2>3, <3>2, <4>2, <5>1
        <5>3. <<>> \o <<>> = <<>>
          OBVIOUS
        <5>4. g[i + 1] = <<>>
          BY <5>2, <5>3
        <5> QED
          BY <5>1, <5>4
      <4> QED
        BY <4>1, <4>2
    <3> HIDE DEF S
    <3>3. \A i \in 0 .. M : i \in S
      BY <1>1, <3>1, <3>2, InductUpTo
    <3>4. g[M] = <<>>
      <4>1. M \in 0 .. M
        BY <1>1
      <4> QED
        BY <1>3, <3>3, <4>1 DEF S
    <3>5. FlattenSeq(ss) = ss /\ ss = <<>>
      <4>1. Len(ss) = 0 /\ ss \in [1 .. 0 -> Seq(A)]
        BY <1>1, <2>5 DEF N
      <4>2. ss = <<>>
        <5>1. 1 .. 0 = {}
          OBVIOUS
        <5> DEFINE V == Seq(A)
        <5> HIDE DEF V
        <5>2. ss \in [{} -> V]
          BY <4>1, <5>1 DEF V
        <5> QED
          BY <5>2
      <4> QED
        BY <4>1, <4>2, Zenon DEF FlattenSeq
    <3> QED
      BY <2>2, <3>4, <3>5
  <2>6. CASE N # 0
    <3>1. N \in Nat \ {0}
      BY <1>1, <2>6
    <3>2. PICK f : FlattenSeq(ss) = f[N] /\ Flattens(f, A, N, ss)
      <4> HIDE DEF N
      <4> QED
        BY <1>1, <3>1, FlattenDefined
    <3>3. /\ f[1] = ss[1] /\ \A i \in 1 .. N : f[i] \in Seq(A)
          /\ \A i \in 2 .. N : f[i] = f[i - 1] \o ss[i]
      BY <3>2, Zenon DEF Flattens
    <3> HIDE DEF N, M
    <3> DEFINE S == {i \in 1 .. M : g[i] = IF i <= N THEN f[i] ELSE f[N]} \cup {0}
    <3>4. 0 \in S /\ 1 \in S
      <4>1. 1 \in 1 .. M /\ 1 <= N /\ tt[1] = ss[1]
        BY <1>1, <2>1, <3>1
      <4> QED
        BY <2>3, <3>3, <4>1
    <3>5. ASSUME NEW i \in 0 .. M - 1, i \in S PROVE i + 1 \in S
      <4>1. CASE i = 0
        BY <3>4, <4>1
      <4>2. CASE i # 0
        <5>1. i + 1 \in 2 .. M /\ i + 1 \in 1 .. M /\ (i + 1) - 1 = i
          BY <1>1, <4>2
        <5>2. g[i + 1] = g[i] \o tt[i + 1] /\ g[i] = IF i <= N THEN f[i] ELSE f[N]
          BY <2>3, <3>5, <4>2, <5>1
        <5>3. CASE i + 1 <= N
          <6>1. i <= N /\ i + 1 \in 2 .. N /\ tt[i + 1] = ss[i + 1]
            BY <1>1, <4>2, <5>1, <5>3
          <6>2. f[i + 1] = f[i] \o ss[i + 1]
            BY <3>3, <5>1, <6>1
          <6>3. g[i + 1] = f[i + 1]
            BY <5>2, <6>1, <6>2
          <6> QED
            BY <5>1, <5>3, <6>3
        <5>4. CASE ~(i + 1 <= N)
          <6>1. tt[i + 1] = <<>> /\ g[i] = f[N]
            <7>1. tt[i + 1] = <<>>
              BY <1>1, <5>1, <5>4
            <7>2. i = N \/ ~(i <= N)
              BY <1>1, <5>4
            <7> QED
              BY <5>2, <7>1, <7>2
          <6>2. f[N] \in Seq(A)
            <7>1. N \in 1 .. N
              BY <3>1
            <7> QED
              BY <3>3, <7>1
          <6>3. g[i + 1] = f[N]
            BY <2>4, <5>2, <6>1, <6>2
          <6> QED
            BY <5>1, <5>4, <6>3
        <5> QED
          BY <5>3, <5>4
      <4> QED
        BY <4>1, <4>2
    <3> HIDE DEF S
    <3>6. \A i \in 0 .. M : i \in S
      BY <1>1, <3>4, <3>5, InductUpTo
    <3>7. g[M] = f[N]
      <4>1. M \in 0 .. M /\ (M <= N => M = N)
        BY <1>1
      <4> QED
        BY <1>3, <3>6, <4>1 DEF S
    <3> QED
      BY <2>2, <3>2, <3>7
  <2> QED
    BY <2>5, <2>6
<1> QED
  BY <1>2, <1>3

-----------------------------------------------------------------------------
(* The nodes of a file, one around the other *)

\* Each node of a tree is in an earlier one, and F says what is at a node.
Descends(up, F, U, N) ==
  \A k \in 1 .. N : up[k] \in 0 .. k - 1 /\ \A u \in U : F[<<k, u>>] \in U
Descent(g, up, A, F, U, N) ==
  g \in [0 .. N -> U] /\ g[0] = A /\ \A k \in 1 .. N : g[k] = F[<<k, g[up[k]]>>]

\* A function on a tree: what it is at a node depends on what it is at the one around.
LEMMA DescentExists ==
  ASSUME NEW U, NEW A \in U, NEW N \in Nat, NEW up, NEW F, Descends(up, F, U, N)
  PROVE  \E g : Descent(g, up, A, F, U, N)
<1> DEFINE Fits(g, n) == g[0] = A /\ \A k \in 1 .. n : g[k] = F[<<k, g[up[k]]>>]
           S == {n \in Nat : \E g \in [0 .. n -> U] : Fits(g, n)}
<1>0. \A k \in 1 .. N : up[k] \in 0 .. k - 1 /\ \A u \in U : F[<<k, u>>] \in U
  BY DEF Descends
<1>1. 0 \in S
  <2> DEFINE g == [k \in 0 .. 0 |-> A]
  <2>1. g \in [0 .. 0 -> U] /\ Fits(g, 0)
    OBVIOUS
  <2> QED
    BY <2>1
<1>2. ASSUME NEW n \in 0 .. N - 1, n \in S PROVE n + 1 \in S
  <2>1. PICK g \in [0 .. n -> U] : Fits(g, n)
    BY <1>2
  <2>2. n + 1 \in 1 .. N /\ n \in Nat /\ up[n + 1] \in 0 .. n
    BY <1>0
  <2> DEFINE x == F[<<n + 1, g[up[n + 1]]>>]
             h == [k \in 0 .. n + 1 |-> IF k = n + 1 THEN x ELSE g[k]]
  <2>3. x \in U
    BY <1>0, <2>2
  <2> HIDE DEF x
  <2>4. h \in [0 .. n + 1 -> U]
    BY <2>3
  <2>5. \A k \in 0 .. n : h[k] = g[k]
    BY <2>2
  <2>6. h[n + 1] = x
    BY <2>2
  <2> HIDE DEF h
  <2>7. ASSUME NEW k \in 1 .. n + 1 PROVE h[k] = F[<<k, h[up[k]]>>]
    <3>1. CASE k = n + 1
      BY <2>2, <2>5, <2>6, <3>1 DEF x
    <3>2. CASE k \in 1 .. n
      <4>1. k \in 1 .. N /\ k \in 0 .. n
        BY <3>2
      <4>2. up[k] \in 0 .. n
        BY <1>0, <3>2, <4>1
      <4> QED
        BY <2>1, <2>5, <3>2, <4>1, <4>2
    <3> QED
      BY <3>1, <3>2
  <2>8. Fits(h, n + 1)
    BY <2>1, <2>5, <2>7
  <2> HIDE DEF Fits
  <2>9. n + 1 \in Nat
    BY <2>2
  <2> DEFINE m == n + 1
  <2>10. h \in [0 .. m -> U] /\ Fits(h, m) /\ m \in Nat
    BY <2>4, <2>8, <2>9
  <2> HIDE DEF m
  <2>11. m \in S
    BY <2>10
  <2> QED
    BY <2>11 DEF m
<1> HIDE DEF S
<1>3. \A n \in 0 .. N : n \in S
  BY <1>1, <1>2, InductUpTo
<1>4. N \in S
  BY <1>3
<1> QED
  BY <1>4 DEF S, Descent

\* What such a function is on every node.
LEMMA DescentStays ==
  ASSUME NEW U, NEW N \in Nat, NEW up, NEW F, Descends(up, F, U, N), NEW h, h[0] \in U,
         \A k \in 1 .. N : h[up[k]] \in U => h[k] = F[<<k, h[up[k]]>>]
  PROVE  \A k \in 0 .. N : h[k] \in U
<1> DEFINE S == {n \in Nat : \A k \in 0 .. n : h[k] \in U}
<1>1. 0 \in S
  OBVIOUS
<1>2. ASSUME NEW n \in 0 .. N - 1, n \in S PROVE n + 1 \in S
  <2>1. n + 1 \in 1 .. N /\ up[n + 1] \in 0 .. n
    BY DEF Descends
  <2>2. h[up[n + 1]] \in U
    BY <1>2, <2>1
  <2>3. h[n + 1] \in U
    BY <2>1, <2>2 DEF Descends
  <2> QED
    BY <1>2, <2>3
<1> HIDE DEF S
<1>3. \A n \in 0 .. N : n \in S
  BY <1>1, <1>2, InductUpTo
<1>4. N \in S
  BY <1>3
<1> QED
  BY <1>4 DEF S
=============================================================================
