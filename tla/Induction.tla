----------------------------- MODULE Induction -----------------------------
(***************************************************************************)
(* Induction over naturals and finite sets, and recursive definitions, in  *)
(* terms of sets and functions: the predicate of an induction is the set   *)
(* of values that satisfy it, the step of a recursion is a function.       *)
(* These are the facts the proofs about folds, walks and windows rest on.  *)
(***************************************************************************)
EXTENDS Naturals, FiniteSets, FiniteSetTheorems, WellFoundedInduction, TLAPS

\* Every non-empty set of naturals has a least element.
LEMMA LeastNatural ==
  ASSUME NEW T \in SUBSET Nat, T # {}
  PROVE  \E n \in T : \A m \in T : n <= m
  <1>1. \E R : /\ IsWellFoundedOn(R, Nat)
               /\ \A m, n \in Nat : m < n => <<m, n>> \in R
    <2>1. \A m, n \in Nat : m < n => <<m, n>> \in OpToRel(<, Nat)
      BY DEF OpToRel
    <2>2. QED
      BY <2>1, NatLessThanWellFounded, Zenon
  <1>2. PICK R : /\ IsWellFoundedOn(R, Nat)
                 /\ \A m, n \in Nat : m < n => <<m, n>> \in R
    BY <1>1
  <1>3. T \subseteq Nat /\ IsWellFoundedOn(R, Nat)
    BY <1>2
  <1>4. \E x \in T : \A y \in T : ~(<<y, x>> \in R)
    BY <1>3, WFMin
  <1>5. PICK x \in T : \A y \in T : ~(<<y, x>> \in R)
    BY <1>4
  <1>6. \A y \in T : x <= y
    <2> TAKE y \in T
    <2>1. x \in Nat /\ y \in Nat
      BY <1>3
    <2>2. ~(y < x)
      BY <1>2, <1>5, <2>1
    <2>3. QED
      BY <2>1, <2>2
  <1>7. QED
    BY <1>6

\* Induction over the naturals.
LEMMA NaturalsBySteps ==
  ASSUME NEW T, 0 \in T, \A n \in Nat : n \in T => n + 1 \in T
  PROVE  \A n \in Nat : n \in T
  <1> DEFINE Missing == Nat \ T
  <1>1. SUFFICES ASSUME Missing # {} PROVE FALSE
    OBVIOUS
  <1>2. PICK n \in Missing : \A m \in Missing : n <= m
    BY <1>1, LeastNatural
  <1>3. n - 1 \in Nat /\ n - 1 \in T
    BY <1>2
  <1>4. QED
    BY <1>2, <1>3

\* A value and the step from each value to the next determine a sequence.
IsIteration(g, S, x, f) ==
  /\ g \in [Nat -> S]
  /\ g[0] = x
  /\ \A n \in Nat : g[n + 1] = f[n + 1][g[n]]

LEMMA Iterates ==
  ASSUME NEW S, NEW x \in S, NEW f \in [Nat -> [S -> S]]
  PROVE  \E g : IsIteration(g, S, x, f)
  <1> DEFINE Upto(n, g) == /\ g \in [0..n -> S]
                           /\ g[0] = x
                           /\ \A k \in 0..n : k # 0 => g[k] = f[k][g[k - 1]]
             T == {n \in Nat : \E g : Upto(n, g)}
             U == {n \in Nat : \A g, h :
                     Upto(n, g) /\ Upto(n + 1, h) => g[n] = h[n]}
             G(n) == CHOOSE g : Upto(n, g)
  <1>1. \A n \in Nat : n \in T
    <2>1. Upto(0, [k \in 0..0 |-> x])
      OBVIOUS
    <2>2. ASSUME NEW n \in Nat, n \in T PROVE n + 1 \in T
      <3>1. PICK g : Upto(n, g)
        BY <2>2
      <3> DEFINE h == [k \in 0..n+1 |-> IF k = n + 1 THEN f[n + 1][g[n]] ELSE g[k]]
      <3>2. Upto(n + 1, h)
        BY <3>1
      <3> HIDE DEF Upto, h
      <3>3. QED
        BY <3>2
    <2>3. 0 \in T
      BY <2>1
    <2> HIDE DEF T
    <2>4. QED
      BY <2>2, <2>3, NaturalsBySteps
  <1>2. \A n \in Nat : n \in U
    <2>1. 0 \in U
      OBVIOUS
    <2>2. ASSUME NEW n \in Nat, n \in U PROVE n + 1 \in U
      <3> SUFFICES ASSUME NEW g, NEW h, Upto(n + 1, g), Upto(n + 1 + 1, h)
                   PROVE  g[n + 1] = h[n + 1]
        OBVIOUS
      <3> DEFINE g0 == [k \in 0..n |-> g[k]]
                 h0 == [k \in 0..n+1 |-> h[k]]
      <3>1. Upto(n, g0)
        OBVIOUS
      <3>2. Upto(n + 1, h0)
        OBVIOUS
      <3>3. g0[n] = h0[n]
        <4> HIDE DEF Upto, g0, h0
        <4> QED BY <2>2, <3>1, <3>2
      <3>4. n + 1 \in 0..n+1 /\ n + 1 # 0 /\ (n + 1) - 1 = n /\ n + 1 \in 0..n+1+1
        OBVIOUS
      <3>5. g[n + 1] = f[n + 1][g[n]] /\ h[n + 1] = f[n + 1][h[n]]
        BY <3>4
      <3>6. QED
        BY <3>3, <3>5
    <2> HIDE DEF U
    <2>3. QED
      BY <2>1, <2>2, NaturalsBySteps
  <1>3. \A n \in Nat : Upto(n, G(n))
    <2> HIDE DEF Upto
    <2> QED BY <1>1
  <1>4. \A n \in Nat : G(n)[n] = G(n + 1)[n]
    <2> HIDE DEF Upto, G
    <2> QED BY <1>2, <1>3
  <1> DEFINE res == [n \in Nat |-> G(n)[n]]
  <1>5. res \in [Nat -> S] /\ res[0] = x
    <2> HIDE DEF G
    <2>1. \A n \in Nat : G(n)[n] \in S
      BY <1>3
    <2>2. G(0)[0] = x
      BY <1>3
    <2>3. QED
      BY <2>1, <2>2
  <1>6. ASSUME NEW n \in Nat PROVE res[n + 1] = f[n + 1][res[n]]
    <2> HIDE DEF G
    <2>1. n + 1 \in Nat /\ n + 1 \in 0..n+1 /\ n + 1 # 0 /\ (n + 1) - 1 = n
      OBVIOUS
    <2>2. G(n + 1)[n + 1] = f[n + 1][G(n + 1)[n]]
      BY <1>3, <2>1
    <2>3. QED
      BY <1>4, <2>1, <2>2
  <1> HIDE DEF res
  <1>7. IsIteration(res, S, x, f)
    BY <1>5, <1>6 DEF IsIteration
  <1>8. QED
    BY <1>7

\* A recursion over 0..n has a value at every place, and whatever satisfies its
\* equations is that value.
Walk(g, S, x, n, f) ==
  /\ g \in [0..n -> S]
  /\ g[0] = x
  /\ \A k \in 1..n : g[k] = f[k][g[k - 1]]

Obeys(h, S, x, n, f) ==
  /\ h[0] = x
  /\ \A k \in 1..n : h[k - 1] \in S => h[k] = f[k][h[k - 1]]

LEMMA Walks ==
  ASSUME NEW S, NEW x \in S, NEW n \in Nat, NEW f \in [1..n -> [S -> S]]
  PROVE  \E g : /\ Walk(g, S, x, n, f)
                /\ \A h : Obeys(h, S, x, n, f) => \A k \in 0..n : h[k] = g[k]
  <1> DEFINE F == [k \in Nat |-> IF k \in 1..n THEN f[k] ELSE [s \in S |-> s]]
  <1>1. F \in [Nat -> [S -> S]]
    OBVIOUS
  <1>2. PICK w : IsIteration(w, S, x, F)
    <2> HIDE DEF F
    <2> QED BY <1>1, Iterates
  <1> DEFINE g == [k \in 0..n |-> w[k]]
  <1>3. w \in [Nat -> S] /\ w[0] = x /\ \A k \in Nat : w[k + 1] = F[k + 1][w[k]]
    <2> HIDE DEF F
    <2> QED BY <1>2 DEF IsIteration
  <1>4. g \in [0..n -> S] /\ g[0] = x
    BY <1>3
  <1>5. ASSUME NEW k \in 1..n PROVE g[k] = f[k][g[k - 1]]
    <2>1. k - 1 \in Nat /\ (k - 1) + 1 = k /\ k \in 0..n /\ k - 1 \in 0..n
      OBVIOUS
    <2>2. w[k] = F[k][w[k - 1]]
      <3> HIDE DEF F
      <3> QED BY <1>3, <2>1
    <2>3. F[k] = f[k]
      OBVIOUS
    <2>4. QED
      BY <2>1, <2>2, <2>3
  <1>6. ASSUME NEW h, Obeys(h, S, x, n, f)
        PROVE  \A k \in 0..n : h[k] = g[k]
    <2> DEFINE T == {k \in Nat : k \in 0..n => h[k] = g[k]}
    <2> HIDE DEF g
    <2>1. 0 \in T
      BY <1>4, <1>6 DEF Obeys
    <2>2. ASSUME NEW k \in Nat, k \in T PROVE k + 1 \in T
      <3> SUFFICES ASSUME k + 1 \in 0..n PROVE h[k + 1] = g[k + 1]
        OBVIOUS
      <3>1. k + 1 \in 1..n /\ (k + 1) - 1 = k /\ k \in 0..n
        OBVIOUS
      <3>2. h[k] = g[k] /\ g[k] \in S
        BY <1>4, <2>2, <3>1
      <3>3. h[k + 1] = f[k + 1][h[k]]
        BY <1>6, <3>1, <3>2 DEF Obeys
      <3>4. g[k + 1] = f[k + 1][g[k]]
        BY <1>5, <3>1
      <3>5. QED
        BY <3>2, <3>3, <3>4
    <2>3. \A k \in Nat : k \in T
      <3> HIDE DEF T
      <3> QED BY <2>1, <2>2, NaturalsBySteps
    <2>4. QED
      BY <2>3
  <1> HIDE DEF g
  <1>7. Walk(g, S, x, n, f)
    BY <1>4, <1>5 DEF Walk
  <1>8. QED
    BY <1>6, <1>7

\* An element less makes a finite set one smaller.
LEMMA OneLess ==
  ASSUME NEW A, IsFiniteSet(A), NEW x \in A
  PROVE  IsFiniteSet(A \ {x}) /\ Cardinality(A \ {x}) = Cardinality(A) - 1
  BY FS_RemoveElement

\* Induction over a finite set, an element at a time.
LEMMA FiniteSetsBySteps ==
  ASSUME NEW S, IsFiniteSet(S), NEW T, {} \in T,
         \A A \in SUBSET S : \A x \in S \ A : A \in T => A \union {x} \in T
  PROVE  \A A \in SUBSET S : A \in T
  <1> DEFINE P == {n \in Nat : \A A \in SUBSET S : Cardinality(A) = n => A \in T}
  <1>1. \A A \in SUBSET S : IsFiniteSet(A) /\ Cardinality(A) \in Nat
    BY FS_Subset, FS_CardinalityType
  <1>2. 0 \in P
    BY <1>1, FS_EmptySet
  <1>3. ASSUME NEW n \in Nat, n \in P PROVE n + 1 \in P
    <2> SUFFICES ASSUME NEW A \in SUBSET S, Cardinality(A) = n + 1 PROVE A \in T
      OBVIOUS
    <2>1. A # {}
      BY FS_EmptySet
    <2>2. PICK x \in A : TRUE
      BY <2>1
    <2>a. IsFiniteSet(A)
      BY <1>1
    <2>b. Cardinality(A \ {x}) = Cardinality(A) - 1
      BY <2>a, <2>2, OneLess
    <2>3. Cardinality(A \ {x}) = n
      BY <2>b
    <2>4. A \ {x} \in T
      BY <1>3, <2>3
    <2>5. A = (A \ {x}) \union {x}
      BY <2>2
    <2>6. x \in S \ (A \ {x}) /\ A \ {x} \in SUBSET S
      BY <2>2
    <2>7. QED
      BY <2>4, <2>5, <2>6
  <1>4. \A n \in Nat : n \in P
    <2> HIDE DEF P
    <2> QED BY <1>2, <1>3, NaturalsBySteps
  <1>5. QED
    BY <1>1, <1>4

\* Induction over a finite set, an element less at a time.
LEMMA SetsByRemoval ==
  ASSUME NEW S, IsFiniteSet(S), NEW T, {} \in T,
         NEW pick, \A A \in (SUBSET S) \ {{}} : pick[A] \in A,
         \A A \in (SUBSET S) \ {{}} : A \ {pick[A]} \in T => A \in T
  PROVE  \A A \in SUBSET S : A \in T
  <1> DEFINE P == {n \in Nat : \A A \in SUBSET S : Cardinality(A) = n => A \in T}
  <1>1. \A A \in SUBSET S : IsFiniteSet(A) /\ Cardinality(A) \in Nat
    BY FS_Subset, FS_CardinalityType
  <1>2. 0 \in P
    BY <1>1, FS_EmptySet
  <1>3. ASSUME NEW n \in Nat, n \in P PROVE n + 1 \in P
    <2> SUFFICES ASSUME NEW A \in SUBSET S, Cardinality(A) = n + 1 PROVE A \in T
      OBVIOUS
    <2>0. Cardinality({}) = 0 /\ n + 1 # 0
      BY FS_EmptySet
    <2>1. A # {}
      BY <2>0
    <2>2. pick[A] \in A
      BY <2>1
    <2>a. IsFiniteSet(A)
      BY <1>1
    <2>b. Cardinality(A \ {pick[A]}) = Cardinality(A) - 1
      BY <2>a, <2>2, OneLess
    <2>3. Cardinality(A \ {pick[A]}) = n
      BY <2>b
    <2>4. A \ {pick[A]} \in T
      BY <1>3, <2>3
    <2>5. QED
      BY <2>1, <2>4
  <1>4. \A n \in Nat : n \in P
    <2> HIDE DEF P
    <2> QED BY <1>2, <1>3, NaturalsBySteps
  <1>5. QED
    BY <1>1, <1>4

\* A fold over the subsets of a finite set that takes its elements in the order
\* of pick is well defined.
IsFold(g, S, V, base, f, pick) ==
  /\ g \in [SUBSET S -> V]
  /\ g = [A \in SUBSET S |-> IF A = {} THEN base
                             ELSE f[pick[A]][g[A \ {pick[A]}]]]

LEMMA FoldsExist ==
  ASSUME NEW S, IsFiniteSet(S), NEW V, NEW base \in V,
         NEW f \in [S -> [V -> V]],
         NEW pick \in [(SUBSET S) \ {{}} -> S],
         \A A \in (SUBSET S) \ {{}} : pick[A] \in A
  PROVE  \E g : IsFold(g, S, V, base, f, pick)
  <1> DEFINE W == [SUBSET S -> V]
             Step(w) == [A \in SUBSET S |-> IF A = {} THEN base
                                            ELSE f[pick[A]][w[A \ {pick[A]}]]]
             step == [w \in W |-> Step(w)]
             F == [n \in Nat |-> step]
             start == [A \in SUBSET S |-> base]
  <1>1. step \in [W -> W] /\ start \in W
    <2>1. \A w \in W : Step(w) \in W
      OBVIOUS
    <2>2. start \in W
      OBVIOUS
    <2> HIDE DEF W, Step, start
    <2>3. QED
      BY <2>1, <2>2
  <1>2. F \in [Nat -> [W -> W]]
    <2> HIDE DEF W, step
    <2> QED BY <1>1
  <1>3. PICK g : IsIteration(g, W, start, F)
    <2>1. start \in W
      BY <1>1
    <2> HIDE DEF W, F, start
    <2>2. QED
      BY <1>2, <2>1, Iterates
  <1>4. \A n \in Nat : g[n] \in W /\ g[n + 1] = Step(g[n])
    <2> SUFFICES ASSUME NEW n \in Nat PROVE g[n] \in W /\ g[n + 1] = Step(g[n])
      OBVIOUS
    <2>1. g[n] \in W
      <3> HIDE DEF W
      <3> QED BY <1>3 DEF IsIteration
    <2>2. g[n + 1] = step[g[n]]
      <3> HIDE DEF W, step
      <3> QED BY <1>3 DEF IsIteration
    <2>3. step[g[n]] = Step(g[n])
      <3> HIDE DEF W, Step
      <3> QED BY <2>1
    <2>4. QED
      BY <2>1, <2>2, <2>3
  <1> DEFINE P == {n \in Nat : \A A \in SUBSET S :
                     Cardinality(A) <= n => g[n + 1][A] = g[n][A]}
  <1>5. \A A \in SUBSET S : IsFiniteSet(A) /\ Cardinality(A) \in Nat
    BY FS_Subset, FS_CardinalityType
  <1>6. 0 \in P
    <2> SUFFICES ASSUME NEW A \in SUBSET S, Cardinality(A) <= 0
                 PROVE  g[0 + 1][A] = g[0][A]
      OBVIOUS
    <2>1. A = {}
      BY <1>5, FS_EmptySet
    <2>2. g[0 + 1] = Step(g[0]) /\ g[0] = start
      <3> HIDE DEF Step, W, start
      <3> QED BY <1>3, <1>4 DEF IsIteration
    <2>3. {} \in SUBSET S
      OBVIOUS
    <2>4. QED
      BY <2>1, <2>2, <2>3
  <1>7. ASSUME NEW n \in Nat, n \in P PROVE n + 1 \in P
    <2> SUFFICES ASSUME NEW A \in SUBSET S, Cardinality(A) <= n + 1
                 PROVE  g[n + 1 + 1][A] = g[n + 1][A]
      OBVIOUS
    <2>1. /\ g[n + 1 + 1][A] = Step(g[n + 1])[A]
          /\ g[n + 1][A] = Step(g[n])[A]
      <3> HIDE DEF Step, W
      <3> QED BY <1>4
    <2>2. CASE A = {}
      BY <2>1, <2>2
    <2>3. CASE A # {}
      <3>1. pick[A] \in A
        BY <2>3
      <3> DEFINE B == A \ {pick[A]}
      <3>a. B \in SUBSET S
        OBVIOUS
      <3>b. IsFiniteSet(A) /\ Cardinality(A) \in Nat
        BY <1>5
      <3>c. Cardinality(B) = Cardinality(A) - 1
        BY <3>1, <3>b, OneLess
      <3>2. Cardinality(B) <= n /\ B \in SUBSET S
        BY <3>a, <3>b, <3>c
      <3>3. g[n + 1][A \ {pick[A]}] = g[n][A \ {pick[A]}]
        BY <1>7, <3>2
      <3>4. QED
        BY <2>1, <2>3, <3>3
    <2>4. QED
      BY <2>2, <2>3
  <1>8. \A n \in Nat : n \in P
    <2> HIDE DEF P
    <2> QED BY <1>6, <1>7, NaturalsBySteps
  <1> DEFINE N == Cardinality(S)
  <1>9. \A A \in SUBSET S : g[N + 1][A] = g[N][A]
    <2>1. N \in Nat /\ \A A \in SUBSET S : Cardinality(A) <= N
      BY FS_CardinalityType, FS_Subset
    <2>2. QED
      BY <1>8, <2>1
  <1>10. g[N] = Step(g[N])
    <2>1. N \in Nat
      BY FS_CardinalityType
    <2>2. g[N] \in W /\ g[N + 1] \in W /\ g[N + 1] = Step(g[N])
      <3> HIDE DEF Step, W
      <3> QED BY <1>4, <2>1
    <2>3. g[N + 1] = g[N]
      <3> HIDE DEF Step, N
      <3> QED BY <1>9, <2>2
    <2>4. QED
      BY <2>2, <2>3
  <1>11. g[N] \in W
    <2> HIDE DEF W
    <2> QED BY <1>4, FS_CardinalityType
  <1>12. IsFold(g[N], S, V, base, f, pick)
    BY <1>10, <1>11 DEF IsFold
  <1>13. QED
    BY <1>12

=============================================================================
