--------------------------- MODULE RecursionFacts ---------------------------
(***************************************************************************)
(* What the proofs of the project need to know about natural numbers and   *)
(* recursive functions.  A recursive function is the choice of a function  *)
(* that satisfies its equation, so its value is known only once one is     *)
(* known to exist.  Induction is stated with a set instead of a predicate, *)
(* and the step of a recursion is a function instead of an operator, for a *)
(* set and a function can be given when a lemma is used.                   *)
(***************************************************************************)
EXTENDS Integers, FiniteSetsExt, WellFoundedInduction, TLAPS

\* A set of natural numbers has a least element.
LEMMA LeastNat ==
  ASSUME NEW S, S \subseteq Nat, S # {}
  PROVE  \E x \in S : \A y \in S : x <= y
<1>1. \A x, y \in Nat : <<y, x>> \in OpToRel(<, Nat) <=> y < x
  BY DEF OpToRel
<1>2. \E x \in S : \A y \in S : ~ (<<y, x>> \in OpToRel(<, Nat))
  BY WFMin, NatLessThanWellFounded
<1>3. PICK x \in S : \A y \in S : ~ (<<y, x>> \in OpToRel(<, Nat))
  BY <1>2
<1>4. ASSUME NEW y \in S
      PROVE  x <= y
  <2>1. ~ (<<y, x>> \in OpToRel(<, Nat))
    BY <1>3
  <2>2. x \in Nat /\ y \in Nat
    OBVIOUS
  <2>3. ~ (y < x)
    BY <1>1, <2>1, <2>2
  <2> QED
    BY <2>2, <2>3
<1> QED
  BY <1>4

\* Induction: a set with 0 and the successor of each of its numbers holds all.
LEMMA SetInduction ==
  ASSUME NEW P, 0 \in P, \A n \in Nat : n \in P => n + 1 \in P
  PROVE  \A n \in Nat : n \in P
<1> DEFINE S == Nat \ P
<1>1. SUFFICES ASSUME S # {}
               PROVE  FALSE
  OBVIOUS
<1>2. S \subseteq Nat
  OBVIOUS
<1>3. PICK x \in S : \A y \in S : x <= y
  <2> HIDE DEF S
  <2> QED
    BY <1>1, <1>2, LeastNat
<1>4. x # 0 /\ x \in Nat /\ x \notin P
  BY <1>3
<1>5. x - 1 \in Nat /\ x - 1 \in P
  BY <1>3, <1>4
<1>6. x - 1 + 1 \in P
  BY <1>5
<1>7. x - 1 + 1 = x
  BY <1>4
<1> QED
  BY <1>4, <1>6, <1>7

\* The same from a up to m.
LEMMA RangeInduction ==
  ASSUME NEW a \in Nat, NEW m \in Nat, NEW Q, a \in Q,
         \A n \in (a + 1) .. m : n - 1 \in Q => n \in Q
  PROVE  \A n \in a .. m : n \in Q
<1> DEFINE P == {d \in Nat : a + d <= m => a + d \in Q}
<1>1. 0 \in P
  OBVIOUS
<1>2. ASSUME NEW d \in Nat, d \in P
      PROVE  d + 1 \in P
  <2>1. SUFFICES ASSUME a + (d + 1) <= m
                 PROVE  a + (d + 1) \in Q
    OBVIOUS
  <2>2. a + (d + 1) \in (a + 1) .. m /\ a + (d + 1) - 1 = a + d /\ a + d <= m
    BY <2>1
  <2>3. a + d \in Q
    BY <1>2, <2>2
  <2> QED
    BY <2>2, <2>3
<1>3. \A d \in Nat : d \in P
  <2> HIDE DEF P
  <2> QED
    BY <1>1, <1>2, SetInduction
<1>4. ASSUME NEW n \in a .. m
      PROVE  n \in Q
  <2>1. n - a \in Nat /\ a + (n - a) = n /\ n <= m
    OBVIOUS
  <2> QED
    BY <1>3, <2>1
<1> QED
  BY <1>4

\* f is defined from a up to m by recursion, with the first value x and step G.
Recursive(f, a, m, x, G) == f = [n \in a .. m |-> IF n = a THEN x ELSE G[n][f[n - 1]]]

\* The values of such a function.
LEMMA RecursionValues ==
  ASSUME NEW a \in Nat, NEW m \in Nat, NEW x, NEW G, NEW f, Recursive(f, a, m, x, G)
  PROVE  /\ a <= m => f[a] = x
         /\ \A n \in (a + 1) .. m : f[n] = G[n][f[n - 1]]
<1>1. ASSUME NEW n \in a .. m
      PROVE  f[n] = IF n = a THEN x ELSE G[n][f[n - 1]]
  <2> DEFINE g == [l \in a .. m |-> IF l = a THEN x ELSE G[l][f[l - 1]]]
  <2>1. f = g
    BY Zenon DEF Recursive
  <2>2. g[n] = IF n = a THEN x ELSE G[n][f[n - 1]]
    BY Zenon
  <2> QED
    BY <2>1, <2>2, Zenon
<1>2. a <= m => a \in a .. m
  OBVIOUS
<1>3. \A n \in (a + 1) .. m : n \in a .. m /\ n # a
  OBVIOUS
<1>4. a <= m => f[a] = x
  BY <1>1, <1>2, Zenon
<1>5. ASSUME NEW n \in (a + 1) .. m
      PROVE  f[n] = G[n][f[n - 1]]
  BY <1>1, <1>3, Zenon
<1> QED
  BY <1>4, <1>5

\* Every solution of a recursion has its values where the steps stay.
LEMMA RecursionStays ==
  ASSUME NEW S, NEW a \in Nat, NEW m \in Nat, NEW x \in S, NEW G \in [Nat -> [S -> S]],
         NEW f, Recursive(f, a, m, x, G)
  PROVE  \A n \in a .. m : f[n] \in S
<1> DEFINE Q == {n \in Nat : n <= m => f[n] \in S}
<1>1. /\ a <= m => f[a] = x
      /\ \A n \in (a + 1) .. m : f[n] = G[n][f[n - 1]]
  BY RecursionValues
<1>2. a \in Q
  BY <1>1
<1>3. ASSUME NEW n \in (a + 1) .. m, n - 1 \in Q
      PROVE  n \in Q
  <2>1. n \in Nat /\ n - 1 <= m
    OBVIOUS
  <2>2. f[n - 1] \in S
    BY <1>3, <2>1
  <2>3. f[n] = G[n][f[n - 1]]
    BY <1>1
  <2> QED
    BY <2>1, <2>2, <2>3
<1>4. \A n \in a .. m : n \in Q
  <2> HIDE DEF Q
  <2> QED
    BY <1>2, <1>3, RangeInduction
<1> QED
  BY <1>4

\* A recursion whose steps stay in a set has a solution.
LEMMA RecursionExists ==
  ASSUME NEW S, NEW a \in Nat, NEW m \in Nat, a <= m,
         NEW x \in S, NEW G \in [Nat -> [S -> S]]
  PROVE  \E f : Recursive(f, a, m, x, G)
<1> DEFINE P == {d \in Nat : \E f : Recursive(f, a, a + d, x, G)}
<1>1. 0 \in P
  <2> DEFINE f == [n \in a .. (a + 0) |-> x]
  <2>1. \A n \in a .. (a + 0) : n = a
    OBVIOUS
  <2>2. f = [n \in a .. (a + 0) |-> IF n = a THEN x ELSE G[n][f[n - 1]]]
    BY <2>1, Zenon
  <2>3. Recursive(f, a, a + 0, x, G)
    BY <2>2, Zenon DEF Recursive
  <2> QED
    BY <2>3
<1>2. ASSUME NEW d \in Nat, d \in P
      PROVE  d + 1 \in P
  <2>1. PICK f : Recursive(f, a, a + d, x, G)
    BY <1>2
  <2> DEFINE e == a + (d + 1)
             g == [n \in a .. e |-> IF n = e THEN G[n][f[n - 1]] ELSE f[n]]
  <2>2. e \in Nat /\ e # a /\ a + d \in Nat
    OBVIOUS
  <2>3. \A n \in a .. e : n # e => n \in a .. (a + d)
    OBVIOUS
  <2>4. \A n \in a .. e : n # a => n - 1 \in a .. e /\ n - 1 # e
    OBVIOUS
  <2> HIDE DEF e
  <2>5. ASSUME NEW n \in a .. e
        PROVE  g[n] = IF n = a THEN x ELSE G[n][g[n - 1]]
    <3>1. n # a => g[n - 1] = f[n - 1]
      BY <2>4, Zenon
    <3>2. CASE n = e
      <4>1. g[n] = G[n][f[n - 1]]
        BY <3>2, Zenon
      <4> QED
        BY <2>2, <3>1, <3>2, <4>1, Zenon
    <3>3. CASE n # e
      <4>1. g[n] = f[n]
        BY <3>3, Zenon
      <4>2. f[n] = IF n = a THEN x ELSE G[n][f[n - 1]]
        <5>1. /\ a <= a + d => f[a] = x
              /\ \A l \in (a + 1) .. (a + d) : f[l] = G[l][f[l - 1]]
          BY <2>1, <2>2, RecursionValues
        <5>2. a <= a + d /\ (n # a => n \in (a + 1) .. (a + d))
          BY <2>3, <3>3
        <5> QED
          BY <5>1, <5>2, Zenon
      <4> QED
        BY <3>1, <4>1, <4>2, Zenon
    <3> QED
      BY <3>2, <3>3
  <2>6. g = [n \in a .. e |-> g[n]]
    BY Zenon
  <2> HIDE DEF g
  <2>7. g = [n \in a .. e |-> IF n = a THEN x ELSE G[n][g[n - 1]]]
    BY <2>5, <2>6, Zenon
  <2>8. Recursive(g, a, e, x, G)
    BY <2>7, Zenon DEF Recursive
  <2>9. d + 1 \in Nat
    OBVIOUS
  <2> QED
    BY <2>8, <2>9 DEF e
<1>3. \A d \in Nat : d \in P
  <2> HIDE DEF P
  <2> QED
    BY <1>1, <1>2, SetInduction
<1>4. m - a \in Nat /\ a + (m - a) = m
  OBVIOUS
<1> QED
  BY <1>3, <1>4
-----------------------------------------------------------------------------
(* Recursion along a measure, for functions whose arguments are not numbers *)

\* What holds of x whenever it holds of all that is smaller holds of all.
LEMMA MeasureInduction ==
  ASSUME NEW D, NEW mu \in [D -> Nat], NEW Q,
         \A x \in D : (\A y \in D : mu[y] < mu[x] => y \in Q) => x \in Q
  PROVE  \A x \in D : x \in Q
<1> DEFINE P == {n \in Nat : \A x \in D : mu[x] < n => x \in Q}
<1>1. 0 \in P
  OBVIOUS
<1>2. ASSUME NEW n \in Nat, n \in P
      PROVE  n + 1 \in P
  <2>1. ASSUME NEW x \in D, mu[x] < n + 1
        PROVE  x \in Q
    <3>1. \A y \in D : mu[y] < mu[x] => mu[y] < n
      BY <2>1
    <3>2. \A y \in D : mu[y] < mu[x] => y \in Q
      BY <1>2, <3>1
    <3> QED
      BY <3>2
  <2> QED
    BY <2>1
<1>3. \A n \in Nat : n \in P
  <2> HIDE DEF P
  <2> QED
    BY <1>1, <1>2, SetInduction
<1>4. ASSUME NEW x \in D
      PROVE  x \in Q
  <2>1. mu[x] \in Nat /\ mu[x] + 1 \in Nat /\ mu[x] < mu[x] + 1
    OBVIOUS
  <2>2. mu[x] + 1 \in P
    <3> HIDE DEF P
    <3> QED
      BY <1>3, <2>1, Zenon
  <2> QED
    BY <2>1, <2>2, Zenon
<1> QED
  BY <1>4

\* A step G[x] from functions on D to values in S that looks at the values for
\* smaller arguments only; mu is the measure, up to M, and S is not empty.
Decreasing(D, S, s, mu, M, G) ==
  /\ s \in S /\ mu \in [D -> Nat] /\ M \in Nat /\ \A x \in D : mu[x] <= M
  /\ G \in [D -> [[D -> S] -> S]]
  /\ \A x \in D : \A g, h \in [D -> S] :
       (\A y \in D : mu[y] < mu[x] => g[y] = h[y]) => G[x][g] = G[x][h]

\* Such a step has a solution.
LEMMA MeasureExists ==
  ASSUME NEW D, NEW S, NEW s, NEW mu, NEW M, NEW G, Decreasing(D, S, s, mu, M, G)
  PROVE  \E f \in [D -> S] : \A x \in D : f[x] = G[x][f]
<1> USE DEF Decreasing
<1> DEFINE Good(g, n) == g \in [D -> S] /\ \A x \in D : mu[x] < n => g[x] = G[x][g]
           P == {n \in Nat : \E g : Good(g, n)}
<1>1. 0 \in P
  <2> DEFINE g == [x \in D |-> s]
  <2>1. g \in [D -> S] /\ \A x \in D : ~ (mu[x] < 0)
    OBVIOUS
  <2> HIDE DEF g
  <2> QED
    BY <2>1, Zenon
<1>2. ASSUME NEW n \in Nat, n \in P
      PROVE  n + 1 \in P
  <2>1. PICK g : Good(g, n)
    BY <1>2, Zenon
  <2> DEFINE h == [x \in D |-> G[x][g]]
  <2>2. h \in [D -> S] /\ \A x \in D : h[x] = G[x][g]
    BY <2>1
  <2> HIDE DEF h
  <2>3. ASSUME NEW x \in D, mu[x] < n + 1
        PROVE  h[x] = G[x][h]
    <3>1. \A y \in D : mu[y] < mu[x] => mu[y] < n
      BY <2>3
    <3>2. \A y \in D : mu[y] < mu[x] => g[y] = h[y]
      BY <2>1, <2>2, <3>1, Zenon
    <3>3. G[x][g] = G[x][h]
      BY <2>1, <2>2, <3>2, Zenon
    <3> QED
      BY <2>2, <3>3, Zenon
  <2>4. Good(h, n + 1)
    BY <2>2, <2>3, Zenon
  <2>5. n + 1 \in Nat
    OBVIOUS
  <2> HIDE DEF Good
  <2> QED
    BY <2>4, <2>5, Zenon
<1>3. \A n \in Nat : n \in P
  <2> HIDE DEF P
  <2> QED
    BY <1>1, <1>2, SetInduction
<1>4. M + 1 \in Nat /\ \A x \in D : mu[x] < M + 1
  OBVIOUS
<1>5. PICK f : Good(f, M + 1)
  BY <1>3, <1>4, Zenon
<1> QED
  BY <1>4, <1>5, Zenon
-----------------------------------------------------------------------------
(* Folds                                                                   *)

\* The recursion of FoldLeft goes from the greatest index down.
LEMMA GreatestIndex ==
  ASSUME NEW n \in Nat, NEW s \in SUBSET (1 .. n), s # {}
  PROVE  /\ Max(s) \in s /\ Max(s) \in 1 .. n /\ \A y \in s : Max(s) >= y
         /\ s \ {Max(s)} \in SUBSET (1 .. n)
         /\ s \ {Max(s)} # {} => Max(s \ {Max(s)}) < Max(s)
<1>1. ASSUME NEW t \in SUBSET (1 .. n), t # {}
      PROVE  Max(t) \in t /\ \A y \in t : Max(t) >= y
  <2> DEFINE R == {n - y : y \in t}
  <2>1. R \subseteq Nat /\ R # {}
    <3>1. \A y \in t : n - y \in Nat
      BY <1>1
    <3>2. PICK y \in t : TRUE
      BY <1>1, Zenon
    <3>3. n - y \in R
      BY Zenon
    <3> QED
      BY <3>1, <3>3, Zenon
  <2>2. PICK r \in R : \A q \in R : r <= q
    <3> HIDE DEF R
    <3> QED
      BY <2>1, LeastNat
  <2>3. PICK x \in t : r = n - x
    BY <2>2
  <2>4. \A y \in t : n - x <= n - y
    <3>1. \A y \in t : n - y \in R
      BY Zenon
    <3> HIDE DEF R
    <3> QED
      BY <2>2, <2>3, <3>1, Zenon
  <2>5. x \in 1 .. n /\ \A y \in t : y \in 1 .. n
    BY <1>1
  <2>6. \A y \in t : x >= y
    BY <2>4, <2>5
  <2> QED
    BY <2>6, Zenon DEF Max
<1> DEFINE m == Max(s)
           t == s \ {m}
<1>2. m \in s /\ \A y \in s : m >= y
  BY <1>1, Zenon
<1>3. m \in 1 .. n /\ t \in SUBSET (1 .. n)
  <2> HIDE DEF m
  <2> QED
    BY <1>2
<1>4. ASSUME t # {}
      PROVE  Max(t) < m
  <2>1. Max(t) \in t
    BY <1>1, <1>3, <1>4, Zenon
  <2> DEFINE q == Max(t)
  <2> HIDE DEF q, m
  <2>2. q \in s /\ q # m
    BY <2>1 DEF q
  <2>3. q \in 1 .. n /\ m >= q
    BY <1>2, <2>2
  <2>4. q < m
    BY <1>3, <2>2, <2>3
  <2> QED
    BY <2>4, Zenon DEF q, m
<1> QED
  BY <1>2, <1>3, <1>4, Zenon

\* How far a set of indices reaches.
Reach(s) == IF s = {} THEN 0 ELSE Max(s)

LEMMA ReachFacts ==
  ASSUME NEW n \in Nat, NEW s \in SUBSET (1 .. n)
  PROVE  /\ Reach(s) \in Nat /\ Reach(s) <= n
         /\ s # {} => /\ s \ {Max(s)} \in SUBSET (1 .. n) /\ Max(s) \in 1 .. n
                      /\ Reach(s \ {Max(s)}) < Reach(s)
<1>1. CASE s = {}
  <2>1. 0 \in Nat /\ 0 <= n
    OBVIOUS
  <2> QED
    BY <1>1, <2>1, Zenon DEF Reach
<1>2. CASE s # {}
  <2> DEFINE m == Max(s)
             t == s \ {m}
  <2>1. m \in 1 .. n /\ t \in SUBSET (1 .. n) /\ (t # {} => Max(t) < m)
    BY <1>2, GreatestIndex, Zenon
  <2>2. m \in Nat /\ m <= n /\ 0 < m
    <3> HIDE DEF m
    <3> QED
      BY <2>1
  <2>3. Reach(t) < m /\ Reach(s) = m
    BY <1>2, <2>1, <2>2, Zenon DEF Reach
  <2> QED
    BY <2>1, <2>2, <2>3, Zenon
<1> QED
  BY <1>1, <1>2

\* What the steps preserve, the fold preserves.
LEMMA FoldStays ==
  ASSUME NEW S, NEW n \in Nat, NEW h, h[{}] \in S,
         \A s \in SUBSET (1 .. n) : s # {} /\ h[s \ {Max(s)}] \in S => h[s] \in S
  PROVE  h[1 .. n] \in S
<1> DEFINE D == SUBSET (1 .. n)
           mu == [s \in D |-> Reach(s)]
           Q == {s \in D : h[s] \in S}
<1>1. mu \in [D -> Nat] /\ \A s \in D : mu[s] = Reach(s)
  BY ReachFacts, Zenon
<1>2. ASSUME NEW s \in D, \A y \in D : mu[y] < mu[s] => y \in Q
      PROVE  s \in Q
  <2>1. CASE s = {}
    BY <2>1, Zenon
  <2>2. CASE s # {}
    <3>1. s \ {Max(s)} \in D /\ Reach(s \ {Max(s)}) < Reach(s)
      BY <2>2, ReachFacts, Zenon
    <3>2. s \ {Max(s)} \in Q
      <4> HIDE DEF D, mu, Q
      <4> QED
        BY <1>1, <1>2, <3>1, Zenon
    <3> QED
      BY <2>2, <3>2, Zenon
  <2> QED
    BY <2>1, <2>2
<1>3. \A s \in D : s \in Q
  <2> HIDE DEF D, mu, Q
  <2> QED
    BY <1>1, <1>2, MeasureInduction
<1>4. 1 .. n \in D
  OBVIOUS
<1> QED
  BY <1>3, <1>4, Zenon

\* h is the fold of the steps G from x on, for each set of the first n indices.
Folds(S, n, x, G, h) ==
  /\ h \in [SUBSET (1 .. n) -> S]
  /\ \A s \in SUBSET (1 .. n) : h[s] = IF s = {} THEN x ELSE G[Max(s)][h[s \ {Max(s)}]]

\* A fold whose steps stay in a set is defined.
LEMMA FoldExists ==
  ASSUME NEW S, NEW n \in Nat, NEW x \in S, NEW G \in [1 .. n -> [S -> S]]
  PROVE  \E h : Folds(S, n, x, G, h)
<1> DEFINE D == SUBSET (1 .. n)
           mu == [s \in D |-> Reach(s)]
           B(h, s) == IF s = {} THEN x ELSE G[Max(s)][h[s \ {Max(s)}]]
           E == [s \in D |-> [h \in [D -> S] |-> B(h, s)]]
<1>1. mu \in [D -> Nat] /\ \A s \in D : mu[s] = Reach(s) /\ mu[s] <= n
  BY ReachFacts, Zenon
<1>2. ASSUME NEW s \in D, NEW h \in [D -> S]
      PROVE  B(h, s) \in S
  <2>1. CASE s = {}
    BY <2>1, Zenon
  <2>2. CASE s # {}
    <3>1. s \ {Max(s)} \in D /\ Max(s) \in 1 .. n
      BY <2>2, ReachFacts, Zenon
    <3> HIDE DEF D
    <3>2. h[s \ {Max(s)}] \in S /\ G[Max(s)] \in [S -> S]
      BY <3>1, Zenon
    <3>3. G[Max(s)][h[s \ {Max(s)}]] \in S
      BY <3>2, Zenon
    <3> QED
      BY <2>2, <3>3, Zenon
  <2> QED
    BY <2>1, <2>2
<1>3. ASSUME NEW s \in D, NEW g \in [D -> S], NEW h \in [D -> S],
             \A y \in D : mu[y] < mu[s] => g[y] = h[y]
      PROVE  B(g, s) = B(h, s)
  <2>1. CASE s = {}
    BY <2>1, Zenon
  <2>2. CASE s # {}
    <3>1. s \ {Max(s)} \in D /\ Reach(s \ {Max(s)}) < Reach(s)
      BY <2>2, ReachFacts, Zenon
    <3> HIDE DEF D, mu
    <3>2. g[s \ {Max(s)}] = h[s \ {Max(s)}]
      BY <1>1, <1>3, <3>1, Zenon
    <3> QED
      BY <2>2, <3>2, Zenon
  <2> QED
    BY <2>1, <2>2
<1> HIDE DEF B
<1>4. E \in [D -> [[D -> S] -> S]] /\ \A s \in D : \A h \in [D -> S] : E[s][h] = B(h, s)
  <2> HIDE DEF D
  <2> QED
    BY <1>2, Zenon
<1> HIDE DEF D, mu, E
<1>5. \A s \in D : \A g, h \in [D -> S] :
        (\A y \in D : mu[y] < mu[s] => g[y] = h[y]) => E[s][g] = E[s][h]
  <2> SUFFICES ASSUME NEW s \in D, NEW g \in [D -> S], NEW h \in [D -> S],
                      \A y \in D : mu[y] < mu[s] => g[y] = h[y]
               PROVE  E[s][g] = E[s][h]
    BY Zenon
  <2>1. E[s][g] = B(g, s) /\ E[s][h] = B(h, s)
    BY <1>4, Zenon
  <2>2. B(g, s) = B(h, s)
    BY <1>3, Zenon
  <2> QED
    BY <2>1, <2>2, Zenon
<1>6. \E h \in [D -> S] : \A s \in D : h[s] = E[s][h]
  <2>1. mu \in [D -> Nat] /\ \A s \in D : mu[s] <= n
    BY <1>1, Zenon
  <2>2. E \in [D -> [[D -> S] -> S]]
    BY <1>4, Zenon
  <2>3. Decreasing(D, S, x, mu, n, E)
    BY <1>5, <2>1, <2>2, Zenon DEF Decreasing
  <2> QED
    BY <2>3, MeasureExists
<1>7. \E h \in [D -> S] : \A s \in D : h[s] = B(h, s)
  BY <1>4, <1>6, Zenon
<1> QED
  BY <1>7, Zenon DEF B, D, Folds
=============================================================================
