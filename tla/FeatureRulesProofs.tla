------------------------- MODULE FeatureRulesProofs -------------------------
(***************************************************************************)
(* Proofs about FeatureRules, for rules, patterns and sentences of every   *)
(* size.                                                                   *)
(*                                                                         *)
(* The matcher is shown to be exact.  What it returns is the value of a    *)
(* recursion over what is left of a pattern and of the elements; it is     *)
(* compared with the covers of these remainders, which obey the same       *)
(* recursion.  That the first cover found is the longest one rests on the  *)
(* fact that of two covers, one of which starts and the other of which     *)
(* ends further on, there is one that does both (Crossing).                *)
(***************************************************************************)
EXTENDS FeatureRules, FiniteSetTheorems, SequenceTheorems, RecursionFacts

\* The element of the pattern when r of them are left, and whether it fits the
\* element of the sentence when d of those are left.
Star(ps, r) == ps[Len(ps) - r + 1].star
Ok(ps, es, r, d) == feature_pattern_match(ps[Len(ps) - r + 1].cond, es[Len(es) - d + 1])

\* It takes the elements from d left down to e left.
Takes(ps, es, r, e, d) ==
  /\ e <= d /\ (Star(ps, r) \/ d = e + 1)
  /\ \A m \in (e + 1) .. d : Ok(ps, es, r, m)

\* The last r elements of the pattern take those from d left down to b left.
Cover(ps, es, r, d, b) ==
  \E c \in [0 .. r -> Nat] :
    /\ c[0] = b /\ c[r] = d
    /\ \A k \in 1 .. r : Takes(ps, es, k, c[k - 1], c[k])
-----------------------------------------------------------------------------
(* Covers                                                                  *)

LEMMA CoverNone ==
  ASSUME NEW ps, NEW es, NEW d \in Nat, NEW b \in Nat
  PROVE  Cover(ps, es, 0, d, b) <=> d = b
<1>1. ASSUME d = b
      PROVE  Cover(ps, es, 0, d, b)
  <2> DEFINE c == [k \in 0 .. 0 |-> b]
  <2>1. c \in [0 .. 0 -> Nat] /\ c[0] = b
    OBVIOUS
  <2>2. \A k \in 1 .. 0 : FALSE
    OBVIOUS
  <2> HIDE DEF c
  <2> QED
    BY <1>1, <2>1, <2>2, Zenon DEF Cover
<1>2. ASSUME Cover(ps, es, 0, d, b)
      PROVE  d = b
  BY <1>2, Zenon DEF Cover
<1> QED
  BY <1>1, <1>2

\* A cover is one of the pattern behind the first element, and what this takes.
LEMMA CoverStep ==
  ASSUME NEW ps, NEW es, NEW r \in Nat \ {0}, NEW d \in Nat, NEW b \in Nat
  PROVE  Cover(ps, es, r, d, b) <=> \E e \in Nat : Cover(ps, es, r - 1, e, b) /\ Takes(ps, es, r, e, d)
<1>0. r - 1 \in Nat /\ r \in 0 .. r /\ r - 1 \in 0 .. r /\ 0 \in 0 .. (r - 1) /\ r - 1 \in 0 .. (r - 1) /\ 0 \in 0 .. r
  OBVIOUS
<1>1. ASSUME Cover(ps, es, r, d, b)
      PROVE  \E e \in Nat : Cover(ps, es, r - 1, e, b) /\ Takes(ps, es, r, e, d)
  <2>1. PICK c \in [0 .. r -> Nat] : /\ c[0] = b /\ c[r] = d
                                     /\ \A k \in 1 .. r : Takes(ps, es, k, c[k - 1], c[k])
    BY <1>1, Zenon DEF Cover
  <2> DEFINE g == [k \in 0 .. (r - 1) |-> c[k]]
  <2>2. \A k \in 0 .. (r - 1) : k \in 0 .. r
    OBVIOUS
  <2>3. g \in [0 .. (r - 1) -> Nat] /\ \A k \in 0 .. (r - 1) : g[k] = c[k]
    BY <2>2, Zenon
  <2> HIDE DEF g
  <2>4. \A k \in 1 .. (r - 1) : k \in 1 .. r /\ k \in 0 .. (r - 1) /\ k - 1 \in 0 .. (r - 1)
    OBVIOUS
  <2>5. \A k \in 1 .. (r - 1) : Takes(ps, es, k, g[k - 1], g[k])
    BY <2>1, <2>3, <2>4, Zenon
  <2>6. g[0] = b /\ g[r - 1] = c[r - 1] /\ c[r - 1] \in Nat
    BY <1>0, <2>1, <2>3, Zenon
  <2>7. Cover(ps, es, r - 1, c[r - 1], b)
    BY <2>3, <2>5, <2>6, Zenon DEF Cover
  <2>8. r \in 1 .. r
    OBVIOUS
  <2>9. Takes(ps, es, r, c[r - 1], d)
    BY <2>1, <2>8, Zenon
  <2> QED
    BY <2>6, <2>7, <2>9, Zenon
<1>2. ASSUME NEW e \in Nat, Cover(ps, es, r - 1, e, b), Takes(ps, es, r, e, d)
      PROVE  Cover(ps, es, r, d, b)
  <2>1. PICK c \in [0 .. (r - 1) -> Nat] : /\ c[0] = b /\ c[r - 1] = e
                                           /\ \A k \in 1 .. (r - 1) : Takes(ps, es, k, c[k - 1], c[k])
    BY <1>2, Zenon DEF Cover
  <2> DEFINE g == [k \in 0 .. r |-> IF k = r THEN d ELSE c[k]]
  <2>2. \A k \in 0 .. r : k # r => k \in 0 .. (r - 1)
    OBVIOUS
  <2>3. g \in [0 .. r -> Nat] /\ g[r] = d /\ \A k \in 0 .. r : k # r => g[k] = c[k]
    BY <1>0, <2>2, Zenon
  <2> HIDE DEF g
  <2>4. \A k \in 1 .. r : /\ k \in 0 .. r /\ k - 1 \in 0 .. r /\ k - 1 # r
                          /\ (k # r => k \in 1 .. (r - 1))
    OBVIOUS
  <2>5. ASSUME NEW k \in 1 .. r
        PROVE  Takes(ps, es, k, g[k - 1], g[k])
    <3>1. CASE k = r
      <4>1. g[k - 1] = e /\ g[k] = d
        BY <2>1, <2>3, <2>4, <3>1, Zenon
      <4> QED
        BY <1>2, <3>1, <4>1, Zenon
    <3>2. CASE k # r
      BY <2>1, <2>3, <2>4, <3>2, Zenon
    <3> QED
      BY <3>1, <3>2
  <2>6. g[0] = b
    <3>1. 0 # r /\ 0 \in 0 .. r
      OBVIOUS
    <3> QED
      BY <2>1, <2>3, <3>1, Zenon
  <2> QED
    BY <2>3, <2>5, <2>6, Zenon DEF Cover
<1> QED
  BY <1>1, <1>2

LEMMA CoverNext ==
  ASSUME NEW ps, NEW es, NEW r \in Nat, NEW d \in Nat, NEW b \in Nat
  PROVE  Cover(ps, es, r + 1, d, b) <=> \E e \in Nat : Cover(ps, es, r, e, b) /\ Takes(ps, es, r + 1, e, d)
<1> DEFINE q == r + 1
<1>1. q \in Nat \ {0} /\ q - 1 = r
  OBVIOUS
<1> HIDE DEF q
<1>2. Cover(ps, es, q, d, b) <=> \E e \in Nat : Cover(ps, es, q - 1, e, b) /\ Takes(ps, es, q, e, d)
  BY <1>1, CoverStep, Zenon
<1> QED
  BY <1>1, <1>2, Zenon DEF q

\* A cover does not go back.
LEMMA CoverOrder ==
  ASSUME NEW ps, NEW es
  PROVE  \A r \in Nat : \A d, b \in Nat : Cover(ps, es, r, d, b) => b <= d
<1> DEFINE P == {r \in Nat : \A d, b \in Nat : Cover(ps, es, r, d, b) => b <= d}
<1>1. 0 \in P
  <2>1. \A d, b \in Nat : d = b => b <= d
    OBVIOUS
  <2> QED
    BY <2>1, CoverNone, Zenon
<1>2. ASSUME NEW r \in Nat, r \in P
      PROVE  r + 1 \in P
  <2>1. ASSUME NEW d \in Nat, NEW b \in Nat, Cover(ps, es, r + 1, d, b)
        PROVE  b <= d
    <3>2. PICK e \in Nat : Cover(ps, es, r, e, b) /\ Takes(ps, es, r + 1, e, d)
      BY <2>1, CoverNext, Zenon
    <3>3. b <= e /\ e <= d
      BY <1>2, <3>2, Zenon DEF Takes
    <3> QED
      BY <3>3
  <2>2. r + 1 \in Nat
    OBVIOUS
  <2> QED
    BY <2>1, <2>2, Zenon
<1>3. \A r \in Nat : r \in P
  <2> HIDE DEF P
  <2> QED
    BY <1>1, <1>2, SetInduction
<1> QED
  BY <1>3, Zenon

\* With an element that is not an asterisk it goes on.
LEMMA CoverMore ==
  ASSUME NEW ps, NEW es, NEW q \in Nat \ {0}, ~ Star(ps, q)
  PROVE  \A r \in Nat : q <= r => \A d, b \in Nat : Cover(ps, es, r, d, b) => b < d
<1> DEFINE P == {r \in Nat : q <= r => \A d, b \in Nat : Cover(ps, es, r, d, b) => b < d}
<1>1. 0 \in P
  OBVIOUS
<1>2. ASSUME NEW r \in Nat, r \in P
      PROVE  r + 1 \in P
  <2>1. ASSUME q <= r + 1, NEW d \in Nat, NEW b \in Nat, Cover(ps, es, r + 1, d, b)
        PROVE  b < d
    <3>2. PICK e \in Nat : Cover(ps, es, r, e, b) /\ Takes(ps, es, r + 1, e, d)
      BY <2>1, CoverNext, Zenon
    <3>3. CASE q <= r
      <4>1. b < e /\ e <= d
        BY <1>2, <3>2, <3>3, Zenon DEF Takes
      <4> QED
        BY <4>1
    <3>4. CASE ~ (q <= r)
      <4>1. q = r + 1
        BY <2>1, <3>4
      <4>2. d = e + 1 /\ b <= e
        BY <3>2, <4>1, CoverOrder, Zenon DEF Takes
      <4> QED
        BY <4>2
    <3> QED
      BY <3>3, <3>4
  <2>2. r + 1 \in Nat
    OBVIOUS
  <2> QED
    BY <2>1, <2>2, Zenon
<1>3. \A r \in Nat : r \in P
  <2> HIDE DEF P
  <2> QED
    BY <1>1, <1>2, SetInduction
<1> QED
  BY <1>3, Zenon

\* Of two covers one starts further on and the other one ends further on: then
\* there is one from the former start to the latter end.
LEMMA Crossing ==
  ASSUME NEW ps, NEW es
  PROVE  \A r \in Nat : \A u, v, a, b \in Nat :
           Cover(ps, es, r, u, a) /\ Cover(ps, es, r, v, b) /\ u <= v /\ b < a => Cover(ps, es, r, u, b)
<1> DEFINE P == {r \in Nat : \A u, v, a, b \in Nat :
             Cover(ps, es, r, u, a) /\ Cover(ps, es, r, v, b) /\ u <= v /\ b < a => Cover(ps, es, r, u, b)}
<1>1. 0 \in P
  <2>1. ASSUME NEW u \in Nat, NEW v \in Nat, NEW a \in Nat, NEW b \in Nat,
               Cover(ps, es, 0, u, a), Cover(ps, es, 0, v, b), u <= v, b < a
        PROVE  Cover(ps, es, 0, u, b)
    <3>1. u = a /\ v = b
      BY <2>1, CoverNone, Zenon
    <3> QED
      BY <2>1, <3>1
  <2> QED
    BY <2>1, Zenon
<1>2. ASSUME NEW r \in Nat, r \in P
      PROVE  r + 1 \in P
  <2>1. ASSUME NEW u \in Nat, NEW v \in Nat, NEW a \in Nat, NEW b \in Nat,
               Cover(ps, es, r + 1, u, a), Cover(ps, es, r + 1, v, b), u <= v, b < a
        PROVE  Cover(ps, es, r + 1, u, b)
    <3>2. PICK x \in Nat : Cover(ps, es, r, x, a) /\ Takes(ps, es, r + 1, x, u)
      BY <2>1, CoverNext, Zenon
    <3>3. PICK y \in Nat : Cover(ps, es, r, y, b) /\ Takes(ps, es, r + 1, y, v)
      BY <2>1, CoverNext, Zenon
    <3>4. SUFFICES \E e \in Nat : Cover(ps, es, r, e, b) /\ Takes(ps, es, r + 1, e, u)
      BY CoverNext, Zenon
    <3>5. CASE x <= y
      BY <1>2, <2>1, <3>2, <3>3, <3>5, Zenon
    <3>6. CASE ~ (x <= y)
      <4>1. x <= u /\ (Star(ps, r + 1) \/ u = x + 1) /\ (Star(ps, r + 1) \/ v = y + 1)
        BY <3>2, <3>3, Zenon DEF Takes
      <4>2. Star(ps, r + 1)
        BY <2>1, <3>6, <4>1
      <4>3. y <= u /\ \A m \in (y + 1) .. u : m \in (y + 1) .. v
        BY <2>1, <3>6, <4>1
      <4>4. Takes(ps, es, r + 1, y, u)
        BY <3>3, <4>2, <4>3, Zenon DEF Takes
      <4> QED
        BY <3>3, <4>4, Zenon
    <3> QED
      BY <3>5, <3>6
  <2>2. r + 1 \in Nat
    OBVIOUS
  <2> QED
    BY <2>1, <2>2, Zenon
<1>3. \A r \in Nat : r \in P
  <2> HIDE DEF P
  <2> QED
    BY <1>1, <1>2, SetInduction
<1> QED
  BY <1>3, Zenon
-----------------------------------------------------------------------------
(* The matcher                                                             *)

\* regexps_match takes an element or goes on to the next one of the pattern; h is
\* what is left over after a shorter remainder.
Taken(ps, es, h, r, d) ==
  IF d > 0 /\ Ok(ps, es, r, d) THEN h[<<IF Star(ps, r) THEN r ELSE r - 1, d - 1>>] ELSE -1
Given(ps, h, r, d) == IF Star(ps, r) THEN h[<<r - 1, d>>] ELSE -1
Body(ps, es, all, long, h, x) ==
  IF x[1] = 0 THEN IF x[2] = 0 \/ ~ all THEN x[2] ELSE -1
  ELSE IF long THEN IF Taken(ps, es, h, x[1], x[2]) # -1 THEN Taken(ps, es, h, x[1], x[2])
                    ELSE Given(ps, h, x[1], x[2])
  ELSE IF Given(ps, h, x[1], x[2]) # -1 THEN Given(ps, h, x[1], x[2])
  ELSE Taken(ps, es, h, x[1], x[2])

Remainders(ps, es) == (0 .. Len(ps)) \X (0 .. Len(es))

Pattern(ps) ==
  Len(ps) \in Nat /\ \A k \in 1 .. Len(ps) : ps[k].star \in BOOLEAN

LEMMA RemainderFacts ==
  ASSUME NEW ps, NEW es, Pattern(ps), Len(es) \in Nat
  PROVE  /\ \A x \in Remainders(ps, es) : x[1] \in 0 .. Len(ps) /\ x[2] \in 0 .. Len(es) /\ x = <<x[1], x[2]>>
         /\ \A r \in 0 .. Len(ps), d \in 0 .. Len(es) : <<r, d>> \in Remainders(ps, es)
         /\ \A r \in 1 .. Len(ps) : Star(ps, r) \in BOOLEAN
<1>1. \A r \in 1 .. Len(ps) : Len(ps) - r + 1 \in 1 .. Len(ps)
  BY DEF Pattern
<1>2. \A r \in 1 .. Len(ps) : Star(ps, r) \in BOOLEAN
  BY <1>1, Zenon DEF Pattern, Star
<1>3. /\ \A x \in Remainders(ps, es) : x[1] \in 0 .. Len(ps) /\ x[2] \in 0 .. Len(es) /\ x = <<x[1], x[2]>>
      /\ \A r \in 0 .. Len(ps), d \in 0 .. Len(es) : <<r, d>> \in Remainders(ps, es)
  BY DEF Remainders
<1> QED
  BY <1>2, <1>3, Zenon

\* The values a step uses, for a remainder whose pattern is not empty.
LEMMA SmallerRemainders ==
  ASSUME NEW ps, NEW es, Pattern(ps), Len(es) \in Nat, NEW x \in Remainders(ps, es), x[1] # 0
  PROVE  /\ x[1] \in Nat \ {0} /\ x[2] \in Nat /\ x[1] \in 1 .. Len(ps)
         /\ <<x[1] - 1, x[2]>> \in Remainders(ps, es)
         /\ x[2] > 0 => /\ <<x[1], x[2] - 1>> \in Remainders(ps, es)
                        /\ <<x[1] - 1, x[2] - 1>> \in Remainders(ps, es)
<1>1. x[1] \in 0 .. Len(ps) /\ x[2] \in 0 .. Len(es) /\ Len(ps) \in Nat
  BY RemainderFacts, Zenon DEF Pattern
<1>2. /\ x[1] \in Nat \ {0} /\ x[2] \in Nat /\ x[1] \in 1 .. Len(ps) /\ x[1] - 1 \in 0 .. Len(ps)
      /\ x[2] > 0 => x[2] - 1 \in 0 .. Len(es)
  BY <1>1
<1> QED
  BY <1>1, <1>2, RemainderFacts, Zenon

\* The step looks at smaller remainders only.
LEMMA BodyLooks ==
  ASSUME NEW ps, NEW es, Pattern(ps), Len(es) \in Nat, NEW all, NEW long, NEW x \in Remainders(ps, es),
         NEW g, NEW h,
         x[1] # 0 => /\ g[<<x[1] - 1, x[2]>>] = h[<<x[1] - 1, x[2]>>]
                     /\ x[2] > 0 => /\ g[<<x[1], x[2] - 1>>] = h[<<x[1], x[2] - 1>>]
                                    /\ g[<<x[1] - 1, x[2] - 1>>] = h[<<x[1] - 1, x[2] - 1>>]
  PROVE  Body(ps, es, all, long, g, x) = Body(ps, es, all, long, h, x)
<1>1. CASE x[1] = 0
  BY <1>1, Zenon DEF Body
<1>2. CASE x[1] # 0
  <2> DEFINE r == x[1]
             d == x[2]
  <2>1. Given(ps, g, r, d) = Given(ps, h, r, d)
    BY <1>2, Zenon DEF Given
  <2>2. Taken(ps, es, g, r, d) = Taken(ps, es, h, r, d)
    <3>1. CASE d > 0 /\ Ok(ps, es, r, d)
      <4>1. CASE Star(ps, r)
        BY <1>2, <3>1, <4>1, Zenon DEF Taken
      <4>2. CASE ~ Star(ps, r)
        BY <1>2, <3>1, <4>2, Zenon DEF Taken
      <4> QED
        BY <4>1, <4>2
    <3>2. CASE ~ (d > 0 /\ Ok(ps, es, r, d))
      BY <3>2, Zenon DEF Taken
    <3> QED
      BY <3>1, <3>2
  <2> QED
    BY <1>2, <2>1, <2>2, Zenon DEF Body
<1> QED
  BY <1>1, <1>2

LEMMA BodyType ==
  ASSUME NEW ps, NEW es, Pattern(ps), Len(es) \in Nat, NEW all, NEW long, NEW x \in Remainders(ps, es),
         NEW h \in [Remainders(ps, es) -> Int]
  PROVE  Body(ps, es, all, long, h, x) \in Int
<1>1. x[1] \in Int /\ x[2] \in Int /\ -1 \in Int
  BY RemainderFacts DEF Pattern
<1>2. CASE x[1] = 0
  BY <1>1, <1>2, Zenon DEF Body
<1>3. CASE x[1] # 0
  <2> DEFINE r == x[1]
             d == x[2]
  <2>1. Given(ps, h, r, d) \in Int
    BY <1>1, <1>3, SmallerRemainders, Zenon DEF Given
  <2>2. Taken(ps, es, h, r, d) \in Int
    <3>1. CASE d > 0 /\ Ok(ps, es, r, d)
      <4>1. CASE Star(ps, r)
        BY <1>3, <3>1, <4>1, SmallerRemainders, Zenon DEF Taken
      <4>2. CASE ~ Star(ps, r)
        BY <1>3, <3>1, <4>2, SmallerRemainders, Zenon DEF Taken
      <4> QED
        BY <4>1, <4>2
    <3>2. CASE ~ (d > 0 /\ Ok(ps, es, r, d))
      BY <1>1, <3>2, Zenon DEF Taken
    <3> QED
      BY <3>1, <3>2
  <2> QED
    BY <1>3, <2>1, <2>2, Zenon DEF Body
<1> QED
  BY <1>2, <1>3

\* The recursion has a solution, so that regexps_match is one.
LEMMA MatcherDefined ==
  ASSUME NEW ps, NEW es, Pattern(ps), Len(es) \in Nat, NEW all \in BOOLEAN, NEW long \in BOOLEAN
  PROVE  \E h : /\ \A x \in Remainders(ps, es) : h[x] = Body(ps, es, all, long, h, x)
                /\ regexps_match(ps, es, all, long) = h[<<Len(ps), Len(es)>>]
<1> DEFINE D == Remainders(ps, es)
           mu == [x \in D |-> x[1] + x[2]]
           G == [x \in D |-> [h \in [D -> Int] |-> Body(ps, es, all, long, h, x)]]
           Eq(h) == h = [x \in D |-> Body(ps, es, all, long, h, x)]
<1>1. mu \in [D -> Nat] /\ \A x \in D : mu[x] <= Len(ps) + Len(es)
  <2>1. \A x \in D : x[1] \in 0 .. Len(ps) /\ x[2] \in 0 .. Len(es) /\ Len(ps) \in Nat
    BY RemainderFacts, Zenon DEF Pattern
  <2> HIDE DEF D
  <2> QED
    BY <2>1
<1>2. G \in [D -> [[D -> Int] -> Int]] /\ \A x \in D : \A h \in [D -> Int] : G[x][h] = Body(ps, es, all, long, h, x)
  <2> HIDE DEF D
  <2>1. \A x \in D : \A h \in [D -> Int] : Body(ps, es, all, long, h, x) \in Int
    BY BodyType, Zenon DEF D
  <2> QED
    BY <2>1, Zenon
<1>3. ASSUME NEW x \in D, NEW g \in [D -> Int], NEW h \in [D -> Int],
             \A y \in D : mu[y] < mu[x] => g[y] = h[y]
      PROVE  G[x][g] = G[x][h]
  <2>1. ASSUME x[1] # 0
        PROVE  /\ g[<<x[1] - 1, x[2]>>] = h[<<x[1] - 1, x[2]>>]
               /\ x[2] > 0 => /\ g[<<x[1], x[2] - 1>>] = h[<<x[1], x[2] - 1>>]
                              /\ g[<<x[1] - 1, x[2] - 1>>] = h[<<x[1] - 1, x[2] - 1>>]
    <3>1. /\ x[1] \in Nat \ {0} /\ x[2] \in Nat
          /\ <<x[1] - 1, x[2]>> \in D
          /\ x[2] > 0 => <<x[1], x[2] - 1>> \in D /\ <<x[1] - 1, x[2] - 1>> \in D
      BY <2>1, SmallerRemainders, Zenon
    <3> HIDE DEF D
    <3>2. \A y \in D : mu[y] = y[1] + y[2]
      BY Zenon
    <3> HIDE DEF mu
    <3>3. ASSUME NEW a \in Int, NEW b \in Int, <<a, b>> \in D, a + b < x[1] + x[2]
          PROVE  g[<<a, b>>] = h[<<a, b>>]
      <4>1. mu[<<a, b>>] = a + b /\ mu[x] = x[1] + x[2]
        BY <3>2, <3>3
      <4>2. mu[<<a, b>>] < mu[x]
        BY <3>3, <4>1, Zenon
      <4> QED
        BY <1>3, <3>3, <4>2, Zenon
    <3>4. /\ x[1] - 1 \in Int /\ x[2] \in Int /\ x[1] \in Int /\ x[2] - 1 \in Int
          /\ x[1] - 1 + x[2] < x[1] + x[2] /\ x[1] + (x[2] - 1) < x[1] + x[2]
          /\ x[1] - 1 + (x[2] - 1) < x[1] + x[2]
      <4>1. \A a \in Nat \ {0}, b \in Nat :
              /\ a - 1 \in Int /\ b \in Int /\ a \in Int /\ b - 1 \in Int
              /\ a - 1 + b < a + b /\ a + (b - 1) < a + b /\ a - 1 + (b - 1) < a + b
        OBVIOUS
      <4> QED
        BY <3>1, <4>1, Zenon
    <3> QED
      BY <3>1, <3>3, <3>4, Zenon
  <2>2. Body(ps, es, all, long, g, x) = Body(ps, es, all, long, h, x)
    BY <2>1, BodyLooks, ZenonT(40)
  <2> HIDE DEF G, D
  <2> QED
    BY <1>2, <2>2, Zenon
<1>5. \E h \in [D -> Int] : \A x \in D : h[x] = G[x][h]
  <2> DEFINE M == Len(ps) + Len(es)
  <2>1. M \in Nat /\ 0 \in Int /\ \A x \in D : mu[x] <= M
    BY <1>1 DEF Pattern
  <2> HIDE DEF D, mu, G, M
  <2>2. Decreasing(D, Int, 0, mu, M, G)
    BY <1>1, <1>2, <1>3, <2>1, Zenon DEF Decreasing
  <2> QED
    BY <2>2, MeasureExists
<1>6. \E h : Eq(h)
  <2> HIDE DEF D, mu, G
  <2>1. PICK h \in [D -> Int] : \A x \in D : h[x] = G[x][h]
    BY <1>5
  <2>2. \A x \in D : h[x] = Body(ps, es, all, long, h, x)
    BY <1>2, <2>1, Zenon
  <2>3. h = [x \in D |-> h[x]]
    BY <2>1, Zenon
  <2>4. h = [x \in D |-> Body(ps, es, all, long, h, x)]
    BY <2>2, <2>3, Zenon
  <2> QED
    BY <2>4, Zenon
<1> DEFINE h == CHOOSE h : Eq(h)
<1>7. regexps_match(ps, es, all, long) = h[<<Len(ps), Len(es)>>]
  BY Zenon DEF regexps_match, Body, Taken, Given, Ok, Star, Remainders
<1>8. Eq(h)
  <2> HIDE DEF Eq
  <2> QED
    BY <1>6, Zenon
<1> HIDE DEF h
<1>9. ASSUME NEW x \in D
      PROVE  h[x] = Body(ps, es, all, long, h, x)
  <2> DEFINE g == [y \in D |-> Body(ps, es, all, long, h, y)]
  <2>1. h = g
    BY <1>8, Zenon
  <2>2. g[x] = Body(ps, es, all, long, h, x)
    BY Zenon
  <2> QED
    BY <2>1, <2>2, Zenon
<1> QED
  BY <1>7, <1>9, Zenon

\* What the value v for a remainder of r and d means: -1 if there is no cover, or
\* else what a cover leaves over, the least if the longest is tried first.
Right(ps, es, all, long, r, d, v) ==
  /\ v \in -1 .. d
  /\ v # -1 => Cover(ps, es, r, d, v) /\ (all => v = 0)
  /\ \A b \in Nat : Cover(ps, es, r, d, b) /\ (all => b = 0) =>
       v # -1 /\ (long /\ ~ all => v <= b)

\* The same for the covers whose first element takes something.
TakenFine(ps, es, all, long, r, d, t) ==
  /\ t \in -1 .. d
  /\ t # -1 => Cover(ps, es, r, d, t) /\ (all => t = 0)
  /\ t # -1 /\ Star(ps, r) => d > 0 /\ Right(ps, es, all, long, r, d - 1, t)
  /\ \A b, e \in Nat :
       Cover(ps, es, r - 1, e, b) /\ Takes(ps, es, r, e, d) /\ e < d /\ (all => b = 0) =>
         t # -1 /\ (long /\ ~ all => t <= b)

\* The element taken extends a cover.
LEMMA TakenRight ==
  ASSUME NEW ps, NEW es, NEW all, NEW long, NEW r \in Nat \ {0}, NEW d \in Nat, Star(ps, r) \in BOOLEAN, NEW h,
         d > 0 => /\ Right(ps, es, all, long, r, d - 1, h[<<r, d - 1>>])
                  /\ Right(ps, es, all, long, r - 1, d - 1, h[<<r - 1, d - 1>>])
  PROVE  TakenFine(ps, es, all, long, r, d, Taken(ps, es, h, r, d))
<1> SUFFICES LET t == Taken(ps, es, h, r, d)
             IN  /\ t \in -1 .. d
                 /\ t # -1 => Cover(ps, es, r, d, t) /\ (all => t = 0)
                 /\ t # -1 /\ Star(ps, r) => d > 0 /\ Right(ps, es, all, long, r, d - 1, t)
                 /\ \A b, e \in Nat :
                      Cover(ps, es, r - 1, e, b) /\ Takes(ps, es, r, e, d) /\ e < d /\ (all => b = 0) =>
                        t # -1 /\ (long /\ ~ all => t <= b)
  BY Zenon DEF TakenFine
<1> DEFINE t == Taken(ps, es, h, r, d)
<1>1. CASE d > 0 /\ Ok(ps, es, r, d)
  <2>0. d - 1 \in Nat /\ r - 1 \in Nat /\ d - 1 <= d /\ (d - 1) + 1 = d /\ -1 .. (d - 1) \subseteq -1 .. d
    BY <1>1
  <2>1. CASE Star(ps, r)
    <3>1. t = h[<<r, d - 1>>] /\ Right(ps, es, all, long, r, d - 1, t)
      BY <1>1, <2>1, Zenon DEF Taken
    <3> HIDE DEF t
    <3>2. t \in -1 .. (d - 1) /\ t \in -1 .. d /\ (t # -1 => t \in Nat)
      <4>1. t \in -1 .. (d - 1)
        BY <3>1, Zenon DEF Right
      <4> QED
        BY <2>0, <4>1
    <3>3. \A e \in Nat : Takes(ps, es, r, e, d - 1) => Takes(ps, es, r, e, d)
      <4>1. ASSUME NEW e \in Nat, Takes(ps, es, r, e, d - 1)
            PROVE  Takes(ps, es, r, e, d)
        <5>1. e <= d - 1 /\ \A m \in (e + 1) .. (d - 1) : Ok(ps, es, r, m)
          BY <4>1, Zenon DEF Takes
        <5>2. e <= d /\ \A m \in (e + 1) .. d : m = d \/ m \in (e + 1) .. (d - 1)
          BY <5>1
        <5>3. \A m \in (e + 1) .. d : Ok(ps, es, r, m)
          BY <1>1, <5>1, <5>2, Zenon
        <5> QED
          BY <2>1, <5>2, <5>3, Zenon DEF Takes
      <4> QED
        BY <4>1
    <3>4. ASSUME t # -1
          PROVE  Cover(ps, es, r, d, t) /\ (all => t = 0)
      <4>1. Cover(ps, es, r, d - 1, t) /\ (all => t = 0)
        BY <3>1, <3>4, Zenon DEF Right
      <4>2. PICK e \in Nat : Cover(ps, es, r - 1, e, t) /\ Takes(ps, es, r, e, d - 1)
        BY <2>0, <3>2, <3>4, <4>1, CoverStep, Zenon
      <4> QED
        BY <3>2, <3>3, <3>4, <4>1, <4>2, CoverStep, Zenon
    <3>5. ASSUME NEW b \in Nat, NEW e \in Nat, Cover(ps, es, r - 1, e, b), Takes(ps, es, r, e, d),
                 e < d, all => b = 0
          PROVE  t # -1 /\ (long /\ ~ all => t <= b)
      <4>1. \A m \in (e + 1) .. d : Ok(ps, es, r, m)
        BY <3>5, Zenon DEF Takes
      <4>2. e <= d - 1 /\ \A m \in (e + 1) .. (d - 1) : m \in (e + 1) .. d
        BY <3>5
      <4>3. Takes(ps, es, r, e, d - 1)
        BY <2>1, <4>1, <4>2, Zenon DEF Takes
      <4>4. Cover(ps, es, r, d - 1, b)
        BY <2>0, <3>5, <4>3, CoverStep, Zenon
      <4> QED
        BY <3>1, <3>5, <4>4, Zenon DEF Right
    <3> QED
      BY <1>1, <3>1, <3>2, <3>4, <3>5, Zenon DEF t
  <2>2. CASE ~ Star(ps, r)
    <3>1. t = h[<<r - 1, d - 1>>] /\ Right(ps, es, all, long, r - 1, d - 1, t)
      BY <1>1, <2>2, Zenon DEF Taken
    <3> HIDE DEF t
    <3>2. t \in -1 .. (d - 1) /\ t \in -1 .. d /\ (t # -1 => t \in Nat)
      <4>1. t \in -1 .. (d - 1)
        BY <3>1, Zenon DEF Right
      <4> QED
        BY <2>0, <4>1
    <3>3. Takes(ps, es, r, d - 1, d)
      <4>1. d = (d - 1) + 1 /\ \A m \in ((d - 1) + 1) .. d : m = d
        BY <2>0
      <4> QED
        BY <1>1, <2>0, <4>1, Zenon DEF Takes
    <3>4. ASSUME t # -1
          PROVE  Cover(ps, es, r, d, t) /\ (all => t = 0)
      <4>1. Cover(ps, es, r - 1, d - 1, t) /\ (all => t = 0)
        BY <3>1, <3>4, Zenon DEF Right
      <4> QED
        BY <2>0, <3>2, <3>3, <3>4, <4>1, CoverStep, Zenon
    <3>5. ASSUME NEW b \in Nat, NEW e \in Nat, Cover(ps, es, r - 1, e, b), Takes(ps, es, r, e, d),
                 e < d, all => b = 0
          PROVE  t # -1 /\ (long /\ ~ all => t <= b)
      <4>1. d = e + 1
        BY <2>2, <3>5, Zenon DEF Takes
      <4>2. e = d - 1
        BY <4>1
      <4> QED
        BY <3>1, <3>5, <4>2, Zenon DEF Right
    <3> QED
      BY <2>2, <3>2, <3>4, <3>5, Zenon DEF t
  <2> QED
    BY <2>1, <2>2, Zenon
<1>2. CASE ~ (d > 0 /\ Ok(ps, es, r, d))
  <2>1. t = -1
    BY <1>2, Zenon DEF Taken
  <2>2. -1 \in -1 .. d
    OBVIOUS
  <2>3. ASSUME NEW b \in Nat, NEW e \in Nat, Takes(ps, es, r, e, d), e < d
        PROVE  FALSE
    <3>1. d > 0 /\ d \in (e + 1) .. d
      BY <2>3
    <3>2. Ok(ps, es, r, d)
      BY <2>3, <3>1, Zenon DEF Takes
    <3> QED
      BY <1>2, <3>1, <3>2, Zenon
  <2> QED
    BY <2>1, <2>2, <2>3, Zenon
<1> QED
  BY <1>1, <1>2, Zenon

\* Leaving an asterisk is a cover too.
LEMMA GivenRight ==
  ASSUME NEW ps, NEW es, NEW all, NEW long, NEW r \in Nat \ {0}, NEW d \in Nat, Star(ps, r) \in BOOLEAN, NEW h,
         Right(ps, es, all, long, r - 1, d, h[<<r - 1, d>>])
  PROVE  LET g == Given(ps, h, r, d)
         IN  /\ g \in -1 .. d
             /\ g # -1 => Star(ps, r) /\ Cover(ps, es, r, d, g) /\ (all => g = 0)
             /\ \A b \in Nat : Star(ps, r) /\ Cover(ps, es, r - 1, d, b) /\ (all => b = 0) =>
                  g # -1 /\ (long /\ ~ all => g <= b)
<1> DEFINE g == Given(ps, h, r, d)
<1>0. r - 1 \in Nat /\ -1 \in -1 .. d
  OBVIOUS
<1>1. CASE Star(ps, r)
  <2>1. g = h[<<r - 1, d>>] /\ Right(ps, es, all, long, r - 1, d, g)
    BY <1>1, Zenon DEF Given
  <2> HIDE DEF g
  <2>2. g \in -1 .. d
    BY <2>1, Zenon DEF Right
  <2>3. g # -1 => g \in Nat
    BY <2>2
  <2>4. Takes(ps, es, r, d, d)
    <3>1. d <= d /\ \A m \in (d + 1) .. d : FALSE
      OBVIOUS
    <3> QED
      BY <1>1, <3>1, Zenon DEF Takes
  <2>5. g # -1 => Cover(ps, es, r, d, g) /\ (all => g = 0)
    BY <1>0, <2>1, <2>3, <2>4, CoverStep, Zenon DEF Right
  <2> QED
    BY <1>1, <2>1, <2>2, <2>5, Zenon DEF Right, g
<1>2. CASE ~ Star(ps, r)
  BY <1>0, <1>2, Zenon DEF Given
<1> QED
  BY <1>1, <1>2, Zenon

\* The step: of the two covers the first one that exists is returned, and it is
\* the longest if the element is taken first.
LEMMA RightStep ==
  ASSUME NEW ps, NEW es, NEW all \in BOOLEAN, NEW long \in BOOLEAN, NEW r \in Nat \ {0}, NEW d \in Nat,
         Star(ps, r) \in BOOLEAN, NEW h,
         Right(ps, es, all, long, r - 1, d, h[<<r - 1, d>>]),
         d > 0 => /\ Right(ps, es, all, long, r, d - 1, h[<<r, d - 1>>])
                  /\ Right(ps, es, all, long, r - 1, d - 1, h[<<r - 1, d - 1>>])
  PROVE  LET t == Taken(ps, es, h, r, d)
             g == Given(ps, h, r, d)
         IN  Right(ps, es, all, long, r, d,
                   IF long THEN IF t # -1 THEN t ELSE g ELSE IF g # -1 THEN g ELSE t)
<1> DEFINE t == Taken(ps, es, h, r, d)
           g == Given(ps, h, r, d)
           v == IF long THEN IF t # -1 THEN t ELSE g ELSE IF g # -1 THEN g ELSE t
<1>1. /\ t \in -1 .. d
      /\ t # -1 => Cover(ps, es, r, d, t) /\ (all => t = 0)
      /\ t # -1 /\ Star(ps, r) => d > 0 /\ Right(ps, es, all, long, r, d - 1, t)
      /\ \A b, e \in Nat :
           Cover(ps, es, r - 1, e, b) /\ Takes(ps, es, r, e, d) /\ e < d /\ (all => b = 0) =>
             t # -1 /\ (long /\ ~ all => t <= b)
  <2>1. TakenFine(ps, es, all, long, r, d, t)
    BY TakenRight, Zenon
  <2> HIDE DEF t
  <2> QED
    BY <2>1, Zenon DEF TakenFine
<1>2. /\ g \in -1 .. d
      /\ g # -1 => Star(ps, r) /\ Cover(ps, es, r, d, g) /\ (all => g = 0)
      /\ \A b \in Nat : Star(ps, r) /\ Cover(ps, es, r - 1, d, b) /\ (all => b = 0) =>
           g # -1 /\ (long /\ ~ all => g <= b)
  BY GivenRight, Zenon
<1> HIDE DEF t, g
<1>3. /\ v \in {t, g} /\ (v = -1 => t = -1 /\ g = -1)
      /\ long /\ t # -1 => v = t
      /\ t = -1 => v = g
  OBVIOUS
<1> HIDE DEF v
<1>4. v \in -1 .. d /\ (v # -1 => Cover(ps, es, r, d, v) /\ (all => v = 0))
  BY <1>1, <1>2, <1>3, Zenon
<1>5. ASSUME NEW b \in Nat, Cover(ps, es, r, d, b), all => b = 0
      PROVE  v # -1 /\ (long /\ ~ all => v <= b)
  <2>1. PICK e \in Nat : Cover(ps, es, r - 1, e, b) /\ Takes(ps, es, r, e, d)
    BY <1>5, CoverStep, Zenon
  <2>2. e <= d /\ (Star(ps, r) \/ d = e + 1)
    BY <2>1, Zenon DEF Takes
  <2>3. CASE e < d
    <3>1. t # -1 /\ (long /\ ~ all => t <= b)
      BY <1>1, <1>5, <2>1, <2>3, Zenon
    <3> QED
      BY <1>3, <3>1, Zenon
  <2>4. CASE ~ (e < d)
    <3>1. e = d /\ Star(ps, r)
      BY <2>2, <2>4
    <3>2. g # -1 /\ (long /\ ~ all => g <= b)
      BY <1>2, <1>5, <2>1, <3>1, Zenon
    <3>3. ASSUME long, ~ all, t # -1
          PROVE  t <= b
      <4>1. d > 0 /\ Right(ps, es, all, long, r, d - 1, t)
        BY <1>1, <3>1, <3>3, Zenon
      <4>2. d - 1 \in Nat /\ d - 1 <= d /\ t \in Nat
        BY <1>1, <3>3, <4>1
      <4>3. Cover(ps, es, r, d - 1, t)
        BY <3>3, <4>1, Zenon DEF Right
      <4>4. b < t => Cover(ps, es, r, d - 1, b)
        BY <1>5, <4>2, <4>3, Crossing, Zenon
      <4>5. b < t => t <= b
        BY <1>5, <3>3, <4>1, <4>4, Zenon DEF Right
      <4> QED
        BY <4>2, <4>5
    <3> QED
      BY <1>3, <3>2, <3>3, Zenon
  <2> QED
    BY <2>3, <2>4
<1>6. Right(ps, es, all, long, r, d, v)
  BY <1>4, <1>5, Zenon DEF Right
<1> QED
  BY <1>6, Zenon DEF v, t, g

\* regexpmrphs_match finds a cover if there is one, and the longest if it is
\* asked to try that first.
LEMMA MatcherRight ==
  ASSUME NEW ps, NEW es, Pattern(ps), Len(es) \in Nat, NEW all \in BOOLEAN, NEW long \in BOOLEAN
  PROVE  Right(ps, es, all, long, Len(ps), Len(es), regexps_match(ps, es, all, long))
<1> DEFINE D == Remainders(ps, es)
           mu == [x \in D |-> x[1] + x[2]]
<1>1. PICK h : /\ \A x \in D : h[x] = Body(ps, es, all, long, h, x)
               /\ regexps_match(ps, es, all, long) = h[<<Len(ps), Len(es)>>]
  BY MatcherDefined, Zenon
<1> DEFINE Fine(r, d) == Right(ps, es, all, long, r, d, h[<<r, d>>])
           Q == {x \in D : Fine(x[1], x[2])}
<1>2. /\ \A x \in D : x[1] \in 0 .. Len(ps) /\ x[2] \in 0 .. Len(es) /\ x = <<x[1], x[2]>>
      /\ Len(ps) \in Nat
  BY RemainderFacts, Zenon DEF Pattern
<1>3. mu \in [D -> Nat] /\ \A x \in D : mu[x] = x[1] + x[2]
  <2> HIDE DEF D
  <2> QED
    BY <1>2
<1>4. ASSUME NEW x \in D, \A y \in D : mu[y] < mu[x] => y \in Q
      PROVE  x \in Q
  <2> DEFINE r == x[1]
             d == x[2]
  <2>1. r \in Nat /\ d \in Nat /\ x = <<r, d>> /\ h[x] = Body(ps, es, all, long, h, x)
    BY <1>1, <1>2
  <2>2. CASE r = 0
    <3>1. h[x] = IF d = 0 \/ ~ all THEN d ELSE -1
      BY <2>1, <2>2, Zenon DEF Body
    <3> DEFINE v == IF d = 0 \/ ~ all THEN d ELSE -1
    <3>2. \A b \in Nat : Cover(ps, es, 0, d, b) <=> d = b
      BY <2>1, CoverNone, ZenonT(120)
    <3> HIDE DEF r, d
    <3>3. v \in -1 .. d /\ (v # -1 => v = d /\ v \in Nat /\ (all => v = 0))
      BY <2>1
    <3>4. \A b \in Nat : d = b /\ (all => b = 0) => v # -1 /\ v <= b
      BY <2>1
    <3> HIDE DEF v
    <3>5. Right(ps, es, all, long, 0, d, v)
      BY <3>2, <3>3, <3>4, Zenon DEF Right
    <3>6. h[<<r, d>>] = v
      BY <2>1, <3>1, Zenon DEF v
    <3> QED
      BY <2>2, <3>5, <3>6, Zenon DEF r, d
  <2>3. CASE r # 0
    <3>1. /\ r \in Nat \ {0} /\ r \in 1 .. Len(ps) /\ <<r - 1, d>> \in D
          /\ d > 0 => <<r, d - 1>> \in D /\ <<r - 1, d - 1>> \in D
      BY <2>3, SmallerRemainders, Zenon
    <3>2. Star(ps, r) \in BOOLEAN
      BY <3>1, RemainderFacts, Zenon
    <3> DEFINE T == Taken(ps, es, h, r, d)
               g == Given(ps, h, r, d)
               v == IF long THEN IF T # -1 THEN T ELSE g ELSE IF g # -1 THEN g ELSE T
    <3>3. h[x] = v
      BY <2>1, <2>3, Zenon DEF Body
    <3> HIDE DEF D, mu
    <3>4. ASSUME NEW a \in Int, NEW b \in Int, <<a, b>> \in D, a + b < r + d
          PROVE  Fine(a, b)
      <4>1. mu[<<a, b>>] = a + b /\ mu[x] = r + d
        BY <1>3, <3>4
      <4>2. <<a, b>> \in Q
        BY <1>4, <3>4, <4>1, Zenon
      <4>3. <<a, b>>[1] = a /\ <<a, b>>[2] = b
        OBVIOUS
      <4> HIDE DEF Fine
      <4>4. Fine(<<a, b>>[1], <<a, b>>[2])
        BY <4>2, Zenon
      <4> QED
        BY <4>3, <4>4, Zenon
    <3>5. /\ r - 1 \in Int /\ d \in Int /\ r \in Int /\ d - 1 \in Int
          /\ r - 1 + d < r + d /\ r + (d - 1) < r + d /\ r - 1 + (d - 1) < r + d
      <4>1. \A a \in Nat \ {0}, b \in Nat :
              /\ a - 1 \in Int /\ b \in Int /\ a \in Int /\ b - 1 \in Int
              /\ a - 1 + b < a + b /\ a + (b - 1) < a + b /\ a - 1 + (b - 1) < a + b
        OBVIOUS
      <4> QED
        BY <2>1, <3>1, <4>1, Zenon
    <3>6. Fine(r - 1, d) /\ (d > 0 => Fine(r, d - 1) /\ Fine(r - 1, d - 1))
      <4> HIDE DEF Fine, r, d
      <4> QED
        BY <3>1, <3>4, <3>5, Zenon
    <3>7. Right(ps, es, all, long, r, d, v)
      BY <2>1, <3>1, <3>2, <3>6, RightStep, ZenonT(120)
    <3> HIDE DEF v
    <3>8. Fine(r, d)
      BY <2>1, <3>3, <3>7, Zenon
    <3> QED
      BY <3>8, Zenon
  <2> QED
    BY <2>2, <2>3
<1>5. \A x \in D : x \in Q
  <2> HIDE DEF D, mu, Q
  <2> QED
    BY <1>3, <1>4, MeasureInduction
<1>6. <<Len(ps), Len(es)>> \in D
  <2>1. Len(ps) \in 0 .. Len(ps) /\ Len(es) \in 0 .. Len(es)
    BY DEF Pattern
  <2> QED
    BY <2>1, RemainderFacts, Zenon
<1>7. Fine(Len(ps), Len(es))
  <2> HIDE DEF Fine, D
  <2> DEFINE x == <<Len(ps), Len(es)>>
  <2>1. x[1] = Len(ps) /\ x[2] = Len(es)
    OBVIOUS
  <2>2. Fine(x[1], x[2])
    <3> HIDE DEF x
    <3>1. x \in D
      BY <1>6, Zenon DEF x
    <3> QED
      BY <1>5, <3>1, Zenon
  <2> QED
    BY <2>1, <2>2, Zenon
<1> QED
  BY <1>1, <1>7, Zenon
-----------------------------------------------------------------------------
(* Covers read from the left, as Covers has them                           *)

\* Element k of the pattern takes the elements behind a up to z.
Piece(ps, qs, k, a, z) ==
  /\ z >= a /\ (ps[k].star \/ z = a + 1)
  /\ \A m \in (a + 1) .. z : feature_pattern_match(ps[k].cond, qs[m])

LEMMA CoversPieces ==
  ASSUME NEW ps, NEW qs
  PROVE  Covers(ps, qs) <=>
           \E cut \in [0 .. Len(ps) -> 0 .. Len(qs)] :
             /\ cut[0] = 0 /\ cut[Len(ps)] = Len(qs)
             /\ \A k \in 1 .. Len(ps) : Piece(ps, qs, k, cut[k - 1], cut[k])
BY Zenon DEF Covers, Piece

\* The cuts of a cover lie between the first and the last one.
LEMMA CutsBetween ==
  ASSUME NEW n \in Nat, NEW c \in [0 .. n -> Int], \A k \in 1 .. n : c[k - 1] <= c[k]
  PROVE  \A k \in 0 .. n : c[0] <= c[k] /\ c[k] <= c[n]
<1> DEFINE Q == {k \in Nat : k <= n => c[0] <= c[k]}
           R == {k \in Nat : k <= n => c[n - k] <= c[n]}
<1>1. 0 \in Q /\ 0 \in R
  OBVIOUS
<1>2. ASSUME NEW k \in (0 + 1) .. n, k - 1 \in Q
      PROVE  k \in Q
  <2>1. k \in 1 .. n /\ k - 1 <= n /\ k \in Nat
    OBVIOUS
  <2>2. c[0] <= c[k - 1] /\ c[k - 1] <= c[k]
    BY <1>2, <2>1
  <2> QED
    BY <2>1, <2>2
<1>3. ASSUME NEW k \in (0 + 1) .. n, k - 1 \in R
      PROVE  k \in R
  <2> DEFINE l == n - k + 1
  <2>1. l \in 1 .. n /\ k - 1 <= n /\ k \in Nat /\ n - (k - 1) = l /\ l - 1 = n - k
    OBVIOUS
  <2>2. c[n - (k - 1)] <= c[n]
    BY <1>3, <2>1
  <2>3. c[l - 1] <= c[l]
    BY <2>1
  <2>4. c[n - k] \in Int /\ c[l] \in Int /\ c[n] \in Int
    BY <2>1
  <2>5. c[n - k] <= c[n]
    BY <2>1, <2>2, <2>3, <2>4
  <2> QED
    BY <2>1, <2>5
<1>4. (\A k \in 0 .. n : k \in Q) /\ (\A k \in 0 .. n : k \in R)
  <2> HIDE DEF Q, R
  <2> QED
    BY <1>1, <1>2, <1>3, RangeInduction
<1>5. ASSUME NEW k \in 0 .. n
      PROVE  c[0] <= c[k] /\ c[k] <= c[n]
  <2>1. k \in Nat /\ k <= n /\ n - k \in 0 .. n /\ n - k <= n /\ n - (n - k) = k
    OBVIOUS
  <2>2. k \in Q /\ n - k \in R
    <3> HIDE DEF Q, R
    <3> QED
      BY <1>4, <2>1, Zenon
  <2>3. c[n - (n - k)] <= c[n]
    BY <2>1, <2>2, Zenon
  <2> QED
    BY <2>1, <2>2, <2>3, Zenon
<1> QED
  BY <1>5

\* es starts with qs.
Starts(qs, es) == Len(es) \in Nat /\ Len(qs) \in 0 .. Len(es) /\ \A m \in 1 .. Len(qs) : qs[m] = es[m]

LEMMA PieceTakes ==
  ASSUME NEW ps, NEW qs, NEW es, Len(ps) \in Nat, Starts(qs, es), NEW k \in 1 .. Len(ps),
         NEW a \in 0 .. Len(qs), NEW z \in 0 .. Len(qs)
  PROVE  Piece(ps, qs, Len(ps) - k + 1, a, z) <=> Takes(ps, es, k, Len(es) - z, Len(es) - a)
<1> DEFINE n == Len(es)
           p == ps[Len(ps) - k + 1]
<1>0. n \in Nat /\ Len(qs) \in 0 .. n
  BY Zenon DEF Starts
<1>1. /\ z >= a <=> n - z <= n - a
      /\ z = a + 1 <=> n - a = (n - z) + 1
  BY <1>0
<1>2. ASSUME \A m \in (a + 1) .. z : feature_pattern_match(p.cond, qs[m]), NEW m \in ((n - z) + 1) .. (n - a)
      PROVE  feature_pattern_match(p.cond, es[n - m + 1])
  <2>1. n - m + 1 \in (a + 1) .. z /\ n - m + 1 \in 1 .. Len(qs)
    BY <1>0
  <2>2. qs[n - m + 1] = es[n - m + 1]
    BY <2>1, Zenon DEF Starts
  <2> QED
    BY <1>2, <2>1, <2>2, Zenon
<1>3. ASSUME \A m \in ((n - z) + 1) .. (n - a) : feature_pattern_match(p.cond, es[n - m + 1]), NEW m \in (a + 1) .. z
      PROVE  feature_pattern_match(p.cond, qs[m])
  <2>1. n - m + 1 \in ((n - z) + 1) .. (n - a) /\ n - (n - m + 1) + 1 = m /\ m \in 1 .. Len(qs)
    BY <1>0
  <2>2. qs[m] = es[m]
    BY <2>1, Zenon DEF Starts
  <2>3. feature_pattern_match(p.cond, es[n - (n - m + 1) + 1])
    BY <1>3, <2>1, Zenon
  <2> QED
    BY <2>1, <2>2, <2>3, Zenon
<1> QED
  BY <1>1, <1>2, <1>3, Zenon DEF Piece, Takes, Star, Ok

\* A cover of the first elements of es leaves the others.
LEMMA CoversPrefix ==
  ASSUME NEW ps, NEW qs, NEW es, Len(ps) \in Nat, Starts(qs, es)
  PROVE  Covers(ps, qs) <=> Cover(ps, es, Len(ps), Len(es), Len(es) - Len(qs))
<1> DEFINE n == Len(es)
           l == Len(qs)
           r == Len(ps)
<1>0. n \in Nat /\ l \in 0 .. n /\ r \in Nat
  BY Zenon DEF Starts
<1>1. ASSUME Covers(ps, qs)
      PROVE  Cover(ps, es, r, n, n - l)
  <2>1. PICK cut \in [0 .. r -> 0 .. l] :
             /\ cut[0] = 0 /\ cut[r] = l
             /\ \A k \in 1 .. r : Piece(ps, qs, k, cut[k - 1], cut[k])
    BY <1>1, CoversPieces, Zenon
  <2> DEFINE c == [k \in 0 .. r |-> n - cut[r - k]]
  <2> HIDE DEF n, l, r
  <2>2. \A k \in 0 .. r : r - k \in 0 .. r /\ cut[r - k] \in 0 .. l
    BY <1>0
  <2>3. c \in [0 .. r -> Nat] /\ c[0] = n - l /\ c[r] = n
    <3>1. r - 0 = r /\ r - r = 0 /\ 0 \in 0 .. r /\ r \in 0 .. r /\ n - 0 = n
      BY <1>0
    <3>2. \A x \in 0 .. l : n - x \in Nat
      BY <1>0
    <3> QED
      BY <2>1, <2>2, <3>1, <3>2, Zenon
  <2>4. \A k \in 0 .. r : c[k] = n - cut[r - k]
    OBVIOUS
  <2> HIDE DEF c
  <2>5. ASSUME NEW k \in 1 .. r
        PROVE  Takes(ps, es, k, c[k - 1], c[k])
    <3>1. /\ r - k + 1 \in 1 .. r /\ (r - k + 1) - 1 = r - k /\ k \in 0 .. r /\ k - 1 \in 0 .. r
          /\ r - (k - 1) = r - k + 1 /\ r - k + 1 \in 0 .. r /\ r - k \in 0 .. r
      BY <1>0
    <3>2. Piece(ps, qs, r - k + 1, cut[r - k], cut[r - k + 1])
      BY <2>1, <3>1, Zenon
    <3>3. Takes(ps, es, k, n - cut[r - k + 1], n - cut[r - k])
      BY <2>1, <3>1, <3>2, PieceTakes, Zenon DEF n, l, r
    <3> QED
      BY <2>4, <3>1, <3>3, Zenon
  <2> QED
    BY <2>3, <2>5, Zenon DEF Cover
<1>2. ASSUME Cover(ps, es, r, n, n - l)
      PROVE  Covers(ps, qs)
  <2>1. PICK c \in [0 .. r -> Nat] : /\ c[0] = n - l /\ c[r] = n
                                     /\ \A k \in 1 .. r : Takes(ps, es, k, c[k - 1], c[k])
    BY <1>2, Zenon DEF Cover
  <2> DEFINE cut == [k \in 0 .. r |-> n - c[r - k]]
  <2> HIDE DEF n, l, r
  <2>2. \A k \in 0 .. r : n - l <= c[k] /\ c[k] <= n
    <3>1. \A k \in 1 .. r : c[k - 1] <= c[k]
      BY <2>1, Zenon DEF Takes
    <3>2. c \in [0 .. r -> Int]
      OBVIOUS
    <3> QED
      BY <1>0, <2>1, <3>1, <3>2, CutsBetween, Zenon
  <2>3. \A k \in 0 .. r : r - k \in 0 .. r
    BY <1>0
  <2>4. cut \in [0 .. r -> 0 .. l] /\ cut[0] = 0 /\ cut[r] = l
    <3>1. r - 0 = r /\ r - r = 0 /\ 0 \in 0 .. r /\ r \in 0 .. r /\ n - n = 0 /\ n - (n - l) = l
      BY <1>0
    <3>2. \A x \in Nat : n - l <= x /\ x <= n => n - x \in 0 .. l
      BY <1>0
    <3>3. \A k \in 0 .. r : n - c[r - k] \in 0 .. l
      BY <2>2, <2>3, <3>2, Zenon
    <3> QED
      BY <2>1, <3>1, <3>3, Zenon
  <2>5. \A k \in 0 .. r : cut[k] = n - c[r - k]
    OBVIOUS
  <2> HIDE DEF cut
  <2>6. ASSUME NEW k \in 1 .. r
        PROVE  Piece(ps, qs, k, cut[k - 1], cut[k])
    <3> DEFINE q == r - k + 1
    <3>1. /\ q \in 1 .. r /\ r - q + 1 = k /\ k \in 0 .. r /\ k - 1 \in 0 .. r
          /\ r - (k - 1) = q /\ r - k = q - 1 /\ q \in 0 .. r /\ q - 1 \in 0 .. r
      BY <1>0
    <3> HIDE DEF q
    <3>2. cut[k - 1] = n - c[q] /\ cut[k] = n - c[q - 1]
      BY <2>5, <3>1, Zenon
    <3>3. \A x \in Nat : n - (n - x) = x
      BY <1>0
    <3>4. c[q] \in Nat /\ c[q - 1] \in Nat
      BY <3>1
    <3>5. c[q] = n - cut[k - 1] /\ c[q - 1] = n - cut[k]
      BY <3>2, <3>3, <3>4, Zenon
    <3>6. Takes(ps, es, q, n - cut[k], n - cut[k - 1])
      BY <2>1, <3>1, <3>5, Zenon
    <3>7. cut[k] \in 0 .. l /\ cut[k - 1] \in 0 .. l
      BY <2>4, <3>1, Zenon
    <3>8. Piece(ps, qs, r - q + 1, cut[k - 1], cut[k])
      BY <3>1, <3>6, <3>7, PieceTakes, Zenon DEF n, l, r
    <3> QED
      BY <3>1, <3>8, Zenon
  <2> QED
    BY <2>4, <2>6, CoversPieces, Zenon DEF l, r
<1> QED
  BY <1>1, <1>2

\* A match of all elements exists when there is a cover.
LEMMA MatcherAll ==
  ASSUME NEW ps, NEW es, Pattern(ps), Len(es) \in Nat
  PROVE  regexps_match(ps, es, TRUE, FALSE) # -1 <=> Cover(ps, es, Len(ps), Len(es), 0)
<1> DEFINE v == regexps_match(ps, es, TRUE, FALSE)
<1>1. Right(ps, es, TRUE, FALSE, Len(ps), Len(es), v)
  <2>1. TRUE \in BOOLEAN /\ FALSE \in BOOLEAN
    OBVIOUS
  <2> QED
    BY <2>1, MatcherRight, Zenon
<1> HIDE DEF v
<1>2. 0 \in Nat
  OBVIOUS
<1>3. v # -1 <=> Cover(ps, es, Len(ps), Len(es), 0)
  BY <1>1, <1>2, Zenon DEF Right
<1> QED
  BY <1>3, Zenon DEF v

LEMMA CoversAll ==
  ASSUME NEW ps, NEW es, Pattern(ps), Len(es) \in Nat
  PROVE  regexps_match(ps, es, TRUE, FALSE) # -1 <=> Covers(ps, es)
<1>1. Starts(es, es) /\ Len(es) - Len(es) = 0
  BY DEF Starts
<1>2. Covers(ps, es) <=> Cover(ps, es, Len(ps), Len(es), 0)
  BY <1>1, CoversPrefix, Zenon DEF Pattern
<1> QED
  BY <1>2, MatcherAll, Zenon

\* A pattern and the elements read from behind are covered by the same cuts.
LEMMA CoversReversed ==
  ASSUME NEW ps, NEW qs, NEW rs, NEW es, Len(ps) \in Nat, Len(qs) \in Nat, Len(es) = Len(qs),
         Len(rs) = Len(ps),
         \A k \in 1 .. Len(ps) : rs[Len(ps) - k + 1] = ps[k],
         \A m \in 1 .. Len(qs) : es[Len(qs) - m + 1] = qs[m]
  PROVE  Covers(ps, qs) <=> Cover(rs, es, Len(ps), Len(qs), 0)
<1> DEFINE n == Len(qs)
           r == Len(ps)
<1>1. ASSUME NEW k \in 1 .. r, NEW a \in 0 .. n, NEW z \in 0 .. n
      PROVE  Piece(ps, qs, k, a, z) <=> Takes(rs, es, k, a, z)
  <2>1. \A m \in (a + 1) .. z : m \in 1 .. n
    OBVIOUS
  <2>2. \A m \in (a + 1) .. z : es[n - m + 1] = qs[m]
    BY <2>1, Zenon
  <2>3. rs[r - k + 1] = ps[k]
    BY Zenon
  <2>4. z >= a <=> a <= z
    OBVIOUS
  <2> QED
    BY <2>2, <2>3, <2>4, Zenon DEF Piece, Takes, Star, Ok
<1> HIDE DEF n, r
<1>2. n \in Nat /\ r \in Nat
  BY Zenon DEF n, r
<1>3. \A k \in 1 .. r : k \in 0 .. r /\ k - 1 \in 0 .. r
  BY <1>2
<1>4. ASSUME Covers(ps, qs)
      PROVE  Cover(rs, es, r, n, 0)
  <2>1. PICK cut \in [0 .. r -> 0 .. n] :
             /\ cut[0] = 0 /\ cut[r] = n
             /\ \A k \in 1 .. r : Piece(ps, qs, k, cut[k - 1], cut[k])
    BY <1>4, CoversPieces, Zenon DEF n, r
  <2>2. \A k \in 1 .. r : Takes(rs, es, k, cut[k - 1], cut[k])
    BY <1>1, <1>3, <2>1, Zenon
  <2>3. cut \in [0 .. r -> Nat]
    OBVIOUS
  <2> QED
    BY <2>1, <2>2, <2>3, Zenon DEF Cover
<1>5. ASSUME Cover(rs, es, r, n, 0)
      PROVE  Covers(ps, qs)
  <2>1. PICK c \in [0 .. r -> Nat] : /\ c[0] = 0 /\ c[r] = n
                                     /\ \A k \in 1 .. r : Takes(rs, es, k, c[k - 1], c[k])
    BY <1>5, Zenon DEF Cover
  <2>2. \A k \in 0 .. r : 0 <= c[k] /\ c[k] <= n
    <3>1. \A k \in 1 .. r : c[k - 1] <= c[k]
      BY <2>1, Zenon DEF Takes
    <3>2. c \in [0 .. r -> Int]
      OBVIOUS
    <3> QED
      BY <1>2, <2>1, <3>1, <3>2, CutsBetween, Zenon
  <2>3. c \in [0 .. r -> 0 .. n]
    BY <1>2, <2>2
  <2>4. \A k \in 1 .. r : Piece(ps, qs, k, c[k - 1], c[k])
    BY <1>1, <1>3, <2>1, <2>3, Zenon
  <2> QED
    BY <2>1, <2>3, <2>4, CoversPieces, Zenon DEF n, r
<1> QED
  BY <1>4, <1>5, Zenon DEF n, r

LEMMA FromFacts ==
  ASSUME NEW p \in Int, NEW n \in Nat
  PROVE  Len(From(p, n)) = n /\ \A k \in 1 .. n : From(p, n)[k] = p + k - 1
BY DEF From

\* What stands before a match is covered by the pattern in front.
LEMMA InFrontRight ==
  ASSUME NEW rule, Pattern(rule.pre), NEW p \in Nat \ {0}
  PROVE  InFront(rule, p) <=> Covers(rule.pre, From(1, p - 1))
<1> DEFINE pre == rule.pre
           rs == Reverse(pre)
           es == Before(p)
           qs == From(1, p - 1)
           r == Len(pre)
<1>1. p - 1 \in Nat /\ 1 \in Int /\ r \in Nat
  BY DEF Pattern
<1>2. Len(qs) = p - 1 /\ \A m \in 1 .. (p - 1) : qs[m] = m
  <2>1. Len(qs) = p - 1 /\ \A m \in 1 .. (p - 1) : qs[m] = 1 + m - 1
    BY <1>1, FromFacts, Zenon
  <2>2. \A m \in 1 .. (p - 1) : 1 + m - 1 = m
    OBVIOUS
  <2> QED
    BY <2>1, <2>2, Zenon
<1>3. Len(es) = p - 1 /\ \A m \in 1 .. (p - 1) : es[m] = p - m
  BY <1>1 DEF Before
<1>4. Len(rs) = r /\ \A m \in 1 .. r : rs[m] = pre[(r - m) + 1]
  <2> DEFINE g == [m \in 1 .. r |-> pre[(r - m) + 1]]
  <2>1. Len(g) = r /\ \A m \in 1 .. r : g[m] = pre[(r - m) + 1]
    BY <1>1
  <2>2. rs = g
    BY Zenon DEF Reverse, r
  <2> HIDE DEF g, rs
  <2> QED
    BY <2>1, <2>2, Zenon
<1> HIDE DEF rs, es, qs, pre
<1>5. \A k \in 1 .. r : rs[r - k + 1] = pre[k]
  <2> HIDE DEF r
  <2>1. \A k \in 1 .. r : r - k + 1 \in 1 .. r /\ (r - (r - k + 1)) + 1 = k
    BY <1>1
  <2> QED
    BY <1>4, <2>1, Zenon
<1>6. \A m \in 1 .. (p - 1) : es[(p - 1) - m + 1] = qs[m]
  <2>1. \A m \in 1 .. (p - 1) : (p - 1) - m + 1 \in 1 .. (p - 1) /\ p - ((p - 1) - m + 1) = m
    OBVIOUS
  <2> QED
    BY <1>2, <1>3, <2>1, Zenon
<1>7. Covers(pre, qs) <=> Cover(rs, es, r, p - 1, 0)
  <2>1. Len(es) = Len(qs) /\ Len(qs) \in Nat
    BY <1>1, <1>2, <1>3
  <2>2. \A m \in 1 .. Len(qs) : es[Len(qs) - m + 1] = qs[m]
    <3>1. Len(qs) = p - 1
      BY <1>2, Zenon
    <3> QED
      BY <1>6, <3>1
  <2>3. Covers(pre, qs) <=> Cover(rs, es, r, Len(qs), 0)
    BY <1>1, <1>4, <1>5, <2>1, <2>2, CoversReversed, Zenon
  <2> QED
    BY <1>2, <2>3, Zenon
<1>8. Pattern(rs)
  <2>0. Pattern(pre)
    BY Zenon DEF pre
  <2> HIDE DEF r
  <2>1. \A m \in 1 .. r : (r - m) + 1 \in 1 .. r
    BY <1>1
  <2> QED
    BY <1>1, <1>4, <2>0, <2>1, Zenon DEF Pattern, r
<1>9. regexps_match(rs, es, TRUE, FALSE) # -1 <=> Cover(rs, es, r, p - 1, 0)
  BY <1>1, <1>3, <1>4, <1>8, MatcherAll, Zenon
<1>10. CASE pre = <<>>
  <2>1. r = 0
    BY <1>10
  <2>2. 0 \in Nat /\ (p - 1 = 0 <=> p = 1)
    OBVIOUS
  <2>3. Cover(rs, es, 0, p - 1, 0) <=> p - 1 = 0
    BY <1>1, <2>2, CoverNone
  <2>4. Covers(pre, qs) <=> p = 1
    BY <1>7, <2>1, <2>2, <2>3, Zenon
  <2> QED
    BY <1>10, <2>4, Zenon DEF InFront, qs, pre
<1>11. CASE pre # <<>>
  BY <1>7, <1>9, <1>11, Zenon DEF InFront, rs, es, qs, pre
<1> QED
  BY <1>10, <1>11
-----------------------------------------------------------------------------
(* The loop that shortens a match                                          *)

RulePatterns(rule) == Pattern(rule.pre) /\ Pattern(rule.self) /\ Pattern(rule.post)

\* What the loop of regexprule_match looks at: the longest match among n elements,
\* and whether there is one.
Fails(rule, p, n) == rule.self # <<>> /\ regexps_match(rule.self, From(p, n), FALSE, TRUE) = -1
Longest(rule, p, n) ==
  IF rule.self = <<>> THEN 1 ELSE n - regexps_match(rule.self, From(p, n), FALSE, TRUE)
ShrinkBody(rule, p, h, n) ==
  IF n = 0 THEN -1
  ELSE IF Fails(rule, p, n) THEN -1
  ELSE IF Behind(rule, p, Longest(rule, p, n)) THEN Longest(rule, p, n)
  ELSE IF Longest(rule, p, n) = 0 THEN -1
  ELSE h[Longest(rule, p, n) - 1]

LEMMA LongestType ==
  ASSUME NEW rule, RulePatterns(rule), NEW p \in Nat \ {0}, NEW n \in Nat \ {0}, ~ Fails(rule, p, n)
  PROVE  Longest(rule, p, n) \in 0 .. n
<1>1. CASE rule.self = <<>>
  <2>1. 1 \in 0 .. n
    OBVIOUS
  <2> QED
    BY <1>1, <2>1, Zenon DEF Longest
<1>2. CASE rule.self # <<>>
  <2> DEFINE v == regexps_match(rule.self, From(p, n), FALSE, TRUE)
  <2>1. p \in Int /\ n \in Nat /\ TRUE \in BOOLEAN /\ FALSE \in BOOLEAN
    OBVIOUS
  <2>2. Len(From(p, n)) = n
    BY <2>1, FromFacts, Zenon
  <2>3. Right(rule.self, From(p, n), FALSE, TRUE, Len(rule.self), Len(From(p, n)), v)
    BY <2>1, <2>2, MatcherRight, Zenon DEF RulePatterns
  <2>4. v # -1 /\ Longest(rule, p, n) = n - v
    BY <1>2, Zenon DEF Fails, Longest
  <2> HIDE DEF v
  <2>5. v \in -1 .. n
    BY <2>2, <2>3, Zenon DEF Right
  <2>6. n - v \in 0 .. n
    BY <2>4, <2>5
  <2> QED
    BY <2>4, <2>6, Zenon
<1> QED
  BY <1>1, <1>2

\* The loop has a value, and it is determined by what the loop looks at.
LEMMA ShrinkDefined ==
  ASSUME NEW rule, RulePatterns(rule), NEW p \in 1 .. N
  PROVE  \E h : /\ \A n \in 0 .. (N - p + 1) : h[n] = ShrinkBody(rule, p, h, n)
                /\ regexprule_match(rule, p) = IF InFront(rule, p) THEN h[N - p + 1] ELSE -1
<1> DEFINE fw == N - p + 1
           D == 0 .. fw
           mu == [n \in D |-> n]
           G == [n \in D |-> [h \in [D -> Int] |-> ShrinkBody(rule, p, h, n)]]
           Eq(h) == h = [n \in D |-> ShrinkBody(rule, p, h, n)]
<1>1. fw \in Nat /\ p \in Nat \ {0} /\ -1 \in Int
  BY NAssumption
<1>2. ASSUME NEW n \in D, n # 0, ~ Fails(rule, p, n)
      PROVE  /\ Longest(rule, p, n) \in 0 .. n
             /\ Longest(rule, p, n) # 0 => Longest(rule, p, n) - 1 \in D /\ Longest(rule, p, n) - 1 < n
  <2>1. n \in Nat \ {0}
    BY <1>2
  <2>2. Longest(rule, p, n) \in 0 .. n
    BY <1>1, <1>2, <2>1, LongestType, Zenon
  <2>3. \A l \in 0 .. n : l # 0 => l - 1 \in D /\ l - 1 < n
    BY <1>1, <2>1
  <2> QED
    BY <2>2, <2>3, Zenon
<1>3. mu \in [D -> Nat] /\ \A n \in D : mu[n] <= fw
  BY <1>1
<1>4. ASSUME NEW n \in D, NEW h \in [D -> Int]
      PROVE  ShrinkBody(rule, p, h, n) \in Int
  <2>1. \A l \in 0 .. n : l \in Int
    OBVIOUS
  <2>2. \A x \in D : h[x] \in Int
    BY Zenon
  <2> HIDE DEF D
  <2> QED
    BY <1>1, <1>2, <2>1, <2>2, Zenon DEF ShrinkBody
<1>5. \A n \in D : \A g, h \in [D -> Int] :
        (\A y \in D : mu[y] < mu[n] => g[y] = h[y]) => G[n][g] = G[n][h]
  <2> SUFFICES ASSUME NEW n \in D, NEW g \in [D -> Int], NEW h \in [D -> Int],
                      \A y \in D : mu[y] < mu[n] => g[y] = h[y]
               PROVE  ShrinkBody(rule, p, g, n) = ShrinkBody(rule, p, h, n)
    BY Zenon
  <2>1. \A y \in D : y < n => g[y] = h[y]
    BY Zenon
  <2> HIDE DEF D, mu
  <2> QED
    BY <1>2, <2>1, Zenon DEF ShrinkBody
<1>6. \E h : Eq(h)
  <2>1. G \in [D -> [[D -> Int] -> Int]]
    <3> HIDE DEF D
    <3> QED
      BY <1>4, Zenon
  <2>2. Decreasing(D, Int, -1, mu, fw, G)
    <3> HIDE DEF D, mu, fw, G
    <3> QED
      BY <1>1, <1>3, <1>5, <2>1, Zenon DEF Decreasing
  <2>3. PICK h \in [D -> Int] : \A n \in D : h[n] = G[n][h]
    <3> HIDE DEF D, mu, fw, G
    <3> QED
      BY <2>2, MeasureExists
  <2>4. ASSUME NEW n \in D
        PROVE  h[n] = ShrinkBody(rule, p, h, n)
    <3>1. G[n][h] = ShrinkBody(rule, p, h, n)
      <4> HIDE DEF D
      <4> QED
        BY <2>3, Zenon
    <3> HIDE DEF D, mu, G
    <3> QED
      BY <2>3, <3>1, Zenon
  <2>5. h = [n \in D |-> h[n]]
    BY <2>3, Zenon
  <2>6. h = [n \in D |-> ShrinkBody(rule, p, h, n)]
    BY <2>4, <2>5, Zenon
  <2> QED
    BY <2>6, Zenon
<1> DEFINE h == CHOOSE h : Eq(h)
<1>7. regexprule_match(rule, p) = IF InFront(rule, p) THEN h[fw] ELSE -1
  BY Zenon DEF regexprule_match, ShrinkBody, Longest, Fails
<1>8. Eq(h)
  <2> HIDE DEF Eq
  <2> QED
    BY <1>6, Zenon
<1> HIDE DEF h
<1>9. ASSUME NEW n \in D
      PROVE  h[n] = ShrinkBody(rule, p, h, n)
  <2> DEFINE g == [y \in D |-> ShrinkBody(rule, p, h, y)]
  <2>1. h = g
    BY <1>8, Zenon
  <2>2. g[n] = ShrinkBody(rule, p, h, n)
    BY Zenon
  <2> QED
    BY <2>1, <2>2, Zenon
<1> QED
  BY <1>7, <1>9, Zenon

SelfFits(rule, p, l) == IF rule.self = <<>> THEN l = 1 ELSE Covers(rule.self, From(p, l))

\* The longest match among n elements is the longest that can be covered.
LEMMA LongestRight ==
  ASSUME NEW rule, RulePatterns(rule), rule.self # <<>> => \E k \in 1 .. Len(rule.self) : ~ rule.self[k].star,
         NEW p \in Nat \ {0}, NEW n \in Nat \ {0}
  PROVE  /\ Fails(rule, p, n) => \A k \in 1 .. n : ~ SelfFits(rule, p, k)
         /\ ~ Fails(rule, p, n) => /\ Longest(rule, p, n) \in 1 .. n
                                   /\ SelfFits(rule, p, Longest(rule, p, n))
                                   /\ \A k \in 1 .. n : SelfFits(rule, p, k) => k <= Longest(rule, p, n)
<1>1. CASE rule.self = <<>>
  <2>1. 1 \in 1 .. n /\ 1 <= 1
    OBVIOUS
  <2> QED
    BY <1>1, <2>1, Zenon DEF Fails, Longest, SelfFits
<1>2. CASE rule.self # <<>>
  <2> DEFINE ps == rule.self
             es == From(p, n)
             v == regexps_match(ps, es, FALSE, TRUE)
             C(b) == Cover(ps, es, Len(ps), n, b)
  <2>0. n \in Nat /\ p \in Int
    OBVIOUS
  <2>1. Len(es) = n /\ \A k \in 1 .. n : es[k] = p + k - 1
    BY <2>0, FromFacts, Zenon
  <2>2. Pattern(ps) /\ Len(ps) \in Nat /\ Len(es) \in Nat
    <3>1. Pattern(ps) /\ Len(ps) \in Nat
      BY Zenon DEF RulePatterns, Pattern
    <3> HIDE DEF es, ps
    <3> QED
      BY <2>1, <3>1
  <2>3. Right(ps, es, FALSE, TRUE, Len(ps), n, v)
    <3>1. TRUE \in BOOLEAN /\ FALSE \in BOOLEAN
      OBVIOUS
    <3>2. Right(ps, es, FALSE, TRUE, Len(ps), Len(es), v)
      BY <2>2, <3>1, MatcherRight, Zenon
    <3> HIDE DEF ps, es, v
    <3> QED
      BY <2>1, <3>2, Zenon
  <2>4. /\ Fails(rule, p, n) <=> v = -1
        /\ Longest(rule, p, n) = n - v
        /\ \A k \in 1 .. n : SelfFits(rule, p, k) <=> Covers(ps, From(p, k))
    BY <1>2, Zenon DEF Fails, Longest, SelfFits
  <2>5. ASSUME NEW k \in 1 .. n
        PROVE  Covers(ps, From(p, k)) <=> C(n - k)
    <3> DEFINE qs == From(p, k)
    <3>1. k \in Nat /\ k \in 0 .. n /\ \A m \in 1 .. k : m \in 1 .. n
      OBVIOUS
    <3>2. Len(qs) = k /\ \A m \in 1 .. k : qs[m] = p + m - 1
      BY <2>0, <3>1, FromFacts, Zenon
    <3> HIDE DEF qs, es, ps
    <3>3. Starts(qs, es)
      BY <2>1, <2>2, <3>1, <3>2 DEF Starts
    <3>4. Covers(ps, qs) <=> Cover(ps, es, Len(ps), Len(es), Len(es) - Len(qs))
      BY <2>2, <3>3, CoversPrefix, Zenon
    <3>5. Covers(ps, qs) <=> C(n - k)
      BY <2>1, <3>2, <3>4, Zenon
    <3> QED
      BY <3>5, Zenon DEF qs
  <2>6. v \in -1 .. n /\ (v # -1 => C(v)) /\ \A b \in Nat : C(b) => v # -1 /\ v <= b
    <3> HIDE DEF v, es, ps
    <3> QED
      BY <2>3, Zenon DEF Right
  <2>7. \A b \in Nat : C(b) => b < n
    <3>1. PICK k \in 1 .. Len(ps) : ~ ps[k].star
      BY <1>2, Zenon
    <3> DEFINE q == Len(ps) - k + 1
    <3> HIDE DEF ps, es
    <3>2. q \in Nat \ {0} /\ q <= Len(ps) /\ Len(ps) - q + 1 = k
      BY <2>2
    <3> HIDE DEF q
    <3>3. ~ Star(ps, q)
      BY <3>1, <3>2, Zenon DEF Star
    <3> QED
      BY <2>0, <2>2, <3>2, <3>3, CoverMore, Zenon
  <2> DEFINE L == n - v
  <2> HIDE DEF v, es, ps, C
  <2>8. ASSUME v # -1
        PROVE  L \in 1 .. n /\ v \in Nat /\ n - L = v
    <3>1. v \in Nat
      BY <2>6, <2>8
    <3>2. v < n
      BY <2>6, <2>7, <2>8, <3>1, Zenon
    <3> QED
      BY <3>1, <3>2
  <2> HIDE DEF L
  <2>9. ASSUME v # -1
        PROVE  L \in 1 .. n /\ Covers(ps, From(p, L))
    <3>1. L \in 1 .. n /\ C(n - L)
      BY <2>6, <2>8, <2>9, Zenon
    <3> QED
      BY <2>5, <3>1, Zenon
  <2>10. ASSUME NEW k \in 1 .. n, Covers(ps, From(p, k))
         PROVE  v # -1 /\ k <= L
    <3>1. n - k \in Nat
      OBVIOUS
    <3>2. v # -1 /\ v <= n - k
      BY <2>5, <2>6, <2>10, <3>1, Zenon
    <3>3. v \in Nat
      BY <2>6, <3>2
    <3> QED
      BY <3>2, <3>3 DEF L
  <2> QED
    BY <2>4, <2>9, <2>10, Zenon DEF L
<1> QED
  BY <1>1, <1>2

\* The elements left behind a match are covered by the pattern behind.
LEMMA BehindRight ==
  ASSUME NEW rule, RulePatterns(rule), NEW p \in 1 .. N, NEW l \in 1 .. (N - p + 1)
  PROVE  Behind(rule, p, l) <=> rule.post = <<>> \/ Covers(rule.post, From(p + l, N - p + 1 - l))
<1> DEFINE es == From(p + l, N - p + 1 - l)
<1>1. p + l \in Int /\ N - p + 1 - l \in Nat
  BY NAssumption
<1>2. Len(es) \in Nat
  BY <1>1, FromFacts, Zenon
<1>3. Pattern(rule.post)
  BY Zenon DEF RulePatterns
<1>4. regexps_match(rule.post, es, TRUE, FALSE) # -1 <=> Covers(rule.post, es)
  BY <1>2, <1>3, CoversAll, Zenon
<1> QED
  BY <1>4, Zenon DEF Behind

\* The lengths up to n at which the rule fits, but for what stands before.
Fitting(rule, p, n) ==
  {l \in 1 .. n : /\ SelfFits(rule, p, l)
                  /\ rule.post = <<>> \/ Covers(rule.post, From(p + l, N - p + 1 - l))}

\* v is the greatest of S, or -1 if S is empty.
Greatest(v, S) == (v = -1 /\ S = {}) \/ (v \in S /\ \A k \in S : k <= v)

\* The loop that shortens the match finds the longest one that fits.
LEMMA ShrinkRight ==
  ASSUME NEW rule, RulePatterns(rule), rule.self # <<>> => \E k \in 1 .. Len(rule.self) : ~ rule.self[k].star,
         NEW p \in 1 .. N, NEW h,
         \A n \in 0 .. (N - p + 1) : h[n] = ShrinkBody(rule, p, h, n)
  PROVE  \A n \in 0 .. (N - p + 1) : Greatest(h[n], Fitting(rule, p, n))
<1> DEFINE fw == N - p + 1
           D == 0 .. fw
           mu == [n \in D |-> n]
           Q == {n \in D : Greatest(h[n], Fitting(rule, p, n))}
<1>0. p \in Nat \ {0} /\ fw \in Nat
  BY NAssumption
<1>1. mu \in [D -> Nat] /\ \A n \in D : mu[n] = n
  OBVIOUS
<1>2. ASSUME NEW n \in D, \A y \in D : mu[y] < mu[n] => y \in Q
      PROVE  n \in Q
  <2> DEFINE l == Longest(rule, p, n)
             S(m) == Fitting(rule, p, m)
  <2>1. CASE n = 0
    <3>1. h[n] = -1
      BY <2>1, Zenon DEF ShrinkBody
    <3>2. \A k \in 1 .. n : FALSE
      BY <2>1
    <3> QED
      BY <3>1, <3>2, Zenon DEF Greatest, Fitting
  <2>2. CASE n # 0 /\ Fails(rule, p, n)
    <3>1. h[n] = -1
      BY <2>2, Zenon DEF ShrinkBody
    <3>2. n \in Nat \ {0}
      BY <2>2
    <3>3. \A k \in 1 .. n : ~ SelfFits(rule, p, k)
      BY <1>0, <2>2, <3>2, LongestRight, Zenon
    <3> QED
      BY <3>1, <3>3, Zenon DEF Greatest, Fitting
  <2>3. CASE n # 0 /\ ~ Fails(rule, p, n)
    <3>1. n \in Nat \ {0} /\ \A k \in 1 .. n : k \in 1 .. fw
      BY <1>0, <2>3
    <3>2. /\ l \in 1 .. n /\ SelfFits(rule, p, l)
          /\ \A k \in 1 .. n : SelfFits(rule, p, k) => k <= l
      BY <1>0, <2>3, <3>1, LongestRight, Zenon
    <3>3. l \in S(n) <=> Behind(rule, p, l)
      <4>1. Behind(rule, p, l) <=> rule.post = <<>> \/ Covers(rule.post, From(p + l, N - p + 1 - l))
        <5> HIDE DEF l
        <5> QED
          BY <3>1, <3>2, BehindRight, Zenon
      <4> QED
        BY <3>2, <4>1, Zenon DEF Fitting
    <3>4. \A k \in S(n) : k <= l /\ k \in 1 .. n
      BY <3>2, Zenon DEF Fitting
    <3>5. h[n] = IF Behind(rule, p, l) THEN l ELSE IF l = 0 THEN -1 ELSE h[l - 1]
      BY <2>3, Zenon DEF ShrinkBody
    <3>6. CASE Behind(rule, p, l)
      <4> HIDE DEF l
      <4> QED
        BY <3>3, <3>4, <3>5, <3>6, Zenon DEF Greatest
    <3>7. CASE ~ Behind(rule, p, l)
      <4> HIDE DEF l
      <4>1. l # 0 /\ l - 1 \in D /\ mu[l - 1] < mu[n]
        BY <1>0, <1>1, <3>1, <3>2
      <4>2. h[n] = h[l - 1] /\ Greatest(h[l - 1], S(l - 1))
        BY <1>2, <3>5, <3>7, <4>1, Zenon
      <4>3. \A k \in 1 .. n : k <= l /\ k # l => k \in 1 .. (l - 1)
        BY <3>1, <3>2
      <4>4. \A k \in 1 .. (l - 1) : k \in 1 .. n
        BY <3>1, <3>2
      <4>5. S(l - 1) = S(n)
        <5>1. ASSUME NEW k \in S(n)
              PROVE  k \in S(l - 1)
          <6>1. k \in 1 .. (l - 1)
            BY <3>3, <3>4, <3>7, <4>3, <5>1, Zenon
          <6> QED
            BY <5>1, <6>1, Zenon DEF Fitting
        <5>2. ASSUME NEW k \in S(l - 1)
              PROVE  k \in S(n)
          BY <4>4, <5>2, Zenon DEF Fitting
        <5> HIDE DEF S
        <5> QED
          BY <5>1, <5>2, Zenon
      <4> HIDE DEF S
      <4>6. Greatest(h[n], S(n))
        BY <4>2, <4>5, Zenon
      <4> QED
        BY <4>6, Zenon DEF S
    <3> QED
      BY <3>6, <3>7, Zenon
  <2> QED
    BY <2>1, <2>2, <2>3, Zenon
<1>3. \A n \in D : n \in Q
  <2> HIDE DEF D, mu, Q
  <2> QED
    BY <1>1, <1>2, MeasureInduction
<1> QED
  BY <1>3, Zenon

\* A match ends in the sentence, whatever the patterns are.
LEMMA MatchType ==
  ASSUME NEW rule, RulePatterns(rule), NEW p \in 1 .. N
  PROVE  regexprule_match(rule, p) \in -1 .. (N - p + 1)
<1> DEFINE fw == N - p + 1
           D == 0 .. fw
           mu == [n \in D |-> n]
<1>0. p \in Nat \ {0} /\ fw \in Nat
  BY NAssumption
<1>1. PICK h : /\ \A n \in D : h[n] = ShrinkBody(rule, p, h, n)
               /\ regexprule_match(rule, p) = IF InFront(rule, p) THEN h[fw] ELSE -1
  BY ShrinkDefined, Zenon
<1> DEFINE Q == {n \in D : h[n] \in -1 .. n}
<1>2. mu \in [D -> Nat] /\ \A n \in D : mu[n] = n
  OBVIOUS
<1>3. ASSUME NEW n \in D, \A y \in D : mu[y] < mu[n] => y \in Q
      PROVE  n \in Q
  <2> DEFINE l == Longest(rule, p, n)
  <2>1. h[n] = ShrinkBody(rule, p, h, n) /\ -1 \in -1 .. n
    BY <1>1
  <2>2. CASE n = 0 \/ Fails(rule, p, n)
    BY <2>1, <2>2, Zenon DEF ShrinkBody
  <2>3. CASE n # 0 /\ ~ Fails(rule, p, n)
    <3>1. n \in Nat \ {0}
      BY <2>3
    <3>2. l \in 0 .. n
      BY <1>0, <2>3, <3>1, LongestType, Zenon
    <3>3. h[n] = IF Behind(rule, p, l) THEN l ELSE IF l = 0 THEN -1 ELSE h[l - 1]
      BY <2>1, <2>3, Zenon DEF ShrinkBody
    <3> HIDE DEF l
    <3>4. l \in -1 .. n
      BY <3>2
    <3>5. ASSUME l # 0
          PROVE  h[l - 1] \in -1 .. n
      <4>1. l - 1 \in D /\ mu[l - 1] < mu[n]
        BY <1>0, <1>2, <3>1, <3>2, <3>5
      <4>2. h[l - 1] \in -1 .. (l - 1)
        BY <1>3, <4>1, Zenon
      <4>3. \A x \in -1 .. (l - 1) : x \in -1 .. n
        BY <3>1, <3>2
      <4> QED
        BY <4>2, <4>3, Zenon
    <3> QED
      BY <2>1, <3>3, <3>4, <3>5, Zenon
  <2> QED
    BY <2>2, <2>3, Zenon
<1>4. \A n \in D : n \in Q
  <2> HIDE DEF D, mu, Q
  <2> QED
    BY <1>2, <1>3, MeasureInduction
<1>5. fw \in D /\ -1 \in -1 .. fw
  BY <1>0
<1>6. h[fw] \in -1 .. fw
  BY <1>4, <1>5, Zenon
<1> QED
  BY <1>1, <1>5, <1>6, Zenon

\* A rule whose pattern is not one of asterisks only matches at the greatest
\* length at which it fits.
LEMMA MatchGreatest ==
  ASSUME NEW rule, RulePatterns(rule), rule.self # <<>> => \E k \in 1 .. Len(rule.self) : ~ rule.self[k].star,
         NEW p \in 1 .. N
  PROVE  Greatest(regexprule_match(rule, p), Lengths(rule, p))
<1> DEFINE fw == N - p + 1
<1>0. p \in Nat \ {0} /\ fw \in 0 .. fw
  BY NAssumption
<1>1. PICK h : /\ \A n \in 0 .. fw : h[n] = ShrinkBody(rule, p, h, n)
               /\ regexprule_match(rule, p) = IF InFront(rule, p) THEN h[fw] ELSE -1
  BY ShrinkDefined, Zenon
<1>2. Greatest(h[fw], Fitting(rule, p, fw))
  BY <1>0, <1>1, ShrinkRight, Zenon
<1>3. InFront(rule, p) <=> Covers(rule.pre, From(1, p - 1))
  BY <1>0, InFrontRight, Zenon DEF RulePatterns
<1>4. CASE InFront(rule, p)
  <2>1. Lengths(rule, p) = Fitting(rule, p, fw)
    BY <1>3, <1>4, Zenon DEF Lengths, Fitting, SelfFits
  <2> QED
    BY <1>1, <1>2, <1>4, <2>1, Zenon
<1>5. CASE ~ InFront(rule, p)
  <2>1. Lengths(rule, p) = {}
    BY <1>3, <1>5, Zenon DEF Lengths
  <2> QED
    BY <1>1, <1>5, <2>1, Zenon DEF Greatest
<1> QED
  BY <1>4, <1>5, Zenon

LEMMA MatchRight ==
  ASSUME NEW rule, RulePatterns(rule), rule.self # <<>> => \E k \in 1 .. Len(rule.self) : ~ rule.self[k].star,
         NEW p \in 1 .. N
  PROVE  regexprule_match(rule, p) =
           IF Lengths(rule, p) = {} THEN -1
           ELSE CHOOSE l \in Lengths(rule, p) : \A k \in Lengths(rule, p) : k <= l
<1> DEFINE S == Lengths(rule, p)
           v == regexprule_match(rule, p)
           g == CHOOSE l \in S : \A k \in S : k <= l
<1>1. Greatest(v, S)
  BY MatchGreatest, Zenon
<1>2. \A k \in S : k \in Int
  <2>1. \A k \in S : k \in 1 .. (N - p + 1)
    BY Zenon DEF Lengths
  <2> HIDE DEF S
  <2> QED
    BY <2>1
<1> HIDE DEF S, v
<1>3. CASE S = {}
  BY <1>1, <1>3, Zenon DEF Greatest, S, v
<1>4. CASE S # {}
  <2>1. v \in S /\ \A k \in S : k <= v
    BY <1>1, <1>4, Zenon DEF Greatest
  <2>2. g \in S /\ \A k \in S : k <= g
    BY <2>1, Zenon
  <2> HIDE DEF g
  <2>3. v <= g /\ g <= v /\ v \in Int /\ g \in Int
    BY <1>2, <2>1, <2>2, Zenon
  <2>4. v = g
    BY <2>3
  <2> QED
    BY <1>4, <2>4, Zenon DEF g, S, v
<1> QED
  BY <1>3, <1>4, Zenon
-----------------------------------------------------------------------------
(* Types                                                                   *)

\* What InputsAssumption says of an input, as the proofs use it.
LEMMA InputFacts ==
  ASSUME NEW in \in Inputs
  PROVE  /\ in.mode \in {"MRM", "RMM"} /\ in.dir \in {"LtoR", "RtoL"} /\ in.nbest \in BOOLEAN
         /\ Len(in.rules) \in Nat /\ DOMAIN in.rules = 1 .. Len(in.rules) /\ Len(in.structs) \in Nat
         /\ \A r \in 1 .. Len(in.rules) : RulePatterns(in.rules[r])
<1>1. Len(in.rules) \in Nat /\ DOMAIN in.rules = 1 .. Len(in.rules) /\ Len(in.structs) \in Nat
  <2>1. in.structs \in Seq(Range(in.structs)) /\ in.rules \in Seq(Range(in.rules))
    BY InputsAssumption, Zenon
  <2>2. \A s : \A S : s \in Seq(S) => Len(s) \in Nat /\ DOMAIN s = 1 .. Len(s)
    OBVIOUS
  <2> QED
    BY <2>1, <2>2, Zenon
<1>2. ASSUME NEW r \in 1 .. Len(in.rules), NEW ps \in {in.rules[r].pre, in.rules[r].self, in.rules[r].post}
      PROVE  Pattern(ps)
  <2>1. ps \in Seq(Range(ps)) /\ \A k \in DOMAIN ps : ps[k].star \in BOOLEAN
    BY <1>1, <1>2, InputsAssumption, Zenon
  <2>2. \A s : \A S : s \in Seq(S) => Len(s) \in Nat /\ DOMAIN s = 1 .. Len(s)
    OBVIOUS
  <2>3. Len(ps) \in Nat /\ DOMAIN ps = 1 .. Len(ps)
    BY <2>1, <2>2, Zenon
  <2> QED
    BY <2>1, <2>3, Zenon DEF Pattern
<1>3. \A r \in 1 .. Len(in.rules) : RulePatterns(in.rules[r])
  BY <1>2, Zenon DEF RulePatterns
<1> QED
  BY <1>1, <1>3, InputsAssumption, Zenon

\* The values of the loop variables.
Loops ==
  /\ input \in Inputs /\ turn \in Nat \ {0} /\ i \in Nat /\ j \in Nat \ {0}
  /\ pc \in {"idle", "rules", "print", "done", "crashed"}

\* The rule that is tried and the place where it is tried exist.
LEMMA Tried ==
  ASSUME Loops, ~ LoopsOver
  PROVE  /\ Position \in 1 .. N /\ (input.dir = "LtoR" => Position = i + 1)
         /\ j \in 1 .. Len(input.rules) /\ RulePatterns(Rule)
         /\ regexprule_match(Rule, Position) \in -1 .. (N - Position + 1)
<1> DEFINE m == Len(input.rules)
<1>1. /\ m \in Nat /\ \A r \in 1 .. m : RulePatterns(input.rules[r])
      /\ i \in Nat /\ j \in Nat \ {0}
  BY InputFacts, Zenon DEF Loops
<1>2. ~ (i >= N) /\ ~ (j > m)
  BY Zenon DEF LoopsOver
<1> HIDE DEF m
<1>3. j \in 1 .. m
  BY <1>1, <1>2
<1>4. i + 1 \in 1 .. N /\ N - i \in 1 .. N
  BY <1>1, <1>2, NAssumption
<1>5. Position \in 1 .. N /\ (input.dir = "LtoR" => Position = i + 1)
  BY <1>4, Zenon DEF Position
<1>6. RulePatterns(Rule)
  BY <1>1, <1>3, Zenon DEF Rule
<1>7. regexprule_match(Rule, Position) \in -1 .. (N - Position + 1)
  BY <1>5, <1>6, MatchType, Zenon
<1> QED
  BY <1>3, <1>5, <1>6, <1>7, Zenon DEF m

\* Where the loops go on.
LEMMA WrappedFacts ==
  ASSUME Loops, NEW x \in Nat, NEW y \in Nat \ {0}
  PROVE  /\ Wrapped(<<x, y>>)[1] \in Nat /\ Wrapped(<<x, y>>)[2] \in Nat \ {0}
         /\ input.mode = "MRM" => Wrapped(<<x, y>>)[1] >= x
<1> DEFINE m == Len(input.rules)
           at == <<x, y>>
           A == input.mode = "MRM" /\ at[2] > m
           B == input.mode = "RMM" /\ at[1] >= N
<1>1. Wrapped(at) = CASE A -> <<at[1] + 1, 1>> [] B -> <<0, at[2] + 1>> [] OTHER -> at
  BY Zenon DEF Wrapped
<1>2. at[1] = x /\ at[2] = y
  OBVIOUS
<1> HIDE DEF A, B, at
<1>3. ~ (A /\ B)
  BY DEF A, B
<1>4. CASE A
  <2>1. Wrapped(at) = <<x + 1, 1>>
    BY <1>1, <1>2, <1>3, <1>4
  <2> QED
    BY <2>1 DEF at
<1>5. CASE B
  <2>1. Wrapped(at) = <<0, y + 1>>
    BY <1>1, <1>2, <1>3, <1>5
  <2>2. input.mode # "MRM"
    BY <1>5 DEF B
  <2> QED
    BY <2>1, <2>2 DEF at
<1>6. CASE ~ A /\ ~ B
  <2>1. Wrapped(at) = at
    BY <1>1, <1>6
  <2> QED
    BY <1>2, <2>1 DEF at
<1> QED
  BY <1>4, <1>5, <1>6

LEMMA AfterFacts ==
  ASSUME Loops, NEW l \in Int, l >= -1
  PROVE  \E x \in Nat : \E y \in Nat \ {0} :
           /\ After(l) = <<x, y>>
           /\ /\ input.mode = "MRM" /\ "jump" \in {input.brk, Rule.brk} /\ "normal" \notin {input.brk, Rule.brk}
              => x >= i + (IF l = -1 THEN 0 ELSE l)
<1> DEFINE brk == {input.brk, Rule.brk}
           up == IF l = -1 THEN 0 ELSE l
<1>0. /\ i \in Nat /\ j \in Nat \ {0} /\ i + 1 \in Nat /\ j + 1 \in Nat \ {0} /\ 1 \in Nat \ {0} /\ 0 \in Nat
      /\ i + up \in Nat /\ i >= i + 0 /\ i + l >= i + l
  BY DEF Loops
<1>1. CASE input.mode # "MRM"
  <2>1. After(l) = <<0, j + 1>> \/ After(l) = <<i + 1, j>>
    BY <1>1, Zenon DEF After
  <2> QED
    BY <1>0, <1>1, <2>1, Zenon
<1>2. CASE input.mode = "MRM"
  <2>1. CASE l = -1
    <3>1. After(l) = <<i, j + 1>> /\ up = 0
      BY <1>2, <2>1, Zenon DEF After
    <3> QED
      BY <1>0, <3>1, Zenon
  <2>2. CASE l # -1
    <3>1. up = l /\ i + l \in Nat
      BY <1>0, <2>2
    <3>2. CASE "normal" \in brk
      <4>1. After(l) = <<i + 1, 1>>
        BY <1>2, <2>2, <3>2, Zenon DEF After
      <4> QED
        BY <1>0, <3>2, <4>1, Zenon
    <3>3. CASE "normal" \notin brk /\ "jump" \in brk
      <4>1. After(l) = <<i + l, 1>>
        BY <1>2, <2>2, <3>3, Zenon DEF After
      <4> QED
        BY <1>0, <3>1, <4>1, Zenon
    <3>4. CASE "normal" \notin brk /\ "jump" \notin brk
      <4>1. After(l) = <<i, j + 1>>
        BY <1>2, <2>2, <3>4, Zenon DEF After
      <4> QED
        BY <1>0, <3>4, <4>1, Zenon
    <3> QED
      BY <3>2, <3>3, <3>4, Zenon
  <2> QED
    BY <2>1, <2>2, Zenon
<1> QED
  BY <1>1, <1>2, Zenon

\* The rules jump over what they have matched.
Jumps(in) ==
  /\ in.mode = "MRM" /\ in.dir = "LtoR"
  /\ \A r \in DOMAIN in.rules : {in.brk, in.rules[r].brk} \in {{"jump"}, {"jump", "none"}}

LEMMA GoOnFacts ==
  ASSUME Loops, ~ LoopsOver, NEW l \in Int, l >= -1, GoOn(l)
  PROVE  /\ i' \in Nat /\ j' \in Nat \ {0}
         /\ Jumps(input) => i' >= i + (IF l = -1 THEN 0 ELSE l)
<1>1. PICK x \in Nat, y \in Nat \ {0} :
           /\ After(l) = <<x, y>>
           /\ /\ input.mode = "MRM" /\ "jump" \in {input.brk, Rule.brk} /\ "normal" \notin {input.brk, Rule.brk}
              => x >= i + (IF l = -1 THEN 0 ELSE l)
  BY AfterFacts, Zenon
<1> DEFINE w == Wrapped(<<x, y>>)
<1>2. w[1] \in Nat /\ w[2] \in Nat \ {0} /\ (input.mode = "MRM" => w[1] >= x)
  BY WrappedFacts, Zenon
<1>3. i' = w[1] /\ j' = w[2]
  BY <1>1, Zenon DEF GoOn
<1> HIDE DEF w
<1>4. ASSUME Jumps(input)
      PROVE  i' >= i + (IF l = -1 THEN 0 ELSE l)
  <2>1. DOMAIN input.rules = 1 .. Len(input.rules) /\ j \in 1 .. Len(input.rules)
    BY Tried, InputFacts, Zenon DEF Loops
  <2>2. {input.brk, Rule.brk} \in {{"jump"}, {"jump", "none"}} /\ input.mode = "MRM"
    BY <1>4, <2>1, Zenon DEF Jumps, Rule
  <2>3. "jump" \in {input.brk, Rule.brk} /\ "normal" \notin {input.brk, Rule.brk}
    BY <2>2
  <2>4. x >= i + (IF l = -1 THEN 0 ELSE l) /\ i' >= x
    BY <1>1, <1>2, <1>3, <2>2, <2>3, Zenon
  <2>5. i \in Nat /\ i' \in Nat
    BY <1>2, <1>3, Zenon DEF Loops
  <2>6. \A a, b, c \in Int : a >= b + (IF l = -1 THEN 0 ELSE l) /\ c >= a => c >= b + (IF l = -1 THEN 0 ELSE l)
    OBVIOUS
  <2>7. x \in Int /\ i \in Int /\ i' \in Int
    BY <2>5
  <2> QED
    BY <2>4, <2>6, <2>7, Zenon
<1> QED
  BY <1>2, <1>3, <1>4, Zenon
-----------------------------------------------------------------------------
(* The specification                                                       *)

LEMMA LoopsInit == Init => Loops
BY DEF Init, Loops

LEMMA LoopsNext ==
  ASSUME Loops, [Next]_vars
  PROVE  Loops'
<1> USE DEF Loops
<1>1. CASE Begin
  BY <1>1 DEF Begin
<1>2. CASE ApplyRule
  <2> DEFINE l == regexprule_match(Rule, Position)
  <2>1. ~ LoopsOver /\ l # -1 /\ GoOn(l) /\ UNCHANGED <<input, pc, turn>>
    BY <1>2, Zenon DEF ApplyRule
  <2>2. l \in -1 .. (N - Position + 1) /\ Position \in 1 .. N
    BY <2>1, Tried, Zenon
  <2>3. l \in Int /\ l >= -1
    BY <2>2
  <2> HIDE DEF l
  <2>4. i' \in Nat /\ j' \in Nat \ {0}
    BY <2>1, <2>3, GoOnFacts, Zenon
  <2> QED
    BY <2>1, <2>4, Zenon
<1>3. CASE TryNext
  <2>1. ~ LoopsOver /\ GoOn(-1) /\ UNCHANGED <<input, pc, turn>>
    BY <1>3, Zenon DEF TryNext
  <2>2. -1 \in Int /\ -1 >= -1
    OBVIOUS
  <2>3. i' \in Nat /\ j' \in Nat \ {0}
    BY <2>1, <2>2, GoOnFacts, Zenon
  <2> QED
    BY <2>1, <2>3, Zenon
<1>4. CASE RulesDone
  BY <1>4 DEF RulesDone
<1>5. CASE PrintStructure
  <2>1. /\ pc' \in {"crashed", "idle"} /\ turn' = turn + 1 /\ UNCHANGED <<input, i, j>>
    BY <1>5 DEF PrintStructure
  <2> QED
    BY <2>1
<1>6. CASE Ended
  BY <1>6 DEF Ended, vars
<1>7. CASE UNCHANGED vars
  BY <1>7 DEF vars
<1> QED
  BY <1>1, <1>2, <1>3, <1>4, <1>5, <1>6, <1>7 DEF Next

LEMMA LoopsAlways == Spec => []Loops
BY LoopsInit, LoopsNext, PTL DEF Spec

LEMMA LoopsMatchExact ==
  ASSUME Loops
  PROVE  MatchExact
<1> SUFFICES ASSUME ~ LoopsOver, Rule.self = <<>> \/ \E k \in DOMAIN Rule.self : ~ Rule.self[k].star
             PROVE  regexprule_match(Rule, Position) =
                      IF Lengths(Rule, Position) = {} THEN -1
                      ELSE CHOOSE l \in Lengths(Rule, Position) : \A k \in Lengths(Rule, Position) : k <= l
  BY Zenon DEF MatchExact
<1>1. Position \in 1 .. N /\ RulePatterns(Rule) /\ j \in 1 .. Len(input.rules)
  BY Tried, Zenon
<1>2. Rule.self # <<>> => \E k \in 1 .. Len(Rule.self) : ~ Rule.self[k].star
  <2>1. DOMAIN input.rules = 1 .. Len(input.rules) /\ input \in Inputs
    BY InputFacts, Zenon DEF Loops
  <2>2. Rule.self \in Seq(Range(Rule.self))
    BY <1>1, <2>1, InputsAssumption, Zenon DEF Rule
  <2>3. \A s : \A S : s \in Seq(S) => DOMAIN s = 1 .. Len(s)
    OBVIOUS
  <2>4. DOMAIN Rule.self = 1 .. Len(Rule.self)
    BY <2>2, <2>3, Zenon
  <2> QED
    BY <2>4, Zenon
<1> QED
  BY <1>1, <1>2, MatchRight, Zenon

\* The backtracking matcher and the loop that shortens its matches return, at every
\* place of every sentence and for every rule whose pattern is not one of asterisks
\* only, the greatest length at which the rule fits, -1 if there is none
\* (regexpmrphrule_match).
THEOREM MatchExactAlways == Spec => []MatchExact
BY LoopsAlways, LoopsMatchExact, PTL

\* What makes the matches disjoint: they end where the next element to be looked
\* at begins.
MatchesBehind ==
  Jumps(input) =>
    /\ \A a \in matches : a.from \in Nat /\ a.len \in Nat /\ a.from + a.len <= i + 1
    /\ \A a, b \in matches : a # b => a.from + a.len <= b.from \/ b.from + b.len <= a.from

LEMMA MatchesBehindNext ==
  ASSUME Loops, MatchesBehind, [Next]_vars
  PROVE  MatchesBehind'
<1>1. CASE UNCHANGED <<input, matches>> /\ i' \in Nat /\ (Jumps(input) => i' >= i)
  <2> SUFFICES ASSUME Jumps(input)
               PROVE  /\ \A a \in matches : a.from \in Nat /\ a.len \in Nat /\ a.from + a.len <= i' + 1
                      /\ \A a, b \in matches : a # b => a.from + a.len <= b.from \/ b.from + b.len <= a.from
    BY <1>1 DEF MatchesBehind, Jumps
  <2>1. \A x, y, z, w \in Int : x + y <= z + 1 /\ w >= z => x + y <= w + 1
    OBVIOUS
  <2>2. i \in Int /\ i' \in Int /\ \A x \in Nat : x \in Int
    BY <1>1 DEF Loops
  <2> QED
    BY <1>1, <2>1, <2>2, Zenon DEF MatchesBehind
<1>2. CASE Begin
  BY <1>2 DEF Begin, MatchesBehind
<1>3. CASE ApplyRule
  <2> DEFINE l == regexprule_match(Rule, Position)
             p == Position
             new == [rule |-> j, from |-> p, len |-> l]
  <2>1. /\ ~ LoopsOver /\ l # -1 /\ GoOn(l) /\ UNCHANGED input
        /\ matches' = matches \cup {new}
    BY <1>3, Zenon DEF ApplyRule
  <2>2. l \in -1 .. (N - p + 1) /\ p \in 1 .. N /\ (input.dir = "LtoR" => p = i + 1)
    BY <2>1, Tried, Zenon
  <2> HIDE DEF l, p
  <2>3. l \in Nat /\ l \in Int /\ l >= -1 /\ p \in Nat
    BY <2>1, <2>2
  <2>4. i' \in Nat /\ (Jumps(input) => i' >= i + (IF l = -1 THEN 0 ELSE l))
    BY <2>1, <2>3, GoOnFacts, Zenon
  <2> SUFFICES ASSUME Jumps(input)
               PROVE  /\ \A a \in matches' : a.from \in Nat /\ a.len \in Nat /\ a.from + a.len <= i' + 1
                      /\ \A a, b \in matches' : a # b => a.from + a.len <= b.from \/ b.from + b.len <= a.from
    BY <2>1 DEF MatchesBehind, Jumps
  <2>5. p = i + 1 /\ i' >= i + l /\ i \in Nat
    BY <2>1, <2>2, <2>4, Zenon DEF Jumps, Loops
  <2>6. new.from = p /\ new.len = l /\ p + l <= i' + 1
    <3>1. \A a, b, c, d \in Int : a = b + 1 /\ c >= b + d => a + d <= c + 1
      OBVIOUS
    <3>2. p \in Int /\ i \in Int /\ i' \in Int /\ l \in Int
      BY <2>3, <2>4, <2>5
    <3>3. p + l <= i' + 1
      BY <2>5, <3>1, <3>2, Zenon
    <3>4. new.from = p /\ new.len = l
      OBVIOUS
    <3> QED
      BY <3>3, <3>4, Zenon
  <2>7. \A a \in matches : a.from \in Nat /\ a.len \in Nat /\ a.from + a.len <= p
    BY <2>5, Zenon DEF MatchesBehind
  <2>8. \A x, y \in Nat : x + y <= p => x + y <= i' + 1
    <3>1. \A a, b \in Int : \A d \in Nat : a + d <= b => \A x, y \in Nat : x + y <= a => x + y <= b
      OBVIOUS
    <3>2. p \in Int /\ i' + 1 \in Int
      BY <2>3, <2>4
    <3> QED
      BY <2>3, <2>6, <3>1, <3>2, Zenon
  <2> HIDE DEF new
  <2>9. ASSUME NEW a \in matches'
        PROVE  a.from \in Nat /\ a.len \in Nat /\ a.from + a.len <= i' + 1
    BY <2>1, <2>3, <2>6, <2>7, <2>8, Zenon
  <2>10. ASSUME NEW a \in matches', NEW b \in matches', a # b
         PROVE  a.from + a.len <= b.from \/ b.from + b.len <= a.from
    <3>1. \A x, y \in matches : x # y => x.from + x.len <= y.from \/ y.from + y.len <= x.from
      BY Zenon DEF MatchesBehind
    <3>2. a = new \/ a \in matches
      BY <2>1
    <3>3. b = new \/ b \in matches
      BY <2>1
    <3> QED
      BY <2>6, <2>7, <2>10, <3>1, <3>2, <3>3, Zenon
  <2> QED
    BY <2>9, <2>10, Zenon
<1>4. CASE TryNext
  <2>1. ~ LoopsOver /\ GoOn(-1) /\ UNCHANGED <<input, matches>>
    BY <1>4, Zenon DEF TryNext
  <2>2. -1 \in Int /\ -1 >= -1 /\ (IF -1 = -1 THEN 0 ELSE -1) = 0
    OBVIOUS
  <2>3. i' \in Nat /\ (Jumps(input) => i' >= i + 0)
    BY <2>1, <2>2, GoOnFacts, Zenon
  <2>4. i \in Nat /\ i + 0 = i
    BY DEF Loops
  <2> QED
    BY <1>1, <2>1, <2>3, <2>4, Zenon
<1>5. CASE RulesDone \/ PrintStructure \/ Ended \/ UNCHANGED vars
  <2>1. input' = input /\ matches' = matches /\ i' = i
    BY <1>5, Zenon DEF RulesDone, PrintStructure, Ended, vars
  <2>2. i' \in Nat /\ i' >= i
    <3>1. i \in Nat
      BY Zenon DEF Loops
    <3> QED
      BY <2>1, <3>1
  <2> QED
    BY <1>1, <2>1, <2>2, Zenon
<1> QED
  BY <1>2, <1>3, <1>4, <1>5 DEF Next

\* With break:jump and the elements taken from left to right, no element belongs to
\* two matches (assign_mrph_feature), for all sentences, rules and features.
THEOREM JumpDisjointAlways == Spec => []JumpDisjoint
<1>1. Init => MatchesBehind
  BY DEF Init, MatchesBehind
<1>2. Loops /\ MatchesBehind /\ [Next]_vars => MatchesBehind'
  BY MatchesBehindNext
<1>3. MatchesBehind => JumpDisjoint
  BY Zenon DEF MatchesBehind, JumpDisjoint, Jumps
<1> QED
  BY <1>1, <1>2, <1>3, LoopsAlways, PTL DEF Spec
-----------------------------------------------------------------------------
(* What is left of a list                                                  *)

\* The members of S counted up to k.
Rank(S, k) == Cardinality({l \in S : l <= k})

\* Counting the members of a set of numbers one by one.
LEMMA RankFacts ==
  ASSUME NEW n \in Nat, NEW S \in SUBSET (1 .. n)
  PROVE  /\ Cardinality(S) \in Nat
         /\ \A c \in 1 .. Cardinality(S) : \E k \in S : Rank(S, k) = c
         /\ \A k \in S : Rank(S, k) \in 1 .. Cardinality(S)
         /\ \A k, m \in S : Rank(S, k) = Rank(S, m) => k = m
         /\ 1 \in S => Rank(S, 1) = 1
<1> DEFINE U(m) == {l \in S : l <= m}
           P == {m \in Nat : \A c \in 1 .. Cardinality(U(m)) : \E k \in S : Rank(S, k) = c}
<1>0. S \subseteq Nat /\ (\A k \in S : k \in 1 .. n)
  OBVIOUS
<1>1. IsFiniteSet(S) /\ Cardinality(S) \in Nat
  <2>1. IsFiniteSet(1 .. n)
    BY FS_Interval
  <2>2. IsFiniteSet(S)
    BY <2>1, FS_Subset
  <2> QED
    BY <2>2, FS_CardinalityType
<1>2. \A m \in Nat : IsFiniteSet(U(m)) /\ Cardinality(U(m)) \in Nat /\ Cardinality(U(m)) <= Cardinality(S)
  <2> TAKE m \in Nat
  <2>1. U(m) \in SUBSET S
    OBVIOUS
  <2> HIDE DEF U
  <2>2. IsFiniteSet(U(m)) /\ Cardinality(U(m)) <= Cardinality(S)
    BY <1>1, <2>1, FS_Subset
  <2> QED
    BY <2>2, FS_CardinalityType
<1>3. 0 \in P
  <2>1. U(0) = {}
    <3>1. \A l \in S : ~ (l <= 0)
      BY <1>0
    <3> QED
      BY <3>1, Zenon
  <2>2. Cardinality(U(0)) = 0
    BY <2>1, FS_EmptySet, Zenon
  <2> HIDE DEF U
  <2>3. \A c \in 1 .. Cardinality(U(0)) : FALSE
    BY <2>2
  <2> QED
    BY <2>3
<1>4. ASSUME NEW m \in Nat, m \in P
      PROVE  m + 1 \in P
  <2>0. m + 1 \in Nat
    OBVIOUS
  <2>1. CASE m + 1 \notin S
    <3>1. U(m + 1) = U(m)
      <4>1. \A l \in S : l # m + 1 => (l <= m + 1 <=> l <= m)
        BY <1>0
      <4> QED
        BY <2>1, <4>1, Zenon
    <3> HIDE DEF U
    <3> QED
      BY <1>4, <2>0, <3>1, Zenon
  <2>2. CASE m + 1 \in S
    <3>1. U(m + 1) = U(m) \cup {m + 1} /\ m + 1 \notin U(m)
      <4>1. /\ \A l \in S : l # m + 1 => (l <= m + 1 <=> l <= m)
            /\ m + 1 <= m + 1 /\ ~ (m + 1 <= m)
        BY <1>0
      <4> QED
        BY <2>2, <4>1, Zenon
    <3> HIDE DEF U
    <3>2. Cardinality(U(m + 1)) = Cardinality(U(m)) + 1
      BY <1>2, <3>1, FS_AddElement, Zenon
    <3>3. ASSUME NEW c \in 1 .. Cardinality(U(m + 1))
          PROVE  \E k \in S : Rank(S, k) = c
      <4>1. CASE c = Cardinality(U(m + 1))
        <5>1. Rank(S, m + 1) = Cardinality(U(m + 1))
          BY Zenon DEF Rank, U
        <5> QED
          BY <2>2, <4>1, <5>1, Zenon
      <4>2. CASE c # Cardinality(U(m + 1))
        <5>1. c \in 1 .. Cardinality(U(m))
          BY <1>2, <3>2, <4>2
        <5> QED
          BY <1>4, <5>1, Zenon
      <4> QED
        BY <4>1, <4>2
    <3> QED
      BY <2>0, <3>3, Zenon
  <2> QED
    BY <2>1, <2>2
<1>5. n \in P
  <2>1. \A m \in Nat : m \in P
    <3> HIDE DEF P
    <3> QED
      BY <1>3, <1>4, SetInduction
  <2> QED
    BY <2>1, Zenon
<1>6. U(n) = S
  <2>1. \A l \in S : l <= n
    BY <1>0
  <2> QED
    BY <2>1, Zenon
<1>7. \A c \in 1 .. Cardinality(S) : \E k \in S : Rank(S, k) = c
  <2> HIDE DEF U
  <2> QED
    BY <1>5, <1>6, Zenon
<1>8. \A k \in S : Rank(S, k) \in 1 .. Cardinality(S)
  <2> TAKE k \in S
  <2>1. k \in Nat /\ k \in U(k)
    BY <1>0
  <2>2. Rank(S, k) = Cardinality(U(k))
    BY Zenon DEF Rank
  <2> HIDE DEF U
  <2>3. Cardinality(U(k)) # 0
    BY <1>2, <2>1, FS_EmptySet, Zenon
  <2>4. Cardinality(U(k)) \in Nat /\ Cardinality(U(k)) <= Cardinality(S)
    BY <1>2, <2>1, Zenon
  <2>5. Cardinality(U(k)) \in 1 .. Cardinality(S)
    BY <1>1, <2>3, <2>4
  <2> QED
    BY <2>2, <2>5, Zenon
<1>9. ASSUME NEW k \in S, NEW m \in S, k < m
      PROVE  Rank(S, k) # Rank(S, m)
  <2>1. k \in Nat /\ m \in Nat /\ U(k) \in SUBSET U(m) /\ m \in U(m) /\ m \notin U(k)
    <3>1. /\ k \in Nat /\ m \in Nat /\ m <= m /\ ~ (m <= k)
          /\ \A l \in S : l <= k => l <= m
      BY <1>0, <1>9
    <3> QED
      BY <3>1, Zenon
  <2> HIDE DEF U
  <2>2. Cardinality(U(m)) # Cardinality(U(k))
    BY <1>2, <2>1, FS_Subset, Zenon
  <2> QED
    BY <2>2, Zenon DEF Rank, U
<1>10. \A k, m \in S : Rank(S, k) = Rank(S, m) => k = m
  <2>1. \A k, m \in S : k # m => k < m \/ m < k
    BY <1>0
  <2> QED
    BY <1>9, <2>1, Zenon
<1>11. 1 \in S => Rank(S, 1) = 1
  <2>1. 1 \in S => {l \in S : l <= 1} = {1}
    <3>1. \A l \in S : l <= 1 => l = 1
      BY <1>0
    <3>2. 1 <= 1
      OBVIOUS
    <3> QED
      BY <3>1, <3>2, Zenon
  <2> QED
    BY <2>1, FS_Singleton, Zenon DEF Rank
<1> QED
  BY <1>1, <1>7, <1>8, <1>10, <1>11, Zenon

\* List t holds what list s has at the places of S, and keeps its head.
Drawn(s, t, S) ==
  /\ \A n \in 1 .. Len(t) : \E k \in S : t[n] = s[k]
  /\ \A k \in S : \E n \in 1 .. Len(t) : t[n] = s[k]
  /\ 1 \in S => 1 \in 1 .. Len(t) /\ t[1] = s[1]

LEMMA LeftDrawn ==
  ASSUME NEW F, NEW s \in Seq(F), NEW S \in SUBSET (1 .. Len(s))
  PROVE  Left(s, S) \in Seq(F) /\ Drawn(s, Left(s, S), S)
<1> DEFINE c == Cardinality(S)
           at(n) == CHOOSE k \in S : Rank(S, k) = n
           t == [n \in 1 .. c |-> s[at(n)]]
<1>1. Len(s) \in Nat /\ \A k \in S : s[k] \in F
  OBVIOUS
<1>2. /\ c \in Nat
      /\ \A n \in 1 .. c : \E k \in S : Rank(S, k) = n
      /\ \A k \in S : Rank(S, k) \in 1 .. c
      /\ \A k, m \in S : Rank(S, k) = Rank(S, m) => k = m
      /\ 1 \in S => Rank(S, 1) = 1
  BY <1>1, RankFacts, Zenon
<1> HIDE DEF c
<1>3. Left(s, S) = t
  BY Zenon DEF Left, Rank, c
<1>4. \A n \in 1 .. c : at(n) \in S /\ Rank(S, at(n)) = n
  BY <1>2, Zenon
<1>5. \A k \in S : at(Rank(S, k)) = k
  BY <1>2, <1>4, Zenon
<1> HIDE DEF at
<1>6. t \in [1 .. c -> F] /\ \A n \in 1 .. c : t[n] = s[at(n)]
  BY <1>1, <1>4, Zenon
<1> HIDE DEF t
<1>7. t \in Seq(F) /\ Len(t) = c
  BY <1>2, <1>6
<1>8. \A k \in S : t[Rank(S, k)] = s[k]
  BY <1>2, <1>5, <1>6, Zenon
<1>9. \A n \in 1 .. Len(t) : \E k \in S : t[n] = s[k]
  BY <1>4, <1>6, <1>7, Zenon
<1>10. \A k \in S : \E n \in 1 .. Len(t) : t[n] = s[k]
  BY <1>2, <1>7, <1>8, Zenon
<1>11. 1 \in S => 1 \in 1 .. Len(t) /\ t[1] = s[1]
  <2>1. 1 \in S => Rank(S, 1) = 1 /\ Rank(S, 1) \in 1 .. c /\ t[Rank(S, 1)] = s[1]
    BY <1>2, <1>8, Zenon
  <2> QED
    BY <1>7, <2>1
<1> QED
  BY <1>3, <1>7, <1>9, <1>10, <1>11, Zenon DEF Drawn

LEMMA RemovedDrawn ==
  ASSUME NEW F, NEW s \in Seq(F), NEW p \in 1 .. Len(s)
  PROVE  RemoveAt(s, p) \in Seq(F) /\ Drawn(s, RemoveAt(s, p), 1 .. Len(s) \ {p})
<1> DEFINE t == RemoveAt(s, p)
           S == 1 .. Len(s) \ {p}
<1>1. /\ t \in Seq(F) /\ Len(t) = Len(s) - 1
      /\ \A n \in 1 .. Len(t) : t[n] = IF n < p THEN s[n] ELSE s[n + 1]
  <2> DEFINE a == SubSeq(s, 1, p - 1)
             b == SubSeq(s, p + 1, Len(s))
  <2>1. /\ a \in Seq(F) /\ Len(a) = p - 1 /\ \A n \in 1 .. (p - 1) : a[n] = s[n]
        /\ b \in Seq(F) /\ Len(b) = Len(s) - p /\ \A n \in 1 .. (Len(s) - p) : b[n] = s[p + n]
    <3>0. Len(s) \in Nat /\ \A n \in 1 .. Len(s) : s[n] \in F
      OBVIOUS
    <3>1. /\ a \in Seq(F) /\ Len(a) = (IF 1 <= p - 1 THEN p - 1 - 1 + 1 ELSE 0)
          /\ \A n \in 1 .. (p - 1 - 1 + 1) : a[n] = s[1 + n - 1]
      <4>1. 1 \in Int /\ p - 1 \in Int /\ \A n \in 1 .. (p - 1) : s[n] \in F
        BY <3>0
      <4> QED
        BY <4>1, SubSeqProperties, SMT
    <3>2. /\ b \in Seq(F) /\ Len(b) = (IF p + 1 <= Len(s) THEN Len(s) - (p + 1) + 1 ELSE 0)
          /\ \A n \in 1 .. (Len(s) - (p + 1) + 1) : b[n] = s[p + 1 + n - 1]
      <4>1. p + 1 \in Int /\ Len(s) \in Int /\ \A n \in (p + 1) .. Len(s) : s[n] \in F
        BY <3>0
      <4> QED
        BY <4>1, SubSeqProperties, SMT
    <3> HIDE DEF a, b
    <3>3. Len(a) = p - 1 /\ Len(b) = Len(s) - p
      BY <3>0, <3>1, <3>2
    <3>4. \A n \in 1 .. (p - 1) : n \in 1 .. (p - 1 - 1 + 1) /\ 1 + n - 1 = n
      BY <3>0
    <3>5. \A n \in 1 .. (Len(s) - p) : n \in 1 .. (Len(s) - (p + 1) + 1) /\ p + 1 + n - 1 = p + n
      BY <3>0
    <3> QED
      BY <3>1, <3>2, <3>3, <3>4, <3>5, Zenon
  <2>2. t = a \o b
    BY DEF RemoveAt
  <2> HIDE DEF a, b, t
  <2>3. t \in Seq(F) /\ Len(t) = Len(s) - 1
    BY <2>1, <2>2
  <2>4. \A n \in 1 .. Len(t) : t[n] = IF n <= p - 1 THEN a[n] ELSE b[n - (p - 1)]
    BY <2>1, <2>2
  <2>5. ASSUME NEW n \in 1 .. Len(t)
        PROVE  t[n] = IF n < p THEN s[n] ELSE s[n + 1]
    <3>1. CASE n < p
      <4>1. n <= p - 1 /\ n \in 1 .. (p - 1)
        BY <3>1
      <4> QED
        BY <2>1, <2>4, <3>1, <4>1
    <3>2. CASE ~ (n < p)
      <4>1. ~ (n <= p - 1) /\ n - (p - 1) \in 1 .. (Len(s) - p) /\ p + (n - (p - 1)) = n + 1
        BY <2>3, <3>2
      <4> QED
        BY <2>1, <2>4, <3>2, <4>1
    <3> QED
      BY <3>1, <3>2
  <2> QED
    BY <2>3, <2>5
<1> HIDE DEF t
<1>2. \A n \in 1 .. Len(t) : \E k \in S : t[n] = s[k]
  <2> TAKE n \in 1 .. Len(t)
  <2>1. CASE n < p
    <3>1. n \in S
      BY <1>1, <2>1
    <3> QED
      BY <1>1, <2>1, <3>1
  <2>2. CASE ~ (n < p)
    <3>1. n + 1 \in S
      BY <1>1, <2>2
    <3> QED
      BY <1>1, <2>2, <3>1
  <2> QED
    BY <2>1, <2>2
<1>3. \A k \in S : \E n \in 1 .. Len(t) : t[n] = s[k]
  <2> TAKE k \in S
  <2>1. CASE k < p
    <3>1. k \in 1 .. Len(t)
      BY <1>1, <2>1
    <3> QED
      BY <1>1, <2>1, <3>1
  <2>2. CASE ~ (k < p)
    <3>1. k - 1 \in 1 .. Len(t) /\ ~ (k - 1 < p) /\ k - 1 + 1 = k
      BY <1>1, <2>2
    <3> QED
      BY <1>1, <3>1
  <2> QED
    BY <2>1, <2>2
<1>4. 1 \in S => 1 \in 1 .. Len(t) /\ t[1] = s[1]
  BY <1>1
<1> QED
  BY <1>1, <1>2, <1>3, <1>4, Zenon DEF Drawn, t
-----------------------------------------------------------------------------
(* Lists as the temporary rules leave them                                 *)

\* The features elements can have while rules are applied temporarily.
Original(in) == UNION {Range(in.given[e]) : e \in Elements}
Vals(in) == {x.val : x \in Original(in)} \cup {a.val : a \in Actions(in)}
Feats(in) ==
  Original(in) \cup
  [name : {a.name : a \in Actions(in)}, val : Vals(in), temp : BOOLEAN]

\* Apart from temporary features, list s of element e holds what the element has
\* had, unless it is written over or deleted, and it still begins with the first
\* feature of it if no rule deletes that one.
Descends(in, e, x) ==
  x \in Range(in.given[e]) \/ x.name \in GivenNames(in, e) \cap Overwritten(in)

Survives(in, x, s) ==
  \/ x.name \in Deletable(in)
  \/ \E k \in 1 .. Len(s) : /\ ~ s[k].temp /\ s[k].name = x.name
                            /\ s[k] = x \/ x.name \in Overwritten(in)

Lasting(in, e) == in.given[e] # <<>> /\ in.given[e][1].name \notin Deletable(in)

Traced(in, e, s) ==
  /\ s \in Seq(Feats(in))
  /\ \A k \in 1 .. Len(s) : ~ s[k].temp => Descends(in, e, s[k])
  /\ \A x \in Range(in.given[e]) : Survives(in, x, s)
  /\ Lasting(in, e) => 1 \in 1 .. Len(s) /\ ~ s[1].temp /\ s[1].name = in.given[e][1].name

Extended(in) == {g \in [Elements -> Seq(Feats(in))] : \A e \in Elements : Traced(in, e, g[e])}

LEMMA GivenFacts ==
  ASSUME NEW in \in Inputs, NEW e \in Elements
  PROVE  /\ Len(in.given[e]) \in Nat /\ DOMAIN in.given[e] = 1 .. Len(in.given[e])
         /\ \A k \in 1 .. Len(in.given[e]) : in.given[e][k].temp = FALSE
         /\ Traced(in, e, in.given[e])
<1> DEFINE g == in.given[e]
           R == Range(g)
           F == Feats(in)
<1>1. g \in Seq(R) /\ \A k \in DOMAIN g : g[k].temp = FALSE
  BY InputsAssumption, Zenon
<1>2. R \subseteq F
  BY Zenon DEF Feats, Original
<1>3. R = {g[k] : k \in DOMAIN g}
  BY Zenon DEF Range
<1> HIDE DEF g, R, F
<1>4. Len(g) \in Nat /\ DOMAIN g = 1 .. Len(g) /\ g \in [1 .. Len(g) -> R]
  BY <1>1
<1>5. g \in [1 .. Len(g) -> F]
  BY <1>2, <1>4
<1>6. g \in Seq(F)
  BY <1>4, <1>5
<1>7. \A k \in 1 .. Len(g) : ~ g[k].temp /\ g[k] \in R
  BY <1>1, <1>4
<1>8. \A k \in 1 .. Len(g) : Descends(in, e, g[k])
  BY <1>7, Zenon DEF Descends, g, R
<1>9. \A x \in R : Survives(in, x, g)
  BY <1>3, <1>4, <1>7, Zenon DEF Survives
<1>10. g # <<>> => 1 \in 1 .. Len(g)
  BY <1>4, <1>6
<1>11. Lasting(in, e) => 1 \in 1 .. Len(g) /\ ~ g[1].temp
  BY <1>7, <1>10, Zenon DEF Lasting, g
<1>12. Traced(in, e, g)
  BY <1>6, <1>7, <1>8, <1>9, <1>11, Zenon DEF Traced, g, R, F
<1> QED
  BY <1>1, <1>4, <1>12, Zenon DEF g

\* A list from which only temporary features or such that may be deleted are
\* missing.
LEMMA DrawnTraced ==
  ASSUME NEW in \in Inputs, NEW e \in Elements, NEW s, NEW t, NEW S \in SUBSET (1 .. Len(s)),
         Traced(in, e, s), t \in Seq(Feats(in)), Drawn(s, t, S),
         \A k \in 1 .. Len(s) : k \notin S => s[k].temp \/ s[k].name \in Deletable(in)
  PROVE  Traced(in, e, t)
<1>1. ASSUME NEW n \in 1 .. Len(t), ~ t[n].temp
      PROVE  Descends(in, e, t[n])
  <2>1. PICK k \in S : t[n] = s[k]
    BY Zenon DEF Drawn
  <2>2. k \in 1 .. Len(s)
    BY Zenon
  <2> QED
    BY <1>1, <2>1, <2>2, Zenon DEF Traced
<1>2. ASSUME NEW x \in Range(in.given[e]), x.name \notin Deletable(in)
      PROVE  Survives(in, x, t)
  <2>1. PICK k \in 1 .. Len(s) : ~ s[k].temp /\ s[k].name = x.name /\ (s[k] = x \/ x.name \in Overwritten(in))
    BY <1>2, Zenon DEF Traced, Survives
  <2>2. k \in S
    BY <1>2, <2>1, Zenon
  <2>3. PICK n \in 1 .. Len(t) : t[n] = s[k]
    BY <2>2, Zenon DEF Drawn
  <2> QED
    BY <2>1, <2>3, Zenon DEF Survives
<1>3. \A x \in Range(in.given[e]) : Survives(in, x, t)
  BY <1>2, Zenon DEF Survives
<1>4. ASSUME Lasting(in, e)
      PROVE  1 \in 1 .. Len(t) /\ ~ t[1].temp /\ t[1].name = in.given[e][1].name
  <2>1. 1 \in 1 .. Len(s) /\ ~ s[1].temp /\ s[1].name = in.given[e][1].name
    BY <1>4, Zenon DEF Traced
  <2>2. 1 \in S
    BY <1>4, <2>1, Zenon DEF Lasting
  <2> QED
    BY <2>1, <2>2, Zenon DEF Drawn
<1> QED
  BY <1>1, <1>3, <1>4, Zenon DEF Traced

LEMMA NamedFacts ==
  ASSUME NEW F, NEW s \in Seq(F), NEW name
  PROVE  /\ Len(s) \in Nat /\ DOMAIN s = 1 .. Len(s)
         /\ Named(s, name) \subseteq 1 .. Len(s)
         /\ \A k \in 1 .. Len(s) : k \in Named(s, name) <=> ~ s[k].temp /\ s[k].name = name
         /\ Named(s, name) # {} => First(Named(s, name)) \in Named(s, name)
<1> DEFINE lit == [name |-> name, val |-> NoVal]
<1>1. Len(s) \in Nat /\ DOMAIN s = 1 .. Len(s)
  OBVIOUS
<1>2. lit.name = name /\ lit.val = NoVal
  OBVIOUS
<1>3. Named(s, name) = {k \in DOMAIN s : comp_feature(s[k], lit)}
  BY Zenon DEF Named
<1> HIDE DEF lit
<1>4. \A k \in 1 .. Len(s) : k \in Named(s, name) <=> ~ s[k].temp /\ s[k].name = name
  BY <1>1, <1>2, <1>3, Zenon DEF comp_feature
<1>5. Named(s, name) \subseteq 1 .. Len(s)
  BY <1>1, <1>3, Zenon
<1>6. ASSUME Named(s, name) # {}
      PROVE  First(Named(s, name)) \in Named(s, name)
  <2>1. Named(s, name) \subseteq Nat
    BY <1>1, <1>5
  <2>2. \E x \in Named(s, name) : \A y \in Named(s, name) : x <= y
    BY <1>6, <2>1, LeastNat, Zenon
  <2> QED
    BY <2>2, Zenon DEF First
<1> QED
  BY <1>1, <1>4, <1>5, <1>6, Zenon

\* A feature that is given: the value under its name, or a temporary one.
LEMMA AssignTraced ==
  ASSUME NEW in \in Inputs, NEW act \in Actions(in), act.kind # "delete", NEW val \in Vals(in),
         NEW e \in Elements, NEW s, Traced(in, e, s)
  PROVE  Traced(in, e, assign_cfeature(s, act.name, val, TRUE))
<1> DEFINE F == Feats(in)
           old == Named(s, act.name)
           p == First(old)
           set == [name |-> act.name, val |-> val, temp |-> FALSE]
           new == [name |-> act.name, val |-> val, temp |-> TRUE]
           t == [s EXCEPT ![p] = set]
           u == Append(s, new)
<1>1. /\ s \in Seq(F)
      /\ \A k \in 1 .. Len(s) : ~ s[k].temp => Descends(in, e, s[k])
      /\ \A x \in Range(in.given[e]) : Survives(in, x, s)
      /\ Lasting(in, e) => 1 \in 1 .. Len(s) /\ ~ s[1].temp /\ s[1].name = in.given[e][1].name
  BY Zenon DEF Traced
<1>2. /\ Len(s) \in Nat /\ DOMAIN s = 1 .. Len(s) /\ old \subseteq 1 .. Len(s)
      /\ \A k \in 1 .. Len(s) : k \in old <=> ~ s[k].temp /\ s[k].name = act.name
      /\ old # {} => p \in old
  BY <1>1, NamedFacts, Zenon
<1>3. act.name \in Overwritten(in) /\ act.name \in {a.name : a \in Actions(in)}
  BY Zenon DEF Overwritten
<1>4. set \in F /\ new \in F
  <2>1. [name : {a.name : a \in Actions(in)}, val : Vals(in), temp : BOOLEAN] \subseteq F
    BY Zenon DEF Feats
  <2> HIDE DEF F
  <2>2. set \in [name : {a.name : a \in Actions(in)}, val : Vals(in), temp : BOOLEAN]
    BY <1>3, Zenon
  <2>3. new \in [name : {a.name : a \in Actions(in)}, val : Vals(in), temp : BOOLEAN]
    BY <1>3, Zenon
  <2> QED
    BY <2>1, <2>2, <2>3, Zenon
<1>5. set.name = act.name /\ set.temp = FALSE /\ new.temp = TRUE
  OBVIOUS
<1>6. assign_cfeature(s, act.name, val, TRUE) = IF old # {} THEN t ELSE u
  BY Zenon DEF assign_cfeature
<1>7. t = [k \in 1 .. Len(s) |-> IF k = p THEN set ELSE s[k]]
  BY <1>2, Zenon
<1>8. /\ u \in Seq(F) /\ Len(u) = Len(s) + 1
      /\ \A k \in 1 .. Len(s) : u[k] = s[k]
      /\ u[Len(s) + 1] = new
  <2> HIDE DEF F, new
  <2> QED
    BY <1>1, <1>4
<1>9. \A k \in 1 .. Len(u) : k \in 1 .. Len(s) \/ k = Len(s) + 1
  <2> HIDE DEF u
  <2> QED
    BY <1>2, <1>8
<1>10. \A k \in 1 .. Len(s) : k \in 1 .. Len(u)
  <2> HIDE DEF u
  <2> QED
    BY <1>2, <1>8
<1> HIDE DEF old, p, set, new, t, u
<1>11. CASE old # {}
  <2>1. p \in 1 .. Len(s) /\ ~ s[p].temp /\ s[p].name = act.name
    BY <1>2, <1>11, Zenon
  <2>2. t[p] = set /\ \A k \in 1 .. Len(s) : k # p => t[k] = s[k]
    BY <1>7, <2>1, Zenon
  <2>3. t \in Seq(F) /\ Len(t) = Len(s)
    <3>1. \A k \in 1 .. Len(s) : s[k] \in F
      BY <1>1
    <3>2. t \in [1 .. Len(s) -> F]
      <4> HIDE DEF F
      <4> QED
        BY <1>4, <1>7, <3>1, Zenon
    <3> HIDE DEF F
    <3> QED
      BY <1>2, <3>2
  <2>4. act.name \in GivenNames(in, e)
    <3>1. Descends(in, e, s[p])
      BY <1>1, <2>1, Zenon
    <3>2. \A x \in Range(in.given[e]) : x.name \in GivenNames(in, e)
      BY Zenon DEF Range, GivenNames
    <3> QED
      BY <2>1, <3>1, <3>2, Zenon DEF Descends
  <2>5. ASSUME NEW k \in 1 .. Len(t), ~ t[k].temp
        PROVE  Descends(in, e, t[k])
    <3>1. k \in 1 .. Len(s)
      BY <2>3
    <3>2. k = p => Descends(in, e, t[k])
      BY <1>3, <1>5, <2>2, <2>4, Zenon DEF Descends
    <3>3. k # p => Descends(in, e, t[k])
      BY <1>1, <2>2, <2>5, <3>1, Zenon
    <3> QED
      BY <3>2, <3>3, Zenon
  <2>6. ASSUME NEW x \in Range(in.given[e]), x.name \notin Deletable(in)
        PROVE  Survives(in, x, t)
    <3>1. PICK k \in 1 .. Len(s) : ~ s[k].temp /\ s[k].name = x.name /\ (s[k] = x \/ x.name \in Overwritten(in))
      BY <1>1, <2>6, Zenon DEF Survives
    <3>2. k \in 1 .. Len(t)
      BY <2>3
    <3>3. k = p => ~ t[k].temp /\ t[k].name = x.name /\ x.name \in Overwritten(in)
      BY <1>3, <1>5, <2>1, <2>2, <3>1, Zenon
    <3>4. k # p => t[k] = s[k]
      BY <2>2, Zenon
    <3> QED
      BY <3>1, <3>2, <3>3, <3>4, Zenon DEF Survives
  <2>7. \A x \in Range(in.given[e]) : Survives(in, x, t)
    BY <2>6, Zenon DEF Survives
  <2>8. Lasting(in, e) => 1 \in 1 .. Len(t) /\ ~ t[1].temp /\ t[1].name = in.given[e][1].name
    <3>1. 1 = p => ~ t[1].temp /\ t[1].name = s[p].name
      BY <1>5, <2>1, <2>2, Zenon
    <3>2. 1 # p /\ 1 \in 1 .. Len(s) => t[1] = s[1]
      BY <2>2, Zenon
    <3>3. 1 \in 1 .. Len(s) => 1 \in 1 .. Len(t)
      BY <2>3
    <3> QED
      BY <1>1, <3>1, <3>2, <3>3, Zenon
  <2>9. Traced(in, e, t)
    BY <2>3, <2>5, <2>7, <2>8, Zenon DEF Traced
  <2> QED
    BY <1>6, <1>11, <2>9, Zenon
<1>12. CASE old = {}
  <2>1. \A k \in 1 .. Len(u) : ~ u[k].temp => Descends(in, e, u[k])
    <3>1. u[Len(s) + 1].temp = TRUE
      BY <1>5, <1>8
    <3>2. \A k \in 1 .. Len(s) : ~ u[k].temp => Descends(in, e, u[k])
      BY <1>1, <1>8, Zenon
    <3> QED
      BY <1>9, <3>1, <3>2, Zenon
  <2>2. ASSUME NEW x \in Range(in.given[e])
        PROVE  Survives(in, x, u)
    <3>1. CASE x.name \in Deletable(in)
      BY <3>1, Zenon DEF Survives
    <3>2. CASE x.name \notin Deletable(in)
      <4>1. Survives(in, x, s)
        BY <1>1, Zenon
      <4>2. PICK k \in 1 .. Len(s) : ~ s[k].temp /\ s[k].name = x.name /\ (s[k] = x \/ x.name \in Overwritten(in))
        BY <3>2, <4>1, Zenon DEF Survives
      <4>3. k \in 1 .. Len(u) /\ u[k] = s[k]
        BY <1>8, <1>10, Zenon
      <4> QED
        BY <4>2, <4>3, Zenon DEF Survives
    <3> QED
      BY <3>1, <3>2, Zenon
  <2>3. Lasting(in, e) => 1 \in 1 .. Len(u) /\ ~ u[1].temp /\ u[1].name = in.given[e][1].name
    BY <1>1, <1>8, <1>10, Zenon
  <2>4. Traced(in, e, u)
    BY <1>8, <2>1, <2>2, <2>3, Zenon DEF Traced
  <2> QED
    BY <1>6, <1>12, <2>4, Zenon
<1> QED
  BY <1>11, <1>12, Zenon

\* A feature that is deleted, by an entry ^name or because the one to spread is
\* missing.
LEMMA DeletedTraced ==
  ASSUME NEW in \in Inputs, NEW act \in Actions(in), act.kind # "assign",
         NEW e \in Elements, NEW s, Traced(in, e, s)
  PROVE  /\ Traced(in, e, Deleted(s, act.name))
         /\ Traced(in, e, delete_cfeature(s, act.name))
<1> DEFINE F == Feats(in)
           old == Named(s, act.name)
           p == First(old)
<1>1. s \in Seq(F)
  BY Zenon DEF Traced
<1>2. /\ Len(s) \in Nat /\ DOMAIN s = 1 .. Len(s) /\ old \subseteq 1 .. Len(s)
      /\ \A k \in 1 .. Len(s) : k \in old <=> ~ s[k].temp /\ s[k].name = act.name
      /\ old # {} => p \in old
  BY <1>1, NamedFacts, Zenon
<1>3. act.name \in Deletable(in)
  BY Zenon DEF Deletable
<1> HIDE DEF F, old, p
<1>4. \A k \in old : s[k].name \in Deletable(in)
  BY <1>2, <1>3, Zenon
<1>5. Traced(in, e, Deleted(s, act.name))
  <2> DEFINE S == 1 .. Len(s) \ old
  <2>1. Deleted(s, act.name) = Left(s, S)
    BY <1>2, Zenon DEF Deleted, old
  <2>2. S \in SUBSET (1 .. Len(s)) /\ \A k \in 1 .. Len(s) : k \notin S => k \in old
    BY Zenon
  <2> HIDE DEF S
  <2>3. Left(s, S) \in Seq(F) /\ Drawn(s, Left(s, S), S)
    BY <1>1, <2>2, LeftDrawn, Zenon
  <2> QED
    BY <1>4, <2>1, <2>2, <2>3, DrawnTraced, Zenon DEF F
<1>6. ASSUME old # {}
      PROVE  Traced(in, e, RemoveAt(s, p))
  <2> DEFINE S == 1 .. Len(s) \ {p}
  <2>1. p \in 1 .. Len(s) /\ p \in old
    BY <1>2, <1>6, Zenon
  <2>2. RemoveAt(s, p) \in Seq(F) /\ Drawn(s, RemoveAt(s, p), S)
    BY <1>1, <2>1, RemovedDrawn, Zenon
  <2>3. S \in SUBSET (1 .. Len(s)) /\ \A k \in 1 .. Len(s) : k \notin S => k = p
    BY Zenon
  <2> HIDE DEF S
  <2>4. \A k \in 1 .. Len(s) : k \notin S => s[k].name \in Deletable(in)
    BY <1>4, <2>1, <2>3, Zenon
  <2> QED
    BY <2>2, <2>3, <2>4, DrawnTraced, Zenon DEF F
<1>7. delete_cfeature(s, act.name) = IF old = {} THEN s ELSE RemoveAt(s, p)
  BY Zenon DEF delete_cfeature, old, p
<1> QED
  BY <1>5, <1>6, <1>7, Zenon

\* What is left when the temporary features are deleted.
LEMMA CleanedTraced ==
  ASSUME NEW in \in Inputs, NEW e \in Elements, NEW s, Traced(in, e, s)
  PROVE  /\ Traced(in, e, delete_temp_feature(s))
         /\ \A k \in 1 .. Len(delete_temp_feature(s)) : ~ delete_temp_feature(s)[k].temp
<1> DEFINE F == Feats(in)
           S == {k \in DOMAIN s : ~ s[k].temp}
           t == Left(s, S)
<1>1. s \in Seq(F)
  BY Zenon DEF Traced
<1>2. DOMAIN s = 1 .. Len(s)
  BY <1>1, NamedFacts, Zenon
<1>3. /\ S \in SUBSET (1 .. Len(s)) /\ \A k \in 1 .. Len(s) : k \notin S => s[k].temp
      /\ \A k \in S : ~ s[k].temp
  BY <1>2, Zenon
<1>4. delete_temp_feature(s) = t
  BY Zenon DEF delete_temp_feature
<1> HIDE DEF S
<1>5. t \in Seq(F) /\ Drawn(s, t, S)
  BY <1>1, <1>3, LeftDrawn, Zenon
<1> HIDE DEF t
<1>6. Traced(in, e, t)
  BY <1>3, <1>5, DrawnTraced, Zenon DEF F
<1>7. \A k \in 1 .. Len(t) : ~ t[k].temp
  BY <1>3, <1>5, Zenon DEF Drawn
<1> QED
  BY <1>4, <1>6, <1>7, Zenon

LEMMA SetExtended ==
  ASSUME NEW in \in Inputs, NEW g \in Extended(in), NEW to, NEW new,
         to \in Elements => Traced(in, to, new)
  PROVE  [g EXCEPT ![to] = new] \in Extended(in)
<1> DEFINE T == Seq(Feats(in))
           w == [g EXCEPT ![to] = new]
<1>1. g \in [Elements -> T] /\ \A x \in Elements : Traced(in, x, g[x])
  BY Zenon DEF Extended
<1>2. to \in Elements => new \in T
  BY Zenon DEF Traced
<1> HIDE DEF T
<1>3. w = [x \in Elements |-> IF x = to THEN new ELSE g[x]]
  BY <1>1, Zenon
<1>4. w \in [Elements -> T] /\ \A x \in Elements : w[x] = IF x = to THEN new ELSE g[x]
  BY <1>1, <1>2, <1>3, Zenon
<1> HIDE DEF w
<1>5. \A x \in Elements : Traced(in, x, w[x])
  BY <1>1, <1>4, Zenon
<1>6. w \in Extended(in)
  BY <1>4, <1>5, Zenon DEF Extended, T
<1> QED
  BY <1>6, Zenon DEF w

\* One entry of a rule, applied temporarily, leaves lists of this kind.
LEMMA AppliedTraced ==
  ASSUME NEW in \in Inputs, Temporary, NEW act \in Actions(in), NEW e \in Elements, NEW g \in Extended(in)
  PROVE  Applied(g, act, e) \in Extended(in)
<1>1. \A x \in Elements : Traced(in, x, g[x])
  BY Zenon DEF Extended
<1>2. Temporary = TRUE
  BY DEF Temporary
<1>3. act.kind \in {"assign", "delete", "spread"}
  <2>1. DOMAIN in.rules = 1 .. Len(in.rules)
    BY InputFacts, Zenon
  <2>2. PICK r \in DOMAIN in.rules : act \in Range(in.rules[r].acts)
    BY Zenon DEF Actions
  <2> QED
    BY <2>2, InputsAssumption, Zenon
<1>4. CASE act.kind = "assign"
  <2>1. Applied(g, act, e) = [g EXCEPT ![e] = assign_cfeature(@, act.name, act.val, Temporary)]
    BY <1>4 DEF Applied
  <2>2. act.val \in Vals(in) /\ act.kind # "delete"
    <3>1. act.kind # "delete"
      BY <1>4
    <3> QED
      BY <3>1, Zenon DEF Vals
  <2>3. Traced(in, e, assign_cfeature(g[e], act.name, act.val, TRUE))
    BY <1>1, <2>2, AssignTraced, Zenon
  <2>4. [g EXCEPT ![e] = assign_cfeature(@, act.name, act.val, TRUE)] \in Extended(in)
    BY <2>3, SetExtended, Zenon
  <2> QED
    BY <1>2, <2>1, <2>4, Zenon
<1>5. CASE act.kind = "delete"
  <2>1. Applied(g, act, e) = [g EXCEPT ![e] = Deleted(@, act.name)]
    BY <1>5 DEF Applied
  <2>2. act.kind # "assign"
    BY <1>5
  <2>3. Traced(in, e, Deleted(g[e], act.name))
    BY <1>1, <2>2, DeletedTraced, Zenon
  <2>4. [g EXCEPT ![e] = Deleted(@, act.name)] \in Extended(in)
    BY <2>3, SetExtended, Zenon
  <2> QED
    BY <2>1, <2>4, Zenon
<1>6. CASE act.kind = "spread"
  <2> DEFINE own == Named(g[e], act.name)
             to == e + act.by
             val == g[e][First(own)].val
  <2>1. Applied(g, act, e) = IF own # {} THEN [g EXCEPT ![to] = assign_cfeature(@, act.name, val, Temporary)]
                             ELSE [g EXCEPT ![to] = delete_cfeature(@, act.name)]
    BY <1>6 DEF Applied
  <2>2. act.kind # "assign" /\ act.kind # "delete"
    BY <1>6
  <2>3. g[e] \in Seq(Feats(in))
    BY <1>1, Zenon DEF Traced
  <2>4. own # {} => val \in Vals(in)
    <3>0. own \subseteq 1 .. Len(g[e]) /\ (own # {} => First(own) \in own)
      BY <2>3, NamedFacts, Zenon
    <3>1. own # {} => First(own) \in 1 .. Len(g[e])
      BY <3>0, Zenon
    <3>2. \A k \in 1 .. Len(g[e]) : g[e][k] \in Feats(in)
      BY <2>3
    <3>3. \A x \in Feats(in) : x.val \in Vals(in)
      <4>1. \A x \in Original(in) : x.val \in Vals(in)
        BY Zenon DEF Vals
      <4>2. \A x \in [name : {a.name : a \in Actions(in)}, val : Vals(in), temp : BOOLEAN] : x.val \in Vals(in)
        OBVIOUS
      <4> QED
        BY <4>1, <4>2, Zenon DEF Feats
    <3> HIDE DEF own
    <3> QED
      BY <3>1, <3>2, <3>3, Zenon
  <2> HIDE DEF own, to, val
  <2>5. own # {} /\ to \in Elements => Traced(in, to, assign_cfeature(g[to], act.name, val, TRUE))
    BY <1>1, <2>2, <2>4, AssignTraced, Zenon
  <2>6. to \in Elements => Traced(in, to, delete_cfeature(g[to], act.name))
    BY <1>1, <2>2, DeletedTraced, Zenon
  <2>7. own # {} => [g EXCEPT ![to] = assign_cfeature(@, act.name, val, TRUE)] \in Extended(in)
    BY <2>5, SetExtended, Zenon
  <2>8. [g EXCEPT ![to] = delete_cfeature(@, act.name)] \in Extended(in)
    BY <2>6, SetExtended, Zenon
  <2> QED
    BY <1>2, <2>1, <2>7, <2>8, Zenon
<1> QED
  BY <1>3, <1>4, <1>5, <1>6, Zenon

\* The fold over the entries of a rule.
LEMMA AppliedAllTraced ==
  ASSUME NEW in \in Inputs, Temporary, NEW r \in 1 .. Len(in.rules), NEW e \in Elements,
         NEW g \in Extended(in)
  PROVE  AppliedAll(in.rules[r], g, e) \in Extended(in)
<1> DEFINE acts == in.rules[r].acts
           n == Len(acts)
           S == Extended(in)
           D == SUBSET (1 .. n)
           G == [k \in 1 .. n |-> [x \in S |-> Applied(x, acts[k], e)]]
           Eq(h) == h = [s \in D |-> IF s = {} THEN g ELSE Applied(h[s \ {Max(s)}], acts[Max(s)], e)]
<1>1. n \in Nat /\ DOMAIN acts = 1 .. n /\ \A k \in 1 .. n : acts[k] \in Actions(in)
  <2>1. DOMAIN in.rules = 1 .. Len(in.rules)
    BY InputFacts, Zenon
  <2>2. acts \in Seq(Range(acts))
    BY <2>1, InputsAssumption, Zenon
  <2>3. \A s : \A X : s \in Seq(X) => Len(s) \in Nat /\ DOMAIN s = 1 .. Len(s)
    OBVIOUS
  <2>4. n \in Nat /\ DOMAIN acts = 1 .. n
    BY <2>2, <2>3, Zenon
  <2>5. \A k \in DOMAIN acts : acts[k] \in Range(acts)
    BY Zenon DEF Range
  <2> QED
    BY <2>1, <2>4, <2>5, Zenon DEF Actions
<1>2. \A k \in 1 .. n : \A x \in S : Applied(x, acts[k], e) \in S
  BY <1>1, AppliedTraced, Zenon
<1>3. G \in [1 .. n -> [S -> S]] /\ \A k \in 1 .. n : \A x \in S : G[k][x] = Applied(x, acts[k], e)
  <2> HIDE DEF n, S, acts
  <2> QED
    BY <1>2, Zenon
<1>4. \A s \in D : s # {} => s \ {Max(s)} \in D /\ Max(s) \in 1 .. n
  BY <1>1, ReachFacts, Zenon
<1>5. \E h : Eq(h)
  <2>1. PICK h \in [D -> S] : \A s \in D : h[s] = IF s = {} THEN g ELSE G[Max(s)][h[s \ {Max(s)}]]
    <3> HIDE DEF G, n, S
    <3>1. g \in S /\ n \in Nat /\ G \in [1 .. n -> [S -> S]]
      BY <1>1, <1>3, Zenon DEF S
    <3>2. \E h : Folds(S, n, g, G, h)
      BY <3>1, FoldExists, Zenon
    <3> QED
      BY <3>2, Zenon DEF Folds
  <2> HIDE DEF D, n, S, G
  <2>2. ASSUME NEW s \in D
        PROVE  h[s] = IF s = {} THEN g ELSE Applied(h[s \ {Max(s)}], acts[Max(s)], e)
    BY <1>3, <1>4, <2>1, Zenon
  <2>3. h = [s \in D |-> h[s]]
    BY <2>1, Zenon
  <2>4. h = [s \in D |-> IF s = {} THEN g ELSE Applied(h[s \ {Max(s)}], acts[Max(s)], e)]
    BY <2>2, <2>3, Zenon
  <2> QED
    BY <2>4, Zenon
<1> DEFINE h == CHOOSE h : Eq(h)
<1>6. AppliedAll(in.rules[r], g, e) = h[1 .. n]
  BY <1>1, Zenon DEF AppliedAll, FoldLeft, MapThenFoldSet
<1>7. Eq(h)
  <2> HIDE DEF Eq
  <2> QED
    BY <1>5, Zenon
<1> HIDE DEF h
<1>8. ASSUME NEW s \in D
      PROVE  h[s] = IF s = {} THEN g ELSE Applied(h[s \ {Max(s)}], acts[Max(s)], e)
  <2> DEFINE w == [y \in D |-> IF y = {} THEN g ELSE Applied(h[y \ {Max(y)}], acts[Max(y)], e)]
  <2>1. h = w
    BY <1>7, Zenon
  <2>2. w[s] = IF s = {} THEN g ELSE Applied(h[s \ {Max(s)}], acts[Max(s)], e)
    BY Zenon
  <2> QED
    BY <2>1, <2>2, Zenon
<1>9. h[{}] \in S
  <2>1. {} \in D
    OBVIOUS
  <2> QED
    BY <1>8, <2>1, Zenon
<1>10. \A s \in D : s # {} /\ h[s \ {Max(s)}] \in S => h[s] \in S
  <2> HIDE DEF D, S, n, acts
  <2> QED
    BY <1>2, <1>4, <1>8, Zenon
<1>11. h[1 .. n] \in S
  <2> HIDE DEF S, n
  <2> QED
    BY <1>1, <1>9, <1>10, FoldStays
<1> QED
  BY <1>6, <1>11, Zenon

\* The fold over the elements of a match.
LEMMA AssignFeatureTraced ==
  ASSUME Loops, Temporary, j \in 1 .. Len(input.rules), f \in Extended(input),
         NEW p \in 1 .. N, NEW l \in 0 .. (N - p + 1)
  PROVE  assign_feature(Rule, p, l) \in Extended(input)
<1> DEFINE es == From(p, l)
           S == Extended(input)
           D == SUBSET (1 .. l)
           G == [k \in 1 .. l |-> [x \in S |-> AppliedAll(Rule, x, es[k])]]
           Eq(h) == h = [s \in D |-> IF s = {} THEN f ELSE AppliedAll(Rule, h[s \ {Max(s)}], es[Max(s)])]
<1>0. l \in Nat /\ p \in Int
  OBVIOUS
<1>1. DOMAIN es = 1 .. l /\ \A k \in 1 .. l : es[k] \in Elements
  <2>1. DOMAIN es = 1 .. l /\ \A k \in 1 .. l : es[k] = p + k - 1
    BY Zenon DEF From
  <2>2. \A k \in 1 .. l : p + k - 1 \in 1 .. N
    BY NAssumption
  <2> QED
    BY <2>1, <2>2, Zenon DEF Elements
<1>2. \A k \in 1 .. l : \A x \in S : AppliedAll(Rule, x, es[k]) \in S
  BY <1>1, AppliedAllTraced, Zenon DEF Rule, Loops
<1>3. G \in [1 .. l -> [S -> S]] /\ \A k \in 1 .. l : \A x \in S : G[k][x] = AppliedAll(Rule, x, es[k])
  <2> HIDE DEF S, es
  <2> QED
    BY <1>2, Zenon
<1>4. \A s \in D : s # {} => s \ {Max(s)} \in D /\ Max(s) \in 1 .. l
  BY <1>0, ReachFacts, Zenon
<1>5. \E h : Eq(h)
  <2>1. PICK h \in [D -> S] : \A s \in D : h[s] = IF s = {} THEN f ELSE G[Max(s)][h[s \ {Max(s)}]]
    <3> HIDE DEF G, S
    <3>1. f \in S /\ l \in Nat /\ G \in [1 .. l -> [S -> S]]
      BY <1>0, <1>3, Zenon DEF S
    <3>2. \E h : Folds(S, l, f, G, h)
      BY <3>1, FoldExists, Zenon
    <3> QED
      BY <3>2, Zenon DEF Folds
  <2> HIDE DEF D, S, G
  <2>2. ASSUME NEW s \in D
        PROVE  h[s] = IF s = {} THEN f ELSE AppliedAll(Rule, h[s \ {Max(s)}], es[Max(s)])
    BY <1>3, <1>4, <2>1, Zenon
  <2>3. h = [s \in D |-> h[s]]
    BY <2>1, Zenon
  <2>4. h = [s \in D |-> IF s = {} THEN f ELSE AppliedAll(Rule, h[s \ {Max(s)}], es[Max(s)])]
    BY <2>2, <2>3, Zenon
  <2> QED
    BY <2>4, Zenon
<1> DEFINE h == CHOOSE h : Eq(h)
<1>6. assign_feature(Rule, p, l) = h[1 .. l]
  BY <1>1, Zenon DEF assign_feature, FoldLeft, MapThenFoldSet
<1>7. Eq(h)
  <2> HIDE DEF Eq
  <2> QED
    BY <1>5, Zenon
<1> HIDE DEF h
<1>8. ASSUME NEW s \in D
      PROVE  h[s] = IF s = {} THEN f ELSE AppliedAll(Rule, h[s \ {Max(s)}], es[Max(s)])
  <2> DEFINE w == [y \in D |-> IF y = {} THEN f ELSE AppliedAll(Rule, h[y \ {Max(y)}], es[Max(y)])]
  <2>1. h = w
    BY <1>7, Zenon
  <2>2. w[s] = IF s = {} THEN f ELSE AppliedAll(Rule, h[s \ {Max(s)}], es[Max(s)])
    BY Zenon
  <2> QED
    BY <2>1, <2>2, Zenon
<1>9. h[{}] \in S
  <2>1. {} \in D
    OBVIOUS
  <2> QED
    BY <1>8, <2>1, Zenon
<1>10. \A s \in D : s # {} /\ h[s \ {Max(s)}] \in S => h[s] \in S
  <2> HIDE DEF D, S, es
  <2> QED
    BY <1>2, <1>4, <1>8, Zenon
<1>11. h[1 .. l] \in S
  <2> HIDE DEF S
  <2> QED
    BY <1>0, <1>9, <1>10, FoldStays
<1> QED
  BY <1>6, <1>11, Zenon

\* A structure is treated temporarily, and what it leaves is what the features have
\* been at first but for what the rules delete or write over.
Clean(e) == \A k \in 1 .. Len(f[e]) : ~ f[e][k].temp

Kept ==
  /\ pc = "print" => Temporary
  /\ pc \in {"idle", "print"} \/ (pc = "rules" /\ Temporary) => f \in Extended(input)
  /\ pc = "idle" /\ input.data = "tag" => \A e \in Elements : Clean(e)
  /\ pc = "crashed" => \E e \in Elements : ~ Lasting(input, e)

LEMMA GivenExtended ==
  ASSUME NEW in \in Inputs
  PROVE  in.given \in Extended(in)
<1> DEFINE g == in.given
           T == Seq(Feats(in))
<1>1. \A e \in Elements : Traced(in, e, g[e])
  BY GivenFacts, Zenon
<1>2. \A e \in Elements : g[e] \in T
  BY <1>1, Zenon DEF Traced
<1>3. g = [e \in Elements |-> g[e]]
  <2>1. g \in [Elements -> Range(g)]
    BY InputsAssumption, Zenon
  <2> QED
    BY <2>1, Zenon
<1> HIDE DEF g, T
<1>4. g \in [Elements -> T]
  BY <1>2, <1>3, Zenon
<1>5. g \in Extended(in)
  BY <1>1, <1>4, Zenon DEF Extended, T
<1> QED
  BY <1>5, Zenon DEF g

LEMMA KeptInit == Init => Kept
<1> SUFFICES ASSUME Init PROVE Kept
  OBVIOUS
<1>1. input \in Inputs /\ f = input.given /\ pc = "idle"
  BY Zenon DEF Init
<1>2. f \in Extended(input)
  BY <1>1, GivenExtended, Zenon
<1>3. \A e \in Elements : Clean(e)
  BY <1>1, GivenFacts, Zenon DEF Clean
<1>4. pc # "print" /\ pc # "crashed"
  BY <1>1
<1> QED
  BY <1>2, <1>3, <1>4, Zenon DEF Kept

LEMMA KeptNext ==
  ASSUME Loops, Kept, [Next]_vars
  PROVE  Kept'
<1>0. input \in Inputs
  BY Zenon DEF Loops
<1>1. CASE Begin
  <2>1. pc = "idle" /\ pc' = "rules" /\ input' = input /\ f' = f /\ turn' = turn
    BY <1>1, Zenon DEF Begin
  <2>2. pc' # "print" /\ pc' # "idle" /\ pc' # "crashed"
    BY <2>1
  <2>3. f' \in Extended(input')
    BY <2>1, Zenon DEF Kept
  <2> QED
    BY <2>2, <2>3, Zenon DEF Kept
<1>2. CASE ApplyRule
  <2> DEFINE l == regexprule_match(Rule, Position)
             p == Position
  <2>1. /\ pc = "rules" /\ ~ LoopsOver /\ l # -1 /\ f' = assign_feature(Rule, p, l)
        /\ input' = input /\ pc' = pc /\ turn' = turn
    BY <1>2, Zenon DEF ApplyRule
  <2>2. l \in -1 .. (N - p + 1) /\ p \in 1 .. N /\ j \in 1 .. Len(input.rules)
    BY <2>1, Tried, Zenon
  <2>3. l \in 0 .. (N - p + 1)
    <3> HIDE DEF l, p
    <3> QED
      BY <2>1, <2>2, NAssumption
  <2>4. pc' # "print" /\ pc' # "idle" /\ pc' # "crashed"
    BY <2>1
  <2>5. Temporary' <=> Temporary
    BY <2>1, Zenon DEF Temporary
  <2>6. Temporary => f' \in Extended(input)
    <3>1. Temporary => f \in Extended(input)
      BY <2>1, Zenon DEF Kept
    <3> HIDE DEF l, p
    <3>2. Temporary => assign_feature(Rule, p, l) \in Extended(input)
      BY <2>2, <2>3, <3>1, AssignFeatureTraced, Zenon
    <3> QED
      BY <2>1, <3>2, Zenon
  <2> QED
    BY <2>1, <2>4, <2>5, <2>6, Zenon DEF Kept
<1>3. CASE TryNext
  <2>1. pc' = pc /\ input' = input /\ f' = f /\ turn' = turn
    BY <1>3, Zenon DEF TryNext
  <2> QED
    BY <2>1, Zenon DEF Kept, Temporary, Clean
<1>4. CASE RulesDone
  <2>1. /\ pc = "rules" /\ pc' = (IF Temporary THEN "print" ELSE "done")
        /\ input' = input /\ f' = f /\ turn' = turn
    BY <1>4, Zenon DEF RulesDone
  <2>2. Temporary' <=> Temporary
    BY <2>1, Zenon DEF Temporary
  <2>3. /\ pc' # "idle" /\ pc' # "crashed" /\ pc' # "rules"
        /\ pc' = "print" => Temporary
    BY <2>1
  <2>4. pc' = "print" => f' \in Extended(input')
    BY <2>1, <2>3, Zenon DEF Kept
  <2> QED
    BY <2>2, <2>3, <2>4, Zenon DEF Kept
<1>5. CASE PrintStructure
  <2>1. pc = "print" /\ input' = input
    BY <1>5, Zenon DEF PrintStructure
  <2>2. f \in Extended(input) /\ \A e \in Elements : Traced(input, e, f[e])
    BY <2>1, Zenon DEF Kept, Extended
  <2>3. CASE input.data # "tag"
    <3>1. pc' = "idle" /\ f' = f
      BY <1>5, <2>3, Zenon DEF PrintStructure
    <3>2. pc' # "print" /\ pc' # "crashed"
      BY <3>1
    <3> QED
      BY <2>1, <2>2, <2>3, <3>1, <3>2, Zenon DEF Kept
  <2>4. CASE input.data = "tag" /\ \E e \in Elements : DeletionCrashes(f[e])
    <3>1. pc' = "crashed"
      BY <1>5, <2>4, Zenon DEF PrintStructure
    <3>2. PICK e \in Elements : DeletionCrashes(f[e])
      BY <2>4, Zenon
    <3>3. f[e][1].temp
      BY <3>2, Zenon DEF DeletionCrashes
    <3>4. ~ Lasting(input, e)
      BY <2>2, <3>3, Zenon DEF Traced
    <3>5. pc' # "print" /\ pc' # "idle" /\ pc' # "rules"
      BY <3>1
    <3> QED
      BY <2>1, <3>4, <3>5, Zenon DEF Kept
  <2>5. CASE input.data = "tag" /\ ~ \E e \in Elements : DeletionCrashes(f[e])
    <3>1. pc' = "idle" /\ f' = [e \in Elements |-> delete_temp_feature(f[e])]
      BY <1>5, <2>5, Zenon DEF PrintStructure
    <3>2. \A e \in Elements : f'[e] = delete_temp_feature(f[e])
      BY <3>1, Zenon
    <3>3. \A e \in Elements : /\ Traced(input, e, f'[e])
                              /\ \A k \in 1 .. Len(f'[e]) : ~ f'[e][k].temp
      BY <1>0, <2>2, <3>2, CleanedTraced, Zenon
    <3>4. f' \in Extended(input)
      <4> DEFINE T == Seq(Feats(input))
      <4>1. \A e \in Elements : delete_temp_feature(f[e]) \in T
        BY <3>2, <3>3, Zenon DEF Traced
      <4> HIDE DEF T
      <4>2. f' \in [Elements -> T]
        BY <3>1, <4>1, Zenon
      <4> QED
        BY <3>3, <4>2, Zenon DEF Extended, T
    <3>5. pc' # "print" /\ pc' # "crashed"
      BY <3>1
    <3> QED
      BY <2>1, <3>3, <3>4, <3>5, Zenon DEF Kept, Clean
  <2> QED
    BY <2>3, <2>4, <2>5, Zenon
<1>6. CASE Ended \/ UNCHANGED vars
  <2>1. pc' = pc /\ input' = input /\ f' = f /\ turn' = turn
    BY <1>6, Zenon DEF Ended, vars
  <2> QED
    BY <2>1, Zenon DEF Kept, Temporary, Clean
<1> QED
  BY <1>1, <1>2, <1>3, <1>4, <1>5, <1>6, Zenon DEF Next

\* What the lists say of the features, said of their sets.
LEMMA KeptRestored ==
  ASSUME Loops, Kept
  PROVE  Restored
<1>0. input \in Inputs
  BY Zenon DEF Loops
<1>1. ASSUME pc = "idle", NEW e \in Elements
      PROVE  LET had == Range(input.given[e])
                 has == {x \in Range(f[e]) : ~x.temp}
             IN  /\ input.data = "tag" => has = Range(f[e])
                 /\ \A x \in has :
                       \/ x \in had
                       \/ x.name \in GivenNames(input, e) \cap Overwritten(input)
                 /\ \A x \in had :
                       \/ x.name \in Deletable(input)
                       \/ \E y \in has : y.name = x.name /\ (y = x \/ x.name \in Overwritten(input))
  <2> DEFINE had == Range(input.given[e])
             has == {x \in Range(f[e]) : ~x.temp}
  <2>1. Traced(input, e, f[e])
    BY <1>1, Zenon DEF Kept, Extended
  <2>2. DOMAIN f[e] = 1 .. Len(f[e])
    <3>1. f[e] \in Seq(Feats(input))
      BY <2>1, Zenon DEF Traced
    <3> QED
      BY <3>1, NamedFacts, Zenon
  <2>3. \A x : x \in Range(f[e]) <=> \E k \in 1 .. Len(f[e]) : x = f[e][k]
    BY <2>2, Zenon DEF Range
  <2>4. \A x : x \in has <=> x \in Range(f[e]) /\ ~ x.temp
    BY Zenon
  <2> HIDE DEF has, had
  <2>5. input.data = "tag" => has = Range(f[e])
    <3>1. input.data = "tag" => Clean(e)
      BY <1>1, Zenon DEF Kept
    <3>2. input.data = "tag" => \A x \in Range(f[e]) : ~ x.temp
      BY <2>3, <3>1, Zenon DEF Clean
    <3> QED
      BY <2>4, <3>2, Zenon
  <2>6. \A x \in has : x \in had \/ x.name \in GivenNames(input, e) \cap Overwritten(input)
    BY <2>1, <2>3, <2>4, Zenon DEF Traced, Descends, had
  <2>7. ASSUME NEW x \in had, x.name \notin Deletable(input)
        PROVE  \E y \in has : y.name = x.name /\ (y = x \/ x.name \in Overwritten(input))
    <3>1. PICK k \in 1 .. Len(f[e]) : /\ ~ f[e][k].temp /\ f[e][k].name = x.name
                                      /\ f[e][k] = x \/ x.name \in Overwritten(input)
      BY <2>1, <2>7, Zenon DEF Traced, Survives, had
    <3>2. f[e][k] \in has
      BY <2>3, <2>4, <3>1, Zenon
    <3> QED
      BY <3>1, <3>2, Zenon
  <2>8. \A x \in had : \/ x.name \in Deletable(input)
                       \/ \E y \in has : y.name = x.name /\ (y = x \/ x.name \in Overwritten(input))
    BY <2>7, Zenon
  <2> QED
    BY <2>5, <2>6, <2>8, Zenon DEF had, has
<1>2. ASSUME \A e \in Elements : input.given[e] # <<>> /\ input.given[e][1].name \notin Deletable(input)
      PROVE  pc # "crashed"
  <2>1. \A e \in Elements : Lasting(input, e)
    BY <1>2, Zenon DEF Lasting
  <2> QED
    BY <2>1, Zenon DEF Kept
<1> QED
  BY <1>1, <1>2, Zenon DEF Restored

\* Whatever rules are applied to the structures temporarily, each leaves for the next
\* the features from the start, but for those the rules delete or write over and, on
\* phrases, the temporary ones, and the deletion of temporary features follows no null
\* pointer unless some element has lost its first feature (delete_temp_feature), for
\* all sentences, rules and features.
THEOREM RestoredAlways == Spec => []Restored
<1>1. Loops /\ Kept => Restored
  BY KeptRestored
<1>2. Loops /\ Kept /\ [Next]_vars => Kept'
  BY KeptNext
<1> QED
  BY <1>1, <1>2, KeptInit, LoopsAlways, PTL DEF Spec
=============================================================================
