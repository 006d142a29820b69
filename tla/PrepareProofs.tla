--------------------------- MODULE PrepareProofs ---------------------------
(***************************************************************************)
(* Proofs about Prepare: all its invariants, for sentences of every length *)
(* with any number of brackets, whatever dependency rules and correlative  *)
(* expressions say.                                                        *)
(*                                                                         *)
(* Brackets: while check_quote runs, an open bracket counts as ending      *)
(* behind the sentence and an unmatched closing one as beginning at its    *)
(* start; then no two ranges cross at any moment, and the stack holds the  *)
(* open ones, the innermost first.  Relaxation: Quote_matrix is described  *)
(* exactly, as what no pair of brackets masks, from which follows what a   *)
(* phrase can see that is left without a head.                             *)
(***************************************************************************)
EXTENDS Prepare, SequenceTheorems, WellFoundedInduction, TLAPS

-----------------------------------------------------------------------------
(* Numbers                                                                 *)

\* A set of natural numbers has a least element.
LEMMA LeastNat ==
  ASSUME NEW S, S \subseteq Nat, S # {}
  PROVE  \E x \in S : \A y \in S : x <= y
<1>1. \A x, y \in Nat : <<y, x>> \in OpToRel(<, Nat) <=> y < x
  BY DEF OpToRel
<1>2. \E x \in S : \A y \in S : ~ (<<y, x>> \in OpToRel(<, Nat))
  BY WFMin, NatLessThanWellFounded
<1>3. PICK x \in S : \A y \in S : ~ (<<y, x>> \in OpToRel(<, Nat))
  BY <1>2
<1>4. ASSUME NEW y \in S
      PROVE  x <= y
  <2>1. ~ (<<y, x>> \in OpToRel(<, Nat))
    BY <1>3
  <2>2. x \in Nat /\ y \in Nat
    OBVIOUS
  <2>3. ~ (y < x)
    BY <1>1, <2>1, <2>2
  <2> QED
    BY <2>2, <2>3
<1> QED
  BY <1>4

\* Highest, by which koou.c and relax_dpnd_matrix find the end of a range, names
\* an element of every set of phrases that has one.
LEMMA HighestIn ==
  ASSUME NEW S, S \subseteq Bnst, S # {}
  PROVE  Highest(S) \in S /\ \A y \in S : Highest(S) >= y
<1> DEFINE U == {Last - y : y \in S}
<1>1. \A y \in S : y \in Int /\ Last - y \in Nat
  BY NAssumption DEF Bnst, Last
<1>2. Last \in Int
  BY NAssumption DEF Last
<1>3. \E x \in U : \A y \in U : x <= y
  <2>1. U \subseteq Nat /\ U # {}
    BY <1>1
  <2> HIDE DEF U
  <2> QED
    BY <2>1, LeastNat
<1>4. PICK m \in S : \A y \in S : Last - m <= Last - y
  BY <1>3
<1>5. \E x \in S : \A y \in S : x >= y
  BY <1>1, <1>2, <1>4
<1> QED
  BY <1>5 DEF Highest

\* Lowest, the other end.
LEMMA LowestIn ==
  ASSUME NEW S, S \subseteq Bnst, S # {}
  PROVE  Lowest(S) \in S /\ \A y \in S : Lowest(S) <= y
<1>1. S \subseteq Nat
  BY DEF Bnst
<1>2. \E x \in S : \A y \in S : x <= y
  BY <1>1, LeastNat
<1> QED
  BY <1>2 DEF Lowest

\* There is a last phrase, and phrases are numbered from 0 to it.
LEMMA PhraseBounds ==
  /\ N \in Nat /\ N >= 1
  /\ Last \in Bnst /\ Last \in Nat /\ Last = N - 1
  /\ \A b \in Bnst : b \in Int /\ 0 <= b /\ b <= Last
  /\ \A b \in 0 .. Last : b \in Bnst
BY NAssumption DEF Bnst, Last
-----------------------------------------------------------------------------
(* Pairing brackets                                                        *)

Ranges == [in : -1 .. Last, out : -1 .. Last]

\* Where a range begins and ends as long as the rest of the sentence is open.
Begin(p) == IF p.in = -1 THEN 0 ELSE p.in
End(p) == IF p.out = -1 THEN N ELSE p.out

Crossed(p, r) == Begin(p) < Begin(r) /\ Begin(r) < End(p) /\ End(p) < End(r)

\* What check_quote has after the brackets up to phrase i: ps are the m pairs,
\* st the d open ones among them.
RangesOK(s, ps, m, i) ==
  \A k \in 1 .. m :
    /\ Begin(ps[k]) <= i
    /\ Begin(ps[k]) <= End(ps[k])
    /\ ps[k].out # -1 => ps[k].out <= i /\ s.closes[ps[k].out] > 0

Uncrossed(ps, m) == \A k, l \in 1 .. m : ~ Crossed(ps[k], ps[l])

StackOK(ps, m, st, d) ==
  /\ \A a \in 1 .. d : st[a] <= m - a + 1 /\ ps[st[a]].out = -1
  /\ \A k \in 1 .. m : ps[k].out = -1 => \E a \in 1 .. d : st[a] = k
  /\ \A a, b \in 1 .. d :
       a < b => st[b] < st[a] /\ Begin(ps[st[b]]) <= Begin(ps[st[a]])

Bracketed(s, ps, m, st, d, i) ==
  RangesOK(s, ps, m, i) /\ Uncrossed(ps, m) /\ StackOK(ps, m, st, d)

\* Ranges begin and end at phrases, or end behind the sentence.
LEMMA RangeTypes ==
  ASSUME NEW p \in Ranges
  PROVE  /\ Begin(p) \in 0 .. Last
         /\ End(p) \in 0 .. N
         /\ p.out = -1 => End(p) = N
         /\ p.out # -1 => End(p) = p.out /\ End(p) < N
         /\ p.out \in -1 .. Last
BY PhraseBounds DEF Ranges, Begin, End

\* An opening bracket ends, as far as is known, behind the sentence: nothing
\* that is closed reaches beyond it, and what is open ends there too.
LEMMA Opening ==
  ASSUME NEW s, NEW m \in Nat, NEW d \in Nat, NEW i \in Bnst,
         NEW ps \in [1 .. m -> Ranges], NEW st \in [1 .. d -> 1 .. m],
         Bracketed(s, ps, m, st, d, i),
         NEW ps2 \in [1 .. m + 1 -> Ranges], NEW st2 \in [1 .. d + 1 -> 1 .. m + 1],
         \A k \in 1 .. m : ps2[k] = ps[k],
         ps2[m + 1].in = i, ps2[m + 1].out = -1,
         st2[1] = m + 1, \A a \in 1 .. d : st2[a + 1] = st[a]
  PROVE  Bracketed(s, ps2, m + 1, st2, d + 1, i)
<1> DEFINE n == m + 1
<1>1. Begin(ps2[n]) = i /\ End(ps2[n]) = N
  BY PhraseBounds DEF Begin, End
<1>4. \A k \in 1 .. n : k \in 1 .. m \/ k = n
  OBVIOUS
<1>5. \A k \in 1 .. m :
        /\ Begin(ps2[k]) \in Int /\ End(ps2[k]) \in Int
        /\ Begin(ps2[k]) <= i /\ (End(ps2[k]) <= i \/ End(ps2[k]) = N)
        /\ End(ps2[k]) <= N
  <2> SUFFICES ASSUME NEW k \in 1 .. m
               PROVE  /\ Begin(ps2[k]) \in Int /\ End(ps2[k]) \in Int
                      /\ Begin(ps2[k]) <= i /\ (End(ps2[k]) <= i \/ End(ps2[k]) = N)
                      /\ End(ps2[k]) <= N
    OBVIOUS
  <2>1. ps[k] \in Ranges /\ ps2[k] = ps[k]
    OBVIOUS
  <2>2. /\ Begin(ps[k]) <= i
        /\ ps[k].out # -1 => ps[k].out <= i
    BY DEF Bracketed, RangesOK
  <2> QED
    BY SMTT(30), <2>1, <2>2, RangeTypes, PhraseBounds
<1>6. RangesOK(s, ps2, n, i)
  <2> SUFFICES ASSUME NEW k \in 1 .. n
               PROVE  /\ Begin(ps2[k]) <= i
                      /\ Begin(ps2[k]) <= End(ps2[k])
                      /\ ps2[k].out # -1 => ps2[k].out <= i /\ s.closes[ps2[k].out] > 0
    BY DEF RangesOK
  <2>1. CASE k \in 1 .. m
    <3>1. ps2[k] = ps[k]
      BY <2>1
    <3> QED
      BY <2>1, <3>1 DEF RangesOK, Bracketed
  <2>2. CASE k = n
    <3>1. i <= N /\ i <= i
      BY PhraseBounds
    <3>2. Begin(ps2[k]) = i /\ End(ps2[k]) = N /\ ps2[k].out = -1
      BY <2>2, <1>1
    <3> QED
      BY <3>1, <3>2
  <2> QED
    BY <1>4, <2>1, <2>2
<1>7. Uncrossed(ps2, n)
  <2> SUFFICES ASSUME NEW k \in 1 .. n, NEW l \in 1 .. n
               PROVE  ~ Crossed(ps2[k], ps2[l])
    BY DEF Uncrossed
  <2>1. CASE k \in 1 .. m /\ l \in 1 .. m
    <3>1. ps2[k] = ps[k] /\ ps2[l] = ps[l]
      BY <2>1
    <3> QED
      BY <2>1, <3>1 DEF Bracketed, Uncrossed
  <2>2. CASE l = n /\ k \in 1 .. m
    <3>1. (End(ps2[k]) <= i \/ End(ps2[k]) = N) /\ End(ps2[k]) \in Int
      BY <2>2, <1>5, Zenon
    <3>2. Begin(ps2[l]) = i /\ End(ps2[l]) = N
      BY <2>2, <1>1
    <3>3. i \in Int /\ N \in Int
      BY PhraseBounds
    <3> QED
      BY <3>1, <3>2, <3>3 DEF Crossed
  <2>3. CASE k = n
    <3>1. End(ps2[l]) <= N /\ End(ps2[l]) \in Int
      BY <1>1, <1>4, <1>5, PhraseBounds
    <3> QED
      BY <2>3, <3>1, <1>1, PhraseBounds DEF Crossed
  <2> QED
    BY <1>4, <2>1, <2>2, <2>3
<1>8. StackOK(ps2, n, st2, d + 1)
  <2>o. /\ \A a \in 1 .. d : st[a] <= m - a + 1 /\ ps[st[a]].out = -1
        /\ \A k \in 1 .. m : ps[k].out = -1 => \E a \in 1 .. d : st[a] = k
        /\ \A a, b \in 1 .. d :
             a < b => st[b] < st[a] /\ Begin(ps[st[b]]) <= Begin(ps[st[a]])
    BY DEF Bracketed, StackOK
  <2>a. ASSUME NEW a \in 1 .. d + 1, a # 1
        PROVE  a - 1 \in 1 .. d /\ st2[a] = st[a - 1] /\ ps2[st2[a]] = ps[st[a - 1]]
    <3>1. a - 1 \in 1 .. d /\ a - 1 + 1 = a
      BY <2>a
    <3>2. st2[a - 1 + 1] = st[a - 1] /\ st[a - 1] \in 1 .. m
      BY <3>1
    <3> QED
      BY <3>1, <3>2
  <2>1. ASSUME NEW a \in 1 .. d + 1
        PROVE  st2[a] <= n - a + 1 /\ ps2[st2[a]].out = -1
    <3>1. CASE a = 1
      BY <3>1
    <3>2. CASE a # 1
      BY <3>2, <2>a, <2>o
    <3> QED
      BY <3>1, <3>2
  <2>2. ASSUME NEW k \in 1 .. n, ps2[k].out = -1
        PROVE  \E a \in 1 .. d + 1 : st2[a] = k
    <3>1. CASE k = n
      BY <3>1
    <3>2. CASE k \in 1 .. m
      <4>1. PICK a \in 1 .. d : st[a] = k
        BY <3>2, <2>2, <2>o
      <4>2. a + 1 \in 1 .. d + 1 /\ st2[a + 1] = k
        BY <4>1
      <4> QED
        BY <4>2
    <3> QED
      BY <3>1, <3>2, <1>4
  <2>3. ASSUME NEW a \in 1 .. d + 1, NEW b \in 1 .. d + 1, a < b
        PROVE  st2[b] < st2[a] /\ Begin(ps2[st2[b]]) <= Begin(ps2[st2[a]])
    <3>1. b - 1 \in 1 .. d /\ st2[b] = st[b - 1] /\ ps2[st2[b]] = ps[st[b - 1]]
      BY <2>3, <2>a
    <3>2. st[b - 1] \in 1 .. m
      BY <3>1
    <3>3. CASE a = 1
      <4>0. Begin(ps2[st[b - 1]]) <= i
        BY <3>2, <1>5, Zenon
      <4>1. st[b - 1] < n /\ ps2[st2[a]] = ps2[n] /\ st2[a] = n
        BY <3>2, <3>3
      <4>2. Begin(ps2[st2[a]]) = i
        BY <4>1, <1>1
      <4>3. ps2[st2[b]] = ps2[st[b - 1]]
        BY <3>1
      <4> QED
        BY <3>1, <4>0, <4>1, <4>2, <4>3
    <3>4. CASE a # 1
      <4>1. a - 1 \in 1 .. d /\ st2[a] = st[a - 1] /\ ps2[st2[a]] = ps[st[a - 1]]
        BY <3>4, <2>a
      <4>2. a - 1 < b - 1
        BY <2>3
      <4>3. st[b - 1] < st[a - 1] /\ Begin(ps[st[b - 1]]) <= Begin(ps[st[a - 1]])
        BY <4>1, <4>2, <3>1, <2>o
      <4> QED
        BY <4>1, <4>3, <3>1
    <3> QED
      BY <3>3, <3>4
  <2> QED
    BY <2>1, <2>2, <2>3 DEF StackOK
<1> QED
  BY <1>6, <1>7, <1>8 DEF Bracketed

\* A closing bracket without a partner spans what is there, all of which is
\* closed.
LEMMA Unmatched ==
  ASSUME NEW s, NEW m \in Nat, NEW i \in Bnst, s.closes[i] > 0,
         NEW ps \in [1 .. m -> Ranges], NEW st,
         Bracketed(s, ps, m, st, 0, i),
         NEW ps2 \in [1 .. m + 1 -> Ranges],
         \A k \in 1 .. m : ps2[k] = ps[k],
         ps2[m + 1].in = -1, ps2[m + 1].out = i
  PROVE  Bracketed(s, ps2, m + 1, st, 0, i)
<1> DEFINE n == m + 1
<1>1. Begin(ps2[n]) = 0 /\ End(ps2[n]) = i
  BY PhraseBounds DEF Begin, End
<1>2. \A k \in 1 .. n : k \in 1 .. m \/ k = n
  OBVIOUS
<1>3. \A k \in 1 .. m : ps[k].out # -1
  BY DEF Bracketed, StackOK
<1>4. \A k \in 1 .. n :
        /\ Begin(ps2[k]) \in 0 .. i /\ End(ps2[k]) \in 0 .. i
        /\ Begin(ps2[k]) <= End(ps2[k])
        /\ ps2[k].out \in 0 .. i /\ s.closes[ps2[k].out] > 0
  <2> SUFFICES ASSUME NEW k \in 1 .. n
               PROVE  /\ Begin(ps2[k]) \in 0 .. i /\ End(ps2[k]) \in 0 .. i
                      /\ Begin(ps2[k]) <= End(ps2[k])
                      /\ ps2[k].out \in 0 .. i /\ s.closes[ps2[k].out] > 0
    OBVIOUS
  <2>1. CASE k \in 1 .. m
    <3>1. ps[k] \in Ranges /\ ps2[k] = ps[k] /\ ps[k].out # -1
      BY <2>1, <1>3
    <3>2. /\ Begin(ps[k]) <= i /\ Begin(ps[k]) <= End(ps[k])
          /\ ps[k].out <= i /\ s.closes[ps[k].out] > 0
      BY <2>1, <3>1 DEF Bracketed, RangesOK
    <3> QED
      BY <3>1, <3>2, RangeTypes, PhraseBounds
  <2>2. CASE k = n
    <3>1. Begin(ps2[k]) = 0 /\ End(ps2[k]) = i /\ ps2[k].out = i
      BY <2>2, <1>1
    <3>2. 0 \in 0 .. i /\ i \in 0 .. i /\ 0 <= i
      BY PhraseBounds
    <3> QED
      BY <3>1, <3>2
  <2> QED
    BY <1>2, <2>1, <2>2
<1>5. RangesOK(s, ps2, n, i)
  <2> SUFFICES ASSUME NEW k \in 1 .. n
               PROVE  /\ Begin(ps2[k]) <= i
                      /\ Begin(ps2[k]) <= End(ps2[k])
                      /\ ps2[k].out # -1 => ps2[k].out <= i /\ s.closes[ps2[k].out] > 0
    BY DEF RangesOK
  <2>1. /\ Begin(ps2[k]) \in 0 .. i
        /\ Begin(ps2[k]) <= End(ps2[k])
        /\ ps2[k].out \in 0 .. i /\ s.closes[ps2[k].out] > 0
    BY <1>4, Zenon
  <2> QED
    BY <2>1, PhraseBounds
<1>6. Uncrossed(ps2, n)
  <2> SUFFICES ASSUME NEW k \in 1 .. n, NEW l \in 1 .. n
               PROVE  ~ Crossed(ps2[k], ps2[l])
    BY DEF Uncrossed
  <2>0. Begin(ps2[k]) \in 0 .. i /\ End(ps2[l]) \in 0 .. i
    BY <1>4, Zenon
  <2>1. CASE k \in 1 .. m /\ l \in 1 .. m
    <3>1. ps2[k] = ps[k] /\ ps2[l] = ps[l]
      BY <2>1
    <3> QED
      BY <2>1, <3>1 DEF Bracketed, Uncrossed
  <2>2. CASE l = n
    BY <2>0, <2>2, <1>1, PhraseBounds DEF Crossed
  <2>3. CASE k = n
    BY <2>0, <2>3, <1>1, PhraseBounds DEF Crossed
  <2> QED
    BY <1>2, <2>1, <2>2, <2>3
<1>7. StackOK(ps2, n, st, 0)
  <2>1. \A k \in 1 .. n : ps2[k].out # -1
    <3> SUFFICES ASSUME NEW k \in 1 .. n
                 PROVE  ps2[k].out # -1
      OBVIOUS
    <3>1. ps2[k].out \in 0 .. i
      BY <1>4, Zenon
    <3> QED
      BY <3>1, PhraseBounds
  <2>2. 1 .. 0 = {}
    OBVIOUS
  <2> QED
    BY <2>1, <2>2 DEF StackOK
<1> QED
  BY <1>5, <1>6, <1>7 DEF Bracketed

\* A closing bracket ends the innermost open range: what is still open began
\* before it, what is closed does not reach into it from the left.
LEMMA Closing ==
  ASSUME NEW s, NEW m \in Nat, NEW d \in Nat, d > 0, NEW i \in Bnst, s.closes[i] > 0,
         NEW ps \in [1 .. m -> Ranges], NEW st \in [1 .. d -> 1 .. m],
         Bracketed(s, ps, m, st, d, i), NEW h \in 1 .. m, h = st[1],
         NEW ps2 \in [1 .. m -> Ranges], NEW st2 \in [1 .. d - 1 -> 1 .. m],
         \A k \in 1 .. m : k # h => ps2[k] = ps[k],
         ps2[h].in = ps[h].in, ps2[h].out = i,
         \A a \in 1 .. d - 1 : st2[a] = st[a + 1]
  PROVE  Bracketed(s, ps2, m, st2, d - 1, i)
<1>o. /\ \A a \in 1 .. d : st[a] <= m - a + 1 /\ ps[st[a]].out = -1
      /\ \A k \in 1 .. m : ps[k].out = -1 => \E a \in 1 .. d : st[a] = k
      /\ \A a, b \in 1 .. d :
           a < b => st[b] < st[a] /\ Begin(ps[st[b]]) <= Begin(ps[st[a]])
  BY DEF Bracketed, StackOK
<1>h. h \in 1 .. m /\ ps[h].out = -1 /\ 1 \in 1 .. d
  BY <1>o
<1>1. Begin(ps2[h]) = Begin(ps[h]) /\ End(ps2[h]) = i
  BY PhraseBounds DEF Begin, End
<1>2. \A k \in 1 .. m :
        /\ Begin(ps[k]) \in 0 .. Last /\ End(ps[k]) \in 0 .. N
        /\ Begin(ps[k]) <= i /\ Begin(ps[k]) <= End(ps[k])
        /\ ps[k].out # -1 => End(ps[k]) <= i /\ ps[k].out <= i /\ s.closes[ps[k].out] > 0
  <2> SUFFICES ASSUME NEW k \in 1 .. m
               PROVE  /\ Begin(ps[k]) \in 0 .. Last /\ End(ps[k]) \in 0 .. N
                      /\ Begin(ps[k]) <= i /\ Begin(ps[k]) <= End(ps[k])
                      /\ ps[k].out # -1 => End(ps[k]) <= i /\ ps[k].out <= i
                                           /\ s.closes[ps[k].out] > 0
    OBVIOUS
  <2>1. ps[k] \in Ranges
    OBVIOUS
  <2>2. /\ Begin(ps[k]) <= i /\ Begin(ps[k]) <= End(ps[k])
        /\ ps[k].out # -1 => ps[k].out <= i /\ s.closes[ps[k].out] > 0
    BY DEF Bracketed, RangesOK
  <2> QED
    BY <2>1, <2>2, RangeTypes
<1>3. \A k \in 1 .. m : Begin(ps2[k]) = Begin(ps[k])
  <2> SUFFICES ASSUME NEW k \in 1 .. m
               PROVE  Begin(ps2[k]) = Begin(ps[k])
    OBVIOUS
  <2>1. CASE k = h
    BY <2>1, <1>1
  <2>2. CASE k # h
    <3>1. ps2[k] = ps[k]
      BY <2>2
    <3> QED
      BY <3>1
  <2> QED
    BY <2>1, <2>2
<1>4. \A k \in 1 .. m : k # h /\ ps[k].out = -1 => Begin(ps[k]) <= Begin(ps[h])
  <2> SUFFICES ASSUME NEW k \in 1 .. m, k # h, ps[k].out = -1
               PROVE  Begin(ps[k]) <= Begin(ps[h])
    OBVIOUS
  <2>1. PICK a \in 1 .. d : st[a] = k
    BY <1>o
  <2>2. 1 < a
    BY <2>1
  <2>3. Begin(ps[st[a]]) <= Begin(ps[st[1]])
    BY <2>2, <1>h, <1>o
  <2> QED
    BY <2>1, <2>3
<1>5. RangesOK(s, ps2, m, i)
  <2> SUFFICES ASSUME NEW k \in 1 .. m
               PROVE  /\ Begin(ps2[k]) <= i
                      /\ Begin(ps2[k]) <= End(ps2[k])
                      /\ ps2[k].out # -1 => ps2[k].out <= i /\ s.closes[ps2[k].out] > 0
    BY DEF RangesOK
  <2>0. Begin(ps[k]) <= i /\ Begin(ps2[k]) = Begin(ps[k])
    BY <1>2, <1>3, Zenon
  <2>1. CASE k = h
    <3>1. End(ps2[k]) = i /\ ps2[k].out = i /\ i <= i
      BY <2>1, <1>1, PhraseBounds
    <3> QED
      BY <2>0, <3>1
  <2>2. CASE k # h
    <3>1. ps2[k] = ps[k]
      BY <2>2
    <3> QED
      BY <3>1, <1>2, Zenon
  <2> QED
    BY <2>1, <2>2
<1>6. Uncrossed(ps2, m)
  <2> SUFFICES ASSUME NEW k \in 1 .. m, NEW l \in 1 .. m, Crossed(ps2[k], ps2[l])
               PROVE  FALSE
    BY DEF Uncrossed
  <2>0. /\ Begin(ps2[k]) = Begin(ps[k]) /\ Begin(ps2[l]) = Begin(ps[l])
        /\ Begin(ps[k]) \in 0 .. Last /\ Begin(ps[l]) \in 0 .. Last
        /\ End(ps[k]) \in 0 .. N /\ End(ps[l]) \in 0 .. N
        /\ ps[l].out # -1 => End(ps[l]) <= i
    BY <1>2, <1>3, Zenon
  <2>c. ~ Crossed(ps[k], ps[l])
    BY DEF Bracketed, Uncrossed
  <2>1. CASE k # h /\ l # h
    <3>1. ps2[k] = ps[k] /\ ps2[l] = ps[l]
      BY <2>1
    <3> QED
      BY <3>1, <2>c
  <2>2. CASE k = h /\ l # h
    <3>1. ps2[l] = ps[l] /\ End(ps2[k]) = i
      BY <2>2, <1>1
    <3>2. End(ps[l]) > i /\ Begin(ps[h]) < Begin(ps[l])
      BY <3>1, <2>0, <2>2 DEF Crossed
    <3>3. ps[l].out = -1
      BY <3>2, <2>0, PhraseBounds
    <3>4. Begin(ps[l]) <= Begin(ps[h])
      BY <3>3, <2>2, <1>4
    <3> QED
      BY <3>2, <3>4, <2>0, <2>2
  <2>3. CASE k # h /\ l = h
    <3>1. ps2[k] = ps[k] /\ End(ps2[l]) = i
      BY <2>3, <1>1
    <3>2. End(ps[l]) = N
      BY <2>3, <1>h DEF End
    <3>3. Crossed(ps[k], ps[l])
      BY <3>1, <3>2, <2>0, PhraseBounds DEF Crossed
    <3> QED
      BY <3>3, <2>c
  <2>4. CASE k = h /\ l = h
    BY <2>0, <2>4 DEF Crossed
  <2> QED
    BY <2>1, <2>2, <2>3, <2>4
<1>7. StackOK(ps2, m, st2, d - 1)
  <2>a. ASSUME NEW a \in 1 .. d - 1
        PROVE  /\ a + 1 \in 1 .. d /\ st2[a] = st[a + 1] /\ st[a + 1] \in 1 .. m
               /\ st[a + 1] # h /\ ps2[st2[a]] = ps[st[a + 1]]
    <3>1. a + 1 \in 1 .. d /\ 1 < a + 1 /\ st2[a] = st[a + 1]
      OBVIOUS
    <3>2. st[a + 1] < st[1] /\ st[a + 1] \in 1 .. m
      BY <3>1, <1>h, <1>o
    <3>3. st[a + 1] # h
      BY <3>2, <1>h
    <3> QED
      BY <3>1, <3>2, <3>3
  <2>1. ASSUME NEW a \in 1 .. d - 1
        PROVE  st2[a] <= m - a + 1 /\ ps2[st2[a]].out = -1
    <3>1. st[a + 1] <= m - (a + 1) + 1 /\ ps[st[a + 1]].out = -1
      BY <2>a, <1>o
    <3> QED
      BY <3>1, <2>a
  <2>2. ASSUME NEW k \in 1 .. m, ps2[k].out = -1
        PROVE  \E a \in 1 .. d - 1 : st2[a] = k
    <3>1. k # h
      BY <2>2, PhraseBounds
    <3>2. PICK a \in 1 .. d : st[a] = k
      BY <3>1, <2>2, <1>o
    <3>3. a # 1
      BY <3>1, <3>2
    <3>4. a - 1 \in 1 .. d - 1 /\ a - 1 + 1 = a
      BY <3>3
    <3>5. st2[a - 1] = st[a - 1 + 1]
      BY <3>4
    <3> QED
      BY <3>2, <3>4, <3>5
  <2>3. ASSUME NEW a \in 1 .. d - 1, NEW b \in 1 .. d - 1, a < b
        PROVE  st2[b] < st2[a] /\ Begin(ps2[st2[b]]) <= Begin(ps2[st2[a]])
    <3>1. a + 1 < b + 1
      BY <2>3
    <3>2. /\ a + 1 \in 1 .. d /\ st2[a] = st[a + 1] /\ ps2[st2[a]] = ps[st[a + 1]]
          /\ b + 1 \in 1 .. d /\ st2[b] = st[b + 1] /\ ps2[st2[b]] = ps[st[b + 1]]
      BY <2>a
    <3>3. st[b + 1] < st[a + 1] /\ Begin(ps[st[b + 1]]) <= Begin(ps[st[a + 1]])
      BY <3>1, <3>2, <1>o
    <3> QED
      BY <3>2, <3>3
  <2> QED
    BY <2>1, <2>2, <2>3 DEF StackOK
<1> QED
  BY <1>5, <1>6, <1>7 DEF Bracketed

\* The state of check_quote after the brackets up to phrase i.
Pairings == [pairs : Seq(Ranges), stack : Seq(Nat), full : BOOLEAN]

Opened(s, q, i) ==
  /\ q \in Pairings
  /\ Len(q.pairs) < QUOTE_MAX
  /\ \A a \in 1 .. Len(q.stack) : q.stack[a] \in 1 .. Len(q.pairs)
  /\ Bracketed(s, q.pairs, Len(q.pairs), q.stack, Len(q.stack), i)

\* Sequences as functions.
LEMMA SeqFcn ==
  ASSUME NEW S, NEW q \in Seq(S)
  PROVE  Len(q) \in Nat /\ q \in [1 .. Len(q) -> S]
OBVIOUS

\* The sequences check_quote makes of its pairs and of its stack.
LEMMA Pushing ==
  ASSUME NEW S, NEW q \in Seq(S), NEW x \in S
  PROVE  /\ <<x>> \o q \in Seq(S)
         /\ Len(<<x>> \o q) = Len(q) + 1
         /\ (<<x>> \o q)[1] = x
         /\ \A a \in 1 .. Len(q) : (<<x>> \o q)[a + 1] = q[a]
<1>1. <<x>> \in Seq(S) /\ Len(<<x>>) = 1 /\ <<x>>[1] = x
  OBVIOUS
<1> QED
  BY <1>1, ConcatProperties

LEMMA Popping ==
  ASSUME NEW S, NEW q \in Seq(S), q # <<>>
  PROVE  /\ Head(q) = q[1] /\ Len(q) > 0
         /\ Tail(q) \in Seq(S)
         /\ Len(Tail(q)) = Len(q) - 1
         /\ \A a \in 1 .. Len(q) - 1 : Tail(q)[a] = q[a + 1]
OBVIOUS

\* An opening bracket at phrase i.
LEMMA OpenOneKeeps ==
  ASSUME NEW s, NEW q, NEW i \in Bnst, Opened(s, q, i)
  PROVE  Opened(s, OpenOne(q, i), i)
<1>1. q \in Pairings /\ q.pairs \in Seq(Ranges) /\ q.stack \in Seq(Nat) /\ q.full \in BOOLEAN
  BY DEF Opened, Pairings
<1>2. CASE q.full \/ NoRoom(q)
  <2>1. OpenOne(q, i) = [q EXCEPT !.full = TRUE]
    BY <1>2 DEF OpenOne
  <2>2. /\ OpenOne(q, i) \in Pairings
        /\ OpenOne(q, i).pairs = q.pairs /\ OpenOne(q, i).stack = q.stack
    BY <1>1, <2>1 DEF Pairings
  <2> QED
    BY <2>2 DEF Opened
<1>3. CASE ~ (q.full \/ NoRoom(q))
  <2> DEFINE p == [in |-> i, out |-> -1]
             ps == q.pairs
             st == q.stack
             ps2 == Append(ps, p)
             st2 == <<Len(ps) + 1>> \o st
  <2>1. OpenOne(q, i) = [q EXCEPT !.pairs = ps2, !.stack = st2]
    BY <1>3 DEF OpenOne
  <2>2. p \in Ranges
    BY PhraseBounds DEF Ranges
  <2>3. /\ ps2 \in Seq(Ranges) /\ Len(ps2) = Len(ps) + 1 /\ Len(ps) \in Nat
        /\ \A k \in 1 .. Len(ps) : ps2[k] = ps[k]
        /\ ps2[Len(ps) + 1].in = i /\ ps2[Len(ps) + 1].out = -1
    <3>1. p.in = i /\ p.out = -1
      OBVIOUS
    <3>2. Len(ps) \in Nat /\ ps \in Seq(Ranges)
      BY <1>1, SeqFcn
    <3> HIDE DEF p, ps
    <3>3. ps2[Len(ps) + 1] = p
      BY <2>2, <3>2, AppendProperties
    <3> QED
      BY <2>2, <3>1, <3>2, <3>3, AppendProperties
  <2>4. /\ st2 \in Seq(Nat) /\ Len(st2) = Len(st) + 1 /\ Len(st) \in Nat
        /\ st2[1] = Len(ps) + 1
        /\ \A a \in 1 .. Len(st) : st2[a + 1] = st[a]
    BY <1>1, <2>3, Pushing, SeqFcn
  <2>5. /\ OpenOne(q, i) \in Pairings
        /\ OpenOne(q, i).pairs = ps2 /\ OpenOne(q, i).stack = st2
    BY <1>1, <2>1, <2>3, <2>4 DEF Pairings
  <2> HIDE DEF p, ps2, st2
  <2>6. Len(ps2) < QUOTE_MAX
    BY <1>3, <2>3, LimitAssumption DEF NoRoom
  <2>7. \A a \in 1 .. Len(st) : st[a] \in 1 .. Len(ps)
    BY DEF Opened
  <2>8. \A a \in 1 .. Len(st2) : st2[a] \in 1 .. Len(ps2)
    <3> SUFFICES ASSUME NEW a \in 1 .. Len(st2)
                 PROVE  st2[a] \in 1 .. Len(ps2)
      OBVIOUS
    <3>1. CASE a = 1
      BY <3>1, <2>3, <2>4
    <3>2. CASE a # 1
      <4>1. a - 1 \in 1 .. Len(st) /\ a - 1 + 1 = a
        BY <3>2, <2>4
      <4>2. st2[a - 1 + 1] = st[a - 1] /\ st[a - 1] \in 1 .. Len(ps)
        BY <4>1, <2>4, <2>7
      <4> QED
        BY <4>1, <4>2, <2>3
    <3> QED
      BY <3>1, <3>2
  <2>9. Bracketed(s, ps2, Len(ps2), st2, Len(st2), i)
    <3>1. /\ ps \in [1 .. Len(ps) -> Ranges] /\ ps2 \in [1 .. Len(ps) + 1 -> Ranges]
          /\ st \in [1 .. Len(st) -> 1 .. Len(ps)]
      BY <1>1, <2>3, <2>7, SeqFcn
    <3>2. st2 \in [1 .. Len(st) + 1 -> 1 .. Len(ps) + 1]
      BY <2>3, <2>4, <2>8, SeqFcn
    <3>3. Bracketed(s, ps, Len(ps), st, Len(st), i)
      BY DEF Opened
    <3> HIDE DEF ps, st
    <3>4. Bracketed(s, ps2, Len(ps) + 1, st2, Len(st) + 1, i)
      BY <2>3, <2>4, <3>1, <3>2, <3>3, Opening
    <3> QED
      BY <3>4, <2>3, <2>4
  <2> QED
    BY <2>5, <2>6, <2>8, <2>9 DEF Opened
<1> QED
  BY <1>2, <1>3

\* A closing bracket at phrase i, with and without a partner.
LEMMA CloseOneKeeps ==
  ASSUME NEW s, NEW q, NEW i \in Bnst, s.closes[i] > 0, Opened(s, q, i)
  PROVE  Opened(s, CloseOne(q, i), i)
<1>1. q \in Pairings /\ q.pairs \in Seq(Ranges) /\ q.stack \in Seq(Nat) /\ q.full \in BOOLEAN
  BY DEF Opened, Pairings
<1> DEFINE ps == q.pairs
           st == q.stack
<1>2. /\ Len(ps) \in Nat /\ ps \in [1 .. Len(ps) -> Ranges]
      /\ Len(st) \in Nat /\ st \in [1 .. Len(st) -> Nat]
  BY <1>1, SeqFcn
<1>3. /\ Len(ps) < QUOTE_MAX
      /\ \A a \in 1 .. Len(st) : st[a] \in 1 .. Len(ps)
      /\ Bracketed(s, ps, Len(ps), st, Len(st), i)
  BY DEF Opened
<1>4. CASE q.full \/ (q.stack = <<>> /\ NoRoom(q))
  <2>1. CloseOne(q, i) = [q EXCEPT !.full = TRUE]
    BY <1>4 DEF CloseOne
  <2>2. /\ CloseOne(q, i) \in Pairings
        /\ CloseOne(q, i).pairs = q.pairs /\ CloseOne(q, i).stack = q.stack
    BY <1>1, <2>1 DEF Pairings
  <2> QED
    BY <2>2 DEF Opened
<1>5. CASE ~ q.full /\ q.stack = <<>> /\ ~ NoRoom(q)
  <2> DEFINE p == [in |-> -1, out |-> i]
             ps2 == Append(ps, p)
  <2>1. CloseOne(q, i) = [q EXCEPT !.pairs = ps2]
    BY <1>5 DEF CloseOne
  <2>2. p \in Ranges /\ p.in = -1 /\ p.out = i
    BY PhraseBounds DEF Ranges
  <2> HIDE DEF p
  <2>3. /\ ps2 \in Seq(Ranges) /\ Len(ps2) = Len(ps) + 1
        /\ \A k \in 1 .. Len(ps) : ps2[k] = ps[k]
        /\ ps2[Len(ps) + 1] = p
    BY <1>1, <2>2, AppendProperties
  <2> HIDE DEF ps2
  <2>4. /\ CloseOne(q, i) \in Pairings
        /\ CloseOne(q, i).pairs = ps2 /\ CloseOne(q, i).stack = st
    BY <1>1, <2>1, <2>3 DEF Pairings
  <2>5. Len(ps2) < QUOTE_MAX
    BY <1>2, <1>5, <2>3, LimitAssumption DEF NoRoom
  <2>6. Len(st) = 0
    BY <1>5
  <2>7. Bracketed(s, ps2, Len(ps2), st, Len(st), i)
    <3>1. ps2 \in [1 .. Len(ps) + 1 -> Ranges]
      BY <2>3, SeqFcn
    <3>2. Bracketed(s, ps, Len(ps), st, 0, i)
      BY <1>3, <2>6
    <3> HIDE DEF ps, st
    <3>3. Bracketed(s, ps2, Len(ps) + 1, st, 0, i)
      BY <1>2, <2>2, <2>3, <3>1, <3>2, Unmatched
    <3> QED
      BY <3>3, <2>3, <2>6
  <2>8. \A a \in 1 .. Len(st) : st[a] \in 1 .. Len(ps2)
    BY <2>6
  <2> QED
    BY <2>4, <2>5, <2>7, <2>8 DEF Opened
<1>6. CASE ~ q.full /\ q.stack # <<>>
  <2> DEFINE h == Head(st)
             ps2 == [ps EXCEPT ![h].out = i]
             st2 == Tail(st)
  <2>1. CloseOne(q, i) = [q EXCEPT !.pairs = ps2, !.stack = st2]
    BY <1>6 DEF CloseOne
  <2>2. /\ st2 \in Seq(Nat) /\ Len(st2) = Len(st) - 1 /\ Len(st) > 0
        /\ h = st[1]
        /\ \A a \in 1 .. Len(st) - 1 : st2[a] = st[a + 1]
    BY <1>1, <1>6, Popping
  <2>3. h \in 1 .. Len(ps)
    BY <1>2, <1>3, <2>2
  <2> HIDE DEF h, st2
  <2>4. /\ ps2 \in Seq(Ranges) /\ Len(ps2) = Len(ps)
        /\ \A k \in 1 .. Len(ps) : k # h => ps2[k] = ps[k]
        /\ ps2[h].in = ps[h].in /\ ps2[h].out = i
    <3>1. ps[h] \in Ranges
      BY <1>2, <2>3
    <3>2. [ps[h] EXCEPT !.out = i] \in Ranges
      BY <3>1, PhraseBounds DEF Ranges
    <3>3. ps2 = [ps EXCEPT ![h] = [ps[h] EXCEPT !.out = i]]
      OBVIOUS
    <3>4. /\ [ps[h] EXCEPT !.out = i].in = ps[h].in
          /\ [ps[h] EXCEPT !.out = i].out = i
      BY <3>1 DEF Ranges
    <3>5. /\ \A k \in 1 .. Len(ps) : k # h => ps2[k] = ps[k]
          /\ ps2[h] = [ps[h] EXCEPT !.out = i]
      BY <1>2, <2>3, <3>3
    <3>6. ps2 \in Seq(Ranges) /\ Len(ps2) = Len(ps)
      BY <1>1, <2>3, <3>2, <3>3, ExceptSeq
    <3> QED
      BY <3>4, <3>5, <3>6
  <2> HIDE DEF ps2
  <2>5. /\ CloseOne(q, i) \in Pairings
        /\ CloseOne(q, i).pairs = ps2 /\ CloseOne(q, i).stack = st2
    BY <1>1, <2>1, <2>2, <2>4 DEF Pairings
  <2>6. Len(ps2) < QUOTE_MAX
    BY <1>3, <2>4
  <2>7. \A a \in 1 .. Len(st2) : st2[a] \in 1 .. Len(ps2)
    <3> SUFFICES ASSUME NEW a \in 1 .. Len(st2)
                 PROVE  st2[a] \in 1 .. Len(ps2)
      OBVIOUS
    <3>1. a \in 1 .. Len(st) - 1 /\ a + 1 \in 1 .. Len(st)
      BY <1>2, <2>2
    <3>2. st[a + 1] \in 1 .. Len(ps) /\ st2[a] = st[a + 1]
      BY <3>1, <1>3, <2>2
    <3> QED
      BY <3>2, <2>4
  <2>8. Bracketed(s, ps2, Len(ps2), st2, Len(st2), i)
    <3>1. ps2 \in [1 .. Len(ps) -> Ranges] /\ st \in [1 .. Len(st) -> 1 .. Len(ps)]
      BY <1>2, <1>3, <2>4, SeqFcn
    <3>2. st2 \in [1 .. Len(st) - 1 -> 1 .. Len(ps)]
      BY <2>2, <2>4, <2>7, SeqFcn
    <3> DEFINE m == Len(ps)
               d == Len(st)
    <3>3. /\ m \in Nat /\ d \in Nat /\ d > 0
          /\ ps \in [1 .. m -> Ranges] /\ st \in [1 .. d -> 1 .. m]
          /\ Bracketed(s, ps, m, st, d, i)
          /\ ps2 \in [1 .. m -> Ranges] /\ st2 \in [1 .. d - 1 -> 1 .. m]
          /\ \A k \in 1 .. m : k # h => ps2[k] = ps[k]
          /\ \A a \in 1 .. d - 1 : st2[a] = st[a + 1]
          /\ h \in 1 .. m /\ h = st[1]
          /\ ps2[h].in = ps[h].in /\ ps2[h].out = i
      BY <1>2, <1>3, <2>2, <2>3, <2>4, <3>1, <3>2
    <3> HIDE DEF ps, st, m, d
    <3>4. Bracketed(s, ps2, m, st2, d - 1, i)
      BY ZenonT(120), <3>3, Closing
    <3> QED
      BY <3>4, <2>2, <2>4 DEF m, d
  <2> QED
    BY <2>5, <2>6, <2>7, <2>8 DEF Opened
<1> QED
  BY <1>4, <1>5, <1>6

\* All brackets of one phrase.
LEMMA PairedKeeps ==
  ASSUME NEW s, IsSentence(s), NEW q, NEW i \in Bnst, Opened(s, q, i)
  PROVE  Opened(s, Paired(s, q, i), i)
<1> DEFINE r == Times(OpenOne, q, s.opens[i], i)
<1>1. s.opens[i] \in 0 .. 2 /\ s.closes[i] \in 0 .. 2
  BY DEF IsSentence
<1>2. Opened(s, r, i)
  <2>1. Opened(s, OpenOne(q, i), i) /\ Opened(s, OpenOne(OpenOne(q, i), i), i)
    BY OpenOneKeeps
  <2>2. CASE s.opens[i] = 0
    BY <2>2 DEF Times
  <2>3. CASE s.opens[i] = 1
    BY <2>1, <2>3 DEF Times
  <2>4. CASE s.opens[i] = 2
    BY <2>1, <2>4 DEF Times
  <2> QED
    BY <1>1, <2>2, <2>3, <2>4
<1>3. Paired(s, q, i) = Times(CloseOne, r, s.closes[i], i)
  BY DEF Paired
<1> HIDE DEF r
<1>4. CASE s.closes[i] = 0
  BY <1>2, <1>3, <1>4 DEF Times
<1>5. CASE s.closes[i] = 1
  <2>1. Opened(s, CloseOne(r, i), i)
    BY <1>2, <1>5, CloseOneKeeps
  <2> QED
    BY <2>1, <1>3, <1>5 DEF Times
<1>6. CASE s.closes[i] = 2
  <2>1. Opened(s, CloseOne(r, i), i)
    BY <1>2, <1>6, CloseOneKeeps
  <2>2. Opened(s, CloseOne(CloseOne(r, i), i), i)
    BY <2>1, <1>6, CloseOneKeeps
  <2> QED
    BY <2>2, <1>3, <1>6 DEF Times
<1> QED
  BY <1>1, <1>4, <1>5, <1>6

\* The completed ranges.
Settled(s, ps) ==
  /\ \A k \in 1 .. Len(ps) :
       /\ ps[k].in \in 0 .. Last /\ ps[k].out \in 0 .. Last
       /\ ps[k].in <= ps[k].out
       /\ ps[k].out = Last \/ s.closes[ps[k].out] > 0
  /\ \A k, l \in 1 .. Len(ps) :
       ~ (ps[k].in < ps[l].in /\ ps[l].in < ps[k].out /\ ps[k].out < ps[l].out)

Completed(ps) ==
  [k \in DOMAIN ps |-> [in |-> IF ps[k].in = -1 THEN 0 ELSE ps[k].in,
                        out |-> IF ps[k].out = -1 THEN Last ELSE ps[k].out]]

\* Extending what is open to the borders of the sentence makes nothing cross.
LEMMA Settling ==
  ASSUME NEW s, NEW q, NEW i \in Bnst, Opened(s, q, i)
  PROVE  /\ Completed(q.pairs) \in Seq(Ranges)
         /\ Len(Completed(q.pairs)) = Len(q.pairs)
         /\ Settled(s, Completed(q.pairs))
<1> DEFINE ps == q.pairs
           m == Len(ps)
           F == Completed(ps)
<1>1. m \in Nat /\ ps \in [1 .. m -> Ranges] /\ DOMAIN ps = 1 .. m
  <2>1. ps \in Seq(Ranges)
    BY DEF Opened, Pairings
  <2> QED
    BY <2>1
<1>2. RangesOK(s, ps, m, i) /\ Uncrossed(ps, m)
  BY DEF Opened, Bracketed
<1> HIDE DEF ps, m
<1>3. \A k \in 1 .. m : /\ F[k].in = Begin(ps[k])
                        /\ F[k].out = IF ps[k].out = -1 THEN Last ELSE ps[k].out
  BY <1>1 DEF Completed, Begin
<1>4. \A k \in 1 .. m :
        /\ F[k].in \in 0 .. Last /\ F[k].out \in 0 .. Last
        /\ F[k].in <= F[k].out
        /\ F[k].out = Last \/ s.closes[F[k].out] > 0
        /\ F[k].out <= End(ps[k])
        /\ F[k].out < Last => F[k].out = End(ps[k])
  <2> SUFFICES ASSUME NEW k \in 1 .. m
               PROVE  /\ F[k].in \in 0 .. Last /\ F[k].out \in 0 .. Last
                      /\ F[k].in <= F[k].out
                      /\ F[k].out = Last \/ s.closes[F[k].out] > 0
                      /\ F[k].out <= End(ps[k])
                      /\ F[k].out < Last => F[k].out = End(ps[k])
    OBVIOUS
  <2>1. ps[k] \in Ranges
    BY <1>1
  <2>2. /\ Begin(ps[k]) <= End(ps[k])
        /\ ps[k].out # -1 => s.closes[ps[k].out] > 0
    BY <1>2 DEF RangesOK
  <2>3. /\ Begin(ps[k]) \in 0 .. Last
        /\ End(ps[k]) \in 0 .. N
        /\ ps[k].out = -1 => End(ps[k]) = N
        /\ ps[k].out # -1 => End(ps[k]) = ps[k].out /\ End(ps[k]) < N
        /\ ps[k].out \in -1 .. Last
    BY <2>1, RangeTypes
  <2>4. /\ F[k].in = Begin(ps[k])
        /\ F[k].out = IF ps[k].out = -1 THEN Last ELSE ps[k].out
    BY <1>3
  <2>5. CASE ps[k].out = -1
    <3>1. F[k].out = Last /\ End(ps[k]) = N
      BY <2>3, <2>4, <2>5
    <3> QED
      BY <3>1, <2>3, <2>4, PhraseBounds
  <2>6. CASE ps[k].out # -1
    <3>1. F[k].out = ps[k].out /\ End(ps[k]) = ps[k].out /\ s.closes[F[k].out] > 0
      BY <2>2, <2>3, <2>4, <2>6
    <3> QED
      BY <3>1, <2>2, <2>3, <2>4, PhraseBounds
  <2> QED
    BY <2>5, <2>6
<1>5. DOMAIN F = 1 .. m
  BY <1>1 DEF Completed
<1>6. F \in [1 .. m -> Ranges]
  <2>1. \A k \in 1 .. m : F[k] = [in |-> F[k].in, out |-> F[k].out]
    BY <1>1 DEF Completed
  <2>2. ASSUME NEW k \in 1 .. m
        PROVE  F[k] \in Ranges
    <3>0. F[k].in \in 0 .. Last /\ F[k].out \in 0 .. Last
      BY <1>4, Zenon
    <3>1. F[k] = [in |-> F[k].in, out |-> F[k].out]
      BY <2>1
    <3>2. 0 .. Last \subseteq -1 .. Last
      BY PhraseBounds
    <3> HIDE DEF F
    <3> QED
      BY <3>0, <3>1, <3>2 DEF Ranges
  <2>3. F = [k \in 1 .. m |-> F[k]]
    BY <1>1 DEF Completed
  <2> HIDE DEF F
  <2> QED
    BY <2>2, <2>3
<1>7. F \in Seq(Ranges) /\ Len(F) = m
  <2> HIDE DEF F
  <2> QED
    BY <1>1, <1>5, <1>6
<1>8. ASSUME NEW k \in 1 .. m, NEW l \in 1 .. m
      PROVE  ~ (F[k].in < F[l].in /\ F[l].in < F[k].out /\ F[k].out < F[l].out)
  <2>1. ~ Crossed(ps[k], ps[l])
    BY <1>2 DEF Uncrossed
  <2>2. F[k].in = Begin(ps[k]) /\ F[l].in = Begin(ps[l])
    BY <1>3
  <2>3. /\ F[k].out \in 0 .. Last /\ F[l].out \in 0 .. Last
        /\ F[k].out < Last => F[k].out = End(ps[k])
        /\ F[l].out <= End(ps[l])
    BY <1>4, Zenon
  <2>4. End(ps[l]) \in 0 .. N
    BY <1>1, RangeTypes
  <2> HIDE DEF F
  <2> QED
    BY <2>1, <2>2, <2>3, <2>4, PhraseBounds DEF Crossed
<1>9. \A k \in 1 .. m :
        /\ F[k].in \in 0 .. Last /\ F[k].out \in 0 .. Last
        /\ F[k].in <= F[k].out
        /\ F[k].out = Last \/ s.closes[F[k].out] > 0
  BY <1>4, Zenon
<1> HIDE DEF F
<1>10. Settled(s, F)
  BY <1>7, <1>8, <1>9 DEF Settled
<1> QED
  BY <1>7, <1>10 DEF F, m, ps

\* The brackets up to a phrase are those up to the next one.
LEMMA OpenedNext ==
  ASSUME NEW s, NEW q, NEW i \in Bnst, i + 1 \in Bnst, Opened(s, q, i)
  PROVE  Opened(s, q, i + 1)
<1> DEFINE ps == q.pairs
<1>1. ps \in Seq(Ranges) /\ Len(ps) \in Nat /\ ps \in [1 .. Len(ps) -> Ranges]
  <2>1. ps \in Seq(Ranges)
    BY DEF Opened, Pairings
  <2> QED
    BY <2>1
<1>2. ASSUME NEW k \in 1 .. Len(ps)
      PROVE  /\ Begin(ps[k]) <= i + 1
             /\ Begin(ps[k]) <= End(ps[k])
             /\ ps[k].out # -1 => ps[k].out <= i + 1 /\ s.closes[ps[k].out] > 0
  <2>1. ps[k] \in Ranges
    BY <1>1
  <2>2. Begin(ps[k]) \in 0 .. Last /\ ps[k].out \in -1 .. Last
    BY <2>1, RangeTypes
  <2>3. /\ Begin(ps[k]) <= i
        /\ Begin(ps[k]) <= End(ps[k])
        /\ ps[k].out # -1 => ps[k].out <= i /\ s.closes[ps[k].out] > 0
    BY DEF Opened, Bracketed, RangesOK
  <2> HIDE DEF ps
  <2> QED
    BY <2>2, <2>3, PhraseBounds
<1>3. RangesOK(s, ps, Len(ps), i + 1)
  BY <1>2 DEF RangesOK
<1> QED
  BY <1>3 DEF Opened, Bracketed

\* No more brackets are open than there are.
LEMMA StackShort ==
  ASSUME NEW s, NEW q, NEW i \in Bnst, Opened(s, q, i)
  PROVE  Len(q.stack) <= Len(q.pairs)
<1> DEFINE d == Len(q.stack)
           m == Len(q.pairs)
<1>1. q.stack \in Seq(Nat) /\ q.pairs \in Seq(Ranges)
  BY DEF Opened, Pairings
<1>2. d \in Nat /\ m \in Nat
  BY <1>1
<1>3. CASE d > 0
  <2>1. d \in 1 .. d
    BY <1>2, <1>3
  <2>2. q.stack[d] \in 1 .. m
    BY <2>1 DEF Opened
  <2>3. q.stack[d] <= m - d + 1
    BY <2>1 DEF Opened, Bracketed, StackOK
  <2> HIDE DEF d, m
  <2>4. d <= m
    BY <1>2, <2>2, <2>3
  <2> QED
    BY <2>4 DEF d, m
<1> QED
  BY <1>2, <1>3
-----------------------------------------------------------------------------
(* The inductive invariant                                                 *)

Phases == {"matrix", "koou", "pair", "mask", "relax", "done"}

PosInv ==
  /\ sent \in Sentences /\ IsSentence(sent)
  /\ phase \in Phases
  /\ pos \in Nat
  /\ phase # "mask" => pos <= Last
  /\ phase = "mask" => pos >= 1 /\ pos <= Len(pairs) + 1
  /\ phase = "done" => pos = Last

BracketInv ==
  /\ full \in BOOLEAN /\ pairs \in Seq(Ranges) /\ stack \in Seq(Nat)
  /\ Len(pairs) < QUOTE_MAX /\ Len(stack) <= Len(pairs)
  /\ phase \in {"matrix", "koou"} => pairs = <<>> /\ stack = <<>>
  /\ phase \in {"matrix", "koou", "pair", "mask"} => full = FALSE
  /\ phase = "pair" => Opened(sent, Pairing, pos)
  /\ phase \in {"mask", "relax", "done"} /\ ~ full => Settled(sent, pairs)

\* Quote_matrix is closed exactly where one of the first n pairs masks it.
ClosedBy(n) ==
  \A c \in Cells :
    Quote[c] <=> \A k \in 1 .. n :
                   pairs[k].in # pairs[k].out => ~ Masked(sent, pairs[k], c[1], c[2])

QuoteInv ==
  /\ Quote \in [Cells -> BOOLEAN]
  /\ phase \in {"matrix", "koou", "pair"} \/ full => \A c \in Cells : Quote[c]
  /\ phase = "mask" => ClosedBy(pos - 1)
  /\ phase \in {"relax", "done"} /\ ~ full => ClosedBy(Len(pairs))

\* What a correlation begun at phrase i has closed in Dpnd_matrix.
KoouDone(s, d, i) ==
  HasKoou(s, i) /\ Ends(s, i) # {} =>
    \A b \in (i + 1) .. (Lowest(Ends(s, i)) - 1) :
      /\ \A c \in 0 .. (i - 1) : d[<<c, b>>] = NoDpnd
      /\ HasKoou(s, b) \/ \A j \in (Highest(Ends(s, i)) + 1) .. Last : d[<<b, j>>] = NoDpnd

KoouInv ==
  /\ Dpnd = [c \in Cells |-> Dpnd[c]]
  /\ phase = "koou" => \A i \in Bnst : i < pos => KoouDone(sent, Dpnd, i)
  /\ phase = "pair" => \A i \in Bnst : KoouDone(sent, Dpnd, i)

\* A phrase has a head, or sees nothing from some opening bracket on.
HeadOrBracket(i) ==
  \/ Possible(i) # {}
  \/ \E k \in 1 .. Len(pairs) : i < pairs[k].in /\ \A j \in Sees(i) : j < pairs[k].in

RelaxInv ==
  phase \in {"relax", "done"} => \A i \in Bnst : i < pos => HeadOrBracket(i)

IInv == PosInv /\ BracketInv /\ QuoteInv /\ KoouInv /\ RelaxInv

LEMMA InitIInv == Init => IInv
<1> SUFFICES ASSUME Init
             PROVE  IInv
  OBVIOUS
<1>1. PosInv
  BY SentencesAssumption, PhraseBounds DEF Init, PosInv, Phases
<1>2. BracketInv
  <2>1. /\ phase = "matrix" /\ pairs = <<>> /\ stack = <<>> /\ full = FALSE
        /\ <<>> \in Seq(Ranges) /\ <<>> \in Seq(Nat) /\ Len(<<>>) = 0
    BY DEF Init
  <2>2. 0 < QUOTE_MAX /\ 0 <= 0
    BY LimitAssumption
  <2> QED
    BY <2>1, <2>2 DEF BracketInv
<1>3. QuoteInv
  BY DEF Init, QuoteInv
<1>4. KoouInv
  BY DEF Init, KoouInv
<1>5. RelaxInv
  BY DEF Init, RelaxInv
<1> QED
  BY <1>1, <1>2, <1>3, <1>4, <1>5 DEF IInv

\* calc_dpnd_matrix.
LEMMA MatrixKeeps ==
  ASSUME IInv, CalcDpndMatrix
  PROVE  IInv'
<1>1. PosInv'
  BY PhraseBounds DEF IInv, CalcDpndMatrix, PosInv, Phases
<1>2. BracketInv'
  BY DEF IInv, CalcDpndMatrix, BracketInv
<1>3. QuoteInv'
  BY DEF IInv, CalcDpndMatrix, QuoteInv
<1>4. KoouInv'
  <2>1. Dpnd' = [c \in Cells |-> Dpnd'[c]]
    BY DEF CalcDpndMatrix
  <2>2. phase' = "koou" /\ pos' = 0
    BY DEF CalcDpndMatrix
  <2>3. \A i \in Bnst : ~ (i < 0)
    BY PhraseBounds
  <2> QED
    BY <2>1, <2>2, <2>3 DEF KoouInv
<1>5. RelaxInv'
  BY DEF CalcDpndMatrix, RelaxInv
<1> QED
  BY <1>1, <1>2, <1>3, <1>4, <1>5 DEF IInv

\* change_matrix at phrase i closes what lies within its own correlation, and
\* opens no cell that an earlier one has closed, unless a phrase within that
\* one begins a correlation itself.
LEMMA KoouMatrixKeeps ==
  ASSUME NEW s, NEW d, NEW i \in Bnst, HasKoou(s, i)
  PROVE  /\ KoouDone(s, KoouMatrix(s, d, i), i)
         /\ \A e \in Bnst : e < i /\ KoouDone(s, d, e) => KoouDone(s, KoouMatrix(s, d, i), e)
<1> DEFINE D == KoouMatrix(s, d, i)
<1>e. ASSUME NEW e \in Bnst, Ends(s, e) # {}
      PROVE  /\ Highest(Ends(s, e)) \in Int /\ Highest(Ends(s, e)) >= 0
             /\ \A b \in (e + 1) .. (Lowest(Ends(s, e)) - 1) : b \in Bnst /\ b > e
             /\ \A c \in 0 .. (e - 1) : c \in Bnst /\ c < e
             /\ \A j \in (Highest(Ends(s, e)) + 1) .. Last : j \in Bnst /\ j > Highest(Ends(s, e))
  <2>1. Ends(s, e) \subseteq Bnst
    BY DEF Ends, Related
  <2>2. Highest(Ends(s, e)) \in Bnst /\ Lowest(Ends(s, e)) \in Bnst
    BY <2>1, <1>e, HighestIn, LowestIn
  <2>3. ASSUME NEW lo \in Bnst, NEW hi \in Bnst
        PROVE  /\ hi \in Int /\ hi >= 0
               /\ \A b \in (e + 1) .. (lo - 1) : b \in Bnst /\ b > e
               /\ \A c \in 0 .. (e - 1) : c \in Bnst /\ c < e
               /\ \A j \in (hi + 1) .. Last : j \in Bnst /\ j > hi
    BY NAssumption DEF Bnst, Last
  <2> QED
    BY <2>2, <2>3
<1>1. ASSUME NEW c \in Bnst, NEW j \in Bnst, c # i, d[<<c, j>>] = NoDpnd
      PROVE  D[<<c, j>>] = NoDpnd
  <2>1. <<c, j>> \in Cells /\ <<c, j>>[1] = c /\ <<c, j>>[2] = j
    BY DEF Cells
  <2> QED
    BY <1>1, <2>1 DEF KoouMatrix
<1>2. ASSUME Ends(s, i) # {}, NEW b \in (i + 1) .. (Lowest(Ends(s, i)) - 1), NEW j \in Bnst,
             b \in Bnst, j > Highest(Ends(s, i))
      PROVE  D[<<b, j>>] = NoDpnd
  <2>1. <<b, j>> \in Cells /\ <<b, j>>[1] = b /\ <<b, j>>[2] = j
    BY <1>2 DEF Cells
  <2>2. b # i
    BY PhraseBounds
  <2> QED
    BY <1>2, <2>1, <2>2 DEF KoouMatrix
<1>3. ASSUME Ends(s, i) # {}, NEW b \in (i + 1) .. (Lowest(Ends(s, i)) - 1), NEW c \in Bnst,
             b \in Bnst, c < i
      PROVE  D[<<c, b>>] = NoDpnd
  <2>1. <<c, b>> \in Cells /\ <<c, b>>[1] = c /\ <<c, b>>[2] = b
    BY <1>3 DEF Cells
  <2>2. c # i
    BY <1>3, PhraseBounds
  <2> QED
    BY <1>3, <2>1, <2>2 DEF KoouMatrix
<1>4. KoouDone(s, D, i)
  <2> SUFFICES ASSUME Ends(s, i) # {}, NEW b \in (i + 1) .. (Lowest(Ends(s, i)) - 1)
               PROVE  /\ \A c \in 0 .. (i - 1) : D[<<c, b>>] = NoDpnd
                      /\ \A j \in (Highest(Ends(s, i)) + 1) .. Last : D[<<b, j>>] = NoDpnd
    BY DEF KoouDone
  <2>1. b \in Bnst
    BY <1>e
  <2>2. ASSUME NEW c \in 0 .. (i - 1)
        PROVE  D[<<c, b>>] = NoDpnd
    BY <2>1, <1>3, <1>e
  <2>3. ASSUME NEW j \in (Highest(Ends(s, i)) + 1) .. Last
        PROVE  D[<<b, j>>] = NoDpnd
    BY <2>1, <1>2, <1>e
  <2> QED
    BY <2>2, <2>3
<1>5. ASSUME NEW e \in Bnst, e < i, KoouDone(s, d, e)
      PROVE  KoouDone(s, D, e)
  <2> SUFFICES ASSUME HasKoou(s, e), Ends(s, e) # {},
                      NEW b \in (e + 1) .. (Lowest(Ends(s, e)) - 1)
               PROVE  /\ \A c \in 0 .. (e - 1) : D[<<c, b>>] = NoDpnd
                      /\ HasKoou(s, b) \/ \A j \in (Highest(Ends(s, e)) + 1) .. Last : D[<<b, j>>] = NoDpnd
    BY DEF KoouDone
  <2>1. /\ \A c \in 0 .. (e - 1) : d[<<c, b>>] = NoDpnd
        /\ HasKoou(s, b) \/ \A j \in (Highest(Ends(s, e)) + 1) .. Last : d[<<b, j>>] = NoDpnd
    BY <1>5 DEF KoouDone
  <2>2. b \in Bnst
    BY <1>e
  <2>3. ASSUME NEW c \in 0 .. (e - 1)
        PROVE  D[<<c, b>>] = NoDpnd
    <3>1. c \in Bnst /\ c < e /\ c # i
      BY <1>5, <1>e, PhraseBounds
    <3>2. d[<<c, b>>] = NoDpnd
      BY <2>1
    <3> QED
      BY <3>1, <3>2, <2>2, <1>1
  <2>4. ASSUME ~ HasKoou(s, b), NEW j \in (Highest(Ends(s, e)) + 1) .. Last
        PROVE  D[<<b, j>>] = NoDpnd
    <3>1. d[<<b, j>>] = NoDpnd
      BY <2>1, <2>4
    <3>2. j \in Bnst /\ b # i
      BY <2>4, <1>e
    <3> QED
      BY <3>1, <3>2, <2>2, <1>1
  <2> QED
    BY <2>3, <2>4
<1> QED
  BY <1>4, <1>5

\* koou: phrase by phrase from left to right.
LEMMA KoouKeeps ==
  ASSUME IInv, KoouPhrase
  PROVE  IInv'
<1>0. /\ phase = "koou" /\ pos \in Bnst
      /\ UNCHANGED <<sent, Quote, pairs, stack, full>>
      /\ pairs = <<>> /\ stack = <<>> /\ full = FALSE
  BY PhraseBounds DEF IInv, PosInv, BracketInv, KoouPhrase
<1>1. \/ pos = Last /\ phase' = "pair" /\ pos' = 0
      \/ pos < Last /\ phase' = "koou" /\ pos' = pos + 1
  BY <1>0, PhraseBounds DEF KoouPhrase
<1>2. PosInv'
  BY <1>0, <1>1, PhraseBounds DEF IInv, PosInv, Phases
<1>3. BracketInv'
  <2>1. ASSUME phase' = "pair"
        PROVE  Opened(sent, [pairs |-> <<>>, stack |-> <<>>, full |-> FALSE], 0)
    BY LimitAssumption DEF Opened, Pairings, Bracketed, RangesOK, Uncrossed, StackOK
  <2>2. Pairing' = [pairs |-> <<>>, stack |-> <<>>, full |-> FALSE]
    BY <1>0 DEF Pairing
  <2> QED
    BY <1>0, <1>1, <2>1, <2>2 DEF IInv, BracketInv
<1>4. QuoteInv'
  BY <1>0, <1>1 DEF IInv, QuoteInv
<1>5. KoouInv'
  <2>1. \A i \in Bnst : i < pos => KoouDone(sent, Dpnd, i)
    BY <1>0 DEF IInv, KoouInv
  <2>2. Dpnd' = IF HasKoou(sent, pos) THEN KoouMatrix(sent, Dpnd, pos) ELSE Dpnd
    BY DEF KoouPhrase
  <2>3. Dpnd' = [c \in Cells |-> Dpnd'[c]]
    BY <2>2 DEF IInv, KoouInv, KoouMatrix
  <2>4. \A i \in Bnst : i <= pos => KoouDone(sent, Dpnd', i)
    <3>1. CASE HasKoou(sent, pos)
      <4>1. /\ KoouDone(sent, Dpnd', pos)
            /\ \A e \in Bnst : e < pos /\ KoouDone(sent, Dpnd, e) => KoouDone(sent, Dpnd', e)
        BY <1>0, <2>2, <3>1, KoouMatrixKeeps
      <4> QED
        BY <2>1, <4>1, <1>0, PhraseBounds
    <3>2. CASE ~ HasKoou(sent, pos)
      <4>1. KoouDone(sent, Dpnd', pos) /\ Dpnd' = Dpnd
        BY <2>2, <3>2 DEF KoouDone
      <4> QED
        BY <2>1, <4>1, <1>0, PhraseBounds
    <3> QED
      BY <3>1, <3>2
  <2>5. CASE pos = Last /\ phase' = "pair"
    BY <1>0, <2>3, <2>4, <2>5, PhraseBounds DEF KoouInv
  <2>6. CASE pos < Last /\ phase' = "koou" /\ pos' = pos + 1
    <3>1. \A i \in Bnst : i < pos + 1 => i <= pos
      BY <1>0, PhraseBounds
    <3> QED
      BY <1>0, <2>3, <2>4, <2>6, <3>1 DEF KoouInv
  <2> QED
    BY <1>1, <2>5, <2>6
<1>6. RelaxInv'
  BY <1>1 DEF RelaxInv
<1> QED
  BY <1>2, <1>3, <1>4, <1>5, <1>6 DEF IInv

\* check_quote, one phrase; at the last one what is open is completed.
LEMMA PairKeeps ==
  ASSUME IInv, PairBrackets
  PROVE  IInv'
<1> DEFINE q == Paired(sent, Pairing, pos)
           done == pos = Last \/ q.full
<1>0. /\ phase = "pair" /\ pos \in Bnst /\ full = FALSE
      /\ UNCHANGED <<sent, Dpnd, Quote>>
      /\ Opened(sent, Pairing, pos) /\ IsSentence(sent)
  BY PhraseBounds DEF IInv, PosInv, BracketInv, PairBrackets
<1>1. Opened(sent, q, pos)
  BY <1>0, PairedKeeps
<1>2. /\ full' = q.full /\ stack' = q.stack
      /\ pairs' = IF done /\ ~ q.full THEN Completed(q.pairs) ELSE q.pairs
      /\ phase' = IF q.full THEN "relax" ELSE IF done THEN "mask" ELSE phase
      /\ pos' = IF q.full THEN 0 ELSE IF done THEN 1 ELSE pos + 1
  BY DEF PairBrackets, Completed
<1> HIDE DEF q
<1>3. /\ q.full \in BOOLEAN /\ q.pairs \in Seq(Ranges) /\ q.stack \in Seq(Nat)
      /\ Len(q.pairs) < QUOTE_MAX /\ Len(q.stack) <= Len(q.pairs)
      /\ Completed(q.pairs) \in Seq(Ranges) /\ Len(Completed(q.pairs)) = Len(q.pairs)
      /\ Settled(sent, Completed(q.pairs))
  BY <1>0, <1>1, StackShort, Settling DEF Opened, Pairings
<1>a. CASE q.full
  <2>1. full' = TRUE /\ stack' = q.stack /\ pairs' = q.pairs /\ phase' = "relax" /\ pos' = 0
    BY <1>2, <1>3, <1>a
  <2>2. PosInv'
    BY <1>0, <2>1, PhraseBounds DEF IInv, PosInv, Phases
  <2>3. BracketInv'
    BY <2>1, <1>3 DEF BracketInv
  <2>4. QuoteInv'
    BY <1>0, <2>1 DEF IInv, QuoteInv
  <2>5. KoouInv'
    BY <1>0, <2>1 DEF IInv, KoouInv
  <2>6. RelaxInv'
    BY <2>1, PhraseBounds DEF RelaxInv
  <2> QED
    BY <2>2, <2>3, <2>4, <2>5, <2>6 DEF IInv
<1>b. CASE ~ q.full /\ pos = Last
  <2>1. /\ full' = FALSE /\ stack' = q.stack /\ pairs' = Completed(q.pairs)
        /\ phase' = "mask" /\ pos' = 1
    BY <1>2, <1>3, <1>b
  <2>l. Len(q.pairs) \in Nat
    BY <1>3
  <2>2. PosInv'
    BY <1>0, <1>3, <2>l, <2>1, PhraseBounds DEF IInv, PosInv, Phases
  <2>3. BracketInv'
    <3>1. Settled(sent', pairs')
      BY <1>0, <1>3, <2>1
    <3>2. Len(pairs') < QUOTE_MAX /\ Len(stack') <= Len(pairs')
      BY <1>3, <2>1
    <3> QED
      BY <2>1, <1>3, <3>1, <3>2 DEF BracketInv
  <2>4. QuoteInv'
    <3>1. Quote' = Quote /\ Quote \in [Cells -> BOOLEAN] /\ \A c \in Cells : Quote[c]
      BY <1>0 DEF IInv, QuoteInv
    <3>2. pos' - 1 = 0 /\ 1 .. 0 = {}
      BY <2>1
    <3> QED
      BY <3>1, <3>2, <2>1 DEF QuoteInv, ClosedBy
  <2>5. KoouInv'
    BY <1>0, <2>1 DEF IInv, KoouInv
  <2>6. RelaxInv'
    BY <2>1 DEF RelaxInv
  <2> QED
    BY <2>2, <2>3, <2>4, <2>5, <2>6 DEF IInv
<1>c. CASE ~ q.full /\ pos # Last
  <2>1. /\ full' = FALSE /\ stack' = q.stack /\ pairs' = q.pairs
        /\ phase' = "pair" /\ pos' = pos + 1
    BY <1>0, <1>2, <1>3, <1>c
  <2>p. pos + 1 \in Bnst /\ pos + 1 <= Last
    BY <1>0, <1>c, PhraseBounds
  <2>2. PosInv'
    BY <1>0, <2>1, <2>p, PhraseBounds DEF IInv, PosInv, Phases
  <2>3. BracketInv'
    <3>1. Opened(sent, q, pos + 1)
      BY <1>0, <1>1, <2>p, OpenedNext
    <3>2. Pairing' = q
      <4>1. q = [pairs |-> q.pairs, stack |-> q.stack, full |-> q.full]
        BY <1>1 DEF Opened, Pairings
      <4>2. q.full = FALSE
        BY <1>c, <1>3
      <4> QED
        BY <2>1, <4>1, <4>2 DEF Pairing
    <3> QED
      BY <1>0, <2>1, <1>3, <3>1, <3>2 DEF BracketInv
  <2>4. QuoteInv'
    BY <1>0, <2>1 DEF IInv, QuoteInv
  <2>5. KoouInv'
    BY <1>0, <2>1 DEF IInv, KoouInv
  <2>6. RelaxInv'
    BY <2>1 DEF RelaxInv
  <2> QED
    BY <2>2, <2>3, <2>4, <2>5, <2>6 DEF IInv
<1> QED
  BY <1>a, <1>b, <1>c

\* mask_quote, one pair.
LEMMA MaskKeeps ==
  ASSUME IInv, MaskQuote
  PROVE  IInv'
<1>0. /\ phase = "mask" /\ pos \in Nat /\ pos >= 1 /\ pos <= Len(pairs) + 1
      /\ full = FALSE /\ Len(pairs) \in Nat
      /\ Quote \in [Cells -> BOOLEAN] /\ ClosedBy(pos - 1)
      /\ UNCHANGED <<sent, Dpnd, pairs, stack, full>>
  BY DEF IInv, PosInv, BracketInv, QuoteInv, MaskQuote
<1>a. CASE pos > Len(pairs)
  <2>1. phase' = "relax" /\ pos' = 0 /\ Quote' = Quote /\ pos - 1 = Len(pairs)
    BY <1>0, <1>a DEF MaskQuote
  <2>2. PosInv'
    BY <1>0, <2>1, PhraseBounds DEF IInv, PosInv, Phases
  <2>3. BracketInv'
    BY <1>0, <2>1 DEF IInv, BracketInv
  <2>4. QuoteInv'
    BY <1>0, <2>1 DEF QuoteInv, ClosedBy
  <2>5. KoouInv'
    BY <1>0, <2>1 DEF IInv, KoouInv
  <2>6. RelaxInv'
    BY <2>1, PhraseBounds DEF RelaxInv
  <2> QED
    BY <2>2, <2>3, <2>4, <2>5, <2>6 DEF IInv
<1>b. CASE ~ (pos > Len(pairs))
  <2>1. /\ phase' = "mask" /\ pos' = pos + 1 /\ pos' - 1 = pos
        /\ Quote' = IF pairs[pos].in = pairs[pos].out THEN Quote
                    ELSE [c \in Cells |-> Quote[c] /\ ~ Masked(sent, pairs[pos], c[1], c[2])]
    BY <1>0, <1>b DEF MaskQuote
  <2>2. PosInv'
    BY <1>0, <1>b, <2>1 DEF IInv, PosInv, Phases
  <2>3. BracketInv'
    BY <1>0, <2>1 DEF IInv, BracketInv
  <2>4. QuoteInv'
    <3> DEFINE Shuts(k, c) == pairs[k].in # pairs[k].out /\ Masked(sent, pairs[k], c[1], c[2])
    <3>1. \A c \in Cells : Quote'[c] <=> Quote[c] /\ ~ Shuts(pos, c)
      <4>1. CASE pairs[pos].in = pairs[pos].out
        BY <4>1, <2>1
      <4>2. CASE pairs[pos].in # pairs[pos].out
        BY <4>2, <2>1
      <4> QED
        BY <4>1, <4>2
    <3>2. \A c \in Cells : Quote[c] <=> \A k \in 1 .. pos - 1 : ~ Shuts(k, c)
      BY <1>0 DEF ClosedBy
    <3> HIDE DEF Shuts
    <3>3. 1 .. pos = (1 .. pos - 1) \cup {pos}
      BY <1>0
    <3>4. \A c \in Cells : Quote'[c] <=> \A k \in 1 .. pos : ~ Shuts(k, c)
      BY <3>1, <3>2, <3>3, Zenon
    <3>5. \A c \in Cells : Quote'[c] <=> \A k \in 1 .. pos :
            (pairs[k].in # pairs[k].out => ~ Masked(sent, pairs[k], c[1], c[2]))
      BY <3>4 DEF Shuts
    <3>6. Quote' \in [Cells -> BOOLEAN]
      BY <1>0, <2>1
    <3>7. pos' - 1 = pos /\ pairs' = pairs /\ sent' = sent /\ full' = FALSE /\ phase' = "mask"
      BY <1>0, <2>1
    <3>8. ClosedBy(pos - 1)'
      BY <3>5, <3>7 DEF ClosedBy, Masked
    <3> QED
      BY <3>6, <3>7, <3>8 DEF QuoteInv
  <2>5. KoouInv'
    BY <1>0, <2>1 DEF IInv, KoouInv
  <2>6. RelaxInv'
    BY <2>1 DEF RelaxInv
  <2> QED
    BY <2>2, <2>3, <2>4, <2>5, <2>6 DEF IInv
<1> QED
  BY <1>a, <1>b

\* mask_quote hides from phrase i the one behind v, up to which it sees: then
\* a bracket opens behind v, unless v is the end of one or of a sentence.
LEMMA HiddenBehind ==
  ASSUME NEW s, NEW p, p.in \in 0 .. Last, p.out \in 0 .. Last, p.in < p.out,
         p.out = Last \/ s.closes[p.out] > 0,
         NEW i \in Bnst, NEW v \in Bnst, i <= v, v < Last,
         Masked(s, p, i, v + 1),
         v # i => ~ Masked(s, p, i, v) /\ ~ (s.closes[v] > 0) /\ v \notin s.eos
  PROVE  i < p.in /\ v < p.in
<1> DEFINE start == p.in
           end == p.out
<1>1. i \in Int /\ v \in Int /\ start \in Int /\ end \in Int /\ Last \in Int
  BY PhraseBounds
<1>2. ASSUME v # i
      PROVE  /\ ~ (i < start /\ v \in start .. (end - 1))
             /\ ~ (i \in start .. (end - 1) /\ v > end)
             /\ \A l \in s.eos \cap (start .. (end - 1)) :
                  ~ (i \in start .. (l - 1) /\ v \in (l + 1) .. end)
  BY <1>2 DEF Masked
<1>3. CASE i < start /\ (v + 1 \in start .. (end - 1) \/ v + 1 = end)
  BY <1>1, <1>2, <1>3
<1>4. CASE i \in start .. (end - 1) /\ v + 1 > end
  <2>1. v # i /\ v = end
    BY <1>1, <1>2, <1>4
  <2> QED
    BY <2>1
<1>5. ASSUME NEW l \in s.eos \cap (start .. (end - 1)),
             i \in start .. (l - 1), v + 1 \in (l + 1) .. end
      PROVE  FALSE
  <2>1. l \in Int /\ l <= v /\ i < l
    BY <1>1, <1>5
  <2>2. v # i /\ l # v
    BY <2>1, <1>1
  <2>3. v \in (l + 1) .. end
    BY <1>1, <1>5, <2>1, <2>2
  <2> QED
    BY <1>2, <1>5, <2>2, <2>3
<1> QED
  BY <1>3, <1>4, <1>5 DEF Masked

\* A phrase without a possible head that relax_dpnd_matrix cannot help, because
\* the last phrase it sees ends nothing, sees nothing from a bracket on.
LEMMA NotRelaxed ==
  ASSUME IInv, phase = "relax", NEW i \in Bnst, i < Last, Possible(i) = {},
         Scanned(i) # {} => ~ MayEnd(LastPossibility(i))
  PROVE  \E k \in 1 .. Len(pairs) : i < pairs[k].in /\ \A j \in Sees(i) : j < pairs[k].in
<1>1. Sees(i) \subseteq Bnst /\ \A j \in Sees(i) : j > i /\ j <= Last
  BY PhraseBounds DEF Sees
<1>2. Scanned(i) = {j \in Sees(i) : \A k \in Sees(i) : k < j => k \notin sent.eos}
  BY DEF Scanned
<1>3. PICK v \in Bnst : /\ i <= v /\ v < Last
                        /\ \A j \in Sees(i) : j <= v
                        /\ v # i => v \in Sees(i) /\ v \notin sent.eos /\ ~ (sent.closes[v] > 0)
  <2>1. CASE Sees(i) = {}
    <3>1. i <= i
      BY PhraseBounds
    <3> QED
      BY <2>1, <3>1
  <2>2. CASE Sees(i) # {}
    <3>1. Scanned(i) # {}
      <4>1. PICK x \in Sees(i) : \A y \in Sees(i) : x <= y
        BY <2>2, <1>1, LowestIn
      <4>2. ASSUME NEW k \in Sees(i)
            PROVE  ~ (k < x)
        <5>1. k \in Int /\ x \in Int /\ x <= k
          BY <4>1, <1>1, PhraseBounds
        <5> QED
          BY <5>1
      <4> QED
        BY <4>1, <4>2, <1>2
    <3> DEFINE v == LastPossibility(i)
    <3>2. v \in Scanned(i) /\ \A y \in Scanned(i) : v >= y
      <4>1. Scanned(i) \subseteq Bnst
        BY <1>1, <1>2
      <4>2. v = Highest(Scanned(i))
        BY <3>1 DEF LastPossibility
      <4> QED
        BY <3>1, <4>1, <4>2, HighestIn
    <3>3. v # Last /\ v \notin sent.eos /\ ~ (sent.closes[v] > 0)
      BY <3>1 DEF MayEnd
    <3>4. v \in Sees(i) /\ v \in Bnst
      BY <1>1, <1>2, <3>2
    <3> HIDE DEF v
    <3>5. ASSUME Sees(i) \cap sent.eos # {}
          PROVE  FALSE
      <4>1. PICK e \in Sees(i) \cap sent.eos : \A y \in Sees(i) \cap sent.eos : e <= y
        <5>1. Sees(i) \cap sent.eos \subseteq Bnst
          BY <1>1
        <5> QED
          BY <3>5, <5>1, LowestIn
      <4>i. e \in Int /\ v \in Int
        BY <3>4, <4>1, <1>1, PhraseBounds
      <4>2. e \in Scanned(i)
        <5>1. ASSUME NEW k \in Sees(i), k < e
              PROVE  k \notin sent.eos
          <6>1. k \in Int
            BY <1>1, PhraseBounds
          <6> QED
            BY <6>1, <5>1, <4>1, <4>i
        <5> QED
          BY <4>1, <5>1, <1>2
      <4>3. v >= e /\ e # v
        BY <3>2, <3>3, <4>1, <4>2
      <4>4. e < v
        BY <4>3, <4>i
      <4> QED
        BY <4>1, <4>4, <3>2, <1>2
    <3>6. Scanned(i) = Sees(i)
      BY <3>5, <1>2
    <3>7. ASSUME NEW j \in Sees(i)
          PROVE  j <= v
      <4>1. v >= j /\ j \in Int /\ v \in Int
        BY <3>2, <3>4, <3>6, <1>1, PhraseBounds
      <4> QED
        BY <4>1
    <3>8. i <= v /\ v < Last
      <4>1. v > i /\ v <= Last /\ v \in Int /\ i \in Int /\ Last \in Int
        BY <3>4, <1>1, PhraseBounds
      <4> QED
        BY <4>1, <3>3
    <3> QED
      BY <3>3, <3>4, <3>7, <3>8
  <2> QED
    BY <2>1, <2>2
<1>4. v + 1 \in (i + 1) .. Last /\ v + 1 \in Bnst /\ ~ (v + 1 <= v)
  BY <1>3, PhraseBounds
<1>5. ~ Quote[<<i, v + 1>>] /\ <<i, v + 1>> \in Cells
  <2>1. v + 1 \notin Sees(i)
    BY <1>3, <1>4
  <2> QED
    BY <2>1, <1>4 DEF Sees, Cells
<1>6. ~ full
  BY <1>5 DEF IInv, QuoteInv
<1>7. ClosedBy(Len(pairs)) /\ Settled(sent, pairs)
  BY <1>6 DEF IInv, QuoteInv, BracketInv
<1>8. PICK k \in 1 .. Len(pairs) :
        pairs[k].in # pairs[k].out /\ Masked(sent, pairs[k], i, v + 1)
  <2>1. /\ <<i, v + 1>>[1] = i /\ <<i, v + 1>>[2] = v + 1
    OBVIOUS
  <2> QED
    BY <1>5, <1>7, <2>1 DEF ClosedBy
<1>9. v # i => ~ Masked(sent, pairs[k], i, v)
  <2> SUFFICES ASSUME v # i
               PROVE  ~ Masked(sent, pairs[k], i, v)
    OBVIOUS
  <2>1. Quote[<<i, v>>] /\ <<i, v>> \in Cells /\ <<i, v>>[1] = i /\ <<i, v>>[2] = v
    BY <1>3 DEF Sees, Cells
  <2> QED
    BY <1>7, <1>8, <2>1 DEF ClosedBy
<1>10. /\ pairs[k].in \in 0 .. Last /\ pairs[k].out \in 0 .. Last
       /\ pairs[k].in < pairs[k].out
       /\ pairs[k].out = Last \/ sent.closes[pairs[k].out] > 0
  <2>1. /\ pairs[k].in \in 0 .. Last /\ pairs[k].out \in 0 .. Last
        /\ pairs[k].in <= pairs[k].out
        /\ pairs[k].out = Last \/ sent.closes[pairs[k].out] > 0
    BY <1>7 DEF Settled
  <2> QED
    BY <2>1, <1>8, PhraseBounds
<1>11. i < pairs[k].in /\ v < pairs[k].in
  BY <1>3, <1>8, <1>9, <1>10, HiddenBehind
<1>12. ASSUME NEW j \in Sees(i)
       PROVE  j < pairs[k].in
  <2>1. j \in Int /\ v \in Int /\ j <= v /\ pairs[k].in \in Int
    BY <1>1, <1>3, <1>10, PhraseBounds
  <2> QED
    BY <2>1, <1>11
<1> QED
  BY <1>11, <1>12

\* relax_dpnd_matrix, one phrase.
LEMMA RelaxKeeps ==
  ASSUME IInv, Relax
  PROVE  IInv'
<1>0. /\ phase = "relax" /\ pos \in Nat /\ pos <= Last /\ pos \in Bnst
      /\ UNCHANGED <<sent, Quote, pairs, stack, full>>
      /\ \A i \in Bnst : i < pos => HeadOrBracket(i)
  BY PhraseBounds DEF IInv, PosInv, RelaxInv, Relax
<1>q. \A i : Sees(i)' = Sees(i)
  BY <1>0 DEF Sees
<1>a. CASE pos >= Last
  <2>1. phase' = "done" /\ pos' = pos /\ Dpnd' = Dpnd /\ pos = Last
    BY <1>0, <1>a, PhraseBounds DEF Relax
  <2>2. PosInv'
    BY <1>0, <2>1 DEF IInv, PosInv, Phases
  <2>3. BracketInv'
    BY <1>0, <2>1 DEF IInv, BracketInv
  <2>4. QuoteInv'
    BY <1>0, <2>1 DEF IInv, QuoteInv, ClosedBy
  <2>5. KoouInv'
    BY <1>0, <2>1 DEF IInv, KoouInv
  <2>6. RelaxInv'
    <3>1. \A i : Possible(i)' = Possible(i)
      BY <1>0, <2>1 DEF Possible, Sees
    <3> QED
      BY <1>0, <1>q, <2>1, <3>1 DEF RelaxInv, HeadOrBracket
  <2> QED
    BY <2>2, <2>3, <2>4, <2>5, <2>6 DEF IInv
<1>b. CASE ~ (pos >= Last)
  <2> DEFINE j == LastPossibility(pos)
             helped == Scanned(pos) \cap Possible(pos) = {} /\ MayEnd(j)
  <2>1. /\ phase' = "relax" /\ pos' = pos + 1 /\ pos < Last
        /\ Dpnd' = IF helped THEN [Dpnd EXCEPT ![<<pos, j>>] = Relaxed] ELSE Dpnd
    BY <1>0, <1>b, PhraseBounds DEF Relax
  <2>d. Dpnd = [c \in Cells |-> Dpnd[c]]
    BY DEF IInv, KoouInv
  <2> HIDE DEF j
  <2>r. \A i, x \in Bnst :
          /\ i # pos => Dpnd'[<<i, x>>] = Dpnd[<<i, x>>]
          /\ Dpnd[<<i, x>>] # NoDpnd => Dpnd'[<<i, x>>] # NoDpnd
          /\ helped /\ i = pos /\ x = j => Dpnd'[<<i, x>>] # NoDpnd
    <3> SUFFICES ASSUME NEW i \in Bnst, NEW x \in Bnst
                 PROVE  /\ i # pos => Dpnd'[<<i, x>>] = Dpnd[<<i, x>>]
                        /\ Dpnd[<<i, x>>] # NoDpnd => Dpnd'[<<i, x>>] # NoDpnd
                        /\ helped /\ i = pos /\ x = j => Dpnd'[<<i, x>>] # NoDpnd
      OBVIOUS
    <3>1. <<i, x>> \in Cells
      BY DEF Cells
    <3>2. Relaxed # NoDpnd
      BY DEF Relaxed, NoDpnd
    <3>3. CASE helped
      <4>1. Dpnd'[<<i, x>>] = IF <<i, x>> = <<pos, j>> THEN Relaxed ELSE Dpnd[<<i, x>>]
        BY <3>1, <3>3, <2>1, <2>d
      <4>2. <<i, x>> = <<pos, j>> <=> i = pos /\ x = j
        OBVIOUS
      <4> QED
        BY <3>2, <4>1, <4>2
    <3>4. CASE ~ helped
      BY <3>4, <2>1
    <3> QED
      BY <3>3, <3>4
  <2>s. \A i \in Bnst : Sees(i) \subseteq Bnst
    BY PhraseBounds DEF Sees
  <2>m. \A i \in Bnst : Possible(i) \subseteq Possible(i)'
    <3> SUFFICES ASSUME NEW i \in Bnst, NEW x \in Possible(i)
                 PROVE  x \in Possible(i)'
      OBVIOUS
    <3>1. x \in Sees(i) /\ x \in Bnst /\ Dpnd[<<i, x>>] # NoDpnd
      BY <2>s DEF Possible
    <3>2. Dpnd'[<<i, x>>] # NoDpnd
      BY <3>1, <2>r
    <3>3. Possible(i)' = {y \in Sees(i)' : Dpnd'[<<i, y>>] # NoDpnd}
      BY DEF Possible
    <3> QED
      BY <3>1, <3>2, <3>3, <1>q
  <2>2. PosInv'
    BY <1>0, <2>1, PhraseBounds DEF IInv, PosInv, Phases
  <2>3. BracketInv'
    BY <1>0, <2>1 DEF IInv, BracketInv
  <2>4. QuoteInv'
    BY <1>0, <2>1 DEF IInv, QuoteInv, ClosedBy
  <2>5. KoouInv'
    <3>1. Dpnd' = [c \in Cells |-> Dpnd'[c]]
      BY <2>1, <2>d
    <3> QED
      BY <3>1, <2>1 DEF KoouInv
  <2>6. ASSUME NEW i \in Bnst, i < pos
        PROVE  HeadOrBracket(i)'
    <3>1. HeadOrBracket(i)
      BY <1>0, <2>6
    <3> QED
      BY <3>1, <1>0, <1>q, <2>m DEF HeadOrBracket
  <2>7. ASSUME NEW p \in Bnst, p = pos
        PROVE  HeadOrBracket(p)'
    <3>1. CASE Possible(p) # {}
      BY <3>1, <2>m DEF HeadOrBracket
    <3>2. CASE Possible(p) = {} /\ Scanned(p) # {} /\ MayEnd(j)
      <4>1. helped
        BY <3>2, <2>7
      <4>2. j \in Scanned(p)
        <5>1. Scanned(p) \subseteq Bnst
          BY <2>s DEF Scanned
        <5>2. j = Highest(Scanned(p))
          BY <3>2, <2>7 DEF j, LastPossibility
        <5> QED
          BY <3>2, <5>1, <5>2, HighestIn
      <4>3. j \in Sees(p) /\ j \in Bnst
        BY <4>2, <2>s DEF Scanned
      <4>4. Dpnd'[<<p, j>>] # NoDpnd
        BY <4>1, <4>3, <2>7, <2>r
      <4>5. Possible(p)' = {y \in Sees(p)' : Dpnd'[<<p, y>>] # NoDpnd}
        BY DEF Possible
      <4>6. j \in Possible(p)'
        BY <4>3, <4>4, <4>5, <1>q
      <4> QED
        BY <4>6 DEF HeadOrBracket
    <3>3. CASE Possible(p) = {} /\ (Scanned(p) # {} => ~ MayEnd(j))
      <4>1. \E k \in 1 .. Len(pairs) : p < pairs[k].in /\ \A x \in Sees(p) : x < pairs[k].in
        BY <3>3, <2>1, <2>7, <1>0, NotRelaxed DEF j
      <4> QED
        BY <4>1, <1>0, <1>q DEF HeadOrBracket
    <3> QED
      BY <3>1, <3>2, <3>3
  <2>8. RelaxInv'
    <3>1. \A i \in Bnst : i < pos + 1 => i < pos \/ i = pos
      BY <1>0, PhraseBounds
    <3>2. \A i \in Bnst : i < pos + 1 => HeadOrBracket(i)'
      BY <3>1, <2>6, <2>7
    <3> QED
      BY <3>2, <2>1 DEF RelaxInv
  <2> QED
    BY <2>2, <2>3, <2>4, <2>5, <2>8 DEF IInv
<1> QED
  BY <1>a, <1>b

\* Every step, a stuttering one included, keeps the invariant.
LEMMA NextIInv ==
  ASSUME IInv, [Next]_vars
  PROVE  IInv'
<1>1. CASE CalcDpndMatrix
  BY <1>1, MatrixKeeps
<1>2. CASE KoouPhrase
  BY <1>2, KoouKeeps
<1>3. CASE PairBrackets
  BY <1>3, PairKeeps
<1>4. CASE MaskQuote
  BY <1>4, MaskKeeps
<1>5. CASE Relax
  BY <1>5, RelaxKeeps
<1>6. CASE UNCHANGED vars
  <2>1. UNCHANGED <<sent, phase, pos, Dpnd, Quote, pairs, stack, full>>
    BY <1>6 DEF vars
  <2>2. PosInv' /\ BracketInv'
    BY <2>1 DEF IInv, PosInv, BracketInv, Pairing
  <2>3. QuoteInv' /\ KoouInv'
    BY <2>1 DEF IInv, QuoteInv, ClosedBy, KoouInv
  <2>4. RelaxInv'
    <3>1. \A i : Sees(i)' = Sees(i) /\ Possible(i)' = Possible(i)
      BY <2>1 DEF Sees, Possible
    <3> QED
      BY <2>1, <3>1 DEF IInv, RelaxInv, HeadOrBracket
  <2> QED
    BY <2>2, <2>3, <2>4 DEF IInv
<1> QED
  BY <1>1, <1>2, <1>3, <1>4, <1>5, <1>6 DEF Next, Done

\* The invariant holds in every state of one_sentence_analysis.
LEMMA Invariant == Spec => []IInv
<1>1. IInv /\ [Next]_vars => IInv'
  BY NextIInv
<1> QED
  BY <1>1, InitIInv, PTL DEF Spec
-----------------------------------------------------------------------------
(* Theorems                                                                *)

\* The type invariant; in particular quote_data keeps room for its sentinel,
\* however many brackets a sentence has.
THEOREM TypeCorrect == Spec => []TypeOK
<1>1. ASSUME IInv
      PROVE  TypeOK
  <2>1. Len(pairs) \in Nat /\ pairs \in [1 .. Len(pairs) -> Ranges] /\ DOMAIN pairs = 1 .. Len(pairs)
    <3>1. pairs \in Seq(Ranges)
      BY <1>1 DEF IInv, BracketInv
    <3> QED
      BY <3>1
  <2>2. \A k \in DOMAIN pairs : pairs[k].in \in -1 .. Last /\ pairs[k].out \in -1 .. Last
    BY <2>1 DEF Ranges
  <2>3. Len(pairs) < QUOTE_MAX /\ Len(stack) <= Len(pairs) /\ Quote \in [Cells -> BOOLEAN]
    BY <1>1 DEF IInv, BracketInv, QuoteInv
  <2>4. pos \in 0 .. N + QUOTE_MAX
    <3>1. /\ pos \in Nat
          /\ pos <= Last \/ pos <= Len(pairs) + 1
      BY <1>1 DEF IInv, PosInv
    <3> QED
      BY <3>1, <2>1, <2>3, LimitAssumption, PhraseBounds
  <2>5. phase \in {"matrix", "koou", "pair", "mask", "relax", "done"}
    BY <1>1 DEF IInv, PosInv, Phases
  <2> QED
    BY <2>2, <2>3, <2>4, <2>5 DEF TypeOK
<1> QED
  BY <1>1, Invariant, PTL

\* Whatever brackets are missing on either side, the ranges check_quote hands to
\* mask_quote are nested or follow each other, for any number of brackets.
THEOREM QuotesNestedAlways == Spec => []QuotesNested
<1>1. ASSUME IInv
      PROVE  QuotesNested
  <2>1. DOMAIN pairs = 1 .. Len(pairs)
    BY <1>1 DEF IInv, BracketInv
  <2>2. ASSUME Masks, ~ full
        PROVE  Settled(sent, pairs)
    BY <1>1, <2>2 DEF IInv, BracketInv, Masks
  <2> QED
    BY <2>1, <2>2 DEF QuotesNested, Settled
<1> QED
  BY <1>1, Invariant, PTL

\* However correlative expressions overlap, change_matrix has closed each of
\* them against what is before it and what is behind it.
THEOREM KoouClosedAlways == Spec => []KoouClosed
<1>1. IInv => KoouClosed
  BY DEF IInv, KoouInv, KoouDone, KoouClosed
<1> QED
  BY <1>1, Invariant, PTL

\* After relax_dpnd_matrix only a phrase before an opening bracket, which sees
\* nothing from there on, can be left without a head.
THEOREM RelaxedAllAlways == Spec => []RelaxedAll
<1>1. ASSUME IInv
      PROVE  RelaxedAll
  <2> SUFFICES ASSUME phase = "done", NEW i \in Bnst \ {Last}, Possible(i) = {}
               PROVE  \E k \in DOMAIN pairs : i < pairs[k].in /\ \A j \in Sees(i) : j < pairs[k].in
    BY DEF RelaxedAll
  <2>1. DOMAIN pairs = 1 .. Len(pairs)
    BY <1>1 DEF IInv, BracketInv
  <2>2. pos = Last /\ i < pos
    BY <1>1, PhraseBounds DEF IInv, PosInv
  <2>3. HeadOrBracket(i)
    BY <1>1, <2>2 DEF IInv, RelaxInv
  <2> QED
    BY <2>1, <2>3 DEF HeadOrBracket
<1> QED
  BY <1>1, Invariant, PTL
=============================================================================
