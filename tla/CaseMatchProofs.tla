-------------------------- MODULE CaseMatchProofs --------------------------
(***************************************************************************)
(* Proofs about CaseMatch, for predicates and frames of every size.        *)
(*                                                                         *)
(* The array of find_best_cf holds the best frames although the others are *)
(* thrown away one by one.  This needs scores that can be compared, and so *)
(* that the recursion of assign_list only ever takes slots of the frame    *)
(* and evaluates complete assignments (IInv).                              *)
(*                                                                         *)
(* The recursion finds the best assignments that the rules admit: each of  *)
(* them has been weighed against the globals, or is still to be reached by *)
(* an activation on the stack (Searching).                                 *)
(*                                                                         *)
(* The second sort of the frames that tie brings the right one to the      *)
(* front: the array holds different frames, all that tie if there is room  *)
(* for them (Tracked), and each round of the sort leaves a frame last that *)
(* is better than none in front of it (Behind).                            *)
(***************************************************************************)
EXTENDS CaseMatch, FiniteSetTheorems, SequenceTheorems, RecursionFacts

\* The lists of assign_list for elements E and slots S, and the complete ones.
Lists1(E, S) == [E -> S \cup {UNASSIGNED, NIL_ASSIGNED}]
Lists2(E, S) == [S -> E \cup {UNASSIGNED}]
Complete(E, S) == [E -> S \cup {NIL_ASSIGNED}]
Results(E, S) == [l1 : Complete(E, S), l2 : Lists2(E, S), pure : Int]

\* An activation of assign_list: an element is in turn as long as one is left.
Active(E, S, a) ==
    /\ a = [l1 |-> a.l1, l2 |-> a.l2, score |-> a.score, target |-> a.target, todo |-> a.todo]
    /\ a.l1 \in Lists1(E, S) /\ a.l2 \in Lists2(E, S) /\ a.score \in Int
    /\ a.target \in E \cup {0} /\ a.todo \in Seq(S \cup {NIL_ASSIGNED})
    /\ a.target = 0 => a.l1 \in Complete(E, S) /\ a.todo = <<>>

\* The globals: only a complete assignment replaces the failure.
Best(E, S, c) ==
    /\ c = [lists |-> c.lists, merit |-> c.merit, sufficiency |-> c.sufficiency]
    /\ c.lists \in Seq(Results(E, S))
    /\ c.merit[1] \in Int /\ c.sufficiency \in Int
    /\ c.lists = <<>> => c.merit[1] < 0

\* The frame in turn is a frame of the predicate.
InFrame ==
    /\ input \in Inputs
    /\ cands \in Seq(DOMAIN input.frames) /\ k \in 1 .. Len(cands)

Matching ==
    /\ InFrame
    /\ stack \in Seq(ToSet(stack)) /\ \A n \in DOMAIN stack : Active(Elements, Slots, stack[n])
    /\ Best(Elements, Slots, current)

\* A match that can be compared with others.
Scored(m) == m.score \in Int /\ m.sufficiency \in Int

\* The matches of ms stand in order, and each of them can be compared.
Ranked(ms) ==
    /\ ms \in Seq(ToSet(ms))
    /\ \A i \in DOMAIN ms : Scored(ms[i])
    /\ \A i, j \in DOMAIN ms : i < j => ~Precedes(ms[j], ms[i])

\* The array after some frames have been matched: nothing is lost while there
\* is room, and nothing that was lost precedes what is left.
Keeping ==
    /\ Ranked(cmm)
    /\ matched \in Seq(ToSet(matched)) /\ \A m \in ToSet(matched) : Scored(m)
    /\ Len(cmm) = IF Len(matched) < CMM_MAX - 1 THEN Len(matched) ELSE CMM_MAX - 1
    /\ Len(matched) <= CMM_MAX - 1 => ToSet(matched) \subseteq ToSet(cmm)
    /\ \A m \in ToSet(matched) : m \in ToSet(cmm) \/ ~Precedes(m, Last(cmm))

IInv ==
    /\ pc \in {"select", "match", "choose", "done"}
    /\ input \in Inputs
    /\ pc = "select" => cmm = <<>> /\ matched = <<>>
    /\ pc # "select" => Matching
    /\ pc \in {"match", "choose"} => Keeping
    /\ pc = "match" => Len(matched) = k - 1
    /\ pc = "choose" => Len(matched) = Len(cands)

\* What the rules say of choice r for element t: a slot, or none.
MayChoose(l1, t, r) ==
    IF r # NIL_ASSIGNED THEN MayTake(l1, t, r) /\ GoodEnough(t, r)
    ELSE ~input.noun /\ input.prob => \A s \in Slots : ~MayTake(l1, t, s)

\* An activation of assign_list has followed the rules in the order of the
\* elements, and what it will try follows them.
Ruled(a) ==
    /\ a.l2 = Inverted(a.l1) /\ a.score = TotalScore(a.l1)
    /\ a.target = 0 \/ a.l1[a.target] = UNASSIGNED
    /\ a.target # 0 => \A u \in Elements : a.l1[u] # UNASSIGNED <=> Earlier(u, a.target)
    /\ \A t \in Elements : a.l1[t] # UNASSIGNED => MayChoose(a.l1, t, a.l1[t])
    /\ \A r \in ToSet(a.todo) : MayChoose(a.l1, a.target, r)

\* Assignment l1 has still to be reached by activation a.
Pending(l1, a) ==
    /\ \A u \in Elements : a.l1[u] # UNASSIGNED => l1[u] = a.l1[u]
    /\ a.target # 0 => l1[a.target] \in ToSet(a.todo)

\* Assignment l1 is no reason to change the globals c.
Weighed(l1, c) ==
    /\ ~Beats(MeritOf(l1), c.merit)
    /\ ~input.prob /\ MeritOf(l1) = c.merit /\ ~GaFree(Inverted(l1)) =>
          c.lists # <<>> /\ ~GaFree(c.lists[1].l2)

\* Merits are compared number by number.
Four(m) == /\ m = <<m[1], m[2], m[3], m[4]>>
           /\ m[1] \in Int /\ m[2] \in Int /\ m[3] \in Int /\ m[4] \in Int

\* The globals hold assignments that the rules admit, and their merit.
Found(c) ==
    /\ Four(c.merit)
    /\ \A r \in ToSet(c.lists) : r.l1 \in Admissible /\ MeritOf(r.l1) = c.merit /\ r.l2 = Inverted(r.l1)

\* Between two steps of assign_list nothing is lost.
Searched(st, c) ==
    /\ \A n \in DOMAIN st : Ruled(st[n])
    /\ Found(c)
    /\ \A l1 \in Admissible : Weighed(l1, c) \/ \E n \in DOMAIN st : Pending(l1, st[n])

\* The inductive invariant of the search.
Searching == pc = "match" /\ ~NoTwice => Searched(stack, current)
-----------------------------------------------------------------------------
(* The order of the matches                                                *)

\* The order of find_best_cf is a strict weak one, ties and failures included.
LEMMA WeakOrder ==
    ASSUME NEW a, NEW b, NEW c, Scored(a), Scored(b), Scored(c)
    PROVE  /\ ~Precedes(a, b) /\ ~Precedes(b, c) => ~Precedes(a, c)
           /\ Precedes(a, b) => ~Precedes(b, a)
           /\ ~Precedes(a, a)
<1> DEFINE p(x) == CheckCfClosest(x)
           e == Closest > 0
           f == FAILURE
<1>1. \A x, y : Precedes(x, y) <=> \/ x.score > y.score
                                   \/ /\ x.score = y.score /\ y.score # f
                                      /\ IF e THEN p(x) /\ ~p(y) ELSE x.sufficiency > y.sufficiency
    BY Zenon DEF Precedes
<1> HIDE DEF p, e, f
<1> QED
    BY <1>1 DEF Scored

\* How InsertAt and SubSeq move the matches.
LEMMA Inserted ==
    ASSUME NEW S, NEW s \in Seq(S), NEW p \in 1 .. (Len(s) + 1), NEW e \in S,
           NEW a, a = InsertAt(s, p, e)
    PROVE  /\ a \in Seq(S) /\ Len(a) = Len(s) + 1 /\ a[p] = e
           /\ \A i \in 1 .. (Len(s) + 1) : i < p => a[i] = s[i]
           /\ \A i \in 1 .. (Len(s) + 1) : ~(i < p) /\ i # p => a[i] = s[i - 1]
           /\ \A i \in p .. Len(s) : a[i + 1] = s[i]
<1> DEFINE u == SubSeq(s, 1, p - 1)
           v == SubSeq(s, p, Len(s))
<1>1. u \in Seq(S) /\ Len(u) = p - 1 /\ \A i \in 1 .. (p - 1) : u[i] = s[i]
    OBVIOUS
<1>2. /\ v \in Seq(S) /\ Len(v) = Len(s) - p + 1
      /\ \A i \in 1 .. (Len(s) - p + 1) : v[i] = s[p + i - 1]
    OBVIOUS
<1>3. a = u \o <<e>> \o v
    BY Zenon DEF InsertAt
<1> HIDE DEF u, v
<1> DEFINE w == u \o <<e>>
<1>4. Len(s) \in Nat /\ p \in Nat /\ p <= Len(s) + 1 /\ p > 0
    OBVIOUS
<1>5. w \in Seq(S) /\ Len(w) = p /\ \A i \in 1 .. p : w[i] = IF i < p THEN s[i] ELSE e
    <2>1. <<e>> \in Seq(S) /\ Len(<<e>>) = 1 /\ <<e>>[1] = e
        OBVIOUS
    <2>2. /\ w \in Seq(S) /\ Len(w) = Len(u) + Len(<<e>>)
          /\ \A i \in 1 .. (Len(u) + Len(<<e>>)) : w[i] = IF i <= Len(u) THEN u[i] ELSE <<e>>[i - Len(u)]
        BY <1>1, <2>1, ConcatProperties
    <2> HIDE DEF w
    <2> QED
        BY <1>1, <1>4, <2>1, <2>2
<1> HIDE DEF w
<1>6. /\ w \o v \in Seq(S) /\ Len(w \o v) = Len(w) + Len(v)
      /\ \A i \in 1 .. (Len(w) + Len(v)) : (w \o v)[i] = IF i <= Len(w) THEN w[i] ELSE v[i - Len(w)]
    BY <1>2, <1>5, ConcatProperties
<1>7. w \o v \in Seq(S) /\ Len(w \o v) = Len(s) + 1
    BY <1>2, <1>5, <1>4, <1>6
<1>8. ASSUME NEW i \in 1 .. (Len(s) + 1)
      PROVE  (w \o v)[i] = IF i < p THEN s[i] ELSE IF i = p THEN e ELSE s[i - 1]
    <2>1. CASE i <= p
        <3>1. i \in 1 .. p /\ i \in 1 .. (Len(w) + Len(v)) /\ i <= Len(w)
            BY <1>2, <1>5, <1>4, <2>1
        <3>2. (w \o v)[i] = IF i < p THEN s[i] ELSE e
            BY <1>5, <1>6, <3>1, Zenon
        <3>3. ~(i < p) => i = p
            BY <1>4, <2>1
        <3> QED
            BY <3>2, <3>3, Zenon
    <2>2. CASE ~(i <= p)
        <3>1. (w \o v)[i] = v[i - p] /\ i - p \in 1 .. (Len(s) - p + 1) /\ p + (i - p) - 1 = i - 1
            BY <1>2, <1>5, <1>4, <1>6, <2>2
        <3> QED
            BY <1>2, <2>2, <3>1
    <2> QED
        BY <2>1, <2>2, Zenon
<1>9. a = w \o v
    BY <1>3, Zenon DEF w
<1>10. a \in Seq(S) /\ Len(a) = Len(s) + 1
    BY <1>7, <1>9, Zenon
<1>11. \A i \in 1 .. (Len(s) + 1) : a[i] = IF i < p THEN s[i] ELSE IF i = p THEN e ELSE s[i - 1]
    BY <1>8, <1>9, Zenon
<1>12. a[p] = e
    BY <1>4, <1>11
<1>13. ASSUME NEW i \in p .. Len(s)
       PROVE  a[i + 1] = s[i]
    <2>1. i + 1 \in 1 .. (Len(s) + 1) /\ ~(i + 1 < p) /\ i + 1 # p /\ i + 1 - 1 = i
        BY <1>4
    <2>2. \A x \in 1 .. (Len(s) + 1) : x = i + 1 => a[x] = s[i]
        BY <1>4, <1>11, <2>1
    <2> QED
        BY <2>1, <2>2, Zenon
<1>14. \A i \in 1 .. (Len(s) + 1) : ~(i < p) /\ i # p => a[i] = s[i - 1]
    BY <1>11, Zenon
<1>15. \A i \in 1 .. (Len(s) + 1) : i < p => a[i] = s[i]
    BY <1>11, Zenon
<1> QED
    BY <1>10, <1>12, <1>13, <1>14, <1>15, Zenon

\* How the front of a sequence is cut off.
LEMMA Shortened ==
    ASSUME NEW S, NEW s \in Seq(S), NEW n \in 0 .. Len(s), NEW a, a = SubSeq(s, 1, n)
    PROVE  a \in Seq(S) /\ Len(a) = n /\ \A i \in 1 .. n : a[i] = s[i]
    OBVIOUS

\* The smaller of two numbers.
LEMMA Smaller ==
    ASSUME NEW a \in Nat, NEW b \in Nat
    PROVE  Min({a, b}) = IF a <= b THEN a ELSE b
<1> DEFINE S == {a, b}
<1>1. CASE a <= b
    <2>1. a \in S /\ \A y \in S : a <= y
        BY <1>1
    <2>2. \A x \in S : (\A y \in S : x <= y) => x = a
        BY <1>1
    <2> HIDE DEF S
    <2>3. (CHOOSE x \in S : \A y \in S : x <= y) = a
        BY <2>1, <2>2, Zenon
    <2> QED
        BY <1>1, <2>3 DEF Min, S
<1>2. CASE ~(a <= b)
    <2>1. b \in S /\ \A y \in S : b <= y
        BY <1>2
    <2>2. \A x \in S : (\A y \in S : x <= y) => x = b
        BY <1>2
    <2> HIDE DEF S
    <2>3. (CHOOSE x \in S : \A y \in S : x <= y) = b
        BY <2>1, <2>2, Zenon
    <2> QED
        BY <1>2, <2>3 DEF Min, S
<1> QED
    BY <1>1, <1>2

\* Where a new match n goes: behind all that it does not precede.
Place(ms, n) ==
    LET after == {j \in DOMAIN ms : ~Precedes(n, ms[j])}
    IN  IF after = {} THEN 1 ELSE Max(after) + 1

\* The new match goes behind those that it does not precede.
LEMMA PlaceRight ==
    ASSUME NEW ms, Ranked(ms), NEW n, Scored(n)
    PROVE  /\ Place(ms, n) \in 1 .. (Len(ms) + 1)
           /\ \A j \in 1 .. Len(ms) : j < Place(ms, n) => ~Precedes(n, ms[j])
           /\ \A j \in 1 .. Len(ms) : j >= Place(ms, n) => ~Precedes(ms[j], n)
<1> DEFINE after == {j \in DOMAIN ms : ~Precedes(n, ms[j])}
           l == Len(ms)
<1>1. l \in Nat /\ DOMAIN ms = 1 .. l
    BY DEF Ranked
<1>2. \A j \in 1 .. l : Scored(ms[j])
    BY <1>1, Zenon DEF Ranked
<1>3. \A j \in 1 .. l : j \notin after => ~Precedes(ms[j], n)
    BY <1>1, <1>2, WeakOrder, Zenon
<1>4. after \in SUBSET (1 .. l) /\ \A j \in after : ~Precedes(n, ms[j])
    BY <1>1, Zenon
<1>5. \A i, j \in 1 .. l : i < j => ~Precedes(ms[j], ms[i])
    BY <1>1, Zenon DEF Ranked
<1> HIDE DEF after, l
<1>6. CASE after = {}
    <2>1. Place(ms, n) = 1
        BY <1>6, Zenon DEF Place, after
    <2>2. \A j \in 1 .. l : ~(j < 1) /\ 1 \in 1 .. (l + 1)
        BY <1>1
    <2>3. 1 \in 1 .. (l + 1)
        BY <1>1
    <2>4. \A j \in 1 .. l : ~Precedes(ms[j], n)
        BY <1>3, <1>6, Zenon
    <2> QED
        BY <2>1, <2>2, <2>3, <2>4, Zenon DEF l
<1>7. CASE after # {}
    <2> DEFINE m == Max(after)
    <2>1. m \in after /\ m \in 1 .. l /\ \A y \in after : m >= y
        BY <1>1, <1>4, <1>7, GreatestIndex, Zenon
    <2>2. Place(ms, n) = m + 1
        BY <1>7, Zenon DEF Place, after
    <2> HIDE DEF m
    <2>3. m + 1 \in 1 .. (l + 1)
        BY <1>1, <2>1
    <2>4. ~Precedes(n, ms[m])
        BY <1>4, <2>1, Zenon
    <2>5. \A j \in 1 .. l : (j < m + 1 => j = m \/ j < m) /\ (j >= m + 1 => ~(m >= j))
        BY <1>1, <2>1
    <2>6. ASSUME NEW j \in 1 .. l, j < m
          PROVE  ~Precedes(n, ms[j])
        <3>1. ~Precedes(ms[m], ms[j])
            BY <1>5, <2>1, <2>6, Zenon
        <3>2. Scored(ms[m]) /\ Scored(ms[j])
            BY <1>2, <2>1, Zenon
        <3> QED
            BY <2>4, <3>1, <3>2, WeakOrder, Zenon
    <2>7. \A j \in 1 .. l : j >= m + 1 => ~Precedes(ms[j], n)
        BY <1>3, <2>1, <2>5, Zenon
    <2>8. \A j \in 1 .. l : j < m + 1 => ~Precedes(n, ms[j])
        BY <2>4, <2>5, <2>6, Zenon
    <2> QED
        BY <2>2, <2>3, <2>7, <2>8, Zenon DEF l
<1> QED
    BY <1>6, <1>7

\* The array with a match put into its place, before it is shortened.
LEMMA PlacedRight ==
    ASSUME NEW ms, Ranked(ms), NEW n, Scored(n), NEW a, a = InsertAt(ms, Place(ms, n), n)
    PROVE  /\ a \in Seq(ToSet(ms) \cup {n}) /\ Len(a) = Len(ms) + 1
           /\ \A i \in 1 .. (Len(ms) + 1) : Scored(a[i])
           /\ \A i, j \in 1 .. (Len(ms) + 1) : i < j => ~Precedes(a[j], a[i])
           /\ \A m \in ToSet(ms) \cup {n} : \E i \in 1 .. (Len(ms) + 1) : a[i] = m
           /\ Len(ms) > 0 => ms[Len(ms)] \in {a[Len(ms)], a[Len(ms) + 1]}
<1> DEFINE l == Len(ms)
           p == Place(ms, n)
           S == ToSet(ms) \cup {n}
<1>1. l \in Nat /\ DOMAIN ms = 1 .. l /\ ms \in Seq(ToSet(ms))
    BY DEF Ranked
<1>2. /\ \A j \in 1 .. l : Scored(ms[j])
      /\ \A i, j \in 1 .. l : i < j => ~Precedes(ms[j], ms[i])
    BY <1>1, Zenon DEF Ranked
<1>3. /\ p \in 1 .. (l + 1)
      /\ \A j \in 1 .. l : j < p => ~Precedes(n, ms[j])
      /\ \A j \in 1 .. l : j >= p => ~Precedes(ms[j], n)
    BY PlaceRight, Zenon
<1>4. ms \in Seq(S) /\ n \in S
    <2> DEFINE T == ToSet(ms)
    <2> HIDE DEF T
    <2>1. ms \in Seq(T)
        BY <1>1, Zenon DEF T
    <2>2. ms \in Seq(T \cup {n})
        BY <2>1
    <2> QED
        BY <2>2, Zenon DEF T
<1> HIDE DEF p, S
<1>5. /\ a \in Seq(S) /\ Len(a) = l + 1 /\ a[p] = n
      /\ \A i \in 1 .. (l + 1) : i < p => a[i] = ms[i]
      /\ \A i \in 1 .. (l + 1) : ~(i < p) /\ i # p => a[i] = ms[i - 1]
      /\ \A i \in p .. l : a[i + 1] = ms[i]
    <2>1. a = InsertAt(ms, p, n)
        BY Zenon DEF p
    <2>2. Len(ms) = l
        BY Zenon DEF l
    <2> HIDE DEF l
    <2>3. p \in 1 .. (Len(ms) + 1)
        BY <1>3, <2>2, Zenon
    <2>4. /\ a \in Seq(S) /\ Len(a) = Len(ms) + 1 /\ a[p] = n
          /\ \A i \in 1 .. (Len(ms) + 1) : i < p => a[i] = ms[i]
          /\ \A i \in 1 .. (Len(ms) + 1) : ~(i < p) /\ i # p => a[i] = ms[i - 1]
          /\ \A i \in p .. Len(ms) : a[i + 1] = ms[i]
        BY <1>4, <2>1, <2>3, Inserted, SMTT(30)
    <2> QED
        BY <2>2, <2>4, Zenon
<1> HIDE DEF l
<1>6. \A i \in 1 .. (l + 1) : /\ i < p => i \in 1 .. l
                              /\ ~(i < p) /\ i # p => i - 1 \in 1 .. l /\ i - 1 >= p
    BY <1>1, <1>3
<1>7. \A i \in 1 .. (l + 1) : Scored(a[i])
    BY <1>2, <1>5, <1>6, Zenon
<1>8. ASSUME NEW i \in 1 .. (l + 1), NEW j \in 1 .. (l + 1), i < j
      PROVE  ~Precedes(a[j], a[i])
    <2>1. CASE j < p
        <3>1. i < p /\ ~(j < i)
            BY <1>3, <1>8, <2>1
        <3> QED
            BY <1>2, <1>5, <1>6, <1>8, <2>1, <3>1, Zenon
    <2>2. CASE j = p
        <3>1. i < p /\ ~(j < p)
            BY <1>3, <1>8, <2>2
        <3> QED
            BY <1>3, <1>5, <1>6, <2>2, <3>1, Zenon
    <2>3. CASE ~(j < p) /\ j # p
        <3>1. a[j] = ms[j - 1] /\ j - 1 \in 1 .. l /\ j - 1 >= p
            BY <1>5, <1>6, <2>3, Zenon
        <3>2. CASE i < p
            <4>1. i < j - 1
                BY <1>1, <1>3, <2>3, <3>2
            <4> QED
                BY <1>2, <1>5, <1>6, <3>1, <3>2, <4>1, Zenon
        <3>3. CASE i = p
            <4>1. a[i] = n
                BY <1>1, <1>3, <1>5, <3>3
            <4> QED
                BY <1>3, <3>1, <4>1, Zenon
        <3>4. CASE ~(i < p) /\ i # p
            <4>1. i - 1 < j - 1
                BY <1>8
            <4> QED
                BY <1>2, <1>5, <1>6, <3>1, <3>4, <4>1, Zenon
        <3> QED
            BY <3>2, <3>3, <3>4
    <2> QED
        BY <2>1, <2>2, <2>3
<1>9. ASSUME NEW m \in S
      PROVE  \E i \in 1 .. (l + 1) : a[i] = m
    <2>1. CASE m = n
        <3>1. p \in 1 .. (l + 1) /\ ~(p < p)
            BY <1>1, <1>3
        <3> QED
            BY <1>5, <2>1, <3>1, Zenon
    <2>2. CASE m # n
        <3>1. m \in ToSet(ms)
            BY <2>2, Zenon DEF S
        <3>2. PICK j \in 1 .. l : ms[j] = m
            BY <1>1, <3>1, Zenon DEF ToSet
        <3>3. CASE j < p
            <4>1. j \in 1 .. (l + 1)
                BY <1>1
            <4> QED
                BY <1>5, <3>2, <3>3, <4>1, Zenon
        <3>4. CASE ~(j < p)
            <4>1. j + 1 \in 1 .. (l + 1) /\ j \in p .. l
                BY <1>1, <1>3, <3>4
            <4> QED
                BY <1>5, <3>2, <4>1, Zenon
        <3> QED
            BY <3>3, <3>4
    <2> QED
        BY <2>1, <2>2
<1>10. ASSUME l > 0
       PROVE  ms[l] \in {a[l], a[l + 1]}
    <2>1. CASE l < p
        <3>1. l \in 1 .. (l + 1)
            BY <1>1, <1>10
        <3> QED
            BY <1>5, <2>1, <3>1, Zenon
    <2>2. CASE ~(l < p)
        <3>1. l \in p .. l
            BY <1>1, <1>3, <2>2
        <3>3. ms[l] = a[l + 1]
            BY <1>5, <3>1, Zenon
        <3> QED
            BY <3>3, Zenon
    <2> QED
        BY <2>1, <2>2
<1> QED
    BY <1>5, <1>7, <1>8, <1>9, <1>10, Zenon DEF l, S

\* What the array holds after a match has been stored: the matches that were
\* there and the new one, in order, except for the last of them if there is no
\* room for it.
LEMMA StoredRight ==
    ASSUME Ranked(cmm), Len(cmm) <= CMM_MAX - 1, NEW n, Scored(n), NEW new, new = Stored(n)
    PROVE  /\ Ranked(new)
           /\ Len(new) = IF Len(cmm) < CMM_MAX - 1 THEN Len(cmm) + 1 ELSE CMM_MAX - 1
           /\ Len(cmm) < CMM_MAX - 1 => ToSet(cmm) \cup {n} \subseteq ToSet(new)
           /\ \A m \in ToSet(cmm) \cup {n} : m \in ToSet(new) \/ ~Precedes(m, Last(new))
           /\ Len(cmm) = CMM_MAX - 1 =>
                \A m : Scored(m) /\ ~Precedes(m, Last(cmm)) => ~Precedes(m, Last(new))
<1> DEFINE l == Len(cmm)
           S == ToSet(cmm) \cup {n}
           a == InsertAt(cmm, Place(cmm, n), n)
           c == CMM_MAX - 1
           q == IF l < c THEN l + 1 ELSE c
<1>1. l \in Nat /\ c \in Nat /\ c > 0 /\ l <= c
    <2>1. l \in Nat
        BY DEF Ranked
    <2> QED
        BY <2>1, LimitsAssumption
<1>2. /\ a \in Seq(S) /\ Len(a) = l + 1
      /\ \A i \in 1 .. (l + 1) : Scored(a[i])
      /\ \A i, j \in 1 .. (l + 1) : i < j => ~Precedes(a[j], a[i])
      /\ \A m \in S : \E i \in 1 .. (l + 1) : a[i] = m
      /\ l > 0 => cmm[l] \in {a[l], a[l + 1]}
    BY PlacedRight, Zenon
<1>3. new = SubSeq(a, 1, Min({Len(a), c}))
    BY Zenon DEF Stored, Place
<1> HIDE DEF a, S, l, c
<1>4. Min({Len(a), c}) = q /\ q \in 0 .. Len(a) /\ q \in Nat /\ q > 0 /\ q <= l + 1
    <2>1. Min({l + 1, c}) = IF l + 1 <= c THEN l + 1 ELSE c
        <3>1. l + 1 \in Nat
            BY <1>1
        <3> QED
            BY <1>1, <3>1, Smaller, Zenon
    <2>2. (IF l + 1 <= c THEN l + 1 ELSE c) = q /\ q \in 0 .. (l + 1) /\ q \in Nat /\ q > 0 /\ q <= l + 1
        BY <1>1
    <2> QED
        BY <1>2, <2>1, <2>2, Zenon
<1>5. (l < c => q = l + 1) /\ (~(l < c) => q = l)
    BY <1>1
<1> HIDE DEF q
<1>6. new \in Seq(S) /\ Len(new) = q /\ \A i \in 1 .. q : new[i] = a[i]
    <2>1. new = SubSeq(a, 1, q)
        BY <1>3, <1>4, Zenon
    <2> QED
        BY <1>2, <1>4, <2>1, Shortened
<1>7. DOMAIN new = 1 .. q /\ new \in Seq(ToSet(new))
    BY <1>6 DEF ToSet
<1>8. \A i \in 1 .. q : i \in 1 .. (l + 1)
    BY <1>1, <1>4
<1>9. Ranked(new)
    BY <1>2, <1>6, <1>7, <1>8, Zenon DEF Ranked
<1>10. \A i \in 1 .. q : a[i] \in ToSet(new)
    BY <1>6, <1>7, Zenon DEF ToSet
<1>11. Last(new) = a[q]
    <2>1. q \in 1 .. q
        BY <1>4
    <2> QED
        BY <1>6, <2>1, Zenon DEF Last
<1>12. ASSUME l < c
       PROVE  S \subseteq ToSet(new)
    BY <1>2, <1>5, <1>10, <1>12, Zenon
<1>13. ASSUME ~(l < c)
       PROVE  q \in 1 .. (l + 1) /\ l + 1 \in 1 .. (l + 1) /\ q < l + 1 /\ q = l /\ l > 0
                /\ \A i \in 1 .. (l + 1) : i # l + 1 => i \in 1 .. q
    BY <1>1, <1>4, <1>5, <1>13
<1>14. ASSUME NEW m \in S
       PROVE  m \in ToSet(new) \/ ~Precedes(m, Last(new))
    <2>1. CASE l < c
        BY <1>12, <2>1, Zenon
    <2>2. CASE ~(l < c)
        <3>1. PICK i \in 1 .. (l + 1) : a[i] = m
            BY <1>2, Zenon
        <3>2. CASE i = l + 1
            BY <1>2, <1>11, <1>13, <2>2, <3>1, <3>2, Zenon
        <3>3. CASE i # l + 1
            BY <1>10, <1>13, <2>2, <3>1, <3>3, Zenon
        <3> QED
            BY <3>2, <3>3
    <2> QED
        BY <2>1, <2>2
<1>15. ASSUME l = c, NEW m, Scored(m), ~Precedes(m, Last(cmm))
       PROVE  ~Precedes(m, Last(new))
    <2>1. ~(l < c)
        BY <1>1, <1>15
    <2>2. ~Precedes(m, cmm[l])
        BY <1>15, Zenon DEF Last, l
    <2>3. cmm[l] \in {a[l], a[l + 1]} /\ q = l
        BY <1>2, <1>13, <2>1, Zenon
    <2>4. CASE cmm[l] = a[l]
        BY <1>11, <2>2, <2>3, <2>4, Zenon
    <2>5. CASE cmm[l] = a[l + 1]
        <3>1. ~Precedes(a[l + 1], a[q]) /\ Scored(a[q]) /\ Scored(a[l + 1])
            BY <1>2, <1>13, <2>1, Zenon
        <3> QED
            BY <1>11, <1>15, <2>2, <2>5, <3>1, WeakOrder, Zenon
    <2> QED
        BY <2>3, <2>4, <2>5, Zenon
<1>16. Len(new) = IF l < c THEN l + 1 ELSE c
    BY <1>6, Zenon DEF q
<1> QED
    BY <1>9, <1>12, <1>14, <1>15, <1>16, Zenon DEF l, S, c
-----------------------------------------------------------------------------
(* Sums and selections                                                     *)

\* Subsets of 1 .. n get smaller when an element is taken out.
LEMMA TakenOut ==
    ASSUME NEW n \in Nat, NEW s \in SUBSET (1 .. n)
    PROVE  /\ Cardinality(s) \in Nat /\ Cardinality(s) <= n
           /\ s # {} => LET x == CHOOSE x \in s : TRUE
                        IN  /\ x \in 1 .. n /\ s \ {x} \in SUBSET (1 .. n)
                            /\ Cardinality(s \ {x}) < Cardinality(s)
<1>1. IsFiniteSet(1 .. n) /\ Cardinality(1 .. n) = n
    <2>1. 0 \in Int /\ 1 \in Int /\ n \in Int
        OBVIOUS
    <2>2. Cardinality(1 .. n) = IF 1 > n THEN 0 ELSE n - 1 + 1
        BY <2>1, FS_Interval
    <2>3. (IF 1 > n THEN 0 ELSE n - 1 + 1) = n
        OBVIOUS
    <2> QED
        BY <2>1, <2>2, <2>3, FS_Interval
<1>2. IsFiniteSet(s) /\ Cardinality(s) <= Cardinality(1 .. n)
    BY <1>1, FS_Subset
<1>3. Cardinality(s) \in Nat
    BY <1>2, FS_CardinalityType
<1>4. ASSUME s # {}, NEW x, x = CHOOSE y \in s : TRUE
      PROVE  x \in 1 .. n /\ s \ {x} \in SUBSET (1 .. n) /\ Cardinality(s \ {x}) < Cardinality(s)
    <2>1. x \in s
        BY <1>4, Zenon
    <2>2. Cardinality(s \ {x}) = Cardinality(s) - 1
        BY <1>2, <2>1, FS_RemoveElement
    <2>3. Cardinality(s) - 1 < Cardinality(s)
        BY <1>3
    <2> QED
        BY <2>1, <2>2, <2>3
<1> QED
    BY <1>1, <1>2, <1>3, <1>4, Zenon

\* The element that the sums of the library take next.
OneOf(s) == CHOOSE x \in s : TRUE

\* How a sum over T is defined, and what follows of it.
Summing(T, g, h) == h = [s \in SUBSET T |-> IF s = {} THEN 0 ELSE g[OneOf(s)] + h[s \ {OneOf(s)}]]

\* The sums of the parts of T.
SumTable(T, g) == CHOOSE h : Summing(T, g, h)

\* The things summed over are numbered.
Bounded(T) == \E n \in Nat : T \in SUBSET (1 .. n)

\* Every part has an integer for its sum, and one thing less a lesser part.
SumsUp(T, g) ==
    \A s \in SUBSET T :
        /\ SumTable(T, g)[s] \in Int
        /\ s = {} => SumTable(T, g)[s] = 0
        /\ s # {} => /\ OneOf(s) \in s /\ s \ {OneOf(s)} \in SUBSET T
                     /\ SumTable(T, g)[s] = g[OneOf(s)] + SumTable(T, g)[s \ {OneOf(s)}]

\* A sum over numbered things has a value for every part of them.
LEMMA SumValues ==
    ASSUME NEW T, Bounded(T), NEW g \in [T -> Int]
    PROVE  SumsUp(T, g)
<1> PICK n \in Nat : T \in SUBSET (1 .. n)
    BY Zenon DEF Bounded
<1> DEFINE h == SumTable(T, g)
           D == SUBSET T
           c(s) == OneOf(s)
           mu == [s \in D |-> Cardinality(s)]
           B(f, s) == IF s = {} THEN 0 ELSE g[c(s)] + f[s \ {c(s)}]
           E == [s \in D |-> [f \in [D -> Int] |-> B(f, s)]]
           Eq(f) == Summing(T, g, f)
<1>1. mu \in [D -> Nat] /\ \A s \in D : mu[s] = Cardinality(s) /\ mu[s] <= n
    <2>1. \A s \in D : Cardinality(s) \in Nat /\ Cardinality(s) <= n
        BY TakenOut, Zenon
    <2> QED
        BY <2>1, Zenon
<1>2. \A s \in D : s # {} => c(s) \in s /\ c(s) \in T /\ s \ {c(s)} \in D /\ Cardinality(s \ {c(s)}) < Cardinality(s)
    <2>1. \A s \in D : s # {} => c(s) \in s
        BY Zenon DEF OneOf
    <2>2. \A s \in D : s # {} => Cardinality(s \ {c(s)}) < Cardinality(s)
        BY TakenOut, Zenon DEF OneOf
    <2> HIDE DEF c
    <2>3. \A s \in D : \A x \in s : x \in T /\ s \ {x} \in D
        BY Zenon
    <2> QED
        BY <2>1, <2>2, <2>3, Zenon
<1>3. \A f : Eq(f) <=> f = [s \in D |-> B(f, s)]
    BY Zenon DEF Summing
<1> HIDE DEF c, D, mu, Eq
<1>4. \A s \in D : \A f \in [D -> Int] : B(f, s) \in Int
    <2>1. \A s \in D : \A f \in [D -> Int] : s # {} => g[c(s)] \in Int /\ f[s \ {c(s)}] \in Int
        BY <1>2, Zenon
    <2>2. \A x, y \in Int : x + y \in Int
        OBVIOUS
    <2>3. 0 \in Int
        OBVIOUS
    <2> QED
        BY <2>1, <2>2, <2>3, Zenon
<1>5. \A s \in D : \A f, e \in [D -> Int] :
        (\A y \in D : mu[y] < mu[s] => f[y] = e[y]) => B(f, s) = B(e, s)
    BY <1>1, <1>2, Zenon
<1> HIDE DEF B
<1>6. E \in [D -> [[D -> Int] -> Int]] /\ \A s \in D : \A f \in [D -> Int] : E[s][f] = B(f, s)
    BY <1>4, Zenon
<1> HIDE DEF E
<1>7. Decreasing(D, Int, 0, mu, n, E)
    <2>1. \A s \in D : \A f, e \in [D -> Int] :
            (\A y \in D : mu[y] < mu[s] => f[y] = e[y]) => E[s][f] = E[s][e]
        <3> SUFFICES ASSUME NEW s \in D, NEW f \in [D -> Int], NEW e \in [D -> Int],
                            \A y \in D : mu[y] < mu[s] => f[y] = e[y]
                     PROVE  E[s][f] = E[s][e]
            BY Zenon
        <3>1. E[s][f] = B(f, s) /\ E[s][e] = B(e, s)
            BY <1>6, Zenon
        <3>2. B(f, s) = B(e, s)
            BY <1>5, Zenon
        <3> QED
            BY <3>1, <3>2, Zenon
    <2>2. 0 \in Int
        OBVIOUS
    <2> QED
        BY <1>1, <1>6, <2>1, <2>2, Zenon DEF Decreasing
<1>8. PICK f \in [D -> Int] : \A s \in D : f[s] = E[s][f]
    BY <1>7, MeasureExists
<1>9. Eq(f)
    <2>1. \A s \in D : f[s] = B(f, s)
        BY <1>6, <1>8, Zenon
    <2>2. f = [s \in D |-> f[s]]
        BY <1>8, Zenon
    <2>3. f = [s \in D |-> B(f, s)]
        BY <2>1, <2>2, Zenon
    <2> QED
        BY <1>3, <2>3, Zenon
<1>10. Eq(h)
    <2>1. h = CHOOSE z : Eq(z)
        BY Zenon DEF Eq, SumTable
    <2> HIDE DEF h
    <2> QED
        BY <1>9, <2>1, Zenon
<1> HIDE DEF h
<1>11. \A s \in D : h[s] = B(h, s)
    <2> DEFINE w == [s \in D |-> B(h, s)]
    <2>1. h = w
        BY <1>3, <1>10, Zenon
    <2>2. \A s \in D : w[s] = B(h, s)
        BY Zenon
    <2> HIDE DEF w
    <2> QED
        BY <2>1, <2>2, Zenon
<1> DEFINE Q == {s \in D : h[s] \in Int}
<1>12. ASSUME NEW s \in D, \A y \in D : mu[y] < mu[s] => y \in Q
       PROVE  s \in Q
    <2>1. CASE s = {}
        <3>1. h[s] = 0
            BY <1>11, <2>1, Zenon DEF B
        <3>2. 0 \in Int
            OBVIOUS
        <3> QED
            BY <3>1, <3>2, Zenon
    <2>2. CASE s # {}
        <3>1. s \ {c(s)} \in Q /\ g[c(s)] \in Int
            <4> HIDE DEF Q
            <4> QED
                BY <1>1, <1>2, <1>12, <2>2, Zenon
        <3>2. h[s] = g[c(s)] + h[s \ {c(s)}] /\ h[s \ {c(s)}] \in Int
            BY <1>11, <2>2, <3>1, Zenon DEF B
        <3>3. \A x, y \in Int : x + y \in Int
            OBVIOUS
        <3> QED
            BY <3>1, <3>2, <3>3, Zenon
    <2> QED
        BY <2>1, <2>2
<1>13. \A s \in D : s \in Q
    <2> HIDE DEF Q
    <2> QED
        BY <1>1, <1>12, MeasureInduction
<1>14. \A s \in D : /\ s = {} => h[s] = 0
                    /\ s # {} => h[s] = g[c(s)] + h[s \ {c(s)}]
    BY <1>11, Zenon DEF B
<1> QED
    BY <1>2, <1>13, <1>14, Zenon DEF D, c, h, SumsUp

\* The sum of the library is that of all.
LEMMA SumByValues ==
    ASSUME NEW n \in Nat, NEW g \in [1 .. n -> Int]
    PROVE  SumFunction(g) = SumTable(1 .. n, g)[1 .. n]
<1>1. DOMAIN g = 1 .. n
    OBVIOUS
<1> QED
    BY <1>1, Zenon DEF SumFunction, SumFunctionOnSet, FoldFunctionOnSet, MapThenFoldSet, SumTable, Summing, OneOf

\* The sum of integers is one.
LEMMA SumIn ==
    ASSUME NEW n \in Nat, NEW g \in [1 .. n -> Int]
    PROVE  SumFunction(g) \in Int
<1>1. 1 .. n \in SUBSET (1 .. n)
    BY Zenon
<1>2. SumsUp(1 .. n, g)
    BY <1>1, SumValues, Zenon DEF Bounded
<1> QED
    BY <1>1, <1>2, SumByValues, Zenon DEF SumsUp

\* A sum of numbers that are elements.
LEMMA SumSetIn ==
    ASSUME NEW n \in Nat, NEW T \in SUBSET (1 .. n)
    PROVE  SumSet(T) \in Int
<1> DEFINE g == [x \in T |-> x]
           Eq(f) == Summing(T, g, f)
           Own(f) == f = [s \in SUBSET T |-> IF s = {} THEN 0 ELSE OneOf(s) + f[s \ {OneOf(s)}]]
<1>1. SumSet(T) = (CHOOSE f : Own(f))[T]
    BY Zenon DEF SumSet, FoldSet, MapThenFoldSet, OneOf
<1>2. \A s \in SUBSET T : s # {} => g[OneOf(s)] = OneOf(s)
    BY Zenon DEF OneOf
<1>3. g \in [T -> Int]
    OBVIOUS
<1> HIDE DEF g
<1>4. \A f : Own(f) <=> Eq(f)
    <2> SUFFICES ASSUME NEW f PROVE Own(f) <=> Eq(f)
        BY Zenon
    <2> DEFINE u == [s \in SUBSET T |-> IF s = {} THEN 0 ELSE OneOf(s) + f[s \ {OneOf(s)}]]
               v == [s \in SUBSET T |-> IF s = {} THEN 0 ELSE g[OneOf(s)] + f[s \ {OneOf(s)}]]
    <2>1. u = v
        BY <1>2, Zenon
    <2>2. (Own(f) <=> f = u) /\ (Eq(f) <=> f = v)
        BY Zenon DEF Summing
    <2> HIDE DEF u, v
    <2> QED
        BY <2>1, <2>2, Zenon
<1> HIDE DEF Own, Eq
<1>5. (CHOOSE f : Own(f)) = (CHOOSE f : Eq(f))
    BY <1>4
<1>6. (CHOOSE f : Eq(f))[T] \in Int
    <2>1. SumsUp(T, g)
        BY <1>3, SumValues, Zenon DEF Bounded
    <2> QED
        BY <2>1, Zenon DEF Eq, SumTable, SumsUp
<1> QED
    BY <1>1, <1>5, <1>6, Zenon

\* A sum of which one number changes.
LEMMA SumChanged ==
    ASSUME NEW n \in Nat, NEW f \in [1 .. n -> Int], NEW g \in [1 .. n -> Int], NEW t \in 1 .. n,
           \A u \in 1 .. n : u # t => f[u] = g[u]
    PROVE  SumFunction(g) = SumFunction(f) - f[t] + g[t]
<1> DEFINE D == SUBSET (1 .. n)
           F == SumTable(1 .. n, f)
           G == SumTable(1 .. n, g)
           Q == {s \in D : IF t \in s THEN G[s] = F[s] - f[t] + g[t] ELSE G[s] = F[s]}
           mu == [s \in D |-> Cardinality(s)]
<1>1. 1 .. n \in D
    BY Zenon
<1> SumsUp(1 .. n, f) /\ SumsUp(1 .. n, g)
    BY <1>1, SumValues, Zenon DEF Bounded
<1>2. \A s \in D :
              /\ F[s] \in Int
              /\ s = {} => F[s] = 0
              /\ s # {} => OneOf(s) \in s /\ s \ {OneOf(s)} \in D /\ F[s] = f[OneOf(s)] + F[s \ {OneOf(s)}]
    BY Zenon DEF SumsUp
<1>3. \A s \in D :
              /\ G[s] \in Int
              /\ s = {} => G[s] = 0
              /\ s # {} => G[s] = g[OneOf(s)] + G[s \ {OneOf(s)}]
    BY Zenon DEF SumsUp
<1>4. SumFunction(f) = F[1 .. n] /\ SumFunction(g) = G[1 .. n]
    BY SumByValues, Zenon
<1>5. mu \in [D -> Nat] /\ \A s \in D : s # {} => mu[s \ {OneOf(s)}] < mu[s]
    <2>1. \A s \in D : Cardinality(s) \in Nat
        BY TakenOut, Zenon
    <2>2. \A s \in D : s # {} => s \ {OneOf(s)} \in D /\ Cardinality(s \ {OneOf(s)}) < Cardinality(s)
        BY TakenOut, Zenon DEF OneOf
    <2> QED
        BY <2>1, <2>2, Zenon
<1> HIDE DEF F, G, mu
<1>6. ASSUME NEW s \in D, \A y \in D : mu[y] < mu[s] => y \in Q
      PROVE  s \in Q
    <2>1. CASE s = {}
        <3>1. t \notin s /\ G[s] = F[s]
            BY <1>2, <1>3, <2>1, Zenon
        <3> QED
            BY <3>1, Zenon
    <2>2. CASE s # {}
        <3> DEFINE x == OneOf(s)
                   r == s \ {x}
        <3>1. x \in s /\ r \in D /\ F[s] = f[x] + F[r] /\ G[s] = g[x] + G[r]
            BY <1>2, <1>3, <2>2, Zenon
        <3>2. F[s] \in Int /\ G[s] \in Int /\ F[r] \in Int /\ G[r] \in Int
            BY <1>2, <1>3, <3>1, Zenon
        <3>3. r \in Q
            <4> HIDE DEF Q
            <4> QED
                BY <1>5, <1>6, <2>2, <3>1, Zenon
        <3>4. f[x] \in Int /\ g[x] \in Int /\ f[t] \in Int /\ g[t] \in Int /\ (x # t => f[x] = g[x])
            BY <3>1, Zenon
        <3> HIDE DEF x
        <3>5. CASE x = t
            <4>1. t \notin r /\ t \in s
                BY <3>1, <3>5, Zenon
            <4>2. G[r] = F[r]
                BY <3>3, <4>1, Zenon
            <4> HIDE DEF r
            <4>3. G[s] = F[s] - f[t] + g[t]
                BY <3>1, <3>2, <3>4, <3>5, <4>2
            <4> QED
                BY <4>1, <4>3, Zenon
        <3>6. CASE x # t /\ t \in s
            <4>1. t \in r
                BY <3>6, Zenon
            <4>2. G[r] = F[r] - f[t] + g[t]
                BY <3>3, <4>1, Zenon
            <4> HIDE DEF r
            <4>3. G[s] = F[s] - f[t] + g[t]
                <5>1. f[x] + (F[r] - f[t] + g[t]) = (f[x] + F[r]) - f[t] + g[t]
                    BY <3>2, <3>4, SMTT(30)
                <5>2. g[x] = f[x]
                    BY <3>4, <3>6, Zenon
                <5>3. G[s] = f[x] + G[r]
                    BY <3>1, <5>2, Zenon
                <5>4. G[s] = f[x] + (F[r] - f[t] + g[t])
                    BY <4>2, <5>3, Zenon
                <5>5. G[s] = (f[x] + F[r]) - f[t] + g[t]
                    BY <5>1, <5>4, Zenon
                <5>6. F[s] = f[x] + F[r]
                    BY <3>1, Zenon
                <5> QED
                    BY <5>5, <5>6, Zenon
            <4> QED
                BY <3>6, <4>3, Zenon
        <3>7. CASE x # t /\ t \notin s
            <4>1. t \notin r
                BY <3>7, Zenon
            <4>2. G[r] = F[r]
                BY <3>3, <4>1, Zenon
            <4> HIDE DEF r
            <4>3. G[s] = F[s]
                BY <3>1, <3>2, <3>4, <3>7, <4>2
            <4> QED
                BY <3>7, <4>3, Zenon
        <3> QED
            BY <3>5, <3>6, <3>7, Zenon
    <2> QED
        BY <2>1, <2>2, Zenon
<1>7. \A s \in D : s \in Q
    <2> HIDE DEF Q, D
    <2> QED
        BY <1>5, <1>6, MeasureInduction
<1>8. G[1 .. n] = F[1 .. n] - f[t] + g[t]
    BY <1>1, <1>7, Zenon
<1> QED
    BY <1>4, <1>8, Zenon

\* Nothing is summed.
LEMMA SumOfZeros ==
    ASSUME NEW n \in Nat, NEW f, f = [x \in 1 .. n |-> 0]
    PROVE  SumFunction(f) = 0
<1> DEFINE D == SUBSET (1 .. n)
           F == SumTable(1 .. n, f)
           Q == {s \in D : F[s] = 0}
           mu == [s \in D |-> Cardinality(s)]
<1>1. 1 .. n \in D /\ f \in [1 .. n -> Int] /\ \A x \in 1 .. n : f[x] = 0
    OBVIOUS
<1> SumsUp(1 .. n, f)
    BY <1>1, SumValues, Zenon DEF Bounded
<1>2. \A s \in D :
              /\ F[s] \in Int
              /\ s = {} => F[s] = 0
              /\ s # {} => OneOf(s) \in s /\ s \ {OneOf(s)} \in D /\ F[s] = f[OneOf(s)] + F[s \ {OneOf(s)}]
    BY Zenon DEF SumsUp
<1>3. SumFunction(f) = F[1 .. n]
    BY <1>1, SumByValues, Zenon
<1>4. mu \in [D -> Nat] /\ \A s \in D : s # {} => mu[s \ {OneOf(s)}] < mu[s]
    <2>1. \A s \in D : Cardinality(s) \in Nat
        BY TakenOut, Zenon
    <2>2. \A s \in D : s # {} => s \ {OneOf(s)} \in D /\ Cardinality(s \ {OneOf(s)}) < Cardinality(s)
        BY TakenOut, Zenon DEF OneOf
    <2> QED
        BY <2>1, <2>2, Zenon
<1> HIDE DEF F, mu
<1>5. ASSUME NEW s \in D, \A y \in D : mu[y] < mu[s] => y \in Q
      PROVE  s \in Q
    <2>1. CASE s = {}
        BY <1>2, <2>1, Zenon
    <2>2. CASE s # {}
        <3> DEFINE x == OneOf(s)
        <3>1. x \in 1 .. n /\ s \ {x} \in D /\ F[s] = f[x] + F[s \ {x}]
            BY <1>2, <2>2, Zenon
        <3>2. s \ {x} \in Q
            <4> HIDE DEF Q
            <4> QED
                BY <1>4, <1>5, <2>2, <3>1, Zenon
        <3>3. F[s \ {x}] = 0 /\ f[x] = 0
            BY <1>1, <3>1, <3>2, Zenon
        <3>4. 0 + 0 = 0
            OBVIOUS
        <3> QED
            BY <3>1, <3>3, <3>4, Zenon
    <2> QED
        BY <2>1, <2>2, Zenon
<1>6. \A s \in D : s \in Q
    <2> HIDE DEF Q, D
    <2> QED
        BY <1>4, <1>5, MeasureInduction
<1> QED
    BY <1>1, <1>3, <1>6, Zenon

\* The frames that are matched are frames of the predicate.
LEMMA InOrderIn ==
    ASSUME input \in Inputs, NEW T
    PROVE  InOrder(T) \in Seq(DOMAIN input.frames)
<1> DEFINE n == Len(input.frames)
           S == Seq(1 .. n)
           D == SUBSET (1 .. n)
           Body(x, i) == IF i \in T THEN Append(x, i) ELSE x
           G == [i \in 1 .. n |-> [x \in S |-> Body(x, i)]]
           q == [i \in 1 .. n |-> i]
           Eq(h) == h = [s \in D |-> IF s = {} THEN <<>> ELSE Body(h[s \ {Max(s)}], q[Max(s)])]
<1>1. n \in Nat /\ DOMAIN input.frames = 1 .. n
    <2>1. input.frames \in Seq(ToSet(input.frames))
        BY InputsAssumption, Zenon DEF IsInput
    <2> QED
        BY <2>1
<1>2. \A i \in 1 .. n : \A x \in S : Body(x, i) \in S
    <2>1. \A X : \A x \in Seq(X) : \A i \in X : Append(x, i) \in Seq(X)
        OBVIOUS
    <2> QED
        BY <2>1, Zenon
<1>3. <<>> \in S
    OBVIOUS
<1> HIDE DEF n, S, Body
<1>4. G \in [1 .. n -> [S -> S]] /\ \A i \in 1 .. n : \A x \in S : G[i][x] = Body(x, i)
    BY <1>2, Zenon
<1>5. \A s \in D : s # {} => s \ {Max(s)} \in D /\ Max(s) \in 1 .. n
    BY <1>1, ReachFacts, Zenon
<1>6. \A i \in 1 .. n : q[i] = i
    BY Zenon
<1> HIDE DEF G
<1>7. PICK f : Folds(S, n, <<>>, G, f)
    BY <1>1, <1>3, <1>4, FoldExists, Zenon
<1>8. f \in [D -> S] /\ \A s \in D : f[s] = IF s = {} THEN <<>> ELSE G[Max(s)][f[s \ {Max(s)}]]
    BY <1>7, Zenon DEF Folds
<1> HIDE DEF D, q
<1>9. Eq(f)
    <2>1. ASSUME NEW s \in D
          PROVE  f[s] = IF s = {} THEN <<>> ELSE Body(f[s \ {Max(s)}], q[Max(s)])
        BY <1>4, <1>5, <1>6, <1>8, Zenon
    <2>2. f = [s \in D |-> f[s]]
        BY <1>8, Zenon
    <2> QED
        BY <2>1, <2>2, Zenon
<1> DEFINE h == CHOOSE h : Eq(h)
<1>10. InOrder(T) = h[1 .. n]
    <2>1. q = [i \in DOMAIN input.frames |-> i] /\ DOMAIN q = 1 .. n
        BY <1>1, Zenon DEF q
    <2>2. InOrder(T) = FoldLeft(LAMBDA acc, i : Body(acc, i), <<>>, q)
        BY <2>1, Zenon DEF InOrder, Body
    <2> QED
        BY <2>1, <2>2, Zenon DEF FoldLeft, MapThenFoldSet, D
<1>11. Eq(h)
    <2> HIDE DEF Eq
    <2> QED
        BY <1>9, Zenon
<1> HIDE DEF h
<1>12. ASSUME NEW s \in D
       PROVE  h[s] = IF s = {} THEN <<>> ELSE Body(h[s \ {Max(s)}], q[Max(s)])
    <2> DEFINE w == [y \in D |-> IF y = {} THEN <<>> ELSE Body(h[y \ {Max(y)}], q[Max(y)])]
    <2>1. h = w
        BY <1>11, Zenon
    <2>2. w[s] = IF s = {} THEN <<>> ELSE Body(h[s \ {Max(s)}], q[Max(s)])
        BY Zenon
    <2> QED
        BY <2>1, <2>2, Zenon
<1>13. h[{}] \in S
    <2>1. {} \in D
        BY DEF D
    <2> QED
        BY <1>3, <1>12, <2>1, Zenon
<1>14. ASSUME NEW s \in D, s # {}, h[s \ {Max(s)}] \in S
       PROVE  h[s] \in S
    <2>1. Max(s) \in 1 .. n /\ q[Max(s)] = Max(s)
        BY <1>5, <1>6, <1>14, Zenon
    <2> DEFINE x == h[s \ {Max(s)}]
    <2>2. h[s] = Body(x, q[Max(s)])
        BY <1>12, <1>14, Zenon
    <2>3. x \in S
        BY <1>14, Zenon
    <2> HIDE DEF x
    <2>4. Body(x, q[Max(s)]) \in S
        BY <1>2, <2>1, <2>3, Zenon
    <2> QED
        BY <2>2, <2>4, Zenon
<1>15. h[1 .. n] \in S
    BY <1>1, <1>13, <1>14, FoldStays, Zenon DEF D
<1> QED
    BY <1>1, <1>10, <1>15, Zenon DEF S

\* So there is at least one.
LEMMA CandidatesIn ==
    ASSUME input \in Inputs
    PROVE  Candidates \in Seq(DOMAIN input.frames) /\ 1 \in 1 .. Len(Candidates)
<1> DEFINE n == Len(input.frames)
           A == DOMAIN input.frames
           w == InOrder({i \in A : Wanted(input.frames[i])})
           u == {i \in A : input.frames[i].sum}
<1>1. n \in Nat /\ A = 1 .. n /\ n > 0
    <2>1. input.frames \in Seq(ToSet(input.frames)) \ {<<>>}
        BY InputsAssumption, Zenon DEF IsInput
    <2> QED
        BY <2>1
<1>2. w \in Seq(A)
    BY InOrderIn, Zenon
<1>3. u # {} => Min(u) \in A
    <2>1. ASSUME u # {}
          PROVE  \E x \in u : \A y \in u : x <= y
        <3>1. u \subseteq Nat
            BY <1>1
        <3> HIDE DEF u
        <3> QED
            BY <2>1, <3>1, LeastNat
    <2> QED
        BY <2>1, Zenon DEF Min
<1> HIDE DEF n, A, u, w
<1>4. \A i \in A : <<i>> \in Seq(A) /\ 1 \in 1 .. Len(<<i>>)
    OBVIOUS
<1>5. CASE (input.noun \/ have_real_component) /\ w # <<>>
    <2>1. Candidates = w
        BY <1>5, Zenon DEF Candidates, w, A
    <2>2. \A X : \A x \in Seq(X) : x # <<>> => 1 \in 1 .. Len(x)
        OBVIOUS
    <2> QED
        BY <1>2, <1>5, <2>1, <2>2, Zenon DEF A
<1>6. CASE (input.noun \/ have_real_component) /\ w = <<>>
    <2> DEFINE q == [i \in A |-> i]
    <2>1. Candidates = q
        BY <1>6, Zenon DEF Candidates, w, A
    <2>2. q \in Seq(A) /\ 1 \in 1 .. Len(q)
        BY <1>1
    <2> QED
        BY <2>1, <2>2, Zenon DEF A
<1>7. CASE ~(input.noun \/ have_real_component) /\ n > 1 /\ u # {}
    <2>1. Candidates = <<Min(u)>>
        BY <1>7, Zenon DEF Candidates, u, A, n
    <2> QED
        BY <1>3, <1>4, <1>7, <2>1, Zenon DEF A
<1>8. CASE ~(input.noun \/ have_real_component) /\ ~(n > 1 /\ u # {})
    <2>1. Candidates = <<1>>
        BY <1>8, Zenon DEF Candidates, u, A, n
    <2>2. 1 \in A
        BY <1>1
    <2> QED
        BY <1>4, <2>1, <2>2, Zenon DEF A
<1> QED
    BY <1>5, <1>6, <1>7, <1>8, Zenon
-----------------------------------------------------------------------------
(* Activations of assign_list                                              *)

\* What is known of the frame in turn.
LEMMA FrameFacts ==
    ASSUME InFrame
    PROVE  /\ Len(input.elements) \in Nat /\ Elements = 1 .. Len(input.elements)
           /\ Len(Frame.slots) \in Nat /\ Slots = 1 .. Len(Frame.slots)
           /\ Frame.score \in [Elements -> [Slots -> Int]]
           /\ Frame.nil \in [Elements -> Int] /\ Frame.empty \in [Slots -> Int]
           /\ \A t \in Elements : Len(input.elements[t].pp) \in Nat \ {0}
           /\ input.closest \in Elements \cup {0}
<1>1. IsInput(input)
    BY InputsAssumption, Zenon DEF InFrame
<1>2. cands[k] \in DOMAIN input.frames
    <2>1. \A X : \A s \in Seq(X) : \A i \in 1 .. Len(s) : s[i] \in X
        OBVIOUS
    <2> QED
        BY <2>1, Zenon DEF InFrame
<1>3. Frame \in ToSet(input.frames)
    BY <1>2, Zenon DEF Frame, ToSet
<1>4. \A X : \A s \in Seq(X) : Len(s) \in Nat /\ DOMAIN s = 1 .. Len(s) /\ (s # <<>> => Len(s) # 0)
    OBVIOUS
<1>5. Len(input.elements) \in Nat /\ Elements = 1 .. Len(input.elements)
    BY <1>1, <1>4, Zenon DEF IsInput, Elements
<1>6. /\ Frame.slots \in Seq(ToSet(Frame.slots))
      /\ Frame.score \in [Elements -> [Slots -> Int]]
      /\ Frame.nil \in [Elements -> Int] /\ Frame.empty \in [Slots -> Int]
    BY <1>1, <1>3, Zenon DEF IsInput, Elements, Slots
<1>7. Len(Frame.slots) \in Nat /\ Slots = 1 .. Len(Frame.slots)
    BY <1>4, <1>6, Zenon DEF Slots
<1>8. ASSUME NEW t \in Elements
      PROVE  Len(input.elements[t].pp) \in Nat \ {0}
    <2>1. input.elements[t].pp \in Seq(ToSet(input.elements[t].pp)) \ {<<>>}
        BY <1>1, Zenon DEF IsInput, Elements
    <2>2. Len(input.elements[t].pp) \in Nat /\ Len(input.elements[t].pp) # 0
        BY <1>4, <2>1, Zenon
    <2> QED
        BY <2>2
<1> QED
    BY <1>1, <1>5, <1>6, <1>7, <1>8, Zenon DEF IsInput, Elements

\* There is an element in turn unless the assignment is complete.
LEMMA TargetIn ==
    ASSUME InFrame, NEW l1 \in Lists1(Elements, Slots)
    PROVE  /\ Target(l1) \in Elements \cup {0}
           /\ Target(l1) = 0 => l1 \in Complete(Elements, Slots)
<1> DEFINE open == {t \in Elements : l1[t] = UNASSIGNED}
           explicit == {t \in open : input.elements[t].explicit}
           S == IF explicit # {} THEN explicit ELSE open
<1>1. CASE open = {}
    <2>1. Target(l1) = 0
        BY <1>1, Zenon DEF Target
    <2>2. \A t \in Elements : l1[t] # UNASSIGNED
        BY <1>1, Zenon
    <2>3. l1 \in Complete(Elements, Slots)
        BY <2>2, Zenon DEF Complete, Lists1
    <2> QED
        BY <2>1, <2>3, Zenon
<1>2. CASE open # {}
    <2>1. Target(l1) = Min(S)
        BY <1>2, Zenon DEF Target
    <2>2. S # {} /\ S \subseteq Elements
        BY <1>2, Zenon
    <2> HIDE DEF S
    <2>3. \A t \in Elements : t \in Nat /\ t # 0
        <3>1. \A n \in Nat : \A t \in 1 .. n : t \in Nat /\ t # 0
            OBVIOUS
        <3> QED
            BY <3>1, FrameFacts, Zenon
    <2>4. S \subseteq Nat
        BY <2>2, <2>3, Zenon
    <2>5. \E x \in S : \A y \in S : x <= y
        BY <2>2, <2>4, LeastNat
    <2>6. Min(S) \in S
        BY <2>5, Zenon DEF Min
    <2> QED
        BY <2>1, <2>2, <2>3, <2>6, Zenon
<1> QED
    BY <1>1, <1>2

\* Trial x is of a slot of the frame.
LEMMA TrialBounds ==
    ASSUME NEW l \in Nat, NEW p \in Nat \ {0}, NEW x \in 1 .. (l * p)
    PROVE  1 + ((x - 1) \div p) \in 1 .. l
<1> DEFINE q == (x - 1) \div p
           r == (x - 1) % p
<1>1. l * p \in Nat /\ x - 1 \in Nat
    OBVIOUS
<1>2. q \in Int /\ r \in 0 .. (p - 1) /\ x - 1 = p * q + r
    BY <1>1
<1> HIDE DEF q, r
<1>3. q >= 0
    <2>1. CASE q < 0
        <3>1. p * q <= -p
            BY <1>2, <2>1
        <3> QED
            BY <1>1, <1>2, <3>1
    <2> QED
        BY <1>2, <2>1
<1>4. q < l
    <2>1. CASE q >= l
        <3>1. p * q >= p * l
            BY <1>2, <2>1
        <3>2. p * l = l * p /\ x - 1 < l * p
            BY <1>1
        <3> QED
            BY <1>1, <1>2, <3>1, <3>2
    <2> QED
        BY <1>2, <2>1
<1>5. 1 + q \in 1 .. l
    BY <1>2, <1>3, <1>4
<1> QED
    BY <1>5, Zenon DEF q

Trial == [available : BOOLEAN, slots : Seq(Slots)]

\* A trial takes a slot of the frame or none.
LEMMA TriedIn ==
    ASSUME InFrame, NEW l1, NEW l2, NEW t \in Elements, NEW acc \in Trial,
           NEW x \in 1 .. (Len(Frame.slots) * Len(input.elements[t].pp))
    PROVE  Tried(l1, l2, t, acc, x) \in Trial
<1> DEFINE s == 1 + ((x - 1) \div Len(input.elements[t].pp))
<1>1. s \in Slots
    BY FrameFacts, TrialBounds, Zenon
<1> HIDE DEF s
<1>2. Append(acc.slots, s) \in Seq(Slots) /\ acc.slots \in Seq(Slots)
    BY <1>1 DEF Trial
<1>3. \A z \in Seq(Slots) : [available |-> TRUE, slots |-> z] \in Trial
    BY DEF Trial
<1>4. \/ Tried(l1, l2, t, acc, x) = acc
      \/ Tried(l1, l2, t, acc, x) = [available |-> TRUE, slots |-> Append(acc.slots, s)]
      \/ Tried(l1, l2, t, acc, x) = [available |-> TRUE, slots |-> acc.slots]
    BY Zenon DEF Tried, s
<1> QED
    BY <1>2, <1>3, <1>4, Zenon

\* The trials for an element.
TrialCount(t) == Len(Frame.slots) * Len(input.elements[t].pp)

\* The trials of an element are numbered.
LEMMA CountIn ==
    ASSUME InFrame, NEW t \in Elements
    PROVE  TrialCount(t) \in Nat
<1>1. \A x \in Nat : \A y \in Nat \ {0} : x * y \in Nat
    OBVIOUS
<1> QED
    BY <1>1, FrameFacts, Zenon DEF TrialCount

\* h holds what is taken after each set of trials.
TakesInTurn(h, l1, l2, t) ==
    \A s \in SUBSET (1 .. TrialCount(t)) :
        /\ s = {} => h[s] = [available |-> FALSE, slots |-> <<>>]
        /\ s # {} => h[s] = Tried(l1, l2, t, h[s \ {Max(s)}], Max(s))

\* The slots taken are found by one trial after another.
LEMMA SlotsTakenFolds ==
    ASSUME InFrame, NEW l1, NEW l2, NEW t \in Elements
    PROVE  \E h : SlotsTaken(l1, l2, t) = h[1 .. TrialCount(t)] /\ TakesInTurn(h, l1, l2, t)
<1> DEFINE n == TrialCount(t)
           S == Trial
           D == SUBSET (1 .. n)
           b == [available |-> FALSE, slots |-> <<>>]
           Body(x, i) == Tried(l1, l2, t, x, i)
           G == [i \in 1 .. n |-> [x \in S |-> Body(x, i)]]
           q == [i \in 1 .. n |-> i]
           Eq(h) == h = [s \in D |-> IF s = {} THEN b ELSE Body(h[s \ {Max(s)}], q[Max(s)])]
<1>1. n \in Nat
    BY CountIn, Zenon
<1>2. \A i \in 1 .. n : \A x \in S : Body(x, i) \in S
    BY TriedIn, Zenon DEF TrialCount
<1>3. b \in S
    BY DEF Trial
<1> HIDE DEF n, S, Body, b
<1>4. G \in [1 .. n -> [S -> S]] /\ \A i \in 1 .. n : \A x \in S : G[i][x] = Body(x, i)
    BY <1>2, Zenon
<1>5. \A s \in D : s # {} => s \ {Max(s)} \in D /\ Max(s) \in 1 .. n
    BY <1>1, ReachFacts, Zenon
<1>6. \A i \in 1 .. n : q[i] = i
    BY Zenon
<1> HIDE DEF G
<1>7. PICK f : Folds(S, n, b, G, f)
    BY <1>1, <1>3, <1>4, FoldExists, Zenon
<1>8. f \in [D -> S] /\ \A s \in D : f[s] = IF s = {} THEN b ELSE G[Max(s)][f[s \ {Max(s)}]]
    BY <1>7, Zenon DEF Folds
<1> HIDE DEF D, q
<1>9. Eq(f)
    <2>1. ASSUME NEW s \in D
          PROVE  f[s] = IF s = {} THEN b ELSE Body(f[s \ {Max(s)}], q[Max(s)])
        BY <1>4, <1>5, <1>6, <1>8, Zenon
    <2>2. f = [s \in D |-> f[s]]
        BY <1>8, Zenon
    <2> QED
        BY <2>1, <2>2, Zenon
<1> DEFINE h == CHOOSE h : Eq(h)
<1>10. SlotsTaken(l1, l2, t) = h[1 .. n]
    <2>1. DOMAIN q = 1 .. n
        BY Zenon DEF q
    <2>2. SlotsTaken(l1, l2, t) = FoldLeft(LAMBDA acc, x : Body(acc, x), b, q)
        BY Zenon DEF SlotsTaken, Body, q, b, n, TrialCount
    <2> QED
        BY <2>1, <2>2, Zenon DEF FoldLeft, MapThenFoldSet, D
<1>11. Eq(h)
    <2> HIDE DEF Eq
    <2> QED
        BY <1>9, Zenon
<1> HIDE DEF h
<1>12. ASSUME NEW s \in D
       PROVE  h[s] = IF s = {} THEN b ELSE Body(h[s \ {Max(s)}], q[Max(s)])
    <2> DEFINE w == [y \in D |-> IF y = {} THEN b ELSE Body(h[y \ {Max(y)}], q[Max(y)])]
    <2>1. h = w
        BY <1>11, Zenon
    <2>2. w[s] = IF s = {} THEN b ELSE Body(h[s \ {Max(s)}], q[Max(s)])
        BY Zenon
    <2> QED
        BY <2>1, <2>2, Zenon
<1>13. \A s \in D : s # {} => h[s] = Tried(l1, l2, t, h[s \ {Max(s)}], Max(s))
    BY <1>5, <1>6, <1>12, Zenon DEF Body
<1>14. \A s \in D : s = {} => h[s] = b
    BY <1>12, Zenon
<1> QED
    BY <1>10, <1>13, <1>14, Zenon DEF TakesInTurn, D, b, n

\* Only slots of the frame are taken.
LEMMA SlotsTakenIn ==
    ASSUME InFrame, NEW l1, NEW l2, NEW t \in Elements
    PROVE  SlotsTaken(l1, l2, t) \in Trial
<1> DEFINE n == TrialCount(t)
           S == Trial
           D == SUBSET (1 .. n)
<1>1. n \in Nat
    BY CountIn, Zenon
<1> PICK h : SlotsTaken(l1, l2, t) = h[1 .. n] /\ TakesInTurn(h, l1, l2, t)
    BY SlotsTakenFolds, Zenon
<1>2. h[{}] \in S
    <2>1. [available |-> FALSE, slots |-> <<>>] \in Trial
        BY DEF Trial
    <2>2. {} \in D
        BY Zenon
    <2> QED
        BY <2>1, <2>2, Zenon DEF TakesInTurn
<1>3. ASSUME NEW s \in D, s # {}, h[s \ {Max(s)}] \in S
      PROVE  h[s] \in S
    <2>1. Max(s) \in 1 .. n
        BY <1>1, <1>3, ReachFacts, Zenon
    <2>2. Tried(l1, l2, t, h[s \ {Max(s)}], Max(s)) \in S
        BY <1>3, <2>1, TriedIn, Zenon DEF TrialCount
    <2> QED
        BY <1>3, <2>2, Zenon DEF TakesInTurn
<1> HIDE DEF n, S
<1>4. h[1 .. n] \in S
    BY <1>1, <1>2, <1>3, FoldStays, Zenon
<1> QED
    BY <1>4, Zenon DEF S

\* A new activation.
LEMMA ActivationIn ==
    ASSUME InFrame, NEW l1 \in Lists1(Elements, Slots), NEW l2 \in Lists2(Elements, Slots), NEW score \in Int
    PROVE  Active(Elements, Slots, Activation(l1, l2, score))
<1> DEFINE t == Target(l1)
           todo == IF t = 0 THEN <<>> ELSE Trials(l1, l2, t)
           T == Slots \cup {NIL_ASSIGNED}
<1>1. t \in Elements \cup {0}
    BY TargetIn, Zenon
<1>2. todo \in Seq(T) /\ (t = 0 => todo = <<>>)
    <2>1. <<>> \in Seq(T)
        OBVIOUS
    <2>2. ASSUME t # 0
          PROVE  Trials(l1, l2, t) \in Seq(T)
        <3> DEFINE u == SlotsTaken(l1, l2, t).slots
        <3>1. u \in Seq(Slots)
            <4>1. SlotsTaken(l1, l2, t) \in Trial
                BY <1>1, <2>2, SlotsTakenIn, Zenon
            <4> QED
                BY <4>1 DEF Trial
        <3>2. \/ Trials(l1, l2, t) = u \o <<NIL_ASSIGNED>>
              \/ Trials(l1, l2, t) = u \o <<>>
            BY Zenon DEF Trials
        <3> HIDE DEF u
        <3>3. u \in Seq(T) /\ <<NIL_ASSIGNED>> \in Seq(T)
            BY <3>1
        <3>4. \A X : \A v, w \in Seq(X) : v \o w \in Seq(X)
            OBVIOUS
        <3> QED
            BY <2>1, <3>2, <3>3, <3>4, Zenon
    <2> HIDE DEF t
    <2> QED
        BY <2>1, <2>2, Zenon
<1>3. Activation(l1, l2, score) = [l1 |-> l1, l2 |-> l2, score |-> score, target |-> t, todo |-> todo]
    BY Zenon DEF Activation
<1> HIDE DEF t, todo
<1> DEFINE a == [l1 |-> l1, l2 |-> l2, score |-> score, target |-> t, todo |-> todo]
<1>4. a.l1 = l1 /\ a.l2 = l2 /\ a.score = score /\ a.target = t /\ a.todo = todo
    OBVIOUS
<1>5. a = [l1 |-> a.l1, l2 |-> a.l2, score |-> a.score, target |-> a.target, todo |-> a.todo]
    BY <1>4, Zenon
<1>6. t = 0 => l1 \in Complete(Elements, Slots)
    BY TargetIn, Zenon DEF t
<1> HIDE DEF a
<1>7. Active(Elements, Slots, a)
    BY <1>1, <1>2, <1>4, <1>5, <1>6, Zenon DEF Active
<1> QED
    BY <1>3, <1>7, Zenon DEF a
-----------------------------------------------------------------------------
(* Evaluation of a complete assignment                                     *)

\* A quotient of integers is one.
LEMMA QuotientIn ==
    ASSUME NEW a \in Int, NEW n \in Nat \ {0}
    PROVE  a \div n \in Int
    OBVIOUS

\* A normalised score is a number.
LEMMA NormalisedIn ==
    ASSUME NEW s \in Int, NEW n \in Nat \ {0}
    PROVE  Normalised(s, n) \in Int
<1>1. s * s * Unit \in Int
    BY UnitAssumption
<1>2. (s * s * Unit) \div n \in Int
    BY <1>1, QuotientIn
<1> QED
    BY <1>2, Zenon DEF Normalised

\* A number of slots.
LEMMA SlotsCount ==
    ASSUME InFrame, NEW P, P \subseteq Slots
    PROVE  Cardinality(P) \in Nat
    BY FrameFacts, TakenOut, Zenon

\* A probability is the sum of those of all elements and empty slots.
LEMMA ProbabilityIn ==
    ASSUME InFrame, NEW l1 \in Complete(Elements, Slots), NEW l2 \in Lists2(Elements, Slots)
    PROVE  Probability(l1, l2) \in Int
<1> DEFINE f == [t \in Elements |-> IF l1[t] = NIL_ASSIGNED THEN Frame.nil[t] ELSE Frame.score[t][l1[t]]]
           g == [s \in Slots |-> IF l2[s] = UNASSIGNED THEN Frame.empty[s] ELSE 0]
<1>1. f \in [Elements -> Int]
    <2>1. ASSUME NEW t \in Elements
          PROVE  (IF l1[t] = NIL_ASSIGNED THEN Frame.nil[t] ELSE Frame.score[t][l1[t]]) \in Int
        <3>1. l1[t] \in Slots \cup {NIL_ASSIGNED}
            BY Zenon DEF Complete
        <3>2. Frame.nil[t] \in Int /\ Frame.score[t] \in [Slots -> Int]
            BY FrameFacts, Zenon
        <3> QED
            BY <3>1, <3>2, Zenon
    <2> QED
        BY <2>1, Zenon
<1>2. g \in [Slots -> Int]
    <2>1. ASSUME NEW s \in Slots
          PROVE  (IF l2[s] = UNASSIGNED THEN Frame.empty[s] ELSE 0) \in Int
        <3>1. Frame.empty[s] \in Int
            BY FrameFacts, Zenon
        <3>2. 0 \in Int
            OBVIOUS
        <3> QED
            BY <3>1, <3>2, Zenon
    <2> QED
        BY <2>1, Zenon
<1>3. Probability(l1, l2) = SumFunction(f) + SumFunction(g)
    <2>1. DOMAIN l2 = Slots
        BY Zenon DEF Lists2
    <2> QED
        BY <2>1, Zenon DEF Probability
<1> HIDE DEF f, g
<1>4. SumFunction(f) \in Int /\ SumFunction(g) \in Int
    BY <1>1, <1>2, FrameFacts, SumIn, Zenon
<1>5. \A x, y \in Int : x + y \in Int
    OBVIOUS
<1> QED
    BY <1>3, <1>4, <1>5, Zenon

\* The first number of a merit, the score to compare.
LEMMA MeritIn ==
    ASSUME InFrame, NEW l1 \in Complete(Elements, Slots), NEW l2 \in Lists2(Elements, Slots), NEW score \in Int
    PROVE  Merit(l1, l2, score)[1] \in Int /\ PureScore(l1, l2, score) \in Int
<1>1. LocalScore(l1, l2, score) \in Int
    <2> DEFINE pat == count_pat_element(Frame, l2)
    <2>1. pat \in Nat
        <3>1. DOMAIN l2 = Slots
            BY Zenon DEF Lists2
        <3>2. {s \in DOMAIN l2 : Frame.slots[s].oblig \/ l2[s] # UNASSIGNED} \subseteq Slots
            BY <3>1, Zenon
        <3> QED
            BY <3>2, SlotsCount, Zenon DEF count_pat_element
    <2>2. pat # 0 => Normalised(score, pat) \in Int
        <3> HIDE DEF pat
        <3> QED
            BY <2>1, NormalisedIn
    <2>3. LocalScore(l1, l2, score) \in {-1, 0} \/ (pat # 0 /\ LocalScore(l1, l2, score) = Normalised(score, pat))
        BY Zenon DEF LocalScore
    <2>4. -1 \in Int /\ 0 \in Int
        OBVIOUS
    <2> QED
        BY <2>2, <2>3, <2>4, Zenon
<1>2. \A x \in Int : x - 500 \in Int /\ x - 0 \in Int
    OBVIOUS
<1>3. Probability(l1, l2) \in Int
    BY ProbabilityIn, Zenon
<1>4. \A a, b, c, d : <<a, b, c, d>>[1] = a
    OBVIOUS
<1>5. \/ Merit(l1, l2, score)[1] = LocalScore(l1, l2, score)
      \/ Merit(l1, l2, score)[1] = Probability(l1, l2) - 500
      \/ Merit(l1, l2, score)[1] = Probability(l1, l2) - 0
    BY <1>4, Zenon DEF Merit
<1>6. Merit(l1, l2, score)[1] \in Int
    <2>1. Probability(l1, l2) - 500 \in Int /\ Probability(l1, l2) - 0 \in Int
        BY <1>2, <1>3, Zenon
    <2> QED
        BY <1>1, <1>5, <2>1, Zenon
<1>7. PureScore(l1, l2, score) \in Int
    BY <1>3, Zenon DEF PureScore
<1> QED
    BY <1>6, <1>7

\* What the globals hold once an assignment replaces all before it.
LEMMA TakenIn ==
    ASSUME InFrame, NEW l1 \in Complete(Elements, Slots), NEW l2 \in Lists2(Elements, Slots), NEW score \in Int
    PROVE  /\ Best(Elements, Slots, Taken(l1, l2, score))
           /\ Taken(l1, l2, score).lists \in Seq(Results(Elements, Slots))
           /\ Taken(l1, l2, score).lists # <<>>
<1> DEFINE pure == PureScore(l1, l2, score)
           merit == Merit(l1, l2, score)
           one == [l1 |-> l1, l2 |-> l2, pure |-> pure]
           suff == IF input.prob \/ l2 = <<>> THEN 0
                   ELSE (Cardinality(Filled(l2)) * Unit) \div Len(l2)
           R == Results(Elements, Slots)
           c == [lists |-> <<one>>, merit |-> merit, sufficiency |-> suff]
<1>1. Taken(l1, l2, score) = c
    BY Zenon DEF Taken
<1>2. merit[1] \in Int /\ pure \in Int
    BY MeritIn, Zenon
<1>3. suff \in Int
    <2>1. 0 \in Int
        OBVIOUS
    <2>2. ASSUME l2 # <<>>
          PROVE  (Cardinality(Filled(l2)) * Unit) \div Len(l2) \in Int
        <3> DEFINE n == Len(Frame.slots)
                   x == Cardinality(Filled(l2))
        <3>1. n \in Nat /\ l2 \in [1 .. n -> Elements \cup {UNASSIGNED}]
            BY FrameFacts, Zenon DEF Lists2
        <3>2. x \in Nat
            <4>1. Filled(l2) \subseteq Slots
                BY Zenon DEF Filled, Lists2
            <4> QED
                BY <4>1, SlotsCount, Zenon
        <3> HIDE DEF n, x
        <3>3. Len(l2) = n /\ l2 \in Seq(Elements \cup {UNASSIGNED})
            BY <3>1
        <3>4. Len(l2) # 0
            BY <2>2, <3>3
        <3>5. Len(l2) \in Nat \ {0}
            BY <3>1, <3>3, <3>4
        <3>6. x * Unit \in Int
            BY <3>2, UnitAssumption
        <3> QED
            BY <3>5, <3>6, QuotientIn, Zenon DEF x
    <2> QED
        BY <2>1, <2>2, Zenon
<1> HIDE DEF merit, pure, suff
<1>4. one \in R
    BY <1>2 DEF Results
<1>5. <<one>> \in Seq(R) /\ <<one>> # <<>>
    <2> HIDE DEF one, R
    <2> QED
        BY <1>4
<1> HIDE DEF one
<1>6. c.lists = <<one>> /\ c.merit = merit /\ c.sufficiency = suff
    OBVIOUS
<1>7. c = [lists |-> c.lists, merit |-> c.merit, sufficiency |-> c.sufficiency]
    BY <1>6, Zenon
<1> HIDE DEF c
<1>8. Best(Elements, Slots, c)
    BY <1>2, <1>3, <1>5, <1>6, <1>7, Zenon DEF Best
<1> QED
    BY <1>1, <1>5, <1>6, <1>8, Zenon

\* What the globals hold once an assignment is evaluated.
LEMMA EvaluatedIn ==
    ASSUME InFrame, Best(Elements, Slots, current), NEW l1 \in Complete(Elements, Slots), NEW l2 \in Lists2(Elements, Slots), NEW score \in Int
    PROVE  Best(Elements, Slots, Evaluated(l1, l2, score))
<1> DEFINE R == Results(Elements, Slots)
           v == Taken(l1, l2, score).lists
           c == [current EXCEPT !.lists = @ \o v]
<1>1. v \in Seq(R) /\ v # <<>> /\ Best(Elements, Slots, Taken(l1, l2, score))
    BY TakenIn, Zenon
<1>2. Evaluated(l1, l2, score) \in {Taken(l1, l2, score), c, current}
    BY Zenon DEF Evaluated
<1> HIDE DEF v
<1>3. Best(Elements, Slots, c)
    <2> DEFINE x == current.lists
               w == x \o v
    <2>1. /\ current = [lists |-> x, merit |-> current.merit, sufficiency |-> current.sufficiency]
          /\ x \in Seq(R) /\ current.merit[1] \in Int /\ current.sufficiency \in Int
        BY Zenon DEF Best
    <2>2. w \in Seq(R) /\ w # <<>>
        <3>1. \A S : \A p, q \in Seq(S) : p \o q \in Seq(S) /\ (q # <<>> => p \o q # <<>>)
            OBVIOUS
        <3> QED
            BY <1>1, <2>1, <3>1, Zenon
    <2> HIDE DEF x, w
    <2>3. c = [lists |-> w, merit |-> current.merit, sufficiency |-> current.sufficiency]
        <3>1. PICK m, z : current = [lists |-> x, merit |-> m, sufficiency |-> z]
            BY <2>1, Zenon
        <3>2. c = [current EXCEPT !.lists = w]
            BY Zenon DEF w, x
        <3>3. c = [lists |-> w, merit |-> m, sufficiency |-> z]
            BY <3>1, <3>2
        <3>4. current.merit = m /\ current.sufficiency = z
            BY <3>1
        <3> QED
            BY <3>3, <3>4, Zenon
    <2> HIDE DEF c
    <2>4. c.lists = w /\ c.merit = current.merit /\ c.sufficiency = current.sufficiency
        BY <2>3
    <2>5. c = [lists |-> c.lists, merit |-> c.merit, sufficiency |-> c.sufficiency]
        BY <2>3, <2>4, Zenon
    <2> QED
        BY <2>1, <2>2, <2>4, <2>5, Zenon DEF Best
<1> QED
    BY <1>1, <1>2, <1>3, Zenon
-----------------------------------------------------------------------------
(* The steps                                                               *)

\* What is stored for a frame can be compared.
LEMMA MatchScored ==
    ASSUME Matching
    PROVE  Scored(Match)
<1> DEFINE E == Elements
           S == Slots
           first == current.lists[1]
           closest == Closest > 0 /\ current.merit[1] >= 0 /\ first.l1[Closest] # NIL_ASSIGNED
           own == Normalised(Frame.score[Closest][first.l1[Closest]], 1)
           sc == IF closest THEN own ELSE current.merit[1]
<1>1. InFrame /\ Best(E, S, current)
    BY Zenon DEF Matching
<1>2. ASSUME closest
      PROVE  own \in Int
    <2>1. current.lists # <<>>
        <3>1. current.merit[1] \in Int /\ (current.lists = <<>> => current.merit[1] < 0)
            BY <1>1, Zenon DEF Best
        <3>2. current.merit[1] >= 0
            BY <1>2, Zenon
        <3>3. \A x \in Int : ~(x >= 0 /\ x < 0)
            OBVIOUS
        <3> QED
            BY <3>1, <3>2, <3>3, Zenon
    <2>2. first \in Results(E, S)
        <3>1. \A X : \A s \in Seq(X) : s # <<>> => s[1] \in X
            OBVIOUS
        <3>2. current.lists \in Seq(Results(E, S))
            BY <1>1, Zenon DEF Best
        <3> QED
            BY <2>1, <3>1, <3>2, Zenon
    <2>3. first.l1 \in Complete(E, S)
        BY <2>2 DEF Results
    <2>4. Closest \in E
        <3>1. Closest \in {0, input.closest}
            BY Zenon DEF Closest
        <3>2. input.closest \in E \cup {0}
            BY <1>1, FrameFacts, Zenon
        <3>3. Closest # 0
            <4>1. ~(0 > 0)
                OBVIOUS
            <4> QED
                BY <1>2, <4>1, Zenon
        <3> QED
            BY <3>1, <3>2, <3>3, Zenon
    <2>5. first.l1[Closest] \in S
        BY <1>2, <2>3, <2>4, Zenon DEF Complete
    <2>6. Frame.score[Closest][first.l1[Closest]] \in Int
        <3>1. Frame.score[Closest] \in [S -> Int]
            BY <1>1, <2>4, FrameFacts, Zenon
        <3> QED
            BY <2>5, <3>1, Zenon
    <2>7. 1 \in Nat \ {0}
        OBVIOUS
    <2> QED
        BY <2>6, <2>7, NormalisedIn, Zenon
<1>3. current.merit[1] \in Int /\ current.sufficiency \in Int
    BY <1>1, Zenon DEF Best
<1>4. sc \in Int
    BY <1>2, <1>3, Zenon
<1>5. Match = [frame |-> cands[k], lists |-> current.lists, sufficiency |-> current.sufficiency, score |-> sc]
    BY Zenon DEF Match
<1> HIDE DEF sc
<1>6. Match.score = sc /\ Match.sufficiency = current.sufficiency
    BY <1>5
<1> QED
    BY <1>3, <1>4, <1>6, Zenon DEF Scored

\* A frame begins with nothing assigned.
LEMMA FreshIn ==
    InFrame => /\ Best(Elements, Slots, FreshCurrent)
               /\ Active(Elements, Slots, Activation([t \in Elements |-> UNASSIGNED],
                                                     [s \in Slots |-> UNASSIGNED], 0))
<1> SUFFICES ASSUME InFrame
             PROVE  /\ Best(Elements, Slots, FreshCurrent)
                    /\ Active(Elements, Slots, Activation([t \in Elements |-> UNASSIGNED],
                                                          [s \in Slots |-> UNASSIGNED], 0))
    OBVIOUS
<1> DEFINE R == Results(Elements, Slots)
           m == <<FAILURE, 0, 0, 0>>
           c == [lists |-> <<>>, merit |-> m, sufficiency |-> 0]
<1>1. FreshCurrent = c
    BY Zenon DEF FreshCurrent
<1>2. m[1] \in Int /\ m[1] < 0
    BY DEF FAILURE
<1> HIDE DEF m, R
<1>3. c.lists = <<>> /\ c.merit = m /\ c.sufficiency = 0 /\ <<>> \in Seq(R) /\ 0 \in Int
    OBVIOUS
<1>4. c = [lists |-> c.lists, merit |-> c.merit, sufficiency |-> c.sufficiency]
    BY <1>3, Zenon
<1> HIDE DEF c
<1>5. Best(Elements, Slots, c)
    BY <1>2, <1>3, <1>4, Zenon DEF Best, R
<1>6. [t \in Elements |-> UNASSIGNED] \in Lists1(Elements, Slots)
    BY Zenon DEF Lists1
<1>7. [s \in Slots |-> UNASSIGNED] \in Lists2(Elements, Slots)
    BY Zenon DEF Lists2
<1>8. 0 \in Int
    OBVIOUS
<1> QED
    BY <1>1, <1>5, <1>6, <1>7, <1>8, ActivationIn, Zenon

\* A frame begun is a frame to be matched.
LEMMA BeginKeeps ==
    ASSUME NEW i, BeginFrame(i), input' = input, InFrame'
    PROVE  Matching'
<1> DEFINE a == Activation([t \in Elements |-> UNASSIGNED], [s \in Slots |-> UNASSIGNED], 0)
<1>1. /\ Best(Elements, Slots, FreshCurrent)'
      /\ Active(Elements, Slots, a)'
    BY FreshIn, PTL
<1>2. stack' = <<a'>> /\ current' = FreshCurrent
    BY Zenon DEF BeginFrame
<1>3. FreshCurrent' = FreshCurrent
    BY DEF FreshCurrent, FAILURE
<1>4. Best(Elements, Slots, current)'
    BY <1>1, <1>2, <1>3
<1>5. ASSUME NEW s, NEW x, s = <<x>>
      PROVE  s \in Seq(ToSet(s)) /\ \A n \in DOMAIN s : s[n] = x
    BY <1>5 DEF ToSet
<1>6. /\ stack' \in Seq(ToSet(stack'))
      /\ \A n \in DOMAIN stack' : stack'[n] = a'
    <2> HIDE DEF a
    <2> QED
        BY <1>2, <1>5, Zenon
<1>7. \A n \in DOMAIN stack' : Active(Elements', Slots', stack'[n])
    BY <1>1, <1>6
<1> QED
    BY <1>4, <1>6, <1>7 DEF Matching, ToSet

\* As long as the frame stays the same, so do its elements and slots.
LEMMA SameFrame ==
    ASSUME input' = input, cands' = cands, k' = k
    PROVE  Elements' = Elements /\ Slots' = Slots /\ (InFrame => InFrame')
    BY DEF Elements, Slots, Frame, InFrame

\* A sequence is one of its own elements.
LEMMA OwnElements ==
    ASSUME NEW X, NEW s \in Seq(X)
    PROVE  s \in Seq(ToSet(s)) /\ ToSet(s) = {s[i] : i \in 1 .. Len(s)}
    BY DEF ToSet

\* How Append moves the elements of a sequence.
LEMMA Appended ==
    ASSUME NEW X, NEW s \in Seq(X), NEW b \in X, NEW l, l = Len(s)
    PROVE  /\ Append(s, b) \in Seq(X) /\ DOMAIN Append(s, b) = 1 .. (l + 1)
           /\ Len(Append(s, b)) = l + 1
           /\ Append(s, b)[l + 1] = b /\ \A n \in 1 .. l : Append(s, b)[n] = s[n]
           /\ Append(s, b) \in Seq(ToSet(Append(s, b)))
           /\ ToSet(Append(s, b)) = ToSet(s) \cup {b}
<1> DEFINE a == Append(s, b)
<1>1. /\ a \in Seq(X) /\ DOMAIN a = 1 .. (l + 1) /\ Len(a) = l + 1
      /\ a[l + 1] = b /\ \A n \in 1 .. l : a[n] = s[n]
    OBVIOUS
<1>2. a \in Seq(ToSet(a))
    <2> HIDE DEF a
    <2> QED
        BY <1>1, OwnElements, Zenon
<1>3. l \in Nat /\ DOMAIN s = 1 .. l
    OBVIOUS
<1> HIDE DEF a
<1>4. \A n \in 1 .. (l + 1) : n # l + 1 => n \in 1 .. l
    BY <1>3
<1>5. \A n \in 1 .. l : n \in 1 .. (l + 1)
    BY <1>3
<1>6. l + 1 \in 1 .. (l + 1)
    BY <1>3
<1>7. ToSet(a) = ToSet(s) \cup {b}
    <2>1. ASSUME NEW x \in ToSet(a)
          PROVE  x \in ToSet(s) \cup {b}
        BY <1>1, <1>3, <1>4, <2>1, Zenon DEF ToSet
    <2>2. ASSUME NEW x \in ToSet(s) \cup {b}
          PROVE  x \in ToSet(a)
        BY <1>1, <1>3, <1>5, <1>6, <2>2, Zenon DEF ToSet
    <2> QED
        BY <2>1, <2>2, Zenon
<1> QED
    BY <1>1, <1>2, <1>7, Zenon DEF a

\* Append adds its element.
LEMMA AppendedSet ==
    \A X : \A s \in Seq(X) : \A b \in X : ToSet(Append(s, b)) = ToSet(s) \cup {b}
<1> SUFFICES ASSUME NEW X, NEW s \in Seq(X), NEW b \in X
             PROVE  ToSet(Append(s, b)) = ToSet(s) \cup {b}
    OBVIOUS
<1> DEFINE l == Len(s)
<1>1. l = Len(s)
    OBVIOUS
<1> HIDE DEF l
<1> QED
    BY <1>1, Appended

\* The activation that is running: an element is in turn if there is a trial.
LEMMA TopFacts ==
    ASSUME Matching, stack # <<>>, NEW top, top = Last(stack)
    PROVE  /\ Len(stack) \in 1 .. Len(stack) /\ DOMAIN stack = 1 .. Len(stack)
           /\ top = stack[Len(stack)] /\ Active(Elements, Slots, top)
           /\ top.todo # <<>> =>
                /\ top.target \in Elements
                /\ Head(top.todo) \in Slots \cup {NIL_ASSIGNED}
                /\ Tail(top.todo) \in Seq(Slots \cup {NIL_ASSIGNED})
<1>1. \A X : \A s \in Seq(X) : s # <<>> => Len(s) \in 1 .. Len(s) /\ DOMAIN s = 1 .. Len(s)
    OBVIOUS
<1>2. Len(stack) \in 1 .. Len(stack) /\ DOMAIN stack = 1 .. Len(stack)
    BY <1>1, Zenon DEF Matching
<1>3. top = stack[Len(stack)]
    BY Zenon DEF Last
<1>4. Active(Elements, Slots, top)
    BY <1>2, <1>3, Zenon DEF Matching
<1>5. \A X : \A s \in Seq(X) : s # <<>> => Head(s) \in X /\ Tail(s) \in Seq(X)
    OBVIOUS
<1> QED
    BY <1>2, <1>3, <1>4, <1>5, Zenon DEF Active

\* A trial is taken off, and an activation put on the stack.
LEMMA PushKeeps ==
    ASSUME Matching, stack # <<>>, Last(stack).todo # <<>>, NEW b, Active(Elements, Slots, b),
           stack' = Append([stack EXCEPT ![Len(stack)].todo = Tail(@)], b),
           UNCHANGED <<input, cands, k, current>>
    PROVE  Matching'
<1> DEFINE E == Elements
           S == Slots
           l == Len(stack)
           top == Last(stack)
           new == [top EXCEPT !.todo = Tail(top.todo)]
           w == [stack EXCEPT ![l] = new]
<1>1. /\ l \in 1 .. l /\ DOMAIN stack = 1 .. l
      /\ top = stack[l] /\ Active(E, S, top)
      /\ top.target \in E /\ Tail(top.todo) \in Seq(S \cup {NIL_ASSIGNED})
    BY TopFacts, Zenon
<1>2. Active(E, S, new)
    <2>1. PICK u1, u2, u3, u4, u5 :
            top = [l1 |-> u1, l2 |-> u2, score |-> u3, target |-> u4, todo |-> u5]
        BY <1>1, Zenon DEF Active
    <2> DEFINE d == Tail(top.todo)
    <2> HIDE DEF top, d
    <2>2. [top EXCEPT !.todo = d] = [l1 |-> u1, l2 |-> u2, score |-> u3, target |-> u4, todo |-> d]
        BY <2>1
    <2>3. new = [top EXCEPT !.todo = d]
        BY Zenon DEF d
    <2>4. top.l1 = u1 /\ top.l2 = u2 /\ top.score = u3 /\ top.target = u4
        BY <2>1
    <2> HIDE DEF new
    <2>5. new.l1 = u1 /\ new.l2 = u2 /\ new.score = u3 /\ new.target = u4 /\ new.todo = d
        BY <2>2, <2>3
    <2>6. new = [l1 |-> new.l1, l2 |-> new.l2, score |-> new.score, target |-> new.target, todo |-> new.todo]
        BY <2>2, <2>3, <2>5, Zenon
    <2>7. u4 # 0
        <3>1. \A n \in Nat : ~(0 \in 1 .. n)
            OBVIOUS
        <3>2. ~(0 \in E)
            BY <3>1, FrameFacts, Zenon DEF Matching
        <3> QED
            BY <1>1, <2>4, <3>2, Zenon
    <2>8. d \in Seq(S \cup {NIL_ASSIGNED})
        BY <1>1, Zenon DEF d
    <2> HIDE DEF E, S
    <2> QED
        BY <1>1, <2>4, <2>5, <2>6, <2>7, <2>8, Zenon DEF Active
<1>3. [stack EXCEPT ![l].todo = Tail(@)] = w
    BY <1>1, Zenon
<1>4. stack' = Append(w, b)
    BY <1>3, Zenon
<1> HIDE DEF new
<1>5. stack \in Seq(ToSet(stack)) /\ \A n \in 1 .. l : Active(E, S, stack[n])
    BY <1>1, Zenon DEF Matching
<1> DEFINE X == ToSet(stack) \cup {new, b}
<1>6. stack \in Seq(X) /\ new \in X /\ b \in X
    <2> DEFINE T == ToSet(stack)
    <2>1. stack \in Seq(T)
        BY <1>5, Zenon
    <2> HIDE DEF T
    <2>2. stack \in Seq(T \cup {new, b})
        BY <2>1
    <2> QED
        BY <2>2, Zenon DEF T
<1> HIDE DEF X
<1>7. w \in Seq(X) /\ Len(w) = l /\ w[l] = new /\ \A n \in 1 .. l : n # l => w[n] = stack[n]
    BY <1>1, <1>6
<1>8. \A n \in 1 .. l : Active(E, S, w[n])
    BY <1>2, <1>5, <1>7, Zenon
<1> HIDE DEF w
<1>9. /\ Append(w, b) \in Seq(X) /\ DOMAIN Append(w, b) = 1 .. (l + 1)
      /\ Append(w, b)[l + 1] = b /\ \A n \in 1 .. l : Append(w, b)[n] = w[n]
      /\ Append(w, b) \in Seq(ToSet(Append(w, b)))
    <2>1. l = Len(w)
        BY <1>7, Zenon
    <2> HIDE DEF l
    <2> QED
        BY <1>6, <1>7, <2>1, Appended
<1>10. \A n \in 1 .. (l + 1) : n # l + 1 => n \in 1 .. l
    <2>1. \A i \in Nat : \A n \in 1 .. (i + 1) : n # i + 1 => n \in 1 .. i
        OBVIOUS
    <2>2. l \in Nat
        BY <1>6
    <2> QED
        BY <2>1, <2>2, Zenon
<1>11. \A n \in DOMAIN Append(w, b) : Active(E, S, Append(w, b)[n])
    BY <1>8, <1>9, <1>10, Zenon
<1>12. Elements' = E /\ Slots' = S /\ InFrame'
    BY SameFrame, Zenon DEF Matching
<1>13. Best(E, S, current) /\ current' = current
    BY Zenon DEF Matching
<1> HIDE DEF E, S, l
<1>14. stack' \in Seq(ToSet(stack')) /\ \A n \in DOMAIN stack' : Active(E, S, stack'[n])
    BY <1>4, <1>9, <1>11, Zenon
<1> QED
    BY <1>12, <1>13, <1>14 DEF Matching, ToSet

\* A slot is assigned to the element in turn.
LEMMA AssignSlotKeeps ==
    ASSUME Matching, AssignSlot
    PROVE  Matching'
<1> DEFINE top == Last(stack)
           s == Head(top.todo)
           t == top.target
           b == Activation([top.l1 EXCEPT ![t] = s], [top.l2 EXCEPT ![s] = t],
                           top.score + Frame.score[t][s])
<1>1. /\ stack # <<>> /\ top.todo # <<>> /\ s # NIL_ASSIGNED
      /\ stack' = Append([stack EXCEPT ![Len(stack)].todo = Tail(@)], b)
      /\ UNCHANGED <<input, cands, k, current>>
    BY Zenon DEF AssignSlot
<1>2. Active(Elements, Slots, top) /\ t \in Elements /\ s \in Slots
    BY <1>1, TopFacts, Zenon
<1>3. InFrame
    BY Zenon DEF Matching
<1>4. top.l1 \in Lists1(Elements, Slots) /\ top.l2 \in Lists2(Elements, Slots) /\ top.score \in Int
    BY <1>2, Zenon DEF Active
<1> HIDE DEF top, s, t
<1>5. [top.l1 EXCEPT ![t] = s] \in Lists1(Elements, Slots)
    BY <1>2, <1>4, Zenon DEF Lists1
<1>6. [top.l2 EXCEPT ![s] = t] \in Lists2(Elements, Slots)
    BY <1>2, <1>4, Zenon DEF Lists2
<1>7. top.score + Frame.score[t][s] \in Int
    <2>1. Frame.score[t] \in [Slots -> Int]
        BY <1>2, <1>3, FrameFacts, Zenon
    <2>2. Frame.score[t][s] \in Int
        BY <1>2, <2>1, Zenon
    <2>3. \A x, y \in Int : x + y \in Int
        OBVIOUS
    <2> QED
        BY <1>4, <2>2, <2>3, Zenon
<1>8. Active(Elements, Slots, b)
    BY <1>3, <1>5, <1>6, <1>7, ActivationIn, Zenon
<1> HIDE DEF b
<1> QED
    BY <1>1, <1>8, PushKeeps, Zenon DEF top

\* The element in turn stays without a slot.
LEMMA AssignNilKeeps ==
    ASSUME Matching, AssignNil
    PROVE  Matching'
<1> DEFINE top == Last(stack)
           t == top.target
           b == Activation([top.l1 EXCEPT ![t] = NIL_ASSIGNED], top.l2, top.score)
<1>1. /\ stack # <<>> /\ top.todo # <<>>
      /\ stack' = Append([stack EXCEPT ![Len(stack)].todo = Tail(@)], b)
      /\ UNCHANGED <<input, cands, k, current>>
    BY Zenon DEF AssignNil
<1>2. Active(Elements, Slots, top) /\ t \in Elements
    BY <1>1, TopFacts, Zenon
<1>3. InFrame
    BY Zenon DEF Matching
<1>4. top.l1 \in Lists1(Elements, Slots) /\ top.l2 \in Lists2(Elements, Slots) /\ top.score \in Int
    BY <1>2, Zenon DEF Active
<1> HIDE DEF top, t
<1>5. [top.l1 EXCEPT ![t] = NIL_ASSIGNED] \in Lists1(Elements, Slots)
    BY <1>2, <1>4, Zenon DEF Lists1
<1>6. Active(Elements, Slots, b)
    BY <1>3, <1>4, <1>5, ActivationIn, Zenon
<1> HIDE DEF b
<1> QED
    BY <1>1, <1>6, PushKeeps, Zenon DEF top

\* Only a complete assignment is evaluated.
LEMMA ReturnKeeps ==
    ASSUME Matching, Return
    PROVE  Matching'
<1> DEFINE top == Last(stack)
           E == Elements
           S == Slots
<1>1. /\ stack # <<>>
      /\ current' = IF top.target = 0 THEN Evaluated(top.l1, top.l2, top.score) ELSE current
      /\ stack' = Front(stack)
      /\ UNCHANGED <<input, cands, k>>
    BY Zenon DEF Return
<1>2. Active(E, S, top)
    BY <1>1, TopFacts, Zenon
<1>3. Best(E, S, current')
    <2>1. InFrame /\ Best(E, S, current)
        BY Zenon DEF Matching
    <2>2. ASSUME top.target = 0
          PROVE  Best(E, S, Evaluated(top.l1, top.l2, top.score))
        <3>1. top.l1 \in Complete(E, S) /\ top.l2 \in Lists2(E, S) /\ top.score \in Int
            BY <1>2, <2>2, Zenon DEF Active
        <3> QED
            BY <2>1, <3>1, EvaluatedIn, Zenon
    <2> HIDE DEF top, E, S
    <2> QED
        BY <1>1, <2>1, <2>2, Zenon
<1>4. /\ \A n \in DOMAIN stack : Active(E, S, stack[n])
      /\ stack \in Seq(ToSet(stack))
    BY Zenon DEF Matching
<1>5. ASSUME NEW X, NEW s \in Seq(X), s # <<>>
      PROVE  /\ Front(s) \in Seq(X)
             /\ \A n \in DOMAIN Front(s) : n \in DOMAIN s /\ Front(s)[n] = s[n]
    BY <1>5 DEF Front
<1>6. /\ stack' \in Seq(ToSet(stack))
      /\ \A n \in DOMAIN stack' : n \in DOMAIN stack /\ stack'[n] = stack[n]
    BY <1>1, <1>4, <1>5, Zenon
<1>7. stack' \in Seq(ToSet(stack')) /\ \A n \in DOMAIN stack' : Active(E, S, stack'[n])
    BY <1>4, <1>6, OwnElements, Zenon
<1>8. Elements' = E /\ Slots' = S /\ InFrame'
    BY <1>1, SameFrame, Zenon DEF Matching
<1> HIDE DEF E, S
<1> QED
    BY <1>3, <1>7, <1>8 DEF Matching, ToSet

\* What is stored, and what it is compared with.
LEMMA StoreKeeps ==
    ASSUME Matching, Keeping, input' = input,
           cmm' = Stored(Match), matched' = Append(matched, Match)
    PROVE  Keeping' /\ Len(matched') = Len(matched) + 1
<1> DEFINE n == Match
           new == Stored(n)
           mm == Append(matched, n)
           l == Len(matched)
           c == CMM_MAX - 1
<1>1. Scored(n)
    BY MatchScored, Zenon
<1>2. /\ Ranked(cmm) /\ matched \in Seq(ToSet(matched)) /\ \A m \in ToSet(matched) : Scored(m)
      /\ Len(cmm) = IF l < c THEN l ELSE c
      /\ l <= c => ToSet(matched) \subseteq ToSet(cmm)
      /\ \A m \in ToSet(matched) : m \in ToSet(cmm) \/ ~Precedes(m, Last(cmm))
    BY Zenon DEF Keeping
<1>3. l \in Nat /\ c \in Nat /\ c > 0
    <2>1. l \in Nat
        BY <1>2
    <2> QED
        BY <2>1, LimitsAssumption
<1>4. /\ mm \in Seq(ToSet(mm)) /\ Len(mm) = l + 1 /\ ToSet(mm) = ToSet(matched) \cup {n}
    <2> DEFINE T == ToSet(matched)
    <2>1. matched \in Seq(T)
        BY <1>2, Zenon
    <2> HIDE DEF T, n
    <2>2. matched \in Seq(T \cup {n}) /\ n \in T \cup {n}
        BY <2>1
    <2>3. ASSUME NEW X, NEW s \in Seq(X), NEW b \in X
          PROVE  /\ Append(s, b) \in Seq(ToSet(Append(s, b))) /\ Len(Append(s, b)) = Len(s) + 1
                 /\ ToSet(Append(s, b)) = ToSet(s) \cup {b}
        <3> DEFINE m == Len(s)
        <3>1. m = Len(s)
            OBVIOUS
        <3> HIDE DEF m
        <3>2. /\ Append(s, b) \in Seq(ToSet(Append(s, b))) /\ Len(Append(s, b)) = m + 1
              /\ ToSet(Append(s, b)) = ToSet(s) \cup {b}
            BY <2>3, <3>1, Appended
        <3> QED
            BY <3>1, <3>2, Zenon
    <2> DEFINE U == T \cup {n}
    <2> HIDE DEF U
    <2>4. matched \in Seq(U) /\ n \in U
        BY <2>2, Zenon DEF U
    <2>5. /\ Append(matched, n) \in Seq(ToSet(Append(matched, n))) /\ Len(Append(matched, n)) = l + 1
          /\ ToSet(Append(matched, n)) = ToSet(matched) \cup {n}
        BY <2>3, <2>4
    <2> QED
        BY <2>5, Zenon
<1> HIDE DEF n, l, c
<1>5. Len(cmm) <= c
    BY <1>2, <1>3
<1>6. /\ Ranked(new)
      /\ Len(new) = IF Len(cmm) < c THEN Len(cmm) + 1 ELSE c
      /\ Len(cmm) < c => ToSet(cmm) \cup {n} \subseteq ToSet(new)
      /\ \A m \in ToSet(cmm) \cup {n} : m \in ToSet(new) \/ ~Precedes(m, Last(new))
      /\ Len(cmm) = c => \A m : Scored(m) /\ ~Precedes(m, Last(cmm)) => ~Precedes(m, Last(new))
    BY <1>1, <1>2, <1>5, StoredRight, Zenon DEF c
<1> HIDE DEF new, mm
<1>7. Len(new) = IF l + 1 < c THEN l + 1 ELSE c
    BY <1>2, <1>3, <1>6
<1>8. (l + 1 <= c => Len(cmm) < c /\ l <= c) /\ (~(l <= c) => Len(cmm) = c)
    BY <1>2, <1>3
<1>9. l + 1 <= c => ToSet(mm) \subseteq ToSet(new)
    BY <1>2, <1>4, <1>6, <1>8, Zenon
<1>10. ASSUME NEW m \in ToSet(mm)
       PROVE  m \in ToSet(new) \/ ~Precedes(m, Last(new))
    <2>1. CASE m \in ToSet(cmm) \cup {n}
        BY <1>6, <2>1, Zenon
    <2>2. CASE m \notin ToSet(cmm) \cup {n}
        <3>1. m \in ToSet(matched) /\ m \notin ToSet(cmm)
            BY <1>4, <2>2, Zenon
        <3>2. ~(l <= c) /\ ~Precedes(m, Last(cmm)) /\ Scored(m)
            BY <1>2, <3>1, Zenon
        <3> QED
            BY <1>6, <1>8, <3>2, Zenon
    <2> QED
        BY <2>1, <2>2
<1>11. \A m \in ToSet(mm) : Scored(m)
    BY <1>1, <1>2, <1>4, Zenon
<1>12. cmm' = new /\ matched' = mm
    BY Zenon DEF new, mm, n
<1>13. ASSUME NEW x, NEW y
       PROVE  Precedes(x, y)' <=> Precedes(x, y)
    BY DEF Precedes, CheckCfClosest, CfAdjacent, Closest, have_real_component, Elements, FAILURE
<1>14. Ranked(cmm)'
    BY <1>6, <1>12, <1>13 DEF Ranked, Scored, ToSet
<1>15. Keeping'
    BY <1>4, <1>7, <1>9, <1>10, <1>11, <1>12, <1>13, <1>14 DEF Keeping, Scored, ToSet, Last, c
<1> QED
    BY <1>4, <1>12, <1>15, Zenon DEF l

\* What does not touch the array keeps it as it is.
LEMMA KeepingSame ==
    ASSUME Keeping, UNCHANGED <<input, cmm, matched>>
    PROVE  Keeping'
<1>1. ASSUME NEW x, NEW y
      PROVE  Precedes(x, y)' <=> Precedes(x, y)
    BY DEF Precedes, CheckCfClosest, CfAdjacent, Closest, have_real_component, Elements, FAILURE
<1>2. Ranked(cmm)'
    BY <1>1 DEF Keeping, Ranked, Scored, ToSet
<1> QED
    BY <1>1, <1>2 DEF Keeping, Scored, ToSet, Last

\* What touches neither stack nor globals keeps them as they are.
LEMMA MatchingSame ==
    ASSUME Matching, UNCHANGED <<input, cands, k, stack, current>>
    PROVE  Matching'
<1>1. Elements' = Elements /\ Slots' = Slots /\ InFrame'
    BY SameFrame, Zenon DEF Matching
<1> QED
    BY <1>1 DEF Matching, ToSet

-----------------------------------------------------------------------------
(* The steps of find_best_cf                                               *)

\* The frames are selected and the first one begun.
LEMMA SelectFramesKeeps ==
    ASSUME IInv, SelectFrames
    PROVE  IInv'
<1>1. /\ pc = "select" /\ UNCHANGED <<input, cmm, tie_num, matched>>
      /\ cands' = Candidates /\ pc' = "match" /\ BeginFrame(1)
    BY Zenon DEF SelectFrames
<1>2. k' = 1
    BY <1>1, Zenon DEF BeginFrame
<1>3. input \in Inputs /\ cmm = <<>> /\ matched = <<>>
    BY <1>1, Zenon DEF IInv
<1>4. Candidates \in Seq(DOMAIN input.frames) /\ 1 \in 1 .. Len(Candidates)
    BY <1>3, CandidatesIn, Zenon
<1>5. InFrame'
    BY <1>1, <1>2, <1>3, <1>4, Zenon DEF InFrame
<1>6. Matching'
    BY <1>1, <1>5, BeginKeeps, Zenon
<1>7. cmm' = <<>> /\ matched' = <<>>
    BY <1>1, <1>3, Zenon
<1>8. Keeping'
    <2>1. CMM_MAX - 1 \in Nat /\ 0 < CMM_MAX - 1
        BY LimitsAssumption
    <2>2. <<>> \in Seq(ToSet(<<>>)) /\ ToSet(<<>>) = {} /\ Len(<<>>) = 0 /\ DOMAIN <<>> = {}
        BY DEF ToSet
    <2>3. Ranked(cmm)'
        BY <1>7, <2>2 DEF Ranked
    <2> QED
        BY <1>7, <2>1, <2>2, <2>3 DEF Keeping
<1>9. Len(matched') = k' - 1
    BY <1>2, <1>7
<1> QED
    BY <1>1, <1>3, <1>6, <1>8, <1>9 DEF IInv

\* The steps of assign_list leave the array alone.
LEMMA AssignListKeeps ==
    ASSUME IInv, AssignSlot \/ AssignNil \/ Return
    PROVE  IInv'
<1>1. pc = "match" /\ UNCHANGED <<input, pc, cands, k, cmm, tie_num, matched>>
    BY Zenon DEF AssignSlot, AssignNil, Return
<1>2. input \in Inputs /\ Matching /\ Keeping /\ Len(matched) = k - 1
    BY <1>1 DEF IInv
<1>3. Matching'
    BY <1>2, AssignSlotKeeps, AssignNilKeeps, ReturnKeeps, Zenon
<1>4. Keeping'
    BY <1>1, <1>2, KeepingSame, Zenon
<1> QED
    BY <1>1, <1>2, <1>3, <1>4 DEF IInv

\* A match is stored, and the next frame begun or the array complete.
LEMMA StoreFrameKeeps ==
    ASSUME IInv, StoreFrame
    PROVE  IInv'
<1>1. /\ pc = "match" /\ UNCHANGED <<input, cands, tie_num>>
      /\ cmm' = Stored(Match) /\ matched' = Append(matched, Match)
    BY Zenon DEF StoreFrame
<1>2. input \in Inputs /\ Matching /\ Keeping /\ Len(matched) = k - 1
    BY <1>1 DEF IInv
<1>3. Keeping' /\ Len(matched') = Len(matched) + 1
    BY <1>1, <1>2, StoreKeeps, Zenon
<1>4. InFrame /\ k \in 1 .. Len(cands) /\ cands \in Seq(DOMAIN input.frames)
    BY <1>2, Zenon DEF Matching, InFrame
<1>5. k \in Nat /\ Len(cands) \in Nat
    BY <1>4
<1>6. Len(matched') = k
    BY <1>2, <1>3, <1>5
<1>7. CASE k < Len(cands)
    <2>1. BeginFrame(k + 1) /\ pc' = "match"
        BY <1>1, <1>7, Zenon DEF StoreFrame
    <2>2. k' = k + 1
        BY <2>1, Zenon DEF BeginFrame
    <2>3. k + 1 \in 1 .. Len(cands) /\ k = (k + 1) - 1
        BY <1>5, <1>7
    <2>4. InFrame'
        BY <1>1, <1>2, <1>4, <2>2, <2>3, Zenon DEF InFrame
    <2>5. Matching'
        BY <1>1, <2>1, <2>4, BeginKeeps, Zenon
    <2>6. Len(matched') = k' - 1
        BY <1>6, <2>2, <2>3, Zenon
    <2> QED
        BY <1>1, <1>2, <1>3, <2>1, <2>5, <2>6 DEF IInv
<1>8. CASE ~(k < Len(cands))
    <2>1. pc' = "choose" /\ UNCHANGED <<k, stack, current>>
        BY <1>1, <1>8, Zenon DEF StoreFrame
    <2>2. k = Len(cands)
        BY <1>4, <1>5, <1>8
    <2>3. Len(matched') = Len(cands')
        BY <1>1, <1>6, <2>2, Zenon
    <2>4. Matching'
        BY <1>1, <1>2, <2>1, MatchingSame, Zenon
    <2> QED
        BY <1>1, <1>2, <1>3, <2>1, <2>3, <2>4 DEF IInv
<1> QED
    BY <1>7, <1>8, Zenon

\* The array is sorted once more when all frames are matched.
LEMMA ChooseFrameKeeps ==
    ASSUME IInv, ChooseFrame
    PROVE  IInv'
<1>1. pc = "choose" /\ pc' = "done" /\ UNCHANGED <<input, cands, k, stack, current, matched>>
    BY Zenon DEF ChooseFrame
<1>2. input \in Inputs /\ Matching
    BY <1>1 DEF IInv
<1>3. Matching'
    BY <1>1, <1>2, MatchingSame, Zenon
<1> QED
    BY <1>1, <1>2, <1>3 DEF IInv

\* Nothing changes.
LEMMA StutterKeeps ==
    ASSUME IInv, UNCHANGED vars
    PROVE  IInv'
<1>1. UNCHANGED <<input, pc, cands, k, stack, current, cmm, matched>>
    BY DEF vars
<1>2. Matching => Matching'
    BY <1>1, MatchingSame, Zenon
<1>3. Keeping => Keeping'
    BY <1>1, KeepingSame, Zenon
<1> QED
    BY <1>1, <1>2, <1>3 DEF IInv

\* No step disturbs the invariant.
LEMMA InvariantKept == IInv /\ [Next]_vars => IInv'
<1> SUFFICES ASSUME IInv, [Next]_vars PROVE IInv'
    OBVIOUS
<1>1. CASE SelectFrames
    BY <1>1, SelectFramesKeeps
<1>2. CASE AssignSlot \/ AssignNil \/ Return
    BY <1>2, AssignListKeeps
<1>3. CASE StoreFrame
    BY <1>3, StoreFrameKeeps
<1>4. CASE ChooseFrame
    BY <1>4, ChooseFrameKeeps
<1>5. CASE Done \/ UNCHANGED vars
    BY <1>5, StutterKeeps, Zenon DEF Done
<1> QED
    BY <1>1, <1>2, <1>3, <1>4, <1>5, Zenon DEF Next

\* The array of find_best_cf: whatever the number and the order of the frames,
\* it ends with as many of them as there is room for, best first, and no frame
\* that was thrown away on the way precedes the last one kept.
THEOREM FramesKeptAlways == Spec => []FramesKept
<1>1. Init => IInv
    BY DEF Init, IInv
<1>2. IInv /\ [Next]_vars => IInv'
    BY InvariantKept
<1>3. IInv => FramesKept
    <2> SUFFICES ASSUME IInv, pc = "choose"
                 PROVE  /\ Len(cmm) = Min({Len(cands), CMM_MAX - 1})
                        /\ \A i, j \in DOMAIN cmm : i < j => ~Precedes(cmm[j], cmm[i])
                        /\ \A m \in ToSet(matched) \ ToSet(cmm) : ~Precedes(m, Last(cmm))
        BY Zenon DEF FramesKept
    <2>1. Matching /\ Keeping /\ Len(matched) = Len(cands)
        BY DEF IInv
    <2>2. Len(cands) \in Nat /\ CMM_MAX - 1 \in Nat
        <3>1. cands \in Seq(DOMAIN input.frames)
            BY <2>1, Zenon DEF Matching, InFrame
        <3>2. Len(cands) \in Nat
            BY <3>1
        <3> QED
            BY <3>2, LimitsAssumption
    <2>3. Len(cmm) = IF Len(cands) < CMM_MAX - 1 THEN Len(cands) ELSE CMM_MAX - 1
        BY <2>1, Zenon DEF Keeping
    <2>4. Min({Len(cands), CMM_MAX - 1}) =
            IF Len(cands) <= CMM_MAX - 1 THEN Len(cands) ELSE CMM_MAX - 1
        BY <2>2, Smaller, Zenon
    <2>5. Len(cmm) = Min({Len(cands), CMM_MAX - 1})
        BY <2>2, <2>3, <2>4
    <2>6. \A i, j \in DOMAIN cmm : i < j => ~Precedes(cmm[j], cmm[i])
        BY <2>1, Zenon DEF Keeping, Ranked
    <2>7. \A m \in ToSet(matched) \ ToSet(cmm) : ~Precedes(m, Last(cmm))
        BY <2>1, Zenon DEF Keeping
    <2> QED
        BY <2>5, <2>6, <2>7
<1> QED
    BY <1>1, <1>2, <1>3, PTL DEF Spec
-----------------------------------------------------------------------------
(* The order of the elements, and the choices made                         *)

\* What the case analyser is told of an element.
LEMMA ElementFacts ==
    ASSUME InFrame, NEW t \in Elements
    PROVE  /\ input.elements[t].explicit \in BOOLEAN
           /\ input.elements[t].pp \in Seq(ToSet(input.elements[t].pp)) \ {<<>>}
           /\ t \in Nat /\ t # 0
<1>1. IsInput(input)
    BY InputsAssumption, Zenon DEF InFrame
<1>2. \A n \in Nat : \A i \in 1 .. n : i \in Nat /\ i # 0
    OBVIOUS
<1>3. t \in Nat /\ t # 0
    BY <1>2, FrameFacts, Zenon
<1> QED
    BY <1>1, <1>3, Zenon DEF IsInput, Elements

\* The order of the elements is a strict total one.
LEMMA EarlierOrder ==
    ASSUME InFrame, NEW t \in Elements, NEW u \in Elements, NEW v \in Elements
    PROVE  /\ ~Earlier(t, t)
           /\ Earlier(t, u) => ~Earlier(u, t)
           /\ t = u \/ Earlier(t, u) \/ Earlier(u, t)
           /\ Earlier(t, u) /\ Earlier(u, v) => Earlier(t, v)
<1> DEFINE e(x) == input.elements[x].explicit
<1>1. \A x, y : Earlier(x, y) <=> IF e(x) = e(y) THEN x < y ELSE e(x)
    BY Zenon DEF Earlier
<1>2. e(t) \in BOOLEAN /\ e(u) \in BOOLEAN /\ e(v) \in BOOLEAN
    BY ElementFacts, Zenon
<1>3. t \in Nat /\ u \in Nat /\ v \in Nat
    BY ElementFacts, Zenon
<1> HIDE DEF e
<1> QED
    BY <1>1, <1>2, <1>3

\* The element in turn comes before all others that are open.
LEMMA TargetFirst ==
    ASSUME InFrame, NEW l1 \in Lists1(Elements, Slots), NEW t, t = Target(l1), t # 0
    PROVE  /\ t \in Elements /\ l1[t] = UNASSIGNED
           /\ \A u \in Elements : l1[u] = UNASSIGNED => u = t \/ Earlier(t, u)
<1> DEFINE open == {u \in Elements : l1[u] = UNASSIGNED}
           explicit == {u \in open : input.elements[u].explicit}
           S == IF explicit # {} THEN explicit ELSE open
<1>1. open # {} /\ t = Min(S)
    BY Zenon DEF Target
<1>2. S # {} /\ S \subseteq open /\ S \subseteq Elements
    BY <1>1, Zenon
<1>3. \E x \in S : \A y \in S : x <= y
    <2> HIDE DEF S
    <2>1. S \subseteq Nat
        BY <1>2, ElementFacts, Zenon
    <2> QED
        BY <1>2, <2>1, LeastNat
<1>4. t \in S /\ \A y \in S : t <= y
    <2> HIDE DEF S
    <2> QED
        BY <1>1, <1>3, Zenon DEF Min
<1>5. t \in Elements /\ l1[t] = UNASSIGNED
    BY <1>2, <1>4, Zenon
<1>6. ASSUME NEW u \in open
      PROVE  u = t \/ Earlier(t, u)
    <2> DEFINE e(x) == input.elements[x].explicit
    <2>1. u \in Nat /\ t \in Nat /\ e(u) \in BOOLEAN /\ e(t) \in BOOLEAN
        BY <1>5, ElementFacts, Zenon
    <2>2. (e(u) => e(t)) /\ (e(t) = e(u) => u \in S)
        <3>1. CASE explicit = {}
            <4>1. S = open /\ ~e(t) /\ ~e(u)
                BY <1>2, <1>4, <3>1, Zenon
            <4> QED
                BY <4>1, Zenon
        <3>2. CASE explicit # {}
            <4>1. S = explicit
                BY <3>2, Zenon
            <4>2. e(t)
                BY <1>4, <4>1, Zenon
            <4> QED
                BY <2>1, <4>1, <4>2, Zenon
        <3> QED
            BY <3>1, <3>2, Zenon
    <2>3. Earlier(t, u) <=> IF e(t) = e(u) THEN t < u ELSE e(t)
        BY Zenon DEF Earlier
    <2>4. u \in S => t <= u
        BY <1>4, Zenon
    <2> HIDE DEF e, S
    <2>5. e(t) = e(u) => t <= u
        BY <2>2, <2>4, Zenon
    <2>6. e(t) # e(u) => e(t)
        BY <2>1, <2>2, Zenon
    <2> QED
        BY <2>1, <2>3, <2>5, <2>6
<1> QED
    BY <1>5, <1>6, Zenon

\* Marks are neither elements nor slots.
LEMMA MarksApart ==
    ASSUME InFrame
    PROVE  /\ UNASSIGNED \notin Slots /\ NIL_ASSIGNED \notin Slots /\ 0 \notin Elements
           /\ UNASSIGNED \notin Elements /\ UNASSIGNED # NIL_ASSIGNED
<1>1. \A n \in Nat : -1 \notin 1 .. n /\ -2 \notin 1 .. n /\ 0 \notin 1 .. n
    OBVIOUS
<1>2. -1 # -2
    OBVIOUS
<1> QED
    BY <1>1, <1>2, FrameFacts, Zenon DEF UNASSIGNED, NIL_ASSIGNED

\* Only what the earlier elements have counts for the choice of an element.
LEMMA KnownCounts ==
    ASSUME NEW l, NEW m, NEW t, Known1(l, t) = Known1(m, t)
    PROVE  /\ \A s : MayTake(l, t, s) <=> MayTake(m, t, s)
           /\ \A r : MayChoose(l, t, r) <=> MayChoose(m, t, r)
<1>1. \A s : MayTake(l, t, s) <=> MayTake(m, t, s)
    BY Zenon DEF MayTake
<1> QED
    BY <1>1, Zenon DEF MayChoose

\* What is known of two assignments that agree on the earlier elements.
LEMMA KnownSame ==
    ASSUME NEW l, NEW m, NEW t, \A u \in Elements : Earlier(u, t) => l[u] = m[u]
    PROVE  Known1(l, t) = Known1(m, t)
    BY Zenon DEF Known1

\* What has been assigned so far is what is known when an element is in turn.
LEMMA KnownNow ==
    ASSUME NEW m, m = [u \in Elements |-> m[u]], NEW t,
           \A u \in Elements : m[u] # UNASSIGNED <=> Earlier(u, t)
    PROVE  Known1(m, t) = m
<1>1. \A u \in Elements : (IF Earlier(u, t) THEN m[u] ELSE UNASSIGNED) = m[u]
    BY Zenon
<1>2. Known1(m, t) = [u \in Elements |-> m[u]]
    BY <1>1, Zenon DEF Known1
<1> QED
    BY <1>2, Zenon

\* Assignment n is m with choice r for element t.
Chosen(m, t, r, n) == n = [m EXCEPT ![t] = r]

\* An assignment with a choice for the element in turn.
LEMMA ChoiceMade ==
    ASSUME InFrame, NEW m \in Lists1(Elements, Slots), NEW t \in Elements,
           \A u \in Elements : m[u] # UNASSIGNED <=> Earlier(u, t),
           \A u \in Elements : m[u] # UNASSIGNED => MayChoose(m, u, m[u]),
           NEW r \in Slots \cup {NIL_ASSIGNED}, MayChoose(m, t, r), NEW n, Chosen(m, t, r, n)
    PROVE  /\ n \in Lists1(Elements, Slots) /\ n[t] = r /\ r # UNASSIGNED
           /\ \A u \in Elements : u # t => n[u] = m[u]
           /\ \A u \in Elements : n[u] # UNASSIGNED => MayChoose(n, u, n[u])
           /\ Target(n) = 0 \/ n[Target(n)] = UNASSIGNED
           /\ Target(n) # 0 => \A u \in Elements : n[u] # UNASSIGNED <=> Earlier(u, Target(n))
<1>1. n \in Lists1(Elements, Slots) /\ n[t] = r /\ \A u \in Elements : u # t => n[u] = m[u]
    BY Zenon DEF Lists1, Chosen
<1>2. r # UNASSIGNED
    BY MarksApart, Zenon
<1>3. m[t] = UNASSIGNED
    BY EarlierOrder, Zenon
<1>4. ASSUME NEW u \in Elements, n[u] # UNASSIGNED
      PROVE  MayChoose(n, u, n[u])
    <2>1. \A v \in Elements : Earlier(v, u) => v # t
        <3>1. u = t \/ Earlier(u, t)
            BY <1>1, <1>4, Zenon
        <3>2. ~Earlier(t, u)
            BY <3>1, EarlierOrder, Zenon
        <3> QED
            BY <3>2, Zenon
    <2>2. Known1(n, u) = Known1(m, u)
        <3>1. \A v \in Elements : Earlier(v, u) => n[v] = m[v]
            BY <1>1, <2>1, Zenon
        <3> QED
            BY <3>1, Zenon DEF Known1
    <2>3. MayChoose(m, u, n[u])
        BY <1>1, <1>4, Zenon
    <2> QED
        BY <2>2, <2>3, KnownCounts, Zenon
<1>5. Target(n) = 0 \/ n[Target(n)] = UNASSIGNED
    BY <1>1, TargetFirst, Zenon
<1>6. ASSUME NEW v, v = Target(n), v # 0, NEW u \in Elements
      PROVE  n[u] # UNASSIGNED <=> Earlier(u, v)
    <2>1. /\ v \in Elements /\ n[v] = UNASSIGNED
          /\ \A w \in Elements : n[w] = UNASSIGNED => w = v \/ Earlier(v, w)
        BY <1>1, <1>6, TargetFirst, Zenon
    <2>2. Earlier(t, v)
        <3>1. v # t /\ m[v] = UNASSIGNED
            BY <1>1, <1>2, <2>1, Zenon
        <3> QED
            BY <2>1, <3>1, EarlierOrder, Zenon
    <2>3. ASSUME n[u] # UNASSIGNED
          PROVE  Earlier(u, v)
        <3>1. u = t \/ Earlier(u, t)
            BY <1>1, <2>3, Zenon
        <3> QED
            BY <2>1, <2>2, <3>1, EarlierOrder, Zenon
    <2>4. ASSUME n[u] = UNASSIGNED
          PROVE  ~Earlier(u, v)
        BY <2>1, <2>4, EarlierOrder, Zenon
    <2> QED
        BY <2>3, <2>4, Zenon
<1> QED
    BY <1>1, <1>2, <1>4, <1>5, <1>6, Zenon

\* The slots after a choice.
LEMMA InvertedNext ==
    ASSUME InFrame, NEW m \in Lists1(Elements, Slots), NEW t \in Elements, m[t] = UNASSIGNED,
           NEW r \in Slots \cup {NIL_ASSIGNED}, NEW n, Chosen(m, t, r, n)
    PROVE  /\ r = NIL_ASSIGNED => Inverted(n) = Inverted(m)
           /\ r # NIL_ASSIGNED /\ Inverted(m)[r] = UNASSIGNED => Chosen(Inverted(m), r, t, Inverted(n))
<1> DEFINE at(l, s) == CHOOSE u \in Elements : l[u] = s
           on(l, s) == \E u \in Elements : l[u] = s
           of(l, s) == IF on(l, s) THEN at(l, s) ELSE UNASSIGNED
<1>1. n[t] = r /\ \A u \in Elements : u # t => n[u] = m[u]
    BY Zenon DEF Lists1, Chosen
<1>2. \A l : Inverted(l) = [s \in Slots |-> of(l, s)]
    BY Zenon DEF Inverted
<1>3. ASSUME NEW s \in Slots, s # r
      PROVE  of(n, s) = of(m, s)
    <2>1. UNASSIGNED # s
        BY MarksApart, Zenon
    <2>2. \A u \in Elements : n[u] = s <=> m[u] = s
        BY <1>1, <1>3, <2>1, Zenon
    <2>3. on(n, s) <=> on(m, s)
        BY <2>2, Zenon
    <2>4. at(n, s) = at(m, s)
        BY <2>2
    <2> HIDE DEF on, at
    <2> QED
        BY <2>3, <2>4
<1> HIDE DEF of
<1>4. CASE r = NIL_ASSIGNED
    <2>1. \A s \in Slots : of(n, s) = of(m, s)
        BY <1>3, <1>4, MarksApart, Zenon
    <2> QED
        BY <1>2, <1>4, <2>1, Zenon
<1>5. CASE r # NIL_ASSIGNED /\ Inverted(m)[r] = UNASSIGNED
    <2>1. r \in Slots
        BY <1>5, Zenon
    <2>2. of(m, r) = UNASSIGNED
        <3>1. [s \in Slots |-> of(m, s)][r] = of(m, r)
            BY <2>1, Zenon
        <3> QED
            BY <1>2, <1>5, <3>1, Zenon
    <2>3. \A u \in Elements : m[u] # r
        BY <2>2, MarksApart, Zenon DEF of
    <2>4. \A u \in Elements : n[u] = r <=> u = t
        BY <1>1, <2>3, Zenon
    <2>5. of(n, r) = t
        BY <2>4, Zenon DEF of
    <2>6. [Inverted(m) EXCEPT ![r] = t] = [s \in Slots |-> IF s = r THEN t ELSE of(m, s)]
        <3>1. \A s \in Slots : of(m, s) = Inverted(m)[s]
            BY <1>2, Zenon
        <3> QED
            BY <1>2, Zenon
    <2>7. \A s \in Slots : of(n, s) = IF s = r THEN t ELSE of(m, s)
        BY <1>3, <2>5, Zenon
    <2> QED
        BY <1>2, <1>5, <2>6, <2>7, Zenon DEF Chosen
<1> QED
    BY <1>4, <1>5, Zenon
-----------------------------------------------------------------------------
(* Scores and merits                                                       *)

\* The score of the slots taken so far.
Scores(l) == [t \in Elements |-> IF t \in Assigned(l) THEN Frame.score[t][l[t]] ELSE 0]

\* The scores of the elements assigned, and their sum.
LEMMA ScoresIn ==
    ASSUME InFrame, NEW l \in Lists1(Elements, Slots)
    PROVE  Scores(l) \in [Elements -> Int] /\ TotalScore(l) \in Int /\ TotalScore(l) = SumFunction(Scores(l))
<1>1. ASSUME NEW t \in Elements
      PROVE  (IF t \in Assigned(l) THEN Frame.score[t][l[t]] ELSE 0) \in Int
    <2>1. Frame.score[t] \in [Slots -> Int]
        BY FrameFacts, Zenon
    <2>2. t \in Assigned(l) => l[t] \in Slots
        BY Zenon DEF Assigned, Lists1
    <2>3. 0 \in Int
        OBVIOUS
    <2> QED
        BY <2>1, <2>2, <2>3, Zenon
<1>2. Scores(l) \in [Elements -> Int]
    BY <1>1, Zenon DEF Scores
<1>3. TotalScore(l) = SumFunction(Scores(l))
    BY Zenon DEF TotalScore, Scores
<1>4. SumFunction(Scores(l)) \in Int
    BY <1>2, FrameFacts, SumIn, Zenon
<1> QED
    BY <1>2, <1>3, <1>4, Zenon

\* The sum of the scores after a choice.
LEMMA TotalNext ==
    ASSUME InFrame, NEW m \in Lists1(Elements, Slots), NEW t \in Elements, m[t] = UNASSIGNED,
           NEW r \in Slots \cup {NIL_ASSIGNED}, NEW n, Chosen(m, t, r, n)
    PROVE  /\ r = NIL_ASSIGNED => TotalScore(n) = TotalScore(m)
           /\ r # NIL_ASSIGNED => TotalScore(n) = TotalScore(m) + Frame.score[t][r]
<1>1. n \in Lists1(Elements, Slots) /\ n[t] = r /\ \A u \in Elements : u # t => n[u] = m[u]
    BY Zenon DEF Lists1, Chosen
<1> DEFINE f == Scores(m)
           g == Scores(n)
<1>2. /\ f \in [Elements -> Int] /\ TotalScore(m) = SumFunction(f) /\ TotalScore(m) \in Int
      /\ g \in [Elements -> Int] /\ TotalScore(n) = SumFunction(g)
    BY <1>1, ScoresIn, Zenon
<1>3. f[t] = 0
    BY Zenon DEF Scores, Assigned
<1>4. \A u \in Elements : u # t => f[u] = g[u]
    BY <1>1, Zenon DEF Scores, Assigned
<1>5. /\ r = NIL_ASSIGNED => g[t] = 0
      /\ r # NIL_ASSIGNED => g[t] = Frame.score[t][r]
    <2>1. r # UNASSIGNED
        BY MarksApart, Zenon
    <2> QED
        BY <1>1, <2>1, Zenon DEF Scores, Assigned
<1> HIDE DEF f, g
<1>6. SumFunction(g) = SumFunction(f) - f[t] + g[t]
    <2>1. PICK l \in Nat : Elements = 1 .. l
        BY FrameFacts, Zenon
    <2>2. /\ f \in [1 .. l -> Int] /\ g \in [1 .. l -> Int] /\ t \in 1 .. l
          /\ \A u \in 1 .. l : u # t => f[u] = g[u]
        BY <1>2, <1>4, <2>1, Zenon
    <2> QED
        BY <2>2, SumChanged
<1>7. g[t] \in Int
    BY <1>2, Zenon
<1>8. \A x, y \in Int : x - 0 + y = x + y /\ x + 0 = x
    OBVIOUS
<1>9. TotalScore(n) = TotalScore(m) + g[t]
    BY <1>2, <1>3, <1>6, <1>7
<1>10. TotalScore(m) + 0 = TotalScore(m)
    BY <1>2
<1> QED
    BY <1>5, <1>9, <1>10, Zenon

\* Nothing assigned has no score.
LEMMA TotalFresh ==
    ASSUME InFrame, NEW m, m = [t \in Elements |-> UNASSIGNED]
    PROVE  TotalScore(m) = 0
<1>1. Scores(m) = [t \in Elements |-> 0]
    BY Zenon DEF Scores, Assigned
<1>2. m \in Lists1(Elements, Slots)
    BY Zenon DEF Lists1
<1>3. TotalScore(m) = SumFunction(Scores(m))
    BY <1>2, ScoresIn, Zenon
<1> QED
    BY <1>1, <1>3, FrameFacts, SumOfZeros, Zenon

\* The first number that differs decides.
LEMMA BeatsFirst ==
    ASSUME NEW a, NEW b
    PROVE  Beats(a, b) <=> \/ a[1] > b[1]
                           \/ a[1] = b[1] /\ a[2] > b[2]
                           \/ a[1] = b[1] /\ a[2] = b[2] /\ a[3] > b[3]
                           \/ a[1] = b[1] /\ a[2] = b[2] /\ a[3] = b[3] /\ a[4] > b[4]
<1> DEFINE P(x) == a[x] > b[x] /\ \A y \in 1 .. x - 1 : a[y] = b[y]
<1>1. Beats(a, b) <=> \E x \in 1 .. 4 : P(x)
    BY Zenon DEF Beats
<1>2. (\A y \in 1 .. 1 - 1 : a[y] = b[y]) <=> TRUE
    OBVIOUS
<1>3. (\A y \in 1 .. 2 - 1 : a[y] = b[y]) <=> a[1] = b[1]
    OBVIOUS
<1>4. (\A y \in 1 .. 3 - 1 : a[y] = b[y]) <=> a[1] = b[1] /\ a[2] = b[2]
    OBVIOUS
<1>5. (\A y \in 1 .. 4 - 1 : a[y] = b[y]) <=> a[1] = b[1] /\ a[2] = b[2] /\ a[3] = b[3]
    OBVIOUS
<1>6. 1 .. 4 = {1, 2, 3, 4}
    OBVIOUS
<1>7. (\E x \in 1 .. 4 : P(x)) <=> P(1) \/ P(2) \/ P(3) \/ P(4)
    <2> HIDE DEF P
    <2> QED
        BY <1>6, Zenon
<1> QED
    BY <1>1, <1>2, <1>3, <1>4, <1>5, <1>7, Zenon

\* No merit beats itself, and what beats a merit beats all that it beats.
LEMMA BeatsOrder ==
    ASSUME NEW a, NEW b, NEW c, Four(a), Four(b), Four(c)
    PROVE  ~Beats(a, a) /\ (Beats(a, b) /\ Beats(b, c) => Beats(a, c))
    BY BeatsFirst DEF Four

\* The numbers compared are integers.
LEMMA MeritFour ==
    ASSUME InFrame, NEW l1 \in Complete(Elements, Slots), NEW l2 \in Lists2(Elements, Slots), NEW score \in Int
    PROVE  Four(Merit(l1, l2, score))
<1> DEFINE A == Assigned(l1)
           C == {p \in A \X A : p[1] < p[2] /\ l1[p[2]] < l1[p[1]]}
<1>1. PICK n \in Nat : Elements = 1 .. n
    BY FrameFacts, Zenon
<1>2. A \in SUBSET (1 .. n)
    BY <1>1, Zenon DEF Assigned
<1> HIDE DEF A
<1>3. Count(l1) \in Int
    <2>1. Cardinality(A) \in Nat
        BY <1>2, TakenOut, Zenon
    <2>2. \A x \in Nat : x \in Int
        OBVIOUS
    <2> QED
        BY <2>1, <2>2, Zenon DEF Count, A
<1>4. Positions(l1) \in Int
    <2>1. SumSet(A) \in Int
        BY <1>2, SumSetIn, Zenon
    <2> QED
        BY <2>1, Zenon DEF Positions, A
<1>5. -Crossings(l1) \in Int
    <2>1. IsFiniteSet(A)
        <3>1. 0 \in Int /\ 1 \in Int /\ n \in Int
            OBVIOUS
        <3>2. IsFiniteSet(1 .. n)
            BY <3>1, FS_Interval
        <3> QED
            BY <1>2, <3>2, FS_Subset
    <2>2. IsFiniteSet(A \X A)
        BY <2>1, FS_Product
    <2>3. C \subseteq A \X A
        BY Zenon
    <2>4. IsFiniteSet(C)
        BY <2>2, <2>3, FS_Subset
    <2>5. Cardinality(C) \in Nat
        BY <2>4, FS_CardinalityType
    <2>6. Crossings(l1) \in Nat
        BY <2>5, Zenon DEF Crossings, C, A
    <2> QED
        BY <2>6
<1>6. Merit(l1, l2, score)[1] \in Int
    BY MeritIn, Zenon
<1>7. PICK x1, x2, x3, x4 : /\ Merit(l1, l2, score) = <<x1, x2, x3, x4>>
                            /\ x2 \in Int /\ x3 \in Int /\ x4 \in Int
    <2>1. 0 \in Int
        OBVIOUS
    <2>2. CASE input.prob
        <3>1. \E x1 : Merit(l1, l2, score) = <<x1, 0, 0, 0>>
            BY <2>2, Zenon DEF Merit
        <3> QED
            BY <2>1, <3>1, Zenon
    <2>3. CASE ~input.prob
        <3>1. \E x1 : Merit(l1, l2, score) = <<x1, Count(l1), Positions(l1), -Crossings(l1)>>
            BY <2>3, Zenon DEF Merit
        <3> QED
            BY <1>3, <1>4, <1>5, <3>1, Zenon
    <2> QED
        BY <2>2, <2>3, Zenon
<1> DEFINE m == Merit(l1, l2, score)
<1> HIDE DEF m
<1>8. m = <<x1, x2, x3, x4>> /\ x2 \in Int /\ x3 \in Int /\ x4 \in Int /\ m[1] \in Int
    BY <1>6, <1>7, Zenon DEF m
<1>9. Four(m)
    BY <1>8 DEF Four
<1> QED
    BY <1>9, Zenon DEF m
-----------------------------------------------------------------------------
(* What is tried                                                           *)

HasTrial(l, p, s, i) == \E x \in 1 .. (l * p) : 1 + ((x - 1) \div p) = s /\ 1 + ((x - 1) % p) = i

\* Trials are numbered so that every slot and every case has one.
LEMMA TrialNumbers ==
    ASSUME NEW l \in Nat, NEW p \in Nat \ {0}, NEW s \in 1 .. l, NEW i \in 1 .. p
    PROVE  HasTrial(l, p, s, i)
<1> DEFINE x == p * (s - 1) + i
           q == (x - 1) \div p
           r == (x - 1) % p
<1>1. p * (s - 1) \in Nat /\ x \in Nat /\ x - 1 = p * (s - 1) + (i - 1)
    OBVIOUS
<1>2. x \in 1 .. (l * p)
    <2>1. p * (s - 1) <= p * (l - 1)
        OBVIOUS
    <2>2. p * (l - 1) + p = l * p /\ p * (s - 1) >= 0
        OBVIOUS
    <2> DEFINE y == p * (s - 1)
               z == p * (l - 1)
               w == l * p
    <2>3. y \in Int /\ z \in Int /\ w \in Int
        OBVIOUS
    <2> HIDE DEF y, z, w
    <2>4. y <= z /\ z + p = w /\ y >= 0
        BY <2>1, <2>2, Zenon DEF y, z, w
    <2>5. y + i \in 1 .. w
        BY <2>3, <2>4
    <2> QED
        BY <2>5, Zenon DEF y, w
<1>3. q \in Int /\ r \in 0 .. (p - 1) /\ x - 1 = p * q + r
    BY <1>1
<1> HIDE DEF q, r, x
<1>4. p * q + r = p * (s - 1) + (i - 1)
    BY <1>1, <1>3, Zenon
<1>5. ~(q < s - 1)
    <2> SUFFICES ASSUME q < s - 1 PROVE FALSE
        OBVIOUS
    <2>1. p * q <= p * (s - 1) - p
        BY <1>3
    <2> QED
        BY <1>1, <1>3, <1>4, <2>1
<1>6. ~(q > s - 1)
    <2> SUFFICES ASSUME q > s - 1 PROVE FALSE
        OBVIOUS
    <2>1. p * q >= p * (s - 1) + p
        BY <1>3
    <2> QED
        BY <1>1, <1>3, <1>4, <2>1
<1>7. q = s - 1
    BY <1>3, <1>5, <1>6
<1>8. r = i - 1
    BY <1>1, <1>3, <1>4, <1>7
<1>9. 1 + q = s /\ 1 + r = i
    BY <1>7, <1>8
<1> QED
    BY <1>2, <1>9, Zenon DEF q, r, HasTrial

\* The slot and the case of trial x for element t, and whether it succeeds.
SlotOf(t, x) == 1 + ((x - 1) \div Len(input.elements[t].pp))
CaseOf(t, x) == input.elements[t].pp[1 + ((x - 1) % Len(input.elements[t].pp))]
Fits(l1, l2, t, x) == l2[SlotOf(t, x)] = UNASSIGNED /\ Allowed(l1, l2, t, CaseOf(t, x), SlotOf(t, x))

\* What is known after the trials of s.
TriedAll(l1, l2, t, s, v) ==
    /\ v \in Trial
    /\ v.available <=> \E x \in s : Fits(l1, l2, t, x)
    /\ \A r : r \in ToSet(v.slots) <=> \E x \in s : r = SlotOf(t, x) /\ GoodEnough(t, r) /\ Fits(l1, l2, t, x)

\* What an element took before does not count when NO is asked for only once.
LEMMA StaleSame ==
    ASSUME InFrame, ~NoTwice, NEW l1 \in Lists1(Elements, Slots), NEW l2, NEW t \in Elements,
           NEW s, \A y \in s : y \in 1 .. TrialCount(t), NEW x \in s,
           NEW acc, TriedAll(l1, l2, t, s \ {x}, acc),
           NEW now, now = IF acc.slots = <<>> THEN l1 ELSE [l1 EXCEPT ![t] = Last(acc.slots)]
    PROVE  Allowed(now, l2, t, CaseOf(t, x), SlotOf(t, x)) <=> Allowed(l1, l2, t, CaseOf(t, x), SlotOf(t, x))
<1> DEFINE c == CaseOf(t, x)
           p == Len(input.elements[t].pp)
<1>1. p \in Nat \ {0} /\ Len(Frame.slots) \in Nat
    BY FrameFacts, Zenon
<1>2. \A y \in s : y \in Int /\ SlotOf(t, y) \in Slots
    <2>1. \A n, y : y \in 1 .. n => y \in Int
        OBVIOUS
    <2>2. ASSUME NEW y \in 1 .. TrialCount(t)
          PROVE  SlotOf(t, y) \in Slots
        BY <1>1, TrialBounds, FrameFacts, Zenon DEF SlotOf, TrialCount
    <2> QED
        BY <2>1, <2>2, Zenon
<1>3. input.elements[t].pp \in Seq(ToSet(input.elements[t].pp))
    BY ElementFacts, Zenon
<1>4. ASSUME NEW y \in s
      PROVE  CaseOf(t, y) \in ToSet(input.elements[t].pp)
    <2>1. \A a \in Int : \A b \in Nat \ {0} : 1 + (a % b) \in 1 .. b
        OBVIOUS
    <2>2. y - 1 \in Int
        BY <1>2
    <2>3. 1 + ((y - 1) % p) \in 1 .. p
        BY <1>1, <2>1, <2>2, Zenon
    <2>4. DOMAIN input.elements[t].pp = 1 .. p
        BY <1>3
    <2> QED
        BY <2>3, <2>4, Zenon DEF CaseOf, ToSet
<1>5. CASE acc.slots = <<>>
    BY <1>5, Zenon
<1>6. CASE acc.slots # <<>> /\ ~input.elements[t].adjacent
    <2>1. now = [l1 EXCEPT ![t] = Last(acc.slots)]
        BY <1>6, Zenon
    <2>2. \A u \in Elements : u # t => now[u] = l1[u]
        BY <2>1, Zenon DEF Lists1
    <2>3. \A u \in Elements : input.elements[u].adjacent => now[u] = l1[u]
        BY <1>6, <2>2, Zenon
    <2>4. check_adjacent_assigned(now) <=> check_adjacent_assigned(l1)
        BY <2>3 DEF check_adjacent_assigned
    <2> QED
        BY <2>4, Zenon DEF Allowed
<1>7. CASE acc.slots # <<>> /\ input.elements[t].adjacent
    <2>1. ASSUME c = "no", c = Case(SlotOf(t, x))
          PROVE  FALSE
        <3>1. "no" \in ToSet(input.elements[t].pp)
            BY <1>4, <2>1, Zenon
        <3>2. /\ ~(p > 1)
              /\ \A a, b \in Slots : Case(a) = "no" /\ Case(b) = "no" => a = b
            BY <1>7, <3>1, Zenon DEF NoTwice
        <3>3. p = 1
            <4>1. \A z \in Nat \ {0} : ~(z > 1) => z = 1
                OBVIOUS
            <4> QED
                BY <1>1, <3>2, <4>1, Zenon
        <3>4. Last(acc.slots) \in ToSet(acc.slots)
            <4>1. acc.slots \in Seq(Slots)
                BY DEF TriedAll, Trial
            <4>2. \A X : \A z \in Seq(X) : z # <<>> => Len(z) \in DOMAIN z
                OBVIOUS
            <4>3. Len(acc.slots) \in DOMAIN acc.slots
                BY <1>7, <4>1, <4>2, Zenon
            <4> QED
                BY <4>3, Zenon DEF Last, ToSet
        <3>5. PICK y \in s \ {x} : Fits(l1, l2, t, y)
            BY <3>4, Zenon DEF TriedAll
        <3>6. CaseOf(t, y) = c
            <4>1. \A a \in Int : a % 1 = 0
                OBVIOUS
            <4>2. y - 1 \in Int /\ x - 1 \in Int
                BY <1>2, <3>5
            <4>3. (y - 1) % p = (x - 1) % p
                BY <3>3, <4>1, <4>2, Zenon
            <4> QED
                BY <4>3, Zenon DEF CaseOf
        <3>7. Case(SlotOf(t, y)) = "no"
            <4>1. "no" # "mi"
                OBVIOUS
            <4> QED
                BY <2>1, <3>5, <3>6, <4>1, Zenon DEF Fits, Allowed
        <3>8. SlotOf(t, y) = SlotOf(t, x)
            BY <1>2, <2>1, <3>2, <3>5, <3>7, Zenon
        <3>9. x = y
            <4>1. \A a \in Int : 1 + ((a - 1) \div 1) = a
                OBVIOUS
            <4>2. SlotOf(t, y) = y /\ SlotOf(t, x) = x
                BY <1>2, <3>3, <3>5, <4>1, Zenon DEF SlotOf
            <4> QED
                BY <3>8, <4>2, Zenon
        <3> QED
            BY <3>5, <3>9, Zenon
    <2> HIDE DEF c
    <2> QED
        BY <2>1, Zenon DEF Allowed, c
<1> QED
    BY <1>5, <1>6, <1>7, Zenon

\* One trial.
LEMMA TrialTaken ==
    ASSUME InFrame, ~NoTwice, NEW l1 \in Lists1(Elements, Slots), NEW l2, NEW t \in Elements,
           NEW s, \A y \in s : y \in 1 .. TrialCount(t), NEW x \in s,
           NEW acc, TriedAll(l1, l2, t, s \ {x}, acc)
    PROVE  TriedAll(l1, l2, t, s, Tried(l1, l2, t, acc, x))
<1> DEFINE now == IF acc.slots = <<>> THEN l1 ELSE [l1 EXCEPT ![t] = Last(acc.slots)]
           q == SlotOf(t, x)
           v == Tried(l1, l2, t, acc, x)
           fits == Fits(l1, l2, t, x)
           good == GoodEnough(t, q)
<1>1. Allowed(now, l2, t, CaseOf(t, x), q) <=> Allowed(l1, l2, t, CaseOf(t, x), q)
    BY StaleSame
<1>2. v = IF l2[q] = UNASSIGNED /\ Allowed(now, l2, t, CaseOf(t, x), q)
          THEN [available |-> TRUE, slots |-> IF good THEN Append(acc.slots, q) ELSE acc.slots]
          ELSE acc
    BY Zenon DEF Tried, SlotOf, CaseOf
<1> HIDE DEF now, q, v, good
<1>3. fits <=> l2[q] = UNASSIGNED /\ Allowed(now, l2, t, CaseOf(t, x), q)
    BY <1>1, Zenon DEF Fits, q
<1> HIDE DEF fits
<1>4. /\ ~fits => v = acc
      /\ fits /\ good => v = [available |-> TRUE, slots |-> Append(acc.slots, q)]
      /\ fits /\ ~good => v = [available |-> TRUE, slots |-> acc.slots]
    BY <1>2, <1>3, Zenon
<1>5. v \in Trial
    <2>1. acc \in Trial
        BY Zenon DEF TriedAll
    <2> QED
        BY <2>1, TriedIn, Zenon DEF v, TrialCount
<1>6. /\ acc.available <=> \E y \in s \ {x} : Fits(l1, l2, t, y)
      /\ \A r : r \in ToSet(acc.slots) <=>
            \E y \in s \ {x} : r = SlotOf(t, y) /\ GoodEnough(t, r) /\ Fits(l1, l2, t, y)
    BY Zenon DEF TriedAll
<1>7. v.available <=> \E y \in s : Fits(l1, l2, t, y)
    <2>1. v.available <=> fits \/ acc.available
        <3>1. \A z : [available |-> TRUE, slots |-> z].available = TRUE
            OBVIOUS
        <3> QED
            BY <1>4, <3>1, Zenon
    <2> QED
        BY <1>6, <2>1, Zenon DEF fits
<1>8. \A r : r \in ToSet(v.slots) <=> r \in ToSet(acc.slots) \/ (fits /\ good /\ r = q)
    <2>1. \A z : [available |-> TRUE, slots |-> z].slots = z
        OBVIOUS
    <2>2. ToSet(Append(acc.slots, q)) = ToSet(acc.slots) \cup {q}
        <3>1. acc.slots \in Seq(Slots)
            BY DEF TriedAll, Trial
        <3>2. q \in Slots
            <4>1. x \in 1 .. TrialCount(t)
                BY Zenon
            <4> QED
                BY <4>1, TrialBounds, FrameFacts, Zenon DEF SlotOf, q, TrialCount
        <3> QED
            BY <3>1, <3>2, AppendedSet
    <2>3. /\ ~fits => v.slots = acc.slots
          /\ fits /\ good => v.slots = Append(acc.slots, q)
          /\ fits /\ ~good => v.slots = acc.slots
        BY <1>4, <2>1, Zenon
    <2>4. /\ ~(fits /\ good) => ToSet(v.slots) = ToSet(acc.slots)
          /\ fits /\ good => ToSet(v.slots) = ToSet(acc.slots) \cup {q}
        BY <2>2, <2>3, Zenon
    <2> QED
        BY <2>4
<1>9. ASSUME NEW r
      PROVE  r \in ToSet(v.slots) <=> \E y \in s : r = SlotOf(t, y) /\ GoodEnough(t, r) /\ Fits(l1, l2, t, y)
    BY <1>6, <1>8, Zenon DEF q, fits, good
<1> QED
    BY <1>5, <1>7, <1>9, Zenon DEF TriedAll, v

\* What is taken for an element is what the rules admit.
LEMMA SlotsTakenRight ==
    ASSUME InFrame, ~NoTwice, NEW l1 \in Lists1(Elements, Slots), NEW l2, NEW t \in Elements
    PROVE  TriedAll(l1, l2, t, 1 .. TrialCount(t), SlotsTaken(l1, l2, t))
<1> DEFINE n == TrialCount(t)
           b == [available |-> FALSE, slots |-> <<>>]
<1>1. n \in Nat
    BY CountIn, Zenon
<1> PICK h : SlotsTaken(l1, l2, t) = h[1 .. n] /\ TakesInTurn(h, l1, l2, t)
    BY SlotsTakenFolds, Zenon
<1>2. \A s \in SUBSET (1 .. n) :
            /\ s = {} => h[s] = b
            /\ s # {} => h[s] = Tried(l1, l2, t, h[s \ {Max(s)}], Max(s))
    BY Zenon DEF TakesInTurn
<1>3. TriedAll(l1, l2, t, {}, b)
    <2>1. b \in Trial /\ b.available = FALSE /\ ToSet(b.slots) = {}
        BY DEF Trial, ToSet
    <2> QED
        BY <2>1, Zenon DEF TriedAll
<1>4. \A s \in SUBSET (1 .. n) : s # {} =>
            Max(s) \in s /\ s \ {Max(s)} \in SUBSET (1 .. n)
    BY <1>1, GreatestIndex, Zenon
<1>5. ASSUME NEW s \in SUBSET (1 .. n), NEW x \in s, NEW acc, TriedAll(l1, l2, t, s \ {x}, acc)
      PROVE  TriedAll(l1, l2, t, s, Tried(l1, l2, t, acc, x))
    <2>1. \A y \in s : y \in 1 .. TrialCount(t)
        BY Zenon
    <2> QED
        BY <1>5, <2>1, TrialTaken
<1> HIDE DEF n, b
<1> DEFINE D == SUBSET (1 .. n)
           g == [s \in D |-> TriedAll(l1, l2, t, s, h[s])]
<1>6. g[{}] \in {TRUE}
    <2>1. {} \in D
        BY Zenon
    <2>2. h[{}] = b
        BY <1>2, <2>1, Zenon
    <2>3. TriedAll(l1, l2, t, {}, h[{}])
        BY <1>3, <2>2, Zenon
    <2>4. g[{}] = TriedAll(l1, l2, t, {}, h[{}])
        BY <2>1, Zenon
    <2> QED
        BY <2>3, <2>4
<1>7. ASSUME NEW s \in D, s # {}, g[s \ {Max(s)}] \in {TRUE}
      PROVE  g[s] \in {TRUE}
    <2>1. Max(s) \in s /\ s \ {Max(s)} \in D
        BY <1>4, <1>7, Zenon
    <2>2. g[s \ {Max(s)}] = TriedAll(l1, l2, t, s \ {Max(s)}, h[s \ {Max(s)}])
        BY <2>1, Zenon
    <2>3. g[s] = TriedAll(l1, l2, t, s, h[s])
        BY Zenon
    <2>4. TriedAll(l1, l2, t, s \ {Max(s)}, h[s \ {Max(s)}])
        BY <1>7, <2>2
    <2>5. TriedAll(l1, l2, t, s, Tried(l1, l2, t, h[s \ {Max(s)}], Max(s)))
        BY <1>5, <2>1, <2>4, Zenon
    <2>6. h[s] = Tried(l1, l2, t, h[s \ {Max(s)}], Max(s))
        BY <1>2, <1>7, Zenon
    <2>7. TriedAll(l1, l2, t, s, h[s])
        BY <2>5, <2>6, Zenon
    <2> QED
        BY <2>3, <2>7
<1>8. g[1 .. n] \in {TRUE}
    <2> DEFINE S == {TRUE}
    <2>1. g[{}] \in S /\ \A s \in SUBSET (1 .. n) : s # {} /\ g[s \ {Max(s)}] \in S => g[s] \in S
        BY <1>6, <1>7, Zenon
    <2> HIDE DEF g, S
    <2>2. g[1 .. n] \in S
        BY <1>1, <2>1, FoldStays, Zenon
    <2> QED
        BY <2>2, Zenon DEF S
<1>9. g[1 .. n] = TriedAll(l1, l2, t, 1 .. n, h[1 .. n])
    BY Zenon
<1>10. TriedAll(l1, l2, t, 1 .. n, h[1 .. n])
    BY <1>8, <1>9
<1> QED
    BY <1>2, <1>10, Zenon DEF n

\* What two sequences hold together.
LEMMA JoinedSet ==
    \A Y : \A a, b \in Seq(Y) : ToSet(a \o b) = ToSet(a) \cup ToSet(b)
<1> SUFFICES ASSUME NEW Y, NEW a \in Seq(Y), NEW b \in Seq(Y)
             PROVE  ToSet(a \o b) = ToSet(a) \cup ToSet(b)
    OBVIOUS
<1>1. /\ DOMAIN (a \o b) = 1 .. (Len(a) + Len(b))
      /\ DOMAIN a = 1 .. Len(a) /\ DOMAIN b = 1 .. Len(b)
      /\ \A i \in 1 .. (Len(a) + Len(b)) : (a \o b)[i] = IF i <= Len(a) THEN a[i] ELSE b[i - Len(a)]
    OBVIOUS
<1> DEFINE m == Len(a)
           n == Len(b)
           c == a \o b
<1>2. m \in Nat /\ n \in Nat
    OBVIOUS
<1> HIDE DEF m, n, c
<1>3. /\ DOMAIN c = 1 .. (m + n) /\ DOMAIN a = 1 .. m /\ DOMAIN b = 1 .. n
      /\ \A i \in 1 .. (m + n) : c[i] = IF i <= m THEN a[i] ELSE b[i - m]
    BY <1>1, Zenon DEF m, n, c
<1>5. \A i \in 1 .. m : i \in 1 .. (m + n) /\ i <= m
    BY <1>2
<1>6. \A i \in 1 .. n : i + m \in 1 .. (m + n) /\ ~(i + m <= m) /\ (i + m) - m = i
    BY <1>2
<1>7. \A i \in 1 .. (m + n) : i <= m => i \in 1 .. m
    BY <1>2
<1>8. \A i \in 1 .. (m + n) : ~(i <= m) => i - m \in 1 .. n
    BY <1>2
<1>9. \A i \in 1 .. m : c[i] = a[i]
    BY <1>3, <1>5, Zenon
<1>10. \A i \in 1 .. n : c[i + m] = b[i]
    BY <1>3, <1>6, Zenon
<1>11. ASSUME NEW z \in ToSet(c)
       PROVE  z \in ToSet(a) \cup ToSet(b)
    <2>1. PICK i \in 1 .. (m + n) : z = c[i]
        BY <1>3, Zenon DEF ToSet
    <2>2. CASE i <= m
        BY <1>3, <1>7, <2>1, <2>2, Zenon DEF ToSet
    <2>3. CASE ~(i <= m)
        BY <1>3, <1>8, <2>1, <2>3, Zenon DEF ToSet
    <2> QED
        BY <2>2, <2>3, Zenon
<1>12. ASSUME NEW z \in ToSet(a) \cup ToSet(b)
       PROVE  z \in ToSet(c)
    <2>1. CASE z \in ToSet(a)
        <3>1. PICK i \in 1 .. m : z = a[i]
            BY <1>3, <2>1, Zenon DEF ToSet
        <3> QED
            BY <1>3, <1>5, <1>9, <3>1, Zenon DEF ToSet
    <2>2. CASE z \in ToSet(b)
        <3>1. PICK i \in 1 .. n : z = b[i]
            BY <1>3, <2>2, Zenon DEF ToSet
        <3>2. z = c[i + m] /\ i + m \in DOMAIN c
            BY <1>3, <1>6, <1>10, <3>1, Zenon
        <3> QED
            BY <3>2, Zenon DEF ToSet
    <2> QED
        BY <2>1, <2>2, Zenon
<1> QED
    BY <1>11, <1>12, Zenon DEF c

\* What is tried for the element in turn is what the rules admit.
LEMMA TrialsExact ==
    ASSUME InFrame, ~NoTwice, NEW l1 \in Lists1(Elements, Slots), NEW l2, l2 = Inverted(l1),
           NEW t \in Elements, Known1(l1, t) = l1
    PROVE  \A r : r \in ToSet(Trials(l1, l2, t)) <=> r \in Slots \cup {NIL_ASSIGNED} /\ MayChoose(l1, t, r)
<1> DEFINE N == 1 .. TrialCount(t)
           v == SlotsTaken(l1, l2, t)
           pp == input.elements[t].pp
<1>1. /\ v \in Trial
      /\ v.available <=> \E x \in N : Fits(l1, l2, t, x)
      /\ \A r : r \in ToSet(v.slots) <=> \E x \in N : r = SlotOf(t, x) /\ GoodEnough(t, r) /\ Fits(l1, l2, t, x)
    BY SlotsTakenRight, Zenon DEF TriedAll
<1>2. DOMAIN pp = 1 .. Len(pp) /\ Len(pp) \in Nat \ {0} /\ Len(Frame.slots) \in Nat
    <2>1. pp \in Seq(ToSet(pp))
        BY ElementFacts, Zenon
    <2>2. DOMAIN pp = 1 .. Len(pp)
        BY <2>1
    <2> QED
        BY <2>2, FrameFacts, Zenon
<1>3. \A s \in Slots : MayTake(l1, t, s) <=>
            l2[s] = UNASSIGNED /\ \E i \in DOMAIN pp : Allowed(l1, l2, t, pp[i], s)
    BY Zenon DEF MayTake
<1>4. ASSUME NEW x \in N, Fits(l1, l2, t, x)
      PROVE  SlotOf(t, x) \in Slots /\ MayTake(l1, t, SlotOf(t, x))
    <2>1. SlotOf(t, x) \in Slots
        BY <1>2, TrialBounds, FrameFacts, Zenon DEF SlotOf, TrialCount
    <2>2. 1 + ((x - 1) % Len(pp)) \in DOMAIN pp
        <3>1. \A a \in Int : \A b \in Nat \ {0} : 1 + (a % b) \in 1 .. b
            OBVIOUS
        <3>2. \A n, y : y \in 1 .. n => y - 1 \in Int
            OBVIOUS
        <3>3. x - 1 \in Int
            BY <3>2, Zenon
        <3> QED
            BY <1>2, <3>1, <3>3, Zenon
    <2> QED
        BY <1>3, <1>4, <2>1, <2>2, Zenon DEF Fits, CaseOf
<1>5. ASSUME NEW s \in Slots, MayTake(l1, t, s)
      PROVE  \E x \in N : s = SlotOf(t, x) /\ Fits(l1, l2, t, x)
    <2>1. l2[s] = UNASSIGNED
        BY <1>3, <1>5, Zenon
    <2>2. PICK i \in 1 .. Len(pp) : Allowed(l1, l2, t, pp[i], s)
        BY <1>2, <1>3, <1>5, Zenon
    <2>3. PICK x \in 1 .. (Len(Frame.slots) * Len(pp)) :
                1 + ((x - 1) \div Len(pp)) = s /\ 1 + ((x - 1) % Len(pp)) = i
        <3>1. s \in 1 .. Len(Frame.slots)
            BY FrameFacts, Zenon
        <3> DEFINE l == Len(Frame.slots)
                   p == Len(pp)
        <3>2. l \in Nat /\ p \in Nat \ {0} /\ s \in 1 .. l /\ i \in 1 .. p
            BY <1>2, <3>1, Zenon
        <3> HIDE DEF l, p
        <3>3. HasTrial(l, p, s, i)
            BY <3>2, TrialNumbers, Zenon
        <3> QED
            BY <3>3, Zenon DEF l, p, HasTrial
    <2>4. s = SlotOf(t, x) /\ pp[i] = CaseOf(t, x) /\ x \in N
        BY <2>3, Zenon DEF SlotOf, CaseOf, TrialCount
    <2> QED
        BY <2>1, <2>2, <2>4, Zenon DEF Fits
<1>6. v.available <=> \E s \in Slots : MayTake(l1, t, s)
    BY <1>1, <1>4, <1>5, Zenon
<1>7. \A r : r \in ToSet(v.slots) <=> r \in Slots /\ MayTake(l1, t, r) /\ GoodEnough(t, r)
    <2>1. ASSUME NEW r, r \in ToSet(v.slots)
          PROVE  r \in Slots /\ MayTake(l1, t, r) /\ GoodEnough(t, r)
        <3>1. PICK x \in N : r = SlotOf(t, x) /\ GoodEnough(t, r) /\ Fits(l1, l2, t, x)
            BY <1>1, <2>1, Zenon
        <3> QED
            BY <1>4, <3>1, Zenon
    <2>2. ASSUME NEW r \in Slots, MayTake(l1, t, r), GoodEnough(t, r)
          PROVE  r \in ToSet(v.slots)
        <3>1. PICK x \in N : r = SlotOf(t, x) /\ Fits(l1, l2, t, x)
            BY <1>5, <2>2, Zenon
        <3> QED
            BY <1>1, <2>2, <3>1, Zenon
    <2> QED
        BY <2>1, <2>2, Zenon
<1> DEFINE nil == ~(~input.noun /\ input.prob /\ v.available)
           more == IF nil THEN <<NIL_ASSIGNED>> ELSE <<>>
<1>8. Trials(l1, l2, t) = v.slots \o more
    BY Zenon DEF Trials
<1>9. ToSet(v.slots \o more) = ToSet(v.slots) \cup ToSet(more)
    <2> DEFINE X == Slots \cup {NIL_ASSIGNED}
    <2>1. v.slots \in Seq(Slots)
        BY <1>1 DEF Trial
    <2>2. v.slots \in Seq(X)
        BY <2>1
    <2>3. more \in Seq(X)
        OBVIOUS
    <2> HIDE DEF X, v, more
    <2> QED
        BY <2>2, <2>3, JoinedSet
<1>10. \A r : r \in ToSet(more) <=> nil /\ r = NIL_ASSIGNED
    <2>1. ToSet(<<NIL_ASSIGNED>>) = {NIL_ASSIGNED} /\ ToSet(<<>>) = {}
        BY DEF ToSet
    <2> HIDE DEF nil
    <2> QED
        BY <2>1
<1>11. nil <=> (~input.noun /\ input.prob => \A s \in Slots : ~MayTake(l1, t, s))
    BY <1>6, Zenon
<1> HIDE DEF nil, v, more
<1>12. \A r : r \in ToSet(Trials(l1, l2, t)) <=> r \in ToSet(v.slots) \/ r \in ToSet(more)
    BY <1>8, <1>9, Zenon
<1>13. NIL_ASSIGNED \notin Slots
    BY MarksApart, Zenon
<1>14. ASSUME NEW r
       PROVE  r \in ToSet(Trials(l1, l2, t)) <=> r \in Slots \cup {NIL_ASSIGNED} /\ MayChoose(l1, t, r)
    <2>1. CASE r = NIL_ASSIGNED
        BY <1>7, <1>10, <1>11, <1>12, <1>13, <2>1 DEF MayChoose
    <2>2. CASE r # NIL_ASSIGNED
        BY <1>7, <1>10, <1>12, <2>2, Zenon DEF MayChoose
    <2> QED
        BY <2>1, <2>2, Zenon
<1> QED
    BY <1>14, Zenon
-----------------------------------------------------------------------------
(* The search of assign_list                                               *)

\* The rules are the same for an assignment and for each of its choices.
LEMMA AdmissibleRuled ==
    \A l1 : l1 \in Admissible <=>
        l1 \in Complete(Elements, Slots) /\ \A t \in Elements : MayChoose(l1, t, l1[t])
    BY Zenon DEF Admissible, MayChoose, Complete

\* Every list of slots can be read as a list of elements.
LEMMA InvertedIn ==
    ASSUME NEW l1
    PROVE  Inverted(l1) \in Lists2(Elements, Slots)
<1>1. ASSUME NEW s \in Slots
      PROVE  (IF \E u \in Elements : l1[u] = s THEN CHOOSE u \in Elements : l1[u] = s ELSE UNASSIGNED)
                \in Elements \cup {UNASSIGNED}
    BY Zenon
<1> QED
    BY <1>1, Zenon DEF Inverted, Lists2

\* The parts of a new activation.
LEMMA ActivationParts ==
    ASSUME NEW l1, NEW l2, NEW score, NEW b, b = Activation(l1, l2, score)
    PROVE  /\ b.l1 = l1 /\ b.l2 = l2 /\ b.score = score /\ b.target = Target(l1)
           /\ Target(l1) = 0 => b.todo = <<>>
           /\ Target(l1) # 0 => b.todo = Trials(l1, l2, Target(l1))
    BY DEF Activation

\* An empty sequence has no elements.
LEMMA NothingIn == ToSet(<<>>) = {}
    BY DEF ToSet

\* An activation begun with lists that follow the rules goes on with them, and
\* everything that continues its assignments by the rules is pending in it.
LEMMA BegunRuled ==
    ASSUME InFrame, ~NoTwice, NEW n \in Lists1(Elements, Slots), NEW b,
           b = Activation(n, Inverted(n), TotalScore(n)),
           \A u \in Elements : n[u] # UNASSIGNED => MayChoose(n, u, n[u]),
           Target(n) = 0 \/ n[Target(n)] = UNASSIGNED,
           Target(n) # 0 => \A u \in Elements : n[u] # UNASSIGNED <=> Earlier(u, Target(n))
    PROVE  /\ Ruled(b)
           /\ \A l1 \in Admissible : (\A u \in Elements : n[u] # UNASSIGNED => l1[u] = n[u]) => Pending(l1, b)
<1> DEFINE t == Target(n)
<1>1. /\ b.l1 = n /\ b.l2 = Inverted(n) /\ b.score = TotalScore(n) /\ b.target = t
      /\ t = 0 => b.todo = <<>>
      /\ t # 0 => b.todo = Trials(n, Inverted(n), t)
    BY ActivationParts
<1>2. t \in Elements \cup {0}
    BY TargetIn, Zenon
<1>3. n = [u \in Elements |-> n[u]]
    BY Zenon DEF Lists1
<1>4. ASSUME t # 0
      PROVE  /\ Known1(n, t) = n
             /\ \A r : r \in ToSet(b.todo) <=> r \in Slots \cup {NIL_ASSIGNED} /\ MayChoose(n, t, r)
    <2>1. Known1(n, t) = n
        BY <1>3, <1>4, KnownNow, Zenon
    <2>2. \A r : r \in ToSet(Trials(n, Inverted(n), t)) <=> r \in Slots \cup {NIL_ASSIGNED} /\ MayChoose(n, t, r)
        BY <1>2, <1>4, <2>1, TrialsExact, Zenon
    <2> QED
        BY <1>1, <1>4, <2>1, <2>2, Zenon
<1> HIDE DEF t
<1>5. \A r \in ToSet(b.todo) : MayChoose(n, t, r)
    BY <1>1, <1>4, NothingIn, Zenon
<1>6. Ruled(b)
    BY <1>1, <1>5, Zenon DEF Ruled, t
<1>7. ASSUME NEW l1 \in Admissible, \A u \in Elements : n[u] # UNASSIGNED => l1[u] = n[u]
      PROVE  Pending(l1, b)
    <2>1. l1 \in Complete(Elements, Slots) /\ \A u \in Elements : MayChoose(l1, u, l1[u])
        BY AdmissibleRuled, Zenon
    <2>2. ASSUME t # 0
          PROVE  l1[t] \in ToSet(b.todo)
        <3>1. t \in Elements
            BY <1>2, <2>2, Zenon
        <3>2. \A u \in Elements : Earlier(u, t) => l1[u] = n[u]
            BY <1>7, <2>2, Zenon DEF t
        <3>3. Known1(l1, t) = Known1(n, t)
            BY <3>2, KnownSame, Zenon
        <3>4. MayChoose(n, t, l1[t])
            BY <2>1, <3>1, <3>3, KnownCounts, Zenon
        <3>5. l1[t] \in Slots \cup {NIL_ASSIGNED}
            BY <2>1, <3>1, Zenon DEF Complete
        <3> QED
            BY <1>4, <2>2, <3>4, <3>5, Zenon
    <2> QED
        BY <1>1, <1>7, <2>2, Zenon DEF Pending
<1> QED
    BY <1>6, <1>7, Zenon

\* The first activation of a frame: nothing is assigned, everything is pending.
LEMMA FreshRuled ==
    ASSUME InFrame, ~NoTwice, NEW b,
           b = Activation([t \in Elements |-> UNASSIGNED], [s \in Slots |-> UNASSIGNED], 0)
    PROVE  Ruled(b) /\ \A l1 \in Admissible : Pending(l1, b)
<1> DEFINE n == [t \in Elements |-> UNASSIGNED]
<1>1. n \in Lists1(Elements, Slots) /\ \A u \in Elements : n[u] = UNASSIGNED
    BY Zenon DEF Lists1
<1>2. TotalScore(n) = 0
    BY TotalFresh, Zenon
<1>3. Inverted(n) = [s \in Slots |-> UNASSIGNED]
    <2>1. \A s \in Slots : ~\E u \in Elements : n[u] = s
        BY <1>1, MarksApart, Zenon
    <2> QED
        BY <2>1, Zenon DEF Inverted
<1>4. Target(n) = 0 \/ n[Target(n)] = UNASSIGNED
    BY <1>1, TargetIn, Zenon
<1>5. ASSUME Target(n) # 0, NEW u \in Elements
      PROVE  ~Earlier(u, Target(n))
    <2>1. Target(n) \in Elements /\ \A v \in Elements : v = Target(n) \/ Earlier(Target(n), v)
        BY <1>1, <1>5, TargetFirst, Zenon
    <2> QED
        BY <2>1, EarlierOrder, Zenon
<1>6. b = Activation(n, Inverted(n), TotalScore(n))
    BY <1>2, <1>3, Zenon
<1> HIDE DEF n
<1> QED
    BY <1>1, <1>4, <1>5, <1>6, BegunRuled, Zenon

\* The choices that are left once the first is taken off.
LEMMA ChoicesLeft ==
    ASSUME NEW X, NEW s \in Seq(X), s # <<>>
    PROVE  ToSet(s) = {Head(s)} \cup ToSet(Tail(s))
<1>1. /\ DOMAIN s = 1 .. Len(s) /\ Len(s) \in Nat \ {0} /\ Head(s) = s[1]
      /\ DOMAIN Tail(s) = 1 .. (Len(s) - 1) /\ \A i \in 1 .. (Len(s) - 1) : Tail(s)[i] = s[i + 1]
    OBVIOUS
<1> DEFINE u == Tail(s)
<1> HIDE DEF u
<1>2. ASSUME NEW x \in ToSet(s)
      PROVE  x \in {s[1]} \cup ToSet(u)
    <2>1. PICK i \in 1 .. Len(s) : x = s[i]
        BY <1>1, Zenon DEF ToSet
    <2>2. i = 1 \/ (i - 1 \in 1 .. (Len(s) - 1) /\ (i - 1) + 1 = i)
        BY <1>1
    <2>3. ASSUME i - 1 \in 1 .. (Len(s) - 1), (i - 1) + 1 = i
          PROVE  x \in ToSet(u)
        <3>1. u[i - 1] = x /\ i - 1 \in DOMAIN u
            BY <1>1, <2>1, <2>3, Zenon DEF u
        <3> QED
            BY <3>1, Zenon DEF ToSet
    <2> QED
        BY <2>1, <2>2, <2>3, Zenon
<1>3. ASSUME NEW x \in {s[1]} \cup ToSet(u)
      PROVE  x \in ToSet(s)
    <2>1. 1 \in 1 .. Len(s)
        BY <1>1
    <2>2. \A i \in 1 .. (Len(s) - 1) : i + 1 \in 1 .. Len(s)
        BY <1>1
    <2>3. ASSUME x \in ToSet(u)
          PROVE  \E i \in 1 .. Len(s) : x = s[i]
        <3>1. PICK j \in 1 .. (Len(s) - 1) : x = u[j]
            BY <1>1, <2>3, Zenon DEF ToSet, u
        <3>2. u[j] = s[j + 1]
            BY <1>1, Zenon DEF u
        <3> QED
            BY <2>2, <3>1, <3>2, Zenon
    <2> QED
        BY <1>1, <2>1, <2>3, Zenon DEF ToSet
<1> QED
    BY <1>1, <1>2, <1>3, Zenon DEF u

\* Activation rest is what is left of top when its first trial is taken off.
Rests(top, rest) ==
    /\ rest.l1 = top.l1 /\ rest.l2 = top.l2 /\ rest.score = top.score
    /\ rest.target = top.target /\ rest.todo = Tail(top.todo)

\* Taking off a trial leaves the rest of an activation as it was.
LEMMA RestParts ==
    ASSUME NEW top, Active(Elements, Slots, top)
    PROVE  Rests(top, [top EXCEPT !.todo = Tail(top.todo)])
<1>1. PICK u1, u2, u3, u4, u5 :
        top = [l1 |-> u1, l2 |-> u2, score |-> u3, target |-> u4, todo |-> u5]
    BY Zenon DEF Active
<1> DEFINE d == Tail(top.todo)
<1> HIDE DEF d
<1>2. Rests(top, [top EXCEPT !.todo = d])
    BY <1>1 DEF Rests, d
<1> QED
    BY <1>2 DEF d

\* Activation b is begun for the first trial of top.
Begins(top, b) ==
    b = IF Head(top.todo) # NIL_ASSIGNED
        THEN Activation([top.l1 EXCEPT ![top.target] = Head(top.todo)],
                        [top.l2 EXCEPT ![Head(top.todo)] = top.target],
                        top.score + Frame.score[top.target][Head(top.todo)])
        ELSE Activation([top.l1 EXCEPT ![top.target] = NIL_ASSIGNED], top.l2, top.score)

\* A choice made by the rules: the activation begun for it follows them too, and
\* its lists are those that assign_list hands on.
LEMMA ChoiceRuled ==
    ASSUME InFrame, ~NoTwice, NEW m \in Lists1(Elements, Slots), NEW t \in Elements,
           \A u \in Elements : m[u] # UNASSIGNED <=> Earlier(u, t),
           \A u \in Elements : m[u] # UNASSIGNED => MayChoose(m, u, m[u]),
           NEW r \in Slots \cup {NIL_ASSIGNED}, MayChoose(m, t, r), NEW n, Chosen(m, t, r, n),
           NEW b, b = Activation(n, Inverted(n), TotalScore(n))
    PROVE  /\ Ruled(b)
           /\ r # NIL_ASSIGNED =>
                Chosen(Inverted(m), r, t, Inverted(n)) /\ TotalScore(n) = TotalScore(m) + Frame.score[t][r]
           /\ r = NIL_ASSIGNED => Inverted(n) = Inverted(m) /\ TotalScore(n) = TotalScore(m)
           /\ \A l1 \in Admissible :
                (\A u \in Elements : m[u] # UNASSIGNED => l1[u] = m[u]) /\ l1[t] = r => Pending(l1, b)
<1>1. /\ n \in Lists1(Elements, Slots) /\ n[t] = r
      /\ \A u \in Elements : u # t => n[u] = m[u]
      /\ \A u \in Elements : n[u] # UNASSIGNED => MayChoose(n, u, n[u])
      /\ Target(n) = 0 \/ n[Target(n)] = UNASSIGNED
      /\ Target(n) # 0 => \A u \in Elements : n[u] # UNASSIGNED <=> Earlier(u, Target(n))
    BY ChoiceMade
<1>2. /\ Ruled(b)
      /\ \A l1 \in Admissible : (\A u \in Elements : n[u] # UNASSIGNED => l1[u] = n[u]) => Pending(l1, b)
    BY <1>1, BegunRuled, Zenon
<1>3. m[t] = UNASSIGNED /\ Known1(m, t) = m
    <2>1. m = [u \in Elements |-> m[u]]
        BY Zenon DEF Lists1
    <2> QED
        BY <2>1, EarlierOrder, KnownNow, Zenon
<1>4. r # NIL_ASSIGNED => Inverted(m)[r] = UNASSIGNED
    BY <1>3, Zenon DEF MayChoose, MayTake
<1>5. /\ r = NIL_ASSIGNED => Inverted(n) = Inverted(m)
      /\ r # NIL_ASSIGNED => Chosen(Inverted(m), r, t, Inverted(n))
    BY <1>3, <1>4, InvertedNext
<1>6. /\ r = NIL_ASSIGNED => TotalScore(n) = TotalScore(m)
      /\ r # NIL_ASSIGNED => TotalScore(n) = TotalScore(m) + Frame.score[t][r]
    BY <1>3, TotalNext
<1>7. ASSUME NEW l1 \in Admissible, \A u \in Elements : m[u] # UNASSIGNED => l1[u] = m[u], l1[t] = r
      PROVE  Pending(l1, b)
    BY <1>1, <1>2, <1>7, Zenon
<1> QED
    BY <1>2, <1>5, <1>6, <1>7, Zenon

\* Whatever was pending in an activation is pending in the one begun for its
\* first trial, or in what is left of it.
LEMMA TrialMade ==
    ASSUME InFrame, ~NoTwice, NEW top, Active(Elements, Slots, top), Ruled(top), top.todo # <<>>,
           NEW rest, Rests(top, rest), NEW b, Begins(top, b)
    PROVE  /\ Ruled(b) /\ Ruled(rest)
           /\ \A l1 \in Admissible : Pending(l1, top) => Pending(l1, b) \/ Pending(l1, rest)
<1> DEFINE m == top.l1
           t == top.target
           todo == top.todo
           r == Head(todo)
           u == Tail(todo)
           n == [m EXCEPT ![t] = r]
           a == Activation(n, Inverted(n), TotalScore(n))
<1>1. /\ m \in Lists1(Elements, Slots) /\ todo \in Seq(Slots \cup {NIL_ASSIGNED})
      /\ t \in Elements /\ t # 0
    BY MarksApart, Zenon DEF Active
<1>2. \A X : \A s \in Seq(X) : s # <<>> => Head(s) \in X /\ Head(s) \in ToSet(s)
    BY DEF ToSet
<1>3. ToSet(todo) = {r} \cup ToSet(u)
    <2> DEFINE X == Slots \cup {NIL_ASSIGNED}
    <2>1. todo \in Seq(X)
        BY <1>1, Zenon
    <2> HIDE DEF X, todo
    <2> QED
        BY <2>1, ChoicesLeft, Zenon DEF todo
<1>4. r \in Slots \cup {NIL_ASSIGNED}
    BY <1>1, <1>2, Zenon
<1>5. /\ \A v \in Elements : m[v] # UNASSIGNED <=> Earlier(v, t)
      /\ \A v \in Elements : m[v] # UNASSIGNED => MayChoose(m, v, m[v])
      /\ \A x \in ToSet(todo) : MayChoose(m, t, x)
      /\ top.l2 = Inverted(m) /\ top.score = TotalScore(m)
    BY <1>1, Zenon DEF Ruled
<1>6. MayChoose(m, t, r)
    BY <1>3, <1>5, Zenon
<1>7. Ruled(rest)
    <2>1. \A x \in ToSet(rest.todo) : MayChoose(m, t, x)
        BY <1>3, <1>5, Zenon DEF Rests
    <2> QED
        BY <2>1, Zenon DEF Ruled, Rests
<1>8. /\ r # NIL_ASSIGNED => b = Activation(n, [top.l2 EXCEPT ![r] = t], top.score + Frame.score[t][r])
      /\ r = NIL_ASSIGNED => b = Activation(n, top.l2, top.score)
    BY DEF Begins
<1> HIDE DEF m, t, todo, r, u
<1>9. Chosen(m, t, r, n) /\ a = Activation(n, Inverted(n), TotalScore(n))
    BY Zenon DEF Chosen
<1> HIDE DEF n, a
<1>10. /\ Ruled(a)
       /\ r # NIL_ASSIGNED =>
            Chosen(Inverted(m), r, t, Inverted(n)) /\ TotalScore(n) = TotalScore(m) + Frame.score[t][r]
       /\ r = NIL_ASSIGNED => Inverted(n) = Inverted(m) /\ TotalScore(n) = TotalScore(m)
       /\ \A l1 \in Admissible :
            (\A v \in Elements : m[v] # UNASSIGNED => l1[v] = m[v]) /\ l1[t] = r => Pending(l1, a)
    BY <1>1, <1>4, <1>5, <1>6, <1>9, ChoiceRuled
<1>11. b = a
    BY <1>5, <1>8, <1>9, <1>10, Zenon DEF Chosen
<1>12. ASSUME NEW l1 \in Admissible, Pending(l1, top)
       PROVE  Pending(l1, b) \/ Pending(l1, rest)
    <2>1. (\A v \in Elements : m[v] # UNASSIGNED => l1[v] = m[v]) /\ l1[t] \in ToSet(todo)
        BY <1>1, <1>12, Zenon DEF Pending, m, t, todo
    <2>2. CASE l1[t] = r
        BY <1>10, <1>11, <2>1, <2>2, Zenon
    <2>3. CASE l1[t] # r
        <3>1. l1[t] \in ToSet(u)
            BY <1>3, <2>1, <2>3, Zenon
        <3> QED
            BY <2>1, <3>1, Zenon DEF Pending, Rests, u, m, t, todo
    <2> QED
        BY <2>2, <2>3, Zenon
<1> QED
    BY <1>7, <1>10, <1>11, <1>12, Zenon

\* The stack after a trial.
LEMMA Pushed ==
    ASSUME NEW X, NEW st \in Seq(X), st # <<>>, NEW l, l = Len(st), NEW rest, NEW b,
           NEW w, w = Append([st EXCEPT ![l] = rest], b)
    PROVE  /\ l \in DOMAIN w /\ w[l] = rest
           /\ l + 1 \in DOMAIN w /\ w[l + 1] = b
           /\ \A n \in DOMAIN st : n # l => n \in DOMAIN w /\ w[n] = st[n]
           /\ \A n \in DOMAIN w : n = l \/ n = l + 1 \/ n \in DOMAIN st
<1> DEFINE Y == X \cup {rest, b}
           v == [st EXCEPT ![l] = rest]
<1>1. st \in Seq(Y) /\ rest \in Y /\ b \in Y
    OBVIOUS
<1> HIDE DEF Y
<1>2. /\ v \in Seq(Y) /\ Len(v) = l /\ v[l] = rest /\ \A n \in 1 .. l : n # l => v[n] = st[n]
      /\ DOMAIN st = 1 .. l /\ l \in Nat \ {0}
    BY <1>1
<1> HIDE DEF v
<1>3. /\ DOMAIN w = 1 .. (l + 1) /\ w[l + 1] = b /\ \A n \in 1 .. l : w[n] = v[n]
    <2>1. w = Append(v, b)
        BY DEF v
    <2> QED
        BY <1>1, <1>2, <2>1
<1>4. l \in 1 .. l /\ l \in 1 .. (l + 1) /\ l + 1 \in 1 .. (l + 1)
    BY <1>2
<1>5. \A n \in 1 .. l : n \in 1 .. (l + 1)
    BY <1>2
<1>6. \A n \in 1 .. (l + 1) : n = l + 1 \/ n \in 1 .. l
    BY <1>2
<1> QED
    BY <1>2, <1>3, <1>4, <1>5, <1>6, Zenon

\* Stack w is st with the first trial of its last activation taken off, and b.
Pushes(st, b, w) == w = Append([st EXCEPT ![Len(st)].todo = Tail(@)], b)

\* A trial loses nothing.
LEMMA TrialSearched ==
    ASSUME Matching, ~NoTwice, Searched(stack, current), stack # <<>>, NEW top, top = Last(stack),
           top.todo # <<>>, NEW b, Begins(top, b), NEW w, Pushes(stack, b, w)
    PROVE  Searched(w, current)
<1> DEFINE l == Len(stack)
           rest == [top EXCEPT !.todo = Tail(top.todo)]
<1>1. /\ l \in 1 .. l /\ DOMAIN stack = 1 .. l
      /\ top = stack[l] /\ Active(Elements, Slots, top)
    BY TopFacts, Zenon
<1>2. /\ InFrame /\ stack \in Seq(ToSet(stack))
    BY Zenon DEF Matching
<1>3. Rests(top, rest)
    BY <1>1, RestParts, Zenon
<1>4. w = Append([stack EXCEPT ![l] = rest], b)
    BY <1>1, Zenon DEF Pushes
<1>5. Ruled(top) /\ top.todo # <<>>
    BY <1>1, Zenon DEF Searched
<1> HIDE DEF rest
<1>6. /\ Ruled(b) /\ Ruled(rest)
      /\ \A l1 \in Admissible : Pending(l1, top) => Pending(l1, b) \/ Pending(l1, rest)
    BY <1>1, <1>2, <1>3, <1>5, TrialMade, Zenon
<1>7. /\ l \in DOMAIN w /\ w[l] = rest
      /\ l + 1 \in DOMAIN w /\ w[l + 1] = b
      /\ \A n \in DOMAIN stack : n # l => n \in DOMAIN w /\ w[n] = stack[n]
      /\ \A n \in DOMAIN w : n = l \/ n = l + 1 \/ n \in DOMAIN stack
    <2> DEFINE X == ToSet(stack)
    <2>2. stack \in Seq(X)
        BY <1>2, Zenon
    <2> HIDE DEF X, l
    <2>3. l = Len(stack)
        BY DEF l
    <2> QED
        BY <1>4, <2>2, <2>3, Pushed
<1> HIDE DEF l
<1>8. \A n \in DOMAIN w : Ruled(w[n])
    <2>1. \A n \in DOMAIN stack : Ruled(stack[n])
        BY Zenon DEF Searched
    <2> QED
        BY <1>6, <1>7, <2>1, Zenon
<1>9. ASSUME NEW l1 \in Admissible
      PROVE  Weighed(l1, current) \/ \E n \in DOMAIN w : Pending(l1, w[n])
    <2>1. Weighed(l1, current) \/ \E n \in DOMAIN stack : Pending(l1, stack[n])
        BY Zenon DEF Searched
    <2>2. ASSUME NEW n \in DOMAIN stack, Pending(l1, stack[n])
          PROVE  \E i \in DOMAIN w : Pending(l1, w[i])
        <3>1. CASE n = l
            <4>1. Pending(l1, b) \/ Pending(l1, rest)
                BY <1>1, <1>6, <2>2, <3>1, Zenon
            <4> QED
                BY <1>7, <4>1, Zenon
        <3>2. CASE n # l
            BY <1>7, <2>2, <3>2, Zenon
        <3> QED
            BY <3>1, <3>2, Zenon
    <2> QED
        BY <2>1, <2>2, Zenon
<1>10. Found(current)
    BY Zenon DEF Searched
<1> QED
    BY <1>8, <1>9, <1>10, Zenon DEF Searched

\* What becomes of the globals c0 when assignment m of merit x, with lists as
\* recorded in r, is evaluated: it replaces what they hold, joins it, or is dropped.
Replaces(c0, x, free) == Beats(x, c0.merit) \/ (~input.prob /\ x = c0.merit /\ ~free)

Outcome(c, c0, x, free, r) ==
    \/ Replaces(c0, x, free) /\ c.merit = x /\ c.lists = <<r>>
    \/ ~Replaces(c0, x, free) /\ x = c0.merit /\ c.merit = x /\ c.lists = c0.lists \o <<r>>
    \/ ~Replaces(c0, x, free) /\ c.merit = c0.merit /\ c.lists = c0.lists

\* What evaluation does to the globals.
LEMMA EvaluatedOutcome ==
    ASSUME Best(Elements, Slots, current), NEW l1, NEW l2, NEW score
    PROVE  Outcome(Evaluated(l1, l2, score), current, Merit(l1, l2, score), GaFree(l2),
                   [l1 |-> l1, l2 |-> l2, pure |-> PureScore(l1, l2, score)])
<1> DEFINE x == Merit(l1, l2, score)
           free == GaFree(l2)
           r == [l1 |-> l1, l2 |-> l2, pure |-> PureScore(l1, l2, score)]
           suff == IF input.prob \/ l2 = <<>> THEN 0
                   ELSE (Cardinality(Filled(l2)) * Unit) \div Len(l2)
           full == Len(current.lists) < MAX_MATCH_MAX /\ ~(input.prob /\ input.noun)
           c == Evaluated(l1, l2, score)
<1>1. PICK u, v, w : current = [lists |-> u, merit |-> v, sufficiency |-> w]
    BY Zenon DEF Best
<1>2. Taken(l1, l2, score) = [lists |-> <<r>>, merit |-> x, sufficiency |-> suff]
    BY Zenon DEF Taken
<1>3. c = IF Replaces(current, x, free) THEN Taken(l1, l2, score)
          ELSE IF x = current.merit /\ full
               THEN [current EXCEPT !.lists = @ \o Taken(l1, l2, score).lists]
          ELSE current
    BY Zenon DEF Evaluated, Replaces
<1> HIDE DEF x, free, r, suff, full, c
<1>4. current.lists = u /\ current.merit = v
    BY <1>1
<1>5. Taken(l1, l2, score).lists = <<r>> /\ Taken(l1, l2, score).merit = x
    BY <1>2
<1>6. [current EXCEPT !.lists = @ \o Taken(l1, l2, score).lists]
        = [lists |-> u \o <<r>>, merit |-> v, sufficiency |-> w]
    BY <1>1, <1>5, SMTT(30)
<1>7. CASE Replaces(current, x, free)
    BY <1>3, <1>5, <1>7, Zenon DEF Outcome, x, free, r, c
<1>8. CASE ~Replaces(current, x, free) /\ x = current.merit /\ full
    <2>1. c = [lists |-> u \o <<r>>, merit |-> v, sufficiency |-> w]
        BY <1>3, <1>6, <1>8, Zenon
    <2>2. c.lists = u \o <<r>> /\ c.merit = v
        BY <2>1
    <2>3. Outcome(c, current, x, free, r)
        BY <1>4, <1>8, <2>2, Zenon DEF Outcome
    <2> QED
        BY <2>3, Zenon DEF x, free, r, c
<1>9. CASE ~Replaces(current, x, free) /\ ~(x = current.merit /\ full)
    <2>1. c = current
        BY <1>3, <1>9, Zenon
    <2>2. Outcome(c, current, x, free, r)
        BY <1>9, <2>1, Zenon DEF Outcome
    <2> QED
        BY <2>2, Zenon DEF x, free, r, c
<1> QED
    BY <1>7, <1>8, <1>9, Zenon

\* An outcome keeps what was weighed before, and weighs m.
LEMMA OutcomeWeighed ==
    ASSUME InFrame, NEW c0, Found(c0), NEW X, c0.lists \in Seq(X), NEW m \in Admissible,
           NEW r, r.l1 = m, r.l2 = Inverted(m),
           NEW c, Outcome(c, c0, MeritOf(m), GaFree(Inverted(m)), r),
           \A l1 \in Admissible : Four(MeritOf(l1))
    PROVE  /\ Found(c) /\ Weighed(m, c)
           /\ \A l1 \in Admissible : Weighed(l1, c0) => Weighed(l1, c)
<1> DEFINE x == MeritOf(m)
           free == GaFree(Inverted(m))
<1>1. /\ Four(c0.merit) /\ Four(x)
      /\ \A q \in ToSet(c0.lists) : q.l1 \in Admissible /\ MeritOf(q.l1) = c0.merit /\ q.l2 = Inverted(q.l1)
    BY Zenon DEF Found
<1>2. ~Beats(x, x)
    BY <1>1, BeatsOrder, Zenon
<1> HIDE DEF x
<1>3. <<r>>[1] = r /\ <<r>> # <<>> /\ ToSet(<<r>>) = {r}
    BY DEF ToSet
<1>4. CASE Replaces(c0, x, free) /\ c.merit = x /\ c.lists = <<r>>
    <2>1. Found(c)
        BY <1>1, <1>3, <1>4, Zenon DEF Found, x
    <2>2. Weighed(m, c)
        BY <1>2, <1>3, <1>4, Zenon DEF Weighed, x
    <2>3. ASSUME NEW l1 \in Admissible, Weighed(l1, c0)
          PROVE  Weighed(l1, c)
        <3> DEFINE y == MeritOf(l1)
        <3>1. ~Beats(y, c0.merit) /\ Four(y)
            BY <2>3, Zenon DEF Weighed
        <3>2. Beats(x, c0.merit) \/ (x = c0.merit /\ ~input.prob /\ ~free)
            BY <1>4, Zenon DEF Replaces
        <3> HIDE DEF y
        <3>3. CASE Beats(x, c0.merit)
            <4>1. ~Beats(y, x)
                BY <1>1, <3>1, <3>3, BeatsOrder, Zenon
            <4>2. ~input.prob /\ y = x /\ ~GaFree(Inverted(l1)) => FALSE
                BY <3>1, <3>3, Zenon
            <4> QED
                BY <1>4, <4>1, <4>2, Zenon DEF Weighed, y
        <3>4. CASE x = c0.merit /\ ~input.prob /\ ~free
            <4>1. c.lists # <<>> /\ ~GaFree(c.lists[1].l2)
                BY <1>3, <1>4, <3>4, Zenon
            <4> QED
                BY <1>4, <3>1, <3>4, <4>1, Zenon DEF Weighed, y
        <3> QED
            BY <3>2, <3>3, <3>4, Zenon
    <2> QED
        BY <2>1, <2>2, <2>3, Zenon
<1>5. CASE ~Replaces(c0, x, free) /\ x = c0.merit /\ c.merit = x /\ c.lists = c0.lists \o <<r>>
    <2>1. \A s \in Seq(X) : ToSet(s \o <<r>>) = ToSet(s) \cup {r} /\ s \o <<r>> # <<>> /\ (s # <<>> => (s \o <<r>>)[1] = s[1])
        <3>1. ASSUME NEW s \in Seq(X)
              PROVE  ToSet(s \o <<r>>) = ToSet(s) \cup {r} /\ s \o <<r>> # <<>> /\ (s # <<>> => (s \o <<r>>)[1] = s[1])
            <4> DEFINE Y == X \cup {r}
            <4>1. s \in Seq(Y) /\ r \in Y /\ s \o <<r>> = Append(s, r)
                OBVIOUS
            <4> HIDE DEF Y
            <4>2. ToSet(Append(s, r)) = ToSet(s) \cup {r}
                BY <4>1, AppendedSet
            <4>3. Append(s, r) # <<>> /\ (s # <<>> => Append(s, r)[1] = s[1])
                BY <4>1
            <4> QED
                BY <4>1, <4>2, <4>3, Zenon
        <3> QED
            BY <3>1, Zenon
    <2>2. ToSet(c.lists) = ToSet(c0.lists) \cup {r} /\ c.lists # <<>> /\ (c0.lists # <<>> => c.lists[1] = c0.lists[1])
        BY <1>5, <2>1, Zenon
    <2>3. Found(c)
        BY <1>1, <1>5, <2>2, Zenon DEF Found, x
    <2>4. ~(~input.prob /\ ~free)
        BY <1>5, Zenon DEF Replaces
    <2>5. Weighed(m, c)
        BY <1>2, <1>5, <2>4, Zenon DEF Weighed, x
    <2>6. ASSUME NEW l1 \in Admissible, Weighed(l1, c0)
          PROVE  Weighed(l1, c)
        BY <1>5, <2>2, <2>6, Zenon DEF Weighed
    <2> QED
        BY <2>3, <2>5, <2>6, Zenon
<1>6. CASE ~Replaces(c0, x, free) /\ c.merit = c0.merit /\ c.lists = c0.lists
    <2>1. Found(c)
        BY <1>1, <1>6, Zenon DEF Found
    <2>2. ~Beats(x, c.merit) /\ ~(~input.prob /\ x = c.merit /\ ~free)
        BY <1>6, Zenon DEF Replaces
    <2>3. Weighed(m, c)
        BY <2>2, Zenon DEF Weighed, x
    <2>4. ASSUME NEW l1 \in Admissible, Weighed(l1, c0)
          PROVE  Weighed(l1, c)
        BY <1>6, <2>4, Zenon DEF Weighed
    <2> QED
        BY <2>1, <2>3, <2>4, Zenon
<1> QED
    BY <1>4, <1>5, <1>6, Zenon DEF Outcome, x

\* The stack when its last activation returns.
LEMMA Popped ==
    ASSUME NEW X, NEW st \in Seq(X), st # <<>>
    PROVE  /\ \A n \in DOMAIN Front(st) : n \in DOMAIN st /\ Front(st)[n] = st[n]
           /\ \A n \in DOMAIN st : n # Len(st) => n \in DOMAIN Front(st)
    BY DEF Front

\* What returns is an assignment evaluated, or has nothing left to reach.
LEMMA TopReached ==
    ASSUME InFrame, NEW top, Active(Elements, Slots, top), Ruled(top), top.todo = <<>>
    PROVE  /\ top.target = 0 => top.l1 \in Admissible /\ top.l2 = Inverted(top.l1) /\ top.score = TotalScore(top.l1)
           /\ \A l1 \in Admissible : Pending(l1, top) => top.target = 0 /\ l1 = top.l1
<1> DEFINE m == top.l1
<1>1. top.l2 = Inverted(m) /\ top.score = TotalScore(m)
    BY Zenon DEF Ruled
<1>2. ASSUME top.target = 0
      PROVE  m \in Complete(Elements, Slots) /\ \A u \in Elements : m[u] # UNASSIGNED
    <2>1. m \in Complete(Elements, Slots)
        BY <1>2, Zenon DEF Active
    <2>2. \A u \in Elements : m[u] \in Slots \cup {NIL_ASSIGNED}
        BY <2>1, Zenon DEF Complete
    <2> QED
        BY <2>1, <2>2, MarksApart, Zenon
<1>3. \A u \in Elements : m[u] # UNASSIGNED => MayChoose(m, u, m[u])
    BY Zenon DEF Ruled
<1>4. top.target = 0 => m \in Admissible
    BY <1>2, <1>3, AdmissibleRuled, Zenon
<1>5. ASSUME NEW l1 \in Admissible, Pending(l1, top)
      PROVE  top.target = 0 /\ l1 = m
    <2>1. top.target = 0
        BY <1>5, NothingIn, Zenon DEF Pending
    <2>2. \A u \in Elements : l1[u] = m[u]
        BY <1>2, <1>5, <2>1, Zenon DEF Pending
    <2>3. l1 \in Complete(Elements, Slots) /\ m \in Complete(Elements, Slots)
        BY <1>2, <2>1, AdmissibleRuled, Zenon
    <2>4. l1 = m
        BY <2>2, <2>3 DEF Complete
    <2> QED
        BY <2>1, <2>4, Zenon
<1> QED
    BY <1>1, <1>4, <1>5, Zenon

\* The merits of what the rules admit can be compared.
LEMMA MeritsFour ==
    ASSUME InFrame
    PROVE  \A l1 \in Admissible : Four(MeritOf(l1))
<1>1. ASSUME NEW l1 \in Admissible
      PROVE  Four(MeritOf(l1))
    <2>1. l1 \in Complete(Elements, Slots) /\ l1 \in Lists1(Elements, Slots)
        BY AdmissibleRuled, Zenon DEF Complete, Lists1
    <2>2. TotalScore(l1) \in Int
        BY <2>1, ScoresIn, Zenon
    <2> QED
        BY <2>1, <2>2, InvertedIn, MeritFour, Zenon DEF MeritOf
<1> QED
    BY <1>1, Zenon

\* A return loses nothing.
LEMMA ReturnSearched ==
    ASSUME Matching, ~NoTwice, Searched(stack, current), stack # <<>>, NEW top, top = Last(stack),
           top.todo = <<>>,
           NEW c, c = IF top.target = 0 THEN Evaluated(top.l1, top.l2, top.score) ELSE current
    PROVE  Searched(Front(stack), c)
<1> DEFINE l == Len(stack)
           m == top.l1
           st == Front(stack)
<1>1. /\ DOMAIN stack = 1 .. l /\ l \in 1 .. l /\ top = stack[l] /\ Active(Elements, Slots, top)
    BY TopFacts, Zenon
<1>2. /\ InFrame /\ stack \in Seq(ToSet(stack)) /\ Best(Elements, Slots, current)
    BY Zenon DEF Matching
<1>3. /\ \A n \in DOMAIN stack : Ruled(stack[n])
      /\ Found(current)
      /\ \A l1 \in Admissible : Weighed(l1, current) \/ \E n \in DOMAIN stack : Pending(l1, stack[n])
    BY Zenon DEF Searched
<1>4. /\ top.target = 0 => m \in Admissible /\ top.l2 = Inverted(m) /\ top.score = TotalScore(m)
      /\ \A l1 \in Admissible : Pending(l1, top) => top.target = 0 /\ l1 = m
    <2>1. Ruled(top)
        BY <1>1, <1>3, Zenon
    <2> QED
        BY <1>1, <1>2, <2>1, TopReached, Zenon
<1>5. /\ \A n \in DOMAIN st : n \in DOMAIN stack /\ st[n] = stack[n]
      /\ \A n \in DOMAIN stack : n # l => n \in DOMAIN st
    <2> DEFINE X == ToSet(stack)
    <2>1. stack \in Seq(X)
        BY <1>2, Zenon
    <2> HIDE DEF X
    <2> QED
        BY <2>1, Popped, Zenon
<1> HIDE DEF st, l
<1>6. ASSUME top.target = 0
      PROVE  /\ Found(c) /\ Weighed(m, c)
             /\ \A l1 \in Admissible : Weighed(l1, current) => Weighed(l1, c)
    <2> DEFINE r == [l1 |-> m, l2 |-> top.l2, pure |-> PureScore(m, top.l2, top.score)]
               X == Results(Elements, Slots)
    <2>1. current.lists \in Seq(X)
        BY <1>2, Zenon DEF Best
    <2>2. c = Evaluated(m, top.l2, top.score)
        BY <1>6, Zenon
    <2>3. Outcome(Evaluated(m, top.l2, top.score), current, Merit(m, top.l2, top.score), GaFree(top.l2), r)
        BY <1>2, EvaluatedOutcome, Zenon
    <2>4. r.l1 = m /\ r.l2 = top.l2
        OBVIOUS
    <2> HIDE DEF m, r, X
    <2>5. Merit(m, top.l2, top.score) = MeritOf(m)
        BY <1>4, <1>6, Zenon DEF MeritOf
    <2>6. Outcome(c, current, MeritOf(m), GaFree(Inverted(m)), r)
        <3>1. top.l2 = Inverted(m)
            BY <1>4, <1>6, Zenon
        <3> QED
            BY <2>2, <2>3, <2>5, <3>1
    <2>7. r.l2 = Inverted(m) /\ m \in Admissible
        BY <1>4, <1>6, <2>4, Zenon
    <2> QED
        BY <1>2, <1>3, <2>1, <2>4, <2>6, <2>7, MeritsFour, OutcomeWeighed
<1>7. Found(c) /\ \A l1 \in Admissible : Weighed(l1, current) => Weighed(l1, c)
    <2>1. ASSUME top.target # 0
          PROVE  c = current
        BY <2>1, Zenon
    <2> QED
        BY <1>3, <1>6, <2>1, Zenon
<1>8. \A n \in DOMAIN st : Ruled(st[n])
    BY <1>3, <1>5, Zenon
<1>9. ASSUME NEW l1 \in Admissible
      PROVE  Weighed(l1, c) \/ \E n \in DOMAIN st : Pending(l1, st[n])
    <2>1. CASE Weighed(l1, current)
        BY <1>7, <2>1, Zenon
    <2>2. ASSUME NEW n \in DOMAIN stack, Pending(l1, stack[n])
          PROVE  Weighed(l1, c) \/ \E i \in DOMAIN st : Pending(l1, st[i])
        <3>1. CASE n = l
            <4>1. top.target = 0 /\ l1 = m
                BY <1>1, <1>4, <2>2, <3>1, Zenon
            <4> QED
                BY <1>6, <4>1, Zenon
        <3>2. CASE n # l
            BY <1>5, <2>2, <3>2, Zenon
        <3> QED
            BY <3>1, <3>2, Zenon
    <2> QED
        BY <1>3, <2>1, <2>2, Zenon
<1> QED
    BY <1>7, <1>8, <1>9, Zenon DEF Searched, st
-----------------------------------------------------------------------------
(* The steps of the search                                                 *)

Same == input' = input /\ cands' = cands /\ k' = k

\* As long as the frame stays the same, so do the slots and what they ask for,
LEMMA SameElements ==
    ASSUME Same
    PROVE  /\ Elements' = Elements /\ Frame' = Frame /\ Slots' = Slots
           /\ \A s : Case(s)' = Case(s)
           /\ Closest' = Closest
           /\ \A f, g : CfAdjacent(f, g)' = CfAdjacent(f, g)
           /\ \A t, u : Earlier(t, u)' <=> Earlier(t, u)
           /\ \A t, s : GoodEnough(t, s)' <=> GoodEnough(t, s)
<1> USE DEF Same
<1>1. Elements' = Elements
    BY DEF Elements
<1>2. Frame' = Frame
    BY DEF Frame
<1>3. Slots' = Slots
    BY <1>2 DEF Slots
<1>4. \A s : Case(s)' = Case(s)
    BY <1>2 DEF Case
<1>5. Closest' = Closest
    BY <1>1 DEF Closest, have_real_component
<1>6. \A f, g : CfAdjacent(f, g)' = CfAdjacent(f, g)
    BY DEF CfAdjacent
<1>7. \A t, u : Earlier(t, u)' <=> Earlier(t, u)
    BY DEF Earlier
<1>8. \A t, s : GoodEnough(t, s)' <=> GoodEnough(t, s)
    BY <1>2, <1>4 DEF GoodEnough
<1> QED
    BY <1>1, <1>2, <1>3, <1>4, <1>5, <1>6, <1>7, <1>8

\* the rules and the lists of an assignment,
LEMMA SameRules ==
    ASSUME Same
    PROVE  /\ \A l1, t, s : MayTake(l1, t, s)' <=> MayTake(l1, t, s)
           /\ Admissible' = Admissible
           /\ \A l1 : Inverted(l1)' = Inverted(l1)
           /\ \A l2 : GaFree(l2)' <=> GaFree(l2)
           /\ \A l1 : TotalScore(l1)' = TotalScore(l1)
<1>1. /\ Elements' = Elements /\ Frame' = Frame /\ Slots' = Slots
      /\ \A s : Case(s)' = Case(s)
      /\ \A f, g : CfAdjacent(f, g)' = CfAdjacent(f, g)
      /\ \A t, u : Earlier(t, u)' <=> Earlier(t, u)
      /\ \A t, s : GoodEnough(t, s)' <=> GoodEnough(t, s)
    BY SameElements, Zenon
<1>2. \A l1 : Inverted(l1)' = Inverted(l1)
    BY <1>1, Zenon DEF Inverted
<1>3. \A l1, t : Known1(l1, t)' = Known1(l1, t)
    BY <1>1, Zenon DEF Known1
<1>4. \A l1 : check_adjacent_assigned(l1)' <=> check_adjacent_assigned(l1)
    BY <1>1, Zenon DEF check_adjacent_assigned, Same
<1>5. \A l1, l2, t, c, s : Allowed(l1, l2, t, c, s)' <=> Allowed(l1, l2, t, c, s)
    BY <1>1, <1>4 DEF Allowed, Same
<1>6. \A l1, t, s : MayTake(l1, t, s)' <=> MayTake(l1, t, s)
    BY <1>2, <1>3, <1>5, Zenon DEF MayTake, Same
<1>7. Admissible' = Admissible
    BY <1>1, <1>6, Zenon DEF Admissible, Same
<1>8. \A l2 : GaFree(l2)' <=> GaFree(l2)
    BY <1>1, Zenon DEF GaFree
<1>9. \A l1 : TotalScore(l1)' = TotalScore(l1)
    BY <1>1, Zenon DEF TotalScore, Assigned
<1> QED
    BY <1>2, <1>6, <1>7, <1>8, <1>9, Zenon

\* the merits,
LEMMA SameMerit ==
    ASSUME Same
    PROVE  /\ \A l1 : MeritOf(l1)' = MeritOf(l1)
           /\ \A l1, t, r : MayChoose(l1, t, r)' <=> MayChoose(l1, t, r)
           /\ NoTwice' <=> NoTwice
<1>1. /\ Elements' = Elements /\ Frame' = Frame /\ Slots' = Slots /\ Closest' = Closest
      /\ \A s : Case(s)' = Case(s)
      /\ \A t, s : GoodEnough(t, s)' <=> GoodEnough(t, s)
    BY SameElements, Zenon
<1>2. \A l1, t, s : MayTake(l1, t, s)' <=> MayTake(l1, t, s)
    BY SameRules, Zenon
<1>3. \A l1 : Inverted(l1)' = Inverted(l1) /\ TotalScore(l1)' = TotalScore(l1)
    BY SameRules, Zenon
<1>4. \A l1 : Assigned(l1)' = Assigned(l1)
    BY <1>1, Zenon DEF Assigned
<1>5. \A l1 : Count(l1)' = Count(l1) /\ Positions(l1)' = Positions(l1) /\ Crossings(l1)' = Crossings(l1)
    BY <1>4, Zenon DEF Count, Positions, Crossings
<1>6. \A l1 : DatElements(l1)' = DatElements(l1)
    BY <1>1, Zenon DEF DatElements, Same
<1>7. \A l1 : ClosestMissed(l1)' <=> ClosestMissed(l1)
    BY <1>1, Zenon DEF ClosestMissed, Same
<1>8. \A l2 : OnlyOuter(l2)' <=> OnlyOuter(l2)
    BY <1>1, Zenon DEF OnlyOuter
<1>9. \A l2 : count_pat_element(Frame, l2)' = count_pat_element(Frame, l2)
    BY <1>1, Zenon
<1>10. \A s, n : Normalised(s, n)' = Normalised(s, n)
    BY Zenon DEF Normalised, Same
<1>11. \A l1, l2, s : LocalScore(l1, l2, s)' = LocalScore(l1, l2, s)
    BY <1>5, <1>6, <1>7, <1>8, <1>9, <1>10 DEF LocalScore
<1>12. \A l1, l2 : Probability(l1, l2)' = Probability(l1, l2)
    BY <1>1, Zenon DEF Probability
<1>13. \A l1, l2, s : Merit(l1, l2, s)' = Merit(l1, l2, s)
    <2> SUFFICES ASSUME NEW l1, NEW l2, NEW s
                 PROVE  Merit(l1, l2, s)' = Merit(l1, l2, s)
        BY Zenon
    <2>1. input' = input
        BY Zenon DEF Same
    <2>2. CASE input.prob
        BY <1>7, <1>12, <2>1, <2>2, Zenon DEF Merit
    <2>3. CASE ~input.prob
        BY <1>5, <1>11, <2>1, <2>3, Zenon DEF Merit
    <2> QED
        BY <2>2, <2>3, Zenon
<1>14. \A l1 : MeritOf(l1)' = MeritOf(l1)
    BY <1>3, <1>13, Zenon DEF MeritOf
<1>15. \A l1, t, r : MayChoose(l1, t, r)' <=> MayChoose(l1, t, r)
    BY <1>1, <1>2, Zenon DEF MayChoose, Same
<1>16. NoTwice' <=> NoTwice
    BY <1>1, Zenon DEF NoTwice, Same
<1> QED
    BY <1>14, <1>15, <1>16, Zenon

\* and what has been searched.
LEMMA SameSearch ==
    ASSUME Same, NEW st, NEW c, Searched(st, c)
    PROVE  Searched(st, c)'
<1>1. /\ Elements' = Elements /\ \A t, u : Earlier(t, u)' <=> Earlier(t, u)
    BY SameElements, Zenon
<1>2. /\ Admissible' = Admissible
      /\ \A l1 : Inverted(l1)' = Inverted(l1) /\ TotalScore(l1)' = TotalScore(l1)
      /\ \A l2 : GaFree(l2)' <=> GaFree(l2)
    BY SameRules, Zenon
<1>3. /\ \A l1 : MeritOf(l1)' = MeritOf(l1)
      /\ \A l1, t, r : MayChoose(l1, t, r)' <=> MayChoose(l1, t, r)
    BY SameMerit, Zenon
<1>4. \A a : Ruled(a)' <=> Ruled(a)
    BY <1>1, <1>2, <1>3, Zenon DEF Ruled
<1>5. \A l1, a : Pending(l1, a)' <=> Pending(l1, a)
    BY <1>1, Zenon DEF Pending
<1>6. \A l1, g : Weighed(l1, g)' <=> Weighed(l1, g)
    BY <1>2, <1>3, Zenon DEF Weighed, Same
<1>7. \A g : Found(g)' <=> Found(g)
    BY <1>2, <1>3, Zenon DEF Found, Four
<1> QED
    BY <1>2, <1>4, <1>5, <1>6, <1>7, Zenon DEF Searched

\* When a frame is begun everything is still to be searched.
Begun ==
    ~NoTwice => Searched(<<Activation([t \in Elements |-> UNASSIGNED], [s \in Slots |-> UNASSIGNED], 0)>>,
                         FreshCurrent)

\* The first activation of a frame has everything to search.
LEMMA BegunRight == InFrame => Begun
<1> SUFFICES ASSUME InFrame, ~NoTwice,
                    NEW b, b = Activation([t \in Elements |-> UNASSIGNED], [s \in Slots |-> UNASSIGNED], 0)
             PROVE  Searched(<<b>>, FreshCurrent)
    BY Zenon DEF Begun
<1>1. Ruled(b) /\ \A l1 \in Admissible : Pending(l1, b)
    BY FreshRuled, Zenon
<1>2. DOMAIN <<b>> = {1} /\ <<b>>[1] = b
    OBVIOUS
<1>3. Found(FreshCurrent)
    <2>1. FAILURE \in Int
        BY DEF FAILURE
    <2>2. FreshCurrent.lists = <<>> /\ FreshCurrent.merit = <<FAILURE, 0, 0, 0>>
        BY DEF FreshCurrent
    <2>3. \A f \in Int : Four(<<f, 0, 0, 0>>)
        BY DEF Four
    <2> QED
        BY <2>1, <2>2, <2>3, NothingIn, Zenon DEF Found
<1> QED
    BY <1>1, <1>2, <1>3, Zenon DEF Searched

\* A frame is begun.
LEMMA BeginSearched ==
    ASSUME NEW i, BeginFrame(i), input' = input, InFrame'
    PROVE  Searching'
<1>1. Begun'
    BY BegunRight, PTL
<1> DEFINE a == Activation([t \in Elements |-> UNASSIGNED], [s \in Slots |-> UNASSIGNED], 0)
<1>2. stack' = <<a>>' /\ current' = FreshCurrent'
    <2>1. stack' = <<a'>> /\ current' = FreshCurrent
        BY Zenon DEF BeginFrame
    <2>2. FreshCurrent' = FreshCurrent
        BY DEF FreshCurrent, FAILURE
    <2> QED
        BY <2>1, <2>2
<1> PICK st, c : st = stack' /\ c = current'
    OBVIOUS
<1>3. ~NoTwice' => Searched(st, c)'
    BY <1>1, <1>2 DEF Begun
<1> QED
    BY <1>3 DEF Searching

\* The steps of assign_list.
LEMMA AssignSearched ==
    ASSUME Matching, Searching, AssignSlot \/ AssignNil \/ Return
    PROVE  Searching'
<1> SUFFICES ASSUME ~NoTwice'
             PROVE  Searched(stack, current)'
    BY DEF Searching
<1>1. pc = "match" /\ stack # <<>> /\ Same
    BY Zenon DEF AssignSlot, AssignNil, Return, Same
<1>2. ~NoTwice
    BY <1>1, SameMerit, Zenon
<1>3. Searched(stack, current)
    BY <1>1, <1>2, Zenon DEF Searching
<1> PICK st, c : st = stack' /\ c = current'
    OBVIOUS
<1> DEFINE top == Last(stack)
<1>4. CASE AssignSlot \/ AssignNil
    <2> DEFINE b == IF Head(top.todo) # NIL_ASSIGNED
                    THEN Activation([top.l1 EXCEPT ![top.target] = Head(top.todo)],
                                    [top.l2 EXCEPT ![Head(top.todo)] = top.target],
                                    top.score + Frame.score[top.target][Head(top.todo)])
                    ELSE Activation([top.l1 EXCEPT ![top.target] = NIL_ASSIGNED], top.l2, top.score)
    <2>1. /\ top.todo # <<>> /\ c = current
          /\ st = Append([stack EXCEPT ![Len(stack)].todo = Tail(@)], b)
        <3>1. CASE AssignSlot
            BY <3>1, Zenon DEF AssignSlot
        <3>2. CASE AssignNil
            BY <3>2, Zenon DEF AssignNil
        <3> QED
            BY <1>4, <3>1, <3>2
    <2>2. Begins(top, b)
        BY Zenon DEF Begins
    <2> HIDE DEF b
    <2>3. Pushes(stack, b, st)
        BY <2>1, Zenon DEF Pushes
    <2> HIDE DEF top
    <2>4. Searched(st, current)
        <3>1. top = Last(stack)
            BY Zenon DEF top
        <3> QED
            BY <1>1, <1>2, <1>3, <2>1, <2>2, <2>3, <3>1, TrialSearched, Zenon
    <2>5. Searched(st, c)'
        BY <1>1, <2>1, <2>4, SameSearch, Zenon
    <2> QED
        BY <2>5
<1>5. CASE Return
    <2>1. /\ top.todo = <<>> /\ st = Front(stack)
          /\ c = IF top.target = 0 THEN Evaluated(top.l1, top.l2, top.score) ELSE current
        BY <1>5, Zenon DEF Return
    <2>2. Searched(st, c)
        BY <1>1, <1>2, <1>3, <2>1, ReturnSearched
    <2>3. Searched(st, c)'
        BY <1>1, <2>2, SameSearch, Zenon
    <2> QED
        BY <2>3
<1> QED
    BY <1>4, <1>5, Zenon

\* No step disturbs the search.
LEMMA SearchingKept ==
    ASSUME IInv, IInv', Searching, [Next]_vars
    PROVE  Searching'
<1>1. CASE SelectFrames
    <2>1. BeginFrame(1) /\ input' = input /\ pc' = "match"
        BY <1>1, Zenon DEF SelectFrames
    <2>2. InFrame'
        BY <2>1 DEF IInv, Matching
    <2> QED
        BY <2>1, <2>2, BeginSearched, Zenon
<1>2. CASE AssignSlot \/ AssignNil \/ Return
    <2>1. Matching
        BY <1>2, Zenon DEF IInv, AssignSlot, AssignNil, Return
    <2> QED
        BY <1>2, <2>1, AssignSearched, Zenon
<1>3. CASE StoreFrame
    <2>1. input' = input
        BY <1>3, Zenon DEF StoreFrame
    <2>2. CASE k < Len(cands)
        <3>1. BeginFrame(k + 1) /\ pc' = "match"
            BY <1>3, <2>2, Zenon DEF StoreFrame
        <3>2. InFrame'
            BY <3>1 DEF IInv, Matching
        <3> QED
            BY <2>1, <3>1, <3>2, BeginSearched, Zenon
    <2>3. CASE ~(k < Len(cands))
        <3>1. pc' = "choose"
            BY <1>3, <2>3, Zenon DEF StoreFrame
        <3> QED
            BY <3>1 DEF Searching
    <2> QED
        BY <2>2, <2>3, Zenon
<1>4. CASE ChooseFrame
    <2>1. pc' = "done"
        BY <1>4, Zenon DEF ChooseFrame
    <2> QED
        BY <2>1 DEF Searching
<1>5. CASE Done \/ UNCHANGED vars
    <2>1. Same /\ pc' = pc /\ stack' = stack /\ current' = current
        BY <1>5, Zenon DEF Done, vars, Same
    <2> SUFFICES ASSUME pc = "match", ~NoTwice'
                 PROVE  Searched(stack, current)'
        BY <2>1 DEF Searching
    <2> PICK st, c : st = stack' /\ c = current'
        OBVIOUS
    <2>2. Searched(stack, current)
        BY <2>1, SameMerit, Zenon DEF Searching
    <2>3. Searched(st, c)
        BY <2>1, <2>2, Zenon
    <2>4. Searched(st, c)'
        BY <2>1, <2>3, SameSearch, Zenon
    <2> QED
        BY <2>4
<1> QED
    BY <1>1, <1>2, <1>3, <1>4, <1>5, Zenon DEF Next

\* When case_frame_match returns, the globals hold assignments that the rules
\* admit, none that they admit is better, and the first one fills the nominative
\* if an equally good one does: with any number of elements and of slots, the
\* recursion of assign_list, which takes explicit cases first and tests slots
\* against what is assigned so far, loses nothing on the way.
THEOREM MatchBestAlways == Spec => []MatchBest
<1>1. Init => IInv /\ Searching
    BY DEF Init, IInv, Searching
<1>2. IInv /\ Searching /\ [Next]_vars => IInv' /\ Searching'
    BY InvariantKept, SearchingKept, Zenon
<1>3. IInv /\ Searching => MatchBest
    <2> SUFFICES ASSUME Searching, pc = "match", stack = <<>>, ~NoTwice
                 PROVE  /\ \A r \in ToSet(current.lists) :
                            r.l1 \in Admissible /\ MeritOf(r.l1) = current.merit /\ r.l2 = Inverted(r.l1)
                        /\ \A l1 \in Admissible :
                              /\ ~Beats(MeritOf(l1), current.merit)
                              /\ ~input.prob /\ MeritOf(l1) = current.merit /\ ~GaFree(Inverted(l1)) =>
                                    ~GaFree(current.lists[1].l2)
        BY Zenon DEF MatchBest
    <2>1. Searched(stack, current)
        BY Zenon DEF Searching
    <2>2. DOMAIN stack = {}
        OBVIOUS
    <2>3. \A l1 \in Admissible : Weighed(l1, current)
        BY <2>1, <2>2, Zenon DEF Searched
    <2> QED
        BY <2>1, <2>3, Zenon DEF Searched, Found, Weighed
<1> QED
    BY <1>1, <1>2, <1>3, PTL DEF Spec
-----------------------------------------------------------------------------
(* The sort of the frames that tie                                         *)

\* The first m indices, of which m is the last.
LEMMA LastOfRange ==
    ASSUME NEW n \in Nat, NEW m \in 1 .. n
    PROVE  /\ 1 .. m \in SUBSET (1 .. n) /\ 1 .. m # {} /\ Max(1 .. m) = m
           /\ (1 .. m) \ {m} = 1 .. (m - 1)
<1> DEFINE s == 1 .. m
<1>1. s \in SUBSET (1 .. n) /\ s # {} /\ m \in s /\ m \in Nat
    OBVIOUS
<1>2. Max(s) \in s /\ \A y \in s : Max(s) >= y
    <2> HIDE DEF s
    <2> QED
        BY <1>1, GreatestIndex
<1>3. Max(s) = m
    BY <1>1, <1>2
<1>4. s \ {m} = 1 .. (m - 1)
    OBVIOUS
<1> QED
    BY <1>1, <1>3, <1>4, Zenon

\* Arrays of l matches out of U.
Arrays(l, U) == [1 .. l -> U]

\* A comparison swaps two places or none.
LEMMA ComparedIn ==
    ASSUME NEW l \in Nat, NEW U, NEW s \in Arrays(l, U), NEW i \in 1 .. l, NEW j \in 1 .. l, i # j
    PROVE  /\ Compared(s, i, j) \in Arrays(l, U)
           /\ Better(s[i], s[j]) =>
                /\ Compared(s, i, j)[i] = s[j] /\ Compared(s, i, j)[j] = s[i]
                /\ \A x \in 1 .. l : x # i /\ x # j => Compared(s, i, j)[x] = s[x]
           /\ ~Better(s[i], s[j]) => Compared(s, i, j) = s
<1> DEFINE w == [s EXCEPT ![i] = s[j], ![j] = s[i]]
<1>1. /\ w \in Arrays(l, U) /\ w[i] = s[j] /\ w[j] = s[i]
      /\ \A x \in 1 .. l : x # i /\ x # j => w[x] = s[x]
    BY DEF Arrays
<1>2. Compared(s, i, j) = IF Better(s[i], s[j]) THEN w ELSE s
    BY Zenon DEF Compared
<1> HIDE DEF w
<1> QED
    BY <1>1, <1>2, Zenon

\* The comparisons of match i with all in front of it, from the nearest on.
LEMMA WorstLastSteps ==
    ASSUME NEW l \in Nat, NEW U, NEW a \in Arrays(l, U), NEW i \in 1 .. l
    PROVE  \E g : /\ g[0] = a /\ WorstLast(a, i) = g[i - 1]
                  /\ \A m \in 1 .. (i - 1) : g[m] = Compared(g[m - 1], i, i - m)
<1> DEFINE n == i - 1
           S == Arrays(l, U)
           D == SUBSET (1 .. n)
           Body(x, m) == Compared(x, i, i - m)
           G == [m \in 1 .. n |-> [x \in S |-> Body(x, m)]]
           q == [m \in 1 .. n |-> m]
           Eq(h) == h = [s \in D |-> IF s = {} THEN a ELSE Body(h[s \ {Max(s)}], q[Max(s)])]
<1>1. n \in Nat
    OBVIOUS
<1>2. \A m \in 1 .. n : \A x \in S : Body(x, m) \in S
    <2> TAKE m \in 1 .. n
    <2>1. i - m \in 1 .. l /\ i # i - m
        OBVIOUS
    <2> QED
        BY <2>1, ComparedIn, Zenon
<1>3. a \in S
    OBVIOUS
<1> HIDE DEF n, S, Body
<1>4. G \in [1 .. n -> [S -> S]] /\ \A m \in 1 .. n : \A x \in S : G[m][x] = Body(x, m)
    BY <1>2, Zenon
<1>5. \A s \in D : s # {} => s \ {Max(s)} \in D /\ Max(s) \in 1 .. n
    BY <1>1, ReachFacts, Zenon
<1>6. \A m \in 1 .. n : q[m] = m
    BY Zenon
<1> HIDE DEF G
<1>7. PICK f : Folds(S, n, a, G, f)
    BY <1>1, <1>3, <1>4, FoldExists, Zenon
<1>8. f \in [D -> S] /\ \A s \in D : f[s] = IF s = {} THEN a ELSE G[Max(s)][f[s \ {Max(s)}]]
    BY <1>7, Zenon DEF Folds
<1> HIDE DEF D, q
<1>9. Eq(f)
    <2>1. ASSUME NEW s \in D
          PROVE  f[s] = IF s = {} THEN a ELSE Body(f[s \ {Max(s)}], q[Max(s)])
        BY <1>4, <1>5, <1>6, <1>8, Zenon
    <2>2. f = [s \in D |-> f[s]]
        BY <1>8, Zenon
    <2> QED
        BY <2>1, <2>2, Zenon
<1> DEFINE h == CHOOSE h : Eq(h)
<1>10. WorstLast(a, i) = h[1 .. n]
    <2>1. DOMAIN q = 1 .. n
        BY Zenon DEF q
    <2>2. WorstLast(a, i) = FoldLeft(LAMBDA s, x : Body(s, x), a, q)
        BY Zenon DEF WorstLast, Body, q, n
    <2> QED
        BY <2>1, <2>2, Zenon DEF FoldLeft, MapThenFoldSet, D
<1>11. Eq(h)
    <2> HIDE DEF Eq
    <2> QED
        BY <1>9, Zenon
<1> HIDE DEF h
<1>12. ASSUME NEW s \in D
       PROVE  h[s] = IF s = {} THEN a ELSE Body(h[s \ {Max(s)}], q[Max(s)])
    <2> DEFINE w == [y \in D |-> IF y = {} THEN a ELSE Body(h[y \ {Max(y)}], q[Max(y)])]
    <2>1. h = w
        BY <1>11, Zenon
    <2>2. w[s] = IF s = {} THEN a ELSE Body(h[s \ {Max(s)}], q[Max(s)])
        BY Zenon
    <2> QED
        BY <2>1, <2>2, Zenon
<1> DEFINE g == [m \in 0 .. n |-> h[1 .. m]]
<1>13. g[0] = a
    <2>1. 0 \in 0 .. n /\ 1 .. 0 = {} /\ {} \in D
        BY <1>1 DEF D
    <2>2. h[{}] = a
        BY <1>12, <2>1, Zenon
    <2> QED
        BY <2>1, <2>2, Zenon
<1>14. g[n] = h[1 .. n]
    BY <1>1
<1>15. ASSUME NEW m \in 1 .. n
       PROVE  g[m] = Body(g[m - 1], m)
    <2>1. 1 .. m \in D /\ 1 .. m # {} /\ Max(1 .. m) = m /\ (1 .. m) \ {m} = 1 .. (m - 1)
        BY <1>1, LastOfRange, Zenon DEF D
    <2>2. h[1 .. m] = Body(h[1 .. (m - 1)], m)
        BY <1>6, <1>12, <2>1, Zenon
    <2>3. m \in 0 .. n /\ m - 1 \in 0 .. n
        BY <1>1
    <2> QED
        BY <2>2, <2>3, Zenon
<1> HIDE DEF g
<1>16. \A m \in 1 .. (i - 1) : g[m] = Compared(g[m - 1], i, i - m)
    BY <1>15, Zenon DEF Body, n
<1>17. WorstLast(a, i) = g[i - 1]
    BY <1>10, <1>14, Zenon DEF n
<1> QED
    BY <1>13, <1>16, <1>17, Zenon

\* Better is a strict order of the matches T.
Orders(T) ==
    /\ \A a, b \in T : ~(Better(a, b) /\ Better(b, a))
    /\ \A a, b, c \in T : Better(a, b) /\ Better(b, c) => Better(a, c)

\* The first n places of s hold the matches T.
Arranged(s, n, T) ==
    /\ \A x \in 1 .. n : s[x] \in T
    /\ \A m \in T : \E x \in 1 .. n : s[x] = m

\* Each place behind i, up to n, holds a match that is better than none in front of
\* it, and the match at i is better than none from p on.
Behind(s, n, i, p) ==
    /\ \A x \in (i + 1) .. n : \A r \in 1 .. (x - 1) : ~Better(s[x], s[r])
    /\ \A r \in p .. (i - 1) : ~Better(s[i], s[r])

\* The state of the sort of n places in an array of l, when place i has been compared
\* with those from p on.
SortedTo(s, l, U, n, T, i, p) ==
    /\ s \in Arrays(l, U) /\ Arranged(s, n, T)
    /\ Orders(T) => Behind(s, n, i, p)

\* A comparison.
LEMMA ComparedSorted ==
    ASSUME NEW l \in Nat, NEW U, NEW T, NEW n \in 1 .. l, NEW i \in 1 .. n, NEW j \in 1 .. (i - 1),
           NEW s, SortedTo(s, l, U, n, T, i, j + 1)
    PROVE  SortedTo(Compared(s, i, j), l, U, n, T, i, j)
<1>1. /\ s \in Arrays(l, U) /\ i \in 1 .. l /\ j \in 1 .. l /\ i # j /\ i \in 1 .. n /\ j \in 1 .. n
      /\ Arranged(s, n, T) /\ (Orders(T) => Behind(s, n, i, j + 1))
    BY DEF SortedTo
<1>2. CASE ~Better(s[i], s[j])
    <2>1. Compared(s, i, j) = s
        BY <1>1, <1>2, ComparedIn
    <2>2. \A r \in j .. (i - 1) : r = j \/ r \in (j + 1) .. (i - 1)
        OBVIOUS
    <2>3. Behind(s, n, i, j + 1) => Behind(s, n, i, j)
        BY <1>2, <2>2, Zenon DEF Behind
    <2>4. SortedTo(s, l, U, n, T, i, j)
        BY <1>1, <2>3, Zenon DEF SortedTo
    <2> QED
        BY <2>1, <2>4, Zenon
<1>3. CASE Better(s[i], s[j])
    <2>1. PICK w : w = Compared(s, i, j)
        OBVIOUS
    <2>2. /\ w \in Arrays(l, U) /\ w[i] = s[j] /\ w[j] = s[i]
          /\ \A x \in 1 .. l : x # i /\ x # j => w[x] = s[x]
        BY <1>1, <1>3, <2>1, ComparedIn
    <2>3. \A x \in 1 .. n : x \in 1 .. l
        OBVIOUS
    <2>4. \A x \in 1 .. n : \E y \in 1 .. n : w[x] = s[y] /\ s[x] = w[y]
        BY <1>1, <2>2, <2>3, Zenon
    <2>5. Arranged(w, n, T)
        <3>1. ASSUME NEW x \in 1 .. n
              PROVE  w[x] \in T
            <4>1. PICK y \in 1 .. n : w[x] = s[y]
                BY <2>4, <3>1, Zenon
            <4> QED
                BY <1>1, <4>1, Zenon DEF Arranged
        <3>2. ASSUME NEW m \in T
              PROVE  \E x \in 1 .. n : w[x] = m
            <4>1. PICK x \in 1 .. n : s[x] = m
                BY <1>1, <3>2, Zenon DEF Arranged
            <4>2. PICK y \in 1 .. n : s[x] = w[y]
                BY <2>4, <4>1, Zenon
            <4> QED
                BY <4>1, <4>2, Zenon
        <3> QED
            BY <3>1, <3>2, Zenon DEF Arranged
    <2>6. ASSUME Orders(T)
          PROVE  Behind(w, n, i, j)
        <3>1. Behind(s, n, i, j + 1)
            BY <1>1, <2>6, Zenon
        <3>2. ASSUME NEW x \in (i + 1) .. n, NEW r \in 1 .. (x - 1)
              PROVE  ~Better(w[x], w[r])
            <4>1. x \in 1 .. l /\ x # i /\ x # j /\ r \in 1 .. l /\ i \in 1 .. (x - 1) /\ j \in 1 .. (x - 1)
                BY <3>2
            <4>2. w[x] = s[x]
                BY <2>2, <4>1, Zenon
            <4>3. \E y \in 1 .. (x - 1) : w[r] = s[y]
                BY <2>2, <3>2, <4>1, Zenon
            <4> QED
                BY <3>1, <3>2, <4>2, <4>3, Zenon DEF Behind
        <3>3. ASSUME NEW r \in j .. (i - 1)
              PROVE  ~Better(w[i], w[r])
            <4>1. r = j \/ (r \in (j + 1) .. (i - 1) /\ r \in 1 .. l /\ r \in 1 .. n /\ r # i /\ r # j)
                BY <3>3
            <4>2. /\ \A a, b \in T : ~(Better(a, b) /\ Better(b, a))
                  /\ \A a, b, c \in T : Better(a, b) /\ Better(b, c) => Better(a, c)
                BY <2>6, Zenon DEF Orders
            <4>3. \A x \in 1 .. n : s[x] \in T
                BY <1>1, Zenon DEF Arranged
            <4>4. CASE r = j
                BY <1>1, <1>3, <2>2, <4>2, <4>3, <4>4, Zenon
            <4>5. CASE r \in (j + 1) .. (i - 1) /\ r \in 1 .. l /\ r \in 1 .. n /\ r # i /\ r # j
                <5>1. w[r] = s[r] /\ w[i] = s[j]
                    BY <2>2, <4>5, Zenon
                <5>2. ~Better(s[i], s[r])
                    BY <3>1, <4>5, Zenon DEF Behind
                <5>3. ~Better(s[j], s[r])
                    BY <1>1, <1>3, <4>2, <4>3, <4>5, <5>2, Zenon
                <5> QED
                    BY <5>1, <5>3, Zenon
            <4> QED
                BY <4>1, <4>4, <4>5, Zenon
        <3> QED
            BY <3>2, <3>3, Zenon DEF Behind
    <2>7. SortedTo(w, l, U, n, T, i, j)
        BY <2>2, <2>5, <2>6, Zenon DEF SortedTo
    <2> QED
        BY <2>1, <2>7, Zenon
<1> QED
    BY <1>2, <1>3

\* All comparisons of match i.
LEMMA WorstLastSorted ==
    ASSUME NEW l \in Nat, NEW U, NEW T, NEW n \in 1 .. l, NEW i \in 1 .. n,
           NEW s, SortedTo(s, l, U, n, T, i, i)
    PROVE  SortedTo(WorstLast(s, i), l, U, n, T, i, 1)
<1>1. s \in Arrays(l, U) /\ i \in 1 .. l
    BY DEF SortedTo
<1>2. PICK g : /\ g[0] = s /\ WorstLast(s, i) = g[i - 1]
               /\ \A m \in 1 .. (i - 1) : g[m] = Compared(g[m - 1], i, i - m)
    BY <1>1, WorstLastSteps
<1> DEFINE Q == {m \in 0 .. (i - 1) : SortedTo(g[m], l, U, n, T, i, i - m)}
<1>3. 0 \in Q
    <2>1. 0 \in 0 .. (i - 1) /\ i - 0 = i
        OBVIOUS
    <2>2. SortedTo(g[0], l, U, n, T, i, i - 0)
        BY <1>2, <2>1, Zenon
    <2> QED
        BY <2>1, <2>2, Zenon
<1>4. ASSUME NEW m \in (0 + 1) .. (i - 1), m - 1 \in Q
      PROVE  m \in Q
    <2>1. m \in 1 .. (i - 1) /\ m \in 0 .. (i - 1) /\ i - m \in 1 .. (i - 1) /\ i - (m - 1) = (i - m) + 1
        BY <1>4
    <2>2. SortedTo(g[m - 1], l, U, n, T, i, i - (m - 1))
        BY <1>4, Zenon
    <2>3. SortedTo(g[m - 1], l, U, n, T, i, (i - m) + 1)
        BY <2>1, <2>2, Zenon
    <2>4. SortedTo(Compared(g[m - 1], i, i - m), l, U, n, T, i, i - m)
        BY <2>1, <2>3, ComparedSorted, Zenon
    <2>5. SortedTo(g[m], l, U, n, T, i, i - m)
        BY <1>2, <2>1, <2>4, Zenon
    <2> QED
        BY <2>1, <2>5, Zenon
<1>5. 0 \in Nat /\ i - 1 \in Nat /\ i - 1 \in 0 .. (i - 1) /\ i - (i - 1) = 1
    OBVIOUS
<1>6. \A m \in 0 .. (i - 1) : m \in Q
    <2> HIDE DEF Q
    <2> QED
        BY <1>3, <1>4, <1>5, RangeInduction
<1>7. SortedTo(g[i - 1], l, U, n, T, i, i - (i - 1))
    BY <1>5, <1>6, Zenon
<1> QED
    BY <1>2, <1>5, <1>7, Zenon

\* What the comparisons leave is an array again.
LEMMA WorstLastIn ==
    \A l \in Nat : \A U : \A a \in Arrays(l, U) : \A i \in 1 .. l : WorstLast(a, i) \in Arrays(l, U)
<1> SUFFICES ASSUME NEW l \in Nat, NEW U, NEW a \in Arrays(l, U), NEW i \in 1 .. l
             PROVE  WorstLast(a, i) \in Arrays(l, U)
    OBVIOUS
<1>1. PICK g : /\ g[0] = a /\ WorstLast(a, i) = g[i - 1]
               /\ \A m \in 1 .. (i - 1) : g[m] = Compared(g[m - 1], i, i - m)
    BY WorstLastSteps
<1> DEFINE Q == {m \in 0 .. (i - 1) : g[m] \in Arrays(l, U)}
<1>2. 0 \in Q
    BY <1>1
<1>3. ASSUME NEW m \in (0 + 1) .. (i - 1), m - 1 \in Q
      PROVE  m \in Q
    <2>1. m \in 1 .. (i - 1) /\ m \in 0 .. (i - 1) /\ i - m \in 1 .. l /\ i # i - m
        BY <1>3
    <2>2. g[m - 1] \in Arrays(l, U)
        BY <1>3, Zenon
    <2>3. Compared(g[m - 1], i, i - m) \in Arrays(l, U)
        BY <2>1, <2>2, ComparedIn
    <2> QED
        BY <1>1, <2>1, <2>3, Zenon
<1>4. 0 \in Nat /\ i - 1 \in Nat /\ i - 1 \in 0 .. (i - 1)
    OBVIOUS
<1>5. \A m \in 0 .. (i - 1) : m \in Q
    <2> HIDE DEF Q
    <2> QED
        BY <1>2, <1>3, <1>4, RangeInduction
<1> QED
    BY <1>1, <1>4, <1>5, Zenon

\* The places of the sort, from the last one on.
LEMMA ResortedSteps ==
    ASSUME NEW l \in Nat, NEW U, NEW a \in Arrays(l, U), NEW i \in 1 .. l
    PROVE  \E g : /\ g[0] = a /\ Resorted(a, i) = g[i - 1]
                  /\ \A m \in 1 .. (i - 1) : g[m] = WorstLast(g[m - 1], i + 1 - m)
<1> DEFINE n == i - 1
           S == Arrays(l, U)
           D == SUBSET (1 .. n)
           Body(x, m) == WorstLast(x, i + 1 - m)
           G == [m \in 1 .. n |-> [x \in S |-> Body(x, m)]]
           q == [m \in 1 .. n |-> m]
           Eq(h) == h = [s \in D |-> IF s = {} THEN a ELSE Body(h[s \ {Max(s)}], q[Max(s)])]
<1>1. n \in Nat
    OBVIOUS
<1>2. \A m \in 1 .. n : \A x \in S : Body(x, m) \in S
    <2> TAKE m \in 1 .. n
    <2>1. i + 1 - m \in 1 .. l
        OBVIOUS
    <2> QED
        BY <2>1, WorstLastIn, Zenon
<1>3. a \in S
    OBVIOUS
<1> HIDE DEF n, S, Body
<1>4. G \in [1 .. n -> [S -> S]] /\ \A m \in 1 .. n : \A x \in S : G[m][x] = Body(x, m)
    BY <1>2, Zenon
<1>5. \A s \in D : s # {} => s \ {Max(s)} \in D /\ Max(s) \in 1 .. n
    BY <1>1, ReachFacts, Zenon
<1>6. \A m \in 1 .. n : q[m] = m
    BY Zenon
<1> HIDE DEF G
<1>7. PICK f : Folds(S, n, a, G, f)
    BY <1>1, <1>3, <1>4, FoldExists, Zenon
<1>8. f \in [D -> S] /\ \A s \in D : f[s] = IF s = {} THEN a ELSE G[Max(s)][f[s \ {Max(s)}]]
    BY <1>7, Zenon DEF Folds
<1> HIDE DEF D, q
<1>9. Eq(f)
    <2>1. ASSUME NEW s \in D
          PROVE  f[s] = IF s = {} THEN a ELSE Body(f[s \ {Max(s)}], q[Max(s)])
        BY <1>4, <1>5, <1>6, <1>8, Zenon
    <2>2. f = [s \in D |-> f[s]]
        BY <1>8, Zenon
    <2> QED
        BY <2>1, <2>2, Zenon
<1> DEFINE h == CHOOSE h : Eq(h)
<1>10. Resorted(a, i) = h[1 .. n]
    <2>1. DOMAIN q = 1 .. n
        BY Zenon DEF q
    <2>2. Resorted(a, i) = FoldLeft(LAMBDA s, x : Body(s, x), a, q)
        BY Zenon DEF Resorted, Body, q, n
    <2> QED
        BY <2>1, <2>2, Zenon DEF FoldLeft, MapThenFoldSet, D
<1>11. Eq(h)
    <2> HIDE DEF Eq
    <2> QED
        BY <1>9, Zenon
<1> HIDE DEF h
<1>12. ASSUME NEW s \in D
       PROVE  h[s] = IF s = {} THEN a ELSE Body(h[s \ {Max(s)}], q[Max(s)])
    <2> DEFINE w == [y \in D |-> IF y = {} THEN a ELSE Body(h[y \ {Max(y)}], q[Max(y)])]
    <2>1. h = w
        BY <1>11, Zenon
    <2>2. w[s] = IF s = {} THEN a ELSE Body(h[s \ {Max(s)}], q[Max(s)])
        BY Zenon
    <2> QED
        BY <2>1, <2>2, Zenon
<1> DEFINE g == [m \in 0 .. n |-> h[1 .. m]]
<1>13. g[0] = a
    <2>1. 0 \in 0 .. n /\ 1 .. 0 = {} /\ {} \in D
        BY <1>1 DEF D
    <2>2. h[{}] = a
        BY <1>12, <2>1, Zenon
    <2> QED
        BY <2>1, <2>2, Zenon
<1>14. g[n] = h[1 .. n]
    BY <1>1
<1>15. ASSUME NEW m \in 1 .. n
       PROVE  g[m] = Body(g[m - 1], m)
    <2>1. 1 .. m \in D /\ 1 .. m # {} /\ Max(1 .. m) = m /\ (1 .. m) \ {m} = 1 .. (m - 1)
        BY <1>1, LastOfRange, Zenon DEF D
    <2>2. h[1 .. m] = Body(h[1 .. (m - 1)], m)
        BY <1>6, <1>12, <2>1, Zenon
    <2>3. m \in 0 .. n /\ m - 1 \in 0 .. n
        BY <1>1
    <2> QED
        BY <2>2, <2>3, Zenon
<1> HIDE DEF g
<1>16. \A m \in 1 .. (i - 1) : g[m] = WorstLast(g[m - 1], i + 1 - m)
    BY <1>15, Zenon DEF Body, n
<1>17. Resorted(a, i) = g[i - 1]
    BY <1>10, <1>14, Zenon DEF n
<1> QED
    BY <1>13, <1>16, <1>17, Zenon

\* The matches of the first n places are sorted: one comes to stand first that
\* none of them is better than.
LEMMA ResortedRight ==
    ASSUME NEW l \in Nat, NEW U, NEW a \in Arrays(l, U), NEW n \in 1 .. l, NEW T, Arranged(a, n, T)
    PROVE  /\ Resorted(a, n)[1] \in T
           /\ Orders(T) => \A m \in T : ~Better(m, Resorted(a, n)[1])
<1>1. PICK g : /\ g[0] = a /\ Resorted(a, n) = g[n - 1]
               /\ \A m \in 1 .. (n - 1) : g[m] = WorstLast(g[m - 1], n + 1 - m)
    BY ResortedSteps
<1> DEFINE Q == {m \in 0 .. (n - 1) : SortedTo(g[m], l, U, n, T, n - m, n - m)}
<1>2. 0 \in Q
    <2>1. Behind(a, n, n, n)
        BY DEF Behind
    <2>2. SortedTo(a, l, U, n, T, n, n)
        BY <2>1, Zenon DEF SortedTo
    <2>3. 0 \in 0 .. (n - 1) /\ n - 0 = n
        OBVIOUS
    <2> QED
        BY <1>1, <2>2, <2>3, Zenon
<1>3. ASSUME NEW m \in (0 + 1) .. (n - 1), m - 1 \in Q
      PROVE  m \in Q
    <2> DEFINE i == n + 1 - m
    <2>1. m \in 1 .. (n - 1) /\ m \in 0 .. (n - 1) /\ i \in 1 .. n /\ n - (m - 1) = i /\ n - m = i - 1
        BY <1>3
    <2>2. SortedTo(g[m - 1], l, U, n, T, n - (m - 1), n - (m - 1))
        BY <1>3, Zenon
    <2>3. SortedTo(g[m - 1], l, U, n, T, i, i)
        BY <2>1, <2>2, Zenon
    <2> PICK w : w = WorstLast(g[m - 1], i)
        OBVIOUS
    <2>4. SortedTo(w, l, U, n, T, i, 1)
        BY <2>1, <2>3, WorstLastSorted
    <2>5. Behind(w, n, i, 1) => Behind(w, n, i - 1, i - 1)
        <3> SUFFICES ASSUME Behind(w, n, i, 1) PROVE Behind(w, n, i - 1, i - 1)
            OBVIOUS
        <3>1. ASSUME NEW x \in (i - 1 + 1) .. n, NEW r \in 1 .. (x - 1)
              PROVE  ~Better(w[x], w[r])
            <4> HIDE DEF i
            <4>1. (x = i /\ r \in 1 .. (i - 1)) \/ x \in (i + 1) .. n
                BY <2>1, <3>1
            <4>2. CASE x = i /\ r \in 1 .. (i - 1)
                BY <4>2, Zenon DEF Behind
            <4>3. CASE x \in (i + 1) .. n
                BY <3>1, <4>3, Zenon DEF Behind
            <4> QED
                BY <4>1, <4>2, <4>3, Zenon
        <3>2. \A r \in (i - 1) .. (i - 1 - 1) : FALSE
            BY <2>1
        <3> HIDE DEF i
        <3> QED
            BY <3>1, <3>2, Zenon DEF Behind
    <2> HIDE DEF i
    <2>6. SortedTo(w, l, U, n, T, i - 1, i - 1)
        BY <2>4, <2>5, Zenon DEF SortedTo
    <2>7. g[m] = w
        BY <1>1, <2>1, Zenon DEF i
    <2>8. SortedTo(g[m], l, U, n, T, n - m, n - m)
        BY <2>1, <2>6, <2>7, Zenon
    <2> QED
        BY <2>1, <2>8, Zenon
<1>4. 0 \in Nat /\ n - 1 \in Nat /\ n - 1 \in 0 .. (n - 1) /\ n - (n - 1) = 1 /\ 1 \in 1 .. n
    OBVIOUS
<1>5. \A m \in 0 .. (n - 1) : m \in Q
    <2> HIDE DEF Q
    <2> QED
        BY <1>2, <1>3, <1>4, RangeInduction
<1>6. SortedTo(g[n - 1], l, U, n, T, n - (n - 1), n - (n - 1))
    BY <1>4, <1>5, Zenon
<1> PICK w : w = Resorted(a, n)
    OBVIOUS
<1>7. SortedTo(w, l, U, n, T, 1, 1)
    BY <1>1, <1>4, <1>6, Zenon
<1>8. Arranged(w, n, T) /\ (Orders(T) => Behind(w, n, 1, 1))
    BY <1>7, Zenon DEF SortedTo
<1>9. w[1] \in T
    BY <1>4, <1>8, Zenon DEF Arranged
<1>10. ASSUME Orders(T), NEW m \in T
       PROVE  ~Better(m, w[1])
    <2>1. PICK x \in 1 .. n : w[x] = m
        BY <1>8, <1>10, Zenon DEF Arranged
    <2>2. x = 1 \/ (x \in (1 + 1) .. n /\ 1 \in 1 .. (x - 1))
        OBVIOUS
    <2>3. CASE x = 1
        <3>1. ~(Better(m, m) /\ Better(m, m))
            BY <1>10, Zenon DEF Orders
        <3> QED
            BY <2>1, <2>3, <3>1, Zenon
    <2>4. CASE x \in (1 + 1) .. n /\ 1 \in 1 .. (x - 1)
        BY <1>8, <1>10, <2>1, <2>4, Zenon DEF Behind
    <2> QED
        BY <2>2, <2>3, <2>4, Zenon
<1> QED
    BY <1>9, <1>10, Zenon
-----------------------------------------------------------------------------
(* What is stored for the frames                                           *)

\* A match of a frame, which has an assignment unless it failed.
Sound(m) ==
    /\ m = [frame |-> m.frame, lists |-> m.lists, sufficiency |-> m.sufficiency, score |-> m.score]
    /\ m.frame \in DOMAIN input.frames /\ Scored(m)
    /\ m.lists \in Seq(Results(Elements, DOMAIN input.frames[m.frame].slots))
    /\ m.score # FAILURE => m.lists # <<>>

\* What is known of a frame.
LEMMA SlotsOfFrame ==
    ASSUME input \in Inputs, NEW f \in DOMAIN input.frames
    PROVE  /\ DOMAIN input.frames[f].slots = 1 .. Len(input.frames[f].slots)
           /\ Len(input.frames[f].slots) \in Nat
           /\ input.frames[f].freq \in [DOMAIN input.frames[f].slots -> Nat]
<1>1. IsInput(input)
    BY InputsAssumption, Zenon
<1>2. input.frames[f] \in ToSet(input.frames)
    BY Zenon DEF ToSet
<1>3. \A X : \A s \in Seq(X) : Len(s) \in Nat /\ DOMAIN s = 1 .. Len(s)
    OBVIOUS
<1>4. /\ input.frames[f].slots \in Seq(ToSet(input.frames[f].slots))
      /\ input.frames[f].freq \in [DOMAIN input.frames[f].slots -> Nat]
    BY <1>1, <1>2, Zenon DEF IsInput
<1> QED
    BY <1>3, <1>4, Zenon

\* The closest element is an element.
LEMMA ClosestIn ==
    ASSUME input \in Inputs, Closest > 0
    PROVE  Closest \in Elements
<1>1. input.closest \in DOMAIN input.elements \cup {0}
    BY InputsAssumption, Zenon DEF IsInput
<1>2. ~(0 > 0)
    OBVIOUS
<1>3. Closest # 0
    BY <1>2, Zenon
<1>4. Closest \in {0, input.closest}
    BY Zenon DEF Closest
<1> QED
    BY <1>1, <1>3, <1>4, Zenon DEF Elements

\* The first assignment of a match that did not fail.
LEMMA FirstIn ==
    ASSUME input \in Inputs, NEW m, Sound(m), m.score # FAILURE
    PROVE  /\ m.lists[1].l1 \in Complete(Elements, DOMAIN input.frames[m.frame].slots)
           /\ m.lists[1].l2 \in Lists2(Elements, DOMAIN input.frames[m.frame].slots)
           /\ m.lists[1].pure \in Int
<1> DEFINE R == Results(Elements, DOMAIN input.frames[m.frame].slots)
<1>1. m.lists \in Seq(R) /\ m.lists # <<>>
    BY Zenon DEF Sound
<1>2. \A X : \A s \in Seq(X) : s # <<>> => s[1] \in X
    OBVIOUS
<1>3. m.lists[1] \in R
    BY <1>1, <1>2, Zenon
<1> QED
    BY <1>3 DEF Results

\* How often an example was seen is a number.
LEMMA FrequencyIn ==
    ASSUME input \in Inputs, Closest > 0, NEW m, Sound(m), m.score # FAILURE
    PROVE  Frequency(m) \in Nat
<1> DEFINE D == DOMAIN input.frames[m.frame].slots
           s == m.lists[1].l1[Closest]
<1>1. m.frame \in DOMAIN input.frames
    BY Zenon DEF Sound
<1>2. input.frames[m.frame].freq \in [D -> Nat]
    BY <1>1, SlotsOfFrame
<1>3. s \in D \cup {NIL_ASSIGNED}
    BY ClosestIn, FirstIn, Zenon DEF Complete
<1>4. ~(NIL_ASSIGNED > 0) /\ 0 \in Nat
    BY DEF NIL_ASSIGNED
<1>5. Frequency(m) = IF s > 0 THEN input.frames[m.frame].freq[s] ELSE 0
    BY Zenon DEF Frequency
<1> HIDE DEF D, s
<1>6. CASE s > 0
    <2>1. s \in D
        BY <1>3, <1>4, <1>6, Zenon
    <2>2. input.frames[m.frame].freq[s] \in Nat
        BY <1>2, <2>1, Zenon
    <2> QED
        BY <1>5, <1>6, <2>2, Zenon
<1>7. CASE ~(s > 0)
    BY <1>4, <1>5, <1>7, Zenon
<1> QED
    BY <1>6, <1>7

\* The slots that count are a number of slots.
LEMMA PatIn ==
    ASSUME input \in Inputs, NEW m, Sound(m), m.score # FAILURE
    PROVE  pat_num(m) \in Nat
<1> DEFINE n == Len(input.frames[m.frame].slots)
           l2 == m.lists[1].l2
           P == {s \in DOMAIN l2 : input.frames[m.frame].slots[s].oblig \/ l2[s] # UNASSIGNED}
<1>1. m.frame \in DOMAIN input.frames
    BY Zenon DEF Sound
<1>2. DOMAIN input.frames[m.frame].slots = 1 .. n /\ n \in Nat
    BY <1>1, SlotsOfFrame
<1>3. DOMAIN l2 = 1 .. n
    BY <1>2, FirstIn, Zenon DEF Lists2
<1>4. pat_num(m) = Cardinality(P)
    BY Zenon DEF pat_num, count_pat_element
<1>5. P \subseteq 1 .. n
    BY <1>3, Zenon
<1> HIDE DEF P, n
<1>6. IsFiniteSet(1 .. n)
    BY <1>2, FS_Interval
<1>7. IsFiniteSet(P)
    BY <1>5, <1>6, FS_Subset
<1> QED
    BY <1>4, <1>7, FS_CardinalityType

\* A match with the score of all elements.
Total(m) ==
    IF m.score < 0 \/ pat_num(m) = 0 THEN m
    ELSE [m EXCEPT !.score = Normalised(m.lists[1].pure, pat_num(m))]

\* Only its score is another.
LEMMA TotalFacts ==
    ASSUME input \in Inputs, NEW m, Sound(m), m.score # FAILURE
    PROVE  /\ Total(m).score \in Int /\ Total(m).frame = m.frame /\ Total(m).lists = m.lists
           /\ Frequency(Total(m)) = Frequency(m)
<1>1. m.score \in Int
    BY Zenon DEF Sound, Scored
<1>2. Total(m).score \in Int /\ Total(m).frame = m.frame /\ Total(m).lists = m.lists
    <2>1. CASE m.score < 0 \/ pat_num(m) = 0
        <3>1. Total(m) = m
            BY <2>1, Zenon DEF Total
        <3> QED
            BY <1>1, <3>1, Zenon
    <2>2. CASE ~(m.score < 0 \/ pat_num(m) = 0)
        <3> PICK v : v = Normalised(m.lists[1].pure, pat_num(m))
            OBVIOUS
        <3>1. pat_num(m) \in Nat \ {0} /\ m.lists[1].pure \in Int
            BY <2>2, PatIn, FirstIn
        <3>2. v \in Int
            BY <3>1, NormalisedIn, Zenon
        <3>3. Total(m) = [m EXCEPT !.score = v]
            BY <2>2, Zenon DEF Total
        <3>4. PICK f, l, s, c : m = [frame |-> f, lists |-> l, sufficiency |-> s, score |-> c]
            BY Zenon DEF Sound
        <3>5. Total(m) = [frame |-> f, lists |-> l, sufficiency |-> s, score |-> v]
            BY <3>3, <3>4
        <3> QED
            BY <3>2, <3>4, <3>5
    <2> QED
        BY <2>1, <2>2, Zenon
<1> QED
    BY <1>2, Zenon DEF Frequency

\* Where scores and frequencies agree, Better is an order.
LEMMA AgreeOrders ==
    ASSUME NEW T, \A m \in T : m.score \in Int /\ Frequency(m) \in Nat,
           \A m, n \in T : Agree(m, n)
    PROVE  Orders(T)
<1>1. \A a, b \in T : ~(Better(a, b) /\ Better(b, a))
    BY Zenon DEF Agree
<1>2. ASSUME NEW a \in T, NEW b \in T, NEW c \in T, Better(a, b), Better(b, c)
      PROVE  Better(a, c)
    <2>1. ~Better(b, a) /\ ~Better(c, b)
        BY <1>1, <1>2, Zenon
    <2>2. /\ a.score \in Int /\ b.score \in Int /\ c.score \in Int
          /\ Frequency(a) \in Nat /\ Frequency(b) \in Nat /\ Frequency(c) \in Nat
        BY <1>2, Zenon
    <2> QED
        BY <1>2, <2>1, <2>2 DEF Better
<1> QED
    BY <1>1, <1>2, Zenon DEF Orders
-----------------------------------------------------------------------------
(* The frames selected                                                     *)

\* The frames are looked at one after another.
LEMMA InOrderSteps ==
    ASSUME input \in Inputs, NEW T
    PROVE  \E g : /\ g[0] = <<>> /\ InOrder(T) = g[Len(input.frames)]
                  /\ \A m \in 1 .. Len(input.frames) :
                        g[m] = IF m \in T THEN Append(g[m - 1], m) ELSE g[m - 1]
<1> DEFINE n == Len(input.frames)
           S == Seq(1 .. n)
           D == SUBSET (1 .. n)
           Body(x, i) == IF i \in T THEN Append(x, i) ELSE x
           G == [i \in 1 .. n |-> [x \in S |-> Body(x, i)]]
           q == [i \in 1 .. n |-> i]
           Eq(h) == h = [s \in D |-> IF s = {} THEN <<>> ELSE Body(h[s \ {Max(s)}], q[Max(s)])]
<1>1. n \in Nat /\ DOMAIN input.frames = 1 .. n
    <2>1. input.frames \in Seq(ToSet(input.frames))
        BY InputsAssumption, Zenon DEF IsInput
    <2> QED
        BY <2>1
<1>2. \A i \in 1 .. n : \A x \in S : Body(x, i) \in S
    <2>1. \A X : \A x \in Seq(X) : \A i \in X : Append(x, i) \in Seq(X)
        OBVIOUS
    <2> QED
        BY <2>1, Zenon
<1>3. <<>> \in S
    OBVIOUS
<1> HIDE DEF n, S, Body
<1>4. G \in [1 .. n -> [S -> S]] /\ \A i \in 1 .. n : \A x \in S : G[i][x] = Body(x, i)
    BY <1>2, Zenon
<1>5. \A s \in D : s # {} => s \ {Max(s)} \in D /\ Max(s) \in 1 .. n
    BY <1>1, ReachFacts, Zenon
<1>6. \A i \in 1 .. n : q[i] = i
    BY Zenon
<1> HIDE DEF G
<1>7. PICK f : Folds(S, n, <<>>, G, f)
    BY <1>1, <1>3, <1>4, FoldExists, Zenon
<1>8. f \in [D -> S] /\ \A s \in D : f[s] = IF s = {} THEN <<>> ELSE G[Max(s)][f[s \ {Max(s)}]]
    BY <1>7, Zenon DEF Folds
<1> HIDE DEF D, q
<1>9. Eq(f)
    <2>1. ASSUME NEW s \in D
          PROVE  f[s] = IF s = {} THEN <<>> ELSE Body(f[s \ {Max(s)}], q[Max(s)])
        BY <1>4, <1>5, <1>6, <1>8, Zenon
    <2>2. f = [s \in D |-> f[s]]
        BY <1>8, Zenon
    <2> QED
        BY <2>1, <2>2, Zenon
<1> DEFINE h == CHOOSE h : Eq(h)
<1>10. InOrder(T) = h[1 .. n]
    <2>1. q = [i \in DOMAIN input.frames |-> i] /\ DOMAIN q = 1 .. n
        BY <1>1, Zenon DEF q
    <2>2. InOrder(T) = FoldLeft(LAMBDA acc, i : Body(acc, i), <<>>, q)
        BY <2>1, Zenon DEF InOrder, Body
    <2> QED
        BY <2>1, <2>2, Zenon DEF FoldLeft, MapThenFoldSet, D
<1>11. Eq(h)
    <2> HIDE DEF Eq
    <2> QED
        BY <1>9, Zenon
<1> HIDE DEF h
<1>12. ASSUME NEW s \in D
       PROVE  h[s] = IF s = {} THEN <<>> ELSE Body(h[s \ {Max(s)}], q[Max(s)])
    <2> DEFINE w == [y \in D |-> IF y = {} THEN <<>> ELSE Body(h[y \ {Max(y)}], q[Max(y)])]
    <2>1. h = w
        BY <1>11, Zenon
    <2>2. w[s] = IF s = {} THEN <<>> ELSE Body(h[s \ {Max(s)}], q[Max(s)])
        BY Zenon
    <2> QED
        BY <2>1, <2>2, Zenon
<1> DEFINE g == [m \in 0 .. n |-> h[1 .. m]]
<1>13. g[0] = <<>>
    <2>1. 0 \in 0 .. n /\ 1 .. 0 = {} /\ {} \in D
        BY <1>1 DEF D
    <2>2. h[{}] = <<>>
        BY <1>12, <2>1, Zenon
    <2> QED
        BY <2>1, <2>2, Zenon
<1>14. g[n] = h[1 .. n]
    BY <1>1
<1>15. ASSUME NEW m \in 1 .. n
       PROVE  g[m] = Body(g[m - 1], m)
    <2>1. 1 .. m \in D /\ 1 .. m # {} /\ Max(1 .. m) = m /\ (1 .. m) \ {m} = 1 .. (m - 1)
        BY <1>1, LastOfRange, Zenon DEF D
    <2>2. h[1 .. m] = Body(h[1 .. (m - 1)], m)
        BY <1>6, <1>12, <2>1, Zenon
    <2>3. m \in 0 .. n /\ m - 1 \in 0 .. n
        BY <1>1
    <2> QED
        BY <2>2, <2>3, Zenon
<1> HIDE DEF g
<1>16. \A m \in 1 .. n : g[m] = IF m \in T THEN Append(g[m - 1], m) ELSE g[m - 1]
    BY <1>15, Zenon DEF Body
<1>17. InOrder(T) = g[n]
    BY <1>10, <1>14, Zenon
<1> QED
    BY <1>13, <1>16, <1>17, Zenon DEF n

\* The frames before the m-th that are selected, each once.
UpToFrame(m) ==
    {s \in Seq(1 .. m) : \A i, j \in DOMAIN s : i # j => s[i] # s[j]}

\* Frames are selected in order, and none of them twice.
LEMMA InOrderApart ==
    ASSUME input \in Inputs, NEW T
    PROVE  /\ InOrder(T) \in Seq(DOMAIN input.frames)
           /\ \A i, j \in DOMAIN InOrder(T) : i # j => InOrder(T)[i] # InOrder(T)[j]
<1> DEFINE n == Len(input.frames)
<1>1. n \in Nat /\ DOMAIN input.frames = 1 .. n
    <2>1. input.frames \in Seq(ToSet(input.frames))
        BY InputsAssumption, Zenon DEF IsInput
    <2> QED
        BY <2>1
<1>2. PICK g : /\ g[0] = <<>> /\ InOrder(T) = g[n]
               /\ \A m \in 1 .. n : g[m] = IF m \in T THEN Append(g[m - 1], m) ELSE g[m - 1]
    BY InOrderSteps
<1> HIDE DEF n
<1> DEFINE Q == {m \in 0 .. n : g[m] \in UpToFrame(m)}
<1>3. 0 \in Q
    <2>1. <<>> \in UpToFrame(0) /\ 0 \in 0 .. n
        BY <1>1 DEF UpToFrame
    <2> QED
        BY <1>2, <2>1, Zenon
<1>4. ASSUME NEW m \in (0 + 1) .. n, m - 1 \in Q
      PROVE  m \in Q
    <2>1. m \in 1 .. n /\ m \in 0 .. n /\ m \in Nat /\ m > 0
        BY <1>1, <1>4
    <2>2. g[m - 1] \in UpToFrame(m - 1)
        BY <1>4, Zenon
    <2>3. ASSUME NEW s \in UpToFrame(m - 1)
          PROVE  s \in UpToFrame(m) /\ Append(s, m) \in UpToFrame(m)
        <3>1. s \in Seq(1 .. (m - 1)) /\ \A i, j \in DOMAIN s : i # j => s[i] # s[j]
            BY DEF UpToFrame
        <3>2. /\ Len(s) \in Nat /\ DOMAIN s = 1 .. Len(s)
              /\ \A i \in 1 .. Len(s) : s[i] \in 1 .. (m - 1)
            BY <3>1
        <3>3. \A i \in 1 .. Len(s) : s[i] \in 1 .. m /\ s[i] # m
            BY <2>1, <3>2
        <3>4. s \in Seq(1 .. m)
            BY <3>1, <3>2, <3>3
        <3>5. m \in 1 .. m
            BY <2>1
        <3> PICK a : a = Append(s, m)
            OBVIOUS
        <3>6. /\ a \in Seq(1 .. m) /\ DOMAIN a = 1 .. (Len(s) + 1) /\ a[Len(s) + 1] = m
              /\ \A i \in 1 .. Len(s) : a[i] = s[i]
            BY <3>4, <3>5
        <3>7. \A i \in 1 .. (Len(s) + 1) : i = Len(s) + 1 \/ i \in 1 .. Len(s)
            BY <3>2
        <3>8. \A i, j \in DOMAIN a : i # j => a[i] # a[j]
            <4> SUFFICES ASSUME NEW i \in DOMAIN a, NEW j \in DOMAIN a, i # j PROVE a[i] # a[j]
                OBVIOUS
            <4>1. CASE i \in 1 .. Len(s) /\ j \in 1 .. Len(s)
                BY <3>1, <3>2, <3>6, <4>1, Zenon
            <4>2. CASE i = Len(s) + 1 /\ j \in 1 .. Len(s)
                BY <3>3, <3>6, <4>2
            <4>3. CASE j = Len(s) + 1 /\ i \in 1 .. Len(s)
                BY <3>3, <3>6, <4>3
            <4> QED
                BY <3>6, <3>7, <4>1, <4>2, <4>3
        <3> QED
            BY <3>1, <3>4, <3>6, <3>8 DEF UpToFrame
    <2>4. g[m] = IF m \in T THEN Append(g[m - 1], m) ELSE g[m - 1]
        BY <1>2, <2>1, Zenon
    <2>5. g[m] \in UpToFrame(m)
        BY <2>2, <2>3, <2>4, Zenon
    <2> QED
        BY <2>1, <2>5, Zenon
<1>5. 0 \in Nat /\ n \in 0 .. n
    BY <1>1
<1>6. \A m \in 0 .. n : m \in Q
    <2> HIDE DEF Q
    <2> QED
        BY <1>1, <1>3, <1>4, <1>5, RangeInduction
<1>7. InOrder(T) \in UpToFrame(n)
    BY <1>2, <1>5, <1>6, Zenon
<1> QED
    BY <1>1, <1>7, Zenon DEF UpToFrame

\* No frame is a candidate twice.
LEMMA CandidatesApart ==
    ASSUME input \in Inputs
    PROVE  \A i, j \in DOMAIN Candidates : i # j => Candidates[i] # Candidates[j]
<1> DEFINE A == DOMAIN input.frames
           w == InOrder({i \in A : Wanted(input.frames[i])})
           q == [i \in A |-> i]
<1>1. \A i, j \in DOMAIN w : i # j => w[i] # w[j]
    BY InOrderApart, Zenon
<1>2. \A i, j \in DOMAIN q : i # j => q[i] # q[j]
    BY Zenon
<1>3. \A x : \A i, j \in DOMAIN <<x>> : ~(i # j)
    OBVIOUS
<1>4. Candidates = w \/ Candidates = q \/ \E x : Candidates = <<x>>
    BY Zenon DEF Candidates
<1> HIDE DEF w, q
<1> QED
    BY <1>1, <1>2, <1>3, <1>4, Zenon
-----------------------------------------------------------------------------
(* The frames matched and those kept                                       *)

\* The matches kept are different matches that were made.
KeptApart ==
    /\ ToSet(cmm) \subseteq ToSet(matched)
    /\ \A i, j \in DOMAIN cmm : i # j => cmm[i] # cmm[j]

\* No frame is matched twice, and what is noted for it is a match of this frame.
Tracked ==
    /\ \A i, j \in DOMAIN cands : i # j => cands[i] # cands[j]
    /\ \A i \in DOMAIN matched : i \in DOMAIN cands /\ matched[i].frame = cands[i] /\ Sound(matched[i])
    /\ current.lists = <<>> => current.merit[1] = FAILURE
    /\ pc \in {"match", "choose"} => KeptApart

\* What is stored for the frame in turn.
LEMMA MatchSound ==
    ASSUME Matching, current.lists = <<>> => current.merit[1] = FAILURE
    PROVE  Sound(Match) /\ Match.frame = cands[k]
<1> DEFINE closest == Closest > 0 /\ current.merit[1] >= 0 /\ current.lists[1].l1[Closest] # NIL_ASSIGNED
           own == Normalised(Frame.score[Closest][current.lists[1].l1[Closest]], 1)
           sc == IF closest THEN own ELSE current.merit[1]
           f == cands[k]
           ls == current.lists
           su == current.sufficiency
<1>1. InFrame /\ Best(Elements, Slots, current)
    BY Zenon DEF Matching
<1>2. ls \in Seq(Results(Elements, Slots)) /\ current.merit[1] \in Int
    BY <1>1, Zenon DEF Best
<1>3. Match = [frame |-> f, lists |-> ls, sufficiency |-> su, score |-> sc]
    BY Zenon DEF Match
<1>4. sc # FAILURE => ls # <<>>
    <2> SUFFICES ASSUME ls = <<>> PROVE sc = FAILURE
        OBVIOUS
    <2>1. current.merit[1] = FAILURE
        BY Zenon
    <2>2. ~(current.merit[1] >= 0)
        BY <2>1 DEF FAILURE
    <2> QED
        BY <2>1, <2>2, Zenon
<1>5. f \in DOMAIN input.frames
    <2>1. \A X : \A s \in Seq(X) : \A i \in 1 .. Len(s) : s[i] \in X
        OBVIOUS
    <2> QED
        BY <1>1, <2>1, Zenon DEF InFrame
<1>6. Slots = DOMAIN input.frames[f].slots
    BY Zenon DEF Slots, Frame
<1>7. Scored(Match)
    BY MatchScored, Zenon
<1> HIDE DEF sc, f, ls, su
<1> PICK m : m = Match
    OBVIOUS
<1>8. m.frame = f /\ m.lists = ls /\ m.sufficiency = su /\ m.score = sc
    BY <1>3
<1>9. m = [frame |-> m.frame, lists |-> m.lists, sufficiency |-> m.sufficiency, score |-> m.score]
    BY <1>3, <1>8, Zenon
<1>10. m.frame \in DOMAIN input.frames /\ (m.score # FAILURE => m.lists # <<>>)
    BY <1>4, <1>5, <1>8, Zenon
<1>11. m.lists \in Seq(Results(Elements, DOMAIN input.frames[m.frame].slots))
    BY <1>2, <1>6, <1>8, Zenon
<1>12. Scored(m)
    BY <1>7, Zenon
<1>13. Sound(m)
    BY <1>9, <1>10, <1>11, <1>12, Zenon DEF Sound
<1> QED
    BY <1>8, <1>13, Zenon DEF f

\* A new match stored, the matches kept are different again.
LEMMA StoredApart ==
    ASSUME Ranked(cmm), NEW n, Scored(n), n \notin ToSet(cmm),
           \A i, j \in DOMAIN cmm : i # j => cmm[i] # cmm[j],
           NEW new, new = Stored(n)
    PROVE  /\ ToSet(new) \subseteq ToSet(cmm) \cup {n}
           /\ \A i, j \in DOMAIN new : i # j => new[i] # new[j]
<1> DEFINE l == Len(cmm)
           S == ToSet(cmm) \cup {n}
           p == Place(cmm, n)
           a == InsertAt(cmm, p, n)
           q == Min({Len(a), CMM_MAX - 1})
<1>1. l \in Nat /\ DOMAIN cmm = 1 .. l /\ cmm \in Seq(ToSet(cmm))
    <2>1. cmm \in Seq(ToSet(cmm))
        BY Zenon DEF Ranked
    <2> QED
        BY <2>1
<1>2. cmm \in Seq(S) /\ n \in S
    <2>1. \A X, x : \A s \in Seq(X) : s \in Seq(X \cup {x})
        OBVIOUS
    <2> QED
        BY <1>1, <2>1, Zenon
<1>3. p \in 1 .. (l + 1)
    BY PlaceRight, Zenon
<1>4. new = SubSeq(a, 1, q)
    BY Zenon DEF Stored, Place
<1>5. \A i \in 1 .. l : cmm[i] # n
    BY <1>1, Zenon DEF ToSet
<1> HIDE DEF S, p
<1>6. /\ a \in Seq(S) /\ Len(a) = l + 1 /\ a[p] = n
      /\ \A i \in 1 .. (l + 1) : i < p => a[i] = cmm[i]
      /\ \A i \in 1 .. (l + 1) : ~(i < p) /\ i # p => a[i] = cmm[i - 1]
    BY <1>2, <1>3, Inserted
<1> HIDE DEF a
<1>7. \A i \in 1 .. (l + 1) : \/ i = p /\ a[i] = n
                              \/ i < p /\ i \in 1 .. l /\ a[i] = cmm[i]
                              \/ i > p /\ i - 1 \in 1 .. l /\ a[i] = cmm[i - 1]
    <2> TAKE i \in 1 .. (l + 1)
    <2>1. \/ i = p
          \/ i < p /\ i \in 1 .. l
          \/ ~(i < p) /\ i # p /\ i > p /\ i - 1 \in 1 .. l
        BY <1>1, <1>3
    <2> QED
        BY <1>6, <2>1, Zenon
<1>8. ASSUME NEW i \in 1 .. (l + 1), NEW j \in 1 .. (l + 1), i < j
      PROVE  a[i] # a[j]
    <2>1. \A x, y \in 1 .. l : x # y => cmm[x] # cmm[y]
        BY <1>1, Zenon
    <2>2. CASE i = p
        <3>1. j - 1 \in 1 .. l /\ a[j] = cmm[j - 1] /\ a[i] = n
            BY <1>3, <1>7, <1>8, <2>2
        <3> QED
            BY <1>5, <3>1, Zenon
    <2>3. CASE i < p /\ i \in 1 .. l /\ a[i] = cmm[i]
        <3>1. CASE j = p
            BY <1>5, <1>6, <2>3, <3>1, Zenon
        <3>2. CASE j < p /\ j \in 1 .. l /\ a[j] = cmm[j]
            <4>1. i # j
                BY <1>8
            <4> QED
                BY <2>1, <2>3, <3>2, <4>1, Zenon
        <3>3. CASE j > p /\ j - 1 \in 1 .. l /\ a[j] = cmm[j - 1]
            <4>1. i # j - 1
                BY <1>3, <2>3, <3>3
            <4> QED
                BY <2>1, <2>3, <3>3, <4>1, Zenon
        <3> QED
            BY <1>7, <3>1, <3>2, <3>3, Zenon
    <2>4. CASE i > p /\ i - 1 \in 1 .. l /\ a[i] = cmm[i - 1]
        <3>1. j - 1 \in 1 .. l /\ a[j] = cmm[j - 1] /\ i - 1 # j - 1
            BY <1>3, <1>7, <1>8, <2>4
        <3> QED
            BY <2>1, <2>4, <3>1, Zenon
    <2> QED
        BY <1>7, <2>2, <2>3, <2>4, Zenon
<1>9. \A i, j \in 1 .. (l + 1) : i # j => a[i] # a[j]
    <2>1. \A i, j \in 1 .. (l + 1) : i # j => i < j \/ j < i
        BY <1>1
    <2> QED
        BY <1>8, <2>1, Zenon
<1>10. q \in 0 .. (l + 1)
    <2>1. CMM_MAX - 1 \in Nat /\ l + 1 \in Nat
        BY <1>1, LimitsAssumption
    <2>2. q = IF l + 1 <= CMM_MAX - 1 THEN l + 1 ELSE CMM_MAX - 1
        BY <1>6, <2>1, Smaller, Zenon
    <2> QED
        BY <2>1, <2>2
<1> HIDE DEF q
<1>11. new \in Seq(S) /\ Len(new) = q /\ \A i \in 1 .. q : new[i] = a[i]
    <2>1. q \in 0 .. Len(a)
        BY <1>6, <1>10, Zenon
    <2> QED
        BY <1>4, <1>6, <2>1, Shortened
<1>12. DOMAIN new = 1 .. q /\ \A i \in 1 .. q : new[i] \in S
    BY <1>11
<1>13. \A i \in 1 .. q : i \in 1 .. (l + 1)
    BY <1>1, <1>10
<1>14. \A i, j \in DOMAIN new : i # j => new[i] # new[j]
    <2> SUFFICES ASSUME NEW i \in 1 .. q, NEW j \in 1 .. q, i # j PROVE new[i] # new[j]
        BY <1>12, Zenon
    <2>1. a[i] # a[j]
        BY <1>9, <1>13, Zenon
    <2>2. new[i] = a[i] /\ new[j] = a[j]
        BY <1>11, Zenon
    <2> QED
        BY <2>1, <2>2, Zenon
<1>15. ToSet(new) \subseteq S
    BY <1>12 DEF ToSet
<1> QED
    BY <1>14, <1>15, Zenon DEF S
-----------------------------------------------------------------------------
(* What is noted stays                                                     *)

Tracking == pc # "select" => Tracked

\* The frames stay the same, and so do matches of theirs.
LEMMA SoundSame ==
    ASSUME input' = input, NEW m
    PROVE  Sound(m)' <=> Sound(m)
<1>1. Elements' = Elements /\ FAILURE' = FAILURE
    BY DEF Elements, FAILURE
<1> QED
    BY <1>1 DEF Sound, Scored, Results, Complete, Lists2

\* What touches neither the array nor the notes keeps them.
LEMMA TrackedSame ==
    ASSUME Tracked, UNCHANGED <<input, cands, matched>>, cmm' = cmm \/ pc' = "done",
           pc' \in {"match", "choose"} => pc \in {"match", "choose"},
           current'.lists = <<>> => current'.merit[1] = FAILURE
    PROVE  Tracked'
<1>1. FAILURE' = FAILURE /\ cands' = cands /\ matched' = matched
    BY DEF FAILURE
<1>2. \A m : Sound(m)' <=> Sound(m)
    BY SoundSame
<1> PICK ms, cs : ms = matched' /\ cs = cands'
    OBVIOUS
<1>3. ms = matched /\ cs = cands
    BY <1>1
<1>4. /\ \A i, j \in DOMAIN cs : i # j => cs[i] # cs[j]
      /\ \A i \in DOMAIN ms : i \in DOMAIN cs /\ ms[i].frame = cs[i] /\ Sound(ms[i])
    BY <1>3, Zenon DEF Tracked
<1>5. \A i \in DOMAIN ms : Sound(ms[i])'
    BY <1>2, <1>4, Zenon
<1>6. pc' \in {"match", "choose"} => KeptApart'
    <2> SUFFICES ASSUME pc' \in {"match", "choose"} PROVE KeptApart'
        OBVIOUS
    <2>1. pc' # "done"
        OBVIOUS
    <2>2. cmm' = cmm
        BY <2>1, Zenon
    <2>3. KeptApart
        BY Zenon DEF Tracked
    <2> QED
        BY <1>1, <2>2, <2>3 DEF KeptApart, ToSet
<1> QED
    BY <1>1, <1>4, <1>5, <1>6 DEF Tracked

\* What was weighed leaves an assignment, or all is as before.
LEMMA WeighedTracked ==
    ASSUME InFrame, Best(Elements, Slots, current),
           current.lists = <<>> => current.merit[1] = FAILURE,
           NEW l1 \in Complete(Elements, Slots), NEW l2 \in Lists2(Elements, Slots), NEW score \in Int,
           NEW c, c = Evaluated(l1, l2, score)
    PROVE  c.lists = <<>> => c.merit[1] = FAILURE
<1> DEFINE v == Taken(l1, l2, score).lists
           d == [current EXCEPT !.lists = @ \o v]
<1>1. v \in Seq(Results(Elements, Slots)) /\ v # <<>>
    BY TakenIn, Zenon
<1>2. Evaluated(l1, l2, score) \in {Taken(l1, l2, score), d, current}
    BY Zenon DEF Evaluated
<1>3. d.lists # <<>>
    <2> PICK x, w : x = current.lists /\ w = v
        OBVIOUS
    <2>1. x \in Seq(Results(Elements, Slots))
        BY Zenon DEF Best
    <2>2. x \o w # <<>>
        <3>1. \A S : \A p, q \in Seq(S) : q # <<>> => p \o q # <<>>
            OBVIOUS
        <3> QED
            BY <1>1, <2>1, <3>1, Zenon
    <2> HIDE DEF v
    <2>3. "lists" \in DOMAIN current
        BY DEF Best
    <2>4. d = [current EXCEPT !["lists"] = x \o w]
        BY Zenon
    <2>5. d["lists"] = x \o w
        BY <2>3, <2>4
    <2> QED
        BY <2>2, <2>5
<1> HIDE DEF v, d
<1>4. CASE c = Taken(l1, l2, score)
    BY <1>1, <1>4, Zenon DEF v
<1>5. CASE c = d
    BY <1>3, <1>5, Zenon
<1>6. CASE c = current
    BY <1>6, Zenon
<1> QED
    BY <1>2, <1>4, <1>5, <1>6

\* A frame is begun with the failure.
LEMMA BegunTracked ==
    ASSUME NEW i, BeginFrame(i), input' = input
    PROVE  current'.lists = <<>> => current'.merit[1] = FAILURE
<1>1. current' = FreshCurrent
    BY Zenon DEF BeginFrame
<1>2. FreshCurrent.merit[1] = FAILURE
    BY DEF FreshCurrent
<1> QED
    BY <1>1, <1>2, Zenon

\* The matches mm of the frames up to some one, of which those in s are kept.
Noted(mm, s) ==
    /\ \A i \in DOMAIN mm : i \in DOMAIN cands /\ mm[i].frame = cands[i] /\ Sound(mm[i])
    /\ ToSet(s) \subseteq ToSet(mm)
    /\ \A i, j \in DOMAIN s : i # j => s[i] # s[j]

\* What is noted when a match is stored: frames are taken up one after another.
LEMMA NoteAdded ==
    ASSUME IInv, Tracked, pc = "match", NEW n, n = Match, NEW mm, mm = Append(matched, n),
           NEW new, new = Stored(n)
    PROVE  Noted(mm, new)
<1> DEFINE l == Len(matched)
           S == ToSet(matched)
<1>1. Matching /\ Keeping /\ l = k - 1
    BY DEF IInv
<1>2. /\ \A i, j \in DOMAIN cands : i # j => cands[i] # cands[j]
      /\ \A i \in DOMAIN matched : i \in DOMAIN cands /\ matched[i].frame = cands[i] /\ Sound(matched[i])
      /\ current.lists = <<>> => current.merit[1] = FAILURE
      /\ KeptApart
    BY Zenon DEF Tracked
<1>3. Sound(n) /\ n.frame = cands[k]
    BY <1>1, <1>2, MatchSound, Zenon
<1>4. matched \in Seq(S)
    BY <1>1, Zenon DEF Keeping
<1>5. l \in Nat /\ DOMAIN matched = 1 .. l
    BY <1>4
<1>6. k \in DOMAIN cands /\ k \in Nat /\ k = l + 1
    <2>1. k \in 1 .. Len(cands) /\ cands \in Seq(DOMAIN input.frames)
        BY <1>1, Zenon DEF Matching, InFrame
    <2>2. DOMAIN cands = 1 .. Len(cands)
        BY <2>1
    <2> QED
        BY <1>1, <2>1, <2>2
<1> DEFINE U == S \cup {n}
<1>7. matched \in Seq(U) /\ n \in U
    <2>1. \A X, x : \A s \in Seq(X) : s \in Seq(X \cup {x})
        OBVIOUS
    <2> QED
        BY <1>4, <2>1, Zenon
<1> HIDE DEF U
<1>8. /\ DOMAIN mm = 1 .. (l + 1) /\ mm[l + 1] = n
      /\ \A i \in 1 .. l : mm[i] = matched[i]
      /\ ToSet(mm) = ToSet(matched) \cup {n}
    <2>1. l = Len(matched)
        BY Zenon
    <2> HIDE DEF l
    <2>2. /\ DOMAIN Append(matched, n) = 1 .. (l + 1) /\ Append(matched, n)[l + 1] = n
          /\ \A i \in 1 .. l : Append(matched, n)[i] = matched[i]
          /\ ToSet(Append(matched, n)) = ToSet(matched) \cup {n}
        BY <1>7, <2>1, Appended
    <2> QED
        BY <2>2
<1>9. \A i \in 1 .. (l + 1) : i = l + 1 \/ i \in 1 .. l
    BY <1>5
<1>10. \A i \in 1 .. l : i # k
    BY <1>5, <1>6
<1> HIDE DEF l
<1>11. \A i \in DOMAIN mm : i \in DOMAIN cands /\ mm[i].frame = cands[i] /\ Sound(mm[i])
    <2> TAKE i \in DOMAIN mm
    <2>1. CASE i = l + 1
        BY <1>3, <1>6, <1>8, <2>1, Zenon
    <2>2. CASE i \in 1 .. l
        BY <1>2, <1>5, <1>8, <2>2, Zenon
    <2> QED
        BY <1>8, <1>9, <2>1, <2>2, Zenon
<1>12. n \notin ToSet(matched)
    <2> SUFFICES ASSUME NEW i \in DOMAIN matched, matched[i] = n PROVE FALSE
        BY Zenon DEF ToSet
    <2>1. i \in DOMAIN cands /\ n.frame = cands[i]
        BY <1>2, Zenon
    <2>2. i # k
        BY <1>5, <1>10, Zenon
    <2>3. cands[i] # cands[k]
        BY <1>2, <1>6, <2>1, <2>2, Zenon
    <2> QED
        BY <1>3, <2>1, <2>3, Zenon
<1>13. ToSet(cmm) \subseteq ToSet(matched) /\ \A i, j \in DOMAIN cmm : i # j => cmm[i] # cmm[j]
    BY <1>2, Zenon DEF KeptApart
<1>14. Ranked(cmm) /\ Scored(n) /\ n \notin ToSet(cmm)
    BY <1>1, <1>3, <1>12, <1>13, Zenon DEF Keeping, Sound
<1>15. /\ ToSet(new) \subseteq ToSet(cmm) \cup {n}
       /\ \A i, j \in DOMAIN new : i # j => new[i] # new[j]
    BY <1>13, <1>14, StoredApart
<1> QED
    BY <1>8, <1>11, <1>13, <1>15, Zenon DEF Noted

\* No step disturbs what is noted.
LEMMA TrackingKept ==
    ASSUME IInv, IInv', Tracking, [Next]_vars
    PROVE  Tracking'
<1>1. CASE SelectFrames
    <2>1. /\ input \in Inputs /\ cmm' = <<>> /\ matched' = <<>> /\ cands' = Candidates
          /\ BeginFrame(1) /\ input' = input
        BY <1>1, Zenon DEF SelectFrames, IInv
    <2>2. current'.lists = <<>> => current'.merit[1] = FAILURE
        BY <2>1, BegunTracked, Zenon
    <2> PICK cs : cs = Candidates
        OBVIOUS
    <2>3. \A i, j \in DOMAIN cs : i # j => cs[i] # cs[j]
        BY <2>1, CandidatesApart, Zenon
    <2>4. FAILURE' = FAILURE
        BY <2>1 DEF FAILURE
    <2>5. DOMAIN <<>> = {} /\ ToSet(<<>>) = {}
        BY DEF ToSet
    <2>6. KeptApart'
        BY <2>1, <2>5 DEF KeptApart, ToSet
    <2> QED
        BY <2>1, <2>2, <2>3, <2>4, <2>5, <2>6 DEF Tracking, Tracked
<1>2. CASE AssignSlot \/ AssignNil
    <2>1. /\ pc = "match" /\ pc' = pc /\ UNCHANGED <<input, cands, matched>>
          /\ cmm' = cmm /\ current' = current
        BY <1>2, Zenon DEF AssignSlot, AssignNil
    <2>2. Tracked
        BY <2>1 DEF Tracking
    <2>3. current'.lists = <<>> => current'.merit[1] = FAILURE
        BY <2>1, <2>2, Zenon DEF Tracked
    <2>4. pc' \in {"match", "choose"} => pc \in {"match", "choose"}
        BY <2>1, Zenon
    <2> QED
        BY <2>1, <2>2, <2>3, <2>4, TrackedSame, Zenon DEF Tracking
<1>3. CASE Return
    <2> DEFINE top == Last(stack)
               w == Evaluated(top.l1, top.l2, top.score)
    <2>1. /\ pc = "match" /\ pc' = pc /\ UNCHANGED <<input, cands, matched>>
          /\ cmm' = cmm /\ stack # <<>>
          /\ current' = IF top.target = 0 THEN w ELSE current
        BY <1>3, Zenon DEF Return
    <2>2. Tracked /\ Matching
        BY <2>1 DEF Tracking, IInv
    <2>3. current.lists = <<>> => current.merit[1] = FAILURE
        BY <2>2, Zenon DEF Tracked
    <2>4. InFrame /\ Best(Elements, Slots, current) /\ Active(Elements, Slots, top)
        BY <2>1, <2>2, TopFacts, Zenon DEF Matching
    <2>5. ASSUME top.target = 0
          PROVE  w.lists = <<>> => w.merit[1] = FAILURE
        <3>1. top.l1 \in Complete(Elements, Slots) /\ top.l2 \in Lists2(Elements, Slots) /\ top.score \in Int
            BY <2>4, <2>5, Zenon DEF Active
        <3> QED
            BY <2>3, <2>4, <3>1, WeighedTracked, Zenon
    <2> HIDE DEF w
    <2>6. current'.lists = <<>> => current'.merit[1] = FAILURE
        BY <2>1, <2>3, <2>5, Zenon
    <2>7. pc' \in {"match", "choose"} => pc \in {"match", "choose"}
        BY <2>1, Zenon
    <2> QED
        BY <2>1, <2>2, <2>6, <2>7, TrackedSame, Zenon DEF Tracking
<1>4. CASE StoreFrame
    <2> PICK n : n = Match
        OBVIOUS
    <2> PICK mm : mm = Append(matched, n)
        OBVIOUS
    <2> PICK new : new = Stored(n)
        OBVIOUS
    <2>1. /\ pc = "match" /\ input' = input /\ cands' = cands
          /\ cmm' = new /\ matched' = mm
        BY <1>4, Zenon DEF StoreFrame
    <2>2. Tracked
        BY <2>1 DEF Tracking
    <2>3. /\ \A i \in DOMAIN mm : i \in DOMAIN cands /\ mm[i].frame = cands[i] /\ Sound(mm[i])
          /\ ToSet(new) \subseteq ToSet(mm)
          /\ \A i, j \in DOMAIN new : i # j => new[i] # new[j]
        <3>1. Noted(mm, new)
            BY <2>1, <2>2, NoteAdded, Zenon
        <3> QED
            BY <3>1, Zenon DEF Noted
    <2>4. current'.lists = <<>> => current'.merit[1] = FAILURE
        <3>1. CASE k < Len(cands)
            <4>1. BeginFrame(k + 1)
                BY <1>4, <3>1, Zenon DEF StoreFrame
            <4> QED
                BY <2>1, <4>1, BegunTracked, Zenon
        <3>2. CASE ~(k < Len(cands))
            <4>1. current' = current
                BY <1>4, <3>2, Zenon DEF StoreFrame
            <4> QED
                BY <2>2, <4>1, Zenon DEF Tracked
        <3> QED
            BY <3>1, <3>2
    <2>5. \A i \in DOMAIN mm : Sound(mm[i])'
        BY <2>1, <2>3, SoundSame, Zenon
    <2>6. KeptApart'
        BY <2>1, <2>3 DEF KeptApart, ToSet
    <2>7. FAILURE' = FAILURE
        BY <2>1 DEF FAILURE
    <2>8. \A i, j \in DOMAIN cands : i # j => cands[i] # cands[j]
        BY <2>2, Zenon DEF Tracked
    <2> QED
        BY <2>1, <2>3, <2>4, <2>5, <2>6, <2>7, <2>8 DEF Tracking, Tracked
<1>5. CASE ChooseFrame \/ Done \/ UNCHANGED vars
    <2>1. /\ UNCHANGED <<input, cands, matched>> /\ current' = current
          /\ \/ cmm' = cmm /\ pc' = pc
             \/ pc = "choose" /\ pc' = "done"
        BY <1>5, Zenon DEF ChooseFrame, Done, vars
    <2> SUFFICES ASSUME pc' # "select" PROVE Tracked'
        BY DEF Tracking
    <2>2. Tracked
        BY <2>1 DEF Tracking
    <2>3. current'.lists = <<>> => current'.merit[1] = FAILURE
        BY <2>1, <2>2, Zenon DEF Tracked
    <2>4. pc' \in {"match", "choose"} => pc \in {"match", "choose"}
        BY <2>1
    <2>5. cmm' = cmm \/ pc' = "done"
        BY <2>1, Zenon
    <2> QED
        BY <2>1, <2>2, <2>3, <2>4, <2>5, TrackedSame, Zenon
<1> QED
    BY <1>1, <1>2, <1>3, <1>4, <1>5, Zenon DEF Next
-----------------------------------------------------------------------------
(* The frames that tie                                                     *)

\* A sequence has finitely many elements, and one for each place if they differ.
LEMMA ElementsCounted ==
    ASSUME NEW X, NEW s \in Seq(X)
    PROVE  /\ IsFiniteSet(ToSet(s))
           /\ (\A i, j \in DOMAIN s : i # j => s[i] # s[j]) => Cardinality(ToSet(s)) = Len(s)
<1> DEFINE l == Len(s)
           T == ToSet(s)
<1>1. l \in Nat /\ DOMAIN s = 1 .. l /\ s = [i \in 1 .. l |-> s[i]]
    OBVIOUS
<1>2. T = {s[i] : i \in 1 .. l}
    BY <1>1, Zenon DEF ToSet
<1>3. IsFiniteSet(1 .. l) /\ Cardinality(1 .. l) = l
    <2>1. l \in Nat
        BY <1>1
    <2> HIDE DEF l
    <2>2. 1 \in Int /\ l \in Int
        BY <2>1
    <2>3. IsFiniteSet(1 .. l)
        BY <2>2, FS_Interval, Zenon
    <2>4. Cardinality(1 .. l) = IF 1 > l THEN 0 ELSE l - 1 + 1
        BY <2>2, FS_Interval, Zenon
    <2> QED
        BY <2>1, <2>3, <2>4
<1> HIDE DEF l, T
<1>4. s \in [1 .. l -> T]
    BY <1>1, <1>2, Zenon
<1>5. s \in Surjection(1 .. l, T)
    BY <1>2, <1>4, Zenon DEF Surjection
<1>6. /\ IsFiniteSet(T)
      /\ Cardinality(T) = Cardinality(1 .. l) <=> s \in Injection(1 .. l, T)
    BY <1>3, <1>5, FS_Surjection
<1>7. ASSUME \A i, j \in DOMAIN s : i # j => s[i] # s[j]
      PROVE  Cardinality(T) = l
    <2>1. s \in Injection(1 .. l, T)
        BY <1>1, <1>4, <1>7, Zenon DEF Injection, IsInjective
    <2> QED
        BY <1>3, <1>6, <2>1, Zenon
<1> QED
    BY <1>6, <1>7, Zenon DEF l, T

\* The frames that tie stand in front, and score best.
LEMMA TiesFirst ==
    ASSUME Ranked(cmm), NEW n, n = Ties(cmm), n > 0
    PROVE  /\ Len(cmm) \in Nat /\ DOMAIN cmm = 1 .. Len(cmm) /\ n \in 1 .. Len(cmm)
           /\ cmm[1].score # FAILURE
           /\ \A j \in 1 .. n : cmm[j].score = cmm[1].score
           /\ \A j \in 1 .. Len(cmm) : /\ cmm[j].score <= cmm[1].score
                                       /\ cmm[j].score = cmm[1].score => j \in 1 .. n
<1> DEFINE l == Len(cmm)
           T == {i \in DOMAIN cmm : \A j \in 1 .. i : cmm[j].score = cmm[1].score}
<1>1. cmm # <<>> /\ cmm[1].score # FAILURE /\ n = Max(T)
    <2>1. n # 0
        OBVIOUS
    <2> QED
        BY <2>1, Zenon DEF Ties
<1>2. cmm \in Seq(ToSet(cmm))
    BY Zenon DEF Ranked
<1>3. l \in Nat /\ DOMAIN cmm = 1 .. l /\ 1 \in 1 .. l
    BY <1>1, <1>2
<1>4. \A i \in 1 .. l : cmm[i].score \in Int
    BY <1>3, Zenon DEF Ranked, Scored
<1>5. \A i, j \in 1 .. l : i < j => ~(cmm[j].score > cmm[i].score)
    BY <1>3, Zenon DEF Ranked, Precedes
<1>6. T \in SUBSET (1 .. l)
    BY <1>3, Zenon
<1>7. 1 \in T
    BY <1>3
<1>8. n \in T /\ n \in 1 .. l /\ \A y \in T : n >= y
    <2> HIDE DEF T, l
    <2> QED
        BY <1>1, <1>3, <1>6, <1>7, GreatestIndex
<1>9. \A j \in 1 .. n : cmm[j].score = cmm[1].score
    BY <1>8, Zenon
<1>10. ASSUME NEW j \in 1 .. l
       PROVE  cmm[j].score <= cmm[1].score
    <2>1. CASE j = 1
        BY <1>3, <1>4, <2>1
    <2>2. CASE j # 1
        <3>1. 1 < j
            BY <2>2
        <3>2. ~(cmm[j].score > cmm[1].score)
            BY <1>3, <1>5, <3>1, Zenon
        <3> QED
            BY <1>3, <1>4, <3>2
    <2> QED
        BY <2>1, <2>2
<1>11. ASSUME NEW j \in 1 .. l, cmm[j].score = cmm[1].score
       PROVE  j \in 1 .. n
    <2>1. ASSUME NEW i \in 1 .. j
          PROVE  cmm[i].score = cmm[1].score
        <3>1. i \in 1 .. l /\ (i = j \/ i < j)
            BY <1>3, <1>11
        <3>2. CASE i = j
            BY <1>11, <3>2
        <3>3. CASE i < j
            <4>1. ~(cmm[j].score > cmm[i].score)
                BY <1>5, <3>1, <3>3, Zenon
            <4>2. cmm[i].score <= cmm[1].score
                BY <1>10, <3>1, Zenon
            <4> QED
                BY <1>3, <1>4, <1>11, <3>1, <4>1, <4>2
        <3> QED
            BY <3>1, <3>2, <3>3
    <2>2. j \in T
        BY <1>3, <1>11, <2>1, Zenon
    <2>3. n >= j
        BY <1>8, <2>2, Zenon
    <2> QED
        BY <1>3, <1>8, <2>3
<1> QED
    BY <1>1, <1>3, <1>8, <1>9, <1>10, <1>11, Zenon

\* No frame scored better than the first, and those that scored as well were kept if
\* there was room for all of them.
LEMMA TiesKept ==
    ASSUME Keeping, Tracked, pc = "choose", NEW n, n = Ties(cmm), n > 0,
           NEW tied, tied = {m \in ToSet(matched) : m.score = cmm[1].score}
    PROVE  /\ \A m \in ToSet(matched) : m.score <= cmm[1].score
           /\ \A j \in 1 .. n : cmm[j] \in tied
           /\ Cardinality(tied) < CMM_MAX => \A m \in tied : \E j \in 1 .. n : cmm[j] = m
<1> DEFINE l == Len(cmm)
           top == cmm[1].score
           c == CMM_MAX - 1
<1>1. Ranked(cmm)
    BY Zenon DEF Keeping
<1>2. /\ l \in Nat /\ DOMAIN cmm = 1 .. l /\ n \in 1 .. l
      /\ top # FAILURE
      /\ \A j \in 1 .. n : cmm[j].score = top
      /\ \A j \in 1 .. l : cmm[j].score <= top /\ (cmm[j].score = top => j \in 1 .. n)
    BY <1>1, TiesFirst, Zenon
<1>3. /\ \A m \in ToSet(matched) : Scored(m)
      /\ matched \in Seq(ToSet(matched))
      /\ l = IF Len(matched) < c THEN Len(matched) ELSE c
      /\ Len(matched) <= c => ToSet(matched) \subseteq ToSet(cmm)
      /\ \A m \in ToSet(matched) : m \in ToSet(cmm) \/ ~Precedes(m, Last(cmm))
    BY Zenon DEF Keeping
<1>4. ToSet(cmm) \subseteq ToSet(matched) /\ \A i, j \in DOMAIN cmm : i # j => cmm[i] # cmm[j]
    BY Zenon DEF Tracked, KeptApart
<1>5. ToSet(cmm) = {cmm[i] : i \in 1 .. l}
    BY <1>2, Zenon DEF ToSet
<1>6. \A i \in 1 .. l : cmm[i] \in ToSet(matched) /\ cmm[i].score \in Int
    BY <1>3, <1>4, <1>5, Zenon DEF Scored
<1>7. Last(cmm) = cmm[l] /\ l \in 1 .. l /\ 1 \in 1 .. l
    <2>1. l \in 1 .. l /\ 1 \in 1 .. l
        BY <1>2
    <2> QED
        BY <2>1, Zenon DEF Last
<1> HIDE DEF l
<1>8. ASSUME NEW m \in ToSet(matched), m \notin ToSet(cmm)
      PROVE  m.score <= cmm[l].score
    <2>1. ~(m.score > cmm[l].score)
        BY <1>3, <1>7, <1>8, Zenon DEF Precedes
    <2>2. m.score \in Int
        BY <1>3, Zenon DEF Scored
    <2> QED
        BY <1>6, <1>7, <2>1, <2>2
<1>9. ASSUME NEW m \in ToSet(matched)
      PROVE  m.score <= top
    <2>1. CASE m \in ToSet(cmm)
        BY <1>2, <1>5, <2>1, Zenon
    <2>2. CASE m \notin ToSet(cmm)
        <3>1. m.score <= cmm[l].score /\ cmm[l].score <= top
            BY <1>2, <1>7, <1>8, <2>2, Zenon
        <3>2. m.score \in Int /\ cmm[l].score \in Int /\ top \in Int
            BY <1>3, <1>6, <1>7, Zenon DEF Scored
        <3> QED
            BY <3>1, <3>2
    <2> QED
        BY <2>1, <2>2
<1>10. \A j \in 1 .. n : j \in 1 .. l
    BY <1>2
<1>11. \A j \in 1 .. n : cmm[j] \in tied
    BY <1>2, <1>6, <1>10, Zenon
<1>12. ASSUME NEW m \in tied, m \notin ToSet(cmm)
       PROVE  ~(Cardinality(tied) < CMM_MAX)
    <2>1. m \in ToSet(matched) /\ m.score = top
        BY <1>12, Zenon
    <2>2. l = c
        <3>1. ~(Len(matched) <= c)
            BY <1>3, <1>12, <2>1, Zenon
        <3>2. Len(matched) \in Nat /\ c \in Nat
            BY <1>3, LimitsAssumption
        <3> QED
            BY <1>3, <3>1, <3>2
    <2>3. top <= cmm[l].score
        BY <1>8, <1>12, <2>1, Zenon
    <2>4. \A i \in 1 .. l : cmm[i].score = top
        <3> TAKE i \in 1 .. l
        <3>1. cmm[i].score <= top
            BY <1>2, Zenon
        <3>2. CASE i = l
            BY <1>6, <1>7, <2>3, <3>1, <3>2
        <3>3. CASE i # l
            <4>1. i < l
                BY <1>2, <3>3
            <4>2. ~(cmm[l].score > cmm[i].score)
                BY <1>1, <1>2, <1>7, <4>1, Zenon DEF Ranked, Precedes
            <4> QED
                BY <1>6, <1>7, <2>3, <3>1, <4>2
        <3> QED
            BY <3>2, <3>3
    <2>5. ToSet(cmm) \cup {m} \subseteq tied
        BY <1>4, <1>5, <1>12, <2>4, Zenon
    <2>6. IsFiniteSet(tied)
        <3>1. IsFiniteSet(ToSet(matched))
            BY <1>3, ElementsCounted, Zenon
        <3>2. tied \in SUBSET ToSet(matched)
            BY Zenon
        <3> QED
            BY <3>1, <3>2, FS_Subset, Zenon
    <2>7. IsFiniteSet(ToSet(cmm)) /\ Cardinality(ToSet(cmm)) = l
        <3>1. cmm \in Seq(ToSet(cmm))
            BY <1>1, Zenon DEF Ranked
        <3> QED
            BY <1>4, <3>1, ElementsCounted, Zenon DEF l
    <2>8. /\ IsFiniteSet(ToSet(cmm) \cup {m})
          /\ Cardinality(ToSet(cmm) \cup {m}) = l + 1
        BY <1>12, <2>7, FS_AddElement, Zenon
    <2>9. Cardinality(ToSet(cmm) \cup {m}) <= Cardinality(tied) /\ Cardinality(tied) \in Nat
        <3>1. ToSet(cmm) \cup {m} \in SUBSET tied
            BY <2>5, Zenon
        <3>2. Cardinality(tied) \in Nat
            BY <2>6, FS_CardinalityType, Zenon
        <3> QED
            BY <2>6, <3>1, <3>2, FS_Subset, Zenon
    <2>10. l + 1 = CMM_MAX
        BY <2>2, LimitsAssumption
    <2>11. CMM_MAX \in Nat
        BY LimitsAssumption, Zenon
    <2> QED
        BY <2>8, <2>9, <2>10, <2>11
<1>13. ASSUME Cardinality(tied) < CMM_MAX, NEW m \in tied
       PROVE  \E j \in 1 .. n : cmm[j] = m
    <2>1. m \in ToSet(cmm)
        BY <1>12, <1>13, Zenon
    <2>2. PICK j \in 1 .. l : cmm[j] = m
        BY <1>5, <2>1, Zenon
    <2>3. cmm[j].score = top
        BY <1>13, <2>2, Zenon
    <2> QED
        BY <1>2, <2>2, <2>3, Zenon DEF l
<1> QED
    BY <1>9, <1>11, <1>13, Zenon

\* What becomes of place i of s in r: it stays if a match up to there failed.
Replaced(s, r, i) ==
    \/ r[i] = s[i] /\ \E j \in 1 .. i : s[j].score < 0 \/ pat_num(s[j]) = 0
    \/ r[i] = Total(s[i])

\* The scores of the closest element are replaced up to the first match that failed.
LEMMA RescoredPlaces ==
    ASSUME NEW s, NEW l \in Nat, DOMAIN s = 1 .. l, NEW r, r = Rescored(s)
    PROVE  /\ DOMAIN r = 1 .. l /\ r = [i \in 1 .. l |-> r[i]]
           /\ \A i \in 1 .. l : Replaced(s, r, i)
<1> DEFINE failed == {i \in DOMAIN s : s[i].score < 0 \/ pat_num(s[i]) = 0}
           New(i) == [s[i] EXCEPT !.score = Normalised(s[i].lists[1].pure, pat_num(s[i]))]
<1>1. r = [i \in DOMAIN s |-> IF \E j \in failed : j <= i THEN s[i] ELSE New(i)]
    BY Zenon DEF Rescored
<1>2. \A i \in 1 .. l : i \notin failed => New(i) = Total(s[i])
    BY Zenon DEF Total
<1> HIDE DEF New
<1> DEFINE At(i) == IF \E j \in failed : j <= i THEN s[i] ELSE New(i)
<1>3. /\ DOMAIN r = 1 .. l /\ r = [i \in 1 .. l |-> r[i]]
      /\ \A i \in 1 .. l : r[i] = IF \E j \in failed : j <= i THEN s[i] ELSE New(i)
    <2>1. r = [i \in 1 .. l |-> At(i)]
        BY <1>1, Zenon
    <2>2. \A i \in 1 .. l : r[i] = At(i)
        BY <2>1, Zenon
    <2> HIDE DEF At
    <2>3. DOMAIN r = 1 .. l /\ r = [i \in 1 .. l |-> r[i]]
        BY <2>1
    <2> QED
        BY <2>2, <2>3, Zenon DEF At
<1>4. ASSUME NEW i \in 1 .. l, NEW j \in failed, j <= i
      PROVE  r[i] = s[i] /\ \E h \in 1 .. i : s[h].score < 0 \/ pat_num(s[h]) = 0
    <2>1. j \in 1 .. l /\ (s[j].score < 0 \/ pat_num(s[j]) = 0)
        BY Zenon
    <2>2. j \in 1 .. i
        BY <1>4, <2>1
    <2> QED
        BY <1>3, <1>4, <2>1, <2>2, Zenon
<1>5. ASSUME NEW i \in 1 .. l, ~ \E j \in failed : j <= i
      PROVE  r[i] = Total(s[i])
    <2>1. i <= i
        OBVIOUS
    <2>2. i \notin failed
        BY <1>5, <2>1, Zenon
    <2> QED
        BY <1>2, <1>3, <1>5, <2>2, Zenon
<1>6. \A i \in 1 .. l : Replaced(s, r, i)
    BY <1>4, <1>5, Zenon DEF Replaced
<1> QED
    BY <1>3, <1>6, Zenon

\* A match alone.
LEMMA RescoredAlone ==
    ASSUME NEW m
    PROVE  Rescored(<<m>>)[1] = Total(m)
<1> PICK s : s = <<m>>
    OBVIOUS
<1>1. DOMAIN s = 1 .. 1 /\ s[1] = m /\ 1 \in Nat /\ 1 \in 1 .. 1 /\ \A j \in 1 .. 1 : j = 1
    OBVIOUS
<1> PICK r : r = Rescored(s)
    OBVIOUS
<1>2. \/ r[1] = m /\ (m.score < 0 \/ pat_num(m) = 0)
      \/ r[1] = Total(m)
    <2> PICK l : l = 1
        OBVIOUS
    <2>1. l \in Nat /\ DOMAIN s = 1 .. l /\ 1 \in 1 .. l
        BY <1>1
    <2>2. Replaced(s, r, 1)
        BY <2>1, RescoredPlaces, Zenon
    <2> QED
        BY <1>1, <2>2, Zenon DEF Replaced
<1>3. r[1] = Total(m)
    BY <1>2, Zenon DEF Total
<1> QED
    BY <1>3

\* The matches that tie with match own, and these with the scores of all elements.
Tied(own) == {m \in ToSet(matched) : m.score = own.score}
Totals(own) == {Rescored(<<m>>)[1] : m \in Tied(own)}

\* The frame at the head of array s was chosen rightly.
ChosenFirst(s) ==
    \E own \in ToSet(matched) :
        /\ own.frame = s[1].frame
        /\ \A m \in ToSet(matched) : m.score <= own.score
        /\ /\ Cardinality(Tied(own)) < CMM_MAX
           /\ \A m \in Tied(own) : m.score < 0 \/ pat_num(m) > 0
           /\ \A m, n \in Totals(own) : Agree(m, n)
           => \A m \in Totals(own) : ~Better(m, s[1])

\* The second sort puts the right frame first.
LEMMA ChosenRight ==
    ASSUME input \in Inputs, Keeping, Tracked, pc = "choose", Closest > 0,
           NEW n, n = Ties(cmm), n > 0, NEW w, w = Resorted(Rescored(cmm), n)
    PROVE  ChosenFirst(w)
<1> DEFINE l == Len(cmm)
           top == cmm[1].score
           tied == {m \in ToSet(matched) : m.score = top}
<1>1. /\ l \in Nat /\ DOMAIN cmm = 1 .. l /\ n \in 1 .. l
      /\ top # FAILURE /\ \A j \in 1 .. n : cmm[j].score = top
    <2>1. Ranked(cmm)
        BY Zenon DEF Keeping
    <2> QED
        BY <2>1, TiesFirst, Zenon
<1>2. /\ \A m \in ToSet(matched) : m.score <= top
      /\ \A j \in 1 .. n : cmm[j] \in tied
      /\ Cardinality(tied) < CMM_MAX => \A m \in tied : \E j \in 1 .. n : cmm[j] = m
    BY TiesKept
<1>3. \A m \in tied : Sound(m) /\ m.score = top /\ m.score # FAILURE
    <2>1. \A i \in DOMAIN matched : Sound(matched[i])
        BY Zenon DEF Tracked
    <2> QED
        BY <1>1, <2>1, Zenon DEF ToSet
<1> HIDE DEF tied
<1>4. \A m \in tied : /\ Total(m).score \in Int /\ Total(m).frame = m.frame
                      /\ Frequency(Total(m)) \in Nat
    <2> TAKE m \in tied
    <2>1. Sound(m) /\ m.score # FAILURE
        BY <1>3, Zenon
    <2>2. Frequency(m) \in Nat
        BY <2>1, FrequencyIn, Zenon
    <2> QED
        BY <2>1, <2>2, TotalFacts
<1> PICK a : a = Rescored(cmm)
    OBVIOUS
<1>5. /\ DOMAIN a = 1 .. l /\ a = [i \in 1 .. l |-> a[i]]
      /\ \A i \in 1 .. l : Replaced(cmm, a, i)
    <2> HIDE DEF l
    <2> QED
        BY <1>1, RescoredPlaces
<1> DEFINE U == {a[i] : i \in 1 .. l}
           T == {a[i] : i \in 1 .. n}
<1>6. a \in Arrays(l, U) /\ Arranged(a, n, T)
    <2>1. \A i \in 1 .. l : a[i] \in U
        BY Zenon
    <2>2. \A D, V, f : f = [i \in D |-> f[i]] /\ (\A i \in D : f[i] \in V) => f \in [D -> V]
        OBVIOUS
    <2> HIDE DEF U, l
    <2>3. a \in [1 .. l -> U]
        BY <1>5, <2>1, <2>2, Zenon
    <2> QED
        BY <2>3, Zenon DEF Arrays, Arranged
<1> HIDE DEF l, U, T
<1>7. w[1] \in T /\ (Orders(T) => \A m \in T : ~Better(m, w[1]))
    BY <1>1, <1>6, ResortedRight
<1>8. \A i \in 1 .. n : i \in 1 .. l /\ \A j \in 1 .. i : j \in 1 .. n
    BY <1>1
<1>9. PICK i \in 1 .. n : w[1] = a[i]
    BY <1>7, Zenon DEF T
<1> PICK own : own = cmm[i]
    OBVIOUS
<1>10. own \in tied /\ own \in ToSet(matched) /\ own.score = top
    BY <1>2, Zenon DEF tied
<1>11. own.frame = w[1].frame
    <2>1. a[i] = own \/ a[i] = Total(own)
        <3>1. Replaced(cmm, a, i)
            BY <1>5, <1>8, Zenon
        <3> QED
            BY <3>1, Zenon DEF Replaced
    <2>2. Total(own).frame = own.frame
        BY <1>4, <1>10, Zenon
    <2> QED
        BY <1>9, <2>1, <2>2, Zenon
<1> DEFINE total == {Rescored(<<m>>)[1] : m \in tied}
<1>12. total = {Total(m) : m \in tied}
    BY RescoredAlone, Zenon
<1>13. ASSUME Cardinality(tied) < CMM_MAX, \A m \in tied : m.score < 0 \/ pat_num(m) > 0,
              \A m, p \in total : Agree(m, p)
       PROVE  \A m \in total : ~Better(m, w[1])
    <2>1. ASSUME NEW j \in 1 .. n
          PROVE  a[j] = Total(cmm[j]) /\ cmm[j] \in tied
        <3>1. cmm[j] \in tied
            BY <1>2, Zenon
        <3>2. ASSUME a[j] = cmm[j], NEW h \in 1 .. j, cmm[h].score < 0 \/ pat_num(cmm[h]) = 0
              PROVE  a[j] = Total(cmm[j])
            <4>1. cmm[h] \in tied
                BY <1>2, <1>8, Zenon
            <4>2. ~(pat_num(cmm[h]) > 0) \/ cmm[h].score < 0
                BY <3>2
            <4>3. cmm[h].score < 0 /\ cmm[h].score = cmm[j].score
                BY <1>3, <1>13, <3>1, <4>1, <4>2, Zenon
            <4> QED
                BY <3>2, <4>3, Zenon DEF Total
        <3>3. Replaced(cmm, a, j)
            BY <1>5, <1>8, Zenon
        <3> QED
            BY <3>1, <3>2, <3>3, Zenon DEF Replaced
    <2>2. total = T
        <3>1. \A m \in tied : \E j \in 1 .. n : cmm[j] = m
            BY <1>2, <1>13, Zenon
        <3>2. ASSUME NEW x \in total
              PROVE  x \in T
            <4>1. PICK m \in tied : x = Total(m)
                BY <1>12, <3>2, Zenon
            <4>2. PICK j \in 1 .. n : cmm[j] = m
                BY <3>1, Zenon
            <4> QED
                BY <2>1, <4>1, <4>2, Zenon DEF T
        <3>3. ASSUME NEW x \in T
              PROVE  x \in total
            <4>1. PICK j \in 1 .. n : x = a[j]
                BY <3>3, Zenon DEF T
            <4>2. x = Total(cmm[j]) /\ cmm[j] \in tied
                BY <2>1, <4>1, Zenon
            <4> QED
                BY <1>12, <4>2, Zenon
        <3> HIDE DEF total
        <3> QED
            BY <3>2, <3>3, Zenon
    <2>3. \A m \in total : m.score \in Int /\ Frequency(m) \in Nat
        BY <1>4, <1>12, Zenon
    <2> HIDE DEF total
    <2>4. Orders(total)
        BY <1>13, <2>3, AgreeOrders, Zenon
    <2> QED
        BY <1>7, <2>2, <2>4, Zenon
<1>14. tied = Tied(own) /\ total = Totals(own)
    BY <1>10, Zenon DEF tied, Tied, Totals
<1> HIDE DEF total
<1> QED
    BY <1>2, <1>10, <1>11, <1>13, <1>14, Zenon DEF ChosenFirst

\* What a match is worth does not change.
LEMMA SameWorth ==
    ASSUME input' = input
    PROVE  /\ Closest' = Closest
           /\ \A m : pat_num(m)' = pat_num(m)
           /\ \A m : Rescored(<<m>>)' = Rescored(<<m>>)
           /\ \A m, n : Better(m, n)' <=> Better(m, n)
           /\ \A m, n : Agree(m, n)' <=> Agree(m, n)
<1>1. Closest' = Closest
    BY DEF Closest, have_real_component, Elements
<1>2. \A m : pat_num(m)' = pat_num(m)
    BY DEF pat_num, count_pat_element
<1>3. \A score, n : Normalised(score, n)' = Normalised(score, n)
    BY DEF Normalised
<1>4. \A s : Rescored(s)' = Rescored(s)
    BY <1>2, <1>3, Zenon DEF Rescored
<1>5. \A m : Frequency(m)' = Frequency(m)
    BY <1>1 DEF Frequency
<1>6. \A m, n : Better(m, n)' <=> Better(m, n)
    BY <1>5, Zenon DEF Better
<1>7. \A m, n : Agree(m, n)' <=> Agree(m, n)
    BY <1>6, Zenon DEF Agree
<1> QED
    BY <1>1, <1>2, <1>4, <1>6, <1>7, Zenon

\* Nor does the choice once it was right.
LEMMA SameChoice ==
    ASSUME input' = input, matched' = matched, NEW w, ChosenFirst(w), cmm' = w
    PROVE  ChosenFirst(cmm)'
<1>1. /\ \A m : pat_num(m)' = pat_num(m)
      /\ \A m : Rescored(<<m>>)' = Rescored(<<m>>)
      /\ \A m, n : Better(m, n)' <=> Better(m, n)
      /\ \A m, n : Agree(m, n)' <=> Agree(m, n)
    BY SameWorth, Zenon
<1>2. ToSet(matched)' = ToSet(matched)
    BY DEF ToSet
<1>3. \A m : Tied(m)' = Tied(m) /\ Totals(m)' = Totals(m)
    BY <1>1, <1>2, Zenon DEF Tied, Totals
<1>4. ChosenFirst(w)'
    <2>1. PICK own \in ToSet(matched) :
                 /\ own.frame = w[1].frame
                 /\ \A m \in ToSet(matched) : m.score <= own.score
                 /\ /\ Cardinality(Tied(own)) < CMM_MAX
                    /\ \A m \in Tied(own) : m.score < 0 \/ pat_num(m) > 0
                    /\ \A m, n \in Totals(own) : Agree(m, n)
                    => \A m \in Totals(own) : ~Better(m, w[1])
        BY Zenon DEF ChosenFirst
    <2> QED
        BY <1>1, <1>2, <1>3, <2>1, Zenon DEF ChosenFirst
<1> QED
    BY <1>4

\* The frame at the head of the array was chosen rightly.
HeadRight == pc = "done" /\ Closest > 0 /\ tie_num > 0 => ChosenFirst(cmm)

LEMMA HeadKept ==
    ASSUME IInv, Tracking, HeadRight, [Next]_vars
    PROVE  HeadRight'
<1> SUFFICES ASSUME pc' = "done", Closest' > 0, tie_num' > 0
             PROVE  ChosenFirst(cmm)'
    BY DEF HeadRight
<1>1. CASE ChooseFrame
    <2>1. pc = "choose" /\ input' = input /\ matched' = matched
        BY <1>1, Zenon DEF ChooseFrame
    <2>2. Closest > 0
        BY <2>1, SameWorth, Zenon
    <2> PICK n : n = Ties(cmm)
        OBVIOUS
    <2>3. tie_num' = n
        <3>1. tie_num' = IF input.noun \/ have_real_component THEN n ELSE 0
            BY <1>1, Zenon DEF ChooseFrame
        <3>2. tie_num' # 0
            OBVIOUS
        <3> QED
            BY <3>1, <3>2, Zenon
    <2> PICK w : w = Resorted(Rescored(cmm), n)
        OBVIOUS
    <2>4. cmm' = w
        BY <1>1, <2>2, <2>3, Zenon DEF ChooseFrame
    <2>5. input \in Inputs /\ Keeping /\ Tracked
        BY <2>1 DEF IInv, Tracking
    <2>6. n > 0
        BY <2>3, Zenon
    <2>7. ChosenFirst(w)
        BY <2>1, <2>2, <2>5, <2>6, ChosenRight, Zenon
    <2> QED
        BY <2>1, <2>4, <2>7, SameChoice, Zenon
<1>2. CASE Done \/ UNCHANGED vars
    <2>1. /\ pc' = pc /\ input' = input /\ matched' = matched /\ tie_num' = tie_num
          /\ cmm' = cmm
        BY <1>2, Zenon DEF Done, vars
    <2>2. Closest > 0
        BY <2>1, SameWorth, Zenon
    <2>3. ChosenFirst(cmm)
        BY <2>1, <2>2, Zenon DEF HeadRight
    <2> PICK w : w = cmm
        OBVIOUS
    <2> QED
        BY <2>1, <2>3, SameChoice, Zenon
<1>3. CASE SelectFrames \/ AssignSlot \/ AssignNil \/ Return \/ StoreFrame
    <2>1. pc' \in {"match", "choose"}
        BY <1>3 DEF SelectFrames, AssignSlot, AssignNil, Return, StoreFrame
    <2> QED
        BY <2>1
<1> QED
    BY <1>1, <1>2, <1>3, Zenon DEF Next

\* The frame that find_best_cf puts first has the best score of the closest element
\* among all frames matched, also those that found no room in the array; and of the
\* frames that tie in it, unless more tie than there is room for or scores and
\* frequencies of examples disagree, none is better by the scores of all elements,
\* or by the frequency of its example: the second sort, though it looks only at the
\* first places and swaps while it goes, decides among any number of frames.
THEOREM ClosestFirstAlways == Spec => []ClosestFirst
<1>1. Init => IInv /\ Tracking /\ HeadRight
    BY DEF Init, IInv, Tracking, HeadRight
<1>2. IInv /\ Tracking /\ HeadRight /\ [Next]_vars => IInv' /\ Tracking' /\ HeadRight'
    <2> SUFFICES ASSUME IInv, Tracking, HeadRight, [Next]_vars PROVE IInv' /\ Tracking' /\ HeadRight'
        OBVIOUS
    <2>1. IInv'
        BY InvariantKept, Zenon
    <2>2. Tracking'
        BY <2>1, TrackingKept, Zenon
    <2>3. HeadRight'
        BY HeadKept, Zenon
    <2> QED
        BY <2>1, <2>2, <2>3
<1>3. HeadRight => ClosestFirst
    BY Zenon DEF HeadRight, ChosenFirst, Tied, Totals, ClosestFirst
<1> QED
    BY <1>1, <1>2, <1>3, PTL DEF Spec
=============================================================================
