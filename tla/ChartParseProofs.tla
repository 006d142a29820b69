-------------------------- MODULE ChartParseProofs --------------------------
(***************************************************************************)
(* Proofs about ChartParse: its type invariant, HeadsRight, and that with  *)
(* fixed coordinations the chart holds no analysis that is not one, and,   *)
(* where nothing is pruned, every analysis once; for sentences of every    *)
(* length, every matrix, every limit of the table and every beam.          *)
(*                                                                         *)
(* The inductive invariant says of every entry in every cell, those of an  *)
(* earlier attempt included, that each of its phrases but the last has an  *)
(* arc that leads to the right or holds the offset of an earlier phrase.   *)
(* That the lists stay lists of such entries takes a fact about each       *)
(* recursion that makes one: joining lists, sorting them, and replacing    *)
(* the offsets from left to right.                                         *)
(*                                                                         *)
(* The chart is compared with sets of trees: TreesIn(i, j) for a cell.     *)
(* Soundness needs that a barrier set late takes back no arc of a cell     *)
(* filled before; exactness also that it allows none that was missing, and *)
(* that the splits of a cell divide its trees by the first dependent of    *)
(* the root, so that no tree is lost or found twice.                       *)
(***************************************************************************)
EXTENDS ChartParse, SequenceTheorems, FiniteSetTheorems, RecursionFacts

\* Arcs of the phrases of D: each leads to the right or holds an offset.
ArcsOn(D) ==
  {a \in [D -> [to : -2 .. Last, type : DpndTypes]] :
     \A b \in D : a[b].to > b \/ (a[b].to < 0 /\ b + a[b].to >= 0)}

\* The arcs of the phrases i .. j - 1 of a tree with root j.
ArcsOf(i, j) == ArcsOn(i .. (j - 1))

\* The entries of cell <<i, j>>, without and with their scores.
RawEntries(i, j) ==
  [i : {i}, j : {j}, type : DpndTypes \cup {NoDpnd}, para_flag : BOOLEAN, arcs : ArcsOf(i, j),
   ends : SUBSET Bnst, first : i .. j]

Entries(i, j) ==
  [i : {i}, j : {j}, type : DpndTypes \cup {NoDpnd}, para_flag : BOOLEAN, arcs : ArcsOf(i, j),
   ends : SUBSET Bnst, first : i .. j, score : Int]

\* Scores are numbers that can be compared.
ScoresCompare ==
  \A x \in Inputs : \A a \in {"case", "dpnd"} : \A i, j \in Bnst : \A e \in RawEntries(i, j) :
    Score(x.sent, a, e) \in Int

RightHeads(head) == \A b \in Bnst \ {Last} : head[b] > b

Structure == [head : [Bnst -> -1 .. Last], type : [Bnst -> DpndTypes]]

\* The inductive invariant, in parts.
InputInv ==
  /\ \E x \in Inputs : sent = x.sent /\ opt = x.opt
  /\ OptAnalysis \in {"case", "dpnd"} /\ retried \in BOOLEAN
  /\ Dpnd \in Matrices(DpndTypes \cup {NoDpnd})
  /\ para \in [Bnst -> SUBSET (Bnst \X Bnst)]

LoopInv ==
  /\ phase \in {"start", "fill", "choose", "after", "failed", "done"}
  /\ cell \in Cells /\ k \in Nat /\ k <= J - I + 1
  /\ dep_check \in [Bnst -> -1 .. Last]

ChartInv ==
  /\ DOMAIN cky_matrix = Cells
  /\ \A i, j \in Bnst : i <= j => cky_matrix[<<i, j>>] \in Seq(Entries(i, j))
  /\ table_num \in 0 .. (TableMax - 1)

ResultInv ==
  /\ structures \in Seq(Entries(0, Last))
  /\ best \in [head : [Bnst -> -1 .. Last], type : [Bnst -> DpndTypes], score : Int]
  /\ bnst \in Structure
  /\ out \in Seq(BOOLEAN)
  /\ phase = "after" /\ structures = <<>> => RightHeads(best.head)
  /\ phase = "done" => RightHeads(bnst.head)

IInv == InputInv /\ LoopInv /\ ChartInv /\ ResultInv
-----------------------------------------------------------------------------
(* Phrases                                                                 *)

\* There is a last phrase, and phrases are numbered from 0 to it.
LEMMA PhraseBounds ==
  /\ N \in Nat /\ N >= 1
  /\ Last \in Bnst /\ Last \in Nat /\ Last = N - 1
  /\ \A b \in Bnst : b \in Nat /\ 0 <= b /\ b <= Last
  /\ \A b \in 0 .. Last : b \in Bnst
  /\ 0 \in Bnst
BY NAssumption DEF Last, Bnst

\* A cell is a pair of phrases in order.
LEMMA CellBounds ==
  /\ \A c \in Cells : c[1] \in Bnst /\ c[2] \in Bnst /\ c[1] <= c[2] /\ c = <<c[1], c[2]>>
  /\ \A i, j \in Bnst : i <= j => <<i, j>> \in Cells
BY DEF Cells

-----------------------------------------------------------------------------
(* Lists                                                                   *)

\* The intermediate results of FlattenSeq.
Joining(s, m, S, f) ==
  \A n \in 1 .. m : f[n] \in Seq(S) /\ f[n] = IF n = 1 THEN s[n] ELSE f[n - 1] \o s[n]

\* FlattenSeq, which stands for the nested loops that fill a cell, joins lists
\* over S to longer and longer ones over S.
LEMMA FlattenJoins ==
  ASSUME NEW S, NEW m \in Nat, NEW s \in [1 .. m -> Seq(S)]
  PROVE  /\ m = 0 => SE!FlattenSeq(s) = <<>>
         /\ m # 0 => \E f : f[m] = SE!FlattenSeq(s) /\ Joining(s, m, S, f)
<1>1. s \in Seq(Seq(S)) /\ Len(s) = m
  OBVIOUS
<1>2. CASE m = 0
  <2>1. s = <<>>
    BY <1>1, <1>2, EmptySeq
  <2>2. SE!FlattenSeq(s) = <<>>
    BY <1>1, <1>2, <2>1, Zenon DEF SE!FlattenSeq
  <2> QED
    BY <1>2, <2>2
<1>3. CASE m # 0
  <2> DEFINE G == [n \in Nat |-> [l \in Seq(S) |-> IF n \in 1 .. m THEN l \o s[n] ELSE l]]
             Joins1(g) == g = [n \in 1 .. m |-> IF n = 1 THEN s[n] ELSE g[n - 1] \o s[n]]
             f == CHOOSE g : Joins1(g)
  <2>1. SE!FlattenSeq(s) = f[m]
    BY <1>1, <1>3, Zenon DEF SE!FlattenSeq
  <2>2. 1 <= m /\ 1 \in Nat /\ 1 \in 1 .. m /\ m \in 1 .. m
    BY <1>3
  <2>3. s[1] \in Seq(S) /\ \A n \in 1 .. m : s[n] \in Seq(S)
    BY <2>2
  <2>4. \A n \in Nat : [l \in Seq(S) |-> IF n \in 1 .. m THEN l \o s[n] ELSE l] \in [Seq(S) -> Seq(S)]
    BY <2>3, ConcatProperties
  <2>5. G \in [Nat -> [Seq(S) -> Seq(S)]]
    BY <2>4, Zenon
  <2>6. ASSUME NEW n \in 2 .. m, NEW l \in Seq(S)
        PROVE  G[n][l] = l \o s[n]
    <3>1. n \in Nat /\ n \in 1 .. m
      OBVIOUS
    <3> QED
      BY <3>1, Zenon
  <2> HIDE DEF G
  <2>7. PICK g : Recursive(g, 1, m, s[1], G)
    BY <2>2, <2>3, <2>5, RecursionExists
  <2>8. \A n \in 1 .. m : g[n] \in Seq(S)
    BY <2>2, <2>3, <2>5, <2>7, RecursionStays
  <2>9. /\ g[1] = s[1]
        /\ \A n \in 2 .. m : g[n] = G[n][g[n - 1]]
    BY <2>2, <2>7, RecursionValues
  <2>10. ASSUME NEW n \in 1 .. m
         PROVE  g[n] = IF n = 1 THEN s[n] ELSE g[n - 1] \o s[n]
    <3>1. n # 1 => n \in 2 .. m /\ n - 1 \in 1 .. m
      OBVIOUS
    <3>2. n # 1 => g[n] = g[n - 1] \o s[n]
      BY <2>6, <2>8, <2>9, <3>1, Zenon
    <3> QED
      BY <2>9, <3>2, Zenon
  <2>11. g = [n \in 1 .. m |-> g[n]]
    BY <2>7, Zenon DEF Recursive
  <2>12. Joins1(g)
    BY <2>10, <2>11, Zenon
  <2>13. Joins1(f)
    <3> HIDE DEF Joins1
    <3> QED
      BY <2>12, Zenon
  <2>14. ASSUME NEW n \in 1 .. m
         PROVE  f[n] = IF n = 1 THEN s[n] ELSE f[n - 1] \o s[n]
    <3> DEFINE h == [l \in 1 .. m |-> IF l = 1 THEN s[l] ELSE f[l - 1] \o s[l]]
    <3>1. f = h
      <4> HIDE DEF f
      <4> QED
        BY <2>13, Zenon
    <3>2. h[n] = IF n = 1 THEN s[n] ELSE f[n - 1] \o s[n]
      <4> HIDE DEF f
      <4> QED
        BY Zenon
    <3> QED
      BY <3>1, <3>2, Zenon
  <2> HIDE DEF f
  <2> DEFINE Q == {n \in Nat : f[n] \in Seq(S)}
  <2>15. 1 \in Q
    BY <2>2, <2>3, <2>14
  <2>16. ASSUME NEW n \in (1 + 1) .. m, n - 1 \in Q
         PROVE  n \in Q
    <3>1. n \in 1 .. m /\ n # 1 /\ n \in Nat /\ f[n - 1] \in Seq(S)
      BY <2>16
    <3>2. f[n] = f[n - 1] \o s[n] /\ s[n] \in Seq(S)
      BY <2>3, <2>14, <3>1, Zenon
    <3>3. f[n] \in Seq(S)
      BY <3>1, <3>2, ConcatProperties
    <3> QED
      BY <3>1, <3>3
  <2>17. \A n \in 1 .. m : n \in Q
    <3> HIDE DEF Q
    <3> QED
      BY <2>2, <2>15, <2>16, RangeInduction
  <2>18. \A n \in 1 .. m : f[n] \in Seq(S)
    BY <2>17
  <2>19. Joining(s, m, S, f)
    BY <2>14, <2>18, Zenon DEF Joining
  <2> QED
    BY <1>3, <2>1, <2>19, Zenon
<1> QED
  BY <1>2, <1>3

LEMMA FlattenStays ==
  ASSUME NEW S, NEW m \in Nat, NEW s \in [1 .. m -> Seq(S)]
  PROVE  SE!FlattenSeq(s) \in Seq(S)
<1>1. CASE m = 0
  <2>1. SE!FlattenSeq(s) = <<>>
    BY <1>1, FlattenJoins, Zenon
  <2> QED
    BY <2>1
<1>2. CASE m # 0
  <2>1. m \in 1 .. m
    BY <1>2
  <2>2. PICK f : f[m] = SE!FlattenSeq(s) /\ Joining(s, m, S, f)
    BY <1>2, FlattenJoins, Zenon
  <2>3. f[m] \in Seq(S)
    BY <2>1, <2>2, Zenon DEF Joining
  <2> QED
    BY <2>2, <2>3, Zenon
<1> QED
  BY <1>1, <1>2

\* A list of numbers has a first greatest element from every position on.
LEMMA FirstGreatest ==
  \A m \in Nat : \A s \in [1 .. m -> Int] : \A n \in 1 .. m :
    \E b \in n .. m : \A l \in n .. m : s[l] <= s[b] /\ (l < b => s[l] < s[b])
<1> DEFINE Greatest(s, n, m, b) == \A l \in n .. m : s[l] <= s[b] /\ (l < b => s[l] < s[b])
           P == {m \in Nat : \A s \in [1 .. m -> Int] : \A n \in 1 .. m :
                               \E b \in n .. m : Greatest(s, n, m, b)}
<1>1. 0 \in P
  OBVIOUS
<1>2. ASSUME NEW m \in Nat, m \in P
      PROVE  m + 1 \in P
  <2>1. ASSUME NEW s \in [1 .. (m + 1) -> Int], NEW n \in 1 .. (m + 1)
        PROVE  \E b \in n .. (m + 1) : Greatest(s, n, m + 1, b)
    <3>1. CASE n = m + 1
      <4>1. n \in n .. (m + 1) /\ s[n] \in Int
        BY <3>1
      <4>2. \A l \in n .. (m + 1) : l = n
        BY <3>1
      <4>3. Greatest(s, n, m + 1, n)
        BY <4>1, <4>2
      <4> QED
        BY <4>1, <4>3
    <3>2. CASE n # m + 1
      <4> DEFINE t == [l \in 1 .. m |-> s[l]]
      <4>1. t \in [1 .. m -> Int] /\ n \in 1 .. m
        BY <3>2
      <4>2. PICK b \in n .. m : Greatest(t, n, m, b)
        <5> HIDE DEF t, Greatest
        <5> QED
          BY <1>2, <4>1, Zenon
      <4>3. \A l \in n .. m : t[l] = s[l] /\ s[l] \in Int
        BY <4>1
      <4>4. \A l \in n .. (m + 1) : l \in n .. m \/ l = m + 1
        BY <3>2
      <4>5. b \in n .. (m + 1) /\ m + 1 \in n .. (m + 1) /\ s[m + 1] \in Int /\ b < m + 1 /\ b \in Int
        BY <3>2
      <4> HIDE DEF t
      <4>6. \A l \in n .. m : s[l] <= s[b] /\ (l < b => s[l] < s[b])
        BY <4>2, <4>3
      <4>7. CASE s[m + 1] > s[b]
        <5>1. \A l \in n .. (m + 1) : s[l] <= s[m + 1] /\ (l < m + 1 => s[l] < s[m + 1])
          BY <4>3, <4>4, <4>5, <4>6, <4>7
        <5> QED
          BY <4>5, <5>1
      <4>8. CASE ~ (s[m + 1] > s[b])
        <5>1. \A l \in n .. (m + 1) : s[l] <= s[b] /\ (l < b => s[l] < s[b])
          BY <4>3, <4>4, <4>5, <4>6, <4>8
        <5> QED
          BY <4>5, <5>1
      <4> QED
        BY <4>7, <4>8
    <3> QED
      BY <3>1, <3>2
  <2>2. m + 1 \in Nat
    OBVIOUS
  <2> HIDE DEF Greatest
  <2> QED
    BY <2>1, <2>2
<1>3. \A m \in Nat : m \in P
  <2> HIDE DEF P
  <2> QED
    BY <1>1, <1>2, SetInduction
<1> QED
  BY <1>3

\* BestFrom, the selection of sort_cky_ptrs and after_cky, names an entry of the
\* list.
LEMMA BestFromIn ==
  ASSUME NEW S, \A e \in S : e.score \in Int,
         NEW entries \in Seq(S), NEW n \in 1 .. Len(entries)
  PROVE  BestFrom(entries, n) \in n .. Len(entries)
<1> DEFINE m == Len(entries)
           s == [l \in 1 .. m |-> entries[l].score]
<1>1. m \in Nat /\ \A l \in 1 .. m : entries[l] \in S
  OBVIOUS
<1>2. s \in [1 .. m -> Int]
  BY <1>1
<1>3. \A l \in n .. m : l \in 1 .. m /\ s[l] = entries[l].score
  BY <1>1
<1>4. \E b \in n .. m : \A l \in n .. m : s[l] <= s[b] /\ (l < b => s[l] < s[b])
  <2> HIDE DEF s, m
  <2> QED
    BY <1>1, <1>2, FirstGreatest DEF m
<1> HIDE DEF s, m
<1>5. \E b \in n .. m : \A l \in n .. m :
        /\ entries[l].score <= entries[b].score
        /\ l < b => entries[l].score < entries[b].score
  BY <1>3, <1>4
<1> QED
  BY <1>5, Zenon DEF BestFrom, m

\* MoveTo permutes: a list over S stays one of the same length.
LEMMA MoveToStays ==
  ASSUME NEW S, NEW entries \in Seq(S), NEW n \in 1 .. Len(entries), NEW b \in n .. Len(entries)
  PROVE  MoveTo(entries, b, n) \in Seq(S) /\ Len(MoveTo(entries, b, n)) = Len(entries)
<1> DEFINE m == Len(entries)
           p == SubSeq(entries, 1, n - 1)
           q == SubSeq(entries, n, b - 1)
           r == SubSeq(entries, b + 1, m)
<1>1. m \in Nat /\ n \in Int /\ b \in Int /\ 1 <= n /\ n <= b /\ b <= m
  OBVIOUS
<1>2. \A l \in 1 .. m : entries[l] \in S
  OBVIOUS
<1>3. p \in Seq(S) /\ Len(p) = n - 1
  <2>1. \A l \in 1 .. (n - 1) : entries[l] \in S
    BY <1>1, <1>2
  <2>2. n - 1 \in Int /\ 1 \in Int
    BY <1>1
  <2>3. p \in Seq(S) /\ Len(p) = IF 1 <= n - 1 THEN (n - 1) - 1 + 1 ELSE 0
    BY <2>1, <2>2, SubSeqProperties
  <2> QED
    BY <1>1, <2>3
<1>4. q \in Seq(S) /\ Len(q) = b - n
  <2>1. \A l \in n .. (b - 1) : entries[l] \in S
    BY <1>1, <1>2
  <2>2. b - 1 \in Int
    BY <1>1
  <2>3. q \in Seq(S) /\ Len(q) = IF n <= b - 1 THEN (b - 1) - n + 1 ELSE 0
    BY <1>1, <2>1, <2>2, SubSeqProperties
  <2> QED
    BY <1>1, <2>3
<1>5. r \in Seq(S) /\ Len(r) = m - b
  <2>1. \A l \in (b + 1) .. m : entries[l] \in S
    BY <1>1, <1>2
  <2>2. b + 1 \in Int /\ m \in Int
    BY <1>1
  <2>3. r \in Seq(S) /\ Len(r) = IF b + 1 <= m THEN m - (b + 1) + 1 ELSE 0
    BY <2>1, <2>2, SubSeqProperties
  <2> QED
    BY <1>1, <2>3
<1>6. <<entries[b]>> \in Seq(S) /\ Len(<<entries[b]>>) = 1
  BY <1>1, <1>2
<1>7. MoveTo(entries, b, n) = ((p \o <<entries[b]>>) \o q) \o r
  BY DEF MoveTo
<1> HIDE DEF m, p, q, r
<1> DEFINE t == <<entries[b]>>
           u == p \o t
           v == u \o q
           w == v \o r
<1> HIDE DEF t
<1>8. u \in Seq(S) /\ Len(u) = Len(p) + Len(t)
  BY <1>3, <1>6, ConcatProperties, Zenon DEF t
<1> HIDE DEF u
<1>9. v \in Seq(S) /\ Len(v) = Len(u) + Len(q)
  BY <1>4, <1>8, ConcatProperties, Zenon
<1> HIDE DEF v
<1>10. w \in Seq(S) /\ Len(w) = Len(v) + Len(r)
  BY <1>5, <1>9, ConcatProperties, Zenon
<1>11. MoveTo(entries, b, n) = w
  BY <1>7, Zenon DEF t, u, v
<1> HIDE DEF w
<1>12. Len(w) = m
  BY <1>1, <1>3, <1>4, <1>5, <1>6, <1>8, <1>9, <1>10 DEF t
<1> QED
  BY <1>10, <1>11, <1>12, Zenon DEF m

\* sort_cky_ptrs moves entries to the front one by one: the list stays a list
\* over S of the same length.
LEMMA SortStays ==
  ASSUME NEW S, \A e \in S : e.score \in Int,
         NEW entries \in Seq(S), NEW beam \in Nat
  PROVE  /\ SortCkyPtrs(entries, beam) \in Seq(S) /\ Len(SortCkyPtrs(entries, beam)) = Len(entries)
         /\ beam = 1 => SortCkyPtrs(entries, beam) =
              IF 1 > Len(entries) THEN entries ELSE MoveTo(entries, BestFrom(entries, 1), 1)
<1> DEFINE m == Len(entries)
           T == {l \in Seq(S) : Len(l) = m}
           Moved(n, l) == IF n > m THEN l ELSE MoveTo(l, BestFrom(l, n), n)
           G == [n \in Nat |-> [l \in T |-> IF n = 0 THEN l ELSE Moved(n, l)]]
           Sorts(g) == g = [n \in 0 .. beam |-> IF n = 0 THEN entries
                                                ELSE IF n > m THEN g[n - 1]
                                                ELSE MoveTo(g[n - 1], BestFrom(g[n - 1], n), n)]
           f == CHOOSE g : Sorts(g)
<1>1. SortCkyPtrs(entries, beam) = f[beam]
  BY Zenon DEF SortCkyPtrs
<1>2. m \in Nat /\ entries \in T /\ 0 \in Nat /\ 0 <= beam
  OBVIOUS
<1> HIDE DEF m
<1>3. ASSUME NEW n \in Nat \ {0}, NEW l \in T
      PROVE  Moved(n, l) \in T
  <2>1. CASE n > m
    BY <2>1, Zenon
  <2>2. CASE ~ (n > m)
    <3>1. n \in 1 .. Len(l) /\ l \in Seq(S)
      BY <1>2, <2>2
    <3>2. BestFrom(l, n) \in n .. Len(l)
      BY <3>1, BestFromIn
    <3>3. MoveTo(l, BestFrom(l, n), n) \in Seq(S) /\ Len(MoveTo(l, BestFrom(l, n), n)) = Len(l)
      BY <3>1, <3>2, MoveToStays
    <3> QED
      BY <2>2, <3>3, Zenon
  <2> QED
    BY <2>1, <2>2
<1> HIDE DEF T
<1>4. G \in [Nat -> [T -> T]]
  <2>1. \A n \in Nat : \A l \in T : (IF n = 0 THEN l ELSE Moved(n, l)) \in T
    <3> HIDE DEF Moved
    <3> QED
      BY <1>3
  <2> HIDE DEF Moved
  <2>2. \A n \in Nat : [l \in T |-> IF n = 0 THEN l ELSE Moved(n, l)] \in [T -> T]
    BY <2>1, Zenon
  <2> QED
    BY <2>2, Zenon
<1>5. ASSUME NEW n \in 1 .. beam, NEW l \in T
      PROVE  G[n][l] = Moved(n, l)
  <2>1. n \in Nat /\ n # 0
    OBVIOUS
  <2> HIDE DEF Moved
  <2> QED
    BY <2>1, Zenon
<1> HIDE DEF G
<1>6. PICK g : Recursive(g, 0, beam, entries, G)
  BY <1>2, <1>4, RecursionExists
<1>7. \A n \in 0 .. beam : g[n] \in T
  BY <1>2, <1>4, <1>6, RecursionStays
<1>8. /\ g[0] = entries
      /\ \A n \in 1 .. beam : g[n] = G[n][g[n - 1]]
  BY <1>2, <1>6, RecursionValues
<1>9. ASSUME NEW n \in 0 .. beam
      PROVE  g[n] = IF n = 0 THEN entries ELSE Moved(n, g[n - 1])
  <2>1. n # 0 => n \in 1 .. beam /\ n - 1 \in 0 .. beam
    OBVIOUS
  <2> HIDE DEF Moved
  <2>2. n # 0 => g[n] = Moved(n, g[n - 1])
    BY <1>5, <1>7, <1>8, <2>1, Zenon
  <2> QED
    BY <1>8, <2>2, Zenon
<1>10. g = [n \in 0 .. beam |-> g[n]]
  BY <1>6, Zenon DEF Recursive
<1>11. Sorts(g)
  BY <1>9, <1>10, Zenon
<1>12. Sorts(f)
  <2> HIDE DEF Sorts
  <2> QED
    BY <1>11, Zenon
<1>13. ASSUME NEW n \in 0 .. beam
       PROVE  f[n] = IF n = 0 THEN entries ELSE Moved(n, f[n - 1])
  <2> DEFINE h == [l \in 0 .. beam |-> IF l = 0 THEN entries ELSE Moved(l, f[l - 1])]
  <2> HIDE DEF f
  <2>1. f = h
    BY <1>12, Zenon
  <2>2. h[n] = IF n = 0 THEN entries ELSE Moved(n, f[n - 1])
    <3> HIDE DEF Moved
    <3> QED
      BY Zenon
  <2> QED
    BY <2>1, <2>2, Zenon
<1>13a. beam = 1 => f[beam] = Moved(1, entries)
  <2>1. beam = 1 => 0 \in 0 .. beam /\ 1 \in 0 .. beam /\ 1 # 0 /\ 1 - 1 = 0
    OBVIOUS
  <2> HIDE DEF f, Moved
  <2> QED
    BY <1>13, <2>1, Zenon
<1>13b. Moved(1, entries) = IF 1 > m THEN entries ELSE MoveTo(entries, BestFrom(entries, 1), 1)
  BY Zenon
<1> HIDE DEF f, Moved
<1> DEFINE Q == {n \in Nat : f[n] \in T}
<1>14. 0 \in Q
  BY <1>2, <1>13
<1>15. ASSUME NEW n \in (0 + 1) .. beam, n - 1 \in Q
       PROVE  n \in Q
  <2>1. n \in 0 .. beam /\ n \in Nat \ {0} /\ f[n - 1] \in T
    BY <1>15
  <2>2. f[n] = Moved(n, f[n - 1])
    BY <1>13, <2>1
  <2> QED
    BY <1>3, <2>1, <2>2
<1>16. \A n \in 0 .. beam : n \in Q
  <2> HIDE DEF Q
  <2> QED
    BY <1>2, <1>14, <1>15, RangeInduction
<1>17. f[beam] \in T
  BY <1>2, <1>16
<1>18. f[beam] \in Seq(S) /\ Len(f[beam]) = Len(entries)
  BY <1>17 DEF T, m
<1> QED
  BY <1>1, <1>13a, <1>13b, <1>18, Zenon DEF m

-----------------------------------------------------------------------------
(* Offsets                                                                 *)

\* Heads as after_cky finds them written: to the right, or the offset of an
\* earlier phrase; none for the last phrase.
Offsets ==
  {h \in [Bnst -> -2 .. Last] :
     /\ h[Last] = -1
     /\ \A b \in Bnst \ {Last} : h[b] > b \/ (h[b] < 0 /\ b + h[b] >= 0)}

\* The head of phrase b if f are those of the phrases before.
HeadOf(head, b, f) ==
  IF b = Last \/ head[b] >= 0 THEN head[b]
  ELSE IF b >= f[b + head[b]] THEN Last ELSE f[b + head[b]]

\* It depends on the phrases before only.
LEMMA HeadOfBefore ==
  ASSUME NEW head \in Offsets, NEW b \in Bnst, NEW f, NEW g,
         \A c \in 0 .. (b - 1) : f[c] = g[c]
  PROVE  HeadOf(head, b, f) = HeadOf(head, b, g)
<1>1. CASE b = Last \/ head[b] >= 0
  BY <1>1, Zenon DEF HeadOf
<1>2. CASE ~ (b = Last \/ head[b] >= 0)
  <2>1. head[b] \in Int /\ b \in Nat
    BY PhraseBounds DEF Offsets
  <2>2. head[b] < 0 /\ b + head[b] >= 0
    BY <1>2, <2>1 DEF Offsets
  <2>3. b + head[b] \in 0 .. (b - 1)
    BY <2>1, <2>2
  <2>4. f[b + head[b]] = g[b + head[b]]
    BY <2>3, Zenon
  <2> QED
    BY <1>2, <2>4, Zenon DEF HeadOf
<1> QED
  BY <1>1, <1>2

\* Replacing offsets from left to right comes to an end with heads.
LEMMA ResolvedExists ==
  ASSUME NEW head \in Offsets
  PROVE  \E f : f = [b \in Bnst |-> HeadOf(head, b, f)]
<1> DEFINE Upto(f, d) == f = [b \in 0 .. d |-> HeadOf(head, b, f)]
           P == {d \in Nat : d <= Last => \E f : Upto(f, d)}
<1>1. 0 \in P
  <2> DEFINE f == [b \in 0 .. 0 |-> HeadOf(head, b, <<>>)]
  <2>1. \A b \in 0 .. 0 : b \in Bnst /\ \A c \in 0 .. (b - 1) : <<>>[c] = f[c]
    BY PhraseBounds
  <2> HIDE DEF f
  <2>2. \A b \in 0 .. 0 : HeadOf(head, b, <<>>) = HeadOf(head, b, f)
    BY <2>1, HeadOfBefore
  <2>3. Upto(f, 0)
    BY <2>2, Zenon DEF f
  <2> QED
    BY <2>3
<1>2. ASSUME NEW d \in Nat, d \in P
      PROVE  d + 1 \in P
  <2>1. SUFFICES ASSUME d + 1 <= Last
                 PROVE  \E g : Upto(g, d + 1)
    OBVIOUS
  <2>2. PICK f : Upto(f, d)
    BY <1>2, <2>1, PhraseBounds
  <2> DEFINE g == [b \in 0 .. (d + 1) |-> HeadOf(head, b, f)]
  <2>3. \A b \in 0 .. d : f[b] = HeadOf(head, b, f)
    <3> DEFINE h == [b \in 0 .. d |-> HeadOf(head, b, f)]
    <3>1. f = h
      BY <2>2, Zenon
    <3>2. \A b \in 0 .. d : h[b] = HeadOf(head, b, f)
      BY Zenon
    <3> QED
      BY <3>1, <3>2, Zenon
  <2>4. \A b \in 0 .. d : b \in 0 .. (d + 1)
    OBVIOUS
  <2>5. \A b \in 0 .. d : g[b] = f[b]
    BY <2>3, <2>4, Zenon
  <2>6. \A b \in 0 .. (d + 1) : b \in Bnst /\ \A c \in 0 .. (b - 1) : c \in 0 .. d
    BY <2>1, PhraseBounds
  <2> HIDE DEF g
  <2>7. \A b \in 0 .. (d + 1) : HeadOf(head, b, f) = HeadOf(head, b, g)
    <3>1. SUFFICES ASSUME NEW b \in 0 .. (d + 1)
                   PROVE  HeadOf(head, b, f) = HeadOf(head, b, g)
      OBVIOUS
    <3>2. b \in Bnst /\ \A c \in 0 .. (b - 1) : f[c] = g[c]
      BY <2>5, <2>6, Zenon
    <3> QED
      BY <3>2, HeadOfBefore, Zenon
  <2>8. Upto(g, d + 1)
    BY <2>7, Zenon DEF g
  <2> QED
    BY <2>8
<1>3. \A d \in Nat : d \in P
  <2> HIDE DEF P
  <2> QED
    BY <1>1, <1>2, SetInduction
<1>4. Bnst = 0 .. Last /\ Last \in Nat /\ Last <= Last
  BY PhraseBounds DEF Bnst, Last
<1>5. \E f : Upto(f, Last)
  <2> HIDE DEF Upto
  <2> QED
    BY <1>3, <1>4
<1> QED
  BY <1>4, <1>5, Zenon

\* What after_cky makes of the offsets are heads to the right.
LEMMA ResolvedRight ==
  ASSUME NEW head \in Offsets
  PROVE  /\ Resolved(head) \in [Bnst -> -1 .. Last] /\ RightHeads(Resolved(head))
         /\ \A b \in Bnst : head[b] >= 0 => Resolved(head)[b] = head[b]
<1> DEFINE Solves(f) == f = [b \in Bnst |-> HeadOf(head, b, f)]
           r == CHOOSE f : Solves(f)
<1>1. Resolved(head) = r
  BY Zenon DEF Resolved, HeadOf
<1>2. Solves(r)
  <2>1. \E f : Solves(f)
    BY ResolvedExists, Zenon
  <2> HIDE DEF Solves
  <2> QED
    BY <2>1, Zenon
<1> HIDE DEF r
<1>3. DOMAIN r = Bnst /\ r = [b \in Bnst |-> r[b]] /\ \A b \in Bnst : r[b] = HeadOf(head, b, r)
  <2> DEFINE h == [b \in Bnst |-> HeadOf(head, b, r)]
  <2>1. r = h
    BY <1>2, Zenon
  <2>2. DOMAIN h = Bnst /\ h = [b \in Bnst |-> h[b]] /\ \A b \in Bnst : h[b] = HeadOf(head, b, r)
    BY Zenon
  <2> HIDE DEF h
  <2> QED
    BY <2>1, <2>2, Zenon
<1> DEFINE Q == {b \in Nat : r[b] \in -1 .. Last /\ (b # Last => r[b] > b)}
<1>4. ASSUME NEW b \in Bnst, b # 0 => b - 1 \in Q /\ (b # 1 => b - 2 \in Q)
      PROVE  b \in Q
  <2>1. b \in Nat /\ b <= Last /\ Last \in Nat
    BY PhraseBounds
  <2>2. head[b] \in -2 .. Last
    BY DEF Offsets
  <2>3. r[b] = HeadOf(head, b, r)
    BY <1>3
  <2>4. CASE b = Last
    <3>1. r[b] = -1
      BY <2>3, <2>4, Zenon DEF HeadOf, Offsets
    <3> QED
      BY <2>1, <2>4, <3>1
  <2>5. CASE b # Last /\ head[b] >= 0
    <3>1. r[b] = head[b]
      BY <2>3, <2>5, Zenon DEF HeadOf
    <3>2. head[b] > b
      BY <2>1, <2>2, <2>5 DEF Offsets
    <3> QED
      BY <2>1, <2>2, <3>1, <3>2
  <2>6. CASE b # Last /\ ~ (head[b] >= 0)
    <3>1. b + head[b] >= 0 /\ b + head[b] \in {b - 1, b - 2}
      BY <2>1, <2>2, <2>6 DEF Offsets
    <3>2. b + head[b] \in Q
      BY <1>4, <2>1, <2>2, <2>6, <3>1
    <3>3. r[b + head[b]] \in -1 .. Last
      BY <3>2
    <3>4. r[b] = IF b >= r[b + head[b]] THEN Last ELSE r[b + head[b]]
      BY <2>3, <2>6, Zenon DEF HeadOf
    <3> QED
      BY <2>1, <2>6, <3>3, <3>4
  <2> QED
    BY <2>4, <2>5, <2>6
<1>5. \A b \in Bnst : b \in Q
  <2> DEFINE R == {b \in Nat : b \in Q /\ (b # 0 => b - 1 \in Q)}
  <2>1. 0 \in R
    <3>1. 0 \in Bnst /\ 0 \in Nat
      BY PhraseBounds
    <3> QED
      BY <1>4, <3>1
  <2>2. ASSUME NEW b \in (0 + 1) .. Last, b - 1 \in R
        PROVE  b \in R
    <3>1. b \in Bnst /\ b \in Nat /\ b # 0 /\ b - 1 - 1 = b - 2 /\ (b # 1 => b - 1 # 0)
      BY PhraseBounds
    <3>2. b - 1 \in Q /\ (b # 1 => b - 2 \in Q)
      <4> HIDE DEF Q
      <4> QED
        BY <2>2, <3>1
    <3>3. b \in Q
      <4> HIDE DEF Q
      <4> QED
        BY <1>4, <3>1, <3>2
    <3> HIDE DEF Q
    <3> QED
      BY <3>1, <3>2, <3>3
  <2>3. \A b \in 0 .. Last : b \in R
    <3>1. Last \in Nat /\ 0 \in Nat
      BY PhraseBounds
    <3> HIDE DEF R
    <3> QED
      BY <2>1, <2>2, <3>1, RangeInduction
  <2>4. \A b \in Bnst : b \in 0 .. Last
    BY PhraseBounds
  <2> HIDE DEF Q
  <2> QED
    BY <2>3, <2>4
<1>6. r \in [Bnst -> -1 .. Last] /\ RightHeads(r)
  BY <1>3, <1>5 DEF RightHeads
<1>7. \A b \in Bnst : head[b] >= 0 => r[b] = head[b]
  BY <1>3, Zenon DEF HeadOf
<1> QED
  BY <1>1, <1>6, <1>7, Zenon

-----------------------------------------------------------------------------
(* Entries                                                                 *)

\* The sentence in work is one that IsSentence describes.
LEMMA SentenceType ==
  ASSUME InputInv
  PROVE  IsSentence(sent) /\ opt \in Options
BY InputsAssumption DEF InputInv

\* Overriding arcs by others gives arcs for all phrases of both.
LEMMA OverrideStays ==
  ASSUME NEW D, NEW E, NEW f \in ArcsOn(D), NEW g \in ArcsOn(E)
  PROVE  Override(f, g) \in ArcsOn(D \cup E)
<1>1. DOMAIN f = D /\ DOMAIN g = E
  BY DEF ArcsOn
<1> DEFINE h == [b \in D \cup E |-> IF b \in E THEN g[b] ELSE f[b]]
<1>2. Override(f, g) = h
  BY <1>1, Zenon DEF Override
<1>3. ASSUME NEW b \in D \cup E
      PROVE  /\ h[b] \in [to : -2 .. Last, type : DpndTypes]
             /\ h[b].to > b \/ (h[b].to < 0 /\ b + h[b].to >= 0)
  <2>1. CASE b \in E
    <3>1. h[b] = g[b]
      BY <2>1
    <3>2. /\ g[b] \in [to : -2 .. Last, type : DpndTypes]
          /\ g[b].to > b \/ (g[b].to < 0 /\ b + g[b].to >= 0)
      BY <2>1, Zenon DEF ArcsOn
    <3> QED
      BY <3>1, <3>2, Zenon
  <2>2. CASE b \notin E
    <3>1. h[b] = f[b] /\ b \in D
      BY <2>2
    <3>2. /\ f[b] \in [to : -2 .. Last, type : DpndTypes]
          /\ f[b].to > b \/ (f[b].to < 0 /\ b + f[b].to >= 0)
      BY <3>1, Zenon DEF ArcsOn
    <3> QED
      BY <3>1, <3>2, Zenon
  <2> QED
    BY <2>1, <2>2
<1>4. h \in [D \cup E -> [to : -2 .. Last, type : DpndTypes]]
  BY <1>3, Zenon
<1>5. h \in ArcsOn(D \cup E)
  BY <1>3, <1>4, Zenon DEF ArcsOn
<1> QED
  BY <1>2, <1>5, Zenon

\* An entry gets a score.
LEMMA ScoredIn ==
  ASSUME ScoresCompare, InputInv, NEW i \in Bnst, NEW j \in Bnst, NEW e \in RawEntries(i, j)
  PROVE  Scored(e) \in Entries(i, j)
<1>1. PICK x \in Inputs : sent = x.sent
  BY DEF InputInv
<1>2. Score(sent, OptAnalysis, e) \in Int
  BY <1>1 DEF ScoresCompare, InputInv
<1> QED
  BY <1>2 DEF Scored, Entries, RawEntries

LEMMA LeafIn ==
  ASSUME ScoresCompare, InputInv, NEW b \in Bnst
  PROVE  LeafEntry(b) \in Entries(b, b)
<1> DEFINE e == [i |-> b, j |-> b, type |-> NoDpnd, para_flag |-> FALSE, arcs |-> <<>>,
                 ends |-> {}, first |-> b]
<1>1. b \in Nat
  BY PhraseBounds
<1>2. b .. (b - 1) = {}
  BY <1>1
<1>3. <<>> \in ArcsOf(b, b)
  BY <1>2 DEF ArcsOf, ArcsOn
<1>4. e \in RawEntries(b, b)
  BY <1>1, <1>3 DEF RawEntries
<1> HIDE DEF e
<1> QED
  BY <1>4, ScoredIn DEF LeafEntry, e

\* The arc of an entry itself.
LEMMA OwnArcIn ==
  ASSUME InputInv, NEW d \in Bnst, NEW j \in Bnst, d < j, NEW l, NEW r, l.j = d, r.j = j,
         NEW type \in DpndTypes
  PROVE  OwnArc(l, r, type) \in ArcsOn({d})
<1>1. sent.follow[d] \in {0, -1, -2} /\ d + sent.follow[d] \in Bnst
  BY SentenceType DEF IsSentence
<1>2. d \in Nat /\ j \in Nat /\ j <= Last /\ Last \in Nat /\ d + sent.follow[d] >= 0
  BY <1>1, PhraseBounds
<1> DEFINE x == IF type # "P" /\ sent.follow[d] # 0 THEN [to |-> sent.follow[d], type |-> "D"]
                ELSE [to |-> j, type |-> type]
<1>3. x \in [to : -2 .. Last, type : DpndTypes]
  BY <1>1, <1>2 DEF DpndTypes
<1>4. x.to > d \/ (x.to < 0 /\ d + x.to >= 0)
  BY <1>1, <1>2
<1>5. OwnArc(l, r, type) = [b \in {d} |-> x]
  BY Zenon DEF OwnArc
<1> HIDE DEF x
<1> QED
  BY <1>3, <1>4, <1>5 DEF ArcsOn

\* set_cky: the entry made of one that ends at d and one that ends at j is one of
\* the cell of both, whether the right part begins behind d or, when a coordination
\* goes on, at or before d.
LEMMA MadeOfIn ==
  ASSUME ScoresCompare, InputInv,
         NEW i \in Bnst, NEW d \in Bnst, NEW c \in Bnst, NEW j \in Bnst, i <= d, i < c, d <= j, c <= j,
         NEW l \in Entries(i, d), NEW r \in Entries(c, j), NEW type \in DpndTypes,
         NEW para_flag \in BOOLEAN, IF para_flag THEN c <= d ELSE c = d + 1
  PROVE  MadeOf(l, r, type, para_flag) \in Entries(i, j)
<1>1. i \in Nat /\ d \in Nat /\ c \in Nat /\ j \in Nat
  BY PhraseBounds
<1>2. l.arcs \in ArcsOn(i .. (d - 1)) /\ r.arcs \in ArcsOn(c .. (j - 1)) /\ l.i = i /\ l.j = d /\ r.j = j
  BY DEF Entries, ArcsOf
<1> DEFINE arcs == Override(IF para_flag THEN l.arcs
                            ELSE Override(OwnArc(l, r, type), l.arcs), r.arcs)
<1>3. arcs \in ArcsOf(i, j)
  <2>1. CASE para_flag
    <3>1. arcs \in ArcsOn((i .. (d - 1)) \cup (c .. (j - 1)))
      BY <1>2, <2>1, OverrideStays, Zenon
    <3>2. (i .. (d - 1)) \cup (c .. (j - 1)) = i .. (j - 1)
      BY <1>1, <2>1
    <3> QED
      BY <3>1, <3>2, Zenon DEF ArcsOf
  <2>2. CASE ~ para_flag
    <3> DEFINE own == Override(OwnArc(l, r, type), l.arcs)
    <3>1. OwnArc(l, r, type) \in ArcsOn({d})
      <4>1. d < j
        BY <1>1, <2>2
      <4> QED
        BY <1>2, <4>1, OwnArcIn
    <3>2. own \in ArcsOn({d} \cup (i .. (d - 1)))
      BY <1>2, <3>1, OverrideStays, Zenon
    <3>3. arcs = Override(own, r.arcs)
      BY <2>2, Zenon
    <3> HIDE DEF own, arcs
    <3>4. arcs \in ArcsOn(({d} \cup (i .. (d - 1))) \cup (c .. (j - 1)))
      BY <1>2, <3>2, <3>3, OverrideStays, Zenon
    <3>5. ({d} \cup (i .. (d - 1))) \cup (c .. (j - 1)) = i .. (j - 1)
      BY <1>1, <2>2
    <3> QED
      BY <3>4, <3>5, Zenon DEF ArcsOf
  <2> QED
    BY <2>1, <2>2
<1> DEFINE ends == r.ends \cup
                   (IF type = "P" THEN {l.j} \cup (IF para_flag THEN l.ends ELSE {}) ELSE {})
           first == IF type = "P" THEN l.first ELSE r.j
           e == [i |-> l.i, j |-> r.j, type |-> type, para_flag |-> para_flag, arcs |-> arcs,
                 ends |-> ends, first |-> first]
<1>4. MadeOf(l, r, type, para_flag) = Scored(e)
  BY Zenon DEF MadeOf
<1> HIDE DEF arcs
<1>5. ends \in SUBSET Bnst
  BY <1>2 DEF Entries
<1>6. first \in i .. j
  BY <1>1, <1>2 DEF Entries
<1> HIDE DEF ends, first
<1>7. e \in RawEntries(i, j)
  BY <1>2, <1>3, <1>5, <1>6 DEF RawEntries
<1> HIDE DEF e
<1> QED
  BY <1>4, <1>7, ScoredIn

-----------------------------------------------------------------------------
(* One cell                                                                *)

\* The split point of the cell in work.
LEMMA SplitBounds ==
  ASSUME LoopInv
  PROVE  /\ I \in Bnst /\ J \in Bnst /\ I <= J /\ cell = <<I, J>>
         /\ I \in Nat /\ J \in Nat /\ k \in Nat /\ J <= Last
         /\ k < J - I => Dep \in Bnst /\ Dep + 1 \in Bnst /\ I <= Dep /\ Dep + 1 <= J /\ Dep \in Nat
<1>1. I \in Bnst /\ J \in Bnst /\ I <= J /\ cell = <<I, J>>
  BY CellBounds DEF LoopInv, I, J
<1>2. I \in Nat /\ J \in Nat /\ k \in Nat /\ J <= Last /\ Last \in Nat
  BY <1>1, PhraseBounds DEF LoopInv
<1>3. k < J - I => I + k \in 0 .. Last /\ I + k + 1 \in 0 .. Last /\ I <= I + k /\ I + k + 1 <= J
  BY <1>1, <1>2
<1>4. k < J - I => I + k \in Bnst /\ I + k + 1 \in Bnst /\ I + k \in Nat
  BY <1>2, <1>3, PhraseBounds
<1> QED
  BY <1>1, <1>2, <1>3, <1>4 DEF Dep

\* The lists of the chart.
LEMMA CellIn ==
  ASSUME ChartInv, NEW i \in Bnst, NEW j \in Bnst, i <= j
  PROVE  cky_matrix[<<i, j>>] \in Seq(Entries(i, j))
BY SMT DEF ChartInv

\* Lists with at most one entry.
LEMMA ShortSeq ==
  ASSUME NEW S, NEW x \in S
  PROVE  <<x>> \in Seq(S) /\ <<>> \in Seq(S)
OBVIOUS

\* A cell reduced to its best entry is still a list of its entries.
LEMMA ConsideredIn ==
  ASSUME NEW S, NEW entries \in Seq(S), NEW onlyBest
  PROVE  Considered(entries, onlyBest) \in Seq(S)
<1>1. entries # <<>> => entries[1] \in S
  OBVIOUS
<1>2. entries # <<>> => <<entries[1]>> \in Seq(S)
  BY <1>1
<1> QED
  BY <1>2, Zenon DEF Considered

\* check_dpnd_possibility yields a type of dependency or none.
LEMMA SplitTypeIn ==
  ASSUME InputInv, LoopInv, k < J - I
  PROVE  SplitType \in DpndTypes \cup {NoDpnd}
<1>1. Dep \in Bnst /\ J \in Bnst
  BY SplitBounds
<1>2. Dpnd[Dep][J] \in DpndTypes \cup {NoDpnd}
  BY <1>1 DEF InputInv, Matrices
<1>3. {"P", "I", "R"} \subseteq DpndTypes
  BY DEF DpndTypes
<1> HIDE DEF DpndTypes
<1> QED
  BY <1>2, <1>3, Zenon DEF SplitType, Possibility

\* A split yields a list over S if every pair that is joined gives an element of S.
LEMMA MergedOver ==
  ASSUME NEW S, NEW L, NEW R, Lefts \in Seq(L), Rights \in Seq(R),
         SplitType # NoDpnd =>
           \A l \in L, r \in R : Joins(r) => MadeOf(l, r, SplitType, FALSE) \in S
  PROVE  Merged \in Seq(S)
<1>1. CASE SplitType = NoDpnd
  <2>1. Merged = <<>>
    BY <1>1, Zenon DEF Merged
  <2> QED
    BY <2>1
<1>2. CASE SplitType # NoDpnd
  <2> DEFINE p == Len(Lefts)
             q == Len(Rights)
             One(n, m) == IF Joins(Rights[m])
                          THEN <<MadeOf(Lefts[n], Rights[m], SplitType, FALSE)>> ELSE <<>>
             Row(n) == [m \in 1 .. q |-> One(n, m)]
  <2>1. /\ p \in Nat /\ q \in Nat /\ DOMAIN Lefts = 1 .. p /\ DOMAIN Rights = 1 .. q
        /\ \A n \in 1 .. p : Lefts[n] \in L
        /\ \A m \in 1 .. q : Rights[m] \in R
    OBVIOUS
  <2> HIDE DEF p, q
  <2>2. ASSUME NEW n \in 1 .. p, NEW m \in 1 .. q
        PROVE  One(n, m) \in Seq(S)
    <3>1. CASE Joins(Rights[m])
      <4>1. MadeOf(Lefts[n], Rights[m], SplitType, FALSE) \in S
        BY <1>2, <2>1, <3>1, Zenon
      <4>2. <<MadeOf(Lefts[n], Rights[m], SplitType, FALSE)>> \in Seq(S)
        BY <4>1, ShortSeq, Zenon
      <4> QED
        BY <3>1, <4>2, Zenon
    <3>2. CASE ~ Joins(Rights[m])
      <4>1. One(n, m) = <<>> /\ <<>> \in Seq(S)
        BY <3>2
      <4> QED
        BY <4>1, Zenon
    <3> QED
      BY <3>1, <3>2, Zenon
  <2>3. Merged = SE!FlattenSeq([n \in 1 .. p |-> SE!FlattenSeq(Row(n))])
    BY <1>2, <2>1, Zenon DEF Merged
  <2> HIDE DEF One
  <2>4. \A n \in 1 .. p : Row(n) \in [1 .. q -> Seq(S)]
    BY <2>2, Zenon
  <2> HIDE DEF Row
  <2>5. \A n \in 1 .. p : SE!FlattenSeq(Row(n)) \in Seq(S)
    BY <2>1, <2>4, FlattenStays
  <2>6. [n \in 1 .. p |-> SE!FlattenSeq(Row(n))] \in [1 .. p -> Seq(S)]
    BY <2>5, Zenon
  <2>7. SE!FlattenSeq([n \in 1 .. p |-> SE!FlattenSeq(Row(n))]) \in Seq(S)
    BY <2>1, <2>6, FlattenStays, Zenon
  <2> QED
    BY <2>3, <2>7, Zenon
<1> QED
  BY <1>1, <1>2

\* The parts a split joins.
LEMMA PartsOver ==
  ASSUME NEW L, NEW R, cky_matrix[<<I, Dep>>] \in Seq(L), cky_matrix[<<Dep + 1, J>>] \in Seq(R)
  PROVE  Lefts \in Seq(L) /\ Rights \in Seq(R)
BY ConsideredIn, Zenon DEF Lefts, Rights

\* So a split yields entries of the cell.
LEMMA MergedIn ==
  ASSUME ScoresCompare, InputInv, LoopInv, ChartInv, k < J - I
  PROVE  Merged \in Seq(Entries(I, J))
<1>1. /\ I \in Bnst /\ J \in Bnst /\ Dep \in Bnst /\ Dep + 1 \in Bnst
      /\ I <= Dep /\ Dep + 1 <= J /\ I \in Nat /\ J \in Nat /\ Dep \in Nat
  BY SplitBounds
<1>2. /\ cky_matrix[<<I, Dep>>] \in Seq(Entries(I, Dep))
      /\ cky_matrix[<<Dep + 1, J>>] \in Seq(Entries(Dep + 1, J))
  <2>1. I <= Dep /\ Dep + 1 <= J
    BY <1>1
  <2> QED
    BY <1>1, <2>1, CellIn, Zenon
<1>3. Lefts \in Seq(Entries(I, Dep)) /\ Rights \in Seq(Entries(Dep + 1, J))
  BY <1>2, PartsOver, Zenon
<1>4. ASSUME SplitType # NoDpnd, NEW l \in Entries(I, Dep), NEW r \in Entries(Dep + 1, J)
      PROVE  MadeOf(l, r, SplitType, FALSE) \in Entries(I, J)
  <2>1. SplitType \in DpndTypes
    BY <1>4, SplitTypeIn
  <2>2. I < Dep + 1 /\ Dep <= J
    BY <1>1
  <2> QED
    BY <1>1, <2>1, <2>2, MadeOfIn
<1> QED
  BY <1>3, <1>4, MergedOver, Zenon

\* So does the extension of an entry of the column.
LEMMA ExtensionsIn ==
  ASSUME ScoresCompare, InputInv, LoopInv, ChartInv, NEW c \in Bnst, I < c, c <= J,
         NEW r \in Entries(c, J)
  PROVE  Extensions(r) \in Seq(Entries(I, J))
<1>1. I \in Bnst /\ J \in Bnst /\ I \in Nat /\ J \in Nat /\ c \in Nat /\ J <= Last /\ Last \in Nat
  BY SplitBounds, PhraseBounds
<1> DEFINE d == r.first
           row == cky_matrix[<<I, d>>]
           q == Len(row)
           One(n) == IF row[n].type = "P" THEN <<MadeOf(row[n], r, "P", TRUE)>> ELSE <<>>
<1>2. d \in c .. J
  BY DEF Entries
<1>3. d \in Bnst /\ I <= d /\ d <= J /\ c <= d /\ d \in Nat
  BY <1>1, <1>2, PhraseBounds
<1> HIDE DEF d
<1>4. row \in Seq(Entries(I, d))
  BY <1>1, <1>3, CellIn, Zenon
<1>5. q \in Nat /\ DOMAIN row = 1 .. q /\ \A n \in 1 .. q : row[n] \in Entries(I, d)
  BY <1>4
<1>6. Extensions(r) = SE!FlattenSeq([n \in 1 .. q |-> One(n)])
  BY <1>5, Zenon DEF Extensions, d
<1> HIDE DEF q, row
<1>7. ASSUME NEW n \in 1 .. q
      PROVE  One(n) \in Seq(Entries(I, J))
  <2>1. row[n] \in Entries(I, d) /\ "P" \in DpndTypes /\ TRUE \in BOOLEAN
    BY <1>5 DEF DpndTypes
  <2>2. MadeOf(row[n], r, "P", TRUE) \in Entries(I, J)
    BY <1>1, <1>3, <2>1, MadeOfIn
  <2>3. <<MadeOf(row[n], r, "P", TRUE)>> \in Seq(Entries(I, J)) /\ <<>> \in Seq(Entries(I, J))
    BY <2>2, ShortSeq, Zenon
  <2> QED
    BY <2>3, Zenon
<1> HIDE DEF One
<1>8. [n \in 1 .. q |-> One(n)] \in [1 .. q -> Seq(Entries(I, J))]
  BY <1>7, Zenon
<1>9. SE!FlattenSeq([n \in 1 .. q |-> One(n)]) \in Seq(Entries(I, J))
  BY <1>5, <1>8, FlattenStays, Zenon
<1> QED
  BY <1>6, <1>9, Zenon

LEMMA ExtendedIn ==
  ASSUME ScoresCompare, InputInv, LoopInv, ChartInv, I < J
  PROVE  Extended \in Seq(Entries(I, J))
<1>1. I \in Bnst /\ J \in Bnst /\ I \in Nat /\ J \in Nat /\ J <= Last /\ Last \in Nat
  BY SplitBounds, PhraseBounds
<1> DEFINE p == J - I - 1
           Column(n) == cky_matrix[<<I + n, J>>]
           One(n, m) == IF Column(n)[m].type = "P" THEN Extensions(Column(n)[m]) ELSE <<>>
           Row(n) == [m \in DOMAIN Column(n) |-> One(n, m)]
<1>2. p \in Nat
  BY <1>1
<1>3. Extended = SE!FlattenSeq([n \in 1 .. p |-> SE!FlattenSeq(Row(n))])
  BY Zenon DEF Extended
<1>4. ASSUME NEW n \in 1 .. p
      PROVE  SE!FlattenSeq(Row(n)) \in Seq(Entries(I, J))
  <2> DEFINE c == I + n
             q == Len(Column(n))
  <2>1. c \in Bnst /\ I < c /\ c <= J
    BY <1>1, PhraseBounds
  <2> HIDE DEF c
  <2>2. Column(n) \in Seq(Entries(c, J))
    BY <1>1, <2>1 DEF ChartInv, c
  <2> HIDE DEF Column
  <2>3. q \in Nat /\ DOMAIN Column(n) = 1 .. q /\ \A m \in 1 .. q : Column(n)[m] \in Entries(c, J)
    BY <2>2
  <2> HIDE DEF q
  <2>4. ASSUME NEW m \in 1 .. q
        PROVE  One(n, m) \in Seq(Entries(I, J))
    <3>1. Extensions(Column(n)[m]) \in Seq(Entries(I, J))
      BY <2>1, <2>3, ExtensionsIn
    <3>2. <<>> \in Seq(Entries(I, J))
      OBVIOUS
    <3> QED
      BY <3>1, <3>2, Zenon
  <2> HIDE DEF One
  <2>5. Row(n) \in [1 .. q -> Seq(Entries(I, J))]
    BY <2>3, <2>4, Zenon
  <2> HIDE DEF Row
  <2> QED
    BY <2>3, <2>5, FlattenStays
<1> HIDE DEF Row, p
<1>5. [n \in 1 .. p |-> SE!FlattenSeq(Row(n))] \in [1 .. p -> Seq(Entries(I, J))]
  BY <1>4, Zenon
<1>6. SE!FlattenSeq([n \in 1 .. p |-> SE!FlattenSeq(Row(n))]) \in Seq(Entries(I, J))
  BY <1>2, <1>5, FlattenStays, Zenon
<1> QED
  BY <1>3, <1>6, Zenon

\* Sorting and cutting a cell leaves a list over the same entries.
LEMMA PrunedIn ==
  ASSUME InputInv, NEW S, \A e \in S : e.score \in Int, NEW entries \in Seq(S)
  PROVE  Pruned(entries) \in Seq(S)
<1>1. \A e \in S : e.score \in Int
  OBVIOUS
<1>2. OptBeam \in Nat
  BY SentenceType DEF OptBeam, Options
<1>3. entries \in Seq(S)
  OBVIOUS
<1>4. \A b \in Nat : SortCkyPtrs(entries, b) \in Seq(S) /\ Len(SortCkyPtrs(entries, b)) = Len(entries)
  BY <1>1, <1>3, SortStays
<1> DEFINE t == SortCkyPtrs(entries, OptBeam)
           n == IF OptBeam < Len(entries) THEN OptBeam ELSE Len(entries)
<1>5. t \in Seq(S) /\ Len(t) = Len(entries) /\ Len(entries) \in Nat
  BY <1>2, <1>3, <1>4
<1>6. SortCkyPtrs(entries, 1) \in Seq(S)
  BY <1>4
<1>7. SubSeq(t, 1, n) \in Seq(S)
  <2> HIDE DEF t
  <2>1. n \in Int /\ 1 \in Int /\ n <= Len(t)
    BY <1>2, <1>5
  <2> HIDE DEF n
  <2>2. \A l \in 1 .. n : t[l] \in S
    BY <1>5, <2>1
  <2> QED
    BY <2>1, <2>2, SubSeqProperties
<1>8. Pruned(entries) \in {entries, SubSeq(t, 1, n), SortCkyPtrs(entries, 1)}
  BY Zenon DEF Pruned
<1> HIDE DEF t, n
<1> QED
  BY <1>3, <1>6, <1>7, <1>8

-----------------------------------------------------------------------------
(* Preparation                                                             *)

LEMMA KeepIn ==
  ASSUME NEW X, NoDpnd \in X, NEW D \in Matrices(X), NEW d \in Bnst, NEW G
  PROVE  Keep(D, d, G) \in [Bnst -> X]
<1>1. \A g \in Bnst : D[d][g] \in X
  BY DEF Matrices
<1> QED
  BY <1>1, Zenon DEF Keep

\* Restricting a matrix leaves types of dependencies in it.
LEMMA RestrictIn ==
  ASSUME NEW D \in Matrices(DpndTypes \cup {NoDpnd})
  PROVE  /\ RestrictParenthetic(D) \in Matrices(DpndTypes \cup {NoDpnd})
         /\ RestrictEndPrefer(D) \in Matrices(DpndTypes \cup {NoDpnd})
         /\ HandleIncomplete(D) \in Matrices(DpndTypes \cup {NoDpnd})
<1> DEFINE X == DpndTypes \cup {NoDpnd}
<1>1. NoDpnd \in X /\ "I" \in X
  BY DEF DpndTypes
<1>2. D \in Matrices(X)
  OBVIOUS
<1> HIDE DEF X
<1>3. \A d \in Bnst : D[d] \in [Bnst -> X] /\ \A g \in Bnst : D[d][g] \in X
  BY <1>2 DEF Matrices
<1>4. RestrictParenthetic(D) \in [Bnst -> [Bnst -> X]]
  <2>1. \A d \in Bnst : Keep(D, d, {g \in Heads(D, d) : \A h \in Heads(D, d) : g <= h}) \in [Bnst -> X]
    BY <1>1, <1>2, KeepIn, Zenon
  <2> QED
    BY <1>3, <2>1, Zenon DEF RestrictParenthetic
<1>5. RestrictEndPrefer(D) \in [Bnst -> [Bnst -> X]]
  <2>1. \A d \in Bnst : Keep(D, d, {g \in Heads(D, d) : \A h \in Heads(D, d) : h <= g}) \in [Bnst -> X]
    BY <1>1, <1>2, KeepIn, Zenon
  <2> QED
    BY <1>3, <2>1, Zenon DEF RestrictEndPrefer
<1>6. HandleIncomplete(D) \in [Bnst -> [Bnst -> X]]
  <2>1. \A d \in Bnst : [g \in Bnst |-> IF sent.mask[d][g] = 3 /\ D[d][g] = NoDpnd THEN "I" ELSE D[d][g]]
                          \in [Bnst -> X]
    BY <1>1, <1>3, Zenon
  <2> QED
    BY <2>1, Zenon DEF HandleIncomplete
<1> QED
  BY <1>4, <1>5, <1>6 DEF X, Matrices

LEMMA BeginKeeps ==
  ASSUME IInv, Begin
  PROVE  IInv'
<1>1. Dpnd' \in Matrices(DpndTypes \cup {NoDpnd})
  <2> DEFINE D1 == RestrictParenthetic(Dpnd)
             D2 == RestrictEndPrefer(D1)
             D3 == HandleIncomplete(D2)
  <2>1. Dpnd \in Matrices(DpndTypes \cup {NoDpnd})
    BY DEF IInv, InputInv
  <2>2. D1 \in Matrices(DpndTypes \cup {NoDpnd})
    BY <2>1, RestrictIn
  <2> HIDE DEF D1
  <2>3. D2 \in Matrices(DpndTypes \cup {NoDpnd})
    BY <2>2, RestrictIn
  <2> HIDE DEF D2
  <2>4. D3 \in Matrices(DpndTypes \cup {NoDpnd})
    BY <2>3, RestrictIn
  <2> HIDE DEF D3
  <2>5. Dpnd' = IF OptParaFix THEN D2 ELSE D3
    BY Zenon DEF Begin, D1, D2, D3
  <2> QED
    BY <2>3, <2>4, <2>5, Zenon
<1>2. para' \in [Bnst -> SUBSET (Bnst \X Bnst)]
  <2>1. para \in [Bnst -> SUBSET (Bnst \X Bnst)]
    BY DEF IInv, InputInv
  <2>2. DiscardBad(para) \in [Bnst -> SUBSET (Bnst \X Bnst)]
    BY <2>1, Zenon DEF DiscardBad
  <2> QED
    BY <2>1, <2>2, Zenon DEF Begin
<1>3. InputInv'
  BY <1>1, <1>2 DEF IInv, InputInv, Begin
<1>4. LoopInv'
  <2>1. cell' = <<0, 0>> /\ k' = 0 /\ phase' = "fill" /\ dep_check' = [b \in Bnst |-> -1]
    BY DEF Begin
  <2>2. <<0, 0>> \in Cells
    BY PhraseBounds, CellBounds
  <2>3. -1 \in -1 .. Last
    BY PhraseBounds
  <2>4. dep_check' \in [Bnst -> -1 .. Last]
    BY <2>1, <2>3
  <2>5. J' - I' = 0
    BY <2>1 DEF I, J
  <2> QED
    BY <2>1, <2>2, <2>4, <2>5 DEF LoopInv
<1>5. ChartInv'
  BY TableAssumption DEF IInv, ChartInv, Begin
<1>6. ResultInv'
  <2>1. NoHeads.head \in [Bnst -> -1 .. Last] /\ NoHeads.type \in [Bnst -> DpndTypes]
    BY PhraseBounds DEF NoHeads, DpndTypes
  <2>2. best' \in [head : [Bnst -> -1 .. Last], type : [Bnst -> DpndTypes], score : Int]
    BY <2>1 DEF IInv, ResultInv, Begin
  <2> QED
    BY <2>2 DEF IInv, ResultInv, Begin
<1> QED
  BY <1>3, <1>4, <1>5, <1>6 DEF IInv
-----------------------------------------------------------------------------
(* Filling the chart                                                       *)

\* A cell gets a list of entries of its own.
LEMMA FillStays ==
  ASSUME LoopInv, ChartInv, NEW new \in Seq(Entries(I, J)),
         cky_matrix' = [cky_matrix EXCEPT ![cell] = new]
  PROVE  /\ DOMAIN cky_matrix' = Cells
         /\ \A i, j \in Bnst : i <= j => cky_matrix'[<<i, j>>] \in Seq(Entries(i, j))
<1>1. cell = <<I, J>> /\ cell \in Cells
  BY SplitBounds DEF LoopInv
<1>2. DOMAIN cky_matrix = Cells
  BY DEF ChartInv
<1>3. DOMAIN cky_matrix' = Cells
  BY <1>2
<1>4. ASSUME NEW i \in Bnst, NEW j \in Bnst, i <= j
      PROVE  cky_matrix'[<<i, j>>] \in Seq(Entries(i, j))
  <2>1. <<i, j>> \in Cells
    BY <1>4, CellBounds
  <2>2. CASE <<i, j>> = cell
    <3>1. i = I /\ j = J
      BY <1>1, <2>2
    <3>2. cky_matrix'[<<i, j>>] = new
      BY <1>2, <2>1, <2>2
    <3> QED
      BY <3>1, <3>2, Zenon
  <2>3. CASE <<i, j>> # cell
    <3>1. cky_matrix'[<<i, j>>] = cky_matrix[<<i, j>>]
      BY <1>2, <2>1, <2>3
    <3>2. cky_matrix[<<i, j>>] \in Seq(Entries(i, j))
      BY <1>4, CellIn
    <3> QED
      BY <3>1, <3>2, Zenon
  <2> QED
    BY <2>2, <2>3
<1> QED
  BY <1>3, <1>4

\* The loops go on to a cell.
LEMMA AdvanceStays ==
  ASSUME LoopInv, Advance, dep_check' = dep_check
  PROVE  LoopInv' /\ phase' \in {"fill", "choose"}
<1>1. /\ I \in Bnst /\ J \in Bnst /\ I <= J /\ cell = <<I, J>> /\ cell \in Cells
      /\ I \in Nat /\ J \in Nat /\ J <= Last /\ Last \in Nat
  BY SplitBounds, PhraseBounds DEF LoopInv
<1>2. cell' \in Cells
  <2>1. CASE I > 0
    <3>1. cell' = <<I - 1, J>> /\ I - 1 \in Bnst /\ I - 1 <= J
      BY <1>1, <2>1, PhraseBounds DEF Advance
    <3> QED
      BY <1>1, <3>1, CellBounds
  <2>2. CASE ~ (I > 0) /\ J < Last
    <3>1. cell' = <<J + 1, J + 1>> /\ J + 1 \in Bnst /\ J + 1 <= J + 1
      BY <1>1, <2>2, PhraseBounds DEF Advance
    <3> QED
      BY <3>1, CellBounds
  <2>3. CASE ~ (I > 0) /\ ~ (J < Last)
    BY <1>1, <2>3 DEF Advance
  <2> QED
    BY <2>1, <2>2, <2>3
<1>3. J' - I' + 1 >= 0
  <2>1. I' \in Bnst /\ J' \in Bnst /\ I' <= J'
    BY <1>2, CellBounds DEF I, J
  <2>2. I' \in Nat /\ J' \in Nat
    BY <2>1, PhraseBounds, Zenon
  <2>3. \A x, y \in Nat : x <= y => y - x + 1 >= 0
    OBVIOUS
  <2> QED
    BY <2>1, <2>2, <2>3, Zenon
<1>4. k' = 0 /\ phase' \in {"fill", "choose"}
  BY DEF Advance
<1>5. dep_check' \in [Bnst -> -1 .. Last]
  BY DEF LoopInv
<1>6. 0 \in Nat /\ 0 <= J' - I' + 1
  BY <1>3
<1> QED
  BY <1>2, <1>4, <1>5, <1>6 DEF LoopInv

\* Entries are added only as long as the table has room.
LEMMA AddStays ==
  ASSUME LoopInv, ChartInv, NEW entries \in Seq(Entries(I, J)), NEW new \in Seq(Entries(I, J)),
         Add(entries, new), Room(Len(new))
  PROVE  ChartInv'
<1>1. entries \o new \in Seq(Entries(I, J))
  BY ConcatProperties
<1>2. cky_matrix' = [cky_matrix EXCEPT ![cell] = entries \o new] /\ table_num' = table_num + Len(new)
  BY DEF Add
<1> DEFINE all == entries \o new
<1> HIDE DEF all
<1>3. /\ DOMAIN cky_matrix' = Cells
      /\ \A i, j \in Bnst : i <= j => cky_matrix'[<<i, j>>] \in Seq(Entries(i, j))
  <2>1. all \in Seq(Entries(I, J)) /\ cky_matrix' = [cky_matrix EXCEPT ![cell] = all]
    BY <1>1, <1>2 DEF all
  <2> QED
    BY <2>1, FillStays
<1>4. table_num' \in 0 .. (TableMax - 1)
  <2>1. Len(new) \in Nat /\ table_num \in 0 .. (TableMax - 1) /\ TableMax \in Nat /\ TableMaxForCase \in Nat
    BY TableAssumption DEF ChartInv
  <2>2. Limit \in Nat /\ Limit <= TableMax
    BY <2>1 DEF Limit
  <2>3. Len(new) = 0 \/ table_num + Len(new) < Limit
    BY DEF Room
  <2> QED
    BY <1>2, <2>1, <2>2, <2>3
<1> QED
  BY <1>3, <1>4 DEF ChartInv

\* What filling leaves alone.
LEMMA FillRest ==
  ASSUME InputInv, ResultInv, phase' \in {"fill", "choose"},
         UNCHANGED <<opt, sent, OptAnalysis, retried, Dpnd, para, structures, best, bnst, out>>
  PROVE  InputInv' /\ ResultInv'
<1>1. InputInv'
  BY DEF InputInv
<1>2. phase' # "after" /\ phase' # "done"
  OBVIOUS
<1>3. ResultInv'
  BY <1>2 DEF ResultInv
<1> QED
  BY <1>1, <1>3

LEMMA LeafKeeps ==
  ASSUME ScoresCompare, IInv, Leaf
  PROVE  IInv'
<1>1. InputInv /\ LoopInv /\ ChartInv /\ ResultInv
  BY DEF IInv
<1>2. /\ I = J /\ Room(1) /\ Add(<<>>, <<LeafEntry(J)>>) /\ Advance /\ dep_check' = dep_check
  BY DEF Leaf
<1>3. J \in Bnst
  BY <1>1, SplitBounds
<1>4. LeafEntry(J) \in Entries(I, J)
  BY <1>1, <1>2, <1>3, LeafIn, Zenon
<1>5. <<LeafEntry(J)>> \in Seq(Entries(I, J)) /\ <<>> \in Seq(Entries(I, J))
  BY <1>4, ShortSeq, Zenon
<1>6. Len(<<LeafEntry(J)>>) = 1
  OBVIOUS
<1>7. ChartInv'
  BY <1>1, <1>2, <1>5, <1>6, AddStays, Zenon
<1>8. LoopInv' /\ phase' \in {"fill", "choose"}
  BY <1>1, <1>2, AdvanceStays
<1>9. InputInv' /\ ResultInv'
  BY <1>1, <1>2, <1>8, FillRest DEF Add
<1> QED
  BY <1>7, <1>8, <1>9 DEF IInv

LEMMA MergeKeeps ==
  ASSUME ScoresCompare, IInv, Merge
  PROVE  IInv'
<1>1. InputInv /\ LoopInv /\ ChartInv /\ ResultInv
  BY DEF IInv
<1> DEFINE old == IF k = 0 THEN <<>> ELSE cky_matrix[cell]
<1>2. /\ phase = "fill" /\ k < J - I /\ Room(Len(Merged)) /\ Add(old, Merged)
      /\ dep_check' = IF Merged = <<>> THEN dep_check ELSE [dep_check EXCEPT ![Dep] = BarrierAfter]
      /\ k' = k + 1 /\ cell' = cell /\ phase' = phase
  BY DEF Merge
<1>3. /\ I \in Bnst /\ J \in Bnst /\ I <= J /\ cell = <<I, J>> /\ I \in Nat /\ J \in Nat /\ k \in Nat
      /\ J <= Last /\ Dep \in Bnst /\ Last \in Nat
  BY <1>1, <1>2, SplitBounds, PhraseBounds
<1>4. Merged \in Seq(Entries(I, J))
  BY <1>1, <1>2, MergedIn
<1>5. old \in Seq(Entries(I, J))
  <2>1. cky_matrix[cell] \in Seq(Entries(I, J)) /\ <<>> \in Seq(Entries(I, J))
    BY <1>1, <1>3, CellIn
  <2> QED
    BY <2>1, Zenon
<1> HIDE DEF old
<1>6. ChartInv'
  BY <1>1, <1>2, <1>4, <1>5, AddStays, Zenon
<1>7. dep_check' \in [Bnst -> -1 .. Last]
  <2>1. dep_check \in [Bnst -> -1 .. Last]
    BY <1>1 DEF LoopInv
  <2>2. dep_check[Dep] \in -1 .. Last /\ J \in -1 .. Last /\ 0 \in -1 .. Last
    BY <1>3, <2>1
  <2>3. BarrierAfter \in -1 .. Last
    BY <2>2, Zenon DEF BarrierAfter
  <2> QED
    BY <1>2, <1>3, <2>1, <2>3
<1>8. LoopInv'
  <2>1. I' = I /\ J' = J
    BY <1>2 DEF I, J
  <2>2. k' \in Nat /\ k' <= J' - I' + 1
    BY <1>2, <1>3, <2>1
  <2> QED
    BY <1>1, <1>2, <1>7, <2>2 DEF LoopInv
<1>9. InputInv' /\ ResultInv'
  BY <1>1, <1>2, FillRest DEF Add
<1> QED
  BY <1>6, <1>8, <1>9 DEF IInv

LEMMA CoordinateKeeps ==
  ASSUME ScoresCompare, IInv, Coordinate
  PROVE  IInv'
<1>1. InputInv /\ LoopInv /\ ChartInv /\ ResultInv
  BY DEF IInv
<1>2. /\ phase = "fill" /\ I < J /\ k = J - I /\ Room(Len(Extended)) /\ Add(cky_matrix[cell], Extended)
      /\ k' = k + 1 /\ cell' = cell /\ dep_check' = dep_check /\ phase' = phase
  BY DEF Coordinate
<1>3. /\ I \in Bnst /\ J \in Bnst /\ I <= J /\ cell = <<I, J>> /\ I \in Nat /\ J \in Nat /\ k \in Nat
  BY <1>1, SplitBounds
<1>4. Extended \in Seq(Entries(I, J))
  BY <1>1, <1>2, ExtendedIn
<1>5. cky_matrix[cell] \in Seq(Entries(I, J))
  BY <1>1, <1>3, CellIn
<1>6. ChartInv'
  BY <1>1, <1>2, <1>4, <1>5, AddStays, Zenon
<1>7. LoopInv'
  <2>1. I' = I /\ J' = J
    BY <1>2 DEF I, J
  <2>2. k' \in Nat /\ k' <= J' - I' + 1
    BY <1>2, <1>3, <2>1
  <2> QED
    BY <1>1, <1>2, <2>2 DEF LoopInv
<1>8. InputInv' /\ ResultInv'
  BY <1>1, <1>2, FillRest DEF Add
<1> QED
  BY <1>6, <1>7, <1>8 DEF IInv

LEMMA CloseCellKeeps ==
  ASSUME IInv, CloseCell
  PROVE  IInv'
<1>1. InputInv /\ LoopInv /\ ChartInv /\ ResultInv
  BY DEF IInv
<1>2. /\ cky_matrix' = [cky_matrix EXCEPT ![cell] = Pruned(cky_matrix[cell])]
      /\ Advance /\ table_num' = table_num /\ dep_check' = dep_check
      /\ UNCHANGED <<opt, sent, OptAnalysis, retried, Dpnd, para, structures, best, bnst, out>>
  BY DEF CloseCell
<1>3. I \in Bnst /\ J \in Bnst /\ I <= J /\ cell = <<I, J>>
  BY <1>1, SplitBounds
<1>4. cky_matrix[cell] \in Seq(Entries(I, J))
  BY <1>1, <1>3, CellIn
<1>5. Pruned(cky_matrix[cell]) \in Seq(Entries(I, J))
  <2>1. \A e \in Entries(I, J) : e.score \in Int
    BY DEF Entries
  <2> QED
    BY <1>1, <1>4, <2>1, PrunedIn, Zenon
<1>6. ChartInv'
  <2>1. /\ DOMAIN cky_matrix' = Cells
        /\ \A i, j \in Bnst : i <= j => cky_matrix'[<<i, j>>] \in Seq(Entries(i, j))
    BY <1>1, <1>2, <1>5, FillStays, Zenon
  <2> QED
    BY <1>1, <1>2, <2>1 DEF ChartInv
<1>7. LoopInv' /\ phase' \in {"fill", "choose"}
  BY <1>1, <1>2, AdvanceStays
<1>8. InputInv' /\ ResultInv'
  BY <1>1, <1>2, <1>7, FillRest
<1> QED
  BY <1>6, <1>7, <1>8 DEF IInv

\* When the table is full nothing changes but the phase.
LEMMA TableFullKeeps ==
  ASSUME IInv, TableFull
  PROVE  IInv'
<1>1. /\ phase' = "failed"
      /\ UNCHANGED <<opt, sent, OptAnalysis, retried, Dpnd, para, structures, best, bnst, out>>
      /\ cell' = cell /\ k' = k /\ cky_matrix' = cky_matrix /\ table_num' = table_num
      /\ dep_check' = dep_check
  BY DEF TableFull, chart
<1>2. InputInv'
  BY <1>1 DEF IInv, InputInv
<1>3. LoopInv'
  BY <1>1 DEF IInv, LoopInv, I, J
<1>4. ChartInv'
  BY <1>1 DEF IInv, ChartInv
<1>5. ResultInv'
  BY <1>1 DEF IInv, ResultInv
<1> QED
  BY <1>2, <1>3, <1>4, <1>5 DEF IInv
-----------------------------------------------------------------------------
(* The result                                                              *)

\* What choosing and printing leave alone.
LEMMA ResultRest ==
  ASSUME InputInv, LoopInv, ChartInv,
         OptAnalysis' \in {"case", "dpnd"}, retried' \in BOOLEAN,
         phase' \in {"start", "fill", "choose", "after", "failed", "done"},
         UNCHANGED <<opt, sent, Dpnd, para, chart>>
  PROVE  InputInv' /\ LoopInv' /\ ChartInv'
<1>1. /\ cell' = cell /\ k' = k /\ cky_matrix' = cky_matrix /\ table_num' = table_num
      /\ dep_check' = dep_check
  BY DEF chart
<1>2. InputInv'
  BY DEF InputInv
<1>3. LoopInv'
  BY <1>1 DEF LoopInv, I, J
<1>4. ChartInv'
  BY <1>1 DEF ChartInv
<1> QED
  BY <1>2, <1>3, <1>4

\* when_no_dpnd_struct leaves every phrase with a head to its right.
LEMMA NeighboursRight ==
  /\ NeighbourHeads \in [head : [Bnst -> -1 .. Last], type : [Bnst -> DpndTypes], score : Int]
  /\ RightHeads(NeighbourHeads.head)
<1>1. \A b \in Bnst : (IF b = Last THEN -1 ELSE b + 1) \in -1 .. Last
  BY PhraseBounds
<1>2. "D" \in DpndTypes
  BY DEF DpndTypes
<1>3. NeighbourHeads \in [head : [Bnst -> -1 .. Last], type : [Bnst -> DpndTypes], score : Int]
  BY <1>1, <1>2 DEF NeighbourHeads
<1>4. \A b \in Bnst \ {Last} : NeighbourHeads.head[b] = b + 1
  BY DEF NeighbourHeads
<1>5. RightHeads(NeighbourHeads.head)
  BY <1>4, PhraseBounds DEF RightHeads
<1> QED
  BY <1>3, <1>5

\* dpnd_info_to_bnst keeps the heads and leaves types of dependencies.
LEMMA ToBnstIn ==
  ASSUME NEW b \in [head : [Bnst -> -1 .. Last], type : [Bnst -> DpndTypes], score : Int]
  PROVE  DpndInfoToBnst(b) \in Structure /\ DpndInfoToBnst(b).head = b.head
<1>1. b.head \in [Bnst -> -1 .. Last] /\ b.type \in [Bnst -> DpndTypes]
  OBVIOUS
<1>2. "D" \in DpndTypes
  BY DEF DpndTypes
<1> DEFINE type == [i \in Bnst |-> IF b.type[i] \in {"d", "R"} THEN "D" ELSE b.type[i]]
<1>3. type \in [Bnst -> DpndTypes]
  BY <1>1, <1>2, Zenon
<1>4. DpndInfoToBnst(b) = [head |-> b.head, type |-> type]
  BY DEF DpndInfoToBnst
<1> HIDE DEF type
<1> QED
  BY <1>1, <1>3, <1>4 DEF Structure

LEMMA NoAnalysisKeeps ==
  ASSUME IInv, NoAnalysis
  PROVE  IInv'
<1>1. InputInv /\ LoopInv /\ ChartInv /\ ResultInv
  BY DEF IInv
<1>2. /\ best' = IF OptNbest THEN NeighbourHeads ELSE best
      /\ bnst' = IF OptNbest THEN DpndInfoToBnst(best') ELSE bnst
      /\ out' = IF OptNbest THEN Append(out, TRUE) ELSE out
      /\ phase' = "failed" /\ structures' = structures
      /\ OptAnalysis' = OptAnalysis /\ retried' = retried
      /\ UNCHANGED <<opt, sent, Dpnd, para, chart>>
  BY DEF NoAnalysis
<1>3. InputInv' /\ LoopInv' /\ ChartInv'
  <2>1. OptAnalysis' \in {"case", "dpnd"} /\ retried' \in BOOLEAN
    BY <1>1, <1>2 DEF InputInv
  <2>2. phase' \in {"start", "fill", "choose", "after", "failed", "done"}
    BY <1>2
  <2> QED
    BY <1>1, <1>2, <2>1, <2>2, ResultRest, Zenon
<1>4. best' \in [head : [Bnst -> -1 .. Last], type : [Bnst -> DpndTypes], score : Int]
  BY <1>1, <1>2, NeighboursRight, Zenon DEF ResultInv
<1>5. bnst' \in Structure
  BY <1>1, <1>2, <1>4, ToBnstIn, Zenon DEF ResultInv
<1>6. out' \in Seq(BOOLEAN)
  <2>1. out \in Seq(BOOLEAN) /\ Append(out, TRUE) \in Seq(BOOLEAN)
    BY <1>1 DEF ResultInv
  <2> QED
    BY <1>2, <2>1, Zenon
<1>7. structures' \in Seq(Entries(0, Last))
  BY <1>1, <1>2, Zenon DEF ResultInv
<1>8. phase' # "after" /\ phase' # "done"
  BY <1>2
<1> QED
  BY <1>3, <1>4, <1>5, <1>6, <1>7, <1>8, Zenon DEF IInv, ResultInv

\* after_cky goes through entries of the top cell, at least through the best one.
LEMMA ChosenOver ==
  ASSUME NEW S, \A e \in S : e.score \in Int, Analyses \in Seq(S), Choose
  PROVE  structures' \in Seq(S) /\ structures' # <<>>
<1> DEFINE a == Analyses
           b == BestFrom(a, 1)
           p == SubSeq(a, 1, b - 1)
           q == SubSeq(a, b + 1, Len(a))
           z == <<a[b]>>
<1>1. a # <<>> /\ structures' = IF OptNbest THEN p \o q \o z ELSE z
  BY DEF Choose
<1>2. a \in Seq(S)
  OBVIOUS
<1> HIDE DEF a
<1>3. Len(a) \in Nat /\ 1 \in 1 .. Len(a)
  BY <1>1, <1>2, EmptySeq
<1>4. b \in 1 .. Len(a)
  BY <1>2, <1>3, BestFromIn, Zenon
<1> HIDE DEF b
<1>5. z \in Seq(S) /\ Len(z) = 1
  BY <1>2, <1>4
<1>6. p \in Seq(S) /\ q \in Seq(S)
  <2>1. \A l \in 1 .. (b - 1) : a[l] \in S
    BY <1>2, <1>3, <1>4
  <2>2. \A l \in (b + 1) .. Len(a) : a[l] \in S
    BY <1>2, <1>3, <1>4
  <2>3. 1 \in Int /\ b - 1 \in Int /\ b + 1 \in Int /\ Len(a) \in Int
    BY <1>3, <1>4
  <2> QED
    BY <2>1, <2>2, <2>3, SubSeqProperties
<1> HIDE DEF p, q, z
<1> DEFINE pq == p \o q
<1>7. pq \in Seq(S) /\ Len(pq) \in Nat
  BY <1>6, ConcatProperties
<1>8. structures' = (IF OptNbest THEN pq \o z ELSE z)
  BY <1>1
<1> HIDE DEF pq
<1>9. pq \o z \in Seq(S) /\ Len(pq \o z) = Len(pq) + 1
  <2>1. pq \o z \in Seq(S) /\ Len(pq \o z) = Len(pq) + Len(z)
    BY <1>5, <1>7, ConcatProperties, Zenon
  <2> QED
    BY <1>5, <2>1, Zenon
<1>10. pq \o z # <<>> /\ z # <<>>
  BY <1>5, <1>7, <1>9
<1> QED
  BY <1>5, <1>8, <1>9, <1>10, Zenon

LEMMA ChooseKeeps ==
  ASSUME IInv, Choose
  PROVE  IInv'
<1>1. InputInv /\ LoopInv /\ ChartInv /\ ResultInv
  BY DEF IInv
<1>2. /\ phase' = "after" /\ best' = best /\ bnst' = bnst /\ out' = out
      /\ OptAnalysis' = OptAnalysis /\ retried' = retried
      /\ UNCHANGED <<opt, sent, Dpnd, para, chart>>
  BY DEF Choose
<1>3. InputInv' /\ LoopInv' /\ ChartInv'
  <2>1. OptAnalysis' \in {"case", "dpnd"} /\ retried' \in BOOLEAN
    BY <1>1, <1>2 DEF InputInv
  <2>2. phase' \in {"start", "fill", "choose", "after", "failed", "done"}
    BY <1>2
  <2> QED
    BY <1>1, <1>2, <2>1, <2>2, ResultRest, Zenon
<1>4. structures' \in Seq(Entries(0, Last)) /\ structures' # <<>>
  <2>1. Analyses \in Seq(Entries(0, Last))
    BY <1>1, PhraseBounds, CellIn DEF Analyses
  <2>2. \A e \in Entries(0, Last) : e.score \in Int
    BY DEF Entries
  <2> QED
    BY <2>1, <2>2, ChosenOver, Zenon
<1>5. phase' # "done"
  BY <1>2
<1>6. /\ best' \in [head : [Bnst -> -1 .. Last], type : [Bnst -> DpndTypes], score : Int]
      /\ bnst' \in Structure /\ out' \in Seq(BOOLEAN)
  BY <1>1, <1>2, Zenon DEF ResultInv
<1> QED
  BY <1>3, <1>4, <1>5, <1>6, Zenon DEF IInv, ResultInv

\* Whatever was in Best_mgr before, writing the arcs of a structure and resolving
\* the offsets leaves heads to the right.
LEMMA BestAfterRight ==
  ASSUME ResultInv, NEW e \in Entries(0, Last)
  PROVE  /\ BestAfter(e) \in [head : [Bnst -> -1 .. Last], type : [Bnst -> DpndTypes], score : Int]
         /\ RightHeads(BestAfter(e).head)
         /\ \A b \in 0 .. (Last - 1) :
              /\ BestAfter(e).type[b] = e.arcs[b].type
              /\ e.arcs[b].to >= 0 => BestAfter(e).head[b] = e.arcs[b].to
<1> DEFINE D == 0 .. (Last - 1)
           to == [b \in DOMAIN e.arcs |-> e.arcs[b].to]
           ty == [b \in DOMAIN e.arcs |-> e.arcs[b].type]
           w == [b \in Bnst |-> IF b \in DOMAIN e.arcs THEN to[b] ELSE best.head[b]]
           head == [w EXCEPT ![e.j] = -1]
           type == [b \in Bnst |-> IF b \in DOMAIN e.arcs THEN ty[b] ELSE best.type[b]]
<1>1. e.arcs \in ArcsOn(D) /\ e.j = Last /\ e.score \in Int
  BY DEF Entries, ArcsOf
<1>2. /\ DOMAIN e.arcs = D
      /\ \A b \in D : /\ e.arcs[b].to \in -2 .. Last /\ e.arcs[b].type \in DpndTypes
                      /\ e.arcs[b].to > b \/ (e.arcs[b].to < 0 /\ b + e.arcs[b].to >= 0)
  BY <1>1 DEF ArcsOn
<1>3. best.head \in [Bnst -> -1 .. Last] /\ best.type \in [Bnst -> DpndTypes]
  BY DEF ResultInv
<1>4. Last \in Bnst /\ Last \in Nat /\ (\A b \in Bnst \ {Last} : b \in D) /\ Last \notin D
  BY PhraseBounds
<1>5. BestAfter(e) = [head |-> Resolved(head), score |-> e.score, type |-> type]
  BY Zenon DEF BestAfter
<1>6. type \in [Bnst -> DpndTypes]
  <2>1. ASSUME NEW b \in Bnst
        PROVE  (IF b \in DOMAIN e.arcs THEN ty[b] ELSE best.type[b]) \in DpndTypes
    BY <1>2, <1>3, Zenon
  <2> QED
    BY <2>1, Zenon
<1>7. w = [b \in Bnst |-> IF b \in D THEN e.arcs[b].to ELSE best.head[b]]
  BY <1>2, Zenon
<1>7a. \A b \in D : b \in Bnst /\ b # Last /\ type[b] = e.arcs[b].type
  <2>1. \A b \in D : b \in Bnst /\ b # Last
    BY PhraseBounds
  <2> QED
    BY <1>2, <2>1, Zenon
<1> HIDE DEF w, type, to, ty, D
<1>8. \A b \in Bnst : w[b] \in -2 .. Last
  <2>1. \A b \in Bnst : best.head[b] \in -2 .. Last
    <3>1. \A b \in Bnst : best.head[b] \in -1 .. Last
      BY <1>3, Zenon
    <3>2. \A x \in -1 .. Last : x \in -2 .. Last
      BY <1>4
    <3> QED
      BY <3>1, <3>2, Zenon
  <2> QED
    BY <1>2, <1>7, <2>1, Zenon
<1>9. head = [b \in Bnst |-> IF b = Last THEN -1 ELSE w[b]]
  BY <1>1, <1>7
<1> HIDE DEF head
<1>10. head \in [Bnst -> -2 .. Last] /\ head[Last] = -1
  BY <1>4, <1>8, <1>9
<1>11. ASSUME NEW b \in Bnst \ {Last}
       PROVE  head[b] > b \/ (head[b] < 0 /\ b + head[b] >= 0)
  <2>1. b \in D /\ b \in Bnst /\ b # Last
    BY <1>4
  <2>2. head[b] = e.arcs[b].to
    BY <1>7, <1>9, <2>1, Zenon
  <2> QED
    BY <1>2, <2>1, <2>2, Zenon
<1>12. head \in Offsets
  BY <1>10, <1>11, Zenon DEF Offsets
<1>13. Resolved(head) \in [Bnst -> -1 .. Last] /\ RightHeads(Resolved(head))
  BY <1>12, ResolvedRight, Zenon
<1> DEFINE r == Resolved(head)
<1>14. BestAfter(e) = [head |-> r, score |-> e.score, type |-> type] /\ r \in [Bnst -> -1 .. Last]
       /\ RightHeads(r)
  BY <1>5, <1>13
<1> HIDE DEF r
<1>15. BestAfter(e).head = r
  BY <1>14
<1>16. BestAfter(e) \in [head : [Bnst -> -1 .. Last], type : [Bnst -> DpndTypes], score : Int]
  BY <1>1, <1>6, <1>14
<1>17. BestAfter(e).type = type
  BY <1>14
<1>18. ASSUME NEW b \in D, e.arcs[b].to >= 0
       PROVE  r[b] = e.arcs[b].to
  <2>1. head[b] = e.arcs[b].to /\ b \in Bnst
    BY <1>7, <1>9, <1>7a, <1>18, Zenon
  <2>2. Resolved(head)[b] = head[b]
    BY <1>12, <1>18, <2>1, ResolvedRight, Zenon
  <2> QED
    BY <2>1, <2>2, Zenon DEF r
<1> QED
  BY <1>14, <1>15, <1>16, <1>7a, <1>17, <1>18, Zenon DEF D

LEMMA ConvertKeeps ==
  ASSUME IInv, Convert
  PROVE  IInv'
<1>1. InputInv /\ LoopInv /\ ChartInv /\ ResultInv
  BY DEF IInv
<1>2. /\ phase = "after" /\ structures # <<>> /\ phase' = phase
      /\ best' = BestAfter(structures[1])
      /\ bnst' = DpndInfoToBnst(best')
      /\ out' = IF OptNbest /\ sent.treeFits THEN Append(out, Len(structures) = 1) ELSE out
      /\ structures' = Tail(structures)
      /\ OptAnalysis' = OptAnalysis /\ retried' = retried
      /\ UNCHANGED <<opt, sent, Dpnd, para, chart>>
  BY DEF Convert
<1>3. InputInv' /\ LoopInv' /\ ChartInv'
  <2>1. OptAnalysis' \in {"case", "dpnd"} /\ retried' \in BOOLEAN
    BY <1>1, <1>2 DEF InputInv
  <2>2. phase' \in {"start", "fill", "choose", "after", "failed", "done"}
    BY <1>2
  <2> QED
    BY <1>1, <1>2, <2>1, <2>2, ResultRest, Zenon
<1>4. structures[1] \in Entries(0, Last) /\ structures' \in Seq(Entries(0, Last))
  <2>1. structures \in Seq(Entries(0, Last)) /\ structures # <<>>
    BY <1>1, <1>2, Zenon DEF ResultInv
  <2> QED
    BY <1>2, <2>1
<1>5. /\ best' \in [head : [Bnst -> -1 .. Last], type : [Bnst -> DpndTypes], score : Int]
      /\ RightHeads(best'.head)
  BY <1>1, <1>2, <1>4, BestAfterRight, Zenon
<1>6. bnst' \in Structure
  BY <1>2, <1>5, ToBnstIn, Zenon
<1>7. out' \in Seq(BOOLEAN)
  <2>1. out \in Seq(BOOLEAN) /\ (Len(structures) = 1) \in BOOLEAN
    BY <1>1 DEF ResultInv
  <2>2. Append(out, Len(structures) = 1) \in Seq(BOOLEAN)
    BY <2>1, AppendProperties, Zenon
  <2> QED
    BY <1>2, <2>1, <2>2, Zenon
<1>8. phase' # "done"
  BY <1>2
<1> QED
  BY <1>3, <1>4, <1>5, <1>6, <1>7, <1>8, Zenon DEF IInv, ResultInv

\* A structure with heads to the right is handed on with them.
LEMMA PrintedKeeps ==
  ASSUME InputInv, LoopInv, ChartInv, ResultInv,
         NEW b \in [head : [Bnst -> -1 .. Last], type : [Bnst -> DpndTypes], score : Int],
         RightHeads(b.head), Printed(b),
         UNCHANGED <<opt, sent, retried, Dpnd, para, chart, structures>>
  PROVE  IInv'
<1>1. /\ best' = b /\ bnst' = DpndInfoToBnst(b) /\ phase' = "done"
      /\ out' = IF OptNbest THEN out ELSE Append(out, TRUE)
      /\ OptAnalysis' = (IF retried THEN "case" ELSE OptAnalysis)
      /\ retried' = retried /\ structures' = structures
      /\ UNCHANGED <<opt, sent, Dpnd, para, chart>>
  BY DEF Printed
<1>2. InputInv' /\ LoopInv' /\ ChartInv'
  <2>1. OptAnalysis' \in {"case", "dpnd"} /\ retried' \in BOOLEAN
    BY <1>1 DEF InputInv
  <2>2. phase' \in {"start", "fill", "choose", "after", "failed", "done"}
    BY <1>1
  <2> QED
    BY <1>1, <2>1, <2>2, ResultRest, Zenon
<1>3. bnst' \in Structure /\ RightHeads(bnst'.head)
  BY <1>1, ToBnstIn, Zenon
<1>4. out' \in Seq(BOOLEAN)
  <2>1. out \in Seq(BOOLEAN) /\ Append(out, TRUE) \in Seq(BOOLEAN)
    BY DEF ResultInv
  <2> QED
    BY <1>1, <2>1, Zenon
<1>5. structures' \in Seq(Entries(0, Last))
  BY <1>1, Zenon DEF ResultInv
<1>6. phase' # "after"
  BY <1>1
<1> QED
  BY <1>1, <1>2, <1>3, <1>4, <1>5, <1>6, Zenon DEF IInv, ResultInv

LEMMA FinishKeeps ==
  ASSUME IInv, Finish
  PROVE  IInv'
<1>1. InputInv /\ LoopInv /\ ChartInv /\ ResultInv
  BY DEF IInv
<1>2. /\ phase = "after" /\ structures = <<>> /\ Printed(best)
      /\ UNCHANGED <<opt, sent, retried, Dpnd, para, chart, structures>>
  BY DEF Finish
<1>3. /\ best \in [head : [Bnst -> -1 .. Last], type : [Bnst -> DpndTypes], score : Int]
      /\ RightHeads(best.head)
  BY <1>1, <1>2, Zenon DEF ResultInv
<1> QED
  BY <1>1, <1>2, <1>3, PrintedKeeps, Zenon

LEMMA GiveUpKeeps ==
  ASSUME IInv, GiveUp
  PROVE  IInv'
<1>1. InputInv /\ LoopInv /\ ChartInv /\ ResultInv
  BY DEF IInv
<1>2. Printed(NeighbourHeads) /\ UNCHANGED <<opt, sent, retried, Dpnd, para, chart, structures>>
  BY DEF GiveUp
<1> QED
  BY <1>1, <1>2, NeighboursRight, PrintedKeeps, Zenon

\* The second attempt starts with the chart of the first.
LEMMA RetryKeeps ==
  ASSUME IInv, Retry
  PROVE  IInv'
<1>1. InputInv /\ LoopInv /\ ChartInv /\ ResultInv
  BY DEF IInv
<1>2. /\ OptAnalysis' = "dpnd" /\ retried' = TRUE /\ phase' = "start"
      /\ structures' = structures /\ best' = best /\ bnst' = bnst /\ out' = out
      /\ UNCHANGED <<opt, sent, Dpnd, para, chart>>
  BY DEF Retry
<1>3. InputInv' /\ LoopInv' /\ ChartInv'
  <2>1. OptAnalysis' \in {"case", "dpnd"} /\ retried' \in BOOLEAN
    BY <1>2
  <2>2. phase' \in {"start", "fill", "choose", "after", "failed", "done"}
    BY <1>2
  <2> QED
    BY <1>1, <1>2, <2>1, <2>2, ResultRest, Zenon
<1>4. phase' # "after" /\ phase' # "done"
  BY <1>2
<1> QED
  BY <1>1, <1>2, <1>3, <1>4, Zenon DEF IInv, ResultInv
-----------------------------------------------------------------------------
(* The theorems                                                            *)

LEMMA InitHolds ==
  ASSUME Init
  PROVE  IInv
<1>1. PICK x \in Inputs : sent = x.sent /\ opt = x.opt
  BY DEF Init
<1>2. IsSentence(sent)
  BY <1>1, InputsAssumption
<1>3. InputInv
  <2>1. Dpnd \in Matrices(DpndTypes \cup {NoDpnd}) /\ para \in [Bnst -> SUBSET (Bnst \X Bnst)]
    BY <1>2 DEF Init, IsSentence
  <2>2. OptAnalysis \in {"case", "dpnd"} /\ retried \in BOOLEAN
    BY DEF Init
  <2> QED
    BY <1>1, <2>1, <2>2, Zenon DEF InputInv
<1>4. LoopInv
  <2>1. cell = <<0, 0>> /\ k = 0 /\ phase = "start" /\ dep_check = [b \in Bnst |-> -1]
    BY DEF Init
  <2>2. <<0, 0>> \in Cells
    BY PhraseBounds, CellBounds
  <2>3. -1 \in -1 .. Last
    BY PhraseBounds
  <2>4. dep_check \in [Bnst -> -1 .. Last]
    BY <2>1, <2>3
  <2>5. J - I = 0
    BY <2>1 DEF I, J
  <2> QED
    BY <2>1, <2>2, <2>4, <2>5 DEF LoopInv
<1>5. ChartInv
  <2>1. cky_matrix = [c \in Cells |-> <<>>] /\ table_num = 0
    BY DEF Init
  <2>2. ASSUME NEW i \in Bnst, NEW j \in Bnst, i <= j
        PROVE  cky_matrix[<<i, j>>] \in Seq(Entries(i, j))
    <3>1. <<i, j>> \in Cells
      BY <2>2, CellBounds
    <3>2. cky_matrix[<<i, j>>] = <<>>
      BY <2>1, <3>1
    <3> QED
      BY <3>2
  <2>3. table_num \in 0 .. (TableMax - 1)
    BY <2>1, TableAssumption
  <2> QED
    BY <2>1, <2>2, <2>3 DEF ChartInv
<1>6. ResultInv
  <2>1. NoHeads.head \in [Bnst -> -1 .. Last] /\ NoHeads.type \in [Bnst -> DpndTypes]
        /\ NoHeads \in Structure
    BY PhraseBounds DEF NoHeads, DpndTypes, Structure
  <2>2. best \in [head : [Bnst -> -1 .. Last], type : [Bnst -> DpndTypes], score : Int]
    BY <2>1 DEF Init
  <2> QED
    BY <2>1, <2>2 DEF Init, ResultInv
<1> QED
  BY <1>3, <1>4, <1>5, <1>6 DEF IInv

LEMMA StepKeeps ==
  ASSUME ScoresCompare, IInv, [Next]_vars
  PROVE  IInv'
<1>1. CASE Step
  BY <1>1, BeginKeeps, LeafKeeps, MergeKeeps, CoordinateKeeps, CloseCellKeeps, TableFullKeeps,
     NoAnalysisKeeps, ChooseKeeps, ConvertKeeps, FinishKeeps, RetryKeeps, GiveUpKeeps, Zenon DEF Step
<1>2. CASE UNCHANGED vars
  <2>1. /\ UNCHANGED <<opt, sent, OptAnalysis, retried, Dpnd, para, structures, best, bnst, out, phase>>
        /\ UNCHANGED <<cell, k, cky_matrix, table_num, dep_check>>
    BY <1>2 DEF vars, chart
  <2>2. InputInv'
    BY <2>1 DEF IInv, InputInv
  <2>3. LoopInv'
    BY <2>1 DEF IInv, LoopInv, I, J
  <2>4. ChartInv'
    BY <2>1 DEF IInv, ChartInv
  <2>5. ResultInv'
    BY <2>1 DEF IInv, ResultInv
  <2> QED
    BY <2>2, <2>3, <2>4, <2>5 DEF IInv
<1> QED
  BY <1>1, <1>2, Zenon DEF Next, Done

\* Every entry of every cell, also of an attempt that failed, has arcs to the
\* right or offsets.
LEMMA Invariant ==
  ASSUME ScoresCompare
  PROVE  Spec => []IInv
<1>1. Init => IInv
  BY InitHolds
<1>2. IInv /\ [Next]_vars => IInv'
  BY StepKeeps
<1> QED
  BY <1>1, <1>2, PTL DEF Spec

\* The type invariant, for sentences of every length: an entry that set_cky puts
\* into cell <<i, j>> has an arc for each phrase i .. j - 1, however many
\* coordinations it was continued through, and new_cky_data never fills the table.
THEOREM TypeCorrect ==
  ASSUME ScoresCompare
  PROVE  Spec => []TypeOK
<1>1. ASSUME IInv
      PROVE  TypeOK
  <2>1. InputInv /\ LoopInv /\ ChartInv /\ ResultInv
    BY <1>1 DEF IInv
  <2>2. /\ IsSentence(sent) /\ opt \in Options
    BY <2>1, SentenceType
  <2>3. k \in 0 .. N /\ cell \in Cells
    <3>1. k \in Nat /\ I \in Nat /\ J \in Nat /\ J <= Last /\ k <= J - I + 1 /\ cell \in Cells
      BY <2>1, SplitBounds DEF LoopInv
    <3>2. N \in Nat /\ Last = N - 1
      BY PhraseBounds
    <3> QED
      BY <3>1, <3>2
  <2>4. ASSUME NEW c \in Cells, NEW n \in DOMAIN cky_matrix[c]
        PROVE  LET e == cky_matrix[c][n]
               IN  /\ <<e.i, e.j>> = c
                   /\ DOMAIN e.arcs = c[1] .. (c[2] - 1)
                   /\ \A b \in DOMAIN e.arcs : e.arcs[b] \in Arcs
                   /\ e.type \in DpndTypes \cup {NoDpnd}
                   /\ e.ends \subseteq Bnst
                   /\ e.i <= e.first /\ e.first <= e.j
    <3> DEFINE i == c[1]
               j == c[2]
               e == cky_matrix[c][n]
    <3>1. i \in Bnst /\ j \in Bnst /\ i <= j /\ c = <<i, j>>
      BY CellBounds, Zenon
    <3> HIDE DEF i, j
    <3>2. cky_matrix[c] \in Seq(Entries(i, j))
      BY <2>1, <3>1, CellIn, Zenon
    <3>3. e \in Entries(i, j)
      BY <3>2
    <3> HIDE DEF e
    <3>4. /\ e.i = i /\ e.j = j /\ e.type \in DpndTypes \cup {NoDpnd} /\ e.ends \subseteq Bnst
          /\ e.first \in i .. j /\ e.arcs \in ArcsOn(i .. (j - 1))
      BY <3>3 DEF Entries, ArcsOf
    <3>5. DOMAIN e.arcs = i .. (j - 1) /\ \A b \in DOMAIN e.arcs : e.arcs[b] \in Arcs
      <4>1. /\ DOMAIN e.arcs = i .. (j - 1)
            /\ \A b \in i .. (j - 1) : /\ e.arcs[b] \in [to : -2 .. Last, type : DpndTypes]
        BY <3>4 DEF ArcsOn
      <4>2. \A x \in -2 .. Last : x \in {-2, -1} \cup Bnst
        BY PhraseBounds
      <4>3. \A y \in [to : -2 .. Last, type : DpndTypes] : y \in Arcs
        BY <4>2 DEF Arcs
      <4> QED
        BY <4>1, <4>3, Zenon
    <3>6. e.i <= e.first /\ e.first <= e.j
      BY <3>1, <3>4, PhraseBounds
    <3> QED
      BY <3>1, <3>4, <3>5, <3>6, Zenon DEF e, i, j
  <2>5. DOMAIN cky_matrix = Cells /\ table_num \in 0 .. (TableMax - 1)
    BY <2>1 DEF ChartInv
  <2>6. /\ best.head \in [Bnst -> -1 .. Last] /\ best.type \in [Bnst -> DpndTypes]
        /\ bnst.head \in [Bnst -> -1 .. Last] /\ bnst.type \in [Bnst -> DpndTypes]
        /\ out \in Seq(BOOLEAN)
    BY <2>1 DEF ResultInv, Structure
  <2>7. /\ OptAnalysis \in {"case", "dpnd"} /\ retried \in BOOLEAN
        /\ Dpnd \in Matrices(DpndTypes \cup {NoDpnd})
        /\ para \in [Bnst -> SUBSET (Bnst \X Bnst)]
    BY <2>1 DEF InputInv
  <2>8. /\ dep_check \in [Bnst -> -1 .. Last]
        /\ phase \in {"start", "fill", "choose", "after", "failed", "done"}
    BY <2>1 DEF LoopInv
  <2> QED
    BY <2>2, <2>3, <2>4, <2>5, <2>6, <2>7, <2>8, Zenon DEF TypeOK
<1> QED
  BY <1>1, Invariant, PTL

\* Whatever cky relaxed, whatever an earlier attempt left in the chart and however
\* the offsets of after_cky chain from phrase to phrase, the heads handed on lead
\* to the right: a tree whose root is the last phrase.
THEOREM HeadsRightAlways ==
  ASSUME ScoresCompare
  PROVE  Spec => []HeadsRight
<1>1. IInv => HeadsRight
  BY DEF IInv, ResultInv, RightHeads, HeadsRight
<1> QED
  BY <1>1, Invariant, PTL
-----------------------------------------------------------------------------
(* The chart is sound                                                      *)

\* What check_dpnd_possibility says of phrase d and head g when fixed
\* coordinations leave one answer for all rows of the chart.
TypeOf(d, g) == Possibility(d, g, 0, g = Last /\ dep_check[d] = -1)

\* The arc that stands for head g.
ArcTo(d, g) ==
  IF TypeOf(d, g) # "P" /\ sent.follow[d] # 0 THEN [to |-> sent.follow[d], type |-> "D"]
  ELSE [to |-> g, type |-> TypeOf(d, g)]

\* The trees over the phrases i .. j with root j.
TreesIn(i, j) ==
  {h \in [i .. (j - 1) -> i .. j] :
     /\ \A d \in i .. (j - 1) : h[d] \in Allowed(d)
     /\ \A b, c \in i .. (j - 1) : ~ Crossing(h, b, c)}

Arrows(h, i, j) == [d \in i .. (j - 1) |-> ArcTo(d, h[d])]

\* The arcs of these trees, and the entries that have such arcs.
Drawn(i, j) == {Arrows(h, i, j) : h \in TreesIn(i, j)}

SoundEntries(i, j) == {e \in Entries(i, j) : e.arcs \in Drawn(i, j)}

\* The cells the attempt under way has written.
Filled(i, j) == j < J \/ (j = J /\ (i > I \/ (i = I /\ k > 0)))

\* Best_mgr holds a tree of the whole sentence; a phrase that follows another one
\* has been given the head of that one.
BestDrawn ==
  \E a \in Drawn(0, Last) : \A d \in 0 .. (Last - 1) :
    best.type[d] = a[d].type /\ (a[d].to >= 0 => best.head[d] = a[d].to)

FillSound ==
  \A i, j \in Bnst :
    i <= j /\ Filled(i, j) => cky_matrix[<<i, j>>] \in Seq(SoundEntries(i, j))

\* The inductive invariant of fixed coordinations.
SoundInv ==
  OptParaFix =>
    /\ phase = "fill" => FillSound
    /\ phase = "choose" => Analyses \in Seq(SoundEntries(0, Last))
    /\ phase = "after" => /\ structures \in Seq(SoundEntries(0, Last))
                          /\ structures = <<>> => BestDrawn
    /\ phase = "done" => best = NeighbourHeads \/ BestDrawn

\* No analysis that is not one: with fixed coordinations, every entry cky leaves for
\* the whole sentence is a tree without crossing arcs that respects the barriers as
\* they are in the end, and so is what is handed on unless it is the fallback.
ChartSound ==
  OptParaFix =>
    /\ phase = "choose" =>
         \A n \in DOMAIN Analyses : \E h \in Trees : Analyses[n].arcs = EntryFor(h).arcs
    /\ phase = "done" =>
         \/ best = NeighbourHeads
         \/ \E h \in Trees : \A d \in 0 .. (Last - 1) :
              /\ best.type[d] = EntryFor(h).arcs[d].type
              /\ EntryFor(h).arcs[d].to >= 0 => best.head[d] = EntryFor(h).arcs[d].to

\* The heads of a phrase, by what is possible and by its barrier.
LEMMA AllowedIs ==
  ASSUME NEW d
  PROVE  Allowed(d) = {g \in (d + 1) .. Last :
                         /\ TypeOf(d, g) # NoDpnd
                         /\ TypeOf(d, g) = "P" \/ dep_check[d] <= 0 \/ dep_check[d] >= g}
BY Zenon DEF Allowed, TypeOf

\* Barriers set later, at or behind the column of a tree, leave its arcs as they are.
LEMMA ArcsSteady ==
  ASSUME NEW i \in Bnst, NEW j \in Bnst, LoopInv, LoopInv', opt' = opt, sent' = sent, Dpnd' = Dpnd,
         para' = para,
         \A d \in Bnst : dep_check'[d] = dep_check[d]
                           \/ (j < Last /\ (dep_check'[d] = 0 \/ dep_check'[d] >= j))
  PROVE  Drawn(i, j) \subseteq Drawn(i, j)'
<1>1. i \in Nat /\ j \in Nat /\ j <= Last /\ Last \in Nat
  BY PhraseBounds
<1>2. \A d \in i .. (j - 1) : d \in Bnst
  BY <1>1, PhraseBounds
<1>3. ASSUME NEW d \in i .. (j - 1), NEW g \in i .. j
      PROVE  /\ ArcTo(d, g)' = ArcTo(d, g)
             /\ g \in Allowed(d) => g \in Allowed(d)'
  <2>1. d \in Bnst /\ g \in Nat /\ g <= j
    BY <1>1, <1>2
  <2>2. dep_check[d] \in -1 .. Last /\ dep_check'[d] \in -1 .. Last
    BY <2>1 DEF LoopInv
  <2>3. (g = Last /\ dep_check'[d] = -1) <=> (g = Last /\ dep_check[d] = -1)
    BY <1>1, <2>1, <2>2
  <2>4. TypeOf(d, g)' = TypeOf(d, g)
    BY <2>3, Zenon DEF TypeOf, Possibility, OptParaFix
  <2>5. ArcTo(d, g)' = ArcTo(d, g)
    BY <2>4, Zenon DEF ArcTo
  <2>6. ASSUME g \in Allowed(d) PROVE g \in Allowed(d)'
    <3>1. /\ g \in (d + 1) .. Last /\ TypeOf(d, g) # NoDpnd
          /\ TypeOf(d, g) = "P" \/ dep_check[d] <= 0 \/ dep_check[d] >= g
      BY <2>6, AllowedIs, Zenon
    <3>2. dep_check[d] <= 0 \/ dep_check[d] >= g => dep_check'[d] <= 0 \/ dep_check'[d] >= g
      BY <1>1, <2>1, <2>2
    <3>3. Allowed(d)' = {x \in (d + 1) .. Last :
                           /\ TypeOf(d, x)' # NoDpnd
                           /\ TypeOf(d, x)' = "P" \/ dep_check'[d] <= 0 \/ dep_check'[d] >= x}
      BY Zenon DEF Allowed, TypeOf
    <3> QED
      BY <2>4, <3>1, <3>2, <3>3, Zenon
  <2> QED
    BY <2>5, <2>6
<1>4. ASSUME NEW h \in TreesIn(i, j)
      PROVE  h \in TreesIn(i, j)' /\ Arrows(h, i, j)' = Arrows(h, i, j)
  <2>1. /\ h \in [i .. (j - 1) -> i .. j]
        /\ \A d \in i .. (j - 1) : h[d] \in Allowed(d)
        /\ \A b, c \in i .. (j - 1) : ~ Crossing(h, b, c)
    BY Zenon DEF TreesIn
  <2>2. \A d \in i .. (j - 1) : h[d] \in i .. j
    BY <2>1, Zenon
  <2>3. \A d \in i .. (j - 1) : h[d] \in Allowed(d)' /\ ArcTo(d, h[d])' = ArcTo(d, h[d])
    BY <1>3, <2>1, <2>2, Zenon
  <2>4. h \in TreesIn(i, j)'
    BY <2>1, <2>3, Zenon DEF TreesIn
  <2> QED
    BY <2>3, <2>4, Zenon DEF Arrows
<1> QED
  BY <1>4, Zenon DEF Drawn

\* A single phrase is a tree without arcs.
LEMMA LeafDrawn ==
  ASSUME ScoresCompare, InputInv, NEW b \in Bnst
  PROVE  LeafEntry(b) \in SoundEntries(b, b)
<1>1. b \in Nat /\ b .. (b - 1) = {}
  BY PhraseBounds
<1>2. LeafEntry(b).arcs = <<>>
  BY DEF LeafEntry, Scored
<1> DEFINE h == [d \in b .. (b - 1) |-> b]
<1>3. h \in TreesIn(b, b)
  BY <1>1 DEF TreesIn
<1>4. Arrows(h, b, b) = <<>>
  BY <1>1 DEF Arrows
<1>5. <<>> \in Drawn(b, b)
  BY <1>3, <1>4, Zenon DEF Drawn
<1> QED
  BY <1>2, <1>5, LeafIn, Zenon DEF SoundEntries

\* Two neighbouring trees and an arc from the root of the first to that of the second
\* make one: nothing crosses.
LEMMA TreesJoin ==
  ASSUME NEW i \in Bnst, NEW d \in Bnst, NEW j \in Bnst, i <= d, d < j,
         NEW p \in TreesIn(i, d), NEW q \in TreesIn(d + 1, j), j \in Allowed(d),
         NEW h, h = [b \in i .. (j - 1) |-> IF b < d THEN p[b] ELSE IF b = d THEN j ELSE q[b]]
  PROVE  h \in TreesIn(i, j)
<1>1. i \in Nat /\ d \in Nat /\ j \in Nat
  BY PhraseBounds
<1>2. /\ \A b \in i .. (d - 1) : p[b] \in i .. d /\ p[b] \in Allowed(b)
      /\ \A b, c \in i .. (d - 1) : ~ Crossing(p, b, c)
  BY DEF TreesIn
<1>3. /\ \A b \in (d + 1) .. (j - 1) : q[b] \in (d + 1) .. j /\ q[b] \in Allowed(b)
      /\ \A b, c \in (d + 1) .. (j - 1) : ~ Crossing(q, b, c)
  BY DEF TreesIn
<1>4. \A b \in i .. (j - 1) :
        /\ b \in i .. (d - 1) => h[b] = p[b] /\ h[b] \in i .. d /\ h[b] \in Allowed(b)
        /\ b = d => h[b] = j /\ h[b] \in Allowed(b)
        /\ b \in (d + 1) .. (j - 1) => h[b] = q[b] /\ h[b] \in (d + 1) .. j /\ h[b] \in Allowed(b)
        /\ b \in i .. (d - 1) \/ b = d \/ b \in (d + 1) .. (j - 1)
  <2>1. \A b \in i .. (j - 1) : /\ b \in i .. (d - 1) => b < d
                                /\ b \in (d + 1) .. (j - 1) => ~ (b < d) /\ b # d
                                /\ b \in i .. (d - 1) \/ b = d \/ b \in (d + 1) .. (j - 1)
    BY <1>1
  <2>2. ~ (d < d)
    BY <1>1
  <2>3. \A b \in i .. (j - 1) : /\ b < d => h[b] = p[b]
                                /\ b = d => h[b] = j
                                /\ ~ (b < d) /\ b # d => h[b] = q[b]
    BY <2>2, Zenon
  <2> QED
    BY <1>2, <1>3, <2>1, <2>3, Zenon
<1>5. \A b \in i .. (j - 1) : h[b] \in i .. j /\ h[b] \in Allowed(b)
  <2>1. i .. d \subseteq i .. j /\ (d + 1) .. j \subseteq i .. j /\ j \in i .. j
    BY <1>1
  <2> QED
    BY <1>4, <2>1, Zenon
<1>6. ASSUME NEW b \in i .. (j - 1), NEW c \in i .. (j - 1)
      PROVE  ~ Crossing(h, b, c)
  <2>1. CASE b \in i .. (d - 1) /\ c \in i .. (d - 1)
    <3>1. ~ Crossing(p, b, c) /\ h[b] = p[b] /\ h[c] = p[c]
      BY <1>2, <1>4, <2>1, Zenon
    <3> QED
      BY <3>1, Zenon DEF Crossing
  <2>2. CASE b \in (d + 1) .. (j - 1) /\ c \in (d + 1) .. (j - 1)
    <3>1. ~ Crossing(q, b, c) /\ h[b] = q[b] /\ h[c] = q[c]
      BY <1>3, <1>4, <2>2, Zenon
    <3> QED
      BY <3>1, Zenon DEF Crossing
  <2>3. CASE b \in i .. (d - 1) /\ ~ (c \in i .. (d - 1))
    <3>1. h[b] \in i .. d
      BY <1>4, <2>3, Zenon
    <3>2. ~ (c < h[b])
      BY <1>1, <2>3, <3>1
    <3> QED
      BY <3>2, Zenon DEF Crossing
  <2>4. CASE b = d
    <3>1. h[b] = j /\ h[c] \in i .. j
      BY <1>4, <1>5, <2>4, Zenon
    <3>2. ~ (h[b] < h[c])
      BY <1>1, <3>1
    <3> QED
      BY <3>2, Zenon DEF Crossing
  <2>5. CASE b \in (d + 1) .. (j - 1) /\ ~ (c \in (d + 1) .. (j - 1))
    <3>1. ~ (b < c)
      BY <1>1, <2>5
    <3> QED
      BY <3>1, Zenon DEF Crossing
  <2> QED
    BY <1>4, <2>1, <2>2, <2>3, <2>4, <2>5, Zenon
<1>7. h \in [i .. (j - 1) -> i .. j]
  BY <1>5, Zenon
<1> QED
  BY <1>5, <1>6, <1>7, Zenon DEF TreesIn

\* The trees p over i .. d and q over d + 1 .. j, joined.
Glue(p, q, i, d, j) ==
  [b \in i .. (j - 1) |-> IF b < d THEN p[b] ELSE IF b = d THEN j ELSE q[b]]

\* Its heads.
LEMMA GlueParts ==
  ASSUME NEW i \in Bnst, NEW d \in Bnst, NEW j \in Bnst, i <= d, d < j, NEW p, NEW q
  PROVE  /\ \A b \in i .. (d - 1) : b \in i .. (j - 1) /\ Glue(p, q, i, d, j)[b] = p[b]
         /\ d \in i .. (j - 1) /\ Glue(p, q, i, d, j)[d] = j
         /\ \A b \in (d + 1) .. (j - 1) : b \in i .. (j - 1) /\ Glue(p, q, i, d, j)[b] = q[b]
<1>1. i \in Nat /\ d \in Nat /\ j \in Nat
  BY PhraseBounds
<1>2. /\ \A b \in i .. (d - 1) : b \in i .. (j - 1) /\ b < d
      /\ d \in i .. (j - 1) /\ ~ (d < d)
      /\ \A b \in (d + 1) .. (j - 1) : b \in i .. (j - 1) /\ ~ (b < d) /\ b # d
  BY <1>1
<1> QED
  BY <1>2, Zenon DEF Glue

\* An entry with root j and the arcs of tree h.
Stands(e, h, i, j) == e.j = j /\ e.arcs = Arrows(h, i, j)

\* set_cky and convert_to_dpnd: the arcs of an entry made by a split are those of the
\* joined tree.
LEMMA MadeOfArcs ==
  ASSUME NEW i \in Bnst, NEW d \in Bnst, NEW j \in Bnst, i <= d, d < j, NEW p, NEW q,
         NEW l, NEW r, Stands(l, p, i, d), Stands(r, q, d + 1, j)
  PROVE  Stands(MadeOf(l, r, TypeOf(d, j), FALSE), Glue(p, q, i, d, j), i, j)
<1>1. i \in Nat /\ d \in Nat /\ j \in Nat
  BY PhraseBounds
<1>2. l.j = d /\ l.arcs = Arrows(p, i, d) /\ r.j = j /\ r.arcs = Arrows(q, d + 1, j)
  BY DEF Stands
<1>5. PICK h : h = Glue(p, q, i, d, j)
  OBVIOUS
<1>6. /\ \A b \in i .. (d - 1) : h[b] = p[b]
      /\ h[d] = j
      /\ \A b \in (d + 1) .. (j - 1) : h[b] = q[b]
  BY <1>5, GlueParts
<1> DEFINE t == TypeOf(d, j)
           own == [b \in {d} |-> ArcTo(d, j)]
<1>7. OwnArc(l, r, t) = own
  BY <1>2, Zenon DEF OwnArc, ArcTo
<1>8. MadeOf(l, r, t, FALSE).arcs = Override(Override(own, l.arcs), r.arcs)
  <2>1. MadeOf(l, r, t, FALSE).arcs = Override(Override(OwnArc(l, r, t), l.arcs), r.arcs)
    BY DEF MadeOf, Scored
  <2> QED
    BY <1>7, <2>1, Zenon
<1>9. DOMAIN own = {d} /\ own[d] = ArcTo(d, j)
  OBVIOUS
<1> HIDE DEF t, own
<1>10. /\ DOMAIN l.arcs = i .. (d - 1) /\ \A b \in i .. (d - 1) : l.arcs[b] = ArcTo(b, p[b])
  BY <1>2, Zenon DEF Arrows
<1>11. /\ DOMAIN r.arcs = (d + 1) .. (j - 1)
       /\ \A b \in (d + 1) .. (j - 1) : r.arcs[b] = ArcTo(b, q[b])
  BY <1>2, Zenon DEF Arrows
<1>12. Override(own, l.arcs) = [b \in {d} \cup (i .. (d - 1)) |-> IF b \in i .. (d - 1) THEN l.arcs[b] ELSE own[b]]
  BY <1>9, <1>10, Zenon DEF Override
<1>13. PICK m : m = Override(own, l.arcs)
  OBVIOUS
<1>14. /\ DOMAIN m = {d} \cup (i .. (d - 1))
       /\ \A b \in i .. (d - 1) : m[b] = ArcTo(b, p[b])
       /\ m[d] = ArcTo(d, j)
  <2>1. d \notin i .. (d - 1)
    BY <1>1
  <2> QED
    BY <1>9, <1>10, <1>12, <1>13, <2>1, Zenon
<1>15. Override(m, r.arcs) = [b \in i .. (j - 1) |-> IF b \in (d + 1) .. (j - 1) THEN r.arcs[b] ELSE m[b]]
  <2>1. ({d} \cup (i .. (d - 1))) \cup ((d + 1) .. (j - 1)) = i .. (j - 1)
    BY <1>1
  <2> QED
    BY <1>11, <1>14, <2>1, Zenon DEF Override
<1>16. ASSUME NEW b \in i .. (j - 1)
       PROVE  (IF b \in (d + 1) .. (j - 1) THEN r.arcs[b] ELSE m[b]) = ArcTo(b, h[b])
  <2>1. CASE b < d
    <3>1. b \in i .. (d - 1) /\ ~ (b \in (d + 1) .. (j - 1))
      BY <1>1, <2>1
    <3> QED
      BY <1>6, <1>14, <3>1, Zenon
  <2>2. CASE b = d
    <3>1. ~ (b \in (d + 1) .. (j - 1))
      BY <1>1, <2>2
    <3> QED
      BY <1>6, <1>14, <2>2, <3>1, Zenon
  <2>3. CASE b > d
    <3>1. b \in (d + 1) .. (j - 1)
      BY <1>1, <2>3
    <3> QED
      BY <1>6, <1>11, <3>1, Zenon
  <2> QED
    BY <1>1, <2>1, <2>2, <2>3
<1>17. Override(m, r.arcs) = Arrows(h, i, j)
  BY <1>15, <1>16, Zenon DEF Arrows
<1>18. MadeOf(l, r, t, FALSE).j = j
  BY <1>2 DEF MadeOf, Scored
<1>19. Stands(MadeOf(l, r, t, FALSE), h, i, j)
  BY <1>8, <1>13, <1>17, <1>18, Zenon DEF Stands
<1> QED
  BY <1>5, <1>19, Zenon DEF t

\* What a split joins.
LEMMA MadeOfDrawn ==
  ASSUME OptParaFix, NEW i \in Bnst, NEW d \in Bnst, NEW j \in Bnst, i <= d, d < j, j \in Allowed(d),
         NEW l \in SoundEntries(i, d), NEW r \in SoundEntries(d + 1, j)
  PROVE  MadeOf(l, r, TypeOf(d, j), FALSE).arcs \in Drawn(i, j)
<1>1. l.j = d /\ r.j = j /\ l.arcs \in Drawn(i, d) /\ r.arcs \in Drawn(d + 1, j)
  BY DEF SoundEntries, Entries
<1>2. PICK p \in TreesIn(i, d) : Stands(l, p, i, d)
  BY <1>1, Zenon DEF Drawn, Stands
<1>3. PICK q \in TreesIn(d + 1, j) : Stands(r, q, d + 1, j)
  BY <1>1, Zenon DEF Drawn, Stands
<1>4. PICK h : h = Glue(p, q, i, d, j)
  OBVIOUS
<1>5. h \in TreesIn(i, j)
  BY <1>4, TreesJoin, Zenon DEF Glue
<1>6. Stands(MadeOf(l, r, TypeOf(d, j), FALSE), h, i, j)
  BY <1>2, <1>3, <1>4, MadeOfArcs, Zenon
<1> QED
  BY <1>5, <1>6, Zenon DEF Drawn, Stands

\* A list over a set is one over a larger set.
LEMMA SeqGrows ==
  ASSUME NEW S, NEW T, S \subseteq T, NEW l \in Seq(S)
  PROVE  l \in Seq(T)
OBVIOUS

\* What stays between two steps of one attempt: a barrier changes at most to the
\* column in work, and not in the last one.
Goes ==
  /\ UNCHANGED <<opt, sent, Dpnd, para>>
  /\ \A d \in Bnst : dep_check'[d] = dep_check[d]
                       \/ (J < Last /\ (dep_check'[d] = 0 \/ dep_check'[d] >= J))

LEMMA SoundSteady ==
  ASSUME LoopInv, LoopInv', Goes, NEW i \in Bnst, NEW j \in Bnst, j <= J
  PROVE  /\ Drawn(i, j) \subseteq Drawn(i, j)'
         /\ SoundEntries(i, j) \subseteq SoundEntries(i, j)'
<1>1. j \in Nat /\ J \in Nat /\ J <= Last /\ Last \in Nat
  BY SplitBounds, PhraseBounds
<1>2. opt' = opt /\ sent' = sent /\ Dpnd' = Dpnd /\ para' = para
  BY DEF Goes
<1>3. ASSUME NEW d \in Bnst
      PROVE  dep_check'[d] = dep_check[d] \/ (j < Last /\ (dep_check'[d] = 0 \/ dep_check'[d] >= j))
  <2>1. dep_check'[d] \in -1 .. Last
    BY DEF LoopInv
  <2>2. dep_check'[d] = dep_check[d] \/ (J < Last /\ (dep_check'[d] = 0 \/ dep_check'[d] >= J))
    BY DEF Goes
  <2> QED
    BY <1>1, <2>1, <2>2
<1>4. Drawn(i, j) \subseteq Drawn(i, j)'
  BY <1>2, <1>3, ArcsSteady, Zenon
<1> QED
  BY <1>4, Zenon DEF SoundEntries, Entries

\* The cell in work gets a sound list, the cells before keep theirs.
LEMMA CellSound ==
  ASSUME LoopInv, LoopInv', ChartInv, FillSound, Goes, NEW new \in Seq(SoundEntries(I, J)),
         cky_matrix' = [cky_matrix EXCEPT ![cell] = new]
  PROVE  \A i, j \in Bnst :
           i <= j /\ (Filled(i, j) \/ (i = I /\ j = J)) => cky_matrix'[<<i, j>>] \in Seq(SoundEntries(i, j)')
<1>1. /\ I \in Bnst /\ J \in Bnst /\ I <= J /\ cell = <<I, J>> /\ J \in Nat /\ cell \in Cells
      /\ DOMAIN cky_matrix = Cells
  BY SplitBounds DEF LoopInv, ChartInv
<1>2. ASSUME NEW i \in Bnst, NEW j \in Bnst, i <= j, Filled(i, j) \/ (i = I /\ j = J)
      PROVE  cky_matrix'[<<i, j>>] \in Seq(SoundEntries(i, j)')
  <2>1. <<i, j>> \in Cells
    BY <1>2, CellBounds
  <2>2. j <= J
    BY <1>1, <1>2, PhraseBounds DEF Filled
  <2>3. SoundEntries(i, j) \subseteq SoundEntries(i, j)'
    BY <2>2, SoundSteady, Zenon
  <2>4. cky_matrix'[<<i, j>>] \in Seq(SoundEntries(i, j))
    <3>1. CASE i = I /\ j = J
      <4>1. cky_matrix'[<<i, j>>] = new
        BY <1>1, <3>1
      <4> QED
        BY <3>1, <4>1, Zenon
    <3>2. CASE ~ (i = I /\ j = J)
      <4>1. cky_matrix'[<<i, j>>] = cky_matrix[<<i, j>>]
        BY <1>1, <2>1, <3>2
      <4> QED
        BY <1>2, <3>2, <4>1, Zenon DEF FillSound
    <3> QED
      BY <3>1, <3>2
  <2> QED
    BY <2>3, <2>4, SeqGrows, Zenon
<1> QED
  BY <1>2, Zenon

\* When the loops go on, the cells written are those written before and the last one.
LEMMA AdvanceFills ==
  ASSUME LoopInv, Advance
  PROVE  /\ phase' = "fill" => \A i, j \in Bnst : i <= j /\ Filled(i, j)' => Filled(i, j) \/ (i = I /\ j = J)
         /\ phase' = "choose" => I = 0 /\ J = Last
<1>1. /\ I \in Bnst /\ J \in Bnst /\ I <= J /\ cell = <<I, J>> /\ I \in Nat /\ J \in Nat
      /\ J <= Last /\ Last \in Nat
  BY SplitBounds, PhraseBounds
<1>2. phase' = (IF cell = <<0, Last>> THEN "choose" ELSE "fill") /\ k' = 0
  BY DEF Advance
<1>3. phase' = "choose" => I = 0 /\ J = Last
  BY <1>1, <1>2
<1>4. ASSUME phase' = "fill", NEW i \in Bnst, NEW j \in Bnst, i <= j, Filled(i, j)'
      PROVE  Filled(i, j) \/ (i = I /\ j = J)
  <2>1. i \in Nat /\ j \in Nat
    BY PhraseBounds
  <2>2. j < J' \/ (j = J' /\ i > I')
    BY <1>2, <1>4 DEF Filled
  <2>3. CASE I > 0
    <3>1. I' = I - 1 /\ J' = J
      BY <2>3 DEF Advance, I, J
    <3> QED
      BY <1>1, <2>1, <2>2, <3>1 DEF Filled
  <2>4. CASE ~ (I > 0)
    <3>1. J < Last /\ I = 0
      BY <1>1, <1>2, <1>4, <2>4
    <3>2. I' = J + 1 /\ J' = J + 1
      BY <2>4, <3>1 DEF Advance, I, J
    <3> QED
      BY <1>1, <1>4, <2>1, <2>2, <3>1, <3>2 DEF Filled
  <2> QED
    BY <2>3, <2>4
<1> QED
  BY <1>3, <1>4, Zenon

\* So an action that ends a cell with a sound list keeps the chart sound.
LEMMA AdvanceSound ==
  ASSUME LoopInv, LoopInv', ChartInv, FillSound, NEW new \in Seq(SoundEntries(I, J)), Advance,
         cky_matrix' = [cky_matrix EXCEPT ![cell] = new],
         UNCHANGED <<opt, sent, Dpnd, para, dep_check>>
  PROVE  SoundInv'
<1>1. Goes
  BY DEF Goes
<1>2. /\ \A i, j \in Bnst : i <= j /\ (Filled(i, j) \/ (i = I /\ j = J))
                              => cky_matrix'[<<i, j>>] \in Seq(SoundEntries(i, j)')
  BY <1>1, CellSound, Zenon
<1>3. phase' \in {"fill", "choose"}
  BY DEF Advance
<1>4. CASE phase' = "fill"
  <2>1. FillSound'
    BY <1>2, <1>4, AdvanceFills, Zenon DEF FillSound
  <2> QED
    BY <1>4, <2>1 DEF SoundInv
<1>5. CASE phase' = "choose"
  <2>1. I = 0 /\ J = Last /\ 0 \in Bnst /\ Last \in Bnst /\ 0 <= Last
    BY <1>5, AdvanceFills, PhraseBounds
  <2>2. Analyses' \in Seq(SoundEntries(0, Last)')
    BY <1>2, <2>1, Zenon DEF Analyses
  <2> QED
    BY <1>5, <2>2 DEF SoundInv
<1> QED
  BY <1>3, <1>4, <1>5

LEMMA LeafSound ==
  ASSUME ScoresCompare, IInv, IInv', SoundInv, Leaf
  PROVE  SoundInv'
<1>1. InputInv /\ LoopInv /\ ChartInv /\ LoopInv'
  BY DEF IInv
<1>2. /\ phase = "fill" /\ I = J /\ Advance /\ opt' = opt
      /\ UNCHANGED <<opt, sent, Dpnd, para, dep_check>>
      /\ cky_matrix' = [cky_matrix EXCEPT ![cell] = <<>> \o <<LeafEntry(J)>>]
  BY DEF Leaf, Add
<1>3. CASE ~ OptParaFix
  BY <1>2, <1>3 DEF SoundInv, OptParaFix
<1>4. CASE OptParaFix
  <2>1. FillSound
    BY <1>2, <1>4 DEF SoundInv
  <2>2. LeafEntry(J) \in SoundEntries(I, J)
    BY <1>1, <1>2, SplitBounds, LeafDrawn, Zenon
  <2> DEFINE new == <<>> \o <<LeafEntry(J)>>
  <2>3. new \in Seq(SoundEntries(I, J))
    <3>1. <<LeafEntry(J)>> \in Seq(SoundEntries(I, J)) /\ <<>> \in Seq(SoundEntries(I, J))
      BY <2>2, ShortSeq, Zenon
    <3> QED
      BY <3>1, ConcatProperties, Zenon
  <2> HIDE DEF new
  <2>4. cky_matrix' = [cky_matrix EXCEPT ![cell] = new]
    BY <1>2 DEF new
  <2> QED
    BY <1>1, <1>2, <2>1, <2>3, <2>4, AdvanceSound, Zenon
<1> QED
  BY <1>3, <1>4

\* check_dpnd_possibility and the test of the barrier say together that the last
\* phrase of the cell is a head of the dependent.
LEMMA JoinAllowed ==
  ASSUME LoopInv, OptParaFix, k < J - I, SplitType # NoDpnd, NEW r, Joins(r)
  PROVE  SplitType = TypeOf(Dep, J) /\ J \in Allowed(Dep)
<1>1. SplitType = TypeOf(Dep, J)
  BY Zenon DEF SplitType, TypeOf, Possibility
<1>2. /\ Dep \in Bnst /\ Dep + 1 <= J /\ Dep \in Nat /\ J \in Nat /\ J <= Last /\ Last \in Nat
  BY SplitBounds, PhraseBounds
<1>3. J \in (Dep + 1) .. Last
  BY <1>2
<1>4. SplitType = "P" \/ dep_check[Dep] <= 0 \/ dep_check[Dep] >= J
  <2>1. dep_check[Dep] \in -1 .. Last
    BY <1>2 DEF LoopInv
  <2>2. SplitType = "P" \/ ~ (dep_check[Dep] > 0 /\ dep_check[Dep] < J)
    BY Zenon DEF Joins, Barred
  <2> QED
    BY <1>2, <2>1, <2>2
<1> QED
  BY <1>1, <1>3, <1>4, AllowedIs, Zenon

\* A split adds trees to the cell in work.
LEMMA MergedSound ==
  ASSUME ScoresCompare, InputInv, LoopInv, ChartInv, OptParaFix, FillSound, k < J - I
  PROVE  Merged \in Seq(SoundEntries(I, J))
<1>1. /\ I \in Bnst /\ J \in Bnst /\ Dep \in Bnst /\ Dep + 1 \in Bnst
      /\ I <= Dep /\ Dep + 1 <= J /\ I \in Nat /\ J \in Nat /\ Dep \in Nat
  BY SplitBounds
<1>2. I < Dep + 1 /\ Dep < J /\ Dep <= J
  BY <1>1
<1>3. Filled(I, Dep) /\ Filled(Dep + 1, J)
  BY <1>1, <1>2, Zenon DEF Filled
<1>4. /\ cky_matrix[<<I, Dep>>] \in Seq(SoundEntries(I, Dep))
      /\ cky_matrix[<<Dep + 1, J>>] \in Seq(SoundEntries(Dep + 1, J))
  BY <1>1, <1>3, Zenon DEF FillSound
<1>5. Lefts \in Seq(SoundEntries(I, Dep)) /\ Rights \in Seq(SoundEntries(Dep + 1, J))
  BY <1>4, PartsOver, Zenon
<1>6. ASSUME SplitType # NoDpnd, NEW l \in SoundEntries(I, Dep), NEW r \in SoundEntries(Dep + 1, J),
             Joins(r)
      PROVE  MadeOf(l, r, SplitType, FALSE) \in SoundEntries(I, J)
  <2>1. SplitType \in DpndTypes
    BY <1>6, SplitTypeIn
  <2>2. SplitType = TypeOf(Dep, J) /\ J \in Allowed(Dep)
    BY <1>6, JoinAllowed, Zenon
  <2>3. MadeOf(l, r, SplitType, FALSE).arcs \in Drawn(I, J)
    BY <1>1, <1>2, <2>2, MadeOfDrawn, Zenon
  <2>4. l \in Entries(I, Dep) /\ r \in Entries(Dep + 1, J)
    BY Zenon DEF SoundEntries
  <2>5. MadeOf(l, r, SplitType, FALSE) \in Entries(I, J)
    BY <1>1, <1>2, <2>1, <2>4, MadeOfIn
  <2> QED
    BY <2>3, <2>5, Zenon DEF SoundEntries
<1> QED
  BY <1>5, <1>6, MergedOver, Zenon

LEMMA MergeSound ==
  ASSUME ScoresCompare, IInv, IInv', SoundInv, Merge
  PROVE  SoundInv'
<1> DEFINE old == IF k = 0 THEN <<>> ELSE cky_matrix[cell]
<1>1. InputInv /\ LoopInv /\ ChartInv /\ LoopInv'
  BY DEF IInv
<1>2. /\ phase = "fill" /\ phase' = phase /\ k < J - I /\ k' = k + 1 /\ cell' = cell
      /\ UNCHANGED <<opt, sent, Dpnd, para>>
      /\ cky_matrix' = [cky_matrix EXCEPT ![cell] = old \o Merged]
      /\ dep_check' = IF Merged = <<>> THEN dep_check ELSE [dep_check EXCEPT ![Dep] = BarrierAfter]
  BY DEF Merge, Add
<1>3. CASE ~ OptParaFix
  BY <1>2, <1>3 DEF SoundInv, OptParaFix
<1>4. CASE OptParaFix
  <2>1. FillSound
    BY <1>2, <1>4 DEF SoundInv
  <2>2. /\ I \in Bnst /\ J \in Bnst /\ I <= J /\ cell = <<I, J>> /\ J \in Nat /\ I \in Nat /\ k \in Nat
        /\ J <= Last /\ Last \in Nat /\ Dep \in Bnst
    BY <1>1, <1>2, SplitBounds, PhraseBounds
  <2>3. Merged \in Seq(SoundEntries(I, J))
    BY <1>1, <1>2, <1>4, <2>1, MergedSound, Zenon
  <2>4. old \in Seq(SoundEntries(I, J))
    <3>1. <<>> \in Seq(SoundEntries(I, J))
      OBVIOUS
    <3>2. k # 0 => Filled(I, J)
      BY <2>2 DEF Filled
    <3>3. k # 0 => cky_matrix[cell] \in Seq(SoundEntries(I, J))
      BY <2>1, <2>2, <3>2, Zenon DEF FillSound
    <3> QED
      BY <3>1, <3>3, Zenon
  <2> DEFINE new == old \o Merged
  <2> HIDE DEF old
  <2>5. new \in Seq(SoundEntries(I, J))
    BY <2>3, <2>4, ConcatProperties, Zenon
  <2> HIDE DEF new
  <2>6. cky_matrix' = [cky_matrix EXCEPT ![cell] = new]
    BY <1>2 DEF new
  <2>7. Goes
    <3>1. dep_check \in [Bnst -> -1 .. Last]
      BY <1>1 DEF LoopInv
    <3>2. BarrierAfter = dep_check[Dep] \/ (J < Last /\ (BarrierAfter = 0 \/ BarrierAfter = J))
      <4>1. BarrierAfter \in {dep_check[Dep], 0, J} /\ (J = Last => BarrierAfter = dep_check[Dep])
        BY Zenon DEF BarrierAfter
      <4> QED
        BY <2>2, <4>1
    <3>3. ASSUME NEW d \in Bnst
          PROVE  dep_check'[d] = dep_check[d] \/ (J < Last /\ (dep_check'[d] = 0 \/ dep_check'[d] >= J))
      <4>1. dep_check'[d] = dep_check[d] \/ (d = Dep /\ dep_check'[d] = BarrierAfter)
        BY <1>2, <3>1
      <4> QED
        BY <2>2, <3>2, <4>1
    <3> QED
      BY <1>2, <3>3 DEF Goes
  <2>8. \A i, j \in Bnst : i <= j /\ (Filled(i, j) \/ (i = I /\ j = J))
                             => cky_matrix'[<<i, j>>] \in Seq(SoundEntries(i, j)')
    BY <1>1, <2>1, <2>5, <2>6, <2>7, CellSound, Zenon
  <2>9. \A i, j \in Bnst : Filled(i, j)' => Filled(i, j) \/ (i = I /\ j = J)
    <3>1. I' = I /\ J' = J
      BY <1>2 DEF I, J
    <3> QED
      BY <3>1, Zenon DEF Filled
  <2>10. FillSound'
    BY <2>8, <2>9, Zenon DEF FillSound
  <2> QED
    BY <1>2, <2>10 DEF SoundInv
<1> QED
  BY <1>3, <1>4

LEMMA CloseCellSound ==
  ASSUME IInv, IInv', SoundInv, CloseCell
  PROVE  SoundInv'
<1>1. InputInv /\ LoopInv /\ ChartInv /\ LoopInv'
  BY DEF IInv
<1>2. /\ phase = "fill" /\ I < J /\ k = (IF OptParaFix THEN J - I ELSE J - I + 1) /\ Advance
      /\ UNCHANGED <<opt, sent, Dpnd, para, dep_check>>
      /\ cky_matrix' = [cky_matrix EXCEPT ![cell] = Pruned(cky_matrix[cell])]
  BY DEF CloseCell
<1>3. CASE ~ OptParaFix
  BY <1>2, <1>3 DEF SoundInv, OptParaFix
<1>4. CASE OptParaFix
  <2>1. FillSound
    BY <1>2, <1>4 DEF SoundInv
  <2>2. /\ I \in Bnst /\ J \in Bnst /\ I <= J /\ cell = <<I, J>> /\ J \in Nat /\ I \in Nat
    BY <1>1, SplitBounds
  <2>3. Filled(I, J)
    BY <1>2, <1>4, <2>2 DEF Filled
  <2>4. cky_matrix[cell] \in Seq(SoundEntries(I, J))
    BY <2>1, <2>2, <2>3, Zenon DEF FillSound
  <2>5. \A e \in SoundEntries(I, J) : e.score \in Int
    BY DEF SoundEntries, Entries
  <2>6. Pruned(cky_matrix[cell]) \in Seq(SoundEntries(I, J))
    BY <1>1, <2>4, <2>5, PrunedIn, Zenon
  <2> QED
    BY <1>1, <1>2, <2>1, <2>6, AdvanceSound, Zenon
<1> QED
  BY <1>3, <1>4
-----------------------------------------------------------------------------
(* What is chosen and handed on                                            *)

\* From here on neither the matrices nor the barriers change.
LEMMA TopSteady ==
  ASSUME LoopInv, LoopInv', UNCHANGED <<opt, sent, Dpnd, para, dep_check>>
  PROVE  /\ Drawn(0, Last) \subseteq Drawn(0, Last)'
         /\ SoundEntries(0, Last) \subseteq SoundEntries(0, Last)'
<1>1. 0 \in Bnst /\ Last \in Bnst
  BY PhraseBounds
<1>2. Drawn(0, Last) \subseteq Drawn(0, Last)'
  BY <1>1, ArcsSteady, Zenon
<1> QED
  BY <1>2, Zenon DEF SoundEntries, Entries

LEMMA BestSteady ==
  ASSUME LoopInv, LoopInv', UNCHANGED <<opt, sent, Dpnd, para, dep_check>>, best' = best
  PROVE  BestDrawn => BestDrawn'
BY TopSteady, Zenon DEF BestDrawn

LEMMA ChooseSound ==
  ASSUME IInv, IInv', SoundInv, Choose
  PROVE  SoundInv'
<1>1. LoopInv /\ LoopInv'
  BY DEF IInv
<1>2. phase = "choose" /\ phase' = "after" /\ UNCHANGED <<opt, sent, Dpnd, para, dep_check>>
  BY DEF Choose, chart
<1>3. CASE ~ OptParaFix
  BY <1>2, <1>3 DEF SoundInv, OptParaFix
<1>4. CASE OptParaFix
  <2>1. Analyses \in Seq(SoundEntries(0, Last))
    BY <1>2, <1>4 DEF SoundInv
  <2>2. \A e \in SoundEntries(0, Last) : e.score \in Int
    BY DEF SoundEntries, Entries
  <2>3. structures' \in Seq(SoundEntries(0, Last)) /\ structures' # <<>>
    BY <2>1, <2>2, ChosenOver, Zenon
  <2>4. structures' \in Seq(SoundEntries(0, Last)')
    BY <1>1, <1>2, <2>3, TopSteady, SeqGrows, Zenon
  <2> QED
    BY <1>2, <2>3, <2>4 DEF SoundInv
<1> QED
  BY <1>3, <1>4

LEMMA ConvertSound ==
  ASSUME IInv, IInv', SoundInv, Convert
  PROVE  SoundInv'
<1>1. LoopInv /\ LoopInv' /\ ResultInv
  BY DEF IInv
<1>2. /\ phase = "after" /\ phase' = "after" /\ UNCHANGED <<opt, sent, Dpnd, para, dep_check>>
      /\ structures # <<>> /\ structures' = Tail(structures) /\ best' = BestAfter(structures[1])
  BY DEF Convert, chart
<1>3. CASE ~ OptParaFix
  BY <1>2, <1>3 DEF SoundInv, OptParaFix
<1>4. CASE OptParaFix
  <2>1. structures \in Seq(SoundEntries(0, Last))
    BY <1>2, <1>4 DEF SoundInv
  <2>2. structures[1] \in SoundEntries(0, Last) /\ structures' \in Seq(SoundEntries(0, Last))
    BY <1>2, <2>1
  <2>3. structures' \in Seq(SoundEntries(0, Last)')
    BY <1>1, <1>2, <2>2, TopSteady, SeqGrows, Zenon
  <2>4. PICK e \in Entries(0, Last) : e = structures[1] /\ e.arcs \in Drawn(0, Last)
    BY <2>2, Zenon DEF SoundEntries
  <2>5. /\ e.arcs \in Drawn(0, Last)'
        /\ \A b \in 0 .. (Last - 1) : /\ best'.type[b] = e.arcs[b].type
                                      /\ e.arcs[b].to >= 0 => best'.head[b] = e.arcs[b].to
    <3>1. \A b \in 0 .. (Last - 1) : /\ BestAfter(e).type[b] = e.arcs[b].type
                                     /\ e.arcs[b].to >= 0 => BestAfter(e).head[b] = e.arcs[b].to
      BY <1>1, BestAfterRight, Zenon
    <3>2. best' = BestAfter(e)
      BY <1>2, <2>4, Zenon
    <3>3. e.arcs \in Drawn(0, Last)'
      BY <1>1, <1>2, <2>4, TopSteady, Zenon
    <3> QED
      BY <3>1, <3>2, <3>3, Zenon
  <2>6. BestDrawn'
    BY <2>5, Zenon DEF BestDrawn
  <2> QED
    BY <1>2, <2>3, <2>6 DEF SoundInv
<1> QED
  BY <1>3, <1>4

\* The other steps: the beginning of an attempt, its failure, and the end.
LEMMA RestSound ==
  ASSUME IInv, IInv', SoundInv,
         Begin \/ Coordinate \/ TableFull \/ NoAnalysis \/ Finish \/ Retry \/ GiveUp
  PROVE  SoundInv'
<1>1. LoopInv /\ LoopInv'
  BY DEF IInv
<1>2. CASE Begin
  <2>1. phase' = "fill" /\ cell' = <<0, 0>> /\ k' = 0
    BY <1>2 DEF Begin
  <2>2. I' = 0 /\ J' = 0
    BY <2>1 DEF I, J
  <2>3. \A i, j \in Bnst : i <= j => ~ Filled(i, j)'
    BY <2>1, <2>2, PhraseBounds DEF Filled
  <2>4. FillSound'
    BY <2>3, Zenon DEF FillSound
  <2> QED
    BY <2>1, <2>4 DEF SoundInv
<1>3. CASE Coordinate
  <2>1. ~ OptParaFix /\ opt' = opt
    BY <1>3 DEF Coordinate, Add
  <2> QED
    BY <2>1, Zenon DEF SoundInv, OptParaFix
<1>4. CASE TableFull \/ NoAnalysis
  <2>1. phase' = "failed"
    BY <1>4 DEF TableFull, NoAnalysis
  <2> QED
    BY <2>1 DEF SoundInv
<1>5. CASE Finish
  <2>1. /\ phase = "after" /\ structures = <<>> /\ phase' = "done" /\ best' = best
        /\ UNCHANGED <<opt, sent, Dpnd, para, dep_check>>
    BY <1>5 DEF Finish, Printed, chart
  <2>2. OptParaFix' => BestDrawn
    BY <2>1 DEF SoundInv, OptParaFix
  <2>3. OptParaFix' => BestDrawn'
    BY <1>1, <2>1, <2>2, BestSteady, Zenon
  <2> QED
    BY <2>1, <2>3 DEF SoundInv
<1>6. CASE Retry
  <2>1. phase' = "start"
    BY <1>6 DEF Retry
  <2> QED
    BY <2>1 DEF SoundInv
<1>7. CASE GiveUp
  <2>1. phase' = "done" /\ best' = NeighbourHeads /\ NeighbourHeads' = NeighbourHeads
    BY <1>7 DEF GiveUp, Printed, NeighbourHeads
  <2> QED
    BY <2>1 DEF SoundInv
<1> QED
  BY <1>2, <1>3, <1>4, <1>5, <1>6, <1>7

LEMMA IdleSound ==
  ASSUME IInv, IInv', SoundInv, UNCHANGED vars
  PROVE  SoundInv'
<1>1. /\ opt' = opt /\ sent' = sent /\ Dpnd' = Dpnd /\ para' = para /\ dep_check' = dep_check
      /\ cell' = cell /\ k' = k /\ cky_matrix' = cky_matrix /\ structures' = structures
      /\ best' = best /\ phase' = phase
  BY DEF vars, chart
<1>2. LoopInv /\ LoopInv'
  BY DEF IInv
<1>3. I' = I /\ J' = J
  BY <1>1 DEF I, J
<1>4. Goes
  BY <1>1 DEF Goes
<1>5. FillSound => FillSound'
  <2>1. \A i, j \in Bnst : Filled(i, j)' <=> Filled(i, j)
    BY <1>1, <1>3, Zenon DEF Filled
  <2>2. ASSUME FillSound, NEW i \in Bnst, NEW j \in Bnst, i <= j, Filled(i, j)
        PROVE  cky_matrix[<<i, j>>] \in Seq(SoundEntries(i, j)')
    <3>1. j <= J
      BY <1>2, <2>2, SplitBounds, PhraseBounds DEF Filled
    <3>2. SoundEntries(i, j) \subseteq SoundEntries(i, j)'
      BY <1>2, <1>4, <3>1, SoundSteady, Zenon
    <3>3. cky_matrix[<<i, j>>] \in Seq(SoundEntries(i, j))
      BY <2>2, Zenon DEF FillSound
    <3> QED
      BY <3>2, <3>3, SeqGrows, Zenon
  <2> QED
    BY <1>1, <2>1, <2>2, Zenon DEF FillSound
<1>6. SoundEntries(0, Last) \subseteq SoundEntries(0, Last)'
  BY <1>1, <1>2, TopSteady, Zenon
<1>7. /\ Analyses \in Seq(SoundEntries(0, Last)) => Analyses' \in Seq(SoundEntries(0, Last)')
      /\ structures \in Seq(SoundEntries(0, Last)) => structures' \in Seq(SoundEntries(0, Last)')
  <2>1. Analyses' = Analyses
    BY <1>1 DEF Analyses
  <2> QED
    BY <1>1, <1>6, <2>1, SeqGrows, Zenon
<1>8. (best = NeighbourHeads \/ BestDrawn => best' = NeighbourHeads \/ BestDrawn') /\ (BestDrawn => BestDrawn')
  BY <1>1, <1>2, BestSteady, Zenon
<1>9. OptParaFix' <=> OptParaFix
  BY <1>1 DEF OptParaFix
<1> QED
  BY <1>1, <1>5, <1>7, <1>8, <1>9, Zenon DEF SoundInv, NeighbourHeads

LEMMA SoundStep ==
  ASSUME ScoresCompare
  PROVE  IInv /\ IInv' /\ SoundInv /\ [Next]_vars => SoundInv'
BY LeafSound, MergeSound, CloseCellSound, ChooseSound, ConvertSound, RestSound, IdleSound, Zenon
   DEF Next, Step, Done

\* The arcs of the entries are those of Trees.
LEMMA DrawnTrees ==
  ASSUME NEW a \in Drawn(0, Last)
  PROVE  \E h \in Trees : a = EntryFor(h).arcs
<1>1. PICK h \in TreesIn(0, Last) : a = Arrows(h, 0, Last)
  BY Zenon DEF Drawn
<1>2. /\ h \in [0 .. (Last - 1) -> 0 .. Last]
      /\ \A d \in 0 .. (Last - 1) : h[d] \in Allowed(d)
      /\ \A b, c \in 0 .. (Last - 1) : ~ Crossing(h, b, c)
  BY <1>1, Zenon DEF TreesIn
<1>3. 0 .. Last = Bnst /\ DOMAIN h = 0 .. (Last - 1)
  BY <1>2 DEF Bnst, Last
<1>4. h \in Trees
  BY <1>2, <1>3, Zenon DEF Trees
<1>5. EntryFor(h).arcs = Arrows(h, 0, Last)
  <2>1. EntryFor(h).arcs =
          [d \in DOMAIN h |->
             LET type == Possibility(d, h[d], 0, h[d] = Last /\ dep_check[d] = -1)
             IN  IF type # "P" /\ sent.follow[d] # 0 THEN [to |-> sent.follow[d], type |-> "D"]
                 ELSE [to |-> h[d], type |-> type]]
    BY DEF EntryFor
  <2> QED
    BY <1>3, <2>1, Zenon DEF Arrows, ArcTo, TypeOf
<1> QED
  BY <1>1, <1>4, <1>5, Zenon

\* No analysis that is not one: with coordinations fixed before, every entry cky
\* leaves for the whole sentence is a tree without crossing arcs each of which
\* check_dpnd_possibility and the barriers allow, although a barrier set late in
\* dep_check must not take back what an earlier cell was built on; and after_cky
\* hands on such a tree, unless when_no_dpnd_struct has stepped in.
THEOREM ChartSoundAlways ==
  ASSUME ScoresCompare
  PROVE  Spec => []ChartSound
<1>1. Init => SoundInv
  BY DEF Init, SoundInv
<1>2. IInv /\ IInv' /\ SoundInv /\ [Next]_vars => SoundInv'
  BY SoundStep
<1>3. SoundInv => ChartSound
  <2>1. ASSUME SoundInv, OptParaFix, phase = "choose", NEW n \in DOMAIN Analyses
        PROVE  \E h \in Trees : Analyses[n].arcs = EntryFor(h).arcs
    <3>1. Analyses \in Seq(SoundEntries(0, Last))
      BY <2>1 DEF SoundInv
    <3>2. Analyses[n] \in SoundEntries(0, Last)
      BY <2>1, <3>1
    <3>3. Analyses[n].arcs \in Drawn(0, Last)
      BY <3>2, Zenon DEF SoundEntries
    <3> QED
      BY <3>3, DrawnTrees, Zenon
  <2>2. ASSUME SoundInv, OptParaFix, phase = "done"
        PROVE  \/ best = NeighbourHeads
               \/ \E h \in Trees : \A d \in 0 .. (Last - 1) :
                    /\ best.type[d] = EntryFor(h).arcs[d].type
                    /\ EntryFor(h).arcs[d].to >= 0 => best.head[d] = EntryFor(h).arcs[d].to
    <3>1. best = NeighbourHeads \/ BestDrawn
      BY <2>2 DEF SoundInv
    <3> QED
      BY <3>1, DrawnTrees, Zenon DEF BestDrawn
  <2> QED
    BY <2>1, <2>2, Zenon DEF ChartSound
<1> QED
  BY <1>1, <1>2, <1>3, Invariant, PTL DEF Spec
-----------------------------------------------------------------------------
(* Lists that hold each tree of a set once                                 *)

\* Entry n of the list has the arcs C gives to tree f[n]; no tree of X is missing,
\* none is met twice.
Numbers(f, l, X, C) ==
  /\ f \in [1 .. Len(l) -> X]
  /\ \A n \in 1 .. Len(l) : l[n].arcs = C[f[n]]
  /\ \A h \in X : \E n \in 1 .. Len(l) : f[n] = h
  /\ \A m, n \in 1 .. Len(l) : f[m] = f[n] => m = n

Lists(l, X, C) == \E f : Numbers(f, l, X, C)

\* No trees, no entries.
LEMMA ListsNone ==
  ASSUME NEW C
  PROVE  Lists(<<>>, {}, C)
<1>1. Len(<<>>) = 0 /\ 1 .. 0 = {}
  OBVIOUS
<1>2. PICK f : f = [n \in {} |-> n]
  OBVIOUS
<1>3. f \in [{} -> {}]
  BY <1>2
<1>4. Numbers(f, <<>>, {}, C)
  BY <1>1, <1>3 DEF Numbers
<1> QED
  BY <1>4, Zenon DEF Lists

\* One entry for one tree.
LEMMA ListsOne ==
  ASSUME NEW C, NEW e, NEW h, e.arcs = C[h]
  PROVE  Lists(<<e>>, {h}, C)
<1>1. Len(<<e>>) = 1 /\ 1 .. 1 = {1} /\ <<e>>[1] = e
  OBVIOUS
<1>2. PICK f : f = [n \in {1} |-> h]
  OBVIOUS
<1>3. f \in [{1} -> {h}] /\ f[1] = h
  BY <1>2
<1>4. PICK l : l = <<e>>
  OBVIOUS
<1>5. Len(l) = 1 /\ l[1] = e
  BY <1>1, <1>4
<1>6. Numbers(f, l, {h}, C)
  <2>1. f \in [1 .. Len(l) -> {h}]
    BY <1>1, <1>3, <1>5, Zenon
  <2>2. \A n \in 1 .. Len(l) : n = 1
    BY <1>1, <1>5
  <2>3. 1 \in 1 .. Len(l)
    BY <1>5
  <2> QED
    BY <1>3, <1>5, <2>1, <2>2, <2>3, Zenon DEF Numbers
<1> QED
  BY <1>4, <1>6, Zenon DEF Lists

\* Two lists one after the other hold what each of them holds.
LEMMA ListsJoin ==
  ASSUME NEW S, NEW l \in Seq(S), NEW r \in Seq(S), NEW X, NEW Y, X \cap Y = {}, NEW C,
         Lists(l, X, C), Lists(r, Y, C)
  PROVE  Lists(l \o r, X \cup Y, C)
<1> DEFINE a == Len(l)
           b == Len(r)
<1>1. a \in Nat /\ b \in Nat
  OBVIOUS
<1>2. PICK f : Numbers(f, l, X, C)
  BY Zenon DEF Lists
<1>3. PICK g : Numbers(g, r, Y, C)
  BY Zenon DEF Lists
<1>4. PICK w \in Seq(S) : w = l \o r
  BY ConcatProperties
<1>5. /\ Len(w) = a + b
      /\ \A n \in 1 .. a : w[n] = l[n]
      /\ \A n \in 1 .. b : w[a + n] = r[n]
  <2>1. \A n \in 1 .. (a + b) : w[n] = IF n <= a THEN l[n] ELSE r[n - a]
    BY <1>4, ConcatProperties, Zenon
  <2>2. Len(w) = a + b
    BY <1>4, ConcatProperties, Zenon
  <2>3. \A n \in 1 .. a : n \in 1 .. (a + b) /\ n <= a
    BY <1>1
  <2>4. \A n \in 1 .. b : a + n \in 1 .. (a + b) /\ ~ (a + n <= a) /\ (a + n) - a = n
    BY <1>1
  <2> QED
    BY <2>1, <2>2, <2>3, <2>4, Zenon
<1> DEFINE h == [n \in 1 .. (a + b) |-> IF n <= a THEN f[n] ELSE g[n - a]]
<1>6. /\ \A n \in 1 .. a : h[n] = f[n] /\ n \in 1 .. (a + b)
      /\ \A n \in 1 .. b : h[a + n] = g[n] /\ a + n \in 1 .. (a + b)
  <2>1. \A n \in 1 .. a : n \in 1 .. (a + b) /\ n <= a
    BY <1>1
  <2>2. \A n \in 1 .. b : a + n \in 1 .. (a + b) /\ ~ (a + n <= a) /\ (a + n) - a = n
    BY <1>1
  <2> QED
    BY <2>1, <2>2, Zenon
<1>7. \A n \in 1 .. (a + b) : n \in 1 .. a \/ \E m \in 1 .. b : n = a + m
  <2>1. ASSUME NEW n \in 1 .. (a + b), n \notin 1 .. a
        PROVE  \E m \in 1 .. b : n = a + m
    <3>1. n - a \in 1 .. b /\ n = a + (n - a)
      BY <1>1, <2>1
    <3> QED
      BY <3>1, Zenon
  <2> QED
    BY <2>1, Zenon
<1>8. h = [n \in 1 .. (a + b) |-> h[n]]
  OBVIOUS
<1>9. /\ \A n \in 1 .. a : f[n] \in X /\ l[n].arcs = C[f[n]]
      /\ \A n \in 1 .. b : g[n] \in Y /\ r[n].arcs = C[g[n]]
  BY <1>2, <1>3, Zenon DEF Numbers
<1> HIDE DEF h, a, b
<1>10. \A n \in 1 .. (a + b) : h[n] \in X \cup Y /\ w[n].arcs = C[h[n]]
  <2>1. ASSUME NEW n \in 1 .. a
        PROVE  h[n] \in X \cup Y /\ w[n].arcs = C[h[n]]
    <3>1. w[n] = l[n] /\ h[n] = f[n] /\ f[n] \in X /\ l[n].arcs = C[f[n]]
      BY <1>5, <1>6, <1>9, Zenon
    <3> QED
      BY <3>1
  <2>2. ASSUME NEW n \in 1 .. b
        PROVE  h[a + n] \in X \cup Y /\ w[a + n].arcs = C[h[a + n]]
    <3>1. w[a + n] = r[n] /\ h[a + n] = g[n] /\ g[n] \in Y /\ r[n].arcs = C[g[n]]
      BY <1>5, <1>6, <1>9, Zenon
    <3> QED
      BY <3>1
  <2> QED
    BY <1>7, <2>1, <2>2, Zenon
<1>11. h \in [1 .. (a + b) -> X \cup Y]
  BY <1>8, <1>10, Zenon
<1>12. ASSUME NEW x \in X \cup Y
       PROVE  \E n \in 1 .. (a + b) : h[n] = x
  <2>1. CASE x \in X
    <3>1. PICK n \in 1 .. a : f[n] = x
      BY <1>2, <2>1, Zenon DEF Numbers, a
    <3> QED
      BY <1>6, <3>1, Zenon
  <2>2. CASE x \in Y
    <3>1. PICK n \in 1 .. b : g[n] = x
      BY <1>3, <2>2, Zenon DEF Numbers, b
    <3> QED
      BY <1>6, <3>1, Zenon
  <2> QED
    BY <2>1, <2>2
<1>13. ASSUME NEW m \in 1 .. (a + b), NEW n \in 1 .. (a + b), h[m] = h[n]
       PROVE  m = n
  <2>1. /\ \A x, y \in 1 .. a : f[x] = f[y] => x = y
        /\ \A x, y \in 1 .. b : g[x] = g[y] => x = y
    BY <1>2, <1>3, Zenon DEF Numbers, a, b
  <2>2. \A x \in 1 .. a, y \in 1 .. b : f[x] # g[y]
    BY <1>9, Zenon
  <2>3. /\ \A x, y \in 1 .. a : h[x] = h[y] => x = y
        /\ \A x, y \in 1 .. b : h[a + x] = h[a + y] => x = y
        /\ \A x \in 1 .. a, y \in 1 .. b : h[x] # h[a + y]
    <3>1. \A x, y \in 1 .. a : h[x] = h[y] => x = y
      BY <1>6, <2>1
    <3>2. \A x, y \in 1 .. b : h[a + x] = h[a + y] => x = y
      BY <1>6, <2>1
    <3>3. \A x \in 1 .. a, y \in 1 .. b : h[x] # h[a + y]
      BY <1>6, <2>2
    <3> QED
      BY <3>1, <3>2, <3>3, Zenon
  <2>4. CASE m \in 1 .. a
    <3>1. n \in 1 .. a
      <4>1. ASSUME NEW y \in 1 .. b, n = a + y
            PROVE  FALSE
        BY <1>13, <2>3, <2>4, <4>1
      <4> QED
        BY <1>7, <4>1, Zenon
    <3> QED
      BY <1>13, <2>3, <2>4, <3>1, Zenon
  <2>5. CASE m \notin 1 .. a
    <3>1. PICK x \in 1 .. b : m = a + x
      BY <1>7, <2>5, Zenon
    <3>2. n \notin 1 .. a
      BY <1>13, <2>3, <3>1
    <3>3. PICK y \in 1 .. b : n = a + y
      BY <1>7, <3>2, Zenon
    <3>4. x = y
      BY <1>13, <2>3, <3>1, <3>3
    <3> QED
      BY <3>1, <3>3, <3>4
  <2> QED
    BY <2>4, <2>5, Zenon
<1>14. Numbers(h, w, X \cup Y, C)
  BY <1>5, <1>10, <1>11, <1>12, <1>13, Zenon DEF Numbers
<1> QED
  BY <1>4, <1>14, Zenon DEF Lists

\* The same list for the same trees.
LEMMA ListsAs ==
  ASSUME NEW l, NEW X, NEW C, NEW D, \A h \in X : C[h] = D[h], Lists(l, X, C)
  PROVE  Lists(l, X, D)
<1>1. PICK f : Numbers(f, l, X, C)
  BY Zenon DEF Lists
<1>2. \A n \in 1 .. Len(l) : f[n] \in X
  BY <1>1, Zenon DEF Numbers
<1>3. Numbers(f, l, X, D)
  BY <1>1, <1>2, Zenon DEF Numbers
<1> QED
  BY <1>3, Zenon DEF Lists

\* So do lists joined by FlattenSeq, if none holds a tree of another one.
LEMMA ListsFlatten ==
  ASSUME NEW S, NEW m \in Nat, NEW s \in [1 .. m -> Seq(S)], NEW C, NEW H,
         \A n \in 1 .. m : Lists(s[n], H[n], C),
         \A x, y \in 1 .. m : x # y => H[x] \cap H[y] = {}
  PROVE  Lists(SE!FlattenSeq(s), UNION {H[n] : n \in 1 .. m}, C)
<1>1. CASE m = 0
  <2>1. SE!FlattenSeq(s) = <<>>
    BY <1>1, FlattenJoins, Zenon
  <2>2. 1 .. m = {}
    BY <1>1
  <2>3. UNION {H[n] : n \in 1 .. m} = {}
    BY <2>2
  <2> QED
    BY <2>1, <2>3, ListsNone
<1>2. CASE m # 0
  <2>1. PICK f : f[m] = SE!FlattenSeq(s) /\ Joining(s, m, S, f)
    BY <1>2, FlattenJoins, Zenon
  <2> DEFINE U(n) == UNION {H[x] : x \in 1 .. n}
             Q == {n \in Nat : n <= m => f[n] \in Seq(S) /\ Lists(f[n], U(n), C)}
  <2>2. 1 \in 1 .. m /\ m \in 1 .. m
    BY <1>2
  <2>3. 1 \in Q
    <3>1. f[1] \in Seq(S) /\ f[1] = s[1]
      BY <2>1, <2>2, Zenon DEF Joining
    <3>2. 1 .. 1 = {1}
      OBVIOUS
    <3>3. U(1) = H[1]
      BY <3>2
    <3>4. Lists(s[1], H[1], C)
      BY <2>2, Zenon
    <3> HIDE DEF U
    <3> QED
      BY <3>1, <3>3, <3>4
  <2>4. ASSUME NEW n \in (1 + 1) .. m, n - 1 \in Q
        PROVE  n \in Q
    <3>1. n \in 1 .. m /\ n # 1 /\ n \in Nat /\ n - 1 <= m
      OBVIOUS
    <3>2. f[n - 1] \in Seq(S) /\ Lists(f[n - 1], U(n - 1), C)
      <4> HIDE DEF U
      <4> QED
        BY <2>4, <3>1
    <3>3. f[n] \in Seq(S) /\ f[n] = f[n - 1] \o s[n] /\ s[n] \in Seq(S)
      BY <2>1, <3>1, Zenon DEF Joining
    <3>4. U(n) = U(n - 1) \cup H[n]
      <4>1. 1 .. n = (1 .. (n - 1)) \cup {n}
        BY <3>1
      <4> QED
        BY <4>1, Zenon
    <3>5. U(n - 1) \cap H[n] = {}
      <4>1. \A x \in 1 .. (n - 1) : x \in 1 .. m /\ x # n
        BY <3>1
      <4>2. \A x \in 1 .. (n - 1) : H[x] \cap H[n] = {}
        BY <3>1, <4>1, Zenon
      <4> QED
        BY <4>2
    <3>6. Lists(s[n], H[n], C)
      BY <3>1, Zenon
    <3> HIDE DEF U
    <3>7. Lists(f[n - 1] \o s[n], U(n - 1) \cup H[n], C)
      BY <3>2, <3>3, <3>5, <3>6, ListsJoin, Zenon
    <3>8. Lists(f[n], U(n), C)
      BY <3>3, <3>4, <3>7, Zenon
    <3> QED
      BY <3>1, <3>3, <3>8
  <2>5. \A n \in 1 .. m : n \in Q
    <3> HIDE DEF Q
    <3> QED
      BY <2>2, <2>3, <2>4, RangeInduction
  <2>6. m \in Q
    BY <2>2, <2>5, Zenon
  <2>7. Lists(f[m], U(m), C)
    <3> HIDE DEF U
    <3> QED
      BY <2>6
  <2> QED
    BY <2>1, <2>7, Zenon
<1> QED
  BY <1>1, <1>2

\* Bringing an entry to the front keeps what a list holds.
LEMMA ListsMoved ==
  ASSUME NEW S, NEW l \in Seq(S), NEW b \in 1 .. Len(l), NEW X, NEW C, Lists(l, X, C)
  PROVE  Lists(MoveTo(l, b, 1), X, C)
<1> DEFINE m == Len(l)
           g == [n \in 1 .. m |-> IF n = 1 THEN b ELSE IF n <= b THEN n - 1 ELSE n]
           p == SubSeq(l, 1, b - 1)
           q == SubSeq(l, b + 1, m)
<1>1. m \in Nat /\ b \in Int /\ 1 <= b /\ b <= m /\ \A n \in 1 .. m : l[n] \in S
  OBVIOUS
<1>2. p \in Seq(S) /\ Len(p) = b - 1 /\ \A n \in 1 .. (b - 1) : p[n] = l[n]
  <2>1. \A n \in 1 .. (b - 1) : l[n] \in S
    BY <1>1
  <2>2. b - 1 \in Int /\ 1 \in Int
    BY <1>1
  <2>3. /\ p \in Seq(S) /\ Len(p) = IF 1 <= b - 1 THEN (b - 1) - 1 + 1 ELSE 0
        /\ \A n \in 1 .. ((b - 1) - 1 + 1) : p[n] = l[1 + n - 1]
    BY <2>1, <2>2, SubSeqProperties
  <2> QED
    BY <1>1, <2>3
<1>3. q \in Seq(S) /\ Len(q) = m - b /\ \A n \in 1 .. (m - b) : q[n] = l[b + n]
  <2>1. \A n \in (b + 1) .. m : l[n] \in S
    BY <1>1
  <2>2. b + 1 \in Int /\ m \in Int
    BY <1>1
  <2>3. /\ q \in Seq(S) /\ Len(q) = IF b + 1 <= m THEN m - (b + 1) + 1 ELSE 0
        /\ \A n \in 1 .. (m - (b + 1) + 1) : q[n] = l[(b + 1) + n - 1]
    BY <2>1, <2>2, SubSeqProperties
  <2>4. \A n \in 1 .. (m - b) : n \in 1 .. (m - (b + 1) + 1) /\ (b + 1) + n - 1 = b + n
    BY <1>1
  <2>5. \A n \in 1 .. (m - b) : q[n] = l[b + n]
    BY <2>3, <2>4
  <2> QED
    BY <1>1, <2>3, <2>5
<1>4. SubSeq(l, 1, 1 - 1) = <<>>
  OBVIOUS
<1>5. MoveTo(l, b, 1) = ((<<>> \o <<l[b]>>) \o p) \o q
  BY <1>4 DEF MoveTo
<1>6. <<l[b]>> \in Seq(S) /\ <<>> \o <<l[b]>> = <<l[b]>> /\ Len(<<l[b]>>) = 1 /\ <<l[b]>>[1] = l[b]
  BY <1>1
<1> HIDE DEF m, p, q, g
<1>7. PICK t \in Seq(S) : t = <<l[b]>>
  BY <1>6
<1>8. Len(t) = 1 /\ t[1] = l[b]
  BY <1>6, <1>7
<1>9. PICK u \in Seq(S) : u = t \o p
  BY <1>2, ConcatProperties
<1>10. /\ Len(u) = b
       /\ \A n \in 1 .. b : u[n] = IF n <= 1 THEN t[n] ELSE p[n - 1]
  <2>1. /\ Len(t \o p) = Len(t) + Len(p)
        /\ \A n \in 1 .. (Len(t) + Len(p)) : (t \o p)[n] = IF n <= Len(t) THEN t[n] ELSE p[n - Len(t)]
    BY <1>2, ConcatProperties, Zenon
  <2>2. Len(t) + Len(p) = b
    BY <1>1, <1>2, <1>8
  <2> QED
    BY <1>8, <1>9, <2>1, <2>2
<1>11. PICK w \in Seq(S) : w = u \o q
  BY <1>3, ConcatProperties
<1>12. /\ Len(w) = m
       /\ \A n \in 1 .. m : w[n] = IF n <= b THEN u[n] ELSE q[n - b]
  <2>1. /\ Len(u \o q) = Len(u) + Len(q)
        /\ \A n \in 1 .. (Len(u) + Len(q)) : (u \o q)[n] = IF n <= Len(u) THEN u[n] ELSE q[n - Len(u)]
    BY <1>3, ConcatProperties, Zenon
  <2>2. Len(u) + Len(q) = m
    BY <1>1, <1>3, <1>10
  <2> QED
    BY <1>10, <1>11, <2>1, <2>2
<1>13. MoveTo(l, b, 1) = w
  BY <1>5, <1>6, <1>7, <1>9, <1>11, Zenon
<1>14. \A n \in 1 .. m : g[n] = IF n = 1 THEN b ELSE IF n <= b THEN n - 1 ELSE n
  BY Zenon DEF g
<1>15. ASSUME NEW n \in 1 .. m
       PROVE  g[n] \in 1 .. m /\ w[n] = l[g[n]]
  <2>1. CASE n = 1
    <3>1. g[n] = b /\ w[n] = u[n] /\ u[n] = t[1] /\ n \in 1 .. b
      BY <1>1, <1>10, <1>12, <1>14, <2>1
    <3> QED
      BY <1>1, <1>8, <3>1
  <2>2. CASE n # 1 /\ n <= b
    <3>1. n \in 1 .. b /\ ~ (n <= 1) /\ n - 1 \in 1 .. (b - 1) /\ n - 1 \in 1 .. m
      BY <1>1, <2>2
    <3>2. g[n] = n - 1 /\ w[n] = u[n] /\ u[n] = p[n - 1] /\ p[n - 1] = l[n - 1]
      BY <1>2, <1>10, <1>12, <1>14, <2>2, <3>1
    <3> QED
      BY <3>1, <3>2
  <2>3. CASE ~ (n <= b)
    <3>1. n # 1 /\ n - b \in 1 .. (m - b) /\ b + (n - b) = n
      BY <1>1, <2>3
    <3>2. g[n] = n /\ w[n] = q[n - b] /\ q[n - b] = l[n]
      BY <1>3, <1>12, <1>14, <2>3, <3>1
    <3> QED
      BY <3>2
  <2> QED
    BY <2>1, <2>2, <2>3
<1>16. ASSUME NEW x \in 1 .. m, NEW y \in 1 .. m, g[x] = g[y]
       PROVE  x = y
  BY <1>1, <1>14, <1>16
<1>17. ASSUME NEW y \in 1 .. m
       PROVE  \E x \in 1 .. m : g[x] = y
  <2>1. CASE y = b
    <3>1. 1 \in 1 .. m /\ g[1] = y
      BY <1>1, <1>14, <2>1
    <3> QED
      BY <3>1
  <2>2. CASE y < b
    <3>1. y + 1 \in 1 .. m /\ y + 1 # 1 /\ y + 1 <= b /\ (y + 1) - 1 = y
      BY <1>1, <2>2
    <3>2. g[y + 1] = y
      BY <1>14, <3>1
    <3> QED
      BY <3>1, <3>2
  <2>3. CASE y > b
    <3>1. g[y] = y
      BY <1>1, <1>14, <2>3
    <3> QED
      BY <3>1
  <2> QED
    BY <1>1, <2>1, <2>2, <2>3
<1>18. PICK f : Numbers(f, l, X, C)
  BY Zenon DEF Lists
<1>19. PICK h : h = [n \in 1 .. m |-> f[g[n]]]
  OBVIOUS
<1>20. h \in [1 .. m -> X] /\ \A n \in 1 .. m : h[n] = f[g[n]] /\ w[n].arcs = C[h[n]]
  <2>1. \A n \in 1 .. m : f[n] \in X /\ l[n].arcs = C[f[n]]
    BY <1>18, Zenon DEF Numbers, m
  <2>2. \A n \in 1 .. m : f[g[n]] \in X /\ l[g[n]].arcs = C[f[g[n]]]
    BY <1>15, <2>1, Zenon
  <2>3. \A n \in 1 .. m : h[n] = f[g[n]]
    BY <1>19, Zenon
  <2>4. ASSUME NEW n \in 1 .. m
        PROVE  w[n].arcs = C[h[n]]
    <3>1. w[n] = l[g[n]] /\ h[n] = f[g[n]]
      BY <1>15, <2>3, Zenon
    <3> QED
      BY <2>2, <3>1, Zenon
  <2> QED
    BY <1>19, <2>2, <2>3, <2>4, Zenon
<1>21. \A x, y \in 1 .. m : h[x] = h[y] => x = y
  <2>1. \A x, y \in 1 .. m : f[x] = f[y] => x = y
    BY <1>18, Zenon DEF Numbers, m
  <2> QED
    BY <1>15, <1>16, <1>20, <2>1
<1>22. ASSUME NEW c \in X
       PROVE  \E n \in 1 .. m : h[n] = c
  <2>1. PICK y \in 1 .. m : f[y] = c
    BY <1>18, Zenon DEF Numbers, m
  <2>2. PICK x \in 1 .. m : g[x] = y
    BY <1>17, Zenon
  <2> QED
    BY <1>20, <2>1, <2>2
<1>23. Numbers(h, w, X, C)
  BY <1>12, <1>20, <1>21, <1>22, Zenon DEF Numbers
<1> QED
  BY <1>13, <1>23, Zenon DEF Lists

\* The length of the list is the number of trees, its arcs are theirs.
Counts(l, X, C) == Len(l) = Cardinality(X) /\ {l[n].arcs : n \in DOMAIN l} = {C[h] : h \in X}

LEMMA ListsCount ==
  ASSUME NEW S, NEW l \in Seq(S), NEW X, NEW C, Lists(l, X, C)
  PROVE  Counts(l, X, C)
<1>1. PICK f : Numbers(f, l, X, C)
  BY Zenon DEF Lists
<1>2. Len(l) \in Nat /\ DOMAIN l = 1 .. Len(l)
  OBVIOUS
<1>3. f \in Bijection(1 .. Len(l), X)
  BY <1>1 DEF Numbers, Bijection, Injection, Surjection, IsInjective
<1>4. ExistsBijection(1 .. Len(l), X)
  BY <1>3, Zenon DEF ExistsBijection
<1>5. Cardinality(X) = Len(l)
  BY <1>2, <1>4, FS_CountingElements
<1>6. {l[n].arcs : n \in DOMAIN l} \subseteq {C[h] : h \in X}
  <2>1. ASSUME NEW n \in DOMAIN l
        PROVE  \E h \in X : l[n].arcs = C[h]
    <3>1. f[n] \in X /\ l[n].arcs = C[f[n]]
      BY <1>1, <1>2, Zenon DEF Numbers
    <3> QED
      BY <3>1, Zenon
  <2> QED
    BY <2>1
<1>7. {C[h] : h \in X} \subseteq {l[n].arcs : n \in DOMAIN l}
  <2>1. ASSUME NEW h \in X
        PROVE  \E n \in DOMAIN l : C[h] = l[n].arcs
    <3>1. PICK n \in 1 .. Len(l) : f[n] = h
      BY <1>1, Zenon DEF Numbers
    <3>2. l[n].arcs = C[f[n]]
      BY <1>1, Zenon DEF Numbers
    <3> QED
      BY <1>2, <3>1, <3>2, Zenon
  <2> QED
    BY <2>1
<1> QED
  BY <1>5, <1>6, <1>7 DEF Counts
-----------------------------------------------------------------------------
(* Taking trees apart                                                      *)

\* The trees whose root has d as its first dependent.
FirstAt(i, d, j) == {h \in TreesIn(i, j) : h[d] = j /\ \A b \in i .. (d - 1) : h[b] # j}

\* Those whose root has a dependent among the first k phrases.
FirstUpto(i, j, n) == {h \in TreesIn(i, j) : \E d \in i .. (i + n - 1) : h[d] = j}

\* Joined trees are a tree whose root has the root of the first one as first dependent.
LEMMA GlueFirst ==
  ASSUME NEW i \in Bnst, NEW d \in Bnst, NEW j \in Bnst, i <= d, d < j,
         NEW p \in TreesIn(i, d), NEW q \in TreesIn(d + 1, j), j \in Allowed(d)
  PROVE  Glue(p, q, i, d, j) \in FirstAt(i, d, j)
<1>1. i \in Nat /\ d \in Nat /\ j \in Nat
  BY PhraseBounds
<1>2. PICK h : h = Glue(p, q, i, d, j)
  OBVIOUS
<1>3. h \in TreesIn(i, j)
  BY <1>2, TreesJoin, Zenon DEF Glue
<1>4. h[d] = j /\ \A b \in i .. (d - 1) : h[b] = p[b]
  <2>1. /\ Glue(p, q, i, d, j)[d] = j
        /\ \A b \in i .. (d - 1) : Glue(p, q, i, d, j)[b] = p[b]
    BY GlueParts
  <2> QED
    BY <1>2, <2>1
<1>5. \A b \in i .. (d - 1) : p[b] \in i .. d
  BY DEF TreesIn
<1>6. \A b \in i .. (d - 1) : h[b] # j
  BY <1>1, <1>4, <1>5
<1> QED
  BY <1>2, <1>3, <1>4, <1>6, Zenon DEF FirstAt

\* The parts of a joined tree are found again.
LEMMA GlueOnce ==
  ASSUME NEW i \in Bnst, NEW d \in Bnst, NEW j \in Bnst, i <= d, d < j,
         NEW p \in TreesIn(i, d), NEW q \in TreesIn(d + 1, j),
         NEW x \in TreesIn(i, d), NEW y \in TreesIn(d + 1, j),
         Glue(p, q, i, d, j) = Glue(x, y, i, d, j)
  PROVE  p = x /\ q = y
<1>1. \A b \in i .. (d - 1) : p[b] = x[b]
  BY GlueParts
<1>2. \A b \in (d + 1) .. (j - 1) : q[b] = y[b]
  BY GlueParts
<1>3. /\ p \in [i .. (d - 1) -> i .. d] /\ x \in [i .. (d - 1) -> i .. d]
      /\ q \in [(d + 1) .. (j - 1) -> (d + 1) .. j] /\ y \in [(d + 1) .. (j - 1) -> (d + 1) .. j]
  BY DEF TreesIn
<1>4. p = x
  <2>1. p = [b \in i .. (d - 1) |-> p[b]] /\ x = [b \in i .. (d - 1) |-> x[b]]
    BY <1>3
  <2> QED
    BY <1>1, <2>1, Zenon
<1>5. q = y
  <2>1. q = [b \in (d + 1) .. (j - 1) |-> q[b]] /\ y = [b \in (d + 1) .. (j - 1) |-> y[b]]
    BY <1>3
  <2> QED
    BY <1>2, <2>1, Zenon
<1> QED
  BY <1>4, <1>5

\* Part of a tree between two phrases that no arc leaves is a tree.
LEMMA TreePart ==
  ASSUME NEW i \in Bnst, NEW j \in Bnst, NEW h \in TreesIn(i, j),
         NEW a \in Bnst, NEW e \in Bnst, i <= a, a <= e, e <= j,
         \A b \in a .. (e - 1) : h[b] <= e
  PROVE  [b \in a .. (e - 1) |-> h[b]] \in TreesIn(a, e)
<1>1. i \in Nat /\ j \in Nat /\ a \in Nat /\ e \in Nat
  BY PhraseBounds
<1>2. \A b \in a .. (e - 1) : b \in i .. (j - 1)
  BY <1>1
<1>3. /\ \A b \in i .. (j - 1) : h[b] \in i .. j /\ h[b] \in Allowed(b)
      /\ \A b, c \in i .. (j - 1) : ~ Crossing(h, b, c)
  BY DEF TreesIn
<1>4. PICK p : p = [b \in a .. (e - 1) |-> h[b]]
  OBVIOUS
<1>5. \A b \in a .. (e - 1) : p[b] = h[b]
  BY <1>4
<1>6. ASSUME NEW b \in a .. (e - 1)
      PROVE  p[b] \in a .. e /\ p[b] \in Allowed(b)
  <2>1. h[b] \in i .. j /\ h[b] \in Allowed(b)
    BY <1>2, <1>3, Zenon
  <2>2. h[b] \in (b + 1) .. Last
    BY <2>1, AllowedIs, Zenon
  <2>3. h[b] \in a .. e
    BY <1>1, <2>1, <2>2
  <2> QED
    BY <1>5, <2>1, <2>3
<1>7. \A b, c \in a .. (e - 1) : ~ Crossing(p, b, c)
  <2>1. \A b, c \in a .. (e - 1) : ~ Crossing(h, b, c)
    BY <1>2, <1>3, Zenon
  <2> QED
    BY <1>5, <2>1 DEF Crossing
<1>8. p \in [a .. (e - 1) -> a .. e]
  BY <1>4, <1>5, <1>6
<1>9. p \in TreesIn(a, e)
  BY <1>6, <1>7, <1>8, Zenon DEF TreesIn
<1> QED
  BY <1>4, <1>9, Zenon

\* Every tree is joined from two at the first dependent of its root.
LEMMA GlueAll ==
  ASSUME NEW i \in Bnst, NEW d \in Bnst, NEW j \in Bnst, i <= d, d < j, NEW h \in FirstAt(i, d, j)
  PROVE  /\ j \in Allowed(d)
         /\ \E p \in TreesIn(i, d), q \in TreesIn(d + 1, j) : h = Glue(p, q, i, d, j)
<1>1. i \in Nat /\ d \in Nat /\ j \in Nat /\ d + 1 \in Bnst
  <2>1. i \in Nat /\ d \in Nat /\ j \in Nat /\ j <= Last /\ Last \in Nat
    BY PhraseBounds
  <2>2. d + 1 \in 0 .. Last
    BY <2>1
  <2> QED
    BY <2>1, <2>2, PhraseBounds
<1>2. h \in TreesIn(i, j) /\ h[d] = j /\ \A b \in i .. (d - 1) : h[b] # j
  BY DEF FirstAt
<1>3. /\ h \in [i .. (j - 1) -> i .. j]
      /\ \A b \in i .. (j - 1) : h[b] \in Allowed(b)
      /\ \A b, c \in i .. (j - 1) : ~ Crossing(h, b, c)
  BY <1>2, Zenon DEF TreesIn
<1>4. \A b \in i .. (j - 1) : h[b] \in i .. j
  BY <1>3
<1>5. d \in i .. (j - 1)
  BY <1>1
<1>6. j \in Allowed(d)
  BY <1>2, <1>3, <1>5
<1>7. ASSUME NEW b \in i .. (d - 1)
      PROVE  h[b] <= d
  <2>1. b \in i .. (j - 1)
    BY <1>1
  <2>2. ~ Crossing(h, b, d)
    BY <1>3, <1>5, <2>1, Zenon
  <2>3. h[b] \in i .. j /\ h[b] # j
    BY <1>2, <1>4, <2>1
  <2> QED
    BY <1>1, <1>2, <2>2, <2>3 DEF Crossing
<1>8. PICK p : p = [b \in i .. (d - 1) |-> h[b]]
  OBVIOUS
<1>9. PICK q : q = [b \in (d + 1) .. (j - 1) |-> h[b]]
  OBVIOUS
<1>10. p \in TreesIn(i, d)
  <2>1. i <= i /\ d <= j
    BY <1>1
  <2> QED
    BY <1>2, <1>7, <1>8, <2>1, TreePart
<1>11. q \in TreesIn(d + 1, j)
  <2>1. i <= d + 1 /\ d + 1 <= j /\ j <= j
    BY <1>1
  <2>2. \A b \in (d + 1) .. (j - 1) : h[b] <= j
    BY <1>1, <1>4
  <2> QED
    BY <1>1, <1>2, <1>9, <2>1, <2>2, TreePart
<1>12. ASSUME NEW b \in i .. (j - 1)
       PROVE  h[b] = IF b < d THEN p[b] ELSE IF b = d THEN j ELSE q[b]
  <2>1. CASE b < d
    <3>1. b \in i .. (d - 1)
      BY <1>1, <2>1
    <3> QED
      BY <1>8, <2>1, <3>1
  <2>2. CASE b = d
    BY <1>1, <1>2, <2>2
  <2>3. CASE b > d
    <3>1. b \in (d + 1) .. (j - 1)
      BY <1>1, <2>3
    <3>2. q[b] = h[b]
      BY <1>9, <3>1
    <3>3. ~ (b < d) /\ b # d
      BY <1>1, <2>3
    <3> QED
      BY <3>2, <3>3
  <2> QED
    BY <1>1, <2>1, <2>2, <2>3
<1>13. h = Glue(p, q, i, d, j)
  <2>1. h = [b \in i .. (j - 1) |-> h[b]]
    BY <1>3
  <2> QED
    BY <1>12, <2>1, Zenon DEF Glue
<1> QED
  BY <1>6, <1>10, <1>11, <1>13, Zenon

\* The splits before k and split k: disjoint, and all of them in the end.
LEMMA FirstSplits ==
  ASSUME NEW i \in Bnst, NEW j \in Bnst, i < j, NEW n \in 0 .. (j - i - 1)
  PROVE  /\ FirstUpto(i, j, 0) = {} /\ FirstUpto(i, j, j - i) = TreesIn(i, j)
         /\ FirstUpto(i, j, n + 1) = FirstUpto(i, j, n) \cup FirstAt(i, i + n, j)
         /\ FirstUpto(i, j, n) \cap FirstAt(i, i + n, j) = {}
<1>1. i \in Nat /\ j \in Nat /\ n \in Nat /\ n < j - i
  BY PhraseBounds
<1>2. FirstUpto(i, j, 0) = {}
  <2>1. i .. (i + 0 - 1) = {}
    BY <1>1
  <2> QED
    BY <2>1, Zenon DEF FirstUpto
<1>3. ASSUME NEW h \in TreesIn(i, j)
      PROVE  \E d \in i .. (i + (j - i) - 1) : h[d] = j
  <2>1. j - 1 \in i .. (j - 1) /\ j - 1 \in i .. (i + (j - i) - 1)
    BY <1>1
  <2>2. h[j - 1] \in i .. j /\ h[j - 1] \in Allowed(j - 1)
    BY <2>1 DEF TreesIn
  <2>3. h[j - 1] \in (j - 1 + 1) .. Last
    BY <2>2, AllowedIs, Zenon
  <2>4. h[j - 1] = j
    BY <1>1, <2>2, <2>3
  <2> QED
    BY <2>1, <2>4
<1>4. FirstUpto(i, j, j - i) = TreesIn(i, j)
  BY <1>3, Zenon DEF FirstUpto
<1>5. i .. (i + (n + 1) - 1) = (i .. (i + n - 1)) \cup {i + n}
  BY <1>1
<1>5a. i .. (i + n - 1) = i .. ((i + n) - 1)
  BY <1>1
<1>6. FirstUpto(i, j, n) \cap FirstAt(i, i + n, j) = {}
  <2>1. ASSUME NEW h \in FirstUpto(i, j, n), h \in FirstAt(i, i + n, j)
        PROVE  FALSE
    <3>1. PICK d \in i .. (i + n - 1) : h[d] = j
      BY DEF FirstUpto
    <3>2. \A b \in i .. (i + n - 1) : h[b] # j
      BY <1>5a, <2>1, Zenon DEF FirstAt
    <3> QED
      BY <3>1, <3>2
  <2> QED
    BY <2>1
<1>7. FirstUpto(i, j, n + 1) \subseteq FirstUpto(i, j, n) \cup FirstAt(i, i + n, j)
  <2>1. ASSUME NEW h \in FirstUpto(i, j, n + 1), h \notin FirstUpto(i, j, n)
        PROVE  h \in FirstAt(i, i + n, j)
    <3>1. h \in TreesIn(i, j) /\ \E d \in i .. (i + (n + 1) - 1) : h[d] = j
      BY Zenon DEF FirstUpto
    <3>2. \A d \in i .. (i + n - 1) : h[d] # j
      BY <2>1, <3>1, Zenon DEF FirstUpto
    <3>3. h[i + n] = j
      BY <1>5, <3>1, <3>2
    <3>4. h \in TreesIn(i, j) /\ h[i + n] = j /\ \A b \in i .. ((i + n) - 1) : h[b] # j
      BY <1>5a, <3>1, <3>2, <3>3, Zenon
    <3> QED
      BY <3>4, Zenon DEF FirstAt
  <2> QED
    BY <2>1, Zenon
<1>8. FirstUpto(i, j, n) \subseteq FirstUpto(i, j, n + 1)
  BY <1>5, Zenon DEF FirstUpto
<1>9. FirstAt(i, i + n, j) \subseteq FirstUpto(i, j, n + 1)
  <2>1. i + n \in i .. (i + (n + 1) - 1)
    BY <1>1
  <2> QED
    BY <2>1, Zenon DEF FirstUpto, FirstAt
<1>10. FirstUpto(i, j, n + 1) = FirstUpto(i, j, n) \cup FirstAt(i, i + n, j)
  BY <1>7, <1>8, <1>9, Zenon
<1> QED
  BY <1>2, <1>4, <1>6, <1>10
-----------------------------------------------------------------------------
(* The chart, cell by cell                                                 *)

\* The arcs of each tree.
Cover(i, j) == [h \in TreesIn(i, j) |-> Arrows(h, i, j)]

\* Neither noun phrases nor cells are reduced to their best entries.
Whole == OptParaFix /\ OptNbest /\ OptBeam = 0

\* A split goes ahead exactly if the barriers allow the arc it adds.
LEMMA JoinsIffAllowed ==
  ASSUME LoopInv, OptParaFix, k < J - I, NEW r
  PROVE  /\ J \in Allowed(Dep) <=> SplitType # NoDpnd /\ Joins(r)
         /\ SplitType = TypeOf(Dep, J)
<1>1. SplitType = TypeOf(Dep, J)
  BY Zenon DEF SplitType, TypeOf, Possibility
<1>2. SplitType # NoDpnd /\ Joins(r) => J \in Allowed(Dep)
  BY JoinAllowed, Zenon
<1>3. ASSUME J \in Allowed(Dep)
      PROVE  SplitType # NoDpnd /\ Joins(r)
  <2>1. /\ TypeOf(Dep, J) # NoDpnd
        /\ TypeOf(Dep, J) = "P" \/ dep_check[Dep] <= 0 \/ dep_check[Dep] >= J
    BY <1>3, AllowedIs, Zenon
  <2>2. Dep \in Bnst /\ J \in Nat
    BY SplitBounds
  <2>3. dep_check[Dep] \in -1 .. Last
    BY <2>2 DEF LoopInv
  <2>4. Last \in Nat
    BY PhraseBounds
  <2>5. dep_check[Dep] <= 0 \/ dep_check[Dep] >= J => ~ (dep_check[Dep] > 0 /\ dep_check[Dep] < J)
    BY <2>2, <2>3, <2>4
  <2> QED
    BY <1>1, <2>1, <2>5, Zenon DEF Joins, Barred
<1> QED
  BY <1>1, <1>2, <1>3

\* So an entry made where the barriers allow it stands for the joined tree.
LEMMA MadeOfStands ==
  ASSUME ScoresCompare, InputInv, LoopInv, OptParaFix, k < J - I, SplitType # NoDpnd, J \in Allowed(Dep),
         NEW p \in TreesIn(I, Dep), NEW q \in TreesIn(Dep + 1, J),
         NEW l \in SoundEntries(I, Dep), NEW r \in SoundEntries(Dep + 1, J),
         l.arcs = Arrows(p, I, Dep), r.arcs = Arrows(q, Dep + 1, J)
  PROVE  /\ MadeOf(l, r, SplitType, FALSE) \in SoundEntries(I, J)
         /\ Stands(MadeOf(l, r, SplitType, FALSE), Glue(p, q, I, Dep, J), I, J)
         /\ Glue(p, q, I, Dep, J) \in FirstAt(I, Dep, J)
<1>1. /\ I \in Bnst /\ J \in Bnst /\ Dep \in Bnst /\ Dep + 1 \in Bnst
      /\ I <= Dep /\ Dep + 1 <= J /\ I \in Nat /\ J \in Nat /\ Dep \in Nat
  BY SplitBounds
<1>2. I < Dep + 1 /\ Dep < J /\ Dep <= J
  BY <1>1
<1>3. SplitType = TypeOf(Dep, J)
  BY JoinsIffAllowed, Zenon
<1>4. l.j = Dep /\ r.j = J /\ l \in Entries(I, Dep) /\ r \in Entries(Dep + 1, J)
  BY DEF SoundEntries, Entries
<1>5. Stands(l, p, I, Dep) /\ Stands(r, q, Dep + 1, J)
  BY <1>4, Zenon DEF Stands
<1>6. Stands(MadeOf(l, r, SplitType, FALSE), Glue(p, q, I, Dep, J), I, J)
  BY <1>1, <1>2, <1>3, <1>5, MadeOfArcs, Zenon
<1>7. Glue(p, q, I, Dep, J) \in FirstAt(I, Dep, J)
  BY <1>1, <1>2, GlueFirst, Zenon
<1>8. MadeOf(l, r, SplitType, FALSE).arcs \in Drawn(I, J)
  BY <1>6, <1>7, Zenon DEF Drawn, FirstAt, Stands
<1>9. MadeOf(l, r, SplitType, FALSE) \in Entries(I, J)
  <2>1. SplitType \in DpndTypes
    BY SplitTypeIn
  <2> QED
    BY <1>1, <1>2, <1>4, <2>1, MadeOfIn
<1> QED
  BY <1>6, <1>7, <1>8, <1>9, Zenon DEF SoundEntries

\* A split adds the trees whose root has this first dependent, each of them once.
LEMMA MergedLists ==
  ASSUME ScoresCompare, InputInv, LoopInv, ChartInv, Whole, FillSound, k < J - I,
         Lists(cky_matrix[<<I, Dep>>], TreesIn(I, Dep), Cover(I, Dep)),
         Lists(cky_matrix[<<Dep + 1, J>>], TreesIn(Dep + 1, J), Cover(Dep + 1, J))
  PROVE  Lists(Merged, FirstAt(I, Dep, J), Cover(I, J))
<1>1. /\ I \in Bnst /\ J \in Bnst /\ Dep \in Bnst /\ Dep + 1 \in Bnst
      /\ I <= Dep /\ Dep + 1 <= J /\ I \in Nat /\ J \in Nat /\ Dep \in Nat
  BY SplitBounds
<1>2. I < Dep + 1 /\ Dep < J /\ Dep <= J
  BY <1>1
<1>3. OptParaFix /\ Lefts = cky_matrix[<<I, Dep>>] /\ Rights = cky_matrix[<<Dep + 1, J>>]
  BY Zenon DEF Whole, Lefts, Rights, Considered
<1> DEFINE L == SoundEntries(I, Dep)
           R == SoundEntries(Dep + 1, J)
           S == SoundEntries(I, J)
           C == Cover(I, J)
           p == Len(Lefts)
           q == Len(Rights)
<1>4. Lefts \in Seq(L) /\ Rights \in Seq(R)
  <2>1. Filled(I, Dep) /\ Filled(Dep + 1, J)
    BY <1>1, <1>2, Zenon DEF Filled
  <2> QED
    BY <1>1, <1>3, <2>1, Zenon DEF FillSound
<1>5. /\ p \in Nat /\ q \in Nat /\ DOMAIN Lefts = 1 .. p /\ DOMAIN Rights = 1 .. q
      /\ \A n \in 1 .. p : Lefts[n] \in L
      /\ \A m \in 1 .. q : Rights[m] \in R
  <2> HIDE DEF L, R
  <2> QED
    BY <1>4
<1>6. PICK f : Numbers(f, Lefts, TreesIn(I, Dep), Cover(I, Dep))
  BY <1>3, Zenon DEF Lists
<1>7. PICK g : Numbers(g, Rights, TreesIn(Dep + 1, J), Cover(Dep + 1, J))
  BY <1>3, Zenon DEF Lists
<1>8. /\ \A n \in 1 .. p : f[n] \in TreesIn(I, Dep) /\ Lefts[n].arcs = Arrows(f[n], I, Dep)
      /\ \A m \in 1 .. q : g[m] \in TreesIn(Dep + 1, J) /\ Rights[m].arcs = Arrows(g[m], Dep + 1, J)
  <2>1. \A n \in 1 .. p : f[n] \in TreesIn(I, Dep) /\ Lefts[n].arcs = Cover(I, Dep)[f[n]]
    BY <1>6, Zenon DEF Numbers
  <2>2. \A m \in 1 .. q : g[m] \in TreesIn(Dep + 1, J) /\ Rights[m].arcs = Cover(Dep + 1, J)[g[m]]
    BY <1>7, Zenon DEF Numbers
  <2>3. \A h \in TreesIn(I, Dep) : Cover(I, Dep)[h] = Arrows(h, I, Dep)
    BY Zenon DEF Cover
  <2>4. \A h \in TreesIn(Dep + 1, J) : Cover(Dep + 1, J)[h] = Arrows(h, Dep + 1, J)
    BY Zenon DEF Cover
  <2> QED
    BY <2>1, <2>2, <2>3, <2>4, Zenon
<1>9. /\ \A n, m \in 1 .. p : f[n] = f[m] => n = m
      /\ \A n, m \in 1 .. q : g[n] = g[m] => n = m
      /\ \A h \in TreesIn(I, Dep) : \E n \in 1 .. p : f[n] = h
      /\ \A h \in TreesIn(Dep + 1, J) : \E m \in 1 .. q : g[m] = h
  BY <1>6, <1>7, Zenon DEF Numbers
<1> HIDE DEF p, q, L, R, S, C
<1>10. CASE SplitType = NoDpnd
  <2>1. Merged = <<>>
    BY <1>10, Zenon DEF Merged
  <2>2. J \notin Allowed(Dep)
    BY <1>3, <1>10, JoinsIffAllowed, Zenon
  <2>3. FirstAt(I, Dep, J) = {}
    BY <1>1, <1>2, <2>2, GlueAll, Zenon
  <2> QED
    BY <2>1, <2>3, ListsNone, Zenon
<1>11. CASE SplitType # NoDpnd
  <2> DEFINE One(n, m) == IF Joins(Rights[m])
                          THEN <<MadeOf(Lefts[n], Rights[m], SplitType, FALSE)>> ELSE <<>>
             Row(n) == [m \in 1 .. q |-> One(n, m)]
             Tree(n, m) == {h \in FirstAt(I, Dep, J) : h = Glue(f[n], g[m], I, Dep, J)}
             Trees1(n) == [m \in 1 .. q |-> Tree(n, m)]
             Trees2 == [n \in 1 .. p |-> UNION {Tree(n, m) : m \in 1 .. q}]
  <2>1. ASSUME NEW n \in 1 .. p, NEW m \in 1 .. q
        PROVE  One(n, m) \in Seq(S) /\ Lists(One(n, m), Tree(n, m), C)
    <3>1. CASE J \in Allowed(Dep)
      <4>1. Joins(Rights[m])
        BY <1>3, <3>1, JoinsIffAllowed, Zenon
      <4>2. /\ f[n] \in TreesIn(I, Dep) /\ g[m] \in TreesIn(Dep + 1, J)
            /\ Lefts[n] \in SoundEntries(I, Dep) /\ Rights[m] \in SoundEntries(Dep + 1, J)
            /\ Lefts[n].arcs = Arrows(f[n], I, Dep) /\ Rights[m].arcs = Arrows(g[m], Dep + 1, J)
        BY <1>5, <1>8, Zenon DEF L, R
      <4>3. PICK e : e = MadeOf(Lefts[n], Rights[m], SplitType, FALSE)
        OBVIOUS
      <4>4. PICK h : h = Glue(f[n], g[m], I, Dep, J)
        OBVIOUS
      <4>5. One(n, m) = <<e>>
        BY <4>1, <4>3, Zenon
      <4>6. Tree(n, m) = {x \in FirstAt(I, Dep, J) : x = h}
        BY <4>4, Zenon
      <4> HIDE DEF One, Row, Tree, Trees1, Trees2
      <4>7. e \in S /\ Stands(e, h, I, J) /\ h \in FirstAt(I, Dep, J)
        BY <1>3, <1>11, <3>1, <4>2, <4>3, <4>4, MadeOfStands DEF S
      <4>8. h \in TreesIn(I, J)
        BY <4>7, Zenon DEF FirstAt
      <4>9. C[h] = e.arcs
        BY <4>7, <4>8, Zenon DEF C, Cover, Stands
      <4>10. Tree(n, m) = {h}
        BY <4>6, <4>7, Zenon
      <4>11. Lists(<<e>>, {h}, C)
        BY <4>9, ListsOne, Zenon
      <4>12. <<e>> \in Seq(S)
        BY <4>7, ShortSeq, Zenon
      <4> QED
        BY <4>5, <4>10, <4>11, <4>12, Zenon
    <3>2. CASE J \notin Allowed(Dep)
      <4>1. ~ Joins(Rights[m])
        BY <1>3, <1>11, <3>2, JoinsIffAllowed, Zenon
      <4>2. One(n, m) = <<>>
        BY <4>1, Zenon
      <4>3. FirstAt(I, Dep, J) = {}
        BY <1>1, <1>2, <3>2, GlueAll, Zenon
      <4>4. Tree(n, m) = {}
        BY <4>3, Zenon
      <4>5. <<>> \in Seq(S)
        OBVIOUS
      <4> HIDE DEF One, Tree
      <4> QED
        BY <4>2, <4>4, <4>5, ListsNone, Zenon
    <3> QED
      BY <3>1, <3>2
  <2>2. Merged = SE!FlattenSeq([n \in 1 .. p |-> SE!FlattenSeq(Row(n))])
    BY <1>5, <1>11, Zenon DEF Merged
  <2> HIDE DEF One
  <2>3. ASSUME NEW n \in 1 .. p, NEW m \in 1 .. q, NEW x \in 1 .. p, NEW y \in 1 .. q,
               Tree(n, m) \cap Tree(x, y) # {}
        PROVE  n = x /\ m = y
    <3>1. Glue(f[n], g[m], I, Dep, J) = Glue(f[x], g[y], I, Dep, J)
      BY <2>3, Zenon
    <3>2. /\ f[n] \in TreesIn(I, Dep) /\ g[m] \in TreesIn(Dep + 1, J)
          /\ f[x] \in TreesIn(I, Dep) /\ g[y] \in TreesIn(Dep + 1, J)
      BY <1>8, Zenon
    <3>3. f[n] = f[x] /\ g[m] = g[y]
      <4> HIDE DEF Tree
      <4> QED
        BY <1>1, <1>2, <3>1, <3>2, GlueOnce
    <3> QED
      BY <1>9, <3>3, Zenon
  <2>4. UNION {UNION {Tree(n, m) : m \in 1 .. q} : n \in 1 .. p} = FirstAt(I, Dep, J)
    <3>1. ASSUME NEW h \in FirstAt(I, Dep, J)
          PROVE  \E n \in 1 .. p, m \in 1 .. q : h \in Tree(n, m)
      <4>1. PICK a \in TreesIn(I, Dep), b \in TreesIn(Dep + 1, J) : h = Glue(a, b, I, Dep, J)
        BY <1>1, <1>2, GlueAll, Zenon
      <4>2. PICK n \in 1 .. p : f[n] = a
        BY <1>9, Zenon
      <4>3. PICK m \in 1 .. q : g[m] = b
        BY <1>9, Zenon
      <4> QED
        BY <4>1, <4>2, <4>3, Zenon
    <3>2. \A n \in 1 .. p, m \in 1 .. q : Tree(n, m) \subseteq FirstAt(I, Dep, J)
      BY Zenon
    <3> HIDE DEF Tree
    <3> QED
      BY <3>1, <3>2
  <2> HIDE DEF Tree
  <2>5. \A n \in 1 .. p : Row(n) \in [1 .. q -> Seq(S)] /\ \A m \in 1 .. q : Row(n)[m] = One(n, m)
    BY <2>1, Zenon
  <2>6. \A n \in 1 .. p : \A m \in 1 .. q : Trees1(n)[m] = Tree(n, m)
    BY Zenon
  <2>6a. \A n \in 1 .. p : Trees2[n] = UNION {Tree(n, m) : m \in 1 .. q}
    BY Zenon
  <2> HIDE DEF Row, Trees1, Trees2
  <2>7. ASSUME NEW n \in 1 .. p
        PROVE  Lists(SE!FlattenSeq(Row(n)), UNION {Tree(n, m) : m \in 1 .. q}, C)
    <3>1. PICK s \in [1 .. q -> Seq(S)] : s = Row(n)
      BY <2>5, Zenon
    <3>2. PICK H : H = Trees1(n)
      OBVIOUS
    <3>3. \A m \in 1 .. q : H[m] = Tree(n, m) /\ s[m] = One(n, m)
      BY <2>5, <2>6, <3>1, <3>2, Zenon
    <3>4. \A m \in 1 .. q : Lists(s[m], H[m], C)
      BY <2>1, <3>3, Zenon
    <3>5. ASSUME NEW x \in 1 .. q, NEW y \in 1 .. q, x # y
          PROVE  H[x] \cap H[y] = {}
      <4>1. Tree(n, x) \cap Tree(n, y) # {} => x = y
        BY <2>3
      <4>2. Tree(n, x) \cap Tree(n, y) = {}
        BY <3>5, <4>1, Zenon
      <4> QED
        BY <3>3, <4>2
    <3>6. Lists(SE!FlattenSeq(s), UNION {H[m] : m \in 1 .. q}, C)
      BY <1>5, <3>4, <3>5, ListsFlatten, Zenon
    <3>7. {H[m] : m \in 1 .. q} = {Tree(n, m) : m \in 1 .. q}
      BY <3>3, Zenon
    <3> QED
      BY <3>1, <3>6, <3>7, Zenon
  <2>8. \A n \in 1 .. p : SE!FlattenSeq(Row(n)) \in Seq(S)
    BY <1>5, <2>5, FlattenStays
  <2>9. PICK s : s = [n \in 1 .. p |-> SE!FlattenSeq(Row(n))]
    OBVIOUS
  <2>10. s \in [1 .. p -> Seq(S)] /\ \A n \in 1 .. p : s[n] = SE!FlattenSeq(Row(n))
    BY <2>8, <2>9, Zenon
  <2>11. PICK H : H = Trees2
    OBVIOUS
  <2>12. \A n \in 1 .. p : H[n] = UNION {Tree(n, m) : m \in 1 .. q}
    BY <2>6a, <2>11, Zenon
  <2>13. \A n \in 1 .. p : Lists(s[n], H[n], C)
    BY <2>7, <2>10, <2>12, Zenon
  <2>14. ASSUME NEW x \in 1 .. p, NEW y \in 1 .. p, x # y
         PROVE  H[x] \cap H[y] = {}
    <3>1. ASSUME NEW h \in H[x], h \in H[y]
          PROVE  FALSE
      <4>1. PICK m \in 1 .. q : h \in Tree(x, m)
        BY <2>12
      <4>2. PICK n \in 1 .. q : h \in Tree(y, n)
        BY <2>12, <3>1
      <4>3. Tree(x, m) \cap Tree(y, n) # {}
        BY <4>1, <4>2, Zenon
      <4> QED
        BY <2>3, <2>14, <4>3, Zenon
    <3> QED
      BY <3>1, Zenon
  <2>15. Lists(SE!FlattenSeq(s), UNION {H[n] : n \in 1 .. p}, C)
    BY <1>5, <2>10, <2>13, <2>14, ListsFlatten, Zenon
  <2>16. {H[n] : n \in 1 .. p} = {UNION {Tree(n, m) : m \in 1 .. q} : n \in 1 .. p}
    BY <2>12, Zenon
  <2>17. Lists(Merged, FirstAt(I, Dep, J), C)
    BY <2>2, <2>4, <2>9, <2>15, <2>16, Zenon
  <2> QED
    BY <2>17, Zenon DEF C
<1> QED
  BY <1>10, <1>11
-----------------------------------------------------------------------------
(* Barriers                                                                *)

\* The matrix only loses dependencies.
Narrowed ==
  OptParaFix => \A d, g \in Bnst : Dpnd[d][g] = sent.dpnd[d][g] \/ Dpnd[d][g] = NoDpnd

\* The cells the attempt under way has closed.
Closed(i, j) == j < J \/ (j = J /\ i > I)

Exact(i, j) == Lists(cky_matrix[<<i, j>>], TreesIn(i, j), Cover(i, j))

\* Barriers are heads met so far.
BarriersMet ==
  \A d \in Bnst : dep_check[d] <= J /\ (dep_check[d] > 0 => dep_check[d] \in Allowed(d))

FillExact ==
  /\ BarriersMet
  /\ \A i, j \in Bnst : i <= j /\ Closed(i, j) => Exact(i, j)
  /\ I < J /\ k > 0 => Lists(cky_matrix[<<I, J>>], FirstUpto(I, J, k), Cover(I, J))

\* The inductive invariant of charts that are not reduced.
ExactInv ==
  /\ Narrowed
  /\ Whole => /\ phase = "fill" => FillExact
              /\ phase = "choose" => J = Last /\ Exact(0, Last)

\* What a step leaves of the heads allowed up to the column in work: all of it.
Steady ==
  \A d, g \in Bnst : g <= J => /\ g \in Allowed(d)' <=> g \in Allowed(d)
                              /\ ArcTo(d, g)' = ArcTo(d, g)

\* check_dpnd_possibility when coordinations are fixed.
LEMMA TypeCases ==
  ASSUME OptParaFix, NEW d, NEW g
  PROVE  /\ TypeOf(d, g) = "P" => sent.mask[d][g] = 2 \/ Dpnd[d][g] = "P"
         /\ sent.mask[d][g] \in {0, 2} /\ Dpnd[d][g] # "R" /\ g # Last /\ TypeOf(d, g) # NoDpnd
              => TypeOf(d, g) = "P"
         /\ g # Last /\ TypeOf(d, g) # NoDpnd
              => \/ sent.mask[d][g] \in {2, 3}
                 \/ sent.mask[d][g] = 1 /\ sent.quote[d][g] /\ Dpnd[d][g] # NoDpnd
                 \/ Dpnd[d][g] = "R"
<1> DEFINE m == sent.mask[d][g]
           x == Dpnd[d][g]
           q == sent.quote[d][g]
           end == g = Last /\ dep_check[d] = -1
<1>1. TypeOf(d, g) = Possibility(d, g, 0, end)
  BY Zenon DEF TypeOf
<1>2. Possibility(d, g, 0, end) =
        CASE m = 2 -> "P" [] m = 3 -> "I"
          [] OTHER -> IF x # NoDpnd /\ q /\ m = 1 THEN x
                      ELSE IF x = "R" \/ end THEN "R" ELSE NoDpnd
  BY DEF Possibility
<1>3. end => g = Last
  OBVIOUS
<1>4. PICK t : t = TypeOf(d, g)
  OBVIOUS
<1>5. PICK e \in BOOLEAN : e <=> end
  OBVIOUS
<1> HIDE DEF m, x, q, end
<1>6. t = CASE m = 2 -> "P" [] m = 3 -> "I"
            [] OTHER -> IF x # NoDpnd /\ q /\ m = 1 THEN x
                        ELSE IF x = "R" \/ e THEN "R" ELSE NoDpnd
  BY <1>1, <1>2, <1>4, <1>5
<1>7. /\ t = "P" => m = 2 \/ x = "P"
      /\ m \in {0, 2} /\ x # "R" /\ g # Last /\ t # NoDpnd => t = "P"
      /\ g # Last /\ t # NoDpnd => m \in {2, 3} \/ (m = 1 /\ q /\ x # NoDpnd) \/ x = "R"
  BY <1>3, <1>5, <1>6 DEF NoDpnd
<1> QED
  BY <1>4, <1>7 DEF m, x, q

\* The heads of a dependent up to the column in work do not depend on the barrier
\* that a dependency on that column sets.
LEMMA BarrierSteady ==
  ASSUME MarksDecide, InputInv, LoopInv, LoopInv', Whole, Narrowed, k < J - I, J \in Allowed(Dep),
         BarriersMet, UNCHANGED <<opt, sent, Dpnd, para>>,
         \A d \in Bnst : dep_check'[d] = dep_check[d] \/ (d = Dep /\ dep_check'[d] = BarrierAfter)
  PROVE  Steady
<1>1. /\ I \in Bnst /\ J \in Bnst /\ Dep \in Bnst /\ Dep + 1 <= J /\ J \in Nat /\ Dep \in Nat
      /\ J <= Last /\ Last \in Nat /\ OptParaFix
  BY SplitBounds, PhraseBounds DEF Whole
<1>2. /\ BarrierAfter \in {dep_check[Dep], 0, J}
      /\ J = Last => BarrierAfter = dep_check[Dep]
      /\ BarrierAfter # dep_check[Dep] /\ dep_check[Dep] # -1
           => sent.rule[Dep].hasBarrier /\ J \in sent.rule[Dep].barrier
  BY Zenon DEF BarrierAfter
<1>3. /\ J \in (Dep + 1) .. Last /\ TypeOf(Dep, J) # NoDpnd
      /\ TypeOf(Dep, J) = "P" \/ dep_check[Dep] <= 0 \/ dep_check[Dep] >= J
  BY AllowedIs, Zenon
<1>4. \A d \in Bnst : dep_check[d] \in -1 .. Last /\ dep_check'[d] \in -1 .. Last /\ dep_check[d] <= J
  BY DEF LoopInv, BarriersMet
<1>5. ASSUME NEW d \in Bnst, NEW g \in Bnst, g <= J
      PROVE  TypeOf(d, g)' = TypeOf(d, g) /\ ArcTo(d, g)' = ArcTo(d, g)
  <2>1. (g = Last /\ dep_check'[d] = -1) <=> (g = Last /\ dep_check[d] = -1)
    <3>1. CASE g = Last
      <4>1. J = Last
        BY <1>1, <1>5, <3>1
      <4> QED
        BY <1>2, <4>1
    <3>2. CASE g # Last
      BY <3>2
    <3> QED
      BY <3>1, <3>2
  <2>2. opt' = opt /\ sent' = sent /\ Dpnd' = Dpnd /\ para' = para
    OBVIOUS
  <2>3. TypeOf(d, g)' = TypeOf(d, g)
    BY <2>1, <2>2, Zenon DEF TypeOf, Possibility, OptParaFix
  <2> QED
    BY <2>2, <2>3, Zenon DEF ArcTo
<1>6. ASSUME NEW d \in Bnst
      PROVE  Allowed(d)' = {g \in (d + 1) .. Last :
                              /\ TypeOf(d, g)' # NoDpnd
                              /\ TypeOf(d, g)' = "P" \/ dep_check'[d] <= 0 \/ dep_check'[d] >= g}
  BY Zenon DEF Allowed, TypeOf
<1>7. ASSUME NEW d \in Bnst, NEW g \in Bnst, g <= J, g \in (d + 1) .. Last, TypeOf(d, g) # NoDpnd
      PROVE  (TypeOf(d, g) = "P" \/ dep_check[d] <= 0 \/ dep_check[d] >= g)
               <=> (TypeOf(d, g) = "P" \/ dep_check'[d] <= 0 \/ dep_check'[d] >= g)
  <2>1. g \in Nat /\ d \in Nat
    BY PhraseBounds
  <2>2. CASE dep_check'[d] = dep_check[d]
    BY <2>2
  <2>3. CASE dep_check'[d] # dep_check[d]
    <3>1. d = Dep /\ dep_check'[d] = BarrierAfter
      BY <2>3
    <3>2. dep_check'[d] = 0 \/ dep_check'[d] = J
      BY <1>2, <2>3, <3>1
    <3>3. dep_check'[d] <= 0 \/ dep_check'[d] >= g
      BY <1>1, <1>7, <2>1, <3>2
    <3>4. CASE dep_check[d] <= 0 \/ dep_check[d] >= g
      BY <3>3, <3>4
    <3>5. CASE ~ (dep_check[d] <= 0 \/ dep_check[d] >= g)
      <4>1. dep_check[d] # -1 /\ dep_check[d] > 0 /\ dep_check[d] < g
        BY <1>4, <2>1, <3>5
      <4>2. sent.rule[d].hasBarrier /\ J \in sent.rule[d].barrier
        BY <1>2, <2>3, <3>1, <4>1
      <4>3. TypeOf(d, J) = "P"
        <5>1. ~ (dep_check[Dep] <= 0 \/ dep_check[Dep] >= J)
          BY <1>1, <1>4, <1>7, <2>1, <3>1, <4>1
        <5> QED
          BY <1>3, <3>1, <5>1
      <4>4. sent.mask[d][J] = 2 \/ sent.dpnd[d][J] = "P"
        <5>1. sent.mask[d][J] = 2 \/ Dpnd[d][J] = "P"
          BY <1>1, <4>3, TypeCases
        <5>2. Dpnd[d][J] = sent.dpnd[d][J] \/ Dpnd[d][J] = NoDpnd
          BY <1>1, Zenon DEF Narrowed
        <5> QED
          BY <5>1, <5>2 DEF NoDpnd
      <4>5. PICK c \in (d + 1) .. (J - 1) : c < g /\ c = dep_check[d] /\ c \in Allowed(d) /\ c # Last
        <5>1. dep_check[d] \in Allowed(d)
          BY <4>1 DEF BarriersMet
        <5>2. dep_check[d] \in (d + 1) .. Last
          BY <5>1, AllowedIs, Zenon
        <5> QED
          BY <1>1, <1>7, <2>1, <4>1, <5>1, <5>2
      <4>6. MayHead(sent, d, c)
        <5>1. TypeOf(d, c) # NoDpnd
          BY <4>5, AllowedIs, Zenon
        <5>2. c \in Bnst
          BY <1>1, <2>1, PhraseBounds
        <5>3. Dpnd[d][c] = sent.dpnd[d][c] \/ Dpnd[d][c] = NoDpnd
          BY <1>1, <5>2, Zenon DEF Narrowed
        <5>4. Dpnd[d][c] # "R" \/ sent.dpnd[d][c] = "R"
          BY <5>3 DEF NoDpnd
        <5>5. \/ sent.mask[d][c] \in {2, 3}
              \/ sent.mask[d][c] = 1 /\ sent.quote[d][c] /\ Dpnd[d][c] # NoDpnd
              \/ Dpnd[d][c] = "R"
          BY <1>1, <4>5, <5>1, TypeCases
        <5> QED
          BY <5>3, <5>4, <5>5, Zenon DEF MayHead
      <4>7. \A y \in (c + 1) .. (J - 1) : sent.mask[d][y] \in {0, 2} /\ sent.dpnd[d][y] # "R"
        <5>1. PICK x \in Inputs : sent = x.sent
          BY DEF InputInv
        <5> QED
          BY <1>1, <1>3, <3>1, <4>2, <4>4, <4>5, <4>6, <5>1, Zenon DEF MarksDecide
      <4>8. TypeOf(d, g) = "P"
        <5>1. CASE g = J
          BY <4>3, <5>1
        <5>2. CASE g # J
          <6>1. g \in (c + 1) .. (J - 1) /\ g # Last
            BY <1>1, <1>7, <2>1, <4>5, <5>2
          <6>2. sent.mask[d][g] \in {0, 2} /\ sent.dpnd[d][g] # "R"
            BY <4>7, <6>1
          <6>3. Dpnd[d][g] # "R"
            <7>1. Dpnd[d][g] = sent.dpnd[d][g] \/ Dpnd[d][g] = NoDpnd
              BY <1>1, Zenon DEF Narrowed
            <7> QED
              BY <6>2, <7>1 DEF NoDpnd
          <6> QED
            BY <1>1, <1>7, <6>1, <6>2, <6>3, TypeCases
        <5> QED
          BY <5>1, <5>2
      <4> QED
        BY <4>8
    <3> QED
      BY <3>4, <3>5
  <2> QED
    BY <2>2, <2>3
<1>8. ASSUME NEW d \in Bnst, NEW g \in Bnst, g <= J
      PROVE  g \in Allowed(d)' <=> g \in Allowed(d)
  <2>1. g \in Allowed(d) <=> /\ g \in (d + 1) .. Last /\ TypeOf(d, g) # NoDpnd
                             /\ TypeOf(d, g) = "P" \/ dep_check[d] <= 0 \/ dep_check[d] >= g
    BY AllowedIs, Zenon
  <2>2. g \in Allowed(d)' <=> /\ g \in (d + 1) .. Last /\ TypeOf(d, g)' # NoDpnd
                              /\ TypeOf(d, g)' = "P" \/ dep_check'[d] <= 0 \/ dep_check'[d] >= g
    BY <1>6, Zenon
  <2>3. TypeOf(d, g)' = TypeOf(d, g)
    BY <1>5, <1>8
  <2> QED
    BY <1>7, <1>8, <2>1, <2>2, <2>3
<1> QED
  BY <1>5, <1>8, Zenon DEF Steady

\* As long as the heads stay, so do the trees and their arcs.
LEMMA TreesSteady ==
  ASSUME Steady, J \in Nat, NEW i \in Bnst, NEW j \in Bnst, j <= J
  PROVE  /\ TreesIn(i, j)' = TreesIn(i, j)
         /\ \A h \in TreesIn(i, j) : Arrows(h, i, j)' = Arrows(h, i, j)
         /\ \A n : FirstUpto(i, j, n)' = FirstUpto(i, j, n)
<1>1. i \in Nat /\ j \in Nat /\ j <= Last /\ Last \in Nat
  BY PhraseBounds
<1>2. \A d \in i .. (j - 1) : d \in Bnst
  BY <1>1, PhraseBounds
<1>3. \A g \in i .. j : g \in Bnst /\ g <= J
  BY <1>1, PhraseBounds
<1>4. \A d \in i .. (j - 1), g \in i .. j :
        (g \in Allowed(d)' <=> g \in Allowed(d)) /\ ArcTo(d, g)' = ArcTo(d, g)
  BY <1>2, <1>3, Zenon DEF Steady
<1>5. ASSUME NEW h \in [i .. (j - 1) -> i .. j]
      PROVE  /\ \A d \in i .. (j - 1) : h[d] \in Allowed(d)' <=> h[d] \in Allowed(d)
             /\ \A d \in i .. (j - 1) : ArcTo(d, h[d])' = ArcTo(d, h[d])
  <2>1. \A d \in i .. (j - 1) : h[d] \in i .. j
    BY Zenon
  <2> QED
    BY <1>4, <2>1, Zenon
<1>6. TreesIn(i, j)' = {h \in [i .. (j - 1) -> i .. j] :
                          /\ \A d \in i .. (j - 1) : h[d] \in Allowed(d)'
                          /\ \A b, c \in i .. (j - 1) : ~ Crossing(h, b, c)}
  BY Zenon DEF TreesIn
<1>7. TreesIn(i, j)' \subseteq TreesIn(i, j)
  BY <1>5, <1>6, Zenon DEF TreesIn
<1>8. TreesIn(i, j) \subseteq TreesIn(i, j)'
  BY <1>5, <1>6, Zenon DEF TreesIn
<1>9. TreesIn(i, j)' = TreesIn(i, j)
  BY <1>7, <1>8, Zenon
<1>10. ASSUME NEW h \in TreesIn(i, j)
       PROVE  Arrows(h, i, j)' = Arrows(h, i, j)
  <2>1. h \in [i .. (j - 1) -> i .. j]
    BY Zenon DEF TreesIn
  <2> QED
    BY <1>5, <2>1, Zenon DEF Arrows
<1>11. \A n : FirstUpto(i, j, n)' = FirstUpto(i, j, n)
  BY <1>9, Zenon DEF FirstUpto
<1> QED
  BY <1>9, <1>10, <1>11

\* So a list that is exact stays exact.
LEMMA ListsSteady ==
  ASSUME Steady, J \in Nat, NEW i \in Bnst, NEW j \in Bnst, j <= J, NEW l, NEW X,
         X \subseteq TreesIn(i, j), Lists(l, X, Cover(i, j))
  PROVE  Lists(l, X, Cover(i, j)')
<1>1. ASSUME NEW h \in X
      PROVE  Cover(i, j)[h] = Cover(i, j)'[h]
  <2>1. h \in TreesIn(i, j) /\ h \in TreesIn(i, j)'
    BY TreesSteady, Zenon
  <2>2. Arrows(h, i, j)' = Arrows(h, i, j)
    BY <2>1, TreesSteady, Zenon
  <2>3. Cover(i, j)[h] = Arrows(h, i, j)
    BY <2>1, Zenon DEF Cover
  <2>4. Cover(i, j)'[h] = Arrows(h, i, j)'
    BY <2>1, Zenon DEF Cover
  <2> QED
    BY <2>2, <2>3, <2>4, Zenon
<1>2. PICK C : C = Cover(i, j)
  OBVIOUS
<1>3. PICK D : D = Cover(i, j)'
  OBVIOUS
<1>4. Lists(l, X, D)
  BY <1>1, <1>2, <1>3, ListsAs, Zenon
<1> QED
  BY <1>3, <1>4, Zenon

\* Steps that leave the barriers leave the heads.
LEMMA StillHeads ==
  ASSUME UNCHANGED <<opt, sent, Dpnd, para, dep_check>>
  PROVE  /\ \A d : Allowed(d)' = Allowed(d)
         /\ \A d, g : ArcTo(d, g)' = ArcTo(d, g)
<1>1. opt' = opt /\ sent' = sent /\ Dpnd' = Dpnd /\ para' = para /\ dep_check' = dep_check
  OBVIOUS
<1>2. \A d, g : TypeOf(d, g)' = TypeOf(d, g)
  BY <1>1, Zenon DEF TypeOf, Possibility, OptParaFix
<1>3. \A d, g : ArcTo(d, g)' = ArcTo(d, g)
  BY <1>1, <1>2, Zenon DEF ArcTo
<1>4. ASSUME NEW d
      PROVE  Allowed(d)' = Allowed(d)
  <2>1. Allowed(d)' = {g \in (d + 1) .. Last :
                         /\ TypeOf(d, g)' # NoDpnd
                         /\ TypeOf(d, g)' = "P" \/ dep_check'[d] <= 0 \/ dep_check'[d] >= g}
    BY Zenon DEF Allowed, TypeOf
  <2>2. Allowed(d) = {g \in (d + 1) .. Last :
                        /\ TypeOf(d, g) # NoDpnd
                        /\ TypeOf(d, g) = "P" \/ dep_check[d] <= 0 \/ dep_check[d] >= g}
    BY AllowedIs, Zenon
  <2>3. \A g : TypeOf(d, g)' = TypeOf(d, g) /\ dep_check'[d] = dep_check[d]
    BY <1>1, <1>2, Zenon
  <2> QED
    BY <2>1, <2>2, <2>3, Zenon
<1> QED
  BY <1>3, <1>4, Zenon

LEMMA StillSteady ==
  ASSUME UNCHANGED <<opt, sent, Dpnd, para, dep_check>>
  PROVE  Steady
BY StillHeads, Zenon DEF Steady

\* The list of no trees.
LEMMA ListsEmpty ==
  ASSUME NEW S, NEW l \in Seq(S), NEW C, Lists(l, {}, C)
  PROVE  l = <<>>
<1>1. PICK f : f \in [1 .. Len(l) -> {}]
  BY Zenon DEF Lists, Numbers
<1>2. Len(l) # 0 => 1 \in 1 .. Len(l)
  OBVIOUS
<1>3. Len(l) = 0
  BY <1>1, <1>2, Zenon
<1> QED
  BY <1>3, EmptySeq
-----------------------------------------------------------------------------
(* The steps of cky keep the chart exact                                   *)

\* The columns of the loops.
LEMMA AdvanceGoesOn ==
  ASSUME LoopInv, Advance, phase' = "fill"
  PROVE  /\ J <= J' /\ k' = 0 /\ J' \in Nat
         /\ \A i, j \in Bnst : i <= j /\ Closed(i, j)' => Closed(i, j) \/ (i = I /\ j = J)
<1>1. /\ I \in Bnst /\ J \in Bnst /\ I <= J /\ cell = <<I, J>> /\ I \in Nat /\ J \in Nat
      /\ J <= Last /\ Last \in Nat
  BY SplitBounds, PhraseBounds
<1>2. phase' = (IF cell = <<0, Last>> THEN "choose" ELSE "fill") /\ k' = 0
  BY DEF Advance
<1>3. J <= J' /\ J' \in Nat
  <2>1. CASE I > 0
    <3>1. J' = J
      BY <2>1 DEF Advance, J
    <3> QED
      BY <1>1, <3>1
  <2>2. CASE ~ (I > 0)
    <3>1. J < Last
      BY <1>1, <1>2, <2>2
    <3>2. J' = J + 1
      BY <2>2, <3>1 DEF Advance, J
    <3> QED
      BY <1>1, <3>2
  <2> QED
    BY <2>1, <2>2
<1>4. ASSUME NEW i \in Bnst, NEW j \in Bnst, i <= j, Closed(i, j)'
      PROVE  Closed(i, j) \/ (i = I /\ j = J)
  <2>1. Filled(i, j)'
    BY <1>4 DEF Closed, Filled
  <2>2. Filled(i, j) \/ (i = I /\ j = J)
    BY <1>4, <2>1, AdvanceFills, Zenon
  <2> QED
    BY <2>2 DEF Closed, Filled
<1> QED
  BY <1>2, <1>3, <1>4, Zenon

\* Cells that are closed stay exact.
LEMMA ClosedSteady ==
  ASSUME LoopInv, FillExact, Steady, NEW i \in Bnst, NEW j \in Bnst, i <= j, Closed(i, j),
         cky_matrix'[<<i, j>>] = cky_matrix[<<i, j>>]
  PROVE  Exact(i, j)'
<1>1. j <= J /\ J \in Nat
  BY SplitBounds, PhraseBounds DEF Closed
<1>2. PICK l : l = cky_matrix[<<i, j>>]
  OBVIOUS
<1>3. Lists(l, TreesIn(i, j), Cover(i, j))
  BY <1>2, Zenon DEF FillExact, Exact
<1>4. PICK X : X = TreesIn(i, j)
  OBVIOUS
<1>5. X = TreesIn(i, j)'
  BY <1>1, <1>4, TreesSteady, Zenon
<1>6. Lists(l, X, Cover(i, j)')
  BY <1>1, <1>3, <1>4, ListsSteady, Zenon
<1> QED
  BY <1>2, <1>5, <1>6, Zenon DEF Exact

\* An action that ends a cell with an exact list keeps the chart exact.
LEMMA AdvanceExact ==
  ASSUME LoopInv, LoopInv', ChartInv, Narrowed, Whole, FillExact, Advance, NEW new,
         Lists(new, TreesIn(I, J), Cover(I, J)),
         cky_matrix' = [cky_matrix EXCEPT ![cell] = new],
         UNCHANGED <<opt, sent, Dpnd, para, dep_check>>
  PROVE  ExactInv'
<1>1. /\ I \in Bnst /\ J \in Bnst /\ I <= J /\ cell = <<I, J>> /\ J \in Nat /\ cell \in Cells
      /\ DOMAIN cky_matrix = Cells
  BY SplitBounds DEF LoopInv, ChartInv
<1>2. Steady
  BY StillSteady, Zenon
<1>3. Narrowed'
  BY Zenon DEF Narrowed, OptParaFix
<1>4. ASSUME NEW i \in Bnst, NEW j \in Bnst, i <= j, Closed(i, j) \/ (i = I /\ j = J)
      PROVE  Exact(i, j)'
  <2>1. <<i, j>> \in Cells
    BY <1>4, CellBounds
  <2>2. CASE i = I /\ j = J
    <3>1. cky_matrix'[<<i, j>>] = new
      BY <1>1, <2>2
    <3>2. PICK X : X = TreesIn(i, j)
      OBVIOUS
    <3>3. X = TreesIn(i, j)'
      BY <1>1, <1>2, <2>2, <3>2, TreesSteady, PhraseBounds
    <3>4. Lists(new, X, Cover(i, j)) /\ j <= J
      BY <1>1, <2>2, <3>2, PhraseBounds
    <3>5. Lists(new, X, Cover(i, j)')
      BY <1>1, <1>2, <3>2, <3>4, ListsSteady, Zenon
    <3> QED
      BY <3>1, <3>3, <3>5, Zenon DEF Exact
  <2>3. CASE ~ (i = I /\ j = J)
    <3>1. cky_matrix'[<<i, j>>] = cky_matrix[<<i, j>>]
      BY <1>1, <2>1, <2>3
    <3> QED
      BY <1>2, <1>4, <2>3, <3>1, ClosedSteady, Zenon
  <2> QED
    BY <2>2, <2>3
<1>5. phase' \in {"fill", "choose"}
  BY DEF Advance
<1>6. CASE phase' = "fill"
  <2>1. J <= J' /\ k' = 0 /\ J' \in Nat
    BY <1>6, AdvanceGoesOn
  <2>2. BarriersMet'
    <3>1. \A d \in Bnst : dep_check[d] <= J /\ dep_check[d] \in -1 .. Last /\ dep_check'[d] = dep_check[d]
      BY DEF FillExact, BarriersMet, LoopInv
    <3>2. \A d \in Bnst : dep_check'[d] <= J'
      BY <1>1, <2>1, <3>1
    <3>3. ASSUME NEW d \in Bnst, dep_check'[d] > 0
          PROVE  dep_check'[d] \in Allowed(d)'
      <4>1. PICK g : g = dep_check[d]
        OBVIOUS
      <4>2. g \in Allowed(d) /\ g <= J /\ g \in -1 .. Last /\ dep_check'[d] = g
        BY <3>1, <3>3, <4>1 DEF FillExact, BarriersMet
      <4>3. g \in Bnst
        BY <3>3, <4>2, PhraseBounds
      <4> QED
        BY <1>2, <4>2, <4>3, Zenon DEF Steady
    <3> QED
      BY <3>2, <3>3, Zenon DEF BarriersMet
  <2>3. \A i, j \in Bnst : i <= j /\ Closed(i, j)' => Exact(i, j)'
    BY <1>4, <1>6, AdvanceGoesOn, Zenon
  <2>4. ~ (k' > 0)
    BY <2>1
  <2>5. FillExact'
    BY <2>2, <2>3, <2>4, Zenon DEF FillExact
  <2> QED
    BY <1>3, <1>6, <2>5 DEF ExactInv
<1>7. CASE phase' = "choose"
  <2>1. I = 0 /\ J = Last /\ 0 \in Bnst /\ Last \in Bnst /\ 0 <= Last
    BY <1>7, AdvanceFills, PhraseBounds
  <2>2. Exact(0, Last)'
    BY <1>4, <2>1, Zenon
  <2>3. J' = Last
    BY <1>1, <2>1 DEF Advance, J
  <2> QED
    BY <1>3, <1>7, <2>2, <2>3 DEF ExactInv
<1> QED
  BY <1>5, <1>6, <1>7

\* A single phrase.
LEMMA LeafExact ==
  ASSUME ScoresCompare, IInv, IInv', ExactInv, Leaf
  PROVE  ExactInv'
<1>1. InputInv /\ LoopInv /\ ChartInv /\ LoopInv'
  BY DEF IInv
<1>2. /\ phase = "fill" /\ I = J /\ Advance /\ opt' = opt
      /\ UNCHANGED <<opt, sent, Dpnd, para, dep_check>>
      /\ cky_matrix' = [cky_matrix EXCEPT ![cell] = <<>> \o <<LeafEntry(J)>>]
  BY DEF Leaf, Add
<1>3. Narrowed /\ Narrowed'
  BY <1>2, Zenon DEF ExactInv, Narrowed, OptParaFix
<1>4. CASE ~ Whole
  <2>1. ~ Whole'
    BY <1>2, <1>4 DEF Whole, OptParaFix, OptNbest, OptBeam
  <2> QED
    BY <1>3, <2>1 DEF ExactInv
<1>5. CASE Whole
  <2>1. FillExact
    BY <1>2, <1>5 DEF ExactInv
  <2>2. J \in Bnst /\ J \in Nat /\ J .. (J - 1) = {}
    BY <1>1, SplitBounds
  <2> DEFINE h == [d \in J .. (J - 1) |-> J]
  <2>3. TreesIn(J, J) = {h}
    <3>1. h \in TreesIn(J, J)
      BY <2>2 DEF TreesIn
    <3>2. \A x \in TreesIn(J, J) : x = h
      BY <2>2 DEF TreesIn
    <3> QED
      BY <3>1, <3>2
  <2>4. Arrows(h, J, J) = <<>>
    BY <2>2 DEF Arrows
  <2>5. LeafEntry(J).arcs = <<>>
    BY DEF LeafEntry, Scored
  <2>6. PICK e : e = LeafEntry(J)
    OBVIOUS
  <2> HIDE DEF h
  <2>7. e.arcs = Cover(J, J)[h]
    BY <2>3, <2>4, <2>5, <2>6 DEF Cover
  <2>8. Lists(<<e>>, TreesIn(J, J), Cover(J, J))
    BY <2>3, <2>7, ListsOne
  <2>9. <<>> \o <<e>> = <<e>>
    OBVIOUS
  <2>10. Lists(<<e>>, TreesIn(I, J), Cover(I, J)) /\ cky_matrix' = [cky_matrix EXCEPT ![cell] = <<e>>]
    BY <1>2, <2>6, <2>8, <2>9
  <2> QED
    BY <1>1, <1>2, <1>3, <1>5, <2>1, <2>10, AdvanceExact, Zenon
<1> QED
  BY <1>4, <1>5

\* All splits have been made: the cell holds all trees, and keeps them when it is sorted.
LEMMA CloseCellExact ==
  ASSUME IInv, IInv', ExactInv, CloseCell
  PROVE  ExactInv'
<1>1. InputInv /\ LoopInv /\ ChartInv /\ LoopInv'
  BY DEF IInv
<1>2. /\ phase = "fill" /\ I < J /\ k = (IF OptParaFix THEN J - I ELSE J - I + 1) /\ Advance
      /\ UNCHANGED <<opt, sent, Dpnd, para, dep_check>>
      /\ cky_matrix' = [cky_matrix EXCEPT ![cell] = Pruned(cky_matrix[cell])]
  BY DEF CloseCell
<1>3. Narrowed /\ Narrowed'
  BY <1>2, Zenon DEF ExactInv, Narrowed, OptParaFix
<1>4. CASE ~ Whole
  <2>1. ~ Whole'
    BY <1>2, <1>4 DEF Whole, OptParaFix, OptNbest, OptBeam
  <2> QED
    BY <1>3, <2>1 DEF ExactInv
<1>5. CASE Whole
  <2>1. FillExact /\ OptParaFix /\ OptBeam = 0
    BY <1>2, <1>5 DEF ExactInv, Whole
  <2>2. /\ I \in Bnst /\ J \in Bnst /\ I <= J /\ cell = <<I, J>> /\ J \in Nat /\ I \in Nat
    BY <1>1, SplitBounds
  <2>3. k = J - I /\ k > 0 /\ 0 \in 0 .. (J - I - 1)
    BY <1>2, <2>1, <2>2
  <2>4. PICK l : l = cky_matrix[cell]
    OBVIOUS
  <2>5. l \in Seq(Entries(I, J))
    BY <1>1, <2>2, <2>4, Zenon DEF ChartInv
  <2>6. Lists(l, FirstUpto(I, J, J - I), Cover(I, J))
    BY <1>2, <2>1, <2>2, <2>3, <2>4 DEF FillExact
  <2>7. FirstUpto(I, J, J - I) = TreesIn(I, J)
    BY <1>2, <2>2, <2>3, FirstSplits, Zenon
  <2>8. Lists(l, TreesIn(I, J), Cover(I, J))
    BY <2>6, <2>7, Zenon
  <2>9. CASE l = <<>>
    <3>1. Pruned(l) = l
      BY <2>9, Zenon DEF Pruned
    <3>2. cky_matrix' = [cky_matrix EXCEPT ![cell] = l]
      BY <1>2, <2>4, <3>1
    <3> QED
      BY <1>1, <1>2, <1>3, <1>5, <2>1, <2>8, <3>2, AdvanceExact, Zenon
  <2>10. CASE l # <<>>
    <3>1. Pruned(l) = SortCkyPtrs(l, 1)
      BY <2>1, <2>10, Zenon DEF Pruned
    <3>2. 1 \in 1 .. Len(l) /\ ~ (1 > Len(l)) /\ 1 \in Nat
      BY <2>5, <2>10, EmptySeq
    <3>3. \A e \in Entries(I, J) : e.score \in Int
      BY DEF Entries
    <3>4. SortCkyPtrs(l, 1) = IF 1 > Len(l) THEN l ELSE MoveTo(l, BestFrom(l, 1), 1)
      BY <2>5, <3>2, <3>3, SortStays
    <3>5. Pruned(l) = MoveTo(l, BestFrom(l, 1), 1)
      BY <3>1, <3>2, <3>4, Zenon
    <3>6. BestFrom(l, 1) \in 1 .. Len(l)
      BY <2>5, <3>2, <3>3, BestFromIn
    <3>7. PICK new : new = Pruned(l)
      OBVIOUS
    <3>8. Lists(new, TreesIn(I, J), Cover(I, J))
      BY <2>5, <2>8, <3>5, <3>6, <3>7, ListsMoved, Zenon
    <3>9. cky_matrix' = [cky_matrix EXCEPT ![cell] = new]
      BY <1>2, <2>4, <3>7
    <3> QED
      BY <1>1, <1>2, <1>3, <1>5, <2>1, <3>8, <3>9, AdvanceExact, Zenon
  <2> QED
    BY <2>9, <2>10
<1> QED
  BY <1>4, <1>5

\* A split that yields no entry may set no barrier: where one is allowed, there is an
\* entry, because no part is empty or because the barrier stays.
LEMMA MergeSteady ==
  ASSUME MarksDecide, InputInv, LoopInv, LoopInv', Narrowed, Whole, FillExact, k < J - I,
         NEW S, Merged \in Seq(S), Lists(Merged, FirstAt(I, Dep, J), Cover(I, J)),
         UNCHANGED <<opt, sent, Dpnd, para>>,
         dep_check' = IF Merged = <<>> THEN dep_check ELSE [dep_check EXCEPT ![Dep] = BarrierAfter]
  PROVE  /\ Steady
         /\ \A d \in Bnst : dep_check'[d] <= J /\ (dep_check'[d] > 0 => dep_check'[d] \in Allowed(d)')
<1>1. /\ I \in Bnst /\ J \in Bnst /\ Dep \in Bnst /\ Dep + 1 \in Bnst
      /\ I <= Dep /\ Dep + 1 <= J /\ I \in Nat /\ J \in Nat /\ Dep \in Nat
  BY SplitBounds
<1>2. Dep < J
  BY <1>1
<1>3. /\ dep_check \in [Bnst -> -1 .. Last]
      /\ \A d \in Bnst : dep_check[d] <= J /\ (dep_check[d] > 0 => dep_check[d] \in Allowed(d))
  BY DEF LoopInv, FillExact, BarriersMet
<1>4. ASSUME Steady, NEW d \in Bnst, NEW g \in Allowed(d), g <= J, g \in -1 .. Last, g > 0
       PROVE  g \in Allowed(d)'
  <2>1. g \in Bnst
    BY <1>4, PhraseBounds
  <2> QED
    BY <1>4, <2>1, Zenon DEF Steady
<1>5. CASE Merged = <<>>
  <2>1. dep_check' = dep_check
    BY <1>5
  <2>2. Steady
    BY <2>1, StillSteady, Zenon
  <2>3. ASSUME NEW d \in Bnst, dep_check'[d] > 0
        PROVE  dep_check'[d] \in Allowed(d)'
    <3>1. PICK g : g = dep_check[d]
      OBVIOUS
    <3>2. g \in Allowed(d) /\ g <= J /\ g \in -1 .. Last /\ g > 0 /\ dep_check'[d] = g
      BY <1>3, <2>1, <2>3, <3>1
    <3> QED
      BY <1>4, <2>2, <3>2
  <2> QED
    BY <1>3, <2>1, <2>2, <2>3, Zenon
<1>6. CASE Merged # <<>>
  <2>1. J \in Allowed(Dep)
    <3>1. ASSUME J \notin Allowed(Dep)
          PROVE  FALSE
      <4>1. FirstAt(I, Dep, J) = {}
        BY <1>1, <1>2, <3>1, GlueAll, Zenon
      <4>2. Merged = <<>>
        BY <4>1, ListsEmpty, Zenon
      <4> QED
        BY <1>6, <4>2
    <3> QED
      BY <3>1
  <2>2. ASSUME NEW d \in Bnst
        PROVE  dep_check'[d] = dep_check[d] \/ (d = Dep /\ dep_check'[d] = BarrierAfter)
    BY <1>3, <1>6
  <2>3. Steady
    BY <1>3, <2>1, <2>2, BarrierSteady, Zenon DEF FillExact
  <2>4. BarrierAfter \in {dep_check[Dep], 0, J}
    BY Zenon DEF BarrierAfter
  <2>5. \A d \in Bnst : dep_check'[d] <= J
    BY <1>1, <1>3, <2>2, <2>4
  <2>6. ASSUME NEW d \in Bnst, dep_check'[d] > 0
        PROVE  dep_check'[d] \in Allowed(d)'
    <3>1. PICK g : g = dep_check'[d]
      OBVIOUS
    <3>2. g \in Allowed(d) /\ g <= J /\ g \in -1 .. Last /\ g > 0
      <4>1. g <= J /\ g \in -1 .. Last /\ g > 0
        BY <2>5, <2>6, <3>1 DEF LoopInv
      <4>2. g = dep_check[d] \/ (d = Dep /\ g = J)
        BY <2>2, <2>4, <3>1, <4>1
      <4> QED
        BY <1>3, <2>1, <4>1, <4>2
    <3> QED
      BY <1>4, <2>3, <3>1, <3>2
  <2> QED
    BY <2>3, <2>5, <2>6
<1> QED
  BY <1>5, <1>6

\* A split adds the trees it is to add, and the barrier it sets changes none.
LEMMA MergeExact ==
  ASSUME ScoresCompare, MarksDecide, IInv, IInv', SoundInv, ExactInv, Merge
  PROVE  ExactInv'
<1> DEFINE old == IF k = 0 THEN <<>> ELSE cky_matrix[cell]
           S == SoundEntries(I, J)
           C == Cover(I, J)
<1>1. InputInv /\ LoopInv /\ ChartInv /\ LoopInv'
  BY DEF IInv
<1>2. /\ phase = "fill" /\ phase' = phase /\ k < J - I /\ k' = k + 1 /\ cell' = cell
      /\ UNCHANGED <<opt, sent, Dpnd, para>>
      /\ cky_matrix' = [cky_matrix EXCEPT ![cell] = old \o Merged]
      /\ dep_check' = IF Merged = <<>> THEN dep_check ELSE [dep_check EXCEPT ![Dep] = BarrierAfter]
  BY DEF Merge, Add
<1>3. Narrowed /\ Narrowed'
  BY <1>2, Zenon DEF ExactInv, Narrowed, OptParaFix
<1>4. CASE ~ Whole
  <2>1. ~ Whole'
    BY <1>2, <1>4 DEF Whole, OptParaFix, OptNbest, OptBeam
  <2> QED
    BY <1>3, <2>1 DEF ExactInv
<1>5. CASE Whole
  <2>1. FillExact /\ FillSound /\ OptParaFix
    BY <1>2, <1>5 DEF ExactInv, SoundInv, Whole
  <2>2. /\ I \in Bnst /\ J \in Bnst /\ I <= J /\ cell = <<I, J>> /\ J \in Nat /\ I \in Nat /\ k \in Nat
        /\ Dep \in Bnst /\ Dep + 1 \in Bnst /\ I <= Dep /\ Dep + 1 <= J /\ Dep \in Nat /\ Dep = I + k
        /\ cell \in Cells /\ DOMAIN cky_matrix = Cells
    BY <1>1, <1>2, SplitBounds DEF Dep, LoopInv, ChartInv
  <2>3. I < J /\ k \in 0 .. (J - I - 1)
    BY <1>2, <2>2
  <2>4. Exact(I, Dep) /\ Exact(Dep + 1, J)
    <3>1. Closed(I, Dep) /\ Closed(Dep + 1, J)
      BY <2>2 DEF Closed
    <3> QED
      BY <2>1, <2>2, <3>1, Zenon DEF FillExact
  <2>5. Lists(Merged, FirstAt(I, Dep, J), C) /\ Merged \in Seq(S)
    <3>1. Lists(Merged, FirstAt(I, Dep, J), C)
      BY <1>1, <1>2, <1>5, <2>1, <2>4, MergedLists, Zenon DEF Exact
    <3> QED
      BY <1>1, <1>2, <2>1, <3>1, MergedSound, Zenon
  <2>6. Lists(old, FirstUpto(I, J, k), C)
    <3>1. CASE k = 0
      <4>1. FirstUpto(I, J, k) = {}
        BY <2>2, <2>3, <3>1, FirstSplits, Zenon
      <4> QED
        BY <3>1, <4>1, ListsNone, Zenon
    <3>2. CASE k # 0
      <4>1. k > 0
        BY <2>2, <3>2
      <4> QED
        BY <2>1, <2>2, <2>3, <3>2, <4>1, Zenon DEF FillExact
    <3> QED
      BY <3>1, <3>2
  <2>7. old \in Seq(S)
    <3>1. <<>> \in Seq(S)
      OBVIOUS
    <3>2. k # 0 => Filled(I, J)
      BY <2>2 DEF Filled
    <3>3. k # 0 => cky_matrix[cell] \in Seq(S)
      BY <2>1, <2>2, <3>2, Zenon DEF FillSound
    <3> QED
      BY <3>1, <3>3, Zenon
  <2>8. /\ Steady
        /\ \A d \in Bnst : dep_check'[d] <= J /\ (dep_check'[d] > 0 => dep_check'[d] \in Allowed(d)')
    BY <1>1, <1>2, <1>3, <1>5, <2>1, <2>5, MergeSteady, Zenon
  <2> HIDE DEF S, C
  <2>9. PICK new : new = old \o Merged
    OBVIOUS
  <2>10. Lists(new, FirstUpto(I, J, k + 1), C)
    <3>1. /\ FirstUpto(I, J, k + 1) = FirstUpto(I, J, k) \cup FirstAt(I, Dep, J)
          /\ FirstUpto(I, J, k) \cap FirstAt(I, Dep, J) = {}
      BY <2>2, <2>3, FirstSplits, Zenon
    <3> HIDE DEF old
    <3>2. Lists(old \o Merged, FirstUpto(I, J, k) \cup FirstAt(I, Dep, J), C)
      <4>1. PICK X : X = FirstUpto(I, J, k)
        OBVIOUS
      <4>2. PICK Y : Y = FirstAt(I, Dep, J)
        OBVIOUS
      <4>3. X \cap Y = {} /\ Lists(old, X, C) /\ Lists(Merged, Y, C)
        BY <2>5, <2>6, <3>1, <4>1, <4>2, Zenon
      <4>4. old \in Seq(S) /\ Merged \in Seq(S)
        BY <2>5, <2>7
      <4>5. Lists(old \o Merged, X \cup Y, C)
        BY <4>3, <4>4, ListsJoin, Zenon
      <4> QED
        BY <4>1, <4>2, <4>5, Zenon
    <3> QED
      BY <2>9, <3>1, <3>2, Zenon
  <2>11. cky_matrix' = [cky_matrix EXCEPT ![cell] = new]
    BY <1>2, <2>9
  <2> HIDE DEF old
  <2>12. I' = I /\ J' = J
    BY <1>2 DEF I, J
  <2>13. ASSUME NEW i \in Bnst, NEW j \in Bnst, i <= j, Closed(i, j)'
         PROVE  Exact(i, j)'
    <3>1. Closed(i, j) /\ ~ (i = I /\ j = J)
      BY <2>2, <2>12, <2>13 DEF Closed
    <3>2. <<i, j>> \in Cells
      BY <2>13, CellBounds
    <3>3. cky_matrix'[<<i, j>>] = cky_matrix[<<i, j>>]
      BY <2>2, <2>11, <3>1, <3>2
    <3> QED
      BY <1>1, <2>1, <2>8, <2>13, <3>1, <3>3, ClosedSteady, Zenon
  <2>14. Lists(cky_matrix[<<I, J>>], FirstUpto(I, J, k), Cover(I, J))'
    <3>1. PICK i \in Bnst : i = I
      BY <2>2
    <3>2. PICK j \in Bnst : j = J
      BY <2>2
    <3>3. PICK n : n = k + 1
      OBVIOUS
    <3>4. j <= J
      BY <2>2, <3>2
    <3>5. PICK X : X = FirstUpto(i, j, n)
      OBVIOUS
    <3>6. X \subseteq TreesIn(i, j)
      BY <3>5, Zenon DEF FirstUpto
    <3>7. Lists(new, X, Cover(i, j))
      BY <2>10, <3>1, <3>2, <3>3, <3>5, Zenon DEF C
    <3>8. Lists(new, X, Cover(i, j)')
      BY <2>2, <2>8, <3>4, <3>6, <3>7, ListsSteady, Zenon
    <3>9. X = FirstUpto(i, j, n)'
      BY <2>2, <2>8, <3>4, <3>5, TreesSteady, Zenon
    <3>10. i = I' /\ j = J' /\ n = k'
      BY <1>2, <2>12, <3>1, <3>2, <3>3
    <3>11. cky_matrix'[<<I', J'>>] = new
      BY <2>2, <2>11, <2>12
    <3> QED
      BY <3>8, <3>9, <3>10, <3>11, Zenon
  <2>15. FillExact'
    BY <2>8, <2>12, <2>13, <2>14, Zenon DEF FillExact, BarriersMet
  <2> QED
    BY <1>2, <1>3, <2>15 DEF ExactInv
<1> QED
  BY <1>4, <1>5

\* The restriction of the matrix at the beginning of cky only takes dependencies out.
LEMMA RestrictNarrows ==
  ASSUME NEW D, NEW d \in Bnst, NEW g \in Bnst
  PROVE  /\ RestrictParenthetic(D)[d][g] = D[d][g] \/ RestrictParenthetic(D)[d][g] = NoDpnd
         /\ RestrictEndPrefer(D)[d][g] = D[d][g] \/ RestrictEndPrefer(D)[d][g] = NoDpnd
<1>1. \A G : Keep(D, d, G)[g] = D[d][g] \/ Keep(D, d, G)[g] = NoDpnd
  BY Zenon DEF Keep
<1>2. RestrictParenthetic(D)[d][g] = D[d][g] \/ RestrictParenthetic(D)[d][g] = NoDpnd
  BY <1>1, Zenon DEF RestrictParenthetic
<1>3. RestrictEndPrefer(D)[d][g] = D[d][g] \/ RestrictEndPrefer(D)[d][g] = NoDpnd
  BY <1>1, Zenon DEF RestrictEndPrefer
<1> QED
  BY <1>2, <1>3

\* The beginning of an attempt.
LEMMA BeginExact ==
  ASSUME ExactInv, Begin
  PROVE  ExactInv'
<1>1. /\ phase' = "fill" /\ cell' = <<0, 0>> /\ k' = 0 /\ dep_check' = [b \in Bnst |-> -1]
      /\ opt' = opt /\ sent' = sent
      /\ OptParaFix => Dpnd' = RestrictEndPrefer(RestrictParenthetic(Dpnd))
  BY DEF Begin
<1>2. I' = 0 /\ J' = 0
  BY <1>1 DEF I, J
<1>3. Narrowed'
  <2>1. ASSUME OptParaFix, NEW d \in Bnst, NEW g \in Bnst
        PROVE  Dpnd'[d][g] = sent.dpnd[d][g] \/ Dpnd'[d][g] = NoDpnd
    <3>1. Dpnd[d][g] = sent.dpnd[d][g] \/ Dpnd[d][g] = NoDpnd
      BY <2>1, Zenon DEF ExactInv, Narrowed
    <3>2. PICK D : D = RestrictParenthetic(Dpnd)
      OBVIOUS
    <3>3. D[d][g] = Dpnd[d][g] \/ D[d][g] = NoDpnd
      BY <3>2, RestrictNarrows, Zenon
    <3>4. Dpnd' = RestrictEndPrefer(D)
      BY <1>1, <2>1, <3>2
    <3>5. Dpnd'[d][g] = D[d][g] \/ Dpnd'[d][g] = NoDpnd
      BY <3>4, RestrictNarrows, Zenon
    <3> QED
      BY <3>1, <3>3, <3>5, Zenon
  <2> QED
    BY <1>1, <2>1, Zenon DEF Narrowed, OptParaFix
<1>4. FillExact'
  <2>1. BarriersMet'
    BY <1>1, <1>2 DEF BarriersMet
  <2>2. \A i, j \in Bnst : i <= j => ~ Closed(i, j)'
    BY <1>2, PhraseBounds DEF Closed
  <2>3. ~ (I' < J')
    BY <1>2
  <2> QED
    BY <2>1, <2>2, <2>3, Zenon DEF FillExact
<1> QED
  BY <1>1, <1>3, <1>4 DEF ExactInv

\* The other steps are no part of cky.
LEMMA RestExact ==
  ASSUME ExactInv, Coordinate \/ TableFull \/ NoAnalysis \/ Choose \/ Convert \/ Finish \/ Retry \/ GiveUp
  PROVE  ExactInv'
<1>1. opt' = opt /\ sent' = sent /\ Dpnd' = Dpnd
  BY DEF Coordinate, Add, TableFull, NoAnalysis, Choose, Convert, Finish, Retry, GiveUp
<1>2. Narrowed'
  BY <1>1, Zenon DEF ExactInv, Narrowed, OptParaFix
<1>3. CASE Coordinate
  <2>1. ~ OptParaFix'
    BY <1>1, <1>3 DEF Coordinate, OptParaFix
  <2>2. ~ Whole'
    BY <2>1 DEF Whole
  <2> QED
    BY <1>2, <2>2 DEF ExactInv
<1>4. CASE TableFull \/ NoAnalysis \/ Choose \/ Convert \/ Finish \/ Retry \/ GiveUp
  <2>1. phase' \in {"failed", "after", "done", "start"}
    BY <1>4 DEF TableFull, NoAnalysis, Choose, Convert, Finish, Retry, GiveUp, Printed
  <2>2. phase' # "fill" /\ phase' # "choose"
    BY <2>1
  <2> QED
    BY <1>2, <2>2 DEF ExactInv
<1> QED
  BY <1>3, <1>4

\* Nothing changes.
LEMMA IdleExact ==
  ASSUME IInv, ExactInv, UNCHANGED vars
  PROVE  ExactInv'
<1>1. /\ opt' = opt /\ sent' = sent /\ Dpnd' = Dpnd /\ para' = para /\ dep_check' = dep_check
      /\ cell' = cell /\ k' = k /\ cky_matrix' = cky_matrix /\ phase' = phase
  BY DEF vars, chart
<1>2. I' = I /\ J' = J
  BY <1>1 DEF I, J
<1>3. /\ Whole' <=> Whole
      /\ Narrowed' <=> Narrowed
  BY <1>1, Zenon DEF Whole, Narrowed, OptParaFix, OptNbest, OptBeam
<1>4. Steady
  BY <1>1, StillSteady, Zenon
<1>5. /\ I \in Bnst /\ J \in Bnst /\ I <= J /\ J \in Nat /\ J <= J
  BY SplitBounds DEF IInv
<1>6. ASSUME FillExact
      PROVE  FillExact'
  <2>1. BarriersMet'
    <3>1. \A d \in Bnst : Allowed(d)' = Allowed(d)
      BY <1>1, StillHeads, Zenon
    <3> QED
      BY <1>1, <1>2, <1>6, <3>1, Zenon DEF FillExact, BarriersMet
  <2>2. ASSUME NEW i \in Bnst, NEW j \in Bnst, i <= j, Closed(i, j)'
        PROVE  Exact(i, j)'
    <3>1. Closed(i, j)
      BY <1>2, <2>2, Zenon DEF Closed
    <3> QED
      BY <1>1, <1>4, <1>6, <2>2, <3>1, ClosedSteady, Zenon DEF IInv
  <2>3. ASSUME I < J, k > 0
        PROVE  Lists(cky_matrix[<<I, J>>], FirstUpto(I, J, k), Cover(I, J))'
    <3>1. PICK i \in Bnst : i = I
      BY <1>5
    <3>2. PICK j \in Bnst : j = J /\ j <= J
      BY <1>5
    <3>3. PICK n : n = k
      OBVIOUS
    <3>4. PICK X : X = FirstUpto(i, j, n)
      OBVIOUS
    <3>5. X \subseteq TreesIn(i, j)
      BY <3>4, Zenon DEF FirstUpto
    <3>6. PICK l : l = cky_matrix[<<I, J>>]
      OBVIOUS
    <3>7. Lists(l, X, Cover(i, j))
      BY <1>6, <2>3, <3>1, <3>2, <3>3, <3>4, <3>6, Zenon DEF FillExact
    <3>8. Lists(l, X, Cover(i, j)')
      BY <1>4, <1>5, <3>2, <3>5, <3>7, ListsSteady, Zenon
    <3>9. X = FirstUpto(i, j, n)'
      BY <1>4, <1>5, <3>2, <3>4, TreesSteady, Zenon
    <3>10. i = I' /\ j = J' /\ n = k' /\ l = cky_matrix'[<<I', J'>>]
      BY <1>1, <1>2, <3>1, <3>2, <3>3, <3>6
    <3> QED
      BY <3>8, <3>9, <3>10, Zenon
  <2> QED
    BY <1>1, <1>2, <2>1, <2>2, <2>3, Zenon DEF FillExact
<1>7. ASSUME Exact(0, Last), J = Last
      PROVE  Exact(0, Last)'
  <2>1. 0 \in Bnst /\ Last \in Bnst /\ Last <= J
    BY <1>5, <1>7, PhraseBounds
  <2>2. PICK l : l = cky_matrix[<<0, Last>>]
    OBVIOUS
  <2>3. PICK X : X = TreesIn(0, Last)
    OBVIOUS
  <2>4. Lists(l, X, Cover(0, Last))
    BY <1>7, <2>2, <2>3, Zenon DEF Exact
  <2>5. Lists(l, X, Cover(0, Last)')
    BY <1>4, <1>5, <2>1, <2>3, <2>4, ListsSteady, Zenon
  <2>6. X = TreesIn(0, Last)' /\ l = cky_matrix'[<<0, Last>>]
    BY <1>1, <1>4, <1>5, <2>1, <2>2, <2>3, TreesSteady, Zenon
  <2> QED
    BY <2>5, <2>6, Zenon DEF Exact
<1> QED
  BY <1>1, <1>2, <1>3, <1>6, <1>7, Zenon DEF ExactInv

\* The trees of the whole sentence are those of the reference.
LEMMA WholeTrees ==
  /\ TreesIn(0, Last) = Trees
  /\ \A h \in Trees : Cover(0, Last)[h] = EntryFor(h).arcs
<1>1. 0 .. Last = Bnst
  BY DEF Bnst, Last
<1>2. TreesIn(0, Last) = Trees
  <2> DEFINE allowed == [d \in 0 .. (Last - 1) |-> Allowed(d)]
  <2>1. \A d \in 0 .. (Last - 1) : allowed[d] = Allowed(d)
    BY Zenon
  <2>2. Trees = {h \in [0 .. (Last - 1) -> Bnst] :
                   /\ \A d \in DOMAIN h : h[d] \in allowed[d]
                   /\ \A b, c \in DOMAIN h : ~ Crossing(h, b, c)}
    BY Zenon DEF Trees
  <2>3. \A h \in [0 .. (Last - 1) -> Bnst] : DOMAIN h = 0 .. (Last - 1)
    BY Zenon
  <2>4. TreesIn(0, Last) \subseteq Trees
    BY <1>1, <2>1, <2>2, <2>3, Zenon DEF TreesIn
  <2>5. Trees \subseteq TreesIn(0, Last)
    BY <1>1, <2>1, <2>2, <2>3, Zenon DEF TreesIn
  <2> QED
    BY <2>4, <2>5, Zenon
<1>3. ASSUME NEW h \in Trees
      PROVE  Cover(0, Last)[h] = EntryFor(h).arcs
  <2>1. h \in TreesIn(0, Last)
    BY <1>2, Zenon
  <2>2. DOMAIN h = 0 .. (Last - 1)
    BY <2>1, Zenon DEF TreesIn
  <2>3. EntryFor(h).arcs =
          [d \in DOMAIN h |->
             LET type == Possibility(d, h[d], 0, h[d] = Last /\ dep_check[d] = -1)
             IN  IF type # "P" /\ sent.follow[d] # 0 THEN [to |-> sent.follow[d], type |-> "D"]
                 ELSE [to |-> h[d], type |-> type]]
    BY DEF EntryFor
  <2>4. PICK a : a = EntryFor(h).arcs
    OBVIOUS
  <2>5. a = Arrows(h, 0, Last)
    BY <2>2, <2>3, <2>4, Zenon DEF Arrows, ArcTo, TypeOf
  <2>6. Cover(0, Last)[h] = Arrows(h, 0, Last)
    BY <2>1, Zenon DEF Cover
  <2> QED
    BY <2>4, <2>5, <2>6
<1> QED
  BY <1>2, <1>3

\* Every analysis, and each of them once: with coordinations fixed before and nothing
\* pruned, what cky leaves for the whole sentence are the trees without crossing arcs
\* that check_dpnd_possibility and the barriers allow, although the barriers in
\* dep_check are set while the chart is being filled and cells filled before one was
\* set are not looked at again.
THEOREM ChartExactAlways ==
  ASSUME ScoresCompare, MarksDecide
  PROVE  Spec => []ChartExact
<1>1. Init => SoundInv /\ ExactInv
  BY DEF Init, SoundInv, ExactInv, Narrowed
<1>2. IInv /\ IInv' /\ SoundInv /\ [Next]_vars => SoundInv'
  BY SoundStep
<1>3. IInv /\ IInv' /\ SoundInv /\ ExactInv /\ [Next]_vars => ExactInv'
  BY BeginExact, LeafExact, MergeExact, CloseCellExact, RestExact, IdleExact, Zenon DEF Next, Step, Done
<1>4. IInv /\ ExactInv => ChartExact
  <2>1. ASSUME IInv, ExactInv, phase = "choose", OptParaFix, OptNbest, OptBeam = 0
        PROVE  /\ Len(Analyses) = Cardinality(Trees)
               /\ {Analyses[n].arcs : n \in DOMAIN Analyses} = {EntryFor(h).arcs : h \in Trees}
    <3>1. Exact(0, Last)
      BY <2>1 DEF ExactInv, Whole
    <3>2. PICK l : l = Analyses
      OBVIOUS
    <3>3. Lists(l, Trees, Cover(0, Last))
      BY <3>1, <3>2, WholeTrees, Zenon DEF Exact, Analyses
    <3>4. l \in Seq(Entries(0, Last))
      BY <2>1, <3>2, PhraseBounds DEF Analyses, IInv, ChartInv
    <3>5. PICK C : C = Cover(0, Last)
      OBVIOUS
    <3>6. Lists(l, Trees, C)
      BY <3>3, <3>5, Zenon
    <3>7. Len(l) = Cardinality(Trees) /\ {l[n].arcs : n \in DOMAIN l} = {C[h] : h \in Trees}
      <4>1. PICK S : S = Entries(0, Last)
        OBVIOUS
      <4>2. PICK X : X = Trees
        OBVIOUS
      <4>3. l \in Seq(S) /\ Lists(l, X, C)
        BY <3>4, <3>6, <4>1, <4>2, Zenon
      <4>4. Counts(l, X, C)
        BY <4>3, ListsCount, Zenon
      <4> QED
        BY <4>2, <4>4, Zenon DEF Counts
    <3>8. {C[h] : h \in Trees} = {EntryFor(h).arcs : h \in Trees}
      <4>1. \A h \in Trees : C[h] = EntryFor(h).arcs
        BY <3>5, WholeTrees, Zenon
      <4> QED
        BY <4>1, Zenon
    <3> QED
      BY <3>2, <3>7, <3>8, Zenon
  <2> QED
    BY <2>1, Zenon DEF ChartExact
<1> QED
  BY <1>1, <1>2, <1>3, <1>4, Invariant, PTL DEF Spec
=============================================================================
