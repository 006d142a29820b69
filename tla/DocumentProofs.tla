--------------------------- MODULE DocumentProofs ---------------------------
(***************************************************************************)
(* Proofs about Document, for texts of every length, every option and      *)
(* every limit of the arrays.                                              *)
(*                                                                         *)
(* OwnFeatures, that the features of a morpheme come from its own line,    *)
(* speaks of the moments before an analysis only.  The inductive invariant *)
(* IInv follows the slots of mrph_data through all others: those in use    *)
(* hold morphemes of the sentence in work, each with its own features, and *)
(* those behind are empty, unless a parenthesis has been cut out of this   *)
(* sentence or an earlier one; the parentheses that wait for their turn    *)
(* hold such morphemes too.                                                *)
(*                                                                         *)
(* TypeOK and ContextKept need more, in layers on IInv, each preserved by  *)
(* the help of those before it: no line is in two slots, whatever features *)
(* it has (LineInv, PartInv); a sentence that is skipped has failed        *)
(* (BlameInv); what has been read is within bounds (ReadInv), entities fit *)
(* (EntityInv), and so do the sentences kept (SavedInv); the features of   *)
(* those are not freed, and in no slot that is read into (KeepInv); the    *)
(* article is that of the last comment (PreInv); and the sentences kept    *)
(* are those just before (HereInv).                                        *)
(*                                                                         *)
(* Answered speaks of the end of the text; AnswerInv says of every moment  *)
(* which sentences have been answered: all so far, if each is printed at   *)
(* once, and else all but the Sen_num that are kept back.                  *)
(*                                                                         *)
(* PhrasesRight speaks of the moments after an analysis; where phrases and *)
(* tags begin has been noted line by line before it.  StartInv relates the *)
(* two while a sentence is read: of the morphemes read so far, other       *)
(* readings aside, those in Bnst_start are those a phrase line goes with,  *)
(* and the next one will be if such a line has been read since, unless     *)
(* nothing has reset what an earlier sentence said (Fresh); the same of    *)
(* Tag_start, unless a second phrase line took tags back (Taken).  MarkInv *)
(* says that no flag is set before the first phrase line, CutInv what      *)
(* preprocess_mrph has left of the morphemes.                              *)
(***************************************************************************)
EXTENDS Document, FiniteSetTheorems, RecursionFacts

\* Number, LinesOf and HasParen for a given text.
NumberIn(t, p) == 1 + Cardinality({q \in 1 .. (p - 1) : t[q].k = "E"})
WordLines(t, n) == {p \in DOMAIN t : NumberIn(t, p) = n /\ t[p].k \in {"m", "@"}}
Parenthesis(t, o, n) == o.paren /\ \E p \in WordLines(t, n) : t[p].w = ")"

\* No parenthesis can have been cut out of the first n sentences.
Clean(t, o, n) == \A m \in 1 .. n : ~ Parenthesis(t, o, m)

SlotType == [id : Nat, w : Words, f : SUBSET Nat]

\* The morphemes of sentence n, each with its own features.
OwnSlots(t, n) == {x \in SlotType : x.id \in WordLines(t, n) /\ x.f = {x.id} /\ x.w = t[x.id].w}

\* Slots in use, and slots behind them.
Holds(s, m, S) == \A i \in Slots : i < m => s[i] \in S
EmptyFrom(s, m) == \A i \in Slots : i >= m => s[i].f = {}

\* A slot whose links have been cut, and the slots s2, m2 of them in use, that hold
\* what slots of s hold, no two the same unless cut.
Cut(x) == [x EXCEPT !.f = {}]
MovedBy(src, s, m, s2, m2) ==
  /\ src \in [Slots -> Slots] /\ s2 = [i \in Slots |-> s2[i]]
  /\ \A i \in Slots : \/ s2[i] = s[src[i]] /\ (i < m2 => src[i] < m)
                      \/ i >= m2 /\ s2[i] = Cut(s[src[i]])
  /\ \A i, j \in Slots : i # j /\ src[i] = src[j] =>
       \E k \in {i, j} : k >= m2 /\ s2[k] = Cut(s[src[k]])
Moved(s, m, s2, m2) == \E src : MovedBy(src, s, m, s2, m2)

\* No feature is in two slots, and no line in two slots in use.
Apart(s, m) ==
  \A i, j \in Slots : i # j => s[i].f \cap s[j].f = {} /\ (i < m /\ j < m => s[i].id # s[j].id)

\* The morphemes of a parenthesis.
Chunks(S) == UNION {[0 .. (m - 1) -> S] : m \in 0 .. MRPH_MAX}

\* The inductive invariant, in parts.
TextInv ==
  /\ text \in Texts /\ pos \in 1 .. (Len(text) + 1)
  /\ sen \in Nat /\ (pc # "ready" => sen >= 1)
  /\ pc \in {"ready", "read", "skip", "prepare", "analyse", "next", "end"}
  /\ pc \in {"read", "skip"} => NumberIn(text, pos) = sen
  /\ pc \in {"ready", "prepare", "analyse", "next"} =>
       NumberIn(text, pos) = sen + 1 /\ (pos = 1 \/ text[pos - 1].k = "E")

CountInv ==
  /\ Mrph_num \in 0 .. MRPH_MAX /\ homo_num \in Nat
  /\ pc = "read" =>
       /\ homo_num = 0 \/ homo_num < Mrph_num
       /\ pos > 1 /\ text[pos - 1].k \in {"m", "@"} => homo_num < Mrph_num

SlotInv ==
  /\ slot \in [Slots -> SlotType]
  /\ parens \in Seq(Chunks(SlotType))
  /\ pc = "next" => parens # <<>>
  /\ pc \notin {"analyse", "next"} => parens = <<>>

OwnInv ==
  /\ Clean(text, opt, sen - 1) => Holds(slot, Mrph_num, OwnSlots(text, sen))
  /\ Clean(text, opt, sen - 1) /\ pc \in {"read", "skip", "prepare"} => EmptyFrom(slot, Mrph_num)
  /\ Clean(text, opt, sen) /\ pc \in {"analyse", "next", "ready"} =>
       parens = <<>> /\ EmptyFrom(slot, Mrph_num)
  /\ Clean(text, opt, sen - 1) => parens \in Seq(Chunks(OwnSlots(text, sen)))

IInv == TextInv /\ CountInv /\ SlotInv /\ OwnInv
-----------------------------------------------------------------------------
(* Sets in order                                                           *)

\* How many elements of S have a smaller key than x.
Rank(S, key, x) == Cardinality({y \in S : key[y] < key[x]})

\* Of a set whose elements have different keys, one has k elements before it.
LEMMA RankExists ==
  ASSUME NEW S, IsFiniteSet(S), NEW key \in [S -> Nat], \A x, y \in S : key[x] = key[y] => x = y
  PROVE  \A k \in Nat : k < Cardinality(S) => \E x \in S : Rank(S, key, x) = k
<1> DEFINE Before(x) == {y \in S : key[y] < key[x]}
           P == {k \in Nat : k < Cardinality(S) => \E x \in S : Cardinality(Before(x)) = k}
<1>1. ASSUME NEW U \in SUBSET S, U # {}
      PROVE  \E z \in U : \A y \in U : key[z] <= key[y]
  <2> DEFINE K == {key[x] : x \in U}
  <2>1. K \subseteq Nat /\ K # {}
    BY <1>1
  <2>2. \E z \in K : \A y \in K : z <= y
    <3> HIDE DEF K
    <3> QED
      BY <2>1, LeastNat
  <2>3. PICK n \in K : \A y \in K : n <= y
    BY <2>2
  <2>4. PICK z \in U : n = key[z]
    BY <2>3
  <2>5. \A y \in U : n <= key[y]
    BY <2>3
  <2> QED
    BY <2>4, <2>5, Zenon
<1>2. \A x \in S : IsFiniteSet(Before(x)) /\ Cardinality(Before(x)) \in Nat
  <2>1. ASSUME NEW x \in S
        PROVE  IsFiniteSet(Before(x)) /\ Cardinality(Before(x)) \in Nat
    <3>1. Before(x) \in SUBSET S
      OBVIOUS
    <3> HIDE DEF Before
    <3> QED
      BY <3>1, FS_Subset, FS_CardinalityType
  <2> QED
    BY <2>1
<1>3. 0 \in P
  <2>1. SUFFICES ASSUME 0 < Cardinality(S)
                 PROVE  \E x \in S : Cardinality(Before(x)) = 0
    BY Zenon
  <2>2. S # {}
    BY <2>1, FS_EmptySet
  <2>3. PICK x \in S : \A y \in S : key[x] <= key[y]
    BY <1>1, <2>2
  <2>4. Before(x) = {}
    BY <2>3
  <2> QED
    BY <2>3, <2>4, FS_EmptySet, Zenon
<1>4. ASSUME NEW k \in Nat, k \in P
      PROVE  k + 1 \in P
  <2>1. SUFFICES ASSUME k + 1 < Cardinality(S)
                 PROVE  \E x \in S : Cardinality(Before(x)) = k + 1
    <3>1. k + 1 \in Nat
      OBVIOUS
    <3> QED
      BY <3>1, Zenon
  <2>2. Cardinality(S) \in Nat
    BY FS_CardinalityType
  <2>3. k < Cardinality(S)
    BY <2>1, <2>2
  <2>4. PICK x \in S : Cardinality(Before(x)) = k
    BY <1>4, <2>3, Zenon
  <2> DEFINE U == {y \in S : key[y] > key[x]}
             W == Before(x) \cup {x}
  <2>5. x \notin Before(x) /\ key[x] \in Nat
    OBVIOUS
  <2>6. Cardinality(W) = k + 1
    <3> HIDE DEF Before
    <3> QED
      BY <1>2, <2>4, <2>5, FS_AddElement
  <2>7. U # {}
    <3>1. SUFFICES ASSUME U = {}
                   PROVE  FALSE
      OBVIOUS
    <3>2. \A y \in S : key[y] < key[x] \/ y = x
      BY <3>1
    <3>3. S = W
      BY <3>2
    <3> HIDE DEF W, U
    <3> QED
      BY <2>1, <2>2, <2>6, <3>3
  <2>8. PICK z \in U : \A y \in U : key[z] <= key[y]
    BY <1>1, <2>7
  <2>9. ASSUME NEW y \in S
        PROVE  key[y] < key[z] <=> (key[y] < key[x] \/ y = x)
    <3>1. key[z] \in Nat /\ key[y] \in Nat /\ key[x] \in Nat /\ key[z] > key[x]
      BY <2>8
    <3>2. key[y] > key[x] => key[z] <= key[y]
      BY <2>8
    <3>3. key[y] = key[x] => y = x
      OBVIOUS
    <3> QED
      BY <3>1, <3>2, <3>3
  <2>10. Before(z) = W /\ z \in S
    BY <2>8, <2>9
  <2> QED
    BY <2>6, <2>10, Zenon
<1>5. \A k \in Nat : k \in P
  <2> HIDE DEF P
  <2> QED
    BY <1>3, <1>4, SetInduction
<1> QED
  BY <1>5, Zenon DEF Rank

\* Front holds what the slots of I hold, each once.
FrontFrom(s, I) ==
  \E at \in [0 .. (Cardinality(I) - 1) -> I] :
    /\ \A k \in 0 .. (Cardinality(I) - 1) : Front(s, I)[k] = s[at[k]]
    /\ \A j, k \in 0 .. (Cardinality(I) - 1) : at[j] = at[k] => j = k

LEMMA FrontOf ==
  ASSUME NEW s, NEW n \in Nat, NEW I \in SUBSET (0 .. (n - 1))
  PROVE  /\ Cardinality(I) \in 0 .. n
         /\ DOMAIN Front(s, I) = 0 .. (Cardinality(I) - 1)
         /\ Front(s, I) = [k \in 0 .. (Cardinality(I) - 1) |-> Front(s, I)[k]]
         /\ \A k \in 0 .. (Cardinality(I) - 1) : \E i \in I : Front(s, I)[k] = s[i]
         /\ FrontFrom(s, I)
<1> DEFINE m == Cardinality(I)
           key == [i \in I |-> i]
           Less(i) == Cardinality({j \in I : j < i})
<1>1. IsFiniteSet(I) /\ m \in 0 .. n
  <2>1. IsFiniteSet(0 .. (n - 1)) /\ Cardinality(0 .. (n - 1)) <= n
    <3>1. 0 \in Int /\ n - 1 \in Int /\ n - 1 - 0 + 1 <= n /\ 0 <= n
      OBVIOUS
    <3>2. IsFiniteSet(0 .. (n - 1)) /\ Cardinality(0 .. (n - 1)) \in {0, n - 1 - 0 + 1}
      BY <3>1, FS_Interval, Zenon
    <3> QED
      BY <3>1, <3>2, Zenon
  <2>2. IsFiniteSet(I) /\ Cardinality(I) <= Cardinality(0 .. (n - 1))
    BY <2>1, FS_Subset
  <2>3. Cardinality(I) \in Nat /\ Cardinality(0 .. (n - 1)) \in Nat
    BY <2>1, <2>2, FS_CardinalityType
  <2> QED
    BY <2>1, <2>2, <2>3
<1>2. key \in [I -> Nat] /\ \A i, j \in I : key[i] = key[j] => i = j
  OBVIOUS
<1>3. \A k \in Nat : k < m => \E i \in I : Rank(I, key, i) = k
  <2> HIDE DEF key
  <2> QED
    BY <1>1, <1>2, RankExists
<1>4. \A i \in I : Rank(I, key, i) = Less(i)
  <2>1. \A i \in I : {j \in I : key[j] < key[i]} = {j \in I : j < i}
    OBVIOUS
  <2> QED
    BY <2>1, Zenon DEF Rank
<1>5. \A k \in 0 .. (m - 1) : \E i \in I : Less(i) = k
  <2>1. \A k \in 0 .. (m - 1) : k \in Nat /\ k < m
    BY <1>1
  <2> HIDE DEF m, key, Less
  <2> QED
    BY <1>3, <1>4, <2>1, Zenon
<1>6. Front(s, I) = [k \in 0 .. (m - 1) |-> s[CHOOSE i \in I : Less(i) = k]]
  BY Zenon DEF Front
<1> HIDE DEF m, key, Less
<1>7. \A k \in 0 .. (m - 1) : \E i \in I : Front(s, I)[k] = s[i]
  BY <1>5, <1>6, Zenon
<1>8. DOMAIN Front(s, I) = 0 .. (m - 1)
  BY <1>6, Zenon
<1>9. Front(s, I) = [k \in 0 .. (m - 1) |-> Front(s, I)[k]]
  BY <1>6, Zenon
<1> DEFINE at == [k \in 0 .. (m - 1) |-> CHOOSE i \in I : Less(i) = k]
<1>10. \A k \in 0 .. (m - 1) : at[k] \in I /\ Less(at[k]) = k /\ Front(s, I)[k] = s[at[k]]
  BY <1>5, <1>6, Zenon
<1>11. \A j, k \in 0 .. (m - 1) : at[j] = at[k] => j = k
  <2> HIDE DEF at
  <2> QED
    BY <1>10, Zenon
<1>12. at \in [0 .. (m - 1) -> I]
  BY <1>10, Zenon
<1> HIDE DEF at
<1>13. \E x \in [0 .. (m - 1) -> I] :
         /\ \A k \in 0 .. (m - 1) : Front(s, I)[k] = s[x[k]]
         /\ \A j, k \in 0 .. (m - 1) : x[j] = x[k] => j = k
  BY <1>10, <1>11, <1>12, Zenon
<1> QED
  BY <1>1, <1>7, <1>8, <1>9, <1>13, Zenon DEF m, FrontFrom
-----------------------------------------------------------------------------
(* The lines of the text                                                   *)

LEMMA TextFacts ==
  ASSUME NEW t \in Texts
  PROVE  /\ Len(t) \in Nat /\ DOMAIN t = 1 .. Len(t)
         /\ \A p \in 1 .. Len(t) : t[p].k \in {"m", "@"} => t[p].w \in Words
         /\ \A p \in 1 .. Len(t) : t[p].k = "@" => p > 1 /\ t[p - 1].k \in {"m", "@"}
<1>1. t \in Seq({t[p] : p \in DOMAIN t})
  BY TextsAssumption, Zenon
<1> DEFINE X == {t[p] : p \in DOMAIN t}
<1> HIDE DEF X
<1>2. t \in Seq(X)
  BY <1>1 DEF X
<1>3. Len(t) \in Nat /\ DOMAIN t = 1 .. Len(t)
  BY <1>2
<1> QED
  BY <1>3, TextsAssumption, Zenon

\* Number counts the lines EOS before a line.
LEMMA NumberStep ==
  ASSUME NEW t, NEW p \in Nat \ {0}
  PROVE  /\ NumberIn(t, p) \in Nat
         /\ NumberIn(t, p + 1) = NumberIn(t, p) + (IF t[p].k = "E" THEN 1 ELSE 0)
<1> DEFINE E(q) == {r \in 1 .. (q - 1) : t[r].k = "E"}
<1>1. IsFiniteSet(E(p)) /\ Cardinality(E(p)) \in Nat
  <2>1. IsFiniteSet(1 .. (p - 1))
    BY FS_Interval
  <2>2. E(p) \in SUBSET (1 .. (p - 1))
    OBVIOUS
  <2> HIDE DEF E
  <2> QED
    BY <2>1, <2>2, FS_Subset, FS_CardinalityType
<1>2. p \notin E(p)
  OBVIOUS
<1>3. \A r \in 1 .. (p + 1 - 1) : r \in 1 .. (p - 1) \/ r = p
  OBVIOUS
<1>4. CASE t[p].k = "E"
  <2>1. E(p + 1) = E(p) \cup {p}
    BY <1>3, <1>4
  <2>2. Cardinality(E(p) \cup {p}) = Cardinality(E(p)) + 1
    <3> HIDE DEF E
    <3> QED
      BY <1>1, <1>2, FS_AddElement
  <2>3. NumberIn(t, p) = 1 + Cardinality(E(p)) /\ NumberIn(t, p + 1) = 1 + Cardinality(E(p + 1))
    BY Zenon DEF NumberIn
  <2> DEFINE c == Cardinality(E(p))
  <2>4. NumberIn(t, p) = 1 + c /\ NumberIn(t, p + 1) = 1 + (c + 1)
    BY <2>1, <2>2, <2>3, Zenon
  <2>5. c \in Nat
    BY <1>1
  <2> HIDE DEF c
  <2> QED
    BY <1>4, <2>4, <2>5
<1>5. CASE t[p].k # "E"
  <2>1. E(p + 1) = E(p)
    BY <1>3, <1>5
  <2>2. NumberIn(t, p) = 1 + Cardinality(E(p)) /\ NumberIn(t, p + 1) = 1 + Cardinality(E(p + 1))
    BY Zenon DEF NumberIn
  <2> DEFINE c == Cardinality(E(p))
  <2>3. NumberIn(t, p) = 1 + c /\ NumberIn(t, p + 1) = 1 + c
    BY <2>1, <2>2, Zenon
  <2>4. c \in Nat
    BY <1>1
  <2> HIDE DEF c
  <2> QED
    BY <1>5, <2>3, <2>4
<1> QED
  BY <1>4, <1>5

LEMMA NumberFirst ==
  ASSUME NEW t
  PROVE  NumberIn(t, 1) = 1
<1>1. {q \in 1 .. (1 - 1) : t[q].k = "E"} = {}
  OBVIOUS
<1> QED
  BY <1>1, FS_EmptySet DEF NumberIn

\* What is clean stays clean with fewer sentences.
LEMMA CleanLess ==
  ASSUME NEW t, NEW o, NEW n \in Nat, Clean(t, o, n)
  PROVE  Clean(t, o, n - 1)
<1>1. \A m \in 1 .. (n - 1) : m \in 1 .. n
  OBVIOUS
<1> QED
  BY <1>1, Zenon DEF Clean
-----------------------------------------------------------------------------
(* The slots                                                               *)

LEMMA SlotBounds ==
  /\ MRPH_MAX \in Nat /\ MRPH_MAX >= 1
  /\ Slots = 0 .. (MRPH_MAX - 1)
  /\ \A i \in Slots : i \in Nat /\ i < MRPH_MAX
BY LimitsAssumption DEF Slots

\* What slots hold moves with them, and nothing comes from elsewhere.
LEMMA MovedStays ==
  ASSUME NEW s \in [Slots -> SlotType], NEW s2, NEW m, NEW m2 \in Nat, Moved(s, m, s2, m2)
  PROVE  /\ s2 \in [Slots -> SlotType]
         /\ \A S : Holds(s, m, S) => Holds(s2, m2, S)
         /\ Apart(s, m) => Apart(s2, m2)
         /\ \A i \in Slots : \E a \in Slots : s2[i].id = s[a].id /\ (s2[i].f = {} \/ s2[i].f = s[a].f)
<1>1. PICK src : MovedBy(src, s, m, s2, m2)
  BY Zenon DEF Moved
<1>2. \A i \in Slots : i >= m2 => ~ (i < m2)
  BY SlotBounds
<1>3. /\ \A i \in Slots : src[i] \in Slots
      /\ \A i \in Slots : \/ s2[i] = s[src[i]] /\ (i < m2 => src[i] < m)
                          \/ i >= m2 /\ s2[i] = Cut(s[src[i]])
      /\ \A i, j \in Slots : i # j /\ src[i] = src[j] =>
           \E k \in {i, j} : k >= m2 /\ s2[k] = Cut(s[src[k]])
      /\ s2 = [i \in Slots |-> s2[i]]
  BY <1>1, Zenon DEF MovedBy
<1>4. \A x \in SlotType : Cut(x) \in SlotType /\ Cut(x).f = {} /\ Cut(x).id = x.id
  BY DEF Cut, SlotType
<1>5. \A i \in Slots : s[src[i]] \in SlotType
  BY <1>3, Zenon
<1>6. \A i \in Slots : s2[i] \in SlotType
  BY <1>3, <1>4, <1>5, Zenon
<1>7. s2 \in [Slots -> SlotType]
  BY <1>3, <1>6, Zenon
<1>8. ASSUME NEW S, Holds(s, m, S)
      PROVE  Holds(s2, m2, S)
  BY <1>2, <1>3, <1>8, Zenon DEF Holds
<1>9. ASSUME NEW i \in Slots
      PROVE  \E a \in Slots : s2[i].id = s[a].id /\ (s2[i].f = {} \/ s2[i].f = s[a].f)
  <2> DEFINE a == src[i]
  <2>1. a \in Slots /\ s[a] \in SlotType /\ (s2[i] = s[a] \/ s2[i] = Cut(s[a]))
    BY <1>3, <1>5, Zenon
  <2> HIDE DEF a
  <2>2. Cut(s[a]).f = {} /\ Cut(s[a]).id = s[a].id
    BY <1>4, <2>1, Zenon
  <2>3. s2[i].id = s[a].id /\ (s2[i].f = {} \/ s2[i].f = s[a].f)
    BY <2>1, <2>2, Zenon
  <2> QED
    BY <2>1, <2>3, Zenon
<1>10. ASSUME Apart(s, m), NEW i \in Slots, NEW j \in Slots, i # j
       PROVE  s2[i].f \cap s2[j].f = {} /\ (i < m2 /\ j < m2 => s2[i].id # s2[j].id)
  <2> DEFINE Bare(k) == k >= m2 /\ s2[k].f = {}
  <2>1. CASE Bare(i) \/ Bare(j)
    <3>1. ~ (i < m2 /\ j < m2)
      BY <1>2, <2>1, Zenon
    <3>2. s2[i].f = {} \/ s2[j].f = {}
      BY <2>1, Zenon
    <3>3. s2[i].f \cap s2[j].f = {}
      BY <3>2
    <3> QED
      BY <3>1, <3>3, Zenon
  <2>2. CASE ~ (Bare(i) \/ Bare(j))
    <3> DEFINE x == src[i]
               y == src[j]
    <3>1. \A k \in Slots : k >= m2 /\ s2[k] = Cut(s[src[k]]) => Bare(k)
      BY <1>4, <1>5, Zenon
    <3>5. x # y
      <4>1. SUFFICES ASSUME src[i] = src[j]
                     PROVE  FALSE
        OBVIOUS
      <4>2. PICK k \in {i, j} : k >= m2 /\ s2[k] = Cut(s[src[k]])
        BY <1>3, <1>10, <4>1, Zenon
      <4>3. Bare(k) /\ (k = i \/ k = j)
        BY <3>1, <4>2, Zenon
      <4> HIDE DEF Bare
      <4> QED
        BY <2>2, <4>3, Zenon
    <3>2. x \in Slots /\ y \in Slots /\ x # y
      BY <1>3, <3>5, Zenon
    <3>3. s2[i] = s[x] /\ s2[j] = s[y] /\ (i < m2 => x < m) /\ (j < m2 => y < m)
      BY <1>3, <2>2, <3>1, Zenon
    <3> HIDE DEF x, y
    <3>4. s[x].f \cap s[y].f = {} /\ (x < m /\ y < m => s[x].id # s[y].id)
      BY <1>10, <3>2, Zenon DEF Apart
    <3> QED
      BY <3>3, <3>4, Zenon
  <2> QED
    BY <2>1, <2>2, Zenon
<1> QED
  BY <1>7, <1>8, <1>9, <1>10, Zenon DEF Apart

\* Cutting the links of the slots in use.
LEMMA EmptiedStays ==
  ASSUME NEW s \in [Slots -> SlotType], NEW m \in 0 .. MRPH_MAX
  PROVE  /\ Moved(s, m, Emptied(s, 0 .. (m - 1)), 0)
         /\ Emptied(s, 0 .. (m - 1)) \in [Slots -> SlotType]
         /\ EmptyFrom(s, m) => EmptyFrom(Emptied(s, 0 .. (m - 1)), 0)
         /\ \A i \in Slots : i >= m => Emptied(s, 0 .. (m - 1))[i] = s[i]
         /\ \A i \in Slots : i < m => Emptied(s, 0 .. (m - 1))[i].f = {}
<1> DEFINE I == 0 .. (m - 1)
           src == [i \in Slots |-> i]
<1>1. \A i \in Slots : s[i] \in SlotType /\ Cut(s[i]).f = {}
  BY DEF SlotType, Cut
<1>2. /\ \A i \in Slots : i \in I \/ i >= m
      /\ \A i \in Slots : i >= m => i \notin I
      /\ \A i \in Slots : i < m => i \in I
      /\ \A i \in Slots : i >= 0 /\ ~ (i < 0)
      /\ 0 \in Nat
  BY SlotBounds
<1> HIDE DEF I
<1>3. /\ Emptied(s, I) = [i \in Slots |-> IF i \in I THEN Cut(s[i]) ELSE s[i]]
      /\ \A i \in Slots : Emptied(s, I)[i] = IF i \in I THEN Cut(s[i]) ELSE s[i]
  BY Zenon DEF Emptied, Cut
<1>4. EmptyFrom(s, m) => EmptyFrom(Emptied(s, I), 0)
  BY <1>1, <1>2, <1>3, Zenon DEF EmptyFrom
<1>5. src \in [Slots -> Slots] /\ \A i \in Slots : src[i] = i
  BY Zenon
<1> HIDE DEF src
<1>6. Emptied(s, I) = [i \in Slots |-> Emptied(s, I)[i]]
  BY <1>3, Zenon
<1>7. MovedBy(src, s, m, Emptied(s, I), 0)
  <2>1. \A i \in Slots : \/ Emptied(s, I)[i] = s[src[i]] /\ (i < 0 => src[i] < m)
                         \/ i >= 0 /\ Emptied(s, I)[i] = Cut(s[src[i]])
    BY <1>2, <1>3, <1>5, Zenon
  <2>2. \A i, j \in Slots : i # j /\ src[i] = src[j] => FALSE
    BY <1>5, Zenon
  <2> QED
    BY <1>5, <1>6, <2>1, <2>2, Zenon DEF MovedBy
<1>8. Moved(s, m, Emptied(s, I), 0)
  BY <1>7, Zenon DEF Moved
<1>9. Emptied(s, I) \in [Slots -> SlotType]
  BY <1>2, <1>8, MovedStays, Zenon
<1> QED
  BY <1>1, <1>2, <1>3, <1>4, <1>8, <1>9, Zenon DEF I

\* lexical_disambiguation leaves one reading, whichever it prefers, and empties
\* the slots of the others.
LEMMA ReducedStays ==
  ASSUME slot \in [Slots -> SlotType], Mrph_num \in 0 .. MRPH_MAX,
         NEW pref \in 0 .. homo_num, homo_num \in Nat, homo_num < Mrph_num
  PROVE  /\ Mrph_num - homo_num \in 1 .. MRPH_MAX
         /\ Moved(slot, Mrph_num, Reduced(pref), Mrph_num - homo_num)
         /\ EmptyFrom(slot, Mrph_num) => EmptyFrom(Reduced(pref), Mrph_num - homo_num)
<1> DEFINE base == Mrph_num - homo_num - 1
           b == Mrph_num - homo_num
           w == base + pref
           e == Emptied(slot, base .. (Mrph_num - 1))
           src == [i \in Slots |-> IF i = base THEN w ELSE i]
<1>1. /\ base \in Slots /\ w \in Slots /\ w \in base .. (Mrph_num - 1) /\ w < Mrph_num
      /\ b \in 1 .. MRPH_MAX /\ b \in Nat
      /\ \A i \in Slots : i < b => i = base \/ (i # base /\ i \notin base .. (Mrph_num - 1) /\ i < Mrph_num)
      /\ \A i \in Slots : i >= b => i # base /\ (i \in base .. (Mrph_num - 1) \/ i >= Mrph_num)
      /\ \A i \in Slots : i \in base .. (Mrph_num - 1) => i = base \/ i >= b
      /\ \A i \in Slots : i < b \/ i >= b
  BY SlotBounds
<1>2. Reduced(pref) = [e EXCEPT ![base] = slot[w]]
  BY Zenon DEF Reduced
<1>3. /\ e = [i \in Slots |-> IF i \in base .. (Mrph_num - 1) THEN Cut(slot[i]) ELSE slot[i]]
      /\ \A i \in Slots : e[i] = IF i \in base .. (Mrph_num - 1) THEN Cut(slot[i]) ELSE slot[i]
  BY Zenon DEF Emptied, Cut
<1>4. \A i \in Slots : slot[i] \in SlotType /\ Cut(slot[i]).f = {}
  BY DEF SlotType, Cut
<1>5. src \in [Slots -> Slots] /\ \A i \in Slots : src[i] = IF i = base THEN w ELSE i
  BY <1>1, Zenon
<1> HIDE DEF e, base, b, w, src
<1>6. /\ Reduced(pref) = [i \in Slots |-> IF i = base THEN slot[w] ELSE e[i]]
      /\ Reduced(pref) = [i \in Slots |-> Reduced(pref)[i]]
      /\ \A i \in Slots : Reduced(pref)[i] = IF i = base THEN slot[w] ELSE e[i]
  <2>1. Reduced(pref) = [i \in Slots |-> IF i = base THEN slot[w] ELSE e[i]]
    BY <1>2, <1>3
  <2> QED
    BY <2>1, Zenon
<1>7. \A i \in Slots : \/ Reduced(pref)[i] = slot[src[i]] /\ (i < b => src[i] < Mrph_num)
                       \/ i >= b /\ Reduced(pref)[i] = Cut(slot[src[i]])
  <2>1. SUFFICES ASSUME NEW i \in Slots
                 PROVE  \/ Reduced(pref)[i] = slot[src[i]] /\ (i < b => src[i] < Mrph_num)
                        \/ i >= b /\ Reduced(pref)[i] = Cut(slot[src[i]])
    BY Zenon
  <2>2. CASE i = base
    <3>1. Reduced(pref)[i] = slot[w] /\ src[i] = w
      BY <1>5, <1>6, <2>1, <2>2, Zenon
    <3> QED
      BY <1>1, <3>1, Zenon
  <2>3. CASE i # base
    <3>1. Reduced(pref)[i] = e[i] /\ src[i] = i
      BY <1>5, <1>6, <2>1, <2>3, Zenon
    <3>2. CASE i \in base .. (Mrph_num - 1)
      <4>1. i >= b /\ e[i] = Cut(slot[i])
        BY <1>1, <1>3, <2>1, <2>3, <3>2, Zenon
      <4> QED
        BY <3>1, <4>1, Zenon
    <3>3. CASE i \notin base .. (Mrph_num - 1)
      <4>1. e[i] = slot[i] /\ (i < b => i < Mrph_num)
        BY <1>1, <1>3, <2>1, <2>3, <3>3, Zenon
      <4> QED
        BY <3>1, <4>1, Zenon
    <3> QED
      BY <3>2, <3>3, Zenon
  <2> QED
    BY <2>2, <2>3, Zenon
<1>8. \A i \in Slots : i # base /\ i \in base .. (Mrph_num - 1) =>
        i >= b /\ Reduced(pref)[i] = Cut(slot[src[i]])
  BY <1>1, <1>3, <1>5, <1>6, Zenon
<1>9. ASSUME NEW i \in Slots, NEW j \in Slots, i # j, src[i] = src[j]
      PROVE  \E k \in {i, j} : k >= b /\ Reduced(pref)[k] = Cut(slot[src[k]])
  <2>1. (i = base /\ j = w /\ j # base) \/ (j = base /\ i = w /\ i # base)
    <3>1. \A k \in {i, j} : (k = base => src[k] = w) /\ (k # base => src[k] = k)
      BY <1>5, Zenon
    <3>2. CASE i = base
      <4>1. j # base /\ src[i] = w /\ src[j] = j
        BY <1>9, <3>1, <3>2, Zenon
      <4> QED
        BY <1>9, <3>2, <4>1
    <3>3. CASE i # base
      <4>1. src[i] = i
        BY <3>1, <3>3, Zenon
      <4>2. j = base
        BY <1>9, <3>1, <4>1, Zenon
      <4>3. src[j] = w
        BY <3>1, <4>2, Zenon
      <4> QED
        BY <1>9, <3>3, <4>1, <4>2, <4>3
    <3> QED
      BY <3>2, <3>3
  <2>2. \E k \in {i, j} : k # base /\ k = w
    BY <2>1, Zenon
  <2> QED
    BY <1>1, <1>8, <2>2, Zenon
<1>10. MovedBy(src, slot, Mrph_num, Reduced(pref), b)
  BY <1>5, <1>6, <1>7, <1>9, Zenon DEF MovedBy
<1>11. Moved(slot, Mrph_num, Reduced(pref), b)
  BY <1>10, Zenon DEF Moved
<1>12. ASSUME EmptyFrom(slot, Mrph_num)
       PROVE  EmptyFrom(Reduced(pref), b)
  BY <1>1, <1>3, <1>4, <1>6, <1>12, Zenon DEF EmptyFrom
<1> QED
  BY <1>1, <1>11, <1>12, Zenon DEF b
-----------------------------------------------------------------------------
(* Joining morphemes and cutting out parentheses                           *)

\* preprocess_mrph moves the morphemes left to the front and empties the others.
LEMMA CompactedStays ==
  ASSUME slot \in [Slots -> SlotType], Mrph_num \in 0 .. MRPH_MAX
  PROVE  /\ Mrph_num - Cardinality(Joined) \in 0 .. Mrph_num
         /\ Moved(slot, Mrph_num, Compacted, Mrph_num - Cardinality(Joined))
         /\ EmptyFrom(slot, Mrph_num) => EmptyFrom(Compacted, Mrph_num - Cardinality(Joined))
         /\ \A i \in Slots : \/ Compacted[i].f = {}
                             \/ \E a \in Slots \ Joined : Compacted[i].f = slot[a].f
<1> DEFINE n == Mrph_num
           I == Used \ Joined
           left == Front(slot, I)
           num == Mrph_num - Cardinality(Joined)
<1>1. n \in Nat /\ n <= MRPH_MAX /\ Used = 0 .. (n - 1) /\ Joined \subseteq Used
  BY SlotBounds DEF Used, Joined
<1>2. I \in SUBSET (0 .. (n - 1))
  BY <1>1
<1>3. Cardinality(I) = num
  <2>1. IsFiniteSet(Used) /\ Cardinality(Used) = n
    BY <1>1, FS_Interval
  <2>2. Used \cap Joined = Joined
    BY <1>1
  <2> QED
    BY <2>1, <2>2, FS_Difference
<1> HIDE DEF n, I, num
<1>4. /\ num \in 0 .. n /\ DOMAIN left = 0 .. (num - 1)
      /\ \E at \in [0 .. (num - 1) -> I] :
           /\ \A k \in 0 .. (num - 1) : left[k] = slot[at[k]]
           /\ \A j, k \in 0 .. (num - 1) : at[j] = at[k] => j = k
  <2>1. Cardinality(I) \in 0 .. n /\ DOMAIN left = 0 .. (Cardinality(I) - 1)
    BY <1>1, <1>2, FrontOf, Zenon
  <2>2. \E at \in [0 .. (Cardinality(I) - 1) -> I] :
          /\ \A k \in 0 .. (Cardinality(I) - 1) : Front(slot, I)[k] = slot[at[k]]
          /\ \A j, k \in 0 .. (Cardinality(I) - 1) : at[j] = at[k] => j = k
    <3>1. FrontFrom(slot, I)
      BY <1>1, <1>2, FrontOf, Zenon
    <3> QED
      BY <3>1, Zenon DEF FrontFrom
  <2> QED
    BY <1>3, <2>1, <2>2, Zenon
<1>5. PICK at \in [0 .. (num - 1) -> I] :
        /\ \A k \in 0 .. (num - 1) : left[k] = slot[at[k]]
        /\ \A j, k \in 0 .. (num - 1) : at[j] = at[k] => j = k
  BY <1>4, Zenon
<1> HIDE DEF left
<1> DEFINE src == [i \in Slots |-> IF i \in 0 .. (num - 1) THEN at[i] ELSE i]
<1>6. /\ \A i \in Slots : i < num <=> i \in 0 .. (num - 1)
      /\ \A i \in Slots : i \notin 0 .. (num - 1) => i >= num
      /\ \A i \in Slots : i \in Used => i < n
      /\ \A i \in Slots : i \notin Used => i >= n
      /\ \A i \in Slots : i >= num => i \notin 0 .. (num - 1)
      /\ \A i \in I : i \in Slots /\ i < n /\ i \in Used /\ i \notin Joined
  BY <1>1, <1>2, <1>4, SlotBounds DEF I
<1>7. /\ Compacted = [i \in Slots |-> IF i \in 0 .. (num - 1) THEN left[i]
                                      ELSE IF i \in Used THEN Cut(slot[i]) ELSE slot[i]]
      /\ Compacted = [i \in Slots |-> Compacted[i]]
      /\ \A i \in Slots : /\ i \in 0 .. (num - 1) => Compacted[i] = left[i]
                          /\ i \notin 0 .. (num - 1) /\ i \in Used => Compacted[i] = Cut(slot[i])
                          /\ i \notin 0 .. (num - 1) /\ i \notin Used => Compacted[i] = slot[i]
  <2>1. Compacted = [i \in Slots |-> IF i \in 0 .. (num - 1) THEN left[i]
                                     ELSE IF i \in Used THEN Cut(slot[i]) ELSE slot[i]]
    BY <1>4, Zenon DEF Compacted, left, I, Cut
  <2> QED
    BY <2>1, Zenon
<1>8. \A i \in Slots : slot[i] \in SlotType /\ Cut(slot[i]).f = {}
  BY DEF SlotType, Cut
<1>9. /\ src \in [Slots -> Slots]
      /\ \A i \in Slots : /\ i \in 0 .. (num - 1) => src[i] = at[i] /\ at[i] \in I
                          /\ i \notin 0 .. (num - 1) => src[i] = i
  BY <1>5, <1>6, Zenon
<1> HIDE DEF src
<1>10. \A i \in Slots : \/ Compacted[i] = slot[src[i]] /\ (i < num => src[i] < n)
                        \/ i >= num /\ Compacted[i] = Cut(slot[src[i]])
  <2> SUFFICES ASSUME NEW i \in Slots
               PROVE  \/ Compacted[i] = slot[src[i]] /\ (i < num => src[i] < n)
                      \/ i >= num /\ Compacted[i] = Cut(slot[src[i]])
    OBVIOUS
  <2>1. CASE i \in 0 .. (num - 1)
    <3>1. Compacted[i] = left[i] /\ src[i] = at[i] /\ at[i] \in I
      BY <1>7, <1>9, <2>1, Zenon
    <3>2. left[i] = slot[at[i]]
      BY <1>5, <2>1, Zenon
    <3>3. at[i] < n
      BY <1>6, <3>1, Zenon
    <3> QED
      BY <3>1, <3>2, <3>3, Zenon
  <2>2. CASE i \notin 0 .. (num - 1) /\ i \in Used
    <3>1. Compacted[i] = Cut(slot[i]) /\ src[i] = i /\ i >= num
      BY <1>6, <1>7, <1>9, <2>2, Zenon
    <3> QED
      BY <3>1, Zenon
  <2>3. CASE i \notin 0 .. (num - 1) /\ i \notin Used
    <3>1. Compacted[i] = slot[i] /\ src[i] = i /\ ~ (i < num)
      BY <1>6, <1>7, <1>9, <2>3, Zenon
    <3> QED
      BY <3>1, Zenon
  <2> QED
    BY <2>1, <2>2, <2>3, Zenon
<1>11. ASSUME NEW i \in Slots, NEW j \in Slots, i # j, src[i] = src[j]
       PROVE  \E k \in {i, j} : k >= num /\ Compacted[k] = Cut(slot[src[k]])
  <2>1. ASSUME NEW x \in Slots, NEW y \in Slots, x \in 0 .. (num - 1), y \notin 0 .. (num - 1), src[x] = src[y]
        PROVE  y >= num /\ Compacted[y] = Cut(slot[src[y]])
    <3>1. src[y] = y /\ src[x] = at[x] /\ at[x] \in I
      BY <1>9, <2>1, Zenon
    <3>2. y \in Used
      BY <1>6, <2>1, <3>1, Zenon
    <3>3. y >= num /\ Compacted[y] = Cut(slot[y])
      BY <1>6, <1>7, <2>1, <3>2, Zenon
    <3> QED
      BY <3>1, <3>3, Zenon
  <2>2. ~ (i \in 0 .. (num - 1) /\ j \in 0 .. (num - 1))
    BY <1>5, <1>9, <1>11, Zenon
  <2>3. i \in 0 .. (num - 1) \/ j \in 0 .. (num - 1)
    BY <1>9, <1>11, Zenon
  <2> QED
    BY <1>11, <2>1, <2>2, <2>3, Zenon
<1>12. Moved(slot, n, Compacted, num)
  <2>1. MovedBy(src, slot, n, Compacted, num)
    <3>1. src \in [Slots -> Slots] /\ Compacted = [i \in Slots |-> Compacted[i]]
      BY <1>7, <1>9, Zenon
    <3>2. \A i, j \in Slots : i # j /\ src[i] = src[j] =>
            \E k \in {i, j} : k >= num /\ Compacted[k] = Cut(slot[src[k]])
      BY <1>11, Zenon
    <3> QED
      BY <1>10, <3>1, <3>2, Zenon DEF MovedBy
  <2> QED
    BY <2>1, Zenon DEF Moved
<1>13. ASSUME EmptyFrom(slot, n)
       PROVE  EmptyFrom(Compacted, num)
  BY <1>6, <1>7, <1>8, <1>13, Zenon DEF EmptyFrom
<1>14. ASSUME NEW i \in Slots
       PROVE  Compacted[i].f = {} \/ \E a \in Slots \ Joined : Compacted[i].f = slot[a].f
  <2>1. \A a \in Joined : a \in Used
    BY <1>1
  <2>2. CASE i \in 0 .. (num - 1)
    <3>1. at[i] \in I /\ Compacted[i] = slot[at[i]]
      BY <1>5, <1>7, <1>9, <2>2, Zenon
    <3> QED
      BY <1>6, <3>1, Zenon
  <2>3. CASE i \notin 0 .. (num - 1)
    BY <1>7, <1>8, <2>1, <2>3, Zenon
  <2> QED
    BY <2>2, <2>3, Zenon
<1> QED
  BY <1>4, <1>12, <1>13, <1>14, Zenon DEF n, num

\* Outermost pairs of parentheses do not overlap.
LEMMA PairFacts ==
  ASSUME NEW s, NEW num \in Nat, NEW p \in SUBSET Pairs(s, num)
  PROVE  /\ IsFiniteSet(p)
         /\ \A x \in p : /\ x[1] \in 0 .. (num - 1) /\ x[2] \in 0 .. (num - 1) /\ x[1] + 1 < x[2]
                         /\ s[x[2]].w = ")"
         /\ \A x, y \in p : x[1] = y[1] => x = y
         /\ \A x, y \in p : x[1] < y[1] => x[2] < y[1]
<1> DEFINE l == Level(s, num)
           A == 0 .. (num - 1)
<1>1. Pairs(s, num) \subseteq A \X A
  BY Zenon DEF Pairs
<1>2. ASSUME NEW x \in p
      PROVE  /\ x[1] \in A /\ x[2] \in A /\ x = <<x[1], x[2]>>
             /\ x[1] + 1 < x[2] /\ s[x[2]].w = ")" /\ l[x[1]] = 0 /\ l[x[2] + 1] = 0
             /\ \A i \in x[1] + 1 .. x[2] : l[i] > 0
  <2>1. x \in Pairs(s, num)
    OBVIOUS
  <2>2. x[1] \in A /\ x[2] \in A /\ x = <<x[1], x[2]>>
    BY <1>1, <2>1
  <2> QED
    BY <2>1, <2>2, Zenon DEF Pairs
<1> HIDE DEF l
<1>3. ASSUME NEW x \in p, NEW y \in p, x[1] = y[1]
      PROVE  ~ (x[2] < y[2])
  <2>1. x[1] \in Nat /\ x[2] \in Nat /\ y[1] \in Nat /\ y[2] \in Nat /\ x[1] + 1 < x[2]
    BY <1>2
  <2>2. x[2] < y[2] => x[2] + 1 \in y[1] + 1 .. y[2]
    BY <1>3, <2>1
  <2>3. x[2] < y[2] => l[x[2] + 1] > 0
    BY <1>2, <2>2, Zenon
  <2>4. l[x[2] + 1] = 0
    BY <1>2, Zenon
  <2> QED
    BY <2>3, <2>4
<1>4. ASSUME NEW x \in p, NEW y \in p, x[1] = y[1]
      PROVE  x = y
  <2>1. x[2] \in Nat /\ y[2] \in Nat /\ ~ (x[2] < y[2]) /\ ~ (y[2] < x[2])
    BY <1>2, <1>3, <1>4
  <2>2. x[2] = y[2]
    BY <2>1
  <2> QED
    BY <1>2, <1>4, <2>2, Zenon
<1>5. ASSUME NEW x \in p, NEW y \in p, x[1] < y[1]
      PROVE  x[2] < y[1]
  <2>1. x[1] \in Nat /\ x[2] \in Nat /\ y[1] \in Nat
    BY <1>2
  <2>2. ~ (x[2] < y[1]) => y[1] \in x[1] + 1 .. x[2]
    BY <1>5, <2>1
  <2>3. ~ (x[2] < y[1]) => l[y[1]] > 0
    BY <1>2, <2>2, Zenon
  <2>4. l[y[1]] = 0
    BY <1>2, Zenon
  <2> QED
    BY <2>3, <2>4
<1>6. IsFiniteSet(p)
  <2>1. IsFiniteSet(A)
    BY FS_Interval
  <2>2. IsFiniteSet(A \X A)
    BY <2>1, FS_Product, Zenon
  <2>3. p \in SUBSET (A \X A)
    BY <1>1, Zenon
  <2> HIDE DEF A
  <2> QED
    BY <2>2, <2>3, FS_Subset, Zenon
<1>7. \A x \in p : /\ x[1] \in 0 .. (num - 1) /\ x[2] \in 0 .. (num - 1) /\ x[1] + 1 < x[2]
                   /\ s[x[2]].w = ")"
  BY <1>2, Zenon
<1> QED
  BY <1>4, <1>5, <1>6, <1>7, Zenon

\* Pairs that can be cut out, not from end to end.
Cuttable(s, num, p) ==
  /\ p \in SUBSET Pairs(s, num)
  /\ ~ ((\E x \in p : x[1] = 0) /\ (\E x \in p : x[2] = num - 1))

\* The sentences in parentheses are what different slots inside them hold.
PartsOf(s, num, p, ps) ==
  \E I \in [1 .. Cardinality(p) -> SUBSET (0 .. (num - 1))] :
    /\ ps = [k \in 1 .. Cardinality(p) |-> Front(s, I[k])]
    /\ \A k \in 1 .. Cardinality(p) : I[k] \subseteq Inside(p) /\ Cardinality(I[k]) <= num - 3
    /\ \A j, k \in 1 .. Cardinality(p) : j # k => I[j] \cap I[k] = {}

LEMMA ParenSentencesFrom ==
  ASSUME NEW num \in Nat, NEW s, NEW p, Cuttable(s, num, p)
  PROVE  /\ Cardinality(p) \in Nat
         /\ PartsOf(s, num, p, ParenSentences(s, p))
<1> DEFINE key == [x \in p |-> x[1]]
           n == Cardinality(p)
           Less(y) == Cardinality({z \in p : z[1] < y[1]})
           Nth(k) == CHOOSE y \in p : Less(y) = k - 1
           Inner(y) == y[1] + 1 .. y[2] - 1
<1>1. p \in SUBSET Pairs(s, num)
  BY Zenon DEF Cuttable
<1>2. /\ IsFiniteSet(p) /\ n \in Nat
      /\ \A x \in p : x[1] \in 0 .. (num - 1) /\ x[2] \in 0 .. (num - 1) /\ x[1] + 1 < x[2]
      /\ \A x, y \in p : x[1] = y[1] => x = y
      /\ \A x, y \in p : x[1] < y[1] => x[2] < y[1]
  BY <1>1, PairFacts, FS_CardinalityType
<1>3. key \in [p -> Nat] /\ \A x, y \in p : key[x] = key[y] => x = y
  BY <1>2
<1>4. \A k \in Nat : k < n => \E x \in p : Rank(p, key, x) = k
  <2> HIDE DEF key
  <2> QED
    BY <1>2, <1>3, RankExists
<1>5. \A x \in p : Rank(p, key, x) = Less(x)
  <2>1. \A x \in p : {z \in p : key[z] < key[x]} = {z \in p : z[1] < x[1]}
    BY Zenon
  <2> QED
    BY <2>1, Zenon DEF Rank
<1> HIDE DEF Less, key, n
<1>6. \A k \in 1 .. n : Nth(k) \in p /\ Less(Nth(k)) = k - 1
  <2>1. \A k \in 1 .. n : k - 1 \in Nat /\ k - 1 < n
    BY <1>2
  <2>2. \A k \in 1 .. n : \E x \in p : Less(x) = k - 1
    BY <1>4, <1>5, <2>1, Zenon
  <2> QED
    BY <2>2, Zenon
<1>7. ParenSentences(s, p) = [k \in 1 .. n |-> Front(s, Inner(Nth(k)))]
  BY Zenon DEF ParenSentences, Less, n
<1> HIDE DEF Nth
<1>8. ASSUME NEW x \in p
      PROVE  /\ Inner(x) \in SUBSET (0 .. (num - 1)) /\ Inner(x) \subseteq Inside(p)
             /\ Cardinality(Inner(x)) <= num - 3
  <2>1. Inner(x) \in SUBSET (0 .. (num - 1))
    BY <1>2
  <2>2. Inner(x) \subseteq Inside(p)
    BY Zenon DEF Inside
  <2>3. x[1] \in Nat /\ x[2] \in Nat /\ x[2] <= num - 1 /\ x[1] + 1 < x[2]
    BY <1>2
  <2>4. x[1] # 0 \/ x[2] # num - 1
    BY Zenon DEF Cuttable
  <2> DEFINE a == x[1]
             b == x[2]
  <2>5. Cardinality(a + 1 .. b - 1) = b - a - 1
    <3>1. a \in Nat /\ b \in Nat /\ a + 1 < b
      BY <2>3
    <3> HIDE DEF a, b
    <3>2. a + 1 \in Int /\ b - 1 \in Int /\ ~ (a + 1 > b - 1) /\ b - 1 - (a + 1) + 1 = b - a - 1
      BY <3>1
    <3>3. Cardinality((a + 1) .. (b - 1)) = (b - 1) - (a + 1) + 1
      BY <3>2, FS_Interval, Zenon
    <3> QED
      BY <3>2, <3>3, Zenon
  <2>6. b - a - 1 <= num - 3
    BY <2>3, <2>4
  <2> QED
    BY <2>1, <2>2, <2>5, <2>6, Zenon
<1>9. ASSUME NEW x \in p, NEW y \in p, x # y
      PROVE  Inner(x) \cap Inner(y) = {}
  <2>1. /\ x[1] \in Nat /\ x[2] \in Nat /\ y[1] \in Nat /\ y[2] \in Nat /\ x[1] # y[1]
        /\ x[1] < y[1] => x[2] < y[1]
        /\ y[1] < x[1] => y[2] < x[1]
    BY <1>2, <1>9
  <2> QED
    BY <2>1
<1>10. \A j, k \in 1 .. n : j # k => Nth(j) # Nth(k)
  <2>1. \A j, k \in 1 .. n : j # k => j - 1 # k - 1
    BY <1>2
  <2> QED
    BY <1>6, <2>1, Zenon
<1> HIDE DEF Inner
<1> DEFINE I == [k \in 1 .. n |-> Inner(Nth(k))]
<1>11. /\ I \in [1 .. n -> SUBSET (0 .. (num - 1))]
       /\ \A k \in 1 .. n : I[k] = Inner(Nth(k))
       /\ [k \in 1 .. n |-> Front(s, I[k])] = [k \in 1 .. n |-> Front(s, Inner(Nth(k)))]
  BY <1>6, <1>8, Zenon
<1> HIDE DEF I
<1>12. /\ \A k \in 1 .. n : I[k] \subseteq Inside(p) /\ Cardinality(I[k]) <= num - 3
       /\ \A j, k \in 1 .. n : j # k => I[j] \cap I[k] = {}
  <2>1. ASSUME NEW j \in 1 .. n, NEW k \in 1 .. n, j # k
        PROVE  I[j] \cap I[k] = {}
    <3>1. Nth(j) # Nth(k) /\ Nth(j) \in p /\ Nth(k) \in p
      BY <1>6, <1>10, <2>1, Zenon
    <3>2. Inner(Nth(j)) \cap Inner(Nth(k)) = {}
      BY <1>9, <3>1, Zenon
    <3> QED
      BY <1>11, <3>2, Zenon
  <2>2. \A k \in 1 .. n : I[k] \subseteq Inside(p) /\ Cardinality(I[k]) <= num - 3
    BY <1>6, <1>8, <1>11, Zenon
  <2> QED
    BY <2>1, <2>2, Zenon
<1>13. ParenSentences(s, p) = [k \in 1 .. n |-> Front(s, I[k])]
  BY <1>7, <1>11, Zenon
<1>14. PartsOf(s, num, p, ParenSentences(s, p))
  BY <1>11, <1>12, <1>13, Zenon DEF PartsOf, n
<1> QED
  BY <1>2, <1>14, Zenon DEF n

\* Each parenthesis becomes a sentence of morphemes of this one.
LEMMA ParenSentencesIn ==
  ASSUME NEW num \in 0 .. MRPH_MAX, NEW s, NEW S, Holds(s, num, S), NEW p, Cuttable(s, num, p)
  PROVE  ParenSentences(s, p) \in Seq(Chunks(S))
<1> DEFINE n == Cardinality(p)
           ps == ParenSentences(s, p)
<1>1. /\ num \in Nat /\ num <= MRPH_MAX
      /\ \A i \in 0 .. (num - 1) : i \in Slots /\ i < num
  BY SlotBounds
<1>2. n \in Nat /\ PartsOf(s, num, p, ps)
  BY <1>1, ParenSentencesFrom, Zenon
<1> HIDE DEF n, ps
<1>3. PICK I \in [1 .. n -> SUBSET (0 .. (num - 1))] : ps = [k \in 1 .. n |-> Front(s, I[k])]
  BY <1>2, Zenon DEF PartsOf, n
<1>4. ASSUME NEW J \in SUBSET (0 .. (num - 1))
      PROVE  Front(s, J) \in Chunks(S)
  <2> DEFINE m == Cardinality(J)
             g == [j \in 0 .. (m - 1) |-> Front(s, J)[j]]
  <2>1. /\ m \in 0 .. num /\ DOMAIN Front(s, J) = 0 .. (m - 1)
        /\ Front(s, J) = g
        /\ \A j \in 0 .. (m - 1) : \E i \in J : Front(s, J)[j] = s[i]
    BY <1>1, FrontOf, Zenon
  <2> HIDE DEF m
  <2>2. \A i \in J : s[i] \in S
    BY <1>1, Zenon DEF Holds
  <2>3. \A j \in 0 .. (m - 1) : Front(s, J)[j] \in S
    BY <2>1, <2>2, Zenon
  <2>4. g \in [0 .. (m - 1) -> S]
    BY <2>3, Zenon
  <2> HIDE DEF g
  <2>5. m \in 0 .. MRPH_MAX
    <3>1. \A a \in 0 .. num : a \in 0 .. MRPH_MAX
      BY <1>1, SlotBounds
    <3> QED
      BY <2>1, <3>1, Zenon
  <2> QED
    BY <2>1, <2>4, <2>5, Zenon DEF Chunks
<1>5. ps \in [1 .. n -> Chunks(S)]
  BY <1>3, <1>4, Zenon
<1>6. \A f \in [1 .. n -> Chunks(S)] : f \in Seq(Chunks(S))
  BY <1>2
<1> QED
  BY <1>5, <1>6, Zenon DEF ps

\* process_input_paren moves what is outside the parentheses to the front; what is
\* inside is in no slot any more, or stays without its links.
LEMMA WithoutParensStays ==
  ASSUME NEW s \in [Slots -> SlotType], NEW num \in 0 .. MRPH_MAX, NEW p \in SUBSET Pairs(s, num)
  PROVE  /\ num - Cardinality(Within(p)) \in 0 .. num
         /\ Moved(s, num, WithoutParens(s, num, p), num - Cardinality(Within(p)))
         /\ \A i \in Slots : \/ WithoutParens(s, num, p)[i].f = {}
                             \/ \E a \in Slots \ Inside(p) : WithoutParens(s, num, p)[i].f = s[a].f
         /\ p = {} => num - Cardinality(Within(p)) = num /\ WithoutParens(s, num, p) = s
<1> DEFINE I == (0 .. (num - 1)) \ Within(p)
           left == Front(s, I)
           m == num - Cardinality(Within(p))
           w == WithoutParens(s, num, p)
           First == 0 .. (m - 1)
           Stay == {i \in Slots : i >= num \/ i \in Within(p) \ Inside(p)}
<1>1. num \in Nat /\ num <= MRPH_MAX
  BY SlotBounds
<1>2. Within(p) \subseteq 0 .. (num - 1) /\ Inside(p) \subseteq Within(p)
  <2>1. \A x \in p : x[1] \in 0 .. (num - 1) /\ x[2] \in 0 .. (num - 1)
    BY <1>1, PairFacts, Zenon
  <2>2. \A x \in p : x[1] .. x[2] \subseteq 0 .. (num - 1) /\ x[1] + 1 .. x[2] - 1 \subseteq x[1] .. x[2]
    BY <1>1, <2>1
  <2> QED
    BY <2>2, Zenon DEF Within, Inside
<1>3. I \in SUBSET (0 .. (num - 1))
  OBVIOUS
<1>4. Cardinality(I) = m
  <2>1. IsFiniteSet(0 .. (num - 1)) /\ Cardinality(0 .. (num - 1)) = num
    BY <1>1, FS_Interval
  <2>2. (0 .. (num - 1)) \cap Within(p) = Within(p)
    BY <1>2, Zenon
  <2>3. Cardinality(I) = Cardinality(0 .. (num - 1)) - Cardinality((0 .. (num - 1)) \cap Within(p))
    BY <2>1, FS_Difference, Zenon
  <2> QED
    BY <2>1, <2>2, <2>3, Zenon
<1>5. \A i \in I : i \in Slots /\ i < num /\ i \in Slots \ Within(p)
  BY <1>1, SlotBounds
<1> HIDE DEF I, m
<1>6. m \in 0 .. num /\ m \in Nat /\ DOMAIN left = 0 .. (m - 1) /\ FrontFrom(s, I)
  <2>1. Cardinality(I) \in 0 .. num /\ DOMAIN left = 0 .. (Cardinality(I) - 1) /\ FrontFrom(s, I)
    BY <1>1, <1>3, FrontOf, Zenon
  <2>2. m \in 0 .. num /\ DOMAIN left = 0 .. (m - 1) /\ FrontFrom(s, I)
    BY <1>4, <2>1, Zenon
  <2> QED
    BY <1>1, <2>2
<1>7. PICK at \in [0 .. (m - 1) -> I] :
        /\ \A k \in 0 .. (m - 1) : left[k] = s[at[k]]
        /\ \A j, k \in 0 .. (m - 1) : at[j] = at[k] => j = k
  BY <1>4, <1>6, ZenonT(30) DEF FrontFrom
<1> HIDE DEF left
<1>8. w = [i \in Slots |->
           IF p # {} /\ i \in 0 .. (m - 1) THEN left[i]
           ELSE IF i < num /\ p # {} /\ i \notin Within(p) \ Inside(p) THEN [s[i] EXCEPT !.f = {}]
           ELSE s[i]]
  BY <1>6, Zenon DEF WithoutParens, left, I
<1> HIDE DEF w
<1>9. CASE p = {}
  <2>1. Within(p) = {} /\ Inside(p) = {}
    BY <1>9, Zenon DEF Within, Inside
  <2>2. m = num
    BY <1>1, <2>1, FS_EmptySet DEF m
  <2>3. w = [i \in Slots |-> s[i]]
    BY <1>8, <1>9, Zenon
  <2>4. w = s /\ s = [i \in Slots |-> s[i]]
    BY <2>3, Zenon
  <2> DEFINE src == [i \in Slots |-> i]
  <2>5. src \in [Slots -> Slots] /\ \A i \in Slots : src[i] = i
    BY Zenon
  <2> HIDE DEF src
  <2>6. MovedBy(src, s, num, s, num)
    <3>1. \A i, j \in Slots : ~ (i # j /\ src[i] = src[j])
      BY <2>5, Zenon
    <3>2. \A i \in Slots : s[i] = s[src[i]] /\ (i < num => src[i] < num)
      BY <2>5, Zenon
    <3> QED
      BY <2>4, <2>5, <3>1, <3>2, Zenon DEF MovedBy
  <2>7. Moved(s, num, w, m)
    BY <2>2, <2>4, <2>6, Zenon DEF Moved
  <2>8. \A i \in Slots : \E a \in Slots \ Inside(p) : w[i].f = s[a].f
    BY <2>1, <2>4, Zenon
  <2> QED
    BY <1>6, <2>2, <2>4, <2>7, <2>8, Zenon DEF m, w
<1>10. CASE p # {}
  <2>1. /\ w = [i \in Slots |-> w[i]]
        /\ \A i \in Slots : /\ i \in First => w[i] = left[i]
                            /\ i \notin First /\ i \in Stay => w[i] = s[i]
                            /\ i \notin First /\ i \notin Stay => w[i] = Cut(s[i])
    <3>1. \A i \in Slots : i >= num <=> ~ (i < num)
      BY <1>1, SlotBounds
    <3> QED
      BY <1>8, <1>10, <3>1, Zenon DEF Cut
  <2>2. /\ \A i \in Slots : i < m => i \in First
        /\ \A i \in Slots : i \notin First => i >= m
    BY <1>6, SlotBounds
  <2>3. \A i \in Stay : i \in Slots /\ i \notin I /\ i \notin Inside(p)
    <3>1. \A i \in Slots : i >= num => i \notin 0 .. (num - 1)
      BY <1>1
    <3> QED
      BY <1>2, <3>1, Zenon DEF I
  <2> DEFINE src == [i \in Slots |-> IF i \in First THEN at[i] ELSE i]
  <2>4. /\ src \in [Slots -> Slots]
        /\ \A i \in Slots : /\ i \in First => src[i] = at[i] /\ at[i] \in I
                            /\ i \notin First => src[i] = i
    BY <1>5, <1>7, Zenon
  <2> HIDE DEF src, First, Stay
  <2>5. \A i \in Slots : \/ w[i] = s[src[i]] /\ (i < m => src[i] < num)
                         \/ i >= m /\ w[i] = Cut(s[src[i]])
    BY <1>5, <1>7, <2>1, <2>2, <2>4, Zenon DEF First
  <2>6. ASSUME NEW i \in Slots, NEW j \in Slots, i # j, src[i] = src[j]
        PROVE  \E k \in {i, j} : k >= m /\ w[k] = Cut(s[src[k]])
    <3>1. ASSUME NEW x \in Slots, NEW y \in Slots, x \in First, y \notin First, src[x] = src[y]
          PROVE  y >= m /\ w[y] = Cut(s[src[y]])
      <4>1. src[y] = y /\ src[x] = at[x] /\ at[x] \in I
        BY <2>4, <3>1, Zenon
      <4>2. y \notin Stay
        BY <2>3, <3>1, <4>1, Zenon
      <4>3. y >= m /\ w[y] = Cut(s[y])
        BY <2>1, <2>2, <3>1, <4>2, Zenon
      <4> QED
        BY <4>1, <4>3, Zenon
    <3>2. ~ (i \in First /\ j \in First)
      BY <1>7, <2>4, <2>6, Zenon DEF First
    <3>3. i \in First \/ j \in First
      BY <2>4, <2>6, Zenon
    <3> QED
      BY <2>6, <3>1, <3>2, <3>3, Zenon
  <2>7. Moved(s, num, w, m)
    <3>1. MovedBy(src, s, num, w, m)
      BY <2>1, <2>4, <2>5, <2>6, Zenon DEF MovedBy
    <3> QED
      BY <3>1, Zenon DEF Moved
  <2>8. ASSUME NEW i \in Slots
        PROVE  w[i].f = {} \/ \E a \in Slots \ Inside(p) : w[i].f = s[a].f
    <3>1. CASE i \in First
      <4>1. at[i] \in I /\ w[i] = s[at[i]]
        BY <1>7, <2>1, <2>4, <3>1, Zenon DEF First
      <4>2. at[i] \in Slots \ Inside(p)
        BY <1>2, <1>5, <4>1, Zenon
      <4> QED
        BY <4>1, <4>2, Zenon
    <3>2. CASE i \notin First /\ i \in Stay
      BY <2>1, <2>3, <3>2, Zenon
    <3>3. CASE i \notin First /\ i \notin Stay
      <4>1. w[i] = Cut(s[i]) /\ s[i] \in SlotType
        BY <2>1, <3>3, Zenon
      <4>2. \A x \in SlotType : Cut(x).f = {}
        BY DEF SlotType, Cut
      <4> QED
        BY <4>1, <4>2, Zenon
    <3> QED
      BY <3>1, <3>2, <3>3, Zenon
  <2> QED
    BY <1>6, <1>10, <2>7, <2>8, Zenon DEF m, w
<1> QED
  BY <1>9, <1>10, Zenon
-----------------------------------------------------------------------------
(* The steps                                                               *)

\* A morpheme added to slots that hold the ones before it.
LEMMA Added ==
  ASSUME NEW t \in Texts, NEW q \in 1 .. Len(t), t[q].k \in {"m", "@"},
         NEW s \in [Slots -> SlotType], NEW num \in Slots
  PROVE  LET new == [s EXCEPT ![num] = [id |-> q, w |-> t[q].w, f |-> s[num].f \cup {q}]]
         IN  /\ new \in [Slots -> SlotType]
             /\ EmptyFrom(s, num) => EmptyFrom(new, num + 1)
             /\ EmptyFrom(s, num) /\ Holds(s, num, OwnSlots(t, NumberIn(t, q))) =>
                  Holds(new, num + 1, OwnSlots(t, NumberIn(t, q)))
<1> DEFINE r == [id |-> q, w |-> t[q].w, f |-> s[num].f \cup {q}]
           new == [s EXCEPT ![num] = r]
           S == OwnSlots(t, NumberIn(t, q))
<1>1. q \in Nat /\ t[q].w \in Words /\ q \in DOMAIN t
  BY TextFacts
<1>2. r \in SlotType /\ r.id = q /\ r.w = t[q].w /\ r.f = s[num].f \cup {q}
  BY <1>1 DEF SlotType
<1>3. q \in WordLines(t, NumberIn(t, q))
  BY <1>1, Zenon DEF WordLines
<1> HIDE DEF r
<1>4. /\ new \in [Slots -> SlotType]
      /\ \A i \in Slots : (i = num => new[i] = r) /\ (i # num => new[i] = s[i])
  BY <1>2
<1> HIDE DEF new
<1>5. /\ \A i \in Slots : i >= num + 1 => i # num /\ i >= num
      /\ \A i \in Slots : i < num + 1 => i = num \/ (i # num /\ i < num)
      /\ num >= num
  BY SlotBounds
<1>6. EmptyFrom(s, num) => EmptyFrom(new, num + 1)
  BY <1>4, <1>5, Zenon DEF EmptyFrom
<1>7. ASSUME EmptyFrom(s, num), Holds(s, num, S)
      PROVE  Holds(new, num + 1, S)
  <2>1. s[num].f = {}
    BY <1>5, <1>7, Zenon DEF EmptyFrom
  <2>2. r.f = {q}
    BY <1>2, <2>1
  <2>3. r \in S
    BY <1>2, <1>3, <2>2, Zenon DEF OwnSlots
  <2> HIDE DEF S
  <2> QED
    BY <1>4, <1>5, <1>7, <2>3, Zenon DEF Holds
<1> QED
  BY <1>4, <1>6, <1>7, Zenon DEF new, r

\* No slot is in use and all are empty.
LEMMA NoneHeld ==
  ASSUME NEW s, NEW S
  PROVE  Holds(s, 0, S)
<1>1. \A i \in Slots : ~ (i < 0)
  BY SlotBounds
<1> QED
  BY <1>1, Zenon DEF Holds

\* A line that is not a morpheme is read, or any line up to EOS is skipped.
LEMMA OtherLineKeeps ==
  ASSUME IInv, pc \in {"read", "skip"}, pos <= Len(text), pos' = pos + 1, text[pos].k # "E",
         pc' \in {"read", "skip"}, pc' = "read" => pc = "read" /\ text[pos].k \notin {"m", "@"},
         UNCHANGED <<text, opt, slot, Mrph_num, homo_num, sen, parens>>
  PROVE  IInv'
<1>1. TextInv'
  <2>1. text \in Texts /\ pos \in 1 .. (Len(text) + 1) /\ Len(text) \in Nat
    BY TextFacts, Zenon DEF IInv, TextInv
  <2>2. pos \in Nat \ {0} /\ pos + 1 \in 1 .. (Len(text) + 1)
    BY <2>1
  <2>3. NumberIn(text, pos + 1) = NumberIn(text, pos)
    <3>1. NumberIn(text, pos) \in Nat /\ NumberIn(text, pos + 1) = NumberIn(text, pos) + 0
      BY <2>2, NumberStep, Zenon
    <3> QED
      BY <3>1
  <2> QED
    BY <2>1, <2>2, <2>3 DEF IInv, TextInv
<1>2. CountInv'
  <2>1. pos' - 1 = pos
    BY TextFacts DEF IInv, TextInv
  <2>2. Mrph_num' = Mrph_num /\ homo_num' = homo_num /\ text' = text
    OBVIOUS
  <2> QED
    BY <2>1, <2>2, Zenon DEF IInv, CountInv
<1>3. SlotInv'
  BY DEF IInv, SlotInv
<1>4. OwnInv'
  BY Zenon DEF IInv, OwnInv
<1> QED
  BY <1>1, <1>2, <1>3, <1>4 DEF IInv

\* An unreadable sentence leaves all slots empty.
LEMMA FailKeeps ==
  ASSUME IInv, pc \in {"read", "skip"}, pos <= Len(text), pos' = pos + 1, text[pos].k = "E",
         Fail, UNCHANGED <<text, opt, homo_num, sen, parens>>
  PROVE  IInv'
<1>1. TextInv'
  <2>1. text \in Texts /\ pos \in 1 .. (Len(text) + 1) /\ Len(text) \in Nat
    BY TextFacts, Zenon DEF IInv, TextInv
  <2>2. pos \in Nat \ {0} /\ pos + 1 \in 1 .. (Len(text) + 1) /\ pos + 1 - 1 = pos
    BY <2>1
  <2>3. NumberIn(text, pos + 1) = NumberIn(text, pos) + 1
    BY <2>2, NumberStep
  <2>4. pc' = "ready" /\ text' = text /\ sen' = sen
    BY DEF Fail
  <2> QED
    BY <2>1, <2>2, <2>3, <2>4 DEF IInv, TextInv
<1>2. Mrph_num' = 0 /\ homo_num' = homo_num /\ pc' = "ready" /\ parens' = parens /\ parens = <<>>
  BY Zenon DEF Fail, IInv, SlotInv
<1>3. CountInv'
  BY <1>2, SlotBounds DEF IInv, CountInv
<1>4. slot' \in [Slots -> SlotType] /\ (EmptyFrom(slot, Mrph_num) => EmptyFrom(slot', 0))
  <2>1. slot' = Emptied(slot, 0 .. (Mrph_num - 1))
    BY DEF Fail, Used
  <2>2. slot \in [Slots -> SlotType] /\ Mrph_num \in 0 .. MRPH_MAX
    BY DEF IInv, SlotInv, CountInv
  <2> QED
    BY <2>1, <2>2, EmptiedStays
<1>5. SlotInv'
  BY <1>2, <1>4, Zenon DEF IInv, SlotInv
<1>6. OwnInv'
  <2>1. Holds(slot', 0, OwnSlots(text, sen))
    BY NoneHeld, Zenon
  <2>2. sen \in Nat
    BY DEF IInv, TextInv
  <2>3. Clean(text, opt, sen) => Clean(text, opt, sen - 1)
    BY <2>2, CleanLess, Zenon
  <2>4. Clean(text, opt, sen - 1) => EmptyFrom(slot, Mrph_num) /\ parens \in Seq(Chunks(OwnSlots(text, sen)))
    BY Zenon DEF IInv, OwnInv
  <2> QED
    BY <1>2, <1>4, <2>1, <2>3, <2>4, Zenon DEF OwnInv
<1> QED
  BY <1>1, <1>3, <1>5, <1>6 DEF IInv

LEMMA StartKeeps == IInv /\ Start => IInv'
<1>1. SUFFICES ASSUME IInv, Start
               PROVE  IInv'
  OBVIOUS
<1>2. /\ pc = "ready" /\ pc' = "read" /\ Mrph_num' = 0 /\ homo_num' = 0 /\ sen' = sen + 1
      /\ text' = text /\ opt' = opt /\ pos' = pos /\ parens' = parens
  BY <1>1 DEF Start
<1>3. sen \in Nat /\ sen + 1 \in Nat /\ sen + 1 >= 1 /\ sen + 1 - 1 = sen
  BY <1>1 DEF IInv, TextInv
<1>4. TextInv'
  BY <1>1, <1>2, <1>3, Zenon DEF IInv, TextInv
<1>5. CountInv'
  <2>1. pos = 1 \/ text[pos - 1].k = "E"
    BY <1>1, <1>2 DEF IInv, TextInv
  <2>2. ~ (pos > 1 /\ text[pos - 1].k \in {"m", "@"})
    BY <2>1
  <2> QED
    BY <1>2, <2>2, SlotBounds DEF CountInv
<1>6. slot' \in [Slots -> SlotType] /\ (EmptyFrom(slot, Mrph_num) => EmptyFrom(slot', 0))
  <2>1. slot' = Emptied(slot, 0 .. (Mrph_num - 1))
    BY <1>1 DEF Start, Used
  <2>2. slot \in [Slots -> SlotType] /\ Mrph_num \in 0 .. MRPH_MAX
    BY <1>1 DEF IInv, SlotInv, CountInv
  <2> QED
    BY <2>1, <2>2, EmptiedStays
<1>7. parens = <<>> /\ parens' = <<>>
  BY <1>1, <1>2, Zenon DEF IInv, SlotInv
<1>8. SlotInv'
  BY <1>1, <1>2, <1>6, <1>7, Zenon DEF IInv, SlotInv
<1>9. OwnInv'
  <2>1. Holds(slot', 0, OwnSlots(text, sen + 1))
    BY NoneHeld, Zenon
  <2>2. Clean(text, opt, sen) => EmptyFrom(slot, Mrph_num)
    BY <1>1, <1>2, Zenon DEF IInv, OwnInv
  <2>3. \A S : <<>> \in Seq(Chunks(S))
    OBVIOUS
  <2>4. sen' - 1 = sen
    BY <1>2, <1>3
  <2>5. pc' \notin {"analyse", "next", "ready"}
    BY <1>2
  <2>6. Clean(text', opt', sen' - 1) <=> Clean(text, opt, sen)
    BY <1>2, <2>4, Zenon
  <2>7. Holds(slot', Mrph_num', OwnSlots(text', sen'))
    BY <1>2, <2>1, Zenon
  <2>8. Clean(text, opt, sen) => EmptyFrom(slot', Mrph_num')
    BY <1>2, <1>6, <2>2, Zenon
  <2>9. parens' \in Seq(Chunks(OwnSlots(text', sen')))
    BY <1>7, <2>3, Zenon
  <2> QED
    BY <2>5, <2>6, <2>7, <2>8, <2>9, Zenon DEF OwnInv
<1> QED
  BY <1>4, <1>5, <1>8, <1>9 DEF IInv

LEMMA LinesKeep == IInv /\ (Comment \/ BnstLine \/ TagLine \/ Invalid) => IInv'
<1>1. SUFFICES ASSUME IInv, Comment \/ BnstLine \/ TagLine \/ Invalid
               PROVE  IInv'
  OBVIOUS
<1>2. /\ Reads({"#", "*", "+", "x"}) /\ pc' \in {"read", "skip"}
      /\ UNCHANGED <<text, opt, slot, Mrph_num, homo_num, sen, parens>>
  <2>1. CASE Comment
    BY <2>1 DEF Comment, Reads, reading
  <2>2. CASE BnstLine
    BY <2>2 DEF BnstLine, Reads
  <2>3. CASE TagLine
    BY <2>3 DEF TagLine, Reads
  <2>4. CASE Invalid
    BY <2>4 DEF Invalid, Reads, reading
  <2> QED
    BY <1>1, <2>1, <2>2, <2>3, <2>4
<1>3. pc = "read" /\ pos <= Len(text) /\ pos' = pos + 1 /\ text[pos].k \in {"#", "*", "+", "x"}
  BY <1>2 DEF Reads, Line
<1>4. text[pos].k # "E" /\ text[pos].k \notin {"m", "@"}
  BY <1>3
<1> QED
  BY <1>1, <1>2, <1>3, <1>4, OtherLineKeeps

LEMMA SkipKeeps == IInv /\ Skip => IInv'
<1>1. SUFFICES ASSUME IInv, Skip
               PROVE  IInv'
  OBVIOUS
<1>2. /\ pc = "skip" /\ pos <= Len(text) /\ pos' = pos + 1
      /\ UNCHANGED <<text, opt, homo_num, sen, parens>>
  BY <1>1 DEF Skip
<1>3. CASE text[pos].k = "E"
  BY <1>1, <1>2, <1>3, FailKeeps DEF Skip, Line
<1>4. CASE text[pos].k # "E"
  <2>1. pc' = "skip" /\ UNCHANGED <<slot, Mrph_num>>
    BY <1>1, <1>2, <1>4 DEF Skip, Line
  <2> QED
    BY <1>1, <1>2, <1>4, <2>1, OtherLineKeeps
<1> QED
  BY <1>3, <1>4

\* The readings of the last morpheme are reduced to one, or there is only one.
LEMMA ReadingsReduced ==
  ASSUME IInv, pc = "read", NEW pref \in 0 .. homo_num
  PROVE  /\ homo_num > 0 => /\ Reduced(pref) \in [Slots -> SlotType]
                            /\ Moved(slot, Mrph_num, Reduced(pref), Mrph_num - homo_num)
         /\ Mrph_num - homo_num \in 0 .. MRPH_MAX
         /\ homo_num > 0 /\ Clean(text, opt, sen - 1) =>
              /\ Holds(Reduced(pref), Mrph_num - homo_num, OwnSlots(text, sen))
              /\ EmptyFrom(Reduced(pref), Mrph_num - homo_num)
<1>1. /\ slot \in [Slots -> SlotType] /\ Mrph_num \in 0 .. MRPH_MAX /\ homo_num \in Nat
      /\ homo_num = 0 \/ homo_num < Mrph_num
  BY DEF IInv, SlotInv, CountInv
<1>2. CASE homo_num = 0
  <2>1. Mrph_num - homo_num \in 0 .. MRPH_MAX /\ ~ (homo_num > 0)
    BY <1>1, <1>2, SlotBounds
  <2> QED
    BY <2>1, Zenon
<1>3. CASE homo_num < Mrph_num
  <2>1. Clean(text, opt, sen - 1) => Holds(slot, Mrph_num, OwnSlots(text, sen)) /\ EmptyFrom(slot, Mrph_num)
    BY Zenon DEF IInv, OwnInv
  <2>2. \A a \in 1 .. MRPH_MAX : a \in 0 .. MRPH_MAX /\ a \in Nat
    BY SlotBounds
  <2> DEFINE b == Mrph_num - homo_num
  <2>3. /\ b \in 1 .. MRPH_MAX /\ Moved(slot, Mrph_num, Reduced(pref), b)
        /\ EmptyFrom(slot, Mrph_num) => EmptyFrom(Reduced(pref), b)
    BY <1>1, <1>3, ReducedStays, Zenon
  <2> HIDE DEF b
  <2>4. b \in Nat /\ b \in 0 .. MRPH_MAX
    BY <2>2, <2>3, Zenon
  <2>5. /\ Reduced(pref) \in [Slots -> SlotType]
        /\ \A S : Holds(slot, Mrph_num, S) => Holds(Reduced(pref), b, S)
    BY <1>1, <2>3, <2>4, MovedStays, Zenon
  <2> QED
    BY <2>1, <2>3, <2>4, <2>5, Zenon DEF b
<1> QED
  BY <1>1, <1>2, <1>3

LEMMA MorphemeKeeps == IInv /\ Morpheme => IInv'
<1>1. SUFFICES ASSUME IInv, Morpheme
               PROVE  IInv'
  OBVIOUS
<1> DEFINE ends == text[pos].k = "m" /\ homo_num > 0
           s(pref) == IF ends THEN Reduced(pref) ELSE slot
           num == IF ends THEN Mrph_num - homo_num ELSE Mrph_num
           Own == OwnSlots(text, sen)
<1>2. /\ pc = "read" /\ pos <= Len(text) /\ text[pos].k \in {"m", "@"} /\ pos' = pos + 1
      /\ text' = text /\ opt' = opt /\ sen' = sen /\ parens' = parens
  BY <1>1 DEF Morpheme, Reads, Line
<1>3. PICK pref \in 0 .. homo_num :
        /\ Full(num) => slot' = s(pref) /\ Mrph_num' = num /\ pc' = "skip"
        /\ ~ Full(num) =>
             /\ slot' = [s(pref) EXCEPT ![num] = [id |-> pos, w |-> text[pos].w, f |-> s(pref)[num].f \cup {pos}]]
             /\ Mrph_num' = num + 1 /\ pc' = pc
        /\ homo_num' = (IF ends THEN 0 ELSE homo_num) + (IF text[pos].k = "@" /\ ~ Full(num) THEN 1 ELSE 0)
  BY <1>1, Zenon DEF Morpheme, Line
<1>4. /\ text \in Texts /\ Len(text) \in Nat /\ pos \in 1 .. Len(text) /\ pos \in Nat \ {0}
      /\ pos + 1 \in 1 .. (Len(text) + 1) /\ pos + 1 - 1 = pos /\ NumberIn(text, pos) = sen
      /\ sen \in Nat /\ sen >= 1
  BY <1>1, <1>2, TextFacts DEF IInv, TextInv
<1>5. /\ slot \in [Slots -> SlotType] /\ Mrph_num \in 0 .. MRPH_MAX /\ homo_num \in Nat
      /\ homo_num = 0 \/ homo_num < Mrph_num
      /\ parens = <<>>
  BY <1>1, <1>2 DEF IInv, SlotInv, CountInv
<1>6. /\ s(pref) \in [Slots -> SlotType] /\ num \in 0 .. MRPH_MAX
      /\ Clean(text, opt, sen - 1) => Holds(s(pref), num, Own) /\ EmptyFrom(s(pref), num)
  <2>1. CASE ends
    BY <1>1, <1>2, <2>1, ReadingsReduced, Zenon
  <2>2. CASE ~ ends
    <3>1. Clean(text, opt, sen - 1) => Holds(slot, Mrph_num, Own) /\ EmptyFrom(slot, Mrph_num)
      BY <1>1, <1>2, Zenon DEF IInv, OwnInv
    <3> QED
      BY <1>5, <2>2, <3>1, Zenon
  <2> QED
    BY <2>1, <2>2, Zenon
<1>7. pc' \in {"read", "skip"}
  BY <1>2, <1>3, Zenon
<1>8. TextInv'
  <2>1. NumberIn(text, pos + 1) = NumberIn(text, pos)
    BY <1>2, <1>4, NumberStep
  <2> QED
    BY <1>2, <1>4, <1>7, <2>1 DEF TextInv
<1>9. CountInv'
  <2>1. text[pos].k = "@" => homo_num < Mrph_num
    <3>1. text[pos].k = "@" => pos > 1 /\ text[pos - 1].k \in {"m", "@"}
      BY <1>4, TextFacts, Zenon
    <3> QED
      BY <1>1, <1>2, <3>1, Zenon DEF IInv, CountInv
  <2>2. homo_num' \in Nat
    BY <1>3, <1>5
  <2>3. CASE Full(num)
    BY <1>3, <1>6, <2>2, <2>3 DEF CountInv
  <2>4. CASE ~ Full(num)
    <3>1. num < MRPH_MAX /\ num + 1 \in 0 .. MRPH_MAX /\ num \in Nat
      BY <1>6, <2>4, SlotBounds DEF Full
    <3>2. text[pos].k = "@" => homo_num' = homo_num + 1 /\ num = Mrph_num
      BY <1>3, <2>4, <1>5
    <3>3. text[pos].k # "@" => homo_num' = 0
      BY <1>2, <1>3, <1>5
    <3>4. homo_num' < num + 1
      BY <1>5, <2>1, <3>1, <3>2, <3>3
    <3> QED
      BY <1>3, <2>2, <2>4, <3>1, <3>4 DEF CountInv
  <2> QED
    BY <2>3, <2>4
<1> HIDE DEF s, num, Own
<1>10. /\ slot' \in [Slots -> SlotType]
       /\ Clean(text, opt, sen - 1) => Holds(slot', Mrph_num', Own) /\ EmptyFrom(slot', Mrph_num')
  <2>1. CASE Full(num)
    BY <1>3, <1>6, <2>1, Zenon
  <2>2. CASE ~ Full(num)
    <3>1. num \in Slots
      BY <1>6, <2>2, SlotBounds DEF Full
    <3> DEFINE q == s(pref)
               new == [q EXCEPT ![num] = [id |-> pos, w |-> text[pos].w, f |-> q[num].f \cup {pos}]]
               N == OwnSlots(text, NumberIn(text, pos))
    <3>2. slot' = new /\ Mrph_num' = num + 1
      BY <1>3, <2>2, Zenon
    <3>3. N = Own
      BY <1>4, Zenon DEF Own
    <3>4. q \in [Slots -> SlotType]
      BY <1>6, Zenon
    <3> HIDE DEF q
    <3>5. /\ new \in [Slots -> SlotType]
          /\ EmptyFrom(q, num) => EmptyFrom(new, num + 1)
          /\ EmptyFrom(q, num) /\ Holds(q, num, N) => Holds(new, num + 1, N)
      BY <1>2, <1>4, <3>1, <3>4, Added, Zenon
    <3> HIDE DEF new, N
    <3>6. Clean(text, opt, sen - 1) => Holds(q, num, Own) /\ EmptyFrom(q, num)
      BY <1>6, Zenon DEF q
    <3> QED
      BY <3>2, <3>3, <3>5, <3>6, Zenon
  <2> QED
    BY <2>1, <2>2
<1>11. SlotInv'
  BY <1>1, <1>2, <1>5, <1>7, <1>10 DEF IInv, SlotInv
<1>12. OwnInv'
  <2>1. pc' \notin {"analyse", "next", "ready"}
    BY <1>7
  <2>2. Clean(text, opt, sen - 1) => parens \in Seq(Chunks(Own))
    BY <1>1, Zenon DEF IInv, OwnInv, Own
  <2> QED
    BY <1>2, <1>10, <2>1, <2>2, Zenon DEF OwnInv, Own
<1> QED
  BY <1>8, <1>9, <1>11, <1>12 DEF IInv

LEMMA EndOfSentenceKeeps == IInv /\ EndOfSentence => IInv'
<1>1. SUFFICES ASSUME IInv, EndOfSentence
               PROVE  IInv'
  OBVIOUS
<1>2. /\ pc = "read" /\ pos <= Len(text) /\ text[pos].k = "E" /\ pos' = pos + 1
      /\ text' = text /\ opt' = opt /\ sen' = sen /\ parens' = parens
  BY <1>1 DEF EndOfSentence, Reads, Line
<1>3. CASE Mrph_num = 0
  <2>1. Fail /\ homo_num' = homo_num
    BY <1>1, <1>3 DEF EndOfSentence
  <2> QED
    BY <1>1, <1>2, <2>1, FailKeeps
<1>4. CASE Mrph_num # 0
  <2>1. pc' = "prepare" /\ Mrph_num' = Mrph_num - homo_num /\ homo_num' = 0
    BY <1>1, <1>4 DEF EndOfSentence
  <2>2. PICK pref \in 0 .. homo_num : slot' = IF homo_num > 0 THEN Reduced(pref) ELSE slot
    BY <1>1, <1>4 DEF EndOfSentence
  <2>3. /\ text \in Texts /\ Len(text) \in Nat /\ pos \in Nat \ {0}
        /\ pos + 1 \in 1 .. (Len(text) + 1) /\ pos + 1 - 1 = pos /\ NumberIn(text, pos) = sen
        /\ sen \in Nat /\ sen >= 1
    BY <1>1, <1>2, TextFacts DEF IInv, TextInv
  <2>4. TextInv'
    <3>1. NumberIn(text, pos + 1) = NumberIn(text, pos) + 1
      BY <1>2, <2>3, NumberStep
    <3> QED
      BY <1>2, <2>1, <2>3, <3>1 DEF TextInv
  <2>5. /\ slot' \in [Slots -> SlotType] /\ Mrph_num' \in 0 .. MRPH_MAX
        /\ Clean(text, opt, sen - 1) =>
             Holds(slot', Mrph_num', OwnSlots(text, sen)) /\ EmptyFrom(slot', Mrph_num')
    <3>1. slot \in [Slots -> SlotType] /\ homo_num \in Nat /\ Mrph_num \in Nat
      BY <1>1 DEF IInv, SlotInv, CountInv
    <3>2. Mrph_num' \in 0 .. MRPH_MAX
      BY <1>1, <1>2, <2>1, <2>2, ReadingsReduced, Zenon
    <3>3. CASE homo_num > 0
      BY <1>1, <1>2, <2>1, <2>2, <3>2, <3>3, ReadingsReduced, Zenon
    <3>4. CASE ~ (homo_num > 0)
      <4>1. Mrph_num' = Mrph_num
        BY <2>1, <3>1, <3>4
      <4>2. Clean(text, opt, sen - 1) =>
              Holds(slot, Mrph_num, OwnSlots(text, sen)) /\ EmptyFrom(slot, Mrph_num)
        BY <1>1, <1>2, Zenon DEF IInv, OwnInv
      <4>3. slot' = slot
        BY <2>2, <3>4, Zenon
      <4> QED
        BY <3>1, <3>2, <4>1, <4>2, <4>3, Zenon
    <3> QED
      BY <3>3, <3>4
  <2>6. CountInv'
    BY <2>1, <2>5 DEF CountInv
  <2>7. SlotInv'
    BY <1>1, <1>2, <2>1, <2>5 DEF IInv, SlotInv
  <2>8. OwnInv'
    <3>1. pc' \notin {"analyse", "next", "ready"}
      BY <2>1
    <3>2. Clean(text, opt, sen - 1) => parens \in Seq(Chunks(OwnSlots(text, sen)))
      BY <1>1, Zenon DEF IInv, OwnInv
    <3> QED
      BY <1>2, <2>5, <3>1, <3>2, Zenon DEF OwnInv
  <2> QED
    BY <2>4, <2>6, <2>7, <2>8 DEF IInv
<1> QED
  BY <1>3, <1>4

\* A sentence with a parenthesis that is cut out has the line of one.
LEMMA PreprocessKeeps == IInv /\ Preprocess => IInv'
<1>1. SUFFICES ASSUME IInv, Preprocess
               PROVE  IInv'
  OBVIOUS
<1> DEFINE num == Mrph_num - Cardinality(Joined)
           c == Compacted
           p == IF opt.paren THEN CutOut(c, num) ELSE {}
           Own == OwnSlots(text, sen)
<1>2. /\ pc = "prepare" /\ pc' = "analyse"
      /\ slot' = WithoutParens(c, num, p) /\ Mrph_num' = num - Cardinality(Within(p))
      /\ parens' = ParenSentences(c, p)
      /\ text' = text /\ opt' = opt /\ pos' = pos /\ sen' = sen /\ homo_num' = homo_num
  BY <1>1, Zenon DEF Preprocess
<1>3. /\ slot \in [Slots -> SlotType] /\ Mrph_num \in 0 .. MRPH_MAX /\ homo_num \in Nat
      /\ sen \in Nat /\ sen >= 1
  BY <1>1, <1>2 DEF IInv, SlotInv, CountInv, TextInv
<1>a. /\ num \in 0 .. Mrph_num /\ Moved(slot, Mrph_num, c, num)
      /\ EmptyFrom(slot, Mrph_num) => EmptyFrom(c, num)
  BY <1>3, CompactedStays, Zenon
<1> HIDE DEF num, c
<1>5. num \in 0 .. MRPH_MAX /\ num \in Nat
  BY <1>3, <1>a, SlotBounds
<1>4. /\ c \in [Slots -> SlotType]
      /\ \A S : Holds(slot, Mrph_num, S) => Holds(c, num, S)
      /\ EmptyFrom(slot, Mrph_num) => EmptyFrom(c, num)
  BY <1>3, <1>5, <1>a, MovedStays, Zenon
<1>6. Cuttable(c, num, p) /\ p \in SUBSET Pairs(c, num) /\ (p # {} => opt.paren)
  BY Zenon DEF CutOut, Cuttable
<1> HIDE DEF p
<1>7. /\ Mrph_num' \in 0 .. num /\ slot' \in [Slots -> SlotType]
      /\ \A S : Holds(c, num, S) => Holds(slot', Mrph_num', S)
      /\ p = {} => Mrph_num' = num /\ slot' = c
  <2> DEFINE m == num - Cardinality(Within(p))
  <2>1. /\ m \in 0 .. num /\ Moved(c, num, WithoutParens(c, num, p), m)
        /\ p = {} => m = num /\ WithoutParens(c, num, p) = c
    BY <1>4, <1>5, <1>6, WithoutParensStays, Zenon
  <2> HIDE DEF m
  <2>2. m \in Nat
    BY <1>5, <2>1
  <2>3. /\ WithoutParens(c, num, p) \in [Slots -> SlotType]
        /\ \A S : Holds(c, num, S) => Holds(WithoutParens(c, num, p), m, S)
    BY <1>4, <2>1, <2>2, MovedStays, Zenon
  <2> QED
    BY <1>2, <2>1, <2>3, Zenon DEF m
<1>8. TextInv'
  BY <1>1, <1>2, Zenon DEF IInv, TextInv
<1>9. CountInv'
  BY <1>2, <1>3, <1>5, <1>7, SlotBounds DEF CountInv
<1>10. Holds(c, num, SlotType)
  BY <1>4, Zenon DEF Holds
<1>11. parens' \in Seq(Chunks(SlotType)) /\ (Holds(c, num, Own) => parens' \in Seq(Chunks(Own)))
  <2> HIDE DEF Own
  <2> QED
    BY <1>2, <1>5, <1>6, <1>10, ParenSentencesIn, Zenon
<1>12. SlotInv'
  BY <1>2, <1>7, <1>11 DEF SlotInv
<1>13. Clean(text, opt, sen - 1) => Holds(c, num, Own) /\ EmptyFrom(c, num)
  BY <1>1, <1>2, <1>4, Zenon DEF IInv, OwnInv
<1>14. Clean(text, opt, sen) => Clean(text, opt, sen - 1)
  BY <1>3, CleanLess, Zenon
<1>15. ASSUME Clean(text, opt, sen)
       PROVE  p = {}
  <2>1. SUFFICES ASSUME p # {}
                 PROVE  FALSE
    BY Zenon
  <2>2. PICK x \in p : x[2] \in 0 .. (num - 1) /\ c[x[2]].w = ")"
    BY <1>5, <1>6, <2>1, PairFacts, Zenon
  <2> DEFINE y == c[x[2]]
  <2>3. x[2] \in Slots /\ x[2] < num
    BY <1>5, <2>2, SlotBounds
  <2>4. y \in Own
    BY <1>13, <1>14, <1>15, <2>3, Zenon DEF Holds
  <2>5. y.id \in WordLines(text, sen) /\ text[y.id].w = ")"
    BY <2>2, <2>4, Zenon DEF OwnSlots
  <2>6. Parenthesis(text, opt, sen)
    BY <1>6, <2>1, <2>5, Zenon DEF Parenthesis
  <2>7. sen \in 1 .. sen
    BY <1>3
  <2> QED
    BY <1>15, <2>6, <2>7, Zenon DEF Clean
<1>16. p = {} => parens' = <<>>
  <2>1. p = {} => Cardinality(p) = 0
    BY FS_EmptySet
  <2>2. parens' = <<>> \/ Len(parens') # 0
    BY <1>11
  <2>3. DOMAIN parens' = 1 .. Cardinality(p)
    BY <1>2, Zenon DEF ParenSentences
  <2>4. DOMAIN parens' = 1 .. Len(parens') /\ Len(parens') \in Nat
    BY <1>11
  <2>5. p = {} => Len(parens') = 0
    BY <2>1, <2>3, <2>4
  <2> QED
    BY <2>2, <2>5
<1>17. OwnInv'
  <2>1. Clean(text, opt, sen) => parens' = <<>> /\ EmptyFrom(slot', Mrph_num')
    BY <1>7, <1>13, <1>14, <1>15, <1>16, Zenon
  <2>2. Clean(text, opt, sen - 1) => Holds(slot', Mrph_num', Own) /\ parens' \in Seq(Chunks(Own))
    BY <1>7, <1>11, <1>13, Zenon
  <2>3. pc' \notin {"read", "skip", "prepare"}
    BY <1>2
  <2> QED
    BY <1>2, <2>1, <2>2, <2>3, Zenon DEF OwnInv
<1> QED
  BY <1>8, <1>9, <1>12, <1>17 DEF IInv

\* The analysis reads the slots.
LEMMA AnalyseKeeps == IInv /\ Analyse => IInv'
<1>1. SUFFICES ASSUME IInv, Analyse
               PROVE  IInv'
  OBVIOUS
<1>2. /\ pc = "analyse" /\ pc' = IF parens = <<>> THEN "ready" ELSE "next"
      /\ UNCHANGED <<text, opt, pos, slot, Mrph_num, homo_num, sen, parens>>
  BY <1>1 DEF Analyse
<1>3. pc' \in {"ready", "next"} /\ (pc' = "next" <=> parens # <<>>)
  BY <1>2
<1>4. TextInv'
  BY <1>1, <1>2, <1>3 DEF IInv, TextInv
<1>5. CountInv'
  BY <1>1, <1>2, <1>3 DEF IInv, CountInv
<1>6. SlotInv'
  BY <1>1, <1>2, <1>3 DEF IInv, SlotInv
<1>7. OwnInv'
  <2>1. pc' \notin {"read", "skip", "prepare"}
    BY <1>3
  <2> QED
    BY <1>1, <1>2, <2>1, Zenon DEF IInv, OwnInv
<1> QED
  BY <1>4, <1>5, <1>6, <1>7 DEF IInv

\* prepare_paren_sentence puts the next parenthesis into the slots.
LEMMA NextParenKeeps == IInv /\ NextParen => IInv'
<1>1. SUFFICES ASSUME IInv, NextParen
               PROVE  IInv'
  OBVIOUS
<1> DEFINE q == Head(parens)
           e == Emptied(slot, 0 .. (Mrph_num - 1))
           Own == OwnSlots(text, sen)
<1>2. /\ pc = "next" /\ pc' = "analyse"
      /\ slot' = [i \in Slots |-> IF i \in DOMAIN q THEN q[i] ELSE e[i]]
      /\ Mrph_num' = Cardinality(DOMAIN q) /\ parens' = Tail(parens)
      /\ text' = text /\ opt' = opt /\ pos' = pos /\ sen' = sen /\ homo_num' = homo_num
  BY <1>1, Zenon DEF NextParen, Used
<1>3. /\ slot \in [Slots -> SlotType] /\ Mrph_num \in 0 .. MRPH_MAX /\ homo_num \in Nat
      /\ parens \in Seq(Chunks(SlotType)) /\ parens # <<>>
  BY <1>1, <1>2 DEF IInv, SlotInv, CountInv
<1>4. ASSUME NEW S, parens \in Seq(S)
      PROVE  q \in S /\ Tail(parens) \in Seq(S)
  BY <1>3, <1>4
<1>5. e \in [Slots -> SlotType]
  BY <1>3, EmptiedStays, Zenon
<1>6. q \in Chunks(SlotType)
  <2> DEFINE X == Chunks(SlotType)
  <2> HIDE DEF X
  <2>1. parens \in Seq(X)
    BY <1>3 DEF X
  <2> QED
    BY <1>4, <2>1, Zenon DEF X
<1> HIDE DEF q, e
<1>7. PICK m \in 0 .. MRPH_MAX : q \in [0 .. (m - 1) -> SlotType]
  BY <1>6, Zenon DEF Chunks
<1>8. DOMAIN q = 0 .. (m - 1) /\ Mrph_num' = m
  <2>1. m \in Nat
    BY <1>7, SlotBounds
  <2>2. DOMAIN q = 0 .. (m - 1)
    BY <1>7, Zenon
  <2>3. Cardinality(0 .. (m - 1)) = m
    BY <2>1, FS_Interval
  <2> QED
    BY <1>2, <2>2, <2>3, Zenon
<1>9. slot' \in [Slots -> SlotType]
  BY <1>2, <1>5, <1>7, <1>8, Zenon
<1>10. ASSUME Clean(text, opt, sen - 1)
       PROVE  Holds(slot', m, Own) /\ Tail(parens) \in Seq(Chunks(Own))
  <2> DEFINE X == Chunks(Own)
  <2>1. parens \in Seq(X)
    BY <1>1, <1>10, Zenon DEF IInv, OwnInv
  <2> HIDE DEF X
  <2>2. q \in X /\ Tail(parens) \in Seq(X)
    BY <1>4, <2>1, Zenon DEF q
  <2>3. PICK l \in 0 .. MRPH_MAX : q \in [0 .. (l - 1) -> Own]
    BY <2>2, Zenon DEF Chunks, X
  <2>4. \A i \in DOMAIN q : q[i] \in Own
    BY <2>3, Zenon
  <2>5. \A i \in Slots : i < m => i \in 0 .. (m - 1)
    BY <1>7, SlotBounds
  <2> QED
    BY <1>2, <1>8, <2>2, <2>4, <2>5, Zenon DEF Holds, X
<1>11. TextInv'
  BY <1>1, <1>2, Zenon DEF IInv, TextInv
<1>12. CountInv'
  BY <1>2, <1>3, <1>7, <1>8 DEF CountInv
<1>13. SlotInv'
  <2> DEFINE X == Chunks(SlotType)
  <2> HIDE DEF X
  <2>1. parens \in Seq(X)
    BY <1>3 DEF X
  <2>2. parens' \in Seq(X)
    BY <1>2, <1>4, <2>1, Zenon
  <2>3. parens' \in Seq(Chunks(SlotType))
    BY <2>2 DEF X
  <2> QED
    BY <1>2, <1>9, <2>3, Zenon DEF SlotInv
<1>14. OwnInv'
  <2>1. ~ Clean(text, opt, sen)
    BY <1>1, <1>2, <1>3, Zenon DEF IInv, OwnInv
  <2>2. pc' \notin {"read", "skip", "prepare"}
    BY <1>2
  <2> QED
    BY <1>2, <1>8, <1>10, <2>1, <2>2, Zenon DEF OwnInv
<1> QED
  BY <1>11, <1>12, <1>13, <1>14 DEF IInv

LEMMA FinishKeeps == IInv /\ Finish => IInv'
<1>1. SUFFICES ASSUME IInv, Finish
               PROVE  IInv'
  OBVIOUS
<1>2. /\ pc \in {"read", "skip"} /\ pc' = "end"
      /\ UNCHANGED <<text, opt, pos, slot, Mrph_num, homo_num, sen, parens>>
  BY <1>1 DEF Finish, reading
<1>3. TextInv'
  BY <1>1, <1>2 DEF IInv, TextInv
<1>4. CountInv'
  BY <1>1, <1>2 DEF IInv, CountInv
<1>5. SlotInv'
  BY <1>1, <1>2 DEF IInv, SlotInv
<1>6. OwnInv'
  <2>1. pc' \notin {"read", "skip", "prepare", "analyse", "next", "ready"}
    BY <1>2
  <2> QED
    BY <1>1, <1>2, <2>1, Zenon DEF IInv, OwnInv
<1> QED
  BY <1>3, <1>4, <1>5, <1>6 DEF IInv
-----------------------------------------------------------------------------
LEMMA InitHolds == Init => IInv
<1>1. SUFFICES ASSUME Init
               PROVE  IInv
  OBVIOUS
<1>2. /\ text \in Texts /\ pos = 1 /\ pc = "ready" /\ slot = [i \in Slots |-> NoSlot]
      /\ Mrph_num = 0 /\ homo_num = 0 /\ sen = 0 /\ parens = <<>>
  BY <1>1 DEF Init
<1>3. TextInv
  BY <1>2, TextFacts, NumberFirst DEF TextInv
<1>4. CountInv
  BY <1>2, SlotBounds DEF CountInv
<1>5. NoSlot \in SlotType /\ NoSlot.f = {}
  BY DEF NoSlot, SlotType, Words
<1>6. slot \in [Slots -> SlotType] /\ EmptyFrom(slot, 0) /\ \A S : Holds(slot, 0, S)
  BY <1>2, <1>5, NoneHeld, Zenon DEF EmptyFrom
<1>7. \A S : <<>> \in Seq(S)
  OBVIOUS
<1>8. SlotInv
  BY <1>2, <1>6, <1>7, Zenon DEF SlotInv
<1>9. OwnInv
  BY <1>2, <1>6, <1>7, Zenon DEF OwnInv
<1> QED
  BY <1>3, <1>4, <1>8, <1>9 DEF IInv

LEMMA StepKeeps == IInv /\ [Next]_vars => IInv'
<1>1. CASE UNCHANGED vars
  <2>1. UNCHANGED <<text, opt, pos, pc, slot, Mrph_num, homo_num, sen, parens>>
    BY <1>1 DEF vars, reading
  <2> QED
    BY <2>1, Zenon DEF IInv, TextInv, CountInv, SlotInv, OwnInv
<1> QED
  BY <1>1, StartKeeps, LinesKeep, MorphemeKeeps, SkipKeeps, EndOfSentenceKeeps, PreprocessKeeps,
     AnalyseKeeps, NextParenKeeps, FinishKeeps, Zenon DEF Next

LEMMA Invariant == Spec => []IInv
BY InitHolds, StepKeeps, PTL DEF Spec

\* For every text, every option and every limit of the arrays: as long as no
\* parenthesis may have been cut out of an earlier sentence, the morphemes given
\* to the analysis have the features of their own lines and no others
\* (read_mrph, lexical_disambiguation, preprocess_mrph, process_input_paren and
\* prepare_paren_sentence).
THEOREM OwnFeaturesAlways == Spec => []OwnFeatures
<1>1. IInv => OwnFeatures
  <2>1. SUFFICES ASSUME IInv, pc \in {"prepare", "analyse"}, \A n \in 1 .. sen - 1 : ~ HasParen(n),
                        NEW i \in Used
                 PROVE  slot[i].f = {slot[i].id}
    BY Zenon DEF OwnFeatures
  <2>2. \A n : HasParen(n) <=> Parenthesis(text, opt, n)
    BY Zenon DEF HasParen, Parenthesis, LinesOf, WordLines, Number, NumberIn
  <2>3. Clean(text, opt, sen - 1)
    BY <2>1, <2>2, Zenon DEF Clean
  <2>4. i \in Slots /\ i < Mrph_num
    BY <2>1, SlotBounds DEF IInv, CountInv, Used
  <2>5. slot[i] \in OwnSlots(text, sen)
    BY <2>1, <2>3, <2>4, Zenon DEF IInv, OwnInv, Holds
  <2> QED
    BY <2>5, Zenon DEF OwnSlots
<1> QED
  BY <1>1, Invariant, PTL
-----------------------------------------------------------------------------
(* The lines in the slots                                                  *)

\* What a slot can hold before line p is read, and the morphemes of sentence n in
\* it, whatever features they have.
Known(p) == {x \in SlotType : x.id < p /\ \A q \in x.f : q >= 1 /\ q < p}
LineSlots(t, n, p) == {x \in Known(p) : x.id \in WordLines(t, n) /\ x.w = t[x.id].w}

\* No feature is in both g and h.
Disjoint(g, h) == \A i \in DOMAIN g, j \in DOMAIN h : g[i].f \cap h[j].f = {}

\* A parenthesis: its morphemes are different and so are their features; it is
\* shorter than a sentence.
Single(q) ==
  /\ \A i, j \in DOMAIN q : i # j => q[i].id # q[j].id /\ q[i].f \cap q[j].f = {}
  /\ Cardinality(DOMAIN q) <= MRPH_MAX - 3

\* The slots s, m of them in use, before line p, and the parentheses ps that wait.
LinesKnown(t, n, p, s, m) ==
  /\ s \in [Slots -> SlotType] /\ \A i \in Slots : s[i] \in Known(p)
  /\ Holds(s, m, LineSlots(t, n, p))
  /\ Apart(s, m)
PartsKnown(t, n, p, s, ps) ==
  /\ \A k \in 1 .. Len(ps) :
       /\ Single(ps[k]) /\ Disjoint(s, ps[k])
       /\ \A j \in DOMAIN ps[k] : ps[k][j] \in LineSlots(t, n, p)
  /\ \A j, k \in 1 .. Len(ps) : j # k => Disjoint(ps[j], ps[k])

LineInv == LinesKnown(text, sen, pos, slot, Mrph_num)
PartInv == PartsKnown(text, sen, pos, slot, parens)

\* Slots that move stay known, and so do all when more lines are read.
LEMMA MovedKnown ==
  ASSUME NEW t, NEW n, NEW p, NEW s, NEW m, NEW s2, NEW m2 \in Nat,
         LinesKnown(t, n, p, s, m), Moved(s, m, s2, m2)
  PROVE  LinesKnown(t, n, p, s2, m2)
<1>1. s \in [Slots -> SlotType] /\ Holds(s, m, LineSlots(t, n, p)) /\ Apart(s, m)
      /\ \A i \in Slots : s[i] \in Known(p)
  BY Zenon DEF LinesKnown
<1>2. /\ s2 \in [Slots -> SlotType] /\ Holds(s2, m2, LineSlots(t, n, p)) /\ Apart(s2, m2)
      /\ \A i \in Slots : \E a \in Slots : s2[i].id = s[a].id /\ (s2[i].f = {} \/ s2[i].f = s[a].f)
  BY <1>1, MovedStays, Zenon
<1>3. ASSUME NEW i \in Slots
      PROVE  s2[i] \in Known(p)
  <2>1. PICK a \in Slots : s2[i].id = s[a].id /\ (s2[i].f = {} \/ s2[i].f = s[a].f)
    BY <1>2, Zenon
  <2>2. s[a] \in Known(p) /\ s2[i] \in SlotType
    BY <1>1, <1>2, Zenon
  <2>3. s[a].id < p /\ \A q \in s[a].f : q >= 1 /\ q < p
    BY <2>2, Zenon DEF Known
  <2>4. s2[i].id < p /\ \A q \in s2[i].f : q >= 1 /\ q < p
    BY <2>1, <2>3, Zenon
  <2> QED
    BY <2>2, <2>4, Zenon DEF Known
<1> QED
  BY <1>2, <1>3, Zenon DEF LinesKnown

LEMMA LaterKnown ==
  ASSUME NEW t, NEW n, NEW p \in Nat, NEW q \in Nat, p <= q
  PROVE  /\ Known(p) \subseteq Known(q) /\ LineSlots(t, n, p) \subseteq LineSlots(t, n, q)
         /\ \A s, m : LinesKnown(t, n, p, s, m) => LinesKnown(t, n, q, s, m)
         /\ \A s, ps : PartsKnown(t, n, p, s, ps) => PartsKnown(t, n, q, s, ps)
<1>1. ASSUME NEW x \in Known(p)
      PROVE  x \in Known(q)
  <2>1. x \in SlotType /\ x.id < p /\ \A r \in x.f : r >= 1 /\ r < p
    BY Zenon DEF Known
  <2>2. x.id \in Nat /\ \A r \in x.f : r \in Nat
    BY <2>1 DEF SlotType
  <2>3. x.id < q
    BY <2>1, <2>2
  <2>4. \A r \in x.f : r >= 1 /\ r < q
    <3>1. \A r \in Nat : r < p => r < q
      OBVIOUS
    <3> QED
      BY <2>1, <2>2, <3>1, Zenon
  <2> QED
    BY <2>1, <2>3, <2>4, Zenon DEF Known
<1>2. \A x \in LineSlots(t, n, p) : x \in LineSlots(t, n, q)
  BY <1>1, Zenon DEF LineSlots
<1>3. ASSUME NEW s, NEW m, LinesKnown(t, n, p, s, m)
      PROVE  LinesKnown(t, n, q, s, m)
  BY <1>1, <1>2, <1>3, Zenon DEF LinesKnown, Holds
<1>4. ASSUME NEW s, NEW ps, PartsKnown(t, n, p, s, ps)
      PROVE  PartsKnown(t, n, q, s, ps)
  BY <1>2, <1>4, Zenon DEF PartsKnown
<1> QED
  BY <1>1, <1>2, <1>3, <1>4, Zenon

\* With no slot in use, any sentence may come.
LEMMA NoneKnown ==
  ASSUME NEW t, NEW n, NEW n2, NEW p, NEW s, LinesKnown(t, n, p, s, 0)
  PROVE  LinesKnown(t, n2, p, s, 0)
BY NoneHeld, Zenon DEF LinesKnown

\* Line q, just read, is in no slot yet.
LEMMA AddedKnown ==
  ASSUME NEW t \in Texts, NEW q \in 1 .. Len(t), t[q].k \in {"m", "@"},
         NEW s, NEW num \in Slots, LinesKnown(t, NumberIn(t, q), q, s, num)
  PROVE  LinesKnown(t, NumberIn(t, q), q + 1,
                    [s EXCEPT ![num] = [id |-> q, w |-> t[q].w, f |-> s[num].f \cup {q}]], num + 1)
<1> DEFINE r == [id |-> q, w |-> t[q].w, f |-> s[num].f \cup {q}]
           new == [s EXCEPT ![num] = r]
           n == NumberIn(t, q)
<1>1. q \in Nat /\ q + 1 \in Nat /\ q <= q + 1 /\ q < q + 1 /\ q >= 1 /\ t[q].w \in Words /\ q \in DOMAIN t
  BY TextFacts
<1> HIDE DEF n
<1>2. LinesKnown(t, n, q + 1, s, num) /\ LinesKnown(t, n, q, s, num)
  <2>1. LinesKnown(t, n, q, s, num)
    BY DEF n
  <2> QED
    BY <1>1, <2>1, LaterKnown, Zenon
<1>3. s \in [Slots -> SlotType] /\ s[num] \in Known(q) /\ s[num] \in Known(q + 1)
  BY <1>2, Zenon DEF LinesKnown
<1>4. r \in SlotType /\ r.id = q /\ r.w = t[q].w /\ r.f = s[num].f \cup {q}
  <2>1. s[num].f \in SUBSET Nat
    BY <1>3 DEF SlotType
  <2> QED
    BY <1>1, <2>1 DEF SlotType
<1>5. r \in Known(q + 1)
  <2>1. \A x \in s[num].f : x >= 1 /\ x < q + 1
    BY <1>3, Zenon DEF Known
  <2>2. \A x \in r.f : x >= 1 /\ x < q + 1
    BY <1>1, <1>4, <2>1
  <2> QED
    BY <1>1, <1>4, <2>2, Zenon DEF Known
<1>6. r \in LineSlots(t, n, q + 1)
  <2>1. q \in WordLines(t, n)
    BY <1>1, Zenon DEF WordLines, n
  <2> QED
    BY <1>4, <1>5, <2>1, Zenon DEF LineSlots
<1>7. /\ new \in [Slots -> SlotType]
      /\ \A i \in Slots : (i = num => new[i] = r) /\ (i # num => new[i] = s[i])
  BY <1>3, <1>4
<1> HIDE DEF new
<1>8. /\ \A i \in Slots : i < num + 1 => i = num \/ (i # num /\ i < num)
      /\ num \in Nat
  BY SlotBounds
<1>9. \A i \in Slots : new[i] \in Known(q + 1)
  <2>1. \A i \in Slots : s[i] \in Known(q + 1)
    BY <1>2, Zenon DEF LinesKnown
  <2> QED
    BY <1>5, <1>7, <2>1, Zenon
<1>10. Holds(new, num + 1, LineSlots(t, n, q + 1))
  <2>1. \A i \in Slots : i < num => s[i] \in LineSlots(t, n, q + 1)
    BY <1>2, Zenon DEF LinesKnown, Holds
  <2> HIDE DEF r
  <2> QED
    BY <1>6, <1>7, <1>8, <2>1, Zenon DEF Holds
<1>11. Apart(new, num + 1)
  <2>1. \A i \in Slots : s[i].id # q /\ q \notin s[i].f
    <3>1. \A i \in Slots : s[i] \in Known(q)
      BY <1>2, Zenon DEF LinesKnown
    <3>2. ~ (q < q)
      BY <1>1
    <3> QED
      BY <3>1, <3>2, Zenon DEF Known
  <2>2. ASSUME NEW i \in Slots, i # num
        PROVE  /\ new[i].f \cap new[num].f = {} /\ new[num].f \cap new[i].f = {}
               /\ new[i].id # new[num].id
    <3>1. new[i] = s[i] /\ new[num] = r
      BY <1>7, <2>2, Zenon
    <3>2. s[i].f \cap s[num].f = {}
      BY <1>2, <2>2, Zenon DEF LinesKnown, Apart
    <3>3. q \notin s[i].f /\ s[i].id # q
      BY <2>1, Zenon
    <3> HIDE DEF r
    <3> QED
      BY <1>4, <3>1, <3>2, <3>3
  <2>3. \A i, j \in Slots : i # j /\ i # num /\ j # num =>
          new[i].f \cap new[j].f = {} /\ (i < num /\ j < num => new[i].id # new[j].id)
    BY <1>2, <1>7, Zenon DEF LinesKnown, Apart
  <2> QED
    BY <1>8, <2>2, <2>3, Zenon DEF Apart
<1> QED
  BY <1>7, <1>9, <1>10, <1>11, Zenon DEF LinesKnown, new, r, n

\* What moves stays out of the parentheses.
LEMMA MovedParts ==
  ASSUME NEW t, NEW n, NEW p, NEW s \in [Slots -> SlotType], NEW m, NEW s2, NEW m2 \in Nat, NEW ps,
         PartsKnown(t, n, p, s, ps), Moved(s, m, s2, m2)
  PROVE  PartsKnown(t, n, p, s2, ps)
<1>1. /\ s2 \in [Slots -> SlotType]
      /\ \A i \in Slots : \E a \in Slots : s2[i].id = s[a].id /\ (s2[i].f = {} \/ s2[i].f = s[a].f)
  BY MovedStays
<1>2. DOMAIN s = Slots /\ DOMAIN s2 = Slots
  BY <1>1, Zenon
<1>3. ASSUME NEW k \in 1 .. Len(ps)
      PROVE  Disjoint(s2, ps[k])
  <2>1. ASSUME NEW i \in Slots, NEW j \in DOMAIN ps[k]
        PROVE  s2[i].f \cap ps[k][j].f = {}
    <3>1. PICK a \in Slots : s2[i].f = {} \/ s2[i].f = s[a].f
      BY <1>1, Zenon
    <3>2. s[a].f \cap ps[k][j].f = {}
      BY <1>2, Zenon DEF PartsKnown, Disjoint
    <3>3. {} \cap ps[k][j].f = {}
      OBVIOUS
    <3> QED
      BY <3>1, <3>2, <3>3, Zenon
  <2> QED
    BY <1>2, <2>1, Zenon DEF Disjoint
<1> QED
  BY <1>3, Zenon DEF PartsKnown

\* process_input_paren takes the morphemes of the parentheses out of the slots.
LEMMA PartsCut ==
  ASSUME NEW t, NEW n, NEW p, NEW s, NEW num \in 0 .. MRPH_MAX, LinesKnown(t, n, p, s, num),
         NEW x, Cuttable(s, num, x)
  PROVE  PartsKnown(t, n, p, WithoutParens(s, num, x), ParenSentences(s, x))
<1> DEFINE c == Cardinality(x)
           ps == ParenSentences(s, x)
           w == WithoutParens(s, num, x)
<1>1. /\ num \in Nat /\ num <= MRPH_MAX
      /\ \A i \in 0 .. (num - 1) : i \in Slots /\ i < num
  BY SlotBounds
<1>2. /\ s \in [Slots -> SlotType] /\ Apart(s, num)
      /\ \A i \in Slots : i < num => s[i] \in LineSlots(t, n, p)
  BY Zenon DEF LinesKnown, Holds
<1>3. x \in SUBSET Pairs(s, num)
  BY Zenon DEF Cuttable
<1>4. c \in Nat /\ PartsOf(s, num, x, ps)
  BY <1>1, ParenSentencesFrom, Zenon
<1>5. \A i \in Slots : w[i].f = {} \/ \E a \in Slots \ Inside(x) : w[i].f = s[a].f
  BY <1>2, <1>3, WithoutParensStays, Zenon
<1>6. DOMAIN w = Slots
  BY Zenon DEF WithoutParens
<1> HIDE DEF c, ps, w
<1>7. PICK I \in [1 .. c -> SUBSET (0 .. (num - 1))] :
        /\ ps = [k \in 1 .. c |-> Front(s, I[k])]
        /\ \A k \in 1 .. c : I[k] \subseteq Inside(x) /\ Cardinality(I[k]) <= num - 3
        /\ \A j, k \in 1 .. c : j # k => I[j] \cap I[k] = {}
  BY <1>4, Zenon DEF PartsOf, c
<1>8. Len(ps) = c
  <2>1. ps \in [1 .. c -> {Front(s, I[k]) : k \in 1 .. c}]
    BY <1>7, Zenon
  <2> DEFINE F == {Front(s, I[k]) : k \in 1 .. c}
  <2> HIDE DEF F
  <2>2. \A g \in [1 .. c -> F] : Len(g) = c
    BY <1>4
  <2> QED
    BY <2>1, <2>2, Zenon DEF F
<1>9. ASSUME NEW k \in 1 .. c
      PROVE  /\ DOMAIN ps[k] = 0 .. (Cardinality(I[k]) - 1) /\ Cardinality(DOMAIN ps[k]) <= MRPH_MAX - 3
             /\ \E at \in [DOMAIN ps[k] -> I[k]] :
                  /\ \A j \in DOMAIN ps[k] : ps[k][j] = s[at[j]]
                  /\ \A i, j \in DOMAIN ps[k] : at[i] = at[j] => i = j
  <2> DEFINE J == I[k]
             m == Cardinality(J)
  <2>1. J \in SUBSET (0 .. (num - 1)) /\ ps[k] = Front(s, J) /\ m <= num - 3
    BY <1>7, Zenon
  <2> HIDE DEF J
  <2>2. m \in 0 .. num /\ DOMAIN Front(s, J) = 0 .. (m - 1) /\ FrontFrom(s, J)
    BY <1>1, <2>1, FrontOf, Zenon
  <2>3. \E at \in [0 .. (m - 1) -> J] :
          /\ \A j \in 0 .. (m - 1) : Front(s, J)[j] = s[at[j]]
          /\ \A j, i \in 0 .. (m - 1) : at[j] = at[i] => j = i
    BY <2>2, Zenon DEF FrontFrom
  <2> HIDE DEF m
  <2>4. Cardinality(0 .. (m - 1)) = m
    <3>1. m \in Nat
      BY <1>1, <2>2
    <3> QED
      BY <3>1, FS_Interval
  <2>5. m <= MRPH_MAX - 3
    BY <1>1, <2>1, <2>2, SlotBounds
  <2>6. DOMAIN ps[k] = 0 .. (m - 1) /\ Cardinality(DOMAIN ps[k]) <= MRPH_MAX - 3
    BY <2>1, <2>2, <2>4, <2>5, Zenon
  <2>7. \E at \in [DOMAIN ps[k] -> J] :
          /\ \A j \in DOMAIN ps[k] : ps[k][j] = s[at[j]]
          /\ \A i, j \in DOMAIN ps[k] : at[i] = at[j] => i = j
    <3>1. PICK at \in [0 .. (m - 1) -> J] :
            /\ \A j \in 0 .. (m - 1) : Front(s, J)[j] = s[at[j]]
            /\ \A j, i \in 0 .. (m - 1) : at[j] = at[i] => j = i
      BY <2>3, Zenon
    <3>2. at \in [DOMAIN ps[k] -> J]
      BY <2>6, Zenon
    <3>3. \A j \in DOMAIN ps[k] : ps[k][j] = s[at[j]]
      BY <2>1, <2>6, <3>1, Zenon
    <3>4. \A i, j \in DOMAIN ps[k] : at[i] = at[j] => i = j
      BY <2>6, <3>1, Zenon
    <3> QED
      BY <3>2, <3>3, <3>4, Zenon
  <2> QED
    BY <2>6, <2>7, Zenon DEF m, J
<1>10. ASSUME NEW k \in 1 .. c, NEW j \in DOMAIN ps[k]
       PROVE  \E a \in I[k] : a \in Slots /\ a < num /\ ps[k][j] = s[a]
  <2> DEFINE D == DOMAIN ps[k]
             J == I[k]
  <2>3. PICK at \in [D -> J] : \A i \in D : ps[k][i] = s[at[i]]
    BY <1>9, Zenon
  <2>4. at[j] \in J /\ ps[k][j] = s[at[j]]
    BY <2>3, Zenon
  <2>1. PICK a \in I[k] : ps[k][j] = s[a]
    BY <2>4, Zenon
  <2>2. a \in 0 .. (num - 1)
    BY <1>7
  <2> QED
    BY <1>1, <2>1, <2>2, Zenon
<1>11. ASSUME NEW k \in 1 .. c
       PROVE  Single(ps[k])
  <2>1. PICK at \in [DOMAIN ps[k] -> I[k]] :
          /\ \A j \in DOMAIN ps[k] : ps[k][j] = s[at[j]]
          /\ \A i, j \in DOMAIN ps[k] : at[i] = at[j] => i = j
    BY <1>9, Zenon
  <2>2. \A a \in I[k] : a \in Slots /\ a < num
    BY <1>1, <1>7
  <2>3. ASSUME NEW i \in DOMAIN ps[k], NEW j \in DOMAIN ps[k], i # j
        PROVE  ps[k][i].id # ps[k][j].id /\ ps[k][i].f \cap ps[k][j].f = {}
    <3> DEFINE a == at[i]
               b == at[j]
    <3>1. a \in Slots /\ a < num /\ b \in Slots /\ b < num /\ a # b /\ ps[k][i] = s[a] /\ ps[k][j] = s[b]
      BY <2>1, <2>2, <2>3, Zenon
    <3> HIDE DEF a, b
    <3>2. s[a].f \cap s[b].f = {} /\ s[a].id # s[b].id
      BY <1>2, <3>1, Zenon DEF Apart
    <3> QED
      BY <3>1, <3>2, Zenon
  <2> QED
    BY <1>9, <2>3, Zenon DEF Single
<1>12. ASSUME NEW k \in 1 .. c
       PROVE  Disjoint(w, ps[k])
  <2>1. ASSUME NEW i \in Slots, NEW j \in DOMAIN ps[k]
        PROVE  w[i].f \cap ps[k][j].f = {}
    <3>1. PICK a \in I[k] : a \in Slots /\ ps[k][j] = s[a]
      BY <1>10, Zenon
    <3>2. a \in Inside(x)
      BY <1>7, Zenon
    <3>3. CASE w[i].f = {}
      BY <3>3
    <3>4. ASSUME NEW b \in Slots \ Inside(x), w[i].f = s[b].f
          PROVE  w[i].f \cap ps[k][j].f = {}
      <4>1. a # b
        BY <3>2, <3>4, Zenon
      <4>2. s[b].f \cap s[a].f = {}
        BY <1>2, <3>1, <4>1, Zenon DEF Apart
      <4> QED
        BY <3>1, <3>4, <4>2, Zenon
    <3> QED
      BY <1>5, <3>3, <3>4, Zenon
  <2> QED
    BY <1>6, <2>1, Zenon DEF Disjoint
<1>13. ASSUME NEW k \in 1 .. c, NEW l \in 1 .. c, k # l
       PROVE  Disjoint(ps[k], ps[l])
  <2>1. ASSUME NEW i \in DOMAIN ps[k], NEW j \in DOMAIN ps[l]
        PROVE  ps[k][i].f \cap ps[l][j].f = {}
    <3>1. PICK a \in I[k] : a \in Slots /\ ps[k][i] = s[a]
      BY <1>10, Zenon
    <3>2. PICK b \in I[l] : b \in Slots /\ ps[l][j] = s[b]
      BY <1>10, Zenon
    <3>3. a # b
      <4>1. I[k] \cap I[l] = {}
        BY <1>7, <1>13, Zenon
      <4> QED
        BY <3>1, <3>2, <4>1
    <3>4. s[a].f \cap s[b].f = {}
      BY <1>2, <3>1, <3>2, <3>3, Zenon DEF Apart
    <3> QED
      BY <3>1, <3>2, <3>4, Zenon
  <2> QED
    BY <2>1, Zenon DEF Disjoint
<1>14. \A k \in 1 .. c : \A j \in DOMAIN ps[k] : ps[k][j] \in LineSlots(t, n, p)
  BY <1>2, <1>10, Zenon
<1> QED
  BY <1>8, <1>11, <1>12, <1>13, <1>14, Zenon DEF PartsKnown, ps, w

\* prepare_paren_sentence puts the first of the parentheses into the empty slots.
LEMMA NextKnown ==
  ASSUME NEW t, NEW n, NEW p, NEW e, LinesKnown(t, n, p, e, 0), NEW ps \in Seq(Chunks(SlotType)), ps # <<>>,
         PartsKnown(t, n, p, e, ps), NEW m \in Nat, DOMAIN Head(ps) = 0 .. (m - 1)
  PROVE  LET s == [i \in Slots |-> IF i \in DOMAIN Head(ps) THEN Head(ps)[i] ELSE e[i]]
         IN  LinesKnown(t, n, p, s, m) /\ PartsKnown(t, n, p, s, Tail(ps))
<1> DEFINE q == Head(ps)
           s == [i \in Slots |-> IF i \in DOMAIN q THEN q[i] ELSE e[i]]
<1>1. /\ q = ps[1] /\ 1 \in 1 .. Len(ps) /\ Len(Tail(ps)) = Len(ps) - 1 /\ Len(ps) \in Nat
      /\ \A k \in 1 .. Len(Tail(ps)) : Tail(ps)[k] = ps[k + 1] /\ k + 1 \in 1 .. Len(ps) /\ k + 1 # 1
      /\ \A j, k \in 1 .. Len(Tail(ps)) : j # k => j + 1 # k + 1
  <2> DEFINE X == Chunks(SlotType)
  <2>1. ps \in Seq(X)
    OBVIOUS
  <2> HIDE DEF X
  <2>2. ps # <<>> => Len(ps) >= 1
    BY <2>1
  <2>3. Len(ps) >= 1
    BY <2>2, Zenon
  <2> QED
    BY <2>1, <2>3
<1>2. /\ Single(q) /\ Disjoint(e, q) /\ \A j \in DOMAIN q : q[j] \in LineSlots(t, n, p)
      /\ \A k \in 1 .. Len(Tail(ps)) : Disjoint(q, Tail(ps)[k])
  <2>1. /\ Single(ps[1]) /\ Disjoint(e, ps[1]) /\ \A j \in DOMAIN ps[1] : ps[1][j] \in LineSlots(t, n, p)
        /\ \A k \in 1 .. Len(Tail(ps)) : Disjoint(ps[1], ps[k + 1])
    BY <1>1, Zenon DEF PartsKnown
  <2> QED
    BY <1>1, <2>1, Zenon
<1> HIDE DEF q
<1>3. /\ e \in [Slots -> SlotType] /\ DOMAIN e = Slots /\ Apart(e, 0)
      /\ \A i \in Slots : e[i] \in Known(p)
  BY Zenon DEF LinesKnown
<1>4. \A x \in LineSlots(t, n, p) : x \in SlotType /\ x \in Known(p)
  BY Zenon DEF LineSlots, Known
<1>5. /\ s = [i \in Slots |-> s[i]]
      /\ \A i \in Slots : (i \in DOMAIN q => s[i] = q[i]) /\ (i \notin DOMAIN q => s[i] = e[i])
      /\ DOMAIN s = Slots
  BY Zenon
<1> HIDE DEF s
<1>6. \A i \in Slots : i < m <=> i \in DOMAIN q
  <2>1. \A i \in Slots : i < m <=> i \in 0 .. (m - 1)
    BY SlotBounds
  <2> QED
    BY <2>1, Zenon DEF q
<1>7. s \in [Slots -> SlotType] /\ \A i \in Slots : s[i] \in Known(p)
  <2>1. \A i \in Slots : s[i] \in SlotType /\ s[i] \in Known(p)
    BY <1>2, <1>3, <1>4, <1>5, Zenon
  <2> QED
    BY <1>5, <2>1, Zenon
<1>8. Holds(s, m, LineSlots(t, n, p))
  BY <1>2, <1>5, <1>6, Zenon DEF Holds
<1>9. Apart(s, m)
  <2>1. ASSUME NEW i \in Slots, NEW j \in Slots, i # j
        PROVE  s[i].f \cap s[j].f = {} /\ (i < m /\ j < m => s[i].id # s[j].id)
    <3>1. CASE i \in DOMAIN q /\ j \in DOMAIN q
      BY <1>2, <1>5, <2>1, <3>1, Zenon DEF Single
    <3>2. CASE i \in DOMAIN q /\ j \notin DOMAIN q
      <4>1. e[j].f \cap q[i].f = {}
        BY <1>2, <1>3, <3>2, Zenon DEF Disjoint
      <4>2. q[i].f \cap e[j].f = {}
        BY <4>1
      <4> QED
        BY <1>5, <1>6, <3>2, <4>2, Zenon
    <3>3. CASE i \notin DOMAIN q /\ j \in DOMAIN q
      <4>1. e[i].f \cap q[j].f = {}
        BY <1>2, <1>3, <3>3, Zenon DEF Disjoint
      <4> QED
        BY <1>5, <1>6, <3>3, <4>1, Zenon
    <3>4. CASE i \notin DOMAIN q /\ j \notin DOMAIN q
      <4>1. e[i].f \cap e[j].f = {}
        BY <1>3, <2>1, Zenon DEF Apart
      <4> QED
        BY <1>5, <1>6, <3>4, <4>1, Zenon
    <3> QED
      BY <3>1, <3>2, <3>3, <3>4, Zenon
  <2> QED
    BY <2>1, Zenon DEF Apart
<1>10. PartsKnown(t, n, p, s, Tail(ps))
  <2> DEFINE ts == Tail(ps)
  <2>1. /\ \A k \in 1 .. Len(ts) : /\ Single(ts[k]) /\ Disjoint(e, ts[k])
                                   /\ \A j \in DOMAIN ts[k] : ts[k][j] \in LineSlots(t, n, p)
        /\ \A j, k \in 1 .. Len(ts) : j # k => Disjoint(ts[j], ts[k])
    <3>1. ASSUME NEW k \in 1 .. Len(ts)
          PROVE  /\ Single(ts[k]) /\ Disjoint(e, ts[k])
                 /\ \A j \in DOMAIN ts[k] : ts[k][j] \in LineSlots(t, n, p)
      BY <1>1, Zenon DEF PartsKnown
    <3>2. ASSUME NEW j \in 1 .. Len(ts), NEW k \in 1 .. Len(ts), j # k
          PROVE  Disjoint(ts[j], ts[k])
      BY <1>1, <3>2, Zenon DEF PartsKnown
    <3> QED
      BY <3>1, <3>2, Zenon
  <2> HIDE DEF ts
  <2>2. ASSUME NEW k \in 1 .. Len(ts)
        PROVE  Disjoint(s, ts[k])
    <3>1. Disjoint(q, ts[k]) /\ Disjoint(e, ts[k])
      BY <1>2, <2>1, Zenon DEF ts
    <3> QED
      BY <1>3, <1>5, <3>1, Zenon DEF Disjoint
  <2> QED
    BY <2>1, <2>2, Zenon DEF PartsKnown, ts
<1> QED
  BY <1>7, <1>8, <1>9, <1>10, Zenon DEF LinesKnown, s, q

\* Nothing moves, or what moves stays in the sentence.
LEMMA SameKnown ==
  ASSUME IInv, LineInv, PartInv, pos' \in {pos, pos + 1},
         UNCHANGED <<text, sen, slot, Mrph_num, parens>>
  PROVE  LineInv' /\ PartInv'
<1>1. pos \in Nat /\ pos' \in Nat /\ pos <= pos'
  BY TextFacts DEF IInv, TextInv
<1>2. LinesKnown(text, sen, pos', slot, Mrph_num) /\ PartsKnown(text, sen, pos', slot, parens)
  BY <1>1, LaterKnown, Zenon DEF LineInv, PartInv
<1>3. text' = text /\ sen' = sen /\ slot' = slot /\ Mrph_num' = Mrph_num /\ parens' = parens
  OBVIOUS
<1> QED
  BY <1>2, <1>3, Zenon DEF LineInv, PartInv

LEMMA MoveKnown ==
  ASSUME IInv, LineInv, pos' \in {pos, pos + 1}, Mrph_num' \in Nat,
         text' = text, sen' = sen \/ Mrph_num' = 0, parens' = <<>>,
         Moved(slot, Mrph_num, slot', Mrph_num')
  PROVE  LineInv' /\ PartInv'
<1>1. pos \in Nat /\ pos' \in Nat /\ pos <= pos'
  BY TextFacts DEF IInv, TextInv
<1>2. LinesKnown(text, sen, pos, slot', Mrph_num')
  BY MovedKnown, Zenon DEF LineInv
<1>3. LinesKnown(text, sen, pos', slot', Mrph_num')
  BY <1>1, <1>2, LaterKnown, Zenon
<1>4. LinesKnown(text, sen', pos', slot', Mrph_num')
  <2>1. CASE sen' = sen
    BY <1>3, <2>1, Zenon
  <2>2. CASE Mrph_num' = 0
    <3>1. LinesKnown(text, sen, pos', slot', 0)
      BY <1>3, <2>2, Zenon
    <3>2. LinesKnown(text, sen', pos', slot', 0)
      BY <3>1, NoneKnown, Zenon
    <3> QED
      BY <2>2, <3>2, Zenon
  <2> QED
    BY <2>1, <2>2, Zenon
<1>5. Len(parens') = 0
  OBVIOUS
<1>6. \A k : k \notin 1 .. 0
  OBVIOUS
<1> QED
  BY <1>4, <1>5, <1>6, Zenon DEF LineInv, PartInv, PartsKnown

LEMMA EmptyKnown ==
  ASSUME IInv, LineInv, pos' \in {pos, pos + 1}, Mrph_num' = 0, text' = text, parens' = <<>>,
         slot' = Emptied(slot, Used)
  PROVE  LineInv' /\ PartInv'
<1>1. slot \in [Slots -> SlotType] /\ Mrph_num \in 0 .. MRPH_MAX /\ slot' = Emptied(slot, 0 .. (Mrph_num - 1))
  BY Zenon DEF IInv, SlotInv, CountInv, Used
<1>2. Moved(slot, Mrph_num, slot', 0)
  <2>1. Moved(slot, Mrph_num, Emptied(slot, 0 .. (Mrph_num - 1)), 0)
    <3>1. slot \in [Slots -> SlotType] /\ Mrph_num \in 0 .. MRPH_MAX
      BY <1>1
    <3> QED
      BY <3>1, EmptiedStays, Zenon
  <2> QED
    BY <1>1, <2>1, Zenon
<1>3. Mrph_num' \in Nat /\ Moved(slot, Mrph_num, slot', Mrph_num')
  BY <1>2
<1> QED
  BY <1>3, MoveKnown, Zenon

LEMMA MorphemeKnown ==
  ASSUME IInv, IInv', LineInv, Morpheme
  PROVE  LineInv' /\ PartInv'
<1> DEFINE ends == text[pos].k = "m" /\ homo_num > 0
           s(pref) == IF ends THEN Reduced(pref) ELSE slot
           num == IF ends THEN Mrph_num - homo_num ELSE Mrph_num
<1>1. /\ pc = "read" /\ pos <= Len(text) /\ text[pos].k \in {"m", "@"} /\ pos' = pos + 1
      /\ text' = text /\ opt' = opt /\ sen' = sen /\ parens' = parens
  BY DEF Morpheme, Reads, Line
<1>2. PICK pref \in 0 .. homo_num :
        /\ Full(num) => slot' = s(pref) /\ Mrph_num' = num
        /\ ~ Full(num) =>
             /\ slot' = [s(pref) EXCEPT ![num] = [id |-> pos, w |-> text[pos].w, f |-> s(pref)[num].f \cup {pos}]]
             /\ Mrph_num' = num + 1
  BY Zenon DEF Morpheme, Line
<1>3. /\ text \in Texts /\ pos \in 1 .. Len(text) /\ pos \in Nat /\ pos + 1 \in Nat /\ pos <= pos + 1
      /\ NumberIn(text, pos) = sen /\ parens = <<>> /\ Mrph_num \in 0 .. MRPH_MAX
  BY <1>1, TextFacts DEF IInv, TextInv, SlotInv, CountInv
<1>4. LinesKnown(text, sen, pos, s(pref), num) /\ num \in 0 .. MRPH_MAX
  <2>1. CASE ends
    <3>1. num \in 0 .. MRPH_MAX /\ Moved(slot, Mrph_num, Reduced(pref), num)
      BY <1>1, <2>1, ReadingsReduced, Zenon
    <3>2. num \in Nat
      BY <3>1, SlotBounds
    <3> HIDE DEF num
    <3>3. LinesKnown(text, sen, pos, Reduced(pref), num)
      BY <3>1, <3>2, MovedKnown, Zenon DEF LineInv
    <3> QED
      BY <2>1, <3>1, <3>3, Zenon
  <2>2. CASE ~ ends
    BY <1>3, <2>2, Zenon DEF LineInv
  <2> QED
    BY <2>1, <2>2, Zenon
<1> HIDE DEF s, num
<1>5. LinesKnown(text, sen, pos + 1, slot', Mrph_num')
  <2>1. CASE Full(num)
    <3>1. LinesKnown(text, sen, pos + 1, s(pref), num)
      BY <1>3, <1>4, LaterKnown, Zenon
    <3> QED
      BY <1>2, <2>1, <3>1, Zenon
  <2>2. CASE ~ Full(num)
    <3>1. num \in Slots
      BY <1>4, <2>2, SlotBounds DEF Full
    <3> DEFINE q == s(pref)
               new == [q EXCEPT ![num] = [id |-> pos, w |-> text[pos].w, f |-> q[num].f \cup {pos}]]
    <3>2. slot' = new /\ Mrph_num' = num + 1
      BY <1>2, <2>2, Zenon
    <3>3. LinesKnown(text, NumberIn(text, pos), pos, q, num)
      BY <1>3, <1>4, Zenon
    <3> HIDE DEF q
    <3>4. LinesKnown(text, NumberIn(text, pos), pos + 1, new, num + 1)
      BY <1>1, <1>3, <3>1, <3>3, AddedKnown, Zenon
    <3> QED
      BY <1>3, <3>2, <3>4, Zenon
  <2> QED
    BY <2>1, <2>2
<1>6. LineInv'
  BY <1>1, <1>5, Zenon DEF LineInv
<1>7. PartInv'
  <2>1. Len(parens') = 0
    BY <1>1, <1>3
  <2>2. \A k : k \notin 1 .. 0
    OBVIOUS
  <2> QED
    BY <2>1, <2>2, Zenon DEF PartInv, PartsKnown
<1> QED
  BY <1>6, <1>7

LEMMA PreprocessKnown ==
  ASSUME IInv, LineInv, Preprocess
  PROVE  LineInv' /\ PartInv'
<1> DEFINE num == Mrph_num - Cardinality(Joined)
           c == Compacted
           p == IF opt.paren THEN CutOut(c, num) ELSE {}
           m == num - Cardinality(Within(p))
<1>1. /\ slot' = WithoutParens(c, num, p) /\ Mrph_num' = m /\ parens' = ParenSentences(c, p)
      /\ text' = text /\ pos' = pos /\ sen' = sen
  BY Zenon DEF Preprocess
<1>2. slot \in [Slots -> SlotType] /\ Mrph_num \in 0 .. MRPH_MAX
  BY DEF IInv, SlotInv, CountInv
<1>3. num \in 0 .. Mrph_num /\ Moved(slot, Mrph_num, c, num)
  BY <1>2, CompactedStays, Zenon
<1> HIDE DEF num, c
<1>4. num \in 0 .. MRPH_MAX /\ num \in Nat
  BY <1>2, <1>3, SlotBounds
<1>5. LinesKnown(text, sen, pos, c, num)
  BY <1>3, <1>4, MovedKnown, Zenon DEF LineInv
<1>6. c \in [Slots -> SlotType]
  BY <1>5, Zenon DEF LinesKnown
<1>7. Cuttable(c, num, p) /\ p \in SUBSET Pairs(c, num)
  BY Zenon DEF CutOut, Cuttable
<1> HIDE DEF p
<1>8. m \in 0 .. num /\ Moved(c, num, WithoutParens(c, num, p), m)
  BY <1>4, <1>6, <1>7, WithoutParensStays, Zenon
<1> HIDE DEF m
<1>9. m \in Nat
  BY <1>4, <1>8
<1>10. LinesKnown(text, sen, pos, WithoutParens(c, num, p), m)
  BY <1>5, <1>8, <1>9, MovedKnown, Zenon
<1>11. PartsKnown(text, sen, pos, WithoutParens(c, num, p), ParenSentences(c, p))
  BY <1>4, <1>5, <1>7, PartsCut, Zenon
<1> QED
  BY <1>1, <1>10, <1>11, Zenon DEF LineInv, PartInv

LEMMA NextParenKnown ==
  ASSUME IInv, LineInv, PartInv, NextParen
  PROVE  LineInv' /\ PartInv'
<1> DEFINE q == Head(parens)
           e == Emptied(slot, 0 .. (Mrph_num - 1))
<1>1. /\ pc = "next"
      /\ slot' = [i \in Slots |-> IF i \in DOMAIN q THEN q[i] ELSE e[i]]
      /\ Mrph_num' = Cardinality(DOMAIN q) /\ parens' = Tail(parens)
      /\ text' = text /\ pos' = pos /\ sen' = sen
  BY Zenon DEF NextParen, Used
<1>2. /\ slot \in [Slots -> SlotType] /\ Mrph_num \in 0 .. MRPH_MAX
      /\ parens \in Seq(Chunks(SlotType)) /\ parens # <<>>
  BY <1>1 DEF IInv, SlotInv, CountInv
<1>3. Moved(slot, Mrph_num, e, 0)
  BY <1>2, EmptiedStays, Zenon
<1> HIDE DEF e
<1>4. 0 \in Nat
  OBVIOUS
<1>5. LinesKnown(text, sen, pos, e, 0) /\ PartsKnown(text, sen, pos, e, parens)
  BY <1>2, <1>3, <1>4, MovedKnown, MovedParts, Zenon DEF LineInv, PartInv
<1>6. q \in Chunks(SlotType)
  <2> DEFINE X == Chunks(SlotType)
  <2>1. parens \in Seq(X) /\ parens # <<>>
    BY <1>2
  <2> HIDE DEF X
  <2>2. q \in X
    BY <2>1
  <2> QED
    BY <2>2 DEF X
<1> HIDE DEF q
<1>7. PICK m \in 0 .. MRPH_MAX : q \in [0 .. (m - 1) -> SlotType]
  BY <1>6, Zenon DEF Chunks
<1>8. DOMAIN q = 0 .. (m - 1) /\ Mrph_num' = m /\ m \in Nat
  <2>1. m \in Nat
    BY <1>7, SlotBounds
  <2>2. DOMAIN q = 0 .. (m - 1)
    BY <1>7, Zenon
  <2>3. Cardinality(0 .. (m - 1)) = m
    BY <2>1, FS_Interval
  <2> QED
    BY <1>1, <2>1, <2>2, <2>3, Zenon
<1>9. LinesKnown(text, sen, pos, slot', m) /\ PartsKnown(text, sen, pos, slot', Tail(parens))
  <2> DEFINE s == [i \in Slots |-> IF i \in DOMAIN Head(parens) THEN Head(parens)[i] ELSE e[i]]
  <2>1. m \in Nat /\ DOMAIN Head(parens) = 0 .. (m - 1) /\ slot' = s
    BY <1>1, <1>8, Zenon DEF q
  <2>2. LinesKnown(text, sen, pos, s, m) /\ PartsKnown(text, sen, pos, s, Tail(parens))
    BY <1>2, <1>5, <2>1, NextKnown, Zenon
  <2> HIDE DEF s
  <2> QED
    BY <2>1, <2>2, Zenon
<1> QED
  BY <1>1, <1>8, <1>9, Zenon DEF LineInv, PartInv

LEMMA StepKnown == IInv /\ IInv' /\ LineInv /\ PartInv /\ [Next]_vars => LineInv' /\ PartInv'
<1>1. SUFFICES ASSUME IInv, IInv', LineInv, PartInv, [Next]_vars
               PROVE  LineInv' /\ PartInv'
  OBVIOUS
<1>2. CASE \/ UNCHANGED vars \/ Comment \/ BnstLine \/ TagLine \/ Invalid \/ Analyse \/ Finish
  <2>1. pos' \in {pos, pos + 1} /\ UNCHANGED <<text, sen, slot, Mrph_num, parens>>
    <3>1. CASE UNCHANGED vars
      BY <3>1 DEF vars, reading
    <3>2. CASE Comment
      BY <3>2 DEF Comment, Reads, reading
    <3>3. CASE BnstLine
      BY <3>3 DEF BnstLine, Reads
    <3>4. CASE TagLine
      BY <3>4 DEF TagLine, Reads
    <3>5. CASE Invalid
      BY <3>5 DEF Invalid, Reads, reading
    <3>6. CASE Analyse
      BY <3>6 DEF Analyse
    <3>7. CASE Finish
      BY <3>7 DEF Finish, reading
    <3> QED
      BY <1>2, <3>1, <3>2, <3>3, <3>4, <3>5, <3>6, <3>7, Zenon
  <2> QED
    BY <1>1, <2>1, SameKnown, Zenon
<1>3. CASE Start
  <2>1. pos' = pos /\ Mrph_num' = 0 /\ text' = text /\ parens' = parens /\ slot' = Emptied(slot, Used) /\ pc = "ready"
    BY <1>3 DEF Start
  <2>2. parens = <<>>
    BY <1>1, <2>1 DEF IInv, SlotInv
  <2> QED
    BY <1>1, <2>1, <2>2, EmptyKnown, Zenon
<1>4. ASSUME pc \in {"read", "skip"}, pos' = pos + 1, text' = text, parens' = parens, Fail
      PROVE  LineInv' /\ PartInv'
  <2>1. Mrph_num' = 0 /\ slot' = Emptied(slot, Used)
    BY <1>4 DEF Fail
  <2>2. parens = <<>>
    BY <1>1, <1>4 DEF IInv, SlotInv
  <2> QED
    BY <1>1, <1>4, <2>1, <2>2, EmptyKnown, Zenon
<1>5. CASE Skip
  <2>1. pc = "skip" /\ pos' = pos + 1 /\ UNCHANGED <<text, sen, parens>>
    BY <1>5 DEF Skip
  <2>2. Fail \/ UNCHANGED <<slot, Mrph_num>>
    BY <1>5 DEF Skip
  <2> QED
    BY <1>1, <1>4, <2>1, <2>2, SameKnown
<1>6. CASE EndOfSentence
  <2>1. pc = "read" /\ pos' = pos + 1 /\ UNCHANGED <<text, sen, parens>>
    BY <1>6 DEF EndOfSentence, Reads
  <2>2. CASE Mrph_num = 0
    <3>1. Fail
      BY <1>6, <2>2 DEF EndOfSentence
    <3> QED
      BY <1>4, <2>1, <3>1
  <2>3. CASE Mrph_num # 0
    <3>1. Mrph_num' = Mrph_num - homo_num
      BY <1>6, <2>3 DEF EndOfSentence
    <3>2. PICK pref \in 0 .. homo_num : slot' = IF homo_num > 0 THEN Reduced(pref) ELSE slot
      BY <1>6, <2>3 DEF EndOfSentence
    <3>3. parens = <<>> /\ Mrph_num \in Nat /\ Mrph_num' \in Nat
      BY <1>1, <2>1, SlotBounds DEF IInv, SlotInv, CountInv
    <3>4. CASE homo_num > 0
      <4>1. Moved(slot, Mrph_num, slot', Mrph_num')
        BY <1>1, <2>1, <3>1, <3>2, <3>4, ReadingsReduced, Zenon
      <4> QED
        BY <1>1, <2>1, <3>3, <4>1, MoveKnown
    <3>5. CASE ~ (homo_num > 0)
      <4>1. Mrph_num' = Mrph_num /\ slot' = slot
        BY <1>1, <3>1, <3>2, <3>3, <3>5 DEF IInv, CountInv
      <4> QED
        BY <1>1, <2>1, <4>1, SameKnown
    <3> QED
      BY <3>4, <3>5
  <2> QED
    BY <2>2, <2>3
<1> QED
  BY <1>1, <1>2, <1>3, <1>5, <1>6, MorphemeKnown, PreprocessKnown, NextParenKnown, Zenon DEF Next
-----------------------------------------------------------------------------
(* Who is to blame                                                         *)

\* LinesOf, Failed, AllRead, Article for a given text.
LinesIn(t, n, K) == {p \in DOMAIN t : NumberIn(t, p) = n /\ t[p].k \in K}
FailedIn(t, n) ==
  \/ LinesIn(t, n, {"m"}) = {} \/ LinesIn(t, n, {"x"}) # {}
  \/ \E p \in LinesIn(t, n, {"*", "+"}) : t[p].is = "bad"
  \/ \E p \in LinesIn(t, n, {"+"}) : \A q \in LinesIn(t, n, {"*"}) : p < q
  \/ Cardinality(WordLines(t, n)) > MRPH_MAX
  \/ Cardinality({p \in WordLines(t, n) : t[p].w \in {"b", "("}}) >= BNST_MAX
Readable(t, n) == \A m \in 1 .. n : m <= NumberIn(t, Len(t)) => ~ FailedIn(t, m)

\* No line of sentence n before line p is of kind k.
NoneBefore(t, n, p, k) == \A q \in 1 .. (p - 1) : NumberIn(t, q) = n => t[q].k # k

\* A sentence that is skipped has failed, and what has not been seen of it is not
\* there.
BlameInv ==
  /\ pc = "skip" => FailedIn(text, sen)
  /\ pc = "read" /\ OptInput = {} => NoneBefore(text, sen, pos, "*")
  /\ pc = "read" /\ Mrph_num = 0 => NoneBefore(text, sen, pos, "m")

LEMMA Injective ==
  ASSUME NEW S, NEW T, IsFiniteSet(S), IsFiniteSet(T), NEW f \in [S -> T],
         \A x, y \in S : f[x] = f[y] => x = y
  PROVE  Cardinality(S) <= Cardinality(T)
<1>1. Cardinality(S) \in Nat /\ Cardinality(T) \in Nat
  BY FS_CardinalityType
<1>2. ~ (Cardinality(T) < Cardinality(S))
  <2>1. SUFFICES ASSUME Cardinality(T) < Cardinality(S)
                 PROVE  FALSE
    OBVIOUS
  <2>2. \E x, y \in S : x # y /\ f[x] = f[y]
    BY <2>1, FS_PigeonHole
  <2> QED
    BY <2>2, Zenon
<1> QED
  BY <1>1, <1>2

\* The number of the sentence grows with the lines, at EOS.
LEMMA NumberGrows ==
  ASSUME NEW t, NEW p \in Nat \ {0}, NEW q \in Nat, p <= q
  PROVE  /\ NumberIn(t, p) \in Nat /\ NumberIn(t, q) \in Nat /\ NumberIn(t, p) <= NumberIn(t, q)
         /\ p < q /\ t[p].k = "E" => NumberIn(t, p) < NumberIn(t, q)
<1> DEFINE E(x) == {r \in 1 .. (x - 1) : t[r].k = "E"}
<1>1. \A x \in Nat : IsFiniteSet(E(x)) /\ Cardinality(E(x)) \in Nat
  <2> SUFFICES ASSUME NEW x \in Nat
               PROVE  IsFiniteSet(E(x)) /\ Cardinality(E(x)) \in Nat
    OBVIOUS
  <2>1. IsFiniteSet(1 .. (x - 1)) /\ E(x) \in SUBSET (1 .. (x - 1))
    BY FS_Interval
  <2> HIDE DEF E
  <2> QED
    BY <2>1, FS_Subset, FS_CardinalityType
<1>2. \A x, y \in Nat : x <= y => E(x) \subseteq E(y)
  OBVIOUS
<1>3. \A x : NumberIn(t, x) = 1 + Cardinality(E(x))
  BY Zenon DEF NumberIn
<1>4. \A x, y \in Nat : x <= y => Cardinality(E(x)) <= Cardinality(E(y))
  <2> HIDE DEF E
  <2>1. SUFFICES ASSUME NEW x \in Nat, NEW y \in Nat, x <= y
                 PROVE  Cardinality(E(x)) <= Cardinality(E(y))
    OBVIOUS
  <2>2. E(x) \in SUBSET E(y) /\ IsFiniteSet(E(y))
    BY <1>1, <1>2, <2>1, Zenon
  <2> QED
    BY <2>2, FS_Subset, Zenon
<1> HIDE DEF E
<1>5. \A x, y \in Nat : x <= y =>
        NumberIn(t, x) \in Nat /\ NumberIn(t, y) \in Nat /\ NumberIn(t, x) <= NumberIn(t, y)
  <2>1. SUFFICES ASSUME NEW x \in Nat, NEW y \in Nat, x <= y
                 PROVE  NumberIn(t, x) \in Nat /\ NumberIn(t, y) \in Nat /\ NumberIn(t, x) <= NumberIn(t, y)
    OBVIOUS
  <2>2. /\ Cardinality(E(x)) \in Nat /\ Cardinality(E(y)) \in Nat
        /\ Cardinality(E(x)) <= Cardinality(E(y))
        /\ NumberIn(t, x) = 1 + Cardinality(E(x)) /\ NumberIn(t, y) = 1 + Cardinality(E(y))
    BY <1>1, <1>3, <1>4, <2>1, Zenon
  <2> QED
    BY <2>2
<1>6. ASSUME p < q, t[p].k = "E"
      PROVE  NumberIn(t, p) < NumberIn(t, q)
  <2>1. p + 1 \in Nat /\ p + 1 <= q
    BY <1>6
  <2>2. NumberIn(t, p + 1) = NumberIn(t, p) + 1 /\ NumberIn(t, p) \in Nat
    BY <1>6, NumberStep
  <2>3. NumberIn(t, p + 1) <= NumberIn(t, q) /\ NumberIn(t, q) \in Nat
    BY <1>5, <2>1, Zenon
  <2> QED
    BY <2>2, <2>3
<1> QED
  BY <1>5, <1>6

\* Before the first line of a sentence come those of other sentences only, and
\* after its EOS too.
LEMMA SentenceEnds ==
  ASSUME NEW t \in Texts, NEW p \in 2 .. (Len(t) + 1), t[p - 1].k = "E"
  PROVE  /\ NumberIn(t, p) \in Nat /\ NumberIn(t, p - 1) = NumberIn(t, p) - 1
         /\ \A q \in 1 .. (p - 1) : NumberIn(t, q) < NumberIn(t, p)
         /\ \A q \in p .. Len(t) : NumberIn(t, q) >= NumberIn(t, p)
<1>1. Len(t) \in Nat /\ p \in Nat \ {0} /\ p - 1 \in Nat \ {0} /\ p - 1 + 1 = p
  BY TextFacts
<1>2. NumberIn(t, p - 1) \in Nat /\ NumberIn(t, p) = NumberIn(t, p - 1) + 1
  <2>1. NumberIn(t, p - 1) \in Nat /\ NumberIn(t, p - 1 + 1) = NumberIn(t, p - 1) + 1
    BY <1>1, NumberStep, Zenon
  <2> QED
    BY <1>1, <2>1, Zenon
<1>3. ASSUME NEW q \in 1 .. (p - 1)
      PROVE  NumberIn(t, q) < NumberIn(t, p)
  <2>1. q \in Nat \ {0} /\ q <= p - 1
    BY <1>1
  <2>2. NumberIn(t, q) \in Nat /\ NumberIn(t, q) <= NumberIn(t, p - 1)
    BY <1>1, <2>1, NumberGrows
  <2> QED
    BY <1>2, <2>2
<1>4. ASSUME NEW q \in p .. Len(t)
      PROVE  NumberIn(t, q) >= NumberIn(t, p)
  <2>1. q \in Nat /\ p <= q
    BY <1>1
  <2>2. NumberIn(t, p) \in Nat /\ NumberIn(t, q) \in Nat /\ NumberIn(t, p) <= NumberIn(t, q)
    BY <1>1, <2>1, NumberGrows, Zenon
  <2> QED
    BY <2>2
<1> QED
  BY <1>2, <1>3, <1>4

\* The sentences of a text are finite.
LEMMA WordsFinite ==
  ASSUME NEW t \in Texts, NEW n
  PROVE  IsFiniteSet(WordLines(t, n)) /\ \A S \in SUBSET WordLines(t, n) : IsFiniteSet(S)
<1>1. IsFiniteSet(DOMAIN t)
  <2>1. DOMAIN t = 1 .. Len(t) /\ Len(t) \in Nat
    BY TextFacts
  <2>2. IsFiniteSet(1 .. Len(t))
    BY <2>1, FS_Interval
  <2> QED
    BY <2>1, <2>2, Zenon
<1>2. WordLines(t, n) \in SUBSET DOMAIN t
  BY Zenon DEF WordLines
<1>3. \A S \in SUBSET DOMAIN t : IsFiniteSet(S)
  BY <1>1, FS_Subset, Zenon
<1> QED
  BY <1>2, <1>3, Zenon

\* More morphemes than fit in the slots have been seen when one comes and they are
\* full.
LEMMA FullFails ==
  ASSUME NEW t \in Texts, NEW q \in DOMAIN t, t[q].k \in {"m", "@"}, NEW s,
         LinesKnown(t, NumberIn(t, q), q, s, MRPH_MAX)
  PROVE  Cardinality(WordLines(t, NumberIn(t, q))) > MRPH_MAX
<1> DEFINE n == NumberIn(t, q)
           W == WordLines(t, n)
           f == [i \in 0 .. MRPH_MAX |-> IF i = MRPH_MAX THEN q ELSE s[i].id]
<1>1. q \in Nat /\ q \in W /\ MRPH_MAX \in Nat
  BY TextFacts, SlotBounds DEF WordLines
<1>2. /\ \A i \in 0 .. MRPH_MAX : i = MRPH_MAX \/ (i \in Slots /\ i < MRPH_MAX)
  BY SlotBounds
<1>3. \A i \in Slots : i < MRPH_MAX => s[i].id \in W /\ s[i].id # q
  <2>1. \A i \in Slots : i < MRPH_MAX => s[i] \in LineSlots(t, n, q)
    BY Zenon DEF LinesKnown, Holds
  <2>2. ~ (q < q)
    BY <1>1
  <2> QED
    BY <2>1, <2>2, Zenon DEF LineSlots, Known
<1>4. \A i, j \in Slots : i # j /\ i < MRPH_MAX /\ j < MRPH_MAX => s[i].id # s[j].id
  BY Zenon DEF LinesKnown, Apart
<1> HIDE DEF n, W
<1>5. f \in [0 .. MRPH_MAX -> W]
  BY <1>1, <1>2, <1>3, Zenon
<1>6. /\ \A i \in 0 .. MRPH_MAX : (i = MRPH_MAX => f[i] = q) /\ (i # MRPH_MAX => f[i] = s[i].id)
  BY Zenon
<1> HIDE DEF f
<1>7. \A i, j \in 0 .. MRPH_MAX : f[i] = f[j] => i = j
  <2>1. SUFFICES ASSUME NEW i \in 0 .. MRPH_MAX, NEW j \in 0 .. MRPH_MAX, i # j
                 PROVE  f[i] # f[j]
    BY Zenon
  <2>2. CASE i = MRPH_MAX
    <3>1. f[i] = q /\ f[j] = s[j].id /\ s[j].id # q
      BY <1>2, <1>3, <1>6, <2>1, <2>2, Zenon
    <3> QED
      BY <3>1
  <2>3. CASE j = MRPH_MAX
    <3>1. f[j] = q /\ f[i] = s[i].id /\ s[i].id # q
      BY <1>2, <1>3, <1>6, <2>1, <2>3, Zenon
    <3> QED
      BY <3>1
  <2>4. CASE i # MRPH_MAX /\ j # MRPH_MAX
    <3>1. f[i] = s[i].id /\ f[j] = s[j].id /\ s[i].id # s[j].id
      BY <1>2, <1>4, <1>6, <2>1, <2>4, Zenon
    <3> QED
      BY <3>1
  <2> QED
    BY <2>2, <2>3, <2>4
<1>8. IsFiniteSet(0 .. MRPH_MAX) /\ Cardinality(0 .. MRPH_MAX) = MRPH_MAX + 1
  BY <1>1, FS_Interval
<1>9. IsFiniteSet(W)
  BY WordsFinite, Zenon DEF W
<1>10. Cardinality(0 .. MRPH_MAX) <= Cardinality(W)
  BY <1>5, <1>7, <1>8, <1>9, Injective, Zenon
<1>11. Cardinality(W) \in Nat
  BY <1>9, FS_CardinalityType
<1> QED
  BY <1>1, <1>8, <1>10, <1>11 DEF W, n

\* Each phrase but the first begins with a line of its own.
LEMMA TooManyFails ==
  ASSUME IInv, LineInv, TooManyBnst
  PROVE  FailedIn(text, sen)
<1> DEFINE B == {i \in Used : i = 0 \/ slot[i].w \in {"b", "("}}
           S == B \ {0}
           T == {p \in WordLines(text, sen) : text[p].w \in {"b", "("}}
           f == [i \in S |-> slot[i].id]
<1>1. Mrph_num \in Nat /\ text \in Texts /\ BNST_MAX \in Nat /\ \A i \in Used : i \in Slots /\ i < Mrph_num
  BY SlotBounds, LimitsAssumption DEF IInv, CountInv, TextInv, Used
<1>2. Cardinality(B) > BNST_MAX
  BY DEF TooManyBnst, BnstStarts
<1>3. IsFiniteSet(B) /\ Cardinality(B) \in Nat
  <2>1. IsFiniteSet(Used) /\ B \in SUBSET Used
    BY <1>1, FS_Interval DEF Used
  <2> HIDE DEF B
  <2> QED
    BY <2>1, FS_Subset, FS_CardinalityType
<1>4. IsFiniteSet(S) /\ Cardinality(S) >= BNST_MAX
  <2> HIDE DEF B
  <2>1. IsFiniteSet(B \ {0}) /\ Cardinality(B \ {0}) = IF 0 \in B THEN Cardinality(B) - 1 ELSE Cardinality(B)
    BY <1>3, FS_RemoveElement
  <2> QED
    BY <1>1, <1>2, <1>3, <2>1
<1>5. \A i \in S : /\ i \in Slots /\ i < Mrph_num
                   /\ slot[i].id \in WordLines(text, sen) /\ slot[i].w = text[slot[i].id].w
                   /\ slot[i].w \in {"b", "("}
  <2>1. \A i \in Slots : i < Mrph_num => slot[i] \in LineSlots(text, sen, pos)
    BY Zenon DEF LineInv, LinesKnown, Holds
  <2>2. \A i \in S : i \in Used /\ slot[i].w \in {"b", "("}
    OBVIOUS
  <2> HIDE DEF S
  <2> QED
    BY <1>1, <2>1, <2>2, Zenon DEF LineSlots
<1> HIDE DEF S, B
<1>6. f \in [S -> T]
  BY <1>5, Zenon
<1>7. \A i, j \in S : f[i] = f[j] => i = j
  <2>1. \A i, j \in Slots : i # j /\ i < Mrph_num /\ j < Mrph_num => slot[i].id # slot[j].id
    BY Zenon DEF LineInv, LinesKnown, Apart
  <2> QED
    BY <1>5, <2>1, Zenon
<1>8. IsFiniteSet(T) /\ Cardinality(T) \in Nat
  <2>1. T \in SUBSET WordLines(text, sen)
    OBVIOUS
  <2> HIDE DEF T
  <2>2. IsFiniteSet(T)
    BY <1>1, <2>1, WordsFinite, Zenon
  <2> QED
    BY <2>2, FS_CardinalityType
<1> HIDE DEF f
<1>9. Cardinality(S) <= Cardinality(T)
  BY <1>4, <1>6, <1>7, <1>8, Injective, Zenon
<1>10. Cardinality(T) >= BNST_MAX
  <2>1. Cardinality(S) \in Nat
    BY <1>4, FS_CardinalityType
  <2> HIDE DEF T
  <2> QED
    BY <1>1, <1>4, <1>8, <1>9, <2>1
<1> QED
  BY <1>10, Zenon DEF FailedIn, T

\* One line more.
LEMMA NoneBeforeStep ==
  ASSUME NEW t, NEW n, NEW p \in Nat \ {0}, NEW k, NoneBefore(t, n, p, k), t[p].k # k
  PROVE  NoneBefore(t, n, p + 1, k)
<1> SUFFICES ASSUME NEW q \in 1 .. (p + 1 - 1), NumberIn(t, q) = n PROVE t[q].k # k
  BY DEF NoneBefore
<1>1. q \in 1 .. (p - 1) \/ q = p
  OBVIOUS
<1>2. CASE q \in 1 .. (p - 1)
  BY <1>2, Zenon DEF NoneBefore
<1>3. CASE q = p
  BY <1>3
<1> QED
  BY <1>1, <1>2, <1>3

\* A line of sentence n is one of its lines.
LEMMA ReadLine ==
  ASSUME IInv, pc \in {"read", "skip"}, pos <= Len(text)
  PROVE  /\ text \in Texts /\ pos \in DOMAIN text /\ NumberIn(text, pos) = sen /\ pos \in Nat \ {0}
         /\ \A K : text[pos].k \in K => pos \in LinesIn(text, sen, K)
<1>1. /\ text \in Texts /\ pos \in DOMAIN text /\ NumberIn(text, pos) = sen /\ pos \in Nat \ {0}
  BY TextFacts DEF IInv, TextInv
<1>2. \A K : text[pos].k \in K => pos \in LinesIn(text, sen, K)
  <2> SUFFICES ASSUME NEW K, text[pos].k \in K PROVE pos \in LinesIn(text, sen, K)
    OBVIOUS
  <2>1. pos \in {p \in DOMAIN text : NumberIn(text, p) = sen /\ text[p].k \in K}
    BY <1>1
  <2> QED
    BY <2>1, Zenon DEF LinesIn
<1> QED
  BY <1>1, <1>2, Zenon

\* A line of a phrase or tag that is bad, or a tag without a phrase.
LEMMA BadLineFails ==
  ASSUME IInv, BlameInv, pc = "read", pos <= Len(text), text[pos].k \in {"*", "+"},
         text[pos].is = "bad" \/ (text[pos].k = "+" /\ OptInput = {})
  PROVE  FailedIn(text, sen)
<1>1. /\ pos \in LinesIn(text, sen, {"*", "+"}) /\ text \in Texts /\ pos \in Nat \ {0}
      /\ text[pos].k = "+" => pos \in LinesIn(text, sen, {"+"})
  <2>1. text[pos].k = "+" => text[pos].k \in {"+"}
    OBVIOUS
  <2> QED
    BY <2>1, ReadLine, Zenon
<1>2. CASE text[pos].is = "bad"
  BY <1>1, <1>2, Zenon DEF FailedIn
<1>3. CASE text[pos].k = "+" /\ OptInput = {}
  <2>1. ASSUME NEW q \in LinesIn(text, sen, {"*"})
        PROVE  pos < q
    <3>1. q \in DOMAIN text /\ NumberIn(text, q) = sen /\ text[q].k = "*"
      BY DEF LinesIn
    <3>2. q \in Nat /\ q >= 1
      BY <1>1, <3>1, TextFacts
    <3>3. q \notin 1 .. (pos - 1)
      BY <1>3, <3>1, Zenon DEF BlameInv, NoneBefore
    <3>4. q # pos
      BY <1>3, <3>1
    <3> QED
      BY <1>1, <3>2, <3>3, <3>4
  <2> QED
    BY <1>1, <1>3, <2>1, Zenon DEF FailedIn
<1> QED
  BY <1>2, <1>3

LEMMA MorphemeBlame ==
  ASSUME IInv, IInv', LineInv, BlameInv, Morpheme
  PROVE  BlameInv'
<1> DEFINE ends == text[pos].k = "m" /\ homo_num > 0
           s(pref) == IF ends THEN Reduced(pref) ELSE slot
           num == IF ends THEN Mrph_num - homo_num ELSE Mrph_num
<1>1. /\ pc = "read" /\ pos <= Len(text) /\ text[pos].k \in {"m", "@"} /\ pos' = pos + 1
      /\ text' = text /\ sen' = sen /\ OptInput' = OptInput
  BY DEF Morpheme, Reads, Line, reading
<1>2. PICK pref \in 0 .. homo_num :
        /\ Full(num) => slot' = s(pref) /\ Mrph_num' = num /\ pc' = "skip"
        /\ ~ Full(num) => Mrph_num' = num + 1 /\ pc' = pc
  BY Zenon DEF Morpheme, Line
<1>3. /\ text \in Texts /\ pos \in DOMAIN text /\ NumberIn(text, pos) = sen /\ pos \in Nat \ {0}
  BY <1>1, ReadLine, Zenon
<1>4. CASE Full(num)
  <2>1. num = MRPH_MAX /\ Mrph_num = MRPH_MAX
    BY <1>4, SlotBounds DEF Full, IInv, CountInv
  <2>2. LinesKnown(text, NumberIn(text, pos), pos, slot, MRPH_MAX)
    BY <1>3, <2>1, Zenon DEF LineInv
  <2>3. Cardinality(WordLines(text, sen)) > MRPH_MAX
    BY <1>1, <1>3, <2>2, FullFails, Zenon
  <2>4. FailedIn(text, sen)
    BY <2>3, Zenon DEF FailedIn
  <2>5. pc' = "skip"
    BY <1>2, <1>4, Zenon
  <2> QED
    BY <1>1, <2>4, <2>5 DEF BlameInv
<1>5. CASE ~ Full(num)
  <2>1. Mrph_num' = num + 1 /\ pc' = "read"
    BY <1>1, <1>2, <1>5, Zenon
  <2>2. num \in Nat /\ num + 1 # 0
    BY <1>1, SlotBounds DEF IInv, CountInv
  <2>3. text[pos].k # "*"
    BY <1>1
  <2>4. OptInput = {} => NoneBefore(text, sen, pos + 1, "*")
    BY <1>1, <1>3, <2>3, NoneBeforeStep, Zenon DEF BlameInv
  <2> QED
    BY <1>1, <2>1, <2>2, <2>4 DEF BlameInv
<1> QED
  BY <1>4, <1>5

LEMMA StepBlame == IInv /\ IInv' /\ LineInv /\ BlameInv /\ [Next]_vars => BlameInv'
<1>1. SUFFICES ASSUME IInv, IInv', LineInv, BlameInv, [Next]_vars
               PROVE  BlameInv'
  OBVIOUS
<1>2. CASE pc' \notin {"read", "skip"}
  BY <1>2 DEF BlameInv
<1>3. CASE UNCHANGED vars
  <2>1. UNCHANGED <<pc, text, sen, pos, OptInput, Mrph_num>>
    BY <1>3 DEF vars, reading
  <2> QED
    BY <1>1, <2>1, Zenon DEF BlameInv
<1>4. CASE Start
  <2>1. pc = "ready" /\ pc' = "read" /\ sen' = sen + 1 /\ text' = text /\ pos' = pos
    BY <1>4 DEF Start
  <2>2. text \in Texts /\ pos \in 1 .. (Len(text) + 1) /\ NumberIn(text, pos) = sen + 1
        /\ (pos = 1 \/ text[pos - 1].k = "E")
    BY <1>1, <2>1 DEF IInv, TextInv
  <2>3. \A q \in 1 .. (pos - 1) : NumberIn(text, q) # sen + 1
    <3>1. CASE pos = 1
      BY <3>1
    <3>2. CASE pos # 1
      <4>1. pos \in 2 .. (Len(text) + 1) /\ text[pos - 1].k = "E"
        BY <2>2, <3>2, TextFacts
      <4>2. NumberIn(text, pos) \in Nat /\ \A q \in 1 .. (pos - 1) : NumberIn(text, q) < NumberIn(text, pos)
        BY <2>2, <4>1, SentenceEnds, Zenon
      <4>3. ~ (sen + 1 < sen + 1)
        BY <2>2, <4>2
      <4> QED
        BY <2>2, <4>2, <4>3, Zenon
    <3> QED
      BY <3>1, <3>2
  <2>4. \A k : NoneBefore(text, sen + 1, pos, k)
    BY <2>3, Zenon DEF NoneBefore
  <2> QED
    BY <2>1, <2>4 DEF BlameInv
<1>5. CASE Comment
  <2>1. /\ pc = "read" /\ pos <= Len(text) /\ text[pos].k = "#" /\ pos' = pos + 1
        /\ UNCHANGED <<pc, text, sen, OptInput, Mrph_num>>
    BY <1>5 DEF Comment, Reads, Line, reading
  <2>2. text[pos].k # "*" /\ text[pos].k # "m" /\ pos \in Nat \ {0}
    BY <1>1, <2>1, ReadLine
  <2>3. /\ OptInput = {} => NoneBefore(text, sen, pos + 1, "*")
        /\ Mrph_num = 0 => NoneBefore(text, sen, pos + 1, "m")
    BY <1>1, <2>1, <2>2, NoneBeforeStep, Zenon DEF BlameInv
  <2> QED
    BY <2>1, <2>3 DEF BlameInv
<1>6. CASE BnstLine \/ TagLine
  <2>1. /\ pc = "read" /\ pos <= Len(text) /\ text[pos].k \in {"*", "+"} /\ pos' = pos + 1
        /\ UNCHANGED <<text, sen, Mrph_num>>
    BY <1>6 DEF BnstLine, TagLine, Reads, Line
  <2>2. text \in Texts /\ pos \in Nat \ {0} /\ pos \in DOMAIN text
    BY <1>1, <2>1, ReadLine, Zenon
  <2>3. text[pos].is \in {"parsed", "chunk", "bad"}
    BY <2>1, <2>2, TextsAssumption
  <2> DEFINE bad == text[pos].is = "bad" \/ (text[pos].k = "+" /\ OptInput = {})
  <2>4. CASE bad
    <3>1. pc' = "skip"
      BY <1>6, <2>1, <2>4 DEF BnstLine, TagLine, Reads, Line
    <3>2. FailedIn(text, sen)
      BY <1>1, <2>1, <2>4, BadLineFails, Zenon
    <3> QED
      BY <2>1, <3>1, <3>2 DEF BlameInv
  <2>5. CASE ~ bad
    <3>1. pc' = "read" /\ OptInput' = Flag(text[pos].is)
      BY <1>6, <2>1, <2>5 DEF BnstLine, TagLine, Reads, Line
    <3>2. OptInput' # {}
      BY <2>3, <2>5, <3>1 DEF Flag
    <3>3. text[pos].k # "m"
      BY <2>1
    <3>4. Mrph_num = 0 => NoneBefore(text, sen, pos + 1, "m")
      BY <1>1, <2>1, <2>2, <3>3, NoneBeforeStep, Zenon DEF BlameInv
    <3> QED
      BY <2>1, <3>1, <3>2, <3>4 DEF BlameInv
  <2> QED
    BY <2>4, <2>5
<1>7. CASE Invalid
  <2>1. /\ pc = "read" /\ pos <= Len(text) /\ text[pos].k \in {"x"} /\ pc' = "skip"
        /\ UNCHANGED <<text, sen>>
    BY <1>7 DEF Invalid, Reads, Line
  <2>2. pos \in LinesIn(text, sen, {"x"})
    BY <1>1, <2>1, ReadLine, Zenon
  <2>3. FailedIn(text, sen)
    BY <2>2 DEF FailedIn
  <2> QED
    BY <2>1, <2>3 DEF BlameInv
<1>8. CASE Skip
  <2>1. pc = "skip" /\ UNCHANGED <<text, sen>> /\ pc' \in {"skip", "ready"}
    BY <1>8 DEF Skip, Fail
  <2> QED
    BY <1>1, <2>1 DEF BlameInv
<1>9. CASE EndOfSentence \/ Preprocess \/ Analyse \/ NextParen \/ Finish
  <2>1. pc' \notin {"read", "skip"}
    BY <1>9 DEF EndOfSentence, Fail, Preprocess, Analyse, NextParen, Finish
  <2> QED
    BY <1>2, <2>1
<1> QED
  BY <1>1, <1>3, <1>4, <1>5, <1>6, <1>7, <1>8, <1>9, MorphemeBlame, Zenon DEF Next
-----------------------------------------------------------------------------
(* Types and entities                                                      *)

\* Before the first part of a sentence has been analysed.
Before == pc \in {"read", "skip", "prepare"} \/ (pc = "analyse" /\ part = 0)

EntryType(t, n) == [sen : 0 .. n, f : SUBSET (1 .. Len(t)), st : {"none", "kept", "freed"}]

ReadInv ==
  /\ homo_num \in 0 .. MRPH_MAX /\ (pc \in {"prepare", "analyse", "next"} => homo_num = 0)
  /\ OptInput \subseteq {"PARSED", "CHUNKED", "BNST"}
  /\ Bnst_start \subseteq 0 .. MRPH_MAX /\ Tag_start \subseteq 0 .. MRPH_MAX

\* Only -anaphora makes entities, and the first sentence finds none; a parenthesis
\* is shorter than a sentence.
EntityInv ==
  /\ Sen_num \in Nat /\ (pc # "ready" => Sen_num >= 1)
  /\ ents \in 0 .. ENTITY_MAX /\ (opt.mode # "each" => ents = 0)
  /\ Sen_num = 0 \/ (Sen_num = 1 /\ Before) => ents = 0
  /\ part \in Nat /\ (part > 0 /\ pc = "analyse" => Mrph_num <= MRPH_MAX - 3)

SavedInv == saved \in [0 .. (SENTENCE_MAX - 1) -> EntryType(text, sen)]

LEMMA StepRead == IInv /\ IInv' /\ ReadInv /\ [Next]_vars => ReadInv'
<1>1. SUFFICES ASSUME IInv, IInv', ReadInv, [Next]_vars
               PROVE  ReadInv'
  OBVIOUS
<1>2. /\ MRPH_MAX \in Nat /\ Mrph_num \in 0 .. MRPH_MAX /\ homo_num \in 0 .. MRPH_MAX
      /\ pc = "read" => Mrph_num - homo_num \in 0 .. MRPH_MAX
  BY <1>1, SlotBounds DEF IInv, CountInv, ReadInv
<1>3. CASE \/ UNCHANGED vars \/ Comment \/ Invalid \/ Skip \/ Preprocess \/ Analyse \/ NextParen \/ Finish
  <2>1. UNCHANGED <<homo_num, OptInput, Bnst_start, Tag_start>>
        /\ (pc' \in {"prepare", "analyse", "next"} => pc \in {"prepare", "analyse", "next"})
    <3>1. CASE UNCHANGED vars
      BY <3>1 DEF vars, reading
    <3>2. CASE Comment
      BY <3>2 DEF Comment, Reads, reading
    <3>3. CASE Invalid
      BY <3>3 DEF Invalid, Reads, reading
    <3>4. CASE Skip
      BY <3>4 DEF Skip, Fail
    <3>5. CASE Preprocess
      BY <3>5 DEF Preprocess
    <3>6. CASE Analyse
      BY <3>6 DEF Analyse
    <3>7. CASE NextParen
      BY <3>7 DEF NextParen
    <3>8. CASE Finish
      BY <3>8 DEF Finish, reading
    <3> QED
      BY <1>3, <3>1, <3>2, <3>3, <3>4, <3>5, <3>6, <3>7, <3>8, Zenon
  <2> QED
    BY <1>1, <2>1, Zenon DEF ReadInv
<1>4. CASE Start
  BY <1>1, <1>2, <1>4 DEF Start, ReadInv
<1>5. CASE BnstLine
  <2>1. pc = "read" /\ homo_num' = homo_num /\ pc' \in {"read", "skip"} /\ OptInput' = Flag(text[pos].is)
    BY <1>5 DEF BnstLine, Reads, Line
  <2>2. text[pos].is \in {"parsed", "chunk", "bad"}
    <3>1. pc = "read" /\ pos <= Len(text) /\ text[pos].k = "*"
      BY <1>5 DEF BnstLine, Reads, Line
    <3>2. text \in Texts /\ pos \in DOMAIN text
      BY <1>1, <3>1, ReadLine
    <3> QED
      BY <3>1, <3>2, TextsAssumption
  <2>3. OptInput' \subseteq {"PARSED", "CHUNKED", "BNST"}
    BY <1>1, <2>1, <2>2 DEF Flag, ReadInv
  <2>4. Bnst_start' \subseteq Bnst_start \cup {Mrph_num - homo_num} /\ Tag_start' \subseteq Tag_start
    BY <1>5 DEF BnstLine
  <2>5. Bnst_start' \subseteq 0 .. MRPH_MAX /\ Tag_start' \subseteq 0 .. MRPH_MAX
    BY <1>1, <1>2, <2>1, <2>4, Zenon DEF ReadInv
  <2> QED
    BY <1>1, <2>1, <2>3, <2>5 DEF ReadInv
<1>6. CASE TagLine
  <2>1. pc = "read" /\ homo_num' = homo_num /\ pc' \in {"read", "skip"} /\ Bnst_start' = Bnst_start
    BY <1>6 DEF TagLine, Reads
  <2>2. text[pos].is \in {"parsed", "chunk", "bad"}
    <3>1. pc = "read" /\ pos <= Len(text) /\ text[pos].k = "+"
      BY <1>6 DEF TagLine, Reads, Line
    <3>2. text \in Texts /\ pos \in DOMAIN text
      BY <1>1, <3>1, ReadLine
    <3> QED
      BY <3>1, <3>2, TextsAssumption
  <2>3. OptInput' \in {OptInput, Flag(text[pos].is)}
    BY <1>6 DEF TagLine, Line
  <2>4. OptInput' \subseteq {"PARSED", "CHUNKED", "BNST"}
    BY <1>1, <2>2, <2>3 DEF Flag, ReadInv
  <2>5. Tag_start' \subseteq Tag_start \cup {Mrph_num - homo_num}
    BY <1>6 DEF TagLine
  <2>6. Tag_start' \subseteq 0 .. MRPH_MAX
    BY <1>1, <1>2, <2>1, <2>5, Zenon DEF ReadInv
  <2> QED
    BY <1>1, <2>1, <2>4, <2>6 DEF ReadInv
<1>7. CASE Morpheme
  <2>1. pc = "read" /\ pc' \in {"read", "skip"} /\ UNCHANGED <<OptInput, Bnst_start, Tag_start>>
    BY <1>7 DEF Morpheme, Reads
  <2>2. pc' = "skip" => homo_num' \in {0, homo_num}
    BY <1>2, <1>7, <2>1 DEF Morpheme
  <2>3. pc' = "read" => homo_num' \in 0 .. MRPH_MAX
    BY <1>1, <1>2 DEF IInv, CountInv
  <2>4. homo_num' \in 0 .. MRPH_MAX
    BY <1>2, <2>1, <2>2, <2>3
  <2> QED
    BY <1>1, <2>1, <2>4 DEF ReadInv
<1>8. CASE EndOfSentence
  <2>1. CASE Mrph_num = 0
    BY <1>1, <1>8, <2>1 DEF EndOfSentence, Fail, ReadInv
  <2>2. CASE Mrph_num # 0
    <3>1. /\ homo_num' = 0 /\ UNCHANGED <<Bnst_start, Tag_start>>
          /\ OptInput' \in {OptInput, OptInput \cup {"BNST"}}
      BY <1>8, <2>2 DEF EndOfSentence
    <3>2. OptInput' \subseteq {"PARSED", "CHUNKED", "BNST"}
      BY <1>1, <3>1 DEF ReadInv
    <3> QED
      BY <1>1, <1>2, <3>1, <3>2 DEF ReadInv
  <2> QED
    BY <2>1, <2>2
<1> QED
  BY <1>1, <1>3, <1>4, <1>5, <1>6, <1>7, <1>8, Zenon DEF Next

\* A parenthesis is shorter than the sentence.
LEMMA NextPartShort ==
  ASSUME IInv, PartInv, NextParen
  PROVE  Mrph_num' <= MRPH_MAX - 3
<1>1. Mrph_num' = Cardinality(DOMAIN Head(parens)) /\ pc = "next"
  BY Zenon DEF NextParen
<1> DEFINE X == Chunks(SlotType)
<1>2. parens \in Seq(X) /\ parens # <<>>
  BY <1>1 DEF IInv, SlotInv
<1> HIDE DEF X
<1>3. 1 \in 1 .. Len(parens) /\ Head(parens) = parens[1]
  BY <1>2
<1>4. Single(parens[1])
  BY <1>3, Zenon DEF PartInv, PartsKnown
<1> QED
  BY <1>1, <1>3, <1>4, Zenon DEF Single

\* The tags of a sentence are not more than its morphemes.
LEMMA TagCount ==
  ASSUME IInv
  PROVE  Cardinality(TagStarts) \in 0 .. Mrph_num
<1>1. Mrph_num \in Nat
  BY SlotBounds DEF IInv, CountInv
<1>2. IsFiniteSet(Used) /\ Cardinality(Used) = Mrph_num
  BY <1>1, FS_Interval DEF Used
<1>3. TagStarts \in SUBSET Used
  BY DEF TagStarts, BnstStarts
<1>4. Cardinality(TagStarts) <= Cardinality(Used) /\ IsFiniteSet(TagStarts)
  BY <1>2, <1>3, FS_Subset, Zenon
<1>5. Cardinality(TagStarts) \in Nat
  BY <1>4, FS_CardinalityType, Zenon
<1> QED
  BY <1>1, <1>2, <1>4, <1>5

LEMMA PreserveEntities ==
  ASSUME IInv, EntityInv, pc = "analyse", Preserve, opt' = opt
  PROVE  Sen_num' \in Nat \ {0} /\ ents' \in 0 .. ENTITY_MAX /\ (opt'.mode # "each" => ents' = 0)
<1> DEFINE clear == Sen_num > SENTENCE_MAX \/ (Anaphora /\ EntitiesFull)
           num == IF clear THEN 1 ELSE Sen_num
           had == IF clear /\ Anaphora THEN 0 ELSE ents
           c == Cardinality(TagStarts)
<1>1. /\ Sen_num' = num
      /\ opt.mode = "each" => \E n \in {0, c} : ents' = had + (IF num = 1 THEN UNNAMED ELSE 0) + n
      /\ opt.mode # "each" => ents' = had
  BY Zenon DEF Preserve
<1>2. /\ Sen_num \in Nat /\ Sen_num >= 1 /\ ents \in 0 .. ENTITY_MAX /\ (opt.mode # "each" => ents = 0)
      /\ part \in Nat /\ (part > 0 => Mrph_num <= MRPH_MAX - 3)
      /\ Sen_num = 1 /\ part = 0 => ents = 0
  BY DEF EntityInv, Before
<1>3. c \in 0 .. Mrph_num
  BY TagCount, Zenon
<1>4. /\ MRPH_MAX \in Nat /\ TAG_MAX \in Nat /\ ENTITY_MAX \in Nat /\ ENTITY_MAX > TAG_MAX + UNNAMED + 1
      /\ MRPH_MAX <= TAG_MAX /\ UNNAMED \in 0 .. 5 /\ SENTENCE_MAX \in Nat \ {0}
  BY LimitsAssumption
<1>5. Mrph_num \in 0 .. MRPH_MAX
  BY DEF IInv, CountInv
<1> HIDE DEF c
<1>6. num \in Nat \ {0}
  BY <1>2
<1>7. CASE opt.mode # "each"
  BY <1>1, <1>2, <1>4, <1>6, <1>7
<1>8. CASE opt.mode = "each"
  <2>1. PICK n \in {0, c} : ents' = had + (IF num = 1 THEN UNNAMED ELSE 0) + n
    BY <1>1, <1>8
  <2>2. Anaphora
    BY <1>8 DEF Anaphora
  <2>3. n \in 0 .. Mrph_num
    BY <1>3, <1>5
  <2>4. CASE clear
    <3>1. had = 0 /\ num = 1
      BY <2>2, <2>4
    <3> HIDE DEF clear, num, had
    <3>2. ents' = UNNAMED + n
      BY <1>4, <1>5, <2>1, <2>3, <3>1
    <3> QED
      BY <1>1, <1>4, <1>5, <1>6, <1>8, <2>3, <3>2
  <2>5. CASE ~ clear
    <3>1. had = ents /\ num = Sen_num /\ ents + TAG_MAX < ENTITY_MAX - 1
      BY <1>2, <1>4, <2>2, <2>5 DEF EntitiesFull
    <3> HIDE DEF clear, num, had
    <3>2. CASE num # 1
      BY <1>1, <1>2, <1>4, <1>5, <1>6, <1>8, <2>1, <2>3, <3>1, <3>2
    <3>3. CASE num = 1 /\ part = 0
      BY <1>1, <1>2, <1>4, <1>5, <1>6, <1>8, <2>1, <2>3, <3>1, <3>3
    <3>4. CASE num = 1 /\ part > 0
      BY <1>1, <1>2, <1>4, <1>5, <1>6, <1>8, <2>1, <2>3, <3>1, <3>4
    <3> QED
      BY <1>2, <3>2, <3>3, <3>4
  <2> QED
    BY <2>4, <2>5
<1> QED
  BY <1>7, <1>8

LEMMA StepEntities == IInv /\ PartInv /\ EntityInv /\ [Next]_vars => EntityInv'
<1>1. SUFFICES ASSUME IInv, PartInv, EntityInv, [Next]_vars
               PROVE  EntityInv'
  OBVIOUS
<1>2. 0 \in 0 .. ENTITY_MAX
  BY LimitsAssumption
<1>3. CASE UNCHANGED vars
  <2>1. UNCHANGED <<opt, pc, Sen_num, ents, part, Mrph_num>>
    BY <1>3 DEF vars, reading, context
  <2> QED
    BY <1>1, <2>1 DEF EntityInv, Before
<1>4. CASE Start
  BY <1>1, <1>4 DEF Start, EntityInv, Before
<1>5. CASE BnstLine \/ TagLine \/ Morpheme \/ Invalid
  <2>1. pc = "read" /\ pc' \in {"read", "skip"} /\ UNCHANGED <<opt, Sen_num, ents, part>>
    BY <1>5 DEF BnstLine, TagLine, Morpheme, Invalid, Reads, context
  <2> QED
    BY <1>1, <2>1 DEF EntityInv, Before
<1>6. CASE Comment
  <2>1. pc = "read" /\ pc' = "read" /\ UNCHANGED <<opt, part>> /\ NewArticle(text[pos].a)
    BY <1>6 DEF Comment, Reads, Line
  <2>2. \/ UNCHANGED <<Sen_num, ents>>
        \/ Sen_num' = 1 /\ ents' = 0
        \/ Sen_num' = 1 /\ ents' = ents /\ opt.mode # "each"
    BY <2>1 DEF NewArticle, ClearContext, ClearSentences, context, Anaphora
  <2> QED
    BY <1>1, <1>2, <2>1, <2>2 DEF EntityInv, Before
<1>7. CASE Skip
  <2>1. pc = "skip" /\ pc' \in {"skip", "ready"} /\ UNCHANGED <<opt, Sen_num, ents, part>>
    BY <1>7 DEF Skip, Fail, context
  <2> QED
    BY <1>1, <2>1 DEF EntityInv, Before
<1>8. CASE EndOfSentence
  <2>1. pc = "read" /\ pc' \in {"prepare", "ready"} /\ UNCHANGED <<opt, Sen_num, ents, part>>
    BY <1>8 DEF EndOfSentence, Fail, Reads, context
  <2> QED
    BY <1>1, <2>1 DEF EntityInv, Before
<1>9. CASE Preprocess
  <2>1. pc = "prepare" /\ pc' = "analyse" /\ part' = 0 /\ UNCHANGED <<opt, Sen_num, ents>>
    BY <1>9 DEF Preprocess, context
  <2> QED
    BY <1>1, <2>1 DEF EntityInv, Before
<1>10. CASE Analyse
  <2>1. pc = "analyse" /\ pc' \in {"ready", "next"} /\ UNCHANGED <<opt, part>>
    BY <1>10 DEF Analyse
  <2>2. UNCHANGED <<Sen_num, ents>> \/ Preserve
    BY <1>10 DEF Analyse, context
  <2>3. CASE UNCHANGED <<Sen_num, ents>>
    BY <1>1, <2>1, <2>3 DEF EntityInv, Before
  <2>4. CASE Preserve
    <3>1. Sen_num' \in Nat \ {0} /\ ents' \in 0 .. ENTITY_MAX /\ (opt'.mode # "each" => ents' = 0)
      BY <1>1, <2>1, <2>4, PreserveEntities
    <3> QED
      BY <1>1, <2>1, <3>1 DEF EntityInv, Before
  <2> QED
    BY <2>2, <2>3, <2>4
<1>11. CASE NextParen
  <2>1. pc = "next" /\ pc' = "analyse" /\ part' = part + 1 /\ UNCHANGED <<opt, Sen_num, ents>>
    BY <1>11 DEF NextParen, context
  <2>2. Mrph_num' <= MRPH_MAX - 3
    BY <1>1, <1>11, NextPartShort
  <2> QED
    BY <1>1, <2>1, <2>2 DEF EntityInv, Before
<1>12. CASE Finish
  <2>1. pc \in {"read", "skip"} /\ pc' = "end" /\ UNCHANGED <<opt, Sen_num, ents, part>>
    BY <1>12 DEF Finish, context
  <2> QED
    BY <1>1, <2>1 DEF EntityInv, Before
<1> QED
  BY <1>1, <1>3, <1>4, <1>5, <1>6, <1>7, <1>8, <1>9, <1>10, <1>11, <1>12, Zenon DEF Next

\* What happens to the context when a comment is read, and when a sentence is kept.
LEMMA CommentContext ==
  ASSUME Comment
  PROVE  \/ UNCHANGED <<Sen_num, saved, freed>>
         \/ Ellipsis /\ Sen_num' = 1 /\ ClearSaved(Kept)
<1>1. NewArticle(Line.a)
  BY DEF Comment
<1> QED
  BY <1>1 DEF NewArticle, ClearContext, ClearSentences, context, Anaphora, Ellipsis

NewEntry == [sen |-> sen, f |-> FeaturesOf(slot, Used), st |-> "kept"]

LEMMA AnalyseContext ==
  ASSUME Analyse, Sen_num \in Nat
  PROVE  \/ UNCHANGED <<Sen_num, saved, freed>> /\ (TooManyBnst \/ ~ Ellipsis)
         \/ /\ Ellipsis /\ Sen_num <= SENTENCE_MAX /\ Sen_num' = Sen_num /\ freed' = freed
            /\ saved' = [saved EXCEPT ![Sen_num - 1] = NewEntry]
         \/ /\ Ellipsis /\ Sen_num' = 1 /\ freed' = freed \cup UNION {Entry(i).f : i \in Kept}
            /\ saved' = [Dropped(Kept) EXCEPT ![0] = NewEntry]
<1>1. CASE TooManyBnst \/ ~ Ellipsis
  BY <1>1 DEF Analyse, context
<1>2. CASE ~ TooManyBnst /\ Ellipsis
  <2> DEFINE clear == Sen_num > SENTENCE_MAX \/ (Anaphora /\ EntitiesFull)
             num == IF clear THEN 1 ELSE Sen_num
             left == IF clear THEN Dropped(Kept) ELSE saved
  <2>1. Preserve
    BY <1>2 DEF Analyse
  <2>2. /\ Sen_num' = num /\ saved' = [left EXCEPT ![num - 1] = NewEntry]
        /\ freed' = IF clear THEN freed \cup UNION {Entry(i).f : i \in Kept} ELSE freed
    BY <2>1, Zenon DEF Preserve, NewEntry
  <2>3. CASE clear
    <3>1. num - 1 = 0
      BY <2>3
    <3>2. num = 1 /\ left = Dropped(Kept)
      BY <2>3, Zenon
    <3> QED
      BY <1>2, <2>2, <2>3, <3>1, <3>2, Zenon
  <2>4. CASE ~ clear
    <3>1. num = Sen_num /\ left = saved
      BY <2>4, Zenon
    <3>2. ~ (Sen_num > SENTENCE_MAX)
      BY <2>4
    <3>3. Sen_num <= SENTENCE_MAX
      BY <3>2, LimitsAssumption
    <3> QED
      BY <1>2, <2>2, <2>4, <3>1, <3>3, Zenon
  <2> QED
    BY <2>3, <2>4
<1> QED
  BY <1>1, <1>2

\* Every other step leaves the sentences kept alone.
LEMMA OtherContext ==
  ASSUME [Next]_vars, ~ Comment, ~ Analyse
  PROVE  saved' = saved
<1>1. CASE UNCHANGED vars
  BY <1>1 DEF vars, context
<1>2. CASE Start \/ BnstLine \/ TagLine \/ Morpheme \/ Invalid
  BY <1>2 DEF Start, BnstLine, TagLine, Morpheme, Invalid, context
<1>3. CASE Skip \/ EndOfSentence \/ Preprocess \/ NextParen \/ Finish
  BY <1>3 DEF Skip, EndOfSentence, Preprocess, NextParen, Finish, context
<1> QED
  BY <1>1, <1>2, <1>3, Zenon DEF Next

LEMMA DroppedType ==
  ASSUME SavedInv, NEW I
  PROVE  /\ Dropped(I) \in [0 .. (SENTENCE_MAX - 1) -> EntryType(text, sen)]
         /\ \A i \in DOMAIN saved : i \in I => Dropped(I)[i].st = "freed" /\ Dropped(I)[i].f = saved[i].f
         /\ \A i \in DOMAIN saved : i \notin I => Dropped(I)[i] = saved[i]
<1>1. DOMAIN saved = 0 .. (SENTENCE_MAX - 1) /\ \A i \in DOMAIN saved : saved[i] \in EntryType(text, sen)
  BY Zenon DEF SavedInv
<1> DEFINE e(x) == [x EXCEPT !.st = "freed"]
<1>2. \A x \in EntryType(text, sen) : e(x) \in EntryType(text, sen) /\ e(x).st = "freed" /\ e(x).f = x.f
  BY DEF EntryType
<1>3. Dropped(I) = [i \in DOMAIN saved |-> IF i \in I THEN e(saved[i]) ELSE saved[i]]
  BY Zenon DEF Dropped
<1> HIDE DEF e
<1>4. \A i \in DOMAIN saved : /\ i \in I => Dropped(I)[i] = e(saved[i])
                              /\ i \notin I => Dropped(I)[i] = saved[i]
  BY <1>3, Zenon
<1>5. \A i \in DOMAIN saved : (IF i \in I THEN e(saved[i]) ELSE saved[i]) \in EntryType(text, sen)
  BY <1>1, <1>2, Zenon
<1>6. Dropped(I) \in [DOMAIN saved -> EntryType(text, sen)]
  BY <1>3, <1>5, Zenon
<1>7. Dropped(I) \in [0 .. (SENTENCE_MAX - 1) -> EntryType(text, sen)]
  BY <1>1, <1>6
<1>8. \A i \in DOMAIN saved : e(saved[i]).st = "freed" /\ e(saved[i]).f = saved[i].f
  BY <1>1, <1>2, Zenon
<1>9. \A i \in DOMAIN saved : i \in I => Dropped(I)[i].st = "freed" /\ Dropped(I)[i].f = saved[i].f
  BY <1>4, <1>8, Zenon
<1> QED
  BY <1>4, <1>7, <1>9, Zenon

LEMMA NewEntryType ==
  ASSUME IInv, LineInv
  PROVE  /\ NewEntry \in EntryType(text, sen) /\ \A q \in NewEntry.f : q \in Nat /\ q >= 1 /\ q < pos
         /\ NewEntry.st = "kept" /\ NewEntry.sen = sen /\ NewEntry.f = FeaturesOf(slot, Used)
<1>1. text \in Texts /\ pos \in 1 .. (Len(text) + 1) /\ sen \in Nat /\ Mrph_num \in 0 .. MRPH_MAX
  BY DEF IInv, TextInv, CountInv
<1>2. \A i \in Slots : slot[i] \in SlotType /\ \A q \in slot[i].f : q >= 1 /\ q < pos
  BY Zenon DEF LineInv, LinesKnown, Known
<1>3. \A i \in Used : i \in Slots
  BY <1>1, SlotBounds DEF Used
<1>4. \A q \in FeaturesOf(slot, Used) : q \in Nat /\ q >= 1 /\ q < pos
  BY <1>2, <1>3 DEF FeaturesOf, SlotType
<1>5. FeaturesOf(slot, Used) \in SUBSET (1 .. Len(text))
  BY <1>1, <1>4, TextFacts
<1>6. /\ NewEntry.f = FeaturesOf(slot, Used) /\ NewEntry.st = "kept" /\ NewEntry.sen = sen
      /\ DOMAIN NewEntry = {"sen", "f", "st"}
  BY DEF NewEntry
<1>7. NewEntry \in EntryType(text, sen)
  <2>1. sen \in 0 .. sen
    BY <1>1
  <2> QED
    BY <1>5, <2>1, Zenon DEF NewEntry, EntryType
<1> QED
  BY <1>4, <1>6, <1>7, Zenon

LEMMA StepSaved == IInv /\ LineInv /\ EntityInv /\ SavedInv /\ [Next]_vars => SavedInv'
<1>1. SUFFICES ASSUME IInv, LineInv, EntityInv, SavedInv, [Next]_vars
               PROVE  SavedInv'
  OBVIOUS
<1>2. text' = text
  <2>1. CASE UNCHANGED vars
    BY <2>1 DEF vars
  <2>2. CASE Next
    BY <2>2 DEF Next, Start, Comment, BnstLine, TagLine, Morpheme, Invalid, Skip, EndOfSentence,
                Preprocess, Analyse, NextParen, Finish
  <2> QED
    BY <1>1, <2>1, <2>2
<1>3. sen' = sen \/ sen' = sen + 1
  <2>1. CASE UNCHANGED vars
    BY <2>1 DEF vars
  <2>2. CASE Next
    BY <2>2 DEF Next, Start, Comment, BnstLine, TagLine, Morpheme, Invalid, Skip, EndOfSentence,
                Preprocess, Analyse, NextParen, Finish
  <2> QED
    BY <1>1, <2>1, <2>2
<1>4. EntryType(text, sen) \subseteq EntryType(text, sen')
  BY <1>1, <1>3 DEF EntryType, IInv, TextInv
<1> DEFINE K == 0 .. (SENTENCE_MAX - 1)
<1>5. saved \in [K -> EntryType(text, sen)]
  BY <1>1 DEF SavedInv
<1>6. saved' \in [K -> EntryType(text, sen)]
  <2>1. CASE saved' = saved
    BY <1>5, <2>1
  <2>2. CASE ClearSaved(Kept)
    BY <1>1, <2>2, DroppedType, Zenon DEF ClearSaved
  <2>3. CASE Analyse
    <3>1. NewEntry \in EntryType(text, sen)
      BY <1>1, NewEntryType, Zenon
    <3>2. \A g \in [K -> EntryType(text, sen)] : \A k : [g EXCEPT ![k] = NewEntry] \in [K -> EntryType(text, sen)]
      BY <3>1, Zenon
    <3>3. Dropped(Kept) \in [K -> EntryType(text, sen)]
      BY <1>1, DroppedType, Zenon
    <3>4. Sen_num \in Nat
      BY <1>1 DEF EntityInv
    <3>5. \/ saved' = saved \/ saved' = [saved EXCEPT ![Sen_num - 1] = NewEntry]
          \/ saved' = [Dropped(Kept) EXCEPT ![0] = NewEntry]
      BY <2>3, <3>4, AnalyseContext
    <3> QED
      BY <1>5, <3>2, <3>3, <3>5, ZenonT(30)
  <2> QED
    BY <1>1, <2>1, <2>2, <2>3, CommentContext, OtherContext, Zenon
<1> HIDE DEF K
<1>7. saved' \in [K -> EntryType(text, sen')]
  BY <1>4, <1>6
<1> QED
  BY <1>2, <1>7, Zenon DEF SavedInv, K
-----------------------------------------------------------------------------
(* The features of the sentences kept                                      *)

\* The feature lists of the slots and of the parentheses, and those of the slots
\* behind the ones in use.
PartLists(ps) == UNION {{ps[k][j].f : j \in DOMAIN ps[k]} : k \in 1 .. Len(ps)}
HeldIn(s, ps) == {s[i].f : i \in Slots} \cup PartLists(ps)
LooseIn(s, m, ps) == {s[i].f : i \in {j \in Slots : j >= m}} \cup PartLists(ps)

\* What is kept in sv is not freed, each line in one sentence; nor is it in the
\* lists of G.  The lists of H are not freed.
Keeps(p, sv, fr, H, G) ==
  /\ \A i \in DOMAIN sv :
       /\ sv[i].st = "kept" =>
            /\ \A q \in sv[i].f : q >= 1 /\ q < p
            /\ sv[i].f \cap fr = {} /\ \A g \in G : sv[i].f \cap g = {}
       /\ sv[i].st = "freed" => sv[i].f \subseteq fr
       /\ sv[i].st = "none" => sv[i].f = {}
  /\ \A i, j \in DOMAIN sv : i # j /\ sv[i].st = "kept" /\ sv[j].st = "kept" => sv[i].f \cap sv[j].f = {}
  /\ \A h \in H : h \cap fr = {}
  /\ \A q \in fr : q >= 1 /\ q < p

\* After the analysis, until the links are cut, the slots in use share their
\* features with the sentence just kept.
Busy == pc \in {"ready", "next"}
Loose == IF Busy THEN LooseIn(slot, Mrph_num, parens) ELSE HeldIn(slot, parens)

KeepInv ==
  IF Ellipsis THEN freed \subseteq Nat /\ Keeps(pos, saved, freed, HeldIn(slot, parens), Loose)
  ELSE \A i \in DOMAIN saved : saved[i].st # "kept"

\* More lines are freed, in none of the lists left, or a line is read, or neither.
LEMMA KeepsFreed ==
  ASSUME NEW p \in Nat, NEW sv, NEW fr \in SUBSET Nat, NEW H, NEW G, Keeps(p, sv, fr, H, G),
         \A i \in DOMAIN sv : sv[i].f \in SUBSET Nat,
         NEW H2, \A h \in H2 : h = {} \/ h \in H,
         NEW G2, \A g \in G2 : g = {} \/ g \in G,
         NEW F, \A q \in F : q >= 1 /\ q < p /\ \E g \in G : q \in g,
         \A h \in H2 : h \cap F = {}
  PROVE  Keeps(p, sv, fr \cup F, H2, G2)
<1>1. \A i \in DOMAIN sv : sv[i].st = "kept" =>
        /\ \A q \in sv[i].f : q >= 1 /\ q < p
        /\ sv[i].f \cap (fr \cup F) = {} /\ \A g \in G2 : sv[i].f \cap g = {}
  <2> SUFFICES ASSUME NEW i \in DOMAIN sv, sv[i].st = "kept"
               PROVE  /\ \A q \in sv[i].f : q >= 1 /\ q < p
                      /\ sv[i].f \cap (fr \cup F) = {} /\ \A g \in G2 : sv[i].f \cap g = {}
    OBVIOUS
  <2>1. /\ \A q \in sv[i].f : q >= 1 /\ q < p
        /\ sv[i].f \cap fr = {} /\ \A g \in G : sv[i].f \cap g = {}
    BY Zenon DEF Keeps
  <2>2. \A g \in G2 : sv[i].f \cap g = {}
    BY <2>1
  <2>3. sv[i].f \cap F = {}
    BY <2>1
  <2> QED
    BY <2>1, <2>2, <2>3
<1>2. \A i \in DOMAIN sv : /\ sv[i].st = "freed" => sv[i].f \subseteq fr \cup F
                           /\ sv[i].st = "none" => sv[i].f = {}
  BY Zenon DEF Keeps
<1>3. \A i, j \in DOMAIN sv : i # j /\ sv[i].st = "kept" /\ sv[j].st = "kept" => sv[i].f \cap sv[j].f = {}
  BY Zenon DEF Keeps
<1>4. \A h \in H2 : h \cap (fr \cup F) = {}
  <2>1. \A h \in H : h \cap fr = {}
    BY Zenon DEF Keeps
  <2> QED
    BY <2>1
<1>5. \A q \in fr \cup F : q >= 1 /\ q < p
  <2>1. \A q \in fr : q >= 1 /\ q < p
    BY Zenon DEF Keeps
  <2> QED
    BY <2>1, Zenon
<1> QED
  BY <1>1, <1>2, <1>3, <1>4, <1>5, Zenon DEF Keeps

LEMMA KeepsLess ==
  ASSUME NEW p \in Nat, NEW sv, NEW fr \in SUBSET Nat, NEW H, NEW G, Keeps(p, sv, fr, H, G),
         \A i \in DOMAIN sv : sv[i].f \in SUBSET Nat,
         NEW H2, \A h \in H2 : h = {} \/ h \in H,
         NEW G2, \A g \in G2 : g = {} \/ g \in G
  PROVE  Keeps(p, sv, fr, H2, G2)
<1>1. Keeps(p, sv, fr \cup {}, H2, G2)
  BY KeepsFreed
<1>2. fr \cup {} = fr
  OBVIOUS
<1> QED
  BY <1>1, <1>2, Zenon

LEMMA KeepsLater ==
  ASSUME NEW p \in Nat, NEW sv, NEW fr \in SUBSET Nat, NEW H, NEW G, Keeps(p, sv, fr, H, G),
         \A i \in DOMAIN sv : sv[i].f \in SUBSET Nat,
         NEW H2, \A h \in H2 : \E g \in H : h \subseteq g \cup {p},
         NEW G2, \A h \in G2 : \E g \in G : h \subseteq g \cup {p}
  PROVE  Keeps(p + 1, sv, fr, H2, G2)
<1>1. \A i \in DOMAIN sv : sv[i].st = "kept" =>
        /\ \A q \in sv[i].f : q >= 1 /\ q < p + 1
        /\ sv[i].f \cap fr = {} /\ \A g \in G2 : sv[i].f \cap g = {}
  <2> SUFFICES ASSUME NEW i \in DOMAIN sv, sv[i].st = "kept"
               PROVE  /\ \A q \in sv[i].f : q >= 1 /\ q < p + 1
                      /\ sv[i].f \cap fr = {} /\ \A g \in G2 : sv[i].f \cap g = {}
    OBVIOUS
  <2>1. /\ \A q \in sv[i].f : q >= 1 /\ q < p
        /\ sv[i].f \cap fr = {} /\ \A g \in G : sv[i].f \cap g = {}
    BY Zenon DEF Keeps
  <2>2. sv[i].f \in SUBSET Nat
    OBVIOUS
  <2>3. p \notin sv[i].f /\ \A q \in sv[i].f : q < p + 1
    BY <2>1, <2>2
  <2>4. \A g \in G2 : sv[i].f \cap g = {}
    BY <2>1, <2>3
  <2> QED
    BY <2>1, <2>3, <2>4
<1>2. \A i \in DOMAIN sv : /\ sv[i].st = "freed" => sv[i].f \subseteq fr
                           /\ sv[i].st = "none" => sv[i].f = {}
  BY Zenon DEF Keeps
<1>3. \A i, j \in DOMAIN sv : i # j /\ sv[i].st = "kept" /\ sv[j].st = "kept" => sv[i].f \cap sv[j].f = {}
  BY Zenon DEF Keeps
<1>4. \A q \in fr : q >= 1 /\ q < p
  BY Zenon DEF Keeps
<1>5. p \notin fr /\ \A q \in fr : q < p + 1
  BY <1>4
<1>6. \A h \in H2 : h \cap fr = {}
  <2>1. \A h \in H : h \cap fr = {}
    BY Zenon DEF Keeps
  <2> QED
    BY <1>5, <2>1
<1> QED
  BY <1>1, <1>2, <1>3, <1>4, <1>5, <1>6, Zenon DEF Keeps

\* The lines whose features ClearSentences frees were in a sentence kept, if they
\* had not been freed before.
LEMMA FreedWithKept ==
  ASSUME SavedInv, NEW p, NEW fr, NEW H, NEW G, Keeps(p, saved, fr, H, G), NEW I,
         NEW q \in UNION {Entry(i).f : i \in I}
  PROVE  q \in fr \/ \E i \in DOMAIN saved : i \in I /\ saved[i].st = "kept" /\ q \in saved[i].f
<1>1. PICK i \in I : q \in Entry(i).f
  OBVIOUS
<1>2. i \in DOMAIN saved /\ q \in saved[i].f
  BY <1>1 DEF Entry, NoSentence
<1>3. saved[i].st \in {"none", "kept", "freed"}
  BY <1>2, Zenon DEF SavedInv, EntryType
<1>4. /\ saved[i].st = "freed" => saved[i].f \subseteq fr
      /\ saved[i].st = "none" => saved[i].f = {}
  BY <1>2, Zenon DEF Keeps
<1> QED
  BY <1>2, <1>3, <1>4

LEMMA KeepsDropped ==
  ASSUME SavedInv, NEW p, NEW fr, NEW H, Keeps(p, saved, fr, H, H), NEW I
  PROVE  Keeps(p, Dropped(I), fr \cup UNION {Entry(i).f : i \in I}, H, H)
<1> DEFINE F == UNION {Entry(i).f : i \in I}
           d == Dropped(I)
<1>1. \A q \in F : q \in fr \/ \E i \in DOMAIN saved : i \in I /\ saved[i].st = "kept" /\ q \in saved[i].f
  BY FreedWithKept, Zenon
<1>2. /\ \A i \in DOMAIN saved : i \in I => d[i].st = "freed" /\ d[i].f = saved[i].f
      /\ \A i \in DOMAIN saved : i \notin I => d[i] = saved[i]
      /\ DOMAIN d = DOMAIN saved
  BY DroppedType, Zenon DEF SavedInv
<1>3. \A i \in DOMAIN saved : i \in I => saved[i].f \subseteq F
  BY DEF Entry
<1> HIDE DEF F, d
<1>4. \A i, j \in DOMAIN saved : i # j /\ saved[i].st = "kept" /\ saved[j].st = "kept" => saved[i].f \cap saved[j].f = {}
  BY Zenon DEF Keeps
<1>5. \A h \in H : h \cap (fr \cup F) = {}
  <2>1. \A h \in H : h \cap fr = {} /\ \A i \in DOMAIN saved : saved[i].st = "kept" => saved[i].f \cap h = {}
    BY Zenon DEF Keeps
  <2> QED
    BY <1>1, <2>1
<1>6. \A q \in fr \cup F : q >= 1 /\ q < p
  <2>1. \A q \in fr : q >= 1 /\ q < p
    BY Zenon DEF Keeps
  <2>2. \A i \in DOMAIN saved : saved[i].st = "kept" => \A q \in saved[i].f : q >= 1 /\ q < p
    BY Zenon DEF Keeps
  <2> QED
    BY <1>1, <2>1, <2>2, Zenon
<1>7. ASSUME NEW i \in DOMAIN saved
      PROVE  /\ d[i].st = "kept" => i \notin I /\ saved[i].st = "kept" /\ d[i].f = saved[i].f
             /\ d[i].st = "freed" => d[i].f \subseteq fr \cup F
             /\ d[i].st = "none" => d[i].f = {}
  <2>1. CASE i \in I
    BY <1>2, <1>3, <2>1
  <2>2. CASE i \notin I
    <3>1. d[i] = saved[i]
      BY <1>2, <2>2, Zenon
    <3>2. /\ saved[i].st = "freed" => saved[i].f \subseteq fr
          /\ saved[i].st = "none" => saved[i].f = {}
      BY Zenon DEF Keeps
    <3> QED
      BY <2>2, <3>1, <3>2
  <2> QED
    BY <2>1, <2>2
<1>8. ASSUME NEW i \in DOMAIN saved, d[i].st = "kept"
      PROVE  /\ \A q \in d[i].f : q >= 1 /\ q < p
             /\ d[i].f \cap (fr \cup F) = {} /\ \A g \in H : d[i].f \cap g = {}
  <2>1. i \notin I /\ saved[i].st = "kept" /\ d[i].f = saved[i].f
    BY <1>7, <1>8, Zenon
  <2>2. /\ \A q \in saved[i].f : q >= 1 /\ q < p
        /\ saved[i].f \cap fr = {} /\ \A g \in H : saved[i].f \cap g = {}
    BY <2>1, Zenon DEF Keeps
  <2>3. saved[i].f \cap F = {}
    BY <1>1, <1>4, <2>1, <2>2
  <2>4. saved[i].f \cap (fr \cup F) = {}
    BY <2>2, <2>3
  <2> QED
    BY <2>1, <2>2, <2>4, Zenon
<1>9. \A i, j \in DOMAIN saved : i # j /\ d[i].st = "kept" /\ d[j].st = "kept" => d[i].f \cap d[j].f = {}
  BY <1>4, <1>7, Zenon
<1> QED
  BY <1>2, <1>5, <1>6, <1>7, <1>8, <1>9, Zenon DEF Keeps, F, d

\* A sentence whose features are those of lists in H is kept, in place of another.
LEMMA KeepsStored ==
  ASSUME NEW p \in Nat, NEW sv, NEW fr, NEW H, Keeps(p, sv, fr, H, H), NEW k, NEW e,
         e.st = "kept", \A q \in e.f : q >= 1 /\ q < p /\ \E h \in H : q \in h,
         NEW G, \A g \in G : g \in H /\ g \cap e.f = {}
  PROVE  Keeps(p, [sv EXCEPT ![k] = e], fr, H, G)
<1> DEFINE d == [sv EXCEPT ![k] = e]
<1>1. DOMAIN d = DOMAIN sv /\ \A i \in DOMAIN sv : (i = k => d[i] = e) /\ (i # k => d[i] = sv[i])
  OBVIOUS
<1> HIDE DEF d
<1>2. \A h \in H : h \cap fr = {} /\ \A i \in DOMAIN sv : sv[i].st = "kept" => sv[i].f \cap h = {}
  BY Zenon DEF Keeps
<1>3. e.f \cap fr = {} /\ \A i \in DOMAIN sv : sv[i].st = "kept" => sv[i].f \cap e.f = {}
  BY <1>2
<1>4. ASSUME NEW i \in DOMAIN sv, d[i].st = "kept"
      PROVE  /\ \A q \in d[i].f : q >= 1 /\ q < p
             /\ d[i].f \cap fr = {} /\ \A g \in G : d[i].f \cap g = {}
  <2>1. CASE i = k
    BY <1>1, <1>3, <2>1
  <2>2. CASE i # k
    <3>1. d[i] = sv[i]
      BY <1>1, <2>2, Zenon
    <3>2. /\ \A q \in sv[i].f : q >= 1 /\ q < p
          /\ sv[i].f \cap fr = {} /\ \A g \in H : sv[i].f \cap g = {}
      BY <1>4, <3>1, Zenon DEF Keeps
    <3> QED
      BY <3>1, <3>2
  <2> QED
    BY <2>1, <2>2
<1>5. ASSUME NEW i \in DOMAIN sv
      PROVE  /\ d[i].st = "freed" => d[i].f \subseteq fr
             /\ d[i].st = "none" => d[i].f = {}
  <2>1. /\ sv[i].st = "freed" => sv[i].f \subseteq fr
        /\ sv[i].st = "none" => sv[i].f = {}
    BY Zenon DEF Keeps
  <2> QED
    BY <1>1, <2>1
<1>6. ASSUME NEW i \in DOMAIN sv, NEW j \in DOMAIN sv, i # j, d[i].st = "kept", d[j].st = "kept"
      PROVE  d[i].f \cap d[j].f = {}
  <2>1. CASE i = k
    BY <1>1, <1>3, <1>6, <2>1
  <2>2. CASE j = k
    BY <1>1, <1>3, <1>6, <2>2
  <2>3. CASE i # k /\ j # k
    <3>1. d[i] = sv[i] /\ d[j] = sv[j]
      BY <1>1, <2>3, Zenon
    <3> QED
      BY <1>6, <3>1, Zenon DEF Keeps
  <2> QED
    BY <2>1, <2>2, <2>3
<1>7. \A q \in fr : q >= 1 /\ q < p
  BY Zenon DEF Keeps
<1>8. \A h \in H : h \cap fr = {}
  BY <1>2, Zenon
<1> QED
  BY <1>1, <1>4, <1>5, <1>6, <1>7, <1>8, Zenon DEF Keeps, d

LEMMA KeepFacts ==
  ASSUME IInv, SavedInv, KeepInv, Ellipsis
  PROVE  /\ pos \in Nat /\ freed \in SUBSET Nat /\ \A i \in DOMAIN saved : saved[i].f \in SUBSET Nat
         /\ Keeps(pos, saved, freed, HeldIn(slot, parens), Loose)
         /\ ~ Busy => Loose = HeldIn(slot, parens)
<1>1. pos \in Nat /\ text \in Texts
  BY DEF IInv, TextInv
<1>2. freed \in SUBSET Nat /\ Keeps(pos, saved, freed, HeldIn(slot, parens), Loose)
  BY Zenon DEF KeepInv
<1>3. ~ Busy => Loose = HeldIn(slot, parens)
  BY Zenon DEF Loose
<1>4. \A i \in DOMAIN saved : saved[i].f \in SUBSET (1 .. Len(text))
  BY Zenon DEF SavedInv, EntryType
<1>5. \A i \in DOMAIN saved : saved[i].f \in SUBSET Nat
  BY <1>1, <1>4, TextFacts
<1> QED
  BY <1>1, <1>2, <1>3, <1>5, Zenon

\* The lists of the slots behind some are lists of slots.
LEMMA LooseHeld ==
  ASSUME NEW s, NEW m, NEW ps
  PROVE  \A g \in LooseIn(s, m, ps) : g \in HeldIn(s, ps)
BY Zenon DEF LooseIn, HeldIn

LEMMA LooseOrHeld ==
  \A g \in Loose : g \in HeldIn(slot, parens)
BY LooseHeld, Zenon DEF Loose

LEMMA LaterKept ==
  ASSUME IInv, SavedInv, KeepInv, Ellipsis, NEW p \in {pos, pos + 1}
  PROVE  Keeps(p, saved, freed, HeldIn(slot, parens), Loose)
<1> DEFINE H == HeldIn(slot, parens)
           G == Loose
<1>1. /\ pos \in Nat /\ freed \in SUBSET Nat /\ \A i \in DOMAIN saved : saved[i].f \in SUBSET Nat
      /\ Keeps(pos, saved, freed, H, G)
  BY KeepFacts, Zenon
<1> HIDE DEF H, G
<1>2. /\ \A h \in H : \E g \in H : h \subseteq g \cup {pos}
      /\ \A h \in G : \E g \in G : h \subseteq g \cup {pos}
  BY Zenon
<1>3. Keeps(pos + 1, saved, freed, H, G)
  BY <1>1, <1>2, KeepsLater, Zenon
<1> QED
  BY <1>1, <1>3, Zenon DEF H, G

\* No list comes in but the empty one.
LEMMA LessKept ==
  ASSUME IInv, SavedInv, KeepInv, Ellipsis, pos' \in {pos, pos + 1}, UNCHANGED <<opt, saved, freed>>,
         \A h \in HeldIn(slot', parens') : h = {} \/ h \in HeldIn(slot, parens),
         \A g \in Loose' : g = {} \/ g \in Loose
  PROVE  KeepInv'
<1>1. /\ pos \in Nat /\ freed \in SUBSET Nat /\ \A i \in DOMAIN saved : saved[i].f \in SUBSET Nat
  BY KeepFacts, Zenon
<1>2. Keeps(pos', saved, freed, HeldIn(slot, parens), Loose)
  BY LaterKept, Zenon
<1>3. pos' \in Nat
  BY <1>1
<1>4. Keeps(pos', saved, freed, HeldIn(slot', parens'), Loose')
  BY <1>1, <1>2, <1>3, KeepsLess, Zenon
<1>5. Ellipsis'
  BY DEF Ellipsis
<1>6. UNCHANGED <<saved, freed>>
  OBVIOUS
<1> QED
  BY <1>1, <1>4, <1>5, <1>6, Zenon DEF KeepInv

LEMMA SameKept ==
  ASSUME IInv, SavedInv, KeepInv, Ellipsis, pos' \in {pos, pos + 1},
         UNCHANGED <<opt, saved, freed, slot, parens>>,
         ~ Busy \/ (UNCHANGED Mrph_num /\ (Busy' <=> Busy))
  PROVE  KeepInv'
<1>1. slot' = slot /\ parens' = parens
  OBVIOUS
<1>2. \A h \in HeldIn(slot', parens') : h = {} \/ h \in HeldIn(slot, parens)
  BY <1>1, Zenon
<1>3. \A g \in Loose' : g = {} \/ g \in Loose
  <2>1. CASE ~ Busy
    <3>1. \A g \in Loose' : g \in HeldIn(slot', parens')
      BY LooseHeld, Zenon DEF Loose
    <3>2. Loose = HeldIn(slot, parens)
      BY <2>1, Zenon DEF Loose
    <3> QED
      BY <1>1, <3>1, <3>2, Zenon
  <2>2. CASE UNCHANGED Mrph_num /\ (Busy' <=> Busy)
    <3>1. Loose' = Loose
      BY <1>1, <2>2, Zenon DEF Loose
    <3> QED
      BY <3>1
  <2> QED
    BY <2>1, <2>2
<1> QED
  BY <1>2, <1>3, LessKept

LEMMA EmptyKept ==
  ASSUME IInv, SavedInv, KeepInv, Ellipsis, pos' \in {pos, pos + 1}, UNCHANGED <<opt, saved, freed>>,
         slot' = Emptied(slot, Used), parens = <<>>, parens' = <<>>
  PROVE  KeepInv'
<1>1. /\ slot \in [Slots -> SlotType] /\ Mrph_num \in 0 .. MRPH_MAX
  BY DEF IInv, SlotInv, CountInv
<1>2. /\ \A i \in Slots : i >= Mrph_num => slot'[i] = slot[i]
      /\ \A i \in Slots : i < Mrph_num => slot'[i].f = {}
  BY <1>1, EmptiedStays, Zenon DEF Used
<1>3. \A i \in Slots : i >= Mrph_num \/ i < Mrph_num
  BY <1>1, SlotBounds
<1>4. \A ps : ps = <<>> => PartLists(ps) = {}
  BY DEF PartLists
<1>5. PartLists(parens') = {}
  BY <1>4, Zenon
<1>6. \A h \in HeldIn(slot', parens') : h = {} \/ h \in LooseIn(slot, Mrph_num, parens)
  <2> SUFFICES ASSUME NEW h \in HeldIn(slot', parens') PROVE h = {} \/ h \in LooseIn(slot, Mrph_num, parens)
    OBVIOUS
  <2>1. PICK i \in Slots : h = slot'[i].f
    BY <1>5, Zenon DEF HeldIn
  <2>2. CASE i < Mrph_num
    BY <1>2, <2>1, <2>2, Zenon
  <2>3. CASE i >= Mrph_num
    <3>1. h = slot[i].f
      BY <1>2, <2>1, <2>3, Zenon
    <3> QED
      BY <2>3, <3>1, Zenon DEF LooseIn
  <2> QED
    BY <1>3, <2>2, <2>3, Zenon
<1>7. \A g \in LooseIn(slot, Mrph_num, parens) : g \in Loose /\ g \in HeldIn(slot, parens)
  BY LooseHeld, Zenon DEF Loose
<1>8. \A g \in Loose' : g \in HeldIn(slot', parens')
  BY LooseHeld, Zenon DEF Loose
<1>9. \A h \in HeldIn(slot', parens') : h = {} \/ h \in HeldIn(slot, parens)
  BY <1>6, <1>7, Zenon
<1>10. \A g \in Loose' : g = {} \/ g \in Loose
  BY <1>6, <1>7, <1>8, Zenon
<1> QED
  BY <1>9, <1>10, LessKept

\* Behind the slots in use nothing is reduced.
LEMMA ReducedBehind ==
  ASSUME Mrph_num \in Nat, homo_num \in Nat, homo_num < Mrph_num,
         NEW pref \in 0 .. homo_num, NEW i \in Slots, i >= Mrph_num
  PROVE  Reduced(pref)[i] = slot[i]
<1> DEFINE base == Mrph_num - homo_num - 1
           e == Emptied(slot, base .. (Mrph_num - 1))
<1>1. i # base /\ i \notin base .. (Mrph_num - 1)
  BY SlotBounds
<1>2. Reduced(pref) = [e EXCEPT ![base] = slot[base + pref]]
  BY Zenon DEF Reduced
<1>3. e[i] = slot[i]
  BY <1>1, Zenon DEF Emptied
<1>4. DOMAIN e = Slots
  BY Zenon DEF Emptied
<1> HIDE DEF e, base
<1>5. Reduced(pref)[i] = e[i]
  BY <1>1, <1>2, <1>4
<1> QED
  BY <1>3, <1>5

\* The readings of a morpheme, reduced or not: the features freed are in no list left.
LEMMA ReadingsKept ==
  ASSUME IInv, LineInv, SavedInv, KeepInv, Ellipsis, pc = "read", NEW pref \in 0 .. homo_num,
         NEW s, s = slot \/ (homo_num > 0 /\ s = Reduced(pref)),
         NEW F, F = FeaturesOf(slot, Used) \ FeaturesOf(s, Used)
  PROVE  Keeps(pos, saved, freed \cup F, HeldIn(s, parens), HeldIn(s, parens)) /\ F \in SUBSET Nat
<1>1. /\ slot \in [Slots -> SlotType] /\ Mrph_num \in 0 .. MRPH_MAX /\ homo_num \in Nat
      /\ homo_num = 0 \/ homo_num < Mrph_num
      /\ parens = <<>>
  BY DEF IInv, SlotInv, CountInv
<1>2. Mrph_num \in Nat /\ \A i \in Slots : (i < Mrph_num <=> i \in Used) /\ (i < Mrph_num \/ i >= Mrph_num)
  BY <1>1, SlotBounds DEF Used
<1>3. /\ pos \in Nat /\ freed \in SUBSET Nat /\ \A i \in DOMAIN saved : saved[i].f \in SUBSET Nat
      /\ Keeps(pos, saved, freed, HeldIn(slot, parens), HeldIn(slot, parens))
  <2>1. ~ Busy
    BY DEF Busy
  <2> QED
    BY <2>1, KeepFacts, Zenon
<1>4. /\ \A i, j \in Slots : i # j => slot[i].f \cap slot[j].f = {}
      /\ \A i \in Slots : slot[i] \in SlotType /\ \A q \in slot[i].f : q >= 1 /\ q < pos
  BY Zenon DEF LineInv, LinesKnown, Apart, Known
<1>5. \A i \in Slots : s[i].f = {} \/ \E a \in Slots : s[i].f = slot[a].f
  <2>1. CASE s = slot
    BY <2>1, Zenon
  <2>2. CASE homo_num > 0 /\ s = Reduced(pref)
    <3>1. Moved(slot, Mrph_num, s, Mrph_num - homo_num) /\ Mrph_num - homo_num \in 0 .. MRPH_MAX
      BY <2>2, ReadingsReduced, Zenon
    <3>2. Mrph_num - homo_num \in Nat
      BY <3>1, SlotBounds
    <3>3. \A i \in Slots : \E a \in Slots : s[i].id = slot[a].id /\ (s[i].f = {} \/ s[i].f = slot[a].f)
      <4> DEFINE m2 == Mrph_num - homo_num
      <4>1. slot \in [Slots -> SlotType] /\ m2 \in Nat /\ Moved(slot, Mrph_num, s, m2)
        BY <1>1, <3>1, <3>2
      <4> HIDE DEF m2
      <4> QED
        BY <4>1, MovedStays
    <3> QED
      BY <3>3, Zenon
  <2> QED
    BY <2>1, <2>2
<1>6. \A i \in Slots : i >= Mrph_num => s[i] = slot[i]
  <2>1. homo_num > 0 => homo_num < Mrph_num
    BY <1>1
  <2> QED
    BY <1>1, <1>2, <2>1, ReducedBehind, Zenon
<1>7. \A q \in F : /\ \E a \in Slots : a < Mrph_num /\ q \in slot[a].f
                   /\ \A i \in Slots : i < Mrph_num => q \notin s[i].f
  BY <1>1, <1>2, SlotBounds DEF FeaturesOf, Used
<1>8. \A i \in Slots : s[i].f \cap F = {}
  <2> SUFFICES ASSUME NEW i \in Slots, NEW q \in F, q \in s[i].f PROVE FALSE
    OBVIOUS
  <2>1. i >= Mrph_num
    BY <1>2, <1>7, Zenon
  <2>2. q \in slot[i].f
    BY <1>6, <2>1, Zenon
  <2>3. PICK a \in Slots : a < Mrph_num /\ q \in slot[a].f
    BY <1>7, Zenon
  <2>4. a # i
    BY <1>2, <2>1, <2>3, SlotBounds
  <2> QED
    BY <1>4, <2>2, <2>3, <2>4
<1>9. \A q \in F : q \in Nat /\ q >= 1 /\ q < pos /\ \E g \in HeldIn(slot, parens) : q \in g
  <2> SUFFICES ASSUME NEW q \in F
               PROVE  q \in Nat /\ q >= 1 /\ q < pos /\ \E g \in HeldIn(slot, parens) : q \in g
    OBVIOUS
  <2>1. PICK a \in Slots : q \in slot[a].f
    BY <1>7, Zenon
  <2>2. slot[a].f \in HeldIn(slot, parens)
    BY <2>1, Zenon DEF HeldIn
  <2>3. slot[a].f \in SUBSET Nat
    BY <1>4 DEF SlotType
  <2> QED
    BY <1>4, <2>1, <2>2, <2>3
<1>10. PartLists(parens) = {}
  <2>1. \A ps : ps = <<>> => PartLists(ps) = {}
    BY DEF PartLists
  <2> QED
    BY <1>1, <2>1, Zenon
<1>11. \A h \in HeldIn(s, parens) : \E i \in Slots : h = s[i].f
  BY <1>10, Zenon DEF HeldIn
<1>12. \A h \in HeldIn(s, parens) : (h = {} \/ h \in HeldIn(slot, parens)) /\ h \cap F = {}
  <2>1. \A a \in Slots : slot[a].f \in HeldIn(slot, parens)
    BY Zenon DEF HeldIn
  <2> TAKE h \in HeldIn(s, parens)
  <2>2. PICK i \in Slots : h = s[i].f
    BY <1>11, Zenon
  <2>3. h \cap F = {}
    BY <1>8, <2>2, Zenon
  <2>4. s[i].f = {} \/ \E a \in Slots : s[i].f = slot[a].f
    BY <1>5, <2>2, Zenon
  <2>5. h = {} \/ h \in HeldIn(slot, parens)
    BY <2>1, <2>2, <2>4, Zenon
  <2> QED
    BY <2>3, <2>5, Zenon
<1>13. Keeps(pos, saved, freed \cup F, HeldIn(s, parens), HeldIn(s, parens))
  <2> DEFINE H == HeldIn(slot, parens)
             H2 == HeldIn(s, parens)
  <2>1. /\ \A h \in H2 : h = {} \/ h \in H
        /\ \A h \in H2 : h \cap F = {}
        /\ \A q \in F : q >= 1 /\ q < pos /\ \E g \in H : q \in g
    BY <1>9, <1>12, Zenon
  <2>2. Keeps(pos, saved, freed, H, H)
    BY <1>3, Zenon
  <2> HIDE DEF H, H2
  <2>3. Keeps(pos, saved, freed \cup F, H2, H2)
    BY <1>3, <2>1, <2>2, KeepsFreed
  <2> QED
    BY <2>3, Zenon DEF H2
<1> QED
  BY <1>9, <1>13, Zenon

LEMMA ReadKept ==
  ASSUME IInv, LineInv, SavedInv, KeepInv, Ellipsis, pc = "read", NEW pref \in 0 .. homo_num,
         NEW s, s = slot \/ (homo_num > 0 /\ s = Reduced(pref)),
         UNCHANGED <<opt, saved, parens>>, pos' = pos + 1, ~ Busy',
         freed' = freed \cup (FeaturesOf(slot, Used) \ FeaturesOf(s, Used)),
         \A i \in Slots : \E j \in Slots : slot'[i].f \subseteq s[j].f \cup {pos}
  PROVE  KeepInv'
<1>1. pos \in Nat /\ freed \in SUBSET Nat /\ \A i \in DOMAIN saved : saved[i].f \in SUBSET Nat
  BY KeepFacts, Zenon
<1>2. Keeps(pos, saved, freed', HeldIn(s, parens), HeldIn(s, parens)) /\ freed' \in SUBSET Nat
  <2> DEFINE F == FeaturesOf(slot, Used) \ FeaturesOf(s, Used)
  <2>1. Keeps(pos, saved, freed \cup F, HeldIn(s, parens), HeldIn(s, parens)) /\ F \in SUBSET Nat
    BY ReadingsKept, Zenon
  <2>2. freed' = freed \cup F
    OBVIOUS
  <2> HIDE DEF F
  <2>3. freed' \in SUBSET Nat
    BY <1>1, <2>1, <2>2
  <2> QED
    BY <2>1, <2>2, <2>3, Zenon
<1>3. PartLists(parens) = {} /\ PartLists(parens') = {}
  <2>1. \A ps : ps = <<>> => PartLists(ps) = {}
    BY DEF PartLists
  <2>2. parens = <<>> /\ parens' = <<>>
    BY DEF IInv, SlotInv
  <2> QED
    BY <2>1, <2>2, Zenon
<1>4. \A h \in HeldIn(slot', parens') : \E g \in HeldIn(s, parens) : h \subseteq g \cup {pos}
  <2> SUFFICES ASSUME NEW h \in HeldIn(slot', parens') PROVE \E g \in HeldIn(s, parens) : h \subseteq g \cup {pos}
    OBVIOUS
  <2>1. PICK i \in Slots : h = slot'[i].f
    BY <1>3, Zenon DEF HeldIn
  <2>2. PICK j \in Slots : slot'[i].f \subseteq s[j].f \cup {pos}
    OBVIOUS
  <2>3. s[j].f \in HeldIn(s, parens)
    BY Zenon DEF HeldIn
  <2> QED
    BY <2>1, <2>2, <2>3, Zenon
<1>5. Loose' = HeldIn(slot', parens')
  BY Zenon DEF Loose
<1>6. Keeps(pos + 1, saved, freed', HeldIn(slot', parens'), HeldIn(slot', parens'))
  <2> DEFINE H == HeldIn(s, parens)
             H2 == HeldIn(slot', parens')
             fr == freed'
  <2>1. Keeps(pos, saved, fr, H, H) /\ fr \in SUBSET Nat /\ \A h \in H2 : \E g \in H : h \subseteq g \cup {pos}
    BY <1>2, <1>4, Zenon
  <2> HIDE DEF H, H2, fr
  <2>2. Keeps(pos + 1, saved, fr, H2, H2)
    BY <1>1, <2>1, KeepsLater
  <2> QED
    BY <2>2, Zenon DEF H2, fr
<1>7. Ellipsis' /\ saved' = saved /\ pos' = pos + 1
  BY DEF Ellipsis
<1> QED
  BY <1>2, <1>5, <1>6, <1>7, Zenon DEF KeepInv

LEMMA MorphemeKept ==
  ASSUME IInv, IInv', LineInv, SavedInv, KeepInv, Ellipsis, Morpheme
  PROVE  KeepInv'
<1> DEFINE ends == text[pos].k = "m" /\ homo_num > 0
           s(pref) == IF ends THEN Reduced(pref) ELSE slot
           num == IF ends THEN Mrph_num - homo_num ELSE Mrph_num
<1>1. /\ pc = "read" /\ pos' = pos + 1 /\ UNCHANGED <<opt, saved, parens>>
      /\ pc' \in {"read", "skip"}
  BY DEF Morpheme, Reads, Line, context
<1>2. PICK pref \in 0 .. homo_num :
        /\ freed' = IF ends THEN freed \cup (FeaturesOf(slot, Used) \ FeaturesOf(s(pref), Used)) ELSE freed
        /\ Full(num) => slot' = s(pref)
        /\ ~ Full(num) =>
             slot' = [s(pref) EXCEPT ![num] = [id |-> pos, w |-> text[pos].w, f |-> s(pref)[num].f \cup {pos}]]
  BY Zenon DEF Morpheme, Line
<1>3. s(pref) = slot \/ (homo_num > 0 /\ s(pref) = Reduced(pref))
  BY Zenon
<1>4. freed' = freed \cup (FeaturesOf(slot, Used) \ FeaturesOf(s(pref), Used))
  <2>1. CASE ends
    BY <1>2, <2>1, Zenon
  <2>2. CASE ~ ends
    <3>1. freed' = freed /\ s(pref) = slot
      BY <1>2, <2>2, Zenon
    <3> HIDE DEF s
    <3> QED
      BY <3>1
  <2> QED
    BY <2>1, <2>2
<1>5. s(pref) \in [Slots -> SlotType]
  <2>1. homo_num > 0 => Reduced(pref) \in [Slots -> SlotType]
    BY <1>1, ReadingsReduced, Zenon
  <2>2. slot \in [Slots -> SlotType]
    BY DEF IInv, SlotInv
  <2> HIDE DEF s
  <2> QED
    BY <1>3, <2>1, <2>2, Zenon
<1> HIDE DEF ends, s, num
<1>6. \A i \in Slots : \E j \in Slots : slot'[i].f \subseteq s(pref)[j].f \cup {pos}
  <2> SUFFICES ASSUME NEW i \in Slots PROVE slot'[i].f \subseteq s(pref)[i].f \cup {pos}
    BY Zenon
  <2>1. CASE Full(num)
    BY <1>2, <2>1
  <2>2. CASE ~ Full(num) /\ i # num
    <3>1. slot'[i] = s(pref)[i]
      BY <1>2, <1>5, <2>2
    <3> QED
      BY <3>1
  <2>3. CASE ~ Full(num) /\ i = num
    <3>1. slot'[i] = [id |-> pos, w |-> text[pos].w, f |-> s(pref)[num].f \cup {pos}]
      BY <1>2, <1>5, <2>3
    <3> QED
      BY <2>3, <3>1
  <2> QED
    BY <2>1, <2>2, <2>3
<1>7. ~ Busy'
  BY <1>1 DEF Busy
<1> QED
  BY <1>1, <1>3, <1>4, <1>6, <1>7, ReadKept, Zenon

LEMMA EndKept ==
  ASSUME IInv, LineInv, SavedInv, KeepInv, Ellipsis, EndOfSentence, Mrph_num # 0
  PROVE  KeepInv'
<1>1. /\ pc = "read" /\ pos' = pos + 1 /\ UNCHANGED <<opt, saved, parens>> /\ pc' = "prepare"
      /\ freed' = freed \cup (FeaturesOf(slot, Used) \ FeaturesOf(slot', Used))
  BY DEF EndOfSentence, Reads, context
<1>2. PICK pref \in 0 .. homo_num : slot' = IF homo_num > 0 THEN Reduced(pref) ELSE slot
  BY DEF EndOfSentence
<1>3. slot' = slot \/ (homo_num > 0 /\ slot' = Reduced(pref))
  BY <1>2
<1>4. \A i \in Slots : \E j \in Slots : slot'[i].f \subseteq slot'[j].f \cup {pos}
  BY Zenon
<1>5. ~ Busy'
  BY <1>1 DEF Busy
<1> DEFINE s == slot'
<1>6. /\ s = slot \/ (homo_num > 0 /\ s = Reduced(pref))
      /\ freed' = freed \cup (FeaturesOf(slot, Used) \ FeaturesOf(s, Used))
      /\ \A i \in Slots : \E j \in Slots : slot'[i].f \subseteq s[j].f \cup {pos}
  BY <1>1, <1>3, <1>4, Zenon
<1> HIDE DEF s
<1> QED
  BY <1>1, <1>5, <1>6, ReadKept, Zenon

\* A comment, with or without the context cleared.
LEMMA CommentKept ==
  ASSUME IInv, SavedInv, KeepInv, Ellipsis, Comment
  PROVE  KeepInv'
<1>1. /\ pc = "read" /\ pc' = "read" /\ pos' = pos + 1 /\ UNCHANGED <<opt, slot, Mrph_num, parens>>
  BY DEF Comment, Reads, reading
<1>2. ~ Busy /\ ~ Busy'
  BY <1>1 DEF Busy
<1>3. CASE UNCHANGED <<Sen_num, saved, freed>>
  <2>1. pos' \in {pos, pos + 1} /\ UNCHANGED <<opt, saved, freed, slot, parens>>
    BY <1>1, <1>3
  <2> QED
    BY <1>2, <2>1, SameKept, Zenon
<1>4. CASE ClearSaved(Kept)
  <2> DEFINE H == HeldIn(slot, parens)
             F == UNION {Entry(i).f : i \in Kept}
  <2>1. /\ pos \in Nat /\ freed \in SUBSET Nat /\ \A i \in DOMAIN saved : saved[i].f \in SUBSET Nat
        /\ Keeps(pos, saved, freed, H, H)
    BY <1>2, KeepFacts, Zenon
  <2>2. saved' = Dropped(Kept) /\ freed' = freed \cup F
    BY <1>4, Zenon DEF ClearSaved
  <2>3. Keeps(pos, saved', freed', H, H)
    BY <2>1, <2>2, KeepsDropped, Zenon
  <2>4. \A i \in DOMAIN saved' : saved'[i].f \in SUBSET Nat
    <3>1. /\ \A i \in DOMAIN saved : i \in Kept => Dropped(Kept)[i].f = saved[i].f
          /\ \A i \in DOMAIN saved : i \notin Kept => Dropped(Kept)[i] = saved[i]
          /\ DOMAIN Dropped(Kept) = DOMAIN saved
      BY DroppedType, Zenon DEF SavedInv
    <3> QED
      BY <2>1, <2>2, <3>1, Zenon
  <2>5. F \in SUBSET Nat
    BY <2>1 DEF Entry, NoSentence
  <2> HIDE DEF H, F
  <2>6. freed' \in SUBSET Nat
    BY <2>1, <2>2, <2>5
  <2> DEFINE sv == saved'
             fr == freed'
  <2>7. /\ Keeps(pos, sv, fr, H, H) /\ fr \in SUBSET Nat /\ \A i \in DOMAIN sv : sv[i].f \in SUBSET Nat
    BY <2>3, <2>4, <2>6, Zenon
  <2>8. \A h \in H : \E g \in H : h \subseteq g \cup {pos}
    BY Zenon
  <2> HIDE DEF sv, fr
  <2>9. Keeps(pos + 1, sv, fr, H, H)
    BY <2>1, <2>7, <2>8, KeepsLater
  <2>10. Loose' = H /\ HeldIn(slot', parens') = H /\ Ellipsis'
    BY <1>1, <1>2, Zenon DEF Loose, H, Ellipsis
  <2> QED
    BY <1>1, <2>6, <2>9, <2>10, Zenon DEF KeepInv, sv, fr
<1> QED
  BY <1>3, <1>4, CommentContext

LEMMA PartListIs ==
  ASSUME NEW ps, NEW h
  PROVE  h \in PartLists(ps) <=> \E k \in 1 .. Len(ps) : \E j \in DOMAIN ps[k] : h = ps[k][j].f
BY DEF PartLists

LEMMA PartListFrom ==
  ASSUME NEW ps, NEW h \in PartLists(ps)
  PROVE  \E k \in 1 .. Len(ps) : \E j \in DOMAIN ps[k] : h = ps[k][j].f
BY DEF PartLists

\* The lists of parentheses whose morphemes are those of slots.
LEMMA PartsFromSlots ==
  ASSUME NEW S, NEW ps \in Seq(Chunks(S))
  PROVE  \A h \in PartLists(ps) : \E x \in S : h = x.f
<1> DEFINE X == Chunks(S)
<1>1. ps \in Seq(X)
  OBVIOUS
<1> HIDE DEF X
<1>2. \A k \in 1 .. Len(ps) : ps[k] \in X
  BY <1>1
<1>3. \A q \in X : \A j \in DOMAIN q : q[j] \in S
  BY Zenon DEF X, Chunks
<1> QED
  BY <1>2, <1>3, Zenon DEF PartLists

LEMMA PreprocessKept ==
  ASSUME IInv, LineInv, SavedInv, KeepInv, Ellipsis, Preprocess
  PROVE  KeepInv'
<1> DEFINE num == Mrph_num - Cardinality(Joined)
           c == Compacted
           p == IF opt.paren THEN CutOut(c, num) ELSE {}
           F == FeaturesOf(slot, Joined)
           H == HeldIn(slot, parens)
           H2 == HeldIn(slot', parens')
<1>1. /\ slot' = WithoutParens(c, num, p) /\ parens' = ParenSentences(c, p) /\ freed' = freed \cup F
      /\ pc = "prepare" /\ pc' = "analyse" /\ UNCHANGED <<pos, opt, saved>>
  BY Zenon DEF Preprocess, context
<1>2. slot \in [Slots -> SlotType] /\ Mrph_num \in 0 .. MRPH_MAX /\ Mrph_num \in Nat
  BY SlotBounds DEF IInv, SlotInv, CountInv
<1>3. /\ num \in 0 .. Mrph_num /\ Moved(slot, Mrph_num, c, num)
      /\ \A i \in Slots : \/ c[i].f = {}
                          \/ \E a \in Slots \ Joined : c[i].f = slot[a].f
  BY <1>2, CompactedStays, Zenon
<1> HIDE DEF num, c
<1>4. num \in 0 .. MRPH_MAX /\ num \in Nat
  BY <1>2, <1>3, SlotBounds
<1>5. c \in [Slots -> SlotType]
  BY <1>2, <1>3, <1>4, MovedStays, Zenon
<1>6. Cuttable(c, num, p) /\ p \in SUBSET Pairs(c, num)
  BY Zenon DEF CutOut, Cuttable
<1> HIDE DEF p
<1>7. \A i \in Slots : slot'[i].f = {} \/ \E a \in Slots : slot'[i].f = c[a].f
  <2>1. \A i \in Slots : \/ WithoutParens(c, num, p)[i].f = {}
                         \/ \E a \in Slots \ Inside(p) : WithoutParens(c, num, p)[i].f = c[a].f
    BY <1>4, <1>5, <1>6, WithoutParensStays, Zenon
  <2> QED
    BY <1>1, <2>1, Zenon
<1>8. \A h \in PartLists(parens') : \E a \in Slots : h = c[a].f
  <2> DEFINE S == {c[a] : a \in Slots}
  <2>1. Holds(c, num, S)
    BY Zenon DEF Holds
  <2>2. \A x \in S : \E a \in Slots : x = c[a]
    BY Zenon
  <2> HIDE DEF S
  <2>3. ParenSentences(c, p) \in Seq(Chunks(S))
    BY <1>4, <1>6, <2>1, ParenSentencesIn, Zenon
  <2>4. \A h \in PartLists(ParenSentences(c, p)) : \E x \in S : h = x.f
    BY <2>3, PartsFromSlots, Zenon
  <2>5. PartLists(parens') = PartLists(ParenSentences(c, p))
    BY <1>1, Zenon
  <2> QED
    BY <2>2, <2>4, <2>5
<1>9. \A h \in H2 : h = {} \/ \E a \in Slots \ Joined : h = slot[a].f
  <2>1. ASSUME NEW h \in H2 PROVE h = {} \/ \E i \in Slots : h = c[i].f
    <3>1. h \in PartLists(parens') \/ \E i \in Slots : h = slot'[i].f
      BY Zenon DEF HeldIn
    <3> QED
      BY <1>7, <1>8, <3>1
  <2> HIDE DEF H2
  <2> QED
    BY <1>3, <2>1
<1>10. /\ pos \in Nat /\ freed \in SUBSET Nat /\ \A i \in DOMAIN saved : saved[i].f \in SUBSET Nat
       /\ Keeps(pos, saved, freed, H, H)
  <2>1. ~ Busy
    BY <1>1 DEF Busy
  <2> QED
    BY <2>1, KeepFacts, Zenon
<1>11. /\ \A i, j \in Slots : i # j => slot[i].f \cap slot[j].f = {}
       /\ \A i \in Slots : slot[i] \in SlotType /\ \A q \in slot[i].f : q >= 1 /\ q < pos
  BY Zenon DEF LineInv, LinesKnown, Apart, Known
<1>12. \A q \in F : \E a \in Joined : q \in slot[a].f
  BY DEF FeaturesOf
<1>13. \A a \in Joined : a \in Slots
  BY <1>2, SlotBounds DEF Joined, Used
<1> HIDE DEF F
<1>14. \A q \in F : q \in Nat /\ q >= 1 /\ q < pos /\ \E g \in H : q \in g
  <2> SUFFICES ASSUME NEW q \in F PROVE q \in Nat /\ q >= 1 /\ q < pos /\ \E g \in H : q \in g
    OBVIOUS
  <2>1. PICK a \in Slots : q \in slot[a].f
    BY <1>12, <1>13, Zenon
  <2>2. slot[a].f \in H
    BY <2>1, Zenon DEF HeldIn
  <2>3. slot[a].f \in SUBSET Nat
    BY <1>11 DEF SlotType
  <2> HIDE DEF H
  <2> QED
    BY <1>11, <2>1, <2>2, <2>3
<1>15. \A h \in H2 : h \cap F = {}
  <2> SUFFICES ASSUME NEW h \in H2, NEW q \in F, q \in h PROVE FALSE
    OBVIOUS
  <2> HIDE DEF H2
  <2>1. PICK a \in Slots \ Joined : h = slot[a].f
    BY <1>9
  <2>2. PICK b \in Joined : q \in slot[b].f
    BY <1>12, Zenon
  <2> QED
    BY <1>11, <1>13, <2>1, <2>2
<1>16. \A h \in H2 : h = {} \/ h \in H
  BY <1>9, Zenon DEF HeldIn
<1> HIDE DEF H, H2
<1>17. Keeps(pos, saved, freed \cup F, H2, H2)
  BY <1>10, <1>14, <1>15, <1>16, KeepsFreed
<1>18. freed' \in SUBSET Nat
  BY <1>1, <1>10, <1>14
<1>19. Loose' = H2 /\ Ellipsis'
  <2>1. ~ Busy'
    BY <1>1 DEF Busy
  <2> QED
    BY <1>1, <2>1, Zenon DEF Loose, Ellipsis, H2
<1> QED
  BY <1>1, <1>17, <1>18, <1>19, Zenon DEF KeepInv, H2

LEMMA NextParenKept ==
  ASSUME IInv, SavedInv, KeepInv, Ellipsis, NextParen
  PROVE  KeepInv'
<1> DEFINE q == Head(parens)
           e == Emptied(slot, 0 .. (Mrph_num - 1))
<1>1. /\ pc = "next" /\ pc' = "analyse" /\ UNCHANGED <<pos, opt, saved>> /\ freed' = freed
      /\ slot' = [i \in Slots |-> IF i \in DOMAIN q THEN q[i] ELSE e[i]]
      /\ parens' = Tail(parens)
  BY Zenon DEF NextParen, Used, ClearFeatures, context
<1>2. /\ slot \in [Slots -> SlotType] /\ Mrph_num \in 0 .. MRPH_MAX
      /\ parens \in Seq(Chunks(SlotType)) /\ parens # <<>>
  BY <1>1 DEF IInv, SlotInv, CountInv
<1>3. /\ \A i \in Slots : i >= Mrph_num => e[i] = slot[i]
      /\ \A i \in Slots : i < Mrph_num => e[i].f = {}
  BY <1>2, EmptiedStays, Zenon
<1>4. \A i \in Slots : i >= Mrph_num \/ i < Mrph_num
  BY <1>2, SlotBounds
<1>5. /\ Head(parens) = parens[1] /\ 1 \in 1 .. Len(parens)
      /\ \A k \in 1 .. Len(Tail(parens)) : k + 1 \in 1 .. Len(parens) /\ Tail(parens)[k] = parens[k + 1]
  <2> DEFINE X == Chunks(SlotType)
  <2>1. parens \in Seq(X) /\ parens # <<>>
    BY <1>2
  <2> HIDE DEF X
  <2>2. /\ Head(parens) = parens[1] /\ Len(parens) \in Nat /\ Len(parens) >= 1
        /\ Len(Tail(parens)) = Len(parens) - 1
        /\ \A k \in 1 .. Len(Tail(parens)) : Tail(parens)[k] = parens[k + 1]
    BY <2>1
  <2> QED
    BY <2>2
<1>6. \A h \in PartLists(Tail(parens)) : h \in PartLists(parens)
  <2> SUFFICES ASSUME NEW h \in PartLists(Tail(parens)) PROVE h \in PartLists(parens)
    OBVIOUS
  <2> DEFINE ts == Tail(parens)
  <2>3. h \in PartLists(ts)
    OBVIOUS
  <2> HIDE DEF ts
  <2>4. \E k \in 1 .. Len(ts) : \E j \in DOMAIN ts[k] : h = ts[k][j].f
    BY <2>3, PartListFrom, Zenon
  <2>1. PICK k \in 1 .. Len(Tail(parens)) : \E j \in DOMAIN Tail(parens)[k] : h = Tail(parens)[k][j].f
    BY <2>4, Zenon DEF ts
  <2>2. k + 1 \in 1 .. Len(parens) /\ Tail(parens)[k] = parens[k + 1]
    BY <1>5, Zenon
  <2>5. \E j \in DOMAIN parens[k + 1] : h = parens[k + 1][j].f
    BY <2>1, <2>2, Zenon
  <2> QED
    BY <2>2, <2>5, PartListIs, Zenon
<1>7. \A j \in DOMAIN q : q[j].f \in PartLists(parens)
  <2>1. \A j \in DOMAIN parens[1] : parens[1][j].f \in PartLists(parens)
    BY <1>5, PartListIs, Zenon
  <2> QED
    BY <1>5, <2>1, Zenon
<1> HIDE DEF q, e
<1>8. \A h \in HeldIn(slot', parens') : h = {} \/ h \in LooseIn(slot, Mrph_num, parens)
  <2> SUFFICES ASSUME NEW h \in HeldIn(slot', parens') PROVE h = {} \/ h \in LooseIn(slot, Mrph_num, parens)
    OBVIOUS
  <2>1. CASE h \in PartLists(parens')
    BY <1>1, <1>6, <2>1, Zenon DEF LooseIn
  <2>2. CASE \E i \in Slots : h = slot'[i].f
    <3>1. PICK i \in Slots : h = slot'[i].f
      BY <2>2
    <3>2. /\ i \in DOMAIN q => slot'[i] = q[i]
          /\ i \notin DOMAIN q => slot'[i] = e[i]
      BY <1>1, Zenon
    <3>3. CASE i \in DOMAIN q
      BY <1>7, <3>1, <3>2, <3>3, Zenon DEF LooseIn
    <3>4. CASE i \notin DOMAIN q
      <4>1. h = e[i].f
        BY <3>1, <3>2, <3>4, Zenon
      <4>2. CASE i < Mrph_num
        BY <1>3, <4>1, <4>2, Zenon
      <4>3. CASE i >= Mrph_num
        <5>1. h = slot[i].f
          BY <1>3, <4>1, <4>3, Zenon
        <5> QED
          BY <4>3, <5>1, Zenon DEF LooseIn
      <4> QED
        BY <1>4, <4>2, <4>3, Zenon
    <3> QED
      BY <3>3, <3>4
  <2> QED
    BY <2>1, <2>2, Zenon DEF HeldIn
<1>9. \A g \in LooseIn(slot, Mrph_num, parens) : g \in Loose /\ g \in HeldIn(slot, parens)
  <2>1. Busy
    BY <1>1 DEF Busy
  <2> QED
    BY <2>1, LooseHeld, Zenon DEF Loose
<1>10. \A g \in Loose' : g \in HeldIn(slot', parens')
  BY LooseHeld, Zenon DEF Loose
<1>11. \A h \in HeldIn(slot', parens') : h = {} \/ h \in HeldIn(slot, parens)
  BY <1>8, <1>9, Zenon
<1>12. \A g \in Loose' : g = {} \/ g \in Loose
  BY <1>8, <1>9, <1>10, Zenon
<1> QED
  BY <1>1, <1>11, <1>12, LessKept

\* The lists not shared with the sentence just kept.
LEMMA LooseApart ==
  ASSUME IInv, LineInv, PartInv
  PROVE  /\ \A g \in LooseIn(slot, Mrph_num, parens) : g \cap FeaturesOf(slot, Used) = {}
         /\ \A q \in FeaturesOf(slot, Used) : \E h \in HeldIn(slot, parens) : q \in h
<1>1. Mrph_num \in Nat /\ \A i \in Used : i \in Slots /\ i < Mrph_num
  BY SlotBounds DEF IInv, CountInv, Used
<1>2. \A q \in FeaturesOf(slot, Used) : \E i \in Used : q \in slot[i].f
  BY DEF FeaturesOf
<1>3. \A i, j \in Slots : i # j => slot[i].f \cap slot[j].f = {}
  BY Zenon DEF LineInv, LinesKnown, Apart
<1>4. ASSUME NEW g \in LooseIn(slot, Mrph_num, parens), NEW i \in Used
      PROVE  slot[i].f \cap g = {}
  <2>1. CASE \E j \in Slots : j >= Mrph_num /\ g = slot[j].f
    <3>1. PICK j \in Slots : j >= Mrph_num /\ g = slot[j].f
      BY <2>1
    <3>2. i # j
      BY <1>1, <3>1, SlotBounds
    <3> QED
      BY <1>1, <1>3, <3>1, <3>2, Zenon
  <2>2. CASE g \in PartLists(parens)
    <3>1. PICK k \in 1 .. Len(parens) : \E j \in DOMAIN parens[k] : g = parens[k][j].f
      BY <2>2, PartListFrom, Zenon
    <3>2. \A a \in DOMAIN slot, j \in DOMAIN parens[k] : slot[a].f \cap parens[k][j].f = {}
      BY Zenon DEF PartInv, PartsKnown, Disjoint
    <3>3. i \in DOMAIN slot
      BY <1>1 DEF IInv, SlotInv
    <3> QED
      BY <3>1, <3>2, <3>3, Zenon
  <2> QED
    BY <2>1, <2>2, Zenon DEF LooseIn
<1>5. \A i \in Used : slot[i].f \in HeldIn(slot, parens)
  BY <1>1, Zenon DEF HeldIn
<1>6. \A q \in FeaturesOf(slot, Used) : \E h \in HeldIn(slot, parens) : q \in h
  BY <1>2, <1>5, Zenon
<1>7. \A g \in LooseIn(slot, Mrph_num, parens) : g \cap FeaturesOf(slot, Used) = {}
  BY <1>2, <1>4
<1> QED
  BY <1>6, <1>7

LEMMA AnalyseKept ==
  ASSUME IInv, LineInv, PartInv, EntityInv, SavedInv, KeepInv, Ellipsis, Analyse
  PROVE  KeepInv'
<1> DEFINE H == HeldIn(slot, parens)
           G == LooseIn(slot, Mrph_num, parens)
           F == UNION {Entry(i).f : i \in Kept}
           e == NewEntry
<1>1. /\ pc = "analyse" /\ pc' \in {"ready", "next"} /\ UNCHANGED <<pos, opt, slot, Mrph_num, parens>>
  BY DEF Analyse
<1>2. ~ Busy /\ Busy'
  BY <1>1 DEF Busy
<1>3. /\ pos \in Nat /\ freed \in SUBSET Nat /\ \A i \in DOMAIN saved : saved[i].f \in SUBSET Nat
      /\ Keeps(pos, saved, freed, H, H)
  BY <1>2, KeepFacts, Zenon
<1>4. Loose' = G /\ HeldIn(slot', parens') = H /\ Ellipsis' /\ pos' = pos
  <2>1. Loose' = LooseIn(slot', Mrph_num', parens')
    BY <1>2, Zenon DEF Loose
  <2>2. Ellipsis'
    BY <1>1 DEF Ellipsis
  <2> QED
    BY <1>1, <2>1, <2>2, Zenon
<1>5. /\ e.st = "kept" /\ \A q \in e.f : q >= 1 /\ q < pos /\ \E h \in H : q \in h
      /\ \A g \in G : g \in H /\ g \cap e.f = {}
  <2>1. /\ e.st = "kept" /\ \A q \in e.f : q >= 1 /\ q < pos
        /\ e.f = FeaturesOf(slot, Used)
    BY NewEntryType, Zenon
  <2> HIDE DEF e
  <2>2. /\ \A g \in G : g \cap e.f = {}
        /\ \A q \in e.f : \E h \in H : q \in h
    BY <2>1, LooseApart, Zenon
  <2>3. \A g \in G : g \in H
    BY LooseHeld, Zenon
  <2> HIDE DEF G, H
  <2> QED
    BY <2>1, <2>2, <2>3, Zenon
<1>6. F \in SUBSET Nat
  BY <1>3 DEF Entry, NoSentence
<1>7. Keeps(pos, Dropped(Kept), freed \cup F, H, H)
  BY <1>3, KeepsDropped, Zenon
<1> HIDE DEF H, G, F, e
<1>8. \A sv, fr, k : Keeps(pos, sv, fr, H, H) => Keeps(pos, [sv EXCEPT ![k] = e], fr, H, G)
  BY <1>3, <1>5, KeepsStored, Zenon
<1>9. CASE UNCHANGED <<Sen_num, saved, freed>>
  <2>1. pos' \in {pos, pos + 1} /\ UNCHANGED <<opt, saved, freed, slot, parens>>
    BY <1>1, <1>9
  <2> QED
    BY <1>2, <2>1, SameKept, Zenon
<1>10. CASE freed' = freed /\ saved' = [saved EXCEPT ![Sen_num - 1] = NewEntry]
  <2>1. Keeps(pos, [saved EXCEPT ![Sen_num - 1] = e], freed, H, G)
    BY <1>3, <1>8, Zenon
  <2>2. Keeps(pos', saved', freed', HeldIn(slot', parens'), Loose') /\ freed' \in SUBSET Nat
    BY <1>3, <1>4, <1>10, <2>1, Zenon DEF e
  <2> QED
    BY <1>4, <2>2, Zenon DEF KeepInv
<1>11. CASE freed' = freed \cup F /\ saved' = [Dropped(Kept) EXCEPT ![0] = NewEntry]
  <2>1. Keeps(pos, [Dropped(Kept) EXCEPT ![0] = e], freed \cup F, H, G)
    BY <1>7, <1>8, Zenon
  <2>2. freed' \in SUBSET Nat
    BY <1>3, <1>6, <1>11
  <2>3. Keeps(pos', saved', freed', HeldIn(slot', parens'), Loose')
    BY <1>4, <1>11, <2>1, Zenon DEF e
  <2> QED
    BY <1>4, <2>2, <2>3, Zenon DEF KeepInv
<1>12. Sen_num \in Nat
  BY DEF EntityInv
<1> QED
  BY <1>9, <1>10, <1>11, <1>12, AnalyseContext, Zenon DEF F

\* Only Start and Analyse, and a comment, change opt, the context or what is freed;
\* opt never changes.
LEMMA OptStays == [Next]_vars => opt' = opt
<1>1. CASE UNCHANGED vars
  BY <1>1 DEF vars
<1>2. CASE Next
  BY <1>2 DEF Next, Start, Comment, BnstLine, TagLine, Morpheme, Invalid, Skip, EndOfSentence,
              Preprocess, Analyse, NextParen, Finish
<1> QED
  BY <1>1, <1>2

LEMMA StepKept ==
  IInv /\ IInv' /\ LineInv /\ PartInv /\ EntityInv /\ SavedInv /\ KeepInv /\ [Next]_vars => KeepInv'
<1>1. SUFFICES ASSUME IInv, IInv', LineInv, PartInv, EntityInv, SavedInv, KeepInv, [Next]_vars
               PROVE  KeepInv'
  OBVIOUS
<1>2. opt' = opt
  BY <1>1, OptStays
<1>3. CASE ~ Ellipsis
  <2>1. ~ Ellipsis'
    BY <1>2, <1>3 DEF Ellipsis
  <2>2. saved' = saved
    <3>1. Sen_num \in Nat
      BY <1>1 DEF EntityInv
    <3> QED
      BY <1>1, <1>3, <3>1, CommentContext, AnalyseContext, OtherContext
  <2> QED
    BY <1>1, <1>3, <2>1, <2>2, Zenon DEF KeepInv
<1>4. CASE Ellipsis
  <2>1. CASE UNCHANGED vars
    <3>1. UNCHANGED <<opt, saved, freed, slot, parens, Mrph_num, pc>> /\ pos' \in {pos, pos + 1}
      BY <2>1 DEF vars, reading, context
    <3>2. Busy' <=> Busy
      BY <3>1 DEF Busy
    <3> QED
      BY <1>1, <1>4, <3>1, <3>2, SameKept
  <2>2. CASE Start
    <3>1. /\ pc = "ready" /\ UNCHANGED <<opt, saved, parens, pos>> /\ slot' = Emptied(slot, Used)
          /\ freed' = freed
      BY <1>4, <2>2 DEF Start, ClearFeatures
    <3>2. parens = <<>>
      BY <1>1, <3>1 DEF IInv, SlotInv
    <3> QED
      BY <1>1, <1>4, <3>1, <3>2, EmptyKept
  <2>3. ASSUME pc \in {"read", "skip"}, pos' = pos + 1, UNCHANGED <<opt, saved, parens>>, Fail
        PROVE  KeepInv'
    <3>1. slot' = Emptied(slot, Used) /\ freed' = freed
      BY <1>4, <2>3 DEF Fail, ClearFeatures
    <3>2. parens = <<>>
      BY <1>1, <2>3 DEF IInv, SlotInv
    <3> QED
      BY <1>1, <1>4, <2>3, <3>1, <3>2, EmptyKept
  <2>4. ASSUME pc \in {"read", "skip"}, pos' \in {pos, pos + 1}, UNCHANGED <<opt, saved, freed, slot, parens>>
        PROVE  KeepInv'
    <3>1. ~ Busy
      BY <2>4 DEF Busy
    <3> QED
      BY <1>1, <1>4, <2>4, <3>1, SameKept
  <2>5. CASE BnstLine \/ TagLine \/ Invalid \/ Finish
    <3>1. pc \in {"read", "skip"} /\ pos' \in {pos, pos + 1} /\ UNCHANGED <<opt, saved, freed, slot, parens>>
      BY <2>5 DEF BnstLine, TagLine, Invalid, Finish, Reads, reading, context
    <3> QED
      BY <2>4, <3>1
  <2>6. CASE Skip
    <3>1. pc = "skip" /\ pos' = pos + 1 /\ UNCHANGED <<opt, saved, parens>>
      BY <2>6 DEF Skip, context
    <3>2. Fail \/ UNCHANGED <<freed, slot>>
      BY <2>6 DEF Skip
    <3> QED
      BY <2>3, <2>4, <3>1, <3>2
  <2>7. CASE EndOfSentence
    <3>1. pc = "read" /\ pos' = pos + 1 /\ UNCHANGED <<opt, saved, parens>>
      BY <2>7 DEF EndOfSentence, Reads, context
    <3>2. Mrph_num = 0 => Fail
      BY <2>7 DEF EndOfSentence
    <3> QED
      BY <1>1, <1>4, <2>3, <2>7, <3>1, <3>2, EndKept
  <2> QED
    BY <1>1, <1>4, <2>1, <2>2, <2>5, <2>6, <2>7, CommentKept, MorphemeKept, PreprocessKept, AnalyseKept,
       NextParenKept, Zenon DEF Next
<1> QED
  BY <1>3, <1>4
-----------------------------------------------------------------------------
(* The sentences just before                                               *)

ArticleIn(t, n) ==
  LET c == {p \in DOMAIN t : NumberIn(t, p) <= n /\ t[p].k = "#"}
  IN  IF c = {} THEN "" ELSE t[CHOOSE p \in c : \A q \in c : q <= p].a

\* The article of the last comment before line p.
ArticleBefore(t, p) ==
  LET c == {q \in 1 .. (p - 1) : t[q].k = "#"}
  IN  IF c = {} THEN "" ELSE t[CHOOSE q \in c : \A r \in c : r <= q].a

\* Comments are seen, but not those of a sentence that is skipped.
PreInv ==
  /\ pc \in {"read", "prepare"} /\ Readable(text, sen - 1) => pre = ArticleBefore(text, pos)
  /\ pc \in {"ready", "analyse", "next"} /\ Readable(text, sen) => pre = ArticleBefore(text, pos)

\* The sentences 0 .. n kept have the numbers from off on, and the article a.
HereAll(t, a, sv, off, n) ==
  \A i \in 0 .. n : sv[i].st = "kept" /\ sv[i].sen = off + i /\ ArticleIn(t, off + i) = a

\* The first part of a sentence has been analysed.
After == pc \in {"ready", "next"} \/ (pc = "analyse" /\ part > 0)

HereBefore ==
  Sen_num <= SENTENCE_MAX + 1 /\ HereAll(text, pre, saved, sen - (Sen_num - 1), Sen_num - 2)
HereAfter ==
  Sen_num <= SENTENCE_MAX /\ HereAll(text, pre, saved, sen - (Sen_num - 1), Sen_num - 1)

HereInv ==
  Ellipsis =>
    /\ Before /\ Readable(text, sen - 1) => HereBefore
    /\ After /\ Readable(text, sen) => HereAfter
    /\ pc = "end" /\ Readable(text, sen - 1) => Sen_num <= SENTENCE_MAX + 1

LEMMA ReadableLess ==
  ASSUME NEW t, NEW n \in Nat, Readable(t, n)
  PROVE  Readable(t, n - 1)
<1>1. \A m \in 1 .. (n - 1) : m \in 1 .. n
  OBVIOUS
<1> QED
  BY <1>1, Zenon DEF Readable

\* A sentence that has failed is one of the text.
LEMMA NotReadable ==
  ASSUME NEW t \in Texts, NEW p \in 1 .. Len(t), NEW n \in Nat \ {0}, NumberIn(t, p) = n, FailedIn(t, n)
  PROVE  ~ Readable(t, n)
<1>1. p \in Nat \ {0} /\ Len(t) \in Nat /\ p <= Len(t)
  BY TextFacts
<1>2. n <= NumberIn(t, Len(t))
  BY <1>1, NumberGrows, Zenon
<1>3. n \in 1 .. n
  OBVIOUS
<1> QED
  BY <1>2, <1>3, Zenon DEF Readable

\* The last comment before line p is the last one of the sentences before it.
LEMMA ArticleSame ==
  ASSUME NEW t \in Texts, NEW p \in 1 .. (Len(t) + 1), NEW n \in Nat, NumberIn(t, p) = n + 1,
         p = 1 \/ t[p - 1].k = "E"
  PROVE  ArticleIn(t, n) = ArticleBefore(t, p)
<1> DEFINE c == {q \in DOMAIN t : NumberIn(t, q) <= n /\ t[q].k = "#"}
           d == {q \in 1 .. (p - 1) : t[q].k = "#"}
<1>1. DOMAIN t = 1 .. Len(t) /\ Len(t) \in Nat
  BY TextFacts
<1>2. /\ \A q \in 1 .. (p - 1) : q \in 1 .. Len(t) /\ NumberIn(t, q) <= n
      /\ \A q \in 1 .. Len(t) : NumberIn(t, q) <= n => q \in 1 .. (p - 1)
  <2>1. CASE p = 1
    <3>1. n = 0
      BY <2>1, NumberFirst
    <3>2. ASSUME NEW q \in 1 .. Len(t) PROVE ~ (NumberIn(t, q) <= 0)
      <4>1. 1 \in Nat \ {0} /\ q \in Nat /\ 1 <= q
        BY <1>1
      <4>2. NumberIn(t, 1) <= NumberIn(t, q) /\ NumberIn(t, q) \in Nat
        BY <4>1, NumberGrows, Zenon
      <4> QED
        BY <4>2, NumberFirst
    <3> QED
      BY <2>1, <3>1, <3>2
  <2>2. CASE p # 1
    <3>1. p \in 2 .. (Len(t) + 1) /\ t[p - 1].k = "E"
      BY <1>1, <2>2
    <3>2. /\ \A q \in 1 .. (p - 1) : NumberIn(t, q) < n + 1
          /\ \A q \in p .. Len(t) : NumberIn(t, q) >= n + 1
      BY <3>1, SentenceEnds, Zenon
    <3>3. \A q \in 1 .. Len(t) : NumberIn(t, q) \in Nat
      <4>1. \A q \in 1 .. Len(t) : q \in Nat \ {0}
        BY <1>1
      <4> QED
        BY <4>1, NumberStep, Zenon
    <3>4. \A q \in 1 .. Len(t) : q \in 1 .. (p - 1) \/ q \in p .. Len(t)
      BY <1>1
    <3>5. \A q \in 1 .. (p - 1) : q \in 1 .. Len(t)
      BY <1>1
    <3> QED
      BY <3>2, <3>3, <3>4, <3>5
  <2> QED
    BY <2>1, <2>2
<1>3. c = d
  BY <1>1, <1>2, Zenon
<1>4. ArticleIn(t, n) = IF c = {} THEN "" ELSE t[CHOOSE q \in c : \A r \in c : r <= q].a
  BY Zenon DEF ArticleIn
<1>5. ArticleBefore(t, p) = IF d = {} THEN "" ELSE t[CHOOSE q \in d : \A r \in d : r <= q].a
  BY Zenon DEF ArticleBefore
<1> HIDE DEF c, d
<1> QED
  BY <1>3, <1>4, <1>5, Zenon

\* One line more.
LEMMA ArticleStep ==
  ASSUME NEW t, NEW p \in Nat \ {0}
  PROVE  /\ t[p].k # "#" => ArticleBefore(t, p + 1) = ArticleBefore(t, p)
         /\ t[p].k = "#" => ArticleBefore(t, p + 1) = t[p].a
<1> DEFINE c(x) == {q \in 1 .. (x - 1) : t[q].k = "#"}
           C == c(p + 1)
           D == c(p)
<1>1. /\ ArticleBefore(t, p + 1) = IF C = {} THEN "" ELSE t[CHOOSE q \in C : \A r \in C : r <= q].a
      /\ ArticleBefore(t, p) = IF D = {} THEN "" ELSE t[CHOOSE q \in D : \A r \in D : r <= q].a
  BY Zenon DEF ArticleBefore
<1>2. \A q : q \in 1 .. (p + 1 - 1) <=> q \in 1 .. (p - 1) \/ q = p
  OBVIOUS
<1>3. t[p].k # "#" => C = D
  BY <1>2
<1>4. t[p].k = "#" => p \in C /\ \A q \in C : q \in Nat /\ q <= p
  OBVIOUS
<1> HIDE DEF C, D
<1>5. CASE t[p].k # "#"
  <2> DEFINE last(S) == IF S = {} THEN "" ELSE t[CHOOSE q \in S : \A r \in S : r <= q].a
  <2>1. ArticleBefore(t, p + 1) = last(C) /\ ArticleBefore(t, p) = last(D)
    BY <1>1, Zenon
  <2> HIDE DEF last
  <2>2. last(C) = last(D)
    BY <1>3, <1>5, Zenon
  <2> QED
    BY <1>5, <2>1, <2>2, Zenon
<1>6. CASE t[p].k = "#"
  <2> DEFINE x == CHOOSE q \in C : \A r \in C : r <= q
  <2>1. x \in C /\ \A r \in C : r <= x
    BY <1>4, <1>6, Zenon
  <2> HIDE DEF x
  <2>2. x = p
    BY <1>4, <1>6, <2>1
  <2>3. C # {}
    BY <1>4, <1>6, Zenon
  <2> QED
    BY <1>1, <1>6, <2>2, <2>3, Zenon DEF x
<1> QED
  BY <1>5, <1>6

LEMMA PreFacts ==
  ASSUME IInv, pc \in {"read", "skip"}, pos <= Len(text)
  PROVE  /\ text \in Texts /\ pos \in 1 .. Len(text) /\ pos \in Nat \ {0} /\ sen \in Nat \ {0}
         /\ NumberIn(text, pos) = sen /\ (FailedIn(text, sen) => ~ Readable(text, sen))
<1>1. /\ text \in Texts /\ pos \in 1 .. (Len(text) + 1) /\ sen \in Nat \ {0} /\ NumberIn(text, pos) = sen
  BY DEF IInv, TextInv
<1>2. pos \in 1 .. Len(text) /\ pos \in Nat \ {0}
  BY <1>1, TextFacts
<1> QED
  BY <1>1, <1>2, NotReadable, Zenon

\* A sentence that is given up has failed.
LEMMA GivenUp ==
  ASSUME IInv, BlameInv, pc \in {"read", "skip"}, pos <= Len(text), text[pos].k = "E",
         pc = "read" => Mrph_num = 0
  PROVE  FailedIn(text, sen)
<1>1. /\ text \in Texts /\ pos \in 1 .. Len(text) /\ pos \in Nat \ {0} /\ sen \in Nat \ {0}
      /\ NumberIn(text, pos) = sen
  BY PreFacts
<1>2. CASE pc = "skip"
  BY <1>1, <1>2, Zenon DEF BlameInv
<1>3. CASE pc = "read"
  <2>1. NoneBefore(text, sen, pos, "m")
    BY <1>3, Zenon DEF BlameInv
  <2>2. \A q \in DOMAIN text : q \in 1 .. (pos - 1) \/ q = pos \/ (q \in Nat /\ pos < q)
    BY <1>1, TextFacts
  <2>3. \A q \in Nat : pos < q => NumberIn(text, q) # sen
    <3>1. \A q \in Nat : pos < q => pos <= q
      BY <1>1
    <3>2. ASSUME NEW q \in Nat, pos < q PROVE NumberIn(text, q) # sen
      <4>1. NumberIn(text, pos) < NumberIn(text, q) /\ NumberIn(text, q) \in Nat
        BY <1>1, <3>1, <3>2, NumberGrows, Zenon
      <4> QED
        BY <1>1, <4>1
    <3> QED
      BY <3>2
  <2>4. \A q \in DOMAIN text : NumberIn(text, q) = sen => text[q].k # "m"
    <3> SUFFICES ASSUME NEW q \in DOMAIN text, NumberIn(text, q) = sen PROVE text[q].k # "m"
      OBVIOUS
    <3>1. CASE q \in 1 .. (pos - 1)
      BY <2>1, <3>1, Zenon DEF NoneBefore
    <3>2. CASE q = pos
      BY <3>2
    <3> QED
      BY <2>2, <2>3, <3>1, <3>2, Zenon
  <2>5. LinesIn(text, sen, {"m"}) = {}
    BY <2>4 DEF LinesIn
  <2> QED
    BY <2>5, Zenon DEF FailedIn
<1> QED
  BY <1>2, <1>3

LEMMA FailUnreadable ==
  ASSUME IInv, BlameInv, pc \in {"read", "skip"}, pos <= Len(text), text[pos].k = "E",
         pc = "read" => Mrph_num = 0
  PROVE  ~ Readable(text, sen)
BY GivenUp, PreFacts

\* The comment read last, as long as no sentence has been skipped.
LEMMA StepPre == IInv /\ BlameInv /\ PreInv /\ [Next]_vars => PreInv'
<1>1. SUFFICES ASSUME IInv, BlameInv, PreInv, [Next]_vars
               PROVE  PreInv'
  OBVIOUS
<1>2. ASSUME UNCHANGED <<text, pos, pre, sen, pc>>
      PROVE  PreInv'
  BY <1>1, <1>2, Zenon DEF PreInv
<1>3. CASE Start
  <2>1. pc = "ready" /\ pc' = "read" /\ sen' = sen + 1 /\ UNCHANGED <<text, pos, pre>>
    BY <1>3 DEF Start
  <2>2. sen \in Nat
    BY <1>1 DEF IInv, TextInv
  <2>3. sen' - 1 = sen
    BY <2>1, <2>2
  <2> QED
    BY <1>1, <2>1, <2>3 DEF PreInv
<1>4. CASE Comment
  <2>1. /\ pc = "read" /\ pc' = "read" /\ pos <= Len(text) /\ text[pos].k = "#" /\ pos' = pos + 1
        /\ pre' = text[pos].a /\ UNCHANGED <<text, sen>>
    BY <1>4 DEF Comment, Reads, Line
  <2>2. pos \in Nat \ {0}
    BY <1>1, <2>1, PreFacts
  <2>3. ArticleBefore(text, pos + 1) = text[pos].a
    BY <2>1, <2>2, ArticleStep, Zenon
  <2> QED
    BY <2>1, <2>3 DEF PreInv
<1>5. ASSUME pc = "read", pos <= Len(text), text[pos].k # "#", pos' = pos + 1, UNCHANGED <<text, sen, pre>>,
             pc' \in {"read", "prepare", "skip"} \/ (pc' = "ready" /\ ~ Readable(text, sen))
      PROVE  PreInv'
  <2>1. pos \in Nat \ {0}
    BY <1>1, <1>5, PreFacts
  <2>2. ArticleBefore(text, pos + 1) = ArticleBefore(text, pos)
    BY <1>5, <2>1, ArticleStep, Zenon
  <2> QED
    BY <1>1, <1>5, <2>2 DEF PreInv
<1>6. CASE BnstLine \/ TagLine \/ Morpheme \/ Invalid
  <2>1. /\ pc = "read" /\ pos <= Len(text) /\ text[pos].k # "#" /\ pos' = pos + 1 /\ UNCHANGED <<text, sen, pre>>
        /\ pc' \in {"read", "skip"}
    BY <1>6 DEF BnstLine, TagLine, Morpheme, Invalid, Reads, Line
  <2> QED
    BY <1>5, <2>1
<1>7. CASE EndOfSentence
  <2>1. /\ pc = "read" /\ pos <= Len(text) /\ text[pos].k = "E" /\ pos' = pos + 1 /\ UNCHANGED <<text, sen, pre>>
        /\ pc' = "prepare" \/ (pc' = "ready" /\ Mrph_num = 0)
    BY <1>7 DEF EndOfSentence, Reads, Line, Fail
  <2>2. Mrph_num = 0 => ~ Readable(text, sen)
    BY <1>1, <2>1, FailUnreadable
  <2> QED
    BY <1>5, <2>1, <2>2
<1>8. CASE Skip
  <2>1. /\ pc = "skip" /\ pos <= Len(text) /\ UNCHANGED <<text, sen>>
        /\ pc' = "skip" \/ (pc' = "ready" /\ text[pos].k = "E")
    BY <1>8 DEF Skip, Fail, Line
  <2>2. text[pos].k = "E" => ~ Readable(text, sen)
    BY <1>1, <2>1, FailUnreadable
  <2> QED
    BY <2>1, <2>2 DEF PreInv
<1>9. CASE Preprocess
  <2>1. pc = "prepare" /\ pc' = "analyse" /\ UNCHANGED <<text, sen, pre, pos>>
    BY <1>9 DEF Preprocess
  <2>2. Readable(text, sen) => Readable(text, sen - 1)
    BY <1>1, ReadableLess DEF IInv, TextInv
  <2> QED
    BY <1>1, <2>1, <2>2 DEF PreInv
<1>10. CASE Analyse \/ NextParen
  <2>1. pc \in {"analyse", "next"} /\ pc' \in {"ready", "analyse", "next"} /\ UNCHANGED <<text, sen, pre, pos>>
    BY <1>10 DEF Analyse, NextParen
  <2> QED
    BY <1>1, <2>1 DEF PreInv
<1>11. CASE Finish
  <2>1. pc' = "end"
    BY <1>11 DEF Finish
  <2> QED
    BY <2>1 DEF PreInv
<1>12. CASE UNCHANGED vars
  BY <1>2, <1>12 DEF vars
<1> QED
  BY <1>1, <1>3, <1>4, <1>6, <1>7, <1>8, <1>9, <1>10, <1>11, <1>12, Zenon DEF Next

\* Nothing of the context changes.
LEMMA SameHere ==
  ASSUME HereInv, UNCHANGED <<text, opt, pre, saved, sen, Sen_num>>, Before' => Before,
         After' => After \/ ~ Readable(text, sen), pc' = "end" => pc = "end" \/ Before
  PROVE  HereInv'
<1>1. /\ HereBefore' <=> HereBefore
      /\ HereAfter' <=> HereAfter
      /\ Readable(text, sen - 1)' <=> Readable(text, sen - 1)
      /\ Readable(text, sen)' <=> Readable(text, sen)
      /\ Ellipsis' <=> Ellipsis
      /\ Sen_num' = Sen_num
  BY DEF HereBefore, HereAfter, Ellipsis
<1>2. HereBefore => Sen_num <= SENTENCE_MAX + 1
  BY Zenon DEF HereBefore
<1> QED
  BY <1>1, <1>2, Zenon DEF HereInv

\* The next sentence: the one just kept is one of those before.
LEMMA StartHere ==
  ASSUME IInv, EntityInv, HereInv, Start
  PROVE  HereInv'
<1>1. /\ pc = "ready" /\ pc' = "read" /\ sen' = sen + 1 /\ Sen_num' = Sen_num + 1
      /\ UNCHANGED <<text, opt, pre, saved>>
  BY DEF Start
<1>2. sen \in Nat /\ Sen_num \in Nat /\ SENTENCE_MAX \in Nat
  BY LimitsAssumption DEF IInv, TextInv, EntityInv
<1>3. sen' - 1 = sen /\ sen' - (Sen_num' - 1) = sen - (Sen_num - 1) /\ Sen_num' - 2 = Sen_num - 1
  BY <1>1, <1>2
<1>4. CASE Ellipsis /\ Readable(text, sen)
  <2>1. HereAfter
    BY <1>1, <1>4, Zenon DEF HereInv, After
  <2>2. Sen_num <= SENTENCE_MAX /\ HereAll(text, pre, saved, sen - (Sen_num - 1), Sen_num - 1)
    BY <2>1, Zenon DEF HereAfter
  <2>3. Sen_num' <= SENTENCE_MAX + 1
    BY <1>1, <1>2, <2>2
  <2>4. HereAll(text', pre', saved', sen' - (Sen_num' - 1), Sen_num' - 2)
    BY <1>1, <1>3, <2>2, Zenon
  <2>5. HereBefore'
    BY <2>3, <2>4, Zenon DEF HereBefore
  <2>6. ~ After' /\ pc' # "end"
    BY <1>1 DEF After
  <2> QED
    BY <2>5, <2>6, Zenon DEF HereInv
<1>5. CASE ~ (Ellipsis /\ Readable(text, sen))
  <2>1. ~ (Ellipsis' /\ Readable(text', sen' - 1))
    BY <1>1, <1>3, <1>5 DEF Ellipsis
  <2>2. ~ After' /\ pc' # "end"
    BY <1>1 DEF After
  <2> QED
    BY <2>1, <2>2, Zenon DEF HereInv
<1> QED
  BY <1>4, <1>5

\* A comment of the same article leaves the context, and another one leaves nothing
\* of it.
LEMMA CommentHere ==
  ASSUME IInv, HereInv, Comment
  PROVE  HereInv'
<1>1. /\ pc = "read" /\ pc' = "read" /\ UNCHANGED <<text, opt, sen>> /\ pre' = Line.a
      /\ NewArticle(Line.a)
  BY DEF Comment, Reads
<1>2. CASE ~ Ellipsis
  <2>1. ~ Ellipsis'
    BY <1>1, <1>2 DEF Ellipsis
  <2> QED
    BY <2>1, Zenon DEF HereInv
<1>3. CASE Ellipsis /\ Line.a = pre
  <2>1. UNCHANGED <<text, opt, pre, saved, sen, Sen_num>>
    BY <1>1, <1>3 DEF NewArticle, context
  <2>2. Before /\ ~ After' /\ pc' # "end"
    BY <1>1 DEF Before, After
  <2> QED
    BY <2>1, <2>2, SameHere, Zenon
<1>4. CASE Ellipsis /\ Line.a # pre
  <2>1. Sen_num' = 1
    BY <1>1, <1>4 DEF NewArticle, ClearContext, ClearSentences, Anaphora
  <2>2. Sen_num' <= SENTENCE_MAX + 1 /\ \A i : i \notin 0 .. (Sen_num' - 2)
    BY <2>1, LimitsAssumption
  <2>3. HereBefore'
    BY <2>2, Zenon DEF HereBefore, HereAll
  <2>4. ~ After' /\ pc' # "end"
    BY <1>1 DEF After
  <2> QED
    BY <2>3, <2>4, Zenon DEF HereInv
<1> QED
  BY <1>2, <1>3, <1>4

\* Before the analysis of a sentence or of one of its parentheses.
LEMMA AnalyseFacts ==
  ASSUME IInv, pc \in {"prepare", "analyse", "next"}
  PROVE  /\ text \in Texts /\ sen \in Nat \ {0} /\ pos \in 2 .. (Len(text) + 1) /\ text[pos - 1].k = "E"
         /\ NumberIn(text, pos) = sen + 1
         /\ FailedIn(text, sen) => ~ Readable(text, sen)
<1>1. /\ text \in Texts /\ pos \in 1 .. (Len(text) + 1) /\ sen \in Nat \ {0} /\ NumberIn(text, pos) = sen + 1
      /\ pos = 1 \/ text[pos - 1].k = "E"
  BY DEF IInv, TextInv
<1>2. pos # 1
  <2>1. NumberIn(text, 1) = 1
    BY NumberFirst, Zenon
  <2> QED
    BY <1>1, <2>1
<1>3. pos \in 2 .. (Len(text) + 1) /\ text[pos - 1].k = "E"
  BY <1>1, <1>2, TextFacts
<1>4. NumberIn(text, pos - 1) = sen
  <2>1. NumberIn(text, pos - 1) = NumberIn(text, pos) - 1
    BY <1>1, <1>3, SentenceEnds, Zenon
  <2> QED
    BY <1>1, <2>1
<1>5. pos - 1 \in 1 .. Len(text)
  BY <1>1, <1>3, TextFacts
<1> QED
  BY <1>1, <1>3, <1>4, <1>5, NotReadable, Zenon

\* The sentence analysed comes after the others, or is the first.
LEMMA AnalyseHere ==
  ASSUME IInv, LineInv, EntityInv, SavedInv, PreInv, HereInv, Ellipsis, Analyse, Readable(text, sen)
  PROVE  HereAfter'
<1>1. /\ pc = "analyse" /\ UNCHANGED <<text, sen, pre>>
  BY DEF Analyse
<1>2. /\ text \in Texts /\ sen \in Nat \ {0} /\ pos \in 2 .. (Len(text) + 1) /\ text[pos - 1].k = "E"
      /\ NumberIn(text, pos) = sen + 1
      /\ FailedIn(text, sen) => ~ Readable(text, sen)
  BY <1>1, AnalyseFacts
<1>3. ~ TooManyBnst
  BY <1>2, TooManyFails, Zenon
<1>4. ArticleIn(text, sen) = pre
  <2>1. pre = ArticleBefore(text, pos)
    BY <1>1 DEF PreInv
  <2>2. pos \in 1 .. (Len(text) + 1) /\ sen \in Nat
    BY <1>2
  <2>3. ArticleIn(text, sen) = ArticleBefore(text, pos)
    BY <1>2, <2>2, ArticleSame, Zenon
  <2> QED
    BY <2>1, <2>3
<1>5. Sen_num \in Nat /\ Sen_num >= 1 /\ SENTENCE_MAX \in Nat \ {0} /\ part \in Nat
  BY <1>1, LimitsAssumption DEF EntityInv
<1> DEFINE off == sen - (Sen_num - 1)
<1>6. \A i \in 0 .. (Sen_num - 2) :
        saved[i].st = "kept" /\ saved[i].sen = off + i /\ ArticleIn(text, off + i) = pre
  <2>1. CASE part = 0
    <3>1. Readable(text, sen - 1)
      BY <1>2, ReadableLess
    <3>2. HereBefore
      BY <1>1, <2>1, <3>1, Zenon DEF HereInv, Before
    <3> QED
      BY <3>2, Zenon DEF HereBefore, HereAll
  <2>2. CASE part > 0
    <3>1. HereAfter
      BY <1>1, <2>2, Zenon DEF HereInv, After
    <3>2. \A i \in 0 .. (Sen_num - 2) : i \in 0 .. (Sen_num - 1)
      BY <1>5
    <3> QED
      BY <3>1, <3>2, Zenon DEF HereAfter, HereAll
  <2> QED
    BY <1>5, <2>1, <2>2
<1>7. NewEntry.st = "kept" /\ NewEntry.sen = sen
  BY NewEntryType, Zenon
<1>8. DOMAIN saved = 0 .. (SENTENCE_MAX - 1) /\ DOMAIN Dropped(Kept) = 0 .. (SENTENCE_MAX - 1)
  BY DroppedType, Zenon DEF SavedInv
<1>9. CASE Sen_num <= SENTENCE_MAX /\ Sen_num' = Sen_num /\ saved' = [saved EXCEPT ![Sen_num - 1] = NewEntry]
  <2> DEFINE last == Sen_num - 1
  <2>1. last \in DOMAIN saved /\ off + last = sen
    BY <1>2, <1>5, <1>8, <1>9
  <2>2. \A i \in 0 .. last : i = last \/ (i # last /\ i \in 0 .. (Sen_num - 2))
    BY <1>5
  <2>3. saved'[last] = NewEntry /\ \A i : i # last => saved'[i] = saved[i]
    <3>1. saved' = [saved EXCEPT ![last] = NewEntry]
      BY <1>9
    <3>2. \A i \in DOMAIN saved : i # last => saved'[i] = saved[i]
      BY <3>1, Zenon
    <3>3. saved'[last] = NewEntry
      BY <2>1, <3>1
    <3> QED
      BY <3>1, <3>3
  <2> HIDE DEF last, off
  <2>4. \A i \in 0 .. last :
          saved'[i].st = "kept" /\ saved'[i].sen = off + i /\ ArticleIn(text, off + i) = pre
    <3> SUFFICES ASSUME NEW i \in 0 .. last
                 PROVE  saved'[i].st = "kept" /\ saved'[i].sen = off + i /\ ArticleIn(text, off + i) = pre
      OBVIOUS
    <3>1. CASE i = last
      BY <1>4, <1>7, <2>1, <2>3, <3>1
    <3>2. CASE i # last /\ i \in 0 .. (Sen_num - 2)
      BY <1>6, <2>3, <3>2, Zenon
    <3> QED
      BY <2>2, <3>1, <3>2
  <2>5. HereAll(text, pre, saved', off, last)
    BY <2>4, Zenon DEF HereAll
  <2>6. Sen_num' <= SENTENCE_MAX /\ sen' - (Sen_num' - 1) = off /\ Sen_num' - 1 = last
    BY <1>1, <1>9 DEF off, last
  <2> QED
    BY <1>1, <2>5, <2>6, Zenon DEF HereAfter
<1>10. CASE Sen_num' = 1 /\ saved' = [Dropped(Kept) EXCEPT ![0] = NewEntry]
  <2>1. 0 \in DOMAIN Dropped(Kept)
    BY <1>5, <1>8
  <2>2. saved'[0] = NewEntry
    BY <1>10, <2>1
  <2>3. \A i \in 0 .. 0 : i = 0
    OBVIOUS
  <2>4. sen + 0 = sen
    BY <1>2
  <2>5. HereAll(text, pre, saved', sen, 0)
    BY <1>4, <1>7, <2>2, <2>3, <2>4, Zenon DEF HereAll
  <2>6. Sen_num' <= SENTENCE_MAX /\ sen' - (Sen_num' - 1) = sen /\ Sen_num' - 1 = 0
    BY <1>1, <1>2, <1>5, <1>10
  <2> QED
    BY <1>1, <2>5, <2>6, Zenon DEF HereAfter
<1> QED
  BY <1>3, <1>5, <1>9, <1>10, AnalyseContext

LEMMA StepHere ==
  IInv /\ LineInv /\ BlameInv /\ EntityInv /\ SavedInv /\ PreInv /\ HereInv /\ [Next]_vars => HereInv'
<1>1. SUFFICES ASSUME IInv, LineInv, BlameInv, EntityInv, SavedInv, PreInv, HereInv, [Next]_vars
               PROVE  HereInv'
  OBVIOUS
<1>2. CASE UNCHANGED vars
  <2>1. UNCHANGED <<text, opt, pre, saved, sen, Sen_num, pc, part>>
    BY <1>2 DEF vars, context
  <2>2. (Before' => Before) /\ (After' => After)
    BY <2>1 DEF Before, After
  <2> QED
    BY <1>1, <2>1, <2>2, SameHere
<1>3. CASE BnstLine \/ TagLine \/ Morpheme \/ Invalid
  <2>1. pc = "read" /\ pc' \in {"read", "skip"} /\ UNCHANGED <<text, opt, pre, saved, sen, Sen_num>>
    BY <1>3 DEF BnstLine, TagLine, Morpheme, Invalid, Reads, context
  <2>2. Before /\ ~ After' /\ pc' # "end"
    BY <2>1 DEF Before, After
  <2> QED
    BY <1>1, <2>1, <2>2, SameHere
<1>4. CASE Skip
  <2>1. /\ pc = "skip" /\ pos <= Len(text) /\ UNCHANGED <<text, opt, pre, saved, sen, Sen_num>>
        /\ pc' = "skip" \/ (pc' = "ready" /\ text[pos].k = "E")
    BY <1>4 DEF Skip, Fail, Line, context
  <2>2. text[pos].k = "E" => ~ Readable(text, sen)
    BY <1>1, <2>1, FailUnreadable
  <2>3. Before /\ (After' => ~ Readable(text, sen)) /\ pc' # "end"
    BY <2>1, <2>2 DEF Before, After
  <2> QED
    BY <1>1, <2>1, <2>3, SameHere
<1>5. CASE EndOfSentence
  <2>1. /\ pc = "read" /\ pos <= Len(text) /\ text[pos].k = "E" /\ UNCHANGED <<text, opt, pre, saved, sen, Sen_num>>
        /\ pc' = "prepare" \/ (pc' = "ready" /\ Mrph_num = 0)
    BY <1>5 DEF EndOfSentence, Reads, Line, Fail, context
  <2>2. Mrph_num = 0 => ~ Readable(text, sen)
    BY <1>1, <2>1, FailUnreadable
  <2>3. Before /\ (After' => ~ Readable(text, sen)) /\ pc' # "end"
    BY <2>1, <2>2 DEF Before, After
  <2> QED
    BY <1>1, <2>1, <2>3, SameHere
<1>6. CASE Preprocess
  <2>1. pc = "prepare" /\ pc' = "analyse" /\ part' = 0 /\ UNCHANGED <<text, opt, pre, saved, sen, Sen_num>>
    BY <1>6 DEF Preprocess, context
  <2>2. Before /\ ~ After' /\ pc' # "end"
    BY <2>1 DEF Before, After
  <2> QED
    BY <1>1, <2>1, <2>2, SameHere
<1>7. CASE NextParen
  <2>1. pc = "next" /\ pc' = "analyse" /\ part' = part + 1 /\ UNCHANGED <<text, opt, pre, saved, sen, Sen_num>>
    BY <1>7 DEF NextParen, context
  <2>2. part' # 0
    BY <1>1, <2>1 DEF EntityInv
  <2>3. After /\ ~ Before' /\ pc' # "end"
    BY <2>1, <2>2 DEF Before, After
  <2> QED
    BY <1>1, <2>1, <2>3, SameHere
<1>8. CASE Finish
  <2>1. pc \in {"read", "skip"} /\ pc' = "end" /\ UNCHANGED <<text, opt, pre, saved, sen, Sen_num>>
    BY <1>8 DEF Finish, context
  <2>2. Before /\ ~ Before' /\ ~ After'
    BY <2>1 DEF Before, After
  <2> QED
    BY <1>1, <2>1, <2>2, SameHere
<1>9. CASE Analyse
  <2>1. pc' \in {"ready", "next"} /\ UNCHANGED <<text, opt, sen>>
    BY <1>9 DEF Analyse
  <2>2. After' /\ ~ Before' /\ pc' # "end"
    BY <2>1 DEF Before, After
  <2>3. Ellipsis' /\ Readable(text', sen') => HereAfter'
    <3>1. Ellipsis' <=> Ellipsis
      BY <2>1 DEF Ellipsis
    <3> QED
      BY <1>1, <1>9, <2>1, <3>1, AnalyseHere
  <2> QED
    BY <2>2, <2>3, Zenon DEF HereInv
<1> QED
  BY <1>1, <1>2, <1>3, <1>4, <1>5, <1>6, <1>7, <1>8, <1>9, StartHere, CommentHere, Zenon DEF Next
-----------------------------------------------------------------------------
(* All together                                                            *)

FullInv ==
  /\ IInv /\ LineInv /\ PartInv /\ BlameInv /\ ReadInv /\ EntityInv /\ SavedInv /\ KeepInv
  /\ PreInv /\ HereInv

LEMMA InitFull == Init => FullInv
<1> SUFFICES ASSUME Init PROVE FullInv
  OBVIOUS
<1>1. /\ text \in Texts /\ opt \in Options /\ pos = 1 /\ pc = "ready" /\ slot = [i \in Slots |-> NoSlot]
      /\ Mrph_num = 0 /\ homo_num = 0 /\ OptInput = {} /\ Bnst_start = {} /\ Tag_start = {}
      /\ pre = "" /\ Sen_num = 0 /\ sen = 0 /\ saved = [i \in 0 .. (SENTENCE_MAX - 1) |-> NoSentence]
      /\ ents = 0 /\ parens = <<>> /\ part = 0 /\ freed = {}
  BY DEF Init
<1>2. IInv
  BY InitHolds
<1>3. slot \in [Slots -> SlotType] /\ \A i \in Slots : slot[i] = NoSlot
  <2>1. slot \in [Slots -> SlotType]
    BY <1>2 DEF IInv, SlotInv
  <2> QED
    BY <1>1, <2>1
<1>4. NoSlot.id < 1 /\ NoSlot.f = {} /\ NoSentence.f = {} /\ NoSentence.st = "none" /\ NoSentence.st # "kept"
  BY DEF NoSlot, NoSentence
<1>5. LineInv
  <2>1. \A i \in Slots : slot[i] \in Known(1)
    BY <1>3, <1>4 DEF Known
  <2>2. \A i \in Slots : ~ (i < 0)
    BY SlotBounds
  <2>3. Apart(slot, 0)
    BY <1>3, <1>4, <2>2 DEF Apart
  <2>4. \A S : Holds(slot, 0, S)
    BY NoneHeld, Zenon
  <2> QED
    BY <1>1, <1>3, <2>1, <2>3, <2>4, Zenon DEF LineInv, LinesKnown
<1>6. PartInv
  <2>1. Len(parens) = 0
    BY <1>1
  <2>2. \A k : k \notin 1 .. 0
    OBVIOUS
  <2> QED
    BY <2>1, <2>2, Zenon DEF PartInv, PartsKnown
<1>7. BlameInv
  BY <1>1 DEF BlameInv
<1>8. ReadInv
  <2>1. MRPH_MAX \in Nat
    BY LimitsAssumption
  <2>2. homo_num = 0 /\ OptInput = {} /\ Bnst_start = {} /\ Tag_start = {}
    BY <1>1, Zenon
  <2>3. 0 \in 0 .. MRPH_MAX
    BY <2>1
  <2> QED
    BY <2>2, <2>3 DEF ReadInv
<1>9. EntityInv
  <2>1. ENTITY_MAX \in Nat
    BY LimitsAssumption
  <2>2. pc = "ready" /\ Sen_num = 0 /\ ents = 0 /\ part = 0
    BY <1>1, Zenon
  <2> QED
    BY <2>1, <2>2 DEF EntityInv
<1>10. SavedInv
  <2>0. sen = 0
    BY <1>1, Zenon
  <2>1. 0 \in 0 .. sen /\ {} \in SUBSET (1 .. Len(text))
    BY <2>0
  <2>2. NoSentence \in EntryType(text, sen)
    BY <2>1 DEF NoSentence, EntryType
  <2> QED
    BY <1>1, <2>2, Zenon DEF SavedInv
<1>11. KeepInv
  <2>1. \A i \in DOMAIN saved : saved[i] = NoSentence
    BY <1>1, Zenon
  <2>2. \A i \in DOMAIN saved : saved[i].f = {} /\ saved[i].st = "none" /\ saved[i].st # "kept" /\ saved[i].st # "freed"
    BY <2>1, <1>4
  <2>3. \A H, G : Keeps(pos, saved, freed, H, G)
    BY <1>1, <2>2 DEF Keeps
  <2> QED
    BY <1>1, <2>2, <2>3 DEF KeepInv
<1>12. PreInv
  <2>1. {q \in 1 .. (1 - 1) : text[q].k = "#"} = {}
    OBVIOUS
  <2>2. ArticleBefore(text, 1) = ""
    BY <2>1, Zenon DEF ArticleBefore
  <2> QED
    BY <1>1, <2>2 DEF PreInv
<1>13. HereInv
  <2>0. Sen_num = 0 /\ SENTENCE_MAX \in Nat
    BY <1>1, LimitsAssumption
  <2>1. Sen_num <= SENTENCE_MAX /\ \A i : i \notin 0 .. (Sen_num - 1)
    BY <2>0
  <2>2. HereAfter
    BY <2>1, Zenon DEF HereAfter, HereAll
  <2>3. ~ Before /\ pc # "end"
    BY <1>1 DEF Before
  <2> QED
    BY <2>2, <2>3, Zenon DEF HereInv
<1> QED
  BY <1>2, <1>5, <1>6, <1>7, <1>8, <1>9, <1>10, <1>11, <1>12, <1>13, Zenon DEF FullInv

LEMMA StepFull == FullInv /\ [Next]_vars => FullInv'
<1> SUFFICES ASSUME FullInv, [Next]_vars PROVE FullInv'
  OBVIOUS
<1>1. /\ IInv /\ LineInv /\ PartInv /\ BlameInv /\ ReadInv /\ EntityInv /\ SavedInv /\ KeepInv
      /\ PreInv /\ HereInv
  BY Zenon DEF FullInv
<1>2. IInv'
  BY <1>1, StepKeeps, Zenon
<1>3. LineInv' /\ PartInv'
  BY <1>1, <1>2, StepKnown, Zenon
<1>4. BlameInv' /\ ReadInv' /\ EntityInv'
  BY <1>1, <1>2, StepBlame, StepRead, StepEntities, Zenon
<1>5. SavedInv' /\ KeepInv'
  BY <1>1, <1>2, StepSaved, StepKept, Zenon
<1>6. PreInv' /\ HereInv'
  BY <1>1, StepPre, StepHere, Zenon
<1> QED
  BY <1>2, <1>3, <1>4, <1>5, <1>6, Zenon DEF FullInv

LEMMA FullInvariant == Spec => []FullInv
BY InitFull, StepFull, PTL DEF Spec

\* The operators of the properties are those for the text.
LEMMA SameOperators ==
  /\ \A p : Number(p) = NumberIn(text, p)
  /\ \A n, K : LinesOf(n, K) = LinesIn(text, n, K)
  /\ \A n : LinesOf(n, {"m", "@"}) = WordLines(text, n)
  /\ \A n : Failed(n) <=> FailedIn(text, n)
  /\ AllRead <=> Readable(text, sen)
  /\ \A n : Article(n) = ArticleIn(text, n)
<1>1. \A p : Number(p) = NumberIn(text, p)
  BY Zenon DEF Number, NumberIn
<1>2. \A n, K : LinesOf(n, K) = LinesIn(text, n, K)
  BY <1>1, Zenon DEF LinesOf, LinesIn
<1>3. \A n : LinesOf(n, {"m", "@"}) = WordLines(text, n)
  BY <1>1, Zenon DEF LinesOf, WordLines
<1>4. ASSUME NEW n PROVE Failed(n) <=> FailedIn(text, n)
  BY <1>2, <1>3, Zenon DEF Failed, FailedIn
<1>5. AllRead <=> Readable(text, sen)
  BY <1>1, <1>4, Zenon DEF AllRead, Readable
<1>6. ASSUME NEW n PROVE Article(n) = ArticleIn(text, n)
  <2> DEFINE c == {p \in DOMAIN text : Number(p) <= n /\ text[p].k = "#"}
             d == {p \in DOMAIN text : NumberIn(text, p) <= n /\ text[p].k = "#"}
             last(S) == IF S = {} THEN "" ELSE text[CHOOSE p \in S : \A q \in S : q <= p].a
  <2>1. c = d
    BY <1>1
  <2>2. Article(n) = last(c) /\ ArticleIn(text, n) = last(d)
    BY DEF Article, ArticleIn
  <2> HIDE DEF c, d, last
  <2> QED
    BY <2>1, <2>2, Zenon
<1> QED
  BY <1>1, <1>2, <1>3, <1>4, <1>5, <1>6, Zenon


\* The type of a slot and of a list of sentences, in terms of the invariants.
LEMMA SlotTyped ==
  ASSUME NEW t \in Texts, NEW p \in 1 .. (Len(t) + 1), NEW s \in [Slots -> SlotType],
         \A i \in Slots : s[i] \in Known(p)
  PROVE  s \in [Slots -> [id : 0 .. Len(t), w : Words, f : SUBSET (1 .. Len(t))]]
<1>1. Len(t) \in Nat
  BY TextFacts
<1>2. ASSUME NEW x \in Known(p)
      PROVE  x \in [id : 0 .. Len(t), w : Words, f : SUBSET (1 .. Len(t))]
  <2>1. x \in SlotType /\ x.id < p /\ \A q \in x.f : q >= 1 /\ q < p
    BY Zenon DEF Known
  <2>2. x.id \in Nat /\ x.w \in Words /\ x.f \in SUBSET Nat
    BY <2>1 DEF SlotType
  <2>3. x.id \in 0 .. Len(t)
    BY <1>1, <2>1, <2>2
  <2>4. x.f \in SUBSET (1 .. Len(t))
    BY <1>1, <2>1, <2>2
  <2> QED
    BY <2>1, <2>2, <2>3, <2>4 DEF SlotType
<1>3. \A i \in Slots : s[i] \in [id : 0 .. Len(t), w : Words, f : SUBSET (1 .. Len(t))]
  BY <1>2, Zenon
<1> QED
  BY <1>3

LEMMA FullTyped == FullInv => TypeOK
<1> SUFFICES ASSUME FullInv PROVE TypeOK
  OBVIOUS
<1>1. /\ IInv /\ LineInv /\ PartInv /\ BlameInv /\ ReadInv /\ EntityInv /\ SavedInv /\ KeepInv
      /\ PreInv /\ HereInv
  BY Zenon DEF FullInv
<1>2. /\ text \in Texts /\ pos \in 1 .. (Len(text) + 1) /\ sen \in Nat
      /\ pc \in {"ready", "read", "skip", "prepare", "analyse", "next", "end"}
  BY <1>1, Zenon DEF IInv, TextInv
<1>3. slot \in [Slots -> [id : 0 .. Len(text), w : Words, f : SUBSET (1 .. Len(text))]]
  <2>1. slot \in [Slots -> SlotType] /\ \A i \in Slots : slot[i] \in Known(pos)
    BY <1>1, Zenon DEF LineInv, LinesKnown
  <2> QED
    BY <1>2, <2>1, SlotTyped
<1>4. Mrph_num \in 0 .. MRPH_MAX /\ homo_num \in 0 .. MRPH_MAX
  BY <1>1, Zenon DEF IInv, CountInv, ReadInv
<1>5. pc \in {"read", "prepare", "analyse"} => homo_num <= Mrph_num
  <2>1. pc = "read" => homo_num = 0 \/ homo_num < Mrph_num
    BY <1>1, Zenon DEF IInv, CountInv
  <2>2. pc \in {"prepare", "analyse"} => homo_num = 0
    BY <1>1 DEF ReadInv
  <2>3. MRPH_MAX \in Nat
    BY LimitsAssumption
  <2> QED
    BY <1>4, <2>1, <2>2, <2>3
<1>6. OptInput \subseteq {"PARSED", "CHUNKED", "BNST"}
      /\ Bnst_start \subseteq 0 .. MRPH_MAX /\ Tag_start \subseteq 0 .. MRPH_MAX
  BY <1>1, Zenon DEF ReadInv
<1>7. Sen_num \in Nat /\ ents \in 0 .. ENTITY_MAX /\ part \in Nat
  BY <1>1, Zenon DEF EntityInv
<1>8. ASSUME Ellipsis, AllRead PROVE Sen_num <= SENTENCE_MAX + 1
  <2>1. Readable(text, sen)
    BY <1>8, SameOperators, Zenon
  <2>2. Readable(text, sen - 1)
    BY <1>2, <2>1, ReadableLess
  <2>3. Before => HereBefore
    BY <1>1, <1>8, <2>2, Zenon DEF HereInv
  <2>4. After => HereAfter
    BY <1>1, <1>8, <2>1, Zenon DEF HereInv
  <2>5. pc = "end" => Sen_num <= SENTENCE_MAX + 1
    BY <1>1, <1>8, <2>2, Zenon DEF HereInv
  <2>6. Before \/ After \/ pc = "end"
    BY <1>2, <1>7 DEF Before, After
  <2>7. HereBefore => Sen_num <= SENTENCE_MAX + 1
    BY Zenon DEF HereBefore
  <2>8. HereAfter => Sen_num <= SENTENCE_MAX
    BY Zenon DEF HereAfter
  <2>9. SENTENCE_MAX \in Nat
    BY LimitsAssumption
  <2>10. HereAfter => Sen_num <= SENTENCE_MAX + 1
    BY <1>7, <2>8, <2>9
  <2> QED
    BY <2>3, <2>4, <2>5, <2>6, <2>7, <2>10, Zenon
<1>9. saved \in [0 .. SENTENCE_MAX - 1 -> [sen : 0 .. sen, f : SUBSET (1 .. Len(text)),
                                           st : {"none", "kept", "freed"}]]
  BY <1>1, Zenon DEF SavedInv, EntryType
<1> QED
  BY <1>2, <1>3, <1>4, <1>5, <1>6, <1>7, <1>8, <1>9, Zenon DEF TypeOK

\* Every index into mrph_data, bnst_data, tag_data, sentence_data and entity_data
\* is in its array: read_mrph, init_bnst, PreserveSentence and the entities that
\* -anaphora makes for a sentence and a parenthesis cut out of it stay within the
\* limits of const.h.
THEOREM TypeCorrect == Spec => []TypeOK
BY FullInvariant, FullTyped, PTL

LEMMA FullKept == FullInv => ContextKept
<1> SUFFICES ASSUME FullInv PROVE ContextKept
  OBVIOUS
<1>1. /\ IInv /\ KeepInv /\ PreInv /\ HereInv
  BY Zenon DEF FullInv
<1>2. /\ text \in Texts /\ pos \in 1 .. (Len(text) + 1) /\ sen \in Nat
      /\ pc \in {"ready", "prepare"} =>
           NumberIn(text, pos) = sen + 1 /\ (pos = 1 \/ text[pos - 1].k = "E")
  BY <1>1 DEF IInv, TextInv
<1>3. ASSUME NEW i \in DOMAIN saved, saved[i].st = "kept"
      PROVE  /\ saved[i].f \cap freed = {}
             /\ pc \in {"read", "skip", "prepare"} => saved[i].f \cap FeaturesOf(slot, Slots) = {}
  <2>1. Ellipsis
    BY <1>1, <1>3, Zenon DEF KeepInv
  <2>2. Keeps(pos, saved, freed, HeldIn(slot, parens), Loose)
    BY <1>1, <2>1, Zenon DEF KeepInv
  <2>3. saved[i].f \cap freed = {} /\ \A g \in Loose : saved[i].f \cap g = {}
    BY <1>3, <2>2, Zenon DEF Keeps
  <2>4. ASSUME pc \in {"read", "skip", "prepare"}
        PROVE  saved[i].f \cap FeaturesOf(slot, Slots) = {}
    <3>1. ~ Busy
      BY <2>4 DEF Busy
    <3>2. Loose = HeldIn(slot, parens)
      BY <3>1 DEF Loose
    <3>3. \A j \in Slots : slot[j].f \in Loose
      BY <3>2, Zenon DEF HeldIn
    <3>4. \A j \in Slots : saved[i].f \cap slot[j].f = {}
      BY <2>3, <3>3, Zenon
    <3>5. ASSUME NEW q \in saved[i].f, q \in FeaturesOf(slot, Slots) PROVE FALSE
      <4>1. PICK j \in Slots : q \in slot[j].f
        BY <3>5, Zenon DEF FeaturesOf
      <4>2. q \in saved[i].f \cap slot[j].f
        BY <4>1, Zenon
      <4> QED
        BY <3>4, <4>2
    <3> QED
      BY <3>5, Zenon
  <2> QED
    BY <2>3, <2>4
<1>4. ASSUME Ellipsis, AllRead, pc \in {"prepare", "ready"}
      PROVE  \A i \in (IF pc = "ready" THEN 0 .. Sen_num - 1 ELSE Kept) :
               /\ saved[i].st = "kept" /\ saved[i].sen = sen - (Sen_num - 1) + i
               /\ Article(saved[i].sen) = Article(sen)
  <2> DEFINE off == sen - (Sen_num - 1)
             last == IF pc = "ready" THEN Sen_num - 1 ELSE Sen_num - 2
  <2>1. Readable(text, sen)
    BY <1>4, SameOperators, Zenon
  <2>2. Readable(text, sen - 1)
    BY <1>2, <2>1, ReadableLess
  <2>3. pc = "prepare" => HereBefore
    <3>1. pc = "prepare" => Before
      BY DEF Before
    <3> QED
      BY <1>1, <1>4, <2>2, <3>1, Zenon DEF HereInv
  <2>4. pc = "ready" => HereAfter
    <3>1. pc = "ready" => After
      BY DEF After
    <3> QED
      BY <1>1, <1>4, <2>1, <3>1, Zenon DEF HereInv
  <2>5. HereAll(text, pre, saved, off, last)
    <3>1. CASE pc = "ready"
      BY <2>4, <3>1 DEF HereAfter
    <3>2. CASE pc = "prepare"
      BY <2>3, <3>2 DEF HereBefore
    <3> QED
      BY <1>4, <3>1, <3>2
  <2>6. pre = ArticleBefore(text, pos)
    <3>1. (pc = "prepare" => pc \in {"read", "prepare"}) /\ (pc = "ready" => pc \in {"ready", "analyse", "next"})
      OBVIOUS
    <3> QED
      BY <1>1, <1>4, <2>1, <2>2, <3>1 DEF PreInv
  <2>7. ArticleIn(text, sen) = ArticleBefore(text, pos)
    <3>1. NumberIn(text, pos) = sen + 1 /\ (pos = 1 \/ text[pos - 1].k = "E")
      BY <1>2, <1>4
    <3> QED
      BY <1>2, <3>1, ArticleSame
  <2>8. (IF pc = "ready" THEN 0 .. Sen_num - 1 ELSE Kept) = 0 .. last
    BY DEF Kept
  <2> HIDE DEF off, last
  <2>9. ASSUME NEW i \in 0 .. last
        PROVE  saved[i].st = "kept" /\ saved[i].sen = off + i /\ Article(saved[i].sen) = Article(sen)
    <3>1. saved[i].st = "kept" /\ saved[i].sen = off + i /\ ArticleIn(text, off + i) = pre
      BY <2>5, Zenon DEF HereAll
    <3>2. Article(off + i) = ArticleIn(text, off + i) /\ Article(sen) = ArticleIn(text, sen)
      BY SameOperators, Zenon
    <3>3. Article(off + i) = Article(sen)
      BY <2>6, <2>7, <3>1, <3>2, Zenon
    <3> QED
      BY <3>1, <3>3, Zenon
  <2> QED
    BY <2>8, <2>9 DEF off
<1> QED
  BY <1>3, <1>4, Zenon DEF ContextKept

\* What corefer_analysis and the anaphora analysis look up by Sen_num is there:
\* the sentences kept by PreserveSentence are those just before, in order and of
\* the same article, and neither clear_mrph_features nor ClearSentence frees the
\* features of one that is kept, or leaves them in a slot that read_mrph fills.
THEOREM ContextKeptAlways == Spec => []ContextKept
BY FullInvariant, FullKept, PTL
-----------------------------------------------------------------------------
(* What has been printed                                                   *)

\* A sentence and the mark after what is printed of it.
Answers == Nat \X {"EOS", "EOP"}

EosOf(o) == {p \in DOMAIN o : o[p][2] = "EOS"}
UpTo(S, p) == {q \in S : q <= p}

\* InOrder, by the two sets it is about.
LEMMA InOrderIs ==
  ASSUME NEW o, NEW n
  PROVE  InOrder(o, n) <=> /\ Cardinality(EosOf(o)) = n
                           /\ \A p \in EosOf(o) : o[p][1] = Cardinality(UpTo(EosOf(o), p))
BY Zenon DEF InOrder, EosOf, UpTo

\* The marks printed are finitely many lines of the output.
LEMMA EosFinite ==
  ASSUME NEW o \in Seq(Answers)
  PROVE  IsFiniteSet(EosOf(o)) /\ EosOf(o) \subseteq 1 .. Len(o) /\ Len(o) \in Nat
<1>1. Len(o) \in Nat /\ DOMAIN o = 1 .. Len(o)
  OBVIOUS
<1>2. IsFiniteSet(1 .. Len(o))
  BY <1>1, FS_Interval
<1>3. EosOf(o) \subseteq 1 .. Len(o)
  BY <1>1, Zenon DEF EosOf
<1> QED
  BY <1>1, <1>2, <1>3, FS_Subset

\* The next sentences are printed, in order.
LEMMA PrintedMany ==
  ASSUME NEW o \in Seq(Answers), NEW n \in Nat, InOrder(o, n), NEW q \in Seq(Answers),
         \A k \in 1 .. Len(q) : q[k] = <<n + k, "EOS">>
  PROVE  InOrder(o \o q, n + Len(q)) /\ o \o q \in Seq(Answers)
<1> DEFINE L == Len(o)
           m == Len(q)
           r == o \o q
           E == EosOf(o)
           I(b) == (L + 1) .. b
<1>1. /\ L \in Nat /\ m \in Nat /\ IsFiniteSet(E) /\ E \subseteq 1 .. L
      /\ Cardinality(E) = n /\ \A p \in E : o[p][1] = Cardinality(UpTo(E, p))
  BY EosFinite, InOrderIs
<1>2. /\ r \in Seq(Answers) /\ DOMAIN o = 1 .. L /\ DOMAIN r = 1 .. (L + m)
      /\ \A p \in 1 .. L : r[p] = o[p]
      /\ \A p \in (L + 1) .. (L + m) : r[p] = q[p - L] /\ p - L \in 1 .. m
  OBVIOUS
<1>3. ASSUME NEW p \in (L + 1) .. (L + m)
      PROVE  r[p][1] = n + (p - L) /\ r[p][2] = "EOS"
  <2>1. r[p] = <<n + (p - L), "EOS">>
    BY <1>2, <1>3
  <2> QED
    BY <2>1
<1> HIDE DEF L, m, r, E
<1>4. \A b \in Nat : L <= b => IsFiniteSet(I(b)) /\ Cardinality(I(b)) = b - L /\ E \cap I(b) = {}
  <2> SUFFICES ASSUME NEW b \in Nat, L <= b
               PROVE  IsFiniteSet(I(b)) /\ Cardinality(I(b)) = b - L /\ E \cap I(b) = {}
    OBVIOUS
  <2>1. IsFiniteSet(I(b)) /\ Cardinality(I(b)) = IF L + 1 > b THEN 0 ELSE b - (L + 1) + 1
    BY <1>1, FS_Interval
  <2>2. E \cap I(b) = {}
    BY <1>1
  <2> QED
    BY <1>1, <2>1, <2>2
<1>5. \A b \in Nat : L <= b => Cardinality(E \cup I(b)) = n + (b - L)
  <2> SUFFICES ASSUME NEW b \in Nat, L <= b
               PROVE  Cardinality(E \cup I(b)) = n + (b - L)
    OBVIOUS
  <2>1. IsFiniteSet(I(b)) /\ Cardinality(I(b)) = b - L /\ E \cap I(b) = {}
    BY <1>4
  <2>2. Cardinality(E \cap I(b)) = 0
    BY <2>1, FS_EmptySet
  <2>3. Cardinality(E \cup I(b)) = Cardinality(E) + Cardinality(I(b)) - Cardinality(E \cap I(b))
    BY <1>1, <2>1, FS_Union, Zenon
  <2> QED
    BY <1>1, <2>1, <2>2, <2>3
<1>6. EosOf(r) = E \cup I(L + m)
  <2>1. \A p : p \in 1 .. (L + m) <=> p \in 1 .. L \/ p \in (L + 1) .. (L + m)
    BY <1>1
  <2>2. \A p : p \in E <=> p \in 1 .. L /\ o[p][2] = "EOS"
    BY <1>2, Zenon DEF E, EosOf
  <2>3. \A p : p \in EosOf(r) <=> p \in 1 .. (L + m) /\ r[p][2] = "EOS"
    BY <1>2, Zenon DEF EosOf
  <2>4. \A p : p \in EosOf(r) <=> p \in E \/ p \in (L + 1) .. (L + m)
    BY <1>2, <1>3, <2>1, <2>2, <2>3, Zenon
  <2> QED
    BY <2>4, Zenon
<1>7. Cardinality(EosOf(r)) = n + m
  <2>1. L + m \in Nat /\ L <= L + m /\ (L + m) - L = m
    BY <1>1
  <2> QED
    BY <1>5, <1>6, <2>1, Zenon
<1>8. ASSUME NEW p \in EosOf(r)
      PROVE  r[p][1] = Cardinality(UpTo(EosOf(r), p))
  <2>1. CASE p \in E
    <3>1. UpTo(EosOf(r), p) = UpTo(E, p)
      <4>1. p \in Nat /\ p <= L /\ \A x \in I(L + m) : ~ (x <= p)
        BY <1>1, <2>1
      <4>2. \A x : x \in UpTo(EosOf(r), p) <=> x \in UpTo(E, p)
        BY <1>6, <4>1, Zenon DEF UpTo
      <4> QED
        BY <4>2, Zenon
    <3>2. p \in 1 .. L
      BY <1>1, <2>1
    <3> QED
      BY <1>1, <1>2, <2>1, <3>1, <3>2, Zenon
  <2>2. CASE p \in I(L + m)
    <3>1. p \in Nat /\ L <= p
      BY <1>1, <2>2
    <3>2. UpTo(EosOf(r), p) = E \cup I(p)
      <4>1. /\ \A x \in E : x <= p
            /\ \A x \in I(L + m) : x <= p <=> x \in I(p)
            /\ \A x \in I(p) : x \in I(L + m)
        BY <1>1, <2>2
      <4> HIDE DEF I
      <4>2. \A x : x \in UpTo(EosOf(r), p) <=> x \in E \cup I(p)
        BY <1>6, <4>1, Zenon DEF UpTo
      <4> QED
        BY <4>2, Zenon
    <3>3. r[p][1] = n + (p - L)
      BY <1>3, <2>2
    <3> QED
      BY <1>5, <3>1, <3>2, <3>3, Zenon
  <2> QED
    BY <1>6, <1>8, <2>1, <2>2, Zenon
<1>9. InOrder(r, n + m)
  BY <1>7, <1>8, InOrderIs
<1> QED
  BY <1>2, <1>9 DEF r, m

\* The next sentence is printed.
LEMMA PrintedOne ==
  ASSUME NEW o \in Seq(Answers), NEW n \in Nat \ {0}, InOrder(o, n - 1)
  PROVE  InOrder(Append(o, <<n, "EOS">>), n) /\ Append(o, <<n, "EOS">>) \in Seq(Answers)
<1> DEFINE q == <<<<n, "EOS">>>>
<1>1. <<n, "EOS">> \in Answers /\ n - 1 \in Nat /\ (n - 1) + 1 = n
  BY DEF Answers
<1>2. q \in Seq(Answers) /\ Len(q) = 1 /\ q[1] = <<n, "EOS">> /\ Append(o, <<n, "EOS">>) = o \o q
  BY <1>1
<1>3. \A k \in 1 .. 1 : k = 1
  OBVIOUS
<1> HIDE DEF q
<1>4. \A k \in 1 .. Len(q) : q[k] = <<(n - 1) + k, "EOS">>
  BY <1>1, <1>2, <1>3
<1>5. InOrder(o \o q, (n - 1) + Len(q)) /\ o \o q \in Seq(Answers)
  BY <1>1, <1>2, <1>4, PrintedMany
<1> QED
  BY <1>1, <1>2, <1>5

\* A part of a sentence is printed.
LEMMA PrintedPart ==
  ASSUME NEW o \in Seq(Answers), NEW n \in Nat, InOrder(o, n), NEW x \in Nat
  PROVE  InOrder(Append(o, <<x, "EOP">>), n) /\ Append(o, <<x, "EOP">>) \in Seq(Answers)
<1> DEFINE L == Len(o)
           r == Append(o, <<x, "EOP">>)
           E == EosOf(o)
<1>1. /\ L \in Nat /\ Cardinality(E) = n /\ \A p \in E : o[p][1] = Cardinality(UpTo(E, p))
  BY EosFinite, InOrderIs
<1>2. /\ DOMAIN o = 1 .. L /\ DOMAIN r = 1 .. (L + 1)
      /\ \A p \in 1 .. L : r[p] = o[p]
      /\ r[L + 1] = <<x, "EOP">>
  OBVIOUS
<1>3. r[L + 1][2] # "EOS"
  BY <1>2
<1>4. r \in Seq(Answers)
  <2>1. <<x, "EOP">> \in Answers
    BY DEF Answers
  <2> QED
    BY <2>1
<1> HIDE DEF L, r, E
<1>5. \A p : p \in 1 .. (L + 1) <=> p \in 1 .. L \/ p = L + 1
  BY <1>1
<1>6. EosOf(r) = E
  <2>1. \A p : p \in E <=> p \in 1 .. L /\ o[p][2] = "EOS"
    BY <1>2, Zenon DEF E, EosOf
  <2>2. \A p : p \in EosOf(r) <=> p \in 1 .. (L + 1) /\ r[p][2] = "EOS"
    BY <1>2, Zenon DEF EosOf
  <2>3. L + 1 \notin 1 .. L
    BY <1>1
  <2>4. \A p : p \in EosOf(r) <=> p \in E
    <3>1. \A p \in 1 .. L : r[p] = o[p] /\ p # L + 1
      BY <1>2, <2>3, Zenon
    <3>2. ASSUME NEW p, p \in E PROVE p \in EosOf(r)
      <4>1. p \in 1 .. L /\ o[p][2] = "EOS"
        BY <2>1, <3>2, Zenon
      <4> QED
        BY <1>5, <2>2, <3>1, <4>1, Zenon
    <3>3. ASSUME NEW p, p \in EosOf(r) PROVE p \in E
      <4>1. p \in 1 .. (L + 1) /\ r[p][2] = "EOS"
        BY <2>2, <3>3, Zenon
      <4>2. p \in 1 .. L
        BY <1>3, <1>5, <4>1, Zenon
      <4> QED
        BY <2>1, <3>1, <4>1, <4>2, Zenon
    <3> QED
      BY <3>2, <3>3, Zenon
  <2> QED
    BY <2>4, Zenon
<1>7. \A p \in E : r[p][1] = Cardinality(UpTo(E, p))
  <2>1. \A p \in E : p \in 1 .. L
    BY <1>2, Zenon DEF E, EosOf
  <2> QED
    BY <1>1, <1>2, <2>1, Zenon
<1>8. InOrder(r, n)
  BY <1>1, <1>6, <1>7, InOrderIs, Zenon
<1> QED
  BY <1>4, <1>8 DEF r
-----------------------------------------------------------------------------
(* What has been answered                                                  *)

EosLines(t) == {p \in DOMAIN t : t[p].k = "E"}

\* Anaphora over the text, which is one article, fits and has no parentheses.
OneArticle(t, o) ==
  /\ o.mode = "whole"
  /\ \A p \in DOMAIN t : t[p].k = "#" /\ NumberIn(t, p) > 1 => t[p].a = ArticleIn(t, 1)
  /\ Cardinality(EosLines(t)) <= SENTENCE_MAX
  /\ Clean(t, o, Cardinality(EosLines(t)))

AtOnce(o) == o.mode \in {"plain", "ellipsis", "each"}
Later(t, o) == o.mode = "article" \/ OneArticle(t, o)

\* The sentences that are not kept back have been answered.
HeldBack == Sen_num <= sen /\ InOrder(out, sen - Sen_num)

AnswerInv ==
  /\ opt \in Options /\ out \in Seq(Answers)
  /\ AtOnce(opt) => InOrder(out, IF pc = "ready" THEN sen ELSE sen - 1)
  /\ Later(text, opt) =>
       /\ Before /\ Readable(text, sen - 1) => HeldBack
       /\ After /\ Readable(text, sen) => HeldBack
       /\ pc = "end" /\ Readable(text, sen) => InOrder(out, sen - 1)
  /\ OneArticle(text, opt) =>
       /\ part = 0
       /\ Before /\ Readable(text, sen - 1) => Sen_num = sen
       /\ After /\ Readable(text, sen) => Sen_num = sen
  /\ pc = "end" => sen = 1 + Cardinality(EosLines(text))

\* What is kept, as it is printed.
LEMMA KeptTyped ==
  ASSUME IInv, EntityInv, SavedInv, Sen_num >= 1
  PROVE  /\ PrintKept(Kept) \in Seq(Answers) /\ Len(PrintKept(Kept)) = Sen_num - 1
         /\ \A k \in 1 .. (Sen_num - 1) :
              k - 1 \in 0 .. (Sen_num - 2) /\ PrintKept(Kept)[k] = <<Entry(k - 1).sen, "EOS">>
<1>1. Sen_num \in Nat /\ Sen_num - 1 \in Nat
  BY DEF EntityInv
<1>2. Cardinality(Kept) = Sen_num - 1
  <2>1. Kept = 0 .. (Sen_num - 2)
    BY DEF Kept
  <2>2. 0 \in Int /\ Sen_num - 2 \in Int
    BY <1>1
  <2>3. Cardinality(0 .. (Sen_num - 2)) = IF 0 > Sen_num - 2 THEN 0 ELSE (Sen_num - 2) - 0 + 1
    BY <2>2, FS_Interval
  <2> QED
    BY <1>1, <2>1, <2>3
<1>3. \A i : Entry(i).sen \in Nat
  <2> SUFFICES ASSUME NEW i PROVE Entry(i).sen \in Nat
    OBVIOUS
  <2>1. sen \in Nat
    BY DEF IInv, TextInv
  <2>2. \A x \in EntryType(text, sen) : x.sen \in Nat
    BY <2>1 DEF EntryType
  <2>3. CASE i \in DOMAIN saved
    <3>1. saved[i] \in EntryType(text, sen)
      BY <2>3, Zenon DEF SavedInv
    <3> QED
      BY <2>2, <2>3, <3>1, Zenon DEF Entry
  <2>4. CASE i \notin DOMAIN saved
    <3>1. Entry(i) = NoSentence
      BY <2>4, Zenon DEF Entry
    <3> QED
      BY <3>1 DEF NoSentence
  <2> QED
    BY <2>3, <2>4
<1>4. PrintKept(Kept) = [k \in 1 .. (Sen_num - 1) |-> <<Entry(k - 1).sen, "EOS">>]
  BY <1>2, Zenon DEF PrintKept
<1>5. \A k : <<Entry(k - 1).sen, "EOS">> \in Answers
  BY <1>3 DEF Answers
<1>6. \A k \in 1 .. (Sen_num - 1) : k - 1 \in 0 .. (Sen_num - 2)
  BY <1>1
<1>7. /\ PrintKept(Kept) \in Seq(Answers) /\ Len(PrintKept(Kept)) = Sen_num - 1
      /\ \A k \in 1 .. (Sen_num - 1) : PrintKept(Kept)[k] = <<Entry(k - 1).sen, "EOS">>
  <2> DEFINE f(k) == <<Entry(k - 1).sen, "EOS">>
  <2>1. \A k : f(k) \in Answers
    BY <1>5
  <2>2. PrintKept(Kept) = [k \in 1 .. (Sen_num - 1) |-> f(k)]
    BY <1>4
  <2> HIDE DEF f
  <2>3. /\ PrintKept(Kept) \in Seq(Answers) /\ Len(PrintKept(Kept)) = Sen_num - 1
        /\ \A k \in 1 .. (Sen_num - 1) : PrintKept(Kept)[k] = f(k)
    BY <1>1, <2>1, <2>2
  <2> QED
    BY <2>3 DEF f
<1> QED
  BY <1>6, <1>7

\* The sentences kept are the next to be answered.
LEMMA KeptPrinted ==
  ASSUME IInv, EntityInv, SavedInv, Sen_num >= 1, HereBefore, HeldBack, out \in Seq(Answers)
  PROVE  InOrder(out \o PrintKept(Kept), sen - 1)
<1>1. Sen_num \in Nat /\ sen \in Nat /\ Sen_num <= sen /\ SENTENCE_MAX \in Nat
  BY LimitsAssumption DEF IInv, TextInv, EntityInv, HeldBack
<1>2. PICK q : q = PrintKept(Kept)
  OBVIOUS
<1>3. /\ q \in Seq(Answers) /\ Len(q) = Sen_num - 1
      /\ \A k \in 1 .. (Sen_num - 1) : k - 1 \in 0 .. (Sen_num - 2) /\ q[k] = <<Entry(k - 1).sen, "EOS">>
  BY <1>2, KeptTyped
<1>4. \A i \in 0 .. (Sen_num - 2) : Entry(i).sen = (sen - (Sen_num - 1)) + i
  <2> SUFFICES ASSUME NEW i \in 0 .. (Sen_num - 2) PROVE Entry(i).sen = (sen - (Sen_num - 1)) + i
    OBVIOUS
  <2>1. Sen_num <= SENTENCE_MAX + 1 /\ saved[i].sen = (sen - (Sen_num - 1)) + i
    BY Zenon DEF HereBefore, HereAll
  <2>2. i \in 0 .. (SENTENCE_MAX - 1)
    BY <1>1, <2>1
  <2>3. i \in DOMAIN saved
    BY <2>2, Zenon DEF SavedInv
  <2> QED
    BY <2>1, <2>3, Zenon DEF Entry
<1>5. \A k \in 1 .. Len(q) : q[k] = <<(sen - Sen_num) + k, "EOS">>
  <2>1. \A k \in 1 .. (Sen_num - 1) : (sen - (Sen_num - 1)) + (k - 1) = (sen - Sen_num) + k
    BY <1>1
  <2>2. \A k \in 1 .. (Sen_num - 1) : Entry(k - 1).sen = (sen - Sen_num) + k
    BY <1>3, <1>4, <2>1, Zenon
  <2> QED
    BY <1>3, <2>2, Zenon
<1>6. sen - Sen_num \in Nat /\ (sen - Sen_num) + Len(q) = sen - 1
  BY <1>1, <1>3
<1>7. InOrder(out, sen - Sen_num)
  BY DEF HeldBack
<1>8. InOrder(out \o q, (sen - Sen_num) + Len(q))
  BY <1>3, <1>5, <1>6, <1>7, PrintedMany
<1> QED
  BY <1>2, <1>6, <1>8, Zenon

\* Nothing is printed, and the sentence in work is not finished.
LEMMA SameAnswer ==
  ASSUME AnswerInv, UNCHANGED <<text, opt, sen, Sen_num, out>>, OneArticle(text, opt) => part' = 0,
         Before' => Before, After' => After \/ ~ Readable(text, sen),
         pc' = "ready" <=> pc = "ready", pc' = "end" <=> pc = "end"
  PROVE  AnswerInv'
<1>1. /\ text' = text /\ opt' = opt /\ sen' = sen /\ Sen_num' = Sen_num /\ out' = out
  OBVIOUS
<1>2. HeldBack' <=> HeldBack
  BY <1>1 DEF HeldBack
<1>3. (IF pc' = "ready" THEN sen ELSE sen - 1) = (IF pc = "ready" THEN sen ELSE sen - 1)
  OBVIOUS
<1>4. opt' \in Options /\ out' \in Seq(Answers)
  BY <1>1, Zenon DEF AnswerInv
<1>5. AtOnce(opt') => InOrder(out', IF pc' = "ready" THEN sen' ELSE sen' - 1)
  BY <1>1, <1>3, Zenon DEF AnswerInv
<1>6. Later(text', opt') =>
        /\ Before' /\ Readable(text', sen' - 1) => HeldBack'
        /\ After' /\ Readable(text', sen') => HeldBack'
        /\ pc' = "end" /\ Readable(text', sen') => InOrder(out', sen' - 1)
  BY <1>1, <1>2, Zenon DEF AnswerInv
<1>7. OneArticle(text', opt') =>
        /\ part' = 0
        /\ Before' /\ Readable(text', sen' - 1) => Sen_num' = sen'
        /\ After' /\ Readable(text', sen') => Sen_num' = sen'
  BY <1>1, Zenon DEF AnswerInv
<1>8. pc' = "end" => sen' = 1 + Cardinality(EosLines(text'))
  BY <1>1, Zenon DEF AnswerInv
<1> QED
  BY <1>4, <1>5, <1>6, <1>7, <1>8, Zenon DEF AnswerInv

\* A sentence that cannot be read is answered at its EOS.
LEMMA FailAnswer ==
  ASSUME AnswerInv, pc \in {"read", "skip"}, Fail, UNCHANGED <<text, opt, sen, part>>, sen \in Nat \ {0},
         ~ Readable(text, sen)
  PROVE  AnswerInv'
<1>1. /\ pc' = "ready" /\ text' = text /\ opt' = opt /\ sen' = sen /\ part' = part
      /\ out' = IF Prints THEN Append(out, <<sen, "EOS">>) ELSE out
  BY DEF Fail
<1>2. /\ out \in Seq(Answers) /\ (AtOnce(opt) => InOrder(out, sen - 1))
      /\ OneArticle(text, opt) => part = 0
  <2>1. pc # "ready"
    OBVIOUS
  <2> QED
    BY <2>1 DEF AnswerInv
<1>3. Prints <=> AtOnce(opt)
  BY Zenon DEF Prints, AtOnce
<1>4. AtOnce(opt) => InOrder(out', sen) /\ out' \in Seq(Answers)
  BY <1>1, <1>2, <1>3, PrintedOne
<1>5. opt' \in Options /\ out' \in Seq(Answers)
  <2>1. opt \in Options
    BY Zenon DEF AnswerInv
  <2> QED
    BY <1>1, <1>2, <1>3, <1>4, <2>1
<1>6. ~ Before' /\ pc' # "end" /\ ~ Readable(text', sen')
  BY <1>1 DEF Before
<1>7. AtOnce(opt') => InOrder(out', IF pc' = "ready" THEN sen' ELSE sen' - 1)
  BY <1>1, <1>4
<1>8. OneArticle(text', opt') => part' = 0
  BY <1>1, <1>2
<1> QED
  BY <1>5, <1>6, <1>7, <1>8, Zenon DEF AnswerInv

\* The next sentence is begun.
LEMMA StartAnswer ==
  ASSUME IInv, EntityInv, AnswerInv, Start
  PROVE  AnswerInv'
<1>1. /\ pc = "ready" /\ pc' = "read" /\ UNCHANGED <<text, opt, out, part>>
      /\ sen' = sen + 1 /\ Sen_num' = Sen_num + 1
  BY DEF Start
<1>2. sen \in Nat /\ Sen_num \in Nat
  BY DEF IInv, TextInv, EntityInv
<1>3. sen' - 1 = sen /\ sen' - Sen_num' = sen - Sen_num /\ (Sen_num <= sen => Sen_num' <= sen')
  BY <1>1, <1>2
<1>4. ~ After' /\ pc' # "end" /\ After
  BY <1>1 DEF After
<1>5. HeldBack => HeldBack'
  BY <1>1, <1>3 DEF HeldBack
<1>6. AtOnce(opt') => InOrder(out', IF pc' = "ready" THEN sen' ELSE sen' - 1)
  BY <1>1, <1>3 DEF AnswerInv
<1>7. Later(text', opt') /\ Readable(text', sen' - 1) => HeldBack'
  BY <1>1, <1>3, <1>4, <1>5 DEF AnswerInv
<1>8. OneArticle(text', opt') => part' = 0 /\ (Readable(text', sen' - 1) => Sen_num' = sen')
  BY <1>1, <1>3, <1>4 DEF AnswerInv
<1>9. opt' \in Options /\ out' \in Seq(Answers)
  BY <1>1 DEF AnswerInv
<1> QED
  BY <1>4, <1>6, <1>7, <1>8, <1>9, Zenon DEF AnswerInv

\* Another article: what has been kept of the last one is printed with -article.
LEMMA CommentAnswer ==
  ASSUME IInv, EntityInv, SavedInv, HereInv, AnswerInv, Comment
  PROVE  AnswerInv'
<1>1. /\ pc = "read" /\ pc' = "read" /\ pos <= Len(text) /\ text[pos].k = "#"
      /\ UNCHANGED <<text, opt, sen, part>> /\ NewArticle(text[pos].a)
  BY DEF Comment, Reads, Line
<1>2. /\ text \in Texts /\ pos \in 1 .. Len(text) /\ sen \in Nat \ {0} /\ NumberIn(text, pos) = sen
  BY <1>1, PreFacts
<1>3. /\ Before /\ ~ After /\ Before' /\ ~ After' /\ pc' # "end" /\ pc # "ready" /\ pc' # "ready" /\ pc # "end"
  BY <1>1 DEF Before, After
<1>4. Sen_num \in Nat /\ Sen_num >= 1
  BY <1>3 DEF EntityInv
<1>5. CASE UNCHANGED <<Sen_num, out>>
  <2>1. UNCHANGED <<text, opt, sen, Sen_num, out>>
    BY <1>1, <1>5
  <2>2. OneArticle(text, opt) => part' = 0
    BY <1>1 DEF AnswerInv
  <2> QED
    BY <1>3, <2>1, <2>2, SameAnswer
<1>6. CASE text[pos].a # pre /\ Anaphora /\ Sen_num' = 1 /\ out' = out
  <2>1. opt.mode # "article"
    BY <1>6 DEF Anaphora
  <2>2. AtOnce(opt') => InOrder(out', IF pc' = "ready" THEN sen' ELSE sen' - 1)
    BY <1>1, <1>3, <1>6 DEF AnswerInv
  <2>3. ASSUME OneArticle(text, opt), Readable(text, sen - 1)
        PROVE  Sen_num' = sen' /\ HeldBack'
    <3>1. Sen_num = sen /\ HeldBack
      BY <1>3, <2>3, Zenon DEF AnswerInv, Later
    <3>2. HereBefore
      <4>1. Ellipsis
        BY <2>3 DEF OneArticle, Ellipsis
      <4> QED
        BY <1>3, <2>3, <4>1, Zenon DEF HereInv
    <3>3. ~ (sen > 1)
      <4> SUFFICES ASSUME sen > 1 PROVE FALSE
        OBVIOUS
      <4>1. 0 \in 0 .. (Sen_num - 2) /\ (sen - (Sen_num - 1)) + 0 = 1
        BY <1>2, <3>1
      <4>2. ArticleIn(text, 1) = pre
        BY <3>2, <4>1, Zenon DEF HereBefore, HereAll
      <4>3. pos \in DOMAIN text
        BY <1>2, TextFacts
      <4>4. text[pos].a = ArticleIn(text, 1)
        BY <1>1, <1>2, <2>3, <4>3, Zenon DEF OneArticle
      <4> QED
        BY <1>6, <4>2, <4>4
    <3>4. sen = 1
      BY <1>2, <3>3
    <3> QED
      BY <1>1, <1>6, <3>1, <3>4 DEF HeldBack
  <2>4. Later(text, opt) => OneArticle(text, opt)
    BY <2>1, Zenon DEF Later
  <2>5. Later(text', opt') /\ Readable(text', sen' - 1) => HeldBack'
    BY <1>1, <2>3, <2>4
  <2>6. OneArticle(text', opt') => part' = 0 /\ (Readable(text', sen' - 1) => Sen_num' = sen')
    BY <1>1, <2>3 DEF AnswerInv
  <2>7. opt' \in Options /\ out' \in Seq(Answers)
    BY <1>1, <1>6 DEF AnswerInv
  <2> QED
    BY <1>3, <2>2, <2>5, <2>6, <2>7, Zenon DEF AnswerInv
<1>7. CASE ~ Anaphora /\ Sen_num' = 1 /\ Ellipsis /\ out' = IF opt.mode = "article" THEN out \o PrintKept(Kept) ELSE out
  <2>1. ~ OneArticle(text, opt)
    BY <1>7 DEF OneArticle, Anaphora
  <2>2. AtOnce(opt) => opt.mode # "article"
    BY DEF AtOnce
  <2>3. AtOnce(opt') => InOrder(out', IF pc' = "ready" THEN sen' ELSE sen' - 1)
    BY <1>1, <1>3, <1>7, <2>2 DEF AnswerInv
  <2>4. out \in Seq(Answers) /\ PrintKept(Kept) \in Seq(Answers)
    BY <1>4, KeptTyped DEF AnswerInv
  <2>9. opt' \in Options
    BY <1>1 DEF AnswerInv
  <2>5. out' \in Seq(Answers)
    <3>1. \A u, v \in Seq(Answers) : u \o v \in Seq(Answers)
      OBVIOUS
    <3> QED
      BY <1>7, <2>4, <3>1
  <2>6. ASSUME opt.mode = "article", Readable(text, sen - 1)
        PROVE  HeldBack'
    <3>1. HeldBack
      BY <1>3, <2>6, Zenon DEF AnswerInv, Later
    <3>2. HereBefore
      BY <1>3, <1>7, <2>6, Zenon DEF HereInv
    <3>3. InOrder(out \o PrintKept(Kept), sen - 1)
      BY <1>4, <2>4, <3>1, <3>2, KeptPrinted
    <3>4. 1 <= sen
      BY <1>2
    <3>5. InOrder(out', sen - 1)
      BY <1>7, <2>6, <3>3
    <3> QED
      BY <1>1, <1>7, <3>4, <3>5 DEF HeldBack
  <2>7. Later(text', opt') /\ Readable(text', sen' - 1) => HeldBack'
    BY <1>1, <2>1, <2>6, Zenon DEF Later
  <2>8. ~ OneArticle(text', opt')
    BY <1>1, <2>1
  <2> QED
    BY <1>3, <2>3, <2>5, <2>7, <2>8, <2>9, Zenon DEF AnswerInv
<1>8. \/ UNCHANGED <<Sen_num, out>>
      \/ text[pos].a # pre /\ Anaphora /\ Sen_num' = 1 /\ out' = out
      \/ ~ Anaphora /\ Sen_num' = 1 /\ Ellipsis /\ out' = IF opt.mode = "article" THEN out \o PrintKept(Kept) ELSE out
  BY <1>1, Zenon DEF NewArticle, ClearContext, ClearSentences, context
<1> QED
  BY <1>5, <1>6, <1>7, <1>8

\* What the analysis of a part prints.
LEMMA AnalysePrints ==
  ASSUME IInv, EntityInv, Analyse
  PROVE  /\ AtOnce(opt) => out' = Append(out, <<sen, Mark>>)
         /\ opt.mode = "article" =>
              \/ Sen_num' = Sen_num /\ out' = out
              \/ Sen_num > SENTENCE_MAX /\ Sen_num' = 1 /\ out' = out \o PrintKept(Kept)
         /\ opt.mode = "whole" =>
              /\ out' = out \/ out' = Append(out, <<sen, Mark>>)
              /\ ~ TooManyBnst /\ Sen_num <= SENTENCE_MAX /\ part = 0 => Sen_num' = Sen_num /\ out' = out
<1> DEFINE clear == Sen_num > SENTENCE_MAX \/ (Anaphora /\ EntitiesFull)
<1>1. /\ TooManyBnst => /\ out' = IF PrintsPart THEN Append(out, <<sen, Mark>>) ELSE out
                        /\ Sen_num' = Sen_num
      /\ ~ TooManyBnst /\ ~ Ellipsis => out' = Append(out, <<sen, Mark>>) /\ Sen_num' = Sen_num
      /\ ~ TooManyBnst /\ Ellipsis =>
           /\ out' = IF clear /\ opt.mode = "article" THEN out \o PrintKept(Kept)
                     ELSE IF PrintsPart THEN Append(out, <<sen, Mark>>) ELSE out
           /\ Sen_num' = IF clear THEN 1 ELSE Sen_num
  BY Zenon DEF Analyse, Preserve, context
<1>2. /\ PrintsPart <=> AtOnce(opt) \/ (opt.mode = "whole" /\ part > 0)
      /\ AtOnce(opt) => opt.mode # "article" /\ opt.mode # "whole"
      /\ Ellipsis <=> opt.mode # "plain"
      /\ Anaphora <=> opt.mode \in {"each", "whole"}
  BY DEF PrintsPart, Prints, AtOnce, Ellipsis, Anaphora
<1>3. opt.mode = "whole" => ~ EntitiesFull
  <2>1. opt.mode = "whole" => ents = 0
    BY DEF EntityInv
  <2> QED
    BY <2>1, LimitsAssumption DEF EntitiesFull
<1>4. part \in Nat
  BY DEF EntityInv
<1>5. Sen_num <= SENTENCE_MAX => ~ (Sen_num > SENTENCE_MAX)
  BY LimitsAssumption DEF EntityInv
<1>6. AtOnce(opt) => out' = Append(out, <<sen, Mark>>)
  BY <1>1, <1>2, Zenon
<1>7. opt.mode = "article" =>
        \/ Sen_num' = Sen_num /\ out' = out
        \/ Sen_num > SENTENCE_MAX /\ Sen_num' = 1 /\ out' = out \o PrintKept(Kept)
  <2>1. opt.mode = "article" => ~ PrintsPart /\ Ellipsis /\ ~ Anaphora
    BY <1>2
  <2> QED
    BY <1>1, <2>1, Zenon
<1>8. ASSUME opt.mode = "whole"
      PROVE  /\ out' = out \/ out' = Append(out, <<sen, Mark>>)
             /\ ~ TooManyBnst /\ Sen_num <= SENTENCE_MAX /\ part = 0 => Sen_num' = Sen_num /\ out' = out
  <2>1. opt.mode # "article" /\ Ellipsis /\ ~ AtOnce(opt)
    BY <1>2, <1>8
  <2>2. part = 0 => ~ PrintsPart
    BY <1>2, <1>4, <2>1
  <2>3. out' = out \/ out' = Append(out, <<sen, Mark>>)
    BY <1>1, <2>1, Zenon
  <2>4. Sen_num <= SENTENCE_MAX => ~ clear
    BY <1>3, <1>5, <1>8
  <2> QED
    BY <1>1, <2>1, <2>2, <2>3, <2>4, Zenon
<1> QED
  BY <1>6, <1>7, <1>8

\* The number of a sentence read is one of those that end.
LEMMA SentenceCounted ==
  ASSUME NEW t \in Texts, NEW p \in 1 .. (Len(t) + 1), NEW n \in Nat, NumberIn(t, p) = n + 1
  PROVE  /\ n <= Cardinality(EosLines(t)) /\ Cardinality(EosLines(t)) \in Nat
         /\ p = Len(t) + 1 => n = Cardinality(EosLines(t))
<1> DEFINE D == {q \in 1 .. (p - 1) : t[q].k = "E"}
<1>1. DOMAIN t = 1 .. Len(t) /\ Len(t) \in Nat
  BY TextFacts
<1>2. IsFiniteSet(1 .. Len(t))
  BY <1>1, FS_Interval
<1>3. IsFiniteSet(EosLines(t))
  <2>1. EosLines(t) \subseteq 1 .. Len(t)
    BY <1>1 DEF EosLines
  <2> QED
    BY <1>2, <2>1, FS_Subset
<1>4. D \subseteq EosLines(t) /\ (p = Len(t) + 1 => D = EosLines(t))
  BY <1>1 DEF EosLines
<1>5. NumberIn(t, p) = 1 + Cardinality(D)
  BY Zenon DEF NumberIn
<1>6. IsFiniteSet(D) /\ Cardinality(D) <= Cardinality(EosLines(t))
  BY <1>3, <1>4, FS_Subset, Zenon
<1> HIDE DEF D
<1>7. Cardinality(D) \in Nat /\ Cardinality(EosLines(t)) \in Nat
  BY <1>3, <1>6, FS_CardinalityType
<1>8. n = Cardinality(D)
  BY <1>5, <1>7
<1> QED
  BY <1>4, <1>6, <1>7, <1>8

\* A part of a sentence has been analysed; the last one ends it.
LEMMA AnalyseAnswer ==
  ASSUME IInv, LineInv, EntityInv, SavedInv, HereInv, AnswerInv, Analyse
  PROVE  AnswerInv'
<1>1. /\ pc = "analyse" /\ pc' = (IF parens = <<>> THEN "ready" ELSE "next")
      /\ UNCHANGED <<text, opt, sen, part>>
  BY DEF Analyse
<1>2. /\ text \in Texts /\ sen \in Nat \ {0} /\ pos \in 2 .. (Len(text) + 1)
      /\ NumberIn(text, pos) = sen + 1
      /\ FailedIn(text, sen) => ~ Readable(text, sen)
  BY <1>1, AnalyseFacts
<1>3. /\ AtOnce(opt) => out' = Append(out, <<sen, Mark>>)
      /\ opt.mode = "article" =>
           \/ Sen_num' = Sen_num /\ out' = out
           \/ Sen_num > SENTENCE_MAX /\ Sen_num' = 1 /\ out' = out \o PrintKept(Kept)
      /\ opt.mode = "whole" =>
           /\ out' = out \/ out' = Append(out, <<sen, Mark>>)
           /\ ~ TooManyBnst /\ Sen_num <= SENTENCE_MAX /\ part = 0 => Sen_num' = Sen_num /\ out' = out
  BY AnalysePrints
<1>4. Mark = (IF parens = <<>> THEN "EOS" ELSE "EOP") /\ Mark \in {"EOS", "EOP"}
  BY DEF Mark
<1>5. /\ ~ Before' /\ pc' # "end" /\ (pc' = "ready" <=> parens = <<>>) /\ (Before \/ After)
      /\ (part = 0 => Before) /\ (part # 0 => After)
  <2>1. part \in Nat
    BY DEF EntityInv
  <2> QED
    BY <1>1, <2>1 DEF Before, After
<1>6. Sen_num \in Nat /\ Sen_num >= 1 /\ SENTENCE_MAX \in Nat
  BY <1>1, LimitsAssumption DEF EntityInv
<1>7. out \in Seq(Answers) /\ PrintKept(Kept) \in Seq(Answers)
  BY <1>6, KeptTyped DEF AnswerInv
<1>8. out' \in Seq(Answers)
  <2>1. <<sen, Mark>> \in Answers
    BY <1>2, <1>4 DEF Answers
  <2>2. Append(out, <<sen, Mark>>) \in Seq(Answers) /\ out \o PrintKept(Kept) \in Seq(Answers)
    BY <1>7, <2>1
  <2>3. AtOnce(opt) \/ opt.mode = "article" \/ opt.mode = "whole"
    <3>1. opt \in Options
      BY DEF AnswerInv
    <3> QED
      BY <3>1, OptionsAssumption DEF AtOnce, Modes
  <2> QED
    BY <1>3, <1>7, <2>2, <2>3
<1>9. ASSUME AtOnce(opt)
      PROVE  InOrder(out', IF pc' = "ready" THEN sen' ELSE sen' - 1)
  <2>1. InOrder(out, sen - 1) /\ sen - 1 \in Nat
    BY <1>1, <1>2, <1>9 DEF AnswerInv
  <2>2. CASE parens = <<>>
    <3>1. out' = Append(out, <<sen, "EOS">>)
      BY <1>3, <1>4, <1>9, <2>2
    <3>2. InOrder(out', sen)
      BY <1>2, <1>7, <2>1, <3>1, PrintedOne
    <3> QED
      BY <1>1, <1>5, <2>2, <3>2
  <2>3. CASE parens # <<>>
    <3>1. out' = Append(out, <<sen, "EOP">>)
      BY <1>3, <1>4, <1>9, <2>3
    <3>2. InOrder(out', sen - 1)
      BY <1>2, <1>7, <2>1, <3>1, PrintedPart
    <3> QED
      BY <1>1, <1>5, <2>3, <3>2
  <2> QED
    BY <2>2, <2>3
<1>10. ASSUME Later(text, opt), Readable(text, sen)
       PROVE  HeldBack /\ (part = 0 /\ Ellipsis => HereBefore) /\ (part # 0 /\ Ellipsis => HereAfter)
              /\ (OneArticle(text, opt) => part = 0 /\ Sen_num = sen)
  <2>1. Readable(text, sen - 1)
    BY <1>2, <1>10, ReadableLess
  <2>2. HeldBack
    BY <1>5, <1>10, <2>1, Zenon DEF AnswerInv
  <2>3. OneArticle(text, opt) => part = 0 /\ Sen_num = sen
    BY <1>5, <1>10, <2>1, Zenon DEF AnswerInv
  <2>4. (part = 0 /\ Ellipsis => HereBefore) /\ (part # 0 /\ Ellipsis => HereAfter)
    BY <1>5, <1>10, <2>1, Zenon DEF HereInv
  <2> QED
    BY <2>2, <2>3, <2>4
<1>11. ASSUME opt.mode = "article", Readable(text, sen)
       PROVE  HeldBack'
  <2>1. Later(text, opt) /\ Ellipsis
    BY <1>11 DEF Later, Ellipsis
  <2>2. HeldBack /\ (part = 0 => HereBefore) /\ (part # 0 => HereAfter)
    BY <1>10, <1>11, <2>1
  <2>3. CASE Sen_num' = Sen_num /\ out' = out
    BY <1>1, <2>2, <2>3 DEF HeldBack
  <2>4. CASE Sen_num > SENTENCE_MAX /\ Sen_num' = 1 /\ out' = out \o PrintKept(Kept)
    <3>1. ~ HereAfter
      BY <1>6, <2>4 DEF HereAfter
    <3>2. InOrder(out \o PrintKept(Kept), sen - 1)
      BY <1>6, <1>7, <2>2, <3>1, KeptPrinted
    <3>3. 1 <= sen
      BY <1>2
    <3> QED
      BY <1>1, <2>4, <3>2, <3>3 DEF HeldBack
  <2> QED
    BY <1>3, <1>11, <2>3, <2>4
<1>12. ASSUME OneArticle(text, opt), Readable(text, sen)
       PROVE  HeldBack' /\ Sen_num' = sen'
  <2>1. Later(text, opt) /\ opt.mode = "whole" /\ Cardinality(EosLines(text)) <= SENTENCE_MAX
    BY <1>12, Zenon DEF Later, OneArticle
  <2>2. HeldBack /\ part = 0 /\ Sen_num = sen
    BY <1>10, <1>12, <2>1
  <2>3. ~ TooManyBnst
    BY <1>2, <1>12, TooManyFails, Zenon
  <2>4. Sen_num <= SENTENCE_MAX
    <3>1. pos \in 1 .. (Len(text) + 1) /\ sen \in Nat
      BY <1>2
    <3>2. sen <= Cardinality(EosLines(text)) /\ Cardinality(EosLines(text)) \in Nat
      BY <1>2, <3>1, SentenceCounted
    <3> QED
      BY <1>6, <2>1, <2>2, <3>1, <3>2
  <2>5. Sen_num' = Sen_num /\ out' = out
    BY <1>3, <2>1, <2>2, <2>3, <2>4
  <2> QED
    BY <1>1, <2>2, <2>5 DEF HeldBack
<1>13. /\ text' = text /\ opt' = opt /\ sen' = sen /\ part' = part
  BY <1>1
<1>14. Later(text', opt') /\ Readable(text', sen') => HeldBack'
  BY <1>11, <1>12, <1>13, Zenon DEF Later
<1>15. OneArticle(text', opt') => part' = 0 /\ (Readable(text', sen') => Sen_num' = sen')
  <2>1. OneArticle(text, opt) => part = 0
    BY Zenon DEF AnswerInv
  <2> QED
    BY <1>12, <1>13, <2>1, Zenon
<1>17. opt' \in Options
  BY <1>13, Zenon DEF AnswerInv
<1>16. AtOnce(opt') => InOrder(out', IF pc' = "ready" THEN sen' ELSE sen' - 1)
  BY <1>9, <1>13, Zenon
<1> QED
  BY <1>5, <1>8, <1>14, <1>15, <1>16, <1>17, Zenon DEF AnswerInv

\* The end of the text: what has been kept back is printed.
LEMMA FinishAnswer ==
  ASSUME IInv, EntityInv, SavedInv, HereInv, AnswerInv, Finish
  PROVE  AnswerInv'
<1>1. /\ pc \in {"read", "skip"} /\ pos > Len(text) /\ pc' = "end"
      /\ out' = IF opt.mode \in {"article", "whole"} THEN out \o PrintKept(Kept) ELSE out
      /\ UNCHANGED <<text, opt, sen, Sen_num, part>>
  BY DEF Finish, context
<1>2. /\ text \in Texts /\ sen \in Nat \ {0} /\ pos \in 1 .. (Len(text) + 1) /\ NumberIn(text, pos) = sen
  BY <1>1 DEF IInv, TextInv
<1>3. Before /\ pc # "ready" /\ ~ Before' /\ ~ After'
  BY <1>1 DEF Before, After
<1>4. Sen_num \in Nat /\ Sen_num >= 1
  BY <1>3 DEF EntityInv
<1>5. out \in Seq(Answers) /\ PrintKept(Kept) \in Seq(Answers)
  BY <1>4, KeptTyped DEF AnswerInv
<1>6. opt' \in Options /\ out' \in Seq(Answers)
  <2>1. out \o PrintKept(Kept) \in Seq(Answers)
    BY <1>5
  <2>2. opt \in Options
    BY DEF AnswerInv
  <2> QED
    BY <1>1, <1>5, <2>1, <2>2
<1>7. AtOnce(opt') => InOrder(out', IF pc' = "ready" THEN sen' ELSE sen' - 1)
  BY <1>1, <1>3 DEF AnswerInv, AtOnce
<1>8. ASSUME Later(text, opt), Readable(text, sen)
      PROVE  InOrder(out', sen - 1)
  <2>1. Readable(text, sen - 1)
    BY <1>2, <1>8, ReadableLess
  <2>2. HeldBack
    BY <1>3, <1>8, <2>1, Zenon DEF AnswerInv
  <2>3. opt.mode \in {"article", "whole"} /\ Ellipsis
    BY <1>8 DEF Later, OneArticle, Ellipsis
  <2>4. HereBefore
    BY <1>3, <2>1, <2>3, Zenon DEF HereInv
  <2>5. InOrder(out \o PrintKept(Kept), sen - 1)
    BY <1>4, <1>5, <2>2, <2>4, KeptPrinted
  <2> QED
    BY <1>1, <2>3, <2>5
<1>9. sen' = 1 + Cardinality(EosLines(text'))
  <2>1. pos = Len(text) + 1
    BY <1>1, <1>2, TextFacts
  <2>2. sen - 1 \in Nat /\ (sen - 1) + 1 = sen
    BY <1>2
  <2>3. sen - 1 = Cardinality(EosLines(text)) /\ Cardinality(EosLines(text)) \in Nat
    BY <1>2, <2>1, <2>2, SentenceCounted
  <2> QED
    BY <1>1, <1>2, <2>3
<1>10. OneArticle(text', opt') => part' = 0
  BY <1>1 DEF AnswerInv
<1>11. Later(text', opt') /\ Readable(text', sen') => InOrder(out', sen' - 1)
  BY <1>1, <1>8
<1> QED
  BY <1>3, <1>6, <1>7, <1>9, <1>10, <1>11, Zenon DEF AnswerInv

\* Without parentheses there is no second part.
LEMMA NoSecondPart ==
  ASSUME IInv, OneArticle(text, opt)
  PROVE  ~ NextParen
<1> SUFFICES ASSUME NextParen PROVE FALSE
  OBVIOUS
<1>1. pc = "next"
  BY DEF NextParen
<1>2. /\ text \in Texts /\ sen \in Nat \ {0} /\ pos \in 2 .. (Len(text) + 1) /\ NumberIn(text, pos) = sen + 1
  BY <1>1, AnalyseFacts
<1>3. sen \in Nat /\ pos \in 1 .. (Len(text) + 1)
  BY <1>2
<1>4. sen <= Cardinality(EosLines(text)) /\ Cardinality(EosLines(text)) \in Nat
  BY <1>2, <1>3, SentenceCounted
<1>5. Clean(text, opt, sen)
  <2>1. \A m \in 1 .. sen : m \in 1 .. Cardinality(EosLines(text))
    BY <1>3, <1>4
  <2> QED
    BY <2>1, Zenon DEF OneArticle, Clean
<1>6. parens = <<>>
  BY <1>1, <1>5 DEF IInv, OwnInv
<1> QED
  BY <1>1, <1>6 DEF IInv, SlotInv

\* Every step keeps account of what has been answered.
LEMMA StepAnswer ==
  IInv /\ LineInv /\ BlameInv /\ EntityInv /\ SavedInv /\ HereInv /\ AnswerInv /\ [Next]_vars => AnswerInv'
<1>1. SUFFICES ASSUME IInv, LineInv, BlameInv, EntityInv, SavedInv, HereInv, AnswerInv, [Next]_vars
               PROVE  AnswerInv'
  OBVIOUS
<1>2. OneArticle(text, opt) => part = 0
  BY <1>1, Zenon DEF AnswerInv
<1>3. CASE UNCHANGED vars
  <2>1. UNCHANGED <<text, opt, sen, Sen_num, out, pc, part>>
    BY <1>3 DEF vars, context
  <2>2. (Before' => Before) /\ (After' => After)
    BY <2>1 DEF Before, After
  <2> QED
    BY <1>1, <1>2, <2>1, <2>2, SameAnswer
<1>4. CASE BnstLine \/ TagLine \/ Morpheme \/ Invalid
  <2>1. pc = "read" /\ pc' \in {"read", "skip"} /\ UNCHANGED <<text, opt, sen, Sen_num, out, part>>
    BY <1>4 DEF BnstLine, TagLine, Morpheme, Invalid, Reads, context
  <2>2. Before /\ ~ After'
    BY <2>1 DEF Before, After
  <2> QED
    BY <1>1, <1>2, <2>1, <2>2, SameAnswer
<1>5. CASE Skip
  <2>1. /\ pc = "skip" /\ pos <= Len(text) /\ UNCHANGED <<text, opt, sen, part, Sen_num>>
        /\ IF text[pos].k = "E" THEN Fail ELSE UNCHANGED <<pc, out>>
    BY <1>5 DEF Skip, Line, context
  <2>2. CASE text[pos].k = "E"
    <3>1. ~ Readable(text, sen)
      BY <1>1, <2>1, <2>2, FailUnreadable
    <3>2. sen \in Nat \ {0}
      BY <1>1, <2>1, PreFacts
    <3> QED
      BY <1>1, <2>1, <2>2, <3>1, <3>2, FailAnswer
  <2>3. CASE text[pos].k # "E"
    <3>1. Before /\ ~ After' /\ pc' = pc
      BY <2>1, <2>3 DEF Before, After
    <3> QED
      BY <1>1, <1>2, <2>1, <2>3, <3>1, SameAnswer
  <2> QED
    BY <2>2, <2>3
<1>6. CASE EndOfSentence
  <2>1. /\ pc = "read" /\ pos <= Len(text) /\ text[pos].k = "E" /\ UNCHANGED <<text, opt, sen, part, Sen_num>>
        /\ IF Mrph_num = 0 THEN Fail ELSE pc' = "prepare" /\ out' = out
    BY <1>6 DEF EndOfSentence, Reads, Line, context
  <2>2. CASE Mrph_num = 0
    <3>1. ~ Readable(text, sen)
      BY <1>1, <2>1, <2>2, FailUnreadable
    <3>2. sen \in Nat \ {0}
      BY <1>1, <2>1, PreFacts
    <3> QED
      BY <1>1, <2>1, <2>2, <3>1, <3>2, FailAnswer
  <2>3. CASE Mrph_num # 0
    <3>1. Before /\ ~ After'
      BY <2>1, <2>3 DEF Before, After
    <3> QED
      BY <1>1, <1>2, <2>1, <2>3, <3>1, SameAnswer
  <2> QED
    BY <2>2, <2>3
<1>7. CASE Preprocess
  <2>1. pc = "prepare" /\ pc' = "analyse" /\ part' = 0 /\ UNCHANGED <<text, opt, sen, Sen_num, out>>
    BY <1>7 DEF Preprocess, context
  <2>2. Before /\ ~ After'
    BY <2>1 DEF Before, After
  <2> QED
    BY <1>1, <2>1, <2>2, SameAnswer
<1>8. CASE NextParen
  <2>1. pc = "next" /\ pc' = "analyse" /\ part' = part + 1 /\ UNCHANGED <<text, opt, sen, Sen_num, out>>
    BY <1>8 DEF NextParen, context
  <2>2. ~ OneArticle(text, opt)
    BY <1>1, <1>8, NoSecondPart
  <2>3. part' # 0
    BY <1>1, <2>1 DEF EntityInv
  <2>4. After /\ ~ Before'
    BY <2>1, <2>3 DEF Before, After
  <2> QED
    BY <1>1, <2>1, <2>2, <2>4, SameAnswer
<1> QED
  BY <1>1, <1>3, <1>4, <1>5, <1>6, <1>7, <1>8, StartAnswer, CommentAnswer, AnalyseAnswer, FinishAnswer,
     Zenon DEF Next

\* Nothing has been printed at first, for no sentence.
LEMMA InitAnswer == Init => AnswerInv
<1> SUFFICES ASSUME Init PROVE AnswerInv
  OBVIOUS
<1>1. opt \in Options /\ pc = "ready" /\ Sen_num = 0 /\ sen = 0 /\ part = 0 /\ out = <<>>
  BY DEF Init
<1>2. out \in Seq(Answers) /\ EosOf(out) = {}
  BY <1>1 DEF EosOf
<1>3. InOrder(out, 0)
  <2>1. Cardinality(EosOf(out)) = 0
    BY <1>2, FS_EmptySet
  <2>2. \A p \in EosOf(out) : out[p][1] = Cardinality(UpTo(EosOf(out), p))
    BY <1>2, Zenon
  <2> QED
    BY <2>1, <2>2, InOrderIs
<1>4. HeldBack
  BY <1>1, <1>3 DEF HeldBack
<1>5. ~ Before /\ pc # "end"
  BY <1>1 DEF Before
<1>6. InOrder(out, IF pc = "ready" THEN sen ELSE sen - 1)
  BY <1>1, <1>3
<1> QED
  BY <1>1, <1>2, <1>4, <1>5, <1>6, Zenon DEF AnswerInv

\* What holds at the end of the text is what is promised there.
LEMMA EndAnswered == IInv /\ AnswerInv => Answered
<1> SUFFICES ASSUME IInv, AnswerInv, pc = "end" PROVE Answered
  BY Zenon DEF Answered
<1> DEFINE count == Cardinality({p \in DOMAIN text : text[p].k = "E"})
           one == \A p \in DOMAIN text : text[p].k = "#" /\ Number(p) > 1 => text[p].a = Article(1)
           parted == \E n \in 1 .. count : HasParen(n)
<1>1. count = Cardinality(EosLines(text))
  BY DEF EosLines
<1>2. sen = 1 + count
  BY <1>1 DEF AnswerInv
<1>3. count \in Nat
  <2>1. text \in Texts
    BY DEF IInv, TextInv
  <2>2. DOMAIN text = 1 .. Len(text) /\ Len(text) \in Nat
    BY <2>1, TextFacts
  <2>3. IsFiniteSet(1 .. Len(text))
    BY <2>2, FS_Interval
  <2>4. EosLines(text) \subseteq 1 .. Len(text)
    BY <2>2 DEF EosLines
  <2>5. IsFiniteSet(EosLines(text))
    BY <2>3, <2>4, FS_Subset
  <2> QED
    BY <1>1, <2>5, FS_CardinalityType
<1>4. one <=> \A p \in DOMAIN text : text[p].k = "#" /\ NumberIn(text, p) > 1 => text[p].a = ArticleIn(text, 1)
  <2>1. /\ \A p : Number(p) = NumberIn(text, p)
        /\ Article(1) = ArticleIn(text, 1)
    BY SameOperators, Zenon
  <2> QED
    BY <2>1
<1>5. ~ parted <=> Clean(text, opt, count)
  <2>1. \A n : HasParen(n) <=> Parenthesis(text, opt, n)
    BY Zenon DEF HasParen, Parenthesis, LinesOf, WordLines, Number, NumberIn
  <2> HIDE DEF count
  <2> QED
    BY <2>1, Zenon DEF Clean
<1>6. AllRead => Readable(text, sen)
  BY SameOperators, Zenon
<1>7. SENTENCE_MAX \in Nat
  BY LimitsAssumption
<1>8. Answered <=> \/ opt.mode \in {"article", "whole"} /\ ~ AllRead
                   \/ opt.mode = "whole" /\ (~ one \/ count > SENTENCE_MAX \/ parted)
                   \/ InOrder(out, count)
  BY Zenon DEF Answered
<1> HIDE DEF count, one, parted
<1>9. sen - 1 = count
  BY <1>2, <1>3
<1>10. AtOnce(opt) => InOrder(out, count)
  BY <1>9 DEF AnswerInv
<1>11. Later(text, opt) /\ AllRead => InOrder(out, count)
  BY <1>6, <1>9 DEF AnswerInv
<1>12. opt.mode \in Modes
  BY OptionsAssumption DEF AnswerInv
<1>13. CASE AtOnce(opt)
  BY <1>8, <1>10, <1>13, Zenon
<1>14. CASE opt.mode = "article"
  BY <1>8, <1>11, <1>14, Zenon DEF Later
<1>15. CASE opt.mode = "whole"
  <2>1. ~ (count > SENTENCE_MAX) <=> Cardinality(EosLines(text)) <= SENTENCE_MAX
    BY <1>1, <1>3, <1>7
  <2>2. one /\ ~ (count > SENTENCE_MAX) /\ ~ parted => OneArticle(text, opt)
    BY <1>1, <1>4, <1>5, <1>15, <2>1, Zenon DEF OneArticle
  <2> QED
    BY <1>8, <1>11, <1>15, <2>2, Zenon DEF Later
<1> QED
  BY <1>12, <1>13, <1>14, <1>15 DEF Modes, AtOnce

\* Every sentence of the text is answered by one EOS, in order, when the text
\* has been read: knp_main prints a sentence at once, print_all_result the
\* sentences kept back when a new article begins (ClearSentences) or the text
\* ends, and none of them twice.
THEOREM AnsweredAlways == Spec => []Answered
<1>1. Init => AnswerInv
  BY InitAnswer
<1>2. FullInv /\ AnswerInv /\ [Next]_vars => AnswerInv'
  BY StepAnswer, Zenon DEF FullInv
<1>3. FullInv /\ AnswerInv => Answered
  BY EndAnswered, Zenon DEF FullInv
<1> QED
  BY <1>1, <1>2, <1>3, FullInvariant, PTL DEF Spec
-----------------------------------------------------------------------------
(* Where phrases and tags begin                                            *)

\* Base for a given text, and what it is.
BaseIn(t, p) == CHOOSE q \in 1 .. p : t[q].k = "m" /\ \A r \in q + 1 .. p : t[r].k = "@"
BaseIs(t, p, q) == q \in 1 .. p /\ t[q].k = "m" /\ \A r \in q + 1 .. p : t[r].k = "@"

\* A line of kind k has been read since the last morpheme before line p.
Pending(t, n, p, k) ==
  \E q \in LinesIn(t, n, {k}) : q < p /\ \A r \in q + 1 .. p - 1 : t[r].k \notin {"m", "@"}

\* The c morphemes before line p, whose readings the slots s, m of them in use, are:
\* the ones behind the morphemes are other readings of the last one.
MorphemesIn(t, n, p, s, m, c) ==
  /\ \A i \in Slots : i < m => BaseIs(t, s[i].id, BaseIn(t, s[i].id)) /\ BaseIn(t, s[i].id) \in LinesIn(t, n, {"m"})
  /\ \A i \in Slots : i < m => BaseIn(t, s[0].id) <= BaseIn(t, s[i].id)
  /\ \A q \in LinesIn(t, n, {"m"}) : q < p => \E i \in Slots : i < c /\ BaseIn(t, s[i].id) = q
OtherReadings(t, s, m, c) ==
  \A i \in Slots : c <= i /\ i < m => c > 0 /\ BaseIn(t, s[i].id) = BaseIn(t, s[c - 1].id)

\* The last of the slots in use is the line read last.
LastRead(t, n, p, s, m) == \A q \in WordLines(t, n) : q < p => m > 0 /\ q <= s[m - 1].id

\* Of the morphemes before line p those in S, a set of slots, begin something of
\* kind k, and so will the next one if its slot is in S.
BeginIn(t, n, p, k, s, c, S) ==
  /\ \A i \in Slots : i < c => (i \in S <=> Pending(t, n, BaseIn(t, s[i].id), k))
  /\ c \in S <=> Pending(t, n, p, k)
  /\ \A i \in S : i <= c

LEMMA BaseOf ==
  ASSUME NEW t, NEW p \in Nat, NEW q, BaseIs(t, p, q)
  PROVE  BaseIn(t, p) = q
<1> DEFINE x == BaseIn(t, p)
<1>1. \E y \in 1 .. p : t[y].k = "m" /\ \A r \in y + 1 .. p : t[r].k = "@"
  BY Zenon DEF BaseIs
<1>2. x \in 1 .. p /\ t[x].k = "m" /\ \A r \in x + 1 .. p : t[r].k = "@"
  BY <1>1, Zenon DEF BaseIn
<1>3. q \in 1 .. p /\ t[q].k = "m" /\ \A r \in q + 1 .. p : t[r].k = "@"
  BY Zenon DEF BaseIs
<1> HIDE DEF x
<1>4. x \notin q + 1 .. p /\ q \notin x + 1 .. p
  BY <1>2, <1>3
<1>5. x = q
  BY <1>2, <1>3, <1>4
<1> QED
  BY <1>5 DEF x

\* A morpheme is its own base, another reading has that of the line before it.
LEMMA BaseSelf ==
  ASSUME NEW t, NEW p \in Nat \ {0}, t[p].k = "m"
  PROVE  BaseIs(t, p, p) /\ BaseIn(t, p) = p
<1>1. BaseIs(t, p, p)
  BY DEF BaseIs
<1> QED
  BY <1>1, BaseOf

LEMMA BaseNext ==
  ASSUME NEW t, NEW p \in Nat \ {0}, t[p].k = "@", NEW q, BaseIs(t, p - 1, q)
  PROVE  BaseIs(t, p, q) /\ BaseIn(t, p) = q
<1>1. q \in 1 .. p - 1 /\ t[q].k = "m" /\ \A r \in q + 1 .. p - 1 : t[r].k = "@"
  BY DEF BaseIs
<1>2. \A r \in q + 1 .. p : r \in q + 1 .. p - 1 \/ r = p
  BY <1>1
<1>3. q \in 1 .. p
  BY <1>1
<1>4. BaseIs(t, p, q)
  BY <1>1, <1>2, <1>3, Zenon DEF BaseIs
<1> QED
  BY <1>4, BaseOf

\* Nothing is pending after a morpheme; other lines leave it.
LEMMA PendingWord ==
  ASSUME NEW t \in Texts, NEW n, NEW p \in Nat \ {0}, NEW k, k \notin {"m", "@"}, t[p].k \in {"m", "@"}
  PROVE  ~ Pending(t, n, p + 1, k)
<1> SUFFICES ASSUME Pending(t, n, p + 1, k) PROVE FALSE
  OBVIOUS
<1>1. PICK q \in LinesIn(t, n, {k}) : q < p + 1 /\ \A r \in q + 1 .. (p + 1) - 1 : t[r].k \notin {"m", "@"}
  BY Zenon DEF Pending
<1>2. q \in Nat /\ t[q].k = k
  BY TextFacts DEF LinesIn
<1>3. q # p
  BY <1>2
<1>4. p \in q + 1 .. (p + 1) - 1
  BY <1>1, <1>2, <1>3
<1> QED
  BY <1>1, <1>4, Zenon

LEMMA PendingOther ==
  ASSUME NEW t \in Texts, NEW n, NEW p \in Nat \ {0}, NEW k, t[p].k # k, t[p].k \notin {"m", "@"}
  PROVE  Pending(t, n, p + 1, k) <=> Pending(t, n, p, k)
<1>1. \A q \in LinesIn(t, n, {k}) : q \in Nat /\ q # p
  BY TextFacts DEF LinesIn
<1>2. \A q \in Nat : q # p => (q < p + 1 <=> q < p)
  OBVIOUS
<1>3. \A q \in Nat : q < p =>
        \A r : r \in q + 1 .. (p + 1) - 1 <=> r \in q + 1 .. p - 1 \/ r = p
  OBVIOUS
<1> QED
  BY <1>1, <1>2, <1>3, Zenon DEF Pending

LEMMA PendingLine ==
  ASSUME NEW t \in Texts, NEW n, NEW p \in Nat \ {0}, NEW k, p \in LinesIn(t, n, {k})
  PROVE  Pending(t, n, p + 1, k)
<1>1. p < p + 1 /\ \A r : r \notin p + 1 .. (p + 1) - 1
  OBVIOUS
<1> QED
  BY <1>1, Zenon DEF Pending

\* Lines that are no morphemes.
LEMMA OtherMorphemes ==
  ASSUME NEW t \in Texts, NEW n, NEW p \in Nat \ {0}, t[p].k \notin {"m", "@"},
         NEW s, NEW m, NEW c, MorphemesIn(t, n, p, s, m, c)
  PROVE  MorphemesIn(t, n, p + 1, s, m, c)
<1>1. \A q \in LinesIn(t, n, {"m"}) : q \in Nat /\ q # p
  BY TextFacts DEF LinesIn
<1>2. \A q \in LinesIn(t, n, {"m"}) : q < p + 1 => q < p
  BY <1>1
<1> QED
  BY <1>2, Zenon DEF MorphemesIn

LEMMA OtherLast ==
  ASSUME NEW t \in Texts, NEW n, NEW p \in Nat \ {0}, t[p].k \notin {"m", "@"},
         NEW s, NEW m, LastRead(t, n, p, s, m)
  PROVE  LastRead(t, n, p + 1, s, m)
<1>1. \A q \in WordLines(t, n) : q \in Nat /\ q # p
  BY TextFacts DEF WordLines
<1>2. \A q \in WordLines(t, n) : q < p + 1 => q < p
  BY <1>1
<1> QED
  BY <1>2, Zenon DEF LastRead

LEMMA OtherBegin ==
  ASSUME NEW t \in Texts, NEW n, NEW p \in Nat \ {0}, NEW k, t[p].k # k, t[p].k \notin {"m", "@"},
         NEW s, NEW c, NEW S, BeginIn(t, n, p, k, s, c, S)
  PROVE  BeginIn(t, n, p + 1, k, s, c, S)
BY PendingOther, Zenon DEF BeginIn

\* A line of kind k.
LEMMA LineBegins ==
  ASSUME NEW t \in Texts, NEW n, NEW p \in Nat \ {0}, NEW k, p \in LinesIn(t, n, {k}),
         NEW s, NEW c \in Nat, NEW S, BeginIn(t, n, p, k, s, c, S)
  PROVE  BeginIn(t, n, p + 1, k, s, c, S \cup {c})
<1>1. Pending(t, n, p + 1, k)
  BY PendingLine
<1>2. \A i \in Slots : i < c => i # c
  BY SlotBounds
<1>3. \A i \in Slots : i < c => (i \in S \cup {c} <=> Pending(t, n, BaseIn(t, s[i].id), k))
  BY <1>2, Zenon DEF BeginIn
<1>4. \A i \in S \cup {c} : i <= c
  BY DEF BeginIn
<1> QED
  BY <1>1, <1>3, <1>4, Zenon DEF BeginIn

\* No morpheme has been read.
LEMMA NoneBegins ==
  ASSUME NEW t, NEW n, NEW p, NEW k, NEW s, NEW S, S \subseteq {0}, 0 \in S <=> Pending(t, n, p, k)
  PROVE  BeginIn(t, n, p, k, s, 0, S)
<1>1. \A i \in Slots : ~ (i < 0)
  BY SlotBounds
<1>2. \A i \in S : i <= 0
  OBVIOUS
<1> QED
  BY <1>1, <1>2, Zenon DEF BeginIn

LEMMA NoMorphemes ==
  ASSUME NEW t \in Texts, NEW n, NEW p, \A q \in DOMAIN t : NumberIn(t, q) = n => ~ (q < p), NEW s
  PROVE  /\ MorphemesIn(t, n, p, s, 0, 0) /\ OtherReadings(t, s, 0, 0) /\ LastRead(t, n, p, s, 0)
         /\ \A k : ~ Pending(t, n, p, k)
<1>1. \A i \in Slots : ~ (i < 0)
  BY SlotBounds
<1>2. \A K : \A q \in LinesIn(t, n, K) : ~ (q < p)
  BY Zenon DEF LinesIn
<1>3. \A q \in WordLines(t, n) : ~ (q < p)
  BY Zenon DEF WordLines
<1> QED
  BY <1>1, <1>2, <1>3, Zenon DEF MorphemesIn, OtherReadings, LastRead, Pending

\* Slots whose lines have the same bases.
LEMMA SameMorphemes ==
  ASSUME NEW t, NEW n, NEW p, NEW k, NEW s, NEW s2, NEW m, NEW m2 \in Nat, NEW c \in Nat, c <= m2, 0 < c,
         \A i \in Slots : i < m2 => /\ BaseIn(t, s2[i].id) = BaseIn(t, s[i].id) /\ i < m
                                    /\ BaseIs(t, s2[i].id, BaseIn(t, s2[i].id)), m2 <= MRPH_MAX,
         NEW S
  PROVE  /\ MorphemesIn(t, n, p, s, m, c) => MorphemesIn(t, n, p, s2, m2, c)
         /\ BeginIn(t, n, p, k, s, c, S) => BeginIn(t, n, p, k, s2, c, S)
<1>1. \A i \in Slots : i < c => i < m2
  BY SlotBounds
<1>2. 0 \in Slots /\ 0 < m2
  BY SlotBounds
<1>3. BaseIn(t, s2[0].id) = BaseIn(t, s[0].id)
  BY <1>2, Zenon
<1>4. MorphemesIn(t, n, p, s, m, c) => MorphemesIn(t, n, p, s2, m2, c)
  BY <1>1, <1>3, Zenon DEF MorphemesIn
<1>5. BeginIn(t, n, p, k, s, c, S) => BeginIn(t, n, p, k, s2, c, S)
  BY <1>1, Zenon DEF BeginIn
<1> QED
  BY <1>4, <1>5

LEMMA LastRight ==
  ASSUME NEW t \in Texts, NEW n, NEW p \in Nat, NEW s, NEW m \in Nat, m > 0, s[m - 1].id = p
  PROVE  LastRead(t, n, p + 1, s, m)
<1>1. \A q \in WordLines(t, n) : q \in Nat
  BY TextFacts DEF WordLines
<1>2. \A q \in WordLines(t, n) : q < p + 1 => q <= p
  BY <1>1
<1> QED
  BY <1>2, Zenon DEF LastRead

\* One more morpheme, behind the c there are.
LEMMA MorphemeAdded ==
  ASSUME NEW t \in Texts, NEW n, NEW p \in Nat \ {0}, p \in LinesIn(t, n, {"m"}), NEW s, NEW c \in Slots,
         MorphemesIn(t, n, p, s, c, c), \A i \in Slots : i < c => s[i].id \in Nat /\ s[i].id < p,
         NEW s2, s2[c].id = p, \A i \in Slots : i < c => s2[i].id = s[i].id
  PROVE  /\ MorphemesIn(t, n, p + 1, s2, c + 1, c + 1) /\ OtherReadings(t, s2, c + 1, c + 1)
         /\ LastRead(t, n, p + 1, s2, c + 1)
<1>1. t[p].k = "m" /\ c \in Nat
  BY SlotBounds DEF LinesIn
<1>2. BaseIs(t, p, p) /\ BaseIn(t, p) = p
  BY <1>1, BaseSelf
<1>3. /\ \A i \in Slots : i < c + 1 => i < c \/ i = c
      /\ \A i \in Slots : i < c => i < c + 1
      /\ \A i \in Slots : ~ (c + 1 <= i /\ i < c + 1)
      /\ c < c + 1 /\ c + 1 - 1 = c /\ c + 1 > 0 /\ 0 \in Slots /\ (c # 0 => 0 < c)
  BY <1>1, SlotBounds
<1>4. \A i \in Slots : i < c + 1 =>
        BaseIs(t, s2[i].id, BaseIn(t, s2[i].id)) /\ BaseIn(t, s2[i].id) \in LinesIn(t, n, {"m"})
  BY <1>2, <1>3, Zenon DEF MorphemesIn
<1>5. \A i \in Slots : i < c + 1 => BaseIn(t, s2[0].id) <= BaseIn(t, s2[i].id)
  <2> SUFFICES ASSUME NEW i \in Slots, i < c + 1 PROVE BaseIn(t, s2[0].id) <= BaseIn(t, s2[i].id)
    OBVIOUS
  <2>1. CASE i < c
    <3>1. 0 < c
      BY <2>1, SlotBounds
    <3> QED
      BY <1>3, <2>1, <3>1, Zenon DEF MorphemesIn
  <2>2. CASE i = c /\ c # 0
    <3>1. 0 < c /\ BaseIs(t, s[0].id, BaseIn(t, s[0].id)) /\ s[0].id \in Nat /\ s[0].id < p
      BY <1>3, <2>2, Zenon DEF MorphemesIn
    <3>2. BaseIn(t, s[0].id) \in 1 .. s[0].id
      BY <3>1, Zenon DEF BaseIs
    <3>3. BaseIn(t, s[0].id) <= p
      BY <3>1, <3>2
    <3> QED
      BY <1>2, <1>3, <2>2, <3>1, <3>3, Zenon
  <2>3. CASE i = c /\ c = 0
    <3>1. BaseIn(t, s2[0].id) = p /\ BaseIn(t, s2[i].id) = p
      BY <1>2, <2>3, Zenon
    <3>2. p <= p
      OBVIOUS
    <3> QED
      BY <3>1, <3>2, Zenon
  <2> QED
    BY <1>3, <2>1, <2>2, <2>3, Zenon
<1>6. \A q \in LinesIn(t, n, {"m"}) : q < p + 1 => \E i \in Slots : i < c + 1 /\ BaseIn(t, s2[i].id) = q
  <2> SUFFICES ASSUME NEW q \in LinesIn(t, n, {"m"}), q < p + 1
               PROVE  \E i \in Slots : i < c + 1 /\ BaseIn(t, s2[i].id) = q
    OBVIOUS
  <2>1. q \in Nat
    BY TextFacts DEF LinesIn
  <2>2. q < p \/ q = p
    BY <2>1
  <2>3. CASE q < p
    <3>1. PICK i \in Slots : i < c /\ BaseIn(t, s[i].id) = q
      BY <2>3, Zenon DEF MorphemesIn
    <3> QED
      BY <1>3, <3>1, Zenon
  <2>4. CASE q = p
    BY <1>2, <1>3, <2>4, Zenon
  <2> QED
    BY <2>2, <2>3, <2>4
<1>7. LastRead(t, n, p + 1, s2, c + 1)
  <2>1. PICK m : m = c + 1
    OBVIOUS
  <2>2. m \in Nat /\ m > 0 /\ m - 1 = c /\ p \in Nat
    BY <1>1, <2>1
  <2>3. s2[m - 1].id = p
    BY <2>2, Zenon
  <2>4. LastRead(t, n, p + 1, s2, m)
    BY <2>2, <2>3, LastRight
  <2> QED
    BY <2>1, <2>4, Zenon
<1>8. MorphemesIn(t, n, p + 1, s2, c + 1, c + 1)
  BY <1>4, <1>5, <1>6, Zenon DEF MorphemesIn
<1>9. OtherReadings(t, s2, c + 1, c + 1)
  BY <1>3, Zenon DEF OtherReadings
<1> QED
  BY <1>7, <1>8, <1>9

LEMMA MorphemeBegins ==
  ASSUME NEW t \in Texts, NEW n, NEW p \in Nat \ {0}, p \in LinesIn(t, n, {"m"}), NEW s, NEW c \in Slots,
         NEW k, k \notin {"m", "@"}, NEW S \in SUBSET Nat, BeginIn(t, n, p, k, s, c, S),
         NEW s2, s2[c].id = p, \A i \in Slots : i < c => s2[i].id = s[i].id
  PROVE  BeginIn(t, n, p + 1, k, s2, c + 1, S)
<1>1. t[p].k = "m" /\ t[p].k \in {"m", "@"} /\ c \in Nat
  BY SlotBounds DEF LinesIn
<1>2. BaseIn(t, p) = p /\ ~ Pending(t, n, p + 1, k)
  BY <1>1, BaseSelf, PendingWord
<1>3. /\ \A i \in Slots : i < c + 1 => i < c \/ i = c
      /\ ~ (c + 1 <= c) /\ \A i \in Nat : i <= c => i <= c + 1
  BY <1>1, SlotBounds
<1>4. \A i \in Slots : i < c + 1 => (i \in S <=> Pending(t, n, BaseIn(t, s2[i].id), k))
  BY <1>2, <1>3, Zenon DEF BeginIn
<1>5. c + 1 \notin S
  BY <1>3, Zenon DEF BeginIn
<1>6. \A i \in S : i <= c + 1
  BY <1>3, Zenon DEF BeginIn
<1> QED
  BY <1>2, <1>4, <1>5, <1>6, Zenon DEF BeginIn

\* One more reading of the last morpheme, in the next slot.
LEMMA ReadingAdded ==
  ASSUME NEW t \in Texts, NEW n, NEW p \in DOMAIN t, NumberIn(t, p) = n, t[p].k = "@", NEW s,
         NEW m \in Slots, NEW c \in Nat, c <= m,
         MorphemesIn(t, n, p, s, m, c), OtherReadings(t, s, m, c), LastRead(t, n, p, s, m),
         \A i \in Slots : i < m => s[i].id \in Nat /\ s[i].id < p,
         NEW s2, s2[m].id = p, \A i \in Slots : i < m => s2[i].id = s[i].id
  PROVE  /\ MorphemesIn(t, n, p + 1, s2, m + 1, c) /\ OtherReadings(t, s2, m + 1, c)
         /\ LastRead(t, n, p + 1, s2, m + 1)
<1>1. /\ p \in Nat \ {0} /\ p > 1 /\ p - 1 \in Nat \ {0} /\ p - 1 + 1 = p /\ p - 1 < p
      /\ t[p - 1].k \in {"m", "@"} /\ p - 1 \in DOMAIN t
  BY TextFacts
<1>2. p - 1 \in WordLines(t, n)
  <2>1. NumberIn(t, p) = NumberIn(t, p - 1)
    <3>1. t[p - 1].k # "E"
      BY <1>1
    <3>2. /\ NumberIn(t, p - 1) \in Nat
          /\ NumberIn(t, p - 1 + 1) = NumberIn(t, p - 1) + (IF t[p - 1].k = "E" THEN 1 ELSE 0)
      BY <1>1, NumberStep, Zenon
    <3> QED
      BY <1>1, <3>1, <3>2
  <2> QED
    BY <1>1, <2>1, Zenon DEF WordLines
<1>3. m > 0 /\ p - 1 <= s[m - 1].id
  BY <1>1, <1>2, Zenon DEF LastRead
<1>4. /\ m \in Nat /\ m - 1 \in Slots /\ m - 1 < m /\ 0 \in Slots /\ 0 < m
      /\ \A i \in Slots : i < m + 1 => i < m \/ i = m
      /\ \A i \in Slots : i < m => i < m + 1
      /\ m < m + 1 /\ m + 1 - 1 = m /\ m + 1 > 0 /\ c > 0
      /\ \A i \in Slots : i < c => i < m
  BY <1>3, SlotBounds DEF OtherReadings
<1> DEFINE B(x, i) == BaseIn(t, x[i].id)
<1>5. s[m - 1].id = p - 1
  BY <1>1, <1>3, <1>4
<1>6. BaseIs(t, p - 1, B(s, m - 1)) /\ B(s, m - 1) \in LinesIn(t, n, {"m"})
  BY <1>4, <1>5, Zenon DEF MorphemesIn
<1>7. BaseIs(t, p, B(s, m - 1)) /\ B(s2, m) = B(s, m - 1) /\ BaseIs(t, s2[m].id, B(s2, m))
  <2> DEFINE q == B(s, m - 1)
  <2>1. BaseIs(t, p - 1, q)
    BY <1>6
  <2> HIDE DEF q
  <2>2. BaseIs(t, p, q) /\ BaseIn(t, p) = q
    BY <1>1, <2>1, BaseNext
  <2> QED
    BY <2>2, Zenon DEF q
<1>8. \A i \in Slots : i < m => B(s2, i) = B(s, i)
  BY Zenon
<1>9. /\ \A i \in Slots : i < m => BaseIs(t, s[i].id, B(s, i)) /\ B(s, i) \in LinesIn(t, n, {"m"})
      /\ \A i \in Slots : i < m => B(s, 0) <= B(s, i)
      /\ \A q \in LinesIn(t, n, {"m"}) : q < p => \E i \in Slots : i < c /\ B(s, i) = q
      /\ \A i \in Slots : c <= i /\ i < m => c > 0 /\ B(s, i) = B(s, c - 1)
  BY Zenon DEF MorphemesIn, OtherReadings
<1>10. B(s, m - 1) = B(s, c - 1) /\ c - 1 \in Slots /\ c - 1 < m
  <2>1. c <= m - 1 \/ c - 1 = m - 1
    BY <1>4
  <2>2. c - 1 \in Slots /\ c - 1 < m
    BY <1>4, SlotBounds
  <2> QED
    BY <1>4, <1>9, <2>1, <2>2, Zenon
<1>11. \A i \in Slots : i < m => s2[i].id = s[i].id
  OBVIOUS
<1> HIDE DEF B
<1>12. \A i \in Slots : i < m + 1 => BaseIs(t, s2[i].id, B(s2, i)) /\ B(s2, i) \in LinesIn(t, n, {"m"})
  BY <1>4, <1>6, <1>7, <1>8, <1>9, <1>11, Zenon
<1>13. \A i \in Slots : i < m + 1 => B(s2, 0) <= B(s2, i)
  <2>1. B(s2, 0) = B(s, 0) /\ B(s, 0) <= B(s, m - 1)
    BY <1>4, <1>8, <1>9, Zenon
  <2> QED
    BY <1>4, <1>7, <1>8, <1>9, <2>1, Zenon
<1>14. \A q \in LinesIn(t, n, {"m"}) : q < p + 1 => \E i \in Slots : i < c /\ B(s2, i) = q
  <2>1. \A q \in LinesIn(t, n, {"m"}) : q \in Nat /\ q # p
    BY TextFacts DEF LinesIn
  <2>2. \A q \in LinesIn(t, n, {"m"}) : q < p + 1 => q < p
    BY <1>1, <2>1
  <2> QED
    BY <1>4, <1>8, <1>9, <2>2, Zenon
<1>15. \A i \in Slots : c <= i /\ i < m + 1 => c > 0 /\ B(s2, i) = B(s2, c - 1)
  BY <1>4, <1>7, <1>8, <1>9, <1>10, Zenon
<1>16. LastRead(t, n, p + 1, s2, m + 1)
  <2>1. s2[m + 1 - 1].id = p /\ m + 1 \in Nat
    BY <1>4
  <2> QED
    BY <1>1, <1>4, <2>1, LastRight
<1>17. MorphemesIn(t, n, p + 1, s2, m + 1, c)
  BY <1>12, <1>13, <1>14, Zenon DEF MorphemesIn, B
<1>18. OtherReadings(t, s2, m + 1, c)
  BY <1>15, Zenon DEF OtherReadings, B
<1> QED
  BY <1>16, <1>17, <1>18

LEMMA ReadingBegins ==
  ASSUME NEW t \in Texts, NEW n, NEW p \in DOMAIN t, t[p].k = "@", NEW k, k \notin {"m", "@"},
         NEW s, NEW c \in Nat, NEW m, c <= m, NEW S, BeginIn(t, n, p, k, s, c, S),
         NEW s2, \A i \in Slots : i < c => s2[i].id = s[i].id
  PROVE  BeginIn(t, n, p + 1, k, s2, c, S)
<1>1. /\ p \in Nat \ {0} /\ p - 1 \in Nat \ {0} /\ p - 1 + 1 = p /\ t[p - 1].k \in {"m", "@"}
      /\ t[p].k \in {"m", "@"}
  BY TextFacts
<1>2. ~ Pending(t, n, p - 1 + 1, k) /\ ~ Pending(t, n, p + 1, k)
  BY <1>1, PendingWord
<1>3. ~ Pending(t, n, p, k)
  BY <1>1, <1>2, Zenon
<1> QED
  BY <1>2, <1>3, Zenon DEF BeginIn

\* The readings of a morpheme are reduced to one of them.
LEMMA ReducedMorphemes ==
  ASSUME slot \in [Slots -> SlotType], Mrph_num \in 0 .. MRPH_MAX, homo_num \in Nat, homo_num > 0,
         homo_num < Mrph_num, NEW pref \in 0 .. homo_num, NEW t, NEW n, NEW p,
         MorphemesIn(t, n, p, slot, Mrph_num, Mrph_num - homo_num),
         OtherReadings(t, slot, Mrph_num, Mrph_num - homo_num)
  PROVE  /\ MorphemesIn(t, n, p, Reduced(pref), Mrph_num - homo_num, Mrph_num - homo_num)
         /\ \A k, S : BeginIn(t, n, p, k, slot, Mrph_num - homo_num, S) =>
                        BeginIn(t, n, p, k, Reduced(pref), Mrph_num - homo_num, S)
         /\ \A i \in Slots : i < Mrph_num - homo_num =>
              \E j \in Slots : j < Mrph_num /\ Reduced(pref)[i] = slot[j]
<1> DEFINE base == Mrph_num - homo_num - 1
           w == base + pref
           e == Emptied(slot, base .. Mrph_num - 1)
<1>1. PICK c : c = Mrph_num - homo_num
  OBVIOUS
<1>2. /\ c \in Nat /\ 0 < c /\ c <= MRPH_MAX /\ c < Mrph_num /\ base = c - 1
      /\ base \in Slots /\ w \in Slots /\ w < Mrph_num /\ base < c /\ base < Mrph_num /\ c <= c
      /\ (w = base \/ (c <= w /\ w < Mrph_num))
      /\ \A i \in Slots : i < c => i < Mrph_num /\ (i = base \/ i \notin base .. Mrph_num - 1)
  BY <1>1, SlotBounds
<1>3. PICK s2 : s2 = Reduced(pref)
  OBVIOUS
<1>4. s2 = [e EXCEPT ![base] = slot[w]]
  BY <1>3, Zenon DEF Reduced
<1>5. e = [i \in Slots |-> IF i \in base .. Mrph_num - 1 THEN [slot[i] EXCEPT !.f = {}] ELSE slot[i]]
  BY Zenon DEF Emptied
<1>6. \A i \in Slots : i \notin base .. Mrph_num - 1 => e[i] = slot[i]
  BY <1>5, Zenon
<1>7. DOMAIN e = Slots
  BY <1>5, Zenon
<1> HIDE DEF base, w, e
<1>8. s2[base] = slot[w] /\ \A i \in Slots : i # base => s2[i] = e[i]
  BY <1>2, <1>4, <1>7
<1>9. \A i \in Slots : i < c => (i = base /\ s2[i] = slot[w]) \/ (i # base /\ s2[i] = slot[i])
  BY <1>2, <1>6, <1>8, Zenon
<1>10. /\ MorphemesIn(t, n, p, slot, Mrph_num, c)
       /\ OtherReadings(t, slot, Mrph_num, c)
  BY <1>1, Zenon
<1>11. BaseIn(t, slot[w].id) = BaseIn(t, slot[base].id)
  <2>1. CASE w = base
    BY <2>1, Zenon
  <2>2. CASE c <= w /\ w < Mrph_num
    <3>1. BaseIn(t, slot[w].id) = BaseIn(t, slot[c - 1].id)
      BY <1>2, <1>10, <2>2, Zenon DEF OtherReadings
    <3> QED
      BY <1>2, <3>1, Zenon
  <2> QED
    BY <1>2, <2>1, <2>2, Zenon
<1>12. \A i \in Slots : i < Mrph_num => BaseIs(t, slot[i].id, BaseIn(t, slot[i].id))
  BY <1>10, Zenon DEF MorphemesIn
<1>13. \A i \in Slots : i < c => /\ BaseIn(t, s2[i].id) = BaseIn(t, slot[i].id) /\ i < Mrph_num
                                 /\ BaseIs(t, s2[i].id, BaseIn(t, s2[i].id))
  BY <1>2, <1>9, <1>11, <1>12, Zenon
<1>14. ASSUME NEW k, NEW S
       PROVE  /\ MorphemesIn(t, n, p, slot, Mrph_num, c) => MorphemesIn(t, n, p, s2, c, c)
              /\ BeginIn(t, n, p, k, slot, c, S) => BeginIn(t, n, p, k, s2, c, S)
  BY <1>2, <1>13, SameMorphemes, Zenon
<1>15. \A i \in Slots : i < c => \E j \in Slots : j < Mrph_num /\ s2[i] = slot[j]
  BY <1>2, <1>9, Zenon
<1>16. /\ MorphemesIn(t, n, p, s2, c, c)
       /\ \A k, S : BeginIn(t, n, p, k, slot, c, S) => BeginIn(t, n, p, k, s2, c, S)
  BY <1>10, <1>14, Zenon
<1> QED
  BY <1>1, <1>3, <1>15, <1>16, Zenon
-----------------------------------------------------------------------------
(* What the phrase lines reset                                             *)

\* Before line p a phrase of sentence n has begun ahead of all its morphemes; a
\* phrase began in an earlier one; a phrase line took tags back.
Opened(t, n, p) == \E q \in LinesIn(t, n, {"*"}) : q < p /\ \A r \in LinesIn(t, n, {"m"}) : q < r
MarkedIn(t, n) == \E p \in DOMAIN t : NumberIn(t, p) < n /\ t[p].k = "*"
Taken(t, n, p) ==
  \E x \in LinesIn(t, n, {"*"}), y \in LinesIn(t, n, {"+"}) :
    x < p /\ y < x /\ \A r \in LinesIn(t, n, {"m"}) : x < r

\* Nothing is left in the starts B and T that an earlier sentence said.
Fresh(t, n, p) == Opened(t, n, p) \/ ~ MarkedIn(t, n)

\* The starts B of phrases and T of tags are those of the lines before line p.
StartsIn(t, n, p, s, c, B, T) ==
  Fresh(t, n, p) => /\ BeginIn(t, n, p, "*", s, c, B)
                    /\ ~ Taken(t, n, p) => BeginIn(t, n, p, "+", s, c, T)

LEMMA FreshBack ==
  ASSUME NEW t \in Texts, NEW n, NEW p \in Nat \ {0}, Fresh(t, n, p + 1),
         t[p].k # "*" \/ \E r \in LinesIn(t, n, {"m"}) : r < p
  PROVE  Fresh(t, n, p)
<1>1. CASE ~ MarkedIn(t, n)
  BY <1>1 DEF Fresh
<1>2. CASE Opened(t, n, p + 1)
  <2>1. PICK q \in LinesIn(t, n, {"*"}) : q < p + 1 /\ \A r \in LinesIn(t, n, {"m"}) : q < r
    BY <1>2, Zenon DEF Opened
  <2>2. q \in Nat /\ t[q].k = "*" /\ \A r \in LinesIn(t, n, {"m"}) : r \in Nat
    BY TextFacts DEF LinesIn
  <2>3. q # p
    <3>1. CASE t[p].k # "*"
      BY <2>2, <3>1
    <3>2. CASE \E r \in LinesIn(t, n, {"m"}) : r < p
      BY <2>1, <2>2, <3>2
    <3> QED
      BY <3>1, <3>2
  <2>4. q < p
    BY <2>1, <2>2, <2>3
  <2> QED
    BY <2>1, <2>4, Zenon DEF Fresh, Opened
<1> QED
  BY <1>1, <1>2 DEF Fresh

LEMMA TakenMore ==
  ASSUME NEW t \in Texts, NEW n, NEW p \in Nat \ {0}, Taken(t, n, p)
  PROVE  Taken(t, n, p + 1)
<1>1. \A x \in LinesIn(t, n, {"*"}) : x \in Nat
  BY TextFacts DEF LinesIn
<1>2. \A x \in LinesIn(t, n, {"*"}) : x < p => x < p + 1
  BY <1>1
<1> QED
  BY <1>2, Zenon DEF Taken

\* A line that begins nothing and is no morpheme.
LEMMA OtherStarts ==
  ASSUME NEW t \in Texts, NEW n, NEW p \in Nat \ {0}, t[p].k \notin {"m", "@", "*", "+"},
         NEW s, NEW c, NEW B, NEW T, StartsIn(t, n, p, s, c, B, T)
  PROVE  StartsIn(t, n, p + 1, s, c, B, T)
<1>1. t[p].k \notin {"m", "@"} /\ t[p].k # "*" /\ t[p].k # "+"
  OBVIOUS
<1>2. /\ Fresh(t, n, p + 1) => Fresh(t, n, p)
      /\ ~ Taken(t, n, p + 1) => ~ Taken(t, n, p)
  BY <1>1, FreshBack, TakenMore, Zenon
<1>3. \A k, S : t[p].k # k /\ BeginIn(t, n, p, k, s, c, S) => BeginIn(t, n, p + 1, k, s, c, S)
  BY <1>1, OtherBegin, Zenon
<1> QED
  BY <1>1, <1>2, <1>3, Zenon DEF StartsIn

\* A phrase line behind a morpheme.
LEMMA BehindStarts ==
  ASSUME NEW t \in Texts, NEW n, NEW p \in Nat \ {0}, p \in LinesIn(t, n, {"*"}),
         \E r \in LinesIn(t, n, {"m"}) : r < p,
         NEW s, NEW c \in Nat, NEW B, NEW T, StartsIn(t, n, p, s, c, B, T)
  PROVE  StartsIn(t, n, p + 1, s, c, B \cup {c}, T)
<1>1. t[p].k = "*" /\ t[p].k \notin {"m", "@"} /\ t[p].k # "+"
  BY DEF LinesIn
<1>2. /\ Fresh(t, n, p + 1) => Fresh(t, n, p)
      /\ ~ Taken(t, n, p + 1) => ~ Taken(t, n, p)
  BY FreshBack, TakenMore, Zenon
<1>3. BeginIn(t, n, p, "*", s, c, B) => BeginIn(t, n, p + 1, "*", s, c, B \cup {c})
  BY LineBegins, Zenon
<1>4. BeginIn(t, n, p, "+", s, c, T) => BeginIn(t, n, p + 1, "+", s, c, T)
  BY <1>1, OtherBegin, Zenon
<1> QED
  BY <1>2, <1>3, <1>4, Zenon DEF StartsIn

\* A phrase line before the first morpheme: what has been said is forgotten.
LEMMA FirstStarts ==
  ASSUME NEW t \in Texts, NEW n, NEW p \in Nat \ {0}, p \in LinesIn(t, n, {"*"}),
         \A r \in LinesIn(t, n, {"m"}) : ~ (r < p), NEW s
  PROVE  StartsIn(t, n, p + 1, s, 0, {0}, {})
<1>1. t[p].k = "*" /\ t[p].k \notin {"m", "@"} /\ t[p].k # "+"
  BY DEF LinesIn
<1>2. Pending(t, n, p + 1, "*")
  BY PendingLine
<1>3. ASSUME ~ Taken(t, n, p + 1) PROVE ~ Pending(t, n, p + 1, "+")
  <2>1. \A r \in LinesIn(t, n, {"m"}) : p < r
    <3>1. \A r \in LinesIn(t, n, {"m"}) : r \in Nat /\ r # p
      BY <1>1, TextFacts DEF LinesIn
    <3> QED
      BY <3>1
  <2>2. ~ Pending(t, n, p, "+")
    <3>1. p < p + 1
      OBVIOUS
    <3> QED
      BY <1>3, <2>1, <3>1, Zenon DEF Pending, Taken
  <2> QED
    BY <1>1, <2>2, PendingOther, Zenon
<1>4. BeginIn(t, n, p + 1, "*", s, 0, {0})
  BY <1>2, NoneBegins
<1>5. ~ Taken(t, n, p + 1) => BeginIn(t, n, p + 1, "+", s, 0, {})
  BY <1>3, NoneBegins
<1> QED
  BY <1>4, <1>5, Zenon DEF StartsIn

LEMMA TagLineStarts ==
  ASSUME NEW t \in Texts, NEW n, NEW p \in Nat \ {0}, p \in LinesIn(t, n, {"+"}),
         NEW s, NEW c \in Nat, NEW B, NEW T, StartsIn(t, n, p, s, c, B, T)
  PROVE  StartsIn(t, n, p + 1, s, c, B, T \cup {c})
<1>1. t[p].k = "+" /\ t[p].k \notin {"m", "@"} /\ t[p].k # "*"
  BY DEF LinesIn
<1>2. /\ Fresh(t, n, p + 1) => Fresh(t, n, p)
      /\ ~ Taken(t, n, p + 1) => ~ Taken(t, n, p)
  BY <1>1, FreshBack, TakenMore, Zenon
<1>3. BeginIn(t, n, p, "+", s, c, T) => BeginIn(t, n, p + 1, "+", s, c, T \cup {c})
  BY LineBegins, Zenon
<1>4. BeginIn(t, n, p, "*", s, c, B) => BeginIn(t, n, p + 1, "*", s, c, B)
  BY <1>1, OtherBegin, Zenon
<1> QED
  BY <1>2, <1>3, <1>4, Zenon DEF StartsIn

\* A morpheme, or another reading of one.
LEMMA MorphemeStarts ==
  ASSUME NEW t \in Texts, NEW n, NEW p \in Nat \ {0}, p \in LinesIn(t, n, {"m"}), NEW s, NEW c \in Slots,
         NEW B \in SUBSET Nat, NEW T \in SUBSET Nat, StartsIn(t, n, p, s, c, B, T),
         NEW s2, s2[c].id = p, \A i \in Slots : i < c => s2[i].id = s[i].id
  PROVE  StartsIn(t, n, p + 1, s2, c + 1, B, T)
<1>1. t[p].k = "m" /\ t[p].k # "*"
  BY DEF LinesIn
<1>2. /\ Fresh(t, n, p + 1) => Fresh(t, n, p)
      /\ ~ Taken(t, n, p + 1) => ~ Taken(t, n, p)
  BY <1>1, FreshBack, TakenMore, Zenon
<1>3. "*" \notin {"m", "@"} /\ "+" \notin {"m", "@"}
  OBVIOUS
<1>4. BeginIn(t, n, p, "*", s, c, B) => BeginIn(t, n, p + 1, "*", s2, c + 1, B)
  BY <1>3, MorphemeBegins, Zenon
<1>5. BeginIn(t, n, p, "+", s, c, T) => BeginIn(t, n, p + 1, "+", s2, c + 1, T)
  BY <1>3, MorphemeBegins, Zenon
<1> QED
  BY <1>2, <1>4, <1>5, Zenon DEF StartsIn

LEMMA ReadingStarts ==
  ASSUME NEW t \in Texts, NEW n, NEW p \in DOMAIN t, t[p].k = "@", NEW s, NEW c \in Nat, NEW m, c <= m,
         NEW B, NEW T, StartsIn(t, n, p, s, c, B, T),
         NEW s2, \A i \in Slots : i < c => s2[i].id = s[i].id
  PROVE  StartsIn(t, n, p + 1, s2, c, B, T)
<1>1. t[p].k # "*" /\ p \in Nat \ {0}
  BY TextFacts
<1>2. /\ Fresh(t, n, p + 1) => Fresh(t, n, p)
      /\ ~ Taken(t, n, p + 1) => ~ Taken(t, n, p)
  BY <1>1, FreshBack, TakenMore, Zenon
<1>3. "*" \notin {"m", "@"} /\ "+" \notin {"m", "@"}
  OBVIOUS
<1>4. BeginIn(t, n, p, "*", s, c, B) => BeginIn(t, n, p + 1, "*", s2, c, B)
  BY <1>3, ReadingBegins, Zenon
<1>5. BeginIn(t, n, p, "+", s, c, T) => BeginIn(t, n, p + 1, "+", s2, c, T)
  BY <1>3, ReadingBegins, Zenon
<1> QED
  BY <1>2, <1>4, <1>5, Zenon DEF StartsIn
-----------------------------------------------------------------------------
(* What has been read of phrases and tags                                  *)

Unmarked(t, p) == \A q \in 1 .. p - 1 : t[q].k # "*"

\* No flag is set before the first phrase line of the text, and none is unset after
\* one of the sentence.
MarkInv ==
  /\ Unmarked(text, pos) => OptInput = {} /\ Bnst_start = {} /\ Tag_start = {}
  /\ pc \in {"prepare", "analyse", "next"} /\ OptInput = {} => NoneBefore(text, sen, pos, "*")

\* The morphemes read, and the starts of what they begin.
SlotsRight(t, n, p, s, m, c, B, T) == MorphemesIn(t, n, p, s, m, c) /\ StartsIn(t, n, p, s, c, B, T)
ReadingsRight(t, n, p, s, m, c) == OtherReadings(t, s, m, c) /\ LastRead(t, n, p, s, m)

StartInv ==
  /\ pc \in {"read", "prepare"} =>
       SlotsRight(text, sen, pos, slot, Mrph_num, Mrph_num - homo_num, Bnst_start, Tag_start)
  /\ pc = "read" => ReadingsRight(text, sen, pos, slot, Mrph_num, Mrph_num - homo_num)
  /\ pc = "prepare" => homo_num = 0 /\ Mrph_num > 0

LEMMA UnmarkedBack ==
  ASSUME NEW t, NEW p \in Nat \ {0}, Unmarked(t, p + 1)
  PROVE  Unmarked(t, p) /\ t[p].k # "*"
<1>1. p \in 1 .. (p + 1) - 1 /\ \A q \in 1 .. p - 1 : q \in 1 .. (p + 1) - 1
  OBVIOUS
<1> QED
  BY <1>1, Zenon DEF Unmarked

\* Another line has been read, and nothing about phrases.
LEMMA LaterMark ==
  ASSUME IInv, MarkInv, pos' = pos + 1, UNCHANGED <<text, OptInput, Bnst_start, Tag_start>>,
         pc' \notin {"prepare", "analyse", "next"}
  PROVE  MarkInv'
<1>1. pos \in Nat \ {0}
  BY TextFacts DEF IInv, TextInv
<1>2. Unmarked(text, pos + 1) => Unmarked(text, pos)
  BY <1>1, UnmarkedBack, Zenon
<1>3. text' = text /\ OptInput' = OptInput /\ Bnst_start' = Bnst_start /\ Tag_start' = Tag_start /\ pos' = pos + 1
  OBVIOUS
<1>4. Unmarked(text', pos') => OptInput' = {} /\ Bnst_start' = {} /\ Tag_start' = {}
  BY <1>2, <1>3, Zenon DEF MarkInv
<1> QED
  BY <1>4, Zenon DEF MarkInv

LEMMA SameMark ==
  ASSUME MarkInv, UNCHANGED <<text, pos, sen, OptInput, Bnst_start, Tag_start>>,
         pc' \in {"prepare", "analyse", "next"} => pc \in {"prepare", "analyse", "next"}
  PROVE  MarkInv'
<1>1. /\ text' = text /\ pos' = pos /\ sen' = sen /\ OptInput' = OptInput /\ Bnst_start' = Bnst_start
      /\ Tag_start' = Tag_start
  OBVIOUS
<1> QED
  BY <1>1, Zenon DEF MarkInv

LEMMA StepMark == IInv /\ BlameInv /\ MarkInv /\ [Next]_vars => MarkInv'
<1>1. SUFFICES ASSUME IInv, BlameInv, MarkInv, [Next]_vars PROVE MarkInv'
  OBVIOUS
<1>2. CASE UNCHANGED vars
  <2>1. UNCHANGED <<text, pos, sen, OptInput, Bnst_start, Tag_start, pc>>
    BY <1>2 DEF vars, reading
  <2> QED
    BY <1>1, <2>1, SameMark
<1>3. CASE Start
  <2>1. pc' = "read" /\ UNCHANGED <<text, pos, OptInput, Bnst_start, Tag_start>>
    BY <1>3 DEF Start
  <2>2. /\ text' = text /\ pos' = pos /\ OptInput' = OptInput /\ Bnst_start' = Bnst_start
        /\ Tag_start' = Tag_start /\ pc' \notin {"prepare", "analyse", "next"}
    BY <2>1
  <2> QED
    BY <1>1, <2>2, Zenon DEF MarkInv
<1>4. CASE Comment \/ Morpheme \/ Invalid
  <2>1. /\ pc = "read" /\ pc' \in {"read", "skip"} /\ pos' = pos + 1
        /\ UNCHANGED <<text, OptInput, Bnst_start, Tag_start>>
    BY <1>4 DEF Comment, Morpheme, Invalid, Reads, reading
  <2> QED
    BY <1>1, <2>1, LaterMark
<1>5. CASE BnstLine
  <2>1. pc = "read" /\ pos <= Len(text) /\ text[pos].k = "*" /\ pos' = pos + 1 /\ text' = text /\ pc' \in {"read", "skip"}
    BY <1>5 DEF BnstLine, Reads, Line
  <2>2. pos \in Nat \ {0}
    BY <1>1, TextFacts DEF IInv, TextInv
  <2>3. ~ Unmarked(text', pos')
    BY <2>1, <2>2, UnmarkedBack, Zenon
  <2>4. pc' \notin {"prepare", "analyse", "next"}
    BY <2>1
  <2> QED
    BY <2>3, <2>4, Zenon DEF MarkInv
<1>6. CASE TagLine
  <2>1. /\ pc = "read" /\ pos' = pos + 1 /\ text' = text /\ pc' \in {"read", "skip"} /\ Bnst_start' = Bnst_start
        /\ OptInput = {} => UNCHANGED <<OptInput, Tag_start>>
    BY <1>6 DEF TagLine, Reads
  <2>2. CASE OptInput = {}
    BY <1>1, <2>1, <2>2, LaterMark
  <2>3. CASE OptInput # {}
    <3>1. pos \in Nat \ {0}
      BY <1>1, TextFacts DEF IInv, TextInv
    <3>2. ~ Unmarked(text', pos')
      BY <1>1, <2>1, <2>3, <3>1, UnmarkedBack, Zenon DEF MarkInv
    <3>3. pc' \notin {"prepare", "analyse", "next"}
      BY <2>1
    <3> QED
      BY <3>2, <3>3, Zenon DEF MarkInv
  <2> QED
    BY <2>2, <2>3
<1>7. CASE Skip
  <2>1. /\ pc = "skip" /\ pc' \in {"skip", "ready"} /\ pos' = pos + 1
        /\ UNCHANGED <<text, OptInput, Bnst_start, Tag_start>>
    BY <1>7 DEF Skip, Fail
  <2> QED
    BY <1>1, <2>1, LaterMark
<1>8. CASE EndOfSentence
  <2>1. /\ pc = "read" /\ pos <= Len(text) /\ text[pos].k = "E" /\ pos' = pos + 1
        /\ UNCHANGED <<text, sen, Bnst_start, Tag_start>>
        /\ Mrph_num = 0 => pc' = "ready" /\ OptInput' = OptInput
        /\ Mrph_num # 0 => OptInput' = IF "PARSED" \in OptInput /\ Tag_num = 0 THEN OptInput \cup {"BNST"} ELSE OptInput
    BY <1>8 DEF EndOfSentence, Reads, Line, Fail
  <2>2. CASE Mrph_num = 0
    <3>1. pc' \notin {"prepare", "analyse", "next"}
      BY <2>1, <2>2
    <3> QED
      BY <1>1, <2>1, <2>2, <3>1, LaterMark
  <2>3. CASE Mrph_num # 0
    <3>1. OptInput' = {} <=> OptInput = {}
      BY <2>1, <2>3
    <3>2. pos \in Nat \ {0}
      BY <1>1, TextFacts DEF IInv, TextInv
    <3>3. Unmarked(text, pos + 1) => Unmarked(text, pos)
      BY <3>2, UnmarkedBack, Zenon
    <3>4. OptInput = {} => NoneBefore(text, sen, pos + 1, "*")
      <4>1. text[pos].k # "*"
        BY <2>1
      <4> QED
        BY <1>1, <2>1, <3>2, <4>1, NoneBeforeStep, Zenon DEF BlameInv
    <3>5. text' = text /\ pos' = pos + 1 /\ sen' = sen /\ Bnst_start' = Bnst_start /\ Tag_start' = Tag_start
      BY <2>1
    <3> QED
      BY <1>1, <3>1, <3>3, <3>4, <3>5, Zenon DEF MarkInv
  <2> QED
    BY <2>2, <2>3
<1>9. CASE Preprocess
  <2>1. pc = "prepare" /\ UNCHANGED <<text, pos, sen, OptInput, Bnst_start, Tag_start>>
    BY <1>9 DEF Preprocess
  <2> QED
    BY <1>1, <2>1, SameMark
<1>10. CASE Analyse
  <2>1. pc = "analyse" /\ UNCHANGED <<text, pos, sen, OptInput, Bnst_start, Tag_start>>
    BY <1>10 DEF Analyse
  <2> QED
    BY <1>1, <2>1, SameMark
<1>11. CASE NextParen
  <2>1. pc = "next" /\ UNCHANGED <<text, pos, sen, OptInput, Bnst_start, Tag_start>>
    BY <1>11 DEF NextParen
  <2> QED
    BY <1>1, <2>1, SameMark
<1>12. CASE Finish
  <2>1. pc' = "end" /\ UNCHANGED <<text, pos, sen, OptInput, Bnst_start, Tag_start>>
    BY <1>12 DEF Finish, reading
  <2>2. pc' \notin {"prepare", "analyse", "next"}
    BY <2>1
  <2> QED
    BY <1>1, <2>1, <2>2, SameMark
<1> QED
  BY <1>1, <1>2, <1>3, <1>4, <1>5, <1>6, <1>7, <1>8, <1>9, <1>10, <1>11, <1>12 DEF Next

\* The lines in the slots have been read.
LEMMA SlotLines ==
  ASSUME IInv, LineInv
  PROVE  \A i \in Slots : i < Mrph_num =>
           /\ slot[i].id \in WordLines(text, sen) /\ slot[i].id \in Nat /\ slot[i].id < pos
           /\ slot[i].w = text[slot[i].id].w
<1> SUFFICES ASSUME NEW i \in Slots, i < Mrph_num
             PROVE  /\ slot[i].id \in WordLines(text, sen) /\ slot[i].id \in Nat /\ slot[i].id < pos
                    /\ slot[i].w = text[slot[i].id].w
  OBVIOUS
<1>1. PICK x : x = slot[i]
  OBVIOUS
<1>2. x \in LineSlots(text, sen, pos)
  BY <1>1, Zenon DEF LineInv, LinesKnown, Holds
<1>3. x \in SlotType /\ x.id < pos /\ x.id \in WordLines(text, sen) /\ x.w = text[x.id].w
  BY <1>2, Zenon DEF LineSlots, Known
<1>4. x.id \in Nat
  BY <1>3 DEF SlotType
<1> QED
  BY <1>1, <1>3, <1>4, Zenon

\* A step after which no line is read, nor the sentence prepared.
LEMMA NotReading == pc' \notin {"read", "prepare"} => StartInv'
<1>1. "read" \in {"read", "prepare"} /\ "prepare" \in {"read", "prepare"}
  OBVIOUS
<1> QED
  BY <1>1, Zenon DEF StartInv

\* A sentence begins with what the last phrase line left behind.
LEMMA StartStarts ==
  ASSUME IInv, MarkInv, Start
  PROVE  StartInv'
<1>1. /\ pc = "ready" /\ pc' = "read" /\ UNCHANGED <<text, pos, Bnst_start, Tag_start>>
      /\ Mrph_num' = 0 /\ homo_num' = 0 /\ sen' = sen + 1
  BY DEF Start
<1>2. /\ text \in Texts /\ pos \in Nat \ {0} /\ sen \in Nat /\ NumberIn(text, pos) = sen + 1
      /\ pos = 1 \/ (pos \in 2 .. Len(text) + 1 /\ text[pos - 1].k = "E")
  BY <1>1, TextFacts DEF IInv, TextInv
<1>3. \A q \in 1 .. pos - 1 : NumberIn(text, q) < NumberIn(text, pos)
  <2>1. CASE pos = 1
    BY <2>1
  <2>2. CASE pos \in 2 .. Len(text) + 1 /\ text[pos - 1].k = "E"
    BY <1>2, <2>2, SentenceEnds
  <2> QED
    BY <1>2, <2>1, <2>2
<1>4. \A q \in DOMAIN text : q \in Nat \ {0} /\ (q < pos => q \in 1 .. pos - 1)
  BY <1>2, TextFacts
<1>5. \A q \in DOMAIN text : NumberIn(text, q) = sen + 1 => ~ (q < pos)
  <2>1. \A q \in 1 .. pos - 1 : NumberIn(text, q) # sen + 1
    BY <1>2, <1>3
  <2> QED
    BY <1>4, <2>1, Zenon
<1>6. PICK s : s = slot'
  OBVIOUS
<1>7. /\ MorphemesIn(text, sen + 1, pos, s, 0, 0) /\ OtherReadings(text, s, 0, 0) /\ LastRead(text, sen + 1, pos, s, 0)
      /\ \A k : ~ Pending(text, sen + 1, pos, k)
  BY <1>2, <1>5, NoMorphemes
<1>8. Fresh(text, sen + 1, pos) => Unmarked(text, pos)
  <2>1. ~ Opened(text, sen + 1, pos)
    BY <1>5, Zenon DEF Opened, LinesIn
  <2>2. ASSUME ~ MarkedIn(text, sen + 1), NEW q \in 1 .. pos - 1 PROVE text[q].k # "*"
    <3>1. q \in DOMAIN text
      BY <1>2, TextFacts DEF IInv, TextInv
    <3>2. NumberIn(text, q) < sen + 1
      BY <1>2, <1>3
    <3> QED
      BY <2>2, <3>1, <3>2, Zenon DEF MarkedIn
  <2> QED
    BY <2>1, <2>2, Zenon DEF Fresh, Unmarked
<1>9. StartsIn(text, sen + 1, pos, s, 0, Bnst_start, Tag_start)
  <2>1. ASSUME Fresh(text, sen + 1, pos)
        PROVE  /\ BeginIn(text, sen + 1, pos, "*", s, 0, Bnst_start)
               /\ BeginIn(text, sen + 1, pos, "+", s, 0, Tag_start)
    <3>1. Bnst_start = {} /\ Tag_start = {}
      BY <1>8, <2>1, Zenon DEF MarkInv
    <3>2. Bnst_start \subseteq {0} /\ Tag_start \subseteq {0} /\ 0 \notin Bnst_start /\ 0 \notin Tag_start
      BY <3>1
    <3> QED
      BY <1>7, <3>2, NoneBegins, Zenon
  <2> QED
    BY <2>1, Zenon DEF StartsIn
<1>10. Mrph_num' - homo_num' = 0
  BY <1>1
<1>11. /\ SlotsRight(text', sen', pos', slot', Mrph_num', Mrph_num' - homo_num', Bnst_start', Tag_start')
       /\ ReadingsRight(text', sen', pos', slot', Mrph_num', Mrph_num' - homo_num')
  BY <1>1, <1>6, <1>7, <1>9, <1>10, Zenon DEF SlotsRight, ReadingsRight
<1>12. pc' # "prepare"
  BY <1>1
<1> QED
  BY <1>11, <1>12, Zenon DEF StartInv

\* What is read while morphemes are, in terms of c morphemes.
LEMMA ReadFacts ==
  ASSUME IInv, LineInv, BlameInv, ReadInv, StartInv, pc = "read", pos <= Len(text)
  PROVE  /\ text \in Texts /\ pos \in Nat \ {0} /\ pos \in DOMAIN text /\ NumberIn(text, pos) = sen
         /\ \A K : text[pos].k \in K => pos \in LinesIn(text, sen, K)
         /\ slot \in [Slots -> SlotType] /\ Mrph_num \in 0 .. MRPH_MAX /\ homo_num \in Nat
         /\ homo_num = 0 \/ homo_num < Mrph_num
         /\ Mrph_num - homo_num \in Nat /\ Mrph_num - homo_num <= Mrph_num
         /\ Bnst_start \in SUBSET Nat /\ Tag_start \in SUBSET Nat
         /\ MorphemesIn(text, sen, pos, slot, Mrph_num, Mrph_num - homo_num)
         /\ StartsIn(text, sen, pos, slot, Mrph_num - homo_num, Bnst_start, Tag_start)
         /\ OtherReadings(text, slot, Mrph_num, Mrph_num - homo_num) /\ LastRead(text, sen, pos, slot, Mrph_num)
<1>1. /\ slot \in [Slots -> SlotType] /\ Mrph_num \in 0 .. MRPH_MAX /\ homo_num \in Nat
      /\ homo_num = 0 \/ homo_num < Mrph_num
  BY DEF IInv, SlotInv, CountInv
<1>2. Mrph_num - homo_num \in Nat /\ Mrph_num - homo_num <= Mrph_num
  BY <1>1, SlotBounds
<1>3. Bnst_start \in SUBSET Nat /\ Tag_start \in SUBSET Nat
  BY SlotBounds DEF ReadInv
<1>4. pc \in {"read", "prepare"}
  OBVIOUS
<1>5. /\ SlotsRight(text, sen, pos, slot, Mrph_num, Mrph_num - homo_num, Bnst_start, Tag_start)
      /\ ReadingsRight(text, sen, pos, slot, Mrph_num, Mrph_num - homo_num)
  BY <1>4, Zenon DEF StartInv
<1>6. /\ MorphemesIn(text, sen, pos, slot, Mrph_num, Mrph_num - homo_num)
      /\ StartsIn(text, sen, pos, slot, Mrph_num - homo_num, Bnst_start, Tag_start)
      /\ OtherReadings(text, slot, Mrph_num, Mrph_num - homo_num) /\ LastRead(text, sen, pos, slot, Mrph_num)
  BY <1>5, Zenon DEF SlotsRight, ReadingsRight
<1>7. /\ text \in Texts /\ pos \in Nat \ {0} /\ pos \in DOMAIN text /\ NumberIn(text, pos) = sen
      /\ \A K : text[pos].k \in K => pos \in LinesIn(text, sen, K)
  BY ReadLine
<1> QED
  BY <1>1, <1>2, <1>3, <1>6, <1>7, Zenon

\* The state after a line that is no morpheme.
LEMMA LineStarts ==
  ASSUME pc' = "read", pos' = pos + 1, UNCHANGED <<text, sen, slot, Mrph_num, homo_num>>,
         text \in Texts, pos \in Nat \ {0}, text[pos].k \notin {"m", "@"},
         MorphemesIn(text, sen, pos, slot, Mrph_num, Mrph_num - homo_num),
         OtherReadings(text, slot, Mrph_num, Mrph_num - homo_num), LastRead(text, sen, pos, slot, Mrph_num),
         StartsIn(text, sen, pos + 1, slot, Mrph_num - homo_num, Bnst_start', Tag_start')
  PROVE  StartInv'
<1>1. /\ text' = text /\ sen' = sen /\ slot' = slot /\ Mrph_num' = Mrph_num /\ homo_num' = homo_num
      /\ pc' # "prepare"
  OBVIOUS
<1>2. MorphemesIn(text, sen, pos + 1, slot, Mrph_num, Mrph_num - homo_num) /\ LastRead(text, sen, pos + 1, slot, Mrph_num)
  BY OtherMorphemes, OtherLast
<1>3. /\ SlotsRight(text', sen', pos', slot', Mrph_num', Mrph_num' - homo_num', Bnst_start', Tag_start')
      /\ ReadingsRight(text', sen', pos', slot', Mrph_num', Mrph_num' - homo_num')
  BY <1>1, <1>2, Zenon DEF SlotsRight, ReadingsRight
<1> QED
  BY <1>1, <1>3, Zenon DEF StartInv

LEMMA CommentStarts ==
  ASSUME IInv, LineInv, BlameInv, ReadInv, StartInv, Comment
  PROVE  StartInv'
<1>1. /\ pc = "read" /\ pc' = "read" /\ pos <= Len(text) /\ pos' = pos + 1 /\ text[pos].k = "#"
      /\ UNCHANGED <<text, sen, slot, Mrph_num, homo_num, Bnst_start, Tag_start>>
  BY DEF Comment, Reads, Line, reading
<1>2. text[pos].k \notin {"m", "@", "*", "+"} /\ text[pos].k \notin {"m", "@"}
  BY <1>1
<1>3. text \in Texts /\ pos \in Nat \ {0}
  BY <1>1, ReadFacts
<1>4. StartsIn(text, sen, pos, slot, Mrph_num - homo_num, Bnst_start, Tag_start)
  BY <1>1, ReadFacts, Zenon
<1>5. StartsIn(text, sen, pos + 1, slot, Mrph_num - homo_num, Bnst_start', Tag_start')
  <2>1. StartsIn(text, sen, pos + 1, slot, Mrph_num - homo_num, Bnst_start, Tag_start)
    BY <1>2, <1>3, <1>4, OtherStarts, Zenon
  <2>2. Bnst_start' = Bnst_start /\ Tag_start' = Tag_start
    BY <1>1
  <2> QED
    BY <2>1, <2>2, Zenon
<1>6. /\ MorphemesIn(text, sen, pos, slot, Mrph_num, Mrph_num - homo_num)
      /\ OtherReadings(text, slot, Mrph_num, Mrph_num - homo_num) /\ LastRead(text, sen, pos, slot, Mrph_num)
  BY <1>1, ReadFacts, Zenon
<1> QED
  BY <1>1, <1>2, <1>3, <1>5, <1>6, LineStarts

LEMMA BnstLineStarts ==
  ASSUME IInv, LineInv, BlameInv, ReadInv, StartInv, BnstLine
  PROVE  StartInv'
<1>1. /\ pc = "read" /\ pos <= Len(text) /\ pos' = pos + 1 /\ text[pos].k = "*"
      /\ UNCHANGED <<text, sen, slot, Mrph_num, homo_num>>
      /\ IF text[pos].is = "bad" THEN pc' = "skip"
         ELSE /\ pc' = "read"
              /\ Bnst_start' = (IF Mrph_num = 0 THEN {} ELSE Bnst_start) \cup {Mrph_num - homo_num}
              /\ Tag_start' = (IF Mrph_num = 0 THEN {} ELSE Tag_start)
  BY DEF BnstLine, Reads, Line
<1>2. CASE pc' = "skip"
  <2>1. pc' \notin {"read", "prepare"}
    BY <1>2
  <2> QED
    BY <2>1, NotReading
<1>3. CASE pc' = "read"
  <2>1. PICK c : c = Mrph_num - homo_num
    OBVIOUS
  <2>2. /\ text \in Texts /\ pos \in Nat \ {0} /\ c \in Nat /\ c <= Mrph_num
        /\ homo_num = 0 \/ homo_num < Mrph_num
        /\ Mrph_num \in 0 .. MRPH_MAX /\ homo_num \in Nat
        /\ MorphemesIn(text, sen, pos, slot, Mrph_num, Mrph_num - homo_num)
        /\ OtherReadings(text, slot, Mrph_num, Mrph_num - homo_num) /\ LastRead(text, sen, pos, slot, Mrph_num)
        /\ StartsIn(text, sen, pos, slot, c, Bnst_start, Tag_start)
        /\ \A K : text[pos].k \in K => pos \in LinesIn(text, sen, K)
    BY <1>1, <2>1, ReadFacts, Zenon
  <2>3. pos \in LinesIn(text, sen, {"*"}) /\ text[pos].k \notin {"m", "@"}
    <3>1. text[pos].k \in {"*"} /\ text[pos].k \notin {"m", "@"}
      BY <1>1
    <3> QED
      BY <2>2, <3>1, Zenon
  <2>4. StartsIn(text, sen, pos + 1, slot, c, Bnst_start', Tag_start')
    <3>1. CASE Mrph_num = 0
      <4>1. c = 0
        BY <2>1, <2>2, <3>1
      <4>2. Bnst_start' = {0} /\ Tag_start' = {}
        BY <1>1, <1>3, <2>1, <3>1, <4>1
      <4>3. \A r \in LinesIn(text, sen, {"m"}) : ~ (r < pos)
        <5>1. NoneBefore(text, sen, pos, "m")
          BY <1>1, <3>1, Zenon DEF BlameInv
        <5>2. \A r \in LinesIn(text, sen, {"m"}) : r \in Nat \ {0} /\ NumberIn(text, r) = sen /\ text[r].k = "m"
          BY <2>2, TextFacts DEF LinesIn
        <5>3. \A r \in Nat \ {0} : r < pos => r \in 1 .. pos - 1
          BY <2>2
        <5> QED
          BY <5>1, <5>2, <5>3, Zenon DEF NoneBefore
      <4>4. StartsIn(text, sen, pos + 1, slot, 0, {0}, {})
        BY <2>2, <2>3, <4>3, FirstStarts
      <4> QED
        BY <4>1, <4>2, <4>4, Zenon
    <3>2. CASE Mrph_num # 0
      <4>1. 0 \in Slots /\ 0 < Mrph_num
        BY <2>2, <3>2, SlotBounds
      <4>2. /\ BaseIs(text, slot[0].id, BaseIn(text, slot[0].id)) /\ BaseIn(text, slot[0].id) \in LinesIn(text, sen, {"m"})
            /\ slot[0].id \in Nat /\ slot[0].id < pos
        BY <2>2, <4>1, SlotLines, Zenon DEF MorphemesIn
      <4>3. BaseIn(text, slot[0].id) \in 1 .. slot[0].id
        BY <4>2, Zenon DEF BaseIs
      <4>4. BaseIn(text, slot[0].id) < pos
        BY <2>2, <4>2, <4>3
      <4>5. Bnst_start' = Bnst_start \cup {c} /\ Tag_start' = Tag_start
        BY <1>1, <1>3, <2>1, <3>2
      <4>6. StartsIn(text, sen, pos + 1, slot, c, Bnst_start \cup {c}, Tag_start)
        BY <2>2, <2>3, <4>2, <4>4, BehindStarts, Zenon
      <4> QED
        BY <4>5, <4>6, Zenon
    <3> QED
      BY <3>1, <3>2
  <2>5. StartsIn(text, sen, pos + 1, slot, Mrph_num - homo_num, Bnst_start', Tag_start')
    BY <2>1, <2>4, Zenon
  <2> QED
    BY <1>1, <1>3, <2>2, <2>3, <2>5, LineStarts
<1> QED
  BY <1>1, <1>2, <1>3

LEMMA TagLineKeepsStarts ==
  ASSUME IInv, LineInv, BlameInv, ReadInv, StartInv, TagLine
  PROVE  StartInv'
<1>1. /\ pc = "read" /\ pos <= Len(text) /\ pos' = pos + 1 /\ text[pos].k = "+"
      /\ UNCHANGED <<text, sen, slot, Mrph_num, homo_num, Bnst_start>>
      /\ pc' = "skip" \/ (pc' = "read" /\ Tag_start' = Tag_start \cup {Mrph_num - homo_num})
  BY DEF TagLine, Reads, Line
<1>2. CASE pc' = "skip"
  <2>1. pc' \notin {"read", "prepare"}
    BY <1>2
  <2> QED
    BY <2>1, NotReading
<1>3. CASE pc' = "read" /\ Tag_start' = Tag_start \cup {Mrph_num - homo_num}
  <2>1. PICK c : c = Mrph_num - homo_num
    OBVIOUS
  <2>2. /\ text \in Texts /\ pos \in Nat \ {0} /\ c \in Nat
        /\ MorphemesIn(text, sen, pos, slot, Mrph_num, Mrph_num - homo_num)
        /\ OtherReadings(text, slot, Mrph_num, Mrph_num - homo_num) /\ LastRead(text, sen, pos, slot, Mrph_num)
        /\ StartsIn(text, sen, pos, slot, c, Bnst_start, Tag_start)
        /\ \A K : text[pos].k \in K => pos \in LinesIn(text, sen, K)
    BY <1>1, <2>1, ReadFacts, Zenon
  <2>3. pos \in LinesIn(text, sen, {"+"}) /\ text[pos].k \notin {"m", "@"}
    <3>1. text[pos].k \in {"+"} /\ text[pos].k \notin {"m", "@"}
      BY <1>1
    <3> QED
      BY <2>2, <3>1, Zenon
  <2>4. StartsIn(text, sen, pos + 1, slot, c, Bnst_start, Tag_start \cup {c})
    BY <2>2, <2>3, TagLineStarts, Zenon
  <2>5. StartsIn(text, sen, pos + 1, slot, Mrph_num - homo_num, Bnst_start', Tag_start')
    <3>1. Bnst_start' = Bnst_start
      BY <1>1
    <3> QED
      BY <1>3, <2>1, <2>4, <3>1, Zenon
  <2> QED
    BY <1>1, <1>3, <2>2, <2>3, <2>5, LineStarts
<1> QED
  BY <1>1, <1>2, <1>3

\* A line of a morpheme.
LEMMA MorphemeKeepsStarts ==
  ASSUME IInv, LineInv, BlameInv, ReadInv, StartInv, Morpheme
  PROVE  StartInv'
<1> DEFINE ends == text[pos].k = "m" /\ homo_num > 0
           s(pref) == IF ends THEN Reduced(pref) ELSE slot
           num == IF ends THEN Mrph_num - homo_num ELSE Mrph_num
<1>1. /\ pc = "read" /\ pos <= Len(text) /\ text[pos].k \in {"m", "@"} /\ pos' = pos + 1
      /\ UNCHANGED <<text, sen, Bnst_start, Tag_start>>
  BY DEF Morpheme, Reads, Line
<1>2. PICK pref \in 0 .. homo_num :
        /\ Full(num) => pc' = "skip"
        /\ ~ Full(num) =>
             /\ slot' = [s(pref) EXCEPT ![num] = [id |-> pos, w |-> text[pos].w, f |-> s(pref)[num].f \cup {pos}]]
             /\ Mrph_num' = num + 1 /\ pc' = pc
        /\ homo_num' = (IF ends THEN 0 ELSE homo_num) + (IF text[pos].k = "@" /\ ~ Full(num) THEN 1 ELSE 0)
  BY Zenon DEF Morpheme, Line
<1>3. CASE Full(num)
  <2>1. pc' \notin {"read", "prepare"}
    BY <1>2, <1>3
  <2> QED
    BY <2>1, NotReading
<1>4. CASE ~ Full(num)
  <2>1. PICK c : c = Mrph_num - homo_num
    OBVIOUS
  <2>2. /\ text \in Texts /\ pos \in Nat \ {0} /\ pos \in DOMAIN text /\ NumberIn(text, pos) = sen
        /\ slot \in [Slots -> SlotType] /\ Mrph_num \in 0 .. MRPH_MAX /\ homo_num \in Nat
        /\ homo_num = 0 \/ homo_num < Mrph_num
        /\ c \in Nat /\ c <= Mrph_num
        /\ Bnst_start \in SUBSET Nat /\ Tag_start \in SUBSET Nat
        /\ MorphemesIn(text, sen, pos, slot, Mrph_num, c)
        /\ StartsIn(text, sen, pos, slot, c, Bnst_start, Tag_start)
        /\ OtherReadings(text, slot, Mrph_num, c) /\ LastRead(text, sen, pos, slot, Mrph_num)
    BY <1>1, <2>1, ReadFacts, Zenon
  <2>3. \A i \in Slots : i < Mrph_num => slot[i].id \in Nat /\ slot[i].id < pos
    BY SlotLines, Zenon
  <2>4. /\ pc' = "read"
        /\ slot' = [s(pref) EXCEPT ![num] = [id |-> pos, w |-> text[pos].w, f |-> s(pref)[num].f \cup {pos}]]
        /\ Mrph_num' = num + 1
    BY <1>1, <1>2, <1>4, Zenon
  <2>5. num \in 0 .. MRPH_MAX /\ num \in Slots /\ DOMAIN s(pref) = Slots
    <3>1. CASE ends
      <4>1. DOMAIN Reduced(pref) = Slots
        BY Zenon DEF Reduced, Emptied
      <4> QED
        BY <1>4, <2>2, <3>1, <4>1, SlotBounds DEF Full
    <3>2. CASE ~ ends
      <4>1. num = Mrph_num /\ s(pref) = slot
        BY <3>2
      <4> QED
        BY <1>4, <2>2, <4>1, SlotBounds DEF Full
    <3> QED
      BY <3>1, <3>2
  <2>6. PICK s2 : s2 = slot'
    OBVIOUS
  <2> HIDE DEF num, s
  <2>7. s2[num].id = pos /\ \A i \in Slots : i < num => s2[i].id = s(pref)[i].id
    <3> DEFINE q == s(pref)
               r == [id |-> pos, w |-> text[pos].w, f |-> q[num].f \cup {pos}]
    <3>1. s2 = [q EXCEPT ![num] = r] /\ DOMAIN q = Slots /\ r.id = pos
      BY <2>4, <2>5, <2>6
    <3> HIDE DEF q, r
    <3>2. \A i \in Slots : i < num => i # num
      BY <2>5, SlotBounds
    <3>3. s2[num] = r /\ \A i \in Slots : i # num => s2[i] = q[i]
      BY <2>5, <3>1
    <3> QED
      BY <3>1, <3>2, <3>3, Zenon DEF q
  <2> DEFINE Goal(m, d) == /\ SlotsRight(text, sen, pos + 1, s2, m, d, Bnst_start, Tag_start)
                           /\ ReadingsRight(text, sen, pos + 1, s2, m, d)
  <2>8. CASE text[pos].k = "m"
    <3>1. num = c /\ homo_num' = 0
      BY <1>1, <1>2, <2>1, <2>2, <2>8 DEF num
    <3>2. /\ MorphemesIn(text, sen, pos, s(pref), c, c)
          /\ StartsIn(text, sen, pos, s(pref), c, Bnst_start, Tag_start)
          /\ \A i \in Slots : i < c => s(pref)[i].id \in Nat /\ s(pref)[i].id < pos
      <4>1. CASE homo_num > 0
        <5>1. s(pref) = Reduced(pref) /\ homo_num < Mrph_num
          BY <2>2, <2>8, <4>1 DEF s
        <5>2. /\ MorphemesIn(text, sen, pos, Reduced(pref), c, c)
              /\ \A k, S : BeginIn(text, sen, pos, k, slot, c, S) => BeginIn(text, sen, pos, k, Reduced(pref), c, S)
              /\ \A i \in Slots : i < c => \E j \in Slots : j < Mrph_num /\ Reduced(pref)[i] = slot[j]
          BY <2>1, <2>2, <4>1, <5>1, ReducedMorphemes, Zenon
        <5>3. StartsIn(text, sen, pos, Reduced(pref), c, Bnst_start, Tag_start)
          BY <2>2, <5>2, Zenon DEF StartsIn
        <5> QED
          BY <2>3, <5>1, <5>2, <5>3, Zenon
      <4>2. CASE ~ (homo_num > 0)
        <5>1. s(pref) = slot /\ c = Mrph_num
          BY <2>1, <2>2, <4>2 DEF s
        <5> QED
          BY <2>2, <2>3, <5>1, Zenon
      <4> QED
        BY <4>1, <4>2
    <3>3. pos \in LinesIn(text, sen, {"m"})
      BY <2>2, <2>8 DEF LinesIn
    <3>4. c \in Slots /\ s2[c].id = pos /\ \A i \in Slots : i < c => s2[i].id = s(pref)[i].id
      BY <2>5, <2>7, <3>1, Zenon
    <3>5. /\ MorphemesIn(text, sen, pos + 1, s2, c + 1, c + 1) /\ OtherReadings(text, s2, c + 1, c + 1)
          /\ LastRead(text, sen, pos + 1, s2, c + 1)
      BY <2>2, <3>2, <3>3, <3>4, MorphemeAdded, ZenonT(40)
    <3>6. StartsIn(text, sen, pos + 1, s2, c + 1, Bnst_start, Tag_start)
      BY <2>2, <3>2, <3>3, <3>4, MorphemeStarts, Zenon
    <3>7. Goal(c + 1, c + 1)
      BY <3>5, <3>6, Zenon DEF SlotsRight, ReadingsRight
    <3>8. Mrph_num' = c + 1 /\ Mrph_num' - homo_num' = c + 1
      BY <2>2, <2>4, <3>1
    <3> QED
      BY <1>1, <2>4, <2>6, <3>7, <3>8, Zenon DEF StartInv
  <2>9. CASE text[pos].k = "@"
    <3>1. num = Mrph_num /\ homo_num' = homo_num + 1 /\ s(pref) = slot
      BY <1>2, <1>4, <2>2, <2>9 DEF num, s
    <3>2. /\ Mrph_num \in Slots /\ s2[Mrph_num].id = pos
          /\ \A i \in Slots : i < Mrph_num => s2[i].id = slot[i].id
      BY <2>5, <2>7, <3>1, Zenon
    <3>3. \A i \in Slots : i < c => i < Mrph_num
      BY <2>2, SlotBounds
    <3>4. /\ MorphemesIn(text, sen, pos + 1, s2, Mrph_num + 1, c) /\ OtherReadings(text, s2, Mrph_num + 1, c)
          /\ LastRead(text, sen, pos + 1, s2, Mrph_num + 1)
      BY <2>2, <2>3, <2>9, <3>2, ReadingAdded, ZenonT(40)
    <3>5. StartsIn(text, sen, pos + 1, s2, c, Bnst_start, Tag_start)
      BY <2>2, <2>9, <3>2, <3>3, ReadingStarts, Zenon
    <3>6. Goal(Mrph_num + 1, c)
      BY <3>4, <3>5, Zenon DEF SlotsRight, ReadingsRight
    <3>7. Mrph_num' = Mrph_num + 1 /\ Mrph_num' - homo_num' = c
      BY <2>1, <2>2, <2>4, <3>1
    <3> QED
      BY <1>1, <2>4, <2>6, <3>6, <3>7, Zenon DEF StartInv
  <2> QED
    BY <1>1, <2>8, <2>9
<1> QED
  BY <1>3, <1>4

\* EOS: the readings of the last morpheme are reduced.
LEMMA EndKeepsStarts ==
  ASSUME IInv, LineInv, BlameInv, ReadInv, StartInv, EndOfSentence
  PROVE  StartInv'
<1>1. /\ pc = "read" /\ pos <= Len(text) /\ text[pos].k = "E" /\ pos' = pos + 1
      /\ UNCHANGED <<text, sen, Bnst_start, Tag_start>>
  BY DEF EndOfSentence, Reads, Line
<1>2. CASE Mrph_num = 0
  <2>1. pc' \notin {"read", "prepare"}
    BY <1>2 DEF EndOfSentence, Fail
  <2> QED
    BY <2>1, NotReading
<1>3. CASE Mrph_num # 0
  <2>1. PICK pref \in 0 .. homo_num : slot' = IF homo_num > 0 THEN Reduced(pref) ELSE slot
    BY <1>3, Zenon DEF EndOfSentence
  <2>2. pc' = "prepare" /\ Mrph_num' = Mrph_num - homo_num /\ homo_num' = 0
    BY <1>3 DEF EndOfSentence
  <2>3. PICK c : c = Mrph_num - homo_num
    OBVIOUS
  <2>4. PICK s2 : s2 = slot'
    OBVIOUS
  <2>5. /\ text \in Texts /\ pos \in Nat \ {0}
        /\ slot \in [Slots -> SlotType] /\ Mrph_num \in 0 .. MRPH_MAX /\ homo_num \in Nat
        /\ homo_num = 0 \/ homo_num < Mrph_num
        /\ c \in Nat
        /\ MorphemesIn(text, sen, pos, slot, Mrph_num, c)
        /\ StartsIn(text, sen, pos, slot, c, Bnst_start, Tag_start)
        /\ OtherReadings(text, slot, Mrph_num, c)
    BY <1>1, <2>3, ReadFacts, Zenon
  <2>6. c > 0 /\ c - 0 = c /\ Mrph_num' - homo_num' = c
    BY <1>3, <2>2, <2>3, <2>5
  <2>7. MorphemesIn(text, sen, pos, s2, c, c) /\ StartsIn(text, sen, pos, s2, c, Bnst_start, Tag_start)
    <3>1. CASE homo_num > 0
      <4>1. s2 = Reduced(pref) /\ homo_num < Mrph_num
        BY <2>1, <2>4, <2>5, <3>1
      <4>2. /\ MorphemesIn(text, sen, pos, Reduced(pref), c, c)
            /\ \A k, S : BeginIn(text, sen, pos, k, slot, c, S) => BeginIn(text, sen, pos, k, Reduced(pref), c, S)
        BY <2>3, <2>5, <3>1, <4>1, ReducedMorphemes, Zenon
      <4>3. StartsIn(text, sen, pos, Reduced(pref), c, Bnst_start, Tag_start)
        BY <2>5, <4>2, Zenon DEF StartsIn
      <4> QED
        BY <4>1, <4>2, <4>3, Zenon
    <3>2. CASE ~ (homo_num > 0)
      <4>1. s2 = slot /\ c = Mrph_num
        BY <2>1, <2>3, <2>4, <2>5, <3>2
      <4> QED
        BY <2>5, <4>1, Zenon
    <3> QED
      BY <3>1, <3>2
  <2>8. text[pos].k \notin {"m", "@", "*", "+"} /\ text[pos].k \notin {"m", "@"}
    BY <1>1
  <2>9. MorphemesIn(text, sen, pos + 1, s2, c, c) /\ StartsIn(text, sen, pos + 1, s2, c, Bnst_start, Tag_start)
    BY <2>5, <2>7, <2>8, OtherMorphemes, OtherStarts, Zenon
  <2>10. SlotsRight(text, sen, pos + 1, s2, c, c, Bnst_start, Tag_start)
    BY <2>9, Zenon DEF SlotsRight
  <2>11. /\ text' = text /\ sen' = sen /\ pos' = pos + 1 /\ Bnst_start' = Bnst_start /\ Tag_start' = Tag_start
         /\ Mrph_num' = c /\ homo_num' = 0 /\ pc' # "read"
    BY <1>1, <2>2, <2>3
  <2>12. SlotsRight(text', sen', pos', slot', Mrph_num', Mrph_num' - homo_num', Bnst_start', Tag_start')
    BY <2>4, <2>6, <2>10, <2>11, Zenon
  <2>13. Mrph_num' > 0
    BY <2>6, <2>11
  <2> QED
    BY <2>11, <2>12, <2>13, Zenon DEF StartInv
<1> QED
  BY <1>2, <1>3

LEMMA StepStarts == IInv /\ LineInv /\ BlameInv /\ ReadInv /\ MarkInv /\ StartInv /\ [Next]_vars => StartInv'
<1>1. SUFFICES ASSUME IInv, LineInv, BlameInv, ReadInv, MarkInv, StartInv, [Next]_vars PROVE StartInv'
  OBVIOUS
<1>2. CASE UNCHANGED vars
  <2>1. UNCHANGED <<text, pos, sen, slot, Mrph_num, homo_num, Bnst_start, Tag_start, pc>>
    BY <1>2 DEF vars, reading
  <2>2. /\ text' = text /\ pos' = pos /\ sen' = sen /\ slot' = slot /\ Mrph_num' = Mrph_num /\ homo_num' = homo_num
        /\ Bnst_start' = Bnst_start /\ Tag_start' = Tag_start /\ pc' = pc
    BY <2>1
  <2> QED
    BY <1>1, <2>2, Zenon DEF StartInv
<1>3. CASE Invalid \/ Skip \/ Preprocess \/ Analyse \/ NextParen \/ Finish
  <2>1. pc' \notin {"read", "prepare"}
    BY <1>3 DEF Invalid, Skip, Fail, Preprocess, Analyse, NextParen, Finish
  <2> QED
    BY <2>1, NotReading
<1> QED
  BY <1>1, <1>2, <1>3, StartStarts, CommentStarts, BnstLineStarts, TagLineKeepsStarts, MorphemeKeepsStarts,
     EndKeepsStarts DEF Next
-----------------------------------------------------------------------------
(* The slots that are moved to the front                                   *)

\* How many of I are smaller orders I, and Front by it.
LEMMA LessOrders ==
  ASSUME NEW n \in Nat, NEW I \in SUBSET (0 .. (n - 1))
  PROVE  /\ Cardinality(I) \in Nat
         /\ \A i \in I : Cardinality({j \in I : j < i}) \in 0 .. (Cardinality(I) - 1)
         /\ \A i, k \in I : i < k => Cardinality({j \in I : j < i}) < Cardinality({j \in I : j < k})
<1> DEFINE Below(i) == {j \in I : j < i}
<1>1. IsFiniteSet(I) /\ \A i \in I : i \in Nat
  <2>1. IsFiniteSet(0 .. (n - 1))
    BY FS_Interval
  <2>2. IsFiniteSet(I)
    BY <2>1, FS_Subset, Zenon
  <2> QED
    BY <2>2
<1>2. \A i \in I : i \notin Below(i) /\ Below(i) \in SUBSET I
  BY <1>1
<1>3. \A i, k \in I : i < k => Below(i) \in SUBSET Below(k) /\ i \in Below(k)
  <2>1. \A i, k, j \in Nat : i < k /\ j < i => j < k
    OBVIOUS
  <2> QED
    BY <1>1, <2>1, Zenon
<1>4. \A i \in I : Below(i) \in SUBSET I
  BY <1>2
<1> HIDE DEF Below
<1>5. \A i \in I : IsFiniteSet(Below(i)) /\ Cardinality(Below(i)) \in Nat
  BY <1>1, <1>4, FS_Subset, FS_CardinalityType
<1>6. Cardinality(I) \in Nat
  BY <1>1, FS_CardinalityType
<1>7. ASSUME NEW i \in I PROVE Cardinality(Below(i)) \in 0 .. (Cardinality(I) - 1)
  <2>1. Cardinality(Below(i)) <= Cardinality(I) /\ (Cardinality(I) = Cardinality(Below(i)) => I = Below(i))
    BY <1>1, <1>4, FS_Subset
  <2>2. I # Below(i)
    BY <1>2
  <2> QED
    BY <1>5, <1>6, <2>1, <2>2
<1>8. ASSUME NEW i \in I, NEW k \in I, i < k PROVE Cardinality(Below(i)) < Cardinality(Below(k))
  <2>1. IsFiniteSet(Below(k)) /\ Below(i) \in SUBSET Below(k)
    BY <1>3, <1>5, <1>8
  <2>2. /\ Cardinality(Below(i)) <= Cardinality(Below(k))
        /\ Cardinality(Below(k)) = Cardinality(Below(i)) => Below(k) = Below(i)
    BY <2>1, FS_Subset
  <2>3. Below(k) # Below(i)
    BY <1>2, <1>3, <1>8
  <2> QED
    BY <1>5, <2>2, <2>3
<1> QED
  BY <1>6, <1>7, <1>8 DEF Below

LEMMA FrontAt ==
  ASSUME NEW s, NEW n \in Nat, NEW I \in SUBSET (0 .. (n - 1))
  PROVE  \A i \in I : /\ Cardinality({j \in I : j < i}) \in 0 .. (Cardinality(I) - 1)
                      /\ Front(s, I)[Cardinality({j \in I : j < i})] = s[i]
<1> DEFINE Less(i) == Cardinality({j \in I : j < i})
<1>1. /\ Cardinality(I) \in Nat
      /\ \A i \in I : Less(i) \in 0 .. (Cardinality(I) - 1)
      /\ \A i, k \in I : i < k => Less(i) < Less(k)
  BY LessOrders
<1>2. \A i \in I : i \in Nat
  OBVIOUS
<1>3. Front(s, I) = [k \in 0 .. (Cardinality(I) - 1) |-> s[CHOOSE i \in I : Less(i) = k]]
  BY Zenon DEF Front
<1> HIDE DEF Less
<1>4. ASSUME NEW i \in I PROVE Front(s, I)[Less(i)] = s[i]
  <2>1. ASSUME NEW k \in I, Less(k) = Less(i) PROVE k = i
    <3>1. k \in Nat /\ i \in Nat /\ Less(k) \in Nat /\ Less(i) \in Nat
      BY <1>1, <1>2
    <3>2. ~ (k < i) /\ ~ (i < k)
      BY <1>1, <2>1, <3>1
    <3> QED
      BY <3>1, <3>2
  <2>2. (CHOOSE k \in I : Less(k) = Less(i)) = i
    BY <2>1, Zenon
  <2> QED
    BY <1>1, <1>3, <2>2, Zenon
<1> QED
  BY <1>1, <1>4 DEF Less

\* The first of the slots comes first, and all stay where they are if none is left
\* out.
LEMMA FrontFirst ==
  ASSUME NEW s, NEW n \in Nat, NEW I \in SUBSET (0 .. (n - 1)), 0 \in I
  PROVE  Cardinality(I) > 0 /\ Front(s, I)[0] = s[0]
<1>1. {j \in I : j < 0} = {}
  <2>1. \A j \in I : j \in Nat
    OBVIOUS
  <2>2. \A j \in I : ~ (j < 0)
    BY <2>1
  <2> QED
    BY <2>2
<1>2. Cardinality({j \in I : j < 0}) = 0
  BY <1>1, FS_EmptySet
<1>3. 0 \in 0 .. (Cardinality(I) - 1) /\ Front(s, I)[0] = s[0]
  <2>1. PICK k : k = Cardinality({j \in I : j < 0})
    OBVIOUS
  <2>2. k \in 0 .. (Cardinality(I) - 1) /\ Front(s, I)[k] = s[0]
    BY <2>1, FrontAt, Zenon
  <2> QED
    BY <1>2, <2>1, <2>2, Zenon
<1>4. Cardinality(I) \in Nat
  BY LessOrders
<1> QED
  BY <1>3, <1>4

LEMMA FrontAll ==
  ASSUME NEW s, NEW n \in Nat
  PROVE  /\ Cardinality(0 .. (n - 1)) = n
         /\ \A i \in 0 .. (n - 1) : Front(s, 0 .. (n - 1))[i] = s[i]
<1>1. Cardinality(0 .. (n - 1)) = n
  BY FS_Interval
<1>2. ASSUME NEW i \in 0 .. (n - 1) PROVE Front(s, 0 .. (n - 1))[i] = s[i]
  <2>1. {j \in 0 .. (n - 1) : j < i} = 0 .. (i - 1) /\ i \in Nat
    OBVIOUS
  <2>2. Cardinality(0 .. (i - 1)) = i
    BY <2>1, FS_Interval
  <2>3. PICK I : I = 0 .. (n - 1)
    OBVIOUS
  <2>4. I \in SUBSET (0 .. (n - 1)) /\ i \in I /\ Cardinality({j \in I : j < i}) = i
    BY <2>1, <2>2, <2>3
  <2>5. Front(s, I)[Cardinality({j \in I : j < i})] = s[i]
    BY <2>4, FrontAt
  <2> QED
    BY <2>3, <2>4, <2>5, Zenon
<1> QED
  BY <1>1, <1>2

\* What preprocess_mrph leaves: all morphemes if none is joined; the first one, and
\* any that is no digit.
LEMMA CompactedHolds ==
  ASSUME slot \in [Slots -> SlotType], Mrph_num \in 0 .. MRPH_MAX
  PROVE  /\ Joined = {} => Compacted = slot /\ Mrph_num - Cardinality(Joined) = Mrph_num
         /\ Mrph_num > 0 => Mrph_num - Cardinality(Joined) > 0 /\ Compacted[0] = slot[0]
         /\ \A i \in Slots : i < Mrph_num /\ slot[i].w # "d" =>
              \E k \in Slots : k < Mrph_num - Cardinality(Joined) /\ Compacted[k] = slot[i]
<1> DEFINE I == Used \ Joined
           left == Front(slot, I)
           num == Mrph_num - Cardinality(Joined)
<1>1. /\ Mrph_num \in Nat /\ Mrph_num <= MRPH_MAX /\ Used = 0 .. (Mrph_num - 1) /\ Joined \subseteq Used
      /\ 0 \notin Joined /\ \A i \in Joined : slot[i].w = "d"
  BY SlotBounds DEF Used, Joined
<1>2. I \in SUBSET (0 .. (Mrph_num - 1))
  BY <1>1
<1>3. num \in 0 .. Mrph_num
  BY CompactedStays
<1>4. Cardinality(I) = num
  <2>1. IsFiniteSet(Used) /\ Cardinality(Used) = Mrph_num
    BY <1>1, FS_Interval
  <2>2. Used \cap Joined = Joined
    BY <1>1
  <2> QED
    BY <2>1, <2>2, FS_Difference
<1> HIDE DEF num
<1>5. DOMAIN left = 0 .. (num - 1)
  BY <1>2, <1>4, FrontOf
<1>6. Compacted = [i \in Slots |-> IF i \in 0 .. (num - 1) THEN left[i]
                                   ELSE IF i \in Used THEN [slot[i] EXCEPT !.f = {}] ELSE slot[i]]
  BY <1>5, Zenon DEF Compacted
<1>7. /\ \A k \in 0 .. (num - 1) : k \in Slots /\ k < num
      /\ \A i \in Slots : i < Mrph_num => i \in Used
  BY <1>1, <1>3, SlotBounds
<1>8. \A k \in 0 .. (num - 1) : Compacted[k] = left[k]
  BY <1>6, <1>7, Zenon
<1>9. ASSUME Joined = {} PROVE Compacted = slot /\ num = Mrph_num
  <2>1. I = 0 .. (Mrph_num - 1) /\ Cardinality(Joined) = 0
    BY <1>1, <1>9, FS_EmptySet
  <2>2. num = Mrph_num
    BY <1>1, <2>1 DEF num
  <2>3. \A i \in 0 .. (Mrph_num - 1) : left[i] = slot[i]
    <3>1. \A i \in 0 .. (Mrph_num - 1) : Front(slot, 0 .. (Mrph_num - 1))[i] = slot[i]
      BY <1>1, FrontAll
    <3> QED
      BY <2>1, <3>1, Zenon
  <2> HIDE DEF left
  <2>4. Compacted = [i \in Slots |-> slot[i]]
    BY <1>1, <1>6, <2>2, <2>3, Zenon
  <2>5. slot = [i \in Slots |-> slot[i]]
    OBVIOUS
  <2> QED
    BY <2>2, <2>4, <2>5, Zenon
<1>10. ASSUME Mrph_num > 0 PROVE num > 0 /\ Compacted[0] = slot[0]
  <2>1. 0 \in I
    BY <1>1, <1>10
  <2>2. Cardinality(I) > 0 /\ left[0] = slot[0]
    BY <1>1, <1>2, <2>1, FrontFirst
  <2>3. 0 \in 0 .. (num - 1)
    BY <1>3, <1>4, <2>2
  <2> QED
    BY <1>4, <1>8, <2>2, <2>3, Zenon
<1>11. ASSUME NEW i \in Slots, i < Mrph_num, slot[i].w # "d"
       PROVE  \E k \in Slots : k < num /\ Compacted[k] = slot[i]
  <2>1. i \in I
    BY <1>1, <1>7, <1>11
  <2>2. PICK k \in 0 .. (num - 1) : left[k] = slot[i]
    BY <1>1, <1>2, <1>4, <2>1, FrontAt, ZenonT(30)
  <2> QED
    BY <1>7, <1>8, <2>2, Zenon
<1> QED
  BY <1>9, <1>10, <1>11 DEF num
-----------------------------------------------------------------------------
(* The sentence as it is analysed                                          *)

Digits(t, n) == \E p \in WordLines(t, n) : t[p].w = "d"

\* No phrase begins in the slots if none is given.
NoneStarts(t, n, m, B) ==
  ~ MarkedIn(t, n) /\ (\A q \in LinesIn(t, n, {"m"}) : ~ Pending(t, n, q, "*")) => \A i \in Slots : i < m => i \notin B

\* Without other readings, all morphemes are in the slots but some digits.
AllThere(t, n, s, m) ==
  /\ m > 0
  /\ LinesIn(t, n, {"@"}) = {} =>
       \A q \in LinesIn(t, n, {"m"}) : /\ s[0].id <= q
                                       /\ t[q].w # "d" => \E i \in Slots : i < m /\ s[i].id = q

CutRight ==
  /\ parens = <<>>
  /\ (Digits(text, sen) => "PARSED" \in OptInput) =>
       SlotsRight(text, sen, pos, slot, Mrph_num, Mrph_num, Bnst_start, Tag_start)
  /\ NoneStarts(text, sen, Mrph_num, Bnst_start) /\ AllThere(text, sen, slot, Mrph_num)

CutInv ==
  /\ pc = "next" => Parenthesis(text, opt, sen)
  /\ pc = "analyse" /\ ~ Parenthesis(text, opt, sen) => CutRight

\* All lines of the sentence have been read.
LEMMA SentenceRead ==
  ASSUME IInv, pc \in {"ready", "prepare", "analyse", "next"}
  PROVE  \A q \in DOMAIN text : NumberIn(text, q) = sen => q < pos
<1>1. text \in Texts /\ pos \in Nat \ {0} /\ sen \in Nat /\ NumberIn(text, pos) = sen + 1
  BY TextFacts DEF IInv, TextInv
<1> SUFFICES ASSUME NEW q \in DOMAIN text, NumberIn(text, q) = sen PROVE q < pos
  OBVIOUS
<1>2. q \in Nat
  BY <1>1, TextFacts
<1>3. pos <= q => NumberIn(text, pos) <= NumberIn(text, q)
  BY <1>1, <1>2, NumberGrows
<1> QED
  BY <1>1, <1>2, <1>3

\* Nothing is cut out of a sentence in which no parenthesis ends.
LEMMA NothingCut ==
  ASSUME IInv, LineInv, Preprocess, ~ Parenthesis(text, opt, sen)
  PROVE  slot' = Compacted /\ Mrph_num' = Mrph_num - Cardinality(Joined) /\ parens' = <<>>
<1> DEFINE num == Mrph_num - Cardinality(Joined)
           c == Compacted
           p == IF opt.paren THEN CutOut(c, num) ELSE {}
<1>1. /\ slot' = WithoutParens(c, num, p) /\ Mrph_num' = num - Cardinality(Within(p))
      /\ parens' = ParenSentences(c, p)
  BY Zenon DEF Preprocess
<1>2. slot \in [Slots -> SlotType] /\ Mrph_num \in 0 .. MRPH_MAX
  BY DEF IInv, SlotInv, CountInv
<1>3. num \in 0 .. Mrph_num /\ Moved(slot, Mrph_num, c, num)
  BY <1>2, CompactedStays, Zenon
<1> HIDE DEF num, c
<1>4. num \in 0 .. MRPH_MAX /\ num \in Nat
  BY <1>2, <1>3, SlotBounds
<1>5. LinesKnown(text, sen, pos, c, num)
  BY <1>3, <1>4, MovedKnown, Zenon DEF LineInv
<1>6. c \in [Slots -> SlotType] /\ Holds(c, num, LineSlots(text, sen, pos))
  BY <1>5, Zenon DEF LinesKnown
<1>7. Cuttable(c, num, p) /\ p \in SUBSET Pairs(c, num) /\ (p # {} => opt.paren)
  BY Zenon DEF CutOut, Cuttable
<1> HIDE DEF p
<1>8. p = {}
  <2>1. SUFFICES ASSUME p # {}
                 PROVE  FALSE
    BY Zenon
  <2>2. PICK x \in p : x[2] \in 0 .. (num - 1) /\ c[x[2]].w = ")"
    BY <1>4, <1>7, <2>1, PairFacts, Zenon
  <2> DEFINE y == c[x[2]]
  <2>3. x[2] \in Slots /\ x[2] < num
    BY <1>4, <2>2, SlotBounds
  <2>4. y \in LineSlots(text, sen, pos)
    BY <1>6, <2>3, Zenon DEF Holds
  <2>5. y.id \in WordLines(text, sen) /\ text[y.id].w = ")"
    BY <2>2, <2>4, Zenon DEF LineSlots
  <2> QED
    BY <1>7, <2>1, <2>5, Zenon DEF Parenthesis
<1>9. num - Cardinality(Within(p)) = num /\ WithoutParens(c, num, p) = c
  BY <1>4, <1>6, <1>7, <1>8, WithoutParensStays, Zenon
<1>10. parens' = <<>>
  <2>1. parens' \in Seq(Chunks(SlotType))
    BY PreprocessKeeps DEF IInv, SlotInv
  <2>2. Cardinality(p) = 0
    BY <1>8, FS_EmptySet
  <2>3. DOMAIN parens' = 1 .. Cardinality(p)
    BY <1>1, Zenon DEF ParenSentences
  <2>4. parens' = <<>> \/ Len(parens') # 0
    BY <2>1
  <2>5. DOMAIN parens' = 1 .. Len(parens') /\ Len(parens') \in Nat
    BY <2>1
  <2> QED
    BY <2>2, <2>3, <2>4, <2>5
<1> QED
  BY <1>1, <1>9, <1>10, Zenon DEF num, c

LEMMA PreprocessCut ==
  ASSUME IInv, LineInv, StartInv, Preprocess, ~ Parenthesis(text, opt, sen)
  PROVE  CutRight'
<1>1. /\ pc = "prepare" /\ UNCHANGED <<text, opt, pos, sen, OptInput, Bnst_start, Tag_start>>
  BY DEF Preprocess
<1>2. PICK num : num = Mrph_num - Cardinality(Joined)
  OBVIOUS
<1>3. slot' = Compacted /\ Mrph_num' = num /\ parens' = <<>>
  BY <1>2, NothingCut
<1>4. slot \in [Slots -> SlotType] /\ Mrph_num \in 0 .. MRPH_MAX /\ text \in Texts
  BY DEF IInv, SlotInv, CountInv, TextInv
<1>5. /\ homo_num = 0 /\ Mrph_num > 0 /\ Mrph_num - 0 = Mrph_num
      /\ SlotsRight(text, sen, pos, slot, Mrph_num, Mrph_num - homo_num, Bnst_start, Tag_start)
  BY <1>1, <1>4, SlotBounds DEF StartInv
<1>6. SlotsRight(text, sen, pos, slot, Mrph_num, Mrph_num, Bnst_start, Tag_start)
  BY <1>5, Zenon
<1>7. /\ MorphemesIn(text, sen, pos, slot, Mrph_num, Mrph_num)
      /\ StartsIn(text, sen, pos, slot, Mrph_num, Bnst_start, Tag_start)
  BY <1>6, Zenon DEF SlotsRight
<1>8. \A i \in Slots : i < Mrph_num =>
        /\ slot[i].id \in WordLines(text, sen) /\ slot[i].id \in Nat /\ slot[i].id < pos
        /\ slot[i].w = text[slot[i].id].w
  BY SlotLines
<1>9. \A i \in Used : i \in Slots /\ i < Mrph_num
  BY <1>4, SlotBounds DEF Used
<1>10. ASSUME Digits(text, sen) => "PARSED" \in OptInput
       PROVE  SlotsRight(text, sen, pos, slot', Mrph_num', Mrph_num', Bnst_start, Tag_start)
  <2>1. Joined = {}
    <3>1. CASE "PARSED" \in OptInput
      BY <3>1 DEF Joined
    <3>2. CASE ~ Digits(text, sen)
      <4>1. \A i \in Used : slot[i].w # "d"
        BY <1>8, <1>9, <3>2, Zenon DEF Digits
      <4> QED
        BY <4>1 DEF Joined
    <3> QED
      BY <1>10, <3>1, <3>2
  <2>2. Compacted = slot /\ num = Mrph_num
    BY <1>2, <1>4, <2>1, CompactedHolds, Zenon
  <2> QED
    BY <1>3, <1>6, <2>2, Zenon
<1>11. num \in 0 .. Mrph_num /\ num > 0 /\ Compacted[0] = slot[0]
       /\ \A i \in Slots : i < Mrph_num /\ slot[i].w # "d" => \E k \in Slots : k < num /\ Compacted[k] = slot[i]
  <2>1. /\ Mrph_num - Cardinality(Joined) \in 0 .. Mrph_num
        /\ Mrph_num - Cardinality(Joined) > 0 /\ Compacted[0] = slot[0]
        /\ \A i \in Slots : i < Mrph_num /\ slot[i].w # "d" =>
             \E k \in Slots : k < Mrph_num - Cardinality(Joined) /\ Compacted[k] = slot[i]
    BY <1>4, <1>5, CompactedStays, CompactedHolds, Zenon
  <2> QED
    BY <1>2, <2>1, Zenon
<1>12. NoneStarts(text, sen, num, Bnst_start)
  <2> SUFFICES ASSUME ~ MarkedIn(text, sen), \A q \in LinesIn(text, sen, {"m"}) : ~ Pending(text, sen, q, "*"),
                      NEW i \in Slots, i < num
               PROVE  i \notin Bnst_start
    BY Zenon DEF NoneStarts
  <2>1. i < Mrph_num
    BY <1>4, <1>11, SlotBounds
  <2>2. BeginIn(text, sen, pos, "*", slot, Mrph_num, Bnst_start)
    BY <1>7, Zenon DEF StartsIn, Fresh
  <2>3. BaseIn(text, slot[i].id) \in LinesIn(text, sen, {"m"})
    BY <1>7, <2>1, Zenon DEF MorphemesIn
  <2> QED
    BY <2>1, <2>2, <2>3, Zenon DEF BeginIn
<1>13. AllThere(text, sen, Compacted, num)
  <2> SUFFICES ASSUME LinesIn(text, sen, {"@"}) = {}, NEW q \in LinesIn(text, sen, {"m"})
               PROVE  /\ Compacted[0].id <= q
                      /\ text[q].w # "d" => \E i \in Slots : i < num /\ Compacted[i].id = q
    BY <1>11, Zenon DEF AllThere
  <2>1. \A p \in WordLines(text, sen) : text[p].k = "m"
    BY DEF WordLines, LinesIn
  <2>2. \A i \in Slots : i < Mrph_num => BaseIn(text, slot[i].id) = slot[i].id
    <3> SUFFICES ASSUME NEW i \in Slots, i < Mrph_num PROVE BaseIn(text, slot[i].id) = slot[i].id
      OBVIOUS
    <3>1. PICK x : x = slot[i].id
      OBVIOUS
    <3>2. x \in WordLines(text, sen) /\ text[x].k = "m"
      BY <1>8, <2>1, <3>1, Zenon
    <3>3. x \in Nat \ {0}
      BY <1>4, <3>2, TextFacts DEF WordLines
    <3>4. BaseIn(text, x) = x
      BY <3>2, <3>3, BaseSelf
    <3> QED
      BY <3>1, <3>4, Zenon
  <2>3. q < pos
    <3>1. q \in DOMAIN text /\ NumberIn(text, q) = sen
      BY Zenon DEF LinesIn
    <3>2. pc \in {"ready", "prepare", "analyse", "next"}
      BY <1>1
    <3> QED
      BY <3>1, <3>2, SentenceRead, Zenon
  <2>4. PICK i \in Slots : i < Mrph_num /\ BaseIn(text, slot[i].id) = q
    BY <1>7, <2>3, Zenon DEF MorphemesIn
  <2>5. slot[i].id = q
    BY <2>2, <2>4, Zenon
  <2>6. 0 \in Slots /\ 0 < Mrph_num
    BY <1>4, <1>5, SlotBounds
  <2>7. BaseIn(text, slot[0].id) <= BaseIn(text, slot[i].id)
    BY <1>7, <2>4, Zenon DEF MorphemesIn
  <2>8. slot[0].id <= q
    BY <2>2, <2>4, <2>6, <2>7, Zenon
  <2>9. ASSUME text[q].w # "d" PROVE \E k \in Slots : k < num /\ Compacted[k].id = q
    <3>1. slot[i].w # "d"
      BY <1>8, <2>4, <2>5, <2>9, Zenon
    <3> QED
      BY <1>11, <2>4, <2>5, <3>1, Zenon
  <2> QED
    BY <1>11, <2>8, <2>9, Zenon
<1>14. /\ text' = text /\ sen' = sen /\ pos' = pos /\ OptInput' = OptInput /\ Bnst_start' = Bnst_start
       /\ Tag_start' = Tag_start
  BY <1>1
<1>15. /\ (Digits(text', sen') => "PARSED" \in OptInput') =>
            SlotsRight(text', sen', pos', slot', Mrph_num', Mrph_num', Bnst_start', Tag_start')
       /\ NoneStarts(text', sen', Mrph_num', Bnst_start') /\ AllThere(text', sen', slot', Mrph_num')
  BY <1>3, <1>10, <1>12, <1>13, <1>14, Zenon
<1> QED
  BY <1>3, <1>15, Zenon DEF CutRight

LEMMA StepCut == IInv /\ LineInv /\ StartInv /\ CutInv /\ [Next]_vars => CutInv'
<1>1. SUFFICES ASSUME IInv, LineInv, StartInv, CutInv, [Next]_vars PROVE CutInv'
  OBVIOUS
<1>2. CASE UNCHANGED vars
  <2>1. UNCHANGED <<text, opt, pos, sen, slot, Mrph_num, OptInput, Bnst_start, Tag_start, pc, parens>>
    BY <1>2 DEF vars, reading
  <2>2. /\ text' = text /\ opt' = opt /\ pos' = pos /\ sen' = sen /\ slot' = slot /\ Mrph_num' = Mrph_num
        /\ OptInput' = OptInput /\ Bnst_start' = Bnst_start /\ Tag_start' = Tag_start /\ pc' = pc /\ parens' = parens
    BY <2>1
  <2> QED
    BY <1>1, <2>2, Zenon DEF CutInv, CutRight
<1>3. CASE Start \/ Comment \/ BnstLine \/ TagLine \/ Morpheme \/ Invalid \/ Skip \/ EndOfSentence \/ Finish
  <2>1. pc' # "analyse" /\ pc' # "next"
    <3>1. CASE Start \/ Skip \/ EndOfSentence \/ Finish
      BY <3>1 DEF Start, Skip, Fail, EndOfSentence, Finish
    <3>2. CASE Comment \/ BnstLine \/ TagLine \/ Morpheme \/ Invalid
      BY <3>2 DEF Comment, BnstLine, TagLine, Morpheme, Invalid, Reads
    <3> QED
      BY <1>3, <3>1, <3>2
  <2> QED
    BY <2>1, Zenon DEF CutInv
<1>4. CASE Preprocess
  <2>1. pc' = "analyse" /\ pc' # "next" /\ text' = text /\ opt' = opt /\ sen' = sen
    BY <1>4 DEF Preprocess
  <2>2. ~ Parenthesis(text, opt, sen) => CutRight'
    BY <1>1, <1>4, PreprocessCut
  <2> QED
    BY <2>1, <2>2, Zenon DEF CutInv
<1>5. CASE Analyse
  <2>1. /\ pc = "analyse" /\ pc' = (IF parens = <<>> THEN "ready" ELSE "next") /\ pc' # "analyse"
        /\ text' = text /\ opt' = opt /\ sen' = sen
    BY <1>5 DEF Analyse
  <2>2. ~ Parenthesis(text, opt, sen) => pc' # "next"
    <3>1. ~ Parenthesis(text, opt, sen) => parens = <<>>
      BY <1>1, <2>1, Zenon DEF CutInv, CutRight
    <3> QED
      BY <2>1, <3>1
  <2> QED
    BY <2>1, <2>2, Zenon DEF CutInv
<1>6. CASE NextParen
  <2>1. pc = "next" /\ pc' # "next" /\ text' = text /\ opt' = opt /\ sen' = sen
    BY <1>6 DEF NextParen
  <2> QED
    BY <1>1, <2>1, Zenon DEF CutInv
<1> QED
  BY <1>1, <1>2, <1>3, <1>4, <1>5, <1>6 DEF Next
-----------------------------------------------------------------------------
(* The phrases and tags of a sentence                                      *)

\* Begun, and the other parts of PhrasesRight, for a given text.
BegunIn(t, n, k) == {q \in LinesIn(t, n, {"m"}) : Pending(t, n, q, k)}
FirstIn(t, n) == {p \in LinesIn(t, n, {"m"}) : \A q \in LinesIn(t, n, {"m"}) : p <= q}
TakenIn(t, n) ==
  \E p \in LinesIn(t, n, {"*"}), q \in LinesIn(t, n, {"+"}) : q < p /\ \A r \in LinesIn(t, n, {"m"}) : p < r
BasesOf(t, S) == {BaseIn(t, p) : p \in S}

GivenRight(t, n, in, ph, tg) ==
  /\ BegunIn(t, n, "*") # {} /\ (FirstIn(t, n) \subseteq BegunIn(t, n, "*") \/ ~ MarkedIn(t, n))
  /\ Digits(t, n) => "PARSED" \in in
  => /\ BasesOf(t, ph) = BegunIn(t, n, "*")
     /\ "BNST" \notin in /\ ~ TakenIn(t, n) => BasesOf(t, tg) = BegunIn(t, n, "+")

RulesRight(t, n, ph) ==
  BegunIn(t, n, "*") = {} /\ ~ MarkedIn(t, n) /\ LinesIn(t, n, {"@"}) = {} =>
    ph = FirstIn(t, n) \cup {p \in LinesIn(t, n, {"m"}) : t[p].w \in {"b", "("}}

PhrasesIn(t, o, n, in, ph, tg) ==
  ph # {} /\ ~ FailedIn(t, n) /\ ~ Parenthesis(t, o, n) => GivenRight(t, n, in, ph, tg) /\ RulesRight(t, n, ph)

PhraseInv == pc = "ready" => PhrasesIn(text, opt, sen, OptInput, phrases, tags)

\* The lines of the slots in S, one of the sets that say where something of kind k
\* begins.
LEMMA StartLines ==
  ASSUME NEW t, NEW n, NEW p, NEW k, NEW s, NEW m \in 0 .. MRPH_MAX, NEW S,
         MorphemesIn(t, n, p, s, m, m), BeginIn(t, n, p, k, s, m, S),
         \A q \in LinesIn(t, n, {"m"}) : q < p
  PROVE  BasesOf(t, {s[i].id : i \in S \cap (0 .. (m - 1))}) = BegunIn(t, n, k)
<1>1. /\ \A i \in 0 .. (m - 1) : i \in Slots /\ i < m
      /\ \A i \in Slots : i < m => i \in 0 .. (m - 1)
  BY SlotBounds
<1> DEFINE B == BasesOf(t, {s[i].id : i \in S \cap (0 .. (m - 1))})
<1>2. \A x : x \in B <=> \E i \in S \cap (0 .. (m - 1)) : x = BaseIn(t, s[i].id)
  BY DEF BasesOf
<1> HIDE DEF B
<1>3. ASSUME NEW x \in B PROVE x \in BegunIn(t, n, k)
  <2>1. PICK i \in 0 .. (m - 1) : i \in S /\ x = BaseIn(t, s[i].id)
    BY <1>2, <1>3, Zenon
  <2>2. i \in Slots /\ i < m
    BY <1>1, <2>1, Zenon
  <2>3. x \in LinesIn(t, n, {"m"})
    BY <2>1, <2>2, Zenon DEF MorphemesIn
  <2>4. Pending(t, n, x, k)
    BY <2>1, <2>2, Zenon DEF BeginIn
  <2> QED
    BY <2>3, <2>4, Zenon DEF BegunIn
<1>4. ASSUME NEW x \in BegunIn(t, n, k) PROVE x \in B
  <2>1. x \in LinesIn(t, n, {"m"}) /\ Pending(t, n, x, k)
    BY <1>4, Zenon DEF BegunIn
  <2>2. PICK i \in Slots : i < m /\ BaseIn(t, s[i].id) = x
    BY <2>1, Zenon DEF MorphemesIn
  <2>3. i \in S
    BY <2>1, <2>2, Zenon DEF BeginIn
  <2>4. i \in S \cap (0 .. (m - 1))
    BY <1>1, <2>2, <2>3, Zenon
  <2> QED
    BY <1>2, <2>2, <2>4, Zenon
<1> QED
  BY <1>3, <1>4 DEF B

\* There is a first morpheme, and only one.
LEMMA FirstFacts ==
  ASSUME NEW t \in Texts, NEW n
  PROVE  /\ LinesIn(t, n, {"m"}) # {} => FirstIn(t, n) # {}
         /\ \A x, y \in FirstIn(t, n) : x = y
<1>1. LinesIn(t, n, {"m"}) \subseteq Nat
  BY TextFacts DEF LinesIn
<1>2. LinesIn(t, n, {"m"}) # {} => FirstIn(t, n) # {}
  <2> DEFINE L == LinesIn(t, n, {"m"})
  <2>1. SUFFICES ASSUME L # {} PROVE \E x \in L : \A y \in L : x <= y
    BY Zenon DEF FirstIn
  <2> HIDE DEF L
  <2> QED
    BY <1>1, <2>1, LeastNat DEF L
<1>3. ASSUME NEW x \in FirstIn(t, n), NEW y \in FirstIn(t, n) PROVE x = y
  <2>1. x \in LinesIn(t, n, {"m"}) /\ y \in LinesIn(t, n, {"m"})
    BY Zenon DEF FirstIn
  <2>2. x <= y /\ y <= x
    BY <2>1, Zenon DEF FirstIn
  <2> QED
    BY <1>1, <2>1, <2>2
<1> QED
  BY <1>2, <1>3

\* The input says where the phrases begin.
LEMMA GivenPhrases ==
  ASSUME IInv, MarkInv, CutRight, pc = "analyse"
  PROVE  GivenRight(text, sen, OptInput, Lines(BnstStarts), Lines(TagStarts))
<1> SUFFICES ASSUME BegunIn(text, sen, "*") # {},
                    FirstIn(text, sen) \subseteq BegunIn(text, sen, "*") \/ ~ MarkedIn(text, sen),
                    Digits(text, sen) => "PARSED" \in OptInput
             PROVE  /\ BasesOf(text, Lines(BnstStarts)) = BegunIn(text, sen, "*")
                    /\ "BNST" \notin OptInput /\ ~ TakenIn(text, sen) =>
                         BasesOf(text, Lines(TagStarts)) = BegunIn(text, sen, "+")
  BY Zenon DEF GivenRight
<1>1. text \in Texts /\ pos \in Nat \ {0} /\ Mrph_num \in 0 .. MRPH_MAX
  BY TextFacts DEF IInv, TextInv, CountInv
<1>2. \A K : \A q \in LinesIn(text, sen, K) : q \in Nat \ {0} /\ q < pos
  <2>1. pc \in {"ready", "prepare", "analyse", "next"}
    OBVIOUS
  <2>2. \A q \in DOMAIN text : q \in Nat \ {0} /\ (NumberIn(text, q) = sen => q < pos)
    BY <1>1, <2>1, SentenceRead, TextFacts
  <2> QED
    BY <2>2, Zenon DEF LinesIn
<1>3. /\ MorphemesIn(text, sen, pos, slot, Mrph_num, Mrph_num)
      /\ StartsIn(text, sen, pos, slot, Mrph_num, Bnst_start, Tag_start)
  BY Zenon DEF CutRight, SlotsRight
<1>4. PICK z \in BegunIn(text, sen, "*") : TRUE
  OBVIOUS
<1>5. z \in LinesIn(text, sen, {"m"}) /\ Pending(text, sen, z, "*")
  BY Zenon DEF BegunIn
<1>6. OptInput # {}
  <2>1. PICK q \in LinesIn(text, sen, {"*"}) : q < z
    BY <1>5, Zenon DEF Pending
  <2>2. q \in 1 .. pos - 1
    BY <1>1, <1>2
  <2>3. NumberIn(text, q) = sen /\ text[q].k = "*"
    BY DEF LinesIn
  <2>4. ~ NoneBefore(text, sen, pos, "*")
    BY <2>2, <2>3, Zenon DEF NoneBefore
  <2>5. pc \in {"prepare", "analyse", "next"}
    OBVIOUS
  <2> QED
    BY <2>4, <2>5, Zenon DEF MarkInv
<1>7. Fresh(text, sen, pos)
  <2>1. CASE ~ MarkedIn(text, sen)
    BY <2>1 DEF Fresh
  <2>2. CASE FirstIn(text, sen) \subseteq BegunIn(text, sen, "*")
    <3>1. LinesIn(text, sen, {"m"}) # {}
      BY <1>5
    <3>2. FirstIn(text, sen) # {}
      BY <1>1, <3>1, FirstFacts
    <3>3. PICK x \in FirstIn(text, sen) : x \in BegunIn(text, sen, "*")
      BY <2>2, <3>2
    <3>4. /\ x \in LinesIn(text, sen, {"m"}) /\ \A r \in LinesIn(text, sen, {"m"}) : x <= r
          /\ Pending(text, sen, x, "*")
      BY <3>3, Zenon DEF FirstIn, BegunIn
    <3>5. PICK q \in LinesIn(text, sen, {"*"}) : q < x
      BY <3>4, Zenon DEF Pending
    <3>6. q < pos /\ \A r \in LinesIn(text, sen, {"m"}) : q < r
      BY <1>2, <3>4, <3>5
    <3> QED
      BY <3>6, Zenon DEF Fresh, Opened
  <2> QED
    BY <2>1, <2>2
<1>8. BnstStarts = Bnst_start \cap Used
  BY <1>6 DEF BnstStarts
<1>9. /\ Lines(BnstStarts) = {slot[i].id : i \in Bnst_start \cap (0 .. (Mrph_num - 1))}
      /\ "BNST" \notin OptInput => Lines(TagStarts) = {slot[i].id : i \in Tag_start \cap (0 .. (Mrph_num - 1))}
  BY <1>6, <1>8, Zenon DEF Lines, TagStarts, Used
<1>10. \A q \in LinesIn(text, sen, {"m"}) : q < pos
  BY <1>2, Zenon
<1>11. BasesOf(text, Lines(BnstStarts)) = BegunIn(text, sen, "*")
  <2>1. BeginIn(text, sen, pos, "*", slot, Mrph_num, Bnst_start)
    BY <1>3, <1>7, Zenon DEF StartsIn
  <2>2. BasesOf(text, {slot[i].id : i \in Bnst_start \cap (0 .. (Mrph_num - 1))}) = BegunIn(text, sen, "*")
    BY <1>1, <1>3, <1>10, <2>1, StartLines
  <2> QED
    BY <1>9, <2>2, Zenon
<1>12. ASSUME "BNST" \notin OptInput, ~ TakenIn(text, sen)
       PROVE  BasesOf(text, Lines(TagStarts)) = BegunIn(text, sen, "+")
  <2>1. ~ Taken(text, sen, pos)
    BY <1>12, Zenon DEF Taken, TakenIn
  <2>2. BeginIn(text, sen, pos, "+", slot, Mrph_num, Tag_start)
    BY <1>3, <1>7, <2>1, Zenon DEF StartsIn
  <2>3. BasesOf(text, {slot[i].id : i \in Tag_start \cap (0 .. (Mrph_num - 1))}) = BegunIn(text, sen, "+")
    BY <1>1, <1>3, <1>10, <2>2, StartLines
  <2> QED
    BY <1>9, <1>12, <2>3, Zenon
<1> QED
  BY <1>11, <1>12

\* The rules say it.
LEMMA RulePhrases ==
  ASSUME IInv, LineInv, CutRight, Lines(BnstStarts) # {}
  PROVE  RulesRight(text, sen, Lines(BnstStarts))
<1> DEFINE L == LinesIn(text, sen, {"m"})
           F == FirstIn(text, sen) \cup {p \in L : text[p].w \in {"b", "("}}
<1> SUFFICES ASSUME BegunIn(text, sen, "*") = {}, ~ MarkedIn(text, sen), LinesIn(text, sen, {"@"}) = {}
             PROVE  Lines(BnstStarts) = F
  BY Zenon DEF RulesRight
<1>1. text \in Texts /\ Mrph_num \in 0 .. MRPH_MAX
  BY DEF IInv, TextInv, CountInv
<1>2. /\ \A i \in Used : i \in Slots /\ i < Mrph_num
      /\ \A i \in Slots : i < Mrph_num => i \in Used
  BY <1>1, SlotBounds DEF Used
<1>3. /\ NoneStarts(text, sen, Mrph_num, Bnst_start)
      /\ Mrph_num > 0 /\ \A q \in L : /\ slot[0].id <= q
                                      /\ text[q].w # "d" => \E i \in Slots : i < Mrph_num /\ slot[i].id = q
  BY Zenon DEF CutRight, AllThere
<1>4. \A i \in Used : slot[i].id \in L /\ slot[i].w = text[slot[i].id].w
  <2>1. \A p \in WordLines(text, sen) : p \in L
    BY DEF WordLines, LinesIn
  <2> QED
    BY <1>2, <2>1, SlotLines, Zenon
<1>5. OptInput = {}
  <2> SUFFICES ASSUME OptInput # {} PROVE FALSE
    OBVIOUS
  <2>1. BnstStarts = Bnst_start \cap Used
    BY DEF BnstStarts
  <2>2. \A q \in L : ~ Pending(text, sen, q, "*")
    BY Zenon DEF BegunIn
  <2>3. \A i \in Slots : i < Mrph_num => i \notin Bnst_start
    BY <1>3, <2>2, Zenon DEF NoneStarts
  <2>4. BnstStarts = {}
    BY <1>2, <2>1, <2>3, Zenon
  <2> QED
    BY <2>4 DEF Lines
<1>6. \A i : i \in BnstStarts <=> i \in Used /\ (i = 0 \/ slot[i].w \in {"b", "("})
  BY <1>5 DEF BnstStarts
<1>7. \A x : x \in Lines(BnstStarts) <=> \E i \in BnstStarts : x = slot[i].id
  BY DEF Lines
<1> HIDE DEF L
<1>8. ASSUME NEW x \in Lines(BnstStarts) PROVE x \in F
  <2>1. PICK i \in BnstStarts : x = slot[i].id
    BY <1>7, <1>8, Zenon
  <2>2. i \in Used /\ (i = 0 \/ slot[i].w \in {"b", "("}) /\ x \in L /\ slot[i].w = text[x].w
    BY <1>4, <1>6, <2>1, Zenon
  <2>3. CASE i = 0
    <3>1. \A q \in L : x <= q
      BY <1>3, <2>1, <2>3, Zenon
    <3>2. x \in FirstIn(text, sen)
      BY <2>2, <3>1, Zenon DEF FirstIn, L
    <3> QED
      BY <3>2
  <2>4. CASE slot[i].w \in {"b", "("}
    BY <2>2, <2>4
  <2> QED
    BY <2>2, <2>3, <2>4
<1>9. ASSUME NEW x \in F PROVE x \in Lines(BnstStarts)
  <2>1. CASE x \in FirstIn(text, sen)
    <3>1. 0 \in Used
      BY <1>1, <1>3 DEF Used
    <3>2. slot[0].id \in L /\ \A q \in L : slot[0].id <= q
      BY <1>3, <1>4, <3>1, Zenon
    <3>3. slot[0].id \in FirstIn(text, sen)
      BY <3>2, Zenon DEF FirstIn, L
    <3>4. x = slot[0].id
      BY <1>1, <2>1, <3>3, FirstFacts, Zenon
    <3> QED
      BY <1>6, <1>7, <3>1, <3>4, Zenon
  <2>2. CASE x \in L /\ text[x].w \in {"b", "("}
    <3>1. text[x].w # "d"
      BY <2>2
    <3>2. PICK i \in Slots : i < Mrph_num /\ slot[i].id = x
      BY <1>3, <2>2, <3>1, Zenon
    <3>3. i \in Used /\ slot[i].w \in {"b", "("}
      BY <1>2, <1>4, <2>2, <3>2, Zenon
    <3> QED
      BY <1>6, <1>7, <3>2, <3>3, Zenon
  <2> QED
    BY <1>9, <2>1, <2>2
<1> QED
  BY <1>8, <1>9

LEMMA AnalysePhrases ==
  ASSUME IInv, LineInv, MarkInv, CutInv, Analyse
  PROVE  PhraseInv'
<1>1. /\ pc = "analyse" /\ UNCHANGED <<text, opt, sen, OptInput>>
      /\ phrases' = {} \/ (phrases' = Lines(BnstStarts) /\ tags' = Lines(TagStarts))
  BY DEF Analyse
<1>2. PICK ph : ph = phrases'
  OBVIOUS
<1>3. PICK tg : tg = tags'
  OBVIOUS
<1>4. PhrasesIn(text, opt, sen, OptInput, ph, tg)
  <2> SUFFICES ASSUME ph # {}, ~ Parenthesis(text, opt, sen)
               PROVE  GivenRight(text, sen, OptInput, ph, tg) /\ RulesRight(text, sen, ph)
    BY Zenon DEF PhrasesIn
  <2>1. CutRight
    BY <1>1, Zenon DEF CutInv
  <2>2. ph = Lines(BnstStarts) /\ tg = Lines(TagStarts)
    BY <1>1, <1>2, <1>3
  <2>3. GivenRight(text, sen, OptInput, Lines(BnstStarts), Lines(TagStarts))
    BY <1>1, <2>1, GivenPhrases
  <2>4. RulesRight(text, sen, Lines(BnstStarts))
    BY <2>1, <2>2, RulePhrases
  <2> QED
    BY <2>2, <2>3, <2>4, Zenon
<1>5. text' = text /\ opt' = opt /\ sen' = sen /\ OptInput' = OptInput
  BY <1>1
<1> QED
  BY <1>2, <1>3, <1>4, <1>5, Zenon DEF PhraseInv

LEMMA StepPhrases == IInv /\ LineInv /\ BlameInv /\ MarkInv /\ CutInv /\ PhraseInv /\ [Next]_vars => PhraseInv'
<1>1. SUFFICES ASSUME IInv, LineInv, BlameInv, MarkInv, CutInv, PhraseInv, [Next]_vars PROVE PhraseInv'
  OBVIOUS
<1>2. CASE UNCHANGED vars
  <2>1. UNCHANGED <<text, opt, sen, OptInput, phrases, tags, pc>>
    BY <1>2 DEF vars, reading
  <2>2. /\ text' = text /\ opt' = opt /\ sen' = sen /\ OptInput' = OptInput /\ phrases' = phrases /\ tags' = tags
        /\ pc' = pc
    BY <2>1
  <2> QED
    BY <1>1, <2>2, Zenon DEF PhraseInv
<1>3. CASE Start \/ Comment \/ BnstLine \/ TagLine \/ Morpheme \/ Invalid \/ Preprocess \/ NextParen \/ Finish
  <2>1. pc' # "ready"
    <3>1. CASE Start \/ Preprocess \/ NextParen \/ Finish
      BY <3>1 DEF Start, Preprocess, NextParen, Finish
    <3>2. CASE Comment \/ BnstLine \/ TagLine \/ Morpheme \/ Invalid
      BY <3>2 DEF Comment, BnstLine, TagLine, Morpheme, Invalid, Reads
    <3> QED
      BY <1>3, <3>1, <3>2
  <2> QED
    BY <2>1, Zenon DEF PhraseInv
<1>4. CASE Skip \/ EndOfSentence
  <2>1. CASE pc' # "ready"
    BY <2>1, Zenon DEF PhraseInv
  <2>2. CASE pc' = "ready"
    <3>1. /\ pc \in {"read", "skip"} /\ pos <= Len(text) /\ text[pos].k = "E" /\ (pc = "read" => Mrph_num = 0)
          /\ UNCHANGED <<text, sen>>
      BY <1>4, <2>2 DEF Skip, EndOfSentence, Reads, Line
    <3>2. FailedIn(text, sen)
      BY <1>1, <3>1, GivenUp
    <3>3. text' = text /\ sen' = sen
      BY <3>1
    <3> QED
      BY <3>2, <3>3, Zenon DEF PhraseInv, PhrasesIn
  <2> QED
    BY <2>1, <2>2
<1> QED
  BY <1>1, <1>2, <1>3, <1>4, AnalysePhrases DEF Next

LEMMA InitPhrases == Init => MarkInv /\ StartInv /\ CutInv /\ PhraseInv
<1> SUFFICES ASSUME Init PROVE MarkInv /\ StartInv /\ CutInv /\ PhraseInv
  OBVIOUS
<1>1. pc = "ready" /\ OptInput = {} /\ Bnst_start = {} /\ Tag_start = {} /\ phrases = {}
  BY DEF Init
<1>2. pc \notin {"prepare", "analyse", "next", "read"} /\ pc # "prepare" /\ pc # "analyse" /\ pc # "next" /\ pc # "read"
      /\ pc \notin {"prepare", "analyse", "next"} /\ pc \notin {"read", "prepare"}
  BY <1>1
<1>3. PhraseInv
  BY <1>1, Zenon DEF PhraseInv, PhrasesIn
<1> QED
  BY <1>1, <1>2, <1>3, Zenon DEF MarkInv, StartInv, CutInv

LEMMA PhrasesHold == PhraseInv => PhrasesRight
<1> SUFFICES ASSUME PhraseInv PROVE PhrasesRight
  OBVIOUS
<1>1. /\ \A p : Number(p) = NumberIn(text, p)
      /\ \A n, K : LinesOf(n, K) = LinesIn(text, n, K)
      /\ \A n : LinesOf(n, {"m", "@"}) = WordLines(text, n)
      /\ \A n : Failed(n) <=> FailedIn(text, n)
  BY SameOperators, Zenon
<1>2. \A p : Base(p) = BaseIn(text, p)
  BY Zenon DEF Base, BaseIn
<1>3. \A n, k : Begun(n, k) = BegunIn(text, n, k)
  BY <1>1, Zenon DEF Begun, BegunIn, Pending
<1>4. \A n : MarkedBefore(n) <=> MarkedIn(text, n)
  BY <1>1, Zenon DEF MarkedBefore, MarkedIn
<1>5. \A n : HasParen(n) <=> Parenthesis(text, opt, n)
  BY <1>1, Zenon DEF HasParen, Parenthesis
<1> DEFINE given == Begun(sen, "*")
           digits == \E p \in LinesOf(sen, {"m", "@"}) : text[p].w = "d"
           first == {p \in LinesOf(sen, {"m"}) : \A q \in LinesOf(sen, {"m"}) : p <= q}
           taken == \E p \in LinesOf(sen, {"*"}), q \in LinesOf(sen, {"+"}) :
                      q < p /\ \A r \in LinesOf(sen, {"m"}) : p < r
<1>6. /\ given = BegunIn(text, sen, "*") /\ Begun(sen, "+") = BegunIn(text, sen, "+")
      /\ digits <=> Digits(text, sen)
      /\ first = FirstIn(text, sen)
      /\ taken <=> TakenIn(text, sen)
      /\ {Base(p) : p \in phrases} = BasesOf(text, phrases) /\ {Base(p) : p \in tags} = BasesOf(text, tags)
  <2>1. given = BegunIn(text, sen, "*") /\ Begun(sen, "+") = BegunIn(text, sen, "+")
    BY <1>3, Zenon
  <2>2. digits <=> Digits(text, sen)
    BY <1>1, Zenon DEF Digits
  <2>3. first = FirstIn(text, sen)
    BY <1>1, Zenon DEF FirstIn
  <2>4. taken <=> TakenIn(text, sen)
    BY <1>1, Zenon DEF TakenIn
  <2>5. {Base(p) : p \in phrases} = BasesOf(text, phrases) /\ {Base(p) : p \in tags} = BasesOf(text, tags)
    BY <1>2, Zenon DEF BasesOf
  <2> QED
    BY <2>1, <2>2, <2>3, <2>4, <2>5
<1> HIDE DEF given, digits, first, taken
<1>7. SUFFICES ASSUME pc = "ready", phrases # {}, ~ Failed(sen), ~ HasParen(sen)
               PROVE  /\ given # {} /\ (first \subseteq given \/ ~ MarkedBefore(sen))
                         /\ (digits => "PARSED" \in OptInput) =>
                           /\ {Base(p) : p \in phrases} = given
                           /\ "BNST" \notin OptInput /\ ~ taken => {Base(p) : p \in tags} = Begun(sen, "+")
                      /\ given = {} /\ ~ MarkedBefore(sen) /\ LinesOf(sen, {"@"}) = {} =>
                           phrases = first \cup {p \in LinesOf(sen, {"m"}) : text[p].w \in {"b", "("}}
  BY DEF PhrasesRight, given, digits, first, taken
<1>8. ~ FailedIn(text, sen) /\ ~ Parenthesis(text, opt, sen)
  BY <1>1, <1>5, <1>7, Zenon
<1>9. GivenRight(text, sen, OptInput, phrases, tags) /\ RulesRight(text, sen, phrases)
  BY <1>7, <1>8, Zenon DEF PhraseInv, PhrasesIn
<1>10. ASSUME given # {}, first \subseteq given \/ ~ MarkedBefore(sen), digits => "PARSED" \in OptInput
       PROVE  /\ {Base(p) : p \in phrases} = given
              /\ "BNST" \notin OptInput /\ ~ taken => {Base(p) : p \in tags} = Begun(sen, "+")
  <2>1. /\ BegunIn(text, sen, "*") # {}
        /\ FirstIn(text, sen) \subseteq BegunIn(text, sen, "*") \/ ~ MarkedIn(text, sen)
        /\ Digits(text, sen) => "PARSED" \in OptInput
    BY <1>4, <1>6, <1>10, Zenon
  <2>2. /\ BasesOf(text, phrases) = BegunIn(text, sen, "*")
        /\ "BNST" \notin OptInput /\ ~ TakenIn(text, sen) => BasesOf(text, tags) = BegunIn(text, sen, "+")
    BY <1>9, <2>1, Zenon DEF GivenRight
  <2> QED
    BY <1>6, <2>2, Zenon
<1>11. ASSUME given = {}, ~ MarkedBefore(sen), LinesOf(sen, {"@"}) = {}
       PROVE  phrases = first \cup {p \in LinesOf(sen, {"m"}) : text[p].w \in {"b", "("}}
  <2>1. BegunIn(text, sen, "*") = {} /\ ~ MarkedIn(text, sen) /\ LinesIn(text, sen, {"@"}) = {}
    BY <1>1, <1>4, <1>6, <1>11, Zenon
  <2>2. phrases = FirstIn(text, sen) \cup {p \in LinesIn(text, sen, {"m"}) : text[p].w \in {"b", "("}}
    BY <1>9, <2>1, Zenon DEF RulesRight
  <2>3. LinesOf(sen, {"m"}) = LinesIn(text, sen, {"m"})
    BY <1>1, Zenon
  <2> QED
    BY <1>6, <2>2, <2>3, Zenon
<1> QED
  BY <1>10, <1>11, Zenon

\* What make_bunsetsu_pm and make_tag_units_pm make phrases and tags of is what
\* the input says of this sentence, and what make_bunsetsu does is what the rules
\* say, although read_mrph lets the flags and starts of a sentence stay for the
\* next one, homographs are reduced after the starts have been noted and
\* preprocess_mrph joins morphemes.
THEOREM PhrasesRightAlways == Spec => []PhrasesRight
<1>1. Init => MarkInv /\ StartInv /\ CutInv /\ PhraseInv
  BY InitPhrases
<1>2. FullInv /\ MarkInv /\ StartInv /\ CutInv /\ PhraseInv /\ [Next]_vars =>
        MarkInv' /\ StartInv' /\ CutInv' /\ PhraseInv'
  BY StepMark, StepStarts, StepCut, StepPhrases, Zenon DEF FullInv
<1>3. PhraseInv => PhrasesRight
  BY PhrasesHold
<1> QED
  BY <1>1, <1>2, <1>3, FullInvariant, PTL DEF Spec
=============================================================================
