----------------------------- MODULE MCResults -----------------------------
(* Instances of Results for TLC.                                             *)
EXTENDS Results

\* Every phrase but the last depends on a later one, without crossing.
Heads ==
  {h \in [Bnst -> Bnst \cup {None}] :
     /\ h[N - 1] = None
     /\ \A i \in 0 .. N - 2 : h[i] > i
     /\ \A i, j \in 0 .. N - 2 : i < j /\ j < h[i] => h[j] <= h[i]}

Types == {[i \in Bnst |-> IF i \in P THEN "P" ELSE "D"] : P \in SUBSET (0 .. N - 2)}

Structures == [head : Heads, type : Types]

\* The divisions into tags: one each, or two in a phrase or two.
Divided(two) ==
  LET num == [b \in Bnst |-> IF b \in two THEN 2 ELSE 1]
      first == [b \in Bnst |-> FoldSet(LAMBDA c, n : n + num[c], 0, 0 .. (b - 1))]
      count == FoldSet(LAMBDA c, n : n + num[c], 0, Bnst)
  IN  [first |-> first, num |-> num, count |-> count, mrph |-> [x \in 0 .. (count - 1) |-> 1]]

Sentence(d, structs, merge, offset, ignore, no) ==
  [first |-> d.first, num |-> d.num, count |-> d.count, mrph |-> d.mrph, merge |-> merge,
   offset |-> offset, ignore |-> ignore, no |-> no, structs |-> structs,
   managers |-> <<>>, path |-> <<>>, strong |-> <<>>, mask3 |-> {}, renyou |-> {}]

Zero == [b \in Bnst |-> 0]
NoNo == [b \in Bnst |-> None]

Adjacent == [head |-> [i \in Bnst |-> IF i = N - 1 THEN None ELSE i + 1], type |-> [i \in Bnst |-> "D"]]
Far == [head |-> [i \in Bnst |-> IF i = N - 1 THEN None ELSE N - 1],
        type |-> [i \in Bnst |-> IF i = N - 2 THEN "P" ELSE "d"]]

\* Every structure, alone or followed by the one in which everything depends
\* on the next phrase.
Lists == {<<s>> : s \in Structures} \cup {<<s, Adjacent>> : s \in Structures} \cup {<<Adjacent, Far>>}

Shapes ==
  LET two == Divided({1, 2})
  IN  {<<Divided({}), {}, Zero, {}, NoNo>>,
       <<Divided({}), {2}, Zero, {}, NoNo>>,
       <<two, {}, [Zero EXCEPT ![2] = -1], {0}, NoNo>>,
       <<two, {2}, Zero, {}, [NoNo EXCEPT ![1] = 0]>>,
       <<two, {4, 5}, [Zero EXCEPT ![1] = -1, ![2] = -3], {0}, NoNo>>}

\* What a rule merges into the phrase before is not coordinated with it.
Coherent(s) ==
  \A b \in 1 .. N - 1 : s.first[b] \in s.merge =>
    \A k \in DOMAIN s.structs : ~ (s.structs[k].type[b - 1] = "P" /\ s.structs[k].head[b - 1] = b)

RecoveredSentences ==
  {s \in {Sentence(p[1], l, p[2], p[3], p[4], p[5]) : p \in Shapes, l \in Lists} : Coherent(s)}

\* Coordinations that are not recovered but kept, those of the structure found
\* or those that the analysis gave up; conjuncts correspond from their ends on.
Given(s, status) ==
  LET b == DpndInfoToBnst([head |-> s.head, type |-> s.type], s)
      ps == [k \in DOMAIN Recovered(b) |-> [Recovered(b)[k] EXCEPT !.status = status]]
  IN  [managers |-> DetectParaRelation(ps),
       strong |-> [k \in DOMAIN ps |-> status = "s"],
       path |-> [k \in DOMAIN ps |->
                   [j \in (ps[k].a2 + 1) .. ps[k].a3 |-> Max({ps[k].a1, ps[k].a2 - (ps[k].a3 - j)})]],
       \* the first phrase of the first conjunct of two is incomplete
       mask3 |-> IF Len(ps) = 1 /\ ps[1].a1 < ps[1].a2 THEN {<<ps[1].a1, ps[1].a2>>, <<ps[1].a1, ps[1].a3>>} ELSE {}]

WithKept(s, k) ==
  [s EXCEPT !.managers = k.managers, !.strong = k.strong, !.path = k.path, !.mask3 = k.mask3,
            !.renyou = IF Len(k.strong) = 1 THEN {1} ELSE {}]

KeptCoordinations ==
  {Given(c, status) : status \in {"n", "s"},
     c \in {x \in Structures : x.head \in {Adjacent.head, Far.head, [Adjacent.head EXCEPT ![0] = N - 1]}}}

\* The types of the structure play no part in the trees of these.
FixedSentences ==
  {WithKept(Sentence(Divided({1}), <<s>>, {}, Zero, {}, NoNo), k) :
     s \in {x \in Structures : x.type \in {Adjacent.type, [Adjacent.type EXCEPT ![N - 2] = "P"]}},
     k \in KeptCoordinations}

MCSentences == RecoveredSentences \cup FixedSentences

Fixed == [cky |-> TRUE, nbest |-> FALSE, post |-> FALSE, tab |-> FALSE, fix |-> TRUE, expand |-> FALSE]

MCOptions ==
  {o \in [cky : {TRUE}, nbest : BOOLEAN, post : BOOLEAN, tab : BOOLEAN, fix : {FALSE}, expand : {FALSE}] :
     o.nbest \/ ~ o.tab}
  \cup {Fixed, [Fixed EXCEPT !.expand = TRUE]}
  \* dpnd_evaluation prints the structures of a search without CKY.
  \cup [cky : {FALSE}, nbest : {TRUE}, post : {FALSE}, tab : BOOLEAN, fix : {TRUE}, expand : {FALSE}]
=============================================================================
