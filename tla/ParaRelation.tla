---------------------------- MODULE ParaRelation ----------------------------
(***************************************************************************)
(* detect_para_relation (system/para_relation.c): how the coordinations of *)
(* a sentence lie to each other, and the managers that hold them.          *)
(*                                                                         *)
(* A coordination is found for a key phrase: its conjuncts are a1 .. a2    *)
(* and a2+1 .. a3, a2 being the key (max_path[0], key_pos, jend_pos), and  *)
(* its status is "x" (none found), "n" (normal) or "s" (strong).  A        *)
(* sentence has a sequence of them in the order of their keys.             *)
(***************************************************************************)
EXTENDS Integers, Sequences, FiniteSets, FiniteSetsExt, SequencesExt

Found(ps) == {i \in DOMAIN ps : ps[i].status # "x"}

\* rel_matrix_normal; rel_matrix_strong differs in its first cell only.
RelTable ==
  <<<<"BIT", "POS", "BAD", "IN2">>,
    <<"PRE", "PAR", "BAD", "IN2">>,
    <<"REV", "REV", "BAD", "BAD">>,
    <<"IN1", "IN1", "BAD", "BAD">>>>

RelPre(a, b) == CASE a.a2 + 1 < b.a1 -> 1
                  [] a.a2 + 1 = b.a1 -> 2
                  [] a.a2 + 1 > b.a1 /\ a.a1 < b.a1 -> 3
                  [] OTHER -> 4

RelPos(a, b) == CASE a.a3 < b.a2 -> 1
                  [] a.a3 = b.a2 -> 2
                  [] a.a3 > b.a2 /\ a.a3 < b.a3 -> 3
                  [] OTHER -> 4

\* para_location for a coordination a before b.
ParaLocation(a, b) ==
  IF a.a3 < b.a1 THEN "NOT"
  ELSE IF b.status = "s" /\ RelPre(a, b) = 1 /\ RelPos(a, b) = 1 THEN "BAD"
  ELSE RelTable[RelPre(a, b)][RelPos(a, b)]

\* para_brother_p: the second conjunct of a is not much longer than the first
\* conjunct of b (four to three).
ParaBrother(a, b) == (a.a3 - a.a2) * 3 <= (b.a2 - b.a1 + 1) * 4

Pairs(ps) == {p \in Found(ps) \X Found(ps) : p[1] < p[2]}

\* The first pair, in the order of the two loops, that cannot coexist.
BadPairs(ps) == {p \in Pairs(ps) : ParaLocation(ps[p[1]], ps[p[2]]) = "BAD"}

FirstBad(ps) ==
  CHOOSE p \in BadPairs(ps) : \A q \in BadPairs(ps) :
    p[1] < q[1] \/ (p[1] = q[1] /\ p[2] <= q[2])

Relations(ps) ==
  LET placed == [p \in Pairs(ps) |->
        LET r == ParaLocation(ps[p[1]], ps[p[2]])
        IN  IF r = "POS" /\ ParaBrother(ps[p[1]], ps[p[2]]) THEN "PAR" ELSE r]
      \* between a POS on the left and a PRE on the right of i: REV
      around(rel, i) ==
        [p \in Pairs(ps) |->
           IF /\ i \in Found(ps) /\ p[1] < i /\ i < p[2]
              /\ rel[<<p[1], i>>] = "POS" /\ rel[<<i, p[2]>>] = "PRE"
           THEN "REV" ELSE rel[p]]
  IN  FoldLeft(around, placed, [i \in 1 .. Len(ps) |-> i])
-----------------------------------------------------------------------------
(* Managers                                                                *)
(*                                                                         *)
(* A manager gathers coordinations in series: keys are the indices of its  *)
(* coordinations, part its conjuncts, parent and child its place in the    *)
(* hierarchy (manager numbers, parent 0 for none).                         *)

\* The members of S in an order that is total on S.
Sorted(S, before(_, _)) ==
  [k \in 1 .. Cardinality(S) |-> CHOOSE x \in S : Cardinality({y \in S : before(y, x)}) = k - 1]

Increasing(S) == Sorted(S, <)

NewManager(i, p) ==
  [keys |-> <<i>>, parent |-> 0, child |-> <<>>, strong |-> FALSE,
   part |-> <<[start |-> p.a1, end |-> p.a2], [start |-> p.a2 + 1, end |-> p.a3]>>]

\* The coordinations in series with i.
Brothers(ps, i) == {j \in Found(ps) : i < j /\ Relations(ps)[<<i, j>>] = "PAR"}

\* One turn of the loop that gathers coordinations: its manager (m, a new one
\* if m is beyond the list) takes i, if new, and the brothers of i.
Gather(ps, ms, m, i) ==
  LET js == Increasing(Brothers(ps, i))
      own == IF m > Len(ms) THEN NewManager(i, ps[i]) ELSE ms[m]
      parts == [k \in DOMAIN js |-> [start |-> ps[js[k]].a2 + 1, end |-> ps[js[k]].a3]]
      grown == [own EXCEPT !.keys = @ \o js, !.part = @ \o parts]
  IN  IF m > Len(ms) THEN Append(ms, grown) ELSE [ms EXCEPT ![m] = grown]

\* i belongs under j.
Inside(rel, i, j) ==
  \/ i < j /\ rel[<<i, j>>] \in {"BIT", "PRE", "REV", "IN1"}
  \/ j < i /\ rel[<<j, i>>] \in {"POS", "IN2"}

\* The pairs for which the loop over all ordered pairs calls set_parent.
ParentPairs(ps) ==
  LET rel == Relations(ps)
  IN  Sorted({p \in Found(ps) \X Found(ps) :
                p[1] # p[2] /\ Inside(rel, p[1], p[2])},
             LAMBDA p, q : p[1] < q[1] \/ (p[1] = q[1] /\ p[2] < q[2]))

\* set_parent decides between the parent old and another one, par: the first
\* pair of their coordinations one of which is inside the other tells which
\* manager is the inner one.
OldIsDirect(ps, old, par) ==
  LET rel == Relations(ps)
      related(i, j) == i # j /\ (Inside(rel, i, j) \/ Inside(rel, j, i))
      row(i) == {b \in DOMAIN par.keys : related(i, par.keys[b])}
      rows == {a \in DOMAIN old.keys : row(old.keys[a]) # {}}
      i == old.keys[Min(rows)]
  IN  rows = {} \/ Inside(rel, i, par.keys[Min(row(i))])

\* A slip: the old parent keeps the child.
SetParent_keeps(ps, ms, par, ch) ==
  LET old == ms[ch].parent
  IN  IF old = par \/ (old # 0 /\ OldIsDirect(ps, ms[old], ms[par])) THEN ms
      ELSE [ms EXCEPT ![ch].parent = par, ![par].child = Append(@, ch)]

SetParent(ps, ms, par, ch) ==
  LET old == ms[ch].parent
      without == IF old = 0 THEN ms
                 ELSE [ms EXCEPT ![old].child = SelectSeq(@, LAMBDA c : c # ch)]
  IN  IF old = par \/ (old # 0 /\ OldIsDirect(ps, ms[old], ms[par])) THEN ms
      ELSE [without EXCEPT ![ch].parent = par, ![par].child = Append(@, ch)]

\* The order in which a recursion from the roots, children first, visits the
\* managers.
Order(ms) ==
  LET under[d \in 0 .. Len(ms)] ==
        [m \in DOMAIN ms |->
           IF d = 0 THEN <<m>>
           ELSE FlattenSeq([k \in DOMAIN ms[m].child |-> under[d - 1][ms[m].child[k]]])
                \o <<m>>]
      roots == Increasing({m \in DOMAIN ms : ms[m].parent = 0})
  IN  FlattenSeq([k \in DOMAIN roots |-> under[Len(ms)][roots[k]]])

\* para_revise_scope for one manager, its children being done: it covers its
\* first child on the left and its last child on the right.
ReviseScope(ms, m) ==
  LET own == ms[m].part
      kids == ms[m].child
      first == ms[kids[1]].part[1].start
      last == ms[kids[Len(kids)]].part
  IN  IF kids = <<>> THEN ms
      ELSE [ms EXCEPT
              ![m].part[1].start = Min({@, first}),
              ![m].part[Len(own)].end = Max({@, last[Len(last)].end})]

\* A manager is strong if all its coordinations are.
MarkStrong(ps, ms) ==
  [m \in DOMAIN ms |->
     [ms[m] EXCEPT !.strong = \A i \in Range(ms[m].keys) : ps[i].status = "s"]]
=============================================================================
