------------------------------ MODULE TreeConv ------------------------------
(***************************************************************************)
(* system/tree_conv.c: the heads of the phrases become a tree of nodes,    *)
(* with a node added for every coordination, and that tree becomes one of  *)
(* basic phrases (tags).                                                   *)
(*                                                                         *)
(* Phrases are 0 .. N-1, basic phrases 0 .. Tag_num-1; nodes that are      *)
(* added follow them.  Managers are those of module ParaRelation.          *)
(***************************************************************************)
EXTENDS ParaRelation

CONSTANTS
  N,              \* sp->Bnst_num
  BNST_MAX,       \* room for phrases and the nodes added
  PARA_PART_MAX   \* room for the children of a node

Bnst == 0 .. N - 1
Nodes == 0 .. BNST_MAX - 1
None == -1

\* The input of make_dpnd_tree: heads, the phrases that post-processing has
\* merged into the one before (num = -1), the cells of Mask_matrix that hold
\* 3, the managers, and for every key the phrase of the first conjunct that
\* corresponds to a phrase of the second (max_path); expand: OptExpandP.
Conjuncts(m) == {m.part[k] : k \in 1 .. (Len(m.part) - 1)}
LastEnd(m) == m.part[Len(m.part)].end

\* A conjunct's end depends on the end of the last one, and so does what is
\* incomplete in it.  Later managers overwrite earlier ones.
Buffer(d) ==
  LET write(buf, m) ==
        [i \in Bnst |->
           IF \E p \in Conjuncts(m) :
                i = p.end \/ (i \in p.start .. p.end /\ <<i, p.end>> \in d.mask3)
           THEN LastEnd(m) ELSE buf[i]]
  IN  FoldLeft(write, d.head, d.managers)

\* Where a phrase hangs: not on a merged phrase but on the one before it.
Hook(d, j) == IF j \in d.merged THEN j - 1 ELSE j

Descending(S) == Sorted(S, >)

\* The phrases that hang on node j, what comes from a merged phrase first; no
\* more than there is room for.
Hung(d, buf, j) ==
  LET to(h) == Descending({i \in 0 .. (h - 1) : i \notin d.merged /\ buf[i] = h /\ Hook(d, h) # i})
      all == (IF j + 1 \in d.merged THEN to(j + 1) ELSE <<>>)
               \o (IF j \in d.merged THEN <<>> ELSE to(j))
  IN  Descending(Range(SubSeq(all, 1, Min({Len(all), PARA_PART_MAX - 1}))))

MakeSimpleTree(d) ==
  LET buf == Buffer(d)
      hung == [j \in Nodes |-> IF j \in Bnst THEN Hung(d, buf, j) ELSE <<>>]
      on(i) == {j \in Bnst : i \in Range(hung[j])}
  IN  [child |-> hung,
       parent |-> [i \in Nodes |-> IF on(i) = {} THEN None ELSE CHOOSE j \in on(i) : TRUE],
       type |-> [i \in Nodes |->
                   IF i \in Bnst /\ on(i) # {} /\ <<i, buf[i]>> \in d.mask3
                   THEN "incomp" ELSE "nil"],
       of |-> [i \in Nodes |-> IF i \in Bnst THEN i ELSE 0],
       top |-> {}, toPara |-> {}, new |-> 0, ok |-> TRUE]

AddNode(t, p, c) == [t EXCEPT !.child[p] = Append(@, c)]

\* strong_para_expand: what modifies a phrase of the first conjunct of a strong
\* coordination modifies the corresponding phrases of the others as well.
\* (The coordinations are taken one after the other from the first one on.)
StrongExpand(d, t, m) ==
  LET start == m.part[1].start
      shared == {<<i, c>> \in (start .. (m.part[1].end - 1)) \X Bnst :
                   c \in Range(t.child[i]) /\ c < start}
      match(k, i) == {j \in DOMAIN d.path[k] : d.path[k][j] = i}
      corr(k, i) == IF i = None \/ match(k, i) = {} THEN None ELSE Max(match(k, i))
      first == m.keys[1]
      one(u, p) ==
        FoldLeft(LAMBDA acc, k :
                   LET j == corr(k, acc.at)
                   IN  [at |-> j, t |-> IF j = None THEN acc.t ELSE AddNode(acc.t, j, p[2])],
                 [at |-> p[1], t |-> [u EXCEPT !.toPara = @ \cup {p[2]}]],
                 [k \in 1 .. Len(m.keys) |-> first + k - 1]).t
  IN  IF ~ d.expand \/ ~ d.strong[first] THEN t
      ELSE FoldLeft(one, t, Sorted(shared, LAMBDA p, q : p[1] < q[1] \/ (p[1] = q[1] /\ p[2] > q[2])))

\* A phrase that has been merged stands for the one it was merged into.
Correct(d, i) == Max({j \in 0 .. i : j \notin d.merged})

\* A slip: the children that move keep their parent.
TopExpand_parents(d, t, m) ==
  LET end == Correct(d, LastEnd(m))
      new == N + t.new
      kids == t.child[end]
  IN  IF ~ t.ok \/ new >= BNST_MAX THEN [t EXCEPT !.ok = FALSE, !.new = @ + 1]
      ELSE [t EXCEPT !.new = @ + 1, !.of[new] = end, !.parent[new] = end,
              !.child = [@ EXCEPT ![new] = SelectSeq(kids, LAMBDA c : c > Correct(d, m.part[Len(m.part) - 1].end)),
                                  ![end] = <<new>> \o SelectSeq(kids, LAMBDA c : c <= Correct(d, m.part[Len(m.part) - 1].end))],
              !.top = @ \cup {end},
              !.type = [x \in Nodes |-> IF x = new \/ x \in {Correct(d, p.end) : p \in Conjuncts(m)} THEN "normal" ELSE @[x]]]

\* para_top_expand for one manager, those under it being done: the last
\* conjunct's end becomes the node of the coordination, a new node takes its
\* place and, of its children, those nearer than the conjunct before.
TopExpand(d, t, m) ==
  LET end == Correct(d, LastEnd(m))
      pre == Correct(d, m.part[Len(m.part) - 1].end)
      new == N + t.new
      kids == t.child[end]
      own == CHOOSE n \in 0 .. Len(kids) :
               /\ \A k \in 1 .. n : pre < kids[k] /\ t.type[kids[k]] # "incomp"
               /\ n < Len(kids) => ~ (pre < kids[n + 1] /\ t.type[kids[n + 1]] # "incomp")
      ends == {Correct(d, p.end) : p \in Conjuncts(m)}
  IN  IF ~ t.ok \/ new >= BNST_MAX THEN [t EXCEPT !.ok = FALSE, !.new = @ + 1]
      ELSE [t EXCEPT
              !.new = @ + 1, !.of[new] = end,
              !.child = [@ EXCEPT ![new] = SubSeq(kids, 1, own),
                                  ![end] = <<new>> \o SubSeq(kids, own + 1, Len(kids))],
              !.parent = [x \in Nodes |-> IF x = new THEN end
                                          ELSE IF x \in Range(SubSeq(kids, 1, own)) THEN new
                                          ELSE @[x]],
              !.top = (IF end \in @ THEN @ \cup {new} ELSE @) \cup {end},
              !.toPara = IF end \in @ THEN @ \cup {new} ELSE @,
              !.type = [x \in Nodes |-> IF x = new \/ x \in ends THEN "normal"
                                        ELSE IF x = end THEN "nil" ELSE @[x]]]

\* para_modifier_expand for one node: what modifies a coordination modifies its
\* conjuncts, unless it is adverbial.  The list of children ends at the first
\* child taken out, so the next one is given only to conjuncts before that.
ModifierExpand(d, t, b) ==
  LET kids == t.child[b]
      taken == {k \in DOMAIN kids : t.type[kids[k]] = "nil" /\ kids[k] \notin d.renyou}
      cut == IF taken = {} THEN Len(kids) ELSE Min(taken) - 1
      gets(l) == t.type[kids[l]] = "normal"
      given(x) == LET ks == SelectSeq(Increasing(taken), LAMBDA k :
                              \E l \in DOMAIN kids : kids[l] = x /\ gets(l) /\ (l <= cut \/ k = cut + 1))
                  IN  [n \in DOMAIN ks |-> kids[ks[n]]]
  IN  IF b \notin t.top THEN t
      ELSE [t EXCEPT !.toPara = @ \cup {kids[k] : k \in taken},
                     !.child = [x \in Nodes |-> IF x = b THEN SubSeq(kids, 1, cut) ELSE @[x] \o given(x)]]

\* With -expand, from the root down; Level(n) are the nodes n steps below the root.
Level(t, n) ==
  LET level[k \in 0 .. n] == IF k = 0 THEN {N - 1}
                             ELSE UNION {Range(t.child[x]) : x \in level[k - 1]}
  IN  level[n]

ModifiersExpanded(d, t) ==
  IF ~ d.expand \/ ~ t.ok THEN t
  ELSE FoldLeft(LAMBDA u, n : FoldSet(LAMBDA x, v : ModifierExpand(d, v, x), u, Level(u, n)),
                t, [n \in 1 .. BNST_MAX |-> n - 1])

\* The managers, those under another one before it.
InOrder(ms) == LET order == Order(ms) IN [k \in DOMAIN order |-> ms[order[k]]]

StrongExpanded(d, t) == FoldLeft(LAMBDA u, m : StrongExpand(d, u, m), t, InOrder(d.managers))
TopExpanded(d, t) == FoldLeft(LAMBDA u, m : TopExpand(d, u, m), t, InOrder(d.managers))

\* make_dpnd_tree
MakeDpndTree(d) ==
  ModifiersExpanded(d, TopExpanded(d, StrongExpanded(d, MakeSimpleTree(d))))
-----------------------------------------------------------------------------
(* bnst_to_tag_tree                                                        *)
(*                                                                         *)
(* g: first[b] and num[b], the basic phrases of b; merged, those merged by *)
(* post-processing; offset[b], what b says about which of its basic        *)
(* phrases receives modifiers (0 or negative); ignore, the phrases to      *)
(* which that does not apply.  count is sp->Tag_num.                       *)

TagNodes(g) == 0 .. (g.count + BNST_MAX - N - 1)

\* An offset that leads out of the phrase counts as none.
Within(offset, num) == IF offset > 0 \/ num <= -offset THEN 0 ELSE offset

\* The last basic phrase not merged, at or before the one the offset tells,
\* after skipping some; -1 if there is none.
LastValid(g, first, from, skip) ==
  LET valid == Descending({k \in 0 .. from : first + k \notin g.merged})
  IN  IF skip < Len(valid) THEN valid[skip + 1] ELSE -1

HeadTag(g, u, b, skip) ==
  LastValid(g, u.first[b], u.num[b] - 1 + Within(u.offset[b], u.num[b]), skip)

\* find_head_tag_from_dpnd_bnst
HeadTagOf(g, u, b, p) ==
  LET offset == IF b \in u.ignore THEN 0 ELSE Within(u.offset[p], u.num[p])
  IN  LastValid(g, u.first[p], u.num[p] - 1 + offset, 0)

Attach(u, p, c) == [u EXCEPT !.parent[c] = p, !.child[p] = Append(@, c)]

\* The basic phrases first .. first + last of a phrase hang in a row.
Chain(g, u, first, last) ==
  LET link(v, j) ==
        LET after == {k \in (j + 1) .. last : first + k \notin g.merged}
        IN  IF after = {} \/ first + j \in g.merged THEN v
            ELSE Attach(v, first + Min(after), first + j)
  IN  FoldLeft(link, u, [j \in 1 .. last |-> j - 1])

Para(t, u, b, x) ==
  [u EXCEPT !.type[x] = t.type[b], !.top = IF b \in t.top THEN @ \cup {x} ELSE @ \ {x}]

\* A node that was added: a copy of the head of its phrase.  What follows the
\* head in the phrase hangs above the node of the coordination.
NewTag(g, t, u, b) ==
  LET h == HeadTag(g, u, b, 0)
      head == IF h < 0 THEN u.num[b] - 1 ELSE h
      x == g.count + u.new
      before == HeadTag(g, u, b, 1)
      inner == IF b \in t.top \/ head = 0 \/ before < 0 THEN Para(t, u, b, x)
               ELSE Chain(g, Attach(Para(t, u, b, x), x, u.first[b] + before), u.first[b], before)
      p == u.first[t.parent[b]] + HeadTagOf(g, u, b, t.parent[b])
      rest == SelectSeq([j \in 1 .. (u.num[b] - 1 - head) |-> u.first[b] + head + j],
                        LAMBDA y : y \notin g.merged)
      above == FoldLeft(LAMBDA v, y : [u |-> Attach(v.u, y, v.at), at |-> y],
                        [u |-> Attach(inner, p, x), at |-> p], rest)
      hung == IF t.parent[b] < N THEN [above.u EXCEPT !.parent[above.at] = None]
              ELSE Attach(inner, p, x)
  IN  [hung EXCEPT !.new = @ + 1, !.first[b] = x, !.num[b] = 1]

\* The end of the row a basic phrase hangs in.
RowEnd(u, x) ==
  LET up[n \in 0 .. BNST_MAX] == IF n = 0 THEN x
                                 ELSE IF u.parent[up[n - 1]] = None THEN up[n - 1] ELSE u.parent[up[n - 1]]
  IN  up[BNST_MAX]

OldTag(g, d, t, u, b) ==
  LET h == HeadTag(g, u, b, 0)
      head == IF h < 0 THEN u.num[b] - 1 ELSE h
      marked == Para(t, u, b, u.first[b] + head)
      row == IF b \in t.top THEN marked ELSE Chain(g, marked, u.first[b], u.num[b] - 1)
      last == u.first[b] + LastValid(g, u.first[b], u.num[b] - 1, 0)
      from == IF b \in t.top THEN RowEnd(row, last) ELSE last
  IN  IF b = Max(Bnst \ d.merged) \/ t.parent[b] = None THEN row
      ELSE Attach(row, u.first[t.parent[b]] + HeadTagOf(g, u, b, t.parent[b]), from)

\* New nodes from the last one on, then the phrases from the last one on.
BnstToTagTree(g, d, t) ==
  LET copy(f) == [b \in Nodes |-> f[t.of[b]]]
      empty == [parent |-> [x \in TagNodes(g) |-> None], child |-> [x \in TagNodes(g) |-> <<>>],
                type |-> [x \in TagNodes(g) |-> "nil"], top |-> {}, new |-> 0,
                first |-> copy(g.first), num |-> copy(g.num), offset |-> copy(g.offset),
                ignore |-> {b \in Nodes : t.of[b] \in g.ignore}]
      new == FoldLeft(LAMBDA u, b : NewTag(g, t, u, b), empty, [k \in 1 .. t.new |-> N + t.new - k])
  IN  FoldLeft(LAMBDA u, b : OldTag(g, d, t, u, b), new, Descending(Bnst \ d.merged))
=============================================================================
