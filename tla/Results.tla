------------------------------ MODULE Results ------------------------------
(***************************************************************************)
(* From the structures an analysis has found to what is printed: each one  *)
(* is copied to the phrases and basic phrases (tags), the coordinations    *)
(* are recovered from it, trees are built, function-word tags are merged   *)
(* into the one before (-postprocess), the result is printed and the       *)
(* merging undone.  With -nbest the same phrase data serve all structures  *)
(* one after the other.                                                    *)
(*                                                                         *)
(* sent: the divisions into phrases and tags (first, num, count), the      *)
(* morphemes of a tag (mrph), the tags a rule merges (merge), which tag of *)
(* a phrase receives modifiers (offset, ignore; module TreeConv), for a    *)
(* phrase "A no" the tag of the next phrase that its case frame prefers to *)
(* the last one (no, -1 for none), the structures found, and the state of  *)
(* coordination analysis (managers, path, strong, mask3).                  *)
(***************************************************************************)
EXTENDS TreeConv

CONSTANTS
  PARA_MAX,    \* room for coordinations
  Sentences,   \* what may be analysed
  Options      \* [cky, nbest, post, tab, fix, expand : BOOLEAN]

VARIABLES
  sent, opt,
  left,    \* structures still to be taken
  final,   \* the best structure is being taken, after the others
  bn,      \* phrases: num, mrph_num, preserve_mrph_num, dpnd_head, dpnd_type
  tg,      \* tags: num, mrph_num, preserve_mrph_num, dpnd_head, bnum
  ms,      \* managers of coordinations
  near,    \* feature of a phrase that says which of its tags is modified
  built,   \* the trees built last, with what they were built from
  out,     \* results printed, with the EOS line or not
  pc

vars == <<sent, opt, left, final, bn, tg, ms, near, built, out, pc>>

Tags(s) == 0 .. s.count - 1
PhraseOf(s, x) == CHOOSE b \in Bnst : x \in s.first[b] .. (s.first[b] + s.num[b] - 1)
LastTag(s, b) == s.first[b] + s.num[b] - 1
Starts(s, x) == s.first[PhraseOf(s, x)] = x

PhraseMrph(s, b) == FoldSet(LAMBDA x, n : n + s.mrph[x], 0, s.first[b] .. LastTag(s, b))
-----------------------------------------------------------------------------
(* The operations on phrases and tags                                      *)

\* dpnd_info_to_bnst: an uncertain or relaxed dependency becomes a plain one.
DpndInfoToBnst(b, dp) ==
  [b EXCEPT !.head = dp.head,
            !.type = [i \in Bnst |-> IF dp.type[i] \in {"d", "R"} THEN "D" ELSE dp.type[i]]]

\* Which tag of its head phrase phrase b modifies: an offset from the last one.
OffsetOf(s, dp, b) ==
  LET h == dp.head[b]
  IN  IF b \in s.ignore THEN 0 ELSE Within(s.offset[h], s.num[h])

\* "A no B C": A modifies B rather than C.
Prefers(s, dp, b) ==
  /\ b \notin s.ignore /\ s.no[b] # None /\ dp.head[b] = b + 1
  /\ s.no[b] < s.num[b + 1] - 1 + OffsetOf(s, dp, b)

NearOffset(s, b) == s.no[b] - (s.num[b + 1] - 1)

\* dpnd_info_to_tag_raw
DpndInfoToTag(s, t, dp) ==
  [t EXCEPT !.head = [x \in Tags(s) |->
     LET b == PhraseOf(s, x)
         h == dp.head[b]
     IN  IF x = s.count - 1 THEN None
         ELSE IF x # LastTag(s, b) THEN x + 1
         ELSE LastTag(s, h) + (IF Prefers(s, dp, b) THEN NearOffset(s, b) ELSE OffsetOf(s, dp, b))]]

\* The feature that call leaves on the head phrase.
NearAfter(s, dp, n) ==
  [h \in Bnst |-> IF h > 0 /\ Prefers(s, dp, h - 1) THEN NearOffset(s, h - 1) ELSE n[h]]

\* para_recovery: a coordination for every phrase that depends as a conjunct;
\* its first conjunct reaches back over what ends in it.
Recovered(b) ==
  LET keys == Increasing({i \in Bnst : b.type[i] = "P"})
      ends(j, i) == b.head[j] < i \/ (b.head[j] = i /\ b.type[j] # "P")
      start(i) == Max({0} \cup {j + 1 : j \in {k \in 0 .. (i - 1) : ~ ends(k, i)}})
  IN  [k \in 1 .. Min({Len(keys), PARA_MAX}) |->
         [a1 |-> start(keys[k]), a2 |-> keys[k], a3 |-> b.head[keys[k]], status |-> "n"]]

\* detect_para_relation; without managers when two coordinations overlap.
Gathered(ps) ==
  LET one(acc, i) ==
        LET m == IF acc.of[i] = 0 THEN Len(acc.ms) + 1 ELSE acc.of[i]
            taken == {i} \cup Brothers(ps, i)
        IN  [ms |-> Gather(ps, acc.ms, m, i),
             of |-> [k \in DOMAIN ps |-> IF k \in taken THEN m ELSE acc.of[k]]]
  IN  FoldLeft(one, [ms |-> <<>>, of |-> [k \in DOMAIN ps |-> 0]], Increasing(Found(ps)))

DetectParaRelation(ps) ==
  LET g == Gathered(ps)
      linked == FoldLeft(LAMBDA m, p : SetParent(ps, m, g.of[p[2]], g.of[p[1]]), g.ms, ParentPairs(ps))
  IN  IF BadPairs(ps) # {} THEN <<>>
      ELSE MarkStrong(ps, FoldLeft(ReviseScope, linked, Order(linked)))

ParaRecovery(b, old) == IF opt.fix THEN old ELSE DetectParaRelation(Recovered(b))
-----------------------------------------------------------------------------
(* Trees                                                                   *)

TreeInput(b, m) ==
  [head |-> b.head, merged |-> {i \in Bnst : b.num[i] = None}, mask3 |-> sent.mask3,
   managers |-> m, path |-> sent.path, strong |-> sent.strong,
   expand |-> opt.expand, renyou |-> sent.renyou]

TagInput(t, n) ==
  [first |-> sent.first, num |-> sent.num, count |-> sent.count,
   merged |-> {x \in Tags(sent) : t.num[x] = None}, ignore |-> sent.ignore,
   offset |-> [b \in Bnst |-> IF sent.offset[b] # 0 THEN sent.offset[b] ELSE n[b]]]

Build(b, t, m, n) ==
  LET d == TreeInput(b, m)
      g == TagInput(t, n)
      tree == MakeDpndTree(d)
  IN  [d |-> d, g |-> g, tree |-> tree,
       tags |-> IF tree.ok THEN BnstToTagTree(g, d, tree) ELSE tree]
-----------------------------------------------------------------------------
(* tag_bnst_postprocess                                                    *)

NearestValid(f, i) == Max({j \in 0 .. (i - 1) : f[j] # None})

\* Tag x goes into the nearest tag before it that is left.
MergeTag(t, x) ==
  LET to == NearestValid(t.num, x)
  IN  [t EXCEPT !.num[x] = None, !.mrph[to] = @ + t.mrph[x], !.head[to] = t.head[x]]

\* A slip: the head of the merged phrase is forgotten.
MergeBnst_headless(b, i) ==
  LET to == NearestValid(b.num, i)
  IN  [b EXCEPT !.num[i] = None, !.mrph[to] = @ + b.mrph[i]]

\* So does the phrase that begins with it.
MergeBnst(b, i) ==
  LET to == NearestValid(b.num, i)
  IN  [b EXCEPT !.num[i] = None, !.mrph[to] = @ + b.mrph[i],
                !.head[to] = b.head[i], !.type[to] = b.type[i]]

Merge(s, pair, x) ==
  IF x \notin s.merge THEN pair
  ELSE [t |-> MergeTag(pair.t, x),
        b |-> IF Starts(s, x) THEN MergeBnst(pair.b, PhraseOf(s, x)) ELSE pair.b]

\* All merges from the first tag on, after the numbers of morphemes are kept.
Merged(s, b, t) ==
  FoldLeft(LAMBDA p, x : Merge(s, p, x),
           [t |-> [t EXCEPT !.kept = t.mrph], b |-> [b EXCEPT !.kept = b.mrph]],
           [k \in 1 .. s.count |-> k - 1])

\* How many are left up to i, counted from 0.
Renumber(f) == [i \in DOMAIN f |-> Cardinality({j \in DOMAIN f : j <= i /\ f[j] # None}) - 1]

Renumbered(p) ==
  LET tt == Renumber(p.t.num)
      bt == Renumber(p.b.num)
      heads(f, num, table) == [i \in DOMAIN f |-> IF num[i] = None \/ f[i] = None THEN f[i] ELSE table[f[i]]]
  IN  [t |-> [p.t EXCEPT !.num = [x \in DOMAIN @ |-> IF @[x] = None THEN None ELSE tt[x]],
                         !.head = heads(@, p.t.num, tt),
                         !.bnum = [x \in DOMAIN @ |-> IF @[x] = None THEN None ELSE bt[@[x]]]],
       b |-> [p.b EXCEPT !.num = [i \in DOMAIN @ |-> IF @[i] = None THEN None ELSE bt[i]],
                         !.head = heads(@, p.b.num, bt)]]

\* Trees are printed from the original numbers.
Postprocessed(s, tab, b, t) == IF tab THEN Renumbered(Merged(s, b, t)) ELSE Merged(s, b, t)

\* A slip: phrases get their numbers back only.
Undone_bnst(b, t) ==
  [t |-> [t EXCEPT !.num = [x \in DOMAIN @ |-> x], !.mrph = t.kept],
   b |-> [b EXCEPT !.num = [i \in DOMAIN @ |-> i]]]

\* undo_tag_bnst_postprocess: every tag that begins a phrase numbers it.
Undone(b, t) ==
  LET begins == {x \in DOMAIN t.bnum : t.bnum[x] # None}
      nth(x) == Cardinality({y \in begins : y < x})
  IN  [t |-> [t EXCEPT !.num = [x \in DOMAIN @ |-> x], !.mrph = t.kept,
                       !.bnum = [x \in DOMAIN @ |-> IF x \in begins THEN nth(x) ELSE None]],
       b |-> [b EXCEPT !.num = [i \in DOMAIN @ |-> i], !.mrph = b.kept]]
-----------------------------------------------------------------------------
(* The n-best loop                                                         *)

\* What a printed result tells: the numbers, heads and morphemes of what is
\* left, or the tree of tags.
Shown(b, t, u) ==
  LET kept(f) == Increasing({i \in DOMAIN f : f[i] # None})
      line(r, i) == <<r.num[i], r.head[i], r.mrph[i]>>
      bs == kept(b.num)
      ts == kept(t.num)
  IN  IF opt.tab
      THEN [bnst |-> [k \in DOMAIN bs |-> line(b, bs[k])], tags |-> [k \in DOMAIN ts |-> line(t, ts[k])]]
      ELSE [tree |-> u.child, sizes |-> t.mrph]

Fresh(s, old) ==
  [b |-> [num |-> [i \in Bnst |-> i], mrph |-> [i \in Bnst |-> PhraseMrph(s, i)],
          kept |-> [i \in Bnst |-> old], head |-> [i \in Bnst |-> None], type |-> [i \in Bnst |-> "D"]],
   t |-> [num |-> [x \in Tags(s) |-> x], mrph |-> s.mrph, kept |-> [x \in Tags(s) |-> old],
          head |-> [x \in Tags(s) |-> None],
          bnum |-> [x \in Tags(s) |-> IF Starts(s, x) THEN PhraseOf(s, x) ELSE None]]]

NoNear == [b \in Bnst |-> 0]

\* The structures are found; preserve_mrph_num holds what the last sentence
\* left there, if anything.
Init ==
  /\ sent \in Sentences
  /\ opt \in {o \in Options : o.fix \/ sent.managers = <<>>}
  /\ left = sent.structs
  /\ final = FALSE
  /\ \E old \in 0 .. 1 : bn = Fresh(sent, old).b /\ tg = Fresh(sent, old).t
  /\ ms = sent.managers
  /\ near = NoNear
  /\ built = [on |-> FALSE]
  /\ out = <<>>
  /\ pc = "take"

\* A structure to phrases, tags and trees.
Take(dp) ==
  \E b \in {DpndInfoToBnst(bn, dp)} :
  \E m \in {IF opt.cky \/ final' THEN ParaRecovery(b, ms) ELSE ms} :
  \E t \in {DpndInfoToTag(sent, tg, dp)} :
    /\ bn' = b /\ ms' = m /\ tg' = t
    /\ near' = NearAfter(sent, dp, near)
    /\ built' = [on |-> TRUE, x |-> Build(b, t, m, near')]

\* The loop of after_cky, and dpnd_evaluation without CKY: without -nbest, or
\* without a tree, nothing is printed.
TakeStructure ==
  /\ pc = "take" /\ left # <<>>
  /\ final' = FALSE
  /\ Take(Head(left))
  /\ left' = Tail(left)
  /\ pc' = IF ~ (opt.nbest /\ built'.x.tree.ok) THEN "take"
           ELSE IF opt.cky /\ opt.post THEN "post" ELSE "print"
  /\ UNCHANGED <<sent, opt, out>>

\* A slip: with -nbest the best structure is printed once more.
TakeBest_again ==
  /\ pc = "take" /\ left = <<>>
  /\ final' = TRUE
  /\ Take(sent.structs[Len(sent.structs)])
  /\ pc' = IF opt.post THEN "post" ELSE "print"
  /\ UNCHANGED <<sent, opt, left, out>>

\* one_sentence_analysis goes on with the best structure, the last one.
TakeBest ==
  /\ pc = "take" /\ left = <<>>
  /\ final' = TRUE
  /\ Take(sent.structs[Len(sent.structs)])
  /\ pc' = IF opt.post THEN "post" ELSE IF opt.nbest THEN "done" ELSE "print"
  /\ UNCHANGED <<sent, opt, left, out>>

\* do_postprocess: merges only what has a tree.
DoPostprocess ==
  /\ pc = "post"
  /\ \E x \in {Build(bn, tg, ms, near)} :
     \E p \in {IF x.tree.ok THEN Postprocessed(sent, opt.tab, bn, tg) ELSE [b |-> bn, t |-> tg]} :
       bn' = p.b /\ tg' = p.t /\ built' = [on |-> TRUE, x |-> x]
  /\ pc' = IF final /\ opt.nbest THEN "done" ELSE "print"
  /\ UNCHANGED <<sent, opt, left, final, ms, near, out>>

\* print_result; a tree is built anew from what is left.
PrintResult ==
  /\ pc = "print"
  /\ \E x \in {IF opt.tab THEN built.x ELSE Build(bn, tg, ms, near)} :
     /\ built' = [on |-> TRUE, x |-> x]
     /\ out' = Append(out, [shown |-> Shown(bn, tg, x.tags), near |-> near,
                            eos |-> final \/ ~ opt.cky \/ left = <<>>])
  /\ \E p \in {IF opt.post THEN Undone(bn, tg) ELSE [b |-> bn, t |-> tg]} : bn' = p.b /\ tg' = p.t
  /\ pc' = IF final THEN "done" ELSE "take"
  /\ UNCHANGED <<sent, opt, left, final, ms, near>>

Next == TakeStructure \/ TakeBest \/ DoPostprocess \/ PrintResult

Spec == Init /\ [][Next]_vars
-----------------------------------------------------------------------------
(* Properties                                                              *)

\* Every variable has its type.
TypeOK ==
  /\ opt \in Options
  /\ left \in {SubSeq(sent.structs, k, Len(sent.structs)) : k \in 1 .. (Len(sent.structs) + 1)}
  /\ final \in BOOLEAN
  /\ bn.num \in [Bnst -> Bnst \cup {None}] /\ bn.head \in [Bnst -> Bnst \cup {None}]
  /\ tg.num \in [Tags(sent) -> Tags(sent) \cup {None}]
  /\ tg.head \in [Tags(sent) -> Tags(sent) \cup {None}]
  /\ tg.bnum \in [Tags(sent) -> Bnst \cup {None}]
  /\ near \in [Bnst -> Int]
  /\ Len(out) <= Len(sent.structs)
  /\ pc \in {"take", "post", "print", "done"}

\* The nodes below root in at most n steps.
Below(child, root, n) ==
  LET reach[k \in 0 .. n] ==
        IF k = 0 THEN {root} ELSE reach[k - 1] \cup UNION {Range(child[x]) : x \in reach[k - 1]}
  IN  reach[n]

\* Every node hangs once, below the root, and knows its parent.
IsTree(u, nodes, root) ==
  /\ Below(u.child, root, Cardinality(nodes)) = nodes
  /\ \A x \in nodes : IsInjective(u.child[x])
  /\ \A x \in nodes \ {root} : \E p \in nodes :
       u.parent[x] = p /\ {q \in nodes : x \in Range(u.child[q])} = {p}

HasTrees == built.on /\ built.x.tree.ok /\ ~ opt.expand

\* make_simple_tree hangs what modifies a merged phrase on the phrase before
\* it, which may itself be merged.
MergedInARow == \E i \in built.x.d.merged : i + 1 \in built.x.d.merged

\* The tree of phrases, without -expand.
BnstTreeWhole ==
  HasTrees /\ ~ MergedInARow =>
    LET valid == Bnst \ built.x.d.merged
    IN  IsTree(built.x.tree, valid \cup (N .. (N + built.x.tree.new - 1)), Max(valid))

\* The tree of basic phrases made from it.
TagTreeWhole ==
  HasTrees /\ ~ MergedInARow =>
    LET g == built.x.g
        valid == Tags(sent) \ g.merged
    IN  IsTree(built.x.tags, valid \cup (g.count .. (g.count + built.x.tags.new - 1)), Max(valid))

\* With -expand, what modifies a coordination hangs below every conjunct; no
\* phrase gets lost.  (Children that are not taken out, adverbial or incomplete
\* ones, are lost when they follow one that is.)
ExpandKeepsAll ==
  built.on /\ built.x.tree.ok /\ opt.expand /\ sent.renyou = {} /\ sent.mask3 = {} =>
    Bnst \subseteq Below(built.x.tree.child, N - 1, BNST_MAX)

\* The trees built from a structure and its coordinations, rejected ones that
\* stay behind included, hold every phrase and basic phrase that has not been
\* merged, and every node added, exactly once; with -expand none gets lost
\* (make_dpnd_tree, bnst_to_tag_tree).
TreesWhole == BnstTreeWhole /\ TagTreeWhole /\ ExpandKeepsAll

Renumbering == pc = "print" /\ opt.tab /\ opt.post /\ opt.cky /\ built.x.tree.ok

Kept(f) == {i \in DOMAIN f : f[i] # None}

\* Numbers without gaps, a head behind each but the last, no morpheme lost.
NumberedThrough ==
  Renumbering =>
    \A r \in {bn, tg} :
      LET kept == Kept(r.num)
          total == FoldSet(LAMBDA i, n : n + r.mrph[i], 0, kept)
      IN  /\ {r.num[i] : i \in kept} = 0 .. (Cardinality(kept) - 1)
          /\ \A i \in kept : IF i = Max(kept) THEN r.head[i] = None
                             ELSE r.head[i] \in (r.num[i] + 1) .. (Cardinality(kept) - 1)
          /\ total = FoldSet(LAMBDA x, n : n + sent.mrph[x], 0, Tags(sent))

\* The phrase line under which the line of a tag is printed.
LineOf(x) == tg.bnum[Max({y \in Kept(tg.num) : y <= x /\ tg.bnum[y] # None})]

\* After merging and renumbering, phrases and tags are numbered through, and the
\* heads printed for tags agree with those printed for phrases: a tag that
\* modifies a tag of another phrase modifies one of its phrase's head
\* (do_postprocess).
HeadsAgree ==
  /\ NumberedThrough
  /\ Renumbering =>
       \A x, y \in Kept(tg.num) :
         tg.head[x] = tg.num[y] /\ LineOf(x) # LineOf(y) =>
           \E b \in Kept(bn.num) : bn.num[b] = LineOf(x) /\ bn.head[b] = LineOf(y)

\* What is printed for a structure does not depend on the structures printed
\* before it, unless one of them left a feature on a head phrase.
Alone(dp, n) ==
  LET f == Fresh(sent, 0)
      b == DpndInfoToBnst(f.b, dp)
      t == DpndInfoToTag(sent, f.t, dp)
      m == ParaRecovery(b, sent.managers)
      x == Build(b, t, m, n)
      p == IF opt.post /\ x.tree.ok THEN Postprocessed(sent, opt.tab, b, t) ELSE [b |-> b, t |-> t]
  IN  Shown(p.b, p.t, IF opt.tab THEN x.tags ELSE Build(p.b, p.t, m, n).tags)

HistoryFree ==
  [][out' # out => \E k \in DOMAIN sent.structs :
       /\ Len(sent.structs) - k = Len(left)
       /\ LET dp == sent.structs[k]
              last == out'[Len(out')]
          IN  last.near = NearAfter(sent, dp, NoNear) => last.shown = Alone(dp, last.near)]_vars

=============================================================================
