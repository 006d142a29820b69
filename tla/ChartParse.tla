----------------------------- MODULE ChartParse -----------------------------
(***************************************************************************)
(* The chart parser, the analyser KNP uses unless another one is asked     *)
(* for: cky and after_cky (system/cky.c), with the retry and the fallback  *)
(* of one_sentence_analysis (system/main.c).                               *)
(*                                                                         *)
(* Cell <<i, j>> of the chart lists the ways to analyse phrases i .. j as  *)
(* a tree with root j.  Cells are filled column by column, each from the   *)
(* bottom up; dep_check carries the barriers met so far from cell to cell. *)
(* An entry keeps of its subtree what is read later: its arcs, the ends of *)
(* the conjuncts that relax a barrier, and the end of its first conjunct.  *)
(* These are computed when the entry is made, where the code walks the     *)
(* pointers left and right each time.                                      *)
(*                                                                         *)
(* Japanese only: the head of an entry is always its last phrase.  Scores  *)
(* are final when an entry is made (no OPT_CASE_GENERATE_EOS).             *)
(***************************************************************************)
EXTENDS Integers, Sequences, FiniteSets

SE == INSTANCE SequencesExt

CONSTANTS
  N,               \* sp->Bnst_num
  Inputs,          \* the sentences that may come in, with the options in force
  Score(_, _, _),  \* calc_score, calc_case_probability: the score of an entry
  TableMax,        \* CKY_TABLE_MAX
  TableMaxForCase  \* CKY_TABLE_MAX_FOR_CASE

Bnst == 0 .. N - 1
Last == N - 1

DpndTypes == {"D", "P", "I", "A", "R", "d"}
NoDpnd == "none"

Matrices(S) == [Bnst -> [Bnst -> S]]
Rules == [hasBarrier : BOOLEAN, barrier : SUBSET Bnst, preference : {-1, 1, 2}]

\* para: for a phrase with a key of a coordination, the spans <<begin, end>>
\* that Para_matrix scores above the threshold.  badPara: the phrases whose
\* coordination has status 'x'.  paren: feature <kakari:kakko-heiretsu>.
\* yougen: predicates.  renyou: feature <kakari:renyou>.  follow: the offset of
\* <kakari:mukaku-juuzoku:-k>, which refers to a phrase that exists.  treeFits:
\* make_dpnd_tree succeeds.
IsSentence(s) ==
  /\ s.mask \in Matrices(0 .. 3)
  /\ s.quote \in Matrices(BOOLEAN)
  /\ s.dpnd \in Matrices(DpndTypes \cup {NoDpnd})
  /\ s.follow \in [Bnst -> {0, -1, -2}]
  /\ \A b \in Bnst : b + s.follow[b] \in Bnst
  /\ s.rule \in [Bnst -> Rules]
  /\ s.para \in [Bnst -> SUBSET (Bnst \X Bnst)]
  /\ {s.badPara, s.paren, s.yougen, s.renyou} \subseteq SUBSET Bnst
  /\ s.treeFits \in BOOLEAN

\* ParaFix: coordinations were fixed by the analysis before.  Nbest: print every
\* structure.  Beam: entries kept in a cell, 0 for all of them.  Fallback:
\* OPT_CASE_FALLBACK_TO_DPND.
Options == [ParaFix : BOOLEAN, Nbest : BOOLEAN, Beam : Nat, Fallback : BOOLEAN]

ASSUME NAssumption == N \in Nat \ {0}
ASSUME InputsAssumption == \A x \in Inputs : IsSentence(x.sent) /\ x.opt \in Options
ASSUME TableAssumption == {TableMax, TableMaxForCase} \subseteq Nat \ {0}

VARIABLES
  opt,         \* the options, set when the program starts
  sent,        \* the sentence and what earlier stages found out about it
  OptAnalysis, \* "case" or "dpnd"
  retried,     \* the case analysis failed and the other one is running
  Dpnd,        \* Dpnd_matrix, restricted in place
  para,        \* Para_matrix
  cell, k,     \* <<i, j>> and the split point: the loop variables of cky
  cky_matrix,  \* the chart
  table_num,   \* cky_table_num: entries taken from cky_table
  dep_check,   \* -1: no dependency yet, 0: one found, > 0: its barrier
  structures,  \* the entries after_cky has still to go through
  best,        \* Best_mgr: head, type, score
  bnst,        \* dpnd_head and dpnd_type of the phrases
  out,         \* one element per printed structure: does EOS follow it?
  phase        \* "start", "fill", "choose", "after", "failed" or "done"

chart == <<cell, k, cky_matrix, table_num, dep_check>>
vars == <<opt, sent, OptAnalysis, retried, Dpnd, para, chart, structures, best, bnst, out, phase>>

OptParaFix == opt.ParaFix
OptNbest == opt.Nbest
OptBeam == opt.Beam
Fallback == opt.Fallback

Cells == {c \in Bnst \X Bnst : c[1] <= c[2]}
-----------------------------------------------------------------------------
(* Preparation of the matrices                                             *)

Heads(D, d) == {g \in (d + 1) .. Last : D[d][g] # NoDpnd}

Keep(D, d, G) == [g \in Bnst |-> IF g \in Heads(D, d) \ G THEN NoDpnd ELSE D[d][g]]

\* Only the first head of a parenthetic coordination remains.
RestrictParenthetic(D) ==
  [d \in Bnst |-> IF d \in sent.paren
                  THEN Keep(D, d, {g \in Heads(D, d) : \A h \in Heads(D, d) : g <= h})
                  ELSE D[d]]

\* Only the last head of a phrase that prefers the end of the sentence remains.
RestrictEndPrefer(D) ==
  [d \in Bnst |-> IF sent.rule[d].preference = -1
                  THEN Keep(D, d, {g \in Heads(D, d) : \A h \in Heads(D, d) : h <= g})
                  ELSE D[d]]

HandleIncomplete(D) ==
  [d \in Bnst |-> [g \in Bnst |->
     IF sent.mask[d][g] = 3 /\ D[d][g] = NoDpnd THEN "I" ELSE D[d][g]]]

DiscardBad(p) == [d \in Bnst |-> IF d \in sent.badPara THEN {} ELSE p[d]]
-----------------------------------------------------------------------------
(* Entries                                                                 *)

\* check_dpnd_possibility: the type of a dependency, NoDpnd if there is none.
Possibility(d, g, begin, relax) ==
  CASE IF OptParaFix THEN sent.mask[d][g] = 2 ELSE <<begin, g>> \in para[d] -> "P"
    [] OptParaFix /\ sent.mask[d][g] = 3 -> "I"
    [] OTHER ->
       IF Dpnd[d][g] # NoDpnd /\ sent.quote[d][g] /\ (OptParaFix => sent.mask[d][g] = 1)
       THEN Dpnd[d][g]
       ELSE IF Dpnd[d][g] = "R" \/ relax THEN "R" ELSE NoDpnd

Scored(e) ==
  [i |-> e.i, j |-> e.j, type |-> e.type, para_flag |-> e.para_flag, arcs |-> e.arcs,
   ends |-> e.ends, first |-> e.first, score |-> Score(sent, OptAnalysis, e)]

LeafEntry(b) ==
  Scored([i |-> b, j |-> b, type |-> NoDpnd, para_flag |-> FALSE, arcs |-> <<>>,
          ends |-> {}, first |-> b])

\* f, overridden by g.
Override(f, g) ==
  [b \in DOMAIN f \cup DOMAIN g |-> IF b \in DOMAIN g THEN g[b] ELSE f[b]]

\* The arc convert_to_dpnd writes for an entry itself: the offset of a phrase
\* that follows an earlier one, or the last phrase of the right part.
OwnArc(l, r, type) ==
  [b \in {l.j} |-> IF type # "P" /\ sent.follow[b] # 0
                   THEN [to |-> sent.follow[b], type |-> "D"]
                   ELSE [to |-> r.j, type |-> type]]

\* A slip: no arc of its own for any coordination.
MadeOf_no_arc(l, r, type, para_flag) ==
  Scored([i |-> l.i, j |-> r.j, type |-> type, para_flag |-> para_flag,
          arcs |-> Override(IF type = "P" THEN l.arcs
                            ELSE Override(OwnArc(l, r, type), l.arcs), r.arcs),
          ends |-> {}, first |-> r.j])

\* set_cky.  convert_to_dpnd writes the arcs of the left part before those of
\* the right one; the two overlap in a coordination of more than two.
MadeOf(l, r, type, para_flag) ==
  Scored([i |-> l.i, j |-> r.j, type |-> type, para_flag |-> para_flag,
          arcs |-> Override(IF para_flag THEN l.arcs
                            ELSE Override(OwnArc(l, r, type), l.arcs), r.arcs),
          ends |-> r.ends \cup
                   (IF type = "P" THEN {l.j} \cup (IF para_flag THEN l.ends ELSE {}) ELSE {}),
          first |-> IF type = "P" THEN l.first ELSE r.j])

\* new_cky_data fails as soon as the table would be full.
Limit ==
  IF Fallback /\ OptAnalysis = "case" /\ TableMaxForCase < TableMax
  THEN TableMaxForCase ELSE TableMax

Room(n) == n = 0 \/ table_num + n < Limit
-----------------------------------------------------------------------------
(* One cell                                                                *)

I == cell[1]
J == cell[2]
Dep == I + k

\* A noun, or an adverbial predicate on the left, is represented by its best
\* analysis only.
Considered(entries, onlyBest) ==
  IF onlyBest /\ ~ OptNbest /\ OptParaFix /\ entries # <<>> THEN <<entries[1]>> ELSE entries

Lefts == Considered(cky_matrix[<<I, Dep>>], Dep \notin sent.yougen \/ Dep \in sent.renyou)
Rights == Considered(cky_matrix[<<Dep + 1, J>>], J \notin sent.yougen)

\* A slip: the end of the sentence is open to phrases that found a head.
SplitType_always == Possibility(Dep, J, I, J = Last)

SplitType == Possibility(Dep, J, I, J = Last /\ dep_check[Dep] = -1)

\* A slip: the barrier itself is already behind the barrier.
Barred_early(r) ==
  /\ dep_check[Dep] > 0 /\ dep_check[Dep] <= J
  /\ OptParaFix \/ \A e \in r.ends : dep_check[Dep] < e

\* The barrier of the dependent lies before J, and no conjunct of the right
\* part begins before it.
Barred(r) ==
  /\ dep_check[Dep] > 0 /\ dep_check[Dep] < J
  /\ OptParaFix \/ \A e \in r.ends : dep_check[Dep] < e

Joins(r) ==
  IF SplitType = "P" THEN OptParaFix \/ r.type # "P" ELSE ~ Barred(r)

\* The entries split k yields, in the order of the two loops.
Merged ==
  IF SplitType = NoDpnd THEN <<>>
  ELSE SE!FlattenSeq([n \in DOMAIN Lefts |-> SE!FlattenSeq([m \in DOMAIN Rights |->
         IF Joins(Rights[m]) THEN <<MadeOf(Lefts[n], Rights[m], SplitType, FALSE)>> ELSE <<>>])])

\* A coordination that goes on: a P entry of this row that ends where the
\* first conjunct of a P entry of this column ends.
Extensions(r) ==
  LET row == cky_matrix[<<I, r.first>>]
  IN  SE!FlattenSeq([n \in DOMAIN row |->
        IF row[n].type = "P" THEN <<MadeOf(row[n], r, "P", TRUE)>> ELSE <<>>])

Extended ==
  SE!FlattenSeq([n \in 1 .. (J - I - 1) |->
    LET column == cky_matrix[<<I + n, J>>]
    IN  SE!FlattenSeq([m \in DOMAIN column |->
          IF column[m].type = "P" THEN Extensions(column[m]) ELSE <<>>])])

\* What a successful split says about the barrier of its dependent.
BarrierAfter ==
  LET rule == sent.rule[Dep]
      real == OptParaFix \/ Dpnd[Dep][J] # NoDpnd
  IN  CASE J = Last -> dep_check[Dep]
        [] J # Last /\ real /\ rule.hasBarrier /\ J \in rule.barrier -> J
        [] OTHER -> IF dep_check[Dep] # -1 THEN dep_check[Dep]
                    ELSE IF real /\ rule.preference # -1 /\ ~ rule.hasBarrier THEN J ELSE 0

\* The best entry from position n on, the first one among equals.
BestFrom(entries, n) ==
  CHOOSE b \in n .. Len(entries) :
    \A m \in n .. Len(entries) :
      /\ entries[m].score <= entries[b].score
      /\ m < b => entries[m].score < entries[b].score

MoveTo(entries, b, n) ==
  SubSeq(entries, 1, n - 1) \o <<entries[b]>> \o SubSeq(entries, n, b - 1)
    \o SubSeq(entries, b + 1, Len(entries))

\* sort_cky_ptrs: the best `beam' entries to the front, in order.
SortCkyPtrs(entries, beam) ==
  LET sorted[n \in 0 .. beam] ==
        IF n = 0 THEN entries
        ELSE IF n > Len(entries) THEN sorted[n - 1]
        ELSE MoveTo(sorted[n - 1], BestFrom(sorted[n - 1], n), n)
  IN  sorted[beam]

\* A slip: without a beam the best entry is not brought to the front.
Pruned_unsorted(entries) == entries

Pruned(entries) ==
  IF entries = <<>> THEN entries
  ELSE IF OptBeam # 0 /\ cell # <<0, Last>>
  THEN SubSeq(SortCkyPtrs(entries, OptBeam), 1,
              IF OptBeam < Len(entries) THEN OptBeam ELSE Len(entries))
  ELSE SortCkyPtrs(entries, 1)
-----------------------------------------------------------------------------
(* The actions                                                             *)

NoHeads == [head |-> [b \in Bnst |-> -1], type |-> [b \in Bnst |-> "D"]]

Init ==
  /\ \E x \in Inputs : sent = x.sent /\ opt = x.opt
  /\ OptAnalysis \in {"case", "dpnd"}
  /\ retried = FALSE
  /\ Dpnd = sent.dpnd
  /\ para = sent.para
  /\ cell = <<0, 0>> /\ k = 0
  /\ cky_matrix = [c \in Cells |-> <<>>]
  /\ table_num = 0
  /\ dep_check = [b \in Bnst |-> -1]
  /\ structures = <<>>
  /\ best = [head |-> NoHeads.head, type |-> NoHeads.type, score |-> 0]
  /\ bnst = NoHeads
  /\ out = <<>>
  /\ phase = "start"

\* The beginning of cky.  The chart still holds an earlier attempt.
Begin ==
  /\ phase = "start"
  /\ Dpnd' = LET restricted == RestrictEndPrefer(RestrictParenthetic(Dpnd))
             IN  IF OptParaFix THEN restricted ELSE HandleIncomplete(restricted)
  /\ para' = IF OptParaFix THEN para ELSE DiscardBad(para)
  /\ cell' = <<0, 0>> /\ k' = 0
  /\ table_num' = 0
  /\ dep_check' = [b \in Bnst |-> -1]
  /\ best' = [best EXCEPT !.head = NoHeads.head, !.type = NoHeads.type]
  /\ phase' = "fill"
  /\ UNCHANGED <<opt, sent, OptAnalysis, retried, cky_matrix, structures, bnst, out>>

\* Columns from left to right, each from the bottom to the top.
Advance ==
  /\ cell' = IF I > 0 THEN <<I - 1, J>> ELSE IF J < Last THEN <<J + 1, J + 1>> ELSE cell
  /\ k' = 0
  /\ phase' = IF cell = <<0, Last>> THEN "choose" ELSE "fill"

Add(entries, new) ==
  /\ cky_matrix' = [cky_matrix EXCEPT ![cell] = entries \o new]
  /\ table_num' = table_num + Len(new)
  /\ UNCHANGED <<opt, sent, OptAnalysis, retried, Dpnd, para, structures, best, bnst, out>>

Leaf ==
  /\ phase = "fill" /\ I = J
  /\ Room(1)
  /\ Add(<<>>, <<LeafEntry(J)>>)
  /\ Advance
  /\ UNCHANGED dep_check

\* A slip: a cell is not cleared before it is filled.
Merge_uncleared ==
  /\ phase = "fill" /\ k < J - I
  /\ LET new == Merged
     IN  /\ Room(Len(new))
         /\ Add(cky_matrix[cell], new)
         /\ dep_check' = IF new = <<>> THEN dep_check
                         ELSE [dep_check EXCEPT ![Dep] = BarrierAfter]
  /\ k' = k + 1
  /\ UNCHANGED <<cell, phase>>

\* Split k: phrases I .. Dep on the left, Dep + 1 .. J on the right.
Merge ==
  /\ phase = "fill" /\ k < J - I
  /\ LET new == Merged
     IN  /\ Room(Len(new))
         /\ Add(IF k = 0 THEN <<>> ELSE cky_matrix[cell], new)
         /\ dep_check' = IF new = <<>> THEN dep_check
                         ELSE [dep_check EXCEPT ![Dep] = BarrierAfter]
  /\ k' = k + 1
  /\ UNCHANGED <<cell, phase>>

\* Coordinations of more than two phrases.
Coordinate ==
  /\ phase = "fill" /\ I < J /\ k = J - I
  /\ ~ OptParaFix
  /\ Room(Len(Extended))
  /\ Add(cky_matrix[cell], Extended)
  /\ k' = k + 1
  /\ UNCHANGED <<cell, dep_check, phase>>

CloseCell ==
  /\ phase = "fill" /\ I < J /\ k = (IF OptParaFix THEN J - I ELSE J - I + 1)
  /\ cky_matrix' = [cky_matrix EXCEPT ![cell] = Pruned(@)]
  /\ Advance
  /\ UNCHANGED <<opt, sent, OptAnalysis, retried, Dpnd, para, table_num, dep_check, structures, best,
                 bnst, out>>

\* cky returns FALSE from the middle of its loops.
TableFull ==
  /\ phase = "fill"
  /\ \/ I = J /\ ~ Room(1)
     \/ k < J - I /\ ~ Room(Len(Merged))
     \/ I < J /\ k = J - I /\ ~ OptParaFix /\ ~ Room(Len(Extended))
  /\ phase' = "failed"
  /\ UNCHANGED <<opt, sent, OptAnalysis, retried, Dpnd, para, chart, structures, best, bnst, out>>

\* when_no_dpnd_struct: every phrase depends on its neighbour.
NeighbourHeads ==
  [head |-> [b \in Bnst |-> IF b = Last THEN -1 ELSE b + 1],
   type |-> [b \in Bnst |-> "D"], score |-> 0]

\* dpnd_info_to_bnst
DpndInfoToBnst(b) ==
  [head |-> b.head,
   type |-> [i \in Bnst |-> IF b.type[i] \in {"d", "R"} THEN "D" ELSE b.type[i]]]

Analyses == cky_matrix[<<0, Last>>]

\* No analysis: for n-best output the neighbours are printed at once.
NoAnalysis ==
  /\ phase = "choose" /\ Analyses = <<>>
  /\ best' = IF OptNbest THEN NeighbourHeads ELSE best
  /\ bnst' = IF OptNbest THEN DpndInfoToBnst(best') ELSE bnst
  /\ out' = IF OptNbest THEN Append(out, TRUE) ELSE out
  /\ phase' = "failed"
  /\ UNCHANGED <<opt, sent, OptAnalysis, retried, Dpnd, para, chart, structures>>

\* The best analysis goes to the end of the list, so that Best_mgr keeps it.
Choose ==
  /\ phase = "choose" /\ Analyses # <<>>
  /\ LET b == BestFrom(Analyses, 1)
     IN  structures' = IF OptNbest
                       THEN SubSeq(Analyses, 1, b - 1)
                              \o SubSeq(Analyses, b + 1, Len(Analyses)) \o <<Analyses[b]>>
                       ELSE <<Analyses[b]>>
  /\ phase' = "after"
  /\ UNCHANGED <<opt, sent, OptAnalysis, retried, Dpnd, para, chart, best, bnst, out>>

\* A slip: a phrase may become its own head.
Resolved_strict(head) ==
  LET resolved[b \in Bnst] ==
        IF b = Last \/ head[b] >= 0 THEN head[b]
        ELSE IF b > resolved[b + head[b]] THEN Last ELSE resolved[b + head[b]]
  IN  resolved

\* Offsets are replaced from left to right; a head on the wrong side becomes
\* the end of the sentence.
Resolved(head) ==
  LET resolved[b \in Bnst] ==
        IF b = Last \/ head[b] >= 0 THEN head[b]
        ELSE IF b >= resolved[b + head[b]] THEN Last ELSE resolved[b + head[b]]
  IN  resolved

\* What after_cky makes of Best_mgr for one structure.
BestAfter(e) ==
  LET written(f, x) == [b \in Bnst |-> IF b \in DOMAIN e.arcs THEN x[b] ELSE f[b]]
      head == [written(best.head, [b \in DOMAIN e.arcs |-> e.arcs[b].to]) EXCEPT ![e.j] = -1]
  IN  [head |-> Resolved(head), score |-> e.score,
       type |-> written(best.type, [b \in DOMAIN e.arcs |-> e.arcs[b].type])]

\* One round of after_cky: the arcs are written over those of the structure
\* before.  A structure is printed if its tree can be built.
Convert ==
  /\ phase = "after" /\ structures # <<>>
  /\ best' = BestAfter(structures[1])
  /\ bnst' = DpndInfoToBnst(best')
  /\ out' = IF OptNbest /\ sent.treeFits THEN Append(out, Len(structures) = 1) ELSE out
  /\ structures' = Tail(structures)
  /\ UNCHANGED <<opt, sent, OptAnalysis, retried, Dpnd, para, chart, phase>>

\* one_sentence_analysis hands on Best_mgr; print_all_result prints it unless
\* the n-best output has been printed already.
Printed(b) ==
  /\ best' = b
  /\ bnst' = DpndInfoToBnst(b)
  /\ out' = IF OptNbest THEN out ELSE Append(out, TRUE)
  /\ OptAnalysis' = IF retried THEN "case" ELSE OptAnalysis
  /\ phase' = "done"

Finish ==
  /\ phase = "after" /\ structures = <<>>
  /\ Printed(best)
  /\ UNCHANGED <<opt, sent, retried, Dpnd, para, chart, structures>>

\* The second attempt, without case analysis.
Retry ==
  /\ phase = "failed" /\ OptAnalysis = "case" /\ Fallback
  /\ OptAnalysis' = "dpnd"
  /\ retried' = TRUE
  /\ phase' = "start"
  /\ UNCHANGED <<opt, sent, Dpnd, para, chart, structures, best, bnst, out>>

GiveUp ==
  /\ phase = "failed" /\ ~ (OptAnalysis = "case" /\ Fallback)
  /\ Printed(NeighbourHeads)
  /\ UNCHANGED <<opt, sent, retried, Dpnd, para, chart, structures>>

Step == \/ Begin \/ Leaf \/ Merge \/ Coordinate \/ CloseCell \/ TableFull
        \/ NoAnalysis \/ Choose \/ Convert \/ Finish \/ Retry \/ GiveUp

Done == phase = "done" /\ UNCHANGED vars

Next == Step \/ Done

Spec == Init /\ [][Next]_vars
-----------------------------------------------------------------------------
(* Properties                                                              *)

Arcs == [to : {-2, -1} \cup Bnst, type : DpndTypes]

\* Type invariant: an entry of cell <<i, j>> has an arc for each of its phrases
\* but the last, whatever parts it was made of, and the table is never full.
TypeOK ==
  /\ IsSentence(sent) /\ opt \in Options
  /\ OptAnalysis \in {"case", "dpnd"} /\ retried \in BOOLEAN
  /\ Dpnd \in Matrices(DpndTypes \cup {NoDpnd})
  /\ para \in [Bnst -> SUBSET (Bnst \X Bnst)]
  /\ cell \in Cells /\ k \in 0 .. N
  /\ DOMAIN cky_matrix = Cells
  /\ \A c \in Cells : \A n \in DOMAIN cky_matrix[c] :
       LET e == cky_matrix[c][n]
       IN  /\ <<e.i, e.j>> = c
           /\ DOMAIN e.arcs = c[1] .. (c[2] - 1)
           /\ \A b \in DOMAIN e.arcs : e.arcs[b] \in Arcs
           /\ e.type \in DpndTypes \cup {NoDpnd}
           /\ e.ends \subseteq Bnst
           /\ e.i <= e.first /\ e.first <= e.j
  /\ table_num \in 0 .. (TableMax - 1)
  /\ dep_check \in [Bnst -> -1 .. Last]
  /\ best.head \in [Bnst -> -1 .. Last] /\ best.type \in [Bnst -> DpndTypes]
  /\ bnst.head \in [Bnst -> -1 .. Last] /\ bnst.type \in [Bnst -> DpndTypes]
  /\ out \in Seq(BOOLEAN)
  /\ phase \in {"start", "fill", "choose", "after", "failed", "done"}

\* Whatever was relaxed, retried or taken over from another phrase, what is
\* handed on is a tree whose root is the last phrase.
HeadsRight == phase = "done" => \A b \in Bnst \ {Last} : bnst.head[b] > b

Crossing(head, b, c) == b < c /\ c < head[b] /\ head[b] < head[c]

\* Reference for the chart: the heads of a phrase, given only the barriers as
\* they are in the end and not when a cell was filled.
Allowed(d) ==
  {g \in (d + 1) .. Last :
     LET type == Possibility(d, g, 0, g = Last /\ dep_check[d] = -1)
     IN  /\ type # NoDpnd
         /\ type = "P" \/ dep_check[d] <= 0 \/ dep_check[d] >= g}

Trees ==
  LET allowed == [d \in 0 .. (Last - 1) |-> Allowed(d)]
  IN  {h \in [0 .. (Last - 1) -> Bnst] :
         /\ \A d \in DOMAIN h : h[d] \in allowed[d]
         /\ \A b, c \in DOMAIN h : ~ Crossing(h, b, c)}

\* The entry that stands for a tree.
EntryFor(h) ==
  [i |-> 0, j |-> Last, para_flag |-> FALSE,
   arcs |-> [d \in DOMAIN h |->
     LET type == Possibility(d, h[d], 0, h[d] = Last /\ dep_check[d] = -1)
     IN  IF type # "P" /\ sent.follow[d] # 0 THEN [to |-> sent.follow[d], type |-> "D"]
         ELSE [to |-> h[d], type |-> type]]]

\* What the marks and the matrix of a sentence say of head g.
MayHead(s, d, g) ==
  \/ s.mask[d][g] \in {2, 3}
  \/ s.mask[d][g] = 1 /\ s.quote[d][g] /\ s.dpnd[d][g] # NoDpnd
  \/ s.dpnd[d][g] = "R"

\* What earlier stages see to: if a phrase may have a head before a coordinate one that
\* is one of its barriers, it has none but coordinate ones in between.
MarksDecide ==
  \A x \in Inputs : \A d \in Bnst : \A j \in (d + 1) .. Last :
    /\ x.sent.mask[d][j] = 2 \/ x.sent.dpnd[d][j] = "P"
    /\ x.sent.rule[d].hasBarrier /\ j \in x.sent.rule[d].barrier
    => \A c \in (d + 1) .. (j - 1) : \A g \in (c + 1) .. (j - 1) :
         MayHead(x.sent, d, c) => x.sent.mask[d][g] \in {0, 2} /\ x.sent.dpnd[d][g] # "R"

\* The order in which cells are filled does not matter: the analyses are
\* exactly the trees without crossing arcs that respect the barriers, each of
\* them once, although barriers are set while the chart is being filled.
ChartExact ==
  (phase = "choose" /\ OptParaFix /\ OptNbest /\ OptBeam = 0)
    => /\ Len(Analyses) = Cardinality(Trees)
       /\ {Analyses[n].arcs : n \in DOMAIN Analyses} = {EntryFor(h).arcs : h \in Trees}

\* After the last round of after_cky Best_mgr holds a structure that no
\* structure exceeds, although cells were reduced to their best entries or to
\* the beam and Best_mgr is written over and over.  (For scores that are sums
\* over the arcs.)
BestChosen ==
  (phase = "after" /\ structures = <<>> /\ OptParaFix)
    => \A h \in Trees : Score(sent, OptAnalysis, EntryFor(h)) <= best.score

\* A coordination that was found is not undone by barriers, brackets or the
\* relaxation at the end: a phrase with marks depends on one of them, as long
\* as Dpnd_matrix is the one the check of the coordination has seen.  Only a
\* head given to a phrase without any (relax_dpnd_matrix) is tried whatever the
\* mask says, and may be taken instead.
MarksKept ==
  (phase = "done" /\ OptParaFix /\ Dpnd = sent.dpnd) =>
    \A d \in Bnst : LET marks == {g \in Bnst : sent.mask[d][g] = 2}
                    IN  marks # {} => bnst.head[d] \in marks \cup {g \in Bnst : sent.dpnd[d][g] = "R"}

\* The cells this attempt has closed.
ClosedCells ==
  IF phase = "fill" THEN {c \in Cells : c[2] < J \/ (c[2] = J /\ c[1] > I)} ELSE Cells

\* The second attempt runs over the chart and the table of the first one, which
\* may have stopped anywhere: what it combines has been made by itself, scored
\* as this analysis scores, and has room of its own in the table.
FreshChart ==
  phase \in {"fill", "choose", "after"} =>
    /\ \A c \in ClosedCells : \A n \in DOMAIN cky_matrix[c] :
         LET e == cky_matrix[c][n] IN e.score = Score(sent, OptAnalysis, e)
    /\ SE!MapThenSumSet(LAMBDA c : Len(cky_matrix[c]), ClosedCells) <= table_num
=============================================================================
