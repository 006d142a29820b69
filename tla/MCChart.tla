------------------------------ MODULE MCChart ------------------------------
(* Instances of ChartParse for TLC: every pattern of dependencies, and         *)
(* sentences with a coordination, brackets, phrases that take over the head of *)
(* another one, and the features that restrict heads.  The masks are those     *)
(* check_para_d_struct (module ParaDpnd) leaves for one coordination; without  *)
(* OptParaFix its spans are in para.                                           *)
EXTENDS ChartParse, FiniteSetsExt

PD == INSTANCE ParaDpnd

Const(x) == [b \in Bnst |-> x]
Rule(hb, stops, pref) == [hasBarrier |-> hb, barrier |-> stops, preference |-> pref]

UpperCells == {<<b, c>> \in Bnst \X Bnst : b < c}
Matrix(cells, default) ==
  [b \in Bnst |-> [c \in Bnst |->
     IF <<b, c>> \in DOMAIN cells THEN cells[<<b, c>>] ELSE default]]

AllFree == Const(Const(1))
AllVisible == Const(Const(TRUE))

Sentence(mask, dpnd, rule) ==
  [mask |-> mask, quote |-> AllVisible, dpnd |-> dpnd, follow |-> Const(0), rule |-> rule,
   para |-> Const({}), badPara |-> {}, paren |-> {}, yougen |-> {2, Last}, renyou |-> {2},
   treeFits |-> TRUE]

\* Far heads of early phrases weigh more, and differently with case analysis;
\* sums over the arcs.
Weight(d, a) == IF a.to < 0 THEN 1 ELSE ((a.to - d) * (d + 2)) % 5
MCScore(s, analysis, e) ==
  MapThenSumSet(LAMBDA d : Weight(d, e.arcs[d]) + (IF analysis = "case" THEN 5 ELSE 0),
                DOMAIN e.arcs)

\* A barrier at the first head, at a phrase, never; and a mixture.
FirstHead == Const(Rule(FALSE, {}, 1))
Mixture == [b \in Bnst |-> CASE b = 0 -> Rule(TRUE, {1, 3}, 2) [] b = 1 -> Rule(FALSE, {}, -1)
                             [] OTHER -> Rule(FALSE, {}, 1)]
RuleVariants == {FirstHead, Const(Rule(TRUE, {2}, 1)), Const(Rule(TRUE, {}, 2)), Mixture}

Opts(fix, nbest, beam) ==
  [ParaFix |-> fix, Nbest |-> nbest, Beam |-> beam, Fallback |-> TRUE]

With(sentences, options) == {[sent |-> s, opt |-> o] : s \in sentences, o \in options}

FreeSentences(rules) ==
  {Sentence(AllFree, Matrix(cells, NoDpnd), r) :
     cells \in [UpperCells -> {NoDpnd, "D"}], r \in rules}

FreeInputs ==
  With(FreeSentences(RuleVariants \ {FirstHead}), {Opts(TRUE, TRUE, 0)})
    \cup With(FreeSentences({FirstHead}), {Opts(TRUE, FALSE, 0)})

-----------------------------------------------------------------------------
(* Coordinations and brackets                                              *)

\* Dependencies by distance.
Distance(S) ==
  [b \in Bnst |-> [c \in Bnst |-> IF c - b \in S THEN "D" ELSE NoDpnd]]

Dependencies == {Distance({1, 2, 3, 4}), Distance({1}), Distance({2, 4}), Distance({1, 3})}

\* Phrases without any head; relax_dpnd_matrix has given them the last phrase.
RelaxedDpnd ==
  {[D EXCEPT ![b] = [c \in Bnst |-> IF c = Last THEN "R" ELSE NoDpnd]] :
     D \in {Distance({1, 2, 3, 4}), Distance({1, 3})}, b \in 0 .. Last - 1}

Managers ==
  {[keys |-> <<1>>, parent |-> 0, child |-> <<>>, strong |-> st,
    part |-> <<[start |-> a, end |-> b], [start |-> b + 1, end |-> c]>>] :
      <<a, b, c>> \in {t \in Bnst \X Bnst \X Bnst : t[1] <= t[2] /\ t[2] < t[3]},
      st \in BOOLEAN}

CheckInput(dpnd, m) ==
  [quote |-> AllVisible, Dpnd |-> dpnd, Mask |-> AllFree, checked |-> {}, stop |-> {0},
   pred |-> {}, noun |-> {}, strong |-> IF m.strong THEN {1} ELSE {}]

\* The masks a coordination that is not sent back for revision can leave.
MasksFor(dpnd) ==
  {PD!MaskAfter(CheckInput(dpnd, m), m, PD!CheckConjuncts(CheckInput(dpnd, m), <<m>>, m)) :
     m \in {n \in Managers :
             PD!Judge(n, PD!CheckConjuncts(CheckInput(dpnd, n), <<n>>, n)) # "revise"}}

Follows == {Const(0), [Const(0) EXCEPT ![3] = -1], [Const(0) EXCEPT ![2] = -2, ![3] = -1]}

Coordinated ==
  UNION {{[Sentence(mask, dpnd, r) EXCEPT !.follow = f] :
            mask \in MasksFor(dpnd), f \in Follows, r \in RuleVariants} :
         dpnd \in Dependencies \cup RelaxedDpnd}

\* Brackets around phrases 1 .. 3, closed to phrase 0.
Bracket == [b \in Bnst |-> [c \in Bnst |->
              ~ (b = 0 /\ c \in {1, 2, 3}) /\ ~ (b \in {1, 2} /\ c = 4)]]

InBrackets ==
  {[Sentence(AllFree, dpnd, r) EXCEPT !.quote = Bracket, !.follow = f, !.paren = {1}] :
     dpnd \in Dependencies, f \in Follows, r \in RuleVariants}

MarkedSentences == Coordinated \cup InBrackets

\* Coordinations that are still open: up to two keys with one span each.
Spans(b) == {<<i, j>> \in Bnst \X Bnst : i <= b /\ b < j}

OpenSentences ==
  UNION {{[Sentence(AllFree, dpnd, r) EXCEPT
             !.para = [b \in Bnst |-> CASE b = key[1] -> {s} [] b = key[2] -> {t} [] OTHER -> {}],
             !.badPara = bad] :
            s \in Spans(key[1]), t \in Spans(key[2]), bad \in {{}, {key[2]}},
            dpnd \in {Distance({1, 2, 3, 4}), Distance({1, 3})},
            r \in {Const(Rule(FALSE, {}, 1)), Const(Rule(TRUE, {2}, 1))}} :
         key \in {<<0, 1>>, <<1, 2>>, <<1, 3>>}}

\* Keys before and at the end of brackets whose spans end at the same phrase: if
\* nothing else is possible, neither can be taken together with the other one.
OpenInBrackets ==
  {[s EXCEPT !.para = [b \in Bnst |-> CASE b = 0 -> {<<0, j>>} [] b = 3 -> {<<i, Last>>}
                                       [] OTHER -> {}]] :
     s \in InBrackets, i \in {0, 1}, j \in {3, Last}}

MarkedInputs ==
  With(MarkedSentences, {Opts(TRUE, FALSE, 0)})
    \cup With(OpenSentences \cup OpenInBrackets, {Opts(FALSE, FALSE, 2)})

MCInputs == FreeInputs \cup MarkedInputs

\* The inputs are such that the barriers of ChartExact are consistent.
ASSUME MarksAssumption == MarksDecide
=============================================================================
