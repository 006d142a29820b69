---------------------------- MODULE MCDpndSearch ----------------------------
(* Instances of DpndSearch for TLC: sentences of N phrases whose matrices    *)
(* are enumerated, scored by DpndEvaluation, and sentences with a            *)
(* coordination, brackets and phrases that take over the head of another     *)
(* one, under case analysis.  The masks are those that check_para_d_struct   *)
(* (module ParaDpnd) leaves for one coordination.                            *)
EXTENDS DpndSearch, DpndEval

PD == INSTANCE ParaDpnd

Const(x) == [b \in Bnst |-> x]
Rule(hb, stops, dec, pref) ==
  [hasBarrier |-> hb, barrier |-> stops, decide |-> dec, preference |-> pref]

\* Phrase 0 is a topic, phrase 1 has a comma, the last phrase and phrase 2
\* are predicates with a subject and an object slot, as phrase 1 is.
MCFeatures ==
  [pred |-> {1, 2, Last}, yougen |-> {1, 2, Last}, verb |-> {2}, judge |-> {Last},
   kaku |-> [b \in Bnst |-> CASE b = 0 -> "mi" [] b = 1 -> "wo"
                              [] b = Last -> "etc" [] b = 2 -> "ren"
                              [] OTHER -> "ga"],
   topic |-> {0}, comma |-> {1}, count |-> {}, noun |-> {}, outer |-> {},
   slots |-> Const({"ga", "wo"}), teidai |-> Const(0)]

\* The case analysis may prefer any structure: here the farthest heads.
MCScore(s, d) ==
  IF s.caseMode THEN MapThenSumSet(LAMBDA b : d.head[b] - 2 * d.dflt[b], Bnst)
  ELSE DpndEvaluation(MCFeatures, d)

MCLeftovers == {Const(-1), Const(0)}

UpperCells == {<<b, c>> \in Bnst \X Bnst : b < c}
Matrix(cells, default) ==
  [b \in Bnst |-> [c \in Bnst |->
     IF <<b, c>> \in DOMAIN cells THEN cells[<<b, c>>] ELSE default]]

Sentence(mask, quote, dpnd, follow, rule) ==
  [mask |-> mask, quote |-> quote, dpnd |-> dpnd, follow |-> follow,
   rule |-> rule, alike |-> Const({}), treeFits |-> TRUE, caseMode |-> TRUE]

AllFree == Const(Const(1))
AllVisible == Const(Const(TRUE))

-----------------------------------------------------------------------------
(* Without coordinations                                                   *)

RuleVariants ==
  {Const(Rule(FALSE, {}, FALSE, 1)), Const(Rule(TRUE, {}, FALSE, 1)),
   Const(Rule(FALSE, {}, FALSE, -1)), Const(Rule(TRUE, {2}, FALSE, 2)),
   Const(Rule(TRUE, {1}, TRUE, 2)), Const(Rule(TRUE, {}, FALSE, 2))}

\* Every pattern of sure, uncertain and missing dependencies of all phrases but
\* the first.
FirstRow == <<"d", "D", "none", "D">>

FreeSentences ==
  {[Sentence(AllFree, AllVisible,
             [Matrix(cells, "none") EXCEPT ![0] = [c \in Bnst |-> IF c = 0 THEN "none" ELSE FirstRow[c]]],
             Const(0), r) EXCEPT !.caseMode = FALSE] :
     cells \in [{p \in UpperCells : p[1] > 0} -> {"none", "D", "d"}],
     r \in RuleVariants}
-----------------------------------------------------------------------------
(* With case analysis                                                      *)

\* Dependencies by distance: everything, neighbours only, even distances only,
\* and uncertain neighbours before sure heads further on.
Distance(S, near) ==
  [b \in Bnst |-> [c \in Bnst |->
     IF c - b \notin S THEN NoDpnd ELSE IF c - b = 1 THEN near ELSE "D"]]

Dependencies == {Distance({1, 2, 3, 4}, "D"), Distance({1}, "D"), Distance({2, 4}, "D"),
                 Distance({1, 3}, "d"), Distance({1, 4}, "d")}

Managers ==
  {[keys |-> <<1>>, parent |-> 0, child |-> <<>>, strong |-> st,
    part |-> <<[start |-> a, end |-> b], [start |-> b + 1, end |-> c]>>] :
      <<a, b, c>> \in {t \in Bnst \X Bnst \X Bnst : t[1] <= t[2] /\ t[2] < t[3]},
      st \in BOOLEAN}

CheckInput(dpnd, m) ==
  [quote |-> AllVisible, Dpnd |-> dpnd, Mask |-> AllFree, checked |-> {}, stop |-> {0},
   pred |-> {}, noun |-> {}, strong |-> IF m.strong THEN {1} ELSE {}]

\* The masks a coordination that is not sent back for revision can leave.
MasksFor(dpnd) ==
  {PD!MaskAfter(CheckInput(dpnd, m), m, PD!CheckConjuncts(CheckInput(dpnd, m), <<m>>, m)) :
     m \in {n \in Managers :
             PD!Judge(n, PD!CheckConjuncts(CheckInput(dpnd, n), <<n>>, n)) # "revise"}}

Follows == {Const(0), [Const(0) EXCEPT ![3] = -1], [Const(0) EXCEPT ![2] = -1]}
FarFollows == {[Const(0) EXCEPT ![3] = -2], [Const(0) EXCEPT ![2] = -2]}

MarkedRules == {Const(Rule(FALSE, {}, FALSE, 1)), Const(Rule(TRUE, {3}, FALSE, 2))}

WithMask(follows) ==
  UNION {{[Sentence(mask, AllVisible, dpnd, f, r) EXCEPT !.alike = [Const({}) EXCEPT ![0] = {1}]] :
            mask \in MasksFor(dpnd), f \in follows, r \in MarkedRules} : dpnd \in Dependencies}

\* Brackets around phrases 1 .. 3, closed to phrase 0.
Bracket == [b \in Bnst |-> [c \in Bnst |->
              ~ (b = 0 /\ c \in {1, 2, 3}) /\ ~ (b \in {1, 2} /\ c = 4)]]

InBrackets ==
  {Sentence(AllFree, Bracket, dpnd, f, r) :
     dpnd \in Dependencies, f \in Follows, r \in MarkedRules}

\* A sentence whose tree has no room for the nodes of its coordinations.
TooLarge == {[s EXCEPT !.treeFits = FALSE] : s \in InBrackets}

\* Heads taken over from two phrases to the left.
FollowSentences ==
  {Sentence(AllFree, AllVisible, dpnd, f, r) :
     dpnd \in Dependencies, f \in FarFollows, r \in MarkedRules}

MCSentences ==
  FreeSentences \cup WithMask(Follows) \cup InBrackets \cup TooLarge \cup FollowSentences
=============================================================================
