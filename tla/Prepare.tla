------------------------------ MODULE Prepare ------------------------------
(***************************************************************************)
(* What one_sentence_analysis (system/main.c) does to the matrices of a    *)
(* sentence before coordinations and dependencies are analysed: the rules  *)
(* of dependency fill Dpnd_matrix (calc_dpnd_matrix), correlative          *)
(* expressions overwrite it (koou.c), brackets are paired and close cells  *)
(* of Quote_matrix (quote.c), and phrases left without a head are allowed  *)
(* to depend on the end of what they see (relax_dpnd_matrix).              *)
(*                                                                         *)
(* Features of phrases are sets of phrases; patterns of rules are the      *)
(* phrases they match.                                                     *)
(***************************************************************************)
EXTENDS Integers, Sequences, FiniteSets

CONSTANTS
  N,          \* sp->Bnst_num
  Sentences,  \* the sentences that may come in
  QUOTE_MAX   \* room for pairs of brackets, a sentinel included

Bnst == 0 .. N - 1
Last == N - 1
Cells == Bnst \X Bnst

NoDpnd == "none"
Relaxed == "R"

\* opens, closes: how many brackets begin or end at a phrase, as far as
\* features tell (two).  adn: phrases that modify a noun (renkaku, rentai,
\* no-kaku, doukaku-rentai, kakko-heiretsu).  eos: phrases that end a sentence
\* (kakari:bunmatsu).  rule: for every phrase the clauses of its dependency
\* rule in order.  koou: KoouRuleArray.
IsSentence(s) ==
  /\ s.opens \in [Bnst -> 0 .. 2] /\ s.closes \in [Bnst -> 0 .. 2]
  /\ {s.adn, s.eos} \subseteq SUBSET Bnst
  /\ \A b \in Bnst : s.rule[b] \in Seq([type : STRING, governor : SUBSET Bnst])
  /\ s.koou \in Seq([start : SUBSET Bnst, end : SUBSET Bnst, uke : SUBSET Bnst,
                     type : STRING])

ASSUME NAssumption == N \in Nat \ {0}
ASSUME LimitAssumption == QUOTE_MAX \in Nat \ {0}
ASSUME SentencesAssumption == \A s \in Sentences : IsSentence(s)

VARIABLES
  sent,   \* the sentence
  phase,  \* "matrix", "koou", "pair", "mask", "relax", "done"
  pos,    \* the phrase, or the pair of brackets, the loop has come to
  Dpnd,   \* Dpnd_matrix
  Quote,  \* Quote_matrix
  pairs,  \* quote_data: in_num and out_num, -1 where there is none
  stack,  \* brackets not closed yet, the innermost one first
  full    \* check_quote has returned CONTINUE

vars == <<sent, phase, pos, Dpnd, Quote, pairs, stack, full>>

Init ==
  /\ sent \in Sentences
  /\ phase = "matrix" /\ pos = 0
  /\ Dpnd = [c \in Cells |-> NoDpnd]
  /\ Quote = [c \in Cells |-> TRUE]
  /\ pairs = <<>> /\ stack = <<>> /\ full = FALSE
-----------------------------------------------------------------------------
(* Dependency rules and correlative expressions                            *)

\* The first clause of its dependency rule that a governor matches.
RuleType(s, i, j) ==
  LET hit == {k \in DOMAIN s.rule[i] : j \in s.rule[i][k].governor}
  IN  IF hit = {} THEN NoDpnd
      ELSE s.rule[i][CHOOSE k \in hit : \A l \in hit : k <= l].type

CalcDpndMatrix ==
  /\ phase = "matrix"
  /\ Dpnd' = [c \in Cells |-> IF c[1] < c[2] THEN RuleType(sent, c[1], c[2]) ELSE NoDpnd]
  /\ phase' = "koou" /\ pos' = 0
  /\ UNCHANGED <<sent, Quote, pairs, stack, full>>

\* check_koou: the phrases that end, or lie within, a correlation begun at i,
\* with the rule that says so; the last rule to match wins.
KoouRules(s, i, k) ==
  {r \in DOMAIN s.koou : i \in s.koou[r].start /\ k >= i
                         /\ k \in s.koou[r].end \cup s.koou[r].uke}
KoouRule(s, i, k) ==
  s.koou[CHOOSE r \in KoouRules(s, i, k) : \A q \in KoouRules(s, i, k) : q <= r]

Related(s, i) == {k \in Bnst : KoouRules(s, i, k) # {}}
Ends(s, i) == {k \in Related(s, i) : k \in KoouRule(s, i, k).end}

\* koou_m_p: some rule found an end, whatever a later rule wrote there.
HasKoou(s, i) == \E k \in Bnst : \E r \in KoouRules(s, i, k) : k \in s.koou[r].end

Lowest(S) == CHOOSE x \in S : \A y \in S : x <= y
Highest(S) == CHOOSE x \in S : \A y \in S : x >= y

\* A slip: a later correlation reopens what an earlier one has closed.
KoouMatrix_reopens(s, d, i) ==
  LET f_start == IF Ends(s, i) = {} THEN -1 ELSE Lowest(Ends(s, i))
  IN  [c \in Cells |->
         IF c[1] >= i /\ c[1] < f_start /\ c[2] > c[1]
         THEN IF c[2] \in Related(s, i) THEN KoouRule(s, i, c[2]).type ELSE NoDpnd
         ELSE IF c[1] < i /\ c[2] \in (i + 1) .. (f_start - 1)
         THEN NoDpnd ELSE d[c]]

\* change_matrix for the phrase i: its own heads are those of the correlation;
\* what lies inside does not depend beyond its end (mask_for), and nothing
\* before it depends on what lies inside (mask_back).
KoouMatrix(s, d, i) ==
  LET f_start == IF Ends(s, i) = {} THEN -1 ELSE Lowest(Ends(s, i))
      f_end == IF Ends(s, i) = {} THEN -1 ELSE Highest(Ends(s, i))
  IN  [c \in Cells |->
         IF c[1] = i /\ c[2] >= i
         THEN IF c[2] \in Related(s, i) THEN KoouRule(s, i, c[2]).type ELSE NoDpnd
         ELSE IF \/ c[1] \in (i + 1) .. (f_start - 1) /\ c[2] > f_end
                 \/ c[1] < i /\ c[2] \in (i + 1) .. (f_start - 1)
         THEN NoDpnd ELSE d[c]]

KoouPhrase ==
  /\ phase = "koou"
  /\ Dpnd' = IF HasKoou(sent, pos) THEN KoouMatrix(sent, Dpnd, pos) ELSE Dpnd
  /\ IF pos = Last THEN phase' = "pair" /\ pos' = 0
     ELSE phase' = phase /\ pos' = pos + 1
  /\ UNCHANGED <<sent, Quote, pairs, stack, full>>
-----------------------------------------------------------------------------
(* Brackets                                                                *)

\* The state of check_quote as a record, so that its steps can be composed.
Pairing == [pairs |-> pairs, stack |-> stack, full |-> full]

\* A slip: the sentinel is not counted.
NoRoom_exact(q) == Len(q.pairs) >= QUOTE_MAX

NoRoom(q) == Len(q.pairs) >= QUOTE_MAX - 1

OpenOne(q, i) ==
  IF q.full \/ NoRoom(q) THEN [q EXCEPT !.full = TRUE]
  ELSE [q EXCEPT !.pairs = Append(@, [in |-> i, out |-> -1]),
                 !.stack = <<Len(q.pairs) + 1>> \o @]

\* A slip: the innermost open bracket is looked for at the wrong end.
CloseOne_outer(q, i) ==
  IF q.full \/ (q.stack = <<>> /\ NoRoom(q)) THEN [q EXCEPT !.full = TRUE]
  ELSE IF q.stack = <<>> THEN [q EXCEPT !.pairs = Append(@, [in |-> -1, out |-> i])]
  ELSE [q EXCEPT !.pairs[q.stack[Len(q.stack)]].out = i,
                 !.stack = SubSeq(@, 1, Len(@) - 1)]

\* A closing bracket without a partner gets a pair of its own.
CloseOne(q, i) ==
  IF q.full \/ (q.stack = <<>> /\ NoRoom(q)) THEN [q EXCEPT !.full = TRUE]
  ELSE IF q.stack = <<>> THEN [q EXCEPT !.pairs = Append(@, [in |-> -1, out |-> i])]
  ELSE [q EXCEPT !.pairs[Head(q.stack)].out = i, !.stack = Tail(@)]

Times(F(_, _), q, n, i) == CASE n = 0 -> q [] n = 1 -> F(q, i) [] n = 2 -> F(F(q, i), i)

\* One phrase: what opens comes before what closes.
Paired(s, q, i) == Times(CloseOne, Times(OpenOne, q, s.opens[i], i), s.closes[i], i)

\* At the end what is not closed extends to the border of the sentence; after
\* CONTINUE nothing is completed, and nothing is masked.
PairBrackets ==
  /\ phase = "pair"
  /\ LET q == Paired(sent, Pairing, pos)
         done == pos = Last \/ q.full
     IN  /\ full' = q.full /\ stack' = q.stack
         /\ pairs' = IF done /\ ~ q.full
                     THEN [k \in DOMAIN q.pairs |->
                             [in |-> IF q.pairs[k].in = -1 THEN 0 ELSE q.pairs[k].in,
                              out |-> IF q.pairs[k].out = -1 THEN Last ELSE q.pairs[k].out]]
                     ELSE q.pairs
         /\ phase' = IF q.full THEN "relax" ELSE IF done THEN "mask" ELSE phase
         /\ pos' = IF q.full THEN 0 ELSE IF done THEN 1 ELSE pos + 1
  /\ UNCHANGED <<sent, Dpnd, Quote>>

\* mask_quote for one pair: what is outside does not look in, except that a
\* phrase that modifies a noun may see the last phrase; what is inside looks
\* no further than its end, nor beyond the end of a sentence in there.
Masked(s, p, i, j) ==
  LET start == p.in end == p.out
  IN  \/ i < start /\ j \in start .. (end - 1)
      \/ i < start /\ j = end /\ i \notin s.adn
      \/ i \in start .. (end - 1) /\ j > end
      \/ \E l \in s.eos \cap (start .. (end - 1)) : i \in start .. (l - 1) /\ j \in (l + 1) .. end

MaskQuote ==
  /\ phase = "mask"
  /\ IF pos > Len(pairs) THEN phase' = "relax" /\ pos' = 0 /\ UNCHANGED Quote
     ELSE /\ Quote' = IF pairs[pos].in = pairs[pos].out THEN Quote
                      ELSE [c \in Cells |-> Quote[c] /\ ~ Masked(sent, pairs[pos], c[1], c[2])]
          /\ phase' = phase /\ pos' = pos + 1
  /\ UNCHANGED <<sent, Dpnd, pairs, stack, full>>
-----------------------------------------------------------------------------
(* Relaxation                                                              *)

Sees(i) == {j \in (i + 1) .. Last : Quote[<<i, j>>]}
Possible(i) == {j \in Sees(i) : Dpnd[<<i, j>>] # NoDpnd}

\* The scan ends at a possible head or at the end of a sentence.
Scanned(i) ==
  {j \in Sees(i) : \A k \in Sees(i) : k < j => k \notin Possible(i) /\ k \notin sent.eos}
LastPossibility(i) == IF Scanned(i) = {} THEN i ELSE Highest(Scanned(i))

\* A slip: only the end of the sentence counts.
MayEnd_sentence(j) == j = Last

\* bunmatsu, kakari:bunmatsu or kakko-owari.
MayEnd(j) == j = Last \/ j \in sent.eos \/ sent.closes[j] > 0

Relax ==
  /\ phase = "relax"
  /\ IF pos >= Last THEN phase' = "done" /\ UNCHANGED <<pos, Dpnd>>
     ELSE /\ Dpnd' = LET j == LastPossibility(pos)
                     IN  IF Scanned(pos) \cap Possible(pos) = {} /\ MayEnd(j)
                         THEN [Dpnd EXCEPT ![<<pos, j>>] = Relaxed] ELSE Dpnd
          /\ pos' = pos + 1 /\ phase' = phase
  /\ UNCHANGED <<sent, Quote, pairs, stack, full>>

Done == phase = "done" /\ UNCHANGED vars

Next == CalcDpndMatrix \/ KoouPhrase \/ PairBrackets \/ MaskQuote \/ Relax \/ Done

Spec == Init /\ [][Next]_vars
-----------------------------------------------------------------------------
(* Properties                                                              *)

Masks == phase \in {"relax", "done"}

\* Type invariant; the last entry of quote_data stays free as a sentinel.
TypeOK ==
  /\ phase \in {"matrix", "koou", "pair", "mask", "relax", "done"}
  /\ pos \in 0 .. N + QUOTE_MAX
  /\ Quote \in [Cells -> BOOLEAN]
  /\ Len(pairs) < QUOTE_MAX /\ Len(stack) <= Len(pairs)
  /\ \A k \in DOMAIN pairs : pairs[k].in \in -1 .. Last /\ pairs[k].out \in -1 .. Last

\* Whatever brackets are missing, the ranges check_quote ends up with are nested
\* or follow each other; they may share a phrase.
QuotesNested ==
  Masks /\ ~ full =>
    \A k, l \in DOMAIN pairs :
      /\ pairs[k].in <= pairs[k].out
      /\ ~ (pairs[k].in < pairs[l].in /\ pairs[l].in < pairs[k].out
            /\ pairs[k].out < pairs[l].out)

\* relax_dpnd_matrix leaves a phrase without a visible head only if a bracket
\* opens further right and it sees nothing from there on.
RelaxedAll ==
  phase = "done" =>
    \A i \in Bnst \ {Last} : Possible(i) = {} =>
      \E k \in DOMAIN pairs : i < pairs[k].in /\ \A j \in Sees(i) : j < pairs[k].in

\* However correlations overlap, in change_matrix one begun at a phrase keeps
\* what is before it from reaching into it, and what is inside, unless it begins
\* a correlation itself, from reaching beyond it.
KoouClosed ==
  phase = "pair" => \A i \in Bnst : HasKoou(sent, i) /\ Ends(sent, i) # {} =>
    \A b \in (i + 1) .. (Lowest(Ends(sent, i)) - 1) :
      /\ \A c \in 0 .. (i - 1) : Dpnd[<<c, b>>] = NoDpnd
      /\ HasKoou(sent, b) \/ \A j \in (Highest(Ends(sent, i)) + 1) .. Last : Dpnd[<<b, j>>] = NoDpnd

=============================================================================
