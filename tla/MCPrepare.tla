----------------------------- MODULE MCPrepare -----------------------------
(* Instances of Prepare for TLC.                                             *)
EXTENDS Prepare, FiniteSetsExt

Const(x) == [b \in Bnst |-> x]
Clause(type, S) == [type |-> type, governor |-> S]
Koou(S, E, U) == [start |-> S, end |-> E, uke |-> U, type |-> "D"]

Sentence(opens, closes, adn, eos, rule, koou) ==
  [opens |-> opens, closes |-> closes, adn |-> adn, eos |-> eos, rule |-> rule, koou |-> koou]

\* Rules that match everything, nothing, every second phrase, predicates only.
RuleSets == {Const(<<Clause("D", Bnst)>>), Const(<<>>),
             Const(<<Clause("d", {2}), Clause("D", {2, Last})>>)}

\* Every way to put up to four brackets on the phrases.
Brackets == {f \in [Bnst -> 0 .. 2] : MapThenSumSet(LAMBDA b : f[b], Bnst) <= 2}

BracketSentences ==
  {Sentence(o, c, a, e, r, <<>>) :
     o \in Brackets, c \in Brackets, a \in {{}, {0, 2}}, e \in {{}, {2}}, r \in RuleSets}

\* Up to two correlative expressions, with and without a bracket.
KoouSets ==
  {<<>>} \cup
  {<<Koou({i}, E, U)>> : i \in 0 .. 2, E \in SUBSET (1 .. Last), U \in {{}, {3}}} \cup
  {<<Koou({i}, {e}, {}), Koou({j}, {f}, {2})>> :
     i \in Bnst, j \in Bnst, e \in Bnst, f \in Bnst}

KoouSentences ==
  {Sentence(Const(0), c, {}, {}, r, k) :
     c \in {Const(0), [Const(0) EXCEPT ![2] = 1]}, r \in RuleSets, k \in KoouSets}

MCSentences == BracketSentences \cup KoouSentences
=============================================================================
