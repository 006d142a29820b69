------------------------------ MODULE DpndEval ------------------------------
(***************************************************************************)
(* dpnd_evaluation (system/dpnd_analysis.c): the points a complete         *)
(* dependency structure gets from the features of its phrases.  The C code *)
(* walks the dependents of every phrase i from the nearest to the farthest *)
(* and keeps flags; here each kind of points is a sum over the dependents  *)
(* the walk reaches.                                                       *)
(*                                                                         *)
(* The features of a sentence:                                             *)
(*   pred, yougen, verb, judge  phrases that are predicates at all (yougen *)
(*            or jun-yougen), yougen, verbs, copula predicates             *)
(*   kaku     the case or kind of dependency of each phrase: "mi" (topic   *)
(*            case), "no", "ga", another case, "ren" (adnominal) or "etc"  *)
(*   topic, comma, count, noun, outer   sets of phrases: daidai/teidai,    *)
(*            with a comma, time or quantity, taigen, soto-no-kankei       *)
(*   slots    SCASE_code: the surface cases a predicate takes, ga2 being   *)
(*            the second subject                                           *)
(*   teidai   the points of the feature <teidai-uke:n>, 0 without it       *)
(***************************************************************************)
EXTENDS Integers, FiniteSets, FiniteSetsExt

CaseNames == {"ga", "wo", "ni", "de", "ga2"}

Dependents(d, i) == {j \in 0 .. i - 1 : d.head[j] = i}

\* The walk over the dependents of a predicate ends at a no-phrase, unless the
\* predicate is a noun with copula.
EndsWalk(f, i, j) == i \in f.pred /\ f.kaku[j] = "no" /\ i \notin f.noun

Walked(f, d, i) ==
  {j \in Dependents(d, i) :
     ~ \E m \in Dependents(d, i) : m > j /\ EndsWalk(f, i, m)}

Sum(op(_), S) == MapThenSumSet(op, S)

Ten(S) == 10 * Cardinality(S)

\* Distance from the default head, and a comma before the neighbour.
Penalty(f, d, i) ==
  LET dist(j) == IF j \in f.topic THEN d.dflt[j] ELSE 2 * d.dflt[j]
      near == {j \in Walked(f, d, i) : j + 1 = i /\ j \in f.comma}
  IN  Sum(dist, Walked(f, d, i)) + 5 * Cardinality(near)

OfCase(f, d, i, k) == {j \in Walked(f, d, i) : f.kaku[j] = k}

\* A topic scores what the predicate offers topics, and ten more, once per
\* predicate unless it is a time or a quantity.
TopicPoints(f, d, i) ==
  LET topics == {j \in OfCase(f, d, i, "mi") : j \in f.topic}
  IN  f.teidai[i] * Cardinality(topics)
      + Ten(topics \cap f.count)
      + (IF topics \subseteq f.count THEN 0 ELSE 10)

\* The subjects that score: the first takes the ga slot; every further one
\* scores when there is a second subject slot, which is never marked as taken.
SubjectPoints(f, d, i) ==
  LET subjects == Cardinality(OfCase(f, d, i, "ga"))
      first == IF subjects > 0 /\ "ga" \in f.slots[i] THEN 1 ELSE 0
      more == IF "ga2" \in f.slots[i] THEN subjects - first ELSE 0
  IN  10 * (first + more)

\* scase_check: the cases of which a dependent was met.
Taken(f, d, i) ==
  {k \in CaseNames \ {"ga"} : OfCase(f, d, i, k) # {}}
  \cup (IF OfCase(f, d, i, "ga") # {} /\ f.slots[i] \cap {"ga", "ga2"} # {}
        THEN {"ga"} ELSE {})

CasePoints(f, d, i) ==
  Ten(OfCase(f, d, i, "mi") \cap f.count)
  + (IF i \in f.noun THEN 0 ELSE Ten(OfCase(f, d, i, "no")))
  + SubjectPoints(f, d, i)
  + Ten(Taken(f, d, i) \ {"ga"})
  + (IF i \in f.judge
     THEN 3 * Cardinality((OfCase(f, d, i, "mi") \cup OfCase(f, d, i, "ga"))
                          \cap f.yougen)
     ELSE 0)

\* A topic or the noun a predicate modifies scores while case slots are free.
\* Of the slots that count (ga, wo, ga2) the dative one is open to a modified
\* noun only, for verbs.
SlotPoints(f, d, i) ==
  LET modifies == f.kaku[i] = "ren"
      outside == modifies /\ d.head[i] \in f.outer
      rentai == IF modifies /\ ~ outside THEN 1 ELSE 0
      un == Cardinality(OfCase(f, d, i, "mi") \ f.count)
      open == {"ga", "wo", "ga2"} \cup (IF rentai = 1 /\ i \in f.verb THEN {"ni"} ELSE {})
      vacant == (f.slots[i] \cap open) \ Taken(f, d, i)
  IN  (IF outside THEN 10 ELSE 0)
      + 10 * Min({rentai + un, Cardinality(vacant)})

OneScore(f, d, i) ==
  (IF i \in f.pred
   THEN TopicPoints(f, d, i) + CasePoints(f, d, i) + SlotPoints(f, d, i)
   ELSE 0) - Penalty(f, d, i)

DpndEvaluation(f, d) ==
  LET one(i) == OneScore(f, d, i)
  IN  Sum(one, DOMAIN d.head \ {0})
=============================================================================
