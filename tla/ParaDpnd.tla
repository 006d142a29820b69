------------------------------ MODULE ParaDpnd ------------------------------
(***************************************************************************)
(* check_para_d_struct (system/para_dpnd.c): the check of one coordination *)
(* against the dependencies of the sentence.                               *)
(*                                                                         *)
(* A manager holds a coordination of two or more adjacent conjuncts        *)
(* start .. end, of which each last phrase is coordinated with the next.   *)
(* The code asks whether every phrase inside a conjunct finds a head       *)
(* there, tells incomplete coordinations (conjuncts that share the         *)
(* predicate of the final one) from wrong scopes, and writes the outcome   *)
(* into Mask_matrix: 0 for what the coordination forbids, 2 for the heads  *)
(* of conjuncts, 3 for the headless phrases of incomplete conjuncts.       *)
(* decide_dpnd (module DpndSearch) takes 2 and 3 as decided.               *)
(*                                                                         *)
(* x is the state the check works on:                                      *)
(*   x.quote, x.Dpnd, x.Mask   the three matrices                          *)
(*   x.checked                 D_check_array as a set                      *)
(*   x.stop                    phrases that end an extension               *)
(*   x.strong                  the coordinations with status 's'         *)
(*   x.pred, x.noun            phrases with the features yougen, taigen    *)
(***************************************************************************)
EXTENDS Integers, Sequences, FiniteSets, FiniteSetsExt, SequencesExt

NoEntry == "none"

(* Heads inside a conjunct                                                 *)

MayDepend(x, i, j) == x.Mask[i][j] # 0 /\ x.quote[i][j] /\ x.Dpnd[i][j] # NoEntry

\* The walk of _check_para_d_struct from end - 1 down: every phrase takes the
\* nearest head up to `end' that no arc drawn so far covers (hikousa_array).
\* A phrase of a checked coordination counts as found and covers nothing; one
\* without a head (end + 1) covers everything to its right.
NearestHeads(x, end) ==
  LET head[i \in 0 .. end - 1] ==
        LET heads == {j \in (i + 1) .. end :
                        /\ MayDepend(x, i, j)
                        /\ \A k \in (i + 1) .. (j - 1) : head[k] <= j}
        IN  IF i \in x.checked THEN i
            ELSE IF heads = {} THEN end + 1 ELSE Min(heads)
  IN  head

\* The phrases of str .. end - 1 for which D_found_array becomes FALSE.
NoHead(x, str, end) ==
  {i \in str .. (end - 1) : NearestHeads(x, end)[i] > end}

\* The same function with extend_p: the first conjunct str .. end, in which all
\* phrases have heads, is extended to the left as long as they do, down to
\* limit and not over a phrase that stops the extension.
Extended(x, str, end, limit) ==
  Min({s \in 0 .. str :
         \A i \in s .. (str - 1) : i >= limit /\ i \notin x.stop
                                 /\ i \notin NoHead(x, s, end)})

First(m) == m.part[1]
Final(m) == m.part[Len(m.part)]

\* para_extend_p: strong coordinations and those of predicates are extended.
FirstStrong(x, m) == m.keys[1] \in x.strong
ParaExtend(x, m) ==
  FirstStrong(x, m) \/ (First(m).start .. First(m).end) \cap x.pred # {}

\* parent_range: not beyond the conjunct of the parent the manager lies in; no
\* limit in the first conjunct or without a parent.
ParentRange(list, m) ==
  IF m.parent = 0 THEN 0
  ELSE LET starts == {c.start : c \in Range(Tail(list[m.parent].part))}
           left == {s \in starts : s <= First(m).start}
       IN  IF left = {} THEN 0 ELSE Max(left)

\* The walks over all conjuncts of m: the headless phrases of each conjunct and
\* the start of the first one after extension.
CheckConjuncts(x, list, m) ==
  LET nohead == [k \in DOMAIN m.part |-> NoHead(x, m.part[k].start, m.part[k].end)]
  IN  [nohead |-> nohead,
       error |-> {k \in DOMAIN m.part : nohead[k] # {}},
       start |-> IF nohead[1] = {} /\ ParaExtend(x, m)
                 THEN Extended(x, First(m).start, First(m).end, ParentRange(list, m))
                 ELSE First(m).start]
-----------------------------------------------------------------------------
(* Judging a manager                                                       *)

\* check_error_state: which coordination of the manager to revise, 0 if there
\* is no telling.
Revisable(m, error) ==
  LET last == Len(m.part)
  IN  IF last = 2 \/ error = {1} THEN m.keys[1]
      ELSE IF error = {last} THEN m.keys[Len(m.keys)]
      ELSE 0

\* The loop that pairs the headless phrases of the conjuncts: in round t it
\* asks every conjunct for a t-th one; no_more_error_here is cleared once per
\* round, not once per conjunct.
Unpaired(m, r) ==
  LET headless == [k \in DOMAIN m.part |-> Cardinality(r.nohead[k])]
  IN  \E t \in 1 .. headless[1] + 1, k \in 2 .. Len(m.part) :
        (headless[1] < t) # (\E j \in 2 .. k : headless[j] < t)

Judge(m, r) ==
  IF r.error = {} THEN "valid"
  ELSE IF m.strong /\ ~ Unpaired(m, r) THEN "partial"
  ELSE IF Revisable(m, r.error) # 0 THEN "revise"
  ELSE "unrevisable"
-----------------------------------------------------------------------------
(* The mask a checked coordination leaves                                  *)

Under(m, k) == m.part[k].start .. m.part[k].end

\* No arc from outside into a conjunct: the first one may be reached from its
\* extension, and the head of the final one from everywhere.
Enters(x, m, start, i, j) ==
  \/ i < start /\ j \in Under(m, 1)
  \/ \E k \in 2 .. Len(m.part) - 1 : i < m.part[k].start /\ j \in Under(m, k)
  \/ i < Final(m).start /\ j \in Final(m).start .. (Final(m).end - 1)
  \/ FirstStrong(x, m) /\ i < First(m).start /\ j = First(m).end

\* A slip: the final conjunct is left open.
Leaves_open(m, i, j) ==
  \E k \in 1 .. Len(m.part) - 1 : i \in Under(m, k) /\ j > m.part[k].end

\* No arc out of a conjunct; only the head of the final one may leave.
Leaves(m, i, j) ==
  \/ \E k \in 1 .. Len(m.part) - 1 : i \in Under(m, k) /\ j > m.part[k].end
  \/ i \in Final(m).start .. (Final(m).end - 1) /\ j > Final(m).end

Conjoined(m, i, j) ==
  \E k \in 1 .. Len(m.part) - 1 : i = m.part[k].end /\ j = m.part[k + 1].end

\* A headless phrase of an incomplete conjunct is marked for the head of its
\* conjunct and for the head of the final one.
Shared(m, r, i, j) ==
  \E k \in DOMAIN m.part : i \in r.nohead[k] /\ j \in {m.part[k].end, Final(m).end}

\* A slip: a conjunct is marked for the head of the final one.
MaskAfter_final(x, m, r) ==
  [i \in DOMAIN x.Mask |-> [j \in DOMAIN x.Mask |->
     IF r.error # {} /\ Shared(m, r, i, j) THEN 3
     ELSE IF j = Final(m).end /\ \E k \in 1 .. Len(m.part) - 1 : i = m.part[k].end THEN 2
     ELSE IF Enters(x, m, r.start, i, j) \/ Leaves(m, i, j) THEN 0
     ELSE x.Mask[i][j]]]

MaskAfter(x, m, r) ==
  [i \in DOMAIN x.Mask |-> [j \in DOMAIN x.Mask |->
     IF r.error # {} /\ Shared(m, r, i, j) THEN 3
     ELSE IF Conjoined(m, i, j) THEN 2
     ELSE IF Enters(x, m, r.start, i, j) \/ Leaves(m, i, j) THEN 0
     ELSE x.Mask[i][j]]]

\* In a strong coordination of nouns the dependencies on the head of a
\* conjunct are replaced by those on the head of the final one.
DpndAfter(x, m) ==
  LET e == Final(m).end
      same(i, c) == i = c.end - 1 /\ x.Dpnd[i][c.end] = x.Dpnd[e - 1][e]
      copied(i, j) == \E k \in 1 .. Len(m.part) - 1 :
                        LET c == m.part[k]
                        IN  j = c.end /\ i \in c.start .. (c.end - 1) /\ ~ same(i, c)
  IN  IF m.strong /\ \A k \in DOMAIN m.part : m.part[k].end \in x.noun
      THEN [i \in DOMAIN x.Dpnd |-> [j \in DOMAIN x.Dpnd |->
              IF copied(i, j) THEN x.Dpnd[i][e] ELSE x.Dpnd[i][j]]]
      ELSE x.Dpnd
=============================================================================
