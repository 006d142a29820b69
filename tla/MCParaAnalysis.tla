--------------------------- MODULE MCParaAnalysis ---------------------------
(* Instances of ParaAnalysis for TLC.                                        *)
EXTENDS ParaAnalysis

Arcs == {p \in Bnst \X Bnst : p[1] < p[2]}
AllVisible == [i \in Bnst |-> [j \in Bnst |-> TRUE]]
Only(S) == [i \in Bnst |-> [j \in Bnst |-> IF <<i, j>> \in S THEN "D" ELSE NoEntry]]

Plain(arcs, keys) ==
  [quote |-> AllVisible, dpnd |-> Only(arcs), keys |-> keys, quotes |-> {},
   stop |-> {}, pred |-> {}, noun |-> {}, eos |-> {}, alike |-> TRUE]

\* Every phrase may depend on every later one, and the keys take any scopes, as
\* normal coordinations.  With 0, 1, 4 and with 0, 2, 5 the managers may fail to
\* form a hierarchy.  Five keys are too many, none are too few.
ScopeSentences ==
  {[Plain(Arcs, ks) EXCEPT !.alike = FALSE] :
     ks \in {<<>>, <<0, 1, 4>>, <<0, 2, 5>>, <<0, 1, 2, 3, 4>>}}

\* A range in brackets, as mask_quote leaves it; at a phrase of `eos' a sentence
\* ends inside it.
Bracketed(s, q, eos) ==
  [s EXCEPT !.quotes = {q}, !.eos = eos,
            !.quote = [i \in Bnst |-> [j \in Bnst |->
               IF i < q.start THEN j \notin q.start .. (q.end - 1)
               ELSE IF i \in q.start .. (q.end - 1)
                    THEN j <= q.end /\ \A e \in eos : ~ (i < e /\ j > e)
                    ELSE TRUE]]]

\* A fourth key: brackets leave few scopes, but those with which the later of two
\* managers that share a conjunct writes over a mark of the other one.
FourKeys ==
  Bracketed([Plain(Arcs, <<0, 1, 4, 5>>) EXCEPT !.alike = FALSE],
            [start |-> 2, end |-> 4], {})

\* Some dependencies are impossible, phrases are predicates or nouns, stop an
\* extension, or are in brackets; one or two keys, and strong coordinations too.
\* relax_dpnd_matrix has seen to it that every phrase has some head.
Relaxed(s) ==
  \A i \in 0 .. N - 2 : \E j \in i + 1 .. N - 1 : s.quote[i][j] /\ s.dpnd[i][j] # NoEntry

\* Some arcs are missing, or all but those of some distances.
ArcSets ==
  {Arcs \ {<<0, 1>>, <<1, 2>>}, Arcs \ {<<1, 3>>, <<2, 3>>}}
    \cup {{p \in Arcs : p[2] - p[1] \in D} : D \in {{1}, {1, 3}}}

FewKeys == {<<3>>, <<2, 4>>}

StructSentences ==
  {s \in UNION {{s, [s EXCEPT !.noun = {2, 3}, !.pred = {1}, !.stop = {0}],
                   Bracketed(s, [start |-> 1, end |-> N - 1], {N - 2})} :
                  s \in {Plain(arcs, ks) : arcs \in ArcSets, ks \in FewKeys}} :
     Relaxed(s)}

MCSentences == ScopeSentences \cup {FourKeys} \cup StructSentences
=============================================================================
