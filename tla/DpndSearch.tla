----------------------------- MODULE DpndSearch -----------------------------
(***************************************************************************)
(* The backtracking search for the dependency structure of one sentence:   *)
(* detect_dpnd_case_struct, decide_dpnd and what follows it in             *)
(* system/dpnd_analysis.c.                                                 *)
(*                                                                         *)
(* A sentence is a row of N phrases (bunsetsu) 0 .. N-1.  From the last    *)
(* phrase backwards every phrase is given a head further right; a phrase   *)
(* with several candidate heads makes the search branch.  decide_dpnd is a *)
(* recursive function that gets its DPND record by value, so the stack of  *)
(* its activations is modelled explicitly: an activation is a private copy *)
(* of the record plus the choices it has still to descend into.            *)
(*                                                                         *)
(* The matrices that earlier stages filled in (Mask_matrix by the analysis *)
(* of coordinations, Quote_matrix by brackets, Dpnd_matrix by the          *)
(* dependency rules) are read only here: they are the fields of `sent'.    *)
(***************************************************************************)
EXTENDS Integers, Sequences, FiniteSets

CONSTANTS
  N,            \* sp->Bnst_num, the number of phrases of the sentence
  Sentences,    \* the sentences that may come in
  Leftovers,    \* what Best_mgr->dpnd.head may hold from earlier sentences
  Score(_, _)   \* the points dpnd_evaluation gives a sentence's structure

Bnst == 0 .. N - 1
Last == N - 1

\* Dpnd_matrix: the characters a dependency rule can put in a cell.
DpndTypes == {"D", "P", "I", "A", "R", "d"}
NoDpnd == "none"

\* The value of Best_mgr->score that stands for "nothing found yet".
Floor == -10000

\* The penalty for a phrase sent to the end of the sentence for want of a head.
NoHeadPenalty == 10

Rules == [hasBarrier : BOOLEAN, barrier : SUBSET Bnst,
          decide : BOOLEAN, preference : {-1, 1, 2}]

Matrices(S) == [Bnst -> [Bnst -> S]]

\* mask 0: excluded, 1: free, 2 / 3: the head a coordination (P) or an
\* incomplete coordination (I) has already fixed.  follow: the offset of
\* the feature <kakari:mukaku-juuzoku:-k>, 0 if the phrase has none.  alike:
\* the phrases for which the third clause of check_uncertain_d_condition
\* holds.  treeFits: make_dpnd_tree has room for the nodes it adds.  caseMode:
\* OptAnalysis is OPT_CASE rather than OPT_DPND.
IsSentence(s) ==
  /\ s.mask \in Matrices(0 .. 3)
  /\ s.quote \in Matrices(BOOLEAN)
  /\ s.dpnd \in Matrices(DpndTypes \cup {NoDpnd})
  /\ s.follow \in [Bnst -> {0, -1, -2}]
  /\ s.rule \in [Bnst -> Rules]
  /\ s.alike \in [Bnst -> SUBSET Bnst]
  /\ s.treeFits \in BOOLEAN /\ s.caseMode \in BOOLEAN

\* The rules that assign the feature (rule/bnst_etc.rule:201-206) put it on a
\* phrase with a comma and let it refer to an earlier phrase without one, so a
\* phrase that follows another is never itself followed.
FollowsOK(s) ==
  \A b \in Bnst : s.follow[b] # 0 =>
     /\ b + s.follow[b] \in Bnst
     /\ s.follow[b + s.follow[b]] = 0

ASSUME NAssumption == N \in Nat \ {0}
ASSUME SentencesAssumption ==
  \A s \in Sentences : IsSentence(s) /\ FollowsOK(s)
ASSUME LeftoversAssumption == Leftovers \subseteq [Bnst -> -1 .. N - 1]

VARIABLES
  sent,         \* the sentence and its matrices
  stack,        \* activations of decide_dpnd, the innermost one first
  best,         \* sp->Best_mgr: dpnd, score, ID
  Possibility,  \* number of structures that counted
  dpndID,       \* number of structures evaluated
  bnst,         \* dpnd_head and dpnd_type of the phrases, as printed
  phase         \* "search", then "chosen", "default", "timeout" or "exit"

vars == <<sent, stack, best, Possibility, dpndID, bnst, phase>>
-----------------------------------------------------------------------------
(* One activation                                                          *)

\* A slip: the phrase next to the neighbour is not excluded.
Activation_short(dpnd, p) ==
  [pos |-> p, head |-> dpnd.head, type |-> dpnd.type, dflt |-> dpnd.dflt,
   mask |-> IF 0 <= p /\ p < N - 2
            THEN dpnd.mask \ ((p + 3) .. (dpnd.head[p + 1] - 1)) ELSE dpnd.mask,
   todo |-> {}, fresh |-> TRUE]

\* decide_dpnd(pos) starts by moving one phrase to the left and by excluding
\* what lies strictly under the arc of the phrase to its right.
Activation(dpnd, p) ==
  [pos |-> p, head |-> dpnd.head, type |-> dpnd.type, dflt |-> dpnd.dflt,
   mask |-> IF 0 <= p /\ p < N - 2
            THEN dpnd.mask \ ((p + 2) .. (dpnd.head[p + 1] - 1))
            ELSE dpnd.mask,
   todo |-> {}, fresh |-> TRUE]

FirstActivation ==
  Activation([head |-> [b \in Bnst |-> -1], type |-> [b \in Bnst |-> "D"],
              dflt |-> [b \in Bnst |-> 0], mask |-> Bnst], N - 2)

\* Phrases right of p that none of the three masks excludes.
Open(s, a) ==
  {i \in (a.pos + 1) .. Last :
     s.mask[a.pos][i] # 0 /\ s.quote[a.pos][i] /\ i \in a.mask}

\* check_uncertain_d_condition: a 'd' head is taken only if the next sure head
\* is far away, or if it is two further on and the cases in between coincide.
UncertainOK(s, a, g) ==
  LET later == {i \in Open(s, a) : i > g /\ s.dpnd[a.pos][i] = "D"}
  IN  \/ later = {}
      \/ \A i \in later : g + 2 < i
      \/ /\ g + 2 \in later
         /\ \A i \in later : g + 2 <= i
         /\ g \in s.alike[a.pos]

\* The cells that can make a candidate: every sure one, and a 'd' only if
\* nothing was met before it (d_possibility).
Sure(s, a) == {i \in Open(s, a) : s.dpnd[a.pos][i] \notin {NoDpnd, "d"}}

Unsure(s, a) ==
  {i \in Open(s, a) :
     /\ s.dpnd[a.pos][i] = "d"
     /\ \A j \in Open(s, a) : s.dpnd[a.pos][j] # NoDpnd => i <= j
     /\ UncertainOK(s, a, i)}

\* possibilities[]: the scan stops at the first phrase that matches the
\* barrier of the dependency rule once there is a candidate.
Candidates(s, a) ==
  LET found == Sure(s, a) \cup Unsure(s, a)
      rule == s.rule[a.pos]
  IN  {c \in found :
         ~ \E b \in Open(s, a) : /\ rule.hasBarrier /\ b \in rule.barrier
                                 /\ b < c
                                 /\ \E f \in found : f <= b}

Rank(c, cands) == Cardinality({d \in cands : d <= c})

DefaultPos(s, p, cands) ==
  IF s.rule[p].preference = -1 THEN Cardinality(cands) ELSE s.rule[p].preference

Abs(x) == IF x < 0 THEN -x ELSE x

Choice(to, type, dflt) == [to |-> to, type |-> type, dflt |-> dflt]

\* The parallel marks right of p; the scan takes the nearest one.
Marks(s, p) == {i \in (p + 1) .. Last : s.mask[p][i] \in {2, 3}}
-----------------------------------------------------------------------------
(* Initialisation by detect_dpnd_case_struct                               *)

Init ==
  /\ sent \in Sentences
  /\ stack = <<FirstActivation>>
  /\ \E h \in Leftovers :
       best = [head |-> h, type |-> [b \in Bnst |-> "D"],
               dflt |-> [b \in Bnst |-> 0], score |-> Floor, ID |-> -1]
  /\ Possibility = 0
  /\ dpndID = 0
  /\ bnst = [head |-> [b \in Bnst |-> -1], type |-> [b \in Bnst |-> "D"]]
  /\ phase = "search"

Top == stack[1]

\* The innermost activation has just been entered at a phrase.
Entered == phase = "search" /\ stack # <<>> /\ Top.fresh /\ Top.pos >= 0

Branch(todo) ==
  /\ stack' = <<[Top EXCEPT !.todo = todo, !.fresh = FALSE]>> \o Tail(stack)
  /\ UNCHANGED <<sent, best, Possibility, dpndID, bnst, phase>>

-----------------------------------------------------------------------------
(* What decide_dpnd does at a phrase                                       *)

\* The analysis of coordinations has fixed the head: mark it and go on.
MarkParallel ==
  /\ Entered
  /\ \E i \in Marks(sent, Top.pos) :
       /\ \A j \in Marks(sent, Top.pos) : i <= j
       /\ Branch({Choice(i, IF sent.mask[Top.pos][i] = 2 THEN "P" ELSE "I",
                         Top.dflt[Top.pos])})

\* "(daitouryou-wa) tsuitachi,": same head as an earlier phrase; the negative
\* offset is stored as the head and replaced when the structure is complete.
FollowEarlier ==
  /\ Entered
  /\ Marks(sent, Top.pos) = {}
  /\ sent.follow[Top.pos] # 0
  /\ Branch({Choice(sent.follow[Top.pos], "D", 0)})

Free(s, p) == Marks(s, p) = {} /\ s.follow[p] = 0

\* Without a barrier, or with a rule that decides, the default candidate is
\* the only one followed.
DecideUnique ==
  /\ Entered
  /\ Free(sent, Top.pos)
  /\ LET p == Top.pos
         cands == Candidates(sent, Top)
         want == DefaultPos(sent, p, cands)
     IN  /\ ~ sent.rule[p].hasBarrier \/ sent.rule[p].decide
         /\ \E c \in cands :
              /\ \/ Rank(c, cands) = want
                 \/ /\ want > Cardinality(cands)
                    /\ \A d \in cands : d <= c
              /\ Branch({Choice(c, sent.dpnd[p][c], 0)})

\* Otherwise every candidate is followed, charged with its distance from the
\* default one.
DecideAll ==
  /\ Entered
  /\ Free(sent, Top.pos)
  /\ LET p == Top.pos
         cands == Candidates(sent, Top)
         want == DefaultPos(sent, p, cands)
     IN  /\ sent.rule[p].hasBarrier /\ ~ sent.rule[p].decide
         /\ cands # {}
         /\ Branch({Choice(c, sent.dpnd[p][c], Abs(want - Rank(c, cands))) :
                      c \in cands})

\* No candidate: the phrase goes to the end of the sentence, unless a
\* coordination masks the end, in which case this branch is given up.
DecideNoHead ==
  /\ Entered
  /\ Free(sent, Top.pos)
  /\ Candidates(sent, Top) = {}
  /\ Branch(IF sent.mask[Top.pos][Last] # 0
            THEN {Choice(Last, "D", NoHeadPenalty)} ELSE {})

\* The DPND record of activation a with choice c made for its phrase.
Decided(a, c) ==
  [head |-> [a.head EXCEPT ![a.pos] = c.to],
   type |-> [a.type EXCEPT ![a.pos] = c.type],
   dflt |-> [a.dflt EXCEPT ![a.pos] = c.dflt],
   mask |-> a.mask]

\* The recursive call for the leftmost choice left.
Descend ==
  /\ phase = "search" /\ stack # <<>> /\ ~ Top.fresh
  /\ \E c \in Top.todo :
       /\ \A d \in Top.todo : c.to <= d.to
       /\ stack' = <<Activation(Decided(Top, c), Top.pos - 1),
                     [Top EXCEPT !.todo = @ \ {c}]>> \o Tail(stack)
  /\ UNCHANGED <<sent, best, Possibility, dpndID, bnst, phase>>

Return ==
  /\ phase = "search" /\ stack # <<>> /\ ~ Top.fresh /\ Top.todo = {}
  /\ stack' = Tail(stack)
  /\ UNCHANGED <<sent, best, Possibility, dpndID, bnst, phase>>

-----------------------------------------------------------------------------
(* A complete structure                                                    *)

Complete == phase = "search" /\ stack # <<>> /\ Top.pos = -1

\* The heads after the offsets have been replaced.
Resolved(head) ==
  [b \in Bnst |-> IF b # Last /\ head[b] < 0 THEN head[b + head[b]] ELSE head[b]]

\* A slip: a phrase may become its own head.
Impossible_strict(head) ==
  \E b \in Bnst \ {Last} : head[b] < 0 /\ b > head[b + head[b]]

\* The head taken over lies on the wrong side of the phrase.
Impossible(head) == \E b \in Bnst \ {Last} : head[b] < 0 /\ b >= head[b + head[b]]

DropImpossible ==
  /\ Complete
  /\ Impossible(Top.head)
  /\ stack' = Tail(stack)
  /\ UNCHANGED <<sent, best, Possibility, dpndID, bnst, phase>>

\* A slip: a structure of equal score replaces the best one.
Evaluate_ties ==
  /\ Complete
  /\ ~ Impossible(Top.head)
  /\ LET dpnd == [head |-> Resolved(Top.head), type |-> Top.type, dflt |-> Top.dflt]
         score == Score(sent, dpnd)
         counts == ~ sent.caseMode \/ sent.treeFits
         better == counts /\ score >= best.score
     IN  /\ best' = IF better
                    THEN [head |-> dpnd.head, type |-> dpnd.type,
                          dflt |-> dpnd.dflt, score |-> score,
                          ID |-> IF sent.caseMode THEN 0 ELSE dpndID]
                    ELSE best
         /\ Possibility' = IF better \/ (sent.caseMode /\ counts)
                           THEN Possibility + 1 ELSE Possibility
  /\ dpndID' = IF sent.caseMode THEN dpndID ELSE dpndID + 1
  /\ stack' = Tail(stack)
  /\ UNCHANGED <<sent, bnst, phase>>

\* dpnd_evaluation, or call_case_analysis under OPT_CASE: a structure replaces
\* the best one only if it scores more.  Under OPT_CASE every structure whose
\* tree can be built counts, under OPT_DPND only an improvement does.
Evaluate ==
  /\ Complete
  /\ ~ Impossible(Top.head)
  /\ LET dpnd == [head |-> Resolved(Top.head), type |-> Top.type, dflt |-> Top.dflt]
         score == Score(sent, dpnd)
         counts == ~ sent.caseMode \/ sent.treeFits
         better == counts /\ score > best.score
     IN  /\ best' = IF better
                    THEN [head |-> dpnd.head, type |-> dpnd.type,
                          dflt |-> dpnd.dflt, score |-> score,
                          ID |-> IF sent.caseMode THEN 0 ELSE dpndID]
                    ELSE best
         /\ Possibility' = IF better \/ (sent.caseMode /\ counts)
                           THEN Possibility + 1 ELSE Possibility
  /\ dpndID' = IF sent.caseMode THEN dpndID ELSE dpndID + 1
  /\ stack' = Tail(stack)
  /\ UNCHANGED <<sent, bnst, phase>>

-----------------------------------------------------------------------------
(* The end of the search                                                   *)

\* A slip: the last phrase is given a neighbour too.
NeighbourHeads_last ==
  [best EXCEPT !.head = [b \in Bnst |-> b + 1],
               !.type = [b \in Bnst |-> "D"], !.score = 0]

\* when_no_dpnd_struct: every phrase depends on its neighbour.  The penalties
\* of the last best structure stay behind.
NeighbourHeads ==
  [head |-> [b \in Bnst |-> IF b = Last THEN -1 ELSE b + 1],
   type |-> [b \in Bnst |-> "D"], dflt |-> best.dflt, score |-> 0, ID |-> best.ID]

\* dpnd_info_to_bnst: uncertain and relaxed dependencies are printed as 'D'.
DpndInfoToBnst(b) ==
  [head |-> b.head,
   type |-> [i \in Bnst |-> IF b.type[i] \in {"d", "R"} THEN "D" ELSE b.type[i]]]

\* after_decide_dpnd returns TRUE.
Found == Possibility # 0 /\ sent.treeFits

\* A slip: no fallback when nothing was found.
Finish_only_found ==
  /\ phase = "search" /\ stack = <<>> /\ Found
  /\ bnst' = DpndInfoToBnst(best)
  /\ phase' = "chosen"
  /\ UNCHANGED <<sent, stack, best, Possibility, dpndID>>

Finish ==
  /\ phase = "search" /\ stack = <<>>
  /\ best' = IF Found THEN best ELSE NeighbourHeads
  /\ bnst' = DpndInfoToBnst(best')
  /\ phase' = IF Found THEN "chosen" ELSE "default"
  /\ UNCHANGED <<sent, stack, Possibility, dpndID>>

\* SIGALRM before alarm(0): longjmp out of the recursion into knp_main, which
\* falls back on the neighbours; with case analysis, or if OptTimeoutExit is
\* set, the process ends.
Timeout ==
  /\ phase = "search"
  /\ stack' = <<>>
  /\ best' = NeighbourHeads
  /\ bnst' = DpndInfoToBnst(best')
  /\ phase' \in IF sent.caseMode THEN {"exit"} ELSE {"timeout", "exit"}
  /\ UNCHANGED <<sent, Possibility, dpndID>>

Step == \/ MarkParallel \/ FollowEarlier \/ DecideUnique \/ DecideAll
        \/ DecideNoHead \/ Descend \/ Return
        \/ DropImpossible \/ Evaluate \/ Finish

Done == phase # "search" /\ UNCHANGED vars

Next == Step \/ Timeout \/ Done

Spec == Init /\ [][Next]_vars

\* The process running the search is scheduled as long as it can go on; the
\* alarm may or may not go off.
FairSpec == Spec /\ WF_vars(Step)
-----------------------------------------------------------------------------
(* Properties                                                              *)

Heads == [Bnst -> -2 .. N - 1]
Types == [Bnst -> DpndTypes]
Distances == [Bnst -> Nat]

Activations ==
  [pos : -1 .. N - 1, head : Heads, type : Types, dflt : Distances,
   mask : SUBSET Bnst, fresh : BOOLEAN,
   todo : SUBSET [to : -2 .. N - 1, type : DpndTypes, dflt : Nat]]

\* Type invariant.  The search itself never leaves a negative offset in a
\* result: best and bnst hold phrases or -1.
TypeOK ==
  /\ IsSentence(sent) /\ FollowsOK(sent)
  /\ stack \in Seq(Activations)
  /\ best.head \in [Bnst -> -1 .. N - 1]
  /\ best.type \in Types
  /\ best.dflt \in Distances
  /\ Possibility \in Nat
  /\ dpndID \in Nat
  /\ bnst.head \in [Bnst -> -1 .. N - 1]
  /\ bnst.type \in Types
  /\ phase \in {"search", "chosen", "default", "timeout", "exit"}

Ended == phase # "search"

\* Whatever the matrices, the marks, the dropped branches and the moment of an
\* alarm, the structure handed on by dpnd_info_to_bnst is a tree whose root
\* is the last phrase: every other phrase has its head to its right.
HeadsRight ==
  Ended => \A b \in Bnst \ {Last} : bnst.head[b] > b

Crossing(head, b, c) == b < c /\ c < head[b] /\ head[b] < head[c]

\* Where a phrase can be attached: at its nearest mark, or else wherever its
\* mask is not 0.
Attachable(s, c) ==
  {k \in (c + 1) .. Last :
     IF Marks(s, c) # {} THEN k \in Marks(s, c) /\ \A j \in Marks(s, c) : k <= j
     ELSE s.mask[c][k] # 0}

\* What the analysis of coordinations guarantees about its marks (invariant
\* MarksNested of module ParaAnalysis): no phrase under the arc of a mark can
\* be attached beyond the end of that arc.
MarksNested(s) ==
  \A b \in Bnst : Marks(s, b) # {} =>
    \A i \in Attachable(s, b) : \A c \in (b + 1) .. (i - 1) :
      \A k \in Attachable(s, c) : k <= i

FollowsNeighbourOnly(s) == \A b \in Bnst : s.follow[b] \in {0, -1}

\* The running exclusion of dpnd.mask keeps the structure free of crossing
\* arcs, although the marks of coordinations, the attachment to the end of
\* the sentence and the taken-over heads are never tested against it.
NonCrossing ==
  Ended /\ MarksNested(sent) /\ FollowsNeighbourOnly(sent)
    => \A b, c \in Bnst : ~ Crossing(bnst.head, b, c)

\* Reference for the search: the heads a phrase may have in a structure that is
\* given as a whole, all arcs to its right being known.
Uncovered(head, p) ==
  {i \in Bnst : ~ \E q \in (p + 1) .. Last : q < i /\ i < head[q]}

Allowed(s, head, p) ==
  LET a == [pos |-> p, mask |-> Uncovered(head, p)]
      cands == Candidates(s, a)
      want == DefaultPos(s, p, cands)
  IN  IF Marks(s, p) # {}
      THEN {i \in Marks(s, p) : \A j \in Marks(s, p) : i <= j}
      ELSE IF s.follow[p] # 0 THEN {s.follow[p]}
      ELSE IF cands = {} THEN {i \in {Last} : s.mask[p][i] # 0}
      ELSE IF s.rule[p].hasBarrier /\ ~ s.rule[p].decide THEN cands
      ELSE {c \in cands : Rank(c, cands) = want
                          \/ (want > Cardinality(cands)
                              /\ Rank(c, cands) = Cardinality(cands))}

\* The heads of the last n + 1 phrases, from right to left.
Structures(s) ==
  LET grow[n \in Bnst] ==
        IF n = 0 THEN {[b \in Bnst |-> -1]}
        ELSE UNION {{[h EXCEPT ![Last - n] = i] : i \in Allowed(s, h, Last - n)} : h \in grow[n - 1]}
  IN  {h \in grow[Last] : ~ Impossible(h)}

\* An undisturbed search of decide_dpnd evaluates every admissible structure
\* exactly once, and the structure it hands on is one of them.
SearchExact ==
  phase \in {"chosen", "default"} =>
    LET all == Structures(sent)
    IN  /\ ~ sent.caseMode => dpndID = Cardinality(all)
        /\ phase = "chosen" => \E h \in all : best.head = Resolved(h)

\* What a structure given as a whole records for phrase p with head c: the type
\* printed, and how far the head is from the one the rule prefers.
ChoiceFor(s, head, p, c) ==
  LET cands == Candidates(s, [pos |-> p, mask |-> Uncovered(head, p)])
  IN  IF Marks(s, p) # {} THEN Choice(c, IF s.mask[p][c] = 2 THEN "P" ELSE "I", 0)
      ELSE IF s.follow[p] # 0 THEN Choice(c, "D", 0)
      ELSE IF cands = {} THEN Choice(c, "D", NoHeadPenalty)
      ELSE IF s.rule[p].hasBarrier /\ ~ s.rule[p].decide
           THEN Choice(c, s.dpnd[p][c], Abs(DefaultPos(s, p, cands) - Rank(c, cands)))
      ELSE Choice(c, s.dpnd[p][c], 0)

DpndOf(s, h) ==
  [head |-> Resolved(h),
   type |-> [p \in Bnst |-> IF p = Last THEN "D" ELSE ChoiceFor(s, h, p, h[p]).type],
   dflt |-> [p \in Bnst |-> IF p = Last THEN 0 ELSE ChoiceFor(s, h, p, h[p]).dflt]]

Points(s, h) == Score(s, DpndOf(s, h))

\* decide_dpnd works from right to left and tries near heads first.
Earlier(g, h) ==
  \E p \in Bnst : g[p] < h[p] /\ \A q \in Bnst : q > p => g[q] = h[q]

\* Of the structures in S, h scores most and is the first to do so.
Foremost(s, h, S) ==
  \A g \in S \ {h} :
    \/ Points(s, g) < Points(s, h)
    \/ (Points(s, g) = Points(s, h) /\ Earlier(h, g))

Stores(b, s, h) ==
  /\ b.head = DpndOf(s, h).head /\ b.type = DpndOf(s, h).type
  /\ b.dflt = DpndOf(s, h).dflt /\ b.score = Points(s, h)

\* What an undisturbed search has put in Best_mgr and dpnd_info_to_bnst copies to
\* the phrases is, heads, types and distances of one and the same structure, the
\* one of all admissible structures with the best score, the first found among
\* equals; the neighbours are taken only if no structure beats the floor (or the
\* tree has no room).
BestHanded ==
  /\ phase = "chosen" =>
       /\ \E h \in Structures(sent) :
            Stores(best, sent, h) /\ Foremost(sent, h, Structures(sent))
       /\ bnst = DpndInfoToBnst(best)
  /\ phase = "default" /\ sent.treeFits =>
       \A h \in Structures(sent) : Points(sent, h) <= Floor

\* Every search comes to an end, with or without the alarm.
Terminates == <>Ended
=============================================================================
