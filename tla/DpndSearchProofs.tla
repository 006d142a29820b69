-------------------------- MODULE DpndSearchProofs --------------------------
(***************************************************************************)
(* Proofs about DpndSearch: its type invariant, HeadsRight, NonCrossing,   *)
(* SearchExact and BestHanded, for every length of sentence, every matrix  *)
(* and every moment of the alarm.                                          *)
(*                                                                         *)
(* What makes HeadsRight inductive is a statement about every activation   *)
(* on the stack: the phrases it has already passed have a head to their    *)
(* right, or still hold the negative offset of the phrase whose head they  *)
(* take over.  Best_mgr is good only once its score has left the floor, so *)
(* the second ingredient ties Possibility to that score.  NonCrossing      *)
(* needs more (FlatInv): the arcs drawn do not cross, and what the mask    *)
(* still offers is under none of them.                                     *)
(* SearchExact needs the whole stack (SearchInv): each activation has kept *)
(* to what the rules allow and lists what they still allow, an inner one   *)
(* stands for a choice the outer ones have taken off their lists, and the  *)
(* structures evaluated together with those left are all there are.        *)
(***************************************************************************)
EXTENDS DpndSearch, RecursionFacts, SequenceTheorems, FiniteSetTheorems, TLAPS

\* Scores are integers; under OPT_CASE, where a structure counts whatever its
\* score, they must lie above the value Best_mgr->score starts from.
Dpnds == [head : Heads, type : Types, dflt : Distances]

ScoresAboveFloor ==
  \A s \in Sentences : \A d \in Dpnds :
    Score(s, d) \in Int /\ (s.caseMode => Score(s, d) > Floor)

\* A head decide_dpnd may give phrase p.
GoodTo(s, p, t) == t \in (p + 1) .. Last \/ (s.follow[p] # 0 /\ t = s.follow[p])

GoodActs(s) ==
  {a \in Activations :
     /\ a.pos \in -1 .. N - 2
     /\ ~ a.fresh => a.pos >= 0
     /\ a.head[Last] = -1
     /\ \A b \in Bnst : b > a.pos /\ b # Last => GoodTo(s, b, a.head[b])
     /\ \A c \in a.todo : GoodTo(s, a.pos, c.to)}

RightHeads(head) == \A b \in Bnst \ {Last} : head[b] > b

BestRecords == [head : [Bnst -> -1 .. N - 1], type : Types, dflt : Distances,
                score : Int, ID : Int]

\* The inductive invariant.
BestInv ==
  /\ best \in BestRecords
  /\ best.score >= Floor
  /\ phase = "search" =>
       /\ best.score # Floor => RightHeads(best.head)
       /\ Possibility # 0 => best.score # Floor
       /\ IF sent.caseMode THEN best.ID <= 0 ELSE best.ID < dpndID

ResultInv ==
  /\ Possibility \in Nat
  /\ dpndID \in Nat
  /\ bnst \in [head : [Bnst -> -1 .. N - 1], type : Types]
  /\ phase \in {"search", "chosen", "default", "timeout", "exit"}
  /\ Ended => RightHeads(bnst.head)

IInv ==
  /\ sent \in Sentences /\ IsSentence(sent) /\ FollowsOK(sent)
  /\ stack \in Seq(GoodActs(sent))
  /\ BestInv
  /\ ResultInv
-----------------------------------------------------------------------------
(* Sequences and the bounds of phrases                                     *)

\* Replacing, pushing and popping the innermost activation of a stack stays
\* within the sequences over the same set.
LEMMA StackLemma ==
  ASSUME NEW S, NEW s \in Seq(S), s # <<>>
  PROVE  /\ s[1] \in S
         /\ Tail(s) \in Seq(S)
         /\ \A x \in S : <<x>> \o Tail(s) \in Seq(S)
         /\ \A x, y \in S : <<x, y>> \o Tail(s) \in Seq(S)
<1>1. s[1] \in S
  OBVIOUS
<1>2. Tail(s) \in Seq(S)
  OBVIOUS
<1>3. ASSUME NEW x \in S, NEW y \in S
      PROVE  <<x>> \in Seq(S) /\ <<x, y>> \in Seq(S)
  OBVIOUS
<1>4. \A u, v \in Seq(S) : u \o v \in Seq(S)
  OBVIOUS
<1> QED
  BY <1>1, <1>2, <1>3, <1>4

\* A stack of good activations is a stack of activations.
LEMMA GoodStack ==
  ASSUME NEW s, NEW q \in Seq(GoodActs(s))
  PROVE  q \in Seq(Activations)
<1>1. GoodActs(s) \subseteq Activations
  BY DEF GoodActs
<1> QED
  BY <1>1

\* There is a last phrase, and phrases are numbered from 0 to it.
LEMMA PhraseBounds ==
  /\ N \in Nat /\ N >= 1
  /\ Last \in Bnst
  /\ Last \in Int
  /\ \A b \in Bnst : b \in Int /\ 0 <= b /\ b <= Last
BY NAssumption DEF Bnst, Last

\* The number of candidates up to one of them is a natural number.
LEMMA RankNat ==
  ASSUME NEW C \in SUBSET Bnst, NEW c
  PROVE  Rank(c, C) \in Nat /\ Cardinality(C) \in Nat
<1>1. IsFiniteSet(Bnst)
  BY PhraseBounds, FS_Interval DEF Bnst
<1>2. {d \in C : d <= c} \in SUBSET Bnst
  OBVIOUS
<1>3. IsFiniteSet({d \in C : d <= c}) /\ IsFiniteSet(C)
  BY <1>1, <1>2, FS_Subset
<1> QED
  BY <1>3, FS_CardinalityType DEF Rank
-----------------------------------------------------------------------------
(* One activation                                                          *)

\* The candidates of a phrase lie to its right and have a dependency.
LEMMA CandidatesRight ==
  ASSUME NEW s, IsSentence(s), NEW a \in Activations, a.pos \in Bnst
  PROVE  /\ Candidates(s, a) \in SUBSET Bnst
         /\ \A c \in Candidates(s, a) : /\ c \in (a.pos + 1) .. Last
                                        /\ s.dpnd[a.pos][c] \in DpndTypes
<1>1. Open(s, a) \subseteq (a.pos + 1) .. Last
  BY DEF Open
<1>2. (a.pos + 1) .. Last \subseteq Bnst
  BY PhraseBounds DEF Bnst, Last
<1>3. Candidates(s, a) \subseteq Sure(s, a) \cup Unsure(s, a)
  BY DEF Candidates
<1>4. \A c \in Sure(s, a) \cup Unsure(s, a) :
        c \in Open(s, a) /\ s.dpnd[a.pos][c] # NoDpnd
  BY DEF Sure, Unsure, NoDpnd
<1>5. \A c \in Bnst : s.dpnd[a.pos][c] \in DpndTypes \cup {NoDpnd}
  BY DEF IsSentence, Matrices
<1> QED
  BY <1>1, <1>2, <1>3, <1>4, <1>5

\* Marks lie to the right, and the type of a choice is one of the six.
LEMMA MarksRight ==
  ASSUME NEW s, NEW p \in Bnst, NEW i \in Marks(s, p)
  PROVE  i \in (p + 1) .. Last
BY DEF Marks

ChoiceRecords == [to : -2 .. N - 1, type : DpndTypes, dflt : Nat]

\* A head to the right, or an offset, as the target of a choice.
LEMMA GoodChoice ==
  ASSUME NEW s, IsSentence(s), NEW p \in Bnst, NEW t, GoodTo(s, p, t)
  PROVE  t \in -2 .. N - 1
<1>1. s.follow[p] \in {0, -1, -2}
  BY DEF IsSentence
<1> QED
  BY <1>1, PhraseBounds DEF GoodTo, Bnst, Last

\* Entering the next phrase: the record that decide_dpnd is called with, one
\* choice made, is a good activation.
LEMMA Entering ==
  ASSUME NEW s, IsSentence(s), NEW a \in GoodActs(s), ~ a.fresh, NEW c \in a.todo,
         NEW d, d = Decided(a, c)
  PROVE  /\ Activation(d, a.pos - 1) \in GoodActs(s)
         /\ [a EXCEPT !.todo = @ \ {c}] \in GoodActs(s)
<1>1. /\ a \in Activations
      /\ a.pos \in 0 .. N - 2
      /\ a.head[Last] = -1
      /\ \A b \in Bnst : b > a.pos /\ b # Last => GoodTo(s, b, a.head[b])
      /\ \A e \in a.todo : GoodTo(s, a.pos, e.to)
  BY NAssumption DEF GoodActs
<1>2. a.pos \in Bnst /\ a.pos # Last
  BY <1>1, NAssumption DEF Bnst, Last
<1>3. c \in ChoiceRecords
  BY <1>1 DEF Activations, ChoiceRecords
<1>4. d.head = [a.head EXCEPT ![a.pos] = c.to] /\ d.head \in Heads
  BY <1>1, <1>2, <1>3 DEF Activations, Heads, ChoiceRecords, Decided
<1>5. /\ d.type \in Types /\ d.dflt \in Distances /\ d.mask \in SUBSET Bnst
  BY <1>1, <1>2, <1>3 DEF Activations, Types, Distances, ChoiceRecords, Decided
<1>6. Activation(d, a.pos - 1) \in Activations
  BY <1>1, <1>4, <1>5, NAssumption DEF Activation, Activations
<1>7. /\ Activation(d, a.pos - 1).pos = a.pos - 1
      /\ Activation(d, a.pos - 1).fresh = TRUE
      /\ Activation(d, a.pos - 1).todo = {}
      /\ Activation(d, a.pos - 1).head = d.head
  BY DEF Activation
<1>8. d.head[Last] = -1
  BY <1>1, <1>2, <1>4, PhraseBounds DEF Heads
<1>9. ASSUME NEW b \in Bnst, b > a.pos - 1, b # Last
      PROVE  GoodTo(s, b, d.head[b])
  <2>1. CASE b = a.pos
    BY <2>1, <1>1, <1>4 DEF Activations, Heads
  <2>2. CASE b # a.pos
    BY <2>2, <1>1, <1>4, <1>9, PhraseBounds DEF Activations, Heads, Bnst
  <2> QED
    BY <2>1, <2>2
<1>10. Activation(d, a.pos - 1) \in GoodActs(s)
  BY <1>1, <1>6, <1>7, <1>8, <1>9, NAssumption DEF GoodActs
<1>11. [a EXCEPT !.todo = @ \ {c}] \in GoodActs(s)
  BY <1>1 DEF GoodActs, Activations
<1> QED
  BY <1>10, <1>11

\* The innermost activation with the choices decide_dpnd collects.
LEMMA Collecting ==
  ASSUME NEW s, IsSentence(s), NEW a \in GoodActs(s), a.pos >= 0,
         NEW T \in SUBSET ChoiceRecords, \A c \in T : GoodTo(s, a.pos, c.to)
  PROVE  [a EXCEPT !.todo = T, !.fresh = FALSE] \in GoodActs(s)
BY DEF GoodActs, Activations, ChoiceRecords

\* The choices of each of the cases are choices.
LEMMA MakingChoice ==
  ASSUME NEW s, IsSentence(s), NEW p \in Bnst, NEW t, GoodTo(s, p, t),
         NEW y \in DpndTypes, NEW f \in Nat
  PROVE  Choice(t, y, f) \in ChoiceRecords /\ Choice(t, y, f).to = t
BY GoodChoice DEF Choice, ChoiceRecords

\* A complete structure, its offsets replaced, has all heads to the right.
LEMMA ResolvedRight ==
  ASSUME NEW s, IsSentence(s), FollowsOK(s), NEW a \in GoodActs(s), a.pos = -1,
         ~ Impossible(a.head)
  PROVE  /\ Resolved(a.head) \in [Bnst -> -1 .. N - 1]
         /\ RightHeads(Resolved(a.head))
<1>1. a.head \in Heads /\ a.head[Last] = -1
  BY DEF GoodActs, Activations
<1>2. \A b \in Bnst \ {Last} : GoodTo(s, b, a.head[b])
  BY PhraseBounds DEF GoodActs
<1>3. \A b \in Bnst \ {Last} : s.follow[b] = 0 => a.head[b] \in (b + 1) .. Last
  BY <1>2 DEF GoodTo
<1>4. ASSUME NEW b \in Bnst \ {Last}
      PROVE  Resolved(a.head)[b] \in (b + 1) .. Last
  <2>1. CASE a.head[b] < 0
    <3>1. s.follow[b] # 0 /\ a.head[b] = s.follow[b]
      BY <2>1, <1>2, PhraseBounds DEF GoodTo
    <3>2. b + a.head[b] \in Bnst /\ s.follow[b + a.head[b]] = 0
      BY <3>1 DEF FollowsOK
    <3>3. b + a.head[b] # Last
      BY <3>1, <2>1, <1>1, PhraseBounds DEF Heads
    <3>4. a.head[b + a.head[b]] \in (b + a.head[b] + 1) .. Last
      BY <3>2, <3>3, <1>3
    <3>5. ~ (b >= a.head[b + a.head[b]])
      BY <2>1 DEF Impossible
    <3>6. Resolved(a.head)[b] = a.head[b + a.head[b]]
      BY <2>1 DEF Resolved
    <3> QED
      BY <3>4, <3>5, <3>6, <1>1, PhraseBounds DEF Heads
  <2>2. CASE ~ (a.head[b] < 0)
    <3>1. Resolved(a.head)[b] = a.head[b]
      BY <2>2 DEF Resolved
    <3>2. s.follow[b] \in {0, -1, -2}
      BY DEF IsSentence
    <3> QED
      BY <3>1, <3>2, <2>2, <1>2 DEF GoodTo
  <2> QED
    BY <2>1, <2>2
<1>5. Resolved(a.head)[Last] = -1
  BY <1>1, PhraseBounds DEF Resolved
<1>6. \A b \in Bnst : Resolved(a.head)[b] \in -1 .. N - 1
  BY <1>4, <1>5, PhraseBounds DEF Last
<1>7. Resolved(a.head) \in [Bnst -> -1 .. N - 1]
  BY <1>6 DEF Resolved
<1>8. RightHeads(Resolved(a.head))
  BY <1>4, PhraseBounds DEF RightHeads
<1> QED
  BY <1>7, <1>8
-----------------------------------------------------------------------------
(* The steps                                                               *)

\* decide_dpnd at a phrase: whatever choices it collects, if they are good the
\* invariant is kept.
LEMMA BranchKeeps ==
  ASSUME IInv, Entered, NEW T \in SUBSET ChoiceRecords, Branch(T),
         \A c \in T : GoodTo(sent, Top.pos, c.to)
  PROVE  IInv'
<1>1. stack \in Seq(GoodActs(sent)) /\ stack # <<>>
  BY DEF IInv, Entered
<1>2. Top \in GoodActs(sent) /\ Top.pos >= 0
  BY <1>1, StackLemma DEF Top, Entered
<1>3. [Top EXCEPT !.todo = T, !.fresh = FALSE] \in GoodActs(sent)
  BY <1>2, Collecting DEF IInv
<1>4. stack' \in Seq(GoodActs(sent))
  BY <1>1, <1>3, StackLemma DEF Branch
<1> QED
  BY <1>4 DEF IInv, BestInv, ResultInv, Branch, Ended

\* The phrase of an activation just entered is one that needs a head.
LEMMA EnteredPhrase ==
  ASSUME IInv, Entered
  PROVE  /\ Top \in GoodActs(sent) /\ Top \in Activations
         /\ Top.pos \in Bnst /\ Top.pos # Last
         /\ Last \in (Top.pos + 1) .. Last
         /\ Top.dflt[Top.pos] \in Nat
<1>1. stack \in Seq(GoodActs(sent)) /\ stack # <<>>
  BY DEF IInv, Entered
<1>2. Top \in GoodActs(sent) /\ Top.pos >= 0
  BY <1>1, StackLemma DEF Top, Entered
<1>3. Top \in Activations /\ Top.pos \in 0 .. N - 2
  BY <1>2, NAssumption DEF GoodActs
<1>4. Top.pos \in Bnst /\ Top.pos # Last /\ Last \in (Top.pos + 1) .. Last
  BY <1>3, NAssumption DEF Bnst, Last
<1> QED
  BY <1>2, <1>3, <1>4 DEF Activations, Distances

\* MarkParallel, FollowEarlier and the three ways to take candidates.
LEMMA PhraseKeeps ==
  ASSUME IInv,
         MarkParallel \/ FollowEarlier \/ DecideUnique \/ DecideAll \/ DecideNoHead
  PROVE  IInv'
<1>e. Entered
  BY DEF MarkParallel, FollowEarlier, DecideUnique, DecideAll, DecideNoHead
<1> DEFINE p == Top.pos
           cands == Candidates(sent, Top)
<1>s. IsSentence(sent)
  BY DEF IInv
<1>p. /\ Top \in Activations /\ p \in Bnst
      /\ Last \in (p + 1) .. Last /\ Top.dflt[p] \in Nat
  BY <1>e, EnteredPhrase
<1>c. /\ cands \in SUBSET Bnst
      /\ \A c \in cands : c \in (p + 1) .. Last /\ sent.dpnd[p][c] \in DpndTypes
  BY <1>s, <1>p, CandidatesRight
<1>t. /\ \A t \in (p + 1) .. Last : GoodTo(sent, p, t)
      /\ {"D", "P", "I"} \subseteq DpndTypes
  BY DEF GoodTo, DpndTypes
<1> HIDE DEF p, cands
<1>m. \A t : GoodTo(sent, p, t) =>
        \A y \in DpndTypes, f \in Nat :
          Choice(t, y, f) \in ChoiceRecords /\ Choice(t, y, f).to = t
  BY <1>s, <1>p, MakingChoice
<1>1. CASE MarkParallel
  <2>1. PICK i \in Marks(sent, p) :
          Branch({Choice(i, IF sent.mask[p][i] = 2 THEN "P" ELSE "I", Top.dflt[p])})
    BY <1>1 DEF MarkParallel, p
  <2>2. GoodTo(sent, p, i)
    BY <2>1, <1>p, <1>t, MarksRight
  <2> DEFINE T == {Choice(i, IF sent.mask[p][i] = 2 THEN "P" ELSE "I", Top.dflt[p])}
  <2>3. (IF sent.mask[p][i] = 2 THEN "P" ELSE "I") \in DpndTypes
    BY <1>t
  <2>4. T \in SUBSET ChoiceRecords /\ \A c \in T : GoodTo(sent, p, c.to)
    BY <2>2, <2>3, <1>m, <1>p
  <2> QED
    BY <2>1, <2>4, <1>e, BranchKeeps DEF p
<1>2. CASE FollowEarlier
  <2> DEFINE T == {Choice(sent.follow[p], "D", 0)}
  <2>1. Branch(T) /\ sent.follow[p] # 0
    BY <1>2 DEF FollowEarlier, p
  <2>2. GoodTo(sent, p, sent.follow[p])
    BY <2>1 DEF GoodTo
  <2>3. T \in SUBSET ChoiceRecords /\ \A c \in T : GoodTo(sent, p, c.to)
    BY <2>2, <1>m, <1>t
  <2> QED
    BY <2>1, <2>3, <1>e, BranchKeeps DEF p
<1>3. CASE DecideUnique
  <2>1. PICK k \in cands : Branch({Choice(k, sent.dpnd[p][k], 0)})
    BY <1>3 DEF DecideUnique, p, cands
  <2> DEFINE T == {Choice(k, sent.dpnd[p][k], 0)}
  <2>2. T \in SUBSET ChoiceRecords /\ \A c \in T : GoodTo(sent, p, c.to)
    BY <2>1, <1>c, <1>m, <1>t
  <2> QED
    BY <2>1, <2>2, <1>e, BranchKeeps DEF p
<1>4. CASE DecideAll
  <2> DEFINE want == DefaultPos(sent, p, cands)
             T == {Choice(k, sent.dpnd[p][k], Abs(want - Rank(k, cands))) : k \in cands}
  <2>1. Branch(T)
    BY <1>4 DEF DecideAll, p, cands
  <2>r. Cardinality(cands) \in Nat /\ \A k \in cands : Rank(k, cands) \in Nat
    BY <1>c, RankNat
  <2>w. sent.rule[p].preference \in {-1, 1, 2}
    <3>1. sent.rule[p] \in Rules
      BY <1>s, <1>p DEF IsSentence
    <3> QED
      BY <3>1 DEF Rules
  <2>2. want \in Int
    BY <2>r, <2>w DEF DefaultPos
  <2>3. \A k \in cands : Abs(want - Rank(k, cands)) \in Nat
    <3> HIDE DEF want
    <3>1. \A k \in cands : want - Rank(k, cands) \in Int
      BY <2>2, <2>r
    <3>2. \A x \in Int : Abs(x) \in Nat
      BY DEF Abs
    <3> QED
      BY <3>1, <3>2
  <2>4. T \in SUBSET ChoiceRecords /\ \A c \in T : GoodTo(sent, p, c.to)
    <3> HIDE DEF want
    <3> QED
      BY <2>3, <1>c, <1>m, <1>t
  <2> HIDE DEF T
  <2> QED
    BY <2>1, <2>4, <1>e, BranchKeeps DEF p
<1>5. CASE DecideNoHead
  <2> DEFINE T == IF sent.mask[p][Last] # 0
                  THEN {Choice(Last, "D", NoHeadPenalty)} ELSE {}
  <2>1. Branch(T)
    BY <1>5 DEF DecideNoHead, p
  <2>2. T \in SUBSET ChoiceRecords /\ \A c \in T : GoodTo(sent, p, c.to)
    BY <1>p, <1>m, <1>t DEF NoHeadPenalty
  <2> HIDE DEF T
  <2> QED
    BY <2>1, <2>2, <1>e, BranchKeeps DEF p
<1> QED
  BY <1>1, <1>2, <1>3, <1>4, <1>5

\* The recursive call and its return.
LEMMA RecursionKeeps ==
  ASSUME IInv, Descend \/ Return \/ DropImpossible
  PROVE  IInv'
<1>1. stack \in Seq(GoodActs(sent)) /\ stack # <<>>
  BY DEF IInv, Descend, Return, DropImpossible, Complete
<1>2. Top \in GoodActs(sent) /\ Tail(stack) \in Seq(GoodActs(sent))
  BY <1>1, StackLemma DEF Top
<1>3. stack' \in Seq(GoodActs(sent))
  <2>1. CASE Descend
    <3>1. PICK c \in Top.todo :
            stack' = <<Activation(Decided(Top, c), Top.pos - 1),
                       [Top EXCEPT !.todo = @ \ {c}]>> \o Tail(stack)
      BY <2>1 DEF Descend
    <3>2. IsSentence(sent) /\ ~ Top.fresh
      BY <2>1 DEF IInv, Descend
    <3>3. /\ Activation(Decided(Top, c), Top.pos - 1) \in GoodActs(sent)
          /\ [Top EXCEPT !.todo = @ \ {c}] \in GoodActs(sent)
      BY <1>2, <3>1, <3>2, Entering
    <3> QED
      BY <1>1, <3>1, <3>3, StackLemma
  <2>2. CASE Return \/ DropImpossible
    BY <2>2, <1>2 DEF Return, DropImpossible
  <2> QED
    BY <2>1, <2>2
<1>4. UNCHANGED <<sent, best, Possibility, dpndID, bnst, phase>>
  BY DEF Descend, Return, DropImpossible
<1> QED
  BY <1>3, <1>4 DEF IInv, BestInv, ResultInv, Ended

\* dpnd_evaluation or call_case_analysis of a complete structure: what replaces
\* the best one has its heads to the right and a score above the floor.
LEMMA EvaluateKeeps ==
  ASSUME IInv, ScoresAboveFloor, Evaluate
  PROVE  IInv'
<1>1. stack \in Seq(GoodActs(sent)) /\ stack # <<>> /\ Top.pos = -1 /\ phase = "search"
  BY DEF IInv, Evaluate, Complete
<1>2. Top \in GoodActs(sent) /\ Tail(stack) \in Seq(GoodActs(sent))
  BY <1>1, StackLemma DEF Top
<1> DEFINE h == Resolved(Top.head)
           dpnd == [head |-> h, type |-> Top.type, dflt |-> Top.dflt]
           score == Score(sent, dpnd)
           counts == ~ sent.caseMode \/ sent.treeFits
           better == counts /\ score > best.score
<1>3. h \in [Bnst -> -1 .. N - 1] /\ RightHeads(h)
  BY <1>1, <1>2, ResolvedRight DEF IInv, Evaluate
<1>4. Top \in Activations
  BY <1>2 DEF GoodActs
<1> HIDE DEF h
<1>5. dpnd \in Dpnds /\ dpnd.head = h /\ dpnd.type \in Types /\ dpnd.dflt \in Distances
  <2>1. h \in Heads
    BY <1>3, NAssumption DEF Heads
  <2> QED
    BY <2>1, <1>4 DEF Activations, Dpnds
<1>6. score \in Int /\ (sent.caseMode => score > Floor)
  BY <1>5 DEF ScoresAboveFloor, IInv
<1>7. /\ best' = IF better
                 THEN [head |-> dpnd.head, type |-> dpnd.type, dflt |-> dpnd.dflt,
                       score |-> score, ID |-> IF sent.caseMode THEN 0 ELSE dpndID]
                 ELSE best
      /\ Possibility' = IF better \/ (sent.caseMode /\ counts)
                        THEN Possibility + 1 ELSE Possibility
      /\ dpndID' = IF sent.caseMode THEN dpndID ELSE dpndID + 1
      /\ stack' = Tail(stack)
      /\ UNCHANGED <<sent, bnst, phase>>
  BY DEF Evaluate, h
<1> HIDE DEF dpnd, score
<1>8. /\ best \in BestRecords /\ best.score >= Floor
      /\ best.score # Floor => RightHeads(best.head)
      /\ Possibility # 0 => best.score # Floor
      /\ dpndID \in Nat /\ Possibility \in Nat
      /\ IF sent.caseMode THEN best.ID <= 0 ELSE best.ID < dpndID
  BY <1>1 DEF IInv, BestInv, ResultInv
<1>d. sent.caseMode \in BOOLEAN /\ best.ID \in Int /\ sent' = sent
  BY <1>7, <1>8 DEF IInv, IsSentence, BestRecords
<1>9. BestInv'
  <2>1. CASE better
    <3>1. best' = [head |-> h, type |-> dpnd.type, dflt |-> dpnd.dflt,
                   score |-> score, ID |-> IF sent.caseMode THEN 0 ELSE dpndID]
      BY <1>5, <1>7, <2>1
    <3>2. best' \in BestRecords /\ best'.score = score /\ best'.head = h
      BY <3>1, <1>3, <1>5, <1>6, <1>8 DEF BestRecords
    <3>3. score > Floor
      BY <2>1, <1>6, <1>8 DEF BestRecords, Floor
    <3>4. IF sent.caseMode THEN best'.ID <= 0 ELSE best'.ID < dpndID'
      BY <3>1, <1>7, <1>8, <1>d
    <3> QED
      BY <3>2, <3>3, <3>4, <1>3, <1>6, <1>d DEF BestInv, Floor
  <2>2. CASE ~ better
    <3>1. best' = best
      BY <1>7, <2>2
    <3>2. Possibility' # 0 => best.score # Floor
      <4>1. CASE sent.caseMode /\ counts
        BY <4>1, <2>2, <1>6, <1>8 DEF BestRecords, Floor
      <4>2. CASE ~ (sent.caseMode /\ counts)
        BY <4>2, <2>2, <1>7, <1>8
      <4> QED
        BY <4>1, <4>2
    <3>3. IF sent.caseMode THEN best.ID <= 0 ELSE best.ID < dpndID'
      BY <1>7, <1>8, <1>d
    <3> QED
      BY <3>1, <3>2, <3>3, <1>8, <1>d DEF BestInv
  <2> QED
    BY <2>1, <2>2
<1>10. Possibility' \in Nat /\ dpndID' \in Nat
  BY <1>7, <1>8
<1>11. ResultInv'
  BY <1>7, <1>10 DEF IInv, ResultInv, Ended
<1> QED
  BY <1>2, <1>7, <1>9, <1>11 DEF IInv

\* when_no_dpnd_struct makes a good structure out of any.
LEMMA NeighboursRight ==
  ASSUME best \in BestRecords
  PROVE  /\ NeighbourHeads \in BestRecords
         /\ RightHeads(NeighbourHeads.head)
         /\ NeighbourHeads.score >= Floor
<1> DEFINE hd == [b \in Bnst |-> IF b = Last THEN -1 ELSE b + 1]
           ty == [b \in Bnst |-> "D"]
<1>1. hd \in [Bnst -> -1 .. N - 1]
  BY PhraseBounds DEF Bnst, Last
<1>2. ty \in Types
  BY DEF Types, DpndTypes
<1>3. NeighbourHeads = [head |-> hd, type |-> ty, dflt |-> best.dflt,
                        score |-> 0, ID |-> best.ID]
  BY DEF NeighbourHeads
<1>4. RightHeads(hd)
  BY PhraseBounds DEF RightHeads
<1> HIDE DEF hd, ty
<1> QED
  BY <1>1, <1>2, <1>3, <1>4 DEF BestRecords, Floor

\* dpnd_info_to_bnst copies heads and keeps types within the six.
LEMMA Copied ==
  ASSUME NEW r \in BestRecords
  PROVE  /\ DpndInfoToBnst(r) \in [head : [Bnst -> -1 .. N - 1], type : Types]
         /\ DpndInfoToBnst(r).head = r.head
<1> DEFINE ty == [i \in Bnst |-> IF r.type[i] \in {"d", "R"} THEN "D" ELSE r.type[i]]
<1>1. r.head \in [Bnst -> -1 .. N - 1] /\ r.type \in Types
  BY DEF BestRecords
<1>2. ty \in Types
  BY <1>1 DEF Types, DpndTypes
<1>3. DpndInfoToBnst(r) = [head |-> r.head, type |-> ty]
  BY DEF DpndInfoToBnst
<1> HIDE DEF ty
<1> QED
  BY <1>1, <1>2, <1>3

\* The end of the search, regular or by the alarm.
LEMMA EndKeeps ==
  ASSUME IInv, Finish \/ Timeout
  PROVE  IInv'
<1>1. /\ phase = "search" /\ best \in BestRecords /\ best.score >= Floor
      /\ Possibility # 0 => RightHeads(best.head)
  BY DEF IInv, BestInv, Finish, Timeout
<1>2. /\ best' \in BestRecords /\ RightHeads(best'.head) /\ best'.score >= Floor
  <2>1. (best' = best /\ Possibility # 0) \/ best' = NeighbourHeads
    BY DEF Finish, Timeout, Found
  <2> QED
    BY <2>1, <1>1, NeighboursRight
<1>3. /\ bnst' = DpndInfoToBnst(best')
      /\ phase' \in {"chosen", "default", "timeout", "exit"}
      /\ UNCHANGED <<sent, Possibility, dpndID>>
  BY DEF Finish, Timeout
<1>4. /\ bnst' \in [head : [Bnst -> -1 .. N - 1], type : Types]
      /\ RightHeads(bnst'.head)
  BY <1>2, <1>3, Copied
<1>5. stack' \in Seq(GoodActs(sent))
  <2>1. stack' = stack \/ stack' = <<>>
    BY DEF Finish, Timeout
  <2>2. <<>> \in Seq(GoodActs(sent))
    OBVIOUS
  <2> QED
    BY <2>1, <2>2 DEF IInv
<1>6. BestInv'
  BY <1>2, <1>3 DEF BestInv
<1>7. ResultInv'
  BY <1>3, <1>4 DEF IInv, ResultInv
<1> QED
  BY <1>3, <1>5, <1>6, <1>7 DEF IInv

\* detect_dpnd_case_struct starts in the invariant, whatever an earlier sentence
\* has left in Best_mgr.
LEMMA InitIInv == Init => IInv
<1> SUFFICES ASSUME Init
             PROVE  IInv
  OBVIOUS
<1>1. sent \in Sentences /\ IsSentence(sent) /\ FollowsOK(sent)
  BY SentencesAssumption DEF Init
<1>2. stack \in Seq(GoodActs(sent))
  <2> DEFINE none == [b \in Bnst |-> -1]
             ty == [b \in Bnst |-> "D"]
             zero == [b \in Bnst |-> 0]
             rest == IF 0 <= N - 2 /\ N - 2 < N - 2
                     THEN Bnst \ ((N - 2 + 2) .. (none[N - 2 + 1] - 1)) ELSE Bnst
  <2>1. none \in Heads /\ zero \in Distances /\ rest \in SUBSET Bnst
    BY NAssumption DEF Heads, Distances
  <2>2. ty \in Types
    BY DEF Types, DpndTypes
  <2>3. FirstActivation = [pos |-> N - 2, head |-> none, type |-> ty, dflt |-> zero,
                           mask |-> rest, todo |-> {}, fresh |-> TRUE]
    BY NAssumption DEF FirstActivation, Activation
  <2>4. none[Last] = -1
    BY PhraseBounds
  <2>5. \A b \in Bnst : ~ (b > N - 2 /\ b # Last)
    BY NAssumption DEF Bnst, Last
  <2> HIDE DEF none, ty, zero, rest
  <2>6. FirstActivation \in Activations
    BY <2>1, <2>2, <2>3, NAssumption DEF Activations
  <2>7. FirstActivation \in GoodActs(sent)
    BY <2>3, <2>4, <2>5, <2>6, NAssumption DEF GoodActs
  <2> QED
    BY <2>7 DEF Init
<1>3. best \in BestRecords /\ best.score = Floor /\ best.ID = -1
  <2>1. PICK h \in Leftovers :
          best = [head |-> h, type |-> [b \in Bnst |-> "D"],
                  dflt |-> [b \in Bnst |-> 0], score |-> Floor, ID |-> -1]
    BY DEF Init
  <2>2. h \in [Bnst -> -1 .. N - 1]
    BY LeftoversAssumption
  <2>3. [b \in Bnst |-> "D"] \in Types
    BY DEF Types, DpndTypes
  <2>4. [b \in Bnst |-> 0] \in Distances
    BY DEF Distances
  <2> QED
    BY <2>1, <2>2, <2>3, <2>4 DEF BestRecords, Floor
<1>4. BestInv
  BY <1>3 DEF Init, BestInv, Floor
<1>5. ResultInv
  <2>1. [b \in Bnst |-> "D"] \in Types
    BY DEF Types, DpndTypes
  <2>2. [b \in Bnst |-> -1] \in [Bnst -> -1 .. N - 1]
    BY NAssumption
  <2> QED
    BY <2>1, <2>2 DEF Init, ResultInv, Ended
<1> QED
  BY <1>1, <1>2, <1>4, <1>5 DEF IInv

\* Every step, a stuttering one included, keeps the invariant.
LEMMA NextIInv ==
  ASSUME ScoresAboveFloor, IInv, [Next]_vars
  PROVE  IInv'
<1>1. CASE MarkParallel \/ FollowEarlier \/ DecideUnique \/ DecideAll \/ DecideNoHead
  BY <1>1, PhraseKeeps
<1>2. CASE Descend \/ Return \/ DropImpossible
  BY <1>2, RecursionKeeps
<1>3. CASE Evaluate
  BY <1>3, EvaluateKeeps
<1>4. CASE Finish \/ Timeout
  BY <1>4, EndKeeps
<1>5. CASE UNCHANGED vars
  BY <1>5 DEF vars, IInv, BestInv, ResultInv, Ended
<1> QED
  BY <1>1, <1>2, <1>3, <1>4, <1>5 DEF Next, Step, Done
-----------------------------------------------------------------------------
(* Theorems                                                                *)

\* The type invariant of the search of decide_dpnd, for sentences of any
\* length: no negative offset and no phrase out of range is ever handed on.
THEOREM TypeCorrect ==
  ASSUME ScoresAboveFloor
  PROVE  Spec => []TypeOK
<1>1. IInv => TypeOK
  BY GoodStack DEF IInv, BestInv, BestRecords, ResultInv, TypeOK
<1>2. IInv /\ [Next]_vars => IInv'
  BY NextIInv
<1> QED
  BY <1>1, <1>2, InitIInv, PTL DEF Spec

\* Whatever the matrices, the marks, the branches given up, the leftovers of an
\* earlier sentence and the moment of the alarm, every phrase but the last is
\* handed on with a head to its right: the result is a tree.
THEOREM HeadsRightAlways ==
  ASSUME ScoresAboveFloor
  PROVE  Spec => []HeadsRight
<1>1. IInv => HeadsRight
  BY DEF IInv, ResultInv, RightHeads, HeadsRight
<1>2. IInv /\ [Next]_vars => IInv'
  BY NextIInv
<1> QED
  BY <1>1, <1>2, InitIInv, PTL DEF Spec
-----------------------------------------------------------------------------
(* Arcs do not cross                                                       *)
(*                                                                         *)
(* The invariant of an activation: the arcs it has drawn do not cross, its *)
(* mask holds nothing that lies under one of them, and no choice it has    *)
(* still to descend into does.  A mark is never tested against the mask;   *)
(* that it is not under an arc is what MarksNested provides, provided the  *)
(* arcs drawn so far are attached where the marks allow it.                *)

Orderly(s) == MarksNested(s) /\ FollowsNeighbourOnly(s)

NoCross(head) == \A b, c \in Bnst : ~ Crossing(head, b, c)

\* The heads decide_dpnd gives phrase q, seen against the marks.
Attached(s, q, t) == t \in Attachable(s, q) \/ (t = -1 /\ s.follow[q] = -1)

\* Phrase i lies strictly under the arc of phrase q.
Under(head, q, i) == q < i /\ i < head[q]

FlatActs(s) ==
  {a \in GoodActs(s) :
     /\ \A q \in Bnst : q > a.pos /\ q # Last => Attached(s, q, a.head[q])
     /\ \A b, c \in Bnst : b > a.pos => ~ Crossing(a.head, b, c)
     /\ a.pos >= 0 =>
          \A q \in Bnst : q > a.pos => \A i \in a.mask : ~ Under(a.head, q, i)
     /\ \A c \in a.todo :
          /\ Attached(s, a.pos, c.to)
          /\ \A q \in Bnst : q > a.pos => ~ Under(a.head, q, c.to)}

FlatInv ==
  Orderly(sent) =>
    /\ stack \in Seq(FlatActs(sent))
    /\ phase = "search" /\ best.score # Floor => NoCross(best.head)
    /\ Ended => NoCross(bnst.head)

\* The recursive call takes over what its caller knows of the arcs, adds the
\* arc just drawn, and excludes what lies under it.
LEMMA EnteringFlat ==
  ASSUME NEW s, IsSentence(s), NEW a \in FlatActs(s), ~ a.fresh, NEW c \in a.todo,
         NEW d, d = Decided(a, c)
  PROVE  /\ Activation(d, a.pos - 1) \in FlatActs(s)
         /\ [a EXCEPT !.todo = @ \ {c}] \in FlatActs(s)
<1>1. /\ a \in GoodActs(s) /\ a \in Activations
      /\ a.pos \in 0 .. N - 2
      /\ a.head \in Heads /\ a.mask \in SUBSET Bnst
      /\ a.head[Last] = -1
  BY NAssumption DEF FlatActs, GoodActs, Activations
<1>2. /\ \A q \in Bnst : q > a.pos /\ q # Last => Attached(s, q, a.head[q])
      /\ \A b, e \in Bnst : b > a.pos => ~ Crossing(a.head, b, e)
      /\ \A q \in Bnst : q > a.pos => \A i \in a.mask : ~ Under(a.head, q, i)
      /\ \A e \in a.todo :
          /\ Attached(s, a.pos, e.to)
          /\ \A q \in Bnst : q > a.pos => ~ Under(a.head, q, e.to)
  BY <1>1 DEF FlatActs
<1>3. a.pos \in Bnst /\ a.pos \in Int /\ a.pos # Last
  BY <1>1, NAssumption DEF Bnst, Last
<1>c. c.to \in -2 .. N - 1
  BY <1>1 DEF Activations
<1> DEFINE p == a.pos
           h == [a.head EXCEPT ![p] = c.to]
           n == Activation(d, p - 1)
<1>4. /\ d.head = h /\ d.mask = a.mask
      /\ h \in Heads /\ h[p] = c.to
      /\ \A q \in Bnst : q # p => h[q] = a.head[q]
  BY <1>1, <1>3, <1>c DEF Decided, Heads
<1> HIDE DEF h
<1>5. /\ n.pos = p - 1 /\ n.todo = {} /\ n.head = h
      /\ n.mask = IF 0 <= p - 1 /\ p - 1 < N - 2
                  THEN a.mask \ ((p - 1 + 2) .. (h[p - 1 + 1] - 1)) ELSE a.mask
  BY <1>4 DEF Activation
<1>6. n \in GoodActs(s) /\ [a EXCEPT !.todo = @ \ {c}] \in GoodActs(s)
  BY <1>1, Entering
<1> HIDE DEF n
<1>7. \A q \in Bnst : q > p - 1 /\ q # Last => Attached(s, q, h[q])
  BY <1>2, <1>3, <1>4, PhraseBounds
<1>8. ASSUME NEW b \in Bnst, NEW e \in Bnst, b > p - 1
      PROVE  ~ Crossing(h, b, e)
  <2>1. CASE b = p
    <3>1. e > p => ~ Under(a.head, e, c.to)
      BY <1>2
    <3> QED
      BY <2>1, <3>1, <1>3, <1>4, <1>c, PhraseBounds DEF Crossing, Under, Heads
  <2>2. CASE b # p
    <3>1. ~ Crossing(a.head, b, e)
      BY <2>2, <1>2, <1>3, <1>8, PhraseBounds
    <3> QED
      BY <2>2, <3>1, <1>3, <1>4, <1>8, PhraseBounds DEF Crossing
  <2> QED
    BY <2>1, <2>2
<1>9. ASSUME p - 1 >= 0, NEW q \in Bnst, q > p - 1, NEW i \in n.mask
      PROVE  ~ Under(h, q, i)
  <2>1. n.mask = a.mask \ ((p + 1) .. (h[p] - 1))
    BY <1>1, <1>3, <1>5, <1>9, NAssumption
  <2>2. i \in a.mask /\ i \in Bnst /\ i \in Int
    BY <2>1, <1>1, <1>9, PhraseBounds
  <2>3. CASE q = p
    BY <2>1, <2>2, <2>3, <1>3, <1>4, <1>c, <1>9 DEF Under
  <2>4. CASE q # p
    <3>1. ~ Under(a.head, q, i)
      BY <2>2, <2>4, <1>2, <1>3, <1>9, PhraseBounds
    <3> QED
      BY <3>1, <2>4, <1>4, <1>9 DEF Under
  <2> QED
    BY <2>3, <2>4
<1>10. n \in FlatActs(s)
  BY <1>5, <1>6, <1>7, <1>8, <1>9 DEF FlatActs
<1>11. [a EXCEPT !.todo = @ \ {c}] \in FlatActs(s)
  <2> DEFINE r == [a EXCEPT !.todo = @ \ {c}]
  <2>1. r.pos = a.pos /\ r.head = a.head /\ r.mask = a.mask /\ r.todo = a.todo \ {c}
    BY <1>1 DEF Activations
  <2> HIDE DEF r
  <2>2. r \in GoodActs(s)
    BY <1>6 DEF r
  <2>3. r \in FlatActs(s)
    BY <2>1, <2>2, <1>2 DEF FlatActs
  <2> QED
    BY <2>3 DEF r
<1> QED
  BY <1>10, <1>11 DEF n

\* The innermost activation with the choices decide_dpnd collects.
LEMMA CollectingFlat ==
  ASSUME NEW s, IsSentence(s), NEW a \in FlatActs(s), a.pos >= 0,
         NEW T \in SUBSET ChoiceRecords,
         \A c \in T : /\ GoodTo(s, a.pos, c.to)
                      /\ Attached(s, a.pos, c.to)
                      /\ \A q \in Bnst : q > a.pos => ~ Under(a.head, q, c.to)
  PROVE  [a EXCEPT !.todo = T, !.fresh = FALSE] \in FlatActs(s)
<1> DEFINE r == [a EXCEPT !.todo = T, !.fresh = FALSE]
<1>1. a \in GoodActs(s) /\ a \in Activations
  BY DEF FlatActs, GoodActs
<1>2. r \in GoodActs(s)
  BY <1>1, Collecting
<1>3. r.pos = a.pos /\ r.head = a.head /\ r.mask = a.mask /\ r.todo = T
  BY <1>1 DEF Activations
<1> HIDE DEF r
<1>4. r \in FlatActs(s)
  BY <1>2, <1>3 DEF FlatActs
<1> QED
  BY <1>4 DEF r

\* Replacing the offsets, each by the head of the phrase before, makes no arc
\* cross another.
LEMMA ResolvedFlat ==
  ASSUME NEW s, IsSentence(s), FollowsOK(s), Orderly(s), NEW a \in FlatActs(s),
         a.pos = -1, ~ Impossible(a.head)
  PROVE  NoCross(Resolved(a.head))
<1> DEFINE h == a.head
           R == Resolved(h)
<1>1. h \in Heads /\ h[Last] = -1
  BY DEF FlatActs, GoodActs, Activations
<1>2. \A b, c \in Bnst : ~ Crossing(h, b, c)
  BY PhraseBounds DEF FlatActs
<1>3. \A q \in Bnst : q # Last => Attached(s, q, h[q])
  BY PhraseBounds DEF FlatActs
<1>4. ASSUME NEW b \in Bnst
      PROVE  R[b] = h[b] \/ (b - 1 \in Bnst /\ R[b] = h[b - 1])
  <2>1. CASE b # Last /\ h[b] < 0
    <3>1. Attached(s, b, h[b])
      BY <2>1, <1>3
    <3>2. h[b] \notin Attachable(s, b)
      BY <2>1, PhraseBounds DEF Attachable
    <3>3. h[b] = -1 /\ s.follow[b] = -1
      BY <3>1, <3>2 DEF Attached
    <3>4. b + h[b] \in Bnst
      BY <3>3 DEF FollowsOK
    <3>5. R[b] = h[b + h[b]]
      BY <2>1 DEF Resolved
    <3>6. b + h[b] = b - 1
      BY <3>3, PhraseBounds
    <3> QED
      BY <3>4, <3>5, <3>6
  <2>2. CASE ~ (b # Last /\ h[b] < 0)
    BY <2>2 DEF Resolved
  <2> QED
    BY <2>1, <2>2
<1>5. R \in [Bnst -> -1 .. N - 1]
  BY ResolvedRight DEF FlatActs
<1> HIDE DEF R, h
<1>6. ASSUME NEW b \in Bnst, NEW c \in Bnst
      PROVE  ~ Crossing(R, b, c)
  <2>1. /\ b \in Int /\ c \in Int /\ R[b] \in Int /\ R[c] \in Int
        /\ h[b] \in Int /\ h[c] \in Int
        /\ b - 1 \in Bnst => h[b - 1] \in Int
        /\ c - 1 \in Bnst => h[c - 1] \in Int
    BY <1>1, <1>5, PhraseBounds DEF Heads
  <2>2. CASE R[b] = h[b] /\ R[c] = h[c]
    BY <2>2, <1>2 DEF Crossing
  <2>3. CASE b - 1 \in Bnst /\ R[b] = h[b - 1] /\ R[c] = h[c]
    <3>1. ~ Crossing(h, b - 1, c)
      BY <2>3, <1>2
    <3> QED
      BY <2>1, <2>3, <3>1 DEF Crossing
  <2>4. CASE R[b] = h[b] /\ c - 1 \in Bnst /\ R[c] = h[c - 1]
    <3>1. ~ Crossing(h, b, c - 1)
      BY <2>4, <1>2
    <3>2. b = c - 1 => R[b] = R[c]
      BY <2>4
    <3> QED
      BY <2>1, <2>4, <3>1, <3>2 DEF Crossing
  <2>5. CASE b - 1 \in Bnst /\ R[b] = h[b - 1] /\ c - 1 \in Bnst /\ R[c] = h[c - 1]
    <3>1. ~ Crossing(h, b - 1, c - 1)
      BY <2>5, <1>2
    <3> QED
      BY <2>1, <2>5, <3>1 DEF Crossing
  <2> QED
    BY <1>4, <2>2, <2>3, <2>4, <2>5
<1> QED
  BY <1>6 DEF NoCross, R, h

\* What is in the mask of an activation can be taken as a head, and so can the
\* nearest mark and the end of the sentence.
LEMMA FlatChoices ==
  ASSUME NEW s, IsSentence(s), Orderly(s), NEW a \in FlatActs(s), a.pos \in Bnst
  PROVE  /\ \A t \in Candidates(s, a) : Marks(s, a.pos) = {} =>
              /\ Attached(s, a.pos, t)
              /\ \A q \in Bnst : q > a.pos => ~ Under(a.head, q, t)
         /\ \A t \in Marks(s, a.pos) : (\A j \in Marks(s, a.pos) : t <= j) =>
              /\ Attached(s, a.pos, t)
              /\ \A q \in Bnst : q > a.pos => ~ Under(a.head, q, t)
         /\ Marks(s, a.pos) = {} /\ a.pos # Last /\ s.mask[a.pos][Last] # 0 =>
              /\ Attached(s, a.pos, Last)
              /\ \A q \in Bnst : q > a.pos => ~ Under(a.head, q, Last)
         /\ s.follow[a.pos] # 0 =>
              /\ Attached(s, a.pos, s.follow[a.pos])
              /\ \A q \in Bnst : q > a.pos => ~ Under(a.head, q, s.follow[a.pos])
<1> DEFINE p == a.pos
<1>1. /\ a \in Activations /\ a.head \in Heads /\ a.head[Last] = -1
      /\ p \in Int /\ p >= 0
  BY PhraseBounds DEF FlatActs, GoodActs, Activations
<1>2. /\ \A q \in Bnst : q > p /\ q # Last => Attached(s, q, a.head[q])
      /\ \A q \in Bnst : q > p => \A i \in a.mask : ~ Under(a.head, q, i)
  BY <1>1 DEF FlatActs
<1>3. ASSUME NEW t \in Candidates(s, a), Marks(s, p) = {}
      PROVE  Attached(s, p, t) /\ \A q \in Bnst : q > p => ~ Under(a.head, q, t)
  <2>1. t \in Open(s, a)
    BY DEF Candidates, Sure, Unsure
  <2>2. t \in (p + 1) .. Last /\ s.mask[p][t] # 0 /\ t \in a.mask
    BY <2>1 DEF Open
  <2>3. t \in Attachable(s, p)
    BY <2>2, <1>3 DEF Attachable
  <2> QED
    BY <2>2, <2>3, <1>2 DEF Attached
<1>4. ASSUME NEW t \in Marks(s, p), \A j \in Marks(s, p) : t <= j
      PROVE  Attached(s, p, t) /\ \A q \in Bnst : q > p => ~ Under(a.head, q, t)
  <2>1. t \in (p + 1) .. Last /\ t \in Int /\ t >= 0
    BY <1>1, PhraseBounds DEF Marks
  <2>2. t \in Attachable(s, p)
    BY <2>1, <1>4 DEF Attachable
  <2>3. ASSUME NEW q \in Bnst, q > p, Under(a.head, q, t)
        PROVE  FALSE
    <3>1. q \in (p + 1) .. (t - 1) /\ a.head[q] > t
      BY <2>1, <2>3, <1>1, PhraseBounds DEF Under, Heads
    <3>2. q # Last
      BY <3>1, <2>1, <1>1, PhraseBounds
    <3>3. a.head[q] \in Attachable(s, q)
      BY <3>1, <3>2, <2>1, <2>3, <1>2 DEF Attached
    <3>4. a.head[q] <= t
      BY <3>1, <3>3, <2>2, <1>4 DEF Orderly, MarksNested
    <3> QED
      BY <3>1, <3>4, <2>1, <1>1 DEF Heads
  <2> QED
    BY <2>2, <2>3 DEF Attached
<1>5. ASSUME Marks(s, p) = {}, p # Last, s.mask[p][Last] # 0
      PROVE  Attached(s, p, Last) /\ \A q \in Bnst : q > p => ~ Under(a.head, q, Last)
  <2>1. Last \in (p + 1) .. Last
    BY <1>1, <1>5, PhraseBounds
  <2>2. \A q \in Bnst : ~ (Last < a.head[q])
    BY <1>1, PhraseBounds DEF Heads, Last
  <2> QED
    BY <2>1, <2>2, <1>5 DEF Attached, Attachable, Under
<1>6. ASSUME s.follow[p] # 0
      PROVE  /\ Attached(s, p, s.follow[p])
             /\ \A q \in Bnst : q > p => ~ Under(a.head, q, s.follow[p])
  <2>1. s.follow[p] = -1
    BY <1>6 DEF Orderly, FollowsNeighbourOnly
  <2> QED
    BY <2>1, PhraseBounds DEF Attached, Under
<1> QED
  BY <1>3, <1>4, <1>5, <1>6

\* decide_dpnd at a phrase.
LEMMA BranchFlat ==
  ASSUME IInv, FlatInv, Entered, NEW T \in SUBSET ChoiceRecords, Branch(T),
         Orderly(sent) =>
           \A c \in T : /\ GoodTo(sent, Top.pos, c.to)
                        /\ Attached(sent, Top.pos, c.to)
                        /\ \A q \in Bnst : q > Top.pos => ~ Under(Top.head, q, c.to)
  PROVE  FlatInv'
<1>1. UNCHANGED <<sent, best, bnst, phase>>
  BY DEF Branch
<1>2. ASSUME Orderly(sent)
      PROVE  stack' \in Seq(FlatActs(sent))
  <2>1. stack \in Seq(FlatActs(sent)) /\ stack # <<>>
    BY <1>2 DEF FlatInv, Entered
  <2>2. Top \in FlatActs(sent) /\ Top.pos >= 0
    BY <2>1, StackLemma DEF Top, Entered
  <2>3. [Top EXCEPT !.todo = T, !.fresh = FALSE] \in FlatActs(sent)
    BY <1>2, <2>2, CollectingFlat DEF IInv
  <2> QED
    BY <2>1, <2>3, StackLemma DEF Branch
<1> QED
  BY <1>1, <1>2 DEF FlatInv, Ended

\* MarkParallel, FollowEarlier and the three ways to take candidates.
LEMMA PhraseFlat ==
  ASSUME IInv, FlatInv,
         MarkParallel \/ FollowEarlier \/ DecideUnique \/ DecideAll \/ DecideNoHead
  PROVE  FlatInv'
<1>e. Entered
  BY DEF MarkParallel, FollowEarlier, DecideUnique, DecideAll, DecideNoHead
<1> DEFINE p == Top.pos
           cands == Candidates(sent, Top)
           Fits(t) == /\ Attached(sent, p, t)
                      /\ \A q \in Bnst : q > p => ~ Under(Top.head, q, t)
<1>s. IsSentence(sent)
  BY DEF IInv
<1>p. /\ Top \in Activations /\ p \in Bnst /\ p # Last
      /\ Last \in (p + 1) .. Last /\ Top.dflt[p] \in Nat
  BY <1>e, EnteredPhrase
<1>c. /\ cands \in SUBSET Bnst
      /\ \A c \in cands : c \in (p + 1) .. Last /\ sent.dpnd[p][c] \in DpndTypes
  BY <1>s, <1>p, CandidatesRight
<1>t. /\ \A t \in (p + 1) .. Last : GoodTo(sent, p, t)
      /\ {"D", "P", "I"} \subseteq DpndTypes
  BY DEF GoodTo, DpndTypes
<1>f. ASSUME Orderly(sent)
      PROVE  /\ Marks(sent, p) = {} => \A t \in cands : Fits(t)
             /\ \A t \in Marks(sent, p) : (\A j \in Marks(sent, p) : t <= j) => Fits(t)
             /\ Marks(sent, p) = {} /\ sent.mask[p][Last] # 0 => Fits(Last)
             /\ sent.follow[p] # 0 => Fits(sent.follow[p])
  <2>1. stack \in Seq(FlatActs(sent)) /\ stack # <<>>
    BY <1>e, <1>f DEF FlatInv, Entered
  <2>2. Top \in FlatActs(sent)
    BY <2>1, StackLemma DEF Top
  <2> QED
    BY <2>2, <1>s, <1>p, <1>f, FlatChoices
<1> HIDE DEF p, cands, Fits
<1>b. ASSUME NEW T \in SUBSET ChoiceRecords, Branch(T),
             Orderly(sent) => \A c \in T : GoodTo(sent, p, c.to) /\ Fits(c.to)
      PROVE  FlatInv'
  BY <1>b, <1>e, BranchFlat DEF p, Fits
<1>m. \A t : GoodTo(sent, p, t) =>
        \A y \in DpndTypes, f \in Nat :
          Choice(t, y, f) \in ChoiceRecords /\ Choice(t, y, f).to = t
  BY <1>s, <1>p, MakingChoice
<1>1. CASE MarkParallel
  <2>1. PICK i \in Marks(sent, p) :
          /\ \A j \in Marks(sent, p) : i <= j
          /\ Branch({Choice(i, IF sent.mask[p][i] = 2 THEN "P" ELSE "I", Top.dflt[p])})
    BY <1>1 DEF MarkParallel, p
  <2>2. GoodTo(sent, p, i) /\ (Orderly(sent) => Fits(i))
    BY <2>1, <1>f, <1>p, <1>t, MarksRight
  <2> DEFINE T == {Choice(i, IF sent.mask[p][i] = 2 THEN "P" ELSE "I", Top.dflt[p])}
  <2>3. (IF sent.mask[p][i] = 2 THEN "P" ELSE "I") \in DpndTypes
    BY <1>t
  <2>4. T \in SUBSET ChoiceRecords
        /\ (Orderly(sent) => \A c \in T : GoodTo(sent, p, c.to) /\ Fits(c.to))
    BY <2>2, <2>3, <1>m, <1>p
  <2> QED
    BY <2>1, <2>4, <1>b
<1>2. CASE FollowEarlier
  <2> DEFINE T == {Choice(sent.follow[p], "D", 0)}
  <2>1. Branch(T) /\ sent.follow[p] # 0
    BY <1>2 DEF FollowEarlier, p
  <2>2. GoodTo(sent, p, sent.follow[p]) /\ (Orderly(sent) => Fits(sent.follow[p]))
    BY <2>1, <1>f DEF GoodTo
  <2>3. T \in SUBSET ChoiceRecords
        /\ (Orderly(sent) => \A c \in T : GoodTo(sent, p, c.to) /\ Fits(c.to))
    BY <2>2, <1>m, <1>t
  <2> QED
    BY <2>1, <2>3, <1>b
<1>3. CASE DecideUnique
  <2>1. PICK k \in cands : Branch({Choice(k, sent.dpnd[p][k], 0)})
    BY <1>3 DEF DecideUnique, p, cands
  <2>2. Marks(sent, p) = {}
    BY <1>3 DEF DecideUnique, Free, p
  <2> DEFINE T == {Choice(k, sent.dpnd[p][k], 0)}
  <2>3. GoodTo(sent, p, k) /\ (Orderly(sent) => Fits(k))
    BY <2>1, <2>2, <1>c, <1>f, <1>t
  <2>4. T \in SUBSET ChoiceRecords
        /\ (Orderly(sent) => \A c \in T : GoodTo(sent, p, c.to) /\ Fits(c.to))
    BY <2>1, <2>3, <1>c, <1>m
  <2> QED
    BY <2>1, <2>4, <1>b
<1>4. CASE DecideAll
  <2> DEFINE want == DefaultPos(sent, p, cands)
             T == {Choice(k, sent.dpnd[p][k], Abs(want - Rank(k, cands))) : k \in cands}
  <2>1. Branch(T) /\ Marks(sent, p) = {}
    BY <1>4 DEF DecideAll, Free, p, cands
  <2>r. Cardinality(cands) \in Nat /\ \A k \in cands : Rank(k, cands) \in Nat
    BY <1>c, RankNat
  <2>w. sent.rule[p].preference \in {-1, 1, 2}
    <3>1. sent.rule[p] \in Rules
      BY <1>s, <1>p DEF IsSentence
    <3> QED
      BY <3>1 DEF Rules
  <2>2. want \in Int
    BY <2>r, <2>w DEF DefaultPos
  <2>3. \A k \in cands : Abs(want - Rank(k, cands)) \in Nat
    <3> HIDE DEF want
    <3>1. \A k \in cands : want - Rank(k, cands) \in Int
      BY <2>2, <2>r
    <3>2. \A x \in Int : Abs(x) \in Nat
      BY DEF Abs
    <3> QED
      BY <3>1, <3>2
  <2>4. \A k \in cands : GoodTo(sent, p, k) /\ (Orderly(sent) => Fits(k))
    BY <2>1, <1>c, <1>f, <1>t
  <2>5. T \in SUBSET ChoiceRecords
        /\ (Orderly(sent) => \A c \in T : GoodTo(sent, p, c.to) /\ Fits(c.to))
    <3> HIDE DEF want
    <3> QED
      BY <2>3, <2>4, <1>c, <1>m
  <2> HIDE DEF T
  <2> QED
    BY <2>1, <2>5, <1>b
<1>5. CASE DecideNoHead
  <2> DEFINE T == IF sent.mask[p][Last] # 0
                  THEN {Choice(Last, "D", NoHeadPenalty)} ELSE {}
  <2>1. Branch(T) /\ Marks(sent, p) = {}
    BY <1>5 DEF DecideNoHead, Free, p
  <2>2. GoodTo(sent, p, Last)
        /\ (Orderly(sent) /\ sent.mask[p][Last] # 0 => Fits(Last))
    BY <2>1, <1>f, <1>p, <1>t
  <2>3. T \in SUBSET ChoiceRecords
        /\ (Orderly(sent) => \A c \in T : GoodTo(sent, p, c.to) /\ Fits(c.to))
    BY <2>2, <1>m, <1>t DEF NoHeadPenalty
  <2> HIDE DEF T
  <2> QED
    BY <2>1, <2>3, <1>b
<1> QED
  BY <1>1, <1>2, <1>3, <1>4, <1>5

\* The recursive call, its return, and the evaluation of what is complete.
LEMMA RecursionFlat ==
  ASSUME IInv, FlatInv, Descend \/ Return \/ DropImpossible \/ Evaluate
  PROVE  FlatInv'
<1>1. stack # <<>> /\ phase = "search" /\ UNCHANGED <<sent, bnst, phase>>
  BY DEF Descend, Return, DropImpossible, Evaluate, Complete
<1> SUFFICES ASSUME Orderly(sent)
             PROVE  /\ stack' \in Seq(FlatActs(sent))
                    /\ best'.score # Floor => NoCross(best'.head)
  BY <1>1 DEF FlatInv, Ended
<1>2. /\ stack \in Seq(FlatActs(sent))
      /\ best.score # Floor => NoCross(best.head)
  BY <1>1 DEF FlatInv
<1>3. Top \in FlatActs(sent) /\ Tail(stack) \in Seq(FlatActs(sent))
  BY <1>1, <1>2, StackLemma DEF Top
<1>4. CASE Descend
  <2>1. PICK c \in Top.todo :
          stack' = <<Activation(Decided(Top, c), Top.pos - 1),
                     [Top EXCEPT !.todo = @ \ {c}]>> \o Tail(stack)
    BY <1>4 DEF Descend
  <2>2. IsSentence(sent) /\ ~ Top.fresh /\ best' = best
    BY <1>4 DEF IInv, Descend
  <2>3. /\ Activation(Decided(Top, c), Top.pos - 1) \in FlatActs(sent)
        /\ [Top EXCEPT !.todo = @ \ {c}] \in FlatActs(sent)
    BY <1>3, <2>1, <2>2, EnteringFlat
  <2> QED
    BY <1>1, <1>2, <2>1, <2>2, <2>3, StackLemma
<1>5. CASE Return \/ DropImpossible
  BY <1>5, <1>2, <1>3 DEF Return, DropImpossible
<1>6. CASE Evaluate
  <2>1. Top.pos = -1 /\ ~ Impossible(Top.head) /\ stack' = Tail(stack)
    BY <1>6 DEF Evaluate, Complete
  <2>2. Top \in Activations
    BY <1>3 DEF FlatActs, GoodActs
  <2>3. NoCross(Resolved(Top.head))
    BY <1>3, <2>1, ResolvedFlat DEF IInv
  <2>4. best' = best \/ best'.head = Resolved(Top.head)
    <3> DEFINE dpnd == [Top EXCEPT !.head = Resolved(Top.head)]
    <3>1. dpnd.head = Resolved(Top.head)
      BY <2>2 DEF Activations
    <3>2. best' = best \/ best'.head = dpnd.head
      BY <1>6 DEF Evaluate
    <3> QED
      BY <3>1, <3>2
  <2> QED
    BY <1>2, <1>3, <2>1, <2>3, <2>4
<1> QED
  BY <1>4, <1>5, <1>6

\* The end of the search: neighbours do not cross either.
LEMMA EndFlat ==
  ASSUME IInv, FlatInv, Finish \/ Timeout
  PROVE  FlatInv'
<1>1. /\ phase = "search" /\ best \in BestRecords
      /\ Possibility # 0 => best.score # Floor
  BY DEF IInv, BestInv, Finish, Timeout
<1>2. /\ bnst' = DpndInfoToBnst(best') /\ phase' # "search" /\ sent' = sent
      /\ (best' = best /\ Possibility # 0) \/ best' = NeighbourHeads
      /\ stack' = stack \/ stack' = <<>>
  BY DEF Finish, Timeout, Found
<1>3. NoCross(NeighbourHeads.head)
  <2>1. NeighbourHeads.head = [b \in Bnst |-> IF b = Last THEN -1 ELSE b + 1]
    BY DEF NeighbourHeads
  <2>2. \A b \in Bnst : NeighbourHeads.head[b] <= b + 1
    BY <2>1, PhraseBounds
  <2>3. \A b \in Bnst : NeighbourHeads.head[b] \in Int
    BY <2>1, PhraseBounds
  <2> QED
    BY <2>2, <2>3, PhraseBounds DEF NoCross, Crossing
<1>4. bnst'.head = best'.head
  BY <1>2 DEF DpndInfoToBnst
<1>5. ASSUME Orderly(sent)
      PROVE  stack' \in Seq(FlatActs(sent)) /\ NoCross(bnst'.head)
  <2>1. <<>> \in Seq(FlatActs(sent))
    OBVIOUS
  <2>2. stack \in Seq(FlatActs(sent)) /\ (best.score # Floor => NoCross(best.head))
    BY <1>1, <1>5 DEF FlatInv
  <2> QED
    BY <2>1, <2>2, <1>1, <1>2, <1>3, <1>4
<1> QED
  BY <1>2, <1>5 DEF FlatInv

\* The first activation has drawn no arc.
LEMMA InitFlat == Init => FlatInv
<1> SUFFICES ASSUME Init, Orderly(sent)
             PROVE  stack \in Seq(FlatActs(sent))
  <2>1. Init => phase = "search" /\ best.score = Floor
    BY DEF Init
  <2> QED
    BY <2>1 DEF FlatInv, Ended
<1>1. FirstActivation \in GoodActs(sent)
  <2>1. stack \in Seq(GoodActs(sent)) /\ stack = <<FirstActivation>>
    BY InitIInv DEF Init, IInv
  <2>2. stack # <<>> /\ stack[1] = FirstActivation
    BY <2>1
  <2> QED
    BY <2>1, <2>2, StackLemma
<1>2. /\ FirstActivation.head = [b \in Bnst |-> -1]
      /\ FirstActivation.pos = N - 2
      /\ FirstActivation.todo = {}
  BY DEF FirstActivation, Activation
<1>3. \A b \in Bnst : ~ (b > N - 2 /\ b # Last)
  BY NAssumption DEF Bnst, Last
<1>4. \A b \in Bnst : FirstActivation.head[b] = -1
  BY <1>2
<1>5. ASSUME NEW h, \A b \in Bnst : h[b] = -1, NEW q \in Bnst, NEW i \in Bnst
      PROVE  ~ Crossing(h, q, i) /\ ~ Under(h, q, i)
  BY <1>5, PhraseBounds DEF Crossing, Under
<1>6. FirstActivation.mask \in SUBSET Bnst
  BY <1>1 DEF GoodActs, Activations
<1>7. FirstActivation \in FlatActs(sent)
  BY <1>1, <1>2, <1>3, <1>4, <1>5, <1>6 DEF FlatActs
<1> QED
  BY <1>7 DEF Init

\* If the marks of coordinations are nested, as the analysis of coordinations
\* leaves them, and taken-over heads are those of the phrase before, the
\* structure that dpnd_info_to_bnst hands on has no crossing arcs: for every
\* length of sentence, whatever decide_dpnd has dropped or the alarm cut short.
THEOREM NonCrossingAlways ==
  ASSUME ScoresAboveFloor
  PROVE  Spec => []NonCrossing
<1>1. IInv /\ FlatInv => NonCrossing
  BY DEF FlatInv, Orderly, NoCross, NonCrossing
<1>2. IInv /\ [Next]_vars => IInv'
  BY NextIInv
<1>3. ASSUME IInv, FlatInv, [Next]_vars
      PROVE  FlatInv'
  <2>1. CASE MarkParallel \/ FollowEarlier \/ DecideUnique \/ DecideAll \/ DecideNoHead
    BY <2>1, <1>3, PhraseFlat
  <2>2. CASE Descend \/ Return \/ DropImpossible \/ Evaluate
    BY <2>2, <1>3, RecursionFlat
  <2>3. CASE Finish \/ Timeout
    BY <2>3, <1>3, EndFlat
  <2>4. CASE UNCHANGED vars
    BY <2>4, <1>3 DEF vars, FlatInv, Ended
  <2> QED
    BY <1>3, <2>1, <2>2, <2>3, <2>4 DEF Next, Step, Done
<1> QED
  BY <1>1, <1>2, <1>3, InitIInv, InitFlat, PTL DEF Spec
-----------------------------------------------------------------------------
(* The structures the search has to find                                   *)

\* What the reference says of the candidates of a phrase depends on nothing but
\* the phrase and what is not covered.
LEMMA CandidatesSame ==
  ASSUME NEW s, NEW a, NEW b, a.pos = b.pos, a.mask = b.mask
  PROVE  Candidates(s, a) = Candidates(s, b)
<1>1. Open(s, a) = Open(s, b)
  BY Zenon DEF Open
<1>2. Sure(s, a) = Sure(s, b)
  BY <1>1, Zenon DEF Sure
<1>3. \A g : UncertainOK(s, a, g) <=> UncertainOK(s, b, g)
  BY <1>1, Zenon DEF UncertainOK
<1>4. Unsure(s, a) = Unsure(s, b)
  BY <1>1, <1>3, Zenon DEF Unsure
<1> QED
  BY <1>1, <1>2, <1>4, Zenon DEF Candidates

\* The heads allowed for a phrase depend on the heads to its right.
LEMMA AllowedSame ==
  ASSUME NEW s, NEW p \in Bnst, NEW g, NEW h, \A q \in Bnst : q > p => g[q] = h[q]
  PROVE  Allowed(s, g, p) = Allowed(s, h, p)
<1>1. \A q \in (p + 1) .. Last : q \in Bnst /\ q > p
  BY PhraseBounds DEF Bnst, Last
<1>2. Uncovered(g, p) = Uncovered(h, p)
  BY <1>1, Zenon DEF Uncovered
<1> QED
  BY <1>2, Zenon DEF Allowed

\* So does what is recorded for the phrase.
LEMMA ChoiceSame ==
  ASSUME NEW s, NEW p \in Bnst, NEW g, NEW h, \A q \in Bnst : q > p => g[q] = h[q], NEW c
  PROVE  ChoiceFor(s, g, p, c) = ChoiceFor(s, h, p, c)
<1>1. \A q \in (p + 1) .. Last : q \in Bnst /\ q > p
  BY PhraseBounds DEF Bnst, Last
<1>2. Uncovered(g, p) = Uncovered(h, p)
  BY <1>1, Zenon DEF Uncovered
<1> QED
  BY <1>2, Zenon DEF ChoiceFor

\* The candidates of a phrase lie to its right.
LEMMA CandidatesLater ==
  ASSUME NEW s, NEW a, a.pos \in Bnst
  PROVE  Candidates(s, a) \in SUBSET Bnst /\ \A c \in Candidates(s, a) : c > a.pos
<1>1. Open(s, a) \subseteq (a.pos + 1) .. Last
  BY DEF Open
<1>2. \A c \in (a.pos + 1) .. Last : c \in Bnst /\ c > a.pos
  BY PhraseBounds DEF Bnst, Last
<1>3. Candidates(s, a) \subseteq Open(s, a)
  BY Zenon DEF Candidates, Sure, Unsure
<1> QED
  BY <1>1, <1>2, <1>3

\* So do the heads it is allowed, unless it takes over another one's.
LEMMA AllowedIn ==
  ASSUME NEW s, IsSentence(s), NEW h, NEW p \in Bnst
  PROVE  Allowed(s, h, p) \subseteq -2 .. N - 1
<1> DEFINE a == [pos |-> p, mask |-> Uncovered(h, p)]
           cands == Candidates(s, a)
<1>1. a.pos = p
  OBVIOUS
<1>2. cands \subseteq -2 .. N - 1
  BY <1>1, CandidatesLater, NAssumption DEF Bnst
<1>3. s.follow[p] \in -2 .. N - 1 /\ Last \in -2 .. N - 1
  BY NAssumption DEF IsSentence, Last
<1>4. Marks(s, p) \subseteq -2 .. N - 1
  BY NAssumption DEF Marks, Last, Bnst
<1>5. Allowed(s, h, p) =
        IF Marks(s, p) # {}
        THEN {i \in Marks(s, p) : \A j \in Marks(s, p) : i <= j}
        ELSE IF s.follow[p] # 0 THEN {s.follow[p]}
        ELSE IF cands = {} THEN {i \in {Last} : s.mask[p][i] # 0}
        ELSE IF s.rule[p].hasBarrier /\ ~ s.rule[p].decide THEN cands
        ELSE {c \in cands : Rank(c, cands) = DefaultPos(s, p, cands)
                            \/ (DefaultPos(s, p, cands) > Cardinality(cands)
                                /\ Rank(c, cands) = Cardinality(cands))}
  BY Zenon DEF Allowed
<1> HIDE DEF cands
<1> QED
  BY <1>2, <1>3, <1>4, <1>5, Zenon

\* Numbering candidates from left to right.
LEMMA RankFacts ==
  ASSUME NEW C \in SUBSET Bnst, NEW c \in C
  PROVE  /\ Rank(c, C) \in Nat /\ Cardinality(C) \in Nat /\ Rank(c, C) <= Cardinality(C)
         /\ Rank(c, C) = Cardinality(C) <=> \A d \in C : d <= c
         /\ \A d \in C : Rank(c, C) = Rank(d, C) => c = d
<1> DEFINE Up(x) == {d \in C : d <= x}
<1>1. IsFiniteSet(C)
  <2>1. IsFiniteSet(Bnst)
    BY PhraseBounds, FS_Interval DEF Bnst
  <2> QED
    BY <2>1, FS_Subset
<1>2. \A x : /\ IsFiniteSet(Up(x)) /\ Cardinality(Up(x)) <= Cardinality(C)
             /\ Cardinality(C) = Cardinality(Up(x)) => C = Up(x)
  BY <1>1, FS_Subset
<1>3. \A x : Rank(x, C) = Cardinality(Up(x))
  BY Zenon DEF Rank
<1>4. Rank(c, C) \in Nat /\ Cardinality(C) \in Nat
  BY RankNat
<1>5. ASSUME NEW x \in C, NEW y \in C, x < y, Cardinality(Up(x)) = Cardinality(Up(y))
      PROVE  FALSE
  <2>1. \A d \in Bnst : d \in Int
    BY PhraseBounds
  <2>2. Up(x) \in SUBSET Up(y)
    BY <1>5, <2>1
  <2>3. Up(y) = Up(x)
    BY <1>2, <1>5, <2>2, FS_Subset
  <2>4. y \in Up(y)
    BY <2>1
  <2> QED
    BY <1>5, <2>1, <2>3, <2>4
<1>6. ASSUME NEW d \in C, Rank(c, C) = Rank(d, C)
      PROVE  c = d
  <2>1. c \in Int /\ d \in Int
    BY PhraseBounds
  <2>2. Cardinality(Up(c)) = Cardinality(Up(d))
    BY <1>3, <1>6, Zenon
  <2> HIDE DEF Up
  <2>3. ~ (c < d) /\ ~ (d < c)
    BY <1>5, <2>2
  <2> QED
    BY <2>1, <2>3
<1>7. (\A d \in C : d <= c) => Up(c) = C
  OBVIOUS
<1>8. Up(c) = C => \A d \in C : d <= c
  OBVIOUS
<1> HIDE DEF Up
<1>9. Rank(c, C) = Cardinality(C) <=> Up(c) = C
  BY <1>2, <1>3, Zenon
<1>10. Rank(c, C) <= Cardinality(C)
  BY <1>2, <1>3, Zenon
<1> QED
  BY <1>4, <1>6, <1>7, <1>8, <1>9, <1>10, Zenon

\* A structure given as a whole: every phrase has a head that the rules allow it,
\* the heads to its right being what they are.
IsStructure(s, h) ==
  /\ h \in Heads /\ h[Last] = -1
  /\ \A b \in Bnst : b # Last => h[b] \in Allowed(s, h, b)
  /\ ~ Impossible(h)

\* There are finitely many structures.
LEMMA HeadsFinite == IsFiniteSet(Heads)
<1> DEFINE C == Bnst \X (-2 .. N - 1)
           F == [h \in Heads |-> {x \in C : x[2] = h[x[1]]}]
<1>1. IsFiniteSet(Bnst) /\ IsFiniteSet(-2 .. N - 1)
  BY PhraseBounds, NAssumption, FS_Interval DEF Bnst
<1>2. IsFiniteSet(C)
  BY <1>1, FS_Product
<1>3. IsFiniteSet(SUBSET C)
  BY <1>2, FS_SUBSET
<1>4. F \in [Heads -> SUBSET C]
  OBVIOUS
<1>5. ASSUME NEW g \in Heads, NEW h \in Heads, F[g] = F[h]
      PROVE  g = h
  <2>1. ASSUME NEW b \in Bnst
        PROVE  g[b] = h[b]
    <3>1. g[b] \in -2 .. N - 1
      BY DEF Heads
    <3>2. <<b, g[b]>> \in F[g]
      BY <3>1
    <3>3. <<b, g[b]>> \in F[h]
      BY <1>5, <3>2
    <3> QED
      BY <3>3
  <2> QED
    BY <2>1 DEF Heads
<1> HIDE DEF F, C
<1>6. F \in Injection(Heads, SUBSET C)
  BY <1>4, <1>5, Zenon DEF Injection, IsInjective
<1> QED
  BY <1>3, <1>6, FS_Injection

\* The recursion that gives the last phrases their heads, one after the other.
Grows(s, grow) ==
  grow = [n \in Bnst |->
            IF n = 0 THEN {[b \in Bnst |-> -1]}
            ELSE UNION {{[h EXCEPT ![Last - n] = i] : i \in Allowed(s, h, Last - n)} : h \in grow[n - 1]}]

\* The equation of that recursion has a solution.
LEMMA GrowExists ==
  ASSUME NEW s, IsSentence(s)
  PROVE  \E grow : Grows(s, grow)
<1> DEFINE S == SUBSET Heads
           x == {[b \in Bnst |-> -1]}
           Next1(n, H) == UNION {{[h EXCEPT ![Last - n] = i] : i \in Allowed(s, h, Last - n)} : h \in H}
           G == [n \in Nat |-> [H \in S |-> IF n \in 1 .. Last THEN Next1(n, H) ELSE H]]
<1>1. x \in S /\ 0 \in Nat /\ Last \in Nat /\ 0 <= Last /\ Bnst = 0 .. Last
  BY NAssumption DEF Heads, Last, Bnst
<1>2. ASSUME NEW n \in 1 .. Last, NEW H \in S
      PROVE  Next1(n, H) \in S
  <2>1. Last - n \in Bnst
    BY <1>1
  <2>2. ASSUME NEW h \in H, NEW i \in Allowed(s, h, Last - n)
        PROVE  [h EXCEPT ![Last - n] = i] \in Heads
    <3>1. i \in -2 .. N - 1
      BY <2>1, AllowedIn
    <3> QED
      BY <2>1, <3>1 DEF Heads
  <2> QED
    BY <2>2
<1>3. G \in [Nat -> [S -> S]]
  <2> HIDE DEF Next1
  <2>1. \A n \in Nat : \A H \in S : (IF n \in 1 .. Last THEN Next1(n, H) ELSE H) \in S
    <3> HIDE DEF S
    <3> QED
      BY <1>2
  <2> HIDE DEF S
  <2>2. \A n \in Nat : [H \in S |-> IF n \in 1 .. Last THEN Next1(n, H) ELSE H] \in [S -> S]
    BY <2>1, Zenon
  <2> QED
    BY <2>2, Zenon
<1> HIDE DEF S, x
<1>4. ASSUME NEW n \in 1 .. Last, NEW H \in S
      PROVE  G[n][H] = Next1(n, H)
  <2>1. n \in Nat
    OBVIOUS
  <2> HIDE DEF Next1
  <2> QED
    BY <2>1, Zenon
<1> HIDE DEF G
<1>5. PICK g : Recursive(g, 0, Last, x, G)
  BY <1>1, <1>3, RecursionExists
<1>6. \A n \in 0 .. Last : g[n] \in S
  BY <1>1, <1>3, <1>5, RecursionStays
<1>7. /\ g[0] = x
      /\ \A n \in 1 .. Last : g[n] = G[n][g[n - 1]]
  BY <1>1, <1>5, RecursionValues
<1>8. ASSUME NEW n \in 0 .. Last
      PROVE  g[n] = IF n = 0 THEN x ELSE Next1(n, g[n - 1])
  <2>1. n # 0 => n \in 1 .. Last /\ n - 1 \in 0 .. Last
    BY <1>1
  <2> HIDE DEF Next1
  <2>2. n # 0 => g[n] = Next1(n, g[n - 1])
    BY <1>4, <1>6, <1>7, <2>1, Zenon
  <2> QED
    BY <1>7, <2>2, Zenon
<1>9. g = [n \in 0 .. Last |-> g[n]]
  BY <1>5, Zenon DEF Recursive
<1>10. g = [n \in Bnst |-> IF n = 0 THEN x ELSE Next1(n, g[n - 1])]
  <2> HIDE DEF Next1
  <2> QED
    BY <1>1, <1>8, <1>9, Zenon
<1> QED
  BY <1>10, Zenon DEF Grows, x

\* After n steps: the phrases further left have no head yet.
Grown(s, n) ==
  {h \in Heads : /\ h[Last] = -1
                 /\ \A b \in Bnst : b < Last - n => h[b] = -1
                 /\ \A b \in Bnst : Last - n <= b /\ b # Last => h[b] \in Allowed(s, h, b)}

\* A head given to the next phrase: from what is grown to what is grown.
LEMMA GrowsOn ==
  ASSUME NEW s, IsSentence(s), NEW n \in 1 .. Last
  PROVE  UNION {{[h EXCEPT ![Last - n] = i] : i \in Allowed(s, h, Last - n)} : h \in Grown(s, n - 1)}
           = Grown(s, n)
<1> DEFINE p == Last - n
<1>1. p \in Bnst /\ p # Last /\ Last - n = p /\ Last - (n - 1) = p + 1 /\ p \in Int /\ Last \in Bnst
  BY NAssumption DEF Last, Bnst
<1>2. \A b \in Bnst : b \in Int /\ (b < p + 1 <=> b < p \/ b = p) /\ (p + 1 <= b <=> b > p)
  BY <1>1 DEF Bnst
<1>3. \A b \in Bnst : p <= b <=> b = p \/ b > p
  BY <1>1, <1>2
<1> HIDE DEF p
<1>4. ASSUME NEW g \in Heads, NEW i \in -2 .. N - 1
      PROVE  /\ [g EXCEPT ![p] = i] \in Heads
             /\ [g EXCEPT ![p] = i][p] = i
             /\ \A b \in Bnst : b # p => [g EXCEPT ![p] = i][b] = g[b]
  BY <1>1 DEF Heads
<1>5. ASSUME NEW g \in Grown(s, n - 1), NEW i \in Allowed(s, g, p)
      PROVE  [g EXCEPT ![p] = i] \in Grown(s, n)
  <2> DEFINE h == [g EXCEPT ![p] = i]
  <2>1. g \in Heads /\ i \in -2 .. N - 1
    BY <1>1, AllowedIn DEF Grown
  <2>2. /\ h \in Heads /\ h[p] = i
        /\ \A b \in Bnst : b # p => h[b] = g[b]
    BY <1>4, <2>1, Zenon
  <2>3. /\ g[Last] = -1
        /\ \A b \in Bnst : b < p + 1 => g[b] = -1
        /\ \A b \in Bnst : p + 1 <= b /\ b # Last => g[b] \in Allowed(s, g, b)
    BY <1>1, Zenon DEF Grown
  <2> HIDE DEF h
  <2>4. \A b \in Bnst : b < p => b # p
    BY <1>2
  <2>5. ASSUME NEW b \in Bnst, p <= b, b # Last
        PROVE  h[b] \in Allowed(s, h, b)
    <3>1. \A q \in Bnst : q > b => q # p
      BY <1>1, <1>2, <2>5
    <3>2. Allowed(s, h, b) = Allowed(s, g, b)
      BY <2>2, <3>1, AllowedSame, Zenon
    <3>3. CASE b = p
      BY <2>2, <3>2, <3>3, Zenon
    <3>4. CASE b # p
      <4>1. b > p
        BY <1>3, <2>5, <3>4, Zenon
      <4> QED
        BY <1>2, <2>2, <2>3, <2>5, <3>2, <3>4, <4>1, Zenon
    <3> QED
      BY <3>3, <3>4, Zenon
  <2>6. h[Last] = -1
    BY <1>1, <2>2, <2>3, Zenon
  <2>7. \A b \in Bnst : b < p => h[b] = -1
    BY <1>2, <2>2, <2>3, <2>4, Zenon
  <2>8. h \in Grown(s, n)
    BY <1>1, <2>2, <2>5, <2>6, <2>7, Zenon DEF Grown
  <2> QED
    BY <2>8, Zenon DEF h
<1>6. ASSUME NEW h \in Grown(s, n)
      PROVE  \E g \in Grown(s, n - 1) : \E i \in Allowed(s, g, p) : h = [g EXCEPT ![p] = i]
  <2> DEFINE g == [h EXCEPT ![p] = -1]
  <2>1. h \in Heads /\ -1 \in -2 .. N - 1
    BY NAssumption DEF Grown
  <2>2. /\ g \in Heads /\ g[p] = -1
        /\ \A b \in Bnst : b # p => g[b] = h[b]
    BY <1>4, <2>1, Zenon
  <2>3. h = [g EXCEPT ![p] = h[p]]
    BY <1>1, <2>1 DEF Heads
  <2>4. /\ h[Last] = -1
        /\ \A b \in Bnst : b < p => h[b] = -1
        /\ \A b \in Bnst : p <= b /\ b # Last => h[b] \in Allowed(s, h, b)
    BY <1>1, Zenon DEF Grown
  <2> HIDE DEF g
  <2>5. ASSUME NEW b \in Bnst, p <= b
        PROVE  Allowed(s, h, b) = Allowed(s, g, b)
    <3>1. \A q \in Bnst : q > b => q # p
      BY <1>1, <1>2, <2>5
    <3> QED
      BY <2>2, <3>1, AllowedSame, Zenon
  <2>6. p <= p
    BY <1>1
  <2>7. h[p] \in Allowed(s, g, p)
    BY <1>1, <2>4, <2>5, <2>6, Zenon
  <2>8. ASSUME NEW b \in Bnst, p + 1 <= b, b # Last
        PROVE  g[b] \in Allowed(s, g, b)
    <3>1. b > p /\ p <= b /\ b # p
      BY <1>1, <1>2, <2>8
    <3> QED
      BY <2>2, <2>4, <2>5, <2>8, <3>1, Zenon
  <2>9. \A b \in Bnst : b < p + 1 => g[b] = -1
    BY <1>2, <2>2, <2>4, Zenon
  <2>10. g[Last] = -1
    BY <1>1, <2>2, <2>4, Zenon
  <2>11. g \in Grown(s, n - 1)
    BY <1>1, <2>2, <2>8, <2>9, <2>10, Zenon DEF Grown
  <2> QED
    BY <2>3, <2>7, <2>11, Zenon
<1>7. UNION {{[h EXCEPT ![p] = i] : i \in Allowed(s, h, p)} : h \in Grown(s, n - 1)} = Grown(s, n)
  <2> DEFINE U == UNION {{[h EXCEPT ![p] = i] : i \in Allowed(s, h, p)} : h \in Grown(s, n - 1)}
  <2>1. \A h : h \in U <=> \E g \in Grown(s, n - 1) : \E i \in Allowed(s, g, p) : h = [g EXCEPT ![p] = i]
    OBVIOUS
  <2> HIDE DEF U
  <2>2. ASSUME NEW h \in U
        PROVE  h \in Grown(s, n)
    <3>1. PICK g \in Grown(s, n - 1) : \E i \in Allowed(s, g, p) : h = [g EXCEPT ![p] = i]
      BY <2>1, <2>2, Zenon
    <3>2. PICK i \in Allowed(s, g, p) : h = [g EXCEPT ![p] = i]
      BY <3>1, Zenon
    <3>3. [g EXCEPT ![p] = i] \in Grown(s, n)
      BY <1>5, Zenon
    <3> QED
      BY <3>2, <3>3, Zenon
  <2>3. ASSUME NEW h \in Grown(s, n)
        PROVE  h \in U
    BY <1>6, <2>1, <2>3, Zenon
  <2>4. U = Grown(s, n)
    BY <2>2, <2>3, Zenon
  <2> QED
    BY <2>4, Zenon DEF U
<1> QED
  BY <1>7, Zenon DEF p

\* The reference of SearchExact is the set of the structures given as a whole.
LEMMA StructuresAre ==
  ASSUME NEW s, IsSentence(s)
  PROVE  Structures(s) = {h \in Heads : IsStructure(s, h)} /\ IsFiniteSet(Structures(s))
<1> DEFINE grow == CHOOSE g : Grows(s, g)
           Q == {n \in Nat : n <= Last => grow[n] = Grown(s, n)}
<1>1. Grows(s, grow)
  BY GrowExists, Zenon
<1>2. Structures(s) = {h \in grow[Last] : ~ Impossible(h)}
  BY Zenon DEF Structures, Grows
<1>3. Bnst = 0 .. Last /\ Last \in Nat /\ 0 \in Nat /\ 0 <= Last
  BY NAssumption DEF Bnst, Last
<1>4. \A n \in 0 .. Last :
        grow[n] = IF n = 0 THEN {[b \in Bnst |-> -1]}
                  ELSE UNION {{[h EXCEPT ![Last - n] = i] : i \in Allowed(s, h, Last - n)} : h \in grow[n - 1]}
  BY <1>1, <1>3, Zenon DEF Grows
<1> HIDE DEF grow
<1>5. 0 \in Q
  <2>1. grow[0] = {[b \in Bnst |-> -1]}
    <3>1. 0 \in 0 .. Last
      BY <1>3
    <3> QED
      BY <1>4, <3>1, Zenon
  <2>2. Grown(s, 0) = {[b \in Bnst |-> -1]}
    <3>1. \A b \in Bnst : b < Last - 0 \/ b = Last
      BY <1>3
    <3>2. \A b \in Bnst : ~ (Last - 0 <= b /\ b # Last)
      BY <1>3
    <3>3. \A h \in Grown(s, 0) : h = [b \in Bnst |-> -1]
      BY <3>1 DEF Grown, Heads
    <3>4. [b \in Bnst |-> -1] \in Heads /\ Last \in Bnst
      BY NAssumption DEF Heads, Last, Bnst
    <3>5. [b \in Bnst |-> -1] \in Grown(s, 0)
      BY <3>2, <3>4 DEF Grown
    <3> QED
      BY <3>3, <3>5
  <2> QED
    BY <2>1, <2>2
<1>6. ASSUME NEW n \in 1 .. Last, n - 1 \in Q
      PROVE  n \in Q
  <2>1. n \in 0 .. Last /\ n \in Nat /\ n # 0 /\ n - 1 <= Last
    BY <1>3
  <2>2. grow[n - 1] = Grown(s, n - 1)
    BY <1>6, <2>1
  <2>3. grow[n] = UNION {{[h EXCEPT ![Last - n] = i] : i \in Allowed(s, h, Last - n)} : h \in grow[n - 1]}
    BY <1>4, <2>1, Zenon
  <2>4. grow[n] = Grown(s, n)
    BY <2>2, <2>3, GrowsOn, Zenon
  <2> QED
    BY <2>1, <2>4
<1>7. Last \in Q
  <2> HIDE DEF Q
  <2>1. \A n \in (0 + 1) .. Last : n - 1 \in Q => n \in Q
    BY <1>6
  <2>2. \A n \in 0 .. Last : n \in Q
    BY <1>3, <1>5, <2>1, RangeInduction
  <2> QED
    BY <1>3, <2>2
<1>8. grow[Last] = Grown(s, Last)
  BY <1>3, <1>7
<1>9. \A b \in Bnst : ~ (b < Last - Last) /\ Last - Last <= b
  BY <1>3
<1>10. Structures(s) = {h \in Heads : IsStructure(s, h)}
  <2>1. \A h : h \in Structures(s) <=> h \in Grown(s, Last) /\ ~ Impossible(h)
    BY <1>2, <1>8, Zenon
  <2>2. \A h : h \in Structures(s) <=> h \in Heads /\ IsStructure(s, h)
    BY <1>9, <2>1, Zenon DEF Grown, IsStructure
  <2> QED
    BY <2>2, Zenon
<1>11. Structures(s) \in SUBSET Heads
  BY <1>10, Zenon
<1> QED
  BY <1>10, <1>11, HeadsFinite, FS_Subset
-----------------------------------------------------------------------------
(* What the search has still to find                                       *)

\* The heads an activation has still to try.
Tos(T) == {c.to : c \in T}

\* An activation has recorded the types and distances that belong to its heads.
Recorded(s, a) ==
  /\ \A b \in Bnst : b > a.pos /\ b # Last =>
       /\ a.type[b] = ChoiceFor(s, a.head, b, a.head[b]).type
       /\ a.dflt[b] = ChoiceFor(s, a.head, b, a.head[b]).dflt
  /\ \A b \in Bnst : ~ (b > a.pos /\ b # Last) => a.type[b] = "D" /\ a.dflt[b] = 0
  /\ ~ a.fresh => \A c \in a.todo : c = ChoiceFor(s, a.head, a.pos, c.to)

\* An activation has kept to what is allowed, and will.
Ruled(s, a) ==
  /\ a.pos >= 0 => a.mask = Uncovered(a.head, a.pos)
  /\ \A b \in Bnst : b > a.pos /\ b # Last => a.head[b] \in Allowed(s, a.head, b)
  /\ ~ a.fresh => Tos(a.todo) \subseteq Allowed(s, a.head, a.pos)
  /\ \A c, d \in a.todo : c.to = d.to => c = d
  /\ Recorded(s, a)

\* Structure h is one that activation a has still to reach.
Pending(h, a) ==
  /\ \A b \in Bnst : b > a.pos => h[b] = a.head[b]
  /\ ~ a.fresh => h[a.pos] \in Tos(a.todo)

\* Activation x is inside of y, for a choice that y has taken off its list; the
\* choices left are further away.
Inner(x, y) ==
  /\ ~ y.fresh /\ x.pos < y.pos
  /\ \A b \in Bnst : b > y.pos => x.head[b] = y.head[b]
  /\ x.head[y.pos] \notin Tos(y.todo)
  /\ \A c \in y.todo : x.head[y.pos] < c.to

Nested(st) == \A m, n \in DOMAIN st : m < n => Inner(st[m], st[n])

\* The structures not yet evaluated.
Left(s, st) == {h \in Structures(s) : \E n \in DOMAIN st : Pending(h, st[n])}

\* decide_dpnd at a phrase collects the heads allowed, each of them once,
\* with what the reference records for it.
LEMMA ChoicesAllowed ==
  ASSUME IInv, Top.mask = Uncovered(Top.head, Top.pos), Top.dflt[Top.pos] = 0,
         MarkParallel \/ FollowEarlier \/ DecideUnique \/ DecideAll \/ DecideNoHead
  PROVE  \E T : /\ Branch(T) /\ Tos(T) = Allowed(sent, Top.head, Top.pos)
                /\ \A c, d \in T : c.to = d.to => c = d
                /\ \A c \in T : c = ChoiceFor(sent, Top.head, Top.pos, c.to)
<1> DEFINE p == Top.pos
           cands == Candidates(sent, Top)
           want == DefaultPos(sent, p, cands)
           allowed == Allowed(sent, Top.head, p)
           recorded(c) == ChoiceFor(sent, Top.head, p, c)
           Good(T) == /\ Branch(T) /\ Tos(T) = allowed
                      /\ \A c, d \in T : c.to = d.to => c = d
                      /\ \A c \in T : c = recorded(c.to)
<1>1. Entered /\ IsSentence(sent)
  BY DEF MarkParallel, FollowEarlier, DecideUnique, DecideAll, DecideNoHead, IInv
<1>2. p \in Bnst
  BY <1>1, EnteredPhrase
<1>3. cands \in SUBSET Bnst
  BY <1>2, CandidatesLater
<1>4. Cardinality(cands) \in Nat /\ want \in Int
  <2>1. Cardinality(cands) \in Nat
    BY <1>3, RankNat
  <2>2. sent.rule[p] \in Rules
    BY <1>1, <1>2 DEF IsSentence
  <2>3. sent.rule[p].preference \in {-1, 1, 2}
    BY <2>2 DEF Rules
  <2> QED
    BY <2>1, <2>3 DEF DefaultPos
<1>5. allowed =
        IF Marks(sent, p) # {}
        THEN {i \in Marks(sent, p) : \A j \in Marks(sent, p) : i <= j}
        ELSE IF sent.follow[p] # 0 THEN {sent.follow[p]}
        ELSE IF cands = {} THEN {i \in {Last} : sent.mask[p][i] # 0}
        ELSE IF sent.rule[p].hasBarrier /\ ~ sent.rule[p].decide THEN cands
        ELSE {c \in cands : Rank(c, cands) = want
                            \/ (want > Cardinality(cands) /\ Rank(c, cands) = Cardinality(cands))}
  <2> DEFINE a == [pos |-> p, mask |-> Uncovered(Top.head, p)]
  <2>1. a.pos = Top.pos /\ a.mask = Top.mask
    OBVIOUS
  <2>2. Candidates(sent, a) = cands
    BY <2>1, CandidatesSame
  <2> QED
    BY <2>2, Zenon DEF Allowed
<1>r. ASSUME NEW c
      PROVE  recorded(c) =
        IF Marks(sent, p) # {} THEN Choice(c, IF sent.mask[p][c] = 2 THEN "P" ELSE "I", 0)
        ELSE IF sent.follow[p] # 0 THEN Choice(c, "D", 0)
        ELSE IF cands = {} THEN Choice(c, "D", NoHeadPenalty)
        ELSE IF sent.rule[p].hasBarrier /\ ~ sent.rule[p].decide
             THEN Choice(c, sent.dpnd[p][c], Abs(want - Rank(c, cands)))
        ELSE Choice(c, sent.dpnd[p][c], 0)
  <2> DEFINE a == [pos |-> p, mask |-> Uncovered(Top.head, p)]
  <2>1. a.pos = Top.pos /\ a.mask = Top.mask
    OBVIOUS
  <2>2. Candidates(sent, a) = cands
    BY <2>1, CandidatesSame
  <2> QED
    BY <2>2, Zenon DEF ChoiceFor
<1>6. \A x, y, z : Choice(x, y, z).to = x
  BY DEF Choice
<1>7. ASSUME NEW x, NEW y, NEW z, Branch({Choice(x, y, z)}), allowed = {x},
             recorded(x) = Choice(x, y, z)
      PROVE  \E T : Good(T)
  <2> DEFINE T == {Choice(x, y, z)}
  <2>1. Tos(T) = {x}
    BY <1>6, Zenon DEF Tos
  <2>2. \A c, d \in T : c.to = d.to => c = d
    BY Zenon
  <2>3. Branch(T)
    BY <1>7, Zenon
  <2>4. \A c \in T : c = recorded(c.to)
    BY <1>6, <1>7, Zenon
  <2> HIDE DEF T, allowed, recorded
  <2> QED
    BY <1>7, <2>1, <2>2, <2>3, <2>4, Zenon
<1> SUFFICES \E T : Good(T)
  BY Zenon
<1> HIDE DEF cands, want, allowed, recorded, Good
<1>8. CASE MarkParallel
  <2>1. PICK i \in Marks(sent, p) :
          /\ \A j \in Marks(sent, p) : i <= j
          /\ Branch({Choice(i, IF sent.mask[p][i] = 2 THEN "P" ELSE "I", Top.dflt[p])})
    BY <1>8, Zenon DEF MarkParallel
  <2>2. \A j \in Marks(sent, p) : j \in Int
    BY <1>2, PhraseBounds DEF Marks
  <2>3. {j \in Marks(sent, p) : \A k \in Marks(sent, p) : j <= k} = {i}
    BY <2>1, <2>2
  <2>4. allowed = {i}
    BY <1>5, <2>1, <2>3, Zenon
  <2>5. recorded(i) = Choice(i, IF sent.mask[p][i] = 2 THEN "P" ELSE "I", Top.dflt[p])
    BY <1>r, <2>1, Zenon
  <2> QED
    BY <1>7, <2>1, <2>4, <2>5, Zenon
<1>9. CASE FollowEarlier
  <2>1. Marks(sent, p) = {} /\ sent.follow[p] # 0 /\ Branch({Choice(sent.follow[p], "D", 0)})
    BY <1>9, Zenon DEF FollowEarlier
  <2>2. allowed = {sent.follow[p]}
    BY <1>5, <2>1, Zenon
  <2>3. recorded(sent.follow[p]) = Choice(sent.follow[p], "D", 0)
    BY <1>r, <2>1, Zenon
  <2> QED
    BY <1>7, <2>1, <2>2, <2>3, Zenon
<1>10. CASE DecideUnique
  <2>1. /\ Marks(sent, p) = {} /\ sent.follow[p] = 0
        /\ ~ (sent.rule[p].hasBarrier /\ ~ sent.rule[p].decide)
    BY <1>10, Zenon DEF DecideUnique, Free
  <2>2. PICK k \in cands :
          /\ Rank(k, cands) = want \/ (want > Cardinality(cands) /\ \A d \in cands : d <= k)
          /\ Branch({Choice(k, sent.dpnd[p][k], 0)})
    BY <1>10, Zenon DEF DecideUnique, cands, want
  <2>3. \A c \in cands :
          /\ Rank(c, cands) \in Nat /\ Rank(c, cands) <= Cardinality(cands)
          /\ Rank(c, cands) = Cardinality(cands) <=> \A d \in cands : d <= c
          /\ Rank(c, cands) = Rank(k, cands) => c = k
    BY <1>3, RankFacts
  <2>4. allowed = {c \in cands : Rank(c, cands) = want
                                 \/ (want > Cardinality(cands) /\ Rank(c, cands) = Cardinality(cands))}
    BY <1>5, <2>1, <2>2, Zenon
  <2>5. ASSUME NEW c \in allowed
        PROVE  c = k
    <3>1. Rank(c, cands) = Rank(k, cands)
      BY <1>4, <2>2, <2>3, <2>4
    <3> QED
      BY <2>3, <2>4, <3>1, Zenon
  <2>6. k \in allowed
    BY <2>2, <2>3, <2>4, Zenon
  <2>7. allowed = {k}
    BY <2>5, <2>6, Zenon
  <2>8. recorded(k) = Choice(k, sent.dpnd[p][k], 0)
    BY <1>r, <2>1, <2>2, Zenon
  <2> QED
    BY <1>7, <2>2, <2>7, <2>8, Zenon
<1>11. CASE DecideAll
  <2> DEFINE to(c) == Choice(c, sent.dpnd[p][c], Abs(want - Rank(c, cands)))
             T == {to(c) : c \in cands}
  <2>1. /\ Marks(sent, p) = {} /\ sent.follow[p] = 0 /\ cands # {}
        /\ sent.rule[p].hasBarrier /\ ~ sent.rule[p].decide
        /\ Branch(T)
    BY <1>11, Zenon DEF DecideAll, Free, cands, want
  <2>2. allowed = cands
    BY <1>5, <2>1, Zenon
  <2>3. \A c : to(c).to = c
    BY <1>6, Zenon
  <2>6. \A c : recorded(c) = to(c)
    BY <1>r, <2>1, Zenon
  <2> HIDE DEF to
  <2>7. \A c \in T : c = recorded(c.to)
    BY <2>3, <2>6, Zenon
  <2>4. Tos(T) = cands
    <3>1. \A t : t \in Tos(T) <=> \E c \in cands : t = to(c).to
      BY DEF Tos
    <3>2. \A t : t \in Tos(T) <=> t \in cands
      BY <2>3, <3>1
    <3> HIDE DEF T
    <3> QED
      BY <3>2, Zenon
  <2>5. \A c, d \in T : c.to = d.to => c = d
    BY <2>3
  <2> HIDE DEF T
  <2> QED
    BY <2>1, <2>2, <2>4, <2>5, <2>7, Zenon DEF Good
<1>12. CASE DecideNoHead
  <2>1. /\ Marks(sent, p) = {} /\ sent.follow[p] = 0 /\ cands = {}
        /\ Branch(IF sent.mask[p][Last] # 0 THEN {Choice(Last, "D", NoHeadPenalty)} ELSE {})
    BY <1>12, Zenon DEF DecideNoHead, Free, cands
  <2>2. allowed = {i \in {Last} : sent.mask[p][i] # 0}
    BY <1>5, <2>1, Zenon
  <2>3. CASE sent.mask[p][Last] # 0
    <3>1. allowed = {Last}
      BY <2>2, <2>3, Zenon
    <3>2. Branch({Choice(Last, "D", NoHeadPenalty)})
      BY <2>1, <2>3, Zenon
    <3>3. recorded(Last) = Choice(Last, "D", NoHeadPenalty)
      BY <1>r, <2>1, Zenon
    <3> QED
      BY <1>7, <3>1, <3>2, <3>3, Zenon
  <2>4. CASE sent.mask[p][Last] = 0
    <3>1. allowed = {}
      BY <2>2, <2>4, Zenon
    <3>2. Branch({})
      BY <2>1, <2>4, Zenon
    <3>3. Tos({}) = {}
      BY Zenon DEF Tos
    <3> QED
      BY <3>1, <3>2, <3>3, Zenon DEF Good
  <2> QED
    BY <2>3, <2>4, Zenon
<1> QED
  BY <1>8, <1>9, <1>10, <1>11, <1>12
-----------------------------------------------------------------------------
(* Replacing, pushing and popping                                          *)

\* The places of a stack whose innermost activation is replaced.
LEMMA Replaced ==
  ASSUME NEW S, NEW st \in Seq(S), st # <<>>, NEW x, NEW q, q = <<x>> \o Tail(st)
  PROVE  /\ DOMAIN q = DOMAIN st /\ 1 \in DOMAIN st
         /\ q[1] = x
         /\ \A n \in DOMAIN st : n \in Int /\ n >= 1 /\ (n # 1 => q[n] = st[n]) /\ st[n] \in S
OBVIOUS

\* The places of a stack whose innermost activation is replaced by two.
LEMMA PushedOn ==
  ASSUME NEW S, NEW st \in Seq(S), st # <<>>, NEW x, NEW y, NEW q, q = <<y, x>> \o Tail(st)
  PROVE  /\ 1 \in DOMAIN q /\ q[1] = y /\ 2 \in DOMAIN q /\ q[2] = x
         /\ \A n \in DOMAIN q : n \in Int /\ (n = 1 \/ n = 2 \/ n > 2)
         /\ \A n \in DOMAIN q : n > 2 => n - 1 \in DOMAIN st /\ n - 1 > 1 /\ q[n] = st[n - 1]
         /\ \A n \in DOMAIN st : n \in Int /\ n >= 1 /\ st[n] \in S
         /\ \A n \in DOMAIN st : n # 1 => n + 1 \in DOMAIN q /\ q[n + 1] = st[n]
<1> DEFINE m == Len(st)
<1>1. m \in Nat /\ m >= 1 /\ DOMAIN st = 1 .. m /\ \A n \in 1 .. m : st[n] \in S
  OBVIOUS
<1>2. Len(q) = m + 1 /\ DOMAIN q = 1 .. (m + 1)
  OBVIOUS
<1>3. q[1] = y /\ q[2] = x
  OBVIOUS
<1>4. \A n \in 3 .. (m + 1) : q[n] = st[n - 1]
  OBVIOUS
<1> HIDE DEF m
<1>5. /\ 1 \in DOMAIN q /\ 2 \in DOMAIN q
      /\ \A n \in DOMAIN q : n \in Int /\ (n = 1 \/ n = 2 \/ n > 2)
  BY <1>1, <1>2
<1>6. ASSUME NEW n \in DOMAIN q, n > 2
      PROVE  n - 1 \in DOMAIN st /\ n - 1 > 1 /\ q[n] = st[n - 1]
  BY <1>1, <1>2, <1>4, <1>6
<1>7. ASSUME NEW n \in DOMAIN st, n # 1
      PROVE  n + 1 \in DOMAIN q /\ q[n + 1] = st[n]
  <2>1. n + 1 \in 3 .. (m + 1) /\ (n + 1) - 1 = n
    BY <1>1, <1>7
  <2> QED
    BY <1>2, <1>4, <2>1
<1> QED
  BY <1>1, <1>3, <1>5, <1>6, <1>7

\* The places of a stack without its innermost activation.
LEMMA PoppedOff ==
  ASSUME NEW S, NEW st \in Seq(S), st # <<>>, NEW q, q = Tail(st)
  PROVE  /\ 1 \in DOMAIN st
         /\ \A n \in DOMAIN q : n \in Int /\ n + 1 \in DOMAIN st /\ n + 1 > 1 /\ q[n] = st[n + 1]
         /\ \A n \in DOMAIN st : n # 1 => n - 1 \in DOMAIN q /\ q[n - 1] = st[n]
OBVIOUS

\* The innermost activation is replaced by one that stands for the same.
LEMMA ReplacedKeeps ==
  ASSUME NEW S, NEW st \in Seq(S), st # <<>>, NEW s, NEW x, NEW q, q = <<x>> \o Tail(st),
         Nested(st), \A n \in DOMAIN st : Ruled(s, st[n]), Ruled(s, x),
         \A z \in S : Inner(st[1], z) => Inner(x, z),
         \A h \in Structures(s) : Pending(h, x) <=> Pending(h, st[1])
  PROVE  Nested(q) /\ (\A n \in DOMAIN q : Ruled(s, q[n])) /\ Left(s, q) = Left(s, st)
<1>1. /\ DOMAIN q = DOMAIN st /\ 1 \in DOMAIN st
      /\ q[1] = x
      /\ \A n \in DOMAIN st : n \in Int /\ n >= 1 /\ (n # 1 => q[n] = st[n]) /\ st[n] \in S
  BY Replaced
<1>2. \A n \in DOMAIN q : Ruled(s, q[n])
  BY <1>1, Zenon
<1>3. ASSUME NEW m \in DOMAIN q, NEW n \in DOMAIN q, m < n
      PROVE  Inner(q[m], q[n])
  <2>1. n # 1
    BY <1>1, <1>3
  <2>2. Inner(st[m], st[n])
    BY <1>1, <1>3, Zenon DEF Nested
  <2> QED
    BY <1>1, <2>1, <2>2, Zenon
<1>4. \A h \in Structures(s) : \A n \in DOMAIN q : Pending(h, q[n]) <=> Pending(h, st[n])
  BY <1>1, Zenon
<1>5. Left(s, q) = Left(s, st)
  BY <1>1, <1>4, Zenon DEF Left
<1> QED
  BY <1>2, <1>3, <1>5, Zenon DEF Nested

\* What the two activations put in the place of the innermost one have to keep.
Divided(S, s, a, x, y) ==
  /\ Ruled(s, x) /\ Ruled(s, y) /\ Inner(y, x)
  /\ \A z \in S : Inner(a, z) => Inner(x, z) /\ Inner(y, z)
  /\ \A h \in Structures(s) : Pending(h, a) <=> Pending(h, x) \/ Pending(h, y)

\* The innermost activation is replaced by two.
Pushed(st, x, y) == <<y, x>> \o Tail(st)

\* A choice is taken off the list of the innermost activation and followed.
LEMMA PushedKeeps ==
  \A S, st, s, x, y :
     /\ st \in Seq(S) /\ st # <<>> /\ Nested(st)
     /\ \A n \in DOMAIN st : Ruled(s, st[n])
     /\ Divided(S, s, st[1], x, y)
     => /\ Nested(Pushed(st, x, y)) /\ (\A n \in DOMAIN Pushed(st, x, y) : Ruled(s, Pushed(st, x, y)[n]))
        /\ Left(s, Pushed(st, x, y)) = Left(s, st)
<1> TAKE S, st, s, x, y
<1> HAVE /\ st \in Seq(S) /\ st # <<>> /\ Nested(st)
         /\ \A n \in DOMAIN st : Ruled(s, st[n])
         /\ Divided(S, s, st[1], x, y)
<1>0. PICK q : q = Pushed(st, x, y)
  OBVIOUS
<1>a. q = <<y, x>> \o Tail(st)
  BY <1>0, Zenon DEF Pushed
<1>b. /\ Ruled(s, x) /\ Ruled(s, y) /\ Inner(y, x)
      /\ \A z \in S : Inner(st[1], z) => Inner(x, z) /\ Inner(y, z)
      /\ \A h \in Structures(s) : Pending(h, st[1]) <=> Pending(h, x) \/ Pending(h, y)
  BY Zenon DEF Divided
<1>1. /\ 1 \in DOMAIN q /\ q[1] = y /\ 2 \in DOMAIN q /\ q[2] = x
      /\ \A n \in DOMAIN q : n \in Int /\ (n = 1 \/ n = 2 \/ n > 2)
      /\ \A n \in DOMAIN q : n > 2 => n - 1 \in DOMAIN st /\ n - 1 > 1 /\ q[n] = st[n - 1]
      /\ \A n \in DOMAIN st : n \in Int /\ n >= 1 /\ st[n] \in S
      /\ \A n \in DOMAIN st : n # 1 => n + 1 \in DOMAIN q /\ q[n + 1] = st[n]
  BY <1>a, PushedOn, SMTT(30)
<1>2. 1 \in DOMAIN st
  OBVIOUS
<1>3. \A n \in DOMAIN q : Ruled(s, q[n])
  BY <1>1, <1>b, Zenon
<1>4. ASSUME NEW m \in DOMAIN q, NEW n \in DOMAIN q, m < n
      PROVE  Inner(q[m], q[n])
  <2>1. CASE n = 2
    <3>1. m = 1
      BY <1>1, <1>4, <2>1
    <3> QED
      BY <1>1, <1>b, <2>1, <3>1, Zenon
  <2>2. CASE n > 2
    <3>1. 1 < n - 1 /\ n - 1 \in DOMAIN st
      BY <1>1, <2>2
    <3>2. CASE m = 1 \/ m = 2
      <4>1. Inner(st[1], st[n - 1])
        BY <1>2, <3>1, Zenon DEF Nested
      <4> QED
        BY <1>1, <1>b, <2>2, <3>2, <4>1, Zenon
    <3>3. CASE m > 2
      <4>1. m - 1 < n - 1 /\ m - 1 \in DOMAIN st
        BY <1>1, <1>4, <3>3
      <4>2. Inner(st[m - 1], st[n - 1])
        BY <3>1, <4>1, Zenon DEF Nested
      <4> QED
        BY <1>1, <2>2, <3>3, <4>2, Zenon
    <3> QED
      BY <1>1, <3>2, <3>3, Zenon
  <2>3. n # 1
    BY <1>1, <1>4
  <2> QED
    BY <1>1, <2>1, <2>2, <2>3, Zenon
<1>5. ASSUME NEW h \in Structures(s)
      PROVE  (\E n \in DOMAIN q : Pending(h, q[n])) <=> (\E n \in DOMAIN st : Pending(h, st[n]))
  <2>1. ASSUME NEW n \in DOMAIN q, Pending(h, q[n])
        PROVE  \E l \in DOMAIN st : Pending(h, st[l])
    <3>1. CASE n = 1 \/ n = 2
      BY <1>1, <1>2, <1>b, <2>1, <3>1, Zenon
    <3>2. CASE n > 2
      BY <1>1, <2>1, <3>2, Zenon
    <3> QED
      BY <1>1, <3>1, <3>2, Zenon
  <2>2. ASSUME NEW n \in DOMAIN st, Pending(h, st[n])
        PROVE  \E l \in DOMAIN q : Pending(h, q[l])
    <3>1. CASE n = 1
      BY <1>1, <1>b, <2>2, <3>1, Zenon
    <3>2. CASE n # 1
      BY <1>1, <2>2, <3>2, Zenon
    <3> QED
      BY <3>1, <3>2, Zenon
  <2> QED
    BY <2>1, <2>2, Zenon
<1>6. Left(s, q) = Left(s, st)
  BY <1>5, Zenon DEF Left
<1> QED
  BY <1>0, <1>3, <1>4, <1>6, Zenon DEF Nested

\* What the innermost activation has still to reach is all that is lost when it
\* returns, and no other activation would reach the structure it is at.
LEMMA PoppedKeeps ==
  ASSUME NEW S, NEW st \in Seq(S), st # <<>>, NEW s, NEW q, q = Tail(st),
         Nested(st), \A n \in DOMAIN st : Ruled(s, st[n])
  PROVE  /\ Nested(q) /\ (\A n \in DOMAIN q : Ruled(s, q[n]))
         /\ \A h \in Structures(s) : h \in Left(s, st) <=> Pending(h, st[1]) \/ h \in Left(s, q)
         /\ st[1].head \notin Left(s, q)
<1>1. /\ 1 \in DOMAIN st
      /\ \A n \in DOMAIN q : n \in Int /\ n + 1 \in DOMAIN st /\ n + 1 > 1 /\ q[n] = st[n + 1]
      /\ \A n \in DOMAIN st : n # 1 => n - 1 \in DOMAIN q /\ q[n - 1] = st[n]
  BY PoppedOff
<1>2. \A n \in DOMAIN q : Ruled(s, q[n])
  BY <1>1, Zenon
<1>3. ASSUME NEW m \in DOMAIN q, NEW n \in DOMAIN q, m < n
      PROVE  Inner(q[m], q[n])
  <2>1. m + 1 < n + 1
    BY <1>1, <1>3
  <2>2. Inner(st[m + 1], st[n + 1])
    BY <1>1, <2>1, Zenon DEF Nested
  <2> QED
    BY <1>1, <2>2, Zenon
<1>4. ASSUME NEW h \in Structures(s)
      PROVE  h \in Left(s, st) <=> Pending(h, st[1]) \/ h \in Left(s, q)
  <2>1. ASSUME NEW n \in DOMAIN q, Pending(h, q[n])
        PROVE  \E l \in DOMAIN st : Pending(h, st[l])
    BY <1>1, <2>1, Zenon
  <2>2. ASSUME NEW n \in DOMAIN st, Pending(h, st[n])
        PROVE  Pending(h, st[1]) \/ \E l \in DOMAIN q : Pending(h, q[l])
    <3>1. CASE n = 1
      BY <2>2, <3>1, Zenon
    <3>2. CASE n # 1
      BY <1>1, <2>2, <3>2, Zenon
    <3> QED
      BY <3>1, <3>2, Zenon
  <2> QED
    BY <1>1, <2>1, <2>2, Zenon DEF Left
<1>5. ASSUME NEW n \in DOMAIN q
      PROVE  ~ Pending(st[1].head, q[n])
  <2>1. Inner(st[1], q[n])
    BY <1>1, Zenon DEF Nested
  <2> QED
    BY <2>1, Zenon DEF Inner, Pending
<1> QED
  BY <1>2, <1>3, <1>4, <1>5, Zenon DEF Nested, Left
-----------------------------------------------------------------------------
(* The search                                                              *)

\* The inductive invariant.
SearchInv ==
  /\ phase = "search" =>
       /\ Nested(stack) /\ \A n \in DOMAIN stack : Ruled(sent, stack[n])
       /\ ~ sent.caseMode => dpndID + Cardinality(Left(sent, stack)) = Cardinality(Structures(sent))
       /\ best.score # Floor => \E h \in Structures(sent) : best.head = Resolved(h)
  /\ SearchExact

\* What an unfinished activation is.
LEMMA TopFacts ==
  ASSUME IInv, SearchInv, phase = "search", stack # <<>>
  PROVE  /\ stack \in Seq(GoodActs(sent)) /\ Top = stack[1]
         /\ Top \in GoodActs(sent) /\ Top \in Activations
         /\ Nested(stack) /\ (\A n \in DOMAIN stack : Ruled(sent, stack[n])) /\ Ruled(sent, Top)
<1>1. stack \in Seq(GoodActs(sent))
  BY DEF IInv
<1>2. Top = stack[1] /\ 1 \in DOMAIN stack
  BY <1>1 DEF Top
<1>3. Top \in GoodActs(sent)
  BY <1>1, <1>2, StackLemma
<1>4. Top \in Activations
  BY <1>3, Zenon DEF GoodActs
<1> QED
  BY <1>1, <1>2, <1>3, <1>4, Zenon DEF SearchInv

\* A step that only changes the stack, and not what is left.
LEMMA SameLeft ==
  ASSUME SearchInv, phase = "search", UNCHANGED <<sent, best, Possibility, dpndID, bnst, phase>>,
         Nested(stack'), \A n \in DOMAIN stack' : Ruled(sent, stack'[n]),
         Left(sent, stack') = Left(sent, stack)
  PROVE  SearchInv'
<1>1. SearchExact'
  BY DEF SearchExact
<1>2. /\ sent' = sent /\ best' = best /\ dpndID' = dpndID /\ phase' = phase
  OBVIOUS
<1>3. \A h \in Structures(sent) : best.head = Resolved(h) => best'.head = Resolved(h)
  BY <1>2, Zenon
<1>4. dpndID' + Cardinality(Left(sent', stack')) = dpndID + Cardinality(Left(sent, stack))
  BY <1>2, Zenon
<1>5. SearchInv => /\ ~ sent.caseMode => dpndID + Cardinality(Left(sent, stack)) = Cardinality(Structures(sent))
                   /\ best.score # Floor => \E h \in Structures(sent) : best.head = Resolved(h)
  BY Zenon DEF SearchInv
<1>6. ~ sent'.caseMode => dpndID' + Cardinality(Left(sent', stack')) = Cardinality(Structures(sent'))
  BY <1>2, <1>4, <1>5, Zenon
<1>7. best'.score # Floor => \E h \in Structures(sent') : best'.head = Resolved(h)
  BY <1>2, <1>5, Zenon
<1>8. \A n \in DOMAIN stack' : Ruled(sent', stack'[n])
  BY <1>2, Zenon
<1> QED
  BY <1>1, <1>6, <1>7, <1>8, Zenon DEF SearchInv

\* decide_dpnd at a phrase: nothing is lost or tried twice.
LEMMA PhraseSearch ==
  ASSUME IInv, SearchInv,
         MarkParallel \/ FollowEarlier \/ DecideUnique \/ DecideAll \/ DecideNoHead
  PROVE  SearchInv' /\ Left(sent, stack') = Left(sent, stack)
<1>1. Entered /\ IsSentence(sent) /\ phase = "search" /\ stack # <<>> /\ Top.fresh
  BY DEF MarkParallel, FollowEarlier, DecideUnique, DecideAll, DecideNoHead, IInv, Entered
<1>2. /\ stack \in Seq(GoodActs(sent)) /\ Top = stack[1]
      /\ Top \in Activations
      /\ Nested(stack) /\ (\A n \in DOMAIN stack : Ruled(sent, stack[n])) /\ Ruled(sent, Top)
  BY <1>1, TopFacts
<1>3. Top.pos \in Bnst /\ Top.pos # Last /\ Top.pos >= 0
  BY <1>1, EnteredPhrase DEF Entered
<1>4. Top.mask = Uncovered(Top.head, Top.pos)
  BY <1>2, <1>3, Zenon DEF Ruled
<1>r. Recorded(sent, Top) /\ Top.dflt[Top.pos] = 0
  <2>1. Recorded(sent, Top)
    BY <1>2, Zenon DEF Ruled
  <2>2. ~ (Top.pos > Top.pos)
    BY <1>3 DEF Bnst
  <2> QED
    BY <1>3, <2>1, <2>2, Zenon DEF Recorded
<1>5. PICK T : /\ Branch(T) /\ Tos(T) = Allowed(sent, Top.head, Top.pos)
               /\ \A c, d \in T : c.to = d.to => c = d
               /\ \A c \in T : c = ChoiceFor(sent, Top.head, Top.pos, c.to)
  BY <1>4, <1>r, ChoicesAllowed
<1>6. PICK x : x = [Top EXCEPT !.todo = T, !.fresh = FALSE]
  OBVIOUS
<1>7. /\ stack' = <<x>> \o Tail(stack)
      /\ UNCHANGED <<sent, best, Possibility, dpndID, bnst, phase>>
  BY <1>5, <1>6, Zenon DEF Branch
<1>8. /\ x.pos = Top.pos /\ x.head = Top.head /\ x.mask = Top.mask
      /\ x.type = Top.type /\ x.dflt = Top.dflt
      /\ x.todo = T /\ x.fresh = FALSE
  BY <1>2, <1>6 DEF Activations
<1>9. Ruled(sent, x)
  <2>1. /\ Top.pos >= 0 => Top.mask = Uncovered(Top.head, Top.pos)
        /\ \A b \in Bnst : b > Top.pos /\ b # Last => Top.head[b] \in Allowed(sent, Top.head, b)
    BY <1>2, Zenon DEF Ruled
  <2>2. Recorded(sent, x)
    BY <1>5, <1>8, <1>r, Zenon DEF Recorded
  <2> QED
    BY <1>5, <1>8, <2>1, <2>2, Zenon DEF Ruled
<1>10. \A z \in GoodActs(sent) : Inner(stack[1], z) => Inner(x, z)
  BY <1>2, <1>8, Zenon DEF Inner
<1>11. ASSUME NEW h \in Structures(sent)
       PROVE  Pending(h, x) <=> Pending(h, stack[1])
  <2>1. IsStructure(sent, h)
    BY <1>1, StructuresAre
  <2>2. h[Top.pos] \in Allowed(sent, h, Top.pos)
    BY <1>3, <2>1, Zenon DEF IsStructure
  <2>3. ASSUME \A b \in Bnst : b > Top.pos => h[b] = Top.head[b]
        PROVE  h[Top.pos] \in Tos(T)
    <3>1. Allowed(sent, h, Top.pos) = Allowed(sent, Top.head, Top.pos)
      BY <1>3, <2>3, AllowedSame, Zenon
    <3> QED
      BY <1>5, <2>2, <3>1, Zenon
  <2> QED
    BY <1>1, <1>2, <1>8, <2>3, Zenon DEF Pending
<1>12. PICK st, q : st = stack /\ q = stack' /\ q = <<x>> \o Tail(st)
  BY <1>7, Zenon
<1>13. Nested(q) /\ (\A n \in DOMAIN q : Ruled(sent, q[n])) /\ Left(sent, q) = Left(sent, st)
  <2>1. /\ st \in Seq(GoodActs(sent)) /\ st # <<>> /\ Nested(st)
        /\ \A n \in DOMAIN st : Ruled(sent, st[n])
        /\ \A z \in GoodActs(sent) : Inner(st[1], z) => Inner(x, z)
        /\ \A h \in Structures(sent) : Pending(h, x) <=> Pending(h, st[1])
    BY <1>1, <1>2, <1>10, <1>11, <1>12, Zenon
  <2> QED
    BY <1>9, <1>12, <2>1, ReplacedKeeps
<1>14. /\ Nested(stack') /\ (\A n \in DOMAIN stack' : Ruled(sent, stack'[n]))
       /\ Left(sent, stack') = Left(sent, stack)
  BY <1>12, <1>13, Zenon
<1> QED
  BY <1>1, <1>7, <1>14, SameLeft

\* The mask of an activation excludes what the arcs to its right cover.
LEMMA ActivationMask ==
  ASSUME NEW a \in Activations, a.pos \in 0 .. N - 2, a.mask = Uncovered(a.head, a.pos),
         NEW c \in a.todo, a.pos - 1 >= 0
  PROVE  Activation(Decided(a, c), a.pos - 1).mask = Uncovered([a.head EXCEPT ![a.pos] = c.to], a.pos - 1)
<1> DEFINE p == a.pos
           h == [a.head EXCEPT ![p] = c.to]
<1>1. /\ p \in Bnst /\ p \in Int /\ 0 <= p - 1 /\ p - 1 < N - 2 /\ (p - 1) + 1 = p /\ (p - 1) + 2 = p + 1
      /\ p # Last
  BY NAssumption DEF Bnst, Last
<1>2. h[p] = c.to /\ \A q \in Bnst : q # p => h[q] = a.head[q]
  BY <1>1 DEF Activations, Heads
<1>3. c.to \in Int
  BY NAssumption DEF Activations
<1>4. Activation(Decided(a, c), p - 1).mask = a.mask \ ((p + 1) .. (c.to - 1))
  <2>1. Decided(a, c).mask = a.mask /\ Decided(a, c).head = h
    BY DEF Decided
  <2>2. Activation(Decided(a, c), p - 1).mask
          = Decided(a, c).mask \ (((p - 1) + 2) .. (Decided(a, c).head[(p - 1) + 1] - 1))
    BY <1>1 DEF Activation
  <2> HIDE DEF h
  <2> QED
    BY <1>1, <1>2, <2>1, <2>2, Zenon
<1>5. ASSUME NEW i \in Bnst
      PROVE  (\E q \in p .. Last : q < i /\ i < h[q])
               <=> (\E q \in (p + 1) .. Last : q < i /\ i < a.head[q]) \/ i \in (p + 1) .. (c.to - 1)
  <2>1. \A q \in (p + 1) .. Last : q \in Bnst /\ q # p /\ q \in p .. Last
    BY <1>1 DEF Bnst, Last
  <2>2. \A q \in p .. Last : q = p \/ q \in (p + 1) .. Last
    BY <1>1 DEF Bnst, Last
  <2>3. p \in p .. Last
    BY <1>1 DEF Bnst, Last
  <2>4. i \in (p + 1) .. (c.to - 1) <=> p < i /\ i < c.to
    BY <1>1, <1>3 DEF Bnst
  <2> HIDE DEF h, p
  <2>5. ASSUME NEW q \in p .. Last, q < i, i < h[q]
        PROVE  (\E r \in (p + 1) .. Last : r < i /\ i < a.head[r]) \/ i \in (p + 1) .. (c.to - 1)
    BY <1>2, <2>1, <2>2, <2>4, <2>5, Zenon
  <2>6. ASSUME NEW q \in (p + 1) .. Last, q < i, i < a.head[q]
        PROVE  \E r \in p .. Last : r < i /\ i < h[r]
    BY <1>2, <2>1, <2>6, Zenon
  <2>7. ASSUME i \in (p + 1) .. (c.to - 1)
        PROVE  \E r \in p .. Last : r < i /\ i < h[r]
    BY <1>2, <2>3, <2>4, <2>7, Zenon
  <2> QED
    BY <2>5, <2>6, <2>7, Zenon
<1> HIDE DEF h
<1>6. \A i : i \in Uncovered(h, p - 1) <=> i \in Bnst /\ ~ \E q \in p .. Last : q < i /\ i < h[q]
  BY <1>1, Zenon DEF Uncovered
<1>7. \A i : i \in a.mask <=> i \in Bnst /\ ~ \E q \in (p + 1) .. Last : q < i /\ i < a.head[q]
  BY Zenon DEF Uncovered
<1>8. \A i : i \in Uncovered(h, p - 1) <=> i \in a.mask \ ((p + 1) .. (c.to - 1))
  <2>1. ASSUME NEW i \in Bnst
        PROVE  i \in Uncovered(h, p - 1) <=> i \in a.mask \ ((p + 1) .. (c.to - 1))
    <3>1. i \in Uncovered(h, p - 1) <=> ~ \E q \in p .. Last : q < i /\ i < h[q]
      BY <1>6, <2>1, Zenon
    <3>2. i \in a.mask <=> ~ \E q \in (p + 1) .. Last : q < i /\ i < a.head[q]
      BY <1>7, <2>1, Zenon
    <3> QED
      BY <1>5, <3>1, <3>2, Zenon
  <2>2. \A i : i \notin Bnst => i \notin Uncovered(h, p - 1) /\ i \notin a.mask
    BY <1>6, <1>7, Zenon
  <2> QED
    BY <2>1, <2>2, Zenon
<1> QED
  BY <1>4, <1>8, Zenon DEF h

\* The recursive call of decide_dpnd.
LEMMA DescendSearch ==
  ASSUME IInv, SearchInv, Descend
  PROVE  SearchInv' /\ Left(sent, stack') = Left(sent, stack)
<1>1. IsSentence(sent) /\ phase = "search" /\ stack # <<>> /\ ~ Top.fresh
  BY DEF Descend, IInv
<1>2. /\ stack \in Seq(GoodActs(sent)) /\ Top = stack[1]
      /\ Top \in GoodActs(sent) /\ Top \in Activations
      /\ Nested(stack) /\ (\A n \in DOMAIN stack : Ruled(sent, stack[n])) /\ Ruled(sent, Top)
  BY <1>1, TopFacts
<1> DEFINE p == Top.pos
<1>3. p \in 0 .. N - 2
  BY <1>1, <1>2, NAssumption DEF GoodActs
<1>4. p \in Bnst /\ p # Last /\ p >= 0 /\ p - 1 \in Int /\ p - 1 < p
  BY <1>3, NAssumption DEF Bnst, Last
<1>5. PICK c \in Top.todo :
        /\ \A d \in Top.todo : c.to <= d.to
        /\ stack' = <<Activation(Decided(Top, c), Top.pos - 1), [Top EXCEPT !.todo = @ \ {c}]>> \o Tail(stack)
  BY Zenon DEF Descend
<1>6. PICK x, y : x = [Top EXCEPT !.todo = @ \ {c}] /\ y = Activation(Decided(Top, c), p - 1)
  OBVIOUS
<1>7. /\ x.pos = p /\ x.head = Top.head /\ x.mask = Top.mask
      /\ x.type = Top.type /\ x.dflt = Top.dflt
      /\ x.todo = Top.todo \ {c} /\ x.fresh = Top.fresh
  BY <1>2, <1>6 DEF Activations
<1>8. /\ y.pos = p - 1 /\ y.head = [Top.head EXCEPT ![p] = c.to]
      /\ y.type = [Top.type EXCEPT ![p] = c.type] /\ y.dflt = [Top.dflt EXCEPT ![p] = c.dflt]
      /\ y.todo = {} /\ y.fresh = TRUE
  BY <1>6 DEF Activation, Decided
<1>9. y.head[p] = c.to /\ \A b \in Bnst : b # p => y.head[b] = Top.head[b]
  BY <1>2, <1>4, <1>8 DEF Activations, Heads
<1>t. /\ y.type[p] = c.type /\ \A b \in Bnst : b # p => y.type[b] = Top.type[b]
      /\ y.dflt[p] = c.dflt /\ \A b \in Bnst : b # p => y.dflt[b] = Top.dflt[b]
  BY <1>2, <1>4, <1>8 DEF Activations, Types, Distances
<1>10. /\ Top.mask = Uncovered(Top.head, p)
       /\ \A b \in Bnst : b > p /\ b # Last => Top.head[b] \in Allowed(sent, Top.head, b)
       /\ Tos(Top.todo) \subseteq Allowed(sent, Top.head, p)
       /\ \A d, e \in Top.todo : d.to = e.to => d = e
       /\ Recorded(sent, Top)
  BY <1>1, <1>2, <1>4, Zenon DEF Ruled
<1>11. /\ \A t : t \in Tos(Top.todo) <=> t = c.to \/ t \in Tos(x.todo)
       /\ c.to \notin Tos(x.todo)
       /\ c.to \in Tos(Top.todo)
  <2>1. \A t : t \in Tos(Top.todo) <=> \E d \in Top.todo : t = d.to
    BY Zenon DEF Tos
  <2>2. \A t : t \in Tos(x.todo) <=> \E d \in Top.todo : d # c /\ t = d.to
    BY <1>7, Zenon DEF Tos
  <2>3. \A t : t \in Tos(Top.todo) <=> t = c.to \/ t \in Tos(x.todo)
    BY <2>1, <2>2, Zenon
  <2>4. c.to \notin Tos(x.todo)
    BY <1>10, <2>2, Zenon
  <2> QED
    BY <2>3, <2>4, Zenon
<1>12. \A b \in Bnst : (b > p => b # p /\ b > p - 1) /\ (b > p - 1 => b = p \/ b > p)
  BY <1>4 DEF Bnst
<1>13. p - 1 >= 0 => y.mask = Uncovered(y.head, p - 1)
  <2>1. ASSUME p - 1 >= 0
        PROVE  Activation(Decided(Top, c), p - 1).mask = Uncovered([Top.head EXCEPT ![p] = c.to], p - 1)
    BY <1>2, <1>3, <1>10, <2>1, ActivationMask
  <2> QED
    BY <1>6, <1>8, <2>1, Zenon
<1> HIDE DEF p
<1>14. Ruled(sent, x)
  <2>1. Tos(x.todo) \subseteq Tos(Top.todo)
    BY <1>11, Zenon
  <2>2. \A d, e \in x.todo : d.to = e.to => d = e
    BY <1>7, <1>10, Zenon
  <2>3. Recorded(sent, x)
    BY <1>7, <1>10, Zenon DEF Recorded, p
  <2> QED
    BY <1>7, <1>10, <2>1, <2>2, <2>3, Zenon DEF Ruled
<1>r. Recorded(sent, y)
  <2>1. ASSUME NEW b \in Bnst, b > p - 1, b # Last
        PROVE  /\ y.type[b] = ChoiceFor(sent, y.head, b, y.head[b]).type
               /\ y.dflt[b] = ChoiceFor(sent, y.head, b, y.head[b]).dflt
    <3>1. b = p \/ (b > p /\ b # p)
      BY <1>12, <2>1, Zenon
    <3>2. \A q \in Bnst : q > b => q # p
      BY <1>4, <3>1 DEF Bnst
    <3>s. \A q \in Bnst : q > b => y.head[q] = Top.head[q]
      BY <1>9, <3>2, Zenon
    <3>3. ASSUME NEW e
          PROVE  ChoiceFor(sent, y.head, b, e) = ChoiceFor(sent, Top.head, b, e)
      BY <3>s, ChoiceSame
    <3>4. CASE b = p
      <4>1. c = ChoiceFor(sent, Top.head, p, c.to)
        BY <1>1, <1>10, Zenon DEF Recorded, p
      <4> QED
        BY <1>9, <1>t, <3>3, <3>4, <4>1, Zenon
    <3>5. CASE b > p /\ b # p
      <4>1. /\ Top.type[b] = ChoiceFor(sent, Top.head, b, Top.head[b]).type
            /\ Top.dflt[b] = ChoiceFor(sent, Top.head, b, Top.head[b]).dflt
        <5>1. b > Top.pos /\ b # Last
          BY <2>1, <3>5, Zenon DEF p
        <5> QED
          BY <1>10, <5>1, Zenon DEF Recorded
      <4> QED
        BY <1>9, <1>t, <3>3, <3>5, <4>1, Zenon
    <3> QED
      BY <3>1, <3>4, <3>5, Zenon
  <2>2. ASSUME NEW b \in Bnst, ~ (b > p - 1 /\ b # Last)
        PROVE  y.type[b] = "D" /\ y.dflt[b] = 0
    <3>1. b # p /\ ~ (b > p /\ b # Last)
      BY <1>4, <2>2 DEF Bnst
    <3>2. Top.type[b] = "D" /\ Top.dflt[b] = 0
      BY <1>10, <3>1, Zenon DEF Recorded, p
    <3> QED
      BY <1>t, <3>1, <3>2, Zenon
  <2> QED
    BY <1>8, <2>1, <2>2, Zenon DEF Recorded
<1>15. Ruled(sent, y)
  <2>1. ASSUME NEW b \in Bnst, b > p - 1, b # Last
        PROVE  y.head[b] \in Allowed(sent, y.head, b)
    <3>1. b = p \/ b > p
      BY <1>12, <2>1, Zenon
    <3>2. \A q \in Bnst : q > b => q # p
      BY <1>4, <3>1 DEF Bnst
    <3>3. Allowed(sent, y.head, b) = Allowed(sent, Top.head, b)
      BY <1>9, <3>2, AllowedSame, Zenon
    <3>4. CASE b = p
      BY <1>9, <1>10, <1>11, <3>3, <3>4, Zenon
    <3>5. CASE b > p
      BY <1>9, <1>10, <1>12, <2>1, <3>3, <3>5, Zenon
    <3> QED
      BY <3>1, <3>4, <3>5, Zenon
  <2> QED
    BY <1>8, <1>13, <1>r, <2>1, Zenon DEF Ruled
<1>16. Inner(y, x)
  <2>1. ASSUME NEW d \in x.todo
        PROVE  c.to < d.to
    <3>1. d \in Top.todo /\ d.to # c.to /\ c.to <= d.to
      BY <1>5, <1>7, <1>10, <2>1, Zenon
    <3>2. d.to \in Int /\ c.to \in Int
      BY <1>2, <1>5, <3>1, NAssumption DEF Activations
    <3> QED
      BY <3>1, <3>2
  <2> QED
    BY <1>1, <1>4, <1>7, <1>8, <1>9, <1>11, <1>12, <2>1, Zenon DEF Inner
<1>17. ASSUME NEW z \in GoodActs(sent), Inner(stack[1], z)
       PROVE  Inner(x, z) /\ Inner(y, z)
  <2>1. /\ ~ z.fresh /\ p < z.pos
        /\ \A b \in Bnst : b > z.pos => Top.head[b] = z.head[b]
        /\ Top.head[z.pos] \notin Tos(z.todo)
        /\ \A d \in z.todo : Top.head[z.pos] < d.to
    BY <1>2, <1>17, Zenon DEF Inner, p
  <2>2. z.pos \in Bnst /\ z.pos # p /\ p - 1 < z.pos /\ \A b \in Bnst : b > z.pos => b # p
    <3>1. z.pos \in -1 .. N - 2
      BY Zenon DEF GoodActs
    <3> QED
      BY <1>3, <2>1, <3>1, NAssumption DEF Bnst
  <2>3. Inner(x, z)
    BY <1>7, <2>1, Zenon DEF Inner
  <2>4. Inner(y, z)
    BY <1>8, <1>9, <2>1, <2>2, Zenon DEF Inner
  <2> QED
    BY <2>3, <2>4
<1>18. ASSUME NEW h
       PROVE  Pending(h, stack[1]) <=> Pending(h, x) \/ Pending(h, y)
  <2>1. Pending(h, stack[1]) <=> (\A b \in Bnst : b > p => h[b] = Top.head[b]) /\ h[p] \in Tos(Top.todo)
    BY <1>1, <1>2, Zenon DEF Pending, p
  <2>2. Pending(h, x) <=> (\A b \in Bnst : b > p => h[b] = Top.head[b]) /\ h[p] \in Tos(x.todo)
    BY <1>1, <1>7, Zenon DEF Pending
  <2>3. Pending(h, y) <=> \A b \in Bnst : b > p - 1 => h[b] = y.head[b]
    BY <1>8, Zenon DEF Pending
  <2>4. p > p - 1
    BY <1>4
  <2>5. Pending(h, y) <=> (\A b \in Bnst : b > p => h[b] = Top.head[b]) /\ h[p] = c.to
    BY <1>4, <1>9, <1>12, <2>3, <2>4, Zenon
  <2> QED
    BY <1>11, <2>1, <2>2, <2>5, Zenon
<1>19. PICK st, q : st = stack /\ q = stack' /\ q = <<y, x>> \o Tail(st)
  BY <1>5, <1>6, Zenon DEF p
<1>20. Nested(q) /\ (\A n \in DOMAIN q : Ruled(sent, q[n])) /\ Left(sent, q) = Left(sent, st)
  <2>1. /\ st \in Seq(GoodActs(sent)) /\ st # <<>> /\ Nested(st)
        /\ \A n \in DOMAIN st : Ruled(sent, st[n])
        /\ \A z \in GoodActs(sent) : Inner(st[1], z) => Inner(x, z) /\ Inner(y, z)
        /\ \A h \in Structures(sent) : Pending(h, st[1]) <=> Pending(h, x) \/ Pending(h, y)
    BY <1>1, <1>2, <1>17, <1>18, <1>19, Zenon
  <2>2. Divided(GoodActs(sent), sent, st[1], x, y)
    BY <1>14, <1>15, <1>16, <2>1, Zenon DEF Divided
  <2>3. q = Pushed(st, x, y)
    BY <1>19, Zenon DEF Pushed
  <2> QED
    BY <2>1, <2>2, <2>3, PushedKeeps
<1>21. /\ Nested(stack') /\ (\A n \in DOMAIN stack' : Ruled(sent, stack'[n]))
       /\ Left(sent, stack') = Left(sent, stack)
  BY <1>19, <1>20, Zenon
<1>22. UNCHANGED <<sent, best, Possibility, dpndID, bnst, phase>>
  BY Zenon DEF Descend
<1> QED
  BY <1>1, <1>21, <1>22, SameLeft

\* What has been taken off the stack.
LEMMA Popped ==
  ASSUME IInv, SearchInv, phase = "search", stack # <<>>, stack' = Tail(stack)
  PROVE  /\ Nested(stack') /\ (\A n \in DOMAIN stack' : Ruled(sent, stack'[n]))
         /\ \A h \in Structures(sent) : h \in Left(sent, stack) <=> Pending(h, Top) \/ h \in Left(sent, stack')
         /\ Top.head \notin Left(sent, stack')
         /\ Left(sent, stack) \subseteq Structures(sent) /\ Left(sent, stack') \subseteq Structures(sent)
<1>1. /\ stack \in Seq(GoodActs(sent)) /\ Top = stack[1]
      /\ Nested(stack) /\ (\A n \in DOMAIN stack : Ruled(sent, stack[n]))
  BY TopFacts
<1>2. PICK st, q : st = stack /\ q = stack' /\ q = Tail(st)
  BY Zenon
<1>3. /\ st \in Seq(GoodActs(sent)) /\ st # <<>> /\ Nested(st)
      /\ \A n \in DOMAIN st : Ruled(sent, st[n])
  BY <1>1, <1>2, Zenon
<1>4. /\ Nested(q) /\ (\A n \in DOMAIN q : Ruled(sent, q[n]))
      /\ \A h \in Structures(sent) : h \in Left(sent, st) <=> Pending(h, st[1]) \/ h \in Left(sent, q)
      /\ st[1].head \notin Left(sent, q)
  BY <1>2, <1>3, PoppedKeeps
<1>5. \A z : Left(sent, z) \subseteq Structures(sent)
  BY Zenon DEF Left
<1> QED
  BY <1>1, <1>2, <1>4, <1>5, Zenon

\* The end of an activation: it has nothing left to try.
LEMMA ReturnSearch ==
  ASSUME IInv, SearchInv, Return
  PROVE  SearchInv' /\ Left(sent, stack') = Left(sent, stack)
<1>1. /\ phase = "search" /\ stack # <<>> /\ ~ Top.fresh /\ Top.todo = {} /\ stack' = Tail(stack)
      /\ UNCHANGED <<sent, best, Possibility, dpndID, bnst, phase>>
  BY Zenon DEF Return
<1>2. /\ Nested(stack') /\ (\A n \in DOMAIN stack' : Ruled(sent, stack'[n]))
      /\ \A h \in Structures(sent) : h \in Left(sent, stack) <=> Pending(h, Top) \/ h \in Left(sent, stack')
      /\ Left(sent, stack) \subseteq Structures(sent) /\ Left(sent, stack') \subseteq Structures(sent)
  BY <1>1, Popped
<1>3. \A h : ~ Pending(h, Top)
  <2>1. \A t : t \notin Tos({})
    BY Zenon DEF Tos
  <2> QED
    BY <1>1, <2>1, Zenon DEF Pending
<1>4. Left(sent, stack') = Left(sent, stack)
  BY <1>2, <1>3, Zenon
<1> QED
  BY <1>1, <1>2, <1>4, SameLeft

\* The innermost activation is beyond the first phrase.
LEMMA CompleteFacts ==
  ASSUME IInv, SearchInv, Complete
  PROVE  /\ \A h \in Structures(sent) : Pending(h, Top) <=> h = Top.head
         /\ Impossible(Top.head) => Top.head \notin Structures(sent)
         /\ ~ Impossible(Top.head) => Top.head \in Structures(sent)
<1>1. IsSentence(sent) /\ phase = "search" /\ stack # <<>> /\ Top.pos = -1
  BY DEF Complete, IInv
<1>2. Top \in GoodActs(sent) /\ Top \in Activations /\ Ruled(sent, Top)
  BY <1>1, TopFacts
<1>3. Top.fresh /\ Top.head[Last] = -1 /\ Top.head \in Heads
  BY <1>1, <1>2 DEF GoodActs, Activations
<1>4. \A b \in Bnst : b > -1
  BY DEF Bnst
<1>5. Structures(sent) = {h \in Heads : IsStructure(sent, h)}
  BY <1>1, StructuresAre
<1>6. ASSUME NEW h \in Structures(sent)
      PROVE  Pending(h, Top) <=> h = Top.head
  <2>1. Pending(h, Top) <=> \A b \in Bnst : h[b] = Top.head[b]
    BY <1>1, <1>3, <1>4, Zenon DEF Pending
  <2>2. \A f, g \in Heads : (\A b \in Bnst : f[b] = g[b]) => f = g
    BY DEF Heads
  <2>3. h \in Heads
    BY <1>5, <1>6, Zenon
  <2> QED
    BY <1>3, <2>1, <2>2, <2>3, Zenon
<1>7. Impossible(Top.head) => Top.head \notin Structures(sent)
  BY <1>5, Zenon DEF IsStructure
<1>8. ASSUME ~ Impossible(Top.head)
      PROVE  Top.head \in Structures(sent)
  <2>1. \A b \in Bnst : b # Last => Top.head[b] \in Allowed(sent, Top.head, b)
    BY <1>1, <1>2, <1>4, Zenon DEF Ruled
  <2> QED
    BY <1>3, <1>5, <1>8, <2>1, Zenon DEF IsStructure
<1> QED
  BY <1>6, <1>7, <1>8

\* A complete list of heads that takes over a head on the wrong side.
LEMMA DropSearch ==
  ASSUME IInv, SearchInv, DropImpossible
  PROVE  SearchInv' /\ Left(sent, stack') = Left(sent, stack)
<1>1. /\ Complete /\ phase = "search" /\ stack # <<>> /\ Impossible(Top.head) /\ stack' = Tail(stack)
      /\ UNCHANGED <<sent, best, Possibility, dpndID, bnst, phase>>
  BY Zenon DEF DropImpossible, Complete
<1>2. /\ Nested(stack') /\ (\A n \in DOMAIN stack' : Ruled(sent, stack'[n]))
      /\ \A h \in Structures(sent) : h \in Left(sent, stack) <=> Pending(h, Top) \/ h \in Left(sent, stack')
      /\ Left(sent, stack) \subseteq Structures(sent) /\ Left(sent, stack') \subseteq Structures(sent)
  BY <1>1, Popped
<1>3. \A h \in Structures(sent) : ~ Pending(h, Top)
  BY <1>1, CompleteFacts, Zenon
<1>4. Left(sent, stack') = Left(sent, stack)
  BY <1>2, <1>3, Zenon
<1> QED
  BY <1>1, <1>2, <1>4, SameLeft

\* A structure is evaluated: it was left, and no longer is.
LEMMA EvaluateSearch ==
  ASSUME IInv, SearchInv, Evaluate
  PROVE  SearchInv' /\ Left(sent, stack') = Left(sent, stack) \ {Top.head} /\ Top.head \in Left(sent, stack)
<1>1. /\ Complete /\ phase = "search" /\ stack # <<>> /\ ~ Impossible(Top.head) /\ stack' = Tail(stack)
  BY Zenon DEF Evaluate, Complete
<1>2. /\ Nested(stack') /\ (\A n \in DOMAIN stack' : Ruled(sent, stack'[n]))
      /\ \A h \in Structures(sent) : h \in Left(sent, stack) <=> Pending(h, Top) \/ h \in Left(sent, stack')
      /\ Top.head \notin Left(sent, stack')
      /\ Left(sent, stack) \subseteq Structures(sent) /\ Left(sent, stack') \subseteq Structures(sent)
  BY <1>1, Popped
<1>3. /\ Top.head \in Structures(sent)
      /\ \A h \in Structures(sent) : Pending(h, Top) <=> h = Top.head
  BY <1>1, CompleteFacts, Zenon
<1>4. Left(sent, stack') = Left(sent, stack) \ {Top.head} /\ Top.head \in Left(sent, stack)
  BY <1>2, <1>3, Zenon
<1>5. IsSentence(sent) /\ dpndID \in Nat /\ Top.head \in Heads
  <2>1. IsSentence(sent) /\ dpndID \in Nat /\ Top \in Activations
    BY <1>1, TopFacts DEF IInv, ResultInv
  <2> QED
    BY <2>1 DEF Activations
<1>6. IsFiniteSet(Left(sent, stack))
  <2>1. IsFiniteSet(Structures(sent))
    BY <1>5, StructuresAre
  <2> QED
    BY <1>2, <2>1, FS_Subset
<1>7. /\ Cardinality(Left(sent, stack')) = Cardinality(Left(sent, stack)) - 1
      /\ Cardinality(Left(sent, stack)) \in Nat
  BY <1>4, <1>6, FS_RemoveElement, FS_CardinalityType
<1>8. /\ sent' = sent /\ phase' = phase
      /\ ~ sent.caseMode => dpndID' = dpndID + 1
      /\ best' = best \/ best'.head = Resolved(Top.head)
  <2> DEFINE h == Resolved(Top.head)
  <2>1. sent' = sent /\ phase' = phase /\ dpndID' = IF sent.caseMode THEN dpndID ELSE dpndID + 1
    BY DEF Evaluate
  <2>2. PICK dpnd : dpnd = [head |-> h, type |-> Top.type, dflt |-> Top.dflt]
    OBVIOUS
  <2>3. Top \in Activations
    BY <1>1, TopFacts
  <2>4. dpnd.head = h
    BY <2>2
  <2>5. best' = best \/ best'.head = dpnd.head
    BY <2>2 DEF Evaluate
  <2> QED
    BY <2>1, <2>4, <2>5, Zenon
<1>9. /\ ~ sent.caseMode => dpndID + Cardinality(Left(sent, stack)) = Cardinality(Structures(sent))
      /\ best.score # Floor => \E h \in Structures(sent) : best.head = Resolved(h)
  BY <1>1, Zenon DEF SearchInv
<1>10. ~ sent'.caseMode => dpndID' + Cardinality(Left(sent', stack')) = Cardinality(Structures(sent'))
  <2>1. ~ sent.caseMode => dpndID' + Cardinality(Left(sent, stack')) = dpndID + Cardinality(Left(sent, stack))
    BY <1>5, <1>7, <1>8
  <2> QED
    BY <1>8, <1>9, <2>1, Zenon
<1>11. best'.score # Floor => \E h \in Structures(sent') : best'.head = Resolved(h)
  <2>1. CASE best' = best
    BY <1>8, <1>9, <2>1, Zenon
  <2>2. CASE best'.head = Resolved(Top.head)
    BY <1>3, <1>8, <2>2, Zenon
  <2> QED
    BY <1>8, <2>1, <2>2
<1>12. \A n \in DOMAIN stack' : Ruled(sent', stack'[n])
  BY <1>2, <1>8, Zenon
<1>13. SearchExact'
  BY <1>1, <1>8 DEF SearchExact
<1> QED
  BY <1>2, <1>4, <1>10, <1>11, <1>12, <1>13, Zenon DEF SearchInv

\* The end of the search: nothing is left.
LEMMA EndSearch ==
  ASSUME IInv, SearchInv, Finish \/ Timeout
  PROVE  SearchInv'
<1>1. phase = "search" /\ phase' # "search" /\ sent' = sent /\ dpndID' = dpndID
  BY DEF Finish, Timeout
<1>2. ASSUME phase' \in {"chosen", "default"}
      PROVE  stack = <<>> /\ (phase' = "chosen" => Possibility # 0 /\ best' = best)
  BY <1>2 DEF Finish, Timeout, Found
<1>3. ASSUME stack = <<>>
      PROVE  Cardinality(Left(sent, stack)) = 0
  <2>1. DOMAIN stack = {}
    BY <1>3
  <2>2. Left(sent, stack) = {}
    BY <2>1, Zenon DEF Left
  <2> QED
    BY <2>2, FS_EmptySet
<1>4. /\ ~ sent.caseMode => dpndID + Cardinality(Left(sent, stack)) = Cardinality(Structures(sent))
      /\ best.score # Floor => \E h \in Structures(sent) : best.head = Resolved(h)
  BY <1>1, Zenon DEF SearchInv
<1>5. dpndID \in Nat /\ (Possibility # 0 => best.score # Floor)
  BY <1>1 DEF IInv, BestInv, ResultInv
<1>6. ASSUME phase' \in {"chosen", "default"}
      PROVE  /\ ~ sent'.caseMode => dpndID' = Cardinality(Structures(sent'))
             /\ phase' = "chosen" => \E h \in Structures(sent') : best'.head = Resolved(h)
  <2>1. dpndID + Cardinality(Left(sent, stack)) = dpndID
    BY <1>2, <1>3, <1>5, <1>6
  <2>2. ~ sent'.caseMode => dpndID' = Cardinality(Structures(sent'))
    BY <1>1, <1>4, <2>1, Zenon
  <2>3. phase' = "chosen" => \E h \in Structures(sent) : best.head = Resolved(h)
    BY <1>2, <1>4, <1>5, <1>6, Zenon
  <2> QED
    BY <1>1, <1>2, <1>6, <2>2, <2>3, Zenon
<1>7. SearchExact'
  BY <1>6, Zenon DEF SearchExact
<1> QED
  BY <1>1, <1>7, Zenon DEF SearchInv

\* Nothing is decided at first, and everything is left.
LEMMA InitSearch == Init => SearchInv /\ Left(sent, stack) = Structures(sent)
<1> SUFFICES ASSUME Init
             PROVE  SearchInv /\ Left(sent, stack) = Structures(sent)
  OBVIOUS
<1>1. IInv /\ IsSentence(sent)
  BY InitIInv DEF IInv
<1>2. /\ phase = "search" /\ stack = <<FirstActivation>> /\ dpndID = 0 /\ best.score = Floor
  BY DEF Init
<1> DEFINE a == FirstActivation
           none == [b \in Bnst |-> -1]
<1>3. /\ a.pos = N - 2 /\ a.head = none /\ a.todo = {} /\ a.fresh = TRUE
      /\ \A b \in Bnst : a.type[b] = "D" /\ a.dflt[b] = 0
  BY DEF FirstActivation, Activation
<1>4. /\ \A b \in Bnst : a.head[b] = -1
      /\ \A b \in Bnst : ~ (b > a.pos /\ b # Last)
      /\ \A b \in Bnst : b > a.pos => b = Last
  <2>1. \A b \in Bnst : (b > N - 2 => b = Last) /\ ~ (b > N - 2 /\ b # Last)
    BY NAssumption DEF Bnst, Last
  <2> QED
    BY <1>3, <2>1
<1>5. a.mask = Bnst
  <2>1. ~ (0 <= N - 2 /\ N - 2 < N - 2)
    BY NAssumption
  <2> QED
    BY <2>1 DEF FirstActivation, Activation
<1>6. Uncovered(a.head, a.pos) = Bnst
  <2>1. (a.pos + 1) .. Last = {Last} /\ Last \in Bnst
    BY <1>3, NAssumption DEF Bnst, Last
  <2>2. \A i \in Bnst : ~ (Last < i)
    BY PhraseBounds, NAssumption DEF Bnst, Last
  <2> QED
    BY <2>1, <2>2, Zenon DEF Uncovered
<1> HIDE DEF a
<1>7. Ruled(sent, a)
  <2>1. \A c : c \notin a.todo
    BY <1>3, Zenon
  <2>2. Recorded(sent, a)
    BY <1>3, <1>4, <2>1, Zenon DEF Recorded
  <2> QED
    BY <1>3, <1>4, <1>5, <1>6, <2>1, <2>2, Zenon DEF Ruled
<1>8. stack = <<a>>
  BY <1>2, Zenon DEF a
<1>9. DOMAIN stack = {1} /\ stack[1] = a
  BY <1>8
<1>10. Nested(stack) /\ \A n \in DOMAIN stack : Ruled(sent, stack[n])
  <2>1. \A m, n \in {1} : ~ (m < n)
    OBVIOUS
  <2> QED
    BY <1>7, <1>9, <2>1, Zenon DEF Nested
<1>11. Structures(sent) = {h \in Heads : IsStructure(sent, h)} /\ IsFiniteSet(Structures(sent))
  BY <1>1, StructuresAre
<1>12. ASSUME NEW h \in Structures(sent)
       PROVE  Pending(h, a)
  <2>1. h[Last] = -1
    BY <1>11, <1>12, Zenon DEF IsStructure
  <2> QED
    BY <1>3, <1>4, <2>1, Zenon DEF Pending
<1>13. Left(sent, stack) = Structures(sent)
  BY <1>9, <1>12, Zenon DEF Left
<1>14. dpndID + Cardinality(Left(sent, stack)) = Cardinality(Structures(sent))
  <2>1. Cardinality(Structures(sent)) \in Nat
    BY <1>11, FS_CardinalityType
  <2> QED
    BY <1>2, <1>13, <2>1
<1>15. SearchExact
  BY <1>2 DEF SearchExact
<1> QED
  BY <1>2, <1>10, <1>13, <1>14, <1>15, Zenon DEF SearchInv

\* So every step keeps to it.
LEMMA NextSearch ==
  ASSUME IInv, SearchInv, [Next]_vars
  PROVE  SearchInv'
<1>1. CASE MarkParallel \/ FollowEarlier \/ DecideUnique \/ DecideAll \/ DecideNoHead
  BY <1>1, PhraseSearch
<1>2. CASE Descend
  BY <1>2, DescendSearch
<1>3. CASE Return
  BY <1>3, ReturnSearch
<1>4. CASE DropImpossible
  BY <1>4, DropSearch
<1>5. CASE Evaluate
  BY <1>5, EvaluateSearch
<1>6. CASE Finish \/ Timeout
  BY <1>6, EndSearch
<1>7. CASE UNCHANGED vars
  <2>1. /\ stack' = stack /\ UNCHANGED <<sent, best, Possibility, dpndID, bnst, phase>>
    BY <1>7 DEF vars
  <2>2. sent' = sent /\ stack' = stack /\ best' = best /\ dpndID' = dpndID /\ phase' = phase
    BY <2>1
  <2> QED
    BY <2>2, Zenon DEF SearchInv, SearchExact
<1> QED
  BY <1>1, <1>2, <1>3, <1>4, <1>5, <1>6, <1>7 DEF Next, Step, Done

\* An undisturbed search evaluates every structure the rules admit exactly once,
\* for every length of sentence and every matrix: the choices still listed in the
\* activations of decide_dpnd stand for the structures left, no two of them for
\* the same one, and every mask on the stack excludes what the finished part
\* covers.  What is handed on is one of them, its taken-over heads resolved.
THEOREM SearchExactAlways ==
  ASSUME ScoresAboveFloor
  PROVE  Spec => []SearchExact
<1>1. SearchInv => SearchExact
  BY DEF SearchInv
<1>2. IInv /\ [Next]_vars => IInv'
  BY NextIInv
<1>3. IInv /\ SearchInv /\ [Next]_vars => SearchInv'
  BY NextSearch
<1> QED
  BY <1>1, <1>2, <1>3, InitIInv, InitSearch, PTL DEF Spec
-----------------------------------------------------------------------------
(* The best structure                                                      *)

Evaluated(s, st) == Structures(s) \ Left(s, st)

\* During the search: what was evaluated comes before what is left, and the best
\* structure is the foremost of those evaluated.
FirstInv ==
  /\ \A g \in Evaluated(sent, stack) : Points(sent, g) \in Int
  /\ \A g \in Evaluated(sent, stack) : \A h \in Left(sent, stack) : Earlier(g, h)
  /\ Possibility = 0 => best.score = Floor
  /\ best.score # Floor => ~ sent.caseMode \/ sent.treeFits
  /\ best.score = Floor /\ (~ sent.caseMode \/ sent.treeFits) =>
       \A h \in Evaluated(sent, stack) : Points(sent, h) <= Floor
  /\ best.score # Floor =>
       \E h \in Evaluated(sent, stack) :
         Stores(best, sent, h) /\ Foremost(sent, h, Evaluated(sent, stack))

\* The inductive invariant.
HandedInv ==
  /\ phase = "search" => FirstInv
  /\ BestHanded

\* What the innermost activation has recorded of a complete structure is what
\* belongs to its heads.
LEMMA TopRecord ==
  ASSUME IInv, SearchInv, Complete
  PROVE  DpndOf(sent, Top.head) = [head |-> Resolved(Top.head), type |-> Top.type, dflt |-> Top.dflt]
<1>1. phase = "search" /\ stack # <<>> /\ Top.pos = -1
  BY DEF Complete
<1>2. Top \in Activations /\ Recorded(sent, Top)
  <2>1. Top \in Activations /\ Ruled(sent, Top)
    BY <1>1, TopFacts
  <2> QED
    BY <2>1, Zenon DEF Ruled
<1>3. \A b \in Bnst : b > -1
  BY DEF Bnst
<1>4. ASSUME NEW b \in Bnst
      PROVE  /\ Top.type[b] = IF b = Last THEN "D" ELSE ChoiceFor(sent, Top.head, b, Top.head[b]).type
             /\ Top.dflt[b] = IF b = Last THEN 0 ELSE ChoiceFor(sent, Top.head, b, Top.head[b]).dflt
  BY <1>1, <1>2, <1>3, Zenon DEF Recorded
<1>5. /\ Top.type = [p \in Bnst |-> IF p = Last THEN "D" ELSE ChoiceFor(sent, Top.head, p, Top.head[p]).type]
      /\ Top.dflt = [p \in Bnst |-> IF p = Last THEN 0 ELSE ChoiceFor(sent, Top.head, p, Top.head[p]).dflt]
  <2>1. Top.type \in [Bnst -> DpndTypes] /\ Top.dflt \in [Bnst -> Nat]
    BY <1>2 DEF Activations, Types, Distances
  <2> QED
    BY <1>4, <2>1
<1> QED
  BY <1>5, Zenon DEF DpndOf

\* A complete structure comes before all that its outer activations have left.
LEMMA TopEarlier ==
  ASSUME IInv, SearchInv, Complete, stack' = Tail(stack), NEW h \in Left(sent, stack')
  PROVE  Earlier(Top.head, h)
<1>1. /\ stack \in Seq(GoodActs(sent)) /\ stack # <<>> /\ Top = stack[1] /\ Nested(stack)
  BY TopFacts DEF Complete
<1>2. PICK st, q : st = stack /\ q = stack' /\ q = Tail(st)
  BY Zenon
<1>3. PICK n \in DOMAIN q : Pending(h, q[n])
  BY <1>2, Zenon DEF Left
<1>4. /\ st \in Seq(GoodActs(sent)) /\ st # <<>>
  BY <1>1, <1>2, Zenon
<1>5. /\ 1 \in DOMAIN st /\ n + 1 \in DOMAIN st /\ 1 < n + 1 /\ q[n] = st[n + 1]
      /\ st[n + 1] \in GoodActs(sent)
  <2>1. \A S : \A z \in Seq(S) : \A i \in DOMAIN z : z[i] \in S
    OBVIOUS
  <2>2. /\ 1 \in DOMAIN st
        /\ \A m \in DOMAIN q : m \in Int /\ m + 1 \in DOMAIN st /\ m + 1 > 1 /\ q[m] = st[m + 1]
    BY <1>2, <1>4, PoppedOff
  <2> QED
    BY <1>4, <2>1, <2>2
<1>6. Inner(st[1], st[n + 1])
  BY <1>1, <1>2, <1>5, Zenon DEF Nested
<1> DEFINE y == st[n + 1]
<1>7. /\ ~ y.fresh
      /\ \A b \in Bnst : b > y.pos => Top.head[b] = y.head[b]
      /\ \A c \in y.todo : Top.head[y.pos] < c.to
  BY <1>1, <1>2, <1>6, Zenon DEF Inner
<1>8. /\ \A b \in Bnst : b > y.pos => h[b] = y.head[b]
      /\ h[y.pos] \in Tos(y.todo)
  BY <1>3, <1>5, <1>7, Zenon DEF Pending
<1>9. Top.head[y.pos] < h[y.pos]
  BY <1>7, <1>8, Zenon DEF Tos
<1>10. y.pos \in Bnst
  BY <1>5, <1>7, NAssumption DEF GoodActs, Bnst
<1> QED
  BY <1>7, <1>8, <1>9, <1>10, Zenon DEF Earlier

\* A step of the search that leaves what is left.
LEMMA SameHanded ==
  ASSUME HandedInv, phase = "search", UNCHANGED <<sent, best, Possibility, dpndID, bnst, phase>>,
         Left(sent, stack') = Left(sent, stack)
  PROVE  HandedInv'
<1>1. FirstInv
  BY Zenon DEF HandedInv
<1>2. sent' = sent /\ best' = best /\ Possibility' = Possibility /\ phase' = phase
  OBVIOUS
<1>3. Evaluated(sent', stack') = Evaluated(sent, stack) /\ Left(sent', stack') = Left(sent, stack)
  BY <1>2, Zenon DEF Evaluated
<1>4. FirstInv'
  BY <1>1, <1>2, <1>3, Zenon DEF FirstInv
<1>5. BestHanded'
  BY <1>2 DEF BestHanded
<1> QED
  BY <1>4, <1>5, Zenon DEF HandedInv

\* dpnd_evaluation or call_case_analysis of the next structure.
LEMMA EvaluateHanded ==
  ASSUME ScoresAboveFloor, IInv, SearchInv, HandedInv, Evaluate
  PROVE  HandedInv'
<1> DEFINE t == Top.head
           d == [head |-> Resolved(t), type |-> Top.type, dflt |-> Top.dflt]
           score == Score(sent, d)
           E == Evaluated(sent, stack)
           F == Evaluated(sent, stack')
           counts == ~ sent.caseMode \/ sent.treeFits
           better == counts /\ score > best.score
<1>1. /\ Complete /\ phase = "search" /\ stack # <<>> /\ Top.pos = -1 /\ ~ Impossible(t)
      /\ stack' = Tail(stack)
      /\ sent' = sent /\ phase' = phase
  BY Zenon DEF Evaluate, Complete
<1>2. /\ Left(sent, stack') = Left(sent, stack) \ {t} /\ t \in Left(sent, stack)
  BY EvaluateSearch
<1>3. F = E \cup {t} /\ t \notin E /\ t \in Structures(sent)
  BY <1>2, Zenon DEF Left, Evaluated
<1>4. FirstInv
  BY <1>1, Zenon DEF HandedInv
<1>5. DpndOf(sent, t) = d
  BY <1>1, TopRecord
<1>6. /\ best' = IF better
                 THEN [head |-> d.head, type |-> d.type, dflt |-> d.dflt,
                       score |-> score, ID |-> IF sent.caseMode THEN 0 ELSE dpndID]
                 ELSE best
      /\ Possibility' = IF better \/ (sent.caseMode /\ counts) THEN Possibility + 1 ELSE Possibility
  BY DEF Evaluate
<1>7. score \in Int /\ (sent.caseMode => score > Floor)
  <2>1. Top \in GoodActs(sent) /\ Top \in Activations
    BY <1>1, TopFacts
  <2>2. Resolved(t) \in [Bnst -> -1 .. N - 1]
    BY <1>1, <2>1, ResolvedRight DEF IInv
  <2>3. Resolved(t) \in Heads
    BY <2>2, NAssumption DEF Heads
  <2>4. d \in Dpnds
    BY <2>1, <2>3 DEF Activations, Dpnds
  <2> HIDE DEF d
  <2> QED
    BY <2>4 DEF ScoresAboveFloor, IInv
<1>8. Points(sent, t) = score
  BY <1>5, Zenon DEF Points
<1>9. best.score \in Int /\ best.score >= Floor /\ Possibility \in Nat /\ Floor \in Int
  BY <1>1 DEF IInv, BestInv, BestRecords, ResultInv, Floor
<1>10. ASSUME NEW g \in F, NEW h \in Left(sent, stack')
       PROVE  Earlier(g, h)
  <2>1. CASE g = t
    BY <1>1, <2>1, TopEarlier
  <2>2. CASE g \in E
    BY <1>2, <1>4, <2>2, Zenon DEF FirstInv
  <2> QED
    BY <1>3, <2>1, <2>2
<1>11. \A g \in F : Points(sent, g) \in Int
  BY <1>3, <1>4, <1>7, <1>8, Zenon DEF FirstInv
<1>12. /\ best.score # Floor => \E h \in E : Stores(best, sent, h) /\ Foremost(sent, h, E)
       /\ best.score = Floor /\ counts => \A h \in E : Points(sent, h) <= Floor
       /\ Possibility = 0 => best.score = Floor
       /\ best.score # Floor => counts
       /\ \A g \in E : Earlier(g, t)
  BY <1>2, <1>4, Zenon DEF FirstInv
<1> HIDE DEF E, F, score
<1>13. CASE better
  <2>1. /\ best'.head = d.head /\ best'.type = d.type /\ best'.dflt = d.dflt /\ best'.score = score
        /\ Possibility' = Possibility + 1
    BY <1>6, <1>13
  <2> HIDE DEF d
  <2>2. Stores(best', sent, t)
    BY <1>5, <1>8, <2>1, Zenon DEF Stores
  <2>3. ASSUME NEW g \in E
        PROVE  Points(sent, g) < score
    <3>1. CASE best.score = Floor
      BY <1>7, <1>9, <1>11, <1>12, <1>13, <1>3, <3>1
    <3>2. CASE best.score # Floor
      <4>1. PICK h \in E : Stores(best, sent, h) /\ Foremost(sent, h, E)
        BY <1>12, <3>2, Zenon
      <4>2. best.score = Points(sent, h)
        BY <4>1, Zenon DEF Stores
      <4>3. g = h \/ Points(sent, g) < Points(sent, h) \/ Points(sent, g) = Points(sent, h)
        BY <4>1, Zenon DEF Foremost
      <4>4. Points(sent, g) \in Int
        BY <1>3, <1>11, Zenon
      <4> QED
        BY <1>7, <1>9, <1>13, <4>2, <4>3, <4>4
    <3> QED
      BY <3>1, <3>2
  <2>4. Foremost(sent, t, F)
    BY <1>3, <1>8, <2>3, Zenon DEF Foremost
  <2>5. best'.score # Floor /\ Possibility' # 0
    BY <1>9, <1>7, <1>13, <2>1
  <2>6. t \in F
    BY <1>3, Zenon
  <2>7. FirstInv'
    BY <1>1, <1>10, <1>11, <1>13, <2>2, <2>4, <2>5, <2>6, Zenon DEF FirstInv, F
  <2>8. BestHanded'
    BY <1>1 DEF BestHanded
  <2> QED
    BY <2>7, <2>8, Zenon DEF HandedInv
<1>14. CASE ~ better
  <2>1. best' = best
    BY <1>6, <1>14
  <2>2. Possibility' = 0 => best'.score = Floor
    BY <1>6, <1>9, <1>12, <1>14, <2>1
  <2>3. ASSUME best'.score = Floor, counts, NEW h \in F
        PROVE  Points(sent, h) <= Floor
    <3>1. CASE h = t
      BY <1>7, <1>8, <1>9, <1>14, <2>1, <2>3, <3>1
    <3>2. CASE h \in E
      BY <1>12, <2>1, <2>3, <3>2, Zenon
    <3> QED
      BY <1>3, <3>1, <3>2
  <2>4. ASSUME best'.score # Floor
        PROVE  \E h \in F : Stores(best', sent, h) /\ Foremost(sent, h, F)
    <3>1. PICK h \in E : Stores(best, sent, h) /\ Foremost(sent, h, E)
      BY <1>12, <2>1, <2>4, Zenon
    <3>2. best.score = Points(sent, h) /\ h \in F
      BY <1>3, <3>1, Zenon DEF Stores
    <3>3. counts
      BY <1>12, <2>1, <2>4, Zenon
    <3>4. Points(sent, t) < Points(sent, h) \/ Points(sent, t) = Points(sent, h)
      BY <1>7, <1>8, <1>9, <1>14, <3>2, <3>3
    <3>5. Earlier(h, t)
      BY <1>12, Zenon
    <3>6. Foremost(sent, h, F)
      BY <1>3, <3>1, <3>4, <3>5, Zenon DEF Foremost
    <3> QED
      BY <2>1, <3>1, <3>2, <3>6, Zenon
  <2>5. FirstInv'
    BY <1>1, <1>10, <1>11, <1>12, <2>1, <2>2, <2>3, <2>4, Zenon DEF FirstInv, F
  <2>6. BestHanded'
    BY <1>1 DEF BestHanded
  <2> QED
    BY <2>5, <2>6, Zenon DEF HandedInv
<1> QED
  BY <1>13, <1>14

\* The end of the search: everything is evaluated.
LEMMA EndHanded ==
  ASSUME IInv, HandedInv, Finish \/ Timeout
  PROVE  HandedInv'
<1>1. phase = "search" /\ phase' # "search" /\ sent' = sent
  BY DEF Finish, Timeout
<1>2. FirstInv
  BY <1>1, Zenon DEF HandedInv
<1>3. phase' = "chosen" => stack = <<>> /\ Possibility # 0 /\ best' = best /\ bnst' = DpndInfoToBnst(best')
  BY DEF Finish, Timeout, Found
<1>4. phase' = "default" => stack = <<>> /\ (Possibility = 0 \/ ~ sent.treeFits)
  BY DEF Finish, Timeout, Found
<1>5. ASSUME stack = <<>>
      PROVE  Evaluated(sent, stack) = Structures(sent)
  <2>1. DOMAIN stack = {}
    BY <1>5
  <2> QED
    BY <2>1, Zenon DEF Left, Evaluated
<1>6. Possibility # 0 => best.score # Floor
  BY <1>1 DEF IInv, BestInv
<1>7. ASSUME phase' = "chosen"
      PROVE  /\ \E h \in Structures(sent') :
                  Stores(best', sent', h) /\ Foremost(sent', h, Structures(sent'))
             /\ bnst' = DpndInfoToBnst(best')
  BY <1>1, <1>2, <1>3, <1>5, <1>6, <1>7, Zenon DEF FirstInv
<1>8. ASSUME phase' = "default", sent'.treeFits
      PROVE  \A h \in Structures(sent') : Points(sent', h) <= Floor
  BY <1>1, <1>2, <1>4, <1>5, <1>8, Zenon DEF FirstInv
<1> QED
  BY <1>1, <1>7, <1>8, Zenon DEF HandedInv, BestHanded

\* Nothing is evaluated at first.
LEMMA InitHanded == Init => HandedInv
<1> SUFFICES ASSUME Init
             PROVE  HandedInv
  OBVIOUS
<1>1. Evaluated(sent, stack) = {}
  BY InitSearch, Zenon DEF Evaluated
<1>2. best.score = Floor /\ phase = "search"
  BY DEF Init
<1>3. FirstInv
  BY <1>1, <1>2, Zenon DEF FirstInv
<1> QED
  BY <1>2, <1>3 DEF HandedInv, BestHanded

\* What an undisturbed search hands on is the best of all structures the rules
\* admit, and the first of those that score as much: heads, types and distances in
\* Best_mgr belong to one and the same structure, and the phrases get what is in
\* Best_mgr.  For every length of sentence, every matrix and every way to score.
THEOREM BestHandedAlways ==
  ASSUME ScoresAboveFloor
  PROVE  Spec => []BestHanded
<1>1. HandedInv => BestHanded
  BY DEF HandedInv
<1>2. IInv /\ [Next]_vars => IInv'
  BY NextIInv
<1>3. IInv /\ SearchInv /\ [Next]_vars => SearchInv'
  BY NextSearch
<1>4. ASSUME IInv, SearchInv, HandedInv, [Next]_vars
      PROVE  HandedInv'
  <2>1. CASE MarkParallel \/ FollowEarlier \/ DecideUnique \/ DecideAll \/ DecideNoHead
    <3>1. phase = "search" /\ UNCHANGED <<sent, best, Possibility, dpndID, bnst, phase>>
      BY <2>1 DEF MarkParallel, FollowEarlier, DecideUnique, DecideAll, DecideNoHead, Entered, Branch
    <3> QED
      BY <1>4, <2>1, <3>1, PhraseSearch, SameHanded
  <2>2. CASE Descend \/ Return \/ DropImpossible
    <3>1. phase = "search" /\ UNCHANGED <<sent, best, Possibility, dpndID, bnst, phase>>
      BY <2>2, Zenon DEF Descend, Return, DropImpossible, Complete
    <3> QED
      BY <1>4, <2>2, <3>1, DescendSearch, ReturnSearch, DropSearch, SameHanded
  <2>3. CASE Evaluate
    BY <1>4, <2>3, EvaluateHanded
  <2>4. CASE Finish \/ Timeout
    BY <1>4, <2>4, EndHanded
  <2>5. CASE UNCHANGED vars
    <3>1. /\ stack' = stack /\ sent' = sent /\ best' = best /\ Possibility' = Possibility
          /\ bnst' = bnst /\ phase' = phase
      BY <2>5 DEF vars
    <3> QED
      BY <1>4, <3>1, Zenon DEF HandedInv, FirstInv, BestHanded
  <2> QED
    BY <1>4, <2>1, <2>2, <2>3, <2>4, <2>5 DEF Next, Step, Done
<1> QED
  BY <1>1, <1>2, <1>3, <1>4, InitIInv, InitSearch, InitHanded, PTL DEF Spec
=============================================================================
