------------------------------ MODULE CaseMatch ------------------------------
(***************************************************************************)
(* The choice of a case frame for a predicate: find_best_cf                *)
(* (case_analysis.c) matches the case elements of the sentence with the    *)
(* slots of every frame by the recursion of assign_list (case_match.c),    *)
(* keeps the best assignments of each frame in globals, and the best       *)
(* frames in a sorted array of limited size.                               *)
(*                                                                         *)
(* Scores of elements in slots come with the input.  Scores without        *)
(* probabilities are divided by the root of a number of slots; they are    *)
(* represented by their squares, which keeps their order.                  *)
(***************************************************************************)
EXTENDS Integers, Sequences, FiniteSets, SequencesExt, FiniteSetsExt

CONSTANTS
    MAX_MATCH_MAX,   \* equally good assignments kept for a frame
    CMM_MAX,         \* size of the array of frames
    SOTO_THRESHOLD,  \* least score of an outer relation, or of NO
    NOUN_THRESHOLD,  \* least score of a slot of a noun
    Unit,            \* a common multiple of the numbers of slots
    Inputs           \* predicates, frames and options considered

(* A predicate has at least one frame, if only a default one.  A frame scores
   every element in every slot, elements left over, and slots left empty, and
   counts the examples of every slot. *)
IsInput(x) ==
    LET elements == DOMAIN x.elements
    IN  /\ x.elements \in Seq(ToSet(x.elements))
        /\ \A t \in elements : /\ x.elements[t].pp \in Seq(ToSet(x.elements[t].pp)) \ {<<>>}
                              /\ x.elements[t].explicit \in BOOLEAN
        /\ x.frames \in Seq(ToSet(x.frames)) \ {<<>>}
        /\ \A f \in ToSet(x.frames) :
              /\ f.slots \in Seq(ToSet(f.slots))
              /\ f.score \in [elements -> [DOMAIN f.slots -> Int]]
              /\ f.nil \in [elements -> Int]
              /\ f.empty \in [DOMAIN f.slots -> Int]
              /\ f.freq \in [DOMAIN f.slots -> Nat]
        /\ x.closest \in elements \cup {0}

ASSUME LimitsAssumption == MAX_MATCH_MAX \in Nat \ {0} /\ CMM_MAX \in Nat \ {0, 1}
ASSUME UnitAssumption == Unit \in Nat \ {0}
ASSUME InputsAssumption == \A x \in Inputs : IsInput(x)

VARIABLES
    input,      \* the predicate, its frames, and the options
    pc,         \* "select", "match", "choose" or "done"
    cands,      \* numbers of the frames to be matched
    k,          \* the frame in turn
    stack,      \* activations of assign_list
    current,    \* the globals Current_max_*
    cmm,        \* the frames stored, best first
    tie_num,    \* how many of them have the best score
    matched     \* history: what was stored for each frame

vars == <<input, pc, cands, k, stack, current, cmm, tie_num, matched>>

UNASSIGNED == -1
NIL_ASSIGNED == -2
FAILURE == IF input.prob THEN -1001 ELSE -2

Elements == DOMAIN input.elements
Frame == input.frames[cands[k]]
Slots == DOMAIN Frame.slots
Case(s) == Frame.slots[s].case

Assigned(l1) == {t \in Elements : l1[t] \notin {UNASSIGNED, NIL_ASSIGNED}}
Filled(l2) == {s \in DOMAIN l2 : l2[s] # UNASSIGNED}

(* Input elements other than modifiers and nouns without a case. *)
have_real_component == \E t \in Elements : input.elements[t].pp[1] \notin {"mod", "phi"}

(* Without one the frame of all uses stands for the others, and the closest
   element is not looked at. *)
Closest == IF ~input.noun /\ ~have_real_component THEN 0 ELSE input.closest

-----------------------------------------------------------------------------
(* _assign_list: elements with an explicit case come first. *)
Target(l1) ==
    LET open     == {t \in Elements : l1[t] = UNASSIGNED}
        explicit == {t \in open : input.elements[t].explicit}
    IN  IF open = {} THEN 0 ELSE Min(IF explicit # {} THEN explicit ELSE open)

(* A flag that is no slot indexes the word in front of the array. *)
CfAdjacent(frame, flag) == IF flag > 0 THEN frame.slots[flag].adjacent ELSE input.before

check_adjacent_assigned(l1) ==
    \E t \in Elements :
        /\ input.elements[t].adjacent
        /\ l1[t] # NIL_ASSIGNED
        /\ CfAdjacent(Frame, l1[t])

(* Case c of element t may fill slot s, after the assignments made so far. *)
Allowed(l1, l2, t, c, s) ==
    \/ /\ c = Case(s)
       /\ c = "soto" => ~input.elements[t].agent
       /\ c = "ga2" => \E g \in Filled(l2) : Case(g) = "ga"
       /\ c = "no" => check_adjacent_assigned(l1)
    \/ c = "mi" /\ {input.elements[t].sp, Case(s)} \in Frame.samecase

(* What the score of element t in slot s must be for the slot to be taken. *)
GoodEnough(t, s) ==
    LET score == Frame.score[t][s]
        loose == Case(s) \in {"soto", "no"}
    IN  \/ input.prob
        \/ ~loose /\ ~input.noun
        \/ loose /\ score >= SOTO_THRESHOLD
        \/ input.noun /\ score >= NOUN_THRESHOLD

(* Trial number x for element t: a slot, and within it one of the cases.  The
   list at hand keeps the last slot taken while the next ones are tested. *)
Tried(l1, l2, t, acc, x) ==
    LET pps == Len(input.elements[t].pp)
        s   == 1 + ((x - 1) \div pps)
        c   == input.elements[t].pp[1 + ((x - 1) % pps)]
        now == IF acc.slots = <<>> THEN l1 ELSE [l1 EXCEPT ![t] = Last(acc.slots)]
    IN  IF l2[s] = UNASSIGNED /\ Allowed(now, l2, t, c, s)
        THEN [available |-> TRUE,
              slots |-> IF GoodEnough(t, s) THEN Append(acc.slots, s) ELSE acc.slots]
        ELSE acc

(* The slots taken for element t, in order. *)
SlotsTaken(l1, l2, t) ==
    FoldLeft(LAMBDA acc, x : Tried(l1, l2, t, acc, x), [available |-> FALSE, slots |-> <<>>],
             [x \in 1 .. (Len(Frame.slots) * Len(input.elements[t].pp)) |-> x])

(* Staying without a slot is tried last; with probabilities, only if no slot
   was available. *)
Trials(l1, l2, t) ==
    LET taken == SlotsTaken(l1, l2, t)
        nil   == ~(~input.noun /\ input.prob /\ taken.available)
    IN  taken.slots \o (IF nil THEN <<NIL_ASSIGNED>> ELSE <<>>)

Activation(l1, l2, score) ==
    LET t == Target(l1)
    IN  [l1 |-> l1, l2 |-> l2, score |-> score, target |-> t,
         todo |-> IF t = 0 THEN <<>> ELSE Trials(l1, l2, t)]

-----------------------------------------------------------------------------
(* eval_assign_score and eval_assign_prob. *)

Count(l1) == Cardinality(Assigned(l1))
Positions(l1) == SumSet(Assigned(l1))
Crossings(l1) == Cardinality({p \in Assigned(l1) \X Assigned(l1) : p[1] < p[2] /\ l1[p[2]] < l1[p[1]]})

DatElements(l1) ==
    Cardinality({t \in Elements : input.elements[t].oblig \/ l1[t] # NIL_ASSIGNED})

count_pat_element(frame, l2) ==
    Cardinality({s \in DOMAIN l2 : frame.slots[s].oblig \/ l2[s] # UNASSIGNED})

GaFree(l2) == \E s \in DOMAIN l2 : l2[s] = UNASSIGNED /\ Case(s) = "ga"

(* score / sqrt(n), by its square. *)
Normalised(score, n) == IF input.prob THEN score ELSE (score * score * Unit) \div n

ClosestMissed(l1) ==
    Closest > 0 /\ input.elements[Closest].oblig /\ l1[Closest] = NIL_ASSIGNED

OnlyOuter(l2) == Cardinality(Filled(l2)) = 1 /\ \A s \in Filled(l2) : Case(s) = "soto"

LocalScore(l1, l2, score) ==
    LET pat == count_pat_element(Frame, l2)
    IN  IF Count(l1) < DatElements(l1) \/ ClosestMissed(l1) \/ OnlyOuter(l2) THEN -1
        ELSE IF Count(l1) = 0 \/ pat = 0 THEN 0
        ELSE Normalised(score, pat)

(* Every element and every empty slot has its probability. *)
Probability(l1, l2) ==
    SumFunction([t \in Elements |-> IF l1[t] = NIL_ASSIGNED THEN Frame.nil[t] ELSE Frame.score[t][l1[t]]])
    + SumFunction([s \in DOMAIN l2 |-> IF l2[s] = UNASSIGNED THEN Frame.empty[s] ELSE 0])

PureScore(l1, l2, score) == IF input.prob THEN Probability(l1, l2) ELSE score

Merit(l1, l2, score) ==
    IF input.prob
    THEN <<Probability(l1, l2) - (IF ClosestMissed(l1) THEN 500 ELSE 0), 0, 0, 0>>
    ELSE <<LocalScore(l1, l2, score), Count(l1), Positions(l1), -Crossings(l1)>>

Beats(a, b) == \E x \in 1 .. 4 : a[x] > b[x] /\ \A y \in 1 .. x - 1 : a[y] = b[y]

Taken(l1, l2, score) ==
    [lists |-> <<[l1 |-> l1, l2 |-> l2, pure |-> PureScore(l1, l2, score)]>>,
     merit |-> Merit(l1, l2, score),
     sufficiency |-> IF input.prob \/ l2 = <<>> THEN 0
                     ELSE (Cardinality(Filled(l2)) * Unit) \div Len(l2)]

\* A slip: the number of elements is compared before the score.
Evaluated_count(l1, l2, score) ==
    LET merit == Merit(l1, l2, score)
    IN  IF \/ merit[2] > current.merit[2]
           \/ merit[2] = current.merit[2] /\ Beats(merit, current.merit)
        THEN Taken(l1, l2, score)
        ELSE current

(* Ties are kept, but one that fills the nominative replaces all before it. *)
Evaluated(l1, l2, score) ==
    LET merit == Merit(l1, l2, score)
        equal == merit = current.merit
    IN  IF Beats(merit, current.merit) \/ (~input.prob /\ equal /\ ~GaFree(l2))
        THEN Taken(l1, l2, score)
        ELSE IF equal /\ Len(current.lists) < MAX_MATCH_MAX /\ ~(input.prob /\ input.noun)
        THEN [current EXCEPT !.lists = @ \o Taken(l1, l2, score).lists]
        ELSE current

-----------------------------------------------------------------------------
(* find_best_cf: which frames are matched, and in which order they are kept. *)

(* Frames written as the predicate is, or all if none is left. *)
Wanted(f) ==
    /\ ~f.sum
    /\ input.prefer = "kana" => f.kana
    /\ input.prefer = "other" => ~f.kana

InOrder(S) ==
    FoldLeft(LAMBDA acc, i : IF i \in S THEN Append(acc, i) ELSE acc, <<>>,
             [i \in DOMAIN input.frames |-> i])

Candidates ==
    LET all    == DOMAIN input.frames
        sums   == {i \in all : input.frames[i].sum}
        wanted == InOrder({i \in all : Wanted(input.frames[i])})
    IN  IF input.noun \/ have_real_component
        THEN IF wanted = <<>> THEN [i \in all |-> i] ELSE wanted
        ELSE IF Len(input.frames) > 1 /\ sums # {} THEN <<Min(sums)>> ELSE <<1>>

FreshCurrent == [lists |-> <<>>, merit |-> <<FAILURE, 0, 0, 0>>, sufficiency |-> 0]

(* case_frame_match: the score of a frame is that of the closest element. *)
Match ==
    LET first   == current.lists[1]
        closest == Closest > 0 /\ current.merit[1] >= 0 /\ first.l1[Closest] # NIL_ASSIGNED
    IN  [frame |-> cands[k], lists |-> current.lists, sufficiency |-> current.sufficiency,
         score |-> IF closest THEN Normalised(Frame.score[Closest][first.l1[Closest]], 1)
                   ELSE current.merit[1]]

CheckCfClosest(m) == CfAdjacent(input.frames[m.frame], m.lists[1].l1[Closest])

(* Match n goes before match m. *)
Precedes(n, m) ==
    \/ n.score > m.score
    \/ /\ n.score = m.score
       /\ m.score # FAILURE
       /\ IF Closest > 0
          THEN CheckCfClosest(n) /\ ~CheckCfClosest(m)
          ELSE n.sufficiency > m.sufficiency

\* A slip: once the array is full nothing more is stored.
Stored_full(n) ==
    IF Len(cmm) = CMM_MAX - 1 THEN cmm
    ELSE LET after == {j \in DOMAIN cmm : ~Precedes(n, cmm[j])}
         IN  InsertAt(cmm, IF after = {} THEN 1 ELSE Max(after) + 1, n)

(* The new match moves up from the end; the last place is spare. *)
Stored(n) ==
    LET after == {j \in DOMAIN cmm : ~Precedes(n, cmm[j])}
        all   == InsertAt(cmm, IF after = {} THEN 1 ELSE Max(after) + 1, n)
    IN  SubSeq(all, 1, Min({Len(all), CMM_MAX - 1}))

Ties(ms) ==
    IF ms = <<>> \/ ms[1].score = FAILURE THEN 0
    ELSE Max({i \in DOMAIN ms : \A j \in 1 .. i : ms[j].score = ms[1].score})

(* The slots that count for the score of match m: all but the optional ones that
   were left empty. *)
pat_num(m) == count_pat_element(input.frames[m.frame], m.lists[1].l2)

(* With a closest element the scores so far were its own: they are replaced by
   those of all elements, up to the first match that failed. *)
Rescored(ms) ==
    LET failed == {i \in DOMAIN ms : ms[i].score < 0 \/ pat_num(ms[i]) = 0}
    IN  [i \in DOMAIN ms |->
            IF \E j \in failed : j <= i THEN ms[i]
            ELSE [ms[i] EXCEPT !.score = Normalised(ms[i].lists[1].pure, pat_num(ms[i]))]]

(* How often the example that matched the closest element was seen. *)
Frequency(m) ==
    LET s == m.lists[1].l1[Closest]
    IN  IF s > 0 THEN input.frames[m.frame].freq[s] ELSE 0

Better(m, n) ==
    \/ m.score > n.score
    \/ Frequency(n) > 0 /\ Frequency(m) > Frequency(n)

\* A slip: only neighbours are compared.
Resorted_neighbours(ms, n) ==
    LET step(s, i) == IF Better(s[i], s[i - 1]) THEN [s EXCEPT ![i] = s[i - 1], ![i - 1] = s[i]] ELSE s
    IN  FoldLeft(step, ms, [x \in 1 .. (n - 1) |-> x + 1])

(* Match i is compared with match j in front of it; then with all in front of it,
   so that the worst of them comes to stand there. *)
Compared(ms, i, j) ==
    IF Better(ms[i], ms[j]) THEN [ms EXCEPT ![i] = ms[j], ![j] = ms[i]] ELSE ms
WorstLast(ms, i) == FoldLeft(LAMBDA s, x : Compared(s, i, i - x), ms, [x \in 1 .. (i - 1) |-> x])

(* The sort of the first n matches: the worst of them to the end, then the worst
   of the rest. *)
Resorted(ms, n) == FoldLeft(LAMBDA s, x : WorstLast(s, n + 1 - x), ms, [x \in 1 .. (n - 1) |-> x])

-----------------------------------------------------------------------------
Init ==
    /\ input \in Inputs
    /\ pc = "select"
    /\ cands = <<>> /\ k = 0
    /\ stack = <<>> /\ current = FreshCurrent
    /\ cmm = <<>> /\ tie_num = 0
    /\ matched = <<>>

(* case_frame_match begins: everything is unassigned. *)
BeginFrame(i) ==
    /\ k' = i
    /\ current' = FreshCurrent
    /\ stack' = <<Activation([t \in Elements |-> UNASSIGNED], [s \in Slots |-> UNASSIGNED], 0)'>>

SelectFrames ==
    /\ pc = "select"
    /\ UNCHANGED <<input, cmm, tie_num, matched>>
    /\ cands' = Candidates
    /\ pc' = "match"
    /\ BeginFrame(1)

(* The next slot for the element in turn. *)
AssignSlot ==
    /\ pc = "match" /\ stack # <<>>
    /\ LET top == Last(stack)
       IN  /\ top.todo # <<>> /\ Head(top.todo) # NIL_ASSIGNED
           /\ LET s == Head(top.todo)
                  t == top.target
              IN  stack' = Append([stack EXCEPT ![Len(stack)].todo = Tail(@)],
                                  Activation([top.l1 EXCEPT ![t] = s], [top.l2 EXCEPT ![s] = t],
                                             top.score + Frame.score[t][s]))
    /\ UNCHANGED <<input, pc, cands, k, current, cmm, tie_num, matched>>

(* The element in turn stays without a slot. *)
AssignNil ==
    /\ pc = "match" /\ stack # <<>>
    /\ LET top == Last(stack)
       IN  /\ top.todo # <<>> /\ Head(top.todo) = NIL_ASSIGNED
           /\ stack' = Append([stack EXCEPT ![Len(stack)].todo = Tail(@)],
                              Activation([top.l1 EXCEPT ![top.target] = NIL_ASSIGNED], top.l2, top.score))
    /\ UNCHANGED <<input, pc, cands, k, current, cmm, tie_num, matched>>

(* All choices are made and evaluated, or all slots of an element were tried. *)
Return ==
    /\ pc = "match" /\ stack # <<>>
    /\ LET top == Last(stack)
       IN  /\ top.todo = <<>>
           /\ current' = IF top.target = 0 THEN Evaluated(top.l1, top.l2, top.score) ELSE current
           /\ stack' = Front(stack)
    /\ UNCHANGED <<input, pc, cands, k, cmm, tie_num, matched>>

(* The match of the frame is stored, and the next frame begun. *)
StoreFrame ==
    /\ pc = "match" /\ stack = <<>>
    /\ UNCHANGED <<input, cands, tie_num>>
    /\ cmm' = Stored(Match)
    /\ matched' = Append(matched, Match)
    /\ IF k < Len(cands)
       THEN BeginFrame(k + 1) /\ pc' = pc
       ELSE pc' = "choose" /\ UNCHANGED <<k, stack, current>>

(* With no real component only one frame was matched and ties are not counted. *)
ChooseFrame ==
    /\ pc = "choose"
    /\ tie_num' = IF input.noun \/ have_real_component THEN Ties(cmm) ELSE 0
    /\ cmm' = IF Closest > 0 THEN Resorted(Rescored(cmm), tie_num') ELSE cmm
    /\ pc' = "done"
    /\ UNCHANGED <<input, cands, k, stack, current, matched>>

Done == pc = "done" /\ UNCHANGED vars

Next == SelectFrames \/ AssignSlot \/ AssignNil \/ Return \/ StoreFrame \/ ChooseFrame \/ Done

Spec == Init /\ [][Next]_vars

-----------------------------------------------------------------------------

(* The order in which elements are assigned. *)
Earlier(t, u) ==
    IF input.elements[t].explicit = input.elements[u].explicit THEN t < u
    ELSE input.elements[t].explicit

(* What is known when the turn of t comes, of a complete assignment. *)
Known1(l1, t) == [u \in Elements |-> IF Earlier(u, t) THEN l1[u] ELSE UNASSIGNED]
Inverted(l1) ==
    [s \in Slots |-> IF \E u \in Elements : l1[u] = s THEN CHOOSE u \in Elements : l1[u] = s ELSE UNASSIGNED]

MayTake(l1, t, s) ==
    LET before == Known1(l1, t)
    IN  /\ Inverted(before)[s] = UNASSIGNED
        /\ \E x \in DOMAIN input.elements[t].pp : Allowed(before, Inverted(before), t, input.elements[t].pp[x], s)

(* The assignments of the elements to slots of the frame that the rules admit. *)
Admissible ==
    {l1 \in [Elements -> Slots \cup {NIL_ASSIGNED}] :
        \A t \in Elements :
            IF l1[t] # NIL_ASSIGNED THEN MayTake(l1, t, l1[t]) /\ GoodEnough(t, l1[t])
            ELSE ~input.noun /\ input.prob => \A s \in Slots : ~MayTake(l1, t, s)}

TotalScore(l1) == SumFunction([t \in Elements |-> IF t \in Assigned(l1) THEN Frame.score[t][l1[t]] ELSE 0])
MeritOf(l1) == Merit(l1, Inverted(l1), TotalScore(l1))

(* An element next to the predicate that can itself take NO is tested with
   what it took before, in another case or in another slot NO. *)
NoTwice == \E t \in Elements :
    /\ input.elements[t].adjacent
    /\ "no" \in ToSet(input.elements[t].pp)
    /\ \/ Len(input.elements[t].pp) > 1
       \/ \E s, u \in Slots : s # u /\ Case(s) = "no" /\ Case(u) = "no"

(* When case_frame_match returns, what the globals hold are assignments the
   rules admit, none that is admitted is better, and the first one fills the
   nominative if an equally good one does: the recursion with its early
   choice of explicit cases neither skips nor repeats anything that matters. *)
MatchBest ==
    pc = "match" /\ stack = <<>> /\ k > 0 /\ ~NoTwice =>
        /\ \A r \in ToSet(current.lists) :
              r.l1 \in Admissible /\ MeritOf(r.l1) = current.merit /\ r.l2 = Inverted(r.l1)
        /\ \A l1 \in Admissible :
              /\ ~Beats(MeritOf(l1), current.merit)
              /\ ~input.prob /\ MeritOf(l1) = current.merit /\ ~GaFree(Inverted(l1)) =>
                    ~GaFree(current.lists[1].l2)

(* The array holds the best frames matched, in order, although only CMM_MAX - 1
   of them are kept and the others are thrown away on the way (find_best_cf). *)
FramesKept ==
    pc = "choose" =>
        /\ Len(cmm) = Min({Len(cands), CMM_MAX - 1})
        /\ \A i, j \in DOMAIN cmm : i < j => ~Precedes(cmm[j], cmm[i])
        /\ \A m \in ToSet(matched) \ ToSet(cmm) : ~Precedes(m, Last(cmm))

(* The scores of all elements and the frequencies of examples agree on m and n. *)
Agree(m, n) == ~(Better(m, n) /\ Better(n, m))

(* The frame chosen has the best score of the closest element.  Of the frames
   that tie in it, none has a better score of all elements, nor a more
   frequent example, unless the two disagree, the array was too small for all
   that tie, or one of them has no slot that counts: scores are then no longer
   replaced. *)
ClosestFirst ==
    pc = "done" /\ Closest > 0 /\ tie_num > 0 /\ ~input.prob =>
        \E own \in ToSet(matched) :
            LET tied  == {m \in ToSet(matched) : m.score = own.score}
                total == {Rescored(<<m>>)[1] : m \in tied}
            IN  /\ own.frame = cmm[1].frame
                /\ \A m \in ToSet(matched) : m.score <= own.score
                /\ /\ Cardinality(tied) < CMM_MAX
                   /\ \A m \in tied : m.score < 0 \/ pat_num(m) > 0
                   /\ \A m, n \in total : Agree(m, n)
                   => \A m \in total : ~Better(m, cmm[1])
=============================================================================
