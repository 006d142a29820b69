---------------------------- MODULE FeatureRules ----------------------------
(***************************************************************************)
(* The rules that give features to morphemes, basic phrases and phrases:   *)
(* the matcher of regexp.c, the lists of features of feature.c and the     *)
(* loops of assign_general_feature (read_data.c).  The three kinds of data *)
(* are treated by three copies of the same code; an element stands for     *)
(* any of them, and a condition for the tests of one element.              *)
(*                                                                         *)
(* With -nbest the rules for phrases and basic phrases are applied to      *)
(* every structure that is printed, each time temporarily: the features    *)
(* they give are marked by a prefix, and deleted afterwards from the basic *)
(* phrases, but not from the phrases (cky.c); a last application without   *)
(* the prefix follows (main.c).                                            *)
(***************************************************************************)
EXTENDS Integers, Sequences, FiniteSets, SequencesExt

CONSTANTS
    N,         \* number of elements
    Tests,     \* tests on the structure of the sentence (check_function)
    Inputs     \* rules, features, options and structures considered

ASSUME NAssumption == N \in Nat \ {0}

Elements == 1 .. N

Breaks == {"none", "normal", "jump"}

ASSUME InputsAssumption ==
    \A in \in Inputs :
        /\ in.mode \in {"MRM", "RMM"} /\ in.dir \in {"LtoR", "RtoL"}
        /\ in.brk \in Breaks /\ in.nbest \in BOOLEAN
        /\ in.data \in {"mrph", "tag", "bnst"} /\ (in.nbest => in.data # "mrph")
        /\ in.structs \in Seq(Range(in.structs)) /\ in.rules \in Seq(Range(in.rules))
        /\ \A r \in DOMAIN in.rules :
              /\ in.rules[r].acts \in Seq(Range(in.rules[r].acts))
              /\ \A act \in Range(in.rules[r].acts) : act.kind \in {"assign", "delete", "spread"}
              /\ in.rules[r].brk \in Breaks
              /\ \A ps \in {in.rules[r].pre, in.rules[r].self, in.rules[r].post} :
                    ps \in Seq(Range(ps)) /\ \A k \in DOMAIN ps : ps[k].star \in BOOLEAN
        /\ in.given \in [Elements -> Range(in.given)]
        /\ \A e \in Elements :
              /\ in.given[e] \in Seq(Range(in.given[e]))
              /\ \A k \in DOMAIN in.given[e] : in.given[e][k].temp = FALSE

VARIABLES
    input,     \* what is analysed, and by which rules
    pc,        \* "idle", "rules", "print", "done" or "crashed"
    turn,      \* the application in progress
    i, j,      \* the loop variables: steps from the first element, and rule
    f,         \* the list of features of each element
    matches,   \* history: the matches of this application
    printed    \* history: what was printed for each structure

vars == <<input, pc, turn, i, j, f, matches, printed>>

NoVal == "none"

(* Applications: one per structure with -nbest, then the final one. *)
Turns(in) == IF in.nbest THEN Len(in.structs) + 1 ELSE 1

Temporary == turn < Turns(input)

(* The structure in force: the last one printed remains for the end. *)
Structure == input.structs[IF turn <= Len(input.structs) THEN turn ELSE Len(input.structs)]

-----------------------------------------------------------------------------
(* Lists of features.  A temporary feature has a prefix, so that it is     *)
(* found under no name but the one of the prefix.                          *)

comp_feature(feature, lit) ==
    /\ ~feature.temp
    /\ feature.name = lit.name
    /\ lit.val \in {NoVal, feature.val}

Named(fs, name) == {k \in DOMAIN fs : comp_feature(fs[k], [name |-> name, val |-> NoVal])}

First(S) == CHOOSE k \in S : \A l \in S : k <= l

assign_cfeature(fs, name, val, temp) ==
    LET old == Named(fs, name)
    IN  IF old # {}
        THEN [fs EXCEPT ![First(old)] = [name |-> name, val |-> val, temp |-> FALSE]]
        ELSE Append(fs, [name |-> name, val |-> val, temp |-> temp])

(* The list with the features at the places of S only. *)
Left(fs, S) ==
    [n \in 1 .. Cardinality(S) |-> fs[CHOOSE k \in S : Cardinality({l \in S : l <= k}) = n]]

(* The entry ^name of a rule deletes all features that match. *)
Deleted(fs, name) == Left(fs, DOMAIN fs \ Named(fs, name))

delete_cfeature(fs, name) ==
    IF Named(fs, name) = {} THEN fs ELSE RemoveAt(fs, First(Named(fs, name)))

\* A slip: the walk stops behind the first one.
delete_temp_feature_first(fs) ==
    LET S == {k \in DOMAIN fs : fs[k].temp}
    IN  IF S = {} THEN fs ELSE RemoveAt(fs, First(S))

delete_temp_feature(fs) == Left(fs, {k \in DOMAIN fs : ~fs[k].temp})

(* The walk goes on from the predecessor, which the first one has not. *)
DeletionCrashes(fs) == fs # <<>> /\ fs[1].temp

Shown(fs) == [k \in DOMAIN fs |-> [name |-> fs[k].name, val |-> fs[k].val]]

-----------------------------------------------------------------------------
(* Matching.  A condition is a set of alternatives, each a set of literals; *)
(* no alternative at all is no condition.                                  *)

feature_AND_match(alternative, e) ==
    \A lit \in alternative :
        lit.neg # (IF lit.name \in Tests
                   THEN lit.name \in Structure[e]
                   ELSE \E k \in DOMAIN f[e] : comp_feature(f[e][k], lit))

feature_pattern_match(cond, e) ==
    cond = {} \/ \E alternative \in cond : feature_AND_match(alternative, e)

(* The number of elements of es left over by pattern ps, -1 if it does not
   match.  Both are read from the front; longFirst: an asterisk takes an element
   before it is given up. *)
regexps_match(ps, es, all, longFirst) ==
    LET rest[x \in (0 .. Len(ps)) \X (0 .. Len(es))] ==
            LET r     == x[1]
                d     == x[2]
                p     == ps[Len(ps) - r + 1]
                fits  == d > 0 /\ feature_pattern_match(p.cond, es[Len(es) - d + 1])
                taken == IF fits THEN rest[<<IF p.star THEN r ELSE r - 1, d - 1>>] ELSE -1
                given == IF p.star THEN rest[<<r - 1, d>>] ELSE -1
            IN  IF r = 0 THEN IF d = 0 \/ ~all THEN d ELSE -1
                ELSE IF longFirst THEN IF taken # -1 THEN taken ELSE given
                ELSE IF given # -1 THEN given ELSE taken
    IN  rest[<<Len(ps), Len(es)>>]

Before(p) == [k \in 1 .. p - 1 |-> p - k]
From(p, n) == [k \in 1 .. n |-> p + k - 1]

(* What stands before a match at p, and what follows one of l elements. *)
InFront(rule, p) ==
    IF rule.pre = <<>> THEN p = 1
    ELSE regexps_match(Reverse(rule.pre), Before(p), TRUE, FALSE) # -1

Behind(rule, p, l) ==
    \/ rule.post = <<>>
    \/ regexps_match(rule.post, From(p + l, N - p + 1 - l), TRUE, FALSE) # -1

\* A slip: only the longest match is tried.
regexprule_match_greedy(rule, p) ==
    LET fw == N - p + 1
        l  == IF rule.self = <<>> THEN 1
              ELSE fw - regexps_match(rule.self, From(p, fw), FALSE, TRUE)
    IN  IF InFront(rule, p) /\ l \in 1 .. fw /\ Behind(rule, p, l) THEN l ELSE -1

(* The length of the match of rule at element p, -1 if there is none.  The
   loop shortens the match of the pattern until what follows fits. *)
regexprule_match(rule, p) ==
    LET fw == N - p + 1
        shrink[n \in 0 .. fw] ==
            IF n = 0 THEN -1
            ELSE LET left == regexps_match(rule.self, From(p, n), FALSE, TRUE)
                     l    == IF rule.self = <<>> THEN 1 ELSE n - left
                 IN  IF rule.self # <<>> /\ left = -1 THEN -1
                     ELSE IF Behind(rule, p, l) THEN l
                     ELSE IF l = 0 THEN -1
                     ELSE shrink[l - 1]
    IN  IF InFront(rule, p) THEN shrink[fw] ELSE -1

-----------------------------------------------------------------------------
(* One entry of a rule, applied to element e. *)
Applied(fs, act, e) ==
    CASE act.kind = "assign" -> [fs EXCEPT ![e] = assign_cfeature(@, act.name, act.val, Temporary)]
      [] act.kind = "delete" -> [fs EXCEPT ![e] = Deleted(@, act.name)]
      [] act.kind = "spread" ->      \* to the neighbour the pattern has matched
            LET own == Named(fs[e], act.name)
                to  == e + act.by
            IN  IF own # {}
                THEN [fs EXCEPT ![to] = assign_cfeature(@, act.name, fs[e][First(own)].val, Temporary)]
                ELSE [fs EXCEPT ![to] = delete_cfeature(@, act.name)]

(* assign_feature: the entries of a rule one after the other, for every element
   of a match one after the other. *)
AppliedAll(rule, fs, e) == FoldLeft(LAMBDA g, act : Applied(g, act, e), fs, rule.acts)

assign_feature(rule, p, l) == FoldLeft(LAMBDA fs, e : AppliedAll(rule, fs, e), f, From(p, l))

(* The element i steps from the first one. *)
Position == IF input.dir = "LtoR" THEN i + 1 ELSE N - i

Rule == input.rules[j]

\* A slip: the jump leaves out one element too few.
After_short(l) ==
    LET brk == {input.brk, Rule.brk}
    IN  IF input.mode = "MRM"
        THEN IF l = -1 THEN <<i, j + 1>>
             ELSE IF "normal" \in brk THEN <<i + 1, 1>>
             ELSE IF "jump" \in brk THEN <<i + (IF l > 1 THEN l - 1 ELSE l), 1>>
             ELSE <<i, j + 1>>
        ELSE IF l # -1 /\ brk # {"none"} THEN <<0, j + 1>> ELSE <<i + 1, j>>

(* Where the loops go on after rule j was tried at step i. *)
After(l) ==
    LET brk == {input.brk, Rule.brk}
    IN  IF input.mode = "MRM"
        THEN IF l = -1 THEN <<i, j + 1>>
             ELSE IF "normal" \in brk THEN <<i + 1, 1>>
             ELSE IF "jump" \in brk THEN <<i + l, 1>>
             ELSE <<i, j + 1>>
        ELSE IF l # -1 /\ brk # {"none"} THEN <<0, j + 1>> ELSE <<i + 1, j>>

(* The inner loop at its end starts the next round of the outer one. *)
Wrapped(at) ==
    CASE input.mode = "MRM" /\ at[2] > Len(input.rules) -> <<at[1] + 1, 1>>
      [] input.mode = "RMM" /\ at[1] >= N               -> <<0, at[2] + 1>>
      [] OTHER                                          -> at

LoopsOver == i >= N \/ j > Len(input.rules)

-----------------------------------------------------------------------------
Init ==
    /\ input \in Inputs
    /\ f = input.given
    /\ pc = "idle" /\ turn = 1 /\ i = 0 /\ j = 1
    /\ matches = {} /\ printed = <<>>

(* assign_general_feature is called for the next structure, or at the end. *)
Begin ==
    /\ pc = "idle" /\ turn <= Turns(input)
    /\ pc' = "rules" /\ i' = 0 /\ j' = 1 /\ matches' = {}
    /\ UNCHANGED <<input, turn, f, printed>>

GoOn(l) ==
    /\ i' = Wrapped(After(l))[1]
    /\ j' = Wrapped(After(l))[2]

(* A rule matches. *)
ApplyRule ==
    /\ pc = "rules" /\ ~LoopsOver
    /\ LET l == regexprule_match(Rule, Position)
       IN  /\ l # -1
           /\ f' = assign_feature(Rule, Position, l)
           /\ matches' = matches \cup {[rule |-> j, from |-> Position, len |-> l]}
           /\ GoOn(l)
    /\ UNCHANGED <<input, pc, turn, printed>>

TryNext ==
    /\ pc = "rules" /\ ~LoopsOver
    /\ regexprule_match(Rule, Position) = -1
    /\ GoOn(-1)
    /\ UNCHANGED <<input, pc, turn, f, matches, printed>>

RulesDone ==
    /\ pc = "rules" /\ LoopsOver
    /\ pc' = IF Temporary THEN "print" ELSE "done"
    /\ UNCHANGED <<input, turn, i, j, f, matches, printed>>

(* print_result for one structure, then the temporary features of the basic
   phrases are deleted.  Phrases keep theirs. *)
PrintStructure ==
    /\ pc = "print"
    /\ printed' = Append(printed, [e \in Elements |-> Shown(f[e])])
    /\ IF input.data # "tag" THEN pc' = "idle" /\ UNCHANGED f
       ELSE IF \E e \in Elements : DeletionCrashes(f[e])
       THEN pc' = "crashed" /\ UNCHANGED f
       ELSE pc' = "idle" /\ f' = [e \in Elements |-> delete_temp_feature(f[e])]
    /\ turn' = turn + 1
    /\ UNCHANGED <<input, i, j, matches>>

Ended == pc \in {"done", "crashed"} /\ UNCHANGED vars

Next == Begin \/ ApplyRule \/ TryNext \/ RulesDone \/ PrintStructure \/ Ended

Spec == Init /\ [][Next]_vars

-----------------------------------------------------------------------------
(* What the rules of a file may do to a feature that is there: delete it, or
   give it another value. *)
Actions(in) == UNION {Range(in.rules[r].acts) : r \in DOMAIN in.rules}

Deletable(in) == {act.name : act \in {a \in Actions(in) : a.kind # "assign"}}

Overwritten(in) == {act.name : act \in {a \in Actions(in) : a.kind # "delete"}}

GivenNames(in, e) == {in.given[e][k].name : k \in DOMAIN in.given[e]}

-----------------------------------------------------------------------------
(* Pattern ps, from left to right, covers es: a cut for every element of it. *)
Covers(ps, es) ==
    \E cut \in [0 .. Len(ps) -> 0 .. Len(es)] :
        /\ cut[0] = 0 /\ cut[Len(ps)] = Len(es)
        /\ \A k \in 1 .. Len(ps) :
              /\ cut[k] >= cut[k - 1]
              /\ ps[k].star \/ cut[k] = cut[k - 1] + 1
              /\ \A m \in cut[k - 1] + 1 .. cut[k] : feature_pattern_match(ps[k].cond, es[m])

(* The lengths at which a rule fits at element p. *)
Lengths(rule, p) ==
    {l \in 1 .. N - p + 1 :
        /\ Covers(rule.pre, From(1, p - 1))
        /\ IF rule.self = <<>> THEN l = 1 ELSE Covers(rule.self, From(p, l))
        /\ rule.post = <<>> \/ Covers(rule.post, From(p + l, N - p + 1 - l))}

-----------------------------------------------------------------------------

(* The backtracking matcher and the loop that shortens its matches find the
   longest stretch that satisfies the pattern and leaves the rest to the pattern
   behind it, whatever asterisks the patterns hold (regexpmrphrule_match).  (A
   pattern of asterisks only may match no element at all.) *)
MatchExact ==
    /\ pc = "rules" /\ ~LoopsOver
    /\ Rule.self = <<>> \/ \E k \in DOMAIN Rule.self : ~Rule.self[k].star
    =>
        LET fits == Lengths(Rule, Position)
        IN  regexprule_match(Rule, Position) =
                IF fits = {} THEN -1 ELSE CHOOSE l \in fits : \A k \in fits : k <= l

(* What a structure leaves for the next one, whatever rules were applied to it
   temporarily.  A basic phrase keeps no temporary feature; apart from those, no
   element has a feature under a name it has not had from the start, or with
   another value unless a rule gives that name one, and it misses none unless a
   rule deletes that name.  If every element has had a first feature that no rule
   deletes, no deletion meets a temporary one at the head of a list, where it
   would follow a null pointer (delete_temp_feature). *)
Restored ==
    /\ pc = "idle" =>
        \A e \in Elements :
            LET had == Range(input.given[e])
                has == {x \in Range(f[e]) : ~x.temp}
            IN  /\ input.data = "tag" => has = Range(f[e])
                /\ \A x \in has :
                      \/ x \in had
                      \/ x.name \in GivenNames(input, e) \cap Overwritten(input)
                /\ \A x \in had :
                      \/ x.name \in Deletable(input)
                      \/ \E y \in has : y.name = x.name /\ (y = x \/ x.name \in Overwritten(input))
    /\ (\A e \in Elements : input.given[e] # <<>> /\ input.given[e][1].name \notin Deletable(input))
          => pc # "crashed"

(* With break:jump and elements taken from left to right, no element belongs
   to two matches (assign_mrph_feature). *)
JumpDisjoint ==
    /\ input.mode = "MRM" /\ input.dir = "LtoR"
    /\ \A r \in DOMAIN input.rules : {input.brk, input.rules[r].brk} \in {{"jump"}, {"jump", "none"}}
    => \A a, b \in matches :
          a # b => a.from + a.len <= b.from \/ b.from + b.len <= a.from

NamesOf(fs) == {fs[k].name : k \in DOMAIN fs}

(* A pattern <x> means that a feature x is there, and <^x> that it is not
   (feature.c:28-29), for rules applied temporarily too: the names printed for
   the structure that is handed on are the ones the final application gives. *)
TempAsFinal ==
    pc = "done" /\ input.nbest /\ input.data = "tag" =>
        \A e \in Elements : NamesOf(Last(printed)[e]) = NamesOf(f[e])

=============================================================================
