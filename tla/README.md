# KNP: a TLA+ development

KNP analyses Japanese sentences: it reads the morphemes JUMAN has found, groups
them into phrases (bunsetsu), and decides for every phrase which later phrase
it depends on, which phrases are coordinated, and which cases the predicates
take. This directory holds TLA+ models of the parts of `src/system` whose
control is intricate, TLC runs that check them, and TLAPS proofs.

## 1. The system

One sentence goes through `one_sentence_analysis` (`main.c`). The stages share
global matrices indexed by pairs of phrases.

| part | source | state it keeps | what makes it correct | module |
|---|---|---|---|---|
| driver | `main.c` | `success`, `OptMode`, `Sen_num` | one result per sentence, whatever fails | `KnpService`, `Document` |
| server, client | `main.c` | sockets, children, `strnum` | answers stay in step with sentences; nobody waits for ever; no child is left behind | `KnpService`, `Session` |
| reading | `read_data.c` | morphemes, `OptInput`, `Bnst_start` | limits hold; no feature or boundary of another sentence | `Document` |
| features | `feature.c`, `read_rule.c`, `regexp.c` | feature lists, rules | matches mean what patterns say; what is given for one structure leaves no trace | `FeatureRules` |
| brackets | `quote.c` | `Quote_matrix`, `quote_data` | pairs nest; no dependency into brackets | `Prepare`, `Document` |
| correlatives | `koou.c` | `Dpnd_matrix` | what is enclosed stays closed; a head remains | `Prepare` |
| dependencies | `dpnd_analysis.c` | `Dpnd_matrix`, `Best_mgr`, `Possibility` | the result is a projective tree and the best one | `Prepare`, `DpndSearch`, `DpndEval` |
| coordinations | `para_*.c` | `para_data`, `para_manager`, `restrict_matrix`, `Mask_matrix` | scopes nest; masks agree; the loop ends | `ParaRelation`, `ParaDpnd`, `ParaAnalysis` |
| chart parser | `cky.c` | `cky_matrix`, `cky_table`, `dep_check`, `Best_mgr` | the chart holds the trees the matrices admit; the best one is handed on | `ChartParse` |
| cases | `case_analysis.c`, `case_match.c` | `Current_max_*`, `Cf_match_mgr` | best assignment, best frame | `CaseMatch` |
| trees, results | `tree_conv.c`, `dpnd_analysis.c`, `lib_print.c` | tree nodes, numbers of phrases and tags | nothing lost or doubled; results independent of each other | `TreeConv`, `Results` |
| context | `context.c`, `anaphora.c`, `corefer.c` | `sentence_data`, `entity_manager` | sentences kept are alive and of this article; buffers do not overflow | `Document` |
| similarity | `bnst_compare.c`, `similarity.c` | matrices of scores | numeric | - |
| names | `proper.c` | cache | - | - |
| dictionaries | `db.c`, `dic.c`, `hash.c`, `lib_*.c`, `thesaurus.c` | read-only data | - | - |
| JUMAN, CRF++, Perl | `juman/`, `CRF++-0.58/`, `perl/` | separate programs | - | - |

How the stages depend on each other: a text is read sentence by sentence
(`Document`); rules give features (`FeatureRules`); dependency rules,
correlatives and brackets fill `Dpnd_matrix` and `Quote_matrix` (`Prepare`); the
coordination loop reads both and leaves `Mask_matrix` (`ParaAnalysis`); `cky`
(`ChartParse`, the default) or `decide_dpnd` (`DpndSearch`) reads all three and
trusts `Mask_matrix` blindly: a mark is taken as the head of a phrase without a
test. Both score structures by way of the case analysis (`CaseMatch`). The
result goes to `Best_mgr`, a record that is reused from sentence to sentence,
and from there to phrases, basic phrases (tags), trees and the output
(`Results`).

What is hard here: recursions that pass records by value and keep the best
result in a global; a loop over three checks each of which can reject, restrict
one scope and start over; managers that overwrite each other's masks; data of
one sentence or structure that are still there for the next; an alarm that
jumps out of all this; a protocol that matches answers to questions by counting
lines; children and signals.

## 2. The modules

### DpndSearch: `decide_dpnd`

`stack` is the stack of activations of `decide_dpnd`, each one a private copy of
the `DPND` record with the choices it has still to follow. One action per branch
of the function: `MarkParallel` (a coordination fixed the head), `FollowEarlier`
(the feature 係:無格従属), `DecideUnique`, `DecideAll`, `DecideNoHead`; `Descend`
and `Return` are the recursion; `DropImpossible` and `Evaluate` what happens to
a complete structure; `Finish` the end of `detect_dpnd_case_struct` with its
fallback `when_no_dpnd_struct`, and `Timeout` the alarm. The matrices are fields
of `sent`, which never changes. `Score` is a parameter: `DpndEval` defines the
one of `dpnd_evaluation` from the features of the phrases; with `CaseMode` it
stands for the case analysis. Left out: debugging output, the candidates kept
for `-check`.

### ChartParse: `cky` and `after_cky`

Cells are filled in the order of the loops, one step per split point (`Merge`),
with `Coordinate` for coordinations of more than two and `CloseCell` for the
sorting and the beam. An entry of the chart keeps the arcs of its subtree and
what `relax_barrier_for_P` and the search for the first conjunct would find by
walking its pointers. `Begin` restricts `Dpnd_matrix` in place, so that a second
attempt (`Retry`) starts from the restricted matrix and the used chart.
`TableFull` and `NoAnalysis` are the two ways to fail, `GiveUp` the fallback.
`Choose` moves the best analysis to the end of the list, `Convert` is one round
of `after_cky`. `Score` is a parameter. Left out: the Chinese branches, case
frames, `OPT_CASE_GENERATE_EOS`.

### ParaRelation, ParaDpnd, ParaAnalysis: coordinations

`ParaRelation` is `para_relation.c`: the table of relations between two scopes,
the gathering of coordinations in series, `set_parent`, `para_revise_scope`.
`ParaDpnd` is `para_dpnd.c`: the nearest-head walk, the extension of the first
conjunct, incomplete coordinations, and the mask a checked coordination leaves.
`ParaAnalysis` is the loop of `one_sentence_analysis` with these as steps, the
detection of scopes (`para_analysis.c`) and the revisions (`para_revision.c`).
Which scope scores best is left open: any scope that brackets and
`restrict_matrix` allow may be detected, normal or strong, or none (strong ones only
where conjuncts are alike enough, `alike`). This covers every scoring. The Japanese
branches are modelled.

### Prepare: the matrices before the analyses

`CalcDpndMatrix`, one `KoouPhrase` per phrase, `PairBrackets` per phrase,
`MaskQuote` per pair and `Relax` per phrase, in the order of
`one_sentence_analysis`. Features are the sets of phrases that have them, rules
the phrases they match. `full` is the return value `CONTINUE` of `check_quote`,
after which nothing is completed or masked.

### TreeConv, Results: from structures to output

`TreeConv` holds `make_dpnd_tree` (heads, the node added for a coordination,
strong coordinations and modifiers expanded under `-expand`) and
`bnst_to_tag_tree` as functions from structures to trees. `Results` is the
sequence of steps around them: `TakeStructure` (a round of `after_cky`, or
`dpnd_evaluation` without the chart), `TakeBest` (the end of
`one_sentence_analysis`), `DoPostprocess` and `PrintResult`, which undoes the
post-processing. The data of phrases and tags are variables that all structures
share, as in the code. `para_recovery` rebuilds managers from a structure with
the operators of `ParaRelation`.

### Document: a text, its sentences and the context

Lines of input are records of a kind; a morpheme line is its own feature, so
that a feature in the wrong place can be told. One action per kind of line of
`read_mrph`, then `Preprocess` (joining of morphemes, cutting out of
parentheses), `Analyse` with what it keeps (`PreserveSentence`, `clear_context`,
`ClearSentences`), `NextParen`, `Finish`. `freed` collects what has been freed.
Which reading of a morpheme `lexical_disambiguation` prefers is left open. Five
modes stand for the options that decide what is kept and when it is printed.

### FeatureRules: rules and features

`regexps_match` and `regexprule_match` are the matchers of `regexp.c`,
`assign_cfeature`, `delete_cfeature`, `delete_temp_feature` the operations on
lists, `ApplyRule`, `TryNext` and `RulesDone` the two loops of
`assign_mrph_feature`, whose copies for tags and phrases are the same. `Turns`
counts the applications: one per structure printed, temporarily, then the final
one; `data` says whether elements are morphemes, basic phrases or phrases, since only
basic phrases lose their temporary features after a structure. A condition is a set of
conjunctions of literals; test functions are tests on the structure. `InputsAssumption` says what rules and lists are made of, and
that what an element has before the rules are applied is not temporary.

### CaseMatch: the choice of a case frame

`stack` is the recursion `assign_list`, whose lists are passed by value;
`current` the globals `Current_max_*`; `cmm` the sorted array of
`find_best_cf`. `SelectFrames`, `BeginFrame`, `AssignSlot`, `AssignNil`,
`Return`, `StoreFrame`, `ChooseFrame` are its steps. The score of an element in
a slot is part of the input. Scores divided by the root of a number of slots are
represented by their squares, which keep their order. The word in front of the
array `adjacent`, read when an element has no slot yet, is the free field
`before`. `InputsAssumption` says that a predicate has at least one frame, if only
the default one, and that a frame scores every element in each of its slots. Left
out: ellipsis, weights, semantic markers.

### KnpService, Session: server, client and the loop of `knp_main`

One process per client and per child, the server, and its signals. Lines are
abstracted to their kind; each carries the number of the sentence it belongs to,
which no program reads and the properties compare. `fork` and `accept` are
separate steps of the server, so that a child may be finished before the server
closes its copy of the connection. `success` after a timeout is a free choice:
it is a local variable changed between `setjmp` and `longjmp`. Sockets are
modelled from their use: lines arrive in order, and a reader sees the end of the
file when nobody holds the other end open.

`Session` is what a client may count on: ask, get an answer, go on. In a
reliable session the answer is the one to the sentence just sent; otherwise it
may be an earlier one or none. `KnpService` implements it (`ServiceSpec`),
reliably where `Orderly` holds: readable sentences, no timeout, no failing fork, no
termination. That the waiting ends is a property of its own (`NotLeftWaiting`).

## 3. The runs

| run | instance | shows |
|---|---|---|
| `dpnd` | 5 phrases: all patterns of sure, uncertain and missing dependencies of all phrases but the first; under case analysis the masks `ParaDpnd` computes, brackets, taken-over heads, trees that do not fit, an alarm at any moment | `SearchExact`: the structures evaluated are exactly the admissible ones, given by a definition without a stack, each once; `BestHanded`: what is handed on to the phrases is the best of them, the first of equals, heads and types of one and the same structure; `HeadsRight`, `NonCrossing`, `Terminates` |
| `chart` | 5 phrases, all 2^10 patterns of dependencies; masks, brackets, taken-over heads, heads given by relaxation; open coordinations and a beam | `ChartExact`: the analyses are exactly the non-crossing trees within the final barriers, each once; `FreshChart`: a second attempt uses nothing of the first; `BestChosen`, `MarksKept`, `HeadsRight` |
| `para` | 7 phrases; keys 0, 1, 4 and 0, 2, 5 with all scopes, 4 keys with brackets, too many keys; with dependencies missing, brackets, nouns and predicates, up to 2 keys, strong coordinations too | `ManagersForest`: each manager reached once, in a hierarchy nested scopes and the innermost manager around as parent; `MarksNested`, `ConjunctsMarked`, `Terminates` |
| `prepare` | 5 phrases, all ways to put two opening and two closing brackets on them; up to two correlatives | `QuotesNested`, `RelaxedAll`, `KoouClosed` |
| `results` | every structure of 4 phrases, alone or with another; 5 divisions into tags with merged ones; given and recovered coordinations; room for 2 added nodes | `TreesWhole`, `HeadsAgree`, `HistoryFree` |
| `document` | texts of 2 sentences of 25 kinds and of 3 of 5 kinds, in one or two articles; 5 modes | `OwnFeatures`, `ContextKept`, `PhrasesRight`, `Answered` |
| `features` | one rule of 120 patterns, pairs of 20 rules that add, delete and overwrite, for basic phrases and phrases, rules that spread, pairs of jump rules, over 3 elements | `MatchExact`: the matcher against a definition by cuts; `Restored`: what a structure leaves for the next; `JumpDisjoint` |
| `case` | 3 elements in one frame, 2 elements in up to 4 frames, some without a slot that counts; similarities or probabilities | `MatchBest`: the recursion against the set of admissible assignments; `FramesKept`, `ClosestFirst` |
| `service` | 2 clients; readable sentences; or unreadable ones with timeouts, failing forks and SIGTERM | the refinement `ServiceSpec`; `NoZombieForgotten`, `NotLeftWaiting` |
| `empty_sentence` | 1 client | violation: two answers to one sentence |
| `context_hole` | the texts of `document` | violation: a sentence of which nothing was kept is counted |
| `temp_features` | pairs of rules | violation: rules do not see temporary features |

Every passing run but `features` and `case` has a type invariant as well, which
holds the limits of the arrays. Every property has been seen to fail for
a slip in the code it is about (the operators named `<definition>_<slip>`).

Bounds. Five phrases are enough for an arc, a phrase under it and phrases on
both sides. Coordinations need more: with six phrases and three keys a coordination
may be gathered into two managers, and only with seven can two scopes leave their
parent undecided (keys 0, 2, 5) or, with a fourth key, the later of two managers take a
mark from the other one; five phrases and three keys show none of this. `para` therefore
has seven phrases; the key sets kept are those that show these cases, the series of
three, nesting and REV. Every set of three keys with normal and strong coordinations
(5.4 million states) and every set of four keys with normal ones have been checked
once, with the same result; with five keys or eight phrases nothing has been checked.
`PARA_MAX` and `PARA_PART_MAX` (32 in the code) are 5, in the same relation.
`CKY_TABLE_MAX_FOR_CASE` (12) is below what five phrases may need, so that first
attempts fail at every point of the loops. `BestChosen` is checked for scores
that are sums over arcs: for others the reduction of cells is a heuristic.
`BNST_MAX` in `results` leaves room for two nodes, so that a third coordination
fails. `QUOTE_MAX` 4 is exceeded by four brackets. `SENTENCE_MAX` 2 makes the
third sentence clear the context; `ENTITY_MAX` is small enough for the second one
to do so; `MRPH_MAX` and `BNST_MAX` are exceeded by one text each. Three
elements are enough for what stands before, in and behind a match. `CMM_MAX` 4
keeps three of four frames, `MAX_MATCH_MAX` 2 drops ties. Two clients are enough
for two children that exit within one signal. The counters of the coordination
loop are bounded by the code itself (`ErrorMax`).

Deadlock is not checked where the program stops: `Results` and `Document` end
with the sentence or the text; in `KnpService` a client whose fork failed waits
for ever for a greeting, the server having neither served nor closed the
connection (`main.c:2254`).

Fairness. The search and the coordination loop are
sequential code of one process: weak fairness of its steps says that the process
is scheduled. The alarm is not fair: it may go off or not. In `KnpService` every
process is scheduled when it can go on; faults, timeouts and SIGTERM are not
fair.

How the analyses fit together: `MarksNested`, what `decide_dpnd` needs from the
masks, is an invariant of `ParaAnalysis` for all analyses that are accepted and
the hypothesis of `NonCrossing` in `DpndSearch`. `Results` takes the managers of
an analysis that was given up as well (`main.c:1737` leaves them behind).

## 4. Disagreements between comments and code

* `empty_sentence`: `EOS ERROR`, meant to keep server and client in step, is
  written after a result that already ended with `EOS`.
* `context_hole`: "a failed analysis does not increase the number of sentences",
  but one that cannot be read, or has too many phrases, does.
* `temp_features`: under `-nbest` a feature given to a structure is stored under a
  prefix, so that later rules that ask for it, or for its absence, decide wrongly.

Met while modelling, and excluded by a premise or an option of a run:

* service: after a timeout `EOS ERROR` may follow a result;
* chart: with `-nbest` the last structure is said to be the only one with `EOS`
  (cky.c:1896), but a sentence that fills the table, or whose last structure has no
  tree (cky.c:1865), is answered without any, and one that neither attempt analyses
  with two; nothing is claimed of `EOS` there. A head that `relax_dpnd_matrix` has
  given is taken whatever the mask says (cky.c:114), so that a phrase with marks may
  leave its coordination (conclusion of `MarksKept`). A barrier is looked at only where
  a dependency is possible, against
  `rule/kakari_uke.rule:19-20`; `restrict_end_prefer_dependency` can make a
  coordination impossible that was checked before (premise of `MarksKept`);
* search: a head taken over from two phrases to the left may cross an arc
  (premise of `NonCrossing`);
* coordinations: one that is coordinate with two that are not so with each other is
  gathered into two managers, e.g. the scopes 0..0 with 1..4, 1..1 with 2..4 and 2..4
  with 5..5 of the keys 0, 1, 4 (para_relation.c:331-346); a manager inside two
  that are not related keeps the first parent it was given ("Invalid relation !!",
  para_relation.c:212). In both cases managers are not nested and the later one may
  take away a mark of the other. `ManagersForest` and `ConjunctsMarked` state
  nesting and marks for hierarchies (`GatheredOnce`, `ParentsRelated`), that each
  manager is reached once and that marks are nested for all;
* coordinations: `no_more_error_here` is cleared once per round, not once per
  conjunct;
* results: two merged phrases in a row lose what modifies them; `-expand` loses
  children that follow one handed on; without the chart, `-nbest -postprocess`
  restores numbers of morphemes that were never saved;
* document: `OptInput` stays set; boundaries of divided input shift when morphemes
  are joined; features of parentheses cut out stay behind;
* features: a rule applied temporarily to one structure deletes features, or gives
  them another value, for good; only basic phrases lose their temporary features
  after a structure (cky.c:1912), while phrases were given them as well (cky.c:1887)
  and keep them for the next structure and the final application. `Restored` says
  what is kept in spite of that;
* cases: a flag an earlier try leaves behind can forbid an assignment (premise
  `NoTwice` of `MatchBest`);
* cases: the order in which ties are sorted again is not transitive.

## 5. The proofs

`DpndSearchProofs` proves, for every length of sentence, every set of sentences
and every leftover in `Best_mgr`,

* `TypeCorrect`: `Spec => []TypeOK`;
* `HeadsRightAlways`: `Spec => []HeadsRight`, the result is a tree directed to the
  right whatever happens.

Assumptions: those of `DpndSearch` (`FollowsOK`: a followed phrase follows nobody,
which the rule file guarantees) and `ScoresAboveFloor`: scores are integers, and
with case analysis they exceed -10000. The latter is needed because a structure
counts under case analysis whatever its score.

`HeadsRight` is not inductive: it says nothing before the end. The inductive
invariant `IInv` says that in every activation on the stack the phrases already
passed have a head to their right or the offset of the phrase they follow
(`GoodActs`), that the choices not yet followed are of this kind, and that
`Best_mgr` holds such a structure once its score has left the floor, which
`Possibility # 0` implies (`BestInv`). The steps: a candidate or a mark lies to
the right (`CandidatesRight`, `MarksRight`), the choices made at a phrase are good
(`PhraseKeeps`), entering and leaving an activation keeps them (`Entering`,
`RecursionKeeps`), and resolving the offsets of a structure that is not
impossible yields heads to the right (`ResolvedRight`), the one place where
`FollowsOK` is needed.

The same module proves

* `NonCrossingAlways`: `Spec => []NonCrossing`. `FlatInv` says of every activation
  that the arcs drawn so far do not cross, that the mask hands out nothing that
  lies under an arc from outside it, and that the choices still open were made
  under no arc. Marks are taken without a look at the mask; that they do not cross
  rests on `MarksNested`, the premise of `NonCrossing`.
* `BestHandedAlways`: `Spec => []BestHanded`, under the same assumptions. The
  invariant `HandedInv` says that `Best_mgr` stores, of one and the same structure,
  heads, types, distances and score, and that this structure is the foremost of those
  evaluated so far. It needs the invariant of `SearchExact` below: what an activation
  has recorded beside its heads belongs to them (`TopRecord`), the structures come in
  the order of `Earlier`, so that of equals the first is kept (`TopEarlier`), and in
  the end all are evaluated.
* `SearchExactAlways`: `Spec => []SearchExact`, under the same assumptions. The
  reference `Structures` is a recursive definition without a stack; `StructuresAre`
  first turns it into a finite set given by a condition on whole structures
  (`IsStructure`), with the facts of `RecursionFacts` about recursive functions.
  `SearchInv` then says of the stack that every activation has kept to what the
  rules allow, that its mask excludes exactly what its arcs cover and that it lists
  each head it still has to try once (`Ruled`), that an inner activation
  follows a choice the outer ones have taken off their lists (`Nested`), and that
  the number of structures evaluated and of those left (`Left`) add up to all.
  Without `Nested` a structure could be left twice, and the count would be wrong
  although the sets are right. Each step keeps `Left`, except that `Evaluate` takes
  one structure from it; a list of heads that `DropImpossible` drops was never in it.
  The equality of the running mask with its definition (`ActivationMask`) is where
  the mutant with the wrong bound of the excluded phrases fails.

`KnpServiceProofs` proves, for any number of clients, sentences and children,

* `TypeCorrect` and `ChildrenReaped` (`NoZombieForgotten`);
* `ServiceRefined`: `Spec => ServiceSpec`, the refinement of `Session`. The
  inductive invariant relates, for every client, what it has sent, what is in the
  two pipes, what the child has taken and what the client has taken back: the
  lines on their way are exactly the difference of the two counts. Every step is
  then a step of the session or a stutter.
* `OrderlyInSync`: where `Orderly` holds, `InSync` holds; the run `empty_sentence`
  shows that it fails otherwise.

`PrepareProofs` proves the four properties of the run `prepare`, for sentences of
every length: `TypeCorrect`, `QuotesNestedAlways`, `KoouClosedAlways`,
`RelaxedAllAlways`. The inductive invariant follows the scan: the pairs found are
uncrossed among themselves and against the brackets still on the stack
(`BracketInv`), `Quote_matrix` is closed exactly where a pair closes it
(`QuoteInv`), the correlations passed have closed their cells (`KoouInv`), and
each phrase passed by the relaxation has a head or lies behind a bracket
(`RelaxInv`). The highest opening bracket and the nearest closing one are found
with a least element argument (`LeastNat`), which the well-founded relation on the
naturals gives without an induction over operators.

`ChartParseProofs` proves, for sentences of every length, every matrix, every
limit of the table and every beam,

* `TypeCorrect`: `Spec => []TypeOK`. An entry of cell <<i, j>> has an arc for each
  phrase i .. j - 1, however many coordinations it was continued through, and the
  table is never full;
* `HeadsRightAlways`: `Spec => []HeadsRight`, from the chart, from the neighbours
  `when_no_dpnd_struct` falls back on, and in the second attempt, which starts with
  the chart the first one left;
* `ChartSoundAlways`: `Spec => []ChartSound`, the half of `ChartExact` that holds
  however cells are reduced: where coordinations have been fixed before, every
  analysis in the chart has the arcs of a tree in `Trees`, and what is handed on is
  such a tree or the neighbours;
* `ChartExactAlways`: `Spec => []ChartExact`. Where coordinations have been fixed
  before and nothing is pruned, the analyses are the trees in `Trees`, each once.

Assumption: `ScoresCompare`, scores are integers; `ChartExactAlways` has another one,
below. The inductive invariant says of
every entry in every cell, those of an earlier attempt included, that each of its
arcs leads to the right or holds the offset of an earlier phrase (`ChartInv`), and
of `Best_mgr` that its heads lead to the right once the last structure has been
taken (`ResultInv`). The steps: joining two entries overrides the arcs of one by
those of the other and covers all phrases (`OverrideStays`, `MadeOfIn`), the lists
of a cell stay lists of its entries when they are joined, sorted and cut
(`FlattenStays`, `SortStays`, `PrunedIn`), and replacing offsets from left to right
yields heads to the right (`ResolvedRight`). These are facts about recursive
functions; `RecursionFacts` proves, with induction stated for sets instead of
operators, that a function defined by recursion over the naturals exists and stays
in the set its step maps to itself, and the lemmas apply that to each recursion.

For `ChartSound` the hard part is that `Trees` refers to the barriers as they are in
the end, while a cell is filled with those met so far. `SoundInv` says that every
entry of a cell filled in this attempt is a tree the barriers of this moment allow
(`FillSound`), and `ArcsSteady` why that stays true: a barrier is set at or behind
the column in work, where it forbids nothing that a finished cell uses, and a phrase
that has no dependency yet cannot be relaxed by the end of the sentence before it is
reached. `TreesJoin` is the lemma on trees: a tree over phrases i to d and one over
d + 1 to j, joined by an arc from d to j, are a tree without crossing arcs. `SoundInv`
was checked by TLC on the instance of `chart` before it was proved.

For `ChartExact` there is the other direction: every tree is in the list of its cell,
and only once. `Lists(l, X, C)` says that list `l` numbers the trees `X`; such lists
are joined when their sets are disjoint, flattened, and permuted by the sort
(`ListsJoin`, `ListsFlatten`, `ListsMoved`). A tree over phrases i to j has a first
phrase d that depends on j. Before and behind d it falls into two smaller trees
(`GlueAll`), in one way (`GlueOnce`), and the sets for different d are disjoint and
make up the whole (`FirstSplits`), so the splits of `Merge` add each tree once
(`MergedLists`). `ExactInv` says so of the cells closed and, up to the split at hand,
of the cell in work. It is preserved because `Steady`: a barrier set now must also not
*allow* an arc in a finished cell. A barrier once set stays, unless its
phrase meets another one at a head behind it; a coordinate head alone passes the first
barrier, and then the barrier moves on (`BarrierAfter`, `BarrierSteady`). The heads
between the two would be allowed in the end and were not when their cells were filled.
The assumption `MarksDecide` of the theorem excludes that for the input: if a phrase may
have a head before such a coordinate one, it has none in between but coordinate ones. This is what
`check_para_d_struct` leaves: it clears the row of the last phrase of a conjunct before
it marks the end of the next one (para_dpnd.c:487-519), marks of an incomplete
coordination (`3`) lie at ends no nearer than that, `relax_dpnd_matrix` writes its one
`R` only into a row without a visible head (dpnd_analysis.c:1927-1951), and the rules
that yield type `P` in rule/kakari_uke.rule have no barrier. `MCChart` states
the assumption of its inputs, 51 of which have such a phrase.

`DocumentProofs` proves, for every text, every option and every limit of the arrays,

* `OwnFeaturesAlways`: `Spec => []OwnFeatures`;
* `TypeCorrect`: `Spec => []TypeOK`;
* `ContextKeptAlways`: `Spec => []ContextKept`;
* `AnsweredAlways`: `Spec => []Answered`;
* `PhrasesRightAlways`: `Spec => []PhrasesRight`.

`OwnFeatures` speaks of the two moments before an analysis. The inductive invariant
follows `mrph_data` through all others: the slots in use hold morphemes of the
sentence in work, each with the feature list of its own line, and the slots behind
them are empty (`OwnInv`), as long as no earlier sentence had a parenthesis that may
have been cut out (`Clean`); the parentheses that wait for their turn hold such
morphemes too. It needs that EOS lines and sentences are counted alike (`TextInv`)
and that there are fewer readings pending than morphemes while lines are read
(`CountInv`), which is so because a line `@` follows a morpheme. The steps:
`lexical_disambiguation` leaves one reading and empties the others
(`ReducedStays`), the morphemes left after joining move to the front in order
(`FrontOf`, from `RankExists`: of a finite set with different keys one element has
k others before it), pairs of outermost parentheses do not overlap (`PairFacts`),
and a sentence out of which one is cut has a line with a closing one
(`PreprocessKeeps`). The invariant shows as well where the premise is needed: what
a parenthesis leaves behind is in slots that the next sentence reads into.

`TypeOK` and `ContextKept` have no such premise: they hold with parentheses cut out
as well. `FullInv` adds layers to this invariant, each preserved with the help of
those before it:

* `LineInv`, `PartInv`: whatever features a slot holds, no line is in two slots in
  use and no feature in two slots or waiting parentheses; joining, cutting out and
  disambiguation only move slots (`MovedBy`) or cut their links.
* `BlameInv`: a sentence that is skipped is one `Failed` says so of, and what has
  been read of a sentence bears out that it has not failed yet. This ties the
  program's decision to skip to the premise `AllRead`.
* `ReadInv`, `EntityInv`, `SavedInv`: types. The entities fit because
  `one_line_analysis` (main.c:1853) looks before every sentence, which adds at most
  one per basic phrase; a parenthesis cut out of it comes with the same look and is
  shorter than a sentence.
* `KeepInv`: the lists of a sentence kept are not freed, no line is in two of them,
  and none is in a list that is still to be freed. While a sentence has just been
  kept, the slots in use share their lists with it (`Busy`); the next
  `clear_mrph_features` only cuts these links. Without a context nothing is kept.
* `PreInv`: as long as no sentence has been skipped, `preArticleID` is the article
  of the last comment read.
* `HereInv`: as long as every sentence could be read, the entries of
  `sentence_data` below `Sen_num` are the sentences just before, in order, of the
  article of `preArticleID`, and there is room for this one. `clear_context` and a
  new article start again at 1.

`Answered` speaks of the end of the text. `AnswerInv`, on top of `FullInv`, says of
every moment which sentences have been answered. If each is printed at once, these are
all that have ended. With `-article`, and with anaphora over a text that is one
article, fits and has no parentheses (`OneArticle`), they are all but the last
`Sen_num`, as long as every sentence could be read (`HeldBack`). That what
`print_all_result` prints continues the answers in order is `HereInv` again: the
sentences kept are the `Sen_num` last ones (`KeptPrinted`, `PrintedMany`). A
parenthesis cut out is printed with `EOP`, which is no answer (`PrintedPart`); only
the last part of a sentence ends it (`AnalyseAnswer`). At the end the number of
sentences begun is one more than the number of lines `EOS` (`SentenceCounted`).

`PhrasesRight` compares the phrases and tags with the lines of the text after an
analysis; the program notes in `Bnst_start` and `Tag_start`, while it reads, numbers
of morphemes. The invariants that relate the two are

* `MorphemesIn`, `OtherReadings`, `LastRead`: each slot holds a reading of a morpheme
  of this sentence; the first `Mrph_num - homo_num` of them are of different lines
  `m` and cover all that have been read, and the ones behind are readings of the last
  (`BaseIn`). `lexical_disambiguation` may put any reading in front: its morpheme
  stays the same (`ReducedMorphemes`).
* `StartsIn`: of these morphemes those in `Bnst_start` are the ones a line `*` goes
  with, and the number of the next one is in it exactly if such a line has come since
  (`BeginIn`); the same of `Tag_start`. This holds once nothing is left of what an
  earlier sentence said (`Fresh`): a phrase line came before the first morpheme, which
  resets both, or there was none in an earlier sentence, and then nothing has been
  noted (`MarkInv`).
* `CutInv`: a sentence in which no parenthesis ends reaches its analysis uncut, and
  with the slots it was read into unless digits were joined. What joining leaves is
  the first morpheme and every one that is no digit (`CompactedHolds`), which is all
  that matters when the rules of `make_bunsetsu` divide the sentence.

Working on this proof showed that the property claimed too much for texts the run did
not have; with such texts TLC refuted it, so the run has them now and the property
names the cases. If the first morpheme of a sentence begins no phrase, the starts of
an earlier sentence are still there when its first phrase line comes, since only a
line before the first morpheme resets them (read_data.c:953-963). A second phrase line before
the first morpheme takes back tags begun since the first one. And a reading that is a
digit may be preferred to one that is none, so that in input divided but not analysed
a morpheme may be joined that the line of its first reading does not call a digit.

Assumptions on the limits (`LimitsAssumption`): what const.h:28, 30, 89 and 1512
give, in particular `MRPH_MAX <= TAG_MAX`, since a sentence has no more basic
phrases than morphemes, and room for the entities of one sentence. The proof of
`BlameInv` showed that a sentence also fails if a line for a basic phrase comes
before the first one for a phrase, not only if there is none for a phrase; `Failed`
says so now.

`FeatureRulesProofs` proves, for sentences of every length and all rules, features
and structures that meet `InputsAssumption`, the properties of the run `features`:

* `MatchExactAlways`: `Spec => []MatchExact`. `MatchExact` compares the matcher
  with a definition by cuts, so the proof is about the two recursions, not about
  the steps. What `regexps_match` returns for what is left of the pattern and of
  the elements is exactly what a cover of these remainders leaves over (`Right`,
  `RightStep`, by induction on their sizes). That taking the element first gives
  the longest match rests on `Crossing`: of two covers, one of which begins and the
  other of which ends further on, there is one that does both. The loop of
  `regexprule_match` then finds the longest match that leaves the rest to the
  pattern behind, since the lengths it jumps over are no covers (`ShrinkRight`).
  The premise that the pattern has an element without asterisk is needed: one of
  asterisks only may match no element, and the code then returns the length 0.
* `JumpDisjointAlways`: `Spec => []JumpDisjoint`. The inductive invariant
  `MatchesBehind` says that every match ends before the next element to be looked
  at; it needs that a match never ends behind the sentence (`MatchType`).
* `RestoredAlways`: `Spec => []Restored`. The inductive invariant `Kept` says that
  while structures are treated, every list is descended from the first one of its
  element (`Traced`, `Extended`): what is not temporary was there at first, or bears
  the name of a feature that was and that rules give values to; what was there is
  still there unless a rule deletes or overwrites it; and a first feature that no
  rule deletes is still the first. Each kind of entry keeps this, whichever element
  it spreads to (`AssignTraced`, `DeletedTraced`, `AppliedTraced`), so do the folds over
  entries and elements (`AppliedAllTraced`, `AssignFeatureTraced`, from `FoldStays`),
  and so does deleting (`DrawnTraced`): the list that is left holds what the old one has
  at the places that stay, and its head (`LeftDrawn`, by counting places, `RankFacts`;
  `RemovedDrawn`). The sets `Restored` speaks of are those of these lists
  (`KeptRestored`).

The recursions are over pairs and sets, so `RecursionFacts` has induction and the
existence of recursive functions along a measure too (`MeasureInduction`,
`MeasureExists`), and what these say about folds (`FoldStays`, `FoldExists`).

`CaseMatchProofs` proves, for every predicate and all frames that meet
`InputsAssumption`, whatever their scores, and every size of the array,

* `FramesKeptAlways`: `Spec => []FramesKept`,
* `MatchBestAlways`: `Spec => []MatchBest`,
* `ClosestFirstAlways`: `Spec => []ClosestFirst`.

For `FramesKept`: the array is cut after every frame, so what was thrown away cannot be compared any more with what
comes later. The inductive invariant `Keeping` therefore says of every number of
frames matched that the array is in order, that nothing has been lost while there
was room, and that nothing lost precedes the last match kept. That a new match
which pushes out the last one leaves this true needs that the comparison of
`find_best_cf` is a strict weak order, with its exception for failed matches and
its two ways to break ties (`WeakOrder`), and where the match that moves up from the
end comes to stand (`PlacedRight`, `StoredRight`). Comparing needs scores, and a
frame has one only because the recursion of `assign_list` is right so far: it takes
slots of the frame only (`SlotsTakenIn`), has no element in turn only when the
assignment is complete (`Active`), and evaluates no other, so that the globals hold a
complete assignment unless the frame failed (`Best`, `EvaluatedIn`), and the slot of
the closest element can be looked up in it (`MatchScored`). The invariant has the
recursion in it for this reason (`Matching`).

For `MatchBest` the invariant `Searching`, on top of this one, says what the
recursion owes. Every activation of `assign_list` on the stack has followed the
rules in the order of the elements (`Ruled`); what the globals hold are admissible
assignments with the merit noted (`Found`); and every admissible assignment has
either been weighed against the globals or is still pending: it agrees with what some
activation has assigned and takes a slot that this activation has yet to try
(`Searched`). The parts of the proof are

* the code tests slot after slot for the element in turn, with lists that change
  while it does; `Admissible` tests each against what a whole assignment gives to
  the elements that come earlier. That both agree (`SlotsTakenRight`, `TrialsExact`)
  needs that the flag an earlier try has left for the same element is not seen:
  only the clause of `NO` for the element next to the predicate looks at it
  (`StaleSame`). `NoTwice` says that this can happen, because the element has
  several cases or the frame two slots `NO`, and `MatchBest` leaves these inputs out;
* the score that the recursion adds up along the way is the sum over the assignment,
  whatever the order (`SumChanged`, over the fold of the community modules), and
  the list of slots is the inverse of the list of elements;
* beating is a strict order on merits, and replacing, joining and dropping
  (`Outcome`) keep what has been weighed weighed.

For `ClosestFirst` the invariant `Tracked` says that no frame is matched twice, since
none is a candidate twice (`InOrderApart`), that what is stored for a frame is a match
of this frame with an assignment unless it failed (`Sound`), and that the array holds
different ones of these matches (`KeptApart`). If a match that ties with the first is
not in the array, then the array is full of matches that tie, and more tie than fit
(`TiesKept`). The second sort compares each place with those in front of it and swaps
as it goes. That it is a sort (`ResortedRight`) is shown for any strict order
(`Orders`): after each round the match at the last place is better than none in
front of it (`Behind`, `WorstLastSorted`). Where scores and frequencies agree the
comparison is such an order (`AgreeOrders`). Working on this proof showed that the
property was too strong for frames that the run did not have: the loop that replaces the
scores stops, by a `break`, at a frame without a slot that counts
(case_analysis.c:510-513), and frames behind it that tie with it keep the score of
the closest element alone. TLC then found such a choice; the run has such frames now
(`WithBare`), and `ClosestFirst` is stated for ties without one.

Only model-checked: `BestChosen`, which is about scores that are sums; `MarksKept`, which needs the
masks of coordination analysis; `FreshChart`; what `ParaAnalysis` and `Results` check; and all liveness (`Terminates`,
`NotLeftWaiting`), which is out of the prover's reach.

## 6. Not modelled

* Scores: similarities of phrases, probabilities of case frames, anaphora. No
  decision of the modelled control depends on them except through choices that are
  left open or through parameters.
* Data: dictionaries, thesauri, case frames (`case_ipal.c`) and rule files are
  looked up, not changed; their readers parse text.
* Layout of the output, debugging output, option parsing.
* The Chinese branches of every stage; ellipsis resolution (`context.c`) beyond
  its buffers.
* JUMAN and CRF++, separate programs kept with the sources, and the wrappers
  generated for CRF++.

These make up most of the lines of the repository: generated wrappers and
connection tables, third-party code, feature extraction for scores, and text
formatting hold no state machine of their own, so a share of mapped lines beyond
the control of `src/system` cannot be reached by models that stay shorter than
the code and true to it.
