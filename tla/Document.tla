------------------------------ MODULE Document ------------------------------
(***************************************************************************)
(* A text, sentence by sentence: reading the morphemes (read_mrph in       *)
(* read_data.c) with what an analysed input says of phrases and tags,      *)
(* joining morphemes and cutting out parentheses (preprocess_mrph,         *)
(* process_input_paren), making the phrases (make_bunsetsu, _pm), and      *)
(* keeping the analysed sentences as the context of the next ones          *)
(* (PreserveSentence, ClearSentences, clear_context).  The analysis of a   *)
(* sentence itself is in the other modules; here it is one step.           *)
(*                                                                         *)
(* A line of the text is a record with a field k:                          *)
(*   "#" a comment with the article a;                                     *)
(*   "*" and "+" the start of a phrase or tag, is = "parsed" (with a head), *)
(*       "chunk" (without) or "bad";                                       *)
(*   "m" a morpheme and "@" another reading of it, with the word w: "b"    *)
(*       begins a phrase, "t" a tag, "d" is a digit, "(" and ")";          *)
(*   "x" a line that is none of these; "E" the line EOS.                   *)
(* A feature list is the set of the lines its features come from; {} is    *)
(* the NULL pointer.                                                       *)
(***************************************************************************)
EXTENDS Integers, Sequences, FiniteSets

CONSTANTS
  Texts,         \* texts: sequences of lines
  Options,       \* records with mode and paren
  MRPH_MAX, BNST_MAX, PAREN_MAX, SENTENCE_MAX,
  TAG_MAX, ENTITY_MAX,
  UNNAMED        \* UNNAMED_ENTITY_NUM

\* "plain" no context; "ellipsis" with -ellipsis; "article" -article as well;
\* "each" -anaphora; "whole" anaphora over the text (-anaphora-normal -tab).
Modes == {"plain", "ellipsis", "article", "each", "whole"}
Kinds == {"#", "*", "+", "m", "@", "x", "E"}
Words == {"b", "t", "d", "(", ")"}

ASSUME TextsAssumption ==
  \A t \in Texts :
    /\ t \in Seq({t[p] : p \in DOMAIN t})
    /\ \A p \in DOMAIN t :
         /\ t[p].k \in Kinds
         /\ t[p].k \in {"*", "+"} => t[p].is \in {"parsed", "chunk", "bad"}
         /\ t[p].k \in {"m", "@"} => t[p].w \in Words
         /\ t[p].k = "@" => p > 1 /\ t[p - 1].k \in {"m", "@"}
ASSUME OptionsAssumption == \A o \in Options : o.mode \in Modes /\ o.paren \in BOOLEAN
ASSUME LimitsAssumption ==
  /\ {MRPH_MAX, BNST_MAX, PAREN_MAX, SENTENCE_MAX, TAG_MAX} \subseteq Nat \ {0}
  /\ ENTITY_MAX \in Nat /\ ENTITY_MAX > TAG_MAX + UNNAMED + 1
  /\ MRPH_MAX <= TAG_MAX /\ UNNAMED \in 0 .. 5

VARIABLES
  text, opt,    \* the text and the options, which do not change
  pos,          \* the next line
  pc,           \* "ready", "read", "skip", "prepare", "analyse", "next", "end"
  slot,         \* mrph_data
  Mrph_num, homo_num,
  OptInput,     \* the OPT_INPUT_ flags set; {} is OPT_INPUT_RAW
  Bnst_start, Tag_start, Tag_num,
  pre,          \* preArticleID
  Sen_num,
  sen,          \* total_sen_num
  saved,        \* sentence_data
  ents,         \* entity_manager.num
  parens,       \* paren_sentence_data not yet analysed
  part,         \* 0, or which parenthesis is being analysed
  phrases, tags,  \* the lines that begin a phrase, a tag of the sentence analysed
  freed,        \* lines whose features have been freed
  out           \* what has been printed: sentence and end mark

reading == <<slot, Mrph_num, homo_num, OptInput, Bnst_start, Tag_start, Tag_num>>
context == <<Sen_num, saved, ents>>
vars == <<text, opt, pos, pc, reading, pre, context, sen, parens, part, phrases, tags, freed, out>>

Slots == 0 .. MRPH_MAX - 1
Used == 0 .. Mrph_num - 1
Anaphora == opt.mode \in {"each", "whole"}
Ellipsis == opt.mode # "plain"
NoSlot == [id |-> 0, w |-> "b", f |-> {}]
NoSentence == [sen |-> 0, f |-> {}, st |-> "none"]

Init ==
  /\ text \in Texts /\ opt \in Options
  /\ pos = 1 /\ pc = "ready"
  /\ slot = [i \in Slots |-> NoSlot]
  /\ Mrph_num = 0 /\ homo_num = 0
  /\ OptInput = {} /\ Bnst_start = {} /\ Tag_start = {} /\ Tag_num = 0
  /\ pre = "" /\ Sen_num = 0 /\ sen = 0
  /\ saved = [i \in 0 .. SENTENCE_MAX - 1 |-> NoSentence]
  /\ ents = 0 /\ parens = <<>> /\ part = 0 /\ phrases = {} /\ tags = {} /\ freed = {} /\ out = <<>>
-----------------------------------------------------------------------------
(* Features                                                                *)

FeaturesOf(s, I) == UNION {s[i].f : i \in I}
Emptied(s, I) == [i \in Slots |-> IF i \in I THEN [s[i] EXCEPT !.f = {}] ELSE s[i]]

\* clear_mrph_features: with a context only the links are cut, the sentence
\* kept has the lists.
ClearFeatures(I) == freed' = IF Ellipsis THEN freed ELSE freed \cup FeaturesOf(slot, I)
-----------------------------------------------------------------------------
(* The context                                                             *)

\* The sentences before this one, by number; Sen_num counts unreadable sentences
\* too and may leave sentence_data behind: what is found there is not defined.
Kept == 0 .. Sen_num - 2
Entry(i) == IF i \in DOMAIN saved THEN saved[i] ELSE NoSentence

\* ClearSentence, for each of them.
Dropped(I) == [i \in DOMAIN saved |-> IF i \in I THEN [saved[i] EXCEPT !.st = "freed"] ELSE saved[i]]

ClearSaved(I) ==
  /\ saved' = Dropped(I)
  /\ freed' = freed \cup UNION {Entry(i).f : i \in I}

\* print_result of what is kept, in order.
PrintKept(I) == [k \in 1 .. Cardinality(I) |-> <<Entry(k - 1).sen, "EOS">>]

\* ClearSentences: an article is printed when it is cleared.
ClearSentences ==
  /\ ClearSaved(Kept)
  /\ out' = IF opt.mode = "article" THEN out \o PrintKept(Kept) ELSE out
  /\ Sen_num' = 1 /\ UNCHANGED ents

\* clear_context.
ClearContext ==
  /\ ClearSaved(Kept)
  /\ Sen_num' = 1 /\ ents' = 0 /\ UNCHANGED out

\* A slip: every comment begins a new article only if there was none before.
NewArticle_first(a) ==
  IF a = pre \/ pre # "" THEN UNCHANGED <<context, freed, out>>
  ELSE IF Anaphora THEN ClearContext
  ELSE IF Ellipsis THEN ClearSentences
  ELSE UNCHANGED <<context, freed, out>>

\* The comment of a sentence of another article than the last one.
NewArticle(a) ==
  IF a = pre THEN UNCHANGED <<context, freed, out>>
  ELSE IF Anaphora THEN ClearContext
  ELSE IF Ellipsis THEN ClearSentences
  ELSE UNCHANGED <<context, freed, out>>
-----------------------------------------------------------------------------
(* Reading                                                                 *)

\* one_line_analysis begins: init_for_one_sentence_analysis, then read_mrph.
Start ==
  /\ pc = "ready" /\ pc' = "read"
  /\ ClearFeatures(Used)
  /\ slot' = Emptied(slot, Used)
  /\ Mrph_num' = 0 /\ homo_num' = 0
  /\ Sen_num' = Sen_num + 1 /\ sen' = sen + 1
  /\ UNCHANGED <<text, opt, pos, OptInput, Bnst_start, Tag_start, Tag_num, pre, saved, ents,
                 parens, part, phrases, tags, out>>

Line == text[pos]
Reads(kinds) == pc = "read" /\ pos <= Len(text) /\ Line.k \in kinds /\ pos' = pos + 1

Comment ==
  /\ Reads({"#"})
  /\ NewArticle(Line.a) /\ pre' = Line.a
  /\ UNCHANGED <<text, opt, pc, reading, sen, parens, part, phrases, tags>>

Flag(is) == CASE is = "parsed" -> OptInput \cup {"PARSED"}
              [] is = "chunk" -> OptInput \cup {"CHUNKED"}
              [] is = "bad" -> {}

\* A phrase begins; the first one of a sentence resets what the last sentence
\* said.
BnstLine ==
  /\ Reads({"*"})
  /\ OptInput' = Flag(Line.is)
  /\ IF Line.is = "bad" THEN pc' = "skip" /\ UNCHANGED <<Bnst_start, Tag_start, Tag_num>>
     ELSE /\ Bnst_start' = (IF Mrph_num = 0 THEN {} ELSE Bnst_start) \cup {Mrph_num - homo_num}
          /\ Tag_start' = (IF Mrph_num = 0 THEN {} ELSE Tag_start)
          /\ Tag_num' = (IF Mrph_num = 0 THEN 0 ELSE Tag_num)
          /\ UNCHANGED pc
  /\ UNCHANGED <<text, opt, slot, Mrph_num, homo_num, pre, context, sen, parens, part, phrases, tags, freed, out>>

\* A tag begins; without a phrase line before, now or in an earlier sentence, it
\* is invalid.
TagLine ==
  /\ Reads({"+"})
  /\ IF OptInput = {} THEN pc' = "skip" /\ UNCHANGED <<OptInput, Tag_start, Tag_num>>
     ELSE /\ OptInput' = Flag(Line.is)
          /\ IF Line.is = "bad" THEN pc' = "skip" /\ UNCHANGED <<Tag_start, Tag_num>>
             ELSE /\ Tag_start' = Tag_start \cup {Mrph_num - homo_num}
                  /\ Tag_num' = Tag_num + 1
                  /\ UNCHANGED pc
  /\ UNCHANGED <<text, opt, slot, Mrph_num, homo_num, Bnst_start, pre, context, sen, parens, part,
                 phrases, tags, freed, out>>

\* A slip: the readings given up keep their features.
Reduced_kept(pref) ==
  LET base == Mrph_num - homo_num - 1
  IN  [slot EXCEPT ![base] = slot[base + pref], ![base + pref].f = IF pref = 0 THEN @ ELSE {}]

\* lexical_disambiguation of the last morpheme and its other readings: the
\* preferred one (which one, the rules decide) is moved to the front.
Reduced(pref) ==
  LET base == Mrph_num - homo_num - 1
  IN  [Emptied(slot, base .. Mrph_num - 1) EXCEPT ![base] = slot[base + pref]]

\* A slip: the limit is tested too late.
Full_late(num) == num > MRPH_MAX

Full(num) == num >= MRPH_MAX

\* A morpheme line; the readings collected so far are reduced first, unless it
\* is one more of them.
Morpheme ==
  /\ Reads({"m", "@"})
  /\ \E pref \in 0 .. homo_num :
       LET ends == Line.k = "m" /\ homo_num > 0
           s    == IF ends THEN Reduced(pref) ELSE slot
           num  == IF ends THEN Mrph_num - homo_num ELSE Mrph_num
       IN  /\ (~ ends => pref = 0)
           /\ freed' = IF ends THEN freed \cup (FeaturesOf(slot, Used) \ FeaturesOf(s, Used)) ELSE freed
           /\ IF Full(num)
              THEN slot' = s /\ Mrph_num' = num /\ pc' = "skip"
              ELSE /\ slot' = [s EXCEPT ![num] = [id |-> pos, w |-> Line.w, f |-> @.f \cup {pos}]]
                   /\ Mrph_num' = num + 1 /\ UNCHANGED pc
           /\ homo_num' = (IF ends THEN 0 ELSE homo_num)
                          + (IF Line.k = "@" /\ ~ Full(num) THEN 1 ELSE 0)
  /\ UNCHANGED <<text, opt, OptInput, Bnst_start, Tag_start, Tag_num, pre, context, sen, parens, part,
                 phrases, tags, out>>

\* Any other line: read_mrph gives up.
Invalid ==
  /\ Reads({"x"}) /\ pc' = "skip"
  /\ UNCHANGED <<text, opt, reading, pre, context, sen, parens, part, phrases, tags, freed, out>>

\* print_all_result after a sentence: not with -article, which prints the
\* article as a whole, nor in one_line_analysis with anaphora over the text.
Prints == opt.mode \in {"plain", "ellipsis", "each"}

\* read_mrph returned FALSE: an empty result is printed.  Sen_num stays.
Fail ==
  /\ pc' = "ready"
  /\ ClearFeatures(Used)
  /\ slot' = Emptied(slot, Used)
  /\ Mrph_num' = 0 /\ Tag_num' = 0
  /\ out' = IF Prints THEN Append(out, <<sen, "EOS">>) ELSE out

\* readtoeos.
Skip ==
  /\ pc = "skip" /\ pos <= Len(text) /\ pos' = pos + 1
  /\ IF Line.k = "E" THEN Fail ELSE UNCHANGED <<pc, slot, Mrph_num, Tag_num, freed, out>>
  /\ UNCHANGED <<text, opt, homo_num, OptInput, Bnst_start, Tag_start, pre, context, sen, parens, part,
                 phrases, tags>>

\* EOS.
EndOfSentence ==
  /\ Reads({"E"})
  /\ IF Mrph_num = 0 THEN Fail /\ UNCHANGED <<OptInput, homo_num>>
     ELSE /\ pc' = "prepare"
          /\ OptInput' = IF "PARSED" \in OptInput /\ Tag_num = 0 THEN OptInput \cup {"BNST"} ELSE OptInput
          /\ \E pref \in 0 .. homo_num :
               /\ slot' = IF homo_num > 0 THEN Reduced(pref) ELSE slot
               /\ freed' = freed \cup (FeaturesOf(slot, Used) \ FeaturesOf(slot', Used))
          /\ Mrph_num' = Mrph_num - homo_num /\ homo_num' = 0
          /\ UNCHANGED <<Tag_num, out>>
  /\ UNCHANGED <<text, opt, Bnst_start, Tag_start, pre, context, sen, parens, part, phrases, tags>>
-----------------------------------------------------------------------------
(* Before the analysis                                                     *)

\* The slots of I, in order, moved to the front of the sentence.
Front(s, I) ==
  LET at(k) == CHOOSE i \in I : Cardinality({j \in I : j < i}) = k
  IN  [k \in 0 .. Cardinality(I) - 1 |-> s[at(k)]]

\* A slip: morphemes are joined in an analysed input too.
Joined_always == {i \in Used : i > 0 /\ slot[i].w = "d" /\ slot[i - 1].w = "d"}

\* preprocess_mrph: digits in a row are joined to the first of them, but not if
\* the input is analysed.
Joined == IF "PARSED" \in OptInput THEN {}
          ELSE {i \in Used : i > 0 /\ slot[i].w = "d" /\ slot[i - 1].w = "d"}

\* reset_mrph moves the features with the morphemes.
Compacted ==
  LET left == Front(slot, Used \ Joined)
  IN  [i \in Slots |-> IF i \in DOMAIN left THEN left[i]
                       ELSE IF i \in Used THEN [slot[i] EXCEPT !.f = {}] ELSE slot[i]]

\* process_input_paren: paren_level after the morphemes 0 .. i - 1 of s.
Level(s, num) ==
  LET l[i \in 0 .. num] ==
        IF i = 0 THEN 0
        ELSE l[i - 1] + (CASE s[i - 1].w = "(" -> 1 [] s[i - 1].w = ")" -> -1 [] OTHER -> 0)
  IN  l

\* The outermost pairs of parentheses with something in them.
Pairs(s, num) ==
  LET l == Level(s, num)
  IN  {x \in (0 .. num - 1) \X (0 .. num - 1) :
         /\ x[1] + 1 < x[2] /\ s[x[1]].w = "(" /\ s[x[2]].w = ")"
         /\ l[x[1]] = 0 /\ l[x[2] + 1] = 0
         /\ \A i \in x[1] + 1 .. x[2] : l[i] > 0}

\* Too many pairs, or a parenthesis at both ends, and none is cut out.
CutOut(s, num) ==
  LET p == Pairs(s, num)
  IN  IF \/ p = {} \/ Cardinality(p) >= PAREN_MAX
         \/ (\E x \in p : x[1] = 0) /\ (\E x \in p : x[2] = num - 1)
      THEN {} ELSE p

Inside(p) == UNION {x[1] + 1 .. x[2] - 1 : x \in p}
Within(p) == UNION {x[1] .. x[2] : x \in p}

\* The parentheses from left to right, each a sentence of its own.
ParenSentences(s, p) ==
  [k \in 1 .. Cardinality(p) |->
     LET x == CHOOSE y \in p : Cardinality({z \in p : z[1] < y[1]}) = k - 1
     IN  Front(s, x[1] + 1 .. x[2] - 1)]

\* The features of a morpheme that is moved go with it; those of a parenthesis
\* stay where they are unless something is moved there.
WithoutParens(s, num, p) ==
  LET left == Front(s, (0 .. num - 1) \ Within(p))
  IN  [i \in Slots |->
         IF p # {} /\ i \in DOMAIN left THEN left[i]
         ELSE IF i < num /\ p # {} /\ i \notin Within(p) \ Inside(p) THEN [s[i] EXCEPT !.f = {}]
         ELSE s[i]]

\* preprocess_mrph and process_input_paren.
Preprocess ==
  /\ pc = "prepare" /\ pc' = "analyse"
  /\ LET num == Mrph_num - Cardinality(Joined)
         p   == IF opt.paren THEN CutOut(Compacted, num) ELSE {}
     IN  /\ slot' = WithoutParens(Compacted, num, p)
         /\ Mrph_num' = num - Cardinality(Within(p))
         /\ parens' = ParenSentences(Compacted, p) /\ part' = 0
  /\ freed' = freed \cup FeaturesOf(slot, Joined)
  /\ UNCHANGED <<text, opt, pos, homo_num, OptInput, Bnst_start, Tag_start, Tag_num, pre, context, sen,
                 phrases, tags, out>>
-----------------------------------------------------------------------------
(* The analysis of a sentence and what is kept of it                       *)

\* make_bunsetsu: where the rules begin a phrase; make_bunsetsu_pm: where the
\* input does.
BnstStarts == IF OptInput = {} THEN {i \in Used : i = 0 \/ slot[i].w \in {"b", "("}}
              ELSE Bnst_start \cap Used

\* make_tag_units and make_tag_units_pm.
TagStarts == IF OptInput = {} \/ "BNST" \in OptInput
             THEN BnstStarts \cup {i \in Used : slot[i].w = "t"}
             ELSE Tag_start \cap Used

TooManyBnst == OptInput = {} /\ Cardinality(BnstStarts) > BNST_MAX

Lines(I) == {slot[i].id : i \in I}

EntitiesFull == ents + TAG_MAX >= ENTITY_MAX - 1

\* Whether this is the last part of the sentence.
Mark == IF parens = <<>> THEN "EOS" ELSE "EOP"

\* The parentheses are printed with anaphora over the text too.
PrintsPart == Prints \/ (opt.mode = "whole" /\ part > 0)

\* PreserveSentence, after the context has been cleared if there is no more
\* room; with -anaphora the entities of the sentence are made, and with the first
\* sentence those that have no name.
Preserve ==
  LET clear == Sen_num > SENTENCE_MAX \/ (Anaphora /\ EntitiesFull)
      num   == IF clear THEN 1 ELSE Sen_num
      left  == IF clear THEN Dropped(Kept) ELSE saved
      had   == IF clear /\ Anaphora THEN 0 ELSE ents
  IN  /\ Sen_num' = num
      /\ saved' = [left EXCEPT ![num - 1] = [sen |-> sen, f |-> FeaturesOf(slot, Used), st |-> "kept"]]
      /\ freed' = IF clear THEN freed \cup UNION {Entry(i).f : i \in Kept} ELSE freed
      /\ out' = IF clear /\ opt.mode = "article" THEN out \o PrintKept(Kept)
                ELSE IF PrintsPart THEN Append(out, <<sen, Mark>>) ELSE out
      /\ IF opt.mode = "each"
         THEN \E n \in {0, Cardinality(TagStarts)} :
                ents' = had + (IF num = 1 THEN UNNAMED ELSE 0) + n
         ELSE ents' = had

\* one_sentence_analysis and print_all_result, for the sentence and then for each
\* of its parentheses.
Analyse ==
  /\ pc = "analyse"
  /\ IF TooManyBnst
     THEN /\ phrases' = {} /\ tags' = {} /\ Tag_num' = 0
          /\ out' = IF PrintsPart THEN Append(out, <<sen, Mark>>) ELSE out
          /\ UNCHANGED <<context, freed>>
     ELSE /\ phrases' = Lines(BnstStarts) /\ tags' = Lines(TagStarts)
          /\ Tag_num' = IF OptInput = {} \/ "BNST" \in OptInput THEN Cardinality(TagStarts) ELSE Tag_num
          /\ IF Ellipsis THEN Preserve
             ELSE out' = Append(out, <<sen, Mark>>) /\ UNCHANGED <<context, freed>>
  /\ pc' = IF parens = <<>> THEN "ready" ELSE "next"
  /\ UNCHANGED <<text, opt, pos, slot, Mrph_num, homo_num, OptInput, Bnst_start, Tag_start, pre, sen,
                 parens, part>>

\* init_for_one_sentence_analysis and prepare_paren_sentence.
NextParen ==
  /\ pc = "next" /\ pc' = "analyse"
  /\ ClearFeatures(Used)
  /\ LET p == Head(parens)
     IN  /\ slot' = [i \in Slots |-> IF i \in DOMAIN p THEN p[i] ELSE Emptied(slot, Used)[i]]
         /\ Mrph_num' = Cardinality(DOMAIN p)
  /\ parens' = Tail(parens) /\ part' = part + 1
  /\ UNCHANGED <<text, opt, pos, homo_num, OptInput, Bnst_start, Tag_start, Tag_num, pre, context, sen,
                 phrases, tags, out>>

\* A slip: the sentence begun when the text ended is counted.
Finish_begun ==
  /\ pc \in {"read", "skip"} /\ pos > Len(text) /\ pc' = "end"
  /\ out' = IF opt.mode \in {"article", "whole"} THEN out \o PrintKept(0 .. Sen_num - 1) ELSE out
  /\ UNCHANGED <<text, opt, pos, reading, pre, context, sen, parens, part, phrases, tags, freed>>

\* The end of the text: knp_main prints what has been kept back.  Sen_num counts
\* the sentence that could not be read as well.
Finish ==
  /\ pc \in {"read", "skip"} /\ pos > Len(text) /\ pc' = "end"
  /\ out' = IF opt.mode \in {"article", "whole"} THEN out \o PrintKept(Kept) ELSE out
  /\ UNCHANGED <<text, opt, pos, reading, pre, context, sen, parens, part, phrases, tags, freed>>

Next == \/ Start \/ Comment \/ BnstLine \/ TagLine \/ Morpheme \/ Invalid \/ Skip \/ EndOfSentence
        \/ Preprocess \/ Analyse \/ NextParen \/ Finish

Spec == Init /\ [][Next]_vars
-----------------------------------------------------------------------------
(* Properties                                                              *)

\* The lines of the n-th sentence, and the morpheme line a line goes with.
Number(p) == 1 + Cardinality({q \in 1 .. p - 1 : text[q].k = "E"})
LinesOf(n, kinds) == {p \in DOMAIN text : Number(p) = n /\ text[p].k \in kinds}
Base(p) == CHOOSE q \in 1 .. p : text[q].k = "m" /\ \A r \in q + 1 .. p : text[r].k = "@"

\* The morphemes that follow a line of that kind.
Begun(n, kind) ==
  {q \in LinesOf(n, {"m"}) :
     \E p \in LinesOf(n, {kind}) : p < q /\ \A r \in p + 1 .. q - 1 : text[r].k \notin {"m", "@"}}

MarkedBefore(n) == \E p \in DOMAIN text : Number(p) < n /\ text[p].k = "*"
HasParen(n) == opt.paren /\ \E p \in LinesOf(n, {"m", "@"}) : text[p].w = ")"

\* Sentences that cannot be read or have too many phrases; a line for a tag needs
\* one for a phrase before it.
Failed(n) ==
  \/ LinesOf(n, {"m"}) = {} \/ LinesOf(n, {"x"}) # {}
  \/ \E p \in LinesOf(n, {"*", "+"}) : text[p].is = "bad"
  \/ \E p \in LinesOf(n, {"+"}) : \A q \in LinesOf(n, {"*"}) : p < q
  \/ Cardinality(LinesOf(n, {"m", "@"})) > MRPH_MAX
  \/ Cardinality({p \in LinesOf(n, {"m", "@"}) : text[p].w \in {"b", "("}}) >= BNST_MAX
AllRead == \A n \in 1 .. sen : n <= Number(Len(text)) => ~ Failed(n)

\* Type invariant: every array index is in its array, and the entities of a
\* sentence fit (main.c:1853; not with anaphora over the text, which makes those
\* of all sentences at the end).
TypeOK ==
  /\ pc \in {"ready", "read", "skip", "prepare", "analyse", "next", "end"}
  /\ slot \in [Slots -> [id : 0 .. Len(text), w : Words, f : SUBSET (1 .. Len(text))]]
  /\ Mrph_num \in 0 .. MRPH_MAX /\ homo_num \in 0 .. MRPH_MAX
  /\ pc \in {"read", "prepare", "analyse"} => homo_num <= Mrph_num
  /\ OptInput \subseteq {"PARSED", "CHUNKED", "BNST"}
  /\ Bnst_start \subseteq 0 .. MRPH_MAX /\ Tag_start \subseteq 0 .. MRPH_MAX
  /\ Sen_num \in Nat /\ (Ellipsis /\ AllRead => Sen_num <= SENTENCE_MAX + 1)
  /\ saved \in [0 .. SENTENCE_MAX - 1 -> [sen : 0 .. sen, f : SUBSET (1 .. Len(text)),
                                          st : {"none", "kept", "freed"}]]
  /\ ents \in 0 .. ENTITY_MAX

\* The features of a morpheme come from its own line only, however many
\* sentences, readings and joined morphemes have been in its slot before:
\* read_mrph adds to what is there and relies on every slot having been
\* cleared.  (With parentheses cut out this is not so: their features stay
\* behind.)
OwnFeatures ==
  pc \in {"prepare", "analyse"} /\ (\A n \in 1 .. sen - 1 : ~ HasParen(n)) =>
    \A i \in Used : slot[i].f = {slot[i].id}

Article(n) ==
  LET c == {p \in DOMAIN text : Number(p) <= n /\ text[p].k = "#"}
  IN  IF c = {} THEN "" ELSE text[CHOOSE p \in c : \A q \in c : q <= p].a

\* The context of a sentence is the sentences just before it, in order, all of
\* the same article, none of them freed: corefer_analysis and the anaphora
\* analysis look them up by Sen_num.  (Only if every sentence could be read.)
\* The features of one that is kept are never freed, and no slot that is read
\* into has them: PreserveSentence copies the pointers, and the next
\* init_for_one_sentence_analysis only cuts the links.
ContextKept ==
  /\ \A i \in DOMAIN saved :
       saved[i].st = "kept" =>
         /\ saved[i].f \cap freed = {}
         /\ pc \in {"read", "skip", "prepare"} => saved[i].f \cap FeaturesOf(slot, Slots) = {}
  /\ Ellipsis /\ AllRead /\ pc \in {"prepare", "ready"} =>
       \A i \in (IF pc = "ready" THEN 0 .. Sen_num - 1 ELSE Kept) :
         /\ saved[i].st = "kept" /\ saved[i].sen = sen - (Sen_num - 1) + i
         /\ Article(saved[i].sen) = Article(sen)

\* main.c:1957, when a sentence has failed: "the number of sentences is not
\* increased".  Every sentence counted is one that was kept.
OnlyKeptCounted ==
  Ellipsis /\ pc = "ready" => \A i \in 0 .. Sen_num - 1 : Entry(i).st = "kept"

\* The phrases and tags are those the input gives, if it does, and else those of
\* the rules, although the flags and starts of one sentence stay for the next
\* one.  (Not if an analysed sentence comes before one that is not, or before one
\* whose first morpheme begins no phrase: only a phrase line before the first
\* morpheme resets what the last sentence said.  A second such line takes back the
\* tags begun since the first one.  Nor if tags are given only for some, if phrases
\* are given without heads and digits are joined, or if parentheses are cut out of
\* an analysed sentence.)
PhrasesRight ==
  pc = "ready" /\ phrases # {} /\ ~ Failed(sen) /\ ~ HasParen(sen) =>
    LET given  == Begun(sen, "*")
        digits == \E p \in LinesOf(sen, {"m", "@"}) : text[p].w = "d"
        first  == {p \in LinesOf(sen, {"m"}) : \A q \in LinesOf(sen, {"m"}) : p <= q}
        taken  == \E p \in LinesOf(sen, {"*"}), q \in LinesOf(sen, {"+"}) :
                    q < p /\ \A r \in LinesOf(sen, {"m"}) : p < r
    IN  /\ given # {} /\ (first \subseteq given \/ ~ MarkedBefore(sen)) /\ (digits => "PARSED" \in OptInput) =>
             /\ {Base(p) : p \in phrases} = given
             /\ "BNST" \notin OptInput /\ ~ taken => {Base(p) : p \in tags} = Begun(sen, "+")
        /\ given = {} /\ ~ MarkedBefore(sen) /\ LinesOf(sen, {"@"}) = {} =>
             phrases = first \cup {p \in LinesOf(sen, {"m"}) : text[p].w \in {"b", "("}}

\* The marks EOS in o are those of the sentences 1 .. n, in order.
InOrder(o, n) ==
  LET eos == {p \in DOMAIN o : o[p][2] = "EOS"}
  IN  Cardinality(eos) = n /\ \A p \in eos : o[p][1] = Cardinality({q \in eos : q <= p})

\* Every sentence is answered by one EOS, in order, whether it is printed at
\* once, with its article or at the end of the text.  (With anaphora over the
\* text, only if it is one article that fits; with -article, only if every
\* sentence could be read.)
Answered ==
  pc = "end" =>
    LET count == Cardinality({p \in DOMAIN text : text[p].k = "E"})
        one   == \A p \in DOMAIN text : text[p].k = "#" /\ Number(p) > 1 => text[p].a = Article(1)
    IN  \/ opt.mode \in {"article", "whole"} /\ ~ AllRead
        \/ opt.mode = "whole" /\ (~ one \/ count > SENTENCE_MAX \/ \E n \in 1 .. count : HasParen(n))
        \/ InOrder(out, count)

=============================================================================
