---------------------------- MODULE MCCaseMatch ----------------------------
(* Instances of CaseMatch: three elements in one frame, and two elements in
   several frames. *)
EXTENDS CaseMatch

(* Elements as they stand in a sentence. *)
Plain(c, oblig, adj) ==
    [pp |-> <<c>>, sp |-> c, explicit |-> TRUE, oblig |-> oblig, agent |-> FALSE, adjacent |-> adj]
Topic(agent) ==
    [pp |-> <<"mi", "ga", "wo", "ga2">>, sp |-> "wa", explicit |-> FALSE, oblig |-> TRUE,
     agent |-> agent, adjacent |-> FALSE]
Relative(agent) ==
    [pp |-> <<"ga", "wo", "soto", "no">>, sp |-> "ren", explicit |-> FALSE, oblig |-> FALSE,
     agent |-> agent, adjacent |-> FALSE]
Modifier ==
    [pp |-> <<"mod">>, sp |-> "mod", explicit |-> TRUE, oblig |-> FALSE, agent |-> FALSE, adjacent |-> FALSE]

Slot(c) == [case |-> c, oblig |-> c # "soto", adjacent |-> c = "wo"]

(* A frame with a score for each element and slot. *)
FrameOf(cases, tab, n) ==
    [slots |-> [s \in DOMAIN cases |-> Slot(cases[s])],
     score |-> [t \in 1 .. n |-> [s \in DOMAIN cases |-> tab[t][s]]],
     nil   |-> [t \in 1 .. n |-> -20],
     empty |-> [s \in DOMAIN cases |-> -3],
     freq  |-> [s \in DOMAIN cases |-> 0],
     samecase |-> {{"wa", "ga"}}, sum |-> FALSE, kana |-> FALSE]

Tables ==
    {<<<<5, 9, 9>>, <<9, 5, 5>>, <<4, 9, 8>>>>,
     <<<<9, 9, 9>>, <<9, 9, 9>>, <<9, 9, 9>>>>,
     <<<<0, 5, 2>>, <<8, 0, 8>>, <<9, 8, 5>>>>}

Negated(tab) == [t \in DOMAIN tab |-> [s \in DOMAIN tab[t] |-> tab[t][s] - 12]]

CaseLists ==
    {<<"ga", "wo", "ga2">>, <<"wo", "ga">>, <<"ga2", "ga", "soto">>, <<"soto">>, <<"no", "wo", "ga">>,
     <<"ga", "wo">>, <<"soto", "ni">>}

Sentences ==
    {<<a, b, c>> : a \in {Plain("ga", TRUE, FALSE), Plain("ni", FALSE, FALSE), Modifier},
                   b \in {Plain("wo", o, TRUE) : o \in BOOLEAN} \cup {Topic(g) : g \in BOOLEAN},
                   c \in {Relative(g) : g \in BOOLEAN} \cup {Topic(FALSE)}}

OneFrame(p) ==
    [elements : Sentences,
     frames : {<<FrameOf(cs, IF p THEN Negated(tab) ELSE tab, 3)>> : cs \in CaseLists, tab \in Tables},
     closest : {0, 2}, prob : {p}, noun : BOOLEAN, prefer : {"none"}, before : BOOLEAN]

(* Several frames: the closest element is the second. *)
Varied(a, b, f, written) ==
    [FrameOf(<<"ga", "wo">>, <<<<a, 0>>, <<0, b>>>>, 2)
        EXCEPT !.freq = <<0, f>>, !.kana = written = "kana", !.sum = written = "sum"]

ManyFrames ==
    [elements : {<<Plain("ga", TRUE, FALSE), Plain("wo", o, TRUE)>> : o \in BOOLEAN}
                \cup {<<Modifier, Plain("wo", FALSE, TRUE)>>, <<Modifier, Modifier>>},
     frames : {<<p, q, r>> : p, q, r \in
                  {Varied(a, b, f, w) : a \in {4, 9}, b \in {5, 8}, f \in {0, 1, 2}, w \in {"kanji"}}}
              \cup {<<p, q, r, v>> : p, q, r, v \in
                      {Varied(a, b, 1, "kanji") : a \in {4, 9}, b \in {5, 8}}}
              \cup {<<p, q>> : p, q \in {Varied(4, 5, 1, w) : w \in {"kanji", "kana", "sum"}}},
     closest : {0, 2}, prob : {FALSE}, noun : {FALSE}, prefer : {"none", "kana"}, before : {FALSE}]

(* Frames with a case that is not the one next to the predicate, and one without a
   slot that counts. *)
Bare == FrameOf(<<"soto">>, <<<<0>>, <<0>>>>, 2)
Distant(a, b, f) ==
    [FrameOf(<<"ga", "ni">>, <<<<a, 0>>, <<0, b>>>>, 2) EXCEPT !.freq = <<0, f>>]

WithBare ==
    [elements : {<<Plain("ga", FALSE, FALSE), Plain("ni", FALSE, TRUE)>>},
     frames : {<<p, q, r>> : p, q, r \in
                  {Bare} \cup {Distant(a, b, f) : a \in {4, 9}, b \in {0, 8}, f \in {0, 1}}},
     closest : {0, 2}, prob : {FALSE}, noun : {FALSE}, prefer : {"none"}, before : {FALSE}]

const_Inputs == OneFrame(TRUE) \cup OneFrame(FALSE) \cup ManyFrames \cup WithBare
=============================================================================
