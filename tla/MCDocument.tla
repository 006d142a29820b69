----------------------------- MODULE MCDocument -----------------------------
(***************************************************************************)
(* Texts of two and three sentences for Document.                          *)
(***************************************************************************)
EXTENDS Document

M(w) == [k |-> "m", w |-> w]
R(w) == [k |-> "@", w |-> w]
P(is) == [k |-> "*", is |-> is]
T(is) == [k |-> "+", is |-> is]
X == [k |-> "x"]
C(a) == [k |-> "#", a |-> a]
E == [k |-> "E"]

Plain == {<<M("b"), M("t")>>, <<M("b"), R("t"), R("b"), M("b")>>, <<M("d"), M("d"), M("b"), M("d"), M("d")>>}
Analysed ==
  {<<P("parsed"), M("b"), P("parsed"), M("d"), M("d")>>,
   <<P("parsed"), T("parsed"), M("b"), T("parsed"), M("t"), R("b"), P("parsed"), T("parsed"), M("b")>>,
   <<P("chunk"), T("chunk"), M("b"), R("b"), P("chunk"), T("chunk"), M("t")>>,
   <<P("chunk"), T("chunk"), M("d"), M("d"), P("chunk"), T("chunk"), M("b")>>,
   <<M("b"), P("parsed"), M("b")>>,
   <<P("chunk"), T("chunk"), P("chunk"), M("b"), T("chunk"), M("t")>>,
   <<P("chunk"), M("b"), R("d"), P("chunk"), M("b"), R("d"), P("chunk"), M("d")>>}
Parenthesised ==
  {<<M("b"), M("("), M("b"), M(")")>>,
   <<M("("), M("b"), M(")"), M("b")>>,
   <<M("("), M("b"), M(")"), M("("), M("b"), M(")")>>,
   <<M("b"), M(")"), M("("), M("b"), M(")")>>,
   <<M("b"), M("("), M("("), M("t"), M(")"), M(")")>>,
   <<M("b"), M("("), M(")"), M("t")>>,
   <<M("t"), M("("), M("t"), M(")"), M("("), M("t"), M(")")>>,
   <<M("t"), M("("), M("t"), M(")"), M("("), M("t"), M(")"), M("("), M("t"), M(")")>>}
Unreadable ==
  {<<>>, <<M("b"), X, M("b")>>, <<M("b"), R("t"), X>>, <<M("b"), P("bad"), M("b")>>, <<T("parsed"), M("b")>>,
   <<P("parsed"), T("bad"), M("b")>>,
   <<M("b"), R("t")>> \o [i \in 1 .. 10 |-> M("t")],
   <<M("b"), M("b"), M("b"), M("b"), M("b")>>}

Bodies == Plain \cup Analysed \cup Parenthesised \cup Unreadable
FewBodies == {<<M("b"), M("t")>>, <<M("b"), R("b"), M("t")>>, <<M("b"), M("("), M("b"), M(")")>>,
              <<P("parsed"), T("parsed"), M("b"), P("parsed"), T("parsed"), M("b")>>, <<>>}

Of(a) == IF a = "" THEN <<>> ELSE <<C(a)>>
Two == {Of(x[1]) \o s1 \o <<E>> \o Of(x[2]) \o s2 \o <<E>> :
          x \in {<<"", "">>, <<"A", "A">>, <<"A", "B">>}, s1 \in Bodies, s2 \in Bodies}
Three == {Of(x[1]) \o s1 \o <<E>> \o Of(x[2]) \o s2 \o <<E>> \o Of(x[3]) \o s3 \o <<E>> :
            x \in {<<"", "", "">>, <<"A", "A", "B">>, <<"A", "B", "B">>},
            s1 \in FewBodies, s2 \in FewBodies, s3 \in FewBodies}
Cut == {<<M("b"), M("b")>>, <<P("parsed"), M("b")>>}

MCTexts == Two \cup Three \cup Cut

MCOptions ==
  [mode : Modes, paren : {FALSE}] \cup [mode : {"plain", "ellipsis", "whole"}, paren : {TRUE}]
=============================================================================
