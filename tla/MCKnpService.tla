---------------------------- MODULE MCKnpService ----------------------------
(* Instances of KnpService for TLC.                                          *)
EXTENDS KnpService

\* One client, or two that differ in what they send.
First == CHOOSE c \in Clients : TRUE
Both(x, y) == [c \in Clients |-> IF c = First THEN x ELSE y]

\* Sentences that can be read; a leading EOS is not sent at all.
Good1 == <<"c", "m", "E", "m", "E">>
Good2 == <<"E", "m", "m", "E">>

\* A sentence without a morpheme; an invalid line and EOf within the input; a
\* line that is too long; too many morphemes.
Empty == <<"c", "E", "m", "E">>
Invalid == <<"x", "E", "F">>
Long == <<"m", "E", "l", "E">>
Many == <<"m", "m", "m", "E">>

Setting(openings, inputs, faults) ==
  [openings |-> openings, inputs |-> inputs, mayTimeOut |-> faults,
   forkMayFail |-> faults, mayTerminate |-> faults]

MCSettings ==
  {Setting({Both(<<"RC", "RUN">>, <<"RUN">>), Both(<<"RUN">>, <<"other", "RUN">>)},
           {Both(Good1, Good2), Both(Good1, Good1)}, FALSE),
   Setting({Both(<<"QUIT">>, <<"RUN">>)}, {Both(Good2, Good1)}, FALSE),
   Setting({Both(<<"RUN">>, <<"RUN">>)}, {Both(Empty, Long), Both(Many, Invalid)}, TRUE)}

EmptySettings == {Setting({Both(<<"RUN">>, <<"RUN">>)}, {Both(Empty, Empty)}, FALSE)}
=============================================================================
