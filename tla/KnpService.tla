----------------------------- MODULE KnpService -----------------------------
(***************************************************************************)
(* KNP as a service (system/main.c): server_mode accepts connections and   *)
(* forks a child for each; the child talks to its client and runs knp_main *)
(* on the lines it gets; client_mode sends the lines of its standard input *)
(* and, after each sentence, waits for a line that begins with "EOS".      *)
(*                                                                         *)
(* Lines: "m" a morpheme, "c" a comment, "x" an invalid line, "l" one that *)
(* is too long, "E" the line EOS, "B" an empty line, "F" the EOf character.*)
(* A line sent carries the number of the sentence it belongs to, and an    *)
(* answer the number of the sentence it was written for; no program reads  *)
(* these numbers.                                                          *)
(***************************************************************************)
EXTENDS Integers, Sequences, FiniteSets

CONSTANTS
  Clients,       \* the clients
  Settings,      \* what may be sent and what may go wrong
  MRPH_MAX,      \* room for the morphemes of a sentence
  NoClient

LineKinds == {"m", "c", "x", "l", "E", "F"}
Commands == {"RUN", "RC", "QUIT", "other"}

\* openings: what clients may send before their sentences.  inputs: what
\* standard input may hold.  mayTimeOut: the search runs under an alarm (not with
\* CKY).  forkMayFail: fork may return -1.  mayTerminate: SIGTERM may be sent to
\* the server.
ASSUME SettingsAssumption ==
  \A s \in Settings :
    /\ s.openings \subseteq [Clients -> Seq(Commands)]
    /\ s.inputs \subseteq [Clients -> Seq(LineKinds)]
    /\ {s.mayTimeOut, s.forkMayFail, s.mayTerminate} \subseteq BOOLEAN
\* RUN or QUIT ends the commands of a client; client_mode itself sends RUN alone.
ASSUME OpeningsAssumption ==
  \A s \in Settings : \A o \in s.openings : \A c \in Clients :
    /\ o[c] # <<>>
    /\ o[c][Len(o[c])] \in {"RUN", "QUIT"}
    /\ \A k \in 1 .. (Len(o[c]) - 1) : o[c][k] \notin {"RUN", "QUIT"}
ASSUME LimitAssumption == MRPH_MAX \in Nat \ {0} /\ NoClient \notin Clients

VARIABLES
  setting,    \* the setting, which does not change
  par,        \* where the server is: "accept", "fork", "close", "gone"
  cur,        \* fd: the connection accepted last
  backlog,    \* connections not yet accepted
  held,       \* connections whose descriptor is open in the server
  sigchld,    \* SIGCHLD is pending
  handling,   \* sig_child is running
  cl,         \* what each client is doing
  opening,    \* the commands it has still to send
  input,      \* its standard input
  strnum,     \* lines sent of the current sentence
  asked,      \* sentences sent
  got,        \* for which sentence each answer read was meant
  ch,         \* what the child of each client is doing
  Mrph_num,   \* of the child's sentence
  now,        \* the number of the sentence the child read last
  success,    \* of knp_main
  up, down,   \* the two directions of a connection
  shut        \* connections shut down or closed by the client

server == <<setting, par, cur, backlog, held>>
signals == <<sigchld, handling>>
client == <<cl, opening, input, strnum, asked, got>>
child == <<ch, Mrph_num, now, success>>
wires == <<up, down, shut>>
vars == <<server, signals, client, child, wires>>

All(x) == [c \in Clients |-> x]

Init ==
  /\ setting \in Settings
  /\ par = "accept" /\ cur = NoClient
  /\ backlog = {} /\ held = {}
  /\ sigchld = FALSE /\ handling = FALSE
  /\ cl = All("connect")
  /\ opening \in setting.openings
  /\ input \in setting.inputs
  /\ strnum = All(0) /\ asked = All(0) /\ got = All(<<>>)
  /\ ch = All("none") /\ Mrph_num = All(0) /\ now = All(0) /\ success = All(TRUE)
  /\ up = All(<<>>) /\ down = All(<<>>) /\ shut = {}

Dead == {"zombie", "reaped"}

\* Nobody will write to the client's end any more.
Closed(c) ==
  \/ c \in shut
  \/ ch[c] \in Dead /\ c \notin held
  \/ par = "gone" /\ ch[c] = "none"
-----------------------------------------------------------------------------
(* client_mode                                                             *)

Connect(c) ==
  /\ cl[c] = "connect" /\ par # "gone"
  /\ backlog' = backlog \cup {c}
  /\ cl' = [cl EXCEPT ![c] = "status"]
  /\ UNCHANGED <<setting, par, cur, held, signals, opening, input, strnum, asked, got, child, wires>>

\* connect fails when the server is gone.
ConnectError(c) ==
  /\ cl[c] = "connect" /\ par = "gone"
  /\ cl' = [cl EXCEPT ![c] = "failed"]
  /\ UNCHANGED <<server, signals, opening, input, strnum, asked, got, child, wires>>

\* send_string waits for a status line.  The greeting is followed by the first
\* command; once the commands are through the sentences follow.
Status(c) ==
  /\ cl[c] = "status" /\ down[c] # <<>>
  /\ down' = [down EXCEPT ![c] = Tail(@)]
  /\ IF Head(down[c]) # 200
     THEN /\ cl' = [cl EXCEPT ![c] = "failed"] /\ shut' = shut \cup {c}
          /\ UNCHANGED <<up, opening>>
     ELSE IF opening[c] = <<>>
     THEN /\ cl' = [cl EXCEPT ![c] = "loop"]
          /\ UNCHANGED <<up, opening, shut>>
     ELSE /\ up' = [up EXCEPT ![c] = Append(@, [kind |-> Head(opening[c]), n |-> 0])]
          /\ opening' = [opening EXCEPT ![c] = Tail(@)]
          /\ UNCHANGED <<cl, shut>>
  /\ UNCHANGED <<server, signals, input, strnum, asked, got, child>>

\* The connection is gone before a status line came.
StatusError(c) ==
  /\ cl[c] = "status" /\ down[c] = <<>> /\ Closed(c)
  /\ cl' = [cl EXCEPT ![c] = "failed"]
  /\ UNCHANGED <<server, signals, opening, input, strnum, asked, got, child, wires>>

Send(c, kind) ==
  up' = IF Closed(c) THEN up
        ELSE [up EXCEPT ![c] = Append(@, [kind |-> kind, n |-> asked[c] + 1])]

SendLine(c) ==
  /\ cl[c] = "loop" /\ input[c] # <<>> /\ Head(input[c]) # "E"
  /\ Send(c, Head(input[c]))
  /\ strnum' = [strnum EXCEPT ![c] = @ + 1]
  /\ input' = [input EXCEPT ![c] = Tail(@)]
  /\ UNCHANGED <<server, signals, cl, opening, asked, got, child, down, shut>>

\* A slip: EOS is sent although nothing was sent before it.
SendEOS_always(c) ==
  /\ cl[c] = "loop" /\ input[c] # <<>> /\ Head(input[c]) = "E"
  /\ input' = [input EXCEPT ![c] = Tail(@)]
  /\ Send(c, "E")
  /\ strnum' = [strnum EXCEPT ![c] = 0]
  /\ asked' = [asked EXCEPT ![c] = @ + 1]
  /\ cl' = [cl EXCEPT ![c] = "wait"]
  /\ UNCHANGED <<server, signals, opening, got, child, down, shut>>

\* EOS is sent, and an answer awaited, only if something was sent before it.
SendEOS(c) ==
  /\ cl[c] = "loop" /\ input[c] # <<>> /\ Head(input[c]) = "E"
  /\ input' = [input EXCEPT ![c] = Tail(@)]
  /\ IF strnum[c] = 0 THEN UNCHANGED <<cl, strnum, asked, up>>
     ELSE /\ Send(c, "E")
          /\ strnum' = [strnum EXCEPT ![c] = 0]
          /\ asked' = [asked EXCEPT ![c] = @ + 1]
          /\ cl' = [cl EXCEPT ![c] = "wait"]
  /\ UNCHANGED <<server, signals, opening, got, child, down, shut>>

\* A line that begins with EOS, "EOS ERROR" included, ends the waiting.
Answer(c) ==
  /\ cl[c] = "wait" /\ down[c] # <<>>
  /\ got' = [got EXCEPT ![c] = Append(@, Head(down[c]))]
  /\ down' = [down EXCEPT ![c] = Tail(@)]
  /\ cl' = [cl EXCEPT ![c] = "loop"]
  /\ UNCHANGED <<server, signals, opening, input, strnum, asked, child, up, shut>>

\* End of file instead of an answer: the client goes on with its input.
NoAnswer(c) ==
  /\ cl[c] = "wait" /\ down[c] = <<>> /\ Closed(c)
  /\ cl' = [cl EXCEPT ![c] = "loop"]
  /\ UNCHANGED <<server, signals, opening, input, strnum, asked, got, child, wires>>

\* The end of the input: "\n", EOf, QUIT, and the connection is closed.
Bye(c) ==
  /\ cl[c] = "loop" /\ input[c] = <<>>
  /\ up' = [up EXCEPT ![c] = @ \o <<[kind |-> "B", n |-> asked[c] + 1],
                                    [kind |-> "F", n |-> asked[c] + 1],
                                    [kind |-> "QUIT", n |-> asked[c] + 1]>>]
  /\ shut' = shut \cup {c}
  /\ cl' = [cl EXCEPT ![c] = "done"]
  /\ UNCHANGED <<server, signals, opening, input, strnum, asked, got, child, down>>

Client(c) == \/ Connect(c) \/ ConnectError(c) \/ Status(c) \/ StatusError(c)
             \/ SendLine(c) \/ SendEOS(c) \/ Answer(c) \/ NoAnswer(c) \/ Bye(c)
-----------------------------------------------------------------------------
(* The accept loop of server_mode and its signal handlers                  *)

Accept ==
  /\ par = "accept" /\ ~ handling
  /\ \E c \in backlog : cur' = c /\ backlog' = backlog \ {c} /\ held' = held \cup {c}
  /\ par' = "fork"
  /\ UNCHANGED <<setting, signals, client, child, wires>>

Fork ==
  /\ par = "fork" /\ ~ handling
  /\ ch' = [ch EXCEPT ![cur] = "greet"]
  /\ par' = "close"
  /\ UNCHANGED <<setting, cur, backlog, held, signals, client, Mrph_num, now, success, wires>>

\* "fork error": back to accept after a second, without closing fd.
ForkError ==
  /\ setting.forkMayFail /\ par = "fork" /\ ~ handling
  /\ par' = "accept"
  /\ UNCHANGED <<setting, cur, backlog, held, signals, client, child, wires>>

\* A slip: the descriptor stays open in the server.
CloseFd_forgotten ==
  /\ par = "close" /\ ~ handling
  /\ par' = "accept"
  /\ UNCHANGED <<setting, cur, backlog, held, signals, client, child, wires>>

CloseFd ==
  /\ par = "close" /\ ~ handling
  /\ held' = held \ {cur}
  /\ par' = "accept"
  /\ UNCHANGED <<setting, cur, backlog, signals, client, child, wires>>

Zombies == {c \in Clients : ch[c] = "zombie"}

\* sig_child: SIGCHLD is held back while it runs, several of them count as one.
Interrupt ==
  /\ sigchld /\ ~ handling /\ par # "gone"
  /\ sigchld' = FALSE /\ handling' = TRUE
  /\ UNCHANGED <<server, client, child, wires>>

\* A slip: one child per signal.
Reap_once ==
  /\ handling
  /\ \/ /\ \E c \in Zombies : ch' = [ch EXCEPT ![c] = "reaped"]
        /\ handling' = FALSE
     \/ Zombies = {} /\ handling' = FALSE /\ UNCHANGED ch
  /\ UNCHANGED <<server, sigchld, client, Mrph_num, now, success, wires>>

\* waitpid until no child is left that has exited.
Reap ==
  /\ handling
  /\ \/ \E c \in Zombies : ch' = [ch EXCEPT ![c] = "reaped"] /\ UNCHANGED handling
     \/ Zombies = {} /\ handling' = FALSE /\ UNCHANGED ch
  /\ UNCHANGED <<server, sigchld, client, Mrph_num, now, success, wires>>

\* sig_term shuts down the listening socket and fd, which is still open if it
\* is being handed over or if the last fork failed, and exits.
Terminate ==
  /\ setting.mayTerminate /\ par # "gone"
  /\ par' = "gone" /\ handling' = FALSE
  /\ shut' = shut \cup backlog \cup ({cur} \cap held)
  /\ backlog' = {} /\ held' = {}
  /\ UNCHANGED <<setting, cur, sigchld, client, child, up, down>>

Server == Accept \/ Fork \/ CloseFd \/ Interrupt \/ Reap
-----------------------------------------------------------------------------
(* The child: commands, then knp_main                                      *)

Say(c, lines) == down' = IF c \in shut THEN down ELSE [down EXCEPT ![c] = @ \o lines]

Go(c, state) == ch' = [ch EXCEPT ![c] = state]

\* Exit; with shutdown(fd, 2) at the regular end.
Exit(c, regular) ==
  /\ Go(c, "zombie")
  /\ sigchld' = (par # "gone")
  /\ shut' = IF regular THEN shut \cup {c} ELSE shut

Greet(c) ==
  /\ ch[c] = "greet"
  /\ Say(c, <<200>>)
  /\ Go(c, "command")
  /\ UNCHANGED <<server, signals, client, Mrph_num, now, success, up, shut>>

Command(c) ==
  /\ ch[c] = "command" /\ up[c] # <<>>
  /\ up' = [up EXCEPT ![c] = Tail(@)]
  /\ LET k == Head(up[c]).kind
     IN  \/ /\ k = "RC"
            /\ Say(c, <<200>>)
            /\ UNCHANGED <<ch, sigchld, shut>>
         \/ /\ k = "RUN"
            /\ Say(c, <<200>>) /\ Go(c, "read")
            /\ UNCHANGED <<sigchld, shut>>
         \/ /\ k = "QUIT"
            /\ Say(c, <<200>>) /\ Exit(c, TRUE)
         \/ /\ k \notin {"RC", "RUN", "QUIT"}
            /\ Say(c, <<500>>)
            /\ UNCHANGED <<ch, sigchld, shut>>
  /\ UNCHANGED <<server, handling, client, Mrph_num, now, success>>

\* read_mrph returns FALSE: the empty sentence is printed all the same, and
\* knp_main, told FALSE, writes EOS ERROR as well.
Failed(c, n) ==
  /\ Say(c, <<n, n>>)
  /\ Go(c, "read")
  /\ Mrph_num' = [Mrph_num EXCEPT ![c] = 0]

\* A slip: the limit is tested too late.
ReadLine_late(c) ==
  /\ ch[c] = "read" /\ up[c] # <<>>
  /\ up' = [up EXCEPT ![c] = Tail(@)]
  /\ now' = [now EXCEPT ![c] = Head(up[c]).n]
  /\ LET k == Head(up[c]).kind
     IN  \/ /\ k = "m" /\ Mrph_num[c] <= MRPH_MAX
            /\ Mrph_num' = [Mrph_num EXCEPT ![c] = @ + 1]
            /\ UNCHANGED <<ch, down>>
         \/ /\ k = "E" /\ Go(c, "analyse")
            /\ UNCHANGED <<Mrph_num, down>>
  /\ UNCHANGED <<server, signals, client, success, shut>>

\* read_mrph, one line.
ReadLine(c) ==
  /\ ch[c] = "read" /\ up[c] # <<>>
  /\ Head(up[c]).kind # "F"
  /\ up' = [up EXCEPT ![c] = Tail(@)]
  /\ now' = [now EXCEPT ![c] = Head(up[c]).n]
  /\ LET k == Head(up[c]).kind
     IN  \/ k = "c" /\ UNCHANGED <<ch, Mrph_num, down>>
         \/ /\ k = "m" /\ Mrph_num[c] < MRPH_MAX
            /\ Mrph_num' = [Mrph_num EXCEPT ![c] = @ + 1]
            /\ UNCHANGED <<ch, down>>
         \/ /\ k = "E" /\ Mrph_num[c] > 0
            /\ Go(c, "analyse")
            /\ UNCHANGED <<Mrph_num, down>>
         \/ /\ k = "l" \/ (k = "E" /\ Mrph_num[c] = 0)
            /\ Failed(c, Head(up[c]).n)
         \/ /\ k \notin {"c", "m", "E", "l"} \/ (k = "m" /\ Mrph_num[c] >= MRPH_MAX)
            /\ Go(c, "skip")
            /\ UNCHANGED <<Mrph_num, down>>
  /\ UNCHANGED <<server, signals, client, success, shut>>

\* readtoeos after an invalid line or too many morphemes; it does not know EOf.
Skip(c) ==
  /\ ch[c] = "skip" /\ up[c] # <<>>
  /\ up' = [up EXCEPT ![c] = Tail(@)]
  /\ now' = [now EXCEPT ![c] = Head(up[c]).n]
  /\ IF Head(up[c]).kind = "E" THEN Failed(c, Head(up[c]).n)
     ELSE UNCHANGED <<ch, Mrph_num, down>>
  /\ UNCHANGED <<server, signals, client, success, shut>>

\* one_sentence_analysis comes to an end and the result is printed.
Analyse(c) ==
  /\ ch[c] = "analyse"
  /\ Say(c, <<now[c]>>)
  /\ Go(c, "read")
  /\ success' = [success EXCEPT ![c] = TRUE]
  /\ Mrph_num' = [Mrph_num EXCEPT ![c] = 0]
  /\ UNCHANGED <<server, signals, client, now, up, shut>>

\* The alarm: the fallback result is printed.  With case analysis the child
\* exits; else knp_main goes on, and whether it writes EOS ERROR depends on
\* `success', a variable changed between setjmp and longjmp whose value is
\* then indeterminate.
TimeOut(c) ==
  /\ setting.mayTimeOut /\ ch[c] = "analyse"
  /\ \/ /\ Say(c, <<now[c]>>)
        /\ Exit(c, FALSE)
        /\ UNCHANGED <<success, Mrph_num>>
     \/ \E s \in BOOLEAN :
          /\ Say(c, IF s THEN <<now[c]>> ELSE <<now[c], now[c]>>)
          /\ Go(c, "read")
          /\ success' = [success EXCEPT ![c] = s]
          /\ Mrph_num' = [Mrph_num EXCEPT ![c] = 0]
          /\ UNCHANGED <<sigchld, shut>>
  /\ UNCHANGED <<server, handling, client, now, up>>

\* EOf or the end of the connection ends knp_main and the child.
Leave(c) ==
  /\ \/ ch[c] = "read" /\ up[c] # <<>> /\ Head(up[c]).kind = "F"
     \/ ch[c] \in {"command", "read", "skip"} /\ up[c] = <<>> /\ c \in shut
  /\ Exit(c, TRUE)
  /\ UNCHANGED <<server, handling, client, Mrph_num, now, success, up, down>>

Child(c) == \/ Greet(c) \/ Command(c) \/ ReadLine(c) \/ Skip(c)
            \/ Analyse(c) \/ Leave(c)

Finished == \A c \in Clients : cl[c] \in {"done", "failed"} /\ ch[c] \in {"none", "reaped"}

Rest == (Finished \/ par = "gone") /\ UNCHANGED vars

Next == \/ \E c \in Clients : Client(c) \/ Child(c) \/ TimeOut(c)
        \/ Server \/ ForkError \/ Terminate \/ Rest

Spec == Init /\ [][Next]_vars

\* Every process that can go on is scheduled.
FairSpec ==
  /\ Spec
  /\ WF_vars(Server)
  /\ \A c \in Clients : WF_vars(Client(c)) /\ WF_vars(Child(c))
-----------------------------------------------------------------------------
(* Properties                                                              *)

\* Type invariant.
TypeOK ==
  /\ par \in {"accept", "fork", "close", "gone"} /\ cur \in Clients \cup {NoClient}
  /\ backlog \subseteq Clients /\ held \subseteq Clients /\ shut \subseteq Clients
  /\ cl \in [Clients -> {"connect", "status", "loop", "wait", "done", "failed"}]
  /\ ch \in [Clients -> {"none", "greet", "command", "read", "skip", "analyse"} \cup Dead]
  /\ Mrph_num \in [Clients -> 0 .. MRPH_MAX]

\* A sentence that read_mrph accepts has a morpheme, not too many, and no line
\* it does not know; an EOS after nothing is not sent.
Readable(lines) ==
  \A k \in DOMAIN lines :
    /\ lines[k] \in {"c", "m", "E"}
    /\ lines[k] = "E" =>
         LET from == {l \in 1 .. (k - 1) : \A n \in l .. (k - 1) : lines[n] # "E"}
         IN  from # {} => Cardinality({l \in from : lines[l] = "m"}) \in 1 .. MRPH_MAX

Orderly ==
  /\ ~ setting.mayTimeOut /\ ~ setting.forkMayFail /\ ~ setting.mayTerminate
  /\ \A o \in setting.openings : \A c \in Clients : o[c][Len(o[c])] = "RUN"
  /\ \A i \in setting.inputs : \A c \in Clients : Readable(i[c])

\* knp_main keeps its output in step with the client ("EOS ERROR", main.c:2018):
\* the k-th line beginning with EOS that a client takes answers its k-th
\* sentence.
InSync == \A c \in Clients : \A k \in DOMAIN got[c] : got[c][k] = k

\* What a client sees of the service is a Session: every sentence gets one
\* answer, its own one if all is in order; the alarm, a failing fork or a sentence
\* that cannot be read may shift or cost answers.  (client_mode and knp_main
\* implement it.)
Seen(doing) ==
  CASE doing = "wait" -> "asking"
    [] doing \in {"done", "failed"} -> "over"
    [] OTHER -> "idle"

Service ==
  INSTANCE Session WITH
    state <- [c \in Clients |-> Seen(cl[c])],
    reliable <- Orderly
ServiceSpec == Service!Spec

\* No exited child is forgotten by sig_child, although several SIGCHLD count as
\* one and children exit while the handler runs.
NoZombieForgotten == Zombies # {} /\ par # "gone" => sigchld \/ handling

\* No client waits for ever for an answer; and one whose child has ended, by a
\* timeout too, comes to its end: the end of the connection reaches it, for no
\* other process holds it open.
NotLeftWaiting ==
  /\ Service!Answered
  /\ \A c \in Clients : (ch[c] \in Dead) ~> (cl[c] \in {"done", "failed"})
=============================================================================
