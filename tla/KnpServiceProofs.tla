-------------------------- MODULE KnpServiceProofs --------------------------
(***************************************************************************)
(* Proofs about KnpService, for every number of clients, every text they   *)
(* send and every room for morphemes: its type invariant, that sig_child   *)
(* forgets no child, and that what the clients see is a Session.           *)
(*                                                                         *)
(* The refinement rests on what may be on the wires.  Until RUN is through *)
(* a client and its child exchange one line at a time (Dialogue).          *)
(* Afterwards no line and no answer carries the number of a sentence that  *)
(* has not been sent (Talking).  If all is in order, the lines on the wire *)
(* are the ones the child has still to read of the client's text, and      *)
(* Mrph_num counts the morphemes it has read since the last EOS (InStep):  *)
(* so no sentence fails, and no answer is left over.                       *)
(***************************************************************************)
EXTENDS KnpService, SequenceTheorems, FiniteSetTheorems, TLAPS

Lines == [kind : LineKinds \cup Commands \cup {"B"}, n : Nat]

\* The functions of the clients, of the children and of the wires.
ClientTypes ==
  /\ cl \in [Clients -> {"connect", "status", "loop", "wait", "done", "failed"}]
  /\ opening \in [Clients -> Seq(Commands)]
  /\ input \in [Clients -> Seq(LineKinds)]
  /\ strnum \in [Clients -> Nat] /\ asked \in [Clients -> Nat]
  /\ got \in [Clients -> Seq(Nat)]

ChildTypes ==
  /\ ch \in [Clients -> {"none", "greet", "command", "read", "skip", "analyse"} \cup Dead]
  /\ Mrph_num \in [Clients -> 0 .. MRPH_MAX]
  /\ now \in [Clients -> Nat] /\ success \in [Clients -> BOOLEAN]

WireTypes ==
  /\ up \in [Clients -> Seq(Lines)] /\ down \in [Clients -> Seq(Nat)]
  /\ shut \subseteq Clients

ServerTypes ==
  /\ setting \in Settings
  /\ par \in {"accept", "fork", "close", "gone"} /\ cur \in Clients \cup {NoClient}
  /\ backlog \subseteq Clients /\ held \subseteq Clients

SignalTypes == sigchld \in BOOLEAN /\ handling \in BOOLEAN

\* The types a step needs.
Types == ServerTypes /\ SignalTypes /\ ClientTypes /\ ChildTypes /\ WireTypes

\* A connection has no child before it is accepted and forked for.
Accepting ==
  /\ \A c \in backlog : ch[c] = "none" /\ cl[c] # "connect"
  /\ par = "fork" => /\ cur \in Clients \ backlog
                     /\ ch[cur] = "none" /\ cl[cur] # "connect"

\* What is left of the commands of a client: RUN or QUIT at the end only.
Ends(commands) ==
  \A k \in 1 .. Len(commands) :
    commands[k] \in {"RUN", "QUIT"} <=> k = Len(commands)

\* Before RUN is through.
Dialogue(c) ==
  /\ Ends(opening[c])
  /\ cl[c] = "connect" => ch[c] = "none"
  /\ ch[c] \in {"none", "greet"} => up[c] = <<>> /\ down[c] = <<>> /\ opening[c] # <<>>
  /\ Len(up[c]) + Len(down[c]) <= 1
  /\ up[c] # <<>> => /\ ch[c] \in {"command"} \cup Dead
                     /\ up[c][1].kind \in {"RUN", "QUIT"} <=> opening[c] = <<>>
  /\ ch[c] = "command" /\ up[c] = <<>> => opening[c] # <<>>
  /\ ch[c] = "read" => opening[c] = <<>>
  /\ ch[c] \notin {"skip", "analyse"}

\* The last sentence of which something may have been sent.
Begun(c) == asked[c] + (IF strnum[c] > 0 THEN 1 ELSE 0)

\* Lines and answers that belong to the first n sentences.
LinesUpTo(lines, n) == \A k \in 1 .. Len(lines) : lines[k].n \in 1 .. n
AnswersUpTo(answers, n) == \A k \in 1 .. Len(answers) : answers[k] \in 1 .. n

\* Once RUN is through.
Talking(c) ==
  /\ ch[c] \in {"read", "skip", "analyse"} \cup Dead
  /\ cl[c] = "wait" => strnum[c] = 0
  /\ LinesUpTo(up[c], Begun(c))
  /\ AnswersUpTo(down[c], Begun(c))
  /\ ch[c] = "analyse" => now[c] \in 1 .. Begun(c)

\* The lines since the last EOS among the first k, and their morphemes.
Since(text, k) == {l \in 1 .. k : \A n \in l .. k : text[n] # "E"}
Count(text, k) == Cardinality({l \in Since(text, k) : text[l] = "m"})

\* What is left of a text after k lines; the lines j + 1 .. k of it on the wire;
\* the sentence they belong to; no EOS among them.
Remaining(lines, text, k) ==
  /\ Len(lines) = Len(text) - k
  /\ \A i \in 1 .. Len(lines) : lines[i] = text[k + i]

OnWire(lines, text, j, k) ==
  /\ Len(lines) = k - j
  /\ \A i \in 1 .. Len(lines) : lines[i].kind = text[j + i]

Numbered(lines, n) == \A i \in 1 .. Len(lines) : lines[i].n = n

NoEOS(text, j, k) == \A i \in (j + 1) .. k : text[i] # "E"

Texts(c) == {i[c] : i \in setting.inputs}

\* Of a readable text the client has read k lines, and the child the first j of
\* these.
InStep(c, text, k, j) ==
  /\ Readable(text)
  /\ k \in 0 .. Len(text) /\ j \in 0 .. k
  /\ Remaining(input[c], text, k)
  /\ strnum[c] = 0 <=> k = 0 \/ text[k] = "E"
  /\ OnWire(up[c], text, j, k)
  /\ cl[c] = "loop" =>
       /\ down[c] = <<>>
       /\ ch[c] \in {"read", "skip"}
       /\ Numbered(up[c], asked[c] + 1)
       /\ NoEOS(text, j, k)
  /\ cl[c] = "wait" =>
       /\ k > 1 /\ text[k] = "E" /\ text[k - 1] # "E"
       /\ Numbered(up[c], asked[c])
       /\ NoEOS(text, j, k - 1)
       /\ \/ ch[c] = "read" /\ j < k /\ down[c] = <<>>
          \/ ch[c] = "analyse" /\ j = k /\ down[c] = <<>> /\ now[c] = asked[c]
          \/ ch[c] = "read" /\ j = k /\ down[c] = <<asked[c]>>
  /\ ch[c] = "read" => Mrph_num[c] = Count(text, j)
  /\ ch[c] = "skip" => Count(text, j) > MRPH_MAX

Reading(c) ==
  \E text \in Texts(c) : \E k, j \in 0 .. Len(text) : InStep(c, text, k, j)

\* If all is in order.
Undisturbed(c) ==
  /\ c \notin shut /\ ch[c] \notin Dead
  /\ cl[c] \in {"connect", "status"} =>
       /\ input[c] \in Texts(c)
       /\ strnum[c] = 0 /\ asked[c] = 0 /\ Mrph_num[c] = 0
       /\ \A k \in 1 .. Len(opening[c]) : opening[c][k] # "QUIT"
       /\ \A k \in 1 .. Len(up[c]) : up[c][k].kind # "QUIT"
  /\ cl[c] \in {"loop", "wait"} => Reading(c)

\* What holds of each client.
Each(c) ==
  /\ cl[c] \in {"connect", "status"} => Dialogue(c)
  /\ cl[c] \in {"loop", "wait"} => Talking(c)
  /\ Orderly /\ cl[c] \in {"connect", "status", "loop", "wait"} => Undisturbed(c)

\* The inductive invariant.
IInv ==
  /\ Types
  /\ NoZombieForgotten
  /\ Accepting
  /\ Orderly => par # "gone"
  /\ \A c \in Clients : Each(c)
-----------------------------------------------------------------------------
(* Types                                                                   *)

\* They contain the type invariant.
LEMMA TypesOK == Types => TypeOK
BY DEF Types, TypeOK, ServerTypes, SignalTypes, ClientTypes, ChildTypes, WireTypes

\* What takes one line off a wire, or puts one on it, leaves a sequence.
LEMMA SeqLemma ==
  ASSUME NEW S, NEW s \in Seq(S), NEW x \in S, NEW y \in S, NEW z \in S
  PROVE  /\ Append(s, x) \in Seq(S)
         /\ s \o <<x>> \in Seq(S) /\ s \o <<x, y>> \in Seq(S)
         /\ s \o <<x, y, z>> \in Seq(S)
         /\ s # <<>> => Head(s) \in S /\ Head(s) = s[1] /\ Tail(s) \in Seq(S)
OBVIOUS

\* Every wire holds a sequence; lines sent and answers given are of their types.
LEMMA WireLemma ==
  ASSUME WireTypes, NEW c \in Clients
  PROVE  /\ up[c] \in Seq(Lines) /\ down[c] \in Seq(Nat)
         /\ \A l \in Lines : [up EXCEPT ![c] = Append(@, l)] \in [Clients -> Seq(Lines)]
         /\ up[c] # <<>> => /\ [up EXCEPT ![c] = Tail(@)] \in [Clients -> Seq(Lines)]
                            /\ Head(up[c]) = up[c][1] /\ Head(up[c]) \in Lines
                            /\ Head(up[c]).n \in Nat
         /\ down[c] # <<>> => /\ [down EXCEPT ![c] = Tail(@)] \in [Clients -> Seq(Nat)]
                              /\ Head(down[c]) = down[c][1] /\ Head(down[c]) \in Nat
         /\ \A n \in Nat : /\ [down EXCEPT ![c] = @ \o <<n>>] \in [Clients -> Seq(Nat)]
                           /\ [down EXCEPT ![c] = @ \o <<n, n>>] \in [Clients -> Seq(Nat)]
<1>1. up[c] \in Seq(Lines) /\ down[c] \in Seq(Nat)
  BY DEF WireTypes
<1>2. ASSUME NEW l \in Lines
      PROVE  [up EXCEPT ![c] = Append(@, l)] \in [Clients -> Seq(Lines)]
  <2>1. Append(up[c], l) \in Seq(Lines)
    BY <1>1, SeqLemma
  <2> QED
    BY <2>1 DEF WireTypes
<1>3. ASSUME up[c] # <<>>
      PROVE  /\ [up EXCEPT ![c] = Tail(@)] \in [Clients -> Seq(Lines)]
             /\ Head(up[c]) = up[c][1] /\ Head(up[c]) \in Lines
             /\ Head(up[c]).n \in Nat
  <2>1. Tail(up[c]) \in Seq(Lines) /\ Head(up[c]) = up[c][1] /\ Head(up[c]) \in Lines
    BY <1>1, <1>3
  <2>2. [up EXCEPT ![c] = Tail(@)] \in [Clients -> Seq(Lines)]
    BY <2>1 DEF WireTypes
  <2> QED
    BY <2>1, <2>2 DEF Lines
<1>4. ASSUME down[c] # <<>>
      PROVE  /\ [down EXCEPT ![c] = Tail(@)] \in [Clients -> Seq(Nat)]
             /\ Head(down[c]) = down[c][1] /\ Head(down[c]) \in Nat
  <2>1. Tail(down[c]) \in Seq(Nat) /\ Head(down[c]) = down[c][1] /\ Head(down[c]) \in Nat
    BY <1>1, <1>4
  <2> QED
    BY <2>1 DEF WireTypes
<1>5. ASSUME NEW n \in Nat
      PROVE  /\ [down EXCEPT ![c] = @ \o <<n>>] \in [Clients -> Seq(Nat)]
             /\ [down EXCEPT ![c] = @ \o <<n, n>>] \in [Clients -> Seq(Nat)]
  <2>1. down[c] \o <<n>> \in Seq(Nat) /\ down[c] \o <<n, n>> \in Seq(Nat)
    BY <1>1, SeqLemma
  <2> QED
    BY <2>1 DEF WireTypes
<1> QED
  BY <1>1, <1>2, <1>3, <1>4, <1>5

\* A client that sends its next line puts a line on the wire, or nothing.
LEMMA SendLemma ==
  ASSUME WireTypes, ClientTypes, NEW c \in Clients, NEW k \in LineKinds, Send(c, k)
  PROVE  up' \in [Clients -> Seq(Lines)]
<1>1. asked[c] + 1 \in Nat
  BY DEF ClientTypes
<1>2. [kind |-> k, n |-> asked[c] + 1] \in Lines
  BY <1>1 DEF Lines
<1> QED
  BY <1>2, WireLemma DEF Send, WireTypes

\* So does a child that answers.
LEMMA SayLemma ==
  ASSUME WireTypes, NEW c \in Clients, NEW n \in Nat
  PROVE  Say(c, <<n>>) \/ Say(c, <<n, n>>) => down' \in [Clients -> Seq(Nat)]
<1>1. down \in [Clients -> Seq(Nat)]
  BY DEF WireTypes
<1>2. CASE c \in shut
  BY <1>1, <1>2 DEF Say
<1>3. CASE c \notin shut
  <2>1. ASSUME Say(c, <<n>>) PROVE down' = [down EXCEPT ![c] = @ \o <<n>>]
    BY <1>3, <2>1, Zenon DEF Say
  <2>2. ASSUME Say(c, <<n, n>>) PROVE down' = [down EXCEPT ![c] = @ \o <<n, n>>]
    BY <1>3, <2>2, Zenon DEF Say
  <2>3. /\ [down EXCEPT ![c] = @ \o <<n>>] \in [Clients -> Seq(Nat)]
        /\ [down EXCEPT ![c] = @ \o <<n, n>>] \in [Clients -> Seq(Nat)]
    BY WireLemma, Zenon
  <2> QED
    BY <2>1, <2>2, <2>3, Zenon
<1> QED
  BY <1>2, <1>3

\* The client's steps keep the types.
LEMMA ClientTypesKept ==
  ASSUME Types, NEW c \in Clients, Client(c)
  PROVE  Types'
<1>1. ServerTypes /\ SignalTypes /\ ClientTypes /\ ChildTypes /\ WireTypes
  BY DEF Types
<1>0. SUFFICES ServerTypes' /\ SignalTypes' /\ ClientTypes' /\ ChildTypes' /\ WireTypes'
  BY DEF Types
<1>2. CASE Connect(c)
  BY <1>1, <1>2 DEF Connect, ServerTypes, SignalTypes, ClientTypes, ChildTypes, WireTypes,
     child, wires, signals
<1>3. CASE ConnectError(c)
  BY <1>1, <1>3 DEF ConnectError, ServerTypes, SignalTypes, ClientTypes, ChildTypes, WireTypes,
     server, child, wires, signals
<1>4. CASE Status(c)
  <2>1. ServerTypes' /\ SignalTypes' /\ ChildTypes'
    BY <1>1, <1>4 DEF Status, ServerTypes, SignalTypes, ChildTypes, server, child, signals
  <2>2. opening[c] # <<>> =>
          /\ [kind |-> Head(opening[c]), n |-> 0] \in Lines
          /\ [opening EXCEPT ![c] = Tail(@)] \in [Clients -> Seq(Commands)]
    <3>1. opening[c] \in Seq(Commands)
      BY <1>1 DEF ClientTypes
    <3>2. opening[c] # <<>> => Head(opening[c]) \in Commands /\ Tail(opening[c]) \in Seq(Commands)
      BY <3>1
    <3> QED
      BY <1>1, <3>2 DEF Lines, ClientTypes
  <2>3. down' \in [Clients -> Seq(Nat)]
    BY <1>1, <1>4, WireLemma DEF Status
  <2>5. CASE Head(down[c]) # 200
    BY <1>1, <1>4, <2>1, <2>3, <2>5 DEF Status, WireTypes, ClientTypes
  <2>6. CASE Head(down[c]) = 200 /\ opening[c] = <<>>
    <3>1. /\ cl' = [cl EXCEPT ![c] = "loop"] /\ UNCHANGED <<up, opening, shut>>
          /\ UNCHANGED <<input, strnum, asked, got>>
      BY <1>4, <2>6 DEF Status
    <3> QED
      BY <1>1, <2>1, <2>3, <3>1 DEF WireTypes, ClientTypes
  <2>7. CASE Head(down[c]) = 200 /\ opening[c] # <<>>
    <3>1. /\ up' = [up EXCEPT ![c] = Append(@, [kind |-> Head(opening[c]), n |-> 0])]
          /\ opening' = [opening EXCEPT ![c] = Tail(@)]
          /\ UNCHANGED <<cl, shut, input, strnum, asked, got>>
      BY <1>4, <2>7 DEF Status
    <3>2. up' \in [Clients -> Seq(Lines)]
      BY <1>1, <2>2, <2>7, <3>1, WireLemma
    <3> QED
      BY <1>1, <2>1, <2>2, <2>3, <2>7, <3>1, <3>2 DEF WireTypes, ClientTypes
  <2> QED
    BY <2>5, <2>6, <2>7
<1>5. CASE StatusError(c)
  BY <1>1, <1>5 DEF StatusError, ServerTypes, SignalTypes, ClientTypes, ChildTypes, WireTypes,
     server, child, wires, signals
<1>6. CASE SendLine(c)
  <2>1. ServerTypes' /\ SignalTypes' /\ ChildTypes'
    BY <1>1, <1>6 DEF SendLine, ServerTypes, SignalTypes, ChildTypes, server, child, signals
  <2>2. Head(input[c]) \in LineKinds /\ Tail(input[c]) \in Seq(LineKinds)
    <3>1. input[c] \in Seq(LineKinds) /\ input[c] # <<>>
      BY <1>1, <1>6 DEF ClientTypes, SendLine
    <3> QED
      BY <3>1
  <2>3. WireTypes'
    BY <1>1, <1>6, <2>2, SendLemma DEF SendLine, WireTypes
  <2>4. ClientTypes'
    BY <1>1, <1>6, <2>2 DEF SendLine, ClientTypes
  <2> QED
    BY <2>1, <2>3, <2>4
<1>7. CASE SendEOS(c)
  <2>1. ServerTypes' /\ SignalTypes' /\ ChildTypes'
    BY <1>1, <1>7 DEF SendEOS, ServerTypes, SignalTypes, ChildTypes, server, child, signals
  <2>2. "E" \in LineKinds /\ Tail(input[c]) \in Seq(LineKinds)
    <3>1. input[c] \in Seq(LineKinds) /\ input[c] # <<>>
      BY <1>1, <1>7 DEF ClientTypes, SendEOS
    <3> QED
      BY <3>1 DEF LineKinds
  <2>3. WireTypes'
    BY <1>1, <1>7, <2>2, SendLemma DEF SendEOS, WireTypes
  <2>4. ClientTypes'
    <3>1. CASE strnum[c] = 0
      BY <1>1, <1>7, <2>2, <3>1 DEF SendEOS, ClientTypes
    <3>2. CASE strnum[c] # 0
      <4>1. /\ input' = [input EXCEPT ![c] = Tail(@)]
            /\ strnum' = [strnum EXCEPT ![c] = 0]
            /\ asked' = [asked EXCEPT ![c] = @ + 1]
            /\ cl' = [cl EXCEPT ![c] = "wait"]
            /\ UNCHANGED <<opening, got>>
        BY <1>7, <3>2 DEF SendEOS
      <4> QED
        BY <1>1, <2>2, <4>1 DEF ClientTypes
    <3> QED
      BY <3>1, <3>2
  <2> QED
    BY <2>1, <2>3, <2>4
<1>8. CASE Answer(c)
  <2>1. ServerTypes' /\ SignalTypes' /\ ChildTypes'
    BY <1>1, <1>8 DEF Answer, ServerTypes, SignalTypes, ChildTypes, server, child, signals
  <2>2. WireTypes'
    BY <1>1, <1>8, WireLemma DEF Answer, WireTypes
  <2>3. Head(down[c]) \in Nat
    BY <1>1, <1>8, WireLemma DEF Answer
  <2>4. Append(got[c], Head(down[c])) \in Seq(Nat)
    BY <1>1, <2>3, SeqLemma DEF ClientTypes
  <2>5. ClientTypes'
    BY <1>1, <1>8, <2>4 DEF Answer, ClientTypes
  <2> QED
    BY <2>1, <2>2, <2>5
<1>9. CASE NoAnswer(c)
  BY <1>1, <1>9 DEF NoAnswer, ServerTypes, SignalTypes, ClientTypes, ChildTypes, WireTypes,
     server, child, wires, signals
<1>10. CASE Bye(c)
  <2>1. ServerTypes' /\ SignalTypes' /\ ChildTypes' /\ ClientTypes'
    BY <1>1, <1>10 DEF Bye, ServerTypes, SignalTypes, ChildTypes, ClientTypes, server, child, signals
  <2>2. \A k \in {"B", "F", "QUIT"} : [kind |-> k, n |-> asked[c] + 1] \in Lines
    BY <1>1 DEF ClientTypes, Lines, LineKinds, Commands
  <2>3. up[c] \o <<[kind |-> "B", n |-> asked[c] + 1], [kind |-> "F", n |-> asked[c] + 1],
                   [kind |-> "QUIT", n |-> asked[c] + 1]>> \in Seq(Lines)
    BY <1>1, <2>2, WireLemma, SeqLemma
  <2>4. WireTypes'
    BY <1>1, <1>10, <2>3 DEF Bye, WireTypes
  <2> QED
    BY <2>1, <2>4
<1> QED
  BY <1>2, <1>3, <1>4, <1>5, <1>6, <1>7, <1>8, <1>9, <1>10 DEF Client

\* And the child's.
LEMMA ChildTypesKept ==
  ASSUME Types, NEW c \in Clients, Child(c) \/ TimeOut(c)
  PROVE  Types'
<1>1. ServerTypes /\ SignalTypes /\ ClientTypes /\ ChildTypes /\ WireTypes
  BY DEF Types
<1>0. SUFFICES ServerTypes' /\ SignalTypes' /\ ClientTypes' /\ ChildTypes' /\ WireTypes'
  BY DEF Types
<1>2. CASE Greet(c)
  <2>1. ServerTypes' /\ SignalTypes' /\ ClientTypes' /\ ChildTypes'
    BY <1>1, <1>2 DEF Greet, Go, ServerTypes, SignalTypes, ClientTypes, ChildTypes, server, client, signals
  <2>2. WireTypes'
    BY <1>1, <1>2, WireLemma DEF Greet, Say, WireTypes
  <2> QED
    BY <2>1, <2>2
<1>3. CASE Command(c)
  <2>1. ServerTypes' /\ SignalTypes' /\ ClientTypes' /\ ChildTypes'
    BY <1>1, <1>3 DEF Command, Go, Exit, Dead, ServerTypes, SignalTypes, ClientTypes, ChildTypes, server, client
  <2>2. WireTypes'
    <3>1. up' \in [Clients -> Seq(Lines)]
      BY <1>1, <1>3, WireLemma DEF Command
    <3>2. Say(c, <<200>>) \/ Say(c, <<500>>)
      BY <1>3 DEF Command
    <3>3. shut' = shut \/ shut' = shut \cup {c}
      BY <1>3 DEF Command, Exit
    <3>4. 200 \in Nat /\ 500 \in Nat
      OBVIOUS
    <3> QED
      BY ZenonT(40), <1>1, <3>1, <3>2, <3>3, <3>4, SayLemma DEF WireTypes
  <2> QED
    BY <2>1, <2>2
<1>4. CASE ReadLine(c)
  <2>1. ServerTypes' /\ SignalTypes' /\ ClientTypes'
    BY <1>1, <1>4 DEF ReadLine, ServerTypes, SignalTypes, ClientTypes, server, client, signals
  <2>2. Head(up[c]).n \in Nat
    BY <1>1, <1>4, WireLemma DEF ReadLine
  <2>3. ChildTypes'
    <3>1. now' \in [Clients -> Nat]
      BY <1>1, <1>4, <2>2 DEF ReadLine, ChildTypes
    <3>2. Mrph_num' \in [Clients -> 0 .. MRPH_MAX]
      BY <1>1, <1>4, LimitAssumption DEF ReadLine, Failed, ChildTypes
    <3>3. ch' \in [Clients -> {"none", "greet", "command", "read", "skip", "analyse"} \cup Dead]
      BY <1>1, <1>4 DEF ReadLine, Failed, Go, ChildTypes
    <3> QED
      BY <1>1, <1>4, <3>1, <3>2, <3>3 DEF ReadLine, ChildTypes
  <2>4. WireTypes'
    <3>1. up' \in [Clients -> Seq(Lines)]
      BY <1>1, <1>4, WireLemma DEF ReadLine
    <3>2. down' = down \/ Say(c, <<Head(up[c]).n, Head(up[c]).n>>)
      BY <1>4 DEF ReadLine, Failed
    <3> QED
      BY <1>1, <1>4, <2>2, <3>1, <3>2, SayLemma DEF ReadLine, WireTypes
  <2> QED
    BY <2>1, <2>3, <2>4
<1>5. CASE Skip(c)
  <2>1. ServerTypes' /\ SignalTypes' /\ ClientTypes'
    BY <1>1, <1>5 DEF Skip, ServerTypes, SignalTypes, ClientTypes, server, client, signals
  <2>2. Head(up[c]).n \in Nat
    BY <1>1, <1>5, WireLemma DEF Skip
  <2>3. ChildTypes'
    <3>1. now' \in [Clients -> Nat]
      BY <1>1, <1>5, <2>2 DEF Skip, ChildTypes
    <3>2. Mrph_num' \in [Clients -> 0 .. MRPH_MAX]
      <4>1. 0 \in 0 .. MRPH_MAX
        BY LimitAssumption
      <4>2. Mrph_num' = Mrph_num \/ Mrph_num' = [Mrph_num EXCEPT ![c] = 0]
        BY <1>5 DEF Skip, Failed
      <4> QED
        BY <1>1, <4>1, <4>2 DEF ChildTypes
    <3>3. ch' \in [Clients -> {"none", "greet", "command", "read", "skip", "analyse"} \cup Dead]
      BY <1>1, <1>5 DEF Skip, Failed, Go, ChildTypes
    <3> QED
      BY <1>1, <1>5, <3>1, <3>2, <3>3 DEF Skip, ChildTypes
  <2>4. WireTypes'
    <3>1. up' \in [Clients -> Seq(Lines)]
      BY <1>1, <1>5, WireLemma DEF Skip
    <3>2. down' = down \/ Say(c, <<Head(up[c]).n, Head(up[c]).n>>)
      BY <1>5 DEF Skip, Failed
    <3> QED
      BY <1>1, <1>5, <2>2, <3>1, <3>2, SayLemma DEF Skip, WireTypes
  <2> QED
    BY <2>1, <2>3, <2>4
<1>6. CASE Analyse(c)
  <2>1. ServerTypes' /\ SignalTypes' /\ ClientTypes'
    BY <1>1, <1>6 DEF Analyse, ServerTypes, SignalTypes, ClientTypes, server, client, signals
  <2>2. ChildTypes' /\ now[c] \in Nat
    BY <1>1, <1>6, LimitAssumption DEF Analyse, Go, ChildTypes
  <2>3. WireTypes'
    BY <1>1, <1>6, <2>2, WireLemma DEF Analyse, Say, WireTypes
  <2> QED
    BY <2>1, <2>2, <2>3
<1>7. CASE Leave(c)
  BY <1>1, <1>7 DEF Leave, Go, Exit, Dead, ServerTypes, SignalTypes, ClientTypes, ChildTypes, WireTypes,
     server, client
<1>8. CASE TimeOut(c)
  <2>1. ServerTypes' /\ SignalTypes' /\ ClientTypes'
    BY <1>1, <1>8 DEF TimeOut, Exit, ServerTypes, SignalTypes, ClientTypes, server, client
  <2>2. ChildTypes' /\ now[c] \in Nat
    BY <1>1, <1>8, LimitAssumption DEF TimeOut, Go, Exit, Dead, ChildTypes
  <2>3. WireTypes'
    <3>1. Say(c, <<now[c]>>) \/ Say(c, <<now[c], now[c]>>)
      BY <1>8 DEF TimeOut
    <3> QED
      BY <1>1, <1>8, <2>2, <3>1, SayLemma DEF TimeOut, Exit, WireTypes
  <2> QED
    BY <2>1, <2>2, <2>3
<1> QED
  BY <1>2, <1>3, <1>4, <1>5, <1>6, <1>7, <1>8 DEF Child

\* And the server's.
LEMMA ServerTypesKept ==
  ASSUME Types, Server \/ ForkError \/ Terminate \/ Rest
  PROVE  Types'
<1>1. ServerTypes /\ SignalTypes /\ ClientTypes /\ ChildTypes /\ WireTypes
  BY DEF Types
<1>0. SUFFICES ServerTypes' /\ SignalTypes' /\ ClientTypes' /\ ChildTypes' /\ WireTypes'
  BY DEF Types
<1>2. CASE Accept
  BY <1>1, <1>2 DEF Accept, ServerTypes, SignalTypes, ClientTypes, ChildTypes, WireTypes,
     signals, client, child, wires
<1>3. CASE Fork
  BY <1>1, <1>3 DEF Fork, ServerTypes, SignalTypes, ClientTypes, ChildTypes, WireTypes,
     signals, client, wires
<1>4. CASE CloseFd
  BY <1>1, <1>4 DEF CloseFd, ServerTypes, SignalTypes, ClientTypes, ChildTypes, WireTypes,
     signals, client, child, wires
<1>5. CASE Interrupt
  BY <1>1, <1>5 DEF Interrupt, ServerTypes, SignalTypes, ClientTypes, ChildTypes, WireTypes,
     server, client, child, wires
<1>6. CASE Reap
  BY <1>1, <1>6 DEF Reap, Zombies, Dead, ServerTypes, SignalTypes, ClientTypes, ChildTypes,
     WireTypes, server, client, wires
<1>7. CASE ForkError
  BY <1>1, <1>7 DEF ForkError, ServerTypes, SignalTypes, ClientTypes, ChildTypes, WireTypes,
     signals, client, child, wires
<1>8. CASE Terminate
  BY <1>1, <1>8 DEF Terminate, ServerTypes, SignalTypes, ClientTypes, ChildTypes, WireTypes,
     client, child
<1>9. CASE Rest
  BY <1>1, <1>9 DEF Rest, vars, ServerTypes, SignalTypes, ClientTypes, ChildTypes, WireTypes,
     server, signals, client, child, wires
<1> QED
  BY <1>2, <1>3, <1>4, <1>5, <1>6, <1>7, <1>8, <1>9 DEF Server

\* Every step keeps the types.
LEMMA TypesKept == Types /\ [Next]_vars => Types'
<1>1. ASSUME Types, Next PROVE Types'
  BY <1>1, ClientTypesKept, ChildTypesKept, ServerTypesKept DEF Next
<1>2. ASSUME Types, UNCHANGED vars PROVE Types'
  BY <1>2 DEF vars, Types, ServerTypes, SignalTypes, ClientTypes, ChildTypes, WireTypes,
     server, signals, client, child, wires
<1> QED
  BY <1>1, <1>2

\* The initial state has them.
LEMMA InitTypes == Init => Types
<1> SUFFICES ASSUME Init PROVE Types
  OBVIOUS
<1>1. setting.openings \subseteq [Clients -> Seq(Commands)]
      /\ setting.inputs \subseteq [Clients -> Seq(LineKinds)]
  BY SettingsAssumption DEF Init
<1>2. ServerTypes /\ SignalTypes /\ WireTypes
  <2>1. <<>> \in Seq(Lines) /\ <<>> \in Seq(Nat)
    OBVIOUS
  <2> QED
    BY <2>1 DEF Init, All, ServerTypes, SignalTypes, WireTypes
<1>3. ClientTypes /\ ChildTypes
  BY <1>1, LimitAssumption DEF Init, All, ClientTypes, ChildTypes
<1> QED
  BY <1>2, <1>3 DEF Types
-----------------------------------------------------------------------------
(* Signals and accepting                                                   *)

\* A child that is not exiting does not add a zombie.
LEMMA ZombiesGo ==
  ASSUME Types, NEW c \in Clients, NEW x, x # "zombie", Go(c, x)
  PROVE  Zombies' \subseteq Zombies
<1>1. ch \in [Clients -> {"none", "greet", "command", "read", "skip", "analyse"} \cup Dead]
  BY DEF Types, ChildTypes
<1> QED
  BY <1>1 DEF Go, Zombies

\* Whatever happens, an exited child is waited for by a signal or by the handler.
LEMMA NoZombieKept ==
  Types /\ NoZombieForgotten /\ [Next]_vars => NoZombieForgotten'
<1> SUFFICES ASSUME Types, NoZombieForgotten, [Next]_vars
             PROVE  NoZombieForgotten'
  OBVIOUS
<1>1. ASSUME NEW c \in Clients, Client(c) PROVE NoZombieForgotten'
  <2>1. UNCHANGED <<ch, sigchld, handling, par>>
    BY <1>1 DEF Client, Connect, ConnectError, Status, StatusError, SendLine, SendEOS,
       Answer, NoAnswer, Bye, server, signals, child
  <2> QED
    BY <2>1 DEF NoZombieForgotten, Zombies
<1>2. ASSUME NEW c \in Clients, Child(c) \/ TimeOut(c) PROVE NoZombieForgotten'
  <2>1. UNCHANGED <<par, handling>>
    BY <1>2 DEF Child, Greet, Command, ReadLine, Skip, Analyse, Leave, TimeOut, server, signals
  <2>2. \/ \E r \in BOOLEAN : Exit(c, r)
        \/ UNCHANGED <<ch, sigchld>>
        \/ UNCHANGED sigchld /\ \E x \in {"command", "read", "skip", "analyse"} : Go(c, x)
    <3>1. CASE Greet(c)
      BY <3>1 DEF Greet, signals
    <3>2. CASE Command(c)
      BY <3>2 DEF Command
    <3>3. CASE ReadLine(c)
      BY <3>3 DEF ReadLine, Failed, signals
    <3>4. CASE Skip(c)
      BY <3>4 DEF Skip, Failed, signals
    <3>5. CASE Analyse(c)
      BY <3>5 DEF Analyse, signals
    <3>6. CASE Leave(c)
      BY <3>6 DEF Leave
    <3>7. CASE TimeOut(c)
      BY <3>7 DEF TimeOut
    <3> QED
      BY <1>2, <3>1, <3>2, <3>3, <3>4, <3>5, <3>6, <3>7 DEF Child
  <2>3. CASE \E r \in BOOLEAN : Exit(c, r)
    BY <2>1, <2>3 DEF Exit, NoZombieForgotten
  <2>4. CASE UNCHANGED <<ch, sigchld>>
    BY <2>1, <2>4 DEF NoZombieForgotten, Zombies
  <2>5. CASE UNCHANGED sigchld /\ \E x \in {"command", "read", "skip", "analyse"} : Go(c, x)
    <3>1. Zombies' \subseteq Zombies
      BY <2>5, ZombiesGo
    <3> QED
      BY <2>1, <2>5, <3>1 DEF NoZombieForgotten
  <2> QED
    BY <2>2, <2>3, <2>4, <2>5
<1>3. CASE Accept \/ CloseFd \/ ForkError \/ Rest \/ UNCHANGED vars
  <2>1. UNCHANGED <<ch, sigchld, handling>> /\ (par' = "gone" <=> par = "gone")
    BY <1>3 DEF Accept, CloseFd, ForkError, Rest, vars, server, signals, child
  <2> QED
    BY <2>1 DEF NoZombieForgotten, Zombies
<1>4. CASE Fork
  <2>1. Zombies' \subseteq Zombies
    BY <1>4 DEF Fork, Zombies, Types, ChildTypes
  <2> QED
    BY <1>4, <2>1 DEF Fork, NoZombieForgotten, signals
<1>5. CASE Interrupt
  BY <1>5 DEF Interrupt, NoZombieForgotten
<1>6. CASE Reap
  BY <1>6 DEF Reap, NoZombieForgotten, Zombies
<1>7. CASE Terminate
  BY <1>7 DEF Terminate, NoZombieForgotten
<1> QED
  BY <1>1, <1>2, <1>3, <1>4, <1>5, <1>6, <1>7 DEF Next, Server

\* A connection is forked for once: it is in the backlog, or is the one being
\* handed over, only as long as it has no child.
LEMMA AcceptingKept ==
  Types /\ Accepting /\ (\A c \in Clients : cl[c] = "connect" => ch[c] = "none") /\ [Next]_vars
    => Accepting'
<1> SUFFICES ASSUME Types, Accepting, [Next]_vars,
                    \A c \in Clients : cl[c] = "connect" => ch[c] = "none"
             PROVE  Accepting'
  OBVIOUS
<1>0. /\ backlog \subseteq Clients
      /\ cl \in [Clients -> {"connect", "status", "loop", "wait", "done", "failed"}]
      /\ ch \in [Clients -> {"none", "greet", "command", "read", "skip", "analyse"} \cup Dead]
  BY DEF Types, ServerTypes, ClientTypes, ChildTypes
<1>1. ASSUME NEW c \in Clients, Client(c) PROVE Accepting'
  <2>1. CASE Connect(c)
    BY <1>0, <2>1 DEF Connect, child, Accepting
  <2>2. CASE ~ Connect(c)
    <3>1. UNCHANGED <<par, cur, backlog, ch>>
      BY <1>1, <2>2 DEF Client, ConnectError, Status, StatusError, SendLine, SendEOS,
         Answer, NoAnswer, Bye, server, child
    <3>2. \A d \in Clients : cl[d] # "connect" => cl'[d] # "connect"
      BY <1>0, <1>1, <2>2 DEF Client, ConnectError, Status, StatusError, SendLine, SendEOS,
         Answer, NoAnswer, Bye
    <3> QED
      BY <1>0, <3>1, <3>2 DEF Accepting
  <2> QED
    BY <2>1, <2>2
<1>2. ASSUME NEW c \in Clients, Child(c) \/ TimeOut(c) PROVE Accepting'
  <2>1. ch[c] # "none" /\ UNCHANGED <<par, cur, backlog, cl>>
    BY <1>2 DEF Child, Greet, Command, ReadLine, Skip, Analyse, Leave, TimeOut, server, client
  <2>2. \A d \in Clients : ch[d] = "none" => ch'[d] = "none"
    <3>1. \A d \in Clients \ {c} : ch'[d] = ch[d]
      BY <1>0, <1>2 DEF Child, Greet, Command, ReadLine, Skip, Analyse, Leave, TimeOut,
         Failed, Exit, Go
    <3> QED
      BY <2>1, <3>1
  <2> QED
    BY <1>0, <2>1, <2>2 DEF Accepting
<1>3. CASE Accept
  BY <1>0, <1>3 DEF Accept, Accepting, client, child
<1>4. CASE Fork
  BY <1>0, <1>4 DEF Fork, Accepting, client
<1>5. CASE ForkError \/ CloseFd
  BY <1>5 DEF ForkError, CloseFd, Accepting, client, child
<1>6. CASE Reap
  BY <1>0, <1>6 DEF Reap, Zombies, Accepting, client, server
<1>7. CASE Interrupt \/ Rest \/ UNCHANGED vars
  BY <1>7 DEF Interrupt, Rest, vars, Accepting, server, client, child
<1>8. CASE Terminate
  BY <1>8 DEF Terminate, Accepting, client, child
<1> QED
  BY <1>1, <1>2, <1>3, <1>4, <1>5, <1>6, <1>7, <1>8 DEF Next, Server
-----------------------------------------------------------------------------
(* Counting morphemes                                                      *)

\* The morphemes counted are finitely many.
LEMMA CountNat ==
  ASSUME NEW text, NEW k \in Nat
  PROVE  /\ IsFiniteSet({l \in Since(text, k) : text[l] = "m"})
         /\ Count(text, k) \in Nat
<1>1. {l \in Since(text, k) : text[l] = "m"} \subseteq 1 .. k
  BY DEF Since
<1>2. IsFiniteSet(1 .. k)
  BY FS_Interval
<1>3. IsFiniteSet({l \in Since(text, k) : text[l] = "m"})
  BY <1>1, <1>2, FS_Subset
<1> QED
  BY <1>3, FS_CardinalityType DEF Count

\* At the beginning and after EOS the count is 0.
LEMMA CountZero ==
  ASSUME NEW text, NEW k \in Nat, k = 0 \/ text[k] = "E"
  PROVE  Since(text, k) = {} /\ Count(text, k) = 0
<1>1. Since(text, k) = {}
  BY DEF Since
<1>2. {l \in Since(text, k) : text[l] = "m"} = {}
  BY <1>1
<1> QED
  BY <1>1, <1>2, FS_EmptySet DEF Count

\* A morpheme adds one, a comment nothing.
LEMMA CountNext ==
  ASSUME NEW text, NEW k \in Nat, text[k + 1] # "E"
  PROVE  Count(text, k + 1) = IF text[k + 1] = "m" THEN Count(text, k) + 1 ELSE Count(text, k)
<1>1. Since(text, k + 1) = Since(text, k) \cup {k + 1}
  <2>1. ASSUME NEW l \in Since(text, k + 1) PROVE l \in Since(text, k) \cup {k + 1}
    BY <2>1 DEF Since
  <2>2. ASSUME NEW l \in Since(text, k) PROVE l \in Since(text, k + 1)
    <3>1. l \in 1 .. k /\ \A n \in l .. k : text[n] # "E"
      BY <2>2 DEF Since
    <3>2. \A n \in l .. (k + 1) : n \in l .. k \/ n = k + 1
      BY <3>1
    <3> QED
      BY <3>1, <3>2 DEF Since
  <2>3. k + 1 \in Since(text, k + 1)
    BY DEF Since
  <2> QED
    BY <2>1, <2>2, <2>3
<1>2. k + 1 \notin Since(text, k)
  BY DEF Since
<1> DEFINE M == {l \in Since(text, k) : text[l] = "m"}
<1>3. IsFiniteSet(M) /\ Count(text, k) = Cardinality(M)
  BY CountNat DEF Count
<1>4. CASE text[k + 1] = "m"
  <2>1. {l \in Since(text, k + 1) : text[l] = "m"} = M \cup {k + 1}
    BY <1>1, <1>4
  <2>2. k + 1 \notin M
    BY <1>2
  <2> HIDE DEF M
  <2>3. Cardinality(M \cup {k + 1}) = Cardinality(M) + 1
    BY <1>3, <2>2, FS_AddElement
  <2> QED
    BY <1>3, <1>4, <2>1, <2>3 DEF Count
<1>5. CASE text[k + 1] # "m"
  <2>1. {l \in Since(text, k + 1) : text[l] = "m"} = M
    BY <1>1, <1>5
  <2> QED
    BY <1>3, <1>5, <2>1 DEF Count
<1> QED
  BY <1>4, <1>5

\* Within a sentence the count does not go down.
LEMMA CountGrows ==
  ASSUME NEW text, NEW j \in Nat, NEW k \in Nat, j <= k,
         \A n \in (j + 1) .. k : text[n] # "E"
  PROVE  Count(text, j) <= Count(text, k)
<1>1. Since(text, j) \subseteq Since(text, k)
  <2>1. ASSUME NEW l \in Since(text, j) PROVE l \in Since(text, k)
    <3>1. l \in 1 .. j /\ \A n \in l .. j : text[n] # "E"
      BY <2>1 DEF Since
    <3>2. \A n \in l .. k : n \in l .. j \/ n \in (j + 1) .. k
      BY <3>1
    <3> QED
      BY <3>1, <3>2 DEF Since
  <2> QED
    BY <2>1
<1>2. {l \in Since(text, j) : text[l] = "m"} \subseteq {l \in Since(text, k) : text[l] = "m"}
  BY <1>1
<1>3. IsFiniteSet({l \in Since(text, k) : text[l] = "m"})
  BY CountNat
<1> QED
  BY <1>2, <1>3, FS_Subset DEF Count

\* A sentence of a readable text that ends in EOS has a morpheme and not too many.
LEMMA CountAtEOS ==
  ASSUME NEW text \in Seq(LineKinds), Readable(text), NEW k \in 1 .. Len(text),
         k > 1, text[k] = "E", text[k - 1] # "E"
  PROVE  Count(text, k - 1) \in 1 .. MRPH_MAX
<1>1. k - 1 \in Since(text, k - 1)
  BY DEF Since
<1>2. k \in DOMAIN text
  OBVIOUS
<1>3. Since(text, k - 1) # {} =>
        Cardinality({l \in Since(text, k - 1) : text[l] = "m"}) \in 1 .. MRPH_MAX
  BY <1>2, Zenon DEF Readable, Since
<1> QED
  BY <1>1, <1>3 DEF Count

\* In a readable text there are morphemes, comments and EOS only.
LEMMA ReadableKinds ==
  ASSUME NEW text \in Seq(LineKinds), Readable(text), NEW k \in 1 .. Len(text)
  PROVE  text[k] \in {"c", "m", "E"}
<1>1. k \in DOMAIN text
  OBVIOUS
<1> QED
  BY <1>1, Zenon DEF Readable
-----------------------------------------------------------------------------
(* Lines on the wire                                                       *)

\* The client reads its next line.
LEMMA RemainingNext ==
  ASSUME NEW lines \in Seq(LineKinds), NEW text \in Seq(LineKinds), NEW k \in 0 .. Len(text),
         Remaining(lines, text, k), lines # <<>>
  PROVE  /\ k + 1 \in 1 .. Len(text)
         /\ Head(lines) = text[k + 1]
         /\ Remaining(Tail(lines), text, k + 1)
BY DEF Remaining

\* It sends it.
LEMMA WireSend ==
  ASSUME NEW lines \in Seq(Lines), NEW text \in Seq(LineKinds), NEW j \in Nat, NEW k \in Nat,
         NEW line \in Lines
  PROVE  /\ OnWire(lines, text, j, k) /\ line.kind = text[k + 1] =>
              OnWire(Append(lines, line), text, j, k + 1)
         /\ \A n \in Nat : Numbered(lines, n) /\ line.n = n => Numbered(Append(lines, line), n)
<1>1. /\ Len(Append(lines, line)) = Len(lines) + 1
      /\ \A i \in 1 .. Len(lines) : Append(lines, line)[i] = lines[i]
      /\ Append(lines, line)[Len(lines) + 1] = line
      /\ Len(lines) \in Nat
  OBVIOUS
<1>2. \A i \in 1 .. (Len(lines) + 1) : i \in 1 .. Len(lines) \/ i = Len(lines) + 1
  BY <1>1
<1>3. ASSUME OnWire(lines, text, j, k), line.kind = text[k + 1]
      PROVE  OnWire(Append(lines, line), text, j, k + 1)
  <2>1. Len(lines) = k - j /\ \A i \in 1 .. Len(lines) : lines[i].kind = text[j + i]
    BY <1>3 DEF OnWire
  <2>2. j + (Len(lines) + 1) = k + 1
    BY <2>1
  <2>3. ASSUME NEW i \in 1 .. (Len(lines) + 1)
        PROVE  Append(lines, line)[i].kind = text[j + i]
    <3>1. CASE i \in 1 .. Len(lines)
      BY <1>1, <2>1, <3>1, Zenon
    <3>2. CASE i = Len(lines) + 1
      BY <1>1, <1>3, <2>2, <3>2, Zenon
    <3> QED
      BY <1>2, <3>1, <3>2
  <2>4. Len(Append(lines, line)) = (k + 1) - j
    BY <1>1, <2>1
  <2> QED
    BY <1>1, <2>3, <2>4, Zenon DEF OnWire
<1>4. ASSUME NEW n \in Nat, Numbered(lines, n), line.n = n
      PROVE  Numbered(Append(lines, line), n)
  BY <1>1, <1>2, <1>4 DEF Numbered
<1> QED
  BY <1>3, <1>4

\* A line more of a sentence that has been begun.
LEMMA LinesSend ==
  ASSUME NEW lines \in Seq(Lines), NEW line \in Lines, NEW n \in Nat,
         LinesUpTo(lines, n), line.n \in 1 .. n
  PROVE  LinesUpTo(Append(lines, line), n)
<1>1. /\ Len(Append(lines, line)) = Len(lines) + 1
      /\ \A i \in 1 .. Len(lines) : Append(lines, line)[i] = lines[i]
      /\ Append(lines, line)[Len(lines) + 1] = line
      /\ Len(lines) \in Nat
  OBVIOUS
<1>2. \A i \in 1 .. (Len(lines) + 1) : i \in 1 .. Len(lines) \/ i = Len(lines) + 1
  BY <1>1
<1> QED
  BY <1>1, <1>2 DEF LinesUpTo

\* The child takes a line.
LEMMA WireTake ==
  ASSUME NEW lines \in Seq(Lines), lines # <<>>
  PROVE  /\ \A text \in Seq(LineKinds) : \A j, k \in Nat : OnWire(lines, text, j, k) =>
              /\ j < k /\ Head(lines).kind = text[j + 1]
              /\ OnWire(Tail(lines), text, j + 1, k)
         /\ \A n \in Nat : Numbered(lines, n) => Head(lines).n = n /\ Numbered(Tail(lines), n)
         /\ \A n \in Nat : LinesUpTo(lines, n) =>
              Head(lines).n \in 1 .. n /\ LinesUpTo(Tail(lines), n)
<1>1. /\ Len(lines) \in Nat /\ Len(lines) >= 1
      /\ Head(lines) = lines[1]
      /\ Len(Tail(lines)) = Len(lines) - 1
      /\ \A i \in 1 .. (Len(lines) - 1) : Tail(lines)[i] = lines[i + 1]
  OBVIOUS
<1>2. 1 \in 1 .. Len(lines) /\ \A i \in 1 .. (Len(lines) - 1) : i + 1 \in 1 .. Len(lines)
  BY <1>1
<1>3. ASSUME NEW text \in Seq(LineKinds), NEW j \in Nat, NEW k \in Nat, OnWire(lines, text, j, k)
      PROVE  /\ j < k /\ Head(lines).kind = text[j + 1]
             /\ OnWire(Tail(lines), text, j + 1, k)
  <2>1. Len(lines) = k - j /\ \A i \in 1 .. Len(lines) : lines[i].kind = text[j + i]
    BY <1>3 DEF OnWire
  <2>2. j < k /\ Head(lines).kind = text[j + 1]
    BY <1>1, <1>2, <2>1
  <2>3. ASSUME NEW i \in 1 .. (Len(lines) - 1)
        PROVE  Tail(lines)[i].kind = text[(j + 1) + i]
    <3>1. lines[i + 1].kind = text[j + (i + 1)]
      BY <1>2, <2>1
    <3>2. j + (i + 1) = (j + 1) + i
      OBVIOUS
    <3> QED
      BY <1>1, <3>1, <3>2
  <2> QED
    BY <1>1, <2>1, <2>2, <2>3 DEF OnWire
<1>4. ASSUME NEW n \in Nat, Numbered(lines, n)
      PROVE  Head(lines).n = n /\ Numbered(Tail(lines), n)
  BY <1>1, <1>2, <1>4 DEF Numbered
<1>5. ASSUME NEW n \in Nat, LinesUpTo(lines, n)
      PROVE  Head(lines).n \in 1 .. n /\ LinesUpTo(Tail(lines), n)
  BY <1>1, <1>2, <1>5 DEF LinesUpTo
<1> QED
  BY <1>3, <1>4, <1>5

\* An empty wire: the child has read what was sent.
LEMMA WireEmpty ==
  ASSUME NEW lines \in Seq(Lines), NEW text, NEW j \in Nat, NEW k \in Nat, OnWire(lines, text, j, k)
  PROVE  lines = <<>> <=> j = k
BY DEF OnWire

\* Answers come and are taken.
LEMMA AnswersLemma ==
  ASSUME NEW answers \in Seq(Nat), NEW n \in Nat, AnswersUpTo(answers, n)
  PROVE  /\ answers # <<>> => Head(answers) \in 1 .. n /\ AnswersUpTo(Tail(answers), n)
         /\ \A m \in 1 .. n : /\ AnswersUpTo(answers \o <<m>>, n)
                              /\ AnswersUpTo(answers \o <<m, m>>, n)
         /\ \A m \in Nat : n <= m => AnswersUpTo(answers, m)
<1>1. \A k \in 1 .. Len(answers) : answers[k] \in 1 .. n
  BY DEF AnswersUpTo
<1>2. answers # <<>> => Head(answers) \in 1 .. n /\ AnswersUpTo(Tail(answers), n)
  BY <1>1 DEF AnswersUpTo
<1>3. ASSUME NEW m \in 1 .. n
      PROVE  AnswersUpTo(answers \o <<m>>, n) /\ AnswersUpTo(answers \o <<m, m>>, n)
  BY <1>1 DEF AnswersUpTo
<1>4. ASSUME NEW m \in Nat, n <= m PROVE AnswersUpTo(answers, m)
  BY <1>1, <1>4 DEF AnswersUpTo
<1> QED
  BY <1>2, <1>3, <1>4

\* More sentences, no fewer lines that belong to them.
LEMMA LinesMore ==
  ASSUME NEW lines \in Seq(Lines), NEW n \in Nat, NEW m \in Nat, n <= m, LinesUpTo(lines, n)
  PROVE  LinesUpTo(lines, m)
BY DEF LinesUpTo
-----------------------------------------------------------------------------
(* Each client                                                             *)

\* Lengths and elements of a queue.
LEMMA QueueLemma ==
  ASSUME NEW S, NEW s \in Seq(S)
  PROVE  /\ Len(s) \in Nat
         /\ s = <<>> <=> Len(s) = 0
         /\ s # <<>> => /\ Len(s) >= 1
                        /\ Head(s) = s[1] /\ s[1] \in S
                        /\ Tail(s) \in Seq(S)
                        /\ Len(Tail(s)) = Len(s) - 1
                        /\ \A k \in 1 .. (Len(s) - 1) : Tail(s)[k] = s[k + 1]
                        /\ Len(s) = 1 <=> Tail(s) = <<>>
         /\ \A k \in 1 .. Len(s) : s[k] \in S
<1>1. Len(s) \in Nat /\ (s = <<>> <=> Len(s) = 0) /\ \A k \in 1 .. Len(s) : s[k] \in S
  OBVIOUS
<1>2. ASSUME s # <<>>
      PROVE  /\ Len(s) >= 1
             /\ Head(s) = s[1] /\ s[1] \in S
             /\ Tail(s) \in Seq(S)
             /\ Len(Tail(s)) = Len(s) - 1
             /\ \A k \in 1 .. (Len(s) - 1) : Tail(s)[k] = s[k + 1]
  BY <1>2
<1>3. ASSUME s # <<>> PROVE Len(s) = 1 <=> Tail(s) = <<>>
  <2>1. ASSUME NEW t \in Seq(S) PROVE t = <<>> <=> Len(t) = 0
    OBVIOUS
  <2>2. Tail(s) = <<>> <=> Len(Tail(s)) = 0
    BY <1>2, <1>3, <2>1, Zenon
  <2>3. Len(Tail(s)) = 0 <=> Len(s) = 1
    BY <1>1, <1>2, <1>3
  <2> QED
    BY <2>2, <2>3
<1> QED
  BY <1>1, <1>2, <1>3

\* A line more at the end of a queue.
LEMMA AppendLemma ==
  ASSUME NEW S, NEW s \in Seq(S), NEW x \in S
  PROVE  /\ Append(s, x) \in Seq(S)
         /\ Len(Append(s, x)) = Len(s) + 1
         /\ \A k \in 1 .. Len(s) : Append(s, x)[k] = s[k]
         /\ Append(s, x)[Len(s) + 1] = x
OBVIOUS

\* Nothing of d changes.
Same(d) ==
  /\ setting' = setting
  /\ cl'[d] = cl[d] /\ opening'[d] = opening[d] /\ input'[d] = input[d]
  /\ strnum'[d] = strnum[d] /\ asked'[d] = asked[d]
  /\ ch'[d] = ch[d] /\ Mrph_num'[d] = Mrph_num[d] /\ now'[d] = now[d]
  /\ up'[d] = up[d] /\ down'[d] = down[d]
  /\ Orderly /\ d \in shut' => d \in shut

\* Whether all is in order depends on the setting alone.
LEMMA OrderlySame ==
  ASSUME setting' = setting
  PROVE  /\ Orderly' <=> Orderly
         /\ \A c : Texts(c)' = Texts(c)
BY DEF Orderly, Texts

\* What nobody touches stays as it is.
LEMMA Others ==
  ASSUME NEW d \in Clients, Each(d), Same(d)
  PROVE  Each(d)'
<1>0. (Orderly' <=> Orderly) /\ Texts(d)' = Texts(d)
  BY OrderlySame DEF Same
<1>1. Dialogue(d)' <=> Dialogue(d)
  BY DEF Same, Dialogue
<1>2. Talking(d)' <=> Talking(d)
  BY DEF Same, Talking, Begun
<1>3. \A text, k, j : InStep(d, text, k, j)' <=> InStep(d, text, k, j)
  BY DEF Same, InStep
<1>4. Reading(d)' <=> Reading(d)
  BY <1>0, <1>3 DEF Reading
<1>5. Orderly /\ Undisturbed(d) => Undisturbed(d)'
  BY <1>0, <1>4 DEF Same, Undisturbed
<1> QED
  BY <1>0, <1>1, <1>2, <1>5 DEF Each, Same

\* If all is in order the texts can be read and the commands are as they should be.
LEMMA OrderlyTexts ==
  ASSUME Types, NEW c \in Clients
  PROVE  /\ Texts(c) \subseteq Seq(LineKinds)
         /\ Orderly => \A text \in Texts(c) : Readable(text)
<1>1. setting.inputs \subseteq [Clients -> Seq(LineKinds)]
  BY SettingsAssumption DEF Types, ServerTypes
<1> QED
  BY <1>1 DEF Texts, Orderly

\* One command less to send.
LEMMA EndsTail ==
  ASSUME NEW s \in Seq(Commands), s # <<>>, Ends(s)
  PROVE  /\ Ends(Tail(s))
         /\ Head(s) \in {"RUN", "QUIT"} <=> Tail(s) = <<>>
         /\ (\A k \in 1 .. Len(s) : s[k] # "QUIT") =>
              Head(s) # "QUIT" /\ \A k \in 1 .. Len(Tail(s)) : Tail(s)[k] # "QUIT"
<1>1. /\ Len(s) \in Nat /\ Len(s) >= 1
      /\ Head(s) = s[1]
      /\ Len(Tail(s)) = Len(s) - 1
      /\ \A k \in 1 .. (Len(s) - 1) : Tail(s)[k] = s[k + 1]
      /\ Len(s) = 1 <=> Tail(s) = <<>>
  BY QueueLemma, Zenon
<1> DEFINE n == Len(s)
<1>2. Len(Tail(s)) = n - 1 /\ n \in Nat /\ n >= 1 /\ 1 \in 1 .. n
      /\ \A k \in 1 .. (n - 1) : Tail(s)[k] = s[k + 1]
  BY <1>1
<1>3. \A k \in 1 .. n : s[k] \in {"RUN", "QUIT"} <=> k = n
  BY DEF Ends
<1>4. n = 1 <=> Tail(s) = <<>>
  BY <1>1
<1>5. (\A k \in 1 .. Len(s) : s[k] # "QUIT") <=> (\A k \in 1 .. n : s[k] # "QUIT")
  OBVIOUS
<1> HIDE DEF n
<1>6. Ends(Tail(s))
  BY <1>2, <1>3 DEF Ends
<1>7. Head(s) \in {"RUN", "QUIT"} <=> Tail(s) = <<>>
  BY <1>1, <1>2, <1>3, <1>4
<1>8. (\A k \in 1 .. n : s[k] # "QUIT") =>
        Head(s) # "QUIT" /\ \A k \in 1 .. (n - 1) : Tail(s)[k] # "QUIT"
  BY <1>1, <1>2
<1> QED
  BY <1>2, <1>5, <1>6, <1>7, <1>8

\* The functions a step may change, before and after it.
Queues ==
  /\ up \in [Clients -> Seq(Lines)] /\ down \in [Clients -> Seq(Nat)]
  /\ opening \in [Clients -> Seq(Commands)] /\ input \in [Clients -> Seq(LineKinds)]
  /\ asked \in [Clients -> Nat] /\ strnum \in [Clients -> Nat]

\* A client that takes a status line.
LEMMA StatusEach ==
  ASSUME Types, Types', NEW c \in Clients, Each(c), Status(c)
  PROVE  Each(c)'
<1>0. Queues /\ Queues'
  BY DEF Types, WireTypes, ClientTypes, Queues
<1>1. /\ cl[c] = "status" /\ down[c] # <<>>
      /\ setting' = setting /\ ch' = ch /\ Mrph_num' = Mrph_num /\ now' = now
      /\ input' = input /\ strnum' = strnum /\ asked' = asked
  BY DEF Status, server, child
<1>2. Dialogue(c)
  BY <1>1 DEF Each
<1>4. /\ up[c] = <<>> /\ Tail(down[c]) = <<>>
      /\ ch[c] \notin {"none", "greet", "skip", "analyse"}
  <2>1. Len(up[c]) + Len(down[c]) <= 1
    BY <1>2 DEF Dialogue
  <2>2. up[c] = <<>> /\ Len(down[c]) >= 1 /\ Len(down[c]) <= 1
    BY <1>0, <1>1, <2>1 DEF Queues
  <2>3. Tail(down[c]) = <<>>
    BY <1>0, <1>1, <2>2 DEF Queues
  <2> QED
    BY <1>1, <1>2, <2>2, <2>3 DEF Dialogue
<1>5. down'[c] = <<>>
  BY <1>0, <1>4 DEF Status, Queues
<1>6. ch[c] \in {"command", "read"} \cup Dead
  BY <1>4 DEF Types, ChildTypes
<1>7. (Orderly' <=> Orderly) /\ Texts(c)' = Texts(c)
  BY <1>1, OrderlySame
<1>8. CASE Head(down[c]) # 200
  <2>1. cl'[c] = "failed"
    BY <1>8 DEF Status, Types, ClientTypes
  <2> QED
    BY <2>1 DEF Each
<1>9. CASE Head(down[c]) = 200 /\ opening[c] = <<>>
  <2>1. cl'[c] = "loop" /\ up'[c] = <<>> /\ shut' = shut
    BY <1>4, <1>9 DEF Status, Types, ClientTypes
  <2>2. ch[c] \in {"read"} \cup Dead
    BY <1>2, <1>4, <1>6, <1>9 DEF Dialogue
  <2>3. Talking(c)'
    <3>1. LinesUpTo(<<>>, Begun(c)') /\ AnswersUpTo(<<>>, Begun(c)')
      BY DEF LinesUpTo, AnswersUpTo
    <3> QED
      BY <1>1, <1>5, <2>1, <2>2, <3>1 DEF Talking, Dead
  <2>4. ASSUME Orderly PROVE Undisturbed(c)'
    <3>1. Undisturbed(c)
      BY <1>1, <2>4 DEF Each
    <3>2. input[c] \in Texts(c) /\ Readable(input[c]) /\ input[c] \in Seq(LineKinds)
      BY <1>1, <2>4, <3>1, OrderlyTexts DEF Undisturbed
    <3>3. /\ ch[c] = "read" /\ strnum[c] = 0 /\ Mrph_num[c] = 0 /\ c \notin shut
      BY <1>1, <2>2, <3>1 DEF Undisturbed
    <3>4. Count(input[c], 0) = 0
      BY CountZero
    <3>5. InStep(c, input[c], 0, 0)'
      <4>1. /\ Remaining(input[c], input[c], 0) /\ OnWire(<<>>, input[c], 0, 0)
            /\ Numbered(<<>>, asked[c] + 1) /\ NoEOS(input[c], 0, 0)
            /\ 0 \in 0 .. Len(input[c]) /\ 0 \in 0 .. 0
        BY <1>0 DEF Queues, Remaining, OnWire, Numbered, NoEOS
      <4> QED
        BY <1>1, <1>5, <2>1, <3>2, <3>3, <3>4, <4>1 DEF InStep
    <3>6. Reading(c)'
      <4>1. Len(input[c]) \in Nat /\ 0 \in 0 .. Len(input[c])
        BY <1>0 DEF Queues
      <4> QED
        BY <1>1, <1>7, <3>2, <3>5, <4>1, Zenon DEF Reading
    <3> QED
      BY <1>1, <2>1, <3>3, <3>6 DEF Undisturbed, Dead
  <2> QED
    BY <1>7, <2>1, <2>3, <2>4 DEF Each
<1>10. CASE Head(down[c]) = 200 /\ opening[c] # <<>>
  <2>1. /\ cl'[c] = "status" /\ shut' = shut
        /\ up'[c] = <<[kind |-> Head(opening[c]), n |-> 0]>>
        /\ opening'[c] = Tail(opening[c])
    <3>1. /\ up' = [up EXCEPT ![c] = Append(@, [kind |-> Head(opening[c]), n |-> 0])]
          /\ opening' = [opening EXCEPT ![c] = Tail(@)]
          /\ UNCHANGED <<cl, shut>>
      BY <1>10 DEF Status
    <3>2. up'[c] = Append(up[c], [kind |-> Head(opening[c]), n |-> 0])
      BY <1>0, <3>1, Zenon DEF Queues
    <3>3. up'[c] = <<[kind |-> Head(opening[c]), n |-> 0]>>
      BY <1>4, <3>2
    <3>4. opening'[c] = Tail(opening[c])
      BY <1>0, <3>1, Zenon DEF Queues
    <3> QED
      BY <1>1, <3>1, <3>3, <3>4
  <2>2. ch[c] \in {"command"} \cup Dead
    BY <1>2, <1>6, <1>10 DEF Dialogue
  <2>3. opening[c] \in Seq(Commands) /\ Ends(opening[c])
    BY <1>0, <1>2 DEF Queues, Dialogue
  <2>5. /\ Ends(opening'[c])
        /\ Head(opening[c]) \in {"RUN", "QUIT"} <=> opening'[c] = <<>>
        /\ (\A k \in 1 .. Len(opening[c]) : opening[c][k] # "QUIT") =>
             /\ Head(opening[c]) # "QUIT"
             /\ \A k \in 1 .. Len(opening'[c]) : opening'[c][k] # "QUIT"
    <3>1. /\ Ends(Tail(opening[c]))
          /\ Head(opening[c]) \in {"RUN", "QUIT"} <=> Tail(opening[c]) = <<>>
          /\ (\A k \in 1 .. Len(opening[c]) : opening[c][k] # "QUIT") =>
               /\ Head(opening[c]) # "QUIT"
               /\ \A k \in 1 .. Len(Tail(opening[c])) : Tail(opening[c])[k] # "QUIT"
      BY <1>10, <2>3, EndsTail, ZenonT(120)
    <3>2. opening'[c] = Tail(opening[c])
      BY <2>1
    <3> QED
      BY <3>1, <3>2, Zenon
  <2>6. Dialogue(c)'
    BY <1>1, <1>5, <2>1, <2>2, <2>5 DEF Dialogue, Dead
  <2>7. ASSUME Orderly PROVE Undisturbed(c)'
    <3>1. Undisturbed(c)
      BY <1>1, <2>7 DEF Each
    <3> QED
      BY <1>1, <1>7, <2>1, <2>5, <3>1 DEF Undisturbed
  <2> QED
    BY <1>7, <2>1, <2>6, <2>7 DEF Each
<1> QED
  BY <1>8, <1>9, <1>10

\* Where a client that talks is in its text, if all is in order.
LEMMA ReadingText ==
  ASSUME Types, NEW c \in Clients, Each(c), Orderly, cl[c] \in {"loop", "wait"}
  PROVE  /\ c \notin shut /\ ch[c] \notin Dead /\ ~ (par # "gone" /\ Closed(c))
         /\ \E text \in Texts(c) : /\ text \in Seq(LineKinds) /\ Readable(text)
                                   /\ \E k, j \in 0 .. Len(text) : InStep(c, text, k, j)
<1>1. Undisturbed(c) /\ Talking(c)
  BY DEF Each
<1>2. Reading(c) /\ c \notin shut /\ ch[c] \notin Dead
  BY <1>1 DEF Undisturbed
<1>3. ~ (par # "gone" /\ Closed(c))
  BY <1>2 DEF Closed
<1>4. PICK text \in Texts(c) : \E k, j \in 0 .. Len(text) : InStep(c, text, k, j)
  BY <1>2 DEF Reading
<1>5. text \in Seq(LineKinds) /\ Readable(text)
  BY <1>4, OrderlyTexts
<1> QED
  BY <1>2, <1>3, <1>4, <1>5

\* What is to be shown about a client that still talks after a step.
LEMMA StillTalking ==
  ASSUME NEW c \in Clients, setting' = setting, cl'[c] \in {"loop", "wait"}, Talking(c)',
         Orderly => /\ c \notin shut' /\ ch'[c] \notin Dead
                    /\ \E text \in Texts(c) : \E k, j \in 0 .. Len(text) : InStep(c, text, k, j)'
  PROVE  Each(c)'
<1>1. (Orderly' <=> Orderly) /\ Texts(c)' = Texts(c)
  BY OrderlySame
<1>2. Orderly => Reading(c)'
  BY <1>1 DEF Reading
<1>3. Orderly => Undisturbed(c)'
  BY <1>2 DEF Undisturbed
<1> QED
  BY <1>1, <1>3 DEF Each

\* A client that sends a line.
LEMMA SendLineEach ==
  ASSUME Types, Types', NEW c \in Clients, Each(c), SendLine(c), Orderly => par # "gone"
  PROVE  Each(c)'
<1>0. Queues /\ Queues'
  BY DEF Types, WireTypes, ClientTypes, Queues
<1> DEFINE line == [kind |-> Head(input[c]), n |-> asked[c] + 1]
<1>1. /\ cl[c] = "loop" /\ input[c] # <<>> /\ Head(input[c]) # "E"
      /\ setting' = setting /\ ch' = ch /\ Mrph_num' = Mrph_num /\ now' = now
      /\ cl' = cl /\ asked' = asked /\ down' = down /\ shut' = shut
      /\ strnum'[c] = strnum[c] + 1
      /\ input'[c] = Tail(input[c])
      /\ up'[c] = IF Closed(c) THEN up[c] ELSE Append(up[c], line)
  BY <1>0 DEF SendLine, Send, server, child, Queues
<1>2. /\ input[c] \in Seq(LineKinds) /\ up[c] \in Seq(Lines) /\ down[c] \in Seq(Nat)
      /\ asked[c] \in Nat /\ strnum[c] \in Nat
  BY <1>0 DEF Queues
<1>3. line \in Lines /\ line.n = asked[c] + 1 /\ line.kind = Head(input[c])
  BY <1>1, <1>2, SeqLemma DEF Lines
<1>4. Talking(c)
  BY <1>1 DEF Each
<1>5. Begun(c) \in Nat /\ asked[c] <= Begun(c) /\ Begun(c) <= asked[c] + 1 /\ Begun(c)' = asked[c] + 1
  BY <1>1, <1>2 DEF Begun
<1>6. Talking(c)'
  <2>1. LinesUpTo(up[c], asked[c] + 1) /\ AnswersUpTo(down[c], asked[c] + 1)
    BY <1>2, <1>4, <1>5, LinesMore, AnswersLemma DEF Talking
  <2>2. LinesUpTo(Append(up[c], line), asked[c] + 1)
    <3>1. asked[c] + 1 \in Nat /\ line.n \in 1 .. (asked[c] + 1)
      BY <1>2, <1>3
    <3> HIDE DEF line
    <3> QED
      BY <1>2, <1>3, <2>1, <3>1, LinesSend
  <2>3. LinesUpTo(up'[c], asked[c] + 1)
    BY <1>1, <2>1, <2>2
  <2>4. ch[c] = "analyse" => now[c] \in 1 .. (asked[c] + 1)
    BY <1>2, <1>4, <1>5 DEF Talking
  <2> QED
    BY <1>1, <1>4, <1>5, <2>1, <2>3, <2>4 DEF Talking
<1>7. ASSUME Orderly
      PROVE  \E text \in Texts(c) : \E k, j \in 0 .. Len(text) : InStep(c, text, k, j)'
  <2>1. PICK text \in Texts(c) : /\ text \in Seq(LineKinds) /\ Readable(text)
                                 /\ \E k, j \in 0 .. Len(text) : InStep(c, text, k, j)
    BY <1>1, <1>7, ReadingText
  <2>2. PICK k \in 0 .. Len(text), j \in 0 .. Len(text) : InStep(c, text, k, j)
    BY <2>1
  <2>3. /\ j \in 0 .. k /\ Remaining(input[c], text, k) /\ OnWire(up[c], text, j, k)
        /\ down[c] = <<>> /\ ch[c] \in {"read", "skip"}
        /\ Numbered(up[c], asked[c] + 1) /\ NoEOS(text, j, k)
        /\ ch[c] = "read" => Mrph_num[c] = Count(text, j)
        /\ ch[c] = "skip" => Count(text, j) > MRPH_MAX
    BY <1>1, <2>2 DEF InStep
  <2>4. /\ k + 1 \in 1 .. Len(text) /\ Head(input[c]) = text[k + 1]
        /\ Remaining(input'[c], text, k + 1)
    BY <1>1, <1>2, <2>1, <2>3, RemainingNext
  <2>5. up'[c] = Append(up[c], line)
    BY <1>1, <1>7, ReadingText
  <2>6. OnWire(up'[c], text, j, k + 1) /\ Numbered(up'[c], asked[c] + 1)
    <3>1. asked[c] + 1 \in Nat /\ j \in Nat /\ k \in Nat /\ line.kind = text[k + 1]
      BY <1>2, <1>3, <2>2, <2>4
    <3> HIDE DEF line
    <3>2. OnWire(Append(up[c], line), text, j, k + 1)
      BY <1>2, <1>3, <2>1, <2>3, <3>1, WireSend
    <3>3. Numbered(Append(up[c], line), asked[c] + 1)
      BY <1>2, <1>3, <2>1, <2>3, <3>1, WireSend
    <3> QED
      BY <2>5, <3>2, <3>3
  <2>7. NoEOS(text, j, k + 1)
    BY <1>1, <2>3, <2>4 DEF NoEOS
  <2>8. strnum'[c] # 0 /\ text[k + 1] # "E" /\ k + 1 # 0 /\ k + 1 \in 0 .. Len(text) /\ j \in 0 .. (k + 1)
    BY <1>1, <1>2, <2>2, <2>3, <2>4
  <2>9. InStep(c, text, k + 1, j)'
    BY <1>1, <2>1, <2>3, <2>4, <2>6, <2>7, <2>8 DEF InStep
  <2> QED
    BY <2>2, <2>8, <2>9
<1> QED
  BY <1>1, <1>6, <1>7, ReadingText, StillTalking

\* An EOS that follows nothing is not sent.
LEMMA SkipEOSEach ==
  ASSUME Types, Types', NEW c \in Clients, Each(c), SendEOS(c), strnum[c] = 0
  PROVE  Each(c)'
<1>0. Queues /\ Queues'
  BY DEF Types, WireTypes, ClientTypes, Queues
<1>1. /\ cl[c] = "loop" /\ input[c] # <<>> /\ Head(input[c]) = "E"
      /\ setting' = setting /\ ch' = ch /\ Mrph_num' = Mrph_num /\ now' = now
      /\ cl' = cl /\ asked' = asked /\ down' = down /\ shut' = shut
      /\ strnum' = strnum /\ up' = up
      /\ input'[c] = Tail(input[c])
  BY <1>0 DEF SendEOS, server, child, Queues
<1>2. input[c] \in Seq(LineKinds) /\ up[c] \in Seq(Lines)
  BY <1>0 DEF Queues
<1>3. Talking(c)
  BY <1>1 DEF Each
<1>4. Talking(c)'
  BY <1>1, <1>3 DEF Talking, Begun
<1>5. ASSUME Orderly
      PROVE  \E text \in Texts(c) : \E k, j \in 0 .. Len(text) : InStep(c, text, k, j)'
  <2>1. PICK text \in Texts(c) : /\ text \in Seq(LineKinds) /\ Readable(text)
                                 /\ \E k, j \in 0 .. Len(text) : InStep(c, text, k, j)
    BY <1>1, <1>5, ReadingText
  <2>2. PICK k \in 0 .. Len(text), j \in 0 .. Len(text) : InStep(c, text, k, j)
    BY <2>1
  <2>3. /\ j \in 0 .. k /\ Remaining(input[c], text, k) /\ OnWire(up[c], text, j, k)
        /\ strnum[c] = 0 <=> k = 0 \/ text[k] = "E"
        /\ down[c] = <<>> /\ ch[c] \in {"read", "skip"}
        /\ NoEOS(text, j, k)
        /\ ch[c] = "read" => Mrph_num[c] = Count(text, j)
        /\ ch[c] = "skip" => Count(text, j) > MRPH_MAX
    BY <1>1, <2>2 DEF InStep
  <2>4. /\ k + 1 \in 1 .. Len(text) /\ Head(input[c]) = text[k + 1]
        /\ Remaining(input'[c], text, k + 1)
    BY <1>1, <1>2, <2>1, <2>3, RemainingNext
  <2>5. j = k /\ k \in Nat /\ (k = 0 \/ text[k] = "E")
    BY <2>2, <2>3 DEF NoEOS
  <2>6. up[c] = <<>>
    BY <1>2, <2>3, <2>5, WireEmpty
  <2>7. Count(text, k) = 0 /\ Count(text, k + 1) = 0
    BY <1>1, <2>4, <2>5, CountZero
  <2>8. ch[c] = "read" /\ Mrph_num[c] = 0
    BY <2>3, <2>5, <2>7, LimitAssumption
  <2>9. /\ OnWire(<<>>, text, k + 1, k + 1) /\ Numbered(<<>>, asked[c] + 1) /\ NoEOS(text, k + 1, k + 1)
        /\ k + 1 \in 0 .. Len(text) /\ k + 1 \in 0 .. (k + 1) /\ k + 1 # 0
    BY <2>4, <2>5 DEF OnWire, Numbered, NoEOS
  <2>10. InStep(c, text, k + 1, k + 1)'
    BY <1>1, <2>1, <2>3, <2>4, <2>6, <2>7, <2>8, <2>9 DEF InStep
  <2> QED
    BY <2>9, <2>10
<1> QED
  BY <1>1, <1>4, <1>5, ReadingText, StillTalking

\* One that ends a sentence is.
LEMMA SendEOSEach ==
  ASSUME Types, Types', NEW c \in Clients, Each(c), SendEOS(c), strnum[c] # 0,
         Orderly => par # "gone"
  PROVE  Each(c)'
<1>0. Queues /\ Queues'
  BY DEF Types, WireTypes, ClientTypes, Queues
<1> DEFINE line == [kind |-> "E", n |-> asked[c] + 1]
<1>1. /\ cl[c] = "loop" /\ input[c] # <<>> /\ Head(input[c]) = "E"
      /\ setting' = setting /\ ch' = ch /\ Mrph_num' = Mrph_num /\ now' = now
      /\ down' = down /\ shut' = shut
      /\ cl'[c] = "wait" /\ asked'[c] = asked[c] + 1 /\ strnum'[c] = 0
      /\ input'[c] = Tail(input[c])
      /\ up'[c] = IF Closed(c) THEN up[c] ELSE Append(up[c], line)
  <2>1. cl'[c] = "wait"
    BY DEF SendEOS, Types, ClientTypes
  <2> QED
    BY <1>0, <2>1 DEF SendEOS, Send, server, child, Queues
<1>2. /\ input[c] \in Seq(LineKinds) /\ up[c] \in Seq(Lines) /\ down[c] \in Seq(Nat)
      /\ asked[c] \in Nat /\ strnum[c] \in Nat /\ strnum[c] > 0
  BY <1>0 DEF Queues
<1>3. line \in Lines /\ line.n = asked[c] + 1 /\ line.kind = "E" /\ asked[c] + 1 \in Nat
      /\ line.n \in 1 .. (asked[c] + 1)
  BY <1>2 DEF Lines, LineKinds
<1> HIDE DEF line
<1>4. Talking(c)
  BY <1>1 DEF Each
<1>5. Begun(c) = asked[c] + 1 /\ Begun(c)' = asked[c] + 1
  BY <1>1, <1>2, <1>3 DEF Begun
<1>6. Talking(c)'
  <2>1. LinesUpTo(up[c], asked[c] + 1) /\ AnswersUpTo(down[c], asked[c] + 1)
    BY <1>4, <1>5 DEF Talking
  <2>2. LinesUpTo(Append(up[c], line), asked[c] + 1)
    BY <1>2, <1>3, <2>1, LinesSend
  <2>3. LinesUpTo(up'[c], asked[c] + 1)
    BY <1>1, <2>1, <2>2
  <2> QED
    BY <1>1, <1>4, <1>5, <2>1, <2>3 DEF Talking
<1>7. ASSUME Orderly
      PROVE  \E text \in Texts(c) : \E k, j \in 0 .. Len(text) : InStep(c, text, k, j)'
  <2>1. PICK text \in Texts(c) : /\ text \in Seq(LineKinds) /\ Readable(text)
                                 /\ \E k, j \in 0 .. Len(text) : InStep(c, text, k, j)
    BY <1>1, <1>7, ReadingText
  <2>2. PICK k \in 0 .. Len(text), j \in 0 .. Len(text) : InStep(c, text, k, j)
    BY <2>1
  <2>3. /\ j \in 0 .. k /\ Remaining(input[c], text, k) /\ OnWire(up[c], text, j, k)
        /\ strnum[c] = 0 <=> k = 0 \/ text[k] = "E"
        /\ down[c] = <<>> /\ ch[c] \in {"read", "skip"}
        /\ Numbered(up[c], asked[c] + 1) /\ NoEOS(text, j, k)
        /\ ch[c] = "read" => Mrph_num[c] = Count(text, j)
        /\ ch[c] = "skip" => Count(text, j) > MRPH_MAX
    BY <1>1, <2>2 DEF InStep
  <2>4. /\ k + 1 \in 1 .. Len(text) /\ Head(input[c]) = text[k + 1]
        /\ Remaining(input'[c], text, k + 1)
    BY <1>1, <1>2, <2>1, <2>3, RemainingNext
  <2>5. /\ j \in Nat /\ k \in Nat /\ j <= k /\ k > 0 /\ text[k] # "E" /\ text[k + 1] = "E"
        /\ line.kind = text[k + 1] /\ k + 1 \in 0 .. Len(text) /\ j \in 0 .. (k + 1)
        /\ k + 1 > 1 /\ (k + 1) - 1 = k /\ j < k + 1 /\ k + 1 # 0
    BY <1>1, <1>2, <1>3, <2>2, <2>3, <2>4
  <2>6. up'[c] = Append(up[c], line)
    BY <1>1, <1>7, ReadingText
  <2>7. OnWire(Append(up[c], line), text, j, k + 1)
    BY <1>2, <1>3, <2>1, <2>3, <2>5, WireSend
  <2>8. Numbered(Append(up[c], line), asked[c] + 1)
    BY <1>2, <1>3, <2>1, <2>3, <2>5, WireSend
  <2>9. ch[c] = "read"
    <3>1. Count(text, k) \in 1 .. MRPH_MAX
      BY <2>1, <2>4, <2>5, CountAtEOS
    <3>2. Count(text, j) <= Count(text, k) /\ Count(text, j) \in Nat
      BY <2>3, <2>5, CountGrows, CountNat DEF NoEOS
    <3> QED
      BY <2>3, <3>1, <3>2, LimitAssumption
  <2>10. InStep(c, text, k + 1, j)'
    BY <1>1, <2>1, <2>3, <2>4, <2>5, <2>6, <2>7, <2>8, <2>9 DEF InStep
  <2> QED
    BY <2>2, <2>5, <2>10
<1> QED
  BY <1>1, <1>6, <1>7, ReadingText, StillTalking

\* An answer is taken; or there is none, and then not all is in order.
LEMMA AnswerEach ==
  ASSUME Types, Types', NEW c \in Clients, Each(c), Answer(c) \/ NoAnswer(c), Orderly => par # "gone"
  PROVE  Each(c)'
<1>0. Queues /\ Queues'
  BY DEF Types, WireTypes, ClientTypes, Queues
<1>1. /\ cl[c] = "wait" /\ cl'[c] = "loop"
      /\ setting' = setting /\ ch' = ch /\ Mrph_num' = Mrph_num /\ now' = now
      /\ asked' = asked /\ strnum' = strnum /\ input' = input /\ up' = up /\ shut' = shut
      /\ \/ down[c] # <<>> /\ down'[c] = Tail(down[c])
         \/ Closed(c) /\ down' = down
  BY <1>0 DEF Answer, NoAnswer, server, child, wires, Queues, Types, ClientTypes
<1>2. /\ up[c] \in Seq(Lines) /\ down[c] \in Seq(Nat) /\ asked[c] \in Nat /\ strnum[c] \in Nat
  BY <1>0 DEF Queues
<1>3. Talking(c)
  BY <1>1 DEF Each
<1>4. Begun(c) \in Nat /\ Begun(c)' = Begun(c)
  BY <1>1, <1>2 DEF Begun
<1>5. AnswersUpTo(down'[c], Begun(c))
  BY <1>1, <1>2, <1>3, <1>4, AnswersLemma DEF Talking
<1>6. Talking(c)'
  BY <1>1, <1>3, <1>4, <1>5 DEF Talking
<1>7. ASSUME Orderly
      PROVE  \E text \in Texts(c) : \E k, j \in 0 .. Len(text) : InStep(c, text, k, j)'
  <2>1. PICK text \in Texts(c) : /\ text \in Seq(LineKinds) /\ Readable(text)
                                 /\ \E k, j \in 0 .. Len(text) : InStep(c, text, k, j)
    BY <1>1, <1>7, ReadingText
  <2>2. PICK k \in 0 .. Len(text), j \in 0 .. Len(text) : InStep(c, text, k, j)
    BY <2>1
  <2>3. ~ Closed(c)
    BY <1>1, <1>7, ReadingText
  <2>4. /\ j \in 0 .. k /\ Remaining(input[c], text, k) /\ OnWire(up[c], text, j, k)
        /\ strnum[c] = 0 <=> k = 0 \/ text[k] = "E"
        /\ ch[c] = "read" /\ j = k /\ down[c] = <<asked[c]>>
        /\ Mrph_num[c] = Count(text, j)
    BY <1>1, <2>2, <2>3 DEF InStep
  <2>5. j \in Nat /\ k \in Nat
    BY <2>2
  <2>6. up[c] = <<>>
    BY <1>2, <2>4, <2>5, WireEmpty
  <2>7. down'[c] = <<>>
    BY <1>1, <2>3, <2>4
  <2>8. Numbered(up[c], asked[c] + 1) /\ NoEOS(text, j, k)
    BY <2>4, <2>5, <2>6 DEF Numbered, NoEOS
  <2>9. InStep(c, text, k, j)'
    BY <1>1, <2>1, <2>2, <2>4, <2>7, <2>8 DEF InStep
  <2> QED
    BY <2>2, <2>9
<1> QED
  BY <1>1, <1>6, <1>7, ReadingText, StillTalking

\* A client's own steps.
LEMMA ClientEach ==
  ASSUME Types, Types', NEW c \in Clients, Each(c), Client(c), Orderly => par # "gone"
  PROVE  Each(c)'
<1>1. CASE Connect(c)
  <2>1. /\ cl[c] = "connect" /\ cl'[c] = "status"
        /\ setting' = setting /\ ch' = ch /\ Mrph_num' = Mrph_num
        /\ opening' = opening /\ input' = input /\ strnum' = strnum /\ asked' = asked
        /\ up' = up /\ down' = down /\ shut' = shut
    BY <1>1 DEF Connect, child, wires, Types, ClientTypes
  <2>2. (Orderly' <=> Orderly) /\ Texts(c)' = Texts(c)
    BY <2>1, OrderlySame
  <2>3. Dialogue(c)'
    BY <2>1 DEF Each, Dialogue
  <2>4. Orderly => Undisturbed(c)'
    BY <2>1, <2>2 DEF Each, Undisturbed
  <2> QED
    BY <2>1, <2>2, <2>3, <2>4 DEF Each
<1>2. CASE ConnectError(c) \/ StatusError(c) \/ Bye(c)
  <2>1. cl'[c] \in {"failed", "done"}
    BY <1>2 DEF ConnectError, StatusError, Bye, Types, ClientTypes
  <2> QED
    BY <2>1 DEF Each
<1> QED
  BY <1>1, <1>2, StatusEach, SendLineEach, SkipEOSEach, SendEOSEach, AnswerEach DEF Client

\* What a child says arrives unless the connection is shut down.
LEMMA Said ==
  ASSUME Queues, NEW c \in Clients, NEW lines, Say(c, lines)
  PROVE  down'[c] = IF c \in shut THEN down[c] ELSE down[c] \o lines
BY Zenon DEF Queues, Say

\* The greeting.
LEMMA GreetEach ==
  ASSUME Types, Types', NEW c \in Clients, Each(c), Greet(c)
  PROVE  Each(c)'
<1>0. Queues /\ Queues'
  BY DEF Types, WireTypes, ClientTypes, Queues
<1>1. /\ ch[c] = "greet" /\ ch'[c] = "command" /\ Say(c, <<200>>)
      /\ setting' = setting /\ Mrph_num' = Mrph_num
      /\ cl' = cl /\ opening' = opening /\ input' = input /\ strnum' = strnum /\ asked' = asked
      /\ up' = up /\ shut' = shut
  BY DEF Greet, Go, server, client, Types, ChildTypes
<1>2. cl[c] \notin {"loop", "wait", "connect"}
  BY <1>1 DEF Each, Talking, Dialogue, Dead
<1>3. CASE cl[c] = "status"
  <2>1. Dialogue(c)
    BY <1>3 DEF Each
  <2>2. up[c] = <<>> /\ down[c] = <<>> /\ opening[c] # <<>>
    BY <1>1, <2>1 DEF Dialogue
  <2>3. down'[c] = <<>> \/ down'[c] = <<>> \o <<200>>
    <3>1. down'[c] = IF c \in shut THEN down[c] ELSE down[c] \o <<200>>
      BY <1>0, <1>1, Said, Zenon
    <3>2. c \in shut => down'[c] = down[c]
      BY <3>1, Zenon
    <3>3. c \notin shut => down'[c] = down[c] \o <<200>>
      BY <3>1, Zenon
    <3> QED
      BY <2>2, <3>2, <3>3, Zenon
  <2>4. Len(up'[c]) + Len(down'[c]) <= 1
    <3>1. up'[c] = <<>> /\ (down'[c] = <<>> \/ down'[c] = <<200>>)
      BY <1>1, <2>2, <2>3
    <3>2. Len(<<>>) + Len(<<>>) <= 1 /\ Len(<<>>) + Len(<<200>>) <= 1
      OBVIOUS
    <3> QED
      BY <3>1, <3>2, Zenon
  <2>5. Dialogue(c)'
    BY <1>1, <1>3, <2>1, <2>2, <2>4 DEF Dialogue
  <2>6. (Orderly' <=> Orderly) /\ Texts(c)' = Texts(c)
    BY <1>1, OrderlySame
  <2>7. Orderly => Undisturbed(c)'
    BY <1>1, <1>3, <2>6 DEF Each, Undisturbed, Dead
  <2> QED
    BY <1>1, <1>3, <2>5, <2>6, <2>7 DEF Each
<1>4. CASE cl[c] # "status"
  BY <1>1, <1>2, <1>4 DEF Each
<1> QED
  BY <1>3, <1>4

\* A command is answered.
LEMMA CommandEach ==
  ASSUME Types, Types', NEW c \in Clients, Each(c), Command(c)
  PROVE  Each(c)'
<1>0. Queues /\ Queues'
  BY DEF Types, WireTypes, ClientTypes, Queues
<1> DEFINE k == Head(up[c]).kind
<1>1. /\ ch[c] = "command" /\ up[c] # <<>>
      /\ Say(c, <<200>>) \/ Say(c, <<500>>)
      /\ setting' = setting /\ Mrph_num' = Mrph_num
      /\ cl' = cl /\ opening' = opening /\ input' = input /\ strnum' = strnum /\ asked' = asked
      /\ up'[c] = Tail(up[c])
  BY <1>0 DEF Command, server, client, Queues
<1>2. \/ k \notin {"RUN", "QUIT"} /\ ch' = ch /\ shut' = shut
      \/ k = "RUN" /\ Go(c, "read") /\ shut' = shut
      \/ k = "QUIT" /\ Go(c, "zombie")
  BY DEF Command, Exit
<1> HIDE DEF k
<1>3. \/ k \notin {"RUN", "QUIT"} /\ ch'[c] = "command" /\ shut' = shut
      \/ k = "RUN" /\ ch'[c] = "read" /\ shut' = shut
      \/ k = "QUIT" /\ ch'[c] = "zombie"
  BY <1>1, <1>2 DEF Go, Types, ChildTypes
<1>4. cl[c] \notin {"loop", "wait", "connect"}
  BY <1>1 DEF Each, Talking, Dialogue, Dead
<1>5. CASE cl[c] = "status"
  <2>1. Dialogue(c)
    BY <1>5 DEF Each
  <2>2. Len(up[c]) + Len(down[c]) <= 1
    BY <2>1 DEF Dialogue
  <2>3. down[c] = <<>> /\ Len(up[c]) >= 1 /\ Len(up[c]) <= 1
    BY <1>0, <1>1, <2>2 DEF Queues
  <2>4. Tail(up[c]) = <<>> /\ Head(up[c]) = up[c][1]
    <3>1. Tail(up[c]) = <<>>
      BY <1>0, <1>1, <2>3 DEF Queues
    <3> QED
      BY <1>0, <1>1, <3>1, SeqLemma DEF Queues
  <2>5. up'[c] = <<>>
    BY <1>1, <2>4
  <2>6. down'[c] = <<>> \/ down'[c] = <<>> \o <<200>> \/ down'[c] = <<>> \o <<500>>
    <3>1. CASE Say(c, <<200>>)
      <4>1. down'[c] = IF c \in shut THEN down[c] ELSE down[c] \o <<200>>
        BY <1>0, <3>1, Said, Zenon
      <4>2. down'[c] = IF c \in shut THEN <<>> ELSE <<>> \o <<200>>
        BY <2>3, <4>1, Zenon
      <4> QED
        BY <4>2, Zenon
    <3>2. CASE Say(c, <<500>>)
      <4>1. down'[c] = IF c \in shut THEN down[c] ELSE down[c] \o <<500>>
        BY <1>0, <3>2, Said, ZenonT(40)
      <4>2. down'[c] = IF c \in shut THEN <<>> ELSE <<>> \o <<500>>
        BY <2>3, <4>1, Zenon
      <4> QED
        BY <4>2, Zenon
    <3> QED
      BY <1>1, <3>1, <3>2
  <2>7. Len(up'[c]) + Len(down'[c]) <= 1
    <3>1. down'[c] = <<>> \/ down'[c] = <<200>> \/ down'[c] = <<500>>
      BY <2>6
    <3>2. /\ Len(<<>>) + Len(<<>>) <= 1 /\ Len(<<>>) + Len(<<200>>) <= 1
          /\ Len(<<>>) + Len(<<500>>) <= 1
      OBVIOUS
    <3> QED
      BY <2>5, <3>1, <3>2, Zenon
  <2>8. k \in {"RUN", "QUIT"} <=> opening[c] = <<>>
    BY <1>1, <2>1, <2>4 DEF Dialogue, k
  <2>9. Dialogue(c)'
    BY <1>1, <1>3, <1>5, <2>1, <2>5, <2>7, <2>8 DEF Dialogue, Dead
  <2>10. (Orderly' <=> Orderly) /\ Texts(c)' = Texts(c)
    BY <1>1, OrderlySame
  <2>11. ASSUME Orderly PROVE Undisturbed(c)'
    <3>1. Undisturbed(c)
      BY <1>5, <2>11 DEF Each
    <3>2. 1 \in 1 .. Len(up[c])
      BY <1>0, <2>3 DEF Queues
    <3>3. k # "QUIT"
      BY <1>5, <2>4, <3>1, <3>2 DEF Undisturbed, k
    <3>4. \A i \in 1 .. Len(up'[c]) : up'[c][i].kind # "QUIT"
      BY <2>5
    <3> QED
      BY <1>1, <1>3, <1>5, <2>10, <3>1, <3>3, <3>4 DEF Undisturbed, Dead
  <2> QED
    BY <1>1, <1>5, <2>9, <2>10, <2>11 DEF Each
<1>6. CASE cl[c] # "status"
  BY <1>1, <1>4, <1>6 DEF Each
<1> QED
  BY <1>5, <1>6

\* A child reads lines and analyses only once RUN is through.
LEMMA ChildTalks ==
  ASSUME NEW c \in Clients, Each(c),
         ch[c] \in {"skip", "analyse"} \/ (ch[c] = "read" /\ up[c] # <<>>)
  PROVE  /\ cl[c] \notin {"connect", "status"}
         /\ cl[c] \in {"loop", "wait"} => Talking(c)
BY DEF Each, Dialogue, Dead

\* The alarm, the end of the connection, the end of the text.
LEMMA EndEach ==
  ASSUME Types, Types', NEW c \in Clients, Each(c), TimeOut(c) \/ Leave(c)
  PROVE  Each(c)'
<1>0. Queues /\ Queues'
  BY DEF Types, WireTypes, ClientTypes, Queues
<1>1. /\ setting' = setting /\ up' = up /\ now' = now
      /\ cl' = cl /\ opening' = opening /\ input' = input /\ strnum' = strnum /\ asked' = asked
  BY DEF TimeOut, Leave, server, client
<1>2. (Orderly' <=> Orderly) /\ Texts(c)' = Texts(c) /\ Begun(c)' = Begun(c)
  BY <1>1, OrderlySame DEF Begun
<1>3. CASE TimeOut(c)
  <2>1. /\ ch[c] = "analyse" /\ ch'[c] \in {"read"} \cup Dead /\ ~ Orderly
        /\ Say(c, <<now[c]>>) \/ Say(c, <<now[c], now[c]>>)
    BY <1>3 DEF TimeOut, Exit, Go, Dead, Orderly, Types, ChildTypes
  <2>2. CASE cl[c] \in {"loop", "wait"}
    <3>1. Talking(c)
      BY <2>2 DEF Each
    <3>2. down[c] \in Seq(Nat) /\ Begun(c) \in Nat /\ now[c] \in 1 .. Begun(c)
      BY <1>0, <2>1, <3>1 DEF Queues, Begun, Talking
    <3>3. \/ down'[c] = down[c]
          \/ down'[c] = down[c] \o <<now[c]>>
          \/ down'[c] = down[c] \o <<now[c], now[c]>>
      BY <1>0, <2>1, Said
    <3>4. AnswersUpTo(down'[c], Begun(c))
      BY <3>1, <3>2, <3>3, AnswersLemma DEF Talking
    <3>5. Talking(c)'
      BY <1>1, <1>2, <2>1, <3>1, <3>4 DEF Talking, Dead
    <3> QED
      BY <1>1, <1>2, <2>1, <2>2, <3>5 DEF Each
  <2>3. CASE cl[c] \notin {"loop", "wait"}
    BY <1>1, <2>1, <2>3, ChildTalks DEF Each
  <2> QED
    BY <2>2, <2>3
<1>4. CASE Leave(c)
  <2>1. /\ ch'[c] = "zombie" /\ down' = down
        /\ \/ ch[c] = "read" /\ up[c] # <<>> /\ Head(up[c]).kind = "F"
           \/ ch[c] \in {"command", "read", "skip"} /\ c \in shut
    BY <1>4 DEF Leave, Exit, Go, Types, ChildTypes
  <2>2. Talking(c) => Talking(c)'
    BY <1>1, <1>2, <2>1 DEF Talking, Dead
  <2>3. Dialogue(c) /\ cl[c] = "status" => Dialogue(c)'
    BY <1>1, <2>1 DEF Dialogue, Dead
  <2>4. cl[c] # "connect"
    BY <2>1 DEF Each, Dialogue
  <2>5. ASSUME Orderly, cl[c] \in {"status", "loop", "wait"} PROVE FALSE
    <3>1. Undisturbed(c)
      BY <2>5 DEF Each
    <3>2. ch[c] = "read" /\ up[c] # <<>> /\ Head(up[c]).kind = "F"
      BY <2>1, <3>1 DEF Undisturbed
    <3>3. cl[c] \in {"loop", "wait"}
      BY <2>5, <3>2, ChildTalks
    <3>4. PICK text \in Texts(c) : /\ text \in Seq(LineKinds) /\ Readable(text)
                                   /\ \E k, j \in 0 .. Len(text) : InStep(c, text, k, j)
      BY <2>5, <3>3, ReadingText
    <3>5. PICK k \in 0 .. Len(text), j \in 0 .. Len(text) : InStep(c, text, k, j)
      BY <3>4
    <3>6. OnWire(up[c], text, j, k) /\ up[c] \in Seq(Lines) /\ j \in Nat /\ k \in Nat
      BY <1>0, <3>5 DEF InStep, Queues
    <3>7. j < k /\ Head(up[c]).kind = text[j + 1]
      BY <3>2, <3>4, <3>6, WireTake
    <3>8. j + 1 \in 1 .. Len(text)
      BY <3>4, <3>5, <3>7
    <3>9. text[j + 1] \in {"c", "m", "E"}
      BY <3>4, <3>8, ReadableKinds
    <3> QED
      BY <3>2, <3>7, <3>9
  <2> QED
    BY <1>1, <1>2, <2>2, <2>3, <2>4, <2>5 DEF Each
<1> QED
  BY <1>3, <1>4

\* What is on the wire of a client in order, seen by its child.
LEMMA NextLine ==
  ASSUME Types, NEW c \in Clients, NEW text \in Seq(LineKinds), Readable(text),
         NEW k \in 0 .. Len(text), NEW j \in 0 .. Len(text), InStep(c, text, k, j),
         up[c] # <<>>, cl[c] \in {"loop", "wait"}
  PROVE  /\ j + 1 \in 1 .. Len(text) /\ j + 1 \in 0 .. k /\ j < k /\ j \in Nat /\ k \in Nat
         /\ Head(up[c]).kind = text[j + 1] /\ text[j + 1] \in {"c", "m", "E"}
         /\ OnWire(Tail(up[c]), text, j + 1, k)
         /\ cl[c] = "loop" => /\ text[j + 1] # "E" /\ NoEOS(text, j + 1, k)
                              /\ Numbered(Tail(up[c]), asked[c] + 1)
         /\ cl[c] = "wait" => /\ text[j + 1] = "E" <=> j + 1 = k
                              /\ NoEOS(text, j + 1, k - 1)
                              /\ Head(up[c]).n = asked[c]
                              /\ Numbered(Tail(up[c]), asked[c])
                              /\ text[j + 1] = "m" => Count(text, j) < MRPH_MAX
<1>0. up[c] \in Seq(Lines) /\ asked[c] \in Nat
  BY DEF Types, WireTypes, ClientTypes
<1>1. j \in Nat /\ k \in Nat /\ OnWire(up[c], text, j, k)
  BY DEF InStep
<1>2. /\ j < k /\ Head(up[c]).kind = text[j + 1]
      /\ OnWire(Tail(up[c]), text, j + 1, k)
  BY <1>0, <1>1, WireTake
<1>3. j + 1 \in 1 .. Len(text) /\ j + 1 \in 0 .. k
  BY <1>1, <1>2
<1>4. text[j + 1] \in {"c", "m", "E"}
  BY <1>3, ReadableKinds
<1>5. ASSUME cl[c] = "loop"
      PROVE  /\ text[j + 1] # "E" /\ NoEOS(text, j + 1, k)
             /\ Numbered(Tail(up[c]), asked[c] + 1)
  <2>1. NoEOS(text, j, k) /\ Numbered(up[c], asked[c] + 1) /\ asked[c] + 1 \in Nat
    BY <1>0, <1>5 DEF InStep
  <2>2. Numbered(Tail(up[c]), asked[c] + 1)
    BY <1>0, <2>1, WireTake
  <2> QED
    BY <1>1, <1>2, <1>3, <2>1, <2>2 DEF NoEOS
<1>6. ASSUME cl[c] = "wait"
      PROVE  /\ text[j + 1] = "E" <=> j + 1 = k
             /\ NoEOS(text, j + 1, k - 1)
             /\ Head(up[c]).n = asked[c]
             /\ Numbered(Tail(up[c]), asked[c])
             /\ text[j + 1] = "m" => Count(text, j) < MRPH_MAX
  <2>1. /\ NoEOS(text, j, k - 1) /\ Numbered(up[c], asked[c])
        /\ k > 1 /\ text[k] = "E" /\ text[k - 1] # "E" /\ k \in 1 .. Len(text)
    BY <1>6 DEF InStep
  <2>2. Head(up[c]).n = asked[c] /\ Numbered(Tail(up[c]), asked[c])
    BY <1>0, <2>1, WireTake
  <2>3. text[j + 1] = "E" <=> j + 1 = k
    BY <1>1, <1>2, <2>1 DEF NoEOS
  <2>4. NoEOS(text, j + 1, k - 1)
    BY <1>1, <2>1 DEF NoEOS
  <2>5. ASSUME text[j + 1] = "m" PROVE Count(text, j) < MRPH_MAX
    <3>1. j + 1 \in Nat /\ k - 1 \in Nat /\ j + 1 <= k - 1
      BY <1>1, <1>2, <2>1, <2>3, <2>5
    <3>2. Count(text, j + 1) <= Count(text, k - 1)
      BY <2>4, <3>1, CountGrows DEF NoEOS
    <3>3. Count(text, j + 1) = Count(text, j) + 1
      BY <1>1, <2>5, CountNext
    <3>4. Count(text, k - 1) \in 1 .. MRPH_MAX
      BY <2>1, CountAtEOS
    <3>5. Count(text, j) \in Nat
      BY <1>1, CountNat
    <3> QED
      BY <3>2, <3>3, <3>4, <3>5, LimitAssumption
  <2> QED
    BY <2>2, <2>3, <2>4, <2>5
<1> QED
  BY <1>1, <1>2, <1>3, <1>4, <1>5, <1>6

\* A child that reads a line, of a sentence or up to EOS, keeps to sentences that
\* have been begun.
LEMMA TakingTalks ==
  ASSUME Types, Types', NEW c \in Clients, cl[c] \in {"loop", "wait"}, Talking(c),
         ReadLine(c) \/ Skip(c)
  PROVE  Talking(c)'
<1>0. Queues /\ Queues'
  BY DEF Types, WireTypes, ClientTypes, Queues
<1>1. /\ up[c] # <<>> /\ up'[c] = Tail(up[c]) /\ now'[c] = Head(up[c]).n
      /\ cl' = cl /\ strnum' = strnum /\ asked' = asked
  BY <1>0 DEF ReadLine, Skip, client, Queues, Types, ChildTypes
<1>2. ch'[c] \in {"read", "skip", "analyse"}
  BY DEF ReadLine, Skip, Failed, Go, Types, ChildTypes
<1>3. down' = down \/ Say(c, <<Head(up[c]).n, Head(up[c]).n>>)
  BY DEF ReadLine, Skip, Failed
<1>4. up[c] \in Seq(Lines) /\ down[c] \in Seq(Nat) /\ Begun(c) \in Nat /\ Begun(c)' = Begun(c)
  BY <1>0, <1>1 DEF Queues, Begun
<1>5. Head(up[c]).n \in 1 .. Begun(c) /\ LinesUpTo(Tail(up[c]), Begun(c))
  BY <1>1, <1>4, WireTake DEF Talking
<1>6. AnswersUpTo(down'[c], Begun(c))
  <2>1. AnswersUpTo(down[c], Begun(c))
    BY DEF Talking
  <2>2. down'[c] = down[c] \/ down'[c] = down[c] \o <<Head(up[c]).n, Head(up[c]).n>>
    BY <1>0, <1>3, Said
  <2> QED
    BY <1>4, <1>5, <2>1, <2>2, AnswersLemma
<1> QED
  BY <1>1, <1>2, <1>4, <1>5, <1>6 DEF Talking

\* read_mrph takes a line.
LEMMA ReadLineEach ==
  ASSUME Types, Types', NEW c \in Clients, Each(c), ReadLine(c)
  PROVE  Each(c)'
<1>0. Queues /\ Queues'
  BY DEF Types, WireTypes, ClientTypes, Queues
<1>1. /\ ch[c] = "read" /\ up[c] # <<>>
      /\ setting' = setting /\ shut' = shut
      /\ cl' = cl /\ input' = input /\ strnum' = strnum /\ asked' = asked
      /\ up'[c] = Tail(up[c]) /\ now'[c] = Head(up[c]).n
  BY <1>0 DEF ReadLine, server, client, Queues, Types, ChildTypes
<1>2. CASE cl[c] \notin {"loop", "wait"}
  BY <1>1, <1>2, ChildTalks DEF Each
<1>3. CASE cl[c] \in {"loop", "wait"}
  <2>1. Talking(c)'
    BY <1>1, <1>3, ChildTalks, TakingTalks
  <2>2. ASSUME Orderly
        PROVE  /\ ch'[c] \notin Dead
               /\ \E text \in Texts(c) : \E k, j \in 0 .. Len(text) : InStep(c, text, k, j)'
    <3>1. PICK text \in Texts(c) : /\ text \in Seq(LineKinds) /\ Readable(text)
                                   /\ \E k, j \in 0 .. Len(text) : InStep(c, text, k, j)
      BY <1>3, <2>2, ReadingText
    <3>2. PICK k \in 0 .. Len(text), j \in 0 .. Len(text) : InStep(c, text, k, j)
      BY <3>1
    <3>3. /\ k \in 0 .. Len(text) /\ Remaining(input[c], text, k)
          /\ strnum[c] = 0 <=> k = 0 \/ text[k] = "E"
          /\ cl[c] = "loop" => down[c] = <<>>
          /\ cl[c] = "wait" => k > 1 /\ text[k] = "E" /\ text[k - 1] # "E"
          /\ Mrph_num[c] = Count(text, j)
      BY <1>1, <3>2 DEF InStep
    <3>4. /\ j + 1 \in 1 .. Len(text) /\ j + 1 \in 0 .. k /\ j < k /\ j \in Nat /\ k \in Nat
          /\ Head(up[c]).kind = text[j + 1] /\ text[j + 1] \in {"c", "m", "E"}
          /\ OnWire(Tail(up[c]), text, j + 1, k)
          /\ cl[c] = "loop" => /\ text[j + 1] # "E" /\ NoEOS(text, j + 1, k)
                               /\ Numbered(Tail(up[c]), asked[c] + 1)
          /\ cl[c] = "wait" => /\ text[j + 1] = "E" <=> j + 1 = k
                               /\ NoEOS(text, j + 1, k - 1)
                               /\ Head(up[c]).n = asked[c]
                               /\ Numbered(Tail(up[c]), asked[c])
                               /\ text[j + 1] = "m" => Count(text, j) < MRPH_MAX
      BY <1>1, <1>3, <3>1, <3>2, NextLine
    <3>5. j + 1 \in 0 .. Len(text)
      BY <3>4
    <3>6. cl[c] = "wait" => down[c] = <<>>
      BY <1>1, <3>2, <3>4 DEF InStep
    <3>7. cl[c] = "wait" /\ text[j + 1] # "E" => j + 1 < k
      BY <3>4
    <3>8. CASE text[j + 1] = "c"
      <4>1. ch' = ch /\ Mrph_num' = Mrph_num /\ down' = down
        BY <3>4, <3>8 DEF ReadLine
      <4>2. Count(text, j + 1) = Count(text, j)
        BY <3>4, <3>8, CountNext
      <4>3. InStep(c, text, k, j + 1)'
        BY <1>1, <1>3, <3>1, <3>3, <3>4, <3>6, <3>7, <3>8, <4>1, <4>2 DEF InStep
      <4> QED
        BY <1>1, <3>1, <3>2, <3>5, <4>1, <4>3 DEF Dead
    <3>9. CASE text[j + 1] = "m" /\ Mrph_num[c] < MRPH_MAX
      <4>1. ch' = ch /\ Mrph_num'[c] = Mrph_num[c] + 1 /\ down' = down
        BY SMTT(30), <3>4, <3>9, LimitAssumption DEF ReadLine, Types, ChildTypes
      <4>2. Count(text, j + 1) = Count(text, j) + 1
        BY <3>4, <3>9, CountNext
      <4>3. InStep(c, text, k, j + 1)'
        BY <1>1, <1>3, <3>1, <3>3, <3>4, <3>6, <3>7, <3>9, <4>1, <4>2 DEF InStep
      <4> QED
        BY <1>1, <3>1, <3>2, <3>5, <4>1, <4>3 DEF Dead
    <3>10. CASE text[j + 1] = "m" /\ ~ (Mrph_num[c] < MRPH_MAX)
      <4>1. ch'[c] = "skip" /\ down' = down
        BY <3>4, <3>10 DEF ReadLine, Go, Types, ChildTypes
      <4>2. Count(text, j + 1) = Count(text, j) + 1 /\ Count(text, j) \in Nat
        BY <3>4, <3>10, CountNext, CountNat
      <4>3. Count(text, j + 1) > MRPH_MAX
        BY <3>3, <3>10, <4>2, LimitAssumption
      <4>4. cl[c] = "loop"
        BY <1>3, <3>3, <3>4, <3>10
      <4>5. InStep(c, text, k, j + 1)'
        BY <1>1, <3>1, <3>3, <3>4, <4>1, <4>3, <4>4 DEF InStep
      <4> QED
        BY <3>1, <3>2, <3>5, <4>1, <4>5 DEF Dead
    <3>11. CASE text[j + 1] = "E"
      <4>1. cl[c] = "wait" /\ j + 1 = k
        BY <1>3, <3>4, <3>11
      <4>2. k - 1 = j /\ k \in 1 .. Len(text)
        BY <3>4, <4>1
      <4>3. Count(text, j) \in 1 .. MRPH_MAX
        BY <3>1, <3>3, <4>1, <4>2, CountAtEOS
      <4>4. Mrph_num[c] > 0
        BY <3>3, <4>3, LimitAssumption
      <4>5. ch'[c] = "analyse" /\ down' = down
        BY SMTT(30), <3>4, <3>11, <4>4, LimitAssumption DEF ReadLine, Go, Types, ChildTypes
      <4>6. InStep(c, text, k, j + 1)'
        BY <1>1, <3>1, <3>3, <3>4, <3>6, <4>1, <4>5 DEF InStep
      <4> QED
        BY <3>1, <3>2, <3>5, <4>5, <4>6 DEF Dead
    <3> QED
      BY <3>4, <3>8, <3>9, <3>10, <3>11
  <2> QED
    BY <1>1, <1>3, <2>1, <2>2, ReadingText, StillTalking
<1> QED
  BY <1>2, <1>3

\* readtoeos takes a line; if all is in order, it meets no EOS.
LEMMA SkipEach ==
  ASSUME Types, Types', NEW c \in Clients, Each(c), Skip(c)
  PROVE  Each(c)'
<1>0. Queues /\ Queues'
  BY DEF Types, WireTypes, ClientTypes, Queues
<1>1. /\ ch[c] = "skip" /\ up[c] # <<>>
      /\ setting' = setting /\ shut' = shut
      /\ cl' = cl /\ input' = input /\ strnum' = strnum /\ asked' = asked
      /\ up'[c] = Tail(up[c])
  BY <1>0 DEF Skip, server, client, Queues
<1>2. CASE cl[c] \notin {"loop", "wait"}
  BY <1>1, <1>2, ChildTalks DEF Each
<1>3. CASE cl[c] \in {"loop", "wait"}
  <2>1. Talking(c)'
    BY <1>1, <1>3, ChildTalks, TakingTalks
  <2>2. ASSUME Orderly
        PROVE  /\ ch'[c] \notin Dead
               /\ \E text \in Texts(c) : \E k, j \in 0 .. Len(text) : InStep(c, text, k, j)'
    <3>1. PICK text \in Texts(c) : /\ text \in Seq(LineKinds) /\ Readable(text)
                                   /\ \E k, j \in 0 .. Len(text) : InStep(c, text, k, j)
      BY <1>3, <2>2, ReadingText
    <3>2. PICK k \in 0 .. Len(text), j \in 0 .. Len(text) : InStep(c, text, k, j)
      BY <3>1
    <3>3. /\ k \in 0 .. Len(text) /\ Remaining(input[c], text, k)
          /\ strnum[c] = 0 <=> k = 0 \/ text[k] = "E"
          /\ cl[c] = "loop" /\ down[c] = <<>>
          /\ Count(text, j) > MRPH_MAX
      BY <1>1, <1>3, <3>2 DEF InStep
    <3>4. /\ j + 1 \in 1 .. Len(text) /\ j + 1 \in 0 .. k /\ j < k /\ j \in Nat /\ k \in Nat
          /\ Head(up[c]).kind = text[j + 1]
          /\ OnWire(Tail(up[c]), text, j + 1, k)
          /\ text[j + 1] # "E" /\ NoEOS(text, j + 1, k)
          /\ Numbered(Tail(up[c]), asked[c] + 1)
      BY <1>1, <1>3, <3>1, <3>2, <3>3, NextLine
    <3>5. ch' = ch /\ Mrph_num' = Mrph_num /\ down' = down
      BY <3>4 DEF Skip
    <3>6. Count(text, j + 1) > MRPH_MAX /\ j + 1 \in 0 .. Len(text)
      <4>1. Count(text, j + 1) = IF text[j + 1] = "m" THEN Count(text, j) + 1 ELSE Count(text, j)
        BY <3>4, CountNext
      <4>2. Count(text, j) \in Nat
        BY <3>4, CountNat
      <4> QED
        BY <3>3, <3>4, <4>1, <4>2, LimitAssumption
    <3>7. InStep(c, text, k, j + 1)'
      BY <1>1, <3>1, <3>3, <3>4, <3>5, <3>6 DEF InStep
    <3> QED
      BY <1>1, <3>1, <3>2, <3>5, <3>6, <3>7 DEF Dead
  <2> QED
    BY <1>1, <1>3, <2>1, <2>2, ReadingText, StillTalking
<1> QED
  BY <1>2, <1>3

\* A result is printed: if all is in order, the answer the client waits for.
LEMMA AnalyseEach ==
  ASSUME Types, Types', NEW c \in Clients, Each(c), Analyse(c)
  PROVE  Each(c)'
<1>0. Queues /\ Queues'
  BY DEF Types, WireTypes, ClientTypes, Queues
<1>1. /\ ch[c] = "analyse" /\ ch'[c] = "read" /\ Mrph_num'[c] = 0 /\ Say(c, <<now[c]>>)
      /\ setting' = setting /\ shut' = shut
      /\ cl' = cl /\ input' = input /\ strnum' = strnum /\ asked' = asked
      /\ up' = up /\ now' = now
  BY DEF Analyse, Go, server, client, Types, ChildTypes
<1>2. CASE cl[c] \notin {"loop", "wait"}
  BY <1>1, <1>2, ChildTalks DEF Each
<1>3. CASE cl[c] \in {"loop", "wait"}
  <2>1. Talking(c)'
    <3>1. Talking(c)
      BY <1>3 DEF Each
    <3>2. down[c] \in Seq(Nat) /\ Begun(c) \in Nat /\ Begun(c)' = Begun(c) /\ now[c] \in 1 .. Begun(c)
      BY <1>0, <1>1, <3>1 DEF Queues, Begun, Talking
    <3>3. down'[c] = down[c] \/ down'[c] = down[c] \o <<now[c]>>
      BY <1>0, <1>1, Said
    <3>4. AnswersUpTo(down'[c], Begun(c))
      BY <3>1, <3>2, <3>3, AnswersLemma DEF Talking
    <3> QED
      BY <1>1, <3>1, <3>2, <3>4 DEF Talking
  <2>2. ASSUME Orderly
        PROVE  /\ ch'[c] \notin Dead
               /\ \E text \in Texts(c) : \E k, j \in 0 .. Len(text) : InStep(c, text, k, j)'
    <3>1. PICK text \in Texts(c) : /\ text \in Seq(LineKinds) /\ Readable(text)
                                   /\ \E k, j \in 0 .. Len(text) : InStep(c, text, k, j)
      BY <1>3, <2>2, ReadingText
    <3>2. PICK k \in 0 .. Len(text), j \in 0 .. Len(text) : InStep(c, text, k, j)
      BY <3>1
    <3>3. /\ k \in 0 .. Len(text) /\ j \in 0 .. k /\ Remaining(input[c], text, k)
          /\ strnum[c] = 0 <=> k = 0 \/ text[k] = "E"
          /\ OnWire(up[c], text, j, k)
          /\ cl[c] = "wait" /\ k > 1 /\ text[k] = "E" /\ text[k - 1] # "E"
          /\ Numbered(up[c], asked[c]) /\ NoEOS(text, j, k - 1)
          /\ j = k /\ down[c] = <<>> /\ now[c] = asked[c]
      BY <1>1, <1>3, <3>2 DEF InStep
    <3>4. c \notin shut
      BY <1>3, <2>2, ReadingText
    <3>5. down'[c] = <<asked[c]>>
      <4>1. down'[c] = down[c] \o <<now[c]>>
        BY <1>0, <1>1, <3>4, Said
      <4> QED
        BY <3>3, <4>1
    <3>6. Count(text, j) = 0
      <4>1. k \in Nat /\ text[k] = "E"
        BY <3>2, <3>3
      <4>2. Count(text, k) = 0
        BY <4>1, CountZero
      <4> QED
        BY <3>3, <4>2
    <3>7. InStep(c, text, k, j)'
      BY <1>1, <3>1, <3>3, <3>5, <3>6 DEF InStep
    <3> QED
      BY <1>1, <3>1, <3>2, <3>7 DEF Dead
  <2> QED
    BY <1>1, <1>3, <2>1, <2>2, ReadingText, StillTalking
<1> QED
  BY <1>2, <1>3

\* A child's own steps.
LEMMA ChildEach ==
  ASSUME Types, Types', NEW c \in Clients, Each(c), Child(c) \/ TimeOut(c)
  PROVE  Each(c)'
BY GreetEach, CommandEach, ReadLineEach, SkipEach, AnalyseEach, EndEach DEF Child

\* The setting does not change.
LEMMA SettingKept == [Next]_vars => setting' = setting
BY ZenonT(40) DEF Next, Client, Connect, ConnectError, Status, StatusError, SendLine, SendEOS, Answer,
   NoAnswer, Bye, Child, Greet, Command, ReadLine, Skip, Analyse, Leave, TimeOut, Server,
   Accept, Fork, CloseFd, Interrupt, Reap, ForkError, Terminate, Rest, vars, server

\* Every step keeps what holds of each client.
LEMMA EachKept ==
  ASSUME IInv, [Next]_vars, Types'
  PROVE  \A d \in Clients : Each(d)'
<1>0. /\ Types /\ Accepting /\ (Orderly => par # "gone") /\ \A c \in Clients : Each(c)
  BY DEF IInv
<1>2. ASSUME NEW c \in Clients, Client(c), NEW d \in Clients PROVE Each(d)'
  <2>1. CASE d = c
    BY <1>0, <1>2, <2>1, ClientEach
  <2>2. CASE d # c
    <3>1. Same(d)
      <4>1. /\ setting' = setting /\ ch' = ch /\ Mrph_num' = Mrph_num /\ now' = now
            /\ shut' \subseteq shut \cup {c}
        BY <1>2 DEF Client, Connect, ConnectError, Status, StatusError, SendLine, SendEOS,
           Answer, NoAnswer, Bye, server, child, wires
      <4>2. /\ cl'[d] = cl[d] /\ opening'[d] = opening[d] /\ input'[d] = input[d]
            /\ strnum'[d] = strnum[d] /\ asked'[d] = asked[d]
            /\ up'[d] = up[d] /\ down'[d] = down[d]
        <5>0. Queues /\ cl \in [Clients -> {"connect", "status", "loop", "wait", "done", "failed"}]
          BY <1>0 DEF Types, WireTypes, ClientTypes, Queues
        <5>1. CASE Connect(c) \/ ConnectError(c) \/ StatusError(c) \/ NoAnswer(c)
          BY <2>2, <5>0, <5>1 DEF Connect, ConnectError, StatusError, NoAnswer, wires
        <5>2. CASE Status(c)
          BY <2>2, <5>0, <5>2 DEF Status, Queues
        <5>3. CASE SendLine(c)
          BY <2>2, <5>0, <5>3 DEF SendLine, Send, Queues
        <5>4. CASE SendEOS(c)
          BY <2>2, <5>0, <5>4 DEF SendEOS, Send, Queues
        <5>5. CASE Answer(c) \/ Bye(c)
          BY <2>2, <5>0, <5>5 DEF Answer, Bye, Queues
        <5> QED
          BY <1>2, <5>1, <5>2, <5>3, <5>4, <5>5 DEF Client
      <4> QED
        BY <2>2, <4>1, <4>2 DEF Same
    <3> QED
      BY <1>0, <3>1, Others
  <2> QED
    BY <2>1, <2>2
<1>3. ASSUME NEW c \in Clients, Child(c) \/ TimeOut(c), NEW d \in Clients PROVE Each(d)'
  <2>1. CASE d = c
    BY <1>0, <1>3, <2>1, ChildEach
  <2>2. CASE d # c
    <3>1. Same(d)
      <4>1. /\ setting' = setting /\ cl' = cl /\ opening' = opening /\ input' = input
            /\ strnum' = strnum /\ asked' = asked
        BY <1>3 DEF Child, Greet, Command, ReadLine, Skip, Analyse, Leave, TimeOut, server, client
      <4>2. shut' \subseteq shut \cup {c}
        BY <1>3 DEF Child, Greet, Command, ReadLine, Skip, Analyse, Leave, TimeOut, Exit
      <4>3. ch'[d] = ch[d] /\ Mrph_num'[d] = Mrph_num[d] /\ now'[d] = now[d]
        BY <1>0, <1>3, <2>2 DEF Child, Greet, Command, ReadLine, Skip, Analyse, Leave, TimeOut,
           Failed, Exit, Go, Types, ChildTypes
      <4>4. up'[d] = up[d]
        BY <1>0, <1>3, <2>2 DEF Child, Greet, Command, ReadLine, Skip, Analyse, Leave, TimeOut,
           Types, WireTypes
      <4>5. down' = down \/ \E lines : Say(c, lines)
        BY <1>3 DEF Child, Greet, Command, ReadLine, Skip, Analyse, Leave, TimeOut, Failed
      <4>6. down'[d] = down[d]
        BY <1>0, <2>2, <4>5 DEF Say, Types, WireTypes
      <4> QED
        BY <2>2, <4>1, <4>2, <4>3, <4>4, <4>6 DEF Same
    <3> QED
      BY <1>0, <3>1, Others
  <2> QED
    BY <2>1, <2>2
<1>4. ASSUME Fork, NEW d \in Clients PROVE Each(d)'
  <2>1. /\ setting' = setting /\ cl' = cl /\ opening' = opening /\ input' = input
        /\ strnum' = strnum /\ asked' = asked /\ Mrph_num' = Mrph_num /\ now' = now
        /\ up' = up /\ down' = down /\ shut' = shut
        /\ par = "fork" /\ ch' = [ch EXCEPT ![cur] = "greet"]
    BY <1>4 DEF Fork, client, wires
  <2>2. CASE d = cur
    <3>1. ch[d] = "none" /\ ch'[d] = "greet" /\ cl[d] # "connect"
      BY <1>0, <2>1, <2>2 DEF Accepting, Types, ChildTypes
    <3>2. (Orderly' <=> Orderly) /\ Texts(d)' = Texts(d)
      BY <2>1, OrderlySame
    <3>3. Each(d)
      BY <1>0
    <3>4. cl[d] \notin {"loop", "wait"}
      BY <3>1, <3>3 DEF Each, Talking, Dead
    <3>5. cl[d] = "status" => Dialogue(d)'
      BY <2>1, <3>1, <3>3 DEF Each, Dialogue
    <3>6. cl[d] = "status" /\ Orderly => Undisturbed(d)'
      BY <2>1, <3>1, <3>2, <3>3 DEF Each, Undisturbed, Dead
    <3> QED
      BY <2>1, <3>1, <3>2, <3>4, <3>5, <3>6 DEF Each
  <2>3. CASE d # cur
    <3>1. Same(d)
      BY <1>0, <2>1, <2>3 DEF Same, Types, ChildTypes
    <3> QED
      BY <1>0, <3>1, Others
  <2> QED
    BY <2>2, <2>3
<1>5. ASSUME Reap, NEW d \in Clients PROVE Each(d)'
  <2>1. /\ setting' = setting /\ cl' = cl /\ opening' = opening /\ input' = input
        /\ strnum' = strnum /\ asked' = asked /\ Mrph_num' = Mrph_num /\ now' = now
        /\ up' = up /\ down' = down /\ shut' = shut
    BY <1>5 DEF Reap, server, client, wires
  <2>2. ch'[d] = ch[d] \/ (ch[d] = "zombie" /\ ch'[d] = "reaped")
    BY <1>0, <1>5 DEF Reap, Zombies, Types, ChildTypes
  <2>3. CASE ch'[d] = ch[d]
    <3>1. Same(d)
      BY <2>1, <2>3 DEF Same
    <3> QED
      BY <1>0, <3>1, Others
  <2>4. CASE ch[d] = "zombie" /\ ch'[d] = "reaped"
    <3>1. Orderly' <=> Orderly
      BY <2>1, OrderlySame
    <3>2. Each(d) /\ ch[d] \in Dead
      BY <1>0, <2>4 DEF Dead
    <3>3. Dialogue(d) => Dialogue(d)'
      BY <2>1, <2>4 DEF Dialogue, Dead
    <3>4. Talking(d) => Talking(d)'
      BY <2>1, <2>4 DEF Talking, Begun, Dead
    <3>5. ~ Undisturbed(d)
      BY <3>2 DEF Undisturbed
    <3> QED
      BY <2>1, <3>1, <3>2, <3>3, <3>4, <3>5 DEF Each
  <2> QED
    BY <2>2, <2>3, <2>4
<1>6. ASSUME Accept \/ CloseFd \/ Interrupt \/ ForkError \/ Terminate \/ Rest \/ UNCHANGED vars,
             NEW d \in Clients
      PROVE  Each(d)'
  <2>1. /\ setting' = setting /\ cl' = cl /\ opening' = opening /\ input' = input
        /\ strnum' = strnum /\ asked' = asked /\ ch' = ch /\ Mrph_num' = Mrph_num /\ now' = now
        /\ up' = up /\ down' = down
    BY <1>6 DEF Accept, CloseFd, Interrupt, ForkError, Terminate, Rest, vars, server, client, child, wires
  <2>2. Orderly => shut' = shut
    BY <1>6 DEF Accept, CloseFd, Interrupt, ForkError, Terminate, Rest, vars, wires, Orderly
  <2>3. Same(d)
    BY <2>1, <2>2 DEF Same
  <2> QED
    BY <1>0, <2>3, Others
<1> QED
  BY <1>2, <1>3, <1>4, <1>5, <1>6 DEF Next, Server

\* The invariant holds at the beginning,
LEMMA InitIInv == Init => IInv
<1> SUFFICES ASSUME Init PROVE IInv
  OBVIOUS
<1>1. Types
  BY InitTypes
<1>2. NoZombieForgotten /\ Accepting /\ (Orderly => par # "gone")
  BY DEF Init, All, NoZombieForgotten, Zombies, Accepting
<1>3. ASSUME NEW c \in Clients PROVE Each(c)
  <2>1. /\ cl[c] = "connect" /\ ch[c] = "none" /\ up[c] = <<>> /\ down[c] = <<>> /\ shut = {}
        /\ strnum[c] = 0 /\ asked[c] = 0 /\ Mrph_num[c] = 0
        /\ opening \in setting.openings /\ input \in setting.inputs /\ setting \in Settings
    BY DEF Init, All
  <2>2. opening[c] \in Seq(Commands)
    BY <1>1 DEF Types, ClientTypes
  <2>3. /\ opening[c] # <<>>
        /\ opening[c][Len(opening[c])] \in {"RUN", "QUIT"}
        /\ \A k \in 1 .. (Len(opening[c]) - 1) : opening[c][k] \notin {"RUN", "QUIT"}
    BY <2>1, OpeningsAssumption
  <2>4. Ends(opening[c])
    <3>1. PICK s \in Seq(Commands) : s = opening[c]
      BY <2>2
    <3>2. \A k \in 1 .. Len(s) : k = Len(s) \/ k \in 1 .. (Len(s) - 1)
      OBVIOUS
    <3>3. Len(s) \notin 1 .. (Len(s) - 1)
      OBVIOUS
    <3> QED
      BY <2>3, <3>1, <3>2, <3>3 DEF Ends
  <2>5. Len(<<>>) + Len(<<>>) <= 1
    OBVIOUS
  <2>6. Dialogue(c)
    BY <2>1, <2>3, <2>4, <2>5 DEF Dialogue
  <2>7. ASSUME Orderly PROVE Undisturbed(c)
    <3>1. input[c] \in Texts(c)
      BY <2>1 DEF Texts
    <3>2. opening[c][Len(opening[c])] = "RUN"
      BY <2>1, <2>7 DEF Orderly
    <3>3. ASSUME NEW k \in 1 .. Len(opening[c]) PROVE opening[c][k] # "QUIT"
      BY <2>4, <3>2 DEF Ends
    <3>4. \A k \in 1 .. Len(<<>>) : FALSE
      OBVIOUS
    <3> QED
      BY <2>1, <3>1, <3>3, <3>4 DEF Undisturbed, Dead
  <2> QED
    BY <2>1, <2>6, <2>7 DEF Each
<1> QED
  BY <1>1, <1>2, <1>3 DEF IInv

\* and every step keeps it.
LEMMA NextIInv == IInv /\ [Next]_vars => IInv'
<1> SUFFICES ASSUME IInv, [Next]_vars PROVE IInv'
  OBVIOUS
<1>1. Types'
  BY TypesKept DEF IInv
<1>2. NoZombieForgotten'
  BY NoZombieKept DEF IInv
<1>3. Accepting'
  <2>1. \A c \in Clients : cl[c] = "connect" => ch[c] = "none"
    BY DEF IInv, Each, Dialogue
  <2> QED
    BY <2>1, AcceptingKept DEF IInv
<1>4. \A c \in Clients : Each(c)'
  BY <1>1, EachKept
<1>5. setting' = setting
  BY SettingKept
<1>6. Orderly' => par' # "gone"
  <2>1. (Orderly' <=> Orderly) /\ (Orderly => par # "gone")
    BY <1>5, OrderlySame DEF IInv
  <2>2. par # "gone" /\ ~ Terminate => par' # "gone"
    BY ZenonT(40) DEF Next, Client, Connect, ConnectError, Status, StatusError, SendLine, SendEOS, Answer,
       NoAnswer, Bye, Child, Greet, Command, ReadLine, Skip, Analyse, Leave, TimeOut, Server,
       Accept, Fork, CloseFd, Interrupt, Reap, ForkError, Rest, vars, server
  <2>3. Terminate => ~ Orderly
    BY DEF Terminate, Orderly
  <2> QED
    BY <2>1, <2>2, <2>3
<1> QED
  BY <1>1, <1>2, <1>3, <1>4, <1>6 DEF IInv

\* The invariant of the service.
LEMMA Invariant == Spec => []IInv
BY InitIInv, NextIInv, PTL DEF Spec

\* The types of KnpService, the limit of Mrph_num among them: read_mrph never
\* stores a morpheme that has no room (TypeOK of the run `service').
THEOREM TypeCorrect == Spec => []TypeOK
<1>1. IInv => TypeOK
  BY TypesOK DEF IInv
<1> QED
  BY <1>1, Invariant, PTL

\* sig_child forgets no child, however many exit while it runs or before it does.
THEOREM ChildrenReaped == Spec => []NoZombieForgotten
<1>1. IInv => NoZombieForgotten
  BY DEF IInv
<1> QED
  BY <1>1, Invariant, PTL
-----------------------------------------------------------------------------
(* What the clients see is a Session                                       *)

\* The session states.
State == [c \in Clients |-> Seen(cl[c])]

\* A client that goes over to something else.
LEMMA Changes ==
  ASSUME Types, NEW c \in Clients, NEW x, cl' = [cl EXCEPT ![c] = x]
  PROVE  State' = [State EXCEPT ![c] = Seen(x)]
<1>1. cl \in [Clients -> {"connect", "status", "loop", "wait", "done", "failed"}]
  BY DEF Types, ClientTypes
<1>2. ASSUME NEW d \in Clients PROVE Seen(cl'[d]) = IF d = c THEN Seen(x) ELSE Seen(cl[d])
  BY <1>1, <1>2
<1> QED
  BY <1>2, Zenon DEF State

\* If that makes no difference, nothing is seen of it.
LEMMA Unseen ==
  ASSUME Types, NEW c \in Clients, NEW x, cl' = [cl EXCEPT ![c] = x], Seen(x) = Seen(cl[c])
  PROVE  State' = State
<1>1. State' = [State EXCEPT ![c] = State[c]]
  BY Changes DEF State
<1> QED
  BY <1>1 DEF State

\* The service begins as a session does.
LEMMA InitService == Init => Service!Init
<1> SUFFICES ASSUME Init PROVE Service!Init
  OBVIOUS
<1>1. Orderly \in BOOLEAN
  BY DEF Orderly
<1>2. \A c \in Clients : Seen(cl[c]) = "idle"
  BY DEF Init, All, Seen
<1> QED
  BY <1>1, <1>2 DEF Init, All, Service!Init

\* A step of a client is a step of the session or is not seen.
LEMMA ClientServes ==
  ASSUME IInv, NEW c \in Clients, Client(c), Orderly' <=> Orderly
  PROVE  Service!Next \/ UNCHANGED Service!vars
<1>0. Types /\ Each(c) /\ (Orderly => par # "gone")
  BY DEF IInv
<1>1. cl \in [Clients -> {"connect", "status", "loop", "wait", "done", "failed"}]
  BY <1>0 DEF Types, ClientTypes
<1>2. ASSUME UNCHANGED <<asked, got>>, State' = State PROVE UNCHANGED Service!vars
  BY <1>2, Orderly' = Orderly DEF State, Service!vars
<1>3. CASE Connect(c)
  <2>1. cl' = [cl EXCEPT ![c] = "status"] /\ cl[c] = "connect" /\ UNCHANGED <<asked, got>>
    BY <1>3 DEF Connect
  <2>2. Seen("status") = Seen(cl[c])
    BY <2>1 DEF Seen
  <2> QED
    BY <1>0, <1>2, <2>1, <2>2, Unseen
<1>4. CASE ConnectError(c) \/ StatusError(c) \/ Bye(c) \/ (Status(c) /\ Head(down[c]) # 200)
  <2>1. PICK x \in {"failed", "done"} : cl' = [cl EXCEPT ![c] = x]
    BY <1>4 DEF ConnectError, StatusError, Bye, Status
  <2>2. State[c] = "idle" /\ Seen(x) = "over" /\ UNCHANGED <<asked, got>>
    BY <1>4 DEF ConnectError, StatusError, Bye, Status, State, Seen
  <2>3. State' = [State EXCEPT ![c] = "over"]
    BY <1>0, <2>1, <2>2, Changes
  <2>4. Service!Leave(c)
    BY <2>2, <2>3 DEF Service!Leave, State
  <2> QED
    BY <2>4 DEF Service!Next
<1>5. CASE Status(c) /\ Head(down[c]) = 200
  <2>1. /\ cl' = cl \/ cl' = [cl EXCEPT ![c] = "loop"]
        /\ cl[c] = "status" /\ UNCHANGED <<asked, got>>
    BY <1>5 DEF Status
  <2>2. Seen("loop") = Seen(cl[c])
    BY <2>1 DEF Seen
  <2>3. State' = State
    BY <1>0, <2>1, <2>2, Unseen DEF State
  <2> QED
    BY <1>2, <2>1, <2>3
<1>6. CASE SendLine(c) \/ (SendEOS(c) /\ strnum[c] = 0)
  <2>1. UNCHANGED <<cl, asked, got>>
    BY <1>6 DEF SendLine, SendEOS
  <2> QED
    BY <1>2, <2>1 DEF State
<1>7. CASE SendEOS(c) /\ strnum[c] # 0
  <2>1. /\ cl[c] = "loop" /\ cl' = [cl EXCEPT ![c] = "wait"] /\ got' = got
        /\ asked' = [asked EXCEPT ![c] = @ + 1]
    BY <1>7 DEF SendEOS
  <2>2. State[c] = "idle" /\ Seen("wait") = "asking"
    BY <2>1 DEF State, Seen
  <2>3. State' = [State EXCEPT ![c] = "asking"]
    BY <1>0, <2>1, <2>2, Changes
  <2>4. Service!Ask(c)
    BY <2>1, <2>2, <2>3 DEF Service!Ask, State
  <2> QED
    BY <2>4 DEF Service!Next
<1>8. CASE Answer(c)
  <2>1. /\ cl[c] = "wait" /\ down[c] # <<>> /\ cl' = [cl EXCEPT ![c] = "loop"] /\ asked' = asked
        /\ got' = [got EXCEPT ![c] = Append(@, Head(down[c]))]
    BY <1>8 DEF Answer
  <2>2. State[c] = "asking" /\ Seen("loop") = "idle"
    BY <2>1 DEF State, Seen
  <2>3. State' = [State EXCEPT ![c] = "idle"]
    BY ZenonT(40), <1>0, <2>1, <2>2, Changes
  <2>4. Head(down[c]) \in 1 .. asked[c]
    <3>1. Talking(c)
      BY <1>0, <2>1 DEF Each
    <3>2. asked[c] \in Nat /\ strnum[c] = 0 /\ down[c] \in Seq(Nat)
      BY <1>0, <2>1, <3>1 DEF Talking, Types, ClientTypes, WireTypes
    <3>3. Begun(c) = asked[c]
      BY <3>2 DEF Begun
    <3> QED
      BY <2>1, <3>1, <3>2, <3>3, AnswersLemma DEF Talking
  <2>5. Orderly => Head(down[c]) = asked[c]
    <3>1. SUFFICES ASSUME Orderly PROVE down[c] = <<asked[c]>>
      OBVIOUS
    <3>2. PICK text \in Texts(c) : \E k, j \in 0 .. Len(text) : InStep(c, text, k, j)
      BY <1>0, <2>1, <3>1, ReadingText
    <3> QED
      BY <2>1, <3>2 DEF InStep
  <2>6. Service!Reply(c)
    BY <2>1, <2>2, <2>3, <2>4, <2>5 DEF Service!Reply, State
  <2> QED
    BY <2>6 DEF Service!Next
<1>9. CASE NoAnswer(c)
  <2>1. /\ cl[c] = "wait" /\ Closed(c) /\ cl' = [cl EXCEPT ![c] = "loop"] /\ UNCHANGED <<asked, got>>
    BY <1>9 DEF NoAnswer
  <2>2. State[c] = "asking" /\ Seen("loop") = "idle"
    BY <2>1 DEF State, Seen
  <2>3. State' = [State EXCEPT ![c] = "idle"]
    BY <1>0, <2>1, <2>2, Changes
  <2>4. ~ Orderly
    BY <1>0, <2>1, ReadingText
  <2>5. Service!Lost(c)
    BY <2>1, <2>2, <2>3, <2>4 DEF Service!Lost, State
  <2> QED
    BY <2>5 DEF Service!Next
<1> QED
  BY <1>3, <1>4, <1>5, <1>6, <1>7, <1>8, <1>9 DEF Client

\* Nor is any other step.
LEMMA NextServes == IInv /\ [Next]_vars => [Service!Next]_(Service!vars)
<1> SUFFICES ASSUME IInv, [Next]_vars PROVE Service!Next \/ UNCHANGED Service!vars
  OBVIOUS
<1>1. setting' = setting
  BY SettingKept
<1>2. Orderly' <=> Orderly
  BY <1>1, OrderlySame
<1>3. CASE \E c \in Clients : Client(c)
  BY <1>2, <1>3, ClientServes
<1>4. CASE ~ \E c \in Clients : Client(c)
  <2>1. UNCHANGED <<cl, asked, got>>
    BY <1>4 DEF Next, Child, Greet, Command, ReadLine, Skip, Analyse, Leave, TimeOut, Server,
       Accept, Fork, CloseFd, Interrupt, Reap, ForkError, Terminate, Rest, vars, client
  <2> QED
    BY <1>2, <2>1 DEF Service!vars
<1> QED
  BY <1>3, <1>4

\* What the clients see of the server, its children and the alarm is a session: the
\* answer a client takes is one to a sentence it has sent and, if all is in order,
\* to the one it has just sent; nobody who asks goes away without an answer then.
THEOREM ServiceRefined == Spec => ServiceSpec
<1>1. IInv /\ [Next]_vars => [Service!Next]_(Service!vars)
  BY NextServes
<1> QED
  BY <1>1, InitService, Invariant, PTL DEF Spec, ServiceSpec, Service!Spec

\* If all is in order the answers taken are as many as the sentences sent, but for
\* the one being waited for, and the k-th is to the k-th sentence.
InOrder(c) ==
  /\ Len(got[c]) = IF State[c] = "asking" THEN asked[c] - 1 ELSE asked[c]
  /\ \A k \in 1 .. Len(got[c]) : got[c][k] = k

Counted == Orderly => \A c \in Clients : InOrder(c)

\* A step of the session keeps that.
LEMMA CountedKept ==
  ASSUME IInv, IInv', Counted, Service!Next \/ UNCHANGED Service!vars, setting' = setting
  PROVE  Counted'
<1>0. /\ asked \in [Clients -> Nat] /\ got \in [Clients -> Seq(Nat)]
      /\ asked' \in [Clients -> Nat] /\ got' \in [Clients -> Seq(Nat)]
  BY DEF IInv, Types, ClientTypes
<1>1. Orderly' <=> Orderly
  BY OrderlySame
<1>2. SUFFICES ASSUME Orderly, NEW d \in Clients PROVE InOrder(d)'
  BY <1>1 DEF Counted
<1>3. InOrder(d)
  BY <1>2 DEF Counted
<1>4. CASE UNCHANGED Service!vars
  <2>1. State' = State /\ asked' = asked /\ got' = got
    BY <1>4 DEF Service!vars, State
  <2> QED
    BY <1>3, <2>1 DEF InOrder
<1>5. ASSUME NEW c \in Clients, Service!Ask(c) \/ Service!Reply(c) \/ Service!Lost(c) \/ Service!Leave(c)
      PROVE  InOrder(d)'
  <2>1. CASE d # c
    <3>1. State'[d] = State[d] /\ asked'[d] = asked[d] /\ got'[d] = got[d]
      BY <1>0, <1>2, <1>5, <2>1 DEF Service!Ask, Service!Reply, Service!Lost, Service!Leave, State
    <3> QED
      BY <1>3, <3>1 DEF InOrder
  <2>2. CASE d = c /\ Service!Ask(c)
    <3>1. /\ State[d] = "idle" /\ State'[d] = "asking" /\ asked'[d] = asked[d] + 1 /\ got' = got
      BY <1>0, <2>2 DEF Service!Ask, State
    <3>2. asked'[d] - 1 = asked[d]
      BY <1>0, <3>1
    <3> QED
      BY <1>3, <3>1, <3>2 DEF InOrder
  <2>3. CASE d = c /\ Service!Reply(c)
    <3>1. /\ State[d] = "asking" /\ State'[d] = "idle" /\ asked' = asked
          /\ got'[d] = Append(got[d], asked[d])
      BY <1>0, <1>2, <2>3 DEF Service!Reply, State
    <3>2. PICK g \in Seq(Nat) : g = got[d]
      BY <1>0
    <3>3. PICK n \in Nat : n = asked[d]
      BY <1>0
    <3>4. Len(g) = n - 1 /\ \A k \in 1 .. Len(g) : g[k] = k
      BY <1>3, <3>1, <3>2, <3>3 DEF InOrder
    <3>5. Len(Append(g, n)) = n /\ \A k \in 1 .. n : Append(g, n)[k] = k
      BY <3>4
    <3> QED
      BY <3>1, <3>2, <3>3, <3>5 DEF InOrder
  <2>4. CASE d = c /\ Service!Lost(c)
    BY <1>2, <2>4 DEF Service!Lost
  <2>5. CASE d = c /\ Service!Leave(c)
    <3>1. State[d] = "idle" /\ State'[d] = "over" /\ asked' = asked /\ got' = got
      BY <2>5 DEF Service!Leave, State
    <3> QED
      BY <1>3, <3>1 DEF InOrder
  <2> QED
    BY <1>5, <2>1, <2>2, <2>3, <2>4, <2>5
<1> QED
  BY <1>4, <1>5 DEF Service!Next

\* In a service where all is in order, every client takes the answers to its
\* sentences in their order, one for each (the counterpart of the run
\* `empty_sentence', where a sentence without a morpheme puts them out of step).
THEOREM OrderlyInSync == Spec => [](Orderly => InSync)
<1>1. Init => Counted
  <2>1. Len(<<>>) = 0 /\ \A k \in 1 .. Len(<<>>) : FALSE
    OBVIOUS
  <2> QED
    BY <2>1 DEF Init, All, Counted, InOrder, State, Seen
<1>2. IInv /\ IInv' /\ Counted /\ [Next]_vars => Counted'
  BY NextServes, SettingKept, CountedKept
<1>3. IInv /\ Counted => (Orderly => InSync)
  <2> SUFFICES ASSUME IInv, Counted, Orderly, NEW c \in Clients, NEW k \in DOMAIN got[c]
               PROVE  got[c][k] = k
    BY DEF InSync
  <2>1. got[c] \in Seq(Nat)
    BY DEF IInv, Types, ClientTypes
  <2>2. k \in 1 .. Len(got[c])
    BY <2>1
  <2> QED
    BY <2>2 DEF Counted, InOrder
<1> QED
  BY <1>1, <1>2, <1>3, Invariant, PTL DEF Spec
=============================================================================
