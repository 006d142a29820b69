------------------------------ MODULE Session ------------------------------
(***************************************************************************)
(* What a client of KNP may count on (doc: the protocol of client_mode and *)
(* server_mode in system/main.c): it sends a sentence, waits for the       *)
(* answer, and goes on.  In a reliable session the answer is the one to    *)
(* the sentence just sent.  Otherwise an answer may be one written for an  *)
(* earlier sentence, or none may come.                                     *)
(***************************************************************************)
EXTENDS Naturals, Sequences

CONSTANTS Clients

VARIABLES
  reliable,  \* nothing goes wrong
  state,     \* of each client: "idle", "asking", "over"
  asked,     \* how many sentences it has sent
  got        \* for which sentence each answer it has taken was written

vars == <<reliable, state, asked, got>>

Init ==
  /\ reliable \in BOOLEAN
  /\ state = [c \in Clients |-> "idle"]
  /\ asked = [c \in Clients |-> 0]
  /\ got = [c \in Clients |-> <<>>]

Ask(c) ==
  /\ state[c] = "idle"
  /\ asked' = [asked EXCEPT ![c] = @ + 1]
  /\ state' = [state EXCEPT ![c] = "asking"]
  /\ UNCHANGED <<reliable, got>>

Reply(c) ==
  /\ state[c] = "asking"
  /\ \E n \in 1 .. asked[c] :
       /\ reliable => n = asked[c]
       /\ got' = [got EXCEPT ![c] = Append(@, n)]
  /\ state' = [state EXCEPT ![c] = "idle"]
  /\ UNCHANGED <<reliable, asked>>

\* The connection has ended: there is no answer.
Lost(c) ==
  /\ state[c] = "asking" /\ ~ reliable
  /\ state' = [state EXCEPT ![c] = "idle"]
  /\ UNCHANGED <<reliable, asked, got>>

Leave(c) ==
  /\ state[c] = "idle"
  /\ state' = [state EXCEPT ![c] = "over"]
  /\ UNCHANGED <<reliable, asked, got>>

Next == \E c \in Clients : Ask(c) \/ Reply(c) \/ Lost(c) \/ Leave(c)

Spec == Init /\ [][Next]_vars

\* Whoever asks is not left waiting.
Answered == \A c \in Clients : (state[c] = "asking") ~> (state[c] # "asking")
============================================================================
