------------------------------ MODULE ChatRoom ------------------------------
(***************************************************************************)
(* What the chat server promises, told from its clients alone: who comes,  *)
(* gives a name, is heard by everybody else and goes.  Slots, descriptors, *)
(* the mask and the order in which select reports are those of ChatServer. *)
(***************************************************************************)
EXTENDS Integers, Sequences

CONSTANT Clients

VARIABLES
  stage,    \* "away", "waiting", "in" or "gone", for every client
  up,       \* clients who have not hung up
  nick,     \* the lines a client gave as its name
  sent,     \* the number of lines a client typed
  unread,   \* those of them that were not read
  got,      \* the messages a client was shown
  running   \* the room is open

vars == <<stage, up, nick, sent, unread, got, running>>

In(s) == {c \in Clients : stage[c] = s}

Moves(c, from, to) == stage[c] = from /\ stage' = [stage EXCEPT ![c] = to]

-----------------------------------------------------------------------------
Init ==
  /\ stage  = [c \in Clients |-> "away"]
  /\ up     = {}
  /\ nick   = [c \in Clients |-> <<>>]
  /\ sent   = [c \in Clients |-> 0]
  /\ unread = [c \in Clients |-> <<>>]
  /\ got    = [c \in Clients |-> {}]
  /\ running = TRUE

Arrive(c) ==
  /\ Moves(c, "away", "waiting")
  /\ up' = up \cup {c}
  /\ UNCHANGED <<nick, sent, unread, got, running>>

Type(c) ==
  /\ c \in up /\ stage[c] \in {"waiting", "in"}
  /\ sent' = [sent EXCEPT ![c] = @ + 1]
  /\ \E b \in BOOLEAN :
       unread' = [unread EXCEPT ![c] =
                    Append(@, [from |-> c, n |-> sent[c] + 1, blank |-> b])]
  /\ UNCHANGED <<stage, up, nick, got, running>>

HangUp(c) ==
  /\ c \in up /\ stage[c] \in {"waiting", "in"}
  /\ up' = up \ {c}
  /\ UNCHANGED <<stage, nick, sent, unread, got, running>>

\* A new guest has no name and nothing said before is shown to it.
Admit(c) ==
  /\ Moves(c, "waiting", "in")
  /\ UNCHANGED <<up, nick, sent, unread, got, running>>

TurnAway(c) ==
  /\ Moves(c, "waiting", "gone")
  /\ UNCHANGED <<up, nick, sent, unread, got, running>>

\* The room ends only in the presence of a guest who has hung up.
Ends == running' = FALSE /\ In("in") \ up # {}

GoesOn == running' \/ Ends

Reads(c) ==
  /\ stage[c] = "in" /\ unread[c] # <<>>
  /\ unread' = [unread EXCEPT ![c] = <<>>]

IsEmptyLine(lines) == Len(lines) = 1 /\ lines[1].blank

Prompt(c) ==
  /\ Reads(c) /\ nick[c] = <<>> /\ IsEmptyLine(unread[c])
  /\ GoesOn
  /\ UNCHANGED <<stage, up, nick, sent, got>>

Register(c) ==
  /\ Reads(c) /\ nick[c] = <<>> /\ ~IsEmptyLine(unread[c])
  /\ nick' = [nick EXCEPT ![c] = unread[c]]
  /\ GoesOn
  /\ UNCHANGED <<stage, up, sent, got>>

Hear(S, m) ==
  got' = [c \in Clients |-> IF c \in S THEN got[c] \cup {m} ELSE got[c]]

Others(c) == (In("in") \cap up) \ {c}

\* All that a guest typed is one message, under the name it has, to all the
\* others; to some of them if the room ends with it.
Say(c) ==
  /\ Reads(c) /\ nick[c] # <<>>
  /\ LET m == [name |-> nick[c], text |-> unread[c]] IN
     \/ running' /\ Hear(Others(c), m)
     \/ Ends /\ \E S \in SUBSET Others(c) : Hear(S, m)
  /\ UNCHANGED <<stage, up, nick, sent>>

\* Who has hung up leaves when all it typed was read.
Leave(c) ==
  /\ c \notin up /\ unread[c] = <<>>
  /\ Moves(c, "in", "gone")
  /\ nick' = [nick EXCEPT ![c] = <<>>]
  /\ GoesOn
  /\ UNCHANGED <<up, sent, unread, got>>

Close ==
  Ends /\ UNCHANGED <<stage, up, nick, sent, unread, got>>

Guest(c) ==
  \/ Arrive(c) \/ Type(c) \/ HangUp(c) \/ Admit(c) \/ TurnAway(c)
  \/ Prompt(c) \/ Register(c) \/ Say(c) \/ Leave(c)

Next == running /\ ((\E c \in Clients : Guest(c)) \/ Close)

Spec == Init /\ [][Next]_vars

-----------------------------------------------------------------------------
\* Nobody is shown a line twice, in one message or in two.
EachLineOnce ==
  \A c \in Clients : \A m, k \in got[c] :
    \A i \in DOMAIN m.text, j \in DOMAIN k.text :
      m.text[i] = k.text[j] => m = k /\ i = j
=============================================================================
