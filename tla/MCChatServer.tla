---------------------------- MODULE MCChatServer ----------------------------
(* A small instance of ChatServer. *)
EXTENDS ChatServer

CONSTANTS c1, c2, c3

AllClients == {c1, c2, c3}
OneClient  == {c1}

\* One client types a name and a line, the others one line each.
LinesOf == [c \in AllClients |-> IF c = c2 THEN 2 ELSE 1]
=============================================================================
