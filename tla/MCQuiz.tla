------------------------------- MODULE MCQuiz -------------------------------
(* A small instance of Quiz. *)
EXTENDS Quiz

CONSTANTS c1, c2

TwoClients == {c1, c2}
OneClient  == {c1}
=============================================================================
