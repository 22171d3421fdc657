----------------------------- MODULE MCEchoFork -----------------------------
(* A small instance of EchoFork. *)
EXTENDS EchoFork

CONSTANTS c1, c2, p1, p2

TwoClients == {c1, c2}
TwoPids    == {p1, p2}
=============================================================================
