----------------------------- MODULE MCEchoPool -----------------------------
(* A small instance of EchoPool. *)
EXTENDS EchoPool

CONSTANTS c1, c2, w1, w2

TwoClients == {c1, c2}
TwoWorkers == {w1, w2}
=============================================================================
