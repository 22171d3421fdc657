---------------------------- MODULE MCEchoThread ----------------------------
(* A small instance of EchoThread. *)
EXTENDS EchoThread, TLC

CONSTANTS c1, c2, c3, t1, t2, a1, a2

ThreeClients == {c1, c2, c3}
TwoThreads   == {t1, t2}
TwoCells     == {a1, a2}

Symmetry ==
  Permutations(Clients) \cup Permutations(Workers) \cup Permutations(TwoCells)
=============================================================================
