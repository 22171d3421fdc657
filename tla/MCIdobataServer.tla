-------------------------- MODULE MCIdobataServer --------------------------
(* IdobataServer for TLC: the server's own client, one that may be killed  *)
(* and one that joins, perhaps in the place of the other.                  *)
EXTENDS IdobataServer, TLC

CONSTANTS own, a, b, n1, n2, n3

AllClients == {own, a, b}
OneOther   == {a}
ThreeNodes == {n1, n2, n3}

\* Own can go on typing after it has quit, until a send fails.
Said == [c \in AllClients |-> IF c = own THEN 4 ELSE IF c = a THEN 2 ELSE 1]
=============================================================================
