--------------------------- MODULE MCIdobataPeers ---------------------------
(* Small instances of IdobataPeers. *)
EXTENDS IdobataPeers

CONSTANTS p1, p2, e1

TwoPrograms == {p1, p2}
OneEchoer   == {e1}
None        == {}
WholeHeader == {9}
=============================================================================
