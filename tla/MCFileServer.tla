---------------------------- MODULE MCFileServer ----------------------------
(* A small instance of FileServer. *)
EXTENDS FileServer

CONSTANTS c1, c2, c3, a, t, x

ThreeClients == {c1, c2, c3}
AllChars     == {a, t, x, NUL, CR, LF, SP}
ExitWord     == <<x, t>>
TypeWord     == <<t>>

TypeLine == <<t, SP, x, t, CR, LF>> \* "type exit"
ExitLine == <<x, t, CR, LF>>        \* "exit", and the password of most runs
Part     == <<x>>                   \* the beginning of "exit"

\* One client sends all of them, the other two log in at most.
SomeSegments ==
  [c \in ThreeClients |-> IF c = c2 THEN {TypeLine, ExitLine, Part}
                                    ELSE {ExitLine}]
Counts == [c \in ThreeClients |-> IF c = c2 THEN 3 ELSE 1]

\* r_buf is not cleared when the program starts.
OldText == {ExitWord}
=============================================================================
