---------------------------- MODULE EchoService ----------------------------
(***************************************************************************)
(* What the concurrent echo servers promise their clients, whoever serves  *)
(* them: each connection is waited for, served and closed at most once,    *)
(* what comes back is a beginning of what was sent, and while the server   *)
(* runs it only leaves a client that is still there when it has answered.  *)
(* Queues, workers, descriptors and buffers are those of the servers.      *)
(***************************************************************************)
EXTENDS Integers, Sequences

CONSTANTS Clients, Bytes, Newlines

VARIABLES
  stage,    \* "new", "waiting", "served" or "over", for every client
  sent,     \* the bytes of each client
  echoed,   \* the bytes sent back
  broken,   \* clients whose connection was reset
  running   \* new connections are taken

vars == <<stage, sent, echoed, broken, running>>

In(s) == {c \in Clients : stage[c] = s}

Moves(c, from, to) == stage[c] = from /\ stage' = [stage EXCEPT ![c] = to]

EndsLine(c) ==
  echoed[c] # <<>> /\ echoed[c][Len(echoed[c])] \in Newlines

\* All that was sent came back, or the last byte back ends a line.
Complete(c) ==
  echoed[c] = sent[c] \/ EndsLine(c)

-----------------------------------------------------------------------------
Init ==
  /\ stage  = [c \in Clients |-> "new"]
  /\ sent   = [c \in Clients |-> <<>>]
  /\ echoed = [c \in Clients |-> <<>>]
  /\ broken = {}
  /\ running = TRUE

Connect(c) ==
  /\ Moves(c, "new", "waiting")
  /\ UNCHANGED <<sent, echoed, broken>>

\* After the end of the last line the connection may stay open for a while,
\* and what is sent then is lost.
Send(c) ==
  /\ c \notin In("new") \cup broken
  /\ c \in In("over") => EndsLine(c)
  /\ \E b \in Bytes : sent' = [sent EXCEPT ![c] = Append(@, b)]
  /\ UNCHANGED <<stage, echoed, broken>>

Break(c) ==
  /\ c \in In("served") \cup In("over")
  /\ broken' = broken \cup {c}
  /\ UNCHANGED <<stage, sent, echoed>>

Serve(c) ==
  /\ Moves(c, "waiting", "served")
  /\ UNCHANGED <<sent, echoed, broken>>

\* More of what was sent comes back, perhaps to somebody who has gone.
Reply(c) ==
  /\ c \in In("served") \ broken
  /\ \E n \in Len(echoed[c]) .. Len(sent[c]) :
       echoed' = [echoed EXCEPT ![c] = SubSeq(sent[c], 1, n)]
  /\ broken' \in {broken, broken \cup {c}}
  /\ UNCHANGED sent

Echo(c) == Reply(c) /\ UNCHANGED stage

Finish(c) == Reply(c) /\ Complete(c)' /\ Moves(c, "served", "over")

Drop(c) ==
  /\ c \in broken /\ Moves(c, "served", "over")
  /\ UNCHANGED <<sent, echoed, broken>>

\* Nobody is left waiting; those served may be served on.
Abandon ==
  /\ \E S \in SUBSET In("served") :
       stage' = [c \in Clients |->
                   IF c \in In("waiting") \cup S THEN "over" ELSE stage[c]]
  /\ \E B \in SUBSET In("waiting") : broken' = broken \cup B
  /\ UNCHANGED <<sent, echoed>>

\* What concerns one client, and the end of the server.
Client(c) ==
  \/ running /\ Connect(c)
  \/ Send(c) \/ Break(c) \/ Serve(c) \/ Echo(c) \/ Finish(c) \/ Drop(c)

Stop == running /\ running' = FALSE /\ Abandon

Next ==
  \/ (\E c \in Clients : Client(c)) /\ UNCHANGED running
  \/ Stop

Spec == Init /\ [][Next]_vars

-----------------------------------------------------------------------------
\* What comes back is a beginning of what was sent.
EchoesABeginning ==
  \A c \in Clients :
    \E n \in 0 .. Len(sent[c]) : echoed[c] = SubSeq(sent[c], 1, n)

\* As long as the server runs, a conversation that is over was answered to
\* the end of a line or of the stream, unless the client reset it.
AnsweredInFull ==
  running => \A c \in In("over") \ broken : Complete(c)
=============================================================================
