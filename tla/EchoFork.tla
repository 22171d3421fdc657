------------------------------ MODULE EchoFork ------------------------------
(***************************************************************************)
(* echo_fork/echo_fork.c: the parent accepts, forks a child for every      *)
(* connection and reaps children that ended; the child runs the loop of    *)
(* EchoLoop and exits.  The workers are process identifiers, which the     *)
(* kernel uses again once a child was reaped.                              *)
(***************************************************************************)
EXTENDS EchoLoop

CONSTANT PRCS_LIMIT

ASSUME LimitAssumption == PRCS_LIMIT \in Nat \ {0}

VARIABLES
  pc,            \* the call the parent is at
  n_process,
  sock_accepted  \* of the parent

parentVars == <<pc, n_process, sock_accepted>>
vars == <<loopVars, parentVars>>

Children == {p \in Workers : phase[p] # "absent"}
Zombies  == {p \in Workers : phase[p] = "zombie"}

-----------------------------------------------------------------------------
\* The parent
Accept ==
  /\ pc = "accept" /\ backlog # <<>>
  /\ sock_accepted' = Head(backlog)
  /\ backlog' = Tail(backlog)
  /\ holders' = [holders EXCEPT ![Head(backlog)] = @ \cup {Main}]
  /\ pc' = "fork"
  /\ UNCHANGED <<conn, sent, inbox, echoed, workerVars, n_process>>

\* The child gets a copy of the descriptor.
Fork ==
  /\ pc = "fork"
  /\ \E p \in Workers \ Children :
       /\ phase'   = [phase EXCEPT ![p] = "recv"]
       /\ serves'  = [serves EXCEPT ![p] = sock_accepted]
       /\ holders' = [holders EXCEPT ![sock_accepted] = @ \cup {p}]
  /\ n_process' = n_process + 1
  /\ pc' = "close"
  /\ UNCHANGED <<backlog, conn, sent, inbox, echoed, buf, sock_accepted>>

\* The parent exits; the children stay, connections not accepted are reset.
ForkFailsGoesOn == \* mutant: the error is reported and the loop goes on
  /\ pc = "fork"
  /\ pc' = "accept"
  /\ CloseAllOf({Main})
  /\ UNCHANGED <<backlog, conn, sent, inbox, echoed, workerVars, n_process,
                 sock_accepted>>
ForkFails ==
  /\ pc = "fork"
  /\ pc' = "dead"
  /\ CloseAllOf({Main})
  /\ backlog' = <<>>
  /\ conn' = [c \in Clients |-> IF InBacklog(c) THEN "rst" ELSE conn[c]]
  /\ UNCHANGED <<sent, inbox, echoed, workerVars, n_process, sock_accepted>>

CloseForgotten == \* mutant: the parent keeps its copy
  /\ pc = "close"
  /\ pc' = IF n_process = PRCS_LIMIT THEN "wait" ELSE "reap"
  /\ UNCHANGED <<loopVars, n_process, sock_accepted>>
CloseAfterLimit == \* mutant: waits one child too late
  /\ pc = "close"
  /\ CloseAllOf({Main})
  /\ pc' = IF n_process > PRCS_LIMIT THEN "wait" ELSE "reap"
  /\ UNCHANGED <<backlog, conn, sent, inbox, echoed, workerVars, n_process,
                 sock_accepted>>
Close ==
  /\ pc = "close"
  /\ CloseAllOf({Main})
  /\ pc' = IF n_process = PRCS_LIMIT THEN "wait" ELSE "reap"
  /\ UNCHANGED <<backlog, conn, sent, inbox, echoed, workerVars, n_process,
                 sock_accepted>>

Reaped(p) == phase' = [phase EXCEPT ![p] = "absent"]

\* wait: until some child has ended.
WaitUncounted == \* mutant: n_process-- forgotten
  /\ pc = "wait"
  /\ \E p \in Zombies : Reaped(p)
  /\ pc' = "reap"
  /\ UNCHANGED <<netVars, serves, buf, n_process, sock_accepted>>
WaitForAll == \* mutant: the limit is left only when no child is left
  /\ pc = "wait"
  /\ \E p \in Zombies : Reaped(p)
  /\ n_process' = n_process - 1
  /\ pc' = IF n_process' = 0 THEN "reap" ELSE "wait"
  /\ UNCHANGED <<netVars, serves, buf, sock_accepted>>
Wait ==
  /\ pc = "wait"
  /\ \E p \in Zombies : Reaped(p)
  /\ n_process' = n_process - 1
  /\ pc' = "reap"
  /\ UNCHANGED <<netVars, serves, buf, sock_accepted>>

\* waitpid with WNOHANG, until it reports no further child.
Reap ==
  /\ pc = "reap"
  /\ \E p \in Zombies : Reaped(p)
  /\ n_process' = n_process - 1
  /\ UNCHANGED <<netVars, serves, buf, pc, sock_accepted>>

NoneToReap ==
  /\ pc = "reap" /\ Zombies = {}
  /\ pc' = "accept"
  /\ UNCHANGED <<loopVars, n_process, sock_accepted>>

-----------------------------------------------------------------------------
\* A child
Exit(p) ==
  /\ phase'  = [phase EXCEPT ![p] = "zombie"]
  /\ serves' = [serves EXCEPT ![p] = NOBODY]

ChildRecv(p)   == Recv(p) /\ UNCHANGED parentVars
ChildSendOn(p) == SendOn(p) /\ UNCHANGED parentVars
ChildDone(p)   == SendLast(p) /\ Exit(p) /\ UNCHANGED parentVars

ChildFails(p) ==
  /\ RecvFails(p) \/ SendFails(p)
  /\ Exit(p)
  /\ CloseAllOf({p})
  /\ UNCHANGED <<backlog, conn, sent, inbox, echoed, buf, parentVars>>

-----------------------------------------------------------------------------
Init ==
  /\ LoopInit
  /\ pc = "accept" /\ n_process = 0 /\ sock_accepted = NOBODY

Parent == Accept \/ Fork \/ ForkFails \/ Close \/ Wait \/ Reap \/ NoneToReap

Child(p) == ChildRecv(p) \/ ChildSendOn(p) \/ ChildDone(p) \/ ChildFails(p)

Client(c) ==
  /\ (Connect(c) /\ pc # "dead") \/ SendByte(c) \/ HangUp(c)
  /\ UNCHANGED parentVars

Next ==
  \/ Parent
  \/ \E p \in Workers : Child(p)
  \/ \E c \in Clients : Client(c)

Spec == Init /\ [][Next]_vars

\* Every process is scheduled; a client need not do anything.
FairSpec ==
  Spec /\ WF_vars(Parent) /\ \A p \in Workers : WF_vars(Child(p))

-----------------------------------------------------------------------------
\* n_process is the number of children that were not reaped: no exit is
\* counted twice or missed, in the blocking wait or in the loop after it.
CountIsExact == n_process = Cardinality(Children)

\* There are never more than PRCS_LIMIT children, and when the parent
\* accepts there is room for one more, so that the test of the limit by
\* "==" cannot be jumped over.
LimitIsKept ==
  /\ n_process <= PRCS_LIMIT
  /\ pc \in {"accept", "fork"} => n_process < PRCS_LIMIT

\* The parent has no connection open but the one it is handing over: when
\* the child closes it, the client sees the end.
ParentKeepsNothing ==
  \A c \in Clients :
    Main \in holders[c] => pc \in {"fork", "close"} /\ c = sock_accepted

\* A child that ended lets the parent out of its wait and back to accept,
\* however the others go on.
WaitEnds ==
  (pc \in {"wait", "reap"} /\ Zombies # {}) ~> (pc = "accept")

\* What a client sends is read by its child, or the conversation is over.
BytesAreRead ==
  \A c \in Clients :
    (\E p \in Workers : Serving(p) /\ serves[p] = c /\ inbox[c] # <<>>)
      ~> (inbox[c] = <<>> \/ ~IsOpen(c))
-----------------------------------------------------------------------------
\* A connection counts as handed over with the fork: from then on the
\* parent's copy is not used, and its next call closes it.
InUse == [c \in Clients |-> IF pc = "close" THEN holders[c] \ {Main}
                                            ELSE holders[c]]

\* The server is an EchoService: however its workers interleave, fail and
\* are used again, no client sees more than that module allows.
Service ==
  INSTANCE EchoService
    WITH stage   <- [c \in Clients |-> StageOf(c, InUse[c])],
         broken  <- {c \in Clients : Reset(c)},
         running <- (pc # "dead"),
         Bytes <- Byte, Newlines <- {b \in Byte : b.nl}

ImplementsService == Service!Spec
=============================================================================
