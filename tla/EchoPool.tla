------------------------------ MODULE EchoPool ------------------------------
(***************************************************************************)
(* The servers of kadai3, which create all their workers in advance:       *)
(* echo_fork.c with processes, echo_thread.c with threads, echo_server.c   *)
(* with either.  Every worker accepts on the same listening socket and     *)
(* runs the loop of EchoLoop; the main process only waits for Enter.       *)
(***************************************************************************)
EXTENDS EchoLoop

VARIABLES
  mode,  \* "Fork" or "Thread", from the options
  pc     \* of the main process: it creates workers, waits or is gone

vars == <<loopVars, mode, pc>>

Alive(w)   == phase[w] \notin {"absent", "zombie"}
SomeAlive  == \E w \in Workers : Alive(w)

\* The listening socket is open as long as a process has it.
Listening == pc # "dead" \/ SomeAlive

-----------------------------------------------------------------------------
\* The main process
Create ==
  /\ pc = "create"
  /\ \E w \in Workers :
       /\ phase[w] = "absent"
       /\ phase' = [phase EXCEPT ![w] = "accept"]
  /\ UNCHANGED <<netVars, serves, buf, mode, pc>>

AllCreated ==
  /\ pc = "create" /\ \A w \in Workers : phase[w] # "absent"
  /\ pc' = "getchar"
  /\ UNCHANGED <<loopVars, mode>>

\* All processes end: connections are closed and the queue is dropped.
EndAll ==
  /\ pc' = "dead"
  /\ phase'  = [w \in Workers |-> "absent"]
  /\ serves' = [w \in Workers |-> NOBODY]
  /\ CloseAllOf(Workers)
  /\ backlog' = <<>>
  /\ conn' = [c \in Clients |-> IF InBacklog(c) THEN "rst" ELSE conn[c]]
  /\ UNCHANGED <<sent, inbox, echoed, buf, mode>>

\* fork or pthread_create fails and the main process exits: threads end
\* with it, processes go on, if there are any.
CreateFails ==
  /\ pc = "create" /\ \E w \in Workers : phase[w] = "absent"
  /\ IF mode = "Fork" /\ SomeAlive
     THEN pc' = "dead" /\ UNCHANGED <<loopVars, mode>>
     ELSE EndAll

\* Enter: kill(0, SIGINT) reaches the processes of the group.
Stop == pc = "getchar" /\ EndAll

-----------------------------------------------------------------------------
\* A worker
AcceptInTurn(w) == \* mutant: one worker at a time is let out of accept
  /\ phase[w] = "accept" /\ backlog # <<>>
  /\ \A v \in Workers : ~Serving(v)
  /\ backlog' = Tail(backlog)
  /\ serves'  = [serves EXCEPT ![w] = Head(backlog)]
  /\ holders' = [holders EXCEPT ![Head(backlog)] = @ \cup {w}]
  /\ phase'   = [phase EXCEPT ![w] = "recv"]
  /\ UNCHANGED <<conn, sent, inbox, echoed, buf, mode, pc>>
Accept(w) ==
  /\ phase[w] = "accept" /\ backlog # <<>>
  /\ backlog' = Tail(backlog)
  /\ serves'  = [serves EXCEPT ![w] = Head(backlog)]
  /\ holders' = [holders EXCEPT ![Head(backlog)] = @ \cup {w}]
  /\ phase'   = [phase EXCEPT ![w] = "recv"]
  /\ UNCHANGED <<conn, sent, inbox, echoed, buf, mode, pc>>

WorkerRecv(w)   == Recv(w) /\ UNCHANGED <<mode, pc>>
WorkerSendOn(w) == SendOn(w) /\ UNCHANGED <<mode, pc>>

\* After the end of a conversation the worker accepts again.
DoneAndExit(w) == \* mutant: the worker serves one connection and ends
  /\ SendLast(w)
  /\ phase'  = [phase EXCEPT ![w] = "zombie"]
  /\ serves' = [serves EXCEPT ![w] = NOBODY]
  /\ UNCHANGED <<mode, pc>>
Done(w) ==
  /\ SendLast(w)
  /\ phase'  = [phase EXCEPT ![w] = "accept"]
  /\ serves' = [serves EXCEPT ![w] = NOBODY]
  /\ UNCHANGED <<mode, pc>>

\* exit_errmesg or SIGPIPE ends the process the worker is in; the last one
\* takes the listening socket with it.
FailsWithAll(w) == \* mutant: the failure of a child ends the others
  (RecvFails(w) \/ SendFails(w)) /\ EndAll
Fails(w) ==
  /\ RecvFails(w) \/ SendFails(w)
  /\ IF mode = "Fork" /\ (pc # "dead" \/ \E v \in Workers \ {w} : Alive(v))
     THEN /\ phase'  = [phase EXCEPT ![w] = "zombie"]
          /\ serves' = [serves EXCEPT ![w] = NOBODY]
          /\ CloseAllOf({w})
          /\ UNCHANGED <<backlog, conn, sent, inbox, echoed, buf, mode, pc>>
     ELSE EndAll

-----------------------------------------------------------------------------
Init == LoopInit /\ mode \in {"Fork", "Thread"} /\ pc = "create"

Worker(w) ==
  Accept(w) \/ WorkerRecv(w) \/ WorkerSendOn(w) \/ Done(w) \/ Fails(w)

Client(c) ==
  /\ (Connect(c) /\ Listening) \/ SendByte(c) \/ HangUp(c)
  /\ UNCHANGED <<mode, pc>>

Next ==
  \/ Create \/ AllCreated \/ CreateFails \/ Stop
  \/ \E w \in Workers : Worker(w)
  \/ \E c \in Clients : Client(c)

Spec == Init /\ [][Next]_vars

\* The main process creates its workers and every worker is scheduled;
\* nobody has to press Enter, to send anything or to leave.
FairSpec ==
  /\ Spec
  /\ WF_vars(Create \/ AllCreated)
  /\ \A w \in Workers : WF_vars(Worker(w))

-----------------------------------------------------------------------------
\* With processes, one client takes at most its own worker away, and only
\* by a reset of its connection; nothing but Enter ends the others.
FailureIsContained ==
  [][mode = "Fork" => \A w \in Workers :
       Alive(w) /\ ~Alive(w)' =>
         \/ /\ Serving(w) /\ Reset(serves[w])
            /\ \A v \in Workers \ {w} : Alive(v)' = Alive(v)
         \/ pc = "getchar" /\ pc' = "dead"]_vars

\* The pool does not shrink while its clients take leave in order: every
\* worker is there again after each conversation.
PoolStaysFull ==
  pc = "getchar" /\ (\A c \in Clients : ~Reset(c)) =>
    \A w \in Workers : Alive(w)

\* A connection waits in the queue only while all workers are busy.
HeadIsAccepted ==
  \A c \in Clients :
    (/\ backlog # <<>> /\ Head(backlog) = c
     /\ \E w \in Workers : phase[w] = "accept") ~> ~InBacklog(c)
-----------------------------------------------------------------------------
\* The server is an EchoService: however its workers interleave, fail and
\* are used again, no client sees more than that module allows.
Service ==
  INSTANCE EchoService
    WITH stage   <- [c \in Clients |-> StageOf(c, holders[c])],
         broken  <- {c \in Clients : Reset(c)},
         running <- Listening,
         Bytes <- Byte, Newlines <- {b \in Byte : b.nl}

ImplementsService == Service!Spec
=============================================================================
