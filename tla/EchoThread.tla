----------------------------- MODULE EchoThread -----------------------------
(***************************************************************************)
(* echo_thread/echo_thread.c: the main thread accepts and creates a thread *)
(* for every connection.  The descriptor is handed over in a cell of the   *)
(* heap that the main thread allocates and the new thread frees, for       *)
(* sock_accepted is overwritten by the next accept.                        *)
(***************************************************************************)
EXTENDS EchoLoop

CONSTANTS Cells, NULL

VARIABLES
  pc,             \* the call the main thread is at
  sock_accepted,
  tharg,
  heap,           \* the descriptor in each cell
  allocated,      \* cells that were not freed
  arg             \* the argument each thread was created with

mainVars == <<pc, sock_accepted, tharg, heap, allocated, arg>>
vars == <<loopVars, mainVars>>

-----------------------------------------------------------------------------
\* The main thread
Accept ==
  /\ pc = "accept" /\ backlog # <<>>
  /\ sock_accepted' = Head(backlog)
  /\ backlog' = Tail(backlog)
  /\ holders' = [holders EXCEPT ![Head(backlog)] = @ \cup {Main}]
  /\ pc' = "malloc"
  /\ UNCHANGED <<conn, sent, inbox, echoed, workerVars, tharg, heap,
                 allocated, arg>>

MallocStatic == \* mutant: the address of one variable for all threads
  /\ pc = "malloc"
  /\ LET a == CHOOSE a \in Cells : TRUE
     IN  /\ tharg' = a
         /\ allocated' = allocated \cup {a}
         /\ heap' = [heap EXCEPT ![a] = sock_accepted]
  /\ pc' = "create"
  /\ UNCHANGED <<loopVars, sock_accepted, arg>>
Malloc ==
  /\ pc = "malloc"
  /\ \E a \in Cells \ allocated :
       /\ tharg' = a
       /\ allocated' = allocated \cup {a}
       /\ heap' = [heap EXCEPT ![a] = sock_accepted]
  /\ pc' = "create"
  /\ UNCHANGED <<loopVars, sock_accepted, arg>>

Create ==
  /\ pc = "create"
  /\ \E t \in Workers :
       /\ phase[t] = "absent"
       /\ phase' = [phase EXCEPT ![t] = "start"]
       /\ arg' = [arg EXCEPT ![t] = tharg]
  /\ pc' = "accept"
  /\ UNCHANGED <<netVars, serves, buf, sock_accepted, tharg, heap,
                 allocated>>

\* exit ends every thread, closes every connection and drops the queue.
Die ==
  /\ pc' = "dead"
  /\ phase'  = [t \in Workers |-> "absent"]
  /\ serves' = [t \in Workers |-> NOBODY]
  /\ holders' = [c \in Clients |-> {}]
  /\ backlog' = <<>>
  /\ conn' = [c \in Clients |-> IF InBacklog(c) THEN "rst" ELSE conn[c]]
  /\ UNCHANGED <<sent, inbox, echoed, buf, sock_accepted, tharg, heap,
                 allocated, arg>>

NoMemoryOrThread == pc \in {"malloc", "create"} /\ Die

-----------------------------------------------------------------------------
\* A thread
Start(t) ==
  LET c == heap[arg[t]]
  IN  /\ phase[t] = "start"
      /\ serves' = [serves EXCEPT ![t] = c]
      /\ holders' = [holders EXCEPT ![c] = (@ \ {Main}) \cup {t}]
      /\ allocated' = allocated \ {arg[t]}
      /\ arg' = [arg EXCEPT ![t] = NULL]
      /\ phase' = [phase EXCEPT ![t] = "recv"]
      /\ UNCHANGED <<backlog, conn, sent, inbox, echoed, buf, pc,
                     sock_accepted, tharg, heap>>

ThreadRecv(t)   == Recv(t) /\ UNCHANGED mainVars
ThreadSendOn(t) == SendOn(t) /\ UNCHANGED mainVars
ThreadDone(t) ==
  /\ SendLast(t)
  /\ phase'  = [phase EXCEPT ![t] = "absent"]
  /\ serves' = [serves EXCEPT ![t] = NOBODY]
  /\ UNCHANGED mainVars
ThreadFails(t)  == (RecvFails(t) \/ SendFails(t)) /\ Die

-----------------------------------------------------------------------------
Init ==
  /\ LoopInit
  /\ pc = "accept" /\ sock_accepted = NOBODY /\ tharg = NULL
  /\ heap = [a \in Cells |-> NOBODY]
  /\ allocated = {}
  /\ arg = [t \in Workers |-> NULL]

MainThread == Accept \/ Malloc \/ Create \/ NoMemoryOrThread

Thread(t) ==
  Start(t) \/ ThreadRecv(t) \/ ThreadSendOn(t) \/ ThreadDone(t) \/ ThreadFails(t)

Client(c) ==
  /\ (Connect(c) /\ pc # "dead") \/ SendByte(c) \/ HangUp(c)
  /\ UNCHANGED mainVars

Next ==
  \/ MainThread
  \/ \E t \in Workers : Thread(t)
  \/ \E c \in Clients : Client(c)

Spec == Init /\ [][Next]_vars

-----------------------------------------------------------------------------
\* The hand-over: a connection that no thread serves yet is either the one
\* main has just accepted or lies in the cell of exactly one thread about
\* to start, and the thread will read it before it is freed.  No other cell
\* is allocated but one that main is about to give away: none is lost.
HandedOverOnce ==
  LET Starting  == {t \in Workers : phase[t] = "start"}
      Coming(c) == {t \in Starting : heap[arg[t]] = c}
      AtMain(c) == pc \in {"malloc", "create"} /\ sock_accepted = c
  IN  /\ \A c \in Clients :
           IF Main \in holders[c] /\ ~AtMain(c)
           THEN Cardinality(Coming(c)) = 1
           ELSE Coming(c) = {}
      /\ pc # "dead" =>
           allocated = {arg[t] : t \in Starting}
                       \cup (IF pc = "create" THEN {tharg} ELSE {})
-----------------------------------------------------------------------------
\* The server is an EchoService: however its workers interleave, fail and
\* are used again, no client sees more than that module allows.
Service ==
  INSTANCE EchoService
    WITH stage   <- [c \in Clients |-> StageOf(c, holders[c])],
         broken  <- {c \in Clients : Reset(c)},
         running <- (pc # "dead"),
         Bytes <- Byte, Newlines <- {b \in Byte : b.nl}

ImplementsService == Service!Spec
=============================================================================
