------------------------------ MODULE EchoLoop ------------------------------
(***************************************************************************)
(* What the concurrent echo servers share: the loop                        *)
(*                                                                         *)
(*     do { recv; send; } while (buf[strsize - 1] != '\n');                *)
(*                                                                         *)
(* that a child process (echo_fork), a thread (echo_thread) or a member of *)
(* a pool (kadai3) runs on one accepted connection, with the clients and   *)
(* the part of the kernel around it.  The modules that extend this one     *)
(* add how a worker comes to its connection and what its death means.      *)
(***************************************************************************)
EXTENDS Integers, Sequences, FiniteSets

CONSTANTS
  Clients,
  Workers,   \* processes or threads that can run the loop
  Main,      \* the process or thread that started the server
  NOBODY,
  BUFSIZE,
  BackLog,   \* second argument of init_tcpserver
  MaxBytes   \* bound: bytes a client sends

ASSUME EchoAssumption ==
  /\ BUFSIZE \in Nat \ {0} /\ BackLog \in Nat \ {0} /\ MaxBytes \in Nat
  /\ Main \notin Workers
  /\ NOBODY \notin Clients

VARIABLES
  backlog,  \* connections completed and not accepted
  conn,     \* a client's end of its connection, as the kernel sees it
  sent,     \* history: all bytes a client sent
  inbox,    \* those of them the server has not read
  echoed,   \* the bytes sent back
  holders,  \* who has a descriptor for the server's end of a connection
  phase,    \* where each worker is
  serves,   \* its sock_accepted
  buf       \* its buf, with strsize as the length

netVars    == <<backlog, conn, sent, inbox, echoed, holders>>
workerVars == <<phase, serves, buf>>
loopVars   == <<netVars, workerVars>>

-----------------------------------------------------------------------------
Byte == [from : Clients, n : 1 .. MaxBytes, nl : BOOLEAN]

(***************************************************************************)
(* "fin": the client closed in order.  "finrst": data sent after that came *)
(* back as a reset; recv reports the end of file first and send an error.  *)
(* "rst": the client died with data it had not read.                       *)
(***************************************************************************)
ConnState == {"new", "up", "fin", "finrst", "rst"}

Phase == {"absent", "start", "accept", "recv", "send", "zombie"}

Serving(w)   == phase[w] \in {"recv", "send"}
IsOpen(c)    == holders[c] # {}
InBacklog(c) == \E i \in 1 .. Len(backlog) : backlog[i] = c
Reset(c)     == conn[c] \in {"finrst", "rst"}

\* Where c is in the course of EchoService, if held have its connection.
StageOf(c, held) ==
  IF conn[c] = "new" THEN "new"
  ELSE IF InBacklog(c) \/ held = {Main} THEN "waiting"
  ELSE IF held # {} THEN "served" ELSE "over"

LoopInit ==
  /\ backlog = <<>>
  /\ conn    = [c \in Clients |-> "new"]
  /\ sent    = [c \in Clients |-> <<>>]
  /\ inbox   = [c \in Clients |-> <<>>]
  /\ echoed  = [c \in Clients |-> <<>>]
  /\ holders = [c \in Clients |-> {}]
  /\ phase   = [w \in Workers |-> "absent"]
  /\ serves  = [w \in Workers |-> NOBODY]
  /\ buf     = [w \in Workers |-> <<>>]

-----------------------------------------------------------------------------
\* The clients, one connection each: connect, send a byte, be gone.
Connect(c) ==
  /\ conn[c] = "new" /\ Len(backlog) < BackLog
  /\ conn' = [conn EXCEPT ![c] = "up"]
  /\ backlog' = Append(backlog, c)
  /\ UNCHANGED <<sent, inbox, echoed, holders, workerVars>>

SendByte(c) ==
  /\ conn[c] = "up" /\ (IsOpen(c) \/ InBacklog(c))
  /\ Len(sent[c]) < MaxBytes
  /\ \E b \in [from : {c}, n : {Len(sent[c]) + 1}, nl : BOOLEAN] :
       /\ sent'  = [sent EXCEPT ![c] = Append(@, b)]
       /\ inbox' = [inbox EXCEPT ![c] = Append(@, b)]
  /\ UNCHANGED <<backlog, conn, echoed, holders, workerVars>>

HangUp(c) ==
  /\ conn[c] = "up" /\ (IsOpen(c) \/ InBacklog(c))
  /\ \E s \in IF echoed[c] = <<>> THEN {"fin"} ELSE {"fin", "rst"} :
       conn' = [conn EXCEPT ![c] = s]
  /\ UNCHANGED <<backlog, sent, inbox, echoed, holders, workerVars>>

-----------------------------------------------------------------------------
\* The loop, for worker w.
Least(a, b) == IF a < b THEN a ELSE b

\* Where recv puts the bytes: buf is a local variable of each worker.
RecvIntoStatic(w, data) == \* mutant: one static buf for all
  buf' = [v \in Workers |-> data]
RecvInto(w, data) ==
  buf' = [buf EXCEPT ![w] = data]

RecvFails(w) ==
  phase[w] = "recv" /\ inbox[serves[w]] = <<>> /\ conn[serves[w]] = "rst"

\* At most BUFSIZE bytes, none at the end of file.
Recv(w) ==
  LET c == serves[w]
      k == Least(BUFSIZE, Len(inbox[c]))
  IN  /\ phase[w] = "recv"
      /\ inbox[c] # <<>> \/ conn[c] \in {"fin", "finrst"}
      /\ RecvInto(w, SubSeq(inbox[c], 1, k))
      /\ inbox' = [inbox EXCEPT ![c] = SubSeq(@, k + 1, Len(@))]
      /\ phase' = [phase EXCEPT ![w] = "send"]
      /\ UNCHANGED <<backlog, conn, sent, echoed, holders, serves>>

SendFails(w) == phase[w] = "send" /\ Reset(serves[w])

\* The kernel of a client that closed may answer data with a reset.
Deliver(w) ==
  LET c == serves[w]
  IN  /\ echoed' = [echoed EXCEPT ![c] = @ \o buf[w]]
      /\ IF conn[c] = "fin" /\ buf[w] # <<>>
         THEN \E s \in {"fin", "finrst"} : conn' = [conn EXCEPT ![c] = s]
         ELSE UNCHANGED conn

\* buf[strsize - 1] == '\n'.  After an end of file it is buf[-1], which can
\* be anything.
SawNewlineAtEnd(w) == \* mutant: buf[strsize], a byte that was not received
  BOOLEAN
SawNewline(w) ==
  IF buf[w] = <<>> THEN BOOLEAN ELSE {buf[w][Len(buf[w])].nl}

SendOn(w) ==
  /\ phase[w] = "send" /\ ~Reset(serves[w])
  /\ FALSE \in SawNewline(w)
  /\ Deliver(w)
  /\ phase' = [phase EXCEPT ![w] = "recv"]
  /\ UNCHANGED <<backlog, sent, inbox, holders, serves, buf>>

\* The last send of a conversation, and close(sock_accepted).
SendLastKeepsOpen(w) == \* mutant: close forgotten
  /\ phase[w] = "send" /\ ~Reset(serves[w])
  /\ TRUE \in SawNewline(w)
  /\ Deliver(w)
  /\ UNCHANGED <<backlog, sent, inbox, holders, buf>>
SendLast(w) ==
  /\ phase[w] = "send" /\ ~Reset(serves[w])
  /\ TRUE \in SawNewline(w)
  /\ Deliver(w)
  /\ holders' = [holders EXCEPT ![serves[w]] = @ \ {w}]
  /\ UNCHANGED <<backlog, sent, inbox, buf>>

\* The descriptors of the workers in W are closed with them.
CloseAllOf(W) ==
  holders' = [c \in Clients |-> holders[c] \ W]

-----------------------------------------------------------------------------
\* While a client is served nothing it sent is lost, doubled, reordered or
\* given to another: what came back, then what its worker holds, then what
\* was not read is what it sent.
EchoIsFaithful ==
  \A w \in Workers : Serving(w) =>
    sent[serves[w]] = echoed[serves[w]]
                      \o (IF phase[w] = "send" THEN buf[w] ELSE <<>>)
                      \o inbox[serves[w]]

\* A connection is served by one worker, who alone has it open, and a
\* connection that nobody serves is closed.  Main may hold one in passing.
OneWorkerPerConnection ==
  /\ \A v, w \in Workers :
       Serving(v) /\ Serving(w) /\ serves[v] = serves[w] => v = w
  /\ \A c \in Clients :
       holders[c] \ {Main} = {w \in Workers : Serving(w) /\ serves[w] = c}
=============================================================================
