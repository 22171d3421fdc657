----------------------------- MODULE ChatServer -----------------------------
(***************************************************************************)
(* The select() chat server of chat-server/chat_server.c together with     *)
(* the part of the kernel it depends on (the accept queue, the descriptor  *)
(* table, what a socket reports to select, recv and send) and the clients  *)
(* of chat-server/chat_client.c, who connect, type lines and are killed.   *)
(*                                                                         *)
(* Server identifiers keep their C names.  A step of the server runs from  *)
(* one system call that can wait to the next one: the broadcasts that      *)
(* follow a recv are part of its step, for each of them commutes with      *)
(* anything a client may do in between.                                    *)
(***************************************************************************)
EXTENDS Integers, Sequences, FiniteSets

CONSTANTS
  Clients,     \* client processes; each makes one connection
  Max_client,  \* slots of the server (option -c)
  SOCK_LISTEN, \* the listening descriptor
  Backlog,     \* length of the accept queue (second argument of listen)
  Leavers,     \* the clients that may be killed
  MaxLines,    \* bound: the number of lines each client types
  NOBODY       \* owner of a descriptor that is not open

ASSUME ChatAssumption ==
  /\ Max_client \in Nat \ {0}
  /\ SOCK_LISTEN \in Nat
  /\ Backlog \in Nat \ {0}
  /\ MaxLines \in [Clients -> Nat]
  /\ Leavers \subseteq Clients
  /\ NOBODY \notin Clients

VARIABLES
  \* the network and the kernel
  backlog,     \* connections the kernel completed and nobody accepted yet
  conn,        \* a client's end of its connection, as the kernel sees it
  inbox,       \* lines that arrived on a connection and were not read
  fd,          \* descriptor table: the client behind each descriptor
  \* the clients
  sent,        \* number of lines a client typed
  got,         \* chat messages a client received
  \* the server
  pc,          \* the call the server is at
  client_id,   \* the loop variable of the scan
  sock,        \* Client[..].sock
  name,        \* Client[..].name, as the lines it was made from
  Cnt_client,
  Max_sd,
  mask,
  readfds

netVars    == <<backlog, conn, inbox, fd>>
clientVars == <<sent, got>>
serverVars == <<pc, client_id, sock, name, Cnt_client, Max_sd, mask, readfds>>
vars       == <<netVars, clientVars, serverVars>>

-----------------------------------------------------------------------------
Slots == 0 .. Max_client - 1

Occupied == {i \in Slots : sock[i] # -1}

\* Every slot may hold a descriptor and a refused connection holds one more.
Fds == SOCK_LISTEN + 1 .. SOCK_LISTEN + Max_client + 1

(***************************************************************************)
(* "fin" is a connection whose client closed in order; data sent to it is  *)
(* answered by a reset and it becomes "finrst".  "rst" is a connection     *)
(* whose client died with unread data, which the kernel resets.            *)
(***************************************************************************)
ConnState == {"new", "up", "fin", "finrst", "rst"}

Line    == [from : Clients, n : Nat, blank : BOOLEAN]
Message == [name : Seq(Line), text : Seq(Line)]

IsOpen(c)    == \E f \in Fds : fd[f] = c
InBacklog(c) == \E i \in 1 .. Len(backlog) : backlog[i] = c
Reset(c)     == conn[c] \in {"finrst", "rst"}

\* recv on this connection would not wait.
Readable(c) == inbox[c] # <<>> \/ conn[c] \in {"fin", "finrst", "rst"}

Ready(f) ==
  IF f = SOCK_LISTEN THEN backlog # <<>>
                     ELSE fd[f] # NOBODY /\ Readable(fd[f])

\* The descriptors of the mask that are closed: select fails on them.
Stale == {f \in mask \ {SOCK_LISTEN} : fd[f] = NOBODY}

\* What the kernel gives to the next accept().
IsLowestFree(f) ==
  /\ f \in Fds /\ fd[f] = NOBODY
  /\ \A g \in Fds : fd[g] = NOBODY => f <= g

-----------------------------------------------------------------------------
(***************************************************************************)
(* The clients                                                             *)
(***************************************************************************)
\* connect() completes as soon as there is room in the accept queue.
Connect(c) ==
  /\ pc # "dead"
  /\ conn[c] = "new" /\ Len(backlog) < Backlog
  /\ conn' = [conn EXCEPT ![c] = "up"]
  /\ backlog' = Append(backlog, c)
  /\ UNCHANGED <<inbox, fd, clientVars, serverVars>>

\* A line is typed and sent; the empty line is sent too, as "\n".
SendLine(c) ==
  /\ pc # "dead"
  /\ conn[c] = "up" /\ (IsOpen(c) \/ InBacklog(c))
  /\ sent[c] < MaxLines[c]
  /\ sent' = [sent EXCEPT ![c] = @ + 1]
  /\ \E b \in BOOLEAN :
       inbox' = [inbox EXCEPT ![c] =
                   Append(@, [from |-> c, n |-> sent[c] + 1, blank |-> b])]
  /\ UNCHANGED <<backlog, conn, fd, got, serverVars>>

\* A client is killed.  With data it had not read (the server has sent it
\* something once it is accepted) the kernel resets the connection.
Leave(c) ==
  /\ pc # "dead"
  /\ c \in Leavers /\ conn[c] = "up" /\ (IsOpen(c) \/ InBacklog(c))
  /\ \E s \in IF IsOpen(c) THEN {"fin", "rst"} ELSE {"fin"} :
       conn' = [conn EXCEPT ![c] = s]
  /\ UNCHANGED <<backlog, inbox, fd, clientVars, serverVars>>

-----------------------------------------------------------------------------
(***************************************************************************)
(* The server                                                              *)
(***************************************************************************)
(***************************************************************************)
(* select() on a copy of the mask.  When the mask holds a closed           *)
(* descriptor the call fails at once and leaves the copy as it is, and the *)
(* result is not looked at; otherwise it waits until a descriptor below    *)
(* Max_sd + 1 is ready.                                                    *)
(***************************************************************************)
SelectReadfds ==
  IF Stale # {}
  THEN readfds' = mask
  ELSE /\ readfds' = {f \in mask : f <= Max_sd /\ Ready(f)}
       /\ readfds' # {}

\* pc and client_id after the body of the scan ran for the current slot.
NextSlot ==
  IF client_id + 1 < Max_client
  THEN pc' = "scan" /\ client_id' = client_id + 1
  ELSE pc' = "select" /\ client_id' = 0

\* The test in front of the full branch.
FullIfOver(ready) == \* mutant: > for >=
  Cnt_client > Max_client /\ SOCK_LISTEN \in ready
FullUnasked(ready) == \* mutant: FD_ISSET of the listening socket dropped
  Cnt_client >= Max_client
MustRefuse(ready) ==
  Cnt_client >= Max_client /\ SOCK_LISTEN \in ready

Select ==
  /\ pc = "select"
  /\ SelectReadfds
  /\ pc' = IF MustRefuse(readfds') THEN "refuse" ELSE "scan"
  /\ UNCHANGED <<netVars, clientVars, client_id, sock, name, Cnt_client,
                 Max_sd, mask>>

\* accept, "This server is full." and close; the descriptor is free again.
RefuseWhenFull ==
  /\ pc = "refuse"
  /\ backlog # <<>>
  /\ backlog' = Tail(backlog)
  /\ pc' = "scan"
  /\ UNCHANGED <<conn, inbox, fd, clientVars, client_id, sock, name,
                 Cnt_client, Max_sd, mask, readfds>>

\* A slot with nothing to do.
SkipSlot ==
  /\ pc = "scan"
  /\ IF sock[client_id] = -1 THEN SOCK_LISTEN \notin readfds
                             ELSE sock[client_id] \notin readfds
  /\ NextSlot
  /\ UNCHANGED <<netVars, clientVars, sock, name, Cnt_client, Max_sd, mask,
                 readfds>>

\* What becomes of a connection the server writes to: the client that has
\* closed answers with a reset, which may arrive before the next call.
WriteTo(S) ==
  \E R \in SUBSET {c \in S : conn[c] = "fin"} :
    conn' = [c \in Clients |-> IF c \in R THEN "finrst" ELSE conn[c]]

setMax_sdReversed(num) == \* mutant: the comparison the other way round
  Max_sd' = IF num < Max_sd THEN num ELSE Max_sd
setMax_sd(num) ==
  Max_sd' = IF num > Max_sd THEN num ELSE Max_sd

\* client_join in a free slot: the prompt is sent and the mask extended.
ClientJoin ==
  /\ pc = "scan"
  /\ sock[client_id] = -1 /\ SOCK_LISTEN \in readfds
  /\ backlog # <<>>
  /\ backlog' = Tail(backlog)
  /\ \E f \in Fds :
       /\ IsLowestFree(f)
       /\ fd' = [fd EXCEPT ![f] = Head(backlog)]
       /\ sock' = [sock EXCEPT ![client_id] = f]
       /\ setMax_sd(f)
       /\ mask' = mask \cup {f}
  /\ WriteTo({Head(backlog)})
  /\ Cnt_client' = Cnt_client + 1
  /\ pc' = "reselect"
  /\ UNCHANGED <<inbox, clientVars, client_id, name, readfds>>

\* The select inside the scan.  CLIENT_SOCK was read before the join, so
\* the new client is not served in this round.
ReselectNotDone == \* mutant: readfds = mask without the select after it
  /\ pc = "reselect"
  /\ readfds' = mask
  /\ NextSlot
  /\ UNCHANGED <<netVars, clientVars, sock, name, Cnt_client, Max_sd, mask>>
Reselect ==
  /\ pc = "reselect"
  /\ SelectReadfds
  /\ NextSlot
  /\ UNCHANGED <<netVars, clientVars, sock, name, Cnt_client, Max_sd, mask>>

\* The scan is at a slot that the last select reported; c is its client.
ReceivingUnasked(c) == \* mutant: FD_ISSET of the client dropped
  /\ pc = "scan"
  /\ sock[client_id] # -1
  /\ fd[sock[client_id]] = c
Receiving(c) ==
  /\ pc = "scan"
  /\ sock[client_id] # -1
  /\ sock[client_id] \in readfds
  /\ fd[sock[client_id]] = c

\* The slots send_chat_message writes to: everybody but from (-1 is nobody).
RecipientsBefore(from) == \* mutant: the loop ends at the sender
  {i \in Slots : sock[i] # -1 /\ (from = -1 \/ i < from)}
Recipients(from) ==
  {i \in Slots : sock[i] # -1 /\ i # from}

(***************************************************************************)
(* send_chat_message to the slots of S in ascending order.  The first send *)
(* on a connection that was reset ends the process (the error of send, or  *)
(* SIGPIPE); the slots below it have got the message.  M is {} for a       *)
(* notice of the server, which the model does not record.                  *)
(***************************************************************************)
Broadcast(S, M) ==
  LET dying   == {i \in S : Reset(fd[sock[i]])}
      reached == {i \in S : \A j \in dying : i < j}
      to      == {fd[sock[i]] : i \in reached}
  IN  /\ WriteTo(to)
      /\ got' = [c \in Clients |->
                   IF c \in to /\ conn[c] = "up" THEN got[c] \cup M
                                                 ELSE got[c]]
      /\ IF dying = {} THEN NextSlot
                       ELSE pc' = "dead" /\ UNCHANGED client_id

\* recv returns all that has arrived as one buffer.
Recv(c) == inbox' = [inbox EXCEPT ![c] = <<>>]

IsEmptyLine(buf) == Len(buf) = 1 /\ buf[1].blank

\* The empty line is no name: the prompt is sent again.
PromptAgain(c) ==
  /\ Receiving(c)
  /\ inbox[c] # <<>> /\ name[client_id] = <<>> /\ IsEmptyLine(inbox[c])
  /\ Recv(c)
  /\ IF Reset(c) THEN pc' = "dead" /\ UNCHANGED client_id ELSE NextSlot
  /\ WriteTo({c})
  /\ UNCHANGED <<backlog, fd, clientVars, sock, name, Cnt_client, Max_sd,
                 mask, readfds>>

\* set_client_name: the buffer becomes the name and everybody is told.
SetClientName(c) ==
  /\ Receiving(c)
  /\ inbox[c] # <<>> /\ name[client_id] = <<>> /\ ~IsEmptyLine(inbox[c])
  /\ Recv(c)
  /\ name' = [name EXCEPT ![client_id] = inbox[c]]
  /\ Broadcast(Recipients(-1), {})
  /\ UNCHANGED <<backlog, fd, sent, sock, Cnt_client, Max_sd, mask, readfds>>

\* A buffer from a client with a name is sent to everyone else.
RelayChat(c) ==
  /\ Receiving(c)
  /\ inbox[c] # <<>> /\ name[client_id] # <<>>
  /\ Recv(c)
  /\ Broadcast(Recipients(client_id),
               {[name |-> name[client_id], text |-> inbox[c]]})
  /\ UNCHANGED <<backlog, fd, sent, sock, name, Cnt_client, Max_sd, mask,
                 readfds>>

\* client_exit closes the descriptor and frees the slot; no FD_CLR.
ReleaseKeepsName == \* mutant: the name stays in the slot
  /\ fd' = [fd EXCEPT ![sock[client_id]] = NOBODY]
  /\ sock' = [sock EXCEPT ![client_id] = -1]
  /\ Cnt_client' = Cnt_client - 1
  /\ UNCHANGED <<name, mask>>
ReleaseOpen == \* mutant: close forgotten
  /\ sock' = [sock EXCEPT ![client_id] = -1]
  /\ name' = [name EXCEPT ![client_id] = <<>>]
  /\ Cnt_client' = Cnt_client - 1
  /\ UNCHANGED <<fd, mask>>
ReleaseHoldsSock == \* mutant: the slot keeps the closed descriptor
  /\ fd' = [fd EXCEPT ![sock[client_id]] = NOBODY]
  /\ name' = [name EXCEPT ![client_id] = <<>>]
  /\ Cnt_client' = Cnt_client - 1
  /\ UNCHANGED <<sock, mask>>
ReleaseSlot ==
  /\ fd' = [fd EXCEPT ![sock[client_id]] = NOBODY]
  /\ sock' = [sock EXCEPT ![client_id] = -1]
  /\ name' = [name EXCEPT ![client_id] = <<>>]
  /\ Cnt_client' = Cnt_client - 1
  /\ UNCHANGED mask

\* End of file: the client leaves and the others are told.
ClientExit(c) ==
  /\ Receiving(c)
  /\ inbox[c] = <<>> /\ conn[c] \in {"fin", "finrst"}
  /\ ReleaseSlot
  /\ Broadcast(Recipients(client_id), {})
  /\ UNCHANGED <<backlog, inbox, sent, Max_sd, readfds>>

\* recv returns -1 on a reset connection and the wrapper ends the process.
RecvFails(c) ==
  /\ Receiving(c)
  /\ inbox[c] = <<>> /\ conn[c] = "rst"
  /\ pc' = "dead"
  /\ UNCHANGED <<netVars, clientVars, client_id, sock, name, Cnt_client,
                 Max_sd, mask, readfds>>

-----------------------------------------------------------------------------
Init ==
  /\ backlog = <<>>
  /\ conn  = [c \in Clients |-> "new"]
  /\ inbox = [c \in Clients |-> <<>>]
  /\ fd    = [f \in Fds |-> NOBODY]
  /\ sent  = [c \in Clients |-> 0]
  /\ got   = [c \in Clients |-> {}]
  /\ pc = "select"
  /\ client_id = 0
  /\ sock = [i \in Slots |-> -1]
  /\ name = [i \in Slots |-> <<>>]
  /\ Cnt_client = 0
  /\ Max_sd = SOCK_LISTEN
  /\ mask = {SOCK_LISTEN}
  /\ readfds = {}

Serve(c) ==
  \/ PromptAgain(c)
  \/ SetClientName(c)
  \/ RelayChat(c)
  \/ ClientExit(c)
  \/ RecvFails(c)

Server ==
  \/ Select
  \/ RefuseWhenFull
  \/ SkipSlot
  \/ ClientJoin
  \/ Reselect
  \/ \E c \in Clients : Serve(c)

Environment ==
  \E c \in Clients : Connect(c) \/ SendLine(c) \/ Leave(c)

Next == Server \/ Environment

Spec == Init /\ [][Next]_vars

\* The server process is scheduled; nobody has to connect, type or leave.
FairSpec == Spec /\ WF_vars(Server)

-----------------------------------------------------------------------------
(***************************************************************************)
(* Types                                                                   *)
(***************************************************************************)
TypeOK ==
  /\ backlog \in Seq(Clients)
  /\ conn  \in [Clients -> ConnState]
  /\ inbox \in [Clients -> Seq(Line)]
  /\ fd    \in [Fds -> Clients \cup {NOBODY}]
  /\ sent  \in [Clients -> Nat]
  /\ got   \in [Clients -> SUBSET Message]
  /\ pc \in {"select", "refuse", "scan", "reselect", "dead"}
  /\ client_id \in Slots
  /\ sock \in [Slots -> Fds \cup {-1}]
  /\ name \in [Slots -> Seq(Line)]
  /\ Cnt_client \in Int
  /\ Max_sd \in Fds \cup {SOCK_LISTEN}
  /\ mask    \in SUBSET (Fds \cup {SOCK_LISTEN})
  /\ readfds \in SUBSET (Fds \cup {SOCK_LISTEN})

(***************************************************************************)
(* Safety                                                                  *)
(***************************************************************************)
\* A slot that is in use holds an open descriptor that select watches, and
\* no two slots hold the same one (client_join, setMax_sd, the FD_SET that
\* follows, close in client_exit).
SlotsAreWatched ==
  /\ \A i \in Occupied :
       fd[sock[i]] # NOBODY /\ sock[i] \in mask
  /\ \A i, j \in Occupied : sock[i] = sock[j] => i = j
  /\ \A f \in mask : f <= Max_sd

\* No descriptor leaks and no connection is held twice: an open descriptor
\* is some slot's, and a client has one descriptor or one place in the
\* accept queue.
OneHandlePerClient ==
  /\ \A f \in Fds : fd[f] # NOBODY => \E i \in Slots : sock[i] = f
  /\ \A f, g \in Fds : fd[f] = fd[g] /\ fd[f] # NOBODY => f = g
  /\ \A c \in Clients : ~(IsOpen(c) /\ InBacklog(c))
  /\ \A i, j \in 1 .. Len(backlog) : backlog[i] = backlog[j] => i = j

\* A chat line is shown under a name that the same client registered before
\* it, and never to its sender, even when a slot or a descriptor is
\* used again (the reset of name in client_exit, the test in
\* send_chat_message).
ChatUnderOwnName ==
  \A c \in Clients : \A m \in got[c] :
    /\ m.name # <<>>
    /\ \A i \in 1 .. Len(m.name) : \A j \in 1 .. Len(m.text) :
         /\ m.name[i].from = m.text[j].from
         /\ m.name[i].n < m.text[j].n
         /\ m.text[j].from # c

\* What a client with a name says reaches every other client that is there
\* when the server has read it, unless the server dies on the way.
Named(c) == \E i \in Occupied : fd[sock[i]] = c /\ name[i] # <<>>
ChatReachesTheOthers ==
  [][\A c, d \in Clients :
       (/\ Named(c) /\ inbox[c] # <<>> /\ inbox'[c] = <<>> /\ pc' # "dead"
        /\ d # c /\ IsOpen(d) /\ conn[d] = "up")
       => \E m \in got'[d] : m.text = inbox[c]]_vars

\* "A client's data has arrived, so receive it" (chat_server.c:89): recv
\* is called only on a socket that has something to say.
RecvNeverWaits ==
  \A c \in Clients : Receiving(c) => Readable(c)

\* Once a client has left, its descriptor may be in the mask for ever.
SomebodyLeft == \E c \in Clients : conn[c] \notin {"new", "up"}

\* Until somebody leaves the comment is right, although readfds changes in
\* the middle of the scan (the select behind client_join).
RecvOnlyWhenReady == SomebodyLeft \/ RecvNeverWaits

\* No accept waits.  In a free slot there is a connection until somebody
\* leaves (chat_server.c:72).  When the server is full there always is one,
\* although the mask may have held closed descriptors in the past: a full
\* server has used them all again (chat_server.c:60-63).
AcceptNeverWaits ==
  /\ pc = "refuse" => Stale = {} /\ backlog # <<>>
  /\ pc = "scan" /\ sock[client_id] = -1 /\ SOCK_LISTEN \in readfds
       => backlog # <<>> \/ SomebodyLeft

(***************************************************************************)
(* Liveness, until somebody leaves                                         *)
(***************************************************************************)
\* What an accepted client sends is read.
LinesAreRead ==
  \A c \in Clients :
    (IsOpen(c) /\ inbox[c] # <<>>) ~> (inbox[c] = <<>> \/ SomebodyLeft)

\* A connection is accepted or refused.
ConnectionsAreAnswered ==
  \A c \in Clients : InBacklog(c) ~> (~InBacklog(c) \/ SomebodyLeft)
-----------------------------------------------------------------------------
(***************************************************************************)
(* The server is a ChatRoom: slots and descriptors that are used again,    *)
(* the mask and the order of the scan are not seen by a client.            *)
(***************************************************************************)
StageOf(c) ==
  IF conn[c] = "new" THEN "away"
  ELSE IF InBacklog(c) THEN "waiting"
  ELSE IF IsOpen(c) THEN "in" ELSE "gone"

SlotsOf(c) == {i \in Occupied : fd[sock[i]] = c}
NickOf(c)  == IF SlotsOf(c) = {} THEN <<>>
              ELSE name[CHOOSE i \in SlotsOf(c) : TRUE]

Room ==
  INSTANCE ChatRoom
    WITH stage <- [c \in Clients |-> StageOf(c)],
         up <- {c \in Clients : conn[c] = "up"},
         nick <- [c \in Clients |-> NickOf(c)],
         unread <- inbox,
         running <- (pc # "dead")

ImplementsRoom == Room!Spec
=============================================================================
