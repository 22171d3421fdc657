--------------------------- MODULE IdobataServer ---------------------------
(***************************************************************************)
(* The server of the idobata meeting, idobata2/idobata_server.c, over the  *)
(* member list of module MemberList.  The program is a client of itself:   *)
(* Own is the connection that join_server opened to the server's own port, *)
(* and the server writes to it what is typed at its keyboard.              *)
(*                                                                         *)
(* transfer_message and delete_user call each other: transfer_message      *)
(* deletes a member whose connection is broken, and delete_user tells all  *)
(* members about it.  Their calls are frames on a stack.                   *)
(*                                                                         *)
(* A string in a packet is not modelled: a packet is its type and number.  *)
(* Text is what a client posted; the notices of the server carry NULL.     *)
(***************************************************************************)
EXTENDS Integers, Sequences, FiniteSets, SequencesExt

CONSTANTS
  Clients,  \* the programs that may join, each over one connection
  Own,      \* the server itself as a client
  Leavers,  \* the clients that may be killed
  MaxSaid,  \* bound: packets each client sends
  MaxDepth, \* bound: calls of delete_user that fit on the stack
  Nodes, NULL, GARBAGE

KEYBOARD == 0
UDP      == 3 \* server_udp_sock
TCP      == 4 \* server_tcp_sock
OWN      == 5 \* client_tcp_sock, the client's end of Own
FROM_SERVER == -1

\* The descriptors of accepted connections.
Socks == 6 .. 5 + Cardinality(Clients)

ASSUME IdobataAssumption ==
  /\ IsFiniteSet(Clients)
  /\ Own \in Clients /\ Leavers \subseteq Clients \ {Own}
  /\ MaxSaid \in [Clients -> Nat \ {0}] /\ MaxDepth \in Nat \ {0}
  /\ NULL \notin Clients \cup Nodes \cup Int
  /\ GARBAGE \notin Nodes \cup Int \cup {NULL}

VARIABLES
  \* the member list (MemberList) and the user names of its nodes
  head, tail, next, sock, live, pc, arg, current, prev, chain,
  named,    \* the name of a node is set
  \* the network and the kernel
  backlog,  \* connections nobody accepted yet
  conn,     \* a connection, as the server's kernel sees it
  inbox,    \* packets that were not read
  fd,       \* the server's descriptor of a connection
  \* the clients
  said,     \* packets a client sent
  heard,    \* the clients that were sent anything
  unread,   \* the server as a client has something to read
  \* the server
  at,       \* the call the server is at
  mask, readfds, Max_sd,
  cur,      \* current in recv_msg_from_client
  served,   \* history: the sockets read in this walk of the list
  stack     \* calls of transfer_message, the innermost first

listVars   == <<head, tail, next, sock, live, pc, arg, current, prev, chain>>
netVars    == <<backlog, conn, inbox, fd>>
clientVars == <<said, heard, unread>>
selectVars == <<mask, readfds, Max_sd>>
walkVars   == <<at, cur, served, stack>>
vars == <<listVars, named, netVars, clientVars, selectVars, walkVars>>

List == INSTANCE MemberList

-----------------------------------------------------------------------------
(***************************************************************************)
(* A connection is "new", then "up".  A client that exits in order leaves  *)
(* "fin"; what is sent to it then is answered by a reset, and it becomes   *)
(* "broken": recv gives 0 and send EPIPE.  One that dies with unread data  *)
(* leaves "rst": the next call gets the error of the reset, and after a    *)
(* send has got it the connection is "broken" too.  The server closes with *)
(* "bye", or with "cut" when there was data it had not read.               *)
(***************************************************************************)
ConnState == {"new", "up", "fin", "broken", "rst", "bye", "cut"}

Packet == [type : {"JOIN", "POST", "QUIT", "rest"}, no : Nat \ {0}]
Text   == [by : Clients, no : Nat \ {0}]
Frame  == [node : Nodes \cup {NULL}, from : Socks \cup {FROM_SERVER},
           text : Text \cup {NULL}, victim : Socks \cup {NULL},
           to : Seq(Clients)] \* history: to whom it was sent

\* The connection behind a descriptor, if it is open.
Behind(s) == {c \in Clients : fd[c] = s}

HangsUp(c) == conn[c] \in {"fin", "broken", "rst"}

Readable(s) ==
  CASE s \in {KEYBOARD, UDP} -> FALSE \* see SelectTyped, SelectHelo
    [] s = TCP   -> backlog # <<>>
    [] s = OWN   -> unread \/ conn[Own] \in {"bye", "cut"}
    [] s \in Socks -> \E c \in Behind(s) : inbox[c] # <<>> \/ HangsUp(c)

Stale == {s \in mask \cap Socks : Behind(s) = {}}

-----------------------------------------------------------------------------
(***************************************************************************)
(* The clients: idobata_client.c joins as soon as it is connected, then    *)
(* posts what is typed; a line that begins with QUIT is sent as QUIT.      *)
(***************************************************************************)
Connect(c) ==
  /\ conn[c] = "new"
  /\ conn' = [conn EXCEPT ![c] = "up"]
  /\ backlog' = Append(backlog, c)
  /\ UNCHANGED <<listVars, named, inbox, fd, clientVars, selectVars,
                 walkVars>>

\* The types of packets a client may send next.
Types(c) == IF said[c] = 0 THEN {"JOIN"} ELSE {"POST", "QUIT"}

Say(c) ==
  /\ c # Own /\ conn[c] = "up" /\ said[c] < MaxSaid[c]
  /\ \E t \in Types(c) :
       inbox' = [inbox EXCEPT ![c] = Append(@, [type |-> t, no |-> said[c] + 1])]
  /\ said' = [said EXCEPT ![c] = @ + 1]
  /\ UNCHANGED <<listVars, named, backlog, conn, fd, heard, unread,
                 selectVars, walkVars>>

\* A client is killed, perhaps with messages it had not read.
Leave(c) ==
  /\ c \in Leavers /\ conn[c] = "up"
  /\ \/ conn' = [conn EXCEPT ![c] = "fin"]
     \/ c \in heard /\ conn' = [conn EXCEPT ![c] = "rst"]
  /\ UNCHANGED <<listVars, named, backlog, inbox, fd, clientVars,
                 selectVars, walkVars>>

-----------------------------------------------------------------------------
(***************************************************************************)
(* The main loop: select, and one branch of the else-ifs per round.        *)
(***************************************************************************)
Branch(ready) ==
  CASE KEYBOARD \in ready -> "keyboard"
    [] ready \cap {KEYBOARD, UDP} = {UDP} -> "udp"
    [] ready \cap {KEYBOARD, UDP, TCP} = {TCP} -> "accept"
    [] ready \cap {KEYBOARD, UDP, TCP, OWN} = {OWN} -> "own"
    [] OTHER -> "walk"

\* A failed select leaves readfds as it was, and its result is not used.
SelectWith(input) ==
  /\ at = "select"
  /\ LET ready == {s \in mask : s <= Max_sd /\ (s \in input \/ Readable(s))}
     IN IF Stale # {} THEN readfds' = mask
        ELSE ready # {} /\ readfds' = ready
  /\ at' = Branch(readfds')
  /\ cur' = IF at' = "walk" THEN head ELSE NULL
  /\ UNCHANGED <<listVars, named, netVars, clientVars, mask, Max_sd, served,
                 stack>>

Select == SelectWith({})

\* A line was typed at the keyboard.
SelectTyped == said[Own] < MaxSaid[Own] /\ SelectWith({KEYBOARD})

\* Somebody who looks for a server sent a HELO.
SelectHelo == SelectWith({UDP})

\* The round is over: readfds is assigned before it is used again.
EndRound == at' = "select" /\ readfds' = {}

\* send_msg_from_keyboard.  Sending on a connection the server's end of
\* which is closed works once; the next time it raises SIGPIPE.
SendFromKeyboard ==
  /\ at = "keyboard"
  /\ said' = [said EXCEPT ![Own] = @ + 1]
  /\ \/ /\ conn[Own] = "up" /\ EndRound
        /\ \E t \in Types(Own) :
             inbox' = [inbox EXCEPT ![Own] =
                         Append(@, [type |-> t, no |-> said[Own] + 1])]
        /\ UNCHANGED conn
     \/ /\ conn[Own] = "bye" /\ EndRound
        /\ conn' = [conn EXCEPT ![Own] = "cut"]
        /\ UNCHANGED inbox
     \/ /\ conn[Own] = "cut" /\ at' = "stopped"
        /\ UNCHANGED <<conn, inbox, readfds>>
  /\ UNCHANGED <<listVars, named, backlog, fd, heard, unread, mask, Max_sd,
                 cur, served, stack>>

\* recv_udp_packet: the answer HERE goes back to who asked.
RecvUdpPacket ==
  /\ at = "udp" /\ EndRound
  /\ UNCHANGED <<listVars, named, netVars, clientVars, mask, Max_sd, cur,
                 served, stack>>

setMax_sdNot(num) == UNCHANGED Max_sd \* mutant: it is not called
setMax_sd(num) == Max_sd' = IF num > Max_sd THEN num ELSE Max_sd

\* Addresses that malloc never handed out differ in nothing: it takes the
\* next of them, or any that was freed.
Unused == {n \in Nodes : sock[n] = GARBAGE}
MallocReturns(n) == n \in Unused => n = CHOOSE m \in Unused : TRUE

\* add_user_to_list("", sock): the name of the new member is empty.
SetEmptyName == named' = [named EXCEPT ![tail'] = FALSE]
Accept ==
  /\ at = "accept" /\ backlog # <<>>
  /\ backlog' = Tail(backlog)
  /\ \E s \in Socks :
       /\ Behind(s) = {} /\ \A r \in Socks : Behind(r) = {} => s <= r
       /\ fd' = [fd EXCEPT ![Head(backlog)] = s]
       /\ List!AddUser(s) /\ MallocReturns(tail')
       /\ SetEmptyName
       /\ mask' = mask \cup {s}
       /\ setMax_sd(s)
  /\ EndRound
  /\ UNCHANGED <<conn, inbox, clientVars, cur, served, stack>>

\* The server as a client reads what was sent to it; it stops at the end of
\* its connection, or on its reset.
OwnRecv ==
  /\ at = "own"
  /\ \/ unread /\ unread' = FALSE /\ EndRound
     \/ /\ ~unread /\ conn[Own] \in {"bye", "cut"} /\ at' = "stopped"
        /\ UNCHANGED <<unread, readfds>>
  /\ UNCHANGED <<listVars, named, netVars, said, heard, mask, Max_sd, cur,
                 served, stack>>

-----------------------------------------------------------------------------
(***************************************************************************)
(* recv_msg_from_client: the walk along the list.                          *)
(***************************************************************************)
EndWalk ==
  /\ at = "walk" /\ cur = NULL
  /\ EndRound /\ served' = <<>>
  /\ UNCHANGED <<listVars, named, netVars, clientVars, mask, Max_sd, cur,
                 stack>>

IsReadyUnasked(n) == TRUE \* mutant: FD_ISSET is not looked at
IsReady(n) == sock[n] \in readfds
Skip ==
  /\ at = "walk" /\ cur # NULL /\ ~IsReady(cur)
  /\ cur' = next[cur]
  /\ UNCHANGED <<listVars, named, netVars, clientVars, selectVars, at,
                 served, stack>>

CallRecv ==
  /\ at = "walk" /\ cur # NULL /\ IsReady(cur)
  /\ at' = "recv" /\ served' = Append(served, sock[cur])
  /\ UNCHANGED <<listVars, named, netVars, clientVars, selectVars, cur, stack>>

\* transfer_message(message, from_user_name, from_sock) begins at the head.
Transfer(text, from, victim) ==
  /\ stack' = <<[node |-> head, from |-> from, text |-> text,
                 victim |-> victim, to |-> <<>>]>> \o stack
  /\ at' = "send"
  /\ UNCHANGED cur

\* delete_user(user_name, sock) first tells everybody.
DeleteUser(s) == Transfer(NULL, FROM_SERVER, s)

WalkOn == at' = "walk" /\ cur' = next[cur] /\ UNCHANGED stack

\* recv returned the packets in data, the branches on the first header.
Handle(c, data) ==
  LET first == data[1] IN
  \/ /\ ~named[cur] /\ first.type = "JOIN"
     /\ named' = [named EXCEPT ![cur] = TRUE]
     /\ Transfer(NULL, FROM_SERVER, NULL)
  \/ /\ named[cur] /\ first.type = "POST"
     /\ Transfer([by |-> c, no |-> first.no], sock[cur], NULL)
     /\ UNCHANGED named
  \/ /\ named[cur] /\ first.type = "QUIT"
     /\ DeleteUser(sock[cur]) /\ UNCHANGED named
  \/ /\ first.type \notin IF named[cur] THEN {"POST", "QUIT"} ELSE {"JOIN"}
     /\ WalkOn /\ UNCHANGED named

\* The buffer of a recv has room for one long post and what else is short: a
\* JOIN of 19 bytes and a POST of 492 fill its 511.
IsLong(p) == p.type \in {"POST", "rest"}
Exceeded(packets) ==
  \E i, j \in DOMAIN packets : i # j /\ IsLong(packets[i]) /\ IsLong(packets[j])

\* Recv returns all packets that have arrived, or as many bytes as the
\* buffer takes: then a packet is cut, and its rest stays.
RecvData ==
  /\ at = "recv"
  /\ \E c \in Behind(sock[cur]) :
       /\ inbox[c] # <<>>
       /\ \/ inbox' = [inbox EXCEPT ![c] = <<>>]
          \/ \E k \in 2 .. Len(inbox[c]) :
               /\ Exceeded(SubSeq(inbox[c], 1, k))
               /\ inbox' = [inbox EXCEPT ![c] =
                    <<[inbox[c][k] EXCEPT !.type = "rest"]>>
                    \o SubSeq(@, k + 1, Len(@))]
       /\ Handle(c, inbox[c])
  /\ UNCHANGED <<listVars, backlog, conn, fd, clientVars, selectVars,
                 served>>

\* Recv returns 0.
RecvNothing ==
  /\ at = "recv"
  /\ \E c \in Behind(sock[cur]) :
       inbox[c] = <<>> /\ conn[c] \in {"fin", "broken"}
  /\ DeleteUser(sock[cur])
  /\ UNCHANGED <<listVars, named, netVars, clientVars, selectVars, served>>

\* Recv fails with the error of the reset: exit_errmesg.
RecvFails ==
  /\ at = "recv"
  /\ \E c \in Behind(sock[cur]) : inbox[c] = <<>> /\ conn[c] = "rst"
  /\ at' = "stopped"
  /\ UNCHANGED <<listVars, named, netVars, clientVars, selectVars, cur,
                 served, stack>>

-----------------------------------------------------------------------------
(***************************************************************************)
(* transfer_message and delete_user.                                       *)
(***************************************************************************)
Top == stack[1]

\* The test of from_sock.
IsAnybody(n) == TRUE \* mutant: the sender gets its own post
IsAddressee(n) == sock[n] # Top.from
SkipSender ==
  /\ at = "send" /\ Top.node # NULL /\ ~IsAddressee(Top.node)
  /\ stack' = [stack EXCEPT ![1].node = next[@]]
  /\ UNCHANGED <<listVars, named, netVars, clientVars, selectVars, at, cur,
                 served>>

\* What a send does to the connection it is made on, when it is not EPIPE.
Poke(c) ==
  conn' = [conn EXCEPT ![c] = IF @ \in {"fin", "rst"} THEN "broken" ELSE @]

\* send to a member; an error other than EPIPE is not noticed.
SendMessage ==
  /\ at = "send" /\ Top.node # NULL /\ IsAddressee(Top.node)
  /\ \A c \in Behind(sock[Top.node]) : conn[c] # "broken"
  /\ LET to == {c \in Behind(sock[Top.node]) : conn[c] = "up"} IN
     /\ heard' = heard \cup to
     /\ unread' = (unread \/ Own \in to)
     /\ stack' = [stack EXCEPT ![1].node = next[@],
                               ![1].to = @ \o SetToSeq(to)]
  /\ IF Behind(sock[Top.node]) = {} THEN UNCHANGED conn
     ELSE \E c \in Behind(sock[Top.node]) :
            Poke(c) \/ (conn[c] = "fin" /\ UNCHANGED conn)
  /\ UNCHANGED <<listVars, named, backlog, inbox, fd, said, selectVars, at,
                 cur, served>>

\* EPIPE: "the partner has disconnected", delete_user.
SendToBroken ==
  /\ at = "send" /\ Top.node # NULL /\ IsAddressee(Top.node)
  /\ \E c \in Behind(sock[Top.node]) : conn[c] = "broken"
  /\ IF Len(stack) < MaxDepth
     THEN DeleteUser(sock[Top.node])
     ELSE at' = "stopped" /\ UNCHANGED <<cur, stack>>
  /\ UNCHANGED <<listVars, named, netVars, clientVars, selectVars, served>>

ReturnAtOnce == \* mutant: the first member who has sent something ends the walk
  at' = "select" /\ stack' = Tail(stack) /\ UNCHANGED cur
\* The call at the top of the stack returns: its caller goes on with the
\* next of the node it is at, which may have been freed.
Return ==
  LET rest == Tail(stack) IN
  IF rest = <<>>
  THEN at' = "walk" /\ cur' = next'[cur] /\ stack' = rest
  ELSE /\ at' = "send" /\ stack' = [rest EXCEPT ![1].node = next'[@]]
       /\ UNCHANGED cur
EndTransfer ==
  /\ at = "send" /\ Top.node = NULL /\ Top.victim = NULL
  /\ UNCHANGED <<listVars, named, netVars, clientVars, selectVars, served>>
  /\ Return

\* FD_CLR, close(sock).
GoOnWatching(s) == UNCHANGED mask \* mutant: without FD_CLR
StopWatching(s) == mask' = mask \ {s}
CloseConnection ==
  /\ at = "send" /\ Top.node = NULL /\ Top.victim # NULL
  /\ StopWatching(Top.victim)
  /\ LET c == CHOOSE c \in Clients : fd[c] = Top.victim IN
     /\ fd' = [fd EXCEPT ![c] = NULL]
     /\ conn' = [conn EXCEPT ![c] =
                   IF @ = "up" /\ inbox[c] = <<>> THEN "bye" ELSE "cut"]
     /\ inbox' = [inbox EXCEPT ![c] = <<>>]
  /\ List!BeginDelete(Top.victim)
  /\ at' = "delete"
  /\ UNCHANGED <<named, backlog, clientVars, readfds, Max_sd, cur,
                 served, stack>>

\* delete_user_from_list, and the return of delete_user.
DeleteFromList ==
  /\ at = "delete"
  /\ \/ List!SearchOn /\ UNCHANGED <<at, cur, stack>>
     \/ (List!NotFound \/ List!Remove) /\ Return
     \/ List!FreeTwice /\ at' = "stopped" /\ UNCHANGED <<cur, stack>>
  /\ UNCHANGED <<named, netVars, clientVars, selectVars, served>>

-----------------------------------------------------------------------------
Init ==
  /\ List!Init
  /\ named = [n \in Nodes |-> GARBAGE]
  /\ backlog = <<Own>>
  /\ conn = [c \in Clients |-> IF c = Own THEN "up" ELSE "new"]
  /\ inbox = [c \in Clients |->
                IF c = Own THEN <<[type |-> "JOIN", no |-> 1]>> ELSE <<>>]
  /\ fd = [c \in Clients |-> NULL]
  /\ said = [c \in Clients |-> IF c = Own THEN 1 ELSE 0]
  /\ heard = {} /\ unread = FALSE
  /\ at = "select"
  /\ mask = {KEYBOARD, UDP, TCP, OWN} /\ readfds = {} /\ Max_sd = OWN
  /\ cur = NULL /\ served = <<>> /\ stack = <<>>

Server ==
  \/ Select \/ SendFromKeyboard \/ RecvUdpPacket \/ Accept \/ OwnRecv
  \/ EndWalk \/ Skip \/ CallRecv \/ RecvData \/ RecvNothing \/ RecvFails
  \/ SkipSender \/ SendMessage \/ SendToBroken \/ EndTransfer
  \/ CloseConnection \/ DeleteFromList

Environment ==
  /\ at # "stopped"
  /\ \/ \E c \in Clients : Connect(c) \/ Say(c) \/ Leave(c)
     \/ SelectTyped \/ SelectHelo

Next == Server \/ Environment

Spec == Init /\ [][Next]_vars

\* The server runs as long as it can; nobody has to look for it, or to type.
FairSpec == Spec /\ WF_vars(Server)

-----------------------------------------------------------------------------
\* What the variables hold; a member always has a name or the empty one
\* (add_user_to_list, register_username).
TypeOK ==
  /\ List!TypeOK
  /\ named \in [Nodes -> BOOLEAN \cup {GARBAGE}]
  /\ \A n \in live : named[n] \in BOOLEAN
  /\ backlog \in Seq(Clients)
  /\ conn \in [Clients -> ConnState]
  /\ inbox \in [Clients -> Seq(Packet)]
  /\ fd \in [Clients -> Socks \cup {NULL}]
  /\ said \in [Clients -> Nat]
  /\ heard \in SUBSET Clients
  /\ unread \in BOOLEAN
  /\ at \in {"select", "keyboard", "udp", "accept", "own", "walk", "recv",
             "send", "delete", "stopped"}
  /\ mask \subseteq {KEYBOARD, UDP, TCP, OWN} \cup Socks
  /\ readfds \subseteq mask \cup Socks
  /\ Max_sd \in OWN .. OWN + Cardinality(Clients)
  /\ cur \in Nodes \cup {NULL}
  /\ served \in Seq(Socks)
  /\ stack \in Seq(Frame)

Members == {sock[chain[i]] : i \in DOMAIN chain}

\* Between two rounds the members of the list, the descriptors select
\* watches and the connections that are open are the same, and select can
\* see all of them (Accept, delete_user, setMax_sd).
MembersAreConnections ==
  at = "select" =>
    /\ mask \cap Socks = Members
    /\ {fd[c] : c \in Clients} \ {NULL} = Members
    /\ \A s \in mask : s <= Max_sd
    /\ \A n \in live : \E i \in DOMAIN chain : n = chain[i]

\* recv is called for a member who is on the list, whose connection has
\* something to read, and who was not served in this walk: also when the
\* walk goes on from a node that was freed under it (idobata_server.c:174).
RecvOnlyFromReadyMembers ==
  [][served' # served /\ served' # <<>> =>
       \E s \in Members :
         /\ served' = Append(served, s) /\ Readable(s)
         /\ \A i \in DOMAIN served : served[i] # s]_vars

\* A walk over the list reads every member select reported, whoever was
\* registered, relayed or deleted on the way (idobata_server.c:158-201).
WalkMissesNobody ==
  [][at' = "select" /\ at \in {"walk", "recv", "send", "delete"} =>
       \A s \in readfds \cap Members :
         \E i \in DOMAIN served : served[i] = s]_vars

\* When a post has been transferred, every other member has been sent it
\* once, and its author never (transfer_message).
PostReachesTheOthers ==
  at = "send" /\ Top.node = NULL /\ Top.text # NULL =>
    \A c \in Clients : fd[c] \in Members /\ conn[c] = "up" =>
      Cardinality({i \in DOMAIN Top.to : Top.to[i] = c}) =
        IF c = Top.text.by THEN 0 ELSE 1

\* What a client sends is read some time, unless the server stops: the
\* order of the else-ifs and the walk leave nobody out for ever once the
\* searches for a server end (and the lines at the keyboard, of which there
\* are MaxSaid).
PacketsAreRead ==
  <>[](at # "udp") =>
    \A c \in Clients : inbox[c] # <<>> ~> (inbox[c] = <<>> \/ at = "stopped")

\* "Delete the registration of a user" (idobata_server.c:217): the deletion
\* of a member is not begun again before it is over.
NobodyIsDeletedTwice ==
  \A i, j \in DOMAIN stack :
    i # j /\ stack[i].victim # NULL => stack[i].victim # stack[j].victim
=============================================================================
