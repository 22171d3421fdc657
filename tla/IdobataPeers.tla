---------------------------- MODULE IdobataPeers ----------------------------
(***************************************************************************)
(* Several idobata2 programs on one network, each on a host of its own.    *)
(* main() of idobata.c searches for a server by broadcast (search_server   *)
(* of idobata_common.c) and becomes a client of the one it found or a      *)
(* server itself; a member then reads the stream of MESG packets           *)
(* (idobata_client.c).  The room a server keeps is abstract here: a JOIN,  *)
(* a POST or a QUIT and its broadcast are one step, whose detail is        *)
(* IdobataServer.  Other programs may listen on the port, as the echo      *)
(* servers of udp_echo do.                                                 *)
(***************************************************************************)
EXTENDS Integers, FiniteSets

CONSTANTS
  Programs,    \* hosts that run idobata
  Echoers,     \* hosts on which another program has the port
  AnswerSizes, \* the lengths of what those answer
  MaxRetry,    \* timeouts after which a search gives up
  Prompt,      \* TRUE: an answer comes within TIMEOUT_SEC unless it is lost
  MaxLost,     \* bound: datagrams the network loses
  MaxPosts,    \* bound: lines typed
  NOBODY

ASSUME PeersAssumption ==
  /\ Programs \cap Echoers = {} /\ NOBODY \notin Programs \cup Echoers
  /\ AnswerSizes \subseteq Nat
  /\ MaxRetry \in Nat \ {0} /\ MaxLost \in Nat /\ MaxPosts \in Nat
  /\ Prompt \in BOOLEAN

MSGBUF_SIZE == 512

VARIABLES
  pc,         \* where each program is
  cnt_retry,  \* timeouts of its search
  strsize,    \* length of the next HELO and of the last answer
  server,     \* server_addr
  net,        \* datagrams in flight or in a socket
  lost,       \* how many the network lost
  posts,      \* how many lines were typed
  arrived,    \* messages the server sent to a member
  taken,      \* bytes of them the member received
  shown,      \* history: how many came on its screen
  up          \* history: the servers there were when its search began

searchVars == <<cnt_retry, strsize, net, lost, up>>
streamVars == <<posts, arrived, taken, shown>>
vars == <<pc, server, searchVars, streamVars>>

-----------------------------------------------------------------------------
\* A server is "ending" once its own client left the room, and in "key" it
\* waits for a key and does nothing else.
Phase == {"new", "select", "join", "start", "server", "ending",
          "client", "left", "key", "gone"}

Datagram == [type : {"HELO", "HERE", "other"},
             from : Programs \cup Echoers, to : Programs \cup Echoers]

Running(s) == pc[s] \in {"server", "ending"}

\* The members of the room of server s; its own client is one of them.
Members(s) ==
  {p \in Programs : server[p] = s /\ pc[p] \in {"client", "server"}}

-----------------------------------------------------------------------------
(***************************************************************************)
(* The search                                                              *)
(***************************************************************************)
\* The hosts on which a socket is bound to the port.
Listeners == {s \in Programs : Running(s)} \cup Echoers

\* Sendto(s_buf, strsize) to the broadcast address; s_buf is "HELO", and
\* fewer than four bytes of it are no header.
Broadcast(p, size) ==
  {[type |-> IF size >= 4 THEN "HELO" ELSE "other", from |-> p, to |-> h] :
     h \in Listeners}

\* The end of search_server: answers are dropped from now on, its HELOs have
\* no effect any more, and its local variables are gone.
Close(p) ==
  /\ net' = {d \in net : p \notin {d.from, d.to}}
  /\ cnt_retry' = [cnt_retry EXCEPT ![p] = 0]
  /\ strsize'   = [strsize EXCEPT ![p] = 4]

Begin(p) ==
  /\ pc[p] = "new"
  /\ pc'  = [pc EXCEPT ![p] = "select"]
  /\ up'  = [up EXCEPT ![p] = {s \in Programs : pc[s] = "server"}]
  /\ net' = net \cup Broadcast(p, strsize[p])
  /\ UNCHANGED <<server, cnt_retry, strsize, lost, streamVars>>

\* A HELO of p is not answered yet, or the answer is not read.
Outstanding(p) ==
  \E d \in net : \/ /\ d.from = p /\ d.type = "HELO"
                    /\ d.to \in Programs /\ Running(d.to)
                 \/ d.to = p /\ d.type = "HERE"

\* select() returned 0.  The loop goes on while cnt_retry < MaxRetry.
CountedNot(n) == \* mutant: cnt_retry++ dropped
  n
Counted(n) == n + 1

GivesUpEarly(n) == \* mutant: one HELO less
  n >= MaxRetry - 1
GivesUp(n) == n >= MaxRetry

Timeout(p) ==
  /\ pc[p] = "select" /\ (Prompt => ~Outstanding(p))
  /\ IF GivesUp(Counted(cnt_retry[p]))
     THEN pc' = [pc EXCEPT ![p] = "start"] /\ Close(p)
     ELSE /\ cnt_retry' = [cnt_retry EXCEPT ![p] = Counted(@)]
          /\ net' = net \cup Broadcast(p, strsize[p])
          /\ UNCHANGED <<pc, strsize>>
  /\ UNCHANGED <<server, lost, up, streamVars>>

\* HERE: the address is kept and the socket closed.
RecvHere(p) ==
  \E d \in net :
    /\ pc[p] = "select" /\ d.to = p /\ d.type = "HERE"
    /\ server' = [server EXCEPT ![p] = d.from]
    /\ pc' = [pc EXCEPT ![p] = "join"]
    /\ Close(p)
    /\ UNCHANGED <<lost, up, streamVars>>

\* Anything else is not counted, and its length is that of the next HELO.
RecvOther(p) ==
  \E d \in net, n \in AnswerSizes :
    /\ pc[p] = "select" /\ d.to = p /\ d.type # "HERE"
    /\ strsize' = [strsize EXCEPT ![p] = n]
    /\ net' = (net \ {d}) \cup Broadcast(p, n)
    /\ UNCHANGED <<pc, server, cnt_retry, lost, up, streamVars>>

\* An answer to p reaches its socket, unless the search is over.
Reply(d, type) ==
  IF pc[d.from] = "select"
  THEN {[type |-> type, from |-> d.to, to |-> d.from]} ELSE {}

\* recv_udp_packet: HERE for a HELO, nothing for anything else.
RecvUdpPacket(s) ==
  \E d \in net :
    /\ Running(s) /\ d.to = s
    /\ net' = (net \ {d}) \cup
              IF d.type = "HELO" THEN Reply(d, "HERE") ELSE {}
    /\ UNCHANGED <<pc, server, cnt_retry, strsize, lost, up, streamVars>>

\* A program of another kind answers whatever it gets.
Echo(e) ==
  \E d \in net :
    /\ d.to = e
    /\ net' = (net \ {d}) \cup Reply(d, "other")
    /\ UNCHANGED <<pc, server, cnt_retry, strsize, lost, up, streamVars>>

Lose(d) ==
  /\ lost < MaxLost
  /\ net' = net \ {d} /\ lost' = lost + 1
  /\ UNCHANGED <<pc, server, cnt_retry, strsize, up, streamVars>>

-----------------------------------------------------------------------------
(***************************************************************************)
(* The room                                                                *)
(***************************************************************************)
\* transfer_message: MSGBUF_SIZE bytes to each of M.
Transfer(M) ==
  arrived' = [p \in Programs |-> arrived[p] + IF p \in M THEN 1 ELSE 0]

\* idobata_server: init binds the port, listens, and joins its own room.
Start(p) ==
  /\ pc[p] = "start"
  /\ pc' = [pc EXCEPT ![p] = "server"]
  /\ server' = [server EXCEPT ![p] = p]
  /\ Transfer({p})
  /\ UNCHANGED <<searchVars, posts, taken, shown>>

\* join_server, after which the room is told; connect fails if the server
\* is gone, and one that waits for a key does not register anybody.
Join(p) ==
  /\ pc[p] = "join"
  /\ IF pc[server[p]] = "gone"
     THEN pc' = [pc EXCEPT ![p] = "gone"] /\ UNCHANGED arrived
     ELSE /\ pc' = [pc EXCEPT ![p] = "client"]
          /\ Transfer(IF Running(server[p])
                      THEN Members(server[p]) \cup {p} ELSE {})
  /\ UNCHANGED <<server, searchVars, posts, taken, shown>>

\* A line becomes a POST and goes to all the others.
Post(p) ==
  /\ pc[p] \in {"client", "server"} /\ Running(server[p])
  /\ posts < MaxPosts /\ posts' = posts + 1
  /\ Transfer(Members(server[p]) \ {p})
  /\ UNCHANGED <<pc, server, searchVars, taken, shown>>

\* QUIT: everybody is told, the member too, and its connection closed.
Quit(p) ==
  /\ pc[p] \in {"client", "server"} /\ Running(server[p])
  /\ pc' = [pc EXCEPT ![p] = IF server[p] = p THEN "ending" ELSE "left"]
  /\ Transfer(Members(server[p]))
  /\ UNCHANGED <<server, searchVars, posts, taken, shown>>

Unread(p) == MSGBUF_SIZE * arrived[p] - taken[p]

\* What recv puts into r_buf is shown if it begins with a header.
Shows(p) == IF taken[p] % MSGBUF_SIZE = 0 THEN 1 ELSE 0

\* recv of at most MSGBUF_SIZE - 1 bytes of what has arrived.
Recv(p) ==
  /\ pc[p] \in {"client", "left", "server", "ending"} /\ Unread(p) > 0
  /\ taken' = [taken EXCEPT ![p] = @ + IF Unread(p) < MSGBUF_SIZE
                                       THEN Unread(p) ELSE MSGBUF_SIZE - 1]
  /\ shown' = [shown EXCEPT ![p] = @ + Shows(p)]
  /\ UNCHANGED <<pc, server, searchVars, posts, arrived>>

\* The other end of the connection of p is closed.
Closed(p) ==
  \/ pc[p] \in {"left", "ending"}
  \/ pc[p] = "client" /\ pc[server[p]] = "gone"

\* recv returned 0: the program waits for a key.
RecvEndForLeft(p) == \* mutant: only who typed QUIT looks for the end
  /\ pc[p] \in {"left", "ending"} /\ Unread(p) = 0
  /\ pc' = [pc EXCEPT ![p] = "key"]
  /\ UNCHANGED <<server, searchVars, streamVars>>
RecvEnd(p) ==
  /\ Closed(p) /\ Unread(p) = 0
  /\ pc' = [pc EXCEPT ![p] = "key"]
  /\ UNCHANGED <<server, searchVars, streamVars>>

\* The process ends: after the key, by a signal, or since the server reset
\* the connection when it went.
Exit(p) ==
  /\ pc[p] \in {"key", "server"} \/ Closed(p)
  /\ pc'  = [pc EXCEPT ![p] = "gone"]
  /\ net' = {d \in net : d.to # p}
  /\ arrived' = [arrived EXCEPT ![p] = 0]
  /\ taken'   = [taken EXCEPT ![p] = 0]
  /\ shown'   = [shown EXCEPT ![p] = 0]
  /\ UNCHANGED <<server, cnt_retry, strsize, lost, up, posts>>

-----------------------------------------------------------------------------
Init ==
  /\ pc        = [p \in Programs |-> "new"]
  /\ cnt_retry = [p \in Programs |-> 0]
  /\ strsize   = [p \in Programs |-> 4]
  /\ server    = [p \in Programs |-> NOBODY]
  /\ net = {} /\ lost = 0 /\ posts = 0
  /\ arrived   = [p \in Programs |-> 0]
  /\ taken     = [p \in Programs |-> 0]
  /\ shown     = [p \in Programs |-> 0]
  /\ up        = [p \in Programs |-> {}]

\* What a program does by itself once it runs.
Program(p) ==
  \/ Timeout(p) \/ RecvHere(p) \/ RecvOther(p) \/ RecvUdpPacket(p)
  \/ Start(p) \/ Join(p) \/ Recv(p) \/ RecvEnd(p)

\* What its user does.
User(p) == Begin(p) \/ Post(p) \/ Quit(p) \/ Exit(p)

Next ==
  \/ \E p \in Programs : Program(p) \/ User(p)
  \/ \E e \in Echoers : Echo(e)
  \/ \E d \in net : Lose(d)

Spec == Init /\ [][Next]_vars

\* Programs are scheduled and their clocks run; users, the network and the
\* other programs do what they like.
FairSpec == Spec /\ \A p \in Programs : WF_vars(Program(p))

-----------------------------------------------------------------------------
TypeOK ==
  /\ pc \in [Programs -> Phase]
  /\ cnt_retry \in [Programs -> 0 .. MaxRetry - 1]
  /\ strsize \in [Programs -> Nat]
  /\ server \in [Programs -> Programs \cup {NOBODY}]
  /\ net \subseteq Datagram
  /\ lost \in 0 .. MaxLost /\ posts \in 0 .. MaxPosts
  /\ \A p \in Programs : taken[p] \in 0 .. MSGBUF_SIZE * arrived[p]
  /\ \A p \in Programs : shown[p] \in 0 .. arrived[p]
  /\ up \in [Programs -> SUBSET Programs]

\* A program becomes a server only if no server was there during its whole
\* search, as long as fewer datagrams are lost than HELOs are sent, answers
\* are prompt and nobody answers with less than four bytes (the retries of
\* search_server, strsize, recv_udp_packet).
NoSecondServer ==
  \A p, s \in Programs :
    pc[p] \in {"start", "server"} /\ s \in up[p] => pc[s] # "server"

\* Every search ends, if the answers of other programs end some time: only
\* timeouts are counted (while in search_server).
OthersFallSilent == <>[](\A d \in net : d.from \notin Echoers)
SearchEnds ==
  OthersFallSilent =>
    \A p \in Programs : (pc[p] = "select") ~> (pc[p] # "select")

\* When a server is gone its clients read on to the end of the stream, at
\* whatever byte they are, and stop (the test strsize == 0).
ClientsLearnTheEnd ==
  \A p \in Programs :
    (pc[p] = "client" /\ Closed(p)) ~> (pc[p] \in {"key", "gone"})

\* "If the type of the packet is MESSAGE, show it" (idobata_common.c:144):
\* a member who has read all that was sent to it has seen every message.
EveryMessageIsShown ==
  \A p \in Programs :
    pc[p] \in {"client", "server"} /\ Unread(p) = 0 => shown[p] = arrived[p]
=============================================================================
