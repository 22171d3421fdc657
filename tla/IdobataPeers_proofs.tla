------------------------- MODULE IdobataPeers_proofs -------------------------
(***************************************************************************)
(* One server, for any number of programs: when answers are prompt, fewer  *)
(* datagrams are lost than HELOs are sent and no answer shortens the next  *)
(* HELO, a program that gives up its search has not missed a server that   *)
(* was there all the time.  The argument counts: every timeout of a search *)
(* is the loss of one datagram.                                            *)
(***************************************************************************)
EXTENDS IdobataPeers, TLAPS

\* The premises, about the network and the other programs on it.
SearchIsReliable ==
  /\ Prompt
  /\ MaxLost < MaxRetry
  /\ \A n \in AnswerSizes : n >= 4

SearchTypes ==
  /\ pc \in [Programs -> Phase]
  /\ cnt_retry \in [Programs -> Nat]
  /\ \A p \in Programs : pc[p] = "new" => cnt_retry[p] = 0
  /\ strsize \in [Programs -> Nat]
  /\ \A p \in Programs : strsize[p] >= 4
  /\ lost \in 0 .. MaxLost
  /\ up \in [Programs -> SUBSET Programs]

\* The servers that were there when a search began have not begun anew.
UpWereServers ==
  \A p \in Programs : \A s \in up[p] :
    /\ s # p /\ pc[p] # "new"
    /\ pc[s] \in {"server", "ending", "left", "key", "gone"}

\* Between p and s there is a HELO to be answered or the answer to be read.
Answering(p, s) ==
  \E d \in net : \/ d.from = p /\ d.to = s /\ d.type = "HELO"
                 \/ d.from = s /\ d.to = p /\ d.type = "HERE"

\* Every timeout cost a datagram, and so did the HELO that has no answer.
TimeoutsAreLosses ==
  \A p \in Programs : \A s \in up[p] :
    pc[p] = "select" /\ pc[s] = "server" =>
      /\ cnt_retry[p] <= lost
      /\ ~Answering(p, s) => cnt_retry[p] < lost

IInv == SearchTypes /\ UpWereServers /\ TimeoutsAreLosses /\ NoSecondServer

-----------------------------------------------------------------------------
LEMMA InitInv == Init => IInv
<1> SUFFICES ASSUME Init PROVE IInv
  OBVIOUS
<1>1. SearchTypes
  BY PeersAssumption DEF Init, SearchTypes, Phase
<1> QED BY <1>1 DEF Init, IInv, UpWereServers, TimeoutsAreLosses, NoSecondServer

\* A broadcast of a whole header asks every server.
LEMMA BroadcastAsks ==
  ASSUME NEW p \in Programs, NEW size \in Nat, size >= 4,
         NEW s \in Programs, pc[s] = "server",
         Broadcast(p, size) \subseteq net'
  PROVE  Answering(p, s)'
<1> DEFINE d == [type |-> "HELO", from |-> p, to |-> s]
<1>1. s \in Listeners
  BY DEF Listeners, Running
<1>2. d \in Broadcast(p, size)
  BY <1>1 DEF Broadcast
<1> QED BY <1>2 DEF Answering

\* A program that steps on without a search, and starts no server.
LEMMA RoomInv ==
  ASSUME IInv, NEW p \in Programs, UNCHANGED searchVars,
         pc[p] # "new", pc[p] # "select",
         NEW q \in Phase \ {"new", "select", "start"},
         pc' = [pc EXCEPT ![p] = q],
         pc[p] \in {"server", "ending", "left", "key", "gone"}
           => q \in {"server", "ending", "left", "key", "gone"},
         q = "server" => pc[p] \in {"start", "server"}
  PROVE  IInv'
<1>1. SearchTypes'
  BY DEF IInv, SearchTypes, searchVars
<1>2. UpWereServers'
  BY DEF IInv, SearchTypes, UpWereServers, searchVars
<1>3. \A r \in Programs : \A s \in up[r] : pc'[s] = "server" => pc[s] = "server"
  BY DEF IInv, SearchTypes, UpWereServers
<1>4. \A r, s \in Programs : Answering(r, s)' = Answering(r, s)
  BY DEF Answering, searchVars
<1>5. TimeoutsAreLosses'
  BY <1>3, <1>4 DEF IInv, SearchTypes, TimeoutsAreLosses, searchVars
<1>6. NoSecondServer'
  BY <1>3 DEF IInv, SearchTypes, NoSecondServer, searchVars
<1> QED BY <1>1, <1>2, <1>5, <1>6 DEF IInv

LEMMA BeginInv ==
  ASSUME IInv, NEW p \in Programs, Begin(p)
  PROVE  IInv'
<1>1. SearchTypes'
  BY DEF Begin, IInv, SearchTypes, Phase
<1>2. \A r \in Programs : p \notin up[r]
  BY DEF Begin, IInv, UpWereServers
<1>3. UpWereServers'
  BY <1>2 DEF Begin, IInv, SearchTypes, UpWereServers
<1>4. \A r, s \in Programs : Answering(r, s) => Answering(r, s)'
  BY DEF Begin, Answering
<1>5. \A s \in up'[p] : s \in Programs /\ Answering(p, s)'
  BY BroadcastAsks DEF Begin, IInv, SearchTypes
<1>6. TimeoutsAreLosses'
  BY <1>2, <1>4, <1>5
     DEF Begin, IInv, SearchTypes, UpWereServers, TimeoutsAreLosses
<1>7. NoSecondServer'
  BY <1>2 DEF Begin, IInv, SearchTypes, NoSecondServer
<1> QED BY <1>1, <1>3, <1>6, <1>7 DEF IInv

\* The end of a search touches no datagram between two others.
LEMMA CloseKeeps ==
  ASSUME NEW p \in Programs, Close(p),
         NEW r \in Programs, NEW s \in Programs, r # p, s # p, Answering(r, s)
  PROVE  Answering(r, s)'
BY DEF Close, Answering

\* A search ends: with a server, or with a timeout and nobody missed.
LEMMA EndInv ==
  ASSUME IInv, NEW p \in Programs, pc[p] = "select", Close(p),
         NEW q \in {"join", "start"}, pc' = [pc EXCEPT ![p] = q],
         q = "start" => \A s \in up[p] : pc[s] # "server",
         UNCHANGED <<lost, up>>
  PROVE  IInv'
<1>1. SearchTypes'
  BY DEF Close, IInv, SearchTypes, Phase
<1>2. UpWereServers'
  BY DEF IInv, SearchTypes, UpWereServers
<1>3. TimeoutsAreLosses'
  BY CloseKeeps DEF Close, IInv, SearchTypes, TimeoutsAreLosses
<1>4. NoSecondServer'
  BY DEF IInv, SearchTypes, NoSecondServer
<1> QED BY <1>1, <1>2, <1>3, <1>4 DEF IInv

LEMMA TimeoutInv ==
  ASSUME IInv, SearchIsReliable, NEW p \in Programs, Timeout(p)
  PROVE  IInv'
<1>1. \A s \in up[p] : pc[s] = "server" => cnt_retry[p] < lost
  <2> SUFFICES ASSUME NEW s \in up[p], pc[s] = "server"
               PROVE  cnt_retry[p] < lost
    OBVIOUS
  <2>1. s \in Programs
    BY DEF IInv, SearchTypes
  <2>2. ~Outstanding(p)
    BY DEF Timeout, SearchIsReliable
  <2>3. ~Answering(p, s)
    BY <2>1, <2>2 DEF Outstanding, Answering, Running
  <2> QED BY <2>3 DEF Timeout, IInv, TimeoutsAreLosses
<1>2. CASE GivesUp(Counted(cnt_retry[p]))
  <2>1. \A s \in up[p] : pc[s] # "server"
    BY <1>1, <1>2, PeersAssumption
       DEF GivesUp, Counted, SearchIsReliable, IInv, SearchTypes
  <2> QED BY <1>2, <2>1, EndInv DEF Timeout
<1>3. CASE ~GivesUp(Counted(cnt_retry[p]))
  <2>1. /\ cnt_retry' = [cnt_retry EXCEPT ![p] = @ + 1]
        /\ net' = net \cup Broadcast(p, strsize[p])
        /\ pc[p] = "select" /\ UNCHANGED <<pc, strsize, lost, up>>
    BY <1>3 DEF Timeout, Counted
  <2>2. SearchTypes'
    BY <2>1 DEF IInv, SearchTypes
  <2>3. \A r, s \in Programs : Answering(r, s) => Answering(r, s)'
    BY <2>1 DEF Answering
  <2>4. \A s \in up[p] : pc[s] = "server" => Answering(p, s)'
    BY <2>1, BroadcastAsks DEF IInv, SearchTypes
  <2>5. TimeoutsAreLosses'
    BY <1>1, <2>1, <2>3, <2>4 DEF IInv, SearchTypes, TimeoutsAreLosses
  <2>6. UpWereServers' /\ NoSecondServer'
    BY <2>1 DEF IInv, UpWereServers, NoSecondServer
  <2> QED BY <2>2, <2>5, <2>6 DEF IInv
<1> QED BY <1>2, <1>3

\* Datagrams come and go; none between a search and a server that was there
\* is taken away without another one in its place, unless it is lost.
LEMMA NetInv ==
  ASSUME IInv, UNCHANGED <<pc, cnt_retry, up>>, SearchTypes',
         lost' >= lost,
         \A p \in Programs : \A s \in up[p] :
           pc[p] = "select" /\ pc[s] = "server" /\ Answering(p, s)
             => Answering(p, s)' \/ lost' > lost
  PROVE  IInv'
<1>1. UpWereServers' /\ NoSecondServer'
  BY DEF IInv, UpWereServers, NoSecondServer
<1>2. TimeoutsAreLosses'
  BY DEF IInv, SearchTypes, TimeoutsAreLosses
<1> QED BY <1>1, <1>2 DEF IInv

LEMMA RecvOtherInv ==
  ASSUME IInv, SearchIsReliable, NEW p \in Programs, RecvOther(p)
  PROVE  IInv'
<1>1. PICK d \in net, n \in AnswerSizes :
        /\ pc[p] = "select" /\ d.to = p /\ d.type # "HERE"
        /\ strsize' = [strsize EXCEPT ![p] = n]
        /\ net' = (net \ {d}) \cup Broadcast(p, n)
        /\ UNCHANGED <<pc, server, cnt_retry, lost, up, streamVars>>
  BY DEF RecvOther
<1>2. n \in Nat /\ n >= 4
  BY PeersAssumption DEF SearchIsReliable
<1>3. SearchTypes'
  BY <1>1, <1>2 DEF IInv, SearchTypes
<1>4. \A r \in Programs : \A s \in up[r] :
        pc[s] = "server" /\ Answering(r, s) => Answering(r, s)'
  BY <1>1 DEF Answering
<1> QED BY <1>1, <1>3, <1>4, NetInv DEF IInv, SearchTypes

LEMMA RecvUdpPacketInv ==
  ASSUME IInv, NEW t \in Programs, RecvUdpPacket(t)
  PROVE  IInv'
<1>1. PICK d \in net :
        /\ Running(t) /\ d.to = t
        /\ net' = (net \ {d}) \cup
                  IF d.type = "HELO" THEN Reply(d, "HERE") ELSE {}
        /\ UNCHANGED <<pc, server, cnt_retry, strsize, lost, up, streamVars>>
  BY DEF RecvUdpPacket
<1>2. SearchTypes'
  BY <1>1 DEF IInv, SearchTypes
<1>3. ASSUME NEW r \in Programs, NEW s \in up[r], pc[r] = "select",
             Answering(r, s)
      PROVE  Answering(r, s)'
  <2>1. PICK e \in net : \/ e.from = r /\ e.to = s /\ e.type = "HELO"
                         \/ e.from = s /\ e.to = r /\ e.type = "HERE"
    BY <1>3 DEF Answering
  <2>2. CASE e # d
    BY <1>1, <2>1, <2>2 DEF Answering
  <2>3. CASE e = d
    <3>1. d.from = r /\ d.to = s /\ d.type = "HELO"
      BY <1>1, <1>3, <2>1, <2>3 DEF Running
    <3>2. [type |-> "HERE", from |-> s, to |-> r] \in net'
      BY <1>1, <1>3, <3>1 DEF Reply
    <3> QED BY <3>2 DEF Answering
  <2> QED BY <2>2, <2>3
<1> QED BY <1>1, <1>2, <1>3, NetInv DEF IInv, SearchTypes

LEMMA EchoInv ==
  ASSUME IInv, NEW e \in Echoers, Echo(e)
  PROVE  IInv'
<1>1. PICK d \in net :
        /\ d.to = e
        /\ net' = (net \ {d}) \cup Reply(d, "other")
        /\ UNCHANGED <<pc, server, cnt_retry, strsize, lost, up, streamVars>>
  BY DEF Echo
<1>2. SearchTypes'
  BY <1>1 DEF IInv, SearchTypes
<1>3. \A r \in Programs : \A s \in up[r] : Answering(r, s) => Answering(r, s)'
  BY <1>1, PeersAssumption DEF Answering, IInv, SearchTypes
<1> QED BY <1>1, <1>2, <1>3, NetInv DEF IInv, SearchTypes

LEMMA LoseInv ==
  ASSUME IInv, NEW d \in net, Lose(d)
  PROVE  IInv'
<1>1. lost' = lost + 1 /\ SearchTypes'
  BY PeersAssumption DEF Lose, IInv, SearchTypes
<1> QED BY <1>1, NetInv DEF Lose, IInv, SearchTypes

LEMMA ExitInv ==
  ASSUME IInv, NEW p \in Programs, Exit(p)
  PROVE  IInv'
<1>1. /\ pc' = [pc EXCEPT ![p] = "gone"]
      /\ net' = {d \in net : d.to # p}
      /\ UNCHANGED <<cnt_retry, strsize, lost, up>>
  BY DEF Exit
<1>2. SearchTypes'
  BY <1>1 DEF IInv, SearchTypes, Phase
<1>3. UpWereServers' /\ NoSecondServer'
  BY <1>1 DEF IInv, SearchTypes, UpWereServers, NoSecondServer
<1>4. \A r, s \in Programs :
        r # p /\ s # p /\ Answering(r, s) => Answering(r, s)'
  BY <1>1 DEF Answering
<1>5. TimeoutsAreLosses'
  BY <1>1, <1>4 DEF IInv, SearchTypes, TimeoutsAreLosses
<1> QED BY <1>2, <1>3, <1>5 DEF IInv

\* The steps in a room.
LEMMA ProgramInRoomInv ==
  ASSUME IInv, NEW p \in Programs,
         Start(p) \/ Join(p) \/ Post(p) \/ Quit(p) \/ Recv(p) \/ RecvEnd(p)
  PROVE  IInv'
<1>1. UNCHANGED searchVars /\ pc[p] \in Phase
  BY DEF Start, Join, Post, Quit, Recv, RecvEnd, IInv, SearchTypes
<1>2. CASE Start(p)
  <2>1. pc[p] = "start" /\ pc' = [pc EXCEPT ![p] = "server"]
    BY <1>2 DEF Start
  <2> QED BY <1>1, <2>1, RoomInv DEF Phase
<1>3. CASE Join(p)
  <2>1. PICK q \in {"gone", "client"} : pc' = [pc EXCEPT ![p] = q]
    BY <1>3 DEF Join
  <2> QED BY <1>1, <1>3, <2>1, RoomInv DEF Join, Phase
<1>4. CASE Quit(p)
  <2>1. PICK q \in {"ending", "left"} : pc' = [pc EXCEPT ![p] = q]
    BY <1>4 DEF Quit
  <2> QED BY <1>1, <1>4, <2>1, RoomInv DEF Quit, Phase
<1>5. CASE RecvEnd(p)
  <2>1. pc[p] \in {"left", "ending", "client"} /\ pc' = [pc EXCEPT ![p] = "key"]
    BY <1>5 DEF RecvEnd, Closed
  <2> QED BY <1>1, <2>1, RoomInv DEF Phase
<1>6. CASE Post(p) \/ Recv(p)
  <2>1. pc' = pc
    BY <1>6 DEF Post, Recv
  <2>2. \A r, s \in Programs : Answering(r, s)' = Answering(r, s)
    BY <1>1 DEF Answering, searchVars
  <2>3. SearchTypes'
    BY <1>1, <2>1 DEF IInv, SearchTypes, searchVars
  <2> QED BY <1>1, <2>1, <2>2, <2>3, NetInv DEF IInv, SearchTypes, searchVars
<1> QED BY <1>2, <1>3, <1>4, <1>5, <1>6

LEMMA NextInv ==
  ASSUME IInv, SearchIsReliable, [Next]_vars
  PROVE  IInv'
<1>1. CASE UNCHANGED vars
  BY <1>1 DEF vars, searchVars, IInv, SearchTypes, UpWereServers,
              TimeoutsAreLosses, Answering, NoSecondServer
<1>2. ASSUME NEW p \in Programs, RecvHere(p) PROVE IInv'
  BY <1>2, EndInv DEF RecvHere
<1>3. ASSUME NEW p \in Programs, Program(p) \/ User(p) PROVE IInv'
  BY <1>2, <1>3, BeginInv, TimeoutInv, RecvOtherInv, RecvUdpPacketInv, ExitInv,
     ProgramInRoomInv DEF Program, User
<1> QED BY <1>1, <1>3, EchoInv, LoseInv DEF Next

\* No program becomes a server beside one that was there during its whole
\* search, for any number of programs, as long as the network loses fewer
\* datagrams than search_server sends HELOs.
THEOREM OneServer ==
  ASSUME SearchIsReliable
  PROVE  Spec => []NoSecondServer
<1>1. Init => IInv
  BY InitInv
<1>2. IInv /\ [Next]_vars => IInv'
  BY NextInv
<1>3. IInv => NoSecondServer
  BY DEF IInv
<1> QED BY <1>1, <1>2, <1>3, PTL DEF Spec

-----------------------------------------------------------------------------
(***************************************************************************)
(* Types.  A member shows no more messages than were sent to it, although  *)
(* the pieces it receives do not end where a message ends: what it shows   *)
(* began at the start of one, and each time there is another one.          *)
(***************************************************************************)
PeerTypes ==
  /\ pc \in [Programs -> Phase]
  /\ cnt_retry \in [Programs -> 0 .. MaxRetry - 1]
  /\ strsize \in [Programs -> Nat]
  /\ server \in [Programs -> Programs \cup {NOBODY}]
  /\ lost \in 0 .. MaxLost /\ posts \in 0 .. MaxPosts
  /\ up \in [Programs -> SUBSET Programs]

\* Only programs of this kind answer HERE.
NetTypes ==
  /\ net \subseteq Datagram
  /\ \A d \in net : d.type = "HERE" => d.from \in Programs

StreamTypes ==
  /\ arrived \in [Programs -> Nat]
  /\ taken \in [Programs -> Nat]
  /\ shown \in [Programs -> Nat]
  /\ \A p \in Programs :
       /\ taken[p] <= MSGBUF_SIZE * arrived[p]
       /\ MSGBUF_SIZE * shown[p] <= taken[p] + MSGBUF_SIZE - 1

TypeInv == PeerTypes /\ NetTypes /\ StreamTypes

LEMMA InitTypes == Init => TypeInv
BY PeersAssumption
   DEF Init, TypeInv, PeerTypes, NetTypes, StreamTypes, Phase, MSGBUF_SIZE

LEMMA TypeInvIsTypeOK == TypeInv => TypeOK
<1> SUFFICES ASSUME TypeInv PROVE TypeOK
  OBVIOUS
<1>1. \A p \in Programs : /\ taken[p] \in 0 .. MSGBUF_SIZE * arrived[p]
                          /\ shown[p] \in 0 .. arrived[p]
  BY DEF TypeInv, StreamTypes, MSGBUF_SIZE
<1> QED BY <1>1 DEF TypeInv, PeerTypes, NetTypes, TypeOK

LEMMA BroadcastTypes ==
  ASSUME NEW p \in Programs, NEW n
  PROVE  /\ Broadcast(p, n) \subseteq Datagram
         /\ \A d \in Broadcast(p, n) : d.type # "HERE"
BY DEF Broadcast, Listeners, Datagram

LEMMA ReplyTypes ==
  ASSUME NEW d \in Datagram, NEW t \in {"HERE", "other"},
         t = "HERE" => d.to \in Programs
  PROVE  /\ Reply(d, t) \subseteq Datagram
         /\ \A r \in Reply(d, t) : r.type = "HERE" => r.from \in Programs
BY DEF Reply, Datagram

\* The search.
LEMMA SearchKeepsTypes ==
  ASSUME TypeInv, NEW p \in Programs,
         \/ Begin(p) \/ Timeout(p) \/ RecvHere(p) \/ RecvOther(p)
         \/ RecvUdpPacket(p)
  PROVE  TypeInv'
<1> USE DEF TypeInv
<1>0. UNCHANGED streamVars
  BY DEF Begin, Timeout, RecvHere, RecvOther, RecvUdpPacket
<1>1. StreamTypes'
  BY <1>0 DEF StreamTypes, streamVars
<1>2. CASE Begin(p)
  <2>1. PeerTypes'
    BY <1>2 DEF Begin, PeerTypes, Phase, streamVars
  <2>2. NetTypes'
    BY <1>2, BroadcastTypes DEF Begin, NetTypes
  <2> QED BY <1>1, <2>1, <2>2
<1>3. CASE Timeout(p)
  <2>1. PeerTypes'
    BY <1>3, PeersAssumption
       DEF Timeout, Close, GivesUp, Counted, PeerTypes, Phase, streamVars
  <2>2. NetTypes'
    BY <1>3, BroadcastTypes DEF Timeout, Close, NetTypes
  <2> QED BY <1>1, <2>1, <2>2
<1>4. CASE RecvHere(p)
  <2>1. PICK d \in net :
          /\ d.type = "HERE" /\ server' = [server EXCEPT ![p] = d.from]
          /\ pc' = [pc EXCEPT ![p] = "join"] /\ Close(p)
          /\ UNCHANGED <<lost, up, streamVars>>
    BY <1>4 DEF RecvHere
  <2>2. d.from \in Programs
    BY <2>1 DEF NetTypes
  <2>3. PeerTypes'
    BY <2>1, <2>2, PeersAssumption DEF Close, PeerTypes, Phase, streamVars
  <2>4. NetTypes'
    BY <2>1 DEF Close, NetTypes
  <2> QED BY <1>1, <2>3, <2>4
<1>5. CASE RecvOther(p)
  <2>1. PICK d \in net, n \in AnswerSizes :
          /\ strsize' = [strsize EXCEPT ![p] = n]
          /\ net' = (net \ {d}) \cup Broadcast(p, n)
          /\ UNCHANGED <<pc, server, cnt_retry, lost, up, streamVars>>
    BY <1>5 DEF RecvOther
  <2>2. PeerTypes'
    BY <2>1, PeersAssumption DEF PeerTypes, streamVars
  <2>3. NetTypes'
    BY <2>1, BroadcastTypes DEF NetTypes
  <2> QED BY <1>1, <2>2, <2>3
<1>6. CASE RecvUdpPacket(p)
  <2>1. PICK d \in net :
          /\ d.to = p
          /\ net' = (net \ {d}) \cup
                    IF d.type = "HELO" THEN Reply(d, "HERE") ELSE {}
          /\ UNCHANGED <<pc, server, cnt_retry, strsize, lost, up, streamVars>>
    BY <1>6 DEF RecvUdpPacket
  <2>2. PeerTypes'
    BY <2>1 DEF PeerTypes, streamVars
  <2>3. NetTypes'
    BY <2>1, ReplyTypes DEF NetTypes
  <2> QED BY <1>1, <2>2, <2>3
<1> QED BY <1>2, <1>3, <1>4, <1>5, <1>6

LEMMA NetKeepsTypes ==
  ASSUME TypeInv,
         (\E e \in Echoers : Echo(e)) \/ (\E d \in net : Lose(d))
  PROVE  TypeInv'
<1> USE DEF TypeInv
<1>1. CASE \E e \in Echoers : Echo(e)
  <2>1. PICK d \in net :
          /\ net' = (net \ {d}) \cup Reply(d, "other")
          /\ UNCHANGED <<pc, server, cnt_retry, strsize, lost, up, streamVars>>
    BY <1>1 DEF Echo
  <2>2. NetTypes'
    BY <2>1, ReplyTypes DEF NetTypes
  <2> QED BY <2>1, <2>2 DEF PeerTypes, StreamTypes, streamVars
<1>2. CASE \E d \in net : Lose(d)
  BY <1>2, PeersAssumption
     DEF Lose, PeerTypes, NetTypes, StreamTypes, streamVars
<1> QED BY <1>1, <1>2

\* A piece that begins in the middle of a message is not shown.
LEMMA RecvKeepsCount ==
  ASSUME NEW a \in Nat, NEW t \in Nat, NEW s \in Nat,
         t < MSGBUF_SIZE * a, MSGBUF_SIZE * s <= t + MSGBUF_SIZE - 1,
         NEW n \in Int,
         n = t + IF MSGBUF_SIZE * a - t < MSGBUF_SIZE
                 THEN MSGBUF_SIZE * a - t ELSE MSGBUF_SIZE - 1,
         NEW k \in Int, k = s + IF t % MSGBUF_SIZE = 0 THEN 1 ELSE 0
  PROVE  /\ n \in Nat /\ n <= MSGBUF_SIZE * a
         /\ k \in Nat /\ MSGBUF_SIZE * k <= n + MSGBUF_SIZE - 1
<1>1. n \in Nat /\ n > t /\ n <= MSGBUF_SIZE * a
  BY DEF MSGBUF_SIZE
<1>2. CASE t % MSGBUF_SIZE = 0
  <2>1. PICK q \in Nat : t = MSGBUF_SIZE * q
    BY <1>2 DEF MSGBUF_SIZE
  <2>2. s <= q
    BY <2>1 DEF MSGBUF_SIZE
  <2> QED BY <1>1, <1>2, <2>1, <2>2 DEF MSGBUF_SIZE
<1>3. CASE t % MSGBUF_SIZE # 0
  BY <1>1, <1>3 DEF MSGBUF_SIZE
<1> QED BY <1>2, <1>3

LEMMA TransferTypes ==
  ASSUME StreamTypes, NEW M, Transfer(M), UNCHANGED <<taken, shown>>
  PROVE  StreamTypes'
<1>1. ASSUME NEW p \in Programs
      PROVE  arrived'[p] \in Nat /\ arrived'[p] >= arrived[p]
  BY DEF Transfer, StreamTypes
<1>2. arrived' \in [Programs -> Nat]
  BY <1>1 DEF Transfer
<1>3. ASSUME NEW p \in Programs
      PROVE  taken[p] <= MSGBUF_SIZE * arrived'[p]
  BY <1>1 DEF StreamTypes, MSGBUF_SIZE
<1> QED BY <1>2, <1>3 DEF StreamTypes

\* The steps in a room, and the end of a program.
LEMMA RoomKeepsTypes ==
  ASSUME TypeInv, NEW p \in Programs,
         \/ Start(p) \/ Join(p) \/ Post(p) \/ Quit(p) \/ Recv(p)
         \/ RecvEnd(p) \/ Exit(p)
  PROVE  TypeInv'
<1> USE DEF TypeInv
<1>1. CASE Start(p)
  <2>1. StreamTypes'
    BY <1>1, TransferTypes DEF Start
  <2>2. PeerTypes' /\ NetTypes'
    BY <1>1 DEF Start, PeerTypes, NetTypes, Phase, searchVars
  <2> QED BY <2>1, <2>2
<1>2. CASE Join(p)
  <2>1. StreamTypes'
    <3>1. CASE UNCHANGED arrived
      BY <1>2, <3>1 DEF Join, StreamTypes
    <3> QED BY <1>2, <3>1, TransferTypes DEF Join
  <2>2. PeerTypes' /\ NetTypes'
    BY <1>2 DEF Join, PeerTypes, NetTypes, Phase, searchVars
  <2> QED BY <2>1, <2>2
<1>3. CASE Post(p)
  <2>1. StreamTypes'
    BY <1>3, TransferTypes DEF Post
  <2>2. PeerTypes' /\ NetTypes'
    BY <1>3, PeersAssumption DEF Post, PeerTypes, NetTypes, searchVars
  <2> QED BY <2>1, <2>2
<1>4. CASE Quit(p)
  <2>1. StreamTypes'
    BY <1>4, TransferTypes DEF Quit
  <2>2. PeerTypes' /\ NetTypes'
    BY <1>4 DEF Quit, PeerTypes, NetTypes, Phase, searchVars
  <2> QED BY <2>1, <2>2
<1>5. CASE Recv(p)
  <2>1. PeerTypes' /\ NetTypes'
    BY <1>5 DEF Recv, PeerTypes, NetTypes, searchVars
  <2>2. /\ taken' = [taken EXCEPT ![p] = taken'[p]]
        /\ shown' = [shown EXCEPT ![p] = shown'[p]]
        /\ taken'[p] = taken[p] + IF MSGBUF_SIZE * arrived[p] - taken[p]
                                       < MSGBUF_SIZE
                                  THEN MSGBUF_SIZE * arrived[p] - taken[p]
                                  ELSE MSGBUF_SIZE - 1
        /\ shown'[p] = shown[p] + IF taken[p] % MSGBUF_SIZE = 0 THEN 1 ELSE 0
        /\ taken[p] < MSGBUF_SIZE * arrived[p] /\ arrived' = arrived
    BY <1>5 DEF Recv, Unread, Shows, StreamTypes, MSGBUF_SIZE
  <2>3. /\ arrived[p] \in Nat /\ taken[p] \in Nat /\ shown[p] \in Nat
        /\ MSGBUF_SIZE * shown[p] <= taken[p] + MSGBUF_SIZE - 1
    BY DEF StreamTypes
  <2>4. taken'[p] \in Int /\ shown'[p] \in Int
    BY <2>2, <2>3 DEF MSGBUF_SIZE
  <2>5. /\ taken'[p] \in Nat /\ taken'[p] <= MSGBUF_SIZE * arrived[p]
        /\ shown'[p] \in Nat
        /\ MSGBUF_SIZE * shown'[p] <= taken'[p] + MSGBUF_SIZE - 1
    BY <2>2, <2>3, <2>4, RecvKeepsCount
  <2>6. StreamTypes'
    BY <2>2, <2>5 DEF StreamTypes
  <2> QED BY <2>1, <2>6
<1>6. CASE RecvEnd(p)
  BY <1>6 DEF RecvEnd, PeerTypes, NetTypes, StreamTypes, Phase, searchVars,
              streamVars
<1>7. CASE Exit(p)
  <2>1. PeerTypes' /\ NetTypes'
    BY <1>7 DEF Exit, PeerTypes, NetTypes, Phase
  <2>2. StreamTypes'
    BY <1>7 DEF Exit, StreamTypes, MSGBUF_SIZE
  <2> QED BY <2>1, <2>2
<1> QED BY <1>1, <1>2, <1>3, <1>4, <1>5, <1>6, <1>7

\* Every variable keeps its type, and nobody reads or shows more of the
\* stream than was sent, whatever the network and the users do.
THEOREM TypeCorrect == Spec => []TypeOK
<1>1. TypeInv /\ [Next]_vars => TypeInv'
  <2> SUFFICES ASSUME TypeInv, [Next]_vars PROVE TypeInv'
    OBVIOUS
  <2>1. CASE UNCHANGED vars
    BY <2>1 DEF TypeInv, PeerTypes, NetTypes, StreamTypes, vars, searchVars,
                streamVars
  <2>2. CASE \E p \in Programs : Program(p) \/ User(p)
    BY <2>2, SearchKeepsTypes, RoomKeepsTypes DEF Program, User
  <2> QED BY <2>1, <2>2, NetKeepsTypes DEF Next
<1> QED BY <1>1, InitTypes, TypeInvIsTypeOK, PTL DEF Spec
=============================================================================
