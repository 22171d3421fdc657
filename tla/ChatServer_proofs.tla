------------------------- MODULE ChatServer_proofs -------------------------
(* Theorems about ChatServer for any number of clients, slots and lines.   *)
EXTENDS ChatServer, FiniteSetTheorems, TLAPS

(***************************************************************************)
(* Type correctness.                                                       *)
(***************************************************************************)
LEMMA FdsFacts == Fds \subseteq Nat /\ -1 \notin Fds /\ SOCK_LISTEN \notin Fds
BY ChatAssumption DEF Fds

\* The scan position stays within the slots.
LEMMA NextSlotType ==
  ASSUME TypeOK, NextSlot
  PROVE  pc' \in {"scan", "select"} /\ client_id' \in Slots
BY ChatAssumption DEF TypeOK, NextSlot, Slots

OnlyReset(c) ==
  conn'[c] = conn[c] \/ (conn[c] = "fin" /\ conn'[c] = "finrst")

\* Writing to sockets changes no connection but a "fin" one to "finrst".
LEMMA WriteToConn ==
  ASSUME TypeOK, NEW S, WriteTo(S)
  PROVE  /\ conn' \in [Clients -> ConnState]
         /\ \A c \in Clients : OnlyReset(c)
BY DEF TypeOK, WriteTo, ConnState, OnlyReset

\* A broadcast keeps the types.
LEMMA BroadcastType ==
  ASSUME TypeOK, NEW S \in SUBSET Slots, NEW M \in SUBSET Message,
         Broadcast(S, M)
  PROVE  /\ conn' \in [Clients -> ConnState]
         /\ \A c \in Clients : OnlyReset(c)
         /\ got' \in [Clients -> SUBSET Message]
         /\ pc' \in {"select", "refuse", "scan", "reselect", "dead"}
         /\ client_id' \in Slots
<1> DEFINE dying   == {i \in S : Reset(fd[sock[i]])}
           reached == {i \in S : \A j \in dying : i < j}
           to      == {fd[sock[i]] : i \in reached}
<1>1. WriteTo(to)
  BY DEF Broadcast
<1>2. /\ conn' \in [Clients -> ConnState]
      /\ \A c \in Clients : OnlyReset(c)
  BY <1>1, WriteToConn
<1>3. got' \in [Clients -> SUBSET Message]
  BY DEF Broadcast, TypeOK
<1>4. pc' \in {"select", "refuse", "scan", "reselect", "dead"}
      /\ client_id' \in Slots
  <2>1. CASE NextSlot
    BY <2>1, NextSlotType
  <2>2. CASE pc' = "dead" /\ UNCHANGED client_id
    BY <2>2 DEF TypeOK
  <2> QED BY <2>1, <2>2 DEF Broadcast
<1> QED BY <1>2, <1>3, <1>4

LEMMA RecipientsAreSlots == \A from : Recipients(from) \subseteq Slots
BY DEF Recipients

LEMMA InitTypeOK == Init => TypeOK
<1> SUFFICES ASSUME Init PROVE TypeOK
  OBVIOUS
<1>1. 0 \in Slots /\ 0 \in Nat
  BY ChatAssumption DEF Slots
<1> QED BY <1>1 DEF Init, TypeOK, ConnState

LEMMA EnvironmentTypeOK ==
  ASSUME TypeOK, NEW c \in Clients, Connect(c) \/ SendLine(c) \/ Leave(c)
  PROVE  TypeOK'
<1> USE DEF TypeOK
<1>1. CASE Connect(c)
  BY <1>1 DEF Connect, ConnState, clientVars, serverVars
<1>2. CASE SendLine(c)
  <2>1. PICK b \in BOOLEAN :
          inbox' = [inbox EXCEPT ![c] =
                      Append(@, [from |-> c, n |-> sent[c] + 1, blank |-> b])]
    BY <1>2 DEF SendLine
  <2>2. sent[c] + 1 \in Nat
    OBVIOUS
  <2>3. [from |-> c, n |-> sent[c] + 1, blank |-> b] \in Line
    BY <2>2 DEF Line
  <2>4. inbox' \in [Clients -> Seq(Line)]
    BY <2>1, <2>3
  <2>5. sent' \in [Clients -> Nat]
    BY <1>2, <2>2 DEF SendLine
  <2> QED BY <1>2, <2>4, <2>5 DEF SendLine, serverVars
<1>3. CASE Leave(c)
  BY <1>3 DEF Leave, ConnState, clientVars, serverVars
<1> QED BY <1>1, <1>2, <1>3

LEMMA ServeTypeOK ==
  ASSUME TypeOK, NEW c \in Clients, Serve(c)
  PROVE  TypeOK'
<1>1. CASE PromptAgain(c)
  <2>1. conn' \in [Clients -> ConnState]
    BY <1>1, WriteToConn DEF PromptAgain
  <2>2. /\ pc' \in {"select", "refuse", "scan", "reselect", "dead"}
        /\ client_id' \in Slots
    BY <1>1, NextSlotType DEF PromptAgain, TypeOK
  <2> QED BY <1>1, <2>1, <2>2 DEF PromptAgain, Recv, TypeOK, clientVars
<1>2. CASE SetClientName(c)
  <2>1. Broadcast(Recipients(-1), {}) /\ Recipients(-1) \subseteq Slots
    BY <1>2, RecipientsAreSlots DEF SetClientName
  <2>2. /\ conn' \in [Clients -> ConnState]
        /\ got' \in [Clients -> SUBSET Message]
        /\ pc' \in {"select", "refuse", "scan", "reselect", "dead"}
        /\ client_id' \in Slots
    BY <2>1, BroadcastType
  <2> QED BY <1>2, <2>2 DEF SetClientName, Recv, TypeOK
<1>3. CASE RelayChat(c)
  <2> DEFINE m == [name |-> name[client_id], text |-> inbox[c]]
  <2>1. m \in Message
    BY DEF TypeOK, Message
  <2>2. /\ Broadcast(Recipients(client_id), {m})
        /\ Recipients(client_id) \subseteq Slots
    BY <1>3, RecipientsAreSlots DEF RelayChat
  <2>3. /\ conn' \in [Clients -> ConnState]
        /\ got' \in [Clients -> SUBSET Message]
        /\ pc' \in {"select", "refuse", "scan", "reselect", "dead"}
        /\ client_id' \in Slots
    BY <2>1, <2>2, BroadcastType
  <2>4. inbox' \in [Clients -> Seq(Line)]
    BY <1>3 DEF RelayChat, Recv, TypeOK
  <2>5. UNCHANGED <<backlog, fd, sent, sock, name, Cnt_client, Max_sd, mask,
                    readfds>>
    BY <1>3 DEF RelayChat
  <2> QED BY <2>3, <2>4, <2>5 DEF TypeOK
<1>4. CASE ClientExit(c)
  <2>1. /\ Broadcast(Recipients(client_id), {})
        /\ Recipients(client_id) \subseteq Slots
    BY <1>4, RecipientsAreSlots DEF ClientExit
  <2>2. /\ conn' \in [Clients -> ConnState]
        /\ got' \in [Clients -> SUBSET Message]
        /\ pc' \in {"select", "refuse", "scan", "reselect", "dead"}
        /\ client_id' \in Slots
    BY <2>1, BroadcastType
  <2>3. ReleaseSlot /\ UNCHANGED <<backlog, inbox, sent, Max_sd, readfds>>
    BY <1>4 DEF ClientExit
  <2>4. fd' \in [Fds -> Clients \cup {NOBODY}]
    BY <2>3 DEF ReleaseSlot, TypeOK
  <2>5. sock' \in [Slots -> Fds \cup {-1}]
    BY <2>3 DEF ReleaseSlot, TypeOK
  <2>6. name' \in [Slots -> Seq(Line)]
    BY <2>3 DEF ReleaseSlot, TypeOK
  <2>7. Cnt_client' \in Int /\ mask' = mask
    BY <2>3 DEF ReleaseSlot, TypeOK
  <2> QED BY <2>2, <2>3, <2>4, <2>5, <2>6, <2>7 DEF TypeOK
<1>5. CASE RecvFails(c)
  BY <1>5 DEF RecvFails, TypeOK, netVars, clientVars
<1> QED BY <1>1, <1>2, <1>3, <1>4, <1>5 DEF Serve

LEMMA SelectReadfdsType ==
  ASSUME TypeOK, SelectReadfds
  PROVE  readfds' \in SUBSET (Fds \cup {SOCK_LISTEN})
BY DEF TypeOK, SelectReadfds

LEMMA LoopTypeOK ==
  ASSUME TypeOK,
         Select \/ RefuseWhenFull \/ SkipSlot \/ ClientJoin \/ Reselect
  PROVE  TypeOK'
<1>1. CASE Select
  BY <1>1, SelectReadfdsType DEF Select, TypeOK, netVars, clientVars
<1>2. CASE RefuseWhenFull
  BY <1>2 DEF RefuseWhenFull, TypeOK, clientVars
<1>3. CASE SkipSlot
  BY <1>3, NextSlotType DEF SkipSlot, TypeOK, netVars, clientVars
<1>4. CASE ClientJoin
  <2>1. Head(backlog) \in Clients /\ Tail(backlog) \in Seq(Clients)
    BY <1>4 DEF ClientJoin, TypeOK
  <2>2. conn' \in [Clients -> ConnState]
    BY <1>4, WriteToConn DEF ClientJoin
  <2>3. PICK f \in Fds :
          /\ fd' = [fd EXCEPT ![f] = Head(backlog)]
          /\ sock' = [sock EXCEPT ![client_id] = f]
          /\ setMax_sd(f)
          /\ mask' = mask \cup {f}
    BY <1>4 DEF ClientJoin
  <2> QED BY <1>4, <2>1, <2>2, <2>3
          DEF ClientJoin, TypeOK, setMax_sd, clientVars
<1>5. CASE Reselect
  BY <1>5, SelectReadfdsType, NextSlotType
     DEF Reselect, TypeOK, netVars, clientVars
<1> QED BY <1>1, <1>2, <1>3, <1>4, <1>5

\* Every variable of the server, the kernel and the clients keeps its type.
THEOREM TypeCorrect == Spec => []TypeOK
<1>1. TypeOK /\ [Next]_vars => TypeOK'
  <2> SUFFICES ASSUME TypeOK, [Next]_vars PROVE TypeOK'
    OBVIOUS
  <2>1. CASE Server
    BY <2>1, LoopTypeOK, ServeTypeOK DEF Server
  <2>2. CASE Environment
    BY <2>2, EnvironmentTypeOK DEF Environment
  <2>3. CASE UNCHANGED vars
    BY <2>3 DEF TypeOK, vars, netVars, clientVars, serverVars
  <2> QED BY <2>1, <2>2, <2>3 DEF Next
<1> QED BY InitTypeOK, <1>1, PTL DEF Spec

-----------------------------------------------------------------------------
(***************************************************************************)
(* Slots, descriptors and the accept queue.  SlotsAreWatched and           *)
(* OneHandlePerClient are inductive together with the fact that a client   *)
(* which has not connected yet has neither.                                *)
(***************************************************************************)
NewHasNothing ==
  \A c \in Clients : conn[c] = "new" => ~IsOpen(c) /\ ~InBacklog(c)

Handles == SlotsAreWatched /\ OneHandlePerClient /\ NewHasNothing

handleVars == <<fd, sock, mask, Max_sd, backlog>>

\* Steps that touch neither table nor queue.
LEMMA HandlesUnchanged ==
  ASSUME Handles, UNCHANGED handleVars,
         \A c \in Clients : conn'[c] = "new" => conn[c] = "new"
  PROVE  Handles'
BY DEF Handles, handleVars, SlotsAreWatched, OneHandlePerClient,
       NewHasNothing, Occupied, IsOpen, InBacklog

LEMMA ConnectHandles ==
  ASSUME TypeOK, Handles, NEW c \in Clients, Connect(c)
  PROVE  Handles'
<1>1. /\ backlog' = Append(backlog, c) /\ backlog \in Seq(Clients)
      /\ conn' = [conn EXCEPT ![c] = "up"] /\ conn[c] = "new"
      /\ conn \in [Clients -> ConnState]
      /\ UNCHANGED <<fd, sock, mask, Max_sd>>
  BY DEF Connect, TypeOK, serverVars
<1>2. ~IsOpen(c) /\ ~InBacklog(c)
  BY <1>1 DEF Handles, NewHasNothing
<1>3. /\ Len(backlog') = Len(backlog) + 1 /\ Len(backlog) \in Nat
      /\ \A i \in 1 .. Len(backlog) : backlog'[i] = backlog[i]
      /\ backlog'[Len(backlog) + 1] = c
  BY <1>1
<1>4. SlotsAreWatched'
  BY <1>1 DEF Handles, SlotsAreWatched, Occupied
<1>5. \A d \in Clients : IsOpen(d)' <=> IsOpen(d)
  BY <1>1 DEF IsOpen
<1>6. OneHandlePerClient'
  <2>1. \A d \in Clients : InBacklog(d)' => (InBacklog(d) \/ d = c)
    BY <1>3 DEF InBacklog
  <2>2. \A d \in Clients : ~(IsOpen(d)' /\ InBacklog(d)')
    BY <2>1, <1>2, <1>5 DEF Handles, OneHandlePerClient
  <2>3. \A i, j \in 1 .. Len(backlog') : backlog'[i] = backlog'[j] => i = j
    BY <1>2, <1>3 DEF Handles, OneHandlePerClient, InBacklog
  <2> QED BY <2>2, <2>3, <1>1 DEF Handles, OneHandlePerClient
<1>7. NewHasNothing'
  BY <1>1, <1>3, <1>5 DEF Handles, NewHasNothing, InBacklog
<1> QED BY <1>4, <1>6, <1>7 DEF Handles

\* The head of the accept queue is taken out and is not in the rest.
LEMMA BacklogTail ==
  ASSUME TypeOK, Handles, backlog # <<>>, backlog' = Tail(backlog)
  PROVE  /\ Len(backlog') = Len(backlog) - 1 /\ Len(backlog) \in Nat
         /\ \A i \in 1 .. Len(backlog') :
              /\ backlog'[i] = backlog[i + 1]
              /\ i + 1 \in 1 .. Len(backlog)
              /\ backlog'[i] # Head(backlog)
         /\ Head(backlog) = backlog[1] /\ Head(backlog) \in Clients
         /\ 1 \in 1 .. Len(backlog)
<1>1. backlog \in Seq(Clients)
  BY DEF TypeOK
<1>2. /\ Len(backlog') = Len(backlog) - 1 /\ Len(backlog) \in Nat
      /\ \A i \in 1 .. Len(backlog') : backlog'[i] = backlog[i + 1]
      /\ Head(backlog) = backlog[1] /\ Head(backlog) \in Clients
      /\ 1 \in 1 .. Len(backlog)
  BY <1>1
<1> QED BY <1>2 DEF Handles, OneHandlePerClient

LEMMA RefuseHandles ==
  ASSUME TypeOK, Handles, RefuseWhenFull
  PROVE  Handles'
<1>1. /\ backlog # <<>> /\ backlog' = Tail(backlog)
      /\ UNCHANGED <<conn, fd, sock, mask, Max_sd>>
  BY DEF RefuseWhenFull
<1>2. SlotsAreWatched'
  BY <1>1 DEF Handles, SlotsAreWatched, Occupied
<1>3. OneHandlePerClient'
  <2>1. \A c \in Clients : ~(IsOpen(c)' /\ InBacklog(c)')
    <3>1. \A c \in Clients : InBacklog(c)' => InBacklog(c)
      BY <1>1, BacklogTail DEF InBacklog
    <3>2. \A c \in Clients : IsOpen(c)' => IsOpen(c)
      BY <1>1 DEF IsOpen
    <3> QED BY <3>1, <3>2 DEF Handles, OneHandlePerClient
  <2>2. \A i, j \in 1 .. Len(backlog') : backlog'[i] = backlog'[j] => i = j
    BY <1>1, BacklogTail DEF Handles, OneHandlePerClient
  <2> QED BY <2>1, <2>2, <1>1 DEF Handles, OneHandlePerClient
<1>4. NewHasNothing'
  BY <1>1, BacklogTail DEF Handles, NewHasNothing, InBacklog, IsOpen
<1> QED BY <1>2, <1>3, <1>4 DEF Handles

LEMMA JoinHandles ==
  ASSUME TypeOK, Handles, ClientJoin
  PROVE  Handles'
<1> DEFINE h == Head(backlog)
<1>1. /\ backlog # <<>> /\ backlog' = Tail(backlog)
      /\ sock[client_id] = -1 /\ client_id \in Slots
  BY DEF ClientJoin, TypeOK
<1>2. PICK f \in Fds :
        /\ fd[f] = NOBODY
        /\ fd' = [fd EXCEPT ![f] = h]
        /\ sock' = [sock EXCEPT ![client_id] = f]
        /\ setMax_sd(f)
        /\ mask' = mask \cup {f}
  BY DEF ClientJoin, IsLowestFree
<1>3. /\ fd \in [Fds -> Clients \cup {NOBODY}]
      /\ sock \in [Slots -> Fds \cup {-1}]
      /\ f # -1 /\ h \in Clients /\ h # NOBODY
      /\ h = backlog[1] /\ 1 \in 1 .. Len(backlog)
  BY <1>1, <1>2, BacklogTail, FdsFacts, ChatAssumption DEF TypeOK
<1>4. ~IsOpen(h)
  BY <1>3 DEF Handles, OneHandlePerClient, InBacklog
<1>5. \A i \in Occupied : sock[i] # f /\ i # client_id
  BY <1>1, <1>2 DEF Handles, SlotsAreWatched, Occupied
<1>6. Occupied' = Occupied \cup {client_id}
  BY <1>1, <1>2, <1>3 DEF Occupied
<1>7. SlotsAreWatched'
  <2>1. \A i \in Occupied' : fd'[sock'[i]] # NOBODY /\ sock'[i] \in mask'
    BY <1>1, <1>2, <1>3, <1>5, <1>6 DEF Handles, SlotsAreWatched, Occupied
  <2>2. \A i, j \in Occupied' : sock'[i] = sock'[j] => i = j
    BY <1>1, <1>2, <1>3, <1>5, <1>6 DEF Handles, SlotsAreWatched, Occupied
  <2>3. \A g \in mask' : g <= Max_sd'
    BY <1>2, FdsFacts, ChatAssumption
       DEF Handles, SlotsAreWatched, setMax_sd, TypeOK
  <2> QED BY <2>1, <2>2, <2>3 DEF SlotsAreWatched
<1>8. \A c \in Clients : IsOpen(c)' => (IsOpen(c) \/ c = h)
  BY <1>2, <1>3 DEF IsOpen
<1>9. OneHandlePerClient'
  <2>1. \A g \in Fds : fd'[g] # NOBODY => \E i \in Slots : sock'[i] = g
    BY <1>1, <1>2, <1>3, <1>5, FdsFacts
       DEF Handles, OneHandlePerClient, Occupied
  <2>2. \A g, k \in Fds : (fd'[g] = fd'[k] /\ fd'[g] # NOBODY) => g = k
    BY <1>2, <1>3, <1>4 DEF Handles, OneHandlePerClient, IsOpen
  <2>3. \A c \in Clients : ~(IsOpen(c)' /\ InBacklog(c)')
    <3>1. \A c \in Clients : InBacklog(c)' => (InBacklog(c) /\ c # h)
      BY <1>1, BacklogTail DEF InBacklog
    <3> QED BY <3>1, <1>8 DEF Handles, OneHandlePerClient
  <2>4. \A i, j \in 1 .. Len(backlog') : backlog'[i] = backlog'[j] => i = j
    BY <1>1, BacklogTail DEF Handles, OneHandlePerClient
  <2> QED BY <2>1, <2>2, <2>3, <2>4 DEF OneHandlePerClient
<1>10. NewHasNothing'
  <2>1. \A c \in Clients : conn'[c] = "new" => conn[c] = "new"
    BY WriteToConn DEF ClientJoin, OnlyReset
  <2>2. \A c \in Clients : InBacklog(c)' => InBacklog(c)
    BY <1>1, BacklogTail DEF InBacklog
  <2>3. InBacklog(h)
    BY <1>3 DEF InBacklog
  <2> QED BY <1>3, <1>8, <2>1, <2>2, <2>3 DEF Handles, NewHasNothing
<1> QED BY <1>7, <1>9, <1>10 DEF Handles

LEMMA ExitHandles ==
  ASSUME TypeOK, Handles, NEW c \in Clients, ClientExit(c)
  PROVE  Handles'
<1>1. /\ ReleaseSlot /\ UNCHANGED <<backlog, Max_sd>>
      /\ sock[client_id] # -1 /\ client_id \in Slots
      /\ fd[sock[client_id]] = c
  BY DEF ClientExit, Receiving, TypeOK
<1>2. /\ fd' = [fd EXCEPT ![sock[client_id]] = NOBODY]
      /\ sock' = [sock EXCEPT ![client_id] = -1]
      /\ mask' = mask
      /\ fd \in [Fds -> Clients \cup {NOBODY}]
      /\ sock \in [Slots -> Fds \cup {-1}]
      /\ sock[client_id] \in Fds
  BY <1>1 DEF ReleaseSlot, TypeOK
<1>3. Occupied' = Occupied \ {client_id} /\ client_id \in Occupied
  BY <1>1, <1>2 DEF Occupied
<1>4. \A i \in Occupied' : sock'[i] = sock[i] /\ sock[i] # sock[client_id]
                         /\ i \in Occupied /\ sock[i] \in Fds
  BY <1>1, <1>2, <1>3 DEF Handles, SlotsAreWatched, Occupied
<1>5. SlotsAreWatched'
  BY <1>1, <1>2, <1>4 DEF Handles, SlotsAreWatched
<1>6. \A d \in Clients : IsOpen(d)' => IsOpen(d)
  BY <1>2, ChatAssumption DEF IsOpen
<1>7. OneHandlePerClient'
  <2>1. \A g \in Fds : fd'[g] # NOBODY => \E i \in Slots : sock'[i] = g
    BY <1>1, <1>2 DEF Handles, OneHandlePerClient
  <2>2. \A g, k \in Fds : (fd'[g] = fd'[k] /\ fd'[g] # NOBODY) => g = k
    BY <1>2 DEF Handles, OneHandlePerClient
  <2>3. \A d \in Clients : ~(IsOpen(d)' /\ InBacklog(d)')
    BY <1>1, <1>6 DEF Handles, OneHandlePerClient, InBacklog
  <2> QED BY <2>1, <2>2, <2>3, <1>1 DEF Handles, OneHandlePerClient
<1>8. NewHasNothing'
  <2>1. \A d \in Clients : conn'[d] = "new" => conn[d] = "new"
    BY RecipientsAreSlots, BroadcastType DEF ClientExit, OnlyReset
  <2> QED BY <2>1, <1>1, <1>6 DEF Handles, NewHasNothing, InBacklog
<1> QED BY <1>5, <1>7, <1>8 DEF Handles

\* The other steps leave the tables and the queue alone.
LEMMA OtherHandles ==
  ASSUME TypeOK, Handles, NEW c \in Clients,
         \/ SendLine(c) \/ Leave(c)
         \/ PromptAgain(c) \/ SetClientName(c) \/ RelayChat(c) \/ RecvFails(c)
         \/ Select \/ SkipSlot \/ Reselect
  PROVE  Handles'
<1>1. UNCHANGED handleVars
  BY DEF handleVars, SendLine, Leave, PromptAgain, SetClientName, RelayChat,
         RecvFails, Select, SkipSlot, Reselect, netVars, serverVars
<1>2. \A d \in Clients : conn'[d] = "new" => conn[d] = "new"
  <2>1. CASE PromptAgain(c)
    BY <2>1, WriteToConn DEF PromptAgain, OnlyReset
  <2>2. CASE SetClientName(c)
    <3>1. Broadcast(Recipients(-1), {}) /\ Recipients(-1) \subseteq Slots
      BY <2>2, RecipientsAreSlots DEF SetClientName
    <3>2. \A d \in Clients : OnlyReset(d)
      BY <3>1, BroadcastType
    <3> QED BY <3>2 DEF OnlyReset
  <2>3. CASE RelayChat(c)
    <3>1. [name |-> name[client_id], text |-> inbox[c]] \in Message
      BY DEF TypeOK, Message, RelayChat
    <3> QED BY <2>3, <3>1, RecipientsAreSlots, BroadcastType
            DEF RelayChat, OnlyReset
  <2>4. CASE Leave(c)
    BY <2>4 DEF Leave, TypeOK
  <2>5. CASE \/ SendLine(c) \/ RecvFails(c) \/ Select \/ SkipSlot \/ Reselect
    BY <2>5 DEF SendLine, RecvFails, Select, SkipSlot, Reselect, netVars
  <2> QED BY <2>1, <2>2, <2>3, <2>4, <2>5
<1> QED BY <1>1, <1>2, HandlesUnchanged

LEMMA InitHandles == Init => Handles
<1> SUFFICES ASSUME Init PROVE Handles
  OBVIOUS
<1>1. Occupied = {} /\ backlog = <<>> /\ mask = {SOCK_LISTEN}
  BY DEF Init, Occupied
<1>2. \A c \in Clients : ~IsOpen(c)
  BY ChatAssumption DEF Init, IsOpen
<1>3. SlotsAreWatched
  BY <1>1, ChatAssumption DEF SlotsAreWatched, Init
<1>4. OneHandlePerClient
  BY <1>1, <1>2 DEF OneHandlePerClient, Init
<1>5. NewHasNothing
  BY <1>1, <1>2 DEF NewHasNothing, InBacklog
<1> QED BY <1>3, <1>4, <1>5 DEF Handles

LEMMA NextHandles == TypeOK /\ Handles /\ [Next]_vars => Handles'
<1> SUFFICES ASSUME TypeOK, Handles, [Next]_vars PROVE Handles'
  OBVIOUS
<1>1. CASE UNCHANGED vars
  BY <1>1, HandlesUnchanged
     DEF vars, netVars, serverVars, clientVars, handleVars
<1>2. CASE Environment
  BY <1>2, ConnectHandles, OtherHandles DEF Environment
<1>3. CASE \E c \in Clients : Serve(c)
  BY <1>3, ExitHandles, OtherHandles DEF Serve
<1>4. CASE RefuseWhenFull
  BY <1>4, RefuseHandles
<1>5. CASE ClientJoin
  BY <1>5, JoinHandles
<1>6. CASE Select \/ SkipSlot \/ Reselect
  <2>1. UNCHANGED <<handleVars, conn>>
    BY <1>6 DEF Select, SkipSlot, Reselect, netVars, handleVars
  <2> QED BY <2>1, HandlesUnchanged
<1> QED BY <1>1, <1>2, <1>3, <1>4, <1>5, <1>6 DEF Next, Server

LEMMA HandlesCorrect == Spec => []Handles
BY InitHandles, NextHandles, TypeCorrect, PTL DEF Spec

\* A slot in use holds an open, watched descriptor of its own: select sees
\* every client the server knows of.
THEOREM SlotsAreAlwaysWatched == Spec => []SlotsAreWatched
<1>1. Handles => SlotsAreWatched
  BY DEF Handles
<1> QED BY <1>1, HandlesCorrect, PTL

\* No open descriptor is lost by the server and no connection is held twice.
THEOREM NoHandleLeaks == Spec => []OneHandlePerClient
<1>1. Handles => OneHandlePerClient
  BY DEF Handles
<1> QED BY <1>1, HandlesCorrect, PTL

-----------------------------------------------------------------------------
(***************************************************************************)
(* recv.  Until somebody leaves no closed descriptor is in the mask, so    *)
(* every select tells the truth about the slots the scan has still to      *)
(* visit; and nobody but the scan itself takes a client's lines away.      *)
(***************************************************************************)
ReadyAhead ==
  ~SomebodyLeft =>
    /\ Stale = {}
    /\ pc \in {"refuse", "scan"} =>
         \A i \in Occupied :
           i >= client_id /\ sock[i] \in readfds => Readable(fd[sock[i]])

LEMMA ServeConn ==
  ASSUME TypeOK, NEW c \in Clients, Serve(c), NEW d \in Clients
  PROVE  OnlyReset(d)
<1>1. CASE PromptAgain(c)
  BY <1>1, WriteToConn DEF PromptAgain
<1>2. CASE SetClientName(c)
  <2>1. Broadcast(Recipients(-1), {}) /\ Recipients(-1) \subseteq Slots
    BY <1>2, RecipientsAreSlots DEF SetClientName
  <2> QED BY <2>1, BroadcastType
<1>3. CASE RelayChat(c)
  <2>1. [name |-> name[client_id], text |-> inbox[c]] \in Message
    BY DEF TypeOK, Message
  <2> QED BY <1>3, <2>1, RecipientsAreSlots, BroadcastType DEF RelayChat
<1>4. CASE ClientExit(c)
  BY <1>4, RecipientsAreSlots, BroadcastType DEF ClientExit
<1>5. CASE RecvFails(c)
  BY <1>5 DEF RecvFails, netVars, OnlyReset
<1> QED BY <1>1, <1>2, <1>3, <1>4, <1>5 DEF Serve

\* Who has left stays away.
LEMMA LeftForGood ==
  ASSUME TypeOK, [Next]_vars, SomebodyLeft
  PROVE  SomebodyLeft'
<1>1. PICK c \in Clients : conn[c] \notin {"new", "up"}
  BY DEF SomebodyLeft
<1>2. conn'[c] \notin {"new", "up"}
  <2>1. CASE UNCHANGED vars
    BY <1>1, <2>1 DEF vars, netVars
  <2>2. CASE Environment
    BY <1>1, <2>2 DEF Environment, Connect, SendLine, Leave, TypeOK
  <2>3. CASE \E d \in Clients : Serve(d)
    BY <1>1, <2>3, ServeConn DEF OnlyReset
  <2>4. CASE ClientJoin
    BY <1>1, <2>4, WriteToConn DEF ClientJoin, OnlyReset
  <2>5. CASE Select \/ RefuseWhenFull \/ SkipSlot \/ Reselect
    BY <1>1, <2>5 DEF Select, RefuseWhenFull, SkipSlot, Reselect, netVars
  <2> QED BY <2>1, <2>2, <2>3, <2>4, <2>5 DEF Next, Server
<1> QED BY <1>2 DEF SomebodyLeft

\* A select on a mask without closed descriptors reports what is ready.
LEMMA TrueReadfds ==
  ASSUME TypeOK, Stale = {}, SelectReadfds
  PROVE  /\ \A f \in Fds : f \in readfds' => Readable(fd[f])
         /\ SOCK_LISTEN \in readfds' => backlog # <<>>
BY FdsFacts DEF SelectReadfds, Ready

\* The steps of the select calls.
LEMMA SelectReadyAhead ==
  ASSUME TypeOK, ReadyAhead, Select \/ Reselect
  PROVE  ReadyAhead'
<1>1. UNCHANGED <<conn, inbox, fd, sock, mask>> /\ SelectReadfds
  BY DEF Select, Reselect, netVars
<1>2. SUFFICES ASSUME ~SomebodyLeft
               PROVE  /\ Stale' = {}
                      /\ \A i \in Occupied' : sock'[i] \in readfds'
                                                => Readable(fd[sock[i]])'
  BY <1>1 DEF ReadyAhead, SomebodyLeft
<1>3. Stale = {} /\ Stale' = {}
  BY <1>1, <1>2 DEF ReadyAhead, Stale
<1>4. \A i \in Occupied : sock[i] \in Fds
  BY DEF Occupied, TypeOK
<1> QED BY <1>1, <1>3, <1>4, TrueReadfds DEF Occupied, Readable

\* Serving a client that has not left empties only its own socket.
LEMMA ServeReadyAhead ==
  ASSUME TypeOK, Handles, ReadyAhead, NEW c \in Clients, Serve(c),
         ~SomebodyLeft'
  PROVE  ReadyAhead'
<1>1. ~SomebodyLeft
  BY LeftForGood DEF Next, Server
<1>2. conn[c] \in {"new", "up"}
  BY <1>1 DEF SomebodyLeft
<1>3. /\ Receiving(c) /\ Recv(c)
      /\ UNCHANGED <<fd, sock, mask, readfds>>
      /\ NextSlot \/ pc' = "dead"
  BY <1>2 DEF Serve, PromptAgain, SetClientName, RelayChat, ClientExit,
              RecvFails, Broadcast
<1>4. Stale' = {}
  BY <1>1, <1>3 DEF ReadyAhead, Stale
<1>5. ASSUME pc' \in {"refuse", "scan"}, NEW i \in Occupied',
             i >= client_id', sock[i] \in readfds
      PROVE  Readable(fd[sock[i]])'
  <2>1. client_id' = client_id + 1 /\ client_id \in Int /\ i \in Int
    BY <1>3, <1>5 DEF NextSlot, TypeOK, Slots, Occupied
  <2>2. i \in Occupied /\ i >= client_id /\ i # client_id
    BY <1>3, <1>5, <2>1 DEF Occupied
  <2>3. Readable(fd[sock[i]]) /\ pc = "scan"
    BY <1>1, <1>3, <1>5, <2>2 DEF ReadyAhead, Receiving
  <2>4. /\ client_id \in Occupied /\ sock[client_id] \in Fds
        /\ sock[i] \in Fds /\ fd[sock[client_id]] = c
    BY <1>3, <2>2 DEF Receiving, Occupied, TypeOK
  <2>5. fd[sock[i]] \in Clients /\ fd[sock[i]] # c
    BY <2>2, <2>4, ChatAssumption
       DEF Handles, SlotsAreWatched, OneHandlePerClient, TypeOK
  <2>6. inbox[fd[sock[i]]] # <<>>
    BY <1>1, <2>3, <2>5 DEF Readable, SomebodyLeft
  <2> QED BY <1>3, <2>5, <2>6 DEF Recv, TypeOK, Readable
<1> QED BY <1>3, <1>4, <1>5 DEF ReadyAhead

LEMMA NextReadyAhead ==
  ASSUME TypeOK, Handles, ReadyAhead, [Next]_vars
  PROVE  ReadyAhead'
<1> SUFFICES ASSUME ~SomebodyLeft' PROVE ReadyAhead'
  BY DEF ReadyAhead
<1>0. ~SomebodyLeft
  BY LeftForGood
<1>1. CASE UNCHANGED vars
  BY <1>1 DEF ReadyAhead, SomebodyLeft, Stale, Occupied, Readable, vars,
              netVars, serverVars
<1>2. ASSUME NEW c \in Clients, Connect(c) \/ SendLine(c) \/ Leave(c)
      PROVE  ReadyAhead'
  <2>1. UNCHANGED <<fd, serverVars>>
    BY <1>2 DEF Connect, SendLine, Leave
  <2>2. \A d \in Clients : inbox[d] # <<>> => inbox'[d] # <<>>
    <3>1. CASE Connect(c) \/ Leave(c)
      BY <3>1 DEF Connect, Leave
    <3>2. CASE SendLine(c)
      <4>1. PICK l : inbox' = [inbox EXCEPT ![c] = Append(@, l)]
        BY <3>2 DEF SendLine
      <4>2. inbox \in [Clients -> Seq(Line)]
        BY DEF TypeOK
      <4>3. \A s \in Seq(Line) : Len(Append(s, l)) = Len(s) + 1 /\ Len(s) \in Nat
        OBVIOUS
      <4>4. Append(inbox[c], l) # <<>>
        BY <4>2, <4>3
      <4> QED BY <4>1, <4>2, <4>4
    <3> QED BY <1>2, <3>1, <3>2
  <2>3. \A i \in Occupied : fd[sock[i]] \in Clients
    BY DEF Handles, SlotsAreWatched, Occupied, TypeOK
  <2>4. \A d \in Clients : Readable(d) => inbox[d] # <<>>
    BY <1>0 DEF Readable, SomebodyLeft
  <2>5. Occupied' = Occupied /\ Stale' = Stale
    BY <2>1 DEF Occupied, Stale, serverVars
  <2> QED BY <1>0, <2>1, <2>2, <2>3, <2>4, <2>5
          DEF ReadyAhead, Readable, serverVars
<1>3. CASE \E c \in Clients : Serve(c)
  BY <1>3, ServeReadyAhead
<1>4. CASE Select \/ Reselect
  BY <1>4, SelectReadyAhead
<1>5. CASE RefuseWhenFull
  BY <1>0, <1>5 DEF RefuseWhenFull, ReadyAhead, Stale, Occupied, Readable
<1>6. CASE SkipSlot
  <2>1. /\ pc = "scan" /\ NextSlot
        /\ UNCHANGED <<conn, inbox, fd, sock, mask, readfds>>
    BY <1>6 DEF SkipSlot, netVars
  <2>2. pc' = "scan" => client_id' = client_id + 1
    BY <2>1 DEF NextSlot
  <2>3. client_id \in Int /\ \A i \in Occupied : i \in Int
    BY DEF TypeOK, Occupied, Slots
  <2> QED BY <1>0, <2>1, <2>2, <2>3
          DEF ReadyAhead, Stale, Occupied, Readable, NextSlot
<1>7. CASE ClientJoin
  <2>1. PICK f \in Fds :
          /\ fd' = [fd EXCEPT ![f] = Head(backlog)]
          /\ mask' = mask \cup {f}
    BY <1>7 DEF ClientJoin
  <2>2. backlog # <<>> /\ pc' = "reselect"
    BY <1>7 DEF ClientJoin
  <2>3. Head(backlog) # NOBODY
    BY <2>2, ChatAssumption DEF TypeOK
  <2>4. Stale' = {}
    BY <1>0, <2>1, <2>3 DEF ReadyAhead, Stale, TypeOK
  <2> QED BY <2>2, <2>4 DEF ReadyAhead
<1> QED BY <1>1, <1>2, <1>3, <1>4, <1>5, <1>6, <1>7
        DEF Next, Server, Environment

LEMMA InitReadyAhead == Init => ReadyAhead
BY DEF Init, ReadyAhead, Stale

LEMMA ReadyAheadCorrect == Spec => []ReadyAhead
BY InitReadyAhead, NextReadyAhead, TypeCorrect, HandlesCorrect, PTL DEF Spec

\* recv never waits until the first client has left, although readfds is
\* replaced in the middle of the scan by the select behind client_join.
THEOREM NoEarlyRecv == Spec => []RecvOnlyWhenReady
<1>1. TypeOK /\ ReadyAhead => RecvOnlyWhenReady
  BY DEF TypeOK, ReadyAhead, RecvOnlyWhenReady, RecvNeverWaits, Receiving,
         Occupied, Slots
<1> QED BY <1>1, TypeCorrect, ReadyAheadCorrect, PTL

-----------------------------------------------------------------------------
(***************************************************************************)
(* accept.  The kernel gives the lowest free descriptor, so with a free    *)
(* slot it gives one of the first Max_client behind the listening socket:  *)
(* the mask never holds another one.  When all slots are in use they hold  *)
(* all of these, and no descriptor in the mask is closed.                  *)
(***************************************************************************)
SlotFds == SOCK_LISTEN + 1 .. SOCK_LISTEN + Max_client

Counted ==
  /\ Cnt_client = Cardinality(Occupied)
  /\ mask \subseteq SlotFds \cup {SOCK_LISTEN}

Waiting ==
  /\ pc = "refuse" => Cnt_client >= Max_client /\ backlog # <<>>
  /\ ~SomebodyLeft /\ pc = "scan" /\ SOCK_LISTEN \in readfds
       => backlog # <<>> \/ Occupied = Slots

\* There are as many slots as descriptors for them.
LEMMA SlotsFinite ==
  /\ IsFiniteSet(Slots) /\ Cardinality(Slots) = Max_client
  /\ IsFiniteSet(SlotFds) /\ Cardinality(SlotFds) = Max_client
  /\ SlotFds \subseteq Fds
  /\ IsFiniteSet(Occupied) /\ Cardinality(Occupied) <= Max_client
  /\ Cardinality(Occupied) = Max_client => Occupied = Slots
  /\ Cardinality(Occupied) \in Nat
<1>1. Max_client \in Nat \ {0} /\ SOCK_LISTEN \in Nat
  BY ChatAssumption
<1>2. IsFiniteSet(Slots) /\ Cardinality(Slots) = Max_client
  <2>1. 0 \in Int /\ Max_client - 1 \in Int /\ ~(0 > Max_client - 1)
    BY <1>1
  <2> QED BY <1>1, <2>1, FS_Interval DEF Slots
<1>3. IsFiniteSet(SlotFds) /\ Cardinality(SlotFds) = Max_client
  <2> DEFINE a == SOCK_LISTEN + 1
             b == SOCK_LISTEN + Max_client
  <2>1. a \in Int /\ b \in Int /\ ~(a > b) /\ b - a + 1 = Max_client
    BY <1>1
  <2>2. IsFiniteSet(a .. b) /\ Cardinality(a .. b) = Max_client
    <3> HIDE DEF a, b
    <3> QED BY <2>1, FS_Interval
  <2> QED BY <2>2 DEF SlotFds
<1>4. SlotFds \subseteq Fds
  BY <1>1 DEF SlotFds, Fds
<1>5. Occupied \in SUBSET Slots
  BY DEF Occupied
<1>6. /\ IsFiniteSet(Occupied) /\ Cardinality(Occupied) <= Cardinality(Slots)
      /\ Cardinality(Slots) = Cardinality(Occupied) => Slots = Occupied
  BY <1>2, <1>5, FS_Subset
<1>7. Cardinality(Occupied) \in Nat
  BY <1>6, FS_CardinalityType
<1> QED BY <1>2, <1>3, <1>4, <1>6, <1>7

\* Who knows where the descriptors of the slots are.
LEMMA SockInSlotFds ==
  ASSUME TypeOK, Handles, Counted
  PROVE  /\ \A i \in Occupied : sock[i] \in SlotFds
         /\ [i \in Occupied |-> sock[i]] \in Injection(Occupied, SlotFds)
<1>1. \A i \in Occupied : sock[i] \in SlotFds
  BY FdsFacts
     DEF Handles, SlotsAreWatched, Counted, Occupied, TypeOK
<1> QED BY <1>1 DEF Handles, SlotsAreWatched, Injection, IsInjective

\* With a free slot there is a free descriptor among those of the slots.
LEMMA FreeSlotFreeFd ==
  ASSUME TypeOK, Handles, Counted, NEW i \in Slots, sock[i] = -1
  PROVE  \E f \in SlotFds : fd[f] = NOBODY
<1>1. SUFFICES ASSUME \A f \in SlotFds : fd[f] # NOBODY PROVE FALSE
  OBVIOUS
<1> DEFINE slotOf == [f \in SlotFds |-> CHOOSE j \in Slots : sock[j] = f]
<1>2. \A f \in SlotFds : slotOf[f] \in Slots /\ sock[slotOf[f]] = f
  BY <1>1, SlotsFinite DEF Handles, OneHandlePerClient
<1>3. \A f \in SlotFds : slotOf[f] \in Occupied
  BY <1>2, SlotsFinite, FdsFacts DEF Occupied
<1>4. slotOf \in [SlotFds -> Occupied]
  BY <1>3
<1>5. Cardinality(Occupied) < Cardinality(SlotFds)
  <2>1. i \notin Occupied
    BY DEF Occupied
  <2>2. Occupied # Slots
    BY <2>1
  <2> QED BY <2>2, SlotsFinite, ChatAssumption
<1>6. PICK f, g \in SlotFds : f # g /\ slotOf[f] = slotOf[g]
  <2> HIDE DEF slotOf
  <2> QED BY <1>4, <1>5, SlotsFinite, FS_PigeonHole
<1> QED BY <1>2, <1>6

\* A full server has used every descriptor of the mask again.
LEMMA FullIsFresh ==
  ASSUME TypeOK, Handles, Counted, Cnt_client >= Max_client
  PROVE  Occupied = Slots /\ Stale = {}
<1>1. Cardinality(Occupied) = Max_client
  BY SlotsFinite, ChatAssumption DEF Counted
<1>2. Occupied = Slots
  BY <1>1, SlotsFinite
<1> DEFINE s == [i \in Occupied |-> sock[i]]
<1>3. s \in Injection(Occupied, SlotFds)
  BY SockInSlotFds
<1>4. s \in Surjection(Occupied, SlotFds)
  <2> HIDE DEF s
  <2> QED BY <1>1, <1>3, SlotsFinite, FS_Injection
<1>5. \A f \in SlotFds : \E i \in Occupied : sock[i] = f
  BY <1>4 DEF Surjection
<1>6. \A f \in SlotFds : fd[f] # NOBODY
  BY <1>5 DEF Handles, SlotsAreWatched
<1> QED BY <1>2, <1>6 DEF Stale, Counted

LEMMA JoinCounted ==
  ASSUME TypeOK, Handles, Counted, ClientJoin
  PROVE  Counted'
<1>1. sock[client_id] = -1 /\ client_id \in Slots
  BY DEF ClientJoin, TypeOK
<1>2. PICK f \in Fds :
        /\ IsLowestFree(f)
        /\ sock' = [sock EXCEPT ![client_id] = f]
        /\ mask' = mask \cup {f}
  BY DEF ClientJoin
<1>3. f \in SlotFds
  <2>1. PICK g \in SlotFds : fd[g] = NOBODY
    BY <1>1, FreeSlotFreeFd
  <2>2. f <= g
    BY <1>2, <2>1, SlotsFinite DEF IsLowestFree
  <2> QED BY <2>1, <2>2, ChatAssumption DEF SlotFds, Fds
<1>4. Occupied' = Occupied \cup {client_id} /\ client_id \notin Occupied
  BY <1>1, <1>2, FdsFacts DEF Occupied, TypeOK
<1>5. Cardinality(Occupied') = Cardinality(Occupied) + 1
  BY <1>4, SlotsFinite, FS_AddElement
<1>6. Cnt_client' = Cnt_client + 1
  BY DEF ClientJoin
<1> QED BY <1>2, <1>3, <1>5, <1>6 DEF Counted

LEMMA ExitCounted ==
  ASSUME TypeOK, Handles, Counted, NEW c \in Clients, ClientExit(c)
  PROVE  Counted'
<1>1. /\ ReleaseSlot /\ client_id \in Slots /\ sock[client_id] # -1
  BY DEF ClientExit, Receiving, TypeOK
<1>2. Occupied' = Occupied \ {client_id} /\ client_id \in Occupied
  BY <1>1 DEF Occupied, ReleaseSlot, TypeOK
<1>3. Cardinality(Occupied') = Cardinality(Occupied) - 1
  BY <1>2, SlotsFinite, FS_RemoveElement
<1> QED BY <1>1, <1>3 DEF Counted, ReleaseSlot

LEMMA NextCounted ==
  ASSUME TypeOK, Handles, Counted, [Next]_vars
  PROVE  Counted'
<1>1. CASE ClientJoin
  BY <1>1, JoinCounted
<1>2. CASE \E c \in Clients : ClientExit(c)
  BY <1>2, ExitCounted
<1>3. CASE ~ClientJoin /\ ~\E c \in Clients : ClientExit(c)
  <2>1. UNCHANGED <<sock, Cnt_client, mask>>
    <3>1. CASE Environment \/ UNCHANGED vars
      BY <3>1 DEF Environment, Connect, SendLine, Leave, vars, serverVars
    <3>2. CASE \E c \in Clients : Serve(c)
      BY <1>3, <3>2 DEF Serve, PromptAgain, SetClientName, RelayChat, RecvFails
    <3>3. CASE Select \/ RefuseWhenFull \/ SkipSlot \/ Reselect
      BY <3>3 DEF Select, RefuseWhenFull, SkipSlot, Reselect
    <3> QED BY <1>3, <3>1, <3>2, <3>3 DEF Next, Server
  <2> QED BY <2>1 DEF Counted, Occupied
<1> QED BY <1>1, <1>2, <1>3

LEMMA InitCounted == Init => Counted /\ Waiting
<1> SUFFICES ASSUME Init PROVE Counted /\ Waiting
  OBVIOUS
<1>1. Occupied = {}
  BY DEF Init, Occupied
<1>2. Counted
  BY <1>1, FS_EmptySet DEF Init, Counted
<1> QED BY <1>2 DEF Init, Waiting

LEMMA NextWaiting ==
  ASSUME TypeOK, Handles, ReadyAhead, Counted, Waiting, [Next]_vars
  PROVE  Waiting'
<1>0. ~SomebodyLeft' => ~SomebodyLeft /\ Stale = {}
  BY LeftForGood DEF ReadyAhead
<1>1. CASE UNCHANGED vars
  BY <1>1 DEF Waiting, SomebodyLeft, Occupied, vars, netVars, serverVars
<1>2. ASSUME NEW c \in Clients, Connect(c) \/ SendLine(c) \/ Leave(c)
      PROVE  Waiting'
  <2>1. UNCHANGED serverVars
    BY <1>2 DEF Connect, SendLine, Leave
  <2>2. backlog' = backlog \/ backlog' = Append(backlog, c)
    BY <1>2 DEF Connect, SendLine, Leave
  <2>3. backlog \in Seq(Clients)
    BY DEF TypeOK
  <2>4. backlog # <<>> => backlog' # <<>>
    <3>1. Len(Append(backlog, c)) = Len(backlog) + 1 /\ Len(backlog) \in Nat
      BY <2>3
    <3>2. Append(backlog, c) # <<>>
      BY <3>1
    <3> QED BY <2>2, <3>2
  <2>5. Occupied' = Occupied
    BY <2>1 DEF Occupied, serverVars
  <2> QED BY <1>0, <2>1, <2>4, <2>5 DEF Waiting, serverVars
<1>3. ASSUME NEW c \in Clients, Serve(c)
      PROVE  Waiting'
  <2>1. pc = "scan" /\ pc' \in {"scan", "select", "dead"}
    BY <1>3 DEF Serve, PromptAgain, SetClientName, RelayChat, ClientExit,
                RecvFails, Receiving, Broadcast, NextSlot
  <2>2. ClientExit(c) => SomebodyLeft
    BY DEF ClientExit, SomebodyLeft
  <2>3. ~ClientExit(c) => UNCHANGED <<backlog, sock, readfds>>
    BY <1>3 DEF Serve, PromptAgain, SetClientName, RelayChat, RecvFails,
                netVars
  <2> QED BY <1>0, <2>1, <2>2, <2>3 DEF Waiting, Occupied
<1>4. CASE Select
  <2>1. /\ pc' = IF MustRefuse(readfds') THEN "refuse" ELSE "scan"
        /\ UNCHANGED <<backlog, sock, Cnt_client>> /\ SelectReadfds
    BY <1>4 DEF Select, netVars
  <2>2. Cnt_client >= Max_client => Stale = {}
    BY FullIsFresh
  <2>3. Stale = {} /\ SOCK_LISTEN \in readfds' => backlog # <<>>
    BY <2>1, TrueReadfds
  <2> QED BY <1>0, <2>1, <2>2, <2>3 DEF Waiting, MustRefuse
<1>5. CASE Reselect
  <2>1. /\ pc' \in {"scan", "select"} /\ UNCHANGED backlog /\ SelectReadfds
    BY <1>5 DEF Reselect, NextSlot, netVars
  <2>2. Stale = {} /\ SOCK_LISTEN \in readfds' => backlog # <<>>
    BY <2>1, TrueReadfds
  <2> QED BY <1>0, <2>1, <2>2 DEF Waiting
<1>6. CASE RefuseWhenFull
  <2>1. Occupied = Slots
    BY <1>6, FullIsFresh DEF Waiting, RefuseWhenFull
  <2> QED BY <1>6, <2>1 DEF Waiting, RefuseWhenFull, Occupied
<1>7. CASE SkipSlot
  BY <1>0, <1>7 DEF SkipSlot, NextSlot, Waiting, Occupied, netVars
<1>8. CASE ClientJoin
  BY <1>8 DEF ClientJoin, Waiting
<1> QED BY <1>1, <1>2, <1>3, <1>4, <1>5, <1>6, <1>7, <1>8
        DEF Next, Server, Environment

LEMMA WaitingCorrect == Spec => [](Counted /\ Waiting)
<1>1. /\ TypeOK /\ Handles /\ ReadyAhead /\ Counted /\ Waiting
      /\ [Next]_vars
      => (Counted /\ Waiting)'
  BY NextCounted, NextWaiting
<1> QED BY <1>1, InitCounted, TypeCorrect, HandlesCorrect, ReadyAheadCorrect,
           PTL DEF Spec

\* accept never waits: not in a free slot until somebody leaves, and never
\* in the branch of the full server, whatever was closed before.
THEOREM NoAcceptWaits == Spec => []AcceptNeverWaits
<1>1. TypeOK /\ Handles /\ Counted /\ Waiting => AcceptNeverWaits
  <2> SUFFICES ASSUME TypeOK, Handles, Counted, Waiting
               PROVE  AcceptNeverWaits
    OBVIOUS
  <2>1. pc = "refuse" => Stale = {} /\ backlog # <<>>
    BY FullIsFresh DEF Waiting
  <2>2. Occupied = Slots => sock[client_id] # -1
    BY DEF Occupied, TypeOK
  <2> QED BY <2>1, <2>2 DEF AcceptNeverWaits, Waiting
<1> QED BY <1>1, TypeCorrect, HandlesCorrect, WaitingCorrect, PTL

-----------------------------------------------------------------------------
(***************************************************************************)
(* Names.  What is in a socket was typed by its client, and the name of a  *)
(* slot is made of lines that its client typed before all that it has in   *)
(* its socket now; a slot that is free has no name.                        *)
(***************************************************************************)
OwnLines(c) ==
  \A j \in 1 .. Len(inbox[c]) :
    inbox[c][j].from = c /\ inbox[c][j].n <= sent[c]

NamedBy(i, c) ==
  \A k \in 1 .. Len(name[i]) :
    /\ name[i][k].from = c /\ name[i][k].n <= sent[c]
    /\ \A j \in 1 .. Len(inbox[c]) : name[i][k].n < inbox[c][j].n

NamesAreOwn ==
  /\ \A c \in Clients : OwnLines(c)
  /\ \A i \in Slots : sock[i] = -1 => name[i] = <<>>
  /\ \A i \in Occupied : NamedBy(i, fd[sock[i]])

NameInv == NamesAreOwn /\ ChatUnderOwnName

\* The client of an occupied slot is known, and is nobody else's.
LEMMA ClientOfSlot ==
  ASSUME TypeOK, Handles, NEW i \in Occupied
  PROVE  /\ i \in Slots /\ sock[i] \in Fds /\ fd[sock[i]] \in Clients
         /\ \A j \in Occupied : fd[sock[j]] = fd[sock[i]] => j = i
<1>1. \A j \in Occupied : /\ j \in Slots /\ sock[j] \in Fds
                          /\ fd[sock[j]] # NOBODY /\ fd[sock[j]] \in Clients
  BY DEF Handles, SlotsAreWatched, Occupied, TypeOK
<1> QED BY <1>1 DEF Handles, SlotsAreWatched, OneHandlePerClient

\* A line that is typed is younger than those before it.
LEMMA SendLineNames ==
  ASSUME TypeOK, Handles, NameInv, NEW c \in Clients, SendLine(c)
  PROVE  NameInv'
<1>1. PICK l \in Line :
        /\ l.from = c /\ l.n = sent[c] + 1
        /\ inbox' = [inbox EXCEPT ![c] = Append(@, l)]
  <2>1. PICK b \in BOOLEAN :
          inbox' = [inbox EXCEPT ![c] =
                      Append(@, [from |-> c, n |-> sent[c] + 1, blank |-> b])]
    BY DEF SendLine
  <2>2. sent[c] + 1 \in Nat
    BY DEF TypeOK
  <2>3. [from |-> c, n |-> sent[c] + 1, blank |-> b] \in Line
    BY <2>2 DEF Line
  <2> QED BY <2>1, <2>3
<1>2. /\ sent' = [sent EXCEPT ![c] = @ + 1]
      /\ UNCHANGED <<got, fd, sock, name>>
  BY DEF SendLine, serverVars
<1>3. /\ inbox \in [Clients -> Seq(Line)] /\ sent \in [Clients -> Nat]
      /\ name \in [Slots -> Seq(Line)]
  BY DEF TypeOK
<1>4. /\ inbox[c] \in Seq(Line) /\ Len(inbox[c]) \in Nat
      /\ inbox'[c] = Append(inbox[c], l)
      /\ \A d \in Clients : d # c => inbox'[d] = inbox[d] /\ sent'[d] = sent[d]
      /\ sent'[c] = sent[c] + 1 /\ sent[c] \in Nat
  BY <1>1, <1>2, <1>3
<1>5. /\ Len(inbox'[c]) = Len(inbox[c]) + 1
      /\ inbox'[c][Len(inbox[c]) + 1] = l
      /\ \A j \in 1 .. Len(inbox[c]) : /\ inbox'[c][j] = inbox[c][j]
                                       /\ inbox[c][j] \in Line
  BY <1>4
<1>6. ASSUME NEW d \in Clients PROVE OwnLines(d)'
  <2>1. CASE d # c
    BY <1>4, <2>1 DEF NameInv, NamesAreOwn, OwnLines
  <2>2. CASE d = c
    <3>1. \A j \in 1 .. Len(inbox[c]) :
            /\ inbox[c][j].from = c /\ inbox[c][j].n <= sent[c]
            /\ inbox[c][j].n \in Nat
      BY <1>5 DEF NameInv, NamesAreOwn, OwnLines, Line
    <3> QED BY <1>1, <1>4, <1>5, <2>2, <3>1 DEF OwnLines
  <2> QED BY <2>1, <2>2
<1>7. ASSUME NEW i \in Occupied PROVE NamedBy(i, fd[sock[i]])'
  <2>1. NamedBy(i, fd[sock[i]]) /\ i \in Slots /\ fd[sock[i]] \in Clients
    BY ClientOfSlot DEF NameInv, NamesAreOwn
  <2>2. name[i] \in Seq(Line)
    BY <1>3, <2>1
  <2>3. \A k \in 1 .. Len(name[i]) : name[i][k].n \in Nat
    <3>1. \A k \in 1 .. Len(name[i]) : name[i][k] \in Line
      BY <2>2
    <3> QED BY <3>1 DEF Line
  <2>4. CASE fd[sock[i]] # c
    BY <1>2, <1>4, <2>1, <2>4 DEF NamedBy
  <2>5. CASE fd[sock[i]] = c
    BY <1>1, <1>2, <1>4, <1>5, <2>1, <2>3, <2>5 DEF NamedBy
  <2> QED BY <2>4, <2>5
<1>8. Occupied' = Occupied /\ ChatUnderOwnName'
  BY <1>2 DEF Occupied, NameInv, ChatUnderOwnName
<1> QED BY <1>2, <1>6, <1>7, <1>8 DEF NameInv, NamesAreOwn

\* recv empties a socket, and what is left is as old as before.
LEMMA RecvNames ==
  ASSUME TypeOK, Handles, NamesAreOwn, NEW c \in Clients,
         Recv(c), UNCHANGED <<sent, fd, sock, name>>
  PROVE  NamesAreOwn'
<1>1. /\ inbox'[c] = <<>>
      /\ \A d \in Clients : d # c => inbox'[d] = inbox[d]
  BY DEF Recv, TypeOK
<1>2. ASSUME NEW d \in Clients PROVE OwnLines(d)'
  BY <1>1 DEF NamesAreOwn, OwnLines
<1>3. ASSUME NEW i \in Occupied PROVE NamedBy(i, fd[sock[i]])'
  <2>1. NamedBy(i, fd[sock[i]]) /\ fd[sock[i]] \in Clients
    BY ClientOfSlot DEF NamesAreOwn
  <2>2. \A j \in 1 .. Len(inbox'[fd[sock[i]]]) :
          /\ j \in 1 .. Len(inbox[fd[sock[i]]])
          /\ inbox'[fd[sock[i]]][j] = inbox[fd[sock[i]]][j]
    BY <1>1, <2>1
  <2> QED BY <2>1, <2>2 DEF NamedBy
<1>4. Occupied' = Occupied
  BY DEF Occupied
<1> QED BY <1>2, <1>3, <1>4 DEF NamesAreOwn

\* The slot of the scan is that of the client that is served.
LEMMA ReceivingSlot ==
  ASSUME TypeOK, Handles, NEW c \in Clients, Receiving(c)
  PROVE  /\ client_id \in Occupied /\ fd[sock[client_id]] = c
         /\ \A i \in Occupied : fd[sock[i]] = c => i = client_id
         /\ inbox[c] \in Seq(Line) /\ name[client_id] \in Seq(Line)
<1>1. client_id \in Occupied /\ fd[sock[client_id]] = c
  BY DEF Receiving, Occupied, TypeOK
<1> QED BY <1>1, ClientOfSlot DEF TypeOK, Occupied

\* The buffer becomes the name, and the socket is empty behind it.
LEMMA SetNameNames ==
  ASSUME TypeOK, Handles, NameInv, NEW c \in Clients, SetClientName(c)
  PROVE  NameInv'
<1>1. /\ Receiving(c) /\ Recv(c)
      /\ name' = [name EXCEPT ![client_id] = inbox[c]]
      /\ UNCHANGED <<sent, fd, sock>>
      /\ name[client_id] = <<>>
  BY DEF SetClientName
<1>2. /\ inbox'[c] = <<>>
      /\ \A d \in Clients : d # c => inbox'[d] = inbox[d]
  BY <1>1 DEF Recv, TypeOK
<1>3. ASSUME NEW d \in Clients PROVE OwnLines(d)'
  BY <1>1, <1>2 DEF NameInv, NamesAreOwn, OwnLines
<1>4. ASSUME NEW i \in Occupied PROVE NamedBy(i, fd[sock[i]])'
  <2>1. NamedBy(i, fd[sock[i]]) /\ fd[sock[i]] \in Clients /\ i \in Slots
    BY ClientOfSlot DEF NameInv, NamesAreOwn
  <2>2. CASE i = client_id
    <3>1. name'[i] = inbox[c] /\ fd[sock[i]] = c /\ OwnLines(c)
      BY <1>1, <2>1, <2>2, ReceivingSlot DEF TypeOK, NameInv, NamesAreOwn
    <3> QED BY <1>1, <1>2, <3>1 DEF NamedBy, OwnLines
  <2>3. CASE i # client_id
    <3>1. name'[i] = name[i] /\ fd[sock[i]] # c
      BY <1>1, <2>1, <2>3, ReceivingSlot DEF TypeOK
    <3> QED BY <1>1, <1>2, <2>1, <3>1 DEF NamedBy
  <2> QED BY <2>2, <2>3
<1>5. Occupied' = Occupied
  BY <1>1 DEF Occupied
<1>6. \A i \in Slots : sock'[i] = -1 => name'[i] = <<>>
  BY <1>1 DEF Receiving, TypeOK, NameInv, NamesAreOwn
<1>7. got' = [d \in Clients |-> got[d]]
  BY DEF SetClientName, Broadcast
<1>8. ChatUnderOwnName'
  BY <1>7 DEF NameInv, ChatUnderOwnName
<1> QED BY <1>1, <1>3, <1>4, <1>5, <1>6, <1>8 DEF NameInv, NamesAreOwn

\* A buffer is sent on under the name of its slot, to the other slots.
LEMMA RelayNames ==
  ASSUME TypeOK, Handles, NameInv, NEW c \in Clients, RelayChat(c)
  PROVE  NameInv'
<1> DEFINE m == [name |-> name[client_id], text |-> inbox[c]]
<1>1. /\ Receiving(c) /\ Recv(c) /\ name[client_id] # <<>>
      /\ UNCHANGED <<sent, fd, sock, name>>
      /\ Broadcast(Recipients(client_id), {m})
  BY DEF RelayChat
<1>2. NamesAreOwn'
  BY <1>1, RecvNames DEF NameInv
<1>3. /\ client_id \in Occupied /\ fd[sock[client_id]] = c
      /\ \A i \in Occupied : fd[sock[i]] = c => i = client_id
  BY <1>1, ReceivingSlot
<1>4. ASSUME NEW d \in Clients, NEW x \in got'[d], x \notin got[d]
      PROVE  x = m /\ d # c
  <2>1. PICK S \in SUBSET Recipients(client_id) :
          got' = [e \in Clients |->
                    IF e \in {fd[sock[i]] : i \in S} /\ conn[e] = "up"
                    THEN got[e] \cup {m} ELSE got[e]]
    BY <1>1 DEF Broadcast
  <2>2. x = m /\ d \in {fd[sock[i]] : i \in S}
    BY <1>4, <2>1
  <2>3. \A i \in Recipients(client_id) : i \in Occupied /\ i # client_id
    BY DEF Recipients, Occupied
  <2> QED BY <1>3, <2>2, <2>3
<1>5. /\ NamedBy(client_id, c) /\ OwnLines(c)
  BY <1>3 DEF NameInv, NamesAreOwn
<1>6. ASSUME NEW d \in Clients, NEW x \in got'[d]
      PROVE  /\ x.name # <<>>
             /\ \A i \in 1 .. Len(x.name) : \A j \in 1 .. Len(x.text) :
                  /\ x.name[i].from = x.text[j].from
                  /\ x.name[i].n < x.text[j].n
                  /\ x.text[j].from # d
  <2>1. CASE x \in got[d]
    BY <2>1 DEF NameInv, ChatUnderOwnName
  <2>2. CASE x \notin got[d]
    <3>1. x.name = name[client_id] /\ x.text = inbox[c] /\ d # c
      BY <1>4, <2>2
    <3> QED BY <1>1, <1>5, <3>1 DEF NamedBy, OwnLines
  <2> QED BY <2>1, <2>2
<1>7. ChatUnderOwnName'
  BY <1>6 DEF ChatUnderOwnName
<1> QED BY <1>2, <1>7 DEF NameInv

\* A new client gets a slot without a name.
LEMMA JoinNames ==
  ASSUME TypeOK, Handles, NameInv, ClientJoin
  PROVE  NameInv'
<1>1. /\ sock[client_id] = -1 /\ client_id \in Slots
      /\ UNCHANGED <<inbox, sent, got, name>>
  BY DEF ClientJoin, TypeOK, clientVars
<1>2. PICK f \in Fds :
        /\ fd[f] = NOBODY
        /\ fd' = [fd EXCEPT ![f] = Head(backlog)]
        /\ sock' = [sock EXCEPT ![client_id] = f]
  BY DEF ClientJoin, IsLowestFree
<1>3. name[client_id] = <<>>
  BY <1>1 DEF NameInv, NamesAreOwn
<1>4. ASSUME NEW i \in Occupied' PROVE NamedBy(i, fd[sock[i]])'
  <2>1. CASE i = client_id
    BY <1>1, <1>3, <2>1 DEF NamedBy
  <2>2. CASE i # client_id
    <3>1. i \in Occupied /\ sock'[i] = sock[i]
      BY <1>1, <1>2, <2>2 DEF Occupied, TypeOK
    <3>2. sock[i] \in Fds /\ fd[sock[i]] \in Clients
      BY <3>1, ClientOfSlot
    <3>3. fd'[sock[i]] = fd[sock[i]]
      BY <1>2, <3>2, ChatAssumption DEF TypeOK
    <3>4. NamedBy(i, fd[sock[i]])
      BY <3>1 DEF NameInv, NamesAreOwn
    <3> QED BY <1>1, <3>1, <3>3, <3>4 DEF NamedBy
  <2> QED BY <2>1, <2>2
<1>5. \A i \in Slots : sock'[i] = -1 => name'[i] = <<>>
  BY <1>1, <1>2, <1>3, FdsFacts DEF NameInv, NamesAreOwn, TypeOK
<1>6. \A c \in Clients : OwnLines(c)'
  BY <1>1 DEF NameInv, NamesAreOwn, OwnLines
<1>7. ChatUnderOwnName'
  BY <1>1 DEF NameInv, ChatUnderOwnName
<1> QED BY <1>4, <1>5, <1>6, <1>7 DEF NameInv, NamesAreOwn

\* The slot of a client that left has lost the name with the descriptor.
LEMMA ExitNames ==
  ASSUME TypeOK, Handles, NameInv, NEW c \in Clients, ClientExit(c)
  PROVE  NameInv'
<1>1. /\ Receiving(c) /\ ReleaseSlot /\ UNCHANGED <<inbox, sent>>
      /\ Broadcast(Recipients(client_id), {})
  BY DEF ClientExit
<1>2. got' = [d \in Clients |-> got[d]]
  BY <1>1 DEF Broadcast
<1>3. client_id \in Occupied /\ client_id \in Slots /\ sock[client_id] \in Fds
  BY <1>1, ReceivingSlot, ClientOfSlot
<1>4. ASSUME NEW i \in Occupied' PROVE NamedBy(i, fd[sock[i]])'
  <2>1. /\ i \in Occupied /\ i # client_id
        /\ sock'[i] = sock[i] /\ name'[i] = name[i]
    BY <1>1, <1>3 DEF ReleaseSlot, Occupied, TypeOK
  <2>2. sock[i] # sock[client_id]
    BY <1>3, <2>1 DEF Handles, SlotsAreWatched
  <2>3. fd'[sock[i]] = fd[sock[i]]
    BY <1>1, <2>1, <2>2, ClientOfSlot DEF ReleaseSlot, TypeOK
  <2>4. NamedBy(i, fd[sock[i]])
    BY <2>1 DEF NameInv, NamesAreOwn
  <2> QED BY <1>1, <2>1, <2>3, <2>4 DEF NamedBy
<1>5. \A i \in Slots : sock'[i] = -1 => name'[i] = <<>>
  BY <1>1, <1>3 DEF ReleaseSlot, NameInv, NamesAreOwn, TypeOK
<1>6. \A d \in Clients : OwnLines(d)'
  BY <1>1 DEF NameInv, NamesAreOwn, OwnLines
<1>7. ChatUnderOwnName'
  BY <1>2 DEF NameInv, ChatUnderOwnName
<1> QED BY <1>4, <1>5, <1>6, <1>7 DEF NameInv, NamesAreOwn

LEMMA NextNames ==
  ASSUME TypeOK, Handles, NameInv, [Next]_vars
  PROVE  NameInv'
<1>1. ASSUME UNCHANGED <<inbox, sent, got, fd, sock, name>>
      PROVE  NameInv'
  BY <1>1 DEF NameInv, NamesAreOwn, OwnLines, NamedBy, Occupied,
              ChatUnderOwnName
<1>2. CASE UNCHANGED vars
  BY <1>1, <1>2 DEF vars, netVars, clientVars, serverVars
<1>3. ASSUME NEW c \in Clients, Connect(c) \/ SendLine(c) \/ Leave(c)
      PROVE  NameInv'
  BY <1>1, <1>3, SendLineNames DEF Connect, Leave, clientVars, serverVars
<1>4. ASSUME NEW c \in Clients, Serve(c)
      PROVE  NameInv'
  <2>1. CASE PromptAgain(c)
    <3>1. Recv(c) /\ UNCHANGED <<sent, got, fd, sock, name>>
      BY <2>1 DEF PromptAgain, clientVars
    <3>2. NamesAreOwn'
      BY <3>1, RecvNames DEF NameInv
    <3> QED BY <3>1, <3>2 DEF NameInv, ChatUnderOwnName
  <2>2. CASE SetClientName(c)
    BY <2>2, SetNameNames
  <2>3. CASE RelayChat(c)
    BY <2>3, RelayNames
  <2>4. CASE ClientExit(c)
    BY <2>4, ExitNames
  <2>5. CASE RecvFails(c)
    BY <1>1, <2>5 DEF RecvFails, netVars, clientVars
  <2> QED BY <1>4, <2>1, <2>2, <2>3, <2>4, <2>5 DEF Serve
<1>5. CASE ClientJoin
  BY <1>5, JoinNames
<1>6. CASE Select \/ RefuseWhenFull \/ SkipSlot \/ Reselect
  BY <1>1, <1>6 DEF Select, RefuseWhenFull, SkipSlot, Reselect, netVars,
                    clientVars
<1> QED BY <1>2, <1>3, <1>4, <1>5, <1>6 DEF Next, Server, Environment

LEMMA InitNames == Init => NameInv
BY DEF Init, NameInv, NamesAreOwn, OwnLines, NamedBy, Occupied,
       ChatUnderOwnName

\* A chat line is shown under a name its own client gave before, and never
\* to that client, however often slots and descriptors are used again.
THEOREM ChatIsUnderOwnName == Spec => []ChatUnderOwnName
<1>1. NameInv => ChatUnderOwnName
  BY DEF NameInv
<1>2. TypeOK /\ Handles /\ NameInv /\ [Next]_vars => NameInv'
  BY NextNames
<1> QED BY <1>1, <1>2, InitNames, TypeCorrect, HandlesCorrect, PTL DEF Spec

-----------------------------------------------------------------------------
(***************************************************************************)
(* Delivery.  In the step that takes a named client's lines the server     *)
(* writes to every slot but the client's own; the names, the descriptors   *)
(* and the connections it writes to are those of the state before.         *)
(***************************************************************************)
ChatIsDelivered ==
  \A c, d \in Clients :
    (/\ Named(c) /\ inbox[c] # <<>> /\ inbox'[c] = <<>> /\ pc' # "dead"
     /\ d # c /\ IsOpen(d) /\ conn[d] = "up")
    => \E m \in got'[d] : m.text = inbox[c]

LEMMA NextDelivers ==
  ASSUME TypeOK, Handles, [Next]_vars
  PROVE  ChatIsDelivered
<1> SUFFICES ASSUME NEW c \in Clients, NEW d \in Clients,
                    Named(c), inbox[c] # <<>>, inbox'[c] = <<>>,
                    pc' # "dead", d # c, IsOpen(d), conn[d] = "up"
             PROVE  \E m \in got'[d] : m.text = inbox[c]
  BY DEF ChatIsDelivered
<1>1. PICK e \in Clients : Serve(e) /\ Receiving(e) /\ Recv(e)
  <2>1. inbox' # inbox
    OBVIOUS
  <2>2. ~UNCHANGED vars /\ ~Select /\ ~RefuseWhenFull /\ ~SkipSlot
        /\ ~ClientJoin /\ ~Reselect
    BY <2>1 DEF vars, netVars, Select, RefuseWhenFull, SkipSlot, ClientJoin,
                Reselect
  <2>3. ASSUME NEW e \in Clients PROVE ~SendLine(e)
    <3>1. SUFFICES ASSUME SendLine(e) PROVE FALSE
      OBVIOUS
    <3>2. PICK l : inbox' = [inbox EXCEPT ![e] = Append(@, l)]
      BY <3>1 DEF SendLine
    <3>3. inbox \in [Clients -> Seq(Line)]
      BY DEF TypeOK
    <3>4. inbox'[c] = inbox[c] \/ inbox'[c] = Append(inbox[c], l)
      BY <3>2, <3>3
    <3>5. \A s \in Seq(Line) : Len(Append(s, l)) = Len(s) + 1 /\ Len(s) \in Nat
      OBVIOUS
    <3>6. Append(inbox[c], l) # <<>>
      BY <3>3, <3>5
    <3> QED BY <3>4, <3>6
  <2>4. \A e \in Clients : ~Connect(e) /\ ~Leave(e)
    BY <2>1 DEF Connect, Leave
  <2>5. PICK e \in Clients : Serve(e)
    BY <2>2, <2>3, <2>4 DEF Next, Server, Environment
  <2> QED BY <2>1, <2>5
          DEF Serve, PromptAgain, SetClientName, RelayChat, ClientExit,
              RecvFails, netVars
<1>2. e = c
  BY <1>1 DEF Recv, TypeOK
<1>3. /\ client_id \in Occupied /\ fd[sock[client_id]] = c
      /\ \A i \in Occupied : fd[sock[i]] = c => i = client_id
  BY <1>1, <1>2, ReceivingSlot
<1>4. name[client_id] # <<>>
  BY <1>3 DEF Named
<1>5. RelayChat(c)
  BY <1>1, <1>2, <1>4 DEF Serve, PromptAgain, SetClientName, ClientExit,
                          RecvFails
<1> DEFINE msg == [name |-> name[client_id], text |-> inbox[c]]
           S == Recipients(client_id)
           dying == {i \in S : Reset(fd[sock[i]])}
<1>6. Broadcast(S, {msg})
  BY <1>5 DEF RelayChat
<1>7. dying = {}
  BY <1>6 DEF Broadcast
<1>8. PICK i \in S : fd[sock[i]] = d
  <2>1. PICK f \in Fds : fd[f] = d
    BY DEF IsOpen
  <2>2. PICK i \in Slots : sock[i] = f
    BY <2>1, ChatAssumption DEF Handles, OneHandlePerClient
  <2>3. i \in Occupied /\ i # client_id
    BY <1>3, <2>1, <2>2, FdsFacts DEF Occupied
  <2> QED BY <2>1, <2>2, <2>3 DEF Recipients, Occupied
<1>9. got'[d] = got[d] \cup {msg}
  BY <1>6, <1>7, <1>8 DEF Broadcast
<1>10. msg \in got'[d] /\ msg.text = inbox[c]
  BY <1>9
<1> QED
  <2> HIDE DEF msg
  <2> QED BY <1>10

\* What a client with a name says reaches every other client that is there,
\* for any number of clients and slots, unless the server dies on the way.
THEOREM ChatIsAlwaysDelivered == Spec => ChatReachesTheOthers
<1>1. TypeOK /\ Handles /\ [Next]_vars => [ChatIsDelivered]_vars
  BY NextDelivers
<1>2. ChatReachesTheOthers <=> [][ChatIsDelivered]_vars
  BY DEF ChatReachesTheOthers, ChatIsDelivered
<1> QED BY <1>1, <1>2, TypeCorrect, HandlesCorrect, PTL DEF Spec

-----------------------------------------------------------------------------
(***************************************************************************)
(* The server is a ChatRoom.                                               *)
(***************************************************************************)
Stages == [c \in Clients |-> StageOf(c)]
Ups    == {c \in Clients : conn[c] = "up"}
Nicks  == [c \in Clients |-> NickOf(c)]

\* A client who is served has one slot, and its name is the one there.
LEMMA NickInSlot ==
  ASSUME TypeOK, Handles, NEW i \in Occupied
  PROVE  NickOf(fd[sock[i]]) = name[i]
<1>1. SlotsOf(fd[sock[i]]) = {i}
  BY ClientOfSlot DEF SlotsOf
<1> QED BY <1>1 DEF NickOf

LEMMA OneSlotAtMost ==
  ASSUME TypeOK, Handles, NEW c \in Clients
  PROVE  SlotsOf(c) = {} \/ \E i \in Occupied : SlotsOf(c) = {i}
BY ClientOfSlot DEF SlotsOf

LEMMA OpenHasSlot ==
  ASSUME TypeOK, Handles, NEW c \in Clients
  PROVE  IsOpen(c) <=> \E i \in Occupied : fd[sock[i]] = c
<1>1. ASSUME IsOpen(c) PROVE \E i \in Occupied : fd[sock[i]] = c
  <2>1. PICK f \in Fds : fd[f] = c
    BY <1>1 DEF IsOpen
  <2>2. PICK i \in Slots : sock[i] = f
    BY <2>1, ChatAssumption DEF Handles, OneHandlePerClient
  <2> QED BY <2>1, <2>2, FdsFacts DEF Occupied
<1>2. ASSUME NEW i \in Occupied, fd[sock[i]] = c PROVE IsOpen(c)
  BY <1>2, ClientOfSlot DEF IsOpen
<1> QED BY <1>1, <1>2

\* Who is in the room is neither new nor in the queue.
LEMMA StageFacts ==
  ASSUME TypeOK, Handles, NEW c \in Clients
  PROVE  /\ StageOf(c) = "away" <=> conn[c] = "new"
         /\ StageOf(c) = "waiting" <=> InBacklog(c)
         /\ StageOf(c) = "in" <=> IsOpen(c)
BY DEF StageOf, Handles, OneHandlePerClient, NewHasNothing

LEMMA SameStages ==
  ASSUME UNCHANGED <<backlog, fd>>,
         \A c \in Clients : conn'[c] = "new" <=> conn[c] = "new"
  PROVE  Stages' = Stages
<1>1. \A c \in Clients : StageOf(c)' = StageOf(c)
  BY DEF StageOf, InBacklog, IsOpen
<1> QED BY <1>1 DEF Stages

LEMMA SameUps ==
  ASSUME \A c \in Clients : conn'[c] = "up" <=> conn[c] = "up"
  PROVE  Ups' = Ups
BY DEF Ups

LEMMA SameNicks ==
  ASSUME UNCHANGED <<fd, sock, name>>
  PROVE  Nicks' = Nicks
<1>1. \A c \in Clients : NickOf(c)' = NickOf(c)
  BY DEF NickOf, SlotsOf, Occupied
<1> QED BY <1>1 DEF Nicks

\* One client moves on.
LEMMA StageMoves ==
  ASSUME NEW c \in Clients, NEW to, StageOf(c)' = to,
         \A d \in Clients \ {c} : StageOf(d)' = StageOf(d)
  PROVE  Stages' = [Stages EXCEPT ![c] = to]
BY DEF Stages

\* A write changes nothing that the room knows of a connection.
LEMMA WritesAreUnseen ==
  ASSUME TypeOK, \A c \in Clients : OnlyReset(c)
  PROVE  /\ \A c \in Clients : conn'[c] = "new" <=> conn[c] = "new"
         /\ Ups' = Ups
BY DEF OnlyReset, Ups

\* Whose connection was reset has hung up.
LEMMA ResetIsLeft ==
  ASSUME TypeOK, Handles, NEW i \in Occupied, Reset(fd[sock[i]])
  PROVE  Room!In("in") \ Ups # {}
<1>1. fd[sock[i]] \in Clients /\ fd[sock[i]] \notin Ups
  BY ClientOfSlot DEF Reset, Ups
<1>2. StageOf(fd[sock[i]]) = "in"
  BY <1>1, OpenHasSlot, StageFacts
<1> QED BY <1>1, <1>2 DEF Room!In

\* Whom a broadcast reaches, and why it may end the room.
Reaches(A, M) ==
  \E T \in SUBSET A :
    /\ got' = [c \in Clients |-> IF c \in T THEN got[c] \cup M ELSE got[c]]
    /\ \/ pc' # "dead" /\ T = A
       \/ pc' = "dead" /\ Room!In("in") \ Ups # {}

LEMMA BroadcastReaches ==
  ASSUME TypeOK, Handles, NEW S \in SUBSET Occupied, NEW M, Broadcast(S, M)
  PROVE  Reaches({fd[sock[i]] : i \in S} \cap Ups, M)
<1> DEFINE dying   == {i \in S : Reset(fd[sock[i]])}
           reached == {i \in S : \A j \in dying : i < j}
           T == {fd[sock[i]] : i \in reached} \cap Ups
<1>1. got' = [c \in Clients |-> IF c \in T THEN got[c] \cup M ELSE got[c]]
  BY DEF Broadcast, Ups
<1>2. T \in SUBSET ({fd[sock[i]] : i \in S} \cap Ups)
  OBVIOUS
<1>3. CASE dying = {}
  <2>1. pc' # "dead"
    BY <1>3, NextSlotType DEF Broadcast
  <2>2. reached = S
    BY <1>3
  <2> QED BY <1>1, <1>2, <2>1, <2>2 DEF Reaches
<1>4. CASE dying # {}
  <2>1. pc' = "dead"
    BY <1>4 DEF Broadcast
  <2>2. Room!In("in") \ Ups # {}
    BY <1>4, ResetIsLeft
  <2> QED BY <1>1, <1>2, <2>1, <2>2 DEF Reaches
<1> QED BY <1>3, <1>4 DEF Reaches

\* The slots a chat line of c goes to are those of the others in the room.
LEMMA RecipientsAreOthers ==
  ASSUME TypeOK, Handles, NEW c \in Clients, Receiving(c)
  PROVE  /\ Recipients(client_id) \in SUBSET Occupied
         /\ {fd[sock[i]] : i \in Recipients(client_id)} \cap Ups
              = (Room!In("in") \cap Ups) \ {c}
<1> DEFINE A == {fd[sock[i]] : i \in Recipients(client_id)}
<1>1. Recipients(client_id) = Occupied \ {client_id}
  BY DEF Recipients, Occupied
<1>2. /\ client_id \in Occupied /\ fd[sock[client_id]] = c
      /\ \A i \in Occupied : fd[sock[i]] = c => i = client_id
  BY ReceivingSlot
<1>3. \A d \in Clients : d \in A <=> IsOpen(d) /\ d # c
  BY <1>1, <1>2, OpenHasSlot
<1>4. \A d \in Clients : d \in Room!In("in") <=> IsOpen(d)
  BY StageFacts DEF Room!In
<1>5. A \cap Ups \subseteq Clients /\ Room!In("in") \subseteq Clients
  BY DEF Ups, Room!In
<1>6. A \cap Ups = (Room!In("in") \cap Ups) \ {c}
  BY <1>3, <1>4, <1>5
<1> QED BY <1>1, <1>6

LEMMA AllAreOccupied == TypeOK => Recipients(-1) = Occupied
BY ChatAssumption DEF TypeOK, Recipients, Occupied, Slots

-----------------------------------------------------------------------------
(* The steps of the clients. *)
LEMMA ConnectArrives ==
  ASSUME TypeOK, Handles, NEW c \in Clients, Connect(c)
  PROVE  Room!Arrive(c) /\ pc # "dead"
<1>1. /\ conn' = [conn EXCEPT ![c] = "up"] /\ conn[c] = "new"
      /\ backlog' = Append(backlog, c) /\ backlog \in Seq(Clients)
      /\ conn \in [Clients -> ConnState]
      /\ UNCHANGED <<fd, sock, name, sent, inbox, got, pc>> /\ pc # "dead"
  BY DEF Connect, clientVars, serverVars, TypeOK
<1>2. /\ Len(backlog') = Len(backlog) + 1 /\ Len(backlog) \in Nat
      /\ \A i \in 1 .. Len(backlog) : backlog'[i] = backlog[i]
      /\ backlog'[Len(backlog) + 1] = c
  BY <1>1
<1>3. StageOf(c)' = "waiting" /\ StageOf(c) = "away"
  BY <1>1, <1>2 DEF StageOf, InBacklog
<1>4. \A d \in Clients \ {c} : StageOf(d)' = StageOf(d)
  <2>1. \A d \in Clients \ {c} : InBacklog(d)' <=> InBacklog(d)
    BY <1>2 DEF InBacklog
  <2> QED BY <1>1, <2>1 DEF StageOf, IsOpen
<1>5. Stages' = [Stages EXCEPT ![c] = "waiting"] /\ Stages[c] = "away"
  BY <1>3, <1>4, StageMoves DEF Stages
<1>6. Ups' = Ups \cup {c}
  BY <1>1 DEF Ups
<1>7. Nicks' = Nicks
  BY <1>1, SameNicks
<1> QED BY <1>1, <1>5, <1>6, <1>7
        DEF Room!Arrive, Room!Moves, Stages, Ups, Nicks

LEMMA SendLineTypes ==
  ASSUME TypeOK, Handles, NEW c \in Clients, SendLine(c)
  PROVE  Room!Type(c) /\ pc # "dead"
<1>1. /\ UNCHANGED <<backlog, conn, fd, sock, name, got, pc>> /\ pc # "dead"
      /\ conn[c] = "up" /\ (IsOpen(c) \/ InBacklog(c))
  BY DEF SendLine, serverVars
<1>2. Stages' = Stages /\ Ups' = Ups /\ Nicks' = Nicks
  BY <1>1, SameStages, SameUps, SameNicks
<1>3. c \in Ups /\ Stages[c] \in {"waiting", "in"}
  BY <1>1, StageFacts DEF Ups, Stages
<1> QED BY <1>1, <1>2, <1>3 DEF SendLine, Room!Type, Stages, Ups, Nicks

LEMMA LeaveHangsUp ==
  ASSUME TypeOK, Handles, NEW c \in Clients, Leave(c)
  PROVE  Room!HangUp(c) /\ pc # "dead"
<1>1. /\ UNCHANGED <<backlog, fd, sock, name, sent, inbox, got, pc>>
      /\ pc # "dead"
      /\ conn[c] = "up" /\ (IsOpen(c) \/ InBacklog(c))
  BY DEF Leave, clientVars, serverVars
<1>2. PICK s \in {"fin", "rst"} : conn' = [conn EXCEPT ![c] = s]
  BY DEF Leave
<1>3. conn \in [Clients -> ConnState]
  BY DEF TypeOK
<1>4. \A d \in Clients : conn'[d] = "new" <=> conn[d] = "new"
  BY <1>1, <1>2, <1>3
<1>5. Stages' = Stages /\ Nicks' = Nicks
  BY <1>1, <1>4, SameStages, SameNicks
<1>6. Ups' = Ups \ {c} /\ c \in Ups /\ Stages[c] \in {"waiting", "in"}
  BY <1>1, <1>2, <1>3, StageFacts DEF Ups, Stages
<1> QED BY <1>1, <1>5, <1>6 DEF Room!HangUp, Stages, Ups, Nicks

-----------------------------------------------------------------------------
(* The steps of the server. *)
LEMMA HeadLeavesQueue ==
  ASSUME TypeOK, Handles, backlog # <<>>, backlog' = Tail(backlog)
  PROVE  \E h \in Clients :
           /\ h = Head(backlog)
           /\ InBacklog(h) /\ ~InBacklog(h)'
           /\ \A c \in Clients \ {h} : InBacklog(c)' <=> InBacklog(c)
<1>1. /\ Len(backlog') = Len(backlog) - 1 /\ Len(backlog) \in Nat
      /\ \A i \in 1 .. Len(backlog') :
           /\ backlog'[i] = backlog[i + 1] /\ i + 1 \in 1 .. Len(backlog)
           /\ backlog'[i] # Head(backlog)
      /\ Head(backlog) = backlog[1] /\ Head(backlog) \in Clients
      /\ 1 \in 1 .. Len(backlog)
  BY BacklogTail
<1>2. PICK h \in Clients : h = backlog[1]
  BY <1>1
<1>3. ASSUME NEW c \in Clients, InBacklog(c), c # h
      PROVE  InBacklog(c)'
  <2>1. PICK i \in 1 .. Len(backlog) : backlog[i] = c
    BY <1>3 DEF InBacklog
  <2>2. i - 1 \in 1 .. Len(backlog') /\ (i - 1) + 1 = i
    BY <1>1, <1>2, <1>3, <2>1
  <2>3. backlog'[i - 1] = c
    BY <1>1, <2>1, <2>2
  <2> QED BY <2>2, <2>3 DEF InBacklog
<1>4. InBacklog(h) /\ ~InBacklog(h)'
  BY <1>1, <1>2 DEF InBacklog
<1>5. \A c \in Clients : InBacklog(c)' => InBacklog(c)
  BY <1>1 DEF InBacklog
<1> QED BY <1>1, <1>2, <1>3, <1>4, <1>5

LEMMA RefusalTurnsAway ==
  ASSUME TypeOK, Handles, RefuseWhenFull
  PROVE  /\ \E c \in Clients : Room!TurnAway(c)
         /\ pc # "dead" /\ pc' # "dead"
<1>1. /\ backlog # <<>> /\ backlog' = Tail(backlog)
      /\ UNCHANGED <<conn, fd, sock, name, sent, inbox, got>>
      /\ pc = "refuse" /\ pc' = "scan"
  BY DEF RefuseWhenFull, clientVars
<1>2. PICK h \in Clients :
        /\ InBacklog(h) /\ ~InBacklog(h)'
        /\ \A c \in Clients \ {h} : InBacklog(c)' <=> InBacklog(c)
  BY <1>1, HeadLeavesQueue
<1>3. conn[h] # "new" /\ ~IsOpen(h)
  BY <1>2 DEF Handles, OneHandlePerClient, NewHasNothing
<1>4. StageOf(h) = "waiting" /\ StageOf(h)' = "gone"
  BY <1>1, <1>2, <1>3 DEF StageOf, IsOpen
<1>5. \A c \in Clients \ {h} : StageOf(c)' = StageOf(c)
  BY <1>1, <1>2 DEF StageOf, IsOpen
<1>6. Stages' = [Stages EXCEPT ![h] = "gone"] /\ Stages[h] = "waiting"
  BY <1>2, <1>4, <1>5, StageMoves DEF Stages
<1>7. Ups' = Ups /\ Nicks' = Nicks
  BY <1>1, SameUps, SameNicks
<1>8. Room!TurnAway(h)
  BY <1>1, <1>6, <1>7 DEF Room!TurnAway, Room!Moves, Stages, Ups, Nicks
<1> QED BY <1>1, <1>2, <1>8

LEMMA JoinAdmits ==
  ASSUME TypeOK, Handles, NameInv, ClientJoin
  PROVE  /\ \E c \in Clients : Room!Admit(c)
         /\ pc # "dead" /\ pc' # "dead"
<1>1. /\ backlog # <<>> /\ backlog' = Tail(backlog)
      /\ UNCHANGED <<name, sent, inbox, got>>
      /\ pc = "scan" /\ pc' = "reselect"
      /\ sock[client_id] = -1 /\ client_id \in Slots
      /\ \A c \in Clients : OnlyReset(c)
  BY WriteToConn DEF ClientJoin, clientVars, TypeOK
<1>2. PICK h \in Clients :
        /\ h = Head(backlog)
        /\ InBacklog(h) /\ ~InBacklog(h)'
        /\ \A c \in Clients \ {h} : InBacklog(c)' <=> InBacklog(c)
  BY <1>1, HeadLeavesQueue
<1>3. PICK f \in Fds :
        /\ fd[f] = NOBODY
        /\ fd' = [fd EXCEPT ![f] = h]
        /\ sock' = [sock EXCEPT ![client_id] = f]
  BY <1>2 DEF ClientJoin, IsLowestFree
<1>4. /\ \A c \in Clients : conn'[c] = "new" <=> conn[c] = "new"
      /\ Ups' = Ups
  BY <1>1, WritesAreUnseen
<1>5. /\ fd \in [Fds -> Clients \cup {NOBODY}]
      /\ sock \in [Slots -> Fds \cup {-1}]
      /\ f # -1 /\ h # NOBODY
  BY FdsFacts, ChatAssumption DEF TypeOK
<1>6. conn[h] # "new" /\ ~IsOpen(h)
  BY <1>2 DEF Handles, OneHandlePerClient, NewHasNothing
<1>7. IsOpen(h)' /\ \A c \in Clients \ {h} : IsOpen(c)' <=> IsOpen(c)
  BY <1>3, <1>5, ChatAssumption DEF IsOpen
<1>8. StageOf(h) = "waiting" /\ StageOf(h)' = "in"
  BY <1>2, <1>4, <1>6, <1>7 DEF StageOf
<1>9. \A c \in Clients \ {h} : StageOf(c)' = StageOf(c)
  BY <1>2, <1>4, <1>7 DEF StageOf
<1>10. Stages' = [Stages EXCEPT ![h] = "in"] /\ Stages[h] = "waiting"
  BY <1>2, <1>8, <1>9, StageMoves DEF Stages
<1>11. name[client_id] = <<>>
  BY <1>1 DEF NameInv, NamesAreOwn
<1>12. \A i \in Occupied : /\ i # client_id /\ sock'[i] = sock[i]
                           /\ sock[i] \in Fds /\ sock[i] # f
                           /\ fd'[sock[i]] = fd[sock[i]]
  <2>1. \A i \in Occupied : /\ sock[i] \in Fds /\ fd[sock[i]] \in Clients
                            /\ i \in Slots /\ i # client_id
    BY <1>1, ClientOfSlot DEF Occupied
  <2> QED BY <1>3, <1>5, <2>1, ChatAssumption
<1>13. Occupied' = Occupied \cup {client_id}
  BY <1>1, <1>3, <1>5, <1>12 DEF Occupied
<1>14. sock'[client_id] = f /\ fd'[f] = h
  BY <1>1, <1>3, <1>5
<1>15. \A c \in Clients \ {h} : SlotsOf(c)' = SlotsOf(c)
  BY <1>12, <1>13, <1>14 DEF SlotsOf
<1>16. SlotsOf(h) = {} /\ SlotsOf(h)' = {client_id}
  <2>1. \A i \in Occupied : fd[sock[i]] # h
    BY <1>2, <1>6, OpenHasSlot
  <2>2. \A i \in Occupied : fd'[sock'[i]] # h
    BY <1>12, <2>1
  <2>3. {i \in Occupied' : fd'[sock'[i]] = h} = {client_id}
    BY <1>13, <1>14, <2>2
  <2> QED BY <2>1, <2>3 DEF SlotsOf
<1>17. Nicks' = Nicks
  <2>1. ASSUME NEW c \in Clients \ {h} PROVE NickOf(c)' = NickOf(c)
    <3>1. CASE SlotsOf(c) = {}
      BY <1>15, <3>1 DEF NickOf
    <3>2. CASE SlotsOf(c) # {}
      <4>1. PICK i \in Occupied : SlotsOf(c) = {i}
        BY <3>2, OneSlotAtMost
      <4>2. SlotsOf(c)' = {i}
        BY <1>15, <4>1
      <4>3. NickOf(c) = name[i]
        BY <4>1 DEF NickOf
      <4>4. NickOf(c)' = name'[i]
        BY <4>2 DEF NickOf
      <4> QED BY <1>1, <4>3, <4>4
    <3> QED BY <3>1, <3>2
  <2>2. NickOf(h) = <<>> /\ NickOf(h)' = <<>>
    BY <1>1, <1>11, <1>16 DEF NickOf
  <2> QED BY <2>1, <2>2 DEF Nicks
<1>18. Room!Admit(h)
  BY <1>1, <1>4, <1>10, <1>17 DEF Room!Admit, Room!Moves, Stages, Ups, Nicks
<1> QED BY <1>1, <1>2, <1>18

\* Whoever is served is in the room, under the name in its slot.
LEMMA ReceivingGuest ==
  ASSUME TypeOK, Handles, NEW c \in Clients, Receiving(c)
  PROVE  /\ Stages[c] = "in" /\ Nicks[c] = name[client_id]
         /\ client_id \in Occupied /\ fd[sock[client_id]] = c
         /\ pc # "dead"
<1>1. client_id \in Occupied /\ fd[sock[client_id]] = c
  BY ReceivingSlot
<1>2. NickOf(c) = name[client_id]
  BY <1>1, NickInSlot
<1>3. StageOf(c) = "in"
  BY <1>1, OpenHasSlot, StageFacts
<1> QED BY <1>1, <1>2, <1>3 DEF Stages, Nicks, Receiving

LEMMA PromptIsPrompt ==
  ASSUME TypeOK, Handles, NEW c \in Clients, PromptAgain(c)
  PROVE  Room!Prompt(c) /\ pc # "dead"
<1>1. /\ Receiving(c) /\ Recv(c) /\ inbox[c] # <<>>
      /\ name[client_id] = <<>> /\ IsEmptyLine(inbox[c])
      /\ UNCHANGED <<backlog, fd, sock, name, sent, got>>
      /\ \A d \in Clients : OnlyReset(d)
  BY WriteToConn DEF PromptAgain, clientVars
<1>2. /\ Stages[c] = "in" /\ Nicks[c] = <<>> /\ pc # "dead"
      /\ client_id \in Occupied /\ fd[sock[client_id]] = c
  BY <1>1, ReceivingGuest
<1>3. Stages' = Stages /\ Ups' = Ups /\ Nicks' = Nicks
  BY <1>1, WritesAreUnseen, SameStages, SameNicks
<1>4. pc' # "dead" \/ (pc' = "dead" /\ Room!In("in") \ Ups # {})
  <2>1. CASE Reset(c)
    <3>1. Room!In("in") \ Ups # {}
      BY <1>2, <2>1, ResetIsLeft
    <3> QED BY <2>1, <3>1 DEF PromptAgain
  <2>2. CASE ~Reset(c)
    BY <2>2, NextSlotType DEF PromptAgain
  <2> QED BY <2>1, <2>2
<1> QED BY <1>1, <1>2, <1>3, <1>4
        DEF Room!Prompt, Room!Reads, Room!GoesOn, Room!Ends, IsEmptyLine,
            Room!IsEmptyLine, Recv, Stages, Ups, Nicks

\* A broadcast of the server itself shows nothing.
LEMMA NoticeReaches ==
  ASSUME TypeOK, Handles, NEW S \in SUBSET Occupied, Broadcast(S, {})
  PROVE  /\ got' = got
         /\ pc' # "dead" \/ (pc' = "dead" /\ Room!In("in") \ Ups # {})
<1>1. Reaches({fd[sock[i]] : i \in S} \cap Ups, {})
  BY BroadcastReaches
<1> QED BY <1>1 DEF Reaches, TypeOK

LEMMA NameIsRegistered ==
  ASSUME TypeOK, Handles, NEW c \in Clients, SetClientName(c)
  PROVE  Room!Register(c) /\ pc # "dead"
<1>1. /\ Receiving(c) /\ Recv(c) /\ inbox[c] # <<>>
      /\ name[client_id] = <<>> /\ ~IsEmptyLine(inbox[c])
      /\ name' = [name EXCEPT ![client_id] = inbox[c]]
      /\ Broadcast(Recipients(-1), {})
      /\ UNCHANGED <<backlog, fd, sock, sent>>
  BY DEF SetClientName
<1>2. /\ Stages[c] = "in" /\ Nicks[c] = <<>> /\ pc # "dead"
      /\ client_id \in Occupied /\ fd[sock[client_id]] = c
  BY <1>1, ReceivingGuest
<1>3. Recipients(-1) = Occupied
  BY AllAreOccupied
<1>4. /\ \A d \in Clients : OnlyReset(d)
      /\ got' = got
      /\ pc' # "dead" \/ (pc' = "dead" /\ Room!In("in") \ Ups # {})
  <2>1. Occupied \in SUBSET Slots /\ Broadcast(Occupied, {})
    BY <1>1, <1>3 DEF Occupied
  <2>2. \A d \in Clients : OnlyReset(d)
    BY <2>1, BroadcastType
  <2>3. /\ got' = got
        /\ pc' # "dead" \/ (pc' = "dead" /\ Room!In("in") \ Ups # {})
    BY <2>1, NoticeReaches
  <2> QED BY <2>2, <2>3
<1>5. Stages' = Stages /\ Ups' = Ups
  BY <1>1, <1>4, WritesAreUnseen, SameStages
<1>6. \A d \in Clients : SlotsOf(d)' = SlotsOf(d)
  BY <1>1 DEF SlotsOf, Occupied
<1>7. SlotsOf(c) = {client_id}
  BY <1>1, ReceivingSlot DEF SlotsOf
<1>8. NickOf(c)' = inbox[c]
  <2>1. SlotsOf(c)' = {client_id}
    BY <1>6, <1>7
  <2>2. NickOf(c)' = name'[client_id]
    BY <2>1 DEF NickOf
  <2> QED BY <1>1, <1>2, <2>2 DEF TypeOK, Occupied
<1>9. ASSUME NEW d \in Clients \ {c} PROVE NickOf(d)' = NickOf(d)
  <2>1. CASE SlotsOf(d) = {}
    BY <1>6, <2>1 DEF NickOf
  <2>2. CASE SlotsOf(d) # {}
    <3>1. PICK i \in Occupied : SlotsOf(d) = {i}
      BY <2>2, OneSlotAtMost
    <3>2. SlotsOf(d)' = {i} /\ fd[sock[i]] = d
      BY <1>6, <3>1 DEF SlotsOf
    <3>3. name'[i] = name[i]
      BY <1>1, <1>2, <3>2 DEF TypeOK, Occupied
    <3>4. NickOf(d) = name[i] /\ NickOf(d)' = name'[i]
      BY <3>1, <3>2 DEF NickOf
    <3> QED BY <3>3, <3>4
  <2> QED BY <2>1, <2>2
<1>10. Nicks' = [Nicks EXCEPT ![c] = inbox[c]]
  BY <1>8, <1>9 DEF Nicks
<1> QED BY <1>1, <1>2, <1>4, <1>5, <1>10
        DEF Room!Register, Room!Reads, Room!GoesOn, Room!Ends, IsEmptyLine,
            Room!IsEmptyLine, Recv, Stages, Ups, Nicks

LEMMA ChatIsSaid ==
  ASSUME TypeOK, Handles, NEW c \in Clients, RelayChat(c)
  PROVE  Room!Say(c) /\ pc # "dead"
<1> DEFINE m == [name |-> Nicks[c], text |-> inbox[c]]
           A == (Room!In("in") \cap Ups) \ {c}
<1>1. /\ Receiving(c) /\ Recv(c) /\ inbox[c] # <<>>
      /\ name[client_id] # <<>>
      /\ UNCHANGED <<backlog, fd, sock, name, sent>>
      /\ Broadcast(Recipients(client_id),
                   {[name |-> name[client_id], text |-> inbox[c]]})
  BY DEF RelayChat
<1>2. Stages[c] = "in" /\ Nicks[c] = name[client_id] /\ pc # "dead"
  BY <1>1, ReceivingGuest
<1>3. Broadcast(Recipients(client_id), {m})
  BY <1>1, <1>2
<1>4. m \in Message
  BY <1>2 DEF TypeOK, Message
<1> HIDE DEF m
<1>5. \A d \in Clients : OnlyReset(d)
  BY <1>3, <1>4, RecipientsAreSlots, BroadcastType
<1>6. Stages' = Stages /\ Ups' = Ups /\ Nicks' = Nicks
  BY <1>1, <1>5, WritesAreUnseen, SameStages, SameNicks
<1>7. /\ Recipients(client_id) \in SUBSET Occupied
      /\ {fd[sock[i]] : i \in Recipients(client_id)} \cap Ups = A
  BY <1>1, RecipientsAreOthers
<1>8. PICK T \in SUBSET A :
        /\ got' = [d \in Clients |-> IF d \in T THEN got[d] \cup {m}
                                                ELSE got[d]]
        /\ \/ pc' # "dead" /\ T = A
           \/ pc' = "dead" /\ Room!In("in") \ Ups # {}
  <2>1. Reaches({fd[sock[i]] : i \in Recipients(client_id)} \cap Ups, {m})
    BY <1>3, <1>7, BroadcastReaches
  <2> QED BY <1>7, <2>1 DEF Reaches
<1>9. /\ Room!Hear(T, m)
      /\ \/ pc' # "dead" /\ T = Room!Others(c)
         \/ Room!Ends /\ T \in SUBSET Room!Others(c)
  BY <1>8 DEF Room!Hear, Room!Others, Room!Ends, Ups
<1>10. \/ pc' # "dead" /\ Room!Hear(Room!Others(c), m)
       \/ Room!Ends /\ \E S \in SUBSET Room!Others(c) : Room!Hear(S, m)
  BY <1>9
<1>11. Room!Reads(c) /\ Nicks[c] # <<>>
  BY <1>1, <1>2 DEF Room!Reads, Recv, Stages
<1> QED BY <1>1, <1>2, <1>6, <1>10, <1>11
        DEF Room!Say, Stages, Ups, Nicks, m

LEMMA ExitLeaves ==
  ASSUME TypeOK, Handles, NEW c \in Clients, ClientExit(c)
  PROVE  Room!Leave(c) /\ pc # "dead"
<1>1. /\ Receiving(c) /\ inbox[c] = <<>> /\ conn[c] \in {"fin", "finrst"}
      /\ fd' = [fd EXCEPT ![sock[client_id]] = NOBODY]
      /\ sock' = [sock EXCEPT ![client_id] = -1]
      /\ name' = [name EXCEPT ![client_id] = <<>>]
      /\ Broadcast(Recipients(client_id), {})
      /\ UNCHANGED <<backlog, inbox, sent>>
  BY DEF ClientExit, ReleaseSlot
<1>2. /\ Stages[c] = "in" /\ pc # "dead"
      /\ client_id \in Occupied /\ fd[sock[client_id]] = c
      /\ \A i \in Occupied : fd[sock[i]] = c => i = client_id
  BY <1>1, ReceivingGuest, ReceivingSlot
<1>3. Recipients(client_id) \in SUBSET Occupied
  BY DEF Recipients, Occupied
<1>4. /\ got' = got
      /\ pc' # "dead" \/ (pc' = "dead" /\ Room!In("in") \ Ups # {})
  BY <1>1, <1>3, NoticeReaches
<1>5. \A d \in Clients : OnlyReset(d)
  BY <1>1, RecipientsAreSlots, BroadcastType
<1>6. /\ Ups' = Ups
      /\ \A d \in Clients : conn'[d] = "new" <=> conn[d] = "new"
  BY <1>5, WritesAreUnseen
<1>7. /\ fd \in [Fds -> Clients \cup {NOBODY}]
      /\ sock \in [Slots -> Fds \cup {-1}]
      /\ name \in [Slots -> Seq(Line)]
      /\ client_id \in Slots /\ sock[client_id] \in Fds
      /\ \A f \in Fds : fd[f] = c => f = sock[client_id]
  BY <1>2, ClientOfSlot, ChatAssumption
     DEF TypeOK, Handles, OneHandlePerClient
<1>8. ~IsOpen(c)' /\ \A d \in Clients \ {c} : IsOpen(d)' <=> IsOpen(d)
  BY <1>1, <1>2, <1>7, ChatAssumption DEF IsOpen
<1>9. \A d \in Clients : InBacklog(d)' <=> InBacklog(d)
  BY <1>1 DEF InBacklog
<1>10. StageOf(c)' = "gone"
  <2>1. IsOpen(c)
    BY <1>2, OpenHasSlot
  <2>2. ~InBacklog(c)
    BY <2>1 DEF Handles, OneHandlePerClient
  <2> QED BY <1>1, <1>6, <1>8, <1>9, <2>2 DEF StageOf
<1>11. \A d \in Clients \ {c} : StageOf(d)' = StageOf(d)
  BY <1>6, <1>8, <1>9 DEF StageOf
<1>12. Stages' = [Stages EXCEPT ![c] = "gone"]
  BY <1>10, <1>11, StageMoves
<1>13. /\ Occupied' = Occupied \ {client_id}
       /\ \A i \in Occupied' : /\ sock'[i] = sock[i] /\ name'[i] = name[i]
                               /\ fd'[sock'[i]] = fd[sock[i]]
  <2>1. Occupied' = Occupied \ {client_id}
    BY <1>1, <1>7 DEF Occupied
  <2>2. \A i \in Occupied' : sock'[i] = sock[i] /\ name'[i] = name[i]
    BY <1>1, <1>7, <2>1 DEF Occupied
  <2>3. \A i \in Occupied' : sock[i] # sock[client_id] /\ sock[i] \in Fds
    BY <1>2, <2>1, ClientOfSlot
  <2> QED BY <1>1, <1>7, <2>1, <2>2, <2>3
<1>14. NickOf(c)' = <<>>
  <2>1. SlotsOf(c)' = {}
    BY <1>2, <1>13 DEF SlotsOf
  <2> QED BY <2>1 DEF NickOf
<1>15. ASSUME NEW d \in Clients \ {c} PROVE NickOf(d)' = NickOf(d)
  <2>1. SlotsOf(d)' = SlotsOf(d)
    BY <1>2, <1>13 DEF SlotsOf
  <2>2. CASE SlotsOf(d) = {}
    BY <2>1, <2>2 DEF NickOf
  <2>3. CASE SlotsOf(d) # {}
    <3>1. PICK i \in Occupied : SlotsOf(d) = {i}
      BY <2>3, OneSlotAtMost
    <3>2. SlotsOf(d)' = {i}
      BY <2>1, <3>1
    <3>3. i \in Occupied'
      BY <3>2 DEF SlotsOf
    <3>4. NickOf(d) = name[i] /\ NickOf(d)' = name'[i]
      BY <3>1, <3>2 DEF NickOf
    <3> QED BY <1>13, <3>3, <3>4
  <2> QED BY <2>2, <2>3
<1>16. Nicks' = [Nicks EXCEPT ![c] = <<>>]
  BY <1>14, <1>15 DEF Nicks
<1>17. c \notin Ups
  BY <1>1 DEF Ups
<1> QED BY <1>1, <1>2, <1>4, <1>6, <1>12, <1>16, <1>17
        DEF Room!Leave, Room!Moves, Room!GoesOn, Room!Ends, Stages, Ups,
            Nicks

LEMMA FailureCloses ==
  ASSUME TypeOK, Handles, NEW c \in Clients, RecvFails(c)
  PROVE  Room!Close /\ pc # "dead"
<1>1. /\ Receiving(c) /\ conn[c] = "rst" /\ pc' = "dead"
      /\ UNCHANGED <<backlog, conn, fd, sock, name, sent, inbox, got>>
  BY DEF RecvFails, netVars, clientVars
<1>2. client_id \in Occupied /\ fd[sock[client_id]] = c /\ pc # "dead"
  BY <1>1, ReceivingGuest
<1>3. Room!In("in") \ Ups # {}
  BY <1>1, <1>2, ResetIsLeft DEF Reset
<1>4. Stages' = Stages /\ Ups' = Ups /\ Nicks' = Nicks
  BY <1>1, SameStages, SameUps, SameNicks
<1> QED BY <1>1, <1>2, <1>3, <1>4
        DEF Room!Close, Room!Ends, Stages, Ups, Nicks

\* A step of the server is a step of one guest, the end of the room, or is
\* not seen there.
LEMMA RoomSteps ==
  ASSUME TypeOK, Handles, NameInv, [Next]_vars
  PROVE  [Room!Next]_(Room!vars)
<1>1. ASSUME NEW c \in Clients,
             \/ Room!Arrive(c) \/ Room!Type(c) \/ Room!HangUp(c)
             \/ Room!Admit(c) \/ Room!TurnAway(c) \/ Room!Prompt(c)
             \/ Room!Register(c) \/ Room!Say(c) \/ Room!Leave(c),
             pc # "dead"
      PROVE  Room!Next
  BY <1>1 DEF Room!Next, Room!Guest
<1>2. ASSUME NEW c \in Clients, Connect(c) \/ SendLine(c) \/ Leave(c)
      PROVE  Room!Next
  BY <1>1, <1>2, ConnectArrives, SendLineTypes, LeaveHangsUp
<1>3. ASSUME NEW c \in Clients, Serve(c)
      PROVE  Room!Next
  <2>1. CASE RecvFails(c)
    BY <2>1, FailureCloses DEF Room!Next
  <2>2. CASE PromptAgain(c) \/ SetClientName(c) \/ RelayChat(c) \/ ClientExit(c)
    BY <1>1, <2>2, PromptIsPrompt, NameIsRegistered, ChatIsSaid, ExitLeaves
  <2> QED BY <1>3, <2>1, <2>2 DEF Serve
<1>4. CASE RefuseWhenFull
  BY <1>1, <1>4, RefusalTurnsAway
<1>5. CASE ClientJoin
  BY <1>1, <1>5, JoinAdmits
<1>6. CASE \/ Select \/ SkipSlot \/ Reselect \/ UNCHANGED vars
  <2>1. UNCHANGED <<backlog, conn, fd, sock, name, sent, inbox, got>>
    BY <1>6 DEF Select, SkipSlot, Reselect, vars, netVars, clientVars,
                serverVars
  <2>2. (pc' # "dead") = (pc # "dead")
    BY <1>6, NextSlotType DEF Select, SkipSlot, Reselect, vars, serverVars
  <2>3. Stages' = Stages /\ Ups' = Ups /\ Nicks' = Nicks
    BY <2>1, SameStages, SameUps, SameNicks
  <2> QED BY <2>1, <2>2, <2>3 DEF Room!vars, Stages, Ups, Nicks
<1> QED BY <1>2, <1>3, <1>4, <1>5, <1>6 DEF Next, Server, Environment

LEMMA RoomOpens == Init => Room!Init
<1> SUFFICES ASSUME Init PROVE Room!Init
  OBVIOUS
<1>1. /\ backlog = <<>> /\ conn = [c \in Clients |-> "new"]
      /\ sock = [i \in Slots |-> -1]
      /\ inbox = [c \in Clients |-> <<>>] /\ pc = "select"
      /\ sent = [c \in Clients |-> 0] /\ got = [c \in Clients |-> {}]
  BY DEF Init
<1>2. Stages = [c \in Clients |-> "away"]
  BY <1>1 DEF Stages, StageOf
<1>3. Ups = {}
  BY <1>1 DEF Ups
<1>4. Nicks = [c \in Clients |-> <<>>]
  <2>1. \A c \in Clients : SlotsOf(c) = {}
    BY <1>1 DEF SlotsOf, Occupied
  <2> QED BY <2>1 DEF Nicks, NickOf
<1> QED BY <1>1, <1>2, <1>3, <1>4 DEF Room!Init, Stages, Ups, Nicks

LEMMA NamesCorrect == Spec => []NameInv
<1>1. TypeOK /\ Handles /\ NameInv /\ [Next]_vars => NameInv'
  BY NextNames
<1> QED BY <1>1, InitNames, TypeCorrect, HandlesCorrect, PTL DEF Spec

\* The chat server, with all that is used again in it and for any number of
\* clients and slots, is a ChatRoom: in particular what a guest says reaches
\* all the others who are there, at once and under the name it gave, and the
\* room ends only in the presence of somebody who has hung up.
THEOREM ServerIsARoom == Spec => ImplementsRoom
<1>1. TypeOK /\ Handles /\ NameInv /\ [Next]_vars
        => [Room!Next]_(Room!vars)
  BY RoomSteps
<1> QED BY <1>1, RoomOpens, TypeCorrect, HandlesCorrect, NamesCorrect, PTL
        DEF Spec, ImplementsRoom, Room!Spec

-----------------------------------------------------------------------------
(***************************************************************************)
(* Every line once.  Lines of one client are told apart by their number,   *)
(* and what was shown was read: it is not in a socket any more.            *)
(***************************************************************************)
SocketLinesDiffer ==
  \A c \in Clients : \A i, j \in 1 .. Len(inbox[c]) :
    inbox[c][i] = inbox[c][j] => i = j

ShownWasRead ==
  \A r \in Clients : \A m \in got[r] : \A i \in DOMAIN m.text :
    /\ m.text[i].n <= sent[m.text[i].from]
    /\ \A c \in Clients : \A j \in 1 .. Len(inbox[c]) :
         m.text[i] # inbox[c][j]

OnceInv == SocketLinesDiffer /\ ShownWasRead /\ Room!EachLineOnce

\* What a socket holds, and what a client was shown, is lines.
LEMMA LineTypes ==
  ASSUME TypeOK
  PROVE  /\ \A c \in Clients : \A j \in 1 .. Len(inbox[c]) :
              inbox[c][j] \in Line
         /\ \A r \in Clients : \A m \in got[r] :
              m.text \in Seq(Line) /\ \A i \in DOMAIN m.text : m.text[i] \in Line
<1>1. ASSUME NEW c \in Clients, NEW j \in 1 .. Len(inbox[c])
      PROVE  inbox[c][j] \in Line
  <2>1. inbox[c] \in Seq(Line)
    BY DEF TypeOK
  <2> QED BY <2>1
<1>2. ASSUME NEW r \in Clients, NEW m \in got[r]
      PROVE  m.text \in Seq(Line) /\ \A i \in DOMAIN m.text : m.text[i] \in Line
  <2>1. m \in Message
    BY DEF TypeOK
  <2>2. m.text \in Seq(Line)
    BY <2>1 DEF Message
  <2> QED BY <2>2
<1> QED BY <1>1, <1>2

\* A line that is typed has a number none of its client's had before.
LEMMA SendLineOnce ==
  ASSUME TypeOK, NamesAreOwn, OnceInv, NEW c \in Clients, SendLine(c)
  PROVE  OnceInv'
<1>1. PICK l :
        /\ l.from = c /\ l.n = sent[c] + 1
        /\ inbox' = [inbox EXCEPT ![c] = Append(@, l)]
  BY DEF SendLine
<1>2. sent' = [sent EXCEPT ![c] = @ + 1] /\ got' = got
  BY DEF SendLine
<1>3. /\ sent'[c] = sent[c] + 1 /\ sent[c] \in Nat
      /\ \A d \in Clients :
           sent[d] \in Nat /\ sent'[d] \in Nat /\ sent[d] <= sent'[d]
      /\ \A d \in Clients : d # c => inbox'[d] = inbox[d]
      /\ inbox'[c] = Append(inbox[c], l) /\ inbox[c] \in Seq(Line)
  BY <1>1, <1>2 DEF TypeOK
<1>4. /\ Len(inbox[c]) \in Nat /\ Len(inbox'[c]) = Len(inbox[c]) + 1
      /\ inbox'[c][Len(inbox[c]) + 1] = l
      /\ \A j \in 1 .. Len(inbox[c]) : inbox'[c][j] = inbox[c][j]
  BY <1>3
<1>5. \A j \in 1 .. Len(inbox[c]) : inbox[c][j] # l
  BY <1>1, <1>3 DEF NamesAreOwn, OwnLines
<1>6. SocketLinesDiffer'
  <2> SUFFICES ASSUME NEW d \in Clients,
                      NEW i \in 1 .. Len(inbox'[d]), NEW j \in 1 .. Len(inbox'[d]),
                      inbox'[d][i] = inbox'[d][j]
               PROVE  i = j
    BY DEF SocketLinesDiffer
  <2>1. CASE d # c
    BY <1>3, <2>1 DEF OnceInv, SocketLinesDiffer
  <2>2. CASE d = c
    BY <1>4, <1>5, <2>2 DEF OnceInv, SocketLinesDiffer
  <2> QED BY <2>1, <2>2
<1>7. ShownWasRead'
  <2> SUFFICES ASSUME NEW r \in Clients, NEW m \in got[r], NEW i \in DOMAIN m.text
               PROVE  /\ m.text[i].n <= sent'[m.text[i].from]
                      /\ \A d \in Clients : \A j \in 1 .. Len(inbox'[d]) :
                           m.text[i] # inbox'[d][j]
    BY <1>2 DEF ShownWasRead
  <2>1. /\ m.text[i].n <= sent[m.text[i].from]
        /\ \A d \in Clients : \A j \in 1 .. Len(inbox[d]) :
             m.text[i] # inbox[d][j]
    BY DEF OnceInv, ShownWasRead
  <2>2. m.text[i].from \in Clients /\ m.text[i].n \in Nat
    BY LineTypes DEF Line
  <2>3. m.text[i] # l
    BY <1>1, <1>3, <2>1, <2>2
  <2>4. ASSUME NEW d \in Clients, NEW j \in 1 .. Len(inbox'[d])
        PROVE  m.text[i] # inbox'[d][j]
    <3>1. CASE d # c
      BY <1>3, <2>1, <3>1
    <3>2. CASE d = c
      BY <1>4, <2>1, <2>3, <3>2
    <3> QED BY <3>1, <3>2
  <2> QED BY <1>3, <2>1, <2>2, <2>4
<1>8. Room!EachLineOnce'
  BY <1>2 DEF OnceInv, Room!EachLineOnce
<1> QED BY <1>6, <1>7, <1>8 DEF OnceInv

\* A recv that shows nobody anything loses lines, and repeats none.
LEMMA RecvOnce ==
  ASSUME TypeOK, OnceInv, NEW c \in Clients, Recv(c), UNCHANGED <<sent, got>>
  PROVE  OnceInv'
<1>1. /\ inbox'[c] = <<>>
      /\ \A d \in Clients : d # c => inbox'[d] = inbox[d]
  BY DEF Recv, TypeOK
<1>2. SocketLinesDiffer' /\ ShownWasRead'
  BY <1>1 DEF OnceInv, SocketLinesDiffer, ShownWasRead
<1> QED BY <1>2 DEF OnceInv, Room!EachLineOnce

\* A buffer is shown in one message, and it is gone from the socket.
LEMMA RelayOnce ==
  ASSUME TypeOK, NamesAreOwn, OnceInv, NEW c \in Clients, RelayChat(c)
  PROVE  OnceInv'
<1> DEFINE msg == [name |-> name[client_id], text |-> inbox[c]]
<1>1. Recv(c) /\ sent' = sent /\ Broadcast(Recipients(client_id), {msg})
  BY DEF RelayChat
<1>2. /\ inbox'[c] = <<>>
      /\ \A d \in Clients : d # c => inbox'[d] = inbox[d]
  BY <1>1 DEF Recv, TypeOK
<1>3. PICK S :
        got' = [e \in Clients |-> IF e \in S THEN got[e] \cup {msg}
                                             ELSE got[e]]
  <2>1. PICK T :
          got' = [e \in Clients |-> IF e \in T /\ conn[e] = "up"
                                    THEN got[e] \cup {msg} ELSE got[e]]
    BY <1>1 DEF Broadcast
  <2>2. got' = [e \in Clients |-> IF e \in {d \in T : conn[d] = "up"}
                                  THEN got[e] \cup {msg} ELSE got[e]]
    BY <2>1 DEF TypeOK
  <2> QED BY <2>2
<1>4. ASSUME NEW r \in Clients, NEW m \in got'[r], m \notin got[r]
      PROVE  m.text = inbox[c] /\ m = msg
  BY <1>3, <1>4
<1>5. inbox[c] \in Seq(Line) /\ DOMAIN inbox[c] = 1 .. Len(inbox[c])
  BY DEF TypeOK
<1> HIDE DEF msg
<1>6. SocketLinesDiffer'
  BY <1>2 DEF OnceInv, SocketLinesDiffer
<1>7. ShownWasRead'
  <2> SUFFICES ASSUME NEW r \in Clients, NEW m \in got'[r], NEW i \in DOMAIN m.text
               PROVE  /\ m.text[i].n <= sent[m.text[i].from]
                      /\ \A d \in Clients : \A j \in 1 .. Len(inbox'[d]) :
                           m.text[i] # inbox'[d][j]
    BY <1>1 DEF ShownWasRead
  <2>1. CASE m \in got[r]
    BY <1>2, <2>1 DEF OnceInv, ShownWasRead
  <2>2. CASE m \notin got[r]
    <3>1. m.text = inbox[c]
      BY <1>4, <2>2
    <3>2. inbox[c][i].from = c /\ inbox[c][i].n <= sent[c]
      BY <1>5, <3>1 DEF NamesAreOwn, OwnLines
    <3>3. \A d \in Clients : \A j \in 1 .. Len(inbox[d]) : inbox[d][j].from = d
      BY DEF NamesAreOwn, OwnLines
    <3> QED BY <1>2, <3>1, <3>2, <3>3
  <2> QED BY <2>1, <2>2
<1>8. Room!EachLineOnce'
  <2> SUFFICES ASSUME NEW r \in Clients, NEW m \in got'[r], NEW k \in got'[r],
                      NEW i \in DOMAIN m.text, NEW j \in DOMAIN k.text,
                      m.text[i] = k.text[j]
               PROVE  m = k /\ i = j
    BY DEF Room!EachLineOnce
  <2>1. CASE m \in got[r] /\ k \in got[r]
    BY <2>1 DEF OnceInv, Room!EachLineOnce
  <2>2. CASE m \notin got[r] /\ k \notin got[r]
    BY <1>4, <1>5, <2>2 DEF OnceInv, SocketLinesDiffer
  <2>3. CASE m \in got[r] /\ k \notin got[r]
    BY <1>4, <1>5, <2>3 DEF OnceInv, ShownWasRead
  <2>4. CASE m \notin got[r] /\ k \in got[r]
    BY <1>4, <1>5, <2>4 DEF OnceInv, ShownWasRead
  <2> QED BY <2>1, <2>2, <2>3, <2>4
<1> QED BY <1>6, <1>7, <1>8 DEF OnceInv

\* A notice shows no line.
LEMMA NoticeShowsNothing ==
  ASSUME TypeOK, NEW S, Broadcast(S, {})
  PROVE  got' = got
<1>1. got' = [c \in Clients |-> got[c]]
  BY DEF Broadcast
<1> QED BY <1>1 DEF TypeOK

LEMMA NextOnce ==
  ASSUME TypeOK, NamesAreOwn, OnceInv, [Next]_vars
  PROVE  OnceInv'
<1>1. ASSUME UNCHANGED <<inbox, sent, got>>
      PROVE  OnceInv'
  BY <1>1 DEF OnceInv, SocketLinesDiffer, ShownWasRead, Room!EachLineOnce
<1>2. CASE UNCHANGED vars
  BY <1>1, <1>2 DEF vars, netVars, clientVars
<1>3. ASSUME NEW c \in Clients, Connect(c) \/ SendLine(c) \/ Leave(c)
      PROVE  OnceInv'
  BY <1>1, <1>3, SendLineOnce DEF Connect, Leave, clientVars
<1>4. ASSUME NEW c \in Clients, Serve(c)
      PROVE  OnceInv'
  <2>1. CASE PromptAgain(c)
    BY <2>1, RecvOnce DEF PromptAgain, clientVars
  <2>2. CASE SetClientName(c)
    <3>1. Recv(c) /\ sent' = sent /\ got' = got
      BY <2>2, NoticeShowsNothing DEF SetClientName
    <3> QED BY <3>1, RecvOnce
  <2>3. CASE RelayChat(c)
    BY <2>3, RelayOnce
  <2>4. CASE ClientExit(c)
    <3>1. inbox' = inbox /\ sent' = sent /\ got' = got
      BY <2>4, NoticeShowsNothing DEF ClientExit
    <3> QED BY <1>1, <3>1
  <2>5. CASE RecvFails(c)
    BY <1>1, <2>5 DEF RecvFails, netVars, clientVars
  <2> QED BY <1>4, <2>1, <2>2, <2>3, <2>4, <2>5 DEF Serve
<1>5. CASE Select \/ RefuseWhenFull \/ SkipSlot \/ ClientJoin \/ Reselect
  BY <1>1, <1>5 DEF Select, RefuseWhenFull, SkipSlot, ClientJoin, Reselect,
                    netVars, clientVars
<1> QED BY <1>2, <1>3, <1>4, <1>5 DEF Next, Server, Environment

LEMMA InitOnce == Init => OnceInv
BY DEF Init, OnceInv, SocketLinesDiffer, ShownWasRead, Room!EachLineOnce

\* No line of the chat is shown to a client twice, in one message or in two:
\* a buffer is out of its socket before it is sent on (chat_server.c:90) and
\* goes to every slot once (chat_server.c:197), for any number of clients,
\* slots and lines.
THEOREM NoLineIsShownTwice == Spec => []Room!EachLineOnce
<1>1. OnceInv => Room!EachLineOnce
  BY DEF OnceInv
<1>2. NameInv => NamesAreOwn
  BY DEF NameInv
<1>3. TypeOK /\ NamesAreOwn /\ OnceInv /\ [Next]_vars => OnceInv'
  BY NextOnce
<1> QED BY <1>1, <1>2, <1>3, InitOnce, TypeCorrect, NamesCorrect, PTL DEF Spec
=============================================================================
