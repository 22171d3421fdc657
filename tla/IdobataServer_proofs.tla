------------------------ MODULE IdobataServer_proofs ------------------------
(***************************************************************************)
(* The server of the meeting, for any number of clients and any stack.     *)
(* The walk goes on from nodes that were freed under it, and a deletion    *)
(* may begin another one: the invariant follows both along the list.       *)
(***************************************************************************)
EXTENDS IdobataServer, FiniteSetTheorems, TLAPS

\* What was proved of the list.
Lists == INSTANCE MemberList_proofs

-----------------------------------------------------------------------------
(***************************************************************************)
(* The inductive invariant                                                 *)
(***************************************************************************)
N   == Len(chain)
Fds == {fd[c] : c \in Clients} \ {NULL}
OpenStates == {"up", "fin", "broken", "rst"}
IsOpen(c)  == conn[c] \in OpenStates

\* select watches what is open; a client is in the queue before that, once.
NetInv ==
  /\ mask = {KEYBOARD, UDP, TCP, OWN} \cup Fds
  /\ \A s \in mask : s <= Max_sd
  /\ \A c, d \in Clients : fd[c] # NULL /\ fd[c] = fd[d] => c = d
  /\ \A c \in Clients : fd[c] # NULL => IsOpen(c)
  /\ \A i \in DOMAIN backlog :
       fd[backlog[i]] = NULL /\ IsOpen(backlog[i])
  /\ \A i, j \in DOMAIN backlog : backlog[i] = backlog[j] => i = j

\* The members are what is open, and the one who is just being deleted.
MemberInv ==
  /\ Members = Fds \cup (IF at = "delete" THEN {arg} ELSE {})
  /\ at = "delete" => arg \notin Fds
  /\ \A i, j \in DOMAIN chain : sock[chain[i]] = sock[chain[j]] => i = j
  /\ pc = IF at = "delete" THEN "search" ELSE "idle"

Walking     == at \in {"walk", "recv", "send", "delete"}
IsServed(s) == \E k \in DOMAIN served : served[k] = s
Ready(s)    == \E c \in Behind(s) : inbox[c] # <<>> \/ HangsUp(c)

\* What select reported stays true until it is served.
ReadyInv ==
  \A s \in readfds \cap Socks : IsServed(s) \/ (s \in Members /\ Ready(s))

\* Node n is the p-th of the list, or one of S behind its end.
Place(S, p, n) ==
  IF p \in 1 .. N THEN n = chain[p] ELSE n \in S \cup {NULL}

\* S holds no member, and no pointer leads out of it.
Freed(S) ==
  S \subseteq Nodes \ live /\ \A n \in S : next[n] \in S \cup {NULL}

\* The walk is at place p: the members before it were served if they were
\* ready, those behind it not; what may follow the list is not ready.
Passed(j, p) == j < p \/ (j = p /\ at # "walk")
WalkAt(S, p) ==
  /\ Freed(S) /\ \A n \in S : sock[n] \notin readfds
  /\ p \in 1 .. N => next[tail] \in S \cup {NULL}
  /\ Place(S, p, cur)
  /\ at # "walk" => p \in 1 .. N /\ sock[cur] \in readfds
  /\ \A j \in 1 .. N :
       /\ IsServed(sock[chain[j]]) => Passed(j, p)
       /\ Passed(j, p) /\ sock[chain[j]] \in readfds
            => IsServed(sock[chain[j]])

WalkInv ==
  IF Walking
  THEN ReadyInv /\ \E S \in SUBSET Nodes, p \in 1 .. N + 1 : WalkAt(S, p)
  ELSE served = <<>>

\* D holds all that follows the tail: no descriptor is open for it.
AfterTail(D) ==
  /\ Freed(D) /\ \A n \in D : sock[n] \notin mask
  /\ tail # NULL => next[tail] \in D \cup {NULL}

Times(to, c) == {i \in DOMAIN to : to[i] = c}

\* A post at place q has been sent to all before q but its author.
SentTo(to, by, q) ==
  \A c \in Clients, j \in 1 .. N :
    fd[c] = sock[chain[j]] /\ conn[c] = "up" =>
      IF j < q /\ c # by THEN \E i \in DOMAIN to : Times(to, c) = {i}
                         ELSE Times(to, c) = {}

SentUpTo(f, q) ==
  f.text # NULL =>
    /\ f.victim = NULL /\ f.from = sock[cur] /\ fd[f.text.by] = sock[cur]
    /\ SentTo(f.to, f.text.by, q)

\* A call that was made from another one never returns: somebody at q or
\* behind it is broken, and the call will delete him, and so on.
FrameAt(f, q) ==
  IF Len(stack) = 1
  THEN /\ f.victim \in {NULL, sock[cur]}
       /\ f.from \in {FROM_SERVER, sock[cur]}
       /\ SentUpTo(f, q)
  ELSE /\ f.from = FROM_SERVER /\ f.text = NULL
       /\ \E r \in q .. N, c \in Clients :
            fd[c] = sock[chain[r]] /\ conn[c] = "broken"

CallInv ==
  /\ \E D \in SUBSET Nodes :
       /\ AfterTail(D)
       /\ at = "send" => \E q \in 1 .. N + 1 :
            Place(D, q, Top.node) /\ FrameAt(Top, q)
  /\ at = "send" => stack # <<>>
  /\ at = "delete" => Len(stack) = 1 /\ arg = sock[cur]
  /\ at \notin {"send", "delete"} => stack = <<>>

RunInv == Lists!IInv /\ NetInv /\ MemberInv /\ WalkInv /\ CallInv
IInv   == TypeOK /\ (at # "stopped" => RunInv)

-----------------------------------------------------------------------------
(***************************************************************************)
(* The list                                                                *)
(***************************************************************************)
LEMMA ListConstants == Lists!MemberListAssumption
BY IdobataAssumption DEF Lists!MemberListAssumption

\* The list of the server is the one of MemberList_proofs.
LEMMA SameList ==
  /\ List!TypeOK <=> Lists!TypeOK
  /\ List!Init <=> Lists!Init
  /\ \A s : /\ List!AddUser(s) <=> Lists!AddUser(s)
            /\ List!BeginDelete(s) <=> Lists!BeginDelete(s)
  /\ List!SearchOn <=> Lists!SearchOn
  /\ List!NotFound <=> Lists!NotFound
  /\ List!Remove <=> Lists!Remove
  /\ List!FreeTwice <=> Lists!FreeTwice
<1>1. /\ List!TypeOK <=> Lists!TypeOK
      /\ List!Init <=> Lists!Init
  BY DEF List!TypeOK, Lists!TypeOK, List!Pointer, Lists!Pointer,
         List!Init, Lists!Init
<1>2. \A s : /\ List!AddUser(s) <=> Lists!AddUser(s)
             /\ List!BeginDelete(s) <=> Lists!BeginDelete(s)
  BY DEF List!AddUser, Lists!AddUser, List!LinkAtTail, Lists!LinkAtTail,
         List!BeginDelete, Lists!BeginDelete, List!localVars, Lists!localVars,
         List!heapVars, Lists!heapVars
<1>3. /\ List!SearchOn <=> Lists!SearchOn
      /\ List!NotFound <=> Lists!NotFound
      /\ List!FreeTwice <=> Lists!FreeTwice
  BY DEF List!SearchOn, Lists!SearchOn, List!NotFound, Lists!NotFound,
         List!FreeTwice, Lists!FreeTwice, List!localVars, Lists!localVars,
         List!heapVars, Lists!heapVars
<1>4. List!Remove <=> Lists!Remove
  BY DEF List!Remove, Lists!Remove, List!Unlink, Lists!Unlink,
         List!Without, Lists!Without, List!localVars, Lists!localVars
<1> QED BY <1>1, <1>2, <1>3, <1>4

LEMMA ListStays ==
  ASSUME Lists!IInv, UNCHANGED listVars
  PROVE  Lists!IInv'
<1>1. UNCHANGED <<head, tail, next, sock, live, pc, arg, current, prev, chain>>
  BY DEF listVars
<1>2. Lists!TypeOK' /\ Lists!ListHoldsMembers'
  BY <1>1 DEF Lists!IInv, Lists!TypeOK, Lists!ListHoldsMembers, Lists!Pointer
<1>3. Lists!SearchInv'
  BY <1>1 DEF Lists!IInv, Lists!SearchInv, Lists!BehindTail, Lists!Found
<1> QED BY <1>2, <1>3 DEF Lists!IInv

LEMMA ListFacts ==
  ASSUME Lists!IInv
  PROVE  /\ chain \in Seq(Nodes) /\ N \in Nat /\ DOMAIN chain = 1 .. N
         /\ \A i \in 1 .. N :
              /\ chain[i] \in live /\ chain[i] \in Nodes /\ chain[i] # NULL
              /\ sock[chain[i]] \in Socks
         /\ \A i, j \in 1 .. N : chain[i] = chain[j] => i = j
         /\ live \subseteq Nodes
         /\ N = 0 => head = NULL
         /\ N # 0 => head = chain[1] /\ tail = chain[N] /\ tail # NULL
         /\ \A i \in 1 .. N - 1 : next[chain[i]] = chain[i + 1]
<1>1. /\ chain \in Seq(Nodes) /\ Len(chain) \in Nat
      /\ DOMAIN chain = 1 .. Len(chain)
      /\ \A i \in 1 .. Len(chain) : /\ chain[i] \in live /\ chain[i] \in Nodes
                                    /\ chain[i] # NULL
      /\ \A i, j \in 1 .. Len(chain) : chain[i] = chain[j] => i = j
  BY ListConstants, Lists!ChainFacts
<1>2. \A i \in 1 .. Len(chain) : sock[chain[i]] \in Socks
  BY <1>1 DEF Lists!IInv, Lists!TypeOK
<1>3. /\ live \subseteq Nodes
      /\ Len(chain) = 0 => head = NULL
      /\ Len(chain) # 0 => head = chain[1] /\ tail = chain[Len(chain)]
      /\ \A i \in 1 .. Len(chain) - 1 : next[chain[i]] = chain[i + 1]
  BY <1>1 DEF Lists!IInv, Lists!TypeOK, Lists!ListHoldsMembers
<1>4. Len(chain) # 0 => Len(chain) \in 1 .. Len(chain)
  BY <1>1
<1> QED BY <1>1, <1>2, <1>3, <1>4 DEF N

\* Sockets are numbers above the descriptors the server opened first.
LEMMA SockFacts ==
  /\ Cardinality(Clients) \in Nat /\ Socks \subseteq Int
  /\ \A s \in Socks : s # NULL /\ s > OWN /\ s <= OWN + Cardinality(Clients)
  /\ \A s \in Socks : s \notin {KEYBOARD, UDP, TCP, OWN, FROM_SERVER}
<1>1. Cardinality(Clients) \in Nat
  BY IdobataAssumption, FS_CardinalityType
<1> QED BY <1>1, IdobataAssumption
        DEF Socks, KEYBOARD, UDP, TCP, OWN, FROM_SERVER

\* From one place of the list to the next.
Following(p) == IF p \in 1 .. N THEN p + 1 ELSE p

LEMMA NextPlace ==
  ASSUME Lists!IInv, NEW S \in SUBSET Nodes, Freed(S),
         NEW p \in 1 .. N + 1, NEW n, n # NULL, Place(S, p, n),
         p \in 1 .. N => next[tail] \in S \cup {NULL}
  PROVE  Following(p) \in 1 .. N + 1 /\ Place(S, Following(p), next[n])
<1>1. N \in Nat
  BY ListFacts
<1>2. CASE p \in 1 .. N - 1
  BY <1>1, <1>2, ListFacts DEF Place, Following
<1>3. CASE p = N /\ N # 0
  BY <1>1, <1>3, ListFacts DEF Place, Following
<1>4. CASE p = N + 1
  BY <1>1, <1>4 DEF Place, Following, Freed
<1> QED BY <1>1, <1>2, <1>3, <1>4

-----------------------------------------------------------------------------
(***************************************************************************)
(* What leaves each part of the invariant alone                            *)
(***************************************************************************)
\* A connection the server has open only comes nearer to its end.
Onward ==
  \A c \in Clients : fd[c] # NULL =>
    \/ conn'[c] = conn[c]
    \/ /\ conn[c] \in {"up", "fin", "rst"}
       /\ conn'[c] \in {"fin", "rst", "broken"}

\* What was not read is only taken by whom is served.
InboxKept ==
  \A c \in Clients : inbox[c] # <<>> /\ ~IsServed(fd[c]) => inbox'[c] # <<>>

LEMMA NetStays ==
  ASSUME NetInv, UNCHANGED <<fd, mask, Max_sd, backlog>>,
         \A c \in Clients : IsOpen(c) => IsOpen(c)',
         backlog \in Seq(Clients)
  PROVE  NetInv'
<1>1. Fds' = Fds
  BY DEF Fds
<1>2. \A i \in DOMAIN backlog : backlog[i] \in Clients
  OBVIOUS
<1> QED BY <1>1, <1>2 DEF NetInv

LEMMA MembersStay ==
  ASSUME MemberInv, UNCHANGED <<sock, chain, pc, arg, fd>>,
         at' = at \/ (at # "delete" /\ at' # "delete")
  PROVE  MemberInv'
<1>1. Members' = Members /\ Fds' = Fds
  BY DEF Members, Fds
<1> QED BY <1>1 DEF MemberInv

LEMMA ReadyStays ==
  ASSUME ReadyInv, UNCHANGED <<sock, chain, fd, readfds>>,
         \A s : IsServed(s) => IsServed(s)', Onward, InboxKept
  PROVE  ReadyInv'
<1>1. Members' = Members
  BY DEF Members
<1>2. ASSUME NEW s \in readfds \cap Socks, s \in Members, Ready(s), ~IsServed(s)
      PROVE  Ready(s)'
  <2>1. PICK c \in Clients : fd[c] = s /\ (inbox[c] # <<>> \/ HangsUp(c))
    BY <1>2 DEF Ready, Behind
  <2>2. fd[c] # NULL
    BY <2>1, SockFacts
  <2>3. inbox[c] # <<>> => inbox'[c] # <<>>
    BY <1>2, <2>1 DEF InboxKept
  <2>4. HangsUp(c) => HangsUp(c)'
    BY <2>2 DEF Onward, HangsUp
  <2>5. c \in Behind(s)'
    BY <2>1 DEF Behind
  <2> QED BY <2>1, <2>3, <2>4, <2>5 DEF Ready
<1> QED BY <1>1, <1>2 DEF ReadyInv

LEMMA WalkStays ==
  ASSUME WalkInv, UNCHANGED <<tail, next, sock, live, chain>>,
         UNCHANGED <<fd, readfds, served, cur>>,
         at' = at \/ {at, at'} \subseteq {"recv", "send"}, Onward, InboxKept
  PROVE  WalkInv'
<1>1. N' = N
  BY DEF N
<1>2. Walking' = Walking
  BY DEF Walking
<1>3. \A s : IsServed(s)' = IsServed(s)
  BY DEF IsServed
<1>4. CASE Walking
  <2>1. ReadyInv'
    BY <1>3, <1>4, ReadyStays DEF WalkInv
  <2>2. PICK S \in SUBSET Nodes, p \in 1 .. N + 1 : WalkAt(S, p)
    BY <1>4 DEF WalkInv
  <2>3. \A j \in 1 .. N : Passed(j, p)' = Passed(j, p)
    BY DEF Passed
  <2>4. at' # "walk" => at # "walk"
    OBVIOUS
  <2>5. WalkAt(S, p)'
    BY <1>1, <1>3, <2>2, <2>3, <2>4 DEF WalkAt, Freed, Place
  <2> QED BY <1>1, <1>2, <1>4, <2>1, <2>5 DEF WalkInv
<1>5. CASE ~Walking
  BY <1>2, <1>5 DEF WalkInv
<1> QED BY <1>4, <1>5

LEMMA AfterTailStays ==
  ASSUME NEW D \in SUBSET Nodes, AfterTail(D),
         UNCHANGED <<tail, next, sock, live, mask>>
  PROVE  AfterTail(D)'
BY DEF AfterTail, Freed

\* A frame at its place, when connections come nearer to their end.
LEMMA FrameStays ==
  ASSUME Lists!IInv, NEW f, NEW q \in 1 .. N + 1, FrameAt(f, q),
         UNCHANGED <<sock, chain, fd, cur>>, Len(stack') = Len(stack), Onward
  PROVE  FrameAt(f, q)'
<1>1. N' = N
  BY DEF N
<1>2. \A c \in Clients, j \in 1 .. N : fd[c] = sock[chain[j]] =>
        /\ conn'[c] = "up" => conn[c] = "up"
        /\ conn[c] = "broken" => conn'[c] = "broken"
  <2> SUFFICES ASSUME NEW c \in Clients, NEW j \in 1 .. N, fd[c] = sock[chain[j]]
               PROVE  /\ conn'[c] = "up" => conn[c] = "up"
                      /\ conn[c] = "broken" => conn'[c] = "broken"
    OBVIOUS
  <2>1. fd[c] # NULL
    BY ListFacts, SockFacts
  <2> QED BY <2>1 DEF Onward
<1>3. CASE Len(stack) = 1
  <2>1. SentUpTo(f, q)'
    BY <1>1, <1>2, <1>3 DEF FrameAt, SentUpTo, SentTo, Times
  <2> QED BY <1>1, <1>3, <2>1 DEF FrameAt
<1>4. CASE Len(stack) # 1
  <2>1. PICK r \in q .. N, c \in Clients :
          fd[c] = sock[chain[r]] /\ conn[c] = "broken"
    BY <1>4 DEF FrameAt
  <2>2. r \in 1 .. N
    BY ListFacts
  <2>3. conn'[c] = "broken"
    BY <1>2, <2>1, <2>2
  <2> QED BY <1>1, <1>4, <2>1, <2>3 DEF FrameAt
<1> QED BY <1>3, <1>4

LEMMA CallStays ==
  ASSUME Lists!IInv, CallInv, UNCHANGED <<tail, next, sock, live, chain, arg>>,
         UNCHANGED <<mask, fd, stack>>, Onward,
         \/ at' = at /\ cur' = cur
         \/ at \notin {"send", "delete"} /\ at' \notin {"send", "delete"}
  PROVE  CallInv'
<1>1. N' = N
  BY DEF N
<1>2. PICK D \in SUBSET Nodes :
        /\ AfterTail(D)
        /\ at = "send" => \E q \in 1 .. N + 1 :
             Place(D, q, Top.node) /\ FrameAt(Top, q)
  BY DEF CallInv
<1>3. AfterTail(D)'
  BY <1>2, AfterTailStays
<1>4. CASE at' \notin {"send", "delete"}
  BY <1>2, <1>3, <1>4 DEF CallInv
<1>5. CASE at' = "delete"
  BY <1>1, <1>3, <1>5 DEF CallInv
<1>6. CASE at' = "send"
  <2>1. at = "send" /\ cur' = cur
    BY <1>6
  <2>2. PICK q \in 1 .. N + 1 : Place(D, q, Top.node) /\ FrameAt(Top, q)
    BY <1>2, <2>1
  <2>3. FrameAt(Top, q)'
    <3>1. Top' = Top
      BY DEF Top
    <3> DEFINE f == Top
    <3>2. FrameAt(f, q)
      BY <2>2
    <3> QED BY <2>1, <2>2, <3>1, FrameStays
  <2>4. Place(D, q, Top.node)'
    BY <1>1, <2>2 DEF Place, Top
  <2> QED BY <1>1, <1>3, <1>6, <2>1, <2>3, <2>4 DEF CallInv
<1> QED BY <1>4, <1>5, <1>6

-----------------------------------------------------------------------------
(***************************************************************************)
(* The clients                                                             *)
(***************************************************************************)
LEMMA ListTypeStays ==
  ASSUME TypeOK, UNCHANGED listVars
  PROVE  List!TypeOK'
BY DEF TypeOK, listVars, List!TypeOK, List!Pointer

LEMMA ListTypeHolds ==
  ASSUME Lists!IInv'
  PROVE  List!TypeOK'
BY DEF Lists!IInv, Lists!TypeOK, Lists!Pointer, List!TypeOK, List!Pointer

\* A client does something, and the server nothing.
LEMMA RestStays ==
  ASSUME RunInv, UNCHANGED <<listVars, fd, selectVars, walkVars>>,
         Onward, InboxKept
  PROVE  Lists!IInv' /\ MemberInv' /\ WalkInv' /\ CallInv'
<1>1. /\ UNCHANGED <<tail, next, sock, live, pc, arg, chain>>
      /\ UNCHANGED <<mask, readfds, at, cur, served, stack>>
  BY DEF listVars, selectVars, walkVars
<1>2. Lists!IInv'
  BY ListStays DEF RunInv
<1>3. MemberInv'
  BY <1>1, MembersStay DEF RunInv
<1>4. WalkInv'
  BY <1>1, WalkStays DEF RunInv
<1>5. CallInv'
  BY <1>1, CallStays DEF RunInv
<1> QED BY <1>2, <1>3, <1>4, <1>5

LEMMA ConnectInv ==
  ASSUME IInv, at # "stopped", NEW c \in Clients, Connect(c)
  PROVE  IInv'
<1>1. /\ RunInv /\ TypeOK
      /\ conn[c] = "new" /\ conn' = [conn EXCEPT ![c] = "up"]
      /\ backlog' = Append(backlog, c)
      /\ UNCHANGED <<listVars, named, inbox, fd, clientVars, selectVars,
                     walkVars>>
  BY DEF IInv, Connect
<1>2. backlog \in Seq(Clients) /\ conn \in [Clients -> ConnState]
  BY <1>1 DEF TypeOK
<1>3. /\ backlog' \in Seq(Clients) /\ Len(backlog) \in Nat
      /\ DOMAIN backlog = 1 .. Len(backlog)
      /\ DOMAIN backlog' = 1 .. Len(backlog) + 1
      /\ \A i \in 1 .. Len(backlog) :
           backlog'[i] = backlog[i] /\ backlog[i] \in Clients
      /\ backlog'[Len(backlog) + 1] = c
  BY <1>1, <1>2
<1>4. \A d \in Clients : conn'[d] = IF d = c THEN "up" ELSE conn[d]
  BY <1>1, <1>2
<1>5. fd[c] = NULL /\ ~IsOpen(c)
  BY <1>1 DEF RunInv, NetInv, IsOpen, OpenStates
<1>6. TypeOK'
  <2>1. List!TypeOK'
    BY <1>1, ListTypeStays
  <2>2. conn' \in [Clients -> ConnState]
    BY <1>1, <1>2 DEF ConnState
  <2> QED BY <1>1, <1>3, <2>1, <2>2
          DEF TypeOK, listVars, clientVars, selectVars, walkVars
<1>7. NetInv'
  <2>1. Fds' = Fds
    BY <1>1 DEF Fds
  <2>2. \A d \in Clients : conn[d] \in OpenStates => conn'[d] \in OpenStates
    BY <1>1, <1>4 DEF OpenStates
  <2>3. conn'[c] \in OpenStates
    BY <1>4 DEF OpenStates
  <2>4. \A i \in DOMAIN backlog' :
          fd'[backlog'[i]] = NULL /\ conn'[backlog'[i]] \in OpenStates
    BY <1>1, <1>3, <1>5, <2>2, <2>3 DEF RunInv, NetInv, IsOpen
  <2>5. \A i, j \in DOMAIN backlog' : backlog'[i] = backlog'[j] => i = j
    BY <1>1, <1>3, <1>5 DEF RunInv, NetInv
  <2> QED BY <1>1, <2>1, <2>2, <2>4, <2>5 DEF RunInv, NetInv, IsOpen, selectVars
<1>8. Onward /\ InboxKept
  BY <1>1, <1>4, <1>5 DEF Onward, InboxKept
<1> QED BY <1>1, <1>6, <1>7, <1>8, RestStays DEF IInv, RunInv

LEMMA SayInv ==
  ASSUME IInv, at # "stopped", NEW c \in Clients, Say(c)
  PROVE  IInv'
<1>1. PICK t \in Types(c) :
        inbox' = [inbox EXCEPT ![c] =
                    Append(@, [type |-> t, no |-> said[c] + 1])]
  BY DEF Say
<1>2. /\ RunInv /\ TypeOK
      /\ said' = [said EXCEPT ![c] = @ + 1]
      /\ UNCHANGED <<listVars, named, backlog, conn, fd, heard, unread,
                     selectVars, walkVars>>
  BY DEF IInv, Say
<1>3. inbox \in [Clients -> Seq(Packet)] /\ said \in [Clients -> Nat]
      /\ [type |-> t, no |-> said[c] + 1] \in Packet
  BY <1>2 DEF TypeOK, Types, Packet
<1>4. /\ inbox' \in [Clients -> Seq(Packet)]
      /\ \A d \in Clients : inbox[d] # <<>> => inbox'[d] # <<>>
  BY <1>1, <1>3
<1>5. TypeOK'
  <2>1. List!TypeOK'
    BY <1>2, ListTypeStays
  <2>2. said' \in [Clients -> Nat]
    BY <1>2, <1>3
  <2> QED BY <1>2, <1>4, <2>1, <2>2
          DEF TypeOK, listVars, selectVars, walkVars
<1>6. NetInv'
  BY <1>2, NetStays DEF RunInv, TypeOK, selectVars, IsOpen
<1>7. Onward /\ InboxKept
  BY <1>2, <1>4 DEF Onward, InboxKept
<1> QED BY <1>2, <1>5, <1>6, <1>7, RestStays DEF IInv, RunInv

LEMMA LeaveInv ==
  ASSUME IInv, at # "stopped", NEW c \in Clients, Leave(c)
  PROVE  IInv'
<1>1. /\ RunInv /\ TypeOK /\ conn[c] = "up"
      /\ \/ conn' = [conn EXCEPT ![c] = "fin"]
         \/ conn' = [conn EXCEPT ![c] = "rst"]
      /\ UNCHANGED <<listVars, named, backlog, inbox, fd, clientVars,
                     selectVars, walkVars>>
  BY DEF IInv, Leave
<1>2. conn \in [Clients -> ConnState]
  BY <1>1 DEF TypeOK
<1>3. /\ conn' \in [Clients -> ConnState]
      /\ \A d \in Clients : d # c => conn'[d] = conn[d]
      /\ conn'[c] \in {"fin", "rst"}
  BY <1>1, <1>2 DEF ConnState
<1>4. TypeOK'
  <2>1. List!TypeOK'
    BY <1>1, ListTypeStays
  <2> QED BY <1>1, <1>3, <2>1
          DEF TypeOK, listVars, clientVars, selectVars, walkVars
<1>5. NetInv'
  <2>1. \A d \in Clients : IsOpen(d) => IsOpen(d)'
    BY <1>1, <1>3 DEF IsOpen, OpenStates
  <2> QED BY <1>1, <2>1, NetStays DEF RunInv, TypeOK, selectVars
<1>6. Onward /\ InboxKept
  BY <1>1, <1>3 DEF Onward, InboxKept
<1> QED BY <1>1, <1>4, <1>5, <1>6, RestStays DEF IInv, RunInv

-----------------------------------------------------------------------------
(***************************************************************************)
(* The main loop                                                           *)
(***************************************************************************)
\* Between two rounds, or in a branch that is not the walk.
LEMMA RoundStays ==
  ASSUME RunInv, ~Walking, ~Walking', Onward,
         UNCHANGED <<listVars, fd, mask, served, stack>>
  PROVE  Lists!IInv' /\ MemberInv' /\ WalkInv' /\ CallInv'
<1>1. /\ UNCHANGED <<tail, next, sock, live, pc, arg, chain>>
      /\ at \notin {"send", "delete"} /\ at' \notin {"send", "delete"}
  BY DEF listVars, Walking
<1>2. Lists!IInv'
  BY ListStays DEF RunInv
<1>3. MemberInv'
  BY <1>1, MembersStay DEF RunInv
<1>4. WalkInv'
  BY DEF RunInv, WalkInv
<1>5. CallInv'
  BY <1>1, CallStays DEF RunInv
<1> QED BY <1>2, <1>3, <1>4, <1>5

\* select fails only on a descriptor that is closed: there is none.
LEMMA NoneStale ==
  ASSUME RunInv
  PROVE  mask \cap Socks = Fds \cap Socks /\ Stale = {}
<1>1. mask \cap Socks = Fds \cap Socks
  BY SockFacts DEF RunInv, NetInv
<1>2. \A s \in Fds : Behind(s) # {}
  BY DEF Fds, Behind
<1> QED BY <1>1, <1>2 DEF Stale

LEMMA SelectInv ==
  ASSUME IInv, NEW input \in SUBSET {KEYBOARD, UDP}, SelectWith(input)
  PROVE  IInv'
<1> DEFINE ready == {s \in mask : s <= Max_sd /\ (s \in input \/ Readable(s))}
<1>1. /\ RunInv /\ TypeOK /\ at = "select"
      /\ at' = Branch(readfds')
      /\ cur' = IF at' = "walk" THEN head ELSE NULL
      /\ UNCHANGED <<listVars, named, netVars, clientVars, mask, Max_sd,
                     served, stack>>
  BY DEF IInv, SelectWith
<1>2. readfds' = ready
  BY <1>1, NoneStale DEF SelectWith
<1>3. at' \in {"keyboard", "udp", "accept", "own", "walk"}
  BY <1>1 DEF Branch
<1>4. TypeOK'
  <2>1. List!TypeOK'
    BY <1>1, ListTypeStays
  <2>2. cur' \in Nodes \cup {NULL}
    BY <1>1 DEF TypeOK, List!TypeOK, List!Pointer
  <2> QED BY <1>1, <1>2, <1>3, <2>1, <2>2
          DEF TypeOK, listVars, netVars, clientVars
<1>5. NetInv'
  BY <1>1, NetStays DEF RunInv, TypeOK, IsOpen, netVars
<1>6. UNCHANGED <<head, tail, next, sock, live, pc, arg, chain>>
      /\ UNCHANGED <<fd, conn, inbox>>
  BY <1>1 DEF listVars, netVars
<1>7. Onward
  BY <1>6 DEF Onward
<1>8. ~Walking /\ served = <<>> /\ MemberInv /\ Lists!IInv /\ CallInv
  BY <1>1 DEF Walking, RunInv, WalkInv
<1>9. CASE at' # "walk"
  <2>1. ~Walking'
    BY <1>3, <1>9 DEF Walking
  <2> QED BY <1>1, <1>4, <1>5, <1>6, <1>7, <1>8, <2>1, RoundStays
          DEF IInv, RunInv
<1>10. CASE at' = "walk"
  <2>1. Lists!IInv'
    BY <1>1, <1>8, ListStays
  <2>2. MemberInv'
    BY <1>1, <1>6, <1>8, <1>10, MembersStay
  <2>3. CallInv'
    BY <1>1, <1>6, <1>7, <1>8, <1>10, CallStays
  <2>4. \A s : ~IsServed(s)'
    BY <1>1, <1>8 DEF IsServed
  <2>5. ReadyInv'
    <3> SUFFICES ASSUME NEW s \in readfds' \cap Socks
                 PROVE  s \in Members' /\ Ready(s)'
      BY DEF ReadyInv
    <3>1. s \in mask /\ Readable(s)
      BY <1>2, SockFacts
    <3>2. s \in Members
      BY <1>1, <1>8, <3>1, NoneStale DEF MemberInv
    <3>3. Ready(s)
      BY <3>1, SockFacts DEF Readable, Ready
    <3> QED BY <3>2, <3>3, <1>6 DEF Members, Ready, Behind, HangsUp
  <2>6. PICK D \in SUBSET Nodes : AfterTail(D)
    BY <1>8 DEF CallInv
  <2>7. WalkAt(D, 1)'
    <3>1. N' = N /\ N \in Nat
      BY <1>6, <1>8, ListFacts DEF N
    <3>2. Freed(D)' /\ \A n \in D : sock'[n] \notin readfds'
      BY <1>2, <1>6, <2>6 DEF AfterTail, Freed
    <3>3. 1 \in 1 .. N => next'[tail'] \in D \cup {NULL}
      BY <1>6, <1>8, <2>6, <3>1, ListFacts DEF AfterTail
    <3>4. Place(D, 1, cur)'
      BY <1>1, <1>6, <1>8, <1>10, <3>1, ListFacts DEF Place
    <3>5. \A j \in 1 .. N : ~Passed(j, 1)'
      BY <1>10 DEF Passed
    <3> QED BY <1>10, <2>4, <3>1, <3>2, <3>3, <3>4, <3>5 DEF WalkAt
  <2>8. 1 \in (1 .. N + 1)'
    BY <1>6, <1>8, ListFacts DEF N
  <2> QED BY <1>1, <1>4, <1>5, <1>10, <2>1, <2>2, <2>3, <2>5, <2>7, <2>8
          DEF IInv, RunInv, WalkInv, Walking
<1> QED BY <1>9, <1>10

LEMMA SendFromKeyboardInv ==
  ASSUME IInv, SendFromKeyboard
  PROVE  IInv'
<1>1. /\ RunInv /\ TypeOK /\ at = "keyboard"
      /\ said' = [said EXCEPT ![Own] = @ + 1]
      /\ UNCHANGED <<listVars, named, backlog, fd, heard, unread, mask,
                     Max_sd, cur, served, stack>>
  BY DEF IInv, SendFromKeyboard
<1>2. /\ inbox \in [Clients -> Seq(Packet)] /\ said \in [Clients -> Nat]
      /\ conn \in [Clients -> ConnState]
      /\ \A t \in Types(Own) : [type |-> t, no |-> said[Own] + 1] \in Packet
      /\ Own \in Clients
  BY <1>1, IdobataAssumption DEF TypeOK, Types, Packet
<1>3. inbox' \in [Clients -> Seq(Packet)]
  <2>1. CASE inbox' = inbox
    BY <1>2, <2>1
  <2>2. ASSUME NEW t \in Types(Own),
               inbox' = [inbox EXCEPT ![Own] =
                           Append(@, [type |-> t, no |-> said[Own] + 1])]
        PROVE  inbox' \in [Clients -> Seq(Packet)]
    <3>1. Append(inbox[Own], [type |-> t, no |-> said[Own] + 1]) \in Seq(Packet)
      BY <1>2
    <3> QED BY <1>2, <2>2, <3>1
  <2> QED BY <2>1, <2>2 DEF SendFromKeyboard
<1>4. /\ conn' \in [Clients -> ConnState]
      /\ \/ conn' = conn
         \/ conn[Own] = "bye" /\ \A c \in Clients \ {Own} : conn'[c] = conn[c]
  BY <1>2 DEF SendFromKeyboard, ConnState
<1>5. at' \in {"select", "stopped"} /\ (readfds' = readfds \/ readfds' = {})
  BY DEF SendFromKeyboard, EndRound
<1>6. TypeOK'
  <2>1. List!TypeOK'
    BY <1>1, ListTypeStays
  <2>2. said' \in [Clients -> Nat]
    BY <1>1, <1>2
  <2> QED BY <1>1, <1>3, <1>4, <1>5, <2>1, <2>2 DEF TypeOK, listVars
<1>7. Onward
  BY <1>1, <1>4 DEF Onward, RunInv, NetInv, IsOpen, OpenStates
<1>8. NetInv'
  <2>1. \A c \in Clients : IsOpen(c) => IsOpen(c)'
    BY <1>4 DEF IsOpen, OpenStates
  <2> QED BY <1>1, <2>1, NetStays DEF RunInv, TypeOK
<1>9. ~Walking /\ ~Walking'
  BY <1>1, <1>5 DEF Walking
<1> QED BY <1>1, <1>6, <1>7, <1>8, <1>9, RoundStays DEF IInv, RunInv

LEMMA RecvUdpPacketInv ==
  ASSUME IInv, RecvUdpPacket
  PROVE  IInv'
<1>1. /\ RunInv /\ TypeOK /\ at = "udp" /\ at' = "select" /\ readfds' = {}
      /\ UNCHANGED <<listVars, named, netVars, clientVars, mask, Max_sd, cur,
                     served, stack>>
  BY DEF IInv, RecvUdpPacket, EndRound
<1>2. TypeOK'
  <2>1. List!TypeOK'
    BY <1>1, ListTypeStays
  <2> QED BY <1>1, <2>1 DEF TypeOK, listVars, netVars, clientVars
<1>3. NetInv'
  BY <1>1, NetStays DEF RunInv, TypeOK, IsOpen, netVars
<1>4. Onward /\ ~Walking /\ ~Walking'
  BY <1>1 DEF Onward, Walking, netVars
<1> QED BY <1>1, <1>2, <1>3, <1>4, RoundStays DEF IInv, RunInv, netVars

LEMMA OwnRecvInv ==
  ASSUME IInv, OwnRecv
  PROVE  IInv'
<1>1. /\ RunInv /\ TypeOK /\ at = "own" /\ at' \in {"select", "stopped"}
      /\ readfds' = {} \/ readfds' = readfds
      /\ unread' \in {FALSE, unread}
      /\ UNCHANGED <<listVars, named, netVars, said, heard, mask, Max_sd, cur,
                     served, stack>>
  BY DEF IInv, OwnRecv, EndRound
<1>2. TypeOK'
  <2>1. List!TypeOK'
    BY <1>1, ListTypeStays
  <2> QED BY <1>1, <2>1 DEF TypeOK, listVars, netVars
<1>3. NetInv'
  BY <1>1, NetStays DEF RunInv, TypeOK, IsOpen, netVars
<1>4. Onward /\ ~Walking /\ ~Walking'
  BY <1>1 DEF Onward, Walking, netVars
<1> QED BY <1>1, <1>2, <1>3, <1>4, RoundStays DEF IInv, RunInv, netVars

LEMMA AcceptInv ==
  ASSUME IInv, Accept
  PROVE  IInv'
<1>1. /\ RunInv /\ TypeOK /\ at = "accept" /\ backlog # <<>>
      /\ backlog' = Tail(backlog) /\ at' = "select" /\ readfds' = {}
      /\ UNCHANGED <<conn, inbox, clientVars, cur, served, stack>>
  BY DEF IInv, Accept, EndRound
<1>2. PICK s \in Socks :
        /\ Behind(s) = {}
        /\ fd' = [fd EXCEPT ![Head(backlog)] = s]
        /\ List!AddUser(s)
        /\ SetEmptyName
        /\ mask' = mask \cup {s}
        /\ setMax_sd(s)
  BY DEF Accept
<1> DEFINE c0 == Head(backlog)
           L  == Len(backlog)
<1>3. /\ backlog \in Seq(Clients) /\ L \in Nat /\ L # 0
      /\ DOMAIN backlog = 1 .. L /\ c0 = backlog[1] /\ c0 \in Clients
      /\ backlog' \in Seq(Clients) /\ DOMAIN backlog' = 1 .. L - 1
      /\ \A i \in 1 .. L - 1 : backlog'[i] = backlog[i + 1]
      /\ \A i \in 1 .. L : backlog[i] \in Clients
  <2>1. backlog \in Seq(Clients)
    BY <1>1 DEF TypeOK
  <2> QED BY <1>1, <2>1
<1>4. /\ fd \in [Clients -> Socks \cup {NULL}]
      /\ fd' \in [Clients -> Socks \cup {NULL}]
      /\ \A c \in Clients : fd'[c] = IF c = c0 THEN s ELSE fd[c]
  BY <1>1, <1>2, <1>3 DEF TypeOK
<1> HIDE DEF c0, L
<1>5. fd[c0] = NULL /\ conn[c0] \in OpenStates
  BY <1>1, <1>3 DEF RunInv, NetInv, IsOpen
<1>6. \A c \in Clients : fd[c] # s
  BY <1>2 DEF Behind
<1>7. s # NULL /\ s \in Int /\ s > OWN /\ s <= OWN + Cardinality(Clients)
      /\ Cardinality(Clients) \in Nat
  BY SockFacts
<1>8. Fds' = Fds \cup {s}
  <2>1. Fds' \subseteq Fds \cup {s}
    BY <1>4 DEF Fds
  <2>2. s \in Fds'
    BY <1>3, <1>4, <1>7 DEF Fds
  <2>3. Fds \subseteq Fds'
    BY <1>4, <1>5 DEF Fds
  <2> QED BY <2>1, <2>2, <2>3
<1>9. PICK n \in Nodes \ live :
        /\ live' = live \cup {n}
        /\ sock' = [sock EXCEPT ![n] = s]
        /\ List!LinkAtTail(n)
        /\ chain' = Append(chain, n)
  BY <1>2 DEF List!AddUser
<1>10. Lists!IInv'
  <2>1. Lists!AddUser(s)
    BY <1>2, SameList
  <2> QED BY <1>1, <2>1, ListConstants, Lists!AddUserInv DEF RunInv
<1>11. /\ tail' = n /\ next'[n] = NULL
       /\ pc' = pc /\ \A i \in DOMAIN chain : sock[chain[i]] # s
  <2>1. next' = [m \in Nodes |-> IF m = n THEN NULL
                                 ELSE IF m = tail THEN n ELSE next[m]]
        /\ tail' = n
    BY <1>9 DEF List!LinkAtTail
  <2>2. next'[n] = NULL
    BY <2>1
  <2> QED BY <1>2, <2>1, <2>2 DEF List!AddUser
<1>12. TypeOK'
  <2>1. List!TypeOK'
    BY <1>10, ListTypeHolds
  <2>2. /\ named' \in [Nodes -> BOOLEAN \cup {GARBAGE}]
        /\ \A m \in live' : named'[m] \in BOOLEAN
    BY <1>1, <1>2, <1>9, <1>11 DEF SetEmptyName, TypeOK, List!TypeOK
  <2>3. Max_sd' \in OWN .. OWN + Cardinality(Clients)
    BY <1>1, <1>2, <1>7 DEF setMax_sd, TypeOK, OWN
  <2>4. mask' \subseteq {KEYBOARD, UDP, TCP, OWN} \cup Socks
    BY <1>1, <1>2 DEF TypeOK
  <2> QED BY <1>1, <1>3, <1>4, <2>1, <2>2, <2>3, <2>4 DEF TypeOK, clientVars
<1>13. NetInv'
  <2>1. NetInv
    BY <1>1 DEF RunInv
  <2>2. mask' = {KEYBOARD, UDP, TCP, OWN} \cup Fds'
    BY <1>2, <1>8, <2>1 DEF NetInv
  <2>3. \A r \in mask' : r <= Max_sd'
    <3>1. Max_sd \in Int /\ s \in Int /\ \A r \in mask : r \in Int
      BY <1>1, <1>7, SockFacts
         DEF TypeOK, OWN, KEYBOARD, UDP, TCP
    <3> QED BY <1>2, <2>1, <3>1 DEF setMax_sd, NetInv
  <2>4. \A c, d \in Clients : fd'[c] # NULL /\ fd'[c] = fd'[d] => c = d
    BY <1>4, <1>6, <2>1 DEF NetInv
  <2>5. \A c \in Clients : fd'[c] # NULL => conn'[c] \in OpenStates
    BY <1>1, <1>4, <1>5, <2>1 DEF NetInv, IsOpen
  <2>6. \A i, j \in 1 .. L : backlog[i] = backlog[j] => i = j
    BY <1>3, <2>1 DEF NetInv
  <2>7. \A i \in 1 .. L - 1 : backlog'[i] # c0
    BY <1>3, <2>6
  <2>8. \A i \in DOMAIN backlog' :
          fd'[backlog'[i]] = NULL /\ conn'[backlog'[i]] \in OpenStates
    BY <1>1, <1>3, <1>4, <2>1, <2>7 DEF NetInv, IsOpen
  <2>9. \A i, j \in DOMAIN backlog' : backlog'[i] = backlog'[j] => i = j
    <3> SUFFICES ASSUME NEW i \in 1 .. L - 1, NEW j \in 1 .. L - 1,
                        backlog[i + 1] = backlog[j + 1]
                 PROVE  i = j
      BY <1>3
    <3>1. i + 1 \in 1 .. L /\ j + 1 \in 1 .. L
      BY <1>3
    <3>2. i + 1 = j + 1
      BY <2>6, <3>1
    <3> QED BY <3>2
  <2> QED BY <2>2, <2>3, <2>4, <2>5, <2>8, <2>9 DEF NetInv, IsOpen
<1>14. MemberInv'
  <2>1. MemberInv /\ Lists!IInv
    BY <1>1 DEF RunInv
  <2>2. /\ chain \in Seq(Nodes) /\ Len(chain) \in Nat
        /\ DOMAIN chain = 1 .. Len(chain)
        /\ DOMAIN chain' = 1 .. Len(chain) + 1
        /\ \A i \in 1 .. Len(chain) :
             chain'[i] = chain[i] /\ chain[i] \in Nodes /\ chain[i] # n
        /\ chain'[Len(chain) + 1] = n
    BY <1>9, <2>1, ListFacts DEF N
  <2>3. /\ \A i \in 1 .. Len(chain) : sock'[chain'[i]] = sock[chain[i]]
        /\ sock'[chain'[Len(chain) + 1]] = s
    BY <1>1, <1>9, <2>2 DEF TypeOK, List!TypeOK
  <2>4. Members' = Members \cup {s}
    BY <2>2, <2>3 DEF Members
  <2>5. \A i, j \in DOMAIN chain' :
          sock'[chain'[i]] = sock'[chain'[j]] => i = j
    BY <1>11, <2>1, <2>2, <2>3 DEF MemberInv
  <2> QED BY <1>1, <1>8, <1>11, <2>1, <2>4, <2>5 DEF MemberInv
<1>15. WalkInv' /\ stack = <<>>
  BY <1>1 DEF RunInv, WalkInv, CallInv, Walking
<1>16. CallInv'
  <2>1. AfterTail({})'
    BY <1>11 DEF AfterTail, Freed
  <2> QED BY <1>1, <1>15, <2>1 DEF CallInv
<1> QED BY <1>10, <1>12, <1>13, <1>14, <1>15, <1>16 DEF IInv, RunInv

-----------------------------------------------------------------------------
(***************************************************************************)
(* recv_msg_from_client                                                    *)
(***************************************************************************)
LEMMA EndWalkInv ==
  ASSUME IInv, EndWalk
  PROVE  IInv'
<1>1. /\ RunInv /\ TypeOK /\ at = "walk" /\ at' = "select" /\ readfds' = {}
      /\ served' = <<>>
      /\ UNCHANGED <<listVars, named, netVars, clientVars, mask, Max_sd, cur,
                     stack>>
  BY DEF IInv, EndWalk, EndRound
<1>2. UNCHANGED <<tail, next, sock, live, pc, arg, chain>>
  BY <1>1 DEF listVars
<1>3. TypeOK'
  <2>1. List!TypeOK'
    BY <1>1, ListTypeStays
  <2> QED BY <1>1, <2>1 DEF TypeOK, listVars, netVars, clientVars
<1>4. NetInv'
  BY <1>1, NetStays DEF RunInv, TypeOK, IsOpen, netVars
<1>5. Lists!IInv'
  BY <1>1, ListStays DEF RunInv
<1>6. MemberInv'
  BY <1>1, <1>2, MembersStay DEF RunInv, netVars
<1>7. CallInv'
  <2>1. Onward
    BY <1>1 DEF Onward, netVars
  <2> QED BY <1>1, <1>2, <2>1, CallStays DEF RunInv, netVars
<1>8. WalkInv'
  BY <1>1 DEF WalkInv, Walking
<1> QED BY <1>3, <1>4, <1>5, <1>6, <1>7, <1>8 DEF IInv, RunInv

\* The member the server is busy with.
LEMMA CurIsMember ==
  ASSUME RunInv, at \in {"recv", "send", "delete"}
  PROVE  /\ cur \in Nodes /\ cur \in live /\ sock[cur] \in Socks
         /\ sock[cur] \in Members /\ IsServed(sock[cur])
         /\ at # "delete" => \E c \in Clients : fd[c] = sock[cur]
<1>1. Lists!IInv /\ MemberInv /\ WalkInv
  BY DEF RunInv
<1>2. PICK S \in SUBSET Nodes, p \in 1 .. N + 1 : WalkAt(S, p)
  BY <1>1 DEF WalkInv, Walking
<1>3. p \in 1 .. N /\ cur = chain[p] /\ sock[cur] \in readfds
  BY <1>2 DEF WalkAt, Place
<1>4. cur \in Nodes /\ cur \in live /\ sock[cur] \in Socks
  BY <1>1, <1>3, ListFacts
<1>5. sock[cur] \in Members
  BY <1>1, <1>3, ListFacts DEF Members
<1>6. IsServed(sock[cur])
  BY <1>2, <1>3 DEF WalkAt, Passed
<1>7. at # "delete" => \E c \in Clients : fd[c] = sock[cur]
  BY <1>1, <1>5 DEF MemberInv, Fds
<1> QED BY <1>4, <1>5, <1>6, <1>7

\* The walk goes on behind a member who was served or is not ready.
LEMMA WalkGoesOn ==
  ASSUME Lists!IInv, WalkInv,
         \/ at \in {"recv", "send"}
         \/ at = "walk" /\ cur # NULL /\ ~IsReady(cur),
         at' = "walk", cur' = next[cur],
         UNCHANGED <<tail, next, sock, live, chain>>,
         UNCHANGED <<fd, readfds, served>>, Onward, InboxKept
  PROVE  WalkInv' /\ cur' \in Nodes \cup {NULL}
<1>1. Walking /\ N' = N /\ \A s : IsServed(s)' = IsServed(s)
  BY DEF Walking, N, IsServed
<1>2. ReadyInv'
  BY <1>1, ReadyStays DEF WalkInv
<1>3. PICK S \in SUBSET Nodes, p \in 1 .. N + 1 : WalkAt(S, p)
  BY <1>1 DEF WalkInv
<1>4. N \in Nat /\ \A i \in 1 .. N : chain[i] # NULL /\ chain[i] \in Nodes
  BY ListFacts
<1>5. cur # NULL
  BY <1>3, <1>4 DEF WalkAt, Place
<1>6. PICK q \in 1 .. N + 1 :
        q = (IF p \in 1 .. N THEN p + 1 ELSE p) /\ Place(S, q, next[cur])
  BY <1>3, <1>5, NextPlace DEF WalkAt, Following
<1>7. Place(S, q, cur)' /\ cur' \in Nodes \cup {NULL}
  BY <1>1, <1>4, <1>6 DEF Place
<1>8. Freed(S)' /\ \A n \in S : sock[n] \notin readfds
  BY <1>3 DEF WalkAt, Freed
<1>9. q \in 1 .. N => next[tail] \in S \cup {NULL}
  BY <1>3, <1>4, <1>6 DEF WalkAt
<1>10. \A j \in 1 .. N : IsServed(sock[chain[j]]) => j < q
  BY <1>3, <1>4, <1>6 DEF WalkAt, Passed
<1>11. \A j \in 1 .. N :
         j < q /\ sock[chain[j]] \in readfds => IsServed(sock[chain[j]])
  <2> SUFFICES ASSUME NEW j \in 1 .. N, j < q, sock[chain[j]] \in readfds
               PROVE  IsServed(sock[chain[j]])
    OBVIOUS
  <2>1. j < p \/ j = p
    BY <1>4, <1>6
  <2>2. CASE j < p
    BY <1>3, <2>2 DEF WalkAt, Passed
  <2>3. CASE j = p
    <3>1. cur = chain[p]
      BY <1>3, <2>3 DEF WalkAt, Place
    <3>2. at # "walk"
      BY <2>3, <3>1 DEF IsReady
    <3> QED BY <1>3, <2>3, <3>2 DEF WalkAt, Passed
  <2> QED BY <2>1, <2>2, <2>3
<1>12. WalkAt(S, q)'
  BY <1>1, <1>7, <1>8, <1>9, <1>10, <1>11 DEF WalkAt, Passed
<1> QED BY <1>1, <1>2, <1>6, <1>7, <1>12 DEF WalkInv, Walking

LEMMA SkipInv ==
  ASSUME IInv, Skip
  PROVE  IInv'
<1>1. /\ RunInv /\ TypeOK /\ at = "walk" /\ cur # NULL /\ ~IsReady(cur)
      /\ cur' = next[cur] /\ at' = at
      /\ UNCHANGED <<listVars, named, netVars, clientVars, selectVars,
                     served, stack>>
  BY DEF IInv, Skip
<1>2. /\ UNCHANGED <<tail, next, sock, live, pc, arg, chain>>
      /\ UNCHANGED <<fd, conn, inbox, mask, readfds, Max_sd>>
  BY <1>1 DEF listVars, netVars, selectVars
<1>3. Onward /\ InboxKept
  BY <1>2 DEF Onward, InboxKept
<1>4. WalkInv' /\ cur' \in Nodes \cup {NULL}
  BY <1>1, <1>2, <1>3, WalkGoesOn DEF RunInv
<1>5. TypeOK'
  <2>1. List!TypeOK'
    BY <1>1, ListTypeStays
  <2> QED BY <1>1, <1>2, <1>4, <2>1 DEF TypeOK, listVars, netVars, clientVars
<1>6. NetInv'
  BY <1>1, NetStays DEF RunInv, TypeOK, IsOpen, netVars, selectVars
<1>7. Lists!IInv'
  BY <1>1, ListStays DEF RunInv
<1>8. MemberInv' /\ CallInv'
  BY <1>1, <1>2, <1>3, MembersStay, CallStays DEF RunInv
<1> QED BY <1>4, <1>5, <1>6, <1>7, <1>8 DEF IInv, RunInv

LEMMA CallRecvInv ==
  ASSUME IInv, CallRecv
  PROVE  IInv'
<1>1. /\ RunInv /\ TypeOK /\ at = "walk" /\ cur # NULL
      /\ sock[cur] \in readfds
      /\ at' = "recv" /\ served' = Append(served, sock[cur])
      /\ UNCHANGED <<listVars, named, netVars, clientVars, selectVars, cur,
                     stack>>
  BY DEF IInv, CallRecv, IsReady
<1>2. /\ UNCHANGED <<tail, next, sock, live, pc, arg, chain>>
      /\ UNCHANGED <<fd, conn, inbox, mask, readfds, Max_sd>>
  BY <1>1 DEF listVars, netVars, selectVars
<1>3. Onward /\ InboxKept
  BY <1>2 DEF Onward, InboxKept
<1>4. Lists!IInv /\ MemberInv /\ WalkInv /\ ReadyInv
  BY <1>1 DEF RunInv, WalkInv, Walking
<1>5. PICK S \in SUBSET Nodes, p \in 1 .. N + 1 : WalkAt(S, p)
  BY <1>1, <1>4 DEF WalkInv, Walking
<1>6. p \in 1 .. N /\ cur = chain[p] /\ sock[cur] \in Socks
  BY <1>1, <1>4, <1>5, ListFacts DEF WalkAt, Place
<1>7. \A s : IsServed(s)' <=> IsServed(s) \/ s = sock[cur]
  <2>1. served \in Seq(Socks)
    BY <1>1 DEF TypeOK
  <2>2. /\ Len(served) \in Nat /\ DOMAIN served = 1 .. Len(served)
        /\ DOMAIN served' = 1 .. Len(served) + 1
        /\ \A k \in 1 .. Len(served) : served'[k] = served[k]
        /\ served'[Len(served) + 1] = sock[cur]
    BY <1>1, <1>6, <2>1
  <2> QED BY <2>2 DEF IsServed
<1>8. ReadyInv'
  BY <1>2, <1>3, <1>4, <1>7, ReadyStays
<1>9. WalkAt(S, p)'
  <2>1. N' = N /\ N \in Nat
    BY <1>2, <1>4, ListFacts DEF N
  <2>2. \A j \in 1 .. N : Passed(j, p)' <=> j < p \/ j = p
    BY <1>1 DEF Passed
  <2>3. \A j \in 1 .. N : Passed(j, p) <=> j < p
    BY <1>1 DEF Passed
  <2>4. \A j \in 1 .. N : sock[chain[j]] = sock[cur] <=> j = p
    BY <1>4, <1>6, ListFacts DEF MemberInv
  <2>5. \A j \in 1 .. N :
          /\ IsServed(sock[chain[j]])' => Passed(j, p)'
          /\ Passed(j, p)' /\ sock[chain[j]] \in readfds
               => IsServed(sock[chain[j]])'
    BY <1>2, <1>5, <1>7, <2>2, <2>3, <2>4 DEF WalkAt
  <2>6. Freed(S)' /\ Place(S, p, cur)'
    BY <1>1, <1>2, <1>5, <2>1 DEF WalkAt, Freed, Place
  <2> QED BY <1>1, <1>2, <1>5, <1>6, <2>1, <2>5, <2>6 DEF WalkAt
<1>10. WalkInv'
  BY <1>1, <1>2, <1>8, <1>9 DEF WalkInv, Walking, N
<1>11. TypeOK'
  <2>1. List!TypeOK'
    BY <1>1, ListTypeStays
  <2>2. served' \in Seq(Socks)
    BY <1>1, <1>6 DEF TypeOK
  <2> QED BY <1>1, <1>2, <2>1, <2>2 DEF TypeOK, listVars, netVars, clientVars
<1>12. NetInv'
  BY <1>1, NetStays DEF RunInv, TypeOK, IsOpen, netVars, selectVars
<1>13. Lists!IInv'
  BY <1>1, ListStays DEF RunInv
<1>14. MemberInv' /\ CallInv'
  BY <1>1, <1>2, <1>3, MembersStay, CallStays DEF RunInv
<1> QED BY <1>10, <1>11, <1>12, <1>13, <1>14 DEF IInv, RunInv

LEMMA RecvFailsInv ==
  ASSUME IInv, RecvFails
  PROVE  IInv'
<1>1. /\ TypeOK /\ at' = "stopped"
      /\ UNCHANGED <<listVars, named, netVars, clientVars, selectVars, cur,
                     served, stack>>
  BY DEF IInv, RecvFails
<1>2. List!TypeOK'
  BY <1>1, ListTypeStays
<1> QED BY <1>1, <1>2
        DEF IInv, TypeOK, listVars, netVars, clientVars, selectVars

\* The first call of transfer_message, at the head of the list.
LEMMA TransferStarts ==
  ASSUME RunInv, TypeOK, at = "recv",
         NEW text \in Text \cup {NULL}, NEW from \in Socks \cup {FROM_SERVER},
         NEW victim \in Socks \cup {NULL},
         Transfer(text, from, victim),
         victim \in {NULL, sock[cur]}, from \in {FROM_SERVER, sock[cur]},
         text # NULL => /\ victim = NULL /\ from = sock[cur]
                        /\ fd[text.by] = sock[cur],
         UNCHANGED <<head, tail, next, sock, live, chain>>,
         UNCHANGED <<mask, fd>>
  PROVE  CallInv' /\ stack' \in Seq(Frame)
<1> DEFINE f == [node |-> head, from |-> from, text |-> text,
                 victim |-> victim, to |-> <<>>]
<1>1. stack = <<>>
  BY DEF RunInv, CallInv
<1>2. /\ stack' = <<f>> \o stack
      /\ at' = "send" /\ cur' = cur
  BY DEF Transfer
<1>3. f \in Frame
  <2>1. head \in Nodes \cup {NULL}
    BY DEF TypeOK, List!TypeOK, List!Pointer
  <2> QED BY <2>1 DEF Frame
<1>4. /\ f.node = head /\ f.from = from /\ f.text = text
      /\ f.victim = victim /\ f.to = <<>>
  OBVIOUS
<1> HIDE DEF f
<1>5. stack' = <<f>>
  BY <1>1, <1>2, <1>3
<1>6. stack' \in Seq(Frame) /\ Len(stack') = 1 /\ stack' # <<>> /\ Top' = f
  BY <1>3, <1>5 DEF Top
<1>7. PICK D \in SUBSET Nodes : AfterTail(D)
  BY DEF RunInv, CallInv
<1>8. AfterTail(D)'
  BY <1>7, AfterTailStays
<1>9. N' = N /\ N \in Nat
  BY ListFacts DEF RunInv, N
<1>10. Place(D, 1, Top.node)'
  BY <1>4, <1>6, <1>9, ListFacts DEF RunInv, Place
<1>11. FrameAt(Top, 1)'
  <2>1. \A c : Times(f.to, c) = {}
    BY <1>4 DEF Times
  <2>2. \A j \in 1 .. N : ~(j < 1)
    BY <1>9
  <2>3. SentUpTo(Top, 1)'
    BY <1>2, <1>4, <1>6, <1>9, <2>1, <2>2
       DEF SentUpTo, SentTo, Times
  <2> QED BY <1>2, <1>4, <1>6, <2>3 DEF FrameAt
<1>12. 1 \in (1 .. N + 1)'
  BY <1>9
<1>13. at' = "send" => \E q \in (1 .. N + 1)' :
         Place(D, q, Top.node)' /\ FrameAt(Top, q)'
  BY <1>10, <1>11, <1>12
<1> QED BY <1>2, <1>6, <1>8, <1>13 DEF CallInv

LEMMA RecvNothingInv ==
  ASSUME IInv, RecvNothing
  PROVE  IInv'
<1>1. /\ RunInv /\ TypeOK /\ at = "recv" /\ at' = "send" /\ cur' = cur
      /\ Transfer(NULL, FROM_SERVER, sock[cur])
      /\ UNCHANGED <<listVars, named, netVars, clientVars, selectVars, served>>
  BY DEF IInv, RecvNothing, DeleteUser, Transfer
<1>2. /\ UNCHANGED <<head, tail, next, sock, live, pc, arg, chain>>
      /\ UNCHANGED <<fd, conn, inbox, mask, readfds, Max_sd>>
  BY <1>1 DEF listVars, netVars, selectVars
<1>3. Onward /\ InboxKept
  BY <1>2 DEF Onward, InboxKept
<1>4. CallInv' /\ stack' \in Seq(Frame)
  BY <1>1, <1>2, CurIsMember, TransferStarts
<1>5. TypeOK'
  <2>1. List!TypeOK'
    BY <1>1, ListTypeStays
  <2> QED BY <1>1, <1>2, <1>4, <2>1 DEF TypeOK, listVars, netVars, clientVars
<1>6. NetInv'
  BY <1>1, NetStays DEF RunInv, TypeOK, IsOpen, netVars, selectVars
<1>7. Lists!IInv'
  BY <1>1, ListStays DEF RunInv
<1>8. MemberInv' /\ WalkInv'
  BY <1>1, <1>2, <1>3, MembersStay, WalkStays DEF RunInv
<1> QED BY <1>4, <1>5, <1>6, <1>7, <1>8 DEF IInv, RunInv

\* What Handle does to the walk and the calls.
LEMMA HandleInv ==
  ASSUME RunInv, TypeOK, at = "recv",
         NEW c \in Clients, fd[c] = sock[cur], inbox[c] # <<>>,
         Handle(c, inbox[c]), Onward, InboxKept,
         UNCHANGED <<head, tail, next, sock, live, pc, arg, chain>>,
         UNCHANGED <<fd, mask, readfds, served>>
  PROVE  /\ WalkInv' /\ CallInv' /\ MemberInv' /\ stack' \in Seq(Frame)
         /\ cur' \in Nodes \cup {NULL} /\ at' \in {"walk", "send"}
         /\ named' \in [Nodes -> BOOLEAN \cup {GARBAGE}]
         /\ \A n \in live : named'[n] \in BOOLEAN
<1> DEFINE first == inbox[c][1]
<1>1. first \in Packet /\ cur \in Nodes /\ sock[cur] \in Socks
  <2>1. inbox[c] \in Seq(Packet)
    BY DEF TypeOK
  <2>2. first \in Packet
    BY <2>1
  <2> QED BY <2>2, CurIsMember
<1>2. first.no \in Nat \ {0}
  BY <1>1 DEF Packet
<1> HIDE DEF first
<1>3. named' = named \/ named' = [named EXCEPT ![cur] = TRUE]
  BY DEF Handle
<1>4. \/ Transfer(NULL, FROM_SERVER, NULL)
      \/ Transfer([by |-> c, no |-> first.no], sock[cur], NULL)
      \/ Transfer(NULL, FROM_SERVER, sock[cur])
      \/ WalkOn
  BY DEF Handle, DeleteUser, first
<1>5. /\ named' \in [Nodes -> BOOLEAN \cup {GARBAGE}]
      /\ \A n \in live : named'[n] \in BOOLEAN
  BY <1>1, <1>3 DEF TypeOK, List!TypeOK
<1>6. CASE WalkOn
  <2>1. at' = "walk" /\ cur' = next[cur] /\ stack' = stack
    BY <1>6 DEF WalkOn
  <2>2. WalkInv' /\ cur' \in Nodes \cup {NULL}
    BY <2>1, WalkGoesOn DEF RunInv
  <2>3. MemberInv' /\ CallInv'
    BY <2>1, MembersStay, CallStays DEF RunInv
  <2> QED BY <1>5, <2>1, <2>2, <2>3 DEF TypeOK
<1>7. CASE ~WalkOn
  <2>1. at' = "send" /\ cur' = cur
    BY <1>4, <1>7 DEF Transfer
  <2>2. WalkInv' /\ MemberInv'
    BY <2>1, WalkStays, MembersStay DEF RunInv
  <2>3. CallInv' /\ stack' \in Seq(Frame)
    <3>1. CASE Transfer(NULL, FROM_SERVER, NULL)
      BY <3>1, TransferStarts
    <3>2. CASE Transfer(NULL, FROM_SERVER, sock[cur])
      BY <1>1, <3>2, TransferStarts
    <3>3. CASE Transfer([by |-> c, no |-> first.no], sock[cur], NULL)
      <4> DEFINE text == [by |-> c, no |-> first.no]
      <4>1. text \in Text /\ text.by = c
        BY <1>2 DEF Text
      <4>2. Transfer(text, sock[cur], NULL)
        BY <3>3
      <4> HIDE DEF text
      <4> QED BY <1>1, <4>1, <4>2, TransferStarts
    <3> QED BY <1>4, <1>7, <3>1, <3>2, <3>3
  <2> QED BY <1>5, <2>1, <2>2, <2>3 DEF TypeOK
<1> QED BY <1>6, <1>7

LEMMA RecvDataInv ==
  ASSUME IInv, RecvData
  PROVE  IInv'
<1>1. /\ RunInv /\ TypeOK /\ at = "recv"
      /\ UNCHANGED <<listVars, backlog, conn, fd, clientVars, selectVars,
                     served>>
  BY DEF IInv, RecvData
<1>2. PICK c \in Behind(sock[cur]) :
        /\ inbox[c] # <<>>
        /\ \/ inbox' = [inbox EXCEPT ![c] = <<>>]
           \/ \E k \in 2 .. Len(inbox[c]) :
                inbox' = [inbox EXCEPT ![c] =
                  <<[inbox[c][k] EXCEPT !.type = "rest"]>>
                  \o SubSeq(@, k + 1, Len(@))]
        /\ Handle(c, inbox[c])
  BY DEF RecvData
<1>3. c \in Clients /\ fd[c] = sock[cur]
  BY DEF Behind
<1>4. inbox \in [Clients -> Seq(Packet)]
  BY <1>1 DEF TypeOK
<1>5. /\ inbox' \in [Clients -> Seq(Packet)]
      /\ \A d \in Clients \ {c} : inbox'[d] = inbox[d]
  <2>1. CASE inbox' = [inbox EXCEPT ![c] = <<>>]
    BY <1>3, <1>4, <2>1
  <2>2. ASSUME NEW k \in 2 .. Len(inbox[c]),
               inbox' = [inbox EXCEPT ![c] =
                  <<[inbox[c][k] EXCEPT !.type = "rest"]>>
                  \o SubSeq(@, k + 1, Len(@))]
        PROVE  /\ inbox' \in [Clients -> Seq(Packet)]
               /\ \A d \in Clients \ {c} : inbox'[d] = inbox[d]
    <3>1. inbox[c] \in Seq(Packet) /\ inbox[c][k] \in Packet
      BY <1>3, <1>4, <2>2
    <3>2. [inbox[c][k] EXCEPT !.type = "rest"] \in Packet
      BY <3>1 DEF Packet
    <3>3. SubSeq(inbox[c], k + 1, Len(inbox[c])) \in Seq(Packet)
      BY <3>1
    <3>4. <<[inbox[c][k] EXCEPT !.type = "rest"]>>
            \o SubSeq(inbox[c], k + 1, Len(inbox[c])) \in Seq(Packet)
      BY <3>2, <3>3
    <3> QED BY <1>3, <1>4, <2>2, <3>4
  <2> QED BY <1>2, <2>1, <2>2
<1>6. /\ UNCHANGED <<head, tail, next, sock, live, pc, arg, chain>>
      /\ UNCHANGED <<mask, readfds, Max_sd>>
  BY <1>1 DEF listVars, selectVars
<1>7. Onward /\ InboxKept
  <2>1. IsServed(fd[c])
    BY <1>1, <1>3, CurIsMember
  <2> QED BY <1>1, <1>5, <2>1 DEF Onward, InboxKept
<1>8. /\ WalkInv' /\ CallInv' /\ MemberInv' /\ stack' \in Seq(Frame)
      /\ cur' \in Nodes \cup {NULL} /\ at' \in {"walk", "send"}
      /\ named' \in [Nodes -> BOOLEAN \cup {GARBAGE}]
      /\ \A n \in live : named'[n] \in BOOLEAN
  BY <1>1, <1>2, <1>3, <1>6, <1>7, HandleInv
<1>9. TypeOK'
  <2>1. List!TypeOK'
    BY <1>1, ListTypeStays
  <2> QED BY <1>1, <1>5, <1>6, <1>8, <2>1 DEF TypeOK, clientVars
<1>10. NetInv'
  BY <1>1, <1>6, NetStays DEF RunInv, TypeOK, IsOpen
<1>11. Lists!IInv'
  BY <1>1, ListStays DEF RunInv
<1> QED BY <1>8, <1>9, <1>10, <1>11 DEF IInv, RunInv

-----------------------------------------------------------------------------
(***************************************************************************)
(* transfer_message                                                        *)
(***************************************************************************)
LEMMA SingletonToSeq ==
  /\ SetToSeq({}) = <<>>
  /\ \A c \in Clients : SetToSeq({c}) = <<c>>
<1>1. SetToSeq({}) = <<>>
  <2>1. Cardinality({}) = 0
    BY FS_EmptySet
  <2>2. \A f \in [1 .. 0 -> {}] : f = <<>>
    OBVIOUS
  <2>3. \E f \in [1 .. 0 -> {}] : IsInjective(f)
    <3>1. [i \in 1 .. 0 |-> i] \in [1 .. 0 -> {}]
      OBVIOUS
    <3> QED BY <3>1 DEF IsInjective
  <2> QED BY <2>1, <2>2, <2>3 DEF SetToSeq
<1>2. ASSUME NEW c \in Clients
      PROVE  SetToSeq({c}) = <<c>>
  <2>1. Cardinality({c}) = 1
    BY FS_Singleton
  <2>2. \A f \in [1 .. 1 -> {c}] : f = <<c>>
    OBVIOUS
  <2>3. \E f \in [1 .. 1 -> {c}] : IsInjective(f)
    <3>1. [i \in 1 .. 1 |-> c] \in [1 .. 1 -> {c}]
      OBVIOUS
    <3>2. IsInjective([i \in 1 .. 1 |-> c])
      BY DEF IsInjective
    <3> QED BY <3>1, <3>2
  <2> QED BY <2>1, <2>2, <2>3 DEF SetToSeq
<1> QED BY <1>1, <1>2

LEMMA CallFacts ==
  ASSUME RunInv, TypeOK, at = "send"
  PROVE  /\ Lists!IInv /\ N \in Nat
         /\ stack \in Seq(Frame) /\ stack # <<>> /\ Top \in Frame
         /\ Len(stack) \in Nat \ {0}
         /\ \E D \in SUBSET Nodes, q \in 1 .. N + 1 :
              AfterTail(D) /\ Place(D, q, Top.node) /\ FrameAt(Top, q)
<1>1. Lists!IInv /\ CallInv /\ stack \in Seq(Frame)
  BY DEF RunInv, TypeOK
<1>2. N \in Nat
  BY <1>1, ListFacts
<1>3. stack # <<>>
  BY <1>1 DEF CallInv
<1>4. Top \in Frame /\ Len(stack) \in Nat \ {0}
  BY <1>1, <1>3 DEF Top
<1>5. \E D \in SUBSET Nodes : /\ AfterTail(D)
                              /\ \E q \in 1 .. N + 1 :
                                   Place(D, q, Top.node) /\ FrameAt(Top, q)
  BY <1>1 DEF CallInv
<1> QED BY <1>1, <1>2, <1>3, <1>4, <1>5

LEMMA OneCallIsAll == \A s \in Seq(Frame) : Len(s) = 1 => Tail(s) = <<>>
<1> SUFFICES ASSUME NEW s \in Seq(Frame), Len(s) = 1
             PROVE  Tail(s) = <<>>
  OBVIOUS
<1>1. Len(<<>>) = 0
  OBVIOUS
<1>2. s # <<>>
  <2> SUFFICES ASSUME s = <<>> PROVE FALSE
    OBVIOUS
  <2>1. Len(s) = 0
    BY <1>1
  <2> QED BY <2>1
<1>3. Tail(s) \in Seq(Frame) /\ Len(Tail(s)) = 0
  BY <1>2
<1>4. \A t \in Seq(Frame) : Len(t) = 0 => t = <<>>
  OBVIOUS
<1> QED BY <1>3, <1>4

\* Only the first call comes to the end of the list.
LEMMA InnerCallsGoOn ==
  ASSUME RunInv, TypeOK, at = "send", Top.node = NULL
  PROVE  /\ Len(stack) = 1 /\ Tail(stack) = <<>>
         /\ Top.victim \in {NULL, sock[cur]}
         /\ SentUpTo(Top, N + 1)
<1>1. PICK D \in SUBSET Nodes, q \in 1 .. N + 1 :
        AfterTail(D) /\ Place(D, q, Top.node) /\ FrameAt(Top, q)
  BY CallFacts
<1>2. N \in Nat /\ Lists!IInv /\ stack \in Seq(Frame)
  BY CallFacts
<1>3. q = N + 1
  BY <1>1, <1>2, ListFacts DEF Place
<1>4. q .. N = {}
  BY <1>2, <1>3
<1>5. Len(stack) = 1
  BY <1>1, <1>4 DEF FrameAt
<1>6. Tail(stack) = <<>>
  BY <1>2, <1>5, OneCallIsAll
<1> QED BY <1>1, <1>3, <1>5, <1>6 DEF FrameAt

\* The call at the top goes on to the next node.
LEMMA CallMoves ==
  ASSUME Lists!IInv, NEW D \in SUBSET Nodes, AfterTail(D),
         NEW q \in 1 .. N + 1, Place(D, q, Top.node), Top.node # NULL,
         NEW r \in 1 .. N + 1, r = Following(q),
         at' = "send", stack' # <<>>, Top'.node = next[Top.node],
         FrameAt(Top, r)',
         UNCHANGED <<tail, next, sock, live, chain, mask>>
  PROVE  CallInv'
<1>1. N' = N /\ N \in Nat
  BY ListFacts DEF N
<1>2. q \in 1 .. N => next[tail] \in D \cup {NULL}
  BY <1>1, ListFacts DEF AfterTail
<1>3. Place(D, r, next[Top.node])
  BY <1>2, NextPlace DEF AfterTail
<1>4. AfterTail(D)'
  BY AfterTailStays
<1>5. Place(D, r, Top.node)'
  BY <1>1, <1>3 DEF Place
<1> QED BY <1>1, <1>4, <1>5 DEF CallInv

LEMMA TopChanges ==
  ASSUME TypeOK, stack # <<>>, NEW n \in Nodes \cup {NULL},
         NEW to \in Seq(Clients),
         stack' = [stack EXCEPT ![1] = [@ EXCEPT !.node = n, !.to = to]]
  PROVE  /\ stack' \in Seq(Frame) /\ Len(stack') = Len(stack) /\ stack' # <<>>
         /\ Top'.node = n /\ Top'.to = to /\ Top'.from = Top.from
         /\ Top'.text = Top.text /\ Top'.victim = Top.victim
<1>1. stack \in Seq(Frame) /\ 1 \in DOMAIN stack /\ stack[1] \in Frame
  BY DEF TypeOK
<1>2. [stack[1] EXCEPT !.node = n, !.to = to] \in Frame
  BY <1>1 DEF Frame
<1>3. /\ stack' \in Seq(Frame) /\ Len(stack') = Len(stack) /\ stack' # <<>>
      /\ stack'[1] = [stack[1] EXCEPT !.node = n, !.to = to]
  BY <1>1, <1>2
<1>4. /\ stack'[1].node = n /\ stack'[1].to = to
      /\ stack'[1].from = stack[1].from /\ stack'[1].text = stack[1].text
      /\ stack'[1].victim = stack[1].victim
  BY <1>1, <1>3 DEF Frame
<1> QED BY <1>3, <1>4 DEF Top

\* The node a call is at: a member with a connection, or nobody's.
LEMMA NodeFacts ==
  ASSUME RunInv, TypeOK, at = "send", Top.node # NULL,
         NEW D \in SUBSET Nodes, AfterTail(D),
         NEW q \in 1 .. N + 1, Place(D, q, Top.node)
  PROVE  /\ Top.node \in Nodes /\ next[Top.node] \in Nodes \cup {NULL}
         /\ sock[Top.node] # FROM_SERVER
         /\ q \notin 1 .. N => Behind(sock[Top.node]) = {}
         /\ q \in 1 .. N => /\ Top.node = chain[q]
                            /\ sock[Top.node] \in Socks
                            /\ \E c \in Clients : Behind(sock[Top.node]) = {c}
<1>1. Lists!IInv /\ NetInv /\ MemberInv /\ N \in Nat
  BY CallFacts DEF RunInv
<1>2. Top.node \in Nodes
  BY <1>1, ListFacts DEF Place
<1>3. next[Top.node] \in Nodes \cup {NULL}
  <2>1. q \in 1 .. N => next[tail] \in D \cup {NULL}
    BY <1>1, ListFacts DEF AfterTail
  <2>2. PICK r \in 1 .. N + 1 : Place(D, r, next[Top.node])
    BY <1>1, <2>1, NextPlace DEF AfterTail
  <2> QED BY <1>1, <2>2, ListFacts DEF Place
<1>4. sock[Top.node] \in Socks \cup {GARBAGE}
  BY <1>2 DEF TypeOK, List!TypeOK
<1>5. sock[Top.node] # FROM_SERVER /\ sock[Top.node] # NULL
  <2>1. FROM_SERVER \in Int
    BY DEF FROM_SERVER
  <2> QED BY <1>4, <2>1, SockFacts, IdobataAssumption
<1>6. q \notin 1 .. N => Behind(sock[Top.node]) = {}
  BY <1>1, <1>5 DEF Place, AfterTail, NetInv, Fds, Behind
<1>7. ASSUME q \in 1 .. N
      PROVE  /\ Top.node = chain[q] /\ sock[Top.node] \in Socks
             /\ \E c \in Clients : Behind(sock[Top.node]) = {c}
  <2>1. Top.node = chain[q] /\ sock[Top.node] \in Socks
        /\ sock[Top.node] \in Members
    BY <1>1, <1>7, ListFacts DEF Place, Members
  <2>2. PICK c \in Clients : fd[c] = sock[Top.node]
    BY <1>1, <2>1 DEF MemberInv, Fds
  <2>3. Behind(sock[Top.node]) = {c}
    BY <1>1, <1>5, <2>2 DEF Behind, NetInv
  <2> QED BY <2>1, <2>3
<1> QED BY <1>2, <1>3, <1>5, <1>6, <1>7

LEMMA SkipSenderInv ==
  ASSUME IInv, SkipSender
  PROVE  IInv'
<1>1. /\ RunInv /\ TypeOK /\ at = "send" /\ at' = at /\ Top.node # NULL
      /\ sock[Top.node] = Top.from
      /\ stack' = [stack EXCEPT ![1].node = next[@]]
      /\ UNCHANGED <<listVars, named, netVars, clientVars, selectVars, cur,
                     served>>
  BY DEF IInv, SkipSender, IsAddressee
<1>2. /\ UNCHANGED <<head, tail, next, sock, live, pc, arg, chain>>
      /\ UNCHANGED <<fd, conn, inbox, mask, readfds, Max_sd>>
  BY <1>1 DEF listVars, netVars, selectVars
<1>3. PICK D \in SUBSET Nodes, q \in 1 .. N + 1 :
        AfterTail(D) /\ Place(D, q, Top.node) /\ FrameAt(Top, q)
  BY <1>1, CallFacts
<1>4. /\ Lists!IInv /\ N \in Nat /\ stack # <<>> /\ Top \in Frame
      /\ stack \in Seq(Frame) /\ Len(stack) \in Nat \ {0}
  BY <1>1, CallFacts
<1>5. Top.to \in Seq(Clients) /\ next[Top.node] \in Nodes \cup {NULL}
  BY <1>1, <1>3, <1>4, NodeFacts DEF Frame
<1>6. stack' = [stack EXCEPT ![1] =
                  [@ EXCEPT !.node = next[Top.node], !.to = Top.to]]
  <2>1. [stack[1] EXCEPT !.node = next[@]]
          = [stack[1] EXCEPT !.node = next[Top.node], !.to = Top.to]
    BY <1>4 DEF Top, Frame
  <2>2. stack' = [stack EXCEPT ![1] = [stack[1] EXCEPT !.node = next[@]]]
    BY <1>1
  <2> QED BY <2>1, <2>2
<1>7. /\ stack' \in Seq(Frame) /\ Len(stack') = Len(stack) /\ stack' # <<>>
      /\ Top'.node = next[Top.node] /\ Top'.to = Top.to
      /\ Top'.from = Top.from /\ Top'.text = Top.text
      /\ Top'.victim = Top.victim
  BY <1>1, <1>4, <1>5, <1>6, TopChanges
\* The server itself is nobody's socket: this is the sender of a post.
<1>8. Len(stack) = 1 /\ Top.from = sock[cur]
  <2>1. Top.from # FROM_SERVER
    BY <1>1, <1>3, NodeFacts
  <2> QED BY <1>3, <2>1 DEF FrameAt
<1>9. PICK q1 \in 1 .. N + 1 :
        q1 = Following(q) /\ q1 = IF q \in 1 .. N THEN q + 1 ELSE q
  BY <1>4 DEF Following
<1>10. FrameAt(Top, q1)'
  <2>1. ASSUME Top.text # NULL
        PROVE  SentUpTo(Top, q1)'
    <3>1. /\ Top.victim = NULL /\ fd[Top.text.by] = sock[cur]
          /\ SentTo(Top.to, Top.text.by, q)
      BY <1>3, <1>8, <2>1 DEF FrameAt, SentUpTo
    <3>2. Top.text.by \in Clients
      BY <1>4, <2>1 DEF Frame, Text
    <3>3. \A c \in Clients, j \in 1 .. N :
            fd[c] = sock[chain[j]] /\ j < q1 /\ ~(j < q) => c = Top.text.by
      <4> SUFFICES ASSUME NEW c \in Clients, NEW j \in 1 .. N,
                          fd[c] = sock[chain[j]], j < q1, ~(j < q)
                   PROVE  c = Top.text.by
        OBVIOUS
      <4>1. j = q
        BY <1>4, <1>9
      <4>2. fd[c] = sock[cur] /\ sock[cur] # NULL
        BY <1>1, <1>3, <1>8, <4>1, CurIsMember, SockFacts DEF Place
      <4> QED BY <1>1, <3>1, <3>2, <4>2 DEF RunInv, NetInv
    <3>4. q1 >= q
      BY <1>9
    <3>5. SentTo(Top.to, Top.text.by, q1)
      BY <1>4, <3>1, <3>3, <3>4 DEF SentTo
    <3>6. N' = N
      BY <1>2 DEF N
    <3> QED BY <1>1, <1>2, <1>7, <1>8, <3>1, <3>5, <3>6
           DEF SentUpTo, SentTo, Times
  <2>2. Top.text = NULL => SentUpTo(Top, q1)'
    BY <1>7 DEF SentUpTo
  <2> QED BY <1>1, <1>2, <1>3, <1>7, <1>8, <2>1, <2>2 DEF FrameAt
<1>11. CallInv'
  BY <1>1, <1>2, <1>3, <1>4, <1>7, <1>9, <1>10, CallMoves
<1>12. Onward /\ InboxKept
  BY <1>2 DEF Onward, InboxKept
<1>13. TypeOK'
  <2>1. List!TypeOK'
    BY <1>1, ListTypeStays
  <2> QED BY <1>1, <1>2, <1>7, <2>1 DEF TypeOK, netVars, clientVars
<1>14. NetInv'
  BY <1>1, NetStays DEF RunInv, TypeOK, IsOpen, netVars, selectVars
<1>15. Lists!IInv'
  BY <1>1, ListStays DEF RunInv
<1>16. MemberInv' /\ WalkInv'
  BY <1>1, <1>2, <1>12, MembersStay, WalkStays DEF RunInv
<1> QED BY <1>11, <1>13, <1>14, <1>15, <1>16 DEF IInv, RunInv

LEMMA NothingAppended == \A to \in Seq(Clients) : to \o <<>> = to
OBVIOUS

\* One more name at the end of to.
LEMMA TimesOfAppend ==
  ASSUME NEW to \in Seq(Clients), NEW d \in Clients
  PROVE  /\ to \o <<d>> \in Seq(Clients)
         /\ Len(to) + 1 \in DOMAIN (to \o <<d>>)
         /\ DOMAIN to \subseteq DOMAIN (to \o <<d>>)
         /\ \A c : Times(to \o <<d>>, c) =
                     Times(to, c) \cup IF c = d THEN {Len(to) + 1} ELSE {}
<1> DEFINE t == to \o <<d>>
           L == Len(to)
<1>1. /\ t \in Seq(Clients) /\ L \in Nat
      /\ DOMAIN to = 1 .. L /\ DOMAIN t = 1 .. L + 1
      /\ \A i \in 1 .. L : t[i] = to[i]
      /\ t[L + 1] = d
  OBVIOUS
<1>2. L + 1 \in 1 .. L + 1 /\ 1 .. L \subseteq 1 .. L + 1
      /\ \A i \in 1 .. L + 1 : i \in 1 .. L \/ i = L + 1
  BY <1>1
<1> HIDE DEF t, L
<1>3. \A c : Times(t, c) = Times(to, c) \cup IF c = d THEN {L + 1} ELSE {}
  BY <1>1, <1>2 DEF Times
<1> QED BY <1>1, <1>2, <1>3 DEF t, L

\* Whom a send at the top of the stack reaches.
Reached == {c \in Behind(sock[Top.node]) : conn[c] = "up"}

LEMMA SendsOn ==
  ASSUME RunInv, TypeOK, at = "send", Top.node # NULL, Top.text # NULL,
         sock[Top.node] # Top.from,
         NEW D \in SUBSET Nodes, AfterTail(D),
         NEW q \in 1 .. N + 1, Place(D, q, Top.node), SentUpTo(Top, q),
         NEW to, to = Top.to \o SetToSeq(Reached)
  PROVE  SentTo(to, Top.text.by, Following(q))
<1>1. /\ Lists!IInv /\ N \in Nat /\ Top \in Frame /\ NetInv /\ MemberInv
  BY CallFacts DEF RunInv
<1>2. Top.to \in Seq(Clients) /\ Top.text.by \in Clients
  BY <1>1 DEF Frame, Text
<1>3. /\ Top.victim = NULL /\ Top.from = sock[cur]
      /\ fd[Top.text.by] = sock[cur]
      /\ SentTo(Top.to, Top.text.by, q)
  BY DEF SentUpTo
<1>4. CASE q \notin 1 .. N
  <2>1. Behind(sock[Top.node]) = {}
    BY <1>4, NodeFacts
  <2>2. SetToSeq(Reached) = <<>>
    BY <2>1, SingletonToSeq DEF Reached
  <2>3. to = Top.to
    BY <1>2, <2>2, NothingAppended
  <2> QED BY <1>3, <1>4, <2>3 DEF Following
<1>5. CASE q \in 1 .. N
  <2>1. PICK d \in Clients : Behind(sock[Top.node]) = {d}
    BY <1>5, NodeFacts
  <2>2. Top.node = chain[q] /\ sock[chain[q]] # NULL
    BY <1>5, NodeFacts, SockFacts
  <2>3. fd[d] = sock[chain[q]] /\ d # Top.text.by
    BY <1>3, <2>1, <2>2 DEF Behind
  <2>4. \A c \in Clients, j \in 1 .. N :
          fd[c] = sock[chain[j]] => (j = q <=> c = d)
    <3>1. /\ \A i, j \in 1 .. N : sock[chain[i]] = sock[chain[j]] => i = j
          /\ \A b, c \in Clients : fd[b] # NULL /\ fd[b] = fd[c] => b = c
      BY <1>1, ListFacts DEF NetInv, MemberInv
    <3> QED BY <1>5, <2>2, <2>3, <3>1
  <2> SUFFICES ASSUME NEW c \in Clients, NEW j \in 1 .. N,
                      fd[c] = sock[chain[j]], conn[c] = "up"
               PROVE  IF j < q + 1 /\ c # Top.text.by
                      THEN \E i \in DOMAIN to : Times(to, c) = {i}
                      ELSE Times(to, c) = {}
    BY <1>5 DEF SentTo, Following
  <2>5. IF j < q /\ c # Top.text.by
        THEN \E i \in DOMAIN Top.to : Times(Top.to, c) = {i}
        ELSE Times(Top.to, c) = {}
    BY <1>3 DEF SentTo
  <2>6. j < q + 1 <=> j < q \/ j = q
    BY <1>1
  <2>7. CASE conn[d] # "up"
    <3>1. Reached = {} /\ c # d
      BY <2>1, <2>7 DEF Reached
    <3>2. to = Top.to
      BY <1>2, <3>1, SingletonToSeq, NothingAppended
    <3> QED BY <2>4, <2>5, <2>6, <3>1, <3>2
  <2>8. CASE conn[d] = "up"
    <3>1. to = Top.to \o <<d>>
      <4>1. Reached = {d}
        BY <2>1, <2>8 DEF Reached
      <4> QED BY <4>1, SingletonToSeq
    <3>2. /\ Len(Top.to) + 1 \in DOMAIN to /\ DOMAIN Top.to \subseteq DOMAIN to
          /\ Times(to, c) = Times(Top.to, c) \cup
                              IF c = d THEN {Len(Top.to) + 1} ELSE {}
      <4> DEFINE t == Top.to \o <<d>>
      <4>1. /\ Len(Top.to) + 1 \in DOMAIN t /\ DOMAIN Top.to \subseteq DOMAIN t
            /\ Times(t, c) = Times(Top.to, c) \cup
                                IF c = d THEN {Len(Top.to) + 1} ELSE {}
        BY <1>2, TimesOfAppend
      <4> QED BY <3>1, <4>1
    <3>3. CASE c = d
      <4>1. j = q /\ ~(j < q)
        BY <1>1, <2>4, <3>3
      <4>2. Times(to, c) = {Len(Top.to) + 1}
        BY <2>5, <3>2, <3>3, <4>1
      <4> QED BY <2>3, <2>6, <3>2, <3>3, <4>1, <4>2
    <3>4. CASE c # d
      <4>1. Times(to, c) = Times(Top.to, c) /\ j # q
        BY <2>4, <3>2, <3>4
      <4> QED BY <2>5, <2>6, <3>2, <4>1
    <3> QED BY <3>3, <3>4
  <2> QED BY <2>7, <2>8
<1> QED BY <1>4, <1>5

LEMMA SendMessageInv ==
  ASSUME IInv, SendMessage
  PROVE  IInv'
<1>1. PICK W \in SUBSET Clients : W = Reached
  BY DEF Reached, Behind
<1>2. /\ RunInv /\ TypeOK /\ at = "send" /\ at' = at /\ Top.node # NULL
      /\ sock[Top.node] # Top.from
      /\ \A c \in Behind(sock[Top.node]) : conn[c] # "broken"
      /\ heard' = heard \cup W
      /\ unread' = (unread \/ Own \in W)
      /\ stack' = [stack EXCEPT ![1].node = next[@],
                                ![1].to = @ \o SetToSeq(W)]
      /\ UNCHANGED <<listVars, named, backlog, inbox, fd, said, selectVars,
                     cur, served>>
  BY <1>1 DEF IInv, SendMessage, IsAddressee, Reached
<1>3. /\ UNCHANGED <<head, tail, next, sock, live, pc, arg, chain>>
      /\ UNCHANGED <<mask, readfds, Max_sd>>
  BY <1>2 DEF listVars, selectVars
<1>4. conn \in [Clients -> ConnState]
  BY <1>2 DEF TypeOK
<1>5. /\ conn' \in [Clients -> ConnState]
      /\ \A c \in Clients :
           \/ conn'[c] = conn[c]
           \/ conn[c] \in {"fin", "rst"} /\ conn'[c] = "broken"
  <2>1. conn' = conn \/ \E c \in Clients : Poke(c)
    BY DEF SendMessage, Behind
  <2> QED BY <1>4, <2>1 DEF Poke, ConnState
<1>6. /\ Onward /\ InboxKept
      /\ \A c \in Clients : IsOpen(c) => IsOpen(c)'
  BY <1>2, <1>5 DEF Onward, InboxKept, IsOpen, OpenStates
<1>7. PICK D \in SUBSET Nodes, q \in 1 .. N + 1 :
        AfterTail(D) /\ Place(D, q, Top.node) /\ FrameAt(Top, q)
  BY <1>2, CallFacts
<1>8. /\ Lists!IInv /\ N \in Nat /\ stack # <<>> /\ Top \in Frame
      /\ stack \in Seq(Frame) /\ Len(stack) \in Nat \ {0}
  BY <1>2, CallFacts
<1>9. PICK to \in Seq(Clients) : to = Top.to \o SetToSeq(W)
  <2>1. Top.to \in Seq(Clients)
    BY <1>8 DEF Frame
  <2>2. Behind(sock[Top.node]) = {}
          \/ \E c \in Clients : Behind(sock[Top.node]) = {c}
    BY <1>2, <1>7, NodeFacts
  <2>3. W = {} \/ \E c \in Clients : W = {c}
    BY <1>1, <2>2 DEF Reached
  <2>4. SetToSeq(W) = <<>> \/ \E c \in Clients : SetToSeq(W) = <<c>>
    BY <2>3, SingletonToSeq
  <2>5. Top.to \o SetToSeq(W) \in Seq(Clients)
    BY <2>1, <2>4, NothingAppended, TimesOfAppend
  <2> QED BY <2>5
<1>10. next[Top.node] \in Nodes \cup {NULL}
  BY <1>2, <1>7, NodeFacts
<1>11. stack' = [stack EXCEPT ![1] =
                   [@ EXCEPT !.node = next[Top.node], !.to = to]]
  <2>1. [stack[1] EXCEPT !.node = next[@], !.to = @ \o SetToSeq(W)]
          = [stack[1] EXCEPT !.node = next[Top.node], !.to = to]
    BY <1>8, <1>9 DEF Top, Frame
  <2>2. stack' = [stack EXCEPT ![1] =
          [stack[1] EXCEPT !.node = next[@], !.to = @ \o SetToSeq(W)]]
    BY <1>2, <1>8 DEF Top
  <2> QED BY <2>1, <2>2
<1>12. /\ stack' \in Seq(Frame) /\ Len(stack') = Len(stack) /\ stack' # <<>>
       /\ Top'.node = next[Top.node] /\ Top'.to = to
       /\ Top'.from = Top.from /\ Top'.text = Top.text
       /\ Top'.victim = Top.victim
  BY <1>2, <1>8, <1>10, <1>11, TopChanges
<1>13. PICK r \in 1 .. N + 1 :
         r = Following(q) /\ r = IF q \in 1 .. N THEN q + 1 ELSE q
  BY <1>8 DEF Following
<1>14. N' = N
  BY <1>3 DEF N
<1>15. FrameAt(Top, r)'
  <2>1. ASSUME Len(stack) = 1, Top.text # NULL
        PROVE  SentUpTo(Top, r)'
    <3>1. SentUpTo(Top, q)
      BY <1>7, <2>1 DEF FrameAt
    <3>2. SentTo(to, Top.text.by, r)
      <4>1. /\ RunInv /\ TypeOK /\ at = "send" /\ Top.node # NULL
            /\ Top.text # NULL /\ sock[Top.node] # Top.from
            /\ AfterTail(D) /\ Place(D, q, Top.node) /\ SentUpTo(Top, q)
        BY <1>2, <1>7, <2>1, <3>1
      <4> QED BY <1>1, <1>9, <1>13, <4>1, SendsOn
    <3>3. \A c \in Clients : conn'[c] = "up" => conn[c] = "up"
      BY <1>5
    <3>4. /\ Top.victim = NULL /\ Top.from = sock[cur]
          /\ fd[Top.text.by] = sock[cur]
      BY <2>1, <3>1 DEF SentUpTo
    <3>5. UNCHANGED <<sock, chain, fd, cur>>
      BY <1>2, <1>3
    <3>6. SentTo(to, Top.text.by, r)'
      <4>1. Top'.text.by = Top.text.by
        BY <1>12
      <4> QED BY <1>14, <3>2, <3>3, <3>5, <4>1 DEF SentTo, Times
    <3> QED BY <1>12, <3>4, <3>5, <3>6 DEF SentUpTo, SentTo, Times
  <2>2. CASE Len(stack) = 1
    <3>1. Top.text = NULL => SentUpTo(Top, r)'
      BY <1>12 DEF SentUpTo
    <3> QED BY <1>2, <1>3, <1>7, <1>12, <2>1, <2>2, <3>1 DEF FrameAt
  <2>3. CASE Len(stack) # 1
    <3>1. Top.from = FROM_SERVER /\ Top.text = NULL
      BY <1>7, <2>3 DEF FrameAt
    <3>2. PICK k \in q .. N, c \in Clients :
            fd[c] = sock[chain[k]] /\ conn[c] = "broken"
      BY <1>7, <2>3 DEF FrameAt
    <3>3. k # q
      <4> SUFFICES ASSUME k = q PROVE FALSE
        OBVIOUS
      <4>1. Top.node = chain[q]
        BY <1>7, <1>8 DEF Place
      <4>2. c \in Behind(sock[Top.node])
        BY <3>2, <4>1 DEF Behind
      <4> QED BY <1>2, <3>2, <4>2
    <3>4. k \in r .. N
      BY <1>8, <1>13, <3>3
    <3>5. conn'[c] = "broken"
      BY <1>5, <3>2
    <3> QED BY <1>2, <1>3, <1>12, <1>14, <2>3, <3>1, <3>2, <3>4, <3>5
            DEF FrameAt
  <2> QED BY <2>2, <2>3
<1>16. CallInv'
  BY <1>2, <1>3, <1>7, <1>8, <1>12, <1>13, <1>15, CallMoves
<1>17. TypeOK'
  <2>1. List!TypeOK'
    BY <1>2, ListTypeStays
  <2> QED BY <1>2, <1>3, <1>5, <1>12, <2>1 DEF TypeOK
<1>18. NetInv'
  BY <1>2, <1>3, <1>6, NetStays DEF RunInv, TypeOK
<1>19. Lists!IInv'
  BY <1>2, ListStays DEF RunInv
<1>20. MemberInv' /\ WalkInv'
  BY <1>2, <1>3, <1>6, MembersStay, WalkStays DEF RunInv
<1> QED BY <1>16, <1>17, <1>18, <1>19, <1>20 DEF IInv, RunInv

\* A member who is found broken is deleted by a call of its own.
LEMMA SendToBrokenInv ==
  ASSUME IInv, SendToBroken
  PROVE  IInv'
<1> DEFINE f == [node |-> head, from |-> FROM_SERVER, text |-> NULL,
                 victim |-> sock[Top.node], to |-> <<>>]
<1>1. /\ RunInv /\ TypeOK /\ at = "send" /\ Top.node # NULL
      /\ \E c \in Behind(sock[Top.node]) : conn[c] = "broken"
      /\ cur' = cur
      /\ \/ at' = "stopped" /\ stack' = stack
         \/ at' = "send" /\ stack' = <<f>> \o stack
      /\ UNCHANGED <<listVars, named, netVars, clientVars, selectVars, served>>
  BY DEF IInv, SendToBroken, DeleteUser, Transfer
<1>2. /\ UNCHANGED <<head, tail, next, sock, live, pc, arg, chain>>
      /\ UNCHANGED <<fd, conn, inbox, mask, readfds, Max_sd>>
  BY <1>1 DEF listVars, netVars, selectVars
<1>3. PICK D \in SUBSET Nodes, q \in 1 .. N + 1 :
        AfterTail(D) /\ Place(D, q, Top.node) /\ FrameAt(Top, q)
  BY <1>1, CallFacts
<1>4. /\ Lists!IInv /\ N \in Nat /\ stack # <<>>
      /\ stack \in Seq(Frame) /\ Len(stack) \in Nat \ {0}
  BY <1>1, CallFacts
<1>5. PICK c \in Clients : fd[c] = sock[Top.node] /\ conn[c] = "broken"
  BY <1>1 DEF Behind
<1>6. q \in 1 .. N /\ Top.node = chain[q] /\ sock[Top.node] \in Socks
  BY <1>1, <1>3, NodeFacts
<1>7. f \in Frame
  <2>1. head \in Nodes \cup {NULL}
    BY <1>1 DEF TypeOK, List!TypeOK, List!Pointer
  <2> QED BY <1>6, <2>1 DEF Frame
<1>8. f.node = head /\ f.from = FROM_SERVER /\ f.text = NULL
  OBVIOUS
<1> HIDE DEF f
<1>9. stack' \in Seq(Frame)
  <2>1. <<f>> \in Seq(Frame)
    BY <1>7
  <2>2. <<f>> \o stack \in Seq(Frame)
    BY <1>4, <2>1
  <2> QED BY <1>1, <1>4, <2>2
<1>10. TypeOK'
  <2>1. List!TypeOK'
    BY <1>1, ListTypeStays
  <2> QED BY <1>1, <1>2, <1>9, <2>1 DEF TypeOK, netVars, clientVars
<1>11. ASSUME at' = "send"
       PROVE  CallInv'
  <2>1. stack' = <<f>> \o stack
    BY <1>1, <1>11
  <2>2. Top' = f /\ Len(stack') # 1 /\ stack' # <<>>
    BY <1>4, <1>7, <2>1 DEF Top
  <2>3. N' = N
    BY <1>2 DEF N
  <2>4. AfterTail(D)'
    BY <1>2, <1>3, AfterTailStays
  <2>5. Place(D, 1, Top.node)'
    BY <1>2, <1>4, <1>6, <1>8, <2>2, <2>3, ListFacts DEF Place
  <2>6. q \in 1 .. N /\ fd'[c] = sock'[chain'[q]] /\ conn'[c] = "broken"
    BY <1>2, <1>5, <1>6
  <2>7. FrameAt(Top, 1)'
    BY <1>8, <2>2, <2>3, <2>6 DEF FrameAt
  <2>8. 1 \in (1 .. N + 1)'
    BY <1>4, <2>3
  <2> QED BY <1>11, <2>2, <2>4, <2>5, <2>7, <2>8 DEF CallInv
<1>12. Onward /\ InboxKept
  BY <1>2 DEF Onward, InboxKept
<1>13. NetInv'
  BY <1>1, NetStays DEF RunInv, TypeOK, IsOpen, netVars, selectVars
<1>14. Lists!IInv'
  BY <1>1, ListStays DEF RunInv
<1>15. at' = "send" => MemberInv' /\ WalkInv'
  BY <1>1, <1>2, <1>12, MembersStay, WalkStays DEF RunInv
<1> QED BY <1>1, <1>10, <1>11, <1>13, <1>14, <1>15 DEF IInv, RunInv

LEMMA EndTransferInv ==
  ASSUME IInv, EndTransfer
  PROVE  IInv'
<1>1. /\ RunInv /\ TypeOK /\ at = "send" /\ Top.node = NULL
      /\ UNCHANGED <<listVars, named, netVars, clientVars, selectVars, served>>
  BY DEF IInv, EndTransfer
<1>2. /\ UNCHANGED <<head, tail, next, sock, live, pc, arg, chain>>
      /\ UNCHANGED <<fd, conn, inbox, mask, readfds, Max_sd>>
  BY <1>1 DEF listVars, netVars, selectVars
<1>3. at' = "walk" /\ cur' = next[cur] /\ stack' = <<>>
  BY <1>1, <1>2, InnerCallsGoOn DEF EndTransfer, Return
<1>4. Onward /\ InboxKept
  BY <1>2 DEF Onward, InboxKept
<1>5. WalkInv' /\ cur' \in Nodes \cup {NULL}
  BY <1>1, <1>2, <1>3, <1>4, WalkGoesOn DEF RunInv
<1>6. TypeOK'
  <2>1. List!TypeOK'
    BY <1>1, ListTypeStays
  <2>2. stack' \in Seq(Frame)
    BY <1>3
  <2> QED BY <1>1, <1>2, <1>3, <1>5, <2>1, <2>2
          DEF TypeOK, netVars, clientVars
<1>7. NetInv'
  BY <1>1, NetStays DEF RunInv, TypeOK, IsOpen, netVars, selectVars
<1>8. Lists!IInv'
  BY <1>1, ListStays DEF RunInv
<1>9. MemberInv'
  BY <1>1, <1>2, <1>3, MembersStay DEF RunInv
<1>10. CallInv'
  <2>1. PICK D \in SUBSET Nodes : AfterTail(D)
    BY <1>1, CallFacts
  <2>2. AfterTail(D)'
    BY <1>2, <2>1, AfterTailStays
  <2> QED BY <1>3, <2>2 DEF CallInv
<1> QED BY <1>5, <1>6, <1>7, <1>8, <1>9, <1>10 DEF IInv, RunInv

-----------------------------------------------------------------------------
(***************************************************************************)
(* delete_user                                                             *)
(***************************************************************************)
LEMMA CloseConnectionInv ==
  ASSUME IInv, CloseConnection
  PROVE  IInv'
<1> DEFINE s == Top.victim
<1>1. /\ RunInv /\ TypeOK /\ at = "send" /\ Top.node = NULL /\ s # NULL
      /\ mask' = mask \ {s}
      /\ List!BeginDelete(s)
      /\ at' = "delete"
      /\ UNCHANGED <<named, backlog, clientVars, readfds, Max_sd, cur,
                     served, stack>>
  BY DEF IInv, CloseConnection, StopWatching
<1>2. s = sock[cur] /\ s \in Socks /\ s \in Members /\ IsServed(s)
      /\ cur \in Nodes /\ Len(stack) = 1
  BY <1>1, InnerCallsGoOn, CurIsMember
<1> HIDE DEF s
<1>3. PICK c \in Clients :
        /\ c = CHOOSE d \in Clients : fd[d] = s
        /\ fd[c] = s
  BY <1>1, <1>2, CurIsMember
<1>4. /\ fd' = [fd EXCEPT ![c] = NULL]
      /\ conn' = [conn EXCEPT ![c] =
                    IF @ = "up" /\ inbox[c] = <<>> THEN "bye" ELSE "cut"]
      /\ inbox' = [inbox EXCEPT ![c] = <<>>]
  BY <1>3 DEF CloseConnection, s
<1>5. /\ fd \in [Clients -> Socks \cup {NULL}]
      /\ conn \in [Clients -> ConnState] /\ inbox \in [Clients -> Seq(Packet)]
  BY <1>1 DEF TypeOK
<1>6. /\ fd' \in [Clients -> Socks \cup {NULL}]
      /\ conn' \in [Clients -> ConnState] /\ inbox' \in [Clients -> Seq(Packet)]
      /\ fd'[c] = NULL
      /\ \A d \in Clients \ {c} :
           fd'[d] = fd[d] /\ conn'[d] = conn[d] /\ inbox'[d] = inbox[d]
  <2>1. <<>> \in Seq(Packet)
    OBVIOUS
  <2> QED BY <1>4, <1>5, <2>1 DEF ConnState
<1>7. /\ UNCHANGED <<head, tail, next, sock, live, chain>>
      /\ pc' = "search" /\ arg' = s /\ N' = N
  BY <1>1 DEF List!BeginDelete, List!heapVars, N
<1>8. Lists!IInv /\ NetInv /\ MemberInv /\ WalkInv /\ CallInv
  BY <1>1 DEF RunInv
<1>9. Lists!IInv'
  <2>1. Lists!BeginDelete(s)
    BY <1>1, SameList
  <2> QED BY <1>2, <1>8, <2>1, ListConstants, Lists!BeginDeleteInv
<1>10. \A d \in Clients : fd[d] = s => d = c
  BY <1>2, <1>3, <1>8, SockFacts DEF NetInv
<1>11. Fds' = Fds \ {s} /\ s \in Fds
  <2>1. s # NULL
    BY <1>2, SockFacts
  <2>2. Fds' \subseteq Fds \ {s}
    BY <1>6, <1>10 DEF Fds
  <2>3. Fds \ {s} \subseteq Fds'
    BY <1>3, <1>6 DEF Fds
  <2> QED BY <1>3, <2>1, <2>2, <2>3 DEF Fds
<1>12. TypeOK'
  <2>1. List!TypeOK'
    BY <1>9, ListTypeHolds
  <2>2. \A n \in live' : named'[n] \in BOOLEAN
    BY <1>1, <1>7 DEF TypeOK
  <2> QED BY <1>1, <1>2, <1>6, <2>1, <2>2 DEF TypeOK, clientVars
<1>13. NetInv'
  <2>1. mask' = {KEYBOARD, UDP, TCP, OWN} \cup Fds'
    BY <1>1, <1>2, <1>8, <1>11, SockFacts DEF NetInv
  <2>2. \A r \in mask' : r <= Max_sd'
    BY <1>1, <1>8 DEF NetInv
  <2>3. \A a, b \in Clients : fd'[a] # NULL /\ fd'[a] = fd'[b] => a = b
    <3> SUFFICES ASSUME NEW a \in Clients, NEW b \in Clients,
                        fd'[a] # NULL, fd'[a] = fd'[b]
                 PROVE  a = b
      OBVIOUS
    <3>1. fd'[a] = fd[a] /\ fd'[b] = fd[b]
      BY <1>6
    <3> QED BY <1>8, <3>1 DEF NetInv
  <2>4. \A a \in Clients : fd'[a] # NULL => conn'[a] \in OpenStates
    BY <1>6, <1>8 DEF NetInv, IsOpen
  <2>5. \A i \in DOMAIN backlog : backlog[i] \in Clients \ {c}
    <3>1. backlog \in Seq(Clients) /\ fd[c] # NULL
      BY <1>1, <1>2, <1>3, SockFacts DEF TypeOK
    <3> QED BY <1>8, <3>1 DEF NetInv
  <2>6. \A i \in DOMAIN backlog' :
          fd'[backlog'[i]] = NULL /\ conn'[backlog'[i]] \in OpenStates
    BY <1>1, <1>6, <1>8, <2>5 DEF NetInv, IsOpen
  <2>7. \A i, j \in DOMAIN backlog' : backlog'[i] = backlog'[j] => i = j
    BY <1>1, <1>8 DEF NetInv
  <2> QED BY <2>1, <2>2, <2>3, <2>4, <2>6, <2>7 DEF NetInv, IsOpen
<1>14. MemberInv'
  <2>1. Members' = Members
    BY <1>7 DEF Members
  <2> QED BY <1>1, <1>7, <1>8, <1>11, <2>1 DEF MemberInv
<1>15. WalkInv'
  <2>1. ReadyInv /\ Walking /\ Walking'
    BY <1>1, <1>8 DEF WalkInv, Walking
  <2>2. \A r : IsServed(r)' = IsServed(r)
    BY <1>1 DEF IsServed
  <2>3. \A r : r # s /\ Ready(r) /\ r \in Socks => Ready(r)'
    <3> SUFFICES ASSUME NEW r \in Socks, r # s, Ready(r)
                 PROVE  Ready(r)'
      OBVIOUS
    <3>1. PICK d \in Clients : fd[d] = r /\ (inbox[d] # <<>> \/ HangsUp(d))
      BY DEF Ready, Behind
    <3>2. fd'[d] = r /\ conn'[d] = conn[d] /\ inbox'[d] = inbox[d]
      BY <1>3, <1>6, <3>1
    <3> QED BY <3>1, <3>2 DEF Ready, Behind, HangsUp
  <2>4. ReadyInv'
    <3>1. Members' = Members
      BY <1>7 DEF Members
    <3> QED BY <1>1, <1>2, <2>1, <2>2, <2>3, <3>1 DEF ReadyInv
  <2>5. PICK S \in SUBSET Nodes, p \in 1 .. N + 1 : WalkAt(S, p)
    BY <1>8, <2>1 DEF WalkInv
  <2>6. \A j \in 1 .. N : Passed(j, p)' = Passed(j, p)
    BY <1>1 DEF Passed
  <2>7. WalkAt(S, p)'
    BY <1>1, <1>7, <2>2, <2>5, <2>6 DEF WalkAt, Freed, Place
  <2> QED BY <1>7, <2>1, <2>4, <2>7 DEF WalkInv
<1>16. CallInv'
  <2>1. PICK D \in SUBSET Nodes : AfterTail(D)
    BY <1>8 DEF CallInv
  <2>2. AfterTail(D)'
    BY <1>1, <1>7, <2>1 DEF AfterTail, Freed
  <2> QED BY <1>1, <1>2, <1>7, <2>2 DEF CallInv
<1> QED BY <1>9, <1>12, <1>13, <1>14, <1>15, <1>16 DEF IInv, RunInv

\* The search finds whom delete_user was called for: he is still a member.
LEMMA DeleteFinds ==
  ASSUME RunInv, at = "delete"
  PROVE  /\ pc = "search" /\ arg = sock[cur]
         /\ \E i \in 1 .. N : Lists!Found(i)
<1>1. /\ Lists!IInv /\ MemberInv /\ CallInv /\ pc = "search"
      /\ arg = sock[cur]
  BY DEF RunInv, MemberInv, CallInv
<1>2. PICK k \in DOMAIN chain : sock[chain[k]] = arg
  BY <1>1 DEF MemberInv, Members
<1>3. \E i \in DOMAIN chain : Lists!Found(i)
  BY <1>1, <1>2 DEF Lists!IInv, Lists!SearchInv
<1> QED BY <1>1, <1>3, ListFacts

LEMMA SearchOnKeeps ==
  ASSUME IInv, at = "delete", List!SearchOn,
         UNCHANGED <<at, cur, stack, named, netVars, clientVars, selectVars,
                     served>>
  PROVE  IInv'
<1>1. RunInv /\ TypeOK
  BY DEF IInv
<1>2. UNCHANGED <<head, tail, next, sock, live, pc, arg, chain>>
  BY DEF List!SearchOn, List!heapVars
<1>3. UNCHANGED <<fd, conn, inbox, mask, readfds, Max_sd>>
  BY DEF netVars, selectVars
<1>4. Lists!IInv'
  <2>1. Lists!SearchOn
    BY SameList
  <2> QED BY <1>1, <2>1, ListConstants, Lists!SearchOnInv DEF RunInv
<1>5. Onward /\ InboxKept
  BY <1>3 DEF Onward, InboxKept
<1>6. TypeOK'
  <2>1. List!TypeOK'
    BY <1>4, ListTypeHolds
  <2> QED BY <1>1, <1>2, <2>1 DEF TypeOK, netVars, clientVars, selectVars
<1>7. NetInv'
  BY <1>1, NetStays DEF RunInv, TypeOK, IsOpen, netVars, selectVars
<1>8. MemberInv' /\ WalkInv' /\ CallInv'
  BY <1>1, <1>2, <1>3, <1>5, MembersStay, WalkStays, CallStays DEF RunInv
<1> QED BY <1>4, <1>6, <1>7, <1>8 DEF IInv, RunInv

\* The walk goes on from the node that is freed, whatever follows it now.
LEMMA RemoveKeeps ==
  ASSUME IInv, at = "delete", List!Remove,
         at' = "walk", cur' = next'[cur], stack' = <<>>,
         UNCHANGED <<named, netVars, clientVars, selectVars, served>>
  PROVE  IInv'
<1>1. /\ RunInv /\ TypeOK /\ Lists!IInv /\ NetInv /\ MemberInv /\ WalkInv
      /\ CallInv
  BY DEF IInv, RunInv
<1>2. Lists!Remove
  BY SameList
<1>3. PICK i \in 1 .. N :
        Lists!Found(i) /\ chain' = Lists!Without(chain, i)
  BY <1>1, <1>2, ListConstants, Lists!RemoveFacts DEF N
<1>4. Lists!IInv'
  BY <1>1, <1>2, ListConstants, Lists!RemoveInv
<1>5. /\ live' = live \ {current} /\ pc' = "idle" /\ sock[current] = arg
      /\ UNCHANGED <<sock, arg>>
  BY DEF List!Remove, List!localVars
<1>6. UNCHANGED <<fd, conn, inbox, backlog, mask, readfds, Max_sd>>
  BY DEF netVars, selectVars
<1>7. PICK S \in SUBSET Nodes, p \in 1 .. N + 1 : WalkAt(S, p)
  BY <1>1 DEF WalkInv, Walking
<1>8. /\ N \in Nat /\ chain \in Seq(Nodes) /\ DOMAIN chain = 1 .. N
      /\ \A j, k \in 1 .. N : sock[chain[j]] = sock[chain[k]] => j = k
      /\ tail = chain[N] /\ tail # NULL
      /\ \A j \in 1 .. N - 1 : next[chain[j]] = chain[j + 1]
      /\ \A j \in 1 .. N : chain[j] \in Nodes /\ sock[chain[j]] \in Socks
  <2>1. /\ \A j, k \in DOMAIN chain :
             sock[chain[j]] = sock[chain[k]] => j = k
        /\ N \in Nat /\ DOMAIN chain = 1 .. N
    BY <1>1, ListFacts DEF MemberInv
  <2>2. N # 0
    BY <1>3, <2>1
  <2> QED BY <1>1, <2>1, <2>2, ListFacts
<1>9. arg = sock[cur] /\ p \in 1 .. N /\ cur = chain[p] /\ sock[cur] \in Socks
  BY <1>1, <1>7, <1>8 DEF CallInv, WalkAt, Place
<1>10. i = p /\ current = cur
  BY <1>3, <1>5, <1>8, <1>9 DEF Lists!Found
<1>11. /\ \A m \in Nodes : m = cur \/ m \notin live => next'[m] = next[m]
       /\ p # N => tail' = tail /\ next'[tail] = next[tail]
       /\ \A D \in SUBSET Nodes : Lists!BehindTail(D) =>
            IF N # 1 /\ p = N THEN Lists!BehindTail(D \cup {current})'
                              ELSE Lists!BehindTail(D)'
  BY <1>1, <1>2, <1>3, <1>10, ListConstants, Lists!RemoveElsewhere DEF N
<1>12. /\ N' = N - 1 /\ DOMAIN chain' = 1 .. N - 1
       /\ \A j \in 1 .. N - 1 :
            chain'[j] = IF j < p THEN chain[j] ELSE chain[j + 1]
  <2> DEFINE t == Lists!Without(chain, i)
  <2>1. i \in DOMAIN chain /\ chain \in Seq(Nodes)
    BY <1>8
  <2>2. /\ Len(t) = Len(chain) - 1 /\ DOMAIN t = 1 .. Len(chain) - 1
        /\ \A j \in 1 .. Len(chain) - 1 :
             t[j] = IF j < i THEN chain[j] ELSE chain[j + 1]
    BY <2>1, ListConstants, Lists!WithoutFacts
  <2> QED BY <1>3, <1>10, <2>2 DEF N
<1>13. \A j \in 1 .. N - 1 :
         /\ j \in 1 .. N /\ j + 1 \in 1 .. N
         /\ j < p \/ (j >= p /\ j + 1 > p /\ j + 1 # p)
  BY <1>8, <1>9
<1>14. TypeOK'
  <2>1. List!TypeOK'
    BY <1>4, ListTypeHolds
  <2>2. cur' \in Nodes \cup {NULL}
    <3>1. next'[cur] = next[cur] /\ cur # NULL
      BY <1>8, <1>9, <1>11, ListFacts, <1>1
    <3>2. p \in 1 .. N => next[tail] \in S \cup {NULL}
      BY <1>7 DEF WalkAt
    <3>3. PICK r \in 1 .. N + 1 : Place(S, r, next[cur])
      BY <1>1, <1>7, <3>1, <3>2, NextPlace DEF WalkAt
    <3> QED BY <1>8, <3>1, <3>3 DEF Place
  <2>3. live' \subseteq live /\ stack' \in Seq(Frame)
    BY <1>5
  <2> QED BY <1>1, <2>1, <2>2, <2>3 DEF TypeOK, netVars, clientVars, selectVars
<1>15. NetInv'
  BY <1>1, <1>6, NetStays DEF TypeOK, IsOpen
<1>16. /\ \A j \in 1 .. N - 1 : sock[chain'[j]] # arg
       /\ Members' = Members \ {arg}
  <2>1. \A j \in 1 .. N - 1 : sock[chain'[j]] \in Members \ {arg}
    <3> SUFFICES ASSUME NEW j \in 1 .. N - 1
                 PROVE  sock[chain'[j]] \in Members \ {arg}
      OBVIOUS
    <3>1. PICK k \in 1 .. N : chain'[j] = chain[k] /\ k # p
      BY <1>9, <1>12, <1>13
    <3>2. sock[chain[k]] # arg
      BY <1>8, <1>9, <3>1
    <3>3. sock[chain[k]] \in Members
      BY <1>8 DEF Members
    <3> QED BY <3>1, <3>2, <3>3
  <2>2. \A k \in 1 .. N : k # p =>
          \E j \in 1 .. N - 1 : chain'[j] = chain[k]
    <3> SUFFICES ASSUME NEW k \in 1 .. N, k # p
                 PROVE  \E j \in 1 .. N - 1 : chain'[j] = chain[k]
      OBVIOUS
    <3>1. CASE k < p
      <4>1. k \in 1 .. N - 1
        BY <1>8, <1>9, <3>1
      <4> QED BY <1>12, <3>1, <4>1
    <3>2. CASE k > p
      <4>1. k - 1 \in 1 .. N - 1 /\ ~(k - 1 < p) /\ (k - 1) + 1 = k
        BY <1>8, <1>9, <3>2
      <4> QED BY <1>12, <4>1
    <3> QED BY <1>8, <1>9, <3>1, <3>2
  <2>3. Members \ {arg} \subseteq Members'
    <3> SUFFICES ASSUME NEW m \in Members \ {arg} PROVE m \in Members'
      OBVIOUS
    <3>1. PICK k \in 1 .. N : m = sock[chain[k]]
      BY <1>8 DEF Members
    <3>2. k # p
      BY <1>9, <3>1
    <3>3. PICK j \in 1 .. N - 1 : chain'[j] = chain[k]
      BY <2>2, <3>2
    <3> QED BY <1>5, <1>12, <3>1, <3>3 DEF Members
  <2>4. Members' \subseteq Members \ {arg}
    BY <1>5, <1>12, <2>1 DEF Members
  <2> QED BY <2>1, <2>3, <2>4
<1>17. MemberInv'
  <2>1. Members = Fds \cup {arg} /\ arg \notin Fds /\ Fds' = Fds
    BY <1>1, <1>6 DEF MemberInv, Fds
  <2>2. \A j, k \in 1 .. N - 1 : sock[chain'[j]] = sock[chain'[k]] => j = k
    <3> SUFFICES ASSUME NEW j \in 1 .. N - 1, NEW k \in 1 .. N - 1,
                        sock[chain'[j]] = sock[chain'[k]]
                 PROVE  j = k
      OBVIOUS
    <3> DEFINE at0(l) == IF l < p THEN l ELSE l + 1
    <3>1. /\ at0(j) \in 1 .. N /\ at0(k) \in 1 .. N
          /\ chain'[j] = chain[at0(j)] /\ chain'[k] = chain[at0(k)]
      BY <1>12, <1>13
    <3>2. at0(j) = at0(k)
      BY <1>8, <3>1
    <3> QED BY <1>9, <3>2
  <2> QED BY <1>5, <1>12, <1>16, <2>1, <2>2 DEF MemberInv
<1>18. WalkInv'
  <2>1. ReadyInv /\ \A r : IsServed(r)' = IsServed(r)
    BY <1>1 DEF WalkInv, Walking, IsServed
  <2>2. IsServed(arg)
    BY <1>1, <1>9, CurIsMember
  <2>3. ReadyInv'
    BY <1>6, <1>16, <2>1, <2>2 DEF ReadyInv, Ready, Behind, HangsUp
  <2>4. Freed(S) /\ \A n \in S : sock[n] \notin readfds
    BY <1>7 DEF WalkAt
  <2>5. Freed(S)'
    BY <1>5, <1>11, <2>4 DEF Freed
  <2>6. next'[cur] = next[cur] /\ next[tail] \in S \cup {NULL}
    BY <1>7, <1>8, <1>9, <1>11 DEF WalkAt
  <2>7. p \in 1 .. N - 1 => next'[tail'] \in S \cup {NULL}
    BY <1>8, <1>11, <2>6
  <2>8. Place(S, p, cur)'
    <3>1. CASE p = N
      <4>1. p \notin 1 .. N - 1 /\ next[cur] = next[tail]
        BY <1>8, <1>9, <3>1
      <4> QED BY <1>12, <2>6, <4>1 DEF Place
    <3>2. CASE p # N
      <4>1. p \in 1 .. N - 1 /\ chain'[p] = chain[p + 1]
        BY <1>8, <1>9, <1>12, <3>2
      <4> QED BY <1>8, <1>9, <1>12, <2>6, <4>1 DEF Place
    <3> QED BY <3>1, <3>2
  <2>9. /\ \A j \in 1 .. N : IsServed(sock[chain[j]]) => ~(j > p)
        /\ \A j \in 1 .. N : j < p /\ sock[chain[j]] \in readfds
              => IsServed(sock[chain[j]])
    BY <1>7, <1>8, <1>9 DEF WalkAt, Passed
  <2>10. \A j \in 1 .. N - 1 : Passed(j, p)' = (j < p)
    BY DEF Passed
  <2>11. \A j \in 1 .. N - 1 :
           /\ IsServed(sock[chain'[j]]) => j < p
           /\ j < p /\ sock[chain'[j]] \in readfds
                => IsServed(sock[chain'[j]])
    <3> SUFFICES ASSUME NEW j \in 1 .. N - 1
                 PROVE  /\ IsServed(sock[chain'[j]]) => j < p
                        /\ j < p /\ sock[chain'[j]] \in readfds
                             => IsServed(sock[chain'[j]])
      OBVIOUS
    <3>1. CASE j < p
      BY <1>12, <1>13, <2>9, <3>1
    <3>2. CASE ~(j < p)
      <4>1. chain'[j] = chain[j + 1] /\ j + 1 \in 1 .. N /\ j + 1 > p
        BY <1>12, <1>13, <3>2
      <4> QED BY <2>9, <3>2, <4>1
    <3> QED BY <3>1, <3>2
  <2>12. WalkAt(S, p)'
    BY <1>5, <1>6, <1>12, <2>1, <2>4, <2>5, <2>7, <2>8, <2>10, <2>11
       DEF WalkAt
  <2>13. p \in (1 .. N + 1)'
    BY <1>8, <1>9, <1>12
  <2> QED BY <2>3, <2>12, <2>13 DEF WalkInv, Walking
<1>19. CallInv'
  <2>1. PICK D \in SUBSET Nodes : AfterTail(D)
    BY <1>1 DEF CallInv
  <2>2. PICK E \in SUBSET Nodes : E = D \cup {current}
    <3>1. D \cup {current} \in SUBSET Nodes
      BY <1>8, <1>9, <1>10
    <3> QED BY <3>1
  <2>3. current' = current
    BY DEF List!Remove, List!localVars
  <2>4. Lists!BehindTail(D)
    BY <2>1 DEF AfterTail, Freed, Lists!BehindTail
  <2>5. Lists!BehindTail(D)' \/ Lists!BehindTail(E)'
    <3>1. Lists!BehindTail(D)' \/ Lists!BehindTail(D \cup {current})'
      BY <1>11, <2>4
    <3> QED BY <2>2, <2>3, <3>1 DEF Lists!BehindTail
  <2>6. arg \notin mask
    BY <1>1, <1>9, SockFacts DEF NetInv, MemberInv
  <2>7. \A n \in E : sock'[n] \notin mask'
    BY <1>5, <1>6, <2>1, <2>2, <2>6 DEF AfterTail
  <2>8. AfterTail(D)' \/ AfterTail(E)'
    BY <2>2, <2>5, <2>7 DEF AfterTail, Freed, Lists!BehindTail
  <2> QED BY <2>8 DEF CallInv
<1> QED BY <1>4, <1>14, <1>15, <1>17, <1>18, <1>19 DEF IInv, RunInv

LEMMA DeleteFromListInv ==
  ASSUME IInv, DeleteFromList
  PROVE  IInv'
<1>1. /\ RunInv /\ TypeOK /\ at = "delete"
      /\ UNCHANGED <<named, netVars, clientVars, selectVars, served>>
  BY DEF IInv, DeleteFromList
<1>2. CASE List!SearchOn /\ UNCHANGED <<at, cur, stack>>
  BY <1>1, <1>2, SearchOnKeeps
<1>3. CASE List!NotFound
  <2>1. PICK i \in 1 .. N : Lists!Found(i)
    BY <1>1, DeleteFinds
  <2>2. current # NULL
    BY <1>1, <2>1, ListFacts DEF RunInv, Lists!Found
  <2> QED BY <1>3, <2>2 DEF List!NotFound
<1>4. CASE List!Remove /\ Return
  <2>1. Len(stack) = 1 /\ stack \in Seq(Frame)
    BY <1>1 DEF RunInv, CallInv, TypeOK
  <2>2. Tail(stack) = <<>>
    BY <2>1, OneCallIsAll
  <2>3. at' = "walk" /\ cur' = next'[cur] /\ stack' = <<>>
    BY <1>4, <2>2 DEF Return
  <2> QED BY <1>1, <1>4, <2>3, RemoveKeeps
<1>5. CASE List!FreeTwice /\ at' = "stopped" /\ UNCHANGED <<cur, stack>>
  <2>1. Lists!IInv'
    <3>1. Lists!FreeTwice
      BY <1>5, SameList
    <3> QED BY <1>1, <3>1, ListConstants, Lists!FreeTwiceInv DEF RunInv
  <2>2. live' = live
    BY <1>5 DEF List!FreeTwice, List!heapVars
  <2>3. TypeOK'
    BY <1>1, <1>5, <2>1, <2>2, ListTypeHolds
       DEF TypeOK, netVars, clientVars, selectVars
  <2> QED BY <1>5, <2>3 DEF IInv
<1> QED BY <1>2, <1>3, <1>4, <1>5 DEF DeleteFromList

-----------------------------------------------------------------------------
(***************************************************************************)
(* The theorems                                                            *)
(***************************************************************************)
LEMMA InitInv ==
  ASSUME Init
  PROVE  IInv
<1>1. /\ chain = <<>> /\ live = {} /\ tail = NULL /\ pc = "idle" /\ head = NULL
      /\ at = "select" /\ served = <<>> /\ stack = <<>> /\ cur = NULL
      /\ backlog = <<Own>>
      /\ fd = [c \in Clients |-> NULL]
      /\ conn = [c \in Clients |-> IF c = Own THEN "up" ELSE "new"]
      /\ mask = {KEYBOARD, UDP, TCP, OWN} /\ Max_sd = OWN /\ readfds = {}
  BY DEF Init, List!Init
<1>2. Lists!IInv
  BY ListConstants, SameList, Lists!InitInv DEF Init
<1>3. TypeOK
  <2>1. List!TypeOK
    BY <1>2, SameList DEF Lists!IInv
  <2>2. Own \in Clients /\ Cardinality(Clients) \in Nat
    BY IdobataAssumption, SockFacts
  <2>3. inbox \in [Clients -> Seq(Packet)]
    <3>1. <<[type |-> "JOIN", no |-> 1]>> \in Seq(Packet)
      BY DEF Packet
    <3> QED BY <3>1 DEF Init
  <2>4. /\ named \in [Nodes -> BOOLEAN \cup {GARBAGE}]
        /\ said \in [Clients -> Nat] /\ heard = {} /\ unread = FALSE
    BY DEF Init
  <2>5. Max_sd \in OWN .. OWN + Cardinality(Clients)
    BY <1>1, <2>2 DEF OWN
  <2>6. conn \in [Clients -> ConnState]
    BY <1>1 DEF ConnState
  <2>7. /\ backlog \in Seq(Clients) /\ served \in Seq(Socks)
        /\ stack \in Seq(Frame)
    BY <1>1, <2>2
  <2>8. fd \in [Clients -> Socks \cup {NULL}]
    BY <1>1
  <2> QED BY <1>1, <2>1, <2>3, <2>4, <2>5, <2>6, <2>7, <2>8 DEF TypeOK
<1>4. NetInv
  <2>1. Fds = {}
    BY <1>1 DEF Fds
  <2>2. \A s \in mask : s <= Max_sd
    BY <1>1 DEF KEYBOARD, UDP, TCP, OWN
  <2>3. Own \in Clients /\ DOMAIN backlog = {1} /\ backlog[1] = Own
    BY <1>1, IdobataAssumption
  <2> QED BY <1>1, <2>1, <2>2, <2>3 DEF NetInv, IsOpen, OpenStates
<1>5. MemberInv
  BY <1>1 DEF MemberInv, Members, Fds
<1>6. WalkInv
  BY <1>1 DEF WalkInv, Walking
<1>7. CallInv
  <2>1. AfterTail({})
    BY <1>1 DEF AfterTail, Freed
  <2> QED BY <1>1, <2>1 DEF CallInv
<1> QED BY <1>2, <1>3, <1>4, <1>5, <1>6, <1>7 DEF IInv, RunInv

LEMMA StutterInv ==
  ASSUME IInv, UNCHANGED vars
  PROVE  IInv'
<1>1. /\ TypeOK
      /\ UNCHANGED <<listVars, named, netVars, clientVars, selectVars, walkVars>>
  BY DEF IInv, vars
<1>2. UNCHANGED <<backlog, conn, inbox, fd, mask, readfds, Max_sd>>
      /\ UNCHANGED <<at, cur, served, stack>>
  BY <1>1 DEF netVars, selectVars, walkVars
<1>3. TypeOK'
  <2>1. List!TypeOK'
    BY <1>1, ListTypeStays
  <2> QED BY <1>1, <1>2, <2>1 DEF TypeOK, listVars, clientVars
<1>4. RunInv => RunInv'
  <2> SUFFICES ASSUME RunInv PROVE RunInv'
    OBVIOUS
  <2>1. NetInv'
    BY <1>1, <1>2, NetStays DEF RunInv, TypeOK, IsOpen
  <2>2. Onward /\ InboxKept
    BY <1>2 DEF Onward, InboxKept
  <2> QED BY <1>1, <1>2, <2>1, <2>2, RestStays DEF RunInv
<1> QED BY <1>2, <1>3, <1>4 DEF IInv

LEMMA NextInv ==
  ASSUME IInv, [Next]_vars
  PROVE  IInv'
<1>1. CASE Select
  BY <1>1, SelectInv DEF Select
<1>2. CASE SendFromKeyboard \/ RecvUdpPacket \/ Accept \/ OwnRecv
  BY <1>2, SendFromKeyboardInv, RecvUdpPacketInv, AcceptInv, OwnRecvInv
<1>3. CASE EndWalk \/ Skip \/ CallRecv \/ RecvData \/ RecvNothing \/ RecvFails
  BY <1>3, EndWalkInv, SkipInv, CallRecvInv, RecvDataInv, RecvNothingInv,
     RecvFailsInv
<1>4. CASE SkipSender \/ SendMessage \/ SendToBroken \/ EndTransfer
  BY <1>4, SkipSenderInv, SendMessageInv, SendToBrokenInv, EndTransferInv
<1>5. CASE CloseConnection \/ DeleteFromList
  BY <1>5, CloseConnectionInv, DeleteFromListInv
<1>6. CASE Environment
  <2>1. CASE \E c \in Clients : Connect(c) \/ Say(c) \/ Leave(c)
    BY <1>6, <2>1, ConnectInv, SayInv, LeaveInv DEF Environment
  <2>2. CASE SelectTyped
    BY <2>2, SelectInv DEF SelectTyped
  <2>3. CASE SelectHelo
    BY <2>3, SelectInv DEF SelectHelo
  <2> QED BY <1>6, <2>1, <2>2, <2>3 DEF Environment
<1>7. CASE UNCHANGED vars
  BY <1>7, StutterInv
<1> QED BY <1>1, <1>2, <1>3, <1>4, <1>5, <1>6, <1>7 DEF Next, Server

LEMMA Invariance == Spec => []IInv
<1>1. Init => IInv
  BY InitInv
<1>2. IInv /\ [Next]_vars => IInv'
  BY NextInv
<1> QED BY <1>1, <1>2, PTL DEF Spec

\* What the variables hold, and that a member always has a name or the empty
\* one (register_username, add_user_to_list).
THEOREM TypeCorrect == Spec => []TypeOK
<1>1. IInv => TypeOK
  BY DEF IInv
<1> QED BY <1>1, Invariance, PTL

\* Between two rounds the list, what select watches and the open connections
\* agree, however many deletions a broadcast began (delete_user).
THEOREM ListMaskAndConnectionsAgree == Spec => []MembersAreConnections
<1>1. IInv => MembersAreConnections
  <2> SUFFICES ASSUME IInv, at = "select"
               PROVE  /\ mask \cap Socks = Members
                      /\ {fd[c] : c \in Clients} \ {NULL} = Members
                      /\ \A s \in mask : s <= Max_sd
                      /\ \A n \in live : \E i \in DOMAIN chain : n = chain[i]
    BY DEF MembersAreConnections
  <2>1. RunInv /\ Members = Fds
    BY DEF IInv, RunInv, MemberInv
  <2>2. Members \subseteq Socks
    BY <2>1, ListFacts DEF RunInv, Members
  <2>3. mask \cap Socks = Members
    BY <2>1, <2>2, NoneStale
  <2>4. \A n \in live : \E i \in DOMAIN chain : n = chain[i]
    BY <2>1 DEF RunInv, Lists!IInv, Lists!ListHoldsMembers
  <2> QED BY <2>1, <2>3, <2>4 DEF RunInv, NetInv, Fds
<1> QED BY <1>1, Invariance, PTL

\* A post that has been transferred was sent once to every other member who
\* is still there, and never to its author (transfer_message), though
\* members may be found broken and deleted in the middle of it.
THEOREM PostIsTransferred == Spec => []PostReachesTheOthers
<1>1. IInv => PostReachesTheOthers
  <2> SUFFICES ASSUME IInv, at = "send", Top.node = NULL, Top.text # NULL,
                      NEW c \in Clients, fd[c] \in Members, conn[c] = "up"
               PROVE  Cardinality(Times(Top.to, c)) =
                        IF c = Top.text.by THEN 0 ELSE 1
    BY DEF PostReachesTheOthers, Times
  <2>1. RunInv /\ TypeOK
    BY DEF IInv
  <2>2. SentTo(Top.to, Top.text.by, N + 1)
    BY <2>1, InnerCallsGoOn DEF SentUpTo
  <2>3. PICK j \in 1 .. N : fd[c] = sock[chain[j]]
    BY <2>1, ListFacts DEF RunInv, Members
  <2>4. j < N + 1
    BY <2>1, CallFacts
  <2>5. IF c # Top.text.by
        THEN \E i \in DOMAIN Top.to : Times(Top.to, c) = {i}
        ELSE Times(Top.to, c) = {}
    BY <2>2, <2>3, <2>4 DEF SentTo
  <2>6. c = Top.text.by => Cardinality(Times(Top.to, c)) = 0
    BY <2>5, FS_EmptySet
  <2>7. c # Top.text.by => Cardinality(Times(Top.to, c)) = 1
    BY <2>5, FS_Singleton
  <2> QED BY <2>6, <2>7
<1> QED BY <1>1, Invariance, PTL

\* recv is called for a member on the list who has something to read and was
\* not served in this walk, also behind nodes that were freed
\* (recv_msg_from_client).
THEOREM NoEarlyRecv == Spec => RecvOnlyFromReadyMembers
<1> DEFINE Reads ==
      served' # served /\ served' # <<>> =>
        \E s \in Members :
          /\ served' = Append(served, s) /\ Readable(s)
          /\ \A i \in DOMAIN served : served[i] # s
<1>1. IInv /\ [Next]_vars => [Reads]_vars
  <2> SUFFICES ASSUME IInv, Next, served' # served, served' # <<>>
               PROVE  \E s \in Members :
                        /\ served' = Append(served, s) /\ Readable(s)
                        /\ \A i \in DOMAIN served : served[i] # s
    BY DEF vars, walkVars
  <2>1. CallRecv
    BY DEF Next, Server, Environment, Select, SelectTyped, SelectHelo,
           SelectWith, SendFromKeyboard, RecvUdpPacket, Accept, OwnRecv,
           EndWalk, Skip, RecvData, RecvNothing, RecvFails, SkipSender,
           SendMessage, SendToBroken, EndTransfer, CloseConnection,
           DeleteFromList, Connect, Say, Leave, walkVars
  <2>2. /\ RunInv /\ at = "walk" /\ cur # NULL /\ sock[cur] \in readfds
        /\ served' = Append(served, sock[cur])
    BY <2>1 DEF CallRecv, IsReady, IInv
  <2>3. Lists!IInv /\ ReadyInv /\ N \in Nat
    BY <2>2, ListFacts DEF RunInv, WalkInv, Walking
  <2>4. PICK S \in SUBSET Nodes, p \in 1 .. N + 1 : WalkAt(S, p)
    BY <2>2 DEF RunInv, WalkInv, Walking
  <2>5. p \in 1 .. N /\ cur = chain[p] /\ sock[cur] \in Socks
    BY <2>2, <2>3, <2>4, ListFacts DEF WalkAt, Place
  <2>6. ~IsServed(sock[cur])
    BY <2>2, <2>4, <2>5 DEF WalkAt, Passed
  <2>7. sock[cur] \in Members /\ Ready(sock[cur])
    BY <2>2, <2>3, <2>5, <2>6 DEF ReadyInv
  <2>8. Readable(sock[cur])
    BY <2>5, <2>7, SockFacts DEF Readable, Ready
  <2> QED BY <2>2, <2>6, <2>7, <2>8 DEF IsServed
<1> QED BY <1>1, Invariance, PTL DEF Spec, RecvOnlyFromReadyMembers

\* When a walk is over every member whom select reported was served, whoever
\* was registered, relayed or deleted on the way (recv_msg_from_client).
THEOREM NobodyIsMissed == Spec => WalkMissesNobody
<1> DEFINE Served ==
      at' = "select" /\ at \in {"walk", "recv", "send", "delete"} =>
        \A s \in readfds \cap Members : \E i \in DOMAIN served : served[i] = s
<1>1. IInv /\ [Next]_vars => [Served]_vars
  <2> SUFFICES ASSUME IInv, Next, at' = "select", Walking,
                      NEW s \in readfds \cap Members
               PROVE  IsServed(s)
    BY DEF Walking, IsServed
  <2>1. EndWalk
    BY DEF Next, Server, Environment, Select, SelectTyped, SelectHelo,
           SelectWith, SendFromKeyboard, RecvUdpPacket, Accept, OwnRecv,
           Skip, CallRecv, RecvData, Handle, Transfer, DeleteUser, WalkOn,
           RecvNothing, RecvFails, SkipSender, SendMessage, SendToBroken,
           EndTransfer, Return, CloseConnection, DeleteFromList, Connect, Say,
           Leave, walkVars, Walking
  <2>2. RunInv /\ at = "walk" /\ cur = NULL
    BY <2>1 DEF EndWalk, IInv
  <2>3. Lists!IInv /\ N \in Nat
    BY <2>2, ListFacts DEF RunInv
  <2>4. PICK S \in SUBSET Nodes, p \in 1 .. N + 1 : WalkAt(S, p)
    BY <2>2 DEF RunInv, WalkInv, Walking
  <2>5. p = N + 1
    BY <2>2, <2>3, <2>4, ListFacts DEF WalkAt, Place
  <2>6. PICK j \in 1 .. N : s = sock[chain[j]]
    BY <2>3, ListFacts DEF Members
  <2>7. Passed(j, p)
    BY <2>3, <2>5 DEF Passed
  <2> QED BY <2>4, <2>6, <2>7 DEF WalkAt
<1> QED BY <1>1, Invariance, PTL DEF Spec, WalkMissesNobody

-----------------------------------------------------------------------------
(***************************************************************************)
(* The server as a user of the list: it calls each operation only when the *)
(* one before has ended, and with sockets the list expects.                *)
(***************************************************************************)
LEMMA ListSteps ==
  ASSUME IInv, IInv', [Next]_vars
  PROVE  [Lists!Next]_(Lists!vars)
<1>1. CASE UNCHANGED listVars
  BY <1>1 DEF listVars, Lists!vars, Lists!heapVars, Lists!localVars
<1>2. CASE Accept
  <2>1. PICK s \in Socks : Lists!AddUser(s)
    BY <1>2, SameList DEF Accept
  <2> QED BY <2>1 DEF Lists!Next
<1>3. CASE CloseConnection
  <2>1. Lists!BeginDelete(Top.victim) /\ Top.victim # NULL
    BY <1>3, SameList DEF CloseConnection
  <2>2. arg' \in Socks \cup {NULL}
    BY SameList DEF IInv, TypeOK, List!TypeOK
  <2>3. Top.victim \in Socks
    BY <2>1, <2>2 DEF Lists!BeginDelete
  <2> QED BY <2>1, <2>3 DEF Lists!Next
<1>4. CASE DeleteFromList
  BY <1>4, SameList DEF DeleteFromList, Lists!Next
<1> QED
  BY <1>1, <1>2, <1>3, <1>4
     DEF Next, Server, Environment, Select, SelectTyped, SelectHelo,
         SelectWith, SendFromKeyboard, RecvUdpPacket, OwnRecv, EndWalk, Skip,
         CallRecv, RecvData, RecvNothing, RecvFails, SkipSender, SendMessage,
         SendToBroken, EndTransfer, Connect, Say, Leave, vars

\* What the server does with its members is a behaviour of linear_lists.c:
\* no operation begins inside another one, although delete_user is called
\* from transfer_message and calls it (idobata_server.c:218-255).
THEOREM ServerUsesTheList == Spec => Lists!Spec
<1>1. Init => Lists!Init
  BY SameList DEF Init
<1> QED BY <1>1, ListSteps, Invariance, PTL DEF Spec, Lists!Spec

\* So the members of the server are a Membership: whoever is accepted comes
\* last, and a deletion takes away one member and keeps the order.
THEOREM ServerKeepsMembers == Spec => Lists!ImplementsMembership
BY ServerUsesTheList, ListConstants, Lists!ListIsMembership
=============================================================================
