----------------------------- MODULE Quiz_proofs -----------------------------
(***************************************************************************)
(* How far the index into Ranking can run, and that every point of a round *)
(* was earned in it, for any number of clients, lines and rounds.          *)
(***************************************************************************)
EXTENDS Quiz, FiniteSetTheorems, TLAPS

IInv ==
  /\ pc \in {"accept", "name", "question", "select", "scan", "result", "dead"}
  /\ client_id \in Slots
  /\ answered \in Nat
  /\ AnsweredIsBounded

-----------------------------------------------------------------------------
LEMMA InitInv == Init => IInv
BY QuizAssumption DEF Init, IInv, AnsweredIsBounded, Slots

\* The end of the body of the scan for a slot that made answered be n.
LEMMA AfterSlotInv ==
  ASSUME IInv, pc = "scan", answered' \in {answered, answered + 1},
         NextSlot, pc' \in {"dead", AfterSlot(answered')}
  PROVE  IInv'
<1>1. /\ N_client \in Nat /\ client_id \in Nat /\ client_id < N_client
      /\ answered \in Nat /\ answered < N_client + client_id
      /\ answered' \in Nat /\ answered' < N_client + client_id + 1
  BY QuizAssumption DEF IInv, AnsweredIsBounded, Slots
<1>2. CASE client_id + 1 < N_client
  <2>1. client_id' = client_id + 1 /\ pc' \in {"dead", "scan"}
    BY <1>2 DEF NextSlot, AfterSlot
  <2> QED BY <1>1, <1>2, <2>1 DEF IInv, AnsweredIsBounded, Slots
<1>3. CASE ~(client_id + 1 < N_client)
  <2>1. /\ client_id' = 0
        /\ pc' \in {"dead", IF answered' < N_client THEN "select" ELSE "result"}
    BY <1>3 DEF NextSlot, AfterSlot, AfterLast
  <2> QED BY <1>1, <1>3, <2>1 DEF IInv, AnsweredIsBounded, Slots
<1> QED BY <1>2, <1>3

LEMMA NextInv == IInv /\ [Next]_vars => IInv'
<1> SUFFICES ASSUME IInv, [Next]_vars PROVE IInv'
  OBVIOUS
<1> USE QuizAssumption
<1>1. CASE Accept
  <2>1. pc' \in {"name", "dead"} /\ UNCHANGED <<client_id, answered>>
    BY <1>1 DEF Accept, SendTo, answerVars
  <2> QED BY <2>1 DEF IInv, AnsweredIsBounded
<1>2. CASE RecvName
  <2>1. /\ pc' \in {"accept", "question", "dead"} /\ answered' = answered
        /\ client_id' \in Slots
    BY <1>2 DEF RecvName, NameIsRead, answerVars, IInv, Slots
  <2> QED BY <2>1 DEF IInv, AnsweredIsBounded
<1>3. CASE Question
  <2>1. pc' \in {"select", "dead"} /\ client_id' = client_id /\ answered' = 0
    BY <1>3 DEF Question, SendTo
  <2> QED BY <2>1 DEF IInv, AnsweredIsBounded
<1>4. CASE Select
  <2>1. /\ pc = "select" /\ pc' = "scan" /\ client_id' = 0
        /\ answered' = answered
    BY <1>4 DEF Select
  <2> QED BY <2>1 DEF IInv, AnsweredIsBounded, Slots
<1>5. CASE SkipSlot
  <2>1. /\ pc = "scan" /\ pc' = AfterSlot(answered') /\ NextSlot
        /\ answered' = answered
    BY <1>5 DEF SkipSlot, answerVars
  <2> QED BY <2>1, AfterSlotInv
<1>6. CASE RecvAnswer
  <2>1. CASE /\ inbox[peer[client_id]] = <<>> /\ conn[peer[client_id]] = "rst"
    <3>1. pc' = "dead" /\ UNCHANGED <<client_id, answered>>
      BY <1>6, <2>1 DEF RecvAnswer
    <3> QED BY <3>1 DEF IInv, AnsweredIsBounded
  <2>2. CASE ~(/\ inbox[peer[client_id]] = <<>>
               /\ conn[peer[client_id]] = "rst")
    <3>1. /\ pc = "scan" /\ answered' \in {answered, answered + 1}
          /\ SendTo({peer[client_id]}, AfterSlot(answered')) /\ NextSlot
      BY <1>6, <2>2 DEF RecvAnswer
    <3>2. pc' \in {"dead", AfterSlot(answered')}
      BY <3>1 DEF SendTo
    <3> QED BY <3>1, <3>2, AfterSlotInv
  <2> QED BY <2>1, <2>2
<1>7. CASE SendResult
  <2>1. pc' \in {"question", "dead"} /\ UNCHANGED <<client_id, answered>>
    BY <1>7 DEF SendResult, SendTo
  <2> QED BY <2>1 DEF IInv, AnsweredIsBounded
<1>8. CASE \/ \E c \in Clients : Connect(c) \/ SendLine(c) \/ Leave(c)
           \/ UNCHANGED vars
  <2>1. UNCHANGED <<pc, client_id, answered>>
    BY <1>8 DEF Connect, SendLine, Leave, vars, answerVars
  <2> QED BY <2>1 DEF IInv, AnsweredIsBounded
<1> QED BY <1>1, <1>2, <1>3, <1>4, <1>5, <1>6, <1>7, <1>8 DEF Next, Server

\* A round of N_client clients counts at most 2 * N_client - 1 answers.
THEOREM AnsweredIsAlwaysBounded == Spec => []AnsweredIsBounded
<1>1. IInv => AnsweredIsBounded
  BY DEF IInv
<1> QED BY <1>1, InitInv, NextInv, PTL DEF Spec

-----------------------------------------------------------------------------
(***************************************************************************)
(* No point is carried over.  A right answer is a line that was typed and  *)
(* is read only once: the lines of a question that nobody has read yet and *)
(* the points counted for it are together no more than the lines typed.    *)
(***************************************************************************)
Asking == pc \in {"select", "scan", "result"}

\* The answers to question q in the sockets, each by its place.
Unread(q) ==
  {x \in Clients \X Nat :
     x[2] \in 1 .. Len(inbox[x[1]]) /\ inbox[x[1]][x[2]].q = q}

\* The slots behind which there is a client.
LoggedIn ==
  {i \in Slots : /\ pc = "accept" => i < client_id
                 /\ pc = "name"   => i <= client_id}

EarnTypes ==
  /\ inbox \in [Clients -> Seq(Line)]
  /\ backlog \in Seq(Clients)
  /\ right \in [Questions -> Nat]
  /\ peer \in [Slots -> Clients \cup {NOBODY}]
  /\ pc # "dead" => \A i \in LoggedIn : peer[i] \in Clients
  /\ round \in 0 .. MaxRounds
  /\ Asking => round # 0

Points(q) == IF Asking /\ q = round THEN answered ELSE 0

EveryPointIsALine ==
  \A q \in Questions :
    IsFiniteSet(Unread(q)) /\ Cardinality(Unread(q)) + Points(q) <= right[q]

EarnInv == IInv /\ EarnTypes /\ EveryPointIsALine

LEMMA InitEarnInv == Init => EarnInv
<1> SUFFICES ASSUME Init PROVE EarnInv
  OBVIOUS
<1>1. EarnTypes
  BY QuizAssumption DEF Init, EarnTypes, LoggedIn, Slots, Asking, Questions
<1>2. \A q \in Questions : Unread(q) = {} /\ Points(q) = 0 /\ right[q] = 0
  BY DEF Init, Unread, Points, Asking
<1>3. EveryPointIsALine
  BY <1>2, FS_EmptySet DEF EveryPointIsALine
<1> QED BY <1>1, <1>3, InitInv DEF EarnInv

\* Nothing is read: the points are the same or the count begins anew.
LEMMA NothingReadEarns ==
  ASSUME EarnInv, inbox' = inbox, right' = right,
         \A q \in Questions : Points(q)' <= Points(q) /\ Points(q)' \in Nat
  PROVE  EveryPointIsALine'
<1> SUFFICES ASSUME NEW q \in Questions
             PROVE  /\ IsFiniteSet(Unread(q)')
                    /\ Cardinality(Unread(q)') + Points(q)' <= right'[q]
  BY DEF EveryPointIsALine
<1>1. Unread(q)' = Unread(q)
  BY DEF Unread
<1>2. /\ IsFiniteSet(Unread(q)) /\ Cardinality(Unread(q)) \in Nat
      /\ Cardinality(Unread(q)) + Points(q) <= right[q]
      /\ right[q] \in Nat /\ Points(q) \in Nat
  BY FS_CardinalityType
     DEF EarnInv, EveryPointIsALine, EarnTypes, IInv, Points
<1> QED BY <1>1, <1>2

\* The lines of one client are read: a point costs the first of them.
LEMMA ReadingEarns ==
  ASSUME EarnInv, NEW c \in Clients,
         inbox' = [inbox EXCEPT ![c] = <<>>], right' = right,
         \A q \in Questions :
           /\ Points(q)' \in Nat
           /\ \/ Points(q)' <= Points(q)
              \/ /\ inbox[c] # <<>> /\ inbox[c][1].q = q
                 /\ Points(q)' <= Points(q) + 1
  PROVE  EveryPointIsALine'
<1> SUFFICES ASSUME NEW q \in Questions
             PROVE  /\ IsFiniteSet(Unread(q)')
                    /\ Cardinality(Unread(q)') + Points(q)' <= right'[q]
  BY DEF EveryPointIsALine
<1>1. /\ IsFiniteSet(Unread(q)) /\ Cardinality(Unread(q)) \in Nat
      /\ Cardinality(Unread(q)) + Points(q) <= right[q]
      /\ right[q] \in Nat /\ Points(q) \in Nat
  BY FS_CardinalityType
     DEF EarnInv, EveryPointIsALine, EarnTypes, IInv, Points
<1>2. Unread(q)' \subseteq Unread(q) \ {<<c, 1>>}
  BY DEF Unread, EarnInv, EarnTypes
<1>3. CASE Points(q)' <= Points(q)
  <2>1. /\ IsFiniteSet(Unread(q)') /\ Cardinality(Unread(q)') \in Nat
        /\ Cardinality(Unread(q)') <= Cardinality(Unread(q))
    BY <1>1, <1>2, FS_Subset, FS_CardinalityType
  <2> QED BY <1>1, <1>3, <2>1
<1>4. CASE /\ inbox[c] # <<>> /\ inbox[c][1].q = q
           /\ Points(q)' <= Points(q) + 1
  <2>1. inbox[c] \in Seq(Line) /\ 1 \in 1 .. Len(inbox[c])
    BY <1>4 DEF EarnInv, EarnTypes
  <2>2. <<c, 1>> \in Unread(q)
    BY <1>4, <2>1 DEF Unread
  <2>3. /\ IsFiniteSet(Unread(q) \ {<<c, 1>>})
        /\ Cardinality(Unread(q) \ {<<c, 1>>}) = Cardinality(Unread(q)) - 1
    BY <1>1, <2>2, FS_RemoveElement
  <2>4. /\ IsFiniteSet(Unread(q)') /\ Cardinality(Unread(q)') \in Nat
        /\ Cardinality(Unread(q)') <= Cardinality(Unread(q)) - 1
    BY <1>2, <2>3, FS_Subset, FS_CardinalityType
  <2> QED BY <1>1, <1>4, <2>4
<1> QED BY <1>3, <1>4

\* A line is typed.
LEMMA SendLineEarns ==
  ASSUME EarnInv, NEW c \in Clients, SendLine(c)
  PROVE  EarnInv'
<1>1. PICK l \in Line :
        /\ right' = [q \in Questions |-> right[q] + (IF l.q = q THEN 1 ELSE 0)]
        /\ inbox' = [inbox EXCEPT ![c] = Append(@, l)]
  BY DEF SendLine
<1>2. UNCHANGED <<backlog, pc, client_id, peer, round, answered>>
  BY DEF SendLine, loginVars, answerVars
<1>3. EarnTypes'
  <2>1. right' \in [Questions -> Nat] /\ inbox' \in [Clients -> Seq(Line)]
    BY <1>1 DEF EarnInv, EarnTypes
  <2> QED BY <1>2, <2>1 DEF EarnInv, EarnTypes, LoggedIn, Asking
<1>4. IInv'
  BY <1>2 DEF EarnInv, IInv, AnsweredIsBounded
<1>5. ASSUME NEW q \in Questions
      PROVE  /\ IsFiniteSet(Unread(q)')
             /\ Cardinality(Unread(q)') + Points(q)' <= right'[q]
  <2> DEFINE x == <<c, Len(inbox[c]) + 1>>
  <2>1. /\ IsFiniteSet(Unread(q)) /\ Cardinality(Unread(q)) \in Nat
        /\ Cardinality(Unread(q)) + Points(q) <= right[q]
        /\ right[q] \in Nat /\ Points(q) \in Nat
    BY FS_CardinalityType
       DEF EarnInv, EveryPointIsALine, EarnTypes, IInv, Points
  <2>2. Points(q)' = Points(q)
    BY <1>2 DEF Points, Asking
  <2>3. /\ inbox[c] \in Seq(Line) /\ Len(inbox[c]) \in Nat
        /\ inbox'[c] = Append(inbox[c], l)
        /\ \A d \in Clients : d # c => inbox'[d] = inbox[d]
    BY <1>1 DEF EarnInv, EarnTypes
  <2>4. /\ Len(inbox'[c]) = Len(inbox[c]) + 1
        /\ inbox'[c][Len(inbox[c]) + 1] = l
        /\ \A i \in 1 .. Len(inbox[c]) : inbox'[c][i] = inbox[c][i]
    BY <2>3
  <2>a. ASSUME NEW d \in Clients, NEW i \in Nat
        PROVE  <<d, i>> \in Unread(q)'
                 <=> <<d, i>> \in Unread(q) \/ (<<d, i>> = x /\ l.q = q)
    <3>1. <<d, i>> \in Unread(q)
            <=> i \in 1 .. Len(inbox[d]) /\ inbox[d][i].q = q
      BY DEF Unread
    <3>2. <<d, i>> \in Unread(q)'
            <=> i \in 1 .. Len(inbox'[d]) /\ inbox'[d][i].q = q
      BY DEF Unread
    <3>3. <<d, i>> = x <=> d = c /\ i = Len(inbox[c]) + 1
      OBVIOUS
    <3> HIDE DEF Unread, x
    <3>4. CASE d # c
      BY <2>3, <3>1, <3>2, <3>3, <3>4
    <3>5. CASE d = c /\ i = Len(inbox[c]) + 1
      <4>1. i \in 1 .. Len(inbox'[d]) /\ inbox'[d][i] = l
            /\ ~(i \in 1 .. Len(inbox[d]))
        BY <2>3, <2>4, <3>5
      <4> QED BY <3>1, <3>2, <3>3, <3>5, <4>1
    <3>6. CASE d = c /\ i # Len(inbox[c]) + 1
      <4>1. i \in 1 .. Len(inbox'[d]) <=> i \in 1 .. Len(inbox[d])
        BY <2>3, <2>4, <3>6
      <4>2. i \in 1 .. Len(inbox[d]) => inbox'[d][i] = inbox[d][i]
        BY <2>4, <3>6
      <4> QED BY <3>1, <3>2, <3>3, <3>6, <4>1, <4>2
    <3> QED BY <3>4, <3>5, <3>6
  <2>b. /\ Unread(q) \subseteq Clients \X Nat
        /\ Unread(q)' \subseteq Clients \X Nat
        /\ x \in Clients \X Nat
    BY <2>3 DEF Unread
  <2>c. \A y \in Clients \X Nat :
          y \in Unread(q)' <=> y \in Unread(q) \/ (y = x /\ l.q = q)
    <3> HIDE DEF x
    <3> SUFFICES ASSUME NEW d \in Clients, NEW i \in Nat
                 PROVE  <<d, i>> \in Unread(q)'
                          <=> <<d, i>> \in Unread(q) \/ (<<d, i>> = x /\ l.q = q)
      OBVIOUS
    <3> QED BY <2>a
  <2>5. CASE l.q = q
    <3>1. Unread(q)' = Unread(q) \cup {x}
      <4> HIDE DEF x
      <4> QED BY <2>b, <2>c, <2>5
    <3>2. x \notin Unread(q)
      BY <2>3 DEF Unread
    <3>3. /\ IsFiniteSet(Unread(q)')
          /\ Cardinality(Unread(q)') = Cardinality(Unread(q)) + 1
      <4> HIDE DEF x
      <4>1. /\ IsFiniteSet(Unread(q) \cup {x})
            /\ Cardinality(Unread(q) \cup {x}) = Cardinality(Unread(q)) + 1
        BY <2>1, <3>2, FS_AddElement
      <4> QED BY <3>1, <4>1
    <3>4. right'[q] = right[q] + 1
      BY <1>1, <2>5
    <3> QED BY <2>1, <2>2, <3>3, <3>4
  <2>6. CASE l.q # q
    <3>1. Unread(q)' = Unread(q)
      <4> HIDE DEF x
      <4> QED BY <2>b, <2>c, <2>6
    <3>2. right'[q] = right[q]
      BY <1>1, <2>1, <2>6
    <3> QED BY <2>1, <2>2, <3>1, <3>2
  <2> QED BY <2>5, <2>6
<1> QED BY <1>3, <1>4, <1>5 DEF EarnInv, EveryPointIsALine

\* The server's steps keep the types, and know the client they serve.
LEMMA EarnTypesKept ==
  ASSUME EarnInv, Next, ~\E c \in Clients : SendLine(c)
  PROVE  EarnTypes' /\ right' = right
<1> USE QuizAssumption
<1>a. inbox \in [Clients -> Seq(Line)]
  BY DEF EarnInv, EarnTypes
<1>b. backlog \in Seq(Clients)
  BY DEF EarnInv, EarnTypes
<1>0. /\ right \in [Questions -> Nat] /\ round \in 0 .. MaxRounds
      /\ peer \in [Slots -> Clients \cup {NOBODY}]
      /\ pc # "dead" => \A i \in LoggedIn : peer[i] \in Clients
      /\ Asking => round # 0
      /\ client_id \in Slots
  BY DEF EarnInv, EarnTypes, IInv
<1>1. CASE Accept
  <2>1. /\ pc = "accept" /\ backlog # <<>> /\ backlog' = Tail(backlog)
        /\ peer' = [peer EXCEPT ![client_id] = Head(backlog)]
        /\ UNCHANGED <<inbox, right, client_id, round>>
    BY <1>1 DEF Accept, typedVars, answerVars
  <2>2. pc' \in {"name", "dead"}
    BY <1>1 DEF Accept, SendTo
  <2>3. Head(backlog) \in Clients /\ backlog' \in Seq(Clients)
    BY <1>b, <2>1
  <2>4. pc' # "dead" =>
          \A i \in LoggedIn' : i = client_id \/ i \in LoggedIn
    BY <1>0, <2>1, <2>2 DEF LoggedIn, Slots
  <2>5. LoggedIn' \subseteq Slots
    BY DEF LoggedIn
  <2> QED BY <1>a, <1>0, <2>1, <2>2, <2>3, <2>4, <2>5 DEF EarnTypes, Asking
<1>2. CASE RecvName
  <2>1. pc = "name" /\ UNCHANGED <<peer, right, round>>
    BY <1>2 DEF RecvName, typedVars, answerVars
  <2>2. \/ pc' = "accept" /\ client_id' = client_id + 1
        \/ pc' = "question" /\ ~(client_id + 1 < N_client)
        \/ pc' = "dead"
    BY <1>2 DEF RecvName, NameIsRead
  <2>3. pc' # "dead" => \A i \in LoggedIn' : i \in LoggedIn
    <3>1. client_id \in Int /\ N_client \in Int
      BY <1>0 DEF Slots
    <3>2. \A i \in Slots : i \in Int /\ i < N_client
      BY DEF Slots
    <3>3. CASE pc' = "accept" /\ client_id' = client_id + 1
      BY <2>1, <3>1, <3>2, <3>3 DEF LoggedIn
    <3>4. CASE pc' = "question" /\ ~(client_id + 1 < N_client)
      BY <2>1, <3>1, <3>2, <3>4 DEF LoggedIn
    <3> QED BY <2>2, <3>3, <3>4
  <2>4. backlog' = backlog \/ backlog' = <<>>
    BY <1>2 DEF RecvName, NameIsRead
  <2>5. \/ inbox' = inbox
        \/ inbox' = [inbox EXCEPT ![peer[client_id]] = <<>>]
    BY <1>2 DEF RecvName, NameIsRead
  <2>6. backlog' \in Seq(Clients)
    <3>1. <<>> \in Seq(Clients)
      OBVIOUS
    <3> QED BY <1>b, <2>4, <3>1
  <2>7. inbox' \in [Clients -> Seq(Line)]
    <3>1. <<>> \in Seq(Line)
      OBVIOUS
    <3> QED BY <1>a, <2>5, <3>1
  <2> QED BY <1>0, <2>1, <2>2, <2>3, <2>6, <2>7 DEF EarnTypes, Asking
<1>3. CASE Question
  <2>1. /\ pc = "question" /\ pc' \in {"select", "dead"} /\ round' = round + 1
        /\ round < MaxRounds
        /\ UNCHANGED <<inbox, backlog, right, peer, client_id>>
    BY <1>3 DEF Question, SendTo, typedVars, loginVars
  <2> QED BY <1>a, <1>b, <1>0, <2>1 DEF EarnTypes, LoggedIn, Asking
<1>4. CASE Select \/ SkipSlot
  <2>1. /\ pc \in {"select", "scan"} /\ pc' \in {"scan", "select", "result"}
        /\ UNCHANGED <<inbox, backlog, right, peer, round>>
    BY <1>4 DEF Select, SkipSlot, AfterSlot, AfterLast, netVars, typedVars,
                loginVars, answerVars
  <2> QED BY <1>a, <1>b, <1>0, <2>1 DEF EarnTypes, LoggedIn, Asking
<1>5. CASE RecvAnswer
  <2>1. /\ pc = "scan" /\ pc' \in {"scan", "select", "result", "dead"}
    BY <1>5 DEF RecvAnswer, SendTo, AfterSlot, AfterLast
  <2>2. UNCHANGED <<backlog, right, peer, round>>
    BY <1>5 DEF RecvAnswer, typedVars, loginVars
  <2>3. inbox' = [inbox EXCEPT ![peer[client_id]] = <<>>]
    BY <1>5 DEF RecvAnswer
  <2> QED BY <1>a, <1>b, <1>0, <2>1, <2>2, <2>3 DEF EarnTypes, LoggedIn, Asking
<1>6. CASE SendResult
  <2>1. /\ pc = "result" /\ pc' \in {"question", "dead"}
        /\ UNCHANGED <<inbox, backlog, right, peer, round>>
    BY <1>6 DEF SendResult, SendTo, typedVars, loginVars
  <2> QED BY <1>a, <1>b, <1>0, <2>1 DEF EarnTypes, LoggedIn, Asking
<1>7. ASSUME NEW c \in Clients, Connect(c) \/ Leave(c)
      PROVE  EarnTypes' /\ right' = right
  <2>1. \/ backlog' = backlog
        \/ backlog' = Append(backlog, c)
    BY <1>7 DEF Connect, Leave
  <2>2. backlog' \in Seq(Clients)
    BY <1>b, <2>1
  <2>3. UNCHANGED <<inbox, right, peer, pc, client_id, round>>
    BY <1>7 DEF Connect, Leave, typedVars, loginVars, answerVars
  <2> QED BY <1>a, <1>b, <1>0, <2>2, <2>3 DEF EarnTypes, LoggedIn, Asking
<1> QED BY <1>1, <1>2, <1>3, <1>4, <1>5, <1>6, <1>7 DEF Next, Server

LEMMA NextEarnInv == EarnInv /\ [Next]_vars => EarnInv'
<1> SUFFICES ASSUME EarnInv, [Next]_vars PROVE EarnInv'
  OBVIOUS
<1>1. CASE UNCHANGED vars
  <2>1. EarnTypes' /\ IInv'
    BY <1>1, NextInv
       DEF EarnInv, EarnTypes, LoggedIn, Asking, vars, netVars, typedVars,
           loginVars, answerVars
  <2>2. EveryPointIsALine'
    BY <1>1, NothingReadEarns
       DEF EarnInv, IInv, vars, netVars, typedVars, answerVars, Points, Asking
  <2> QED BY <2>1, <2>2 DEF EarnInv
<1>2. CASE \E c \in Clients : SendLine(c)
  BY <1>2, SendLineEarns
<1>3. CASE Next /\ ~\E c \in Clients : SendLine(c)
  <2>1. EarnTypes' /\ right' = right /\ IInv'
    BY <1>3, EarnTypesKept, NextInv DEF EarnInv
  <2>2. answered \in Nat /\ answered' \in Nat
    BY <2>1 DEF EarnInv, IInv
  <2>3. CASE RecvName
    <3>1. pc = "name" /\ client_id \in LoggedIn /\ pc' \notin {"select", "scan", "result"}
      BY <2>3 DEF RecvName, NameIsRead, LoggedIn, EarnInv, IInv, Slots
    <3>2. peer[client_id] \in Clients
      BY <3>1 DEF EarnInv, EarnTypes
    <3>3. \A q \in Questions : Points(q)' = 0 /\ Points(q) = 0
      BY <3>1 DEF Points, Asking
    <3>4. \/ inbox' = [inbox EXCEPT ![peer[client_id]] = <<>>]
          \/ inbox' = inbox
      BY <2>3 DEF RecvName, NameIsRead
    <3>5. EveryPointIsALine'
      BY <2>1, <3>2, <3>3, <3>4, NothingReadEarns, ReadingEarns
    <3> QED BY <2>1, <3>5 DEF EarnInv
  <2>4. CASE RecvAnswer
    <3> DEFINE c == peer[client_id]
    <3>1. pc = "scan" /\ client_id \in LoggedIn /\ round' = round
          /\ inbox' = [inbox EXCEPT ![c] = <<>>]
      BY <2>4 DEF RecvAnswer, LoggedIn, EarnInv, IInv
    <3>2. c \in Clients
      BY <3>1 DEF EarnInv, EarnTypes
    <3>3. \/ answered' = answered
          \/ answered' = answered + 1 /\ IsRight(inbox[c])
          \/ pc' = "dead"
      BY <2>4 DEF RecvAnswer
    <3>4. \A q \in Questions :
            /\ Points(q)' \in Nat
            /\ \/ Points(q)' <= Points(q)
               \/ /\ inbox[c] # <<>> /\ inbox[c][1].q = q
                  /\ Points(q)' <= Points(q) + 1
      BY <2>2, <3>1, <3>3 DEF Points, Asking, IsRight
    <3>5. EveryPointIsALine'
      BY <2>1, <3>1, <3>2, <3>4, ReadingEarns
    <3> QED BY <2>1, <3>5 DEF EarnInv
  <2>5. CASE ~RecvName /\ ~RecvAnswer
    <3>1. inbox' = inbox
      BY <1>3, <2>5 DEF Next, Server, Accept, Question, Select, SkipSlot,
         SendResult, Connect, Leave, netVars
    <3>2. \/ UNCHANGED <<pc, round, answered>> \/ ~Asking'
          \/ Asking /\ UNCHANGED <<round, answered>>
          \/ answered' = 0
      BY <1>3, <2>5 DEF Next, Server, Accept, Question, Select, SkipSlot,
         SendResult, Connect, Leave, netVars, answerVars, SendTo, Asking
    <3>3. \A q \in Questions : Points(q)' <= Points(q) /\ Points(q)' \in Nat
      BY <2>2, <3>2 DEF Points, Asking
    <3>4. EveryPointIsALine'
      BY <2>1, <3>1, <3>3, NothingReadEarns
    <3> QED BY <2>1, <3>4 DEF EarnInv
  <2> QED BY <2>3, <2>4, <2>5
<1> QED BY <1>1, <1>2, <1>3

\* Every point in the count is an answer somebody typed to the question of
\* this round, for any number of players, lines and rounds.
THEOREM NoRankIsUnearned == Spec => []NoUnearnedRank
<1>1. EarnInv => NoUnearnedRank
  <2> SUFFICES ASSUME EarnInv, Asking PROVE answered <= right[round]
    BY DEF NoUnearnedRank, Asking
  <2>1. round \in Questions /\ Points(round) = answered
    BY QuizAssumption DEF EarnInv, EarnTypes, Questions, Points
  <2>2. /\ Cardinality(Unread(round)) \in Nat /\ answered \in Nat
        /\ right[round] \in Nat
        /\ Cardinality(Unread(round)) + answered <= right[round]
    BY <2>1, FS_CardinalityType
       DEF EarnInv, EveryPointIsALine, EarnTypes, IInv
  <2> QED BY <2>2
<1> QED BY <1>1, InitEarnInv, NextEarnInv, PTL DEF Spec
=============================================================================
