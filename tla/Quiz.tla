-------------------------------- MODULE Quiz --------------------------------
(***************************************************************************)
(* The quiz server of quiz/quiz_util.c: N_client clients log in one after  *)
(* the other, then in every round a question goes to all of them, answers  *)
(* are collected with select() until N_client of them were right, and the  *)
(* result goes to all.  A step runs from one call that can wait to the     *)
(* next.                                                                   *)
(***************************************************************************)
EXTENDS Integers, Sequences, FiniteSets

CONSTANTS
  Clients,
  N_client,
  SOCK_LISTEN,
  Backlog,    \* second argument of init_tcpserver
  Leavers,    \* the clients that may be killed
  MaxLines,   \* bound: lines a client types
  MaxRounds,  \* bound: questions asked
  NOBODY

ASSUME QuizAssumption ==
  /\ N_client \in Nat \ {0} /\ SOCK_LISTEN \in Nat /\ Backlog \in Nat \ {0}
  /\ MaxLines \in Nat /\ MaxRounds \in Nat
  /\ Leavers \subseteq Clients /\ NOBODY \notin Clients

VARIABLES
  backlog,
  conn,      \* as in ChatServer
  inbox,     \* lines not read by the server
  typed,     \* number of lines a client typed
  right,     \* history: how many of all lines answer each question
  pc,
  client_id,
  peer,      \* the client behind Client[..].sock
  sock,      \* Client[..].sock
  Max_sd,
  readfds,
  round,     \* history: number of the question
  answered,
  Ranking,   \* with the memory behind it
  result     \* history: the slots in the last result, best first

typedVars  == <<typed, right>>
netVars    == <<backlog, conn, inbox, typedVars>>
loginVars  == <<peer, sock, Max_sd>>
answerVars == <<readfds, round, answered, Ranking, result>>
vars       == <<netVars, pc, client_id, loginVars, answerVars>>

-----------------------------------------------------------------------------
Slots == 0 .. N_client - 1
Cells == 0 .. 2 * N_client - 1

Questions == 1 .. MaxRounds

\* A line is the right answer to one question, or to none (0).
Line == [q : 0 .. MaxRounds]

InLogin      == pc \in {"accept", "name"}
IsOpen(c)    == \E i \in Slots : peer[i] = c
InBacklog(c) == \E i \in 1 .. Len(backlog) : backlog[i] = c
Reset(c)     == conn[c] \in {"finrst", "rst"}
Readable(c)  == inbox[c] # <<>> \/ conn[c] \in {"fin", "finrst", "rst"}

Connect(c) ==
  /\ InLogin
  /\ conn[c] = "new" /\ Len(backlog) < Backlog
  /\ conn' = [conn EXCEPT ![c] = "up"]
  /\ backlog' = Append(backlog, c)
  /\ UNCHANGED <<inbox, typedVars, pc, client_id, loginVars, answerVars>>

SendLine(c) ==
  /\ pc # "dead"
  /\ conn[c] = "up" /\ (IsOpen(c) \/ InBacklog(c))
  /\ typed[c] < MaxLines
  /\ \E l \in Line :
       /\ typed' = [typed EXCEPT ![c] = @ + 1]
       /\ right' = [q \in Questions |-> right[q] + (IF l.q = q THEN 1 ELSE 0)]
       /\ inbox' = [inbox EXCEPT ![c] = Append(@, l)]
  /\ UNCHANGED <<backlog, conn, pc, client_id, loginVars, answerVars>>

Leave(c) ==
  /\ pc # "dead"
  /\ c \in Leavers /\ conn[c] = "up" /\ (IsOpen(c) \/ InBacklog(c))
  /\ \E s \in IF IsOpen(c) THEN {"fin", "rst"} ELSE {"fin"} :
       conn' = [conn EXCEPT ![c] = s]
  /\ UNCHANGED <<backlog, inbox, typedVars, pc, client_id, loginVars, answerVars>>

-----------------------------------------------------------------------------
\* Send to the clients of C; next is where the server goes on.  The first
\* connection that was reset ends the process.
SendTo(C, next) ==
  /\ \E R \in SUBSET {c \in C : conn[c] = "fin"} :
       conn' = [c \in Clients |-> IF c \in R THEN "finrst" ELSE conn[c]]
  /\ pc' = IF \E c \in C : Reset(c) THEN "dead" ELSE next

Everybody == {peer[i] : i \in Slots}

\* client_login: accept and the prompt.  The kernel gives the descriptors
\* in ascending order, for none is closed in between.
Accept ==
  /\ pc = "accept" /\ backlog # <<>>
  /\ backlog' = Tail(backlog)
  /\ peer' = [peer EXCEPT ![client_id] = Head(backlog)]
  /\ sock' = [sock EXCEPT ![client_id] = SOCK_LISTEN + 1 + client_id]
  /\ SendTo({Head(backlog)}, "name")
  /\ UNCHANGED <<inbox, typedVars, client_id, Max_sd, answerVars>>

\* All that has arrived becomes the name.  After the last login Max_sd is
\* what client_login returns and the listening socket is closed.
NameReturnsFirst(c) == \* mutant: the first descriptor is returned
  /\ inbox' = [inbox EXCEPT ![c] = <<>>]
  /\ IF client_id + 1 < N_client
     THEN /\ client_id' = client_id + 1 /\ pc' = "accept"
          /\ UNCHANGED <<backlog, conn, Max_sd>>
     ELSE /\ client_id' = 0 /\ pc' = "question"
          /\ Max_sd' = sock[0]
          /\ backlog' = <<>>
          /\ conn' = [d \in Clients |-> IF InBacklog(d) THEN "rst" ELSE conn[d]]
NameIsRead(c) ==
  /\ inbox' = [inbox EXCEPT ![c] = <<>>]
  /\ IF client_id + 1 < N_client
     THEN /\ client_id' = client_id + 1 /\ pc' = "accept"
          /\ UNCHANGED <<backlog, conn, Max_sd>>
     ELSE /\ client_id' = 0 /\ pc' = "question"
          /\ Max_sd' = sock[client_id]
          /\ backlog' = <<>>
          /\ conn' = [d \in Clients |-> IF InBacklog(d) THEN "rst" ELSE conn[d]]

RecvName ==
  LET c == peer[client_id]
  IN  /\ pc = "name" /\ Readable(c)
      /\ IF inbox[c] = <<>> /\ conn[c] = "rst"
         THEN pc' = "dead" /\ UNCHANGED <<backlog, conn, inbox, client_id, Max_sd>>
         ELSE NameIsRead(c)
      /\ UNCHANGED <<typedVars, peer, sock, answerVars>>

-----------------------------------------------------------------------------
\* make_question, send_question and the start of receive_answer.
QuestionKeepsCount == \* mutant: answered = 0 forgotten
  /\ pc = "question" /\ round < MaxRounds
  /\ round' = round + 1
  /\ SendTo(Everybody, "select")
  /\ UNCHANGED <<backlog, inbox, typedVars, client_id, loginVars, readfds,
                 answered, Ranking, result>>
Question ==
  /\ pc = "question" /\ round < MaxRounds
  /\ round' = round + 1
  /\ answered' = 0
  /\ SendTo(Everybody, "select")
  /\ UNCHANGED <<backlog, inbox, typedVars, client_id, loginVars, readfds,
                 Ranking, result>>

Select ==
  /\ pc = "select"
  /\ readfds' = {sock[i] : i \in {j \in Slots : sock[j] <= Max_sd
                                             /\ Readable(peer[j])}}
  /\ readfds' # {}
  /\ pc' = "scan" /\ client_id' = 0
  /\ UNCHANGED <<netVars, loginVars, round, answered, Ranking, result>>

\* Where the scan goes after this slot: the loop condition answered <
\* N_client is looked at only behind the last one.
AfterLastTooLate(n) == \* mutant: while (answered <= N_client)
  IF n <= N_client THEN "select" ELSE "result"
AfterLast(n) == IF n < N_client THEN "select" ELSE "result"
AfterSlot(n) == IF client_id + 1 < N_client THEN "scan" ELSE AfterLast(n)
NextSlot == client_id' = IF client_id + 1 < N_client THEN client_id + 1 ELSE 0

SkipSlot ==
  /\ pc = "scan" /\ sock[client_id] \notin readfds
  /\ pc' = AfterSlot(answered) /\ NextSlot
  /\ UNCHANGED <<netVars, loginVars, answerVars>>

\* check_answer looks at the first number in what recv returned.
IsRight(buf) == buf # <<>> /\ buf[1].q = round

RecvAnswer ==
  LET c == peer[client_id]
  IN  /\ pc = "scan" /\ sock[client_id] \in readfds
      /\ inbox' = [inbox EXCEPT ![c] = <<>>]
      /\ IF inbox[c] = <<>> /\ conn[c] = "rst"
         THEN pc' = "dead" /\ UNCHANGED <<conn, client_id, answered, Ranking>>
         ELSE /\ IF IsRight(inbox[c])
                 THEN /\ Ranking' = [Ranking EXCEPT ![answered] = client_id]
                      /\ answered' = answered + 1
                 ELSE UNCHANGED <<Ranking, answered>>
              /\ SendTo({c}, AfterSlot(answered'))
              /\ NextSlot
      /\ UNCHANGED <<backlog, typedVars, loginVars, readfds, round, result>>

\* send_result: the line of rank r names Client[r].
SendResult ==
  /\ pc = "result"
  /\ result' = [r \in 1 .. N_client |-> r - 1]
  /\ SendTo(Everybody, "question")
  /\ UNCHANGED <<backlog, inbox, typedVars, client_id, loginVars, readfds, round,
                 answered, Ranking>>

-----------------------------------------------------------------------------
Init ==
  /\ backlog = <<>>
  /\ conn  = [c \in Clients |-> "new"]
  /\ inbox = [c \in Clients |-> <<>>]
  /\ typed = [c \in Clients |-> 0]
  /\ right = [q \in Questions |-> 0]
  /\ pc = "accept" /\ client_id = 0
  /\ peer = [i \in Slots |-> NOBODY]
  /\ sock = [i \in Slots |-> -1]
  /\ Max_sd = -1
  /\ readfds = {}
  /\ round = 0 /\ answered = 0
  /\ Ranking = [r \in Cells |-> -1]
  /\ result = <<>>

Server ==
  \/ Accept \/ RecvName
  \/ Question \/ Select \/ SkipSlot \/ RecvAnswer \/ SendResult

Next == Server \/ \E c \in Clients : Connect(c) \/ SendLine(c) \/ Leave(c)

Spec == Init /\ [][Next]_vars

\* The server is scheduled; nobody has to log in, to type or to leave.
FairSpec == Spec /\ WF_vars(Server)

-----------------------------------------------------------------------------
\* answered, which is the index into Ranking, grows by at most one per slot
\* of a scan that began with fewer than N_client right answers.
AnsweredIsBounded ==
  /\ pc = "select" => answered < N_client
  /\ pc = "scan"   => answered < N_client + client_id
  /\ pc = "result" => N_client <= answered /\ answered < 2 * N_client

\* Every point in the count is a right answer that somebody typed to the
\* question of this round: none is carried over from the round before.
NoUnearnedRank ==
  pc \in {"select", "scan", "result"} => answered <= right[round]

\* In a round every line is read, also of clients that answered before.
AnswersAreRead ==
  \A c \in Clients :
    (pc \in {"select", "scan"} /\ IsOpen(c) /\ inbox[c] # <<>>)
      ~> (inbox[c] = <<>> \/ pc = "dead")
=============================================================================
