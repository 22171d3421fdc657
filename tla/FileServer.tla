----------------------------- MODULE FileServer -----------------------------
(***************************************************************************)
(* kadai2/echo_server2.c: a server with a password that lists and types    *)
(* files.  The first connection sets the password; every later one is      *)
(* asked for it until it is right and then gives commands until "exit".    *)
(* There is one process and no select: clients are served one after the    *)
(* other, in the order of the accept queue.                                *)
(*                                                                         *)
(* A step runs from one recv or accept to the next.  r_buf is memory: recv *)
(* writes as many bytes as it returns and leaves those behind them, and it *)
(* outlives the sessions.  Clients send bytes in segments of any length    *)
(* from one on; what arrives at once is shorter than R_BUFSIZE.            *)
(***************************************************************************)
EXTENDS Integers, Sequences

CONSTANTS
  Clients,     \* each makes one connection
  Chars,       \* the values of a byte
  NUL, CR, LF, SP,
  EXIT_CMD,    \* the command that ends a session
  TYPE_CMD,    \* the command that has an argument
  Segments,    \* what each client may send at a time
  Garbage,     \* what r_buf may hold when the program starts
  Backlog,     \* second argument of init_tcpserver
  MaxSegments, \* bound: the number of segments each client sends
  NOBODY

ASSUME FileAssumption ==
  /\ {NUL, CR, LF, SP} \subseteq Chars
  /\ NUL \notin {CR, LF, SP} /\ CR # LF /\ SP \notin {CR, LF}
  /\ EXIT_CMD \in Seq(Chars \ {NUL, CR, LF, SP}) /\ EXIT_CMD # <<>>
  /\ TYPE_CMD \in Seq(Chars \ {NUL, CR, LF, SP})
  /\ TYPE_CMD \notin {<<>>, EXIT_CMD}
  /\ Segments \in [Clients -> SUBSET (Seq(Chars) \ {<<>>})]
  /\ Garbage \subseteq Seq(Chars)
  /\ Backlog \in Nat \ {0} /\ MaxSegments \in [Clients -> Nat]
  /\ NOBODY \notin Clients

VARIABLES
  backlog, conn, inbox,  \* the kernel
  sent,                  \* number of segments a client sent
  pc,                    \* the call the server is at
  sock_accepted,         \* the client it serves
  r_buf,                 \* as far as it is known; NUL behind that
  hashed_pass,           \* the string in r_buf when the password was set
  key                    \* history: the string that opened the session, and
                         \* how many bytes were received with it

netVars == <<backlog, conn, inbox, sent>>
vars == <<netVars, pc, sock_accepted, r_buf, hashed_pass, key>>

-----------------------------------------------------------------------------
Byte == [from : Clients \cup {NOBODY}, ch : Chars]

Bytes(c, text) == [i \in 1 .. Len(text) |-> [from |-> c, ch |-> text[i]]]

Zero == [from |-> NOBODY, ch |-> NUL]

Text(bytes) == [i \in 1 .. Len(bytes) |-> bytes[i].ch]

InBacklog(c) == \E i \in 1 .. Len(backlog) : backlog[i] = c
InSession    == pc \in {"command", "junk"}

\* States of a connection as in ChatServer.
ConnState == {"new", "up", "fin", "finrst", "rst"}
Reset(c)  == conn[c] \in {"finrst", "rst"}

-----------------------------------------------------------------------------
(***************************************************************************)
(* Memory and strings.  Those which TLC would evaluate many times over as  *)
(* arguments are functions.                                                *)
(***************************************************************************)
\* data is written to the beginning of buf.
Overwrite(buf, data) == data \o SubSeq(buf, Len(data) + 1, Len(buf))

\* strcpy(buf, str)
Put[buf \in Seq(Byte)] ==
  [str \in Seq(Byte) |-> Overwrite(buf, Append(str, Zero))]

\* buf[n - 2] = '\0'.  For n < 2 the byte in front of the array is meant:
\* none that the program reads, or the high byte of a small number.
Terminate(buf, n) == IF n < 2 THEN buf ELSE [buf EXCEPT ![n - 1] = Zero]

\* The part of s before the first of the places in ends.
Before[s \in Seq(Byte)] ==
  [ends \in SUBSET Nat |->
     SubSeq(s, 1, CHOOSE n \in 0 .. Len(s) :
                    /\ n + 1 \in ends \cup {Len(s) + 1}
                    /\ \A i \in 1 .. n : i \notin ends)]

Places(s, ch) == {i \in 1 .. Len(s) : s[i].ch = ch}

String[buf \in Seq(Byte)] == Before[buf][Places(buf, NUL)]

CutLine[str \in Seq(Byte)] ==
  Before[str][{i \in Places(str, CR) : i + 1 \in Places(str, LF)}]

Word[line \in Seq(Byte)] == Before[line][Places(line, SP)]

\* What follows the first word; the line itself if it is one word.
Rest[line \in Seq(Byte)] ==
  IF Word[line] = line THEN line
                       ELSE SubSeq(line, Len(Word[line]) + 2, Len(line))

-----------------------------------------------------------------------------
\* The clients: connect, send a segment, close in order or be killed.
Connect(c) ==
  /\ pc # "dead" /\ conn[c] = "new" /\ Len(backlog) < Backlog
  /\ conn' = [conn EXCEPT ![c] = "up"]
  /\ backlog' = Append(backlog, c)
  /\ UNCHANGED <<inbox, sent, pc, sock_accepted, r_buf, hashed_pass, key>>

Send(c) ==
  /\ pc # "dead" /\ conn[c] = "up" /\ sent[c] < MaxSegments[c]
  /\ InBacklog(c) \/ sock_accepted = c
  /\ sent' = [sent EXCEPT ![c] = @ + 1]
  /\ \E text \in Segments[c] :
       inbox' = [inbox EXCEPT ![c] = @ \o Bytes(c, text)]
  /\ UNCHANGED <<backlog, conn, pc, sock_accepted, r_buf, hashed_pass, key>>

HangUp(c) ==
  /\ pc # "dead" /\ conn[c] = "up" /\ (InBacklog(c) \/ sock_accepted = c)
  /\ \E s \in IF sock_accepted = c THEN {"fin", "rst"} ELSE {"fin"} :
       conn' = [conn EXCEPT ![c] = s]
  /\ UNCHANGED <<backlog, inbox, sent, pc, sock_accepted, r_buf, hashed_pass,
                 key>>

-----------------------------------------------------------------------------
(***************************************************************************)
(* send_to_client, n times, and on to the call next.  A client that closed *)
(* may answer the first with a reset, and the next one ends the process    *)
(* (exit or SIGPIPE).                                                      *)
(***************************************************************************)
Answer(c, n, next) ==
  \/ ~Reset(c) /\ pc' = next /\ UNCHANGED conn
  \/ conn[c] = "fin" /\ pc' = next /\ conn' = [conn EXCEPT ![c] = "finrst"]
  \/ /\ Reset(c) \/ (conn[c] = "fin" /\ n > 1)
     /\ pc' = "dead" /\ UNCHANGED conn

\* recv gives all that has arrived, or nothing after the end of the stream.
Recv(c) ==
  /\ inbox[c] # <<>> \/ conn[c] \in {"fin", "finrst"}
  /\ inbox' = [inbox EXCEPT ![c] = <<>>]
Received(c) == Overwrite(r_buf, inbox[c])

RecvFails ==
  /\ sock_accepted # NOBODY /\ pc # "dead"
  /\ inbox[sock_accepted] = <<>> /\ conn[sock_accepted] = "rst"
  /\ pc' = "dead"
  /\ UNCHANGED <<netVars, sock_accepted, r_buf, hashed_pass, key>>

\* The first connection is asked to set the password, all others for it.
AcceptOnceAuthenticated == \* mutant: auth is not reset for a connection
  /\ pc \in {"first", "accept"} /\ backlog # <<>>
  /\ sock_accepted' = Head(backlog)
  /\ backlog' = Tail(backlog)
  /\ Answer(Head(backlog), 2, IF pc = "first" THEN "set"
                              ELSE IF key.str = <<>> THEN "login"
                              ELSE "command")
  /\ UNCHANGED <<inbox, sent, r_buf, hashed_pass, key>>
Accept ==
  /\ pc \in {"first", "accept"} /\ backlog # <<>>
  /\ sock_accepted' = Head(backlog)
  /\ backlog' = Tail(backlog)
  /\ IF pc = "first" THEN Answer(Head(backlog), 1, "set")
                     ELSE Answer(Head(backlog), 2, "login")
  /\ UNCHANGED <<inbox, sent, r_buf, hashed_pass, key>>

\* The password is the string in r_buf, and the connection is closed.
SetPassword(c) ==
  /\ pc = "set" /\ sock_accepted = c
  /\ Recv(c)
  /\ r_buf' = Terminate(Received(c), Len(inbox[c]))
  /\ hashed_pass' = Text(String[r_buf'])
  /\ Answer(c, 1, "accept")
  /\ sock_accepted' = NOBODY
  /\ UNCHANGED <<backlog, sent, key>>

\* One turn of the loop while (!auth).
Login(c) ==
  /\ pc = "login" /\ sock_accepted = c
  /\ Recv(c)
  /\ r_buf' = Terminate(Received(c), Len(inbox[c]))
  /\ IF Text(String[r_buf']) = hashed_pass
     THEN /\ key' = [str |-> String[r_buf'], n |-> Len(inbox[c])]
          /\ Answer(c, 2, "command")
     ELSE UNCHANGED key /\ Answer(c, 2, "login")
  /\ UNCHANGED <<backlog, sent, sock_accepted, hashed_pass>>

\* get_op_code leaves in r_buf what follows the command in its line, and
\* get_args cuts that behind the first argument.
LineUncut(buf) == \* mutant: the end of the line stays in op_code
  String[buf]
Line(buf) == CutLine[String[buf]]

OpCode(buf) == Text(Word[Line(buf)])

AfterCommand(buf) ==
  Put[Put[Put[buf][Line(buf)]][Rest[Line(buf)]]]
     [IF OpCode(buf) = TYPE_CMD THEN Word[Rest[Line(buf)]]
                                ELSE Rest[Line(buf)]]

\* The command in buf is carried out.
RunCommand(c, buf) ==
  /\ r_buf' = AfterCommand(buf)
  /\ IF OpCode(buf) = EXIT_CMD
     THEN pc' = "accept" /\ sock_accepted' = NOBODY /\ UNCHANGED conn
     ELSE Answer(c, 2, "command") /\ UNCHANGED sock_accepted

\* temp[strsize - 1] == '\n'.  temp[-1] can be anything, and so can a byte of
\* the copy of r_buf behind a NUL, where strcpy has ended.
EndsLine(data) ==
  IF data = <<>> THEN BOOLEAN ELSE {data[Len(data)].ch = LF}

CopyEndsUnasked(data) == \* mutant: a line is taken to come in one piece
  {TRUE}
CopyEndsLine(data) ==
  IF \E i \in 1 .. Len(data) - 1 : data[i].ch = NUL THEN BOOLEAN
                                                    ELSE EndsLine(data)

\* What does not end in a newline is followed by junk up to the next one.
Command(c) ==
  /\ pc = "command" /\ sock_accepted = c
  /\ Recv(c)
  /\ \/ TRUE \in CopyEndsLine(inbox[c]) /\ RunCommand(c, Received(c))
     \/ /\ FALSE \in CopyEndsLine(inbox[c])
        /\ r_buf' = Received(c) /\ pc' = "junk"
        /\ UNCHANGED <<conn, sock_accepted>>
  /\ UNCHANGED <<backlog, sent, hashed_pass, key>>

\* The junk is received into temp.
Junk(c) ==
  /\ pc = "junk" /\ sock_accepted = c
  /\ Recv(c)
  /\ \/ TRUE \in EndsLine(inbox[c]) /\ RunCommand(c, r_buf)
     \/ /\ FALSE \in EndsLine(inbox[c])
        /\ UNCHANGED <<r_buf, pc, conn, sock_accepted>>
  /\ UNCHANGED <<backlog, sent, hashed_pass, key>>

-----------------------------------------------------------------------------
Init ==
  /\ backlog = <<>>
  /\ conn  = [c \in Clients |-> "new"]
  /\ inbox = [c \in Clients |-> <<>>]
  /\ sent  = [c \in Clients |-> 0]
  /\ pc = "first"
  /\ sock_accepted = NOBODY
  /\ \E text \in Garbage : r_buf = Bytes(NOBODY, text)
  /\ hashed_pass = <<>> /\ key = [str |-> <<>>, n |-> 0]

Server ==
  \/ Accept \/ RecvFails
  \/ \E c \in Clients : SetPassword(c) \/ Login(c) \/ Command(c) \/ Junk(c)

Next == Server \/ \E c \in Clients : Connect(c) \/ Send(c) \/ HangUp(c)

Spec == Init /\ [][Next]_vars

\* The server is scheduled; clients need not do anything.
FairSpec == Spec /\ WF_vars(Server)

-----------------------------------------------------------------------------
TypeOK ==
  /\ backlog \in Seq(Clients)
  /\ conn  \in [Clients -> ConnState]
  /\ inbox \in [Clients -> Seq(Byte)]
  /\ sent  \in [Clients -> Nat]
  /\ pc \in {"first", "set", "accept", "login", "command", "junk", "dead"}
  /\ sock_accepted \in Clients \cup {NOBODY}
  /\ (pc \in {"set", "login"} \/ InSession) => sock_accepted \in Clients
  /\ r_buf \in Seq(Byte) /\ hashed_pass \in Seq(Chars)
  /\ key \in [str : Seq(Byte), n : Nat]

\* As long as the client is there, the session was opened by a string equal
\* to the password, and this client sent all of it; of a string that was
\* compared after a recv of one byte it sent the first byte (the login loop,
\* with an r_buf that is never cleared and an auth that is).
SessionHasItsOwnKey ==
  InSession /\ conn[sock_accepted] = "up" =>
    /\ Text(key.str) = hashed_pass
    /\ \A i \in 1 .. Len(key.str) :
         key.n # 1 \/ i = 1 => key.str[i].from = sock_accepted

Begins(bytes, text) == \E n \in 0 .. Len(bytes) : Text(SubSeq(bytes, 1, n)) = text

\* A command that is complete when it is received ends the session of a
\* client that is there only if this client typed "exit" just now: neither
\* the rest of an earlier line nor a part of this one is taken for it
\* (the newline that the copy in temp must end with, get_op_code).
ExitIsTyped ==
  [][\A c \in Clients :
       pc = "command" /\ sock_accepted = c /\ conn[c] = "up" /\ pc' = "accept"
         => Begins(inbox[c], EXIT_CMD)]_vars

\* A line "exit" at the head of what is received ends the session, whatever
\* r_buf held before; the only thing that can keep the server is that more
\* follows and no line ends after it (the loop that reads junk).
ExitEndsSession ==
  \A c \in Clients :
    (pc = "command" /\ sock_accepted = c /\ Begins(inbox[c], EXIT_CMD \o <<CR, LF>>))
      ~> (sock_accepted # c \/ pc = "dead" \/ [](pc = "junk" /\ sock_accepted = c))
=============================================================================
