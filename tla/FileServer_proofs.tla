-------------------------- MODULE FileServer_proofs --------------------------
(***************************************************************************)
(* The types of the file server; that a session belongs to whoever sent    *)
(* the password, of a recv of one byte its first byte; and that a session  *)
(* that ends at once ends by a typed "exit".  For any number of clients    *)
(* and any bytes in segments of any length.                                *)
(***************************************************************************)
EXTENDS FileServer, SequenceTheorems, WellFoundedInduction, TLAPS

\* What has arrived from a client was sent by it.
InboxIsOwn ==
  \A c \in Clients : \A i \in 1 .. Len(inbox[c]) : inbox[c][i].from = c

\* Nobody is accepted or served who did not connect.
ServedAreConnected ==
  /\ \A c \in Clients : sock_accepted = c => conn[c] # "new"
  /\ \A i \in 1 .. Len(backlog) : conn[backlog[i]] # "new"

IInv == TypeOK /\ InboxIsOwn /\ ServedAreConnected /\ SessionHasItsOwnKey

-----------------------------------------------------------------------------
(***************************************************************************)
(* Memory and strings.                                                     *)
(***************************************************************************)
LEMMA ZeroIsAByte == Zero \in Byte
BY FileAssumption DEF Zero, Byte

\* The bytes of a client's text are its own.
LEMMA BytesFacts ==
  ASSUME NEW c \in Clients \cup {NOBODY}, NEW text \in Seq(Chars)
  PROVE  /\ Bytes(c, text) \in Seq(Byte)
         /\ Len(Bytes(c, text)) = Len(text)
         /\ \A i \in 1 .. Len(text) : Bytes(c, text)[i].from = c
<1> DEFINE byte(i) == [from |-> c, ch |-> text[i]]
<1>1. \A i \in 1 .. Len(text) : byte(i) \in Byte /\ byte(i).from = c
  BY DEF Byte
<1>2. Bytes(c, text) = [i \in 1 .. Len(text) |-> byte(i)]
  BY DEF Bytes
<1> HIDE DEF byte
<1> QED BY <1>1, <1>2

LEMMA TextFacts ==
  ASSUME NEW bytes \in Seq(Byte)
  PROVE  /\ Text(bytes) \in Seq(Chars)
         /\ Len(Text(bytes)) = Len(bytes)
         /\ \A i \in 1 .. Len(bytes) : Text(bytes)[i] = bytes[i].ch
<1>1. \A i \in 1 .. Len(bytes) : bytes[i].ch \in Chars
  <2> TAKE i \in 1 .. Len(bytes)
  <2>1. bytes[i] \in Byte
    OBVIOUS
  <2> QED BY <2>1 DEF Byte
<1> QED BY <1>1 DEF Text

LEMMA OverwriteFacts ==
  ASSUME NEW buf \in Seq(Byte), NEW data \in Seq(Byte)
  PROVE  /\ Overwrite(buf, data) \in Seq(Byte)
         /\ Len(Overwrite(buf, data)) >= Len(data)
         /\ \A i \in 1 .. Len(data) : Overwrite(buf, data)[i] = data[i]
<1> DEFINE rest == SubSeq(buf, Len(data) + 1, Len(buf))
<1>1. rest \in Seq(Byte)
  <2>1. \A i \in Len(data) + 1 .. Len(buf) : buf[i] \in Byte
    OBVIOUS
  <2>2. Len(data) + 1 \in Int /\ Len(buf) \in Int
    OBVIOUS
  <2> QED BY <2>1, <2>2, SubSeqProperties
<1>2. Overwrite(buf, data) = data \o rest
  BY DEF Overwrite
<1> HIDE DEF rest
<1> QED BY <1>1, <1>2, ConcatProperties

\* A set of numbers that is not empty has a least one.
LEMMA LeastNumber ==
  ASSUME NEW T \in SUBSET Nat, T # {}
  PROVE  \E m \in T : \A k \in T : m <= k
<1>1. PICK m \in T : \A k \in T : ~(<<k, m>> \in OpToRel(<, Nat))
  BY NatLessThanWellFounded, WFMin
<1>2. \A k \in T : ~(k < m)
  BY <1>1 DEF OpToRel
<1> QED BY <1>2

\* The part before the first of some places has none of them, and only an
\* end or such a place behind it.
LEMMA BeforeFacts ==
  ASSUME NEW s \in Seq(Byte), NEW ends \in SUBSET Nat
  PROVE  /\ Before[s][ends] \in Seq(Byte)
         /\ Len(Before[s][ends]) \in 0 .. Len(s)
         /\ \A i \in 1 .. Len(Before[s][ends]) : /\ Before[s][ends][i] = s[i]
                                                /\ i \notin ends
<1> DEFINE Cuts(n) == /\ n + 1 \in ends \cup {Len(s) + 1}
                      /\ \A i \in 1 .. n : i \notin ends
           n == CHOOSE k \in 0 .. Len(s) : Cuts(k)
           T == {k \in Nat \ {0} : k \in ends \/ k = Len(s) + 1}
<1>1. \E k \in 0 .. Len(s) : Cuts(k)
  <2>1. T \in SUBSET Nat /\ Len(s) + 1 \in T
    OBVIOUS
  <2>2. PICK m \in T : \A k \in T : m <= k
    <3> HIDE DEF T
    <3> QED BY <2>1, LeastNumber
  <2>3. m - 1 \in 0 .. Len(s) /\ (m - 1) + 1 = m
    BY <2>1, <2>2
  <2>4. \A i \in 1 .. m - 1 : i \notin ends
    BY <2>2
  <2> QED BY <2>2, <2>3, <2>4
<1>2. n \in 0 .. Len(s) /\ Cuts(n)
  <2> HIDE DEF Cuts
  <2> QED BY <1>1
<1>3. Before[s][ends] = SubSeq(s, 1, n)
  BY DEF Before
<1>4. \A i \in 1 .. n : s[i] \in Byte /\ i \notin ends
  BY <1>2
<1> HIDE DEF n
<1>5. /\ SubSeq(s, 1, n) \in Seq(Byte)
      /\ Len(SubSeq(s, 1, n)) = IF 1 <= n THEN n - 1 + 1 ELSE 0
      /\ \A i \in 1 .. n - 1 + 1 : SubSeq(s, 1, n)[i] = s[1 + i - 1]
  BY <1>2, <1>4, SubSeqProperties
<1>6. Len(SubSeq(s, 1, n)) = n
  BY <1>2, <1>5
<1> QED BY <1>2, <1>3, <1>4, <1>5, <1>6

LEMMA PlacesAreNumbers ==
  ASSUME NEW s \in Seq(Byte), NEW ch
  PROVE  Places(s, ch) \in SUBSET Nat
BY DEF Places

\* A string is the beginning of its buffer and has no NUL in it.
LEMMA StringFacts ==
  ASSUME NEW buf \in Seq(Byte)
  PROVE  /\ String[buf] \in Seq(Byte)
         /\ Len(String[buf]) \in 0 .. Len(buf)
         /\ \A i \in 1 .. Len(String[buf]) : /\ String[buf][i] = buf[i]
                                            /\ buf[i].ch # NUL
<1>1. String[buf] = Before[buf][Places(buf, NUL)]
  BY DEF String
<1>2. \A i \in 1 .. Len(buf) : i \notin Places(buf, NUL) => buf[i].ch # NUL
  BY DEF Places
<1> QED BY <1>1, <1>2, PlacesAreNumbers, BeforeFacts

LEMMA WordFacts ==
  ASSUME NEW line \in Seq(Byte)
  PROVE  /\ Word[line] \in Seq(Byte)
         /\ Len(Word[line]) \in 0 .. Len(line)
         /\ \A i \in 1 .. Len(Word[line]) : Word[line][i] = line[i]
<1>1. Word[line] = Before[line][Places(line, SP)]
  BY DEF Word
<1> QED BY <1>1, PlacesAreNumbers, BeforeFacts

LEMMA LineFacts ==
  ASSUME NEW buf \in Seq(Byte)
  PROVE  /\ Line(buf) \in Seq(Byte)
         /\ Len(Line(buf)) \in 0 .. Len(buf)
         /\ \A i \in 1 .. Len(Line(buf)) : Line(buf)[i] = buf[i]
<1> DEFINE s == String[buf]
           ends == {i \in Places(s, CR) : i + 1 \in Places(s, LF)}
<1>1. s \in Seq(Byte) /\ Len(s) \in 0 .. Len(buf)
      /\ \A i \in 1 .. Len(s) : s[i] = buf[i]
  BY StringFacts
<1> HIDE DEF s
<1>2. ends \in SUBSET Nat
  BY <1>1 DEF Places
<1>3. Line(buf) = Before[s][ends]
  BY <1>1 DEF Line, CutLine, s
<1> HIDE DEF ends
<1> QED BY <1>1, <1>2, <1>3, BeforeFacts

LEMMA RestType ==
  ASSUME NEW line \in Seq(Byte)
  PROVE  Rest[line] \in Seq(Byte)
<1>1. Rest[line] = IF Word[line] = line
                   THEN line ELSE SubSeq(line, Len(Word[line]) + 2, Len(line))
  BY DEF Rest
<1>2. \A i \in Len(Word[line]) + 2 .. Len(line) : line[i] \in Byte
  BY WordFacts
<1>3. SubSeq(line, Len(Word[line]) + 2, Len(line)) \in Seq(Byte)
  BY <1>2, WordFacts, SubSeqProperties
<1> QED BY <1>1, <1>3

LEMMA PutType ==
  ASSUME NEW buf \in Seq(Byte), NEW str \in Seq(Byte)
  PROVE  Put[buf][str] \in Seq(Byte)
<1> DEFINE data == Append(str, Zero)
<1>1. data \in Seq(Byte)
  BY ZeroIsAByte
<1>2. Put[buf][str] = Overwrite(buf, data)
  BY DEF Put
<1> HIDE DEF data
<1>3. Overwrite(buf, data) \in Seq(Byte)
  BY <1>1, OverwriteFacts
<1> QED BY <1>2, <1>3

LEMMA AfterCommandType ==
  ASSUME NEW buf \in Seq(Byte)
  PROVE  AfterCommand(buf) \in Seq(Byte)
<1> DEFINE line == Line(buf)
           args == IF OpCode(buf) = TYPE_CMD THEN Word[Rest[line]] ELSE Rest[line]
<1>1. line \in Seq(Byte)
  BY LineFacts
<1>2. args \in Seq(Byte) /\ Rest[line] \in Seq(Byte)
  BY <1>1, RestType, WordFacts
<1>3. AfterCommand(buf) = Put[Put[Put[buf][line]][Rest[line]]][args]
  BY DEF AfterCommand
<1> HIDE DEF line, args
<1> QED BY <1>1, <1>2, <1>3, PutType

\* A terminator behind what was received cuts the string there.
LEMMA TerminateFacts ==
  ASSUME NEW buf \in Seq(Byte), NEW n \in 0 .. Len(buf)
  PROVE  /\ Terminate(buf, n) \in Seq(Byte)
         /\ \A i \in 1 .. Len(String[Terminate(buf, n)]) :
              /\ String[Terminate(buf, n)][i] = buf[i]
              /\ n >= 2 => i < n
<1> DEFINE b == Terminate(buf, n)
<1>1. CASE n < 2
  BY <1>1, StringFacts DEF Terminate
<1>2. CASE n >= 2
  <2>1. n - 1 \in 1 .. Len(buf) /\ b = [buf EXCEPT ![n - 1] = Zero]
    BY <1>2 DEF Terminate
  <2>2. /\ b \in Seq(Byte)
        /\ \A i \in 1 .. Len(buf) : b[i] = IF i = n - 1 THEN Zero ELSE buf[i]
        /\ Len(b) = Len(buf)
    BY <2>1, ZeroIsAByte, ExceptSeq
  <2> DEFINE str == String[b]
  <2> HIDE DEF b
  <2>3. /\ Len(str) \in 0 .. Len(b)
        /\ \A i \in 1 .. Len(str) : str[i] = b[i] /\ b[i].ch # NUL
    BY <2>2, StringFacts
  <2> HIDE DEF str
  <2>4. b[n - 1].ch = NUL
    BY <2>1, <2>2 DEF Zero
  <2>5. Len(str) < n - 1
    BY <2>1, <2>2, <2>3, <2>4
  <2>6. \A i \in 1 .. Len(str) : str[i] = buf[i] /\ i < n
    BY <2>1, <2>2, <2>3, <2>5
  <2> QED BY <2>2, <2>6 DEF b, str
<1> QED BY <1>1, <1>2

-----------------------------------------------------------------------------
\* What an answer does to the connection: it never comes up again.
LEMMA AnswerEffect ==
  ASSUME TypeOK, NEW c \in Clients, NEW n, NEW next, Answer(c, n, next)
  PROVE  /\ conn' \in [Clients -> ConnState]
         /\ pc' \in {next, "dead"}
         /\ \A d \in Clients : /\ conn'[d] = "up" => conn[d] = "up"
                               /\ conn'[d] = "new" => conn[d] = "new"
BY DEF Answer, TypeOK, ConnState

\* What is left of the inbox after a recv, and what the server has in r_buf.
LEMMA RecvEffect ==
  ASSUME TypeOK, InboxIsOwn, NEW c \in Clients, Recv(c)
  PROVE  /\ inbox' \in [Clients -> Seq(Byte)]
         /\ InboxIsOwn'
         /\ Received(c) \in Seq(Byte)
         /\ Len(inbox[c]) \in 0 .. Len(Received(c))
         /\ \A i \in 1 .. Len(inbox[c]) : Received(c)[i] = inbox[c][i]
<1>1. inbox' = [inbox EXCEPT ![c] = <<>>]
  BY DEF Recv
<1>2. \A d \in Clients : inbox'[d] = IF d = c THEN <<>> ELSE inbox[d]
  BY <1>1 DEF TypeOK
<1>3. InboxIsOwn'
  BY <1>2 DEF InboxIsOwn
<1>4. inbox[c] \in Seq(Byte) /\ r_buf \in Seq(Byte)
  BY DEF TypeOK
<1>5. /\ Received(c) \in Seq(Byte)
      /\ Len(inbox[c]) \in 0 .. Len(Received(c))
      /\ \A i \in 1 .. Len(inbox[c]) : Received(c)[i] = inbox[c][i]
  BY <1>4, OverwriteFacts DEF Received
<1> QED BY <1>1, <1>3, <1>5 DEF TypeOK

LEMMA InitInv == Init => IInv
<1> SUFFICES ASSUME Init PROVE IInv
  OBVIOUS
<1>1. TypeOK
  <2>1. PICK text \in Garbage : r_buf = Bytes(NOBODY, text)
    BY DEF Init
  <2>2. r_buf \in Seq(Byte)
    BY <2>1, BytesFacts, FileAssumption
  <2> QED BY <2>2 DEF Init, TypeOK, ConnState, InSession
<1>2. InboxIsOwn
  BY DEF Init, InboxIsOwn
<1>3. ServedAreConnected
  BY FileAssumption DEF Init, ServedAreConnected
<1>4. SessionHasItsOwnKey
  BY DEF Init, SessionHasItsOwnKey, InSession
<1> QED BY <1>1, <1>2, <1>3, <1>4 DEF IInv

\* A client can only open its own end or close it.
LEMMA ClientInv ==
  ASSUME IInv, NEW c \in Clients, Connect(c) \/ Send(c) \/ HangUp(c)
  PROVE  IInv'
<1>1. CASE Connect(c)
  <2>1. conn' \in [Clients -> ConnState] /\ backlog' \in Seq(Clients)
    BY <1>1 DEF Connect, IInv, TypeOK, ConnState
  <2>2. /\ Len(backlog') = Len(backlog) + 1
        /\ \A i \in 1 .. Len(backlog') :
             backlog'[i] = IF i = Len(backlog) + 1 THEN c ELSE backlog[i]
    BY <1>1 DEF Connect, IInv, TypeOK
  <2>3. ServedAreConnected'
    BY <1>1, <2>2 DEF Connect, IInv, TypeOK, ServedAreConnected
  <2>4. SessionHasItsOwnKey'
    <3>1. InSession => sock_accepted # c
      BY <1>1, FileAssumption DEF Connect, IInv, TypeOK, ServedAreConnected, InSession
    <3> QED BY <1>1, <3>1 DEF Connect, IInv, TypeOK, SessionHasItsOwnKey, InSession
  <2> QED BY <1>1, <2>1, <2>3, <2>4 DEF Connect, IInv, TypeOK, InboxIsOwn, InSession
<1>2. CASE Send(c)
  <2>1. PICK text \in Segments[c] :
          inbox' = [inbox EXCEPT ![c] = @ \o Bytes(c, text)]
    BY <1>2 DEF Send
  <2>2. /\ Bytes(c, text) \in Seq(Byte)
        /\ \A i \in 1 .. Len(Bytes(c, text)) : Bytes(c, text)[i].from = c
    <3>1. text \in Seq(Chars)
      BY <2>1, FileAssumption
    <3> QED BY <3>1, BytesFacts
  <2>3. inbox' \in [Clients -> Seq(Byte)]
    BY <2>1, <2>2 DEF IInv, TypeOK
  <2>4. InboxIsOwn'
    <3> DEFINE all == inbox[c] \o Bytes(c, text)
    <3>1. \A d \in Clients : inbox'[d] = IF d = c THEN all ELSE inbox[d]
      BY <2>1 DEF IInv, TypeOK
    <3>2. \A i \in 1 .. Len(all) : all[i].from = c
      <4>1. inbox[c] \in Seq(Byte)
        BY DEF IInv, TypeOK
      <4> QED BY <2>2, <4>1, ConcatProperties DEF IInv, InboxIsOwn
    <3> HIDE DEF all
    <3> QED BY <3>1, <3>2 DEF IInv, InboxIsOwn
  <2>5. sent' \in [Clients -> Nat]
    BY <1>2 DEF Send, IInv, TypeOK
  <2> QED BY <1>2, <2>3, <2>4, <2>5 DEF Send, IInv, TypeOK,
          ServedAreConnected, SessionHasItsOwnKey, InSession
<1>3. CASE HangUp(c)
  <2>1. PICK s \in {"fin", "rst"} : conn' = [conn EXCEPT ![c] = s]
    BY <1>3 DEF HangUp
  <2>2. conn' \in [Clients -> ConnState]
    BY <2>1 DEF IInv, TypeOK, ConnState
  <2>3. ServedAreConnected'
    BY <1>3, <2>1 DEF HangUp, IInv, TypeOK, ServedAreConnected
  <2>4. SessionHasItsOwnKey'
    BY <1>3, <2>1 DEF HangUp, IInv, TypeOK, SessionHasItsOwnKey, InSession
  <2> QED BY <1>3, <2>2, <2>3, <2>4 DEF HangUp, IInv, TypeOK, InboxIsOwn, InSession
<1> QED BY <1>1, <1>2, <1>3

LEMMA AcceptInv ==
  ASSUME IInv, Accept
  PROVE  IInv'
<1>1. Head(backlog) \in Clients /\ backlog # <<>> /\ conn[Head(backlog)] # "new"
  BY DEF Accept, IInv, TypeOK, ServedAreConnected
<1>2. backlog' \in Seq(Clients) /\ \A i \in 1 .. Len(backlog') : backlog'[i] = backlog[i + 1]
  BY <1>1 DEF Accept, IInv, TypeOK
<1>3. Len(backlog') = Len(backlog) - 1
  BY <1>1 DEF Accept, IInv, TypeOK
<1>4. \E n, next : next \in {"set", "login"} /\ Answer(Head(backlog), n, next)
  BY DEF Accept
<1>5. /\ conn' \in [Clients -> ConnState] /\ pc' \in {"set", "login", "dead"}
      /\ \A d \in Clients : conn'[d] = "new" => conn[d] = "new"
  BY <1>1, <1>4, AnswerEffect DEF IInv
<1>6. \A i \in 1 .. Len(backlog') : conn'[backlog'[i]] # "new"
  <2> SUFFICES ASSUME NEW i \in 1 .. Len(backlog') PROVE conn'[backlog'[i]] # "new"
    OBVIOUS
  <2>1. i + 1 \in 1 .. Len(backlog) /\ backlog[i + 1] \in Clients
    BY <1>3 DEF IInv, TypeOK
  <2> QED BY <1>2, <1>5, <2>1 DEF IInv, ServedAreConnected
<1> QED BY <1>1, <1>2, <1>5, <1>6 DEF Accept, IInv, TypeOK, InboxIsOwn, InSession,
           ServedAreConnected, SessionHasItsOwnKey

\* A step that answers c and leaves no session behind, or the one there was.
LEMMA ServedInv ==
  ASSUME IInv, NEW c \in Clients, sock_accepted = c, Recv(c),
         conn' \in [Clients -> ConnState],
         \A d \in Clients : conn'[d] = "new" => conn[d] = "new",
         sock_accepted' \in {c, NOBODY},
         pc' \in {"set", "login", "command", "junk"} => sock_accepted' = c,
         pc' \in {"accept", "login", "command", "junk", "dead"},
         r_buf' \in Seq(Byte), hashed_pass' \in Seq(Chars),
         key' \in [str : Seq(Byte), n : Nat],
         UNCHANGED <<backlog, sent>>,
         SessionHasItsOwnKey'
  PROVE  IInv'
<1>1. inbox' \in [Clients -> Seq(Byte)] /\ InboxIsOwn'
  BY RecvEffect DEF IInv
<1>2. ServedAreConnected'
  <2>1. \A d \in Clients : sock_accepted' = d => sock_accepted = d
    BY FileAssumption
  <2>2. \A i \in 1 .. Len(backlog) : backlog[i] \in Clients
    BY DEF IInv, TypeOK
  <2> QED BY <2>1, <2>2 DEF IInv, ServedAreConnected
<1> QED BY <1>1, <1>2 DEF IInv, TypeOK, InSession

LEMMA SetPasswordInv ==
  ASSUME IInv, NEW c \in Clients, SetPassword(c)
  PROVE  IInv'
<1>1. /\ conn' \in [Clients -> ConnState] /\ pc' \in {"accept", "dead"}
      /\ \A d \in Clients : conn'[d] = "new" => conn[d] = "new"
  BY AnswerEffect DEF SetPassword, IInv
<1>2. r_buf' \in Seq(Byte)
  BY RecvEffect, TerminateFacts DEF SetPassword, IInv
<1>3. hashed_pass' \in Seq(Chars)
  BY <1>2, StringFacts, TextFacts DEF SetPassword
<1>4. SessionHasItsOwnKey'
  BY <1>1 DEF SessionHasItsOwnKey, InSession
<1> QED BY <1>1, <1>2, <1>3, <1>4, ServedInv DEF SetPassword, IInv, TypeOK

LEMMA LoginInv ==
  ASSUME IInv, NEW c \in Clients, Login(c)
  PROVE  IInv'
<1> DEFINE str == String[r_buf']
           n   == Len(inbox[c])
<1>1. \E m, next : /\ next \in {"command", "login"} /\ Answer(c, m, next)
                   /\ next = "command" => /\ key' = [str |-> str, n |-> n]
                                          /\ Text(str) = hashed_pass
                   /\ next = "login" => key' = key
  BY DEF Login
<1>2. /\ conn' \in [Clients -> ConnState] /\ pc' \in {"command", "login", "dead"}
      /\ \A d \in Clients : /\ conn'[d] = "up" => conn[d] = "up"
                            /\ conn'[d] = "new" => conn[d] = "new"
  BY <1>1, AnswerEffect DEF IInv
<1>3. pc' = "command" => /\ key' = [str |-> str, n |-> n]
                         /\ Text(str) = hashed_pass
  BY <1>1, AnswerEffect DEF IInv
<1>4. /\ n \in 0 .. Len(Received(c)) /\ Received(c) \in Seq(Byte)
      /\ \A i \in 1 .. n : Received(c)[i].from = c
  BY RecvEffect DEF Login, IInv, InboxIsOwn
<1>5. /\ r_buf' \in Seq(Byte)
      /\ \A i \in 1 .. Len(str) : /\ str[i] = Received(c)[i]
                                  /\ n >= 2 => i < n
  BY <1>4, TerminateFacts DEF Login
<1>6. str \in Seq(Byte)
  BY <1>5, StringFacts
<1> HIDE DEF str, n
<1>7. key' \in [str : Seq(Byte), n : Nat]
  BY <1>1, <1>4, <1>6 DEF IInv, TypeOK
<1>8. SessionHasItsOwnKey'
  <2>1. SUFFICES ASSUME InSession', conn'[sock_accepted'] = "up"
                 PROVE  /\ Text(key'.str) = hashed_pass'
                        /\ \A i \in 1 .. Len(key'.str) :
                             key'.n # 1 \/ i = 1 => key'.str[i].from = sock_accepted'
    BY DEF SessionHasItsOwnKey, Text
  <2>2. pc' = "command" /\ sock_accepted' = c /\ conn[c] = "up"
    BY <1>2, <2>1 DEF InSession, Login
  <2>3. n >= 1
    BY <2>2 DEF Login, Recv, IInv, TypeOK, n
  <2>4. \A i \in 1 .. Len(str) : n # 1 \/ i = 1 => i \in 1 .. n
    BY <1>4, <1>5, <1>6, <2>3
  <2>5. \A i \in 1 .. Len(str) : n # 1 \/ i = 1 => str[i].from = c
    BY <1>4, <1>5, <2>4
  <2> QED BY <1>3, <2>2, <2>5 DEF Login
<1> QED BY <1>2, <1>5, <1>7, <1>8, ServedInv DEF Login, IInv, TypeOK

\* The command loop changes neither the key nor the password.
LEMMA SessionInv ==
  ASSUME IInv, NEW c \in Clients, Command(c) \/ Junk(c)
  PROVE  IInv'
<1>1. sock_accepted = c /\ Recv(c) /\ InSession /\ UNCHANGED <<backlog, sent, hashed_pass, key>>
  BY DEF Command, Junk, InSession
<1>2. Received(c) \in Seq(Byte) /\ r_buf \in Seq(Byte)
  BY <1>1, RecvEffect DEF IInv, TypeOK
<1>3. \/ \E b \in Seq(Byte) : RunCommand(c, b)
      \/ /\ r_buf' \in Seq(Byte) /\ pc' = "junk"
         /\ UNCHANGED <<conn, sock_accepted>>
  BY <1>2 DEF Command, Junk
<1>4. /\ conn' \in [Clients -> ConnState]
      /\ \A d \in Clients : /\ conn'[d] = "up" => conn[d] = "up"
                            /\ conn'[d] = "new" => conn[d] = "new"
      /\ r_buf' \in Seq(Byte)
      /\ \/ pc' = "accept" /\ sock_accepted' = NOBODY
         \/ pc' \in {"command", "junk", "dead"} /\ sock_accepted' = c
  <2>1. CASE \E b \in Seq(Byte) : RunCommand(c, b)
    <3>1. PICK b \in Seq(Byte) : RunCommand(c, b)
      BY <2>1
    <3>2. r_buf' \in Seq(Byte)
      BY <3>1, AfterCommandType DEF RunCommand
    <3>3. CASE OpCode(b) = EXIT_CMD
      BY <3>1, <3>2, <3>3 DEF RunCommand, IInv, TypeOK
    <3>4. CASE OpCode(b) # EXIT_CMD
      BY <1>1, <3>1, <3>2, <3>4, AnswerEffect DEF RunCommand, IInv
    <3> QED BY <3>3, <3>4
  <2>2. CASE /\ r_buf' \in Seq(Byte) /\ pc' = "junk"
             /\ UNCHANGED <<conn, sock_accepted>>
    BY <1>1, <2>2 DEF IInv, TypeOK
  <2> QED BY <1>3, <2>1, <2>2
<1>5. SessionHasItsOwnKey'
  BY <1>1, <1>4 DEF IInv, SessionHasItsOwnKey, InSession, Text
<1> QED BY <1>1, <1>4, <1>5, ServedInv DEF IInv, TypeOK

LEMMA NextInv == IInv /\ [Next]_vars => IInv'
<1> SUFFICES ASSUME IInv, [Next]_vars PROVE IInv'
  OBVIOUS
<1>1. CASE RecvFails
  BY <1>1 DEF RecvFails, netVars, IInv, TypeOK, InboxIsOwn, InSession,
              ServedAreConnected, SessionHasItsOwnKey
<1>2. CASE UNCHANGED vars
  BY <1>2 DEF vars, netVars, IInv, TypeOK, InboxIsOwn, InSession,
              ServedAreConnected, SessionHasItsOwnKey, Text
<1> QED BY <1>1, <1>2, ClientInv, AcceptInv, SetPasswordInv, LoginInv, SessionInv
        DEF Next, Server

LEMMA Invariance == Spec => []IInv
BY InitInv, NextInv, PTL DEF Spec

-----------------------------------------------------------------------------
\* If the command is "exit" and the copy of what was received is taken for
\* complete, "exit" is what was received: its newline, or the NUL because of
\* which the copy looks complete, cannot be in the command.
LEMMA CompleteExit ==
  ASSUME TypeOK, NEW c \in Clients, Recv(c), InboxIsOwn, inbox[c] # <<>>,
         TRUE \in CopyEndsLine(inbox[c]),
         OpCode(Received(c)) = EXIT_CMD
  PROVE  Begins(inbox[c], EXIT_CMD)
<1> DEFINE data == inbox[c]
           buf  == Received(c)
           word == Word[Line(buf)]
<1>1. /\ data \in Seq(Byte) /\ data # <<>>
      /\ buf \in Seq(Byte) /\ Len(data) \in 1 .. Len(buf)
      /\ \A i \in 1 .. Len(data) : buf[i] = data[i]
  BY RecvEffect DEF TypeOK
<1>2. TRUE \in CopyEndsLine(data)
  OBVIOUS
<1> HIDE DEF data, buf
<1>3. /\ word \in Seq(Byte) /\ Len(word) \in 0 .. Len(buf)
      /\ \A i \in 1 .. Len(word) : word[i] = buf[i]
  BY <1>1, LineFacts, WordFacts
<1>4. Text(word) = EXIT_CMD
  BY DEF OpCode, buf
<1> HIDE DEF word
<1>5. /\ Len(word) = Len(EXIT_CMD) /\ Len(word) \in Nat
      /\ \A i \in 1 .. Len(word) : word[i].ch = EXIT_CMD[i]
  BY <1>3, <1>4, TextFacts
<1>6. \A i \in 1 .. Len(word) : word[i].ch \notin {NUL, LF}
  BY <1>5, FileAssumption
<1>7. Len(data) >= Len(word)
  <2> SUFFICES ASSUME Len(data) < Len(word) PROVE FALSE
    BY <1>1, <1>5
  <2>1. \A i \in 1 .. Len(data) : data[i].ch \notin {NUL, LF}
    BY <1>1, <1>3, <1>6
  <2>2. CopyEndsLine(data) = EndsLine(data)
    BY <1>1, <2>1 DEF CopyEndsLine
  <2>3. data[Len(data)].ch # LF
    BY <1>1, <2>1
  <2>4. TRUE \notin EndsLine(data)
    BY <1>1, <2>3, Zenon DEF EndsLine
  <2> QED BY <1>2, <2>2, <2>4
<1>8. \A i \in 1 .. Len(word) : data[i] = word[i]
  BY <1>1, <1>3, <1>5, <1>7
<1>9. SubSeq(data, 1, Len(word)) = word
  <2> DEFINE head == SubSeq(data, 1, Len(word))
  <2>1. \A i \in 1 .. Len(word) : data[i] \in Byte
    BY <1>1, <1>7
  <2>2. /\ head \in Seq(Byte)
        /\ Len(head) = IF 1 <= Len(word) THEN Len(word) - 1 + 1 ELSE 0
        /\ \A i \in 1 .. Len(word) - 1 + 1 : head[i] = data[1 + i - 1]
    BY <1>5, <2>1, SubSeqProperties
  <2> HIDE DEF head
  <2>3. Len(head) = Len(word) /\ \A i \in 1 .. Len(head) : head[i] = word[i]
    BY <1>5, <1>8, <2>2
  <2> QED BY <1>3, <2>2, <2>3, SeqEqual DEF head
<1>10. Len(word) \in 0 .. Len(data)
  BY <1>1, <1>5, <1>7
<1>11. Text(SubSeq(data, 1, Len(word))) = EXIT_CMD
  BY <1>4, <1>9, Zenon
<1> QED BY <1>10, <1>11, Zenon DEF Begins, data

\* The formula of ExitIsTyped.
ExitStep ==
  \A c \in Clients :
    pc = "command" /\ sock_accepted = c /\ conn[c] = "up" /\ pc' = "accept"
      => Begins(inbox[c], EXIT_CMD)

LEMMA ExitStepHolds == IInv /\ [Next]_vars => [ExitStep]_vars
<1> SUFFICES ASSUME IInv, Next, NEW c \in Clients,
                    pc = "command", sock_accepted = c, conn[c] = "up",
                    pc' = "accept"
             PROVE  Begins(inbox[c], EXIT_CMD)
  BY DEF ExitStep
<1>1. Command(c)
  <2>1. \A d \in Clients : ~(Connect(d) \/ Send(d) \/ HangUp(d))
    BY DEF Connect, Send, HangUp
  <2>2. ~Accept /\ ~RecvFails
    BY DEF Accept, RecvFails
  <2>3. Server
    BY <2>1 DEF Next
  <2>4. PICK d \in Clients : SetPassword(d) \/ Login(d) \/ Command(d) \/ Junk(d)
    BY <2>2, <2>3 DEF Server
  <2>5. CASE Command(d)
    <3>1. d = c
      BY <2>5 DEF Command
    <3> QED BY <2>5, <3>1
  <2>6. CASE SetPassword(d) \/ Login(d) \/ Junk(d)
    BY <2>6 DEF SetPassword, Login, Junk
  <2> QED BY <2>4, <2>5, <2>6
<1>2. Recv(c) /\ inbox[c] # <<>>
  BY <1>1 DEF Command, Recv
<1>3. TRUE \in CopyEndsLine(inbox[c]) /\ RunCommand(c, Received(c))
  BY <1>1 DEF Command
<1>4. OpCode(Received(c)) = EXIT_CMD
  BY <1>3, AnswerEffect DEF RunCommand, IInv
<1> QED BY <1>2, <1>3, <1>4, CompleteExit DEF IInv

-----------------------------------------------------------------------------
\* The types, for any clients and any bytes.
THEOREM TypeCorrect == Spec => []TypeOK
BY Invariance, PTL DEF IInv

\* While its client is there, a session was opened by a string equal to the
\* password, all of which this client sent, whoever was served before and in
\* whatever segments it came; only of a string compared after a recv of one
\* byte no more than the first byte is known to be its own.
THEOREM SessionsHaveTheirKey == Spec => []SessionHasItsOwnKey
BY Invariance, PTL DEF IInv

\* A session whose client is there ends with what one recv returned only if
\* that begins with "exit", whatever r_buf held behind it.
THEOREM ExitsAreTyped == Spec => ExitIsTyped
<1>1. Spec => [][ExitStep]_vars
  BY Invariance, ExitStepHolds, PTL DEF Spec
<1> QED BY <1>1 DEF ExitStep, ExitIsTyped
=============================================================================
