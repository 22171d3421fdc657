--------------------------- MODULE EchoPool_proofs ---------------------------
(***************************************************************************)
(* The loop of the echo servers, for any number of clients and workers and *)
(* any buffer size: no two workers serve one connection, and what a client *)
(* sent is echoed, held or unread, in this order.  First the steps of      *)
(* EchoLoop, then the pool that is made of them.                           *)
(***************************************************************************)
EXTENDS EchoPool, FiniteSetTheorems, SequenceTheorems, TLAPS

LoopTypes ==
  /\ backlog \in Seq(Clients)
  /\ conn    \in [Clients -> ConnState]
  /\ sent    \in [Clients -> Seq(Byte)]
  /\ inbox   \in [Clients -> Seq(Byte)]
  /\ echoed  \in [Clients -> Seq(Byte)]
  /\ holders \in [Clients -> SUBSET (Workers \cup {Main})]
  /\ phase   \in [Workers -> Phase]
  /\ serves  \in [Workers -> Clients \cup {NOBODY}]
  /\ buf     \in [Workers -> Seq(Byte)]
  /\ \A w \in Workers : Serving(w) => serves[w] \in Clients

\* Nothing of the connection was read: it is new, in the queue or at Main.
Untouched(c) == sent[c] = inbox[c] /\ echoed[c] = <<>>

FreshAreUntouched ==
  /\ \A c \in Clients :
       /\ conn[c] = "new" => holders[c] = {} /\ ~InBacklog(c)
       /\ InBacklog(c) => holders[c] = {}
       /\ Main \in holders[c] => holders[c] = {Main}
       /\ conn[c] = "new" \/ InBacklog(c) \/ Main \in holders[c]
            => Untouched(c)
  /\ \A i, j \in 1 .. Len(backlog) : backlog[i] = backlog[j] => i = j

LoopInv ==
  /\ LoopTypes /\ FreshAreUntouched
  /\ OneWorkerPerConnection /\ EchoIsFaithful

\* What is echoed, held and unread for w is what its client sent.
Faithful(w) ==
  sent[serves[w]] = echoed[serves[w]]
                    \o (IF phase[w] = "send" THEN buf[w] ELSE <<>>)
                    \o inbox[serves[w]]

-----------------------------------------------------------------------------
(***************************************************************************)
(* The clients                                                             *)
(***************************************************************************)
LEMMA ConnectLoop ==
  ASSUME LoopInv, NEW c \in Clients, Connect(c)
  PROVE  LoopInv'
<1>1. /\ conn[c] = "new" /\ conn' = [conn EXCEPT ![c] = "up"]
      /\ backlog' = Append(backlog, c)
      /\ UNCHANGED <<sent, inbox, echoed, holders, phase, serves, buf>>
  BY DEF Connect, workerVars
<1>2. backlog \in Seq(Clients)
  BY DEF LoopInv, LoopTypes
<1>3. /\ backlog' \in Seq(Clients) /\ Len(backlog) \in Nat
      /\ Len(backlog') = Len(backlog) + 1
      /\ \A i \in 1 .. Len(backlog) : backlog'[i] = backlog[i]
      /\ backlog'[Len(backlog) + 1] = c
  BY <1>1, <1>2, AppendProperties
<1>4. LoopTypes'
  BY <1>1, <1>3 DEF LoopInv, LoopTypes, ConnState, Serving
<1>5. \A d \in Clients : InBacklog(d)' <=> InBacklog(d) \/ d = c
  BY <1>3 DEF InBacklog
<1>6. \A d \in Clients : d # c => conn'[d] = conn[d]
  BY <1>1 DEF LoopInv, LoopTypes
<1>7. conn'[c] = "up"
  BY <1>1 DEF LoopInv, LoopTypes
<1>8. FreshAreUntouched'
  <2>1. ASSUME NEW d \in Clients
        PROVE  /\ conn'[d] = "new" => holders[d] = {} /\ ~InBacklog(d)'
               /\ InBacklog(d)' => holders[d] = {}
               /\ Main \in holders[d] => holders[d] = {Main}
               /\ conn'[d] = "new" \/ InBacklog(d)' \/ Main \in holders[d]
                    => Untouched(d)
    <3>1. CASE d = c
      BY <1>1, <1>7, <3>1 DEF LoopInv, FreshAreUntouched
    <3>2. CASE d # c
      BY <1>5, <1>6, <3>2 DEF LoopInv, FreshAreUntouched
    <3> QED BY <3>1, <3>2
  <2>2. \A i, j \in 1 .. Len(backlog') : backlog'[i] = backlog'[j] => i = j
    <3>1. ~InBacklog(c)
      BY <1>1 DEF LoopInv, FreshAreUntouched
    <3> QED BY <1>3, <3>1 DEF LoopInv, FreshAreUntouched, InBacklog
  <2> QED BY <1>1, <2>1, <2>2 DEF FreshAreUntouched, Untouched
<1>9. OneWorkerPerConnection' /\ EchoIsFaithful'
  BY <1>1 DEF LoopInv, OneWorkerPerConnection, EchoIsFaithful, Serving
<1> QED BY <1>4, <1>8, <1>9 DEF LoopInv

\* A connection comes nearer to its end.
LEMMA ConnLoop ==
  ASSUME LoopInv, NEW c \in Clients, NEW s \in ConnState \ {"new"},
         conn' = [conn EXCEPT ![c] = s],
         UNCHANGED <<backlog, sent, inbox, echoed, holders, phase, serves, buf>>
  PROVE  LoopInv'
<1>1. LoopTypes'
  BY DEF LoopInv, LoopTypes, Serving
<1>2. \A d \in Clients : conn'[d] = "new" => conn[d] = "new"
  BY DEF LoopInv, LoopTypes
<1>3. FreshAreUntouched'
  BY <1>2 DEF LoopInv, FreshAreUntouched, InBacklog, Untouched
<1>4. OneWorkerPerConnection' /\ EchoIsFaithful'
  BY DEF LoopInv, OneWorkerPerConnection, EchoIsFaithful, Serving
<1> QED BY <1>1, <1>3, <1>4 DEF LoopInv

\* Concatenation of byte strings.
LEMMA ByteStrings ==
  \A x, y, z \in Seq(Byte) :
    /\ (x \o y) \o z = x \o (y \o z)
    /\ \A b \in Byte : Append(x \o y, b) = x \o Append(y, b)
<1>1. ASSUME NEW x \in Seq(Byte), NEW y \in Seq(Byte), NEW z \in Seq(Byte)
      PROVE  (x \o y) \o z = x \o (y \o z)
  BY ConcatAssociative
<1>2. ASSUME NEW x \in Seq(Byte), NEW y \in Seq(Byte), NEW b \in Byte
      PROVE  Append(x \o y, b) = x \o Append(y, b)
  <2>1. x \o y \in Seq(Byte) /\ <<b>> \in Seq(Byte)
    BY ConcatProperties
  <2>2. /\ Append(x \o y, b) = (x \o y) \o <<b>>
        /\ Append(y, b) = y \o <<b>>
    BY <2>1, AppendIsConcat
  <2> QED BY <1>1, <2>1, <2>2
<1> QED BY <1>1, <1>2

\* A byte arrives, whoever has the server's end of the connection open.
ByteArrives(c) ==
  /\ Len(sent[c]) < MaxBytes
  /\ \E b \in [from : {c}, n : {Len(sent[c]) + 1}, nl : BOOLEAN] :
       /\ sent'  = [sent EXCEPT ![c] = Append(@, b)]
       /\ inbox' = [inbox EXCEPT ![c] = Append(@, b)]
  /\ UNCHANGED <<backlog, conn, echoed, holders, phase, serves, buf>>

LEMMA SendByteLoop ==
  ASSUME LoopInv, NEW c \in Clients, SendByte(c) \/ ByteArrives(c)
  PROVE  LoopInv'
<1>0. ByteArrives(c)
  BY DEF SendByte, ByteArrives, workerVars
<1>1. PICK b \in Byte :
        /\ sent'  = [sent EXCEPT ![c] = Append(@, b)]
        /\ inbox' = [inbox EXCEPT ![c] = Append(@, b)]
  <2>1. PICK b \in [from : {c}, n : {Len(sent[c]) + 1}, nl : BOOLEAN] :
          /\ sent'  = [sent EXCEPT ![c] = Append(@, b)]
          /\ inbox' = [inbox EXCEPT ![c] = Append(@, b)]
    BY <1>0 DEF ByteArrives
  <2>2. Len(sent[c]) + 1 \in 1 .. MaxBytes
    <3>1. Len(sent[c]) \in Nat /\ Len(sent[c]) < MaxBytes
      BY <1>0, LenProperties DEF ByteArrives, LoopInv, LoopTypes
    <3> QED BY <3>1, EchoAssumption
  <2>3. b \in Byte
    BY <2>1, <2>2 DEF Byte
  <2> QED BY <2>1, <2>3
<1>2. UNCHANGED <<backlog, conn, echoed, holders, phase, serves, buf>>
  BY <1>0 DEF ByteArrives
<1>3. /\ sent \in [Clients -> Seq(Byte)] /\ inbox \in [Clients -> Seq(Byte)]
      /\ echoed \in [Clients -> Seq(Byte)] /\ buf \in [Workers -> Seq(Byte)]
  BY DEF LoopInv, LoopTypes
<1>4. Append(sent[c], b) \in Seq(Byte) /\ Append(inbox[c], b) \in Seq(Byte)
  BY <1>3, AppendProperties
<1>5. /\ sent'[c] = Append(sent[c], b) /\ inbox'[c] = Append(inbox[c], b)
      /\ \A d \in Clients : d # c => sent'[d] = sent[d] /\ inbox'[d] = inbox[d]
  BY <1>1, <1>3
<1>6. LoopTypes'
  <2>1. sent' \in [Clients -> Seq(Byte)] /\ inbox' \in [Clients -> Seq(Byte)]
    BY <1>1, <1>3, <1>4
  <2> QED BY <1>2, <2>1 DEF LoopInv, LoopTypes, Serving
<1>7. \A d \in Clients : Untouched(d) => Untouched(d)'
  BY <1>2, <1>5 DEF Untouched
<1>8. FreshAreUntouched'
  BY <1>2, <1>7 DEF LoopInv, FreshAreUntouched, InBacklog
<1>9. OneWorkerPerConnection'
  BY <1>2 DEF LoopInv, OneWorkerPerConnection, Serving
<1>10. ASSUME NEW w \in Workers, Serving(w)
       PROVE  Faithful(w)'
  <2>1. Faithful(w) /\ serves[w] \in Clients
    BY <1>10 DEF LoopInv, LoopTypes, EchoIsFaithful, Faithful
  <2>2. CASE serves[w] # c
    BY <1>2, <1>5, <2>1, <2>2 DEF Faithful
  <2>3. CASE serves[w] = c
    <3> DEFINE held == IF phase[w] = "send" THEN buf[w] ELSE <<>>
    <3>1. held \in Seq(Byte)
      BY <1>3, EmptySeq
    <3>2. echoed[c] \o held \in Seq(Byte)
      BY <1>3, <3>1, ConcatProperties
    <3>3. sent[c] = (echoed[c] \o held) \o inbox[c]
      BY <2>1, <2>3 DEF Faithful
    <3>4. sent'[c] = (echoed[c] \o held) \o inbox'[c]
      <4> DEFINE front == echoed[c] \o held
      <4>1. front \in Seq(Byte) /\ inbox[c] \in Seq(Byte)
        BY <1>3, <3>2
      <4>2. sent[c] = front \o inbox[c]
        BY <3>3
      <4> HIDE DEF front
      <4>3. Append(front \o inbox[c], b) = front \o Append(inbox[c], b)
        BY <4>1, ByteStrings
      <4>4. sent'[c] = front \o inbox'[c]
        BY <1>5, <4>2, <4>3
      <4> QED BY <4>4 DEF front
    <3> QED BY <1>2, <2>3, <3>4 DEF Faithful
  <2> QED BY <2>2, <2>3
<1>11. EchoIsFaithful'
  BY <1>2, <1>10 DEF EchoIsFaithful, Faithful, Serving
<1> QED BY <1>6, <1>8, <1>9, <1>11 DEF LoopInv

LEMMA HangUpLoop ==
  ASSUME LoopInv, NEW c \in Clients, HangUp(c)
  PROVE  LoopInv'
<1>1. PICK s \in {"fin", "rst"} : conn' = [conn EXCEPT ![c] = s]
  BY DEF HangUp
<1> QED BY <1>1, ConnLoop DEF HangUp, ConnState, workerVars

-----------------------------------------------------------------------------
(***************************************************************************)
(* The loop                                                                *)
(***************************************************************************)
\* Nobody but w serves the client of w, and it is not fresh.
LEMMA OwnClient ==
  ASSUME LoopInv, NEW w \in Workers, Serving(w)
  PROVE  /\ serves[w] \in Clients
         /\ \A v \in Workers : Serving(v) /\ serves[v] = serves[w] => v = w
         /\ w \in holders[serves[w]] /\ Main \notin holders[serves[w]]
         /\ conn[serves[w]] # "new" /\ ~InBacklog(serves[w])
<1>1. serves[w] \in Clients
  BY DEF LoopInv, LoopTypes
<1>2. w \in holders[serves[w]] /\ w # Main
  BY <1>1, EchoAssumption DEF LoopInv, OneWorkerPerConnection
<1> QED BY <1>1, <1>2 DEF LoopInv, OneWorkerPerConnection, FreshAreUntouched

LEMMA RecvLoop ==
  ASSUME LoopInv, NEW w \in Workers, Recv(w)
  PROVE  LoopInv'
<1> DEFINE c == serves[w]
           k == Least(BUFSIZE, Len(inbox[c]))
           in == inbox[c]
<1>1. /\ phase[w] = "recv"
      /\ buf' = [buf EXCEPT ![w] = SubSeq(in, 1, k)]
      /\ inbox' = [inbox EXCEPT ![c] = SubSeq(@, k + 1, Len(@))]
      /\ phase' = [phase EXCEPT ![w] = "send"]
      /\ UNCHANGED <<backlog, conn, sent, echoed, holders, serves>>
  BY DEF Recv, RecvInto
<1>2. Serving(w)
  BY <1>1 DEF Serving
<1>3. /\ c \in Clients
      /\ \A v \in Workers : Serving(v) /\ serves[v] = c => v = w
      /\ Main \notin holders[c] /\ conn[c] # "new" /\ ~InBacklog(c)
  BY <1>2, OwnClient
<1>4. /\ in \in Seq(Byte) /\ echoed[c] \in Seq(Byte) /\ Len(in) \in Nat
      /\ k \in 0 .. Len(in)
  <2>1. in \in Seq(Byte) /\ echoed[c] \in Seq(Byte)
    BY <1>3 DEF LoopInv, LoopTypes
  <2>2. Len(in) \in Nat
    BY <2>1, LenProperties
  <2> QED BY <2>1, <2>2, EchoAssumption DEF Least
<1>5. /\ SubSeq(in, 1, k) \in Seq(Byte)
      /\ SubSeq(in, k + 1, Len(in)) \in Seq(Byte)
      /\ SubSeq(in, 1, k) \o SubSeq(in, k + 1, Len(in)) = in
  <2> HIDE DEF in, k
  <2>1. \A i \in 1 .. k : in[i] \in Byte
    BY <1>4, ElementOfSeq
  <2>2. \A i \in k + 1 .. Len(in) : in[i] \in Byte
    BY <1>4, ElementOfSeq
  <2>3. SubSeq(in, 1, k) \in Seq(Byte)
    BY <1>4, <2>1, SubSeqProperties
  <2>4. SubSeq(in, k + 1, Len(in)) \in Seq(Byte)
    BY <1>4, <2>2, SubSeqProperties
  <2>5. SubSeq(in, 1, k) \o SubSeq(in, k + 1, Len(in)) = SubSeq(in, 1, Len(in))
    <3>1. 1 \in 1 .. Len(in) + 1 /\ k \in 1 - 1 .. Len(in)
          /\ Len(in) \in k .. Len(in)
      BY <1>4
    <3> QED BY <1>4, <3>1, ConcatAdjacentSubSeq
  <2> QED BY <1>4, <2>3, <2>4, <2>5, SubSeqFull
<1>6. /\ buf'[w] = SubSeq(in, 1, k) /\ inbox'[c] = SubSeq(in, k + 1, Len(in))
      /\ phase'[w] = "send"
      /\ \A d \in Clients : d # c => inbox'[d] = inbox[d]
      /\ \A v \in Workers : v # w => buf'[v] = buf[v] /\ phase'[v] = phase[v]
  BY <1>1, <1>3 DEF LoopInv, LoopTypes
<1>7. \A v \in Workers : Serving(v)' = Serving(v)
  BY <1>1, <1>6 DEF Serving
<1>8. LoopTypes'
  <2>1. /\ buf' \in [Workers -> Seq(Byte)] /\ inbox' \in [Clients -> Seq(Byte)]
        /\ phase' \in [Workers -> Phase]
    BY <1>1, <1>3, <1>5 DEF LoopInv, LoopTypes, Phase
  <2> QED BY <1>1, <1>7, <2>1 DEF LoopInv, LoopTypes
<1>9. FreshAreUntouched'
  <2>1. \A d \in Clients : d # c /\ Untouched(d) => Untouched(d)'
    BY <1>1, <1>6 DEF Untouched
  <2> QED BY <1>1, <1>3, <2>1 DEF LoopInv, FreshAreUntouched, InBacklog
<1>10. OneWorkerPerConnection'
  BY <1>1, <1>7 DEF LoopInv, OneWorkerPerConnection
<1>11. Faithful(w)'
  <2>1. sent[c] = (echoed[c] \o <<>>) \o in
    BY <1>1, <1>2 DEF LoopInv, EchoIsFaithful
  <2>2. sent[c] = echoed[c] \o in
    BY <1>4, <2>1, ConcatEmptySeq
  <2>3. sent[c] = (echoed[c] \o SubSeq(in, 1, k)) \o SubSeq(in, k + 1, Len(in))
    <3> DEFINE a == SubSeq(in, 1, k)
               z == SubSeq(in, k + 1, Len(in))
    <3>1. /\ a \in Seq(Byte) /\ z \in Seq(Byte) /\ a \o z = in
          /\ echoed[c] \in Seq(Byte)
      BY <1>4, <1>5
    <3> HIDE DEF a, z, in
    <3>2. (echoed[c] \o a) \o z = echoed[c] \o (a \o z)
      BY <3>1, ByteStrings
    <3>3. sent[c] = (echoed[c] \o a) \o z
      BY <2>2, <3>1, <3>2
    <3> QED BY <3>3 DEF a, z
  <2> QED BY <1>1, <1>6, <2>3 DEF Faithful
<1>12. ASSUME NEW v \in Workers, v # w, Serving(v) PROVE Faithful(v)'
  <2>1. serves[v] # c /\ serves[v] \in Clients
    BY <1>3, <1>12 DEF LoopInv, LoopTypes
  <2>2. Faithful(v)
    BY <1>12 DEF LoopInv, EchoIsFaithful, Faithful
  <2>3. /\ inbox'[serves[v]] = inbox[serves[v]]
        /\ buf'[v] = buf[v] /\ phase'[v] = phase[v]
    BY <1>6, <1>12, <2>1
  <2>4. serves' = serves /\ sent' = sent /\ echoed' = echoed
    BY <1>1
  <2> HIDE DEF c, k, in
  <2> QED BY <2>2, <2>3, <2>4 DEF Faithful
<1>13. EchoIsFaithful'
  BY <1>7, <1>11, <1>12 DEF EchoIsFaithful, Faithful
<1> QED BY <1>8, <1>9, <1>10, <1>13 DEF LoopInv

\* What a send changes outside of the worker.
LEMMA DeliverLoop ==
  ASSUME LoopInv, NEW w \in Workers, Serving(w), Deliver(w)
  PROVE  /\ conn' \in [Clients -> ConnState]
         /\ \A d \in Clients : conn'[d] = "new" => conn[d] = "new"
         /\ \A d \in Clients : Reset(d) => Reset(d)'
         /\ echoed' \in [Clients -> Seq(Byte)]
         /\ echoed'[serves[w]] = echoed[serves[w]] \o buf[w]
         /\ \A d \in Clients : d # serves[w] => echoed'[d] = echoed[d]
<1>1. /\ serves[w] \in Clients /\ echoed \in [Clients -> Seq(Byte)]
      /\ buf[w] \in Seq(Byte) /\ conn \in [Clients -> ConnState]
  BY DEF LoopInv, LoopTypes
<1>2. echoed[serves[w]] \o buf[w] \in Seq(Byte)
  BY <1>1, ConcatProperties
<1>3. echoed' = [echoed EXCEPT ![serves[w]] = @ \o buf[w]]
  BY DEF Deliver
<1>4. \/ UNCHANGED conn
      \/ /\ conn[serves[w]] = "fin"
         /\ \E s \in {"fin", "finrst"} : conn' = [conn EXCEPT ![serves[w]] = s]
  BY DEF Deliver
<1>5. /\ conn' \in [Clients -> ConnState]
      /\ \A d \in Clients : conn'[d] = "new" => conn[d] = "new"
      /\ \A d \in Clients : Reset(d) => Reset(d)'
  BY <1>1, <1>4 DEF ConnState, Reset
<1> QED BY <1>1, <1>2, <1>3, <1>5

LEMMA SendOnLoop ==
  ASSUME LoopInv, NEW w \in Workers, SendOn(w)
  PROVE  LoopInv'
<1> DEFINE c == serves[w]
<1>1. /\ phase[w] = "send" /\ Deliver(w) /\ Serving(w)
      /\ phase' = [phase EXCEPT ![w] = "recv"]
      /\ UNCHANGED <<backlog, sent, inbox, holders, serves, buf>>
  BY DEF SendOn, Serving
<1>2. /\ c \in Clients
      /\ \A v \in Workers : Serving(v) /\ serves[v] = c => v = w
      /\ Main \notin holders[c] /\ conn[c] # "new" /\ ~InBacklog(c)
  BY <1>1, OwnClient
<1>3. /\ conn' \in [Clients -> ConnState]
      /\ \A d \in Clients : conn'[d] = "new" => conn[d] = "new"
      /\ echoed' \in [Clients -> Seq(Byte)]
      /\ echoed'[c] = echoed[c] \o buf[w]
      /\ \A d \in Clients : d # c => echoed'[d] = echoed[d]
  BY <1>1, DeliverLoop
<1>4. /\ phase'[w] = "recv"
      /\ \A v \in Workers : v # w => phase'[v] = phase[v]
      /\ phase' \in [Workers -> Phase]
  BY <1>1 DEF LoopInv, LoopTypes, Phase
<1>5. \A v \in Workers : Serving(v)' = Serving(v)
  BY <1>1, <1>4 DEF Serving
<1>6. LoopTypes'
  BY <1>1, <1>3, <1>4, <1>5 DEF LoopInv, LoopTypes
<1>7. FreshAreUntouched'
  <2>1. \A d \in Clients : d # c /\ Untouched(d) => Untouched(d)'
    BY <1>1, <1>3 DEF Untouched
  <2>2. \A d \in Clients : InBacklog(d)' = InBacklog(d)
    BY <1>1 DEF InBacklog
  <2>3. conn'[c] # "new" /\ Main \notin holders'[c]
    BY <1>1, <1>2, <1>3
  <2> HIDE DEF c
  <2> QED BY <1>1, <1>2, <1>3, <2>1, <2>2, <2>3 DEF LoopInv, FreshAreUntouched
<1>8. OneWorkerPerConnection'
  BY <1>1, <1>5 DEF LoopInv, OneWorkerPerConnection
<1>9. Faithful(w)'
  <2>1. sent[c] = (echoed[c] \o buf[w]) \o inbox[c]
    BY <1>1 DEF LoopInv, EchoIsFaithful
  <2>2. echoed'[c] \in Seq(Byte)
    BY <1>2, <1>3
  <2>3. sent[c] = (echoed'[c] \o <<>>) \o inbox[c]
    BY <1>3, <2>1, <2>2, ConcatEmptySeq
  <2> QED BY <1>1, <1>4, <2>3 DEF Faithful
<1>10. ASSUME NEW v \in Workers, v # w, Serving(v) PROVE Faithful(v)'
  <2>1. serves[v] # c /\ serves[v] \in Clients
    BY <1>2, <1>10 DEF LoopInv, LoopTypes
  <2>2. Faithful(v)
    BY <1>10 DEF LoopInv, EchoIsFaithful, Faithful
  <2>3. echoed'[serves[v]] = echoed[serves[v]] /\ phase'[v] = phase[v]
    BY <1>3, <1>4, <1>10, <2>1
  <2>4. serves' = serves /\ sent' = sent /\ inbox' = inbox /\ buf' = buf
    BY <1>1
  <2> HIDE DEF c
  <2> QED BY <2>2, <2>3, <2>4 DEF Faithful
<1>11. EchoIsFaithful'
  BY <1>5, <1>9, <1>10 DEF EchoIsFaithful, Faithful
<1> QED BY <1>6, <1>7, <1>8, <1>11 DEF LoopInv

-----------------------------------------------------------------------------
(***************************************************************************)
(* How a worker comes to a connection and leaves it                        *)
(***************************************************************************)
\* The head of the queue is in it once.
LEMMA HeadOfQueue ==
  ASSUME LoopInv, backlog # <<>>, backlog' = Tail(backlog)
  PROVE  /\ Head(backlog) \in Clients /\ InBacklog(Head(backlog))
         /\ backlog' \in Seq(Clients)
         /\ \A d \in Clients : InBacklog(d)' => InBacklog(d) /\ d # Head(backlog)
         /\ \A i, j \in 1 .. Len(backlog') : backlog'[i] = backlog'[j] => i = j
<1>1. backlog \in Seq(Clients)
  BY DEF LoopInv, LoopTypes
<1>2. /\ Len(backlog') = Len(backlog) - 1 /\ Len(backlog) \in Nat
      /\ \A i \in 1 .. Len(backlog') : backlog'[i] = backlog[i + 1]
      /\ Head(backlog) = backlog[1] /\ Head(backlog) \in Clients
      /\ 1 \in 1 .. Len(backlog) /\ backlog' \in Seq(Clients)
  BY <1>1
<1>3. \A i \in 1 .. Len(backlog') : /\ i + 1 \in 1 .. Len(backlog)
                                    /\ i + 1 # 1 /\ i \in Int
  BY <1>2
<1>4. \A i, j \in 1 .. Len(backlog) : backlog[i] = backlog[j] => i = j
  BY DEF LoopInv, FreshAreUntouched
<1>5. InBacklog(Head(backlog))
  BY <1>2 DEF InBacklog
<1>6. \A d \in Clients : InBacklog(d)' => InBacklog(d) /\ d # Head(backlog)
  BY <1>2, <1>3, <1>4 DEF InBacklog
<1>7. \A i, j \in 1 .. Len(backlog') : backlog'[i] = backlog'[j] => i = j
  BY <1>2, <1>3, <1>4
<1> QED BY <1>2, <1>5, <1>6, <1>7

\* Main takes the head of the queue, to hand it on.
LEMMA HoldLoop ==
  ASSUME LoopInv, backlog # <<>>, backlog' = Tail(backlog),
         NEW c \in Clients, c = Head(backlog),
         holders' = [holders EXCEPT ![c] = @ \cup {Main}],
         UNCHANGED <<conn, sent, inbox, echoed, phase, serves, buf>>
  PROVE  LoopInv' /\ holders[c] = {} /\ holders'[c] = {Main}
<1>2. /\ InBacklog(c) /\ backlog' \in Seq(Clients)
      /\ \A d \in Clients : InBacklog(d)' => InBacklog(d) /\ d # c
      /\ \A i, j \in 1 .. Len(backlog') : backlog'[i] = backlog'[j] => i = j
  BY HeadOfQueue
<1>3. Untouched(c) /\ conn[c] # "new" /\ holders[c] = {}
  BY <1>2 DEF LoopInv, FreshAreUntouched
<1>4. /\ holders'[c] = {Main}
      /\ \A d \in Clients : d # c => holders'[d] = holders[d]
  BY <1>2, <1>3 DEF LoopInv, LoopTypes
<1>5. LoopTypes'
  BY <1>2 DEF LoopInv, LoopTypes, Serving
<1>6. FreshAreUntouched'
  <2>1. \A d \in Clients : Untouched(d)' = Untouched(d)
    BY DEF Untouched
  <2>2. \A d \in Clients : d # c =>
          /\ conn'[d] = conn[d] /\ holders'[d] = holders[d]
          /\ InBacklog(d)' => InBacklog(d)
    BY <1>2, <1>4
  <2>3. ~InBacklog(c)' /\ conn'[c] # "new"
    BY <1>2, <1>3
  <2> QED BY <1>2, <1>3, <1>4, <2>1, <2>2, <2>3
          DEF LoopInv, FreshAreUntouched
<1>7. OneWorkerPerConnection' /\ EchoIsFaithful'
  <2>1. \A d \in Clients : holders'[d] \ {Main} = holders[d] \ {Main}
    BY <1>3, <1>4
  <2> QED BY <2>1 DEF LoopInv, OneWorkerPerConnection, EchoIsFaithful, Serving
<1> QED BY <1>3, <1>4, <1>5, <1>6, <1>7 DEF LoopInv

\* A worker takes a connection that nobody serves.
LEMMA TakeLoop ==
  ASSUME LoopInv, NEW w \in Workers, ~Serving(w),
         NEW c \in Clients, Untouched(c), conn[c] # "new",
         \A v \in Workers : ~(Serving(v) /\ serves[v] = c),
         serves'  = [serves EXCEPT ![w] = c],
         holders' = [holders EXCEPT ![c] = (@ \ {Main}) \cup {w}],
         phase'   = [phase EXCEPT ![w] = "recv"],
         UNCHANGED <<conn, sent, inbox, echoed, buf>>,
         backlog' \in Seq(Clients),
         \A d \in Clients : InBacklog(d)' => InBacklog(d) /\ d # c,
         \A i, j \in 1 .. Len(backlog') : backlog'[i] = backlog'[j] => i = j
  PROVE  LoopInv'
<1>1. /\ phase'[w] = "recv" /\ serves'[w] = c
      /\ \A v \in Workers : v # w => phase'[v] = phase[v] /\ serves'[v] = serves[v]
      /\ holders'[c] = (holders[c] \ {Main}) \cup {w}
      /\ \A d \in Clients : d # c => holders'[d] = holders[d]
  BY DEF LoopInv, LoopTypes
<1>2. \A v \in Workers : Serving(v)' <=> Serving(v) \/ v = w
  BY <1>1 DEF Serving
<1>3. LoopTypes'
  <2>1. /\ serves' \in [Workers -> Clients \cup {NOBODY}]
        /\ phase' \in [Workers -> Phase]
        /\ holders' \in [Clients -> SUBSET (Workers \cup {Main})]
    BY DEF LoopInv, LoopTypes, Phase
  <2>2. \A v \in Workers : Serving(v)' => serves'[v] \in Clients
    BY <1>1, <1>2 DEF LoopInv, LoopTypes
  <2> QED BY <2>1, <2>2 DEF LoopInv, LoopTypes
<1>4. w # Main
  BY EchoAssumption
<1>5. FreshAreUntouched'
  <2>1. Main \notin holders'[c]
    BY <1>1, <1>4
  <2> QED BY <1>1, <2>1 DEF LoopInv, FreshAreUntouched, Untouched
<1>6. OneWorkerPerConnection'
  <2>1. \A u, v \in Workers :
          Serving(u)' /\ Serving(v)' /\ serves'[u] = serves'[v] => u = v
    BY <1>1, <1>2 DEF LoopInv, OneWorkerPerConnection
  <2>2. ASSUME NEW d \in Clients
        PROVE  holders'[d] \ {Main}
                 = {v \in Workers : Serving(v)' /\ serves'[v] = d}
    <3>1. holders[d] \ {Main} = {v \in Workers : Serving(v) /\ serves[v] = d}
      BY DEF LoopInv, OneWorkerPerConnection
    <3>2. CASE d = c
      BY <1>1, <1>2, <1>4, <3>1, <3>2
    <3>3. CASE d # c
      BY <1>1, <1>2, <3>1, <3>3
    <3> QED BY <3>2, <3>3
  <2> QED BY <2>1, <2>2 DEF OneWorkerPerConnection, Serving
<1>7. EchoIsFaithful'
  <2>1. Faithful(w)'
    <3>1. sent[c] = inbox[c] /\ echoed[c] = <<>> /\ inbox[c] \in Seq(Byte)
      BY DEF Untouched, LoopInv, LoopTypes
    <3>2. <<>> \in Seq(Byte) /\ <<>> \o <<>> = <<>> /\ <<>> \o inbox[c] = inbox[c]
      BY <3>1, EmptySeq, ConcatEmptySeq
    <3> QED BY <1>1, <3>1, <3>2 DEF Faithful
  <2>2. ASSUME NEW v \in Workers, v # w, Serving(v)
        PROVE  Faithful(v)'
    <3>1. Faithful(v)
      BY <2>2 DEF LoopInv, EchoIsFaithful, Faithful
    <3>2. phase'[v] = phase[v] /\ serves'[v] = serves[v]
      BY <1>1, <2>2
    <3> QED BY <3>1, <3>2 DEF Faithful
  <2> QED BY <1>2, <2>1, <2>2 DEF EchoIsFaithful, Faithful
<1> QED BY <1>3, <1>5, <1>6, <1>7 DEF LoopInv

\* A worker closes its connection; the last bytes may be sent before.
LEMMA LeaveLoop ==
  ASSUME LoopInv, NEW w \in Workers, Serving(w),
         Deliver(w) \/ UNCHANGED <<conn, echoed>>,
         NEW p \in Phase \ {"recv", "send"},
         phase'  = [phase EXCEPT ![w] = p],
         serves' = [serves EXCEPT ![w] = NOBODY],
         holders' = [holders EXCEPT ![serves[w]] = @ \ {w}],
         UNCHANGED <<backlog, sent, inbox, buf>>
  PROVE  LoopInv'
<1> DEFINE c == serves[w]
<1>1. /\ phase'[w] = p /\ serves'[w] = NOBODY
      /\ \A v \in Workers : v # w => phase'[v] = phase[v] /\ serves'[v] = serves[v]
  BY DEF LoopInv, LoopTypes
<1>2. \A v \in Workers : Serving(v)' <=> Serving(v) /\ v # w
  BY <1>1 DEF Serving
<1>3. /\ c \in Clients
      /\ \A v \in Workers : Serving(v) /\ serves[v] = c => v = w
      /\ w \in holders[c] /\ Main \notin holders[c]
      /\ conn[c] # "new" /\ ~InBacklog(c)
  BY OwnClient
<1>4. /\ conn' \in [Clients -> ConnState] /\ echoed' \in [Clients -> Seq(Byte)]
      /\ \A d \in Clients : conn'[d] = "new" => conn[d] = "new"
      /\ \A d \in Clients : d # c => echoed'[d] = echoed[d]
  BY DeliverLoop DEF LoopInv, LoopTypes
<1>5. /\ holders'[c] = holders[c] \ {w}
      /\ \A d \in Clients : d # c => holders'[d] = holders[d]
  BY <1>3 DEF LoopInv, LoopTypes
<1>6. LoopTypes'
  <2>1. /\ serves' \in [Workers -> Clients \cup {NOBODY}]
        /\ phase' \in [Workers -> Phase]
    BY DEF LoopInv, LoopTypes
  <2>2. holders' \in [Clients -> SUBSET (Workers \cup {Main})]
    BY <1>3 DEF LoopInv, LoopTypes
  <2>3. \A v \in Workers : Serving(v)' => serves'[v] \in Clients
    BY <1>1, <1>2 DEF LoopInv, LoopTypes
  <2> QED BY <1>4, <2>1, <2>2, <2>3 DEF LoopInv, LoopTypes
<1>7. FreshAreUntouched'
  <2>1. \A d \in Clients : InBacklog(d)' = InBacklog(d)
    BY DEF InBacklog
  <2>2. \A d \in Clients : d # c /\ Untouched(d) => Untouched(d)'
    BY <1>4 DEF Untouched
  <2>3. Main \notin holders'[c] /\ conn'[c] # "new"
    BY <1>3, <1>4, <1>5
  <2> QED BY <1>3, <1>4, <1>5, <2>1, <2>2, <2>3 DEF LoopInv, FreshAreUntouched
<1>8. OneWorkerPerConnection'
  <2>1. \A u, v \in Workers :
          Serving(u)' /\ Serving(v)' /\ serves'[u] = serves'[v] => u = v
    BY <1>1, <1>2 DEF LoopInv, OneWorkerPerConnection
  <2>2. ASSUME NEW d \in Clients
        PROVE  holders'[d] \ {Main}
                 = {v \in Workers : Serving(v)' /\ serves'[v] = d}
    <3>1. holders[d] \ {Main} = {v \in Workers : Serving(v) /\ serves[v] = d}
      BY DEF LoopInv, OneWorkerPerConnection
    <3>2. CASE d = c
      <4>1. holders'[d] = holders[d] \ {w}
        BY <1>5, <3>2
      <4>2. \A v \in Workers :
              Serving(v)' /\ serves'[v] = d
                <=> Serving(v) /\ serves[v] = d /\ v # w
        BY <1>1, <1>2
      <4> QED BY <3>1, <4>1, <4>2
    <3>3. CASE d # c
      <4>1. holders'[d] = holders[d]
        BY <1>5, <3>3
      <4>2. \A v \in Workers :
              Serving(v)' /\ serves'[v] = d <=> Serving(v) /\ serves[v] = d
        BY <1>1, <1>2, <3>3
      <4> QED BY <3>1, <4>1, <4>2
    <3> QED BY <3>2, <3>3
  <2> QED BY <2>1, <2>2 DEF OneWorkerPerConnection, Serving
<1>9. EchoIsFaithful'
  <2>1. ASSUME NEW v \in Workers, v # w, Serving(v)
        PROVE  Faithful(v)'
    <3>1. serves[v] # c /\ serves[v] \in Clients /\ Faithful(v)
      BY <1>3, <2>1 DEF LoopInv, LoopTypes, EchoIsFaithful, Faithful
    <3>2. echoed'[serves[v]] = echoed[serves[v]]
      BY <1>4, <3>1
    <3>3. phase'[v] = phase[v] /\ serves'[v] = serves[v]
      BY <1>1, <2>1
    <3> HIDE DEF c
    <3> QED BY <3>1, <3>2, <3>3 DEF Faithful
  <2> QED BY <1>2, <2>1 DEF EchoIsFaithful, Faithful
<1> QED BY <1>6, <1>7, <1>8, <1>9 DEF LoopInv

\* The end of a process closes its one connection.
LEMMA CloseOne ==
  ASSUME LoopInv, NEW w \in Workers, Serving(w), CloseAllOf({w})
  PROVE  holders' = [holders EXCEPT ![serves[w]] = @ \ {w}]
<1>1. \A d \in Clients : d # serves[w] => w \notin holders[d]
  BY EchoAssumption DEF LoopInv, OneWorkerPerConnection
<1>2. \A d \in Clients : d # serves[w] => holders[d] \ {w} = holders[d]
  BY <1>1
<1>3. holders = [d \in Clients |-> holders[d]]
  BY DEF LoopInv, LoopTypes
<1> QED BY <1>2, <1>3 DEF CloseAllOf

\* A worker that serves nobody changes its phase.
LEMMA IdleLoop ==
  ASSUME LoopInv, NEW w \in Workers, ~Serving(w),
         NEW p \in Phase \ {"recv", "send"},
         phase' = [phase EXCEPT ![w] = p],
         UNCHANGED <<netVars, serves, buf>>
  PROVE  LoopInv'
<1>1. \A v \in Workers : Serving(v)' = Serving(v)
  BY DEF LoopInv, LoopTypes, Serving
<1>2. \A v \in Workers : Serving(v) => phase'[v] = phase[v]
  BY DEF LoopInv, LoopTypes
<1>3. LoopTypes' /\ FreshAreUntouched'
  BY <1>1 DEF LoopInv, LoopTypes, FreshAreUntouched, Untouched, InBacklog, netVars
<1>4. OneWorkerPerConnection'
  BY <1>1 DEF LoopInv, OneWorkerPerConnection, netVars
<1>5. EchoIsFaithful'
  BY <1>1, <1>2 DEF LoopInv, EchoIsFaithful, netVars
<1> QED BY <1>3, <1>4, <1>5 DEF LoopInv

\* All workers end, and what they had open is closed.
LEMMA EndLoop ==
  ASSUME LoopInv,
         phase'  = [w \in Workers |-> "absent"],
         serves' = [w \in Workers |-> NOBODY],
         NEW K \in SUBSET {Main}, holders' = [c \in Clients |-> holders[c] \cap K],
         backlog' = <<>>,
         conn' = [c \in Clients |-> IF InBacklog(c) THEN "rst" ELSE conn[c]],
         UNCHANGED <<sent, inbox, echoed, buf>>
  PROVE  LoopInv'
<1>1. \A w \in Workers : ~Serving(w)'
  BY DEF Serving
<1>2. \A c \in Clients : ~InBacklog(c)'
  BY DEF InBacklog
<1>3. <<>> \in Seq(Clients)
  BY EmptySeq
<1>4. LoopTypes'
  BY <1>1, <1>3 DEF LoopInv, LoopTypes, ConnState, Phase
<1>5. FreshAreUntouched'
  BY <1>2 DEF LoopInv, FreshAreUntouched, Untouched
<1>6. OneWorkerPerConnection' /\ EchoIsFaithful'
  BY <1>1 DEF OneWorkerPerConnection, EchoIsFaithful
<1> QED BY <1>4, <1>5, <1>6 DEF LoopInv

\* Main ends, with what it holds and what is in the queue; the workers stay.
LEMMA MainEndsLoop ==
  ASSUME LoopInv,
         holders' = [c \in Clients |-> holders[c] \ {Main}],
         backlog' = <<>>,
         conn' = [c \in Clients |-> IF InBacklog(c) THEN "rst" ELSE conn[c]],
         UNCHANGED <<sent, inbox, echoed, phase, serves, buf>>
  PROVE  LoopInv'
<1>1. \A c \in Clients : ~InBacklog(c)'
  BY DEF InBacklog
<1>2. <<>> \in Seq(Clients)
  BY EmptySeq
<1>3. LoopTypes'
  BY <1>2 DEF LoopInv, LoopTypes, ConnState, Serving
<1>4. FreshAreUntouched'
  BY <1>1 DEF LoopInv, FreshAreUntouched, Untouched
<1>5. OneWorkerPerConnection'
  BY DEF LoopInv, OneWorkerPerConnection, Serving
<1>6. EchoIsFaithful'
  BY DEF LoopInv, EchoIsFaithful, Serving
<1> QED BY <1>3, <1>4, <1>5, <1>6 DEF LoopInv

LEMMA LoopStutters == LoopInv /\ UNCHANGED loopVars => LoopInv'
<1> SUFFICES ASSUME LoopInv, UNCHANGED loopVars PROVE LoopInv'
  OBVIOUS
<1>1. UNCHANGED <<backlog, conn, sent, inbox, echoed, holders, phase, serves, buf>>
  BY DEF loopVars, netVars, workerVars
<1>2. LoopTypes'
  BY <1>1 DEF LoopInv, LoopTypes, Serving
<1>3. FreshAreUntouched'
  BY <1>1 DEF LoopInv, FreshAreUntouched, Untouched, InBacklog
<1>4. OneWorkerPerConnection' /\ EchoIsFaithful'
  BY <1>1 DEF LoopInv, OneWorkerPerConnection, EchoIsFaithful, Serving
<1> QED BY <1>2, <1>3, <1>4 DEF LoopInv

LEMMA InitLoop == LoopInit => LoopInv
<1> SUFFICES ASSUME LoopInit PROVE LoopInv
  OBVIOUS
<1>1. \A S : <<>> \in Seq(S)
  BY EmptySeq
<1>2. LoopTypes
  BY <1>1 DEF LoopInit, LoopTypes, ConnState, Phase, Serving
<1> QED BY <1>2 DEF LoopInit, LoopInv, FreshAreUntouched, Untouched, InBacklog,
                    OneWorkerPerConnection, EchoIsFaithful, Serving

-----------------------------------------------------------------------------
(***************************************************************************)
(* The loop as an EchoService, step by step.                               *)
(***************************************************************************)
Course(c) == StageOf(c, holders[c])
Stages    == [c \in Clients |-> Course(c)]
Broken    == {c \in Clients : Reset(c)}

\* A worker holds no bytes only behind the end of the file.
EndOfFile ==
  \A w \in Workers : phase[w] = "send" /\ buf[w] = <<>> =>
    inbox[serves[w]] = <<>> /\ conn[serves[w]] \in {"fin", "finrst"}

LEMMA CourseStays ==
  ASSUME NEW c \in Clients, conn'[c] = "new" <=> conn[c] = "new",
         InBacklog(c)' <=> InBacklog(c), holders'[c] = holders[c]
  PROVE  Course(c)' = Course(c)
BY DEF Course, StageOf

LEMMA CourseMoves ==
  ASSUME NEW c \in Clients, NEW from, NEW to, Course(c) = from, Course(c)' = to,
         \A d \in Clients : d # c => Course(d)' = Course(d)
  PROVE  Service!Moves(c, from, to)
BY DEF Service!Moves, Course

LEMMA MovedCourse ==
  ASSUME NEW c \in Clients, NEW from, NEW to, Service!Moves(c, from, to)
  PROVE  /\ Course(c) = from /\ Course(c)' = to
         /\ \A d \in Clients : d # c => Course(d)' = Course(d)
<1>1. Stages[c] = from /\ Stages' = [Stages EXCEPT ![c] = to]
  BY DEF Service!Moves, Stages, Course
<1>2. \A d \in Clients : Stages[d] = Course(d)
  BY DEF Stages
<1>3. \A d \in Clients : Stages'[d] = Course(d)'
  BY DEF Stages
<1>4. Stages'[c] = to /\ \A d \in Clients : d # c => Stages'[d] = Stages[d]
  <2>1. DOMAIN Stages = Clients
    BY DEF Stages
  <2> QED BY <1>1, <2>1
<1> QED BY <1>1, <1>2, <1>3, <1>4

LEMMA SameStages ==
  ASSUME Stages' = Stages PROVE \A c \in Clients : Course(c)' = Course(c)
<1>1. \A c \in Clients : Stages[c] = Course(c)
  BY DEF Stages
<1>2. \A c \in Clients : Stages'[c] = Course(c)'
  BY DEF Stages
<1> QED BY <1>1, <1>2

LEMMA StepConnects ==
  ASSUME LoopInv, NEW c \in Clients, Connect(c)
  PROVE  Service!Connect(c)
<1>1. /\ conn[c] = "new" /\ conn' = [conn EXCEPT ![c] = "up"]
      /\ backlog' = Append(backlog, c)
      /\ UNCHANGED <<sent, inbox, echoed, holders, phase, serves, buf>>
  BY DEF Connect, workerVars
<1>2. \A d \in Clients : InBacklog(d)' <=> InBacklog(d) \/ d = c
  <2>1. backlog \in Seq(Clients)
    BY DEF LoopInv, LoopTypes
  <2>2. /\ Len(backlog) \in Nat /\ Len(backlog') = Len(backlog) + 1
        /\ \A i \in 1 .. Len(backlog) : backlog'[i] = backlog[i]
        /\ backlog'[Len(backlog) + 1] = c
    BY <1>1, <2>1, AppendProperties
  <2> QED BY <2>2 DEF InBacklog
<1>3. conn'[c] = "up" /\ \A d \in Clients : d # c => conn'[d] = conn[d]
  BY <1>1 DEF LoopInv, LoopTypes
<1>4. Course(c) = "new" /\ Course(c)' = "waiting"
  BY <1>1, <1>2, <1>3 DEF Course, StageOf
<1>5. \A d \in Clients : d # c => Course(d)' = Course(d)
  BY <1>1, <1>2, <1>3, CourseStays
<1>6. Service!Moves(c, "new", "waiting")
  BY <1>4, <1>5, CourseMoves
<1>7. Broken' = Broken
  BY <1>1, <1>3 DEF Broken, Reset
<1> QED BY <1>1, <1>6, <1>7 DEF Service!Connect, Broken

\* The step is within the server.
Unseen == UNCHANGED <<Stages, sent, echoed, Broken>>

LEMMA NobodySees ==
  ASSUME UNCHANGED <<sent, echoed>>,
         \A c \in Clients : Course(c)' = Course(c) /\ Reset(c)' = Reset(c)
  PROVE  Unseen
BY DEF Unseen, Stages, Broken

LEMMA StepSends ==
  ASSUME LoopInv, NEW c \in Clients, conn[c] = "up", ByteArrives(c),
         Course(c) = "over" => Service!EndsLine(c)
  PROVE  Service!Send(c)
<1>1. PICK b \in [from : {c}, n : {Len(sent[c]) + 1}, nl : BOOLEAN] :
        sent' = [sent EXCEPT ![c] = Append(@, b)]
  BY DEF ByteArrives
<1>2. Len(sent[c]) \in Nat /\ Len(sent[c]) < MaxBytes
  BY LenProperties DEF ByteArrives, LoopInv, LoopTypes
<1>3. b \in Byte
  BY <1>1, <1>2, EchoAssumption DEF Byte
<1>4. /\ UNCHANGED <<backlog, conn, echoed, holders>>
      /\ Course(c) # "new" /\ c \notin Broken
  BY DEF ByteArrives, Course, StageOf, Broken, Reset
<1>5. \A d \in Clients : InBacklog(d)' = InBacklog(d)
  BY <1>4 DEF InBacklog
<1>6. \A d \in Clients : Course(d)' = Course(d) /\ Reset(d)' = Reset(d)
  BY <1>4, <1>5, CourseStays DEF Reset
<1> QED BY <1>1, <1>3, <1>4, <1>6
        DEF Service!Send, Service!In, Course, Broken

LEMMA StepHangsUp ==
  ASSUME LoopInv, NEW c \in Clients, NEW s \in {"fin", "rst"},
         conn[c] = "up", s = "rst" => echoed[c] # <<>>,
         conn' = [conn EXCEPT ![c] = s],
         UNCHANGED <<backlog, sent, echoed, holders>>
  PROVE  Service!Break(c) \/ Unseen
<1>1. conn'[c] = s /\ \A d \in Clients : d # c => conn'[d] = conn[d]
  BY DEF LoopInv, LoopTypes
<1>2. \A d \in Clients : InBacklog(d)' = InBacklog(d)
  BY DEF InBacklog
<1>3. \A d \in Clients : Course(d)' = Course(d)
  BY <1>1, <1>2, CourseStays
<1>4. CASE s = "fin"
  <2>1. \A d \in Clients : Reset(d)' = Reset(d)
    BY <1>1, <1>4 DEF Reset
  <2> QED BY <1>3, <2>1, NobodySees
<1>5. CASE s = "rst"
  <2>1. Course(c) \in {"served", "over"}
    BY <1>5 DEF LoopInv, FreshAreUntouched, Untouched, Course, StageOf
  <2>2. Broken' = Broken \cup {c}
    BY <1>1, <1>5 DEF Broken, Reset
  <2> QED BY <1>3, <2>1, <2>2 DEF Service!Break, Service!In, Course, Broken
<1> QED BY <1>4, <1>5

\* The client of a worker that serves.
LEMMA OwnCourse ==
  ASSUME LoopInv, NEW w \in Workers, Serving(w)
  PROVE  Course(serves[w]) = "served" /\ holders[serves[w]] = {w}
<1>1. /\ serves[w] \in Clients
      /\ \A v \in Workers : Serving(v) /\ serves[v] = serves[w] => v = w
      /\ w \in holders[serves[w]] /\ Main \notin holders[serves[w]]
      /\ conn[serves[w]] # "new" /\ ~InBacklog(serves[w])
  BY OwnClient
<1>2. holders[serves[w]] = {w}
  BY <1>1 DEF LoopInv, OneWorkerPerConnection
<1> QED BY <1>1, <1>2 DEF Course, StageOf

LEMMA StepRecvs ==
  ASSUME LoopInv, NEW w \in Workers, Recv(w)
  PROVE  Unseen
<1>1. UNCHANGED <<backlog, conn, sent, echoed, holders>>
  BY DEF Recv
<1>2. \A d \in Clients : InBacklog(d)' = InBacklog(d)
  BY <1>1 DEF InBacklog
<1>3. \A d \in Clients : Course(d)' = Course(d) /\ Reset(d)' = Reset(d)
  BY <1>1, <1>2, CourseStays DEF Reset
<1> QED BY <1>1, <1>3, NobodySees

LEMMA StepReplies ==
  ASSUME LoopInv, NEW w \in Workers, phase[w] = "send", ~Reset(serves[w]),
         Deliver(w), UNCHANGED sent
  PROVE  Service!Reply(serves[w])
<1> DEFINE c == serves[w]
           x == echoed[c]
           y == buf[w]
           z == inbox[c]
<1>1. Serving(w) /\ c \in Clients
  BY OwnClient DEF Serving
<1>2. Course(c) = "served" /\ c \notin Broken
  BY <1>1, OwnCourse DEF Broken
<1>3. /\ x \in Seq(Byte) /\ y \in Seq(Byte) /\ z \in Seq(Byte)
      /\ sent[c] = (x \o y) \o z
  BY <1>1 DEF LoopInv, LoopTypes, EchoIsFaithful
<1>4. echoed' = [echoed EXCEPT ![c] = x \o y]
  BY DEF Deliver
<1>5. \E n \in Len(x) .. Len(sent[c]) : x \o y = SubSeq(sent[c], 1, n)
  <2> HIDE DEF x, y, z, c
  <2>1. /\ x \o y \in Seq(Byte) /\ Len(x \o y) = Len(x) + Len(y)
        /\ Len(x) \in Nat /\ Len(y) \in Nat /\ Len(z) \in Nat
    BY <1>3, ConcatProperties, LenProperties
  <2>2. /\ Len(sent[c]) = Len(x \o y) + Len(z)
    BY <1>3, <2>1, ConcatProperties
  <2>3. SubSeq(sent[c], 1, Len(x \o y)) = x \o y
    <3>1. CASE Len(x \o y) = 0
      <4>1. x \o y = <<>>
        BY <2>1, <3>1, EmptySeq
      <4> QED BY <3>1, <4>1, SubSeqEmpty
    <3>2. CASE Len(x \o y) # 0
      <4>1. 1 \in 1 .. Len(x \o y) /\ Len(x \o y) \in 1 .. Len(x \o y)
        BY <2>1, <3>2
      <4>2. SubSeq((x \o y) \o z, 1, Len(x \o y)) = SubSeq(x \o y, 1, Len(x \o y))
        BY <1>3, <2>1, <4>1, SubSeqOfConcat1
      <4> QED BY <1>3, <2>1, <4>2, SubSeqFull
    <3> QED BY <3>1, <3>2
  <2>4. Len(x \o y) \in Len(x) .. Len(sent[c])
    BY <2>1, <2>2
  <2> QED BY <2>3, <2>4
<1>6. Broken' \in {Broken, Broken \cup {c}}
  <2>1. \A d \in Clients : d # c => conn'[d] = conn[d]
    BY DEF Deliver, LoopInv, LoopTypes
  <2>2. conn[c] = conn'[c] \/ conn'[c] \in {"fin", "finrst"}
    BY <1>1 DEF Deliver, LoopInv, LoopTypes
  <2> HIDE DEF c
  <2>3. CASE conn'[c] \in {"finrst", "rst"}
    <3>1. \A d \in Clients : Reset(d)' <=> Reset(d) \/ d = c
      BY <2>1, <2>3 DEF Reset
    <3> QED BY <1>1, <3>1 DEF Broken
  <2>4. CASE conn'[c] \notin {"finrst", "rst"}
    <3>1. \A d \in Clients : Reset(d)' <=> Reset(d)
      BY <1>2, <2>1, <2>4 DEF Reset, Broken
    <3> QED BY <3>1 DEF Broken
  <2> QED BY <2>3, <2>4
<1> QED BY <1>1, <1>2, <1>4, <1>5, <1>6
        DEF Service!Reply, Service!In, Course, Broken

LEMMA StepEchoes ==
  ASSUME LoopInv, NEW w \in Workers, SendOn(w)
  PROVE  Service!Echo(serves[w])
<1>1. /\ phase[w] = "send" /\ ~Reset(serves[w]) /\ Deliver(w)
      /\ UNCHANGED <<backlog, sent, holders>>
  BY DEF SendOn
<1>2. Service!Reply(serves[w])
  BY <1>1, StepReplies
<1>3. \A d \in Clients : InBacklog(d)' = InBacklog(d)
  BY <1>1 DEF InBacklog
<1>4. \A d \in Clients : conn'[d] = "new" <=> conn[d] = "new"
  BY <1>1 DEF Deliver, LoopInv, LoopTypes
<1>5. \A d \in Clients : Course(d)' = Course(d)
  BY <1>1, <1>3, <1>4, CourseStays
<1> QED BY <1>2, <1>5 DEF Service!Echo, Course

\* A worker takes a connection that waited, from the queue or from Main.
LEMMA StepServes ==
  ASSUME LoopInv, NEW w \in Workers, NEW c \in Clients,
         Course(c) = "waiting",
         holders' = [holders EXCEPT ![c] = (@ \ {Main}) \cup {w}],
         UNCHANGED <<conn, sent, echoed>>,
         \A d \in Clients : InBacklog(d)' <=> InBacklog(d) /\ d # c
  PROVE  Service!Serve(c)
<1>1. /\ w \in holders'[c] /\ w # Main /\ conn[c] # "new"
      /\ \A d \in Clients : d # c => holders'[d] = holders[d]
  BY EchoAssumption DEF LoopInv, LoopTypes, Course, StageOf
<1>2. Course(c)' = "served"
  BY <1>1 DEF Course, StageOf
<1>3. \A d \in Clients : d # c => Course(d)' = Course(d)
  BY <1>1, CourseStays
<1>4. Service!Moves(c, "waiting", "served")
  BY <1>2, <1>3, CourseMoves
<1>5. Broken' = Broken
  BY DEF Broken, Reset
<1> QED BY <1>4, <1>5 DEF Service!Serve, Broken

\* The end of a conversation for the one who served it.
LEMMA CourseEnds ==
  ASSUME LoopInv, NEW w \in Workers, Serving(w),
         holders' = [holders EXCEPT ![serves[w]] = @ \ {w}],
         \A d \in Clients : conn'[d] = "new" <=> conn[d] = "new",
         UNCHANGED backlog
  PROVE  Service!Moves(serves[w], "served", "over")
<1>1. PICK c \in Clients : c = serves[w]
  BY OwnClient
<1>2. Course(c) = "served" /\ holders[c] = {w} /\ conn[c] # "new" /\ ~InBacklog(c)
  BY <1>1, OwnClient, OwnCourse
<1>3. \A d \in Clients : InBacklog(d)' = InBacklog(d)
  BY DEF InBacklog
<1>4. holders'[c] = {} /\ \A d \in Clients : d # c => holders'[d] = holders[d]
  BY <1>1, <1>2 DEF LoopInv, LoopTypes
<1>5. Course(c)' = "over"
  BY <1>2, <1>3, <1>4 DEF Course, StageOf
<1>6. \A d \in Clients : d # c => Course(d)' = Course(d)
  BY <1>3, <1>4, CourseStays
<1>7. Service!Moves(c, "served", "over")
  BY <1>2, <1>5, <1>6, CourseMoves
<1> QED BY <1>1, <1>7

\* The loop ends behind a byte that ends a line, if there is one.
LEMMA EndsWithLine ==
  ASSUME LoopInv, NEW w \in Workers, SendLast(w), buf[w] # <<>>,
         NEW c \in Clients, c = serves[w]
  PROVE  Service!EndsLine(c)'
<1> DEFINE x == echoed[c]
           y == buf[w]
           e == x \o y
<1>1. x \in Seq(Byte) /\ y \in Seq(Byte) /\ echoed'[c] = e
  BY DEF LoopInv, LoopTypes, SendLast, Deliver
<1>2. y[Len(y)].nl = TRUE
  BY DEF SendLast, SawNewline
<1>3. Len(y) \in Nat /\ Len(y) # 0 /\ Len(x) \in Nat
  BY <1>1, EmptySeq, LenProperties
<1>4. y[Len(y)] \in Byte
  BY <1>1, <1>3, ElementOfSeq
<1>5. y[Len(y)] \in {b \in Byte : b.nl}
  BY <1>2, <1>4
<1> HIDE DEF x, y
<1>6. /\ Len(e) = Len(x) + Len(y)
      /\ \A i \in 1 .. Len(x) + Len(y) : e[i] =
           IF i <= Len(x) THEN x[i] ELSE y[i - Len(x)]
  BY <1>1, ConcatProperties
<1>7. e[Len(x) + Len(y)] = y[Len(y)]
  BY <1>3, <1>6
<1> HIDE DEF e
<1>8. echoed'[c] # <<>> /\ echoed'[c][Len(echoed'[c])] = y[Len(y)]
  BY <1>1, <1>3, <1>6, <1>7
<1> QED BY <1>5, <1>8 DEF Service!EndsLine

LEMMA StepFinishes ==
  ASSUME LoopInv, EndOfFile, NEW w \in Workers, SendLast(w),
         NEW c \in Clients, c = serves[w]
  PROVE  Service!Finish(c)
<1>1. /\ phase[w] = "send" /\ ~Reset(serves[w]) /\ Deliver(w) /\ Serving(w)
      /\ holders' = [holders EXCEPT ![serves[w]] = @ \ {w}]
      /\ UNCHANGED <<backlog, sent, inbox, buf>>
  BY DEF SendLast, Serving
<1>2. Service!Reply(c)
  BY <1>1, StepReplies
<1>3. \A d \in Clients : conn'[d] = "new" <=> conn[d] = "new"
  BY <1>1 DEF Deliver, LoopInv, LoopTypes
<1>4. Service!Moves(c, "served", "over")
  BY <1>1, <1>3, CourseEnds
<1>5. CASE buf[w] = <<>>
  <2> DEFINE x == echoed[c]
             y == buf[w]
  <2>1. /\ x \in Seq(Byte) /\ y \in Seq(Byte)
        /\ sent[c] = (x \o y) \o inbox[c] /\ echoed'[c] = x \o y
    BY <1>1 DEF LoopInv, LoopTypes, EchoIsFaithful, Deliver
  <2>2. inbox[c] = <<>>
    BY <1>1, <1>5 DEF EndOfFile
  <2> HIDE DEF x, y
  <2>3. x \o y \in Seq(Byte)
    BY <2>1, ConcatProperties
  <2>4. echoed'[c] = sent'[c]
    BY <1>1, <2>1, <2>2, <2>3, ConcatEmptySeq
  <2> QED BY <1>2, <1>4, <2>4 DEF Service!Finish, Service!Complete
<1>6. CASE buf[w] # <<>>
  <2>1. Service!EndsLine(c)'
    BY <1>6, EndsWithLine
  <2> QED BY <1>2, <1>4, <2>1 DEF Service!Finish, Service!Complete
<1> QED BY <1>5, <1>6

\* A worker that failed on a reset closes its connection.
LEMMA StepDrops ==
  ASSUME LoopInv, NEW w \in Workers, Serving(w), Reset(serves[w]),
         holders' = [holders EXCEPT ![serves[w]] = @ \ {w}],
         UNCHANGED <<backlog, conn, sent, echoed>>,
         NEW c \in Clients, c = serves[w]
  PROVE  Service!Drop(c)
<1>1. Service!Moves(c, "served", "over")
  BY CourseEnds
<1>2. c \in Broken /\ Broken' = Broken
  BY DEF Broken, Reset
<1> QED BY <1>1, <1>2 DEF Service!Drop, Broken

\* The queue is dropped and nobody is left with Main; the connections of
\* some workers may be closed too.
LEMMA StepAbandons ==
  ASSUME LoopInv, NEW S \in SUBSET Clients,
         \A c \in S : Course(c) = "served" /\ holders'[c] = {},
         \A c \in Clients \ S : holders'[c] = holders[c] \ {Main},
         backlog' = <<>>,
         conn' = [c \in Clients |-> IF InBacklog(c) THEN "rst" ELSE conn[c]],
         UNCHANGED <<sent, echoed>>
  PROVE  Service!Abandon
<1> DEFINE Q == {c \in Clients : InBacklog(c)}
<1>1. \A c \in Clients : ~InBacklog(c)'
  BY DEF InBacklog
<1>2. ASSUME NEW c \in Clients
      PROVE  Course(c)' = IF Course(c) = "waiting" \/ c \in S
                          THEN "over" ELSE Course(c)
  <2>1. conn'[c] = (IF InBacklog(c) THEN "rst" ELSE conn[c]) /\ ~InBacklog(c)'
    BY <1>1
  <2>2. /\ conn[c] = "new" => holders[c] = {} /\ ~InBacklog(c)
        /\ InBacklog(c) => holders[c] = {}
        /\ Main \in holders[c] => holders[c] = {Main}
        /\ holders[c] \subseteq Workers \cup {Main}
    BY DEF LoopInv, FreshAreUntouched, LoopTypes
  <2>3. CASE c \in S
    BY <2>1, <2>3 DEF Course, StageOf
  <2>4. CASE c \notin S
    <3>1. holders'[c] = holders[c] \ {Main}
      BY <2>4
    <3>2. holders'[c] # {Main}
      BY <3>1
    <3>3. CASE Main \in holders[c]
      BY <2>1, <2>2, <2>4, <3>1, <3>3 DEF Course, StageOf
    <3>4. CASE Main \notin holders[c]
      <4>1. holders'[c] = holders[c]
        BY <3>1, <3>4
      <4> QED BY <2>1, <2>2, <2>4, <3>4, <4>1 DEF Course, StageOf
    <3> QED BY <3>3, <3>4
  <2> QED BY <2>3, <2>4
<1>3. Broken' = Broken \cup Q
  BY DEF Broken, Reset
<1>4. \A c \in Q : Course(c) = "waiting"
  BY DEF LoopInv, FreshAreUntouched, Course, StageOf
<1> HIDE DEF Q
<1>5. \A s : Service!In(s) = {c \in Clients : Course(c) = s}
  BY DEF Service!In, Course
<1>6. Q \in SUBSET Service!In("waiting") /\ S \in SUBSET Service!In("served")
  BY <1>4, <1>5 DEF Q
<1>7. Stages' = [c \in Clients |->
                   IF c \in Service!In("waiting") \cup S
                   THEN "over" ELSE Stages[c]]
  BY <1>2, <1>5 DEF Stages
<1> QED BY <1>3, <1>6, <1>7 DEF Service!Abandon, Stages, Course, Broken

-----------------------------------------------------------------------------
\* The end of the file stays what it is, but for the step that reads it.
LEMMA EofStays ==
  ASSUME LoopInv, EndOfFile,
         \A w \in Workers : phase'[w] = "send" =>
           phase[w] = "send" /\ serves'[w] = serves[w] /\ buf'[w] = buf[w],
         \A c \in Clients : conn[c] \in {"fin", "finrst"} /\ ~InBacklog(c) =>
           conn'[c] \in {"fin", "finrst"} /\ inbox'[c] = inbox[c]
  PROVE  EndOfFile'
<1>1. ASSUME NEW w \in Workers, phase'[w] = "send", buf'[w] = <<>>
      PROVE  inbox'[serves'[w]] = <<>> /\ conn'[serves'[w]] \in {"fin", "finrst"}
  <2>1. phase[w] = "send" /\ serves'[w] = serves[w] /\ buf[w] = <<>>
    BY <1>1
  <2>2. /\ serves[w] \in Clients /\ ~InBacklog(serves[w])
        /\ inbox[serves[w]] = <<>> /\ conn[serves[w]] \in {"fin", "finrst"}
    BY <2>1, OwnClient DEF EndOfFile, Serving
  <2> QED BY <2>1, <2>2
<1> QED BY <1>1 DEF EndOfFile

LEMMA RecvEof ==
  ASSUME LoopInv, EndOfFile, NEW w \in Workers, Recv(w)
  PROVE  EndOfFile'
<1>1. PICK c \in Clients : c = serves[w]
  BY OwnClient DEF Recv, Serving
<1> DEFINE in == inbox[c]
           k == Least(BUFSIZE, Len(in))
<1>2. /\ phase[w] = "recv"
      /\ in # <<>> \/ conn[c] \in {"fin", "finrst"}
      /\ buf' = [buf EXCEPT ![w] = SubSeq(in, 1, k)]
      /\ inbox' = [inbox EXCEPT ![c] = SubSeq(@, k + 1, Len(@))]
      /\ phase' = [phase EXCEPT ![w] = "send"]
      /\ UNCHANGED <<conn, serves>>
  BY <1>1 DEF Recv, RecvInto
<1>3. /\ inbox \in [Clients -> Seq(Byte)] /\ buf \in [Workers -> Seq(Byte)]
      /\ phase \in [Workers -> Phase] /\ in \in Seq(Byte) /\ Len(in) \in Nat
      /\ in # <<>> => Len(in) > 0
  <2>1. in \in Seq(Byte)
    BY DEF LoopInv, LoopTypes
  <2> HIDE DEF in
  <2> QED BY <2>1, EmptySeq, LenProperties DEF LoopInv, LoopTypes
<1>4. SubSeq(in, 1, k) = <<>> => in = <<>>
  <2> SUFFICES ASSUME in # <<>> PROVE SubSeq(in, 1, k) # <<>>
    OBVIOUS
  <2>1. k \in 1 .. Len(in)
    BY <1>3, EchoAssumption DEF Least
  <2> HIDE DEF in, k
  <2>2. \A i \in 1 .. k : in[i] \in Byte
    BY <1>3, <2>1, ElementOfSeq
  <2>3. Len(SubSeq(in, 1, k)) = k
    BY <1>3, <2>1, <2>2, SubSeqProperties
  <2> QED BY <2>1, <2>3
<1>5. SubSeq(in, 1, k) = <<>> => SubSeq(in, k + 1, Len(in)) = <<>>
  <2> SUFFICES ASSUME in = <<>> PROVE SubSeq(in, k + 1, Len(in)) = <<>>
    BY <1>4
  <2>1. Len(in) = 0 /\ k = 0
    BY EchoAssumption DEF Least
  <2> HIDE DEF in, k
  <2> QED BY <2>1, SubSeqEmpty
<1>6. ASSUME NEW v \in Workers, phase'[v] = "send", buf'[v] = <<>>
      PROVE  inbox'[serves[v]] = <<>> /\ conn[serves[v]] \in {"fin", "finrst"}
  <2>1. CASE v = w
    <3>1. SubSeq(in, 1, k) = <<>>
      BY <1>2, <1>3, <1>6, <2>1
    <3>2. in = <<>> /\ inbox'[c] = <<>>
      BY <1>2, <1>3, <1>4, <1>5, <3>1
    <3> QED BY <1>1, <1>2, <2>1, <3>2
  <2>2. CASE v # w
    <3>1. phase[v] = "send" /\ buf[v] = <<>>
      BY <1>2, <1>3, <1>6, <2>2
    <3>2. inbox[serves[v]] = <<>> /\ conn[serves[v]] \in {"fin", "finrst"}
      BY <3>1 DEF EndOfFile
    <3>3. Serving(v) /\ Serving(w)
      BY <1>2, <3>1 DEF Serving
    <3>4. serves[v] # c /\ serves[v] \in Clients
      BY <1>1, <2>2, <3>3, OwnClient
    <3> QED BY <1>2, <1>3, <3>2, <3>4
  <2> QED BY <2>1, <2>2
<1> QED BY <1>2, <1>6 DEF EndOfFile

\* Who takes the head of the queue takes it alone.
LEMMA TakenFromQueue ==
  ASSUME LoopInv, backlog # <<>>, backlog' = Tail(backlog),
         NEW c \in Clients, c = Head(backlog)
  PROVE  \A d \in Clients : InBacklog(d)' <=> InBacklog(d) /\ d # c
<1>1. \A d \in Clients : InBacklog(d)' => InBacklog(d) /\ d # c
  BY HeadOfQueue
<1>2. ASSUME NEW d \in Clients, InBacklog(d), d # c
      PROVE  InBacklog(d)'
  <2>1. backlog \in Seq(Clients)
    BY DEF LoopInv, LoopTypes
  <2>2. PICK i \in 1 .. Len(backlog) : backlog[i] = d
    BY <1>2 DEF InBacklog
  <2>3. i # 1 /\ Len(backlog) \in Nat /\ Len(backlog') = Len(backlog) - 1
        /\ \A j \in 1 .. Len(backlog') : backlog'[j] = backlog[j + 1]
    BY <1>2, <2>1, <2>2, HeadTailProperties
  <2>4. i - 1 \in 1 .. Len(backlog') /\ backlog'[i - 1] = d
    BY <2>2, <2>3
  <2> QED BY <2>4 DEF InBacklog
<1> QED BY <1>1, <1>2

\* Nobody sees that Main takes a connection from the queue.
LEMMA StepHolds ==
  ASSUME LoopInv, EndOfFile, backlog # <<>>, backlog' = Tail(backlog),
         NEW c \in Clients, c = Head(backlog),
         holders' = [holders EXCEPT ![c] = @ \cup {Main}],
         UNCHANGED <<conn, sent, inbox, echoed, phase, serves, buf>>
  PROVE  Unseen /\ EndOfFile'
<1>1. \A d \in Clients : InBacklog(d)' <=> InBacklog(d) /\ d # c
  BY TakenFromQueue
<1>2. InBacklog(c) /\ holders[c] = {} /\ holders'[c] = {Main} /\ conn[c] # "new"
  BY HeadOfQueue, HoldLoop DEF LoopInv, FreshAreUntouched
<1>3. \A d \in Clients : d # c => holders'[d] = holders[d]
  BY DEF LoopInv, LoopTypes
<1>4. Course(c)' = Course(c)
  BY <1>2 DEF Course, StageOf
<1>5. \A d \in Clients : Course(d)' = Course(d) /\ Reset(d)' = Reset(d)
  BY <1>1, <1>3, <1>4, CourseStays DEF Reset
<1> QED BY <1>5, NobodySees DEF EndOfFile

\* A worker that has answered holds nothing that matters to it.
LEMMA AnswerKeepsEof ==
  ASSUME LoopInv, EndOfFile, NEW w \in Workers, phase[w] = "send", Deliver(w),
         NEW p \in Phase \ {"send"}, phase' = [phase EXCEPT ![w] = p],
         \A v \in Workers : v # w => serves'[v] = serves[v],
         UNCHANGED <<backlog, inbox, buf>>
  PROVE  EndOfFile'
<1>1. \A v \in Workers : phase'[v] = "send" =>
        phase[v] = "send" /\ serves'[v] = serves[v] /\ buf'[v] = buf[v]
  BY DEF LoopInv, LoopTypes
<1>2. \A c \in Clients : conn[c] \in {"fin", "finrst"} =>
        conn'[c] \in {"fin", "finrst"}
  BY DEF Deliver, LoopInv, LoopTypes
<1> QED BY <1>1, <1>2, EofStays

\* The clients of a server that listens, whoever runs it: Connect and
\* HangUp as they are, SendByte as ByteArrives.
LEMMA ClientSeen ==
  ASSUME LoopInv, EndOfFile, NEW c \in Clients,
         \/ Connect(c) \/ HangUp(c)
         \/ /\ conn[c] = "up" /\ ByteArrives(c)
            /\ Course(c) = "over" => Service!EndsLine(c)
  PROVE  /\ EndOfFile'
         /\ \/ Connect(c) /\ Service!Connect(c)
            \/ Service!Send(c) \/ Service!Break(c) \/ Unseen
<1>1. CASE Connect(c)
  <2>1. /\ conn' = [conn EXCEPT ![c] = "up"] /\ conn[c] = "new"
        /\ UNCHANGED <<inbox, phase, serves, buf>>
    BY <1>1 DEF Connect, workerVars
  <2>2. EndOfFile'
    BY <2>1, EofStays DEF LoopInv, LoopTypes
  <2> QED BY <1>1, <2>2, StepConnects
<1>2. CASE HangUp(c)
  <2>1. PICK s \in {"fin", "rst"} :
          /\ s = "rst" => echoed[c] # <<>>
          /\ conn' = [conn EXCEPT ![c] = s]
    BY <1>2 DEF HangUp
  <2>2. /\ conn[c] = "up"
        /\ UNCHANGED <<backlog, sent, inbox, echoed, holders, phase, serves, buf>>
    BY <1>2 DEF HangUp, workerVars
  <2>3. EndOfFile'
    BY <2>1, <2>2, EofStays DEF LoopInv, LoopTypes
  <2> QED BY <2>1, <2>2, <2>3, StepHangsUp
<1>3. CASE /\ conn[c] = "up" /\ ByteArrives(c)
           /\ Course(c) = "over" => Service!EndsLine(c)
  <2>1. /\ \A d \in Clients : d # c => inbox'[d] = inbox[d]
        /\ UNCHANGED <<conn, phase, serves, buf>>
    BY <1>3 DEF ByteArrives, LoopInv, LoopTypes
  <2>2. EndOfFile'
    BY <1>3, <2>1, EofStays
  <2> QED BY <1>3, <2>2, StepSends
<1> QED BY <1>1, <1>2, <1>3

\* What the service keeps, whether or not it runs.
InFull == \A c \in Clients : Course(c) = "over" /\ c \notin Broken
                             => Service!Complete(c)

LEMMA KeepsAnswers ==
  ASSUME LoopTypes, InFull, NEW c \in Clients,
         \/ Service!Connect(c) \/ Service!Send(c) \/ Service!Break(c)
         \/ Service!Serve(c) \/ Service!Echo(c) \/ Service!Finish(c)
         \/ Service!Drop(c)
  PROVE  InFull'
<1> DEFINE Others ==
             /\ \A d \in Clients : d # c =>
                  /\ Course(d)' = Course(d)
                  /\ sent'[d] = sent[d] /\ echoed'[d] = echoed[d]
             /\ Broken \subseteq Broken'
           Own == Course(c)' = "over" /\ c \notin Broken' => Service!Complete(c)'
<1>1. /\ \A s : Service!In(s) = {d \in Clients : Course(d) = s}
      /\ sent \in [Clients -> Seq(Byte)] /\ echoed \in [Clients -> Seq(Byte)]
  BY DEF Service!In, Course, LoopTypes
<1>2. ASSUME Service!Connect(c) \/ Service!Serve(c) PROVE Others /\ Own
  <2>1. /\ \/ Service!Moves(c, "new", "waiting")
           \/ Service!Moves(c, "waiting", "served")
        /\ sent' = sent /\ echoed' = echoed /\ Broken' = Broken
    BY <1>2 DEF Service!Connect, Service!Serve, Broken
  <2> QED BY <2>1, MovedCourse
<1>3. ASSUME Service!Drop(c) PROVE Others /\ Own
  <2>1. /\ Service!Moves(c, "served", "over") /\ c \in Broken
        /\ sent' = sent /\ echoed' = echoed /\ Broken' = Broken
    BY <1>3 DEF Service!Drop, Broken
  <2> QED BY <2>1, MovedCourse
<1>4. ASSUME Service!Break(c) PROVE Others /\ Own
  <2>1. /\ Stages' = Stages /\ sent' = sent /\ echoed' = echoed
        /\ Broken' = Broken \cup {c}
    BY <1>4 DEF Service!Break, Stages, Course, Broken
  <2> QED BY <2>1, SameStages
<1>5. ASSUME Service!Send(c) PROVE Others /\ Own
  <2>1. /\ Stages' = Stages /\ echoed' = echoed /\ Broken' = Broken
        /\ \E b \in Byte : sent' = [sent EXCEPT ![c] = Append(@, b)]
        /\ c \in Service!In("over") => Service!EndsLine(c)
    BY <1>5 DEF Service!Send, Stages, Course, Broken
  <2>2. Own
    BY <1>1, <2>1, SameStages DEF Service!Complete, Service!EndsLine
  <2> QED BY <1>1, <2>1, <2>2, SameStages
<1>6. ASSUME Service!Reply(c)
      PROVE  /\ \A d \in Clients : d # c =>
                  sent'[d] = sent[d] /\ echoed'[d] = echoed[d]
             /\ Broken \subseteq Broken'
  <2>1. /\ sent' = sent /\ Broken' \in {Broken, Broken \cup {c}}
        /\ \E e : echoed' = [echoed EXCEPT ![c] = e]
    BY <1>6 DEF Service!Reply, Broken
  <2> QED BY <1>1, <2>1
<1>7. ASSUME Service!Echo(c) PROVE Others /\ Own
  <2>1. Stages' = Stages /\ Service!Reply(c) /\ Course(c) = "served"
    BY <1>1, <1>7 DEF Service!Echo, Service!Reply, Stages, Course
  <2> QED BY <1>6, <2>1, SameStages
<1>8. ASSUME Service!Finish(c) PROVE Others /\ Own
  <2>1. Service!Moves(c, "served", "over") /\ Service!Reply(c) /\ Own
    BY <1>8 DEF Service!Finish
  <2> QED BY <1>6, <2>1, MovedCourse
<1>9. Others /\ Own
  BY <1>2, <1>3, <1>4, <1>5, <1>7, <1>8
<1>10. ASSUME NEW d \in Clients, d # c, Course(d)' = "over", d \notin Broken'
       PROVE  Service!Complete(d)'
  <2>1. Service!Complete(d)
    BY <1>9, <1>10 DEF InFull
  <2>2. sent'[d] = sent[d] /\ echoed'[d] = echoed[d]
    BY <1>9, <1>10
  <2> QED BY <2>1, <2>2 DEF Service!Complete, Service!EndsLine
<1> QED BY <1>9, <1>10 DEF InFull

\* What came back stays a beginning of what was sent.
LEMMA KeepsBeginnings ==
  ASSUME LoopTypes, Service!EchoesABeginning,
         \/ UNCHANGED <<sent, echoed>>
         \/ \E c \in Clients : Service!Send(c) \/ Service!Reply(c)
  PROVE  Service!EchoesABeginning'
<1>1. CASE UNCHANGED <<sent, echoed>>
  BY <1>1 DEF Service!EchoesABeginning
<1>2. ASSUME NEW c \in Clients, Service!Reply(c)
      PROVE  Service!EchoesABeginning'
  <2>1. /\ echoed \in [Clients -> Seq(Byte)] /\ sent \in [Clients -> Seq(Byte)]
        /\ Len(echoed[c]) \in Nat
    BY LenProperties DEF LoopTypes
  <2>2. PICK n \in Len(echoed[c]) .. Len(sent[c]) :
          echoed' = [echoed EXCEPT ![c] = SubSeq(sent[c], 1, n)]
    BY <1>2 DEF Service!Reply
  <2>3. n \in 0 .. Len(sent[c]) /\ sent' = sent
    BY <1>2, <2>1, <2>2 DEF Service!Reply
  <2>4. echoed'[c] = SubSeq(sent'[c], 1, n)
    BY <2>1, <2>2, <2>3
  <2>5. \A d \in Clients : d # c => echoed'[d] = echoed[d]
    BY <2>1, <2>2
  <2> QED BY <2>3, <2>4, <2>5 DEF Service!EchoesABeginning
<1>3. ASSUME NEW c \in Clients, Service!Send(c)
      PROVE  Service!EchoesABeginning'
  <2> DEFINE s == sent[c]
  <2>1. PICK b \in Byte : sent' = [sent EXCEPT ![c] = Append(s, b)]
    BY <1>3 DEF Service!Send
  <2>2. s \in Seq(Byte) /\ echoed' = echoed /\ sent'[c] = Append(s, b)
        /\ \A d \in Clients : d # c => sent'[d] = sent[d]
    BY <1>3, <2>1 DEF Service!Send, LoopTypes
  <2>3. PICK n \in 0 .. Len(s) : echoed[c] = SubSeq(s, 1, n)
    BY DEF Service!EchoesABeginning
  <2> HIDE DEF s
  <2>4. /\ Append(s, b) = s \o <<b>> /\ <<b>> \in Seq(Byte)
        /\ Len(s) \in Nat /\ Len(Append(s, b)) = Len(s) + 1
    BY <2>2, AppendIsConcat, AppendProperties, LenProperties
  <2>5. SubSeq(Append(s, b), 1, n) = SubSeq(s, 1, n)
    <3>1. CASE n = 0
      BY <3>1, SubSeqEmpty
    <3>2. CASE n # 0
      <4>1. 1 \in 1 .. Len(s) /\ n \in 1 .. Len(s)
        BY <2>3, <2>4, <3>2
      <4> QED BY <2>2, <2>4, <4>1, SubSeqOfConcat1
    <3> QED BY <3>1, <3>2
  <2>6. n \in 0 .. Len(sent'[c]) /\ echoed'[c] = SubSeq(sent'[c], 1, n)
    BY <2>2, <2>3, <2>4, <2>5
  <2> QED BY <2>2, <2>6 DEF Service!EchoesABeginning
<1> QED BY <1>1, <1>2, <1>3

-----------------------------------------------------------------------------
(***************************************************************************)
(* The pool: its main process has no connection open, a worker is only     *)
(* gone after a reset, and they are all created before main waits.         *)
(***************************************************************************)
PoolInv ==
  /\ LoopInv
  /\ pc \in {"create", "getchar", "dead"}
  /\ \A c \in Clients : Main \notin holders[c]
  /\ (\E w \in Workers : phase[w] = "zombie") => \E c \in Clients : Reset(c)
  /\ pc = "getchar" => \A w \in Workers : phase[w] # "absent"

LEMMA InitPool == Init => PoolInv
<1> SUFFICES ASSUME Init PROVE PoolInv
  OBVIOUS
<1>1. LoopInv
  BY InitLoop DEF Init
<1> QED BY <1>1 DEF Init, LoopInit, PoolInv

LEMMA EndAllPool == PoolInv /\ EndAll => PoolInv'
<1> SUFFICES ASSUME PoolInv, EndAll PROVE PoolInv'
  OBVIOUS
<1>1. holders' = [c \in Clients |-> holders[c] \cap {}]
  BY DEF EndAll, CloseAllOf, PoolInv, LoopInv, LoopTypes
<1>2. LoopInv'
  BY <1>1, EndLoop DEF EndAll, PoolInv
<1> QED BY <1>1, <1>2 DEF EndAll, PoolInv

LEMMA CreatePool == PoolInv /\ Create => PoolInv'
<1> SUFFICES ASSUME PoolInv, Create PROVE PoolInv'
  OBVIOUS
<1>1. PICK w \in Workers : /\ phase[w] = "absent"
                           /\ phase' = [phase EXCEPT ![w] = "accept"]
  BY DEF Create
<1>2. ~Serving(w) /\ "accept" \in Phase \ {"recv", "send"}
  BY <1>1 DEF Serving, Phase
<1>3. LoopInv'
  BY <1>1, <1>2, IdleLoop DEF Create, PoolInv
<1>4. \A v \in Workers : phase'[v] = phase[v] \/ phase'[v] = "accept"
  BY <1>1 DEF PoolInv, LoopInv, LoopTypes
<1> QED BY <1>3, <1>4 DEF Create, PoolInv, netVars, Reset

LEMMA MainPool ==
  PoolInv /\ (AllCreated \/ CreateFails \/ Stop) => PoolInv'
<1>1. ASSUME PoolInv, UNCHANGED loopVars PROVE LoopInv'
  BY <1>1, LoopStutters DEF PoolInv
<1>2. ASSUME PoolInv, AllCreated PROVE PoolInv'
  <2>1. LoopInv'
    BY <1>1, <1>2 DEF AllCreated
  <2> QED BY <1>2, <2>1
          DEF AllCreated, PoolInv, Reset, loopVars, netVars, workerVars
<1>3. ASSUME PoolInv, CreateFails PROVE PoolInv'
  <2>1. CASE EndAll
    BY <1>3, <2>1, EndAllPool
  <2>2. CASE ~EndAll
    <3>1. pc' = "dead" /\ UNCHANGED loopVars
      BY <1>3, <2>2 DEF CreateFails
    <3>2. LoopInv'
      BY <1>1, <1>3, <3>1
    <3> QED BY <1>3, <3>1, <3>2
            DEF PoolInv, Reset, loopVars, netVars, workerVars
  <2> QED BY <2>1, <2>2
<1>4. ASSUME PoolInv, Stop PROVE PoolInv'
  BY <1>4, EndAllPool DEF Stop
<1> QED BY <1>2, <1>3, <1>4

LEMMA AcceptPool ==
  ASSUME PoolInv, NEW w \in Workers, Accept(w)
  PROVE  PoolInv'
<1> DEFINE c == Head(backlog)
<1>1. /\ phase[w] = "accept" /\ backlog # <<>> /\ backlog' = Tail(backlog)
      /\ serves'  = [serves EXCEPT ![w] = c]
      /\ holders' = [holders EXCEPT ![c] = @ \cup {w}]
      /\ phase'   = [phase EXCEPT ![w] = "recv"]
      /\ UNCHANGED <<conn, sent, inbox, echoed, buf, mode, pc>>
  BY DEF Accept
<1>2. /\ c \in Clients /\ InBacklog(c) /\ backlog' \in Seq(Clients)
      /\ \A d \in Clients : InBacklog(d)' => InBacklog(d) /\ d # c
      /\ \A i, j \in 1 .. Len(backlog') : backlog'[i] = backlog'[j] => i = j
  BY <1>1, HeadOfQueue DEF PoolInv
<1> HIDE DEF c
<1>3. ~Serving(w)
  BY <1>1 DEF Serving
<1>4. Untouched(c) /\ conn[c] # "new" /\ holders[c] = {}
  BY <1>2 DEF PoolInv, LoopInv, FreshAreUntouched
<1>5. \A v \in Workers : ~(Serving(v) /\ serves[v] = c)
  BY <1>2, <1>4 DEF PoolInv, LoopInv, OneWorkerPerConnection
<1>6. holders' = [holders EXCEPT ![c] = (@ \ {Main}) \cup {w}]
  BY <1>1, <1>4
<1>7. LoopInv'
  BY <1>1, <1>2, <1>3, <1>4, <1>5, <1>6, TakeLoop DEF PoolInv
<1>8. \A d \in Clients : Main \notin holders'[d]
  BY <1>1, EchoAssumption DEF PoolInv, LoopInv, LoopTypes
<1>9. \A v \in Workers : phase'[v] = phase[v] \/ phase'[v] = "recv"
  BY <1>1 DEF PoolInv, LoopInv, LoopTypes
<1> QED BY <1>1, <1>7, <1>8, <1>9 DEF PoolInv, Reset

LEMMA WorkerRecvPool ==
  ASSUME PoolInv, NEW w \in Workers, WorkerRecv(w)
  PROVE  PoolInv'
<1>1. LoopInv'
  BY RecvLoop DEF WorkerRecv, PoolInv
<1>2. /\ phase' = [phase EXCEPT ![w] = "send"]
      /\ UNCHANGED <<conn, holders, mode, pc>>
  BY DEF WorkerRecv, Recv
<1>3. \A v \in Workers : phase'[v] = phase[v] \/ phase'[v] = "send"
  BY <1>2 DEF PoolInv, LoopInv, LoopTypes
<1> QED BY <1>1, <1>2, <1>3 DEF PoolInv, Reset

LEMMA WorkerSendOnPool ==
  ASSUME PoolInv, NEW w \in Workers, WorkerSendOn(w)
  PROVE  PoolInv'
<1>1. LoopInv'
  BY SendOnLoop DEF WorkerSendOn, PoolInv
<1>2. /\ phase' = [phase EXCEPT ![w] = "recv"] /\ Serving(w) /\ Deliver(w)
      /\ UNCHANGED <<holders, mode, pc>>
  BY DEF WorkerSendOn, SendOn, Serving
<1>3. \A d \in Clients : Reset(d) => Reset(d)'
  BY <1>2, DeliverLoop DEF PoolInv
<1>4. \A v \in Workers : phase'[v] = phase[v] \/ phase'[v] = "recv"
  BY <1>2 DEF PoolInv, LoopInv, LoopTypes
<1> QED BY <1>1, <1>2, <1>3, <1>4 DEF PoolInv

LEMMA DonePool ==
  ASSUME PoolInv, NEW w \in Workers, Done(w)
  PROVE  PoolInv'
<1>1. /\ Serving(w) /\ Deliver(w)
      /\ phase'  = [phase EXCEPT ![w] = "accept"]
      /\ serves' = [serves EXCEPT ![w] = NOBODY]
      /\ holders' = [holders EXCEPT ![serves[w]] = @ \ {w}]
      /\ UNCHANGED <<backlog, sent, inbox, buf, mode, pc>>
  BY DEF Done, SendLast, Serving
<1>2. "accept" \in Phase \ {"recv", "send"}
  BY DEF Phase
<1>3. LoopInv'
  BY <1>1, <1>2, LeaveLoop DEF PoolInv
<1>4. \A d \in Clients : Reset(d) => Reset(d)'
  BY <1>1, DeliverLoop DEF PoolInv
<1>5. \A v \in Workers : phase'[v] = phase[v] \/ phase'[v] = "accept"
  BY <1>1 DEF PoolInv, LoopInv, LoopTypes
<1>6. \A d \in Clients : Main \notin holders'[d]
  BY <1>1 DEF PoolInv, LoopInv, LoopTypes
<1> QED BY <1>1, <1>3, <1>4, <1>5, <1>6 DEF PoolInv

\* The connection of a worker that fails was reset.
LEMMA FailsOnReset ==
  ASSUME LoopInv, NEW w \in Workers, RecvFails(w) \/ SendFails(w)
  PROVE  Serving(w) /\ serves[w] \in Clients /\ Reset(serves[w])
BY DEF LoopInv, LoopTypes, RecvFails, SendFails, Serving, Reset

LEMMA FailsPool ==
  ASSUME PoolInv, NEW w \in Workers, Fails(w)
  PROVE  PoolInv'
<1>1. CASE EndAll
  BY <1>1, EndAllPool
<1>2. CASE ~EndAll
  <2>1. /\ phase'  = [phase EXCEPT ![w] = "zombie"]
        /\ serves' = [serves EXCEPT ![w] = NOBODY]
        /\ CloseAllOf({w})
        /\ UNCHANGED <<backlog, conn, sent, inbox, echoed, buf, mode, pc>>
    BY <1>2 DEF Fails
  <2>2. Serving(w) /\ serves[w] \in Clients /\ Reset(serves[w])
    BY FailsOnReset DEF Fails, PoolInv
  <2>3. "zombie" \in Phase \ {"recv", "send"}
    BY DEF Phase
  <2>4. holders' = [holders EXCEPT ![serves[w]] = @ \ {w}]
    BY <2>1, <2>2, CloseOne DEF PoolInv
  <2>5. LoopInv'
    BY <2>1, <2>2, <2>3, <2>4, LeaveLoop DEF PoolInv
  <2>6. \A d \in Clients : Main \notin holders'[d]
    BY <2>1 DEF PoolInv, CloseAllOf
  <2>7. \A v \in Workers : phase'[v] = phase[v] \/ phase'[v] = "zombie"
    BY <2>1 DEF PoolInv, LoopInv, LoopTypes
  <2>8. \E d \in Clients : conn[d] \in {"finrst", "rst"}
    BY <2>2 DEF Reset
  <2> QED BY <2>1, <2>5, <2>6, <2>7, <2>8 DEF PoolInv, Reset
<1> QED BY <1>1, <1>2

LEMMA ClientPool ==
  ASSUME PoolInv, NEW c \in Clients, Client(c)
  PROVE  PoolInv'
<1>1. LoopInv'
  BY ConnectLoop, SendByteLoop, HangUpLoop DEF Client, PoolInv
<1>2. UNCHANGED <<holders, phase, mode, pc>>
  BY DEF Client, Connect, SendByte, HangUp, workerVars
<1>3. \A d \in Clients : Reset(d) => Reset(d)'
  <2>1. \/ UNCHANGED conn
        \/ /\ conn[c] \in {"new", "up"}
           /\ \E s \in ConnState : conn' = [conn EXCEPT ![c] = s]
    BY DEF Client, Connect, SendByte, HangUp, ConnState
  <2> QED BY <2>1 DEF PoolInv, LoopInv, LoopTypes, Reset
<1> QED BY <1>1, <1>2, <1>3 DEF PoolInv

LEMMA PoolInvariant == Spec => []PoolInv
<1>1. Init => PoolInv
  BY InitPool
<1>2. PoolInv /\ [Next]_vars => PoolInv'
  <2> SUFFICES ASSUME PoolInv, [Next]_vars PROVE PoolInv'
    OBVIOUS
  <2>1. CASE Create
    BY <2>1, CreatePool
  <2>2. CASE AllCreated \/ CreateFails \/ Stop
    BY <2>2, MainPool
  <2>3. ASSUME NEW w \in Workers, Worker(w) PROVE PoolInv'
    BY <2>3, AcceptPool, WorkerRecvPool, WorkerSendOnPool, DonePool, FailsPool
       DEF Worker
  <2>4. ASSUME NEW c \in Clients, Client(c) PROVE PoolInv'
    BY <2>4, ClientPool
  <2>5. CASE UNCHANGED vars
    <3>1. UNCHANGED <<loopVars, mode, pc>>
      BY <2>5 DEF vars
    <3>2. LoopInv'
      BY <3>1, LoopStutters DEF PoolInv
    <3> QED BY <3>1, <3>2 DEF PoolInv, Reset, loopVars, netVars, workerVars
  <2> QED BY <2>1, <2>2, <2>3, <2>4, <2>5 DEF Next
<1> QED BY <1>1, <1>2, PTL DEF Spec

\* No two workers of a pool, processes or threads, are given one
\* connection, and none is left open that nobody serves.
THEOREM NoConnectionIsShared == Spec => []OneWorkerPerConnection
<1>1. PoolInv => OneWorkerPerConnection
  BY DEF PoolInv, LoopInv
<1> QED BY <1>1, PoolInvariant, PTL

\* A client of the pool gets back what it sent, whichever worker it got.
THEOREM PoolEchoes == Spec => []EchoIsFaithful
<1>1. PoolInv => EchoIsFaithful
  BY DEF PoolInv, LoopInv
<1> QED BY <1>1, PoolInvariant, PTL

\* After main has created its workers none is missing until a client
\* resets its connection.
THEOREM PoolIsNotUsedUp == Spec => []PoolStaysFull
<1>1. PoolInv => PoolStaysFull
  BY DEF PoolInv, PoolStaysFull, Alive
<1> QED BY <1>1, PoolInvariant, PTL

\* Which step can take a worker process away, and how many it takes.
THEOREM OneFailureOneWorker == Spec => FailureIsContained
<1> DEFINE Contained ==
      mode = "Fork" => \A w \in Workers :
        Alive(w) /\ ~Alive(w)' =>
          \/ /\ Serving(w) /\ Reset(serves[w])
             /\ \A v \in Workers \ {w} : Alive(v)' = Alive(v)
          \/ pc = "getchar" /\ pc' = "dead"
<1>1. PoolInv /\ [Next]_vars => [Contained]_vars
  <2> SUFFICES ASSUME PoolInv, Next, mode = "Fork",
                      NEW w \in Workers, Alive(w), ~Alive(w)'
               PROVE  \/ /\ Serving(w) /\ Reset(serves[w])
                         /\ \A v \in Workers \ {w} : Alive(v)' = Alive(v)
                      \/ pc = "getchar" /\ pc' = "dead"
    BY DEF Contained
  <2>1. phase \in [Workers -> Phase]
    BY DEF PoolInv, LoopInv, LoopTypes
  <2>2. phase'[w] # phase[w] /\ phase'[w] \in {"absent", "zombie"}
    BY DEF Alive
  <2>3. CASE Create
    <3>1. phase'[w] = phase[w] \/ phase'[w] = "accept"
      BY <2>1, <2>3 DEF Create
    <3> QED BY <2>2, <3>1
  <2>4. CASE AllCreated
    BY <2>2, <2>4 DEF AllCreated, loopVars, workerVars
  <2>5. CASE CreateFails
    BY <2>2, <2>5 DEF CreateFails, SomeAlive, loopVars, workerVars
  <2>6. CASE Stop
    BY <2>6 DEF Stop, EndAll
  <2>7. ASSUME NEW u \in Workers, Fails(u)
        PROVE  /\ Serving(w) /\ Reset(serves[w])
               /\ \A v \in Workers \ {w} : Alive(v)' = Alive(v)
    <3>1. Serving(u) /\ Reset(serves[u])
      BY <2>7, FailsOnReset DEF Fails, PoolInv
    <3>2. CASE pc # "dead" \/ \E v \in Workers \ {u} : Alive(v)
      <4>1. phase' = [phase EXCEPT ![u] = "zombie"]
        BY <2>7, <3>2 DEF Fails
      <4>2. u = w
        BY <2>1, <2>2, <4>1
      <4> QED BY <2>1, <3>1, <4>1, <4>2 DEF Alive
    <3>3. CASE ~(pc # "dead" \/ \E v \in Workers \ {u} : Alive(v))
      <4>1. phase' = [v \in Workers |-> "absent"]
        BY <2>7, <3>3 DEF Fails, EndAll
      <4>2. u = w
        BY <3>3
      <4> QED BY <3>1, <3>3, <4>1, <4>2 DEF Alive
    <3> QED BY <3>2, <3>3
  <2>8. ASSUME NEW u \in Workers,
               Accept(u) \/ WorkerRecv(u) \/ WorkerSendOn(u) \/ Done(u)
        PROVE  FALSE
    <3>1. \E p \in {"recv", "send", "accept"} : phase' = [phase EXCEPT ![u] = p]
      BY <2>8 DEF Accept, WorkerRecv, Recv, WorkerSendOn, SendOn, Done
    <3> QED BY <2>1, <2>2, <3>1
  <2>9. ASSUME NEW c \in Clients, Client(c) PROVE FALSE
    BY <2>2, <2>9 DEF Client, Connect, SendByte, HangUp, workerVars
  <2> QED BY <2>3, <2>4, <2>5, <2>6, <2>7, <2>8, <2>9 DEF Next, Worker
<1>2. Spec => [][Contained]_vars
  BY <1>1, PoolInvariant, PTL DEF Spec
<1> QED BY <1>2 DEF FailureIsContained

-----------------------------------------------------------------------------
(***************************************************************************)
(* The pool is an EchoService that runs as long as it listens.             *)
(***************************************************************************)
Serves == [Service!Next]_(Service!vars)

LEMMA ServesOne ==
  ASSUME NEW c \in Clients,
         \/ Listening /\ Service!Connect(c)
         \/ Service!Send(c) \/ Service!Break(c) \/ Service!Serve(c)
         \/ Service!Echo(c) \/ Service!Finish(c) \/ Service!Drop(c),
         UNCHANGED Listening
  PROVE  Serves
BY DEF Serves, Service!Next, Service!Client

LEMMA ServesUnseen == Unseen /\ UNCHANGED Listening => Serves
BY DEF Serves, Unseen, Stages, Course, Broken, Service!vars

\* All ends: nobody is served any more and nobody waits.
LEMMA EndOfAll ==
  ASSUME LoopInv, EndOfFile, phase' = [w \in Workers |-> "absent"],
         holders' = [c \in Clients |-> {}], backlog' = <<>>,
         conn' = [c \in Clients |-> IF InBacklog(c) THEN "rst" ELSE conn[c]],
         UNCHANGED <<sent, inbox, echoed, buf>>
  PROVE  Service!Abandon /\ EndOfFile'
<1> DEFINE S == {c \in Clients : Course(c) = "served"}
<1>1. \A c \in Clients \ S : holders'[c] = holders[c] \ {Main}
  <2> SUFFICES ASSUME NEW c \in Clients, Course(c) # "served"
               PROVE  holders[c] \subseteq {Main}
    OBVIOUS
  <2> QED BY DEF LoopInv, FreshAreUntouched, Course, StageOf
<1>2. \A c \in S : Course(c) = "served" /\ holders'[c] = {}
  OBVIOUS
<1>3. S \in SUBSET Clients
  OBVIOUS
<1> HIDE DEF S
<1>4. Service!Abandon
  BY <1>1, <1>2, <1>3, StepAbandons
<1>5. EndOfFile'
  BY DEF EndOfFile
<1> QED BY <1>4, <1>5

LEMMA EndAllServes ==
  PoolInv /\ EndOfFile /\ EndAll /\ Listening => Serves /\ EndOfFile'
<1> SUFFICES ASSUME PoolInv, EndOfFile, EndAll, Listening
             PROVE  Serves /\ EndOfFile'
  OBVIOUS
<1>1. /\ pc' = "dead" /\ phase' = [w \in Workers |-> "absent"]
      /\ backlog' = <<>>
      /\ conn' = [c \in Clients |-> IF InBacklog(c) THEN "rst" ELSE conn[c]]
      /\ UNCHANGED <<sent, inbox, echoed, buf>>
  BY DEF EndAll
<1>2. holders' = [c \in Clients |-> {}]
  BY DEF EndAll, CloseAllOf, PoolInv, LoopInv, LoopTypes
<1>3. Service!Abandon /\ EndOfFile'
  BY <1>1, <1>2, EndOfAll DEF PoolInv
<1>4. Listening' = FALSE
  BY <1>1 DEF Listening, SomeAlive, Alive
<1> QED BY <1>3, <1>4 DEF Serves, Service!Next, Service!Stop

LEMMA CreateServes == PoolInv /\ EndOfFile /\ Create => Serves /\ EndOfFile'
<1> SUFFICES ASSUME PoolInv, EndOfFile, Create PROVE Serves /\ EndOfFile'
  OBVIOUS
<1>1. PICK w \in Workers : phase' = [phase EXCEPT ![w] = "accept"]
  BY DEF Create
<1>2. /\ UNCHANGED <<backlog, conn, sent, inbox, echoed, holders, serves, buf, pc>>
      /\ pc = "create"
  BY DEF Create, netVars
<1>3. \A d \in Clients : InBacklog(d)' = InBacklog(d)
  BY <1>2 DEF InBacklog
<1>4. \A d \in Clients : Course(d)' = Course(d) /\ Reset(d)' = Reset(d)
  BY <1>2, <1>3, CourseStays DEF Reset
<1>5. Unseen /\ UNCHANGED Listening
  BY <1>2, <1>4, NobodySees DEF Listening
<1>6. EndOfFile'
  BY <1>1, <1>2, EofStays DEF PoolInv, LoopInv, LoopTypes
<1> QED BY <1>5, <1>6, ServesUnseen

\* What the main process does by itself.
LEMMA MainServes ==
  PoolInv /\ EndOfFile /\ (AllCreated \/ CreateFails \/ Stop)
    => Serves /\ EndOfFile'
<1> SUFFICES ASSUME PoolInv, EndOfFile, AllCreated \/ CreateFails \/ Stop
             PROVE  Serves /\ EndOfFile'
  OBVIOUS
<1>1. pc # "dead" /\ Listening
  BY DEF AllCreated, CreateFails, Stop, Listening
<1>2. CASE EndAll
  BY <1>1, <1>2, EndAllServes
<1>3. CASE ~EndAll
  <2>1. UNCHANGED loopVars /\ (pc' # "dead" \/ SomeAlive)
    BY <1>3 DEF AllCreated, CreateFails, Stop
  <2>2. UNCHANGED <<backlog, conn, sent, inbox, echoed, holders, phase, serves, buf>>
    BY <2>1 DEF loopVars, netVars, workerVars
  <2>3. Listening'
    BY <2>1, <2>2 DEF Listening, SomeAlive, Alive
  <2>4. Unseen /\ EndOfFile'
    BY <2>2 DEF Unseen, Stages, Course, StageOf, InBacklog, Broken, Reset, EndOfFile
  <2> QED BY <1>1, <2>3, <2>4, ServesUnseen
<1> QED BY <1>2, <1>3

LEMMA WorkerServes ==
  ASSUME PoolInv, EndOfFile, NEW w \in Workers, Worker(w)
  PROVE  Serves /\ EndOfFile'
<1>0. LoopInv /\ Listening
  BY DEF PoolInv, Worker, Accept, WorkerRecv, Recv, WorkerSendOn, SendOn, Done,
         SendLast, Fails, RecvFails, SendFails, Listening, SomeAlive, Alive
<1>1. ASSUME NEW p \in {"accept", "recv", "send"},
             phase' = [phase EXCEPT ![w] = p], UNCHANGED pc
      PROVE  UNCHANGED Listening
  BY <1>0, <1>1 DEF LoopInv, LoopTypes, Listening, SomeAlive, Alive
<1>2. CASE Accept(w)
  <2>1. PICK c \in Clients : c = Head(backlog) /\ InBacklog(c)
    BY <1>0, <1>2, HeadOfQueue DEF Accept
  <2>2. /\ backlog # <<>> /\ backlog' = Tail(backlog)
        /\ holders' = [holders EXCEPT ![c] = @ \cup {w}]
        /\ phase' = [phase EXCEPT ![w] = "recv"]
        /\ serves' = [serves EXCEPT ![w] = c]
        /\ UNCHANGED <<conn, sent, inbox, echoed, buf, pc>>
    BY <1>2, <2>1 DEF Accept
  <2>3. holders[c] = {} /\ conn[c] # "new"
    BY <1>0, <2>1 DEF LoopInv, FreshAreUntouched
  <2>4. Course(c) = "waiting"
    BY <2>1, <2>3 DEF Course, StageOf
  <2>5. holders' = [holders EXCEPT ![c] = (@ \ {Main}) \cup {w}]
    BY <2>2, <2>3
  <2>6. \A d \in Clients : InBacklog(d)' <=> InBacklog(d) /\ d # c
    BY <1>0, <2>1, <2>2, TakenFromQueue
  <2>7. Service!Serve(c)
    BY <1>0, <2>2, <2>4, <2>5, <2>6, StepServes
  <2>8. \A v \in Workers : phase'[v] = "send" =>
          phase[v] = "send" /\ serves'[v] = serves[v] /\ buf'[v] = buf[v]
    BY <1>0, <2>2 DEF LoopInv, LoopTypes
  <2>9. EndOfFile'
    BY <1>0, <2>2, <2>8, EofStays
  <2> QED BY <1>1, <2>2, <2>7, <2>9, ServesOne
<1>3. CASE WorkerRecv(w)
  <2>1. /\ Recv(w) /\ phase' = [phase EXCEPT ![w] = "send"] /\ UNCHANGED pc
    BY <1>3 DEF WorkerRecv, Recv
  <2> QED BY <1>0, <1>1, <2>1, StepRecvs, RecvEof, ServesUnseen
<1>4. PICK c \in Clients : ~Accept(w) /\ ~WorkerRecv(w) => c = serves[w]
  <2>1. CASE Accept(w) \/ WorkerRecv(w)
    BY <1>0, <2>1, HeadOfQueue, OwnClient DEF Accept, WorkerRecv, Recv, Serving
  <2>2. CASE ~Accept(w) /\ ~WorkerRecv(w)
    <3>1. Serving(w)
      BY <2>2 DEF Worker, WorkerSendOn, SendOn, Done, SendLast, Fails, RecvFails,
                  SendFails, Serving
    <3> QED BY <1>0, <3>1, OwnClient
  <2> QED BY <2>1, <2>2
<1>5. CASE WorkerSendOn(w)
  <2>1. /\ SendOn(w) /\ phase[w] = "send"
        /\ phase' = [phase EXCEPT ![w] = "recv"]
        /\ UNCHANGED <<backlog, inbox, serves, buf, pc>> /\ Deliver(w)
    BY <1>5 DEF WorkerSendOn, SendOn
  <2>2. c = serves[w]
    BY <1>4, <2>1 DEF Accept, WorkerRecv, Recv
  <2>3. Service!Echo(c)
    BY <1>0, <2>1, <2>2, StepEchoes
  <2>4. /\ \A v \in Workers : v # w => serves'[v] = serves[v]
        /\ "recv" \in Phase \ {"send"}
    BY <1>0, <2>1 DEF LoopInv, LoopTypes, Phase
  <2>5. EndOfFile'
    BY <1>0, <2>1, <2>4, AnswerKeepsEof
  <2> QED BY <1>1, <2>1, <2>3, <2>5, ServesOne
<1>6. CASE Done(w)
  <2>1. /\ SendLast(w) /\ phase[w] = "send"
        /\ phase' = [phase EXCEPT ![w] = "accept"]
        /\ serves' = [serves EXCEPT ![w] = NOBODY]
        /\ UNCHANGED <<backlog, inbox, buf, pc>> /\ Deliver(w)
    BY <1>6 DEF Done, SendLast
  <2>2. c = serves[w]
    BY <1>4, <2>1 DEF Accept, WorkerRecv, Recv
  <2>3. Service!Finish(c)
    BY <1>0, <2>1, <2>2, StepFinishes
  <2>4. /\ \A v \in Workers : v # w => serves'[v] = serves[v]
        /\ "accept" \in Phase \ {"send"}
    BY <1>0, <2>1 DEF LoopInv, LoopTypes, Phase
  <2>5. EndOfFile'
    BY <1>0, <2>1, <2>4, AnswerKeepsEof
  <2> QED BY <1>1, <2>1, <2>3, <2>5, ServesOne
<1>7. CASE Fails(w)
  <2>1. CASE EndAll
    BY <1>0, <2>1, EndAllServes
  <2>2. CASE ~EndAll
    <3>1. /\ RecvFails(w) \/ SendFails(w)
          /\ pc # "dead" \/ \E v \in Workers \ {w} : Alive(v)
          /\ phase'  = [phase EXCEPT ![w] = "zombie"]
          /\ serves' = [serves EXCEPT ![w] = NOBODY]
          /\ CloseAllOf({w})
          /\ UNCHANGED <<backlog, conn, sent, inbox, echoed, buf, pc>>
      BY <1>7, <2>2 DEF Fails
    <3>2. Serving(w) /\ Reset(serves[w])
      BY <1>0, <3>1, FailsOnReset
    <3>3. PICK d \in Clients : d = serves[w]
      BY <1>0, <3>2, OwnClient
    <3>4. holders' = [holders EXCEPT ![serves[w]] = @ \ {w}]
      BY <1>0, <3>1, <3>2, CloseOne
    <3>5. Service!Drop(d)
      BY <1>0, <3>1, <3>2, <3>3, <3>4, StepDrops
    <3>6. Listening'
      BY <1>0, <3>1 DEF LoopInv, LoopTypes, Listening, SomeAlive, Alive
    <3>7. UNCHANGED Listening
      BY <1>0, <3>6 DEF Listening
    <3>8. \A v \in Workers : phase'[v] = "send" =>
            phase[v] = "send" /\ serves'[v] = serves[v] /\ buf'[v] = buf[v]
      BY <1>0, <3>1 DEF LoopInv, LoopTypes
    <3>9. EndOfFile'
      BY <1>0, <3>1, <3>8, EofStays
    <3> QED BY <3>5, <3>7, <3>9, ServesOne
  <2> QED BY <2>1, <2>2
<1> QED BY <1>2, <1>3, <1>5, <1>6, <1>7 DEF Worker

LEMMA ClientServes ==
  ASSUME PoolInv, EndOfFile, NEW c \in Clients, Client(c)
  PROVE  Serves /\ EndOfFile'
<1>1. /\ Connect(c) \/ HangUp(c) \/ SendByte(c)
      /\ Connect(c) => Listening
      /\ UNCHANGED <<phase, pc>>
  BY DEF Client, Connect, HangUp, SendByte, workerVars
<1>2. UNCHANGED Listening
  BY <1>1 DEF Listening, SomeAlive, Alive
<1>3. SendByte(c) => conn[c] = "up" /\ ByteArrives(c) /\ Course(c) # "over"
  BY DEF SendByte, ByteArrives, IsOpen, Course, StageOf, workerVars
<1>4. /\ EndOfFile'
      /\ \/ Connect(c) /\ Service!Connect(c)
         \/ Service!Send(c) \/ Service!Break(c) \/ Unseen
  BY <1>1, <1>3, ClientSeen DEF PoolInv
<1> QED BY <1>1, <1>2, <1>4, ServesOne, ServesUnseen

LEMMA PoolServes ==
  PoolInv /\ EndOfFile /\ [Next]_vars => Serves /\ EndOfFile'
<1> SUFFICES ASSUME PoolInv, EndOfFile, [Next]_vars PROVE Serves /\ EndOfFile'
  OBVIOUS
<1>1. CASE Next
  BY <1>1, CreateServes, MainServes, WorkerServes, ClientServes DEF Next
<1>2. CASE UNCHANGED vars
  <2>1. UNCHANGED <<backlog, conn, sent, inbox, echoed, holders, phase, serves, buf, pc>>
    BY <1>2 DEF vars, loopVars, netVars, workerVars
  <2>2. Unseen /\ EndOfFile' /\ UNCHANGED Listening
    BY <2>1 DEF Unseen, Stages, Course, StageOf, InBacklog, Broken, Reset,
                EndOfFile, Listening, SomeAlive, Alive
  <2> QED BY <2>2, ServesUnseen
<1> QED BY <1>1, <1>2

LEMMA ServiceStarts ==
  ASSUME LoopInit PROVE
    /\ [c \in Clients |-> StageOf(c, holders[c])] = [c \in Clients |-> "new"]
    /\ {c \in Clients : Reset(c)} = {} /\ EndOfFile /\ InFull
    /\ Service!EchoesABeginning
<1>1. /\ \A c \in Clients : conn[c] = "new"
      /\ \A w \in Workers : phase[w] = "absent"
  BY DEF LoopInit
<1>2. \A c \in Clients : StageOf(c, holders[c]) = "new" /\ ~Reset(c)
  BY <1>1 DEF StageOf, Reset
<1>3. \A c \in Clients : Course(c) # "over"
  BY <1>2 DEF Course
<1>4. EndOfFile
  BY <1>1 DEF EndOfFile
<1>5. Service!EchoesABeginning
  BY SubSeqEmpty DEF LoopInit, Service!EchoesABeginning
<1> QED BY <1>2, <1>3, <1>4, <1>5 DEF InFull

LEMMA InitServes == Init => Service!Init /\ EndOfFile
BY ServiceStarts DEF Init, LoopInit, Service!Init, Listening

\* What a worker of the pool reads as no bytes is the end of the file.
LEMMA PoolEof == Spec => [](PoolInv /\ EndOfFile)
<1>1. Init => EndOfFile
  BY InitServes
<1>2. PoolInv /\ EndOfFile /\ [Next]_vars => EndOfFile'
  BY PoolServes
<1> QED BY <1>1, <1>2, PoolInvariant, PTL DEF Spec

\* Whatever the workers of the pool do, its clients see the service: every
\* step of the pool is one of EchoService or changes nothing of it.
THEOREM PoolIsAService == Spec => ImplementsService
<1>1. Init => Service!Init
  BY InitServes
<1>2. PoolInv /\ EndOfFile /\ [Next]_vars => [Service!Next]_(Service!vars)
  BY PoolServes DEF Serves
<1> QED BY <1>1, <1>2, PoolEof, PTL DEF Spec, ImplementsService, Service!Spec

LEMMA InFullStays ==
  ASSUME InFull, Stages' = Stages, UNCHANGED <<sent, echoed, Broken>>
  PROVE  InFull'
BY SameStages DEF InFull, Service!Complete, Service!EndsLine

LEMMA ServedInFull ==
  ASSUME LoopTypes, Serves, Listening => InFull
  PROVE  Listening' => InFull'
<1> SUFFICES ASSUME Listening' PROVE InFull'
  OBVIOUS
<1>1. CASE Service!Next
  <2>1. CASE Service!Stop
    BY <2>1 DEF Service!Stop
  <2>2. CASE ~Service!Stop
    <3>1. UNCHANGED Listening /\ \E c \in Clients : Service!Client(c)
      BY <1>1, <2>2 DEF Service!Next
    <3> QED BY <3>1, KeepsAnswers DEF Service!Client
  <2> QED BY <2>1, <2>2
<1>2. CASE UNCHANGED Service!vars
  <2>1. Stages' = Stages /\ UNCHANGED <<sent, echoed, Broken, Listening>>
    BY <1>2 DEF Service!vars, Stages, Course, Broken
  <2> QED BY <2>1, InFullStays
<1> QED BY <1>1, <1>2 DEF Serves

LEMMA ServedBeginnings ==
  ASSUME LoopTypes, Serves, Service!EchoesABeginning
  PROVE  Service!EchoesABeginning'
<1>1. \/ UNCHANGED <<sent, echoed>>
      \/ \E c \in Clients : Service!Send(c) \/ Service!Reply(c)
  BY DEF Serves, Service!vars, Service!Next, Service!Client, Service!Connect,
         Service!Break, Service!Serve, Service!Echo, Service!Finish,
         Service!Drop, Service!Stop, Service!Abandon
<1> QED BY <1>1, KeepsBeginnings

\* What a client of the pool got is a beginning of what it sent, also after
\* its conversation is over or the pool has ended.
THEOREM PoolMakesNothingUp == Spec => []Service!EchoesABeginning
<1>1. Init => Service!EchoesABeginning
  BY ServiceStarts DEF Init
<1>2. PoolInv /\ EndOfFile /\ Service!EchoesABeginning /\ [Next]_vars
        => Service!EchoesABeginning'
  BY PoolServes, ServedBeginnings DEF PoolInv, LoopInv
<1> QED BY <1>1, <1>2, PoolEof, PTL DEF Spec

\* While the pool listens, who was not reset was answered to the end of a
\* line or of the stream: no worker closes a conversation in between.
THEOREM PoolAnswersInFull == Spec => []Service!AnsweredInFull
<1> DEFINE Kept == Listening => InFull
<1>1. Init => Kept
  BY ServiceStarts DEF Init
<1>2. PoolInv /\ EndOfFile /\ Kept /\ [Next]_vars => Kept'
  BY PoolServes, ServedInFull DEF PoolInv, LoopInv
<1>3. Kept => Service!AnsweredInFull
  BY DEF Service!AnsweredInFull, Service!In, InFull, Course, Broken
<1> HIDE DEF Kept
<1> QED BY <1>1, <1>2, <1>3, PoolEof, PTL DEF Spec

-----------------------------------------------------------------------------
(***************************************************************************)
(* The threads of EchoThread run the same loop.  Cells, NULL and the       *)
(* variables below are those of its main thread, with the pool's pc.       *)
(***************************************************************************)
CONSTANTS Cells, NULL
VARIABLES sock_accepted, tharg, heap, allocated, arg

Thread == INSTANCE EchoThread

Starting  == {t \in Workers : phase[t] = "start"}
AtMain(c) == pc \in {"malloc", "create"} /\ sock_accepted = c

HandTypes ==
  /\ pc \in {"accept", "malloc", "create", "dead"}
  /\ heap \in [Cells -> Clients \cup {NOBODY}]
  /\ arg  \in [Workers -> Cells \cup {NULL}]
  /\ allocated \subseteq Cells

\* Main hands a connection to one thread, in a cell nobody else has.
HandOver ==
  /\ pc \in {"malloc", "create"} =>
       /\ sock_accepted \in Clients /\ Main \in holders[sock_accepted]
       /\ \A t \in Starting : heap[arg[t]] # sock_accepted
  /\ pc = "create" =>
       /\ tharg \in Cells /\ heap[tharg] = sock_accepted
       /\ \A t \in Starting : arg[t] # tharg
  /\ pc = "dead" => Starting = {}
  /\ \A t \in Starting : /\ arg[t] \in Cells /\ heap[arg[t]] \in Clients
                         /\ Main \in holders[heap[arg[t]]]
  /\ \A s, t \in Starting : heap[arg[s]] = heap[arg[t]] => s = t
  /\ \A c \in Clients : Main \in holders[c] =>
       AtMain(c) \/ \E t \in Starting : heap[arg[t]] = c
  /\ pc # "dead" =>
       allocated = {arg[t] : t \in Starting}
                   \cup (IF pc = "create" THEN {tharg} ELSE {})

ThreadInv == LoopInv /\ HandTypes /\ HandOver

\* The loop is that of EchoLoop.
LEMMA SameLoop ==
  /\ Thread!LoopInit => LoopInit
  /\ \A c \in Clients : /\ Thread!Connect(c) => Connect(c)
                        /\ Thread!SendByte(c) => SendByte(c)
                        /\ Thread!HangUp(c) => HangUp(c)
  /\ \A t \in Workers : /\ Thread!Recv(t) => Recv(t)
                        /\ Thread!SendOn(t) => SendOn(t)
                        /\ Thread!SendLast(t) => SendLast(t)
<1>1. Thread!LoopInit => LoopInit
  BY DEF Thread!LoopInit, LoopInit
<1>2. ASSUME NEW c \in Clients
      PROVE  /\ Thread!Connect(c) => Connect(c)
             /\ Thread!SendByte(c) => SendByte(c)
             /\ Thread!HangUp(c) => HangUp(c)
  BY DEF Thread!Connect, Thread!SendByte, Thread!HangUp, Thread!workerVars,
         Thread!IsOpen, Thread!InBacklog,
         Connect, SendByte, HangUp, workerVars, IsOpen, InBacklog
<1>3. ASSUME NEW t \in Workers
      PROVE  /\ Thread!Recv(t) => Recv(t)
             /\ Thread!SendOn(t) => SendOn(t)
             /\ Thread!SendLast(t) => SendLast(t)
  BY DEF Thread!Recv, Thread!RecvInto, Thread!Least, Thread!SendOn,
         Thread!SendLast, Thread!Deliver, Thread!SawNewline, Thread!Reset,
         Recv, RecvInto, Least, SendOn, SendLast, Deliver, SawNewline, Reset
<1> QED BY <1>1, <1>2, <1>3

LEMMA InitThread == Thread!Init => ThreadInv
<1> SUFFICES ASSUME Thread!Init PROVE ThreadInv
  OBVIOUS
<1>1. LoopInit
  BY SameLoop DEF Thread!Init
<1>2. LoopInv
  BY <1>1, InitLoop
<1>3. Starting = {} /\ \A c \in Clients : holders[c] = {}
  BY <1>1 DEF LoopInit, Starting
<1>4. HandTypes /\ HandOver
  BY <1>3 DEF Thread!Init, HandTypes, HandOver
<1> QED BY <1>2, <1>4 DEF ThreadInv

\* What leaves main and the hand-over alone.
LEMMA HandOverStays ==
  ASSUME ThreadInv, UNCHANGED <<pc, sock_accepted, tharg, heap, allocated, arg>>,
         Starting' = Starting,
         \A c \in Clients : Main \in holders'[c] <=> Main \in holders[c]
  PROVE  HandTypes' /\ HandOver'
<1>1. HandTypes'
  BY DEF ThreadInv, HandTypes
<1>2. \A c \in Clients : AtMain(c)' = AtMain(c)
  BY DEF AtMain
<1>3. HandOver'
  BY <1>2 DEF ThreadInv, HandOver
<1> QED BY <1>1, <1>3

LEMMA MainAccepts ==
  ASSUME ThreadInv, Thread!Accept
  PROVE  ThreadInv'
<1>0. PICK c \in Clients : c = Head(backlog)
  BY HeadOfQueue DEF ThreadInv, Thread!Accept
<1>1. /\ pc = "accept" /\ pc' = "malloc" /\ backlog # <<>>
      /\ sock_accepted' = c /\ backlog' = Tail(backlog)
      /\ holders' = [holders EXCEPT ![c] = @ \cup {Main}]
      /\ UNCHANGED <<conn, sent, inbox, echoed, phase, serves, buf, tharg, heap,
                     allocated, arg>>
  BY <1>0 DEF Thread!Accept, Thread!workerVars
<1>2. LoopInv' /\ holders[c] = {} /\ holders'[c] = {Main}
  BY <1>0, <1>1, HoldLoop DEF ThreadInv
<1>3. \A d \in Clients : d # c => holders'[d] = holders[d]
  BY <1>1, <1>2 DEF ThreadInv, LoopInv, LoopTypes
<1>8. HandTypes'
  BY <1>1 DEF ThreadInv, HandTypes
<1>9. Starting' = Starting /\ \A t \in Starting : heap[arg[t]] # c
  BY <1>1, <1>2 DEF ThreadInv, HandOver, Starting
<1>10. HandOver'
  BY <1>1, <1>2, <1>3, <1>9 DEF ThreadInv, HandOver, AtMain
<1> QED BY <1>2, <1>8, <1>10 DEF ThreadInv

LEMMA MainAllocates ==
  ASSUME ThreadInv, Thread!Malloc
  PROVE  ThreadInv'
<1>1. PICK a \in Cells \ allocated :
        /\ tharg' = a /\ allocated' = allocated \cup {a}
        /\ heap' = [heap EXCEPT ![a] = sock_accepted]
  BY DEF Thread!Malloc
<1>2. /\ pc = "malloc" /\ pc' = "create"
      /\ UNCHANGED <<loopVars, sock_accepted, arg>>
  BY DEF Thread!Malloc, Thread!loopVars, Thread!netVars, Thread!workerVars,
         loopVars, netVars, workerVars
<1>3. LoopInv'
  BY <1>2, LoopStutters DEF ThreadInv
<1>4. Starting' = Starting /\ holders' = holders
  BY <1>2 DEF Starting, loopVars, netVars, workerVars
<1>5. /\ sock_accepted \in Clients /\ heap'[a] = sock_accepted
      /\ \A t \in Starting : arg[t] # a /\ heap'[arg[t]] = heap[arg[t]]
  BY <1>1, <1>2 DEF ThreadInv, HandTypes, HandOver
<1>6. HandTypes'
  BY <1>1, <1>2, <1>5 DEF ThreadInv, HandTypes
<1>7. HandOver'
  BY <1>1, <1>2, <1>4, <1>5 DEF ThreadInv, HandOver, AtMain
<1> QED BY <1>3, <1>6, <1>7 DEF ThreadInv

LEMMA MainCreates ==
  ASSUME ThreadInv, Thread!Create
  PROVE  ThreadInv'
<1>1. PICK t \in Workers : /\ phase[t] = "absent"
                           /\ phase' = [phase EXCEPT ![t] = "start"]
                           /\ arg' = [arg EXCEPT ![t] = tharg]
  BY DEF Thread!Create
<1>2. /\ pc = "create" /\ pc' = "accept"
      /\ UNCHANGED <<netVars, serves, buf, sock_accepted, tharg, heap, allocated>>
  BY DEF Thread!Create, Thread!netVars, netVars
<1>3. LoopInv'
  <2>1. ~Serving(t) /\ "start" \in Phase \ {"recv", "send"}
    BY <1>1 DEF Serving, Phase
  <2> QED BY <1>1, <1>2, <2>1, IdleLoop DEF ThreadInv
<1>4. /\ tharg \in Cells /\ heap[tharg] = sock_accepted
      /\ sock_accepted \in Clients /\ Main \in holders[sock_accepted]
  BY <1>2 DEF ThreadInv, HandOver
<1>5. HandTypes'
  BY <1>1, <1>2, <1>4 DEF ThreadInv, HandTypes
<1>6. /\ t \notin Starting /\ Starting' = Starting \cup {t} /\ arg'[t] = tharg
      /\ \A u \in Starting : arg'[u] = arg[u]
  BY <1>1 DEF ThreadInv, HandTypes, LoopInv, LoopTypes, Starting
<1>7. \A s, u \in Starting' : heap[arg'[s]] = heap[arg'[u]] => s = u
  BY <1>2, <1>4, <1>6 DEF ThreadInv, HandOver
<1>8. \A c \in Clients : Main \in holders[c] =>
        \E u \in Starting' : heap[arg'[u]] = c
  BY <1>2, <1>4, <1>6 DEF ThreadInv, HandOver, AtMain
<1>9. {arg'[u] : u \in Starting'} = {arg[u] : u \in Starting} \cup {tharg}
  BY <1>6
<1>10. \A u \in Starting' : /\ arg'[u] \in Cells /\ heap[arg'[u]] \in Clients
                            /\ Main \in holders[heap[arg'[u]]]
  BY <1>4, <1>6 DEF ThreadInv, HandOver
<1>11. HandOver'
  BY <1>2, <1>7, <1>8, <1>9, <1>10 DEF ThreadInv, HandOver, netVars
<1> QED BY <1>3, <1>5, <1>11 DEF ThreadInv

LEMMA ThreadsDie ==
  ASSUME ThreadInv, Thread!Die
  PROVE  ThreadInv'
<1>1. /\ pc' = "dead"
      /\ phase'  = [t \in Workers |-> "absent"]
      /\ serves' = [t \in Workers |-> NOBODY]
      /\ holders' = [c \in Clients |-> {}]
      /\ backlog' = <<>>
      /\ conn' = [c \in Clients |-> IF InBacklog(c) THEN "rst" ELSE conn[c]]
      /\ UNCHANGED <<sent, inbox, echoed, buf, sock_accepted, tharg, heap,
                     allocated, arg>>
  BY DEF Thread!Die, Thread!InBacklog, InBacklog
<1>2. holders' = [c \in Clients |-> holders[c] \cap {}]
  BY <1>1
<1>3. LoopInv'
  BY <1>1, <1>2, EndLoop DEF ThreadInv
<1>4. Starting' = {} /\ HandTypes'
  BY <1>1 DEF ThreadInv, HandTypes, Starting
<1>5. HandOver'
  BY <1>1, <1>4 DEF HandOver
<1> QED BY <1>3, <1>4, <1>5 DEF ThreadInv

LEMMA ThreadStarts ==
  ASSUME ThreadInv, NEW t \in Workers, Thread!Start(t)
  PROVE  ThreadInv'
<1> DEFINE c == heap[arg[t]]
<1>1. /\ phase[t] = "start"
      /\ serves' = [serves EXCEPT ![t] = c]
      /\ holders' = [holders EXCEPT ![c] = (@ \ {Main}) \cup {t}]
      /\ allocated' = allocated \ {arg[t]}
      /\ arg' = [arg EXCEPT ![t] = NULL]
      /\ phase' = [phase EXCEPT ![t] = "recv"]
      /\ UNCHANGED <<backlog, conn, sent, inbox, echoed, buf, pc,
                     sock_accepted, tharg, heap>>
  BY DEF Thread!Start
<1>2. /\ t \in Starting /\ arg[t] \in Cells /\ c \in Clients
      /\ Main \in holders[c] /\ ~AtMain(c)
      /\ \A s \in Starting : heap[arg[s]] = c => s = t
  BY <1>1 DEF ThreadInv, HandOver, Starting, AtMain
<1>3. /\ Untouched(c) /\ conn[c] # "new" /\ ~InBacklog(c)
      /\ \A v \in Workers : ~(Serving(v) /\ serves[v] = c)
  <2> HIDE DEF c
  <2>1. /\ holders[c] = {Main} /\ Untouched(c) /\ conn[c] # "new"
        /\ ~InBacklog(c)
    BY <1>2 DEF ThreadInv, LoopInv, FreshAreUntouched
  <2> QED BY <1>2, <2>1 DEF ThreadInv, LoopInv, OneWorkerPerConnection
<1>4. LoopInv'
  <2> HIDE DEF c
  <2>1. ~Serving(t)
    BY <1>1 DEF Serving
  <2>2. /\ backlog' \in Seq(Clients)
        /\ \A d \in Clients : InBacklog(d)' => InBacklog(d) /\ d # c
        /\ \A i, j \in 1 .. Len(backlog') : backlog'[i] = backlog'[j] => i = j
    BY <1>1, <1>3 DEF ThreadInv, LoopInv, LoopTypes, FreshAreUntouched, InBacklog
  <2> QED BY <1>1, <1>2, <1>3, <2>1, <2>2, TakeLoop DEF ThreadInv
<1>5. HandTypes'
  BY <1>1 DEF ThreadInv, HandTypes
<1>6. /\ Starting' = Starting \ {t}
      /\ \A s \in Starting' : arg'[s] = arg[s] /\ arg[s] # arg[t]
                              /\ heap[arg[s]] # c
  BY <1>1, <1>2 DEF ThreadInv, HandTypes, LoopInv, LoopTypes, Starting
<1>7. /\ Main \notin holders'[c]
      /\ \A d \in Clients : d # c => holders'[d] = holders[d]
  <2> HIDE DEF c
  <2> QED BY <1>1, <1>2, EchoAssumption DEF ThreadInv, LoopInv, LoopTypes
<1> HIDE DEF c
<1>8. pc \in {"malloc", "create"} =>
        /\ sock_accepted \in Clients /\ sock_accepted # c
        /\ Main \in holders'[sock_accepted]
        /\ \A s \in Starting' : heap[arg'[s]] # sock_accepted
  BY <1>2, <1>6, <1>7 DEF ThreadInv, HandOver, AtMain
<1>9. pc = "create" => /\ tharg \in Cells /\ heap[tharg] = sock_accepted
                       /\ tharg # arg[t]
                       /\ \A s \in Starting' : arg'[s] # tharg
  BY <1>2, <1>6 DEF ThreadInv, HandOver
<1>10. \A s \in Starting' : /\ arg'[s] \in Cells /\ heap[arg'[s]] \in Clients
                            /\ Main \in holders'[heap[arg'[s]]]
  BY <1>6, <1>7 DEF ThreadInv, HandOver
<1>11. \A s, u \in Starting' : heap[arg'[s]] = heap[arg'[u]] => s = u
  BY <1>6 DEF ThreadInv, HandOver
<1>12. \A d \in Clients : Main \in holders'[d] =>
         AtMain(d) \/ \E s \in Starting' : heap[arg'[s]] = d
  <2> SUFFICES ASSUME NEW d \in Clients, Main \in holders'[d], ~AtMain(d)
               PROVE  \E s \in Starting' : heap[arg'[s]] = d
    OBVIOUS
  <2>1. d # c /\ Main \in holders[d]
    BY <1>7
  <2>2. PICK s \in Starting : heap[arg[s]] = d
    BY <2>1 DEF ThreadInv, HandOver
  <2>3. s # t
    BY <2>1, <2>2 DEF c
  <2> QED BY <1>6, <2>2, <2>3
<1>13. pc # "dead" =>
         allocated' = {arg'[s] : s \in Starting'}
                      \cup (IF pc = "create" THEN {tharg} ELSE {})
  <2>1. {arg'[s] : s \in Starting'} = {arg[s] : s \in Starting} \ {arg[t]}
    BY <1>6
  <2> QED BY <1>1, <1>9, <2>1 DEF ThreadInv, HandOver
<1>14. pc # "dead"
  BY <1>2 DEF ThreadInv, HandOver
<1>15. HandOver'
  BY <1>1, <1>8, <1>9, <1>10, <1>11, <1>12, <1>13, <1>14 DEF HandOver, AtMain
<1> QED BY <1>4, <1>5, <1>15 DEF ThreadInv

LEMMA ThreadGoesOn ==
  ASSUME ThreadInv, NEW t \in Workers, Thread!ThreadRecv(t) \/ Thread!ThreadSendOn(t)
  PROVE  ThreadInv'
<1>1. Recv(t) \/ SendOn(t)
  BY SameLoop DEF Thread!ThreadRecv, Thread!ThreadSendOn
<1>2. LoopInv'
  BY <1>1, RecvLoop, SendOnLoop DEF ThreadInv
<1>3. UNCHANGED <<pc, sock_accepted, tharg, heap, allocated, arg>>
  BY DEF Thread!ThreadRecv, Thread!ThreadSendOn, Thread!mainVars
<1>4. /\ phase[t] # "start" /\ UNCHANGED holders
      /\ \E p \in {"send", "recv"} : phase' = [phase EXCEPT ![t] = p]
  BY <1>1 DEF Recv, SendOn
<1>5. Starting' = Starting
  BY <1>4 DEF ThreadInv, LoopInv, LoopTypes, Starting
<1> QED BY <1>2, <1>3, <1>4, <1>5, HandOverStays DEF ThreadInv

LEMMA ThreadEnds ==
  ASSUME ThreadInv, NEW t \in Workers, Thread!ThreadDone(t)
  PROVE  ThreadInv'
<1>1. SendLast(t)
  BY SameLoop DEF Thread!ThreadDone
<1>2. /\ Serving(t) /\ Deliver(t) /\ phase[t] # "start"
      /\ phase'  = [phase EXCEPT ![t] = "absent"]
      /\ serves' = [serves EXCEPT ![t] = NOBODY]
      /\ holders' = [holders EXCEPT ![serves[t]] = @ \ {t}]
      /\ UNCHANGED <<backlog, sent, inbox, buf>>
  BY <1>1 DEF Thread!ThreadDone, SendLast, Serving
<1>3. "absent" \in Phase \ {"recv", "send"}
  BY DEF Phase
<1>4. LoopInv'
  BY <1>2, <1>3, LeaveLoop DEF ThreadInv
<1>5. UNCHANGED <<pc, sock_accepted, tharg, heap, allocated, arg>>
  BY DEF Thread!ThreadDone, Thread!mainVars
<1>6. Starting' = Starting
  BY <1>2 DEF ThreadInv, LoopInv, LoopTypes, Starting
<1>7. \A c \in Clients : Main \in holders'[c] <=> Main \in holders[c]
  BY <1>2, EchoAssumption DEF ThreadInv, LoopInv, LoopTypes
<1> QED BY <1>4, <1>5, <1>6, <1>7, HandOverStays DEF ThreadInv

LEMMA ThreadClient ==
  ASSUME ThreadInv, NEW c \in Clients, Thread!Client(c)
  PROVE  ThreadInv'
<1>1. Connect(c) \/ SendByte(c) \/ HangUp(c)
  BY SameLoop DEF Thread!Client
<1>2. LoopInv'
  BY <1>1, ConnectLoop, SendByteLoop, HangUpLoop DEF ThreadInv
<1>3. UNCHANGED <<pc, sock_accepted, tharg, heap, allocated, arg>>
  BY DEF Thread!Client, Thread!mainVars
<1>4. UNCHANGED <<holders, phase>>
  BY <1>1 DEF Connect, SendByte, HangUp, workerVars
<1>5. Starting' = Starting
  BY <1>4 DEF Starting
<1> QED BY <1>2, <1>3, <1>4, <1>5, HandOverStays DEF ThreadInv

LEMMA ThreadInvariant == Thread!Spec => []ThreadInv
<1>1. Thread!Init => ThreadInv
  BY InitThread
<1>2. ThreadInv /\ [Thread!Next]_(Thread!vars) => ThreadInv'
  <2> SUFFICES ASSUME ThreadInv, [Thread!Next]_(Thread!vars) PROVE ThreadInv'
    OBVIOUS
  <2>1. CASE Thread!MainThread
    BY <2>1, MainAccepts, MainAllocates, MainCreates, ThreadsDie
       DEF Thread!MainThread, Thread!NoMemoryOrThread
  <2>2. ASSUME NEW t \in Workers, Thread!Thread(t) PROVE ThreadInv'
    BY <2>2, ThreadStarts, ThreadGoesOn, ThreadEnds, ThreadsDie
       DEF Thread!Thread, Thread!ThreadFails
  <2>3. ASSUME NEW c \in Clients, Thread!Client(c) PROVE ThreadInv'
    BY <2>3, ThreadClient
  <2>4. CASE UNCHANGED Thread!vars
    <3>1. UNCHANGED <<loopVars, pc, sock_accepted, tharg, heap, allocated, arg>>
      BY <2>4 DEF Thread!vars, Thread!loopVars, Thread!mainVars, Thread!netVars,
                  Thread!workerVars, loopVars, netVars, workerVars
    <3>2. LoopInv'
      BY <3>1, LoopStutters DEF ThreadInv
    <3>3. Starting' = Starting /\ holders' = holders
      BY <3>1 DEF loopVars, netVars, workerVars, Starting
    <3> QED BY <3>1, <3>2, <3>3, HandOverStays DEF ThreadInv
  <2> QED BY <2>1, <2>2, <2>3, <2>4 DEF Thread!Next
<1> QED BY <1>1, <1>2, PTL DEF Thread!Spec

\* No thread of echo_thread mixes up the bytes of two clients or loses any.
THEOREM ThreadEchoes == Thread!Spec => []EchoIsFaithful
<1>1. ThreadInv => EchoIsFaithful
  BY DEF ThreadInv, LoopInv
<1> QED BY <1>1, ThreadInvariant, PTL

\* Each accepted connection reaches exactly one thread, in a cell of its
\* own, and no cell is lost.
THEOREM HandOverIsExact == Thread!Spec => []Thread!HandedOverOnce
<1>1. ThreadInv => Thread!HandedOverOnce
  <2> SUFFICES ASSUME ThreadInv PROVE Thread!HandedOverOnce
    OBVIOUS
  <2>0. \A S : Thread!Cardinality(S) = Cardinality(S)
    BY DEF Thread!Cardinality, Cardinality
  <2>1. ASSUME NEW c \in Clients
        PROVE  IF Main \in holders[c] /\ ~AtMain(c)
               THEN Cardinality({t \in Starting : heap[arg[t]] = c}) = 1
               ELSE {t \in Starting : heap[arg[t]] = c} = {}
    <3>1. CASE Main \in holders[c] /\ ~AtMain(c)
      <4>1. PICK t \in Starting : heap[arg[t]] = c
        BY <3>1 DEF ThreadInv, HandOver
      <4>2. {s \in Starting : heap[arg[s]] = c} = {t}
        BY <4>1 DEF ThreadInv, HandOver
      <4> QED BY <3>1, <4>2, FS_Singleton
    <3>2. CASE ~(Main \in holders[c] /\ ~AtMain(c))
      BY <3>2 DEF ThreadInv, HandOver, AtMain
    <3> QED BY <3>1, <3>2
  <2>2. pc # "dead" =>
          allocated = {arg[t] : t \in Starting}
                      \cup (IF pc = "create" THEN {tharg} ELSE {})
    BY DEF ThreadInv, HandOver
  <2> QED BY <2>0, <2>1, <2>2
          DEF Thread!HandedOverOnce, Starting, AtMain
<1> QED BY <1>1, ThreadInvariant, PTL

-----------------------------------------------------------------------------
(***************************************************************************)
(* echo_thread is an EchoService that runs until its process dies.         *)
(***************************************************************************)
ThreadServes == [Thread!Service!Next]_(Thread!Service!vars)

\* The service is the same but for when it runs.
LEMMA SameService ==
  ASSUME NEW c \in Clients
  PROVE  /\ Service!Connect(c) <=> Thread!Service!Connect(c)
         /\ Service!Send(c) <=> Thread!Service!Send(c)
         /\ Service!Break(c) <=> Thread!Service!Break(c)
         /\ Service!Serve(c) <=> Thread!Service!Serve(c)
         /\ Service!Echo(c) <=> Thread!Service!Echo(c)
         /\ Service!Finish(c) <=> Thread!Service!Finish(c)
         /\ Service!Drop(c) <=> Thread!Service!Drop(c)
         /\ Service!Reply(c) <=> Thread!Service!Reply(c)
<1> USE DEF Thread!StageOf, Thread!InBacklog, Thread!Reset, Thread!Byte,
            StageOf, InBacklog, Reset, Byte
<1>1. Service!Connect(c) <=> Thread!Service!Connect(c)
  BY DEF Service!Connect, Service!Moves, Thread!Service!Connect, Thread!Service!Moves
<1>2. Service!Send(c) <=> Thread!Service!Send(c)
  BY DEF Service!Send, Service!In, Service!EndsLine,
         Thread!Service!Send, Thread!Service!In, Thread!Service!EndsLine
<1>3. Service!Break(c) <=> Thread!Service!Break(c)
  BY DEF Service!Break, Service!In, Thread!Service!Break, Thread!Service!In
<1>4. Service!Serve(c) <=> Thread!Service!Serve(c)
  BY DEF Service!Serve, Service!Moves, Thread!Service!Serve, Thread!Service!Moves
<1>5. Service!Reply(c) <=> Thread!Service!Reply(c)
  BY DEF Service!Reply, Service!In, Thread!Service!Reply, Thread!Service!In
<1>6. Service!Echo(c) <=> Thread!Service!Echo(c)
  BY <1>5 DEF Service!Echo, Thread!Service!Echo
<1>7. Service!Finish(c) <=> Thread!Service!Finish(c)
  BY <1>5 DEF Service!Finish, Service!Moves, Service!Complete, Service!EndsLine,
              Thread!Service!Finish, Thread!Service!Moves,
              Thread!Service!Complete, Thread!Service!EndsLine
<1>8. Service!Drop(c) <=> Thread!Service!Drop(c)
  BY DEF Service!Drop, Service!Moves, Thread!Service!Drop, Thread!Service!Moves
<1> QED BY <1>1, <1>2, <1>3, <1>4, <1>5, <1>6, <1>7, <1>8

LEMMA ThreadServesOne ==
  ASSUME NEW c \in Clients,
         \/ pc # "dead" /\ Service!Connect(c)
         \/ Service!Send(c) \/ Service!Break(c) \/ Service!Serve(c)
         \/ Service!Echo(c) \/ Service!Finish(c),
         pc' # "dead" <=> pc # "dead"
  PROVE  ThreadServes
BY SameService DEF ThreadServes, Thread!Service!Next, Thread!Service!Client

LEMMA ThreadServesUnseen ==
  Unseen /\ (pc' # "dead" <=> pc # "dead") => ThreadServes
BY DEF ThreadServes, Unseen, Stages, Course, Broken, Thread!Service!vars,
       Thread!StageOf, Thread!InBacklog, Thread!Reset, StageOf, InBacklog, Reset

\* The death of the process: EchoLoop's connections end as in EndOfAll.
LEMMA DieServes ==
  ThreadInv /\ EndOfFile /\ Thread!Die /\ pc # "dead"
    => ThreadServes /\ EndOfFile'
<1> SUFFICES ASSUME ThreadInv, EndOfFile, Thread!Die, pc # "dead"
             PROVE  ThreadServes /\ EndOfFile'
  OBVIOUS
<1>1. /\ pc' = "dead" /\ phase' = [w \in Workers |-> "absent"]
      /\ holders' = [c \in Clients |-> {}] /\ backlog' = <<>>
      /\ conn' = [c \in Clients |-> IF InBacklog(c) THEN "rst" ELSE conn[c]]
      /\ UNCHANGED <<sent, inbox, echoed, buf>>
  BY DEF Thread!Die, Thread!InBacklog, InBacklog
<1>2. Service!Abandon /\ EndOfFile'
  BY <1>1, EndOfAll DEF ThreadInv
<1>3. Thread!Service!Abandon
  BY <1>2 DEF Service!Abandon, Service!In, Thread!Service!Abandon,
              Thread!Service!In, Thread!StageOf, Thread!InBacklog, Thread!Reset,
              StageOf, InBacklog, Reset
<1>4. (pc' # "dead") = FALSE
  BY <1>1
<1> QED BY <1>1, <1>2, <1>3, <1>4
        DEF ThreadServes, Thread!Service!Next, Thread!Service!Stop

\* What main does by itself: it accepts and hands over, and nobody sees it.
LEMMA MainThreadServes ==
  ASSUME ThreadInv, EndOfFile, Thread!Accept \/ Thread!Malloc \/ Thread!Create
  PROVE  ThreadServes /\ EndOfFile'
<1>0. LoopInv /\ pc # "dead" /\ pc' # "dead"
  BY DEF ThreadInv, Thread!Accept, Thread!Malloc, Thread!Create
<1>1. CASE Thread!Accept
  <2>1. PICK c \in Clients : c = Head(backlog)
    BY <1>0, <1>1, HeadOfQueue DEF Thread!Accept
  <2>2. /\ backlog # <<>> /\ backlog' = Tail(backlog)
        /\ holders' = [holders EXCEPT ![c] = @ \cup {Main}]
        /\ UNCHANGED <<conn, sent, inbox, echoed, phase, serves, buf>>
    BY <1>1, <2>1 DEF Thread!Accept, Thread!workerVars
  <2> QED BY <1>0, <2>1, <2>2, StepHolds, ThreadServesUnseen
<1>2. CASE Thread!Malloc \/ Thread!Create
  <2>1. /\ UNCHANGED <<backlog, conn, sent, inbox, echoed, holders, serves, buf>>
        /\ \/ UNCHANGED phase
           \/ \E t \in Workers : phase' = [phase EXCEPT ![t] = "start"]
    BY <1>2 DEF Thread!Malloc, Thread!Create, Thread!loopVars, Thread!netVars,
                Thread!workerVars
  <2>2. Unseen
    BY <2>1 DEF Unseen, Stages, Course, StageOf, InBacklog, Broken, Reset
  <2>3. EndOfFile'
    BY <1>0, <2>1, EofStays DEF LoopInv, LoopTypes
  <2> QED BY <1>0, <2>2, <2>3, ThreadServesUnseen
<1> QED BY <1>1, <1>2

\* The thread is the worker the client gets.
LEMMA StartServes ==
  ASSUME ThreadInv, EndOfFile, NEW t \in Workers, Thread!Start(t)
  PROVE  ThreadServes /\ EndOfFile'
<1>1. PICK c \in Clients : c = heap[arg[t]] /\ Main \in holders[c]
  BY DEF Thread!Start, ThreadInv, HandOver, Starting
<1>2. /\ phase' = [phase EXCEPT ![t] = "recv"]
      /\ serves' = [serves EXCEPT ![t] = c]
      /\ holders' = [holders EXCEPT ![c] = (@ \ {Main}) \cup {t}]
      /\ UNCHANGED <<backlog, conn, sent, inbox, echoed, buf, pc>>
  BY <1>1 DEF Thread!Start
<1>3. LoopInv /\ holders[c] = {Main} /\ conn[c] # "new" /\ ~InBacklog(c)
  BY <1>1 DEF ThreadInv, LoopInv, FreshAreUntouched
<1>4. Course(c) = "waiting"
  BY <1>3 DEF Course, StageOf
<1>5. \A d \in Clients : InBacklog(d)' <=> InBacklog(d) /\ d # c
  BY <1>2, <1>3 DEF InBacklog
<1>6. Service!Serve(c)
  BY <1>2, <1>3, <1>4, <1>5, StepServes
<1>7. \A w \in Workers : phase'[w] = "send" =>
        phase[w] = "send" /\ serves'[w] = serves[w] /\ buf'[w] = buf[w]
  BY <1>2, <1>3 DEF LoopInv, LoopTypes
<1>8. EndOfFile'
  BY <1>2, <1>3, <1>7, EofStays
<1> QED BY <1>2, <1>6, <1>8, ThreadServesOne

LEMMA LoopServes ==
  ASSUME ThreadInv, EndOfFile, NEW t \in Workers,
         \/ Thread!ThreadRecv(t) \/ Thread!ThreadSendOn(t) \/ Thread!ThreadDone(t)
  PROVE  ThreadServes /\ EndOfFile'
<1>0. LoopInv /\ UNCHANGED pc
  BY DEF ThreadInv, Thread!ThreadRecv, Thread!ThreadSendOn, Thread!ThreadDone,
         Thread!mainVars
<1>1. CASE Thread!ThreadRecv(t)
  <2>1. Recv(t)
    BY <1>1, SameLoop DEF Thread!ThreadRecv
  <2> QED BY <1>0, <2>1, StepRecvs, RecvEof, ThreadServesUnseen
<1>2. CASE Thread!ThreadSendOn(t)
  <2>1. SendOn(t)
    BY <1>2, SameLoop DEF Thread!ThreadSendOn
  <2>2. /\ phase[t] = "send" /\ phase' = [phase EXCEPT ![t] = "recv"]
        /\ UNCHANGED <<backlog, inbox, serves, buf>> /\ Deliver(t)
    BY <2>1 DEF SendOn
  <2>3. PICK c \in Clients : c = serves[t]
    BY <1>0, <2>2, OwnClient DEF Serving
  <2>4. Service!Echo(c)
    BY <1>0, <2>1, <2>3, StepEchoes
  <2>5. "recv" \in Phase \ {"send"}
    BY DEF Phase
  <2>6. EndOfFile'
    BY <1>0, <2>2, <2>5, AnswerKeepsEof
  <2> QED BY <1>0, <2>4, <2>6, ThreadServesOne
<1>3. CASE Thread!ThreadDone(t)
  <2>1. SendLast(t)
    BY <1>3, SameLoop DEF Thread!ThreadDone
  <2>2. /\ phase[t] = "send" /\ phase' = [phase EXCEPT ![t] = "absent"]
        /\ serves' = [serves EXCEPT ![t] = NOBODY]
        /\ UNCHANGED <<backlog, inbox, buf>> /\ Deliver(t)
    BY <1>3, <2>1 DEF Thread!ThreadDone, SendLast
  <2>3. PICK c \in Clients : c = serves[t]
    BY <1>0, <2>2, OwnClient DEF Serving
  <2>4. Service!Finish(c)
    BY <1>0, <2>1, <2>3, StepFinishes
  <2>5. /\ \A v \in Workers : v # t => serves'[v] = serves[v]
        /\ "absent" \in Phase \ {"send"}
    BY <1>0, <2>2 DEF LoopInv, LoopTypes, Phase
  <2>6. EndOfFile'
    BY <1>0, <2>2, <2>5, AnswerKeepsEof
  <2> QED BY <1>0, <2>4, <2>6, ThreadServesOne
<1> QED BY <1>1, <1>2, <1>3

LEMMA ThreadClientServes ==
  ASSUME ThreadInv, EndOfFile, NEW c \in Clients, Thread!Client(c)
  PROVE  ThreadServes /\ EndOfFile'
<1>1. /\ Connect(c) \/ HangUp(c) \/ SendByte(c)
      /\ Connect(c) => pc # "dead"
      /\ UNCHANGED pc
  BY SameLoop DEF Thread!Client, Thread!mainVars, Thread!SendByte, Thread!HangUp,
                  Connect
<1>3. SendByte(c) => conn[c] = "up" /\ ByteArrives(c) /\ Course(c) # "over"
  BY DEF SendByte, ByteArrives, IsOpen, Course, StageOf, workerVars
<1>4. /\ EndOfFile'
      /\ \/ Connect(c) /\ Service!Connect(c)
         \/ Service!Send(c) \/ Service!Break(c) \/ Unseen
  BY <1>1, <1>3, ClientSeen DEF ThreadInv
<1> QED BY <1>1, <1>4, ThreadServesOne, ThreadServesUnseen

\* When main is dead so are its threads.
Deserted == pc = "dead" => \A t \in Workers : phase[t] = "absent"

LEMMA AllDieTogether ==
  ASSUME ThreadInv, Deserted, [Thread!Next]_(Thread!vars) PROVE Deserted'
<1> SUFFICES ASSUME pc' = "dead" PROVE \A t \in Workers : phase'[t] = "absent"
  BY DEF Deserted
<1>1. CASE Thread!Die
  BY <1>1 DEF Thread!Die
<1>2. CASE ~Thread!Die
  <2>1. pc = "dead" /\ ~Thread!MainThread
    <3>1. CASE UNCHANGED Thread!vars
      BY <3>1 DEF Thread!vars, Thread!mainVars, Thread!MainThread, Thread!Accept,
                  Thread!Malloc, Thread!Create, Thread!NoMemoryOrThread
    <3>2. CASE Thread!Next
      BY <1>2, <3>2 DEF Thread!Next, Thread!MainThread, Thread!Accept,
           Thread!Malloc, Thread!Create, Thread!NoMemoryOrThread, Thread!Thread,
           Thread!Start, Thread!ThreadRecv, Thread!ThreadSendOn,
           Thread!ThreadDone, Thread!ThreadFails, Thread!Client, Thread!mainVars
    <3> QED BY <3>1, <3>2
  <2>2. \A t \in Workers : phase[t] = "absent"
    BY <2>1 DEF Deserted
  <2>3. ~\E t \in Workers : Thread!Thread(t)
    BY <2>2 DEF Thread!Thread, Thread!Start, Thread!ThreadRecv, Thread!Recv,
         Thread!ThreadSendOn, Thread!SendOn, Thread!ThreadDone,
         Thread!SendLast, Thread!ThreadFails, Thread!RecvFails, Thread!SendFails
  <2>4. UNCHANGED phase
    BY <2>1, <2>3 DEF Thread!Next, Thread!vars, Thread!loopVars,
         Thread!workerVars, Thread!Client, Thread!Connect, Thread!SendByte,
         Thread!HangUp
  <2> QED BY <2>2, <2>4
<1> QED BY <1>1, <1>2

LEMMA ThreadSteps ==
  ThreadInv /\ EndOfFile /\ Deserted /\ [Thread!Next]_(Thread!vars)
    => ThreadServes /\ EndOfFile'
<1> SUFFICES ASSUME ThreadInv, EndOfFile, Deserted, [Thread!Next]_(Thread!vars)
             PROVE  ThreadServes /\ EndOfFile'
  OBVIOUS
<1>1. CASE Thread!MainThread
  BY <1>1, MainThreadServes, DieServes
     DEF Thread!MainThread, Thread!NoMemoryOrThread
<1>2. ASSUME NEW t \in Workers, Thread!Thread(t)
      PROVE  ThreadServes /\ EndOfFile'
  <2>1. CASE Thread!ThreadFails(t)
    <3>1. phase[t] # "absent" /\ Thread!Die
      BY <2>1 DEF Thread!ThreadFails, Thread!RecvFails, Thread!SendFails
    <3> QED BY <3>1, DieServes DEF Deserted
  <2> QED BY <1>2, <2>1, StartServes, LoopServes DEF Thread!Thread
<1>3. ASSUME NEW c \in Clients, Thread!Client(c)
      PROVE  ThreadServes /\ EndOfFile'
  BY <1>3, ThreadClientServes
<1>4. CASE UNCHANGED Thread!vars
  <2>1. UNCHANGED <<backlog, conn, sent, inbox, echoed, holders, phase, serves, buf, pc>>
    BY <1>4 DEF Thread!vars, Thread!loopVars, Thread!netVars, Thread!workerVars,
                Thread!mainVars
  <2>2. Unseen /\ EndOfFile'
    BY <2>1 DEF Unseen, Stages, Course, StageOf, InBacklog, Broken, Reset, EndOfFile
  <2> QED BY <2>1, <2>2, ThreadServesUnseen
<1> QED BY <1>1, <1>2, <1>3, <1>4 DEF Thread!Next

LEMMA InitThreadServes ==
  Thread!Init => Thread!Service!Init /\ EndOfFile /\ Deserted /\ InFull
<1> SUFFICES ASSUME Thread!Init
             PROVE  Thread!Service!Init /\ EndOfFile /\ Deserted /\ InFull
  OBVIOUS
<1>1. LoopInit /\ pc = "accept"
  BY SameLoop DEF Thread!Init
<1>2. /\ [c \in Clients |-> StageOf(c, holders[c])] = [c \in Clients |-> "new"]
      /\ {c \in Clients : Reset(c)} = {} /\ EndOfFile /\ InFull
  BY <1>1, ServiceStarts
<1>3. Thread!Service!Init
  BY <1>1, <1>2 DEF LoopInit, Thread!Service!Init, Thread!StageOf,
     Thread!InBacklog, Thread!Reset, StageOf, InBacklog, Reset
<1> QED BY <1>1, <1>2, <1>3 DEF Deserted

LEMMA ThreadEof == Thread!Spec => [](ThreadInv /\ EndOfFile /\ Deserted)
<1>1. Thread!Init => EndOfFile /\ Deserted
  BY InitThreadServes
<1>2. ThreadInv /\ EndOfFile /\ Deserted /\ [Thread!Next]_(Thread!vars)
        => EndOfFile' /\ Deserted'
  BY ThreadSteps, AllDieTogether
<1> QED BY <1>1, <1>2, ThreadInvariant, PTL DEF Thread!Spec

\* The threads serve as the pool does: the hand-over from main to a thread
\* is nothing a client can see.
THEOREM ThreadsAreAService == Thread!Spec => Thread!ImplementsService
<1>1. Thread!Init => Thread!Service!Init
  BY InitThreadServes
<1>2. ThreadInv /\ EndOfFile /\ Deserted /\ [Thread!Next]_(Thread!vars)
        => [Thread!Service!Next]_(Thread!Service!vars)
  BY ThreadSteps DEF ThreadServes
<1> QED BY <1>1, <1>2, ThreadEof, PTL
        DEF Thread!Spec, Thread!ImplementsService, Thread!Service!Spec

LEMMA ThreadsInFull ==
  ASSUME LoopTypes, ThreadServes, pc # "dead" => InFull
  PROVE  pc' # "dead" => InFull'
<1> SUFFICES ASSUME pc' # "dead" PROVE InFull'
  OBVIOUS
<1>1. CASE Thread!Service!Next
  <2>1. CASE Thread!Service!Stop
    BY <2>1 DEF Thread!Service!Stop
  <2>2. CASE ~Thread!Service!Stop
    <3>1. pc # "dead" /\ \E c \in Clients : Thread!Service!Client(c)
      BY <1>1, <2>2 DEF Thread!Service!Next
    <3> QED BY <3>1, SameService, KeepsAnswers DEF Thread!Service!Client
  <2> QED BY <2>1, <2>2
<1>2. CASE UNCHANGED Thread!Service!vars
  <2>1. /\ Stages' = Stages /\ UNCHANGED <<sent, echoed, Broken>>
        /\ (pc' # "dead") = (pc # "dead")
    BY <1>2 DEF Thread!Service!vars, Stages, Course, Broken, Thread!StageOf,
                Thread!InBacklog, Thread!Reset, StageOf, InBacklog, Reset
  <2> QED BY <2>1, InFullStays
<1> QED BY <1>1, <1>2 DEF ThreadServes

\* No client of echo_thread ever gets what it did not send.
THEOREM ThreadsMakeNothingUp == Thread!Spec => []Thread!Service!EchoesABeginning
<1>1. Thread!Init => Service!EchoesABeginning
  BY SameLoop, ServiceStarts DEF Thread!Init
<1>2. ASSUME ThreadInv, EndOfFile, Deserted, Service!EchoesABeginning,
             [Thread!Next]_(Thread!vars)
      PROVE  Service!EchoesABeginning'
  <2>1. \/ UNCHANGED <<sent, echoed>>
        \/ \E c \in Clients : Thread!Service!Send(c) \/ Thread!Service!Reply(c)
    BY <1>2, ThreadSteps
       DEF ThreadServes, Thread!Service!vars, Thread!Service!Next,
           Thread!Service!Client, Thread!Service!Connect, Thread!Service!Break,
           Thread!Service!Serve, Thread!Service!Echo, Thread!Service!Finish,
           Thread!Service!Drop, Thread!Service!Stop, Thread!Service!Abandon
  <2> QED BY <1>2, <2>1, SameService, KeepsBeginnings DEF ThreadInv, LoopInv
<1>3. Service!EchoesABeginning => Thread!Service!EchoesABeginning
  BY DEF Service!EchoesABeginning, Thread!Service!EchoesABeginning
<1> QED BY <1>1, <1>2, <1>3, ThreadEof, PTL DEF Thread!Spec

\* As long as echo_thread runs no thread leaves its client half answered.
THEOREM ThreadsAnswerInFull == Thread!Spec => []Thread!Service!AnsweredInFull
<1> DEFINE Kept == pc # "dead" => InFull
<1>1. Thread!Init => Kept
  BY InitThreadServes
<1>2. ThreadInv /\ EndOfFile /\ Deserted /\ Kept /\ [Thread!Next]_(Thread!vars)
        => Kept'
  BY ThreadSteps, ThreadsInFull DEF ThreadInv, LoopInv
<1>3. Kept => Thread!Service!AnsweredInFull
  BY DEF Thread!Service!AnsweredInFull, Thread!Service!In, InFull, Course, Broken,
         Thread!Service!Complete, Thread!Service!EndsLine, Service!Complete,
         Service!EndsLine, Thread!StageOf, Thread!InBacklog, Thread!Reset,
         Thread!Byte, StageOf, InBacklog, Reset, Byte
<1> HIDE DEF Kept
<1> QED BY <1>1, <1>2, <1>3, ThreadEof, PTL DEF Thread!Spec

=============================================================================
