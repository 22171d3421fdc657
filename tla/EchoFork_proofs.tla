--------------------------- MODULE EchoFork_proofs ---------------------------
(***************************************************************************)
(* The parent of echo_fork counts its children and keeps the limit, for    *)
(* any limit and any number of clients and process identifiers.            *)
(***************************************************************************)
EXTENDS EchoFork, FiniteSetTheorems, SequenceTheorems, TLAPS

\* At each call of the parent: how n_process stands to the limit.
LimitAtPc ==
  /\ n_process <= PRCS_LIMIT
  /\ pc \in {"accept", "fork", "reap"} => n_process < PRCS_LIMIT
  /\ pc = "wait" => n_process = PRCS_LIMIT

IInv ==
  /\ pc \in {"accept", "fork", "close", "wait", "reap", "dead"}
  /\ n_process \in Nat
  /\ phase \in [Workers -> Phase]
  /\ IsFiniteSet(Children)
  /\ CountIsExact
  /\ LimitAtPc

-----------------------------------------------------------------------------
LEMMA InitInv == Init => IInv
<1> SUFFICES ASSUME Init PROVE IInv
  OBVIOUS
<1>1. Children = {}
  BY DEF Init, LoopInit, Children
<1>2. IsFiniteSet(Children) /\ Cardinality(Children) = 0
  BY <1>1, FS_EmptySet
<1> QED BY <1>2, LimitAssumption
        DEF Init, LoopInit, IInv, CountIsExact, LimitAtPc, Phase

\* A step that neither creates nor reaps a child.
LEMMA SameChildren ==
  ASSUME IInv, Children' = Children, n_process' = n_process,
         phase' \in [Workers -> Phase],
         pc' \in {"accept", "fork", "close", "wait", "reap", "dead"},
         LimitAtPc'
  PROVE  IInv'
BY DEF IInv, CountIsExact

LEMMA ForkInv ==
  ASSUME IInv, Fork
  PROVE  IInv'
<1>1. PICK p \in Workers \ Children : phase' = [phase EXCEPT ![p] = "recv"]
  BY DEF Fork
<1>2. Children' = Children \cup {p} /\ phase' \in [Workers -> Phase]
  BY <1>1 DEF Children, IInv, Phase
<1>3. /\ IsFiniteSet(Children')
      /\ Cardinality(Children') = Cardinality(Children) + 1
  BY <1>1, <1>2, FS_AddElement DEF IInv
<1>4. pc = "fork" /\ n_process' = n_process + 1 /\ pc' = "close"
  BY DEF Fork
<1>5. n_process' \in Nat /\ LimitAtPc'
  BY <1>4, LimitAssumption DEF IInv, LimitAtPc
<1> QED BY <1>2, <1>3, <1>4, <1>5 DEF IInv, CountIsExact

\* A child is reaped, in wait or in the loop behind it.
LEMMA ReapInv ==
  ASSUME IInv, Wait \/ Reap
  PROVE  IInv'
<1>1. PICK p \in Zombies : Reaped(p)
  BY DEF Wait, Reap
<1>2. p \in Children
  BY <1>1 DEF Zombies, Children
<1>3. Children' = Children \ {p} /\ phase' \in [Workers -> Phase]
  BY <1>1 DEF Children, Zombies, Reaped, IInv, Phase
<1>4. /\ IsFiniteSet(Children')
      /\ Cardinality(Children') = Cardinality(Children) - 1
  BY <1>2, <1>3, FS_RemoveElement DEF IInv
<1>5. Cardinality(Children) # 0
  BY <1>2, FS_EmptySet DEF IInv
<1>6. pc \in {"wait", "reap"} /\ pc' = "reap" /\ n_process' = n_process - 1
  BY DEF Wait, Reap
<1>7. n_process' \in Nat /\ LimitAtPc'
  BY <1>5, <1>6, LimitAssumption DEF IInv, CountIsExact, LimitAtPc
<1> QED BY <1>3, <1>4, <1>6, <1>7 DEF IInv, CountIsExact

LEMMA ParentInv ==
  ASSUME IInv, Accept \/ ForkFails \/ Close \/ NoneToReap
  PROVE  IInv'
<1>1. Children' = Children /\ phase' = phase /\ n_process' = n_process
  BY DEF Accept, ForkFails, Close, NoneToReap, workerVars, loopVars, Children
<1>2. CASE Accept
  BY <1>1, <1>2, SameChildren DEF Accept, IInv, LimitAtPc
<1>3. CASE ForkFails
  BY <1>1, <1>3, SameChildren DEF ForkFails, IInv, LimitAtPc
<1>4. CASE Close
  BY <1>1, <1>4, SameChildren, LimitAssumption DEF Close, IInv, LimitAtPc
<1>5. CASE NoneToReap
  BY <1>1, <1>5, SameChildren DEF NoneToReap, IInv, LimitAtPc
<1> QED BY <1>2, <1>3, <1>4, <1>5

\* A child stays a child until the parent has reaped it.
LEMMA ChildInv ==
  ASSUME IInv, NEW p \in Workers, Child(p)
  PROVE  IInv'
<1>1. UNCHANGED parentVars /\ \E ph \in {"recv", "send", "zombie"} :
        phase' = [phase EXCEPT ![p] = ph]
  BY DEF Child, ChildRecv, ChildSendOn, ChildDone, ChildFails, Recv, SendOn,
         Exit
<1>2. phase[p] \in {"recv", "send"}
  BY DEF Child, ChildRecv, ChildSendOn, ChildDone, ChildFails, Recv, SendOn,
         SendLast, RecvFails, SendFails
<1>3. Children' = Children /\ phase' \in [Workers -> Phase]
  BY <1>1, <1>2 DEF Children, IInv, Phase
<1> QED BY <1>1, <1>3, SameChildren DEF parentVars, IInv, LimitAtPc

LEMMA NextInv == IInv /\ [Next]_vars => IInv'
<1> SUFFICES ASSUME IInv, [Next]_vars PROVE IInv'
  OBVIOUS
<1>1. CASE Parent
  BY <1>1, ParentInv, ForkInv, ReapInv DEF Parent
<1>2. ASSUME NEW p \in Workers, Child(p)
      PROVE  IInv'
  BY <1>2, ChildInv
<1>3. CASE (\E c \in Clients : Client(c)) \/ UNCHANGED vars
  <2>1. UNCHANGED <<phase, parentVars>>
    BY <1>3 DEF Client, Connect, SendByte, HangUp, workerVars, vars, loopVars
  <2>2. Children' = Children
    BY <2>1 DEF Children
  <2> QED BY <2>1, <2>2, SameChildren DEF parentVars, IInv, LimitAtPc
<1> QED BY <1>1, <1>2, <1>3 DEF Next

LEMMA Invariance == Spec => []IInv
<1> QED BY InitInv, NextInv, PTL DEF Spec

\* n_process is the number of children not reaped, at every moment.
THEOREM CountIsAlwaysExact == Spec => []CountIsExact
<1>1. IInv => CountIsExact
  BY DEF IInv
<1> QED BY <1>1, Invariance, PTL

\* There are never more than PRCS_LIMIT children, and fewer at accept.
THEOREM LimitIsAlwaysKept == Spec => []LimitIsKept
<1>1. IInv => LimitIsKept
  BY DEF IInv, LimitAtPc, LimitIsKept
<1> QED BY <1>1, Invariance, PTL

-----------------------------------------------------------------------------
\* The descriptors are a table, and the parent's part of it is small.
HInv ==
  /\ holders \in [Clients -> SUBSET (Workers \cup {Main})]
  /\ ParentKeepsNothing

LEMMA ChildKeepsHInv ==
  ASSUME HInv, NEW p \in Workers, Child(p)
  PROVE  HInv'
<1>1. UNCHANGED <<pc, sock_accepted>>
  BY DEF Child, ChildRecv, ChildSendOn, ChildDone, ChildFails, parentVars
<1>2. CASE ChildRecv(p) \/ ChildSendOn(p)
  <2>1. holders' = holders
    BY <1>2 DEF ChildRecv, ChildSendOn, Recv, SendOn
  <2> QED BY <1>1, <2>1 DEF HInv, ParentKeepsNothing
<1>3. CASE ChildDone(p)
  <2>1. holders' = [holders EXCEPT ![serves[p]] = @ \ {p}]
    BY <1>3 DEF ChildDone, SendLast
  <2> QED BY <1>1, <2>1 DEF HInv, ParentKeepsNothing
<1>4. CASE ChildFails(p)
  <2>1. holders' = [c \in Clients |-> holders[c] \ {p}]
    BY <1>4 DEF ChildFails, CloseAllOf
  <2> QED BY <1>1, <2>1 DEF HInv, ParentKeepsNothing
<1> QED BY <1>2, <1>3, <1>4 DEF Child

LEMMA ParentKeepsHInv ==
  ASSUME HInv, Parent
  PROVE  HInv'
<1>1. CASE Accept
  <2>1. /\ pc = "accept" /\ pc' = "fork" /\ sock_accepted' = Head(backlog)
        /\ holders' = [holders EXCEPT ![Head(backlog)] = @ \cup {Main}]
    BY <1>1 DEF Accept
  <2>2. \A c \in Clients : Main \notin holders[c]
    BY <2>1 DEF HInv, ParentKeepsNothing
  <2> QED BY <2>1, <2>2 DEF HInv, ParentKeepsNothing
<1>2. CASE Fork
  <2>1. PICK p \in Workers :
          holders' = [holders EXCEPT ![sock_accepted] = @ \cup {p}]
    BY <1>2 DEF Fork
  <2>2. pc = "fork" /\ pc' = "close" /\ sock_accepted' = sock_accepted
    BY <1>2 DEF Fork
  <2> QED BY <2>1, <2>2, EchoAssumption DEF HInv, ParentKeepsNothing
<1>3. CASE ForkFails \/ Close
  <2>1. holders' = [c \in Clients |-> holders[c] \ {Main}]
    BY <1>3 DEF ForkFails, Close, CloseAllOf
  <2> QED BY <2>1 DEF HInv, ParentKeepsNothing
<1>4. CASE Wait \/ Reap \/ NoneToReap
  <2>1. /\ UNCHANGED <<holders, sock_accepted>>
        /\ pc \in {"wait", "reap"}
    BY <1>4 DEF Wait, Reap, NoneToReap, netVars, loopVars
  <2> QED BY <2>1 DEF HInv, ParentKeepsNothing
<1> QED BY <1>1, <1>2, <1>3, <1>4 DEF Parent

LEMMA NextHInv == HInv /\ [Next]_vars => HInv'
<1> SUFFICES ASSUME HInv, [Next]_vars PROVE HInv'
  OBVIOUS
<1>1. CASE Parent
  BY <1>1, ParentKeepsHInv
<1>2. ASSUME NEW p \in Workers, Child(p)
      PROVE  HInv'
  BY <1>2, ChildKeepsHInv
<1>3. CASE (\E c \in Clients : Client(c)) \/ UNCHANGED vars
  <2>1. UNCHANGED <<holders, parentVars>>
    BY <1>3 DEF Client, Connect, SendByte, HangUp, vars, loopVars, netVars
  <2> QED BY <2>1 DEF parentVars, HInv, ParentKeepsNothing
<1> QED BY <1>1, <1>2, <1>3 DEF Next

\* The parent never keeps a connection it has handed to a child.
THEOREM ParentAlwaysLetsGo == Spec => []ParentKeepsNothing
<1>1. Init => HInv
  BY DEF Init, LoopInit, HInv, ParentKeepsNothing
<1>2. HInv => ParentKeepsNothing
  BY DEF HInv
<1> QED BY <1>1, <1>2, NextHInv, PTL DEF Spec

-----------------------------------------------------------------------------
(***************************************************************************)
(* The children run the loop of EchoPool_proofs, and its lemmas hold here  *)
(* too, for the descriptors in use.                                        *)
(***************************************************************************)
Pool == INSTANCE EchoPool_proofs
          WITH holders <- InUse, mode <- "Fork", Cells <- {}, NULL <- NOBODY,
               tharg <- NOBODY, heap <- <<>>, allocated <- {}, arg <- <<>>

\* At fork the parent holds what it has accepted.
InHand ==
  pc = "fork" => sock_accepted \in Clients /\ Main \in holders[sock_accepted]

LInv == Pool!LoopInv /\ HInv /\ InHand

LEMMA LoopConstants == Pool!EchoAssumption
BY EchoAssumption DEF Pool!EchoAssumption

LEMMA InitLInv == Init => LInv
<1> SUFFICES ASSUME Init PROVE LInv
  OBVIOUS
<1>1. InUse = [c \in Clients |-> {}]
  BY DEF Init, LoopInit, InUse
<1>2. Pool!LoopInit
  BY <1>1 DEF Init, LoopInit, Pool!LoopInit
<1>3. Pool!LoopInv
  BY <1>2, LoopConstants, Pool!InitLoop
<1>4. HInv /\ InHand
  BY DEF Init, LoopInit, HInv, ParentKeepsNothing, InHand
<1> QED BY <1>3, <1>4 DEF LInv

LEMMA AcceptLoop ==
  ASSUME LInv, Accept
  PROVE  Pool!LoopInv' /\ InHand'
<1>1. /\ backlog # <<>> /\ backlog' = Tail(backlog)
      /\ holders' = [holders EXCEPT ![Head(backlog)] = @ \cup {Main}]
      /\ pc = "accept" /\ pc' = "fork" /\ sock_accepted' = Head(backlog)
      /\ UNCHANGED <<conn, sent, inbox, echoed, phase, serves, buf>>
  BY DEF Accept, workerVars
<1>2. PICK c \in Clients : c = Head(backlog)
  <2>1. backlog \in Seq(Clients)
    BY DEF LInv, Pool!LoopInv, Pool!LoopTypes
  <2> QED BY <1>1, <2>1
<1>3. holders \in [Clients -> SUBSET (Workers \cup {Main})]
  BY DEF LInv, HInv
<1>4. InUse = holders /\ InUse' = holders'
  BY <1>1, <1>3 DEF InUse
<1>5. InUse' = [InUse EXCEPT ![c] = @ \cup {Main}]
  BY <1>1, <1>2, <1>4
<1>6. Pool!LoopInv'
  BY <1>1, <1>2, <1>5, LoopConstants, Pool!HoldLoop DEF LInv
<1>7. InHand'
  BY <1>1, <1>2, <1>3 DEF InHand
<1> QED BY <1>6, <1>7

\* fork: the child takes over what only the parent had.
LEMMA ForkGives ==
  ASSUME LInv, Fork
  PROVE  \E p \in Workers, c \in Clients :
           /\ phase'  = [phase EXCEPT ![p] = "recv"]
           /\ serves' = [serves EXCEPT ![p] = c]
           /\ InUse'  = [InUse EXCEPT ![c] = (@ \ {Main}) \cup {p}]
           /\ ~Pool!Serving(p) /\ InUse[c] = {Main}
           /\ Pool!Untouched(c) /\ conn[c] # "new" /\ ~Pool!InBacklog(c)
<1>1. PICK p \in Workers \ Children :
        /\ phase'   = [phase EXCEPT ![p] = "recv"]
        /\ serves'  = [serves EXCEPT ![p] = sock_accepted]
        /\ holders' = [holders EXCEPT ![sock_accepted] = @ \cup {p}]
  BY DEF Fork
<1>2. pc = "fork" /\ pc' = "close"
  BY DEF Fork
<1>3. PICK c \in Clients : c = sock_accepted /\ Main \in holders[c]
  BY <1>2 DEF LInv, InHand
<1>4. /\ holders \in [Clients -> SUBSET (Workers \cup {Main})]
      /\ \A d \in Clients : Main \in holders[d] => d = c
  BY <1>2, <1>3 DEF LInv, HInv, ParentKeepsNothing
<1>5. InUse = holders
  BY <1>2, <1>4 DEF InUse
<1>6. p # Main /\ ~Pool!Serving(p)
  BY <1>1, EchoAssumption DEF Children, Pool!Serving
<1>7. InUse' = [InUse EXCEPT ![c] = (@ \ {Main}) \cup {p}]
  <2>1. InUse' = [d \in Clients |-> holders'[d] \ {Main}]
    BY <1>2 DEF InUse
  <2>2. \A d \in Clients :
          holders'[d] = IF d = c THEN holders[d] \cup {p} ELSE holders[d]
    BY <1>1, <1>3, <1>4
  <2>3. \A d \in Clients :
          holders'[d] \ {Main}
            = IF d = c THEN (holders[d] \ {Main}) \cup {p} ELSE holders[d]
    BY <1>4, <1>6, <2>2
  <2> QED BY <1>4, <1>5, <2>1, <2>3
<1>8. Pool!Untouched(c) /\ conn[c] # "new" /\ ~Pool!InBacklog(c)
      /\ InUse[c] = {Main}
  BY <1>3, <1>5 DEF LInv, Pool!LoopInv, Pool!FreshAreUntouched
<1> QED BY <1>1, <1>3, <1>6, <1>7, <1>8

LEMMA ForkLoop ==
  ASSUME LInv, Fork
  PROVE  Pool!LoopInv' /\ InHand'
<1>1. PICK p \in Workers, c \in Clients :
        /\ phase'  = [phase EXCEPT ![p] = "recv"]
        /\ serves' = [serves EXCEPT ![p] = c]
        /\ InUse'  = [InUse EXCEPT ![c] = (@ \ {Main}) \cup {p}]
        /\ ~Pool!Serving(p) /\ InUse[c] = {Main}
        /\ Pool!Untouched(c) /\ conn[c] # "new" /\ ~Pool!InBacklog(c)
  BY ForkGives
<1>2. pc' = "close" /\ UNCHANGED <<backlog, conn, sent, inbox, echoed, buf>>
  BY DEF Fork
<1>3. \A v \in Workers : ~(Pool!Serving(v) /\ serves[v] = c)
  BY <1>1 DEF LInv, Pool!LoopInv, Pool!OneWorkerPerConnection
<1>4. /\ backlog' \in Seq(Clients)
      /\ \A d \in Clients : Pool!InBacklog(d)' => Pool!InBacklog(d) /\ d # c
      /\ \A i, j \in 1 .. Len(backlog') : backlog'[i] = backlog'[j] => i = j
  <2>1. backlog' = backlog
    BY <1>2
  <2>2. /\ backlog \in Seq(Clients)
        /\ \A i, j \in 1 .. Len(backlog) : backlog[i] = backlog[j] => i = j
    BY DEF LInv, Pool!LoopInv, Pool!LoopTypes, Pool!FreshAreUntouched
  <2>3. \A d \in Clients : Pool!InBacklog(d)' => Pool!InBacklog(d)
    BY <2>1 DEF Pool!InBacklog
  <2> QED BY <1>1, <2>1, <2>2, <2>3
<1>5. Pool!LoopInv'
  BY <1>1, <1>2, <1>3, <1>4, LoopConstants, Pool!TakeLoop DEF LInv
<1> QED BY <1>2, <1>5 DEF InHand

LEMMA ForkFailsLoop ==
  ASSUME LInv, ForkFails
  PROVE  Pool!LoopInv' /\ InHand'
<1>1. /\ pc = "fork" /\ pc' = "dead" /\ backlog' = <<>>
      /\ holders' = [c \in Clients |-> holders[c] \ {Main}]
      /\ conn' = [c \in Clients |-> IF InBacklog(c) THEN "rst" ELSE conn[c]]
      /\ UNCHANGED <<sent, inbox, echoed, phase, serves, buf>>
  BY DEF ForkFails, CloseAllOf, workerVars
<1>2. InUse' = [c \in Clients |-> InUse[c] \ {Main}]
  BY <1>1 DEF InUse
<1>3. \A c \in Clients : InBacklog(c) <=> Pool!InBacklog(c)
  BY DEF InBacklog, Pool!InBacklog
<1>4. conn' = [c \in Clients |->
                 IF Pool!InBacklog(c) THEN "rst" ELSE conn[c]]
  BY <1>1, <1>3
<1>5. Pool!LoopInv'
  BY <1>1, <1>2, <1>4, LoopConstants, Pool!MainEndsLoop DEF LInv
<1> QED BY <1>1, <1>5 DEF InHand

\* close, and the calls that reap: the descriptors in use are the same.
LEMMA ParentRests ==
  ASSUME LInv, Close \/ Wait \/ Reap \/ NoneToReap
  PROVE  /\ pc # "dead" /\ pc' \in {"wait", "reap", "accept"}
         /\ UNCHANGED <<backlog, conn, sent, inbox, echoed, serves, buf, InUse>>
         /\ \/ UNCHANGED phase
            \/ \E p \in Zombies : phase' = [phase EXCEPT ![p] = "absent"]
<1>1. /\ pc \in {"close", "wait", "reap"} /\ pc' \in {"wait", "reap", "accept"}
      /\ UNCHANGED <<backlog, conn, sent, inbox, echoed, serves, buf>>
      /\ holders' = IF pc = "close" THEN [c \in Clients |-> holders[c] \ {Main}]
                                    ELSE holders
  BY DEF Close, CloseAllOf, Wait, Reap, NoneToReap, loopVars, netVars, workerVars
<1>2. holders \in [Clients -> SUBSET (Workers \cup {Main})]
  BY DEF LInv, HInv
<1>3. UNCHANGED InUse
  BY <1>1, <1>2 DEF InUse
<1>4. \/ UNCHANGED phase
      \/ \E p \in Zombies : phase' = [phase EXCEPT ![p] = "absent"]
  BY DEF Close, Wait, Reap, Reaped, NoneToReap, loopVars, workerVars
<1> QED BY <1>1, <1>3, <1>4

LEMMA ParentLoop ==
  ASSUME LInv, Close \/ Wait \/ Reap \/ NoneToReap
  PROVE  Pool!LoopInv' /\ InHand'
<1>1. /\ pc' \in {"wait", "reap", "accept"}
      /\ UNCHANGED <<backlog, conn, sent, inbox, echoed, serves, buf, InUse>>
      /\ \/ UNCHANGED phase
         \/ \E p \in Zombies : phase' = [phase EXCEPT ![p] = "absent"]
  BY ParentRests
<1>2. InHand'
  BY <1>1 DEF InHand
<1>3. CASE UNCHANGED phase
  <2>1. UNCHANGED Pool!loopVars
    BY <1>1, <1>3 DEF Pool!loopVars, Pool!netVars, Pool!workerVars
  <2> QED BY <1>2, <2>1, LoopConstants, Pool!LoopStutters DEF LInv
<1>4. CASE \E p \in Zombies : phase' = [phase EXCEPT ![p] = "absent"]
  <2>1. PICK p \in Zombies : phase' = [phase EXCEPT ![p] = "absent"]
    BY <1>4
  <2>2. /\ p \in Workers /\ ~Pool!Serving(p)
        /\ "absent" \in Pool!Phase \ {"recv", "send"}
    BY <2>1 DEF Zombies, Pool!Serving, Pool!Phase
  <2>3. UNCHANGED <<Pool!netVars, serves, buf>>
    BY <1>1 DEF Pool!netVars
  <2> QED BY <1>2, <2>1, <2>2, <2>3, LoopConstants, Pool!IdleLoop DEF LInv
<1> QED BY <1>1, <1>3, <1>4

\* A child that leaves closes what it has, and leaves other children alone.
LEMMA ChildCloses ==
  ASSUME LInv, NEW p \in Workers, ChildDone(p) \/ ChildFails(p)
  PROVE  /\ Pool!Serving(p)
         /\ InUse' = [InUse EXCEPT ![serves[p]] = @ \ {p}]
         /\ \A d \in Clients : Main \in holders[d] => Main \in holders'[d]
<1>1. holders \in [Clients -> SUBSET (Workers \cup {Main})] /\ p # Main
  BY EchoAssumption DEF LInv, HInv
<1>2. Pool!Serving(p) /\ UNCHANGED pc
  BY DEF ChildDone, ChildFails, SendLast, RecvFails, SendFails, parentVars,
         Pool!Serving
<1>3. PICK c \in Clients : c = serves[p]
  BY <1>2 DEF LInv, Pool!LoopInv, Pool!LoopTypes
<1>4. \A d \in Clients : holders'[d] = IF d = c THEN holders[d] \ {p}
                                                ELSE holders[d]
  <2>1. CASE ChildDone(p)
    BY <1>1, <1>3, <2>1 DEF ChildDone, SendLast
  <2>2. CASE ChildFails(p)
    <3>1. \A d \in Clients : holders'[d] = holders[d] \ {p}
      BY <2>2 DEF ChildFails, CloseAllOf
    <3>2. \A d \in Clients : p \in holders[d] => p \in InUse[d]
      BY <1>1 DEF InUse
    <3>3. \A d \in Clients : p \in InUse[d] => d = c
      BY <1>1, <1>3 DEF LInv, Pool!LoopInv, Pool!OneWorkerPerConnection
    <3> QED BY <3>1, <3>2, <3>3
  <2> QED BY <2>1, <2>2
<1>5. InUse' = [InUse EXCEPT ![serves[p]] = @ \ {p}]
  <2>1. \A d \in Clients : InUse'[d] = IF d = c THEN InUse[d] \ {p}
                                                ELSE InUse[d]
    BY <1>2, <1>4 DEF InUse
  <2>2. /\ InUse' = [d \in Clients |-> InUse'[d]]
        /\ InUse = [d \in Clients |-> InUse[d]]
    BY DEF InUse
  <2> QED BY <1>3, <2>1, <2>2
<1> QED BY <1>1, <1>2, <1>4, <1>5

LEMMA ChildLoop ==
  ASSUME LInv, NEW p \in Workers, Child(p)
  PROVE  Pool!LoopInv' /\ InHand'
<1>1. UNCHANGED parentVars /\ UNCHANGED <<pc, sock_accepted>>
  BY DEF Child, ChildRecv, ChildSendOn, ChildDone, ChildFails, parentVars
<1>2. holders \in [Clients -> SUBSET (Workers \cup {Main})] /\ p # Main
  BY EchoAssumption DEF LInv, HInv
<1>3. CASE ChildRecv(p) \/ ChildSendOn(p)
  <2>1. Recv(p) \/ SendOn(p)
    BY <1>3 DEF ChildRecv, ChildSendOn
  <2>2. Pool!Recv(p) \/ Pool!SendOn(p)
    BY <1>1, <2>1
       DEF InUse, Recv, RecvInto, Least, SendOn, Deliver, SawNewline, Reset,
           Pool!Recv, Pool!RecvInto, Pool!Least, Pool!SendOn, Pool!Deliver,
           Pool!SawNewline, Pool!Reset
  <2>3. Pool!LoopInv'
    BY <2>2, LoopConstants, Pool!RecvLoop, Pool!SendOnLoop DEF LInv
  <2>4. holders' = holders
    BY <2>1 DEF Recv, SendOn
  <2> QED BY <1>1, <2>3, <2>4 DEF LInv, InHand
<1>4. CASE ChildDone(p) \/ ChildFails(p)
  <2>1. /\ UNCHANGED <<backlog, sent, inbox, buf>>
        /\ phase'  = [phase EXCEPT ![p] = "zombie"]
        /\ serves' = [serves EXCEPT ![p] = NOBODY]
    BY <1>4 DEF ChildDone, ChildFails, SendLast, Exit
  <2>2. /\ Pool!Serving(p) /\ "zombie" \in Pool!Phase \ {"recv", "send"}
        /\ InUse' = [InUse EXCEPT ![serves[p]] = @ \ {p}]
        /\ \A d \in Clients : Main \in holders[d] => Main \in holders'[d]
    BY <1>4, ChildCloses DEF Pool!Phase
  <2>3. Pool!Deliver(p) \/ UNCHANGED <<conn, echoed>>
    BY <1>4 DEF ChildDone, ChildFails, SendLast, Deliver, Pool!Deliver
  <2>4. Pool!LoopInv'
    BY <2>1, <2>2, <2>3, LoopConstants, Pool!LeaveLoop DEF LInv
  <2>5. InHand'
    BY <1>1, <2>2 DEF LInv, InHand
  <2> QED BY <2>4, <2>5
<1> QED BY <1>3, <1>4 DEF Child

LEMMA ClientLoop ==
  ASSUME LInv, NEW c \in Clients, Client(c)
  PROVE  Pool!LoopInv' /\ InHand'
<1>1. UNCHANGED parentVars /\ UNCHANGED <<holders, pc, sock_accepted>>
  BY DEF Client, Connect, SendByte, HangUp, parentVars
<1>2. InHand'
  BY <1>1 DEF LInv, InHand
<1>3. CASE Connect(c) \/ SendByte(c)
  <2>1. Pool!Connect(c) \/ Pool!ByteArrives(c)
    BY <1>1, <1>3 DEF Connect, SendByte, workerVars, InUse,
                      Pool!Connect, Pool!ByteArrives, Pool!workerVars
  <2> QED BY <1>2, <2>1, LoopConstants, Pool!ConnectLoop, Pool!SendByteLoop
          DEF LInv
<1>4. CASE HangUp(c)
  <2>1. PICK s \in {"fin", "rst"} : conn' = [conn EXCEPT ![c] = s]
    BY <1>4 DEF HangUp
  <2>2. s \in Pool!ConnState \ {"new"}
    BY DEF Pool!ConnState
  <2>3. UNCHANGED <<backlog, sent, inbox, echoed, InUse, phase, serves, buf>>
    BY <1>1, <1>4 DEF HangUp, workerVars, InUse
  <2> QED BY <1>2, <2>1, <2>2, <2>3, LoopConstants, Pool!ConnLoop DEF LInv
<1> QED BY <1>3, <1>4 DEF Client

LEMMA LoopInvariance == Spec => []LInv
<1>1. HInv /\ [Next]_vars => HInv'
  BY NextHInv
<1>2. LInv /\ [Next]_vars => LInv'
  <2> SUFFICES ASSUME LInv, [Next]_vars PROVE LInv'
    OBVIOUS
  <2>1. HInv'
    BY <1>1 DEF LInv
  <2>2. CASE Parent
    BY <2>1, <2>2, AcceptLoop, ForkLoop, ForkFailsLoop, ParentLoop
       DEF LInv, Parent
  <2>3. ASSUME NEW p \in Workers, Child(p) PROVE LInv'
    BY <2>1, <2>3, ChildLoop DEF LInv
  <2>4. ASSUME NEW c \in Clients, Client(c) PROVE LInv'
    BY <2>1, <2>4, ClientLoop DEF LInv
  <2>5. CASE UNCHANGED vars
    <3>1. UNCHANGED <<loopVars, parentVars>> /\ UNCHANGED <<pc, sock_accepted>>
      BY <2>5 DEF vars, parentVars
    <3>2. UNCHANGED Pool!loopVars /\ UNCHANGED holders
      BY <3>1 DEF loopVars, netVars, workerVars, InUse, Pool!loopVars,
                  Pool!netVars, Pool!workerVars
    <3>3. Pool!LoopInv'
      BY <3>2, LoopConstants, Pool!LoopStutters DEF LInv
    <3> QED BY <2>1, <3>1, <3>2, <3>3 DEF LInv, InHand
  <2> QED BY <2>2, <2>3, <2>4, <2>5 DEF Next
<1> QED BY <1>2, InitLInv, PTL DEF Spec

\* No child of echo_fork mixes up the bytes of two clients or loses any.
THEOREM ChildrenEcho == Spec => []EchoIsFaithful
<1>1. LInv => EchoIsFaithful
  BY DEF LInv, Pool!LoopInv, Pool!EchoIsFaithful, Pool!Serving, EchoIsFaithful,
         Serving
<1> QED BY <1>1, LoopInvariance, PTL

\* A connection of echo_fork is open in the one child that serves it, and
\* nowhere else but in the parent that is about to close it.
THEOREM OneChildPerConnection == Spec => []OneWorkerPerConnection
<1>1. ASSUME LInv PROVE OneWorkerPerConnection
  <2>1. \A c \in Clients : holders[c] \ {Main} = InUse[c] \ {Main}
    BY DEF InUse
  <2>2. /\ \A v, w \in Workers :
             Serving(v) /\ Serving(w) /\ serves[v] = serves[w] => v = w
        /\ \A c \in Clients :
             InUse[c] \ {Main} = {w \in Workers : Serving(w) /\ serves[w] = c}
    BY <1>1 DEF LInv, Pool!LoopInv, Pool!OneWorkerPerConnection, Pool!Serving,
                Serving
  <2> QED BY <2>1, <2>2 DEF OneWorkerPerConnection
<1> QED BY <1>1, LoopInvariance, PTL

-----------------------------------------------------------------------------
(***************************************************************************)
(* echo_fork is an EchoService until its parent dies.  A byte may reach a  *)
(* connection whose child has finished, for the parent's copy keeps it     *)
(* open until close: LateLines says that the answer ended with a line.     *)
(***************************************************************************)
ForkServes == [Service!Next]_(Service!vars)

LateLines ==
  pc # "dead" => \A c \in Clients :
    Pool!Course(c) = "over" /\ conn[c] = "up" => Pool!Service!EndsLine(c)

ServiceInv == LInv /\ Pool!EndOfFile /\ LateLines

\* The steps of the service are those of the pool.
LEMMA SameService ==
  ASSUME NEW c \in Clients
  PROVE  /\ Service!Connect(c) <=> Pool!Service!Connect(c)
         /\ Service!Send(c) <=> Pool!Service!Send(c)
         /\ Service!Break(c) <=> Pool!Service!Break(c)
         /\ Service!Serve(c) <=> Pool!Service!Serve(c)
         /\ Service!Echo(c) <=> Pool!Service!Echo(c)
         /\ Service!Finish(c) <=> Pool!Service!Finish(c)
         /\ Service!Drop(c) <=> Pool!Service!Drop(c)
         /\ Service!Reply(c) <=> Pool!Service!Reply(c)
<1> USE DEF Pool!StageOf, Pool!InBacklog, Pool!Reset, Pool!Byte,
            StageOf, InBacklog, Reset, Byte
<1>1. Service!Connect(c) <=> Pool!Service!Connect(c)
  BY DEF Service!Connect, Service!Moves, Pool!Service!Connect, Pool!Service!Moves
<1>2. Service!Send(c) <=> Pool!Service!Send(c)
  BY DEF Service!Send, Service!In, Service!EndsLine,
         Pool!Service!Send, Pool!Service!In, Pool!Service!EndsLine
<1>3. Service!Break(c) <=> Pool!Service!Break(c)
  BY DEF Service!Break, Service!In, Pool!Service!Break, Pool!Service!In
<1>4. Service!Serve(c) <=> Pool!Service!Serve(c)
  BY DEF Service!Serve, Service!Moves, Pool!Service!Serve, Pool!Service!Moves
<1>5. Service!Reply(c) <=> Pool!Service!Reply(c)
  BY DEF Service!Reply, Service!In, Pool!Service!Reply, Pool!Service!In
<1>6. Service!Echo(c) <=> Pool!Service!Echo(c)
  BY <1>5 DEF Service!Echo, Pool!Service!Echo
<1>7. Service!Finish(c) <=> Pool!Service!Finish(c)
  BY <1>5 DEF Service!Finish, Service!Moves, Service!Complete, Service!EndsLine,
              Pool!Service!Finish, Pool!Service!Moves,
              Pool!Service!Complete, Pool!Service!EndsLine
<1>8. Service!Drop(c) <=> Pool!Service!Drop(c)
  BY DEF Service!Drop, Service!Moves, Pool!Service!Drop, Pool!Service!Moves
<1> QED BY <1>1, <1>2, <1>3, <1>4, <1>5, <1>6, <1>7, <1>8

LEMMA ForkServesOne ==
  ASSUME NEW c \in Clients,
         \/ pc # "dead" /\ Pool!Service!Connect(c)
         \/ Pool!Service!Send(c) \/ Pool!Service!Break(c)
         \/ Pool!Service!Serve(c) \/ Pool!Service!Echo(c)
         \/ Pool!Service!Finish(c) \/ Pool!Service!Drop(c),
         pc' # "dead" <=> pc # "dead"
  PROVE  ForkServes
BY SameService DEF ForkServes, Service!Next, Service!Client

LEMMA ForkServesUnseen ==
  Pool!Unseen /\ (pc' # "dead" <=> pc # "dead") => ForkServes
BY DEF ForkServes, Pool!Unseen, Pool!Stages, Pool!Course, Pool!Broken,
       Service!vars, Pool!StageOf, Pool!InBacklog, Pool!Reset,
       StageOf, InBacklog, Reset

\* What touches no answer to somebody who has gone.
LEMMA LateStays ==
  ASSUME LateLines, pc' # "dead" => pc # "dead",
         \A c \in Clients : Pool!Course(c)' = "over" /\ conn'[c] = "up" =>
           /\ Pool!Course(c) = "over" /\ conn[c] = "up"
           /\ echoed'[c] = echoed[c]
  PROVE  LateLines'
BY DEF LateLines, Pool!Service!EndsLine

LEMMA UnseenStays ==
  ASSUME LateLines, pc' # "dead" => pc # "dead", Pool!Unseen, UNCHANGED conn
  PROVE  LateLines'
<1>1. \A c \in Clients : Pool!Course(c)' = Pool!Course(c)
  BY LoopConstants, Pool!SameStages DEF Pool!Unseen
<1> QED BY <1>1, LateStays DEF Pool!Unseen

LEMMA AcceptServes ==
  ASSUME ServiceInv, Accept
  PROVE  ForkServes /\ Pool!EndOfFile' /\ LateLines'
<1>1. /\ backlog # <<>> /\ backlog' = Tail(backlog)
      /\ holders' = [holders EXCEPT ![Head(backlog)] = @ \cup {Main}]
      /\ pc = "accept" /\ pc' = "fork"
      /\ UNCHANGED <<conn, sent, inbox, echoed, phase, serves, buf>>
  BY DEF Accept, workerVars
<1>2. PICK c \in Clients : c = Head(backlog)
  <2>1. backlog \in Seq(Clients)
    BY DEF ServiceInv, LInv, Pool!LoopInv, Pool!LoopTypes
  <2> QED BY <1>1, <2>1
<1>3. holders \in [Clients -> SUBSET (Workers \cup {Main})]
  BY DEF ServiceInv, LInv, HInv
<1>4. InUse = holders /\ InUse' = holders'
  BY <1>1, <1>3 DEF InUse
<1>5. InUse' = [InUse EXCEPT ![c] = @ \cup {Main}]
  BY <1>1, <1>2, <1>4
<1>6. Pool!Unseen /\ Pool!EndOfFile'
  BY <1>1, <1>2, <1>5, LoopConstants, Pool!StepHolds DEF ServiceInv, LInv
<1> QED BY <1>1, <1>6, ForkServesUnseen, UnseenStays DEF ServiceInv

LEMMA ForkStepServes ==
  ASSUME ServiceInv, Fork
  PROVE  ForkServes /\ Pool!EndOfFile' /\ LateLines'
<1>1. PICK p \in Workers, c \in Clients :
        /\ phase'  = [phase EXCEPT ![p] = "recv"]
        /\ serves' = [serves EXCEPT ![p] = c]
        /\ InUse'  = [InUse EXCEPT ![c] = (@ \ {Main}) \cup {p}]
        /\ ~Pool!Serving(p) /\ InUse[c] = {Main}
        /\ Pool!Untouched(c) /\ conn[c] # "new" /\ ~Pool!InBacklog(c)
  BY ForkGives DEF ServiceInv
<1>2. /\ pc = "fork" /\ pc' = "close"
      /\ UNCHANGED <<backlog, conn, sent, inbox, echoed, buf>>
  BY DEF Fork
<1>3. Pool!Course(c) = "waiting"
  BY <1>1 DEF Pool!Course, Pool!StageOf
<1>4. \A d \in Clients : Pool!InBacklog(d)' <=> Pool!InBacklog(d) /\ d # c
  BY <1>1, <1>2 DEF Pool!InBacklog
<1>5. Pool!Service!Serve(c)
  BY <1>1, <1>2, <1>3, <1>4, LoopConstants, Pool!StepServes DEF ServiceInv, LInv
<1>6. phase \in [Workers -> Pool!Phase] /\ serves \in [Workers -> Clients \cup {NOBODY}]
  BY DEF ServiceInv, LInv, Pool!LoopInv, Pool!LoopTypes
<1>7. \A w \in Workers : phase'[w] = "send" =>
        phase[w] = "send" /\ serves'[w] = serves[w] /\ buf'[w] = buf[w]
  BY <1>1, <1>2, <1>6
<1>8. Pool!EndOfFile'
  BY <1>2, <1>7, LoopConstants, Pool!EofStays DEF ServiceInv, LInv
<1>9. /\ Pool!Course(c)' = "served"
      /\ \A d \in Clients : d # c => Pool!Course(d)' = Pool!Course(d)
  <2>1. Pool!Service!Moves(c, "waiting", "served")
    BY <1>5 DEF Pool!Service!Serve
  <2> QED BY <2>1, LoopConstants, Pool!MovedCourse
<1>10. LateLines'
  BY <1>2, <1>9, LateStays DEF ServiceInv
<1> QED BY <1>2, <1>5, <1>8, <1>10, ForkServesOne

LEMMA ForkFailsServes ==
  ASSUME ServiceInv, ForkFails
  PROVE  ForkServes /\ Pool!EndOfFile' /\ LateLines'
<1>1. /\ pc = "fork" /\ pc' = "dead" /\ backlog' = <<>>
      /\ holders' = [c \in Clients |-> holders[c] \ {Main}]
      /\ conn' = [c \in Clients |-> IF InBacklog(c) THEN "rst" ELSE conn[c]]
      /\ UNCHANGED <<sent, inbox, echoed, phase, serves, buf>>
  BY DEF ForkFails, CloseAllOf, workerVars
<1>2. \A c \in Clients \ {} : InUse'[c] = InUse[c] \ {Main}
  BY <1>1 DEF InUse
<1>3. conn' = [c \in Clients |->
                 IF Pool!InBacklog(c) THEN "rst" ELSE conn[c]]
  BY <1>1 DEF InBacklog, Pool!InBacklog
<1>4. /\ {} \in SUBSET Clients
      /\ \A c \in {} : Pool!Course(c) = "served" /\ InUse'[c] = {}
  OBVIOUS
<1>5. Pool!Service!Abandon
  BY <1>1, <1>2, <1>3, <1>4, LoopConstants, Pool!StepAbandons DEF ServiceInv, LInv
<1>6. Service!Abandon
  BY <1>5 DEF Pool!Service!Abandon, Pool!Service!In, Service!Abandon, Service!In,
              Pool!StageOf, Pool!InBacklog, Pool!Reset, StageOf, InBacklog, Reset
<1>7. Pool!EndOfFile'
  BY <1>1, <1>3, LoopConstants, Pool!EofStays DEF ServiceInv, LInv
<1>8. (pc' # "dead") = FALSE
  BY <1>1
<1> QED BY <1>1, <1>6, <1>7, <1>8
        DEF ForkServes, Service!Next, Service!Stop, LateLines

LEMMA ParentRestServes ==
  ASSUME ServiceInv, Close \/ Wait \/ Reap \/ NoneToReap
  PROVE  ForkServes /\ Pool!EndOfFile' /\ LateLines'
<1>1. /\ pc # "dead" /\ pc' \in {"wait", "reap", "accept"}
      /\ UNCHANGED <<backlog, conn, sent, inbox, echoed, serves, buf, InUse>>
      /\ \/ UNCHANGED phase
         \/ \E p \in Zombies : phase' = [phase EXCEPT ![p] = "absent"]
  BY ParentRests DEF ServiceInv
<1>2. Pool!Unseen
  BY <1>1 DEF Pool!Unseen, Pool!Stages, Pool!Course, Pool!StageOf,
              Pool!InBacklog, Pool!Broken, Pool!Reset
<1>3. \A w \in Workers : phase'[w] = "send" => phase[w] = "send"
  BY <1>1 DEF ServiceInv, LInv, Pool!LoopInv, Pool!LoopTypes
<1>4. Pool!EndOfFile'
  BY <1>1, <1>3, LoopConstants, Pool!EofStays DEF ServiceInv, LInv
<1> QED BY <1>1, <1>2, <1>4, ForkServesUnseen, UnseenStays DEF ServiceInv

LEMMA ChildServes ==
  ASSUME ServiceInv, NEW p \in Workers, Child(p)
  PROVE  ForkServes /\ Pool!EndOfFile' /\ LateLines'
<1>0. /\ UNCHANGED pc /\ Pool!LoopInv /\ Pool!EndOfFile
      /\ phase \in [Workers -> Pool!Phase]
      /\ conn \in [Clients -> Pool!ConnState]
      /\ serves \in [Workers -> Clients \cup {NOBODY}]
  BY DEF ServiceInv, LInv, Pool!LoopInv, Pool!LoopTypes, Child, ChildRecv,
         ChildSendOn, ChildDone, ChildFails, parentVars
<1>1. CASE ChildRecv(p)
  <2>1. Pool!Recv(p) /\ UNCHANGED conn
    BY <1>0, <1>1
       DEF ChildRecv, InUse, Recv, RecvInto, Least,
           Pool!Recv, Pool!RecvInto, Pool!Least
  <2>2. Pool!Unseen /\ Pool!EndOfFile'
    BY <1>0, <2>1, LoopConstants, Pool!StepRecvs, Pool!RecvEof
  <2> QED BY <1>0, <2>1, <2>2, ForkServesUnseen, UnseenStays DEF ServiceInv
<1>2. PICK c \in Clients : c = serves[p]
  BY <1>0 DEF Pool!LoopInv, Pool!LoopTypes, Pool!Serving, Child, ChildRecv, Recv,
              ChildSendOn, SendOn, ChildDone, SendLast, ChildFails, RecvFails,
              SendFails
<1>3. CASE ChildSendOn(p)
  <2>1. Pool!SendOn(p) /\ Pool!Deliver(p)
    BY <1>0, <1>3
       DEF ChildSendOn, InUse, SendOn, Deliver, SawNewline, Reset,
           Pool!SendOn, Pool!Deliver, Pool!SawNewline, Pool!Reset
  <2>2. /\ phase[p] = "send" /\ phase' = [phase EXCEPT ![p] = "recv"]
        /\ UNCHANGED <<backlog, inbox, serves, buf>>
    BY <1>3 DEF ChildSendOn, SendOn
  <2>3. Pool!Service!Echo(c)
    BY <1>0, <1>2, <2>1, LoopConstants, Pool!StepEchoes
  <2>4. "recv" \in Pool!Phase \ {"send"}
    BY DEF Pool!Phase
  <2>5. Pool!EndOfFile'
    BY <1>0, <2>1, <2>2, <2>4, LoopConstants, Pool!AnswerKeepsEof
  <2>6. \A d \in Clients : Pool!Course(d)' = Pool!Course(d)
    <3>1. Pool!Stages' = Pool!Stages
      BY <2>3 DEF Pool!Service!Echo, Pool!Stages, Pool!Course
    <3> QED BY <3>1, LoopConstants, Pool!SameStages
  <2>7. Pool!Course(c) = "served"
    BY <1>0, <1>2, <2>2, LoopConstants, Pool!OwnCourse DEF Pool!Serving
  <2>8. \A d \in Clients : d # c => conn'[d] = conn[d] /\ echoed'[d] = echoed[d]
    BY <1>0, <1>2, <2>1 DEF Pool!Deliver, Pool!LoopInv, Pool!LoopTypes
  <2>9. LateLines'
    BY <1>0, <2>6, <2>7, <2>8, LateStays DEF ServiceInv
  <2> QED BY <1>0, <2>3, <2>5, <2>9, ForkServesOne
<1>4. ASSUME ChildDone(p) \/ ChildFails(p)
      PROVE  /\ Pool!Serving(p)
             /\ InUse' = [InUse EXCEPT ![serves[p]] = @ \ {p}]
             /\ phase'  = [phase EXCEPT ![p] = "zombie"]
             /\ serves' = [serves EXCEPT ![p] = NOBODY]
             /\ UNCHANGED <<backlog, inbox, buf>>
  <2>1. LInv
    BY DEF ServiceInv
  <2> QED BY <1>4, <2>1, ChildCloses DEF ChildDone, ChildFails, SendLast, Exit
<1>5. CASE ChildDone(p)
  <2>1. Pool!SendLast(p) /\ Pool!Deliver(p) /\ phase[p] = "send"
    BY <1>4, <1>5
       DEF ChildDone, SendLast, Deliver, SawNewline, Reset,
           Pool!SendLast, Pool!Deliver, Pool!SawNewline, Pool!Reset
  <2>2. Pool!Service!Finish(c)
    BY <1>0, <1>2, <2>1, LoopConstants, Pool!StepFinishes
  <2>3. /\ \A v \in Workers : v # p => serves'[v] = serves[v]
        /\ "zombie" \in Pool!Phase \ {"send"}
    BY <1>0, <1>4, <1>5 DEF Pool!Phase
  <2>4. Pool!EndOfFile'
    BY <1>0, <1>4, <1>5, <2>1, <2>3, LoopConstants, Pool!AnswerKeepsEof
  <2>5. \A d \in Clients : d # c =>
          /\ Pool!Course(d)' = Pool!Course(d)
          /\ conn'[d] = conn[d] /\ echoed'[d] = echoed[d]
    <3>1. Pool!Service!Moves(c, "served", "over")
      BY <2>2 DEF Pool!Service!Finish
    <3>2. \A d \in Clients : d # c => Pool!Course(d)' = Pool!Course(d)
      BY <3>1, LoopConstants, Pool!MovedCourse
    <3>3. \A d \in Clients : d # c => conn'[d] = conn[d] /\ echoed'[d] = echoed[d]
      BY <1>0, <1>2, <2>1 DEF Pool!Deliver, Pool!LoopInv, Pool!LoopTypes
    <3> QED BY <3>2, <3>3
  <2>6. conn'[c] = "up" => Pool!Service!EndsLine(c)'
    <3>1. CASE buf[p] = <<>>
      <4>1. conn[c] \in {"fin", "finrst"}
        BY <1>0, <1>2, <2>1, <3>1 DEF Pool!EndOfFile
      <4> QED BY <1>0, <1>2, <2>1, <4>1 DEF Pool!Deliver
    <3>2. CASE buf[p] # <<>>
      BY <1>0, <1>2, <2>1, <3>2, LoopConstants, Pool!EndsWithLine
    <3> QED BY <3>1, <3>2
  <2>7. LateLines'
    <3>1. ASSUME NEW d \in Clients, d # c, pc' # "dead",
                 Pool!Course(d)' = "over", conn'[d] = "up"
          PROVE  Pool!Service!EndsLine(d)'
      <4>1. Pool!Service!EndsLine(d) /\ echoed'[d] = echoed[d]
        BY <1>0, <2>5, <3>1 DEF ServiceInv, LateLines
      <4> QED BY <4>1 DEF Pool!Service!EndsLine
    <3> QED BY <2>6, <3>1 DEF LateLines
  <2> QED BY <1>0, <2>2, <2>4, <2>7, ForkServesOne
<1>6. CASE ChildFails(p)
  <2>1. /\ Pool!Reset(serves[p]) /\ Pool!Reset(c) /\ conn[c] # "up"
        /\ UNCHANGED <<backlog, conn, sent, inbox, echoed, buf>>
    BY <1>2, <1>6 DEF ChildFails, RecvFails, SendFails, Reset, Pool!Reset
  <2>2. Pool!Service!Drop(c)
    BY <1>0, <1>2, <1>4, <1>6, <2>1, LoopConstants, Pool!StepDrops
  <2>3. \A v \in Workers : phase'[v] = "send" =>
          phase[v] = "send" /\ serves'[v] = serves[v] /\ buf'[v] = buf[v]
    BY <1>0, <1>4, <1>6, <2>1
  <2>4. Pool!EndOfFile'
    BY <1>0, <2>1, <2>3, LoopConstants, Pool!EofStays
  <2>5. \A d \in Clients : d # c => Pool!Course(d)' = Pool!Course(d)
    <3>1. Pool!Service!Moves(c, "served", "over")
      BY <2>2 DEF Pool!Service!Drop
    <3> QED BY <3>1, LoopConstants, Pool!MovedCourse
  <2>6. LateLines'
    BY <1>0, <2>1, <2>5, LateStays DEF ServiceInv
  <2> QED BY <1>0, <2>2, <2>4, <2>6, ForkServesOne
<1> QED BY <1>1, <1>3, <1>5, <1>6 DEF Child

LEMMA ClientServes ==
  ASSUME ServiceInv, NEW c \in Clients, Client(c)
  PROVE  ForkServes /\ Pool!EndOfFile' /\ LateLines'
<1>0. /\ UNCHANGED <<pc, InUse, holders, phase, serves, buf>>
      /\ Pool!LoopInv /\ Pool!EndOfFile
      /\ conn \in [Clients -> Pool!ConnState]
  BY DEF ServiceInv, LInv, Pool!LoopInv, Pool!LoopTypes, Client, Connect,
         SendByte, HangUp, parentVars, workerVars, InUse
<1>1. CASE Connect(c)
  <2>1. Pool!Connect(c) /\ pc # "dead"
    BY <1>0, <1>1 DEF Client, SendByte, HangUp, Connect, workerVars,
                      Pool!Connect, Pool!workerVars
  <2>2. Pool!Service!Connect(c)
    BY <1>0, <2>1, LoopConstants, Pool!StepConnects
  <2>3. conn' = [conn EXCEPT ![c] = "up"] /\ conn[c] = "new" /\ UNCHANGED <<inbox, echoed>>
    BY <1>1 DEF Connect
  <2>4. Pool!EndOfFile'
    BY <1>0, <2>3, LoopConstants, Pool!EofStays
  <2>5. /\ Pool!Course(c)' = "waiting"
        /\ \A d \in Clients : d # c => Pool!Course(d)' = Pool!Course(d)
    <3>1. Pool!Service!Moves(c, "new", "waiting")
      BY <2>2 DEF Pool!Service!Connect
    <3> QED BY <3>1, LoopConstants, Pool!MovedCourse
  <2>6. LateLines'
    BY <1>0, <2>3, <2>5, LateStays DEF ServiceInv
  <2> QED BY <1>0, <2>1, <2>2, <2>4, <2>6, ForkServesOne
<1>2. CASE HangUp(c)
  <2>1. PICK s \in {"fin", "rst"} :
          /\ s = "rst" => echoed[c] # <<>>
          /\ conn' = [conn EXCEPT ![c] = s]
    BY <1>2 DEF HangUp
  <2>2. conn[c] = "up" /\ UNCHANGED <<backlog, sent, inbox, echoed>>
    BY <1>2 DEF HangUp
  <2>3. Pool!Service!Break(c) \/ Pool!Unseen
    BY <1>0, <2>1, <2>2, LoopConstants, Pool!StepHangsUp
  <2>4. Pool!EndOfFile'
    BY <1>0, <2>1, <2>2, LoopConstants, Pool!EofStays
  <2>5. \A d \in Clients : Pool!Course(d)' = Pool!Course(d)
    <3>1. Pool!Stages' = Pool!Stages
      BY <2>3 DEF Pool!Service!Break, Pool!Unseen, Pool!Stages, Pool!Course
    <3> QED BY <3>1, LoopConstants, Pool!SameStages
  <2>6. LateLines'
    BY <1>0, <2>1, <2>2, <2>5, LateStays DEF ServiceInv
  <2> QED BY <1>0, <2>3, <2>4, <2>6, ForkServesOne, ForkServesUnseen
<1>3. CASE SendByte(c)
  <2>1. /\ conn[c] = "up" /\ Pool!ByteArrives(c)
        /\ holders[c] # {} \/ InBacklog(c)
        /\ UNCHANGED <<conn, echoed>>
    BY <1>0, <1>3 DEF SendByte, IsOpen, workerVars, Pool!ByteArrives
  <2>2. Pool!Course(c) = "over" => Pool!Service!EndsLine(c)
    <3> SUFFICES ASSUME Pool!Course(c) = "over" PROVE Pool!Service!EndsLine(c)
      OBVIOUS
    <3>1. InUse[c] = {} /\ ~InBacklog(c)
      BY DEF Pool!Course, Pool!StageOf, Pool!InBacklog, InBacklog
    <3>2. pc = "close"
      BY <2>1, <3>1 DEF InUse
    <3> QED BY <2>1, <3>2 DEF ServiceInv, LateLines
  <2>3. Pool!Service!Send(c)
    BY <1>0, <2>1, <2>2, LoopConstants, Pool!StepSends
  <2>4. Pool!EndOfFile'
    <3>1. \A d \in Clients : conn[d] \in {"fin", "finrst"} => inbox'[d] = inbox[d]
      BY <1>0, <2>1 DEF Pool!ByteArrives, Pool!LoopInv, Pool!LoopTypes
    <3> QED BY <1>0, <2>1, <3>1, LoopConstants, Pool!EofStays
  <2>5. \A d \in Clients : Pool!Course(d)' = Pool!Course(d)
    <3>1. Pool!Stages' = Pool!Stages
      BY <2>3 DEF Pool!Service!Send, Pool!Stages, Pool!Course
    <3> QED BY <3>1, LoopConstants, Pool!SameStages
  <2>6. LateLines'
    BY <1>0, <2>1, <2>5, LateStays DEF ServiceInv
  <2> QED BY <1>0, <2>3, <2>4, <2>6, ForkServesOne
<1> QED BY <1>1, <1>2, <1>3 DEF Client

LEMMA ForkSteps ==
  ServiceInv /\ [Next]_vars => ForkServes /\ Pool!EndOfFile' /\ LateLines'
<1> SUFFICES ASSUME ServiceInv, [Next]_vars
             PROVE  ForkServes /\ Pool!EndOfFile' /\ LateLines'
  OBVIOUS
<1>1. CASE Parent
  BY <1>1, AcceptServes, ForkStepServes, ForkFailsServes, ParentRestServes
     DEF Parent
<1>2. CASE \E p \in Workers : Child(p)
  BY <1>2, ChildServes
<1>3. CASE \E c \in Clients : Client(c)
  BY <1>3, ClientServes
<1>4. CASE UNCHANGED vars
  <2>1. UNCHANGED <<backlog, conn, sent, inbox, echoed, InUse, phase, serves, buf, pc>>
    BY <1>4 DEF vars, loopVars, netVars, workerVars, parentVars, InUse
  <2>2. Pool!Unseen
    BY <2>1 DEF Pool!Unseen, Pool!Stages, Pool!Course, Pool!StageOf,
                Pool!InBacklog, Pool!Broken, Pool!Reset
  <2>3. Pool!EndOfFile'
    BY <2>1 DEF ServiceInv, Pool!EndOfFile
  <2> QED BY <2>1, <2>2, <2>3, ForkServesUnseen, UnseenStays DEF ServiceInv
<1> QED BY <1>1, <1>2, <1>3, <1>4 DEF Next

LEMMA InitServes ==
  Init => Service!Init /\ Pool!EndOfFile /\ LateLines /\ Pool!InFull
<1> SUFFICES ASSUME Init
             PROVE  Service!Init /\ Pool!EndOfFile /\ LateLines /\ Pool!InFull
  OBVIOUS
<1>1. InUse = [c \in Clients |-> {}]
  BY DEF Init, LoopInit, InUse
<1>2. Pool!LoopInit
  BY <1>1 DEF Init, LoopInit, Pool!LoopInit
<1>3. /\ [c \in Clients |-> Pool!StageOf(c, InUse[c])] = [c \in Clients |-> "new"]
      /\ {c \in Clients : Pool!Reset(c)} = {} /\ Pool!EndOfFile /\ Pool!InFull
  BY <1>2, LoopConstants, Pool!ServiceStarts
<1>4. Service!Init
  BY <1>3 DEF Init, LoopInit, Service!Init, Pool!StageOf, Pool!InBacklog,
              Pool!Reset, StageOf, InBacklog, Reset
<1>5. LateLines
  BY DEF Init, LoopInit, LateLines
<1> QED BY <1>3, <1>4, <1>5

LEMMA ServiceInvariant == Spec => []ServiceInv
<1>1. Init => Pool!EndOfFile /\ LateLines
  BY InitServes
<1>2. ServiceInv /\ [Next]_vars => Pool!EndOfFile' /\ LateLines'
  BY ForkSteps
<1> QED BY <1>1, <1>2, LoopInvariance, PTL DEF Spec, ServiceInv

\* The children serve as the threads and the pool do, as long as the parent
\* lives; that a child runs on without it, nobody sees either.
THEOREM ChildrenAreAService == Spec => ImplementsService
<1>1. Init => Service!Init
  BY InitServes
<1>2. ServiceInv /\ [Next]_vars => [Service!Next]_(Service!vars)
  BY ForkSteps DEF ForkServes
<1> QED BY <1>1, <1>2, ServiceInvariant, PTL
        DEF Spec, ImplementsService, Service!Spec

\* No client of echo_fork ever gets what it did not send.
THEOREM ChildrenMakeNothingUp == Spec => []Service!EchoesABeginning
<1>1. Init => Pool!Service!EchoesABeginning
  BY SubSeqEmpty DEF Init, LoopInit, Pool!Service!EchoesABeginning
<1>2. ASSUME ServiceInv, Pool!Service!EchoesABeginning, [Next]_vars
      PROVE  Pool!Service!EchoesABeginning'
  <2>1. \/ UNCHANGED <<sent, echoed>>
        \/ \E c \in Clients : Service!Send(c) \/ Service!Reply(c)
    BY <1>2, ForkSteps
       DEF ForkServes, Service!vars, Service!Next, Service!Client,
           Service!Connect, Service!Break, Service!Serve, Service!Echo,
           Service!Finish, Service!Drop, Service!Stop, Service!Abandon
  <2>2. \/ UNCHANGED <<sent, echoed>>
        \/ \E c \in Clients : Pool!Service!Send(c) \/ Pool!Service!Reply(c)
    BY <2>1, SameService
  <2> QED BY <1>2, <2>2, LoopConstants, Pool!KeepsBeginnings
          DEF ServiceInv, LInv, Pool!LoopInv
<1>3. Pool!Service!EchoesABeginning => Service!EchoesABeginning
  BY DEF Service!EchoesABeginning, Pool!Service!EchoesABeginning
<1> QED BY <1>1, <1>2, <1>3, ServiceInvariant, PTL DEF Spec

\* While the parent lives no child leaves its client half answered, even
\* if its last bytes came when it had finished.
THEOREM ChildrenAnswerInFull == Spec => []Service!AnsweredInFull
<1> DEFINE Kept == pc # "dead" => Pool!InFull
<1>1. Init => Kept
  BY InitServes
<1>2. ASSUME ServiceInv, Kept, [Next]_vars PROVE Kept'
  <2> SUFFICES ASSUME pc' # "dead" PROVE Pool!InFull'
    OBVIOUS
  <2>1. ForkServes /\ Pool!LoopTypes
    BY <1>2, ForkSteps DEF ServiceInv, LInv, Pool!LoopInv
  <2>2. CASE Service!Stop
    BY <2>2 DEF Service!Stop
  <2>3. CASE Service!Next /\ ~Service!Stop
    <3>1. pc # "dead" /\ \E c \in Clients : Service!Client(c)
      BY <2>3 DEF Service!Next
    <3> QED BY <1>2, <2>1, <3>1, SameService, LoopConstants, Pool!KeepsAnswers
            DEF Service!Client
  <2>4. CASE UNCHANGED Service!vars
    <3>1. /\ Pool!Stages' = Pool!Stages /\ UNCHANGED <<sent, echoed, Pool!Broken>>
          /\ (pc' # "dead") = (pc # "dead")
      BY <2>4 DEF Service!vars, Pool!Stages, Pool!Course, Pool!Broken,
            Pool!StageOf, Pool!InBacklog, Pool!Reset, StageOf, InBacklog, Reset
    <3> QED BY <1>2, <3>1, LoopConstants, Pool!InFullStays
  <2> QED BY <2>1, <2>2, <2>3, <2>4 DEF ForkServes
<1>3. Kept => Service!AnsweredInFull
  BY DEF Service!AnsweredInFull, Service!In, Pool!InFull, Pool!Course, Pool!Broken,
         Service!Complete, Service!EndsLine, Pool!Service!Complete,
         Pool!Service!EndsLine, Pool!StageOf, Pool!InBacklog, Pool!Reset,
         Pool!Byte, StageOf, InBacklog, Reset, Byte
<1> HIDE DEF Kept
<1> QED BY <1>1, <1>2, <1>3, ServiceInvariant, PTL DEF Spec
=============================================================================
