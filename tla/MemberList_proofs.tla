-------------------------- MODULE MemberList_proofs --------------------------
(***************************************************************************)
(* The heap holds the members and a search finds them, for any number of   *)
(* nodes and sockets.  The invariant needs to know what lies behind the    *)
(* tail, for deleting the tail leaves a pointer to the freed node there:   *)
(* only freed nodes, out of which no pointer leads back into the list.     *)
(***************************************************************************)
EXTENDS MemberList, FiniteSetTheorems, FunctionTheorems,
        WellFoundedInduction, TLAPS

Found(i) ==
  /\ current = chain[i]
  /\ prev = IF i = 1 THEN NULL ELSE chain[i - 1]
  /\ \A j \in 1 .. i - 1 : sock[chain[j]] # arg

\* D is a set of freed nodes that holds all that follows the tail.
BehindTail(D) ==
  /\ D \subseteq Nodes \ live
  /\ tail # NULL => next[tail] \in D \cup {NULL}
  /\ \A d \in D : next[d] \in D \cup {NULL}

SearchInv ==
  \E D \in SUBSET Nodes :
    /\ BehindTail(D)
    /\ pc = "search" =>
         \/ \E i \in DOMAIN chain : Found(i)
         \/ /\ current \in D \cup {NULL}
            /\ \A j \in DOMAIN chain : sock[chain[j]] # arg

IInv == TypeOK /\ ListHoldsMembers /\ SearchInv

-----------------------------------------------------------------------------
LEMMA WithoutFacts ==
  ASSUME NEW S, NEW s \in Seq(S), NEW i \in DOMAIN s
  PROVE  /\ Without(s, i) \in Seq(S)
         /\ Len(Without(s, i)) = Len(s) - 1
         /\ DOMAIN Without(s, i) = 1 .. Len(s) - 1
         /\ \A j \in 1 .. Len(s) - 1 :
              Without(s, i)[j] = IF j < i THEN s[j] ELSE s[j + 1]
<1>1. /\ Len(s) \in Nat /\ DOMAIN s = 1 .. Len(s) /\ i \in 1 .. Len(s)
      /\ Len(s) - 1 \in Nat
  OBVIOUS
<1>2. \A j \in 1 .. Len(s) - 1 :
        (IF j < i THEN s[j] ELSE s[j + 1]) \in S
  BY <1>1
<1>3. Without(s, i) \in [1 .. Len(s) - 1 -> S]
  BY <1>2 DEF Without
<1>4. \A n \in Nat : \A f \in [1 .. n -> S] :
        f \in Seq(S) /\ Len(f) = n /\ DOMAIN f = 1 .. n
  OBVIOUS
<1>5. /\ Without(s, i) \in Seq(S) /\ Len(Without(s, i)) = Len(s) - 1
      /\ DOMAIN Without(s, i) = 1 .. Len(s) - 1
  BY <1>1, <1>3, <1>4
<1>6. \A j \in 1 .. Len(s) - 1 :
        Without(s, i)[j] = IF j < i THEN s[j] ELSE s[j + 1]
  BY DEF Without
<1> QED BY <1>5, <1>6

\* What the invariant says of the nodes of the chain.
LEMMA ChainFacts ==
  ASSUME IInv
  PROVE  /\ chain \in Seq(Nodes) /\ Len(chain) \in Nat
         /\ DOMAIN chain = 1 .. Len(chain)
         /\ \A i \in 1 .. Len(chain) :
              /\ chain[i] \in live /\ chain[i] \in Nodes
              /\ chain[i] # NULL
         /\ \A i, j \in 1 .. Len(chain) : chain[i] = chain[j] => i = j
BY MemberListAssumption DEF IInv, TypeOK, ListHoldsMembers

LEMMA AddUserInv ==
  ASSUME IInv, NEW s \in Socks, AddUser(s)
  PROVE  IInv'
<1>1. PICK n \in Nodes \ live :
        /\ live' = live \cup {n}
        /\ sock' = [sock EXCEPT ![n] = s]
        /\ LinkAtTail(n)
        /\ chain' = Append(chain, n)
  BY DEF AddUser
<1>2. UNCHANGED <<pc, arg, current, prev>> /\ pc = "idle"
  BY DEF AddUser, localVars
<1>3. /\ next' \in [Nodes -> Pointer \cup {GARBAGE}]
      /\ next'[n] = NULL
      /\ \A m \in Nodes \ {n} : next'[m] = IF m = tail THEN n ELSE next[m]
      /\ tail' = n
  BY <1>1 DEF LinkAtTail, IInv, TypeOK, Pointer
<1>4. head' \in {head, n}
  BY <1>1 DEF LinkAtTail
<1>5. TypeOK'
  <2>1. /\ head' \in Pointer /\ tail' \in Pointer
        /\ sock' \in [Nodes -> Socks \cup {GARBAGE}]
        /\ live' \in SUBSET Nodes /\ chain' \in Seq(Nodes)
        /\ sock'[n] = s /\ \A m \in Nodes \ {n} : sock'[m] = sock[m]
    BY <1>1, <1>3, <1>4 DEF IInv, TypeOK, Pointer
  <2>2. ASSUME NEW m \in live' \cup {head', current'}
                          \cup {next'[k] : k \in Nodes}, m \in Nodes
        PROVE  next'[m] \in Pointer /\ sock'[m] \in Socks
    <3>1. CASE m = n
      BY <3>1, <1>3, <2>1 DEF Pointer
    <3>2. CASE m # n
      <4>1. m \in live \cup {head, current} \cup {next[k] : k \in Nodes}
        BY <2>2, <3>2, <1>1, <1>2, <1>3, <1>4, MemberListAssumption
      <4>2. next[m] \in Pointer /\ sock[m] \in Socks
        BY <4>1, <2>2 DEF IInv, TypeOK
      <4> QED BY <4>2, <3>2, <2>2, <1>3, <2>1 DEF Pointer
    <3> QED BY <3>1, <3>2
  <2> QED BY <2>1, <2>2, <1>2, <1>3 DEF IInv, TypeOK
<1>6. ListHoldsMembers'
  <2>1. /\ Len(chain') = Len(chain) + 1 /\ DOMAIN chain' = 1 .. Len(chain) + 1
        /\ chain'[Len(chain) + 1] = n
        /\ \A i \in 1 .. Len(chain) : chain'[i] = chain[i] /\ chain[i] # n
    BY <1>1, ChainFacts
  <2>2. live' = {chain'[i] : i \in DOMAIN chain'}
    BY <1>1, <2>1, ChainFacts DEF IInv, ListHoldsMembers
  <2>3. \A i, j \in DOMAIN chain' : chain'[i] = chain'[j] => i = j
    BY <2>1, ChainFacts
  <2>4. head' = chain'[1] /\ tail' = chain'[Len(chain')]
    <3>1. CASE Len(chain) = 0
      BY <3>1, <1>1, <2>1 DEF LinkAtTail, IInv, ListHoldsMembers
    <3>2. CASE Len(chain) > 0
      <4>1. 1 \in 1 .. Len(chain) /\ Len(chain) # 0
        BY <3>2, ChainFacts
      <4>2. head = chain[1]
        BY <4>1 DEF IInv, ListHoldsMembers
      <4>3. head # NULL
        BY <4>1, <4>2, ChainFacts
      <4>4. head' = chain'[1]
        BY <4>1, <4>2, <4>3, <1>1, <2>1 DEF LinkAtTail
      <4> QED BY <4>4, <1>3, <2>1
    <3> QED BY <3>1, <3>2, ChainFacts
  <2>5. \A i \in 1 .. Len(chain) : next'[chain'[i]] = chain'[i + 1]
    <3> SUFFICES ASSUME NEW i \in 1 .. Len(chain)
                 PROVE  next'[chain'[i]] = chain'[i + 1]
      OBVIOUS
    <3>1. tail = chain[Len(chain)] /\ Len(chain) \in 1 .. Len(chain)
      BY ChainFacts DEF IInv, ListHoldsMembers
    <3>2. next'[chain[i]] = IF chain[i] = tail THEN n ELSE next[chain[i]]
      BY <1>3, <2>1, ChainFacts
    <3>3. CASE i = Len(chain)
      BY <3>1, <3>2, <3>3, <2>1
    <3>4. CASE i # Len(chain)
      <4> Len(chain) \in Nat
        BY ChainFacts
      <4>1. i \in 1 .. Len(chain) - 1 /\ i + 1 \in 1 .. Len(chain)
        BY <3>4
      <4>2. chain[i] # tail
        BY <3>1, <3>4, ChainFacts
      <4>3. next[chain[i]] = chain[i + 1]
        BY <4>1, ChainFacts DEF IInv, ListHoldsMembers
      <4> QED BY <4>1, <4>2, <4>3, <3>2, <2>1
    <3> QED BY <3>3, <3>4
  <2> QED BY <2>1, <2>2, <2>3, <2>4, <2>5, ChainFacts DEF ListHoldsMembers
<1>7. SearchInv'
  <2>1. BehindTail({})'
    BY <1>3 DEF BehindTail
  <2>2. pc' # "search"
    BY <1>2
  <2> QED BY <2>1, <2>2 DEF SearchInv
<1> QED BY <1>5, <1>6, <1>7 DEF IInv

LEMMA BeginDeleteInv ==
  ASSUME IInv, NEW s \in Socks, BeginDelete(s)
  PROVE  IInv'
<1>1. /\ UNCHANGED <<head, tail, next, sock, live, chain>>
      /\ pc' = "search" /\ arg' = s /\ current' = head /\ prev' = NULL
  BY DEF BeginDelete, heapVars
<1>2. TypeOK'
  BY <1>1 DEF IInv, TypeOK, Pointer
<1>3. ListHoldsMembers'
  BY <1>1 DEF IInv, ListHoldsMembers
<1>4. SearchInv'
  <2>1. PICK D \in SUBSET Nodes : BehindTail(D)
    BY DEF IInv, SearchInv
  <2>2. BehindTail(D)'
    BY <2>1, <1>1 DEF BehindTail
  <2>3. CASE Len(chain) = 0
    <3>1. current' \in D \cup {NULL}
          /\ \A j \in DOMAIN chain' : sock'[chain'[j]] # arg'
      BY <2>3, <1>1, ChainFacts DEF IInv, ListHoldsMembers
    <3> QED BY <3>1, <2>2 DEF SearchInv
  <2>4. CASE Len(chain) > 0
    <3>1. 1 \in DOMAIN chain' /\ Found(1)'
      BY <2>4, <1>1, ChainFacts DEF IInv, ListHoldsMembers, Found
    <3> QED BY <3>1, <2>2 DEF SearchInv
  <2> QED BY <2>3, <2>4, ChainFacts
<1> QED BY <1>2, <1>3, <1>4 DEF IInv

LEMMA SearchOnInv ==
  ASSUME IInv, SearchOn
  PROVE  IInv'
<1>1. /\ UNCHANGED <<head, tail, next, sock, live, pc, arg, chain>>
      /\ pc = "search" /\ current # NULL /\ sock[current] # arg
      /\ prev' = current /\ current' = next[current]
  BY DEF SearchOn, heapVars
<1>2. current \in Nodes /\ next[current] \in Pointer
  BY <1>1 DEF IInv, TypeOK, Pointer
<1>3. TypeOK'
  BY <1>1, <1>2 DEF IInv, TypeOK, Pointer
<1>4. ListHoldsMembers'
  BY <1>1 DEF IInv, ListHoldsMembers
<1>5. SearchInv'
  <2>1. PICK D \in SUBSET Nodes :
          /\ BehindTail(D)
          /\ \/ \E i \in DOMAIN chain : Found(i)
             \/ /\ current \in D \cup {NULL}
                /\ \A j \in DOMAIN chain : sock[chain[j]] # arg
    BY <1>1 DEF IInv, SearchInv
  <2>2. BehindTail(D)'
    BY <2>1, <1>1 DEF BehindTail
  <2>3. CASE \E i \in DOMAIN chain : Found(i)
    <3>1. PICK i \in 1 .. Len(chain) : Found(i)
      BY <2>3, ChainFacts
    <3>2. \A j \in 1 .. i : sock[chain[j]] # arg
      BY <3>1, <1>1, ChainFacts DEF Found
    <3>3. CASE i = Len(chain)
      <4>1. current = tail /\ tail # NULL
        BY <3>1, <3>3, <1>1, ChainFacts DEF Found, IInv, ListHoldsMembers
      <4>2. current' \in D \cup {NULL}
        BY <4>1, <2>1, <1>1 DEF BehindTail
      <4>3. \A j \in DOMAIN chain' : sock'[chain'[j]] # arg'
        BY <3>2, <3>3, <1>1, ChainFacts
      <4> QED BY <4>2, <4>3, <2>2 DEF SearchInv
    <3>4. CASE i # Len(chain)
      <4>1. i + 1 \in 1 .. Len(chain) /\ next[chain[i]] = chain[i + 1]
        BY <3>1, <3>4, ChainFacts DEF IInv, ListHoldsMembers
      <4>2. Found(i + 1)'
        BY <4>1, <3>1, <3>2, <1>1, ChainFacts DEF Found
      <4>3. i + 1 \in DOMAIN chain'
        BY <4>1, <1>1, ChainFacts
      <4> QED BY <4>2, <4>3, <2>2 DEF SearchInv
    <3> QED BY <3>3, <3>4
  <2>4. CASE /\ current \in D \cup {NULL}
             /\ \A j \in DOMAIN chain : sock[chain[j]] # arg
    <3>1. current' \in D \cup {NULL}
      BY <2>4, <2>1, <1>1 DEF BehindTail
    <3>2. \A j \in DOMAIN chain' : sock'[chain'[j]] # arg'
      BY <2>4, <1>1
    <3> QED BY <3>1, <3>2, <2>2 DEF SearchInv
  <2> QED BY <2>1, <2>3, <2>4
<1> QED BY <1>3, <1>4, <1>5 DEF IInv

LEMMA NotFoundInv ==
  ASSUME IInv, NotFound
  PROVE  IInv'
<1>1. /\ UNCHANGED <<head, tail, next, sock, live, arg, current, prev, chain>>
      /\ pc' = "idle"
  BY DEF NotFound, heapVars, localVars
<1>2. TypeOK' /\ ListHoldsMembers'
  BY <1>1 DEF IInv, TypeOK, ListHoldsMembers
<1>3. SearchInv'
  BY <1>1 DEF IInv, SearchInv, BehindTail
<1> QED BY <1>2, <1>3 DEF IInv

LEMMA FreeTwiceInv ==
  ASSUME IInv, FreeTwice
  PROVE  IInv'
<1>1. /\ UNCHANGED <<head, tail, next, sock, live, arg, current, prev, chain>>
      /\ pc' = "aborted"
  BY DEF FreeTwice, heapVars, localVars
<1>2. TypeOK' /\ ListHoldsMembers'
  BY <1>1 DEF IInv, TypeOK, ListHoldsMembers
<1>3. SearchInv'
  BY <1>1 DEF IInv, SearchInv, BehindTail
<1> QED BY <1>2, <1>3 DEF IInv

\* What Unlink does to the pointers, by the place of the node in the chain.
LEMMA UnlinkFacts ==
  ASSUME IInv, Unlink, NEW i \in 1 .. Len(chain), Found(i)
  PROVE  /\ Len(chain) = 1 =>
              head' = NULL /\ tail' = NULL /\ next' = next
         /\ Len(chain) # 1 /\ i = 1 =>
              head' = chain[2] /\ tail' = tail /\ next' = next
         /\ Len(chain) # 1 /\ i = Len(chain) =>
              head' = head /\ tail' = chain[i - 1] /\ next' = next
         /\ 1 < i /\ i < Len(chain) =>
              /\ head' = head /\ tail' = tail
              /\ next' = [next EXCEPT ![chain[i - 1]] = chain[i + 1]]
<1> DEFINE N == Len(chain)
<1>1. /\ N \in Nat /\ N # 0 /\ 1 \in 1 .. N /\ N \in 1 .. N
      /\ head = chain[1] /\ tail = chain[N]
      /\ \A j \in 1 .. N - 1 : next[chain[j]] = chain[j + 1]
  BY ChainFacts DEF IInv, ListHoldsMembers
<1>2. \A j, k \in 1 .. N : chain[j] = chain[k] => j = k
  BY ChainFacts
<1>3. current = chain[i] /\ (i # 1 => prev = chain[i - 1])
  BY DEF Found
<1> HIDE DEF N
<1>4. (head = tail <=> N = 1) /\ (current = head <=> i = 1)
      /\ (current = tail <=> i = N)
  BY <1>1, <1>2, <1>3 DEF N
<1>5. i < N => next[current] = chain[i + 1]
  BY <1>1, <1>3 DEF N
<1>6. CASE N = 1
  BY <1>6, <1>4, <1>1 DEF Unlink, N
<1>7. CASE N # 1 /\ i = 1
  <2>1. head' = next[current] /\ UNCHANGED <<tail, next>>
    BY <1>7, <1>4 DEF Unlink
  <2>2. i # N /\ ~(1 < i) /\ i < N
    BY <1>1, <1>7
  <2>3. head' = chain[i + 1] /\ i + 1 = 2
    BY <2>1, <2>2, <1>5, <1>7
  <2> QED BY <2>1, <2>2, <2>3, <1>7 DEF N
<1>8. CASE N # 1 /\ i # 1 /\ i = N
  <2>1. tail' = prev /\ UNCHANGED <<head, next>>
    BY <1>8, <1>4 DEF Unlink
  <2> QED BY <2>1, <1>1, <1>3, <1>8 DEF N
<1>9. CASE N # 1 /\ i # 1 /\ i # N
  <2>1. /\ next' = [next EXCEPT ![prev] = next[current]]
        /\ UNCHANGED <<head, tail>>
    BY <1>9, <1>4 DEF Unlink
  <2> QED BY <2>1, <1>1, <1>3, <1>5, <1>9 DEF N
<1> QED BY <1>6, <1>7, <1>8, <1>9

\* The node that is removed, by its place in the chain.
LEMMA RemoveFacts ==
  ASSUME IInv, Remove
  PROVE  \E i \in 1 .. Len(chain) :
           /\ Found(i) /\ chain' = Without(chain, i)
           /\ Len(chain) = 1 =>
                head' = NULL /\ tail' = NULL /\ next' = next
           /\ Len(chain) # 1 /\ i = 1 =>
                head' = chain[2] /\ tail' = tail /\ next' = next
           /\ Len(chain) # 1 /\ i = Len(chain) =>
                head' = head /\ tail' = chain[i - 1] /\ next' = next
           /\ 1 < i /\ i < Len(chain) =>
                /\ head' = head /\ tail' = tail
                /\ next' = [next EXCEPT ![chain[i - 1]] = chain[i + 1]]
<1>1. pc = "search" /\ current # NULL /\ current \in live /\ Unlink
  BY DEF Remove
<1>2. PICK D \in SUBSET Nodes :
        /\ BehindTail(D)
        /\ \/ \E j \in DOMAIN chain : Found(j)
           \/ current \in D \cup {NULL}
  BY <1>1 DEF IInv, SearchInv
<1>3. PICK i \in 1 .. Len(chain) : Found(i)
  BY <1>1, <1>2, ChainFacts DEF BehindTail
<1>4. chain' = Without(chain, i)
  <2>1. PICK k \in DOMAIN chain :
          chain[k] = current /\ chain' = Without(chain, k)
    BY DEF Remove
  <2>2. k = i
    BY <2>1, <1>3, ChainFacts DEF Found
  <2> QED BY <2>1, <2>2
<1> QED BY <1>1, <1>3, <1>4, UnlinkFacts

\* What a removal leaves alone: the node itself, what is not allocated, and
\* the end of the list when another node goes.
LEMMA RemoveElsewhere ==
  ASSUME IInv, Remove, NEW i \in 1 .. Len(chain), Found(i)
  PROVE  /\ \A m \in Nodes : m = current \/ m \notin live
              => next'[m] = next[m]
         /\ i # Len(chain) => tail' = tail /\ next'[tail] = next[tail]
         /\ \A D \in SUBSET Nodes : BehindTail(D) =>
              IF Len(chain) # 1 /\ i = Len(chain)
              THEN BehindTail(D \cup {current})' ELSE BehindTail(D)'
<1> DEFINE N == Len(chain)
<1>1. PICK k \in 1 .. N :
        /\ Found(k)
        /\ N = 1 => head' = NULL /\ tail' = NULL /\ next' = next
        /\ N # 1 /\ k = 1 => head' = chain[2] /\ tail' = tail /\ next' = next
        /\ N # 1 /\ k = N =>
             head' = head /\ tail' = chain[k - 1] /\ next' = next
        /\ 1 < k /\ k < N =>
             /\ head' = head /\ tail' = tail
             /\ next' = [next EXCEPT ![chain[k - 1]] = chain[k + 1]]
  BY RemoveFacts
<1>2. /\ N \in Nat /\ N # 0 /\ DOMAIN chain = 1 .. N
      /\ current = chain[i] /\ head = chain[1] /\ tail = chain[N]
      /\ \A j \in 1 .. N : chain[j] \in live /\ chain[j] \in Nodes
                           /\ chain[j] # NULL
      /\ \A j, l \in 1 .. N : chain[j] = chain[l] => j = l
      /\ \A j \in 1 .. N - 1 : next[chain[j]] = chain[j + 1]
      /\ next \in [Nodes -> Pointer \cup {GARBAGE}]
  BY ChainFacts DEF IInv, TypeOK, ListHoldsMembers, Found
<1>3. k = i
  <2>1. chain[k] = current /\ chain[i] = current
    BY <1>1 DEF Found
  <2> QED BY <1>2, <2>1
<1>4. live' = live \ {current} /\ current' = current
  BY DEF Remove, localVars
<1> HIDE DEF N
<1>5. \/ N = 1 /\ i = N
      \/ N # 1 /\ i = 1 /\ i # N
      \/ N # 1 /\ i = N /\ i - 1 \in 1 .. N - 1 /\ (i - 1) + 1 = N
      \/ 1 < i /\ i < N /\ i # N /\ i - 1 \in 1 .. N - 1
         /\ i - 1 \in 1 .. N /\ i - 1 # i /\ i - 1 # N
  <2>1. N \in Nat /\ N # 0 /\ i \in 1 .. N
    BY <1>2 DEF N
  <2> QED BY <2>1
<1>6. \A m \in Nodes : m = current \/ m \notin live => next'[m] = next[m]
  <2>1. CASE 1 < i /\ i < N
    <3>1. i - 1 \in 1 .. N /\ i - 1 # i
      BY <2>1, <1>2
    <3>2. chain[i - 1] \in live /\ chain[i - 1] # current
      BY <3>1, <1>2 DEF N
    <3> QED BY <2>1, <3>2, <1>1, <1>2, <1>3
  <2>2. CASE ~(1 < i /\ i < N)
    BY <2>2, <1>1, <1>3, <1>5
  <2> QED BY <2>1, <2>2
<1>7. i # N => tail' = tail /\ next'[tail] = next[tail]
  <2>1. CASE N # 1 /\ i = 1
    BY <2>1, <1>1, <1>3
  <2>2. CASE 1 < i /\ i < N
    <3>1. i - 1 \in 1 .. N /\ i - 1 # N /\ N \in 1 .. N
      BY <2>2, <1>2
    <3>2. chain[i - 1] # tail /\ tail \in Nodes
      BY <3>1, <1>2
    <3> QED BY <2>2, <3>2, <1>1, <1>2, <1>3
  <2> QED BY <2>1, <2>2, <1>5
<1>8. ASSUME NEW D \in SUBSET Nodes, BehindTail(D)
      PROVE  IF N # 1 /\ i = N THEN BehindTail(D \cup {current})'
                               ELSE BehindTail(D)'
  <2>1. \A d \in D : next'[d] = next[d]
    BY <1>6, <1>8 DEF BehindTail
  <2>2. CASE N # 1 /\ i = N
    <3>1. next[tail'] = current /\ next' = next
      BY <2>2, <1>1, <1>2, <1>3, <1>5
    <3>2. next[current] \in D \cup {NULL}
      BY <2>2, <1>2, <1>8 DEF BehindTail
    <3>3. current \in Nodes
      BY <1>2 DEF N
    <3>4. /\ D \cup {current} \subseteq Nodes \ live'
          /\ \A d \in D \cup {current} :
               next'[d] \in (D \cup {current}) \cup {NULL}
      BY <2>1, <3>1, <3>2, <3>3, <1>4, <1>8 DEF BehindTail
    <3>5. BehindTail(D \cup {current})'
      BY <3>1, <3>4, <1>4 DEF BehindTail
    <3> QED BY <2>2, <3>5
  <2>3. CASE ~(N # 1 /\ i = N)
    <3>1. tail' # NULL => tail' = tail /\ next'[tail] = next[tail]
      BY <2>3, <1>1, <1>3, <1>7
    <3> QED BY <2>1, <2>3, <3>1, <1>4, <1>8 DEF BehindTail
  <2> QED BY <2>2, <2>3
<1> QED BY <1>6, <1>7, <1>8 DEF N

LEMMA RemoveInv ==
  ASSUME IInv, Remove
  PROVE  IInv'
<1> DEFINE N == Len(chain)
<1>1. /\ pc = "search" /\ current # NULL /\ current \in live
      /\ live' = live \ {current} /\ pc' = "idle"
      /\ UNCHANGED <<sock, arg, current, prev>>
  BY DEF Remove, localVars
<1>2. PICK D \in SUBSET Nodes : BehindTail(D)
  BY DEF IInv, SearchInv
<1>3. PICK i \in 1 .. N :
        /\ Found(i) /\ chain' = Without(chain, i)
        /\ N = 1 => head' = NULL /\ tail' = NULL /\ next' = next
        /\ N # 1 /\ i = 1 => head' = chain[2] /\ tail' = tail /\ next' = next
        /\ N # 1 /\ i = N =>
             head' = head /\ tail' = chain[i - 1] /\ next' = next
        /\ 1 < i /\ i < N =>
             /\ head' = head /\ tail' = tail
             /\ next' = [next EXCEPT ![chain[i - 1]] = chain[i + 1]]
  BY RemoveFacts
<1>5. /\ N \in Nat /\ N # 0 /\ DOMAIN chain = 1 .. N
      /\ chain \in Seq(Nodes) /\ current = chain[i]
      /\ head = chain[1] /\ tail = chain[N]
  BY <1>3, ChainFacts DEF IInv, ListHoldsMembers, Found
<1>6. /\ chain' \in Seq(Nodes)
      /\ Len(chain') = N - 1 /\ DOMAIN chain' = 1 .. N - 1
      /\ \A j \in 1 .. N - 1 :
           chain'[j] = IF j < i THEN chain[j] ELSE chain[j + 1]
  <2>1. chain' = Without(chain, i) /\ i \in DOMAIN chain
    BY <1>3, <1>5
  <2> QED BY <2>1, <1>5, WithoutFacts
<1>7. /\ \A j \in 1 .. N : chain[j] \in live /\ chain[j] \in Nodes
                           /\ chain[j] # NULL
      /\ \A j, k \in 1 .. N : chain[j] = chain[k] => j = k
      /\ \A j \in 1 .. N - 1 : next[chain[j]] = chain[j + 1]
  BY <1>5, ChainFacts DEF IInv, ListHoldsMembers
<1>8. /\ N = 1 => head' = NULL /\ tail' = NULL /\ next' = next
      /\ N # 1 /\ i = 1 => head' = chain[2] /\ tail' = tail /\ next' = next
      /\ N # 1 /\ i = N =>
           head' = head /\ tail' = chain[i - 1] /\ next' = next
      /\ 1 < i /\ i < N =>
           /\ head' = head /\ tail' = tail
           /\ next' = [next EXCEPT ![chain[i - 1]] = chain[i + 1]]
  BY <1>3
<1> HIDE DEF N
<1>9. \/ N = 1
      \/ N # 1 /\ i = 1
      \/ N # 1 /\ i = N /\ i - 1 \in 1 .. N - 1
      \/ 1 < i /\ i < N /\ i - 1 \in 1 .. N - 1 /\ i + 1 \in 1 .. N
  <2>1. N \in Nat /\ N # 0
    BY <1>5
  <2> QED BY <2>1
<1>10. TypeOK'
  <2>1. /\ next' \in [Nodes -> Pointer \cup {GARBAGE}]
        /\ \A m \in Nodes : next'[m] = next[m] \/ next'[m] \in live
    BY <1>7, <1>8, <1>9 DEF IInv, TypeOK, Pointer
  <2>2. /\ head' \in {head, NULL} \cup live /\ head' \in Pointer
        /\ tail' \in Pointer
    <3>1. N # 1 => 2 \in 1 .. N
      BY <1>5
    <3> QED BY <3>1, <1>7, <1>8, <1>9 DEF IInv, TypeOK, Pointer
  <2>3. ASSUME NEW m \in live' \cup {head', current'}
                          \cup {next'[k] : k \in Nodes}, m \in Nodes
        PROVE  next'[m] \in Pointer /\ sock'[m] \in Socks
    <3>1. m \in live \cup {head, current} \cup {next[k] : k \in Nodes}
      BY <1>1, <2>1, <2>2, <2>3, MemberListAssumption
    <3>2. next[m] \in Pointer /\ sock[m] \in Socks
      BY <3>1, <2>3 DEF IInv, TypeOK
    <3> QED BY <3>2, <2>1, <2>3, <1>1 DEF IInv, TypeOK, Pointer
  <2> QED BY <2>1, <2>2, <2>3, <1>1, <1>6 DEF IInv, TypeOK
<1>11. ListHoldsMembers'
  <2>1. \A j \in 1 .. N - 1 : j \in 1 .. N /\ j + 1 \in 1 .. N
    BY <1>5
  <2>2. \A j, k \in 1 .. N - 1 : chain'[j] = chain'[k] => j = k
    BY <2>1, <1>3, <1>6, <1>7
  <2>3. live' = {chain'[j] : j \in 1 .. N - 1}
    <3>1. ASSUME NEW j \in 1 .. N - 1
          PROVE  chain'[j] \in live'
      BY <2>1, <1>1, <1>3, <1>5, <1>6, <1>7
    <3>2. ASSUME NEW n \in live'
          PROVE  \E j \in 1 .. N - 1 : chain'[j] = n
      <4>1. PICK k \in 1 .. N : n = chain[k] /\ k # i
        BY <3>2, <1>1, <1>5 DEF IInv, ListHoldsMembers
      <4>2. CASE k < i
        <5>1. k \in 1 .. N - 1
          BY <4>2, <1>3, <1>5
        <5> QED BY <5>1, <4>1, <4>2, <1>6
      <4>3. CASE ~(k < i)
        <5>1. k - 1 \in 1 .. N - 1 /\ ~(k - 1 < i) /\ (k - 1) + 1 = k
          BY <4>1, <4>3, <1>3, <1>5
        <5> QED BY <5>1, <4>1, <1>6
      <4> QED BY <4>2, <4>3
    <3> QED BY <3>1, <3>2
  <2>4. CASE N = 1
    BY <2>2, <2>3, <2>4, <1>6, <1>8 DEF ListHoldsMembers
  <2>5. CASE N # 1
    <3>1. N - 1 # 0 /\ 1 \in 1 .. N - 1 /\ N - 1 \in 1 .. N - 1
      BY <2>5, <1>5
    <3>2. head' = chain'[1]
      BY <3>1, <2>5, <1>5, <1>6, <1>8, <1>9
    <3>3. tail' = chain'[N - 1]
      <4>1. i = N => i - 1 = N - 1 /\ N - 1 < i
        BY <1>3, <1>5
      <4>2. i # N => ~(N - 1 < i) /\ (N - 1) + 1 = N
        BY <1>3, <1>5
      <4> QED BY <4>1, <4>2, <3>1, <2>5, <1>5, <1>6, <1>8, <1>9
    <3>4. ASSUME NEW j \in 1 .. (N - 1) - 1
          PROVE  next'[chain'[j]] = chain'[j + 1]
      <4>1. /\ j \in 1 .. N - 1 /\ j + 1 \in 1 .. N - 1
            /\ j \in 1 .. N /\ j + 1 \in 1 .. N /\ (j + 1) + 1 \in 1 .. N
        BY <1>5
      <4>2. /\ chain'[j] = IF j < i THEN chain[j] ELSE chain[j + 1]
            /\ chain'[j + 1] =
                 IF j + 1 < i THEN chain[j + 1] ELSE chain[(j + 1) + 1]
            /\ next[chain[j]] = chain[j + 1]
            /\ next[chain[j + 1]] = chain[(j + 1) + 1]
        BY <4>1, <1>6, <1>7
      <4>3. CASE i = 1 \/ i = N
        <5>1. next' = next
          BY <4>3, <2>5, <1>8
        <5>2. i = 1 => ~(j < i) /\ ~(j + 1 < i)
          OBVIOUS
        <5>3. i = N => j < i /\ j + 1 < i
          BY <4>1, <1>5
        <5> QED BY <5>1, <5>2, <5>3, <4>2, <4>3
      <4>4. CASE i # 1 /\ i # N
        <5>1. /\ i - 1 \in 1 .. N /\ i + 1 \in 1 .. N
              /\ 1 < i /\ i < N
          BY <4>4, <1>3, <1>5
        <5>2. \A k \in 1 .. N :
                next'[chain[k]] = IF k = i - 1 THEN chain[i + 1]
                                               ELSE next[chain[k]]
          BY <5>1, <1>7, <1>8 DEF IInv, TypeOK
        <5>3. CASE j < i - 1
          <6>1. j < i /\ j + 1 < i /\ j # i - 1
            BY <5>3, <1>3
          <6> QED BY <6>1, <5>2, <4>1, <4>2
        <5>4. CASE j = i - 1
          <6>1. j < i /\ ~(j + 1 < i) /\ (j + 1) + 1 = i + 1
            BY <5>4, <1>3
          <6> QED BY <6>1, <5>2, <5>4, <4>1, <4>2
        <5>5. CASE j > i - 1
          <6>1. ~(j < i) /\ ~(j + 1 < i) /\ j + 1 # i - 1
            BY <5>5, <1>3
          <6> QED BY <6>1, <5>2, <4>1, <4>2
        <5> QED BY <5>3, <5>4, <5>5, <1>3
      <4> QED BY <4>3, <4>4
    <3> QED BY <3>1, <3>2, <3>3, <3>4, <2>2, <2>3, <1>6
          DEF ListHoldsMembers
  <2> QED BY <2>4, <2>5
<1>12. SearchInv'
  <2>1. \E B \in SUBSET Nodes : BehindTail(B)'
    <3>1. BehindTail(D)' \/ BehindTail(D \cup {current})'
      <4>1. i \in 1 .. Len(chain) /\ Found(i)
        BY <1>3 DEF N
      <4>2. \A B \in SUBSET Nodes : BehindTail(B) =>
              IF Len(chain) # 1 /\ i = Len(chain)
              THEN BehindTail(B \cup {current})' ELSE BehindTail(B)'
        BY <4>1, RemoveElsewhere
      <4> QED BY <1>2, <4>2
    <3>2. D \cup {current} \in SUBSET Nodes
      BY <1>3, <1>5, <1>7
    <3> QED BY <3>1, <3>2, <1>1
  <2> QED BY <2>1, <1>1 DEF SearchInv
<1> QED BY <1>10, <1>11, <1>12 DEF IInv

-----------------------------------------------------------------------------
LEMMA InitInv == Init => IInv
<1> SUFFICES ASSUME Init PROVE IInv
  OBVIOUS
<1>1. TypeOK
  BY MemberListAssumption DEF Init, TypeOK, Pointer
<1>2. ListHoldsMembers
  BY DEF Init, ListHoldsMembers
<1>3. SearchInv
  <2>1. BehindTail({}) /\ pc # "search"
    BY DEF Init, BehindTail
  <2> QED BY <2>1 DEF SearchInv
<1> QED BY <1>1, <1>2, <1>3 DEF IInv

LEMMA NextInv == IInv /\ [Next]_vars => IInv'
<1> SUFFICES ASSUME IInv, [Next]_vars PROVE IInv'
  OBVIOUS
<1>1. ASSUME NEW s \in Socks, AddUser(s) \/ BeginDelete(s)
      PROVE  IInv'
  BY <1>1, AddUserInv, BeginDeleteInv
<1>2. CASE SearchOn
  BY <1>2, SearchOnInv
<1>3. CASE NotFound
  BY <1>3, NotFoundInv
<1>4. CASE Remove
  BY <1>4, RemoveInv
<1>5. CASE FreeTwice
  BY <1>5, FreeTwiceInv
<1>6. CASE UNCHANGED vars
  <2>1. /\ TypeOK' /\ ListHoldsMembers'
    BY <1>6 DEF vars, heapVars, localVars, IInv, TypeOK, ListHoldsMembers
  <2>2. SearchInv'
    BY <1>6 DEF vars, heapVars, localVars, IInv, SearchInv, BehindTail, Found
  <2> QED BY <2>1, <2>2 DEF IInv
<1> QED BY <1>1, <1>2, <1>3, <1>4, <1>5, <1>6 DEF Next

LEMMA Invariance == Spec => []IInv
<1> QED BY InitInv, NextInv, PTL DEF Spec

\* The pointers the list follows were all written.
THEOREM TypeCorrect == Spec => []TypeOK
<1>1. IInv => TypeOK
  BY DEF IInv
<1> QED BY <1>1, Invariance, PTL

\* From head along next to tail lie the members, in the order of their
\* addition, whatever was freed before.
THEOREM HeapIsAList == Spec => []ListHoldsMembers
<1>1. IInv => ListHoldsMembers
  BY DEF IInv
<1> QED BY <1>1, Invariance, PTL

\* A search passes every member before it gives up.
THEOREM SearchPassesAll == Spec => []SearchIsExhaustive
<1>1. ASSUME IInv, pc = "search"
      PROVE  SearchIsExhaustive
  <2>1. PICK D \in SUBSET Nodes :
          /\ BehindTail(D)
          /\ \/ \E i \in DOMAIN chain : Found(i)
             \/ /\ current \in D \cup {NULL}
                /\ \A j \in DOMAIN chain : sock[chain[j]] # arg
    BY <1>1 DEF IInv, SearchInv
  <2>2. live \subseteq Nodes
    BY <1>1 DEF IInv, TypeOK
  <2>3. current \in D \cup {NULL} => current \notin live
    BY <2>1, <2>2, MemberListAssumption DEF BehindTail
  <2> QED BY <2>1, <2>3 DEF SearchIsExhaustive, Found
<1>2. IInv => SearchIsExhaustive
  BY <1>1 DEF SearchIsExhaustive
<1> QED BY <1>2, Invariance, PTL

-----------------------------------------------------------------------------
(***************************************************************************)
(* The refinement of Membership.  The walk from head to tail is read off   *)
(* the heap alone; that it is the chain takes an induction along the list, *)
(* here the least place at which a walk leaves it.                         *)
(***************************************************************************)
LEMMA LeastNumber ==
  ASSUME NEW T \in SUBSET Nat, T # {}
  PROVE  \E m \in T : \A k \in T : m <= k
<1>1. PICK m \in T : \A k \in T : ~(<<k, m>> \in OpToRel(<, Nat))
  BY NatLessThanWellFounded, WFMin
<1>2. \A k \in T : ~(k < m)
  BY <1>1 DEF OpToRel
<1> QED BY <1>2

LEMMA LiveCount ==
  ASSUME IInv
  PROVE  /\ chain \in [1 .. Len(chain) -> live]
         /\ Cardinality(live) = Len(chain)
<1>1. chain = [i \in 1 .. Len(chain) |-> chain[i]]
  BY ChainFacts
<1>2. chain \in [1 .. Len(chain) -> live]
  BY <1>1, ChainFacts
<1>3. \A n \in live : \E i \in 1 .. Len(chain) : chain[i] = n
  BY ChainFacts DEF IInv, ListHoldsMembers
<1>4. chain \in Bijection(1 .. Len(chain), live)
  BY <1>2, <1>3, ChainFacts, Fun_IsBij
<1> QED BY <1>2, <1>4, ChainFacts, FS_CountingElements DEF ExistsBijection

\* A walk cannot leave the chain: next leads from member to member, and the
\* first tail it meets is its end.
LEMMA WalkIsChain ==
  ASSUME IInv, NEW w \in Walks, chain # <<>>
  PROVE  w = chain
<1>1. PICK n \in 1 .. Len(chain) : w \in [1 .. n -> live]
  BY LiveCount DEF Walks
<1>2. /\ Len(chain) \in Nat /\ n \in Nat /\ n # 0 /\ n <= Len(chain)
      /\ Len(w) = n /\ DOMAIN w = 1 .. n
  BY <1>1, ChainFacts
<1>3. /\ w[1] = chain[1] /\ w[n] = chain[Len(chain)]
      /\ \A i \in 1 .. n - 1 :
           w[i] # chain[Len(chain)] /\ next[w[i]] = w[i + 1]
      /\ \A i \in 1 .. Len(chain) - 1 : next[chain[i]] = chain[i + 1]
  <2>1. /\ head = chain[1] /\ tail = chain[Len(chain)]
        /\ \A i \in 1 .. Len(chain) - 1 : next[chain[i]] = chain[i + 1]
    BY <1>2 DEF IInv, ListHoldsMembers
  <2>2. /\ w[1] = head /\ w[n] = tail
        /\ \A i \in 1 .. n - 1 : w[i] # tail /\ next[w[i]] = w[i + 1]
    BY <1>2 DEF Walks
  <2> QED BY <2>1, <2>2
<1>4. \A i \in 1 .. n : w[i] = chain[i]
  <2> DEFINE Off == {i \in 1 .. n : w[i] # chain[i]}
  <2>1. CASE Off = {}
    BY <2>1
  <2>2. CASE Off # {}
    <3>0. Off \in SUBSET Nat
      BY <1>2
    <3>1. PICK m \in Off : \A k \in Off : m <= k
      <4> HIDE DEF Off
      <4> QED BY <2>2, <3>0, LeastNumber
    <3>2. m \in 1 .. n /\ m # 1 /\ w[m] # chain[m]
      BY <1>3, <3>1
    <3>3. m - 1 \in 1 .. n - 1 /\ m - 1 \in 1 .. Len(chain) - 1
          /\ (m - 1) + 1 = m
      BY <1>2, <3>2
    <3>4. w[m - 1] = chain[m - 1]
      BY <1>2, <3>1, <3>2, <3>3
    <3>5. w[m] = chain[m]
      BY <1>3, <3>3, <3>4
    <3> QED BY <3>2, <3>5
  <2> QED BY <2>1, <2>2
<1>5. n = Len(chain)
  <2>1. chain[n] = chain[Len(chain)]
    BY <1>2, <1>3, <1>4
  <2>2. n \in 1 .. Len(chain) /\ Len(chain) \in 1 .. Len(chain)
    BY <1>2
  <2> QED BY <2>1, <2>2, ChainFacts
<1> QED BY <1>1, <1>4, <1>5, LiveCount

MemberSocks == [i \in 1 .. Len(chain) |-> sock[chain[i]]]

\* The list in the heap is the list of the members.
LEMMA ListedIsMembers == IInv => ListedSocks = MemberSocks
<1> SUFFICES ASSUME IInv PROVE ListedSocks = MemberSocks
  OBVIOUS
<1>1. CASE chain = <<>>
  <2>1. Walked = <<>> /\ Len(chain) = 0
    BY <1>1 DEF IInv, ListHoldsMembers, Walked
  <2>2. DOMAIN Walked = 1 .. Len(chain) /\ 1 .. Len(chain) = {}
    BY <2>1
  <2> QED BY <2>2 DEF ListedSocks, MemberSocks
<1>2. CASE chain # <<>>
  <2>1. Len(chain) \in Nat /\ Len(chain) # 0 /\ 1 \in 1 .. Len(chain)
    BY <1>2, ChainFacts
  <2>2. head = chain[1] /\ head # NULL /\ tail = chain[Len(chain)]
    BY <2>1, ChainFacts DEF IInv, ListHoldsMembers
  <2>3. chain \in Walks
    <3>1. chain \in UNION {[1 .. n -> live] : n \in 1 .. Cardinality(live)}
      BY <2>1, LiveCount
    <3>2. \A i \in 1 .. Len(chain) - 1 :
            chain[i] # tail /\ next[chain[i]] = chain[i + 1]
      BY <2>1, <2>2, ChainFacts DEF IInv, ListHoldsMembers
    <3> QED BY <2>2, <3>1, <3>2 DEF Walks
  <2>4. Walked = chain
    BY <1>2, <2>2, <2>3, WalkIsChain DEF Walked
  <2>5. DOMAIN Walked = 1 .. Len(chain)
        /\ \A i \in 1 .. Len(chain) : Walked[i] \in Nodes
    BY <2>4, ChainFacts
  <2> QED BY <2>4, <2>5 DEF ListedSocks, MemberSocks
<1> QED BY <1>1, <1>2

\* A new member comes last.
LEMMA AddUserAdds ==
  ASSUME IInv, NEW s \in Socks, AddUser(s)
  PROVE  /\ \A i \in DOMAIN MemberSocks : MemberSocks[i] # s
         /\ MemberSocks' = Append(MemberSocks, s)
<1>1. PICK n \in Nodes \ live :
        sock' = [sock EXCEPT ![n] = s] /\ chain' = Append(chain, n)
  BY DEF AddUser
<1>2. \A i \in 1 .. Len(chain) : sock[chain[i]] # s
  BY ChainFacts DEF AddUser
<1>3. /\ Len(chain') = Len(chain) + 1 /\ Len(chain) \in Nat
      /\ chain'[Len(chain) + 1] = n
      /\ \A i \in 1 .. Len(chain) : chain'[i] = chain[i] /\ chain[i] # n
  BY <1>1, ChainFacts
<1>4. sock'[n] = s /\ \A m \in Nodes \ {n} : sock'[m] = sock[m]
  BY <1>1 DEF IInv, TypeOK
<1>5. \A i \in 1 .. Len(chain) : /\ chain[i] \in Nodes
                                 /\ sock[chain[i]] \in Socks
  BY ChainFacts DEF IInv, TypeOK
<1>6. /\ MemberSocks \in Seq(Socks) /\ Len(MemberSocks) = Len(chain)
      /\ \A i \in 1 .. Len(chain) : MemberSocks[i] = sock[chain[i]]
  BY <1>3, <1>5 DEF MemberSocks
<1>7. Append(MemberSocks, s) =
        [i \in 1 .. Len(chain) + 1 |->
           IF i = Len(chain) + 1 THEN s ELSE sock[chain[i]]]
  <2>1. /\ Append(MemberSocks, s) \in Seq(Socks)
        /\ Len(Append(MemberSocks, s)) = Len(chain) + 1
        /\ \A i \in 1 .. Len(chain) + 1 :
             Append(MemberSocks, s)[i]
               = IF i = Len(chain) + 1 THEN s ELSE sock[chain[i]]
    BY <1>3, <1>6
  <2>2. \A t \in Seq(Socks) : t = [i \in 1 .. Len(t) |-> t[i]]
    OBVIOUS
  <2> QED BY <2>1, <2>2
<1>8. ASSUME NEW i \in 1 .. Len(chain) + 1
      PROVE  sock'[chain'[i]]
               = IF i = Len(chain) + 1 THEN s ELSE sock[chain[i]]
  <2>1. CASE i = Len(chain) + 1
    BY <2>1, <1>3, <1>4
  <2>2. CASE i # Len(chain) + 1
    <3>1. i \in 1 .. Len(chain)
      BY <2>2, <1>3
    <3> QED BY <2>2, <3>1, <1>3, <1>4, <1>5
  <2> QED BY <2>1, <2>2
<1>9. MemberSocks' = Append(MemberSocks, s)
  BY <1>3, <1>7, <1>8 DEF MemberSocks
<1> QED BY <1>2, <1>3, <1>6, <1>9 DEF MemberSocks

\* A member that is removed goes, and the others keep their order.
LEMMA RemoveDeletes ==
  ASSUME IInv, Remove
  PROVE  /\ arg \in Socks
         /\ \E i \in DOMAIN MemberSocks :
              /\ MemberSocks[i] = arg
              /\ MemberSocks' =
                   [j \in 1 .. Len(MemberSocks) - 1 |->
                      IF j < i THEN MemberSocks[j] ELSE MemberSocks[j + 1]]
<1>1. PICK i \in 1 .. Len(chain) :
        Found(i) /\ chain' = Without(chain, i)
  BY RemoveFacts
<1>2. current = chain[i] /\ sock[current] = arg /\ sock' = sock
  BY <1>1 DEF Found, Remove
<1>3. \A j \in 1 .. Len(chain) : /\ chain[j] \in Nodes
                                 /\ sock[chain[j]] \in Socks
  BY ChainFacts DEF IInv, TypeOK
<1>4. /\ MemberSocks \in Seq(Socks) /\ Len(MemberSocks) = Len(chain)
      /\ DOMAIN MemberSocks = 1 .. Len(chain)
      /\ \A j \in 1 .. Len(chain) : MemberSocks[j] = sock[chain[j]]
  BY <1>3, ChainFacts DEF MemberSocks
<1>5. /\ Len(chain') = Len(chain) - 1 /\ Len(chain) \in Nat
      /\ \A j \in 1 .. Len(chain) - 1 :
           chain'[j] = IF j < i THEN chain[j] ELSE chain[j + 1]
  <2>1. i \in DOMAIN chain /\ chain \in Seq(Nodes) /\ Len(chain) \in Nat
    BY ChainFacts
  <2> QED BY <1>1, <2>1, WithoutFacts
<1>6. ASSUME NEW j \in 1 .. Len(chain) - 1
      PROVE  sock'[chain'[j]]
               = IF j < i THEN MemberSocks[j] ELSE MemberSocks[j + 1]
  <2>1. j \in 1 .. Len(chain) /\ j + 1 \in 1 .. Len(chain)
    BY <1>5
  <2> QED BY <2>1, <1>2, <1>4, <1>5
<1>7. MemberSocks' = [j \in 1 .. Len(MemberSocks) - 1 |->
                        IF j < i THEN MemberSocks[j] ELSE MemberSocks[j + 1]]
  BY <1>4, <1>5, <1>6 DEF MemberSocks
<1> QED BY <1>2, <1>3, <1>4, <1>7

\* The other steps change neither the chain nor a socket.
LEMMA OthersStutter ==
  ASSUME \/ \E s \in Socks : BeginDelete(s)
         \/ SearchOn \/ NotFound \/ FreeTwice \/ UNCHANGED vars
  PROVE  MemberSocks' = MemberSocks
<1>1. UNCHANGED <<sock, chain>>
  BY DEF BeginDelete, SearchOn, NotFound, FreeTwice, vars, heapVars
<1> QED BY <1>1 DEF MemberSocks

\* The heap, read from head to tail, behaves like the sequence of members:
\* every step of the list is an addition, a deletion or no step of it.
THEOREM ListIsMembership == Spec => ImplementsMembership
<1>1. Init => Abstract!Init
  <2> SUFFICES ASSUME Init PROVE ListedSocks = <<>>
    BY DEF Abstract!Init
  <2>1. IInv /\ chain = <<>>
    BY InitInv DEF Init
  <2> QED BY <2>1, ListedIsMembers DEF MemberSocks
<1>2. IInv /\ IInv' /\ [Next]_vars
        => [Abstract!Next]_ListedSocks
  <2>1. IInv' => (ListedSocks = MemberSocks)'
    BY ListedIsMembers, PTL
  <2> SUFFICES ASSUME IInv, IInv', [Next]_vars
               PROVE  [Abstract!Next]_ListedSocks
    OBVIOUS
  <2>2. ListedSocks = MemberSocks /\ ListedSocks' = MemberSocks'
    BY <2>1, ListedIsMembers
  <2>3. ASSUME NEW s \in Socks, AddUser(s) PROVE Abstract!Next
    <3>1. Abstract!Add(s)
      BY <2>2, <2>3, AddUserAdds DEF Abstract!Add, Abstract!IsMember
    <3> QED BY <3>1 DEF Abstract!Next
  <2>4. CASE Remove
    <3>1. Abstract!Delete(arg)
      BY <2>2, <2>4, RemoveDeletes DEF Abstract!Delete
    <3> QED BY <2>4, <3>1, RemoveDeletes DEF Abstract!Next
  <2>5. CASE \/ \E s \in Socks : BeginDelete(s)
             \/ SearchOn \/ NotFound \/ FreeTwice \/ UNCHANGED vars
    BY <2>2, <2>5, OthersStutter
  <2> QED BY <2>3, <2>4, <2>5 DEF Next
<1> QED BY <1>1, <1>2, Invariance, PTL
        DEF Spec, ImplementsMembership, Abstract!Spec
=============================================================================
