----------------------------- MODULE MemberList -----------------------------
(***************************************************************************)
(* The singly linked list of members of idobata2/linear_lists.c, on a heap *)
(* of nodes.  A node that was freed keeps its fields sock and next until   *)
(* malloc hands it out again (the allocator overwrites only the user name  *)
(* in front of them), and freeing it twice aborts the process.             *)
(*                                                                         *)
(* delete_user_from_list is split at its loop: one step per node compared. *)
(***************************************************************************)
EXTENDS Integers, Sequences, FiniteSets

CONSTANTS
  Nodes,  \* addresses malloc can return
  Socks,  \* values of the field sock
  NULL,
  GARBAGE \* what is in memory that was never written

ASSUME MemberListAssumption ==
  NULL \notin Nodes /\ GARBAGE \notin Nodes /\ NULL # GARBAGE

VARIABLES
  head, tail,     \* the two global pointers
  next, sock,     \* the fields of the nodes
  live,           \* allocated nodes
  pc,             \* "idle", in the loop of a deletion, or "aborted"
  arg,            \* the socket to delete
  current, prev,  \* the local pointers of delete_user_from_list
  chain           \* history: the nodes added and not deleted, in order

heapVars  == <<head, tail, next, sock, live>>
localVars == <<arg, current, prev>>
vars      == <<heapVars, pc, localVars, chain>>

\* The elements of s without the one at position i.
Without(s, i) ==
  [j \in 1 .. Len(s) - 1 |-> IF j < i THEN s[j] ELSE s[j + 1]]

-----------------------------------------------------------------------------
\* tail->next = new; tail = new; tail->next = NULL.
LinkAtHead(n) == \* mutant: the new member becomes the head
  /\ next' = [next EXCEPT ![n] = head]
  /\ head' = n
  /\ tail' = IF tail = NULL THEN n ELSE tail
LinkWithoutEnd(n) == \* mutant: next of the new member is not set
  /\ next' = [m \in Nodes |-> IF m = tail THEN n ELSE next[m]]
  /\ head' = IF head = NULL THEN n ELSE head
  /\ tail' = n
LinkAtTail(n) ==
  /\ next' = [m \in Nodes |-> IF m = n THEN NULL
                              ELSE IF m = tail THEN n ELSE next[m]]
  /\ head' = IF head = NULL /\ tail = NULL THEN n ELSE head
  /\ tail' = n

\* add_user_to_list for a connection: the kernel hands out a descriptor
\* that no member has.
AddUser(s) ==
  /\ pc = "idle"
  /\ \A i \in DOMAIN chain : sock[chain[i]] # s
  /\ \E n \in Nodes \ live :
       /\ live' = live \cup {n}
       /\ sock' = [sock EXCEPT ![n] = s]
       /\ LinkAtTail(n)
       /\ chain' = Append(chain, n)
  /\ UNCHANGED <<pc, localVars>>

\* delete_user_from_list begins at the head.
BeginDelete(s) ==
  /\ pc = "idle"
  /\ pc' = "search" /\ arg' = s /\ current' = head /\ prev' = NULL
  /\ UNCHANGED <<heapVars, chain>>

\* The socket is another one: go on with the next node.
SearchOnStays == \* mutant: current is not moved
  /\ pc = "search"
  /\ current # NULL /\ sock[current] # arg
  /\ prev' = current
  /\ UNCHANGED <<heapVars, pc, arg, current, chain>>
SearchOn ==
  /\ pc = "search"
  /\ current # NULL /\ sock[current] # arg
  /\ prev' = current /\ current' = next[current]
  /\ UNCHANGED <<heapVars, pc, arg, chain>>

\* No node has the socket.
NotFound ==
  /\ pc = "search"
  /\ current = NULL
  /\ pc' = "idle"
  /\ UNCHANGED <<heapVars, localVars, chain>>

\* The four cases in which the node found is taken out of the list.
UnlinkKeepsTail == \* mutant: the case of the tail is missing
  \/ /\ head = tail
     /\ head' = NULL /\ tail' = NULL /\ UNCHANGED next
  \/ /\ head # tail /\ current = head
     /\ head' = next[current] /\ UNCHANGED <<tail, next>>
  \/ /\ head # tail /\ current # head
     /\ next' = [next EXCEPT ![prev] = next[current]]
     /\ UNCHANGED <<head, tail>>
Unlink ==
  \/ /\ head = tail
     /\ head' = NULL /\ tail' = NULL /\ UNCHANGED next
  \/ /\ head # tail /\ current = head
     /\ head' = next[current] /\ UNCHANGED <<tail, next>>
  \/ /\ head # tail /\ current # head /\ current = tail
     /\ tail' = prev /\ UNCHANGED <<head, next>>
  \/ /\ head # tail /\ current # head /\ current # tail
     /\ next' = [next EXCEPT ![prev] = next[current]]
     /\ UNCHANGED <<head, tail>>

Remove ==
  /\ pc = "search"
  /\ current # NULL /\ sock[current] = arg /\ current \in live
  /\ Unlink
  /\ live' = live \ {current}
  /\ \E i \in DOMAIN chain : chain[i] = current /\ chain' = Without(chain, i)
  /\ pc' = "idle"
  /\ UNCHANGED <<sock, localVars>>

\* The search came to a node that is not allocated any more.
FreeTwice ==
  /\ pc = "search"
  /\ current # NULL /\ sock[current] = arg /\ current \notin live
  /\ pc' = "aborted"
  /\ UNCHANGED <<heapVars, localVars, chain>>

-----------------------------------------------------------------------------
Init ==
  /\ head = NULL /\ tail = NULL
  /\ next = [n \in Nodes |-> GARBAGE]
  /\ sock = [n \in Nodes |-> GARBAGE]
  /\ live = {}
  /\ pc = "idle"
  /\ arg = NULL /\ current = NULL /\ prev = NULL
  /\ chain = <<>>

Next ==
  \/ \E s \in Socks : AddUser(s) \/ BeginDelete(s)
  \/ SearchOn \/ NotFound \/ Remove \/ FreeTwice

Spec == Init /\ [][Next]_vars

\* A call of the list runs to its end.
FairSpec == Spec /\ WF_vars(SearchOn \/ NotFound \/ Remove \/ FreeTwice)

-----------------------------------------------------------------------------
Pointer == Nodes \cup {NULL}

\* Pointers are addresses or NULL, and what they point to was written: the
\* list never follows an uninitialised next (linear_lists.c:71).
TypeOK ==
  /\ head \in Pointer /\ tail \in Pointer
  /\ next \in [Nodes -> Pointer \cup {GARBAGE}]
  /\ sock \in [Nodes -> Socks \cup {GARBAGE}]
  /\ live \in SUBSET Nodes
  /\ pc \in {"idle", "search", "aborted"}
  /\ arg \in Socks \cup {NULL} /\ current \in Pointer /\ prev \in Pointer
  /\ chain \in Seq(Nodes)
  /\ \A n \in live \cup {head, current} \cup {next[m] : m \in Nodes} :
       n \in Nodes => next[n] \in Pointer /\ sock[n] \in Socks

\* The heap holds the list: from head along next to tail lie the members in
\* the order in which they were added, each in a node of its own, and no
\* other node is allocated (add_user_to_list, the cases of
\* delete_user_from_list).
ListHoldsMembers ==
  /\ live = {chain[i] : i \in DOMAIN chain}
  /\ \A i, j \in DOMAIN chain : chain[i] = chain[j] => i = j
  /\ IF Len(chain) = 0
     THEN head = NULL /\ tail = NULL
     ELSE /\ head = chain[1] /\ tail = chain[Len(chain)]
          /\ \A i \in 1 .. Len(chain) - 1 : next[chain[i]] = chain[i + 1]

\* A search that has not found its socket yet has passed only members with
\* other sockets, and prev is the node before current.
SearchIsExhaustive ==
  pc = "search" =>
    \/ \E i \in DOMAIN chain :
         /\ current = chain[i]
         /\ prev = IF i = 1 THEN NULL ELSE chain[i - 1]
         /\ \A j \in 1 .. i - 1 : sock[chain[j]] # arg
    \/ /\ current \notin live
       /\ \A j \in DOMAIN chain : sock[chain[j]] # arg

\* The list between its two pointers, from head along next up to tail: the
\* walk is the only element of Walks.  (Those who use the list do not stop
\* at tail but at NULL; what that means is the subject of IdobataServer.)
Walks ==
  {w \in UNION {[1 .. n -> live] : n \in 1 .. Cardinality(live)} :
     /\ w[1] = head /\ w[Len(w)] = tail
     /\ \A i \in 1 .. Len(w) - 1 : w[i] # tail /\ next[w[i]] = w[i + 1]}
Walked ==
  IF head = NULL THEN <<>>
  ELSE IF Walks = {} THEN <<NULL>> ELSE CHOOSE w \in Walks : TRUE

\* The sockets on the list are the abstract sequence of Membership: a new
\* member comes last, a deleted one goes and the others keep their order.
ListedSocks ==
  [i \in DOMAIN Walked |-> IF Walked[i] \in Nodes THEN sock[Walked[i]] ELSE NULL]
Abstract == INSTANCE Membership WITH members <- ListedSocks
ImplementsMembership == Abstract!Spec

\* A deletion ends: the search does not run in a circle.
DeletionEnds == (pc = "search") ~> (pc # "search")
=============================================================================
