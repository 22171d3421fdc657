# Models and proofs of the network programs

The repository holds the C programs of a course on network programming: echo
servers, a quiz, a chat with `select()`, and *idobata*, a chat room whose
server is found by broadcast. Each is a few hundred lines, yet nearly all of
them serve several clients at once, in one of four ways: a loop around
`select()`, a process per connection, a thread per connection, or a pool of
workers on one listening socket. This directory models those programs in TLA+,
checks them with TLC and proves their main invariants with TLAPS.

1. [The system](#1-the-system)  2. [The modules](#2-the-modules)
3. [The runs](#3-the-runs)  4. [The proofs](#4-the-proofs)
5. [Disagreements found](#5-disagreements-found)
6. [What is not modelled](#6-what-is-not-modelled)  7. [The plan](#7-the-plan)

## 1. The system

Paths are below `src/workspace/`.

### chat-server (`chat_server.c`, `chat_common.c`, `chat_client.c`)

* *State.* `Client[]`, an array of `Max_client` slots with `sock` (-1: free)
  and `name` (empty: not registered); `Cnt_client`; `Max_sd`; the bit masks
  `mask` and `readfds`; in the kernel the accept queue and the descriptor table.
* *Operations.* `chat_server` (select, refuse when full, scan of the slots with
  a second select inside it), `client_join`, `client_exit`, `set_client_name`,
  `send_chat_message`, `setMax_sd`; `Accept`, `Send` and `Recv`, which end the
  process on any error.
* *Hard.* One thread that must never wait outside `select`; `readfds` replaced
  in the middle of a scan; slots and descriptors used again by other clients;
  clients that go at any time, in order or with a reset.
* *Correct when* slots, descriptors, mask and counter agree; a message goes to
  all the others once, under the name of who typed it; every line is read and
  every connection answered.

### idobata2

* `linear_lists.c`: the members, a singly linked list with `head` and `tail`.
  `add_user_to_list`, `delete_user_from_list`, `get_head_from_list`. *Hard:*
  freed nodes stay reachable through stale `next` fields. *Correct when* the
  list is the sequence of those who joined and did not leave.
* `idobata_server.c` (state: the list, `mask`, `readfds`, `Max_sd`): one `select` loop over keyboard, UDP socket, listening
  socket, its own client connection and the members, as an `else if` chain.
  *Hard:* broadcasts delete members whose connection is broken while they walk
  the list, and broadcast again; a member is used after it was freed.
* `idobata_common.c`: `search_server` broadcasts `HELO` and waits a second for
  `HERE`, three times; who finds nobody becomes the server. *Hard:* lost and
  foreign datagrams, answers that change the next `HELO`, two searches at once,
  a server that is busy. *Correct when* nobody becomes a server beside one that
  could be found, and every search ends.
* `idobata_client.c`, `packet.c`: `JOIN`, `POST`, `QUIT` and `MESG` over a
  stream. *Hard:* 512 bytes are sent for a message and 511 read; the server
  goes while its clients are in the middle of a message. *Correct when* every
  message is shown and a client notices that its server is gone.

### quiz (`quiz_util.c`, `question.c`, `quiz_server.c`, `quiz_client.c`)

* *State.* `Client[]` with `sock` and `name`, `Max_sd`, `Ranking`, the local
  count `answered`.
* *Operations.* `client_login`, one client after the other; then for ever
  `make_question`, `send_question`, `receive_answer`, `send_result`.
* *Hard.* Late answers judged by the next question; a count that is compared
  with its limit only after a whole scan.
* *Correct when* points are earned in their round and counts stay in bounds,
  select watches every client, and every line is read.

### The echo servers

All run the same loop on a connection (receive up to `BUFSIZE` bytes, send
them back, until the last byte is a newline) and differ in who runs it:

| program | worker | created | hard |
|---|---|---|---|
| `echo_fork/echo_fork.c` | process | per connection, at most `PRCS_LIMIT` | counting children, zombies, descriptors held twice |
| `echo_thread/echo_thread.c` | thread | per connection | handing over the descriptor, one address space |
| `kadai3/*.c` | process or thread | in advance | all wait in `accept` on one socket, failure of one |
| `tcp_server`, `echo_client2` | none | | one connection after the other, nothing concurrent |

*Correct when* each client gets back what it sent, a connection has one worker
and is closed in the end, no worker is lost and the limit is kept.

### kadai2 (`echo_server2.c`)

* *State.* `hashed_pass`, the buffer `r_buf`, which outlives every session, and
  the connection that is served.
* *Operations.* Set the password on the first connection; then for each
  connection in turn the login loop, the command loop and in it the loop that
  skips what follows a line (`get_op_code`, `send_to_client`).
* *Hard.* Lines cut by `recv`, ends of file inside each of the three loops, a
  buffer with the contents of an earlier turn or client.
* *Correct when* a session belongs to whoever typed the password in it, and
  ends with `exit`.

### The others

`udp_echo` are
datagram clients and servers; `mynet` the library that makes sockets
(`init_tcpserver`, ...) and ends the process (`exit_errmesg`); `idobata` a
draft of idobata2; `tcp_http` a web client; `curses_sample` a demonstration.

### How components interact

Programs meet only through sockets. A connection is `new`, `up`, then `fin`
(the client closed), `finrst` (it closed, and what was sent to it afterwards
came back as a reset) or `rst` (it died with unread data). `recv` gives the
data that arrived, then 0 after `fin`/`finrst` and an error after `rst`; `send`
fails after `finrst` and `rst`. An error ends the process, and with it all its
threads. Within idobata2 the server calls the list directly.

## 2. The modules

| module | models | builds on |
|---|---|---|
| `ChatRoom` | what the chat server promises, told from its clients alone | |
| `ChatServer` | the chat server, its clients and kernel | implements `ChatRoom` |
| `Membership` | what a member list promises: a sequence of sockets | |
| `MemberList` | `idobata2/linear_lists.c` on a heap of nodes | implements `Membership` |
| `IdobataServer` | `idobata2/idobata_server.c`, its clients and kernel | instantiates `MemberList` |
| `EchoService` | what a concurrent echo server promises, told from its clients alone | |
| `EchoLoop` | the recv/send loop, its clients and kernel | |
| `EchoFork` | `echo_fork.c` | extends `EchoLoop`, implements `EchoService` |
| `EchoThread` | `echo_thread.c` | extends `EchoLoop`, implements `EchoService` |
| `EchoPool` | the servers of `kadai3` | extends `EchoLoop`, implements `EchoService` |
| `Quiz` | the quiz server and its players | |
| `IdobataPeers` | several idobata2 programs on one network: `idobata.c`, `idobata_common.c`, `idobata_client.c`, and other programs on the port | |
| `FileServer` | `kadai2/echo_server2.c`, its clients and kernel | |
| `MC*` | small instances for TLC: sets of model values, symmetry | |
| `*_proofs` | theorems | extends the module they are about |

**Steps.** A step of a single threaded server runs from one call that can wait
(`select`, `accept`, `recv`) to the next: no other process shares its memory,
and what it sends in between commutes with what clients do. `pc` names the call
it is at. Where memory is shared (threads) or a descriptor is held by two
processes (fork), steps are single calls. Names of variables and operators are
those of the C code; a history variable is marked as such where it is declared.

**ChatServer.** `sock`, `name`, `Cnt_client`, `Max_sd`, `mask`, `readfds` and
`client_id` are the variables of the program; `fd`, `backlog`, `conn` and
`inbox` are the kernel's. `Select` is lines 55-60, `RefuseWhenFull` the full
branch, `SkipSlot`, `ClientJoin`, `Reselect` and `Serve` the cases of the scan.
`SelectReadfds` has the fact that shapes this program: a `select` on a mask
with a closed descriptor fails at once, the result is ignored and `readfds`
stays a copy of `mask`. A name and a message are the sequences of lines they
were made from, since one `recv` may return several. A broadcast to a slot
whose connection was reset ends the process after the lower slots were served.

**ChatRoom.** A client is `away`, `waiting`, `in` or `gone`; it types lines, may
hang up, is admitted or turned away, and while it is in the room all that it
typed is read at once: as its name (`Register`), as a message that all the
others who have not hung up are shown (`Say`), or as an empty line (`Prompt`).
Who has hung up leaves when all of its lines were read, and only in the presence
of such a guest the room may end, in the middle of any of these steps. In
`ChatServer` a client is `waiting` in the accept queue and `in` the room while
its descriptor is open; `nick` is the name of the slot that holds this
descriptor. Slots, the mask, and connections that the kernel has reset but the
server has not looked at are not in the room.

**MemberList.** `next` and `sock` are functions on all addresses, so that freed
nodes keep their contents, and `live` says which are allocated. The search of
`delete_user_from_list` takes a step per node. `chain` is a history variable:
the nodes added and not deleted. `ListedSocks` is what the heap holds from
`head` along `next` up to `tail`, without a look at the history; under the
mapping `members <- ListedSocks` the module implements `Membership`.

**IdobataServer.** The variables of `MemberList` are its own, and `Accept` and
`DeleteFromList` contain the operations of the list. `at` is the branch or call
the server is at; `Select` chooses the branch in the order of the `else if`s.
What is typed and who looks for a server are choices of the environment made
while the server is in `select` (`SelectTyped`, `SelectHelo`). The walk of
`recv_msg_from_client` is `Skip`, `CallRecv`, `RecvData` (`Handle` has its
branches), `RecvNothing` and `EndWalk`; it goes on along `next` of nodes that
were freed under it. `transfer_message` and `delete_user` call each other, so
their calls are frames of `stack`: `SendMessage` sends to a member,
`SendToBroken` pushes the frame of a `delete_user`, `CloseConnection` and
`DeleteFromList` are its second half, and `Return` gives control back to the
walk or to the send that failed. A packet is its type and number. One `recv`
returns all packets that arrived, of which only the first header counts, or
cuts one of them, if two posts are too long for the buffer. Here a broken connection is one on which `recv` gives 0 and
`send` gives `EPIPE`; a reset that a `send` has reported becomes that too.

**EchoLoop** and its three users. A byte is a record of sender, position and
"is a newline". `holders` says who has a descriptor of a connection. In
`EchoFork`, `pc` walks the parent through accept, fork, close, wait and reap,
and workers are process identifiers that are free again after reaping. In
`EchoThread`, `heap`, `allocated` and `arg` are the memory through which a
descriptor goes to a thread. In `EchoPool` the variable `mode` is the program's
own option, and `EndAll` is what `kill(0, SIGINT)`, or the failure of a thread,
does.

**EchoService.** A conversation is `new`, `waiting`, `served` and `over`. What
comes back is always a beginning of what was sent; a served client whose
connection is not reset is left only when all of it, or the end of a line, has
come back; when the server stops, those who wait are dropped and those who are
served may be served on. The state function `StageOf` of `EchoLoop` reads the
stage off the accept queue and the descriptors. In `echo_fork` the connection
outlives the child for the moment in which the parent still has its copy: what
is sent then is lost, which is why `Send` is possible behind the end of a line.

**Quiz.** `Ranking` has cells behind its end, so that a write there can be
seen. An answer is reduced to the question it is right for; `right` counts all
answers typed.

**IdobataPeers.** `pc` says where each program is: searching (`select`), about to
`join` or to `start` a server, in a room as `client` or `server`, on its way out.
`cnt_retry`, `strsize` and `server` (`server_addr`) are variables of the
program. `net` holds the datagrams in flight or in a socket: they arrive in any
order, at any time, and are lost up to `MaxLost` times; a datagram sent again
before the first arrived is not told from it. `Begin` and `Timeout` send a
`HELO`, `RecvHere` and `RecvOther` are the two ends of the loop body,
`RecvUdpPacket` is the server's answer and `Echo` that of another program. The
room is abstract, since `IdobataServer` has its details: the members are those
who are in `client` or `server`, and a `JOIN`, `POST` or `QUIT` adds
`MSGBUF_SIZE` bytes to the stream of each one told. `Recv` takes at most
`MSGBUF_SIZE - 1` of them, and `Shows` whether they begin with a header. Each
program is on a host of its own, as the port wants it.

**FileServer.** Here lengths matter, so clients send bytes, in segments of any
length from one on, and `r_buf` is memory: `recv` writes as many bytes as it
returns (`Overwrite`), those behind them stay, and so they do from one turn and
one client to the next. A byte knows who sent it. `Terminate` is
`r_buf[strsize - 2] = '\0'`, which changes nothing that the program reads when
`strsize` is 0 or 1. `String`, `CutLine`, `Word` and `Rest` are what `strcpy`
and `strstr` see of a buffer; `AfterCommand` is what `get_op_code` and
`get_args` leave behind in it. `EndsLine` and `CopyEndsLine` are the values that
the test of `temp[strsize - 1]` can have: both of them after an end of file, and
where the copy of `r_buf` in `temp` ended at a NUL before. `Garbage` is what
`r_buf` may hold when the program starts. `key` is a history variable: the
string that opened the session, and how many bytes were received with it.

## 3. The runs

| run | checks | instance |
|---|---|---|
| `chat` | slots, descriptors and mask agree; no descriptor leaks; lines under the right name, to all others; refinement of `ChatRoom`; until somebody leaves: recv and accept only when ready, lines are read, connections answered | 3 clients, 2 slots, 2, 1 and 1 lines, one client may be killed |
| `chat_recv_waits` | *violation*: recv without data after a client left | the same |
| `list` | types; the heap is the list; refinement of `Membership`; deletions end | 3 nodes, 3 sockets, any calls |
| `idobata` | list, mask and descriptors agree between rounds; the walk reads ready members only, once, and misses none; posts reach all others once; packets are read | the server's own client (4 packets) and 2 others (2 and 1), one of whom may be killed; 3 nodes |
| `idobata_twice` | *violation*: the deletion of a member begins again before it is over | the same |
| `fork` | exact count; limit; descriptors; refinement of `EchoService`; waits end, bytes are read | 2 clients of 2 bytes, 2 children |
| `thread` | hand-over without a leak; bytes | 3 clients of 2 bytes, 2 threads, 2 cells |
| `pool` | full pool; one worker; failures contained; refinement of `EchoService`; queue served | 2 clients of 2 bytes, 2 workers, both modes |
| `quiz` | bounded count; points earned; answers are read | 2 players, 3 lines, 2 rounds, one may be killed |
| `peers` | no second server; searches end; clients learn the end of their server | 2 programs, a server of another kind, 3 timeouts, 2 datagrams lost, 1 line typed |
| `peers_shown` | *violation*: a message that is not shown | 2 programs, 2 lines typed, nothing lost |
| `files` | what a session was opened with came from its own client, and so did the `exit` that ends it at once; `exit` ends it | 3 clients; one sends 3 segments (`type exit`, `exit`, a byte), the others one line each, before or after it |

**Bounds.** `MaxLines`, `MaxSaid`, `MaxBytes`, `MaxSegments`, `MaxPosts` and
`MaxRounds` bound what clients do, `MaxLost` what the network does, and `MaxDepth` the recursion of `delete_user`, which has no end of its own;
the rest are sizes of the program (`Max_client`, `N_client`, `PRCS_LIMIT`,
`BUFSIZE`, the accept queue). They are chosen so that limits are met.
In `chat` there is a client more than slots: somebody is refused, and a slot and
a descriptor are used a second time by another. `thread` has a client more than
threads and cells. `fork` and `pool` have as many clients as children and
workers: the parent waits at its limit, and a worker may serve both clients, but
nobody waits behind two others (with three clients of one byte both runs pass
too, in five and three minutes). Streams are longer than a buffer. In `quiz` a
player has its name and two lines for two questions, so it may answer one
question twice, or late; the lines are read in the rounds there are. In `files`
a session follows another one, and a part of a line meets what is left in
`r_buf` from before, a whole "exit" or the argument of another command.
Two slots and two workers suffice for two to interfere; that more do not
change the picture is what the theorems say of the properties they cover. In
`peers` every number of timeouts up to the last one happens, with and without a
server to be found, and a client reads streams of one and of several messages.

**Premises.** `LinesAreRead`, `ConnectionsAreAnswered`, `RecvOnlyWhenReady` and the
second half of `AcceptNeverWaits` hold until a client leaves the chat; what can
happen then is section 5. `NoSecondServer` is checked, and proved, under three
premises: `Prompt` (an answer comes within `TIMEOUT_SEC` unless it is lost),
`MaxLost < MaxRetry`, and answers of other programs with whole headers.
`SearchEnds` has the premise that the answers of other programs stop some time,
since these are not counted. Section 5 has what happens without each of them.

The types of `ChatServer`, `IdobataServer`, `IdobataPeers` and `FileServer` are in
no run: that they hold, and for all constants, is a theorem. That `EchoThread` implements
`EchoService` is a theorem too; TLC checks it on the instance of `thread` without
its symmetry in about five minutes, which is why it is not among the runs.

In `IdobataServer` addresses that were never allocated are taken in a fixed
order (`MallocReturns`), since nothing tells them apart; freed ones in any.

**Symmetry** is used in `thread` only, which has no liveness property, over
clients, threads and cells that are interchangeable.

**Deadlock** is not an error in these models: servers wait when no client
wants anything, and clients may stop.

**Fairness.** Weak fairness of the server process (`ChatServer`, `Quiz`,
`IdobataServer`, `FileServer`), of each program (`IdobataPeers`: its timeouts,
receptions and connections, not what its user does, nor the network), of
parent and each child (`EchoFork`), of each worker and of the creation of
workers (`EchoPool`), and of a call of the list (`MemberList`): the operating
system schedules a process that can run. Nothing is assumed of clients: they
need not connect, type, read or leave. `PacketsAreRead` of `IdobataServer` has
the premise that searches for a server end some time, for each one comes before
the members; lines typed at the server come before them too, and end because
they are bounded. A step that waits for a client is not
enabled, so weak fairness promises nothing about it.

## 4. The proofs

TLAPS checks, for all values of the constants:

| theorem | property | argument |
|---|---|---|
| `ChatServer_proofs!TypeCorrect` | `TypeOK` (no run) | inductive as it stands, one lemma per part of the program |
| `ChatServer_proofs!SlotsAreAlwaysWatched` | `SlotsAreWatched` | `Handles` |
| `ChatServer_proofs!NoHandleLeaks` | `OneHandlePerClient` | `Handles` |
| `ChatServer_proofs!NoEarlyRecv` | `RecvOnlyWhenReady` | `ReadyAhead` |
| `ChatServer_proofs!NoAcceptWaits` | `AcceptNeverWaits` | counting: `Counted`, `Waiting` |
| `ChatServer_proofs!ChatIsUnderOwnName` | `ChatUnderOwnName` | `NamesAreOwn` |
| `ChatServer_proofs!ChatIsAlwaysDelivered` | `ChatReachesTheOthers` (action) | from `TypeOK` and `Handles` |
| `ChatServer_proofs!ServerIsARoom` | `ImplementsRoom` (refinement) | step by step, with `Handles` and `NamesAreOwn` |
| `ChatServer_proofs!NoLineIsShownTwice` | `EachLineOnce` of `ChatRoom` (no run) | `OnceInv` |
| `MemberList_proofs!TypeCorrect` | `TypeOK` | `IInv` of the list |
| `MemberList_proofs!HeapIsAList` | `ListHoldsMembers` | |
| `MemberList_proofs!SearchPassesAll` | `SearchIsExhaustive` (no run) | |
| `MemberList_proofs!ListIsMembership` | `ImplementsMembership` (refinement) | the walk from `head` to `tail` is the chain |
| `IdobataServer_proofs!TypeCorrect` | `TypeOK` (no run) | `IInv` of the server |
| `IdobataServer_proofs!ListMaskAndConnectionsAgree` | `MembersAreConnections` | |
| `IdobataServer_proofs!PostIsTransferred` | `PostReachesTheOthers` | |
| `IdobataServer_proofs!NoEarlyRecv` | `RecvOnlyFromReadyMembers` (action) | |
| `IdobataServer_proofs!NobodyIsMissed` | `WalkMissesNobody` (action) | |
| `IdobataServer_proofs!ServerUsesTheList` | `MemberList!Spec` (refinement, no run) | each step of the server is one of the list, or none |
| `IdobataServer_proofs!ServerKeepsMembers` | `ImplementsMembership` of the server's list (refinement, no run) | with `ListIsMembership` |
| `EchoFork_proofs!CountIsAlwaysExact` | `CountIsExact` | the state of the parent bounds the count at each of its calls |
| `EchoFork_proofs!LimitIsAlwaysKept` | `LimitIsKept` | |
| `EchoFork_proofs!ParentAlwaysLetsGo` | `ParentKeepsNothing` | |
| `EchoFork_proofs!ChildrenEcho` | `EchoIsFaithful` | the loop of `EchoPool_proofs`, see below |
| `EchoFork_proofs!OneChildPerConnection` | `OneWorkerPerConnection` | |
| `EchoFork_proofs!ChildrenAreAService` | `ImplementsService` (refinement) | `EndOfFile`, `LateLines` |
| `EchoFork_proofs!ChildrenMakeNothingUp` | `EchoesABeginning` of `EchoService` (no run) | `EchoIsFaithful` |
| `EchoFork_proofs!ChildrenAnswerInFull` | `AnsweredInFull` of `EchoService` (no run) | |
| `EchoPool_proofs!NoConnectionIsShared` | `OneWorkerPerConnection` | `LoopInv`, `PoolInv` |
| `EchoPool_proofs!PoolEchoes` | `EchoIsFaithful` | |
| `EchoPool_proofs!PoolIsNotUsedUp` | `PoolStaysFull` | |
| `EchoPool_proofs!OneFailureOneWorker` | `FailureIsContained` (action) | |
| `EchoPool_proofs!ThreadEchoes` | `EchoIsFaithful`, of `EchoThread` | `LoopInv`, `HandOver` |
| `EchoPool_proofs!HandOverIsExact` | `HandedOverOnce`, of `EchoThread` | |
| `EchoPool_proofs!PoolIsAService` | `ImplementsService` (refinement) | `EndOfFile` |
| `EchoPool_proofs!PoolMakesNothingUp` | `EchoesABeginning` of `EchoService` (no run) | |
| `EchoPool_proofs!PoolAnswersInFull` | `AnsweredInFull` of `EchoService` (no run) | |
| `EchoPool_proofs!ThreadsAreAService` | `ImplementsService`, of `EchoThread` (no run) | `EndOfFile`, `Deserted` |
| `EchoPool_proofs!ThreadsMakeNothingUp` | `EchoesABeginning`, for `EchoThread` (no run) | |
| `EchoPool_proofs!ThreadsAnswerInFull` | `AnsweredInFull`, for `EchoThread` (no run) | |
| `Quiz_proofs!AnsweredIsAlwaysBounded` | `AnsweredIsBounded` | with the range of `client_id` and `answered` |
| `Quiz_proofs!NoRankIsUnearned` | `NoUnearnedRank` | `EveryPointIsALine` |
| `IdobataPeers_proofs!OneServer` | `NoSecondServer` | every timeout is the loss of a datagram |
| `IdobataPeers_proofs!TypeCorrect` | `TypeOK` (no run) | inductive with what travels in the network and the streams |
| `FileServer_proofs!TypeCorrect` | `TypeOK` (no run) | with the next one |
| `FileServer_proofs!SessionsHaveTheirKey` | `SessionHasItsOwnKey` | what has arrived from a client is its own; nobody is served who did not connect; a terminator cuts the string there |
| `FileServer_proofs!ExitsAreTyped` | `ExitIsTyped` (action) | `CompleteExit` |

*Chat.* `SlotsAreWatched` and `OneHandlePerClient` are not inductive alone: that
a slot's descriptor is open needs that no two slots share one (else
`client_exit` of one closes the other's), and that needs that an open descriptor
belongs to a slot, so that `accept`, which takes a closed one, takes a new one.
That a client has one handle needs in addition that a client that did not
connect has none. `Handles` is their conjunction; it does not depend on what
`select` reports, so it holds in spite of the failing select of section 5.
`ReadyAhead` says that until somebody has left every descriptor of `readfds`
that the scan still has before it has something to read: that is what survives
the select in the middle of a scan, which puts another set in place of the old
one. `AcceptNeverWaits` is a matter of counting: as long as nobody has left,
each occupied slot has a descriptor of its own among `Max_client` many (with
`FiniteSetTheorems`), so a free slot means a free descriptor, and a full server
refuses. `NamesAreOwn` follows a name from what its client typed into the slot
and out again with a chat line, through all reuse of slots and descriptors.

*The chat server is a room.* `RoomSteps` has one lemma per action: `Connect` is
`Arrive`, `RefuseWhenFull` is `TurnAway`, `ClientJoin` is `Admit`, each branch of
`Serve` is one step of the guest, `RecvFails` is `Close`, and the rest stutters. What
they rest on: a client in the room has one slot, so its name is well defined
(`NickInSlot`, from `Handles`); the head of the accept queue is nowhere else, so
taking it out changes one stage (`HeadLeavesQueue`); the slots that
`send_chat_message` writes to are the others in the room, and a broadcast that
does not reach all of them stops at a connection that was reset, whose client has
hung up (`BroadcastReaches`, `RecipientsAreOthers`, `ResetIsLeft`). `JoinAdmits`
needs that a free slot has no name (`NamesAreOwn`): with a name left behind by
`client_exit` the new guest would be in the room under it, which is the mutant of
this property. `OnceInv` says that the lines of a socket are all different and
that none of them has been shown to anybody: a line typed has a new number, and a
buffer is taken out of the socket in the step that shows it.

*Member list.* The list from `head` to `tail` is easy; the search may run past
the tail along a stale `next`, into freed nodes. `SearchInv` says that then it
is in a set `D` of nodes that are not allocated, closed under `next` and
initialised, and that it has passed every member on its way. `TypeOK`,
`ListHoldsMembers` and `SearchInv` together are inductive. In particular no
uninitialised pointer is ever followed, and `Remove` takes the right member out.

*Refinement.* `ListedSocks` is read off the heap alone, by the walks that begin
at `head`, follow `next` over allocated nodes and end at the first `tail`. That
the chain is the only one takes an induction along the list. It is done with the
least place at which a walk leaves the chain (`LeastNumber`, from the well-founded
order of the numbers), for the induction theorems themselves take an operator.
With it an addition is `Add`, a removal is `Delete` and everything else stutters.

*Idobata server.* Two things walk the list while it changes under them:
`recv_msg_from_client`, which deletes the node it is at and then reads its `next`,
and a broadcast, which deletes a member whose connection is broken, which begins
another broadcast. The invariant has five parts.
- `Lists!IInv` is the invariant of the list, whose lemmas are used as they are.
- `NetInv` and `MemberInv`: mask, descriptors and members are the same but for
  the one who is being deleted.
- `WalkInv`: there are a place `p` and a set `S` of freed nodes, closed under
  `next`, such that `cur` is the `p`-th node of the chain or in `S`; members before `p`
  that are in `readfds` were served, members behind it were not, and no node of `S`
  has a socket in `readfds`. So whatever the walk finds behind the end of the list,
  it does not read from it. `ReadyInv` adds that what select reported is still
  there to be read unless it was served.
- `CallInv`: what follows the tail (`AfterTail`) has no descriptor that is open,
  and a call at place `q` has sent its text once to each member before `q` but the
  author, and to none behind.
- A call that was made inside of a deletion never returns. Somebody at its place or
  behind it is broken (the one for whom it was made), so it comes to a deletion too,
  and so on until the stack is full (section 5).
  This is why `PostReachesTheOthers` and `WalkMissesNobody` hold as long as the
  server runs: no state in which an inner call has come back is reachable.

`ServerUsesTheList` says that the server calls the list as `MemberList` expects it:
no operation before the one before has ended, and only with sockets, though a
deletion begins in the middle of a walk or of another broadcast. With
`ListIsMembership` what `Membership` promises then holds of the running server.

`IdobataAssumption` asks for a finite set of clients, for their descriptors are
numbered up to how many there are and whom a send reached is a sequence, and for
model values that are neither addresses nor numbers: the code's NULL is not the
address of a node, and a process has only so many descriptors.

*Echo servers.* `LoopInv` is about `EchoLoop` only: types; a connection that is new,
in the queue or in the hands of main is untouched, and nobody else has it; the
two properties themselves. There is one lemma per step of the loop and per way
to come to a connection or to leave it, and each server adds what its main
does. For threads `HandOver` says that each connection in the hands of main is in
one cell, known to main or to one thread that starts. `echo_fork` has a moment at
which parent and child both hold the connection, which the other servers do not
have. Its proof takes the lemmas from `EchoPool_proofs` by INSTANCE with
`holders <- InUse`, in which the parent's copy counts no more from the fork on.

*The echo servers are a service.* A step of a worker is a step of one
conversation: what came back, what the worker holds and what is unread is what
was sent (`EchoIsFaithful`), so each send makes the echo a longer beginning of it.
That a conversation ends only when it was answered is a question of `buf[-1]`:
after an end of file the loop of `echo_fork.c:46` may go on or stop, whatever the byte
is, and `EndOfFile` says that then nothing is unread and nothing will come. For
threads, main and the workers die together (`Deserted`), so the conversations
that are dropped when the service stops are not taken up again. For `echo_fork`
`LateLines` says that a connection that its child has left, and that
only the parent still holds, was answered to the end of a line unless its client
closed it. The lemmas are those of the pool, by INSTANCE as above.

*Fork.* `CountIsExact` needs that children are finite and that a process
identifier is given out only when free; `LimitIsKept` is inductive with the
statement of what `n_process` can be at each call (at `fork` below the limit,
hence at `close` at most the limit, hence after `wait` below it). The
assumption is `PRCS_LIMIT \in Nat \ {0}`.

*Quiz.* Within a scan each slot adds at most one, and a scan starts with
`answered < N_client`. `EveryPointIsALine` counts, per round, the points given and
the right answers not read yet: together they are at most those typed.

*Search.* The theorem assumes `SearchIsReliable`, the three premises of section 3,
and holds for any number of programs, of other servers and of retries. Its
invariant counts: for a search and a server that was there when it began,
`cnt_retry` is at most the number of datagrams lost, and less than it when
neither a `HELO` to that server nor its answer is under way
(`TimeoutsAreLosses`). A timeout happens only in the second case, so it never
gets to `MaxRetry`. That a server which has gone does not begin anew
(`UpWereServers`) keeps the property afterwards. `TypeCorrect` needs no premise.

*Files.* `SessionHasItsOwnKey` is about a client that is still there (`conn` is
`up`): then the last `recv` of the login loop returned something, and the commands
change neither `key` nor `hashed_pass`. If it returned two bytes or more, the
terminator is among them, and a string ends before the first NUL
(`TerminateFacts`), so all of it was just received. If it returned one byte,
nothing is terminated, and only that byte is known to be the client's: this is
what the code does (section 5), and the property says no more than that.
`ExitIsTyped` needs no terminator: for the command to be taken for complete, what
was received ends in a newline or has a NUL in it, neither of which can be in
"exit"; so it is longer than the command, whatever follows it in `r_buf`.
That strings are well defined rests on the least place of a character
(`LeastNumber`, `BeforeFacts`).

Assumptions on the constants are the named `ASSUME`s of the modules, which TLC
evaluates in the runs. Every invariant, every action property and every refinement
that a passing run checks is stated by one of these theorems. Only model-checked
are the liveness properties: `LinesAreRead`, `ConnectionsAreAnswered`,
`DeletionEnds`, `WaitEnds`, `BytesAreRead`, `HeadIsAccepted`, `AnswersAreRead`,
`PacketsAreRead`, `ExitEndsSession`, `SearchEnds` and `ClientsLearnTheEnd`. They need
ENABLED for their fairness, which the prover does not reason about. The
properties of the runs that expect a violation are false, so there is nothing to
prove about them.

## 5. Disagreements found

The runs marked *violation* each end in a behaviour of the code that contradicts
a comment or a note of the repository:

* **A failing select** (`chat_recv_waits`). `client_exit` closes a descriptor and
  leaves it in `mask`. Until the number is used again, `select` fails, and the
  server calls `recv` on clients that sent nothing: it then waits for one
  client while the lines of the others are not read.
* **A deletion without end** (`idobata_twice`). `delete_user` tells all members
  before it removes the one that left, and it tells that one too. When its
  connection is broken (something was sent to it after it left, which one
  message of somebody else in the same walk is enough for), this send fails
  with `EPIPE` and `transfer_message` calls `delete_user` for it again. The
  stack overflows and the server is gone.
* **Messages that are not shown** (`peers_shown`). A message is sent as 512 bytes
  and received as at most 511. When a second one has arrived before the first is
  read, the next `recv` begins with the last byte of the first, and what begins
  there has no header; so it goes on until the stream is read to its end.

Seen in the models too, and not given a run of their own:

* *A second server* (`IdobataPeers`). With `Prompt` false, a server whose user is
  typing (`wgetnstr`, `idobata_server.c:60`) answers too late, and the searcher
  starts a second one. With an answer of two bytes in `AnswerSizes` the next
  `HELO` is cut to two bytes (`idobata_common.c:70`) and no server answers it.
  Two searches that overlap may both end in a server. And `report10/format.tex:217`
  says that a search sends three times: while other programs answer, it sends
  any number of times, and without the premise of `SearchEnds` it need not end.
* *A second free* (`MemberList`). After the deletion of the last of several
  members, the new tail still points to the freed node; deleting the same
  socket again finds it there and frees it again (`FreeTwice`), though
  `linear_lists.c:125` says that nothing is done. No
  caller in `idobata_server.c` was seen to do so.
* *Ranking overflows* (`Quiz`). A client that is right twice is counted twice, and
  the count passes `N_client` within a scan: `AnsweredIsBounded` has the bound
  that does hold, `2 * N_client - 1`, and `Ranking` has `N_client` cells
  (`quiz_util.c:41,128`).
* *Text of before* (`FileServer`). `r_buf` is not cleared, and nothing checks
  `strsize` (`echo_server2.c:119,140`). After an end of file the login loop
  compares the buffer it had and asks again until a send fails, and the command
  loop may run the last command again. When `recv` returns a single byte,
  `r_buf[strsize - 2]` is in front of the array: what the login loop then
  compares is this byte followed by what `r_buf` held behind its first one, so
  that a session may be opened by a client that did not send the whole password.
  And a part of a line in the command loop stands in front of older text too:
  the command that runs after the junk may be one that nobody completed. This is
  why `SessionHasItsOwnKey` promises one byte only in that case, and why
  `ExitIsTyped` is about commands that are complete when they are received.

Further, a newline that is not
the last byte of what one `recv` returned does not end an echo conversation,
though `echo_fork.c:46` says so; the result of the quiz is the order of logins
and `Ranking` is never read (`quiz_util.c:145`); a `QUIT` that arrives in one
`recv` with a `POST` becomes text of that post, and a `POST` that arrives with
the `JOIN` part of the name (`idobata_server.c:167-199`); a member killed with
unread data ends the idobata server, since `Recv` exits on the reset though
`idobata_server.c:171` expects a 0; a client killed with
unread data ends the chat server (`recv` or `send` fails, `chat_common.c:17,25`),
though `chat_server.c:209` expects a 0 from `recv`; two lines in one `recv`
become one name with a newline in it (`chat_server.c:170`); a chat client whose
first line is empty shows its name (`chat_client.c:69`).

## 6. What is not modelled

Screens (`ncurses`), option parsing, addresses and formatting. Lengths in bytes
of names and messages, with their truncation, except the buffer of the echo
loop. `accept` is taken to succeed, and `send` to take all bytes: the amounts
are small and the sockets block. A failed `fork`, `malloc` or `pthread_create`
is modelled. In `FileServer` what arrives at once is shorter than `R_BUFSIZE`, the
password is compared instead of its hash, and what `ls` and `cat` answer is not told
apart. In
`IdobataPeers` a client that is killed is left to `IdobataServer`, and so is the
order of the branches of the server. Programs without interaction (`tcp_http`,
`curses_sample`, `linear_lists`, the sequential echo servers, the UDP clients) and
the draft `idobata` are left out: their behaviour is a function of their input.
`PROJECT.json` lists every component with its reason.

## 7. The plan

Done: chat, idobata (list, server, search and client), the echo servers, the
quiz and the file server; the abstract specifications `ChatRoom`, `Membership` and
`EchoService`; and the proofs of all safety properties and refinements. What
could follow:

1. **The room of idobata2.** `IdobataServer` implements a room too: a post reaches
   all the others once (`PostReachesTheOthers`). Its room would have to
   allow a broadcast in whose middle another one begins, and the end of the server
   inside of a deletion (section 5).
2. **A byte stream below the lines**, for the chat and the quiz, in which a line is
   cut where the buffer ends: the names of `NAMELENGTH` bytes and more of
   `chat_server.c:173` and the messages of `idobata_client.c:45` would be seen in
   the same model.
