# A verification of sd_copy: a replicated list of cars

`sd_copy` is a list of cars kept by a *chain* of servers. Clients send writes to
the first server of the chain (the head) and most reads to the last (the tail); every
server executes a write and forwards it to the next one before it answers.
ZooKeeper tells servers and clients who is in the chain. This directory holds
TLA+ modules of that program, TLC configurations for small instances of them,
and TLAPS proofs of the properties that matter most. `src/` below is the
repository; `PROJECT.json` maps every definition to the lines it models.

## 1. Inventory

| Component | Code | State | Operations | Modelled in |
|---|---|---|---|---|
| Car list | `source/list.c`, `data.c` | linked list of cars, its size | add, remove by model, get by brand / year, order by year, models, size, all | `CarList`, `BubbleSort` |
| Request handlers | `source/list_skel.c` | `list_mutex` | `invoke`, one handler per opcode | `CarList`, `ChainForward` |
| Chain forwarding | `zk_forward` in `source/zk_server.c` | the successor connection | forward a write, retry once | `ChainForward`, `ChainSystem` |
| Chain topology | `source/zk_server.c`, `zk_util.c` | `zk_state`: `active`, `update_pending`, index, size, addresses, successor | register, the update thread, `zk_update_chain_internal`, `zk_sync`, the two watchers | `ChainTopology`, `ChainSystem` |
| Server program | `source/list_server.c` | - | start, signal handler, exit handler | `ChainTopology` (start), `NetworkServer` (signal, end) |
| Connection threads | `source/network_server.c` | sockets, `client_count`, `server_running` | accept loop, `serve_client`, shutdown | `NetworkServer`, `ChainForward` (`serve_client`) |
| Client stub and commands | `client_stub.c`, `list_client.c`, `network_client.c` | one connection to head and one to tail | one command at a time, connect, send and wait, quit | `ChainForward`, `AtomicList`, `ClientZk` |
| Client topology | `source/zookeeper-interactions.c` | `rlistHead`, `rlistTail`, a semaphore | watcher, connect, disconnect | `ClientZk` |
| Message encoding | `message.c`, `sdmessage.proto` | none | conversions, read/write loops | `read_all` in `ClientZk` and `ChainSystem` |
| Generated code | `sdmessage.pb-c.*` | none | - | not modelled: generated |
| Log | `log.c` | a file and its mutex | open, append a line, close | `NetworkServer`, without the lines |

**How they interact.** A client connection is served by a thread of its own
(`serve_client`), which receives a request, calls `invoke` and sends the reply.
`invoke` takes `list_mutex`, runs the handler and, for a write that did not
fail, calls `zk_forward` *with the mutex held*: a request on the successor's
connection, which the successor serves with one of its own threads. So a write
holds one `list_mutex` after the other down the chain. The update thread of a
server reads `/chain` in ZooKeeper whenever `chain_watcher` reports a change and
swaps the successor connection under `zk_mutex`. A starting server registers,
runs the same update in its main thread, copies the list of its predecessor
(`zk_sync`) and only then listens. Everybody who wants something of a server - a
client, the predecessor, a server that copies - takes one of its `MAX_CLIENTS`
places. In a client the completion thread of the ZooKeeper library runs `watcher`,
which closes and replaces the connections that the main thread is using.

**What is hard.** Threads of several clients and of the predecessor meet on one
list; a write is executed before it is known whether the rest of the chain will
execute it; a forward that failed is repeated although part of the chain may
have executed it; a mutex is held across a call to another process; two threads
update the topology without excluding each other; a ZooKeeper watch fires once,
so a change between two reads can be missed; processes crash, sessions expire
and calls fail in the middle of an update; a connection is closed, and its
descriptor given to another, while a thread waits on it; nobody waits for the threads
when a process ends. `PROJECT.json` lists these
hazards with their lines and the properties about them.

**What makes each component correct.** The sort ends, stays in the list and is
stable. Neighbours in a working chain differ by the write in flight only, and
the chain looks like a single list to its clients. `list_mutex` is held exactly
while a write waits for the rest of the chain; every command is answered,
whatever connections are lost; an OK means that every server has the write, and
retries are bounded. A server never misses a change of the chain, never
forwards up the chain, and its start ends. While the membership changes, a server
has executed whatever the servers behind it have, and a write that was answered is
where the chain carried it. A server gives back every place, keeps its limit, answers
every peer, drops none without a reason of its own, and ends on SIGINT. A client ends up
connected to the chain as it is, loses no connection and gets an answer.

## 2. Modules

* **`CarList`** - the list as a sequence of cars and each function of `list.c` as an
  operator, then requests, replies and the handlers of `list_skel.c`:
  `HandleList(l, req)` is the list and `HandleReply(l, req)` the reply the handler
  leaves. A car has a model, a year and a brand; price and fuel are
  carried but never looked at. `list_order_by_year` is the *stable order by year*
  as one operator. No operator is RECURSIVE.
* **`BubbleSort`** - the loop of `list_order_by_year`, one step per turn. Its run
  shows that it computes the operator of `CarList`.
* **`ChainForward`** - `N` servers with fixed membership. A connection with its thread
  is `idle -> request -> (forward <-> await) -> reply -> idle`: `request` waits for
  `list_mutex`, `forward` is at the head of the loop of `zk_forward`,
  `await` blocks in `network_send_receive`. `owner[s]` is `list_mutex`. `Invoke` is
  lock, handler and, if nothing is forwarded, unlock; each outcome of
  `zk_forward` is an action: last server (`ForwardNothing`), successor but no
  connection (`ForwardUnconnected`), a request goes out (`ForwardSend`), OK
  (`ForwardOk`), the first and the second failure (`ForwardRetry`,
  `ForwardFail`). The client's own connections and `Link`, the
  predecessor's, follow the same actions. `successor[s]` says that
  `zk_state.successor` is not NULL; `UpdateChain` loses or finds it again. `applied`
  is a history variable: how often each server executed each write.
* **`AtomicList`** - what `client_stub.h` promises: one list, every command takes
  effect at one instant between its call and its return.
  `ChainForward!Linearizable` is the refinement, with a mapping: the list is the
  tail's; a write takes effect when the tail executes it.
* **`ChainTopology`** - the znodes under `/chain` with one-shot watches, and per
  server: how far `main` is (`life`), its two threads inside
  `zk_update_chain_internal` with its local variables (`thread`), and the fields
  of `zk_state` an update writes (`zk`). The five steps of an update are the
  places between which another process or thread can act: the watch is set
  (`SetWatch`), children read (`ReadChain`), successor connected (`Connect`),
  predecessor's address read (`FindPredecessor`), and everything written under
  `zk_mutex` (`Commit`); `CallFails` and `AddressFails` are its error paths. Znodes
  are named by their sequence numbers, so the order of `qsort` on the paths is the
  order of the numbers. `zk_sync` is the one step `Sync`/`SyncFails`: what it
  copies is in `ChainSystem`.
* **`ChainSystem`** - the two before composed, at a coarser grain: a list is the set
  of writes executed on it, every write an add, and an update two steps (`BeginUpdate`
  reads the chain, `Commit` connects and writes `zk_state`). In exchange servers join
  and copy (`Join`, `Copy`, `CopyFails`, `SyncFails`, `Listen`), crash, lose
  their sessions, and end because of each other. `work[s]` is `invoke` with
  `list_mutex`: `forward -> await -> ok | error`, or `lost` when the connection was
  replaced during the wait and `NoReply` or `ReadElsewhere` follows; `inbox[s]`
  are the requests that wait for the mutex. `Unanswered` stands for the NULL of
  `network_send_receive`, which `zk_forward` dereferences: the process ends (`NoReply`).
  `astray` and `reach` are history: the writes a client sent to
  a server that was not the first, and the servers a write can be expected at.
* **`NetworkServer`** - one server towards its peers. `main` is where the main thread is,
  from `network_server_init` through the loop
  `accept -> count -> ready -> connected -> create` to the four steps of the exit handler;
  `conn[c]` is the connection as the server sees it, queued, accepted, or where
  `serve_client` is with it; `peer[c]` is the other end. `Interrupt` and
  `ShutDown` are the two steps of the signal handler, which any thread may take.
  A failure is either of a kind the peer causes by leaving
  (`ReceiveFails`, `SendFails`, `SendReadyFails`) or of one it has no part in, within `MaxFaults`:
  no memory, no thread, a request that cannot be unpacked, a reply above 65535 bytes (`ReceiveError`,
  `SendError`, `SendReadyError`, `CreateFails`); `failed` are the connections the latter were about.
  `CloseSession` is `cleanup_zk_state`: `zookeeper_close` asks for the end of the session, if there is
  a connection to ask on, and does not wait. When the znode goes, and when the predecessor
  stops forwarding, is `Close` of `ChainTopology` and `ChainSystem`. The list is not in it.
* **`ClientZk`** - one client. `thread` has both threads of the client, which run the same
  `connectToHead` and `connectToTail` (`SemWait`, `GetFails`, `Refused`, `Accepted`,
  `Handshake`); `rlist` has the two pointers, `sock[f]` what the descriptor `f` is
  connected to, `command` the command under way with the descriptor it holds. The lowest
  free descriptor is used next, as the operating system does, so `mine` says whether
  the descriptor still is the connection the command began with. The servers are
  reduced to what a client sees: `life` and `znodes`.
* **`CarListProofs`, `BubbleSortProofs`, `ChainForwardProofs`, `ChainWriteProofs`,
  `ChainTopologyProofs`, `NetworkServerProofs`, `ClientZkProofs`, `ChainSystemProofs`** - proofs.
* **`MCBubbleSort`, `MCChainForward`, `MCChainTopology`, `MCNetworkServer`,
  `MCClientZk`, `MCChainSystem`** - instances for TLC.

Operators whose comment begins with "Mutant" are variants a plausible bug would
produce; no specification uses them. `PROJECT.json` names the property each
of them breaks.

## 3. Runs

| Run | Question | Instance | States |
|---|---|---|---|
| `bubble_sort` | Does the sort end, stay in the list, and sort stably? | all lists of up to 4 cars, 2 models, 3 years | 15 058 |
| `steady` | Is a working chain one list? `ReplicasInStep`, `Linearizable` | 3 servers, 2 clients, 3 commands, reads and writes | 33 766 |
| `broken` | What survives lost connections and the ordered list? `MutexHeldDownChain`, `OkMeansEverywhere`, `RetryBound`, `ModelsInStep`, `CommandsReturn` | 3 servers, 2 clients, 3 commands, 2 changes of a connection | 124 336 |
| `topology` | Is a change ever missed? Cycles? Does a start end, do views settle? | 2 servers, 2 faults | 64 638 |
| `connections` | Is the counter right and the limit kept, is everybody answered, does SIGINT end the server? `CounterIsRight`, `LimitKept`, `OneMoreRequest`, `DroppedForAReason`, `SlotsComeBack`, `Answered`, `StopEnds` | 2 peers, 1 place, 1 failure | 38 819 |
| `client` | Does a client follow the chain, keep its connections, return from commands, end? `NothingLost`, `FollowsChain`, `QuitEnds`, `CommandsReturn` | 1 server that serves, 1 that joins, 1 fault | 332 115 |
| `system` | Who has a write when servers join, crash and lose each other? `SuccessorsBehind`, `OkMeansReached`, `WritesEnd` | 2 servers that serve, 1 that joins, 2 writes, 1 fault | 297 525 |
| `order_head_only`, `error_discards`, `add_once`, `stale_view`, `sync_skipped` | one documented claim each that the code does not keep | 2 or 3 servers | stop at the counterexample |

**Bounds, and why they are enough.** Three servers give a head, a middle and a tail,
the three roles of `zk_role_t`; the middle is the only server that both receives
and forwards, and with it retries multiply. Two clients suffice
to contend for a mutex, and three commands let a write, a conflicting write and a
read overlap. Two cars of one model and of different years are the smallest
case in which sorting one replica changes what a remove does; `WritesAndOrder` and
`WritesAndReads` are the requests of those two kinds of run. Two changes of a connection lose and find one
again, or lose two. In `ChainTopology` two processes show every role pair;
with three and no fault there are about 700 000 states, which the
violation runs enter only as far as they need to (they use three servers, since an
older and a newer view need a third server to differ). What two servers could
hide, namely the choice of the nearest of several neighbours, is covered for every
number of servers by the proofs of section 5. `MaxFaults` bounds crashes, expired
sessions and failing calls together; `MaxCommands`, `MaxUpdates`, `MaxServers`
and `MaxLen` are the other bounds, all named in their modules.

In `NetworkServer` one place and two peers make every peer compete: a connection is
compared with the limit while another one ends, is refused, or fails to get its thread. Three
peers and two places have about a million states; what they would add to the safety
properties is covered by the proofs for any number. In `ClientZk` one server serves
and one joins, so that head and tail are one server or two, in either order, and
either may leave; four descriptors hold both connections and two that were
lost. In `ChainSystem` the third server is the one that joins behind a working pair; two
writes let one be under way while the other waits, is answered or is copied; and one fault
is a crash, an expired session, a given-up successor, a failed copy or a write
sent to a server that is not the first. The invariants of `system` were also
checked with two faults (2.6 million states), which is more than
a run should take. `MaxWrites`, `Conn`, `Fd`, `Server` and `MaxFaults` are the bounds.

**Deadlock.** `CHECK_DEADLOCK FALSE` is set everywhere since every instance can
stop for a good reason: clients have issued their commands, the sort has returned,
no server starts or leaves any more. Threads that wait for each other would
show as a violation of `CommandsReturn`, `StartupEnds` or `Settles`.

**Fairness.** Threads are scheduled and replies travel on open TCP connections:
weak fairness for `Serve` of every thread, and for `Receive`, as `list_client.c`
blocks for its answer. For two threads that wait for one `list_mutex`, weak
fairness is enough here: commands are bounded, so the mutex is not taken
from a waiting thread for ever. In `ChainTopology`: weak fairness for the threads of
a process (`Startup`, `UpdateThread`), for the delivery of events
(`ChainWatcher`) and for the end of the session of a process that is gone (`Close`;
ZooKeeper's session timeout). Nothing is assumed of clients, of servers that
could register, or of faults.

In `NetworkServer`: the main thread, the signal handler once the signal has come, and every
connection thread go on, but no peer has to ask for anything (`Receive` is not
fair), to leave, or to connect, and no failure has to happen. A
forwarded request is answered or its connection breaks, which is what `WritesEnd`
of `ChainSystem` is about. In `ClientZk`: both threads of the client go on, and a
server that is up answers; nobody has to join, to leave, or to type a command.
In `ChainSystem`: the threads of every process, and the end of the session of a
process that is gone.

## 4. What the code does not keep

Five runs end in a counterexample; `PROJECT.json` quotes the lines.

1. `order_head_only`: `get_list_ordered_by_year` sorts the head's list in place
   (`list_skel.c:143`) and is not forwarded. The replicas differ from then on, and
   a remove by model can remove different cars on different servers. `ModelsInStep`
   is what remains true: the same number of cars of each model.
2. `error_discards`: a write whose forward failed is answered with an error, but
   stays in the lists that executed it (`list_skel.c:248-251`), while the client
   prints that all operations were discarded (`list_client.c:328`).
3. `add_once`: `zk_forward` sends a message again after an error reply; a
   middle server that had executed it executes it twice, and the client may
   then see OK. `RetryBound` says how far this goes.
4. `stale_view`: during the start of a server its main and its update thread both
   run an update; the older snapshot can be committed last, and no event
   follows to correct it.
5. `sync_skipped`: when the predecessor's address cannot be read (its znode
   vanished meanwhile), `zk_sync` takes the server for the head and leaves its list
   empty, though other servers are before it.

What else a reader of the code should know, without a run of its own, because no
line of the repository claims the opposite or because it is plain from the code:

* `ChainSystem`: `zk_forward` dereferences the missing reply of a successor that
  died, so a crash spreads up the chain (`NoReply`). A write that the old tail
  answered between the copy of a new server and its own update is missing at the new tail.
  A copy that fails counts as an empty list (`CopyFails`). Every change of the membership
  replaces the connection to the successor, also of servers it does not
  concern, and a server that waits on the old one ends, or reads on from another
  connection with `list_mutex` held and blocks its clients (`stuck`). A head whose session
  has expired goes on answering writes; `SuccessorsBehind` and `OkMeansReached`
  therefore speak of servers that are in the chain.
* `ClientZk`: the first and the last of `zoo_get_children` are taken for head and tail,
  though ZooKeeper does not sort them and the servers do. A client that quits
  within the two seconds `watcher` sleeps waits for ever (`Deadlock`). A client that starts
  while the chain changes may leave two connections open. A command whose connection
  `watcher` closes may read the handshake of the next one (`HandshakeTaken`,
  `elsewhere`). `connectToZookeper` looks at `children` before it knows
  whether `zoo_get_children` has filled it.
* `NetworkServer`: `network_server.h:51` says that the shutdown unblocks `accept` and
  `read`, but a thread in `read` stays there until its peer leaves or the
  process ends, and serves one more request (`OneMoreRequest`). The 200 ms of the exit handler are no
  guarantee that the threads are done: they may use the successor, the log, `zk_mutex` or the list after
  they are gone (`UseFreedSuccessor`, `UseDestroyed`), and the predecessor may go on forwarding to them, since
  the end of the session is not waited for either. No property speaks of it: the code has nothing that
  would keep one. After a failed send the request is
  freed twice. The listening socket is closed twice after a signal.
* `rlist_remove_by_model` is documented to return 1 if there is no such car
  (`client_stub.h`), but a server answers that case with an error, and the function
  returns -1. `rlist_order_by_year` uses the array of cars of a reply that
  may have none.

## 5. Proofs

All hold for every value of the constants; the assumptions are `CarListAssumption`,
`MaxLenAssumption`, `ChainAssumption`, `TopologyAssumption`, `ConnectionsAssumption`, `ClientAssumption` and
`SystemAssumption` (non-empty sets of
attributes, years that are integers, at least one server, a finite set of connections, at least
one place, natural bounds, NULL is no server).

* **`CarListProofs`**: ranks, first elements, the number of cars of a model before and after
  each operation (`AddModels`, `RemoveModels`, `OrderModels`), and `HandleListType`: every handler
  turns a list of cars into a list of cars.
* **`BubbleSortProofs`**
  * `TypeCorrect`: `Spec => []TypeOK`.
  * `SortTheorem`: `Spec => []SortsStably`, for a list of any length: the loop returns the list
    `ListOrderByYear` describes, which `ChainForward` takes for the call. The
    invariant (`SortInv`) says that the cars are those of the input, rearranged so that cars of one
    year keep their order, and that a pass without a swap has seen an ordered list
    as far as it got. A list that is ordered, stable and a rearrangement has every car at its
    rank (`YearRank`), which counts cars and needs no induction.
* **`ChainForwardProofs`**
  * `TypeCorrect`: `Spec => []TypeOK`.
  * `MutexTheorem`: `Spec => []MutexHeldDownChain`. The property is inductive with
    `TypeOK` and has four parts that need each other: the threads in `forward`
    or `await` are the holders; there is one at most; the `Link` thread of
    the next server is busy exactly while somebody waits for it; and it works on the
    write that is awaited.
  * `InStep`: `Steady => (Spec => []ReplicasInStep)`, where `Steady` says that
    nobody asks for the ordered list and no connection changes. "Neighbours differ by the
    write in flight" is not inductive: a server that answered with an error would
    leave its predecessor ahead for ever. The invariant adds that every server
    but the tail is connected, that all replies to a `Link` are OK, and that a
    write under way will succeed - a remove the predecessor executed finds its car,
    since the lists agree up to that write. On a state of the chain at
    most one thread of a server is ahead, by `MutexHeldDownChain`.
  * `ModelsTheorem`: `Spec => []ModelsInStep`, with the ordered list. It is the same argument with
    another relation between the lists of neighbours, the same number of cars of each model
    in place of equality: `InStepInv(R)` and its lemmas are stated for a relation `R` of
    lists that every write preserves and under which a remove finds a car in both lists or in none.
    The ordered list changes the head alone and is related to what it was (`HeadRearranged`).
* **`ChainWriteProofs`**
  * `OkTheorem`: `Spec => []OkMeansEverywhere`. The invariant (`Promises`) follows an OK up
    the chain: the thread that is about to answer with OK has a promise of every server
    from its own on, and a `Link` thread hands its promise to the thread that awaits it,
    which by `MutexTheorem` works on the same write. A retry after an error starts without one.
  * `RetryTheorem`: `Spec => []RetryBound`. `Steps` reduces the actions to six kinds of change of
    one or two connections, and the invariant has a part for each reason: a command
    has a number of its own (`IdInv`), so the head sees it once (`HeadInv`); the attempt
    that is under way bounds what the successor can have executed so far (`BoundInv`);
    every server above one that works on a write waits for it (`AboveInv`), so that nobody
    can send it again once the tail has executed it and answers OK (`DoneInv`). That
    server number s executes a write up to 2^s times follows by induction on s, which is not proved.
  * `OneListTheorem`: `Steady => (Spec => OneList!Spec)`, the refinement `Linearizable` without its
    fairness: every step of the chain is a step of `AtomicList` under the mapping of `ChainForward`,
    or a stutter. `SteadySteps` leaves the six steps of a chain on which nothing is lost and
    nothing fails; a lemma for each (`SendsSeen`, `WritesSeen`, ...) says what the clients see of it.
    The invariant (`SteadyInv`) adds two parts: a command number names one request wherever it
    has got to (`CommandInv`), so that the write the tail executes is that of the client that waits at
    the head (`WaitingClient`), and a client is busy at one end only, with no answer but OK until its
    command has taken effect (`ClientInv`). `Reached` says that what is on its way back was executed by
    the tail, which is where the mapping switches from called to done; `LevelLists`, that all lists
    are the same when the mutex of the head is free, so that a remove refused there would be refused
    by the tail. With `get_list_ordered_by_year` the lists are not the same (`order_head_only`).
* **`ChainTopologyProofs`**
  * `TopologyTypeCorrect`: `Spec => []TypeOK`.
  * `ViewTheorem`: `Spec => []ViewIsCurrent`. `ViewIsCurrent` speaks of servers at
    rest; the invariant (`Knows`) follows an update step by step: after the watch is
    set, *either* it is still set and what was read is the chain as it is, *or*
    news is on its way (an undelivered event, or `update_pending`). The order of
    the code, watch before read and clear before update, is what keeps it.
  * `DownTheorem`: `Spec => []ForwardsDown`; the invariant adds the successor in
    the local variables of an update.

* **`NetworkServerProofs`**
  * `TypeCorrect`: `Spec => []TypeOK`; that the counter is a natural number needs `CounterIsRight`.
  * `CounterTheorem`: `Spec => []CounterIsRight`: the counter is the number of connections
    that have a thread or are about to get one.
  * `LimitTheorem`: `Spec => []LimitKept`. The comparison with
    `MAX_CLIENTS` and the increment are two steps with READY in between, and threads
    decrement at any time. The invariant says why that is enough: only the main
    thread counts up, and from the comparison on it holds one connection
    (`ClientInv`) and the counter is below the limit (`CountInv`); a peer is told READY or BUSY
    only after the comparison (`StatusInv`). So the connections that were told READY
    are the counted ones and at most the one in the main thread's hands.
  * `OneMoreTheorem`: `Spec => []OneMoreRequest`, with what a thread can still do
    after the signal (`LateInv`).
  * `ReasonTheorem`: `Spec => []DroppedForAReason`. The reasons stay once they are there: a peer
    that has left, a connection that failed, an answer BUSY. The one way to end a connection without any
    of them is the check of `server_running`, and the signal handler clears that before it closes the
    socket under the peers that wait (`ReasonInv`, with `StatusInv` for who waits).
* **`ClientZkProofs`**
  * `TypeCorrect`: `Spec => []TypeOK`. That the semaphore is binary needs to know who holds it
    (`SemInv`), that a descriptor is one needs who has it (`FdInv`).
  * `LostTheorem`: `Spec => []NothingLost`. A connection is lost when `connectToHead` or `connectToTail`
    overwrites a pointer that is not NULL. The invariant counts: `Spent` are the ends that no
    thread will connect while the pointer is set, and the lost connections are as many as the spent
    ends at most (`LostInv`). An attempt either loses nothing or spends its end, and an end that both
    threads are still going to connect has no connection. Without an overlap of `watcher` and
    the start there is never one to overwrite (`AloneInv`).
  * `FollowsTheorem`: `Spec => []FollowsChain`. There is one watch, set, fired or about to
    be set again (`WatchInv`), unless a call failed (`HearsInv`). While it is set, the chain is what the
    last reading found, so each pointer and each connection under way leads to a server of the chain
    (`FreshInv`) - except for a client whose chain was empty while it started: that one keeps a pointer
    to a server that is gone, and the invariant (`Emptied`, `Doomed`) follows it to its exit in
    `CheckConnected`.
  * `DescriptorTheorem`: a thread that connects always finds a free descriptor, so that `Fd`, of
    four, is no bound: the count of `LostInv` gives three open connections at most.
* **`ChainSystemProofs`**
  * `TypeCorrect`: `Spec => []TypeOK`.
  * `BehindTheorem`: `Spec => []SuccessorsBehind`. The property speaks of lists, and what keeps it
    is the order of the chain. Znodes are sequential, so whoever read the chain sees
    every server up to the last it sees (`UpdateInv`), however old the reading is; hence nobody of the
    chain stands between a server and the one it is connected to (`LinkInv`), nor between a
    new server and the one it copies (`CopyInv`). A request that waits at a server
    was executed by all before it (`InboxInv`), because its sender executed it first
    (`WorkInv`). Servers that have not started have nothing (`OffInv`), and are behind all others.
    `ListInv` is the property, also for servers that do not listen yet.
  * `ReachedTheorem`: `Spec => []OkMeansReached`. `reach[w]` is fixed when the entry server executes
    the write, and the connections change after that. A second invariant on top of the first says where
    the write gets to all the same. `Below(s)`, the servers down the connections, is a line in which
    nobody of the chain is left out (`BelowLine`, `BelowFilled`). Each server of `reach[w]` with
    another of them behind it in the chain has one of them for its successor, in its view and in the
    update under way (`Sees`, `ReachOf`): of a reading that is older than the write this needs that
    the servers it did not find were gone and lead to nobody it found (`ReadInv`). So the write
    passes nobody by (`PathInv`); a server about to answer OK has the promise of all behind it, the last by
    finding no successor, the others from the reply of a server adjacent to them (`PromiseInv`,
    `TargetInv`); and who joins after the answer either fails to copy or finds the write (`OkInv`).
    A client sends its write once, so that it enters in one place (`FreshInv`). The parts were
    checked by TLC on the constants of `system` and on four servers with two faults first.

Left to TLC: liveness (`SortTerminates`, `CommandsReturn`, `StartupEnds`,
`Settles`, `SlotsComeBack`, `Answered`, `StopEnds`, `QuitEnds`, `WritesEnd`), and the fairness of
`Linearizable`, whose safety part is `OneListTheorem`: both need ENABLED. What a recursive
definition computes would need induction over data, which the provers at hand cannot
instantiate; no module proved about has one, and the sort is proved from the invariant of its loop.

## 6. Not modelled, and why

* Failing allocations (but for those `NetworkServer` names), malformed requests (a request that cannot
  be unpacked ends its connection in `NetworkServer`), the freeing
  of memory, the parsing and printing of commands, the lines of the log.
* The conversion between cars and protocol buffers (`message.c`, `sdmessage.pb-c.c`): it has no
  state, and what it does to a value no property tells apart. The limit of 65535 bytes of a
  message is a failing send with the peer still there (`SendError`) and a copy that fails (`CopyFails`).
* `ChainForward` has no crashes, joins or swap of a connection in use, and its
  clients' connections go to the real head and tail; `ChainTopology` has no lists.
  `ChainSystem` has all of these, without reads, removes and the order of a list, and
  with the update of the server as two steps.
* A process that restarts on its port finds its old znode, with its own address, in
  front of it until the old session ends. Every process has its own address here: with shared
  ones a server is its own predecessor and copies from itself, which depends on
  whether it listens yet and changes every module of the chain.
* `ClientZk` has no server that serves while its znode is gone: an expired server goes on answering, and a
  client that is connected to it notices nothing before it reads the children again (`Expire` of
  `ChainSystem` has the servers' side).
* `invoke` returns in `NetworkServer` (`Fairness`). A thread that is blocked in `zk_forward` for good,
  `stuck` in `ChainSystem`, keeps its place until the process ends; SIGINT ends the process all the same.
* The sleeps of the code are steps that may take any time. A failing
  ZooKeeper call in `zk_connect` or `zk_register` is a process that never joined.
* `list_skel_init`, `list_create` and `list_destroy` have no state but the list.
* The window between `fclose` and `log_fp = NULL` in `network_server_close` is
  the whole time after it in `NetworkServer` (`log = "closed"`), which allows more.

## 7. Plan

1. `CarList`, `ChainForward`, `AtomicList`: the data, forwarding, what it implements. *(done)*
2. `BubbleSort`, `ChainTopology`. *(done)*
3. Proofs of types, of the mutex, of replicas in step, of the view and of
   forwarding without cycles. *(done)*
4. `ChainSystem`: joins with `zk_sync`, crashes and writes together. *(done)*
5. `ClientZk`: watcher, semaphore, the choice of head and tail, the end of the client. *(done)*
6. `NetworkServer`: accept loop, the limit, failing sends, shutdown; its proofs. *(done)*
7. `OkMeansEverywhere` and `RetryBound` for any chain, `SuccessorsBehind` for any number of
   servers and faults; `ModelsInStep`, the sort, the counter and the client; `OkMeansReached`, the
   safety part of the refinement to `AtomicList`. *(done)*
8. Shared addresses of a restarted server in `ChainTopology`.
