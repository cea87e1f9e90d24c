--------------------------- MODULE ChainTopology ---------------------------
(***************************************************************************)
(* How a server finds its place in the chain: source/zk_server.c with      *)
(* source/zk_util.c and the start of a server in source/list_server.c.     *)
(*                                                                         *)
(* ZooKeeper holds one ephemeral, sequential znode per server under        *)
(* /chain; the servers in the order of their sequence numbers are the      *)
(* chain.  A watch on the children of /chain fires once, at the next       *)
(* change; chain_watcher then sets update_pending for the update thread.   *)
(* Two threads run zk_update_chain_internal: the main thread while the     *)
(* server starts, and the update thread for as long as it lives.           *)
(*                                                                         *)
(* A server process is named by the sequence number of its znode; it starts*)
(* once, at an address of its own.  The lists are not in this module:      *)
(* `synced` only remembers that zk_sync copied one.                        *)
(***************************************************************************)
EXTENDS Integers, FiniteSets

CONSTANTS
    MaxServers,     \* bound: server processes that ever start
    MaxFaults       \* bound: failures and crashes together

ASSUME TopologyAssumption ==
    /\ MaxServers \in Nat
    /\ MaxFaults \in Nat

Server == 1..MaxServers
NULL == 0               \* no address, no connection
Thread == {"main", "update"}

VARIABLES
    znodes,     \* the servers with a znode under /chain
    watch,      \* watch[s]: a watch of s on the children of /chain is set
    events,     \* events[s]: child events on their way to chain_watcher
    life,       \* life[s]: how far the main thread of s is
    thread,     \* thread[s][t]: t in zk_update_chain_internal, its locals
    zk,         \* zk[s]: the fields of zk_state the updates are about
    synced,     \* synced[s]: zk_sync copied the list of a predecessor
    overlapped, \* history: both threads of s were in an update at once
    failures,   \* ZooKeeper calls that have failed
    crashes     \* processes that have crashed, sessions that have expired

vars == <<znodes, watch, events, life, thread, zk, synced,
          overlapped, failures, crashes>>

\* The local variables of zk_update_chain_internal, in the order it sets them.
Update ==
    [pc : {"wait", "watch", "read", "connect", "predecessor", "commit"},
     nodes : SUBSET Server, successor : Server \cup {NULL},
     predecessor : Server \cup {NULL}]

NoUpdate == [pc |-> "wait", nodes |-> {}, successor |-> NULL,
             predecessor |-> NULL]

ZkState ==
    [pending : BOOLEAN, nodes : SUBSET Server,
     successor : Server \cup {NULL}, predecessor : Server \cup {NULL}]

NoZkState == [pending |-> FALSE, nodes |-> {}, successor |-> NULL,
              predecessor |-> NULL]

Life == {"off", "update", "sync", "ready", "down"}

Init ==
    /\ znodes = {}
    /\ watch = [s \in Server |-> FALSE]
    /\ events = [s \in Server |-> 0]
    /\ life = [s \in Server |-> "off"]
    /\ thread = [s \in Server |-> [t \in Thread |-> NoUpdate]]
    /\ zk = [s \in Server |-> NoZkState]
    /\ synced = [s \in Server |-> FALSE]
    /\ overlapped = [s \in Server |-> FALSE]
    /\ failures = 0
    /\ crashes = 0

-----------------------------------------------------------------------------
(* zk_get_sorted_chain_nodes: the chain is the znodes by sequence number.   *)

Before(S, s) == {r \in S : r < s}
After(S, s) == {r \in S : r > s}

\* Mutant: the paths are sorted the other way round.
SuccessorInReversed(S, s) ==
    IF Before(S, s) = {} THEN NULL
    ELSE CHOOSE r \in Before(S, s) : \A q \in Before(S, s) : r >= q

SuccessorIn(S, s) ==
    IF After(S, s) = {} THEN NULL
    ELSE CHOOSE r \in After(S, s) : \A q \in After(S, s) : r <= q

PredecessorIn(S, s) ==
    IF Before(S, s) = {} THEN NULL
    ELSE CHOOSE r \in Before(S, s) : \A q \in Before(S, s) : r >= q

-----------------------------------------------------------------------------
(* ZooKeeper.  A change of the children fires the watches that are set.     *)

Fire(watches) ==
    /\ watch' = [s \in Server |-> FALSE]
    /\ events' = [s \in Server |-> IF watches[s] THEN events[s] + 1 ELSE events[s]]

\* zk_connect and zk_register: the update thread waits, the znode exists, and
\* main calls zk_update_chain.
Register(s) ==
    /\ life[s] = "off"
    /\ \A r \in Server : r < s => life[r] # "off"
    /\ znodes' = znodes \cup {s}
    /\ Fire(watch)
    /\ life' = [life EXCEPT ![s] = "update"]
    /\ thread' = [thread EXCEPT ![s]["main"].pc = "watch"]
    /\ UNCHANGED <<zk, synced, overlapped, failures, crashes>>

Running(s) == life[s] \notin {"off", "down"}

\* The process ends; its znode stays until the session ends as well.
Stop(s) ==
    /\ life' = [life EXCEPT ![s] = "down"]
    /\ watch' = [watch EXCEPT ![s] = FALSE]
    /\ events' = [events EXCEPT ![s] = 0]
    /\ thread' = [thread EXCEPT ![s] = [t \in Thread |-> NoUpdate]]
    /\ zk' = [zk EXCEPT ![s] = NoZkState]
    /\ synced' = [synced EXCEPT ![s] = FALSE]
    /\ overlapped' = [overlapped EXCEPT ![s] = FALSE]
    /\ UNCHANGED znodes

Crash(s) ==
    /\ Running(s)
    /\ failures + crashes < MaxFaults
    /\ crashes' = crashes + 1
    /\ Stop(s)
    /\ UNCHANGED failures

\* The znode of s is removed, which its own watch does not see.
SessionEnds(s) ==
    /\ s \in znodes
    /\ znodes' = znodes \ {s}
    /\ Fire([watch EXCEPT ![s] = FALSE])
    /\ UNCHANGED <<life, thread, zk, synced, overlapped, failures>>

\* The session of a process that is gone, closed or timed out.
Close(s) ==
    /\ life[s] = "down"
    /\ SessionEnds(s)
    /\ UNCHANGED crashes

\* The session of a running process: connection_watcher clears `active`, the
\* update thread starts no other update, and the server keeps its clients.
Expire(s) ==
    /\ Running(s)
    /\ failures + crashes < MaxFaults
    /\ crashes' = crashes + 1
    /\ SessionEnds(s)

-----------------------------------------------------------------------------
(* Updates of the topology. *)

\* chain_watcher.
ChainWatcher(s) ==
    /\ events[s] > 0
    /\ events' = [events EXCEPT ![s] = @ - 1]
    /\ zk' = [zk EXCEPT ![s].pending = TRUE]
    /\ UNCHANGED <<znodes, watch, life, thread, synced, overlapped,
                   failures, crashes>>

Active(s) == s \in znodes

\* zk_update_thread: an update begins, update_pending is cleared first.
BeginUpdate(s) ==
    /\ Running(s) /\ Active(s)
    /\ thread[s]["update"].pc = "wait"
    /\ zk[s].pending
    /\ zk' = [zk EXCEPT ![s].pending = FALSE]
    /\ thread' = [thread EXCEPT ![s]["update"].pc = "watch"]
    /\ overlapped' = [overlapped EXCEPT
                        ![s] = @ \/ thread[s]["main"].pc # "wait"]
    /\ UNCHANGED <<znodes, watch, events, life, synced, failures,
                   crashes>>

\* zk_update_chain_internal returns -1: the update thread waits for the next
\* event, the main thread leaves `main`.
GiveUp(s, t) ==
    IF t = "main"
    THEN Stop(s)
    ELSE /\ thread' = [thread EXCEPT ![s][t] = NoUpdate]
         /\ UNCHANGED <<znodes, watch, events, life, zk, synced,
                        overlapped>>

\* A call of ZooKeeper fails: the session is over, or the connection is lost.
CallFails(s, t) ==
    /\ thread[s][t].pc \in {"watch", "read"}
    /\ IF Active(s)
       THEN failures + crashes < MaxFaults /\ failures' = failures + 1
       ELSE UNCHANGED failures
    /\ GiveUp(s, t)
    /\ UNCHANGED crashes

\* Mutant: no watch is set again.
SetWatchOnce(s, t) ==
    /\ thread[s][t].pc = "watch"
    /\ Active(s)
    /\ watch' = [watch EXCEPT ![s] = t = "main"]
    /\ thread' = [thread EXCEPT ![s][t].pc = "read"]
    /\ UNCHANGED <<znodes, events, life, zk, synced, overlapped,
                   failures, crashes>>

\* zoo_wget_children; what it returns is not looked at.
SetWatch(s, t) ==
    /\ thread[s][t].pc = "watch"
    /\ Active(s)
    /\ watch' = [watch EXCEPT ![s] = TRUE]
    /\ thread' = [thread EXCEPT ![s][t].pc = "read"]
    /\ UNCHANGED <<znodes, events, life, zk, synced, overlapped,
                   failures, crashes>>

\* zk_get_sorted_chain_nodes and zk_find_node_index.
ReadChain(s, t) ==
    /\ thread[s][t].pc = "read"
    /\ Active(s)
    /\ thread' = [thread EXCEPT
                    ![s][t].nodes = znodes,
                    ![s][t].pc = IF SuccessorIn(znodes, s) = NULL
                                 THEN "predecessor" ELSE "connect"]
    /\ UNCHANGED <<znodes, watch, events, life, zk, synced,
                   overlapped, failures, crashes>>

\* The address of the successor and five attempts to connect to it, which
\* fail if it is not listening within some 1.5 seconds.
Connect(s, t) ==
    LET next == SuccessorIn(thread[s][t].nodes, s) IN
    /\ thread[s][t].pc = "connect"
    /\ \E successor \in {next, NULL} :
          /\ successor = next => life[next] = "ready"
          /\ successor = NULL => \/ life[next] # "ready"
                                 \/ next \notin znodes \/ ~Active(s)
          /\ thread' = [thread EXCEPT ![s][t].successor = successor,
                                      ![s][t].pc = "predecessor"]
    /\ UNCHANGED <<znodes, watch, events, life, zk, synced,
                   overlapped, failures, crashes>>

\* The address of the predecessor: none if its znode is gone by now.
FindPredecessor(s, t) ==
    LET prev == PredecessorIn(thread[s][t].nodes, s) IN
    /\ thread[s][t].pc = "predecessor"
    /\ thread' = [thread EXCEPT
                    ![s][t].predecessor =
                       IF prev \in znodes /\ Active(s) THEN prev ELSE NULL,
                    ![s][t].pc = "commit"]
    /\ UNCHANGED <<znodes, watch, events, life, zk, synced,
                   overlapped, failures, crashes>>

\* zoo_get fails although the znode exists: the server goes on without the
\* address.
AddressFails(s, t) ==
    /\ thread[s][t].pc \in {"connect", "predecessor"}
    /\ failures + crashes < MaxFaults
    /\ failures' = failures + 1
    /\ thread' = [thread EXCEPT
                    ![s][t].pc = IF @ = "connect" THEN "predecessor"
                                 ELSE "commit"]
    /\ UNCHANGED <<znodes, watch, events, life, zk, synced, overlapped, crashes>>

\* The main thread has the topology and goes on to zk_sync.
AfterUpdate(s, t) == IF t = "main" THEN "sync" ELSE life[s]

\* Mutant: update_pending is cleared after the update, not before it.
CommitAndClear(s, t) ==
    LET u == thread[s][t] IN
    /\ u.pc = "commit"
    /\ zk' = [zk EXCEPT ![s] = [pending |-> FALSE, nodes |-> u.nodes,
                                successor |-> u.successor,
                                predecessor |-> u.predecessor]]
    /\ thread' = [thread EXCEPT ![s][t] = NoUpdate]
    /\ life' = [life EXCEPT ![s] = AfterUpdate(s, t)]
    /\ UNCHANGED <<znodes, watch, events, synced, overlapped,
                   failures, crashes>>

\* The new topology replaces the old one under zk_mutex.
Commit(s, t) ==
    LET u == thread[s][t] IN
    /\ u.pc = "commit"
    /\ zk' = [zk EXCEPT ![s] = [pending |-> @.pending, nodes |-> u.nodes,
                                successor |-> u.successor,
                                predecessor |-> u.predecessor]]
    /\ thread' = [thread EXCEPT ![s][t] = NoUpdate]
    /\ life' = [life EXCEPT ![s] = AfterUpdate(s, t)]
    /\ UNCHANGED <<znodes, watch, events, synced, overlapped,
                   failures, crashes>>

-----------------------------------------------------------------------------
(* The rest of the start of a server. *)

\* zk_sync, then network_server_init.  Without the address of a predecessor
\* there is nothing to copy.
Sync(s) ==
    /\ life[s] = "sync"
    /\ \/ zk[s].predecessor = NULL
       \/ zk[s].predecessor # NULL /\ life[zk[s].predecessor] = "ready"
    /\ life' = [life EXCEPT ![s] = "ready"]
    /\ synced' = [synced EXCEPT ![s] = zk[s].predecessor # NULL]
    /\ UNCHANGED <<znodes, watch, events, thread, zk, overlapped,
                   failures, crashes>>

\* Mutant: the server tries again until its predecessor listens.
SyncRetries(s) ==
    /\ life[s] = "sync"
    /\ zk[s].predecessor # NULL
    /\ life[zk[s].predecessor] # "ready"
    /\ UNCHANGED vars

\* The predecessor is not listening: `main` returns 1.
SyncFails(s) ==
    /\ life[s] = "sync"
    /\ zk[s].predecessor # NULL
    /\ life[zk[s].predecessor] # "ready"
    /\ Stop(s)
    /\ UNCHANGED <<failures, crashes>>

-----------------------------------------------------------------------------

UpdateStep(s, t) ==
    \/ CallFails(s, t)
    \/ SetWatch(s, t)
    \/ ReadChain(s, t)
    \/ Connect(s, t)
    \/ FindPredecessor(s, t)
    \/ AddressFails(s, t)
    \/ Commit(s, t)

Startup(s) == UpdateStep(s, "main") \/ Sync(s) \/ SyncFails(s)

UpdateThread(s) == BeginUpdate(s) \/ UpdateStep(s, "update")

Next ==
    \E s \in Server :
        \/ Register(s)
        \/ Crash(s)
        \/ Close(s)
        \/ Expire(s)
        \/ ChainWatcher(s)
        \/ UpdateThread(s)
        \/ Startup(s)

Spec == Init /\ [][Next]_vars

\* The threads of a process keep running, ZooKeeper delivers events and ends
\* the sessions of processes that are gone.
Fairness ==
    \A s \in Server :
        /\ WF_vars(Startup(s))
        /\ WF_vars(UpdateThread(s))
        /\ WF_vars(ChainWatcher(s))
        /\ WF_vars(Close(s))

FairSpec == Spec /\ Fairness

-----------------------------------------------------------------------------
(***************************************************************************)
(* Properties.                                                             *)
(***************************************************************************)

TypeOK ==
    /\ znodes \subseteq Server
    /\ watch \in [Server -> BOOLEAN]
    /\ events \in [Server -> Nat]
    /\ life \in [Server -> Life]
    /\ thread \in [Server -> [Thread -> Update]]
    /\ zk \in [Server -> ZkState]
    /\ synced \in [Server -> BOOLEAN]
    /\ overlapped \in [Server -> BOOLEAN]
    /\ failures \in 0..MaxFaults
    /\ crashes \in 0..MaxFaults

\* A server that serves clients and has nothing left to do about the topology.
Quiet(s) ==
    /\ life[s] = "ready" /\ Active(s)
    /\ \A t \in Thread : thread[s][t].pc = "wait"
    /\ ~zk[s].pending
    /\ events[s] = 0

Current(s) ==
    /\ watch[s]
    /\ zk[s].nodes = znodes
    /\ zk[s].predecessor = PredecessorIn(znodes, s)
    /\ zk[s].successor \in {NULL, SuccessorIn(znodes, s)}

\* No change of the chain is missed: the watch is set before the children are
\* read, and update_pending is cleared before an update begins, so a server
\* with nothing left to do knows the chain as it is and will hear of the next
\* change.  It holds while no call of ZooKeeper fails, for a server whose two
\* threads were never in an update at the same time.
ViewIsCurrent ==
    \A s \in Server :
        Quiet(s) /\ failures = 0 /\ ~overlapped[s] => Current(s)

\* The same for the server whose main thread was still in its first update
\* when a change made the update thread begin one.  zk_server.h says that
\* zk_update_chain updates the local view by reading ZooKeeper, and
\* zk_server.c:356 that the state is updated atomically.
ViewIsCurrentAlways ==
    \A s \in Server : Quiet(s) /\ failures = 0 => Current(s)

\* Whatever a server has missed, it forwards to a server that joined later:
\* the connections to successors never form a cycle, so a write, that holds
\* one list_mutex after the other, cannot come back to a server it holds.
ForwardsDown ==
    \A s \in Server :
        zk[s].successor # NULL => zk[s].successor > s

\* What zk_server.h says of zk_sync: it copies the list of the previous node.
\* A server that serves clients, and has servers before it in the chain, has
\* copied a list when it started.
SyncedUnlessHead ==
    \A s \in znodes :
        life[s] = "ready" /\ Before(znodes, s) # {} => synced[s]

\* A server that has begun to start ends up serving clients or down.
StartupEnds ==
    \A s \in Server :
        life[s] \in {"update", "sync"} ~> life[s] \in {"ready", "down"}

\* Once nobody joins or leaves any more, every server comes to know the chain
\* as it is and keeps to it, with the exceptions of ViewIsCurrent.
Settles ==
    <>[](\A s \in Server :
           life[s] = "ready" /\ Active(s) /\ failures = 0 /\ ~overlapped[s]
              => Current(s))

=============================================================================
