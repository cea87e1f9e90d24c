---------------------------- MODULE ChainSystem ----------------------------
(***************************************************************************)
(* The chain while its members change: the writes of list_skel.c and       *)
(* zk_forward, the updates of the topology and zk_sync of zk_server.c, and *)
(* the start of a server in list_server.c, together.                       *)
(*                                                                         *)
(* ChainForward has the lists and a fixed chain, ChainTopology the threads *)
(* and the watches of one server.  Here a list is the set of the writes    *)
(* that have been executed on it, every write is an add, and an update is  *)
(* two steps, the reading of the chain and the commit.  Every commit makes *)
(* a new connection to the successor, the same server or another, and      *)
(* closes the old one, whoever is waiting for a reply on it.               *)
(*                                                                         *)
(* A server is named by the sequence number of its znode.                  *)
(***************************************************************************)
EXTENDS Integers, FiniteSets

CONSTANTS
    MaxServers,     \* bound: server processes that ever start
    Serving,        \* the first of them, that serve from the beginning
    MaxWrites,      \* bound: writes the clients ever ask for
    MaxFaults       \* bound: crashes, expired sessions, failed calls and
                    \* writes sent to another server than the head

ASSUME SystemAssumption ==
    /\ MaxServers \in Nat /\ Serving \in 1..MaxServers
    /\ MaxWrites \in Nat /\ MaxFaults \in Nat

Server == 1..MaxServers
Write == 1..MaxWrites   \* in the order the clients ask for them
NULL == 0
Client == 0

VARIABLES
    life,       \* life[s]: how far the main thread of s is
    znodes,     \* the servers with a znode under /chain
    view,       \* view[s]: what the last commit of s has left in zk_state
    pending,    \* pending[s]: a change of the chain that s has not read
    update,     \* update[s]: the update of s that is under way
    list,       \* list[s]: the writes executed by s, or copied
    inbox,      \* inbox[s]: the requests that wait for list_mutex at s
    work,       \* work[s]: the request that has it
    outcome,    \* outcome[w]: what the client knows of its write
    entry,      \* entry[w]: the server the client waits for
    astray,     \* history: writes sent past a server that is before
    reach,      \* history: reach[w]: the servers connected below entry[w]
                \* when it was executed there, and those that join after it
    faults      \* faults so far

topology == <<znodes, view, pending, update>>
writes == <<outcome, entry, astray, reach>>
vars == <<life, topology, list, inbox, work, writes, faults>>

Life == {"off", "joining", "copied", "ready", "down"}

\* The chain the server knows, the connection to its successor, and the
\* predecessor it copies the list from when it starts.
View == [nodes : SUBSET Server, link : Server \cup {NULL},
         predecessor : Server \cup {NULL}]
NoView == [nodes |-> {}, link |-> NULL, predecessor |-> NULL]

Update == [busy : BOOLEAN, nodes : SUBSET Server]
NoUpdate == [busy |-> FALSE, nodes |-> {}]

\* A request, of a client or of the predecessor, that sends it up to twice.
Request == [from : Server \cup {Client}, id : Write, attempt : 1..2]

\* invoke with the request `from, id, as`; zk_forward is at its `attempt`,
\* `stale` if the connection it waits on has been closed since.
Work ==
    [pc : {"idle", "forward", "await", "lost", "stuck", "ok", "error"},
     from : Server \cup {Client}, id : Write \cup {NULL}, as : 1..2,
     attempt : 1..2, target : Server \cup {NULL}, stale : BOOLEAN]
Idle ==
    [pc |-> "idle", from |-> Client, id |-> NULL, as |-> 1,
     attempt |-> 1, target |-> NULL, stale |-> FALSE]

-----------------------------------------------------------------------------
(* The order of the chain. *)

Before(S, s) == {r \in S : r < s}
After(S, s) == {r \in S : r > s}

\* Mutant: the tail of the chain is taken for the successor.
LastAfter(S, s) ==
    IF After(S, s) = {} THEN NULL
    ELSE CHOOSE r \in After(S, s) : \A q \in After(S, s) : r >= q

SuccessorIn(S, s) ==
    IF After(S, s) = {} THEN NULL
    ELSE CHOOSE r \in After(S, s) : \A q \in After(S, s) : r <= q

PredecessorIn(S, s) ==
    IF Before(S, s) = {} THEN NULL
    ELSE CHOOSE r \in Before(S, s) : \A q \in Before(S, s) : r >= q

Init ==
    LET serving == 1..Serving IN
    /\ life = [s \in Server |-> IF s \in serving THEN "ready" ELSE "off"]
    /\ znodes = serving
    /\ view = [s \in Server |->
                 IF s \in serving
                 THEN [nodes |-> serving, link |-> SuccessorIn(serving, s),
                       predecessor |-> PredecessorIn(serving, s)]
                 ELSE NoView]
    /\ pending = [s \in Server |-> FALSE]
    /\ update = [s \in Server |-> NoUpdate]
    /\ list = [s \in Server |-> {}]
    /\ inbox = [s \in Server |-> {}]
    /\ work = [s \in Server |-> Idle]
    /\ outcome = [w \in Write |-> "none"]
    /\ entry = [w \in Write |-> NULL]
    /\ astray = {}
    /\ reach = [w \in Write |-> {}]
    /\ faults = 0

Fault ==
    /\ faults < MaxFaults
    /\ faults' = faults + 1

Running(s) == life[s] \notin {"off", "down"}

-----------------------------------------------------------------------------
(* The end of a server process, and of its session.  The connections break: *)
(* what its clients have asked is lost, and what it has sent is executed.   *)

Changed(others) ==
    pending' = [s \in Server |->
                  pending[s] \/ (s \in others /\ s \in znodes /\ Running(s))]

Stop(s) ==
    /\ life' = [life EXCEPT ![s] = "down"]
    /\ view' = [view EXCEPT ![s] = NoView]
    /\ pending' = [pending EXCEPT ![s] = FALSE]
    /\ update' = [update EXCEPT ![s] = NoUpdate]
    /\ list' = [list EXCEPT ![s] = {}]
    /\ inbox' = [inbox EXCEPT ![s] = {}]
    /\ work' = [work EXCEPT ![s] = Idle]
    /\ outcome' = [w \in Write |-> IF entry[w] = s THEN "lost" ELSE outcome[w]]
    /\ reach' = [w \in Write |-> IF entry[w] = s THEN {} ELSE reach[w]]
    /\ entry' = [w \in Write |-> IF entry[w] = s THEN NULL ELSE entry[w]]
    /\ UNCHANGED <<znodes, astray>>

Crash(s) ==
    /\ Running(s)
    /\ Fault
    /\ Stop(s)

SessionEnds(s) ==
    /\ s \in znodes
    /\ znodes' = znodes \ {s}
    /\ Changed(Server \ {s})
    /\ UNCHANGED <<life, view, update, list, inbox, work, writes>>

Close(s) ==
    /\ life[s] = "down"
    /\ SessionEnds(s)
    /\ UNCHANGED faults

\* The server goes on with the chain as it knows it.
Expire(s) ==
    /\ Running(s)
    /\ Fault
    /\ SessionEnds(s)

-----------------------------------------------------------------------------
(* A server that joins: zk_register, its first update, zk_sync.             *)

Join(s) ==
    /\ life[s] = "off"
    /\ \A r \in Server : r < s => life[r] # "off"
    /\ life' = [life EXCEPT ![s] = "joining"]
    /\ znodes' = znodes \cup {s}
    /\ Changed(Server \ {s})
    /\ view' = [view EXCEPT ![s] =
                  [nodes |-> znodes', link |-> NULL,
                   predecessor |-> PredecessorIn(znodes', s)]]
    /\ LET pred == PredecessorIn(znodes', s) IN
       reach' = [w \in Write |->
                   IF outcome[w] = "ok" /\ pred # NULL /\ w \in list[pred]
                   THEN reach[w] \cup {s} ELSE reach[w]]
    /\ UNCHANGED <<update, list, inbox, work, outcome, entry, astray, faults>>

\* Mutant: the list is not copied.
CopyNothing(s) ==
    /\ life[s] = "joining"
    /\ life' = [life EXCEPT ![s] = "copied"]
    /\ UNCHANGED <<topology, list, inbox, work, writes, faults>>

\* rlist_get_all takes its turn at the list_mutex of the predecessor.
Copy(s) ==
    LET pred == view[s].predecessor IN
    /\ life[s] = "joining"
    /\ IF pred = NULL THEN UNCHANGED list
       ELSE /\ life[pred] = "ready" /\ work[pred].pc = "idle"
            /\ list' = [list EXCEPT ![s] = list[pred]]
    /\ life' = [life EXCEPT ![s] = "copied"]
    /\ UNCHANGED <<topology, inbox, work, writes, faults>>

\* The predecessor is connected to and the list does not come, for an error or
\* because the predecessor has ended: zk_sync takes that for an empty list.
CopyFails(s) ==
    /\ life[s] = "joining" /\ view[s].predecessor # NULL
    /\ \/ life[view[s].predecessor] = "ready" /\ Fault
       \/ life[view[s].predecessor] = "down" /\ UNCHANGED faults
    /\ life' = [life EXCEPT ![s] = "copied"]
    /\ reach' = [w \in Write |-> reach[w] \ {s}]
    /\ UNCHANGED <<topology, list, inbox, work, outcome, entry, astray>>

\* The predecessor does not listen: main returns 1.
SyncFails(s) ==
    /\ life[s] = "joining" /\ view[s].predecessor # NULL
    /\ life[view[s].predecessor] # "ready"
    /\ Stop(s)
    /\ UNCHANGED faults

\* network_server_init.
Listen(s) ==
    /\ life[s] = "copied"
    /\ life' = [life EXCEPT ![s] = "ready"]
    /\ UNCHANGED <<topology, list, inbox, work, writes, faults>>

-----------------------------------------------------------------------------
(* The update thread: zk_update_chain_internal.                             *)

BeginUpdate(s) ==
    /\ Running(s) /\ s \in znodes
    /\ pending[s] /\ ~update[s].busy
    /\ pending' = [pending EXCEPT ![s] = FALSE]
    /\ update' = [update EXCEPT ![s] = [busy |-> TRUE, nodes |-> znodes]]
    /\ UNCHANGED <<life, znodes, view, list, inbox, work, writes, faults>>

CommitLink(s, link) ==
    /\ view' = [view EXCEPT ![s].nodes = update[s].nodes, ![s].link = link]
    /\ update' = [update EXCEPT ![s] = NoUpdate]
    /\ work' = [work EXCEPT ![s].stale = @ \/ work[s].pc = "await"]
    /\ UNCHANGED <<life, znodes, pending, list, inbox, writes>>

\* The successor listens and has a place, or after five attempts there is no
\* connection.  The old connection is closed in either case.
Commit(s) ==
    LET next == SuccessorIn(update[s].nodes, s)
        reached == next # NULL /\ s \in znodes /\ life[next] = "ready" IN
    /\ update[s].busy
    /\ CommitLink(s, IF reached THEN next ELSE NULL)
    /\ UNCHANGED faults

CommitUnconnected(s) ==
    /\ update[s].busy /\ SuccessorIn(update[s].nodes, s) # NULL
    /\ Fault
    /\ CommitLink(s, NULL)

-----------------------------------------------------------------------------
(* The writes: serve_client, invoke and zk_forward.                         *)

\* The servers a write at s gets to, along the connections as they are.
Below(s) ==
    {r \in Server \ {s} :
       \A S \in SUBSET Server :
          /\ s \in S
          /\ \A q \in S : view[q].link \in S \cup {NULL}
          => r \in S}

\* A client writes to the server it takes for the head, the first of the
\* children when it looked.  zoo_get_children returns them in no order, so that
\* it may be another one, which counts as a fault.
Call(w, s) ==
    /\ outcome[w] = "none" /\ life[s] = "ready"
    /\ \A v \in Write : v < w => outcome[v] # "none"
    /\ outcome' = [outcome EXCEPT ![w] = "called"]
    /\ entry' = [entry EXCEPT ![w] = s]
    /\ IF Before(znodes, s) = {}
       THEN UNCHANGED <<astray, faults>>
       ELSE Fault /\ astray' = astray \cup {w}
    /\ inbox' = [inbox EXCEPT ![s] =
                   @ \cup {[from |-> Client, id |-> w, attempt |-> 1]}]
    /\ UNCHANGED <<life, topology, list, work, reach>>

\* invoke has list_mutex and executes the write.
Execute(s, m) ==
    /\ m \in inbox[s] /\ life[s] = "ready"
    /\ work[s].pc = "idle"
    /\ inbox' = [inbox EXCEPT ![s] = @ \ {m}]
    /\ list' = [list EXCEPT ![s] = @ \cup {m.id}]
    /\ work' = [work EXCEPT ![s] =
                  [Idle EXCEPT !.pc = "forward", !.from = m.from, !.id = m.id,
                               !.as = m.attempt]]
    /\ reach' = IF m.from = Client THEN [reach EXCEPT ![m.id] = Below(s)]
                ELSE reach
    /\ UNCHANGED <<life, topology, outcome, entry, astray, faults>>

Goto(s, pc) == work' = [work EXCEPT ![s].pc = pc]

WorkStep == UNCHANGED <<life, topology, list, writes, faults>>

HasSuccessor(s) == SuccessorIn(view[s].nodes, s) # NULL

ForwardUnconnected(s) ==
    /\ work[s].pc = "forward" /\ HasSuccessor(s)
    /\ view[s].link = NULL
    /\ Goto(s, "error")
    /\ UNCHANGED inbox /\ WorkStep

ForwardNothing(s) ==
    /\ work[s].pc = "forward" /\ ~HasSuccessor(s)
    /\ Goto(s, "ok")
    /\ UNCHANGED inbox /\ WorkStep

ForwardSend(s) ==
    LET r == view[s].link IN
    /\ work[s].pc = "forward" /\ HasSuccessor(s)
    /\ r # NULL
    /\ work' = [work EXCEPT ![s].pc = "await", ![s].target = r,
                            ![s].stale = FALSE]
    /\ inbox' = IF life[r] = "down" THEN inbox
                ELSE [inbox EXCEPT ![r] =
                        @ \cup {[from |-> s, id |-> work[s].id,
                                 attempt |-> work[s].attempt]}]
    /\ WorkStep

\* There is no reply, because the successor is gone or the connection has been
\* closed by an update: the missing reply is looked into, and the process ends.
Unanswered(s) ==
    \/ work[s].pc = "await" /\ life[work[s].target] = "down"
    \/ work[s].pc = "lost"

\* Mutant: the end of the connection is taken for a short read.
NoReplyAwaited(s) ==
    /\ Unanswered(s)
    /\ UNCHANGED vars

NoReply(s) ==
    /\ Unanswered(s)
    /\ Stop(s)
    /\ UNCHANGED faults

\* The descriptor of the closed connection belongs to a client by now: s reads
\* the rest of the reply there, with the list_mutex, and waits.
ReadElsewhere(s) ==
    /\ work[s].pc = "lost"
    /\ Goto(s, "stuck")
    /\ UNCHANGED inbox /\ WorkStep

\* The predecessor p waits for the answer to this request.
Awaited(s, p) ==
    /\ work[p].pc = "await" /\ work[p].target = s
    /\ work[p].id = work[s].id /\ work[p].attempt = work[s].as

\* Mutant: p tries again after every error.
RepliedForEver(p, ok) ==
    IF ok THEN [work[p] EXCEPT !.pc = "ok"]
    ELSE [work[p] EXCEPT !.pc = "forward", !.attempt = @ + 1, !.target = NULL]

\* A reply ends the forwarding at p; after an error it tries once more.
Replied(p, ok) ==
    IF ok THEN [work[p] EXCEPT !.pc = "ok"]
    ELSE IF work[p].attempt = 1
         THEN [work[p] EXCEPT !.pc = "forward", !.attempt = 2, !.target = NULL]
         ELSE [work[p] EXCEPT !.pc = "error"]

Done(s) == work[s].pc \in {"ok", "error"}

AnswerClient(s) ==
    /\ Done(s) /\ work[s].from = Client
    /\ outcome' = [outcome EXCEPT ![work[s].id] = work[s].pc]
    /\ entry' = [entry EXCEPT ![work[s].id] = NULL]
    /\ reach' = IF work[s].pc = "ok" THEN reach
                ELSE [reach EXCEPT ![work[s].id] = {}]
    /\ work' = [work EXCEPT ![s] = Idle]
    /\ UNCHANGED <<life, topology, list, inbox, astray, faults>>

\* The predecessor takes the reply, or the first bytes of it if an update has
\* closed the connection while it was waiting.  Without a predecessor that
\* waits, the reply is lost.
AnswerServer(s) ==
    LET p == work[s].from IN
    /\ Done(s) /\ p # Client
    /\ work' =
         [q \in Server |->
            IF q = s THEN Idle
            ELSE IF q # p \/ ~Awaited(s, p) THEN work[q]
            ELSE IF work[p].stale THEN [work[p] EXCEPT !.pc = "lost"]
            ELSE Replied(p, work[s].pc = "ok")]
    /\ UNCHANGED inbox /\ WorkStep

\* The predecessor is gone, the request is freed twice, and the process may
\* not survive it.
AnswerFails(s) ==
    /\ Done(s) /\ work[s].from # Client
    /\ life[work[s].from] = "down"
    /\ Stop(s)
    /\ UNCHANGED faults

-----------------------------------------------------------------------------

Forward(s) ==
    \/ ForwardUnconnected(s) \/ ForwardNothing(s) \/ ForwardSend(s)
    \/ NoReply(s) \/ ReadElsewhere(s)

Serve(s) ==
    \/ \E m \in inbox[s] : Execute(s, m)
    \/ Forward(s)
    \/ AnswerClient(s) \/ AnswerServer(s) \/ AnswerFails(s)

UpdateThread(s) == BeginUpdate(s) \/ Commit(s)

Startup(s) == Copy(s) \/ SyncFails(s) \/ Listen(s)

Next ==
    \/ \E s \in Server :
          \/ Join(s) \/ Startup(s) \/ CopyFails(s)
          \/ Crash(s) \/ Close(s) \/ Expire(s)
          \/ UpdateThread(s) \/ CommitUnconnected(s)
          \/ Serve(s)
    \/ \E w \in Write, s \in Server : Call(w, s)

Spec == Init /\ [][Next]_vars

\* The threads of every process are scheduled, and ZooKeeper ends the sessions
\* of the processes that are gone.
Fairness ==
    \A s \in Server :
        /\ WF_vars(Startup(s) \/ Close(s))
        /\ WF_vars(UpdateThread(s))
        /\ WF_vars(Serve(s))

FairSpec == Spec /\ Fairness

-----------------------------------------------------------------------------
(***************************************************************************)
(* Properties.                                                             *)
(***************************************************************************)

TypeOK ==
    /\ life \in [Server -> Life]
    /\ znodes \subseteq Server
    /\ view \in [Server -> View]
    /\ pending \in [Server -> BOOLEAN]
    /\ update \in [Server -> Update]
    /\ list \in [Server -> SUBSET Write]
    /\ inbox \in [Server -> SUBSET Request]
    /\ work \in [Server -> Work]
    /\ outcome \in [Write -> {"none", "called", "ok", "error", "lost"}]
    /\ entry \in [Write -> Server \cup {NULL}]
    /\ astray \subseteq Write
    /\ reach \in [Write -> SUBSET Server]
    /\ faults \in 0..MaxFaults

Member(s) == s \in znodes /\ life[s] = "ready"

\* Whatever happens to the chain, a server has executed every write that a
\* server behind it in the chain has, if the clients write to the head:
\* joining, the copy of the list and the change of the successor keep it.
SuccessorsBehind ==
    \A s, r \in Server :
        s < r /\ Member(s) /\ Member(r) => list[r] \ astray \subseteq list[s]

\* A write that is answered OK is at every server that is still in the chain
\* and either was connected behind the head when the head executed it, or
\* joined behind a server that had it, after it was answered.  Crashes, retries
\* and updates lose it nowhere else: at a server that joined too early to copy
\* it and was connected too late to be sent it, or that failed to copy.
OkMeansReached ==
    \A w \in Write :
        outcome[w] = "ok" =>
            \A s \in reach[w] : Member(s) => w \in list[s]

Stuck == \E s \in Server : work[s].pc = "stuck"

\* A client that has called a write is answered or loses its connection, unless
\* a server has gone on reading from another connection.
WritesEnd ==
    \A w \in Write : outcome[w] = "called" ~> outcome[w] # "called" \/ Stuck

=============================================================================
