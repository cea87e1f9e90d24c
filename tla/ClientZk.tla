------------------------------ MODULE ClientZk ------------------------------
(***************************************************************************)
(* How a client finds the head and the tail of the chain:                  *)
(* source/zookeeper-interactions.c, with the main of source/list_client.c  *)
(* and the connections of source/network_client.c.                         *)
(*                                                                         *)
(* Two threads of the client share rlistHead, rlistTail and the semaphore  *)
(* `mutex`: the main thread, that connects when it starts, executes        *)
(* commands and disconnects when it quits, and the completion thread of    *)
(* the ZooKeeper library, that runs `watcher` when the children of /chain  *)
(* change.  Commands do not take the semaphore.                            *)
(*                                                                         *)
(* A connection is named by its descriptor, which is used again after a    *)
(* close: a thread that waits for a reply goes on reading by the number.   *)
(***************************************************************************)
EXTENDS Integers, FiniteSets

CONSTANTS
    Server,         \* the processes that are ever in the chain
    Started,        \* the ones that serve when the client starts
    MaxFaults       \* bound: ZooKeeper calls that fail, sessions that expire

NULL == 0

ASSUME ClientAssumption ==
    /\ NULL \notin Server /\ Started \subseteq Server
    /\ MaxFaults \in Nat

\* A connection at each end, and one more that nobody closed.
Fd == 1..4
End == {"head", "tail"}

VARIABLES
    life,           \* life[s]: a server registers before it listens
    znodes,         \* the servers with a znode under /chain
    watch,          \* a watch of the client on the children is set
    events,         \* child events that wait for the completion thread
    session,        \* live, expired, or closed by the client
    mutex,          \* the semaphore
    rlist,          \* rlist[e]: rlistHead and rlistTail
    sock,           \* sock[f]: what the descriptor f is connected to
    thread,         \* thread[t]: the main thread, the completion thread
    command,        \* the command the main thread executes
    overlapped,     \* history: `watcher` ran while the client started
    faults          \* faults so far

chainVars == <<life, znodes>>
zkVars == <<watch, events, session>>
vars == <<chainVars, zkVars, mutex, rlist, sock, thread, command,
          overlapped, faults>>

\* The handshake the server has sent: "taken" and "torn" if another thread
\* has read all or a part of it, "read" once the connection is established.
Sock == [server : Server, hello : {"READY", "BUSY", "taken", "torn", "read"}]
NoSock == [server |-> NULL, hello |-> "read"]

\* A thread with its copy of the children, the first and the last of them,
\* the end it connects to, and the descriptor.
Thread == {"main", "completion"}
Connecting == {"wait", "get", "hello"}
MainPc == Connecting \cup
          {"init", "check", "prompt", "quit", "closing", "exited"}
CompletionPc == Connecting \cup {"idle", "children", "none", "clear", "sleep",
                                 "expired"}
Local ==
    [pc : MainPc \cup CompletionPc, first : Server \cup {NULL},
     last : Server \cup {NULL}, end : End, fd : Fd \cup {NULL}]

At(pc) ==
    [pc |-> pc, first |-> NULL, last |-> NULL, end |-> "head", fd |-> NULL]

NoCommand == [pc |-> "none", fd |-> NULL, server |-> NULL, mine |-> TRUE]

Init ==
    /\ life = [s \in Server |-> IF s \in Started THEN "ready" ELSE "off"]
    /\ znodes = Started
    /\ watch = FALSE
    /\ events = 0
    /\ session = "live"
    /\ mutex = 1
    /\ rlist = [e \in End |-> NULL]
    /\ sock = [f \in Fd |-> NoSock]
    /\ thread = [t \in Thread |-> At(IF t = "main" THEN "init" ELSE "idle")]
    /\ command = NoCommand
    /\ overlapped = FALSE
    /\ faults = 0

Fault == faults < MaxFaults /\ faults' = faults + 1

Goto(t, pc) == thread' = [thread EXCEPT ![t].pc = pc]

-----------------------------------------------------------------------------
(* The chain and ZooKeeper.  A change fires the watch.                      *)

OnlyChain == UNCHANGED <<session, mutex, rlist, sock, thread, command,
                         overlapped, faults>>

Fire ==
    /\ watch' = FALSE
    /\ events' = IF watch THEN events + 1 ELSE events

Register(s) ==
    /\ life[s] = "off"
    /\ life' = [life EXCEPT ![s] = "joining"]
    /\ znodes' = znodes \cup {s}
    /\ Fire /\ OnlyChain

\* A server begins to listen, or ends.
Lives(s) ==
    /\ \/ life[s] = "joining" /\ life' = [life EXCEPT ![s] = "ready"]
       \/ life[s] \in {"joining", "ready"} /\ life' = [life EXCEPT ![s] = "down"]
    /\ UNCHANGED <<znodes, watch, events>> /\ OnlyChain

Unregister(s) ==
    /\ life[s] = "down" /\ s \in znodes
    /\ znodes' = znodes \ {s}
    /\ UNCHANGED life /\ Fire /\ OnlyChain

\* The session of the client expires: its watches are gone.
Expire ==
    /\ session = "live"
    /\ Fault
    /\ session' = "expired"
    /\ watch' = FALSE
    /\ UNCHANGED <<chainVars, events, mutex, rlist, sock, thread, command,
                   overlapped>>

\* Calls of ZooKeeper succeed until the session is over or zookeeper_close is
\* called; a call that fails before is a fault.
Usable == session = "live" /\ thread["main"].pc # "closing"

Fails == IF Usable THEN Fault ELSE UNCHANGED faults

\* The children of /chain, in no particular order, for the thread t.
Children(t, empty, pc) ==
    IF znodes = {}
    THEN Goto(t, empty)
    ELSE \E first, last \in znodes :
            /\ first = last <=> Cardinality(znodes) = 1
            /\ thread' = [thread EXCEPT
                            ![t].pc = pc, ![t].first = first, ![t].last = last]

-----------------------------------------------------------------------------
(* connectToHead and connectToTail, by either thread.                       *)

OnlyConnects == UNCHANGED <<chainVars, zkVars, command, overlapped>>

FreeFd == {f \in Fd : sock[f] = NoSock}
NextFd == CHOOSE f \in FreeFd : \A g \in FreeFd : f <= g

\* sem_post; after the head comes the tail, and then the rest of the thread.
Post(t) ==
    /\ mutex' = mutex + 1
    /\ thread' = [thread EXCEPT
                     ![t].fd = NULL,
                     ![t].end = IF @ = "head" THEN "tail" ELSE "head",
                     ![t].pc = IF thread[t].end = "head" THEN "wait"
                               ELSE IF t = "main" THEN "check" ELSE "idle"]

\* Mutant: the semaphore is not taken.
SemWaitNot(t) ==
    /\ thread[t].pc = "wait" /\ mutex = 1
    /\ Goto(t, "get")
    /\ UNCHANGED <<mutex, rlist, sock, faults>> /\ OnlyConnects

SemWait(t) ==
    /\ thread[t].pc = "wait" /\ mutex = 1
    /\ mutex' = 0
    /\ Goto(t, "get")
    /\ UNCHANGED <<rlist, sock, faults>> /\ OnlyConnects

\* The first of the children for the head, the last one for the tail.
Target(t) == IF thread[t].end = "head" THEN thread[t].first ELSE thread[t].last

\* Mutant: the error path returns with the semaphore.
GetFailsLocked(t) ==
    /\ thread[t].pc = "get"
    /\ IF Target(t) \in znodes THEN Fails ELSE UNCHANGED faults
    /\ Goto(t, "wait")
    /\ UNCHANGED <<mutex, rlist, sock>> /\ OnlyConnects

\* zoo_get, or malloc, fails: the pointer stays as it is.
GetFails(t) ==
    /\ thread[t].pc = "get"
    /\ IF Target(t) \in znodes THEN Fails ELSE UNCHANGED faults
    /\ Post(t)
    /\ UNCHANGED <<rlist, sock>> /\ OnlyConnects

\* rlist_connect to a server that does not listen.
Refused(t) ==
    /\ thread[t].pc = "get" /\ Usable /\ Target(t) \in znodes
    /\ life[Target(t)] # "ready"
    /\ rlist' = [rlist EXCEPT ![thread[t].end] = NULL]
    /\ Post(t)
    /\ UNCHANGED <<sock, faults>> /\ OnlyConnects

\* A server that listens accepts, and sends READY, or BUSY if it has
\* MAX_CLIENTS connections.
Accepted(t) ==
    /\ thread[t].pc = "get" /\ Usable /\ Target(t) \in znodes
    /\ life[Target(t)] = "ready" /\ FreeFd # {}
    /\ \E hello \in {"READY", "BUSY"} :
          sock' = [sock EXCEPT ![NextFd] =
                     [server |-> Target(t), hello |-> hello]]
    /\ thread' = [thread EXCEPT ![t].pc = "hello", ![t].fd = NextFd]
    /\ UNCHANGED <<mutex, rlist, faults>> /\ OnlyConnects

\* network_connect reads the handshake.  Without any, while the connection
\* lasts, the thread waits, with the semaphore.
Handshake(t) ==
    LET fd == thread[t].fd IN
    /\ thread[t].pc = "hello"
    /\ \/ /\ sock[fd].hello = "READY"
          /\ sock' = [sock EXCEPT ![fd].hello = "read"]
          /\ rlist' = [rlist EXCEPT ![thread[t].end] = fd]
       \/ /\ sock[fd].hello \in {"BUSY", "torn"} \/ life[sock[fd].server] = "down"
          /\ sock' = [sock EXCEPT ![fd] = NoSock]
          /\ rlist' = [rlist EXCEPT ![thread[t].end] = NULL]
    /\ Post(t)
    /\ UNCHANGED faults /\ OnlyConnects

Connect(t) ==
    SemWait(t) \/ GetFails(t) \/ Refused(t) \/ Accepted(t) \/ Handshake(t)

-----------------------------------------------------------------------------
(* The completion thread: `watcher`. *)

OnlyWatcher == UNCHANGED <<chainVars, mutex>>

Starting == thread["main"].pc \in Connecting \cup {"init", "check"}

\* A callback begins, unless zkHandler is NULL or zookeeper_close is called.
Callback(pc) ==
    /\ session # "closed"
    /\ thread["completion"].pc = "idle" /\ thread["main"].pc # "closing"
    /\ Goto("completion", pc)
    /\ UNCHANGED <<watch, rlist, sock, command, faults>> /\ OnlyWatcher

ChildEvent ==
    /\ events > 0
    /\ Callback("children")
    /\ events' = events - 1
    /\ overlapped' = (overlapped \/ Starting)
    /\ UNCHANGED session

\* Mutant: the children are read without setting a watch again.
GetChildrenOnce ==
    /\ thread["completion"].pc = "children" /\ Usable
    /\ Children("completion", "none", "clear")
    /\ UNCHANGED <<zkVars, rlist, sock, command, overlapped, faults>> /\ OnlyWatcher

\* zoo_wget_children.
GetChildren ==
    /\ thread["completion"].pc = "children" /\ Usable
    /\ watch' = TRUE
    /\ Children("completion", "none", "clear")
    /\ UNCHANGED <<events, session, rlist, sock, command, overlapped, faults>>
    /\ OnlyWatcher

\* No watch is set any more, and the client keeps its connections.
GetChildrenFails ==
    /\ thread["completion"].pc = "children"
    /\ Fails
    /\ Goto("completion", "idle")
    /\ UNCHANGED <<zkVars, rlist, sock, command, overlapped>> /\ OnlyWatcher

\* Mutant: the pointers become NULL and the connections stay open.
DisconnectNone ==
    /\ rlist' = [e \in End |-> NULL]
    /\ UNCHANGED <<sock, command>>

\* rlist_disconnect of both ends.  A command on one of them keeps waiting.
DisconnectBoth ==
    LET closed == {rlist[e] : e \in End} IN
    /\ sock' = [f \in Fd |-> IF f \in closed THEN NoSock ELSE sock[f]]
    /\ rlist' = [e \in End |-> NULL]
    /\ command' = [command EXCEPT !.mine = @ /\ command.fd \notin closed]

\* The old connections end, under the semaphore if there are servers, without
\* it if there are none or the session has expired.
Clear ==
    /\ \/ thread["completion"].pc = "clear" /\ mutex = 1 /\ Goto("completion", "sleep")
       \/ thread["completion"].pc \in {"none", "expired"} /\ Goto("completion", "idle")
    /\ DisconnectBoth
    /\ UNCHANGED <<zkVars, overlapped, faults>> /\ OnlyWatcher

\* Two seconds for a server that joins.
Sleep ==
    /\ thread["completion"].pc = "sleep"
    /\ Goto("completion", "wait")
    /\ UNCHANGED <<zkVars, rlist, sock, command, overlapped, faults>> /\ OnlyWatcher

\* zookeeper_close, and zkHandler becomes NULL.
SessionEvent ==
    /\ session = "expired"
    /\ Callback("expired")
    /\ session' = "closed"
    /\ UNCHANGED <<events, overlapped>>

Watcher ==
    \/ ChildEvent \/ GetChildren \/ GetChildrenFails \/ Clear \/ Sleep
    \/ SessionEvent
    \/ Connect("completion")

-----------------------------------------------------------------------------
(* The main thread. *)

OnlyMain == UNCHANGED <<chainVars, rlist, overlapped>>

\* connectToZookeper reads the children and sets the watch.
ReadChildren ==
    /\ thread["main"].pc = "init" /\ Usable
    /\ watch' = TRUE
    /\ Children("main", "exited", "wait")
    /\ UNCHANGED <<events, session, mutex, sock, command, faults>> /\ OnlyMain

\* `children`, that is not initialized, is looked at before the return code.
ReadChildrenFails ==
    /\ thread["main"].pc = "init"
    /\ Fails
    /\ Goto("main", "exited")
    /\ UNCHANGED <<zkVars, mutex, sock, command>> /\ OnlyMain

\* The client starts with both connections or exits.
CheckConnected ==
    /\ thread["main"].pc = "check"
    /\ Goto("main", IF NULL \in {rlist[e] : e \in End} THEN "exited" ELSE "prompt")
    /\ UNCHANGED <<zkVars, mutex, sock, command, faults>> /\ OnlyMain

OnlyCommand == UNCHANGED <<zkVars, mutex, thread, faults>> /\ OnlyMain

\* A command takes one of the two pointers.
Command(e) ==
    /\ thread["main"].pc = "prompt" /\ command.pc = "none" /\ rlist[e] # NULL
    /\ command' = [pc |-> "send", fd |-> rlist[e],
                   server |-> sock[rlist[e]].server, mine |-> TRUE]
    /\ UNCHANGED sock /\ OnlyCommand

\* network_send_receive sends the request, unless `watcher` has freed the
\* connection or the server is gone.
Send ==
    /\ command.pc = "send"
    /\ command' = IF command.mine /\ life[command.server] # "down"
                  THEN [command EXCEPT !.pc = "receive"] ELSE NoCommand
    /\ UNCHANGED sock /\ OnlyCommand

\* Mutant: the end of the connection is taken for a short read.
ReplyAwaited ==
    /\ command.pc = "receive" /\ life[command.server] # "down"
    /\ command' = [command EXCEPT !.pc = "body"]
    /\ UNCHANGED sock /\ OnlyCommand

\* The main thread has read the size of the reply from the connection, and will
\* read the rest from the descriptor; or the server is gone.
Reply ==
    /\ command.pc = "receive"
    /\ command' = IF life[command.server] # "down"
                  THEN [command EXCEPT !.pc = "body"] ELSE NoCommand
    /\ UNCHANGED sock /\ OnlyCommand

\* The descriptor is still the connection, or closed: the command ends, in the
\* second case with an error though it was executed.
ReadBody ==
    /\ command.pc = "body"
    /\ command.mine \/ sock[command.fd] = NoSock
    /\ command' = NoCommand
    /\ UNCHANGED sock /\ OnlyCommand

\* The descriptor belongs to a new connection: the command takes what it finds
\* there, the handshake or a part of it, and waits if that is not enough.
ReadElsewhere ==
    LET found == sock[command.fd]
        waits == [command EXCEPT !.pc = "elsewhere", !.server = found.server] IN
    /\ command.pc = "body" /\ ~command.mine /\ found # NoSock
    /\ IF found.hello \in {"READY", "BUSY"}
       THEN /\ \E hello \in {"taken", "torn"} :
                  sock' = [sock EXCEPT ![command.fd].hello = hello]
            /\ command' \in {NoCommand, waits}
       ELSE command' = waits /\ UNCHANGED sock
    /\ OnlyCommand

\* Only the end of that connection ends the wait.
EndElsewhere ==
    /\ command.pc = "elsewhere" /\ life[command.server] = "down"
    /\ command' = NoCommand
    /\ UNCHANGED sock /\ OnlyCommand

\* The quit command, or the end of the input.
Quit ==
    /\ thread["main"].pc = "prompt" /\ command.pc = "none"
    /\ Goto("main", "quit")
    /\ UNCHANGED <<zkVars, mutex, sock, command, faults>> /\ OnlyMain

\* disconnectFromZookeeper takes the semaphore,
TakeSemaphore ==
    /\ thread["main"].pc = "quit" /\ mutex = 1
    /\ mutex' = 0
    /\ Goto("main", "closing")
    /\ UNCHANGED <<zkVars, sock, command, faults>> /\ OnlyMain

\* and zookeeper_close waits for the callback that is running, unless zkHandler
\* is NULL already.  cleanRlists disconnects both ends, and main returns.
CloseHandle ==
    /\ thread["main"].pc = "closing"
    /\ thread["completion"].pc = "idle" \/ session = "closed"
    /\ session' = "closed"
    /\ mutex' = mutex + 1
    /\ Goto("main", "exited")
    /\ UNCHANGED <<watch, events, sock, command, faults>> /\ OnlyMain

Main ==
    \/ ReadChildren \/ ReadChildrenFails \/ Connect("main") \/ CheckConnected
    \/ Send \/ Reply \/ ReadBody \/ ReadElsewhere \/ EndElsewhere
    \/ TakeSemaphore \/ CloseHandle

-----------------------------------------------------------------------------

Next ==
    /\ thread["main"].pc # "exited"
    /\ \/ \E s \in Server : Register(s) \/ Lives(s) \/ Unregister(s)
       \/ Expire
       \/ Watcher
       \/ Main \/ Quit \/ \E e \in End : Command(e)

Spec == Init /\ [][Next]_vars

\* Both threads are scheduled, and a server that is up answers.
Fairness == WF_vars(Watcher) /\ WF_vars(Main)

FairSpec == Spec /\ Fairness

-----------------------------------------------------------------------------
(***************************************************************************)
(* Properties.                                                             *)
(***************************************************************************)

TypeOK ==
    /\ life \in [Server -> {"off", "joining", "ready", "down"}]
    /\ znodes \subseteq Server
    /\ watch \in BOOLEAN
    /\ events \in Nat
    /\ session \in {"live", "expired", "closed"}
    /\ mutex \in 0..1
    /\ rlist \in [End -> Fd \cup {NULL}]
    /\ sock \in [Fd -> Sock \cup {NoSock}]
    /\ thread \in [Thread -> Local]
    /\ command \in [pc : {"none", "send", "receive", "body", "elsewhere"},
                    fd : Fd \cup {NULL}, server : Server \cup {NULL},
                    mine : BOOLEAN]
    /\ overlapped \in BOOLEAN
    /\ faults \in 0..MaxFaults

\* Connections that are open and that no pointer and no thread knows.
Lost ==
    {f \in Fd : sock[f] # NoSock} \
        ({rlist[e] : e \in End} \cup {thread[t].fd : t \in Thread})

\* A connection that is not closed takes one of the MAX_CLIENTS places of a
\* server for good.  The client loses none, except when `watcher` ran while the
\* client was starting, and two then.
NothingLost ==
    /\ ~overlapped => Lost = {}
    /\ Cardinality(Lost) <= 2

\* The client after its start, with no callback to come.
Quiet ==
    /\ thread["main"].pc = "prompt" /\ session = "live"
    /\ thread["completion"].pc = "idle" /\ events = 0

\* With nothing left to do the client hears of the next change of the chain and
\* is connected to servers that are in the chain as it is, even if `watcher`
\* and the start were under way together.  Only a failed call for the children
\* leaves it without a watch.
FollowsChain ==
    Quiet => /\ watch \/ faults > 0
             /\ watch => \A e \in End :
                  rlist[e] # NULL => sock[rlist[e]].server \in znodes

\* The two ways a client that quits waits for ever: it holds the semaphore and
\* waits for a callback that waits for the semaphore; or a callback holds it
\* and waits for a handshake that a command has read.
Deadlock ==
    /\ thread["main"].pc = "closing"
    /\ thread["completion"].pc \in {"clear", "wait"}

HandshakeTaken ==
    \E t \in Thread :
        thread[t].pc = "hello" /\ sock[thread[t].fd].hello = "taken"

\* A client that quits ends, unless it meets one of the two.
QuitEnds ==
    thread["main"].pc = "quit" ~>
        thread["main"].pc = "exited" \/ Deadlock \/ HandshakeTaken

\* A command ends, although `watcher` may close its connection at any time,
\* unless it has gone on reading from another one.
CommandsReturn ==
    command.pc # "none" ~> command.pc \in {"none", "elsewhere"}

=============================================================================
