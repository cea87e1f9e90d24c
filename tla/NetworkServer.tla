--------------------------- MODULE NetworkServer ---------------------------
(***************************************************************************)
(* The connections of one server: source/network_server.c, from            *)
(* network_server_init to the end of the process, with the signal handler  *)
(* and the exit handler of source/list_server.c and the log of             *)
(* source/log.c.                                                           *)
(*                                                                         *)
(* The main thread accepts connections and starts a thread for each one    *)
(* that is within MAX_CLIENTS; the threads share the counter of            *)
(* connections, the log and the list.  SIGINT may come at any time.  The   *)
(* peers are clients, the predecessor in the chain and a server that       *)
(* copies the list: they all take a connection.  What a request does to    *)
(* the list is the subject of the other modules.                           *)
(***************************************************************************)
EXTENDS Integers, FiniteSets

CONSTANTS
    Conn,           \* bound: the connections peers ever open
    NoConn,         \* no connection
    MAX_CLIENTS,    \* connections served at the same time
    MaxFaults       \* bound: failures that no peer has a part in

ASSUME ConnectionsAssumption ==
    /\ IsFiniteSet(Conn) /\ NoConn \notin Conn
    /\ MAX_CLIENTS \in Nat \ {0}
    /\ MaxFaults \in Nat

VARIABLES
    server_running,         \* cleared by the signal handler
    handler,                \* how far the signal handler is
    listening,              \* the listening socket is open
    listening_socket_global,\* the signal handler knows the socket
    main,                   \* where the main thread is
    client,                 \* the connection the main thread has accepted
    client_count,           \* the counter compared with MAX_CLIENTS
    log,                    \* log_fp, and whether the file is closed
    over,                   \* how the process has ended, "no" if it runs
    conn,                   \* conn[c]: the connection as the server sees it
    peer,                   \* peer[c]: the other end of it
    status,                 \* status[c]: the handshake the peer was sent
    faults,                 \* failures so far
    failed,                 \* history: the connections they were about
    lateThreads,            \* history: threads created after the signal
    lateRequests            \* history: requests taken after the signal,
                            \* 2 for more than one

stopVars == <<server_running, handler>>
socketVars == <<listening, listening_socket_global>>
exitVars == <<log, over>>
peerVars == <<peer, status>>
faultVars == <<faults, failed>>
history == <<lateThreads, lateRequests>>
vars == <<stopVars, socketVars, exitVars, main, client, client_count, conn,
          peerVars, faultVars, history>>

\* The steps of the main thread, network_main_loop and the exit handler.
Main == {"start", "enter", "loop", "accept", "count", "busy", "ready",
         "connected", "create", "exit", "session", "network", "list", "end"}

\* Where serve_client is with the connection it has been given.
Thread == {"loop", "receive", "request", "invoke", "send", "break",
           "discount"}

Init ==
    /\ server_running = TRUE
    /\ handler = "idle"
    /\ listening = FALSE
    /\ listening_socket_global = FALSE
    /\ main = "start"
    /\ client = NoConn
    /\ client_count = 0
    /\ log = "none"
    /\ over = "no"
    /\ conn = [c \in Conn |-> "off"]
    /\ peer = [c \in Conn |-> "off"]
    /\ status = [c \in Conn |-> "none"]
    /\ faults = 0
    /\ failed = {}
    /\ lateThreads = {}
    /\ lateRequests = [c \in Conn |-> 0]

Fault ==
    /\ faults < MaxFaults
    /\ faults' = faults + 1

\* A failure that concerns one connection: no memory, no thread, a request
\* that cannot be unpacked, a reply above 65535 bytes.
Failure(c) ==
    /\ Fault
    /\ failed' = failed \cup {c}

-----------------------------------------------------------------------------
(* The peers. *)

PeerStep == UNCHANGED <<stopVars, socketVars, exitVars, main, client,
                        client_count, faultVars, history>>

PeerConnects(c) ==
    /\ peer[c] = "off" /\ listening
    /\ peer' = [peer EXCEPT ![c] = "open"]
    /\ conn' = [conn EXCEPT ![c] = "queued"]
    /\ UNCHANGED status /\ PeerStep

PeerLeaves(c) ==
    /\ peer[c] = "open" /\ conn[c] # "gone"
    /\ peer' = [peer EXCEPT ![c] = "left"]
    /\ UNCHANGED <<conn, status>> /\ PeerStep

-----------------------------------------------------------------------------
(* SIGINT, taken by any thread. *)

Interrupt ==
    /\ handler = "idle"
    /\ server_running' = FALSE
    /\ handler' = "shutdown"
    /\ UNCHANGED <<socketVars, exitVars, main, client, client_count, conn,
                   peerVars, faultVars, history>>

\* Connections nobody has accepted are reset with the socket.
CloseSocket ==
    /\ listening' = FALSE
    /\ conn' = [c \in Conn |-> IF conn[c] = "queued" THEN "gone" ELSE conn[c]]

\* Mutant: the socket stays as it is, in the belief that the signal wakes
\* accept up.
NoShutDown ==
    /\ handler = "shutdown"
    /\ handler' = "done"
    /\ UNCHANGED <<server_running, socketVars, exitVars, main, client,
                   client_count, conn, peerVars, faultVars, history>>

\* The rest of network_server_request_shutdown.
ShutDown ==
    /\ handler = "shutdown"
    /\ handler' = "done"
    /\ IF listening_socket_global THEN CloseSocket
                                  ELSE UNCHANGED <<listening, conn>>
    /\ UNCHANGED <<server_running, listening_socket_global, exitVars, main,
                   client, client_count, peerVars, faultVars, history>>

-----------------------------------------------------------------------------
(* The main thread: network_server_init and network_main_loop. *)

LoopStep == UNCHANGED <<stopVars, exitVars, peer>>

\* The socket listens and the log is open.
NetworkServerInit ==
    /\ main = "start"
    /\ main' = "enter"
    /\ listening' = TRUE
    /\ log' = "open"
    /\ UNCHANGED <<stopVars, listening_socket_global, over, client,
                   client_count, conn, peerVars, faultVars, history>>

\* The port is in use, or the log cannot be opened: main returns 1.
InitFails ==
    /\ main = "start"
    /\ Fault
    /\ main' = "exit"
    /\ UNCHANGED <<socketVars, client, client_count, conn, status, failed,
                   history>>
    /\ LoopStep

EnterLoop ==
    /\ main = "enter"
    /\ listening_socket_global' = TRUE
    /\ main' = "loop"
    /\ UNCHANGED <<listening, client, client_count, conn, status,
                   faultVars, history>>
    /\ LoopStep

\* Mutant: the flag of the signal handler is not looked at.
NextRoundAlways ==
    /\ main = "loop"
    /\ main' = "accept"
    /\ UNCHANGED <<socketVars, client, client_count, conn, status,
                   faultVars, history>>
    /\ LoopStep

NextRound ==
    /\ main = "loop" /\ server_running
    /\ main' = "accept"
    /\ UNCHANGED <<socketVars, client, client_count, conn, status,
                   faultVars, history>>
    /\ LoopStep

LeaveLoop ==
    /\ main = "loop" /\ ~server_running
    /\ listening_socket_global' = FALSE
    /\ main' = "exit"
    /\ UNCHANGED <<listening, client, client_count, conn, status,
                   faultVars, history>>
    /\ LoopStep

Accept(c) ==
    /\ main = "accept" /\ listening /\ conn[c] = "queued"
    /\ client' = c
    /\ conn' = [conn EXCEPT ![c] = "accepted"]
    /\ main' = "count"
    /\ UNCHANGED <<socketVars, client_count, status, faultVars, history>>
    /\ LoopStep

\* The socket was shut down: accept wakes up and fails, or is restarted with
\* a descriptor that is closed and fails.
AcceptShutDown ==
    /\ main = "accept" /\ ~listening
    /\ listening_socket_global' = FALSE
    /\ main' = "exit"
    /\ UNCHANGED <<listening, client, client_count, conn, status,
                   faultVars, history>>
    /\ LoopStep

\* Any other failure of accept: network_main_loop returns -1, or leaves its
\* loop if the signal has come.
AcceptFails ==
    /\ main = "accept" /\ listening
    /\ Fault
    /\ main' = "exit"
    /\ listening_socket_global' =
         IF server_running THEN listening_socket_global ELSE FALSE
    /\ UNCHANGED <<listening, client, client_count, conn, status, failed,
                   history>>
    /\ LoopStep

\* Mutant: one connection too many.
CompareCountLate ==
    /\ main = "count"
    /\ main' = IF client_count > MAX_CLIENTS THEN "busy" ELSE "ready"
    /\ UNCHANGED <<socketVars, client, client_count, conn, status,
                   faultVars, history>>
    /\ LoopStep

\* get_client_count: the counter may change before client_connected.
CompareCount ==
    /\ main = "count"
    /\ main' = IF client_count >= MAX_CLIENTS THEN "busy" ELSE "ready"
    /\ UNCHANGED <<socketVars, client, client_count, conn, status,
                   faultVars, history>>
    /\ LoopStep

\* The main thread closes the connection and goes on to the next one.
Drop ==
    /\ conn' = [conn EXCEPT ![client] = "gone"]
    /\ client' = NoConn
    /\ main' = "loop"

\* Mutant: the peer waits for a place instead of being told.
SendBusyNever ==
    /\ main = "busy"
    /\ client_count < MAX_CLIENTS
    /\ main' = "ready"
    /\ UNCHANGED <<socketVars, client, client_count, conn, status,
                   faultVars, history>>
    /\ LoopStep

\* Mutant: a refused connection is taken off the counter as well.
SendBusyDiscount ==
    /\ main = "busy"
    /\ status' = [status EXCEPT ![client] = "BUSY"]
    /\ client_count' = client_count - 1
    /\ Drop
    /\ UNCHANGED <<socketVars, faultVars, history>>
    /\ LoopStep

\* Whether the message arrives is not looked at.
SendBusy ==
    /\ main = "busy"
    /\ status' = [status EXCEPT ![client] = "BUSY"]
    /\ Drop
    /\ UNCHANGED <<socketVars, client_count, faultVars, history>>
    /\ LoopStep

SendReady ==
    /\ main = "ready"
    /\ status' = [status EXCEPT ![client] = "READY"]
    /\ main' = "connected"
    /\ UNCHANGED <<socketVars, client, client_count, conn, faultVars, history>>
    /\ LoopStep

NoReady ==
    /\ main = "ready"
    /\ Drop
    /\ UNCHANGED <<socketVars, client_count, status, history>>
    /\ LoopStep

\* The peer is gone,
SendReadyFails ==
    /\ NoReady
    /\ peer[client] = "left" /\ UNCHANGED faultVars

\* or there is no memory for the message.
SendReadyError == NoReady /\ Failure(client)

\* client_connected; CONNECT is logged.
ClientConnected ==
    /\ main = "connected"
    /\ client_count' = client_count + 1
    /\ main' = "create"
    /\ UNCHANGED <<socketVars, client, conn, status, faultVars, history>>
    /\ LoopStep

CreateThread ==
    /\ main = "create"
    /\ conn' = [conn EXCEPT ![client] = "loop"]
    /\ lateThreads' = IF server_running THEN lateThreads
                      ELSE lateThreads \cup {client}
    /\ client' = NoConn
    /\ main' = "loop"
    /\ UNCHANGED <<socketVars, client_count, status, faultVars, lateRequests>>
    /\ LoopStep

\* Mutant: the counter is not taken back.
CreateFailsCounted ==
    /\ main = "create"
    /\ Failure(client)
    /\ Drop
    /\ UNCHANGED <<socketVars, client_count, status, history>>
    /\ LoopStep

\* No memory for client_params, or no thread.
CreateFails ==
    /\ main = "create"
    /\ Failure(client)
    /\ client_count' = client_count - 1
    /\ Drop
    /\ UNCHANGED <<socketVars, status, history>>
    /\ LoopStep

MainLoop ==
    \/ NetworkServerInit \/ EnterLoop \/ NextRound \/ LeaveLoop
    \/ \E c \in Conn : Accept(c)
    \/ AcceptShutDown
    \/ CompareCount \/ SendBusy \/ SendReady \/ SendReadyFails
    \/ ClientConnected \/ CreateThread

MainFails == InitFails \/ AcceptFails \/ SendReadyError \/ CreateFails

-----------------------------------------------------------------------------
(* The main thread: the exit handler, `cleanup`.  It waits 200 ms for the   *)
(* threads, which need not be enough, and takes away what they use.         *)

ExitStep == UNCHANGED <<stopVars, listening_socket_global, client,
                        client_count, peerVars, faultVars, history>>

\* zk_disconnect ends the connection to the successor,
FreeSuccessor ==
    /\ main = "exit"
    /\ main' = "session"
    /\ UNCHANGED <<listening, exitVars, conn>> /\ ExitStep

\* and cleanup_zk_state destroys zk_mutex and asks ZooKeeper to close the
\* session, if there is a connection to ask on.  When the znode goes, and
\* when the predecessor stops forwarding, is not in the hands of this
\* process: see Close in ChainTopology.
CloseSession ==
    /\ main = "session"
    /\ main' = "network"
    /\ UNCHANGED <<listening, exitVars, conn>> /\ ExitStep

\* network_server_close: CloseFile, and the socket, once more if the signal
\* handler has closed it.  log_fp becomes NULL after CloseFile.
NetworkServerClose ==
    /\ main = "network"
    /\ main' = "list"
    /\ log' = IF log = "open" THEN "closed" ELSE log
    /\ CloseSocket
    /\ UNCHANGED over /\ ExitStep

ListSkelDestroy ==
    /\ main = "list"
    /\ main' = "end"
    /\ UNCHANGED <<listening, exitVars, conn>> /\ ExitStep

Ends(how) ==
    /\ over' = how
    /\ UNCHANGED <<stopVars, socketVars, log, main, client, client_count,
                   conn, peerVars, history>>

\* The process ends, whatever its threads are doing.
Exit == main = "end" /\ Ends("exit") /\ UNCHANGED faultVars

Cleanup ==
    \/ FreeSuccessor \/ CloseSession \/ NetworkServerClose
    \/ ListSkelDestroy \/ Exit

-----------------------------------------------------------------------------
(* A thread: serve_client. *)

ThreadStep == UNCHANGED <<stopVars, socketVars, exitVars, main, client, peer,
                          status, lateThreads>>

CheckRunning(c) ==
    /\ conn[c] = "loop"
    /\ conn' =
         [conn EXCEPT ![c] = IF server_running THEN "receive" ELSE "break"]
    /\ UNCHANGED <<client_count, lateRequests, faultVars>> /\ ThreadStep

\* The peer sends a request, one at a time, and network_receive returns it.
Receive(c) ==
    /\ conn[c] = "receive" /\ peer[c] = "open"
    /\ conn' = [conn EXCEPT ![c] = "request"]
    /\ lateRequests' =
         [lateRequests EXCEPT
            ![c] = IF server_running \/ @ = 2 THEN @ ELSE @ + 1]
    /\ UNCHANGED <<client_count, faultVars>> /\ ThreadStep

\* Mutant: the thread tries again when the peer has closed the connection.
ReceiveAgain(c) ==
    /\ conn[c] = "receive" /\ peer[c] = "left"
    /\ conn' = [conn EXCEPT ![c] = "loop"]
    /\ UNCHANGED <<client_count, lateRequests, faultVars>> /\ ThreadStep

NoRequest(c) ==
    /\ conn[c] = "receive"
    /\ conn' = [conn EXCEPT ![c] = "break"]
    /\ UNCHANGED <<client_count, lateRequests>> /\ ThreadStep

\* The end of the connection is the only other thing that wakes the thread up,
ReceiveFails(c) == NoRequest(c) /\ peer[c] = "left" /\ UNCHANGED faultVars

\* or the message arrives, and there is no memory or it cannot be unpacked.
ReceiveError(c) == NoRequest(c) /\ peer[c] = "open" /\ Failure(c)

\* REQUEST is logged before the request is executed, if log_fp is not NULL.
LogRequest(c) ==
    /\ conn[c] = "request"
    /\ conn' = [conn EXCEPT ![c] = "invoke"]
    /\ UNCHANGED <<client_count, lateRequests, faultVars>> /\ ThreadStep

\* invoke returns -1 for a missing list or message only.
Invoke(c) ==
    /\ conn[c] = "invoke"
    /\ conn' = [conn EXCEPT ![c] = "send"]
    /\ UNCHANGED <<client_count, lateRequests, faultVars>> /\ ThreadStep

\* Mutant: the result of network_send is taken for the number of bytes sent.
SendEnds(c) ==
    /\ conn[c] = "send"
    /\ conn' = [conn EXCEPT ![c] = "break"]
    /\ UNCHANGED <<client_count, lateRequests, faultVars>> /\ ThreadStep

Send(c) ==
    /\ conn[c] = "send"
    /\ conn' = [conn EXCEPT ![c] = "loop"]
    /\ UNCHANGED <<client_count, lateRequests, faultVars>> /\ ThreadStep

\* The request is freed, and freed once more after the loop: the process is
\* aborted, or goes on as if nothing had happened.
NoReply(c) ==
    /\ conn[c] = "send"
    /\ \/ /\ conn' = [conn EXCEPT ![c] = "break"]
          /\ UNCHANGED <<client_count, lateRequests>> /\ ThreadStep
       \/ Ends("freed twice")

\* The peer is gone,
SendFails(c) == NoReply(c) /\ peer[c] = "left" /\ UNCHANGED faultVars

\* or the reply is longer than 65535 bytes, or there is no memory for it.
SendError(c) == NoReply(c) /\ Failure(c)

\* After the loop CLOSE is logged and the socket closed.
Close(c) ==
    /\ conn[c] = "break"
    /\ conn' = [conn EXCEPT ![c] = "discount"]
    /\ UNCHANGED <<client_count, lateRequests, faultVars>> /\ ThreadStep

ClientDisconnected(c) ==
    /\ conn[c] = "discount"
    /\ client_count' = client_count - 1
    /\ conn' = [conn EXCEPT ![c] = "gone"]
    /\ UNCHANGED <<lateRequests, faultVars>> /\ ThreadStep

ServeClient(c) ==
    \/ CheckRunning(c) \/ ReceiveFails(c) \/ LogRequest(c) \/ Invoke(c)
    \/ Send(c) \/ SendFails(c) \/ Close(c) \/ ClientDisconnected(c)

ThreadFails(c) == ReceiveError(c) \/ SendError(c)

\* A thread uses what the exit handler has taken away: if it does not get
\* away with it, the process ends here.
UseFreedSuccessor(c) ==
    /\ conn[c] = "invoke"
    /\ main \in {"session", "network", "list", "end"}
    /\ Ends("freed successor") /\ UNCHANGED faultVars

UseDestroyed(c) ==
    /\ \/ conn[c] \in {"request", "break"} /\ log = "closed"
       \/ conn[c] = "invoke" /\ main \in {"network", "list", "end"}
    /\ Ends("destroyed") /\ UNCHANGED faultVars

-----------------------------------------------------------------------------

Next ==
    /\ over = "no"
    /\ \/ Interrupt \/ ShutDown
       \/ MainLoop \/ MainFails \/ Cleanup
       \/ \E c \in Conn :
             \/ PeerConnects(c) \/ PeerLeaves(c)
             \/ Receive(c) \/ ServeClient(c) \/ ThreadFails(c)
             \/ UseFreedSuccessor(c) \/ UseDestroyed(c)

Spec == Init /\ [][Next]_vars

\* The threads of the process are scheduled, peers ask if they like to; a
\* successor that a request is forwarded to answers or breaks the connection.
Fairness ==
    /\ WF_vars(over = "no" /\ ShutDown)
    /\ WF_vars(over = "no" /\ (MainLoop \/ Cleanup))
    /\ \A c \in Conn : WF_vars(over = "no" /\ ServeClient(c))

FairSpec == Spec /\ Fairness

-----------------------------------------------------------------------------
(***************************************************************************)
(* Properties.                                                             *)
(***************************************************************************)

Conns == Thread \cup {"off", "queued", "accepted", "gone"}

Endings == {"no", "exit", "freed twice", "freed successor", "destroyed"}

TypeOK ==
    /\ server_running \in BOOLEAN
    /\ handler \in {"idle", "shutdown", "done"}
    /\ listening \in BOOLEAN
    /\ listening_socket_global \in BOOLEAN
    /\ main \in Main
    /\ client \in Conn \cup {NoConn}
    /\ client_count \in Nat
    /\ log \in {"none", "open", "closed"}
    /\ over \in Endings
    /\ conn \in [Conn -> Conns]
    /\ peer \in [Conn -> {"off", "open", "left"}]
    /\ status \in [Conn -> {"none", "READY", "BUSY"}]
    /\ faults \in 0..MaxFaults
    /\ failed \subseteq Conn
    /\ lateThreads \subseteq Conn
    /\ lateRequests \in [Conn -> 0..2]

\* The connections between client_connected and client_disconnected.
Counted ==
    {c \in Conn : conn[c] \in Thread \/ (main = "create" /\ client = c)}

\* The connections whose peer was told READY and that are not closed yet.
Served ==
    {c \in Conn : status[c] = "READY" /\ conn[c] \notin {"discount", "gone"}}

\* No place is lost: whatever way a connection ends, the counter is the
\* number of connections that have a thread or are about to get one.
CounterIsRight == client_count = Cardinality(Counted)

\* MAX_CLIENTS is kept, although the counter is compared before READY is sent
\* and incremented after it, and threads decrement it in between.
LimitKept == Cardinality(Served) <= MAX_CLIENTS

\* When a peer leaves, or its connection fails while it stays, the place
\* comes back, in whatever state the request is; or the server ends.
SlotsComeBack ==
    \A c \in Conn :
        peer[c] = "left" \/ c \in failed ~> c \notin Counted \/ over # "no"

\* A peer that has connected is told READY or BUSY, or loses the connection:
\* connect in network_client.c has no timeout.
Answered ==
    \A c \in Conn :
        conn[c] = "queued" ~> \/ status[c] # "none"
                              \/ conn[c] = "gone" \/ over # "no"

\* What is still done after the signal: each thread takes at most one more
\* request, and at most one more thread is created, that takes none.
OneMoreRequest ==
    /\ Cardinality(lateThreads) <= 1
    /\ \A c \in Conn :
          lateRequests[c] <= IF c \in lateThreads THEN 0 ELSE 1

\* SIGINT ends the server, whatever the peers do and wherever the main thread
\* is, between the check of server_running and accept for example.
StopEnds == ~server_running ~> over # "no"

\* A running server gives nobody up but for a reason of his own: a peer that
\* stays loses its connection only if it was told BUSY or if the failure was
\* this connection's, whatever happens to the others meanwhile.  The peers
\* nobody has accepted go when the main loop has failed and the socket is
\* closed.
DroppedForAReason ==
    server_running =>
        \A c \in Conn :
            conn[c] \in {"break", "discount", "gone"} =>
                \/ status[c] = "BUSY"
                \/ peer[c] = "left" \/ c \in failed
                \/ status[c] = "none" /\ main \in {"list", "end"}

=============================================================================
