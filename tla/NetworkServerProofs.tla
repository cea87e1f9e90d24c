------------------------ MODULE NetworkServerProofs ------------------------
(***************************************************************************)
(* Proofs about NetworkServer for any number of connections, any           *)
(* MAX_CLIENTS and any failures: type correctness, the counter of          *)
(* connections and its limit, what is still done after the signal, and     *)
(* whose connection is closed.                                             *)
(***************************************************************************)
EXTENDS NetworkServer, FiniteSetTheorems, TLAPS

-----------------------------------------------------------------------------
(* The inductive invariant.  The properties do not stand alone: that the    *)
(* limit is kept rests on the main thread being the only one to count up,   *)
(* between the comparison and the thread's creation with one connection in  *)
(* its hands.                                                               *)

\* The steps at which the main thread holds a connection of its own.
Holding == {"count", "busy", "ready", "connected", "create"}

\* The main thread holds the connection it has accepted and no other.
ClientInv ==
    /\ client # NoConn <=> main \in Holding
    /\ \A c \in Conn : conn[c] = "accepted" <=> client = c

\* A peer that has not connected has no connection.
OffInv == \A c \in Conn : peer[c] = "off" => conn[c] = "off"

\* Nothing is sent before the counter has been compared.
StatusInv ==
    \A c \in Conn :
       /\ conn[c] \in {"off", "queued"} => status[c] = "none"
       /\ main \in {"count", "busy", "ready"} /\ client = c =>
             status[c] = "none"

\* A connection is let in only while there is a place, and only threads,
\* which give places back, touch the counter before it is counted.
CountInv ==
    /\ client_count <= MAX_CLIENTS
    /\ main \in {"ready", "connected"} => client_count < MAX_CLIENTS

\* Where the main thread can be once it has come back to the loop after the
\* signal, and where a thread is that has not got a request since.
Leaving == {"loop", "exit", "session", "network", "list", "end"}
Resting == {"loop", "break", "discount", "gone"}

\* What has happened since the signal.
LateInv ==
    /\ server_running =>
          lateThreads = {} /\ \A c \in Conn : lateRequests[c] = 0
    /\ lateThreads = {} \/ \E c \in Conn : lateThreads = {c}
    /\ lateThreads # {} => main \in Leaving
    /\ \A c \in lateThreads : lateRequests[c] = 0 /\ conn[c] \in Resting
    /\ \A c \in Conn :
          lateRequests[c] = 0
          \/ /\ lateRequests[c] = 1
             /\ conn[c] \notin {"off", "queued", "accepted", "receive"}

\* The signal handler closes the socket after it has cleared server_running,
\* so that whoever is reset with the socket is not given up by a running
\* server.
ReasonInv ==
    /\ handler # "idle" => ~server_running
    /\ DroppedForAReason

IInv ==
    /\ TypeOK /\ ClientInv /\ OffInv /\ StatusInv /\ CounterIsRight
    /\ CountInv /\ LateInv /\ ReasonInv

-----------------------------------------------------------------------------
(* The steps, one part of the invariant at a time. *)

\* Failures stay within their bound.
LEMMA FaultType == ASSUME TypeOK, Fault PROVE faults' \in 0..MaxFaults
BY ConnectionsAssumption DEF ConnectionsAssumption, TypeOK, Fault

\* A failure of one connection names that connection.
LEMMA FailureType ==
    ASSUME TypeOK, NEW c \in Conn, Failure(c)
    PROVE  faults' \in 0..MaxFaults /\ failed' \subseteq Conn
BY FaultType DEF TypeOK, Failure

\* Every step keeps the types; the counter is the matter of CountedStep.
LEMMA TypeStep ==
    ASSUME TypeOK, ClientInv, client_count' \in Nat, Next
    PROVE  TypeOK'
<1> USE DEF TypeOK
<1>1. CASE Interrupt
  BY <1>1 DEF Interrupt, exitVars, peerVars, history, socketVars, faultVars
<1>2. CASE ShutDown
  BY <1>2 DEF ShutDown, CloseSocket, Conns, exitVars, peerVars, history,
              faultVars
<1>3. CASE NetworkServerInit
  BY <1>3 DEF NetworkServerInit, Main, stopVars, peerVars, history, faultVars
<1>4. CASE EnterLoop \/ LeaveLoop \/ AcceptShutDown
  BY <1>4 DEF EnterLoop, LeaveLoop, AcceptShutDown, Main, LoopStep, stopVars,
              exitVars, history, faultVars
<1>5. CASE NextRound \/ CompareCount
  BY <1>5 DEF NextRound, CompareCount, Main, LoopStep, stopVars, exitVars,
              history, socketVars, faultVars
<1>6. CASE SendReady \/ ClientConnected
  BY <1>6 DEF SendReady, ClientConnected, Main, LoopStep, stopVars, exitVars,
              history, socketVars, faultVars
<1>7. CASE SendBusy \/ SendReadyFails
  BY <1>7 DEF SendBusy, SendReadyFails, NoReady, Main, Conns, Drop, LoopStep,
              stopVars, exitVars, history, socketVars, faultVars
<1>8. CASE CreateThread
  BY <1>8 DEF CreateThread, Main, Conns, Thread, ClientInv, Holding,
              LoopStep, stopVars, exitVars, socketVars, faultVars
<1>9. CASE InitFails \/ AcceptFails
  <2>1. faults' \in 0..MaxFaults
    BY <1>9, FaultType DEF InitFails, AcceptFails
  <2>2. listening_socket_global' \in BOOLEAN
    BY <1>9 DEF InitFails, AcceptFails, socketVars
  <2> QED
    BY <1>9, <2>1, <2>2 DEF InitFails, AcceptFails, Main, LoopStep, stopVars,
                            exitVars, history, socketVars
<1>10. CASE SendReadyError \/ CreateFails
  <2>1. client \in Conn
    BY <1>10 DEF SendReadyError, NoReady, CreateFails, ClientInv, Holding
  <2>2. faults' \in 0..MaxFaults /\ failed' \subseteq Conn
    BY <1>10, <2>1, FailureType DEF SendReadyError, CreateFails
  <2> QED
    BY <1>10, <2>2 DEF SendReadyError, NoReady, CreateFails, Main, Conns, Drop,
                       LoopStep, stopVars, exitVars, history, socketVars
<1>11. CASE FreeSuccessor \/ ListSkelDestroy
  BY <1>11 DEF FreeSuccessor, ListSkelDestroy, Main, ExitStep, stopVars,
               exitVars, peerVars, history, faultVars
<1>12. CASE CloseSession
  BY <1>12 DEF CloseSession, Main, ExitStep, stopVars, exitVars, peerVars,
               history,
               faultVars
<1>13. CASE NetworkServerClose
  BY <1>13 DEF NetworkServerClose, Main, CloseSocket, Conns, ExitStep, stopVars,
               peerVars, history, faultVars
<1>14. CASE Exit
  BY <1>14 DEF Exit, Ends, Endings, stopVars, socketVars, peerVars, history,
               faultVars
<1>15. ASSUME NEW c \in Conn, Accept(c) PROVE TypeOK'
  BY <1>15 DEF Accept, Main, Conns, LoopStep, stopVars, exitVars, history,
               socketVars, faultVars
<1>16. ASSUME NEW c \in Conn, PeerConnects(c) PROVE TypeOK'
  BY <1>16 DEF PeerConnects, Conns, PeerStep, stopVars, socketVars, exitVars,
               history, faultVars
<1>17. ASSUME NEW c \in Conn, PeerLeaves(c) PROVE TypeOK'
  BY <1>17 DEF PeerLeaves, PeerStep, stopVars, socketVars, exitVars, history,
               faultVars
<1>18. ASSUME NEW c \in Conn, Receive(c) PROVE TypeOK'
  BY <1>18 DEF Receive, Conns, Thread, ThreadStep, stopVars, socketVars,
               exitVars, faultVars
<1>19. ASSUME NEW c \in Conn, CheckRunning(c) PROVE TypeOK'
  BY <1>19 DEF CheckRunning, Conns, Thread, ThreadStep, stopVars, socketVars,
               exitVars, faultVars
<1>20. ASSUME NEW c \in Conn, ReceiveFails(c) \/ LogRequest(c) PROVE TypeOK'
  BY <1>20 DEF ReceiveFails, NoRequest, LogRequest, Conns, Thread, ThreadStep,
               stopVars, socketVars, exitVars, faultVars
<1>21. ASSUME NEW c \in Conn, Invoke(c) \/ Send(c) PROVE TypeOK'
  BY <1>21 DEF Invoke, Send, Conns, Thread, ThreadStep, stopVars, socketVars,
               exitVars, faultVars
<1>22. ASSUME NEW c \in Conn, SendFails(c) PROVE TypeOK'
  BY <1>22 DEF SendFails, NoReply, Conns, Thread, Ends, Endings, peerVars,
               history, ThreadStep, stopVars, socketVars, exitVars, faultVars
<1>23. ASSUME NEW c \in Conn, Close(c) \/ ClientDisconnected(c) PROVE TypeOK'
  BY <1>23 DEF Close, ClientDisconnected, Conns, Thread, ThreadStep, stopVars,
               socketVars, exitVars, faultVars
<1>24. ASSUME NEW c \in Conn, UseFreedSuccessor(c) \/ UseDestroyed(c)
       PROVE  TypeOK'
  BY <1>24 DEF UseFreedSuccessor, UseDestroyed, Ends, Endings, stopVars,
               socketVars, peerVars, history, faultVars
<1>25. ASSUME NEW c \in Conn, ThreadFails(c) PROVE TypeOK'
  <2>1. faults' \in 0..MaxFaults /\ failed' \subseteq Conn
    BY <1>25, FailureType DEF ThreadFails, ReceiveError, SendError
  <2>2. CASE ReceiveError(c)
    BY <2>1, <2>2 DEF ReceiveError, NoRequest, Conns, Thread, ThreadStep,
                      stopVars, socketVars, exitVars
  <2>3. CASE SendError(c)
    BY <2>1, <2>3 DEF SendError, NoReply, Conns, Thread, Ends, Endings,
                      peerVars, history, ThreadStep, stopVars, socketVars,
                      exitVars
  <2> QED
    BY <1>25, <2>2, <2>3 DEF ThreadFails
<1> QED
  BY <1>1, <1>2, <1>3, <1>4, <1>5, <1>6, <1>7, <1>8, <1>9, <1>10, <1>11,
     <1>12, <1>13, <1>14, <1>15, <1>16, <1>17, <1>18, <1>19, <1>20, <1>21,
     <1>22, <1>23, <1>24, <1>25
     DEF Next, MainLoop, MainFails, Cleanup, ServeClient

\* One connection at a time is in the hands of the main thread.
LEMMA ClientStep ==
    ASSUME TypeOK, OffInv, ClientInv, Next
    PROVE  ClientInv'
<1> USE ConnectionsAssumption DEF ConnectionsAssumption, TypeOK, ClientInv,
                                  Holding
<1>1. CASE Interrupt \/ ShutDown
  BY <1>1 DEF Interrupt, ShutDown, CloseSocket
<1>2. CASE NetworkServerInit \/ EnterLoop \/ LeaveLoop \/ AcceptShutDown
  BY <1>2 DEF NetworkServerInit, EnterLoop, LeaveLoop, AcceptShutDown
<1>3. CASE NextRound \/ CompareCount \/ SendReady \/ ClientConnected
  BY <1>3 DEF NextRound, CompareCount, SendReady, ClientConnected
<1>4. ASSUME NEW c \in Conn, Accept(c) PROVE ClientInv'
  BY <1>4 DEF Accept
<1>5. CASE SendBusy \/ SendReadyFails
  BY <1>5 DEF SendBusy, SendReadyFails, NoReady, Drop
<1>6. CASE CreateThread
  BY <1>6 DEF CreateThread
<1>7. CASE MainFails
  BY <1>7 DEF MainFails, InitFails, AcceptFails, SendReadyError, NoReady,
              CreateFails, Drop
<1>8. CASE Cleanup
  BY <1>8 DEF Cleanup, FreeSuccessor, CloseSession, NetworkServerClose,
              ListSkelDestroy, Exit, Ends, ExitStep, CloseSocket
<1>9. ASSUME NEW c \in Conn, PeerConnects(c) \/ PeerLeaves(c) PROVE ClientInv'
  <2>1. UNCHANGED <<main, client>>
    BY <1>9 DEF PeerConnects, PeerLeaves, PeerStep
  <2>2. \/ conn' = conn
        \/ conn[c] = "off" /\ conn' = [conn EXCEPT ![c] = "queued"]
    BY <1>9 DEF PeerConnects, PeerLeaves, OffInv
  <2> QED
    BY <2>1, <2>2
<1>10. ASSUME NEW c \in Conn, Receive(c) \/ ServeClient(c) \/ ThreadFails(c)
       PROVE  ClientInv'
  BY <1>10 DEF Receive, ServeClient, ThreadFails, ReceiveError, SendError,
               CheckRunning, ReceiveFails, NoRequest, LogRequest, Invoke, Send,
               SendFails, NoReply, Close, ClientDisconnected, ThreadStep, Ends
<1>11. ASSUME NEW c \in Conn, UseFreedSuccessor(c) \/ UseDestroyed(c)
       PROVE  ClientInv'
  BY <1>11 DEF UseFreedSuccessor, UseDestroyed, Ends
<1> QED
  BY <1>1, <1>2, <1>3, <1>4, <1>5, <1>6, <1>7, <1>8, <1>9, <1>10, <1>11
     DEF Next, MainLoop

\* A peer is told READY or BUSY only by the main thread, and only once.
LEMMA StatusStep ==
    ASSUME TypeOK, OffInv, ClientInv, StatusInv, Next
    PROVE  StatusInv'
<1> USE ConnectionsAssumption DEF ConnectionsAssumption, TypeOK, ClientInv,
                                  Holding, StatusInv
<1>1. CASE Interrupt \/ ShutDown
  BY <1>1 DEF Interrupt, ShutDown, CloseSocket, peerVars
<1>2. CASE NetworkServerInit \/ EnterLoop \/ LeaveLoop \/ AcceptShutDown
  BY <1>2 DEF NetworkServerInit, EnterLoop, LeaveLoop, AcceptShutDown, peerVars
<1>3. CASE NextRound \/ CompareCount \/ SendReady \/ ClientConnected
  BY <1>3 DEF NextRound, CompareCount, SendReady, ClientConnected
<1>4. ASSUME NEW c \in Conn, Accept(c) PROVE StatusInv'
  BY <1>4 DEF Accept
<1>5. CASE SendBusy \/ SendReadyFails
  BY <1>5 DEF SendBusy, SendReadyFails, NoReady, Drop
<1>6. CASE CreateThread
  BY <1>6 DEF CreateThread
<1>7. CASE MainFails
  BY <1>7 DEF MainFails, InitFails, AcceptFails, SendReadyError, NoReady,
              CreateFails, Drop
<1>8. CASE Cleanup
  BY <1>8 DEF Cleanup, FreeSuccessor, CloseSession, NetworkServerClose,
              ListSkelDestroy, Exit, Ends, ExitStep, CloseSocket, peerVars
<1>9. ASSUME NEW c \in Conn, PeerConnects(c) \/ PeerLeaves(c) PROVE StatusInv'
  <2>1. UNCHANGED <<main, client, status>>
    BY <1>9 DEF PeerConnects, PeerLeaves, PeerStep
  <2>2. \/ conn' = conn
        \/ conn[c] = "off" /\ conn' = [conn EXCEPT ![c] = "queued"]
    BY <1>9 DEF PeerConnects, PeerLeaves, OffInv
  <2> QED
    BY <2>1, <2>2
<1>10. ASSUME NEW c \in Conn, Receive(c) \/ ServeClient(c) \/ ThreadFails(c)
       PROVE  StatusInv'
  BY <1>10 DEF Receive, ServeClient, ThreadFails, ReceiveError, SendError,
               CheckRunning, ReceiveFails, NoRequest, LogRequest, Invoke, Send,
               SendFails, NoReply, Close, ClientDisconnected, ThreadStep, Ends,
               peerVars
<1>11. ASSUME NEW c \in Conn, UseFreedSuccessor(c) \/ UseDestroyed(c)
       PROVE  StatusInv'
  BY <1>11 DEF UseFreedSuccessor, UseDestroyed, Ends, peerVars
<1> QED
  BY <1>1, <1>2, <1>3, <1>4, <1>5, <1>6, <1>7, <1>8, <1>9, <1>10, <1>11
     DEF Next, MainLoop

\* After the signal a thread that has answered goes to its last check, and
\* the main thread out of its loop.
LEMMA LateStep ==
    ASSUME TypeOK, OffInv, ClientInv, LateInv, Next
    PROVE  LateInv'
<1> USE ConnectionsAssumption DEF ConnectionsAssumption, TypeOK, LateInv,
                                  Leaving, Resting
<1>1. CASE Interrupt \/ ShutDown
  BY <1>1 DEF Interrupt, ShutDown, CloseSocket, history
<1>2. CASE NetworkServerInit \/ EnterLoop \/ LeaveLoop \/ AcceptShutDown
  BY <1>2 DEF NetworkServerInit, EnterLoop, LeaveLoop, AcceptShutDown,
              history, LoopStep, stopVars
<1>3. CASE NextRound \/ CompareCount \/ SendReady \/ ClientConnected
  BY <1>3 DEF NextRound, CompareCount, SendReady, ClientConnected, history,
              LoopStep, stopVars
<1>4. ASSUME NEW c \in Conn, Accept(c) PROVE LateInv'
  BY <1>4 DEF Accept, history, LoopStep, stopVars
<1>5. CASE SendBusy \/ SendReadyFails
  BY <1>5 DEF SendBusy, SendReadyFails, NoReady, Drop, history, LoopStep,
              stopVars
<1>6. CASE CreateThread
  BY <1>6 DEF CreateThread, ClientInv, Holding, LoopStep, stopVars
<1>7. CASE MainFails
  <2>1. CASE InitFails \/ AcceptFails
    <3>1. UNCHANGED <<server_running, conn, lateThreads, lateRequests>>
      BY <2>1 DEF InitFails, AcceptFails, history, LoopStep, stopVars
    <3>2. main' = "exit"
      BY <2>1 DEF InitFails, AcceptFails
    <3> QED
      BY <3>1, <3>2
  <2>2. CASE SendReadyError
    BY <2>2 DEF SendReadyError, NoReady, Drop, history, LoopStep, stopVars
  <2>3. CASE CreateFails
    BY <2>3 DEF CreateFails, Drop, history, LoopStep, stopVars
  <2> QED
    BY <1>7, <2>1, <2>2, <2>3 DEF MainFails
<1>8. CASE Cleanup
  BY <1>8 DEF Cleanup, FreeSuccessor, CloseSession, NetworkServerClose,
              ListSkelDestroy, Exit, Ends, ExitStep, CloseSocket, history,
              stopVars
<1>9. ASSUME NEW c \in Conn, PeerConnects(c) \/ PeerLeaves(c) PROVE LateInv'
  <2>1. UNCHANGED <<main, server_running, lateThreads, lateRequests>>
    BY <1>9 DEF PeerConnects, PeerLeaves, PeerStep, history, stopVars
  <2>2. \/ conn' = conn
        \/ conn[c] = "off" /\ conn' = [conn EXCEPT ![c] = "queued"]
    BY <1>9 DEF PeerConnects, PeerLeaves, OffInv
  <2> QED
    BY <2>1, <2>2
<1>10. ASSUME NEW c \in Conn, Receive(c) \/ ServeClient(c) \/ ThreadFails(c)
       PROVE  LateInv'
  <2>1. CASE Receive(c)
    BY <2>1 DEF Receive, ThreadStep, stopVars
  <2>2. CASE SendFails(c) \/ SendError(c)
    <3>1. UNCHANGED <<main, server_running, lateThreads, lateRequests>>
      BY <2>2 DEF SendFails, SendError, NoReply, ThreadStep, Ends, history,
                  stopVars
    <3>2. /\ conn[c] = "send"
          /\ conn' = [conn EXCEPT ![c] = "break"] \/ conn' = conn
      BY <2>2 DEF SendFails, SendError, NoReply, Ends
    <3> QED
      BY <3>1, <3>2
  <2>3. CASE CheckRunning(c)
    BY <2>3 DEF CheckRunning, ThreadStep, stopVars
  <2>4. CASE ReceiveFails(c) \/ ReceiveError(c)
    BY <2>4 DEF ReceiveFails, ReceiveError, NoRequest, ThreadStep, stopVars
  <2>5. CASE LogRequest(c) \/ Invoke(c) \/ Send(c)
    BY <2>5 DEF LogRequest, Invoke, Send, ThreadStep, stopVars
  <2>6. CASE Close(c) \/ ClientDisconnected(c)
    BY <2>6 DEF Close, ClientDisconnected, ThreadStep, stopVars
  <2> QED
    BY <1>10, <2>1, <2>2, <2>3, <2>4, <2>5, <2>6 DEF ServeClient, ThreadFails
<1>11. ASSUME NEW c \in Conn, UseFreedSuccessor(c) \/ UseDestroyed(c)
       PROVE  LateInv'
  <2>1. UNCHANGED <<main, server_running, lateThreads, lateRequests, conn>>
    BY <1>11 DEF UseFreedSuccessor, UseDestroyed, Ends, history, stopVars
  <2> QED
    BY <2>1
<1> QED
  BY <1>1, <1>2, <1>3, <1>4, <1>5, <1>6, <1>7, <1>8, <1>9, <1>10, <1>11
     DEF Next, MainLoop

\* Only PeerConnects opens a connection.
LEMMA OffStep ==
    ASSUME TypeOK, OffInv, ClientInv, Next
    PROVE  OffInv'
<1> USE DEF TypeOK, OffInv
<1>1. CASE Interrupt \/ ShutDown
  BY <1>1 DEF Interrupt, ShutDown, CloseSocket, peerVars
<1>2. CASE NetworkServerInit \/ EnterLoop \/ LeaveLoop \/ AcceptShutDown
  BY <1>2 DEF NetworkServerInit, EnterLoop, LeaveLoop, AcceptShutDown,
              LoopStep, peerVars
<1>3. CASE NextRound \/ CompareCount \/ SendReady \/ ClientConnected
  BY <1>3 DEF NextRound, CompareCount, SendReady, ClientConnected, LoopStep
<1>4. ASSUME NEW c \in Conn, Accept(c) PROVE OffInv'
  BY <1>4 DEF Accept, LoopStep
<1>5. CASE SendBusy \/ SendReadyFails \/ CreateThread
  BY <1>5, ConnectionsAssumption DEF ConnectionsAssumption, ClientInv, Holding,
                                     CreateThread, SendBusy, SendReadyFails,
                                     NoReady, Drop, LoopStep
<1>7. CASE MainFails
  BY <1>7, ConnectionsAssumption DEF ConnectionsAssumption, ClientInv, Holding,
                                     MainFails, InitFails, AcceptFails,
                                     SendReadyError, NoReady, CreateFails, Drop,
                                     LoopStep
<1>8. CASE Cleanup
  BY <1>8 DEF Cleanup, FreeSuccessor, CloseSession, NetworkServerClose,
              ListSkelDestroy, Exit, Ends, ExitStep, CloseSocket, peerVars
<1>10. ASSUME NEW c \in Conn, PeerConnects(c) \/ PeerLeaves(c) PROVE OffInv'
  BY <1>10 DEF PeerConnects, PeerLeaves
<1>11. ASSUME NEW c \in Conn, Receive(c) \/ ServeClient(c) \/ ThreadFails(c)
       PROVE  OffInv'
  BY <1>11 DEF Receive, ServeClient, ThreadFails, ReceiveError, SendError,
               CheckRunning, ReceiveFails, NoRequest, LogRequest, Invoke, Send,
               SendFails, NoReply, Close, ClientDisconnected, ThreadStep, Ends,
               peerVars
<1>12. ASSUME NEW c \in Conn, UseFreedSuccessor(c) \/ UseDestroyed(c)
       PROVE  OffInv'
  BY <1>12 DEF UseFreedSuccessor, UseDestroyed, Ends, peerVars
<1> QED
  BY <1>1, <1>2, <1>3, <1>4, <1>5, <1>7, <1>8, <1>10, <1>11, <1>12
     DEF Next, MainLoop

\* There are finitely many counted connections, before a step and after it.
LEMMA CountedFinite ==
    /\ IsFiniteSet(Counted) /\ IsFiniteSet(Counted')
    /\ Cardinality(Counted) \in Nat /\ Cardinality(Counted') \in Nat
<1>1. Counted \in SUBSET Conn /\ Counted' \in SUBSET Conn
  BY DEF Counted
<1> HIDE DEF Counted
<1>2. IsFiniteSet(Counted) /\ IsFiniteSet(Counted')
  BY <1>1, ConnectionsAssumption, FS_Subset DEF ConnectionsAssumption
<1> QED
  BY <1>2, FS_CardinalityType

\* The counter changes exactly when the set of counted connections does:
\* <1>1 no connection enters or leaves it, <1>2 one leaves, <1>3 one enters.
LEMMA CountedStep ==
    ASSUME TypeOK, OffInv, ClientInv, CounterIsRight, Next
    PROVE  CounterIsRight' /\ client_count' \in Nat
<1> SUFFICES CounterIsRight'
  BY CountedFinite DEF CounterIsRight
<1> USE DEF CounterIsRight, Thread
<1>1. ASSUME UNCHANGED client_count,
             \A c \in Conn : c \in Counted <=> c \in Counted'
      PROVE  CounterIsRight'
  <2>1. Counted' = Counted
    BY <1>1 DEF Counted
  <2> QED
    BY <1>1, <2>1
<1>2. ASSUME NEW c \in Counted, client_count' = client_count - 1,
             \A d \in Conn : d \in Counted' <=> d \in Counted /\ d # c
      PROVE  CounterIsRight'
  <2>1. Counted' = Counted \ {c}
    BY <1>2 DEF Counted
  <2>2. Cardinality(Counted') = Cardinality(Counted) - 1
    BY <2>1, CountedFinite, FS_RemoveElement
  <2> QED
    BY <1>2, <2>2
<1>3. ASSUME NEW c \in Conn, c \notin Counted,
             client_count' = client_count + 1,
             \A d \in Conn : d \in Counted' <=> d \in Counted \/ d = c
      PROVE  CounterIsRight'
  <2>1. Counted' = Counted \cup {c}
    BY <1>3 DEF Counted
  <2>2. Cardinality(Counted') = Cardinality(Counted) + 1
    BY <1>3, <2>1, CountedFinite, FS_AddElement
  <2> QED
    BY <1>3, <2>2
<1> USE DEF TypeOK, ClientInv, Holding, Counted
<1>4. CASE Interrupt \/ ShutDown
  <2>1. UNCHANGED <<client_count, main, client>>
    BY <1>4 DEF Interrupt, ShutDown
  <2>2. \A c \in Conn : conn'[c] \in Thread <=> conn[c] \in Thread
    BY <1>4 DEF Interrupt, ShutDown, CloseSocket
  <2> QED
    BY <1>1, <2>1, <2>2
<1>5. CASE NetworkServerInit \/ EnterLoop \/ LeaveLoop \/ AcceptShutDown
  <2>1. UNCHANGED <<client_count, conn>>
    BY <1>5 DEF NetworkServerInit, EnterLoop, LeaveLoop, AcceptShutDown
  <2>2. main # "create" /\ main' # "create"
    BY <1>5 DEF NetworkServerInit, EnterLoop, LeaveLoop, AcceptShutDown
  <2> QED
    BY <1>1, <2>1, <2>2
<1>6. CASE NextRound \/ CompareCount \/ SendReady
  <2>1. UNCHANGED <<client_count, conn>>
    BY <1>6 DEF NextRound, CompareCount, SendReady
  <2>2. main # "create" /\ main' # "create"
    BY <1>6 DEF NextRound, CompareCount, SendReady
  <2> QED
    BY <1>1, <2>1, <2>2
<1>7. ASSUME NEW c \in Conn, Accept(c) PROVE CounterIsRight'
  <2>1. UNCHANGED client_count /\ main # "create" /\ main' # "create"
    BY <1>7 DEF Accept
  <2>2. \A d \in Conn : conn'[d] \in Thread <=> conn[d] \in Thread
    BY <1>7 DEF Accept
  <2> QED
    BY <1>1, <2>1, <2>2
<1>8. CASE SendBusy \/ SendReadyFails \/ SendReadyError \/ InitFails
           \/ AcceptFails
  <2>1. UNCHANGED client_count /\ main # "create" /\ main' # "create"
    BY <1>8 DEF SendBusy, SendReadyFails, SendReadyError, NoReady, InitFails,
                AcceptFails, Drop
  <2>2. \A d \in Conn : conn'[d] \in Thread <=> conn[d] \in Thread
    BY <1>8 DEF SendBusy, SendReadyFails, SendReadyError, NoReady, InitFails,
                AcceptFails, Drop
  <2> QED
    BY <1>1, <2>1, <2>2
<1>9. CASE ClientConnected
  <2>1. /\ client \in Conn /\ client \notin Counted
        /\ client_count' = client_count + 1
    BY <1>9 DEF ClientConnected
  <2>2. \A d \in Conn : d \in Counted' <=> d \in Counted \/ d = client
    BY <1>9 DEF ClientConnected
  <2> QED
    BY <1>3, <2>1, <2>2
<1>10. CASE CreateThread
  <2>1. UNCHANGED client_count /\ client \in Conn
    BY <1>10 DEF CreateThread
  <2>2. \A d \in Conn : d \in Counted' <=> d \in Counted
    BY <1>10 DEF CreateThread
  <2> QED
    BY <1>1, <2>1, <2>2
<1>11. CASE CreateFails
  <2>1. client \in Counted /\ client_count' = client_count - 1
    BY <1>11 DEF CreateFails
  <2>2. \A d \in Conn : d \in Counted' <=> d \in Counted /\ d # client
    BY <1>11 DEF CreateFails, Drop
  <2> QED
    BY <1>2, <2>1, <2>2
<1>12. CASE Cleanup
  <2>1. /\ UNCHANGED client_count
        /\ main # "create" /\ main' # "create"
    BY <1>12 DEF Cleanup, FreeSuccessor, CloseSession, NetworkServerClose,
                 ListSkelDestroy, Exit, Ends, ExitStep
  <2>2. \A d \in Conn : conn'[d] \in Thread <=> conn[d] \in Thread
    BY <1>12 DEF Cleanup, FreeSuccessor, CloseSession, NetworkServerClose,
                 ListSkelDestroy, Exit, Ends, CloseSocket
  <2> QED
    BY <1>1, <2>1, <2>2
<1>13. ASSUME NEW c \in Conn, PeerConnects(c) \/ PeerLeaves(c)
       PROVE  CounterIsRight'
  <2>1. UNCHANGED <<client_count, main, client>>
    BY <1>13 DEF PeerConnects, PeerLeaves, PeerStep
  <2>2. \A d \in Conn : conn'[d] \in Thread <=> conn[d] \in Thread
    BY <1>13 DEF PeerConnects, PeerLeaves, OffInv
  <2> QED
    BY <1>1, <2>1, <2>2
<1>14. ASSUME NEW c \in Conn, ClientDisconnected(c) PROVE CounterIsRight'
  <2>1. c \in Counted /\ client_count' = client_count - 1
    BY <1>14 DEF ClientDisconnected
  <2>2. \A d \in Conn : d \in Counted' <=> d \in Counted /\ d # c
    BY <1>14, ConnectionsAssumption
       DEF ConnectionsAssumption, ClientDisconnected, ThreadStep
  <2> QED
    BY <1>2, <2>1, <2>2
<1>15. ASSUME NEW c \in Conn, Receive(c) \/ CheckRunning(c) \/ ReceiveFails(c)
                              \/ LogRequest(c) \/ Invoke(c) \/ Send(c)
                              \/ SendFails(c) \/ Close(c) \/ ThreadFails(c)
       PROVE  CounterIsRight'
  <2>1. UNCHANGED <<client_count, main, client>>
    BY <1>15 DEF Receive, ThreadFails, ReceiveError, SendError,
                 CheckRunning, ReceiveFails, NoRequest, LogRequest,
                 Invoke, Send, SendFails, NoReply, Close, ThreadStep, Ends
  <2>2. \A d \in Conn : conn'[d] \in Thread <=> conn[d] \in Thread
    BY <1>15 DEF Receive, ThreadFails, ReceiveError, SendError,
                 CheckRunning, ReceiveFails, NoRequest, LogRequest,
                 Invoke, Send, SendFails, NoReply, Close, Ends
  <2> QED
    BY <1>1, <2>1, <2>2
<1>16. ASSUME NEW c \in Conn, UseFreedSuccessor(c) \/ UseDestroyed(c)
       PROVE  CounterIsRight'
  <2>1. UNCHANGED <<client_count, main, client, conn>>
    BY <1>16 DEF UseFreedSuccessor, UseDestroyed, Ends
  <2> QED
    BY <1>1, <2>1
<1> QED
  BY <1>4, <1>5, <1>6, <1>7, <1>8, <1>9, <1>10, <1>11, <1>12, <1>13, <1>14,
     <1>15, <1>16 DEF Next, MainLoop, MainFails, ServeClient

\* From the comparison to client_connected nobody counts up.
LEMMA CountStep ==
    ASSUME TypeOK, ClientInv, CountInv, CounterIsRight,
           client_count' \in Nat, Next
    PROVE  CountInv'
<1> USE ConnectionsAssumption DEF ConnectionsAssumption, TypeOK, CountInv
<1>1. CASE Interrupt \/ ShutDown
  BY <1>1 DEF Interrupt, ShutDown
<1>2. CASE NetworkServerInit \/ EnterLoop \/ LeaveLoop \/ AcceptShutDown
  BY <1>2 DEF NetworkServerInit, EnterLoop, LeaveLoop, AcceptShutDown
<1>3. CASE NextRound \/ CompareCount \/ SendReady \/ ClientConnected
  BY <1>3 DEF NextRound, CompareCount, SendReady, ClientConnected
<1>4. ASSUME NEW c \in Conn, Accept(c) PROVE CountInv'
  BY <1>4 DEF Accept
<1>5. CASE SendBusy \/ SendReadyFails \/ CreateThread
  BY <1>5 DEF SendBusy, SendReadyFails, NoReady, Drop, CreateThread
<1>6. CASE MainFails
  <2>1. CASE InitFails \/ AcceptFails
    BY <2>1 DEF InitFails, AcceptFails
  <2>2. CASE SendReadyError \/ CreateFails
    BY <2>2 DEF SendReadyError, NoReady, CreateFails, Drop
  <2> QED
    BY <1>6, <2>1, <2>2 DEF MainFails
<1>7. CASE Cleanup
  BY <1>7 DEF Cleanup, FreeSuccessor, CloseSession, NetworkServerClose,
              ListSkelDestroy, Exit, Ends, ExitStep
<1>8. ASSUME NEW c \in Conn, PeerConnects(c) \/ PeerLeaves(c) PROVE CountInv'
  BY <1>8 DEF PeerConnects, PeerLeaves, PeerStep
<1>9. ASSUME NEW c \in Conn, Receive(c) \/ ServeClient(c) \/ ThreadFails(c)
      PROVE  CountInv'
  <2>1. UNCHANGED main /\ client_count' \in {client_count, client_count - 1}
    BY <1>9 DEF Receive, ServeClient, ThreadFails, ReceiveError, SendError,
                CheckRunning, ReceiveFails, NoRequest, LogRequest, Invoke, Send,
                SendFails, NoReply, Close, ClientDisconnected, ThreadStep, Ends
  <2> QED
    BY <2>1
<1>10. ASSUME NEW c \in Conn, UseFreedSuccessor(c) \/ UseDestroyed(c)
       PROVE  CountInv'
  BY <1>10 DEF UseFreedSuccessor, UseDestroyed, Ends
<1> QED
  BY <1>1, <1>2, <1>3, <1>4, <1>5, <1>6, <1>7, <1>8, <1>9, <1>10
     DEF Next, MainLoop

\* A connection begins to end for a reason that stays: CheckRunning alone
\* has none, and finds server_running cleared.
LEMMA ReasonStep ==
    ASSUME TypeOK, OffInv, ClientInv, StatusInv, ReasonInv, Next
    PROVE  ReasonInv'
<1> USE ConnectionsAssumption DEF ConnectionsAssumption, TypeOK, ReasonInv,
                                  DroppedForAReason
<1>1. CASE Interrupt \/ ShutDown
  BY <1>1 DEF Interrupt, ShutDown
<1>2. CASE NetworkServerInit \/ EnterLoop \/ LeaveLoop \/ AcceptShutDown
  BY <1>2 DEF NetworkServerInit, EnterLoop, LeaveLoop, AcceptShutDown,
              peerVars, faultVars, LoopStep, stopVars
<1>3. CASE NextRound \/ CompareCount \/ SendReady \/ ClientConnected
  BY <1>3 DEF NextRound, CompareCount, SendReady, ClientConnected, ClientInv,
              Holding, faultVars, LoopStep, stopVars
<1>4. ASSUME NEW c \in Conn, Accept(c) PROVE ReasonInv'
  BY <1>4 DEF Accept, faultVars, LoopStep, stopVars
<1>5. CASE SendBusy \/ SendReadyFails \/ CreateThread
  BY <1>5 DEF SendBusy, SendReadyFails, NoReady, CreateThread, ClientInv,
              Holding, Drop, faultVars, LoopStep, stopVars
<1>6. CASE InitFails \/ AcceptFails
  <2>1. UNCHANGED <<server_running, handler, conn, peer, status, failed>>
    BY <1>6 DEF InitFails, AcceptFails, LoopStep, stopVars
  <2>2. main \notin {"list", "end"}
    BY <1>6 DEF InitFails, AcceptFails
  <2> QED
    BY <2>1, <2>2
<1>7. CASE SendReadyError \/ CreateFails
  BY <1>7 DEF SendReadyError, NoReady, CreateFails, Failure, Drop, LoopStep,
              stopVars
<1>8. CASE Cleanup
  <2>1. CASE NetworkServerClose
    <3>1. UNCHANGED <<server_running, handler, peer, status, failed>>
      BY <2>1 DEF NetworkServerClose, ExitStep, stopVars, peerVars, faultVars
    <3>2. main' = "list"
      BY <2>1 DEF NetworkServerClose
    <3>3. \A c \in Conn :
             conn'[c] = conn[c] \/ (conn[c] = "queued" /\ conn'[c] = "gone")
      BY <2>1 DEF NetworkServerClose, CloseSocket
    <3>4. \A c \in Conn : conn[c] = "queued" => status[c] = "none"
      BY DEF StatusInv
    <3> QED
      BY <3>1, <3>2, <3>3, <3>4
  <2>2. CASE FreeSuccessor \/ CloseSession \/ ListSkelDestroy \/ Exit
    BY <2>2 DEF FreeSuccessor, CloseSession, ListSkelDestroy, Exit, Ends,
                ExitStep, stopVars, peerVars, faultVars
  <2> QED
    BY <1>8, <2>1, <2>2 DEF Cleanup
<1>9. ASSUME NEW c \in Conn, PeerConnects(c) \/ PeerLeaves(c)
      PROVE  ReasonInv'
  BY <1>9 DEF PeerConnects, PeerLeaves, OffInv, PeerStep, stopVars, faultVars
<1>10. ASSUME NEW c \in Conn, Receive(c) \/ ServeClient(c) PROVE ReasonInv'
  <2>1. UNCHANGED <<server_running, handler, main, peer, status, failed>>
    BY <1>10 DEF Receive, ServeClient, CheckRunning, ReceiveFails, NoRequest,
                 LogRequest, Invoke, Send, SendFails, NoReply, Close,
                 ClientDisconnected, ThreadStep, Ends, stopVars, peerVars,
                 faultVars
  <2>2. CASE Receive(c) \/ LogRequest(c) \/ Invoke(c) \/ Send(c)
    BY <2>1, <2>2 DEF Receive, LogRequest, Invoke, Send
  <2>3. CASE CheckRunning(c)
    BY <2>1, <2>3 DEF CheckRunning
  <2>4. CASE ReceiveFails(c) \/ SendFails(c)
    BY <2>1, <2>4 DEF ReceiveFails, NoRequest, SendFails, NoReply, Ends
  <2>5. CASE Close(c) \/ ClientDisconnected(c)
    BY <2>1, <2>5 DEF Close, ClientDisconnected
  <2> QED
    BY <1>10, <2>2, <2>3, <2>4, <2>5 DEF ServeClient
<1>11. ASSUME NEW c \in Conn, ThreadFails(c) PROVE ReasonInv'
  <2>1. UNCHANGED <<server_running, handler, main, peer, status>>
    BY <1>11 DEF ThreadFails, ReceiveError, SendError, NoRequest, NoReply,
                 ThreadStep, Ends, stopVars, peerVars
  <2>2. /\ failed' = failed \cup {c}
        /\ conn' = [conn EXCEPT ![c] = "break"] \/ conn' = conn
    BY <1>11 DEF ThreadFails, ReceiveError, SendError, NoRequest, NoReply,
                 Failure, Ends
  <2> QED
    BY <2>1, <2>2
<1>12. ASSUME NEW c \in Conn, UseFreedSuccessor(c) \/ UseDestroyed(c)
       PROVE  ReasonInv'
  <2>1. UNCHANGED <<server_running, handler, main, conn, peer, status, failed>>
    BY <1>12 DEF UseFreedSuccessor, UseDestroyed, Ends, stopVars, peerVars,
                 faultVars
  <2> QED
    BY <2>1
<1> QED
  BY <1>1, <1>2, <1>3, <1>4, <1>5, <1>6, <1>7, <1>8, <1>9, <1>10, <1>11,
     <1>12 DEF Next, MainLoop, MainFails

\* Every peer that was told READY is counted, except for the one that
\* client_connected is about to count.
LEMMA LimitFollows ==
    ASSUME TypeOK, ClientInv, StatusInv, CounterIsRight, CountInv
    PROVE  LimitKept
<1> DEFINE Coming == IF main = "connected" THEN {client} ELSE {}
<1>1. Served \in SUBSET (Counted \cup Coming)
  <2> SUFFICES ASSUME NEW c \in Served PROVE c \in Counted \cup Coming
    OBVIOUS
  <2>1. /\ c \in Conn /\ status[c] # "none"
        /\ conn[c] \notin {"discount", "gone"}
    BY DEF Served
  <2>2. conn[c] \in Thread \/ conn[c] = "accepted"
    BY <2>1 DEF TypeOK, StatusInv, Conns
  <2>3. CASE conn[c] = "accepted"
    <3>1. client = c /\ main \in {"connected", "create"}
      BY <2>1, <2>3, ConnectionsAssumption
         DEF ClientInv, StatusInv, Holding, ConnectionsAssumption
    <3> QED
      BY <2>1, <3>1 DEF Counted
  <2> QED
    BY <2>1, <2>2, <2>3 DEF Counted
<1>2. /\ IsFiniteSet(Counted \cup Coming)
      /\ Cardinality(Counted \cup Coming) <= MAX_CLIENTS
  <2>1. CASE main = "connected"
    <3>1. /\ IsFiniteSet(Counted \cup {client})
          /\ Cardinality(Counted \cup {client}) <= Cardinality(Counted) + 1
      BY CountedFinite, FS_AddElement
    <3>2. Cardinality(Counted \cup {client}) \in Nat
      BY <3>1, FS_CardinalityType
    <3>3. Cardinality(Counted) < MAX_CLIENTS
      BY <2>1 DEF CounterIsRight, CountInv
    <3>4. Cardinality(Counted \cup {client}) <= MAX_CLIENTS
      <4> HIDE DEF Counted
      <4> QED
        BY <3>1, <3>2, <3>3, CountedFinite, ConnectionsAssumption
           DEF ConnectionsAssumption
    <3> QED
      BY <2>1, <3>1, <3>4
  <2>2. CASE main # "connected"
    BY <2>2, CountedFinite DEF CounterIsRight, CountInv
  <2> QED
    BY <2>1, <2>2
<1>3. /\ IsFiniteSet(Served)
      /\ Cardinality(Served) <= Cardinality(Counted \cup Coming)
  <2> HIDE DEF Coming
  <2> QED
    BY <1>1, <1>2, FS_Subset
<1> QED
  BY <1>2, <1>3, FS_CardinalityType, ConnectionsAssumption
     DEF LimitKept, ConnectionsAssumption

\* What LateInv says of the time after the signal is enough.
LEMMA LateFollows ==
    ASSUME LateInv
    PROVE  OneMoreRequest
<1>1. Cardinality(lateThreads) <= 1
  BY FS_EmptySet, FS_Singleton DEF LateInv
<1> QED
  BY <1>1 DEF LateInv, OneMoreRequest

\* The invariant holds when the server starts.
LEMMA InitIInv == Init => IInv
<1> SUFFICES ASSUME Init PROVE IInv
  OBVIOUS
<1>1. TypeOK
  <2>1. faults \in 0..MaxFaults
    BY ConnectionsAssumption DEF ConnectionsAssumption, Init
  <2>2. main \in Main /\ over \in Endings /\ log \in {"none", "open", "closed"}
    BY DEF Init, Main, Endings
  <2>3. conn \in [Conn -> Conns]
    BY DEF Init, Conns
  <2>4. /\ peer \in [Conn -> {"off", "open", "left"}]
        /\ status \in [Conn -> {"none", "READY", "BUSY"}]
        /\ lateRequests \in [Conn -> 0..2]
    BY DEF Init
  <2> QED
    BY <2>1, <2>2, <2>3, <2>4 DEF Init, TypeOK
<1>2. Counted = {}
  BY DEF Init, Counted, Thread
<1>3. CounterIsRight
  BY <1>2, FS_EmptySet DEF Init, CounterIsRight
<1>4. ClientInv /\ OffInv /\ StatusInv
  BY ConnectionsAssumption DEF ConnectionsAssumption, Init, ClientInv, OffInv,
                               StatusInv, Holding
<1>5. CountInv /\ ReasonInv /\ LateInv
  BY ConnectionsAssumption DEF ConnectionsAssumption, Init, CountInv,
                               ReasonInv, DroppedForAReason, LateInv
<1> QED
  BY <1>1, <1>3, <1>4, <1>5 DEF IInv

-----------------------------------------------------------------------------
(* The theorems. *)

\* The invariant is kept by every step.
LEMMA NextIInv == IInv /\ [Next]_vars => IInv'
<1> SUFFICES ASSUME IInv, [Next]_vars PROVE IInv'
  OBVIOUS
<1>1. CASE Next
  <2> USE <1>1 DEF IInv
  <2>1. CounterIsRight' /\ client_count' \in Nat
    BY CountedStep
  <2>2. TypeOK'
    BY <2>1, TypeStep
  <2>3. ClientInv' /\ OffInv' /\ StatusInv'
    BY ClientStep, OffStep, StatusStep
  <2>4. CountInv' /\ LateInv' /\ ReasonInv'
    BY <2>1, CountStep, LateStep, ReasonStep
  <2> QED
    BY <2>1, <2>2, <2>3, <2>4
<1>2. CASE UNCHANGED vars
  <2> USE <1>2 DEF vars, stopVars, socketVars, exitVars, peerVars, faultVars,
                        history
  <2>1. TypeOK'
    BY DEF IInv, TypeOK
  <2>2. ClientInv' /\ OffInv' /\ StatusInv'
    BY DEF IInv, ClientInv, OffInv, StatusInv
  <2>3. CounterIsRight' /\ CountInv'
    BY DEF IInv, CounterIsRight, Counted, CountInv
  <2>4. LateInv' /\ ReasonInv'
    BY DEF IInv, LateInv, ReasonInv, DroppedForAReason
  <2> QED
    BY <2>1, <2>2, <2>3, <2>4 DEF IInv
<1> QED
  BY <1>1, <1>2

\* The invariant holds in every reachable state.
LEMMA Invariant == Spec => []IInv
BY InitIInv, NextIInv, PTL DEF Spec

\* Type correctness, for any number of connections and failures.
THEOREM TypeCorrect == Spec => []TypeOK
<1>1. IInv => TypeOK
  BY DEF IInv
<1> QED
  BY <1>1, Invariant, PTL

\* The counter of connections is exact whatever the interleaving of the main
\* thread with the threads that end.
THEOREM CounterTheorem == Spec => []CounterIsRight
<1>1. IInv => CounterIsRight
  BY LimitFollows DEF IInv
<1> QED
  BY <1>1, Invariant, PTL

\* The limit of network_server.c:378 is kept although the comparison and the
\* increment of the counter are two steps.
THEOREM LimitTheorem == Spec => []LimitKept
<1>1. IInv => LimitKept
  BY LimitFollows DEF IInv
<1> QED
  BY <1>1, Invariant, PTL

\* After SIGINT a thread takes one more request at the most, and one more
\* thread is created at the most.
THEOREM OneMoreTheorem == Spec => []OneMoreRequest
<1>1. IInv => OneMoreRequest
  BY LateFollows DEF IInv
<1> QED
  BY <1>1, Invariant, PTL

\* A running server drops no peer but one that was told BUSY, has left, or
\* whose own connection failed.
THEOREM ReasonTheorem == Spec => []DroppedForAReason
<1>1. IInv => DroppedForAReason
  BY DEF IInv, ReasonInv
<1> QED
  BY <1>1, Invariant, PTL

=============================================================================
