--------------------------- MODULE ClientZkProofs ---------------------------
(***************************************************************************)
(* Proofs about ClientZk for any set of servers and any number of faults:  *)
(* type correctness, what becomes of the connections of a client, and that *)
(* a client with nothing left to do knows the chain as it is.              *)
(***************************************************************************)
EXTENDS ClientZk, FiniteSetTheorems, TLAPS

-----------------------------------------------------------------------------
(* The inductive invariant. *)

\* The threads run their own code, and a command has a connection.
PcInv ==
    /\ thread["main"].pc \in MainPc
    /\ thread["completion"].pc \in CompletionPc
    /\ command.pc # "none" => command.fd \in Fd

\* The semaphore: taken by at most one thread.
Holds(t) == thread[t].pc \in {"get", "hello", "closing"}

SemInv ==
    /\ mutex = 1 => \A t \in Thread : ~Holds(t)
    /\ \A t, u \in Thread : Holds(t) /\ Holds(u) => t = u

\* A thread starts with the head.
EndInv ==
    /\ thread["main"].pc \in {"init", "check"} => thread["main"].end = "head"
    /\ thread["completion"].pc \notin Connecting =>
          thread["completion"].end = "head"

\* A thread that waits for a handshake owns the connection; the two pointers
\* are two connections that are established.
FdInv ==
    /\ \A t \in Thread :
          /\ thread[t].fd # NULL <=> thread[t].pc = "hello"
          /\ thread[t].pc = "hello" =>
                /\ sock[thread[t].fd].hello # "read"
                /\ \A e \in End : rlist[e] # thread[t].fd
    /\ \A e \in End :
          rlist[e] # NULL => /\ sock[rlist[e]] # NoSock
                             /\ sock[rlist[e]].hello = "read"
    /\ \A e, d \in End : rlist[e] # NULL /\ rlist[e] = rlist[d] => e = d

\* There is one watch: it is set, or it has fired, or it is set again, unless
\* it is lost.
WatchInv ==
    /\ events <= 1
    /\ watch => /\ events = 0
                /\ thread["completion"].pc \notin {"children", "expired"}
                /\ session = "live" \/ thread["main"].pc = "exited"
    /\ events > 0 => thread["completion"].pc # "children"
    /\ thread["completion"].pc = "expired" => session = "closed"
    /\ thread["main"].pc = "init" =>
          /\ ~watch /\ events = 0
          /\ thread["completion"].pc \in {"idle", "expired"}
          /\ \A e \in End : rlist[e] = NULL

\* It is lost by a fault.
HearsInv ==
    session = "live" /\ ~watch /\ faults = 0 =>
        \/ events > 0
        \/ thread["completion"].pc = "children"
        \/ thread["main"].pc \in {"init", "closing", "exited"}

\* The ends a thread is still going to connect.
Ahead(t, e) ==
    thread[t].pc \in Connecting /\ (thread[t].end = "tail" => e = "tail")

MainTodo(e) == thread["main"].pc = "init" \/ Ahead("main", e)
WatcherTodo(e) ==
    thread["completion"].pc = "sleep" \/ Ahead("completion", e)

\* The ends that can lose no connection any more.
Spent ==
    {e \in End : ~MainTodo(e) /\ ~(WatcherTodo(e) /\ rlist[e] # NULL)}

LostInv ==
    /\ \A e \in End : MainTodo(e) /\ WatcherTodo(e) => rlist[e] = NULL
    /\ Cardinality(Lost) <= Cardinality(Spent)

AloneInv ==
    ~overlapped =>
        /\ Starting => thread["completion"].pc \in {"idle", "expired"}
        /\ \A e \in End : MainTodo(e) \/ WatcherTodo(e) => rlist[e] = NULL
        /\ Lost = {}

\* A server is in the chain from the moment it registers, and does not come
\* back.
LifeInv ==
    /\ \A s \in Server : life[s] \in {"joining", "ready"} => s \in znodes
    /\ \A s \in znodes : life[s] # "off"
    /\ thread["main"].pc \in Connecting =>
          /\ thread["main"].first \in Server
          /\ life[thread["main"].first] # "off"
          /\ thread["main"].last \in Server
          /\ life[thread["main"].last] # "off"

Gone(s) == s \in Server \ znodes /\ life[s] = "down"

\* The chain has been empty while the main thread waited for a handshake.
Emptied ==
    /\ thread["completion"].pc = "idle"
    /\ Gone(thread["main"].last)
    /\ \A e \in End : rlist[e] = NULL

Doomed ==
    /\ thread["completion"].pc = "idle"
    /\ \/ thread["main"].pc = "exited"
       \/ thread["main"].pc = "check" /\ \E e \in End : rlist[e] = NULL
       \/ /\ thread["main"].pc \in {"wait", "get"}
          /\ thread["main"].end = "tail"
          /\ Gone(thread["main"].last)
          /\ rlist["tail"] = NULL

FreshInv ==
    /\ watch /\ thread["completion"].pc = "none" => znodes = {}
    /\ watch /\ thread["completion"].pc = "hello" =>
          sock[thread["completion"].fd].server \in znodes
    /\ watch /\ thread["main"].pc = "hello"
             /\ thread["completion"].pc \notin {"clear", "none"} =>
          \/ sock[thread["main"].fd].server \in znodes
          \/ Emptied
    /\ watch /\ thread["completion"].pc \notin {"clear", "none"} =>
          \/ \A e \in End :
                rlist[e] # NULL => sock[rlist[e]].server \in znodes
          \/ Doomed

IInv ==
    /\ TypeOK /\ PcInv /\ SemInv /\ EndInv /\ FdInv /\ WatchInv /\ HearsInv
    /\ LostInv /\ AloneInv /\ LifeInv /\ FreshInv

-----------------------------------------------------------------------------
(* The steps of a thread, field by field. *)

Alone(t) == \A u \in Thread : u # t => thread'[u] = thread[u]

Moves(t, pc) ==
    /\ thread'[t].pc = pc
    /\ thread'[t].first = thread[t].first /\ thread'[t].last = thread[t].last
    /\ thread'[t].end = thread[t].end /\ thread'[t].fd = thread[t].fd
    /\ Alone(t)

Opens(t, fd) ==
    /\ thread'[t].pc = "hello" /\ thread'[t].fd = fd
    /\ thread'[t].first = thread[t].first /\ thread'[t].last = thread[t].last
    /\ thread'[t].end = thread[t].end
    /\ Alone(t)

Posts(t) ==
    /\ mutex' = mutex + 1
    /\ thread'[t].fd = NULL
    /\ thread'[t].first = thread[t].first /\ thread'[t].last = thread[t].last
    /\ thread[t].end = "head" =>
          thread'[t].end = "tail" /\ thread'[t].pc = "wait"
    /\ thread[t].end # "head" =>
          /\ thread'[t].end = "head"
          /\ thread'[t].pc = IF t = "main" THEN "check" ELSE "idle"
    /\ Alone(t)

Reads(t, empty, pc) ==
    \/ znodes = {} /\ Moves(t, empty)
    \/ /\ thread'[t].pc = pc
       /\ thread'[t].first \in znodes /\ thread'[t].last \in znodes
       /\ thread'[t].end = thread[t].end /\ thread'[t].fd = thread[t].fd
       /\ Alone(t)

LEMMA Steps ==
    ASSUME TypeOK, NEW t \in Thread
    PROVE  /\ \A pc : Goto(t, pc) => Moves(t, pc)
           /\ Post(t) => Posts(t)
           /\ \A fd :
                 thread' = [thread EXCEPT ![t].pc = "hello", ![t].fd = fd] =>
                    Opens(t, fd)
           /\ \A empty, pc : Children(t, empty, pc) => Reads(t, empty, pc)
<1>1. thread \in [Thread -> Local] /\ thread[t] \in Local
  BY DEF TypeOK
<1>2. ASSUME NEW pc, Goto(t, pc)
      PROVE  Moves(t, pc)
  BY <1>1, <1>2 DEF Goto, Moves, Alone, Local
<1>3. ASSUME Post(t)
      PROVE  Posts(t)
  BY <1>1, <1>3 DEF Post, Posts, Alone, Local
<1>4. ASSUME NEW fd,
             thread' = [thread EXCEPT ![t].pc = "hello", ![t].fd = fd]
      PROVE  Opens(t, fd)
  BY <1>1, <1>4 DEF Opens, Alone, Local
<1>5. ASSUME NEW empty, NEW pc, Children(t, empty, pc)
      PROVE  Reads(t, empty, pc)
  <2>1. CASE znodes = {}
    BY <1>2, <1>5, <2>1 DEF Children, Reads
  <2>2. CASE znodes # {}
    <3>1. PICK first \in znodes, last \in znodes :
             thread' = [thread EXCEPT
                          ![t].pc = pc, ![t].first = first, ![t].last = last]
      BY <1>5, <2>2 DEF Children
    <3> QED
      BY <1>1, <3>1 DEF Reads, Alone, Local
  <2> QED
    BY <2>1, <2>2
<1> QED
  BY <1>2, <1>3, <1>4, <1>5

\* The values a thread is given.
LEMMA ThreadType ==
    ASSUME TypeOK, NEW t \in Thread
    PROVE  /\ \A pc \in MainPc \cup CompletionPc :
                 Goto(t, pc) => thread' \in [Thread -> Local]
           /\ Post(t) => thread' \in [Thread -> Local]
           /\ \A fd \in Fd :
                 thread' = [thread EXCEPT ![t].pc = "hello", ![t].fd = fd] =>
                    thread' \in [Thread -> Local]
           /\ \A empty, pc \in MainPc \cup CompletionPc :
                 Children(t, empty, pc) => thread' \in [Thread -> Local]
<1>1. /\ thread \in [Thread -> Local] /\ thread[t] \in Local
      /\ znodes \subseteq Server
  BY DEF TypeOK
<1>0. {"wait", "hello", "check", "idle"} \subseteq MainPc \cup CompletionPc
  BY DEF MainPc, CompletionPc, Connecting
<1>2. ASSUME NEW pc \in MainPc \cup CompletionPc, Goto(t, pc)
      PROVE  thread' \in [Thread -> Local]
  BY <1>1, <1>2 DEF Goto, Local
<1>3. ASSUME Post(t)
      PROVE  thread' \in [Thread -> Local]
  BY <1>0, <1>1, <1>3 DEF Post, Local, End, NULL
<1>4. ASSUME NEW fd \in Fd,
             thread' = [thread EXCEPT ![t].pc = "hello", ![t].fd = fd]
      PROVE  thread' \in [Thread -> Local]
  BY <1>0, <1>1, <1>4 DEF Local
<1>5. ASSUME NEW empty \in MainPc \cup CompletionPc,
             NEW pc \in MainPc \cup CompletionPc, Children(t, empty, pc)
      PROVE  thread' \in [Thread -> Local]
  <2>1. CASE znodes = {}
    BY <1>2, <1>5, <2>1 DEF Children
  <2>2. CASE znodes # {}
    <3>1. PICK first \in znodes, last \in znodes :
             thread' = [thread EXCEPT
                          ![t].pc = pc, ![t].first = first, ![t].last = last]
      BY <1>5, <2>2 DEF Children
    <3> QED
      BY <1>1, <3>1 DEF Local
  <2> QED
    BY <2>1, <2>2
<1> QED
  BY <1>2, <1>3, <1>4, <1>5

\* The lowest descriptor that is not in use.
LEMMA FreeDescriptor ==
    ASSUME FreeFd # {}
    PROVE  NextFd \in Fd /\ sock[NextFd] = NoSock
<1>1. \E f \in FreeFd : \A g \in FreeFd : f <= g
  <2>1. FreeFd \subseteq 1..4
    BY DEF FreeFd, Fd
  <2>2. CASE 1 \in FreeFd
    BY <2>1, <2>2
  <2>3. CASE 1 \notin FreeFd /\ 2 \in FreeFd
    BY <2>1, <2>3
  <2>4. CASE 1 \notin FreeFd /\ 2 \notin FreeFd /\ 3 \in FreeFd
    BY <2>1, <2>4
  <2>5. CASE 1 \notin FreeFd /\ 2 \notin FreeFd /\ 3 \notin FreeFd
    <3>1. \A f \in FreeFd : f = 4
      BY <2>1, <2>5
    <3> QED
      BY <3>1
  <2> QED
    BY <2>2, <2>3, <2>4, <2>5
<1>2. NextFd \in FreeFd
  BY <1>1 DEF NextFd
<1> QED
  BY <1>2 DEF FreeFd

\* The two threads, the two ends.
LEMMA Threads ==
    /\ Thread = {"main", "completion"} /\ "main" # "completion"
    /\ End = {"head", "tail"} /\ "head" # "tail"
BY DEF Thread, End

-----------------------------------------------------------------------------
(* Type correctness. *)

LEMMA TypeNext ==
    ASSUME TypeOK, PcInv, SemInv, FdInv, Next
    PROVE  TypeOK'
<1> USE ClientAssumption, Threads
<1> DEFINE Commands == [pc : {"none", "send", "receive", "body", "elsewhere"},
                        fd : Fd \cup {NULL}, server : Server \cup {NULL},
                        mine : BOOLEAN]
<1>1. ASSUME NEW s \in Server, Register(s) \/ Lives(s) \/ Unregister(s)
      PROVE  TypeOK'
  <2>1. ASSUME Fire
        PROVE  watch' \in BOOLEAN /\ events' \in Nat
    <3>1. events \in Nat
      BY DEF TypeOK
    <3>2. events' = events \/ events' = events + 1
      BY <2>1, Zenon DEF Fire
    <3>3. events' \in Nat
      BY <3>1, <3>2
    <3>4. watch' \in BOOLEAN
      BY <2>1 DEF Fire
    <3> QED
      BY <3>3, <3>4
  <2>2. watch' \in BOOLEAN /\ events' \in Nat /\ znodes' \subseteq Server
    BY <1>1, <2>1 DEF Register, Lives, Unregister, TypeOK
  <2>3. life' \in [Server -> {"off", "joining", "ready", "down"}]
    BY <1>1 DEF Register, Lives, Unregister, TypeOK
  <2>4. OnlyChain
    BY <1>1 DEF Register, Lives, Unregister
  <2> QED
    BY <2>2, <2>3, <2>4 DEF TypeOK, OnlyChain
<1>2. CASE Expire
  <2>1. Fault => faults' \in 0..MaxFaults
    BY DEF Fault, TypeOK
  <2> QED
    BY <1>2, <2>1 DEF TypeOK, Expire, chainVars
<1>3. \A t \in Thread : \A pc \in MainPc \cup CompletionPc :
         Goto(t, pc) => thread' \in [Thread -> Local]
  BY ThreadType
<1>4. Fails => faults' \in 0..MaxFaults
  BY DEF Fails, Fault, TypeOK
<1>5. ASSUME NEW t \in Thread, Connect(t)
      PROVE  TypeOK'
  <2>1. CASE SemWait(t)
    <3>1. thread' \in [Thread -> Local]
      BY <1>3, <2>1 DEF SemWait, MainPc, Connecting
    <3> QED
      BY <2>1, <3>1 DEF TypeOK, SemWait, OnlyConnects, chainVars, zkVars
  <2>2. ASSUME Post(t), Holds(t)
        PROVE  thread' \in [Thread -> Local] /\ mutex' \in 0..1
    <3>1. mutex # 1
      BY <2>2 DEF SemInv
    <3>2. mutex' \in 0..1
      BY <2>2, <3>1 DEF Post, TypeOK
    <3> QED
      BY <2>2, <3>2, ThreadType
  <2>3. CASE GetFails(t)
    <3>1. thread' \in [Thread -> Local] /\ mutex' \in 0..1
      BY <2>2, <2>3 DEF GetFails, Holds
    <3>2. faults' \in 0..MaxFaults
      BY <1>4, <2>3 DEF GetFails, TypeOK
    <3> QED
      BY <2>3, <3>1, <3>2 DEF TypeOK, GetFails, OnlyConnects, chainVars, zkVars
  <2>4. CASE Refused(t)
    <3>1. thread' \in [Thread -> Local] /\ mutex' \in 0..1
      BY <2>2, <2>4 DEF Refused, Holds
    <3>2. rlist' \in [End -> Fd \cup {NULL}]
      BY <2>4 DEF Refused, TypeOK
    <3> QED
      BY <2>4, <3>1, <3>2 DEF TypeOK, Refused, OnlyConnects, chainVars, zkVars
  <2>5. CASE Accepted(t)
    <3>1. thread' \in [Thread -> Local]
      BY <2>5, FreeDescriptor, ThreadType DEF Accepted
    <3>2. sock' \in [Fd -> Sock \cup {NoSock}]
      <4>1. PICK hello \in {"READY", "BUSY"} :
               sock' = [sock EXCEPT ![NextFd] =
                          [server |-> Target(t), hello |-> hello]]
        BY <2>5 DEF Accepted
      <4>2. [server |-> Target(t), hello |-> hello] \in Sock
        BY <2>5 DEF Accepted, TypeOK, Sock
      <4> QED
        BY <4>1, <4>2 DEF TypeOK
    <3> QED
      BY <2>5, <3>1, <3>2 DEF TypeOK, Accepted, OnlyConnects, chainVars, zkVars
  <2>6. CASE Handshake(t)
    <3>1. thread' \in [Thread -> Local] /\ mutex' \in 0..1
      BY <2>2, <2>6 DEF Handshake, Holds
    <3>2. thread[t].fd \in Fd /\ sock[thread[t].fd] \in Sock
      BY <2>6 DEF Handshake, FdInv, TypeOK, Local, NoSock
    <3>3. /\ sock' \in [Fd -> Sock \cup {NoSock}]
          /\ rlist' \in [End -> Fd \cup {NULL}]
      BY <2>6, <3>2 DEF Handshake, TypeOK, Sock
    <3> QED
      BY <2>6, <3>1, <3>3 DEF TypeOK, Handshake, OnlyConnects, chainVars, zkVars
  <2> QED
    BY <1>5, <2>1, <2>3, <2>4, <2>5, <2>6 DEF Connect
<1>6. CASE Watcher
  <2>1. CASE ChildEvent
    <3>1. thread' \in [Thread -> Local]
      BY <1>3, <2>1 DEF ChildEvent, Callback, CompletionPc
    <3> QED
      BY <2>1, <3>1 DEF TypeOK, ChildEvent, Callback, OnlyWatcher, chainVars,
                        Starting
  <2>2. CASE GetChildren
    <3>1. thread' \in [Thread -> Local]
      BY <2>2, ThreadType DEF GetChildren, CompletionPc
    <3> QED
      BY <2>2, <3>1 DEF TypeOK, GetChildren, OnlyWatcher, chainVars
  <2>3. CASE GetChildrenFails
    <3>1. thread' \in [Thread -> Local]
      BY <1>3, <2>3 DEF GetChildrenFails, CompletionPc
    <3> QED
      BY <1>4, <2>3, <3>1 DEF TypeOK, GetChildrenFails, OnlyWatcher, chainVars,
                        zkVars
  <2>4. CASE Clear
    <3>1. thread' \in [Thread -> Local]
      BY <1>3, <2>4 DEF Clear, CompletionPc
    <3>2. /\ sock' \in [Fd -> Sock \cup {NoSock}]
          /\ rlist' \in [End -> Fd \cup {NULL}]
      BY <2>4 DEF Clear, DisconnectBoth, TypeOK
    <3>3. command' \in Commands
      BY <2>4 DEF Clear, DisconnectBoth, TypeOK
    <3> QED
      BY <2>4, <3>1, <3>2, <3>3
         DEF TypeOK, Clear, OnlyWatcher, chainVars, zkVars
  <2>5. CASE Sleep
    <3>1. thread' \in [Thread -> Local]
      BY <1>3, <2>5 DEF Sleep, CompletionPc, Connecting
    <3> QED
      BY <2>5, <3>1 DEF TypeOK, Sleep, OnlyWatcher, chainVars, zkVars
  <2>6. CASE SessionEvent
    <3>1. thread' \in [Thread -> Local]
      BY <1>3, <2>6 DEF SessionEvent, Callback, CompletionPc
    <3> QED
      BY <2>6, <3>1 DEF TypeOK, SessionEvent, Callback, OnlyWatcher, chainVars
  <2> QED
    BY <1>5, <1>6, <2>1, <2>2, <2>3, <2>4, <2>5, <2>6 DEF Watcher
<1>7. CASE ReadChildren
  <2>1. thread' \in [Thread -> Local]
    BY <1>7, ThreadType DEF ReadChildren, MainPc, Connecting
  <2> QED
    BY <1>7, <2>1 DEF TypeOK, ReadChildren, OnlyMain, chainVars
<1>8. CASE ReadChildrenFails \/ CheckConnected \/ Quit \/ TakeSemaphore
           \/ CloseHandle
  <2>1. thread' \in [Thread -> Local]
    BY <1>3, <1>8 DEF ReadChildrenFails, CheckConnected, Quit, TakeSemaphore,
                      CloseHandle, MainPc
  <2>2. CloseHandle => mutex # 1
    BY DEF CloseHandle, SemInv, Holds
  <2> QED
    BY <1>4, <1>8, <2>1, <2>2
       DEF TypeOK, ReadChildrenFails, CheckConnected, Quit, TakeSemaphore,
           CloseHandle, OnlyMain, chainVars, zkVars
<1>9. ASSUME NEW e \in End, Command(e)
      PROVE  TypeOK'
  <2>1. rlist[e] \in Fd /\ sock[rlist[e]] \in Sock
    BY <1>9 DEF Command, FdInv, TypeOK
  <2> QED
    BY <1>9, <2>1 DEF TypeOK, Command, OnlyCommand, OnlyMain, chainVars, zkVars,
                      Sock
<1>10. CASE Send \/ Reply \/ ReadBody \/ EndElsewhere
  <2>1. command \in Commands /\ NoCommand \in Commands
    BY DEF TypeOK, NoCommand
  <2>2. \A pc \in {"receive", "body"} : [command EXCEPT !.pc = pc] \in Commands
    BY <2>1
  <2> HIDE DEF Commands
  <2>3. command' \in Commands
    BY <1>10, <2>1, <2>2 DEF Send, Reply, ReadBody, EndElsewhere
  <2>4. OnlyCommand /\ UNCHANGED sock
    BY <1>10 DEF Send, Reply, ReadBody, EndElsewhere
  <2> QED
    BY <2>3, <2>4 DEF TypeOK, OnlyCommand, OnlyMain, chainVars, zkVars, Commands
<1>11. CASE ReadElsewhere
  <2>1. command.fd \in Fd /\ sock[command.fd] \in Sock
    BY <1>11 DEF ReadElsewhere, PcInv, TypeOK
  <2>2. sock' \in [Fd -> Sock \cup {NoSock}]
    BY <1>11, <2>1 DEF ReadElsewhere, TypeOK, Sock
  <2>3. command' \in Commands
    <3> DEFINE server == sock[command.fd].server
               waits == [command EXCEPT !.pc = "elsewhere", !.server = server]
    <3>1. command \in Commands /\ NoCommand \in Commands
      BY DEF TypeOK, NoCommand
    <3>2. server \in Server
      BY <2>1 DEF Sock
    <3> HIDE DEF server
    <3>3. waits \in Commands
      BY <3>1, <3>2
    <3>4. command' = NoCommand \/ command' = waits
      BY <1>11 DEF ReadElsewhere, server
    <3> QED
      BY <3>1, <3>3, <3>4
  <2> QED
    BY <1>11, <2>2, <2>3 DEF TypeOK, ReadElsewhere, OnlyCommand, OnlyMain,
                             chainVars, zkVars
<1> QED
  BY <1>1, <1>2, <1>5, <1>6, <1>7, <1>8, <1>9, <1>10, <1>11 DEF Next, Main

-----------------------------------------------------------------------------
(* The threads, the semaphore and the descriptors. *)

\* A step that opens and closes nothing.
Quietly ==
    /\ thread' = thread /\ rlist' = rlist /\ mutex' = mutex
    /\ \A f \in Fd :
          /\ sock'[f] = NoSock <=> sock[f] = NoSock
          /\ sock'[f].hello = "read" <=> sock[f].hello = "read"
          /\ sock'[f].server = sock[f].server

\* A command touches no pointer and no thread: it may read what was sent to
\* another connection.
LEMMA CommandSteps ==
    ASSUME TypeOK, PcInv,
           \/ \E e \in End : Command(e)
           \/ Send \/ Reply \/ ReadBody \/ ReadElsewhere \/ EndElsewhere
    PROVE  /\ Quietly
           /\ UNCHANGED <<chainVars, zkVars, overlapped, faults>>
<1>1. OnlyCommand
  BY DEF Command, Send, Reply, ReadBody, ReadElsewhere, EndElsewhere
<1>0. /\ thread' = thread /\ rlist' = rlist /\ mutex' = mutex
      /\ UNCHANGED <<chainVars, zkVars, overlapped, faults>>
  BY <1>1 DEF OnlyCommand, OnlyMain
<1>2. sock \in [Fd -> Sock \cup {NoSock}]
  BY DEF TypeOK
<1>3. CASE ReadElsewhere
  <2>1. CASE sock' = sock
    BY <1>0, <2>1 DEF Quietly
  <2>2. CASE sock' # sock
    <3>1. PICK hello \in {"taken", "torn"} :
             sock' = [sock EXCEPT ![command.fd].hello = hello]
      BY <1>3, <2>2 DEF ReadElsewhere
    <3>2. /\ command.fd \in Fd /\ sock[command.fd] \in Sock
          /\ sock[command.fd].hello # "read"
      BY <1>2, <1>3, <2>2 DEF ReadElsewhere, PcInv
    <3>3. /\ sock'[command.fd].hello = hello
          /\ sock'[command.fd].server = sock[command.fd].server
          /\ \A f \in Fd : f # command.fd => sock'[f] = sock[f]
      BY <1>2, <3>1, <3>2 DEF Sock
    <3>4. sock[command.fd] # NoSock /\ sock'[command.fd] # NoSock
      BY <3>2, <3>3 DEF NoSock
    <3> QED
      BY <1>0, <3>2, <3>3, <3>4 DEF Quietly
  <2> QED
    BY <1>0, <2>1, <2>2
<1>4. CASE ~ReadElsewhere
  <2>1. sock' = sock
    BY <1>4 DEF Command, Send, Reply, ReadBody, EndElsewhere
  <2> QED
    BY <1>0, <2>1 DEF Quietly
<1> QED
  BY <1>0, <1>3, <1>4

LEMMA LocalQuietly ==
    ASSUME TypeOK, SemInv, EndInv, FdInv, Quietly
    PROVE  SemInv' /\ EndInv' /\ FdInv'
<1>1. SemInv' /\ EndInv'
  BY DEF Quietly, SemInv, EndInv, Holds
<1>2. FdInv'
  <2>1. \A t \in Thread : thread[t].fd # NULL => thread[t].fd \in Fd
    BY DEF TypeOK, Local
  <2>2. \A e \in End : rlist[e] # NULL => rlist[e] \in Fd
    BY DEF TypeOK
  <2>3. ASSUME NEW t \in Thread
        PROVE  /\ thread'[t].fd # NULL <=> thread'[t].pc = "hello"
               /\ thread'[t].pc = "hello" =>
                     /\ sock'[thread'[t].fd].hello # "read"
                     /\ \A e \in End : rlist'[e] # thread'[t].fd
    BY <2>1 DEF Quietly, FdInv
  <2>4. ASSUME NEW e \in End
        PROVE  rlist'[e] # NULL => /\ sock'[rlist'[e]] # NoSock
                                   /\ sock'[rlist'[e]].hello = "read"
    BY <2>2 DEF Quietly, FdInv
  <2>5. \A e, d \in End : rlist'[e] # NULL /\ rlist'[e] = rlist'[d] => e = d
    BY DEF Quietly, FdInv
  <2> QED
    BY <2>3, <2>4, <2>5 DEF FdInv
<1> QED
  BY <1>1, <1>2

\* A thread that moves on and keeps to its descriptor.
LEMMA FdMoves ==
    ASSUME FdInv, NEW t \in Thread, Alone(t), thread[t].pc # "hello",
           thread'[t].pc # "hello", thread'[t].fd = thread[t].fd,
           sock' = sock, rlist' = rlist
    PROVE  FdInv'
<1>1. ASSUME NEW u \in Thread
      PROVE  /\ thread'[u].fd # NULL <=> thread'[u].pc = "hello"
             /\ thread'[u].pc = "hello" =>
                   /\ sock'[thread'[u].fd].hello # "read"
                   /\ \A e \in End : rlist'[e] # thread'[u].fd
  <2>1. CASE u = t
    BY <2>1 DEF FdInv
  <2>2. CASE u # t
    <3>1. thread'[u] = thread[u]
      BY <2>2 DEF Alone
    <3> QED
      BY <3>1 DEF FdInv
  <2> QED
    BY <2>1, <2>2
<1> QED
  BY <1>1 DEF FdInv

\* A step of thread t that neither opens nor closes a connection.
Pass(t, from, to) ==
    /\ thread[t].pc \in from /\ thread'[t].pc \in to
    /\ thread'[t].end = thread[t].end /\ thread'[t].fd = thread[t].fd
    /\ Alone(t)
    /\ sock' = sock /\ rlist' = rlist

\* The steps that open and close nothing, with the pc before and after.
LEMMA Passes ==
    ASSUME TypeOK
    PROVE  /\ \A t \in Thread :
                 SemWait(t) => Pass(t, {"wait"}, {"get"}) /\ mutex = 1
           /\ ChildEvent =>
                 Pass("completion", {"idle"}, {"children"}) /\ mutex' = mutex
           /\ GetChildren =>
                 /\ Pass("completion", {"children"}, {"none", "clear"})
                 /\ mutex' = mutex
           /\ GetChildrenFails =>
                 Pass("completion", {"children"}, {"idle"}) /\ mutex' = mutex
           /\ Sleep =>
                 Pass("completion", {"sleep"}, {"wait"}) /\ mutex' = mutex
           /\ SessionEvent =>
                 Pass("completion", {"idle"}, {"expired"}) /\ mutex' = mutex
           /\ ReadChildren =>
                 Pass("main", {"init"}, {"exited", "wait"}) /\ mutex' = mutex
           /\ ReadChildrenFails =>
                 Pass("main", {"init"}, {"exited"}) /\ mutex' = mutex
           /\ CheckConnected =>
                 /\ Pass("main", {"check"}, {"exited", "prompt"})
                 /\ mutex' = mutex
           /\ Quit => Pass("main", {"prompt"}, {"quit"}) /\ mutex' = mutex
           /\ TakeSemaphore =>
                 Pass("main", {"quit"}, {"closing"}) /\ mutex = 1 /\ mutex' = 0
           /\ CloseHandle =>
                 Pass("main", {"closing"}, {"exited"}) /\ mutex' = mutex + 1
<1>1. \A t \in Thread :
         /\ \A pc : Goto(t, pc) => Moves(t, pc)
         /\ \A empty, pc : Children(t, empty, pc) => Reads(t, empty, pc)
  BY Steps
<1>2. "main" \in Thread /\ "completion" \in Thread
  BY DEF Thread
<1>3. ASSUME NEW t \in Thread, SemWait(t)
      PROVE  Pass(t, {"wait"}, {"get"}) /\ mutex = 1
  BY <1>1, <1>3 DEF SemWait, Pass, Moves
<1>4. ASSUME ChildEvent
      PROVE  Pass("completion", {"idle"}, {"children"}) /\ mutex' = mutex
  BY <1>1, <1>2, <1>4 DEF ChildEvent, Callback, OnlyWatcher, Pass, Moves
<1>5. ASSUME GetChildren
      PROVE  /\ Pass("completion", {"children"}, {"none", "clear"})
             /\ mutex' = mutex
  BY <1>1, <1>2, <1>5 DEF GetChildren, OnlyWatcher, Pass, Reads, Moves
<1>6. ASSUME GetChildrenFails
      PROVE  Pass("completion", {"children"}, {"idle"}) /\ mutex' = mutex
  BY <1>1, <1>2, <1>6 DEF GetChildrenFails, OnlyWatcher, Pass, Moves
<1>7. ASSUME Sleep
      PROVE  Pass("completion", {"sleep"}, {"wait"}) /\ mutex' = mutex
  BY <1>1, <1>2, <1>7 DEF Sleep, OnlyWatcher, Pass, Moves
<1>8. ASSUME SessionEvent
      PROVE  Pass("completion", {"idle"}, {"expired"}) /\ mutex' = mutex
  BY <1>1, <1>2, <1>8 DEF SessionEvent, Callback, OnlyWatcher, Pass, Moves
<1>9. ASSUME ReadChildren
      PROVE  Pass("main", {"init"}, {"exited", "wait"}) /\ mutex' = mutex
  BY <1>1, <1>2, <1>9 DEF ReadChildren, OnlyMain, Pass, Reads, Moves
<1>10. ASSUME ReadChildrenFails
       PROVE  Pass("main", {"init"}, {"exited"}) /\ mutex' = mutex
  BY <1>1, <1>2, <1>10 DEF ReadChildrenFails, OnlyMain, Pass, Moves
<1>11. ASSUME CheckConnected
       PROVE  /\ Pass("main", {"check"}, {"exited", "prompt"})
              /\ mutex' = mutex
  BY <1>1, <1>2, <1>11 DEF CheckConnected, OnlyMain, Pass, Moves
<1>12. ASSUME Quit
       PROVE  Pass("main", {"prompt"}, {"quit"}) /\ mutex' = mutex
  BY <1>1, <1>2, <1>12 DEF Quit, OnlyMain, Pass, Moves
<1>13. ASSUME TakeSemaphore
       PROVE  Pass("main", {"quit"}, {"closing"}) /\ mutex = 1 /\ mutex' = 0
  BY <1>1, <1>2, <1>13 DEF TakeSemaphore, OnlyMain, Pass, Moves
<1>14. ASSUME CloseHandle
       PROVE  Pass("main", {"closing"}, {"exited"}) /\ mutex' = mutex + 1
  BY <1>1, <1>2, <1>14 DEF CloseHandle, OnlyMain, Pass, Moves
<1> QED
  BY <1>3, <1>4, <1>5, <1>6, <1>7, <1>8, <1>9, <1>10, <1>11, <1>12, <1>13,
     <1>14

\* The end of the old connections, with the semaphore or without.
Cleared ==
    /\ \/ /\ thread["completion"].pc = "clear" /\ mutex = 1
          /\ Moves("completion", "sleep")
       \/ /\ thread["completion"].pc \in {"none", "expired"}
          /\ Moves("completion", "idle")
    /\ \A e \in End : rlist'[e] = NULL
    /\ \A f \in Fd :
          sock'[f] = IF \E e \in End : rlist[e] = f THEN NoSock ELSE sock[f]
    /\ UNCHANGED <<chainVars, zkVars, mutex, overlapped, faults>>

LEMMA ClearSteps ==
    ASSUME TypeOK, Clear
    PROVE  Cleared
<1>1. \A e \in End : rlist'[e] = NULL
  BY DEF Clear, DisconnectBoth
<1>2. ASSUME NEW f \in Fd
      PROVE  sock'[f] = IF \E e \in End : rlist[e] = f THEN NoSock ELSE sock[f]
  BY <1>2 DEF Clear, DisconnectBoth
<1>3. UNCHANGED <<chainVars, zkVars, mutex, overlapped, faults>>
  BY DEF Clear, OnlyWatcher
<1>4. \A pc : Goto("completion", pc) => Moves("completion", pc)
  BY Steps, Threads
<1> QED
  BY <1>1, <1>2, <1>3, <1>4 DEF Clear, Cleared

\* The steps of a thread between its connections.
Between(t, from, to) ==
    Pass(t, from, to) /\ mutex' = mutex /\ command' = command

LEMMA BetweenSteps ==
    ASSUME TypeOK,
           \/ ChildEvent \/ GetChildren \/ GetChildrenFails \/ Sleep
           \/ SessionEvent \/ ReadChildren \/ ReadChildrenFails
           \/ CheckConnected \/ Quit
    PROVE  \/ Between("completion", {"idle"}, {"children", "expired"})
           \/ Between("completion", {"children"}, {"none", "clear", "idle"})
           \/ Between("completion", {"sleep"}, {"wait"})
           \/ Between("main", {"init"}, {"wait", "exited"})
           \/ Between("main", {"check"}, {"prompt", "exited"})
           \/ Between("main", {"prompt"}, {"quit"})
<1>1. command' = command
  BY DEF ChildEvent, Callback, GetChildren, GetChildrenFails, Sleep,
         SessionEvent, ReadChildren, ReadChildrenFails, CheckConnected, Quit
<1> QED
  BY <1>1, Passes DEF Between, Pass

LEMMA LocalNext ==
    ASSUME TypeOK, PcInv, SemInv, EndInv, FdInv, Next
    PROVE  PcInv' /\ SemInv' /\ EndInv' /\ FdInv'
<1> USE Threads
<1>0. /\ thread \in [Thread -> Local] /\ sock \in [Fd -> Sock \cup {NoSock}]
      /\ rlist \in [End -> Fd \cup {NULL}] /\ mutex \in 0..1
  BY DEF TypeOK
<1>1. ASSUME UNCHANGED <<thread, mutex, rlist, sock, command>>
      PROVE  PcInv' /\ SemInv' /\ EndInv' /\ FdInv'
  BY <1>1 DEF PcInv, SemInv, EndInv, FdInv, Holds
<1>2. ASSUME NEW s \in Server, Register(s) \/ Lives(s) \/ Unregister(s)
      PROVE  UNCHANGED <<thread, mutex, rlist, sock, command>>
  BY <1>2 DEF Register, Lives, Unregister, OnlyChain
<1>3. CASE Expire
  BY <1>1, <1>3 DEF Expire
<1>4. CASE \/ ChildEvent \/ GetChildren \/ GetChildrenFails \/ Sleep
           \/ SessionEvent \/ ReadChildren \/ ReadChildrenFails
           \/ CheckConnected \/ Quit
  <2>1. ASSUME NEW t \in Thread, NEW from, NEW to, Between(t, from, to),
               "hello" \notin from \cup to
        PROVE  FdInv'
    BY <2>1, FdMoves DEF Between, Pass
  <2>2. FdInv'
    BY <1>4, <2>1, BetweenSteps
  <2>3. PcInv' /\ SemInv' /\ EndInv'
    BY <1>4, BetweenSteps
       DEF Between, Pass, Alone, PcInv, SemInv, EndInv, Holds, MainPc,
           CompletionPc, Connecting
  <2> QED
    BY <2>2, <2>3
<1>5. ASSUME NEW t \in Thread, Connect(t)
      PROVE  PcInv' /\ SemInv' /\ EndInv' /\ FdInv'
  <2>0. command' = command
    BY <1>5 DEF Connect, SemWait, GetFails, Refused, Accepted, Handshake,
                OnlyConnects
  <2>1. CASE SemWait(t)
    <3>1. Pass(t, {"wait"}, {"get"}) /\ mutex = 1 /\ mutex' = 0
      BY <2>1, Passes DEF SemWait
    <3>2. FdInv'
      BY <3>1, FdMoves DEF Pass
    <3>3. PcInv' /\ SemInv' /\ EndInv'
      BY <2>0, <3>1 DEF Pass, Alone, PcInv, SemInv, EndInv, Holds, MainPc,
                        CompletionPc, Connecting
    <3> QED
      BY <3>2, <3>3
  <2>2. ASSUME Posts(t), Holds(t), thread[t].pc \in Connecting
        PROVE  PcInv' /\ SemInv' /\ EndInv'
    BY <1>0, <2>0, <2>2 DEF Posts, Alone, PcInv, SemInv, EndInv, Holds, MainPc,
                      CompletionPc, Connecting
  <2>3. CASE GetFails(t) \/ Refused(t)
    <3>1. Posts(t) /\ thread[t].pc = "get"
      BY <2>3, Steps DEF GetFails, Refused
    <3>2. thread'[t].pc # "hello" /\ thread'[t].fd = thread[t].fd /\ Alone(t)
      BY <3>1 DEF Posts, FdInv
    <3>3. sock' = sock
      BY <2>3 DEF GetFails, Refused
    <3>4. ASSUME rlist' = rlist
          PROVE  FdInv'
      BY <3>1, <3>2, <3>3, <3>4, FdMoves
    <3>5. ASSUME rlist' = [rlist EXCEPT ![thread[t].end] = NULL]
          PROVE  FdInv'
      <4>1. \A e \in End : rlist'[e] = NULL \/ rlist'[e] = rlist[e]
        BY <1>0, <3>5
      <4>2. \A u \in Thread :
               /\ thread'[u].fd = thread[u].fd
               /\ thread'[u].pc = "hello" <=> thread[u].pc = "hello"
        BY <3>1, <3>2 DEF Alone
      <4> QED
        BY <3>3, <4>1, <4>2 DEF FdInv
    <3>6. FdInv'
      BY <2>3, <3>4, <3>5 DEF GetFails, Refused
    <3>7. PcInv' /\ SemInv' /\ EndInv'
      BY <2>2, <3>1 DEF Holds, Connecting
    <3> QED
      BY <3>6, <3>7
  <2>4. CASE Accepted(t)
    <3>1. NextFd \in Fd /\ sock[NextFd] = NoSock
      BY <2>4, FreeDescriptor DEF Accepted
    <3>2. Opens(t, NextFd) /\ thread[t].pc = "get"
      BY <2>4, Steps DEF Accepted
    <3>3. /\ mutex' = mutex /\ rlist' = rlist
          /\ sock'[NextFd].hello \in {"READY", "BUSY"}
          /\ \A f \in Fd : f # NextFd => sock'[f] = sock[f]
      <4>1. PICK hello \in {"READY", "BUSY"} :
               sock' = [sock EXCEPT ![NextFd] =
                          [server |-> Target(t), hello |-> hello]]
        BY <2>4 DEF Accepted
      <4> QED
        BY <1>0, <2>4, <3>1, <4>1 DEF Accepted
    <3>4. PcInv' /\ SemInv' /\ EndInv'
      BY <2>0, <3>2, <3>3
         DEF Opens, Alone, PcInv, SemInv, EndInv, Holds, MainPc,
                              CompletionPc, Connecting
    <3>5. \A e \in End : rlist[e] # NULL => rlist[e] \in Fd /\ rlist[e] # NextFd
      BY <1>0, <3>1 DEF FdInv
    <3>6. \A u \in Thread :
             u # t => thread'[u].pc # "hello" /\ thread'[u].fd = NULL
      BY <3>2 DEF Opens, Alone, SemInv, Holds, FdInv
    <3>7. NextFd # NULL
      BY <3>1 DEF Fd, NULL
    <3>8. FdInv'
      BY <3>2, <3>3, <3>5, <3>6, <3>7 DEF FdInv, Opens
    <3> QED
      BY <3>4, <3>8
  <2>5. CASE Handshake(t)
    <3> DEFINE fd == thread[t].fd
               end == thread[t].end
    <3>1. thread[t].pc = "hello" /\ Posts(t)
      BY <2>5, Steps DEF Handshake
    <3>2. fd \in Fd /\ end \in End /\ sock[fd] \in Sock
      BY <1>0, <3>1 DEF FdInv, Local, NoSock
    <3>3. PcInv' /\ SemInv' /\ EndInv'
      BY <2>2, <3>1 DEF Holds, Connecting
    <3>4. \A u \in Thread : thread'[u].pc # "hello" /\ thread'[u].fd = NULL
      BY <3>1 DEF Posts, Alone, SemInv, Holds, FdInv
    <3>5. \A e \in End : rlist[e] # fd
      BY <3>1 DEF FdInv
    <3> HIDE DEF fd, end
    <3>6. ASSUME sock' = [sock EXCEPT ![fd].hello = "read"],
                 rlist' = [rlist EXCEPT ![end] = fd]
          PROVE  FdInv'
      <4>1. /\ sock'[fd].hello = "read" /\ sock'[fd].server \in Server
            /\ \A f \in Fd : f # fd => sock'[f] = sock[f]
        BY <1>0, <3>2, <3>6 DEF Sock
      <4>2. sock'[fd] # NoSock
        BY <4>1, ClientAssumption DEF NoSock
      <4>3. rlist'[end] = fd /\ \A e \in End : e # end => rlist'[e] = rlist[e]
        BY <1>0, <3>2, <3>6
      <4>4. ASSUME NEW e \in End, rlist'[e] # NULL
            PROVE  sock'[rlist'[e]] # NoSock /\ sock'[rlist'[e]].hello = "read"
        BY <1>0, <3>5, <4>1, <4>2, <4>3, <4>4 DEF FdInv
      <4>5. \A e, d \in End : rlist'[e] # NULL /\ rlist'[e] = rlist'[d] => e = d
        BY <3>5, <4>3 DEF FdInv
      <4> QED
        BY <3>4, <4>4, <4>5 DEF FdInv
    <3>7. ASSUME sock' = [sock EXCEPT ![fd] = NoSock],
                 rlist' = [rlist EXCEPT ![end] = NULL]
          PROVE  FdInv'
      <4>1. \A f \in Fd : f # fd => sock'[f] = sock[f]
        BY <1>0, <3>7
      <4>2. rlist'[end] = NULL /\ \A e \in End : e # end => rlist'[e] = rlist[e]
        BY <1>0, <3>2, <3>7
      <4>3. ASSUME NEW e \in End, rlist'[e] # NULL
            PROVE  sock'[rlist'[e]] # NoSock /\ sock'[rlist'[e]].hello = "read"
        BY <1>0, <3>5, <4>1, <4>2, <4>3 DEF FdInv
      <4>4. \A e, d \in End : rlist'[e] # NULL /\ rlist'[e] = rlist'[d] => e = d
        BY <4>2 DEF FdInv
      <4> QED
        BY <3>4, <4>3, <4>4 DEF FdInv
    <3> QED
      BY <2>5, <3>3, <3>6, <3>7 DEF Handshake, fd, end
  <2> QED
    BY <1>5, <2>1, <2>3, <2>4, <2>5 DEF Connect
<1>6. CASE Clear
  <2>1. /\ Moves("completion", "sleep") \/ Moves("completion", "idle")
        /\ thread["completion"].pc \in {"clear", "none", "expired"}
        /\ mutex' = mutex
    BY <1>6, ClearSteps DEF Cleared
  <2>2. \A e \in End : rlist'[e] = NULL
    BY <1>6, ClearSteps DEF Cleared
  <2>3. ASSUME NEW f \in Fd, \A e \in End : rlist[e] # f
        PROVE  sock'[f] = sock[f]
    BY <1>6, <2>3, ClearSteps DEF Cleared
  <2>4. PcInv'
    <3>1. command'.pc = command.pc /\ command'.fd = command.fd
      BY <1>6 DEF Clear, DisconnectBoth, TypeOK
    <3> QED
      BY <2>1, <3>1 DEF PcInv, Moves, Alone, CompletionPc
  <2>5. SemInv' /\ EndInv'
    BY <2>1 DEF SemInv, EndInv, Holds, Moves, Alone, Connecting
  <2>6. \A t \in Thread : /\ thread'[t].fd = thread[t].fd
                          /\ thread'[t].pc = "hello" <=> thread[t].pc = "hello"
    BY <2>1 DEF Moves, Alone
  <2>7. \A t \in Thread : thread[t].fd # NULL => thread[t].fd \in Fd
    BY <1>0 DEF Local
  <2>8. ASSUME NEW t \in Thread, thread'[t].pc = "hello"
        PROVE  /\ sock'[thread'[t].fd].hello # "read"
               /\ \A e \in End : rlist'[e] # thread'[t].fd
    BY <2>2, <2>3, <2>6, <2>7, <2>8 DEF FdInv
  <2>9. FdInv'
    BY <2>2, <2>6, <2>8 DEF FdInv
  <2> QED
    BY <2>4, <2>5, <2>9
<1>7. CASE TakeSemaphore
  <2>1. Pass("main", {"quit"}, {"closing"}) /\ mutex = 1 /\ mutex' = 0
    BY <1>7, Passes
  <2>2. FdInv'
    BY <2>1, FdMoves DEF Pass
  <2>3. PcInv' /\ SemInv' /\ EndInv'
    BY <1>7, <2>1 DEF TakeSemaphore, Pass, Alone, PcInv, SemInv, EndInv, Holds,
                      MainPc
  <2> QED
    BY <2>2, <2>3
<1>8. CASE CloseHandle
  <2>1. Pass("main", {"closing"}, {"exited"})
    BY <1>8, Passes
  <2>2. FdInv'
    BY <2>1, FdMoves DEF Pass
  <2>3. PcInv' /\ SemInv' /\ EndInv'
    BY <1>8, <2>1 DEF CloseHandle, Pass, Alone, PcInv, SemInv, EndInv, Holds,
                      MainPc
  <2> QED
    BY <2>2, <2>3
<1>9. CASE \/ \E e \in End : Command(e)
           \/ Send \/ Reply \/ ReadBody \/ ReadElsewhere \/ EndElsewhere
  <2>1. SemInv' /\ EndInv' /\ FdInv'
    BY <1>9, CommandSteps, LocalQuietly
  <2>2. command'.pc # "none" => command'.fd \in Fd
    <3>1. \A e \in End : Command(e) => command'.fd \in Fd
      BY <1>0 DEF Command
    <3>2. \/ command'.pc = "none"
          \/ command'.fd = command.fd /\ command.pc # "none"
          \/ \E e \in End : Command(e)
      <4>1. NoCommand.pc = "none"
        BY DEF NoCommand
      <4>2. /\ \A pc : [command EXCEPT !.pc = pc].fd = command.fd
            /\ \A pc, server :
                  [command EXCEPT !.pc = pc, !.server = server].fd = command.fd
        BY DEF TypeOK
      <4>3. CASE ReadElsewhere
        <5> DEFINE server == sock[command.fd].server
                   waits ==
                      [command EXCEPT !.pc = "elsewhere", !.server = server]
        <5>1. command' = NoCommand \/ command' = waits
          BY <4>3 DEF ReadElsewhere
        <5>2. command.pc # "none"
          BY <4>3 DEF ReadElsewhere
        <5>3. waits.fd = command.fd
          BY <4>2
        <5> QED
          BY <4>1, <5>1, <5>2, <5>3
      <4>4. CASE Send \/ Reply \/ ReadBody \/ EndElsewhere
        BY <4>1, <4>2, <4>4 DEF Send, Reply, ReadBody, EndElsewhere
      <4> QED
        BY <1>9, <4>3, <4>4
    <3> QED
      BY <3>1, <3>2 DEF PcInv
  <2>3. thread' = thread
    BY <1>9, CommandSteps DEF Quietly
  <2> QED
    BY <2>1, <2>2, <2>3 DEF PcInv
<1> QED
  BY <1>1, <1>2, <1>3, <1>4, <1>5, <1>6, <1>7, <1>8, <1>9
     DEF Next, Watcher, Main

-----------------------------------------------------------------------------
(* The watch and the chain. *)

\* A connection attempt by thread t, as the other parts of the state see it.
LEMMA ConnectSteps ==
    ASSUME TypeOK, NEW t \in Thread, Connect(t)
    PROVE  /\ thread[t].pc \in Connecting
           /\ thread'[t].pc \in Connecting
                 \/ thread'[t].pc = IF t = "main" THEN "check" ELSE "idle"
           /\ thread'[t].first = thread[t].first
           /\ thread'[t].last = thread[t].last
           /\ Alone(t)
           /\ UNCHANGED <<chainVars, zkVars, command, overlapped>>
           /\ faults' = faults \/ faults' = faults + 1
<1>1. UNCHANGED <<chainVars, zkVars, command, overlapped>>
  BY DEF Connect, SemWait, GetFails, Refused, Accepted, Handshake, OnlyConnects
<1>2. faults' = faults \/ faults' = faults + 1
  BY DEF Connect, SemWait, GetFails, Refused, Accepted, Handshake, Fails, Fault
<1>3. CASE SemWait(t)
  BY <1>1, <1>2, <1>3, Steps DEF SemWait, Moves, Connecting
<1>4. CASE Accepted(t)
  BY <1>1, <1>2, <1>4, Steps DEF Accepted, Opens, Connecting
<1>5. CASE GetFails(t) \/ Refused(t) \/ Handshake(t)
  <2>1. Posts(t) /\ thread[t].pc \in Connecting
    BY <1>5, Steps DEF GetFails, Refused, Handshake, Connecting
  <2> QED
    BY <1>1, <1>2, <2>1 DEF Posts, Connecting
<1> QED
  BY <1>3, <1>4, <1>5 DEF Connect

LEMMA WatchNext ==
    ASSUME TypeOK, PcInv, WatchInv, Next
    PROVE  WatchInv'
<1> USE Threads
<1>0. events \in Nat /\ watch \in BOOLEAN
  BY DEF TypeOK
<1>1. ASSUME NEW s \in Server, Register(s) \/ Lives(s) \/ Unregister(s)
      PROVE  WatchInv'
  <2>1. OnlyChain
    BY <1>1 DEF Register, Lives, Unregister
  <2>2. CASE watch' = watch /\ events' = events
    BY <2>1, <2>2 DEF WatchInv, OnlyChain
  <2>3. CASE Fire
    BY <1>0, <2>1, <2>3 DEF WatchInv, OnlyChain, Fire
  <2> QED
    BY <1>1, <2>2, <2>3 DEF Register, Lives, Unregister
<1>2. CASE Expire
  BY <1>2 DEF Expire, WatchInv
<1>3. CASE ChildEvent
  <2>1. Pass("completion", {"idle"}, {"children"})
    BY <1>3, Passes
  <2>2. events = 1 /\ events' = 0 /\ watch' = watch /\ session' = session
    BY <1>0, <1>3 DEF ChildEvent, Callback, WatchInv
  <2> QED
    BY <2>1, <2>2 DEF WatchInv, Pass, Alone
<1>4. CASE GetChildren
  <2>1. Pass("completion", {"children"}, {"none", "clear"})
    BY <1>4, Passes
  <2>2. session = "live" /\ events' = events /\ session' = session
    BY <1>4 DEF GetChildren, Usable
  <2> QED
    BY <1>0, <2>1, <2>2 DEF WatchInv, Pass, Alone
<1>5. CASE GetChildrenFails
  <2>1. Pass("completion", {"children"}, {"idle"})
    BY <1>5, Passes
  <2> QED
    BY <1>5, <2>1 DEF GetChildrenFails, zkVars, WatchInv, Pass, Alone
<1>6. CASE Sleep
  <2>1. Pass("completion", {"sleep"}, {"wait"})
    BY <1>6, Passes
  <2> QED
    BY <1>6, <2>1 DEF Sleep, zkVars, WatchInv, Pass, Alone
<1>7. CASE SessionEvent
  <2>1. /\ Pass("completion", {"idle"}, {"expired"})
        /\ thread["main"].pc # "exited"
    BY <1>7, Passes DEF Next
  <2>2. /\ session = "expired" /\ session' = "closed"
        /\ watch' = watch /\ events' = events
    BY <1>7 DEF SessionEvent, Callback
  <2> QED
    BY <2>1, <2>2 DEF WatchInv, Pass, Alone
<1>8. CASE Clear
  BY <1>8, ClearSteps DEF Cleared, zkVars, WatchInv, Moves, Alone
<1>9. ASSUME NEW t \in Thread, Connect(t)
      PROVE  WatchInv'
  <2>1. CASE t = "main"
    BY <1>9, <2>1, ConnectSteps DEF WatchInv, zkVars, Alone, Connecting
  <2>2. CASE t = "completion"
    BY <1>9, <2>2, ConnectSteps DEF WatchInv, zkVars, Alone, Connecting
  <2> QED
    BY <2>1, <2>2
<1>10. CASE ReadChildren
  <2>1. Pass("main", {"init"}, {"exited", "wait"})
    BY <1>10, Passes
  <2>2. session = "live" /\ session' = session /\ events' = events
    BY <1>10 DEF ReadChildren, Usable
  <2> QED
    BY <2>1, <2>2 DEF WatchInv, Pass, Alone
<1>11. CASE ReadChildrenFails \/ CheckConnected \/ Quit \/ TakeSemaphore
  <2>1. /\ UNCHANGED zkVars /\ Alone("main")
        /\ thread'["main"].pc \in {"exited", "prompt", "quit", "closing"}
        /\ thread["main"].pc # "exited"
    BY <1>11, Passes
       DEF ReadChildrenFails, CheckConnected, Quit, TakeSemaphore, Pass
  <2> QED
    BY <2>1 DEF WatchInv, zkVars, Alone
<1>12. CASE CloseHandle
  <2>1. Pass("main", {"closing"}, {"exited"})
    BY <1>12, Passes
  <2> QED
    BY <1>12, <2>1 DEF CloseHandle, WatchInv, Pass, Alone
<1>13. ASSUME thread' = thread, rlist' = rlist, UNCHANGED zkVars
       PROVE  WatchInv'
  BY <1>13 DEF WatchInv, zkVars
<1> QED
  BY <1>1, <1>2, <1>3, <1>4, <1>5, <1>6, <1>7, <1>8, <1>9, <1>10, <1>11, <1>12,
     <1>13, CommandSteps DEF Next, Watcher, Main, Quietly

LEMMA HearsNext ==
    ASSUME TypeOK, PcInv, WatchInv, HearsInv, Next
    PROVE  HearsInv'
<1> USE Threads
<1>0. events \in Nat /\ watch \in BOOLEAN /\ faults \in Nat
  BY ClientAssumption DEF TypeOK
<1>1. ASSUME NEW s \in Server, Register(s) \/ Lives(s) \/ Unregister(s)
      PROVE  HearsInv'
  <2>1. OnlyChain
    BY <1>1 DEF Register, Lives, Unregister
  <2>2. CASE watch' = watch /\ events' = events
    BY <2>1, <2>2 DEF HearsInv, OnlyChain
  <2>3. CASE Fire
    <3>1. watch => events' > 0
      BY <1>0, <2>3 DEF Fire
    <3>2. ~watch => events' = events
      BY <2>3 DEF Fire
    <3> QED
      BY <1>0, <2>1, <3>1, <3>2 DEF HearsInv, OnlyChain
  <2> QED
    BY <1>1, <2>2, <2>3 DEF Register, Lives, Unregister
<1>2. CASE Expire
  BY <1>2 DEF Expire, HearsInv
<1>3. CASE ChildEvent
  <2>1. Pass("completion", {"idle"}, {"children"})
    BY <1>3, Passes
  <2> QED
    BY <2>1 DEF HearsInv, Pass
<1>4. CASE GetChildren
  BY <1>4 DEF GetChildren, HearsInv
<1>5. CASE GetChildrenFails
  <2>1. Pass("completion", {"children"}, {"idle"}) /\ UNCHANGED zkVars
    BY <1>5, Passes DEF GetChildrenFails
  <2>2. Usable => faults' = faults + 1
    BY <1>5 DEF GetChildrenFails, Fails, Fault
  <2> QED
    BY <1>0, <2>1, <2>2 DEF HearsInv, zkVars, Pass, Alone, Usable
<1>6. CASE Sleep
  <2>1. Pass("completion", {"sleep"}, {"wait"})
    BY <1>6, Passes
  <2> QED
    BY <1>6, <2>1 DEF Sleep, zkVars, HearsInv, Pass, Alone
<1>7. CASE SessionEvent
  BY <1>7 DEF SessionEvent, HearsInv
<1>8. CASE Clear
  BY <1>8, ClearSteps DEF Cleared, zkVars, HearsInv, Moves, Alone
<1>9. ASSUME NEW t \in Thread, Connect(t)
      PROVE  HearsInv'
  <2>1. faults' = 0 => faults = 0
    BY <1>0, <1>9, ConnectSteps
  <2>2. CASE t = "main"
    BY <1>9, <2>1, <2>2, ConnectSteps DEF HearsInv, zkVars, Alone, Connecting
  <2>3. CASE t = "completion"
    BY <1>9, <2>1, <2>3, ConnectSteps DEF HearsInv, zkVars, Alone, Connecting
  <2> QED
    BY <2>2, <2>3
<1>10. CASE ReadChildren
  BY <1>10 DEF ReadChildren, HearsInv
<1>11. CASE ReadChildrenFails
  <2>1. Pass("main", {"init"}, {"exited"})
    BY <1>11, Passes
  <2> QED
    BY <2>1 DEF HearsInv, Pass
<1>12. CASE CheckConnected \/ Quit \/ TakeSemaphore
  <2>1. /\ UNCHANGED <<zkVars, faults>> /\ Alone("main")
        /\ thread["main"].pc \in {"check", "prompt", "quit"}
    BY <1>12, Passes DEF CheckConnected, Quit, TakeSemaphore, Pass
  <2> QED
    BY <2>1 DEF HearsInv, zkVars, Alone
<1>13. CASE CloseHandle
  BY <1>13 DEF CloseHandle, HearsInv
<1>14. ASSUME thread' = thread, UNCHANGED <<zkVars, faults>>
       PROVE  HearsInv'
  BY <1>14 DEF HearsInv, zkVars
<1> QED
  BY <1>1, <1>2, <1>3, <1>4, <1>5, <1>6, <1>7, <1>8, <1>9, <1>10, <1>11, <1>12,
     <1>13, <1>14, CommandSteps DEF Next, Watcher, Main, Quietly

\* Where the main thread is going stays, but for its reading of the children.
LEMMA MainReads ==
    ASSUME TypeOK, Next
    PROVE  \/ /\ ReadChildren
              /\ thread'["main"].pc \in Connecting =>
                    /\ thread'["main"].first \in znodes
                    /\ thread'["main"].last \in znodes
              /\ UNCHANGED chainVars
           \/ /\ thread'["main"].pc \in Connecting =>
                    thread["main"].pc \in Connecting
              /\ thread'["main"].first = thread["main"].first
              /\ thread'["main"].last = thread["main"].last
<1> USE Threads
<1>0. \A t \in Thread :
         /\ \A pc : Goto(t, pc) => Moves(t, pc)
         /\ \A empty, pc : Children(t, empty, pc) => Reads(t, empty, pc)
  BY Steps
<1>1. CASE ReadChildren
  BY <1>0, <1>1 DEF ReadChildren, OnlyMain, Reads, Moves, Connecting
<1>2. ASSUME thread' = thread
      PROVE  /\ thread'["main"].pc \in Connecting =>
                   thread["main"].pc \in Connecting
             /\ thread'["main"].first = thread["main"].first
             /\ thread'["main"].last = thread["main"].last
  BY <1>2
<1>3. ASSUME NEW s \in Server, Register(s) \/ Lives(s) \/ Unregister(s)
      PROVE  thread' = thread
  BY <1>3 DEF Register, Lives, Unregister, OnlyChain
<1>4. CASE Expire
  BY <1>2, <1>4 DEF Expire
<1>5. CASE ChildEvent \/ GetChildren \/ GetChildrenFails \/ Clear \/ Sleep
           \/ SessionEvent
  <2>1. thread'["main"] = thread["main"]
    BY <1>5, Passes, ClearSteps DEF Pass, Cleared, Moves, Alone
  <2> QED
    BY <2>1
<1>6. ASSUME NEW t \in Thread, Connect(t)
      PROVE  /\ thread'["main"].pc \in Connecting =>
                   thread["main"].pc \in Connecting
             /\ thread'["main"].first = thread["main"].first
             /\ thread'["main"].last = thread["main"].last
  BY <1>6, ConnectSteps DEF Alone
<1>7. CASE ReadChildrenFails \/ CheckConnected \/ Quit \/ TakeSemaphore
           \/ CloseHandle
  <2>1. \E pc \in {"exited", "prompt", "quit", "closing"} : Moves("main", pc)
    BY <1>0, <1>7 DEF ReadChildrenFails, CheckConnected, Quit, TakeSemaphore,
                      CloseHandle
  <2> QED
    BY <2>1 DEF Moves, Connecting
<1>8. CASE \/ \E e \in End : Command(e)
           \/ Send \/ Reply \/ ReadBody \/ ReadElsewhere \/ EndElsewhere
  <2>1. thread' = thread
    BY <1>8 DEF Command, Send, Reply, ReadBody, ReadElsewhere, EndElsewhere,
                OnlyCommand
  <2> QED
    BY <1>2, <2>1
<1> QED
  BY <1>1, <1>2, <1>3, <1>4, <1>5, <1>6, <1>7, <1>8 DEF Next, Watcher, Main

LEMMA LifeNext ==
    ASSUME TypeOK, LifeInv, Next
    PROVE  LifeInv'
<1>0. /\ life \in [Server -> {"off", "joining", "ready", "down"}]
      /\ znodes \subseteq Server
  BY DEF TypeOK
<1>1. /\ \A s \in Server : life'[s] \in {"joining", "ready"} => s \in znodes'
      /\ \A s \in znodes' : life'[s] # "off"
      /\ \A s \in Server : life[s] # "off" => life'[s] # "off"
  <2>1. ASSUME NEW s \in Server, Register(s) \/ Lives(s) \/ Unregister(s)
        PROVE  /\ \A r \in Server :
                     life'[r] \in {"joining", "ready"} => r \in znodes'
               /\ \A r \in znodes' : life'[r] # "off"
               /\ \A r \in Server : life[r] # "off" => life'[r] # "off"
    BY <1>0, <2>1 DEF Register, Lives, Unregister, LifeInv
  <2>2. CASE UNCHANGED chainVars
    BY <1>0, <2>2 DEF LifeInv, chainVars
  <2>3. ASSUME ~\E s \in Server : Register(s) \/ Lives(s) \/ Unregister(s)
        PROVE  UNCHANGED chainVars
    <3>1. Watcher => UNCHANGED chainVars
      BY ConnectSteps, Threads
         DEF Watcher, ChildEvent, GetChildren, GetChildrenFails, Clear, Sleep,
             SessionEvent, Callback, OnlyWatcher
    <3>2. Main \/ Quit \/ (\E e \in End : Command(e)) => UNCHANGED chainVars
      BY ConnectSteps, Threads
         DEF Main, ReadChildren, ReadChildrenFails, CheckConnected, Send, Reply,
             ReadBody, ReadElsewhere, EndElsewhere, TakeSemaphore, CloseHandle,
             Quit, Command, OnlyCommand, OnlyMain
    <3>3. Expire => UNCHANGED chainVars
      BY DEF Expire
    <3> QED
      BY <2>3, <3>1, <3>2, <3>3 DEF Next
  <2> QED
    BY <2>1, <2>2, <2>3
<1>2. thread'["main"].pc \in Connecting =>
         /\ thread'["main"].first \in Server
         /\ life'[thread'["main"].first] # "off"
         /\ thread'["main"].last \in Server
         /\ life'[thread'["main"].last] # "off"
  BY <1>0, <1>1, MainReads DEF LifeInv, chainVars
<1> QED
  BY <1>1, <1>2 DEF LifeInv

-----------------------------------------------------------------------------
(* The connections that are lost. *)

\* What a lost connection is, now and after the step.
LEMMA LostElement ==
    \A f : f \in Lost <=>
              /\ f \in Fd /\ sock[f] # NoSock
              /\ \A e \in End : rlist[e] # f
              /\ \A t \in Thread : thread[t].fd # f
BY DEF Lost

LEMMA LostElementNext ==
    \A f : f \in Lost' =>
              /\ f \in Fd /\ sock'[f] # NoSock
              /\ \A e \in End : rlist'[e] # f
              /\ \A t \in Thread : thread'[t].fd # f
BY DEF Lost

\* Thread t is done with the end it was connecting.
Done(t, e) ==
    /\ Posts(t)
    /\ \A d \in End : d # e => rlist'[d] = rlist[d]
    /\ Lost' \subseteq Lost \cup ({rlist[e]} \ {NULL})

\* It goes on with it.
GoesOn(t) ==
    /\ thread'[t].pc \in Connecting /\ thread'[t].end = thread[t].end
    /\ Alone(t)
    /\ rlist' = rlist
    /\ Lost' \subseteq Lost

\* A step of an attempt loses at most what the pointer held, and is the last.
LEMMA ConnectEnds ==
    ASSUME TypeOK, SemInv, FdInv, NEW t \in Thread, Connect(t)
    PROVE  GoesOn(t) \/ Done(t, thread[t].end)
<1>0. /\ thread \in [Thread -> Local] /\ sock \in [Fd -> Sock \cup {NoSock}]
      /\ rlist \in [End -> Fd \cup {NULL}] /\ NULL \notin Fd
  BY DEF TypeOK, NULL, Fd
<1>1. CASE SemWait(t)
  <2>1. Pass(t, {"wait"}, {"get"})
    BY <1>1, Passes
  <2>2. \A u \in Thread : thread'[u].fd = thread[u].fd
    BY <2>1 DEF Pass, Alone
  <2>3. sock' = sock /\ rlist' = rlist
    BY <2>1 DEF Pass
  <2>4. Lost' \subseteq Lost
    BY <2>2, <2>3, LostElement, LostElementNext
  <2> QED
    BY <2>1, <2>4 DEF GoesOn, Pass, Connecting
<1>2. CASE Accepted(t)
  <2>1. Opens(t, NextFd) /\ thread[t].pc = "get" /\ rlist' = rlist
    BY <1>2, Steps DEF Accepted
  <2>2. \A f \in Fd : f # NextFd => sock'[f] = sock[f]
    BY <1>0, <1>2 DEF Accepted
  <2>3. thread[t].fd = NULL
    BY <2>1 DEF FdInv
  <2>4. ASSUME NEW f \in Lost'
        PROVE  f \in Lost
    <3>1. f \in Fd /\ f # NextFd /\ \A u \in Thread : thread[u].fd # f
      BY <1>0, <2>1, <2>3, LostElementNext DEF Opens, Alone
    <3> QED
      BY <2>1, <2>2, <3>1, LostElement, LostElementNext
  <2> QED
    BY <2>1, <2>4 DEF GoesOn, Opens, Connecting
<1>3. CASE GetFails(t) \/ Refused(t)
  <2> DEFINE end == thread[t].end
  <2>1. Posts(t) /\ thread[t].pc = "get" /\ sock' = sock
    BY <1>3, Steps DEF GetFails, Refused
  <2>2. \A d \in End : d # end => rlist'[d] = rlist[d]
    BY <1>0, <1>3 DEF GetFails, Refused
  <2>3. \A u \in Thread : thread'[u].fd = thread[u].fd
    BY <2>1 DEF Posts, Alone, FdInv
  <2>4. Lost' \subseteq Lost \cup ({rlist[end]} \ {NULL})
    <3> HIDE DEF end
    <3>1. ASSUME NEW f \in Lost', f # rlist[end]
          PROVE  f \in Lost
      BY <2>1, <2>2, <2>3, <3>1, LostElement, LostElementNext
    <3> QED
      BY <1>0, <3>1, LostElementNext
  <2> QED
    BY <2>1, <2>2, <2>4 DEF Done
<1>4. CASE Handshake(t)
  <2> DEFINE end == thread[t].end
             fd == thread[t].fd
  <2>1. Posts(t) /\ thread[t].pc = "hello"
    BY <1>4, Steps DEF Handshake
  <2>2. \A d \in End : d # end => rlist'[d] = rlist[d]
    BY <1>0, <1>4 DEF Handshake
  <2>3. fd \in Fd /\ end \in End
    BY <1>0, <2>1 DEF FdInv, Local
  <2>4. \A u \in Thread : thread[u].fd # fd => thread'[u].fd = thread[u].fd
    BY <2>1 DEF Posts, Alone
  <2>5. /\ \A f \in Fd : f # fd => sock'[f] = sock[f]
        /\ sock'[fd] = NoSock \/ rlist'[end] = fd
    BY <1>0, <1>4, <2>3 DEF Handshake
  <2>6. Lost' \subseteq Lost \cup ({rlist[end]} \ {NULL})
    <3> HIDE DEF end, fd
    <3>1. ASSUME NEW f \in Lost', f # rlist[end]
          PROVE  f \in Lost
      <4>1. f \in Fd /\ f # fd
        BY <2>3, <2>5, LostElementNext
      <4>2. \A u \in Thread : thread[u].fd # f
        BY <1>0, <2>4, <4>1, LostElementNext
      <4> QED
        BY <2>2, <2>5, <3>1, <4>1, <4>2, LostElement, LostElementNext
    <3> QED
      BY <1>0, <3>1, LostElementNext
  <2> QED
    BY <2>1, <2>2, <2>6 DEF Done
<1> QED
  BY <1>1, <1>2, <1>3, <1>4 DEF Connect

\* The other steps, that of the watcher that disconnects excepted.
Keeps ==
    /\ Lost' \subseteq Lost /\ rlist' = rlist
    /\ \A e \in End : /\ MainTodo(e)' => MainTodo(e)
                      /\ WatcherTodo(e)' => WatcherTodo(e)

LEMMA PassKeeps ==
    ASSUME NEW t \in Thread, NEW from, NEW to, Pass(t, from, to),
           \/ to \cap (Connecting \cup {"init", "sleep"}) = {}
           \/ /\ thread[t].end = "head" /\ "sleep" \notin to
              /\ from = IF t = "main" THEN {"init"} ELSE {"sleep"}
    PROVE  Keeps
<1> USE Threads
<1>1. \A u \in Thread : thread'[u].fd = thread[u].fd
  BY DEF Pass, Alone
<1>2. Lost' \subseteq Lost
  BY <1>1, LostElement, LostElementNext DEF Pass
<1>3. ASSUME NEW e \in End
      PROVE  /\ MainTodo(e)' => MainTodo(e)
             /\ WatcherTodo(e)' => WatcherTodo(e)
  <2>1. CASE t = "main"
    BY <2>1 DEF Pass, Alone, MainTodo, WatcherTodo, Ahead, Connecting
  <2>2. CASE t = "completion"
    BY <2>2 DEF Pass, Alone, MainTodo, WatcherTodo, Ahead, Connecting
  <2> QED
    BY <2>1, <2>2
<1> QED
  BY <1>2, <1>3 DEF Keeps, Pass

LEMMA OthersKeep ==
    ASSUME TypeOK, PcInv, EndInv, Next,
           ~Clear, \A t \in Thread : ~Connect(t)
    PROVE  Keeps
<1> USE Threads
<1>1. CASE ChildEvent
  <2>1. Pass("completion", {"idle"}, {"children"})
    BY <1>1, Passes
  <2>2. {"children"} \cap (Connecting \cup {"init", "sleep"}) = {}
    BY DEF Connecting
  <2> QED
    BY <2>1, <2>2, PassKeeps
<1>2. CASE GetChildren
  <2>1. Pass("completion", {"children"}, {"none", "clear"})
    BY <1>2, Passes
  <2>2. {"none", "clear"} \cap (Connecting \cup {"init", "sleep"}) = {}
    BY DEF Connecting
  <2> QED
    BY <2>1, <2>2, PassKeeps
<1>3. CASE GetChildrenFails
  <2>1. Pass("completion", {"children"}, {"idle"})
    BY <1>3, Passes
  <2>2. {"idle"} \cap (Connecting \cup {"init", "sleep"}) = {}
    BY DEF Connecting
  <2> QED
    BY <2>1, <2>2, PassKeeps
<1>4. CASE Sleep
  <2>1. Pass("completion", {"sleep"}, {"wait"})
    BY <1>4, Passes
  <2>2. thread["completion"].end = "head"
    BY <2>1 DEF Pass, EndInv, Connecting
  <2> QED
    BY <2>1, <2>2, PassKeeps
<1>5. CASE SessionEvent
  <2>1. Pass("completion", {"idle"}, {"expired"})
    BY <1>5, Passes
  <2>2. {"expired"} \cap (Connecting \cup {"init", "sleep"}) = {}
    BY DEF Connecting
  <2> QED
    BY <2>1, <2>2, PassKeeps
<1>6. CASE ReadChildren
  <2>1. Pass("main", {"init"}, {"exited", "wait"})
    BY <1>6, Passes
  <2>2. thread["main"].end = "head"
    BY <2>1 DEF Pass, EndInv
  <2> QED
    BY <2>1, <2>2, PassKeeps
<1>7. CASE ReadChildrenFails \/ CheckConnected \/ Quit \/ TakeSemaphore
           \/ CloseHandle
  <2> DEFINE to == {"exited", "prompt", "quit", "closing"}
  <2>1. \E from : Pass("main", from, to)
    BY <1>7, Passes DEF Pass
  <2>2. to \cap (Connecting \cup {"init", "sleep"}) = {}
    BY DEF Connecting
  <2> HIDE DEF to
  <2> QED
    BY <2>1, <2>2, PassKeeps
<1>8. ASSUME thread' = thread, rlist' = rlist,
             \A f \in Fd : sock'[f] = NoSock <=> sock[f] = NoSock
      PROVE  Keeps
  <2>1. Lost' \subseteq Lost
    BY <1>8, LostElement, LostElementNext
  <2> QED
    BY <1>8, <2>1 DEF Keeps, MainTodo, WatcherTodo, Ahead
<1>9. ASSUME NEW s \in Server, Register(s) \/ Lives(s) \/ Unregister(s)
      PROVE  Keeps
  BY <1>8, <1>9 DEF Register, Lives, Unregister, OnlyChain
<1>10. CASE Expire
  BY <1>8, <1>10 DEF Expire
<1>11. CASE \/ \E e \in End : Command(e)
            \/ Send \/ Reply \/ ReadBody \/ ReadElsewhere \/ EndElsewhere
  BY <1>8, <1>11, CommandSteps DEF Quietly
<1> QED
  BY <1>1, <1>2, <1>3, <1>4, <1>5, <1>6, <1>7, <1>9, <1>10, <1>11
     DEF Next, Watcher, Main

\* The ends that are left to a thread that posts the semaphore.
LEMMA TodoPosts ==
    ASSUME NEW t \in Thread, Posts(t), thread[t].pc \in Connecting,
           thread[t].end \in End, NEW e \in End
    PROVE  /\ t = "main" =>
                 /\ MainTodo(e)' <=> MainTodo(e) /\ e # thread[t].end
                 /\ WatcherTodo(e)' <=> WatcherTodo(e)
                 /\ MainTodo(thread[t].end)
           /\ t = "completion" =>
                 /\ WatcherTodo(e)' <=> WatcherTodo(e) /\ e # thread[t].end
                 /\ MainTodo(e)' <=> MainTodo(e)
                 /\ WatcherTodo(thread[t].end)
<1> USE Threads
<1>1. CASE thread[t].end = "head"
  BY <1>1 DEF Posts, Alone, MainTodo, WatcherTodo, Ahead, Connecting
<1>2. CASE thread[t].end = "tail"
  BY <1>2 DEF Posts, Alone, MainTodo, WatcherTodo, Ahead, Connecting
<1> QED
  BY <1>1, <1>2

LEMMA GoesOnKeeps ==
    ASSUME NEW t \in Thread, GoesOn(t), thread[t].pc \in Connecting
    PROVE  Keeps
BY Threads DEF GoesOn, Alone, Keeps, MainTodo, WatcherTodo, Ahead, Connecting

\* Where a connection is lost, an end is spent.
LEMMA LostCount ==
    ASSUME Cardinality(Lost) <= Cardinality(Spent),
           \/ Lost' \subseteq Lost /\ Spent \subseteq Spent'
           \/ \E f, e :
                 /\ Lost' \subseteq Lost \cup {f}
                 /\ e \notin Spent /\ Spent \cup {e} \subseteq Spent'
    PROVE  Cardinality(Lost') <= Cardinality(Spent')
<1>1. IsFiniteSet(Fd) /\ IsFiniteSet(End)
  <2>1. IsFiniteSet(Fd)
    <3>1. 1 \in Int /\ 4 \in Int
      OBVIOUS
    <3>2. IsFiniteSet(1..4)
      BY <3>1, FS_Interval, Zenon
    <3> QED
      BY <3>2 DEF Fd
  <2>2. End = {"head"} \cup {"tail"}
    BY DEF End
  <2> QED
    BY <2>1, <2>2, FS_Singleton, FS_Union
<1>2. /\ IsFiniteSet(Lost) /\ IsFiniteSet(Lost') /\ IsFiniteSet(Spent)
      /\ IsFiniteSet(Spent')
  <2>1. Lost \subseteq Fd /\ Lost' \subseteq Fd
    BY DEF Lost
  <2>2. Spent \subseteq End /\ Spent' \subseteq End
    BY DEF Spent
  <2> QED
    BY <1>1, <2>1, <2>2, FS_Subset
<1>3. /\ Cardinality(Lost) \in Nat /\ Cardinality(Lost') \in Nat
      /\ Cardinality(Spent) \in Nat /\ Cardinality(Spent') \in Nat
  BY <1>2, FS_CardinalityType
<1>4. CASE Lost' \subseteq Lost /\ Spent \subseteq Spent'
  <2>1. Cardinality(Lost') <= Cardinality(Lost)
    BY <1>2, <1>4, FS_Subset
  <2>2. Cardinality(Spent) <= Cardinality(Spent')
    BY <1>2, <1>4, FS_Subset
  <2> QED
    BY <1>3, <2>1, <2>2
<1>5. ASSUME NEW f, NEW e, Lost' \subseteq Lost \cup {f},
             e \notin Spent, Spent \cup {e} \subseteq Spent'
      PROVE  Cardinality(Lost') <= Cardinality(Spent')
  <2>1. /\ IsFiniteSet(Lost \cup {f})
        /\ Cardinality(Lost \cup {f}) \in
              {Cardinality(Lost), Cardinality(Lost) + 1}
    BY <1>2, <1>3, FS_AddElement
  <2>2. Cardinality(Lost') <= Cardinality(Lost \cup {f})
    BY <1>5, <2>1, FS_Subset
  <2>3. Cardinality(Spent \cup {e}) = Cardinality(Spent) + 1
    BY <1>2, <1>5, FS_AddElement
  <2>4. Cardinality(Spent \cup {e}) <= Cardinality(Spent')
    BY <1>2, <1>5, FS_Subset
  <2> QED
    BY <1>3, <2>1, <2>2, <2>3, <2>4
<1> QED
  BY <1>4, <1>5

\* To disconnect loses nothing.
LEMMA ClearLoses ==
    ASSUME TypeOK, Clear
    PROVE  Lost' \subseteq Lost
<1> SUFFICES ASSUME NEW f \in Lost'
             PROVE  f \in Lost
  OBVIOUS
<1>1. \A t \in Thread : thread'[t].fd = thread[t].fd
  BY ClearSteps, Threads DEF Cleared, Moves, Alone
<1>2. f \in Fd /\ sock'[f] # NoSock
  BY LostElementNext
<1>3. sock'[f] = IF \E e \in End : rlist[e] = f THEN NoSock ELSE sock[f]
  BY <1>2, ClearSteps DEF Cleared
<1>4. sock[f] # NoSock /\ \A e \in End : rlist[e] # f
  BY <1>2, <1>3
<1> QED
  BY <1>1, <1>2, <1>4, LostElement, LostElementNext

LEMMA LostNext ==
    ASSUME TypeOK, PcInv, SemInv, EndInv, FdInv, LostInv, Next
    PROVE  LostInv'
<1> USE Threads
<1>0. /\ rlist \in [End -> Fd \cup {NULL}] /\ thread \in [Thread -> Local]
      /\ Cardinality(Lost) <= Cardinality(Spent)
  BY DEF TypeOK, LostInv
<1>1. ASSUME Keeps
      PROVE  LostInv'
  <2>1. Spent \subseteq Spent'
    BY <1>1 DEF Keeps, Spent
  <2>2. Cardinality(Lost') <= Cardinality(Spent')
    BY <1>0, <1>1, <2>1, LostCount DEF Keeps
  <2> QED
    BY <1>1, <2>2 DEF LostInv, Keeps
<1>2. CASE Clear
  <2>2. \A e \in End : rlist'[e] = NULL
    BY <1>2, ClearSteps DEF Cleared
  <2>3. Lost' \subseteq Lost
    BY <1>2, ClearLoses
  <2>4. \A e \in End : MainTodo(e)' <=> MainTodo(e)
    BY <1>2, ClearSteps DEF Cleared, Moves, Alone, MainTodo, Ahead
  <2>5. Spent \subseteq Spent'
    BY <2>2, <2>4 DEF Spent
  <2>6. Cardinality(Lost') <= Cardinality(Spent')
    BY <1>0, <2>3, <2>5, LostCount
  <2> QED
    BY <2>2, <2>6 DEF LostInv
<1>3. ASSUME NEW t \in Thread, Connect(t)
      PROVE  LostInv'
  <2>0. PICK end \in End : end = thread[t].end
    BY <1>0 DEF Local
  <2>1. thread[t].pc \in Connecting
    BY <1>3, ConnectSteps
  <2>2. CASE GoesOn(t)
    BY <1>1, <2>1, <2>2, GoesOnKeeps
  <2>3. CASE Done(t, end)
    <3>1. Posts(t) /\ \A e \in End : e # end => rlist'[e] = rlist[e]
      BY <2>3 DEF Done
    <3>2. \A e \in End :
             /\ MainTodo(e)' => MainTodo(e)
             /\ WatcherTodo(e)' => WatcherTodo(e)
             /\ e # end => /\ MainTodo(e)' <=> MainTodo(e)
                           /\ WatcherTodo(e)' <=> WatcherTodo(e)
      BY <2>0, <2>1, <3>1, TodoPosts
    <3>3. \/ MainTodo(end) /\ ~MainTodo(end)'
          \/ WatcherTodo(end) /\ ~WatcherTodo(end)'
      BY <2>0, <2>1, <3>1, TodoPosts
    <3>4. \A e \in End : MainTodo(e)' /\ WatcherTodo(e)' => rlist'[e] = NULL
      BY <3>1, <3>2, <3>3 DEF LostInv
    <3>5. ASSUME NEW e \in End, e # end
          PROVE  e \in Spent <=> e \in Spent'
      BY <3>1, <3>2, <3>5 DEF Spent
    <3>6. CASE rlist[end] = NULL
      <4>1. Lost' \subseteq Lost
        BY <2>3, <3>6 DEF Done
      <4>2. end \in Spent => end \in Spent'
        BY <2>1, <3>2, <3>3, <3>6 DEF Spent
      <4>3. Spent \subseteq Spent'
        BY <3>5, <4>2 DEF Spent
      <4>4. Cardinality(Lost') <= Cardinality(Spent')
        BY <1>0, <4>1, <4>3, LostCount
      <4> QED
        BY <3>4, <4>4 DEF LostInv
    <3>7. CASE rlist[end] # NULL
      <4>1. Lost' \subseteq Lost \cup {rlist[end]}
        BY <2>3 DEF Done
      <4>2. ~(MainTodo(end) /\ WatcherTodo(end))
        BY <2>1, <3>7 DEF LostInv
      <4>3. end \notin Spent /\ end \in Spent'
        BY <2>1, <3>2, <3>3, <3>7, <4>2 DEF Spent
      <4>4. Spent \cup {end} \subseteq Spent'
        BY <3>5, <4>3 DEF Spent
      <4>5. Cardinality(Lost') <= Cardinality(Spent')
        BY <1>0, <4>1, <4>3, <4>4, LostCount
      <4> QED
        BY <3>4, <4>5 DEF LostInv
    <3> QED
      BY <3>6, <3>7
  <2> QED
    BY <1>3, <2>0, <2>2, <2>3, ConnectEnds
<1> QED
  BY <1>1, <1>2, <1>3, OthersKeep

LEMMA AloneNext ==
    ASSUME TypeOK, PcInv, SemInv, EndInv, FdInv, AloneInv, Next
    PROVE  AloneInv'
<1> USE Threads
<1>0. /\ rlist \in [End -> Fd \cup {NULL}] /\ thread \in [Thread -> Local]
  BY DEF TypeOK
<1>1. CASE overlapped'
  BY <1>1 DEF AloneInv
<1>2. CASE ~overlapped'
  <2>1. ~overlapped /\ (Starting => ~ChildEvent)
    <3>1. ChildEvent \/ overlapped' = overlapped
      BY ConnectSteps, ClearSteps, CommandSteps
         DEF Next, Watcher, Main, Register, Lives, Unregister, OnlyChain,
             Expire,
             GetChildren, GetChildrenFails, Cleared, Sleep, SessionEvent,
             ReadChildren, ReadChildrenFails, CheckConnected, TakeSemaphore,
             CloseHandle, Quit, OnlyMain
    <3>2. ASSUME ChildEvent
          PROVE  ~overlapped /\ ~Starting
      <4>1. overlapped' = (overlapped \/ Starting)
        BY <3>2 DEF ChildEvent
      <4> QED
        BY <1>2, <4>1, Zenon
    <3> QED
      BY <1>2, <3>1, <3>2
  <2>2. Starting' => thread'["completion"].pc \in {"idle", "expired"}
    <3>1. Starting => thread["completion"].pc \in {"idle", "expired"}
      BY <2>1 DEF AloneInv
    <3>2. ASSUME thread'["completion"] = thread["completion"],
                 Starting' => Starting
          PROVE  Starting' => thread'["completion"].pc \in {"idle", "expired"}
      BY <3>1, <3>2
    <3>3. ASSUME thread'["main"] = thread["main"],
                 \/ thread["completion"].pc \notin {"idle", "expired"}
                 \/ thread'["completion"].pc \in {"idle", "expired"}
          PROVE  Starting' => thread'["completion"].pc \in {"idle", "expired"}
      BY <3>1, <3>3 DEF Starting
    <3>4. CASE thread' = thread
      BY <3>1, <3>4 DEF Starting
    <3>5. CASE ChildEvent \/ GetChildren \/ GetChildrenFails \/ Sleep \/ Clear
               \/ SessionEvent
      <4>1. thread'["main"] = thread["main"]
        BY <3>5, Passes, ClearSteps DEF Pass, Cleared, Moves, Alone
      <4>2. CASE ChildEvent
        BY <2>1, <4>1, <4>2 DEF Starting
      <4>3. CASE GetChildren \/ GetChildrenFails \/ Sleep \/ SessionEvent
        BY <3>3, <4>1, <4>3, Passes DEF Pass
      <4>4. CASE Clear
        BY <3>3, <4>1, <4>4, ClearSteps DEF Cleared, Moves
      <4> QED
        BY <3>5, <4>2, <4>3, <4>4
    <3>6. CASE Connect("completion")
      BY <3>3, <3>6, ConnectSteps DEF Alone, Connecting
    <3>7. CASE Connect("main")
      BY <3>2, <3>7, ConnectSteps DEF Alone, Starting
    <3>8. CASE ReadChildren \/ ReadChildrenFails \/ CheckConnected \/ Quit
               \/ TakeSemaphore \/ CloseHandle
      <4>1. /\ thread'["completion"] = thread["completion"]
            /\ \/ thread["main"].pc \in {"init", "check"}
               \/ thread'["main"].pc \in {"quit", "closing", "exited"}
        BY <3>8, Passes DEF Pass, Alone
      <4> QED
        BY <3>2, <4>1 DEF Starting, Connecting
    <3>9. ASSUME NEW s \in Server, Register(s) \/ Lives(s) \/ Unregister(s)
          PROVE  thread' = thread
      BY <3>9 DEF Register, Lives, Unregister, OnlyChain
    <3>10. CASE Expire
      BY <3>4, <3>10 DEF Expire
    <3> QED
      BY <3>4, <3>5, <3>6, <3>7, <3>8, <3>9, <3>10, CommandSteps
         DEF Next, Watcher, Main, Quietly
  <2>3. ASSUME Keeps
        PROVE  AloneInv'
    BY <2>1, <2>2, <2>3 DEF AloneInv, Keeps
  <2>4. CASE Clear
    <3>1. \A e \in End : rlist'[e] = NULL
      BY <2>4, ClearSteps DEF Cleared
    <3>2. Lost' \subseteq Lost
      BY <2>4, ClearLoses
    <3> QED
      BY <2>1, <2>2, <3>1, <3>2 DEF AloneInv
  <2>5. ASSUME NEW t \in Thread, Connect(t)
        PROVE  AloneInv'
    <3>0. PICK end \in End : end = thread[t].end
      BY <1>0 DEF Local
    <3>1. thread[t].pc \in Connecting
      BY <2>5, ConnectSteps
    <3>2. CASE GoesOn(t)
      BY <2>3, <3>1, <3>2, GoesOnKeeps
    <3>3. CASE Done(t, end)
      <4>1. Posts(t) /\ \A e \in End : e # end => rlist'[e] = rlist[e]
        BY <3>3 DEF Done
      <4>2. MainTodo(end) \/ WatcherTodo(end)
        BY <3>0, <3>1, <4>1, TodoPosts
      <4>3. rlist[end] = NULL
        BY <2>1, <4>2 DEF AloneInv
      <4>4. Lost' = {}
        BY <2>1, <3>3, <4>3 DEF Done, AloneInv
      <4>5. ~(MainTodo(end) /\ WatcherTodo(end))
        BY <2>1 DEF AloneInv, MainTodo, WatcherTodo, Ahead, Starting, Connecting
      <4>6. ASSUME NEW e \in End, MainTodo(e)' \/ WatcherTodo(e)'
            PROVE  rlist'[e] = NULL
        <5>1. e # end /\ (MainTodo(e) \/ WatcherTodo(e))
          BY <3>0, <3>1, <4>1, <4>5, <4>6, TodoPosts
        <5> QED
          BY <2>1, <4>1, <5>1 DEF AloneInv
      <4> QED
        BY <2>2, <4>4, <4>6 DEF AloneInv
    <3> QED
      BY <2>5, <3>0, <3>2, <3>3, ConnectEnds
  <2> QED
    BY <2>3, <2>4, <2>5, OthersKeep
<1> QED
  BY <1>1, <1>2

-----------------------------------------------------------------------------
(* The servers the client is connected to. *)

Fresh == \A e \in End : rlist[e] # NULL => sock[rlist[e]].server \in znodes

\* A step of thread t that neither connects nor disconnects.
LEMMA FreshPass ==
    ASSUME TypeOK, FreshInv, NEW t \in Thread, NEW from, NEW to,
           Pass(t, from, to), UNCHANGED chainVars, watch' = watch,
           "hello" \notin to, "none" \notin to,
           t = "completion" => from \cap {"idle", "clear", "none"} = {},
           t = "main" => Fresh \/ (Doomed => Doomed')
    PROVE  FreshInv'
<1> USE Threads
<1>1. CASE t = "main"
  <2>1. thread'["completion"] = thread["completion"]
    BY <1>1 DEF Pass, Alone
  <2> QED
    BY <1>1, <2>1 DEF FreshInv, Fresh, Pass, chainVars
<1>2. CASE t = "completion"
  <2>1. thread'["main"] = thread["main"]
    BY <1>2 DEF Pass, Alone
  <2>2. thread["completion"].pc \notin {"idle", "clear", "none"}
    BY <1>2 DEF Pass
  <2>3. ~Emptied /\ ~Doomed
    BY <2>2 DEF Emptied, Doomed
  <2> QED
    BY <1>2, <2>1, <2>2, <2>3 DEF FreshInv, Pass, chainVars
<1> QED
  BY <1>1, <1>2

\* What a connection attempt does to the connections.
LEMMA ConnectSocks ==
    ASSUME TypeOK, FdInv, NEW t \in Thread
    PROVE  /\ Accepted(t) =>
                 /\ Opens(t, NextFd) /\ thread[t].pc = "get" /\ rlist' = rlist
                 /\ Target(t) \in znodes /\ sock'[NextFd].server = Target(t)
                 /\ \A e \in End :
                       rlist[e] # NULL => sock'[rlist[e]] = sock[rlist[e]]
           /\ Handshake(t) =>
                 /\ Posts(t) /\ thread[t].pc = "hello" /\ thread[t].fd \in Fd
                 /\ \A e \in End :
                       rlist[e] # NULL => sock'[rlist[e]] = sock[rlist[e]]
                 /\ \A e \in End : e # thread[t].end => rlist'[e] = rlist[e]
                 /\ \/ rlist'[thread[t].end] = NULL
                    \/ /\ rlist'[thread[t].end] = thread[t].fd
                       /\ sock'[thread[t].fd].server = sock[thread[t].fd].server
<1>0. /\ thread \in [Thread -> Local] /\ sock \in [Fd -> Sock \cup {NoSock}]
      /\ rlist \in [End -> Fd \cup {NULL}]
  BY DEF TypeOK
<1>1. ASSUME Accepted(t)
      PROVE  /\ Opens(t, NextFd) /\ thread[t].pc = "get" /\ rlist' = rlist
             /\ Target(t) \in znodes /\ sock'[NextFd].server = Target(t)
             /\ \A e \in End :
                   rlist[e] # NULL => sock'[rlist[e]] = sock[rlist[e]]
  <2>1. NextFd \in Fd /\ sock[NextFd] = NoSock
    BY <1>1, FreeDescriptor DEF Accepted
  <2>2. /\ sock'[NextFd].server = Target(t)
        /\ \A f \in Fd : f # NextFd => sock'[f] = sock[f]
    BY <1>0, <1>1, <2>1 DEF Accepted
  <2>3. \A e \in End : rlist[e] # NULL => rlist[e] \in Fd /\ rlist[e] # NextFd
    BY <1>0, <2>1 DEF FdInv
  <2>4. Opens(t, NextFd) /\ thread[t].pc = "get" /\ rlist' = rlist
    BY <1>1, Steps DEF Accepted
  <2> QED
    BY <1>1, <2>2, <2>3, <2>4 DEF Accepted
<1>2. ASSUME Handshake(t)
      PROVE  /\ Posts(t) /\ thread[t].pc = "hello" /\ thread[t].fd \in Fd
             /\ \A e \in End :
                   rlist[e] # NULL => sock'[rlist[e]] = sock[rlist[e]]
             /\ \A e \in End : e # thread[t].end => rlist'[e] = rlist[e]
             /\ \/ rlist'[thread[t].end] = NULL
                \/ /\ rlist'[thread[t].end] = thread[t].fd
                   /\ sock'[thread[t].fd].server = sock[thread[t].fd].server
  <2> DEFINE end == thread[t].end
             fd == thread[t].fd
  <2>1. Posts(t) /\ thread[t].pc = "hello"
    BY <1>2, Steps DEF Handshake
  <2>2. fd \in Fd /\ end \in End /\ sock[fd] \in Sock
    BY <1>0, <2>1 DEF FdInv, Local, NoSock
  <2>3. /\ \A f \in Fd : f # fd => sock'[f] = sock[f]
        /\ \A e \in End : e # end => rlist'[e] = rlist[e]
        /\ \/ rlist'[end] = NULL
           \/ rlist'[end] = fd /\ sock' = [sock EXCEPT ![fd].hello = "read"]
    BY <1>0, <1>2, <2>2 DEF Handshake
  <2>4. \A e \in End : rlist[e] # NULL => rlist[e] \in Fd /\ rlist[e] # fd
    BY <1>0, <2>1 DEF FdInv
  <2> HIDE DEF end, fd
  <2>5. sock' = [sock EXCEPT ![fd].hello = "read"] =>
           sock'[fd].server = sock[fd].server
    BY <1>0, <2>2 DEF Sock
  <2> QED
    BY <2>1, <2>2, <2>3, <2>4, <2>5 DEF end, fd
<1> QED
  BY <1>1, <1>2

LEMMA FreshNext ==
    ASSUME TypeOK, PcInv, SemInv, EndInv, FdInv, WatchInv, LifeInv, FreshInv,
           Next
    PROVE  FreshInv'
<1> USE Threads
<1>0. /\ thread \in [Thread -> Local] /\ sock \in [Fd -> Sock \cup {NoSock}]
      /\ rlist \in [End -> Fd \cup {NULL}] /\ watch \in BOOLEAN
      /\ events \in Nat /\ NULL \notin Fd
  BY DEF TypeOK, NULL, Fd
<1>1. ASSUME ~watch'
      PROVE  FreshInv'
  BY <1>1 DEF FreshInv
<1>2. ASSUME NEW s \in Server, Register(s) \/ Lives(s) \/ Unregister(s)
      PROVE  FreshInv'
  <2>1. CASE Register(s) \/ Unregister(s)
    BY <1>1, <2>1 DEF Register, Unregister, Fire
  <2>2. CASE Lives(s)
    <3>1. /\ UNCHANGED <<znodes, watch, thread, sock, rlist>>
          /\ \A r : Gone(r) => Gone(r)'
      <4>1. UNCHANGED <<znodes, watch, thread, sock, rlist>>
        BY <2>2 DEF Lives, OnlyChain
      <4>2. \A r \in Server : life[r] = "down" => life'[r] = "down"
        BY <2>2 DEF Lives, TypeOK
      <4> QED
        BY <4>1, <4>2 DEF Gone
    <3>2. (Emptied => Emptied') /\ (Doomed => Doomed')
      BY <3>1 DEF Emptied, Doomed
    <3> QED
      BY <3>1, <3>2 DEF FreshInv
  <2> QED
    BY <1>2, <2>1, <2>2
<1>3. CASE Expire
  BY <1>1, <1>3 DEF Expire
<1>4. CASE ChildEvent \/ GetChildrenFails \/ SessionEvent \/ ReadChildrenFails
  <2>1. ~watch /\ watch' = watch
    BY <1>0, <1>4 DEF ChildEvent, Callback, GetChildrenFails, SessionEvent,
                      ReadChildrenFails, zkVars, WatchInv, Next
  <2> QED
    BY <1>1, <2>1
<1>5. CASE GetChildren
  <2>1. Reads("completion", "none", "clear") /\ znodes' = znodes
    BY <1>5, Steps DEF GetChildren, OnlyWatcher, chainVars
  <2> QED
    BY <2>1 DEF FreshInv, Reads, Moves
<1>6. CASE Sleep
  <2>1. Pass("completion", {"sleep"}, {"wait"})
    BY <1>6, Passes
  <2> QED
    BY <1>6, <2>1, FreshPass DEF Sleep, OnlyWatcher, zkVars
<1>7. CASE Clear
  <2>1. /\ thread'["completion"].pc \notin {"none", "hello"}
        /\ thread'["main"] = thread["main"]
        /\ \A e \in End : rlist'[e] = NULL
        /\ znodes' = znodes /\ life' = life /\ watch' = watch
    BY <1>7, ClearSteps DEF Cleared, Moves, Alone, chainVars, zkVars
  <2>2. ASSUME watch, thread["main"].pc = "hello"
        PROVE  Emptied'
    <3>1. /\ thread["completion"].pc = "none"
          /\ thread'["completion"].pc = "idle"
      BY <1>7, <2>2, ClearSteps DEF Cleared, Moves, SemInv, Holds, WatchInv
    <3>2. znodes = {}
      BY <2>2, <3>1 DEF FreshInv
    <3>3. Gone(thread["main"].last)
      BY <2>2, <3>2 DEF LifeInv, Gone, Connecting, TypeOK
    <3> QED
      BY <2>1, <3>1, <3>3 DEF Emptied, Gone
  <2> QED
    BY <2>1, <2>2 DEF FreshInv
<1>8. CASE Connect("completion")
  <2>0. /\ thread'["main"] = thread["main"] /\ znodes' = znodes
        /\ watch' = watch /\ thread["completion"].pc \in Connecting
        /\ thread'["completion"].pc \in Connecting \cup {"idle"}
    BY <1>8, ConnectSteps DEF Alone, chainVars, zkVars
  <2>1. ~Emptied /\ ~Doomed
    BY <2>0 DEF Emptied, Doomed, Connecting
  <2>2. CASE SemWait("completion")
    <3>1. Pass("completion", {"wait"}, {"get"})
      BY <2>2, Passes
    <3> QED
      BY <2>2, <3>1, FreshPass DEF SemWait, OnlyConnects, zkVars
  <2>3. ASSUME watch, Holds("completion"),
               thread'["completion"].pc = "hello" =>
                  sock'[thread'["completion"].fd].server \in znodes,
               NEW fd \in Fd \cup {NULL},
               \A e \in End : rlist'[e] \in {rlist[e], fd, NULL},
               \A f \in Fd : (\E e \in End : rlist[e] = f) =>
                               sock'[f].server = sock[f].server,
               fd # NULL => sock'[fd].server \in znodes
        PROVE  FreshInv'
    <3>1. thread["main"].pc # "hello"
      BY <2>3 DEF SemInv, Holds
    <3>2. Fresh
      BY <2>0, <2>1, <2>3 DEF FreshInv, Fresh, Connecting
    <3>3. ASSUME NEW e \in End, rlist'[e] # NULL
          PROVE  sock'[rlist'[e]].server \in znodes
      <4>1. CASE rlist'[e] = rlist[e]
        <5>1. rlist[e] \in Fd /\ sock'[rlist[e]].server = sock[rlist[e]].server
          BY <1>0, <2>3, <3>3, <4>1
        <5> QED
          BY <3>2, <3>3, <4>1, <5>1 DEF Fresh
      <4>2. CASE rlist'[e] = fd
        BY <2>3, <3>3, <4>2
      <4> QED
        BY <2>3, <3>3, <4>1, <4>2
    <3> QED
      BY <2>0, <2>3, <3>1, <3>3 DEF FreshInv, Connecting
  <2>7. CASE ~watch
    BY <1>1, <2>0, <2>7
  <2>4. CASE Accepted("completion") /\ watch
    <3>1. /\ Opens("completion", NextFd) /\ thread["completion"].pc = "get"
          /\ Target("completion") \in znodes /\ rlist' = rlist
          /\ sock'[NextFd].server = Target("completion")
          /\ \A e \in End :
                rlist[e] # NULL => sock'[rlist[e]] = sock[rlist[e]]
      BY <2>4, ConnectSocks
    <3>2. Holds("completion")
      BY <3>1 DEF Holds
    <3>3. sock'[thread'["completion"].fd].server \in znodes
      BY <3>1 DEF Opens
    <3> QED
      BY <1>0, <2>3, <2>4, <3>1, <3>2, <3>3
  <2>5. CASE (GetFails("completion") \/ Refused("completion")) /\ watch
    <3>1. Posts("completion") /\ thread["completion"].pc = "get" /\ sock' = sock
      BY <2>5, Steps DEF GetFails, Refused
    <3>2. \A e \in End : rlist'[e] \in {rlist[e], NULL}
      BY <1>0, <2>5 DEF GetFails, Refused
    <3>3. Holds("completion") /\ thread'["completion"].pc # "hello"
      BY <3>1 DEF Holds, Posts
    <3> QED
      BY <2>3, <2>5, <3>1, <3>2, <3>3
  <2>6. CASE Handshake("completion") /\ watch
    <3> DEFINE fd == thread["completion"].fd
    <3>1. /\ Posts("completion")
          /\ thread["completion"].pc = "hello" /\ fd \in Fd
          /\ \A e \in End :
                rlist[e] # NULL => sock'[rlist[e]] = sock[rlist[e]]
          /\ \/ \A e \in End : rlist'[e] \in {rlist[e], NULL}
             \/ /\ \A e \in End : rlist'[e] \in {rlist[e], fd}
                /\ sock'[fd].server = sock[fd].server
      BY <2>6, ConnectSocks
    <3>2. Holds("completion") /\ thread'["completion"].pc # "hello"
      BY <3>1 DEF Holds, Posts
    <3>3. sock[fd].server \in znodes
      BY <2>6, <3>1 DEF FreshInv
    <3> HIDE DEF fd
    <3>4. CASE \A e \in End : rlist'[e] \in {rlist[e], NULL}
      BY <1>0, <2>3, <2>6, <3>1, <3>2, <3>4
    <3>5. CASE /\ \A e \in End : rlist'[e] \in {rlist[e], fd}
               /\ sock'[fd].server = sock[fd].server
      BY <1>0, <2>3, <2>6, <3>1, <3>2, <3>3, <3>5
    <3> QED
      BY <3>1, <3>4, <3>5
  <2> QED
    BY <1>8, <2>7, <2>2, <2>4, <2>5, <2>6 DEF Connect
<1>9. CASE Connect("main")
  <2>0. /\ thread'["completion"] = thread["completion"] /\ znodes' = znodes
        /\ watch' = watch /\ life' = life
        /\ thread'["main"].last = thread["main"].last
    BY <1>9, ConnectSteps DEF Alone, chainVars, zkVars
  <2>1. CASE SemWait("main")
    <3>1. Pass("main", {"wait"}, {"get"}) /\ life' = life
      BY <2>1, Passes DEF SemWait, OnlyConnects, chainVars
    <3>2. Doomed => Doomed'
      BY <2>0, <3>1 DEF Doomed, Gone, Pass
    <3> QED
      BY <2>0, <2>1, <3>1, <3>2, FreshPass DEF chainVars
  <2>6. Holds("main") => thread["completion"].pc # "hello"
    BY DEF SemInv, Holds
  <2>2. CASE Accepted("main")
    <3>1. /\ Opens("main", NextFd) /\ thread["main"].pc = "get"
          /\ rlist' = rlist
          /\ Target("main") \in znodes /\ sock'[NextFd].server = Target("main")
          /\ \A e \in End :
                rlist[e] # NULL => sock'[rlist[e]] = sock[rlist[e]]
      BY <2>2, ConnectSocks
    <3>2. ~Doomed /\ Holds("main")
      BY <3>1 DEF Doomed, Gone, Target, Holds
    <3>3. sock'[thread'["main"].fd].server \in znodes
      BY <3>1 DEF Opens
    <3> QED
      BY <2>0, <2>6, <3>1, <3>2, <3>3 DEF FreshInv
  <2>3. CASE GetFails("main")
    <3>1. /\ Posts("main") /\ thread["main"].pc = "get"
          /\ sock' = sock /\ rlist' = rlist
      BY <2>3, Steps DEF GetFails
    <3>2. Doomed => Doomed'
      BY <2>0, <3>1 DEF Doomed, Posts
    <3>3. Holds("main") /\ thread'["main"].pc # "hello"
      BY <3>1 DEF Posts, Holds
    <3> QED
      BY <2>0, <2>6, <3>1, <3>2, <3>3 DEF FreshInv
  <2>4. CASE Refused("main")
    <3>1. Posts("main") /\ thread["main"].pc = "get" /\ sock' = sock
      BY <2>4, Steps DEF Refused
    <3>2. \A e \in End : rlist'[e] \in {rlist[e], NULL}
      BY <1>0, <2>4 DEF Refused
    <3>3. Target("main") \in znodes
      BY <2>4 DEF Refused
    <3>4. ~Doomed /\ Holds("main") /\ thread'["main"].pc # "hello"
      BY <3>1, <3>3 DEF Doomed, Gone, Target, Holds, Posts
    <3> QED
      BY <2>0, <2>6, <3>1, <3>2, <3>4 DEF FreshInv
  <2>5. CASE Handshake("main")
    <3> DEFINE fd == thread["main"].fd
               end == thread["main"].end
    <3>1. /\ Posts("main") /\ thread["main"].pc = "hello"
          /\ \A e \in End :
                rlist[e] # NULL => sock'[rlist[e]] = sock[rlist[e]]
          /\ \A e \in End : e # end => rlist'[e] = rlist[e]
          /\ \/ rlist'[end] = NULL
             \/ rlist'[end] = fd /\ sock'[fd].server = sock[fd].server
      BY <2>5, ConnectSocks
    <3>2. ~Doomed /\ Holds("main") /\ thread'["main"].pc # "hello"
      BY <3>1 DEF Doomed, Holds, Posts
    <3>3. CASE Emptied
      <4>1. end = "head" => rlist'["tail"] = NULL
        BY <3>1, <3>3 DEF Emptied
      <4>2. end # "head" => rlist'["head"] = NULL
        BY <1>0, <3>1, <3>3 DEF Emptied, Local
      <4>3. Doomed'
        BY <2>0, <3>1, <3>3, <4>1, <4>2 DEF Doomed, Emptied, Gone, Posts
      <4> QED
        BY <2>0, <2>6, <3>2, <4>3 DEF FreshInv
    <3>4. CASE ~Emptied
      <4>1. watch /\ thread["completion"].pc \notin {"clear", "none"} =>
               sock[fd].server \in znodes /\ Fresh
        BY <3>1, <3>2, <3>4 DEF FreshInv, Fresh
      <4> HIDE DEF fd, end
      <4>2. watch /\ thread["completion"].pc \notin {"clear", "none"} => Fresh'
        BY <2>0, <3>1, <4>1 DEF Fresh
      <4> QED
        BY <2>0, <2>6, <3>2, <4>2 DEF FreshInv, Fresh
    <3> QED
      BY <3>3, <3>4
  <2> QED
    BY <1>9, <2>1, <2>2, <2>3, <2>4, <2>5 DEF Connect
<1>10. CASE ReadChildren
  <2>1. Pass("main", {"init"}, {"exited", "wait"})
    BY <1>10, Passes
  <2> QED
    BY <2>1 DEF FreshInv, Pass, Alone, WatchInv
<1>11. CASE CheckConnected
  <2>1. /\ Pass("main", {"check"}, {"exited", "prompt"})
        /\ UNCHANGED <<chainVars, watch>>
    BY <1>11, Passes DEF CheckConnected, OnlyMain, zkVars
  <2>2. Doomed => Doomed'
    <3>1. (\E e \in End : rlist[e] = NULL) => thread'["main"].pc = "exited"
      BY <1>11, Steps DEF CheckConnected, Moves
    <3> QED
      BY <2>1, <3>1 DEF Doomed, Pass, Alone
  <2> QED
    BY <2>1, <2>2, FreshPass
<1>12. CASE Quit \/ TakeSemaphore \/ CloseHandle
  <2> DEFINE from == {"prompt", "quit", "closing"}
             to == {"quit", "closing", "exited"}
  <2>1. Pass("main", from, to) /\ UNCHANGED <<chainVars, watch>>
    BY <1>12, Passes
       DEF Quit, TakeSemaphore, CloseHandle, OnlyMain, zkVars, Pass
  <2>2. ~Doomed
    BY <2>1 DEF Doomed, Pass
  <2> HIDE DEF from
  <2> QED
    BY <2>1, <2>2, FreshPass
<1>13. CASE \/ \E e \in End : Command(e)
            \/ Send \/ Reply \/ ReadBody \/ ReadElsewhere \/ EndElsewhere
  <2>1. Quietly /\ UNCHANGED <<znodes, life, watch>>
    BY <1>13, CommandSteps DEF chainVars, zkVars
  <2>2. /\ \A t \in Thread : thread[t].pc = "hello" => thread[t].fd \in Fd
        /\ \A e \in End : rlist[e] # NULL => rlist[e] \in Fd
    BY <1>0 DEF FdInv, Local
  <2>3. (Emptied => Emptied') /\ (Doomed => Doomed')
    BY <2>1 DEF Emptied, Doomed, Gone, Quietly
  <2> QED
    BY <2>1, <2>2, <2>3 DEF FreshInv, Quietly
<1> QED
  BY <1>2, <1>3, <1>4, <1>5, <1>6, <1>7, <1>8, <1>9, <1>10, <1>11, <1>12, <1>13
     DEF Next, Watcher, Main

-----------------------------------------------------------------------------
(* The invariant and the theorems. *)

LEMMA EndsCounted ==
    /\ IsFiniteSet(End) /\ Cardinality(End) = 2
    /\ Cardinality({}) = 0
<1>1. IsFiniteSet({"tail"}) /\ Cardinality({"tail"}) = 1
  BY FS_Singleton
<1>2. End = {"tail"} \cup {"head"} /\ "head" \notin {"tail"}
  BY Threads
<1> QED
  BY <1>1, <1>2, FS_AddElement, FS_EmptySet

LEMMA FdCounted == IsFiniteSet(Fd) /\ Cardinality(Fd) = 4
<1>1. 1 \in Int /\ 4 \in Int
  OBVIOUS
<1>2. IsFiniteSet(1..4) /\ Cardinality(1..4) = IF 1 > 4 THEN 0 ELSE 4 - 1 + 1
  BY <1>1, FS_Interval, Zenon
<1> QED
  BY <1>2 DEF Fd

LEMMA OneMoreElement ==
    ASSUME NEW S, IsFiniteSet(S), NEW a
    PROVE  /\ IsFiniteSet(S \cup {a})
           /\ Cardinality(S \cup {a}) \in Nat
           /\ Cardinality(S \cup {a}) <= Cardinality(S) + 1
<1>1. /\ IsFiniteSet(S \cup {a})
      /\ Cardinality(S \cup {a}) =
             IF a \in S THEN Cardinality(S) ELSE Cardinality(S) + 1
  BY FS_AddElement, Zenon
<1>2. Cardinality(S) \in Nat
  BY FS_CardinalityType
<1> QED
  BY <1>1, <1>2

LEMMA InitIInv ==
    ASSUME Init
    PROVE  IInv
<1> USE ClientAssumption, Threads
<1>1. /\ thread = [t \in Thread |-> At(IF t = "main" THEN "init" ELSE "idle")]
      /\ thread["main"] = At("init") /\ thread["completion"] = At("idle")
      /\ At("init") \in Local /\ At("idle") \in Local
  BY DEF Init, At, Local, MainPc, CompletionPc
<1>2. TypeOK
  <2>1. thread \in [Thread -> Local]
    BY <1>1
  <2>2. sock \in [Fd -> Sock \cup {NoSock}]
    BY DEF Init
  <2>3. command \in [pc : {"none", "send", "receive", "body", "elsewhere"},
                     fd : Fd \cup {NULL}, server : Server \cup {NULL},
                     mine : BOOLEAN]
    BY DEF Init, NoCommand
  <2>4. /\ life \in [Server -> {"off", "joining", "ready", "down"}]
        /\ znodes \subseteq Server /\ rlist \in [End -> Fd \cup {NULL}]
    BY DEF Init
  <2>5. watch \in BOOLEAN /\ overlapped \in BOOLEAN
    BY DEF Init
  <2>6. events \in Nat /\ mutex \in 0..1 /\ faults \in 0..MaxFaults
    BY DEF Init
  <2>7. session \in {"live", "expired", "closed"}
    BY DEF Init
  <2> QED
    BY <2>1, <2>2, <2>3, <2>4, <2>5, <2>6, <2>7 DEF TypeOK
<1>3. PcInv /\ SemInv /\ EndInv /\ FdInv
  BY <1>1 DEF Init, At, PcInv, SemInv, EndInv, FdInv, Holds, Connecting,
              MainPc, CompletionPc, NoCommand
<1>4. WatchInv /\ HearsInv /\ LifeInv
  BY <1>1 DEF Init, At, WatchInv, HearsInv, LifeInv, Connecting
<1>5. Lost = {}
  BY DEF Init, Lost
<1>6. Spent = {}
  BY <1>1 DEF At, Spent, MainTodo
<1>7. LostInv /\ AloneInv
  BY <1>1, <1>5, <1>6, EndsCounted
     DEF Init, At, LostInv, AloneInv, Connecting
<1>8. FreshInv
  BY <1>1 DEF Init, At, FreshInv
<1> QED
  BY <1>2, <1>3, <1>4, <1>7, <1>8 DEF IInv

LEMMA NextIInv ==
    ASSUME IInv, [Next]_vars
    PROVE  IInv'
<1>1. CASE Next
  BY <1>1, TypeNext, LocalNext, WatchNext, HearsNext, LostNext, AloneNext,
     LifeNext, FreshNext DEF IInv
<1>2. CASE UNCHANGED vars
  <2>1. /\ UNCHANGED <<life, znodes, watch, events, session, mutex, rlist>>
        /\ UNCHANGED <<sock, thread, command, overlapped, faults>>
    BY <1>2 DEF vars, chainVars, zkVars
  <2>2. TypeOK' /\ PcInv' /\ SemInv' /\ EndInv' /\ FdInv'
    BY <2>1 DEF IInv, TypeOK, PcInv, SemInv, Holds, EndInv, FdInv
  <2>3. WatchInv' /\ HearsInv' /\ LifeInv'
    BY <2>1 DEF IInv, WatchInv, HearsInv, LifeInv
  <2>4. LostInv' /\ AloneInv'
    BY <2>1 DEF IInv, LostInv, AloneInv, Starting, Lost, Spent, MainTodo,
                WatcherTodo, Ahead
  <2>5. FreshInv'
    BY <2>1 DEF IInv, FreshInv, Emptied, Doomed, Gone
  <2> QED
    BY <2>2, <2>3, <2>4, <2>5 DEF IInv
<1> QED
  BY <1>1, <1>2

LEMMA Invariant == Spec => []IInv
<1>1. Init => IInv
  BY InitIInv
<1>2. IInv /\ [Next]_vars => IInv'
  BY NextIInv
<1> QED
  BY <1>1, <1>2, PTL DEF Spec

\* The variables of the client have their types: the semaphore is binary,
\* whichever thread posts it, and a pointer is NULL or a descriptor.
THEOREM TypeCorrect == Spec => []TypeOK
<1>1. IInv => TypeOK
  BY DEF IInv
<1> QED
  BY <1>1, Invariant, PTL

\* A client closes every connection it opened, unless `watcher` ran while the
\* main thread was starting; and then each of the two ends is connected once
\* too often at most, so that two connections are lost and never a third.
THEOREM LostTheorem == Spec => []NothingLost
<1>1. IInv => NothingLost
  <2> SUFFICES ASSUME IInv
               PROVE  NothingLost
    OBVIOUS
  <2>1. Spent \subseteq End
    BY DEF Spent
  <2>2. Cardinality(Spent) <= 2
    BY <2>1, EndsCounted, FS_Subset
  <2>3. Cardinality(Lost) \in Nat /\ Cardinality(Spent) \in Nat
    <3>1. IsFiniteSet(Lost) /\ IsFiniteSet(Spent)
      BY <2>1, FdCounted, EndsCounted, FS_Subset DEF Lost
    <3> QED
      BY <3>1, FS_CardinalityType
  <2>4. Cardinality(Lost) <= 2
    BY <2>2, <2>3 DEF IInv, LostInv
  <2> QED
    BY <2>4 DEF NothingLost, IInv, AloneInv
<1> QED
  BY <1>1, Invariant, PTL

\* There is a descriptor for every connection: no more than three are open when
\* a thread connects, so that Fd leaves no behaviour of the client out.
THEOREM DescriptorTheorem ==
    Spec => [](\A t \in Thread : thread[t].pc = "get" => FreeFd # {})
<1> DEFINE Suffices == \A t \in Thread : thread[t].pc = "get" => FreeFd # {}
<1>1. IInv => Suffices
  <2> SUFFICES ASSUME IInv, NEW t \in Thread, thread[t].pc = "get", FreeFd = {}
               PROVE  FALSE
    OBVIOUS
  <2>0. /\ thread[t].end \in End /\ rlist \in [End -> Fd \cup {NULL}]
        /\ NULL \notin Fd
    BY DEF IInv, TypeOK, Local, NULL, Fd
  <2>1. PICK end \in End : end = thread[t].end
    BY <2>0
  <2>2. PICK other \in End : End = {end} \cup {other}
    BY Threads
  <2>3. \A u \in Thread : thread[u].fd = NULL
    <3>1. \A u \in Thread : thread[u].pc # "hello"
      BY DEF IInv, SemInv, Holds
    <3> QED
      BY <3>1 DEF IInv, FdInv
  <2>4. \A f \in Fd : f \in Lost \/ f = rlist[end] \/ f = rlist[other]
    BY <2>0, <2>2, <2>3, LostElement DEF FreeFd
  <2>5. /\ IsFiniteSet(Lost) /\ Cardinality(Lost) \in Nat
        /\ IsFiniteSet(Spent) /\ Cardinality(Spent) \in Nat
        /\ Cardinality(Spent) <= 2
    <3>1. Lost \in SUBSET Fd /\ Spent \in SUBSET End
      BY DEF Lost, Spent
    <3> QED
      BY <3>1, FdCounted, EndsCounted, FS_Subset, FS_CardinalityType
  <2>6. Cardinality(Lost) <= Cardinality(Spent)
    BY DEF IInv, LostInv
  <2>7. CASE rlist[end] = NULL
    <3> DEFINE Open == Lost \cup {rlist[other]}
    <3>1. Fd \in SUBSET Open
      BY <2>0, <2>4, <2>7
    <3>2. /\ IsFiniteSet(Open) /\ Cardinality(Open) \in Nat
          /\ Cardinality(Open) <= Cardinality(Lost) + 1
      BY <2>5, OneMoreElement
    <3> HIDE DEF Open
    <3>3. Cardinality(Fd) <= Cardinality(Open)
      BY <3>1, <3>2, FS_Subset
    <3> QED
      BY <2>5, <2>6, <3>2, <3>3, FdCounted
  <2>8. CASE rlist[end] # NULL
    <3> DEFINE One == Lost \cup {rlist[end]}
               Open == One \cup {rlist[other]}
    <3>1. Fd \in SUBSET Open
      BY <2>4
    <3>2. /\ IsFiniteSet(One) /\ Cardinality(One) \in Nat
          /\ Cardinality(One) <= Cardinality(Lost) + 1
      BY <2>5, OneMoreElement
    <3>3. /\ IsFiniteSet(Open) /\ Cardinality(Open) \in Nat
          /\ Cardinality(Open) <= Cardinality(One) + 1
      <4> HIDE DEF One
      <4> QED
        BY <3>2, OneMoreElement
    <3> HIDE DEF Open, One
    <3>4. Cardinality(Fd) <= Cardinality(Open)
      BY <3>1, <3>3, FS_Subset
    <3>5. end \notin Spent
      BY <2>1, <2>8, Threads
         DEF Spent, MainTodo, WatcherTodo, Ahead, Connecting
    <3>6. Cardinality(Spent) <= 1
      <4>1. Spent \in SUBSET {other}
        BY <2>2, <3>5 DEF Spent
      <4>2. IsFiniteSet({other}) /\ Cardinality({other}) = 1
        BY FS_Singleton, Zenon
      <4>3. Cardinality(Spent) <= Cardinality({other})
        BY <4>1, <4>2, FS_Subset
      <4> QED
        BY <4>2, <4>3
    <3> QED
      BY <2>5, <2>6, <3>2, <3>3, <3>4, <3>6, FdCounted
  <2> QED
    BY <2>7, <2>8
<1> QED
  BY <1>1, Invariant, PTL

\* A client that has started and has nothing left to do will hear of the next
\* change of the chain, unless a call of ZooKeeper failed, and its connections
\* go to servers that are in the chain as it is now: no interleaving of the
\* start, of `watcher` and of the servers leaves it with an old head or tail.
THEOREM FollowsTheorem == Spec => []FollowsChain
<1>1. IInv => FollowsChain
  <2> SUFFICES ASSUME IInv, Quiet
               PROVE  /\ watch \/ faults > 0
                      /\ watch => \A e \in End :
                           rlist[e] # NULL => sock[rlist[e]].server \in znodes
    BY DEF FollowsChain
  <2>1. watch \/ faults > 0
    <3>1. faults \in Nat
      BY ClientAssumption DEF IInv, TypeOK
    <3>2. watch \/ faults # 0
      BY DEF IInv, HearsInv, Quiet
    <3> QED
      BY <3>1, <3>2
  <2>2. ~Doomed
    BY DEF Quiet, Doomed
  <2>3. thread["completion"].pc \notin {"clear", "none"}
    BY DEF Quiet
  <2> QED
    BY <2>1, <2>2, <2>3 DEF IInv, FreshInv
<1> QED
  BY <1>1, Invariant, PTL

=============================================================================
