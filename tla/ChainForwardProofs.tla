------------------------- MODULE ChainForwardProofs -------------------------
(***************************************************************************)
(* Proofs about ChainForward for every number of servers and clients, all  *)
(* cars and any bounds: type correctness, that list_mutex is held down the *)
(* chain, and that the replicas are in step while no connection is lost    *)
(* and nobody sorts the head.                                              *)
(***************************************************************************)
EXTENDS ChainForward, CarListProofs

-----------------------------------------------------------------------------
(* Connections. *)

\* The request of an idle connection is a request.
LEMMA IdleType == Idle \in Connection
<1>1. AnyData \in Data
  <2>1. \E d \in Data : TRUE
    <3>1. PICK m \in Modelo, a \in Ano, b \in Marca : TRUE
      BY CarListAssumption
    <3>2. [modelo |-> m, ano |-> a, marca |-> b] \in Data
      BY DEF Data
    <3> QED
      BY <3>2
  <2> QED
    BY <2>1 DEF AnyData
<1>2. NoRequest \in Request
  BY <1>1 DEF NoRequest, Request, Opcode
<1> QED
  BY <1>2, PlainReplies, ChainAssumption DEF Idle, Connection

\* A connection on which request number id has just arrived.
LEMMA IncomingType ==
    ASSUME NEW req \in Request, NEW id \in 0..MaxCommands
    PROVE  /\ Incoming(req, id) \in Connection
           /\ Incoming(req, id).pc = "request"
           /\ Incoming(req, id).req = req
           /\ Incoming(req, id).id = id
BY IdleType DEF Incoming, Connection

\* What the steps of a thread make of its connection.
LEMMA ConnectionType ==
    ASSUME NEW c \in Connection, NEW reply \in Reply
    PROVE  /\ c.req \in Request /\ c.id \in 0..MaxCommands /\ c.reply \in Reply
           /\ [c EXCEPT !.pc = "forward", !.reply = reply] \in Connection
           /\ [c EXCEPT !.pc = "reply", !.reply = reply] \in Connection
           /\ [c EXCEPT !.pc = "await"] \in Connection
           /\ [c EXCEPT !.pc = "reply"] \in Connection
           /\ [c EXCEPT !.pc = "forward", !.attempt = 1] \in Connection
<1>1. c.req \in Request /\ c.id \in 0..MaxCommands /\ c.reply \in Reply
  BY DEF Connection
<1>2. \A p \in {"forward", "reply"} :
         [c EXCEPT !.pc = p, !.reply = reply] \in Connection
  BY DEF Connection
<1>3. \A p \in {"await", "reply"} : [c EXCEPT !.pc = p] \in Connection
  BY DEF Connection
<1>4. \A a \in 0..1 : [c EXCEPT !.pc = "forward", !.attempt = a] \in Connection
  BY DEF Connection
<1> QED
  BY <1>1, <1>2, <1>3, <1>4

\* The servers are numbered from the head to the tail.
LEMMA ServerFacts ==
    /\ Server \subseteq Int
    /\ Head0 \in Server /\ Tail0 \in Server
    /\ \A s \in Server : s # Tail0 => s + 1 \in Server /\ s + 1 # Head0
    /\ \A s \in Server : s # Head0 => s - 1 \in Server \ {Tail0}
    /\ \A c \in Client : c \in Thread /\ c # Link
    /\ Link \in Thread
BY ChainAssumption DEF Server, Head0, Tail0, Thread

\* A server other than the tail has a next one, which is not the head.
LEMMA NextServer ==
    ASSUME NEW s \in Server, s # Tail0
    PROVE  s < Tail0 /\ s + 1 \in Server /\ s + 1 # s /\ s + 1 # Head0
BY ChainAssumption DEF Server, Head0, Tail0

-----------------------------------------------------------------------------
(* Type correctness. *)

LEMMA TypeInit == Init => TypeOK
<1> SUFFICES ASSUME Init PROVE TypeOK
  OBVIOUS
<1>1. <<>> \in Seq(Data)
  BY EmptySeq
<1>2. list \in [Server -> Seq(Data)]
  BY <1>1 DEF Init
<1>3. conn \in [Server -> [Thread -> Connection]]
  BY IdleType DEF Init
<1>4. /\ owner \in [Server -> SUBSET Thread]
      /\ successor \in [Server -> BOOLEAN]
      /\ issued \in 0..MaxCommands
      /\ updates \in 0..MaxUpdates
      /\ applied \in [Server -> [Id -> Nat]]
  BY ChainAssumption DEF Init, Server, Tail0
<1> QED
  BY <1>2, <1>3, <1>4 DEF TypeOK, Connection

\* A command number is within the bound; the number of a write in progress
\* is that of a command.
LEMMA TypeNext ==
    ASSUME TypeOK, [Next]_vars
    PROVE  TypeOK'
<1>0. /\ list \in [Server -> Seq(Data)]
      /\ owner \in [Server -> SUBSET Thread]
      /\ conn \in [Server -> [Thread -> Connection]]
      /\ successor \in [Server -> BOOLEAN]
      /\ issued \in 0..MaxCommands
      /\ updates \in 0..MaxUpdates
      /\ applied \in [Server -> [Id -> Nat]]
  BY DEF TypeOK
<1>c. ASSUME NEW s \in Server, NEW t \in Thread
      PROVE  conn[s][t] \in Connection
  BY <1>0
<1>1. ASSUME NEW c \in Client, NEW req \in Inputs, Send(c, req)
      PROVE  TypeOK'
  <2>1. req \in Request /\ issued + 1 \in 0..MaxCommands
    BY <1>0, <1>1, ChainAssumption DEF Send
  <2>2. Incoming(req, issued + 1) \in Connection
    BY <2>1, IncomingType
  <2>3. conn' \in [Server -> [Thread -> Connection]]
    BY <1>0, <1>1, <2>2, ServerFacts DEF Send
  <2> QED
    BY <1>0, <1>1, <2>1, <2>3 DEF Send, TypeOK
<1>2. ASSUME NEW s \in Server, NEW c \in Client, Receive(s, c)
      PROVE  TypeOK'
  <2>1. conn' \in [Server -> [Thread -> Connection]]
    BY <1>0, <1>2, IdleType DEF Receive
  <2> QED
    BY <1>0, <1>2, <2>1 DEF Receive, TypeOK
<1>3. ASSUME NEW s \in Server, NEW t \in Thread, Invoke(s, t)
      PROVE  TypeOK'
  <2> DEFINE c == conn[s][t]
             reply == HandleReply(list[s], c.req)
             fwd == [c EXCEPT !.pc = "forward", !.reply = reply]
             ans == [c EXCEPT !.pc = "reply", !.reply = reply]
  <2>1. c \in Connection /\ c.req \in Request /\ list[s] \in Seq(Data)
    BY <1>0, <1>c, ConnectionType, PlainReplies
  <2>2. HandleList(list[s], c.req) \in Seq(Data) /\ reply \in Reply
    BY <2>1, HandleListType, HandleReplyType
  <2>3. list' \in [Server -> Seq(Data)]
    BY <1>0, <1>3, <2>2 DEF Invoke
  <2>4. fwd \in Connection /\ ans \in Connection
    BY <2>1, <2>2, ConnectionType
  <2>5. PICK x \in Connection : conn' = [conn EXCEPT ![s][t] = x]
    <3>1. CASE Forwards(list[s], c.req)
      BY <1>3, <2>4, <3>1 DEF Invoke
    <3>2. CASE ~Forwards(list[s], c.req)
      BY <1>3, <2>4, <3>2 DEF Invoke
    <3> QED
      BY <3>1, <3>2
  <2>6. conn' \in [Server -> [Thread -> Connection]]
    BY <1>0, <2>5
  <2>7. owner' \in [Server -> SUBSET Thread]
    <3>1. owner' = owner \/ owner' = [owner EXCEPT ![s] = {t}]
      BY <1>3 DEF Invoke
    <3>2. {t} \in SUBSET Thread
      OBVIOUS
    <3> HIDE DEF c, reply, fwd, ans
    <3>3. [owner EXCEPT ![s] = {t}] \in [Server -> SUBSET Thread]
      BY <1>0, <3>2
    <3> QED
      BY <1>0, <3>1, <3>3
  <2>8. applied' \in [Server -> [Id -> Nat]]
    <3>1. PICK i : \/ applied' = applied
                   \/ applied' = [applied EXCEPT ![s][i] = @ + 1]
      BY <1>3 DEF Invoke
    <3>2. applied[s] \in [Id -> Nat]
      BY <1>0
    <3>3. [applied[s] EXCEPT ![i] = @ + 1] \in [Id -> Nat]
      <4>1. \A j \in Id : applied[s][j] \in Nat /\ applied[s][j] + 1 \in Nat
        BY <3>2
      <4> QED
        BY <3>2, <4>1
    <3> QED
      BY <1>0, <3>1, <3>3
  <2>9. UNCHANGED <<successor, issued, updates>>
    BY <1>3 DEF Invoke
  <2> QED
    BY <1>0, <2>3, <2>6, <2>7, <2>8, <2>9 DEF TypeOK
<1>4. ASSUME NEW s \in Server, NEW t \in Thread, NEW reply \in Reply,
             Answer(s, t, reply)
      PROVE  TypeOK'
  <2> DEFINE ans == [conn[s][t] EXCEPT !.pc = "reply", !.reply = reply]
  <2>1. ans \in Connection
    BY <1>c, ConnectionType
  <2>2. conn' = [conn EXCEPT ![s][t] = ans]
    BY <1>4 DEF Answer
  <2>3. conn' \in [Server -> [Thread -> Connection]]
    <3> HIDE DEF ans
    <3> QED
      BY <1>0, <2>1, <2>2
  <2>4. owner' \in [Server -> SUBSET Thread]
    BY <1>0, <1>4 DEF Answer
  <2>5. UNCHANGED <<list, successor, issued, updates, applied>>
    BY <1>4 DEF Answer
  <2> QED
    BY <1>0, <2>3, <2>4, <2>5 DEF TypeOK
<1>5. ASSUME NEW s \in Server, NEW t \in Thread, ForwardNothing(s, t)
      PROVE  TypeOK'
  <2>1. conn[s][t].reply \in Reply
    BY <1>c, ConnectionType, PlainReplies
  <2> QED
    BY <1>4, <1>5, <2>1 DEF ForwardNothing
<1>6. ASSUME NEW s \in Server, NEW t \in Thread, ForwardUnconnected(s, t)
      PROVE  TypeOK'
  BY <1>4, <1>6, PlainReplies DEF ForwardUnconnected
<1>7. ASSUME NEW s \in Server, NEW t \in Thread, ForwardSend(s, t)
      PROVE  TypeOK'
  <2> DEFINE c == conn[s][t]
             wait == [c EXCEPT !.pc = "await"]
             in == Incoming(c.req, c.id)
  <2>1. wait \in Connection /\ in \in Connection
    BY <1>c, ConnectionType, IncomingType, PlainReplies
  <2>2. conn' = [conn EXCEPT ![s][t] = wait, ![s + 1][Link] = in]
    BY <1>7 DEF ForwardSend
  <2>3. conn' \in [Server -> [Thread -> Connection]]
    <3> HIDE DEF wait, in
    <3> QED
      BY <1>0, <2>1, <2>2
  <2>4. UNCHANGED <<list, owner, successor, issued, updates, applied>>
    BY <1>7 DEF ForwardSend
  <2> QED
    BY <1>0, <2>3, <2>4 DEF TypeOK
<1>8. ASSUME NEW s \in Server, NEW t \in Thread,
             ForwardOk(s, t) \/ ForwardRetry(s, t) \/ ForwardFail(s, t)
      PROVE  TypeOK'
  <2> DEFINE c == conn[s][t]
             After(x) == [conn EXCEPT ![s][t] = x, ![s + 1][Link] = Idle]
  <2>1. PICK x \in Connection : conn' = After(x)
    <3>1. CASE ForwardOk(s, t)
      <4>1. [c EXCEPT !.pc = "reply"] \in Connection
        BY <1>c, ConnectionType, PlainReplies
      <4> QED
        BY <3>1, <4>1 DEF ForwardOk
    <3>2. CASE ForwardRetry(s, t)
      <4>1. [c EXCEPT !.pc = "forward", !.attempt = 1] \in Connection
        BY <1>c, ConnectionType, PlainReplies
      <4> QED
        BY <3>2, <4>1 DEF ForwardRetry
    <3>3. CASE ForwardFail(s, t)
      <4>1. [c EXCEPT !.pc = "reply", !.reply = Error] \in Connection
        BY <1>c, ConnectionType, PlainReplies
      <4> QED
        BY <3>3, <4>1 DEF ForwardFail
    <3> QED
      BY <1>8, <3>1, <3>2, <3>3
  <2>2. conn' \in [Server -> [Thread -> Connection]]
    BY <1>0, <2>1, IdleType
  <2>3. owner' \in [Server -> SUBSET Thread]
    BY <1>0, <1>8 DEF ForwardOk, ForwardRetry, ForwardFail
  <2>4. UNCHANGED <<list, successor, issued, updates, applied>>
    BY <1>8 DEF ForwardOk, ForwardRetry, ForwardFail
  <2> QED
    BY <1>0, <2>2, <2>3, <2>4 DEF TypeOK
<1>9. ASSUME NEW s \in Server, UpdateChain(s)
      PROVE  TypeOK'
  BY <1>0, <1>9, ChainAssumption DEF UpdateChain, TypeOK
<1>10. ASSUME UNCHANGED vars
       PROVE  TypeOK'
  BY <1>0, <1>10 DEF vars, TypeOK
<1> QED
  BY <1>1, <1>2, <1>3, <1>5, <1>6, <1>7, <1>8, <1>9, <1>10 DEF Next, Serve

\* Every reachable state is well typed: the lists hold cars, no attempt is
\* ever numbered above 1, and the bounds of the model are kept.
THEOREM TypeCorrect == Spec => []TypeOK
<1>1. Init => TypeOK
  BY TypeInit
<1>2. TypeOK /\ [Next]_vars => TypeOK'
  BY TypeNext
<1> QED
  BY <1>1, <1>2, PTL DEF Spec

-----------------------------------------------------------------------------
(* The list_mutex of a server is held until its successor has answered. *)

\* The fields a step of a thread leaves alone.
LEMMA ConnectionFields ==
    ASSUME NEW c \in Connection, NEW p, NEW reply
    PROVE  /\ [c EXCEPT !.pc = p, !.reply = reply].pc = p
           /\ [c EXCEPT !.pc = p, !.reply = reply].req = c.req
           /\ [c EXCEPT !.pc = p, !.reply = reply].id = c.id
           /\ [c EXCEPT !.pc = p].pc = p
           /\ [c EXCEPT !.pc = p].req = c.req
           /\ [c EXCEPT !.pc = p].id = c.id
           /\ [c EXCEPT !.pc = p, !.attempt = 1].pc = p
           /\ [c EXCEPT !.pc = p, !.attempt = 1].req = c.req
           /\ [c EXCEPT !.pc = p, !.attempt = 1].id = c.id
BY DEF Connection

\* Replacing one connection.
LEMMA ConnExcept ==
    ASSUME NEW f \in [Server -> [Thread -> Connection]], NEW g,
           NEW s \in Server, NEW t \in Thread, NEW x,
           g = [f EXCEPT ![s][t] = x]
    PROVE  \A r \in Server, u \in Thread :
              g[r][u] = IF r = s /\ u = t THEN x ELSE f[r][u]
OBVIOUS

\* Replacing the two ends of a forwarded write.
LEMMA ConnExcept2 ==
    ASSUME NEW f \in [Server -> [Thread -> Connection]], NEW g,
           NEW s \in Server, NEW t \in Thread, NEW x, NEW y, s # Tail0,
           g = [f EXCEPT ![s][t] = x, ![s + 1][Link] = y]
    PROVE  \A r \in Server, u \in Thread :
              g[r][u] = IF r = s + 1 /\ u = Link THEN y
                        ELSE IF r = s /\ u = t THEN x ELSE f[r][u]
<1>1. s + 1 \in Server /\ s + 1 # s /\ Link \in Thread
  BY ServerFacts
<1> QED
  BY <1>1

LEMMA MutexInit == Init => MutexHeldDownChain
BY ServerFacts DEF Init, MutexHeldDownChain, HoldersForward, OneHolder,
                   LinkServesWaiter, SameWrite, Holding, Idle

LEMMA MutexNext ==
    ASSUME TypeOK, MutexHeldDownChain, [Next]_vars
    PROVE  MutexHeldDownChain'
<1> USE DEF MutexHeldDownChain
<1>0. /\ owner \in [Server -> SUBSET Thread]
      /\ conn \in [Server -> [Thread -> Connection]]
  BY DEF TypeOK
<1>1. ASSUME NEW c \in Client, NEW req \in Inputs, Send(c, req)
      PROVE  MutexHeldDownChain'
  <2> DEFINE h == Target(req)
             x == Incoming(req, issued + 1)
  <2>1. h \in Server /\ c \in Thread /\ c # Link
    BY ServerFacts DEF Target
  <2>2. conn[h][c].pc = "idle" /\ owner' = owner
    BY <1>1 DEF Send, Target
  <2>3. \A r \in Server, u \in Thread :
           conn'[r][u] = IF r = h /\ u = c THEN x ELSE conn[r][u]
    <3>1. conn' = [conn EXCEPT ![h][c] = x]
      BY <1>1 DEF Send
    <3> HIDE DEF h, x
    <3> QED
      BY <1>0, <2>1, <3>1, ConnExcept
  <2>4. x.pc = "request"
    BY DEF Incoming, Idle
  <2> HIDE DEF h, x
  <2>5. HoldersForward' /\ OneHolder'
    BY <2>1, <2>2, <2>3, <2>4 DEF HoldersForward, OneHolder, Holding
  <2>a. \A r \in Server, u \in Thread :
           conn'[r][u].pc = "await" <=> conn[r][u].pc = "await"
    BY <2>1, <2>2, <2>3, <2>4
  <2>b. \A r \in Server : conn'[r][Link] = conn[r][Link]
    BY <2>1, <2>3, ServerFacts
  <2>6. LinkServesWaiter'
    <3>1. /\ conn'[Head0][Link].pc = "idle"
          /\ \A u \in Thread : conn'[Tail0][u].pc # "await"
      BY <2>a, <2>b, ServerFacts DEF LinkServesWaiter
    <3>2. ASSUME NEW r \in Server \ {Tail0}
          PROVE  conn'[r + 1][Link].pc # "idle" <=>
                    \E u \in Thread : conn'[r][u].pc = "await"
      <4>1. conn'[r + 1][Link] = conn[r + 1][Link]
        BY <2>b, NextServer
      <4>2. conn[r + 1][Link].pc # "idle" <=>
               \E u \in Thread : conn[r][u].pc = "await"
        BY DEF LinkServesWaiter
      <4> QED
        BY <2>a, <4>1, <4>2
    <3> QED
      BY <3>1, <3>2 DEF LinkServesWaiter
  <2>7. SameWrite'
    BY <2>1, <2>3, <2>4, <2>a, <2>b, ServerFacts DEF SameWrite
  <2> QED
    BY <2>5, <2>6, <2>7
<1>2. ASSUME NEW s \in Server, NEW c \in Client, Receive(s, c)
      PROVE  MutexHeldDownChain'
  <2>1. c \in Thread /\ c # Link
    BY ServerFacts
  <2>2. conn[s][c].pc = "reply" /\ owner' = owner
    BY <1>2 DEF Receive
  <2>3. \A r \in Server, u \in Thread :
           conn'[r][u] = IF r = s /\ u = c THEN Idle ELSE conn[r][u]
    <3>1. conn' = [conn EXCEPT ![s][c] = Idle]
      BY <1>2 DEF Receive
    <3> QED
      BY <1>0, <2>1, <3>1, ConnExcept
  <2>4. Idle.pc = "idle"
    BY DEF Idle
  <2>5. HoldersForward' /\ OneHolder'
    BY <2>1, <2>2, <2>3, <2>4 DEF HoldersForward, OneHolder, Holding
  <2>a. \A r \in Server, u \in Thread :
           conn'[r][u].pc = "await" <=> conn[r][u].pc = "await"
    BY <2>1, <2>2, <2>3, <2>4
  <2>b. \A r \in Server : conn'[r][Link] = conn[r][Link]
    BY <2>1, <2>3, ServerFacts
  <2>6. LinkServesWaiter'
    <3>1. /\ conn'[Head0][Link].pc = "idle"
          /\ \A u \in Thread : conn'[Tail0][u].pc # "await"
      BY <2>a, <2>b, ServerFacts DEF LinkServesWaiter
    <3>2. ASSUME NEW r \in Server \ {Tail0}
          PROVE  conn'[r + 1][Link].pc # "idle" <=>
                    \E u \in Thread : conn'[r][u].pc = "await"
      <4>1. conn'[r + 1][Link] = conn[r + 1][Link]
        BY <2>b, NextServer
      <4>2. conn[r + 1][Link].pc # "idle" <=>
               \E u \in Thread : conn[r][u].pc = "await"
        BY DEF LinkServesWaiter
      <4> QED
        BY <2>a, <4>1, <4>2
    <3> QED
      BY <3>1, <3>2 DEF LinkServesWaiter
  <2>7. SameWrite'
    BY <2>1, <2>3, <2>4, <2>a, <2>b, ServerFacts DEF SameWrite
  <2> QED
    BY <2>5, <2>6, <2>7
<1>3. ASSUME NEW s \in Server, NEW t \in Thread, Invoke(s, t)
      PROVE  MutexHeldDownChain'
  <2>1. conn[s][t].pc = "request" /\ owner[s] = {}
    BY <1>3 DEF Invoke
  <2>2. PICK x : /\ conn' = [conn EXCEPT ![s][t] = x]
                 /\ x.req = conn[s][t].req /\ x.id = conn[s][t].id
                 /\ \/ x.pc = "forward" /\ owner' = [owner EXCEPT ![s] = {t}]
                    \/ x.pc = "reply" /\ owner' = owner
    <3> DEFINE c == conn[s][t]
               reply == HandleReply(list[s], c.req)
    <3>1. c \in Connection
      BY <1>0
    <3>2. CASE Forwards(list[s], c.req)
      <4> DEFINE x == [c EXCEPT !.pc = "forward", !.reply = reply]
      <4>1. x.pc = "forward" /\ x.req = c.req /\ x.id = c.id
        BY <3>1, ConnectionFields
      <4>2. /\ conn' = [conn EXCEPT ![s][t] = x]
            /\ owner' = [owner EXCEPT ![s] = {t}]
        BY <1>3, <3>2 DEF Invoke
      <4> HIDE DEF x
      <4> QED
        BY <4>1, <4>2
    <3>3. CASE ~Forwards(list[s], c.req)
      <4> DEFINE x == [c EXCEPT !.pc = "reply", !.reply = reply]
      <4>1. x.pc = "reply" /\ x.req = c.req /\ x.id = c.id
        BY <3>1, ConnectionFields
      <4>2. conn' = [conn EXCEPT ![s][t] = x] /\ owner' = owner
        BY <1>3, <3>3 DEF Invoke
      <4> HIDE DEF x
      <4> QED
        BY <4>1, <4>2
    <3> QED
      BY <3>2, <3>3
  <2>3. \A r \in Server, u \in Thread :
           conn'[r][u] = IF r = s /\ u = t THEN x ELSE conn[r][u]
    BY <1>0, <2>2, ConnExcept
  <2>4. HoldersForward' /\ OneHolder'
    BY <1>0, <2>1, <2>2, <2>3 DEF HoldersForward, OneHolder, Holding
  <2>5. LinkServesWaiter'
    BY <2>1, <2>2, <2>3, ServerFacts DEF LinkServesWaiter
  <2>6. SameWrite'
    BY <2>1, <2>2, <2>3, ServerFacts DEF SameWrite
  <2> QED
    BY <2>4, <2>5, <2>6
<1>4. ASSUME NEW s \in Server, NEW t \in Thread, NEW reply,
             conn[s][t].pc = "forward", Answer(s, t, reply)
      PROVE  MutexHeldDownChain'
  <2>1. PICK x : /\ conn' = [conn EXCEPT ![s][t] = x]
                 /\ x.pc = "reply"
                 /\ x.req = conn[s][t].req /\ x.id = conn[s][t].id
    <3> DEFINE x == [conn[s][t] EXCEPT !.pc = "reply", !.reply = reply]
    <3>1. conn[s][t] \in Connection
      BY <1>0
    <3>2. x.pc = "reply" /\ x.req = conn[s][t].req /\ x.id = conn[s][t].id
      BY <3>1, ConnectionFields
    <3>3. conn' = [conn EXCEPT ![s][t] = x]
      BY <1>4 DEF Answer
    <3> HIDE DEF x
    <3> QED
      BY <3>2, <3>3
  <2>2. owner' = [owner EXCEPT ![s] = {}] /\ t \in owner[s]
    BY <1>4 DEF Answer, HoldersForward, Holding
  <2>3. \A r \in Server, u \in Thread :
           conn'[r][u] = IF r = s /\ u = t THEN x ELSE conn[r][u]
    BY <1>0, <2>1, ConnExcept
  <2>4. HoldersForward' /\ OneHolder'
    BY <1>0, <1>4, <2>1, <2>2, <2>3 DEF HoldersForward, OneHolder, Holding
  <2>5. LinkServesWaiter'
    BY <1>4, <2>1, <2>3, ServerFacts DEF LinkServesWaiter
  <2>6. SameWrite'
    BY <1>4, <2>1, <2>3, ServerFacts DEF SameWrite
  <2> QED
    BY <2>4, <2>5, <2>6
<1>5. ASSUME NEW s \in Server, NEW t \in Thread,
             ForwardNothing(s, t) \/ ForwardUnconnected(s, t)
      PROVE  MutexHeldDownChain'
  BY <1>4, <1>5 DEF ForwardNothing, ForwardUnconnected
<1>6. ASSUME NEW s \in Server, NEW t \in Thread, ForwardSend(s, t)
      PROVE  MutexHeldDownChain'
  <2> DEFINE c == conn[s][t]
             y == Incoming(c.req, c.id)
  <2>1. c.pc = "forward" /\ s # Tail0 /\ owner' = owner
    BY <1>6 DEF ForwardSend
  <2>2. PICK x : /\ conn' = [conn EXCEPT ![s][t] = x, ![s + 1][Link] = y]
                 /\ x.pc = "await" /\ x.req = c.req /\ x.id = c.id
    <3> DEFINE x == [c EXCEPT !.pc = "await"]
    <3>1. c \in Connection
      BY <1>0
    <3>2. x.pc = "await" /\ x.req = c.req /\ x.id = c.id
      BY <3>1, ConnectionFields
    <3>3. conn' = [conn EXCEPT ![s][t] = x, ![s + 1][Link] = y]
      BY <1>6 DEF ForwardSend
    <3> HIDE DEF x, y
    <3> QED
      BY <3>2, <3>3
  <2>3. y.pc = "request" /\ y.req = c.req /\ y.id = c.id
    <3>1. c \in Connection
      BY <1>0
    <3> QED
      BY <3>1, ConnectionType, IncomingType, PlainReplies
  <2>4. \A r \in Server, u \in Thread :
           conn'[r][u] = IF r = s + 1 /\ u = Link THEN y
                         ELSE IF r = s /\ u = t THEN x ELSE conn[r][u]
    <3> HIDE DEF y
    <3> QED
      BY <1>0, <2>1, <2>2, ConnExcept2
  <2>5. s + 1 \in Server /\ s + 1 # s /\ s + 1 # Head0
    BY <2>1, NextServer
  <2> HIDE DEF y
  <2>6. t \in owner[s] /\ \A u \in Thread : conn[s][u].pc \in Holding => u = t
    BY <1>0, <2>1 DEF HoldersForward, OneHolder, Holding
  <2>7. conn[s + 1][Link].pc = "idle"
    BY <2>1, <2>6, ServerFacts DEF LinkServesWaiter, Holding
  <2>8. HoldersForward' /\ OneHolder'
    BY <1>0, <2>1, <2>2, <2>3, <2>4, <2>7 DEF HoldersForward, OneHolder, Holding
  <2>a. \A r \in Server, u \in Thread :
           conn'[r][u].pc = "await" <=>
              conn[r][u].pc = "await" \/ (r = s /\ u = t)
    BY <2>2, <2>3, <2>4, <2>5, <2>7
  <2>b. \A r \in Server :
           conn'[r][Link].pc # "idle" <=>
              conn[r][Link].pc # "idle" \/ r = s + 1
    <3>1. Link \in Thread
      BY ServerFacts
    <3> QED
      BY <2>1, <2>2, <2>3, <2>4, <3>1
  <2>c. ASSUME NEW r \in Server, NEW u \in Thread, ~(r = s + 1 /\ u = Link)
        PROVE  /\ conn'[r][u].req = conn[r][u].req
               /\ conn'[r][u].id = conn[r][u].id
    <3>1. CASE r = s /\ u = t
      <4>1. conn'[r][u] = x
        BY <2>4, <2>c, <3>1
      <4> QED
        BY <2>2, <3>1, <4>1
    <3>2. CASE ~(r = s /\ u = t)
      <4>1. conn'[r][u] = conn[r][u]
        BY <2>4, <2>c, <3>2
      <4> QED
        BY <4>1
    <3> QED
      BY <3>1, <3>2
  <2>d. \A r \in Server : r \in Int /\ (r + 1 = s + 1 <=> r = s)
    BY ServerFacts
  <2>9. LinkServesWaiter'
    BY <2>1, <2>5, <2>a, <2>b, <2>d, ServerFacts DEF LinkServesWaiter
  <2>10. SameWrite'
    <3> SUFFICES ASSUME NEW r \in Server \ {Tail0}, NEW u \in Thread,
                        conn'[r][u].pc = "await"
                 PROVE  /\ conn'[r + 1][Link].req = conn'[r][u].req
                        /\ conn'[r + 1][Link].id = conn'[r][u].id
      BY DEF SameWrite
    <3>1. r + 1 \in Server
      BY ServerFacts
    <3>2. ~(r = s + 1 /\ u = Link)
      BY <2>3, <2>4, <2>5
    <3>3. CASE r = s
      <4>1. u = t
        BY <2>a, <2>1, <2>6, <3>3 DEF Holding
      <4>2. Link \in Thread
        BY ServerFacts
      <4>3. conn'[r + 1][Link] = y
        BY <2>4, <2>5, <3>3, <4>2
      <4>4. conn'[r][u] = x
        BY <2>4, <2>5, <3>3, <4>1
      <4> QED
        BY <2>2, <2>3, <4>3, <4>4
    <3>4. CASE r # s
      BY <2>a, <2>c, <2>d, <3>1, <3>2, <3>4, ServerFacts DEF SameWrite
    <3> QED
      BY <3>3, <3>4
  <2> QED
    BY <2>8, <2>9, <2>10
<1>7. ASSUME NEW s \in Server, NEW t \in Thread,
             ForwardOk(s, t) \/ ForwardRetry(s, t) \/ ForwardFail(s, t),
             s # Tail0
      PROVE  MutexHeldDownChain'
  <2> DEFINE c == conn[s][t]
  <2>1. c.pc = "await" /\ conn[s + 1][Link].pc = "reply"
    BY <1>7 DEF ForwardOk, ForwardRetry, ForwardFail, Answered
  <2>2. PICK x : /\ conn' = [conn EXCEPT ![s][t] = x, ![s + 1][Link] = Idle]
                 /\ x.req = c.req /\ x.id = c.id
                 /\ \/ x.pc = "forward" /\ owner' = owner
                    \/ x.pc = "reply" /\ owner' = [owner EXCEPT ![s] = {}]
    <3>1. c \in Connection
      BY <1>0
    <3>2. CASE ForwardOk(s, t)
      <4> DEFINE x == [c EXCEPT !.pc = "reply"]
      <4>1. x.pc = "reply" /\ x.req = c.req /\ x.id = c.id
        BY <3>1, ConnectionFields
      <4>2. /\ conn' = [conn EXCEPT ![s][t] = x, ![s + 1][Link] = Idle]
            /\ owner' = [owner EXCEPT ![s] = {}]
        BY <3>2 DEF ForwardOk
      <4> HIDE DEF x
      <4> QED
        BY <4>1, <4>2
    <3>3. CASE ForwardRetry(s, t)
      <4> DEFINE x == [c EXCEPT !.pc = "forward", !.attempt = 1]
      <4>1. x.pc = "forward" /\ x.req = c.req /\ x.id = c.id
        BY <3>1, ConnectionFields
      <4>2. /\ conn' = [conn EXCEPT ![s][t] = x, ![s + 1][Link] = Idle]
            /\ owner' = owner
        BY <3>3 DEF ForwardRetry
      <4> HIDE DEF x
      <4> QED
        BY <4>1, <4>2
    <3>4. CASE ForwardFail(s, t)
      <4> DEFINE x == [c EXCEPT !.pc = "reply", !.reply = Error]
      <4>1. x.pc = "reply" /\ x.req = c.req /\ x.id = c.id
        BY <3>1, ConnectionFields
      <4>2. /\ conn' = [conn EXCEPT ![s][t] = x, ![s + 1][Link] = Idle]
            /\ owner' = [owner EXCEPT ![s] = {}]
        BY <3>4 DEF ForwardFail
      <4> HIDE DEF x
      <4> QED
        BY <4>1, <4>2
    <3> QED
      BY <1>7, <3>2, <3>3, <3>4
  <2>3. Idle.pc = "idle"
    BY DEF Idle
  <2>4. \A r \in Server, u \in Thread :
           conn'[r][u] = IF r = s + 1 /\ u = Link THEN Idle
                         ELSE IF r = s /\ u = t THEN x ELSE conn[r][u]
    BY <1>0, <1>7, <2>2, ConnExcept2
  <2>5. s + 1 \in Server /\ s + 1 # s /\ s + 1 # Head0
    BY <1>7, ServerFacts
  <2>6. t \in owner[s] /\ \A u \in Thread : conn[s][u].pc \in Holding => u = t
    BY <1>0, <2>1 DEF HoldersForward, OneHolder, Holding
  <2>a. \A r \in Server, u \in Thread :
           conn'[r][u].pc = "await" <=>
              conn[r][u].pc = "await" /\ ~(r = s /\ u = t)
    BY <2>1, <2>2, <2>3, <2>4
  <2>b. \A r \in Server :
           conn'[r][Link].pc # "idle" <=>
              conn[r][Link].pc # "idle" /\ r # s + 1
    <3>1. Link \in Thread
      BY ServerFacts
    <3> QED
      BY <2>1, <2>2, <2>3, <2>4, <3>1
  <2>c. ASSUME NEW r \in Server, NEW u \in Thread, ~(r = s + 1 /\ u = Link)
        PROVE  /\ conn'[r][u].req = conn[r][u].req
               /\ conn'[r][u].id = conn[r][u].id
    <3>1. CASE r = s /\ u = t
      <4>1. conn'[r][u] = x
        BY <2>4, <2>c, <3>1
      <4> QED
        BY <2>2, <3>1, <4>1
    <3>2. CASE ~(r = s /\ u = t)
      <4>1. conn'[r][u] = conn[r][u]
        BY <2>4, <2>c, <3>2
      <4> QED
        BY <4>1
    <3> QED
      BY <3>1, <3>2
  <2>d. \A r \in Server : r \in Int /\ (r + 1 = s + 1 <=> r = s)
    BY ServerFacts
  <2>e. \A r \in Server, u \in Thread :
           conn'[r][u].pc \in Holding <=>
              conn[r][u].pc \in Holding /\ ~(r = s /\ u = t /\ x.pc = "reply")
    <3> SUFFICES ASSUME NEW r \in Server, NEW u \in Thread
                 PROVE  conn'[r][u].pc \in Holding <=>
                           /\ conn[r][u].pc \in Holding
                           /\ ~(r = s /\ u = t /\ x.pc = "reply")
      OBVIOUS
    <3>1. CASE r = s + 1 /\ u = Link
      <4>1. conn'[r][u] = Idle
        BY <2>4, <3>1
      <4> QED
        BY <2>1, <2>3, <2>5, <3>1, <4>1 DEF Holding
    <3>2. CASE r = s /\ u = t
      <4>1. conn'[r][u] = x
        BY <2>4, <2>5, <3>2
      <4> QED
        BY <2>1, <2>2, <3>2, <4>1 DEF Holding
    <3>3. CASE ~(r = s + 1 /\ u = Link) /\ ~(r = s /\ u = t)
      <4>1. conn'[r][u] = conn[r][u]
        BY <2>4, <3>3
      <4> QED
        BY <3>3, <4>1
    <3> QED
      BY <3>1, <3>2, <3>3
  <2>f. \A r \in Server, u \in Thread :
           u \in owner'[r] <=>
              u \in owner[r] /\ ~(r = s /\ x.pc = "reply")
    BY <1>0, <2>2
  <2>7. HoldersForward' /\ OneHolder'
    <3>1. HoldersForward'
      BY <2>1, <2>6, <2>e, <2>f DEF HoldersForward, Holding
    <3>2. \A r \in Server : owner'[r] \subseteq owner[r]
      BY <1>0, <2>2
    <3>3. OneHolder'
      BY <3>2 DEF OneHolder
    <3> QED
      BY <3>1, <3>3
  <2>8. LinkServesWaiter'
    <3>1. conn'[Head0][Link].pc = "idle"
      BY <2>b, ServerFacts DEF LinkServesWaiter
    <3>2. \A u \in Thread : conn'[Tail0][u].pc # "await"
      BY <2>a, ServerFacts DEF LinkServesWaiter
    <3>3. ASSUME NEW r \in Server \ {Tail0}
          PROVE  conn'[r + 1][Link].pc # "idle" <=>
                    \E u \in Thread : conn'[r][u].pc = "await"
      <4>1. r + 1 \in Server
        BY ServerFacts
      <4>2. CASE r = s
        BY <2>1, <2>6, <2>a, <2>b, <4>1, <4>2 DEF Holding
      <4>3. CASE r # s
        BY <2>a, <2>b, <2>d, <4>1, <4>3 DEF LinkServesWaiter
      <4> QED
        BY <4>2, <4>3
    <3> QED
      BY <3>1, <3>2, <3>3 DEF LinkServesWaiter
  <2>9. SameWrite'
    <3> SUFFICES ASSUME NEW r \in Server \ {Tail0}, NEW u \in Thread,
                        conn'[r][u].pc = "await"
                 PROVE  /\ conn'[r + 1][Link].req = conn'[r][u].req
                        /\ conn'[r + 1][Link].id = conn'[r][u].id
      BY DEF SameWrite
    <3>1. r + 1 \in Server
      BY ServerFacts
    <3>2. conn[r][u].pc = "await" /\ r # s
      BY <2>1, <2>6, <2>a DEF Holding
    <3>3. ~(r = s + 1 /\ u = Link)
      BY <2>3, <2>4, <2>5
    <3> QED
      BY <2>c, <2>d, <3>1, <3>2, <3>3, ServerFacts DEF SameWrite
  <2> QED
    BY <2>7, <2>8, <2>9
<1>8. ASSUME NEW s \in Server, NEW t \in Thread,
             ForwardOk(s, t) \/ ForwardRetry(s, t) \/ ForwardFail(s, t)
      PROVE  s # Tail0
  BY <1>8 DEF ForwardOk, ForwardRetry, ForwardFail, Answered, LinkServesWaiter
<1>9. ASSUME UNCHANGED <<owner, conn>>
      PROVE  MutexHeldDownChain'
  BY <1>9 DEF HoldersForward, OneHolder, LinkServesWaiter, SameWrite
<1>10. ASSUME NEW s \in Server, UpdateChain(s)
       PROVE  UNCHANGED <<owner, conn>>
  BY <1>10 DEF UpdateChain
<1> QED
  BY <1>1, <1>2, <1>3, <1>5, <1>6, <1>7, <1>8, <1>9, <1>10
     DEF Next, Serve, vars

\* In every reachable state the holders of list_mutex are the threads that
\* forward, one per server, and a busy Link thread works on the write of the
\* predecessor that waits for it.
THEOREM MutexTheorem == Spec => []MutexHeldDownChain
<1>1. Init => MutexHeldDownChain
  BY MutexInit
<1>2. TypeOK /\ MutexHeldDownChain /\ [Next]_vars => MutexHeldDownChain'
  BY MutexNext
<1> QED
  BY <1>1, <1>2, TypeCorrect, PTL DEF Spec

-----------------------------------------------------------------------------
(* Replicas in step, while no connection is lost.  The lists of neighbours   *)
(* are compared by a relation R: equality, if nobody sorts the head, and     *)
(* having as many cars of every model.                                       *)

\* Handlers preserve R: a write does the same to both lists, and a request that
\* is not forwarded may be executed on the first list alone.
Agreement(R) ==
    \A k, l \in Seq(Data) :
        /\ <<k, k>> \in R
        /\ <<k, l>> \in R =>
             /\ \A req \in Request :
                   Forwards(k, req) =>
                      /\ Forwards(l, req)
                      /\ <<HandleList(k, req), HandleList(l, req)>> \in R
             /\ \A req \in Inputs :
                   ~Forwards(k, req) => <<HandleList(k, req), l>> \in R

\* The topology does not change and no client asks for the ordered list.
Steady ==
    /\ MaxUpdates = 0
    /\ \A req \in Inputs : req.opcode # "GETLISTBYYEAR"

Equal == {x \in Seq(Data) \X Seq(Data) : x[1] = x[2]}

EqualModels == {x \in Seq(Data) \X Seq(Data) : SameModels(x[1], x[2])}

Connected == \A s \in Server \ {Tail0} : successor[s]

\* A client's request waits at the server it was meant for.
AtTarget ==
    \A s \in Server, c \in Client :
        conn[s][c].pc = "request" =>
            /\ s = Target(conn[s][c].req)
            /\ conn[s][c].req \in Inputs

\* No server has answered its predecessor with an error.
NoErrors ==
    /\ \A s \in Server, t \in Thread :
          conn[s][t].pc \in Holding => conn[s][t].reply.opcode = "OK"
    /\ \A s \in Server :
          conn[s][Link].pc = "reply" => conn[s][Link].reply.opcode = "OK"

\* A write that is on its way to server s + 1 will succeed there.
WillSucceed ==
    \A s \in Server \ {Tail0}, t \in Thread :
        Ahead(s, t) => Forwards(list[s + 1], conn[s][t].req)

\* ReplicasInStep and ModelsInStep, up to the relation.
Related(R) ==
    \A s \in Server \ {Tail0} :
        IF \E t \in Thread : Ahead(s, t)
        THEN \A t \in Thread : Ahead(s, t) =>
               <<list[s], HandleList(list[s + 1], conn[s][t].req)>> \in R
        ELSE <<list[s], list[s + 1]>> \in R

\* It is not inductive by itself: that the handler of server s + 1 succeeds
\* follows from its list agreeing with the one the handler of s succeeded on,
\* and that nothing is retried from every handler succeeding.
InStepInv(R) == Connected /\ AtTarget /\ NoErrors /\ WillSucceed /\ Related(R)

\* Only a holder of list_mutex is ahead, and there is one per server.
LEMMA AheadHolds ==
    ASSUME TypeOK, MutexHeldDownChain, NEW s \in Server, NEW t \in Thread,
           conn[s][t].pc \in Holding
    PROVE  /\ t \in owner[s]
           /\ \A u \in Thread : conn[s][u].pc \in Holding => u = t
BY DEF TypeOK, MutexHeldDownChain, HoldersForward, OneHolder

\* A handler that fails, or is not that of a write or of the sort, leaves the
\* list alone.
LEMMA NotForwarded ==
    ASSUME NEW l \in Seq(Data), NEW req \in Request, ~Forwards(l, req),
           req.opcode # "GETLISTBYYEAR"
    PROVE  HandleList(l, req) = l
<1>1. req.opcode # "ADD"
  BY DEF Forwards, IsWriteOp, HandleReply, Ok
<1>2. CASE req.opcode = "DEL"
  <2>1. HandleReply(l, req).opcode # "OK"
    BY <1>2 DEF Forwards, IsWriteOp
  <2>2. WithModelo(l, req.data.modelo) = {}
    BY <1>2, <2>1 DEF HandleReply, Ok
  <2> QED
    BY <1>2, <2>2 DEF HandleList, ListRemoveByModel
<1>3. CASE req.opcode # "DEL"
  BY <1>1, <1>3 DEF HandleList
<1> QED
  BY <1>2, <1>3

\* A step that moves no write from one list to the next, and changes at most
\* a list that is not ahead, keeps the lists in step.
LEMMA NobodyMoves ==
    ASSUME NEW R, WillSucceed, Related(R),
           \A s \in Server \ {Tail0} :
              /\ list'[s + 1] = list[s + 1]
              /\ \/ list'[s] = list[s]
                 \/ /\ \A t \in Thread : ~Ahead(s, t)
                    /\ <<list'[s], list[s + 1]>> \in R,
           \A s \in Server \ {Tail0}, t \in Thread :
              /\ Ahead(s, t)' <=> Ahead(s, t)
              /\ Ahead(s, t) => conn'[s][t].req = conn[s][t].req
    PROVE  WillSucceed' /\ Related(R)'
<1>1. WillSucceed'
  BY DEF WillSucceed
<1>2. ASSUME NEW s \in Server \ {Tail0}
      PROVE  IF \E t \in Thread : Ahead(s, t)'
             THEN \A t \in Thread : Ahead(s, t)' =>
                    <<list'[s],
                      HandleList(list'[s + 1], conn'[s][t].req)>> \in R
             ELSE <<list'[s], list'[s + 1]>> \in R
  <2>1. CASE \E t \in Thread : Ahead(s, t)
    BY <2>1 DEF Related
  <2>2. CASE ~\E t \in Thread : Ahead(s, t)
    BY <2>2 DEF Related
  <2> QED
    BY <2>1, <2>2
<1> QED
  BY <1>1, <1>2 DEF Related

LEMMA InStepInit ==
    ASSUME NEW R, Agreement(R), TypeOK, Init
    PROVE  InStepInv(R)
<1>1. \A s \in Server, t \in Thread : conn[s][t].pc = "idle"
  BY DEF Init, Idle
<1>2. Connected /\ AtTarget /\ NoErrors
  <2>1. ASSUME NEW s \in Server \ {Tail0}
        PROVE  successor[s]
    BY NextServer DEF Init, Server, Tail0
  <2>2. Connected
    BY <2>1 DEF Connected
  <2> QED
    BY <1>1, <2>2, ServerFacts DEF AtTarget, NoErrors, Holding
<1>3. \A s \in Server, t \in Thread : ~Ahead(s, t)
  BY <1>1 DEF Ahead
<1>4. ASSUME NEW s \in Server \ {Tail0}
      PROVE  <<list[s], list[s + 1]>> \in R
  <2>1. list[s] \in Seq(Data) /\ list[s] = list[s + 1]
    BY ServerFacts DEF Init, TypeOK
  <2> QED
    BY <2>1 DEF Agreement
<1> QED
  BY <1>2, <1>3, <1>4 DEF InStepInv, WillSucceed, Related

\* The list of the head, that is not ahead, changes within the relation.
HeadRearranged(R) ==
    /\ \A u \in Thread : conn[Head0][u].pc \notin Holding
    /\ \A r \in Server : r # Head0 => list'[r] = list[r]
    /\ \A l \in Seq(Data) :
          <<list[Head0], l>> \in R => <<list'[Head0], l>> \in R

\* A step of server s that writes nothing.
NothingWritten(R, s) ==
    \/ list' = list
    \/ HeadRearranged(R) /\ s = Head0

\* A step that changes one connection, and neither starts nor ends a wait for
\* the rest of the chain.
LEMMA OneEnd ==
    ASSUME NEW R, TypeOK, MutexHeldDownChain, InStepInv(R),
           NEW s \in Server, NEW t \in Thread, NEW x,
           \A r \in Server, u \in Thread :
              conn'[r][u] = IF r = s /\ u = t THEN x ELSE conn[r][u],
           successor' = successor,
           NothingWritten(R, s),
           conn[s][t].pc # "await",
           conn[s][t].pc = "forward" => s = Tail0,
           x.pc \notin Holding,
           x.pc = "request" => /\ s = Target(x.req)
                               /\ x.req \in Inputs,
           t = Link => /\ conn[s][t].pc # "request" /\ x.pc # "request"
                       /\ x.pc = "reply" => x.reply.opcode = "OK"
    PROVE  InStepInv(R)'
<1>1. Connected'
  BY DEF InStepInv, Connected
<1>2. AtTarget'
  BY ServerFacts DEF InStepInv, AtTarget
<1>3. NoErrors'
  BY ServerFacts DEF InStepInv, NoErrors
<1>4. ASSUME NEW r \in Server \ {Tail0}, NEW u \in Thread
      PROVE  /\ Ahead(r, u)' <=> Ahead(r, u)
             /\ Ahead(r, u) => conn'[r][u].req = conn[r][u].req
  <2>1. r + 1 \in Server /\ Link \in Thread
    BY ServerFacts
  <2>2. conn'[r + 1][Link].pc = "request" <=> conn[r + 1][Link].pc = "request"
    BY <2>1
  <2>3. CASE r = s /\ u = t
    BY <2>1, <2>2, <2>3 DEF Ahead, Holding
  <2>4. CASE ~(r = s /\ u = t)
    BY <2>1, <2>2, <2>4 DEF Ahead
  <2> QED
    BY <2>3, <2>4
<1>5. ASSUME NEW r \in Server \ {Tail0}
      PROVE  /\ list'[r + 1] = list[r + 1]
             /\ \/ list'[r] = list[r]
                \/ /\ \A u \in Thread : ~Ahead(r, u)
                   /\ <<list'[r], list[r + 1]>> \in R
  <2>1. r + 1 \in Server /\ r + 1 # Head0
    BY ServerFacts
  <2>2. CASE list' = list
    BY <2>2
  <2>3. CASE list' # list /\ r # s
    BY <2>1, <2>3 DEF HeadRearranged, NothingWritten
  <2>4. CASE list' # list /\ r = s
    <3>1. \A u \in Thread : ~Ahead(r, u)
      BY <2>4 DEF Ahead, Holding, HeadRearranged, NothingWritten
    <3>2. <<list[r], list[r + 1]>> \in R
      BY <3>1 DEF InStepInv, Related
    <3>3. list[r + 1] \in Seq(Data)
      BY <2>1 DEF TypeOK
    <3> QED
      BY <2>1, <2>4, <3>1, <3>2, <3>3 DEF HeadRearranged, NothingWritten
  <2> QED
    BY <2>2, <2>3, <2>4
<1>6. WillSucceed' /\ Related(R)'
  BY <1>4, <1>5, NobodyMoves DEF InStepInv
<1> QED
  BY <1>1, <1>2, <1>3, <1>6 DEF InStepInv

\* A step of a waiting thread and of the Link thread that serves it.
LEMMA BothEnds ==
    ASSUME NEW R, TypeOK, MutexHeldDownChain, InStepInv(R),
           NEW s \in Server \ {Tail0}, NEW t \in Thread, NEW x, NEW y,
           \A r \in Server, u \in Thread :
              conn'[r][u] = IF r = s + 1 /\ u = Link THEN y
                            ELSE IF r = s /\ u = t THEN x ELSE conn[r][u],
           list' = list, successor' = successor,
           x.req = conn[s][t].req, x.reply.opcode = "OK",
           \/ /\ conn[s][t].pc = "forward" /\ x.pc = "await"
              /\ conn[s + 1][Link].pc = "idle" /\ y.pc = "request"
           \/ /\ conn[s][t].pc = "await" /\ x.pc = "reply"
              /\ conn[s + 1][Link].pc = "reply" /\ y.pc = "idle"
    PROVE  InStepInv(R)'
<1>1. Connected'
  BY DEF InStepInv, Connected
<1>0. s + 1 \in Server /\ s + 1 # s /\ Link \in Thread
  BY ServerFacts
<1>2. AtTarget'
  BY <1>0, ServerFacts DEF InStepInv, AtTarget
<1>3. NoErrors'
  BY <1>0 DEF InStepInv, NoErrors, Holding
<1>4. ASSUME NEW r \in Server \ {Tail0}, NEW u \in Thread
      PROVE  /\ Ahead(r, u)' <=> Ahead(r, u)
             /\ Ahead(r, u) => conn'[r][u].req = conn[r][u].req
  <2>1. r + 1 \in Server /\ (r + 1 = s + 1 <=> r = s)
    BY ServerFacts
  <2>2. CASE r = s /\ u = t
    <3>1. conn'[r][u] = x /\ conn'[r + 1][Link] = y
      BY <1>0, <2>2
    <3> QED
      BY <2>2, <3>1 DEF Ahead
  <2>3. CASE r = s /\ u # t
    <3>1. conn'[r][u] = conn[r][u]
      BY <1>0, <2>3
    <3>2. conn[r][u].pc \notin Holding
      BY <2>3, AheadHolds DEF Holding
    <3> QED
      BY <3>1, <3>2 DEF Ahead, Holding
  <2>4. CASE r = s + 1 /\ u = Link
    <3>1. conn'[r][u] = y
      BY <2>4
    <3> QED
      BY <2>4, <3>1 DEF Ahead
  <2>5. CASE r # s /\ ~(r = s + 1 /\ u = Link)
    <3>1. conn'[r][u] = conn[r][u]
      BY <2>5
    <3>2. conn'[r + 1][Link].pc = "request" <=> conn[r + 1][Link].pc = "request"
      BY <1>0, <2>1, <2>5
    <3> QED
      BY <3>1, <3>2 DEF Ahead
  <2> QED
    BY <2>2, <2>3, <2>4, <2>5
<1>5. ASSUME NEW r \in Server \ {Tail0}
      PROVE  list'[r + 1] = list[r + 1] /\ list'[r] = list[r]
  BY ServerFacts
<1>6. WillSucceed' /\ Related(R)'
  BY <1>4, <1>5, NobodyMoves DEF InStepInv
<1> QED
  BY <1>1, <1>2, <1>3, <1>6 DEF InStepInv

LEMMA ConnectionReplies ==
    ASSUME NEW c \in Connection, NEW p, NEW reply
    PROVE  /\ [c EXCEPT !.pc = p, !.reply = reply].reply = reply
           /\ [c EXCEPT !.pc = p].reply = c.reply
BY DEF Connection

\* The request a Link thread works on is the one that put the predecessor
\* ahead.
LEMMA LinkRequest ==
    ASSUME NEW R, TypeOK, MutexHeldDownChain, InStepInv(R), NEW s \in Server,
           conn[s][Link].pc = "request"
    PROVE  /\ s # Head0
           /\ Forwards(list[s], conn[s][Link].req)
           /\ <<list[s - 1], HandleList(list[s], conn[s][Link].req)>> \in R
<1>1. s # Head0
  BY DEF MutexHeldDownChain, LinkServesWaiter
<1> DEFINE p == s - 1
<1>2. p \in Server \ {Tail0} /\ p + 1 = s
  BY <1>1, ServerFacts
<1> HIDE DEF p
<1>3. PICK u \in Thread : conn[p][u].pc = "await"
  BY <1>2 DEF MutexHeldDownChain, LinkServesWaiter
<1>4. Ahead(p, u) /\ conn[s][Link].req = conn[p][u].req
  BY <1>2, <1>3 DEF Ahead, MutexHeldDownChain, SameWrite
<1>5. Forwards(list[s], conn[s][Link].req)
  BY <1>2, <1>4 DEF InStepInv, WillSucceed
<1>6. <<list[p], HandleList(list[s], conn[s][Link].req)>> \in R
  BY <1>2, <1>4 DEF InStepInv, Related
<1> QED
  BY <1>1, <1>5, <1>6 DEF p

\* A handler whose write is going to be forwarded: the server draws level with
\* its predecessor and gets ahead of its successor.
LEMMA InvokeAhead ==
    ASSUME NEW R, Agreement(R), TypeOK, MutexHeldDownChain, InStepInv(R),
           NEW s \in Server, NEW t \in Thread, NEW x,
           conn[s][t].pc = "request", conn[s][t].req \in Request, owner[s] = {},
           Forwards(list[s], conn[s][t].req),
           \A r \in Server, u \in Thread :
              conn'[r][u] = IF r = s /\ u = t THEN x ELSE conn[r][u],
           \A r \in Server :
              list'[r] = IF r = s THEN HandleList(list[s], conn[s][t].req)
                         ELSE list[r],
           successor' = successor,
           x.pc = "forward", x.req = conn[s][t].req, x.reply.opcode = "OK"
    PROVE  InStepInv(R)'
<1>1. Connected'
  BY DEF InStepInv, Connected
<1>2. AtTarget'
  <2>1. ASSUME NEW r \in Server, NEW c \in Client, conn'[r][c].pc = "request"
        PROVE  conn'[r][c] = conn[r][c]
    BY <2>1, ServerFacts
  <2> QED
    BY <2>1 DEF InStepInv, AtTarget
<1>3. NoErrors'
  <2>1. ASSUME NEW r \in Server, NEW u \in Thread
        PROVE  /\ conn'[r][u].pc \in Holding => conn'[r][u].reply.opcode = "OK"
               /\ u = Link /\ conn'[r][u].pc = "reply" =>
                     conn'[r][u].reply.opcode = "OK"
    <3>1. CASE r = s /\ u = t
      <4>1. conn'[r][u] = x
        BY <3>1
      <4> QED
        BY <4>1
    <3>2. CASE ~(r = s /\ u = t)
      <4>1. conn'[r][u] = conn[r][u]
        BY <3>2
      <4> QED
        BY <4>1 DEF InStepInv, NoErrors
    <3> QED
      BY <3>1, <3>2
  <2> QED
    BY <2>1, ServerFacts DEF NoErrors
<1>4. \A u \in Thread : conn[s][u].pc \notin Holding
  BY DEF MutexHeldDownChain, HoldersForward
<1>5. t = Link \/ s = Head0
  <2>1. CASE t \in Client
    BY <2>1, ServerFacts DEF InStepInv, AtTarget, Forwards, Target
  <2> QED
    BY <2>1 DEF Thread
<1>6. ASSUME NEW r \in Server \ {Tail0}, r = s
      PROVE  /\ \A u \in Thread : Ahead(r, u)' <=> u = t
             /\ Forwards(list'[r + 1], conn'[r][t].req)
             /\ <<list'[r], HandleList(list'[r + 1], conn'[r][t].req)>> \in R
  <2>1. r + 1 \in Server /\ r + 1 # s
    BY <1>6, ServerFacts
  <2>2. \A u \in Thread : ~Ahead(r, u)
    BY <1>4, <1>6 DEF Ahead, Holding
  <2>3. <<list[r], list[r + 1]>> \in R /\ list'[r + 1] = list[r + 1]
    BY <2>1, <2>2 DEF InStepInv, Related
  <2>4. conn'[r][t].pc = "forward" /\ conn'[r][t].req = conn[s][t].req
    BY <1>6
  <2>5. \A u \in Thread : u # t => conn'[r][u].pc \notin Holding
    BY <1>4, <1>6
  <2>6. \A u \in Thread : Ahead(r, u)' <=> u = t
    BY <2>4, <2>5 DEF Ahead, Holding
  <2>7. list[r] \in Seq(Data) /\ list[r + 1] \in Seq(Data)
    BY <2>1 DEF TypeOK
  <2>8. /\ Forwards(list[r + 1], conn[s][t].req)
        /\ <<HandleList(list[r], conn[s][t].req),
             HandleList(list[r + 1], conn[s][t].req)>> \in R
    BY <1>6, <2>3, <2>7 DEF Agreement
  <2> QED
    BY <1>6, <2>3, <2>4, <2>6, <2>8
<1>7. ASSUME NEW r \in Server \ {Tail0}, r + 1 = s
      PROVE  /\ \A u \in Thread : ~Ahead(r, u)'
             /\ <<list'[r], list'[r + 1]>> \in R
  <2>1. s # Head0 /\ r = s - 1 /\ r # s /\ t = Link
    BY <1>5, <1>7, ServerFacts
  <2>2. <<list[r], HandleList(list[s], conn[s][t].req)>> \in R
    BY <2>1, LinkRequest
  <2>3. <<list'[r], list'[r + 1]>> \in R
    BY <1>7, <2>1, <2>2
  <2>4. PICK u \in Thread : conn[r][u].pc = "await"
    BY <1>7, <2>1 DEF MutexHeldDownChain, LinkServesWaiter
  <2>5. \A v \in Thread : v # u => conn[r][v].pc \notin Holding
    BY <2>4, AheadHolds DEF Holding
  <2>6. \A v \in Thread : conn'[r][v] = conn[r][v]
    BY <2>1
  <2>7. conn'[r + 1][Link].pc = "forward"
    BY <1>7, <2>1
  <2>8. \A v \in Thread : ~Ahead(r, v)'
    BY <2>4, <2>5, <2>6, <2>7 DEF Ahead, Holding
  <2> QED
    BY <2>3, <2>8
<1>8. ASSUME NEW r \in Server \ {Tail0}, r # s, r + 1 # s
      PROVE  /\ \A u \in Thread : /\ Ahead(r, u)' <=> Ahead(r, u)
                                  /\ conn'[r][u] = conn[r][u]
             /\ list'[r] = list[r] /\ list'[r + 1] = list[r + 1]
  <2>1. r + 1 \in Server /\ Link \in Thread
    BY ServerFacts
  <2>2. conn'[r + 1][Link] = conn[r + 1][Link]
    BY <1>8, <2>1
  <2>3. \A u \in Thread : conn'[r][u] = conn[r][u]
    BY <1>8
  <2> QED
    BY <1>8, <2>1, <2>2, <2>3 DEF Ahead
<1>9. WillSucceed'
  BY <1>6, <1>7, <1>8 DEF InStepInv, WillSucceed
<1>10. ASSUME NEW r \in Server \ {Tail0}
       PROVE  IF \E u \in Thread : Ahead(r, u)'
              THEN \A u \in Thread : Ahead(r, u)' =>
                     <<list'[r],
                       HandleList(list'[r + 1], conn'[r][u].req)>> \in R
              ELSE <<list'[r], list'[r + 1]>> \in R
  <2>1. CASE r = s
    BY <1>6, <2>1
  <2>2. CASE r + 1 = s
    BY <1>7, <2>2
  <2>3. CASE r # s /\ r + 1 # s
    BY <1>8, <2>3 DEF InStepInv, Related
  <2> QED
    BY <2>1, <2>2, <2>3
<1> QED
  BY <1>1, <1>2, <1>3, <1>9, <1>10 DEF InStepInv, Related

LEMMA InStepNext ==
    ASSUME NEW R, Agreement(R), TypeOK, MutexHeldDownChain, InStepInv(R),
           [Next]_vars, updates' = 0
    PROVE  InStepInv(R)'
<1>0. /\ list \in [Server -> Seq(Data)]
      /\ conn \in [Server -> [Thread -> Connection]]
  BY DEF TypeOK
<1>c. ASSUME NEW s \in Server, NEW t \in Thread
      PROVE  /\ conn[s][t] \in Connection
             /\ conn[s][t].req \in Request
             /\ conn[s][t].id \in 0..MaxCommands
  <2>1. conn[s][t] \in Connection
    BY <1>0
  <2> QED
    BY <2>1, ConnectionType, PlainReplies
<1>1. ASSUME NEW c \in Client, NEW req \in Inputs, Send(c, req)
      PROVE  InStepInv(R)'
  <2> DEFINE h == Target(req)
             x == Incoming(req, issued + 1)
  <2>1. h \in Server /\ c \in Thread /\ c # Link
    BY ServerFacts DEF Target
  <2>2. /\ conn[h][c].pc = "idle" /\ list' = list /\ successor' = successor
        /\ conn' = [conn EXCEPT ![h][c] = x]
    BY <1>1 DEF Send, Target
  <2>3. x.pc = "request" /\ x.req = req
    BY DEF Incoming, Idle
  <2>4. h = Target(x.req) /\ x.req \in Inputs
    BY <2>3
  <2> HIDE DEF h, x
  <2>5. \A r \in Server, u \in Thread :
           conn'[r][u] = IF r = h /\ u = c THEN x ELSE conn[r][u]
    BY <1>0, <2>1, <2>2, ConnExcept
  <2>6. x.pc \notin Holding /\ NothingWritten(R, h)
    BY <2>2, <2>3 DEF Holding, NothingWritten
  <2> QED
    BY <2>1, <2>2, <2>3, <2>4, <2>5, <2>6, OneEnd
<1>2. ASSUME NEW s \in Server, NEW c \in Client, Receive(s, c)
      PROVE  InStepInv(R)'
  <2>1. c \in Thread /\ c # Link
    BY ServerFacts
  <2>2. /\ conn[s][c].pc = "reply" /\ list' = list /\ successor' = successor
        /\ conn' = [conn EXCEPT ![s][c] = Idle]
    BY <1>2 DEF Receive
  <2>3. Idle.pc = "idle"
    BY DEF Idle
  <2>4. \A r \in Server, u \in Thread :
           conn'[r][u] = IF r = s /\ u = c THEN Idle ELSE conn[r][u]
    BY <1>0, <2>1, <2>2, ConnExcept
  <2>5. Idle.pc \notin Holding /\ NothingWritten(R, s)
    BY <2>2, <2>3 DEF Holding, NothingWritten
  <2> QED
    BY <2>1, <2>2, <2>3, <2>4, <2>5, OneEnd
<1>3. ASSUME NEW s \in Server, NEW t \in Thread, Invoke(s, t)
      PROVE  InStepInv(R)'
  <2> DEFINE c == conn[s][t]
             reply == HandleReply(list[s], c.req)
  <2>1. c.pc = "request" /\ owner[s] = {} /\ successor' = successor
    BY <1>3 DEF Invoke
  <2>2. list' = [list EXCEPT ![s] = HandleList(list[s], c.req)]
    BY <1>3 DEF Invoke
  <2>3. CASE Forwards(list[s], c.req)
    <3> DEFINE x == [c EXCEPT !.pc = "forward", !.reply = reply]
    <3>1. x.pc = "forward" /\ x.req = c.req /\ x.reply = reply
      BY <1>c, ConnectionFields, ConnectionReplies
    <3>2. reply.opcode = "OK"
      BY <2>3 DEF Forwards
    <3>3. conn' = [conn EXCEPT ![s][t] = x]
      BY <1>3, <2>3 DEF Invoke
    <3> HIDE DEF x
    <3>4. \A r \in Server, u \in Thread :
             conn'[r][u] = IF r = s /\ u = t THEN x ELSE conn[r][u]
      BY <1>0, <3>3, ConnExcept
    <3>5. \A r \in Server :
             list'[r] = IF r = s THEN HandleList(list[s], c.req) ELSE list[r]
      BY <1>0, <2>2
    <3> QED
      BY <1>c, <2>1, <2>3, <3>1, <3>2, <3>4, <3>5, InvokeAhead
  <2>4. CASE ~Forwards(list[s], c.req)
    <3> DEFINE x == [c EXCEPT !.pc = "reply", !.reply = reply]
    <3>1. x.pc = "reply"
      BY <1>c, ConnectionFields
    <3>2. conn' = [conn EXCEPT ![s][t] = x]
      BY <1>3, <2>4 DEF Invoke
    <3> HIDE DEF x
    <3>3. \A r \in Server, u \in Thread :
             conn'[r][u] = IF r = s /\ u = t THEN x ELSE conn[r][u]
      BY <1>0, <3>2, ConnExcept
    <3>4. t # Link
      BY <2>1, <2>4, LinkRequest
    <3>5. s = Target(c.req) /\ c.req \in Inputs
      BY <2>1, <3>4 DEF Thread, InStepInv, AtTarget
    <3>6. CASE c.req.opcode # "GETLISTBYYEAR"
      <4>1. HandleList(list[s], c.req) = list[s]
        BY <1>0, <1>c, <2>4, <3>6, NotForwarded
      <4>2. list' = list
        BY <1>0, <2>2, <4>1
      <4>3. x.pc \notin Holding /\ NothingWritten(R, s)
        BY <3>1, <4>2 DEF Holding, NothingWritten
      <4> QED
        BY <2>1, <3>1, <3>3, <3>4, <4>3, OneEnd
    <3>7. CASE c.req.opcode = "GETLISTBYYEAR"
      <4>1. s = Head0
        BY <3>5, <3>7 DEF Target
      <4>2. /\ \A r \in Server : r # s => list'[r] = list[r]
            /\ list'[s] = HandleList(list[s], c.req)
            /\ list[s] \in Seq(Data)
        BY <1>0, <2>2
      <4>3. \A u \in Thread : conn[s][u].pc \notin Holding
        BY <2>1 DEF MutexHeldDownChain, HoldersForward
      <4>4. \A l \in Seq(Data) :
               <<list[s], l>> \in R => <<list'[s], l>> \in R
        BY <2>4, <3>5, <4>2 DEF Agreement
      <4>5. HeadRearranged(R)
        BY <4>1, <4>2, <4>3, <4>4 DEF HeadRearranged
      <4>6. x.pc \notin Holding /\ NothingWritten(R, s)
        BY <3>1, <4>1, <4>5 DEF Holding, NothingWritten
      <4> QED
        BY <2>1, <3>1, <3>3, <3>4, <4>6, OneEnd
    <3> QED
      BY <3>6, <3>7
  <2> QED
    BY <2>3, <2>4
<1>4. ASSUME NEW s \in Server, NEW t \in Thread, ForwardNothing(s, t)
      PROVE  InStepInv(R)'
  <2> DEFINE c == conn[s][t]
             x == [c EXCEPT !.pc = "reply", !.reply = c.reply]
  <2>1. /\ c.pc = "forward" /\ s = Tail0
        /\ list' = list /\ successor' = successor
        /\ conn' = [conn EXCEPT ![s][t] = x]
    BY <1>4 DEF ForwardNothing, Answer
  <2>2. x.pc = "reply" /\ x.reply = c.reply
    BY <1>c, ConnectionFields, ConnectionReplies
  <2>3. c.reply.opcode = "OK"
    BY <2>1 DEF InStepInv, NoErrors, Holding
  <2> HIDE DEF x
  <2>4. \A r \in Server, u \in Thread :
           conn'[r][u] = IF r = s /\ u = t THEN x ELSE conn[r][u]
    BY <1>0, <2>1, ConnExcept
  <2>5. x.pc \notin Holding /\ NothingWritten(R, s)
    BY <2>1, <2>2 DEF Holding, NothingWritten
  <2> QED
    BY <2>1, <2>2, <2>3, <2>4, <2>5, OneEnd
<1>5. ASSUME NEW s \in Server, NEW t \in Thread
      PROVE  ~ForwardUnconnected(s, t)
  BY DEF InStepInv, Connected, ForwardUnconnected
<1>6. ASSUME NEW s \in Server, NEW t \in Thread, ForwardSend(s, t)
      PROVE  InStepInv(R)'
  <2> DEFINE c == conn[s][t]
             x == [c EXCEPT !.pc = "await"]
             y == Incoming(c.req, c.id)
  <2>1. /\ c.pc = "forward" /\ s \in Server \ {Tail0}
        /\ list' = list /\ successor' = successor
    BY <1>6 DEF ForwardSend
  <2>a. conn' = [conn EXCEPT ![s][t] = x, ![s + 1][Link] = y]
    BY <1>6 DEF ForwardSend
  <2>2. x.pc = "await" /\ x.req = c.req /\ x.reply = c.reply
    BY <1>c, ConnectionFields, ConnectionReplies
  <2>3. c.reply.opcode = "OK"
    BY <2>1 DEF InStepInv, NoErrors, Holding
  <2>4. y.pc = "request"
    BY <1>c, IncomingType
  <2>5. conn[s + 1][Link].pc = "idle"
    <3>1. \A u \in Thread : conn[s][u].pc # "await"
      BY <2>1, AheadHolds DEF Holding
    <3> QED
      BY <2>1, <3>1 DEF MutexHeldDownChain, LinkServesWaiter
  <2> HIDE DEF x, y
  <2>6. \A r \in Server, u \in Thread :
           conn'[r][u] = IF r = s + 1 /\ u = Link THEN y
                         ELSE IF r = s /\ u = t THEN x ELSE conn[r][u]
    BY <1>0, <2>1, <2>a, ConnExcept2
  <2> QED
    BY <2>1, <2>2, <2>3, <2>4, <2>5, <2>6, BothEnds
<1>7. ASSUME NEW s \in Server, NEW t \in Thread, Answered(s, t)
      PROVE  /\ s \in Server \ {Tail0}
             /\ conn[s + 1][Link].reply.opcode = "OK"
  <2>1. s # Tail0
    BY <1>7 DEF Answered, MutexHeldDownChain, LinkServesWaiter
  <2>2. s + 1 \in Server
    BY <2>1, ServerFacts
  <2> QED
    BY <1>7, <2>1, <2>2 DEF Answered, InStepInv, NoErrors
<1>8. ASSUME NEW s \in Server, NEW t \in Thread
      PROVE  ~ForwardRetry(s, t) /\ ~ForwardFail(s, t)
  BY <1>7 DEF ForwardRetry, ForwardFail
<1>9. ASSUME NEW s \in Server, NEW t \in Thread, ForwardOk(s, t)
      PROVE  InStepInv(R)'
  <2> DEFINE c == conn[s][t]
             x == [c EXCEPT !.pc = "reply"]
  <2>1. /\ c.pc = "await" /\ conn[s + 1][Link].pc = "reply"
        /\ s \in Server \ {Tail0}
        /\ list' = list /\ successor' = successor
    BY <1>7, <1>9 DEF ForwardOk, Answered
  <2>a. conn' = [conn EXCEPT ![s][t] = x, ![s + 1][Link] = Idle]
    BY <1>9 DEF ForwardOk
  <2>2. x.pc = "reply" /\ x.req = c.req /\ x.reply = c.reply
    BY <1>c, ConnectionFields, ConnectionReplies
  <2>3. c.reply.opcode = "OK"
    BY <2>1 DEF InStepInv, NoErrors, Holding
  <2>4. Idle.pc = "idle"
    BY DEF Idle
  <2> HIDE DEF x
  <2>5. \A r \in Server, u \in Thread :
           conn'[r][u] = IF r = s + 1 /\ u = Link THEN Idle
                         ELSE IF r = s /\ u = t THEN x ELSE conn[r][u]
    BY <1>0, <2>1, <2>a, ConnExcept2
  <2> QED
    BY <2>1, <2>2, <2>3, <2>4, <2>5, BothEnds
<1>10. ASSUME NEW s \in Server
       PROVE  ~UpdateChain(s)
  BY DEF UpdateChain, TypeOK
<1>11. ASSUME UNCHANGED vars
       PROVE  InStepInv(R)'
  BY <1>11 DEF vars, InStepInv, Connected, AtTarget, NoErrors, WillSucceed,
              Related, Ahead
<1> QED
  BY <1>1, <1>2, <1>3, <1>4, <1>5, <1>6, <1>8, <1>9, <1>10, <1>11
     DEF Next, Serve

\* Updates are counted: a chain without any has had none.
LEMMA StillSteady ==
    ASSUME TypeOK, [Next]_vars, updates' = 0
    PROVE  updates = 0
<1>1. CASE \E s \in Server : UpdateChain(s)
  <2>1. updates' = updates + 1 /\ updates \in Nat
    BY <1>1, ChainAssumption DEF UpdateChain, TypeOK
  <2> QED
    BY <2>1
<1>2. CASE UNCHANGED vars
  BY <1>2 DEF vars
<1>3. CASE \/ \E c \in Client, req \in Inputs : Send(c, req)
           \/ \E s \in Server, c \in Client : Receive(s, c)
  BY <1>3 DEF Send, Receive
<1>4. ASSUME NEW s \in Server, NEW t \in Thread, Serve(s, t)
      PROVE  updates' = updates
  <2>1. CASE Invoke(s, t)
    BY <2>1 DEF Invoke
  <2>2. CASE ForwardNothing(s, t) \/ ForwardUnconnected(s, t)
    BY <2>2 DEF ForwardNothing, ForwardUnconnected, Answer
  <2>3. CASE ForwardSend(s, t) \/ ForwardOk(s, t)
    BY <2>3 DEF ForwardSend, ForwardOk
  <2>4. CASE ForwardRetry(s, t) \/ ForwardFail(s, t)
    BY <2>4 DEF ForwardRetry, ForwardFail
  <2> QED
    BY <1>4, <2>1, <2>2, <2>3, <2>4 DEF Serve
<1> QED
  BY <1>1, <1>2, <1>3, <1>4 DEF Next

-----------------------------------------------------------------------------
(* The same lists. *)

LEMMA EqualAgreement == Steady => Agreement(Equal)
<1> SUFFICES ASSUME Steady PROVE Agreement(Equal)
  OBVIOUS
<1>1. \A k, l : <<k, l>> \in Equal <=> k \in Seq(Data) /\ k = l
  BY DEF Equal
<1>2. \A req \in Inputs : req \in Request /\ req.opcode # "GETLISTBYYEAR"
  BY ChainAssumption DEF Steady
<1>3. \A k \in Seq(Data), req \in Inputs :
         ~Forwards(k, req) => HandleList(k, req) = k
  BY <1>2, NotForwarded
<1>4. \A k \in Seq(Data), req \in Request : HandleList(k, req) \in Seq(Data)
  BY HandleListType
<1>5. ASSUME NEW k \in Seq(Data), NEW l \in Seq(Data), <<k, l>> \in Equal
      PROVE  /\ \A req \in Request :
                   Forwards(k, req) =>
                      /\ Forwards(l, req)
                      /\ <<HandleList(k, req), HandleList(l, req)>> \in Equal
             /\ \A req \in Inputs :
                   ~Forwards(k, req) => <<HandleList(k, req), l>> \in Equal
  <2>1. k = l
    BY <1>1, <1>5
  <2> QED
    BY <1>1, <1>3, <1>4, <2>1
<1> QED
  BY <1>1, <1>5 DEF Agreement

\* With a fixed topology and without get_list_ordered_by_year, the lists of
\* neighbours differ in every reachable state by the one write zk_forward is
\* carrying from one to the other, and by nothing else.
THEOREM InStep == Steady => (Spec => []ReplicasInStep)
<1> SUFFICES ASSUME Steady PROVE Spec => []ReplicasInStep
  OBVIOUS
<1> DEFINE Inv == updates = 0 => InStepInv(Equal)
<1>a. Agreement(Equal)
  BY EqualAgreement
<1>b. TypeOK /\ Init => Inv
  BY <1>a, InStepInit
<1>c. TypeOK /\ MutexHeldDownChain /\ Inv /\ [Next]_vars => Inv'
  BY <1>a, InStepNext, StillSteady
<1>1. Spec => []Inv
  BY <1>b, <1>c, TypeCorrect, MutexTheorem, PTL DEF Spec
<1>2. TypeOK /\ Inv => ReplicasInStep
  <2>1. TypeOK => updates = 0
    BY DEF TypeOK, Steady
  <2>2. \A k, l : <<k, l>> \in Equal => k = l
    BY DEF Equal
  <2>3. Related(Equal) => ReplicasInStep
    BY <2>2 DEF Related, ReplicasInStep
  <2> QED
    BY <2>1, <2>3 DEF InStepInv
<1> HIDE DEF Inv
<1> QED
  BY <1>1, <1>2, TypeCorrect, PTL

-----------------------------------------------------------------------------
(* As many cars of every model. *)

LEMMA ModelCounts ==
    ASSUME NEW k \in Seq(Data), NEW l \in Seq(Data), NEW modelo
    PROVE  /\ Cardinality(WithModelo(k, modelo)) \in Nat
           /\ Cardinality(WithModelo(k, modelo)) =
                Cardinality(WithModelo(l, modelo)) =>
                (WithModelo(k, modelo) = {} <=> WithModelo(l, modelo) = {})
<1>1. /\ IsFiniteSet(WithModelo(k, modelo))
      /\ IsFiniteSet(WithModelo(l, modelo))
      /\ Cardinality(WithModelo(k, modelo)) \in Nat
  BY ModelPositions
<1> QED
  BY <1>1, FS_EmptySet

LEMMA ModelsAgreement == Agreement(EqualModels)
<1>1. \A k, l : <<k, l>> \in EqualModels <=>
                /\ k \in Seq(Data) /\ l \in Seq(Data)
                /\ SameModels(k, l)
  BY DEF EqualModels
<1>2. ASSUME NEW k \in Seq(Data)
      PROVE  <<k, k>> \in EqualModels
  BY <1>1 DEF SameModels
<1>3. ASSUME NEW k \in Seq(Data), NEW l \in Seq(Data), SameModels(k, l),
             NEW req \in Request, Forwards(k, req)
      PROVE  /\ Forwards(l, req)
             /\ SameModels(HandleList(k, req), HandleList(l, req))
  <2>0. req.data \in Data /\ req.data.modelo \in Modelo
    BY DEF Request, Data
  <2>1. CASE req.opcode = "ADD"
    <3>1. Forwards(l, req)
      BY <2>1 DEF Forwards, IsWriteOp, HandleReply, Ok
    <3>2. /\ HandleList(k, req) = ListAdd(k, req.data)
          /\ HandleList(l, req) = ListAdd(l, req.data)
      BY <2>1 DEF HandleList
    <3>3. SameModels(ListAdd(k, req.data), ListAdd(l, req.data))
      BY <1>3, <2>0, AddModels DEF SameModels
    <3> QED
      BY <3>1, <3>2, <3>3
  <2>2. CASE req.opcode = "DEL"
    <3> DEFINE x == req.data.modelo
    <3>1. WithModelo(k, x) # {}
      BY <1>3, <2>2 DEF Forwards, HandleReply, Error
    <3>2. WithModelo(l, x) # {}
      BY <1>3, <2>0, <3>1, ModelCounts DEF SameModels
    <3>3. Forwards(l, req)
      BY <2>2, <3>2 DEF Forwards, IsWriteOp, HandleReply, Ok
    <3>4. /\ HandleList(k, req) = ListRemoveByModel(k, x)
          /\ HandleList(l, req) = ListRemoveByModel(l, x)
      BY <2>2 DEF HandleList
    <3> HIDE DEF x
    <3>5. SameModels(ListRemoveByModel(k, x), ListRemoveByModel(l, x))
      BY <1>3, <3>1, <3>2, RemoveModels DEF SameModels
    <3> QED
      BY <3>3, <3>4, <3>5
  <2>3. req.opcode = "ADD" \/ req.opcode = "DEL"
    BY <1>3 DEF Forwards, IsWriteOp
  <2> QED
    BY <2>1, <2>2, <2>3
<1>4. ASSUME NEW k \in Seq(Data), NEW l \in Seq(Data), SameModels(k, l),
             NEW req \in Request, ~Forwards(k, req)
      PROVE  SameModels(HandleList(k, req), l)
  <2>1. CASE req.opcode = "GETLISTBYYEAR"
    <3>1. HandleList(k, req) = ListOrderByYear(k)
      BY <2>1 DEF HandleList
    <3> QED
      BY <1>4, <3>1, OrderModels DEF SameModels
  <2>2. CASE req.opcode # "GETLISTBYYEAR"
    BY <1>4, <2>2, NotForwarded
  <2> QED
    BY <2>1, <2>2
<1>5. \A k \in Seq(Data), req \in Request : HandleList(k, req) \in Seq(Data)
  BY HandleListType
<1>6. Inputs \subseteq Request
  BY ChainAssumption
<1> QED
  BY <1>1, <1>2, <1>3, <1>4, <1>5, <1>6 DEF Agreement

\* Whatever the clients ask for: as long as no connection was lost neighbours
\* hold as many cars of every model, up to the write in flight, so a remove the
\* head could execute never fails further down.
THEOREM ModelsTheorem == Spec => []ModelsInStep
<1> DEFINE Inv == updates = 0 => InStepInv(EqualModels)
<1>a. Agreement(EqualModels)
  BY ModelsAgreement
<1>b. TypeOK /\ Init => Inv
  BY <1>a, InStepInit
<1>c. TypeOK /\ MutexHeldDownChain /\ Inv /\ [Next]_vars => Inv'
  BY <1>a, InStepNext, StillSteady
<1>1. Spec => []Inv
  BY <1>b, <1>c, TypeCorrect, MutexTheorem, PTL DEF Spec
<1>2. Inv => ModelsInStep
  <2>1. \A k, l : <<k, l>> \in EqualModels => SameModels(k, l)
    BY DEF EqualModels
  <2>2. Related(EqualModels) =>
          \A s \in Server \ {Tail0} :
             IF \E t \in Thread : Ahead(s, t)
             THEN \A t \in Thread : Ahead(s, t) =>
                    SameModels(list[s], HandleList(list[s + 1], conn[s][t].req))
             ELSE SameModels(list[s], list[s + 1])
    BY <2>1 DEF Related
  <2> QED
    BY <2>2 DEF InStepInv, ModelsInStep
<1> HIDE DEF Inv
<1> QED
  BY <1>1, <1>2, PTL

=============================================================================
