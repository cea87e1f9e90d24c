------------------------- MODULE ChainWriteProofs -------------------------
(***************************************************************************)
(* What the answer OK to a write means, and how often the servers of the   *)
(* chain execute one, for every number of servers and clients, whatever    *)
(* connections are lost and found again; and that without losses the chain *)
(* is one list, on which every command takes effect at one instant.        *)
(***************************************************************************)
EXTENDS ChainForwardProofs, NaturalsInduction, WellFoundedInduction

-----------------------------------------------------------------------------
(* Answers.  OkMeansEverywhere speaks of the head; a server in the          *)
(* middle promises the same of itself and of the servers behind it, and it  *)
(* has executed what it is forwarding.                                      *)

\* Connection a of server s, when `count` says what has been executed.
Promise(s, a, count) ==
    /\ a.pc # "idle" => a.id \in Id
    /\ a.pc \in Holding => count[s][a.id] >= 1
    /\ a.pc = "reply" /\ IsWriteOp(a.req) /\ a.reply.opcode = "OK" =>
          \A r \in Server : r >= s => count[r][a.id] >= 1

Promises ==
    \A s \in Server, t \in Thread : Promise(s, conn[s][t], applied)

Counts == [Server -> [Id -> Nat]]

\* What has been executed stays executed.
LEMMA PromiseKept ==
    ASSUME NEW f \in Counts, NEW g \in Counts,
           \A r \in Server, i \in Id : g[r][i] >= f[r][i],
           NEW s \in Server, NEW a, Promise(s, a, f)
    PROVE  Promise(s, a, g)
<1>1. \A r \in Server, i \in Id : f[r][i] \in Nat /\ g[r][i] \in Nat
  BY DEF Counts
<1>2. \A r \in Server, i \in Id : f[r][i] >= 1 => g[r][i] >= 1
  BY <1>1
<1> QED
  BY <1>2 DEF Promise, Holding

\* One connection changes.
LEMMA OnePromise ==
    ASSUME TypeOK, Promises, NEW s \in Server, NEW t \in Thread, NEW x,
           conn' = [conn EXCEPT ![s][t] = x], applied' = applied,
           Promise(s, x, applied)
    PROVE  Promises'
<1>1. conn \in [Server -> [Thread -> Connection]]
  BY DEF TypeOK
<1>2. \A r \in Server, u \in Thread :
         conn'[r][u] = IF r = s /\ u = t THEN x ELSE conn[r][u]
  BY <1>1, ConnExcept
<1> QED
  BY <1>2 DEF Promises

\* The two ends of a forwarded write change.
LEMMA TwoPromises ==
    ASSUME TypeOK, Promises, NEW s \in Server, NEW t \in Thread, NEW x, NEW y,
           s # Tail0, conn' = [conn EXCEPT ![s][t] = x, ![s + 1][Link] = y],
           applied' = applied,
           Promise(s, x, applied), Promise(s + 1, y, applied)
    PROVE  Promises'
<1>1. conn \in [Server -> [Thread -> Connection]]
  BY DEF TypeOK
<1>2. \A r \in Server, u \in Thread :
         conn'[r][u] = IF r = s + 1 /\ u = Link THEN y
                       ELSE IF r = s /\ u = t THEN x ELSE conn[r][u]
  BY <1>1, ConnExcept2
<1>3. ASSUME NEW r \in Server, NEW u \in Thread
      PROVE  Promise(r, conn'[r][u], applied')
  <2>1. CASE r = s + 1 /\ u = Link
    BY <1>2, <2>1
  <2>2. CASE ~(r = s + 1 /\ u = Link) /\ r = s /\ u = t
    BY <1>2, <2>2
  <2>3. CASE ~(r = s + 1 /\ u = Link) /\ ~(r = s /\ u = t)
    <3>1. Promise(r, conn[r][u], applied)
      BY DEF Promises
    <3>2. conn'[r][u] = conn[r][u]
      BY <1>2, <2>3
    <3> QED
      BY <3>1, <3>2
  <2> QED
    BY <2>1, <2>2, <2>3
<1> QED
  BY <1>3 DEF Promises

\* An idle connection, a request that arrives and an error promise nothing.
LEMMA NoPromise ==
    ASSUME NEW s, NEW c \in Connection, NEW req \in Request, NEW i \in Id,
           NEW count
    PROVE  /\ Promise(s, Idle, count)
           /\ Promise(s, Incoming(req, i), count)
           /\ c.id \in Id =>
                Promise(s, [c EXCEPT !.pc = "reply", !.reply = Error], count)
<1>1. Idle.pc = "idle"
  BY DEF Idle
<1>2. Incoming(req, i).pc = "request" /\ Incoming(req, i).id = i
  BY DEF Incoming, Idle
<1>3. LET e == [c EXCEPT !.pc = "reply", !.reply = Error]
      IN  e.pc = "reply" /\ e.id = c.id /\ e.reply.opcode # "OK"
  <2>1. Error.opcode # "OK"
    BY DEF Error, Ok
  <2> QED
    BY <2>1 DEF Connection
<1> QED
  BY <1>1, <1>2, <1>3 DEF Promise, Holding

LEMMA PromisesInit == Init => Promises
<1> SUFFICES ASSUME Init PROVE Promises
  OBVIOUS
<1>1. \A s \in Server, t \in Thread : conn[s][t].pc = "idle"
  BY DEF Init, Idle
<1> QED
  BY <1>1 DEF Promises, Promise, Holding

LEMMA PromisesNext ==
    ASSUME TypeOK, MutexHeldDownChain, Promises, [Next]_vars
    PROVE  Promises'
<1>0. /\ conn \in [Server -> [Thread -> Connection]]
      /\ list \in [Server -> Seq(Data)]
      /\ issued \in 0..MaxCommands
      /\ applied \in Counts
  BY DEF TypeOK, Counts
<1>c. ASSUME NEW s \in Server, NEW t \in Thread
      PROVE  /\ conn[s][t] \in Connection
             /\ Promise(s, conn[s][t], applied)
             /\ conn[s][t].pc # "idle" => conn[s][t].id \in Id
             /\ conn[s][t].pc \in Holding => applied[s][conn[s][t].id] >= 1
  BY <1>0 DEF Promises, Promise
<1>1. ASSUME NEW c \in Client, NEW req \in Inputs, Send(c, req)
      PROVE  Promises'
  <2>1. req \in Request /\ issued + 1 \in Id
    BY <1>0, <1>1, ChainAssumption DEF Send, Id
  <2>2. Target(req) \in Server /\ c \in Thread
    BY ServerFacts DEF Target
  <2>3. Promise(Target(req), Incoming(req, issued + 1), applied)
    BY <2>1, IdleType, NoPromise
  <2> QED
    BY <1>1, <2>2, <2>3, OnePromise DEF Send
<1>2. ASSUME NEW s \in Server, NEW c \in Client, Receive(s, c)
      PROVE  Promises'
  <2>1. c \in Thread /\ Promise(s, Idle, applied)
    BY ServerFacts DEF Promise, Idle, Holding
  <2> QED
    BY <1>2, <2>1, OnePromise DEF Receive
<1>3. ASSUME NEW s \in Server, NEW t \in Thread, Invoke(s, t)
      PROVE  Promises'
  <2> DEFINE c == conn[s][t]
             reply == HandleReply(list[s], c.req)
             fwd == [c EXCEPT !.pc = "forward", !.reply = reply]
             ans == [c EXCEPT !.pc = "reply", !.reply = reply]
  <2>1. c \in Connection /\ c.pc = "request" /\ c.id \in Id
    BY <1>3, <1>c DEF Invoke
  <2>2. CASE Forwards(list[s], c.req)
    <3>1. conn' = [conn EXCEPT ![s][t] = fwd]
      BY <1>3, <2>2 DEF Invoke
    <3>2. applied' = [applied EXCEPT ![s][c.id] = @ + 1]
      BY <1>3, <2>2 DEF Invoke
    <3> DEFINE i == c.id
    <3>3. i \in Id /\ \A r \in Server, j \in Id : applied[r][j] \in Nat
      BY <1>0, <2>1 DEF Counts
    <3>4. \A r \in Server, j \in Id :
             applied'[r][j] = IF r = s /\ j = i THEN applied[r][j] + 1
                                                ELSE applied[r][j]
      <4> HIDE DEF c, i
      <4>1. applied' = [applied EXCEPT ![s][i] = @ + 1]
        BY <3>2 DEF i
      <4> QED
        BY <1>0, <3>3, <4>1 DEF Counts
    <3>5. applied' \in Counts
      <4>1. applied' = [applied EXCEPT ![s] = [applied[s] EXCEPT ![i] = @ + 1]]
        BY <3>2
      <4>2. applied[s] \in [Id -> Nat]
        BY <1>0 DEF Counts
      <4> HIDE DEF c, i
      <4>3. [applied[s] EXCEPT ![i] = @ + 1] \in [Id -> Nat]
        BY <3>3, <4>2
      <4> QED
        BY <1>0, <4>1, <4>3 DEF Counts
    <3>6. \A r \in Server, j \in Id : applied'[r][j] >= applied[r][j]
      <4> HIDE DEF c, i
      <4> QED
        BY <3>3, <3>4
    <3>7. applied'[s][i] >= 1
      <4> HIDE DEF c, i
      <4> QED
        BY <3>3, <3>4
    <3>8. fwd.pc = "forward" /\ fwd.id = i
      BY <2>1, ConnectionFields
    <3>9. Promise(s, fwd, applied')
      <4> HIDE DEF c, i, fwd
      <4> QED
        BY <3>3, <3>7, <3>8 DEF Promise, Holding
    <3>10. \A r \in Server, u \in Thread :
              conn'[r][u] = IF r = s /\ u = t THEN fwd ELSE conn[r][u]
      <4> HIDE DEF fwd
      <4> QED
        BY <1>0, <3>1, ConnExcept
    <3>11. ASSUME NEW r \in Server, NEW u \in Thread
           PROVE  Promise(r, conn'[r][u], applied')
      <4>1. Promise(r, conn[r][u], applied')
        BY <1>0, <1>c, <3>5, <3>6, PromiseKept
      <4> HIDE DEF fwd
      <4> QED
        BY <3>9, <3>10, <4>1
    <3> QED
      BY <3>11 DEF Promises
  <2>3. CASE ~Forwards(list[s], c.req)
    <3>1. conn' = [conn EXCEPT ![s][t] = ans] /\ applied' = applied
      BY <1>3, <2>3 DEF Invoke
    <3>2. ans.pc = "reply" /\ ans.req = c.req /\ ans.id = c.id
      BY <2>1, ConnectionFields
    <3>3. ans.reply = reply
      BY <2>1 DEF Connection
    <3>4. ~(IsWriteOp(ans.req) /\ ans.reply.opcode = "OK")
      BY <2>3, <3>2, <3>3 DEF Forwards
    <3>5. Promise(s, ans, applied)
      <4> HIDE DEF ans, c
      <4>1. ans.id \in Id
        BY <2>1, <3>2
      <4> QED
        BY <3>2, <3>4, <4>1 DEF Promise, Holding
    <3> HIDE DEF ans
    <3> QED
      BY <3>1, <3>5, OnePromise
  <2> QED
    BY <2>2, <2>3
<1>4. ASSUME NEW s \in Server, NEW t \in Thread, ForwardNothing(s, t)
      PROVE  Promises'
  <2> DEFINE c == conn[s][t]
             ans == [c EXCEPT !.pc = "reply", !.reply = c.reply]
  <2>1. conn' = [conn EXCEPT ![s][t] = ans] /\ applied' = applied
    BY <1>4 DEF ForwardNothing, Answer
  <2>2. c.pc = "forward" /\ s = Tail0
    BY <1>4 DEF ForwardNothing
  <2>3. c \in Connection /\ c.id \in Id /\ applied[s][c.id] >= 1
    BY <1>c, <2>2 DEF Holding
  <2>4. \A r \in Server : r >= s => r = s
    BY <2>2, ChainAssumption DEF Server, Tail0
  <2>5. ans.pc = "reply" /\ ans.id = c.id
    BY <2>3, ConnectionFields
  <2> HIDE DEF ans, c
  <2>6. Promise(s, ans, applied)
    BY <2>3, <2>4, <2>5 DEF Promise, Holding
  <2> QED
    BY <2>1, <2>6, OnePromise
<1>5. ASSUME NEW s \in Server, NEW t \in Thread, ForwardUnconnected(s, t)
      PROVE  Promises'
  <2> DEFINE ans == [conn[s][t] EXCEPT !.pc = "reply", !.reply = Error]
  <2>1. conn' = [conn EXCEPT ![s][t] = ans] /\ applied' = applied
    BY <1>5 DEF ForwardUnconnected, Answer
  <2>2. conn[s][t].id \in Id
    BY <1>5, <1>c DEF ForwardUnconnected
  <2>3. Promise(s, ans, applied)
    BY <1>c, <2>2, NoPromise, IdleType DEF Connection
  <2> HIDE DEF ans
  <2> QED
    BY <2>1, <2>3, OnePromise
<1>6. ASSUME NEW s \in Server, NEW t \in Thread, ForwardSend(s, t)
      PROVE  Promises'
  <2> DEFINE c == conn[s][t]
             wait == [c EXCEPT !.pc = "await"]
             in == Incoming(c.req, c.id)
  <2>1. /\ conn' = [conn EXCEPT ![s][t] = wait, ![s + 1][Link] = in]
        /\ applied' = applied /\ c.pc = "forward" /\ s # Tail0
    BY <1>6 DEF ForwardSend
  <2>2. c \in Connection /\ c.id \in Id /\ applied[s][c.id] >= 1
    BY <1>c, <2>1 DEF Holding
  <2>3. wait.pc = "await" /\ wait.id = c.id
    BY <2>2, ConnectionFields
  <2>4. Promise(s + 1, in, applied)
    BY <2>2, NoPromise DEF Connection
  <2> HIDE DEF c, wait, in
  <2>5. Promise(s, wait, applied)
    BY <2>2, <2>3 DEF Promise, Holding
  <2> QED
    BY <2>1, <2>4, <2>5, TwoPromises
<1>7. ASSUME NEW s \in Server, NEW t \in Thread, Answered(s, t)
      PROVE  /\ s # Tail0 /\ s + 1 \in Server
             /\ conn[s][t].id \in Id /\ applied[s][conn[s][t].id] >= 1
             /\ Promise(s + 1, Idle, applied)
  <2>1. s # Tail0
    BY <1>7 DEF Answered, MutexHeldDownChain, LinkServesWaiter
  <2>2. conn[s][t].id \in Id /\ applied[s][conn[s][t].id] >= 1
    BY <1>7, <1>c DEF Answered, Holding
  <2>3. Promise(s + 1, Idle, applied)
    BY DEF Promise, Idle, Holding
  <2> QED
    BY <2>1, <2>2, <2>3, NextServer
<1>8. ASSUME NEW s \in Server, NEW t \in Thread, ForwardOk(s, t)
      PROVE  Promises'
  <2> DEFINE c == conn[s][t]
             link == conn[s + 1][Link]
             ans == [c EXCEPT !.pc = "reply"]
  <2>1. /\ conn' = [conn EXCEPT ![s][t] = ans, ![s + 1][Link] = Idle]
        /\ applied' = applied /\ c.pc = "await" /\ link.pc = "reply"
        /\ link.reply.opcode = "OK"
    BY <1>8 DEF ForwardOk, Answered
  <2>2. /\ s # Tail0 /\ s + 1 \in Server /\ c.id \in Id
        /\ applied[s][c.id] >= 1 /\ Promise(s + 1, Idle, applied)
    BY <1>7, <1>8 DEF ForwardOk
  <2>3. link.req = c.req /\ link.id = c.id
    BY <2>1, <2>2 DEF MutexHeldDownChain, SameWrite
  <2>4. c \in Connection /\ Promise(s + 1, link, applied)
    BY <1>c, <2>2, ServerFacts
  <2>5. ans.pc = "reply" /\ ans.req = c.req /\ ans.id = c.id
    BY <2>4, ConnectionFields
  <2>6. \A r \in Server : r >= s => r = s \/ r >= s + 1
    BY DEF Server
  <2> HIDE DEF c, link, ans
  <2>7. IsWriteOp(c.req) =>
          \A r \in Server : r >= s + 1 => applied[r][c.id] >= 1
    BY <2>1, <2>3, <2>4 DEF Promise
  <2>8. Promise(s, ans, applied)
    BY <2>2, <2>5, <2>6, <2>7 DEF Promise, Holding
  <2> QED
    BY <2>1, <2>2, <2>8, TwoPromises
<1>9. ASSUME NEW s \in Server, NEW t \in Thread, ForwardRetry(s, t)
      PROVE  Promises'
  <2> DEFINE c == conn[s][t]
             again == [c EXCEPT !.pc = "forward", !.attempt = 1]
  <2>1. /\ conn' = [conn EXCEPT ![s][t] = again, ![s + 1][Link] = Idle]
        /\ applied' = applied
    BY <1>9 DEF ForwardRetry
  <2>2. /\ s # Tail0 /\ c.id \in Id
        /\ applied[s][c.id] >= 1 /\ Promise(s + 1, Idle, applied)
    BY <1>7, <1>9 DEF ForwardRetry
  <2>3. again.pc = "forward" /\ again.id = c.id
    BY <1>c, ConnectionFields
  <2> HIDE DEF c, again
  <2>4. Promise(s, again, applied)
    BY <2>2, <2>3 DEF Promise, Holding
  <2> QED
    BY <2>1, <2>2, <2>4, TwoPromises
<1>10. ASSUME NEW s \in Server, NEW t \in Thread, ForwardFail(s, t)
       PROVE  Promises'
  <2> DEFINE ans == [conn[s][t] EXCEPT !.pc = "reply", !.reply = Error]
  <2>1. /\ conn' = [conn EXCEPT ![s][t] = ans, ![s + 1][Link] = Idle]
        /\ applied' = applied
    BY <1>10 DEF ForwardFail
  <2>2. /\ s # Tail0 /\ conn[s][t].id \in Id
        /\ Promise(s + 1, Idle, applied)
    BY <1>7, <1>10 DEF ForwardFail
  <2>3. Promise(s, ans, applied)
    BY <1>c, <2>2, NoPromise, IdleType DEF Connection
  <2> HIDE DEF ans
  <2> QED
    BY <2>1, <2>2, <2>3, TwoPromises
<1>11. CASE UNCHANGED <<conn, applied>>
  BY <1>11 DEF Promises
<1> QED
  BY <1>1, <1>2, <1>3, <1>4, <1>5, <1>6, <1>8, <1>9, <1>10, <1>11
  DEF Next, Serve, UpdateChain, vars

\* A write that is answered OK has been executed by every server of the
\* chain, with any number of broken connections and retries in between.
THEOREM OkTheorem == Spec => []OkMeansEverywhere
<1> DEFINE Inv == TypeOK /\ MutexHeldDownChain /\ Promises
<1>1. Init => Inv
  BY TypeInit, MutexInit, PromisesInit
<1>2. Inv /\ [Next]_vars => Inv'
  BY TypeNext, MutexNext, PromisesNext
<1>3. Inv => OkMeansEverywhere
  <2>1. Head0 \in Server /\ \A r \in Server : r >= Head0
    BY ServerFacts DEF Server, Head0
  <2> QED
    BY <2>1, ServerFacts DEF Promises, Promise, OkMeansEverywhere
<1> QED
  BY <1>1, <1>2, <1>3, PTL DEF Spec

-----------------------------------------------------------------------------
(* Executions: how often each server executes a write.                     *)

\* The writes of the Link threads, the reads of clients at the tail.
LocalInv ==
    \A s \in Server, t \in Thread :
       LET a == conn[s][t] IN
       a.pc # "idle" =>
          /\ a.id \in 1..issued
          /\ t = Link => IsWriteOp(a.req)
          /\ t # Link /\ s # Head0 => s = Tail0 /\ ~IsWriteOp(a.req)
          /\ a.pc \in Holding => IsWriteOp(a.req) /\ a.reply.opcode = "OK"
          /\ a.pc = "request" => a.attempt = 0

\* A command has a number of its own.
IdInv ==
    \A s, r \in Server, c, d \in Client :
       /\ conn[s][c].pc # "idle" /\ conn[r][d].pc # "idle"
       /\ conn[s][c].id = conn[r][d].id
       => s = r /\ c = d

\* The head executes a write once: nobody sends it there again.
HeadInv ==
    \A i \in Id :
       /\ applied[Head0][i] <= 1
       /\ applied[Head0][i] >= 1 =>
             \A c \in Client :
                conn[Head0][c].pc = "request" => conn[Head0][c].id # i

\* All servers above one that works on a write wait for it.
AboveInv ==
    \A s, r \in Server :
       conn[s][Link].pc # "idle" /\ r < s =>
          \E t \in Thread :
             conn[r][t].pc = "await" /\ conn[r][t].id = conn[s][Link].id

\* A server sends a write up to twice for each time it executed it.  How many
\* of the two the successor can have executed:
Sent(s, t) ==
    IF conn[s][t].pc = "await" /\ conn[s + 1][Link].pc # "request"
    THEN conn[s][t].attempt + 1
    ELSE conn[s][t].attempt

BoundInv ==
    \A s \in Server \ {Tail0}, i \in Id :
       /\ applied[s + 1][i] <= 2 * applied[s][i]
       /\ \A t \in Thread :
             conn[s][t].pc \in Holding /\ conn[s][t].id = i =>
                applied[s + 1][i] <= 2 * (applied[s][i] - 1) + Sent(s, t)

\* What the tail has executed is on its way back, and is not sent again.
OnItsWay(s, a) ==
    \/ a.pc = "await"
    \/ a.pc = "forward" /\ s = Tail0
    \/ a.pc = "reply" /\ a.reply.opcode = "OK"

DoneInv ==
    \A i \in Id :
       /\ applied[Tail0][i] <= 1
       /\ applied[Tail0][i] >= 1 =>
             \A s \in Server, t \in Thread :
                LET a == conn[s][t] IN
                a.pc # "idle" /\ a.id = i /\ IsWriteOp(a.req) => OnItsWay(s, a)

\* What has been executed has been issued.
IssuedInv ==
    \A s \in Server, i \in Id : applied[s][i] >= 1 => i <= issued

-----------------------------------------------------------------------------
(* The steps, reduced to what the invariant speaks of.                      *)

\* One connection changes, or the two ends of a forwarded write.
OneSet(s, t, x) ==
    \A r \in Server, u \in Thread :
       conn'[r][u] = IF r = s /\ u = t THEN x ELSE conn[r][u]

TwoSet(s, t, x, y) ==
    \A r \in Server, u \in Thread :
       conn'[r][u] = IF r = s + 1 /\ u = Link THEN y
                     ELSE IF r = s /\ u = t THEN x ELSE conn[r][u]

\* The same request.
Same(a, b) == a.id = b.id /\ a.req = b.req

Asks(c, h, x) ==
    /\ OneSet(h, c, x)
    /\ h = Head0 \/ (h = Tail0 /\ ~IsWriteOp(x.req))
    /\ conn[Head0][c].pc = "idle" /\ conn[Tail0][c].pc = "idle"
    /\ x.pc = "request" /\ x.id = issued + 1 /\ x.attempt = 0
    /\ issued' = issued + 1 /\ issued + 1 \in Id
    /\ applied' = applied

Reads(s, c) ==
    /\ OneSet(s, c, Idle)
    /\ conn[s][c].pc = "reply"
    /\ UNCHANGED <<issued, applied>>

Executes(s, t, x) ==
    /\ OneSet(s, t, x)
    /\ conn[s][t].pc = "request" /\ owner[s] = {} /\ IsWriteOp(conn[s][t].req)
    /\ Same(x, conn[s][t]) /\ x.attempt = conn[s][t].attempt
    /\ x.pc = "forward" /\ x.reply.opcode = "OK"
    /\ conn[s][t].id \in Id
    /\ \A r \in Server, j \in Id :
          applied'[r][j] = IF r = s /\ j = conn[s][t].id
                           THEN applied[r][j] + 1 ELSE applied[r][j]
    /\ UNCHANGED issued

Replies(s, t, x) ==
    /\ OneSet(s, t, x)
    /\ x.pc = "reply" /\ Same(x, conn[s][t])
    /\ \/ conn[s][t].pc = "request"
       \/ conn[s][t].pc = "forward" /\ (s = Tail0 => x.reply = conn[s][t].reply)
    /\ UNCHANGED <<issued, applied>>

Passes(s, t, x, y) ==
    /\ TwoSet(s, t, x, y)
    /\ s # Tail0 /\ conn[s][t].pc = "forward"
    /\ x.pc = "await" /\ Same(x, conn[s][t])
    /\ x.attempt = conn[s][t].attempt /\ x.reply = conn[s][t].reply
    /\ y.pc = "request" /\ Same(y, conn[s][t]) /\ y.attempt = 0
    /\ UNCHANGED <<issued, applied>>

Returns(s, t, x) ==
    /\ TwoSet(s, t, x, Idle)
    /\ s # Tail0 /\ conn[s][t].pc = "await" /\ conn[s + 1][Link].pc = "reply"
    /\ Same(x, conn[s][t])
    /\ \/ /\ x.pc = "reply" /\ x.reply = conn[s][t].reply
          /\ conn[s + 1][Link].reply.opcode = "OK"
       \/ /\ x.pc = "forward" /\ x.reply = conn[s][t].reply
          /\ conn[s][t].attempt = 0 /\ x.attempt = 1
          /\ conn[s + 1][Link].reply.opcode # "OK"
       \/ /\ x.pc = "reply"
          /\ conn[s + 1][Link].reply.opcode # "OK"
    /\ UNCHANGED <<issued, applied>>

Nothing == UNCHANGED <<conn, issued, applied>>

\* All fields of a connection after a step.
LEMMA Fields ==
    ASSUME NEW c \in Connection, NEW p, NEW reply
    PROVE  /\ [c EXCEPT !.pc = p, !.reply = reply].reply = reply
           /\ [c EXCEPT !.pc = p, !.reply = reply].attempt = c.attempt
           /\ [c EXCEPT !.pc = p].reply = c.reply
           /\ [c EXCEPT !.pc = p].attempt = c.attempt
           /\ [c EXCEPT !.pc = p, !.attempt = 1].reply = c.reply
           /\ [c EXCEPT !.pc = p, !.attempt = 1].attempt = 1
           /\ c.attempt \in 0..1
BY DEF Connection

LEMMA IncomingFields ==
    ASSUME NEW req, NEW i
    PROVE  /\ Incoming(req, i).pc = "request" /\ Incoming(req, i).id = i
           /\ Incoming(req, i).req = req /\ Incoming(req, i).attempt = 0
BY DEF Incoming, Idle

LEMMA Steps ==
    ASSUME TypeOK, MutexHeldDownChain, LocalInv, [Next]_vars
    PROVE  \/ \E c \in Client, h \in Server : \E x : Asks(c, h, x)
           \/ \E s \in Server, c \in Client : Reads(s, c)
           \/ \E s \in Server, t \in Thread : \E x :
                 Executes(s, t, x) \/ Replies(s, t, x) \/ Returns(s, t, x)
           \/ \E s \in Server, t \in Thread : \E x, y : Passes(s, t, x, y)
           \/ Nothing
<1>0. /\ conn \in [Server -> [Thread -> Connection]]
      /\ issued \in 0..MaxCommands
      /\ applied \in Counts
  BY DEF TypeOK, Counts
<1>c. ASSUME NEW s \in Server, NEW t \in Thread
      PROVE  conn[s][t] \in Connection
  BY <1>0
<1>1. ASSUME NEW c \in Client, NEW req \in Inputs, Send(c, req)
      PROVE  Asks(c, Target(req), Incoming(req, issued + 1))
             /\ Target(req) \in Server
  <2> DEFINE h == Target(req)
             x == Incoming(req, issued + 1)
  <2>1. /\ h \in Server /\ c \in Thread
        /\ h = Head0 \/ (h = Tail0 /\ ~IsWriteOp(req))
    BY ServerFacts DEF Target
  <2>2. /\ x.pc = "request" /\ x.id = issued + 1 /\ x.req = req
        /\ x.attempt = 0
    BY IncomingFields
  <2>3. issued' = issued + 1 /\ issued + 1 \in Id /\ applied' = applied
    BY <1>0, <1>1, ChainAssumption DEF Send, Id
  <2>4. conn' = [conn EXCEPT ![h][c] = x]
    BY <1>1 DEF Send
  <2>5. conn[Head0][c].pc = "idle" /\ conn[Tail0][c].pc = "idle"
    BY <1>1 DEF Send
  <2> HIDE DEF h, x
  <2>6. OneSet(h, c, x)
    BY <1>0, <2>1, <2>4, ConnExcept DEF OneSet
  <2>7. Asks(c, h, x)
    BY <2>1, <2>2, <2>3, <2>5, <2>6 DEF Asks
  <2> QED
    BY <2>1, <2>7 DEF h, x
<1>2. ASSUME NEW s \in Server, NEW c \in Client, Receive(s, c)
      PROVE  Reads(s, c)
  <2>1. c \in Thread
    BY ServerFacts
  <2>2. OneSet(s, c, Idle)
    BY <1>0, <1>2, <2>1, ConnExcept DEF Receive, OneSet
  <2> QED
    BY <1>2, <2>2 DEF Receive, Reads
<1>3. ASSUME NEW s \in Server, NEW t \in Thread, Invoke(s, t)
      PROVE  \E x : Executes(s, t, x) \/ Replies(s, t, x)
  <2> DEFINE c == conn[s][t]
             reply == HandleReply(list[s], c.req)
             fwd == [c EXCEPT !.pc = "forward", !.reply = reply]
             ans == [c EXCEPT !.pc = "reply", !.reply = reply]
  <2>1. c \in Connection /\ c.pc = "request" /\ owner[s] = {}
    BY <1>3, <1>c DEF Invoke
  <2>2. c.id \in Id
    BY <1>0, <2>1, ChainAssumption DEF LocalInv, Id
  <2>3. CASE Forwards(list[s], c.req)
    <3>1. conn' = [conn EXCEPT ![s][t] = fwd]
      BY <1>3, <2>3 DEF Invoke
    <3>2. applied' = [applied EXCEPT ![s][c.id] = @ + 1]
      BY <1>3, <2>3 DEF Invoke
    <3>3. IsWriteOp(c.req) /\ reply.opcode = "OK"
      BY <2>3 DEF Forwards
    <3>4. /\ fwd.pc = "forward" /\ fwd.reply = reply /\ Same(fwd, c)
          /\ fwd.attempt = c.attempt
      BY <2>1, ConnectionFields, Fields DEF Same
    <3>5. issued' = issued
      BY <1>3 DEF Invoke
    <3> HIDE DEF c, reply, fwd
    <3>6. OneSet(s, t, fwd)
      BY <1>0, <3>1, ConnExcept DEF OneSet
    <3>7. \A r \in Server, j \in Id :
             applied'[r][j] = IF r = s /\ j = c.id THEN applied[r][j] + 1
                                                   ELSE applied[r][j]
      BY <1>0, <2>2, <3>2 DEF Counts
    <3>8. Executes(s, t, fwd)
      BY <2>1, <2>2, <3>3, <3>4, <3>5, <3>6, <3>7 DEF Executes, c
    <3> QED
      BY <3>8
  <2>4. CASE ~Forwards(list[s], c.req)
    <3>1. /\ conn' = [conn EXCEPT ![s][t] = ans] /\ applied' = applied
          /\ issued' = issued
      BY <1>3, <2>4 DEF Invoke
    <3>2. ans.pc = "reply" /\ Same(ans, c)
      BY <2>1, ConnectionFields DEF Same
    <3> HIDE DEF ans, c
    <3>3. OneSet(s, t, ans)
      BY <1>0, <3>1, ConnExcept DEF OneSet
    <3>4. Replies(s, t, ans)
      BY <2>1, <3>1, <3>2, <3>3 DEF Replies, c
    <3> QED
      BY <3>4
  <2> QED
    BY <2>3, <2>4
<1>4. ASSUME NEW s \in Server, NEW t \in Thread,
             ForwardNothing(s, t) \/ ForwardUnconnected(s, t)
      PROVE  \E x : Replies(s, t, x)
  <2> DEFINE c == conn[s][t]
  <2>1. PICK reply : /\ Answer(s, t, reply) /\ c.pc = "forward"
                     /\ s = Tail0 => reply = c.reply
    BY <1>4 DEF ForwardNothing, ForwardUnconnected
  <2> DEFINE ans == [c EXCEPT !.pc = "reply", !.reply = reply]
  <2>2. /\ conn' = [conn EXCEPT ![s][t] = ans]
        /\ UNCHANGED <<issued, applied>>
    BY <2>1 DEF Answer
  <2>3. ans.pc = "reply" /\ Same(ans, c) /\ ans.reply = reply
    BY <1>c, ConnectionFields, Fields DEF Same
  <2> HIDE DEF ans, c
  <2>4. OneSet(s, t, ans)
    BY <1>0, <2>2, ConnExcept DEF OneSet
  <2>5. Replies(s, t, ans)
    BY <2>1, <2>2, <2>3, <2>4 DEF Replies, c
  <2> QED
    BY <2>5
<1>5. ASSUME NEW s \in Server, NEW t \in Thread, ForwardSend(s, t)
      PROVE  \E x, y : Passes(s, t, x, y)
  <2> DEFINE c == conn[s][t]
             wait == [c EXCEPT !.pc = "await"]
             in == Incoming(c.req, c.id)
  <2>1. /\ conn' = [conn EXCEPT ![s][t] = wait, ![s + 1][Link] = in]
        /\ UNCHANGED <<issued, applied>> /\ c.pc = "forward" /\ s # Tail0
    BY <1>5 DEF ForwardSend
  <2>2. /\ wait.pc = "await" /\ Same(wait, c) /\ wait.reply = c.reply
        /\ wait.attempt = c.attempt
    BY <1>c, ConnectionFields, Fields DEF Same
  <2>3. in.pc = "request" /\ Same(in, c) /\ in.attempt = 0
    BY IncomingFields DEF Same
  <2> HIDE DEF c, wait, in
  <2>4. TwoSet(s, t, wait, in)
    BY <1>0, <2>1, ConnExcept2 DEF TwoSet
  <2>5. Passes(s, t, wait, in)
    BY <2>1, <2>2, <2>3, <2>4 DEF Passes, c
  <2> QED
    BY <2>5
<1>6. ASSUME NEW s \in Server, NEW t \in Thread,
             ForwardOk(s, t) \/ ForwardRetry(s, t) \/ ForwardFail(s, t)
      PROVE  \E x : Returns(s, t, x)
  <2> DEFINE c == conn[s][t]
             link == conn[s + 1][Link]
             done == [c EXCEPT !.pc = "reply"]
             again == [c EXCEPT !.pc = "forward", !.attempt = 1]
             fail == [c EXCEPT !.pc = "reply", !.reply = Error]
  <2>1. c.pc = "await" /\ link.pc = "reply" /\ UNCHANGED <<issued, applied>>
    BY <1>6 DEF ForwardOk, ForwardRetry, ForwardFail, Answered
  <2>2. s # Tail0
    BY <2>1 DEF MutexHeldDownChain, LinkServesWaiter
  <2>3. done.pc = "reply" /\ Same(done, c) /\ done.reply = c.reply
    BY <1>c, ConnectionFields, Fields DEF Same
  <2>4. /\ again.pc = "forward" /\ Same(again, c) /\ again.reply = c.reply
        /\ again.attempt = 1
    BY <1>c, ConnectionFields, Fields DEF Same
  <2>5. fail.pc = "reply" /\ Same(fail, c)
    BY <1>c, ConnectionFields, Fields DEF Same
  <2>6. CASE ForwardOk(s, t)
    <3>1. /\ conn' = [conn EXCEPT ![s][t] = done, ![s + 1][Link] = Idle]
          /\ link.reply.opcode = "OK"
      BY <2>6 DEF ForwardOk
    <3> HIDE DEF c, link, done
    <3>2. TwoSet(s, t, done, Idle)
      BY <1>0, <2>2, <3>1, ConnExcept2 DEF TwoSet
    <3>3. Returns(s, t, done)
      BY <2>1, <2>2, <2>3, <3>1, <3>2 DEF Returns, c, link
    <3> QED
      BY <3>3
  <2>7. CASE ForwardRetry(s, t)
    <3>1. /\ conn' = [conn EXCEPT ![s][t] = again, ![s + 1][Link] = Idle]
          /\ link.reply.opcode # "OK" /\ c.attempt = 0
      BY <2>7 DEF ForwardRetry
    <3> HIDE DEF c, link, again
    <3>2. TwoSet(s, t, again, Idle)
      BY <1>0, <2>2, <3>1, ConnExcept2 DEF TwoSet
    <3>3. Returns(s, t, again)
      BY <2>1, <2>2, <2>4, <3>1, <3>2 DEF Returns, c, link
    <3> QED
      BY <3>3
  <2>8. CASE ForwardFail(s, t)
    <3>1. /\ conn' = [conn EXCEPT ![s][t] = fail, ![s + 1][Link] = Idle]
          /\ link.reply.opcode # "OK"
      BY <2>8 DEF ForwardFail
    <3> HIDE DEF c, link, fail
    <3>2. TwoSet(s, t, fail, Idle)
      BY <1>0, <2>2, <3>1, ConnExcept2 DEF TwoSet
    <3>3. Returns(s, t, fail)
      BY <2>1, <2>2, <2>5, <3>1, <3>2 DEF Returns, c, link
    <3> QED
      BY <3>3
  <2> QED
    BY <1>6, <2>6, <2>7, <2>8
<1>7. (\E s \in Server : UpdateChain(s)) \/ UNCHANGED vars => Nothing
  BY DEF UpdateChain, Nothing, vars
<1> QED
  BY <1>1, <1>2, <1>3, <1>4, <1>5, <1>6, <1>7 DEF Next, Serve

-----------------------------------------------------------------------------
(* Each part of the invariant is kept. *)

LEMMA Numbers ==
    ASSUME TypeOK
    PROVE  /\ issued \in Nat
           /\ \A r \in Server, j \in Id : applied[r][j] \in Nat
           /\ \A r \in Server, u \in Thread : conn[r][u].attempt \in 0..1
           /\ \A i \in Id : i \in Nat
           /\ \A r \in Server : r \in Int
           /\ Head0 \in Server /\ Tail0 \in Server /\ Link \in Thread
           /\ \A c \in Client : c \in Thread /\ c # Link
           /\ \A t \in Thread : t # Link => t \in Client
<1>1. issued \in Nat /\ (\A i \in Id : i \in Nat)
  BY ChainAssumption DEF TypeOK, Id
<1>2. \A r \in Server, j \in Id : applied[r][j] \in Nat
  BY DEF TypeOK
<1>3. \A r \in Server, u \in Thread : conn[r][u].attempt \in 0..1
  BY DEF TypeOK, Connection
<1> QED
  BY <1>1, <1>2, <1>3, ServerFacts DEF Thread

LEMMA LocalNext ==
    ASSUME TypeOK, MutexHeldDownChain, LocalInv, [Next]_vars
    PROVE  LocalInv'
<1> DEFINE Ok1(s, t, a, n) ==
             a.pc # "idle" =>
                /\ a.id \in 1..n
                /\ t = Link => IsWriteOp(a.req)
                /\ t # Link /\ s # Head0 => s = Tail0 /\ ~IsWriteOp(a.req)
                /\ a.pc \in Holding => IsWriteOp(a.req) /\ a.reply.opcode = "OK"
                /\ a.pc = "request" => a.attempt = 0
<1>1. \A s \in Server, t \in Thread : Ok1(s, t, conn[s][t], issued)
  BY DEF LocalInv
<1>2. (\A s \in Server, t \in Thread : Ok1(s, t, conn'[s][t], issued'))
      => LocalInv'
  BY DEF LocalInv
<1>3. ASSUME NEW c \in Client, NEW h \in Server, NEW x, Asks(c, h, x)
      PROVE  LocalInv'
  <2>1. Ok1(h, c, x, issued')
    BY <1>3, Numbers DEF Asks, Holding
  <2>2. \A s \in Server, t \in Thread : Ok1(s, t, conn[s][t], issued')
    BY <1>1, <1>3, Numbers DEF Asks
  <2>3. OneSet(h, c, x)
    BY <1>3 DEF Asks
  <2> HIDE DEF Ok1
  <2> QED
    BY <1>2, <2>1, <2>2, <2>3 DEF OneSet
<1>4. ASSUME NEW s \in Server, NEW t \in Thread, NEW x, OneSet(s, t, x),
             Ok1(s, t, x, issued), issued' = issued
      PROVE  LocalInv'
  <2> HIDE DEF Ok1
  <2>1. \A r \in Server, u \in Thread : Ok1(r, u, conn'[r][u], issued)
    BY <1>1, <1>4 DEF OneSet
  <2> QED
    BY <1>2, <1>4, <2>1
<1>5. ASSUME NEW s \in Server, NEW t \in Thread, NEW x, NEW y,
             TwoSet(s, t, x, y), s # Tail0,
             Ok1(s, t, x, issued), Ok1(s + 1, Link, y, issued),
             issued' = issued
      PROVE  LocalInv'
  <2> HIDE DEF Ok1
  <2>1. \A r \in Server, u \in Thread : Ok1(r, u, conn'[r][u], issued)
    BY <1>1, <1>5 DEF TwoSet
  <2> QED
    BY <1>2, <1>5, <2>1
<1>6. ASSUME NEW s, NEW t PROVE Ok1(s, t, Idle, issued)
  BY DEF Idle
<1>7. ASSUME NEW s \in Server, NEW c \in Client, Reads(s, c)
      PROVE  LocalInv'
  <2>1. c \in Thread /\ OneSet(s, c, Idle) /\ issued' = issued
    BY <1>7, Numbers DEF Reads
  <2> HIDE DEF Ok1
  <2> QED
    BY <1>4, <1>6, <2>1
<1>8. ASSUME NEW s \in Server, NEW t \in Thread, NEW x,
             Executes(s, t, x) \/ Replies(s, t, x)
      PROVE  LocalInv'
  <2>1. Ok1(s, t, conn[s][t], issued)
    BY <1>1
  <2>2. Ok1(s, t, x, issued)
    <3>1. CASE Executes(s, t, x)
      BY <2>1, <3>1 DEF Executes, Same, Holding
    <3>2. CASE Replies(s, t, x)
      BY <2>1, <3>2 DEF Replies, Same, Holding
    <3> QED
      BY <1>8, <3>1, <3>2
  <2>3. OneSet(s, t, x) /\ issued' = issued
    BY <1>8 DEF Executes, Replies
  <2> HIDE DEF Ok1
  <2> QED
    BY <1>4, <2>2, <2>3
<1>9. ASSUME NEW s \in Server, NEW t \in Thread, NEW x, Returns(s, t, x)
      PROVE  LocalInv'
  <2>1. Ok1(s, t, conn[s][t], issued)
    BY <1>1
  <2>2. Ok1(s, t, x, issued)
    BY <1>9, <2>1 DEF Returns, Same, Holding
  <2>3. TwoSet(s, t, x, Idle) /\ s # Tail0 /\ issued' = issued
    BY <1>9 DEF Returns
  <2> HIDE DEF Ok1
  <2> QED
    BY <1>5, <1>6, <2>2, <2>3
<1>10. ASSUME NEW s \in Server, NEW t \in Thread, NEW x, NEW y,
              Passes(s, t, x, y)
       PROVE  LocalInv'
  <2>1. Ok1(s, t, conn[s][t], issued)
    BY <1>1
  <2>2. Ok1(s, t, x, issued) /\ Ok1(s + 1, Link, y, issued)
    BY <1>10, <2>1 DEF Passes, Same, Holding
  <2>3. TwoSet(s, t, x, y) /\ s # Tail0 /\ issued' = issued
    BY <1>10 DEF Passes
  <2> HIDE DEF Ok1
  <2> QED
    BY <1>5, <2>2, <2>3
<1>11. CASE Nothing
  <2> HIDE DEF Ok1
  <2> QED
    BY <1>1, <1>2, <1>11 DEF Nothing
<1> HIDE DEF Ok1
<1> QED
  BY <1>3, <1>7, <1>8, <1>9, <1>10, <1>11, Steps

\* What a client has asked for stays the same until it reads the answer.
LEMMA ClientsKeep ==
    ASSUME TypeOK, NEW s \in Server, NEW t \in Thread, NEW x,
           \/ t \in Client /\ Reads(s, t)
           \/ Executes(s, t, x) \/ Replies(s, t, x) \/ Returns(s, t, x)
           \/ \E y : Passes(s, t, x, y)
    PROVE  \A r \in Server, c \in Client :
              conn'[r][c].pc # "idle" =>
                 conn[r][c].pc # "idle" /\ conn'[r][c].id = conn[r][c].id
<1>1. CASE t \in Client /\ Reads(s, t)
  BY <1>1, Numbers DEF Reads, OneSet, Idle
<1>2. CASE Executes(s, t, x) \/ Replies(s, t, x)
  BY <1>2, Numbers DEF Executes, Replies, OneSet, Same
<1>3. CASE Returns(s, t, x)
  BY <1>3, Numbers DEF Returns, TwoSet, Same
<1>4. CASE \E y : Passes(s, t, x, y)
  BY <1>4, Numbers DEF Passes, TwoSet, Same
<1> QED
  BY <1>1, <1>2, <1>3, <1>4

LEMMA IdNext ==
    ASSUME TypeOK, MutexHeldDownChain, LocalInv, IdInv, [Next]_vars
    PROVE  IdInv'
<1>1. ASSUME NEW c \in Client, NEW h \in Server, NEW x, Asks(c, h, x)
      PROVE  IdInv'
  <2>1. \A r \in Server, d \in Client :
           conn[r][d].pc # "idle" => conn[r][d].id # issued + 1
    BY Numbers DEF LocalInv
  <2>2. \A r \in Server, d \in Client :
           conn'[r][d] = IF r = h /\ d = c THEN x ELSE conn[r][d]
    BY <1>1, Numbers DEF Asks, OneSet
  <2>3. x.id = issued + 1
    BY <1>1 DEF Asks
  <2> QED
    BY <2>1, <2>2, <2>3 DEF IdInv
<1>2. ASSUME \A r \in Server, c \in Client :
                conn'[r][c].pc # "idle" =>
                   conn[r][c].pc # "idle" /\ conn'[r][c].id = conn[r][c].id
      PROVE  IdInv'
  BY <1>2 DEF IdInv
<1>3. CASE Nothing
  BY <1>2, <1>3 DEF Nothing
<1>4. \A c \in Client : c \in Thread
  BY Numbers
<1> QED
  BY <1>1, <1>2, <1>3, <1>4, Steps, ClientsKeep

LEMMA IssuedNext ==
    ASSUME TypeOK, MutexHeldDownChain, LocalInv, IssuedInv, [Next]_vars
    PROVE  IssuedInv'
<1>1. ASSUME NEW c \in Client, NEW h \in Server, NEW x, Asks(c, h, x)
      PROVE  IssuedInv'
  BY <1>1, Numbers DEF Asks, IssuedInv
<1>2. ASSUME NEW s \in Server, NEW t \in Thread, NEW x, Executes(s, t, x)
      PROVE  IssuedInv'
  <2>1. conn[s][t].id <= issued
    BY <1>2 DEF Executes, LocalInv
  <2> QED
    BY <1>2, <2>1 DEF Executes, IssuedInv
<1>3. ASSUME UNCHANGED <<applied, issued>> PROVE IssuedInv'
  BY <1>3 DEF IssuedInv
<1> QED
  BY <1>1, <1>2, <1>3, Steps DEF Reads, Replies, Returns, Passes, Nothing

LEMMA HeadNext ==
    ASSUME TypeOK, MutexHeldDownChain, LocalInv, IdInv, IssuedInv, HeadInv,
           [Next]_vars
    PROVE  HeadInv'
<1>1. ASSUME NEW c \in Client, NEW h \in Server, NEW x, Asks(c, h, x)
      PROVE  HeadInv'
  <2>1. ~(applied[Head0][issued + 1] >= 1)
    BY <1>1, Numbers DEF Asks, IssuedInv
  <2>2. \A d \in Client :
           conn'[Head0][d] = IF Head0 = h /\ d = c THEN x ELSE conn[Head0][d]
    BY <1>1, Numbers DEF Asks, OneSet
  <2> QED
    BY <1>1, <2>1, <2>2 DEF Asks, HeadInv
<1>2. ASSUME NEW s \in Server, NEW t \in Thread, NEW x, Executes(s, t, x)
      PROVE  HeadInv'
  <2> DEFINE i == conn[s][t].id
  <2>1. /\ i \in Id /\ x.pc = "forward"
        /\ \A r \in Server, u \in Thread :
              conn'[r][u] = IF r = s /\ u = t THEN x ELSE conn[r][u]
        /\ \A j \in Id :
              applied'[Head0][j] = IF Head0 = s /\ j = i
                                   THEN applied[Head0][j] + 1
                                   ELSE applied[Head0][j]
    BY <1>2, Numbers DEF Executes, OneSet
  <2>2. \A d \in Client : conn'[Head0][d].pc = "request" =>
                             conn'[Head0][d] = conn[Head0][d]
    BY <2>1, Numbers
  <2>3. CASE s # Head0
    BY <2>1, <2>2, <2>3, Numbers DEF HeadInv
  <2>4. CASE s = Head0
    <3>1. t \in Client /\ conn[Head0][t].pc = "request"
      BY <1>2, <2>4, Numbers
      DEF Executes, MutexHeldDownChain, LinkServesWaiter
    <3>2. applied[Head0][i] = 0
      BY <2>1, <2>4, <3>1, Numbers DEF HeadInv
    <3>3. \A d \in Client :
             conn'[Head0][d].pc = "request" => conn'[Head0][d].id # i
      BY <2>1, <2>2, <2>4, <3>1, Numbers DEF IdInv
    <3> HIDE DEF i
    <3>4. \A j \in Id : applied'[Head0][j] <= 1
      BY <2>1, <3>2 DEF HeadInv
    <3>5. \A j \in Id \ {i} : applied'[Head0][j] = applied[Head0][j]
      BY <2>1
    <3> QED
      BY <2>2, <3>3, <3>4, <3>5 DEF HeadInv
  <2> QED
    BY <2>3, <2>4
<1>3. ASSUME applied' = applied,
             \A c \in Client : conn'[Head0][c].pc = "request" =>
                                  conn'[Head0][c] = conn[Head0][c]
      PROVE  HeadInv'
  BY <1>3 DEF HeadInv
<1>4. ASSUME NEW s \in Server, NEW c \in Client, Reads(s, c)
      PROVE  HeadInv'
  BY <1>3, <1>4, Numbers DEF Reads, OneSet, Idle
<1>5. ASSUME NEW s \in Server, NEW t \in Thread, NEW x,
             Replies(s, t, x) \/ Returns(s, t, x) \/ \E y : Passes(s, t, x, y)
      PROVE  HeadInv'
  <2>1. CASE Replies(s, t, x)
    BY <1>3, <2>1, Numbers DEF Replies, OneSet
  <2>2. CASE Returns(s, t, x)
    BY <1>3, <2>2, Numbers DEF Returns, TwoSet
  <2>3. CASE \E y : Passes(s, t, x, y)
    BY <1>3, <2>3, Numbers DEF Passes, TwoSet
  <2> QED
    BY <1>5, <2>1, <2>2, <2>3
<1>6. CASE Nothing
  BY <1>3, <1>6 DEF Nothing
<1> QED
  BY <1>1, <1>2, <1>4, <1>5, <1>6, Steps

\* A thread that forwards is a Link thread, or serves a client at the head.
LEMMA Forwarder ==
    ASSUME TypeOK, LocalInv, NEW s \in Server, NEW t \in Thread,
           conn[s][t].pc \in Holding
    PROVE  IsWriteOp(conn[s][t].req) /\ (t = Link \/ s = Head0)
BY DEF LocalInv, Holding

\* A server works on one write it has been sent at a time.
LEMMA OneWaits ==
    ASSUME MutexHeldDownChain, NEW s \in Server,
           NEW t \in Thread, NEW u \in Thread,
           conn[s][t].pc \in Holding, conn[s][u].pc \in Holding
    PROVE  t = u
BY DEF MutexHeldDownChain, HoldersForward, OneHolder

LEMMA AboveNext ==
    ASSUME TypeOK, MutexHeldDownChain, LocalInv, AboveInv, [Next]_vars
    PROVE  AboveInv'
<1>1. ASSUME \A r \in Server :
                conn'[r][Link].pc # "idle" =>
                   conn[r][Link].pc # "idle" /\
                   conn'[r][Link].id = conn[r][Link].id,
             \A r \in Server, u \in Thread :
                conn[r][u].pc = "await" => conn'[r][u] = conn[r][u]
      PROVE  AboveInv'
  <2> SUFFICES ASSUME NEW s \in Server, NEW r \in Server,
                      conn'[s][Link].pc # "idle", r < s
               PROVE  \E t \in Thread :
                         /\ conn'[r][t].pc = "await"
                         /\ conn'[r][t].id = conn'[s][Link].id
    BY DEF AboveInv
  <2>1. PICK t \in Thread :
           conn[r][t].pc = "await" /\ conn[r][t].id = conn[s][Link].id
    BY <1>1 DEF AboveInv
  <2> QED
    BY <1>1, <2>1
<1>2. ASSUME NEW c \in Client, NEW h \in Server, NEW x, Asks(c, h, x)
      PROVE  AboveInv'
  <2>1. conn[h][c].pc = "idle"
    BY <1>2 DEF Asks
  <2> QED
    BY <1>1, <1>2, <2>1, Numbers DEF Asks, OneSet
<1>3. ASSUME NEW s \in Server, NEW c \in Client, Reads(s, c)
      PROVE  AboveInv'
  BY <1>1, <1>3, Numbers DEF Reads, OneSet
<1>4. ASSUME NEW s \in Server, NEW t \in Thread, NEW x,
             Executes(s, t, x) \/ Replies(s, t, x)
      PROVE  AboveInv'
  <2>1. /\ OneSet(s, t, x) /\ Same(x, conn[s][t])
        /\ conn[s][t].pc \in {"request", "forward"}
    BY <1>4 DEF Executes, Replies
  <2> QED
    BY <1>1, <2>1, Numbers DEF OneSet, Same
<1>5. ASSUME NEW s \in Server, NEW t \in Thread, NEW x, NEW y,
             Passes(s, t, x, y)
      PROVE  AboveInv'
  <2>1. /\ s # Tail0 /\ s + 1 \in Server /\ s \in Int
        /\ conn[s][t].pc = "forward"
        /\ x.pc = "await" /\ x.id = conn[s][t].id /\ y.id = conn[s][t].id
    BY <1>5, NextServer, Numbers DEF Passes, Same
  <2>2. \A r \in Server, u \in Thread :
           conn'[r][u] = IF r = s + 1 /\ u = Link THEN y
                         ELSE IF r = s /\ u = t THEN x ELSE conn[r][u]
    BY <1>5 DEF Passes, TwoSet
  <2>3. conn[s + 1][Link].pc = "idle"
    <3>1. \A u \in Thread : conn[s][u].pc # "await"
      BY <2>1, OneWaits DEF Holding
    <3> QED
      BY <2>1, <3>1 DEF MutexHeldDownChain, LinkServesWaiter
  <2>4. \A r \in Server, u \in Thread :
           conn[r][u].pc = "await" => conn'[r][u] = conn[r][u]
    BY <2>1, <2>2, <2>3
  <2> SUFFICES ASSUME NEW q \in Server, NEW r \in Server,
                      conn'[q][Link].pc # "idle", r < q
               PROVE  \E u \in Thread :
                         /\ conn'[r][u].pc = "await"
                         /\ conn'[r][u].id = conn'[q][Link].id
    BY DEF AboveInv
  <2>5. CASE q = s + 1 /\ r = s
    BY <2>1, <2>2, <2>5, Numbers
  <2>6. CASE q = s + 1 /\ r # s
    <3>1. r < s
      BY <2>1, <2>6, Numbers
    <3>2. t = Link
      BY <2>1, <3>1, Forwarder, Numbers DEF Holding, Server, Head0
    <3>3. PICK u \in Thread :
             conn[r][u].pc = "await" /\ conn[r][u].id = conn[s][Link].id
      BY <2>1, <3>1, <3>2 DEF AboveInv
    <3>4. conn'[q][Link].id = conn[s][Link].id
      BY <2>1, <2>2, <2>6, <3>2, Numbers
    <3> QED
      BY <2>4, <3>3, <3>4
  <2>7. CASE q # s + 1
    <3>1. conn[q][Link].pc # "idle" /\ conn'[q][Link].id = conn[q][Link].id
      BY <2>1, <2>2, <2>7, Numbers
    <3>2. PICK u \in Thread :
             conn[r][u].pc = "await" /\ conn[r][u].id = conn[q][Link].id
      BY <3>1 DEF AboveInv
    <3> QED
      BY <2>4, <3>1, <3>2
  <2> QED
    BY <2>5, <2>6, <2>7
<1>6. ASSUME NEW s \in Server, NEW t \in Thread, NEW x, Returns(s, t, x)
      PROVE  AboveInv'
  <2>1. /\ s # Tail0 /\ s + 1 \in Server /\ s + 1 # Head0 /\ s \in Int
        /\ conn[s][t].pc = "await" /\ conn[s + 1][Link].pc = "reply"
        /\ x.id = conn[s][t].id
    BY <1>6, NextServer, Numbers DEF Returns, Same
  <2>2. \A r \in Server, u \in Thread :
           conn'[r][u] = IF r = s + 1 /\ u = Link THEN Idle
                         ELSE IF r = s /\ u = t THEN x ELSE conn[r][u]
    BY <1>6 DEF Returns, TwoSet
  <2> SUFFICES ASSUME NEW q \in Server, NEW r \in Server,
                      conn'[q][Link].pc # "idle", r < q
               PROVE  \E u \in Thread :
                         /\ conn'[r][u].pc = "await"
                         /\ conn'[r][u].id = conn'[q][Link].id
    BY DEF AboveInv
  <2>3. /\ q # s + 1 /\ conn[q][Link].pc # "idle"
        /\ conn'[q][Link].id = conn[q][Link].id
    BY <2>1, <2>2, Numbers DEF Idle
  <2>4. PICK u \in Thread :
           conn[r][u].pc = "await" /\ conn[r][u].id = conn[q][Link].id
    BY <2>3 DEF AboveInv
  <2>5. CASE r = s
    <3>1. s + 1 < q
      BY <2>1, <2>3, <2>5, Numbers
    <3>2. PICK v \in Thread : conn[s + 1][v].pc = "await"
      BY <2>1, <2>3, <3>1 DEF AboveInv
    <3>3. v = Link
      BY <2>1, <3>2, Forwarder DEF Holding
    <3> QED
      BY <2>1, <3>2, <3>3
  <2>6. CASE r # s
    <3>1. conn'[r][u] = conn[r][u]
      BY <2>1, <2>2, <2>4, <2>6
    <3> QED
      BY <2>3, <2>4, <3>1
  <2> QED
    BY <2>5, <2>6
<1>7. CASE Nothing
  BY <1>1, <1>7 DEF Nothing
<1> QED
  BY <1>2, <1>3, <1>4, <1>5, <1>6, <1>7, Steps

\* Nothing is executed, and what is being sent has been sent before.
LEMMA BoundKept ==
    ASSUME TypeOK, BoundInv, applied' = applied,
           \A s \in Server \ {Tail0}, t \in Thread :
              conn'[s][t].pc \in Holding =>
                 /\ conn[s][t].pc \in Holding
                 /\ conn'[s][t].id = conn[s][t].id
                 /\ Sent(s, t)' >= Sent(s, t)
                 /\ Sent(s, t)' \in Nat
    PROVE  BoundInv'
<1>1. \A s \in Server \ {Tail0}, i \in Id :
         applied'[s + 1][i] <= 2 * applied'[s][i]
  BY DEF BoundInv
<1>2. ASSUME NEW s \in Server \ {Tail0}, NEW i \in Id, NEW t \in Thread,
             conn'[s][t].pc \in Holding, conn'[s][t].id = i
      PROVE  applied'[s + 1][i] <= 2 * (applied'[s][i] - 1) + Sent(s, t)'
  <2>1. applied[s + 1][i] <= 2 * (applied[s][i] - 1) + Sent(s, t)
    BY <1>2 DEF BoundInv
  <2>2. applied[s][i] \in Nat /\ applied[s + 1][i] \in Nat
    BY Numbers, NextServer
  <2>3. Sent(s, t) \in Nat
    BY Numbers DEF Sent
  <2>4. Sent(s, t)' >= Sent(s, t) /\ Sent(s, t)' \in Nat
    BY <1>2
  <2> QED
    BY <2>1, <2>2, <2>3, <2>4
<1> QED
  BY <1>1, <1>2 DEF BoundInv

\* The thread stays as it is, and no request arrives at the successor.
LEMMA SentKept ==
    ASSUME TypeOK, NEW s \in Server \ {Tail0}, NEW t \in Thread,
           conn'[s][t] = conn[s][t],
           conn'[s + 1][Link].pc = "request" => conn[s + 1][Link].pc = "request"
    PROVE  Sent(s, t)' >= Sent(s, t) /\ Sent(s, t)' \in Nat
<1>1. conn[s][t].attempt \in 0..1
  BY Numbers
<1> QED
  BY <1>1 DEF Sent

LEMMA ExecuteBound ==
    ASSUME TypeOK, MutexHeldDownChain, LocalInv, BoundInv,
           NEW s \in Server, NEW t \in Thread, NEW x, Executes(s, t, x)
    PROVE  BoundInv'
<1> DEFINE i == conn[s][t].id
<1>1. /\ i \in Id /\ conn[s][t].pc = "request" /\ owner[s] = {}
      /\ IsWriteOp(conn[s][t].req)
      /\ x.pc = "forward" /\ x.id = i /\ x.attempt = conn[s][t].attempt
  BY DEF Executes, Same
<1>2. \A r \in Server, u \in Thread :
         conn'[r][u] = IF r = s /\ u = t THEN x ELSE conn[r][u]
  BY DEF Executes, OneSet
<1>3. \A r \in Server, j \in Id :
         applied'[r][j] = IF r = s /\ j = i THEN applied[r][j] + 1
                                            ELSE applied[r][j]
  BY DEF Executes
<1>4. x.attempt = 0
  BY <1>1 DEF LocalInv
<1>5. \A u \in Thread : conn[s][u].pc \notin Holding
  BY <1>1 DEF MutexHeldDownChain, HoldersForward
<1> HIDE DEF i
<1> SUFFICES ASSUME NEW r \in Server \ {Tail0}, NEW j \in Id
             PROVE  /\ applied'[r + 1][j] <= 2 * applied'[r][j]
                    /\ \A u \in Thread :
                          conn'[r][u].pc \in Holding /\ conn'[r][u].id = j =>
                             applied'[r + 1][j] <=
                                2 * (applied'[r][j] - 1) + Sent(r, u)'
  BY DEF BoundInv
<1>6. /\ r + 1 \in Server /\ r + 1 # r
      /\ applied[r][j] \in Nat /\ applied[r + 1][j] \in Nat
  BY Numbers, NextServer
<1>7. applied[r + 1][j] <= 2 * applied[r][j]
  BY DEF BoundInv
<1>8. CASE r = s
  <2>1. applied'[r + 1][j] = applied[r + 1][j]
    BY <1>3, <1>6, <1>8
  <2>2. applied'[r][j] = IF j = i THEN applied[r][j] + 1 ELSE applied[r][j]
    BY <1>3, <1>8
  <2>3. \A u \in Thread :
           conn'[r][u].pc \in Holding => u = t /\ conn'[r][u] = x
    BY <1>2, <1>5, <1>8
  <2>4. ASSUME NEW u \in Thread,
               conn'[r][u].pc \in Holding, conn'[r][u].id = j
        PROVE  j = i /\ Sent(r, u)' = 0
    BY <1>1, <1>4, <2>3, <2>4 DEF Sent
  <2> QED
    BY <1>6, <1>7, <2>1, <2>2, <2>4
<1>9. CASE r + 1 = s
  <2>1. t = Link
    BY <1>1, <1>9, NextServer DEF LocalInv
  <2>2. PICK v \in Thread : conn[r][v].pc = "await"
    BY <1>1, <1>9, <2>1 DEF MutexHeldDownChain, LinkServesWaiter
  <2>3. conn[r][v].id = i
    BY <1>9, <2>1, <2>2 DEF MutexHeldDownChain, SameWrite, i
  <2>4. \A u \in Thread : conn[r][u].pc \in Holding => u = v
    BY <2>2, OneWaits DEF Holding
  <2>5. conn[r][v].attempt \in 0..1 /\ Sent(r, v) = conn[r][v].attempt
    BY <1>1, <1>9, <2>1, Numbers DEF Sent
  <2>6. \A u \in Thread : conn'[r][u] = conn[r][u]
    BY <1>2, <1>6, <1>9
  <2>7. Sent(r, v)' = conn[r][v].attempt + 1
    <3>1. conn'[r + 1][Link].pc = "forward"
      BY <1>1, <1>2, <1>9, <2>1
    <3> QED
      BY <2>2, <2>6, <3>1 DEF Sent
  <2>8. applied'[r][j] = applied[r][j]
    BY <1>3, <1>6, <1>9
  <2>9. CASE j = i
    <3>1. applied[r + 1][j] <= 2 * (applied[r][j] - 1) + conn[r][v].attempt
      BY <2>2, <2>3, <2>5, <2>9 DEF BoundInv, Holding
    <3>2. applied'[r + 1][j] = applied[r + 1][j] + 1
      BY <1>3, <1>9, <2>9
    <3>3. applied'[r + 1][j] <= 2 * (applied'[r][j] - 1) + Sent(r, v)'
      BY <1>6, <2>5, <2>7, <2>8, <3>1, <3>2
    <3>4. applied'[r + 1][j] <= 2 * applied'[r][j]
      BY <1>6, <2>5, <2>8, <3>1, <3>2
    <3> QED
      BY <2>4, <2>6, <3>3, <3>4
  <2>10. CASE j # i
    <3>1. applied'[r + 1][j] = applied[r + 1][j]
      BY <1>3, <1>9, <2>10
    <3>2. \A u \in Thread : conn'[r][u].pc \in Holding => conn'[r][u].id # j
      BY <2>3, <2>4, <2>6, <2>10
    <3> QED
      BY <1>7, <2>8, <3>1, <3>2
  <2> QED
    BY <2>9, <2>10
<1>10. CASE r # s /\ r + 1 # s
  <2>1. /\ applied'[r][j] = applied[r][j]
        /\ applied'[r + 1][j] = applied[r + 1][j]
    BY <1>3, <1>6, <1>10
  <2>2. \A u \in Thread : conn'[r][u] = conn[r][u]
    BY <1>2, <1>10
  <2>3. conn'[r + 1][Link] = conn[r + 1][Link]
    BY <1>2, <1>6, <1>10, Numbers
  <2>4. \A u \in Thread : Sent(r, u)' = Sent(r, u)
    BY <2>2, <2>3 DEF Sent
  <2>5. \A u \in Thread :
           conn[r][u].pc \in Holding /\ conn[r][u].id = j =>
              applied[r + 1][j] <= 2 * (applied[r][j] - 1) + Sent(r, u)
    BY DEF BoundInv
  <2> QED
    BY <1>7, <2>1, <2>2, <2>4, <2>5
<1> QED
  BY <1>8, <1>9, <1>10

LEMMA BoundNext ==
    ASSUME TypeOK, MutexHeldDownChain, LocalInv, BoundInv, [Next]_vars
    PROVE  BoundInv'
<1>1. ASSUME NEW s \in Server, NEW t \in Thread, NEW x, OneSet(s, t, x),
             applied' = applied, x.pc \notin Holding,
             t = Link /\ x.pc = "request" => conn[s][t].pc = "request"
      PROVE  BoundInv'
  <2>1. ASSUME NEW r \in Server \ {Tail0}, NEW u \in Thread,
               conn'[r][u].pc \in Holding
        PROVE  /\ conn[r][u].pc \in Holding /\ conn'[r][u].id = conn[r][u].id
               /\ Sent(r, u)' >= Sent(r, u) /\ Sent(r, u)' \in Nat
    <3>1. conn'[r][u] = conn[r][u]
      BY <1>1, <2>1 DEF OneSet
    <3>2. r + 1 \in Server
      BY NextServer
    <3>3. conn'[r + 1][Link].pc = "request" =>
             conn[r + 1][Link].pc = "request"
      BY <1>1, <3>2, Numbers DEF OneSet
    <3> QED
      BY <2>1, <3>1, <3>3, SentKept
  <2> QED
    BY <1>1, <2>1, BoundKept
<1>2. ASSUME NEW c \in Client, NEW h \in Server, NEW x, Asks(c, h, x)
      PROVE  BoundInv'
  BY <1>1, <1>2, Numbers DEF Asks, Holding
<1>3. ASSUME NEW s \in Server, NEW c \in Client, Reads(s, c)
      PROVE  BoundInv'
  <2>1. Idle.pc = "idle"
    BY DEF Idle
  <2> QED
    BY <1>1, <1>3, <2>1, Numbers DEF Reads, Holding
<1>4. ASSUME NEW s \in Server, NEW t \in Thread, NEW x, Replies(s, t, x)
      PROVE  BoundInv'
  BY <1>1, <1>4 DEF Replies, Holding
<1>5. ASSUME NEW s \in Server \ {Tail0}, NEW t \in Thread, NEW x, NEW y,
             TwoSet(s, t, x, y), applied' = applied, y.pc \notin Holding,
             conn[s][t].pc \in Holding, x.pc # "request",
             x.pc \in Holding =>
                /\ x.id = conn[s][t].id
                /\ Sent(s, t)' >= Sent(s, t) /\ Sent(s, t)' \in Nat
      PROVE  BoundInv'
  <2>1. ASSUME NEW r \in Server \ {Tail0}, NEW u \in Thread,
               conn'[r][u].pc \in Holding
        PROVE  /\ conn[r][u].pc \in Holding /\ conn'[r][u].id = conn[r][u].id
               /\ Sent(r, u)' >= Sent(r, u) /\ Sent(r, u)' \in Nat
    <3>1. conn'[r][u] = IF r = s /\ u = t THEN x ELSE conn[r][u]
      BY <1>5, <2>1 DEF TwoSet
    <3>2. CASE r = s
      <4>1. u = t
        BY <1>5, <2>1, <3>1, <3>2, OneWaits
      <4> QED
        BY <1>5, <2>1, <3>1, <3>2, <4>1
    <3>3. CASE r # s
      <4>1. conn'[r][u] = conn[r][u]
        BY <3>1, <3>3
      <4>2. r + 1 \in Server /\ r + 1 # s + 1
        BY <3>3, NextServer, Numbers
      <4>3. conn'[r + 1][Link].pc = "request" =>
               conn[r + 1][Link].pc = "request"
        BY <1>5, <4>2, Numbers DEF TwoSet
      <4> QED
        BY <2>1, <4>1, <4>3, SentKept
    <3> QED
      BY <3>2, <3>3
  <2> QED
    BY <1>5, <2>1, BoundKept
<1>6. ASSUME NEW s \in Server, NEW t \in Thread
      PROVE  conn[s][t].attempt \in 0..1
  BY Numbers
<1>7. ASSUME NEW s \in Server, NEW t \in Thread, NEW x, NEW y,
             Passes(s, t, x, y)
      PROVE  BoundInv'
  <2>1. /\ s # Tail0 /\ conn[s][t].pc = "forward" /\ x.pc = "await"
        /\ x.id = conn[s][t].id /\ x.attempt = conn[s][t].attempt
        /\ y.pc = "request" /\ TwoSet(s, t, x, y) /\ applied' = applied
    BY <1>7 DEF Passes, Same
  <2>2. s + 1 \in Server /\ s + 1 # s
    BY <2>1, NextServer
  <2>3. conn'[s][t] = x /\ conn'[s + 1][Link] = y
    BY <2>1, <2>2, Numbers DEF TwoSet
  <2>4. Sent(s, t)' = conn[s][t].attempt /\ Sent(s, t) = conn[s][t].attempt
    BY <2>1, <2>3 DEF Sent
  <2>5. Sent(s, t)' >= Sent(s, t) /\ Sent(s, t)' \in Nat
    BY <1>6, <2>4
  <2> QED
    BY <1>5, <2>1, <2>5 DEF Holding
<1>8. ASSUME NEW s \in Server, NEW t \in Thread, NEW x, Returns(s, t, x)
      PROVE  BoundInv'
  <2>1. /\ s # Tail0 /\ conn[s][t].pc = "await"
        /\ conn[s + 1][Link].pc = "reply"
        /\ x.id = conn[s][t].id /\ TwoSet(s, t, x, Idle) /\ applied' = applied
    BY <1>8 DEF Returns, Same
  <2>2. \/ x.pc = "reply"
        \/ x.pc = "forward" /\ conn[s][t].attempt = 0 /\ x.attempt = 1
    BY <1>8 DEF Returns
  <2>3. s + 1 \in Server /\ s + 1 # s
    BY <2>1, NextServer
  <2>4. conn'[s][t] = x
    BY <2>1, <2>3, Numbers DEF TwoSet
  <2>5. x.pc \in Holding =>
           /\ x.id = conn[s][t].id
           /\ Sent(s, t)' >= Sent(s, t) /\ Sent(s, t)' \in Nat
    BY <2>1, <2>2, <2>4 DEF Sent, Holding
  <2>6. Idle.pc \notin Holding
    BY DEF Idle, Holding
  <2> QED
    BY <1>5, <2>1, <2>2, <2>5, <2>6 DEF Holding
<1>9. CASE Nothing
  <2>1. ASSUME NEW r \in Server \ {Tail0}, NEW u \in Thread
        PROVE  Sent(r, u)' >= Sent(r, u) /\ Sent(r, u)' \in Nat
    BY <1>9, SentKept DEF Nothing
  <2> QED
    BY <1>9, <2>1, BoundKept DEF Nothing
<1> QED
  BY <1>2, <1>3, <1>4, <1>7, <1>8, <1>9, Steps, ExecuteBound

\* Above the tail one thread of a server has a write.
LEMMA OnePerServer ==
    ASSUME TypeOK, MutexHeldDownChain, LocalInv, IdInv,
           NEW s \in Server \ {Tail0}, NEW t \in Thread, NEW u \in Thread,
           conn[s][t].pc # "idle", conn[s][u].pc # "idle",
           conn[s][t].id = conn[s][u].id
    PROVE  t = u
<1>1. CASE s = Head0
  <2>1. t \in Client /\ u \in Client
    BY <1>1, Numbers DEF MutexHeldDownChain, LinkServesWaiter
  <2> QED
    BY <2>1 DEF IdInv
<1>2. CASE s # Head0
  BY <1>2 DEF LocalInv
<1> QED
  BY <1>1, <1>2

LEMMA ExecuteDone ==
    ASSUME TypeOK, MutexHeldDownChain, LocalInv, IdInv, AboveInv, DoneInv,
           NEW s \in Server, NEW t \in Thread, NEW x, Executes(s, t, x)
    PROVE  DoneInv'
<1> DEFINE i == conn[s][t].id
<1>1. /\ i \in Id /\ conn[s][t].pc = "request" /\ IsWriteOp(conn[s][t].req)
      /\ x.pc = "forward" /\ x.id = i
  BY DEF Executes, Same
<1>2. \A r \in Server, u \in Thread :
         conn'[r][u] = IF r = s /\ u = t THEN x ELSE conn[r][u]
  BY DEF Executes, OneSet
<1>3. \A j \in Id :
         applied'[Tail0][j] = IF Tail0 = s /\ j = i THEN applied[Tail0][j] + 1
                                                    ELSE applied[Tail0][j]
  BY Numbers DEF Executes
<1>4. applied[Tail0][i] = 0
  <2>1. ~OnItsWay(s, conn[s][t])
    BY <1>1 DEF OnItsWay
  <2>2. ~(applied[Tail0][i] >= 1)
    BY <1>1, <2>1 DEF DoneInv
  <2> QED
    BY <1>1, <2>2, Numbers
<1> HIDE DEF i
<1> SUFFICES ASSUME NEW j \in Id
             PROVE  /\ applied'[Tail0][j] <= 1
                    /\ applied'[Tail0][j] >= 1 =>
                          \A r \in Server, u \in Thread :
                             /\ conn'[r][u].pc # "idle" /\ conn'[r][u].id = j
                             /\ IsWriteOp(conn'[r][u].req)
                             => OnItsWay(r, conn'[r][u])
  BY DEF DoneInv, OnItsWay
<1>5. CASE j # i
  <2>1. applied'[Tail0][j] = applied[Tail0][j]
    BY <1>3, <1>5
  <2>2. \A r \in Server, u \in Thread :
           conn'[r][u].id = j => conn'[r][u] = conn[r][u]
    BY <1>1, <1>2, <1>5
  <2> QED
    BY <2>1, <2>2 DEF DoneInv
<1>6. CASE j = i /\ s # Tail0
  <2>1. applied'[Tail0][j] = 0
    BY <1>3, <1>4, <1>6
  <2> QED
    BY <2>1
<1>7. CASE j = i /\ s = Tail0
  <2>1. applied'[Tail0][j] = 1
    BY <1>3, <1>4, <1>7
  <2>2. ASSUME NEW r \in Server, NEW u \in Thread,
               conn'[r][u].pc # "idle", conn'[r][u].id = j,
               IsWriteOp(conn'[r][u].req)
        PROVE  OnItsWay(r, conn'[r][u])
    <3>1. CASE r = s /\ u = t
      BY <1>1, <1>2, <1>7, <3>1 DEF OnItsWay
    <3>2. CASE ~(r = s /\ u = t)
      <4>1. conn'[r][u] = conn[r][u]
        BY <1>2, <3>2
      <4>2. CASE t # Link
        <5>1. t \in Client /\ s = Head0
          BY <1>1, <4>2, Numbers DEF LocalInv
        <5>2. r = s
          BY <1>7, <5>1 DEF Server, Head0, Tail0
        <5>3. u = Link \/ u = t
          BY <1>1, <1>7, <2>2, <4>1, <5>1, <5>2, Numbers DEF IdInv, i
        <5>4. u # Link
          BY <2>2, <4>1, <5>1, <5>2 DEF MutexHeldDownChain, LinkServesWaiter
        <5> QED
          BY <3>2, <5>2, <5>3, <5>4
      <4>3. CASE t = Link
        <5>1. s # Head0
          BY <1>1, <4>3 DEF MutexHeldDownChain, LinkServesWaiter
        <5>2. r # s
          BY <1>7, <2>2, <3>2, <4>1, <4>3, <5>1 DEF LocalInv
        <5>3. r < s
          BY <1>7, <5>2, ChainAssumption DEF Server, Tail0
        <5>4. PICK v \in Thread :
                 conn[r][v].pc = "await" /\ conn[r][v].id = i
          BY <1>1, <4>3, <5>3 DEF AboveInv, i
        <5>5. v = u
          BY <1>7, <2>2, <4>1, <5>2, <5>4, OnePerServer
        <5> QED
          BY <4>1, <5>4, <5>5 DEF OnItsWay
      <4> QED
        BY <4>2, <4>3
    <3> QED
      BY <3>1, <3>2
  <2> QED
    BY <2>1, <2>2
<1> QED
  BY <1>5, <1>6, <1>7

LEMMA DoneNext ==
    ASSUME TypeOK, MutexHeldDownChain, LocalInv, IdInv, IssuedInv, AboveInv,
           DoneInv, [Next]_vars
    PROVE  DoneInv'
<1> DEFINE Ok1(s, a) ==
             \A i \in Id :
                /\ applied[Tail0][i] >= 1 /\ a.pc # "idle" /\ a.id = i
                /\ IsWriteOp(a.req)
                => OnItsWay(s, a)
<1>1. \A s \in Server, t \in Thread : Ok1(s, conn[s][t])
  BY DEF DoneInv
<1>2. ASSUME applied' = applied,
             \A s \in Server, t \in Thread : Ok1(s, conn'[s][t])
      PROVE  DoneInv'
  BY <1>2 DEF DoneInv, OnItsWay
<1>3. ASSUME NEW s \in Server, NEW t \in Thread, NEW x, OneSet(s, t, x),
             applied' = applied, Ok1(s, x)
      PROVE  DoneInv'
  <2> HIDE DEF Ok1
  <2>1. \A r \in Server, u \in Thread : Ok1(r, conn'[r][u])
    BY <1>1, <1>3 DEF OneSet
  <2> QED
    BY <1>2, <1>3, <2>1
<1>4. ASSUME NEW s \in Server, NEW t \in Thread, NEW x, NEW y,
             TwoSet(s, t, x, y), applied' = applied, Ok1(s, x), Ok1(s + 1, y)
      PROVE  DoneInv'
  <2> HIDE DEF Ok1
  <2>1. \A r \in Server, u \in Thread : Ok1(r, conn'[r][u])
    BY <1>1, <1>4 DEF TwoSet
  <2> QED
    BY <1>2, <1>4, <2>1
<1>5. ASSUME NEW c \in Client, NEW h \in Server, NEW x, Asks(c, h, x)
      PROVE  DoneInv'
  <2>1. ~(applied[Tail0][issued + 1] >= 1)
    BY <1>5, Numbers DEF Asks, IssuedInv
  <2>2. Ok1(h, x)
    BY <1>5, <2>1 DEF Asks
  <2>3. c \in Thread /\ OneSet(h, c, x) /\ applied' = applied
    BY <1>5, Numbers DEF Asks
  <2> HIDE DEF Ok1
  <2> QED
    BY <1>3, <2>2, <2>3
<1>6. \A s \in Server : Ok1(s, Idle)
  BY DEF Idle
<1>7. ASSUME NEW s \in Server, NEW c \in Client, Reads(s, c)
      PROVE  DoneInv'
  <2>1. c \in Thread /\ OneSet(s, c, Idle) /\ applied' = applied
    BY <1>7, Numbers DEF Reads
  <2> HIDE DEF Ok1
  <2> QED
    BY <1>3, <1>6, <2>1
<1>8. ASSUME NEW s \in Server, NEW t \in Thread, NEW x, Replies(s, t, x)
      PROVE  DoneInv'
  <2>1. /\ OneSet(s, t, x) /\ applied' = applied
        /\ x.pc = "reply" /\ Same(x, conn[s][t])
        /\ \/ conn[s][t].pc = "request"
           \/ /\ conn[s][t].pc = "forward"
              /\ s = Tail0 => x.reply = conn[s][t].reply
    BY <1>8 DEF Replies
  <2>2. conn[s][t].pc = "forward" => conn[s][t].reply.opcode = "OK"
    BY DEF LocalInv, Holding
  <2>3. Ok1(s, conn[s][t])
    BY <1>1
  <2>4. Ok1(s, x)
    BY <2>1, <2>2, <2>3 DEF OnItsWay, Same
  <2> HIDE DEF Ok1
  <2> QED
    BY <1>3, <2>1, <2>4
<1>9. ASSUME NEW s \in Server, NEW t \in Thread, NEW x, NEW y,
             Passes(s, t, x, y)
      PROVE  DoneInv'
  <2>1. /\ TwoSet(s, t, x, y) /\ applied' = applied /\ s # Tail0
        /\ conn[s][t].pc = "forward"
        /\ Same(x, conn[s][t]) /\ Same(y, conn[s][t])
    BY <1>9 DEF Passes
  <2>2. Ok1(s, conn[s][t])
    BY <1>1
  <2>3. Ok1(s, x) /\ Ok1(s + 1, y)
    BY <2>1, <2>2 DEF OnItsWay, Same
  <2> HIDE DEF Ok1
  <2> QED
    BY <1>4, <2>1, <2>3
<1>10. ASSUME NEW s \in Server, NEW t \in Thread, NEW x, Returns(s, t, x)
       PROVE  DoneInv'
  <2>1. /\ TwoSet(s, t, x, Idle) /\ applied' = applied /\ s # Tail0
        /\ conn[s][t].pc = "await" /\ conn[s + 1][Link].pc = "reply"
        /\ Same(x, conn[s][t])
        /\ \/ x.pc = "reply" /\ x.reply = conn[s][t].reply
           \/ conn[s + 1][Link].reply.opcode # "OK"
    BY <1>10 DEF Returns
  <2>2. s + 1 \in Server /\ Link \in Thread
    BY <2>1, NextServer, Numbers
  <2>3. Same(conn[s + 1][Link], conn[s][t])
    BY <2>1 DEF MutexHeldDownChain, SameWrite, Same
  <2>4. conn[s][t].reply.opcode = "OK"
    BY <2>1 DEF LocalInv, Holding
  <2>5. Ok1(s + 1, conn[s + 1][Link])
    BY <1>1, <2>2
  <2>6. Ok1(s, x)
    BY <2>1, <2>3, <2>4, <2>5 DEF OnItsWay, Same
  <2>7. Ok1(s + 1, Idle)
    BY <1>6, <2>2
  <2> HIDE DEF Ok1
  <2> QED
    BY <1>4, <2>1, <2>6, <2>7
<1>11. CASE Nothing
  <2> HIDE DEF Ok1
  <2> QED
    BY <1>1, <1>2, <1>11 DEF Nothing
<1> QED
  BY <1>5, <1>7, <1>8, <1>9, <1>10, <1>11, Steps, ExecuteDone

-----------------------------------------------------------------------------

RetryInv ==
    /\ LocalInv /\ IdInv /\ IssuedInv /\ HeadInv
    /\ AboveInv /\ BoundInv /\ DoneInv

LEMMA RetryInit == Init => RetryInv
<1> SUFFICES ASSUME Init PROVE RetryInv
  OBVIOUS
<1>1. /\ \A s \in Server, t \in Thread : conn[s][t].pc = "idle"
      /\ \A s \in Server, i \in Id : applied[s][i] = 0
  BY DEF Init, Idle
<1>2. /\ Head0 \in Server /\ Tail0 \in Server /\ Link \in Thread
      /\ \A c \in Client : c \in Thread
      /\ \A s \in Server \ {Tail0} : s + 1 \in Server
  BY ServerFacts
<1> QED
  BY <1>1, <1>2 DEF RetryInv, LocalInv, IdInv, IssuedInv, HeadInv, AboveInv,
                    BoundInv, DoneInv, Holding

\* A retry of zk_forward sends a write to the successor once more: for each
\* time a server executes a write its successor does it up to twice, and the
\* head and the tail do it once.
THEOREM RetryTheorem == Spec => []RetryBound
<1> DEFINE Inv == TypeOK /\ MutexHeldDownChain /\ RetryInv
<1>1. Init => Inv
  BY TypeInit, MutexInit, RetryInit
<1>2. Inv /\ [Next]_vars => Inv'
  BY TypeNext, MutexNext, LocalNext, IdNext, IssuedNext, HeadNext, AboveNext,
     BoundNext, DoneNext DEF RetryInv
<1>3. Inv => RetryBound
  BY DEF RetryInv, HeadInv, BoundInv, DoneInv, RetryBound
<1> QED
  BY <1>1, <1>2, <1>3, PTL DEF Spec

-----------------------------------------------------------------------------
(* The chain implements one list, while no connection is lost and nobody   *)
(* sorts the head: the safety part of the refinement of AtomicList.        *)

\* The handlers of the abstract list are the same operators.
LEMMA SameHandlers ==
    ASSUME NEW l, NEW req
    PROVE  /\ OneList!HandleList(l, req) = HandleList(l, req)
           /\ OneList!HandleReply(l, req) = HandleReply(l, req)
<1>0. \A S : OneList!Cardinality(S) = Cardinality(S)
  BY DEF OneList!Cardinality, Cardinality
<1>1. \A S : OneList!First(S) = First(S)
  BY DEF OneList!First, First
<1>2. \A rank : OneList!ByRank(l, rank) = ByRank(l, rank)
  BY DEF OneList!ByRank, ByRank, OneList!Cardinality, Cardinality
<1>3. OneList!ListOrderByYear(l) = ListOrderByYear(l)
  <2>1. OneList!YearRank(l) = YearRank(l)
    BY DEF OneList!YearRank, YearRank, OneList!NoLater, NoLater,
           OneList!Cardinality, Cardinality
  <2> QED
    BY <1>2, <2>1 DEF OneList!ListOrderByYear, ListOrderByYear
<1>4. \A m : OneList!WithModelo(l, m) = WithModelo(l, m)
  BY DEF OneList!WithModelo, WithModelo
<1>5. \A m : OneList!WithMarca(l, m) = WithMarca(l, m)
  BY DEF OneList!WithMarca, WithMarca
<1>7. \A m : OneList!ListRemoveByModel(l, m) = ListRemoveByModel(l, m)
  BY <1>1, <1>4 DEF OneList!ListRemoveByModel, ListRemoveByModel,
     OneList!Without, Without
<1>8. \A m : OneList!ListGetByMarca(l, m) = ListGetByMarca(l, m)
  BY <1>1, <1>5 DEF OneList!ListGetByMarca, ListGetByMarca
<1>9. \A m : OneList!ListGetByYear(l, m) = ListGetByYear(l, m)
  BY DEF OneList!ListGetByYear, ListGetByYear, OneList!WithAno, WithAno,
         OneList!ByRank, ByRank, OneList!Cardinality, Cardinality
<1>10. OneList!Ok = Ok /\ OneList!Error = Error
  BY DEF OneList!Ok, Ok, OneList!Error, Error
<1>11. OneList!HandleList(l, req) = HandleList(l, req)
  BY <1>3, <1>7 DEF OneList!HandleList, HandleList, OneList!ListAdd, ListAdd
<1>12. OneList!HandleReply(l, req) = HandleReply(l, req)
  BY <1>3, <1>4, <1>5, <1>8, <1>9, <1>10
  DEF OneList!HandleReply, HandleReply, OneList!ListGetModelList,
      ListGetModelList, OneList!ListGetAll, ListGetAll,
      OneList!ListSize, ListSize
<1> QED
  BY <1>11, <1>12

-----------------------------------------------------------------------------
\* A command number names one request, at whatever server it has got to.
CommandInv ==
    \A s, r \in Server, t, u \in Thread :
       /\ conn[s][t].pc # "idle" /\ conn[r][u].pc # "idle"
       /\ conn[s][t].id = conn[r][u].id
       => conn[s][t].req = conn[r][u].req

\* A client has one command, and nothing but OK to answer it with until it has
\* failed or taken effect.
ClientInv ==
    \A s \in Server, c \in Client :
       LET a == conn[s][c] IN
       /\ a.pc = "idle" => a = Idle
       /\ a.pc = "request" \/ a.pc \in Holding => a.reply = Ok
       /\ \A r \in Server :
             a.pc # "idle" /\ conn[r][c].pc # "idle" => r = s

SteadyInv ==
    /\ TypeOK /\ MutexHeldDownChain /\ LocalInv /\ AboveInv
    /\ InStepInv(Equal) /\ CommandInv /\ ClientInv

LEMMA CommandNext ==
    ASSUME TypeOK, MutexHeldDownChain, LocalInv, CommandInv, [Next]_vars
    PROVE  CommandInv'
<1> DEFINE Named(a, b) ==
             a.pc # "idle" /\ b.pc # "idle" /\ a.id = b.id => a.req = b.req
           From(a) ==
             a.pc # "idle" =>
                \E s \in Server, t \in Thread :
                   conn[s][t].pc # "idle" /\ Same(a, conn[s][t])
<1>1. ASSUME \A s \in Server, t \in Thread : From(conn'[s][t])
      PROVE  CommandInv'
  BY <1>1 DEF CommandInv, Same
<1>2. ASSUME NEW s \in Server, NEW t \in Thread PROVE From(conn[s][t])
  BY DEF Same
<1>3. From(Idle)
  BY DEF Idle
<1>4. ASSUME NEW c \in Client, NEW h \in Server, NEW x, Asks(c, h, x)
      PROVE  CommandInv'
  <2>1. \A r \in Server, u \in Thread :
           conn[r][u].pc # "idle" => conn[r][u].id # issued + 1
    BY Numbers DEF LocalInv
  <2>2. \A r \in Server, u \in Thread :
           conn'[r][u] = IF r = h /\ u = c THEN x ELSE conn[r][u]
    BY <1>4 DEF Asks, OneSet
  <2>3. x.id = issued + 1
    BY <1>4 DEF Asks
  <2> QED
    BY <2>1, <2>2, <2>3 DEF CommandInv
<1>5. ASSUME NEW s \in Server, NEW c \in Client, Reads(s, c)
      PROVE  CommandInv'
  <2>1. OneSet(s, c, Idle)
    BY <1>5 DEF Reads
  <2> HIDE DEF From
  <2> QED
    BY <1>1, <1>2, <1>3, <2>1 DEF OneSet
<1>6. ASSUME NEW s \in Server, NEW t \in Thread, NEW x,
             Executes(s, t, x) \/ Replies(s, t, x)
      PROVE  CommandInv'
  <2>1. OneSet(s, t, x)
    BY <1>6 DEF Executes, Replies
  <2>2. conn[s][t].pc # "idle" /\ Same(x, conn[s][t])
    BY <1>6 DEF Executes, Replies
  <2>3. From(x)
    BY <2>2
  <2> HIDE DEF From
  <2> QED
    BY <1>1, <1>2, <2>1, <2>3 DEF OneSet
<1>7. ASSUME NEW s \in Server, NEW t \in Thread, NEW x, Returns(s, t, x)
      PROVE  CommandInv'
  <2>1. TwoSet(s, t, x, Idle)
    BY <1>7 DEF Returns
  <2>2. conn[s][t].pc # "idle" /\ Same(x, conn[s][t])
    BY <1>7 DEF Returns
  <2>3. From(x)
    BY <2>2
  <2> HIDE DEF From
  <2> QED
    BY <1>1, <1>2, <1>3, <2>1, <2>3 DEF TwoSet
<1>8. ASSUME NEW s \in Server, NEW t \in Thread, NEW x, NEW y,
             Passes(s, t, x, y)
      PROVE  CommandInv'
  <2>1. TwoSet(s, t, x, y)
    BY <1>8 DEF Passes
  <2>2. /\ conn[s][t].pc # "idle"
        /\ Same(x, conn[s][t]) /\ Same(y, conn[s][t])
    BY <1>8 DEF Passes
  <2>3. From(x) /\ From(y)
    BY <2>2
  <2> HIDE DEF From
  <2> QED
    BY <1>1, <1>2, <2>1, <2>3 DEF TwoSet
<1>9. CASE Nothing
  BY <1>9 DEF Nothing, CommandInv
<1> QED
  BY <1>4, <1>5, <1>6, <1>7, <1>8, <1>9, Steps

-----------------------------------------------------------------------------
(* The steps of a steady chain. *)

Sends(c, req) ==
    /\ req \in Inputs
    /\ OneSet(Target(req), c, Incoming(req, issued + 1))
    /\ conn[Head0][c].pc = "idle" /\ conn[Tail0][c].pc = "idle"
    /\ issued < MaxCommands /\ issued' = issued + 1 /\ list' = list

\* The handler of a write that succeeds.
Writes(s, t, x) ==
    /\ OneSet(s, t, x)
    /\ conn[s][t].pc = "request" /\ owner[s] = {}
    /\ Forwards(list[s], conn[s][t].req)
    /\ x.pc = "forward" /\ x.req = conn[s][t].req /\ x.reply = Ok
    /\ \A r \in Server :
          list'[r] = IF r = s THEN HandleList(list[s], conn[s][t].req)
                              ELSE list[r]
    /\ issued' = issued

\* Any other handler.
Performs(s, c, x) ==
    /\ OneSet(s, c, x)
    /\ conn[s][c].pc = "request" /\ owner[s] = {}
    /\ s = Target(conn[s][c].req)
    /\ HandleList(list[s], conn[s][c].req) = list[s]
    /\ x.pc = "reply" /\ x.req = conn[s][c].req
    /\ x.reply = HandleReply(list[s], conn[s][c].req)
    /\ list' = list /\ issued' = issued

\* zk_forward at the tail.
Ends(t, x) ==
    /\ OneSet(Tail0, t, x)
    /\ conn[Tail0][t].pc = "forward"
    /\ x.pc = "reply" /\ x.req = conn[Tail0][t].req
    /\ x.reply = conn[Tail0][t].reply
    /\ list' = list /\ issued' = issued

Hands(s, t, x, y) ==
    /\ TwoSet(s, t, x, y)
    /\ s # Tail0 /\ conn[s][t].pc = "forward"
    /\ x.pc = "await" /\ x.req = conn[s][t].req
    /\ x.reply = conn[s][t].reply
    /\ y.pc = "request"
    /\ list' = list /\ issued' = issued

Comes(s, t, x) ==
    /\ TwoSet(s, t, x, Idle)
    /\ s # Tail0 /\ conn[s][t].pc = "await" /\ conn[s + 1][Link].pc = "reply"
    /\ x.pc = "reply" /\ x.req = conn[s][t].req
    /\ x.reply = conn[s][t].reply
    /\ list' = list /\ issued' = issued

\* A write that is forwarded has the plain reply OK.
LEMMA WriteReply ==
    ASSUME NEW l, NEW req, Forwards(l, req)
    PROVE  HandleReply(l, req) = Ok
<1>1. req.opcode \in {"ADD", "DEL"} /\ HandleReply(l, req).opcode = "OK"
  BY DEF Forwards, IsWriteOp
<1>2. Error.opcode # "OK"
  BY DEF Error, Ok
<1> QED
  BY <1>1, <1>2 DEF HandleReply

LEMMA SteadySteps ==
    ASSUME Steady, TypeOK, MutexHeldDownChain, InStepInv(Equal), [Next]_vars
    PROVE  \/ \E c \in Client, req \in Inputs : Sends(c, req)
           \/ \E s \in Server, c \in Client : Reads(s, c) /\ list' = list
           \/ \E s \in Server, t \in Thread : \E x :
                 Writes(s, t, x) \/ Comes(s, t, x)
           \/ \E s \in Server, c \in Client : \E x : Performs(s, c, x)
           \/ \E t \in Thread : \E x : Ends(t, x)
           \/ \E s \in Server, t \in Thread : \E x, y : Hands(s, t, x, y)
           \/ UNCHANGED vars
<1>0. /\ conn \in [Server -> [Thread -> Connection]]
      /\ list \in [Server -> Seq(Data)]
  BY DEF TypeOK
<1>c. ASSUME NEW s \in Server, NEW t \in Thread
      PROVE  conn[s][t] \in Connection /\ conn[s][t].req \in Request
  <2>1. conn[s][t] \in Connection
    BY <1>0
  <2> QED
    BY <2>1 DEF Connection
<1>1. ASSUME NEW c \in Client, NEW req \in Inputs, Send(c, req)
      PROVE  Sends(c, req)
  <2> DEFINE h == Target(req)
             x == Incoming(req, issued + 1)
  <2>1. h \in Server /\ c \in Thread
    BY ServerFacts DEF Target
  <2>2. conn' = [conn EXCEPT ![h][c] = x]
    BY <1>1 DEF Send
  <2> HIDE DEF h, x
  <2>3. OneSet(h, c, x)
    BY <1>0, <2>1, <2>2, ConnExcept DEF OneSet
  <2> QED
    BY <1>1, <2>3 DEF Send, Sends, h, x
<1>2. ASSUME NEW s \in Server, NEW c \in Client, Receive(s, c)
      PROVE  Reads(s, c) /\ list' = list
  <2>1. c \in Thread
    BY ServerFacts
  <2>2. OneSet(s, c, Idle)
    BY <1>0, <1>2, <2>1, ConnExcept DEF Receive, OneSet
  <2> QED
    BY <1>2, <2>2 DEF Receive, Reads
<1>3. ASSUME NEW s \in Server, NEW t \in Thread, Invoke(s, t)
      PROVE  \E x : Writes(s, t, x) \/ (t \in Client /\ Performs(s, t, x))
  <2> DEFINE c == conn[s][t]
             reply == HandleReply(list[s], c.req)
             fwd == [c EXCEPT !.pc = "forward", !.reply = reply]
             ans == [c EXCEPT !.pc = "reply", !.reply = reply]
  <2>1. /\ c \in Connection /\ c.req \in Request /\ c.pc = "request"
        /\ owner[s] = {} /\ list[s] \in Seq(Data) /\ issued' = issued
    BY <1>0, <1>3, <1>c DEF Invoke
  <2>2. \A r \in Server :
           list'[r] = IF r = s THEN HandleList(list[s], c.req) ELSE list[r]
    BY <1>0, <1>3 DEF Invoke
  <2>3. CASE Forwards(list[s], c.req)
    <3>1. conn' = [conn EXCEPT ![s][t] = fwd]
      BY <1>3, <2>3 DEF Invoke
    <3>2. fwd.pc = "forward" /\ fwd.reply = reply /\ fwd.req = c.req
      BY <2>1, ConnectionFields, Fields
    <3>3. reply = Ok
      BY <2>3, WriteReply
    <3> HIDE DEF c, reply, fwd
    <3>4. OneSet(s, t, fwd)
      BY <1>0, <3>1, ConnExcept DEF OneSet
    <3>5. Writes(s, t, fwd)
      BY <2>1, <2>2, <2>3, <3>2, <3>3, <3>4 DEF Writes, c
    <3> QED
      BY <3>5
  <2>4. CASE ~Forwards(list[s], c.req)
    <3>1. conn' = [conn EXCEPT ![s][t] = ans]
      BY <1>3, <2>4 DEF Invoke
    <3>2. ans.pc = "reply" /\ ans.reply = reply /\ ans.req = c.req
      BY <2>1, ConnectionFields, Fields
    <3>3. t # Link
      BY <2>1, <2>4, LinkRequest
    <3>4. t \in Client /\ s = Target(c.req) /\ c.req \in Inputs
      BY <2>1, <3>3 DEF Thread, InStepInv, AtTarget
    <3>5. HandleList(list[s], c.req) = list[s]
      BY <2>1, <2>4, <3>4, NotForwarded DEF Steady
    <3>6. list' = list
      <4>1. list' = [list EXCEPT ![s] = HandleList(list[s], c.req)]
        BY <1>3 DEF Invoke
      <4> HIDE DEF c
      <4> QED
        BY <1>0, <3>5, <4>1
    <3> HIDE DEF ans, c, reply
    <3>7. OneSet(s, t, ans)
      BY <1>0, <3>1, ConnExcept DEF OneSet
    <3>8. Performs(s, t, ans)
      BY <2>1, <3>2, <3>4, <3>5, <3>6, <3>7 DEF Performs, c, reply
    <3> QED
      BY <3>4, <3>8
  <2> QED
    BY <2>3, <2>4
<1>4. ASSUME NEW s \in Server, NEW t \in Thread, ForwardNothing(s, t)
      PROVE  \E x : Ends(t, x)
  <2> DEFINE c == conn[s][t]
             ans == [c EXCEPT !.pc = "reply", !.reply = c.reply]
  <2>1. /\ c.pc = "forward" /\ s = Tail0 /\ list' = list /\ issued' = issued
        /\ conn' = [conn EXCEPT ![s][t] = ans]
    BY <1>4 DEF ForwardNothing, Answer
  <2>2. ans.pc = "reply" /\ ans.reply = c.reply /\ ans.req = c.req
    BY <1>c, ConnectionFields, Fields
  <2> HIDE DEF ans, c
  <2>3. OneSet(s, t, ans)
    BY <1>0, <2>1, ConnExcept DEF OneSet
  <2>4. Ends(t, ans)
    BY <2>1, <2>2, <2>3 DEF Ends, c
  <2> QED
    BY <2>4
<1>5. ASSUME NEW s \in Server, NEW t \in Thread
      PROVE  ~ForwardUnconnected(s, t)
  BY DEF InStepInv, Connected, ForwardUnconnected
<1>6. ASSUME NEW s \in Server, NEW t \in Thread, ForwardSend(s, t)
      PROVE  \E x, y : Hands(s, t, x, y)
  <2> DEFINE c == conn[s][t]
             wait == [c EXCEPT !.pc = "await"]
             in == Incoming(c.req, c.id)
  <2>1. /\ conn' = [conn EXCEPT ![s][t] = wait, ![s + 1][Link] = in]
        /\ c.pc = "forward" /\ s # Tail0 /\ list' = list /\ issued' = issued
    BY <1>6 DEF ForwardSend
  <2>2. wait.pc = "await" /\ wait.req = c.req /\ wait.reply = c.reply
    BY <1>c, ConnectionFields, Fields
  <2>3. in.pc = "request"
    BY IncomingFields
  <2> HIDE DEF c, wait, in
  <2>4. TwoSet(s, t, wait, in)
    BY <1>0, <2>1, ConnExcept2 DEF TwoSet
  <2>5. Hands(s, t, wait, in)
    BY <2>1, <2>2, <2>3, <2>4 DEF Hands, c
  <2> QED
    BY <2>5
<1>7. ASSUME NEW s \in Server, NEW t \in Thread, Answered(s, t)
      PROVE  s # Tail0 /\ conn[s + 1][Link].reply.opcode = "OK"
  <2>1. s # Tail0
    BY <1>7 DEF Answered, MutexHeldDownChain, LinkServesWaiter
  <2>2. s + 1 \in Server
    BY <2>1, ServerFacts
  <2> QED
    BY <1>7, <2>1, <2>2 DEF Answered, InStepInv, NoErrors
<1>8. ASSUME NEW s \in Server, NEW t \in Thread
      PROVE  ~ForwardRetry(s, t) /\ ~ForwardFail(s, t)
  BY <1>7 DEF ForwardRetry, ForwardFail
<1>9. ASSUME NEW s \in Server, NEW t \in Thread, ForwardOk(s, t)
      PROVE  \E x : Comes(s, t, x)
  <2> DEFINE c == conn[s][t]
             done == [c EXCEPT !.pc = "reply"]
  <2>1. /\ conn' = [conn EXCEPT ![s][t] = done, ![s + 1][Link] = Idle]
        /\ c.pc = "await" /\ conn[s + 1][Link].pc = "reply" /\ s # Tail0
        /\ list' = list /\ issued' = issued
    BY <1>7, <1>9 DEF ForwardOk, Answered
  <2>2. done.pc = "reply" /\ done.req = c.req /\ done.reply = c.reply
    BY <1>c, ConnectionFields, Fields
  <2> HIDE DEF c, done
  <2>3. TwoSet(s, t, done, Idle)
    BY <1>0, <2>1, ConnExcept2 DEF TwoSet
  <2>4. Comes(s, t, done)
    BY <2>1, <2>2, <2>3 DEF Comes, c
  <2> QED
    BY <2>4
<1>10. ASSUME NEW s \in Server
       PROVE  ~UpdateChain(s)
  BY DEF UpdateChain, TypeOK, Steady
<1> QED
  BY <1>1, <1>2, <1>3, <1>4, <1>5, <1>6, <1>8, <1>9, <1>10
     DEF Next, Serve

LEMMA ClientNext ==
    ASSUME Steady, SteadyInv, [Next]_vars
    PROVE  ClientInv'
<1> USE DEF SteadyInv
<1>1. ASSUME NEW c \in Client, NEW req \in Inputs, Sends(c, req)
      PROVE  ClientInv'
  <2> DEFINE h == Target(req)
             x == Incoming(req, issued + 1)
  <2>1. h \in {Head0, Tail0} /\ h \in Server
    BY ServerFacts DEF Target
  <2>2. \A r \in Server : conn[r][c].pc = "idle"
    BY <1>1, Numbers DEF Sends, LocalInv
  <2>3. \A r \in Server, d \in Client :
           conn'[r][d] = IF r = h /\ d = c THEN x ELSE conn[r][d]
    BY <1>1, Numbers DEF Sends, OneSet
  <2>4. x.pc = "request" /\ x.reply = Ok
    BY DEF Incoming, Idle
  <2> HIDE DEF h, x
  <2> QED
    BY <2>1, <2>2, <2>3, <2>4 DEF ClientInv, Holding
<1>2. ASSUME \A r \in Server, d \in Client :
                LET a == conn'[r][d] IN
                /\ a.pc = "idle" => a = Idle
                /\ a.pc = "request" \/ a.pc \in Holding => a.reply = Ok
                /\ a.pc # "idle" => conn[r][d].pc # "idle"
      PROVE  ClientInv'
  BY <1>2 DEF ClientInv
<1>3. ASSUME NEW s \in Server, NEW t \in Thread, NEW x, NEW y,
             OneSet(s, t, x) \/ (s # Tail0 /\ TwoSet(s, t, x, y)),
             t \in Client =>
                /\ x = Idle \/ x.pc # "idle"
                /\ x.pc = "request" \/ x.pc \in Holding => x.reply = Ok
                /\ conn[s][t].pc # "idle"
      PROVE  ClientInv'
  <2>1. \A r \in Server, d \in Client :
           conn'[r][d] = IF r = s /\ d = t THEN x ELSE conn[r][d]
    BY <1>3, Numbers DEF OneSet, TwoSet
  <2> QED
    BY <1>2, <1>3, <2>1 DEF ClientInv
<1>4. ASSUME NEW s \in Server, NEW c \in Client, Reads(s, c)
      PROVE  ClientInv'
  <2>1. c \in Thread /\ Idle.reply = Ok
    BY Numbers DEF Idle
  <2> QED
    BY <1>3, <1>4, <2>1 DEF Reads
<1>5. ASSUME NEW s \in Server, NEW t \in Thread, NEW x, Writes(s, t, x)
      PROVE  ClientInv'
  BY <1>3, <1>5 DEF Writes
<1>6. ASSUME NEW s \in Server, NEW c \in Client, NEW x, Performs(s, c, x)
      PROVE  ClientInv'
  <2>1. c \in Thread
    BY Numbers
  <2> QED
    BY <1>3, <1>6, <2>1 DEF Performs, Holding
<1>7. ASSUME NEW t \in Thread, NEW x, Ends(t, x)
      PROVE  ClientInv'
  <2>1. Tail0 \in Server
    BY Numbers
  <2> QED
    BY <1>3, <1>7, <2>1 DEF Ends, Holding
<1>8. ASSUME NEW s \in Server, NEW t \in Thread, NEW x, NEW y,
             Hands(s, t, x, y)
      PROVE  ClientInv'
  <2>1. t \in Client => conn[s][t].reply = Ok
    BY <1>8 DEF Hands, ClientInv, Holding
  <2> QED
    BY <1>3, <1>8, <2>1 DEF Hands
<1>9. ASSUME NEW s \in Server, NEW t \in Thread, NEW x, Comes(s, t, x)
      PROVE  ClientInv'
  BY <1>3, <1>9 DEF Comes, Holding
<1>10. CASE UNCHANGED vars
  BY <1>10 DEF vars, ClientInv
<1> QED
  BY <1>1, <1>4, <1>5, <1>6, <1>7, <1>8, <1>9, <1>10, SteadySteps

LEMMA SteadyInit ==
    ASSUME Steady, Init
    PROVE  SteadyInv
<1>1. \A s \in Server, t \in Thread : conn[s][t] = Idle
  BY DEF Init
<1>2. Idle.pc = "idle"
  BY DEF Idle
<1>3. TypeOK /\ MutexHeldDownChain
  BY TypeInit, MutexInit
<1>4. InStepInv(Equal)
  BY <1>3, EqualAgreement, InStepInit
<1>5. LocalInv /\ AboveInv
  BY RetryInit DEF RetryInv
<1>6. CommandInv
  BY <1>1, <1>2 DEF CommandInv
<1>7. ClientInv
  <2>1. \A s \in Server, c \in Client : conn[s][c] = Idle
    BY <1>1, ServerFacts
  <2> QED
    BY <1>2, <2>1 DEF ClientInv, Holding
<1> QED
  BY <1>3, <1>4, <1>5, <1>6, <1>7 DEF SteadyInv

LEMMA SteadyNext ==
    ASSUME Steady, SteadyInv, [Next]_vars
    PROVE  SteadyInv'
<1> USE DEF SteadyInv
<1>1. TypeOK' /\ MutexHeldDownChain'
  BY TypeNext, MutexNext
<1>2. updates' = 0
  BY <1>1 DEF TypeOK, Steady
<1>3. InStepInv(Equal)'
  BY <1>2, EqualAgreement, InStepNext
<1>4. LocalInv' /\ AboveInv'
  BY LocalNext, AboveNext
<1>5. CommandInv' /\ ClientInv'
  BY CommandNext, ClientNext
<1> QED
  BY <1>1, <1>3, <1>4, <1>5

-----------------------------------------------------------------------------
(* Where a write is. *)

\* A client waits at the end its command was meant for; while a write of its
\* is forwarded, that is the head.
LEMMA Elsewhere ==
    ASSUME SteadyInv, NEW c \in Client, NEW s \in Server,
           conn[s][c].pc # "idle"
    PROVE  /\ s \in {Head0, Tail0}
           /\ \A r \in Server : r # s => conn[r][c].pc = "idle"
           /\ conn[s][c].pc \in Holding \/ IsWriteOp(conn[s][c].req) =>
                 s = Head0
<1>1. c \in Thread /\ c # Link
  BY ServerFacts
<1> QED
  BY <1>1 DEF SteadyInv, LocalInv, ClientInv

\* The tail has executed what is on its way back.
TailReached ==
    /\ Head0 = Tail0 => ~AboveTail
    /\ \A r \in Server :
          \/ conn[r][Link].pc = "reply"
          \/ r = Tail0 /\ conn[r][Link].pc = "forward"
          => ~AboveTail

LEMMA Reached == SteadyInv => TailReached
<1> SUFFICES ASSUME SteadyInv PROVE TailReached
  OBVIOUS
<1> USE DEF SteadyInv
<1>1. /\ Link \in Thread
      /\ \A s \in Server : s # Tail0 => s + 1 \in Server /\ s < Tail0
      /\ \A s \in Server : s \in Int /\ s >= Head0 /\ s <= Tail0
  BY ServerFacts, NextServer, ChainAssumption DEF Server, Head0, Tail0
<1>2. \A s \in Server, t \in Thread :
         conn[s][t].pc \in Holding /\ s # Head0 => t = Link
  BY Forwarder
<1>3. \A t \in Thread : conn[Tail0][t].pc # "await"
  BY DEF MutexHeldDownChain, LinkServesWaiter
<1>4. conn[Head0][Link].pc = "idle"
  BY DEF MutexHeldDownChain, LinkServesWaiter
<1>5. ASSUME NEW r \in Server, NEW s \in Server, NEW t \in Thread,
             \/ conn[r][Link].pc = "reply"
             \/ r = Tail0 /\ conn[r][Link].pc = "forward",
             \/ conn[s][t].pc = "forward" /\ s # Tail0
             \/ conn[s][t].pc = "await" /\ conn[s + 1][Link].pc = "request"
      PROVE  FALSE
  <2>1. conn[s][t].pc \in Holding /\ s # Tail0
    BY <1>3, <1>5 DEF Holding
  <2>2. r # Head0 /\ conn[r][Link].pc # "idle"
    BY <1>4, <1>5
  <2>3. CASE s < r
    <3>1. PICK u \in Thread : conn[s][u].pc = "await"
      BY <2>2, <2>3 DEF AboveInv
    <3>2. u = t
      BY <2>1, <3>1, OneWaits DEF Holding
    <3>3. conn[s + 1][Link].pc = "request" /\ s + 1 # r
      BY <1>5, <3>1, <3>2
    <3>4. s + 1 < r /\ s + 1 \in Server /\ s + 1 # Head0
      BY <1>1, <2>1, <2>3, <3>3, NextServer
    <3>5. PICK v \in Thread : conn[s + 1][v].pc = "await"
      BY <2>2, <3>4 DEF AboveInv
    <3>6. v = Link
      BY <1>2, <3>4, <3>5 DEF Holding
    <3> QED
      BY <3>3, <3>5, <3>6
  <2>4. CASE s = r
    BY <1>2, <1>5, <2>1, <2>2, <2>4
  <2>5. CASE s > r
    <3>1. s # Head0
      BY <1>1, <2>5, ServerFacts
    <3>2. t = Link /\ conn[s][Link].pc # "idle"
      BY <1>2, <2>1, <3>1 DEF Holding
    <3>3. PICK u \in Thread : conn[r][u].pc = "await"
      BY <1>1, <2>5, <3>2 DEF AboveInv
    <3>4. u = Link
      BY <1>2, <2>2, <3>3 DEF Holding
    <3> QED
      BY <1>5, <3>3, <3>4
  <2> QED
    BY <1>1, <2>3, <2>4, <2>5
<1>6. ASSUME Head0 = Tail0, NEW s \in Server
      PROVE  s = Tail0
  BY <1>1, <1>6, ServerFacts
<1>7. Head0 = Tail0 => ~AboveTail
  BY <1>3, <1>6 DEF AboveTail
<1> QED
  BY <1>5, <1>7 DEF TailReached, AboveTail

LEMMA ReachedNext == SteadyInv' => TailReached'
BY Reached, PTL

\* When the head is free nothing is on its way, and the lists are level.
LEMMA LevelLists ==
    ASSUME SteadyInv, owner[Head0] = {}
    PROVE  list[Tail0] = list[Head0]
<1> USE DEF SteadyInv
<1>1. \A t \in Thread : conn[Head0][t].pc \notin Holding
  BY ServerFacts DEF MutexHeldDownChain, HoldersForward
<1>2. ASSUME NEW s \in Server, NEW t \in Thread
      PROVE  conn[s][t].pc \notin Holding
  <2>1. CASE s = Head0
    BY <1>1, <2>1
  <2>2. CASE s # Head0
    <3>1. Head0 < s
      BY <2>2, ServerFacts DEF Server, Head0
    <3>2. conn[s][Link].pc = "idle"
      BY <1>1, <3>1, ServerFacts DEF AboveInv, Holding
    <3> QED
      BY <2>2, <3>2, Forwarder DEF Holding
  <2> QED
    BY <2>1, <2>2
<1>3. \A s \in Server \ {Tail0} : list[s] = list[s + 1]
  <2>1. \A k, l : <<k, l>> \in Equal => k = l
    BY DEF Equal
  <2> QED
    BY <1>2, <2>1 DEF InStepInv, Related, Ahead, Holding
<1> DEFINE S == {s \in Server : list[s] # list[Head0]}
<1>4. CASE S = {}
  BY <1>4, ServerFacts
<1>5. CASE S # {}
  <2>1. S \in SUBSET Nat
    BY DEF Server
  <2>2. PICK m \in S : \A j \in S : <<j, m>> \notin OpToRel(<, Nat)
    <3> HIDE DEF S
    <3> QED
      BY <1>5, <2>1, NatLessThanWellFounded, WFMin
  <2>3. m \in Server /\ m # Head0
    OBVIOUS
  <2> DEFINE p == m - 1
  <2>4. p \in Server \ {Tail0} /\ p + 1 = m
    BY <2>3, ServerFacts
  <2>5. p \in Nat /\ m \in Nat /\ p < m
    BY <2>3, <2>4 DEF Server
  <2> HIDE DEF p
  <2>6. p \in S
    BY <1>3, <2>4
  <2> QED
    BY <2>2, <2>5, <2>6 DEF OpToRel
<1> QED
  BY <1>4, <1>5

\* The write that gets to the tail is that of a client, who waits at the head.
LEMMA WaitingClient ==
    ASSUME SteadyInv, Head0 # Tail0, conn[Tail0][Link].pc = "request"
    PROVE  /\ AboveTail
           /\ \E c \in Client :
                 /\ conn[Head0][c].pc = "await"
                 /\ conn[Head0][c].req = conn[Tail0][Link].req
                 /\ \A d \in Client \ {c}, s \in Server :
                       conn[s][d].pc \notin Holding
<1> USE DEF SteadyInv
<1>1. Head0 < Tail0 /\ Head0 \in Server /\ Tail0 \in Server /\ Link \in Thread
  BY ServerFacts, ChainAssumption DEF Server, Head0, Tail0
<1>2. PICK c \in Thread :
         /\ conn[Head0][c].pc = "await"
         /\ conn[Head0][c].id = conn[Tail0][Link].id
  BY <1>1 DEF AboveInv
<1>3. c \in Client
  BY <1>2, Numbers DEF MutexHeldDownChain, LinkServesWaiter
<1>4. conn[Head0][c].req = conn[Tail0][Link].req
  BY <1>1, <1>2 DEF CommandInv
<1>5. ASSUME NEW d \in Client \ {c}, NEW s \in Server,
             conn[s][d].pc \in Holding
      PROVE  FALSE
  <2>1. s = Head0 /\ d \in Thread
    BY <1>5, Elsewhere, ServerFacts DEF Holding
  <2> QED
    BY <1>1, <1>2, <1>5, <2>1, OneWaits DEF Holding
<1>6. AboveTail
  <2> DEFINE p == Tail0 - 1
  <2>1. p \in Server \ {Tail0} /\ p + 1 = Tail0
    BY <1>1, ServerFacts
  <2> HIDE DEF p
  <2>2. PICK u \in Thread : conn[p][u].pc = "await"
    BY <2>1 DEF MutexHeldDownChain, LinkServesWaiter
  <2> QED
    BY <2>1, <2>2 DEF AboveTail
<1> QED
  BY <1>2, <1>3, <1>4, <1>5, <1>6

-----------------------------------------------------------------------------
(* What CallOf makes of a client. *)

Waiting == [pc |-> "idle", req |-> NoRequest, reply |-> Ok]
Called(req) == [pc |-> "called", req |-> req, reply |-> Ok]
Done(req, reply) == [pc |-> "done", req |-> req, reply |-> reply]

\* Client c is at the end s of the chain, if it is anywhere.
Calls ==
    \A c \in Client, s \in {Head0, Tail0} :
       LET a == conn[s][c] IN
       (\A r \in {Head0, Tail0} : r # s => conn[r][c].pc = "idle") =>
          /\ a.pc = "idle" => CallOf(c) = Waiting
          /\ a.pc = "request" => CallOf(c) = Called(a.req)
          /\ a.pc \in Holding /\ AboveTail => CallOf(c) = Called(a.req)
          /\ a.pc \in Holding /\ ~AboveTail => CallOf(c) = Done(a.req, Ok)
          /\ a.pc = "reply" => CallOf(c) = Done(a.req, a.reply)

LEMMA CallView == SteadyInv => Calls
<1> SUFFICES ASSUME ClientInv, NEW c \in Client, NEW s \in {Head0, Tail0},
                    \A r \in {Head0, Tail0} : r # s => conn[r][c].pc = "idle"
             PROVE  LET a == conn[s][c] IN
                    /\ a.pc = "idle" => CallOf(c) = Waiting
                    /\ a.pc = "request" => CallOf(c) = Called(a.req)
                    /\ a.pc \in Holding /\ AboveTail =>
                          CallOf(c) = Called(a.req)
                    /\ a.pc \in Holding /\ ~AboveTail =>
                          CallOf(c) = Done(a.req, Ok)
                    /\ a.pc = "reply" => CallOf(c) = Done(a.req, a.reply)
  BY DEF Calls, SteadyInv
<1> DEFINE h == IF conn[Head0][c].pc # "idle" THEN Head0 ELSE Tail0
           a == conn[s][c]
<1>0. s \in Server /\ Head0 \in Server /\ Tail0 \in Server
  BY ServerFacts
<1>1. conn[h][c] = a
  BY <1>0 DEF ClientInv
<1>2. /\ a.pc = "idle" => a = Idle
      /\ a.pc = "request" \/ a.pc \in Holding => a.reply = Ok
      /\ Idle.reply = Ok /\ Idle.req = NoRequest
  BY <1>0 DEF ClientInv, Idle
<1>3. CallOf(c) =
        [pc |-> CASE a.pc = "idle" -> "idle"
                  [] a.pc = "request" -> "called"
                  [] a.pc \in Holding /\ AboveTail -> "called"
                  [] OTHER -> "done",
         req |-> a.req,
         reply |-> IF a.pc \in Holding /\ AboveTail THEN Ok ELSE a.reply]
  BY <1>1 DEF CallOf
<1> HIDE DEF a
<1>4. /\ a.pc = "idle" => CallOf(c) = Waiting
      /\ a.pc = "request" => CallOf(c) = Called(a.req)
  BY <1>2, <1>3 DEF Holding, Waiting, Called
<1>5. a.pc \in Holding /\ AboveTail => CallOf(c) = Called(a.req)
  BY <1>2, <1>3 DEF Holding, Called
<1>6. a.pc \in Holding /\ ~AboveTail => CallOf(c) = Done(a.req, Ok)
  BY <1>2, <1>3 DEF Holding, Done
<1>7. a.pc = "reply" => CallOf(c) = Done(a.req, a.reply)
  BY <1>3 DEF Holding, Done
<1> QED
  BY <1>4, <1>5, <1>6, <1>7 DEF a

LEMMA CallViewNext == SteadyInv' => Calls'
BY CallView, PTL

\* Whoever does not move, and either forwards nothing or is as far from the
\* tail as before, is seen to do the same.
LEMMA CallKept ==
    ASSUME NEW c \in Client,
           conn'[Head0][c] = conn[Head0][c], conn'[Tail0][c] = conn[Tail0][c],
           \/ /\ conn[Head0][c].pc \notin Holding
              /\ conn[Tail0][c].pc \notin Holding
           \/ AboveTail' <=> AboveTail
    PROVE  CallOf(c)' = CallOf(c)
<1>1. CASE AboveTail' <=> AboveTail
  BY <1>1 DEF CallOf
<1>2. CASE /\ conn[Head0][c].pc \notin Holding
           /\ conn[Tail0][c].pc \notin Holding
  BY <1>2 DEF CallOf
<1> QED
  BY <1>1, <1>2

\* Only steps of forwarding threads and of the Link threads move a write.
LEMMA AboveKept ==
    ASSUME MutexHeldDownChain, MutexHeldDownChain',
           \A s \in Server, t \in Thread :
              /\ conn'[s][t].pc = "forward" <=> conn[s][t].pc = "forward"
              /\ conn'[s][t].pc = "await" <=> conn[s][t].pc = "await",
           \A s \in Server :
              conn'[s][Link].pc = "request" <=> conn[s][Link].pc = "request"
    PROVE  AboveTail' <=> AboveTail
<1>1. \A s \in Server : s # Tail0 => s + 1 \in Server
  BY ServerFacts
<1>2. \A s \in Server, t \in Thread :
         conn[s][t].pc = "await" => s # Tail0
  BY DEF MutexHeldDownChain, LinkServesWaiter
<1> QED
  BY <1>1, <1>2 DEF AboveTail

-----------------------------------------------------------------------------
(* The steps of the abstract list. *)

calls == [c \in Client |-> CallOf(c)]

LEMMA CallsExcept ==
    ASSUME NEW c \in Client, NEW v,
           \A d \in Client \ {c} : CallOf(d)' = CallOf(d), CallOf(c)' = v
    PROVE  calls' = [calls EXCEPT ![c] = v] /\ calls[c] = CallOf(c)
BY DEF calls

LEMMA Outcomes ==
    ASSUME NEW req, NEW reply
    PROVE  /\ [Waiting EXCEPT !.pc = "called", !.req = req] = Called(req)
           /\ [Called(req) EXCEPT !.pc = "done", !.reply = reply] =
                 Done(req, reply)
<1> DEFINE R == [pc : {"idle", "called", "done"}, req : {req, NoRequest},
                reply : {reply, Ok}]
<1>1. \A a, b \in R :
         a.pc = b.pc /\ a.req = b.req /\ a.reply = b.reply => a = b
  OBVIOUS
<1>2. Waiting \in R /\ Called(req) \in R /\ Done(req, reply) \in R
  BY DEF Waiting, Called, Done
<1>3. \A a \in R :
         LET b == [a EXCEPT !.pc = "called", !.req = req]
             d == [a EXCEPT !.pc = "done", !.reply = reply]
         IN  /\ b \in R /\ b.pc = "called" /\ b.req = req
             /\ b.reply = a.reply
             /\ d \in R /\ d.pc = "done" /\ d.req = a.req
             /\ d.reply = reply
  OBVIOUS
<1>4. /\ Waiting.reply = Ok /\ Called(req).pc = "called"
      /\ Called(req).req = req /\ Called(req).reply = Ok
      /\ Done(req, reply).pc = "done" /\ Done(req, reply).req = req
      /\ Done(req, reply).reply = reply
  BY DEF Waiting, Called, Done
<1> DEFINE b == [Waiting EXCEPT !.pc = "called", !.req = req]
           d == [Called(req) EXCEPT !.pc = "done", !.reply = reply]
<1>5. b \in R /\ b.pc = "called" /\ b.req = req /\ b.reply = Ok
  BY <1>2, <1>3, <1>4
<1>6. d \in R /\ d.pc = "done" /\ d.req = req /\ d.reply = reply
  BY <1>2, <1>3, <1>4
<1> HIDE DEF R, b, d
<1>7. b = Called(req) /\ d = Done(req, reply)
  BY <1>1, <1>2, <1>4, <1>5, <1>6
<1> QED
  BY <1>7 DEF b, d

\* The command is sent.
LEMMA SeenCall ==
    ASSUME NEW c \in Client, NEW req \in Inputs, issued < MaxCommands,
           \A d \in Client \ {c} : CallOf(d)' = CallOf(d),
           CallOf(c) = Waiting, CallOf(c)' = Called(req),
           issued' = issued + 1, list'[Tail0] = list[Tail0]
    PROVE  OneList!Next
<1>1. calls' = [calls EXCEPT ![c] = Called(req)] /\ calls[c] = Waiting
  BY CallsExcept
<1>2. Called(req) = [calls[c] EXCEPT !.pc = "called", !.req = req]
  BY <1>1, Outcomes
<1>3. calls[c].pc = "idle"
  BY <1>1 DEF Waiting
<1>4. OneList!Call(c, req)
  BY <1>1, <1>2, <1>3 DEF OneList!Call, calls
<1> QED
  BY <1>4 DEF OneList!Next

\* It takes effect.
LEMMA SeenPerform ==
    ASSUME NEW c \in Client, NEW req,
           \A d \in Client \ {c} : CallOf(d)' = CallOf(d),
           CallOf(c) = Called(req),
           CallOf(c)' = Done(req, HandleReply(list[Tail0], req)),
           list'[Tail0] = HandleList(list[Tail0], req), issued' = issued
    PROVE  OneList!Next
<1> DEFINE reply == HandleReply(list[Tail0], req)
<1>1. /\ calls' = [calls EXCEPT ![c] = Done(req, reply)]
      /\ calls[c] = Called(req)
  BY CallsExcept
<1>2. Done(req, reply) = [calls[c] EXCEPT !.pc = "done", !.reply = reply]
  BY <1>1, Outcomes
<1>3. calls[c].req = req /\ calls[c].pc = "called"
  BY <1>1 DEF Called
<1>4. /\ OneList!HandleList(list[Tail0], req) = list'[Tail0]
      /\ OneList!HandleReply(list[Tail0], req) = reply
  BY SameHandlers
<1> HIDE DEF reply
<1>5. OneList!Perform(c)
  BY <1>1, <1>2, <1>3, <1>4 DEF OneList!Perform, calls
<1> QED
  BY <1>5 DEF OneList!Next

\* It returns.
LEMMA SeenReturn ==
    ASSUME NEW c \in Client, NEW req, NEW reply,
           \A d \in Client \ {c} : CallOf(d)' = CallOf(d),
           CallOf(c) = Done(req, reply), CallOf(c)' = Waiting,
           list'[Tail0] = list[Tail0], issued' = issued
    PROVE  OneList!Next
<1>1. calls' = [calls EXCEPT ![c] = Waiting] /\ calls[c].pc = "done"
  BY CallsExcept DEF Done
<1>2. OneList!NoCall = Waiting
  BY DEF OneList!NoCall, Waiting, NoRequest, OneList!AnyData, AnyData,
         OneList!Data, Data, OneList!Ok, Ok
<1>3. OneList!Return(c)
  BY <1>1, <1>2 DEF OneList!Return, calls
<1> QED
  BY <1>3 DEF OneList!Next

\* Nothing happens that a client could see.
LEMMA SeenNothing ==
    ASSUME \A d \in Client : CallOf(d)' = CallOf(d),
           list'[Tail0] = list[Tail0], issued' = issued
    PROVE  UNCHANGED OneList!avars
BY DEF OneList!avars

-----------------------------------------------------------------------------
(* Every step of a steady chain is one of the abstract list, or none.      *)

\* A step of one client that is not forwarding, and of nobody else.
LEMMA OthersKept ==
    ASSUME SteadyInv, SteadyInv', NEW s \in Server, NEW c \in Client, NEW x,
           OneSet(s, c, x), conn[s][c].pc \notin Holding, x.pc \notin Holding
    PROVE  \A d \in Client \ {c} : CallOf(d)' = CallOf(d)
<1>1. \A r \in Server, u \in Thread :
         conn'[r][u] = IF r = s /\ u = c THEN x ELSE conn[r][u]
  BY DEF OneSet
<1>2. c \in Thread /\ c # Link /\ Link \in Thread
  BY ServerFacts
<1>3. AboveTail' <=> AboveTail
  BY <1>1, <1>2, AboveKept DEF SteadyInv, Holding
<1>4. ASSUME NEW d \in Client \ {c}
      PROVE  /\ conn'[Head0][d] = conn[Head0][d]
             /\ conn'[Tail0][d] = conn[Tail0][d]
  BY <1>1, ServerFacts
<1> QED
  BY <1>3, <1>4, CallKept

LEMMA SendsSeen ==
    ASSUME SteadyInv, SteadyInv', NEW c \in Client, NEW req \in Inputs,
           Sends(c, req)
    PROVE  OneList!Next
<1> DEFINE h == Target(req)
           x == Incoming(req, issued + 1)
<1>1. h \in {Head0, Tail0} /\ h \in Server /\ Head0 \in Server
      /\ Tail0 \in Server /\ c \in Thread
  BY ServerFacts DEF Target
<1>2. x.pc = "request" /\ x.req = req
  BY IncomingFields
<1>3. /\ OneSet(h, c, x)
      /\ conn[Head0][c].pc = "idle" /\ conn[Tail0][c].pc = "idle"
      /\ issued < MaxCommands /\ issued' = issued + 1 /\ list' = list
  BY DEF Sends
<1> HIDE DEF h, x
<1>4. \A r \in {Head0, Tail0} : r # h => conn'[r][c].pc = "idle"
  BY <1>1, <1>3 DEF OneSet
<1>5. conn'[h][c] = x
  BY <1>1, <1>3 DEF OneSet
<1>6. CallOf(c) = Waiting
  BY <1>1, <1>3, CallView DEF Calls
<1>7. CallOf(c)' = Called(req)
  BY <1>1, <1>2, <1>4, <1>5, CallViewNext DEF Calls
<1>8. conn[h][c].pc \notin Holding /\ x.pc \notin Holding
  BY <1>1, <1>2, <1>3 DEF Holding
<1>9. \A d \in Client \ {c} : CallOf(d)' = CallOf(d)
  BY <1>1, <1>3, <1>8, OthersKept
<1> QED
  BY <1>3, <1>6, <1>7, <1>9, SeenCall

LEMMA ReadsSeen ==
    ASSUME SteadyInv, SteadyInv', NEW s \in Server, NEW c \in Client,
           Reads(s, c), list' = list
    PROVE  OneList!Next
<1>1. OneSet(s, c, Idle) /\ conn[s][c].pc = "reply" /\ issued' = issued
  BY DEF Reads
<1>2. s \in {Head0, Tail0} /\ \A r \in Server : r # s => conn[r][c].pc = "idle"
  BY <1>1, Elsewhere
<1>3. Head0 \in Server /\ Tail0 \in Server /\ c \in Thread
  BY ServerFacts
<1>4. Idle.pc = "idle"
  BY DEF Idle
<1>5. CallOf(c) = Done(conn[s][c].req, conn[s][c].reply)
  BY <1>1, <1>2, <1>3, CallView DEF Calls
<1>6. \A r \in {Head0, Tail0} : conn'[r][c].pc = "idle"
  BY <1>1, <1>2, <1>3, <1>4 DEF OneSet
<1>7. CallOf(c)' = Waiting
  BY <1>6, CallViewNext DEF Calls
<1>8. \A d \in Client \ {c} : CallOf(d)' = CallOf(d)
  BY <1>1, <1>4, OthersKept DEF Holding
<1> QED
  BY <1>1, <1>5, <1>7, <1>8, SeenReturn

LEMMA PerformsSeen ==
    ASSUME SteadyInv, SteadyInv', NEW s \in Server, NEW c \in Client, NEW x,
           Performs(s, c, x)
    PROVE  OneList!Next
<1> DEFINE req == conn[s][c].req
<1>1. /\ OneSet(s, c, x) /\ conn[s][c].pc = "request" /\ owner[s] = {}
      /\ HandleList(list[s], req) = list[s]
      /\ x.pc = "reply" /\ x.req = req /\ x.reply = HandleReply(list[s], req)
      /\ list' = list /\ issued' = issued
  BY DEF Performs
<1>2. s \in {Head0, Tail0} /\ \A r \in Server : r # s => conn[r][c].pc = "idle"
  BY <1>1, Elsewhere
<1>3. Head0 \in Server /\ Tail0 \in Server /\ c \in Thread
  BY ServerFacts
<1>4. CallOf(c) = Called(req)
  BY <1>1, <1>2, <1>3, CallView DEF Calls
<1>5. /\ \A r \in {Head0, Tail0} : r # s => conn'[r][c].pc = "idle"
      /\ conn'[s][c] = x
  BY <1>1, <1>2, <1>3 DEF OneSet
<1>6. CallOf(c)' = Done(x.req, x.reply)
  BY <1>1, <1>2, <1>5, CallViewNext DEF Calls
<1>7. list[s] = list[Tail0]
  BY <1>1, <1>2, LevelLists
<1> HIDE DEF req
<1>8. \A d \in Client \ {c} : CallOf(d)' = CallOf(d)
  BY <1>1, OthersKept DEF Holding
<1> QED
  BY <1>1, <1>4, <1>6, <1>7, <1>8, SeenPerform

LEMMA EndsSeen ==
    ASSUME SteadyInv, SteadyInv', NEW t \in Thread, NEW x, Ends(t, x)
    PROVE  UNCHANGED OneList!avars
<1>1. /\ \A r \in Server, u \in Thread :
            conn'[r][u] = IF r = Tail0 /\ u = t THEN x ELSE conn[r][u]
      /\ conn[Tail0][t].pc = "forward"
      /\ x.pc = "reply" /\ x.req = conn[Tail0][t].req
      /\ x.reply = conn[Tail0][t].reply
      /\ list' = list /\ issued' = issued
  BY DEF Ends, OneSet
<1>2. Head0 \in Server /\ Tail0 \in Server /\ Link \in Thread
      /\ \A d \in Client : d \in Thread /\ d # Link
  BY ServerFacts
<1>3. t # Link => t \in Client /\ Head0 = Tail0
  <2>1. t # Link => t \in Client
    BY DEF Thread
  <2> QED
    BY <1>1, <1>2, <2>1, Elsewhere DEF Holding
<1>4. ~AboveTail
  BY <1>1, <1>2, <1>3, Reached DEF TailReached
<1>5. ~AboveTail'
  <2>1. t = Link => conn'[Tail0][Link].pc = "reply"
    BY <1>1, <1>2
  <2> QED
    BY <1>2, <1>3, <2>1, ReachedNext DEF TailReached
<1>6. ASSUME NEW d \in Client, d # t
      PROVE  CallOf(d)' = CallOf(d)
  <2>1. /\ conn'[Head0][d] = conn[Head0][d]
        /\ conn'[Tail0][d] = conn[Tail0][d]
    BY <1>1, <1>2, <1>6
  <2> QED
    BY <1>4, <1>5, <2>1, CallKept
<1>7. ASSUME NEW c \in Client, c = t
      PROVE  CallOf(c)' = CallOf(c)
  <2>1. Head0 = Tail0
    BY <1>2, <1>3, <1>7
  <2>2. CallOf(c) = Done(conn[Tail0][c].req, Ok)
    BY <1>1, <1>4, <1>7, <2>1, CallView DEF Calls, Holding
  <2>3. conn'[Tail0][c] = x
    BY <1>1, <1>2, <1>7
  <2>4. CallOf(c)' = Done(x.req, x.reply)
    BY <1>1, <2>1, <2>3, CallViewNext DEF Calls
  <2>5. x.reply = Ok
    BY <1>1, <1>2, <1>7 DEF SteadyInv, ClientInv, Holding
  <2> QED
    BY <1>1, <1>7, <2>2, <2>4, <2>5
<1> QED
  BY <1>1, <1>6, <1>7, SeenNothing

LEMMA HandsSeen ==
    ASSUME SteadyInv, SteadyInv', NEW s \in Server, NEW t \in Thread, NEW x,
           NEW y, Hands(s, t, x, y)
    PROVE  UNCHANGED OneList!avars
<1>1. /\ \A r \in Server, u \in Thread :
            conn'[r][u] = IF r = s + 1 /\ u = Link THEN y
                          ELSE IF r = s /\ u = t THEN x ELSE conn[r][u]
      /\ s # Tail0 /\ conn[s][t].pc = "forward"
      /\ x.pc = "await" /\ x.req = conn[s][t].req
      /\ y.pc = "request" /\ list' = list /\ issued' = issued
  BY DEF Hands, TwoSet
<1>2. /\ Head0 \in Server /\ Tail0 \in Server /\ Link \in Thread
      /\ s + 1 \in Server /\ s + 1 # s
      /\ \A d \in Client : d \in Thread /\ d # Link
  BY <1>1, ServerFacts, NextServer
<1>3. AboveTail
  BY <1>1 DEF AboveTail
<1>4. AboveTail'
  <2>1. conn'[s][t] = x /\ conn'[s + 1][Link] = y
    BY <1>1, <1>2
  <2> QED
    BY <1>1, <2>1 DEF AboveTail
<1>5. ASSUME NEW d \in Client, d # t
      PROVE  CallOf(d)' = CallOf(d)
  <2>1. /\ conn'[Head0][d] = conn[Head0][d]
        /\ conn'[Tail0][d] = conn[Tail0][d]
    BY <1>1, <1>2, <1>5
  <2> QED
    BY <1>3, <1>4, <2>1, CallKept
<1>6. ASSUME NEW c \in Client, c = t
      PROVE  CallOf(c)' = CallOf(c)
  <2>1. s = Head0 /\ \A r \in Server : r # s => conn[r][c].pc = "idle"
    BY <1>1, <1>6, Elsewhere DEF Holding
  <2>2. CallOf(c) = Called(conn[s][c].req)
    BY <1>1, <1>2, <1>3, <1>6, <2>1, CallView DEF Calls, Holding
  <2>3. /\ conn'[s][c] = x
        /\ \A r \in {Head0, Tail0} : r # s => conn'[r][c].pc = "idle"
    BY <1>1, <1>2, <1>6, <2>1
  <2>4. CallOf(c)' = Called(x.req)
    BY <1>1, <1>4, <2>1, <2>3, CallViewNext DEF Calls, Holding
  <2> QED
    BY <1>1, <1>6, <2>2, <2>4
<1> QED
  BY <1>1, <1>5, <1>6, SeenNothing

LEMMA ComesSeen ==
    ASSUME SteadyInv, SteadyInv', NEW s \in Server, NEW t \in Thread, NEW x,
           Comes(s, t, x)
    PROVE  UNCHANGED OneList!avars
<1>1. /\ \A r \in Server, u \in Thread :
            conn'[r][u] = IF r = s + 1 /\ u = Link THEN Idle
                          ELSE IF r = s /\ u = t THEN x ELSE conn[r][u]
      /\ s # Tail0 /\ conn[s][t].pc = "await"
      /\ conn[s + 1][Link].pc = "reply"
      /\ x.pc = "reply" /\ x.req = conn[s][t].req
      /\ x.reply = conn[s][t].reply
      /\ list' = list /\ issued' = issued
  BY DEF Comes, TwoSet
<1>2. /\ Head0 \in Server /\ Tail0 \in Server /\ Link \in Thread
      /\ s + 1 \in Server /\ s + 1 # s
      /\ \A d \in Client : d \in Thread /\ d # Link
  BY <1>1, ServerFacts, NextServer
<1>3. ~AboveTail
  BY <1>1, <1>2, Reached DEF TailReached
<1>4. t # Link => t \in Client /\ s = Head0
  <2>1. t # Link => t \in Client
    BY DEF Thread
  <2> QED
    BY <1>1, <2>1, Elsewhere DEF Holding
<1>5. ASSUME NEW d \in Client, d # t
      PROVE  CallOf(d)' = CallOf(d)
  <2>1. /\ conn'[Head0][d] = conn[Head0][d]
        /\ conn'[Tail0][d] = conn[Tail0][d]
    BY <1>1, <1>2, <1>5
  <2>2. CASE t = Link
    <3>1. conn'[s][Link].pc = "reply"
      BY <1>1, <1>2, <2>2
    <3>2. ~AboveTail'
      BY <3>1, ReachedNext DEF TailReached
    <3> QED
      BY <1>3, <2>1, <3>2, CallKept
  <2>3. CASE t # Link
    <3>1. ASSUME NEW r \in Server, conn[r][d].pc \in Holding
          PROVE  FALSE
      <4>1. r = Head0
        BY <3>1, Elsewhere DEF Holding
      <4> QED
        BY <1>1, <1>2, <1>4, <1>5, <2>3, <3>1, <4>1, OneWaits
        DEF SteadyInv, Holding
    <3> QED
      BY <1>2, <2>1, <3>1, CallKept
  <2> QED
    BY <2>2, <2>3
<1>6. ASSUME NEW c \in Client, c = t
      PROVE  CallOf(c)' = CallOf(c)
  <2>1. s = Head0 /\ \A r \in Server : r # s => conn[r][c].pc = "idle"
    BY <1>1, <1>6, Elsewhere DEF Holding
  <2>2. CallOf(c) = Done(conn[s][c].req, Ok)
    BY <1>1, <1>2, <1>3, <1>6, <2>1, CallView DEF Calls, Holding
  <2>3. /\ conn'[s][c] = x
        /\ \A r \in {Head0, Tail0} : r # s => conn'[r][c].pc = "idle"
    BY <1>1, <1>2, <1>6, <2>1
  <2>4. CallOf(c)' = Done(x.req, x.reply)
    BY <1>1, <2>1, <2>3, CallViewNext DEF Calls
  <2>5. x.reply = Ok
    BY <1>1, <1>6 DEF SteadyInv, ClientInv, Holding
  <2> QED
    BY <1>1, <1>6, <2>2, <2>4, <2>5
<1> QED
  BY <1>1, <1>5, <1>6, SeenNothing

\* A client's write takes effect when the tail executes it.
LEMMA WritesSeen ==
    ASSUME SteadyInv, SteadyInv', NEW s \in Server, NEW t \in Thread, NEW x,
           Writes(s, t, x)
    PROVE  OneList!Next \/ UNCHANGED OneList!avars
<1> DEFINE req == conn[s][t].req
<1>1. /\ \A r \in Server, u \in Thread :
            conn'[r][u] = IF r = s /\ u = t THEN x ELSE conn[r][u]
      /\ conn[s][t].pc = "request" /\ owner[s] = {}
      /\ Forwards(list[s], req)
      /\ x.pc = "forward" /\ x.req = req /\ x.reply = Ok
      /\ \A r \in Server :
            list'[r] = IF r = s THEN HandleList(list[s], req) ELSE list[r]
      /\ issued' = issued
  BY DEF Writes, OneSet
<1>2. /\ Head0 \in Server /\ Tail0 \in Server /\ Link \in Thread
      /\ \A d \in Client : d \in Thread /\ d # Link
  BY ServerFacts
<1>3. HandleReply(list[s], req) = Ok
  BY <1>1, WriteReply
<1>4. conn'[s][t] = x
  BY <1>1
<1> HIDE DEF req
<1>5. CASE t = Link /\ s = Tail0
  <2>1. Head0 # Tail0
    BY <1>1, <1>5 DEF SteadyInv, MutexHeldDownChain, LinkServesWaiter
  <2>2. AboveTail
    BY <1>1, <1>5, <2>1, WaitingClient
  <2>3. PICK c \in Client :
           /\ conn[Head0][c].pc = "await"
           /\ conn[Head0][c].req = req
           /\ \A d \in Client \ {c}, r \in Server :
                 conn[r][d].pc \notin Holding
    BY <1>1, <1>5, <2>1, WaitingClient DEF req
  <2>4. ~AboveTail'
    BY <1>1, <1>2, <1>4, <1>5, ReachedNext DEF TailReached
  <2>5. \A d \in Client : /\ conn'[Head0][d] = conn[Head0][d]
                          /\ conn'[Tail0][d] = conn[Tail0][d]
    BY <1>1, <1>2, <1>5
  <2>6. \A r \in Server : r # Head0 => conn[r][c].pc = "idle"
    BY <1>2, <2>3, Elsewhere
  <2>7. CallOf(c) = Called(req)
    BY <1>2, <2>2, <2>3, <2>6, CallView DEF Calls, Holding
  <2>8. CallOf(c)' = Done(req, Ok)
    BY <1>2, <2>3, <2>4, <2>5, <2>6, CallViewNext DEF Calls, Holding
  <2>9. \A d \in Client \ {c} : CallOf(d)' = CallOf(d)
    BY <1>2, <2>3, <2>5, CallKept
  <2> QED
    BY <1>1, <1>2, <1>3, <1>5, <2>7, <2>8, <2>9, SeenPerform
<1>6. CASE t = Link /\ s # Tail0
  <2>1. AboveTail
    <3>1. s # Head0
      BY <1>1, <1>6 DEF SteadyInv, MutexHeldDownChain, LinkServesWaiter
    <3> DEFINE p == s - 1
    <3>2. p \in Server \ {Tail0} /\ p + 1 = s
      BY <3>1, ServerFacts
    <3> HIDE DEF p
    <3>3. PICK u \in Thread : conn[p][u].pc = "await"
      BY <1>1, <1>6, <3>2 DEF SteadyInv, MutexHeldDownChain, LinkServesWaiter
    <3> QED
      BY <1>1, <1>6, <3>2, <3>3 DEF AboveTail
  <2>2. AboveTail'
    BY <1>1, <1>4, <1>6 DEF AboveTail
  <2>3. \A d \in Client : /\ conn'[Head0][d] = conn[Head0][d]
                          /\ conn'[Tail0][d] = conn[Tail0][d]
    BY <1>1, <1>2, <1>6
  <2>4. \A d \in Client : CallOf(d)' = CallOf(d)
    BY <2>1, <2>2, <2>3, CallKept
  <2> QED
    BY <1>1, <1>2, <1>6, <2>4, SeenNothing
<1>7. CASE t # Link
  <2>1. t \in Client
    BY <1>7 DEF Thread
  <2>2. IsWriteOp(req)
    BY <1>1 DEF Forwards
  <2>3. s = Head0 /\ \A r \in Server : r # s => conn[r][t].pc = "idle"
    BY <1>1, <2>1, <2>2, Elsewhere DEF req
  <2>4. CallOf(t) = Called(req)
    BY <1>1, <1>2, <2>1, <2>3, CallView DEF Calls, req
  <2>5. \A r \in {Head0, Tail0} : r # s => conn'[r][t].pc = "idle"
    BY <1>1, <1>2, <2>3
  <2>6. ASSUME NEW d \in Client \ {t}
        PROVE  CallOf(d)' = CallOf(d)
    <3>1. /\ conn'[Head0][d] = conn[Head0][d]
          /\ conn'[Tail0][d] = conn[Tail0][d]
      BY <1>1, <1>2
    <3>2. ASSUME NEW r \in Server, conn[r][d].pc \in Holding
          PROVE  FALSE
      <4>1. r = Head0
        BY <3>2, Elsewhere DEF Holding
      <4>2. d \in owner[r]
        BY <1>2, <3>2 DEF SteadyInv, MutexHeldDownChain, HoldersForward
      <4> QED
        BY <1>1, <2>3, <4>1, <4>2
    <3> QED
      BY <1>2, <3>1, <3>2, CallKept
  <2>7. CASE Head0 = Tail0
    <3>1. ~AboveTail'
      BY <2>7, ReachedNext DEF TailReached
    <3>2. CallOf(t)' = Done(req, Ok)
      BY <1>1, <1>4, <2>1, <2>3, <2>5, <3>1, CallViewNext DEF Calls, Holding
    <3> QED
      BY <1>1, <1>2, <1>3, <2>1, <2>3, <2>4, <2>6, <2>7, <3>2, SeenPerform
  <2>8. CASE Head0 # Tail0
    <3>1. AboveTail'
      BY <1>1, <1>4, <2>3, <2>8 DEF AboveTail
    <3>2. CallOf(t)' = Called(req)
      BY <1>1, <1>4, <2>1, <2>3, <2>5, <3>1, CallViewNext DEF Calls, Holding
    <3>3. \A d \in Client : CallOf(d)' = CallOf(d)
      BY <2>4, <2>6, <3>2
    <3> QED
      BY <1>1, <1>2, <2>3, <2>8, <3>3, SeenNothing
  <2> QED
    BY <2>7, <2>8
<1> QED
  BY <1>5, <1>6, <1>7

LEMMA StepSeen ==
    ASSUME Steady, SteadyInv, SteadyInv', [Next]_vars
    PROVE  [OneList!Next]_(OneList!avars)
<1>1. CASE UNCHANGED vars
  <2>1. \A d \in Client : CallOf(d)' = CallOf(d)
    BY <1>1 DEF vars, CallOf, AboveTail
  <2> QED
    BY <1>1, <2>1, SeenNothing DEF vars
<1>2. CASE \E c \in Client, req \in Inputs : Sends(c, req)
  BY <1>2, SendsSeen
<1>3. CASE \E s \in Server, c \in Client : Reads(s, c) /\ list' = list
  BY <1>3, ReadsSeen
<1>4. CASE \E s \in Server, t \in Thread : \E x : Writes(s, t, x)
  BY <1>4, WritesSeen
<1>5. CASE \E s \in Server, t \in Thread : \E x : Comes(s, t, x)
  BY <1>5, ComesSeen
<1>6. CASE \E s \in Server, c \in Client : \E x : Performs(s, c, x)
  BY <1>6, PerformsSeen
<1>7. CASE \E t \in Thread : \E x : Ends(t, x)
  BY <1>7, EndsSeen
<1>8. CASE \E s \in Server, t \in Thread : \E x, y : Hands(s, t, x, y)
  BY <1>8, HandsSeen
<1>9. TypeOK /\ MutexHeldDownChain /\ InStepInv(Equal)
  BY DEF SteadyInv
<1> QED
  BY <1>1, <1>2, <1>3, <1>4, <1>5, <1>6, <1>7, <1>8, <1>9, SteadySteps

LEMMA InitSeen ==
    ASSUME Init
    PROVE  OneList!Init
<1>1. \A c \in Client : CallOf(c) = Waiting
  <2>1. ASSUME NEW c \in Client
        PROVE  conn[Head0][c] = Idle /\ conn[Tail0][c] = Idle
    BY ServerFacts DEF Init
  <2>2. Idle.pc = "idle" /\ Idle.req = NoRequest /\ Idle.reply = Ok
    BY DEF Idle
  <2> QED
    BY <2>1, <2>2 DEF CallOf, Waiting, Holding
<1>2. OneList!NoCall = Waiting
  BY DEF OneList!NoCall, Waiting, NoRequest, OneList!AnyData, AnyData,
         OneList!Data, Data, OneList!Ok, Ok
<1>3. list[Tail0] = <<>> /\ issued = 0
  BY ServerFacts DEF Init
<1> QED
  BY <1>1, <1>2, <1>3 DEF OneList!Init

\* For any number of servers and clients: as long as no connection is lost and
\* nobody asks for the ordered list, what the clients of the chain see, call by
\* call, they could have seen of the one remote list of client_stub.h.  The
\* list is that of the tail; a write takes effect when the tail runs its
\* handler, any other command when its own server does.
THEOREM OneListTheorem == Steady => (Spec => OneList!Spec)
<1> SUFFICES ASSUME Steady PROVE Spec => OneList!Spec
  OBVIOUS
<1>1. Init => SteadyInv
  BY SteadyInit
<1>2. SteadyInv /\ [Next]_vars => SteadyInv'
  BY SteadyNext
<1>3. Init => OneList!Init
  BY InitSeen
<1>4. SteadyInv /\ SteadyInv' /\ [Next]_vars => [OneList!Next]_(OneList!avars)
  BY StepSeen
<1> QED
  BY <1>1, <1>2, <1>3, <1>4, PTL DEF Spec, OneList!Spec

=============================================================================
