---------------------------- MODULE ChainForward ----------------------------
(***************************************************************************)
(* Commands travelling down a chain of servers whose membership is fixed:  *)
(* client stubs, the connection threads of network_server.c, `invoke` of   *)
(* list_skel.c under list_mutex and `zk_forward` of zk_server.c.           *)
(*                                                                         *)
(* Server 0 is the head, server N - 1 the tail.  Every client has a        *)
(* connection to the head and one to the tail, one thread serving each;    *)
(* every server but the head has a thread, Link, that serves its           *)
(* predecessor.  A server that forwards a write keeps list_mutex until its *)
(* successor has answered.                                                 *)
(*                                                                         *)
(* The successor connection of a server can be missing although there is a *)
(* successor (zk_update_chain_internal gives up after five attempts), and  *)
(* a later update of the topology can lose it or find it again.  Updates   *)
(* that replace a connection while zk_forward uses it, crashes and joins   *)
(* are not in this module.                                                 *)
(***************************************************************************)
EXTENDS CarList

CONSTANTS
    N,              \* servers in the chain
    Client,         \* client programs
    Link,           \* names the thread that serves the predecessor
    Inputs,         \* the requests the clients make
    MaxCommands,    \* bound: commands issued by all clients together
    MaxUpdates      \* bound: changes of a successor connection

ASSUME ChainAssumption ==
    /\ N \in Nat \ {0}
    /\ Link \notin Client
    /\ Inputs \subseteq Request
    /\ MaxCommands \in Nat
    /\ MaxUpdates \in Nat

Server == 0..(N - 1)
Head0 == 0
Tail0 == N - 1
Thread == Client \cup {Link}
Id == 1..MaxCommands

VARIABLES
    list,       \* list[s]: the list of server s
    owner,      \* owner[s]: the threads holding list_mutex (none or one)
    conn,       \* conn[s][t]: a connection and the thread that serves it
    successor,  \* successor[s]: zk_state.successor is not NULL
    issued,     \* commands issued so far
    updates,    \* topology updates so far
    applied     \* history: how often server s executed write number id

vars == <<list, owner, conn, successor, issued, updates, applied>>

(***************************************************************************)
(* A connection is                                                         *)
(*   idle     the server waits in network_receive                          *)
(*   request  a request is on its way to invoke, or waits for list_mutex   *)
(*   forward  the handler is done, zk_forward is about to try (mutex held) *)
(*   await    zk_forward waits for the successor's answer (mutex held)     *)
(*   reply    list_mutex is released, the reply is on its way              *)
(***************************************************************************)
Connection ==
    [pc : {"idle", "request", "forward", "await", "reply"},
     req : Request, id : 0..MaxCommands, attempt : 0..1, reply : Reply]

AnyData == CHOOSE d \in Data : TRUE
NoRequest == [opcode |-> "SIZE", data |-> AnyData]

Idle == [pc |-> "idle", req |-> NoRequest, id |-> 0, attempt |-> 0,
         reply |-> Ok]

Incoming(req, id) == [Idle EXCEPT !.pc = "request", !.req = req, !.id = id]

Holding == {"forward", "await"}

TypeOK ==
    /\ list \in [Server -> Seq(Data)]
    /\ owner \in [Server -> SUBSET Thread]
    /\ conn \in [Server -> [Thread -> Connection]]
    /\ successor \in [Server -> BOOLEAN]
    /\ issued \in 0..MaxCommands
    /\ updates \in 0..MaxUpdates
    /\ applied \in [Server -> [Id -> Nat]]

Init ==
    /\ list = [s \in Server |-> <<>>]
    /\ owner = [s \in Server |-> {}]
    /\ conn = [s \in Server |-> [t \in Thread |-> Idle]]
    /\ successor = [s \in Server |-> s < Tail0]
    /\ issued = 0
    /\ updates = 0
    /\ applied = [s \in Server |-> [i \in Id |-> 0]]

-----------------------------------------------------------------------------
(***************************************************************************)
(* Clients.  list_client.c sends writes and get_list_ordered_by_year to    *)
(* the head and the other reads to the tail, and runs one command at a     *)
(* time: the stub blocks in network_send_receive.                          *)
(***************************************************************************)
Target(req) ==
    IF IsWriteOp(req) \/ req.opcode = "GETLISTBYYEAR" THEN Head0 ELSE Tail0

Send(c, req) ==
    /\ issued < MaxCommands
    /\ conn[Head0][c].pc = "idle"
    /\ conn[Tail0][c].pc = "idle"
    /\ issued' = issued + 1
    /\ conn' = [conn EXCEPT ![Target(req)][c] = Incoming(req, issued + 1)]
    /\ UNCHANGED <<list, owner, successor, updates, applied>>

Receive(s, c) ==
    /\ conn[s][c].pc = "reply"
    /\ conn' = [conn EXCEPT ![s][c] = Idle]
    /\ UNCHANGED <<list, owner, successor, issued, updates, applied>>

(***************************************************************************)
(* serve_client and invoke.  The thread takes list_mutex, runs the         *)
(* handler, and forwards what is a write and did not fail; anything else   *)
(* is answered at once and the mutex released.                             *)
(***************************************************************************)
Forwards(l, req) == IsWriteOp(req) /\ HandleReply(l, req).opcode = "OK"

\* Mutant: the thread does not wait for list_mutex.
InvokeUnlocked(s, t) ==
    LET c == conn[s][t]
        reply == HandleReply(list[s], c.req)
        next == IF Forwards(list[s], c.req) THEN "forward" ELSE "reply"
    IN
    /\ c.pc = "request"
    /\ list' = [list EXCEPT ![s] = HandleList(list[s], c.req)]
    /\ owner' = [owner EXCEPT ![s] = IF next = "forward" THEN {t} ELSE {}]
    /\ conn' = [conn EXCEPT
                  ![s][t] = [c EXCEPT !.pc = next, !.reply = reply]]
    /\ applied' = [applied EXCEPT
                     ![s] = IF next = "forward"
                            THEN [@ EXCEPT ![c.id] = @ + 1] ELSE @]
    /\ UNCHANGED <<successor, issued, updates>>

Invoke(s, t) ==
    LET c == conn[s][t]
        reply == HandleReply(list[s], c.req)
    IN
    /\ c.pc = "request"
    /\ owner[s] = {}
    /\ list' = [list EXCEPT ![s] = HandleList(list[s], c.req)]
    /\ IF Forwards(list[s], c.req)
       THEN /\ owner' = [owner EXCEPT ![s] = {t}]
            /\ conn' = [conn EXCEPT
                          ![s][t] = [c EXCEPT !.pc = "forward", !.reply = reply]]
            /\ applied' = [applied EXCEPT ![s][c.id] = @ + 1]
       ELSE /\ conn' = [conn EXCEPT
                          ![s][t] = [c EXCEPT !.pc = "reply", !.reply = reply]]
            /\ UNCHANGED <<owner, applied>>
    /\ UNCHANGED <<successor, issued, updates>>

(***************************************************************************)
(* zk_forward, called with list_mutex held.                                *)
(***************************************************************************)

\* invoke leaves: list_mutex is released, the reply goes out.
Answer(s, t, reply) ==
    /\ owner' = [owner EXCEPT ![s] = {}]
    /\ conn' = [conn EXCEPT
                  ![s][t] = [@ EXCEPT !.pc = "reply", !.reply = reply]]
    /\ UNCHANGED <<list, successor, issued, updates, applied>>

\* The last server has nobody to forward to.
ForwardNothing(s, t) ==
    /\ conn[s][t].pc = "forward"
    /\ s = Tail0
    /\ Answer(s, t, conn[s][t].reply)

\* Mutant: a missing connection counts as success.
ForwardUnconnectedOk(s, t) ==
    /\ conn[s][t].pc = "forward"
    /\ s # Tail0
    /\ ~successor[s]
    /\ Answer(s, t, conn[s][t].reply)

\* There is a successor but no connection to it: no retry.
ForwardUnconnected(s, t) ==
    /\ conn[s][t].pc = "forward"
    /\ s # Tail0
    /\ ~successor[s]
    /\ Answer(s, t, Error)

\* Mutant: the message is sent on and the client answered at once.
ForwardAndForget(s, t) ==
    LET c == conn[s][t] IN
    /\ c.pc = "forward"
    /\ s # Tail0
    /\ successor[s]
    /\ conn[s + 1][Link].pc = "idle"
    /\ owner' = [owner EXCEPT ![s] = {}]
    /\ conn' = [conn EXCEPT ![s][t] = [c EXCEPT !.pc = "reply"],
                            ![s + 1][Link] = Incoming(c.req, c.id)]
    /\ UNCHANGED <<list, successor, issued, updates, applied>>

ForwardSend(s, t) ==
    LET c == conn[s][t] IN
    /\ c.pc = "forward"
    /\ s # Tail0
    /\ successor[s]
    /\ conn' = [conn EXCEPT ![s][t] = [c EXCEPT !.pc = "await"],
                            ![s + 1][Link] = Incoming(c.req, c.id)]
    /\ UNCHANGED <<list, owner, successor, issued, updates, applied>>

\* The successor's answer to the thread that waits for it.
Answered(s, t) ==
    /\ conn[s][t].pc = "await"
    /\ conn[s + 1][Link].pc = "reply"

ForwardOk(s, t) ==
    LET c == conn[s][t] IN
    /\ Answered(s, t)
    /\ conn[s + 1][Link].reply.opcode = "OK"
    /\ owner' = [owner EXCEPT ![s] = {}]
    /\ conn' = [conn EXCEPT ![s][t] = [c EXCEPT !.pc = "reply"],
                            ![s + 1][Link] = Idle]
    /\ UNCHANGED <<list, successor, issued, updates, applied>>

\* Mutant: one attempt too many.
ForwardRetryTwice(s, t) ==
    LET c == conn[s][t] IN
    /\ Answered(s, t)
    /\ conn[s + 1][Link].reply.opcode # "OK"
    /\ c.attempt <= 1
    /\ conn' = [conn EXCEPT
                  ![s][t] = [c EXCEPT !.pc = "forward",
                                      !.attempt = c.attempt + 1],
                  ![s + 1][Link] = Idle]
    /\ UNCHANGED <<list, owner, successor, issued, updates, applied>>

\* Any other opcode: one more attempt, with the same message.
ForwardRetry(s, t) ==
    LET c == conn[s][t] IN
    /\ Answered(s, t)
    /\ conn[s + 1][Link].reply.opcode # "OK"
    /\ c.attempt = 0
    /\ conn' = [conn EXCEPT
                  ![s][t] = [c EXCEPT !.pc = "forward", !.attempt = 1],
                  ![s + 1][Link] = Idle]
    /\ UNCHANGED <<list, owner, successor, issued, updates, applied>>

\* Mutant: invoke returns early, without the unlock.
ForwardFailLocked(s, t) ==
    LET c == conn[s][t] IN
    /\ Answered(s, t)
    /\ conn[s + 1][Link].reply.opcode # "OK"
    /\ c.attempt = 1
    /\ conn' = [conn EXCEPT
                  ![s][t] = [c EXCEPT !.pc = "reply", !.reply = Error],
                  ![s + 1][Link] = Idle]
    /\ UNCHANGED <<list, owner, successor, issued, updates, applied>>

ForwardFail(s, t) ==
    LET c == conn[s][t] IN
    /\ Answered(s, t)
    /\ conn[s + 1][Link].reply.opcode # "OK"
    /\ c.attempt = 1
    /\ owner' = [owner EXCEPT ![s] = {}]
    /\ conn' = [conn EXCEPT
                  ![s][t] = [c EXCEPT !.pc = "reply", !.reply = Error],
                  ![s + 1][Link] = Idle]
    /\ UNCHANGED <<list, successor, issued, updates, applied>>

(***************************************************************************)
(* zk_update_chain_internal on a server of a chain with the same members:  *)
(* it makes a new successor connection, or fails to, and drops the old one.*)
(* (The swap while zk_forward waits on the old connection is left out.)    *)
(***************************************************************************)
UpdateChain(s) ==
    /\ updates < MaxUpdates
    /\ s # Tail0
    /\ \A t \in Thread : conn[s][t].pc # "await"
    /\ updates' = updates + 1
    /\ successor' = [successor EXCEPT ![s] = ~@]
    /\ UNCHANGED <<list, owner, conn, issued, applied>>

-----------------------------------------------------------------------------

Serve(s, t) ==
    \/ Invoke(s, t)
    \/ ForwardNothing(s, t)
    \/ ForwardUnconnected(s, t)
    \/ ForwardSend(s, t)
    \/ ForwardOk(s, t)
    \/ ForwardRetry(s, t)
    \/ ForwardFail(s, t)

Next ==
    \/ \E c \in Client, req \in Inputs : Send(c, req)
    \/ \E s \in Server, c \in Client : Receive(s, c)
    \/ \E s \in Server, t \in Thread : Serve(s, t)
    \/ \E s \in Server : UpdateChain(s)

\* Threads keep running and a client reads the answer it waits for.  Nobody
\* has to issue a command, and the topology need not change.
Fairness ==
    /\ \A s \in Server, t \in Thread : WF_vars(Serve(s, t))
    /\ \A s \in Server, c \in Client : WF_vars(Receive(s, c))

Spec == Init /\ [][Next]_vars

FairSpec == Spec /\ Fairness

-----------------------------------------------------------------------------
(***************************************************************************)
(* Properties.                                                             *)
(***************************************************************************)

\* The write of thread t at server s has been executed there and has not
\* reached the list of server s + 1 yet.
Ahead(s, t) ==
    \/ conn[s][t].pc = "forward"
    \/ conn[s][t].pc = "await" /\ conn[s + 1][Link].pc = "request"

\* The threads that have executed a write and wait for the rest of the chain
\* are the holders of list_mutex.
HoldersForward ==
    \A s \in Server, t \in Thread : t \in owner[s] <=> conn[s][t].pc \in Holding

OneHolder == \A s \in Server : \A t, u \in owner[s] : t = u

\* The Link thread is busy exactly while the predecessor waits for it.
LinkServesWaiter ==
    /\ conn[Head0][Link].pc = "idle"
    /\ \A t \in Thread : conn[Tail0][t].pc # "await"
    /\ \A s \in Server \ {Tail0} :
          conn[s + 1][Link].pc # "idle" <=>
             \E t \in Thread : conn[s][t].pc = "await"

\* It works on the write the predecessor forwards.
SameWrite ==
    \A s \in Server \ {Tail0}, t \in Thread :
        conn[s][t].pc = "await" =>
            /\ conn[s + 1][Link].req = conn[s][t].req
            /\ conn[s + 1][Link].id = conn[s][t].id

\* invoke holds list_mutex across zk_forward, so a write holds one list_mutex
\* after the other down the chain, with one write at a time on every link.
MutexHeldDownChain ==
    HoldersForward /\ OneHolder /\ LinkServesWaiter /\ SameWrite

\* Neighbours hold the same list, except that a server is one write ahead of
\* its successor from the moment its handler ran until the successor's did:
\* what zk_forward is for.  It needs that nobody asks for the ordered list
\* (the head alone is sorted) and that no connection gets lost.
ReplicasInStep ==
    \A s \in Server \ {Tail0} :
        IF \E t \in Thread : Ahead(s, t)
        THEN \A t \in Thread : Ahead(s, t) =>
               list[s] = HandleList(list[s + 1], conn[s][t].req)
        ELSE list[s] = list[s + 1]

\* Sorting the head moves cars about but neither adds nor removes any: with
\* get_list_ordered_by_year allowed, neighbours still hold as many cars of
\* every model, so a remove the head could execute never fails further down.
\* It holds as long as no connection was lost.
SameModels(k, l) ==
    \A modelo \in Modelo :
        Cardinality(WithModelo(k, modelo)) = Cardinality(WithModelo(l, modelo))

ModelsInStep ==
    updates = 0 =>
    \A s \in Server \ {Tail0} :
        IF \E t \in Thread : Ahead(s, t)
        THEN \A t \in Thread : Ahead(s, t) =>
               SameModels(list[s], HandleList(list[s + 1], conn[s][t].req))
        ELSE SameModels(list[s], list[s + 1])

\* The answer OK to a write means that every server of the chain has executed
\* it: `invoke` answers only after zk_forward, which reports success only from
\* the end of the chain.  It holds for broken connections and retries too.
OkMeansEverywhere ==
    \A c \in Client :
        LET a == conn[Head0][c] IN
        (a.pc = "reply" /\ IsWriteOp(a.req) /\ a.reply.opcode = "OK") =>
            \A s \in Server : applied[s][a.id] >= 1

\* Retries multiply: a server sends a write at most twice for each time it
\* executed it, so server number s executes it up to 2^s times.  The last one
\* answers OK to the first copy it executes, and nobody retries an OK.
RetryBound ==
    \A i \in Id :
        /\ applied[Head0][i] <= 1
        /\ \A s \in Server \ {Tail0} :
              applied[s + 1][i] <= 2 * applied[s][i]
        /\ applied[Tail0][i] <= 1

\* What list_client.c:328 says of a command that failed: "Quaisquer operacoes
\* foram descartadas".  A write that is answered with an error has been
\* executed nowhere.
ErrorMeansDiscarded ==
    \A c \in Client :
        LET a == conn[Head0][c] IN
        (a.pc = "reply" /\ IsWriteOp(a.req) /\ a.reply.opcode = "ERROR") =>
            \A s \in Server : applied[s][a.id] = 0

\* What client_stub.c:90 says of rlist_add: it adds one car.  A write that is
\* answered OK has been executed once by every server.
OkMeansOnce ==
    \A c \in Client :
        LET a == conn[Head0][c] IN
        (a.pc = "reply" /\ IsWriteOp(a.req) /\ a.reply.opcode = "OK") =>
            \A s \in Server : applied[s][a.id] = 1

\* What list_skel.c:247 says of a change of the list: it is forwarded to the
\* chain.  When no server holds its list_mutex all of them have the same list.
ReplicasAgree ==
    (\A s \in Server : owner[s] = {}) =>
        \A s, r \in Server : list[s] = list[r]

\* Every command is answered, with whatever broken connections and retries:
\* nobody waits for ever for a list_mutex or for a successor.
CommandsReturn ==
    \A s \in Server, c \in Client :
        conn[s][c].pc = "request" ~> conn[s][c].pc = "idle"

-----------------------------------------------------------------------------
(***************************************************************************)
(* The chain implements one list.  A write takes effect when the tail      *)
(* executes it, everything else when its server does.                      *)
(***************************************************************************)

\* The write on its way down has not been executed by the tail.
AboveTail ==
    \E s \in Server, t \in Thread :
        \/ conn[s][t].pc = "forward" /\ s # Tail0
        \/ conn[s][t].pc = "await" /\ conn[s + 1][Link].pc = "request"

CallOf(c) ==
    LET s == IF conn[Head0][c].pc # "idle" THEN Head0 ELSE Tail0
        a == conn[s][c]
    IN  [pc |-> CASE a.pc = "idle" -> "idle"
                  [] a.pc = "request" -> "called"
                  [] a.pc \in Holding /\ AboveTail -> "called"
                  [] OTHER -> "done",
         req |-> a.req,
         reply |-> IF a.pc \in Holding /\ AboveTail THEN Ok ELSE a.reply]

OneList == INSTANCE AtomicList WITH
    cars <- list[Tail0],
    call <- [c \in Client |-> CallOf(c)],
    calls <- issued

\* Every command takes effect at one instant between its call and its return
\* and is answered: the chain is linearizable although a write is executed by
\* N servers and reads are served by the tail alone.
Linearizable == OneList!FairSpec

=============================================================================
