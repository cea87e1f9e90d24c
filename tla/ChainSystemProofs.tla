------------------------- MODULE ChainSystemProofs -------------------------
(***************************************************************************)
(* Proofs about ChainSystem for any number of servers, of writes and of    *)
(* faults, whoever joins, crashes or is given up: type correctness, that a *)
(* server has executed what the servers behind it have, and that a write   *)
(* that is answered OK is at the servers it was to get to.                 *)
(***************************************************************************)
EXTENDS ChainSystem, NaturalsInduction, WellFoundedInduction, TLAPS

-----------------------------------------------------------------------------
(* The order of the chain. *)

LEMMA Numbers ==
    /\ Server \subseteq Nat /\ (\A s \in Server : s \in Nat)
    /\ NULL \notin Server /\ Client \notin Server
    /\ Write \subseteq Nat /\ NULL \notin Write
BY SystemAssumption DEF Server, Write, NULL, Client

\* A set of natural numbers that is not empty has a least element.
LEMMA LeastNumber ==
    ASSUME NEW S \in SUBSET Nat, S # {}
    PROVE  \E m \in S : \A j \in S : m <= j
<1>1. PICK m \in S : \A j \in S : <<j, m>> \notin OpToRel(<, Nat)
  BY NatLessThanWellFounded, WFMin
<1>2. \A j \in S : ~(j < m)
  BY <1>1 DEF OpToRel
<1> QED
  BY <1>2

\* SuccessorIn returns the next server of the set, or none.
LEMMA Successor ==
    ASSUME NEW S \in SUBSET Server, NEW s \in Server
    PROVE  /\ SuccessorIn(S, s) \in After(S, s) \cup {NULL}
           /\ SuccessorIn(S, s) # NULL =>
                \A q \in After(S, s) : SuccessorIn(S, s) <= q
           /\ SuccessorIn(S, s) = NULL => After(S, s) = {}
<1>1. CASE After(S, s) = {}
  BY <1>1 DEF SuccessorIn
<1>2. CASE After(S, s) # {}
  <2>1. After(S, s) \in SUBSET Server
    BY DEF After
  <2>2. \E r \in After(S, s) : \A q \in After(S, s) : r <= q
    BY <1>2, <2>1, Numbers, LeastNumber
  <2>3. /\ SuccessorIn(S, s) \in After(S, s)
        /\ \A q \in After(S, s) : SuccessorIn(S, s) <= q
    BY <1>2, <2>2 DEF SuccessorIn
  <2> QED
    BY <2>1, <2>3, Numbers
<1> QED
  BY <1>1, <1>2

\* PredecessorIn returns the last server of the set before this one, or none.
LEMMA Predecessor ==
    ASSUME NEW S \in SUBSET Server, NEW s \in Server
    PROVE  /\ PredecessorIn(S, s) \in Before(S, s) \cup {NULL}
           /\ PredecessorIn(S, s) # NULL =>
                \A q \in Before(S, s) : PredecessorIn(S, s) >= q
<1>1. CASE Before(S, s) = {}
  BY <1>1 DEF PredecessorIn
<1>2. CASE Before(S, s) # {}
  <2> DEFINE Distance == {s - r : r \in Before(S, s)}
  <2>1. \A r \in Before(S, s) : r \in Nat /\ s - r \in Nat
    BY Numbers DEF Before
  <2>2. Distance \in SUBSET Nat /\ Distance # {}
    BY <1>2, <2>1
  <2>3. PICK d \in Distance : \A e \in Distance : d <= e
    <3> HIDE DEF Distance
    <3> QED
      BY <2>2, LeastNumber
  <2>4. PICK r \in Before(S, s) : d = s - r
    BY <2>3
  <2>5. \A q \in Before(S, s) : s - r <= s - q
    BY <2>3, <2>4
  <2>6. \A q \in Before(S, s) : r >= q
    BY <2>1, <2>5, Numbers
  <2> QED
    BY <1>2, <2>4, <2>6 DEF PredecessorIn
<1> QED
  BY <1>1, <1>2

-----------------------------------------------------------------------------
(* The inductive invariant.                                                 *)

\* Servers start in the order of their numbers; one that has not started is
\* not known, and one that has not copied has nothing.
OffInv ==
    /\ \A s, r \in Server : s < r /\ life[s] = "off" => life[r] = "off"
    /\ \A s \in Server :
          life[s] = "off" => s \notin znodes /\ inbox[s] = {}
    /\ \A s \in Server : life[s] \notin {"copied", "ready"} => list[s] = {}

\* A write is executed before it is forwarded.
WorkInv == \A s \in Server : work[s].pc # "idle" => work[s].id \in list[s]

\* Whoever reads the chain sees all servers up to the last one it sees: new
\* ones are behind them.
Complete(S) ==
    /\ \A n \in S : life[n] # "off"
    /\ \A q \in znodes, n \in S : q < n => q \in S

UpdateInv == \A s \in Server : update[s].busy => Complete(update[s].nodes)

\* So nobody in the chain is between a server and its successor, however old
\* the connection is, or between a new server and the one it copies.
Adjacent(p, r) == p < r /\ \A q \in znodes : ~(p < q /\ q < r)

LinkInv ==
    \A s \in Server :
       view[s].link # NULL =>
          life[view[s].link] # "off" /\ Adjacent(s, view[s].link)

CopyInv ==
    \A s \in Server :
       life[s] = "joining" /\ view[s].predecessor # NULL =>
          Adjacent(view[s].predecessor, s)

\* What a server has, or is about to execute, the servers of the chain before
\* it have, unless a client sent it past them.
Alive(s) == s \in znodes /\ Running(s)

ListInv ==
    \A s, r \in Server :
       s < r /\ Alive(s) => list[r] \ astray \subseteq list[s]

InboxInv ==
    \A r \in Server : \A m \in inbox[r] :
       m.id \notin astray =>
          \A s \in Server : s < r /\ Alive(s) => m.id \in list[s]

Rest ==
    /\ OffInv /\ WorkInv /\ UpdateInv /\ LinkInv /\ CopyInv
    /\ ListInv /\ InboxInv

-----------------------------------------------------------------------------
(* Type correctness. *)

\* What the steps of invoke make of its state.
LEMMA WorkType ==
    ASSUME NEW u \in Work
    PROVE  /\ u.from \in Server \cup {Client} /\ u.id \in Write \cup {NULL}
           /\ u.as \in 1..2 /\ u.attempt \in 1..2
           /\ Idle \in Work
           /\ \A p \in {"ok", "error", "lost", "stuck"} :
                [u EXCEPT !.pc = p] \in Work
           /\ \A b \in BOOLEAN : [u EXCEPT !.stale = b] \in Work
           /\ \A r \in Server :
                [u EXCEPT !.pc = "await", !.target = r, !.stale = FALSE]
                  \in Work
           /\ [u EXCEPT !.pc = "forward", !.attempt = 2, !.target = NULL]
                \in Work
           /\ \A f \in Server \cup {Client}, i \in Write, a \in 1..2 :
                [Idle EXCEPT !.pc = "forward", !.from = f, !.id = i, !.as = a]
                  \in Work
<1>1. /\ u.from \in Server \cup {Client} /\ u.id \in Write \cup {NULL}
      /\ u.as \in 1..2 /\ u.attempt \in 1..2
  BY DEF Work
<1>2. Idle \in Work
  BY DEF Work, Idle
<1>3. \A p \in {"ok", "error", "lost", "stuck"} : [u EXCEPT !.pc = p] \in Work
  BY DEF Work
<1>4. \A b \in BOOLEAN : [u EXCEPT !.stale = b] \in Work
  BY DEF Work
<1>5. \A r \in Server :
        [u EXCEPT !.pc = "await", !.target = r, !.stale = FALSE] \in Work
  BY DEF Work
<1>6. [u EXCEPT !.pc = "forward", !.attempt = 2, !.target = NULL] \in Work
  <2>1. 2 \in 1..2
    OBVIOUS
  <2>2. \A a \in 1..2 :
          [u EXCEPT !.pc = "forward", !.attempt = a, !.target = NULL] \in Work
    BY DEF Work
  <2> QED
    BY <2>1, <2>2
<1>7. \A f \in Server \cup {Client}, i \in Write, a \in 1..2 :
        [Idle EXCEPT !.pc = "forward", !.from = f, !.id = i, !.as = a] \in Work
  <2>1. \A v \in Work :
          \A f \in Server \cup {Client}, i \in Write, a \in 1..2 :
            [v EXCEPT !.pc = "forward", !.from = f, !.id = i, !.as = a] \in Work
    BY DEF Work
  <2> QED
    BY <1>2, <2>1
<1> QED
  BY <1>1, <1>2, <1>3, <1>4, <1>5, <1>6, <1>7

\* They keep the write.
LEMMA WorkId ==
    ASSUME NEW u \in Work
    PROVE  /\ \A p \in {"ok", "error", "lost", "stuck"} :
                [u EXCEPT !.pc = p].id = u.id
           /\ \A r \in Server :
                [u EXCEPT !.pc = "await", !.target = r, !.stale = FALSE].id
                  = u.id
           /\ [u EXCEPT !.pc = "forward", !.attempt = 2, !.target = NULL].id
                = u.id
BY DEF Work

LEMMA ViewType ==
    ASSUME NEW v \in View, NEW S \in SUBSET Server,
           NEW r \in Server \cup {NULL}
    PROVE  /\ v.link \in Server \cup {NULL}
           /\ v.predecessor \in Server \cup {NULL}
           /\ [v EXCEPT !.nodes = S, !.link = r] \in View
           /\ [nodes |-> S, link |-> NULL, predecessor |-> r] \in View
           /\ NoView \in View
           /\ NoUpdate \in Update
           /\ [busy |-> TRUE, nodes |-> S] \in Update
BY DEF View, NoView, Update, NoUpdate

\* The faults stay within their bound.
LEMMA FaultType ==
    ASSUME TypeOK, Fault \/ UNCHANGED faults
    PROVE  faults' \in 0..MaxFaults
BY SystemAssumption DEF TypeOK, Fault

LEMMA StopType ==
    ASSUME TypeOK, NEW s \in Server, Stop(s), faults' \in 0..MaxFaults
    PROVE  TypeOK'
<1>1. NoView \in View /\ NoUpdate \in Update /\ Idle \in Work
  BY DEF View, NoView, Update, NoUpdate, Work, Idle
<1>2. /\ life' \in [Server -> Life]
      /\ view' \in [Server -> View]
      /\ pending' \in [Server -> BOOLEAN]
      /\ update' \in [Server -> Update]
      /\ work' \in [Server -> Work]
  BY <1>1 DEF TypeOK, Stop, Life
<1>3. /\ list' \in [Server -> SUBSET Write]
      /\ inbox' \in [Server -> SUBSET Request]
  BY DEF TypeOK, Stop
<1>4. /\ outcome' \in [Write -> {"none", "called", "ok", "error", "lost"}]
      /\ entry' \in [Write -> Server \cup {NULL}]
      /\ reach' \in [Write -> SUBSET Server]
  BY DEF TypeOK, Stop
<1>5. znodes' \subseteq Server /\ astray' \subseteq Write
  BY DEF TypeOK, Stop
<1> QED
  BY <1>2, <1>3, <1>4, <1>5 DEF TypeOK

LEMMA ChangedType ==
    ASSUME NEW S, Changed(S)
    PROVE  pending' \in [Server -> BOOLEAN]
BY DEF Changed

LEMMA CommitType ==
    ASSUME TypeOK, NEW s \in Server, NEW r \in Server \cup {NULL},
           CommitLink(s, r), faults' \in 0..MaxFaults
    PROVE  TypeOK'
<1>1. /\ view[s] \in View /\ update[s].nodes \in SUBSET Server
      /\ work[s] \in Work
  BY DEF TypeOK, Update
<1>2. [view[s] EXCEPT !.nodes = update[s].nodes, !.link = r] \in View
  BY <1>1, ViewType
<1>3. view' \in [Server -> View]
  BY <1>2 DEF TypeOK, CommitLink
<1>4. \A b \in BOOLEAN : [work[s] EXCEPT !.stale = b] \in Work
  BY <1>1, WorkType
<1>5. work' \in [Server -> Work]
  <2>1. work[s].stale \in BOOLEAN
    BY <1>1 DEF Work
  <2>2. (work[s].stale \/ work[s].pc = "await") \in BOOLEAN
    OBVIOUS
  <2> DEFINE x == [work[s] EXCEPT !.stale = @ \/ work[s].pc = "await"]
  <2>3. x \in Work
    BY <1>4, <2>2
  <2>4. work' = [work EXCEPT ![s] = x]
    BY DEF CommitLink
  <2> HIDE DEF x
  <2> QED
    BY <2>3, <2>4 DEF TypeOK
<1>6. update' \in [Server -> Update]
  BY DEF TypeOK, CommitLink, Update, NoUpdate
<1>7. /\ UNCHANGED <<life, znodes, pending, list, inbox>>
      /\ UNCHANGED <<outcome, entry, astray, reach>>
  BY DEF CommitLink, writes
<1>8. /\ znodes' \subseteq Server
      /\ life' \in [Server -> Life]
      /\ pending' \in [Server -> BOOLEAN]
      /\ list' \in [Server -> SUBSET Write]
      /\ inbox' \in [Server -> SUBSET Request]
  BY <1>7 DEF TypeOK
<1>9. /\ outcome' \in [Write -> {"none", "called", "ok", "error", "lost"}]
      /\ entry' \in [Write -> Server \cup {NULL}]
      /\ astray' \subseteq Write
      /\ reach' \in [Write -> SUBSET Server]
  BY <1>7 DEF TypeOK
<1> QED
  BY <1>3, <1>5, <1>6, <1>8, <1>9 DEF TypeOK

\* The steps of a request leave the requests of the other servers alone.
Kept ==
    \A r \in Server :
       work'[r].pc # "idle" =>
          work[r].pc # "idle" /\ work'[r].id = work[r].id

\* What a server makes of its own request.
LEMMA OneWork ==
    ASSUME TypeOK, NEW s \in Server, NEW u \in Work,
           work[s].pc # "idle", u.id = work[s].id \/ u = Idle,
           work' = [work EXCEPT ![s] = u]
    PROVE  work' \in [Server -> Work] /\ Kept
<1>1. work \in [Server -> Work]
  BY DEF TypeOK
<1>2. work' \in [Server -> Work]
  BY <1>1
<1>3. /\ work'[s] = u
      /\ \A r \in Server \ {s} : work'[r] = work[r]
  BY <1>1
<1>4. u.pc # "idle" => u.id = work[s].id
  BY DEF Idle
<1> QED
  BY <1>2, <1>3, <1>4 DEF Kept

LEMMA ForwardWork ==
    ASSUME TypeOK, NEW s \in Server,
           \/ ForwardUnconnected(s) \/ ForwardNothing(s) \/ ForwardSend(s)
           \/ ReadElsewhere(s) \/ AnswerClient(s)
    PROVE  work' \in [Server -> Work] /\ Kept
<1>1. work[s] \in Work /\ view[s].link \in Server \cup {NULL}
  BY DEF TypeOK, View
<1>2. \A p \in {"ok", "error", "lost", "stuck"} :
        /\ [work[s] EXCEPT !.pc = p] \in Work
        /\ [work[s] EXCEPT !.pc = p].id = work[s].id
  BY <1>1, WorkType, WorkId
<1>3. CASE ForwardUnconnected(s) \/ ForwardNothing(s) \/ ReadElsewhere(s)
  <2>1. work[s].pc # "idle"
    BY <1>3 DEF ForwardUnconnected, ForwardNothing, ReadElsewhere
  <2>2. PICK p \in {"ok", "error", "lost", "stuck"} :
          work' = [work EXCEPT ![s] = [work[s] EXCEPT !.pc = p]]
    BY <1>3 DEF ForwardUnconnected, ForwardNothing, ReadElsewhere, Goto
  <2> DEFINE u == [work[s] EXCEPT !.pc = p]
  <2>3. u \in Work /\ u.id = work[s].id
    BY <1>2
  <2>4. work' = [work EXCEPT ![s] = u]
    BY <2>2
  <2> HIDE DEF u
  <2> QED
    BY <2>1, <2>3, <2>4, OneWork
<1>4. CASE ForwardSend(s)
  <2> DEFINE r == view[s].link
             u == [work[s] EXCEPT !.pc = "await", !.target = r, !.stale = FALSE]
  <2>1. work[s].pc # "idle" /\ r # NULL /\ work' = [work EXCEPT ![s] = u]
    BY <1>4 DEF ForwardSend
  <2>2. u \in Work
    BY <1>1, <2>1, WorkType
  <2>3. u.id = work[s].id
    BY <1>1, <2>1, WorkId
  <2> HIDE DEF u
  <2> QED
    BY <2>1, <2>2, <2>3, OneWork
<1>5. CASE AnswerClient(s)
  <2>1. work[s].pc # "idle" /\ work' = [work EXCEPT ![s] = Idle]
    BY <1>5 DEF AnswerClient, Done
  <2>2. Idle \in Work
    BY <1>1, WorkType
  <2> QED
    BY <2>1, <2>2, OneWork
<1> QED
  BY <1>3, <1>4, <1>5

LEMMA AnswerServerWork ==
    ASSUME TypeOK, NEW s \in Server, AnswerServer(s)
    PROVE  work' \in [Server -> Work] /\ Kept
<1> DEFINE p == work[s].from
           x == IF work[p].stale THEN [work[p] EXCEPT !.pc = "lost"]
                ELSE Replied(p, work[s].pc = "ok")
<1>1. /\ work' = [q \in Server |->
                    IF q = s THEN Idle
                    ELSE IF q # p \/ ~Awaited(s, p) THEN work[q] ELSE x]
      /\ p # Client
  BY DEF AnswerServer
<1>2. work \in [Server -> Work]
  BY DEF TypeOK
<1>3. p \in Server /\ Idle \in Work
  BY <1>1, <1>2, WorkType
<1>4. ASSUME Awaited(s, p) PROVE x \in Work /\ x.id = work[p].id
  <2>1. work[p] \in Work
    BY <1>2, <1>3
  <2>2. \A q \in {"ok", "error", "lost", "stuck"} :
          /\ [work[p] EXCEPT !.pc = q] \in Work
          /\ [work[p] EXCEPT !.pc = q].id = work[p].id
    BY <2>1, WorkType, WorkId
  <2>3. /\ [work[p] EXCEPT !.pc = "forward", !.attempt = 2, !.target = NULL]
             \in Work
        /\ [work[p] EXCEPT !.pc = "forward", !.attempt = 2, !.target = NULL].id
             = work[p].id
    BY <2>1, WorkType, WorkId
  <2>4. \A ok \in BOOLEAN :
          Replied(p, ok) \in Work /\ Replied(p, ok).id = work[p].id
    BY <2>2, <2>3 DEF Replied
  <2>5. (work[s].pc = "ok") \in BOOLEAN
    OBVIOUS
  <2>6. /\ Replied(p, work[s].pc = "ok") \in Work
        /\ Replied(p, work[s].pc = "ok").id = work[p].id
    BY <2>4, <2>5
  <2> QED
    BY <2>2, <2>6
<1>5. Awaited(s, p) => work[p].pc = "await"
  BY DEF Awaited
<1> HIDE DEF p, x
<1>6. work' \in [Server -> Work]
  BY <1>1, <1>2, <1>3, <1>4
<1>7. Kept
  <2> SUFFICES ASSUME NEW r \in Server, work'[r].pc # "idle"
               PROVE  work[r].pc # "idle" /\ work'[r].id = work[r].id
    BY DEF Kept
  <2>1. r # s
    BY <1>1 DEF Idle
  <2>2. CASE r # p \/ ~Awaited(s, p)
    BY <1>1, <2>1, <2>2
  <2>3. CASE r = p /\ Awaited(s, p)
    BY <1>1, <1>4, <1>5, <2>1, <2>3
  <2> QED
    BY <2>2, <2>3
<1> QED
  BY <1>6, <1>7

LEMMA TypeInit == Init => TypeOK
<1> SUFFICES ASSUME Init PROVE TypeOK
  OBVIOUS
<1> DEFINE serving == 1..Serving
<1>1. serving \in SUBSET Server
  BY SystemAssumption DEF Server
<1>2. \A s \in Server : SuccessorIn(serving, s) \in Server \cup {NULL}
  <2> HIDE DEF serving
  <2> QED
    BY <1>1, Successor DEF After
<1>3. \A s \in Server : PredecessorIn(serving, s) \in Server \cup {NULL}
  <2> HIDE DEF serving
  <2> QED
    BY <1>1, Predecessor DEF Before
<1>4. view \in [Server -> View]
  <2>1. \A s \in Server :
           [nodes |-> serving, link |-> SuccessorIn(serving, s),
            predecessor |-> PredecessorIn(serving, s)] \in View
    <3> HIDE DEF serving
    <3> QED
      BY <1>1, <1>2, <1>3 DEF View
  <2>2. NoView \in View
    BY DEF NoView, View
  <2> QED
    BY <2>1, <2>2 DEF Init
<1>5. NoUpdate \in Update /\ Idle \in Work
  BY DEF NoUpdate, Update, Idle, Work
<1>6. /\ update \in [Server -> Update]
      /\ work \in [Server -> Work]
  BY <1>5 DEF Init
<1>7. /\ life \in [Server -> Life]
      /\ znodes \subseteq Server
      /\ pending \in [Server -> BOOLEAN]
      /\ list \in [Server -> SUBSET Write]
      /\ inbox \in [Server -> SUBSET Request]
  BY <1>1 DEF Init, Life
<1>8. /\ outcome \in [Write -> {"none", "called", "ok", "error", "lost"}]
      /\ entry \in [Write -> Server \cup {NULL}]
      /\ astray \subseteq Write
      /\ reach \in [Write -> SUBSET Server]
  BY DEF Init
<1>9. faults \in 0..MaxFaults
  BY SystemAssumption DEF Init
<1> QED
  BY <1>4, <1>6, <1>7, <1>8, <1>9 DEF TypeOK

\* The steps of the topology change nothing the clients see.
LEMMA TopologyType ==
    ASSUME TypeOK, Fault \/ UNCHANGED faults,
           life' \in [Server -> Life], znodes' \subseteq Server,
           view' \in [Server -> View], pending' \in [Server -> BOOLEAN],
           update' \in [Server -> Update], list' \in [Server -> SUBSET Write],
           UNCHANGED <<inbox, work, outcome, entry, astray>>,
           reach' \in [Write -> SUBSET Server]
    PROVE  TypeOK'
<1>1. faults' \in 0..MaxFaults
  BY FaultType
<1> QED
  BY <1>1 DEF TypeOK

LEMMA StartType ==
    ASSUME TypeOK, NEW s \in Server,
           Join(s) \/ Copy(s) \/ CopyFails(s) \/ Listen(s)
    PROVE  TypeOK'
<1> USE DEF topology, writes
<1>1. CASE Join(s)
  <2>1. znodes' \in SUBSET Server
    BY <1>1 DEF TypeOK, Join
  <2>2. PredecessorIn(znodes', s) \in Server \cup {NULL}
    BY <2>1, Predecessor DEF Before
  <2>3. [nodes |-> znodes', link |-> NULL,
         predecessor |-> PredecessorIn(znodes', s)] \in View
    BY <2>1, <2>2 DEF View
  <2>4. view' \in [Server -> View]
    BY <1>1, <2>3 DEF TypeOK, Join
  <2>5. life' \in [Server -> Life]
    BY <1>1 DEF TypeOK, Join, Life
  <2>6. reach' \in [Write -> SUBSET Server]
    BY <1>1 DEF TypeOK, Join
  <2>7. pending' \in [Server -> BOOLEAN]
    BY <1>1, ChangedType DEF Join
  <2>8. /\ UNCHANGED <<inbox, work, outcome, entry, astray, faults>>
        /\ update' \in [Server -> Update]
        /\ list' \in [Server -> SUBSET Write]
    BY <1>1 DEF TypeOK, Join
  <2> QED
    BY <2>1, <2>4, <2>5, <2>6, <2>7, <2>8, TopologyType
<1>2. CASE Copy(s)
  <2>1. life' \in [Server -> Life]
    BY <1>2 DEF TypeOK, Copy, Life
  <2>2. list' \in [Server -> SUBSET Write]
    <3>1. view[s].predecessor \in Server \cup {NULL}
      BY DEF TypeOK, View
    <3> QED
      BY <1>2, <3>1 DEF TypeOK, Copy
  <2>3. UNCHANGED <<topology, inbox, work, writes, faults>>
    BY <1>2 DEF Copy
  <2>4. /\ znodes' \subseteq Server /\ view' \in [Server -> View]
        /\ pending' \in [Server -> BOOLEAN] /\ update' \in [Server -> Update]
        /\ reach' \in [Write -> SUBSET Server]
    BY <2>3 DEF TypeOK
  <2> QED
    BY <2>1, <2>2, <2>3, <2>4, TopologyType
<1>3. CASE CopyFails(s)
  <2>1. life' \in [Server -> Life]
    BY <1>3 DEF TypeOK, CopyFails, Life
  <2>2. UNCHANGED <<topology, list, inbox, work, outcome, entry, astray>>
    BY <1>3 DEF CopyFails
  <2>3. /\ znodes' \subseteq Server /\ view' \in [Server -> View]
        /\ pending' \in [Server -> BOOLEAN] /\ update' \in [Server -> Update]
        /\ list' \in [Server -> SUBSET Write]
    BY <2>2 DEF TypeOK
  <2>4. reach' \in [Write -> SUBSET Server]
    BY <1>3 DEF TypeOK, CopyFails
  <2>5. Fault \/ UNCHANGED faults
    BY <1>3 DEF CopyFails
  <2> QED
    BY <2>1, <2>2, <2>3, <2>4, <2>5, TopologyType
<1>4. CASE Listen(s)
  <2>1. life' \in [Server -> Life]
    BY <1>4 DEF TypeOK, Listen, Life
  <2>2. UNCHANGED <<topology, list, inbox, work, writes, faults>>
    BY <1>4 DEF Listen
  <2>3. /\ znodes' \subseteq Server /\ view' \in [Server -> View]
        /\ pending' \in [Server -> BOOLEAN] /\ update' \in [Server -> Update]
        /\ list' \in [Server -> SUBSET Write]
        /\ reach' \in [Write -> SUBSET Server]
    BY <2>2 DEF TypeOK
  <2> QED
    BY <2>1, <2>2, <2>3, TopologyType
<1> QED
  BY <1>1, <1>2, <1>3, <1>4

LEMMA ChainType ==
    ASSUME TypeOK, NEW s \in Server,
           Close(s) \/ Expire(s) \/ BeginUpdate(s)
    PROVE  TypeOK'
<1> USE DEF topology, writes
<1>1. CASE Close(s) \/ Expire(s)
  <2>1. SessionEnds(s) /\ (Fault \/ UNCHANGED faults)
    BY <1>1 DEF Close, Expire
  <2>2. znodes' \subseteq Server
    BY <2>1 DEF TypeOK, SessionEnds
  <2>3. pending' \in [Server -> BOOLEAN]
    BY <2>1, ChangedType DEF SessionEnds
  <2>4. UNCHANGED <<life, view, update, list, inbox, work, writes>>
    BY <2>1 DEF SessionEnds
  <2>5. /\ life' \in [Server -> Life] /\ view' \in [Server -> View]
        /\ update' \in [Server -> Update]
        /\ list' \in [Server -> SUBSET Write]
        /\ reach' \in [Write -> SUBSET Server]
    BY <2>4 DEF TypeOK
  <2> QED
    BY <2>1, <2>2, <2>3, <2>4, <2>5, TopologyType
<1>2. CASE BeginUpdate(s)
  <2>1. [busy |-> TRUE, nodes |-> znodes] \in Update
    BY DEF TypeOK, Update
  <2>2. /\ update' \in [Server -> Update]
        /\ pending' \in [Server -> BOOLEAN]
    BY <1>2, <2>1 DEF TypeOK, BeginUpdate
  <2>3. UNCHANGED <<life, znodes, view, list, inbox, work, writes, faults>>
    BY <1>2 DEF BeginUpdate
  <2>4. /\ life' \in [Server -> Life] /\ view' \in [Server -> View]
        /\ znodes' \subseteq Server
        /\ list' \in [Server -> SUBSET Write]
        /\ reach' \in [Write -> SUBSET Server]
    BY <2>3 DEF TypeOK
  <2> QED
    BY <2>2, <2>3, <2>4, TopologyType
<1> QED
  BY <1>1, <1>2

\* The steps of the writes leave the topology alone.
LEMMA WriteType ==
    ASSUME TypeOK, Fault \/ UNCHANGED faults,
           UNCHANGED <<life, znodes, view, pending, update>>,
           work' \in [Server -> Work], inbox' \in [Server -> SUBSET Request],
           list' \in [Server -> SUBSET Write],
           outcome' \in [Write -> {"none", "called", "ok", "error", "lost"}],
           entry' \in [Write -> Server \cup {NULL}], astray' \subseteq Write,
           reach' \in [Write -> SUBSET Server]
    PROVE  TypeOK'
<1>1. faults' \in 0..MaxFaults
  BY FaultType
<1>2. /\ life' \in [Server -> Life] /\ znodes' \subseteq Server
      /\ view' \in [Server -> View] /\ pending' \in [Server -> BOOLEAN]
      /\ update' \in [Server -> Update]
  BY DEF TypeOK
<1> QED
  BY <1>1, <1>2 DEF TypeOK

LEMMA CallType ==
    ASSUME TypeOK, NEW s \in Server, NEW w \in Write, Call(w, s)
    PROVE  TypeOK'
<1> USE DEF topology
<1>1. /\ UNCHANGED <<life, topology, list, work, reach>>
      /\ Fault \/ UNCHANGED faults
  BY DEF Call
<1>2. /\ work' \in [Server -> Work] /\ list' \in [Server -> SUBSET Write]
      /\ reach' \in [Write -> SUBSET Server]
  BY <1>1 DEF TypeOK
<1>3. [from |-> Client, id |-> w, attempt |-> 1] \in Request
  BY DEF Request
<1>4. inbox' \in [Server -> SUBSET Request]
  BY <1>3 DEF TypeOK, Call
<1>5. /\ outcome' \in [Write -> {"none", "called", "ok", "error", "lost"}]
      /\ entry' \in [Write -> Server \cup {NULL}] /\ astray' \subseteq Write
  BY DEF TypeOK, Call
<1> QED
  BY <1>1, <1>2, <1>4, <1>5, WriteType

LEMMA ExecuteType ==
    ASSUME TypeOK, NEW s \in Server, NEW m \in inbox[s], Execute(s, m)
    PROVE  TypeOK'
<1> USE DEF topology
<1>1. m \in Request
  BY DEF TypeOK
<1>2. m.from \in Server \cup {Client} /\ m.id \in Write /\ m.attempt \in 1..2
  BY <1>1 DEF Request
<1>3. work[s] \in Work
  BY DEF TypeOK
<1>4. [Idle EXCEPT !.pc = "forward", !.from = m.from, !.id = m.id,
                   !.as = m.attempt] \in Work
  BY <1>2, <1>3, WorkType
<1>5. work' \in [Server -> Work]
  BY <1>4 DEF TypeOK, Execute
<1>6. inbox' \in [Server -> SUBSET Request]
  BY DEF TypeOK, Execute
<1>7. list' \in [Server -> SUBSET Write]
  BY <1>2 DEF TypeOK, Execute
<1>8. reach' \in [Write -> SUBSET Server]
  <2>1. Below(s) \in SUBSET Server
    BY DEF Below
  <2> QED
    BY <2>1 DEF TypeOK, Execute
<1>9. UNCHANGED <<life, topology, outcome, entry, astray, faults>>
  BY DEF Execute
<1>10. /\ outcome' \in [Write -> {"none", "called", "ok", "error", "lost"}]
       /\ entry' \in [Write -> Server \cup {NULL}] /\ astray' \subseteq Write
  BY <1>9 DEF TypeOK
<1> QED
  BY <1>5, <1>6, <1>7, <1>8, <1>9, <1>10, WriteType

LEMMA ForwardType ==
    ASSUME TypeOK, WorkInv, NEW s \in Server,
           \/ ForwardUnconnected(s) \/ ForwardNothing(s) \/ ForwardSend(s)
           \/ ReadElsewhere(s) \/ AnswerClient(s) \/ AnswerServer(s)
    PROVE  TypeOK'
<1> USE DEF topology, writes
<1>1. work' \in [Server -> Work]
  BY ForwardWork, AnswerServerWork
<1>2. work[s] \in Work /\ list[s] \in SUBSET Write
  BY DEF TypeOK
<1>3. work[s].pc # "idle" => work[s].id \in Write
  BY <1>2 DEF WorkInv
<1>4. UNCHANGED <<life, topology, list, astray, faults>>
  BY DEF ForwardUnconnected, ForwardNothing, ForwardSend, ReadElsewhere,
         AnswerClient, AnswerServer, WorkStep
<1>5. list' \in [Server -> SUBSET Write] /\ astray' \subseteq Write
  BY <1>4 DEF TypeOK
<1>6. inbox' \in [Server -> SUBSET Request]
  <2>1. CASE ForwardSend(s)
    <3> DEFINE r == view[s].link
               m == [from |-> s, id |-> work[s].id,
                     attempt |-> work[s].attempt]
    <3>1. work[s].pc # "idle" /\ r \in Server
      BY <2>1 DEF ForwardSend, TypeOK, View
    <3>2. m \in Request
      BY <1>2, <1>3, <3>1, WorkType DEF Request
    <3>3. inbox' = inbox \/ inbox' = [inbox EXCEPT ![r] = inbox[r] \cup {m}]
      BY <2>1 DEF ForwardSend
    <3> HIDE DEF m, r
    <3> QED
      BY <3>1, <3>2, <3>3 DEF TypeOK
  <2>2. CASE ~ForwardSend(s)
    <3>1. UNCHANGED inbox
      BY <2>2 DEF ForwardUnconnected, ForwardNothing, ReadElsewhere,
                  AnswerClient, AnswerServer
    <3> QED
      BY <3>1 DEF TypeOK
  <2> QED
    BY <2>1, <2>2
<1>7. /\ outcome' \in [Write -> {"none", "called", "ok", "error", "lost"}]
      /\ entry' \in [Write -> Server \cup {NULL}]
      /\ reach' \in [Write -> SUBSET Server]
  <2>1. CASE AnswerClient(s)
    <3>1. work[s].id \in Write /\ work[s].pc \in {"ok", "error"}
      BY <1>3, <2>1 DEF AnswerClient, Done
    <3> QED
      BY <2>1, <3>1 DEF TypeOK, AnswerClient
  <2>2. CASE ~AnswerClient(s)
    <3>1. UNCHANGED <<outcome, entry, reach>>
      BY <2>2 DEF ForwardUnconnected, ForwardNothing, ForwardSend,
                  ReadElsewhere, AnswerServer, WorkStep
    <3> QED
      BY <3>1 DEF TypeOK
  <2> QED
    BY <2>1, <2>2
<1> QED
  BY <1>1, <1>4, <1>5, <1>6, <1>7, WriteType

\* What ends the process of s: it has started by then.
Ends(s) ==
    Crash(s) \/ SyncFails(s) \/ NoReply(s) \/ AnswerFails(s)

LEMMA EndsType ==
    ASSUME TypeOK, NEW s \in Server, Ends(s)
    PROVE  TypeOK' /\ Stop(s)
<1>1. Stop(s) /\ (Fault \/ UNCHANGED faults)
  BY DEF Ends, Crash, SyncFails, NoReply, AnswerFails
<1> QED
  BY <1>1, FaultType, StopType

\* Every commit is of the next server of the chain that was read, or of none.
LEMMA CommitStep ==
    ASSUME TypeOK, NEW s \in Server, Commit(s) \/ CommitUnconnected(s)
    PROVE  /\ TypeOK'
           /\ update[s].busy
           /\ \E r \in {NULL, SuccessorIn(update[s].nodes, s)} :
                 CommitLink(s, r)
<1>1. /\ update[s].busy /\ (Fault \/ UNCHANGED faults)
      /\ \E r \in {NULL, SuccessorIn(update[s].nodes, s)} : CommitLink(s, r)
  BY DEF Commit, CommitUnconnected
<1>2. SuccessorIn(update[s].nodes, s) \in Server \cup {NULL}
  BY Successor DEF TypeOK, Update, After
<1> QED
  BY <1>1, <1>2, CommitType, FaultType

\* The steps, one by one.
LEMMA Steps ==
    ASSUME Next
    PROVE  \E s \in Server :
              \/ Ends(s)
              \/ Close(s) \/ Expire(s)
              \/ Join(s) \/ Copy(s) \/ CopyFails(s) \/ Listen(s)
              \/ BeginUpdate(s) \/ Commit(s) \/ CommitUnconnected(s)
              \/ \E w \in Write : Call(w, s)
              \/ \E m \in inbox[s] : Execute(s, m)
              \/ ForwardUnconnected(s) \/ ForwardNothing(s) \/ ForwardSend(s)
              \/ ReadElsewhere(s) \/ AnswerClient(s) \/ AnswerServer(s)
BY DEF Next, Ends, Startup, UpdateThread, Serve, Forward

LEMMA TypeNext == TypeOK /\ WorkInv /\ [Next]_vars => TypeOK'
<1> SUFFICES ASSUME TypeOK, WorkInv, [Next]_vars PROVE TypeOK'
  OBVIOUS
<1>1. CASE Next
  BY <1>1, Steps, EndsType, ChainType, StartType, CommitStep, CallType,
     ExecuteType, ForwardType
<1>2. CASE UNCHANGED vars
  BY <1>2 DEF TypeOK, vars, topology, writes
<1> QED
  BY <1>1, <1>2

-----------------------------------------------------------------------------
(* The steps keep the invariant. *)

LEMMA EndsStarted ==
    ASSUME TypeOK, OffInv, WorkInv, NEW s \in Server, Ends(s)
    PROVE  life[s] # "off"
<1>1. CASE Crash(s) \/ SyncFails(s)
  BY <1>1 DEF Crash, Running, SyncFails
<1>2. CASE NoReply(s) \/ AnswerFails(s)
  <2>1. work[s].pc # "idle"
    BY <1>2 DEF NoReply, Unanswered, AnswerFails, Done
  <2> QED
    BY <2>1 DEF OffInv, WorkInv
<1> QED
  BY <1>1, <1>2 DEF Ends

LEMMA StopKeeps ==
    ASSUME TypeOK, Rest, NEW x \in Server, Stop(x), life[x] # "off"
    PROVE  Rest'
<1>1. /\ life'[x] = "down"
      /\ \A s \in Server \ {x} : life'[s] = life[s]
  BY DEF TypeOK, Stop
<1>2. /\ list'[x] = {}
      /\ \A s \in Server \ {x} : list'[s] = list[s]
  BY DEF TypeOK, Stop
<1>3. /\ inbox'[x] = {}
      /\ \A s \in Server \ {x} : inbox'[s] = inbox[s]
  BY DEF TypeOK, Stop
<1>4. /\ work'[x] = Idle
      /\ \A s \in Server \ {x} : work'[s] = work[s]
  BY DEF TypeOK, Stop
<1>5. /\ update'[x] = NoUpdate
      /\ \A s \in Server \ {x} : update'[s] = update[s]
  BY DEF TypeOK, Stop
<1>6. /\ view'[x] = NoView
      /\ \A s \in Server \ {x} : view'[s] = view[s]
  BY DEF TypeOK, Stop
<1>7. znodes' = znodes /\ astray' = astray
  BY DEF Stop
<1>8. \A s \in Server : life'[s] = "off" <=> life[s] = "off"
  BY <1>1
<1>9. \A s \in Server : Alive(s)' => Alive(s) /\ s # x
  BY <1>1, <1>7 DEF Alive, Running
<1>10. OffInv'
  BY <1>1, <1>2, <1>3, <1>7, <1>8 DEF Rest, OffInv
<1>11. WorkInv'
  BY <1>2, <1>4 DEF Rest, WorkInv, Idle
<1>12. UpdateInv'
  <2>1. \A S \in SUBSET Server : Complete(S) => Complete(S)'
    BY <1>7, <1>8 DEF Complete
  <2> QED
    BY <1>5, <2>1 DEF TypeOK, Update, Rest, UpdateInv, NoUpdate
<1>13. LinkInv'
  <2>1. view'[x].link = NULL
    BY <1>6 DEF NoView
  <2>2. \A s \in Server : view[s].link \in Server \cup {NULL}
    BY DEF TypeOK, View
  <2> QED
    BY <1>6, <1>7, <1>8, <2>1, <2>2 DEF Rest, LinkInv, Adjacent
<1>14. CopyInv'
  BY <1>1, <1>6, <1>7 DEF Rest, CopyInv, Adjacent
<1>15. ListInv'
  BY <1>2, <1>7, <1>9 DEF Rest, ListInv
<1>16. InboxInv'
  BY <1>2, <1>3, <1>7, <1>9 DEF Rest, InboxInv
<1> QED
  BY <1>10, <1>11, <1>12, <1>13, <1>14, <1>15, <1>16 DEF Rest

\* Znodes that go, a start that goes on, and the steps of the writes that
\* neither send nor execute.
LEMMA QuietKeeps ==
    ASSUME TypeOK, Rest, znodes' \subseteq znodes,
           \A s \in Server :
              \/ life'[s] = life[s]
              \/ /\ life[s] \in {"joining", "copied"}
                 /\ life'[s] \in {"copied", "ready"},
           UNCHANGED <<view, update, list, inbox, astray>>, Kept
    PROVE  Rest'
<1>1. \A s \in Server : life'[s] = "off" <=> life[s] = "off"
  OBVIOUS
<1>2. \A s \in Server : Alive(s)' => Alive(s)
  BY DEF Alive, Running
<1>3. OffInv'
  BY <1>1 DEF Rest, OffInv
<1>4. WorkInv'
  BY DEF Rest, WorkInv, Kept
<1>5. UpdateInv'
  <2>1. \A S \in SUBSET Server : Complete(S) => Complete(S)'
    BY <1>1 DEF Complete
  <2> QED
    BY <2>1 DEF TypeOK, Update, Rest, UpdateInv
<1>6. LinkInv'
  <2>1. \A s \in Server : view[s].link \in Server \cup {NULL}
    BY DEF TypeOK, View
  <2> QED
    BY <1>1, <2>1 DEF Rest, LinkInv, Adjacent
<1>7. CopyInv'
  BY DEF Rest, CopyInv, Adjacent
<1>8. ListInv'
  BY <1>2 DEF Rest, ListInv
<1>9. InboxInv'
  BY <1>2 DEF Rest, InboxInv
<1> QED
  BY <1>3, <1>4, <1>5, <1>6, <1>7, <1>8, <1>9 DEF Rest

\* A new server is behind all that have ever been in the chain.
LEMMA JoinKeeps ==
    ASSUME TypeOK, Rest, NEW x \in Server, Join(x)
    PROVE  Rest'
<1> USE DEF Rest
<1>1. /\ life[x] = "off" /\ life'[x] = "joining"
      /\ \A s \in Server \ {x} : life'[s] = life[s]
      /\ \A s \in Server : s < x => life[s] # "off"
  BY DEF TypeOK, Join
<1>2. znodes' = znodes \cup {x} /\ znodes' \in SUBSET Server
  BY DEF TypeOK, Join
<1>3. UNCHANGED <<update, list, inbox, work, astray>>
  BY DEF Join
<1>4. /\ view'[x].link = NULL
      /\ view'[x].predecessor = PredecessorIn(znodes', x)
      /\ \A s \in Server \ {x} : view'[s] = view[s]
  BY DEF TypeOK, Join
<1>5. \A s \in Server : x < s => life[s] = "off"
  BY <1>1 DEF OffInv
<1>6. \A s \in Server : life[s] # "off" => s < x
  BY <1>1, <1>5, Numbers
<1>7. \A s \in Server : Alive(s)' => Alive(s) \/ s = x
  BY <1>1, <1>2 DEF Alive, Running
<1>8. OffInv'
  <2>1. \A s, r \in Server :
           s < r /\ life'[s] = "off" => life'[r] = "off"
    BY <1>1, <1>5, Numbers DEF OffInv
  <2>2. \A s \in Server :
           life'[s] = "off" => s \notin znodes' /\ inbox'[s] = {}
    BY <1>1, <1>2, <1>3 DEF OffInv
  <2>3. \A s \in Server :
           life'[s] \notin {"copied", "ready"} => list'[s] = {}
    BY <1>1, <1>3 DEF OffInv
  <2> QED
    BY <2>1, <2>2, <2>3 DEF OffInv
<1>9. WorkInv'
  BY <1>3 DEF WorkInv
<1>10. UpdateInv'
  <2>1. ASSUME NEW S \in SUBSET Server, Complete(S) PROVE Complete(S)'
    <3>1. \A n \in S : life[n] # "off" /\ life'[n] # "off"
      BY <1>1, <2>1 DEF Complete
    <3>2. \A n \in S : ~(x < n)
      BY <1>5, <3>1
    <3> QED
      BY <1>2, <2>1, <3>1, <3>2 DEF Complete
  <2> QED
    BY <1>3, <2>1 DEF TypeOK, Update, UpdateInv
<1>11. LinkInv'
  <2> SUFFICES ASSUME NEW s \in Server, view'[s].link # NULL
               PROVE  /\ life'[view'[s].link] # "off"
                      /\ s < view'[s].link
                      /\ \A q \in znodes' : ~(s < q /\ q < view'[s].link)
    BY DEF LinkInv, Adjacent
  <2>1. s # x /\ view'[s] = view[s]
    BY <1>4
  <2>2. view[s].link \in Server
    BY <2>1 DEF TypeOK, View
  <2>3. life[view[s].link] # "off" /\ Adjacent(s, view[s].link)
    BY <2>1 DEF LinkInv
  <2>4. view[s].link < x
    BY <1>6, <2>2, <2>3
  <2>5. life'[view[s].link] # "off"
    BY <1>1, <2>2, <2>3
  <2>6. s \in Nat /\ view[s].link \in Nat /\ x \in Nat
    BY <2>2, Numbers
  <2>7. ~(x < view[s].link)
    BY <2>4, <2>6
  <2>8. \A q \in znodes' : ~(s < q /\ q < view[s].link)
    BY <1>2, <2>3, <2>7 DEF Adjacent
  <2>9. s < view[s].link
    BY <2>3 DEF Adjacent
  <2> QED
    BY <2>1, <2>5, <2>8, <2>9
<1>12. CopyInv'
  <2> SUFFICES ASSUME NEW s \in Server, life'[s] = "joining",
                      view'[s].predecessor # NULL
               PROVE  /\ view'[s].predecessor < s
                      /\ \A q \in znodes' :
                            ~(view'[s].predecessor < q /\ q < s)
    BY DEF CopyInv, Adjacent
  <2>1. CASE s = x
    <3>1. \A q \in Before(znodes', x) : PredecessorIn(znodes', x) >= q
      BY <1>2, <1>4, <2>1, Predecessor
    <3>2. PredecessorIn(znodes', x) \in Before(znodes', x)
      BY <1>2, <1>4, <2>1, Predecessor
    <3>3. ASSUME NEW q \in znodes', q < x
          PROVE  q <= PredecessorIn(znodes', x)
      <4>1. q \in Before(znodes', x)
        BY <3>3 DEF Before
      <4>2. q \in Nat /\ PredecessorIn(znodes', x) \in Nat
        BY <1>2, <3>2, Numbers DEF Before
      <4> QED
        BY <3>1, <4>1, <4>2
    <3>4. /\ PredecessorIn(znodes', x) < x
          /\ PredecessorIn(znodes', x) \in Nat
      BY <1>2, <3>2, Numbers DEF Before
    <3>5. \A q \in znodes' : q \in Nat
      BY <1>2, Numbers
    <3>6. \A q \in znodes' : ~(PredecessorIn(znodes', x) < q /\ q < x)
      BY <3>3, <3>4, <3>5
    <3> QED
      BY <1>4, <2>1, <3>4, <3>6
  <2>2. CASE s # x
    <3>1. life[s] = "joining" /\ view'[s] = view[s]
      BY <1>1, <1>4, <2>2
    <3>2. Adjacent(view[s].predecessor, s)
      BY <3>1 DEF CopyInv
    <3>3. s < x
      BY <1>6, <3>1
    <3>4. view[s].predecessor \in Server
      BY <3>1 DEF TypeOK, View
    <3>5. s \in Nat /\ x \in Nat
      BY Numbers
    <3>6. ~(x < s)
      BY <3>3, <3>5
    <3>7. /\ view[s].predecessor < s
          /\ \A q \in znodes' : ~(view[s].predecessor < q /\ q < s)
      BY <1>2, <3>2, <3>6 DEF Adjacent
    <3> QED
      BY <3>1, <3>7
  <2> QED
    BY <2>1, <2>2
<1>13. ListInv'
  <2>1. \A r \in Server : x < r => list[r] = {}
    BY <1>5 DEF OffInv
  <2> QED
    BY <1>3, <1>7, <2>1 DEF ListInv
<1>14. InboxInv'
  <2>1. \A r \in Server : x < r => inbox[r] = {}
    BY <1>5 DEF OffInv
  <2> QED
    BY <1>3, <1>7, <2>1 DEF InboxInv
<1> QED
  BY <1>8, <1>9, <1>10, <1>11, <1>12, <1>13, <1>14

\* It copies the list of the last server before it.
LEMMA CopyKeeps ==
    ASSUME TypeOK, Rest, NEW x \in Server, Copy(x)
    PROVE  Rest'
<1> USE DEF Rest
<1>1. /\ life[x] = "joining" /\ life'[x] = "copied"
      /\ \A s \in Server \ {x} : life'[s] = life[s]
  BY DEF TypeOK, Copy
<1>2. UNCHANGED <<znodes, view, update, inbox, work, astray>>
  BY DEF Copy, topology, writes
<1>3. CASE view[x].predecessor = NULL
  <2>1. UNCHANGED list
    BY <1>3 DEF Copy
  <2>2. Kept
    BY <1>2 DEF Kept
  <2> QED
    BY <1>1, <1>2, <2>1, <2>2, QuietKeeps
<1>4. CASE view[x].predecessor # NULL
  <2> DEFINE pred == view[x].predecessor
  <2>1. pred \in Server
    BY <1>4 DEF TypeOK, View
  <2>2. list' = [list EXCEPT ![x] = list[pred]]
    BY <1>4 DEF Copy
  <2>3. /\ list'[x] = list[pred]
        /\ \A s \in Server \ {x} : list'[s] = list[s]
    BY <2>2 DEF TypeOK
  <2>4. Adjacent(pred, x)
    BY <1>1, <1>4 DEF CopyInv
  <2>5. list[x] = {}
    BY <1>1 DEF OffInv
  <2>6. \A s \in Server : life'[s] = "off" <=> life[s] = "off"
    BY <1>1
  <2>7. \A s \in Server : Alive(s)' <=> Alive(s)
    BY <1>1, <1>2 DEF Alive, Running
  <2>8. OffInv'
    BY <1>1, <1>2, <2>3, <2>6 DEF OffInv
  <2>9. WorkInv'
    BY <1>2, <2>3, <2>5 DEF WorkInv
  <2>10. UpdateInv'
    <3>1. \A S \in SUBSET Server : Complete(S) => Complete(S)'
      BY <1>2, <2>6 DEF Complete
    <3> QED
      BY <1>2, <3>1 DEF TypeOK, Update, UpdateInv
  <2>11. LinkInv'
    <3>1. \A s \in Server : view[s].link \in Server \cup {NULL}
      BY DEF TypeOK, View
    <3> QED
      BY <1>2, <2>6, <3>1 DEF LinkInv, Adjacent
  <2>12. CopyInv'
    BY <1>1, <1>2 DEF CopyInv, Adjacent
  <2>13. ListInv'
    <3> SUFFICES ASSUME NEW s \in Server, NEW r \in Server, s < r, Alive(s)
                 PROVE  list'[r] \ astray \subseteq list'[s]
      BY <1>2, <2>7 DEF ListInv
    <3>1. list[r] \ astray \subseteq list[s]
      BY DEF ListInv
    <3>2. CASE r = x
      <4>1. s = pred \/ s < pred
        <5>1. s \in Nat /\ pred \in Nat
          BY <2>1, Numbers
        <5>2. s \in znodes /\ s < x
          BY <3>2 DEF Alive
        <5>3. ~(pred < s)
          BY <2>4, <5>2 DEF Adjacent
        <5> QED
          BY <5>1, <5>3
      <4>2. list[pred] \ astray \subseteq list[s]
        BY <2>1, <4>1 DEF ListInv
      <4>3. s # x
        BY <3>2, Numbers
      <4> QED
        BY <2>3, <3>2, <4>2, <4>3
    <3>3. CASE r # x
      BY <2>3, <2>5, <3>1, <3>3
    <3> QED
      BY <3>2, <3>3
  <2>14. InboxInv'
    <3>1. \A s \in Server : list[s] \subseteq list'[s]
      BY <2>3, <2>5
    <3> QED
      BY <1>2, <2>7, <3>1 DEF InboxInv
  <2> QED
    BY <2>8, <2>9, <2>10, <2>11, <2>12, <2>13, <2>14
<1> QED
  BY <1>3, <1>4

\* The steps of an update: what is read is complete when it is read, and
\* stays so, since new servers are behind the last of it.
LEMMA UpdateKeeps ==
    ASSUME TypeOK, Rest,
           UNCHANGED <<life, znodes, list, inbox, astray>>, Kept,
           UpdateInv', LinkInv',
           \A s \in Server : view'[s].predecessor = view[s].predecessor
    PROVE  Rest'
<1>1. OffInv' /\ CopyInv' /\ ListInv' /\ InboxInv'
  BY DEF Rest, OffInv, CopyInv, Adjacent, ListInv, InboxInv, Alive, Running
<1>2. WorkInv'
  BY DEF Rest, WorkInv, Kept
<1> QED
  BY <1>1, <1>2 DEF Rest

LEMMA BeginUpdateKeeps ==
    ASSUME TypeOK, Rest, NEW x \in Server, BeginUpdate(x)
    PROVE  Rest'
<1> USE DEF Rest
<1>1. UNCHANGED <<life, znodes, view, list, inbox, work, astray>>
  BY DEF BeginUpdate, writes
<1>2. /\ update'[x].nodes = znodes
      /\ \A s \in Server \ {x} : update'[s] = update[s]
  BY DEF TypeOK, BeginUpdate
<1>3. Complete(znodes)
  BY DEF TypeOK, OffInv, Complete
<1>4. UpdateInv'
  <2> SUFFICES ASSUME NEW s \in Server, update'[s].busy
               PROVE  /\ \A n \in update'[s].nodes : life[n] # "off"
                      /\ \A q \in znodes, n \in update'[s].nodes :
                            q < n => q \in update'[s].nodes
    BY <1>1 DEF UpdateInv, Complete
  <2>1. CASE s = x
    BY <1>2, <1>3, <2>1 DEF Complete
  <2>2. CASE s # x
    BY <1>2, <2>2 DEF UpdateInv, Complete
  <2> QED
    BY <2>1, <2>2
<1>5. LinkInv'
  BY <1>1 DEF LinkInv, Adjacent
<1>6. Kept
  BY <1>1 DEF Kept
<1> QED
  BY <1>1, <1>4, <1>5, <1>6, UpdateKeeps

LEMMA CommitKeeps ==
    ASSUME TypeOK, Rest, NEW x \in Server, update[x].busy,
           NEW next \in {NULL, SuccessorIn(update[x].nodes, x)},
           CommitLink(x, next)
    PROVE  Rest'
<1> USE DEF Rest
<1>1. UNCHANGED <<life, znodes, list, inbox, astray>>
  BY DEF CommitLink, writes
<1>2. /\ update'[x] = NoUpdate
      /\ \A s \in Server \ {x} : update'[s] = update[s]
  BY DEF TypeOK, CommitLink
<1>3. /\ view'[x].link = next
      /\ view'[x].predecessor = view[x].predecessor
      /\ \A s \in Server \ {x} : view'[s] = view[s]
  BY DEF TypeOK, View, CommitLink
<1>4. Kept
  <2>1. work[x] \in Work
    BY DEF TypeOK
  <2>2. /\ work'[x].pc = work[x].pc
        /\ work'[x].id = work[x].id
        /\ \A s \in Server \ {x} : work'[s] = work[s]
    BY <2>1 DEF TypeOK, Work, CommitLink
  <2> QED
    BY <2>2 DEF Kept
<1>5. UpdateInv'
  BY <1>1, <1>2 DEF UpdateInv, Complete, NoUpdate
<1>6. update[x].nodes \in SUBSET Server /\ Complete(update[x].nodes)
  BY DEF TypeOK, Update, UpdateInv
<1>7. ASSUME next # NULL
      PROVE  life[next] # "off" /\ Adjacent(x, next)
  <2>1. /\ next \in After(update[x].nodes, x)
        /\ \A q \in After(update[x].nodes, x) : next <= q
    BY <1>6, <1>7, Successor
  <2>2. /\ next \in Server /\ next \in update[x].nodes /\ x < next
        /\ next \in Nat /\ x \in Nat
    BY <1>6, <2>1, Numbers DEF After
  <2>3. ASSUME NEW q \in znodes, x < q, q < next PROVE FALSE
    <3>1. q \in update[x].nodes
      BY <1>6, <2>2, <2>3 DEF Complete
    <3>2. q \in After(update[x].nodes, x)
      BY <2>3, <3>1 DEF After
    <3>3. q \in Nat
      BY <1>6, <3>1, Numbers
    <3> QED
      BY <2>1, <2>2, <2>3, <3>2, <3>3
  <2> QED
    BY <1>6, <2>2, <2>3 DEF Adjacent, Complete
<1>8. LinkInv'
  <2>1. ASSUME NEW s \in Server \ {x}
        PROVE  view'[s].link # NULL =>
                  /\ life'[view'[s].link] # "off"
                  /\ s < view'[s].link
                  /\ \A q \in znodes' : ~(s < q /\ q < view'[s].link)
    BY <1>1, <1>3 DEF LinkInv, Adjacent
  <2>2. view'[x].link # NULL =>
           /\ life'[view'[x].link] # "off"
           /\ x < view'[x].link
           /\ \A q \in znodes' : ~(x < q /\ q < view'[x].link)
    BY <1>1, <1>3, <1>7 DEF Adjacent
  <2> QED
    BY <2>1, <2>2 DEF LinkInv, Adjacent
<1> QED
  BY <1>1, <1>3, <1>4, <1>5, <1>8, UpdateKeeps

\* What the writes do to the lists and the requests: everything before it in
\* the chain has what a server is to execute.
LEMMA WriteKeeps ==
    ASSUME TypeOK, Rest,
           UNCHANGED <<life, znodes, view, update>>,
           astray \subseteq astray',
           \A s \in Server : list[s] \subseteq list'[s],
           \A s \in Server :
              list'[s] # list[s] => life[s] = "ready",
           \A s \in Server :
              inbox'[s] \subseteq inbox[s] \/ life[s] # "off",
           WorkInv', ListInv', InboxInv'
    PROVE  Rest'
<1> USE DEF Rest
<1>1. OffInv'
  <2>1. \A s, r \in Server : s < r /\ life'[s] = "off" => life'[r] = "off"
    BY DEF OffInv
  <2>2. \A s \in Server :
           life'[s] = "off" => s \notin znodes' /\ inbox'[s] = {}
    BY DEF OffInv
  <2>3. \A s \in Server :
           life'[s] \notin {"copied", "ready"} => list'[s] = {}
    BY DEF OffInv
  <2> QED
    BY <2>1, <2>2, <2>3 DEF OffInv
<1>2. UpdateInv' /\ LinkInv' /\ CopyInv'
  BY DEF UpdateInv, Complete, LinkInv, CopyInv, Adjacent
<1> QED
  BY <1>1, <1>2

LEMMA CallKeeps ==
    ASSUME TypeOK, Rest, NEW x \in Server, NEW w \in Write, Call(w, x)
    PROVE  Rest'
<1> USE DEF Rest
<1> DEFINE m == [from |-> Client, id |-> w, attempt |-> 1]
<1>1. UNCHANGED <<life, znodes, view, update, list, work>>
  BY DEF Call, topology
<1>2. /\ inbox'[x] = inbox[x] \cup {m}
      /\ \A s \in Server \ {x} : inbox'[s] = inbox[s]
      /\ life[x] = "ready"
  BY DEF TypeOK, Call
<1>3. /\ astray \subseteq astray'
      /\ Before(znodes, x) = {} \/ w \in astray'
  BY DEF Call
<1>4. WorkInv'
  BY <1>1 DEF WorkInv
<1>5. ListInv'
  BY <1>1, <1>3 DEF ListInv, Alive, Running
<1>6. InboxInv'
  <2> SUFFICES ASSUME NEW r \in Server, NEW n \in inbox'[r],
                      n.id \notin astray',
                      NEW s \in Server, s < r, s \in znodes, Running(s)
               PROVE  n.id \in list[s]
    BY <1>1 DEF InboxInv, Alive, Running
  <2>1. CASE n \in inbox[r]
    BY <1>3, <2>1 DEF InboxInv, Alive
  <2>2. CASE n \notin inbox[r]
    <3>1. r = x /\ n.id = w
      BY <1>2, <2>2
    <3>2. s \in Before(znodes, x)
      BY <3>1 DEF Before
    <3> QED
      BY <1>3, <3>1, <3>2
  <2> QED
    BY <2>1, <2>2
<1> HIDE DEF m
<1> QED
  BY <1>1, <1>2, <1>3, <1>4, <1>5, <1>6, WriteKeeps

LEMMA ExecuteKeeps ==
    ASSUME TypeOK, Rest, NEW x \in Server, NEW m \in inbox[x], Execute(x, m)
    PROVE  Rest'
<1> USE DEF Rest
<1>1. UNCHANGED <<life, znodes, view, update, astray>>
  BY DEF Execute, topology
<1>2. /\ inbox'[x] = inbox[x] \ {m}
      /\ \A s \in Server \ {x} : inbox'[s] = inbox[s]
      /\ life[x] = "ready"
  BY DEF TypeOK, Execute
<1>3. /\ list'[x] = list[x] \cup {m.id}
      /\ \A s \in Server \ {x} : list'[s] = list[s]
  BY DEF TypeOK, Execute
<1>4. WorkInv'
  <2>1. /\ work'[x] = [Idle EXCEPT !.pc = "forward", !.from = m.from,
                                   !.id = m.id, !.as = m.attempt]
        /\ \A s \in Server \ {x} : work'[s] = work[s]
    BY DEF TypeOK, Execute
  <2>2. work'[x].id = m.id
    BY <2>1 DEF Idle
  <2> QED
    BY <1>3, <2>1, <2>2 DEF WorkInv
<1>5. ListInv'
  <2> SUFFICES ASSUME NEW s \in Server, NEW r \in Server, s < r, Alive(s)
               PROVE  list'[r] \ astray \subseteq list'[s]
    BY <1>1 DEF ListInv, Alive, Running
  <2>1. list[r] \ astray \subseteq list[s]
    BY DEF ListInv
  <2>2. CASE r = x
    <3>1. m.id \notin astray => m.id \in list[s]
      BY <2>2 DEF InboxInv
    <3> QED
      BY <1>3, <2>1, <2>2, <3>1
  <2>3. CASE r # x
    BY <1>3, <2>1, <2>3
  <2> QED
    BY <2>2, <2>3
<1>6. InboxInv'
  <2>1. \A s \in Server : list[s] \subseteq list'[s]
    BY <1>3
  <2> QED
    BY <1>1, <1>2, <2>1 DEF InboxInv, Alive, Running
<1> QED
  BY <1>1, <1>2, <1>3, <1>4, <1>5, <1>6, WriteKeeps

\* A server sends what it has executed to a server with nobody in between.
LEMMA SendKeeps ==
    ASSUME TypeOK, Rest, NEW x \in Server, ForwardSend(x), Kept
    PROVE  Rest'
<1> USE DEF Rest
<1> DEFINE r == view[x].link
           m == [from |-> x, id |-> work[x].id, attempt |-> work[x].attempt]
<1>1. UNCHANGED <<life, znodes, view, update, list, astray>>
  BY DEF ForwardSend, WorkStep, topology, writes
<1>2. r # NULL /\ r \in Server /\ work[x].pc # "idle"
  BY DEF ForwardSend, TypeOK, View
<1>3. life[r] # "off" /\ Adjacent(x, r)
  BY <1>2 DEF LinkInv
<1>4. inbox' = inbox \/ inbox' = [inbox EXCEPT ![r] = inbox[r] \cup {m}]
  BY DEF ForwardSend
<1>5. m.id \in list[x]
  BY <1>2 DEF WorkInv
<1> HIDE DEF r, m
<1>6. /\ inbox'[r] \subseteq inbox[r] \cup {m}
      /\ \A s \in Server \ {r} : inbox'[s] = inbox[s]
  BY <1>2, <1>4 DEF TypeOK
<1>7. WorkInv'
  BY <1>1 DEF WorkInv, Kept
<1>8. ListInv'
  BY <1>1 DEF ListInv, Alive, Running
<1>9. InboxInv'
  <2> SUFFICES ASSUME NEW q \in Server, NEW n \in inbox'[q],
                      n.id \notin astray,
                      NEW s \in Server, s < q, Alive(s)
               PROVE  n.id \in list[s]
    BY <1>1 DEF InboxInv, Alive, Running
  <2>1. CASE n \in inbox[q]
    BY <2>1 DEF InboxInv
  <2>2. CASE n \notin inbox[q]
    <3>1. q = r /\ n = m
      BY <1>6, <2>2
    <3>2. s \in znodes /\ ~(x < s)
      BY <1>3, <3>1 DEF Adjacent, Alive
    <3>3. s = x \/ s < x
      BY <3>2, Numbers
    <3>4. s < x => list[x] \ astray \subseteq list[s]
      BY DEF ListInv
    <3> QED
      BY <1>5, <3>1, <3>3, <3>4
  <2> QED
    BY <2>1, <2>2
<1>10. \A s \in Server : inbox'[s] \subseteq inbox[s] \/ life[s] # "off"
  BY <1>3, <1>6
<1> QED
  BY <1>1, <1>7, <1>8, <1>9, <1>10, WriteKeeps

LEMMA OthersKeep ==
    ASSUME TypeOK, Rest, NEW x \in Server,
           \/ Close(x) \/ Expire(x) \/ CopyFails(x) \/ Listen(x)
           \/ ForwardUnconnected(x) \/ ForwardNothing(x)
           \/ ReadElsewhere(x) \/ AnswerClient(x) \/ AnswerServer(x)
    PROVE  Rest'
<1>1. CASE Close(x) \/ Expire(x)
  <2>1. SessionEnds(x)
    BY <1>1 DEF Close, Expire
  <2>2. /\ znodes' \subseteq znodes
        /\ UNCHANGED <<life, view, update, list, inbox, work, astray>>
    BY <2>1 DEF SessionEnds, writes
  <2> QED
    BY <2>2, QuietKeeps DEF Kept
<1>2. CASE CopyFails(x) \/ Listen(x)
  <2>1. UNCHANGED <<znodes, view, update, list, inbox, work, astray>>
    BY <1>2 DEF CopyFails, Listen, topology, writes
  <2>2. \A s \in Server :
           \/ life'[s] = life[s]
           \/ /\ life[s] \in {"joining", "copied"}
              /\ life'[s] \in {"copied", "ready"}
    BY <1>2 DEF CopyFails, Listen, TypeOK
  <2> QED
    BY <2>1, <2>2, QuietKeeps DEF Kept
<1>3. CASE \/ ForwardUnconnected(x) \/ ForwardNothing(x)
           \/ ReadElsewhere(x) \/ AnswerClient(x) \/ AnswerServer(x)
  <2>1. UNCHANGED <<life, znodes, view, update, list, inbox, astray>>
    BY <1>3 DEF ForwardUnconnected, ForwardNothing, ReadElsewhere,
                AnswerClient, AnswerServer, WorkStep, topology, writes
  <2>2. Kept
    BY <1>3, ForwardWork, AnswerServerWork
  <2> QED
    BY <2>1, <2>2, QuietKeeps
<1> QED
  BY <1>1, <1>2, <1>3

LEMMA RestInit == Init => Rest
<1> SUFFICES ASSUME Init PROVE Rest
  OBVIOUS
<1> DEFINE serving == 1..Serving
<1>1. serving \in SUBSET Server
  BY SystemAssumption DEF Server
<1>2. /\ znodes = serving
      /\ \A s \in Server :
            /\ life[s] = IF s \in serving THEN "ready" ELSE "off"
            /\ list[s] = {} /\ inbox[s] = {}
            /\ work[s] = Idle /\ update[s] = NoUpdate
  BY DEF Init
<1>3. \A s \in Server :
         view[s].link =
            IF s \in serving THEN SuccessorIn(serving, s) ELSE NULL
  BY DEF Init, NoView
<1>4. OffInv
  <2>1. ASSUME NEW s \in Server, NEW r \in Server, s < r, life[s] = "off"
        PROVE  life[r] = "off"
    <3>1. s \notin 1..Serving
      BY <1>2, <2>1
    <3>2. r \notin 1..Serving
      BY <2>1, <3>1, SystemAssumption DEF Server
    <3> QED
      BY <1>2, <3>2
  <2> HIDE DEF serving
  <2>2. \A s \in Server : life[s] = "off" => s \notin znodes /\ inbox[s] = {}
    BY <1>2
  <2>3. \A s \in Server : life[s] \notin {"copied", "ready"} => list[s] = {}
    BY <1>2
  <2> QED
    BY <2>1, <2>2, <2>3 DEF OffInv
<1>5. WorkInv /\ UpdateInv
  BY <1>2 DEF WorkInv, UpdateInv, Idle, NoUpdate
<1>6. LinkInv
  <2> SUFFICES ASSUME NEW s \in Server, view[s].link # NULL
               PROVE  life[view[s].link] # "off" /\ Adjacent(s, view[s].link)
    BY DEF LinkInv
  <2> HIDE DEF serving
  <2>1. /\ view[s].link \in After(serving, s)
        /\ \A q \in After(serving, s) : view[s].link <= q
    BY <1>1, <1>3, Successor
  <2>2. /\ view[s].link \in serving /\ s < view[s].link
        /\ view[s].link \in Nat
    BY <1>1, <2>1, Numbers DEF After
  <2>3. ASSUME NEW q \in znodes, s < q, q < view[s].link PROVE FALSE
    <3>1. q \in After(serving, s) /\ q \in Nat
      BY <1>1, <1>2, <2>3, Numbers DEF After
    <3> QED
      BY <2>1, <2>2, <2>3, <3>1
  <2>4. life[view[s].link] # "off"
    BY <1>1, <1>2, <2>2
  <2> QED
    BY <2>2, <2>3, <2>4 DEF Adjacent
<1>7. CopyInv
  <2> HIDE DEF serving
  <2> QED
    BY <1>2 DEF CopyInv
<1>8. ListInv /\ InboxInv
  BY <1>2 DEF ListInv, InboxInv
<1> QED
  BY <1>4, <1>5, <1>6, <1>7, <1>8 DEF Rest

LEMMA Invariant == Spec => [](TypeOK /\ Rest)
<1>1. Init => TypeOK /\ Rest
  BY TypeInit, RestInit
<1>2. TypeOK /\ Rest /\ [Next]_vars => (TypeOK /\ Rest)'
  <2> SUFFICES ASSUME TypeOK, Rest, [Next]_vars PROVE TypeOK' /\ Rest'
    OBVIOUS
  <2>1. TypeOK'
    BY TypeNext DEF Rest
  <2>2. ASSUME UNCHANGED vars PROVE Rest'
    <3>1. UNCHANGED <<life, znodes, view, update, list, inbox, work, astray>>
      BY <2>2 DEF vars, topology, writes
    <3> QED
      BY <3>1, QuietKeeps DEF Kept
  <2>3. ASSUME Next PROVE Rest'
    <3>1. PICK s \in Server :
              \/ Ends(s)
              \/ Close(s) \/ Expire(s)
              \/ Join(s) \/ Copy(s) \/ CopyFails(s) \/ Listen(s)
              \/ BeginUpdate(s) \/ Commit(s) \/ CommitUnconnected(s)
              \/ \E w \in Write : Call(w, s)
              \/ \E m \in inbox[s] : Execute(s, m)
              \/ ForwardUnconnected(s) \/ ForwardNothing(s) \/ ForwardSend(s)
              \/ ReadElsewhere(s) \/ AnswerClient(s) \/ AnswerServer(s)
      BY <2>3, Steps
    <3>2. CASE Ends(s)
      BY <3>2, EndsType, EndsStarted, StopKeeps DEF Rest
    <3>3. CASE \/ Close(s) \/ Expire(s) \/ CopyFails(s) \/ Listen(s)
               \/ ForwardUnconnected(s) \/ ForwardNothing(s)
               \/ ReadElsewhere(s) \/ AnswerClient(s) \/ AnswerServer(s)
      BY <3>3, OthersKeep
    <3>4. CASE Join(s) \/ Copy(s)
      BY <3>4, JoinKeeps, CopyKeeps
    <3>5. CASE BeginUpdate(s) \/ Commit(s) \/ CommitUnconnected(s)
      BY <3>5, BeginUpdateKeeps, CommitStep, CommitKeeps
    <3>6. CASE \/ \E w \in Write : Call(w, s)
               \/ \E m \in inbox[s] : Execute(s, m)
      BY <3>6, CallKeeps, ExecuteKeeps
    <3>7. CASE ForwardSend(s)
      BY <3>7, ForwardWork, SendKeeps
    <3> QED
      BY <3>1, <3>2, <3>3, <3>4, <3>5, <3>6, <3>7
  <2> QED
    BY <2>1, <2>2, <2>3
<1> QED
  BY <1>1, <1>2, PTL DEF Spec

\* The variables of the chain have their types, whatever happens to it.
THEOREM TypeCorrect == Spec => []TypeOK
BY Invariant, PTL

\* Whoever joins, crashes or loses its session or its successor, a server of
\* the chain that serves has executed every write that a server behind it has,
\* if no client sent the write past it.
THEOREM BehindTheorem == Spec => []SuccessorsBehind
<1>1. TypeOK /\ Rest => SuccessorsBehind
  BY DEF Rest, ListInv, SuccessorsBehind, Member, Alive, Running
<1> QED
  BY <1>1, Invariant, PTL

-----------------------------------------------------------------------------
(* The second invariant: where a write that is under way gets to. *)

\* A connection goes to the next server of the chain as its server knows it.
NextInv ==
    \A s \in Server :
       /\ view[s].link \in {NULL, SuccessorIn(view[s].nodes, s)}
       /\ view[s].link # NULL => life[view[s].link] \in {"ready", "down"}

\* An update that is under way has read the chain, R, when the servers P had
\* started.  Those of them it did not find were gone, and all they will ever be
\* connected to they knew before: nobody of R was between.
OldLink(s, R, P) ==
    view[s].link # NULL =>
       /\ view[s].link \in P
       /\ \A n \in R : ~(s < n /\ n < view[s].link)

ReadInv ==
    \A s \in Server : update[s].busy =>
       \E P \in SUBSET Server :
          /\ \A n \in P : life[n] # "off"
          /\ OldLink(s, update[s].nodes, P)
          /\ \A y \in P \ update[s].nodes :
                y \notin znodes /\ OldLink(y, update[s].nodes, P)

\* A server with a request serves, and nobody of the chain is between it and
\* the one it waits for.
BusyInv == \A s \in Server : work[s].pc # "idle" => life[s] = "ready"

TargetInv ==
    \A s \in Server :
       work[s].pc = "await" =>
          /\ work[s].target \in Server /\ life[work[s].target] # "off"
          /\ Adjacent(s, work[s].target)

\* A client asks for its write once, and whoever else has it has it from there.
Handles(x, w) == work[x].id = w \/ \E m \in inbox[x] : m.id = w

EntryInv ==
    \A w \in Write :
       /\ outcome[w] = "none" =>
             reach[w] = {} /\ \A s \in Server : ~Handles(s, w)
       /\ outcome[w] = "called" =>
             entry[w] \in Server /\ life[entry[w]] = "ready"

ClientWork ==
    \A w \in Write, s \in Server :
       work[s].id = w /\ work[s].from = Client =>
          outcome[w] = "called" /\ entry[w] = s

ClientInbox ==
    \A s \in Server : \A m \in inbox[s] :
       m.from = Client =>
          /\ outcome[m.id] = "called" /\ entry[m.id] = s
          /\ \A x \in Server :
                /\ work[x].id # m.id
                /\ \A k \in inbox[x] : k.id = m.id => k = m /\ x = s

FreshInv == ClientWork /\ ClientInbox

\* While somebody of reach[w] is left behind it in the chain, a server of
\* reach[w] forwards to one of them, after an update too.
Sees(x, S, w) ==
    (\E q \in reach[w] \cap znodes : q > x) => SuccessorIn(S, x) \in reach[w]

ReachOf(w) ==
    /\ \A q \in reach[w] : q > entry[w] /\ life[q] \in {"ready", "down"}
    /\ \A r \in znodes, q \in reach[w] :
          entry[w] < r /\ r < q => r \in reach[w]
    /\ \A x \in {entry[w]} \cup reach[w] :
          /\ Running(x) => Sees(x, view[x].nodes, w)
          /\ update[x].busy => Sees(x, update[x].nodes, w)

ReachInv == \A w \in Write : outcome[w] = "called" => ReachOf(w)

\* Where a write is, it has passed nobody of reach[w] by.
OnPath(x, w) ==
    \/ x \in {entry[w]} \cup reach[w]
    \/ \A q \in reach[w] : q > x => q \notin znodes

PathOf(w) == \A x \in Server : Handles(x, w) => OnPath(x, w)

PathInv == \A w \in Write : outcome[w] = "called" => PathOf(w)

\* Who is about to answer OK, and those of reach[w] behind it, have the write.
Promise(x, w) ==
    \A q \in reach[w] : q >= x /\ Alive(q) => w \in list[q]

PromiseOf(w) ==
    \A x \in Server : work[x].id = w /\ work[x].pc = "ok" => Promise(x, w)

PromiseInv == \A w \in Write : outcome[w] = "called" => PromiseOf(w)

\* Once the client has the OK, the servers of reach[w] have the write, or are
\* going to copy it.
OkOf(w) ==
    \A s \in reach[w] :
       /\ s \in znodes /\ life[s] \in {"copied", "ready"} => w \in list[s]
       /\ life[s] # "off"
       /\ life[s] = "joining" =>
             /\ view[s].predecessor \in Server
             /\ \/ life[view[s].predecessor] = "down"
                \/ w \in list[view[s].predecessor]

OkInv == \A w \in Write : outcome[w] = "ok" => OkOf(w)

LinksInv == NextInv /\ ReadInv /\ BusyInv /\ TargetInv

WriteInv ==
    EntryInv /\ FreshInv /\ ReachInv /\ PathInv /\ PromiseInv /\ OkInv

-----------------------------------------------------------------------------
(* The servers below one along the connections. *)

Closed(S) == \A q \in S : view[q].link \in S \cup {NULL}

LEMMA Links ==
    ASSUME TypeOK, LinkInv, NEW s \in Server, view[s].link # NULL
    PROVE  /\ view[s].link \in Server /\ s < view[s].link
           /\ \A q \in znodes : ~(s < q /\ q < view[s].link)
<1>1. view[s].link \in Server \cup {NULL}
  BY DEF TypeOK, View
<1> QED
  BY <1>1 DEF LinkInv, Adjacent

LEMMA BelowClosed ==
    ASSUME NEW s \in Server, NEW S \in SUBSET Server, s \in S, Closed(S)
    PROVE  Below(s) \subseteq S
BY DEF Below, Closed

\* They are a set that no connection leaves,
LEMMA BelowStep ==
    ASSUME TypeOK, LinkInv, NEW s \in Server
    PROVE  /\ {s} \cup Below(s) \in SUBSET Server
           /\ Closed({s} \cup Below(s))
<1>1. {s} \cup Below(s) \in SUBSET Server
  BY DEF Below
<1>2. ASSUME NEW q \in {s} \cup Below(s), view[q].link # NULL
      PROVE  view[q].link \in {s} \cup Below(s)
  <2>1. view[q].link \in Server
    BY <1>1, <1>2, Links
  <2>2. ASSUME NEW S \in SUBSET Server, s \in S,
               \A n \in S : view[n].link \in S \cup {NULL}
        PROVE  view[q].link \in S
    <3>1. q \in S
      BY <2>2 DEF Below
    <3> QED
      BY <1>2, <2>2, <3>1
  <2> QED
    BY <2>1, <2>2 DEF Below
<1> QED
  BY <1>1, <1>2 DEF Closed

\* that starts with the connection of the first,
LEMMA BelowNext ==
    ASSUME TypeOK, LinkInv, NEW s \in Server, NEW q \in Below(s)
    PROVE  /\ view[s].link # NULL
           /\ q = view[s].link \/ q \in Below(view[s].link)
<1>1. q # s /\ q \in Server
  BY DEF Below
<1>2. view[s].link # NULL
  <2>1. SUFFICES ASSUME view[s].link = NULL PROVE FALSE
    OBVIOUS
  <2>2. Closed({s})
    BY <2>1 DEF Closed
  <2> QED
    BY <1>1, <2>2, BelowClosed
<1>3. view[s].link \in Server
  BY <1>2, Links
<1> DEFINE r == view[s].link
           S == {s} \cup {r} \cup Below(r)
<1>4. Closed(S)
  BY <1>3, BelowStep DEF Closed
<1>5. S \in SUBSET Server
  BY <1>3, BelowStep
<1>6. q \in S
  BY <1>4, <1>5, BelowClosed
<1> QED
  BY <1>1, <1>2, <1>6

\* and goes up.
LEMMA BelowAfter ==
    ASSUME TypeOK, LinkInv, NEW s \in Server, NEW q \in Below(s)
    PROVE  q \in Server /\ q > s
<1> DEFINE S == {n \in Server : n >= s}
<1>1. Closed(S)
  <2>1. ASSUME NEW n \in Server, n >= s, view[n].link # NULL
        PROVE  view[n].link \in S
    <3>1. view[n].link \in Server /\ n < view[n].link
      BY <2>1, Links
    <3>2. s \in Nat /\ n \in Nat /\ view[n].link \in Nat
      BY <3>1, Numbers
    <3> QED
      BY <2>1, <3>1, <3>2
  <2> QED
    BY <2>1 DEF Closed
<1>2. s \in S
  BY Numbers
<1>3. q \in S
  <2> HIDE DEF S
  <2>1. S \in SUBSET Server
    BY DEF S
  <2> QED
    BY <1>1, <1>2, <2>1, BelowClosed
<1>4. q # s
  BY DEF Below
<1> QED
  BY <1>3, <1>4, Numbers

\* It is a line: of two servers the later one is below the other.
LEMMA BelowLine ==
    ASSUME TypeOK, LinkInv, NEW s \in Server,
           NEW x \in {s} \cup Below(s), NEW q \in {s} \cup Below(s), q > x
    PROVE  q \in Below(x)
<1> DEFINE U == {s} \cup Below(s)
           T == {n \in U : n < x /\ x \in Below(n)}
           S == T \cup {x} \cup Below(x)
<1>1. x \in Server /\ q \in Server /\ U \in SUBSET Server
  BY BelowStep
<1>2. s \in S
  <2>1. x = s \/ (x \in Below(s) /\ s < x)
    <3>1. x \in Below(s) => x > s
      BY BelowAfter
    <3>2. x \in Nat /\ s \in Nat
      BY <1>1, Numbers
    <3> QED
      BY <3>1, <3>2
  <2> QED
    BY <2>1
<1>3. ASSUME NEW n \in T
      PROVE  view[n].link \in S
  <2>1. n \in Server /\ n \in U /\ n < x /\ x \in Below(n)
    BY <1>1
  <2>2. /\ view[n].link # NULL
        /\ x = view[n].link \/ x \in Below(view[n].link)
    BY <2>1, BelowNext
  <2>3. view[n].link \in U
    BY <2>1, <2>2, BelowStep DEF Closed
  <2>4. x \in Below(view[n].link) => view[n].link < x
    BY <1>1, <2>3, BelowAfter, Numbers
  <2> QED
    BY <2>2, <2>3, <2>4
<1>4. ASSUME NEW n \in {x} \cup Below(x)
      PROVE  view[n].link \in S \cup {NULL}
  BY <1>1, <1>4, BelowStep DEF Closed
<1>5. S \in SUBSET Server
  BY <1>1, BelowStep
<1>6. Closed(S)
  <2> HIDE DEF T
  <2> QED
    BY <1>3, <1>4 DEF Closed
<1>7. q \in S
  <2> HIDE DEF S
  <2> QED
    BY <1>2, <1>5, <1>6, BelowClosed
<1>8. q \notin T /\ q # x
  BY <1>1, Numbers
<1> QED
  BY <1>7, <1>8

\* All of them have started to serve,
LEMMA BelowLife ==
    ASSUME TypeOK, LinkInv, NextInv, NEW s \in Server, NEW q \in Below(s)
    PROVE  life[q] \in {"ready", "down"}
<1> DEFINE S == {s} \cup {n \in Server : life[n] \in {"ready", "down"}}
<1>1. Closed(S)
  BY Links DEF Closed, NextInv
<1>2. q \in S
  <2>1. S \in SUBSET Server /\ s \in S
    OBVIOUS
  <2> HIDE DEF S
  <2> QED
    BY <1>1, <2>1, BelowClosed
<1> QED
  BY <1>2 DEF Below

\* nobody of the chain is left out between them,
LEMMA BelowFilled ==
    ASSUME TypeOK, LinkInv, NEW s \in Server, NEW q \in Below(s),
           NEW r \in znodes, s < r, r < q
    PROVE  r \in Below(s)
<1> SUFFICES ASSUME r \notin Below(s) PROVE FALSE
  OBVIOUS
<1> DEFINE S == {n \in {s} \cup Below(s) : n < r}
<1>1. r \in Server /\ r \in Nat /\ s \in Nat /\ q \in Nat
  BY BelowAfter, Numbers DEF TypeOK
<1>2. S \in SUBSET Server
  BY BelowStep
<1>3. ASSUME NEW n \in S, view[n].link # NULL
      PROVE  view[n].link \in S
  <2>1. /\ view[n].link \in Server /\ n < view[n].link
        /\ ~(n < r /\ r < view[n].link)
    BY <1>2, <1>3, Links
  <2>2. view[n].link \in {s} \cup Below(s)
    BY <1>3, BelowStep DEF Closed
  <2>3. view[n].link # r
    BY <1>1, <2>2
  <2>4. view[n].link \in Nat
    BY <2>1, Numbers
  <2> QED
    BY <1>1, <2>1, <2>2, <2>3, <2>4
<1>4. Closed(S)
  BY <1>3 DEF Closed
<1>5. q \in S
  <2>1. s \in S
    OBVIOUS
  <2> HIDE DEF S
  <2> QED
    BY <1>2, <1>4, <2>1, BelowClosed
<1> QED
  BY <1>1, <1>5

\* each of them knows that there is one behind it, if there is,
LEMMA BelowViews ==
    ASSUME TypeOK, LinkInv, NextInv, NEW s \in Server,
           NEW x \in {s} \cup Below(s), NEW q \in Below(s), q > x
    PROVE  SuccessorIn(view[x].nodes, x) \in Below(s)
<1>1. x \in Server /\ q \in Below(x)
  BY BelowStep, BelowLine
<1>2. view[x].link # NULL
  BY <1>1, BelowNext
<1>3. view[x].link \in {s} \cup Below(s) /\ view[x].link > x
  BY <1>1, <1>2, BelowStep, Links DEF Closed
<1>4. x = s \/ x > s
  BY BelowAfter
<1>5. s \in Nat /\ x \in Nat
  BY <1>1, Numbers
<1>6. view[x].link # s
  BY <1>3, <1>4, <1>5
<1> QED
  BY <1>1, <1>2, <1>3, <1>6 DEF NextInv

\* and will know after the update that is under way.
LEMMA BelowUpdates ==
    ASSUME TypeOK, Rest, LinksInv, NEW s \in Server,
           NEW x \in {s} \cup Below(s), update[x].busy,
           NEW q \in Below(s), q \in znodes, q > x
    PROVE  SuccessorIn(update[x].nodes, x) \in Below(s)
<1> DEFINE R == update[x].nodes
           next == SuccessorIn(R, x)
<1>0. LinkInv /\ NextInv /\ ReadInv /\ UpdateInv
  BY DEF Rest, LinksInv
<1>1. x \in Server /\ q \in Server /\ q \in Below(x)
  BY <1>0, BelowStep, BelowLine
<1>2. PICK P \in SUBSET Server :
         /\ OldLink(x, R, P)
         /\ \A y \in P \ R : y \notin znodes /\ OldLink(y, R, P)
  BY <1>0, <1>1 DEF ReadInv
<1>3. R \in SUBSET Server /\ Complete(R)
  BY <1>0, <1>1 DEF TypeOK, Update, UpdateInv
<1> HIDE DEF R
<1>4. ASSUME NEW S \in SUBSET P, \A n \in S : n \notin R,
             \A n \in {x} \cup S, r \in P :
                r = view[n].link /\ n < r => r \in S
      PROVE  FALSE
  <2>1. \A n \in {x} \cup S : n \in Server /\ OldLink(n, R, P)
    BY <1>1, <1>2, <1>4
  <2>2. ASSUME NEW n \in {x} \cup S, view[n].link # NULL
        PROVE  view[n].link \in S
    <3>1. view[n].link \in P
      BY <2>1, <2>2 DEF OldLink
    <3>2. n < view[n].link
      BY <1>0, <2>1, <2>2, Links
    <3> QED
      BY <1>4, <3>1, <3>2
  <2>3. Closed({x} \cup S)
    BY <2>2 DEF Closed
  <2>4. q \in {x} \cup S
    <3>1. {x} \cup S \in SUBSET Server
      BY <1>1
    <3> QED
      BY <1>1, <2>3, <3>1, BelowClosed
  <2>5. q # x
    BY <1>1 DEF Below
  <2>6. q \notin znodes
    BY <1>2, <1>4, <2>4, <2>5
  <2> QED
    BY <2>6
<1>5. next # NULL
  <2> SUFFICES ASSUME next = NULL PROVE FALSE
    OBVIOUS
  <2>1. \A n \in R : ~(n > x)
    BY <1>1, <1>3, Successor DEF After
  <2> DEFINE S == {n \in P \ R : n > x}
  <2>2. \A n \in {x} \cup S, r \in P :
           r = view[n].link /\ n < r => r \in S
    <3> SUFFICES ASSUME NEW n \in {x} \cup S, NEW r \in P, n < r
                 PROVE  r \in S
      OBVIOUS
    <3>1. n \in Nat /\ r \in Nat /\ x \in Nat
      BY <1>1, Numbers
    <3> QED
      BY <2>1, <3>1
  <2>3. S \in SUBSET P /\ \A n \in S : n \notin R
    OBVIOUS
  <2> HIDE DEF S, next
  <2> QED
    BY <1>4, <2>2, <2>3
<1>6. /\ next \in R /\ next \in Server /\ x < next
      /\ \A n \in R : x < n => next <= n
  BY <1>1, <1>3, <1>5, Successor DEF After
<1> HIDE DEF next
<1>7. next <= q
  <2>1. q \in Nat /\ next \in Nat /\ x \in Nat
    BY <1>1, <1>6, Numbers
  <2>2. q < next => q \in R
    BY <1>3, <1>6 DEF Complete
  <2> QED
    BY <1>6, <2>1, <2>2
<1>8. next \in Below(s)
  <2> SUFFICES ASSUME next \notin Below(s) PROVE FALSE
    OBVIOUS
  <2> DEFINE S == {n \in (P \ R) \cap Below(s) : x < n /\ n < next}
  <2>1. \A n \in {x} \cup S, r \in P :
           r = view[n].link /\ n < r => r \in S
    <3> SUFFICES ASSUME NEW n \in {x} \cup S, NEW r \in P,
                        r = view[n].link, n < r
                 PROVE  r \in S
      OBVIOUS
    <3>1. n \in Server /\ n \in {s} \cup Below(s) /\ OldLink(n, R, P)
      BY <1>1, <1>2
    <3>2. r \in Server /\ view[n].link # NULL
      BY Numbers
    <3>3. r \in {s} \cup Below(s)
      BY <1>0, <3>1, <3>2, BelowStep DEF Closed
    <3>4. ~(n < next /\ next < r)
      BY <1>6, <3>1, <3>2 DEF OldLink
    <3>5. s \in Nat /\ x \in Nat /\ n \in Nat /\ r \in Nat /\ next \in Nat
      BY <1>1, <1>6, <3>1, <3>2, Numbers
    <3>6. n < next /\ x <= n
      BY <1>6, <3>5
    <3>7. x = s \/ x > s
      BY <1>0, BelowAfter
    <3>8. r \in Below(s)
      BY <3>3, <3>5, <3>6, <3>7
    <3>9. x < r /\ r < next
      BY <3>4, <3>5, <3>6, <3>8
    <3>10. r \notin R
      BY <1>6, <3>5, <3>9
    <3> QED
      BY <3>8, <3>9, <3>10
  <2>2. S \in SUBSET P /\ \A n \in S : n \notin R
    OBVIOUS
  <2> HIDE DEF S
  <2> QED
    BY <1>4, <2>1, <2>2
<1> QED
  BY <1>8 DEF next, R

-----------------------------------------------------------------------------
(* What the steps change. *)

LEMMA StopFacts ==
    ASSUME TypeOK, NEW x \in Server, Stop(x)
    PROVE  /\ life'[x] = "down" /\ view'[x] = NoView
           /\ update'[x] = NoUpdate /\ work'[x] = Idle
           /\ list'[x] = {} /\ inbox'[x] = {}
           /\ \A s \in Server \ {x} :
                 /\ life'[s] = life[s] /\ view'[s] = view[s]
                 /\ update'[s] = update[s] /\ work'[s] = work[s]
                 /\ list'[s] = list[s] /\ inbox'[s] = inbox[s]
           /\ znodes' = znodes
           /\ \A w \in Write :
                 IF entry[w] = x THEN outcome'[w] = "lost"
                 ELSE /\ outcome'[w] = outcome[w] /\ entry'[w] = entry[w]
                      /\ reach'[w] = reach[w]
<1>1. /\ life'[x] = "down" /\ view'[x] = NoView
      /\ \A s \in Server \ {x} : life'[s] = life[s] /\ view'[s] = view[s]
  BY DEF Stop, TypeOK
<1>2. /\ update'[x] = NoUpdate /\ work'[x] = Idle
      /\ \A s \in Server \ {x} : update'[s] = update[s] /\ work'[s] = work[s]
  BY DEF Stop, TypeOK
<1>3. /\ list'[x] = {} /\ inbox'[x] = {}
      /\ \A s \in Server \ {x} : list'[s] = list[s] /\ inbox'[s] = inbox[s]
  BY DEF Stop, TypeOK
<1>4. \A w \in Write :
         IF entry[w] = x THEN outcome'[w] = "lost"
         ELSE /\ outcome'[w] = outcome[w] /\ entry'[w] = entry[w]
              /\ reach'[w] = reach[w]
  BY DEF Stop
<1>5. znodes' = znodes
  BY DEF Stop
<1> QED
  BY <1>1, <1>2, <1>3, <1>4, <1>5

LEMMA JoinFacts ==
    ASSUME TypeOK, NEW x \in Server, Join(x)
    PROVE  /\ life[x] = "off" /\ life'[x] = "joining"
           /\ view'[x].link = NULL
           /\ \A s \in Server \ {x} :
                 life'[s] = life[s] /\ view'[s] = view[s]
           /\ znodes' = znodes \cup {x}
           /\ UNCHANGED <<update, list, inbox, work, outcome, entry>>
           /\ \A w \in Write :
                 \/ reach'[w] = reach[w]
                 \/ /\ outcome[w] = "ok" /\ reach'[w] = reach[w] \cup {x}
                    /\ view'[x].predecessor \in Server
                    /\ w \in list[view'[x].predecessor]
<1>1. /\ life[x] = "off" /\ life'[x] = "joining"
      /\ \A s \in Server \ {x} : life'[s] = life[s]
  BY DEF Join, TypeOK
<1>2. /\ view'[x].link = NULL
      /\ view'[x].predecessor = PredecessorIn(znodes', x)
      /\ \A s \in Server \ {x} : view'[s] = view[s]
  BY DEF Join, TypeOK
<1>3. /\ znodes' = znodes \cup {x} /\ znodes' \in SUBSET Server
      /\ UNCHANGED <<update, list, inbox, work, outcome, entry>>
  BY DEF Join, TypeOK
<1>4. ASSUME NEW w \in Write, reach'[w] # reach[w]
      PROVE  /\ outcome[w] = "ok" /\ reach'[w] = reach[w] \cup {x}
             /\ view'[x].predecessor \in Server
             /\ w \in list[view'[x].predecessor]
  <2> DEFINE pred == PredecessorIn(znodes', x)
  <2>1. reach'[w] = IF outcome[w] = "ok" /\ pred # NULL /\ w \in list[pred]
                    THEN reach[w] \cup {x} ELSE reach[w]
    BY DEF Join
  <2>2. pred \in Server \cup {NULL}
    BY <1>3, Predecessor DEF Before
  <2> HIDE DEF pred
  <2>3. view'[x].predecessor = pred
    BY <1>2 DEF pred
  <2> QED
    BY <1>4, <2>1, <2>2, <2>3
<1> QED
  BY <1>1, <1>2, <1>3, <1>4

\* A start that goes on.
LEMMA StartFacts ==
    ASSUME TypeOK, NEW x \in Server, Copy(x) \/ CopyFails(x) \/ Listen(x)
    PROVE  /\ life[x] \in {"joining", "copied"}
           /\ life'[x] \in {"copied", "ready"}
           /\ \A s \in Server \ {x} :
                 life'[s] = life[s] /\ list'[s] = list[s]
           /\ UNCHANGED <<znodes, view, update, inbox, work, outcome, entry>>
           /\ \A w \in Write : reach'[w] = reach[w] \/
                 (life[x] = "joining" /\ reach'[w] = reach[w] \ {x})
           /\ life[x] = "joining" =>
                 \/ \A w \in Write : reach'[w] = reach[w] \ {x}
                 \/ reach' = reach /\ view[x].predecessor = NULL
                 \/ /\ reach' = reach /\ list'[x] = list[view[x].predecessor]
                    /\ life[view[x].predecessor] = "ready"
           /\ life[x] = "copied" => reach' = reach /\ list' = list
<1> USE DEF topology, writes
<1>1. CASE Copy(x)
  BY <1>1 DEF Copy, TypeOK
<1>2. CASE CopyFails(x)
  <2>1. life'[x] = "copied" /\ \A s \in Server \ {x} : life'[s] = life[s]
    BY <1>2 DEF CopyFails, TypeOK
  <2>2. \A w \in Write : reach'[w] = reach[w] \ {x}
    BY <1>2 DEF CopyFails
  <2>3. /\ life[x] = "joining"
        /\ UNCHANGED <<znodes, view, update, list, inbox, work, outcome, entry>>
    BY <1>2 DEF CopyFails
  <2> QED
    BY <2>1, <2>2, <2>3
<1>3. CASE Listen(x)
  BY <1>3 DEF Listen, TypeOK
<1> QED
  BY <1>1, <1>2, <1>3

SameWork ==
    \A s \in Server :
       /\ work'[s].pc = work[s].pc /\ work'[s].id = work[s].id
       /\ work'[s].from = work[s].from /\ work'[s].target = work[s].target

LEMMA CommitFacts ==
    ASSUME TypeOK, NEW x \in Server, Commit(x) \/ CommitUnconnected(x)
    PROVE  /\ update[x].busy /\ ~update'[x].busy
           /\ view'[x].link \in {NULL, SuccessorIn(update[x].nodes, x)}
           /\ view'[x].nodes = update[x].nodes
           /\ view'[x].link # NULL =>
                 x \in znodes /\ life[view'[x].link] = "ready"
           /\ \A s \in Server \ {x} :
                 view'[s] = view[s] /\ update'[s] = update[s]
           /\ \A s \in Server : view'[s].predecessor = view[s].predecessor
           /\ SameWork
           /\ UNCHANGED <<life, znodes, list, inbox, outcome, entry, reach>>
<1>1. PICK link \in {NULL, SuccessorIn(update[x].nodes, x)} :
         /\ CommitLink(x, link) /\ update[x].busy
         /\ link # NULL => x \in znodes /\ life[link] = "ready"
  BY DEF Commit, CommitUnconnected
<1>2. /\ view'[x].link = link /\ view'[x].nodes = update[x].nodes
      /\ \A s \in Server : view'[s].predecessor = view[s].predecessor
      /\ \A s \in Server \ {x} : view'[s] = view[s]
  BY <1>1 DEF CommitLink, TypeOK, View
<1>3. /\ ~update'[x].busy
      /\ \A s \in Server \ {x} : update'[s] = update[s]
  BY <1>1 DEF CommitLink, TypeOK, NoUpdate
<1>4. SameWork
  BY <1>1 DEF CommitLink, TypeOK, Work, SameWork
<1>5. UNCHANGED <<life, znodes, list, inbox, outcome, entry, reach>>
  BY <1>1 DEF CommitLink, writes
<1> QED
  BY <1>1, <1>2, <1>3, <1>4, <1>5

LEMMA SessionFacts ==
    ASSUME NEW x \in Server, Close(x) \/ Expire(x)
    PROVE  /\ znodes' = znodes \ {x}
           /\ UNCHANGED <<life, view, update, list, inbox, work, outcome, entry,
                          reach>>
BY DEF Close, Expire, SessionEnds, writes

LEMMA BeginFacts ==
    ASSUME TypeOK, NEW x \in Server, BeginUpdate(x)
    PROVE  /\ update'[x].nodes = znodes
           /\ \A s \in Server \ {x} : update'[s] = update[s]
           /\ UNCHANGED <<life, znodes, view, list, inbox, work, outcome, entry,
                          reach>>
BY DEF BeginUpdate, TypeOK, writes

LEMMA CallFacts ==
    ASSUME TypeOK, NEW x \in Server, NEW w \in Write, Call(w, x)
    PROVE  /\ outcome[w] = "none" /\ life[x] = "ready"
           /\ outcome'[w] = "called" /\ entry'[w] = x
           /\ \A v \in Write \ {w} :
                 outcome'[v] = outcome[v] /\ entry'[v] = entry[v]
           /\ inbox'[x] =
                 inbox[x] \cup {[from |-> Client, id |-> w, attempt |-> 1]}
           /\ \A s \in Server \ {x} : inbox'[s] = inbox[s]
           /\ UNCHANGED <<life, znodes, view, update, list, work, reach>>
BY DEF Call, TypeOK, topology

LEMMA ExecuteFacts ==
    ASSUME TypeOK, NEW x \in Server, NEW m \in inbox[x], Execute(x, m)
    PROVE  /\ life[x] = "ready" /\ work[x].pc = "idle"
           /\ m.id \in Write /\ m.from \in Server \cup {Client}
           /\ work'[x].pc = "forward" /\ work'[x].from = m.from
           /\ work'[x].id = m.id
           /\ inbox'[x] = inbox[x] \ {m} /\ list'[x] = list[x] \cup {m.id}
           /\ \A s \in Server \ {x} :
                 /\ work'[s] = work[s] /\ inbox'[s] = inbox[s]
                 /\ list'[s] = list[s]
           /\ m.from = Client => reach'[m.id] = Below(x)
           /\ m.from # Client => reach' = reach
           /\ \A w \in Write \ {m.id} : reach'[w] = reach[w]
           /\ UNCHANGED <<life, znodes, view, update, outcome, entry>>
<1>1. m \in Request
  BY DEF TypeOK
<1>2. m.from \in Server \cup {Client} /\ m.id \in Write /\ m.attempt \in 1..2
  BY <1>1 DEF Request
<1>3. /\ work'[x].pc = "forward" /\ work'[x].from = m.from
      /\ work'[x].id = m.id
      /\ \A s \in Server \ {x} : work'[s] = work[s]
  BY DEF Execute, TypeOK, Idle
<1>4. /\ inbox'[x] = inbox[x] \ {m} /\ list'[x] = list[x] \cup {m.id}
      /\ \A s \in Server \ {x} :
            inbox'[s] = inbox[s] /\ list'[s] = list[s]
  BY DEF Execute, TypeOK
<1>5. /\ m.from = Client => reach'[m.id] = Below(x)
      /\ m.from # Client => reach' = reach
      /\ \A w \in Write \ {m.id} : reach'[w] = reach[w]
  BY <1>2 DEF Execute, TypeOK
<1>6. /\ life[x] = "ready" /\ work[x].pc = "idle"
      /\ UNCHANGED <<life, znodes, view, update, outcome, entry>>
  BY DEF Execute, topology
<1> QED
  BY <1>2, <1>3, <1>4, <1>5, <1>6

\* What becomes of a request while it is forwarded.
Carries(r) ==
    /\ work[r].pc # "idle"
    /\ work'[r].id = work[r].id /\ work'[r].from = work[r].from

WorkMoves(r) ==
    \/ work'[r] = work[r] \/ work'[r] = Idle
    \/ Carries(r) /\ work'[r].pc \in {"forward", "error", "lost", "stuck"}
    \/ /\ Carries(r) /\ work'[r].pc = "await"
       /\ work'[r].target = view[r].link /\ view[r].link # NULL
    \/ /\ Carries(r) /\ work'[r].pc = "ok"
       /\ \/ SuccessorIn(view[r].nodes, r) = NULL
          \/ \E s \in Server :
                /\ work[r].pc = "await" /\ work[r].target = s
                /\ work[s].pc = "ok" /\ work[s].id = work[r].id

LEMMA ForwardFacts ==
    ASSUME TypeOK, NEW s \in Server,
           \/ ForwardUnconnected(s) \/ ForwardNothing(s) \/ ForwardSend(s)
           \/ ReadElsewhere(s) \/ AnswerServer(s)
    PROVE  /\ \A r \in Server : WorkMoves(r)
           /\ \A r \in Server : \A m \in inbox'[r] :
                 \/ m \in inbox[r]
                 \/ /\ m.from # Client /\ m.id = work[s].id
                    /\ r = view[s].link
           /\ UNCHANGED <<life, znodes, view, update, list, outcome, entry,
                          reach>>
<1>1. UNCHANGED <<life, znodes, view, update, list, outcome, entry, reach>>
  BY DEF ForwardUnconnected, ForwardNothing, ForwardSend, ReadElsewhere,
         AnswerServer, WorkStep, topology, writes
<1>2. work \in [Server -> Work] /\ work[s] \in Work
  BY DEF TypeOK
<1>3. \A r \in Server \ {s} : work'[r] = work[r] => WorkMoves(r)
  BY DEF WorkMoves
<1>4. CASE ForwardUnconnected(s) \/ ForwardNothing(s) \/ ReadElsewhere(s)
  <2>1. \A r \in Server \ {s} : work'[r] = work[r]
    BY <1>2, <1>4
       DEF ForwardUnconnected, ForwardNothing, ReadElsewhere, Goto
  <2>2. WorkMoves(s)
    BY <1>2, <1>4
       DEF ForwardUnconnected, ForwardNothing, ReadElsewhere, Goto, WorkMoves,
           Carries, Work, HasSuccessor
  <2>3. inbox' = inbox
    BY <1>4 DEF ForwardUnconnected, ForwardNothing, ReadElsewhere
  <2> QED
    BY <1>1, <1>3, <2>1, <2>2, <2>3
<1>5. CASE ForwardSend(s)
  <2>1. \A r \in Server \ {s} : work'[r] = work[r]
    BY <1>2, <1>5 DEF ForwardSend
  <2>2. WorkMoves(s)
    BY <1>2, <1>5 DEF ForwardSend, WorkMoves, Carries, Work
  <2>3. \A r \in Server : \A m \in inbox'[r] :
           \/ m \in inbox[r]
           \/ /\ m.from # Client /\ m.id = work[s].id
              /\ r = view[s].link
    BY <1>5, Numbers DEF ForwardSend, TypeOK
  <2> QED
    BY <1>1, <1>3, <2>1, <2>2, <2>3
<1>6. CASE AnswerServer(s)
  <2> DEFINE p == work[s].from
             x == IF work[p].stale THEN [work[p] EXCEPT !.pc = "lost"]
                  ELSE Replied(p, work[s].pc = "ok")
  <2>1. /\ work' = [q \in Server |->
                      IF q = s THEN Idle
                      ELSE IF q # p \/ ~Awaited(s, p) THEN work[q] ELSE x]
        /\ inbox' = inbox
    BY <1>6 DEF AnswerServer
  <2>2. ASSUME Awaited(s, p), p \in Server, work'[p] = x
        PROVE  WorkMoves(p)
    <3>1. /\ work[p] \in Work /\ work[p].pc = "await"
          /\ work[p].target = s /\ work[p].id = work[s].id
      BY <1>2, <2>2 DEF Awaited
    <3>2. \A pc : /\ [work[p] EXCEPT !.pc = pc].pc = pc
                  /\ [work[p] EXCEPT !.pc = pc].id = work[p].id
                  /\ [work[p] EXCEPT !.pc = pc].from = work[p].from
      BY <3>1 DEF Work
    <3>3. \/ x \in {[work[p] EXCEPT !.pc = "lost"],
                    [work[p] EXCEPT !.pc = "error"]}
          \/ x = [work[p] EXCEPT !.pc = "ok"] /\ work[s].pc = "ok"
          \/ x = [work[p] EXCEPT !.pc = "forward", !.attempt = 2,
                                 !.target = NULL]
      BY DEF Replied
    <3>4. CASE x \in {[work[p] EXCEPT !.pc = "lost"],
                      [work[p] EXCEPT !.pc = "error"]}
      <4> HIDE DEF x
      <4> QED
        BY <2>2, <3>1, <3>2, <3>4 DEF WorkMoves, Carries
    <3>5. CASE x = [work[p] EXCEPT !.pc = "ok"] /\ work[s].pc = "ok"
      <4> HIDE DEF x
      <4> QED
        BY <2>2, <3>1, <3>2, <3>5 DEF WorkMoves, Carries
    <3>6. CASE x = [work[p] EXCEPT !.pc = "forward", !.attempt = 2,
                                   !.target = NULL]
      <4> HIDE DEF x
      <4> QED
        BY <2>2, <3>1, <3>6 DEF WorkMoves, Carries, Work
    <3> QED
      BY <3>3, <3>4, <3>5, <3>6
  <2> HIDE DEF p, x
  <2>3. ASSUME NEW r \in Server
        PROVE  WorkMoves(r)
    <3>1. CASE r = s
      BY <2>1, <3>1 DEF WorkMoves
    <3>2. CASE r # s /\ (r # p \/ ~Awaited(s, p))
      BY <1>3, <2>1, <3>2
    <3>3. CASE r # s /\ r = p /\ Awaited(s, p)
      BY <2>1, <2>2, <3>3
    <3> QED
      BY <3>1, <3>2, <3>3
  <2> QED
    BY <1>1, <2>1, <2>3
<1> QED
  BY <1>4, <1>5, <1>6

LEMMA AnswerFacts ==
    ASSUME TypeOK, NEW s \in Server, AnswerClient(s), work[s].id \in Write
    PROVE  /\ work[s].from = Client /\ work[s].pc \in {"ok", "error"}
           /\ work'[s] = Idle
           /\ \A r \in Server \ {s} : work'[r] = work[r]
           /\ outcome'[work[s].id] = work[s].pc
           /\ reach'[work[s].id] =
                 IF work[s].pc = "ok" THEN reach[work[s].id] ELSE {}
           /\ \A w \in Write \ {work[s].id} :
                 /\ outcome'[w] = outcome[w] /\ entry'[w] = entry[w]
                 /\ reach'[w] = reach[w]
           /\ UNCHANGED <<life, znodes, view, update, list, inbox>>
<1>1. /\ work[s].from = Client /\ work[s].pc \in {"ok", "error"}
      /\ UNCHANGED <<life, znodes, view, update, list, inbox>>
  BY DEF AnswerClient, Done, topology
<1>2. /\ work'[s] = Idle
      /\ \A r \in Server \ {s} : work'[r] = work[r]
  BY DEF AnswerClient, TypeOK
<1>3. /\ outcome'[work[s].id] = work[s].pc
      /\ \A w \in Write \ {work[s].id} :
            outcome'[w] = outcome[w] /\ entry'[w] = entry[w]
  BY DEF AnswerClient, TypeOK
<1>4. /\ reach'[work[s].id] =
            IF work[s].pc = "ok" THEN reach[work[s].id] ELSE {}
      /\ \A w \in Write \ {work[s].id} : reach'[w] = reach[w]
  BY DEF AnswerClient, TypeOK
<1> QED
  BY <1>1, <1>2, <1>3, <1>4

-----------------------------------------------------------------------------
(* The invariant about the connections. *)

\* A server that has started has started for good, and new ones come last.
Onward ==
    /\ \A s \in Server :
          /\ life[s] # "off" => life'[s] # "off"
          /\ life[s] \in {"ready", "down"} => life'[s] \in {"ready", "down"}
    /\ \A q \in znodes' : q \in znodes \/ life[q] = "off"

LEMMA AdjacentKeeps ==
    ASSUME TypeOK, TypeOK', OffInv, Onward, NEW s \in Server, NEW r \in Server,
           Adjacent(s, r), life[r] # "off"
    PROVE  life'[r] # "off" /\ \A q \in znodes' : ~(s < q /\ q < r)
<1>1. ASSUME NEW q \in znodes', s < q, q < r PROVE FALSE
  <2>1. q \in Server
    BY DEF TypeOK
  <2>2. life[q] = "off"
    BY <1>1 DEF Adjacent, Onward
  <2> QED
    BY <1>1, <2>1, <2>2 DEF OffInv
<1> QED
  BY <1>1 DEF Onward

LEMMA NextKeeps ==
    ASSUME TypeOK, NextInv, Onward,
           \A s \in Server :
              \/ view'[s].link = NULL
              \/ /\ view'[s].link = view[s].link
                 /\ view'[s].nodes = view[s].nodes
              \/ /\ view'[s].link = SuccessorIn(view'[s].nodes, s)
                 /\ life[view'[s].link] = "ready"
                 /\ view'[s].link \in Server
    PROVE  NextInv'
<1> SUFFICES ASSUME NEW s \in Server
             PROVE  /\ view'[s].link \in {NULL, SuccessorIn(view'[s].nodes, s)}
                    /\ view'[s].link # NULL =>
                          life'[view'[s].link] \in {"ready", "down"}
  BY DEF NextInv
<1>1. view[s].link \in Server \cup {NULL}
  BY DEF TypeOK, View
<1>2. CASE view'[s].link = NULL
  BY <1>2
<1>3. CASE view'[s].link = view[s].link /\ view'[s].nodes = view[s].nodes
  BY <1>1, <1>3 DEF NextInv, Onward
<1>4. CASE /\ view'[s].link = SuccessorIn(view'[s].nodes, s)
           /\ life[view'[s].link] = "ready" /\ view'[s].link \in Server
  BY <1>4 DEF Onward
<1> QED
  BY <1>2, <1>3, <1>4

\* An update that is under way is not overtaken by the servers it did not find.
LEMMA ReadKeeps ==
    ASSUME TypeOK, ReadInv, Onward,
           \A s \in Server : update'[s].busy => update'[s] = update[s],
           \A s \in Server :
              \/ view'[s].link \in {NULL, view[s].link}
              \/ s \in znodes /\ ~update'[s].busy
    PROVE  ReadInv'
<1> SUFFICES ASSUME NEW s \in Server, update'[s].busy
             PROVE  \E P \in SUBSET Server :
                       /\ \A n \in P : life'[n] # "off"
                       /\ OldLink(s, update[s].nodes, P)'
                       /\ \A y \in P \ update'[s].nodes :
                             /\ y \notin znodes'
                             /\ OldLink(y, update[s].nodes, P)'
  BY DEF ReadInv
<1> DEFINE R == update[s].nodes
<1>1. update[s].busy /\ R = update'[s].nodes
  OBVIOUS
<1>2. PICK P \in SUBSET Server :
         /\ \A n \in P : life[n] # "off"
         /\ OldLink(s, R, P)
         /\ \A y \in P \ R : y \notin znodes /\ OldLink(y, R, P)
  BY <1>1 DEF ReadInv
<1>3. \A n \in P : life'[n] # "off"
  BY <1>2 DEF Onward
<1>4. OldLink(s, R, P)'
  BY <1>1, <1>2 DEF OldLink
<1>5. ASSUME NEW y \in P \ R
      PROVE  y \notin znodes' /\ OldLink(y, R, P)'
  <2>1. /\ y \in Server /\ y \notin znodes /\ life[y] # "off"
        /\ OldLink(y, R, P)
    BY <1>2
  <2>2. y \notin znodes'
    BY <2>1 DEF Onward
  <2>3. view'[y].link \in {NULL, view[y].link}
    BY <2>1
  <2> QED
    BY <1>1, <2>1, <2>2, <2>3 DEF OldLink
<1> QED
  BY <1>1, <1>3, <1>4, <1>5

LEMMA TargetKeeps ==
    ASSUME TypeOK, TypeOK', Rest, TargetInv, Onward,
           \A s \in Server : work'[s].pc = "await" =>
              \/ work[s].pc = "await" /\ work'[s].target = work[s].target
              \/ work'[s].target = view[s].link /\ view[s].link # NULL
    PROVE  TargetInv'
<1> SUFFICES ASSUME NEW s \in Server, work'[s].pc = "await"
             PROVE  /\ work'[s].target \in Server
                    /\ life'[work'[s].target] # "off"
                    /\ s < work'[s].target
                    /\ \A q \in znodes' : ~(s < q /\ q < work'[s].target)
  BY DEF TargetInv, Adjacent
<1>1. PICK r \in Server : /\ work'[s].target = r
                          /\ Adjacent(s, r) /\ life[r] # "off"
  <2>1. view[s].link \in Server \cup {NULL}
    BY DEF TypeOK, View
  <2> QED
    BY <2>1 DEF TargetInv, Rest, LinkInv
<1>2. life'[r] # "off" /\ \A q \in znodes' : ~(s < q /\ q < r)
  BY <1>1, AdjacentKeeps DEF Rest
<1> QED
  BY <1>1, <1>2 DEF Adjacent

\* The steps of the requests and of the starts leave the connections alone.
LEMMA LinksQuiet ==
    ASSUME TypeOK, TypeOK', Rest, LinksInv, Onward, UNCHANGED <<view, update>>,
           \A s \in Server : life[s] = "ready" => life'[s] = "ready",
           \A s \in Server : work'[s].pc # "idle" =>
              work[s].pc # "idle" \/ life[s] = "ready",
           \A s \in Server : work'[s].pc = "await" =>
              \/ work[s].pc = "await" /\ work'[s].target = work[s].target
              \/ work'[s].target = view[s].link /\ view[s].link # NULL
    PROVE  LinksInv'
<1> USE DEF LinksInv
<1>1. NextInv' /\ ReadInv'
  BY NextKeeps, ReadKeeps
<1>2. BusyInv'
  BY DEF BusyInv
<1>3. TargetInv'
  BY TargetKeeps
<1> QED
  BY <1>1, <1>2, <1>3

LEMMA LinksStop ==
    ASSUME TypeOK, TypeOK', Rest, LinksInv, NEW x \in Server, Stop(x),
           life[x] # "off"
    PROVE  LinksInv' /\ Onward
<1> USE DEF LinksInv
<1>1. /\ life'[x] = "down" /\ view'[x].link = NULL
      /\ ~update'[x].busy /\ work'[x].pc = "idle"
      /\ \A s \in Server \ {x} :
            /\ life'[s] = life[s] /\ view'[s] = view[s]
            /\ update'[s] = update[s] /\ work'[s] = work[s]
      /\ znodes' = znodes
  BY StopFacts DEF NoView, NoUpdate, Idle
<1>2. Onward
  BY <1>1 DEF Onward
<1>3. NextInv'
  BY <1>1, <1>2, NextKeeps
<1>4. ReadInv'
  BY <1>1, <1>2, ReadKeeps
<1>5. BusyInv'
  BY <1>1 DEF BusyInv
<1>6. TargetInv'
  BY <1>1, <1>2, TargetKeeps
<1> QED
  BY <1>2, <1>3, <1>4, <1>5, <1>6

LEMMA LinksJoin ==
    ASSUME TypeOK, TypeOK', Rest, LinksInv, NEW x \in Server, Join(x)
    PROVE  LinksInv' /\ Onward
<1> USE DEF LinksInv
<1>1. /\ life[x] = "off" /\ life'[x] = "joining" /\ view'[x].link = NULL
      /\ \A s \in Server \ {x} : life'[s] = life[s] /\ view'[s] = view[s]
      /\ znodes' = znodes \cup {x}
      /\ update' = update /\ work' = work
  BY JoinFacts
<1>2. Onward
  BY <1>1 DEF Onward
<1>3. NextInv'
  BY <1>1, <1>2, NextKeeps
<1>4. ReadInv'
  BY <1>1, <1>2, ReadKeeps
<1>5. BusyInv'
  BY <1>1 DEF BusyInv
<1>6. TargetInv'
  BY <1>1, <1>2, TargetKeeps
<1> QED
  BY <1>2, <1>3, <1>4, <1>5, <1>6

LEMMA LinksBegin ==
    ASSUME TypeOK, TypeOK', Rest, LinksInv, NEW x \in Server, BeginUpdate(x)
    PROVE  LinksInv'
<1> USE DEF LinksInv
<1>1. /\ update'[x].nodes = znodes
      /\ \A s \in Server \ {x} : update'[s] = update[s]
      /\ UNCHANGED <<life, znodes, view, work>>
  BY BeginFacts
<1>2. Onward
  BY <1>1 DEF Onward
<1>3. NextInv'
  BY <1>1 DEF NextInv
<1>4. ReadInv'
  <2> SUFFICES ASSUME NEW s \in Server, update'[s].busy
               PROVE  \E P \in SUBSET Server :
                         /\ \A n \in P : life'[n] # "off"
                         /\ OldLink(s, update[s].nodes, P)'
                         /\ \A y \in P \ update'[s].nodes :
                               /\ y \notin znodes'
                               /\ OldLink(y, update[s].nodes, P)'
    BY DEF ReadInv
  <2>1. PICK P \in SUBSET Server :
           /\ \A n \in P : life[n] # "off"
           /\ OldLink(s, update'[s].nodes, P)
           /\ \A y \in P \ update'[s].nodes :
                 y \notin znodes /\ OldLink(y, update'[s].nodes, P)
    <3>1. CASE s = x
      <4> DEFINE P == {n \in Server : life[n] # "off"}
      <4>1. ASSUME NEW y \in Server PROVE OldLink(y, znodes, P)
        <5>1. view[y].link \in Server \cup {NULL}
          BY DEF TypeOK, View
        <5> QED
          BY <5>1 DEF Rest, LinkInv, Adjacent, OldLink
      <4>2. P \in SUBSET Server /\ \A n \in P : life[n] # "off"
        OBVIOUS
      <4>3. \A y \in P \ znodes : y \notin znodes /\ OldLink(y, znodes, P)
        BY <4>1
      <4> HIDE DEF P
      <4> QED
        BY <1>1, <3>1, <4>1, <4>2, <4>3
    <3>2. CASE s # x
      <4>1. update'[s] = update[s]
        BY <1>1, <3>2
      <4> QED
        BY <4>1 DEF ReadInv
    <3> QED
      BY <3>1, <3>2
  <2>2. \A y \in Server :
           OldLink(y, update'[s].nodes, P) => OldLink(y, update[s].nodes, P)'
    BY <1>1 DEF OldLink
  <2> QED
    BY <1>1, <2>1, <2>2
<1>5. BusyInv' /\ TargetInv'
  BY <1>1 DEF BusyInv, TargetInv, Adjacent
<1> QED
  BY <1>3, <1>4, <1>5

LEMMA LinksCommit ==
    ASSUME TypeOK, TypeOK', Rest, LinksInv, NEW x \in Server,
           Commit(x) \/ CommitUnconnected(x)
    PROVE  LinksInv'
<1> USE DEF LinksInv
<1>1. /\ ~update'[x].busy
      /\ view'[x].link \in {NULL, SuccessorIn(update[x].nodes, x)}
      /\ view'[x].nodes = update[x].nodes
      /\ view'[x].link # NULL =>
            x \in znodes /\ life[view'[x].link] = "ready"
      /\ \A s \in Server \ {x} : view'[s] = view[s] /\ update'[s] = update[s]
      /\ SameWork
      /\ UNCHANGED <<life, znodes>>
  BY CommitFacts
<1>2. Onward
  BY <1>1 DEF Onward
<1>3. NextInv'
  <2>1. view'[x].link \in Server \cup {NULL}
    BY DEF TypeOK, View
  <2> QED
    BY <1>1, <1>2, <2>1, NextKeeps
<1>4. ReadInv'
  BY <1>1, <1>2, ReadKeeps
<1>5. BusyInv'
  BY <1>1 DEF BusyInv, SameWork
<1>6. TargetInv'
  BY <1>1, <1>2, TargetKeeps DEF SameWork
<1> QED
  BY <1>3, <1>4, <1>5, <1>6

\* The id of a request that is under way is a write.
LEMMA BusyId ==
    ASSUME TypeOK, Rest, NEW s \in Server, work[s].pc # "idle"
    PROVE  work[s].id \in Write
BY DEF TypeOK, Rest, WorkInv

LEMMA LinksKeep ==
    ASSUME TypeOK, TypeOK', Rest, LinksInv, NEW s \in Server,
           \/ Close(s) \/ Expire(s) \/ Copy(s) \/ CopyFails(s) \/ Listen(s)
           \/ \E w \in Write : Call(w, s)
           \/ \E m \in inbox[s] : Execute(s, m)
           \/ ForwardUnconnected(s) \/ ForwardNothing(s) \/ ForwardSend(s)
           \/ ReadElsewhere(s) \/ AnswerServer(s) \/ AnswerClient(s)
    PROVE  LinksInv' /\ Onward
<1>1. CASE Close(s) \/ Expire(s)
  <2>1. /\ UNCHANGED <<life, view, update, work>>
        /\ znodes' = znodes \ {s}
    BY <1>1, SessionFacts
  <2>2. Onward
    BY <2>1 DEF Onward
  <2> QED
    BY <2>1, <2>2, LinksQuiet
<1>2. CASE Copy(s) \/ CopyFails(s) \/ Listen(s)
  <2>1. /\ UNCHANGED <<znodes, view, update, work>>
        /\ life[s] \in {"joining", "copied"} /\ life'[s] \in {"copied", "ready"}
        /\ \A q \in Server \ {s} : life'[q] = life[q]
    BY <1>2, StartFacts
  <2>2. Onward
    BY <2>1 DEF Onward
  <2> QED
    BY <2>1, <2>2, LinksQuiet
<1>3. CASE \E w \in Write : Call(w, s)
  <2>1. UNCHANGED <<life, znodes, view, update, work>>
    BY <1>3, CallFacts
  <2>2. Onward
    BY <2>1 DEF Onward
  <2> QED
    BY <2>1, <2>2, LinksQuiet
<1>4. CASE \E m \in inbox[s] : Execute(s, m)
  <2>1. /\ UNCHANGED <<life, znodes, view, update>>
        /\ life[s] = "ready" /\ work'[s].pc = "forward"
        /\ \A q \in Server \ {s} : work'[q] = work[q]
    BY <1>4, ExecuteFacts
  <2>2. Onward
    BY <2>1 DEF Onward
  <2> QED
    BY <2>1, <2>2, LinksQuiet
<1>5. CASE \/ ForwardUnconnected(s) \/ ForwardNothing(s) \/ ForwardSend(s)
           \/ ReadElsewhere(s) \/ AnswerServer(s)
  <2>1. UNCHANGED <<life, znodes, view, update>>
    BY <1>5, ForwardFacts
  <2>2. \A q \in Server : WorkMoves(q)
    BY <1>5, ForwardFacts
  <2>3. Onward
    BY <2>1 DEF Onward
  <2>4. \A q \in Server : work'[q].pc # "idle" => work[q].pc # "idle"
    BY <2>2 DEF WorkMoves, Carries, Idle
  <2>5. \A q \in Server : work'[q].pc = "await" =>
              \/ work[q].pc = "await" /\ work'[q].target = work[q].target
              \/ work'[q].target = view[q].link /\ view[q].link # NULL
    BY <2>2 DEF WorkMoves, Idle
  <2> QED
    BY <2>1, <2>3, <2>4, <2>5, LinksQuiet
<1>6. CASE AnswerClient(s)
  <2>1. work[s].pc # "idle"
    BY <1>6 DEF AnswerClient, Done
  <2>2. /\ UNCHANGED <<life, znodes, view, update>>
        /\ work'[s] = Idle
        /\ \A q \in Server \ {s} : work'[q] = work[q]
    BY <1>6, <2>1, BusyId, AnswerFacts
  <2>3. Onward
    BY <2>2 DEF Onward
  <2>4. \A q \in Server : work'[q].pc # "idle" => work'[q] = work[q]
    BY <2>2 DEF Idle
  <2>5. \A q \in Server : work'[q].pc = "await" => work'[q] = work[q]
    BY <2>4
  <2> QED
    BY <2>2, <2>3, <2>4, <2>5, LinksQuiet
<1> QED
  BY <1>1, <1>2, <1>3, <1>4, <1>5, <1>6

-----------------------------------------------------------------------------
(* The invariant about the requests of the clients. *)

LEMMA InboxId ==
    ASSUME TypeOK, NEW s \in Server, NEW m \in inbox[s]
    PROVE  m \in Request /\ m.id \in Write /\ m.from \in Server \cup {Client}
<1>1. m \in Request
  BY DEF TypeOK
<1> QED
  BY <1>1 DEF Request

LEMMA IdleId ==
    Idle.id = NULL /\ Idle.id \notin Write /\ Idle.pc = "idle"
BY Numbers DEF Idle

\* The steps of the chain leave the requests as they are.
LEMMA FreshQuiet ==
    ASSUME TypeOK, EntryInv, FreshInv, SameWork,
           UNCHANGED <<inbox, outcome, entry>>,
           \A s \in Server : life[s] = "ready" => life'[s] = "ready",
           \A w \in Write : outcome[w] = "none" => reach'[w] \subseteq reach[w]
    PROVE  EntryInv' /\ FreshInv'
<1>1. EntryInv'
  BY DEF EntryInv, Handles, SameWork
<1>2. ClientWork'
  BY DEF FreshInv, ClientWork, SameWork
<1>3. ClientInbox'
  BY DEF FreshInv, ClientInbox, SameWork
<1> QED
  BY <1>1, <1>2, <1>3 DEF FreshInv

LEMMA FreshStop ==
    ASSUME TypeOK, EntryInv, FreshInv, NEW x \in Server, Stop(x)
    PROVE  EntryInv' /\ FreshInv'
<1>1. /\ work'[x] = Idle /\ inbox'[x] = {}
      /\ \A s \in Server \ {x} :
            /\ life'[s] = life[s]
            /\ work'[s] = work[s] /\ inbox'[s] = inbox[s]
      /\ \A w \in Write :
            IF entry[w] = x THEN outcome'[w] = "lost"
            ELSE /\ outcome'[w] = outcome[w] /\ entry'[w] = entry[w]
                 /\ reach'[w] = reach[w]
  BY StopFacts
<1>2. \A s \in Server, w \in Write : Handles(s, w)' => Handles(s, w)
  BY <1>1, IdleId DEF Handles
<1>3. EntryInv'
  BY <1>1, <1>2 DEF EntryInv
<1>4. ClientWork'
  BY <1>1, IdleId DEF FreshInv, ClientWork
<1>5. ClientInbox'
  <2> SUFFICES ASSUME NEW s \in Server, NEW m \in inbox'[s], m.from = Client
               PROVE  /\ outcome'[m.id] = "called" /\ entry'[m.id] = s
                      /\ \A q \in Server :
                            /\ work'[q].id # m.id
                            /\ \A k \in inbox'[q] :
                                  k.id = m.id => k = m /\ q = s
    BY DEF ClientInbox
  <2>1. s # x /\ m \in inbox[s]
    BY <1>1
  <2>2. m.id \in Write
    BY <2>1, InboxId
  <2> QED
    BY <1>1, <2>1, <2>2, IdleId DEF FreshInv, ClientInbox
<1> QED
  BY <1>3, <1>4, <1>5 DEF FreshInv

LEMMA FreshCall ==
    ASSUME TypeOK, EntryInv, FreshInv, NEW x \in Server, NEW w \in Write,
           Call(w, x)
    PROVE  EntryInv' /\ FreshInv'
<1> DEFINE n == [from |-> Client, id |-> w, attempt |-> 1]
<1>1. /\ outcome[w] = "none" /\ life[x] = "ready"
      /\ outcome'[w] = "called" /\ entry'[w] = x
      /\ \A v \in Write \ {w} :
            outcome'[v] = outcome[v] /\ entry'[v] = entry[v]
      /\ inbox'[x] = inbox[x] \cup {n}
      /\ \A s \in Server \ {x} : inbox'[s] = inbox[s]
      /\ UNCHANGED <<life, work, reach>>
  BY CallFacts
<1>2. n.id = w
  OBVIOUS
<1> HIDE DEF n
<1>3. \A s \in Server : ~Handles(s, w)
  BY <1>1 DEF EntryInv
<1>4. \A s \in Server, v \in Write \ {w} : Handles(s, v)' => Handles(s, v)
  BY <1>1, <1>2 DEF Handles
<1>5. EntryInv'
  BY <1>1, <1>4 DEF EntryInv
<1>6. ClientWork'
  BY <1>1, <1>3 DEF FreshInv, ClientWork, Handles
<1>7. ClientInbox'
  <2> SUFFICES ASSUME NEW s \in Server, NEW m \in inbox'[s], m.from = Client
               PROVE  /\ outcome'[m.id] = "called" /\ entry'[m.id] = s
                      /\ \A q \in Server :
                            /\ work'[q].id # m.id
                            /\ \A k \in inbox'[q] :
                                  k.id = m.id => k = m /\ q = s
    BY DEF ClientInbox
  <2>1. CASE m \in inbox[s]
    <3>1. m.id \in Write /\ m.id # w
      BY <1>3, <2>1, InboxId DEF Handles
    <3> QED
      BY <1>1, <1>2, <2>1, <3>1 DEF FreshInv, ClientInbox
  <2>2. CASE m \notin inbox[s]
    <3>1. s = x /\ m = n
      BY <1>1, <2>2
    <3> QED
      BY <1>1, <1>2, <1>3, <3>1 DEF Handles
  <2> QED
    BY <2>1, <2>2
<1> QED
  BY <1>5, <1>6, <1>7 DEF FreshInv

LEMMA FreshExecute ==
    ASSUME TypeOK, EntryInv, FreshInv, NEW x \in Server, NEW m \in inbox[x],
           Execute(x, m)
    PROVE  EntryInv' /\ FreshInv'
<1>1. /\ m.id \in Write
      /\ work'[x].from = m.from /\ work'[x].id = m.id
      /\ inbox'[x] = inbox[x] \ {m}
      /\ \A s \in Server \ {x} : work'[s] = work[s] /\ inbox'[s] = inbox[s]
      /\ \A w \in Write \ {m.id} : reach'[w] = reach[w]
      /\ UNCHANGED <<life, outcome, entry>>
  BY ExecuteFacts
<1>2. \A s \in Server, w \in Write : Handles(s, w)' => Handles(s, w)
  BY <1>1 DEF Handles
<1>3. outcome[m.id] # "none"
  BY <1>1 DEF EntryInv, Handles
<1>4. EntryInv'
  BY <1>1, <1>2, <1>3 DEF EntryInv
<1>5. ClientWork'
  BY <1>1 DEF FreshInv, ClientWork, ClientInbox
<1>6. ClientInbox'
  <2> SUFFICES ASSUME NEW s \in Server, NEW n \in inbox'[s], n.from = Client
               PROVE  /\ outcome[n.id] = "called" /\ entry[n.id] = s
                      /\ \A q \in Server :
                            /\ work'[q].id # n.id
                            /\ \A k \in inbox'[q] :
                                  k.id = n.id => k = n /\ q = s
    BY <1>1 DEF ClientInbox
  <2>1. n \in inbox[s] /\ (n # m \/ s # x)
    BY <1>1
  <2>2. m.id # n.id
    BY <2>1 DEF FreshInv, ClientInbox
  <2> QED
    BY <1>1, <2>1, <2>2 DEF FreshInv, ClientInbox
<1> QED
  BY <1>4, <1>5, <1>6 DEF FreshInv

LEMMA FreshForward ==
    ASSUME TypeOK, Rest, EntryInv, FreshInv, NEW x \in Server,
           \/ ForwardUnconnected(x) \/ ForwardNothing(x) \/ ForwardSend(x)
           \/ ReadElsewhere(x) \/ AnswerServer(x)
    PROVE  EntryInv' /\ FreshInv'
<1>1. /\ \A s \in Server : \A m \in inbox'[s] :
            m \in inbox[s] \/ (m.from # Client /\ m.id = work[x].id)
      /\ UNCHANGED <<life, outcome, entry, reach>>
  BY ForwardFacts
<1>2. \A s \in Server :
         \/ work'[s] = Idle
         \/ work'[s].id = work[s].id /\ work'[s].from = work[s].from
  BY ForwardFacts DEF WorkMoves, Carries
<1>3. \A s \in Server, w \in Write :
         Handles(s, w)' => \E q \in Server : Handles(q, w)
  BY <1>1, <1>2, IdleId DEF Handles
<1>4. EntryInv'
  BY <1>1, <1>3 DEF EntryInv
<1>5. ClientWork'
  BY <1>1, <1>2, IdleId DEF FreshInv, ClientWork
<1>6. ClientInbox'
  <2> SUFFICES ASSUME NEW s \in Server, NEW n \in inbox'[s], n.from = Client
               PROVE  /\ outcome[n.id] = "called" /\ entry[n.id] = s
                      /\ \A q \in Server :
                            /\ work'[q].id # n.id
                            /\ \A k \in inbox'[q] :
                                  k.id = n.id => k = n /\ q = s
    BY <1>1 DEF ClientInbox
  <2>1. n \in inbox[s] /\ n.id \in Write
    BY <1>1, InboxId
  <2>2. /\ outcome[n.id] = "called" /\ entry[n.id] = s
        /\ \A q \in Server :
              /\ work[q].id # n.id
              /\ \A k \in inbox[q] : k.id = n.id => k = n /\ q = s
    BY <2>1 DEF FreshInv, ClientInbox
  <2>3. ASSUME NEW q \in Server
        PROVE  /\ work'[q].id # n.id
               /\ \A k \in inbox'[q] : k.id = n.id => k = n /\ q = s
    BY <1>1, <1>2, <2>1, <2>2, IdleId
  <2> QED
    BY <2>2, <2>3
<1> QED
  BY <1>4, <1>5, <1>6 DEF FreshInv

LEMMA FreshAnswer ==
    ASSUME TypeOK, Rest, EntryInv, FreshInv, NEW x \in Server, AnswerClient(x)
    PROVE  EntryInv' /\ FreshInv'
<1>1. work[x].id \in Write
  BY BusyId DEF AnswerClient, Done
<1>2. /\ work[x].from = Client /\ work[x].pc \in {"ok", "error"}
      /\ work'[x] = Idle
      /\ \A s \in Server \ {x} : work'[s] = work[s]
      /\ outcome'[work[x].id] = work[x].pc
      /\ \A w \in Write \ {work[x].id} :
            /\ outcome'[w] = outcome[w] /\ entry'[w] = entry[w]
            /\ reach'[w] = reach[w]
      /\ UNCHANGED <<life, inbox>>
  BY <1>1, AnswerFacts
<1>3. \A s \in Server, w \in Write : Handles(s, w)' => Handles(s, w)
  BY <1>2, IdleId DEF Handles
<1>4. EntryInv'
  BY <1>2, <1>3 DEF EntryInv
<1>5. ClientWork'
  BY <1>1, <1>2, IdleId DEF FreshInv, ClientWork
<1>6. ClientInbox'
  <2> SUFFICES ASSUME NEW s \in Server, NEW n \in inbox[s], n.from = Client
               PROVE  /\ outcome'[n.id] = "called" /\ entry'[n.id] = s
                      /\ \A q \in Server :
                            /\ work'[q].id # n.id
                            /\ \A k \in inbox[q] :
                                  k.id = n.id => k = n /\ q = s
    BY <1>2 DEF ClientInbox
  <2>1. n.id \in Write
    BY InboxId
  <2>2. /\ outcome[n.id] = "called" /\ entry[n.id] = s
        /\ \A q \in Server :
              /\ work[q].id # n.id
              /\ \A k \in inbox[q] : k.id = n.id => k = n /\ q = s
    BY DEF FreshInv, ClientInbox
  <2> QED
    BY <1>2, <2>1, <2>2, IdleId
<1> QED
  BY <1>4, <1>5, <1>6 DEF FreshInv

-----------------------------------------------------------------------------
(* The invariant about the servers a write is to get to. *)

\* One that has read the chain knows who is next.
LEMMA SeesChain ==
    ASSUME TypeOK, NEW w \in Write, outcome[w] = "called", EntryInv, ReachOf(w),
           NEW x \in {entry[w]} \cup reach[w]
    PROVE  Sees(x, znodes, w)
<1> SUFFICES ASSUME NEW q \in reach[w], q \in znodes, q > x
             PROVE  SuccessorIn(znodes, x) \in reach[w]
  BY DEF Sees
<1> DEFINE n == SuccessorIn(znodes, x)
<1>1. /\ entry[w] \in Server /\ x \in Server /\ q \in Server
      /\ znodes \in SUBSET Server
  BY DEF TypeOK, EntryInv
<1>2. q \in After(znodes, x)
  BY DEF After
<1>3. n # NULL /\ n \in After(znodes, x) /\ n <= q
  BY <1>1, <1>2, Successor
<1>4. n \in znodes /\ n \in Server /\ x < n
  BY <1>1, <1>3 DEF After
<1> HIDE DEF n
<1>5. /\ n \in Nat /\ q \in Nat /\ x \in Nat /\ entry[w] \in Nat
      /\ x = entry[w] \/ entry[w] < x
  BY <1>1, <1>4, Numbers DEF ReachOf
<1>6. entry[w] < n /\ (n = q \/ n < q)
  BY <1>3, <1>4, <1>5
<1>7. n \in reach[w]
  BY <1>4, <1>6 DEF ReachOf
<1> QED
  BY <1>7 DEF n

LEMMA ReachStarted ==
    ASSUME EntryInv, NEW w \in Write, outcome[w] = "called", ReachOf(w),
           NEW x \in {entry[w]} \cup reach[w]
    PROVE  life[x] \in {"ready", "down"}
BY DEF EntryInv, ReachOf

\* New servers are behind them, updates are complete.
LEMMA ReachKeeps ==
    ASSUME TypeOK, TypeOK', Rest, EntryInv, Onward,
           NEW w \in Write, outcome[w] = "called", ReachOf(w),
           entry'[w] = entry[w], reach'[w] = reach[w],
           \A s \in Server : life[s] = "down" => life'[s] = "down",
           \A s \in Server : life[s] # "off" /\ Running(s)' =>
              \/ view'[s].nodes = view[s].nodes
              \/ update[s].busy /\ view'[s].nodes = update[s].nodes,
           \A s \in Server : update'[s].busy =>
              \/ update[s].busy /\ update'[s].nodes = update[s].nodes
              \/ update'[s].nodes = znodes
    PROVE  ReachOf(w)'
<1>1. /\ reach[w] \in SUBSET Server /\ entry[w] \in Server
      /\ znodes' \in SUBSET Server
  BY DEF TypeOK, EntryInv
<1>2. \A q \in reach[w] : q > entry[w] /\ life[q] \in {"ready", "down"}
  BY DEF ReachOf
<1>3. \A q \in reach[w] : life'[q] \in {"ready", "down"}
  BY <1>1, <1>2 DEF Onward
<1>4. \A q \in reach[w] : q \in znodes' => q \in znodes
  BY <1>2 DEF Onward
<1>5. ASSUME NEW r \in znodes', NEW q \in reach[w], entry[w] < r, r < q
      PROVE  r \in reach[w]
  <2>1. life[r] # "off"
    BY <1>1, <1>2, <1>5 DEF Rest, OffInv
  <2>2. r \in znodes
    BY <2>1 DEF Onward
  <2> QED
    BY <1>5, <2>2 DEF ReachOf
<1>6. ASSUME NEW x \in {entry[w]} \cup reach[w]
      PROVE  /\ Running(x)' => Sees(x, view[x].nodes, w)'
             /\ update'[x].busy => Sees(x, update[x].nodes, w)'
  <2>1. x \in Server /\ life[x] \in {"ready", "down"}
    BY <1>1, ReachStarted
  <2>2. \A S : Sees(x, S, w) => Sees(x, S, w)'
    BY <1>4 DEF Sees
  <2>3. Running(x) => Sees(x, view[x].nodes, w)
    BY DEF ReachOf
  <2>4. update[x].busy => Sees(x, update[x].nodes, w)
    BY DEF ReachOf
  <2>5. Sees(x, znodes, w)
    BY SeesChain
  <2>6. Running(x)' => Running(x)
    BY <2>1 DEF Running
  <2>7. Running(x)' => Sees(x, view'[x].nodes, w)
    BY <2>1, <2>3, <2>4, <2>6
  <2>8. update'[x].busy => Sees(x, update'[x].nodes, w)
    BY <2>1, <2>4, <2>5
  <2>9. ASSUME NEW S, Sees(x, S, w)
        PROVE  (\E q \in reach'[w] \cap znodes' : q > x) =>
                  SuccessorIn(S, x) \in reach'[w]
    BY <1>4, <2>9 DEF Sees
  <2>10. Running(x)' => Sees(x, view[x].nodes, w)'
    BY <2>7, <2>9 DEF Sees
  <2>11. update'[x].busy => Sees(x, update[x].nodes, w)'
    BY <2>8, <2>9 DEF Sees
  <2> QED
    BY <2>10, <2>11
<1> QED
  BY <1>2, <1>3, <1>5, <1>6 DEF ReachOf

\* A write that is executed for a client gets to the servers below.
LEMMA ReachStarts ==
    ASSUME TypeOK, Rest, LinksInv, EntryInv, FreshInv, NEW x \in Server,
           NEW m \in inbox[x], Execute(x, m), m.from = Client
    PROVE  ReachOf(m.id)'
<1> DEFINE w == m.id
<1>1. /\ w \in Write /\ reach'[w] = Below(x)
      /\ UNCHANGED <<life, znodes, view, update, entry>>
  BY ExecuteFacts
<1>2. entry[w] = x /\ LinkInv /\ NextInv
  BY DEF FreshInv, ClientInbox, LinksInv, Rest
<1>3. \A q \in Below(x) : q > x /\ life[q] \in {"ready", "down"}
  BY <1>2, BelowAfter, BelowLife
<1>4. \A r \in znodes, q \in Below(x) : x < r /\ r < q => r \in Below(x)
  BY <1>2, BelowFilled
<1>5. ASSUME NEW y \in {x} \cup Below(x)
      PROVE  /\ Running(y) => Sees(y, view[y].nodes, w)'
             /\ update[y].busy => Sees(y, update[y].nodes, w)'
  <2>1. ASSUME NEW q \in Below(x), q > y
        PROVE  SuccessorIn(view[y].nodes, y) \in Below(x)
    BY <1>2, <2>1, BelowViews
  <2>2. ASSUME update[y].busy, NEW q \in Below(x), q \in znodes, q > y
        PROVE  SuccessorIn(update[y].nodes, y) \in Below(x)
    BY <2>2, BelowUpdates
  <2> HIDE DEF w
  <2> QED
    BY <1>1, <2>1, <2>2 DEF Sees
<1> HIDE DEF w
<1>6. ReachOf(w)'
  BY <1>1, <1>2, <1>3, <1>4, <1>5 DEF ReachOf, Running
<1> QED
  BY <1>6 DEF w

-----------------------------------------------------------------------------
(* The invariant about the way of a write. *)

\* A server that has a write to forward, and the next server.
LEMMA PathForward ==
    ASSUME TypeOK, Rest, LinksInv, ReachInv, PathInv, NEW x \in Server,
           work[x].pc # "idle", outcome[work[x].id] = "called"
    PROVE  /\ view[x].link # NULL => OnPath(view[x].link, work[x].id)
           /\ SuccessorIn(view[x].nodes, x) = NULL =>
                 \A q \in reach[work[x].id] : q > x => q \notin znodes
<1> DEFINE w == work[x].id
           r == view[x].link
<1>1. w \in Write /\ reach[w] \in SUBSET Server
  BY BusyId DEF TypeOK
<1>2. OnPath(x, w)
  BY <1>1 DEF PathInv, PathOf, Handles
<1>3. Running(x)
  BY DEF LinksInv, BusyInv, Running
<1>4. CASE x \in {entry[w]} \cup reach[w]
  <2>1. Sees(x, view[x].nodes, w)
    BY <1>1, <1>3, <1>4 DEF ReachInv, ReachOf
  <2> HIDE DEF w, r
  <2>2. SuccessorIn(view[x].nodes, x) = NULL =>
           \A q \in reach[w] : q > x => q \notin znodes
    BY <1>1, <2>1, Numbers DEF Sees
  <2>3. ASSUME r # NULL PROVE OnPath(r, w)
    <3>1. r \in Server /\ x < r /\ r = SuccessorIn(view[x].nodes, x)
      BY <2>3, Links DEF r, Rest, LinksInv, NextInv
    <3>2. \A q \in reach[w] : q > r => q > x
      <4>1. r \in Nat /\ x \in Nat /\ \A q \in reach[w] : q \in Nat
        BY <1>1, <3>1, Numbers
      <4> QED
        BY <3>1, <4>1
    <3> QED
      BY <2>1, <3>1, <3>2 DEF Sees, OnPath
  <2> QED
    BY <2>2, <2>3 DEF w, r
<1>5. CASE \A q \in reach[w] : q > x => q \notin znodes
  <2>1. ASSUME r # NULL PROVE OnPath(r, w)
    <3>1. r \in Server /\ x < r
      BY <2>1, Links DEF Rest
    <3> HIDE DEF w, r
    <3>2. \A q \in reach[w] : q > r => q > x
      <4>1. r \in Nat /\ x \in Nat /\ \A q \in reach[w] : q \in Nat
        BY <1>1, <3>1, Numbers
      <4> QED
        BY <3>1, <4>1
    <3> QED
      BY <1>5, <3>2 DEF OnPath
  <2> QED
    BY <1>5, <2>1
<1> QED
  BY <1>2, <1>4, <1>5 DEF OnPath

LEMMA PathKeeps ==
    ASSUME Onward, NEW w \in Write, ReachOf(w),
           entry'[w] = entry[w], reach'[w] = reach[w],
           NEW x \in Server, OnPath(x, w)
    PROVE  OnPath(x, w)'
<1>1. \A q \in reach[w] : q \in znodes' => q \in znodes
  BY DEF ReachOf, Onward
<1> QED
  BY <1>1 DEF OnPath

\* Who has the promise keeps it while nobody behind it loses the write.
LEMMA PromiseKeeps ==
    ASSUME Onward, NEW w \in Write, ReachOf(w), reach'[w] = reach[w],
           \A s \in reach[w] : Running(s)' =>
              life[s] = life'[s] /\ list[s] \subseteq list'[s],
           NEW x \in Server, Promise(x, w)
    PROVE  Promise(x, w)'
<1>1. \A q \in reach[w] : Alive(q)' => Alive(q)
  BY DEF ReachOf, Onward, Alive, Running
<1>2. \A q \in reach[w] : Alive(q)' => list[q] \subseteq list'[q]
  BY DEF Alive
<1> QED
  BY <1>1, <1>2 DEF Promise

\* The last one has it, and whoever has the promise of the next one.
LEMMA PromiseStarts ==
    ASSUME TypeOK, Rest, LinksInv, ReachInv, PathInv, PromiseInv,
           NEW x \in Server, work[x].pc # "idle",
           outcome[work[x].id] = "called",
           \/ SuccessorIn(view[x].nodes, x) = NULL
           \/ \E s \in Server :
                 /\ work[x].pc = "await" /\ work[x].target = s
                 /\ work[s].pc = "ok" /\ work[s].id = work[x].id
    PROVE  Promise(x, work[x].id)
<1> DEFINE w == work[x].id
<1>1. /\ w \in Write /\ reach[w] \in SUBSET Server
      /\ w \in list[x]
  BY BusyId DEF TypeOK, Rest, WorkInv
<1> SUFFICES ASSUME NEW q \in reach[w], q >= x, Alive(q), q # x
             PROVE  w \in list[q]
  BY <1>1 DEF Promise
<1>2. q \in Server /\ q > x /\ q \in znodes
  <2>1. q \in Nat /\ x \in Nat
    BY <1>1, Numbers
  <2> QED
    BY <1>1, <2>1 DEF Alive
<1>3. CASE SuccessorIn(view[x].nodes, x) = NULL
  BY <1>2, <1>3, PathForward
<1>4. CASE \E s \in Server :
              /\ work[x].pc = "await" /\ work[x].target = s
              /\ work[s].pc = "ok" /\ work[s].id = work[x].id
  <2>1. PICK s \in Server :
           /\ work[x].pc = "await" /\ work[x].target = s
           /\ work[s].pc = "ok" /\ work[s].id = work[x].id
    BY <1>4
  <2>2. Adjacent(x, s)
    BY <2>1 DEF LinksInv, TargetInv
  <2>3. ~(q < s)
    BY <1>2, <2>2 DEF Adjacent
  <2>4. q >= s
    BY <1>2, <2>3, Numbers
  <2>5. Promise(s, w)
    BY <1>1, <2>1 DEF PromiseInv, PromiseOf
  <2> QED
    BY <2>4, <2>5 DEF Promise
<1> QED
  BY <1>3, <1>4

-----------------------------------------------------------------------------
(* The invariant about the writes that are answered. *)

LEMMA OkKeeps ==
    ASSUME TypeOK, NEW w \in Write, OkOf(w), reach'[w] \subseteq reach[w],
           life' = life, znodes' \subseteq znodes,
           \A s \in Server : view'[s].predecessor = view[s].predecessor,
           \A s \in Server : list[s] \subseteq list'[s]
    PROVE  OkOf(w)'
<1>1. reach[w] \in SUBSET Server
  BY DEF TypeOK
<1> QED
  BY <1>1 DEF OkOf

LEMMA OkStop ==
    ASSUME TypeOK, NEW w \in Write, OkOf(w), reach'[w] = reach[w],
           NEW x \in Server, Stop(x)
    PROVE  OkOf(w)'
<1>1. /\ life'[x] = "down"
      /\ \A s \in Server \ {x} :
            /\ life'[s] = life[s] /\ view'[s] = view[s]
            /\ list'[s] = list[s]
      /\ znodes' = znodes
  BY StopFacts
<1>2. reach[w] \in SUBSET Server
  BY DEF TypeOK
<1> QED
  BY <1>1, <1>2 DEF OkOf

LEMMA OkJoin ==
    ASSUME TypeOK, Rest, NEW w \in Write, OkOf(w),
           NEW x \in Server, Join(x)
    PROVE  OkOf(w)'
<1>1. /\ life[x] = "off" /\ life'[x] = "joining"
      /\ \A s \in Server \ {x} : life'[s] = life[s] /\ view'[s] = view[s]
      /\ znodes' = znodes \cup {x}
      /\ list' = list
  BY JoinFacts
<1>2. \/ reach'[w] = reach[w]
      \/ /\ reach'[w] = reach[w] \cup {x}
         /\ view'[x].predecessor \in Server
         /\ w \in list[view'[x].predecessor]
  BY JoinFacts
<1>3. reach[w] \in SUBSET Server
  BY DEF TypeOK
<1> SUFFICES ASSUME NEW s \in reach'[w]
             PROVE  /\ s \in znodes' /\ life'[s] \in {"copied", "ready"} =>
                          w \in list'[s]
                    /\ life'[s] # "off"
                    /\ life'[s] = "joining" =>
                          /\ view'[s].predecessor \in Server
                          /\ \/ life'[view'[s].predecessor] = "down"
                             \/ w \in list'[view'[s].predecessor]
  BY DEF OkOf
<1>4. CASE s = x
  <2>1. x \notin reach[w]
    BY <1>1 DEF OkOf
  <2> QED
    BY <1>1, <1>2, <1>4, <2>1
<1>5. CASE s # x
  <2>1. s \in reach[w] /\ s \in Server
    BY <1>2, <1>3, <1>5
  <2>2. life'[s] = life[s] /\ view'[s] = view[s]
    BY <1>1, <1>5, <2>1
  <2>3. \A p \in Server : life[p] = "down" => life'[p] = "down"
    BY <1>1
  <2> QED
    BY <1>1, <1>5, <2>1, <2>2, <2>3 DEF OkOf
<1> QED
  BY <1>4, <1>5

LEMMA OkStart ==
    ASSUME TypeOK, Rest, NEW w \in Write, OkOf(w), NEW x \in Server,
           Copy(x) \/ CopyFails(x) \/ Listen(x)
    PROVE  OkOf(w)'
<1>1. /\ life[x] \in {"joining", "copied"} /\ life'[x] \in {"copied", "ready"}
      /\ \A s \in Server \ {x} : life'[s] = life[s] /\ list'[s] = list[s]
      /\ UNCHANGED <<znodes, view>>
  BY StartFacts
<1>2. /\ life[x] = "joining" =>
            \/ reach'[w] = reach[w] \ {x}
            \/ reach'[w] = reach[w] /\ view[x].predecessor = NULL
            \/ /\ reach'[w] = reach[w] /\ list'[x] = list[view[x].predecessor]
               /\ life[view[x].predecessor] = "ready"
      /\ life[x] = "copied" => reach'[w] = reach[w] /\ list' = list
  BY StartFacts
<1>3. reach[w] \in SUBSET Server
  BY DEF TypeOK
<1>4. list[x] \subseteq list'[x]
  BY <1>1, <1>2 DEF Rest, OffInv
<1> SUFFICES ASSUME NEW s \in reach'[w]
             PROVE  /\ s \in znodes' /\ life'[s] \in {"copied", "ready"} =>
                          w \in list'[s]
                    /\ life'[s] # "off"
                    /\ life'[s] = "joining" =>
                          /\ view'[s].predecessor \in Server
                          /\ \/ life'[view'[s].predecessor] = "down"
                             \/ w \in list'[view'[s].predecessor]
  BY DEF OkOf
<1>5. s \in reach[w] /\ s \in Server
  BY <1>1, <1>2, <1>3
<1>6. CASE s = x
  <2>1. CASE life[x] = "joining"
    <3>1. view[x].predecessor # NULL
      BY <1>5, <1>6, <2>1, Numbers DEF OkOf
    <3>2. /\ list'[x] = list[view[x].predecessor]
          /\ life[view[x].predecessor] = "ready"
      BY <1>2, <1>6, <2>1, <3>1
    <3>3. w \in list'[x]
      BY <1>5, <1>6, <2>1, <3>2 DEF OkOf
    <3> QED
      BY <1>1, <1>6, <3>3
  <2>2. CASE life[x] = "copied"
    <3>1. s \in znodes => w \in list'[s]
      BY <1>2, <1>5, <1>6, <2>2 DEF OkOf
    <3> QED
      BY <1>1, <1>6, <3>1
  <2> QED
    BY <1>1, <2>1, <2>2
<1>7. CASE s # x
  <2>1. life'[s] = life[s] /\ list'[s] = list[s] /\ view'[s] = view[s]
    BY <1>1, <1>5, <1>7
  <2>2. \A p \in Server :
           /\ life[p] = "down" => life'[p] = "down"
           /\ list[p] \subseteq list'[p]
    BY <1>1, <1>4
  <2> QED
    BY <1>1, <1>5, <2>1, <2>2 DEF OkOf
<1> QED
  BY <1>6, <1>7

LEMMA OkStarts ==
    ASSUME TypeOK, Rest, LinksInv, FreshInv, ReachInv, PromiseInv,
           NEW x \in Server, NEW w \in Write, work[x].id = w,
           AnswerClient(x), work[x].pc = "ok"
    PROVE  OkOf(w)'
<1>1. work[x].from = Client
  BY DEF AnswerClient
<1>2. /\ reach'[w] = reach[w] /\ reach[w] \in SUBSET Server
      /\ UNCHANGED <<life, znodes, list>>
  BY <1>1, AnswerFacts DEF TypeOK
<1>3. outcome[w] = "called" /\ entry[w] = x
  BY <1>1 DEF FreshInv, ClientWork
<1>4. ReachOf(w) /\ Promise(x, w)
  BY <1>1, <1>3 DEF ReachInv, PromiseInv, PromiseOf
<1>5. \A q \in reach[w] :
         q > x /\ q \in Nat /\ x \in Nat /\ life[q] \in {"ready", "down"}
  BY <1>2, <1>3, <1>4, Numbers DEF ReachOf
<1>6. \A q \in reach[w] : q >= x
  BY <1>5
<1>7. \A q \in reach[w] : q \in znodes /\ life[q] = "ready" => w \in list[q]
  BY <1>4, <1>6 DEF Promise, Alive, Running
<1> QED
  BY <1>2, <1>5, <1>7 DEF OkOf

-----------------------------------------------------------------------------
(* The steps. *)

\* What a step leaves alone, or does to a server that ends or starts.
Firm ==
    /\ \A s \in Server :
          /\ life[s] = "down" => life'[s] = "down"
          /\ life[s] \in {"ready", "down"} /\ Running(s)' =>
                life[s] = life'[s] /\ list[s] \subseteq list'[s]
          /\ life[s] # "off" /\ Running(s)' =>
                \/ view'[s].nodes = view[s].nodes
                \/ update[s].busy /\ view'[s].nodes = update[s].nodes
          /\ update'[s].busy =>
                \/ update[s].busy /\ update'[s].nodes = update[s].nodes
                \/ update'[s].nodes = znodes

\* A write that is under way goes on to the servers it is to get to.
LEMMA WayKeeps ==
    ASSUME TypeOK, TypeOK', Rest, EntryInv, Onward, Firm,
           NEW w \in Write, outcome[w] = "called",
           ReachInv, PathInv, PromiseInv,
           entry'[w] = entry[w], reach'[w] = reach[w],
           \A x \in Server : Handles(x, w)' => Handles(x, w) \/ OnPath(x, w),
           \A x \in Server : work'[x].id = w /\ work'[x].pc = "ok" =>
              (work[x].id = w /\ work[x].pc = "ok") \/ Promise(x, w)
    PROVE  ReachOf(w)' /\ PathOf(w)' /\ PromiseOf(w)'
<1>1. /\ ReachOf(w) /\ PathOf(w) /\ PromiseOf(w)
      /\ reach[w] \in SUBSET Server
  BY DEF ReachInv, PathInv, PromiseInv, TypeOK
<1>2. ReachOf(w)'
  BY <1>1, ReachKeeps DEF Firm
<1>3. PathOf(w)'
  <2> SUFFICES ASSUME NEW x \in Server, Handles(x, w)' PROVE OnPath(x, w)'
    BY DEF PathOf
  <2>1. OnPath(x, w)
    BY <1>1 DEF PathOf
  <2> QED
    BY <1>1, <2>1, PathKeeps
<1>4. PromiseOf(w)'
  <2> SUFFICES ASSUME NEW x \in Server, work'[x].id = w, work'[x].pc = "ok"
               PROVE  Promise(x, w)'
    BY DEF PromiseOf
  <2>1. Promise(x, w)
    BY <1>1 DEF PromiseOf
  <2>2. \A s \in reach[w] : life[s] \in {"ready", "down"}
    BY <1>1 DEF ReachOf
  <2>3. \A s \in reach[w] : Running(s)' =>
           life[s] = life'[s] /\ list[s] \subseteq list'[s]
    BY <1>1, <2>2 DEF Firm
  <2> QED
    BY <1>1, <2>1, <2>3, PromiseKeeps
<1> QED
  BY <1>2, <1>3, <1>4

\* The steps of the chain.
LEMMA WriteQuiet ==
    ASSUME TypeOK, TypeOK', Rest, WriteInv, Onward, Firm, SameWork,
           UNCHANGED <<inbox, outcome, entry>>,
           \A s \in Server : life[s] = "ready" => life'[s] = "ready",
           \A w \in Write :
              outcome[w] \in {"none", "called"} => reach'[w] = reach[w],
           \A w \in Write : outcome[w] = "ok" => OkOf(w)'
    PROVE  WriteInv'
<1> USE DEF WriteInv
<1>1. EntryInv' /\ FreshInv'
  BY FreshQuiet
<1>2. ASSUME NEW w \in Write, outcome[w] = "called"
      PROVE  ReachOf(w)' /\ PathOf(w)' /\ PromiseOf(w)'
  <2>1. \A x \in Server : Handles(x, w)' => Handles(x, w)
    BY DEF Handles, SameWork
  <2>2. \A x \in Server : work'[x].id = w /\ work'[x].pc = "ok" =>
           work[x].id = w /\ work[x].pc = "ok"
    BY DEF SameWork
  <2> QED
    BY <1>2, <2>1, <2>2, WayKeeps
<1>3. ReachInv' /\ PathInv' /\ PromiseInv'
  BY <1>2 DEF ReachInv, PathInv, PromiseInv
<1>4. OkInv'
  BY DEF OkInv
<1> QED
  BY <1>1, <1>3, <1>4

LEMMA WriteChain ==
    ASSUME TypeOK, TypeOK', Rest, WriteInv, Onward, NEW x \in Server,
           \/ Join(x) \/ Copy(x) \/ CopyFails(x) \/ Listen(x)
           \/ Close(x) \/ Expire(x) \/ BeginUpdate(x)
           \/ Commit(x) \/ CommitUnconnected(x)
    PROVE  WriteInv'
<1>1. \A w \in Write : outcome[w] = "ok" => OkOf(w)
  BY DEF WriteInv, OkInv
<1>2. CASE Join(x)
  <2>1. /\ life[x] = "off"
        /\ \A s \in Server \ {x} : life'[s] = life[s] /\ view'[s] = view[s]
        /\ UNCHANGED <<update, list, inbox, work, outcome, entry>>
        /\ \A w \in Write : outcome[w] # "ok" => reach'[w] = reach[w]
    BY <1>2, JoinFacts
  <2>2. Firm
    BY <2>1 DEF Firm, TypeOK
  <2>3. SameWork
    BY <2>1 DEF SameWork
  <2>4. \A w \in Write : outcome[w] = "ok" => OkOf(w)'
    BY <1>1, <1>2, OkJoin
  <2> QED
    BY <2>1, <2>2, <2>3, <2>4, WriteQuiet
<1>3. CASE Copy(x) \/ CopyFails(x) \/ Listen(x)
  <2>1. /\ life[x] \in {"joining", "copied"}
        /\ \A s \in Server \ {x} : life'[s] = life[s] /\ list'[s] = list[s]
        /\ UNCHANGED <<znodes, view, update, inbox, work, outcome, entry>>
        /\ \A w \in Write : reach'[w] = reach[w] \/ reach'[w] = reach[w] \ {x}
    BY <1>3, StartFacts
  <2>2. Firm
    BY <2>1 DEF Firm
  <2>3. SameWork
    BY <2>1 DEF SameWork
  <2>4. \A w \in Write :
           outcome[w] \in {"none", "called"} => x \notin reach[w]
    BY <2>1 DEF WriteInv, EntryInv, ReachInv, ReachOf
  <2>5. \A w \in Write :
           outcome[w] \in {"none", "called"} => reach'[w] = reach[w]
    BY <2>1, <2>4
  <2>6. \A w \in Write : outcome[w] = "ok" => OkOf(w)'
    BY <1>1, <1>3, OkStart
  <2> QED
    BY <2>1, <2>2, <2>3, <2>5, <2>6, WriteQuiet
<1>4. CASE Close(x) \/ Expire(x)
  <2>1. /\ znodes' = znodes \ {x}
        /\ UNCHANGED <<life, view, update, list, inbox, work, outcome, entry,
                       reach>>
    BY <1>4, SessionFacts
  <2>2. Firm
    BY <2>1 DEF Firm
  <2>3. SameWork
    BY <2>1 DEF SameWork
  <2>4. \A w \in Write : outcome[w] = "ok" => OkOf(w)'
    BY <1>1, <2>1, OkKeeps
  <2> QED
    BY <2>1, <2>2, <2>3, <2>4, WriteQuiet
<1>5. CASE BeginUpdate(x)
  <2>1. /\ update'[x].nodes = znodes
        /\ \A s \in Server \ {x} : update'[s] = update[s]
        /\ UNCHANGED <<life, znodes, view, list, inbox, work, outcome, entry,
                       reach>>
    BY <1>5, BeginFacts
  <2>2. Firm
    BY <2>1 DEF Firm
  <2>3. SameWork
    BY <2>1 DEF SameWork
  <2>4. \A w \in Write : outcome[w] = "ok" => OkOf(w)'
    BY <1>1, <2>1, OkKeeps
  <2> QED
    BY <2>1, <2>2, <2>3, <2>4, WriteQuiet
<1>6. CASE Commit(x) \/ CommitUnconnected(x)
  <2>1. /\ update[x].busy /\ ~update'[x].busy
        /\ view'[x].nodes = update[x].nodes
        /\ \A s \in Server \ {x} : view'[s] = view[s] /\ update'[s] = update[s]
        /\ \A s \in Server : view'[s].predecessor = view[s].predecessor
        /\ SameWork
        /\ UNCHANGED <<life, znodes, list, inbox, outcome, entry, reach>>
    BY <1>6, CommitFacts
  <2>2. Firm
    BY <2>1 DEF Firm
  <2>3. \A w \in Write : outcome[w] = "ok" => OkOf(w)'
    BY <1>1, <2>1, OkKeeps
  <2> QED
    BY <2>1, <2>2, <2>3, WriteQuiet
<1> QED
  BY <1>2, <1>3, <1>4, <1>5, <1>6

LEMMA WriteStop ==
    ASSUME TypeOK, TypeOK', Rest, WriteInv, Onward, NEW x \in Server, Stop(x)
    PROVE  WriteInv'
<1> USE DEF WriteInv
<1>1. /\ life'[x] = "down" /\ work'[x] = Idle /\ inbox'[x] = {}
      /\ update'[x] = NoUpdate
      /\ \A s \in Server \ {x} :
            /\ life'[s] = life[s] /\ view'[s] = view[s]
            /\ update'[s] = update[s] /\ list'[s] = list[s]
            /\ work'[s] = work[s] /\ inbox'[s] = inbox[s]
      /\ \A w \in Write :
            IF entry[w] = x THEN outcome'[w] = "lost"
            ELSE /\ outcome'[w] = outcome[w] /\ entry'[w] = entry[w]
                 /\ reach'[w] = reach[w]
  BY StopFacts
<1>2. EntryInv' /\ FreshInv'
  BY FreshStop
<1>3. Firm
  BY <1>1 DEF Firm, Running, NoUpdate
<1>4. ASSUME NEW w \in Write, outcome'[w] = "called"
      PROVE  ReachOf(w)' /\ PathOf(w)' /\ PromiseOf(w)'
  <2>1. /\ outcome[w] = "called" /\ entry'[w] = entry[w]
        /\ reach'[w] = reach[w]
    BY <1>1, <1>4
  <2>2. \A s \in Server : Handles(s, w)' => Handles(s, w)
    BY <1>1, IdleId DEF Handles
  <2>3. \A s \in Server : work'[s].id = w /\ work'[s].pc = "ok" =>
           work[s].id = w /\ work[s].pc = "ok"
    BY <1>1, IdleId
  <2> QED
    BY <1>3, <2>1, <2>2, <2>3, WayKeeps
<1>5. ReachInv' /\ PathInv' /\ PromiseInv'
  BY <1>4 DEF ReachInv, PathInv, PromiseInv
<1>6. OkInv'
  <2> SUFFICES ASSUME NEW w \in Write, outcome'[w] = "ok" PROVE OkOf(w)'
    BY DEF OkInv
  <2>1. outcome[w] = "ok" /\ reach'[w] = reach[w]
    BY <1>1
  <2>2. OkOf(w)
    BY <2>1 DEF OkInv
  <2> QED
    BY <2>1, <2>2, OkStop
<1> QED
  BY <1>2, <1>5, <1>6

LEMMA WriteCall ==
    ASSUME TypeOK, TypeOK', Rest, WriteInv, Onward, NEW x \in Server,
           NEW v \in Write, Call(v, x)
    PROVE  WriteInv'
<1> USE DEF WriteInv
<1> DEFINE n == [from |-> Client, id |-> v, attempt |-> 1]
<1>1. /\ outcome[v] = "none" /\ outcome'[v] = "called" /\ entry'[v] = x
      /\ \A w \in Write \ {v} :
            outcome'[w] = outcome[w] /\ entry'[w] = entry[w]
      /\ inbox'[x] = inbox[x] \cup {n}
      /\ \A s \in Server \ {x} : inbox'[s] = inbox[s]
      /\ UNCHANGED <<life, znodes, view, update, list, work, reach>>
  BY CallFacts
<1>2. n.id = v
  OBVIOUS
<1> HIDE DEF n
<1>3. EntryInv' /\ FreshInv'
  BY FreshCall
<1>4. Firm
  BY <1>1 DEF Firm
<1>5. \A s \in Server : ~Handles(s, v)
  BY <1>1 DEF EntryInv
<1>6. ASSUME NEW w \in Write, outcome'[w] = "called"
      PROVE  ReachOf(w)' /\ PathOf(w)' /\ PromiseOf(w)'
  <2>1. CASE w # v
    <3>1. outcome[w] = "called" /\ entry'[w] = entry[w] /\ reach'[w] = reach[w]
      BY <1>1, <1>6, <2>1
    <3>2. \A s \in Server : Handles(s, w)' => Handles(s, w)
      BY <1>1, <1>2, <2>1 DEF Handles
    <3> QED
      BY <1>1, <1>4, <3>1, <3>2, WayKeeps
  <2>2. CASE w = v
    <3>1. reach'[w] = {}
      BY <1>1, <2>2 DEF EntryInv
    <3> QED
      BY <1>1, <1>5, <2>2, <3>1
         DEF ReachOf, PathOf, PromiseOf, Handles, OnPath, Sees
  <2> QED
    BY <2>1, <2>2
<1>7. ReachInv' /\ PathInv' /\ PromiseInv'
  BY <1>6 DEF ReachInv, PathInv, PromiseInv
<1>8. OkInv'
  <2> SUFFICES ASSUME NEW w \in Write, outcome'[w] = "ok" PROVE OkOf(w)'
    BY DEF OkInv
  <2>1. OkOf(w)
    BY <1>1 DEF OkInv
  <2> QED
    BY <1>1, <2>1, OkKeeps
<1> QED
  BY <1>3, <1>7, <1>8

LEMMA WriteExecute ==
    ASSUME TypeOK, TypeOK', Rest, LinksInv, WriteInv, Onward, NEW x \in Server,
           NEW m \in inbox[x], Execute(x, m)
    PROVE  WriteInv'
<1> USE DEF WriteInv
<1>1. /\ m.id \in Write
      /\ work'[x].pc = "forward" /\ work'[x].id = m.id
      /\ inbox'[x] = inbox[x] \ {m} /\ list'[x] = list[x] \cup {m.id}
      /\ \A s \in Server \ {x} :
            /\ work'[s] = work[s] /\ inbox'[s] = inbox[s]
            /\ list'[s] = list[s]
      /\ m.from # Client => reach' = reach
      /\ \A w \in Write \ {m.id} : reach'[w] = reach[w]
      /\ UNCHANGED <<life, znodes, view, update, outcome, entry>>
  BY ExecuteFacts
<1>2. EntryInv' /\ FreshInv'
  BY FreshExecute
<1>3. Firm
  BY <1>1 DEF Firm
<1>4. \A s \in Server, w \in Write : Handles(s, w)' => Handles(s, w)
  BY <1>1 DEF Handles
<1>5. \A s \in Server : work'[s].pc = "ok" => work'[s] = work[s]
  BY <1>1
<1>6. ASSUME NEW w \in Write, outcome[w] = "called"
      PROVE  ReachOf(w)' /\ PathOf(w)' /\ PromiseOf(w)'
  <2>1. CASE reach'[w] = reach[w]
    BY <1>1, <1>3, <1>4, <1>5, <1>6, <2>1, WayKeeps
  <2>2. CASE m.from = Client /\ w = m.id
    <3>1. /\ entry[w] = x
          /\ \A s \in Server :
                /\ work[s].id # w
                /\ \A k \in inbox[s] : k.id = w => s = x
      BY <2>2 DEF FreshInv, ClientInbox
    <3>2. ReachOf(w)'
      BY <2>2, ReachStarts
    <3>3. PathOf(w)'
      BY <1>1, <1>4, <3>1 DEF PathOf, OnPath, Handles
    <3>4. PromiseOf(w)'
      BY <1>1, <1>5, <3>1 DEF PromiseOf
    <3> QED
      BY <3>2, <3>3, <3>4
  <2> QED
    BY <1>1, <2>1, <2>2
<1>7. ReachInv' /\ PathInv' /\ PromiseInv'
  BY <1>1, <1>6 DEF ReachInv, PathInv, PromiseInv
<1>8. OkInv'
  <2> SUFFICES ASSUME NEW w \in Write, outcome[w] = "ok" PROVE OkOf(w)'
    BY <1>1 DEF OkInv
  <2>1. OkOf(w)
    BY DEF OkInv
  <2>2. w = m.id => m.from # Client
    BY DEF FreshInv, ClientInbox
  <2>3. reach'[w] = reach[w]
    BY <1>1, <2>2
  <2>4. \A s \in Server : list[s] \subseteq list'[s]
    BY <1>1
  <2> QED
    BY <1>1, <2>1, <2>3, <2>4, OkKeeps
<1> QED
  BY <1>2, <1>7, <1>8

LEMMA WriteForward ==
    ASSUME TypeOK, TypeOK', Rest, LinksInv, WriteInv, Onward, NEW x \in Server,
           \/ ForwardUnconnected(x) \/ ForwardNothing(x) \/ ForwardSend(x)
           \/ ReadElsewhere(x) \/ AnswerServer(x)
    PROVE  WriteInv'
<1> USE DEF WriteInv
<1>1. /\ \A s \in Server : WorkMoves(s)
      /\ \A s \in Server : \A m \in inbox'[s] :
            m \in inbox[s] \/ (m.id = work[x].id /\ s = view[x].link)
      /\ UNCHANGED <<life, znodes, view, update, list, outcome, entry, reach>>
  BY ForwardFacts
<1>2. EntryInv' /\ FreshInv'
  BY FreshForward
<1>3. Firm
  BY <1>1 DEF Firm
<1>4. ASSUME NEW w \in Write, outcome[w] = "called"
      PROVE  ReachOf(w)' /\ PathOf(w)' /\ PromiseOf(w)'
  <2>1. ASSUME NEW s \in Server, Handles(s, w)'
        PROVE  Handles(s, w) \/ OnPath(s, w)
    <3>1. CASE work'[s].id = w
      <4>1. work[s].id = w
        BY <1>1, <3>1, IdleId DEF WorkMoves, Carries
      <4> QED
        BY <4>1 DEF Handles
    <3>2. CASE \E m \in inbox'[s] : m.id = w
      <4>1. \/ Handles(s, w)
            \/ work[x].id = w /\ s = view[x].link
        BY <1>1, <3>2 DEF Handles
      <4>2. ASSUME work[x].id = w, s = view[x].link PROVE OnPath(s, w)
        <5>1. CASE work[x].pc # "idle"
          BY <1>4, <4>2, <5>1, Numbers, PathForward
        <5>2. CASE work[x].pc = "idle"
          <6>1. inbox' = inbox
            BY <5>2 DEF ForwardUnconnected, ForwardNothing, ForwardSend,
                        ReadElsewhere, AnswerServer, Done
          <6> QED
            BY <1>4, <3>2, <6>1 DEF PathInv, PathOf, Handles
        <5> QED
          BY <5>1, <5>2
      <4> QED
        BY <4>1, <4>2
    <3> QED
      BY <2>1, <3>1, <3>2 DEF Handles
  <2>2. ASSUME NEW s \in Server, work'[s].id = w, work'[s].pc = "ok"
        PROVE  (work[s].id = w /\ work[s].pc = "ok") \/ Promise(s, w)
    <3>1. \/ work'[s] = work[s]
          \/ /\ work[s].id = w /\ work[s].pc # "idle"
             /\ \/ SuccessorIn(view[s].nodes, s) = NULL
                \/ \E r \in Server :
                      /\ work[s].pc = "await" /\ work[s].target = r
                      /\ work[r].pc = "ok" /\ work[r].id = work[s].id
      BY <1>1, <2>2, IdleId DEF WorkMoves, Carries
    <3> QED
      BY <1>4, <2>2, <3>1, PromiseStarts
  <2> QED
    BY <1>1, <1>3, <1>4, <2>1, <2>2, WayKeeps
<1>5. ReachInv' /\ PathInv' /\ PromiseInv'
  BY <1>1, <1>4 DEF ReachInv, PathInv, PromiseInv
<1>6. OkInv'
  BY <1>1, OkKeeps DEF OkInv
<1> QED
  BY <1>2, <1>5, <1>6

LEMMA WriteAnswer ==
    ASSUME TypeOK, TypeOK', Rest, LinksInv, WriteInv, Onward, NEW x \in Server,
           AnswerClient(x)
    PROVE  WriteInv'
<1> USE DEF WriteInv
<1>1. work[x].id \in Write
  BY BusyId DEF AnswerClient, Done
<1>2. /\ work[x].pc \in {"ok", "error"} /\ work'[x] = Idle
      /\ \A s \in Server \ {x} : work'[s] = work[s]
      /\ outcome'[work[x].id] = work[x].pc
      /\ \A w \in Write \ {work[x].id} :
            /\ outcome'[w] = outcome[w] /\ entry'[w] = entry[w]
            /\ reach'[w] = reach[w]
      /\ UNCHANGED <<life, znodes, view, update, list, inbox>>
  BY <1>1, AnswerFacts
<1>3. EntryInv' /\ FreshInv'
  BY FreshAnswer
<1>4. Firm
  BY <1>2 DEF Firm
<1>5. ASSUME NEW w \in Write, outcome'[w] = "called"
      PROVE  ReachOf(w)' /\ PathOf(w)' /\ PromiseOf(w)'
  <2>1. /\ outcome[w] = "called" /\ entry'[w] = entry[w]
        /\ reach'[w] = reach[w]
    BY <1>2, <1>5
  <2>2. \A s \in Server : Handles(s, w)' => Handles(s, w)
    BY <1>2, IdleId DEF Handles
  <2>3. \A s \in Server : work'[s].id = w /\ work'[s].pc = "ok" =>
           work[s].id = w /\ work[s].pc = "ok"
    BY <1>2, IdleId
  <2> QED
    BY <1>2, <1>4, <2>1, <2>2, <2>3, WayKeeps
<1>6. ReachInv' /\ PathInv' /\ PromiseInv'
  BY <1>5 DEF ReachInv, PathInv, PromiseInv
<1>7. OkInv'
  <2> SUFFICES ASSUME NEW w \in Write, outcome'[w] = "ok" PROVE OkOf(w)'
    BY DEF OkInv
  <2>1. CASE w = work[x].id
    BY <1>2, <2>1, OkStarts
  <2>2. CASE w # work[x].id
    <3>1. OkOf(w) /\ reach'[w] = reach[w]
      BY <1>2, <2>2 DEF OkInv
    <3> QED
      BY <1>2, <3>1, OkKeeps
  <2> QED
    BY <2>1, <2>2
<1> QED
  BY <1>3, <1>6, <1>7

LEMMA ReachInit == Init => LinksInv /\ WriteInv
<1> SUFFICES ASSUME Init PROVE LinksInv /\ WriteInv
  OBVIOUS
<1> DEFINE serving == 1..Serving
<1>1. serving \in SUBSET Server
  BY SystemAssumption DEF Server
<1>2. \A s \in Server :
         /\ life[s] = IF s \in serving THEN "ready" ELSE "off"
         /\ list[s] = {} /\ inbox[s] = {}
         /\ work[s] = Idle /\ update[s] = NoUpdate
  BY DEF Init
<1>3. \A s \in Server :
         /\ view[s].link = NULL \/ s \in serving
         /\ s \in serving =>
               view[s].nodes = serving /\ view[s].link = SuccessorIn(serving, s)
  BY DEF Init, NoView
<1>4. \A w \in Write :
         outcome[w] = "none" /\ entry[w] = NULL /\ reach[w] = {}
  BY DEF Init
<1> HIDE DEF serving
<1>5. NextInv
  <2> SUFFICES ASSUME NEW s \in Server, view[s].link # NULL
               PROVE  /\ view[s].link = SuccessorIn(view[s].nodes, s)
                      /\ life[view[s].link] = "ready"
    BY DEF NextInv
  <2>1. view[s].nodes = serving /\ view[s].link = SuccessorIn(serving, s)
    BY <1>3
  <2>2. view[s].link \in serving
    BY <1>1, <2>1, Successor DEF After
  <2> QED
    BY <1>1, <1>2, <2>1, <2>2
<1>6. ReadInv /\ BusyInv /\ TargetInv
  BY <1>2 DEF ReadInv, BusyInv, TargetInv, Idle, NoUpdate
<1>7. EntryInv /\ FreshInv
  BY <1>2, <1>4, IdleId
     DEF EntryInv, FreshInv, ClientWork, ClientInbox, Handles
<1>8. ReachInv /\ PathInv /\ PromiseInv /\ OkInv
  BY <1>4 DEF ReachInv, PathInv, PromiseInv, OkInv
<1> QED
  BY <1>5, <1>6, <1>7, <1>8 DEF LinksInv, WriteInv

LEMMA ReachInvariant == Spec => [](LinksInv /\ WriteInv)
<1>1. Init => LinksInv /\ WriteInv
  BY ReachInit
<1>2. /\ TypeOK /\ TypeOK' /\ Rest /\ LinksInv /\ WriteInv
      /\ [Next]_vars
      => (LinksInv /\ WriteInv)'
  <2> SUFFICES ASSUME TypeOK, TypeOK', Rest, LinksInv, WriteInv, [Next]_vars
               PROVE  LinksInv' /\ WriteInv'
    OBVIOUS
  <2>1. CASE UNCHANGED vars
    <3>1. UNCHANGED <<life, znodes, view, update, list, inbox, work, outcome,
                      entry, reach>>
      BY <2>1 DEF vars, topology, writes
    <3>2. Onward /\ Firm /\ SameWork
      BY <3>1 DEF Onward, Firm, SameWork
    <3>3. LinksInv'
      BY <3>1, <3>2, LinksQuiet
    <3>4. \A w \in Write : outcome[w] = "ok" => OkOf(w)'
      BY <3>1, OkKeeps DEF WriteInv, OkInv
    <3>5. WriteInv'
      BY <3>1, <3>2, <3>4, WriteQuiet
    <3> QED
      BY <3>3, <3>5
  <2>2. CASE Next
    <3>1. PICK s \in Server :
              \/ Ends(s)
              \/ Close(s) \/ Expire(s)
              \/ Join(s) \/ Copy(s) \/ CopyFails(s) \/ Listen(s)
              \/ BeginUpdate(s) \/ Commit(s) \/ CommitUnconnected(s)
              \/ \E w \in Write : Call(w, s)
              \/ \E m \in inbox[s] : Execute(s, m)
              \/ ForwardUnconnected(s) \/ ForwardNothing(s) \/ ForwardSend(s)
              \/ ReadElsewhere(s) \/ AnswerClient(s) \/ AnswerServer(s)
      BY <2>2, Steps
    <3>2. CASE Ends(s)
      <4>1. Stop(s) /\ life[s] # "off"
        BY <3>2, EndsType, EndsStarted DEF Rest
      <4> QED
        BY <4>1, LinksStop, WriteStop
    <3>3. CASE Join(s)
      BY <3>3, LinksJoin, WriteChain
    <3>4. CASE Close(s) \/ Expire(s) \/ Copy(s) \/ CopyFails(s) \/ Listen(s)
      BY <3>4, LinksKeep, WriteChain
    <3>5. CASE BeginUpdate(s) \/ Commit(s) \/ CommitUnconnected(s)
      <4>1. UNCHANGED <<life, znodes>>
        BY <3>5, BeginFacts, CommitFacts
      <4>2. Onward
        BY <4>1 DEF Onward
      <4> QED
        BY <3>5, <4>2, LinksBegin, LinksCommit, WriteChain
    <3>6. CASE \E w \in Write : Call(w, s)
      BY <3>6, LinksKeep, WriteCall
    <3>7. CASE \E m \in inbox[s] : Execute(s, m)
      BY <3>7, LinksKeep, WriteExecute
    <3>8. CASE \/ ForwardUnconnected(s) \/ ForwardNothing(s) \/ ForwardSend(s)
               \/ ReadElsewhere(s) \/ AnswerServer(s)
      BY <3>8, LinksKeep, WriteForward
    <3>9. CASE AnswerClient(s)
      BY <3>9, LinksKeep, WriteAnswer
    <3> QED
      BY <3>1, <3>2, <3>3, <3>4, <3>5, <3>6, <3>7, <3>8, <3>9
  <2> QED
    BY <2>1, <2>2
<1> QED
  BY <1>1, <1>2, Invariant, PTL DEF Spec

\* A write that is answered OK is at every server of the chain that was
\* connected below the head when the head executed it, or that joined behind a
\* server that had it: whoever crashes, retries, or updates its connections in
\* between.
THEOREM ReachedTheorem == Spec => []OkMeansReached
<1>1. WriteInv => OkMeansReached
  BY DEF WriteInv, OkInv, OkOf, OkMeansReached, Member
<1> QED
  BY <1>1, ReachInvariant, PTL

=============================================================================
