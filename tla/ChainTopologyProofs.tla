------------------------ MODULE ChainTopologyProofs ------------------------
(***************************************************************************)
(* Proofs about ChainTopology for any number of servers and of failures:   *)
(* type correctness, that connections to successors lead down the chain,   *)
(* and that no change of the chain is missed.                              *)
(***************************************************************************)
EXTENDS ChainTopology, NaturalsInduction, WellFoundedInduction, TLAPS

-----------------------------------------------------------------------------
(* Neighbours in a set of znodes. *)

\* Servers are named by positive numbers.
LEMMA ServerNumbers == Server \subseteq Nat /\ NULL \notin Server
BY TopologyAssumption DEF TopologyAssumption, Server, NULL

\* A non-empty set of numbers has a smallest element.
LEMMA LeastElement ==
    ASSUME NEW S \in SUBSET Nat, S # {}
    PROVE  \E m \in S : \A j \in S : m <= j
<1>1. PICK m \in S : \A j \in S : <<j, m>> \notin OpToRel(<, Nat)
  BY NatLessThanWellFounded, WFMin
<1>2. ASSUME NEW j \in S, j < m PROVE FALSE
  <2>1. <<j, m>> \in Nat \X Nat /\ <<j, m>>[1] < <<j, m>>[2]
    BY <1>2
  <2> QED
    BY <1>1, <2>1 DEF OpToRel
<1> QED
  BY <1>2

\* SuccessorIn returns a server that joined later, or none.
LEMMA SuccessorIsAfter ==
    ASSUME NEW S \in SUBSET Server, NEW s \in Server
    PROVE  SuccessorIn(S, s) \in After(S, s) \cup {NULL}
<1>1. CASE After(S, s) = {}
  BY <1>1 DEF SuccessorIn
<1>2. CASE After(S, s) # {}
  <2>1. After(S, s) \in SUBSET Nat
    BY ServerNumbers DEF After
  <2>2. \E r \in After(S, s) : \A q \in After(S, s) : r <= q
    BY <1>2, <2>1, LeastElement
  <2> QED
    BY <1>2, <2>2 DEF SuccessorIn
<1> QED
  BY <1>1, <1>2

\* PredecessorIn returns a server that joined earlier, or none.
LEMMA PredecessorIsBefore ==
    ASSUME NEW S \in SUBSET Server, NEW s \in Server
    PROVE  PredecessorIn(S, s) \in Before(S, s) \cup {NULL}
<1>1. CASE Before(S, s) = {}
  BY <1>1 DEF PredecessorIn
<1>2. CASE Before(S, s) # {}
  <2> DEFINE Distance == {s - r : r \in Before(S, s)}
  <2>1. \A r \in Before(S, s) : r \in Nat /\ s - r \in Nat
    BY ServerNumbers DEF Before
  <2>2. Distance \in SUBSET Nat /\ Distance # {}
    BY <1>2, <2>1
  <2>3. PICK d \in Distance : \A e \in Distance : d <= e
    <3> HIDE DEF Distance
    <3> QED
      BY <2>2, LeastElement
  <2>4. PICK r \in Before(S, s) : d = s - r
    BY <2>3
  <2>5. \A q \in Before(S, s) : s - r <= s - q
    BY <2>3, <2>4
  <2>6. \A q \in Before(S, s) : r >= q
    BY <2>1, <2>5, ServerNumbers
  <2> QED
    BY <1>2, <2>4, <2>6 DEF PredecessorIn
<1> QED
  BY <1>1, <1>2

\* Both name a server of the set other than NULL, or NULL.
LEMMA Neighbours ==
    ASSUME NEW S \in SUBSET Server, NEW s \in Server
    PROVE  /\ SuccessorIn(S, s) \in S \cup {NULL}
           /\ PredecessorIn(S, s) \in S \cup {NULL}
           /\ NULL \notin S
           /\ SuccessorIn(S, s) # NULL => SuccessorIn(S, s) > s
BY SuccessorIsAfter, PredecessorIsBefore, ServerNumbers
   DEF After, Before

-----------------------------------------------------------------------------
(* Type correctness. *)

\* What the steps of an update make of its local variables.
LEMMA UpdateType ==
    ASSUME NEW u \in Update, NEW S \in SUBSET Server,
           NEW r \in Server \cup {NULL}
    PROVE  /\ NoUpdate \in Update
           /\ u.nodes \in SUBSET Server
           /\ u.successor \in Server \cup {NULL}
           /\ u.predecessor \in Server \cup {NULL}
           /\ \A p \in {"watch", "read", "connect", "predecessor", "commit"} :
                 /\ [u EXCEPT !.pc = p] \in Update
                 /\ [u EXCEPT !.nodes = S, !.pc = p] \in Update
                 /\ [u EXCEPT !.successor = r, !.pc = p] \in Update
                 /\ [u EXCEPT !.predecessor = r, !.pc = p] \in Update
BY DEF Update, NoUpdate

\* Changing one thread of one server keeps the type of the others.
LEMMA ThreadType ==
    ASSUME NEW f \in [Server -> [Thread -> Update]],
           NEW s \in Server, NEW t \in Thread, NEW u \in Update
    PROVE  [f EXCEPT ![s][t] = u] \in [Server -> [Thread -> Update]]
OBVIOUS

\* update_pending set or cleared.
LEMMA PendingType ==
    ASSUME NEW z \in ZkState, NEW b \in BOOLEAN
    PROVE  [z EXCEPT !.pending = b] \in ZkState
BY DEF ZkState

\* A process that ends.
LEMMA StopType ==
    ASSUME TypeOK, NEW s \in Server, Stop(s)
    PROVE  /\ znodes' \subseteq Server
           /\ watch' \in [Server -> BOOLEAN]
           /\ events' \in [Server -> Nat]
           /\ life' \in [Server -> Life]
           /\ thread' \in [Server -> [Thread -> Update]]
           /\ zk' \in [Server -> ZkState]
           /\ synced' \in [Server -> BOOLEAN]
           /\ overlapped' \in [Server -> BOOLEAN]
<1>1. [t \in Thread |-> NoUpdate] \in [Thread -> Update]
  BY DEF Update, NoUpdate
<1>2. NoZkState \in ZkState
  BY DEF ZkState, NoZkState
<1> QED
  BY <1>1, <1>2 DEF TypeOK, Stop, Life

\* Children of /chain that change.
LEMMA FireType ==
    ASSUME TypeOK, NEW watches, Fire(watches)
    PROVE  watch' \in [Server -> BOOLEAN] /\ events' \in [Server -> Nat]
BY DEF TypeOK, Fire

\* A step of an update.
LEMMA UpdateStepType ==
    ASSUME TypeOK, NEW s \in Server, NEW t \in Thread, UpdateStep(s, t)
    PROVE  TypeOK'
<1> DEFINE u == thread[s][t]
<1>0. /\ u \in Update /\ znodes \in SUBSET Server
      /\ failures \in Nat /\ crashes \in Nat /\ MaxFaults \in Nat
  BY TopologyAssumption DEF TypeOK, TopologyAssumption
<1>1. CASE CallFails(s, t)
  <2>1. failures' \in 0..MaxFaults /\ crashes' \in 0..MaxFaults
    BY <1>0, <1>1 DEF CallFails, TypeOK
  <2>2. CASE t = "main"
    BY <1>1, <2>1, <2>2, StopType DEF CallFails, GiveUp, TypeOK
  <2>3. CASE t # "main"
    <3>1. NoUpdate \in Update
      BY <1>0, UpdateType
    <3>2. thread' = [thread EXCEPT ![s][t] = NoUpdate]
      BY <1>1, <2>3 DEF CallFails, GiveUp
    <3>3. thread' \in [Server -> [Thread -> Update]]
      BY <3>1, <3>2, ThreadType DEF TypeOK
    <3> QED
      BY <1>1, <2>1, <2>3, <3>3 DEF CallFails, GiveUp, TypeOK
  <2> QED
    BY <2>2, <2>3
<1>2. CASE SetWatch(s, t)
  <2>1. [u EXCEPT !.pc = "read"] \in Update
    BY <1>0, UpdateType
  <2>2. thread' = [thread EXCEPT ![s][t] = [u EXCEPT !.pc = "read"]]
    BY <1>2 DEF SetWatch
  <2>3. thread' \in [Server -> [Thread -> Update]]
    BY <2>1, <2>2, ThreadType DEF TypeOK
  <2> QED
    BY <1>2, <2>3 DEF SetWatch, TypeOK
<1>3. CASE ReadChain(s, t)
  <2> DEFINE p == IF SuccessorIn(znodes, s) = NULL
                  THEN "predecessor" ELSE "connect"
             v == [u EXCEPT !.nodes = znodes, !.pc = p]
  <2>1. v \in Update
    BY <1>0, UpdateType
  <2>2. thread' = [thread EXCEPT ![s][t] = v]
    BY <1>3 DEF ReadChain, TypeOK
  <2> HIDE DEF v
  <2>4. thread' \in [Server -> [Thread -> Update]]
    BY <2>1, <2>2, ThreadType DEF TypeOK
  <2> QED
    BY <1>3, <2>4 DEF ReadChain, TypeOK
<1>4. CASE Connect(s, t)
  <2>1. PICK r \in {SuccessorIn(u.nodes, s), NULL} :
           thread' = [thread EXCEPT ![s][t].successor = r,
                                    ![s][t].pc = "predecessor"]
    BY <1>4 DEF Connect
  <2>2. r \in Server \cup {NULL}
    BY <1>0, UpdateType, Neighbours
  <2> DEFINE v == [u EXCEPT !.successor = r, !.pc = "predecessor"]
  <2>3. v \in Update
    BY <1>0, <2>2, UpdateType
  <2>4. thread' = [thread EXCEPT ![s][t] = v]
    BY <2>1 DEF TypeOK
  <2> HIDE DEF v
  <2>5. thread' \in [Server -> [Thread -> Update]]
    BY <2>3, <2>4, ThreadType DEF TypeOK
  <2> QED
    BY <1>4, <2>5 DEF Connect, TypeOK
<1>5. CASE FindPredecessor(s, t)
  <2> DEFINE prev == PredecessorIn(u.nodes, s)
             r == IF prev \in znodes /\ Active(s) THEN prev ELSE NULL
             v == [u EXCEPT !.predecessor = r, !.pc = "commit"]
  <2>1. v \in Update
    BY <1>0, UpdateType
  <2>2. thread' = [thread EXCEPT ![s][t] = v]
    BY <1>5 DEF FindPredecessor, TypeOK
  <2> HIDE DEF v
  <2>4. thread' \in [Server -> [Thread -> Update]]
    BY <2>1, <2>2, ThreadType DEF TypeOK
  <2> QED
    BY <1>5, <2>4 DEF FindPredecessor, TypeOK
<1>6. CASE AddressFails(s, t)
  <2> DEFINE p == IF u.pc = "connect" THEN "predecessor" ELSE "commit"
             v == [u EXCEPT !.pc = p]
  <2>1. v \in Update
    BY <1>0, UpdateType
  <2>2. thread' = [thread EXCEPT ![s][t] = v]
    BY <1>6 DEF AddressFails, TypeOK
  <2>3. failures' \in 0..MaxFaults
    BY <1>0, <1>6 DEF AddressFails
  <2> HIDE DEF v
  <2>4. thread' \in [Server -> [Thread -> Update]]
    BY <2>1, <2>2, ThreadType DEF TypeOK
  <2> QED
    BY <1>6, <2>3, <2>4 DEF AddressFails, TypeOK
<1>7. CASE Commit(s, t)
  <2>1. /\ NoUpdate \in Update
        /\ [pending |-> zk[s].pending, nodes |-> u.nodes,
            successor |-> u.successor, predecessor |-> u.predecessor] \in ZkState
    BY <1>0, UpdateType DEF TypeOK, ZkState
  <2>2. AfterUpdate(s, t) \in Life
    BY DEF AfterUpdate, Life, TypeOK
  <2>3. thread' = [thread EXCEPT ![s][t] = NoUpdate]
    BY <1>7 DEF Commit
  <2>4. thread' \in [Server -> [Thread -> Update]]
    BY <2>1, <2>3, ThreadType DEF TypeOK
  <2> QED
    BY <1>7, <2>1, <2>2, <2>4 DEF Commit, TypeOK
<1> QED
  BY <1>1, <1>2, <1>3, <1>4, <1>5, <1>6, <1>7 DEF UpdateStep

\* Every step of the topology keeps the types.
LEMMA TypeStep == TypeOK /\ [Next]_vars => TypeOK'
<1> SUFFICES ASSUME TypeOK, [Next]_vars PROVE TypeOK'
  OBVIOUS
<1>0. failures \in Nat /\ crashes \in Nat /\ MaxFaults \in Nat
  BY TopologyAssumption DEF TypeOK, TopologyAssumption
<1>1. ASSUME NEW s \in Server, Register(s) PROVE TypeOK'
  <2> DEFINE v == [thread[s]["main"] EXCEPT !.pc = "watch"]
  <2>1. "main" \in Thread /\ thread[s]["main"] \in Update
    BY DEF TypeOK, Thread
  <2>2. v \in Update
    BY <2>1, UpdateType
  <2>3. thread' = [thread EXCEPT ![s]["main"] = v]
    BY <1>1 DEF Register
  <2> HIDE DEF v
  <2>4. thread' \in [Server -> [Thread -> Update]]
    BY <2>1, <2>2, <2>3, ThreadType DEF TypeOK
  <2>5. watch' \in [Server -> BOOLEAN] /\ events' \in [Server -> Nat]
    BY <1>1, FireType DEF Register
  <2> QED
    BY <1>1, <2>4, <2>5 DEF Register, TypeOK, Life
<1>2. ASSUME NEW s \in Server, Crash(s) PROVE TypeOK'
  <2>1. crashes' \in 0..MaxFaults /\ failures' \in 0..MaxFaults
    BY <1>0, <1>2 DEF Crash, TypeOK
  <2> QED
    BY <1>2, <2>1, StopType DEF Crash, TypeOK
<1>3. ASSUME NEW s \in Server, SessionEnds(s), crashes' \in 0..MaxFaults
      PROVE  TypeOK'
  <2>1. watch' \in [Server -> BOOLEAN] /\ events' \in [Server -> Nat]
    BY <1>3, FireType DEF SessionEnds
  <2> QED
    BY <1>3, <2>1 DEF SessionEnds, TypeOK
<1>4. ASSUME NEW s \in Server, Close(s) PROVE TypeOK'
  BY <1>3, <1>4 DEF Close, TypeOK
<1>5. ASSUME NEW s \in Server, Expire(s) PROVE TypeOK'
  <2>1. crashes' \in 0..MaxFaults
    BY <1>0, <1>5 DEF Expire
  <2> QED
    BY <1>3, <1>5, <2>1 DEF Expire
<1>6. ASSUME NEW s \in Server, ChainWatcher(s) PROVE TypeOK'
  <2>0. [zk[s] EXCEPT !.pending = TRUE] \in ZkState
    BY PendingType DEF TypeOK
  <2>1. events[s] - 1 \in Nat
    BY <1>6 DEF ChainWatcher, TypeOK
  <2>2. zk' = [zk EXCEPT ![s] = [zk[s] EXCEPT !.pending = TRUE]]
    BY <1>6 DEF ChainWatcher
  <2>3. zk' \in [Server -> ZkState] /\ events' \in [Server -> Nat]
    BY <1>6, <2>0, <2>1, <2>2 DEF ChainWatcher, TypeOK
  <2> QED
    BY <1>6, <2>3 DEF ChainWatcher, TypeOK
<1>7. ASSUME NEW s \in Server, BeginUpdate(s) PROVE TypeOK'
  <2> DEFINE v == [thread[s]["update"] EXCEPT !.pc = "watch"]
  <2>1. "update" \in Thread /\ thread[s]["update"] \in Update
    BY DEF TypeOK, Thread
  <2>2. v \in Update
    BY <2>1, UpdateType
  <2>3. thread' = [thread EXCEPT ![s]["update"] = v]
    BY <1>7 DEF BeginUpdate
  <2>4. overlapped' \in [Server -> BOOLEAN]
    BY <1>7 DEF BeginUpdate, TypeOK
  <2>5. [zk[s] EXCEPT !.pending = FALSE] \in ZkState
    BY PendingType DEF TypeOK
  <2>6. zk' = [zk EXCEPT ![s] = [zk[s] EXCEPT !.pending = FALSE]]
    BY <1>7 DEF BeginUpdate
  <2>7. zk' \in [Server -> ZkState]
    BY <2>5, <2>6 DEF TypeOK
  <2> HIDE DEF v
  <2>8. thread' \in [Server -> [Thread -> Update]]
    BY <2>1, <2>2, <2>3, ThreadType DEF TypeOK
  <2> QED
    BY <1>7, <2>4, <2>7, <2>8 DEF BeginUpdate, TypeOK
<1>8. ASSUME NEW s \in Server, Sync(s) PROVE TypeOK'
  BY <1>8 DEF Sync, TypeOK, Life
<1>9. ASSUME NEW s \in Server, SyncFails(s) PROVE TypeOK'
  BY <1>9, StopType DEF SyncFails, TypeOK
<1>10. CASE UNCHANGED vars
  BY <1>10 DEF vars, TypeOK
<1> QED
  BY <1>1, <1>2, <1>4, <1>5, <1>6, <1>7, <1>8, <1>9, <1>10, UpdateStepType
     DEF Next, UpdateThread, Startup, Thread

\* Initially there is no server.
LEMMA TypeInit == Init => TypeOK
<1>1. NoUpdate \in Update /\ NoZkState \in ZkState
  BY DEF NoUpdate, Update, NoZkState, ZkState
<1> QED
  BY <1>1, TopologyAssumption DEF Init, TypeOK, Life, TopologyAssumption

\* Type correctness: an update knows servers only, and a server forwards to
\* another server or to nobody.
THEOREM TopologyTypeCorrect == Spec => []TypeOK
BY TypeInit, TypeStep, PTL DEF Spec

-----------------------------------------------------------------------------
(* What a server knows of the chain. *)

\* A change of the chain is on its way to the update thread.
Informed(s) == events[s] > 0 \/ zk[s].pending

\* An update with the local variables u is right about the chain as far as it
\* got, or another update will follow it.
UpdateKnows(s, u) ==
    /\ u.pc = "read" => Informed(s) \/ watch[s]
    /\ u.pc \in {"connect", "predecessor", "commit"} =>
          Informed(s) \/ (watch[s] /\ u.nodes = znodes)
    /\ u.pc \in {"watch", "read", "connect"} => u.successor = NULL
    /\ u.pc \in {"predecessor", "commit"} =>
          u.successor \in {NULL, SuccessorIn(u.nodes, s)}
    /\ u.pc = "commit" =>
          Informed(s) \/ u.predecessor = PredecessorIn(u.nodes, s)

\* Between updates the topology in zk_state is right, or an update follows.
RestKnows(s) ==
    (life[s] \in {"sync", "ready"} /\ \A t \in Thread : thread[s][t].pc = "wait")
        => Informed(s) \/ Current(s)

\* Only one thread is in an update, unless `overlapped` says otherwise.
Apart(s) ==
    /\ ~Running(s) => \A t \in Thread : thread[s][t].pc = "wait"
    /\ \A t \in Thread : thread[s][t].pc = "wait" => thread[s][t] = NoUpdate
    /\ overlapped[s] \/ \E t \in Thread : thread[s][t].pc = "wait"

Exempt(s) == failures > 0 \/ overlapped[s] \/ ~Active(s)

Knows(s) ==
    /\ Apart(s)
    /\ Running(s) =>
          \/ Exempt(s)
          \/ RestKnows(s) /\ \A t \in Thread : UpdateKnows(s, thread[s][t])

KnowsInv == TypeOK /\ \A s \in Server : Knows(s)

\* A step that changes nothing about server q, but may be a failing call.
LEMMA Untouched ==
    ASSUME NEW q \in Server, Knows(q), failures \in Nat,
           watch'[q] = watch[q], events'[q] = events[q], life'[q] = life[q],
           thread'[q] = thread[q], zk'[q] = zk[q],
           overlapped'[q] = overlapped[q], znodes' = znodes,
           failures' = failures \/ failures' = failures + 1
    PROVE  Knows(q)'
<1>1. Apart(q)' /\ (Running(q)' <=> Running(q))
  BY DEF Knows, Apart, Running
<1>2. Exempt(q) => Exempt(q)'
  BY DEF Exempt, Active
<1>3. RestKnows(q) => RestKnows(q)'
  BY DEF RestKnows, Informed, Current
<1>4. \A t \in Thread :
         UpdateKnows(q, thread[q][t]) => UpdateKnows(q, thread[q][t])'
  BY DEF UpdateKnows, Informed
<1> QED
  BY <1>1, <1>2, <1>3, <1>4 DEF Knows

\* A change of the children of /chain, seen from another server: its watch
\* fires, or an update is to come anyway.
LEMMA Told ==
    ASSUME NEW q \in Server, Knows(q), TypeOK,
           watch'[q] = FALSE,
           events'[q] = IF watch[q] THEN events[q] + 1 ELSE events[q],
           life'[q] = life[q], thread'[q] = thread[q], zk'[q] = zk[q],
           overlapped'[q] = overlapped[q], failures' = failures,
           q \in znodes' => q \in znodes
    PROVE  Knows(q)'
<1>0. events[q] \in Nat
  BY DEF TypeOK
<1>1. Apart(q)' /\ (Running(q)' <=> Running(q))
  BY DEF Knows, Apart, Running
<1>2. Exempt(q) => Exempt(q)'
  BY DEF Exempt, Active
<1>3. Informed(q) \/ watch[q] => Informed(q)'
  BY <1>0 DEF Informed
<1>4. RestKnows(q) => RestKnows(q)'
  BY <1>3 DEF RestKnows, Current
<1>5. \A t \in Thread :
         UpdateKnows(q, thread[q][t]) => UpdateKnows(q, thread[q][t])'
  BY <1>3 DEF UpdateKnows
<1> QED
  BY <1>1, <1>2, <1>4, <1>5 DEF Knows

\* A process that has ended knows nothing and is asked nothing.
LEMMA Stopped ==
    ASSUME NEW s \in Server, TypeOK, Stop(s)
    PROVE  Knows(s)'
<1>1. /\ life'[s] = "down"
      /\ \A t \in Thread : thread'[s][t] = NoUpdate
  BY DEF Stop, TypeOK
<1>2. NoUpdate.pc = "wait" /\ "main" \in Thread
  BY DEF NoUpdate, Thread
<1> QED
  BY <1>1, <1>2 DEF Knows, Apart, Running

\* The other servers do not notice a step of an update.
LEMMA UpdateStepOthers ==
    ASSUME KnowsInv, NEW s \in Server, NEW t \in Thread, UpdateStep(s, t),
           NEW q \in Server, q # s
    PROVE  Knows(q)'
<1>1. Knows(q) /\ failures \in Nat
  BY DEF KnowsInv, TypeOK
<1>2. /\ watch'[q] = watch[q] /\ events'[q] = events[q] /\ life'[q] = life[q]
      /\ thread'[q] = thread[q] /\ zk'[q] = zk[q]
      /\ overlapped'[q] = overlapped[q] /\ znodes' = znodes
  BY DEF KnowsInv, TypeOK, UpdateStep, CallFails, GiveUp, Stop, SetWatch,
         ReadChain, Connect, FindPredecessor, AddressFails, Commit
<1>3. failures' = failures \/ failures' = failures + 1
  BY DEF UpdateStep, CallFails, SetWatch, ReadChain, Connect,
         FindPredecessor, AddressFails, Commit
<1> QED
  BY <1>1, <1>2, <1>3, Untouched

\* Threads of a server after one of them, busy before, changed to v.
LEMMA ThreadMoves ==
    ASSUME KnowsInv, NEW s \in Server, NEW t \in Thread, NEW v,
           thread[s][t].pc # "wait", v.pc = "wait" => v = NoUpdate,
           thread' = [thread EXCEPT ![s][t] = v],
           Running(s)', overlapped'[s] = overlapped[s]
    PROVE  /\ Apart(s)'
           /\ Running(s)
           /\ thread'[s][t] = v
           /\ \A r \in Thread \ {t} : thread'[s][r] = thread[s][r]
           /\ ~Exempt(s) => \A r \in Thread \ {t} : thread[s][r] = NoUpdate
<1>1. thread \in [Server -> [Thread -> Update]] /\ Apart(s)
  BY DEF KnowsInv, Knows, TypeOK
<1>2. /\ thread'[s][t] = v
      /\ \A r \in Thread \ {t} : thread'[s][r] = thread[s][r]
  BY <1>1
<1>3. Running(s)
  BY <1>1 DEF Apart
<1>4. ~overlapped[s] => \A r \in Thread \ {t} : thread[s][r].pc = "wait"
  BY <1>1 DEF Apart, Thread
<1> QED
  BY <1>1, <1>2, <1>3, <1>4 DEF Apart, Exempt, Thread

\* A step of an update keeps what its own server knows.
LEMMA UpdateStepSelf ==
    ASSUME KnowsInv, NEW s \in Server, NEW t \in Thread, UpdateStep(s, t)
    PROVE  Knows(s)'
<1> DEFINE u == thread[s][t]
<1>0. /\ TypeOK /\ u \in Update /\ Knows(s) /\ Apart(s)
      /\ znodes \in SUBSET Server /\ failures \in Nat
  BY DEF KnowsInv, Knows, TypeOK
<1>1. NoUpdate.pc = "wait" /\ NoUpdate.successor = NULL
  BY DEF NoUpdate
<1>2. u.pc # "wait"
  BY DEF UpdateStep, CallFails, SetWatch, ReadChain, Connect,
         FindPredecessor, AddressFails, Commit
<1>3. Running(s)
  BY <1>0, <1>2 DEF Apart
<1>4. Exempt(s) \/ (RestKnows(s) /\ UpdateKnows(s, u))
  BY <1>0, <1>3 DEF Knows
<1>5. CASE CallFails(s, t) /\ t = "main"
  BY <1>0, <1>5, Stopped DEF CallFails, GiveUp
<1>6. CASE CallFails(s, t) /\ t # "main"
  <2>1. /\ thread' = [thread EXCEPT ![s][t] = NoUpdate]
        /\ life' = life /\ overlapped' = overlapped /\ znodes' = znodes
    BY <1>6 DEF CallFails, GiveUp
  <2>2. Apart(s)'
    BY <1>1, <1>2, <1>3, <2>1, ThreadMoves DEF Running
  <2>3. Exempt(s)'
    BY <1>0, <1>6, <2>1 DEF CallFails, Exempt, Active
  <2> QED
    BY <2>2, <2>3 DEF Knows
<1>7. CASE SetWatch(s, t)
  <2>1. PICK v : v = [u EXCEPT !.pc = "read"]
    OBVIOUS
  <2>2. v.pc = "read" /\ v.successor = u.successor
    BY <1>0, <2>1 DEF Update
  <2>8. watch'[s] = TRUE
    BY <1>0, <1>7 DEF SetWatch, TypeOK
  <2>0. thread' = [thread EXCEPT ![s][t] = v]
    BY <1>0, <1>7, <2>1 DEF SetWatch, TypeOK
  <2>3. /\ Running(s)' /\ overlapped'[s] = overlapped[s]
        /\ Exempt(s) => Exempt(s)'
    BY <1>3, <1>7 DEF SetWatch, Running, Exempt, Active
  <2>4. /\ Apart(s)' /\ thread'[s][t] = v
        /\ \A r \in Thread \ {t} : thread'[s][r] = thread[s][r]
        /\ ~Exempt(s) => \A r \in Thread \ {t} : thread[s][r] = NoUpdate
    BY <1>2, <2>0, <2>2, <2>3, ThreadMoves
  <2>5. UpdateKnows(s, u) => UpdateKnows(s, v)'
    BY <1>7, <2>2, <2>8 DEF SetWatch, UpdateKnows
  <2>6. ~Exempt(s) => \A r \in Thread : UpdateKnows(s, thread[s][r])'
    BY <1>1, <1>4, <2>4, <2>5 DEF UpdateKnows
  <2>7. RestKnows(s)'
    BY <2>2, <2>4 DEF RestKnows
  <2> QED
    BY <2>3, <2>4, <2>6, <2>7 DEF Knows
<1>8. CASE ReadChain(s, t)
  <2>1. PICK v : v = [u EXCEPT !.nodes = znodes,
                               !.pc = IF SuccessorIn(znodes, s) = NULL
                                      THEN "predecessor" ELSE "connect"]
    OBVIOUS
  <2>2. /\ v.pc \in {"connect", "predecessor"} /\ v.nodes = znodes
        /\ v.successor = u.successor
    BY <1>0, <2>1 DEF Update
  <2>a. v.pc # "wait" /\ v.pc # "idle"
    BY <2>2
  <2>0. thread' = [thread EXCEPT ![s][t] = v]
    BY <1>0, <1>8, <2>1 DEF ReadChain, TypeOK
  <2>3. /\ Running(s)' /\ overlapped'[s] = overlapped[s]
        /\ Exempt(s) => Exempt(s)'
    BY <1>3, <1>8 DEF ReadChain, Running, Exempt, Active
  <2>4. /\ Apart(s)' /\ thread'[s][t] = v
        /\ \A r \in Thread \ {t} : thread'[s][r] = thread[s][r]
        /\ ~Exempt(s) => \A r \in Thread \ {t} : thread[s][r] = NoUpdate
    BY <1>2, <2>0, <2>a, <2>3, ThreadMoves
  <2>5. UpdateKnows(s, u) => UpdateKnows(s, v)'
    BY <1>8, <2>2 DEF ReadChain, UpdateKnows, Informed
  <2>6. ~Exempt(s) => \A r \in Thread : UpdateKnows(s, thread[s][r])'
    BY <1>1, <1>4, <2>4, <2>5 DEF UpdateKnows
  <2>7. RestKnows(s)'
    BY <2>2, <2>4 DEF RestKnows
  <2> QED
    BY <2>3, <2>4, <2>6, <2>7 DEF Knows
<1>9. CASE Connect(s, t)
  <2>1. PICK c \in {SuccessorIn(u.nodes, s), NULL} :
           thread' = [thread EXCEPT ![s][t].successor = c,
                                    ![s][t].pc = "predecessor"]
    BY <1>9 DEF Connect
  <2>2. PICK v : v = [u EXCEPT !.successor = c, !.pc = "predecessor"]
    OBVIOUS
  <2>3. v.pc = "predecessor" /\ v.nodes = u.nodes /\ v.successor = c
    BY <1>0, <2>2 DEF Update
  <2>4. thread' = [thread EXCEPT ![s][t] = v]
    BY <1>0, <2>1, <2>2 DEF TypeOK
  <2>5. /\ Running(s)' /\ overlapped'[s] = overlapped[s]
        /\ Exempt(s) => Exempt(s)'
    BY <1>3, <1>9 DEF Connect, Running, Exempt, Active
  <2>6. /\ Apart(s)' /\ thread'[s][t] = v
        /\ \A r \in Thread \ {t} : thread'[s][r] = thread[s][r]
        /\ ~Exempt(s) => \A r \in Thread \ {t} : thread[s][r] = NoUpdate
    BY <1>2, <2>3, <2>4, <2>5, ThreadMoves
  <2>7. UpdateKnows(s, u) => UpdateKnows(s, v)'
    BY <1>9, <2>3 DEF Connect, UpdateKnows, Informed
  <2>8. ~Exempt(s) => \A r \in Thread : UpdateKnows(s, thread[s][r])'
    BY <1>1, <1>4, <2>6, <2>7 DEF UpdateKnows
  <2>9. RestKnows(s)'
    BY <2>3, <2>6 DEF RestKnows
  <2> QED
    BY <2>5, <2>6, <2>8, <2>9 DEF Knows
<1>10. CASE FindPredecessor(s, t)
  <2> DEFINE prev == PredecessorIn(u.nodes, s)
             found == IF prev \in znodes /\ Active(s) THEN prev ELSE NULL
  <2>1. PICK v : v = [u EXCEPT !.predecessor = found, !.pc = "commit"]
    OBVIOUS
  <2>2. /\ v.pc = "commit" /\ v.nodes = u.nodes
        /\ v.successor = u.successor /\ v.predecessor = found
    BY <1>0, <2>1 DEF Update
  <2>3. u.nodes = znodes /\ Active(s) => v.predecessor = prev
    BY <1>0, <2>2, Neighbours
  <2>4. thread' = [thread EXCEPT ![s][t] = v]
    BY <1>0, <1>10, <2>1 DEF FindPredecessor, TypeOK
  <2>5. /\ Running(s)' /\ overlapped'[s] = overlapped[s]
        /\ Exempt(s) => Exempt(s)'
    BY <1>3, <1>10 DEF FindPredecessor, Running, Exempt, Active
  <2>6. /\ Apart(s)' /\ thread'[s][t] = v
        /\ \A r \in Thread \ {t} : thread'[s][r] = thread[s][r]
        /\ ~Exempt(s) => \A r \in Thread \ {t} : thread[s][r] = NoUpdate
    BY <1>2, <2>2, <2>4, <2>5, ThreadMoves
  <2>7. Active(s) /\ UpdateKnows(s, u) => UpdateKnows(s, v)'
    BY <1>10, <2>2, <2>3 DEF FindPredecessor, UpdateKnows, Informed
  <2>8. ~Exempt(s) => \A r \in Thread : UpdateKnows(s, thread[s][r])'
    <3>1. ~Exempt(s) => UpdateKnows(s, v)'
      BY <1>4, <2>7 DEF Exempt
    <3> QED
      BY <1>1, <2>6, <3>1 DEF UpdateKnows
  <2>9. RestKnows(s)'
    BY <2>2, <2>6 DEF RestKnows
  <2> QED
    BY <2>5, <2>6, <2>8, <2>9 DEF Knows
<1>11. CASE AddressFails(s, t)
  <2>1. PICK v : v = [u EXCEPT !.pc = IF u.pc = "connect" THEN "predecessor"
                                      ELSE "commit"]
    OBVIOUS
  <2>2. v.pc # "wait"
    BY <1>0, <2>1 DEF Update
  <2>3. /\ thread' = [thread EXCEPT ![s][t] = v]
        /\ Running(s)' /\ overlapped'[s] = overlapped[s]
    BY <1>0, <1>3, <1>11, <2>1 DEF AddressFails, TypeOK, Running
  <2>4. Apart(s)'
    BY <1>2, <2>2, <2>3, ThreadMoves
  <2>5. Exempt(s)'
    BY <1>0, <1>11 DEF AddressFails, Exempt
  <2> QED
    BY <2>4, <2>5 DEF Knows
<1>12. CASE Commit(s, t)
  <2>1. /\ thread' = [thread EXCEPT ![s][t] = NoUpdate]
        /\ overlapped' = overlapped /\ watch' = watch /\ events' = events
        /\ znodes' = znodes /\ failures' = failures
    BY <1>12 DEF Commit
  <2>2. Running(s)'
    BY <1>0, <1>3, <1>12 DEF Commit, Running, AfterUpdate, TypeOK
  <2>3. /\ Apart(s)' /\ thread'[s][t] = NoUpdate
        /\ \A r \in Thread \ {t} : thread'[s][r] = thread[s][r]
        /\ ~Exempt(s) => \A r \in Thread \ {t} : thread[s][r] = NoUpdate
    BY <1>2, <2>1, <2>2, ThreadMoves
  <2>4. Exempt(s) => Exempt(s)'
    BY <2>1 DEF Exempt, Active
  <2>5. ~Exempt(s) => \A r \in Thread : UpdateKnows(s, thread[s][r])'
    BY <1>1, <2>3 DEF UpdateKnows
  <2>6. /\ zk'[s].pending = zk[s].pending /\ zk'[s].nodes = u.nodes
        /\ zk'[s].successor = u.successor
        /\ zk'[s].predecessor = u.predecessor
    BY <1>0, <1>12 DEF Commit, TypeOK
  <2>7. UpdateKnows(s, u) => Informed(s)' \/ Current(s)'
    BY <1>12, <2>1, <2>6 DEF Commit, UpdateKnows, Informed, Current
  <2> QED
    BY <1>4, <2>3, <2>4, <2>5, <2>7 DEF Knows, RestKnows
<1> QED
  BY <1>5, <1>6, <1>7, <1>8, <1>9, <1>10, <1>11, <1>12 DEF UpdateStep

\* A server that registers: its predecessors and successors are told, and it
\* has begun its own first update.
LEMMA RegisterKnows ==
    ASSUME KnowsInv, NEW s \in Server, Register(s), NEW q \in Server
    PROVE  Knows(q)'
<1>0. Knows(q) /\ TypeOK /\ thread \in [Server -> [Thread -> Update]]
  BY DEF KnowsInv, TypeOK
<1>1. CASE q # s
  <2>1. /\ watch'[q] = FALSE
        /\ events'[q] = IF watch[q] THEN events[q] + 1 ELSE events[q]
        /\ life'[q] = life[q] /\ thread'[q] = thread[q] /\ zk'[q] = zk[q]
        /\ overlapped'[q] = overlapped[q] /\ failures' = failures
        /\ (q \in znodes' => q \in znodes)
    BY <1>0, <1>1 DEF Register, Fire, TypeOK
  <2> QED
    BY <1>0, <2>1, Told
<1>2. CASE q = s
  <2>1. /\ \A t \in Thread : thread[s][t] = NoUpdate
        /\ "main" \in Thread /\ "update" \in Thread
        /\ Thread = {"main", "update"}
    BY <1>0, <1>2 DEF Register, Knows, Apart, Running, Thread
  <2>2. /\ thread'[s]["main"] = [NoUpdate EXCEPT !.pc = "watch"]
        /\ thread'[s]["update"] = NoUpdate
        /\ life'[s] = "update"
    BY <1>0, <2>1 DEF Register, TypeOK
  <2>3. PICK v : v = [NoUpdate EXCEPT !.pc = "watch"]
    OBVIOUS
  <2>4. /\ v.pc = "watch" /\ v.successor = NULL
        /\ NoUpdate.pc = "wait"
    BY <2>3 DEF NoUpdate
  <2>5. Apart(s)' /\ RestKnows(s)'
    BY <2>1, <2>2, <2>3, <2>4 DEF Apart, RestKnows, Running
  <2>6. \A t \in Thread : UpdateKnows(s, thread[s][t])'
    BY <2>1, <2>2, <2>3, <2>4 DEF UpdateKnows
  <2> QED
    BY <1>2, <2>5, <2>6 DEF Knows
<1> QED
  BY <1>1, <1>2

\* A session that ends: the others are told, and the server of the session,
\* if it runs, gets no news any more.
LEMMA SessionEndsKnows ==
    ASSUME KnowsInv, NEW s \in Server, SessionEnds(s), NEW q \in Server
    PROVE  Knows(q)'
<1>0. Knows(q) /\ TypeOK
  BY DEF KnowsInv
<1>1. CASE q # s
  <2>1. /\ watch'[q] = FALSE
        /\ events'[q] = IF watch[q] THEN events[q] + 1 ELSE events[q]
        /\ life'[q] = life[q] /\ thread'[q] = thread[q] /\ zk'[q] = zk[q]
        /\ overlapped'[q] = overlapped[q] /\ failures' = failures
        /\ (q \in znodes' => q \in znodes)
    BY <1>0, <1>1 DEF SessionEnds, Fire, TypeOK
  <2> QED
    BY <1>0, <2>1, Told
<1>2. CASE q = s
  <2>1. Apart(s)'
    BY <1>0, <1>2 DEF SessionEnds, Knows, Apart, Running
  <2>2. Exempt(s)'
    BY DEF SessionEnds, Exempt, Active
  <2> QED
    BY <1>2, <2>1, <2>2 DEF Knows
<1> QED
  BY <1>1, <1>2

\* chain_watcher: the news moves from the event to update_pending.
LEMMA ChainWatcherKnows ==
    ASSUME KnowsInv, NEW s \in Server, ChainWatcher(s)
    PROVE  Knows(s)'
<1>0. Knows(s) /\ TypeOK
  BY DEF KnowsInv
<1>1. Informed(s)'
  BY <1>0 DEF ChainWatcher, Informed, TypeOK, ZkState
<1>2. Apart(s)' /\ (Running(s)' => Running(s)) /\ (Exempt(s) => Exempt(s)')
  BY <1>0 DEF ChainWatcher, Knows, Apart, Running, Exempt, Active
<1>3. RestKnows(s)'
  BY <1>1 DEF RestKnows
<1>4. \A t \in Thread :
         UpdateKnows(s, thread[s][t]) => UpdateKnows(s, thread[s][t])'
  BY <1>1 DEF ChainWatcher, UpdateKnows
<1> QED
  BY <1>0, <1>2, <1>3, <1>4 DEF Knows

\* The update thread begins: if the main thread is in an update as well, they
\* overlap; if not, the new update looks at everything again.
LEMMA BeginUpdateKnows ==
    ASSUME KnowsInv, NEW s \in Server, BeginUpdate(s)
    PROVE  Knows(s)'
<1>0. /\ Knows(s) /\ TypeOK /\ Apart(s) /\ Running(s)
      /\ thread \in [Server -> [Thread -> Update]]
  BY DEF KnowsInv, Knows, TypeOK, BeginUpdate
<1>1. thread[s]["update"] = NoUpdate /\ Thread = {"main", "update"}
  BY <1>0 DEF BeginUpdate, Apart, Thread
<1>2. PICK v : v = [NoUpdate EXCEPT !.pc = "watch"]
  OBVIOUS
<1>3. v.pc = "watch" /\ v.successor = NULL /\ NoUpdate.pc = "wait"
  BY <1>2 DEF NoUpdate
<1>4. thread' = [thread EXCEPT ![s]["update"] = v]
  BY <1>0, <1>1, <1>2 DEF BeginUpdate
<1>5. thread'[s]["update"] = v /\ thread'[s]["main"] = thread[s]["main"]
  BY <1>0, <1>1, <1>4
<1>6. /\ overlapped'[s] = (overlapped[s] \/ thread[s]["main"].pc # "wait")
      /\ (Running(s)' <=> Running(s))
  BY <1>0 DEF BeginUpdate, TypeOK, Running
<1>7. Apart(s)'
  BY <1>0, <1>1, <1>3, <1>5, <1>6 DEF Apart
<1>8. CASE thread[s]["main"].pc = "wait"
  <2>1. thread[s]["main"] = NoUpdate
    BY <1>0, <1>1, <1>8 DEF Apart
  <2>2. RestKnows(s)' /\ \A t \in Thread : UpdateKnows(s, thread[s][t])'
    BY <1>1, <1>3, <1>5, <2>1 DEF RestKnows, UpdateKnows
  <2> QED
    BY <1>7, <2>2 DEF Knows
<1>9. CASE thread[s]["main"].pc # "wait"
  BY <1>6, <1>7, <1>9 DEF Knows, Exempt
<1> QED
  BY <1>8, <1>9

\* The copying of the list changes nothing about the topology.
LEMMA SyncKnows ==
    ASSUME KnowsInv, NEW s \in Server, Sync(s)
    PROVE  Knows(s)'
<1>0. Knows(s) /\ TypeOK
  BY DEF KnowsInv
<1>1. life[s] = "sync" /\ life'[s] = "ready"
  BY <1>0 DEF Sync, TypeOK
<1>2. Apart(s)' /\ Running(s) /\ (Exempt(s) => Exempt(s)')
  BY <1>0, <1>1 DEF Sync, Knows, Apart, Running, Exempt, Active
<1>3. RestKnows(s) => RestKnows(s)'
  BY <1>1 DEF Sync, RestKnows, Informed, Current
<1>4. \A t \in Thread :
         UpdateKnows(s, thread[s][t]) => UpdateKnows(s, thread[s][t])'
  BY DEF Sync, UpdateKnows, Informed
<1> QED
  BY <1>0, <1>2, <1>3, <1>4 DEF Knows

\* Every step keeps what every server knows.
LEMMA KnowsStep == KnowsInv /\ [Next]_vars => KnowsInv'
<1> SUFFICES ASSUME KnowsInv, [Next]_vars, NEW q \in Server PROVE Knows(q)'
  BY TypeStep DEF KnowsInv
<1>0. Knows(q) /\ TypeOK /\ failures \in Nat
  BY DEF KnowsInv, TypeOK
<1>1. ASSUME NEW s \in Server, q # s,
             \/ Crash(s) \/ ChainWatcher(s) \/ BeginUpdate(s)
             \/ Sync(s) \/ SyncFails(s)
      PROVE  Knows(q)'
  <2>1. /\ watch'[q] = watch[q] /\ events'[q] = events[q]
        /\ life'[q] = life[q] /\ thread'[q] = thread[q] /\ zk'[q] = zk[q]
        /\ overlapped'[q] = overlapped[q] /\ znodes' = znodes
        /\ failures' = failures
    BY <1>0, <1>1 DEF Crash, Stop, ChainWatcher, BeginUpdate, Sync, SyncFails,
                      TypeOK
  <2> QED
    BY <1>0, <2>1, Untouched
<1>2. ASSUME NEW s \in Server, Register(s) PROVE Knows(q)'
  BY <1>2, RegisterKnows
<1>3. ASSUME NEW s \in Server, Crash(s) PROVE Knows(q)'
  BY <1>0, <1>1, <1>3, Stopped DEF Crash
<1>4. ASSUME NEW s \in Server, Close(s) \/ Expire(s) PROVE Knows(q)'
  BY <1>4, SessionEndsKnows DEF Close, Expire
<1>5. ASSUME NEW s \in Server, ChainWatcher(s) PROVE Knows(q)'
  BY <1>1, <1>5, ChainWatcherKnows
<1>6. ASSUME NEW s \in Server, BeginUpdate(s) PROVE Knows(q)'
  BY <1>1, <1>6, BeginUpdateKnows
<1>7. ASSUME NEW s \in Server, NEW t \in Thread, UpdateStep(s, t)
      PROVE  Knows(q)'
  BY <1>7, UpdateStepOthers, UpdateStepSelf
<1>8. ASSUME NEW s \in Server, Sync(s) PROVE Knows(q)'
  BY <1>1, <1>8, SyncKnows
<1>9. ASSUME NEW s \in Server, SyncFails(s) PROVE Knows(q)'
  BY <1>0, <1>1, <1>9, Stopped DEF SyncFails
<1>10. CASE UNCHANGED vars
  BY <1>0, <1>10, Untouched DEF vars
<1> QED
  BY <1>2, <1>3, <1>4, <1>5, <1>6, <1>7, <1>8, <1>9, <1>10
     DEF Next, UpdateThread, Startup, Thread

\* No change of the chain is missed: a server with nothing left to do knows
\* the chain as it is and will hear of the next change, for any number of
\* servers, while no call fails and its two threads never overlapped.
THEOREM ViewTheorem == Spec => []ViewIsCurrent
<1>1. Init => KnowsInv
  <2>1. NoUpdate.pc = "wait"
    BY DEF NoUpdate
  <2>2. Init => \A s \in Server : Knows(s)
    BY <2>1 DEF Init, Knows, Apart, Running, Thread
  <2> QED
    BY <2>2, TypeInit DEF KnowsInv
<1>2. KnowsInv => ViewIsCurrent
  <2> SUFFICES ASSUME KnowsInv, NEW s \in Server, Quiet(s), failures = 0,
                      ~overlapped[s]
               PROVE  Current(s)
    BY DEF ViewIsCurrent
  <2>1. Running(s) /\ ~Exempt(s) /\ ~Informed(s)
    BY DEF Quiet, Running, Exempt, Informed
  <2> QED
    BY <2>1 DEF KnowsInv, Knows, RestKnows, Quiet
<1> QED
  BY <1>1, <1>2, KnowsStep, PTL DEF Spec

-----------------------------------------------------------------------------
(* Successors. *)

DownInv ==
    /\ TypeOK
    /\ ForwardsDown
    /\ \A s \in Server, t \in Thread :
          thread[s][t].successor # NULL => thread[s][t].successor > s

\* A step of an update finds its successor among the later servers.
LEMMA UpdateStepDown ==
    ASSUME DownInv, NEW s \in Server, NEW t \in Thread, UpdateStep(s, t),
           NEW q \in Server
    PROVE  /\ zk'[q].successor # NULL => zk'[q].successor > q
           /\ \A r \in Thread : thread'[q][r].successor # NULL =>
                 thread'[q][r].successor > q
<1> DEFINE u == thread[s][t]
<1>0. /\ TypeOK /\ u \in Update /\ u.nodes \in SUBSET Server
      /\ thread \in [Server -> [Thread -> Update]]
      /\ u.successor # NULL => u.successor > s
      /\ zk[q].successor # NULL => zk[q].successor > q
      /\ \A r \in Thread : thread[q][r].successor # NULL =>
            thread[q][r].successor > q
      /\ NoUpdate.successor = NULL /\ NoZkState.successor = NULL
  BY DEF DownInv, ForwardsDown, TypeOK, Update, NoUpdate, NoZkState
<1>1. ASSUME NEW v, thread' = [thread EXCEPT ![s][t] = v],
             v.successor # NULL => v.successor > s
      PROVE  \A r \in Thread : thread'[q][r].successor # NULL =>
                thread'[q][r].successor > q
  BY <1>0, <1>1
<1>2. CASE CallFails(s, t)
  <2>1. CASE t = "main"
    <3>1. Stop(s)
      BY <1>2, <2>1 DEF CallFails, GiveUp
    <3> QED
      BY <1>0, <3>1 DEF Stop, TypeOK
  <2>2. CASE t # "main"
    <3>1. thread' = [thread EXCEPT ![s][t] = NoUpdate] /\ zk' = zk
      BY <1>2, <2>2 DEF CallFails, GiveUp
    <3> QED
      BY <1>0, <1>1, <3>1
  <2> QED
    BY <2>1, <2>2
<1>3. CASE SetWatch(s, t) \/ ReadChain(s, t) \/ FindPredecessor(s, t)
           \/ AddressFails(s, t)
  <2>1. PICK v : /\ thread' = [thread EXCEPT ![s][t] = v]
                 /\ v.successor = u.successor
    <3>1. CASE SetWatch(s, t)
      <4>1. PICK v : v = [u EXCEPT !.pc = "read"]
        OBVIOUS
      <4>2. v.successor = u.successor
        BY <1>0, <4>1 DEF Update
      <4>3. thread' = [thread EXCEPT ![s][t] = v]
        BY <1>0, <3>1, <4>1 DEF SetWatch
      <4> QED
        BY <4>2, <4>3
    <3>2. CASE ReadChain(s, t)
      <4>1. PICK v : v = [u EXCEPT !.nodes = znodes,
                                   !.pc = IF SuccessorIn(znodes, s) = NULL
                                          THEN "predecessor" ELSE "connect"]
        OBVIOUS
      <4>2. v.successor = u.successor
        BY <1>0, <4>1 DEF Update
      <4>3. thread' = [thread EXCEPT ![s][t] = v]
        BY <1>0, <3>2, <4>1 DEF ReadChain
      <4> QED
        BY <4>2, <4>3
    <3>3. CASE FindPredecessor(s, t)
      <4>1. PICK v : v = [u EXCEPT
                            !.predecessor =
                               IF /\ PredecessorIn(u.nodes, s) \in znodes
                                  /\ Active(s)
                               THEN PredecessorIn(u.nodes, s) ELSE NULL,
                            !.pc = "commit"]
        OBVIOUS
      <4>2. v.successor = u.successor
        BY <1>0, <4>1 DEF Update
      <4>3. thread' = [thread EXCEPT ![s][t] = v]
        BY <1>0, <3>3, <4>1 DEF FindPredecessor
      <4> QED
        BY <4>2, <4>3
    <3>4. CASE AddressFails(s, t)
      <4>1. PICK v : v = [u EXCEPT !.pc = IF u.pc = "connect"
                                          THEN "predecessor" ELSE "commit"]
        OBVIOUS
      <4>2. v.successor = u.successor
        BY <1>0, <4>1 DEF Update
      <4>3. thread' = [thread EXCEPT ![s][t] = v]
        BY <1>0, <3>4, <4>1 DEF AddressFails
      <4> QED
        BY <4>2, <4>3
    <3> QED
      BY <1>3, <3>1, <3>2, <3>3, <3>4
  <2>2. zk' = zk
    BY <1>3 DEF SetWatch, ReadChain, FindPredecessor, AddressFails
  <2> QED
    BY <1>0, <1>1, <2>1, <2>2
<1>4. CASE Connect(s, t)
  <2>1. PICK c \in {SuccessorIn(u.nodes, s), NULL} :
           thread' = [thread EXCEPT ![s][t].successor = c,
                                    ![s][t].pc = "predecessor"]
    BY <1>4 DEF Connect
  <2>2. PICK v : v = [u EXCEPT !.successor = c, !.pc = "predecessor"]
    OBVIOUS
  <2>3. thread' = [thread EXCEPT ![s][t] = v] /\ v.successor = c
    BY <1>0, <2>1, <2>2 DEF Update
  <2>4. c # NULL => c > s
    BY <1>0, Neighbours
  <2>5. zk' = zk
    BY <1>4 DEF Connect
  <2> QED
    BY <1>0, <1>1, <2>3, <2>4, <2>5
<1>5. CASE Commit(s, t)
  <2>1. /\ thread' = [thread EXCEPT ![s][t] = NoUpdate]
        /\ \A r \in Server : zk'[r].successor =
              IF r = s THEN u.successor ELSE zk[r].successor
    BY <1>0, <1>5 DEF Commit, TypeOK
  <2> QED
    BY <1>0, <1>1, <2>1
<1> QED
  BY <1>2, <1>3, <1>4, <1>5 DEF UpdateStep

\* Servers forward down the chain, whatever they have missed: for any number
\* of servers the connections to successors form no cycle.
THEOREM DownTheorem == Spec => []ForwardsDown
<1>1. Init => DownInv
  <2>1. NoUpdate.successor = NULL /\ NoZkState.successor = NULL
    BY DEF NoUpdate, NoZkState
  <2> QED
    BY <2>1, TypeInit DEF Init, DownInv, ForwardsDown
<1>2. DownInv /\ [Next]_vars => DownInv'
  <2> SUFFICES ASSUME DownInv, [Next]_vars, NEW q \in Server
               PROVE  /\ zk'[q].successor # NULL => zk'[q].successor > q
                      /\ \A r \in Thread : thread'[q][r].successor # NULL =>
                            thread'[q][r].successor > q
    BY TypeStep DEF DownInv, ForwardsDown
  <2>0. /\ TypeOK /\ thread \in [Server -> [Thread -> Update]]
        /\ zk \in [Server -> ZkState]
        /\ zk[q].successor # NULL => zk[q].successor > q
        /\ \A r \in Thread : thread[q][r].successor # NULL =>
              thread[q][r].successor > q
        /\ NoUpdate.successor = NULL /\ NoZkState.successor = NULL
    BY DEF DownInv, ForwardsDown, TypeOK, NoUpdate, NoZkState
  <2>1. ASSUME \A r \in Thread : thread'[q][r].successor = thread[q][r].successor,
               zk'[q].successor = zk[q].successor
        PROVE  /\ zk'[q].successor # NULL => zk'[q].successor > q
               /\ \A r \in Thread : thread'[q][r].successor # NULL =>
                     thread'[q][r].successor > q
    BY <2>0, <2>1
  <2>2. ASSUME NEW s \in Server, Register(s) \/ BeginUpdate(s)
        PROVE  /\ \A r \in Thread :
                     thread'[q][r].successor = thread[q][r].successor
               /\ zk'[q].successor = zk[q].successor
    <3>1. PICK t \in Thread :
             thread' = [thread EXCEPT
                          ![s][t] = [thread[s][t] EXCEPT !.pc = "watch"]]
      BY <2>2 DEF Register, BeginUpdate, Thread
    <3>2. [thread[s][t] EXCEPT !.pc = "watch"].successor
             = thread[s][t].successor
      BY <2>0 DEF Update
    <3>3. \A r \in Thread :
             thread'[q][r].successor = thread[q][r].successor
      BY <2>0, <3>1, <3>2
    <3>4. zk'[q].successor = zk[q].successor
      BY <2>0, <2>2 DEF Register, BeginUpdate, ZkState
    <3> QED
      BY <3>3, <3>4
  <2>3. ASSUME NEW s \in Server, Stop(s)
        PROVE  /\ zk'[q].successor # NULL => zk'[q].successor > q
               /\ \A r \in Thread : thread'[q][r].successor # NULL =>
                     thread'[q][r].successor > q
    BY <2>0, <2>3 DEF Stop
  <2>4. ASSUME NEW s \in Server, ChainWatcher(s)
        PROVE  /\ \A r \in Thread :
                     thread'[q][r].successor = thread[q][r].successor
               /\ zk'[q].successor = zk[q].successor
    BY <2>0, <2>4 DEF ChainWatcher, ZkState
  <2>5. ASSUME NEW s \in Server,
               Close(s) \/ Expire(s) \/ Sync(s)
        PROVE  thread' = thread /\ zk' = zk
    BY <2>5 DEF Close, Expire, SessionEnds, Sync
  <2>6. CASE UNCHANGED vars
    BY <2>1, <2>6 DEF vars
  <2> QED
    BY <2>1, <2>2, <2>3, <2>4, <2>5, <2>6, UpdateStepDown
       DEF Next, UpdateThread, Startup, Thread, Crash, SyncFails
<1>3. DownInv => ForwardsDown
  BY DEF DownInv
<1> QED
  BY <1>1, <1>2, <1>3, PTL DEF Spec

=============================================================================
