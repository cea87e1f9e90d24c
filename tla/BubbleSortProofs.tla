-------------------------- MODULE BubbleSortProofs --------------------------
(***************************************************************************)
(* The loop of list_order_by_year sorts stably, for every list of cars: it *)
(* returns the list that ListOrderByYear, by which the modules of the      *)
(* chain model the call, says it does.                                     *)
(***************************************************************************)
EXTENDS BubbleSort, CarListProofs

-----------------------------------------------------------------------------
(* The invariant.  The loop moves the data of the nodes about: pi says at   *)
(* which node of the input the car of every node was.                       *)

\* Every car of the input is at one node, and cars of one year are in the
\* order they had.
OneToOne(n, pi) ==
    /\ \A i, k \in 1..n : pi[i] = pi[k] => i = k
    /\ \A i \in 1..n : \E k \in 1..n : pi[k] = i

Stable(n, k, pi) ==
    \A i, j \in 1..n : i < j /\ k[i].ano = k[j].ano => pi[i] < pi[j]

Arranges(n, k, pi) ==
    /\ OneToOne(n, pi)
    /\ \A i \in 1..n : k[i] = input[pi[i]]
    /\ Stable(n, k, pi)

Rearranged ==
    \E pi \in [1..Len(input) -> 1..Len(input)] : Arranges(Len(input), l, pi)

OrderedUpTo(n) ==
    \A i, k \in DOMAIN input : i < k /\ k <= n => l[i].ano <= l[k].ano

\* A pass that has not swapped has seen an ordered list so far.
SortInv ==
    /\ Rearranged
    /\ ~swapped => OrderedUpTo(p)
    /\ returned => OrderedUpTo(Len(l))

-----------------------------------------------------------------------------
(* Type correctness. *)

LEMMA Nodes ==
    ASSUME TypeOK
    PROVE  /\ Len(input) \in Nat /\ DOMAIN input = 1..Len(input)
           /\ Len(l) = Len(input) /\ DOMAIN l = 1..Len(input)
           /\ l \in Seq(Data)
           /\ \A i \in 1..Len(input) :
                 input[i] \in Data /\ l[i] \in Data
                 /\ input[i].ano \in Int /\ l[i].ano \in Int
<1>1. Len(input) \in Nat /\ DOMAIN input = 1..Len(input)
  BY LenProperties DEF TypeOK
<1>2. l \in [1..Len(input) -> Data]
  BY <1>1 DEF TypeOK
<1>3. l \in Seq(Data)
  BY <1>1, <1>2, SeqDef
<1>4. DOMAIN l = 1..Len(input) /\ Len(l) = Len(input)
  <2>1. Len(l) \in Nat /\ DOMAIN l = 1..Len(l)
    BY <1>3, LenProperties
  <2>2. DOMAIN l = 1..Len(input)
    BY <1>2
  <2>3. 1..Len(l) = 1..Len(input)
    BY <2>1, <2>2
  <2>4. ASSUME NEW i \in Nat, NEW k \in Nat, 1..i = 1..k PROVE i = k
    <3>1. i # 0 => i \in 1..k
      BY <2>4
    <3>2. k # 0 => k \in 1..i
      BY <2>4
    <3> QED
      BY <3>1, <3>2
  <2> QED
    BY <1>1, <2>1, <2>2, <2>3, <2>4
<1>5. \A i \in 1..Len(input) : input[i] \in Data /\ l[i] \in Data
  BY <1>2, ElementOfSeq DEF TypeOK
<1>6. \A d \in Data : d.ano \in Int
  BY CarListAssumption DEF Data
<1> QED
  BY <1>1, <1>3, <1>4, <1>5, <1>6

\* What swapping the data of neighbours leaves.
LEMMA Swap ==
    ASSUME NEW n \in Nat, NEW T, NEW f \in [1..n -> T], NEW i \in 1..n,
           i < n, NEW g, g = [f EXCEPT ![i] = f[i + 1], ![i + 1] = f[i]]
    PROVE  /\ g \in [1..n -> T]
           /\ g[i] = f[i + 1] /\ g[i + 1] = f[i]
           /\ \A k \in 1..n : k # i /\ k # i + 1 => g[k] = f[k]
<1>1. i + 1 \in 1..n /\ i + 1 # i
  OBVIOUS
<1> QED
  BY <1>1

LEMMA TypeInit == Init => TypeOK
<1> SUFFICES ASSUME Init PROVE TypeOK
  OBVIOUS
<1>1. PICK n \in 0..MaxLen : input \in [1..n -> Data]
  BY DEF Init
<1>2. n \in Nat
  BY <1>1, MaxLenAssumption
<1>3. input \in Seq(Data) /\ DOMAIN input = 1..n
  BY <1>1, <1>2, SeqDef
<1>4. n = 0 => input = <<>>
  <2>1. Len(input) \in Nat /\ DOMAIN input = 1..Len(input)
    BY <1>3, LenProperties
  <2>2. n = 0 => Len(input) = 0
    BY <1>2, <1>3, <2>1
  <2> QED
    BY <1>3, <2>2, EmptySeq
<1>5. l \in [DOMAIN input -> Data]
  BY <1>1, <1>3 DEF Init
<1>6. p \in DOMAIN l \/ (p = 1 /\ l = <<>>)
  <2>1. CASE n = 0
    BY <1>4, <2>1 DEF Init
  <2>2. CASE n # 0
    BY <1>2, <1>3, <2>2 DEF Init
  <2> QED
    BY <2>1, <2>2
<1> QED
  BY <1>3, <1>5, <1>6 DEF Init, TypeOK

LEMMA TypeNext ==
    ASSUME TypeOK, [Next]_vars
    PROVE  TypeOK'
<1> DEFINE n == Len(input)
<1>0. n \in Nat /\ DOMAIN input = 1..n /\ Len(l) = n /\ DOMAIN l = 1..n
  BY Nodes
<1>1. ASSUME CompareAndSwap
      PROVE  TypeOK'
  <2>1. p \in 1..n /\ p < n /\ input' = input
    <3>1. p < n /\ input' = input
      BY <1>0, <1>1 DEF CompareAndSwap
    <3>2. p \in 1..n \/ (p = 1 /\ n = 0)
      BY <1>0 DEF TypeOK
    <3> QED
      BY <1>0, <3>1, <3>2
  <2>2. l' \in [DOMAIN input -> Data]
    <3>1. l \in [1..n -> Data]
      BY <1>0 DEF TypeOK
    <3>2. CASE OutOfOrder(p)
      <4>1. l' = [l EXCEPT ![p] = l[p + 1], ![p + 1] = l[p]]
        BY <1>1, <3>2 DEF CompareAndSwap
      <4> QED
        BY <1>0, <2>1, <3>1, <4>1, Swap
    <3>3. CASE ~OutOfOrder(p)
      BY <1>0, <1>1, <3>1, <3>3 DEF CompareAndSwap
    <3> QED
      BY <3>2, <3>3
  <2>3. p' \in DOMAIN l'
    <3>1. p' = p + 1 /\ DOMAIN l' = 1..n
      BY <1>0, <1>1, <2>2 DEF CompareAndSwap
    <3> QED
      BY <1>0, <2>1, <3>1
  <2>4. swapped' \in BOOLEAN /\ returned' \in BOOLEAN
    BY <1>1 DEF CompareAndSwap, TypeOK
  <2> QED
    BY <2>1, <2>2, <2>3, <2>4 DEF TypeOK
<1>2. ASSUME EndOfPass
      PROVE  TypeOK'
  <2>1. input' = input /\ l' = l /\ (p' = 1 \/ p' = p)
    BY <1>2 DEF EndOfPass
  <2>2. swapped' \in BOOLEAN /\ returned' \in BOOLEAN
    BY <1>2 DEF EndOfPass, TypeOK
  <2>3. n > 1
    BY <1>0, <1>2 DEF EndOfPass
  <2>4. 1 \in DOMAIN l
    BY <1>0, <2>3
  <2> QED
    BY <2>1, <2>2, <2>4 DEF TypeOK
<1>3. ASSUME ReturnEarly \/ UNCHANGED vars
      PROVE  TypeOK'
  BY <1>3 DEF ReturnEarly, TypeOK, vars
<1> QED
  BY <1>1, <1>2, <1>3 DEF Next

\* The loop stays within the list, whatever its length.
THEOREM TypeCorrect == Spec => []TypeOK
<1>1. Init => TypeOK
  BY TypeInit
<1>2. TypeOK /\ [Next]_vars => TypeOK'
  BY TypeNext
<1> QED
  BY <1>1, <1>2, PTL DEF Spec

-----------------------------------------------------------------------------
(* The order. *)

LEMMA SortInit == TypeOK /\ Init => SortInv
<1> SUFFICES ASSUME TypeOK, Init PROVE SortInv
  OBVIOUS
<1>0. DOMAIN input = 1..Len(input) /\ Len(input) \in Nat
  BY Nodes
<1>1. Rearranged
  <2> DEFINE pi == [i \in 1..Len(input) |-> i]
  <2>1. Arranges(Len(input), l, pi)
    BY <1>0 DEF Arranges, OneToOne, Stable, Init
  <2>2. pi \in [1..Len(input) -> 1..Len(input)]
    OBVIOUS
  <2> HIDE DEF pi
  <2> QED
    BY <2>1, <2>2 DEF Rearranged
<1>2. OrderedUpTo(1)
  BY <1>0 DEF OrderedUpTo
<1> QED
  BY <1>1, <1>2 DEF Init, SortInv

\* Neighbours exchange their values.
Exchanged(n, f, g, i) ==
    /\ g[i] = f[i + 1] /\ g[i + 1] = f[i]
    /\ \A k \in 1..n : k # i /\ k # i + 1 => g[k] = f[k]

LEMMA ExchangeOneToOne ==
    ASSUME NEW n \in Nat, NEW f \in [1..n -> 1..n], OneToOne(n, f),
           NEW i \in 1..n, i + 1 \in 1..n, NEW g, Exchanged(n, f, g, i)
    PROVE  OneToOne(n, g)
<1> DEFINE j == i + 1
<1>1. j \in 1..n /\ j # i
  OBVIOUS
<1>2. /\ g[i] = f[j] /\ g[j] = f[i]
      /\ \A k \in 1..n : k # i /\ k # j => g[k] = f[k]
  BY DEF Exchanged
<1>3. /\ \A k, m \in 1..n : f[k] = f[m] => k = m
      /\ \A k \in 1..n : \E m \in 1..n : f[m] = k
  BY DEF OneToOne
<1> HIDE DEF j
<1>4. ASSUME NEW k \in 1..n, NEW m \in 1..n, g[k] = g[m] PROVE k = m
  <2>1. \A x \in 1..n : \E y \in 1..n :
           /\ g[x] = f[y]
           /\ \/ x = i /\ y = j
              \/ x = j /\ y = i
              \/ x # i /\ x # j /\ y = x
    BY <1>1, <1>2
  <2>2. PICK x \in 1..n : /\ g[k] = f[x]
                          /\ \/ k = i /\ x = j
                             \/ k = j /\ x = i
                             \/ k # i /\ k # j /\ x = k
    BY <2>1
  <2>3. PICK y \in 1..n : /\ g[m] = f[y]
                          /\ \/ m = i /\ y = j
                             \/ m = j /\ y = i
                             \/ m # i /\ m # j /\ y = m
    BY <2>1
  <2>4. x = y
    BY <1>3, <1>4, <2>2, <2>3
  <2> QED
    BY <2>2, <2>3, <2>4
<1>5. ASSUME NEW k \in 1..n PROVE \E m \in 1..n : g[m] = k
  <2>1. PICK m \in 1..n : f[m] = k
    BY <1>3
  <2> QED
    BY <1>1, <1>2, <2>1
<1> QED
  BY <1>4, <1>5 DEF OneToOne

LEMMA ExchangeStable ==
    ASSUME NEW n \in Nat, NEW f \in [1..n -> 1..n], NEW k, Stable(n, k, f),
           NEW i \in 1..n, i + 1 \in 1..n, k[i].ano # k[i + 1].ano,
           NEW g, Exchanged(n, f, g, i), NEW m, Exchanged(n, k, m, i)
    PROVE  Stable(n, m, g)
<1> DEFINE j == i + 1
<1>1. j \in 1..n /\ j # i
  OBVIOUS
<1>2. /\ g[i] = f[j] /\ g[j] = f[i]
      /\ \A x \in 1..n : x # i /\ x # j => g[x] = f[x]
  BY DEF Exchanged
<1>3. /\ m[i] = k[j] /\ m[j] = k[i]
      /\ \A x \in 1..n : x # i /\ x # j => m[x] = k[x]
  BY DEF Exchanged
<1>4. \A x, y \in 1..n : x < y /\ k[x].ano = k[y].ano => f[x] < f[y]
  BY DEF Stable
<1>5. ASSUME NEW x \in 1..n, NEW y \in 1..n, x < y, m[x].ano = m[y].ano
      PROVE  g[x] < g[y]
  <2>1. \A z \in 1..n : /\ z # j /\ z < j <=> z = i \/ z < i
                        /\ i < z <=> z = j \/ j < z
    OBVIOUS
  <2>a. \A z \in 1..n : z < i => z < j
    OBVIOUS
  <2>b. \A z \in 1..n : j < z => i < z
    OBVIOUS
  <2>c. \A z \in 1..n : j < z => z # i /\ z # j
    OBVIOUS
  <2>d. k[i].ano # k[j].ano
    OBVIOUS
  <2> HIDE DEF j
  <2>2. CASE x = i /\ y = j
    BY <1>1, <1>3, <1>5, <2>d, <2>2
  <2>3. CASE x = i /\ y # j
    <3>1. j < y /\ y # i
      BY <1>1, <1>5, <2>1, <2>3
    <3>2. k[j].ano = k[y].ano /\ g[x] = f[j] /\ g[y] = f[y]
      BY <1>2, <1>3, <1>5, <2>3, <3>1
    <3> QED
      BY <1>1, <1>4, <3>1, <3>2
  <2>4. CASE x = j
    <3>1. i < y /\ y # i /\ y # j
      BY <1>5, <2>b, <2>c, <2>4
    <3>2. k[i].ano = k[y].ano /\ g[x] = f[i] /\ g[y] = f[y]
      BY <1>2, <1>3, <1>5, <2>4, <3>1
    <3> QED
      BY <1>1, <1>4, <3>1, <3>2
  <2>5. CASE x # i /\ x # j /\ y = i
    <3>1. x < j
      BY <1>1, <1>5, <2>a, <2>5
    <3>2. k[x].ano = k[j].ano /\ g[x] = f[x] /\ g[y] = f[j]
      BY <1>2, <1>3, <1>5, <2>5
    <3> QED
      BY <1>1, <1>4, <3>1, <3>2
  <2>6. CASE x # i /\ x # j /\ y = j
    <3>1. x < i
      BY <1>1, <1>5, <2>1, <2>6
    <3>2. k[x].ano = k[i].ano /\ g[x] = f[x] /\ g[y] = f[i]
      BY <1>2, <1>3, <1>5, <2>6
    <3> QED
      BY <1>1, <1>4, <3>1, <3>2
  <2>7. CASE x # i /\ x # j /\ y # i /\ y # j
    BY <1>2, <1>3, <1>4, <1>5, <2>7
  <2> QED
    BY <2>2, <2>3, <2>4, <2>5, <2>6, <2>7
<1> QED
  BY <1>5 DEF Stable

\* A swap of neighbours that are out of order leaves a stable rearrangement.
LEMMA SwapRearranges ==
    ASSUME TypeOK, Rearranged, p \in 1..Len(input), p < Len(input),
           OutOfOrder(p), input' = input,
           l' = [l EXCEPT ![p] = l[p + 1], ![p + 1] = l[p]]
    PROVE  Rearranged'
<1>1. PICK n \in Nat : n = Len(input)
  BY Nodes
<1>2. l \in [1..n -> Data] /\ \A i \in 1..n : l[i].ano \in Int
  BY <1>1, Nodes DEF TypeOK
<1>3. PICK pi \in [1..n -> 1..n] : Arranges(n, l, pi)
  BY <1>1 DEF Rearranged
<1>4. PICK i \in 1..n : i = p
  BY <1>1
<1>5. i < n /\ i + 1 \in 1..n /\ l[i].ano > l[i + 1].ano
  BY <1>1, <1>4 DEF OutOfOrder
<1>6. PICK new : new = [pi EXCEPT ![i] = pi[i + 1], ![i + 1] = pi[i]]
  OBVIOUS
<1>7. new \in [1..n -> 1..n] /\ Exchanged(n, pi, new, i)
  BY <1>3, <1>5, <1>6, Swap DEF Exchanged
<1>8. Exchanged(n, l, l', i)
  BY <1>2, <1>4, <1>5, Swap DEF Exchanged
<1>9. OneToOne(n, new)
  BY <1>3, <1>5, <1>7, ExchangeOneToOne DEF Arranges
<1>10. Stable(n, l', new)
  <2>1. l[i].ano # l[i + 1].ano
    BY <1>2, <1>5
  <2> QED
    BY <1>3, <1>5, <1>7, <1>8, <2>1, ExchangeStable DEF Arranges
<1>11. ASSUME NEW k \in 1..n PROVE l'[k] = input[new[k]]
  <2>1. \A m \in 1..n : l[m] = input[pi[m]]
    BY <1>3 DEF Arranges
  <2> QED
    BY <1>5, <1>7, <1>8, <2>1 DEF Exchanged
<1> QED
  <2>1. new \in [1..Len(input') -> 1..Len(input')] /\ n = Len(input')
    BY <1>1, <1>7
  <2>2. /\ OneToOne(Len(input'), new)
        /\ \A k \in 1..Len(input') : l'[k] = input'[new[k]]
        /\ Stable(Len(input'), l', new)
    BY <1>9, <1>10, <1>11, <2>1
  <2>3. Arranges(n, l, new)'
    BY <2>1, <2>2 DEF Arranges, OneToOne, Stable
  <2> QED
    BY <2>1, <2>3 DEF Rearranged

LEMMA SortNext ==
    ASSUME TypeOK, SortInv, [Next]_vars
    PROVE  SortInv'
<1> DEFINE n == Len(input)
<1>0. /\ n \in Nat /\ DOMAIN input = 1..n /\ Len(l) = n
      /\ \A i \in 1..n : l[i].ano \in Int
  BY Nodes
<1>1. ASSUME CompareAndSwap
      PROVE  SortInv'
  <2>1. p \in 1..n /\ p < n /\ input' = input /\ p' = p + 1
    <3>1. p < n /\ input' = input /\ p' = p + 1
      BY <1>0, <1>1 DEF CompareAndSwap
    <3>2. p \in 1..n \/ (p = 1 /\ n = 0)
      BY <1>0, Nodes DEF TypeOK
    <3> QED
      BY <1>0, <3>1, <3>2
  <2>2. ~returned'
    BY <1>1 DEF CompareAndSwap
  <2>3. CASE OutOfOrder(p)
    <3>1. l' = [l EXCEPT ![p] = l[p + 1], ![p + 1] = l[p]] /\ swapped'
      BY <1>1, <2>3 DEF CompareAndSwap
    <3>2. Rearranged'
      BY <2>1, <2>3, <3>1, SwapRearranges DEF SortInv
    <3> QED
      BY <2>2, <3>1, <3>2 DEF SortInv
  <2>4. CASE ~OutOfOrder(p)
    <3>1. l' = l /\ swapped' = swapped
      BY <1>1, <2>4 DEF CompareAndSwap
    <3>2. Rearranged'
      BY <2>1, <3>1 DEF SortInv, Rearranged, Arranges, Stable
    <3>3. p + 1 \in 1..n /\ l[p].ano <= l[p + 1].ano
      BY <1>0, <2>1, <2>4 DEF OutOfOrder
    <3>4. ASSUME OrderedUpTo(p), NEW i \in 1..n, NEW k \in 1..n,
                 i < k, k <= p + 1
          PROVE  l[i].ano <= l[k].ano
      <4>1. CASE k <= p
        BY <1>0, <3>4, <4>1 DEF OrderedUpTo
      <4>2. CASE k = p + 1
        <5>1. i < p => l[i].ano <= l[p].ano
          BY <1>0, <2>1, <3>4 DEF OrderedUpTo
        <5>2. i < p \/ i = p
          BY <1>0, <2>1, <3>4, <4>2
        <5> QED
          BY <1>0, <2>1, <3>3, <4>2, <5>1, <5>2
      <4> QED
        BY <1>0, <2>1, <3>4, <4>1, <4>2
    <3>5. OrderedUpTo(p) => OrderedUpTo(p + 1)
      BY <1>0, <3>4 DEF OrderedUpTo
    <3>6. ~swapped' => OrderedUpTo(p)'
      BY <1>0, <2>1, <3>1, <3>5 DEF SortInv, OrderedUpTo
    <3> QED
      BY <2>2, <3>2, <3>6 DEF SortInv
  <2> QED
    BY <2>3, <2>4
<1>2. ASSUME EndOfPass
      PROVE  SortInv'
  <2>1. input' = input /\ l' = l /\ p = n
    BY <1>0, <1>2 DEF EndOfPass
  <2>2. Rearranged'
    BY <2>1 DEF SortInv, Rearranged, Arranges, Stable
  <2>3. CASE swapped
    <3>1. p' = 1 /\ ~returned'
      BY <1>2, <2>3 DEF EndOfPass
    <3>2. OrderedUpTo(1)
      BY <1>0 DEF OrderedUpTo
    <3>3. OrderedUpTo(p)'
      BY <2>1, <3>1, <3>2 DEF OrderedUpTo
    <3> QED
      BY <2>2, <3>1, <3>3 DEF SortInv
  <2>4. CASE ~swapped
    <3>1. p' = p /\ swapped' = swapped
      BY <1>2, <2>4 DEF EndOfPass
    <3>2. OrderedUpTo(n)
      BY <2>1, <2>4 DEF SortInv
    <3>3. OrderedUpTo(p)' /\ OrderedUpTo(Len(l))'
      BY <1>0, <2>1, <3>1, <3>2 DEF OrderedUpTo
    <3> QED
      BY <2>2, <3>3 DEF SortInv
  <2> QED
    BY <2>3, <2>4
<1>3. ASSUME ReturnEarly
      PROVE  SortInv'
  <2>1. input' = input /\ l' = l /\ p' = p /\ swapped' = swapped /\ n <= 1
    BY <1>0, <1>3 DEF ReturnEarly
  <2>2. Rearranged' /\ (~swapped' => OrderedUpTo(p)')
    BY <2>1 DEF SortInv, Rearranged, Arranges, Stable, OrderedUpTo
  <2>3. OrderedUpTo(Len(l))'
    BY <1>0, <2>1 DEF OrderedUpTo
  <2> QED
    BY <2>2, <2>3 DEF SortInv
<1>4. ASSUME UNCHANGED vars
      PROVE  SortInv'
  BY <1>4 DEF SortInv, Rearranged, Arranges, Stable, OrderedUpTo, vars
<1> QED
  BY <1>1, <1>2, <1>3, <1>4 DEF Next

\* An ordered, stable rearrangement of the input is the one by YearRank: the
\* cars that come no later than node k of it are those of its first k nodes.
LEMMA OrderedIsListOrder ==
    ASSUME TypeOK, Rearranged, OrderedUpTo(Len(l))
    PROVE  l = ListOrderByYear(input)
<1> DEFINE n == Len(input)
           rank == YearRank(input)
<1>0. /\ n \in Nat /\ DOMAIN input = 1..n /\ l \in [1..n -> Data]
      /\ Len(l) = n
      /\ \A i \in 1..n : l[i].ano \in Int /\ i \in Int
  BY Nodes DEF TypeOK
<1>1. PICK pi \in [1..n -> 1..n] : Arranges(n, l, pi)
  BY <1>0 DEF Rearranged
<1>a. /\ \A i, k \in 1..n : pi[i] = pi[k] => i = k
      /\ \A i \in 1..n : \E k \in 1..n : pi[k] = i
  BY <1>1 DEF Arranges, OneToOne
<1>c. \A k \in 1..n : l[k] = input[pi[k]]
  BY <1>1 DEF Arranges
<1>d. \A i, k \in 1..n : i < k /\ l[i].ano = l[k].ano => pi[i] < pi[k]
  BY <1>1 DEF Arranges, Stable
<1>b. \A i, k \in 1..n : i < k => l[i].ano <= l[k].ano
  BY <1>0 DEF OrderedUpTo
<1> HIDE DEF n
<1>2. \A i \in 1..n : pi[i] \in 1..n /\ pi[i] \in Int
  BY <1>0
<1>3. ASSUME NEW i \in 1..n, NEW k \in 1..n
      PROVE  NoLater(input, pi[i], pi[k]) <=> i <= k
  <2>0. /\ i \in Int /\ k \in Int /\ pi[i] \in Int /\ pi[k] \in Int
        /\ input[pi[i]].ano = l[i].ano /\ l[i].ano \in Int
        /\ input[pi[k]].ano = l[k].ano /\ l[k].ano \in Int
    BY <1>0, <1>2, <1>c
  <2>1. CASE i = k
    BY <2>0, <2>1 DEF NoLater
  <2>2. CASE i < k
    <3>1. l[i].ano <= l[k].ano /\ (l[i].ano = l[k].ano => pi[i] < pi[k])
      BY <1>b, <1>d, <2>2
    <3> QED
      BY <2>0, <2>2, <3>1 DEF NoLater
  <2>3. CASE k < i
    <3>1. l[k].ano <= l[i].ano /\ (l[k].ano = l[i].ano => pi[k] < pi[i])
      BY <1>b, <1>d, <2>3
    <3> QED
      BY <2>0, <2>3, <3>1 DEF NoLater
  <2> QED
    BY <2>0, <2>1, <2>2, <2>3
<1>4. ASSUME NEW k \in 1..n
      PROVE  rank[pi[k]] = k
  <2> DEFINE S == {j \in 1..n : NoLater(input, j, pi[k])}
             f == [i \in 1..k |-> pi[i]]
  <2>1. rank[pi[k]] = Cardinality(S)
    BY <1>0, <1>2 DEF YearRank
  <2>2. \A i \in 1..k : i \in 1..n /\ i <= k
    BY <1>0
  <2>3. f \in [1..k -> S]
    BY <1>2, <1>3, <2>2
  <2>4. ASSUME NEW j \in S PROVE \E i \in 1..k : f[i] = j
    <3>1. PICK i \in 1..n : pi[i] = j
      BY <1>a
    <3>2. i \in 1..k
      BY <1>0, <1>3, <3>1
    <3> QED
      BY <3>1, <3>2
  <2>5. \A i, j \in 1..k : f[i] = f[j] => i = j
    BY <1>a, <2>2
  <2> HIDE DEF f, S
  <2>6. f \in Bijection(1..k, S)
    BY <2>3, <2>4, <2>5, Fun_IsBij
  <2>7. IsFiniteSet(1..k) /\ Cardinality(1..k) = k
    <3>1. k \in Int /\ 1 <= k
      BY <1>0
    <3>2. Cardinality(1..k) = IF 1 > k THEN 0 ELSE k - 1 + 1
      BY <3>1, FS_Interval
    <3> QED
      BY <3>1, <3>2, FS_Interval
  <2>8. ExistsBijection(1..k, S)
    BY <2>6 DEF ExistsBijection
  <2>9. Cardinality(S) = k
    BY <2>7, <2>8, FS_Bijection
  <2> QED
    BY <2>1, <2>9
<1>5. ASSUME NEW i \in 1..n, NEW k \in 1..n, rank[i] = k
      PROVE  i = pi[k]
  <2>1. PICK m \in 1..n : pi[m] = i
    BY <1>a
  <2>2. rank[i] = m
    BY <1>4, <2>1
  <2> QED
    BY <1>5, <2>1, <2>2
<1>6. DOMAIN rank = 1..n
  BY <1>0 DEF YearRank
<1>7. Cardinality(1..n) = n
  <2>1. n \in Int /\ 0 <= n
    BY <1>0
  <2>2. Cardinality(1..n) = IF 1 > n THEN 0 ELSE n - 1 + 1
    BY <2>1, FS_Interval
  <2> QED
    BY <2>1, <2>2
<1> HIDE DEF rank
<1>8. ByRank(input, rank) =
         [k \in 1..n |-> input[CHOOSE i \in 1..n : rank[i] = k]]
  BY <1>6, <1>7 DEF ByRank
<1>9. ASSUME NEW k \in 1..n
      PROVE  (CHOOSE i \in 1..n : rank[i] = k) = pi[k]
  <2>1. pi[k] \in 1..n /\ rank[pi[k]] = k
    BY <1>2, <1>4
  <2> QED
    BY <1>5, <2>1
<1>10. \A k \in 1..n : l[k] = input[CHOOSE i \in 1..n : rank[i] = k]
  BY <1>9, <1>c
<1>11. l = ByRank(input, rank)
  <2> DEFINE e(k) == input[CHOOSE i \in 1..n : rank[i] = k]
  <2>1. ByRank(input, rank) = [k \in 1..n |-> e(k)]
    BY <1>8
  <2>2. \A k \in 1..n : l[k] = e(k)
    BY <1>10
  <2>3. l = [k \in 1..n |-> l[k]]
    BY <1>0
  <2> HIDE DEF e
  <2> QED
    BY <2>1, <2>2, <2>3
<1> QED
  BY <1>11 DEF ListOrderByYear, rank

\* When list_order_by_year returns, the list is the stable ordering by year of
\* the list it was given, for every list.
THEOREM SortTheorem == Spec => []SortsStably
<1>1. Init => TypeOK /\ SortInv
  BY TypeInit, SortInit
<1>2. TypeOK /\ SortInv /\ [Next]_vars => SortInv'
  BY SortNext
<1>3. TypeOK /\ SortInv => SortsStably
  BY OrderedIsListOrder DEF SortInv, SortsStably
<1> QED
  BY <1>1, <1>2, <1>3, TypeCorrect, PTL DEF Spec

=============================================================================
