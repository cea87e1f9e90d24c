--------------------------- MODULE CarListProofs ---------------------------
(***************************************************************************)
(* Facts about the list operators, for every list: what the handlers of    *)
(* list_skel.c leave behind is again a list of cars, and what they answer  *)
(* is a reply.  The sort takes the work: that ListOrderByYear keeps the    *)
(* length and the cars of the list rests on YearRank being a bijection.    *)
(***************************************************************************)
EXTENDS CarList, SequenceTheorems, FiniteSetTheorems,
        FunctionTheorems, TLAPS

-----------------------------------------------------------------------------
(* Positions of a list. *)

\* A non-empty set of numbers has a smallest element, which First returns.
LEMMA FirstIsLeast ==
    ASSUME NEW S \in SUBSET Nat, S # {}
    PROVE  First(S) \in S /\ \A j \in S : First(S) <= j
<1>1. PICK m \in S : \A j \in S : <<j, m>> \notin OpToRel(<, Nat)
  BY NatLessThanWellFounded, WFMin
<1>2. ASSUME NEW j \in S PROVE m <= j
  <2>1. ~(j < m)
    <3> SUFFICES ASSUME j < m PROVE <<j, m>> \in OpToRel(<, Nat)
      BY <1>1
    <3>1. <<j, m>> \in Nat \X Nat
      OBVIOUS
    <3>2. <<j, m>>[1] < <<j, m>>[2]
      OBVIOUS
    <3> QED
      BY <3>1, <3>2 DEF OpToRel
  <2> QED
    BY <2>1
<1> QED
  BY <1>2 DEF First

\* The positions of a list are finitely many, and any set of them has a
\* cardinality no greater than the length.
LEMMA Positions ==
    ASSUME NEW l \in Seq(Data), NEW S \in SUBSET (DOMAIN l)
    PROVE  /\ Len(l) \in Nat
           /\ DOMAIN l = 1..Len(l)
           /\ IsFiniteSet(S)
           /\ Cardinality(S) \in 0..Len(l)
<1>1. Len(l) \in Nat /\ DOMAIN l = 1..Len(l)
  BY LenProperties
<1>2. IsFiniteSet(1..Len(l)) /\ Cardinality(1..Len(l)) = Len(l)
  <2>1. Len(l) \in Int
    BY <1>1
  <2>2. Cardinality(1..Len(l)) = IF 1 > Len(l) THEN 0 ELSE Len(l) - 1 + 1
    BY <2>1, FS_Interval
  <2> QED
    BY <1>1, <2>1, <2>2, FS_Interval
<1>3. IsFiniteSet(S) /\ Cardinality(S) <= Len(l)
  BY <1>1, <1>2, FS_Subset
<1>4. Cardinality(S) \in Nat
  BY <1>3, FS_CardinalityType
<1> QED
  BY <1>1, <1>3, <1>4

-----------------------------------------------------------------------------
(* The operations of list.c that change the list. *)

\* list_add appends one car.
LEMMA ListAddType ==
    ASSUME NEW l \in Seq(Data), NEW car \in Data
    PROVE  ListAdd(l, car) \in Seq(Data)
BY AppendProperties DEF ListAdd

\* list_remove_by_model unlinks one node and keeps the other cars.
LEMMA ListRemoveType ==
    ASSUME NEW l \in Seq(Data), NEW modelo \in Modelo
    PROVE  ListRemoveByModel(l, modelo) \in Seq(Data)
<1>1. CASE WithModelo(l, modelo) = {}
  BY <1>1 DEF ListRemoveByModel
<1>2. CASE WithModelo(l, modelo) # {}
  <2> DEFINE k == First(WithModelo(l, modelo))
  <2>1. k \in 1..Len(l) /\ Len(l) \in Nat
    <3>1. WithModelo(l, modelo) \in SUBSET (DOMAIN l)
      BY DEF WithModelo
    <3>2. Len(l) \in Nat /\ DOMAIN l = 1..Len(l)
      BY <3>1, Positions
    <3>3. WithModelo(l, modelo) \in SUBSET Nat
      BY <3>1, <3>2
    <3> QED
      BY <1>2, <3>1, <3>2, <3>3, FirstIsLeast
  <2>2. \A i \in 1..Len(l) : l[i] \in Data
    BY ElementOfSeq
  <2>3. SubSeq(l, 1, k - 1) \in Seq(Data)
    <3>1. \A i \in 1..(k - 1) : l[i] \in Data
      BY <2>1, <2>2
    <3> HIDE DEF k
    <3> QED
      BY <2>1, <3>1, SubSeqProperties
  <2>4. SubSeq(l, k + 1, Len(l)) \in Seq(Data)
    <3>1. \A i \in (k + 1)..Len(l) : l[i] \in Data
      BY <2>1, <2>2
    <3> HIDE DEF k
    <3> QED
      BY <2>1, <3>1, SubSeqProperties
  <2>5. Without(l, k) \in Seq(Data)
    BY <2>3, <2>4, ConcatProperties DEF Without
  <2> QED
    BY <1>2, <2>5 DEF ListRemoveByModel
<1> QED
  BY <1>1, <1>2

-----------------------------------------------------------------------------
(* Rearranging a list. *)

\* If rank numbers some positions of l from 1 without gaps, ByRank lists
\* their cars.
LEMMA ByRankType ==
    ASSUME NEW l \in Seq(Data), NEW rank,
           DOMAIN rank \in SUBSET (DOMAIN l),
           \A k \in 1..Cardinality(DOMAIN rank) :
              \E i \in DOMAIN rank : rank[i] = k
    PROVE  /\ ByRank(l, rank) \in Seq(Data)
           /\ Len(ByRank(l, rank)) = Cardinality(DOMAIN rank)
<1> DEFINE n == Cardinality(DOMAIN rank)
           pick(k) == CHOOSE i \in DOMAIN rank : rank[i] = k
<1>1. n \in Nat /\ DOMAIN l = 1..Len(l)
  BY Positions
<1>2. \A k \in 1..n : pick(k) \in DOMAIN rank
  OBVIOUS
<1>3. \A k \in 1..n : l[pick(k)] \in Data
  BY <1>1, <1>2, ElementOfSeq
<1>4. ByRank(l, rank) \in [1..n -> Data]
  BY <1>3 DEF ByRank
<1>5. ByRank(l, rank) \in Seq(Data)
  BY <1>1, <1>4, SeqDef
<1> HIDE DEF n
<1> QED
  BY <1>1, <1>4, <1>5, LenProperties DEF n

\* An injective numbering of the positions S by numbers up to |S| misses none.
LEMMA RankIsOnto ==
    ASSUME NEW l \in Seq(Data), NEW S \in SUBSET (DOMAIN l),
           NEW rank \in [S -> 1..Cardinality(S)],
           \A i, j \in S : rank[i] = rank[j] => i = j
    PROVE  \A k \in 1..Cardinality(S) : \E i \in S : rank[i] = k
<1>1. Cardinality(S) \in Nat
  BY Positions
<1>2. /\ IsFiniteSet(1..Cardinality(S))
      /\ Cardinality(1..Cardinality(S)) = Cardinality(S)
  BY <1>1, FS_Interval
<1>3. rank \in Injection(S, 1..Cardinality(S))
  BY Fun_IsInj
<1>4. rank \in Surjection(S, 1..Cardinality(S))
  BY <1>2, <1>3, FS_Injection
<1> QED
  BY <1>4, Fun_SurjectionProperties

\* Counting, for every position, the positions that come no later in a total
\* order gives such a numbering.
LEMMA RankByCounting ==
    ASSUME NEW l \in Seq(Data), NEW S \in SUBSET (DOMAIN l),
           NEW below \in [S -> SUBSET S],
           \A i \in S : i \in below[i],
           \A i, k \in S : i # k =>
              \/ below[i] \subseteq below[k] /\ k \notin below[i]
              \/ below[k] \subseteq below[i] /\ i \notin below[k]
    PROVE  LET rank == [i \in S |-> Cardinality(below[i])]
           IN  /\ rank \in [S -> 1..Cardinality(S)]
               /\ \A i, k \in S : rank[i] = rank[k] => i = k
               /\ \A k \in 1..Cardinality(S) : \E i \in S : rank[i] = k
<1> DEFINE rank == [i \in S |-> Cardinality(below[i])]
<1>1. IsFiniteSet(S) /\ Cardinality(S) \in Nat
  BY Positions
<1>2. ASSUME NEW i \in S
      PROVE  /\ IsFiniteSet(below[i])
             /\ Cardinality(below[i]) \in 1..Cardinality(S)
  <2>1. below[i] \in SUBSET S /\ i \in below[i]
    OBVIOUS
  <2>2. IsFiniteSet(below[i]) /\ Cardinality(below[i]) <= Cardinality(S)
    BY <1>1, <2>1, FS_Subset
  <2>3. Cardinality(below[i]) \in Nat
    BY <2>2, FS_CardinalityType
  <2>4. Cardinality(below[i]) # 0
    BY <2>1, <2>2, FS_EmptySet
  <2> QED
    BY <1>1, <2>2, <2>3, <2>4
<1>3. rank \in [S -> 1..Cardinality(S)]
  BY <1>2
<1>4. ASSUME NEW i \in S, NEW k \in S,
             below[i] \subseteq below[k], k \notin below[i]
      PROVE  Cardinality(below[i]) # Cardinality(below[k])
  <2>1. IsFiniteSet(below[k]) /\ below[i] # below[k]
    BY <1>2, <1>4
  <2> QED
    BY <1>4, <2>1, FS_Subset
<1>5. \A i, k \in S : rank[i] = rank[k] => i = k
  BY <1>4
<1> HIDE DEF rank
<1>6. \A k \in 1..Cardinality(S) : \E i \in S : rank[i] = k
  BY <1>3, <1>5, RankIsOnto
<1> QED
  BY <1>3, <1>5, <1>6 DEF rank

\* The years number the positions of a list from 1 to its length.
LEMMA YearRankNumbers ==
    ASSUME NEW l \in Seq(Data)
    PROVE  LET rank == YearRank(l) IN
           /\ rank \in [1..Len(l) -> 1..Len(l)]
           /\ \A i, k \in 1..Len(l) : rank[i] = rank[k] => i = k
           /\ \A k \in 1..Len(l) : \E i \in 1..Len(l) : rank[i] = k
<1> DEFINE S == DOMAIN l
           below == [k \in S |-> {i \in S : NoLater(l, i, k)}]
<1>1. Len(l) \in Nat /\ S = 1..Len(l)
  BY LenProperties
<1>2. \A i \in S : i \in Int /\ l[i].ano \in Int
  <2>1. \A i \in S : l[i] \in Data
    BY <1>1, ElementOfSeq
  <2>2. \A d \in Data : d.ano \in Int
    BY CarListAssumption DEF Data
  <2> QED
    BY <1>1, <2>1, <2>2
<1>3. \A i \in S : i \in below[i]
  BY <1>2 DEF NoLater
<1>4. ASSUME NEW i \in S, NEW k \in S, i # k
      PROVE  \/ below[i] \subseteq below[k] /\ k \notin below[i]
             \/ below[k] \subseteq below[i] /\ i \notin below[k]
  <2>1. CASE NoLater(l, i, k)
    <3>1. k \notin below[i]
      BY <1>2, <1>4, <2>1 DEF NoLater
    <3>2. \A j \in S : NoLater(l, j, i) => NoLater(l, j, k)
      BY <1>2, <2>1 DEF NoLater
    <3> QED
      BY <3>1, <3>2
  <2>2. CASE NoLater(l, k, i)
    <3>1. i \notin below[k]
      BY <1>2, <1>4, <2>2 DEF NoLater
    <3>2. \A j \in S : NoLater(l, j, k) => NoLater(l, j, i)
      BY <1>2, <2>2 DEF NoLater
    <3> QED
      BY <3>1, <3>2
  <2>3. NoLater(l, i, k) \/ NoLater(l, k, i)
    BY <1>2 DEF NoLater
  <2> QED
    BY <2>1, <2>2, <2>3
<1>5. below \in [S -> SUBSET S]
  OBVIOUS
<1>6. YearRank(l) = [i \in S |-> Cardinality(below[i])]
  BY DEF YearRank
<1> HIDE DEF below
<1>7. Cardinality(S) = Len(l)
  <2>1. Cardinality(1..Len(l)) = IF 1 > Len(l) THEN 0 ELSE Len(l) - 1 + 1
    BY <1>1, FS_Interval
  <2> QED
    BY <1>1, <2>1
<1>8. LET rank == [i \in S |-> Cardinality(below[i])]
      IN  /\ rank \in [S -> 1..Cardinality(S)]
          /\ \A i, k \in S : rank[i] = rank[k] => i = k
          /\ \A k \in 1..Cardinality(S) : \E i \in S : rank[i] = k
  BY <1>3, <1>4, <1>5, RankByCounting
<1> QED
  BY <1>1, <1>6, <1>7, <1>8

\* list_order_by_year keeps the length of the list and every car in it.
LEMMA ListOrderType ==
    ASSUME NEW l \in Seq(Data)
    PROVE  /\ ListOrderByYear(l) \in Seq(Data)
           /\ Len(ListOrderByYear(l)) = Len(l)
<1>1. Len(l) \in Nat /\ DOMAIN l = 1..Len(l)
  BY LenProperties
<1>2. DOMAIN YearRank(l) = 1..Len(l)
  BY YearRankNumbers
<1>3. Cardinality(1..Len(l)) = Len(l)
  <2>1. Cardinality(1..Len(l)) = IF 1 > Len(l) THEN 0 ELSE Len(l) - 1 + 1
    BY <1>1, FS_Interval
  <2> QED
    BY <1>1, <2>1
<1>4. \A k \in 1..Len(l) : \E i \in 1..Len(l) : YearRank(l)[i] = k
  BY YearRankNumbers
<1>5. /\ ByRank(l, YearRank(l)) \in Seq(Data)
      /\ Len(ByRank(l, YearRank(l))) = Cardinality(1..Len(l))
  BY <1>1, <1>2, <1>3, <1>4, ByRankType
<1> QED
  BY <1>3, <1>5 DEF ListOrderByYear

\* list_get_by_year returns cars of the list.
LEMMA ListGetByYearType ==
    ASSUME NEW l \in Seq(Data), NEW ano \in Ano
    PROVE  ListGetByYear(l, ano) \in Seq(Data)
<1> DEFINE S == WithAno(l, ano)
           below == [k \in S |-> {i \in S : i <= k}]
           rank == [i \in S |-> Cardinality({j \in S : j <= i})]
<1>1. S \in SUBSET (DOMAIN l) /\ \A i \in S : i \in Int
  <2>1. DOMAIN l = 1..Len(l)
    BY LenProperties
  <2> QED
    BY <2>1 DEF WithAno
<1>2. below \in [S -> SUBSET S] /\ \A i \in S : i \in below[i]
  BY <1>1
<1>3. \A i, k \in S : i # k =>
         \/ below[i] \subseteq below[k] /\ k \notin below[i]
         \/ below[k] \subseteq below[i] /\ i \notin below[k]
  BY <1>1
<1>4. rank = [i \in S |-> Cardinality(below[i])] /\ DOMAIN rank = S
  OBVIOUS
<1>5. ListGetByYear(l, ano) = ByRank(l, rank)
  BY DEF ListGetByYear
<1> HIDE DEF S, below, rank
<1>6. \A k \in 1..Cardinality(S) :
         \E i \in S : [j \in S |-> Cardinality(below[j])][i] = k
  BY <1>1, <1>2, <1>3, RankByCounting
<1> QED
  BY <1>1, <1>4, <1>5, <1>6, ByRankType

-----------------------------------------------------------------------------
(* How many cars of a model a list has. *)

LEMMA ModelPositions ==
    ASSUME NEW l \in Seq(Data), NEW modelo
    PROVE  /\ WithModelo(l, modelo) \in SUBSET (1..Len(l))
           /\ IsFiniteSet(WithModelo(l, modelo))
           /\ Cardinality(WithModelo(l, modelo)) \in Nat
           /\ Len(l) \in Nat /\ DOMAIN l = 1..Len(l)
<1>1. WithModelo(l, modelo) \in SUBSET (DOMAIN l)
  BY DEF WithModelo
<1>2. /\ DOMAIN l = 1..Len(l) /\ Len(l) \in Nat
      /\ IsFiniteSet(WithModelo(l, modelo))
  BY <1>1, Positions
<1> QED
  BY <1>1, <1>2, FS_CardinalityType

\* Two sets whose elements correspond one to one.
LEMMA SameCount ==
    ASSUME NEW S, NEW T, IsFiniteSet(S), NEW f \in [S -> T],
           \A i, k \in S : f[i] = f[k] => i = k,
           \A k \in T : \E i \in S : f[i] = k
    PROVE  Cardinality(S) = Cardinality(T)
<1>1. f \in Bijection(S, T)
  BY Fun_IsBij
<1>2. ExistsBijection(S, T)
  BY <1>1 DEF ExistsBijection
<1> QED
  BY <1>2, FS_Bijection

\* list_add adds one car of its model.
LEMMA AddModels ==
    ASSUME NEW l \in Seq(Data), NEW car \in Data, NEW modelo
    PROVE  Cardinality(WithModelo(ListAdd(l, car), modelo)) =
             Cardinality(WithModelo(l, modelo)) +
                (IF car.modelo = modelo THEN 1 ELSE 0)
<1> DEFINE k == ListAdd(l, car)
           S == WithModelo(l, modelo)
<1>1. Len(l) \in Nat /\ DOMAIN l = 1..Len(l)
  BY LenProperties
<1>2. /\ k \in Seq(Data) /\ Len(k) = Len(l) + 1
      /\ \A i \in 1..Len(l) : k[i] = l[i]
      /\ k[Len(l) + 1] = car
  BY AppendProperties DEF ListAdd
<1>3. DOMAIN k = 1..(Len(l) + 1)
  BY <1>2, LenProperties
<1>4. S \in SUBSET (1..Len(l)) /\ IsFiniteSet(S) /\ Cardinality(S) \in Nat
  BY ModelPositions
<1>5. CASE car.modelo = modelo
  <2>1. WithModelo(k, modelo) = S \cup {Len(l) + 1}
    <3>1. \A i \in 1..(Len(l) + 1) : i \in 1..Len(l) \/ i = Len(l) + 1
      BY <1>1
    <3>2. 1..Len(l) \subseteq 1..(Len(l) + 1) /\ Len(l) + 1 \in 1..(Len(l) + 1)
      BY <1>1
    <3> HIDE DEF k
    <3> QED
      BY <1>1, <1>2, <1>3, <1>5, <3>1, <3>2 DEF WithModelo
  <2>2. Len(l) + 1 \notin S
    BY <1>1, <1>4
  <2>3. Cardinality(S \cup {Len(l) + 1}) = Cardinality(S) + 1
    <3> HIDE DEF S
    <3> QED
      BY <1>4, <2>2, FS_AddElement
  <2> QED
    BY <1>5, <2>1, <2>3
<1>6. CASE car.modelo # modelo
  <2>1. WithModelo(k, modelo) = S
    <3>1. \A i \in 1..(Len(l) + 1) : i \in 1..Len(l) \/ i = Len(l) + 1
      BY <1>1
    <3>2. 1..Len(l) \subseteq 1..(Len(l) + 1)
      BY <1>1
    <3> HIDE DEF k
    <3> QED
      BY <1>1, <1>2, <1>3, <1>6, <3>1, <3>2 DEF WithModelo
  <2> QED
    BY <1>4, <1>6, <2>1
<1> QED
  BY <1>5, <1>6

\* What unlinking the node number k leaves.
LEMMA WithoutElements ==
    ASSUME NEW l \in Seq(Data), NEW k \in 1..Len(l)
    PROVE  LET m == Without(l, k) IN
           /\ Len(l) \in Nat /\ m \in Seq(Data) /\ Len(m) = Len(l) - 1
           /\ \A i \in 1..(Len(l) - 1) : m[i] = IF i < k THEN l[i] ELSE l[i + 1]
<1> DEFINE n == Len(l)
           a == SubSeq(l, 1, k - 1)
           b == SubSeq(l, k + 1, n)
<1>1. /\ n \in Nat /\ k \in Int /\ 1 <= k /\ k <= n
      /\ \A i \in 1..n : l[i] \in Data
  BY LenProperties, ElementOfSeq
<1>2. /\ a \in Seq(Data) /\ Len(a) = k - 1
      /\ \A i \in 1..(k - 1) : a[i] = l[i]
  <2>1. \A i \in 1..(k - 1) : l[i] \in Data
    BY <1>1
  <2>2. /\ a \in Seq(Data) /\ Len(a) = IF 1 <= k - 1 THEN k - 1 - 1 + 1 ELSE 0
        /\ \A i \in 1..(k - 1 - 1 + 1) : a[i] = l[1 + i - 1]
    <3>1. 1 \in Int /\ k - 1 \in Int
      BY <1>1
    <3> HIDE DEF n
    <3> QED
      BY <2>1, <3>1, SubSeqProperties
  <2>3. \A i \in 1..(k - 1) : i \in 1..(k - 1 - 1 + 1) /\ 1 + i - 1 = i
    BY <1>1
  <2> HIDE DEF a
  <2> QED
    BY <1>1, <2>2, <2>3
<1>3. /\ b \in Seq(Data) /\ Len(b) = n - k
      /\ \A i \in 1..(n - k) : b[i] = l[k + i]
  <2>1. \A i \in (k + 1)..n : l[i] \in Data
    BY <1>1
  <2>2. /\ b \in Seq(Data)
        /\ Len(b) = IF k + 1 <= n THEN n - (k + 1) + 1 ELSE 0
        /\ \A i \in 1..(n - (k + 1) + 1) : b[i] = l[k + 1 + i - 1]
    <3>1. k + 1 \in Int /\ n \in Int
      BY <1>1
    <3> HIDE DEF n
    <3> QED
      BY <2>1, <3>1, SubSeqProperties
  <2>3. \A i \in 1..(n - k) : /\ i \in 1..(n - (k + 1) + 1)
                               /\ k + 1 + i - 1 = k + i
    BY <1>1
  <2> HIDE DEF b, n
  <2> QED
    BY <1>1, <2>2, <2>3
<1> HIDE DEF a, b, n
<1>4. /\ a \o b \in Seq(Data) /\ Len(a \o b) = Len(a) + Len(b)
      /\ \A i \in 1..(Len(a) + Len(b)) :
            (a \o b)[i] = IF i <= Len(a) THEN a[i] ELSE b[i - Len(a)]
  BY <1>2, <1>3, ConcatProperties
<1>5. Len(a) + Len(b) = n - 1
  BY <1>1, <1>2, <1>3
<1>6. ASSUME NEW i \in 1..(n - 1)
      PROVE  (a \o b)[i] = IF i < k THEN l[i] ELSE l[i + 1]
  <2>1. CASE i < k
    <3>1. i <= Len(a) /\ i \in 1..(k - 1)
      BY <1>1, <1>2, <2>1
    <3> QED
      BY <1>2, <1>4, <1>5, <2>1, <3>1
  <2>2. CASE ~(i < k)
    <3>1. ~(i <= Len(a)) /\ i - Len(a) \in 1..(n - k)
      BY <1>1, <1>2, <2>2
    <3>2. k + (i - Len(a)) = i + 1
      BY <1>1, <1>2
    <3> QED
      BY <1>3, <1>4, <1>5, <2>2, <3>1, <3>2
  <2> QED
    BY <2>1, <2>2
<1>7. Without(l, k) = a \o b
  BY DEF Without, a, b, n
<1> QED
  BY <1>1, <1>4, <1>5, <1>6, <1>7 DEF n

\* list_remove_by_model removes one car of the model, if there is one.
LEMMA RemoveModels ==
    ASSUME NEW l \in Seq(Data), NEW removed, WithModelo(l, removed) # {},
           NEW modelo
    PROVE  Cardinality(WithModelo(ListRemoveByModel(l, removed), modelo)) =
             Cardinality(WithModelo(l, modelo)) -
                (IF removed = modelo THEN 1 ELSE 0)
<1> DEFINE k == First(WithModelo(l, removed))
           m == Without(l, k)
           n == Len(l)
           S == WithModelo(m, modelo)
           T == WithModelo(l, modelo) \ {k}
<1>1. n \in Nat /\ DOMAIN l = 1..n
  BY LenProperties
<1>2. k \in WithModelo(l, removed) /\ k \in 1..n
  <2>1. WithModelo(l, removed) \in SUBSET (1..n)
    BY ModelPositions
  <2>2. WithModelo(l, removed) \in SUBSET Nat
    BY <1>1, <2>1
  <2> QED
    BY <2>1, <2>2, FirstIsLeast
<1>3. l[k].modelo = removed
  BY <1>2 DEF WithModelo
<1>4. ListRemoveByModel(l, removed) = m
  BY DEF ListRemoveByModel
<1> HIDE DEF k
<1>5. /\ m \in Seq(Data) /\ Len(m) = n - 1
      /\ \A i \in 1..(n - 1) : m[i] = IF i < k THEN l[i] ELSE l[i + 1]
  BY <1>2, WithoutElements
<1> HIDE DEF m
<1>6. DOMAIN m = 1..(n - 1)
  BY <1>5, LenProperties
<1>7. Cardinality(S) = Cardinality(T)
  <2> DEFINE f == [i \in S |-> IF i < k THEN i ELSE i + 1]
  <2>1. IsFiniteSet(S)
    BY <1>5, ModelPositions
  <2>2. \A i \in S : i \in 1..(n - 1) /\ m[i].modelo = modelo
    BY <1>6 DEF WithModelo
  <2>3. \A i \in 1..(n - 1) : m[i].modelo = modelo => i \in S
    BY <1>6 DEF WithModelo
  <2>4. \A i \in T : i \in 1..n /\ i # k /\ l[i].modelo = modelo
    BY <1>1 DEF WithModelo
  <2>5. \A i \in 1..n : i # k /\ l[i].modelo = modelo => i \in T
    BY <1>1 DEF WithModelo
  <2> HIDE DEF S, T, n
  <2>6. ASSUME NEW i \in S PROVE f[i] \in T
    <3>1. CASE i < k
      <4>1. i \in 1..n /\ i # k
        BY <1>1, <1>2, <2>2, <3>1
      <4> QED
        BY <1>5, <2>2, <2>5, <3>1, <4>1
    <3>2. CASE ~(i < k)
      <4>1. i + 1 \in 1..n /\ i + 1 # k
        BY <1>1, <1>2, <2>2, <3>2
      <4> QED
        BY <1>5, <2>2, <2>5, <3>2, <4>1
    <3> QED
      BY <3>1, <3>2
  <2>7. ASSUME NEW i \in S, NEW j \in S, f[i] = f[j] PROVE i = j
    <3>1. i \in Int /\ j \in Int /\ k \in Int
      BY <1>1, <1>2, <2>2
    <3> QED
      BY <2>7, <3>1
  <2>8. ASSUME NEW j \in T PROVE \E i \in S : f[i] = j
    <3>0. j \in 1..n /\ j # k /\ l[j].modelo = modelo /\ j \in Int /\ k \in Int
      BY <1>1, <1>2, <2>4
    <3>1. CASE j < k
      <4>1. j \in 1..(n - 1)
        BY <1>1, <1>2, <3>0, <3>1
      <4>2. j \in S
        BY <1>5, <2>3, <3>0, <3>1, <4>1
      <4> QED
        BY <3>1, <4>2
    <3>2. CASE ~(j < k)
      <4>1. PICK i \in Int : i = j - 1
        BY <3>0
      <4>2. i \in 1..(n - 1) /\ i + 1 = j /\ ~(i < k)
        BY <1>1, <1>2, <3>0, <3>2, <4>1
      <4>3. i \in S
        BY <1>5, <2>3, <3>0, <4>2
      <4> QED
        BY <4>2, <4>3
    <3> QED
      BY <3>1, <3>2
  <2>9. f \in [S -> T]
    BY <2>6
  <2> HIDE DEF f
  <2> QED
    BY <2>1, <2>7, <2>8, <2>9, SameCount
<1>8. IsFiniteSet(WithModelo(l, modelo))
  BY ModelPositions
<1>9. k \in WithModelo(l, modelo) <=> removed = modelo
  BY <1>1, <1>2, <1>3 DEF WithModelo
<1>10. Cardinality(T) = IF k \in WithModelo(l, modelo)
                        THEN Cardinality(WithModelo(l, modelo)) - 1
                        ELSE Cardinality(WithModelo(l, modelo))
  BY <1>8, FS_RemoveElement
<1>11. Cardinality(WithModelo(l, modelo)) \in Nat
  BY ModelPositions
<1> HIDE DEF S, T
<1> QED
  BY <1>4, <1>7, <1>9, <1>10, <1>11 DEF S

\* list_order_by_year adds and removes no car.
LEMMA OrderModels ==
    ASSUME NEW l \in Seq(Data), NEW modelo
    PROVE  Cardinality(WithModelo(ListOrderByYear(l), modelo)) =
             Cardinality(WithModelo(l, modelo))
<1> DEFINE n == Len(l)
           rank == YearRank(l)
           m == ListOrderByYear(l)
           S == WithModelo(l, modelo)
           T == WithModelo(m, modelo)
           f == [i \in S |-> rank[i]]
<1>1. n \in Nat /\ DOMAIN l = 1..n
  BY LenProperties
<1>2. /\ rank \in [1..n -> 1..n]
      /\ \A i, k \in 1..n : rank[i] = rank[k] => i = k
      /\ \A k \in 1..n : \E i \in 1..n : rank[i] = k
  BY YearRankNumbers
<1>3. Cardinality(1..n) = n
  <2>1. Cardinality(1..n) = IF 1 > n THEN 0 ELSE n - 1 + 1
    BY <1>1, FS_Interval
  <2> QED
    BY <1>1, <2>1
<1>4. DOMAIN rank = 1..n
  BY <1>2
<1> HIDE DEF n, rank
<1>5. m = [k \in 1..n |-> l[CHOOSE i \in 1..n : rank[i] = k]]
  BY <1>3, <1>4 DEF ListOrderByYear, ByRank, rank
<1> HIDE DEF m
<1>6. ASSUME NEW i \in 1..n
      PROVE  rank[i] \in 1..n /\ m[rank[i]] = l[i]
  <2>1. rank[i] \in 1..n
    BY <1>2
  <2>2. (CHOOSE j \in 1..n : rank[j] = rank[i]) = i
    BY <1>2
  <2> QED
    BY <1>5, <2>1, <2>2
<1>7. DOMAIN m = 1..n
  BY <1>5
<1>8. S = {i \in 1..n : l[i].modelo = modelo}
  BY <1>1 DEF WithModelo
<1>9. T = {i \in 1..n : m[i].modelo = modelo}
  BY <1>7 DEF WithModelo
<1>10. IsFiniteSet(S)
  BY ModelPositions
<1> HIDE DEF S, T
<1>11. ASSUME NEW i \in S PROVE f[i] \in T
  BY <1>6, <1>8, <1>9
<1>12. \A i, k \in S : f[i] = f[k] => i = k
  BY <1>2, <1>8
<1>13. ASSUME NEW k \in T PROVE \E i \in S : f[i] = k
  <2>1. PICK i \in 1..n : rank[i] = k
    BY <1>2, <1>9
  <2> QED
    BY <1>6, <1>8, <1>9, <2>1
<1>14. f \in [S -> T]
  BY <1>11
<1> HIDE DEF f
<1>15. Cardinality(S) = Cardinality(T)
  BY <1>10, <1>12, <1>13, <1>14, SameCount
<1> QED
  BY <1>15 DEF S, T, m

-----------------------------------------------------------------------------
(* The handlers of list_skel.c. *)

\* A handler leaves a list of cars.
LEMMA HandleListType ==
    ASSUME NEW l \in Seq(Data), NEW req \in Request
    PROVE  HandleList(l, req) \in Seq(Data)
<1>1. req.data \in Data /\ req.data.modelo \in Modelo
  BY DEF Request, Data
<1>2. /\ ListAdd(l, req.data) \in Seq(Data)
      /\ ListRemoveByModel(l, req.data.modelo) \in Seq(Data)
      /\ ListOrderByYear(l) \in Seq(Data)
  BY <1>1, ListAddType, ListRemoveType, ListOrderType
<1> QED
  BY <1>2 DEF HandleList

\* The two plain replies are replies.
LEMMA PlainReplies == Ok \in Reply /\ Error \in Reply
<1>1. <<>> \in Seq(Data)
  BY EmptySeq
<1>2. <<>> \in Seq(Modelo)
  BY EmptySeq
<1> DEFINE cars == Seq(Data)
           models == Seq(Modelo)
           empty == <<>>
<1>3. /\ Reply = [opcode : {"OK", "ERROR"}, cars : cars, models : models,
                  result : Int]
      /\ Ok = [opcode |-> "OK", cars |-> empty, models |-> empty, result |-> 0]
  BY DEF Reply, Ok
<1>4. empty \in cars /\ empty \in models
  BY <1>1, <1>2
<1> HIDE DEF cars, models, empty
<1>5. Ok \in Reply
  BY <1>3, <1>4
<1>6. Error \in Reply
  BY <1>3, <1>5 DEF Error
<1> QED
  BY <1>5, <1>6

\* A handler answers with a reply.
LEMMA HandleReplyType ==
    ASSUME NEW l \in Seq(Data), NEW req \in Request
    PROVE  HandleReply(l, req) \in Reply
<1>1. /\ req.opcode \in Opcode
      /\ req.data \in Data
      /\ req.data.ano \in Ano
  BY DEF Request, Data
<1>2. /\ Len(l) \in Nat /\ DOMAIN l = 1..Len(l)
      /\ \A i \in 1..Len(l) : l[i] \in Data
  BY LenProperties, ElementOfSeq
<1>3. ASSUME WithMarca(l, req.data.marca) # {}
      PROVE  ListGetByMarca(l, req.data.marca) \in Seq(Data)
  <2> DEFINE S == WithMarca(l, req.data.marca)
  <2>1. S \in SUBSET (1..Len(l)) /\ S \in SUBSET Nat
    BY <1>2 DEF WithMarca
  <2>2. First(S) \in S
    BY <1>3, <2>1, FirstIsLeast
  <2>3. l[First(S)] \in Data
    BY <1>2, <2>1, <2>2
  <2> QED
    BY <1>3, <2>3 DEF ListGetByMarca
<1>4. ListGetByYear(l, req.data.ano) \in Seq(Data)
  BY <1>1, ListGetByYearType
<1>5. ListGetModelList(l) \in Seq(Modelo)
  <2>1. ListGetModelList(l) \in [1..Len(l) -> Modelo]
    BY <1>2 DEF ListGetModelList, Data
  <2> QED
    BY <1>2, <2>1, SeqDef
<1>6. ListGetAll(ListOrderByYear(l)) \in Seq(Data)
  BY ListOrderType DEF ListGetAll
<1>7. ListSize(l) \in Int
  BY <1>2 DEF ListSize
<1>8. /\ \A s \in Seq(Data) : [Ok EXCEPT !.cars = s] \in Reply
      /\ \A s \in Seq(Modelo) : [Ok EXCEPT !.models = s] \in Reply
      /\ \A n \in Int : [Ok EXCEPT !.result = n] \in Reply
  BY PlainReplies DEF Reply
<1> QED
  BY <1>1, <1>3, <1>4, <1>5, <1>6, <1>7, <1>8, PlainReplies
     DEF HandleReply, Opcode

=============================================================================
