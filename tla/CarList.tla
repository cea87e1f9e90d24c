------------------------------ MODULE CarList ------------------------------
(***************************************************************************)
(* The list of cars of source/list.c, the data every server of the chain   *)
(* replicates, as operators on sequences, and the part of `invoke` in      *)
(* source/list_skel.c that runs under list_mutex: the handlers.            *)
(*                                                                         *)
(* A car keeps the three attributes the operations look at; price and fuel *)
(* are carried along by the program and never inspected.  The "not enough  *)
(* memory" exits of list.c and list_skel.c are left out.                   *)
(*                                                                         *)
(* No operator is RECURSIVE, so modules that use this one can hold proofs. *)
(***************************************************************************)
EXTENDS Integers, Sequences, FiniteSets

CONSTANTS
    Modelo,     \* car models: what remove_by_model compares
    Ano,        \* years: what get_by_year and the sort compare
    Marca       \* brands: what get_by_marca compares

ASSUME CarListAssumption ==
    /\ Modelo # {} /\ Marca # {} /\ Ano # {}
    /\ Ano \subseteq Int

Data == [modelo : Modelo, ano : Ano, marca : Marca]

(***************************************************************************)
(* list.c                                                                  *)
(***************************************************************************)

\* The cars of l whose positions have the ranks 1, 2, ..., in that order.
ByRank(l, rank) ==
    [k \in 1..Cardinality(DOMAIN rank) |->
        l[CHOOSE i \in DOMAIN rank : rank[i] = k]]

First(S) == CHOOSE i \in S : \A j \in S : i <= j

ListAdd(l, car) == Append(l, car)

WithModelo(l, modelo) == {i \in DOMAIN l : l[i].modelo = modelo}

Without(l, k) == SubSeq(l, 1, k - 1) \o SubSeq(l, k + 1, Len(l))

\* The list after list_remove_by_model: the first match is unlinked, a list
\* without a match is left alone (and the function returns 1).
ListRemoveByModel(l, modelo) ==
    IF WithModelo(l, modelo) = {} THEN l
    ELSE Without(l, First(WithModelo(l, modelo)))

WithMarca(l, marca) == {i \in DOMAIN l : l[i].marca = marca}

\* list_get_by_marca: the first match, here in a sequence that is empty when
\* the function returns NULL.
ListGetByMarca(l, marca) ==
    IF WithMarca(l, marca) = {} THEN <<>>
    ELSE <<l[First(WithMarca(l, marca))]>>

WithAno(l, ano) == {i \in DOMAIN l : l[i].ano = ano}

ListGetByYear(l, ano) ==
    ByRank(l, [i \in WithAno(l, ano) |->
                 Cardinality({j \in WithAno(l, ano) : j <= i})])

\* Position i of l comes no later than position k once l is ordered: the
\* bubble sort swaps neighbours only when the left year is strictly greater,
\* so cars of one year keep their order.
NoLater(l, i, k) == l[i].ano < l[k].ano \/ (l[i].ano = l[k].ano /\ i <= k)

YearRank(l) ==
    [i \in DOMAIN l |-> Cardinality({j \in DOMAIN l : NoLater(l, j, i)})]

\* The list after list_order_by_year.  Module BubbleSort has the loop itself.
ListOrderByYear(l) == ByRank(l, YearRank(l))

ListSize(l) == Len(l)

ListGetModelList(l) == [i \in DOMAIN l |-> l[i].modelo]

ListGetAll(l) == l

(***************************************************************************)
(* Messages.  A request is the MessageT a client stub builds; fields an    *)
(* operation does not use are unset there and arbitrary here.  In a reply, *)
(* "OK" stands for the request's opcode plus one.                          *)
(***************************************************************************)
Opcode == {"ADD", "DEL", "GET_MARCA", "GET_YEAR", "GETMODELS",
           "GETLISTBYYEAR", "SIZE"}

Request == [opcode : Opcode, data : Data]

Reply == [opcode : {"OK", "ERROR"}, cars : Seq(Data),
          models : Seq(Modelo), result : Int]

Ok == [opcode |-> "OK", cars |-> <<>>, models |-> <<>>, result |-> 0]

Error == [Ok EXCEPT !.opcode = "ERROR"]

\* Mutant: a remove is not forwarded.
IsAdd(req) == req.opcode = "ADD"

IsWriteOp(req) == req.opcode \in {"ADD", "DEL"}

(***************************************************************************)
(* list_skel.c: the list and the reply that the handler of req leaves.     *)
(***************************************************************************)
HandleList(l, req) ==
    CASE req.opcode = "ADD" -> ListAdd(l, req.data)
      [] req.opcode = "DEL" -> ListRemoveByModel(l, req.data.modelo)
      [] req.opcode = "GETLISTBYYEAR" -> ListOrderByYear(l)
      [] OTHER -> l

HandleReply(l, req) ==
    CASE req.opcode = "ADD" -> Ok
      [] req.opcode = "DEL" ->
            IF WithModelo(l, req.data.modelo) = {} THEN Error ELSE Ok
      [] req.opcode = "GET_MARCA" ->
            IF WithMarca(l, req.data.marca) = {} THEN Error
            ELSE [Ok EXCEPT !.cars = ListGetByMarca(l, req.data.marca)]
      [] req.opcode = "GET_YEAR" ->
            [Ok EXCEPT !.cars = ListGetByYear(l, req.data.ano)]
      [] req.opcode = "GETMODELS" ->
            [Ok EXCEPT !.models = ListGetModelList(l)]
      [] req.opcode = "GETLISTBYYEAR" ->
            [Ok EXCEPT !.cars = ListGetAll(ListOrderByYear(l))]
      [] req.opcode = "SIZE" -> [Ok EXCEPT !.result = ListSize(l)]

=============================================================================
