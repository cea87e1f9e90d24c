----------------------------- MODULE BubbleSort -----------------------------
(***************************************************************************)
(* list_order_by_year of source/list.c, loop by loop: p walks the list and *)
(* swaps the data of neighbours that are out of order; a pass that swapped *)
(* is followed by another one.                                             *)
(*                                                                         *)
(* One step is one turn of the inner loop, or the end of a pass.           *)
(***************************************************************************)
EXTENDS CarList

CONSTANT MaxLen         \* bound: the longest list the runs sort
ASSUME MaxLenAssumption == MaxLen \in Nat

VARIABLES
    input,      \* the list the function was called with
    l,          \* the list, sorted in place
    p,          \* the node of the inner loop
    swapped,    \* the flag of the outer loop
    returned    \* the function has returned 0

vars == <<input, l, p, swapped, returned>>

Init ==
    /\ input \in UNION {[1..n -> Data] : n \in 0..MaxLen}
    /\ l = input
    /\ p = 1
    /\ swapped = FALSE
    /\ returned = FALSE

\* Line 151: nothing to do for fewer than two cars.
ReturnEarly ==
    /\ ~returned
    /\ Len(l) <= 1
    /\ returned' = TRUE
    /\ UNCHANGED <<input, l, p, swapped>>

\* Mutant: the order of a list kept by descending year.
OutOfOrderDescending(i) == l[i].ano < l[i + 1].ano

\* Mutant: cars of one year are swapped too.
OutOfOrderOrEqual(i) == l[i].ano >= l[i + 1].ano

OutOfOrder(i) == l[i].ano > l[i + 1].ano

\* Mutant: the loop runs while p, not while p->next.
CompareAndSwapPastEnd ==
    /\ ~returned
    /\ p <= Len(l)
    /\ IF p < Len(l) /\ OutOfOrder(p)
       THEN /\ l' = [l EXCEPT ![p] = l[p + 1], ![p + 1] = l[p]]
            /\ swapped' = TRUE
       ELSE UNCHANGED <<l, swapped>>
    /\ p' = p + 1
    /\ UNCHANGED <<input, returned>>

CompareAndSwap ==
    /\ ~returned
    /\ p < Len(l)
    /\ IF OutOfOrder(p)
       THEN /\ l' = [l EXCEPT ![p] = l[p + 1], ![p + 1] = l[p]]
            /\ swapped' = TRUE
       ELSE UNCHANGED <<l, swapped>>
    /\ p' = p + 1
    /\ UNCHANGED <<input, returned>>

EndOfPass ==
    /\ ~returned
    /\ Len(l) > 1
    /\ p = Len(l)
    /\ IF swapped
       THEN p' = 1 /\ swapped' = FALSE /\ UNCHANGED returned
       ELSE returned' = TRUE /\ UNCHANGED <<p, swapped>>
    /\ UNCHANGED <<input, l>>

Next == ReturnEarly \/ CompareAndSwap \/ EndOfPass

Spec == Init /\ [][Next]_vars /\ WF_vars(Next)

-----------------------------------------------------------------------------

\* The loop of list_order_by_year stays within the list: p is a node of it.
TypeOK ==
    /\ input \in Seq(Data)
    /\ l \in [DOMAIN input -> Data]
    /\ p \in DOMAIN l \/ (p = 1 /\ l = <<>>)
    /\ swapped \in BOOLEAN
    /\ returned \in BOOLEAN

\* When list_order_by_year returns, the list is the stable ordering by year
\* of the list it was given: the operator the chain modules use for it.
SortsStably == returned => l = ListOrderByYear(input)

\* The outer loop stops: every call of list_order_by_year returns.
SortTerminates == <>returned

=============================================================================
