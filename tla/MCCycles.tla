------------------------------ MODULE MCCycles ------------------------------
(***************************************************************************)
(* One cycle of a unit of manada.  Its branch has two questions and one    *)
(* item; a second item id is free, and an item may be moved to the other   *)
(* branch, whose areas are others.                                         *)
(***************************************************************************)
EXTENDS Cycles, TLC

CONSTANTS q1, q2, i1, i2, k1, c1, c2

MCAreasOf == [b \in Branches |->
    IF b = "manada" THEN {"afectividad"} ELSE {"socioafectividad"}]

MCBranchOf == [k \in Cycles |-> "manada"]

Item(area, active) == [branch |-> "manada", area |-> area, order |-> 1,
                       text |-> "old", active |-> active]

MCFirstQuestions ==
    {[q \in Questions |-> [branch |-> "manada", text |-> "old", active |-> TRUE]]}

MCFirstItems ==
    {[i \in Items |-> IF i = i1 THEN Item("afectividad", TRUE) ELSE NoDoc]}

MCQuestionDocs == {[branch |-> "manada", text |-> "new", active |-> TRUE]}

MCItemDocs == {[Item("afectividad", TRUE) EXCEPT !.order = 2, !.text = "new"]}

MCSeedDocs == {Item("afectividad", TRUE)}

MCAnswerLists == {<<q1>>, <<q1, q2>>}

MCItemLists == {<<i1>>, <<i1, i2>>}

Interchangeable == Permutations(Calls) \cup Permutations(Editors)
=============================================================================
