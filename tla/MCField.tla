------------------------------ MODULE MCField ------------------------------
(***************************************************************************)
(* The deputy of one unit, whose rows may be missing to begin with, and    *)
(* one id, which has a row already: what happens to one row depends on no  *)
(* other.                                                                  *)
(***************************************************************************)
EXTENDS Field, TLC

CONSTANTS a, p, q, i, t1, t2

MCFirstDocs == {a :> [lead |-> q, leaders |-> {p}, members |-> {}, version |-> 0]}

At(presente) == [unit |-> a, presente |-> presente]

MCFirstAttendance == i :> At(TRUE)

MCRecordable ==
    {[op |-> "PUT", id |-> i, data |-> At(FALSE)],
     [op |-> "DELETE", id |-> i]}

MCAccounts == {[approved |-> TRUE, superAdmin |-> FALSE]}
=============================================================================
