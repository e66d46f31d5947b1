------------------------------- MODULE Roster -------------------------------
(***************************************************************************)
(* What the units module promises about a person: he is seated once, in a  *)
(* group and branch that are his to be seated in, and from then on there   *)
(* is always a unit of that group and branch, and of no other, that lists  *)
(* him.  Which unit it is, who leads it and how it is called is not        *)
(* visible here.                                                           *)
(***************************************************************************)
CONSTANTS
    Persons,
    Seatings   \* the (group, branch) pairs a person may be seated in

VARIABLE places   \* the (group, branch) pairs of the units that list a person

Init == places = [p \in Persons |-> {}]

\* Some people without a place get one each; nobody else is disturbed.
Seat(S) ==
    /\ \A p \in S : places[p] = {} /\ \E place \in Seatings[p] : places'[p] = {place}
    /\ places' = [p \in Persons |-> IF p \in S THEN places'[p] ELSE places[p]]

Next == \E S \in SUBSET Persons : Seat(S)

Spec == Init /\ [][Next]_places
=============================================================================
