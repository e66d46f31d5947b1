------------------------------ MODULE MCUnits ------------------------------
(***************************************************************************)
(* The small troops the runs of Units check: protagonists of two branches, *)
(* an adult who leads the first branch or is chief of the group, and one   *)
(* whose title names no branch and who has to declare it.                  *)
(***************************************************************************)
EXTENDS Units, TLC

CONSTANTS p1, p2, p3, a1, a2, g1, g2

Nothing == [tipo |-> "adulto", label |-> NoBranch, aged |-> NoBranch,
            leads |-> NoBranch, chief |-> FALSE]

Labelled(b)  == [Nothing EXCEPT !.tipo = "protagonista", !.label = b]
Aged(b)      == [Nothing EXCEPT !.tipo = "protagonista", !.aged = b]
LeaderOf(b)  == [Nothing EXCEPT !.leads = b]
Chief        == [Nothing EXCEPT !.chief = TRUE]

Home == [x \in Persons |-> g1]

\* Where people are seated: p3 is of the second branch, by age.
SeatingFirst == [x \in Persons |-> CASE x \in {p1, p2} -> Labelled(0)
                                     [] x = p3 -> Aged(1)
                                     [] x = a1 -> LeaderOf(0)]

SeatingReports == {Labelled(0), Aged(1), LeaderOf(0)}

\* Who leads: whoever has no title may be made a chief, or a protagonist.
LeadersFirst == [x \in Persons |-> CASE x = p1 -> Labelled(0)
                                     [] x = a1 -> Chief
                                     [] x = a2 -> Nothing]

LeaderReports == {Labelled(0), Chief, Nothing}

\* A protagonist among the assistants is a mistake the service refuses.
MCLeaderLists == {{}, {a2}, {a1, p1}}

NoLeaders == {{}}

NoTitles == {<<>>}

MCTitleLists == {<<>>, <<0>>}

\* The name the seeding gives the second branch: a user may type it too.
MCTypedNames == {<<1, 1>>}

FirstPlaceholder == {<<0, 1>>}
=============================================================================
