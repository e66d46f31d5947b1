----------------------------- MODULE MCProfiles -----------------------------
(***************************************************************************)
(* One person who holds the first of two roles and has no branch yet: what *)
(* happens to one entry depends on no other.                               *)
(***************************************************************************)
EXTENDS Profiles, TLC

CONSTANTS u1, r1, r2, c1, c2

MCFirstPeople == {[u \in Users |-> [siscout |-> NoBranch, declared |-> {}, held |-> {r1},
                                  version |-> 0]]}

\* Roles or titles alone, and both at once; two titles at once among them.
MCPanelPatches == {[held |-> {}, declared |-> NoOne], [held |-> {r2}, declared |-> NoOne],
              [held |-> NoOne, declared |-> {}],
              [held |-> NoOne, declared |-> {"manada", "tropa"}],
              [held |-> {r1, r2}, declared |-> {"manada"}]}

MCFirstRoles == {[r \in RoleIds |-> "reads"]}
=============================================================================
