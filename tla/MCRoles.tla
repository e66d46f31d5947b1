------------------------------ MODULE MCRoles ------------------------------
(***************************************************************************)
(* Two people and a wildcard that covers the other permission.  The actor  *)
(* can read; the wildcard is in an inactive role somebody holds and, in    *)
(* one of the two starts, in an active one that nobody does.               *)
(***************************************************************************)
EXTENDS Roles, TLC

CONSTANTS u1, u2, r1, r2, r3, c1, c2

MCGrantors == [p \in {"read", "all"} |-> IF p = "read" THEN {"read", "all"} ELSE {"all"}]

Doc(status, permissions) ==
    [status |-> status, permissions |-> permissions, version |-> 0]

MCFirstRoles ==
    {[r \in {r1, r2, r3} |->
        CASE r = r1 -> Doc("activo", {"read"})
          [] r = r2 -> Doc("inactivo", {"all"})
          [] r = r3 -> third] : third \in {Doc("activo", {"all"}), Doc("free", {})}}

MCFirstHolds == {[u \in {u1, u2} |-> IF u = u1 THEN {r1} ELSE {r2}]}

MCPermissionLists == {{}, {"read", "all"}}

MCRoleLists == {{r2, r3}}

NobodyNamed == [u \in {} |-> r1]

MCReassignments == {[named |-> NobodyNamed, fallback |-> r1],
                    [named |-> [u \in {u2} |-> r3], fallback |-> NoRole]}

InterchangeableCalls == Permutations(Calls)
=============================================================================
