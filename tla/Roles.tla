------------------------------- MODULE Roles -------------------------------
(***************************************************************************)
(* RolesService (src/src/roles) and the roles half of UsersService.update: *)
(* who holds which role, what each role grants, and the rule that nobody   *)
(* hands out what he does not have (EscalationService, src/src/authz).     *)
(*                                                                         *)
(* A call is the sequence of its database reads and writes.  Every check   *)
(* is made on what an earlier read returned, and other calls run between   *)
(* the two; only the reassignment of a role runs in a transaction.  A      *)
(* document saved by Mongoose carries its __v in the query when a whole    *)
(* array is set, and does not when only a scalar is.                       *)
(***************************************************************************)
EXTENDS Naturals

CONSTANTS
    Users,           \* the people of the collection users
    Actors,          \* whom PermissionsGuard lets through to these operations
    SuperAdmins,     \* those of nivelAcceso super_admin
    RoleIds,         \* the ids a role has, had or may get
    SystemRoles,     \* the roles with esSistema
    Permissions,     \* wildcards are permissions too
    Grantors,        \* for a permission, the ones that grant it: granting
    Powers,          \* permissions nobody exceeds at the start
    NoRole,          \* no defaultTargetRoleId
    FirstRoles,      \* the collections of roles a behaviour may start from
    FirstHolds,      \* and who holds them
    PermissionLists, \* lists of permissions sent for a role
    RoleLists,       \* lists of roles sent for a person
    Reassignments,   \* the bodies of POST /roles/:id/reassign
    Calls,           \* calls that may be under way at the same time
    MaxVersion       \* bound: how often a document's arrays may be set

Statuses == {"activo", "inactivo"}   \* a document that exists has one of them

RoleDoc == [status : Statuses \cup {"free", "gone"},
            permissions : SUBSET Permissions, version : Nat]

\* reassignments, one target per person named, and defaultTargetRoleId
Reassignment == [named : UNION {[S -> RoleIds] : S \in SUBSET Users},
                 fallback : RoleIds \cup {NoRole}]

EffectiveIn(roles, held) ==
    UNION {roles[r].permissions : r \in {s \in held : roles[s].status = "activo"}}

ASSUME PeopleAssumption ==
    /\ Actors \subseteq Users
    /\ SuperAdmins \subseteq Users
    /\ SystemRoles \subseteq RoleIds
    /\ NoRole \notin RoleIds
ASSUME GrantorsAssumption ==
    /\ Grantors \in [Permissions -> SUBSET Permissions]
    /\ Powers \subseteq Permissions
    /\ \A p \in Permissions : Grantors[p] \cap Powers # {} => p \in Powers
ASSUME StartAssumption ==
    /\ FirstRoles \subseteq [RoleIds -> RoleDoc]
    /\ FirstHolds \subseteq [Users -> SUBSET RoleIds]
    /\ \A roles \in FirstRoles, held \in FirstHolds, u \in Users :
          EffectiveIn(roles, held[u]) \subseteq Powers
    /\ \A roles \in FirstRoles, r \in RoleIds :
          roles[r].status \in {"free", "gone"} => roles[r].permissions = {}
ASSUME InputsAssumption ==
    /\ PermissionLists \subseteq SUBSET Permissions
    /\ RoleLists \subseteq SUBSET RoleIds
    /\ Reassignments \subseteq Reassignment
    /\ MaxVersion \in Nat

VARIABLES
    role,         \* the roles collection, with the ids not yet or no longer in it
    holds,        \* users.roles
    userVersion,  \* users.__v
    request,      \* per call: its operation and arguments
    at,           \* per call: the step it takes next
    seen,         \* per call: the __v of the document it loaded
    grant,        \* per call: the permissions it would hand out
    own,          \* per call: the roles its actor was read to hold
    snapshot      \* per call: users.roles as its transaction sees them

inputs == <<request, seen>>
vars   == <<role, holds, userVersion, inputs, at, grant, own, snapshot>>

EditRequest     == [op : {"edit"}, actor : Actors, role : RoleIds,
                    permissions : SUBSET Permissions, status : Statuses,
                    changes : SUBSET {"permissions", "status"}]
CreateRequest   == [op : {"create"}, actor : Actors,
                    permissions : SUBSET Permissions, status : Statuses]
AssignRequest   == [op : {"assign"}, actor : Actors, user : Users,
                    kept : SUBSET RoleIds, added : SUBSET RoleIds]
ReassignRequest == [op : {"reassign"}, actor : Actors, role : RoleIds,
                    body : Reassignment]
RemoveRequest   == [op : {"remove"}, role : RoleIds]
NoRequest       == [op |-> "none"]
Requests        == EditRequest \cup CreateRequest \cup AssignRequest
                     \cup ReassignRequest \cup RemoveRequest \cup {NoRequest}

----------------------------------------------------------------------------
Lives(r) == role[r].status \in Statuses

\* effectivePermissions, for the roles the actor was read to hold: an
\* inactive role grants nothing.
EffectiveOf(held) == EffectiveIn(role, held)

Granting(owned, p) == owned \cap Grantors[p] # {}

\* grantsOfRoles: inactive roles count, missing ones have nothing to grant.
GrantsOfRoles(ids) == UNION {role[r].permissions : r \in ids}

\* What an edit hands out: what it adds, or everything when it reactivates.
GrantedByUpdate(doc, permissions, status) ==
    IF status = "activo" /\ doc.status # "activo" THEN permissions
                                                 ELSE permissions \ doc.permissions

\* The roles a reassignment names as destinations.
Targets(body) == {body.named[u] : u \in DOMAIN body.named}
                   \cup ({body.fallback} \ {NoRole})

\* Where assertCanGrant takes a call: nothing to grant, nothing to check.
Checked(g) == IF g = {} THEN "save" ELSE "actor"

Enter(c, req, step, v, g) ==
    /\ at[c] = "idle"
    /\ request' = [request EXCEPT ![c] = req]
    /\ at' = [at EXCEPT ![c] = step]
    /\ seen' = [seen EXCEPT ![c] = v]
    /\ grant' = [grant EXCEPT ![c] = g]
    /\ UNCHANGED <<role, holds, userVersion, own, snapshot>>

\* The call is answered, with or without an error.
Leave(c) ==
    /\ request' = [request EXCEPT ![c] = NoRequest]
    /\ at' = [at EXCEPT ![c] = "idle"]
    /\ seen' = [seen EXCEPT ![c] = 0]
    /\ grant' = [grant EXCEPT ![c] = {}]
    /\ own' = [own EXCEPT ![c] = {}]
    /\ snapshot' = [snapshot EXCEPT ![c] = [u \in Users |-> {}]]

----------------------------------------------------------------------------
(* The first read of each operation.                                       *)

\* update: the role is loaded and what the patch grants worked out.  A field
\* the patch does not carry has its loaded value; one that keeps its value is
\* not saved, and a patch that changes nothing has no effect.
BeginEdit(c, a, r, permissions, status) ==
    LET doc     == role[r]
        changes == {f \in {"permissions", "status"} :
                      \/ f = "permissions" /\ permissions # doc.permissions
                      \/ f = "status" /\ status # doc.status}
        granted == GrantedByUpdate(doc, permissions, status)
    IN  /\ Lives(r)
        /\ changes # {}
        /\ r \in SystemRoles => changes = {"status"} /\ status = "activo"
        /\ "permissions" \in changes => doc.version < MaxVersion
        /\ Enter(c, [op |-> "edit", actor |-> a, role |-> r, permissions |-> permissions,
                     status |-> status, changes |-> changes],
                 Checked(granted), doc.version, granted)

\* create, up to the check; it counts a role that starts inactive too.
BeginCreate(c, a, permissions, status) ==
    Enter(c, [op |-> "create", actor |-> a, permissions |-> permissions, status |-> status],
          Checked(permissions), 0, permissions)

\* UsersService.update with roles: nobody edits his own, nor a super_admin's.
\* The ids are not looked up: one of them may be of a role that is gone.
BeginAssign(c, a, u, list) ==
    LET added == list \ holds[u]
    IN  /\ a # u
        /\ u \notin SuperAdmins
        /\ list # holds[u]
        /\ \A r \in list : role[r].status # "free"
        /\ userVersion[u] < MaxVersion
        /\ Enter(c, [op |-> "assign", actor |-> a, user |-> u,
                     kept |-> list \ added, added |-> added],
                 IF added = {} THEN "save" ELSE "grants", userVersion[u], {})

\* reassignAndRemove up to the lookup of its targets.
BeginReassign(c, a, r, body) ==
    /\ Lives(r)
    /\ r \notin SystemRoles
    /\ r \notin Targets(body)
    /\ \A t \in Targets(body) : Lives(t)
    /\ Enter(c, [op |-> "reassign", actor |-> a, role |-> r, body |-> body],
             IF Targets(body) = {} THEN "save" ELSE "grants", 0, {})

\* remove up to the count of holders.
BeginRemove(c, r) ==
    /\ Lives(r)
    /\ r \notin SystemRoles
    /\ \A u \in Users : r \notin holds[u]
    /\ Enter(c, [op |-> "remove", role |-> r], "save", 0, {})

----------------------------------------------------------------------------
(* The checks of EscalationService.                                        *)

\* The roles a call hands to somebody.
Given(req) == CASE req.op = "assign"   -> req.added
                [] req.op = "reassign" -> Targets(req.body)
                [] OTHER               -> {}

ReadGrants(c) ==
    LET granted == GrantsOfRoles(Given(request[c]))
    IN  /\ at[c] = "grants"
        /\ grant' = [grant EXCEPT ![c] = granted]
        /\ at' = [at EXCEPT ![c] = Checked(granted)]
        /\ UNCHANGED <<role, holds, userVersion, inputs, own, snapshot>>

\* findById(actor), which populate follows with a query of its own.
ReadActor(c) ==
    /\ at[c] = "actor"
    /\ own' = [own EXCEPT ![c] = holds[request[c].actor]]
    /\ at' = [at EXCEPT ![c] = "decide"]
    /\ UNCHANGED <<role, holds, userVersion, inputs, grant, snapshot>>

Ungrantable(c) == {p \in grant[c] : ~Granting(EffectiveOf(own[c]), p)}

Decide(c) ==
    /\ at[c] = "decide"
    /\ IF Ungrantable(c) = {}
         THEN /\ at' = [at EXCEPT ![c] = "save"]
              /\ UNCHANGED <<inputs, grant, own, snapshot>>
         ELSE Leave(c)
    /\ UNCHANGED <<role, holds, userVersion>>

----------------------------------------------------------------------------
(* The writes.                                                             *)

\* The collection once r is deleted.
WithoutRole(r) ==
    [role EXCEPT ![r] = [@ EXCEPT !.status = "gone", !.permissions = {}]]

\* Faulty variant of Overtaken: the save does not look at __v.
OvertakenUnnoticed(version, v) == FALSE

\* VersionError: the document's arrays were set since it was loaded.
Overtaken(version, v) == version # v

\* role.save() writes the changed fields; setting permissions checks __v.
SaveEdit(c) ==
    LET req  == request[c]
        doc  == role[req.role]
        arr  == "permissions" \in req.changes
        kept == ~Lives(req.role) \/ (arr /\ Overtaken(doc.version, seen[c]))
    IN  /\ at[c] = "save"
        /\ req.op = "edit"
        /\ IF kept THEN role' = role
           ELSE role' = [role EXCEPT ![req.role] =
                  [status      |-> IF "status" \in req.changes THEN req.status ELSE doc.status,
                   permissions |-> IF arr THEN req.permissions ELSE doc.permissions,
                   version     |-> IF arr THEN doc.version + 1 ELSE doc.version]]
        /\ Leave(c)
        /\ UNCHANGED <<holds, userVersion>>

\* roleModel.create, under a new id.  (A name already taken ends the call.)
SaveCreate(c, r) ==
    /\ at[c] = "save"
    /\ request[c].op = "create"
    /\ role[r].status = "free"
    /\ role' = [role EXCEPT ![r] = [status |-> request[c].status, version |-> 0,
                                    permissions |-> request[c].permissions]]
    /\ Leave(c)
    /\ UNCHANGED <<holds, userVersion>>

\* target.save(): the whole list is set, so __v is checked and incremented.
SaveAssign(c) ==
    LET req == request[c]
    IN  /\ at[c] = "save"
        /\ req.op = "assign"
        /\ IF Overtaken(userVersion[req.user], seen[c])
             THEN UNCHANGED <<holds, userVersion>>
             ELSE /\ holds' = [holds EXCEPT ![req.user] = req.kept \cup req.added]
                  /\ userVersion' = [userVersion EXCEPT ![req.user] = @ + 1]
        /\ Leave(c)
        /\ UNCHANGED role

\* Every read of the transaction returns users.roles as they are now.
OpenTransaction(c) ==
    /\ at[c] = "save"
    /\ request[c].op = "reassign"
    /\ snapshot' = [snapshot EXCEPT ![c] = holds]
    /\ at' = [at EXCEPT ![c] = "commit"]
    /\ UNCHANGED <<role, holds, userVersion, inputs, grant, own>>

Holders(held, r) == {u \in Users : r \in held[u]}

\* replaceRole: first the people named, then whoever is left, if there is a
\* fallback.  updateMany does not touch __v.
Replaced(c, u) ==
    LET req  == request[c]
        body == req.body
        to   == IF u \in DOMAIN body.named THEN {body.named[u]}
                                           ELSE {body.fallback} \ {NoRole}
    IN  IF req.role \in snapshot[c][u] THEN (holds[u] \ {req.role}) \cup to ELSE holds[u]

\* A user document the transaction writes changed since it opened.  (The role
\* it deletes may have changed too; the retry then comes to the same end.)
Conflict(c) ==
    \E u \in Holders(snapshot[c], request[c].role) : holds[u] # snapshot[c][u]

RetryTransaction(c) ==
    /\ at[c] = "commit"
    /\ Conflict(c)
    /\ at' = [at EXCEPT ![c] = "save"]
    /\ snapshot' = [snapshot EXCEPT ![c] = [u \in Users |-> {}]]
    /\ UNCHANGED <<role, holds, userVersion, inputs, grant, own>>

\* The count finds a holder whom the body gives no destination.
SomebodyLeft(c) ==
    /\ request[c].body.fallback = NoRole
    /\ Holders(snapshot[c], request[c].role) \ DOMAIN request[c].body.named # {}

EndTransaction(c) ==
    LET r == request[c].role
    IN  /\ at[c] = "commit"
        /\ ~Conflict(c)
        /\ IF SomebodyLeft(c) THEN UNCHANGED <<role, holds>>
           ELSE /\ holds' = [u \in Users |-> Replaced(c, u)]
                /\ role' = WithoutRole(r)
        /\ Leave(c)
        /\ UNCHANGED userVersion

\* role.deleteOne(), after a count that may be out of date.
DeleteRole(c) ==
    LET r == request[c].role
    IN  /\ at[c] = "save"
        /\ request[c].op = "remove"
        /\ role' = WithoutRole(r)
        /\ Leave(c)
        /\ UNCHANGED <<holds, userVersion>>

----------------------------------------------------------------------------
Init ==
    /\ role \in FirstRoles
    /\ holds \in FirstHolds
    /\ userVersion = [u \in Users |-> 0]
    /\ request = [c \in Calls |-> NoRequest]
    /\ at = [c \in Calls |-> "idle"]
    /\ seen = [c \in Calls |-> 0]
    /\ grant = [c \in Calls |-> {}]
    /\ own = [c \in Calls |-> {}]
    /\ snapshot = [c \in Calls |-> [u \in Users |-> {}]]

Begin(c) ==
    \/ \E a \in Actors, r \in RoleIds :
         \/ \E permissions \in PermissionLists \cup {role[r].permissions}, status \in Statuses :
              BeginEdit(c, a, r, permissions, status)
         \/ \E body \in Reassignments : BeginReassign(c, a, r, body)
    \/ \E a \in Actors, permissions \in PermissionLists, status \in Statuses :
         BeginCreate(c, a, permissions, status)
    \/ \E a \in Actors, u \in Users, list \in RoleLists : BeginAssign(c, a, u, list)
    \/ \E r \in RoleIds : BeginRemove(c, r)

Write(c) ==
    \/ SaveEdit(c)
    \/ \E r \in RoleIds : SaveCreate(c, r)
    \/ SaveAssign(c)
    \/ OpenTransaction(c)
    \/ RetryTransaction(c)
    \/ EndTransaction(c)
    \/ DeleteRole(c)

Next ==
    \E c \in Calls : Begin(c) \/ ReadGrants(c) \/ ReadActor(c) \/ Decide(c) \/ Write(c)

Spec == Init /\ [][Next]_vars

----------------------------------------------------------------------------
(* Properties.                                                             *)

Steps == {"idle", "grants", "actor", "decide", "save", "commit"}

\* The variables have their types, and an id without a document grants nothing.
TypeOK ==
    /\ role \in [RoleIds -> RoleDoc]
    /\ \A r \in RoleIds : ~Lives(r) => role[r].permissions = {}
    /\ holds \in [Users -> SUBSET RoleIds]
    /\ userVersion \in [Users -> Nat]
    /\ request \in [Calls -> Requests]
    /\ at \in [Calls -> Steps]
    /\ seen \in [Calls -> Nat]
    /\ grant \in [Calls -> SUBSET Permissions]
    /\ own \in [Calls -> SUBSET RoleIds]
    /\ snapshot \in [Calls -> [Users -> SUBSET RoleIds]]

\* No escalation: however the calls overlap, nobody comes to have a permission
\* that lies outside what the people had at the start -- neither by editing a
\* role, reactivating one, handing one out nor reassigning its holders.
NoNewPrivilege == \A u \in Users : EffectiveOf(holds[u]) \subseteq Powers

\* "If somebody else received the role in the meantime the final count is not
\* zero and everything is reverted": a reassignment that removes its role
\* leaves nobody who holds it.
LateHoldersRevertIt ==
    [][\A c \in Calls, r \in RoleIds :
          at[c] = "commit" /\ at'[c] = "idle" /\ Lives(r) /\ role'[r].status = "gone"
            => \A u \in Users : r \notin holds'[u]]_vars
=============================================================================
