---------------------------- MODULE RolesProofs ----------------------------
(***************************************************************************)
(* Nobody outgrows Powers, for any people, roles and number of calls.      *)
(*                                                                         *)
(* Powers alone is not inductive: an inactive role, or one nobody holds,   *)
(* may carry foreign permissions.  What the calls preserve is that the     *)
(* foreign permissions of a role never grow, that a role which is held, or *)
(* about to be handed out, is tame -- it grants nothing foreign now --,    *)
(* and that a tame role stays tame.                                        *)
(***************************************************************************)
EXTENDS Roles, TLAPS

Foreign(r) == role[r].permissions \ Powers

Tame(r) == role[r].status = "activo" => role[r].permissions \subseteq Powers

\* Which operation may be at which step.
StepsFit ==
    \A c \in Calls :
       /\ at[c] = "idle" <=> request[c] = NoRequest
       /\ at[c] = "grants" => request[c].op \in {"assign", "reassign"}
       /\ at[c] \in {"actor", "decide"} =>
            request[c].op \in {"edit", "create", "assign", "reassign"}
       /\ at[c] = "commit" => request[c].op = "reassign"

HeldTame == \A u \in Users : \A r \in holds[u] : Tame(r)

\* What an edit loaded bounds what it will save: if it sets the permissions,
\* the role cannot have changed under an equal __v; if it does not, the role
\* can only have lost foreign permissions since.
EditBounded(c) ==
    LET req == request[c]
        doc == role[req.role]
    IN  req.op = "edit" =>
          /\ doc.status # "free"
          /\ seen[c] <= doc.version
          /\ "permissions" \notin req.changes => Foreign(req.role) \subseteq req.permissions
          /\ Lives(req.role) /\ seen[c] = doc.version /\ "permissions" \in req.changes
               => req.permissions \subseteq doc.permissions \cup grant[c]
          /\ "status" \in req.changes /\ req.status = "activo"
               => req.permissions \subseteq grant[c]

\* What a call is about to hand out was checked, or is among what will be.
CallBounded(c) ==
    /\ \A r \in own[c] : Tame(r)
    /\ at[c] \in {"save", "commit"} => grant[c] \subseteq Powers
    /\ EditBounded(c)
    /\ request[c].op = "create" => request[c].permissions \subseteq grant[c]
    /\ at[c] # "grants" => \A r \in Given(request[c]) : Foreign(r) \subseteq grant[c]
    /\ request[c].op = "assign" => \A r \in request[c].kept : Tame(r)

IInv == TypeOK /\ StepsFit /\ HeldTame /\ \A c \in Calls : CallBounded(c)

----------------------------------------------------------------------------
\* An edit, a creation or a deletion leaves every role no more powerful over
\* those who lack its foreign permissions, and marks every change with __v.
Evolves(r) ==
    /\ role'[r].version \in Nat
    /\ role'[r].permissions \ Powers \subseteq role[r].permissions \ Powers
    /\ Tame(r) => Tame(r)'
    /\ role[r].status # "free" =>
         /\ role'[r].status # "free"
         /\ role'[r].status \in Statuses => Lives(r)
         /\ role[r].version <= role'[r].version
         /\ role'[r].status \in Statuses /\ role'[r].version = role[r].version
              => role'[r].permissions = role[r].permissions

LEMMA UnchangedEvolves ==
  ASSUME TypeOK, role' = role, NEW r \in RoleIds
  PROVE  Evolves(r)
  <1>1. role[r].version \in Nat
    BY DEF TypeOK, RoleDoc
  <1>2. QED
    BY <1>1 DEF Evolves, Tame, Lives

LEMMA DeletedEvolves ==
  ASSUME TypeOK, NEW d \in RoleIds, NEW r \in RoleIds,
         role' = WithoutRole(d)
  PROVE  Evolves(r)
  <1>1. role[r] \in RoleDoc /\ role[d] \in RoleDoc
    BY DEF TypeOK
  <1>2. CASE r = d
    <2>1. /\ role'[r].status = "gone"
          /\ role'[r].permissions = {}
          /\ role'[r].version = role[r].version
      BY <1>1, <1>2 DEF TypeOK, RoleDoc, WithoutRole
    <2>2. role[r].version \in Nat
      BY <1>1 DEF RoleDoc
    <2>3. QED
      BY <2>1, <2>2 DEF Evolves, Tame, Statuses
  <1>3. CASE r # d
    <2>1. role'[r] = role[r]
      BY <1>3 DEF TypeOK, WithoutRole
    <2>2. role[r].version \in Nat
      BY <1>1 DEF RoleDoc
    <2>3. QED
      BY <2>1, <2>2 DEF Evolves, Tame, Lives
  <1>4. QED
    BY <1>2, <1>3

\* The edit at its save: the document it leaves, when it writes one.
Saved(c) ==
    LET req == request[c]
        doc == role[req.role]
        arr == "permissions" \in req.changes
    IN  [status      |-> IF "status" \in req.changes THEN req.status ELSE doc.status,
         permissions |-> IF arr THEN req.permissions ELSE doc.permissions,
         version     |-> IF arr THEN doc.version + 1 ELSE doc.version]

LEMMA EditIsARequest ==
  ASSUME TypeOK, NEW c \in Calls, request[c].op = "edit"
  PROVE  request[c] \in EditRequest
  <1>1. request[c] \in Requests
    BY DEF TypeOK
  <1>2. QED
    BY <1>1 DEF Requests, EditRequest, CreateRequest, AssignRequest, ReassignRequest,
                RemoveRequest, NoRequest

LEMMA SavedIsADocument ==
  ASSUME TypeOK, NEW c \in Calls, request[c].op = "edit"
  PROVE  /\ Saved(c) \in RoleDoc
         /\ Saved(c).status \in Statuses \/ Saved(c).status = role[request[c].role].status
  <1>1. request[c] \in EditRequest
    BY EditIsARequest
  <1>2. role[request[c].role] \in RoleDoc
    BY <1>1 DEF TypeOK, EditRequest
  <1>3. QED
    BY <1>1, <1>2 DEF Saved, EditRequest, RoleDoc

LEMMA SaveEditEvolves ==
  ASSUME IInv, NEW c \in Calls, SaveEdit(c), NEW r \in RoleIds
  PROVE  Evolves(r)
  <1> DEFINE req == request[c]
             doc == role[req.role]
             arr == "permissions" \in req.changes
             kept == ~Lives(req.role) \/ (arr /\ Overtaken(doc.version, seen[c]))
  <1>1. TypeOK /\ EditBounded(c) /\ grant[c] \subseteq Powers /\ req.op = "edit"
    BY DEF IInv, CallBounded, SaveEdit
  <1>2. req \in EditRequest /\ doc \in RoleDoc
    BY <1>1, EditIsARequest DEF TypeOK, EditRequest
  <1>3. CASE kept
    <2>1. role' = role
      BY <1>3 DEF SaveEdit
    <2>2. QED
      BY <1>1, <2>1, UnchangedEvolves
  <1>4. CASE ~kept /\ r # req.role
    <2>1. role' = [role EXCEPT ![req.role] = Saved(c)]
      BY <1>4 DEF SaveEdit, Saved
    <2>2. role'[r] = role[r] /\ role[r] \in RoleDoc
      BY <1>1, <1>4, <2>1 DEF TypeOK
    <2>3. QED
      BY <2>2 DEF Evolves, Tame, Lives, RoleDoc
  <1>5. CASE ~kept /\ r = req.role
    <2>1. role' = [role EXCEPT ![req.role] = Saved(c)]
      BY <1>5 DEF SaveEdit, Saved
    <2>2. role'[r] = Saved(c) /\ role[r] = doc /\ Lives(r)
      BY <1>1, <1>2, <1>5, <2>1 DEF TypeOK, EditRequest
    <2>3. arr => seen[c] = doc.version
      BY <1>5 DEF Overtaken
    <2>4. Saved(c).permissions \ Powers \subseteq doc.permissions \ Powers
      <3>1. CASE arr
        <4>1. req.permissions \subseteq doc.permissions \cup grant[c]
          BY <1>1, <1>5, <2>2, <2>3, <3>1 DEF EditBounded
        <4>2. QED
          BY <1>1, <3>1, <4>1 DEF Saved
      <3>2. CASE ~arr
        BY <3>2 DEF Saved
      <3>3. QED
        BY <3>1, <3>2
    <2>5. ASSUME Tame(r), Saved(c).status = "activo"
          PROVE  Saved(c).permissions \subseteq Powers
      <3>1. CASE "status" \in req.changes
        <4>1. req.permissions \subseteq Powers
          BY <1>1, <2>5, <3>1 DEF EditBounded, Saved
        <4>2. CASE arr
          BY <4>1, <4>2 DEF Saved
        <4>3. CASE ~arr
          <5>1. doc.permissions \ Powers \subseteq req.permissions
            BY <1>1, <4>3 DEF EditBounded, Foreign
          <5>2. QED
            BY <4>1, <4>3, <5>1 DEF Saved
        <4>4. QED
          BY <4>2, <4>3
      <3>2. CASE "status" \notin req.changes
        <4>1. doc.permissions \subseteq Powers
          BY <2>2, <2>5, <3>2 DEF Saved, Tame
        <4>2. QED
          BY <2>4, <4>1
      <3>3. QED
        BY <3>1, <3>2
    <2>6. Tame(r) => Tame(r)'
      BY <2>2, <2>5 DEF Tame
    <2>7. /\ Saved(c).status # "free"
          /\ Saved(c).version \in Nat
          /\ doc.version <= Saved(c).version
          /\ Saved(c).version = doc.version => Saved(c).permissions = doc.permissions
      <3>1. Saved(c).status \in Statuses
        BY <1>2, <1>5 DEF Saved, EditRequest, Lives
      <3>2. QED
        BY <1>2, <3>1 DEF Saved, RoleDoc, Statuses
    <2>8. QED
      BY <2>2, <2>4, <2>6, <2>7 DEF Evolves
  <1>6. QED
    BY <1>3, <1>4, <1>5

LEMMA SaveCreateEvolves ==
  ASSUME IInv, NEW c \in Calls, NEW n \in RoleIds, SaveCreate(c, n), NEW r \in RoleIds
  PROVE  Evolves(r)
  <1>1. TypeOK /\ request[c].permissions \subseteq Powers
    BY DEF IInv, CallBounded, SaveCreate
  <1>2. role[r] \in RoleDoc
    BY <1>1 DEF TypeOK
  <1>3. CASE r = n
    <2>1. /\ role'[r].status \in Statuses
          /\ role'[r].permissions = request[c].permissions
          /\ role'[r].version = 0
      <3>1. request[c].status \in Statuses
        BY <1>1 DEF SaveCreate, TypeOK, Requests, EditRequest, CreateRequest, AssignRequest,
                    ReassignRequest, RemoveRequest, NoRequest
      <3>2. QED
        BY <1>1, <1>3, <3>1 DEF SaveCreate, TypeOK
    <2>2. role[r].status = "free"
      BY <1>3 DEF SaveCreate
    <2>3. QED
      BY <1>1, <2>1, <2>2 DEF Evolves, Tame
  <1>4. CASE r # n
    <2>1. role'[r] = role[r]
      BY <1>1, <1>4 DEF SaveCreate, TypeOK
    <2>2. QED
      BY <1>2, <2>1 DEF Evolves, Tame, Lives, RoleDoc
  <1>5. QED
    BY <1>3, <1>4

----------------------------------------------------------------------------
LEMMA WithoutRoleIsTyped ==
  ASSUME TypeOK, NEW r \in RoleIds
  PROVE  /\ WithoutRole(r) \in [RoleIds -> RoleDoc]
         /\ \A s \in RoleIds : WithoutRole(r)[s].status \notin Statuses
                                  => WithoutRole(r)[s].permissions = {}
  <1> DEFINE doc == [role[r] EXCEPT !.status = "gone", !.permissions = {}]
  <1>1. role[r] \in RoleDoc
    BY DEF TypeOK
  <1>2. doc \in RoleDoc /\ doc.permissions = {}
    BY <1>1 DEF RoleDoc
  <1>3. WithoutRole(r) = [role EXCEPT ![r] = doc]
    BY DEF WithoutRole
  <1> HIDE DEF doc
  <1>4. QED
    BY <1>2, <1>3 DEF TypeOK, Lives

\* Entering and leaving keep the bookkeeping of the calls well formed.
Bookkeeping ==
    /\ request \in [Calls -> Requests]
    /\ at \in [Calls -> Steps]
    /\ seen \in [Calls -> Nat]
    /\ grant \in [Calls -> SUBSET Permissions]
    /\ own \in [Calls -> SUBSET RoleIds]
    /\ snapshot \in [Calls -> [Users -> SUBSET RoleIds]]

LEMMA LeaveIsTyped ==
  ASSUME TypeOK, StepsFit, NEW c \in Calls, Leave(c)
  PROVE  Bookkeeping' /\ StepsFit'
  <1>1. NoRequest \in Requests
    BY DEF Requests
  <1>2. Bookkeeping'
    BY <1>1 DEF TypeOK, Leave, Bookkeeping, Steps
  <1>3. StepsFit'
    BY DEF TypeOK, StepsFit, Leave
  <1>4. QED
    BY <1>2, <1>3

LEMMA EnterIsTyped ==
  ASSUME TypeOK, StepsFit, NEW c \in Calls, NEW req \in Requests \ {NoRequest},
         NEW step \in Steps \ {"idle", "commit"}, NEW v \in Nat, NEW g \in SUBSET Permissions,
         step = "grants" => req.op \in {"assign", "reassign"},
         step \in {"actor", "decide"} => req.op \in {"edit", "create", "assign", "reassign"},
         Enter(c, req, step, v, g)
  PROVE  TypeOK' /\ StepsFit'
  <1>1. Bookkeeping'
    BY DEF TypeOK, Enter, Bookkeeping
  <1>2. TypeOK'
    BY <1>1 DEF TypeOK, Enter, Bookkeeping, Lives
  <1>3. StepsFit'
    BY DEF TypeOK, StepsFit, Enter
  <1>4. QED
    BY <1>2, <1>3

----------------------------------------------------------------------------
\* A call that does nothing itself stays bounded while the roles evolve.
LEMMA OthersStayBounded ==
  ASSUME IInv, NEW d \in Calls, \A r \in RoleIds : Evolves(r),
         request'[d] = request[d], at'[d] = at[d], seen'[d] = seen[d],
         grant'[d] = grant[d], own'[d] = own[d]
  PROVE  CallBounded(d)'
  <1>1. TypeOK /\ StepsFit /\ CallBounded(d)
    BY DEF IInv
  <1>2. \A r \in own'[d] : Tame(r)'
    <2>1. own[d] \subseteq RoleIds
      BY <1>1 DEF TypeOK
    <2>2. QED
      BY <1>1, <2>1 DEF CallBounded, Evolves
  <1>3. EditBounded(d)'
    <2>1. CASE request[d].op = "edit"
      <3> DEFINE req == request[d]
                 doc == role[req.role]
                 new == role'[req.role]
      <3>1. req \in EditRequest /\ req.role \in RoleIds
        BY <1>1, <2>1, EditIsARequest DEF EditRequest
      <3>2. Evolves(req.role) /\ doc \in RoleDoc /\ EditBounded(d)
        BY <1>1, <3>1 DEF TypeOK, CallBounded
      <3>3. doc.version \in Nat /\ seen[d] \in Nat /\ seen[d] <= doc.version /\ doc.status # "free"
        BY <1>1, <2>1, <3>2 DEF EditBounded, TypeOK, RoleDoc
      <3>4. new.status # "free" /\ doc.version <= new.version
        BY <3>2, <3>3 DEF Evolves
      <3>5. ASSUME new.status \in Statuses, seen[d] = new.version, "permissions" \in req.changes
            PROVE  req.permissions \subseteq new.permissions \cup grant[d]
        <4>1. Lives(req.role)
          BY <3>2, <3>3, <3>5 DEF Evolves
        <4>2. seen[d] = doc.version
          <5>1. doc.version <= seen[d]
            BY <3>4, <3>5
          <5>2. QED
            BY <3>3, <5>1
        <4>3. new.permissions = doc.permissions
          BY <3>2, <3>3, <3>5, <4>2 DEF Evolves
        <4>4. req.permissions \subseteq doc.permissions \cup grant[d]
          BY <2>1, <3>2, <3>5, <4>1, <4>2 DEF EditBounded
        <4>5. QED
          BY <4>3, <4>4
      <3>6. "permissions" \notin req.changes => new.permissions \ Powers \subseteq req.permissions
        BY <2>1, <3>2 DEF EditBounded, Evolves, Foreign
      <3>7. seen[d] <= new.version
        BY <3>2, <3>3, <3>4 DEF Evolves
      <3>8. QED
        BY <2>1, <3>2, <3>4, <3>5, <3>6, <3>7 DEF EditBounded, Lives, Foreign
    <2>2. CASE request[d].op # "edit"
      BY <2>2 DEF EditBounded
    <2>3. QED
      BY <2>1, <2>2
  <1>4. \A r \in Given(request[d]) : r \in RoleIds
    <2>1. request[d] \in Requests
      BY <1>1 DEF TypeOK
    <2>2. CASE request[d].op = "assign"
      BY <2>1, <2>2 DEF Given, Requests, EditRequest, CreateRequest, AssignRequest,
                        ReassignRequest, RemoveRequest, NoRequest
    <2>3. CASE request[d].op = "reassign"
      <3>1. request[d].body \in Reassignment
        BY <2>1, <2>3 DEF Requests, EditRequest, CreateRequest, AssignRequest,
                          ReassignRequest, RemoveRequest, NoRequest
      <3>2. Targets(request[d].body) \subseteq RoleIds
        BY <3>1 DEF Targets, Reassignment
      <3>3. QED
        BY <2>3, <3>2 DEF Given
    <2>4. CASE request[d].op \notin {"assign", "reassign"}
      BY <2>4 DEF Given
    <2>5. QED
      BY <2>2, <2>3, <2>4
  <1>5. at'[d] # "grants" => \A r \in Given(request'[d]) : Foreign(r)' \subseteq grant'[d]
    BY <1>1, <1>4 DEF CallBounded, Evolves, Foreign
  <1>6. request'[d].op = "assign" => \A r \in request'[d].kept : Tame(r)'
    <2>1. request[d].op = "assign" => request[d].kept \subseteq RoleIds
      BY <1>1 DEF TypeOK, Requests, EditRequest, CreateRequest, AssignRequest,
                  ReassignRequest, RemoveRequest, NoRequest
    <2>2. QED
      BY <1>1, <2>1 DEF CallBounded, Evolves
  <1>7. QED
    BY <1>1, <1>2, <1>3, <1>5, <1>6 DEF CallBounded

\* A call that left has nothing to bound.
LEMMA LeftIsBounded ==
  ASSUME IInv, NEW c \in Calls, Leave(c)
  PROVE  CallBounded(c)'
  <1>1. /\ request'[c] = NoRequest
        /\ at'[c] = "idle"
        /\ own'[c] = {}
    BY DEF IInv, TypeOK, Leave
  <1>2. Given(request'[c]) = {}
    BY <1>1 DEF Given, NoRequest
  <1>3. QED
    BY <1>1, <1>2 DEF CallBounded, EditBounded, NoRequest

\* The same for the rest of a step that ends a call.
LEMMA LeavingKeepsBounds ==
  ASSUME IInv, NEW c \in Calls, Leave(c), \A r \in RoleIds : Evolves(r)
  PROVE  \A d \in Calls : CallBounded(d)'
  <1> SUFFICES ASSUME NEW d \in Calls
               PROVE  CallBounded(d)'
    OBVIOUS
  <1>1. CASE d = c
    BY <1>1, LeftIsBounded
  <1>2. CASE d # c
    <2>1. /\ request'[d] = request[d] /\ at'[d] = at[d] /\ seen'[d] = seen[d]
          /\ grant'[d] = grant[d] /\ own'[d] = own[d]
      BY <1>2 DEF IInv, TypeOK, Leave
    <2>2. QED
      BY <2>1, OthersStayBounded
  <1>3. QED
    BY <1>1, <1>2

\* What is held stays tame while nobody is handed a role.
LEMMA HoldersStayTame ==
  ASSUME IInv, \A r \in RoleIds : Evolves(r), holds' = holds
  PROVE  HeldTame'
  <1>1. \A u \in Users : holds[u] \subseteq RoleIds
    BY DEF IInv, TypeOK
  <1>2. QED
    BY <1>1 DEF IInv, HeldTame, Evolves

\* A step of one call that leaves the collections alone.
LEMMA QuietStep ==
  ASSUME IInv, NEW c \in Calls, role' = role, holds' = holds,
         \A d \in Calls \ {c} :
            /\ request'[d] = request[d] /\ at'[d] = at[d] /\ seen'[d] = seen[d]
            /\ grant'[d] = grant[d] /\ own'[d] = own[d],
         CallBounded(c)', TypeOK', StepsFit'
  PROVE  IInv'
  <1>1. \A r \in RoleIds : Evolves(r)
    BY UnchangedEvolves DEF IInv
  <1>2. HeldTame'
    BY <1>1, HoldersStayTame
  <1>3. ASSUME NEW d \in Calls
        PROVE  CallBounded(d)'
    <2>1. CASE d = c
      BY <2>1
    <2>2. CASE d # c
      BY <1>1, <2>2, OthersStayBounded
    <2>3. QED
      BY <2>1, <2>2
  <1>4. QED
    BY <1>2, <1>3 DEF IInv

LEMMA EnteringStep ==
  ASSUME IInv, NEW c \in Calls, NEW req \in Requests \ {NoRequest},
         NEW step \in Steps \ {"idle", "commit"}, NEW v \in Nat, NEW g \in SUBSET Permissions,
         step = "grants" => req.op \in {"assign", "reassign"},
         step \in {"actor", "decide"} => req.op \in {"edit", "create", "assign", "reassign"},
         Enter(c, req, step, v, g),
         CallBounded(c)'
  PROVE  IInv'
  <1>1. TypeOK' /\ StepsFit'
    BY EnterIsTyped DEF IInv
  <1>2. \A d \in Calls \ {c} :
            /\ request'[d] = request[d] /\ at'[d] = at[d] /\ seen'[d] = seen[d]
            /\ grant'[d] = grant[d] /\ own'[d] = own[d]
    BY DEF IInv, TypeOK, Enter
  <1>3. role' = role /\ holds' = holds
    BY DEF Enter
  <1>4. QED
    BY <1>1, <1>2, <1>3, QuietStep

LEMMA Entered ==
  ASSUME IInv, NEW c \in Calls, NEW req, NEW step, NEW v, NEW g, Enter(c, req, step, v, g)
  PROVE  /\ request'[c] = req /\ at'[c] = step /\ seen'[c] = v /\ grant'[c] = g
         /\ \A r \in own'[c] : Tame(r)'
         /\ role' = role
  <1>1. /\ request'[c] = req /\ at'[c] = step /\ seen'[c] = v /\ grant'[c] = g
        /\ role' = role /\ own' = own
    BY DEF IInv, TypeOK, Enter
  <1>2. \A r \in own[c] : Tame(r)
    BY DEF IInv, CallBounded
  <1>3. QED
    BY <1>1, <1>2 DEF Tame

----------------------------------------------------------------------------
LEMMA BeginEditStep ==
  ASSUME IInv, NEW c \in Calls, NEW a \in Actors, NEW r \in RoleIds,
         NEW permissions \in SUBSET Permissions, NEW status \in Statuses,
         BeginEdit(c, a, r, permissions, status)
  PROVE  IInv'
  <1> DEFINE doc     == role[r]
             changes == {f \in {"permissions", "status"} :
                           \/ f = "permissions" /\ permissions # doc.permissions
                           \/ f = "status" /\ status # doc.status}
             granted == GrantedByUpdate(doc, permissions, status)
             req     == [op |-> "edit", actor |-> a, role |-> r, permissions |-> permissions,
                         status |-> status, changes |-> changes]
  <1>1. doc \in RoleDoc /\ Lives(r)
    BY DEF IInv, TypeOK, BeginEdit
  <1>2. granted \subseteq permissions
    BY DEF GrantedByUpdate
  <1>3. req \in EditRequest
    BY DEF EditRequest
  <1>4. Enter(c, req, Checked(granted), doc.version, granted)
    BY DEF BeginEdit
  <1>5. /\ "permissions" \notin changes => permissions = doc.permissions
        /\ permissions \subseteq doc.permissions \cup granted
        /\ "status" \in changes /\ status = "activo" => granted = permissions
    BY DEF GrantedByUpdate
  <1>6. Checked(granted) \in {"save", "actor"} /\ (Checked(granted) = "save" => granted = {})
    BY DEF Checked
  <1>7. doc.version \in Nat /\ granted \in SUBSET Permissions /\ doc.status # "free"
    BY <1>1, <1>2 DEF RoleDoc, Lives, Statuses
  <1>8. /\ req.op = "edit" /\ req.role = r /\ req.permissions = permissions
        /\ req.status = status /\ req.changes = changes
    OBVIOUS
  <1> HIDE DEF doc, changes, granted, req
  <1>9. /\ request'[c] = req /\ at'[c] = Checked(granted) /\ seen'[c] = doc.version
        /\ grant'[c] = granted /\ role' = role
        /\ \A s \in own'[c] : Tame(s)'
    BY <1>4, Entered
  <1>10. role'[req.role] = doc
    BY <1>8, <1>9 DEF doc
  <1>11. EditBounded(c)'
    BY <1>1, <1>5, <1>7, <1>8, <1>9, <1>10 DEF EditBounded, Foreign
  <1>12. Given(req) = {}
    BY <1>8 DEF Given
  <1>13. CallBounded(c)'
    BY <1>6, <1>8, <1>9, <1>11, <1>12 DEF CallBounded
  <1>14. req \in Requests \ {NoRequest}
    BY <1>3, <1>8 DEF Requests, NoRequest
  <1>15. QED
    BY <1>4, <1>6, <1>7, <1>8, <1>13, <1>14, EnteringStep DEF Steps

LEMMA BeginCreateStep ==
  ASSUME IInv, NEW c \in Calls, NEW a \in Actors, NEW permissions \in SUBSET Permissions,
         NEW status \in Statuses, BeginCreate(c, a, permissions, status)
  PROVE  IInv'
  <1> DEFINE req == [op |-> "create", actor |-> a, permissions |-> permissions,
                     status |-> status]
  <1>1. req \in CreateRequest
    BY DEF CreateRequest
  <1>2. Enter(c, req, Checked(permissions), 0, permissions)
    BY DEF BeginCreate
  <1>3. req.op = "create" /\ req.permissions = permissions
    OBVIOUS
  <1>4. /\ Checked(permissions) \in {"save", "actor"}
        /\ Checked(permissions) = "save" => permissions = {}
    BY DEF Checked
  <1> HIDE DEF req
  <1>5. /\ request'[c] = req /\ at'[c] = Checked(permissions) /\ grant'[c] = permissions
        /\ \A s \in own'[c] : Tame(s)'
    BY <1>2, Entered
  <1>6. Given(req) = {}
    BY <1>3 DEF Given
  <1>7. CallBounded(c)'
    BY <1>3, <1>4, <1>5, <1>6 DEF CallBounded, EditBounded
  <1>8. req \in Requests \ {NoRequest}
    BY <1>1, <1>3 DEF Requests, NoRequest
  <1>9. QED
    BY <1>2, <1>3, <1>4, <1>7, <1>8, EnteringStep DEF Steps

LEMMA BeginAssignStep ==
  ASSUME IInv, NEW c \in Calls, NEW a \in Actors, NEW u \in Users,
         NEW list \in SUBSET RoleIds, BeginAssign(c, a, u, list)
  PROVE  IInv'
  <1> DEFINE added == list \ holds[u]
             kept  == list \ added
             req   == [op |-> "assign", actor |-> a, user |-> u,
                       kept |-> kept, added |-> added]
             step  == IF added = {} THEN "save" ELSE "grants"
  <1>1. req \in AssignRequest
    BY DEF AssignRequest
  <1>2. Enter(c, req, step, userVersion[u], {})
    BY DEF BeginAssign
  <1>3. req.op = "assign" /\ req.kept = kept /\ req.added = added
    OBVIOUS
  <1>4. kept \subseteq holds[u]
    OBVIOUS
  <1>5. step \in {"save", "grants"} /\ (step = "save" => added = {})
    OBVIOUS
  <1>6. userVersion[u] \in Nat
    BY DEF IInv, TypeOK
  <1> HIDE DEF added, kept, req, step
  <1>7. /\ request'[c] = req /\ at'[c] = step /\ grant'[c] = {} /\ role' = role
        /\ \A s \in own'[c] : Tame(s)'
    BY <1>2, Entered
  <1>8. Given(req) = added
    BY <1>3 DEF Given
  <1>9. \A r \in kept : Tame(r)'
    BY <1>4, <1>7 DEF IInv, HeldTame, Tame
  <1>10. CallBounded(c)'
    BY <1>3, <1>5, <1>7, <1>8, <1>9 DEF CallBounded, EditBounded
  <1>11. req \in Requests \ {NoRequest}
    BY <1>1, <1>3 DEF Requests, NoRequest
  <1>12. QED
    BY <1>2, <1>3, <1>5, <1>6, <1>10, <1>11, EnteringStep DEF Steps

LEMMA BeginReassignStep ==
  ASSUME IInv, NEW c \in Calls, NEW a \in Actors, NEW r \in RoleIds,
         NEW body \in Reassignment, BeginReassign(c, a, r, body)
  PROVE  IInv'
  <1> DEFINE req  == [op |-> "reassign", actor |-> a, role |-> r, body |-> body]
             step == IF Targets(body) = {} THEN "save" ELSE "grants"
  <1>1. req \in ReassignRequest
    BY DEF ReassignRequest
  <1>2. Enter(c, req, step, 0, {})
    BY DEF BeginReassign
  <1>3. req.op = "reassign" /\ req.body = body
    OBVIOUS
  <1>4. step \in {"save", "grants"} /\ (step = "save" => Targets(body) = {})
    OBVIOUS
  <1> HIDE DEF req, step
  <1>5. /\ request'[c] = req /\ at'[c] = step /\ grant'[c] = {}
        /\ \A s \in own'[c] : Tame(s)'
    BY <1>2, Entered
  <1>6. Given(req) = Targets(body)
    BY <1>3 DEF Given
  <1>7. CallBounded(c)'
    BY <1>3, <1>4, <1>5, <1>6 DEF CallBounded, EditBounded
  <1>8. req \in Requests \ {NoRequest}
    BY <1>1, <1>3 DEF Requests, NoRequest
  <1>9. QED
    BY <1>2, <1>3, <1>4, <1>7, <1>8, EnteringStep DEF Steps

LEMMA BeginRemoveStep ==
  ASSUME IInv, NEW c \in Calls, NEW r \in RoleIds, BeginRemove(c, r)
  PROVE  IInv'
  <1> DEFINE req == [op |-> "remove", role |-> r]
  <1>1. req \in RemoveRequest
    BY DEF RemoveRequest
  <1>2. Enter(c, req, "save", 0, {})
    BY DEF BeginRemove
  <1>3. req.op = "remove"
    OBVIOUS
  <1> HIDE DEF req
  <1>4. /\ request'[c] = req /\ at'[c] = "save" /\ grant'[c] = {}
        /\ \A s \in own'[c] : Tame(s)'
    BY <1>2, Entered
  <1>5. Given(req) = {}
    BY <1>3 DEF Given
  <1>6. CallBounded(c)'
    BY <1>3, <1>4, <1>5 DEF CallBounded, EditBounded
  <1>7. req \in Requests \ {NoRequest}
    BY <1>1, <1>3 DEF Requests, NoRequest
  <1>8. QED
    BY <1>2, <1>3, <1>6, <1>7, EnteringStep DEF Steps

----------------------------------------------------------------------------
LEMMA ReadGrantsStep ==
  ASSUME IInv, NEW c \in Calls, ReadGrants(c)
  PROVE  IInv'
  <1> DEFINE req     == request[c]
             granted == GrantsOfRoles(Given(req))
  <1>1. TypeOK /\ StepsFit /\ CallBounded(c)
    BY DEF IInv
  <1>2. /\ at[c] = "grants" /\ role' = role /\ holds' = holds /\ userVersion' = userVersion
        /\ request' = request /\ seen' = seen /\ own' = own /\ snapshot' = snapshot
        /\ grant' = [grant EXCEPT ![c] = granted]
        /\ at' = [at EXCEPT ![c] = Checked(granted)]
    BY DEF ReadGrants, inputs
  <1>3. req.op \in {"assign", "reassign"}
    BY <1>1, <1>2 DEF StepsFit
  <1>4. req \in Requests
    BY <1>1 DEF TypeOK
  <1>5. Given(req) \subseteq RoleIds
    <2>1. CASE req.op = "assign"
      BY <1>4, <2>1 DEF Given, Requests, EditRequest, CreateRequest, AssignRequest,
                        ReassignRequest, RemoveRequest, NoRequest
    <2>2. CASE req.op = "reassign"
      <3>1. req.body \in Reassignment
        BY <1>4, <2>2 DEF Requests, EditRequest, CreateRequest, AssignRequest,
                          ReassignRequest, RemoveRequest, NoRequest
      <3>2. QED
        BY <2>2, <3>1 DEF Given, Targets, Reassignment
    <2>3. QED
      BY <1>3, <2>1, <2>2
  <1>6. granted \in SUBSET Permissions
    BY <1>1, <1>5 DEF GrantsOfRoles, TypeOK, RoleDoc
  <1>7. \A r \in Given(req) : role[r].permissions \subseteq granted
    BY DEF GrantsOfRoles
  <1>8. Checked(granted) \in {"save", "actor"} /\ (Checked(granted) = "save" => granted = {})
    BY DEF Checked
  <1> HIDE DEF granted
  <1>9. TypeOK'
    BY <1>1, <1>2, <1>6, <1>8 DEF TypeOK, Lives, Steps
  <1>10. StepsFit'
    BY <1>1, <1>2, <1>3, <1>8 DEF TypeOK, StepsFit
  <1>11. at'[c] = Checked(granted) /\ grant'[c] = granted
    BY <1>1, <1>2 DEF TypeOK
  <1>12. \A r \in own'[c] : Tame(r)'
    BY <1>1, <1>2 DEF CallBounded, Tame
  <1>13. \A r \in Given(request'[c]) : Foreign(r)' \subseteq grant'[c]
    BY <1>2, <1>7, <1>11 DEF Foreign
  <1>14. request'[c].op = "assign" => \A r \in request'[c].kept : Tame(r)'
    BY <1>1, <1>2 DEF CallBounded, Tame
  <1>15. CallBounded(c)'
    BY <1>2, <1>3, <1>8, <1>11, <1>12, <1>13, <1>14 DEF CallBounded, EditBounded
  <1>16. \A d \in Calls \ {c} : at'[d] = at[d] /\ grant'[d] = grant[d]
    BY <1>1, <1>2 DEF TypeOK
  <1>17. QED
    BY <1>2, <1>9, <1>10, <1>15, <1>16, QuietStep

LEMMA ReadActorStep ==
  ASSUME IInv, NEW c \in Calls, ReadActor(c)
  PROVE  IInv'
  <1> DEFINE held == holds[request[c].actor]
  <1>1. TypeOK /\ StepsFit /\ HeldTame /\ CallBounded(c)
    BY DEF IInv
  <1>2. /\ at[c] = "actor" /\ role' = role /\ holds' = holds /\ userVersion' = userVersion
        /\ request' = request /\ seen' = seen /\ grant' = grant /\ snapshot' = snapshot
        /\ own' = [own EXCEPT ![c] = held]
        /\ at' = [at EXCEPT ![c] = "decide"]
    BY DEF ReadActor, inputs
  <1>3. request[c].actor \in Users
    <2>1. request[c].op \in {"edit", "create", "assign", "reassign"}
      BY <1>1, <1>2 DEF StepsFit
    <2>2. request[c].actor \in Actors
      BY <1>1, <2>1 DEF TypeOK, Requests, EditRequest, CreateRequest, AssignRequest,
                        ReassignRequest, RemoveRequest, NoRequest
    <2>3. QED
      BY <2>2, PeopleAssumption
  <1>4. held \in SUBSET RoleIds /\ \A r \in held : Tame(r)
    BY <1>1, <1>3 DEF TypeOK, HeldTame
  <1> HIDE DEF held
  <1>5. TypeOK'
    BY <1>1, <1>2, <1>4 DEF TypeOK, Lives, Steps
  <1>6. StepsFit'
    BY <1>1, <1>2 DEF TypeOK, StepsFit
  <1>7. at'[c] = "decide" /\ own'[c] = held
    BY <1>1, <1>2 DEF TypeOK
  <1>8. EditBounded(c)'
    BY <1>1, <1>2 DEF CallBounded, EditBounded, Foreign, Lives
  <1>9. \A r \in Given(request'[c]) : Foreign(r)' \subseteq grant'[c]
    BY <1>1, <1>2 DEF CallBounded, Foreign
  <1>10. request'[c].op = "assign" => \A r \in request'[c].kept : Tame(r)'
    BY <1>1, <1>2 DEF CallBounded, Tame
  <1>11. \A r \in own'[c] : Tame(r)'
    BY <1>2, <1>4, <1>7 DEF Tame
  <1>12. CallBounded(c)'
    BY <1>1, <1>2, <1>7, <1>8, <1>9, <1>10, <1>11 DEF CallBounded
  <1>13. \A d \in Calls \ {c} : at'[d] = at[d] /\ own'[d] = own[d]
    BY <1>1, <1>2 DEF TypeOK
  <1>14. QED
    BY <1>2, <1>5, <1>6, <1>12, <1>13, QuietStep

\* What tame roles allow their holder to grant is within Powers.
LEMMA TameGrantsPowers ==
  ASSUME TypeOK, NEW held \in SUBSET RoleIds, \A r \in held : Tame(r),
         NEW p \in Permissions, Granting(EffectiveOf(held), p)
  PROVE  p \in Powers
  <1>1. EffectiveOf(held) \subseteq Powers
    BY DEF EffectiveOf, EffectiveIn, Tame
  <1>2. Grantors[p] \cap Powers # {}
    BY <1>1 DEF Granting
  <1>3. QED
    BY <1>2, GrantorsAssumption

LEMMA DecideStep ==
  ASSUME IInv, NEW c \in Calls, Decide(c)
  PROVE  IInv'
  <1>1. TypeOK /\ StepsFit /\ CallBounded(c)
    BY DEF IInv
  <1>2. at[c] = "decide" /\ role' = role /\ holds' = holds /\ userVersion' = userVersion
    BY DEF Decide
  <1>3. CASE Ungrantable(c) = {}
    <2>1. /\ request' = request /\ seen' = seen /\ grant' = grant /\ own' = own
          /\ snapshot' = snapshot /\ at' = [at EXCEPT ![c] = "save"]
      BY <1>3 DEF Decide, inputs
    <2>2. grant[c] \subseteq Powers
      <3>1. own[c] \in SUBSET RoleIds /\ (\A r \in own[c] : Tame(r)) /\ grant[c] \subseteq Permissions
        BY <1>1 DEF TypeOK, CallBounded
      <3>2. \A p \in grant[c] : Granting(EffectiveOf(own[c]), p)
        BY <1>3 DEF Ungrantable
      <3>3. QED
        BY <1>1, <3>1, <3>2, TameGrantsPowers
    <2>3. TypeOK'
      BY <1>1, <1>2, <2>1 DEF TypeOK, Lives, Steps
    <2>4. StepsFit'
      BY <1>1, <1>2, <2>1 DEF TypeOK, StepsFit
    <2>5. at'[c] = "save"
      BY <1>1, <2>1 DEF TypeOK
    <2>6. EditBounded(c)'
      BY <1>1, <1>2, <2>1 DEF CallBounded, EditBounded, Foreign, Lives
    <2>7. CallBounded(c)'
      <3>1. \A r \in own'[c] : Tame(r)'
        BY <1>1, <1>2, <2>1 DEF CallBounded, Tame
      <3>2. \A r \in Given(request'[c]) : Foreign(r)' \subseteq grant'[c]
        BY <1>1, <1>2, <2>1 DEF CallBounded, Foreign
      <3>3. request'[c].op = "assign" => \A r \in request'[c].kept : Tame(r)'
        BY <1>1, <1>2, <2>1 DEF CallBounded, Tame
      <3>4. QED
        BY <1>1, <2>1, <2>2, <2>5, <2>6, <3>1, <3>2, <3>3 DEF CallBounded
    <2>8. \A d \in Calls \ {c} : at'[d] = at[d]
      BY <1>1, <2>1 DEF TypeOK
    <2>9. QED
      BY <1>2, <2>1, <2>3, <2>4, <2>7, <2>8, QuietStep
  <1>4. CASE Ungrantable(c) # {}
    <2>1. Leave(c)
      BY <1>4 DEF Decide
    <2>2. Bookkeeping' /\ StepsFit'
      BY <1>1, <2>1, LeaveIsTyped
    <2>3. TypeOK'
      BY <1>1, <1>2, <2>2 DEF TypeOK, Bookkeeping, Lives
    <2>4. \A r \in RoleIds : Evolves(r)
      BY <1>1, <1>2, UnchangedEvolves
    <2>5. HeldTame'
      BY <1>2, <2>4, HoldersStayTame
    <2>6. \A d \in Calls : CallBounded(d)'
      BY <2>1, <2>4, LeavingKeepsBounds
    <2>7. QED
      BY <2>2, <2>3, <2>5, <2>6 DEF IInv
  <1>5. QED
    BY <1>3, <1>4

----------------------------------------------------------------------------
LEMMA SaveEditStep ==
  ASSUME IInv, NEW c \in Calls, SaveEdit(c)
  PROVE  IInv'
  <1>1. TypeOK /\ StepsFit
    BY DEF IInv
  <1>2. Leave(c) /\ holds' = holds /\ userVersion' = userVersion /\ request[c].op = "edit"
    BY DEF SaveEdit
  <1>3. \A r \in RoleIds : Evolves(r)
    BY SaveEditEvolves
  <1>4. Bookkeeping' /\ StepsFit'
    BY <1>1, <1>2, LeaveIsTyped
  <1>5. /\ role' \in [RoleIds -> RoleDoc]
        /\ \A r \in RoleIds : ~Lives(r)' => role'[r].permissions = {}
    <2>1. CASE role' = role
      BY <1>1, <2>1 DEF TypeOK, Lives
    <2>2. CASE role' # role
      <3>1. role' = [role EXCEPT ![request[c].role] = Saved(c)] /\ Lives(request[c].role)
        BY <2>2 DEF SaveEdit, Saved
      <3>2. Saved(c) \in RoleDoc /\ Saved(c).status \in Statuses
        BY <1>1, <1>2, <3>1, SavedIsADocument DEF Lives
      <3>3. QED
        BY <1>1, <3>1, <3>2 DEF TypeOK, Lives
    <2>3. QED
      BY <2>1, <2>2
  <1>6. TypeOK'
    BY <1>1, <1>2, <1>4, <1>5 DEF TypeOK, Bookkeeping
  <1>7. HeldTame'
    BY <1>2, <1>3, HoldersStayTame
  <1>8. \A d \in Calls : CallBounded(d)'
    BY <1>2, <1>3, LeavingKeepsBounds
  <1>9. QED
    BY <1>4, <1>6, <1>7, <1>8 DEF IInv

LEMMA SaveCreateStep ==
  ASSUME IInv, NEW c \in Calls, NEW n \in RoleIds, SaveCreate(c, n)
  PROVE  IInv'
  <1> DEFINE doc == [status |-> request[c].status, version |-> 0,
                     permissions |-> request[c].permissions]
  <1>1. TypeOK /\ StepsFit
    BY DEF IInv
  <1>2. /\ Leave(c) /\ holds' = holds /\ userVersion' = userVersion
        /\ request[c].op = "create" /\ role' = [role EXCEPT ![n] = doc]
    BY DEF SaveCreate
  <1>3. \A r \in RoleIds : Evolves(r)
    BY SaveCreateEvolves
  <1>4. Bookkeeping' /\ StepsFit'
    BY <1>1, <1>2, LeaveIsTyped
  <1>5. request[c].permissions \in SUBSET Permissions /\ request[c].status \in Statuses
    BY <1>1, <1>2 DEF TypeOK, Requests, EditRequest, CreateRequest, AssignRequest,
                      ReassignRequest, RemoveRequest, NoRequest
  <1>6. doc \in RoleDoc /\ doc.status \in Statuses
    BY <1>5 DEF RoleDoc, Statuses
  <1> HIDE DEF doc
  <1>7. TypeOK'
    BY <1>1, <1>2, <1>4, <1>6 DEF TypeOK, Bookkeeping, Lives
  <1>8. HeldTame'
    BY <1>2, <1>3, HoldersStayTame
  <1>9. \A d \in Calls : CallBounded(d)'
    BY <1>2, <1>3, LeavingKeepsBounds
  <1>10. QED
    BY <1>4, <1>7, <1>8, <1>9 DEF IInv

LEMMA DeleteRoleStep ==
  ASSUME IInv, NEW c \in Calls, DeleteRole(c)
  PROVE  IInv'
  <1>1. TypeOK /\ StepsFit
    BY DEF IInv
  <1>2. /\ Leave(c) /\ holds' = holds /\ userVersion' = userVersion
        /\ request[c].op = "remove" /\ role' = WithoutRole(request[c].role)
    BY DEF DeleteRole
  <1>3. request[c].role \in RoleIds
    BY <1>1, <1>2 DEF TypeOK, Requests, EditRequest, CreateRequest, AssignRequest,
                      ReassignRequest, RemoveRequest, NoRequest
  <1>4. \A r \in RoleIds : Evolves(r)
    BY <1>1, <1>2, <1>3, DeletedEvolves
  <1>5. Bookkeeping' /\ StepsFit'
    BY <1>1, <1>2, LeaveIsTyped
  <1>6. TypeOK'
    BY <1>1, <1>2, <1>3, <1>5, WithoutRoleIsTyped DEF TypeOK, Bookkeeping, Lives
  <1>7. HeldTame'
    BY <1>2, <1>4, HoldersStayTame
  <1>8. \A d \in Calls : CallBounded(d)'
    BY <1>2, <1>4, LeavingKeepsBounds
  <1>9. QED
    BY <1>5, <1>6, <1>7, <1>8 DEF IInv

LEMMA SaveAssignStep ==
  ASSUME IInv, NEW c \in Calls, SaveAssign(c)
  PROVE  IInv'
  <1> DEFINE req == request[c]
  <1>1. TypeOK /\ StepsFit /\ HeldTame /\ CallBounded(c)
    BY DEF IInv
  <1>2. Leave(c) /\ role' = role /\ at[c] = "save" /\ req.op = "assign"
    BY DEF SaveAssign
  <1>3. req \in AssignRequest
    BY <1>1, <1>2 DEF TypeOK, Requests, EditRequest, CreateRequest, AssignRequest,
                      ReassignRequest, RemoveRequest, NoRequest
  <1>4. \A r \in RoleIds : Evolves(r)
    BY <1>1, <1>2, UnchangedEvolves
  <1>5. Bookkeeping' /\ StepsFit'
    BY <1>1, <1>2, LeaveIsTyped
  <1>6. \A d \in Calls : CallBounded(d)'
    BY <1>2, <1>4, LeavingKeepsBounds
  <1>7. \A r \in req.kept \cup req.added : Tame(r)
    <2>1. \A r \in req.added : role[r].permissions \subseteq Powers
      BY <1>1, <1>2 DEF CallBounded, Given, Foreign
    <2>2. QED
      BY <1>1, <1>2, <2>1 DEF CallBounded, Tame
  <1>8. CASE holds' = holds /\ userVersion' = userVersion
    <2>1. TypeOK'
      BY <1>1, <1>2, <1>5, <1>8 DEF TypeOK, Bookkeeping, Lives
    <2>2. HeldTame'
      BY <1>4, <1>8, HoldersStayTame
    <2>3. QED
      BY <1>5, <1>6, <2>1, <2>2 DEF IInv
  <1>9. CASE /\ holds' = [holds EXCEPT ![req.user] = req.kept \cup req.added]
             /\ userVersion' = [userVersion EXCEPT ![req.user] = @ + 1]
    <2>1. req.kept \cup req.added \in SUBSET RoleIds /\ req.user \in Users
      BY <1>3 DEF AssignRequest
    <2>2. TypeOK'
      BY <1>1, <1>2, <1>5, <1>9, <2>1 DEF TypeOK, Bookkeeping, Lives
    <2>3. HeldTame'
      BY <1>1, <1>2, <1>7, <1>9, <2>1 DEF TypeOK, HeldTame, Tame
    <2>4. QED
      BY <1>5, <1>6, <2>2, <2>3 DEF IInv
  <1>10. QED
    BY <1>8, <1>9 DEF SaveAssign

LEMMA OpenTransactionStep ==
  ASSUME IInv, NEW c \in Calls, OpenTransaction(c)
  PROVE  IInv'
  <1>1. TypeOK /\ StepsFit /\ CallBounded(c)
    BY DEF IInv
  <1>2. /\ at[c] = "save" /\ request[c].op = "reassign"
        /\ role' = role /\ holds' = holds /\ userVersion' = userVersion /\ request' = request
        /\ seen' = seen /\ grant' = grant /\ own' = own
        /\ snapshot' = [snapshot EXCEPT ![c] = holds]
        /\ at' = [at EXCEPT ![c] = "commit"]
    BY DEF OpenTransaction, inputs
  <1>3. TypeOK'
    BY <1>1, <1>2 DEF TypeOK, Lives, Steps
  <1>4. StepsFit'
    BY <1>1, <1>2 DEF TypeOK, StepsFit
  <1>5. at'[c] = "commit"
    BY <1>1, <1>2 DEF TypeOK
  <1>6. CallBounded(c)'
    BY <1>1, <1>2, <1>5 DEF CallBounded, EditBounded, Foreign, Tame
  <1>7. \A d \in Calls \ {c} : at'[d] = at[d]
    BY <1>1, <1>2 DEF TypeOK
  <1>8. QED
    BY <1>2, <1>3, <1>4, <1>6, <1>7, QuietStep

LEMMA RetryTransactionStep ==
  ASSUME IInv, NEW c \in Calls, RetryTransaction(c)
  PROVE  IInv'
  <1>1. TypeOK /\ StepsFit /\ CallBounded(c)
    BY DEF IInv
  <1>2. /\ at[c] = "commit"
        /\ role' = role /\ holds' = holds /\ userVersion' = userVersion /\ request' = request
        /\ seen' = seen /\ grant' = grant /\ own' = own
        /\ snapshot' = [snapshot EXCEPT ![c] = [u \in Users |-> {}]]
        /\ at' = [at EXCEPT ![c] = "save"]
    BY DEF RetryTransaction, inputs
  <1>3. request[c].op = "reassign"
    BY <1>1, <1>2 DEF StepsFit
  <1>4. TypeOK'
    BY <1>1, <1>2 DEF TypeOK, Lives, Steps
  <1>5. StepsFit'
    BY <1>1, <1>2, <1>3 DEF TypeOK, StepsFit
  <1>6. at'[c] = "save"
    BY <1>1, <1>2 DEF TypeOK
  <1>7. CallBounded(c)'
    BY <1>1, <1>2, <1>3, <1>6 DEF CallBounded, EditBounded, Foreign, Tame
  <1>8. \A d \in Calls \ {c} : at'[d] = at[d]
    BY <1>1, <1>2 DEF TypeOK
  <1>9. QED
    BY <1>2, <1>4, <1>5, <1>7, <1>8, QuietStep

\* A holder moved by a reassignment has his other roles and a checked target.
LEMMA ReplacedIsTame ==
  ASSUME IInv, NEW c \in Calls, at[c] = "commit", NEW u \in Users
  PROVE  Replaced(c, u) \in SUBSET RoleIds /\ \A r \in Replaced(c, u) : Tame(r)
  <1> DEFINE req  == request[c]
             body == req.body
             to   == IF u \in DOMAIN body.named THEN {body.named[u]}
                                                ELSE {body.fallback} \ {NoRole}
  <1>1. TypeOK /\ StepsFit /\ HeldTame /\ CallBounded(c)
    BY DEF IInv
  <1>2. req.op = "reassign"
    BY <1>1 DEF StepsFit
  <1>3. body \in Reassignment
    BY <1>1, <1>2 DEF TypeOK, Requests, EditRequest, CreateRequest, AssignRequest,
                      ReassignRequest, RemoveRequest, NoRequest
  <1>4. to \subseteq Targets(body)
    BY DEF Targets
  <1>5. Targets(body) \subseteq RoleIds
    BY <1>3 DEF Targets, Reassignment
  <1>6. \A r \in Targets(body) : Tame(r)
    <2>1. Given(req) = Targets(body)
      BY <1>2 DEF Given
    <2>2. \A r \in Targets(body) : role[r].permissions \subseteq Powers
      BY <1>1, <2>1 DEF CallBounded, Foreign
    <2>3. QED
      BY <2>2 DEF Tame
  <1>7. holds[u] \in SUBSET RoleIds /\ \A r \in holds[u] : Tame(r)
    BY <1>1 DEF TypeOK, HeldTame
  <1>8. Replaced(c, u) \subseteq holds[u] \cup to
    BY DEF Replaced
  <1>9. QED
    BY <1>4, <1>5, <1>6, <1>7, <1>8

LEMMA EndTransactionStep ==
  ASSUME IInv, NEW c \in Calls, EndTransaction(c)
  PROVE  IInv'
  <1>1. TypeOK /\ StepsFit
    BY DEF IInv
  <1>2. Leave(c) /\ userVersion' = userVersion /\ at[c] = "commit"
    BY DEF EndTransaction
  <1>3. Bookkeeping' /\ StepsFit'
    BY <1>1, <1>2, LeaveIsTyped
  <1>4. CASE role' = role /\ holds' = holds
    <2>1. \A r \in RoleIds : Evolves(r)
      BY <1>1, <1>4, UnchangedEvolves
    <2>2. TypeOK'
      BY <1>1, <1>2, <1>3, <1>4 DEF TypeOK, Bookkeeping, Lives
    <2>3. HeldTame'
      BY <1>4, <2>1, HoldersStayTame
    <2>4. \A d \in Calls : CallBounded(d)'
      BY <1>2, <2>1, LeavingKeepsBounds
    <2>5. QED
      BY <1>3, <2>2, <2>3, <2>4 DEF IInv
  <1>5. CASE /\ holds' = [u \in Users |-> Replaced(c, u)]
             /\ role' = WithoutRole(request[c].role)
    <2>1. request[c].role \in RoleIds
      <3>1. request[c].op = "reassign"
        BY <1>1, <1>2 DEF StepsFit
      <3>2. QED
        BY <1>1, <3>1 DEF TypeOK, Requests, EditRequest, CreateRequest, AssignRequest,
                          ReassignRequest, RemoveRequest, NoRequest
    <2>2. \A r \in RoleIds : Evolves(r)
      BY <1>1, <1>5, <2>1, DeletedEvolves
    <2>3. \A u \in Users : Replaced(c, u) \in SUBSET RoleIds /\ \A r \in Replaced(c, u) : Tame(r)
      BY <1>2, ReplacedIsTame
    <2>4. holds' \in [Users -> SUBSET RoleIds]
      BY <1>5, <2>3
    <2>5. TypeOK'
      BY <1>1, <1>2, <1>3, <1>5, <2>1, <2>4, WithoutRoleIsTyped DEF TypeOK, Bookkeeping, Lives
    <2>6. HeldTame'
      <3>1. ASSUME NEW u \in Users, NEW r \in holds'[u]
            PROVE  Tame(r)'
        <4>1. r \in Replaced(c, u)
          BY <1>5, <3>1
        <4>2. r \in RoleIds /\ Tame(r)
          BY <2>3, <4>1
        <4>3. QED
          BY <2>2, <4>2 DEF Evolves
      <3>2. QED
        BY <3>1 DEF HeldTame
    <2>7. \A d \in Calls : CallBounded(d)'
      BY <1>2, <2>2, LeavingKeepsBounds
    <2>8. QED
      BY <1>3, <2>5, <2>6, <2>7 DEF IInv
  <1>6. QED
    BY <1>4, <1>5 DEF EndTransaction

----------------------------------------------------------------------------
LEMMA StartsTame == Init => IInv
  <1> SUFFICES ASSUME Init
               PROVE  IInv
    OBVIOUS
  <1>1. NoRequest \in Requests
    BY DEF Requests
  <1>2. role \in [RoleIds -> RoleDoc] /\ holds \in [Users -> SUBSET RoleIds]
    BY StartAssumption DEF Init
  <1>3. \A r \in RoleIds : ~Lives(r) => role[r].permissions = {}
    BY <1>2, StartAssumption DEF Init, Lives, RoleDoc
  <1>4. TypeOK
    BY <1>1, <1>2, <1>3 DEF Init, TypeOK, Steps
  <1>5. StepsFit
    BY DEF Init, StepsFit
  <1>6. HeldTame
    <2>1. \A u \in Users : EffectiveIn(role, holds[u]) \subseteq Powers
      BY StartAssumption DEF Init
    <2>2. QED
      BY <1>2, <2>1 DEF HeldTame, Tame, EffectiveIn
  <1>7. \A c \in Calls : CallBounded(c)
    <2>1. Given(NoRequest) = {}
      BY DEF Given, NoRequest
    <2>2. QED
      BY <2>1 DEF Init, CallBounded, EditBounded, NoRequest
  <1>8. QED
    BY <1>4, <1>5, <1>6, <1>7 DEF IInv

LEMMA Inductive == IInv /\ [Next]_vars => IInv'
  <1> SUFFICES ASSUME IInv, [Next]_vars
               PROVE  IInv'
    OBVIOUS
  <1>1. CASE UNCHANGED vars
    BY <1>1 DEF vars, inputs, IInv, TypeOK, StepsFit, HeldTame, Tame, CallBounded, EditBounded,
                Foreign, Lives
  <1>2. ASSUME NEW c \in Calls, Begin(c)
        PROVE  IInv'
    <2>1. \A r \in RoleIds : role[r].permissions \in SUBSET Permissions
      BY DEF IInv, TypeOK, RoleDoc
    <2>2. ASSUME NEW a \in Actors, NEW r \in RoleIds,
                 NEW permissions \in PermissionLists \cup {role[r].permissions},
                 NEW status \in Statuses, BeginEdit(c, a, r, permissions, status)
          PROVE  IInv'
      <3>1. permissions \in SUBSET Permissions
        BY <2>1, InputsAssumption
      <3>2. QED
        BY <2>2, <3>1, BeginEditStep
    <2>3. ASSUME NEW a \in Actors, NEW r \in RoleIds, NEW body \in Reassignments,
                 BeginReassign(c, a, r, body)
          PROVE  IInv'
      BY <2>3, BeginReassignStep, InputsAssumption
    <2>4. ASSUME NEW a \in Actors, NEW permissions \in PermissionLists, NEW status \in Statuses,
                 BeginCreate(c, a, permissions, status)
          PROVE  IInv'
      BY <2>4, BeginCreateStep, InputsAssumption
    <2>5. ASSUME NEW a \in Actors, NEW u \in Users, NEW list \in RoleLists,
                 BeginAssign(c, a, u, list)
          PROVE  IInv'
      BY <2>5, BeginAssignStep, InputsAssumption
    <2>6. ASSUME NEW r \in RoleIds, BeginRemove(c, r)
          PROVE  IInv'
      BY <2>6, BeginRemoveStep
    <2>7. QED
      BY <1>2, <2>2, <2>3, <2>4, <2>5, <2>6 DEF Begin
  <1>3. ASSUME NEW c \in Calls, Write(c)
        PROVE  IInv'
    BY <1>3, SaveEditStep, SaveCreateStep, SaveAssignStep, OpenTransactionStep,
       RetryTransactionStep, EndTransactionStep, DeleteRoleStep DEF Write
  <1>4. QED
    BY <1>1, <1>2, <1>3, ReadGrantsStep, ReadActorStep, DecideStep DEF Next

\* The collections and the calls under way keep their types, for any people,
\* roles and number of calls.
THEOREM RolesTypeCorrect == Spec => []TypeOK
  <1>1. IInv => TypeOK
    BY DEF IInv
  <1>2. QED
    BY <1>1, StartsTame, Inductive, PTL DEF Spec

\* However role edits, reactivations, assignments and reassignments overlap,
\* what people have stays within what they had at the start.
THEOREM NoEscalation == Spec => []NoNewPrivilege
  <1>1. IInv => NoNewPrivilege
    BY DEF IInv, HeldTame, NoNewPrivilege, EffectiveOf, EffectiveIn, Tame
  <1>2. QED
    BY <1>1, StartsTame, Inductive, PTL DEF Spec
=============================================================================
