------------------------------- MODULE Units -------------------------------
(***************************************************************************)
(* UnitsService (src/src/units): the scout units of a group, the people    *)
(* seated in them, and the two collections derived from the units --       *)
(* unit_memberships and users.unitId -- that every operation rewrites.     *)
(*                                                                         *)
(* An operation that runs inside inTransaction is one step: MongoDB aborts *)
(* and withTransaction retries a transaction whose written documents       *)
(* changed under it.  seedGroup is three steps, because its reads precede  *)
(* the transaction: the plan is made (SeedRead), the transaction opens     *)
(* (SeedBegin), and it commits or is given up (SeedCommit, SeedLost).      *)
(***************************************************************************)
EXTENDS Naturals, FiniteSets, Sequences

CONSTANTS
    Persons,         \* whom the users collection may come to hold
    Actors,          \* those whose roles carry the permissions of the units
    Unfiltered,      \* people of nivelAcceso super_admin, nacion or region
    Groups,          \* values of groupId
    BranchCount,     \* how many branches the manifest declares
    Reports,         \* what SiScout may say of a person, apart from the group
    FirstReport,     \* what it says of each when the person is inserted
    HomeGroup,       \* the group each person is inserted with
    Resynced,        \* people of whom a later synchronization may say otherwise
    Edited,          \* people whose groupId or titles the users panel may patch
    Unsteady,        \* people whom the users panel may (de)activate or delete
    Patched,         \* people whose unitId the users panel may patch
    TitleLists,      \* lists of titles of nivel rama the panel sends
    TypedNames,      \* names the users type; placeholders may be among them
    LeaderLists,     \* lists of people sent as "leaders"
    MaxNameAttempts, \* MAX_NAME_ATTEMPTS
    Requests,        \* requests that may be seeding at the same time
    MaxUnits         \* bound: how many unit ids a behaviour may use

Branches == 0 .. (BranchCount - 1)      \* in manifest order
NoBranch == BranchCount
UnitIds  == Nat \ {0}                   \* ObjectIds, in creation order
NoUnit   == 0

\* What SiScout says of a person, as users keeps it: the tipo; the branch the
\* cargo is a plain label of (LOBATO); the branch of the age; the branch the
\* cargo leads (JEFE DE MANADA); is it (SUB)JEFE DE GRUPO?
Report == [tipo : {"protagonista", "adulto"}, label : Branches \cup {NoBranch},
           aged : Branches \cup {NoBranch}, leads : Branches \cup {NoBranch},
           chief : BOOLEAN]

ASSUME BranchesAssumption == BranchCount \in Nat \ {0}
ASSUME ReportsAssumption ==
    /\ Reports \subseteq Report
    /\ FirstReport \in [Persons -> Reports]
    /\ TitleLists \subseteq Seq(Branches)
ASSUME GroupsAssumption ==
    /\ HomeGroup \in [Persons -> Groups]
    /\ Actors \subseteq Persons
ASSUME NamesAssumption ==
    /\ MaxNameAttempts \in Nat \ {0}
    /\ LeaderLists \subseteq SUBSET Persons
ASSUME BoundsAssumption == MaxUnits \in Nat

PlaceholderName(b, i) == <<b, i>>       \* "cambiar nombre unidad <b> <i>"

Names == {PlaceholderName(b, i) : b \in Branches, i \in 1 .. MaxNameAttempts + 1}
            \cup TypedNames

VARIABLES
    unit,      \* the units collection: a function on the ids that exist
    nextId,    \* the next ObjectId
    rows,      \* the unit_memberships collection
    unitOf,    \* users.unitId
    status,    \* whether a user document exists, and its estado
    group,     \* users.groupId
    says,      \* users.tipo, cargoSiscout and age: the latest Report
    declared,  \* the titles of nivel rama among users.cargos
    plan,      \* per request: the PlannedUnits read and not yet applied
    began      \* per request: nextId when its transaction opened, or 0

people == <<status, group, says, declared>>
vars   == <<unit, nextId, rows, unitOf, status, group, says, declared, plan, began>>

UnitDoc == [name : Names, branch : Branches, group : Groups, leader : Persons,
            leaders : SUBSET Persons, members : SUBSET Persons]

MembershipRow == [user : Persons, unit : UnitIds,
                  role : {"unit_leader", "assistant", "member"}]

----------------------------------------------------------------------------
(* People as the queries see them.                                         *)

Exists(x) == status[x] \in {"active", "inactive"}

\* find({groupId, estado: true})
Active(g) == {x \in Persons : status[x] = "active" /\ group[x] = g}

AdultsOf(g) == {a \in Active(g) : says[a].tipo = "adulto"}

\* branchOf: the label of the cargo, or else the age.
BranchOf(p) == IF says[p].label # NoBranch THEN says[p].label ELSE says[p].aged

\* Protagonists without a unit whose branch could be worked out.
Pending(g) == {p \in Active(g) : /\ says[p].tipo = "protagonista"
                                 /\ unitOf[p] = NoUnit
                                 /\ BranchOf(p) \in Branches}

\* Does some title of the adult, declared or from SiScout, lead the branch?
LeadsBranch(a, b) ==
    says[a].leads = b \/ \E i \in DOMAIN declared[a] : declared[a][i] = b

LeadersOfBranch(g, b) == {a \in AdultsOf(g) : LeadsBranch(a, b)}

\* The branch's own leaders come first; without any, any adult of the group
\* may be picked (the order among them is that of LeaderResolution).
CandidateLeaders(g, b) ==
    IF LeadersOfBranch(g, b) # {} THEN LeadersOfBranch(g, b)
                                  ELSE AdultsOf(g)

----------------------------------------------------------------------------
(* Who may act on a unit.                                                  *)

\* siscoutBranch: as a title, or else as a plain label.
SiscoutBranch(a) == IF says[a].leads # NoBranch THEN says[a].leads ELSE says[a].label

\* assignedBranch ?? siscoutBranch
ScopeBranch(a) == IF declared[a] # <<>> THEN declared[a][1] ELSE SiscoutBranch(a)

ScopeReaches(a, u) ==
    \/ a \in Unfiltered
    \/ /\ unit[u].group = group[a]
       /\ \/ ScopeBranch(a) = unit[u].branch
          \/ ScopeBranch(a) = NoBranch /\ says[a].chief

\* authorize: the unit exists and the actor's scope, or a membership row of
\* his own, reaches it.
Authorized(a, u) ==
    /\ u \in DOMAIN unit
    /\ Exists(a)
    /\ \/ ScopeReaches(a, u)
       \/ \E row \in rows : row.unit = u /\ row.user = a

LeadershipRequired(a) ==
    a \notin Unfiltered /\ ~says[a].chief /\ ScopeBranch(a) = NoBranch

----------------------------------------------------------------------------
(* The derived collections.                                                *)

\* Faulty variant of Projection: an assistant who also leads gets both rows.
ProjectionWithRepeats(u, doc) ==
    {[user |-> doc.leader, unit |-> u, role |-> "unit_leader"]}
      \cup {[user |-> x, unit |-> u, role |-> "assistant"] : x \in doc.leaders}
      \cup {[user |-> x, unit |-> u, role |-> "member"] : x \in doc.members}

\* projectMemberships: one row per person, the first role found wins.
Projection(u, doc) ==
    {[user |-> doc.leader, unit |-> u, role |-> "unit_leader"]}
      \cup {[user |-> x, unit |-> u, role |-> "assistant"] :
              x \in doc.leaders \ {doc.leader}}
      \cup {[user |-> x, unit |-> u, role |-> "member"] :
              x \in doc.members \ ({doc.leader} \cup doc.leaders)}

\* Faulty variant of SyncedRows: the old rows of the unit are not deleted.
SyncedRowsAppended(T, docs) ==
    rows \cup UNION {Projection(u, docs[u]) : u \in T \cap DOMAIN docs}

\* syncMembership on unit_memberships: the rows of each unit in T are
\* deleted, and those of the units that docs still holds are inserted anew.
SyncedRows(T, docs) ==
    {row \in rows : row.unit \notin T}
      \cup UNION {Projection(u, docs[u]) : u \in T \cap DOMAIN docs}

\* Faulty variant of SyncedPointers: the members are set before the unset.
SyncedPointersUnsetLast(ptr, T, docs) ==
    [p \in Persons |->
        IF Exists(p) /\ (ptr[p] \in T \/ \E u \in T \cap DOMAIN docs : p \in docs[u].members)
          THEN NoUnit ELSE ptr[p]]

\* syncMembership on users.unitId: whoever pointed to a unit in T is unset,
\* then the members of each such unit point to it.  Units synced by one call
\* are of different branches and taken in their order: the last one stays.
SyncedPointers(ptr, T, docs) ==
    LET Seats(p) == {u \in T \cap DOMAIN docs : p \in docs[u].members}
        Last(p)  == CHOOSE u \in Seats(p) : \A v \in Seats(p) : docs[v].branch <= docs[u].branch
    IN  [p \in Persons |->
           IF ~Exists(p) THEN ptr[p]
           ELSE IF Seats(p) # {} THEN Last(p)
           ELSE IF ptr[p] \in T THEN NoUnit
           ELSE ptr[p]]

NameTaken(g, n, others) ==
    \E u \in others : unit[u].group = g /\ unit[u].name = n

----------------------------------------------------------------------------
(* Seeding: seedGroup, planGroupSeed and applySeedPlan.                    *)

PlannedUnit(g, b, lead) ==
    [name    |-> PlaceholderName(b, 1),
     branch  |-> b,
     group   |-> g,
     leader  |-> lead,
     leaders |-> LeadersOfBranch(g, b) \ {lead},
     members |-> {p \in Pending(g) : BranchOf(p) = b}]

\* Bound: ids kept for the plans in flight, each of which may create one
\* unit per branch, so that a plan never stops for want of ids.
Reserved == BranchCount * Cardinality({r \in Requests : plan[r] # {}})

\* seedGroup up to its plan; nothing to plan is the 'skipped' outcome.
SeedRead(r, g) ==
    /\ plan[r] = {}
    /\ nextId + Reserved + BranchCount <= MaxUnits + 1
    /\ LET branches == {BranchOf(p) : p \in Pending(g)}
       IN  /\ branches # {}
           /\ \E lead \in [branches -> AdultsOf(g)] :
                /\ \A b \in branches : lead[b] \in CandidateLeaders(g, b)
                /\ plan' = [plan EXCEPT ![r] =
                              {PlannedUnit(g, b, lead[b]) : b \in branches}]
    /\ UNCHANGED <<unit, nextId, rows, unitOf, people, began>>

SeedBegin(r) ==
    /\ plan[r] # {}
    /\ began[r] = 0
    /\ began' = [began EXCEPT ![r] = nextId]
    /\ UNCHANGED <<unit, nextId, rows, unitOf, people, plan>>

BranchUnits(pl) ==
    {u \in DOMAIN unit : unit[u].group = pl.group /\ unit[u].branch = pl.branch}

\* The oldest unit of the branch with members, or else the oldest.
BranchHost(pl) ==
    LET units     == BranchUnits(pl)
        populated == {u \in units : unit[u].members # {}}
        preferred == IF populated # {} THEN populated ELSE units
    IN  CHOOSE u \in preferred : \A v \in preferred : u <= v

\* Faulty variant of Incoming: the filter is inverted.
IncomingInverted(pl) == unit[BranchHost(pl)].members \ pl.members

\* The planned people the host does not list yet.
Incoming(pl) == pl.members \ unit[BranchHost(pl)].members

SeedCommit(r) ==
    LET fresh    == {pl \in plan[r] : BranchUnits(pl) = {}}
        joining  == {pl \in plan[r] : BranchUnits(pl) # {} /\ Incoming(pl) # {}}
        NewId(pl) == nextId + pl.branch
        created  == {NewId(pl) : pl \in fresh}
        hosts    == {BranchHost(pl) : pl \in joining}
        docs     == [u \in DOMAIN unit \cup created |->
                       CASE u \in created ->
                              CHOOSE pl \in fresh : NewId(pl) = u
                         [] u \in hosts \ created ->
                              [unit[u] EXCEPT !.members = @ \cup
                                 UNION {Incoming(pl) : pl \in {q \in joining : BranchHost(q) = u}}]
                         [] OTHER -> unit[u]]
    IN  /\ began[r] # 0
        /\ began' = [began EXCEPT ![r] = 0]
        /\ plan' = [plan EXCEPT ![r] = {}]
        /\ \A pl \in fresh : ~NameTaken(pl.group, pl.name, DOMAIN unit)
        /\ unit' = docs
        /\ nextId' = IF fresh = {} THEN nextId ELSE nextId + BranchCount
        /\ rows' = SyncedRows(created \cup hosts, docs)
        /\ unitOf' = SyncedPointers(unitOf, created \cup hosts, docs)
        /\ UNCHANGED people

\* Duplicate {groupId, name}: the transaction saw no unit of the branch and
\* the name it gives the new one is taken, by a unit committed meanwhile or
\* by one of another branch.  Nothing of the plan is kept: 'already-seeded'.
SeedLost(r) ==
    /\ began[r] # 0
    /\ began' = [began EXCEPT ![r] = 0]
    /\ plan' = [plan EXCEPT ![r] = {}]
    /\ \E pl \in plan[r] :
         /\ \A u \in BranchUnits(pl) : u >= began[r]
         /\ NameTaken(pl.group, pl.name, DOMAIN unit)
    /\ UNCHANGED <<unit, nextId, rows, unitOf, people>>

----------------------------------------------------------------------------
(* The operations on one unit.                                             *)

\* Units whose documents change to docs[u], synced one after another: T1's
\* pointers are written before T2's.
Resync(docs, T1, T2) ==
    /\ unit' = docs
    /\ rows' = SyncedRows(T1 \cup T2, docs)
    /\ unitOf' = SyncedPointers(SyncedPointers(unitOf, T1, docs), T2, docs)
    /\ UNCHANGED <<people, plan, began>>

\* assertEligibleLeaders
Eligible(u, candidates) ==
    \A x \in candidates : x \in AdultsOf(unit[u].group)

Configure(a, u, name, leader, leaders) ==
    /\ Authorized(a, u)
    /\ Eligible(u, {leader} \cup leaders)
    /\ ~NameTaken(unit[u].group, name, DOMAIN unit \ {u})
    /\ Resync([unit EXCEPT ![u].name = name, ![u].leader = leader,
                           ![u].leaders = leaders \ {leader}], {u}, {})
    /\ UNCHANGED nextId

\* A patch carries the fields named in fields; for the others the arguments
\* are the values the unit has.
Update(a, u, fields, name, leader, leaders) ==
    LET kept  == IF {"leader", "leaders"} \subseteq fields THEN leaders \ {leader}
                                                          ELSE leaders
        named == (IF "leader" \in fields THEN {leader} ELSE {})
                   \cup (IF "leaders" \in fields THEN kept ELSE {})
    IN  /\ fields # {}
        /\ Authorized(a, u)
        /\ Eligible(u, named)
        /\ ~NameTaken(unit[u].group, name, DOMAIN unit \ {u})
        /\ Resync([unit EXCEPT ![u].name = name, ![u].leader = leader,
                               ![u].leaders = kept], {u}, {})
        /\ UNCHANGED nextId

\* setMembers when everybody stays: the unit is saved and synced as it was.
KeepMembers(a, u) ==
    /\ Authorized(a, u)
    /\ Resync(unit, {u}, {})
    /\ UNCHANGED nextId

\* Faulty variant of Compatible: the branch of the target is not compared.
CompatibleAcrossBranches(u, v) == v # u /\ unit[v].group = unit[u].group

\* receivingUnit
Compatible(u, v) ==
    v # u /\ unit[v].group = unit[u].group /\ unit[v].branch = unit[u].branch

\* setMembers with targetUnitId: those who leave u join v.
MoveMembers(a, u, staying, v) ==
    /\ Authorized(a, u)
    /\ staying \subseteq unit[u].members
    /\ staying # unit[u].members
    /\ Authorized(a, v)
    /\ Compatible(u, v)
    /\ Resync([unit EXCEPT ![u].members = staying,
                           ![v].members = @ \cup (unit[u].members \ staying)],
              {u}, {v})
    /\ UNCHANGED nextId

\* Faulty variant of FreeSuffixes: one attempt too many.
FreeSuffixesOneMore(g, b) ==
    {i \in 2 .. MaxNameAttempts + 2 : ~NameTaken(g, PlaceholderName(b, i), DOMAIN unit)}

\* freeName: the first free suffix from 2 on, if one is left.
FreeSuffixes(g, b) ==
    {i \in 2 .. MaxNameAttempts + 1 : ~NameTaken(g, PlaceholderName(b, i), DOMAIN unit)}

\* setMembers without a target: those who leave u found a clone of it.
SplitMembers(a, u, staying) ==
    LET free == FreeSuffixes(unit[u].group, unit[u].branch)
    IN  /\ Authorized(a, u)
        /\ staying \subseteq unit[u].members
        /\ staying # unit[u].members
        /\ free # {}
        /\ nextId + Reserved <= MaxUnits
        /\ LET suffix == CHOOSE i \in free : \A j \in free : i <= j
               clone  == [unit[u] EXCEPT
                            !.name = PlaceholderName(unit[u].branch, suffix),
                            !.leaders = {},
                            !.members = unit[u].members \ staying]
               docs   == [v \in DOMAIN unit \cup {nextId} |->
                            IF v = nextId THEN clone
                            ELSE IF v = u THEN [unit[u] EXCEPT !.members = staying]
                            ELSE unit[v]]
           IN  Resync(docs, {u}, {nextId})
        /\ nextId' = nextId + 1

\* Faulty variant of Remove: a unit with members may go.
RemoveSeated(a, u) ==
    /\ Authorized(a, u)
    /\ Resync([v \in DOMAIN unit \ {u} |-> unit[v]], {u}, {})
    /\ UNCHANGED nextId

\* remove: the projection is detached and the unit deleted.
Remove(a, u) ==
    /\ Authorized(a, u)
    /\ unit[u].members = {}
    /\ Resync([v \in DOMAIN unit \ {u} |-> unit[v]], {u}, {})
    /\ UNCHANGED nextId

\* declareLeadership; the listing it ends with is a SeedRead of the group.
DeclareLeadership(a, b) ==
    /\ Exists(a)
    /\ LeadershipRequired(a)
    /\ declared[a] = <<>>
    /\ declared' = [declared EXCEPT ![a] = <<b>>]
    /\ UNCHANGED <<unit, nextId, rows, unitOf, status, group, says, plan, began>>

----------------------------------------------------------------------------
(* What other components do to the people.                                 *)

\* The sync, or the users panel, inserts a person: active, without a unit.
Arrive(x) ==
    /\ status[x] = "absent"
    /\ status' = [status EXCEPT ![x] = "active"]
    /\ UNCHANGED <<unit, nextId, rows, unitOf, group, says, declared, plan, began>>

\* PATCH /users/:id {estado}
SetEstado(x) ==
    /\ x \in Unsteady
    /\ Exists(x)
    /\ status' = [status EXCEPT ![x] = IF @ = "active" THEN "inactive" ELSE "active"]
    /\ UNCHANGED <<unit, nextId, rows, unitOf, group, says, declared, plan, began>>

\* DELETE /users/:id deletes the document and nothing that refers to it.
RemoveUser(x) ==
    /\ x \in Unsteady
    /\ Exists(x)
    /\ status' = [status EXCEPT ![x] = "removed"]
    /\ unitOf' = [unitOf EXCEPT ![x] = NoUnit]
    /\ UNCHANGED <<unit, nextId, rows, group, says, declared, plan, began>>

\* PATCH /users/:id {unitId}: the pointer alone, past syncMembership.
PatchUnitId(x, u) ==
    /\ x \in Patched
    /\ Exists(x)
    /\ unitOf' = [unitOf EXCEPT ![x] = u]
    /\ UNCHANGED <<unit, nextId, rows, people, plan, began>>

\* PATCH /users/:id {groupId, cargos}: the person alone, and no unit.
PatchProfile(x, g, titles) ==
    /\ x \in Edited
    /\ Exists(x)
    /\ group' = [group EXCEPT ![x] = g]
    /\ declared' = [declared EXCEPT ![x] = titles]
    /\ UNCHANGED <<unit, nextId, rows, unitOf, status, says, plan, began>>

\* A synchronization sets the group, the tipo, the cargo (cleared when SiScout
\* has none) and the age of whom it finds, seated or not, and no unit.
Synchronize(x, g, report) ==
    /\ x \in Resynced
    /\ Exists(x)
    /\ group' = [group EXCEPT ![x] = g]
    /\ says' = [says EXCEPT ![x] = report]
    /\ UNCHANGED <<unit, nextId, rows, unitOf, status, declared, plan, began>>

----------------------------------------------------------------------------
Init ==
    /\ unit = [u \in {} |-> u]
    /\ nextId = 1
    /\ rows = {}
    /\ unitOf = [p \in Persons |-> NoUnit]
    /\ status \in [Persons -> {"absent", "active"}]
    /\ group = HomeGroup
    /\ says = FirstReport
    /\ declared = [x \in Persons |-> <<>>]
    /\ plan = [r \in Requests |-> {}]
    /\ began = [r \in Requests |-> 0]

SeedStep(r) ==
    \/ \E g \in Groups : SeedRead(r, g)
    \/ SeedBegin(r)
    \/ SeedCommit(r)
    \/ SeedLost(r)

\* A field the patch does not carry is quantified over its present value.
UnitStep(a, u) ==
    \/ \E name \in TypedNames, leader \in Persons, leaders \in LeaderLists :
         Configure(a, u, name, leader, leaders)
    \/ \E fields \in SUBSET {"name", "leader", "leaders"} :
         \E name    \in IF "name" \in fields THEN TypedNames ELSE {unit[u].name},
            leader  \in IF "leader" \in fields THEN Persons ELSE {unit[u].leader},
            leaders \in IF "leaders" \in fields THEN LeaderLists ELSE {unit[u].leaders} :
              Update(a, u, fields, name, leader, leaders)
    \/ KeepMembers(a, u)
    \/ \E staying \in SUBSET unit[u].members :
         \/ SplitMembers(a, u, staying)
         \/ \E v \in DOMAIN unit : MoveMembers(a, u, staying, v)
    \/ Remove(a, u)

PeopleStep(x) ==
    \/ Arrive(x)
    \/ SetEstado(x)
    \/ RemoveUser(x)
    \/ \E u \in DOMAIN unit : PatchUnitId(x, u)
    \/ \E g \in Groups, titles \in TitleLists \cup {declared[x]} : PatchProfile(x, g, titles)
    \/ \E g \in Groups, report \in Reports : Synchronize(x, g, report)

Next ==
    \/ \E r \in Requests : SeedStep(r)
    \/ \E a \in Actors, u \in DOMAIN unit : UnitStep(a, u)
    \/ \E a \in Actors, b \in Branches : DeclareLeadership(a, b)
    \/ \E x \in Persons : PeopleStep(x)

\* A request that has planned its seeding runs on to the end: the code has no
\* wait of its own there.
Fairness ==
    \A r \in Requests : WF_vars(SeedBegin(r) \/ SeedCommit(r) \/ SeedLost(r))

Spec == Init /\ [][Next]_vars /\ Fairness

----------------------------------------------------------------------------
(* Properties.                                                             *)

\* The variables hold what the schemas allow.  Of a leader or a member that is
\* a person, and no more: the sync may turn an adult into a protagonist, or a
\* protagonist into an adult, who is named in a unit.
TypeOK ==
    /\ DOMAIN unit \subseteq UnitIds
    /\ unit \in [DOMAIN unit -> UnitDoc]
    /\ nextId \in UnitIds
    /\ rows \subseteq MembershipRow
    /\ unitOf \in [Persons -> UnitIds \cup {NoUnit}]
    /\ status \in [Persons -> {"absent", "active", "inactive", "removed"}]
    /\ group \in [Persons -> Groups]
    /\ says \in [Persons -> Report]
    /\ declared \in [Persons -> Seq(Branches)]
    /\ plan \in [Requests -> SUBSET UnitDoc]
    /\ began \in [Requests -> Nat]

\* Criterion 7 of the units design: after any operation unit_memberships holds
\* exactly the rows of the leader, the assistants and the members of each
\* unit, so that rebuilding it would change nothing.
MembershipMirrorsUnits ==
    rows = UNION {Projection(u, unit[u]) : u \in DOMAIN unit}

\* The unique index {userId, unitId}: a person holds one role in a unit, however
\* often the unit names him; two rows would make every later sync fail.
OneRowPerPersonAndUnit ==
    \A m, n \in rows : m.user = n.user /\ m.unit = n.unit => m = n

ListedIn(u, p) == u \in DOMAIN unit /\ p \in unit[u].members

\* Every person's users.unitId points to the one unit that lists the person
\* as a member, and to none if no unit does: the two directions of the
\* relation that syncMembership keeps never part.  (While one listing at a time
\* seeds: a second one may seat a person whom a stale plan still names.)
PointersMirrorMembers ==
    \A p \in Persons : Exists(p) =>
        /\ \A u \in DOMAIN unit : p \in unit[u].members <=> unitOf[p] = u
        /\ unitOf[p] \in DOMAIN unit \cup {NoUnit}

\* However many listings seed at once, from plans however stale: whoever sits
\* somewhere has a unitId, and it names one of the units that list him; so that
\* no later listing takes a seated person for one without a unit, and nobody
\* points to a unit he has left or that was deleted.
PointersNameASeat ==
    \A p \in Persons \ Patched : Exists(p) =>
        \/ ListedIn(unitOf[p], p)
        \/ unitOf[p] = NoUnit /\ ~\E u \in DOMAIN unit : ListedIn(u, p)

\* What the module promises its readers: see Roster.
Places(p) == {[group |-> unit[u].group, branch |-> unit[u].branch] :
                u \in {v \in DOMAIN unit : ListedIn(v, p)}}

\* The seats the person's data may call for: those of nobody who is rewritten
\* are of the group and the branch the person came with.
FirstBranch(p) ==
    IF FirstReport[p].label # NoBranch THEN FirstReport[p].label ELSE FirstReport[p].aged

SeatingsOf(p) ==
    {[group |-> g, branch |-> b] :
       g \in IF p \in Resynced \cup Edited THEN Groups ELSE {HomeGroup[p]},
       b \in IF p \in Resynced THEN Branches ELSE {FirstBranch(p)}}

Roster == INSTANCE Roster WITH
    places   <- [p \in Persons |-> Places(p)],
    Seatings <- [p \in Persons |-> SeatingsOf(p)]

\* Refinement: once seated, a person stays in units of one group and branch
\* through every split, move, removal and seeding, and whatever the sync and
\* the panel make of the person meanwhile.  (One listing at a time, as above.)
RosterSpec == Roster!Spec

\* People nobody rewrites, whose group and branch no plan can have wrong.
Steady == Persons \ (Resynced \cup Edited)

SteadyRoster == INSTANCE Roster WITH
    Persons  <- Steady,
    places   <- [p \in Steady |-> Places(p)],
    Seatings <- [p \in Steady |-> SeatingsOf(p)]

\* Refinement, for any number of listings: whoever is not rewritten is never in
\* a unit of another group or branch than his own, and never without a unit of
\* theirs once seated, although a stale plan may seat him in two of them.
SteadyRosterSpec == SteadyRoster!Spec

\* The name of a planned unit belongs to a unit of another branch, or to one
\* committed after the plan's transaction opened: the duplicate undoes it.
Undone(r) ==
    \E pl \in plan[r], u \in DOMAIN unit :
        /\ unit[u].group = pl.group
        /\ unit[u].name = pl.name
        /\ unit[u].branch # pl.branch \/ (began[r] # 0 /\ u >= began[r])

Planned(r) == UNION {pl.members : pl \in plan[r]}

\* Whomever a listing planned to seat has a unit when it is through with the
\* plan, unless the person was deleted or the listing lost a placeholder name:
\* to a unit of another branch that squats on it, or to another listing, which
\* need not have planned for the same people, although seedGroup takes that for
\* granted ("el ganador ya sembró lo mismo").
SeatedUnlessUndone ==
    [][\A r \in Requests : \A p \in Planned(r) \ (Planned(r)' \cup Patched) :
          unitOf'[p] # NoUnit \/ ~Exists(p) \/ Undone(r)]_vars

\* ... and every listing gets through with its plan: no name, and no unit of the
\* other listing, stops it for good.
PlannedGetSeated ==
    SeatedUnlessUndone /\ \A r \in Requests : Planned(r) # {} ~> Planned(r) = {}
=============================================================================
