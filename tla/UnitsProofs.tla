---------------------------- MODULE UnitsProofs ----------------------------
(***************************************************************************)
(* What holds of Units for any number of people, groups, branches and      *)
(* requests: the types; that unit_memberships mirrors the units; that a    *)
(* pointer names a unit that lists its person; that a seeding seats whom   *)
(* it planned; and that Units implements Roster, for the people nobody     *)
(* rewrites.  While one request at a time seeds and nobody patches the     *)
(* pointers, they mirror the members and Roster is implemented for all.    *)
(*                                                                         *)
(* Every operation on a unit comes to the same (Reseats): it syncs the     *)
(* units it rewrites and lists the same people as before, each in the same *)
(* group and branch.  Only SeedCommit seats people.  However many plans    *)
(* are in flight, it takes nobody out of a unit (PInv) and seats nobody    *)
(* where his data never allowed it (HInv).  Of the only plan in flight,    *)
(* whom it means to seat is still in no unit (PlansAreOpen in UInv); with  *)
(* a second request that could seat him first.                             *)
(***************************************************************************)
EXTENDS Units, TLAPS, WellFoundedInduction

\* A set of naturals that is not empty has a smallest element.
LEMMA SmallestExists ==
    ASSUME NEW S \in SUBSET Nat, S # {}
    PROVE  \E i \in S : \A j \in S : i <= j
<1>1. PICK x \in S : \A y \in S : ~(<<y, x>> \in OpToRel(<, Nat))
  BY WFMin, NatLessThanWellFounded
<1>2. ASSUME NEW y \in S
      PROVE  x <= y
  <2>1. x \in Nat /\ y \in Nat
    OBVIOUS
  <2>2. ~(y < x)
    BY <1>1, <2>1 DEF OpToRel
  <2>3. QED
    BY <2>1, <2>2
<1>3. QED
  BY <1>2

\* Among units of the schema that are not none, one is of the last branch.
LEMMA LastSeat ==
    ASSUME NEW docs, docs \in [DOMAIN docs -> UnitDoc],
           NEW S \in SUBSET DOMAIN docs, S # {}
    PROVE  \E u \in S : \A v \in S : docs[v].branch <= docs[u].branch
<1> DEFINE After == {BranchCount - docs[v].branch : v \in S}
<1>1. \A v \in S : docs[v].branch \in 0 .. (BranchCount - 1)
  BY DEF UnitDoc, Branches
<1>2. After \in SUBSET Nat /\ After # {}
  BY <1>1, BranchesAssumption
<1> HIDE DEF After
<1>3. PICK least \in After : \A i \in After : least <= i
  BY <1>2, SmallestExists
<1>4. PICK u \in S : least = BranchCount - docs[u].branch
  BY DEF After
<1>5. ASSUME NEW v \in S PROVE docs[v].branch <= docs[u].branch
  <2>1. BranchCount - docs[u].branch <= BranchCount - docs[v].branch
    BY <1>3, <1>4 DEF After
  <2>2. docs[u].branch \in Int /\ docs[v].branch \in Int /\ BranchCount \in Int
    BY <1>1, BranchesAssumption
  <2>3. QED
    BY <2>1, <2>2
<1>6. QED
  BY <1>5

\* Where a synced person points: to a unit that lists him, if one of those
\* synced does.
LEMMA SyncedPointer ==
    ASSUME NEW ptr, NEW T, NEW docs, docs \in [DOMAIN docs -> UnitDoc],
           NEW p \in Persons, Exists(p)
    PROVE  LET Seats == {u \in T \cap DOMAIN docs : p \in docs[u].members}
               new   == SyncedPointers(ptr, T, docs)[p]
           IN  /\ Seats # {} => new \in Seats
               /\ Seats = {} => new = IF ptr[p] \in T THEN NoUnit ELSE ptr[p]
<1> DEFINE Seats == {u \in T \cap DOMAIN docs : p \in docs[u].members}
           Last == CHOOSE u \in Seats : \A v \in Seats : docs[v].branch <= docs[u].branch
           new == SyncedPointers(ptr, T, docs)[p]
<1>1. new = IF Seats # {} THEN Last ELSE IF ptr[p] \in T THEN NoUnit ELSE ptr[p]
  BY DEF SyncedPointers
<1>2. ASSUME Seats # {} PROVE Last \in Seats
  <2>1. Seats \in SUBSET DOMAIN docs
    OBVIOUS
  <2> HIDE DEF Seats
  <2>2. \E u \in Seats : \A v \in Seats : docs[v].branch <= docs[u].branch
    BY <1>2, <2>1, LastSeat
  <2>3. QED
    BY <2>2
<1> HIDE DEF Last, new
<1>3. QED
  BY <1>1, <1>2 DEF new

\* projectMemberships only yields rows of the schema.
LEMMA ProjectionType ==
    ASSUME NEW u \in UnitIds, NEW doc \in UnitDoc
    PROVE  Projection(u, doc) \subseteq MembershipRow
BY DEF Projection, UnitDoc, MembershipRow

\* Every row of a projection carries the id of its unit.
LEMMA ProjectionUnit ==
    ASSUME NEW u, NEW doc, NEW row \in Projection(u, doc)
    PROVE  row.unit = u
BY DEF Projection

\* syncMembership keeps the collection well typed, whatever units it syncs.
LEMMA SyncedRowsType ==
    ASSUME rows \subseteq MembershipRow, NEW T, NEW docs,
           DOMAIN docs \subseteq UnitIds, docs \in [DOMAIN docs -> UnitDoc]
    PROVE  SyncedRows(T, docs) \subseteq MembershipRow
<1>1. \A u \in T \cap DOMAIN docs : Projection(u, docs[u]) \subseteq MembershipRow
  BY ProjectionType
<1>2. QED
  BY <1>1 DEF SyncedRows

\* It never points a person outside the ids of units.
LEMMA SyncedPointersType ==
    ASSUME NEW ptr \in [Persons -> UnitIds \cup {NoUnit}], NEW T, NEW docs,
           DOMAIN docs \subseteq UnitIds, docs \in [DOMAIN docs -> UnitDoc]
    PROVE  SyncedPointers(ptr, T, docs) \in [Persons -> UnitIds \cup {NoUnit}]
<1> DEFINE new == SyncedPointers(ptr, T, docs)
<1>1. ASSUME NEW p \in Persons PROVE new[p] \in UnitIds \cup {NoUnit}
  <2>1. CASE Exists(p)
    <3> DEFINE Seats == {u \in T \cap DOMAIN docs : p \in docs[u].members}
    <3>1. /\ Seats # {} => new[p] \in Seats
          /\ Seats = {} => new[p] = IF ptr[p] \in T THEN NoUnit ELSE ptr[p]
      BY <2>1, SyncedPointer
    <3> HIDE DEF new
    <3>2. QED
      BY <3>1
  <2>2. CASE ~Exists(p)
    BY <2>2 DEF SyncedPointers
  <2>3. QED
    BY <2>1, <2>2
<1>2. new = [p \in Persons |-> new[p]]
  BY DEF SyncedPointers
<1> HIDE DEF new
<1>3. new \in [Persons -> UnitIds \cup {NoUnit}]
  BY <1>1, <1>2
<1>4. QED
  BY <1>3 DEF new

\* The step at the heart of the mirror: if the rows mirrored the old units,
\* the units outside T did not change, and every id of the old and the new
\* collection outside T is in both, then the synced rows mirror the new units.
LEMMA SyncMirrors ==
    ASSUME MembershipMirrorsUnits, NEW T, NEW docs,
           DOMAIN unit \ T = DOMAIN docs \ T,
           \A u \in DOMAIN unit \ T : docs[u] = unit[u]
    PROVE  SyncedRows(T, docs) = UNION {Projection(u, docs[u]) : u \in DOMAIN docs}
<1> DEFINE Mirror == UNION {Projection(u, docs[u]) : u \in DOMAIN docs}
<1>1. ASSUME NEW row \in SyncedRows(T, docs)
      PROVE  row \in Mirror
  <2>1. CASE row \in rows /\ row.unit \notin T
    <3>1. PICK u \in DOMAIN unit : row \in Projection(u, unit[u])
      BY <2>1 DEF MembershipMirrorsUnits
    <3>2. u \notin T
      BY <2>1, <3>1, ProjectionUnit
    <3>3. QED
      BY <3>1, <3>2
  <2>2. CASE \E u \in T \cap DOMAIN docs : row \in Projection(u, docs[u])
    BY <2>2
  <2>3. QED
    BY <1>1, <2>1, <2>2 DEF SyncedRows
<1>2. ASSUME NEW row \in Mirror
      PROVE  row \in SyncedRows(T, docs)
  <2>1. PICK u \in DOMAIN docs : row \in Projection(u, docs[u])
    BY <1>2
  <2>2. CASE u \in T
    BY <2>1, <2>2 DEF SyncedRows
  <2>3. CASE u \notin T
    <3>1. row \in Projection(u, unit[u]) /\ u \in DOMAIN unit
      BY <2>1, <2>3
    <3>2. row \in rows /\ row.unit = u
      BY <3>1, ProjectionUnit DEF MembershipMirrorsUnits
    <3>3. QED
      BY <2>3, <3>2 DEF SyncedRows
  <2>4. QED
    BY <2>2, <2>3
<1>3. QED
  BY <1>1, <1>2

----------------------------------------------------------------------------
(* Type correctness.                                                       *)

\* Resync keeps the types when the new documents have theirs.
LEMMA ResyncType ==
    ASSUME TypeOK, NEW docs, NEW T1, NEW T2, Resync(docs, T1, T2),
           DOMAIN docs \subseteq UnitIds, docs \in [DOMAIN docs -> UnitDoc],
           nextId' \in UnitIds
    PROVE  TypeOK'
<1>1. rows' \subseteq MembershipRow
  BY SyncedRowsType DEF Resync, TypeOK
<1>2. unitOf' \in [Persons -> UnitIds \cup {NoUnit}]
  <2>1. SyncedPointers(unitOf, T1, docs) \in [Persons -> UnitIds \cup {NoUnit}]
    BY SyncedPointersType DEF TypeOK
  <2>2. QED
    BY <2>1, SyncedPointersType DEF Resync
<1>3. QED
  BY <1>1, <1>2 DEF Resync, TypeOK, people

\* A plan is a set of documents the units collection would accept.
LEMMA PlannedUnitType ==
    ASSUME TypeOK, NEW g \in Groups, NEW b \in Branches, NEW lead \in Persons
    PROVE  PlannedUnit(g, b, lead) \in UnitDoc
<1>1. PlaceholderName(b, 1) \in Names
  BY NamesAssumption DEF Names
<1>2. QED
  BY <1>1 DEF PlannedUnit, UnitDoc, LeadersOfBranch, AdultsOf, Pending, Active

\* seedGroup only plans documents of the schema.
LEMMA SeedReadType ==
    ASSUME TypeOK, NEW r \in Requests, NEW g \in Groups, SeedRead(r, g)
    PROVE  TypeOK'
<1> DEFINE branches == {BranchOf(p) : p \in Pending(g)}
<1>1. branches \subseteq Branches
  BY DEF Pending
<1>2. PICK lead \in [branches -> AdultsOf(g)] :
        plan' = [plan EXCEPT ![r] = {PlannedUnit(g, b, lead[b]) : b \in branches}]
  BY DEF SeedRead
<1>3. {PlannedUnit(g, b, lead[b]) : b \in branches} \subseteq UnitDoc
  <2>1. AdultsOf(g) \subseteq Persons
    BY DEF AdultsOf, Active
  <2>2. \A b \in branches : lead[b] \in Persons
    BY <1>2, <2>1
  <2> HIDE DEF branches
  <2>3. QED
    BY <1>1, <2>2, PlannedUnitType
<1>4. plan' \in [Requests -> SUBSET UnitDoc]
  BY <1>2, <1>3 DEF TypeOK
<1>5. QED
  BY <1>4 DEF TypeOK, SeedRead, people

\* Names of what SeedCommit writes, for the lemmas about it.
Fresh(r) == {pl \in plan[r] : BranchUnits(pl) = {}}

Joining(r) == {pl \in plan[r] : BranchUnits(pl) # {} /\ Incoming(pl) # {}}

Created(r) == {nextId + pl.branch : pl \in Fresh(r)}

Hosts(r) == {BranchHost(pl) : pl \in Joining(r)}

SeededDocs(r) ==
    [u \in DOMAIN unit \cup Created(r) |->
       CASE u \in Created(r) -> CHOOSE pl \in Fresh(r) : nextId + pl.branch = u
         [] u \in Hosts(r) \ Created(r) ->
              [unit[u] EXCEPT !.members = @ \cup
                 UNION {Incoming(pl) : pl \in {q \in Joining(r) : BranchHost(q) = u}}]
         [] OTHER -> unit[u]]

\* applySeedPlan, read as one write: the documents it leaves behind and the
\* units it syncs (SeededDocs names those documents).
LEMMA SeedCommitEffect ==
    ASSUME NEW r \in Requests, SeedCommit(r)
    PROVE  /\ unit' = SeededDocs(r)
           /\ nextId' = IF Fresh(r) = {} THEN nextId ELSE nextId + BranchCount
           /\ rows' = SyncedRows(Created(r) \cup Hosts(r), SeededDocs(r))
           /\ unitOf' = SyncedPointers(unitOf, Created(r) \cup Hosts(r), SeededDocs(r))
           /\ plan' = [plan EXCEPT ![r] = {}]
           /\ began' = [began EXCEPT ![r] = 0]
           /\ UNCHANGED people
BY Zenon DEF SeedCommit, SeededDocs, Fresh, Joining, Created, Hosts

\* The documents a seeding leaves behind are well typed.
LEMMA SeededDocsType ==
    ASSUME TypeOK, NEW r \in Requests
    PROVE  /\ DOMAIN SeededDocs(r) = DOMAIN unit \cup Created(r)
           /\ Created(r) \subseteq UnitIds
           /\ SeededDocs(r) \in [DOMAIN SeededDocs(r) -> UnitDoc]
<1>1. plan[r] \subseteq UnitDoc
  BY DEF TypeOK
<1>2. Created(r) \subseteq UnitIds
  <2>1. \A pl \in Fresh(r) : pl.branch \in 0 .. (BranchCount - 1)
    BY <1>1 DEF Fresh, UnitDoc, Branches
  <2>2. nextId \in Nat \ {0}
    BY DEF TypeOK, UnitIds
  <2>3. QED
    BY <2>1, <2>2, BranchesAssumption DEF Created, UnitIds
<1>3. ASSUME NEW u \in DOMAIN unit \cup Created(r)
      PROVE  SeededDocs(r)[u] \in UnitDoc
  <2>1. CASE u \in Created(r)
    <3>1. \E pl \in Fresh(r) : nextId + pl.branch = u
      BY <2>1 DEF Created
    <3>2. (CHOOSE pl \in Fresh(r) : nextId + pl.branch = u) \in Fresh(r)
      BY <3>1
    <3>3. SeededDocs(r)[u] = CHOOSE pl \in Fresh(r) : nextId + pl.branch = u
      BY <2>1 DEF SeededDocs
    <3>4. QED
      BY <1>1, <3>2, <3>3 DEF Fresh
  <2>2. CASE u \in Hosts(r) \ Created(r)
    <3> DEFINE more == UNION {Incoming(pl) : pl \in {q \in Joining(r) : BranchHost(q) = u}}
    <3>1. SeededDocs(r)[u] = [unit[u] EXCEPT !.members = @ \cup more]
      BY <2>2 DEF SeededDocs
    <3>2. more \subseteq Persons
      BY <1>1 DEF Joining, Incoming, UnitDoc
    <3>3. unit[u] \in UnitDoc
      BY <1>3, <2>2 DEF TypeOK
    <3>4. QED
      BY <3>1, <3>2, <3>3 DEF UnitDoc
  <2>3. CASE u \notin Created(r) \cup Hosts(r)
    <3>1. SeededDocs(r)[u] = unit[u]
      BY <1>3, <2>3 DEF SeededDocs
    <3>2. QED
      BY <1>3, <2>3, <3>1 DEF TypeOK
  <2>4. QED
    BY <2>1, <2>2, <2>3
<1>4. DOMAIN SeededDocs(r) = DOMAIN unit \cup Created(r)
  BY DEF SeededDocs
<1>5. SeededDocs(r) \in [DOMAIN SeededDocs(r) -> UnitDoc]
  <2>1. SeededDocs(r) = [u \in DOMAIN SeededDocs(r) |-> SeededDocs(r)[u]]
    BY DEF SeededDocs
  <2>2. QED
    BY <1>3, <1>4, <2>1
<1>6. QED
  BY <1>2, <1>4, <1>5

\* applySeedPlan keeps every variable in its type.
LEMMA SeedCommitType ==
    ASSUME TypeOK, NEW r \in Requests, SeedCommit(r)
    PROVE  TypeOK'
<1>1. DOMAIN SeededDocs(r) \subseteq UnitIds
  BY SeededDocsType DEF TypeOK
<1>2. unit' = SeededDocs(r) /\ SeededDocs(r) \in [DOMAIN SeededDocs(r) -> UnitDoc]
  BY SeedCommitEffect, SeededDocsType
<1> DEFINE T == Created(r) \cup Hosts(r)
<1>3. rows' \subseteq MembershipRow
  <2>1. rows \subseteq MembershipRow
    BY DEF TypeOK
  <2>2. SyncedRows(T, SeededDocs(r)) \subseteq MembershipRow
    BY <1>1, <1>2, <2>1, SyncedRowsType
  <2>3. QED
    BY <2>2, SeedCommitEffect
<1>4. unitOf' \in [Persons -> UnitIds \cup {NoUnit}]
  <2>1. unitOf \in [Persons -> UnitIds \cup {NoUnit}]
    BY DEF TypeOK
  <2>2. SyncedPointers(unitOf, T, SeededDocs(r)) \in [Persons -> UnitIds \cup {NoUnit}]
    BY <1>1, <1>2, <2>1, SyncedPointersType
  <2>3. QED
    BY <2>2, SeedCommitEffect
<1>5. nextId' \in UnitIds
  <2>1. nextId \in UnitIds /\ nextId + BranchCount \in UnitIds
    BY BranchesAssumption DEF TypeOK, UnitIds
  <2>2. nextId' = nextId \/ nextId' = nextId + BranchCount
    BY SeedCommitEffect
  <2>3. QED
    BY <2>1, <2>2
<1>6. plan' \in [Requests -> SUBSET UnitDoc] /\ began' \in [Requests -> Nat]
  <2>1. plan' = [plan EXCEPT ![r] = {}] /\ began' = [began EXCEPT ![r] = 0]
    BY SeedCommitEffect
  <2>2. QED
    BY <2>1 DEF TypeOK
<1>7. UNCHANGED <<status, group, says, declared>>
  BY SeedCommitEffect DEF people
<1>8. QED
  BY <1>1, <1>2, <1>3, <1>4, <1>5, <1>6, <1>7 DEF TypeOK

\* Rewriting the editable fields of one document leaves every document typed.
LEMMA EditType ==
    ASSUME TypeOK, NEW u \in DOMAIN unit, NEW name \in Names, NEW leader \in Persons,
           NEW leaders \in SUBSET Persons, NEW T1, NEW T2,
           Resync([unit EXCEPT ![u].name = name, ![u].leader = leader,
                               ![u].leaders = leaders], T1, T2),
           UNCHANGED nextId
    PROVE  TypeOK'
<1> DEFINE docs == [unit EXCEPT ![u].name = name, ![u].leader = leader,
                                ![u].leaders = leaders]
<1>1. DOMAIN docs = DOMAIN unit /\ DOMAIN docs \subseteq UnitIds
  BY DEF TypeOK
<1>2. docs \in [DOMAIN docs -> UnitDoc]
  <2>1. unit \in [DOMAIN unit -> UnitDoc]
    BY DEF TypeOK
  <2>2. QED
    BY <2>1 DEF UnitDoc
<1>3. nextId' \in UnitIds
  BY DEF TypeOK
<1> HIDE DEF docs
<1>4. Resync(docs, T1, T2)
  BY DEF docs
<1>5. QED
  BY <1>1, <1>2, <1>3, <1>4, ResyncType

\* configure keeps every variable in its type: the leaders were checked.
LEMMA ConfigureType ==
    ASSUME TypeOK, NEW a \in Actors, NEW u \in DOMAIN unit, NEW name \in Names,
           NEW leader, NEW leaders, Configure(a, u, name, leader, leaders)
    PROVE  TypeOK'
<1>1. leader \in Persons /\ leaders \ {leader} \in SUBSET Persons
  BY DEF Configure, Eligible, AdultsOf, Active
<1>2. QED
  BY <1>1, EditType DEF Configure

\* update keeps every variable in its type, whichever fields the patch has.
LEMMA UpdateType ==
    ASSUME TypeOK, NEW a \in Actors, NEW u \in DOMAIN unit,
           NEW fields \in SUBSET {"name", "leader", "leaders"},
           NEW name \in Names,
           NEW leader \in IF "leader" \in fields THEN Persons ELSE {unit[u].leader},
           NEW leaders \in IF "leaders" \in fields THEN LeaderLists ELSE {unit[u].leaders},
           Update(a, u, fields, name, leader, leaders)
    PROVE  TypeOK'
<1> DEFINE kept == IF {"leader", "leaders"} \subseteq fields THEN leaders \ {leader}
                                                             ELSE leaders
<1>1. unit[u].leader \in Persons /\ unit[u].leaders \subseteq Persons
  BY DEF TypeOK, UnitDoc
<1>2. leader \in Persons
  BY <1>1 DEF Update, Eligible, AdultsOf, Active
<1>3. kept \in SUBSET Persons
  <2>1. CASE "leaders" \in fields
    BY <2>1 DEF Update, Eligible, AdultsOf, Active
  <2>2. CASE "leaders" \notin fields
    BY <1>1, <2>2
  <2>3. QED
    BY <2>1, <2>2
<1>4. Resync([unit EXCEPT ![u].name = name, ![u].leader = leader,
                          ![u].leaders = kept], {u}, {}) /\ UNCHANGED nextId
  BY DEF Update
<1> HIDE DEF kept
<1>5. QED
  BY <1>2, <1>3, <1>4, EditType

\* setMembers into another unit keeps every variable in its type.
LEMMA MoveMembersType ==
    ASSUME TypeOK, NEW a \in Actors, NEW u \in DOMAIN unit, NEW v \in DOMAIN unit,
           NEW staying \in SUBSET unit[u].members, MoveMembers(a, u, staying, v)
    PROVE  TypeOK'
<1> DEFINE docs == [unit EXCEPT ![u].members = staying,
                                ![v].members = @ \cup (unit[u].members \ staying)]
<1>1. unit[u].members \subseteq Persons
  BY DEF TypeOK, UnitDoc
<1>2. u # v
  BY DEF MoveMembers, Compatible
<1>3. docs = [w \in DOMAIN unit |->
                 IF w = u THEN [unit[u] EXCEPT !.members = staying]
                 ELSE IF w = v THEN [unit[v] EXCEPT !.members =
                                       @ \cup (unit[u].members \ staying)]
                 ELSE unit[w]]
  BY <1>2 DEF TypeOK
<1>4. DOMAIN docs \subseteq UnitIds /\ docs \in [DOMAIN docs -> UnitDoc]
  <2>1. DOMAIN docs = DOMAIN unit
    OBVIOUS
  <2> HIDE DEF docs
  <2>2. \A w \in DOMAIN unit : docs[w] \in UnitDoc
    <3>1. unit \in [DOMAIN unit -> UnitDoc]
      BY DEF TypeOK
    <3>2. QED
      BY <1>1, <1>3, <3>1 DEF UnitDoc
  <2>3. QED
    BY <1>3, <2>1, <2>2 DEF TypeOK
<1>5. nextId' \in UnitIds
  BY DEF MoveMembers, TypeOK
<1>6. Resync(docs, {u}, {v})
  BY DEF MoveMembers
<1> HIDE DEF docs
<1>7. QED
  BY <1>4, <1>5, <1>6, ResyncType

\* setMembers into a new unit keeps every variable in its type.
LEMMA SplitMembersType ==
    ASSUME TypeOK, NEW a \in Actors, NEW u \in DOMAIN unit,
           NEW staying \in SUBSET unit[u].members, SplitMembers(a, u, staying)
    PROVE  TypeOK'
<1> DEFINE free == FreeSuffixes(unit[u].group, unit[u].branch)
           suffix == CHOOSE i \in free : \A j \in free : i <= j
           clone == [unit[u] EXCEPT
                       !.name = PlaceholderName(unit[u].branch, suffix),
                       !.leaders = {},
                       !.members = unit[u].members \ staying]
           docs == [v \in DOMAIN unit \cup {nextId} |->
                      IF v = nextId THEN clone
                      ELSE IF v = u THEN [unit[u] EXCEPT !.members = staying]
                      ELSE unit[v]]
<1>1. unit[u] \in UnitDoc
  BY DEF TypeOK
<1>2. PlaceholderName(unit[u].branch, suffix) \in Names
  <2>1. free \subseteq 1 .. MaxNameAttempts + 1 /\ free # {}
    <3>1. free # {}
      BY DEF SplitMembers
    <3>2. free \subseteq 2 .. MaxNameAttempts + 1
      BY DEF FreeSuffixes
    <3> HIDE DEF free
    <3>3. QED
      BY <3>1, <3>2, NamesAssumption
  <2>2. \E i \in free : \A j \in free : i <= j
    <3>1. free \subseteq Nat
      BY <2>1
    <3>2. QED
      BY <2>1, <3>1, SmallestExists
  <2>3. suffix \in free
    BY <2>2
  <2>4. unit[u].branch \in Branches
    BY <1>1 DEF UnitDoc
  <2> HIDE DEF free, suffix
  <2>5. QED
    BY <2>1, <2>3, <2>4 DEF Names
<1> HIDE DEF suffix
<1>3. clone \in UnitDoc
  BY <1>1, <1>2 DEF UnitDoc
<1>4. [unit[u] EXCEPT !.members = staying] \in UnitDoc
  BY <1>1 DEF UnitDoc
<1>5. DOMAIN docs \subseteq UnitIds
  BY DEF TypeOK
<1> HIDE DEF clone
<1>6. docs \in [DOMAIN docs -> UnitDoc]
  BY <1>3, <1>4 DEF TypeOK
<1>7. nextId' \in UnitIds
  <2>1. nextId' = nextId + 1
    BY DEF SplitMembers
  <2>2. QED
    BY <2>1 DEF TypeOK, UnitIds
<1>8. Resync(docs, {u}, {nextId})
  BY DEF SplitMembers, suffix, clone
<1> HIDE DEF docs
<1>9. QED
  BY <1>5, <1>6, <1>7, <1>8, ResyncType

\* Every operation on a unit keeps every variable in its type.
LEMMA UnitStepType ==
    ASSUME TypeOK, NEW a \in Actors, NEW u \in DOMAIN unit, UnitStep(a, u)
    PROVE  TypeOK'
<1>1. ASSUME NEW name \in TypedNames, NEW leader \in Persons, NEW leaders \in LeaderLists,
             Configure(a, u, name, leader, leaders)
      PROVE  TypeOK'
  <2>1. name \in Names
    BY DEF Names
  <2>2. QED
    BY <1>1, <2>1, ConfigureType
<1>2. ASSUME NEW fields \in SUBSET {"name", "leader", "leaders"},
             NEW name \in IF "name" \in fields THEN TypedNames ELSE {unit[u].name},
             NEW leader \in IF "leader" \in fields THEN Persons ELSE {unit[u].leader},
             NEW leaders \in IF "leaders" \in fields THEN LeaderLists
                                                     ELSE {unit[u].leaders},
             Update(a, u, fields, name, leader, leaders)
      PROVE  TypeOK'
  <2>1. unit[u].name \in Names
    BY DEF TypeOK, UnitDoc
  <2>2. name \in Names
    BY <2>1 DEF Names
  <2>3. QED
    BY <1>2, <2>2, UpdateType
<1>3. CASE KeepMembers(a, u)
  <2>1. DOMAIN unit \subseteq UnitIds /\ unit \in [DOMAIN unit -> UnitDoc] /\ nextId' \in UnitIds
    BY <1>3 DEF KeepMembers, TypeOK
  <2>2. QED
    BY <1>3, <2>1, ResyncType DEF KeepMembers
<1>4. ASSUME NEW staying \in SUBSET unit[u].members, SplitMembers(a, u, staying)
      PROVE  TypeOK'
  BY <1>4, SplitMembersType
<1>5. ASSUME NEW staying \in SUBSET unit[u].members, NEW v \in DOMAIN unit,
             MoveMembers(a, u, staying, v)
      PROVE  TypeOK'
  BY <1>5, MoveMembersType
<1>6. CASE Remove(a, u)
  <2> DEFINE docs == [v \in DOMAIN unit \ {u} |-> unit[v]]
  <2>1. DOMAIN docs \subseteq UnitIds /\ docs \in [DOMAIN docs -> UnitDoc]
    BY DEF TypeOK
  <2>2. nextId' \in UnitIds /\ Resync(docs, {u}, {})
    BY <1>6 DEF Remove, TypeOK
  <2> HIDE DEF docs
  <2>3. QED
    BY <2>1, <2>2, ResyncType
<1>7. QED
  BY <1>1, <1>2, <1>3, <1>4, <1>5, <1>6 DEF UnitStep

\* What other components do to the people keeps every variable in its type.
LEMMA PeopleStepType ==
    ASSUME TypeOK, NEW x \in Persons, PeopleStep(x)
    PROVE  TypeOK'
<1>1. CASE Arrive(x)
  BY <1>1 DEF Arrive, TypeOK
<1>2. CASE SetEstado(x)
  <2>1. status' \in [Persons -> {"absent", "active", "inactive", "removed"}]
    BY <1>2 DEF SetEstado, TypeOK
  <2>2. QED
    BY <1>2, <2>1 DEF SetEstado, TypeOK
<1>3. CASE RemoveUser(x)
  <2>1. status' \in [Persons -> {"absent", "active", "inactive", "removed"}]
    BY <1>3 DEF RemoveUser, TypeOK
  <2>2. unitOf' \in [Persons -> UnitIds \cup {NoUnit}]
    BY <1>3 DEF RemoveUser, TypeOK
  <2>3. QED
    BY <1>3, <2>1, <2>2 DEF RemoveUser, TypeOK
<1>4. ASSUME NEW g \in Groups, NEW titles \in TitleLists \cup {declared[x]},
             PatchProfile(x, g, titles)
      PROVE  TypeOK'
  <2>1. titles \in Seq(Branches)
    BY ReportsAssumption DEF TypeOK
  <2>2. group' \in [Persons -> Groups] /\ declared' \in [Persons -> Seq(Branches)]
    BY <1>4, <2>1 DEF PatchProfile, TypeOK
  <2>3. QED
    BY <1>4, <2>2 DEF PatchProfile, TypeOK
<1>6. ASSUME NEW g \in Groups, NEW report \in Reports, Synchronize(x, g, report)
      PROVE  TypeOK'
  <2>1. report \in Report
    BY ReportsAssumption
  <2>2. group' \in [Persons -> Groups] /\ says' \in [Persons -> Report]
    BY <1>6, <2>1 DEF Synchronize, TypeOK
  <2>3. QED
    BY <1>6, <2>2 DEF Synchronize, TypeOK
<1>5. ASSUME NEW u \in DOMAIN unit, PatchUnitId(x, u)
      PROVE  TypeOK'
  BY <1>5 DEF PatchUnitId, TypeOK, people
<1>7. QED
  BY <1>1, <1>2, <1>3, <1>4, <1>5, <1>6 DEF PeopleStep

\* Every step of a seeding keeps every variable in its type.
LEMMA SeedStepType ==
    ASSUME TypeOK, NEW r \in Requests, SeedStep(r)
    PROVE  TypeOK'
<1>1. ASSUME NEW g \in Groups, SeedRead(r, g)
      PROVE  TypeOK'
  BY <1>1, SeedReadType
<1>2. CASE SeedBegin(r)
  BY <1>2 DEF SeedBegin, TypeOK, people, UnitIds
<1>3. CASE SeedCommit(r)
  BY <1>3, SeedCommitType
<1>4. CASE SeedLost(r)
  BY <1>4 DEF SeedLost, TypeOK, people
<1>5. QED
  BY <1>1, <1>2, <1>3, <1>4 DEF SeedStep

\* The initial state is well typed.
LEMMA TypeInit == Init => TypeOK
<1> SUFFICES ASSUME Init PROVE TypeOK
  OBVIOUS
<1>1. says \in [Persons -> Report] /\ group \in [Persons -> Groups]
  BY ReportsAssumption, GroupsAssumption DEF Init
<1>2. QED
  BY <1>1, BranchesAssumption DEF Init, TypeOK, UnitIds, NoUnit

\* Every step keeps every variable in its type.
LEMMA TypeNext == ASSUME TypeOK, [Next]_vars PROVE TypeOK'
<1>1. ASSUME NEW r \in Requests, SeedStep(r) PROVE TypeOK'
  BY <1>1, SeedStepType
<1>2. ASSUME NEW a \in Actors, NEW u \in DOMAIN unit, UnitStep(a, u) PROVE TypeOK'
  BY <1>2, UnitStepType
<1>3. ASSUME NEW a \in Actors, NEW b \in Branches, DeclareLeadership(a, b) PROVE TypeOK'
  <2>1. <<b>> \in Seq(Branches)
    OBVIOUS
  <2>2. declared \in [Persons -> Seq(Branches)]
    BY DEF TypeOK
  <2>3. declared' = [declared EXCEPT ![a] = <<b>>]
    BY <1>3 DEF DeclareLeadership
  <2>4. declared' \in [Persons -> Seq(Branches)]
    BY <2>1, <2>2, <2>3
  <2>5. QED
    BY <1>3, <2>4 DEF DeclareLeadership, TypeOK
<1>4. ASSUME NEW x \in Persons, PeopleStep(x) PROVE TypeOK'
  BY <1>4, PeopleStepType
<1>5. CASE UNCHANGED vars
  BY <1>5 DEF vars, TypeOK
<1>6. QED
  BY <1>1, <1>2, <1>3, <1>4, <1>5 DEF Next

\* The variables keep their types, for any constants: no operation, in any
\* order, writes a document the schemas would refuse.
THEOREM TypeCorrect == Spec => []TypeOK
<1>1. Init => TypeOK
  BY TypeInit
<1>2. TypeOK /\ [Next]_vars => TypeOK'
  BY TypeNext
<1>3. QED
  BY <1>1, <1>2, PTL DEF Spec

----------------------------------------------------------------------------
(* unit_memberships mirrors the units.                                     *)

\* An operation that syncs every unit it rewrites keeps the mirror.
LEMMA ResyncMirrors ==
    ASSUME MembershipMirrorsUnits, NEW docs, NEW T1, NEW T2, Resync(docs, T1, T2),
           DOMAIN unit \ (T1 \cup T2) = DOMAIN docs \ (T1 \cup T2),
           \A u \in DOMAIN unit \ (T1 \cup T2) : docs[u] = unit[u]
    PROVE  MembershipMirrorsUnits'
<1>1. SyncedRows(T1 \cup T2, docs) = UNION {Projection(u, docs[u]) : u \in DOMAIN docs}
  BY SyncMirrors
<1>2. rows' = SyncedRows(T1 \cup T2, docs) /\ unit' = docs
  BY DEF Resync
<1>3. rows' = UNION {Projection(u, unit'[u]) : u \in DOMAIN unit'}
  BY <1>1, <1>2, Zenon
<1>4. QED
  BY <1>3 DEF MembershipMirrorsUnits

\* The units a seeding creates or joins are exactly the ones it syncs: the
\* documents it leaves alone are those whose rows it leaves alone.
LEMMA SeedCommitMirrors ==
    ASSUME MembershipMirrorsUnits, NEW r \in Requests, SeedCommit(r)
    PROVE  MembershipMirrorsUnits'
<1> DEFINE T == Created(r) \cup Hosts(r)
           docs == SeededDocs(r)
<1>1. DOMAIN docs = DOMAIN unit \cup Created(r)
  BY DEF SeededDocs
<1>2. \A u \in DOMAIN unit \ T : docs[u] = unit[u]
  BY DEF SeededDocs
<1>3. DOMAIN unit \ T = DOMAIN docs \ T
  BY <1>1
<1> HIDE DEF docs, T
<1>4. SyncedRows(T, docs) = UNION {Projection(u, docs[u]) : u \in DOMAIN docs}
  BY <1>2, <1>3, SyncMirrors
<1>5. rows' = SyncedRows(T, docs) /\ unit' = docs
  BY SeedCommitEffect DEF T, docs
<1>6. QED
  BY <1>4, <1>5 DEF MembershipMirrorsUnits, Projection

\* Every operation on a unit syncs all the units it rewrites.
LEMMA UnitStepMirrors ==
    ASSUME TypeOK, MembershipMirrorsUnits, NEW a \in Actors, NEW u \in DOMAIN unit,
           UnitStep(a, u)
    PROVE  MembershipMirrorsUnits'
<1> USE DEF TypeOK
<1>1. ASSUME NEW name, NEW leader, NEW leaders, Configure(a, u, name, leader, leaders)
      PROVE  MembershipMirrorsUnits'
  BY <1>1, ResyncMirrors DEF Configure
<1>2. ASSUME NEW fields, NEW name, NEW leader, NEW leaders,
             Update(a, u, fields, name, leader, leaders)
      PROVE  MembershipMirrorsUnits'
  BY <1>2, ResyncMirrors DEF Update
<1>3. CASE KeepMembers(a, u)
  BY <1>3, ResyncMirrors DEF KeepMembers
<1>4. ASSUME NEW staying \in SUBSET unit[u].members, SplitMembers(a, u, staying)
      PROVE  MembershipMirrorsUnits'
  <2> DEFINE free == FreeSuffixes(unit[u].group, unit[u].branch)
             suffix == CHOOSE i \in free : \A j \in free : i <= j
             clone == [unit[u] EXCEPT
                         !.name = PlaceholderName(unit[u].branch, suffix),
                         !.leaders = {},
                         !.members = unit[u].members \ staying]
             docs == [v \in DOMAIN unit \cup {nextId} |->
                        IF v = nextId THEN clone
                        ELSE IF v = u THEN [unit[u] EXCEPT !.members = staying]
                        ELSE unit[v]]
  <2>1. Resync(docs, {u}, {nextId})
    BY <1>4 DEF SplitMembers
  <2> HIDE DEF clone
  <2>2. DOMAIN unit \ ({u} \cup {nextId}) = DOMAIN docs \ ({u} \cup {nextId})
    OBVIOUS
  <2>3. \A v \in DOMAIN unit \ ({u} \cup {nextId}) : docs[v] = unit[v]
    OBVIOUS
  <2> HIDE DEF docs
  <2>4. QED
    BY <2>1, <2>2, <2>3, ResyncMirrors
<1>5. ASSUME NEW staying \in SUBSET unit[u].members, NEW v \in DOMAIN unit,
             MoveMembers(a, u, staying, v)
      PROVE  MembershipMirrorsUnits'
  <2> DEFINE docs == [unit EXCEPT ![u].members = staying,
                                  ![v].members = @ \cup (unit[u].members \ staying)]
  <2>1. Resync(docs, {u}, {v})
    BY <1>5 DEF MoveMembers
  <2>2. DOMAIN unit = DOMAIN docs
    OBVIOUS
  <2>3. \A w \in DOMAIN unit \ ({u} \cup {v}) : docs[w] = unit[w]
    OBVIOUS
  <2> HIDE DEF docs
  <2>4. QED
    BY <2>1, <2>2, <2>3, ResyncMirrors
<1>6. CASE Remove(a, u)
  <2> DEFINE docs == [v \in DOMAIN unit \ {u} |-> unit[v]]
  <2>1. Resync(docs, {u}, {})
    BY <1>6 DEF Remove
  <2>2. DOMAIN unit \ ({u} \cup {}) = DOMAIN docs \ ({u} \cup {})
    OBVIOUS
  <2>3. \A w \in DOMAIN unit \ ({u} \cup {}) : docs[w] = unit[w]
    OBVIOUS
  <2> HIDE DEF docs
  <2>4. QED
    BY <2>1, <2>2, <2>3, ResyncMirrors
<1>7. QED
  BY <1>1, <1>2, <1>3, <1>4, <1>5, <1>6 DEF UnitStep

\* Criterion 7 of the units design, for any number of people, units and
\* concurrent requests: the membership rows are always the projection of the
\* units, so that the rebuilding tool has nothing to repair.  The rows are
\* read off the units afresh by every step that touches a unit, and TypeOK
\* only supplies the shape of the documents.
THEOREM MembershipMirror == Spec => []MembershipMirrorsUnits
<1>1. Init => MembershipMirrorsUnits
  BY DEF Init, MembershipMirrorsUnits
<1>2. TypeOK /\ MembershipMirrorsUnits /\ [Next]_vars => MembershipMirrorsUnits'
  <2> SUFFICES ASSUME TypeOK, MembershipMirrorsUnits, [Next]_vars
               PROVE  MembershipMirrorsUnits'
    OBVIOUS
  <2>1. ASSUME UNCHANGED <<unit, rows>>
        PROVE  MembershipMirrorsUnits'
    BY <2>1 DEF MembershipMirrorsUnits, Projection
  <2>2. ASSUME NEW r \in Requests, SeedStep(r)
        PROVE  MembershipMirrorsUnits'
    <3>1. CASE SeedCommit(r)
      BY <3>1, SeedCommitMirrors
    <3>2. CASE ~SeedCommit(r)
      BY <2>1, <2>2, <3>2 DEF SeedStep, SeedRead, SeedBegin, SeedLost
    <3>3. QED
      BY <3>1, <3>2
  <2>3. ASSUME NEW a \in Actors, NEW u \in DOMAIN unit, UnitStep(a, u)
        PROVE  MembershipMirrorsUnits'
    BY <2>3, UnitStepMirrors
  <2>4. ASSUME NEW a \in Actors, NEW b \in Branches, DeclareLeadership(a, b)
        PROVE  MembershipMirrorsUnits'
    BY <2>1, <2>4 DEF DeclareLeadership
  <2>5. ASSUME NEW x \in Persons, PeopleStep(x)
        PROVE  MembershipMirrorsUnits'
    BY <2>1, <2>5 DEF PeopleStep, Arrive, SetEstado, RemoveUser, PatchUnitId, PatchProfile,
       Synchronize
  <2>6. CASE UNCHANGED vars
    BY <2>1, <2>6 DEF vars
  <2>7. QED
    BY <2>2, <2>3, <2>4, <2>5, <2>6 DEF Next
<1>3. QED
  BY <1>1, <1>2, TypeCorrect, PTL DEF Spec

\* From the mirror alone: the unique index of unit_memberships is never hit,
\* because a projection names a person once.
THEOREM OneRow == Spec => []OneRowPerPersonAndUnit
<1>1. MembershipMirrorsUnits => OneRowPerPersonAndUnit
  <2> SUFFICES ASSUME MembershipMirrorsUnits, NEW m \in rows, NEW n \in rows,
                      m.user = n.user, m.unit = n.unit
               PROVE  m = n
    BY DEF OneRowPerPersonAndUnit
  <2>1. PICK u \in DOMAIN unit : m \in Projection(u, unit[u])
    BY DEF MembershipMirrorsUnits
  <2>2. PICK v \in DOMAIN unit : n \in Projection(v, unit[v])
    BY DEF MembershipMirrorsUnits
  <2>3. u = v
    BY <2>1, <2>2, ProjectionUnit
  <2>4. QED
    BY <2>1, <2>2, <2>3 DEF Projection
<1>2. QED
  BY <1>1, MembershipMirror, PTL

----------------------------------------------------------------------------
(* Who is listed where: what each operation does to the members.           *)

SamePlace(d, e) == d.group = e.group /\ d.branch = e.branch

ListedOnce(docs) ==
    \A u, v \in DOMAIN docs : \A p \in docs[u].members \cap docs[v].members : u = v

\* The documents of T may differ; all the others are as they were.
Rewrites(docs, T) ==
    /\ DOMAIN unit \ T = DOMAIN docs \ T
    /\ \A u \in DOMAIN unit \ T : docs[u] = unit[u]

\* The same people are listed, each in the same group and branch as before.
Rearranges(docs) ==
    /\ \A v \in DOMAIN docs : \A p \in docs[v].members :
         \E w \in DOMAIN unit : p \in unit[w].members /\ SamePlace(docs[v], unit[w])
    /\ \A w \in DOMAIN unit : \A p \in unit[w].members :
         \E v \in DOMAIN docs : p \in docs[v].members /\ SamePlace(docs[v], unit[w])
    /\ ListedOnce(unit) => ListedOnce(docs)

\* Whoever was in a unit of T is in one of T still.
Retains(docs, T) ==
    \A w \in DOMAIN unit \cap T : \A p \in unit[w].members :
        \E v \in DOMAIN docs \cap T : p \in docs[v].members

IdsAreSpent == \A u \in DOMAIN unit : u < nextId

\* What an operation on a unit comes to.
Reseats(docs, T1, T2) ==
    /\ Resync(docs, T1, T2) /\ Rewrites(docs, T1 \cup T2) /\ Rearranges(docs)
    /\ Retains(docs, T1 \cup T2)
    /\ \A v \in DOMAIN docs : v \in UnitIds /\ v < nextId'
    /\ nextId' \in Nat /\ nextId <= nextId'

\* Documents that differ in their names and leaders only.
LEMMA EditsReseat ==
    ASSUME TypeOK, IdsAreSpent, NEW docs, NEW u \in DOMAIN unit, DOMAIN docs = DOMAIN unit,
           \A v \in DOMAIN unit : /\ SamePlace(docs[v], unit[v])
                                  /\ docs[v].members = unit[v].members,
           \A v \in DOMAIN unit \ {u} : docs[v] = unit[v],
           Resync(docs, {u}, {}), UNCHANGED nextId
    PROVE  Reseats(docs, {u}, {})
<1>1. Rewrites(docs, {u} \cup {})
  BY DEF Rewrites
<1>2. Rearranges(docs)
  BY DEF Rearranges, ListedOnce, SamePlace
<1>3. \A v \in DOMAIN docs : v \in UnitIds /\ v < nextId'
  BY DEF TypeOK, IdsAreSpent
<1>4. nextId' \in Nat /\ nextId <= nextId'
  BY DEF TypeOK, UnitIds
<1>5. Retains(docs, {u} \cup {})
  BY DEF Retains
<1>6. QED
  BY <1>1, <1>2, <1>3, <1>4, <1>5 DEF Reseats

\* configure renames a unit and gives it its leaders.
LEMMA ConfigureReseats ==
    ASSUME TypeOK, IdsAreSpent, NEW a, NEW u \in DOMAIN unit, NEW name, NEW leader,
           NEW leaders, Configure(a, u, name, leader, leaders)
    PROVE  \E docs, T1, T2 : Reseats(docs, T1, T2)
<1> DEFINE docs == [unit EXCEPT ![u].name = name, ![u].leader = leader,
                                ![u].leaders = leaders \ {leader}]
<1>1. Resync(docs, {u}, {}) /\ UNCHANGED nextId
  BY DEF Configure
<1>2. unit \in [DOMAIN unit -> UnitDoc]
  BY DEF TypeOK
<1>3. DOMAIN docs = DOMAIN unit
  BY <1>2
<1>4. \A v \in DOMAIN unit : SamePlace(docs[v], unit[v]) /\ docs[v].members = unit[v].members
  BY <1>2 DEF SamePlace, UnitDoc
<1>5. \A v \in DOMAIN unit \ {u} : docs[v] = unit[v]
  BY <1>2
<1> HIDE DEF docs
<1>6. Reseats(docs, {u}, {})
  BY <1>1, <1>3, <1>4, <1>5, EditsReseat
<1>7. QED
  BY <1>6

\* update writes the fields of the patch.
LEMMA UpdateReseats ==
    ASSUME TypeOK, IdsAreSpent, NEW a, NEW u \in DOMAIN unit, NEW fields, NEW name,
           NEW leader, NEW leaders, Update(a, u, fields, name, leader, leaders)
    PROVE  \E docs, T1, T2 : Reseats(docs, T1, T2)
<1> DEFINE kept == IF {"leader", "leaders"} \subseteq fields THEN leaders \ {leader}
                                                             ELSE leaders
           docs == [unit EXCEPT ![u].name = name, ![u].leader = leader,
                                ![u].leaders = kept]
<1>1. Resync(docs, {u}, {}) /\ UNCHANGED nextId
  BY DEF Update
<1> HIDE DEF kept
<1>2. unit \in [DOMAIN unit -> UnitDoc]
  BY DEF TypeOK
<1>3. DOMAIN docs = DOMAIN unit
  BY <1>2
<1>4. \A v \in DOMAIN unit : SamePlace(docs[v], unit[v]) /\ docs[v].members = unit[v].members
  BY <1>2 DEF SamePlace, UnitDoc
<1>5. \A v \in DOMAIN unit \ {u} : docs[v] = unit[v]
  BY <1>2
<1> HIDE DEF docs
<1>6. Reseats(docs, {u}, {})
  BY <1>1, <1>3, <1>4, <1>5, EditsReseat
<1>7. QED
  BY <1>6

\* setMembers with everybody staying saves the unit as it was.
LEMMA KeepReseats ==
    ASSUME TypeOK, IdsAreSpent, NEW a, NEW u \in DOMAIN unit, KeepMembers(a, u)
    PROVE  \E docs, T1, T2 : Reseats(docs, T1, T2)
<1>1. Resync(unit, {u}, {}) /\ UNCHANGED nextId
  BY DEF KeepMembers
<1>2. PICK docs : docs = unit
  OBVIOUS
<1>3. Reseats(docs, {u}, {})
  <2>1. Resync(docs, {u}, {})
    BY <1>1, <1>2
  <2>2. QED
    BY <1>1, <1>2, <2>1, EditsReseat DEF SamePlace
<1>4. QED
  BY <1>3

\* remove deletes a unit nobody is in.
LEMMA RemoveReseats ==
    ASSUME TypeOK, IdsAreSpent, NEW a, NEW u \in DOMAIN unit, Remove(a, u)
    PROVE  \E docs, T1, T2 : Reseats(docs, T1, T2)
<1> DEFINE docs == [v \in DOMAIN unit \ {u} |-> unit[v]]
<1>1. Resync(docs, {u}, {}) /\ UNCHANGED nextId /\ unit[u].members = {}
  BY DEF Remove
<1>2. DOMAIN docs = DOMAIN unit \ {u} /\ \A v \in DOMAIN docs : docs[v] = unit[v]
  OBVIOUS
<1> HIDE DEF docs
<1>3. Rewrites(docs, {u} \cup {})
  BY <1>2 DEF Rewrites
<1>4. Rearranges(docs)
  BY <1>1, <1>2 DEF Rearranges, ListedOnce, SamePlace
<1>5. \A v \in DOMAIN docs : v \in UnitIds /\ v < nextId'
  BY <1>1, <1>2 DEF TypeOK, IdsAreSpent
<1>6. nextId' \in Nat /\ nextId <= nextId'
  BY <1>1 DEF TypeOK, UnitIds
<1>7. Retains(docs, {u} \cup {})
  BY <1>1 DEF Retains
<1>8. Reseats(docs, {u}, {})
  BY <1>1, <1>3, <1>4, <1>5, <1>6, <1>7 DEF Reseats
<1>9. QED
  BY <1>8

\* Those who leave for another unit go to one of the same group and branch.
LEMMA MoveReseats ==
    ASSUME TypeOK, IdsAreSpent, NEW a, NEW u \in DOMAIN unit, NEW v \in DOMAIN unit,
           NEW staying, MoveMembers(a, u, staying, v)
    PROVE  \E docs, T1, T2 : Reseats(docs, T1, T2)
<1> DEFINE docs == [unit EXCEPT ![u].members = staying,
                                ![v].members = @ \cup (unit[u].members \ staying)]
<1>1. /\ Resync(docs, {u}, {v}) /\ UNCHANGED nextId /\ staying \subseteq unit[u].members
      /\ u # v /\ SamePlace(unit[u], unit[v])
  BY DEF MoveMembers, Compatible, SamePlace
<1>2. unit \in [DOMAIN unit -> UnitDoc]
  BY DEF TypeOK
<1>3. docs = [w \in DOMAIN unit |->
                IF w = u THEN [unit[u] EXCEPT !.members = staying]
                ELSE IF w = v THEN [unit[v] EXCEPT !.members =
                                      @ \cup (unit[u].members \ staying)]
                ELSE unit[w]]
  BY <1>1, <1>2
<1> HIDE DEF docs
<1>4. /\ DOMAIN docs = DOMAIN unit
      /\ docs[u].members = staying
      /\ docs[v].members = unit[v].members \cup (unit[u].members \ staying)
      /\ \A w \in DOMAIN unit : SamePlace(docs[w], unit[w])
      /\ \A w \in DOMAIN unit \ {u, v} : docs[w] = unit[w]
  BY <1>1, <1>2, <1>3 DEF SamePlace, UnitDoc
<1>5. Rewrites(docs, {u} \cup {v})
  BY <1>4 DEF Rewrites
<1>6. ASSUME NEW w \in DOMAIN docs, NEW p \in docs[w].members
      PROVE  \E x \in DOMAIN unit : p \in unit[x].members /\ SamePlace(docs[w], unit[x])
  BY <1>1, <1>4, <1>6 DEF SamePlace
<1>7. ASSUME NEW w \in DOMAIN unit, NEW p \in unit[w].members
      PROVE  \E x \in DOMAIN docs : p \in docs[x].members /\ SamePlace(docs[x], unit[w])
  BY <1>1, <1>4, <1>7 DEF SamePlace
<1>8. ASSUME ListedOnce(unit) PROVE ListedOnce(docs)
  BY <1>1, <1>4, <1>8 DEF ListedOnce
<1>9. \A w \in DOMAIN docs : w \in UnitIds /\ w < nextId'
  BY <1>1, <1>4 DEF TypeOK, IdsAreSpent
<1>10. nextId' \in Nat /\ nextId <= nextId'
  BY <1>1 DEF TypeOK, UnitIds
<1>11. Retains(docs, {u} \cup {v})
  BY <1>1, <1>4 DEF Retains
<1>12. Reseats(docs, {u}, {v})
  BY <1>1, <1>5, <1>6, <1>7, <1>8, <1>9, <1>10, <1>11 DEF Reseats, Rearranges
<1>13. QED
  BY <1>12

\* Those who leave for a unit of their own get a clone under a new id.
LEMMA SplitReseats ==
    ASSUME TypeOK, IdsAreSpent, NEW a, NEW u \in DOMAIN unit, NEW staying,
           SplitMembers(a, u, staying)
    PROVE  \E docs, T1, T2 : Reseats(docs, T1, T2)
<1> DEFINE free == FreeSuffixes(unit[u].group, unit[u].branch)
           suffix == CHOOSE i \in free : \A j \in free : i <= j
           clone == [unit[u] EXCEPT
                       !.name = PlaceholderName(unit[u].branch, suffix),
                       !.leaders = {},
                       !.members = unit[u].members \ staying]
           docs == [v \in DOMAIN unit \cup {nextId} |->
                      IF v = nextId THEN clone
                      ELSE IF v = u THEN [unit[u] EXCEPT !.members = staying]
                      ELSE unit[v]]
<1>1. /\ Resync(docs, {u}, {nextId}) /\ nextId' = nextId + 1
      /\ staying \subseteq unit[u].members
  BY DEF SplitMembers
<1>2. unit[u] \in UnitDoc /\ nextId \in Nat \ {0} /\ DOMAIN unit \subseteq Nat \ {0}
  BY DEF TypeOK, UnitIds
<1>3. nextId \notin DOMAIN unit
  BY <1>2 DEF IdsAreSpent
<1>4. clone.members = unit[u].members \ staying /\ SamePlace(clone, unit[u])
  BY <1>2 DEF SamePlace, UnitDoc
<1> HIDE DEF clone
<1>5. /\ DOMAIN docs = DOMAIN unit \cup {nextId} /\ docs[nextId] = clone
      /\ docs[u].members = staying
      /\ \A w \in DOMAIN unit : SamePlace(docs[w], unit[w])
      /\ \A w \in DOMAIN unit \ {u} : docs[w] = unit[w]
  BY <1>2, <1>3 DEF SamePlace, UnitDoc
<1> HIDE DEF docs
<1>6. Rewrites(docs, {u} \cup {nextId})
  BY <1>5 DEF Rewrites
<1>7. ASSUME NEW w \in DOMAIN docs, NEW p \in docs[w].members
      PROVE  \E x \in DOMAIN unit : p \in unit[x].members /\ SamePlace(docs[w], unit[x])
  BY <1>1, <1>4, <1>5, <1>7 DEF SamePlace
<1>8. ASSUME NEW w \in DOMAIN unit, NEW p \in unit[w].members
      PROVE  \E x \in DOMAIN docs : p \in docs[x].members /\ SamePlace(docs[x], unit[w])
  BY <1>1, <1>4, <1>5, <1>8 DEF SamePlace
<1>9. ASSUME ListedOnce(unit) PROVE ListedOnce(docs)
  BY <1>1, <1>3, <1>4, <1>5, <1>9 DEF ListedOnce
<1>10. \A w \in DOMAIN docs : w \in UnitIds /\ w < nextId'
  BY <1>1, <1>2, <1>5 DEF UnitIds, IdsAreSpent
<1>11. nextId' \in Nat /\ nextId <= nextId'
  BY <1>1, <1>2
<1>12. Retains(docs, {u} \cup {nextId})
  BY <1>1, <1>3, <1>4, <1>5 DEF Retains
<1>13. Reseats(docs, {u}, {nextId})
  BY <1>1, <1>6, <1>7, <1>8, <1>9, <1>10, <1>11, <1>12 DEF Reseats, Rearranges
<1>14. QED
  BY <1>13

\* No operation on a unit seats or unseats anybody in a branch or group.
LEMMA UnitStepReseats ==
    ASSUME TypeOK, IdsAreSpent, NEW a \in Actors, NEW u \in DOMAIN unit, UnitStep(a, u)
    PROVE  \E docs, T1, T2 : Reseats(docs, T1, T2)
<1>1. ASSUME NEW name, NEW leader, NEW leaders, Configure(a, u, name, leader, leaders)
      PROVE  \E docs, T1, T2 : Reseats(docs, T1, T2)
  BY <1>1, ConfigureReseats
<1>2. ASSUME NEW fields, NEW name, NEW leader, NEW leaders,
             Update(a, u, fields, name, leader, leaders)
      PROVE  \E docs, T1, T2 : Reseats(docs, T1, T2)
  BY <1>2, UpdateReseats
<1>3. ASSUME NEW staying, SplitMembers(a, u, staying)
      PROVE  \E docs, T1, T2 : Reseats(docs, T1, T2)
  BY <1>3, SplitReseats
<1>4. ASSUME NEW staying, NEW v \in DOMAIN unit, MoveMembers(a, u, staying, v)
      PROVE  \E docs, T1, T2 : Reseats(docs, T1, T2)
  BY <1>4, MoveReseats
<1>5. QED
  BY <1>1, <1>2, <1>3, <1>4, KeepReseats, RemoveReseats DEF UnitStep

----------------------------------------------------------------------------
(* syncMembership on users.unitId.                                         *)

\* Of documents that list nobody twice, two syncs one after the other set what
\* one sync of both sets of units would.
LEMMA SyncedInTurn ==
    ASSUME NEW ptr, NEW T1, NEW T2, NEW docs, docs \in [DOMAIN docs -> UnitDoc],
           ListedOnce(docs)
    PROVE  SyncedPointers(SyncedPointers(ptr, T1, docs), T2, docs)
             = SyncedPointers(ptr, T1 \cup T2, docs)
<1> DEFINE first == SyncedPointers(ptr, T1, docs)
           second == SyncedPointers(first, T2, docs)
           both == SyncedPointers(ptr, T1 \cup T2, docs)
<1>1. ASSUME NEW p \in Persons, ~Exists(p) PROVE second[p] = both[p]
  BY <1>1 DEF SyncedPointers
<1>2. ASSUME NEW p \in Persons, Exists(p) PROVE second[p] = both[p]
  <2> DEFINE In(T) == {u \in T \cap DOMAIN docs : p \in docs[u].members}
  <2>1. /\ In(T1) # {} => first[p] \in In(T1)
        /\ In(T1) = {} => first[p] = IF ptr[p] \in T1 THEN NoUnit ELSE ptr[p]
    BY <1>2, SyncedPointer
  <2>2. /\ In(T1 \cup T2) # {} => both[p] \in In(T1 \cup T2)
        /\ In(T1 \cup T2) = {} =>
             both[p] = IF ptr[p] \in T1 \cup T2 THEN NoUnit ELSE ptr[p]
    BY <1>2, SyncedPointer
  <2>3. PICK middle : middle = first
    OBVIOUS
  <2>4. /\ In(T2) # {} => SyncedPointers(middle, T2, docs)[p] \in In(T2)
        /\ In(T2) = {} => SyncedPointers(middle, T2, docs)[p]
                            = IF middle[p] \in T2 THEN NoUnit ELSE middle[p]
    BY <1>2, SyncedPointer
  <2>5. /\ In(T2) # {} => second[p] \in In(T2)
        /\ In(T2) = {} => second[p] = IF first[p] \in T2 THEN NoUnit ELSE first[p]
    BY <2>3, <2>4
  <2>6. In(T1 \cup T2) = In(T1) \cup In(T2)
    OBVIOUS
  <2>7. \A u, v \in In(T1 \cup T2) : u = v
    BY DEF ListedOnce
  <2>8. \A u \in In(T1) : u \in T2 => u \in In(T2)
    OBVIOUS
  <2> HIDE DEF In, first, second, both
  <2>9. ASSUME In(T2) # {} PROVE second[p] = both[p]
    BY <2>2, <2>5, <2>6, <2>7, <2>9
  <2>10. ASSUME In(T2) = {}, In(T1) # {} PROVE second[p] = both[p]
    BY <2>1, <2>2, <2>5, <2>6, <2>7, <2>8, <2>10
  <2>11. ASSUME In(T2) = {}, In(T1) = {} PROVE second[p] = both[p]
    BY <2>1, <2>2, <2>5, <2>6, <2>11
  <2>12. QED
    BY <2>9, <2>10, <2>11
<1>3. second = [p \in Persons |-> second[p]] /\ both = [p \in Persons |-> both[p]]
  BY DEF SyncedPointers
<1> HIDE DEF second, both
<1>4. second = both
  BY <1>1, <1>2, <1>3
<1>5. QED
  BY <1>4 DEF second, both, first

\* If the pointers mirrored the old units, those synced mirror the new ones.
LEMMA SyncedPointersMirror ==
    ASSUME TypeOK, PointersMirrorMembers, NEW T, NEW docs, Rewrites(docs, T),
           docs \in [DOMAIN docs -> UnitDoc], ListedOnce(docs), NoUnit \notin DOMAIN docs,
           NEW p \in Persons, Exists(p)
    PROVE  /\ \A u \in DOMAIN docs :
                p \in docs[u].members <=> SyncedPointers(unitOf, T, docs)[p] = u
           /\ SyncedPointers(unitOf, T, docs)[p] \in DOMAIN docs \cup {NoUnit}
<1> DEFINE Seats == {u \in T \cap DOMAIN docs : p \in docs[u].members}
           new == SyncedPointers(unitOf, T, docs)[p]
<1>1. /\ Seats # {} => new \in Seats
      /\ Seats = {} => new = IF unitOf[p] \in T THEN NoUnit ELSE unitOf[p]
  BY SyncedPointer
<1>2. /\ \A u \in DOMAIN unit : p \in unit[u].members <=> unitOf[p] = u
      /\ unitOf[p] \in DOMAIN unit \cup {NoUnit}
  BY DEF PointersMirrorMembers
<1>3. \A u \in DOMAIN docs \ T : u \in DOMAIN unit /\ docs[u] = unit[u]
  BY DEF Rewrites
<1>4. DOMAIN unit \ T \subseteq DOMAIN docs
  BY DEF Rewrites
<1> HIDE DEF new
<1>5. CASE Seats # {}
  <2>1. new \in Seats
    BY <1>1, <1>5
  <2>2. \A u \in DOMAIN docs : p \in docs[u].members => u = new
    BY <2>1 DEF ListedOnce
  <2>3. QED
    BY <2>1, <2>2 DEF new
<1>6. CASE Seats = {} /\ unitOf[p] \in T
  <2>1. new = NoUnit
    BY <1>1, <1>6
  <2>2. \A u \in DOMAIN docs : p \notin docs[u].members
    BY <1>2, <1>3, <1>6
  <2>3. QED
    BY <2>1, <2>2 DEF new
<1>7. CASE Seats = {} /\ unitOf[p] \notin T
  <2>1. new = unitOf[p]
    BY <1>1, <1>7
  <2>2. new \in DOMAIN docs \cup {NoUnit}
    BY <1>2, <1>4, <1>7, <2>1
  <2>3. \A u \in DOMAIN docs : p \in docs[u].members <=> new = u
    BY <1>2, <1>3, <1>7, <2>1
  <2>4. QED
    BY <2>2, <2>3 DEF new
<1>8. QED
  BY <1>5, <1>6, <1>7

----------------------------------------------------------------------------
(* What a seeding does to the members.                                     *)

\* The unit a planned unit ends up in.
Landing(pl) == IF BranchUnits(pl) = {} THEN nextId + pl.branch ELSE BranchHost(pl)

\* The oldest unit of a branch is a unit of that branch.
LEMMA HostIsOfTheBranch ==
    ASSUME TypeOK, NEW pl, BranchUnits(pl) # {}
    PROVE  BranchHost(pl) \in BranchUnits(pl)
<1> DEFINE units     == BranchUnits(pl)
           populated == {u \in units : unit[u].members # {}}
           preferred == IF populated # {} THEN populated ELSE units
<1>1. units \subseteq Nat
  BY DEF BranchUnits, TypeOK, UnitIds
<1>2. preferred # {} /\ preferred \subseteq units
  OBVIOUS
<1>3. BranchHost(pl) = CHOOSE u \in preferred : \A v \in preferred : u <= v
  BY DEF BranchHost
<1> HIDE DEF preferred, units
<1>4. preferred \in SUBSET Nat
  BY <1>1, <1>2
<1>5. \E u \in preferred : \A v \in preferred : u <= v
  BY <1>2, <1>4, SmallestExists
<1>6. BranchHost(pl) \in preferred
  BY <1>3, <1>5
<1>7. QED
  BY <1>2, <1>6 DEF units

\* The ids of the units a seeding creates are new.
LEMMA CreatedAreNew ==
    ASSUME TypeOK, IdsAreSpent, NEW r \in Requests, NEW u \in Created(r)
    PROVE  u \notin DOMAIN unit
<1>1. plan[r] \subseteq UnitDoc /\ nextId \in Nat \ {0}
  BY DEF TypeOK, UnitIds
<1>2. \A pl \in plan[r] : pl.branch \in Nat
  BY <1>1, BranchesAssumption DEF UnitDoc, Branches
<1>3. u \in Nat /\ nextId <= u
  BY <1>1, <1>2 DEF Created, Fresh
<1>4. \A v \in DOMAIN unit : v \in Nat /\ v < nextId
  BY DEF IdsAreSpent, TypeOK, UnitIds
<1>5. QED
  BY <1>1, <1>3, <1>4

\* A host keeps its place and its members, and takes in those that join.
LEMMA SeededHost ==
    ASSUME TypeOK, IdsAreSpent, NEW r \in Requests, NEW w \in DOMAIN unit, w \in Hosts(r)
    PROVE  /\ SamePlace(SeededDocs(r)[w], unit[w])
           /\ SeededDocs(r)[w].members
                = unit[w].members
                    \cup UNION {Incoming(pl) : pl \in {q \in Joining(r) : BranchHost(q) = w}}
<1> DEFINE more == UNION {Incoming(pl) : pl \in {q \in Joining(r) : BranchHost(q) = w}}
           doc == SeededDocs(r)[w]
<1>1. unit[w] \in UnitDoc
  BY DEF TypeOK
<1>2. doc = [unit[w] EXCEPT !.members = @ \cup more]
  BY CreatedAreNew DEF SeededDocs
<1> HIDE DEF doc, more
<1>3. SamePlace(doc, unit[w]) /\ doc.members = unit[w].members \cup more
  BY <1>1, <1>2 DEF SamePlace, UnitDoc
<1>4. QED
  BY <1>3 DEF doc, more

\* A seeding keeps everybody in the unit he is in, and puts the people of a planned
\* unit into the unit it lands in.
LEMMA SeededDocsSeat ==
    ASSUME TypeOK, IdsAreSpent, NEW r \in Requests
    PROVE  LET docs == SeededDocs(r) IN
           /\ \A w \in DOMAIN unit : /\ SamePlace(docs[w], unit[w])
                                     /\ unit[w].members \subseteq docs[w].members
           /\ \A v \in DOMAIN docs : \A p \in docs[v].members :
                \/ v \in DOMAIN unit /\ p \in unit[v].members
                \/ \E pl \in plan[r] : /\ p \in pl.members /\ v = Landing(pl)
                                       /\ SamePlace(docs[v], pl)
<1> DEFINE docs == SeededDocs(r)
<1>1. DOMAIN docs = DOMAIN unit \cup Created(r)
  BY SeededDocsType
<1>3. \A u \in Created(r) : u \notin DOMAIN unit
  BY CreatedAreNew
<1>4. ASSUME NEW w \in DOMAIN unit
      PROVE  /\ SamePlace(docs[w], unit[w])
             /\ unit[w].members \subseteq docs[w].members
             /\ \A p \in docs[w].members :
                  \/ p \in unit[w].members
                  \/ \E pl \in plan[r] : /\ p \in pl.members /\ w = Landing(pl)
                                         /\ SamePlace(docs[w], pl)
  <2> DEFINE joins == {q \in Joining(r) : BranchHost(q) = w}
             more == UNION {Incoming(pl) : pl \in joins}
  <2>2. CASE w \in Hosts(r)
    <3>2. SamePlace(docs[w], unit[w]) /\ docs[w].members = unit[w].members \cup more
      BY <2>2, SeededHost
    <3> HIDE DEF docs, more
    <3>3. ASSUME NEW p \in more
          PROVE  \E pl \in plan[r] : /\ p \in pl.members /\ w = Landing(pl)
                                     /\ SamePlace(docs[w], pl)
      <4>1. PICK pl \in joins : p \in Incoming(pl)
        BY <3>3 DEF more
      <4>2. pl \in plan[r] /\ BranchUnits(pl) # {} /\ p \in pl.members
        BY <4>1 DEF Joining, Incoming
      <4>3. w \in BranchUnits(pl) /\ w = Landing(pl)
        BY <4>1, <4>2, HostIsOfTheBranch DEF Landing
      <4>4. SamePlace(docs[w], pl)
        BY <3>2, <4>3 DEF BranchUnits, SamePlace
      <4>5. QED
        BY <4>2, <4>3, <4>4
    <3>4. QED
      BY <3>2, <3>3
  <2>3. CASE w \notin Hosts(r)
    <3>1. docs[w] = unit[w]
      BY <1>3, <2>3 DEF SeededDocs
    <3>2. QED
      BY <3>1 DEF SamePlace
  <2>4. QED
    BY <2>2, <2>3
<1>5. ASSUME NEW v \in Created(r), NEW p \in docs[v].members
      PROVE  \E pl \in plan[r] : /\ p \in pl.members /\ v = Landing(pl)
                                 /\ SamePlace(docs[v], pl)
  <2>1. \E pl \in Fresh(r) : nextId + pl.branch = v
    BY <1>5 DEF Created
  <2>2. docs[v] = CHOOSE pl \in Fresh(r) : nextId + pl.branch = v
    BY <1>5 DEF SeededDocs
  <2> HIDE DEF docs
  <2>3. docs[v] \in Fresh(r) /\ nextId + docs[v].branch = v
    BY <2>1, <2>2
  <2>4. docs[v] \in plan[r] /\ v = Landing(docs[v])
    BY <2>3 DEF Fresh, Landing
  <2>5. QED
    BY <1>5, <2>4 DEF SamePlace, docs
<1> HIDE DEF docs
<1>6. QED
  BY <1>1, <1>4, <1>5 DEF docs

\* A seeding rewrites the units it syncs and no other, all of them its own ids.
LEMMA SeededDocsRewrite ==
    ASSUME TypeOK, IdsAreSpent, NEW r \in Requests, SeedCommit(r)
    PROVE  /\ Rewrites(SeededDocs(r), Created(r) \cup Hosts(r))
           /\ \A v \in DOMAIN SeededDocs(r) : v \in UnitIds /\ v < nextId'
<1> DEFINE docs == SeededDocs(r)
<1>1. DOMAIN docs = DOMAIN unit \cup Created(r) /\ Created(r) \subseteq UnitIds
  BY SeededDocsType
<1>2. \A u \in DOMAIN unit \ (Created(r) \cup Hosts(r)) : docs[u] = unit[u]
  BY DEF SeededDocs
<1> HIDE DEF docs
<1>3. Rewrites(docs, Created(r) \cup Hosts(r))
  BY <1>1, <1>2 DEF Rewrites
<1>4. nextId \in Nat /\ BranchCount \in Nat
  BY BranchesAssumption DEF TypeOK, UnitIds
<1>5. nextId' = IF Fresh(r) = {} THEN nextId ELSE nextId + BranchCount
  BY SeedCommitEffect
<1>6. ASSUME NEW v \in Created(r) PROVE v < nextId'
  <2>1. PICK pl \in Fresh(r) : v = nextId + pl.branch
    BY <1>6 DEF Created
  <2>2. pl.branch \in 0 .. (BranchCount - 1)
    BY <2>1 DEF Fresh, TypeOK, UnitDoc, Branches
  <2>3. QED
    BY <1>4, <1>5, <2>1, <2>2
<1>7. ASSUME NEW v \in DOMAIN unit PROVE v \in UnitIds /\ v < nextId'
  <2>1. v \in UnitIds /\ v \in Nat /\ v < nextId
    BY <1>7 DEF TypeOK, UnitIds, IdsAreSpent
  <2>2. QED
    BY <1>4, <1>5, <2>1
<1>8. QED
  BY <1>1, <1>3, <1>6, <1>7 DEF docs

----------------------------------------------------------------------------
(* The pointers, however many requests seed at a time.                     *)

Unlisted(p) == \A u \in DOMAIN unit : p \notin unit[u].members

NewcomersAreFree ==
    \A p \in Persons : status[p] = "absent" => unitOf[p] = NoUnit /\ Unlisted(p)

\* Each branch is planned once, for people who have come to exist.
PlansAreSound ==
    \A r \in Requests : \A pl \in plan[r] :
        /\ \A q \in plan[r] : q.branch = pl.branch => q = pl
        /\ \A p \in pl.members : status[p] # "absent"

PInv == /\ TypeOK /\ IdsAreSpent
        /\ PlansAreSound /\ NewcomersAreFree /\ PointersNameASeat

\* The pointer names a unit of docs that lists the person, or none does.
NamesASeat(ptr, docs, p) ==
    \/ ptr[p] \in DOMAIN docs /\ p \in docs[ptr[p]].members
    \/ ptr[p] = NoUnit /\ \A u \in DOMAIN docs : p \notin docs[u].members

\* If a pointer named a seat, it still does after the units that changed are
\* synced in two turns, none of which drops whom it found.
LEMMA SyncedPointerNamesASeat ==
    ASSUME TypeOK, NEW ptr, NEW T1, NEW T2, NEW docs, docs \in [DOMAIN docs -> UnitDoc],
           Rewrites(docs, T1 \cup T2), Retains(docs, T1 \cup T2), NoUnit \notin DOMAIN docs,
           NEW synced, synced = SyncedPointers(SyncedPointers(ptr, T1, docs), T2, docs)
    PROVE  \A p \in Persons :
             Exists(p) /\ NamesASeat(ptr, unit, p) => NamesASeat(synced, docs, p)
<1> SUFFICES ASSUME NEW p \in Persons, Exists(p),
                    ListedIn(ptr[p], p) \/ (ptr[p] = NoUnit /\ Unlisted(p))
             PROVE  \/ synced[p] \in DOMAIN docs /\ p \in docs[synced[p]].members
                    \/ synced[p] = NoUnit /\ \A u \in DOMAIN docs : p \notin docs[u].members
  BY DEF NamesASeat, ListedIn, Unlisted
<1> DEFINE In(T) == {u \in T \cap DOMAIN docs : p \in docs[u].members}
           first == SyncedPointers(ptr, T1, docs)
           new == synced[p]
<1>1. /\ In(T1) # {} => first[p] \in In(T1)
      /\ In(T1) = {} => first[p] = IF ptr[p] \in T1 THEN NoUnit ELSE ptr[p]
  BY SyncedPointer
<1>2. /\ In(T2) # {} => new \in In(T2)
      /\ In(T2) = {} => new = IF first[p] \in T2 THEN NoUnit ELSE first[p]
  <2>1. PICK middle : middle = first
    OBVIOUS
  <2>2. /\ In(T2) # {} => SyncedPointers(middle, T2, docs)[p] \in In(T2)
        /\ In(T2) = {} => SyncedPointers(middle, T2, docs)[p]
                            = IF middle[p] \in T2 THEN NoUnit ELSE middle[p]
    BY SyncedPointer
  <2>3. QED
    BY <2>1, <2>2
<1> HIDE DEF first, new
<1>3. CASE In(T2) # {}
  BY <1>2, <1>3 DEF new, first
<1>4. CASE In(T2) = {} /\ In(T1) # {}
  <2>1. new = first[p] /\ first[p] \in In(T1)
    BY <1>1, <1>2, <1>4
  <2>2. QED
    BY <2>1 DEF new, first
<1>5. CASE In(T2) = {} /\ In(T1) = {}
  <2>1. \A u \in (T1 \cup T2) \cap DOMAIN docs : p \notin docs[u].members
    BY <1>5
  <2>2. \A u \in (T1 \cup T2) \cap DOMAIN unit : p \notin unit[u].members
    BY <2>1 DEF Retains
  <2>3. CASE ListedIn(ptr[p], p)
    <3>1. ptr[p] \in DOMAIN unit /\ ptr[p] \notin T1 \cup T2 /\ p \in unit[ptr[p]].members
      BY <2>2, <2>3 DEF ListedIn
    <3>2. new = ptr[p]
      BY <1>1, <1>2, <1>5, <3>1
    <3>3. ptr[p] \in DOMAIN docs /\ docs[ptr[p]] = unit[ptr[p]]
      BY <3>1 DEF Rewrites
    <3>4. new \in DOMAIN docs /\ p \in docs[new].members
      BY <3>1, <3>2, <3>3
    <3>5. QED
      BY <3>4 DEF new, first
  <2>4. CASE ptr[p] = NoUnit /\ Unlisted(p)
    <3>1. new = NoUnit
      BY <1>1, <1>2, <1>5, <2>4
    <3>2. \A u \in DOMAIN docs : p \notin docs[u].members
      BY <2>1, <2>4 DEF Rewrites, Unlisted
    <3>3. QED
      BY <3>1, <3>2 DEF new, first
  <2>5. QED
    BY <2>3, <2>4
<1>6. QED
  BY <1>3, <1>4, <1>5

\* A planned person is in a unit once the plan is committed.
LEMMA SeededDocsLand ==
    ASSUME TypeOK, IdsAreSpent, PlansAreSound, NEW r \in Requests, NEW pl \in plan[r], NEW p \in pl.members
    PROVE  \E v \in DOMAIN SeededDocs(r) : p \in SeededDocs(r)[v].members
<1> DEFINE docs == SeededDocs(r)
<1>1. DOMAIN docs = DOMAIN unit \cup Created(r)
  BY SeededDocsType
<1>2. CASE BranchUnits(pl) = {}
  <2>1. pl \in Fresh(r)
    BY <1>2 DEF Fresh
  <2>2. PICK v : v = nextId + pl.branch
    OBVIOUS
  <2>3. v \in Created(r)
    BY <2>1, <2>2 DEF Created
  <2>4. docs[v] = CHOOSE q \in Fresh(r) : nextId + q.branch = v
    BY <2>3 DEF SeededDocs
  <2>5. \A q \in Fresh(r) : nextId + q.branch = v => q = pl
    <3>1. plan[r] \subseteq UnitDoc /\ nextId \in Nat
      BY DEF TypeOK, UnitIds
    <3>2. \A q \in plan[r] : q.branch \in Nat
      BY <3>1, BranchesAssumption DEF UnitDoc, Branches
    <3>3. QED
      BY <2>2, <3>1, <3>2 DEF Fresh, PlansAreSound
  <2>6. docs[v] = pl
    BY <2>1, <2>2, <2>4, <2>5
  <2>7. QED
    BY <1>1, <2>3, <2>6
<1>3. CASE BranchUnits(pl) # {}
  <2>1. PICK w : w = BranchHost(pl)
    OBVIOUS
  <2>2. w \in DOMAIN unit
    BY <1>3, <2>1, HostIsOfTheBranch DEF BranchUnits
  <2>3. CASE p \in unit[w].members
    <3>1. unit[w].members \subseteq SeededDocs(r)[w].members
      BY <2>2, SeededDocsSeat
    <3>2. QED
      BY <1>1, <2>2, <2>3, <3>1
  <2>4. CASE p \notin unit[w].members
    <3>1. p \in Incoming(pl)
      BY <2>1, <2>4 DEF Incoming
    <3>2. pl \in Joining(r) /\ w \in Hosts(r)
      BY <1>3, <2>1, <3>1 DEF Joining, Hosts
    <3>3. SeededDocs(r)[w].members = unit[w].members \cup
              UNION {Incoming(q) : q \in {s \in Joining(r) : BranchHost(s) = w}}
      BY <2>2, <3>2, SeededHost
    <3>4. QED
      BY <1>1, <2>1, <2>2, <3>1, <3>2, <3>3
  <2>5. QED
    BY <2>3, <2>4
<1>4. QED
  BY <1>2, <1>3

\* Nobody named by a plan is unborn, and a branch is planned once.
LEMMA SeedReadPlans ==
    ASSUME TypeOK, PlansAreSound, NEW r \in Requests, NEW g \in Groups, SeedRead(r, g)
    PROVE  PlansAreSound'
<1>1. UNCHANGED status
  BY DEF SeedRead, people
<1> DEFINE branches == {BranchOf(p) : p \in Pending(g)}
<1>2. PICK lead \in [branches -> AdultsOf(g)] :
        plan' = [plan EXCEPT ![r] = {PlannedUnit(g, b, lead[b]) : b \in branches}]
  BY DEF SeedRead
<1> HIDE DEF branches
<1>3. plan'[r] = {PlannedUnit(g, b, lead[b]) : b \in branches}
  BY <1>2 DEF TypeOK
<1>4. \A s \in Requests : s # r => plan'[s] = plan[s]
  BY <1>2 DEF TypeOK
<1>5. ASSUME NEW pl \in plan'[r]
      PROVE  /\ \A q \in plan'[r] : q.branch = pl.branch => q = pl
             /\ \A p \in pl.members : status[p] # "absent"
  <2>1. PICK b \in branches : pl = PlannedUnit(g, b, lead[b])
    BY <1>3, <1>5
  <2>2. pl.branch = b /\ \A p \in pl.members : p \in Pending(g)
    BY <2>1 DEF PlannedUnit
  <2>3. ASSUME NEW q \in plan'[r], q.branch = pl.branch PROVE q = pl
    <3>1. PICK c \in branches : q = PlannedUnit(g, c, lead[c])
      BY <1>3, <2>3
    <3>2. c = b
      BY <2>2, <2>3, <3>1 DEF PlannedUnit
    <3>3. QED
      BY <2>1, <3>1, <3>2
  <2>4. \A p \in pl.members : status[p] # "absent"
    BY <2>2 DEF Pending, Active
  <2>5. QED
    BY <2>3, <2>4
<1>6. QED
  BY <1>1, <1>4, <1>5 DEF PlansAreSound

\* At the start there are no units and no plans.
LEMMA PInvInit == Init => PInv
<1> SUFFICES ASSUME Init PROVE PInv
  OBVIOUS
<1>1. TypeOK
  BY TypeInit
<1>2. DOMAIN unit = {} /\ plan = [r \in Requests |-> {}]
      /\ unitOf = [p \in Persons |-> NoUnit]
  BY DEF Init
<1>3. QED
  BY <1>1, <1>2 DEF PInv, IdsAreSpent, PlansAreSound, NewcomersAreFree,
                    PointersNameASeat, Unlisted, ListedIn

\* What a step has to do to keep the invariant, if it syncs units.
LEMMA SyncKeeps ==
    ASSUME PInv, TypeOK', IdsAreSpent', PlansAreSound', UNCHANGED status,
           NEW docs, NEW T1, NEW T2, unit' = docs,
           unitOf' = SyncedPointers(SyncedPointers(unitOf, T1, docs), T2, docs),
           Rewrites(docs, T1 \cup T2), Retains(docs, T1 \cup T2),
           \A p \in Persons : status[p] = "absent" /\ Unlisted(p) => Unlisted(p)'
    PROVE  PInv'
<1>1. TypeOK /\ NewcomersAreFree /\ PointersNameASeat
  BY DEF PInv
<1>2. docs \in [DOMAIN docs -> UnitDoc] /\ NoUnit \notin DOMAIN docs
  BY DEF TypeOK, UnitIds, NoUnit
<1>3. \A p \in Persons : Exists(p) /\ NamesASeat(unitOf, unit, p) => NamesASeat(unitOf', docs, p)
  <2>1. PICK ptr, synced : ptr = unitOf /\ synced = unitOf'
    OBVIOUS
  <2>2. synced = SyncedPointers(SyncedPointers(ptr, T1, docs), T2, docs)
    BY <2>1
  <2>3. \A p \in Persons : Exists(p) /\ NamesASeat(ptr, unit, p) => NamesASeat(synced, docs, p)
    BY <1>1, <1>2, <2>2, SyncedPointerNamesASeat
  <2>4. QED
    BY <2>1, <2>3
<1>4. PointersNameASeat'
  <2> SUFFICES ASSUME NEW p \in Persons \ Patched, Exists(p)
               PROVE  NamesASeat(unitOf', docs, p)
    BY DEF PointersNameASeat, NamesASeat, Exists, ListedIn
  <2>1. NamesASeat(unitOf, unit, p)
    BY <1>1 DEF PointersNameASeat, NamesASeat, ListedIn
  <2>2. QED
    BY <1>3, <2>1
<1>5. NewcomersAreFree'
  <2> SUFFICES ASSUME NEW p \in Persons, status[p] = "absent"
               PROVE  unitOf'[p] = NoUnit /\ Unlisted(p)'
    BY DEF NewcomersAreFree
  <2>1. unitOf'[p] = unitOf[p]
    BY DEF SyncedPointers, Exists
  <2>2. QED
    BY <1>1, <2>1 DEF NewcomersAreFree
<1>6. QED
  BY <1>4, <1>5 DEF PInv

\* An operation on a unit drops nobody from the units it syncs.
LEMMA ReseatingKeepsPointers ==
    ASSUME PInv, NEW docs, NEW T1, NEW T2, Reseats(docs, T1, T2), TypeOK'
    PROVE  PInv'
<1>1. /\ unit' = docs /\ UNCHANGED <<status, plan>>
      /\ unitOf' = SyncedPointers(SyncedPointers(unitOf, T1, docs), T2, docs)
  BY DEF Reseats, Resync, people
<1>2. \A p : Unlisted(p) => Unlisted(p)'
  BY <1>1 DEF Unlisted, Reseats, Rearranges
<1>3. IdsAreSpent' /\ PlansAreSound'
  BY <1>1 DEF PInv, PlansAreSound, IdsAreSpent, Reseats
<1>4. Rewrites(docs, T1 \cup T2) /\ Retains(docs, T1 \cup T2)
  BY DEF Reseats
<1>5. QED
  BY <1>1, <1>2, <1>3, <1>4, SyncKeeps

\* Nor does a seeding, which lists whom it plans beside those who are there.
LEMMA SeedCommitKeepsPointers ==
    ASSUME PInv, NEW r \in Requests, SeedCommit(r), TypeOK'
    PROVE  PInv'
<1>1. TypeOK /\ IdsAreSpent /\ PlansAreSound
  BY DEF PInv
<1>2. PICK docs, T : docs = SeededDocs(r) /\ T = Created(r) \cup Hosts(r)
  OBVIOUS
<1>3. /\ unit' = docs /\ unitOf' = SyncedPointers(unitOf, T, docs)
      /\ plan' = [plan EXCEPT ![r] = {}] /\ UNCHANGED status
  BY <1>2, SeedCommitEffect DEF people
<1>4. /\ Rewrites(docs, T)
      /\ \A v \in DOMAIN docs : v \in UnitIds /\ v < nextId'
  BY <1>1, <1>2, SeededDocsRewrite
<1>5. /\ DOMAIN unit \subseteq DOMAIN docs
      /\ \A w \in DOMAIN unit : unit[w].members \subseteq docs[w].members
      /\ \A v \in DOMAIN docs : \A p \in docs[v].members :
           \/ v \in DOMAIN unit /\ p \in unit[v].members
           \/ \E pl \in plan[r] : p \in pl.members
  BY <1>1, <1>2, SeededDocsSeat, SeededDocsType
<1>6. Retains(docs, {} \cup T) /\ Rewrites(docs, {} \cup T)
  BY <1>4, <1>5 DEF Retains, Rewrites
<1>7. SyncedPointers(unitOf, {}, docs) = unitOf
  <2>1. unitOf \in [Persons -> UnitIds \cup {NoUnit}]
    BY <1>1 DEF TypeOK
  <2>2. SyncedPointers(unitOf, {}, docs) = [p \in Persons |-> unitOf[p]]
    BY DEF SyncedPointers
  <2>3. QED
    BY <2>1, <2>2
<1>8. unitOf' = SyncedPointers(SyncedPointers(unitOf, {}, docs), T, docs)
  BY <1>3, <1>7
<1>9. PlansAreSound'
  BY <1>1, <1>3 DEF PlansAreSound, TypeOK
<1>10. \A p \in Persons : status[p] = "absent" /\ Unlisted(p) => Unlisted(p)'
  <2>1. \A p : status[p] = "absent" => \A pl \in plan[r] : p \notin pl.members
    BY <1>1 DEF PlansAreSound
  <2>2. QED
    BY <1>3, <1>5, <2>1 DEF Unlisted
<1>11. IdsAreSpent'
  BY <1>3, <1>4 DEF IdsAreSpent
<1>12. QED
  BY <1>3, <1>6, <1>8, <1>9, <1>10, <1>11, SyncKeeps

\* The panel, the sync and the deletions leave the seats alone; only PATCH unitId
\* moves a pointer.
LEMMA PeopleStepKeepsPointers ==
    ASSUME PInv, NEW x \in Persons, PeopleStep(x), TypeOK'
    PROVE  PInv'
<1>1. TypeOK /\ IdsAreSpent /\ PlansAreSound /\ NewcomersAreFree /\ PointersNameASeat
  BY DEF PInv
<1>2. UNCHANGED <<unit, nextId, plan>>
  BY DEF PeopleStep, Arrive, SetEstado, RemoveUser, PatchUnitId, PatchProfile, Synchronize
<1>3. /\ \A p \in Persons : status'[p] = "absent" => status[p] = "absent"
      /\ \A p \in Persons :
           \/ unitOf'[p] = unitOf[p] /\ (Exists(p) <=> Exists(p)')
           \/ status'[p] = "removed"
           \/ status[p] = "absent" /\ unitOf'[p] = unitOf[p]
           \/ p \in Patched /\ status[p] # "absent"
  <2>1. CASE Arrive(x)
    BY <1>1, <2>1 DEF Arrive, TypeOK, Exists
  <2>2. CASE SetEstado(x)
    BY <1>1, <2>2 DEF SetEstado, TypeOK, Exists
  <2>3. CASE RemoveUser(x)
    BY <1>1, <2>3 DEF RemoveUser, TypeOK, Exists
  <2>4. ASSUME NEW g, NEW titles, PatchProfile(x, g, titles)
        PROVE  UNCHANGED <<status, unitOf>>
    BY <2>4 DEF PatchProfile
  <2>5. ASSUME NEW g, NEW report, Synchronize(x, g, report)
        PROVE  UNCHANGED <<status, unitOf>>
    BY <2>5 DEF Synchronize
  <2>6. ASSUME NEW u, PatchUnitId(x, u)
        PROVE  /\ UNCHANGED status /\ x \in Patched /\ Exists(x)
               /\ \A p \in Persons \ {x} : unitOf'[p] = unitOf[p]
    BY <1>1, <2>6 DEF PatchUnitId, people, TypeOK
  <2>7. QED
    BY <2>1, <2>2, <2>3, <2>4, <2>5, <2>6 DEF PeopleStep, Exists
<1>4. \A p : Unlisted(p)' <=> Unlisted(p)
  BY <1>2 DEF Unlisted
<1>5. PlansAreSound'
  <2>1. \A r \in Requests : \A pl \in plan[r] : pl.members \subseteq Persons
    BY <1>1 DEF TypeOK, UnitDoc
  <2>2. QED
    BY <1>1, <1>2, <1>3, <2>1 DEF PlansAreSound
<1>6. NewcomersAreFree'
  BY <1>1, <1>3, <1>4 DEF NewcomersAreFree, Exists
<1>7. PointersNameASeat'
  <2> SUFFICES ASSUME NEW p \in Persons \ Patched, Exists(p)'
               PROVE  ListedIn(unitOf'[p], p) \/ (unitOf'[p] = NoUnit /\ Unlisted(p))
    BY <1>2 DEF PointersNameASeat, ListedIn, Unlisted
  <2>1. CASE unitOf'[p] = unitOf[p] /\ Exists(p)
    BY <1>1, <2>1 DEF PointersNameASeat, ListedIn, Unlisted
  <2>2. CASE status[p] = "absent" /\ unitOf'[p] = unitOf[p]
    BY <1>1, <2>2 DEF NewcomersAreFree
  <2>3. QED
    BY <1>3, <2>1, <2>2 DEF Exists
<1>8. IdsAreSpent'
  BY <1>1, <1>2 DEF IdsAreSpent
<1>9. QED
  BY <1>5, <1>6, <1>7, <1>8 DEF PInv

\* Steps that touch neither the units nor the pointers, and drop a plan at most.
LEMMA RestKeepsPointers ==
    ASSUME PInv, UNCHANGED <<unit, nextId, unitOf, status>>, TypeOK', PlansAreSound'
    PROVE  PInv'
BY DEF PInv, IdsAreSpent, NewcomersAreFree, PointersNameASeat, Unlisted, Exists, ListedIn

\* The invariant is inductive, for any number of requests.
LEMMA PInvNext == ASSUME PInv, [Next]_vars PROVE PInv'
<1>1. TypeOK /\ IdsAreSpent /\ PlansAreSound /\ TypeOK'
  BY TypeNext DEF PInv
<1>2. ASSUME NEW r \in Requests, SeedStep(r) PROVE PInv'
  <2>1. ASSUME SeedBegin(r) \/ SeedLost(r) PROVE PInv'
    <3>1. /\ UNCHANGED <<unit, nextId, unitOf, status>>
          /\ \A s \in Requests : plan'[s] \subseteq plan[s]
      BY <1>1, <2>1 DEF SeedBegin, SeedLost, people, TypeOK
    <3>2. QED
      BY <1>1, <3>1, RestKeepsPointers DEF PlansAreSound
  <2>2. ASSUME NEW g \in Groups, SeedRead(r, g) PROVE PInv'
    <3>1. UNCHANGED <<unit, nextId, unitOf, status>>
      BY <2>2 DEF SeedRead, people
    <3>2. QED
      BY <1>1, <2>2, <3>1, SeedReadPlans, RestKeepsPointers
  <2>3. QED
    BY <1>1, <1>2, <2>1, <2>2, SeedCommitKeepsPointers DEF SeedStep
<1>3. ASSUME NEW a \in Actors, NEW u \in DOMAIN unit, UnitStep(a, u) PROVE PInv'
  BY <1>1, <1>3, UnitStepReseats, ReseatingKeepsPointers
<1>4. ASSUME NEW a \in Actors, NEW b \in Branches, DeclareLeadership(a, b) PROVE PInv'
  BY <1>1, <1>4, RestKeepsPointers DEF DeclareLeadership, PlansAreSound
<1>5. ASSUME NEW x \in Persons, PeopleStep(x) PROVE PInv'
  BY <1>1, <1>5, PeopleStepKeepsPointers
<1>6. CASE UNCHANGED vars
  BY <1>1, <1>6, RestKeepsPointers DEF vars, people, PlansAreSound
<1>7. QED
  BY <1>2, <1>3, <1>4, <1>5, <1>6 DEF Next

\* However many requests seed at once, from plans however stale, and whatever the
\* sync and the panel make of the people: a pointer nobody patches by hand names a
\* unit that lists its person, and whoever has none is in no unit.
THEOREM PointersNameSeats == Spec => []PointersNameASeat
<1>1. Init => PInv
  BY PInvInit
<1>2. PInv /\ [Next]_vars => PInv'
  BY PInvNext
<1>3. PInv => PointersNameASeat
  BY DEF PInv
<1>4. QED
  BY <1>1, <1>2, <1>3, PTL DEF Spec

\* A plan that goes without its people having units was undone by a name.
LEMMA PlanEnds ==
    ASSUME PInv, PInv', [Next]_vars, NEW r \in Requests,
           NEW p \in Planned(r), p \notin Planned(r)', p \notin Patched, Exists(p)
    PROVE  unitOf'[p] # NoUnit \/ Undone(r)
<1>1. TypeOK /\ IdsAreSpent /\ PlansAreSound /\ TypeOK' /\ PointersNameASeat'
  BY DEF PInv
<1>2. PICK pl \in plan[r] : p \in pl.members
  BY DEF Planned
<1>3. plan'[r] # plan[r]
  BY DEF Planned
<1>4. p \in Persons
  BY <1>1, <1>2 DEF TypeOK, UnitDoc
<1>5. SeedCommit(r) \/ SeedLost(r)
  <2>1. ASSUME NEW s \in Requests, SeedStep(s) PROVE SeedCommit(r) \/ SeedLost(r)
    <3>1. ASSUME NEW g, SeedRead(s, g) PROVE FALSE
      <4>1. plan'[r] = plan[r] \/ (s = r /\ plan[r] = {})
        BY <1>1, <3>1 DEF SeedRead, TypeOK
      <4>2. QED
        BY <1>2, <1>3, <4>1
    <3>2. CASE SeedBegin(s)
      BY <1>3, <3>2 DEF SeedBegin
    <3>3. ASSUME SeedCommit(s) \/ SeedLost(s) PROVE s = r
      BY <1>1, <1>3, <3>3 DEF SeedCommit, SeedLost, TypeOK
    <3>4. QED
      BY <2>1, <3>1, <3>2, <3>3 DEF SeedStep
  <2>2. ASSUME NEW a \in Actors, NEW u \in DOMAIN unit, UnitStep(a, u) PROVE FALSE
    BY <1>1, <1>3, <2>2, UnitStepReseats DEF Reseats, Resync
  <2>3. ASSUME NEW x \in Persons, PeopleStep(x) PROVE FALSE
    BY <1>3, <2>3 DEF PeopleStep, Arrive, SetEstado, RemoveUser, PatchUnitId,
                      PatchProfile, Synchronize
  <2>4. QED
    BY <1>3, <2>1, <2>2, <2>3 DEF Next, DeclareLeadership, vars
<1>6. CASE SeedCommit(r)
  <2>1. PICK docs : docs = SeededDocs(r)
    OBVIOUS
  <2>2. unit' = docs /\ UNCHANGED status
    BY <1>6, <2>1, SeedCommitEffect DEF people
  <2>3. \E v \in DOMAIN docs : p \in docs[v].members
    BY <1>1, <1>2, <2>1, SeededDocsLand
  <2>4. ListedIn(unitOf[p], p)'
    BY <1>1, <1>4, <2>2, <2>3 DEF PointersNameASeat, Exists, ListedIn
  <2>5. QED
    BY <1>1, <2>4 DEF ListedIn, TypeOK, UnitIds, NoUnit
<1>7. CASE SeedLost(r)
  <2>1. PICK q \in plan[r] : /\ \A u \in BranchUnits(q) : u >= began[r]
                             /\ NameTaken(q.group, q.name, DOMAIN unit)
    BY <1>7 DEF SeedLost
  <2>2. PICK u \in DOMAIN unit : unit[u].group = q.group /\ unit[u].name = q.name
    BY <2>1 DEF NameTaken
  <2>3. unit[u].branch # q.branch \/ (began[r] # 0 /\ u >= began[r])
    BY <1>7, <2>1, <2>2 DEF SeedLost, BranchUnits
  <2>4. QED
    BY <2>1, <2>2, <2>3 DEF Undone
<1>8. QED
  BY <1>5, <1>6, <1>7

\* Whomever a listing planned to seat has a unit when it is through with the plan,
\* unless deleted or undone by a name, for any number of listings at a time.
THEOREM PlansSeat == Spec => SeatedUnlessUndone
<1>1. Init => PInv
  BY PInvInit
<1>2. PInv /\ [Next]_vars => PInv'
  BY PInvNext
<1>3. PInv /\ PInv' /\ [Next]_vars =>
        [\A r \in Requests : \A p \in Planned(r) \ (Planned(r)' \cup Patched) :
           unitOf'[p] # NoUnit \/ ~Exists(p) \/ Undone(r)]_vars
  BY PlanEnds
<1>4. QED
  BY <1>1, <1>2, <1>3, PTL DEF Spec, SeatedUnlessUndone

----------------------------------------------------------------------------
(* The pointers, while one request at a time seeds and nobody patches them. *)

\* Whom a plan means to seat is in no unit yet, and in one planned unit only.
PlansAreOpen ==
    \A r \in Requests : \A pl \in plan[r] : \A p \in pl.members :
        /\ \A q \in plan[r] : p \in q.members => q = pl
        /\ status[p] # "absent" /\ Unlisted(p)

UInv == /\ TypeOK /\ IdsAreSpent /\ ListedOnce(unit)
        /\ PlansAreOpen /\ NewcomersAreFree /\ PointersMirrorMembers

\* At the start there are no units and no plans.
LEMMA UInvInit == Init => UInv
<1> SUFFICES ASSUME Init PROVE UInv
  OBVIOUS
<1>1. TypeOK
  BY TypeInit
<1>2. DOMAIN unit = {} /\ plan = [r \in Requests |-> {}]
      /\ unitOf = [p \in Persons |-> NoUnit]
  BY DEF Init
<1>3. QED
  BY <1>1, <1>2 DEF UInv, IdsAreSpent, ListedOnce, PlansAreOpen, NewcomersAreFree,
                    PointersMirrorMembers, Unlisted

\* A document set that lists nobody new, with its units synced, keeps the invariant.
LEMMA ReseatingKeeps ==
    ASSUME UInv, NEW docs, NEW T1, NEW T2, Reseats(docs, T1, T2), TypeOK'
    PROVE  UInv'
<1>1. /\ TypeOK /\ IdsAreSpent /\ ListedOnce(unit) /\ PlansAreOpen
      /\ NewcomersAreFree /\ PointersMirrorMembers
  BY DEF UInv
<1>2. /\ unit' = docs /\ UNCHANGED <<status, plan>>
      /\ unitOf' = SyncedPointers(SyncedPointers(unitOf, T1, docs), T2, docs)
  BY DEF Reseats, Resync, people
<1>3. ListedOnce(docs)
  BY <1>1 DEF Reseats, Rearranges
<1>4. docs \in [DOMAIN docs -> UnitDoc]
  BY <1>2 DEF TypeOK
<1>5. unitOf' = SyncedPointers(unitOf, T1 \cup T2, docs)
  BY <1>2, <1>3, <1>4, SyncedInTurn
<1>6. NoUnit \notin DOMAIN docs
  BY DEF Reseats, UnitIds, NoUnit
<1>7. PointersMirrorMembers'
  <2> SUFFICES ASSUME NEW p \in Persons, Exists(p)
               PROVE  /\ \A u \in DOMAIN docs : p \in docs[u].members <=> unitOf'[p] = u
                      /\ unitOf'[p] \in DOMAIN docs \cup {NoUnit}
    BY <1>2 DEF PointersMirrorMembers, Exists
  <2>1. Rewrites(docs, T1 \cup T2)
    BY DEF Reseats
  <2>2. QED
    BY <1>1, <1>3, <1>5, <1>6, <1>4, <2>1, SyncedPointersMirror
<1>8. \A p : Unlisted(p) => Unlisted(p)'
  BY <1>2 DEF Unlisted, Reseats, Rearranges
<1>9. PlansAreOpen'
  BY <1>1, <1>2, <1>8 DEF PlansAreOpen
<1>10. NewcomersAreFree'
  <2> SUFFICES ASSUME NEW p \in Persons, status[p] = "absent"
               PROVE  unitOf'[p] = NoUnit /\ Unlisted(p)'
    BY <1>2 DEF NewcomersAreFree
  <2>1. unitOf'[p] = unitOf[p]
    BY <1>5 DEF SyncedPointers, Exists
  <2>2. QED
    BY <1>1, <1>8, <2>1 DEF NewcomersAreFree
<1>11. IdsAreSpent' /\ ListedOnce(unit)'
  BY <1>2, <1>3 DEF IdsAreSpent, ListedOnce, Reseats
<1>12. QED
  BY <1>7, <1>9, <1>10, <1>11 DEF UInv

\* seedGroup plans people who point to no unit, and those are in none.
LEMMA SeedReadKeeps ==
    ASSUME UInv, NEW r \in Requests, NEW g \in Groups, SeedRead(r, g), TypeOK'
    PROVE  UInv'
<1>1. /\ TypeOK /\ IdsAreSpent /\ ListedOnce(unit) /\ PlansAreOpen
      /\ NewcomersAreFree /\ PointersMirrorMembers
  BY DEF UInv
<1>2. UNCHANGED <<unit, nextId, unitOf, status>>
  BY DEF SeedRead, people
<1> DEFINE branches == {BranchOf(p) : p \in Pending(g)}
<1>3. PICK lead \in [branches -> AdultsOf(g)] :
        plan' = [plan EXCEPT ![r] = {PlannedUnit(g, b, lead[b]) : b \in branches}]
  BY DEF SeedRead
<1> HIDE DEF branches
<1>4. plan'[r] = {PlannedUnit(g, b, lead[b]) : b \in branches}
  BY <1>1, <1>3 DEF TypeOK
<1>5. \A s \in Requests : s # r => plan'[s] = plan[s]
  BY <1>1, <1>3 DEF TypeOK
<1>6. ASSUME NEW p \in Pending(g) PROVE status[p] # "absent" /\ Unlisted(p)
  <2>1. p \in Persons /\ status[p] = "active" /\ unitOf[p] = NoUnit
    BY DEF Pending, Active
  <2>2. \A u \in DOMAIN unit : u # NoUnit
    BY <1>1 DEF TypeOK, UnitIds, NoUnit
  <2>3. QED
    BY <1>1, <2>1, <2>2 DEF PointersMirrorMembers, Exists, Unlisted
<1>7. ASSUME NEW pl \in plan'[r], NEW p \in pl.members
      PROVE  /\ \A q \in plan'[r] : p \in q.members => q = pl
             /\ status[p] # "absent" /\ Unlisted(p)
  <2>1. PICK b \in branches : pl = PlannedUnit(g, b, lead[b])
    BY <1>4, <1>7
  <2>2. p \in Pending(g) /\ BranchOf(p) = b
    BY <1>7, <2>1 DEF PlannedUnit
  <2>3. ASSUME NEW q \in plan'[r], p \in q.members PROVE q = pl
    <3>1. PICK c \in branches : q = PlannedUnit(g, c, lead[c])
      BY <1>4, <2>3
    <3>2. c = b
      BY <2>2, <2>3, <3>1 DEF PlannedUnit
    <3>3. QED
      BY <2>1, <3>1, <3>2
  <2>4. QED
    BY <1>6, <2>2, <2>3
<1>8. PlansAreOpen'
  BY <1>1, <1>2, <1>5, <1>7 DEF PlansAreOpen, Unlisted
<1>9. QED
  BY <1>1, <1>2, <1>8 DEF UInv, IdsAreSpent, ListedOnce, NewcomersAreFree,
                          PointersMirrorMembers, Unlisted, Exists

\* applySeedPlan seats people who are in no unit, each in one.
LEMMA SeedCommitKeeps ==
    ASSUME \A r, s \in Requests : r = s,
           UInv, NEW r \in Requests, SeedCommit(r), TypeOK'
    PROVE  UInv'
<1>1. /\ TypeOK /\ IdsAreSpent /\ ListedOnce(unit) /\ PlansAreOpen
      /\ NewcomersAreFree /\ PointersMirrorMembers
  BY DEF UInv
<1>2. PICK docs, T : docs = SeededDocs(r) /\ T = Created(r) \cup Hosts(r)
  OBVIOUS
<1>3. /\ unit' = docs /\ unitOf' = SyncedPointers(unitOf, T, docs)
      /\ plan' = [plan EXCEPT ![r] = {}] /\ UNCHANGED status
  BY <1>2, SeedCommitEffect DEF people
<1>4. /\ Rewrites(docs, T)
      /\ \A v \in DOMAIN docs : v \in UnitIds /\ v < nextId'
  BY <1>1, <1>2, SeededDocsRewrite
<1>5. \A v \in DOMAIN docs : \A p \in docs[v].members :
        \/ v \in DOMAIN unit /\ p \in unit[v].members
        \/ \E pl \in plan[r] : p \in pl.members /\ v = Landing(pl)
  BY <1>1, <1>2, SeededDocsSeat
<1>6. ListedOnce(docs)
  <2> SUFFICES ASSUME NEW u \in DOMAIN docs, NEW v \in DOMAIN docs,
                      NEW p, p \in docs[u].members, p \in docs[v].members
               PROVE  u = v
    BY DEF ListedOnce
  <2>1. CASE \E pl \in plan[r] : p \in pl.members
    <3>1. PICK pl \in plan[r] : p \in pl.members
      BY <2>1
    <3>2. \A q \in plan[r] : p \in q.members => q = pl
      BY <1>1, <3>1 DEF PlansAreOpen
    <3>3. \A w \in DOMAIN unit : p \notin unit[w].members
      BY <1>1, <3>1 DEF PlansAreOpen, Unlisted
    <3>4. QED
      BY <1>5, <3>2, <3>3
  <2>2. CASE ~\E pl \in plan[r] : p \in pl.members
    BY <1>1, <1>5, <2>2 DEF ListedOnce
  <2>3. QED
    BY <2>1, <2>2
<1>7. NoUnit \notin DOMAIN docs /\ docs \in [DOMAIN docs -> UnitDoc]
  BY <1>3, <1>4 DEF UnitIds, NoUnit, TypeOK
<1>8. PointersMirrorMembers'
  <2> SUFFICES ASSUME NEW p \in Persons, Exists(p)
               PROVE  /\ \A u \in DOMAIN docs : p \in docs[u].members <=> unitOf'[p] = u
                      /\ unitOf'[p] \in DOMAIN docs \cup {NoUnit}
    BY <1>3 DEF PointersMirrorMembers, Exists
  <2>1. QED
    BY <1>1, <1>3, <1>4, <1>6, <1>7, SyncedPointersMirror
<1>9. PlansAreOpen'
  <2>1. \A s \in Requests : plan'[s] = {}
    BY <1>1, <1>3 DEF TypeOK
  <2>2. QED
    BY <2>1 DEF PlansAreOpen
<1>10. NewcomersAreFree'
  <2> SUFFICES ASSUME NEW p \in Persons, status[p] = "absent"
               PROVE  unitOf'[p] = NoUnit /\ Unlisted(p)'
    BY <1>3 DEF NewcomersAreFree
  <2>1. unitOf'[p] = unitOf[p]
    BY <1>3 DEF SyncedPointers, Exists
  <2>2. \A pl \in plan[r] : p \notin pl.members
    BY <1>1 DEF PlansAreOpen
  <2>3. unitOf[p] = NoUnit /\ Unlisted(p)
    BY <1>1 DEF NewcomersAreFree
  <2>4. QED
    BY <1>3, <1>5, <2>1, <2>2, <2>3 DEF Unlisted
<1>11. IdsAreSpent' /\ ListedOnce(unit)'
  BY <1>3, <1>4, <1>6 DEF IdsAreSpent, ListedOnce
<1>12. QED
  BY <1>8, <1>9, <1>10, <1>11 DEF UInv

\* What others do to people leaves the seats alone, as long as nobody patches unitId.
LEMMA PeopleStepKeeps ==
    ASSUME Patched = {}, UInv, NEW x \in Persons, PeopleStep(x), TypeOK'
    PROVE  UInv'
<1>1. /\ TypeOK /\ IdsAreSpent /\ ListedOnce(unit) /\ PlansAreOpen
      /\ NewcomersAreFree /\ PointersMirrorMembers
  BY DEF UInv
<1>2. UNCHANGED <<unit, nextId, plan>>
  BY DEF PeopleStep, Arrive, SetEstado, RemoveUser, PatchUnitId, PatchProfile,
       Synchronize
<1>3. /\ \A p \in Persons : status'[p] = "absent" => status[p] = "absent"
      /\ \A p \in Persons :
           \/ unitOf'[p] = unitOf[p] /\ (Exists(p) <=> Exists(p)')
           \/ status'[p] = "removed"
           \/ status[p] = "absent" /\ unitOf'[p] = unitOf[p]
  <2>1. CASE Arrive(x)
    BY <1>1, <2>1 DEF Arrive, TypeOK, Exists
  <2>2. CASE SetEstado(x)
    BY <1>1, <2>2 DEF SetEstado, TypeOK, Exists
  <2>3. CASE RemoveUser(x)
    BY <1>1, <2>3 DEF RemoveUser, TypeOK, Exists
  <2>4. ASSUME NEW g, NEW titles, PatchProfile(x, g, titles)
        PROVE  UNCHANGED <<status, unitOf>>
    BY <2>4 DEF PatchProfile
  <2>5. ASSUME NEW g, NEW report, Synchronize(x, g, report)
        PROVE  UNCHANGED <<status, unitOf>>
    BY <2>5 DEF Synchronize
  <2>6. ASSUME NEW u, PatchUnitId(x, u)
        PROVE  FALSE
    BY <2>6 DEF PatchUnitId
  <2>7. QED
    BY <2>1, <2>2, <2>3, <2>4, <2>5, <2>6 DEF PeopleStep, Exists
<1>4. \A p : Unlisted(p)' <=> Unlisted(p)
  BY <1>2 DEF Unlisted
<1>5. PlansAreOpen'
  <2>1. \A r \in Requests : \A pl \in plan[r] : pl.members \subseteq Persons
    BY <1>1 DEF TypeOK, UnitDoc
  <2>2. QED
    BY <1>1, <1>2, <1>3, <1>4, <2>1 DEF PlansAreOpen
<1>6. NewcomersAreFree'
  BY <1>1, <1>3, <1>4 DEF NewcomersAreFree, Exists
<1>7. PointersMirrorMembers'
  <2> SUFFICES ASSUME NEW p \in Persons, Exists(p)'
               PROVE  /\ \A u \in DOMAIN unit : p \in unit[u].members <=> unitOf'[p] = u
                      /\ unitOf'[p] \in DOMAIN unit \cup {NoUnit}
    BY <1>2 DEF PointersMirrorMembers
  <2>1. CASE unitOf'[p] = unitOf[p] /\ Exists(p)
    BY <1>1, <2>1 DEF PointersMirrorMembers
  <2>2. CASE status[p] = "absent" /\ unitOf'[p] = unitOf[p]
    <3>1. unitOf'[p] = NoUnit /\ Unlisted(p)
      BY <1>1, <2>2 DEF NewcomersAreFree
    <3>2. NoUnit \notin DOMAIN unit
      BY <1>1 DEF TypeOK, UnitIds, NoUnit
    <3>3. QED
      BY <3>1, <3>2 DEF Unlisted
  <2>3. QED
    BY <1>3, <2>1, <2>2 DEF Exists
<1>8. IdsAreSpent' /\ ListedOnce(unit)'
  BY <1>1, <1>2 DEF IdsAreSpent, ListedOnce
<1>9. QED
  BY <1>5, <1>6, <1>7, <1>8 DEF UInv

\* Steps that touch neither the units nor the pointers, and drop a plan at most.
LEMMA RestKeeps ==
    ASSUME UInv, UNCHANGED <<unit, nextId, unitOf, status>>, TypeOK',
           \A r \in Requests : plan'[r] \subseteq plan[r]
    PROVE  UInv'
BY DEF UInv, IdsAreSpent, ListedOnce, PlansAreOpen, NewcomersAreFree,
       PointersMirrorMembers, Unlisted, Exists

\* The invariant is inductive.
LEMMA UInvNext ==
    ASSUME \A r, s \in Requests : r = s, Patched = {}, UInv, [Next]_vars
    PROVE  UInv'
<1>1. TypeOK /\ IdsAreSpent /\ TypeOK'
  BY TypeNext DEF UInv
<1>2. ASSUME NEW r \in Requests, SeedStep(r) PROVE UInv'
  <2>1. ASSUME SeedBegin(r) \/ SeedLost(r)
        PROVE  /\ UNCHANGED <<unit, nextId, unitOf, status>>
               /\ \A s \in Requests : plan'[s] \subseteq plan[s]
    BY <1>1, <2>1 DEF SeedBegin, SeedLost, people, TypeOK
  <2>2. QED
    BY <1>1, <1>2, <2>1, RestKeeps, SeedReadKeeps, SeedCommitKeeps DEF SeedStep
<1>3. ASSUME NEW a \in Actors, NEW u \in DOMAIN unit, UnitStep(a, u) PROVE UInv'
  BY <1>1, <1>3, UnitStepReseats, ReseatingKeeps
<1>4. ASSUME NEW a \in Actors, NEW b \in Branches, DeclareLeadership(a, b) PROVE UInv'
  BY <1>1, <1>4, RestKeeps DEF DeclareLeadership
<1>5. ASSUME NEW x \in Persons, PeopleStep(x) PROVE UInv'
  BY <1>1, <1>5, PeopleStepKeeps
<1>6. CASE UNCHANGED vars
  BY <1>1, <1>6, RestKeeps DEF vars, people
<1>7. QED
  BY <1>2, <1>3, <1>4, <1>5, <1>6 DEF Next

\* While one request at a time seeds and nobody patches users.unitId, the pointers
\* are the members read the other way, whoever is split off, moved, deactivated,
\* deleted, retitled or reported otherwise between the plan and its transaction.
THEOREM PointersAreMembers ==
    ASSUME \A r, s \in Requests : r = s, Patched = {}
    PROVE  Spec => []PointersMirrorMembers
<1>1. Init => UInv
  BY UInvInit
<1>2. UInv /\ [Next]_vars => UInv'
  BY UInvNext
<1>3. UInv => PointersMirrorMembers
  BY DEF UInv
<1>4. QED
  BY <1>1, <1>2, <1>3, PTL DEF Spec

----------------------------------------------------------------------------
(* Units implements Roster.                                                *)

PlaceOf(d) == [group |-> d.group, branch |-> d.branch]

\* The places of a person are those of the units that list him.
LEMMA InPlaces ==
    ASSUME NEW p, NEW x
    PROVE  x \in Places(p)
             <=> \E u \in DOMAIN unit : p \in unit[u].members /\ x = PlaceOf(unit[u])
BY DEF Places, PlaceOf, ListedIn

\* Units of the same group and branch are one place.
LEMMA SamePlaceOf ==
    ASSUME NEW d, NEW e, SamePlace(d, e)
    PROVE  PlaceOf(d) = PlaceOf(e)
BY DEF PlaceOf, SamePlace

\* Nobody loses a place, and only a seeding gives one: that of its plan.
PlacesGrow ==
    \A p : /\ Places(p) \subseteq Places(p)'
           /\ \A x \in Places(p)' \ Places(p) :
                \E r \in Requests : /\ SeedCommit(r)
                                    /\ \E pl \in plan[r] : p \in pl.members /\ x = PlaceOf(pl)

\* An operation on a unit leaves everybody in his group and branch.
LEMMA ReseatingKeepsPlaces ==
    ASSUME NEW docs, NEW T1, NEW T2, Reseats(docs, T1, T2)
    PROVE  \A p : Places(p)' = Places(p)
<1> SUFFICES ASSUME NEW p PROVE Places(p)' = Places(p)
  OBVIOUS
<1>1. unit' = docs /\ Rearranges(docs)
  BY DEF Reseats, Resync
<1>2. ASSUME NEW x \in Places(p)' PROVE x \in Places(p)
  <2>1. PICK v \in DOMAIN docs : p \in docs[v].members /\ x = PlaceOf(docs[v])
    BY <1>1, <1>2, InPlaces DEF PlaceOf, Places, ListedIn
  <2>2. PICK w \in DOMAIN unit : p \in unit[w].members /\ SamePlace(docs[v], unit[w])
    BY <1>1, <2>1 DEF Rearranges
  <2>3. QED
    BY <2>1, <2>2, SamePlaceOf, InPlaces
<1>3. ASSUME NEW x \in Places(p) PROVE x \in Places(p)'
  <2>1. PICK w \in DOMAIN unit : p \in unit[w].members /\ x = PlaceOf(unit[w])
    BY <1>3, InPlaces
  <2>2. PICK v \in DOMAIN docs : p \in docs[v].members /\ SamePlace(docs[v], unit[w])
    BY <1>1, <2>1 DEF Rearranges
  <2>3. x = PlaceOf(docs[v])
    BY <2>1, <2>2, SamePlaceOf
  <2>4. QED
    BY <1>1, <2>2, <2>3 DEF Places, PlaceOf, ListedIn
<1>4. QED
  BY <1>2, <1>3

\* A seeding adds the places of its plan.
LEMMA SeedCommitGrowsPlaces ==
    ASSUME TypeOK, IdsAreSpent, NEW r \in Requests, SeedCommit(r)
    PROVE  PlacesGrow
<1> SUFFICES ASSUME NEW p
             PROVE  /\ Places(p) \subseteq Places(p)'
                    /\ \A x \in Places(p)' \ Places(p) :
                         \E pl \in plan[r] : p \in pl.members /\ x = PlaceOf(pl)
  BY DEF PlacesGrow
<1>1. PICK docs : docs = SeededDocs(r)
  OBVIOUS
<1>2. unit' = docs
  BY <1>1, SeedCommitEffect
<1>3. /\ DOMAIN unit \subseteq DOMAIN docs
      /\ \A w \in DOMAIN unit : /\ SamePlace(docs[w], unit[w])
                                /\ unit[w].members \subseteq docs[w].members
      /\ \A v \in DOMAIN docs : \A q \in docs[v].members :
           \/ v \in DOMAIN unit /\ q \in unit[v].members
           \/ \E pl \in plan[r] : q \in pl.members /\ SamePlace(docs[v], pl)
  BY <1>1, SeededDocsSeat, SeededDocsType
<1>4. ASSUME NEW x \in Places(p) PROVE x \in Places(p)'
  <2>1. PICK w \in DOMAIN unit : p \in unit[w].members /\ x = PlaceOf(unit[w])
    BY <1>4, InPlaces
  <2>2. w \in DOMAIN docs /\ p \in docs[w].members /\ x = PlaceOf(docs[w])
    BY <1>3, <2>1, SamePlaceOf
  <2>3. QED
    BY <1>2, <2>2 DEF Places, PlaceOf, ListedIn
<1>5. ASSUME NEW x \in Places(p)', x \notin Places(p)
      PROVE  \E pl \in plan[r] : p \in pl.members /\ x = PlaceOf(pl)
  <2>1. PICK v \in DOMAIN docs : p \in docs[v].members /\ x = PlaceOf(docs[v])
    BY <1>2, <1>5 DEF Places, PlaceOf, ListedIn
  <2>2. CASE v \in DOMAIN unit /\ p \in unit[v].members
    BY <1>3, <1>5, <2>1, <2>2, SamePlaceOf, InPlaces
  <2>3. CASE \E pl \in plan[r] : p \in pl.members /\ SamePlace(docs[v], pl)
    BY <2>1, <2>3, SamePlaceOf
  <2>4. QED
    BY <1>3, <2>1, <2>2, <2>3
<1>6. QED
  BY <1>4, <1>5

\* No other step adds any.
LEMMA EveryStepGrowsPlaces ==
    ASSUME TypeOK, IdsAreSpent, [Next]_vars
    PROVE  PlacesGrow
<1>1. ASSUME \A p : Places(p)' = Places(p) PROVE PlacesGrow
  BY <1>1 DEF PlacesGrow
<1>2. ASSUME UNCHANGED unit PROVE PlacesGrow
  BY <1>1, <1>2 DEF Places, ListedIn
<1>3. ASSUME NEW r \in Requests, SeedStep(r) PROVE PlacesGrow
  BY <1>2, <1>3, SeedCommitGrowsPlaces DEF SeedStep, SeedRead, SeedBegin, SeedLost
<1>4. ASSUME NEW a \in Actors, NEW u \in DOMAIN unit, UnitStep(a, u) PROVE PlacesGrow
  BY <1>1, <1>4, UnitStepReseats, ReseatingKeepsPlaces
<1>5. ASSUME NEW a \in Actors, NEW b \in Branches, DeclareLeadership(a, b) PROVE PlacesGrow
  BY <1>2, <1>5 DEF DeclareLeadership
<1>6. ASSUME NEW x \in Persons, PeopleStep(x) PROVE PlacesGrow
  BY <1>2, <1>6 DEF PeopleStep, Arrive, SetEstado, RemoveUser, PatchUnitId,
       PatchProfile, Synchronize
<1>7. CASE UNCHANGED vars
  BY <1>2, <1>7 DEF vars
<1>8. QED
  BY <1>3, <1>4, <1>5, <1>6, <1>7 DEF Next

\* Ids are never used twice.
LEMMA IdsAreSpentNext == ASSUME TypeOK, IdsAreSpent, [Next]_vars PROVE IdsAreSpent'
<1>1. ASSUME UNCHANGED <<unit, nextId>> PROVE IdsAreSpent'
  BY <1>1 DEF IdsAreSpent
<1>2. ASSUME NEW r \in Requests, SeedStep(r) PROVE IdsAreSpent'
  <2>1. CASE SeedCommit(r)
    <3>1. PICK docs : docs = SeededDocs(r)
      OBVIOUS
    <3>2. unit' = docs /\ \A v \in DOMAIN docs : v < nextId'
      BY <2>1, <3>1, SeededDocsRewrite, SeedCommitEffect
    <3>3. QED
      BY <3>2 DEF IdsAreSpent
  <2>2. CASE ~SeedCommit(r)
    BY <1>1, <1>2, <2>2 DEF SeedStep, SeedRead, SeedBegin, SeedLost
  <2>3. QED
    BY <2>1, <2>2
<1>3. ASSUME NEW a \in Actors, NEW u \in DOMAIN unit, UnitStep(a, u) PROVE IdsAreSpent'
  <2>1. PICK docs, T1, T2 : Reseats(docs, T1, T2)
    BY <1>3, UnitStepReseats
  <2>2. QED
    BY <2>1 DEF Reseats, Resync, IdsAreSpent
<1>4. ASSUME NEW a \in Actors, NEW b \in Branches, DeclareLeadership(a, b)
      PROVE  IdsAreSpent'
  BY <1>1, <1>4 DEF DeclareLeadership
<1>5. ASSUME NEW x \in Persons, PeopleStep(x) PROVE IdsAreSpent'
  BY <1>1, <1>5 DEF PeopleStep, Arrive, SetEstado, RemoveUser, PatchUnitId,
       PatchProfile, Synchronize
<1>6. CASE UNCHANGED vars
  BY <1>1, <1>6 DEF vars
<1>7. QED
  BY <1>2, <1>3, <1>4, <1>5, <1>6 DEF Next

\* A step that gives some people their one place is a step of Roster.
LEMMA SeatsOnce ==
    ASSUME \A p \in Persons :
             \/ Places(p)' = Places(p)
             \/ Places(p) = {} /\ \E x \in SeatingsOf(p) : Places(p)' = {x}
    PROVE  [Roster!Next]_([p \in Persons |-> Places(p)])
<1> DEFINE S == {p \in Persons : Places(p)' # Places(p)}
           places == [p \in Persons |-> Places(p)]
           Seatings == [p \in Persons |-> SeatingsOf(p)]
<1>1. \A p \in S : places[p] = {} /\ \E place \in Seatings[p] : places'[p] = {place}
  OBVIOUS
<1>2. places' = [p \in Persons |-> IF p \in S THEN places'[p] ELSE places[p]]
  OBVIOUS
<1>3. S \in SUBSET Persons
  OBVIOUS
<1>4. Roster!Seat(S)
  <2> HIDE DEF S
  <2>1. QED
    BY <1>1, <1>2 DEF Roster!Seat
<1>5. QED
  <2> HIDE DEF S
  <2>1. QED
    BY <1>3, <1>4 DEF Roster!Next

\* Likewise of the people nobody rewrites.
LEMMA SteadySeatsOnce ==
    ASSUME \A p \in Steady :
             \/ Places(p)' = Places(p)
             \/ Places(p) = {} /\ \E x \in SeatingsOf(p) : Places(p)' = {x}
    PROVE  [SteadyRoster!Next]_([p \in Steady |-> Places(p)])
<1> DEFINE S == {p \in Steady : Places(p)' # Places(p)}
           places == [p \in Steady |-> Places(p)]
           Seatings == [p \in Steady |-> SeatingsOf(p)]
<1>1. \A p \in S : places[p] = {} /\ \E place \in Seatings[p] : places'[p] = {place}
  OBVIOUS
<1>2. places' = [p \in Steady |-> IF p \in S THEN places'[p] ELSE places[p]]
  OBVIOUS
<1>3. S \in SUBSET Steady
  OBVIOUS
<1>4. SteadyRoster!Seat(S)
  <2> HIDE DEF S
  <2>1. QED
    BY <1>1, <1>2 DEF SteadyRoster!Seat
<1>5. QED
  <2> HIDE DEF S
  <2>1. QED
    BY <1>3, <1>4 DEF SteadyRoster!Next

----------------------------------------------------------------------------
(* Where the data of a person allow a seat.                                *)

\* Nobody but the sync and the panel rewrites a person ...
OwnData ==
    /\ \A p \in Steady : group[p] = HomeGroup[p]
    /\ \A p \in Persons \ Resynced : says[p] = FirstReport[p]

\* ... so that every place, and every planned one, is one the person may have.
AtHome ==
    /\ \A p \in Persons : Places(p) \subseteq SeatingsOf(p)
    /\ \A r \in Requests : \A pl \in plan[r] : \A p \in pl.members :
         PlaceOf(pl) \in SeatingsOf(p)

HInv == TypeOK /\ IdsAreSpent /\ OwnData /\ AtHome

\* At the start nobody has a place.
LEMMA HInvInit == Init => HInv
<1> SUFFICES ASSUME Init PROVE HInv
  OBVIOUS
<1>1. TypeOK
  BY TypeInit
<1>2. /\ DOMAIN unit = {} /\ plan = [r \in Requests |-> {}]
      /\ group = HomeGroup /\ says = FirstReport
  BY DEF Init
<1>3. \A p : Places(p) = {}
  BY <1>2 DEF Places
<1>4. QED
  BY <1>1, <1>2, <1>3 DEF HInv, IdsAreSpent, OwnData, AtHome

\* The data of a person are those the sync or the panel may have given.
LEMMA OwnDataNext == ASSUME TypeOK, IdsAreSpent, OwnData, [Next]_vars PROVE OwnData'
<1>1. ASSUME UNCHANGED <<group, says>> PROVE OwnData'
  BY <1>1 DEF OwnData
<1>2. ASSUME NEW r \in Requests, SeedStep(r) PROVE OwnData'
  BY <1>1, <1>2 DEF SeedStep, SeedRead, SeedBegin, SeedCommit, SeedLost, people
<1>3. ASSUME NEW a \in Actors, NEW u \in DOMAIN unit, UnitStep(a, u) PROVE OwnData'
  <2>1. UNCHANGED people
    BY <1>3, UnitStepReseats DEF Reseats, Resync
  <2>2. QED
    BY <1>1, <2>1 DEF people
<1>4. ASSUME NEW a \in Actors, NEW b \in Branches, DeclareLeadership(a, b) PROVE OwnData'
  BY <1>1, <1>4 DEF DeclareLeadership
<1>5. ASSUME NEW x \in Persons, PeopleStep(x) PROVE OwnData'
  <2>1. CASE Arrive(x) \/ SetEstado(x) \/ RemoveUser(x) \/ \E u \in DOMAIN unit : PatchUnitId(x, u)
    BY <1>1, <2>1 DEF Arrive, SetEstado, RemoveUser, PatchUnitId, people
  <2>2. ASSUME NEW g, NEW titles, PatchProfile(x, g, titles) PROVE OwnData'
    <3>1. /\ x \in Edited /\ says' = says
          /\ \A p \in Persons \ {x} : group'[p] = group[p]
      BY <2>2 DEF PatchProfile, TypeOK
    <3>2. QED
      BY <3>1 DEF OwnData, Steady
  <2>3. ASSUME NEW g, NEW report, Synchronize(x, g, report) PROVE OwnData'
    <3>1. /\ x \in Resynced
          /\ \A p \in Persons \ {x} : group'[p] = group[p] /\ says'[p] = says[p]
      BY <2>3 DEF Synchronize, TypeOK
    <3>2. QED
      BY <3>1 DEF OwnData, Steady
  <2>4. QED
    BY <1>5, <2>1, <2>2, <2>3 DEF PeopleStep
<1>6. CASE UNCHANGED vars
  BY <1>1, <1>6 DEF vars, people
<1>7. QED
  BY <1>2, <1>3, <1>4, <1>5, <1>6 DEF Next

\* A plan seats people where their data say when it is read.
LEMMA PendingAtHome ==
    ASSUME OwnData, NEW g \in Groups, NEW p \in Pending(g)
    PROVE  [group |-> g, branch |-> BranchOf(p)] \in SeatingsOf(p)
<1>1. p \in Persons /\ group[p] = g /\ BranchOf(p) \in Branches
  BY DEF Pending, Active
<1>2. g \in IF p \in Resynced \cup Edited THEN Groups ELSE {HomeGroup[p]}
  BY <1>1 DEF OwnData, Steady
<1>3. BranchOf(p) \in IF p \in Resynced THEN Branches ELSE {FirstBranch(p)}
  BY <1>1 DEF OwnData, BranchOf, FirstBranch
<1>4. QED
  BY <1>2, <1>3 DEF SeatingsOf

\* The invariant is inductive, for any number of requests.
LEMMA HInvNext == ASSUME HInv, [Next]_vars PROVE HInv'
<1>1. TypeOK /\ IdsAreSpent /\ OwnData /\ AtHome /\ TypeOK' /\ IdsAreSpent' /\ OwnData'
  BY TypeNext, IdsAreSpentNext, OwnDataNext DEF HInv
<1>2. \A p \in Persons : Places(p)' \subseteq SeatingsOf(p)
  <2>1. PlacesGrow
    BY <1>1, EveryStepGrowsPlaces
  <2>2. QED
    BY <1>1, <2>1 DEF PlacesGrow, AtHome
<1>3. ASSUME NEW r \in Requests, NEW pl \in plan'[r], NEW p \in pl.members
      PROVE  PlaceOf(pl) \in SeatingsOf(p)
  <2>1. ASSUME pl \in plan[r] PROVE PlaceOf(pl) \in SeatingsOf(p)
    BY <1>1, <1>3, <2>1 DEF AtHome
  <2>2. ASSUME NEW g \in Groups, SeedRead(r, g) PROVE PlaceOf(pl) \in SeatingsOf(p)
    <3> DEFINE branches == {BranchOf(q) : q \in Pending(g)}
    <3>1. PICK lead \in [branches -> AdultsOf(g)] :
            plan' = [plan EXCEPT ![r] = {PlannedUnit(g, b, lead[b]) : b \in branches}]
      BY <2>2 DEF SeedRead
    <3> HIDE DEF branches
    <3>2. PICK b \in branches : pl = PlannedUnit(g, b, lead[b])
      BY <1>1, <1>3, <3>1 DEF TypeOK
    <3>3. p \in Pending(g) /\ BranchOf(p) = b /\ PlaceOf(pl) = [group |-> g, branch |-> b]
      BY <1>3, <3>2 DEF PlannedUnit, PlaceOf
    <3>4. QED
      BY <1>1, <3>3, PendingAtHome
  <2>3. ASSUME pl \notin plan[r] PROVE \E g \in Groups : SeedRead(r, g)
    <3>1. ASSUME NEW s \in Requests, SeedStep(s) PROVE \E g \in Groups : SeedRead(r, g)
      <4>1. CASE SeedBegin(s) \/ SeedCommit(s) \/ SeedLost(s)
        BY <1>1, <1>3, <2>3, <4>1 DEF SeedBegin, SeedCommit, SeedLost, TypeOK
      <4>2. ASSUME NEW g \in Groups, SeedRead(s, g) PROVE s = r
        BY <1>1, <1>3, <2>3, <4>2 DEF SeedRead, TypeOK
      <4>3. QED
        BY <3>1, <4>1, <4>2 DEF SeedStep
    <3>2. ASSUME NEW a \in Actors, NEW u \in DOMAIN unit, UnitStep(a, u) PROVE plan' = plan
      BY <1>1, <3>2, UnitStepReseats DEF Reseats, Resync
    <3>3. ASSUME NEW x \in Persons, PeopleStep(x) PROVE plan' = plan
      BY <3>3 DEF PeopleStep, Arrive, SetEstado, RemoveUser, PatchUnitId, PatchProfile,
           Synchronize
    <3>4. QED
      BY <1>3, <2>3, <3>1, <3>2, <3>3 DEF Next, DeclareLeadership, vars
  <2>4. QED
    BY <2>1, <2>2, <2>3
<1>4. AtHome'
  BY <1>1, <1>2, <1>3 DEF AtHome
<1>5. QED
  BY <1>1, <1>4 DEF HInv

\* Who is not rewritten has one place to be given.
LEMMA HomeStep ==
    ASSUME HInv, HInv', [Next]_vars
    PROVE  [SteadyRoster!Next]_([p \in Steady |-> Places(p)])
<1>1. PlacesGrow
  BY EveryStepGrowsPlaces DEF HInv
<1>2. ASSUME NEW p \in Steady, Places(p)' # Places(p)
      PROVE  Places(p) = {} /\ \E x \in SeatingsOf(p) : Places(p)' = {x}
  <2>1. SeatingsOf(p) = {[group |-> HomeGroup[p], branch |-> FirstBranch(p)]}
    BY DEF SeatingsOf, Steady
  <2>2. Places(p) \subseteq SeatingsOf(p) /\ Places(p)' \subseteq SeatingsOf(p)
    BY DEF HInv, AtHome, Steady
  <2>3. Places(p) \subseteq Places(p)'
    BY <1>1 DEF PlacesGrow
  <2>4. QED
    BY <1>2, <2>1, <2>2, <2>3
<1>3. QED
  BY <1>2, SteadySeatsOnce

\* However many requests seed at once, whatever the panel does to pointers and
\* accounts, and although the sync rewrites others: whoever is not rewritten is
\* seated in a unit of his group and branch, once, and stays in one for good.
THEOREM ImplementsRoster == Spec => SteadyRosterSpec
<1>1. Init => HInv /\ SteadyRoster!Init
  <2>1. Init => \A p : Places(p) = {}
    BY DEF Init, Places
  <2>2. QED
    BY <2>1, HInvInit DEF SteadyRoster!Init
<1>2. HInv /\ [Next]_vars => HInv'
  BY HInvNext
<1>3. HInv /\ HInv' /\ [Next]_vars => [SteadyRoster!Next]_([p \in Steady |-> Places(p)])
  BY HomeStep
<1>4. QED
  BY <1>1, <1>2, <1>3, PTL DEF Spec, SteadyRosterSpec, SteadyRoster!Spec

----------------------------------------------------------------------------
(* ... and of the people who are rewritten, while one request at a time    *)
(* seeds.                                                                  *)

\* Whom the one plan in flight seats had no place.
LEMMA OpenPlansStep ==
    ASSUME \A r, s \in Requests : r = s, UInv, HInv, [Next]_vars
    PROVE  [Roster!Next]_([p \in Persons |-> Places(p)])
<1>1. TypeOK /\ IdsAreSpent /\ PlansAreOpen /\ AtHome
  BY DEF UInv, HInv
<1>2. PlacesGrow
  BY <1>1, EveryStepGrowsPlaces
<1>3. ASSUME NEW p \in Persons, Places(p)' # Places(p)
      PROVE  Places(p) = {} /\ \E x \in SeatingsOf(p) : Places(p)' = {x}
  <2>1. PICK x \in Places(p)' : x \notin Places(p)
    BY <1>2, <1>3 DEF PlacesGrow
  <2>2. PICK r \in Requests : /\ SeedCommit(r)
                              /\ \E pl \in plan[r] : p \in pl.members /\ x = PlaceOf(pl)
    BY <1>2, <2>1 DEF PlacesGrow
  <2>3. PICK pl \in plan[r] : p \in pl.members /\ x = PlaceOf(pl)
    BY <2>2
  <2>4. Places(p) = {}
    BY <1>1, <2>3 DEF PlansAreOpen, Unlisted, Places, ListedIn
  <2>5. x \in SeatingsOf(p)
    BY <1>1, <2>3 DEF AtHome
  <2>6. ASSUME NEW y \in Places(p)' PROVE y = x
    <3>1. PICK s \in Requests : \E q \in plan[s] : p \in q.members /\ y = PlaceOf(q)
      BY <1>2, <2>4, <2>6 DEF PlacesGrow
    <3>2. s = r
      OBVIOUS
    <3>3. QED
      BY <1>1, <2>3, <3>1, <3>2 DEF PlansAreOpen
  <2>7. QED
    BY <2>1, <2>4, <2>5, <2>6
<1>4. QED
  BY <1>3, SeatsOnce

\* While one request at a time seeds and nobody patches users.unitId, everybody is
\* seated once and stays in units of that group and branch, even if the sync or the
\* panel moves the person to another group or branch between plan and commit.
THEOREM ImplementsRosterOneByOne ==
    ASSUME \A r, s \in Requests : r = s, Patched = {}
    PROVE  Spec => RosterSpec
<1>1. Init => UInv /\ HInv /\ Roster!Init
  <2>1. Init => \A p : Places(p) = {}
    BY DEF Init, Places
  <2>2. QED
    BY <2>1, UInvInit, HInvInit DEF Roster!Init
<1>2. UInv /\ HInv /\ [Next]_vars => UInv' /\ HInv'
  BY UInvNext, HInvNext
<1>3. UInv /\ HInv /\ [Next]_vars => [Roster!Next]_([p \in Persons |-> Places(p)])
  BY OpenPlansStep
<1>4. QED
  BY <1>1, <1>2, <1>3, PTL DEF Spec, RosterSpec, Roster!Spec
=============================================================================
