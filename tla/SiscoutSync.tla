---------------------------- MODULE SiscoutSync ----------------------------
(***************************************************************************)
(* The synchronization with SiScout, the external register of members      *)
(* (src/src/siscout).  A run downloads the configured zones page by page,  *)
(* checks what came, writes it to users and siscout_snapshots in chunks    *)
(* sealed with its syncId, and only then marks as gone whoever was present *)
(* and does not carry that seal.  The register changes while it is read.   *)
(*                                                                         *)
(* One application process holds the flag inProgress; the import scripts   *)
(* write the same way from processes of their own and mark nobody.  A run  *)
(* is named by its syncId, a person by its person_id, and a hash by what   *)
(* it is the hash of.                                                      *)
(***************************************************************************)
EXTENDS Integers, Sequences, FiniteSets

CONSTANTS
    People, Zones,
    Place,         \* the place of a person in the order of SiScout's listings
    Entries,       \* what SiScout can say of a person: [lists, zone, says]
    Absent,        \* the entry of whom it does not list
    Registries,    \* what it may say at the start
    NoZone,        \* a zone_id that is null or of no configured zone
    Cargos, NoCargo, Groups, NoGroup,
    Configs,       \* the values siscout_config can hold
    Accounts,      \* the pool of credentials
    ZonesOf,       \* the zones an account is limited to; {} when it is national
    Turn,          \* the order of the accounts by prioridad and name
    Syncs, Imports,
    Files,         \* what an import script can read: sets of rows
    NoRun, NoUser, NoSnapshot,
    Overlap,       \* whether runs may overlap where inProgress does not stop them
    MaxChanges     \* bound: changes made from outside the runs

Runs == Syncs \cup Imports
Says == [cargo : Cargos \cup {NoCargo}, group : Groups \cup {NoGroup}]
Rows == [person : People, zone : Zones \cup {NoZone}, says : Says]
Config == [zones : Seq(Zones), pageLength : Nat \ {0}, maxPages : Nat \ {0},
           minMain : Nat, chunk : Nat \ {0}]
UserDocs == [present : BOOLEAN, stamp : Runs \cup {NoRun},
             cargo : Cargos \cup {NoCargo}, group : Groups \cup {NoGroup}]

ASSUME SyncAssumption ==
    /\ Entries \subseteq [lists : SUBSET Zones, zone : Zones \cup {NoZone}, says : Says]
    /\ Absent \in Entries /\ Absent.lists = {}
    /\ Registries \subseteq [People -> Entries]
    /\ IsFiniteSet(People) /\ Place \in [People -> Nat]
    /\ \A p, q \in People : Place[p] = Place[q] => p = q
    /\ Configs \subseteq Config /\ \A c \in Configs : c.zones # <<>>
    /\ Files \subseteq SUBSET Rows
    /\ \A f \in Files : \A x, y \in f : x.person = y.person => x = y
    /\ ZonesOf \in [Accounts -> SUBSET Zones] /\ Turn \in [Accounts -> Nat]
    /\ \A a, b \in Accounts : Turn[a] = Turn[b] => a = b
    /\ Syncs \cap Imports = {} /\ NoRun \notin Runs
    /\ NoUser \notin UserDocs
    /\ NoSnapshot \notin Rows
    /\ NoCargo \notin Cargos /\ NoGroup \notin Groups /\ NoZone \notin Zones
    /\ Overlap \in BOOLEAN /\ MaxChanges \in Nat

VARIABLES
    registry,      \* what SiScout says of each person now
    users,         \* the person's document: present is estadoSiscout
    snapshots,     \* siscout_snapshots: hash and payload
    config,        \* the configuration cached in the process
    active,        \* the accounts whose activa is set
    inProgress,
    phase,         \* where each run stands
    plan,          \* the configuration the run works with
    fetch,         \* the locals of downloadZones
    collected,     \* the rows the run brings
    downloaded,    \* how many rows came, those that came twice included
    left,          \* the rows still to persist
    known,         \* the hashes persistChunk read
    quiet,         \* auxiliary: SiScout has not changed since the run began
    stayed,        \* auxiliary: whom its zones have listed ever since
    changes

outside == <<registry, config, active, changes>>
stored == <<users, snapshots>>
locals == <<plan, fetch, collected, downloaded, left, known>>
watch == <<quiet, stayed>>
vars == <<outside, stored, inProgress, phase, locals, watch>>

Downloading == {"login", "try", "page"}
Persisting == {"validate", "hashes", "users", "snapshots", "orphans"}
Working == Downloading \cup Persisting
Phases == {"idle", "entering", "refused", "done", "failed"} \cup Working

NoFetch == [index |-> 1, page |-> 0, total |-> 0, number |-> 0, rows |-> {},
            queue |-> {}, sessions |-> {}, failed |-> {}]

NoPlan == [zones |-> <<>>, pageLength |-> 1, maxPages |-> 1, minMain |-> 0, chunk |-> 1]

TypeOK ==
    /\ registry \in [People -> Entries]
    /\ users \in [People -> UserDocs \cup {NoUser}]
    /\ snapshots \in [People -> Rows \cup {NoSnapshot}]
    /\ config \in Configs /\ active \subseteq Accounts /\ inProgress \in BOOLEAN
    /\ phase \in [Runs -> Phases]
    /\ plan \in [Runs -> Config]
    /\ fetch \in [Runs -> [index : Nat \ {0}, page : Nat, total : Nat, number : Nat,
                           rows : SUBSET Rows, queue : SUBSET Accounts,
                           sessions : SUBSET Accounts, failed : SUBSET Accounts]]
    /\ collected \in [Runs -> SUBSET Rows]
    /\ downloaded \in [Runs -> Nat]
    /\ left \in [Runs -> SUBSET Rows]
    /\ known \in [Runs -> [People -> Rows \cup {NoSnapshot}]]
    /\ quiet \in [Runs -> BOOLEAN]
    /\ stayed \in [Runs -> SUBSET People]
    /\ changes \in Nat

-----------------------------------------------------------------------------
(* What SiScout answers, and what the run makes of it. *)

ListedIn(z) == {p \in People : z \in registry[p].lists}
ZonesOfPlan(zones) == {zones[i] : i \in DOMAIN zones}
ListedInSome(zones) == {p \in People : registry[p].lists \cap ZonesOfPlan(zones) # {}}

Row(p) == [person |-> p, zone |-> registry[p].zone, says |-> registry[p].says]

\* How many the listing of a zone has before a person.
Before(p, z) == Cardinality({q \in ListedIn(z) : Place[q] < Place[p]})

\* The rows of the listing from start on, at most n of them.
Page(z, start, n) ==
    {Row(p) : p \in {q \in ListedIn(z) : start <= Before(q, z) /\ Before(q, z) < start + n}}

\* The accounts that cover a zone, and the one whose turn is first: those limited
\* to zones before the national ones.
Resolve(z) == {a \in active : z \in ZonesOf[a] \/ ZonesOf[a] = {}}

Earlier(a, b) ==
    \/ ZonesOf[a] # {} /\ ZonesOf[b] = {}
    \/ (ZonesOf[a] = {}) = (ZonesOf[b] = {}) /\ Turn[a] < Turn[b]

IsFirst(a, queue) == a \in queue /\ \A b \in queue \ {a} : Earlier(a, b)

\* The totals that abort the download at the first page of a zone.
BadTotal(r, total) ==
    \/ total = 0
    \/ fetch[r].index = 1 /\ total < plan[r].minMain
    \/ total > plan[r].maxPages * plan[r].pageLength

\* The loop over the pages of a zone ends after this one.
LastPage(r, got, number, total) ==
    \/ got = {}
    \/ number >= total
    \/ fetch[r].page + 1 = plan[r].maxPages

\* As if a download short of its total went through.
IncompleteNever(number, total) == FALSE
Incomplete(number, total) == number < total

Persons(rows) == {row.person : row \in rows}
Roll(r) == Persons(collected[r])

\* validateBeforeWriting: nobody twice, nobody of another zone.
Valid(r) ==
    /\ Cardinality(Roll(r)) = downloaded[r]
    /\ \A row \in collected[r] : row.zone \in ZonesOfPlan(plan[r].zones)

\* The rows of the chunk in hand: the first of those left, in the order of Place
\* (which rows share a chunk matters, in which order they came does not).
Chunk(r) ==
    {row \in left[r] : Cardinality({p \in Persons(left[r]) : Place[p] < Place[row.person]})
                          < plan[r].chunk}

\* As if a cargo that is missing were kept, the way a group is.
SealedKeepsCargo(row, r) ==
    LET old == users[row.person] IN
    [present |-> TRUE, stamp |-> r,
     cargo |-> IF row.says.cargo = NoCargo /\ old # NoUser THEN old.cargo
               ELSE row.says.cargo,
     group |-> IF row.says.group = NoGroup /\ old # NoUser THEN old.group
               ELSE row.says.group]

\* The upsert of a row: a group that is missing stays as it was, a cargo goes.
Sealed(row, r) ==
    LET old == users[row.person] IN
    [present |-> TRUE, stamp |-> r, cargo |-> row.says.cargo,
     group |-> IF row.says.group = NoGroup /\ old # NoUser THEN old.group
               ELSE row.says.group]

RowOf(p, rows) == CHOOSE row \in rows : row.person = p

SealAll(rows, r) ==
    [p \in People |-> IF p \in Persons(rows)
                      THEN Sealed(RowOf(p, rows), r) ELSE users[p]]

\* A hash stands for the row it was computed on.
Changed(r) == {row \in Chunk(r) : known[r][row.person] # row}

Store(rows) ==
    [p \in People |-> IF p \in Persons(rows)
                      THEN RowOf(p, rows) ELSE snapshots[p]]

-----------------------------------------------------------------------------
Init ==
    /\ registry \in Registries
    /\ users = [p \in People |-> NoUser]
    /\ snapshots = [p \in People |-> NoSnapshot]
    /\ config \in Configs /\ active = Accounts /\ inProgress = FALSE
    /\ phase = [r \in Runs |-> "idle"]
    /\ plan = [r \in Runs |-> NoPlan]
    /\ fetch = [r \in Runs |-> NoFetch]
    /\ collected = [r \in Runs |-> {}]
    /\ downloaded = [r \in Runs |-> 0]
    /\ left = [r \in Runs |-> {}]
    /\ known = [r \in Runs |-> [p \in People |-> NoSnapshot]]
    /\ quiet = [r \in Runs |-> FALSE]
    /\ stayed = [r \in Runs |-> {}]
    /\ changes = 0

Go(r, next) == phase' = [phase EXCEPT ![r] = next]

\* As if the flag were given back behind the try, and not in its finally.
EndOnSuccess(r, how) ==
    /\ Go(r, how)
    /\ inProgress' = IF r \in Syncs /\ how = "done" THEN FALSE ELSE inProgress
    /\ UNCHANGED <<locals, watch>>

\* Everything a run holds goes with it; finally gives the flag back.
End(r, how) ==
    /\ Go(r, how)
    /\ inProgress' = IF r \in Syncs THEN FALSE ELSE inProgress
    /\ plan' = [plan EXCEPT ![r] = NoPlan]
    /\ fetch' = [fetch EXCEPT ![r] = NoFetch]
    /\ collected' = [collected EXCEPT ![r] = {}]
    /\ downloaded' = [downloaded EXCEPT ![r] = 0]
    /\ left' = [left EXCEPT ![r] = {}]
    /\ known' = [known EXCEPT ![r] = [p \in People |-> NoSnapshot]]
    /\ quiet' = [quiet EXCEPT ![r] = FALSE]
    /\ stayed' = [stayed EXCEPT ![r] = {}]

(* synchronize *)

\* A second call between the test and the await behind it needs Overlap.
Call(r) ==
    /\ phase[r] = "idle" /\ r \in Syncs
    /\ Overlap \/ \A q \in Runs : /\ phase[q] # "entering"
                                  /\ q \in Imports => phase[q] \notin Working
    /\ Go(r, IF inProgress THEN "refused" ELSE "entering")
    /\ UNCHANGED <<outside, stored, inProgress, locals, watch>>

Enter(r) ==
    /\ phase[r] = "entering"
    /\ Go(r, "login")
    /\ inProgress' = TRUE
    /\ plan' = [plan EXCEPT ![r] = config]
    /\ quiet' = [quiet EXCEPT ![r] = TRUE]
    /\ stayed' = [stayed EXCEPT ![r] = ListedInSome(config.zones)]
    /\ UNCHANGED <<outside, stored, fetch, collected, downloaded, left, known>>

(* downloadZones and sessionForZone *)

Login(r) ==
    /\ phase[r] = "login"
    /\ LET queue == Resolve(plan[r].zones[fetch[r].index]) IN
       /\ queue # {}
       /\ fetch' = [fetch EXCEPT ![r].queue = queue]
    /\ Go(r, "try")
    /\ UNCHANGED <<outside, stored, inProgress, plan, collected, downloaded, left, known, watch>>

\* The first account has a session, or has failed before, or is tried; that it
\* was used may fail to be noted, and then it counts as failed too.
Reuse(r, a) == a \in fetch[r].sessions /\ UNCHANGED fetch /\ Go(r, "page")

Skip(r, a) ==
    /\ a \in fetch[r].failed \ fetch[r].sessions
    /\ fetch' = [fetch EXCEPT ![r].queue = @ \ {a}]
    /\ UNCHANGED phase

Authenticate(r, a) ==
    /\ a \notin fetch[r].failed \cup fetch[r].sessions
    /\ \/ /\ fetch' = [fetch EXCEPT ![r].sessions = @ \cup {a}]
          /\ Go(r, "page")
       \/ /\ \E open \in {{}, {a}} :
               fetch' = [fetch EXCEPT ![r].failed = @ \cup {a}, ![r].queue = @ \ {a},
                                      ![r].sessions = @ \cup open]
          /\ UNCHANGED phase

\* With the queue empty every account of the zone has failed: the run can only
\* Fail.
Try(r) ==
    /\ phase[r] = "try"
    /\ \E a \in Accounts :
         /\ IsFirst(a, fetch[r].queue)
         /\ Reuse(r, a) \/ Skip(r, a) \/ Authenticate(r, a)
    /\ UNCHANGED <<outside, stored, inProgress, plan, collected, downloaded, left, known, watch>>

NextZone(r, rows, number) ==
    /\ collected' = [collected EXCEPT ![r] = @ \cup rows]
    /\ downloaded' = [downloaded EXCEPT ![r] = @ + number]
    /\ fetch' = [fetch EXCEPT ![r] = [NoFetch EXCEPT !.index = fetch[r].index + 1,
                    !.sessions = fetch[r].sessions, !.failed = fetch[r].failed]]
    /\ Go(r, IF fetch[r].index = Len(plan[r].zones) THEN "validate" ELSE "login")

\* One page, which may come cut short.
ReadPage(r) ==
    /\ phase[r] = "page"
    /\ LET z == plan[r].zones[fetch[r].index]
           total == IF fetch[r].page = 0 THEN Cardinality(ListedIn(z)) ELSE fetch[r].total
       IN \E n \in 0..plan[r].pageLength :
            LET got == Page(z, fetch[r].page * plan[r].pageLength, n)
                rows == fetch[r].rows \cup got
                number == fetch[r].number + Cardinality(got)
            IN /\ fetch[r].page = 0 => ~BadTotal(r, total)
               /\ IF LastPage(r, got, number, total)
                  THEN ~Incomplete(number, total) /\ NextZone(r, rows, number)
                  ELSE /\ fetch' = [fetch EXCEPT ![r].rows = rows, ![r].number = number,
                                                 ![r].total = total, ![r].page = @ + 1]
                       /\ UNCHANGED <<phase, collected, downloaded>>
    /\ UNCHANGED <<outside, stored, inProgress, plan, left, known, watch>>

(* validateBeforeWriting and persist *)

Validate(r) ==
    /\ phase[r] = "validate" /\ Valid(r)
    /\ plan' = [plan EXCEPT ![r].chunk = config.chunk]
    /\ left' = [left EXCEPT ![r] = collected[r]]
    /\ Go(r, "hashes")
    /\ UNCHANGED <<outside, stored, inProgress, fetch, collected, downloaded, known, watch>>

ReadHashes(r) ==
    /\ phase[r] = "hashes"
    /\ known' = [known EXCEPT ![r] = snapshots]
    /\ Go(r, "users")
    /\ UNCHANGED <<outside, stored, inProgress, plan, fetch, collected, downloaded, left, watch>>

\* As if the errors of the unordered bulkWrite were looked at by nobody.
WriteUsersUnheeded(r) ==
    /\ phase[r] = "users"
    /\ \E rows \in SUBSET Chunk(r) : users' = SealAll(rows, r)
    /\ Go(r, "snapshots")
    /\ UNCHANGED <<outside, snapshots, inProgress, locals, watch>>

\* The bulkWrite of the people: every operation of it, or some and an error.
WriteUsers(r) ==
    /\ phase[r] = "users"
    /\ users' = SealAll(Chunk(r), r)
    /\ Go(r, "snapshots")
    /\ UNCHANGED <<outside, snapshots, inProgress, locals, watch>>

WriteSomeUsers(r) ==
    /\ phase[r] = "users"
    /\ \E rows \in SUBSET Chunk(r) \ {Chunk(r)} : users' = SealAll(rows, r)
    /\ UNCHANGED <<outside, snapshots>>
    /\ End(r, "failed")

WriteSnapshots(r) ==
    /\ phase[r] = "snapshots"
    /\ snapshots' = Store(Changed(r))
    /\ LET rest == left[r] \ Chunk(r) IN
       /\ left' = [left EXCEPT ![r] = rest]
       /\ Go(r, IF rest # {} THEN "hashes" ELSE "orphans")
    /\ known' = [known EXCEPT ![r] = [p \in People |-> NoSnapshot]]
    /\ UNCHANGED <<outside, users, inProgress, plan, fetch, collected, downloaded, watch>>

WriteSomeSnapshots(r) ==
    /\ phase[r] = "snapshots"
    /\ \E rows \in SUBSET Changed(r) \ {Changed(r)} : snapshots' = Store(rows)
    /\ UNCHANGED <<outside, users>>
    /\ End(r, "failed")

\* Whom the run did not seal: estadoSiscout, and another ultimoSyncId.
Orphans(r) == {p \in People : /\ users[p] # NoUser
                              /\ users[p].present /\ users[p].stamp # r}

MarkOrphans(r) ==
    /\ phase[r] = "orphans" /\ r \in Syncs
    /\ users' = [p \in People |-> IF p \in Orphans(r)
                                  THEN [users[p] EXCEPT !.present = FALSE] ELSE users[p]]
    /\ UNCHANGED <<outside, snapshots>>
    /\ End(r, "done")

\* A throw at any await; the catch keeps it from the consolidation.
Fail(r) ==
    /\ phase[r] \in Working
    /\ UNCHANGED <<outside, stored>>
    /\ End(r, "failed")

(* importMembers, in a process of its own *)

Import(r) ==
    /\ phase[r] = "idle" /\ r \in Imports
    /\ Overlap \/ \A q \in Syncs : phase[q] \notin Working \cup {"entering"}
    /\ \E file \in Files : /\ collected' = [collected EXCEPT ![r] = file]
                           /\ left' = [left EXCEPT ![r] = file]
    /\ plan' = [plan EXCEPT ![r].chunk = config.chunk]
    /\ Go(r, "hashes")
    /\ UNCHANGED <<outside, stored, inProgress, fetch, downloaded, known, watch>>

FinishImport(r) ==
    /\ phase[r] = "orphans" /\ r \in Imports
    /\ UNCHANGED <<outside, stored>>
    /\ End(r, "done")

-----------------------------------------------------------------------------
(* What happens meanwhile. *)

\* The application stops and starts: its runs are gone, and the flag with them.
Crash ==
    /\ \E r \in Syncs : phase[r] \in Working \cup {"entering"}
    /\ LET Lost(r) == r \in Syncs /\ phase[r] \in Working \cup {"entering"} IN
       /\ phase' = [r \in Runs |-> IF Lost(r) THEN "failed" ELSE phase[r]]
       /\ plan' = [r \in Runs |-> IF Lost(r) THEN NoPlan ELSE plan[r]]
       /\ fetch' = [r \in Runs |-> IF Lost(r) THEN NoFetch ELSE fetch[r]]
       /\ collected' = [r \in Runs |-> IF Lost(r) THEN {} ELSE collected[r]]
       /\ downloaded' = [r \in Runs |-> IF Lost(r) THEN 0 ELSE downloaded[r]]
       /\ left' = [r \in Runs |-> IF Lost(r) THEN {} ELSE left[r]]
       /\ known' = [r \in Runs |-> IF Lost(r) THEN [p \in People |-> NoSnapshot]
                                   ELSE known[r]]
       /\ quiet' = [r \in Runs |-> ~Lost(r) /\ quiet[r]]
       /\ stayed' = [r \in Runs |-> IF Lost(r) THEN {} ELSE stayed[r]]
    /\ inProgress' = FALSE
    /\ UNCHANGED <<outside, stored>>

Change == changes < MaxChanges /\ changes' = changes + 1

\* SiScout comes to say something else of a person.
Report ==
    /\ Change
    /\ \E p \in People, e \in Entries :
         /\ e # registry[p]
         /\ registry' = [registry EXCEPT ![p] = e]
         /\ quiet' = [r \in Runs |-> FALSE]
         /\ stayed' = [r \in Runs |->
               IF e.lists \cap ZonesOfPlan(plan[r].zones) = {} THEN stayed[r] \ {p}
               ELSE stayed[r]]
    /\ UNCHANGED <<config, active, stored, inProgress, phase, locals>>

\* The configuration is edited or reset; a credential is switched on or off.
Configure ==
    /\ Change
    /\ config' \in Configs \ {config}
    /\ UNCHANGED <<registry, active, stored, inProgress, phase, locals, watch>>

SwitchAccount ==
    /\ Change
    /\ \E a \in Accounts : active' = IF a \in active THEN active \ {a} ELSE active \cup {a}
    /\ UNCHANGED <<registry, config, stored, inProgress, phase, locals, watch>>

\* users.create and users.remove: a person by hand has no syncId.
CreateUser ==
    /\ Change
    /\ \E p \in People :
         /\ users[p] = NoUser
         /\ users' = [users EXCEPT ![p] = [present |-> TRUE, stamp |-> NoRun,
                                           cargo |-> NoCargo, group |-> NoGroup]]
    /\ UNCHANGED <<registry, config, active, snapshots, inProgress, phase, locals, watch>>

RemoveUser ==
    /\ Change
    /\ \E p \in People : users[p] # NoUser /\ users' = [users EXCEPT ![p] = NoUser]
    /\ UNCHANGED <<registry, config, active, snapshots, inProgress, phase, locals, watch>>

Outside == Report \/ Configure \/ SwitchAccount \/ CreateUser \/ RemoveUser

Persist(r) ==
    \/ ReadHashes(r) \/ WriteUsers(r) \/ WriteSomeUsers(r)
    \/ WriteSnapshots(r) \/ WriteSomeSnapshots(r)

Advance(r) ==
    \/ Enter(r) \/ Login(r) \/ Try(r) \/ ReadPage(r) \/ Validate(r)
    \/ Persist(r) \/ MarkOrphans(r) \/ FinishImport(r) \/ Fail(r)

Next == \/ \E r \in Runs : Call(r) \/ Import(r) \/ Advance(r)
        \/ Crash \/ Outside

Spec == Init /\ [][Next]_vars /\ \A r \in Syncs : WF_vars(Advance(r))

-----------------------------------------------------------------------------
(* Correctness. *)

\* A person goes from present to gone.
Leaves(p) == /\ users[p] # NoUser /\ users[p].present
             /\ users'[p] # NoUser /\ ~users'[p].present

Consolidates(r) == r \in Syncs /\ phase[r] = "orphans" /\ phase'[r] = "done"

\* Who was created by hand carries no seal, and every run marks him.
ByHand(p) == users[p].stamp = NoRun

\* People are marked as gone by a run that came to its end, and of those a run
\* ever sealed never one this run brought; whoever stays was brought by it.
\* Failed writes, crashes and calls at the wrong moment change nothing of that
\* (synchronize, persistChunk, markOrphans).
ConsolidatesTheRoll ==
    [][/\ \A p \in People : Leaves(p) =>
             \E r \in Syncs : Consolidates(r) /\ (p \in Roll(r) => ByHand(p))
       /\ \A r \in Syncs, p \in People :
             Consolidates(r) /\ users'[p] # NoUser /\ users'[p].present
                => p \in Roll(r)]_vars

\* While SiScout does not change under it, a run marks nobody its zones list,
\* however the pages are cut and whichever accounts fail (downloadZones).
QuietRunsKeepTheListed ==
    [][\A r \in Syncs, p \in People :
          Consolidates(r) /\ quiet[r] /\ Leaves(p) /\ ~ByHand(p) => p \notin stayed[r]]_vars

\* When a run comes to consolidate, both collections say of everybody it brought
\* what SiScout said: the snapshot in full, the document in the fields it shows;
\* a cargo SiScout withdrew is not left standing (persistChunk).  Who patches
\* such a field in the users panel meanwhile overrides it, and is left out.
SealedIsStored ==
    \A r \in Syncs : phase[r] = "orphans" =>
        \A row \in collected[r] :
            /\ snapshots[row.person] = row
            /\ LET u == users[row.person] IN
               u # NoUser /\ u.stamp = r =>
                   /\ u.present /\ u.cargo = row.says.cargo
                   /\ row.says.group # NoGroup => u.group = row.says.group

\* The flag that refuses further calls does not stay behind (synchronize, finally).
FlagIsGivenBack == inProgress ~> ~inProgress
=============================================================================
