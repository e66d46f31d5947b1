------------------------- MODULE SiscoutSyncProofs -------------------------
(***************************************************************************)
(* What a consolidation does, for any register, pages, chunks and number   *)
(* of runs, as long as runs do not overlap (Overlap = FALSE).              *)
(*                                                                         *)
(* ConsolidationIsTheRoll speaks of one step; what it needs of the state   *)
(* before is that whoever the run brought and is not left to persist       *)
(* carries its seal (Seals), that nobody else does (SealsAreOfTheRoll),    *)
(* and that no other run is under way that could put its seal over it      *)
(* (OneAtATime).                                                           *)
(*                                                                         *)
(* SealedAreStored follows the rows of a run through its chunks: nobody is *)
(* in them twice, since the people were counted against the rows           *)
(* (Unrepeated), the hashes read are still those stored when the chunk is  *)
(* written (HashesHold), and what was written is kept (RowsAreKept,        *)
(* SealsSpeak).                                                            *)
(*                                                                         *)
(* QuietRunsSpareTheListed counts: of a register that stands still a page  *)
(* adds people who come after those read before, so that a zone whose rows *)
(* reach its total has been read in full (Matches, BringsTheListed).       *)
(***************************************************************************)
EXTENDS SiscoutSync, TLAPS, FiniteSetTheorems

Busy == Working \cup {"entering"}

OneAtATime ==
    /\ \A r \in Syncs : phase[r] \in Working => inProgress
    /\ \A r, q \in Syncs : phase[r] \in Busy /\ phase[q] \in Busy => r = q
    /\ \A r \in Syncs, q \in Imports : ~(phase[r] \in Busy /\ phase[q] \in Working)
    /\ \A q \in Imports : phase[q] # "entering"

\* The person has the seal of the run, unless removed or created by hand since.
HasSeal(p, r) == users[p] # NoUser => users[p].stamp \in {r, NoRun}

\* The rows of a run that have been written to users.
Written(r) ==
    CASE phase[r] \in {"hashes", "users"} -> collected[r] \ left[r]
      [] phase[r] = "snapshots" -> (collected[r] \ left[r]) \cup Chunk(r)
      [] phase[r] = "orphans" -> collected[r]
      [] OTHER -> {}

Seals == \A r \in Syncs : \A row \in Written(r) : HasSeal(row.person, r)

SealsAreOfTheRoll ==
    \A r \in Syncs, p \in People :
        users[p] # NoUser /\ users[p].stamp = r =>
            \/ phase[r] \in {"done", "failed"}
            \/ phase[r] \in Persisting /\ p \in Roll(r)

LeftIsCollected == \A r \in Runs : left[r] \subseteq collected[r]

IInv == /\ TypeOK /\ OneAtATime /\ Seals /\ SealsAreOfTheRoll
        /\ LeftIsCollected

-----------------------------------------------------------------------------
Fetches == [index : Nat \ {0}, page : Nat, total : Nat, number : Nat,
            rows : SUBSET Rows, queue : SUBSET Accounts,
            sessions : SUBSET Accounts, failed : SUBSET Accounts]

\* What every run holds at the start and is left with at the end.
LEMMA NothingHeld == NoPlan \in Config /\ NoFetch \in Fetches
  BY DEF NoPlan, NoFetch, Config, Fetches

LEMMA PhaseNames ==
  /\ Working \subseteq Phases
  /\ {"idle", "entering", "refused", "done", "failed", "login", "try", "page",
      "validate", "hashes", "users", "snapshots", "orphans"} \subseteq Phases
  BY DEF Phases, Working, Downloading, Persisting

\* The updates the download makes to its locals.
LEMMA FetchUpdates ==
  ASSUME NEW f \in Fetches, NEW A \in SUBSET Accounts, NEW B \in SUBSET Accounts,
         NEW C \in SUBSET Accounts, NEW rows \in SUBSET Rows, NEW n \in Nat, NEW t \in Nat
  PROVE  /\ [f EXCEPT !.queue = A] \in Fetches
         /\ [f EXCEPT !.sessions = A] \in Fetches
         /\ [f EXCEPT !.failed = A, !.queue = B, !.sessions = C] \in Fetches
         /\ [f EXCEPT !.rows = rows, !.number = n, !.total = t, !.page = @ + 1] \in Fetches
         /\ [NoFetch EXCEPT !.index = f.index + 1, !.sessions = f.sessions,
                            !.failed = f.failed] \in Fetches
  <1>1. /\ [f EXCEPT !.queue = A] \in Fetches
        /\ [f EXCEPT !.sessions = A] \in Fetches
    BY DEF Fetches
  <1>2. [f EXCEPT !.failed = A, !.queue = B, !.sessions = C] \in Fetches
    BY DEF Fetches
  <1>6. f.page + 1 \in Nat /\ f.index + 1 \in Nat \ {0}
    BY DEF Fetches
  <1>3. [f EXCEPT !.rows = rows, !.number = n, !.total = t, !.page = @ + 1] \in Fetches
    <2> DEFINE page == f.page + 1
    <2>1. page \in Nat
      BY <1>6
    <2> HIDE DEF page
    <2>2. [f EXCEPT !.rows = rows, !.number = n, !.total = t, !.page = page] \in Fetches
      BY <2>1 DEF Fetches
    <2>3. QED
      BY <2>2 DEF page
  <1>4. [NoFetch EXCEPT !.index = f.index + 1, !.sessions = f.sessions,
                       !.failed = f.failed] \in Fetches
    <2> DEFINE index == f.index + 1
    <2>1. index \in Nat \ {0}
      BY <1>6
    <2> HIDE DEF index
    <2>2. [NoFetch EXCEPT !.index = index, !.sessions = f.sessions,
                         !.failed = f.failed] \in Fetches
      BY <2>1, NothingHeld DEF Fetches
    <2>3. QED
      BY <2>2 DEF index
  <1>5. QED
    BY <1>1, <1>2, <1>3, <1>4

\* A row of the register is a row.
LEMMA RowsOfPages ==
  ASSUME TypeOK, NEW z, NEW start, NEW n
  PROVE  Page(z, start, n) \subseteq Rows /\ IsFiniteSet(Page(z, start, n))
  <1>1. \A p \in People : Row(p) \in Rows
    BY SyncAssumption DEF TypeOK, Row, Rows
  <1>2. ListedIn(z) \subseteq People
    BY DEF ListedIn
  <1> DEFINE shown == {q \in ListedIn(z) : start <= Before(q, z) /\ Before(q, z) < start + n}
  <1>3. IsFiniteSet(shown)
    <2>1. shown \in SUBSET People
      BY <1>2
    <2>2. IsFiniteSet(People)
      BY SyncAssumption
    <2>3. QED
      BY <2>1, <2>2, FS_Subset
  <1>4. Page(z, start, n) = {Row(p) : p \in shown}
    BY DEF Page
  <1> HIDE DEF shown
  <1>5. IsFiniteSet({Row(p) : p \in shown})
    <2> DEFINE rows == {Row(p) : p \in shown}
               rowOf == [p \in shown |-> Row(p)]
    <2>1. rowOf \in Surjection(shown, rows)
      BY DEF Surjection
    <2> HIDE DEF rows, rowOf
    <2>2. IsFiniteSet(rows)
      BY <1>3, <2>1, FS_Surjection
    <2>3. QED
      BY <2>2 DEF rows
  <1>6. shown \subseteq People
    BY <1>2 DEF shown
  <1>7. QED
    BY <1>1, <1>4, <1>5, <1>6

\* Sealing leaves documents, and stamps exactly the people of the rows.
LEMMA Sealing ==
  ASSUME TypeOK, NEW r \in Runs, NEW rows \in SUBSET Rows
  PROVE  /\ SealAll(rows, r) \in [People -> UserDocs \cup {NoUser}]
         /\ \A p \in Persons(rows) : /\ SealAll(rows, r)[p] \in UserDocs
                                     /\ SealAll(rows, r)[p].stamp = r
                                     /\ SealAll(rows, r)[p].present
         /\ \A p \in People \ Persons(rows) : SealAll(rows, r)[p] = users[p]
  <1>1. \A p \in Persons(rows) : RowOf(p, rows) \in rows /\ RowOf(p, rows).person = p
    BY DEF RowOf, Persons
  <1>2. \A p \in Persons(rows) : p \in People
    BY DEF Persons, Rows
  <1>3. ASSUME NEW row \in Rows
        PROVE  /\ Sealed(row, r) \in UserDocs
               /\ Sealed(row, r).stamp = r /\ Sealed(row, r).present
    <2>1. row.person \in People /\ row.says \in Says
      BY DEF Rows
    <2>2. users[row.person] \in UserDocs \cup {NoUser}
      BY <2>1 DEF TypeOK
    <2>3. row.says.cargo \in Cargos \cup {NoCargo} /\ row.says.group \in Groups \cup {NoGroup}
      BY <2>1 DEF Says
    <2>4. QED
      BY <2>2, <2>3 DEF Sealed, UserDocs
  <1>4. \A p \in Persons(rows) : RowOf(p, rows) \in Rows
    BY <1>1
  <1>5. users \in [People -> UserDocs \cup {NoUser}]
    BY DEF TypeOK
  <1>6. \A p \in People : SealAll(rows, r)[p] = IF p \in Persons(rows)
                            THEN Sealed(RowOf(p, rows), r) ELSE users[p]
    BY DEF SealAll
  <1>7. \A p \in People : SealAll(rows, r)[p] \in UserDocs \cup {NoUser}
    BY <1>3, <1>4, <1>5, <1>6
  <1>8. SealAll(rows, r) \in [People -> UserDocs \cup {NoUser}]
    BY <1>7 DEF SealAll
  <1>9. QED
    BY <1>2, <1>3, <1>4, <1>6, <1>8

LEMMA Storing ==
  ASSUME TypeOK, NEW rows \in SUBSET Rows
  PROVE  Store(rows) \in [People -> Rows \cup {NoSnapshot}]
  <1>1. \A p \in Persons(rows) : RowOf(p, rows) \in rows
    BY DEF RowOf, Persons
  <1>2. QED
    BY <1>1 DEF Store, TypeOK

LEMMA ChunkIsLeft == ASSUME NEW r \in Runs PROVE Chunk(r) \subseteq left[r]
  BY DEF Chunk

-----------------------------------------------------------------------------
\* The end of a run is well typed, whatever it did to the collections.
LEMMA EndTypes ==
  ASSUME TypeOK, NEW r \in Runs, NEW how \in {"done", "failed"}, End(r, how),
         UNCHANGED outside,
         users' \in [People -> UserDocs \cup {NoUser}],
         snapshots' \in [People -> Rows \cup {NoSnapshot}]
  PROVE  TypeOK'
  <1>1. /\ phase' \in [Runs -> Phases]
        /\ plan' \in [Runs -> Config]
        /\ fetch' \in [Runs -> Fetches]
    BY NothingHeld, PhaseNames DEF End, Go, TypeOK, Fetches
  <1>2. /\ collected' \in [Runs -> SUBSET Rows] /\ left' \in [Runs -> SUBSET Rows]
        /\ downloaded' \in [Runs -> Nat]
    BY DEF End, TypeOK
  <1>3. known' \in [Runs -> [People -> Rows \cup {NoSnapshot}]]
    BY DEF End, TypeOK
  <1>4. quiet' \in [Runs -> BOOLEAN] /\ stayed' \in [Runs -> SUBSET People]
    BY DEF End, TypeOK
  <1>5. inProgress' \in BOOLEAN
    BY DEF End, TypeOK
  <1>6. QED
    BY <1>1, <1>2, <1>3, <1>4, <1>5 DEF TypeOK, outside, Fetches

LEMMA TypeInit == Init => TypeOK
  <1> SUFFICES ASSUME Init PROVE TypeOK
    OBVIOUS
  <1>1. phase \in [Runs -> Phases]
    BY PhaseNames DEF Init
  <1>2. plan \in [Runs -> Config] /\ fetch \in [Runs -> Fetches]
    BY NothingHeld DEF Init
  <1>3. registry \in [People -> Entries]
    BY SyncAssumption DEF Init
  <1>4. QED
    BY <1>1, <1>2, <1>3 DEF Init, TypeOK, Fetches

LEMMA TypeNext == ASSUME TypeOK, [Next]_vars PROVE TypeOK'
  <1>1. ASSUME NEW r \in Runs, Call(r) PROVE TypeOK'
    BY <1>1, PhaseNames DEF Call, Go, TypeOK, outside, stored, locals, watch
  <1>2. ASSUME NEW r \in Runs, Import(r) PROVE TypeOK'
    <2>1. PICK file \in Files : /\ collected' = [collected EXCEPT ![r] = file]
                                /\ left' = [left EXCEPT ![r] = file]
      BY <1>2 DEF Import
    <2>2. file \in SUBSET Rows
      BY SyncAssumption
    <2>3. config \in Config
      BY SyncAssumption DEF TypeOK
    <2>4. plan' \in [Runs -> Config]
      BY <1>2, <2>3 DEF Import, TypeOK, Config
    <2>5. phase' \in [Runs -> Phases]
      BY <1>2, PhaseNames DEF Import, Go, TypeOK
    <2>6. collected' \in [Runs -> SUBSET Rows] /\ left' \in [Runs -> SUBSET Rows]
      BY <2>1, <2>2 DEF TypeOK
    <2>7. QED
      BY <1>2, <2>4, <2>5, <2>6 DEF Import, TypeOK, outside, stored, watch
  <1>3. ASSUME NEW r \in Runs, Enter(r) PROVE TypeOK'
    <2>1. config \in Config
      BY SyncAssumption DEF TypeOK
    <2>2. ListedInSome(config.zones) \in SUBSET People
      BY DEF ListedInSome
    <2>3. plan' \in [Runs -> Config] /\ phase' \in [Runs -> Phases]
      BY <1>3, <2>1, PhaseNames DEF Enter, Go, TypeOK
    <2>4. quiet' \in [Runs -> BOOLEAN] /\ stayed' \in [Runs -> SUBSET People]
      BY <1>3, <2>2 DEF Enter, TypeOK
    <2>5. QED
      BY <1>3, <2>3, <2>4 DEF Enter, TypeOK, outside, stored
  <1>4. ASSUME NEW r \in Runs, Login(r) PROVE TypeOK'
    <2>1. Resolve(plan[r].zones[fetch[r].index]) \in SUBSET Accounts
      BY DEF Resolve, TypeOK
    <2> DEFINE queue == Resolve(plan[r].zones[fetch[r].index])
               next == [fetch[r] EXCEPT !.queue = queue]
    <2>7. fetch[r] \in Fetches
      BY DEF TypeOK, Fetches
    <2>5. next \in Fetches
      BY <2>1, <2>7, FetchUpdates
    <2>6. fetch' = [fetch EXCEPT ![r] = next]
      BY <1>4 DEF Login
    <2>2. fetch' \in [Runs -> Fetches]
      BY <2>5, <2>6 DEF TypeOK, Fetches
    <2> HIDE DEF next
    <2>3. phase' \in [Runs -> Phases]
      BY <1>4, PhaseNames DEF Login, Go, TypeOK
    <2>4. QED
      BY <1>4, <2>2, <2>3 DEF Login, TypeOK, outside, stored, watch, Fetches
  <1>5. ASSUME NEW r \in Runs, Try(r) PROVE TypeOK'
    <2>1. PICK a \in Accounts : Reuse(r, a) \/ Skip(r, a) \/ Authenticate(r, a)
      BY <1>5 DEF Try
    <2>2. phase' \in [Runs -> Phases]
      BY <2>1, PhaseNames DEF Reuse, Skip, Authenticate, Go, TypeOK
    <2>3. CASE Reuse(r, a)
      BY <1>5, <2>2, <2>3 DEF Try, Reuse, TypeOK, outside, stored, watch
    <2>4. CASE Skip(r, a)
      <3> DEFINE next == [fetch[r] EXCEPT !.queue = @ \ {a}]
      <3>4. fetch[r] \in Fetches
        BY DEF TypeOK, Fetches
      <3>5. fetch[r].queue \ {a} \in SUBSET Accounts
        BY <3>4 DEF Fetches
      <3>6. next \in Fetches
        BY <3>4, <3>5, FetchUpdates
      <3>7. fetch' = [fetch EXCEPT ![r] = next]
        BY <2>4, <3>4 DEF Skip
      <3> HIDE DEF next
      <3>3. next \in Fetches /\ fetch' = [fetch EXCEPT ![r] = next]
        BY <3>6, <3>7
      <3>1. fetch' \in [Runs -> Fetches]
        BY <3>3 DEF TypeOK, Fetches
      <3>2. QED
        BY <1>5, <2>2, <3>1 DEF Try, TypeOK, outside, stored, watch, Fetches
    <2>5. CASE Authenticate(r, a)
      <3> DEFINE opened == [fetch[r] EXCEPT !.sessions = @ \cup {a}]
                 next(open) == [fetch[r] EXCEPT !.failed = @ \cup {a}, !.queue = @ \ {a},
                                                !.sessions = @ \cup open]
      <3>5. fetch[r] \in Fetches
        BY DEF TypeOK, Fetches
      <3>6. /\ fetch[r].queue \ {a} \in SUBSET Accounts
            /\ fetch[r].failed \cup {a} \in SUBSET Accounts
            /\ fetch[r].sessions \cup {a} \in SUBSET Accounts
            /\ \A open \in {{}, {a}} : fetch[r].sessions \cup open \in SUBSET Accounts
        BY <3>5 DEF Fetches
      <3>3. opened \in Fetches /\ \A open \in {{}, {a}} : next(open) \in Fetches
        BY <3>5, <3>6, FetchUpdates
      <3>4. \/ fetch' = [fetch EXCEPT ![r] = opened]
            \/ \E open \in {{}, {a}} : fetch' = [fetch EXCEPT ![r] = next(open)]
        BY <2>5 DEF Authenticate
      <3> HIDE DEF opened, next
      <3>7. PICK new \in Fetches : fetch' = [fetch EXCEPT ![r] = new]
        BY <3>3, <3>4
      <3>8. fetch \in [Runs -> Fetches]
        BY DEF TypeOK, Fetches
      <3>1. fetch' \in [Runs -> Fetches]
        BY <3>7, <3>8
      <3>2. QED
        BY <1>5, <2>2, <3>1 DEF Try, TypeOK, outside, stored, watch, Fetches
    <2>6. QED
      BY <2>1, <2>3, <2>4, <2>5
  <1>6. ASSUME NEW r \in Runs, ReadPage(r) PROVE TypeOK'
    <2> DEFINE z == plan[r].zones[fetch[r].index]
               total == IF fetch[r].page = 0 THEN Cardinality(ListedIn(z)) ELSE fetch[r].total
    <2>1. PICK n \in 0..plan[r].pageLength :
            LET got == Page(z, fetch[r].page * plan[r].pageLength, n)
                rows == fetch[r].rows \cup got
                number == fetch[r].number + Cardinality(got)
            IN \/ NextZone(r, rows, number)
               \/ /\ fetch' = [fetch EXCEPT ![r].rows = rows, ![r].number = number,
                                            ![r].total = total, ![r].page = @ + 1]
                  /\ UNCHANGED <<phase, collected, downloaded>>
      BY <1>6 DEF ReadPage
    <2> DEFINE got == Page(z, fetch[r].page * plan[r].pageLength, n)
               rows == fetch[r].rows \cup got
               number == fetch[r].number + Cardinality(got)
    <2>2. fetch[r] \in Fetches /\ fetch \in [Runs -> Fetches]
      BY DEF TypeOK, Fetches
    <2>3. got \subseteq Rows /\ IsFiniteSet(got)
      BY RowsOfPages
    <2>4. Cardinality(got) \in Nat
      BY <2>3, FS_CardinalityType
    <2>5. ListedIn(z) \in SUBSET People /\ IsFiniteSet(People)
      BY SyncAssumption DEF ListedIn
    <2>6. Cardinality(ListedIn(z)) \in Nat
      BY <2>5, FS_Subset, FS_CardinalityType
    <2> HIDE DEF got
    <2>7. rows \in SUBSET Rows /\ number \in Nat /\ total \in Nat
      BY <2>2, <2>3, <2>4, <2>6 DEF Fetches
    <2>8. CASE NextZone(r, rows, number)
      <3> HIDE DEF rows, number, z, total
      <3> DEFINE next == [NoFetch EXCEPT !.index = fetch[r].index + 1,
                            !.sessions = fetch[r].sessions, !.failed = fetch[r].failed]
      <3>1. next \in Fetches
        BY <2>2, FetchUpdates
      <3>2. fetch' = [fetch EXCEPT ![r] = next]
        BY <2>8 DEF NextZone
      <3> HIDE DEF next
      <3>3. fetch' \in [Runs -> Fetches]
        BY <2>2, <3>1, <3>2
      <3>4. phase' \in [Runs -> Phases]
        BY <2>8, PhaseNames DEF NextZone, Go, TypeOK
      <3>5. collected' \in [Runs -> SUBSET Rows] /\ downloaded' \in [Runs -> Nat]
        BY <2>7, <2>8 DEF NextZone, TypeOK
      <3>6. QED
        BY <1>6, <3>3, <3>4, <3>5 DEF ReadPage, TypeOK, outside, stored, watch, Fetches
    <2>9. CASE /\ fetch' = [fetch EXCEPT ![r].rows = rows, ![r].number = number,
                                         ![r].total = total, ![r].page = @ + 1]
               /\ UNCHANGED <<phase, collected, downloaded>>
      <3> HIDE DEF rows, number, z, total
      <3> DEFINE next == [fetch[r] EXCEPT !.rows = rows, !.number = number,
                                          !.total = total, !.page = @ + 1]
      <3>1. next \in Fetches
        BY <2>2, <2>7, FetchUpdates
      <3>2. fetch' = [fetch EXCEPT ![r] = next]
        BY <2>2, <2>9
      <3> HIDE DEF next
      <3>3. fetch' \in [Runs -> Fetches]
        BY <2>2, <3>1, <3>2
      <3>4. QED
        BY <1>6, <2>9, <3>3 DEF ReadPage, TypeOK, outside, stored, watch, Fetches
    <2>10. QED
      BY <2>1, <2>8, <2>9 DEF got
  <1>7. ASSUME NEW r \in Runs, Validate(r) PROVE TypeOK'
    <2>1. config \in Config
      BY SyncAssumption DEF TypeOK
    <2>2. plan' \in [Runs -> Config]
      BY <1>7, <2>1 DEF Validate, TypeOK, Config
    <2>3. phase' \in [Runs -> Phases]
      BY <1>7, PhaseNames DEF Validate, Go, TypeOK
    <2>4. left' \in [Runs -> SUBSET Rows]
      BY <1>7 DEF Validate, TypeOK
    <2>5. QED
      BY <1>7, <2>2, <2>3, <2>4 DEF Validate, TypeOK, outside, stored, watch
  <1>8. ASSUME NEW r \in Runs, ReadHashes(r) PROVE TypeOK'
    <2>1. phase' \in [Runs -> Phases]
      BY <1>8, PhaseNames DEF ReadHashes, Go, TypeOK
    <2>2. known' \in [Runs -> [People -> Rows \cup {NoSnapshot}]]
      BY <1>8 DEF ReadHashes, TypeOK
    <2>3. QED
      BY <1>8, <2>1, <2>2 DEF ReadHashes, TypeOK, outside, stored, watch
  <1>9. ASSUME NEW r \in Runs PROVE Chunk(r) \in SUBSET Rows /\ Changed(r) \in SUBSET Rows
    BY DEF Chunk, Changed, TypeOK
  <1>10. ASSUME NEW r \in Runs, WriteUsers(r) PROVE TypeOK'
    <2>1. phase' \in [Runs -> Phases]
      BY <1>10, PhaseNames DEF WriteUsers, Go, TypeOK
    <2>2. users' \in [People -> UserDocs \cup {NoUser}]
      BY <1>9, <1>10, Sealing DEF WriteUsers
    <2>3. QED
      BY <1>10, <2>1, <2>2 DEF WriteUsers, TypeOK, outside, locals, watch
  <1>11. ASSUME NEW r \in Runs, WriteSomeUsers(r) PROVE TypeOK'
    <2>1. PICK rows \in SUBSET Chunk(r) : users' = SealAll(rows, r)
      BY <1>11 DEF WriteSomeUsers
    <2>2. users' \in [People -> UserDocs \cup {NoUser}]
      BY <1>9, <2>1, Sealing
    <2>3. snapshots' \in [People -> Rows \cup {NoSnapshot}]
      BY <1>11 DEF WriteSomeUsers, TypeOK
    <2>4. QED
      BY <1>11, <2>2, <2>3, EndTypes DEF WriteSomeUsers
  <1>12. ASSUME NEW r \in Runs, WriteSnapshots(r) PROVE TypeOK'
    <2>1. phase' \in [Runs -> Phases]
      BY <1>12, PhaseNames DEF WriteSnapshots, Go, TypeOK
    <2>2. snapshots' \in [People -> Rows \cup {NoSnapshot}]
      BY <1>9, <1>12, Storing DEF WriteSnapshots
    <2>3. /\ left' \in [Runs -> SUBSET Rows]
          /\ known' \in [Runs -> [People -> Rows \cup {NoSnapshot}]]
      BY <1>12 DEF WriteSnapshots, TypeOK
    <2>4. QED
      BY <1>12, <2>1, <2>2, <2>3 DEF WriteSnapshots, TypeOK, outside, watch
  <1>13. ASSUME NEW r \in Runs, WriteSomeSnapshots(r) PROVE TypeOK'
    <2>1. PICK rows \in SUBSET Changed(r) : snapshots' = Store(rows)
      BY <1>13 DEF WriteSomeSnapshots
    <2>2. snapshots' \in [People -> Rows \cup {NoSnapshot}]
      BY <1>9, <2>1, Storing
    <2>3. users' \in [People -> UserDocs \cup {NoUser}]
      BY <1>13 DEF WriteSomeSnapshots, TypeOK
    <2>4. QED
      BY <1>13, <2>2, <2>3, EndTypes DEF WriteSomeSnapshots
  <1>14. ASSUME NEW r \in Runs, MarkOrphans(r) PROVE TypeOK'
    <2>5. \A p \in Orphans(r) : users[p] \in UserDocs
      BY DEF Orphans, TypeOK
    <2>6. \A u \in UserDocs : [u EXCEPT !.present = FALSE] \in UserDocs
      BY DEF UserDocs
    <2>1. \A p \in Orphans(r) : [users[p] EXCEPT !.present = FALSE] \in UserDocs
      BY <2>5, <2>6
    <2>2. users' \in [People -> UserDocs \cup {NoUser}]
      BY <1>14, <2>1 DEF MarkOrphans, TypeOK
    <2>3. snapshots' \in [People -> Rows \cup {NoSnapshot}]
      BY <1>14 DEF MarkOrphans, TypeOK
    <2>4. QED
      BY <1>14, <2>2, <2>3, EndTypes DEF MarkOrphans
  <1>15. ASSUME NEW r \in Runs, Fail(r) \/ FinishImport(r) PROVE TypeOK'
    <2>1. /\ users' \in [People -> UserDocs \cup {NoUser}]
          /\ snapshots' \in [People -> Rows \cup {NoSnapshot}]
      BY <1>15 DEF Fail, FinishImport, stored, TypeOK
    <2>2. QED
      BY <1>15, <2>1, EndTypes DEF Fail, FinishImport
  <1>16. CASE Crash
    <2>1. /\ phase' \in [Runs -> Phases]
          /\ plan' \in [Runs -> Config]
          /\ fetch' \in [Runs -> Fetches]
      BY <1>16, NothingHeld, PhaseNames DEF Crash, TypeOK, Fetches
    <2>2. /\ collected' \in [Runs -> SUBSET Rows] /\ left' \in [Runs -> SUBSET Rows]
          /\ downloaded' \in [Runs -> Nat]
      BY <1>16 DEF Crash, TypeOK
    <2>3. known' \in [Runs -> [People -> Rows \cup {NoSnapshot}]]
      BY <1>16 DEF Crash, TypeOK
    <2>4. quiet' \in [Runs -> BOOLEAN] /\ stayed' \in [Runs -> SUBSET People]
      BY <1>16 DEF Crash, TypeOK
    <2>5. QED
      BY <1>16, <2>1, <2>2, <2>3, <2>4 DEF Crash, TypeOK, outside, stored, Fetches
  <1>17. CASE Outside
    <2>1. CASE Report
      <3>1. /\ registry' \in [People -> Entries] /\ quiet' \in [Runs -> BOOLEAN]
            /\ stayed' \in [Runs -> SUBSET People] /\ changes' \in Nat
        BY <2>1 DEF Report, Change, TypeOK
      <3>2. QED
        BY <2>1, <3>1 DEF Report, TypeOK, stored, locals
    <2>2. CASE Configure
      BY <2>2 DEF Configure, Change, TypeOK, stored, locals, watch
    <2>3. CASE SwitchAccount
      BY <2>3 DEF SwitchAccount, Change, TypeOK, stored, locals, watch
    <2>4. CASE CreateUser
      <3>1. [present |-> TRUE, stamp |-> NoRun, cargo |-> NoCargo, group |-> NoGroup]
              \in UserDocs
        BY DEF UserDocs
      <3>2. users' \in [People -> UserDocs \cup {NoUser}] /\ changes' \in Nat
        BY <2>4, <3>1 DEF CreateUser, Change, TypeOK
      <3>3. QED
        BY <2>4, <3>2 DEF CreateUser, TypeOK, locals, watch
    <2>5. CASE RemoveUser
      <3>1. users' \in [People -> UserDocs \cup {NoUser}] /\ changes' \in Nat
        BY <2>5 DEF RemoveUser, Change, TypeOK
      <3>2. QED
        BY <2>5, <3>1 DEF RemoveUser, TypeOK, locals, watch
    <2>6. QED
      BY <1>17, <2>1, <2>2, <2>3, <2>4, <2>5 DEF Outside
  <1>18. CASE UNCHANGED vars
    BY <1>18 DEF vars, outside, stored, locals, watch, TypeOK
  <1>19. ASSUME NEW r \in Runs, Advance(r) PROVE TypeOK'
    BY <1>3, <1>4, <1>5, <1>6, <1>7, <1>8, <1>10, <1>11, <1>12, <1>13, <1>14, <1>15, <1>19
       DEF Advance, Persist
  <1>20. QED
    BY <1>1, <1>2, <1>16, <1>17, <1>18, <1>19 DEF Next

\* Every step of runs, scripts and administrators keeps the types.
THEOREM SyncTypeCorrect == Spec => []TypeOK
  <1>1. QED
    BY TypeInit, TypeNext, PTL DEF Spec

-----------------------------------------------------------------------------
(* One run at a time. *)

\* A run goes from one of its steps to the next.
Inside(r) ==
    /\ phase[r] \in Working /\ phase'[r] \in Working
    /\ \A q \in Runs \ {r} : phase'[q] = phase[q]
    /\ inProgress' = inProgress

\* The steps of a run, by what they do to the phases.
LEMMA StepsOfARun ==
  ASSUME TypeOK, NEW r \in Runs, Advance(r)
  PROVE  \/ Enter(r) \/ Inside(r)
         \/ \E how \in {"done", "failed"} : phase[r] \in Working /\ End(r, how)
  <1> USE DEF Working, Downloading, Persisting
  <1>1. phase \in [Runs -> Phases]
    BY DEF TypeOK
  <1>2. ASSUME Login(r) PROVE Inside(r)
    BY <1>1, <1>2 DEF Login, Go, Inside
  <1>3. ASSUME Try(r) PROVE Inside(r)
    BY <1>1, <1>3 DEF Try, Reuse, Skip, Authenticate, Go, Inside
  <1>4. ASSUME ReadPage(r) PROVE Inside(r)
    BY <1>1, <1>4 DEF ReadPage, NextZone, Go, Inside
  <1>5. ASSUME Validate(r) PROVE Inside(r)
    BY <1>1, <1>5 DEF Validate, Go, Inside
  <1>6. ASSUME ReadHashes(r) PROVE Inside(r)
    BY <1>1, <1>6 DEF ReadHashes, Go, Inside
  <1>7. ASSUME WriteUsers(r) PROVE Inside(r)
    BY <1>1, <1>7 DEF WriteUsers, Go, Inside
  <1>8. ASSUME WriteSnapshots(r) PROVE Inside(r)
    BY <1>1, <1>8 DEF WriteSnapshots, Go, Inside
  <1>9. ASSUME WriteSomeUsers(r) \/ WriteSomeSnapshots(r) \/ Fail(r)
        PROVE  phase[r] \in Working /\ End(r, "failed")
    BY <1>9 DEF WriteSomeUsers, WriteSomeSnapshots, Fail
  <1>10. ASSUME MarkOrphans(r) \/ FinishImport(r)
         PROVE  phase[r] \in Working /\ End(r, "done")
    BY <1>10 DEF MarkOrphans, FinishImport
  <1>11. QED
    BY <1>2, <1>3, <1>4, <1>5, <1>6, <1>7, <1>8, <1>9, <1>10 DEF Advance, Persist

\* Every step but those of runs and the crash leaves phases and flag alone.
LEMMA OutsideLeavesRuns ==
  ASSUME Outside \/ UNCHANGED vars
  PROVE  UNCHANGED <<phase, inProgress, plan, collected, left>>
  BY DEF Outside, Report, Configure, SwitchAccount, CreateUser, RemoveUser, vars, locals

LEMMA OneAtATimeNext ==
  ASSUME TypeOK, OneAtATime, Overlap = FALSE, [Next]_vars
  PROVE  OneAtATime'
  <1> USE DEF Busy
  <1>1. phase \in [Runs -> Phases] /\ Syncs \cap Imports = {} /\ Runs = Syncs \cup Imports
    BY SyncAssumption DEF TypeOK, Runs
  <1>2. /\ \A x \in {"idle", "entering", "refused", "done", "failed"} : x \notin Working
        /\ "hashes" \in Working /\ "login" \in Working
    BY DEF Working, Downloading, Persisting
  <1>3. ASSUME NEW r \in Runs, Call(r) PROVE OneAtATime'
    <2>1. /\ r \in Syncs
          /\ \A q \in Runs : /\ phase[q] # "entering"
                             /\ q \in Imports => phase[q] \notin Working
          /\ phase' = [phase EXCEPT ![r] = IF inProgress THEN "refused" ELSE "entering"]
          /\ inProgress' = inProgress
      BY <1>3 DEF Call, Go
    <2>2. CASE inProgress
      BY <1>1, <1>2, <2>1, <2>2 DEF OneAtATime
    <2>3. CASE ~inProgress
      BY <1>1, <1>2, <2>1, <2>3 DEF OneAtATime
    <2>4. QED
      BY <2>2, <2>3
  <1>4. ASSUME NEW r \in Runs, Import(r) PROVE OneAtATime'
    <2>1. /\ r \in Imports
          /\ \A q \in Syncs : phase[q] \notin Busy
          /\ phase' = [phase EXCEPT ![r] = "hashes"]
          /\ inProgress' = inProgress
      BY <1>4 DEF Import, Go
    <2>2. QED
      BY <1>1, <1>2, <2>1 DEF OneAtATime
  <1>5. ASSUME NEW r \in Runs, Enter(r) PROVE OneAtATime'
    <2>1. /\ phase[r] = "entering" /\ phase' = [phase EXCEPT ![r] = "login"]
          /\ inProgress' = TRUE
      BY <1>5 DEF Enter, Go
    <2>2. QED
      BY <1>1, <1>2, <2>1 DEF OneAtATime
  <1>6. ASSUME NEW r \in Runs, Inside(r) PROVE OneAtATime'
    <2>1. \A q \in Runs : /\ phase'[q] \in Working <=> phase[q] \in Working
                          /\ phase'[q] = "entering" <=> phase[q] = "entering"
      BY <1>2, <1>6 DEF Inside
    <2>2. QED
      BY <1>1, <1>6, <2>1 DEF OneAtATime, Inside
  <1>7. ASSUME NEW r \in Runs, NEW how \in {"done", "failed"},
               phase[r] \in Working, End(r, how)
        PROVE  OneAtATime'
    <2>1. /\ phase' = [phase EXCEPT ![r] = how]
          /\ inProgress' = IF r \in Syncs THEN FALSE ELSE inProgress
      BY <1>7 DEF End, Go
    <2>2. QED
      BY <1>1, <1>2, <1>7, <2>1 DEF OneAtATime
  <1>8. CASE Crash
    <2>1. /\ \A q \in Syncs : phase'[q] \notin Busy
          /\ \A q \in Imports : phase'[q] = phase[q]
      BY <1>1, <1>2, <1>8 DEF Crash
    <2>2. QED
      BY <2>1 DEF OneAtATime
  <1>9. CASE Outside \/ UNCHANGED vars
    BY <1>9, OutsideLeavesRuns DEF OneAtATime
  <1>10. ASSUME NEW r \in Runs, Advance(r) PROVE OneAtATime'
    BY <1>5, <1>6, <1>7, <1>10, StepsOfARun
  <1>11. QED
    BY <1>3, <1>4, <1>8, <1>9, <1>10 DEF Next

-----------------------------------------------------------------------------
(* What a step does to the rows of a run and to the seals. *)

\* The roll of a run stays as it is from the validation to the end.
KeepsRoll(s) ==
    /\ phase[s] \in Persisting =>
         \/ phase'[s] \in Persisting /\ collected'[s] = collected[s]
         \/ phase'[s] \in {"done", "failed"}
    /\ phase[s] \in {"done", "failed"} => phase'[s] = phase[s]

LEMMA RunsKeepTheirRoll ==
  ASSUME TypeOK, [Next]_vars, NEW s \in Runs
  PROVE  KeepsRoll(s)
  <1> USE DEF Working, Downloading, Persisting, KeepsRoll
  <1>1. phase \in [Runs -> Phases] /\ collected \in [Runs -> SUBSET Rows]
    BY DEF TypeOK
  <1>2. ASSUME NEW r \in Runs, Call(r) PROVE KeepsRoll(s)
    BY <1>1, <1>2 DEF Call, Go, locals
  <1>3. ASSUME NEW r \in Runs, Import(r) PROVE KeepsRoll(s)
    BY <1>1, <1>3 DEF Import, Go
  <1>4. ASSUME NEW r \in Runs, Enter(r) \/ Login(r) \/ Validate(r) \/ ReadHashes(r)
        PROVE  KeepsRoll(s)
    BY <1>1, <1>4 DEF Enter, Login, Validate, ReadHashes, Go
  <1>5. ASSUME NEW r \in Runs, Try(r) PROVE KeepsRoll(s)
    BY <1>1, <1>5 DEF Try, Reuse, Skip, Authenticate, Go
  <1>6. ASSUME NEW r \in Runs, ReadPage(r) PROVE KeepsRoll(s)
    <2>1. /\ phase[r] = "page"
          /\ \A q \in Runs \ {r} : phase'[q] = phase[q] /\ collected'[q] = collected[q]
      BY <1>1, <1>6 DEF ReadPage, NextZone, Go
    <2>2. QED
      BY <2>1
  <1>7. ASSUME NEW r \in Runs, WriteUsers(r) \/ WriteSnapshots(r) PROVE KeepsRoll(s)
    BY <1>1, <1>7 DEF WriteUsers, WriteSnapshots, Go, locals
  <1>8. ASSUME NEW r \in Runs, NEW how \in {"done", "failed"},
               phase[r] \in Working, End(r, how)
        PROVE  KeepsRoll(s)
    BY <1>1, <1>8 DEF End, Go
  <1>9. ASSUME NEW r \in Runs,
               \/ WriteSomeUsers(r) \/ WriteSomeSnapshots(r) \/ MarkOrphans(r)
               \/ Fail(r) \/ FinishImport(r)
        PROVE  KeepsRoll(s)
    BY <1>8, <1>9 DEF WriteSomeUsers, WriteSomeSnapshots, MarkOrphans, Fail, FinishImport
  <1>10. CASE Crash
    BY <1>1, <1>10 DEF Crash
  <1>11. CASE Outside \/ UNCHANGED vars
    BY <1>11, OutsideLeavesRuns
  <1>12. QED
    BY <1>2, <1>3, <1>4, <1>5, <1>6, <1>7, <1>9, <1>10, <1>11
       DEF Next, Advance, Persist

\* Where the seal of a document comes from.
SealIsKept(p) == users[p] # NoUser /\ users'[p].stamp = users[p].stamp

SealIsNew(p) ==
    \E r \in Runs : /\ users'[p].stamp = r /\ phase[r] = "users" /\ p \in Persons(Chunk(r))
                    /\ \/ phase'[r] = "failed"
                       \/ phase'[r] = "snapshots" /\ collected'[r] = collected[r]

Stamped(p) ==
    users'[p] # NoUser => SealIsKept(p) \/ users'[p].stamp = NoRun \/ SealIsNew(p)

LEMMA SealsComeFromChunks ==
  ASSUME TypeOK, [Next]_vars, NEW p \in People
  PROVE  Stamped(p)
  <1> USE DEF Stamped, SealIsKept
  <1>1. ASSUME users' = users PROVE Stamped(p)
    BY <1>1
  <1>2. ASSUME NEW r \in Runs PROVE Chunk(r) \in SUBSET Rows
    BY DEF Chunk, TypeOK
  <1>3. ASSUME NEW r \in Runs, NEW rows \in SUBSET Chunk(r), users' = SealAll(rows, r),
               phase[r] = "users",
               \/ phase'[r] = "failed"
               \/ phase'[r] = "snapshots" /\ collected'[r] = collected[r]
        PROVE  Stamped(p)
    <2>1. rows \in SUBSET Rows /\ Persons(rows) \subseteq Persons(Chunk(r))
      BY <1>2 DEF Persons
    <2>2. CASE p \in Persons(rows)
      <3>1. users'[p].stamp = r
        BY <1>3, <2>1, <2>2, Sealing
      <3>2. QED
        BY <1>3, <2>1, <2>2, <3>1 DEF SealIsNew
    <2>3. CASE p \notin Persons(rows)
      BY <1>3, <2>1, <2>3, Sealing
    <2>4. QED
      BY <2>2, <2>3
  <1>4. ASSUME NEW r \in Runs, WriteUsers(r) PROVE Stamped(p)
    <2>1. /\ users' = SealAll(Chunk(r), r) /\ phase[r] = "users"
          /\ phase'[r] = "snapshots" /\ collected'[r] = collected[r]
      BY <1>4 DEF WriteUsers, Go, locals, TypeOK
    <2>2. QED
      BY <1>3, <2>1
  <1>5. ASSUME NEW r \in Runs, WriteSomeUsers(r) PROVE Stamped(p)
    <2>1. PICK rows \in SUBSET Chunk(r) : users' = SealAll(rows, r)
      BY <1>5 DEF WriteSomeUsers
    <2>2. phase[r] = "users" /\ phase'[r] = "failed"
      BY <1>5 DEF WriteSomeUsers, End, Go, TypeOK
    <2>3. QED
      BY <1>3, <2>1, <2>2
  <1>6. ASSUME NEW r \in Runs, MarkOrphans(r) PROVE Stamped(p)
    <2>1. \/ users'[p] = users[p]
          \/ users[p] # NoUser /\ users'[p] = [users[p] EXCEPT !.present = FALSE]
      BY <1>6 DEF MarkOrphans, Orphans
    <2>2. users[p] # NoUser => users[p] \in UserDocs
      BY DEF TypeOK
    <2>3. QED
      BY <2>1, <2>2 DEF UserDocs
  <1>7. CASE Outside
    <2>1. CASE Report \/ Configure \/ SwitchAccount
      BY <1>1, <2>1 DEF Report, Configure, SwitchAccount, stored
    <2>2. CASE CreateUser \/ RemoveUser
      BY <2>2 DEF CreateUser, RemoveUser, TypeOK
    <2>3. QED
      BY <1>7, <2>1, <2>2 DEF Outside
  <1>8. ASSUME NEW r \in Runs,
               \/ Call(r) \/ Import(r) \/ Enter(r) \/ Login(r) \/ Try(r) \/ ReadPage(r)
               \/ Validate(r) \/ ReadHashes(r) \/ WriteSnapshots(r) \/ WriteSomeSnapshots(r)
               \/ Fail(r) \/ FinishImport(r)
        PROVE  users' = users
    BY <1>8 DEF Call, Import, Enter, Login, Try, ReadPage, Validate, ReadHashes,
                WriteSnapshots, WriteSomeSnapshots, Fail, FinishImport, stored
  <1>9. CASE Crash \/ UNCHANGED vars
    BY <1>1, <1>9 DEF Crash, vars, stored
  <1>10. QED
    BY <1>1, <1>4, <1>5, <1>6, <1>7, <1>8, <1>9 DEF Next, Advance, Persist

LEMMA SealsAreOfTheRollNext ==
  ASSUME TypeOK, LeftIsCollected, SealsAreOfTheRoll, [Next]_vars
  PROVE  SealsAreOfTheRoll'
  <1> SUFFICES ASSUME NEW s \in Syncs, NEW p \in People,
                      users'[p] # NoUser, users'[p].stamp = s
               PROVE  \/ phase'[s] \in {"done", "failed"}
                      \/ phase'[s] \in Persisting /\ p \in Persons(collected'[s])
    BY DEF SealsAreOfTheRoll, Roll
  <1>1. s \in Runs /\ s # NoRun
    BY SyncAssumption DEF Runs
  <1>2. CASE SealIsKept(p)
    <2>1. \/ phase[s] \in {"done", "failed"}
          \/ phase[s] \in Persisting /\ p \in Persons(collected[s])
      BY <1>2 DEF SealIsKept, SealsAreOfTheRoll, Roll
    <2>2. KeepsRoll(s)
      BY <1>1, RunsKeepTheirRoll
    <2>3. QED
      BY <2>1, <2>2 DEF KeepsRoll
  <1>3. CASE SealIsNew(p)
    <2>1. /\ phase[s] = "users" /\ p \in Persons(Chunk(s))
          /\ \/ phase'[s] = "failed"
             \/ phase'[s] = "snapshots" /\ collected'[s] = collected[s]
      BY <1>3 DEF SealIsNew
    <2>2. Chunk(s) \subseteq collected[s]
      BY <1>1, ChunkIsLeft DEF LeftIsCollected
    <2>3. QED
      BY <2>1, <2>2 DEF Persons, Persisting
  <1>4. QED
    BY <1>1, <1>2, <1>3, SealsComeFromChunks DEF Stamped

-----------------------------------------------------------------------------
(* Whoever is persisted carries the seal. *)

LEMMA LeftIsCollectedNext ==
  ASSUME TypeOK, LeftIsCollected, [Next]_vars, NEW s \in Runs
  PROVE  left'[s] \subseteq collected'[s]
  <1>1. /\ left \in [Runs -> SUBSET Rows] /\ collected \in [Runs -> SUBSET Rows]
        /\ left[s] \subseteq collected[s]
    BY DEF TypeOK, LeftIsCollected
  <1>2. ASSUME NEW r \in Runs, NEW how, End(r, how) PROVE left'[s] \subseteq collected'[s]
    BY <1>1, <1>2 DEF End
  <1>3. ASSUME NEW r \in Runs,
               \/ Call(r) \/ Enter(r) \/ Login(r) \/ Try(r) \/ ReadHashes(r) \/ WriteUsers(r)
        PROVE  left'[s] \subseteq collected'[s]
    BY <1>1, <1>3 DEF Call, Enter, Login, Try, ReadHashes, WriteUsers, locals
  <1>4. ASSUME NEW r \in Runs, Import(r) PROVE left'[s] \subseteq collected'[s]
    BY <1>1, <1>4 DEF Import
  <1>5. ASSUME NEW r \in Runs, ReadPage(r) PROVE left'[s] \subseteq collected'[s]
    <2>1. left' = left /\ collected[s] \subseteq collected'[s]
      BY <1>1, <1>5 DEF ReadPage, NextZone
    <2>2. QED
      BY <1>1, <2>1
  <1>6. ASSUME NEW r \in Runs, Validate(r) PROVE left'[s] \subseteq collected'[s]
    BY <1>1, <1>6 DEF Validate
  <1>7. ASSUME NEW r \in Runs, WriteSnapshots(r) PROVE left'[s] \subseteq collected'[s]
    BY <1>1, <1>7 DEF WriteSnapshots
  <1>8. ASSUME NEW r \in Runs,
               \/ WriteSomeUsers(r) \/ WriteSomeSnapshots(r) \/ MarkOrphans(r)
               \/ Fail(r) \/ FinishImport(r)
        PROVE  left'[s] \subseteq collected'[s]
    BY <1>2, <1>8 DEF WriteSomeUsers, WriteSomeSnapshots, MarkOrphans, Fail, FinishImport
  <1>9. CASE Crash
    BY <1>1, <1>9 DEF Crash
  <1>10. CASE Outside \/ UNCHANGED vars
    BY <1>1, <1>10, OutsideLeavesRuns
  <1>11. QED
    BY <1>3, <1>4, <1>5, <1>6, <1>7, <1>8, <1>9, <1>10 DEF Next, Advance, Persist

\* A row comes to be written by the write of its chunk and in no other way.
Grows(s) ==
    \/ Written(s)' \subseteq Written(s)
    \/ WriteUsers(s) /\ (Written(s)' \subseteq Written(s) \cup Chunk(s))

LEMMA SameRunSameRows ==
  ASSUME NEW s \in Runs, phase'[s] = phase[s], collected'[s] = collected[s],
         left'[s] = left[s], plan'[s] = plan[s]
  PROVE  Written(s)' = Written(s) /\ Chunk(s)' = Chunk(s)
  <1>1. Chunk(s)' = Chunk(s)
    BY DEF Chunk
  <1>2. QED
    BY <1>1 DEF Written

LEMMA NothingWritten ==
  ASSUME NEW s \in Runs,
         phase'[s] \notin {"hashes", "users", "snapshots", "orphans"}
  PROVE  Written(s)' = {}
  BY DEF Written

LEMMA WrittenGrows ==
  ASSUME TypeOK, LeftIsCollected, [Next]_vars, NEW s \in Syncs
  PROVE  Grows(s)
  <1> USE DEF Grows
  <1>1. /\ phase \in [Runs -> Phases] /\ collected \in [Runs -> SUBSET Rows]
        /\ left \in [Runs -> SUBSET Rows] /\ plan \in [Runs -> Config]
        /\ fetch \in [Runs -> Fetches]
        /\ s \in Runs /\ left[s] \subseteq collected[s]
        /\ s \notin Imports
    BY SyncAssumption DEF TypeOK, LeftIsCollected, Runs, Fetches
  <1>2. ASSUME NEW r \in Runs, Call(r) \/ Enter(r) \/ Login(r) PROVE Grows(s)
    <2>1. CASE r = s
      <3>1. phase'[s] \in {"refused", "entering", "login", "try"}
        BY <1>1, <1>2, <2>1 DEF Call, Enter, Login, Go
      <3>2. QED
        BY <1>1, <3>1, NothingWritten
    <2>2. CASE r # s
      <3>1. /\ phase'[s] = phase[s] /\ collected'[s] = collected[s]
            /\ left'[s] = left[s] /\ plan'[s] = plan[s]
        BY <1>1, <1>2, <2>2 DEF Call, Enter, Login, Go, locals
      <3>2. QED
        BY <1>1, <3>1, SameRunSameRows
    <2>3. QED
      BY <2>1, <2>2
  <1>3. ASSUME NEW r \in Runs, Try(r) PROVE Grows(s)
    <2>1. CASE r = s
      <3>1. phase'[s] \in {"page", "try"}
        BY <1>1, <1>3, <2>1 DEF Try, Reuse, Skip, Authenticate, Go
      <3>2. QED
        BY <1>1, <3>1, NothingWritten
    <2>2. CASE r # s
      <3>1. /\ phase'[s] = phase[s] /\ collected'[s] = collected[s]
            /\ left'[s] = left[s] /\ plan'[s] = plan[s]
        BY <1>1, <1>3, <2>2 DEF Try, Reuse, Skip, Authenticate, Go
      <3>2. QED
        BY <1>1, <3>1, SameRunSameRows
    <2>3. QED
      BY <2>1, <2>2
  <1>4. ASSUME NEW r \in Runs, ReadPage(r) PROVE Grows(s)
    <2>1. CASE r = s
      <3>1. phase'[s] \in {"page", "validate", "login"}
        BY <1>1, <1>4, <2>1 DEF ReadPage, NextZone, Go
      <3>2. QED
        BY <1>1, <3>1, NothingWritten
    <2>2. CASE r # s
      <3>1. /\ phase'[s] = phase[s] /\ collected'[s] = collected[s]
            /\ left'[s] = left[s] /\ plan'[s] = plan[s]
        BY <1>1, <1>4, <2>2 DEF ReadPage, NextZone, Go
      <3>2. QED
        BY <1>1, <3>1, SameRunSameRows
    <2>3. QED
      BY <2>1, <2>2
  <1>5. ASSUME NEW r \in Runs, Validate(r) \/ Import(r) PROVE Grows(s)
    <2>1. CASE r = s
      <3>1. phase'[s] = "hashes" /\ left'[s] = collected'[s]
        BY <1>1, <1>5, <2>1 DEF Validate, Import, Go
      <3>2. Written(s)' = {}
        BY <3>1 DEF Written
      <3>3. QED
        BY <3>2
    <2>2. CASE r # s
      <3>1. /\ phase'[s] = phase[s] /\ collected'[s] = collected[s]
            /\ left'[s] = left[s] /\ plan'[s] = plan[s]
        BY <1>1, <1>5, <2>2 DEF Validate, Import, Go
      <3>2. QED
        BY <1>1, <3>1, SameRunSameRows
    <2>3. QED
      BY <2>1, <2>2
  <1>6. ASSUME NEW r \in Runs, ReadHashes(r) PROVE Grows(s)
    <2>1. CASE r = s
      <3>1. /\ phase[s] = "hashes" /\ phase'[s] = "users"
            /\ collected'[s] = collected[s] /\ left'[s] = left[s]
        BY <1>1, <1>6, <2>1 DEF ReadHashes, Go
      <3>2. Written(s)' = Written(s)
        BY <3>1 DEF Written
      <3>3. QED
        BY <3>2
    <2>2. CASE r # s
      <3>1. /\ phase'[s] = phase[s] /\ collected'[s] = collected[s]
            /\ left'[s] = left[s] /\ plan'[s] = plan[s]
        BY <1>1, <1>6, <2>2 DEF ReadHashes, Go
      <3>2. QED
        BY <1>1, <3>1, SameRunSameRows
    <2>3. QED
      BY <2>1, <2>2
  <1>7. ASSUME NEW r \in Runs, WriteUsers(r) PROVE Grows(s)
    <2>1. CASE r = s
      <3>1. /\ phase[s] = "users" /\ phase'[s] = "snapshots" /\ UNCHANGED locals
        BY <1>1, <1>7, <2>1 DEF WriteUsers, Go
      <3>2. Chunk(s)' = Chunk(s)
        BY <3>1 DEF Chunk, locals
      <3>3. Written(s)' = Written(s) \cup Chunk(s)
        BY <3>1, <3>2 DEF Written, locals
      <3>4. QED
        BY <1>7, <2>1, <3>3
    <2>2. CASE r # s
      <3>1. /\ phase'[s] = phase[s] /\ collected'[s] = collected[s]
            /\ left'[s] = left[s] /\ plan'[s] = plan[s]
        BY <1>1, <1>7, <2>2 DEF WriteUsers, Go, locals
      <3>2. QED
        BY <1>1, <3>1, SameRunSameRows
    <2>3. QED
      BY <2>1, <2>2
  <1>8. ASSUME NEW r \in Runs, WriteSnapshots(r) PROVE Grows(s)
    <2>1. CASE r = s
      <3>1. /\ phase[s] = "snapshots" /\ collected'[s] = collected[s]
            /\ left'[s] = left[s] \ Chunk(s)
            /\ phase'[s] = IF left[s] \ Chunk(s) # {} THEN "hashes" ELSE "orphans"
        BY <1>1, <1>8, <2>1 DEF WriteSnapshots, Go
      <3>2. Written(s) = (collected[s] \ left[s]) \cup Chunk(s)
        BY <3>1 DEF Written
      <3>3. CASE left[s] \ Chunk(s) # {}
        <4>1. Written(s)' = collected[s] \ (left[s] \ Chunk(s))
          BY <3>1, <3>3 DEF Written
        <4>2. QED
          BY <3>2, <4>1
      <3>4. CASE left[s] \ Chunk(s) = {}
        <4>1. Written(s)' = collected[s]
          BY <3>1, <3>4 DEF Written
        <4>2. QED
          BY <3>2, <3>4, <4>1
      <3>5. QED
        BY <3>3, <3>4
    <2>2. CASE r # s
      <3>1. /\ phase'[s] = phase[s] /\ collected'[s] = collected[s]
            /\ left'[s] = left[s] /\ plan'[s] = plan[s]
        BY <1>1, <1>8, <2>2 DEF WriteSnapshots, Go
      <3>2. QED
        BY <1>1, <3>1, SameRunSameRows
    <2>3. QED
      BY <2>1, <2>2
  <1>9. ASSUME NEW r \in Runs, NEW how \in {"done", "failed"}, End(r, how) PROVE Grows(s)
    <2>1. CASE r = s
      <3>1. phase'[s] \in {"done", "failed"}
        BY <1>1, <1>9, <2>1 DEF End, Go
      <3>2. QED
        BY <1>1, <3>1, NothingWritten
    <2>2. CASE r # s
      <3>1. /\ phase'[s] = phase[s] /\ collected'[s] = collected[s]
            /\ left'[s] = left[s] /\ plan'[s] = plan[s]
        BY <1>1, <1>9, <2>2 DEF End, Go
      <3>2. QED
        BY <1>1, <3>1, SameRunSameRows
    <2>3. QED
      BY <2>1, <2>2
  <1>10. ASSUME NEW r \in Runs,
                \/ WriteSomeUsers(r) \/ WriteSomeSnapshots(r) \/ MarkOrphans(r)
                \/ Fail(r) \/ FinishImport(r)
         PROVE  Grows(s)
    BY <1>9, <1>10 DEF WriteSomeUsers, WriteSomeSnapshots, MarkOrphans, Fail, FinishImport
  <1>11. CASE Crash
    <2>1. CASE phase[s] \in Working \cup {"entering"}
      <3>1. phase'[s] = "failed"
        BY <1>1, <1>11, <2>1 DEF Crash
      <3>2. QED
        BY <1>1, <3>1, NothingWritten
    <2>2. CASE phase[s] \notin Working \cup {"entering"}
      <3>1. /\ phase'[s] = phase[s] /\ collected'[s] = collected[s]
            /\ left'[s] = left[s] /\ plan'[s] = plan[s]
        BY <1>1, <1>11, <2>2 DEF Crash
      <3>2. QED
        BY <1>1, <3>1, SameRunSameRows
    <2>3. QED
      BY <2>1, <2>2
  <1>12. CASE Outside \/ UNCHANGED vars
    BY <1>1, <1>12, OutsideLeavesRuns, SameRunSameRows
  <1>13. QED
    BY <1>2, <1>3, <1>4, <1>5, <1>6, <1>7, <1>8, <1>10, <1>11, <1>12
       DEF Next, Advance, Persist

LEMMA SealsNext ==
  ASSUME IInv, [Next]_vars
  PROVE  Seals'
  <1> SUFFICES ASSUME NEW s \in Syncs, NEW row \in Written(s)'
               PROVE  HasSeal(row.person, s)'
    BY DEF Seals
  <1>1. TypeOK /\ LeftIsCollected /\ s \in Runs /\ Syncs \cap Imports = {}
    BY SyncAssumption DEF IInv, Runs
  <1>2. Grows(s)
    BY <1>1, WrittenGrows
  <1>3. CASE row \in Written(s)
    <2>1. phase[s] \in Working
      BY <1>3 DEF Written, Working, Persisting
    <2>2. HasSeal(row.person, s)
      BY <1>3 DEF IInv, Seals
    <2>3. row \in Rows
      BY <1>1, <1>3 DEF Written, Chunk, TypeOK
    <2>4. row.person \in People
      BY <2>3 DEF Rows
    <2>5. Stamped(row.person)
      BY <1>1, <2>4, SealsComeFromChunks
    <2>6. ASSUME SealIsNew(row.person) PROVE users'[row.person].stamp = s
      <3>1. PICK r \in Runs : users'[row.person].stamp = r /\ phase[r] = "users"
        BY <2>6 DEF SealIsNew
      <3>2. phase[r] \in Working
        BY <3>1 DEF Working, Persisting
      <3>3. r = s
        BY <2>1, <3>2 DEF IInv, OneAtATime, Busy, Runs
      <3>4. QED
        BY <3>1, <3>3
    <2>7. QED
      BY <2>2, <2>5, <2>6 DEF HasSeal, Stamped, SealIsKept
  <1>4. CASE WriteUsers(s) /\ row \in Chunk(s)
    <2>1. Chunk(s) \in SUBSET Rows
      BY <1>1 DEF Chunk, TypeOK
    <2>2. row.person \in Persons(Chunk(s))
      BY <1>4 DEF Persons
    <2>3. users' = SealAll(Chunk(s), s)
      BY <1>4 DEF WriteUsers
    <2>4. users'[row.person].stamp = s
      BY <1>1, <2>1, <2>2, <2>3, Sealing
    <2>5. QED
      BY <2>4 DEF HasSeal
  <1>5. QED
    BY <1>2, <1>3, <1>4 DEF Grows

-----------------------------------------------------------------------------
LEMMA InvInit == Init => IInv
  <1> SUFFICES ASSUME Init PROVE IInv
    OBVIOUS
  <1>1. TypeOK
    BY TypeInit
  <1>2. \A r \in Runs : phase[r] = "idle"
    BY DEF Init
  <1>3. OneAtATime
    BY <1>2 DEF OneAtATime, Busy, Working, Downloading, Persisting, Runs
  <1>4. \A r \in Runs : Written(r) = {}
    BY <1>2 DEF Written
  <1>5. Seals
    BY <1>4 DEF Seals, Runs
  <1>6. SealsAreOfTheRoll
    BY DEF SealsAreOfTheRoll, Init
  <1>7. LeftIsCollected
    BY DEF LeftIsCollected, Init
  <1>8. QED
    BY <1>1, <1>3, <1>5, <1>6, <1>7 DEF IInv

LEMMA InvNext == ASSUME Overlap = FALSE, IInv, [Next]_vars PROVE IInv'
  <1>1. TypeOK /\ OneAtATime /\ SealsAreOfTheRoll /\ LeftIsCollected
    BY DEF IInv
  <1>2. TypeOK'
    BY <1>1, TypeNext
  <1>3. OneAtATime'
    BY <1>1, OneAtATimeNext
  <1>4. Seals'
    BY SealsNext
  <1>5. SealsAreOfTheRoll'
    BY <1>1, SealsAreOfTheRollNext
  <1>6. LeftIsCollected'
    BY <1>1, LeftIsCollectedNext DEF LeftIsCollected
  <1>7. QED
    BY <1>2, <1>3, <1>4, <1>5, <1>6 DEF IInv

\* The step that ConsolidatesTheRoll speaks of.
RollStep ==
    /\ \A p \in People : Leaves(p) =>
          \E r \in Syncs : Consolidates(r) /\ (p \in Roll(r) => ByHand(p))
    /\ \A r \in Syncs, p \in People :
          Consolidates(r) /\ users'[p] # NoUser /\ users'[p].present => p \in Roll(r)

\* Only the consolidation takes the presence from a document.
LEMMA OnlyOrphansLeave ==
  ASSUME TypeOK, [Next]_vars, NEW p \in People, Leaves(p)
  PROVE  \E r \in Syncs : MarkOrphans(r) /\ p \in Orphans(r)
  <1>1. users' # users
    BY DEF Leaves
  <1>2. ASSUME NEW r \in Runs, NEW rows \in SUBSET Chunk(r), users' = SealAll(rows, r)
        PROVE  FALSE
    <2>1. rows \in SUBSET Rows
      BY <1>2 DEF Chunk, TypeOK
    <2>2. users'[p] = users[p] \/ users'[p].present
      BY <1>2, <2>1, Sealing
    <2>3. QED
      BY <2>2 DEF Leaves
  <1>3. ASSUME NEW r \in Runs, WriteUsers(r) \/ WriteSomeUsers(r) PROVE FALSE
    BY <1>2, <1>3 DEF WriteUsers, WriteSomeUsers
  <1>4. ASSUME NEW r \in Runs,
               \/ Call(r) \/ Import(r) \/ Enter(r) \/ Login(r) \/ Try(r) \/ ReadPage(r)
               \/ Validate(r) \/ ReadHashes(r) \/ WriteSnapshots(r) \/ WriteSomeSnapshots(r)
               \/ Fail(r) \/ FinishImport(r)
        PROVE  users' = users
    BY <1>4 DEF Call, Import, Enter, Login, Try, ReadPage, Validate, ReadHashes,
                WriteSnapshots, WriteSomeSnapshots, Fail, FinishImport, stored
  <1>5. ASSUME Crash \/ UNCHANGED vars PROVE users' = users
    BY <1>5 DEF Crash, vars, stored
  <1>6. ASSUME Outside PROVE users'[p] = users[p] \/ users[p] = NoUser \/ users'[p] = NoUser
    BY <1>6 DEF Outside, Report, Configure, SwitchAccount, CreateUser, RemoveUser, stored,
                TypeOK
  <1>7. ~Outside
    BY <1>6 DEF Leaves
  <1>8. PICK r \in Runs : MarkOrphans(r)
    BY <1>1, <1>3, <1>4, <1>5, <1>7 DEF Next, Advance, Persist
  <1>9. p \in Orphans(r)
    BY <1>8 DEF MarkOrphans, Leaves
  <1>10. QED
    BY <1>8, <1>9 DEF MarkOrphans

LEMMA RollStepNext == ASSUME IInv, [Next]_vars PROVE RollStep
  <1>1. TypeOK
    BY DEF IInv
  <1>2. ASSUME NEW p \in People, Leaves(p)
        PROVE  \E r \in Syncs : Consolidates(r) /\ (p \in Roll(r) => ByHand(p))
    <2>1. PICK r \in Syncs : MarkOrphans(r) /\ p \in Orphans(r)
      BY <1>1, <1>2, OnlyOrphansLeave
    <2>2. r \in Runs /\ phase[r] = "orphans" /\ phase'[r] = "done"
      BY <1>1, <2>1 DEF MarkOrphans, End, Go, TypeOK, Runs
    <2>3. ASSUME p \in Roll(r) PROVE ByHand(p)
      <3>1. PICK row \in collected[r] : row.person = p
        BY <2>3 DEF Roll, Persons
      <3>2. row \in Written(r)
        BY <2>2, <3>1 DEF Written
      <3>3. HasSeal(p, r)
        BY <3>1, <3>2 DEF IInv, Seals
      <3>4. QED
        BY <2>1, <3>3 DEF HasSeal, Orphans, ByHand
    <2>4. QED
      BY <2>2, <2>3 DEF Consolidates
  <1>3. ASSUME NEW r \in Syncs, NEW p \in People,
               Consolidates(r), users'[p] # NoUser, users'[p].present
        PROVE  p \in Roll(r)
    <2>1. r \in Runs /\ phase[r] = "orphans" /\ phase'[r] = "done"
      BY <1>3 DEF Consolidates, Runs
    <2>2. MarkOrphans(r)
      <3>1. phase \in [Runs -> Phases]
        BY <1>1 DEF TypeOK
      <3>2. ASSUME NEW q \in Runs, q # r, Call(q) \/ Import(q) \/ Advance(q) PROVE FALSE
        BY <2>1, <3>1, <3>2
           DEF Call, Import, Advance, Persist, Enter, Login, Try, Reuse, Skip, Authenticate,
               ReadPage, NextZone, Validate, ReadHashes, WriteUsers, WriteSomeUsers,
               WriteSnapshots, WriteSomeSnapshots, MarkOrphans, FinishImport, Fail, End, Go
      <3>3. ASSUME Call(r) \/ Import(r) \/ Enter(r) \/ Login(r) \/ Try(r) \/ ReadPage(r)
                   \/ Validate(r) \/ Persist(r)
            PROVE  FALSE
        BY <2>1, <3>3
           DEF Call, Import, Persist, Enter, Login, Try, ReadPage, Validate, ReadHashes,
               WriteUsers, WriteSomeUsers, WriteSnapshots, WriteSomeSnapshots
      <3>4. ASSUME Fail(r) PROVE FALSE
        BY <2>1, <3>1, <3>4 DEF Fail, End, Go
      <3>5. ASSUME FinishImport(r) PROVE FALSE
        BY <1>3, <3>5, SyncAssumption DEF FinishImport
      <3>6. ASSUME Crash PROVE FALSE
        BY <1>3, <2>1, <3>6 DEF Crash, Working, Persisting
      <3>7. ASSUME Outside \/ UNCHANGED vars PROVE FALSE
        BY <2>1, <3>7, OutsideLeavesRuns
      <3>8. QED
        BY <3>2, <3>3, <3>4, <3>5, <3>6, <3>7 DEF Next, Advance
    <2>3. users'[p] = IF p \in Orphans(r) THEN [users[p] EXCEPT !.present = FALSE]
                      ELSE users[p]
      BY <2>2 DEF MarkOrphans
    <2>4. p \notin Orphans(r)
      <3>1. ASSUME p \in Orphans(r) PROVE FALSE
        <4>1. users[p] \in UserDocs
          BY <1>1, <3>1 DEF Orphans, TypeOK
        <4>2. ~users'[p].present
          BY <2>3, <3>1, <4>1 DEF UserDocs
        <4>3. QED
          BY <1>3, <4>2
      <3>2. QED
        BY <3>1
    <2>5. users[p] # NoUser /\ users[p].stamp = r
      BY <1>3, <2>3, <2>4 DEF Orphans
    <2>6. QED
      BY <2>1, <2>5 DEF IInv, SealsAreOfTheRoll
  <1>4. QED
    BY <1>2, <1>3 DEF RollStep

\* When runs do not overlap, however many there are and wherever they fail, each
\* consolidation leaves present exactly those of its roll that are still there.
THEOREM ConsolidationIsTheRoll == ASSUME Overlap = FALSE PROVE Spec => ConsolidatesTheRoll
  <1>1. Init => IInv
    BY InvInit
  <1>2. IInv /\ [Next]_vars => IInv'
    BY InvNext
  <1>3. IInv /\ [Next]_vars => RollStep
    BY RollStepNext
  <1>4. Spec => [][RollStep]_vars
    BY <1>1, <1>2, <1>3, PTL DEF Spec
  <1>5. QED
    BY <1>4 DEF ConsolidatesTheRoll, RollStep

-----------------------------------------------------------------------------
(* The steps of the process, as one run of it sees them. *)

SameLocals(s) ==
    /\ plan'[s] = plan[s] /\ fetch'[s] = fetch[s]
    /\ collected'[s] = collected[s] /\ downloaded'[s] = downloaded[s]
    /\ left'[s] = left[s] /\ known'[s] = known[s]

\* What others do to the documents while a run works: nothing to the snapshots,
\* and of the people they delete some and create some by hand.
OthersKeepStored ==
    /\ snapshots' = snapshots
    /\ \A p \in People : \/ users'[p] = users[p]
                         \/ users'[p] = NoUser
                         \/ users'[p] # NoUser /\ users'[p].stamp = NoRun

StillQuiet(s) ==
    quiet'[s] => quiet[s] /\ registry' = registry /\ stayed'[s] = stayed[s]

\* The step is of somebody else, or a call of s that does not get it to work.
Rests(s) ==
    /\ IF phase[s] \in Working THEN phase'[s] = phase[s] /\ OthersKeepStored
                               ELSE phase'[s] \notin Working
    /\ SameLocals(s) /\ StillQuiet(s)

\* The run ends, or goes down with the application.
Stops(s) ==
    /\ phase'[s] \notin Working /\ fetch'[s] = NoFetch
    /\ collected'[s] = {} /\ downloaded'[s] = 0

Works(s) ==
    \/ Login(s) \/ Try(s) \/ ReadPage(s) \/ Validate(s)
    \/ ReadHashes(s) \/ WriteUsers(s) \/ WriteSnapshots(s)

\* Another run can only start beside one that works, and be refused.
LEMMA OthersLeaveARun ==
  ASSUME TypeOK, OneAtATime, NEW s \in Syncs, NEW r \in Runs, r # s,
         Call(r) \/ Import(r) \/ Advance(r)
  PROVE  Rests(s)
  <1>1. /\ s \in Runs
        /\ phase \in [Runs -> Phases] /\ plan \in [Runs -> Config]
        /\ fetch \in [Runs -> Fetches] /\ collected \in [Runs -> SUBSET Rows]
        /\ downloaded \in [Runs -> Nat] /\ left \in [Runs -> SUBSET Rows]
        /\ known \in [Runs -> [People -> Rows \cup {NoSnapshot}]]
        /\ quiet \in [Runs -> BOOLEAN] /\ stayed \in [Runs -> SUBSET People]
    BY DEF TypeOK, Runs, Fetches
  <1> DEFINE Same == /\ phase'[s] = phase[s] /\ SameLocals(s)
                     /\ quiet'[s] = quiet[s] /\ stayed'[s] = stayed[s]
                     /\ registry' = registry
  <1>2. ASSUME Call(r) PROVE Same
    BY <1>1, <1>2 DEF Call, Go, locals, watch, outside, SameLocals
  <1>3. ASSUME Import(r) PROVE Same
    BY <1>1, <1>3 DEF Import, Go, watch, outside, SameLocals
  <1>4. ASSUME NEW how, End(r, how), registry' = registry PROVE Same
    BY <1>1, <1>4 DEF End, Go, SameLocals
  <1>5. ASSUME Enter(r) \/ Login(r) \/ Validate(r) \/ ReadHashes(r) PROVE Same
    BY <1>1, <1>5 DEF Enter, Login, Validate, ReadHashes, Go, watch, outside, SameLocals
  <1>6. ASSUME Try(r) PROVE Same
    BY <1>1, <1>6 DEF Try, Reuse, Skip, Authenticate, Go, watch, outside, SameLocals
  <1>7. ASSUME ReadPage(r) PROVE Same
    BY <1>1, <1>7 DEF ReadPage, NextZone, Go, watch, outside, SameLocals
  <1>8. ASSUME WriteUsers(r) \/ WriteSnapshots(r) PROVE Same
    BY <1>1, <1>8 DEF WriteUsers, WriteSnapshots, Go, locals, watch, outside, SameLocals
  <1>9. ASSUME \/ WriteSomeUsers(r) \/ WriteSomeSnapshots(r) \/ MarkOrphans(r)
               \/ Fail(r) \/ FinishImport(r)
        PROVE  Same
    <2> HIDE DEF Same
    <2>1. QED
      BY <1>4, <1>9
         DEF WriteSomeUsers, WriteSomeSnapshots, MarkOrphans, Fail, FinishImport, outside
  <1>10. Same
    <2> HIDE DEF Same
    <2>1. QED
      BY <1>2, <1>3, <1>5, <1>6, <1>7, <1>8, <1>9 DEF Advance, Persist
  <1>11. ASSUME phase[s] \in Working PROVE OthersKeepStored
    <2>1. phase[r] \notin Busy
      <3>1. CASE r \in Syncs
        BY <1>11, <3>1 DEF OneAtATime, Busy
      <3>2. CASE r \in Imports
        BY <1>11, <3>2 DEF OneAtATime, Busy
      <3>3. QED
        BY <3>1, <3>2 DEF Runs
    <2>2. ~Advance(r)
      BY <2>1 DEF Advance, Persist, Enter, Login, Try, ReadPage, Validate, ReadHashes,
                  WriteUsers, WriteSomeUsers, WriteSnapshots, WriteSomeSnapshots, MarkOrphans,
                  FinishImport, Fail, Busy, Working, Downloading, Persisting
    <2>3. UNCHANGED stored
      BY <2>2 DEF Call, Import
    <2>4. QED
      BY <2>3 DEF stored, OthersKeepStored
  <1>12. QED
    BY <1>10, <1>11 DEF Rests, StillQuiet

\* The same of administrators and of the register.
LEMMA OutsideLeavesARun ==
  ASSUME TypeOK, NEW s \in Syncs, Outside \/ UNCHANGED vars
  PROVE  Rests(s)
  <1>1. s \in Runs /\ users \in [People -> UserDocs \cup {NoUser}]
    BY DEF TypeOK, Runs
  <1>2. phase' = phase /\ SameLocals(s)
    BY DEF Outside, Report, Configure, SwitchAccount, CreateUser, RemoveUser, vars, locals,
           SameLocals
  <1>3. OthersKeepStored
    <2>1. ASSUME Report \/ Configure \/ SwitchAccount \/ UNCHANGED vars
          PROVE  users' = users /\ snapshots' = snapshots
      BY <2>1 DEF Report, Configure, SwitchAccount, vars, stored
    <2>2. ASSUME CreateUser PROVE OthersKeepStored
      <3>1. PICK p \in People :
              users' = [users EXCEPT ![p] = [present |-> TRUE, stamp |-> NoRun,
                                             cargo |-> NoCargo, group |-> NoGroup]]
        BY <2>2 DEF CreateUser
      <3>2. users'[p].stamp = NoRun /\ users'[p] \in UserDocs
        BY <1>1, <3>1 DEF UserDocs
      <3>3. snapshots' = snapshots
        BY <2>2 DEF CreateUser
      <3>4. QED
        BY <1>1, <3>1, <3>2, <3>3, SyncAssumption DEF OthersKeepStored
    <2>3. ASSUME RemoveUser PROVE OthersKeepStored
      BY <1>1, <2>3 DEF RemoveUser, OthersKeepStored
    <2>4. QED
      BY <2>1, <2>2, <2>3 DEF Outside, OthersKeepStored
  <1>4. StillQuiet(s)
    <2>1. ASSUME Report PROVE ~quiet'[s]
      BY <1>1, <2>1 DEF Report
    <2>2. ASSUME Configure \/ SwitchAccount \/ CreateUser \/ RemoveUser \/ UNCHANGED vars
          PROVE  registry' = registry /\ quiet' = quiet /\ stayed' = stayed
      BY <2>2 DEF Configure, SwitchAccount, CreateUser, RemoveUser, watch, vars, outside
    <2>3. QED
      BY <2>1, <2>2 DEF Outside, StillQuiet
  <1>5. QED
    BY <1>2, <1>3, <1>4 DEF Rests

\* What a step can be to a run.
LEMMA StepsOfASync ==
  ASSUME TypeOK, OneAtATime, [Next]_vars, NEW s \in Syncs
  PROVE  Enter(s) \/ Works(s) \/ Rests(s) \/ Stops(s)
  <1>1. /\ s \in Runs /\ s \notin Imports
        /\ phase \in [Runs -> Phases] /\ fetch \in [Runs -> Fetches]
        /\ collected \in [Runs -> SUBSET Rows] /\ downloaded \in [Runs -> Nat]
    BY SyncAssumption DEF TypeOK, Runs, Fetches
  <1>2. \A x \in {"idle", "entering", "refused", "done", "failed"} : x \notin Working
    BY DEF Working, Downloading, Persisting
  <1>3. ASSUME NEW how \in {"done", "failed"}, End(s, how) PROVE Stops(s)
    BY <1>1, <1>2, <1>3 DEF End, Go, Stops
  <1>4. ASSUME Advance(s) PROVE Enter(s) \/ Works(s) \/ Stops(s)
    <2>1. ASSUME \/ WriteSomeUsers(s) \/ WriteSomeSnapshots(s) \/ MarkOrphans(s)
                 \/ Fail(s) \/ FinishImport(s)
          PROVE  Stops(s)
      BY <1>3, <2>1 DEF WriteSomeUsers, WriteSomeSnapshots, MarkOrphans, Fail, FinishImport
    <2>2. QED
      BY <1>4, <2>1 DEF Advance, Persist, Works
  <1>5. ASSUME Call(s) PROVE Rests(s)
    BY <1>1, <1>2, <1>5
       DEF Call, Go, locals, watch, outside, Rests, SameLocals, StillQuiet
  <1>6. ~Import(s)
    BY <1>1 DEF Import
  <1>7. ASSUME Crash PROVE Rests(s) \/ Stops(s)
    <2>1. CASE phase[s] \in Working \cup {"entering"}
      BY <1>1, <1>2, <1>7, <2>1 DEF Crash, Stops
    <2>2. CASE phase[s] \notin Working \cup {"entering"}
      <3>1. phase'[s] = phase[s] /\ SameLocals(s)
        BY <1>1, <1>7, <2>2 DEF Crash, SameLocals
      <3>2. StillQuiet(s)
        BY <1>1, <1>7, <2>2 DEF Crash, StillQuiet, outside
      <3>3. QED
        BY <2>2, <3>1, <3>2 DEF Rests
    <2>3. QED
      BY <2>1, <2>2
  <1>8. ASSUME NEW r \in Runs, Call(r) \/ Import(r) \/ Advance(r)
        PROVE  Enter(s) \/ Works(s) \/ Rests(s) \/ Stops(s)
    BY <1>4, <1>5, <1>6, <1>8, OthersLeaveARun
  <1>9. QED
    BY <1>7, <1>8, OutsideLeavesARun DEF Next

-----------------------------------------------------------------------------
(* The download: what a page leaves in the hands of a run. *)

ZoneAtHand(s) == plan[s].zones[fetch[s].index]
TotalAtHand(s) ==
    IF fetch[s].page = 0 THEN Cardinality(ListedIn(ZoneAtHand(s))) ELSE fetch[s].total

SameReading(s) ==
    /\ fetch'[s].index = fetch[s].index /\ fetch'[s].page = fetch[s].page
    /\ fetch'[s].total = fetch[s].total /\ fetch'[s].number = fetch[s].number
    /\ fetch'[s].rows = fetch[s].rows

\* The page was the last of its zone.
PageEnds(s, got) ==
    /\ TotalAtHand(s) <= fetch[s].number + Cardinality(got)
    /\ phase'[s] = IF fetch[s].index = Len(plan[s].zones) THEN "validate" ELSE "login"
    /\ collected'[s] = collected[s] \cup (fetch[s].rows \cup got)
    /\ downloaded'[s] = downloaded[s] + (fetch[s].number + Cardinality(got))
    /\ fetch'[s].index = fetch[s].index + 1 /\ fetch'[s].page = 0
    /\ fetch'[s].number = 0 /\ fetch'[s].rows = {}

PageGoesOn(s, got) ==
    /\ phase'[s] = "page"
    /\ collected'[s] = collected[s] /\ downloaded'[s] = downloaded[s]
    /\ fetch'[s].index = fetch[s].index /\ fetch'[s].page = fetch[s].page + 1
    /\ fetch'[s].total = TotalAtHand(s)
    /\ fetch'[s].number = fetch[s].number + Cardinality(got)
    /\ fetch'[s].rows = fetch[s].rows \cup got

NextPage(s, n) == Page(ZoneAtHand(s), fetch[s].page * plan[s].pageLength, n)

\* The fields of the two updates a page makes.
LEMMA FetchFields ==
  ASSUME NEW f \in Fetches, NEW x, NEW y, NEW t
  PROVE  /\ LET more == [f EXCEPT !.rows = x, !.number = y, !.total = t, !.page = @ + 1]
            IN  /\ more.index = f.index /\ more.page = f.page + 1 /\ more.total = t
                /\ more.number = y /\ more.rows = x
         /\ LET next == [NoFetch EXCEPT !.index = f.index + 1, !.sessions = f.sessions,
                                        !.failed = f.failed]
            IN  /\ next.index = f.index + 1 /\ next.page = 0
                /\ next.number = 0 /\ next.rows = {}
  BY DEF Fetches, NoFetch

LEMMA PageIsRead ==
  ASSUME TypeOK, NEW s \in Runs, ReadPage(s)
  PROVE  /\ \E n \in 0..plan[s].pageLength :
               PageEnds(s, NextPage(s, n)) \/ PageGoesOn(s, NextPage(s, n))
         /\ UNCHANGED <<registry, plan, quiet, stayed>>
  <1> SUFFICES \E n \in 0..plan[s].pageLength :
                  PageEnds(s, NextPage(s, n)) \/ PageGoesOn(s, NextPage(s, n))
    BY DEF ReadPage, outside, watch
  <1> DEFINE z == ZoneAtHand(s)
             total == TotalAtHand(s)
  <1>1. PICK n \in 0..plan[s].pageLength :
            LET got == NextPage(s, n)
                rows == fetch[s].rows \cup got
                number == fetch[s].number + Cardinality(got)
            IN IF LastPage(s, got, number, total)
               THEN ~Incomplete(number, total) /\ NextZone(s, rows, number)
               ELSE /\ fetch' = [fetch EXCEPT ![s].rows = rows, ![s].number = number,
                                              ![s].total = total, ![s].page = @ + 1]
                    /\ UNCHANGED <<phase, collected, downloaded>>
    BY DEF ReadPage, NextPage, ZoneAtHand, TotalAtHand
  <1> DEFINE got == NextPage(s, n)
             more == fetch[s].rows \cup got
             count == fetch[s].number + Cardinality(got)
  <1>2. /\ fetch[s] \in Fetches /\ fetch \in [Runs -> Fetches]
        /\ phase \in [Runs -> Phases] /\ collected \in [Runs -> SUBSET Rows]
        /\ downloaded \in [Runs -> Nat]
    BY DEF TypeOK, Fetches
  <1>3. got \subseteq Rows /\ IsFiniteSet(got)
    BY RowsOfPages DEF NextPage
  <1>4. count \in Nat
    <2>1. Cardinality(got) \in Nat /\ fetch[s].number \in Nat
      BY <1>2, <1>3, FS_CardinalityType DEF Fetches
    <2>2. QED
      BY <2>1
  <1>5. total \in Nat
    <2>1. ListedIn(z) \in SUBSET People /\ IsFiniteSet(People)
      BY SyncAssumption DEF ListedIn
    <2>2. Cardinality(ListedIn(z)) \in Nat
      BY <2>1, FS_Subset, FS_CardinalityType
    <2>3. QED
      BY <1>2, <2>2 DEF TotalAtHand, Fetches
  <1> HIDE DEF total, z
  <1>6. CASE ~Incomplete(count, total) /\ NextZone(s, more, count)
    <2> DEFINE next == [NoFetch EXCEPT !.index = fetch[s].index + 1,
                           !.sessions = fetch[s].sessions, !.failed = fetch[s].failed]
    <2>1. /\ next.index = fetch[s].index + 1 /\ next.page = 0
          /\ next.number = 0 /\ next.rows = {}
      BY <1>2, FetchFields
    <2>2. fetch' = [fetch EXCEPT ![s] = next]
      BY <1>6 DEF NextZone
    <2> HIDE DEF next, more, count
    <2>3. fetch'[s] = next
      BY <1>2, <2>2
    <2>4. /\ phase'[s] = IF fetch[s].index = Len(plan[s].zones) THEN "validate" ELSE "login"
          /\ collected'[s] = collected[s] \cup more
          /\ downloaded'[s] = downloaded[s] + count
      BY <1>2, <1>6 DEF NextZone, Go
    <2>5. total <= count
      BY <1>4, <1>5, <1>6 DEF Incomplete
    <2>6. PageEnds(s, got)
      BY <2>1, <2>3, <2>4, <2>5 DEF PageEnds, total, more, count
    <2>7. QED
      BY <2>6 DEF got
  <1>7. CASE /\ fetch' = [fetch EXCEPT ![s].rows = more, ![s].number = count,
                                       ![s].total = total, ![s].page = @ + 1]
             /\ UNCHANGED <<phase, collected, downloaded>>
    <2> HIDE DEF more, count
    <2> DEFINE next == [fetch[s] EXCEPT !.rows = more, !.number = count,
                                        !.total = total, !.page = @ + 1]
    <2>1. fetch' = [fetch EXCEPT ![s] = next]
      BY <1>2, <1>7
    <2>2. /\ next.index = fetch[s].index /\ next.page = fetch[s].page + 1
          /\ next.total = total /\ next.number = count /\ next.rows = more
      BY <1>2, FetchFields
    <2> HIDE DEF next
    <2>3. fetch'[s] = next
      BY <1>2, <2>1
    <2>4. phase[s] = "page"
      BY DEF ReadPage
    <2>5. PageGoesOn(s, got)
      BY <1>7, <2>2, <2>3, <2>4 DEF PageGoesOn, total, more, count
    <2>6. QED
      BY <2>5 DEF got
  <1>8. QED
    BY <1>1, <1>6, <1>7

\* A run of SiScout's answers holds no more people than rows, and as many only
\* when nobody is in it twice.
OnePerPerson(rows) == \A x, y \in rows : x.person = y.person => x = y

LEMMA PersonsOfRows ==
  ASSUME NEW S, IsFiniteSet(S)
  PROVE  /\ IsFiniteSet(Persons(S)) /\ Cardinality(Persons(S)) <= Cardinality(S)
         /\ Cardinality(Persons(S)) = Cardinality(S) <=> OnePerPerson(S)
  <1> DEFINE T == Persons(S)
             who == [row \in S |-> row.person]
  <1>1. who \in Surjection(S, T)
    BY DEF Surjection, Persons
  <1>2. who \in Injection(S, T) <=> OnePerPerson(S)
    BY <1>1 DEF Injection, IsInjective, Surjection, OnePerPerson
  <1> HIDE DEF who, T
  <1>3. /\ IsFiniteSet(T) /\ Cardinality(T) <= Cardinality(S)
        /\ Cardinality(T) = Cardinality(S) <=> who \in Injection(S, T)
    BY <1>1, FS_Surjection
  <1>4. QED
    BY <1>2, <1>3 DEF T

\* A page shows each person once, and those whose place is in it.
LEMMA PageShows ==
  ASSUME TypeOK, NEW z, NEW start, NEW n
  PROVE  /\ Cardinality(Page(z, start, n)) = Cardinality(Persons(Page(z, start, n)))
         /\ Persons(Page(z, start, n)) =
              {q \in ListedIn(z) : start <= Before(q, z) /\ Before(q, z) < start + n}
  <1> DEFINE shown == {q \in ListedIn(z) : start <= Before(q, z) /\ Before(q, z) < start + n}
             got == Page(z, start, n)
  <1>1. got = {Row(p) : p \in shown}
    BY DEF Page
  <1>2. IsFiniteSet(got)
    BY RowsOfPages
  <1> HIDE DEF shown, got
  <1>3. \A p : Row(p).person = p
    BY DEF Row
  <1>4. Persons(got) = shown
    BY <1>1, <1>3, Zenon DEF Persons
  <1>5. OnePerPerson(got)
    BY <1>1, <1>3 DEF OnePerPerson
  <1>6. QED
    BY <1>2, <1>4, <1>5, PersonsOfRows DEF shown, got

\* How many there are in a listing, and before a person of it, are numbers.
LEMMA ListingCounts ==
  ASSUME NEW z
  PROVE  /\ IsFiniteSet(ListedIn(z)) /\ Cardinality(ListedIn(z)) \in Nat
         /\ \A p : Before(p, z) \in Nat
  <1>1. ListedIn(z) \in SUBSET People /\ IsFiniteSet(People)
    BY SyncAssumption DEF ListedIn
  <1>2. IsFiniteSet(ListedIn(z)) /\ Cardinality(ListedIn(z)) \in Nat
    BY <1>1, FS_Subset, FS_CardinalityType
  <1>3. ASSUME NEW p PROVE Before(p, z) \in Nat
    <2>1. {q \in ListedIn(z) : Place[q] < Place[p]} \in SUBSET People
      BY <1>1
    <2>2. QED
      BY <1>1, <2>1, FS_Subset, FS_CardinalityType DEF Before
  <1>4. QED
    BY <1>2, <1>3

-----------------------------------------------------------------------------
(* Counting: no run holds more rows than it has counted. *)

Counts(s) ==
    /\ IsFiniteSet(fetch[s].rows) /\ Cardinality(fetch[s].rows) <= fetch[s].number
    /\ IsFiniteSet(collected[s]) /\ Cardinality(collected[s]) <= downloaded[s]

EmptyHanded(s) ==
    phase[s] \notin Working =>
        fetch[s] = NoFetch /\ collected[s] = {} /\ downloaded[s] = 0

LEMMA UnionCounts ==
  ASSUME NEW S, IsFiniteSet(S), NEW T, IsFiniteSet(T), NEW m \in Nat, NEW n \in Nat,
         Cardinality(S) <= m, Cardinality(T) <= n
  PROVE  IsFiniteSet(S \cup T) /\ Cardinality(S \cup T) <= m + n
  <1>1. /\ IsFiniteSet(S \cup T)
        /\ Cardinality(S \cup T) = Cardinality(S) + Cardinality(T) - Cardinality(S \cap T)
    BY FS_Union
  <1>2. IsFiniteSet(S \cap T)
    BY FS_Intersection
  <1>3. /\ Cardinality(S) \in Nat /\ Cardinality(T) \in Nat /\ Cardinality(S \cap T) \in Nat
    BY <1>2, FS_CardinalityType
  <1>4. QED
    BY <1>1, <1>3

\* Two states of a download that differ only in its accounts.
Alike(f, g) ==
    /\ g.index = f.index /\ g.page = f.page /\ g.total = f.total
    /\ g.number = f.number /\ g.rows = f.rows

LEMMA AccountFields ==
  ASSUME NEW f \in Fetches, NEW A, NEW B, NEW C
  PROVE  /\ Alike(f, [f EXCEPT !.queue = A])
         /\ Alike(f, [f EXCEPT !.sessions = A])
         /\ Alike(f, [f EXCEPT !.failed = A, !.queue = B, !.sessions = C])
  BY DEF Fetches, Alike

\* Choosing an account changes nothing of what was read.
LEMMA AccountsKeepReading ==
  ASSUME TypeOK, NEW s \in Runs, Login(s) \/ Try(s)
  PROVE  /\ SameReading(s) /\ phase'[s] \in {"try", "page"}
         /\ UNCHANGED <<registry, plan, collected, downloaded, quiet, stayed>>
  <1>1. fetch \in [Runs -> Fetches] /\ fetch[s] \in Fetches /\ phase \in [Runs -> Phases]
    BY DEF TypeOK, Fetches
  <1>2. phase'[s] \in {"try", "page"}
    BY <1>1 DEF Login, Try, Reuse, Skip, Authenticate, Go
  <1>3. UNCHANGED <<registry, plan, collected, downloaded, quiet, stayed>>
    BY DEF Login, Try, outside, watch
  <1>4. ASSUME Login(s) PROVE SameReading(s)
    <2> DEFINE queue == Resolve(plan[s].zones[fetch[s].index])
               next == [fetch[s] EXCEPT !.queue = queue]
    <2>1. fetch' = [fetch EXCEPT ![s] = next]
      BY <1>4 DEF Login
    <2>2. Alike(fetch[s], next)
      BY <1>1, AccountFields
    <2> HIDE DEF next
    <2>3. fetch'[s] = next
      BY <1>1, <2>1
    <2>4. QED
      BY <2>2, <2>3 DEF SameReading, Alike
  <1>5. ASSUME Try(s) PROVE SameReading(s)
    <2>1. PICK a \in Accounts : Reuse(s, a) \/ Skip(s, a) \/ Authenticate(s, a)
      BY <1>5 DEF Try
    <2>2. CASE Reuse(s, a)
      <3>1. fetch' = fetch
        BY <2>2 DEF Reuse
      <3>2. QED
        BY <3>1 DEF SameReading
    <2>3. CASE Skip(s, a)
      <3> DEFINE next == [fetch[s] EXCEPT !.queue = fetch[s].queue \ {a}]
      <3>1. fetch' = [fetch EXCEPT ![s] = next]
        BY <1>1, <2>3 DEF Skip
      <3>2. Alike(fetch[s], next)
        BY <1>1, AccountFields
      <3> HIDE DEF next
      <3>3. fetch'[s] = next
        BY <1>1, <3>1
      <3>4. QED
        BY <3>2, <3>3 DEF SameReading, Alike
    <2>4. CASE Authenticate(s, a)
      <3> DEFINE opened == [fetch[s] EXCEPT !.sessions = fetch[s].sessions \cup {a}]
                 next(open) == [fetch[s] EXCEPT !.failed = fetch[s].failed \cup {a},
                                                !.queue = fetch[s].queue \ {a},
                                                !.sessions = fetch[s].sessions \cup open]
      <3>1. \/ fetch' = [fetch EXCEPT ![s] = opened]
            \/ \E open \in {{}, {a}} : fetch' = [fetch EXCEPT ![s] = next(open)]
        BY <1>1, <2>4 DEF Authenticate
      <3>2. Alike(fetch[s], opened) /\ \A open : Alike(fetch[s], next(open))
        BY <1>1, AccountFields
      <3> HIDE DEF opened, next
      <3>3. fetch'[s] = opened \/ \E open : fetch'[s] = next(open)
        BY <1>1, <3>1
      <3>4. Alike(fetch[s], fetch'[s])
        BY <3>2, <3>3
      <3>5. QED
        BY <3>4 DEF SameReading, Alike
    <2>5. QED
      BY <2>1, <2>2, <2>3, <2>4
  <1>6. QED
    BY <1>2, <1>3, <1>4, <1>5

\* From the validation on nothing is read any more.
LEMMA PersistingKeepsReading ==
  ASSUME NEW s \in Runs, Validate(s) \/ ReadHashes(s) \/ WriteUsers(s) \/ WriteSnapshots(s)
  PROVE  UNCHANGED <<registry, fetch, collected, downloaded, quiet, stayed>>
  BY DEF Validate, ReadHashes, WriteUsers, WriteSnapshots, outside, locals, watch

LEMMA EmptyHandedNext ==
  ASSUME TypeOK, OneAtATime, [Next]_vars, NEW s \in Syncs, EmptyHanded(s)
  PROVE  EmptyHanded(s)'
  <1>1. s \in Runs /\ phase \in [Runs -> Phases]
    BY DEF TypeOK, Runs
  <1>2. SUFFICES ASSUME phase'[s] \notin Working
                 PROVE  fetch'[s] = NoFetch /\ collected'[s] = {} /\ downloaded'[s] = 0
    BY DEF EmptyHanded
  <1>3. ~Enter(s)
    BY <1>1, <1>2 DEF Enter, Go, Working, Downloading
  <1>4. ~Works(s)
    <2>1. ASSUME Works(s) PROVE phase'[s] \in Working
      <3>1. CASE Login(s) \/ Try(s)
        BY <1>1, <3>1, AccountsKeepReading DEF Working, Downloading
      <3>2. CASE ReadPage(s)
        BY <1>1, <3>2, PageIsRead DEF PageEnds, PageGoesOn, Working, Downloading, Persisting
      <3>3. CASE Validate(s) \/ ReadHashes(s) \/ WriteUsers(s) \/ WriteSnapshots(s)
        BY <1>1, <3>3
           DEF Validate, ReadHashes, WriteUsers, WriteSnapshots, Go, Working, Persisting
      <3>4. QED
        BY <2>1, <3>1, <3>2, <3>3 DEF Works
    <2>2. QED
      BY <1>2, <2>1
  <1>5. CASE Rests(s)
    BY <1>2, <1>5 DEF Rests, SameLocals, EmptyHanded
  <1>6. QED
    BY <1>3, <1>4, <1>5, StepsOfASync DEF Stops

LEMMA CountsNext ==
  ASSUME TypeOK, OneAtATime, [Next]_vars, NEW s \in Syncs, Counts(s)
  PROVE  Counts(s)'
  <1>1. /\ s \in Runs /\ fetch[s] \in Fetches /\ downloaded[s] \in Nat
        /\ fetch[s].number \in Nat
    BY DEF TypeOK, Runs, Fetches
  <1>2. ASSUME fetch'[s] = fetch[s] \/ SameReading(s),
               collected'[s] = collected[s], downloaded'[s] = downloaded[s]
        PROVE  Counts(s)'
    BY <1>2 DEF Counts, SameReading
  <1>3. CASE Enter(s) \/ Rests(s)
    BY <1>2, <1>3 DEF Enter, Rests, SameLocals
  <1>4. CASE Works(s)
    <2>1. CASE Login(s) \/ Try(s)
      BY <1>1, <1>2, <2>1, AccountsKeepReading
    <2>2. CASE ReadPage(s)
      <3>1. PICK n \in 0..plan[s].pageLength :
              PageEnds(s, NextPage(s, n)) \/ PageGoesOn(s, NextPage(s, n))
        BY <1>1, <2>2, PageIsRead
      <3> DEFINE got == NextPage(s, n)
      <3>2. IsFiniteSet(got) /\ Cardinality(got) \in Nat
        BY RowsOfPages, FS_CardinalityType DEF NextPage
      <3> HIDE DEF got
      <3>3. /\ IsFiniteSet(fetch[s].rows \cup got)
            /\ Cardinality(fetch[s].rows \cup got) <= fetch[s].number + Cardinality(got)
        <4>1. IsFiniteSet(fetch[s].rows) /\ Cardinality(fetch[s].rows) <= fetch[s].number
          BY DEF Counts
        <4>2. Cardinality(got) <= Cardinality(got)
          BY <3>2
        <4>3. QED
          BY <1>1, <3>2, <4>1, <4>2, UnionCounts, Zenon
      <3>4. fetch[s].number + Cardinality(got) \in Nat
        BY <1>1, <3>2
      <3>5. /\ IsFiniteSet(collected[s] \cup (fetch[s].rows \cup got))
            /\ Cardinality(collected[s] \cup (fetch[s].rows \cup got))
                 <= downloaded[s] + (fetch[s].number + Cardinality(got))
        BY <1>1, <3>3, <3>4, UnionCounts DEF Counts
      <3>6. CASE PageEnds(s, got)
        BY <3>5, <3>6, FS_EmptySet DEF PageEnds, Counts
      <3>7. CASE PageGoesOn(s, got)
        BY <3>3, <3>7 DEF PageGoesOn, Counts
      <3>8. QED
        BY <3>1, <3>6, <3>7 DEF got
    <2>3. CASE Validate(s) \/ ReadHashes(s) \/ WriteUsers(s) \/ WriteSnapshots(s)
      BY <1>1, <1>2, <2>3, PersistingKeepsReading
    <2>4. QED
      BY <1>4, <2>1, <2>2, <2>3 DEF Works
  <1>5. CASE Stops(s)
    BY <1>5, FS_EmptySet DEF Stops, Counts, NoFetch
  <1>6. QED
    BY <1>3, <1>4, <1>5, StepsOfASync

-----------------------------------------------------------------------------
(* What is sealed is stored: the rows of a run, chunk by chunk. *)

Storage == {"hashes", "users", "snapshots", "orphans"}

\* The rows whose snapshots have been written, or were found to be the same.
Kept(s) ==
    CASE phase[s] \in {"hashes", "users", "snapshots"} -> collected[s] \ left[s]
      [] phase[s] = "orphans" -> collected[s]
      [] OTHER -> {}

\* The document that carries the seal says what the row says.
Faithful(row, s) ==
    LET u == users[row.person] IN
    u # NoUser /\ u.stamp = s =>
        /\ u.present /\ u.cargo = row.says.cargo
        /\ row.says.group # NoGroup => u.group = row.says.group

Unrepeated(s) == phase[s] \in Storage => OnePerPerson(collected[s])
HashesHold(s) == phase[s] \in {"users", "snapshots"} => known[s] = snapshots
RowsAreKept(s) == \A row \in Kept(s) : snapshots[row.person] = row
SealsSpeak(s) == \A row \in Written(s) : Faithful(row, s)

\* The phase a step of the run leads to.
LEMMA WhereStepsLead ==
  ASSUME TypeOK, NEW s \in Runs
  PROVE  /\ Enter(s) => phase[s] \notin Working /\ phase'[s] = "login"
         /\ Login(s) \/ Try(s) \/ ReadPage(s) => phase'[s] \in {"login", "try", "page", "validate"}
         /\ Validate(s) => phase[s] = "validate" /\ phase'[s] = "hashes"
         /\ ReadHashes(s) => phase[s] = "hashes" /\ phase'[s] = "users"
         /\ WriteUsers(s) => phase[s] = "users" /\ phase'[s] = "snapshots"
         /\ WriteSnapshots(s) => phase[s] = "snapshots" /\ phase'[s] \in {"hashes", "orphans"}
  <1>1. phase \in [Runs -> Phases]
    BY DEF TypeOK
  <1>2. ReadPage(s) => phase'[s] \in {"login", "page", "validate"}
    BY PageIsRead DEF PageEnds, PageGoesOn
  <1>3. Login(s) \/ Try(s) => phase'[s] \in {"try", "page"}
    BY AccountsKeepReading
  <1>4. Enter(s) => phase[s] \notin Working /\ phase'[s] = "login"
    BY <1>1 DEF Enter, Go, Working, Downloading, Persisting
  <1>5. /\ Validate(s) => phase[s] = "validate" /\ phase'[s] = "hashes"
        /\ ReadHashes(s) => phase[s] = "hashes" /\ phase'[s] = "users"
        /\ WriteUsers(s) => phase[s] = "users" /\ phase'[s] = "snapshots"
        /\ WriteSnapshots(s) => phase[s] = "snapshots" /\ phase'[s] \in {"hashes", "orphans"}
    BY <1>1 DEF Validate, ReadHashes, WriteUsers, WriteSnapshots, Go
  <1>6. QED
    BY <1>2, <1>3, <1>4, <1>5

\* From a step on, a run that stores did so before, or has just validated.
LEMMA StorageSteps ==
  ASSUME TypeOK, OneAtATime, [Next]_vars, NEW s \in Syncs, phase'[s] \in Storage
  PROVE  \/ Validate(s) /\ phase'[s] = "hashes"
         \/ phase[s] \in Storage /\ Rests(s) /\ phase'[s] = phase[s] /\ OthersKeepStored
         \/ phase[s] = "hashes" /\ ReadHashes(s) /\ phase'[s] = "users"
         \/ phase[s] = "users" /\ WriteUsers(s) /\ phase'[s] = "snapshots"
         \/ phase[s] = "snapshots" /\ WriteSnapshots(s) /\ phase'[s] \in {"hashes", "orphans"}
  <1>1. s \in Runs
    BY DEF Runs
  <1>2. /\ Storage \subseteq Working
        /\ \A x \in {"login", "try", "page", "validate"} : x \notin Storage
    BY DEF Storage, Working, Persisting
  <1>3. Works(s) \/ Rests(s)
    BY <1>1, <1>2, StepsOfASync, WhereStepsLead DEF Stops
  <1>4. CASE Rests(s)
    BY <1>2, <1>4 DEF Rests
  <1>5. CASE Works(s)
    BY <1>1, <1>2, <1>5, WhereStepsLead DEF Works
  <1>6. QED
    BY <1>3, <1>4, <1>5

LEMMA UnrepeatedNext ==
  ASSUME TypeOK, OneAtATime, [Next]_vars, NEW s \in Syncs, Counts(s), Unrepeated(s)
  PROVE  Unrepeated(s)'
  <1> SUFFICES ASSUME phase'[s] \in Storage PROVE OnePerPerson(collected'[s])
    BY DEF Unrepeated, OnePerPerson
  <1>1. s \in Runs
    BY DEF Runs
  <1>2. CASE Validate(s)
    <2>1. /\ IsFiniteSet(collected[s]) /\ Cardinality(collected[s]) <= downloaded[s]
          /\ Cardinality(Persons(collected[s])) = downloaded[s]
      BY <1>2 DEF Counts, Validate, Valid, Roll
    <2>2. /\ IsFiniteSet(Persons(collected[s]))
          /\ Cardinality(Persons(collected[s])) <= Cardinality(collected[s])
      BY <2>1, PersonsOfRows
    <2>3. Cardinality(collected[s]) \in Nat /\ Cardinality(Persons(collected[s])) \in Nat
      BY <2>1, <2>2, FS_CardinalityType
    <2>4. Cardinality(Persons(collected[s])) = Cardinality(collected[s])
      BY <2>1, <2>2, <2>3
    <2>5. OnePerPerson(collected[s])
      BY <2>1, <2>4, PersonsOfRows
    <2>6. collected' = collected
      BY <1>2 DEF Validate
    <2>7. QED
      BY <2>5, <2>6
  <1>3. CASE ~Validate(s)
    <2>1. phase[s] \in Storage /\ collected'[s] = collected[s]
      BY <1>1, <1>3, StorageSteps, PersistingKeepsReading DEF Rests, SameLocals, Storage
    <2>2. QED
      BY <2>1 DEF Unrepeated
  <1>4. QED
    BY <1>2, <1>3

\* The hashes read for a chunk are what is stored until the chunk is written.
LEMMA HashesHoldNext ==
  ASSUME TypeOK, OneAtATime, [Next]_vars, NEW s \in Syncs, HashesHold(s)
  PROVE  HashesHold(s)'
  <1> SUFFICES ASSUME phase'[s] \in {"users", "snapshots"} PROVE known'[s] = snapshots'
    BY DEF HashesHold
  <1>1. s \in Runs /\ known \in [Runs -> [People -> Rows \cup {NoSnapshot}]]
    BY DEF Runs, TypeOK
  <1>2. \/ Rests(s) /\ phase'[s] = phase[s] /\ OthersKeepStored
        \/ ReadHashes(s)
        \/ phase[s] = "users" /\ WriteUsers(s)
    BY StorageSteps DEF Storage
  <1>3. CASE Rests(s) /\ phase'[s] = phase[s] /\ OthersKeepStored
    BY <1>3 DEF HashesHold, Rests, SameLocals, OthersKeepStored
  <1>4. CASE ReadHashes(s)
    BY <1>1, <1>4 DEF ReadHashes, stored
  <1>5. CASE phase[s] = "users" /\ WriteUsers(s)
    BY <1>5 DEF HashesHold, WriteUsers, locals
  <1>6. QED
    BY <1>2, <1>3, <1>4, <1>5

\* Of rows that name nobody twice, a write takes each to its own person.
LEMMA RowsOfOnePerson ==
  ASSUME NEW s \in Runs, OnePerPerson(collected[s]), collected[s] \subseteq Rows,
         NEW part \in SUBSET collected[s], NEW row \in collected[s]
  PROVE  /\ Store(part)[row.person] = IF row \in part THEN row ELSE snapshots[row.person]
         /\ SealAll(part, s)[row.person] =
              IF row \in part THEN Sealed(row, s) ELSE users[row.person]
  <1>1. row.person \in People
    BY DEF Rows
  <1>2. row.person \in Persons(part) <=> row \in part
    BY DEF Persons, OnePerPerson
  <1>3. row \in part => RowOf(row.person, part) = row
    BY DEF RowOf, OnePerPerson
  <1>4. QED
    BY <1>1, <1>2, <1>3 DEF Store, SealAll

LEMMA RowsAreKeptNext ==
  ASSUME TypeOK, OneAtATime, LeftIsCollected, [Next]_vars, NEW s \in Syncs,
         Unrepeated(s), HashesHold(s), RowsAreKept(s)
  PROVE  RowsAreKept(s)'
  <1> SUFFICES ASSUME NEW row \in Kept(s)' PROVE snapshots'[row.person] = row
    BY DEF RowsAreKept
  <1>1. /\ s \in Runs /\ left[s] \subseteq collected[s] /\ collected[s] \subseteq Rows
        /\ left \in [Runs -> SUBSET Rows] /\ collected \in [Runs -> SUBSET Rows]
    BY DEF Runs, LeftIsCollected, TypeOK
  <1>2. phase'[s] \in Storage
    BY DEF Kept, Storage
  <1>3. CASE Validate(s)
    <2>1. left'[s] = collected'[s] /\ phase'[s] = "hashes"
      BY <1>1, <1>3, WhereStepsLead DEF Validate
    <2>2. QED
      BY <2>1 DEF Kept
  <1>4. CASE \/ Rests(s) /\ phase'[s] = phase[s] /\ OthersKeepStored
             \/ ReadHashes(s) \/ WriteUsers(s)
    <2>1. collected'[s] = collected[s] /\ left'[s] = left[s] /\ snapshots' = snapshots
      BY <1>4 DEF Rests, SameLocals, OthersKeepStored, ReadHashes, WriteUsers, locals, stored
    <2>2. \/ phase'[s] = phase[s]
          \/ phase[s] \in {"hashes", "users"} /\ phase'[s] \in {"users", "snapshots"}
      BY <1>1, <1>4, WhereStepsLead
    <2>3. row \in Kept(s)
      BY <2>1, <2>2 DEF Kept
    <2>4. QED
      BY <2>1, <2>3 DEF RowsAreKept
  <1>5. CASE WriteSnapshots(s)
    <2>1. /\ phase[s] = "snapshots" /\ phase'[s] \in {"hashes", "orphans"}
          /\ collected' = collected /\ left'[s] = left[s] \ Chunk(s)
          /\ snapshots' = Store(Changed(s))
          /\ phase'[s] = "orphans" => left[s] \ Chunk(s) = {}
      BY <1>1, <1>5, WhereStepsLead DEF WriteSnapshots, Go, TypeOK
    <2>2. row \in Kept(s) \/ row \in Chunk(s)
      BY <1>1, <2>1 DEF Kept
    <2>3. row \in collected[s]
      BY <1>1, <2>1, <2>2, ChunkIsLeft DEF Kept
    <2>4. OnePerPerson(collected[s])
      BY <2>1 DEF Unrepeated, Storage
    <2>5. Changed(s) \in SUBSET collected[s]
      BY <1>1, ChunkIsLeft DEF Changed
    <2>6. snapshots'[row.person] = IF row \in Changed(s) THEN row ELSE snapshots[row.person]
      BY <1>1, <2>1, <2>3, <2>4, <2>5, RowsOfOnePerson
    <2>7. row \notin Changed(s) => snapshots[row.person] = row
      <3>1. CASE row \in Kept(s)
        BY <3>1 DEF RowsAreKept
      <3>2. CASE row \in Chunk(s)
        BY <2>1, <3>2 DEF Changed, HashesHold
      <3>3. QED
        BY <2>2, <3>1, <3>2
    <2>8. QED
      BY <2>6, <2>7
  <1>6. QED
    BY <1>2, <1>3, <1>4, <1>5, StorageSteps

LEMMA SealsSpeakNext ==
  ASSUME TypeOK, OneAtATime, LeftIsCollected, [Next]_vars, NEW s \in Syncs,
         Unrepeated(s), SealsSpeak(s)
  PROVE  SealsSpeak(s)'
  <1> SUFFICES ASSUME NEW row \in Written(s)' PROVE Faithful(row, s)'
    BY DEF SealsSpeak
  <1>1. /\ s \in Runs /\ left[s] \subseteq collected[s] /\ collected[s] \subseteq Rows
        /\ users \in [People -> UserDocs \cup {NoUser}] /\ s # NoRun
    BY SyncAssumption DEF Runs, LeftIsCollected, TypeOK
  <1>2. row \in Written(s) \/ (WriteUsers(s) /\ row \in Chunk(s))
    <2>1. Grows(s)
      BY WrittenGrows
    <2>2. QED
      BY <2>1 DEF Grows
  <1>3. phase'[s] \in Storage
    BY DEF Written, Storage
  <1>4. row \in collected[s] /\ row.person \in People
    <2>1. row \in collected[s]
      BY <1>1, <1>2, ChunkIsLeft DEF Written
    <2>2. QED
      BY <1>1, <2>1 DEF Rows
  <1>5. ASSUME users'[row.person] = users[row.person], row \in Written(s)
        PROVE  Faithful(row, s)'
    BY <1>5 DEF SealsSpeak, Faithful
  <1>6. CASE WriteUsers(s)
    <2>1. users' = SealAll(Chunk(s), s) /\ phase[s] = "users"
      BY <1>6 DEF WriteUsers
    <2>2. Chunk(s) \in SUBSET collected[s] /\ OnePerPerson(collected[s])
      BY <1>1, <2>1, ChunkIsLeft DEF Unrepeated, Storage
    <2>3. users'[row.person] = IF row \in Chunk(s) THEN Sealed(row, s) ELSE users[row.person]
      BY <1>1, <1>4, <2>1, <2>2, RowsOfOnePerson
    <2>4. CASE row \in Chunk(s)
      <3>1. users'[row.person] = Sealed(row, s)
        BY <2>3, <2>4
      <3>2. /\ Sealed(row, s).present /\ Sealed(row, s).cargo = row.says.cargo
            /\ row.says.group # NoGroup => Sealed(row, s).group = row.says.group
        BY DEF Sealed
      <3>3. QED
        BY <3>1, <3>2 DEF Faithful
    <2>5. CASE row \notin Chunk(s)
      BY <1>2, <1>5, <2>3, <2>5
    <2>6. QED
      BY <2>4, <2>5
  <1>7. CASE Rests(s) /\ OthersKeepStored /\ ~WriteUsers(s)
    <2>1. \/ users'[row.person] = users[row.person]
          \/ users'[row.person] = NoUser
          \/ users'[row.person].stamp = NoRun
      BY <1>4, <1>7 DEF OthersKeepStored
    <2>2. CASE users'[row.person] = users[row.person]
      BY <1>2, <1>5, <1>7, <2>2
    <2>3. CASE users'[row.person] = NoUser \/ users'[row.person].stamp = NoRun
      BY <1>1, <2>3 DEF Faithful
    <2>4. QED
      BY <2>1, <2>2, <2>3
  <1>8. CASE ~WriteUsers(s) /\ (Validate(s) \/ ReadHashes(s) \/ WriteSnapshots(s))
    <2>1. users' = users
      BY <1>8 DEF Validate, ReadHashes, WriteSnapshots, stored
    <2>2. QED
      BY <1>2, <1>5, <1>8, <2>1
  <1>9. QED
    BY <1>3, <1>6, <1>7, <1>8, StorageSteps

-----------------------------------------------------------------------------
(* While the register stands still, a zone that has been read is on the roll. *)

\* Where the download stands among the zones.
Positioned(s) ==
    /\ phase[s] \in Downloading => fetch[s].index \in 1..Len(plan[s].zones)
    /\ phase[s] \in Persisting => fetch[s].index = Len(plan[s].zones) + 1

ReadZones(s) == {plan[s].zones[i] : i \in 1..(fetch[s].index - 1)}

\* What was read of the zone at hand: people it lists, those of the pages before,
\* and no fewer of them than were counted.
Matches(s, z) ==
    /\ Persons(fetch[s].rows) \subseteq ListedIn(z)
    /\ \A p \in Persons(fetch[s].rows) : Before(p, z) < fetch[s].page * plan[s].pageLength
    /\ fetch[s].number <= Cardinality(Persons(fetch[s].rows))
    /\ fetch[s].page > 0 => fetch[s].total = Cardinality(ListedIn(z))

BringsTheListed(s) ==
    phase[s] \in Working /\ quiet[s] =>
        /\ stayed[s] \subseteq ListedInSome(plan[s].zones)
        /\ \A z \in ReadZones(s) : ListedIn(z) \subseteq Roll(s)
        /\ phase[s] \in Downloading => \A z \in {ZoneAtHand(s)} : Matches(s, z)

LEMMA PositionedNext ==
  ASSUME TypeOK, OneAtATime, [Next]_vars, NEW s \in Syncs, EmptyHanded(s), Positioned(s)
  PROVE  Positioned(s)'
  <1> USE DEF Working, Downloading, Persisting
  <1>1. /\ s \in Runs /\ phase \in [Runs -> Phases] /\ plan \in [Runs -> Config]
        /\ plan[s] \in Config /\ fetch[s] \in Fetches /\ config \in Config
        /\ config.zones # <<>>
    BY SyncAssumption DEF Runs, TypeOK, Fetches
  <1>2. Len(plan[s].zones) \in Nat /\ Len(config.zones) \in Nat \ {0}
    <2>1. plan[s].zones \in Seq(Zones) /\ config.zones \in Seq(Zones)
      BY <1>1 DEF Config
    <2>2. QED
      BY <1>1, <2>1
  <1>3. CASE Enter(s)
    <2>1. phase'[s] = "login" /\ plan'[s] = config /\ fetch'[s] = NoFetch
      BY <1>1, <1>3 DEF Enter, Go, EmptyHanded
    <2>2. fetch'[s].index = 1
      BY <2>1 DEF NoFetch
    <2>3. QED
      BY <1>2, <2>1, <2>2 DEF Positioned
  <1>4. CASE Rests(s)
    BY <1>4 DEF Rests, SameLocals, Positioned
  <1>5. CASE Login(s) \/ Try(s)
    <2>1. /\ phase[s] \in Downloading /\ phase'[s] \in Downloading
          /\ SameReading(s) /\ plan' = plan
      BY <1>1, <1>5, AccountsKeepReading DEF Login, Try
    <2>2. QED
      BY <2>1 DEF Positioned, SameReading
  <1>6. CASE ReadPage(s)
    <2>1. PICK n \in 0..plan[s].pageLength :
            PageEnds(s, NextPage(s, n)) \/ PageGoesOn(s, NextPage(s, n))
      BY <1>1, <1>6, PageIsRead
    <2>2. plan' = plan /\ phase[s] \in Downloading
      BY <1>1, <1>6, PageIsRead DEF ReadPage
    <2>3. fetch[s].index \in 1..Len(plan[s].zones)
      BY <2>2 DEF Positioned
    <2>4. QED
      BY <1>2, <2>1, <2>2, <2>3 DEF PageEnds, PageGoesOn, Positioned
  <1>7. CASE Validate(s) \/ ReadHashes(s) \/ WriteUsers(s) \/ WriteSnapshots(s)
    <2>1. phase[s] \in Persisting /\ phase'[s] \in Persisting /\ fetch' = fetch
      BY <1>1, <1>7, WhereStepsLead, PersistingKeepsReading
    <2>2. plan'[s].zones = plan[s].zones
      BY <1>1, <1>7 DEF Validate, ReadHashes, WriteUsers, WriteSnapshots, locals, Config
    <2>3. QED
      BY <2>1, <2>2 DEF Positioned
  <1>8. CASE Stops(s)
    BY <1>8 DEF Stops, Positioned
  <1>9. QED
    BY <1>3, <1>4, <1>5, <1>6, <1>7, <1>8, StepsOfASync DEF Works

LEMMA SameListing ==
  ASSUME registry' = registry, NEW z
  PROVE  ListedIn(z)' = ListedIn(z) /\ \A p : Before(p, z)' = Before(p, z)
  <1>1. ListedIn(z)' = ListedIn(z)
    BY DEF ListedIn
  <1>2. QED
    BY <1>1 DEF Before

\* A step that reads nothing, under a register that stands still.
Standing(s) ==
    /\ UNCHANGED registry /\ SameReading(s)
    /\ quiet[s] /\ stayed'[s] = stayed[s]
    /\ plan'[s].zones = plan[s].zones /\ plan'[s].pageLength = plan[s].pageLength
    /\ collected'[s] = collected[s]
    /\ phase[s] \in Working /\ (phase'[s] \in Downloading => phase[s] \in Downloading)

LEMMA StandingBrings ==
  ASSUME NEW s \in Syncs, BringsTheListed(s), Standing(s)
  PROVE  BringsTheListed(s)'
  <1>1. /\ stayed[s] \subseteq ListedInSome(plan[s].zones)
        /\ \A z \in ReadZones(s) : ListedIn(z) \subseteq Roll(s)
        /\ phase[s] \in Downloading => \A z \in {ZoneAtHand(s)} : Matches(s, z)
    BY DEF BringsTheListed, Standing
  <1>2. (stayed[s] \subseteq ListedInSome(plan[s].zones))'
    BY <1>1 DEF Standing, ListedInSome, ZonesOfPlan
  <1>3. ASSUME NEW z \in ReadZones(s)' PROVE (ListedIn(z) \subseteq Roll(s))'
    <2>1. z \in ReadZones(s)
      BY <1>3 DEF ReadZones, Standing, SameReading
    <2>2. ListedIn(z)' = ListedIn(z) /\ Roll(s)' = Roll(s)
      BY SameListing DEF Standing, Roll
    <2>3. QED
      BY <1>1, <2>1, <2>2
  <1>4. ASSUME phase'[s] \in Downloading, NEW z \in {ZoneAtHand(s)}' PROVE Matches(s, z)'
    <2>1. z \in {ZoneAtHand(s)}
      BY <1>4 DEF ZoneAtHand, Standing, SameReading
    <2>2. Matches(s, z)
      BY <1>1, <1>4, <2>1 DEF Standing
    <2>3. ListedIn(z)' = ListedIn(z) /\ \A p : Before(p, z)' = Before(p, z)
      BY SameListing DEF Standing
    <2>4. QED
      BY <2>2, <2>3 DEF Matches, Standing, SameReading
  <1>5. QED
    BY <1>2, <1>3, <1>4 DEF BringsTheListed

LEMMA NextStart == ASSUME NEW a \in Nat, NEW b \in Nat
                   PROVE  a * b \in Nat /\ (a + 1) * b = a * b + b
  OBVIOUS

\* The people a page adds come after those read before, so that the count of the
\* rows is a count of people.
LEMMA PageMatches ==
  ASSUME TypeOK, NEW s \in Runs, NEW z, z = ZoneAtHand(s), Counts(s), Matches(s, z),
         NEW n \in 0..plan[s].pageLength
  PROVE  LET more == Persons(fetch[s].rows \cup NextPage(s, n)) IN
         /\ more \subseteq ListedIn(z) /\ IsFiniteSet(more)
         /\ \A p \in more : Before(p, z) < (fetch[s].page + 1) * plan[s].pageLength
         /\ fetch[s].number + Cardinality(NextPage(s, n)) <= Cardinality(more)
         /\ Cardinality(NextPage(s, n)) \in Nat
  <1> DEFINE got == NextPage(s, n)
             start == fetch[s].page * plan[s].pageLength
             had == Persons(fetch[s].rows)
             added == Persons(got)
  <1>1. fetch[s].page \in Nat /\ fetch[s].number \in Nat /\ plan[s].pageLength \in Nat
    BY DEF TypeOK, Config
  <1>2. /\ start \in Nat
        /\ (fetch[s].page + 1) * plan[s].pageLength = start + plan[s].pageLength
    BY <1>1, NextStart
  <1>3. got = Page(z, start, n)
    BY DEF NextPage
  <1> HIDE DEF start, got
  <1>4. /\ Cardinality(got) = Cardinality(added)
        /\ added = {q \in ListedIn(z) : start <= Before(q, z) /\ Before(q, z) < start + n}
        /\ IsFiniteSet(got)
    BY <1>3, PageShows, RowsOfPages
  <1>5. \A p : Before(p, z) \in Nat
    BY ListingCounts
  <1>6. /\ had \subseteq ListedIn(z) /\ fetch[s].number <= Cardinality(had)
        /\ \A p \in had : Before(p, z) < start
    BY DEF Matches, start
  <1>7. IsFiniteSet(had) /\ IsFiniteSet(added)
    BY <1>4, PersonsOfRows DEF Counts
  <1>8. Persons(fetch[s].rows \cup got) = had \cup added
    BY DEF Persons
  <1> HIDE DEF had, added
  <1>9. had \cap added = {}
    BY <1>2, <1>4, <1>5, <1>6
  <1>10. /\ IsFiniteSet(had \cup added)
         /\ Cardinality(had \cup added) = Cardinality(had) + Cardinality(added)
    <2>1. /\ IsFiniteSet(had \cup added)
          /\ Cardinality(had \cup added)
               = Cardinality(had) + Cardinality(added) - Cardinality(had \cap added)
      BY <1>7, FS_Union
    <2>2. Cardinality(had \cap added) = 0
      BY <1>9, FS_EmptySet
    <2>3. Cardinality(had) \in Nat /\ Cardinality(added) \in Nat
      BY <1>7, FS_CardinalityType
    <2>4. QED
      BY <2>1, <2>2, <2>3
  <1>11. Cardinality(had) \in Nat /\ Cardinality(added) \in Nat
    BY <1>7, FS_CardinalityType
  <1>12. fetch[s].number + Cardinality(got) <= Cardinality(had \cup added)
    BY <1>1, <1>4, <1>6, <1>10, <1>11
  <1>13. \A p \in had \cup added : Before(p, z) < start + plan[s].pageLength
    BY <1>1, <1>2, <1>4, <1>5, <1>6
  <1>14. had \cup added \subseteq ListedIn(z)
    BY <1>4, <1>6
  <1>15. QED
    BY <1>2, <1>4, <1>8, <1>10, <1>11, <1>12, <1>13, <1>14 DEF got

\* The last page of a zone completes it: as many people of its listing as it has.
LEMMA LastPageCompletes ==
  ASSUME TypeOK, NEW s \in Runs, NEW z, z = ZoneAtHand(s), Counts(s), Matches(s, z),
         NEW n \in 0..plan[s].pageLength, PageEnds(s, NextPage(s, n))
  PROVE  ListedIn(z) = Persons(fetch[s].rows \cup NextPage(s, n))
  <1> DEFINE more == Persons(fetch[s].rows \cup NextPage(s, n))
             count == fetch[s].number + Cardinality(NextPage(s, n))
  <1>1. /\ more \subseteq ListedIn(z) /\ IsFiniteSet(more) /\ count <= Cardinality(more)
        /\ count \in Nat
    <2>1. fetch[s].number \in Nat
      BY DEF TypeOK
    <2>2. QED
      BY <2>1, PageMatches
  <1>2. TotalAtHand(s) = Cardinality(ListedIn(z))
    <2>1. fetch[s].page \in Nat
      BY DEF TypeOK
    <2>2. QED
      BY <2>1 DEF TotalAtHand, Matches
  <1>3. TotalAtHand(s) <= count
    BY DEF PageEnds
  <1> HIDE DEF more, count
  <1>4. /\ IsFiniteSet(ListedIn(z)) /\ Cardinality(ListedIn(z)) \in Nat
        /\ Cardinality(more) \in Nat
    BY <1>1, ListingCounts, FS_CardinalityType
  <1>5. Cardinality(more) <= Cardinality(ListedIn(z))
    BY <1>1, <1>4, FS_Subset
  <1>6. Cardinality(more) = Cardinality(ListedIn(z))
    BY <1>1, <1>2, <1>3, <1>4, <1>5
  <1>7. ListedIn(z) = more
    BY <1>1, <1>4, <1>6, FS_Subset
  <1>8. QED
    BY <1>7 DEF more

\* The first page of a zone begins with nothing read.
LEMMA FirstPageMatches ==
  ASSUME NEW s, fetch'[s].page = 0, fetch'[s].number = 0, fetch'[s].rows = {}
  PROVE  \A z : Matches(s, z)'
  <1> SUFFICES ASSUME NEW z PROVE Matches(s, z)'
    OBVIOUS
  <1>1. Persons(fetch[s].rows)' = {}
    BY DEF Persons
  <1>2. Cardinality(Persons(fetch[s].rows)') = 0
    BY <1>1, FS_EmptySet
  <1>3. QED
    BY <1>1, <1>2 DEF Matches

\* A page that is read keeps the download faithful to a register that stands still.
LEMMA PageBrings ==
  ASSUME TypeOK, NEW s \in Syncs, Counts(s), Positioned(s), BringsTheListed(s), ReadPage(s)
  PROVE  BringsTheListed(s)'
  <1> SUFFICES ASSUME quiet'[s]
               PROVE  /\ (stayed[s] \subseteq ListedInSome(plan[s].zones))'
                      /\ \A z \in ReadZones(s)' : (ListedIn(z) \subseteq Roll(s))'
                      /\ phase'[s] \in Downloading =>
                           \A z \in {ZoneAtHand(s)}' : Matches(s, z)'
    BY DEF BringsTheListed
  <1>1. s \in Runs /\ phase[s] \in Downloading /\ phase[s] \in Working
    BY DEF Runs, ReadPage, Downloading, Working
  <1>2. UNCHANGED <<registry, plan, quiet, stayed>>
    BY <1>1, PageIsRead
  <1>3. PICK n \in 0..plan[s].pageLength :
          PageEnds(s, NextPage(s, n)) \/ PageGoesOn(s, NextPage(s, n))
    BY <1>1, PageIsRead
  <1>4. PICK zone : zone = ZoneAtHand(s)
    OBVIOUS
  <1>5. /\ stayed[s] \subseteq ListedInSome(plan[s].zones)
        /\ \A z \in ReadZones(s) : ListedIn(z) \subseteq Roll(s)
        /\ Matches(s, zone)
    BY <1>1, <1>2, <1>4 DEF BringsTheListed
  <1>6. (stayed[s] \subseteq ListedInSome(plan[s].zones))'
    BY <1>2, <1>5 DEF ListedInSome, ZonesOfPlan
  <1>7. \A z : ListedIn(z)' = ListedIn(z) /\ \A p : Before(p, z)' = Before(p, z)
    BY <1>2, SameListing
  <1> DEFINE got == NextPage(s, n)
             more == fetch[s].rows \cup got
  <1>8. /\ Persons(more) \subseteq ListedIn(zone)
        /\ \A p \in Persons(more) :
             Before(p, zone) < (fetch[s].page + 1) * plan[s].pageLength
        /\ fetch[s].number + Cardinality(got) <= Cardinality(Persons(more))
    BY <1>1, <1>4, <1>5, PageMatches
  <1>9. CASE PageEnds(s, got)
    <2>1. ListedIn(zone) = Persons(more)
      BY <1>1, <1>4, <1>5, <1>9, LastPageCompletes
    <2> HIDE DEF got, more
    <2>2. /\ collected'[s] = collected[s] \cup more
          /\ fetch'[s].index = fetch[s].index + 1 /\ fetch'[s].page = 0
          /\ fetch'[s].number = 0 /\ fetch'[s].rows = {}
      BY <1>9 DEF PageEnds, more
    <2>3. ASSUME NEW z \in ReadZones(s)' PROVE (ListedIn(z) \subseteq Roll(s))'
      <3>1. fetch[s].index \in Nat \ {0}
        BY <1>1 DEF TypeOK
      <3>2. PICK i \in 1..(fetch'[s].index - 1) : z = plan'[s].zones[i]
        BY <2>3 DEF ReadZones
      <3>3. i \in 1..(fetch[s].index - 1) \/ i = fetch[s].index
        BY <2>2, <3>1, <3>2
      <3>4. z \in ReadZones(s) \/ z = zone
        BY <1>2, <1>4, <3>2, <3>3 DEF ReadZones, ZoneAtHand
      <3>5. Persons(collected'[s]) = Roll(s) \cup Persons(more)
        BY <2>2 DEF Persons, Roll
      <3>6. ListedIn(z) \subseteq Persons(collected'[s])
        BY <1>5, <2>1, <3>4, <3>5
      <3>7. QED
        BY <1>7, <3>6 DEF Roll
    <2>4. \A z : Matches(s, z)'
      BY <2>2, FirstPageMatches
    <2>5. QED
      BY <1>6, <2>3, <2>4
  <1>10. CASE PageGoesOn(s, got)
    <2> HIDE DEF got, more
    <2>1. /\ collected'[s] = collected[s]
          /\ fetch'[s].index = fetch[s].index /\ fetch'[s].page = fetch[s].page + 1
          /\ fetch'[s].total = TotalAtHand(s)
          /\ fetch'[s].number = fetch[s].number + Cardinality(got)
          /\ fetch'[s].rows = more
      BY <1>10 DEF PageGoesOn, more
    <2>2. ASSUME NEW z \in ReadZones(s)' PROVE (ListedIn(z) \subseteq Roll(s))'
      <3>1. z \in ReadZones(s)
        BY <1>2, <2>1, <2>2 DEF ReadZones
      <3>2. QED
        BY <1>5, <1>7, <2>1, <3>1 DEF Roll
    <2>3. ASSUME NEW z \in {ZoneAtHand(s)}' PROVE Matches(s, z)'
      <3>1. z = zone
        BY <1>2, <1>4, <2>1, <2>3 DEF ZoneAtHand
      <3>2. fetch'[s].total = Cardinality(ListedIn(zone))
        <4>1. fetch[s].page \in Nat
          BY <1>1 DEF TypeOK
        <4>2. QED
          BY <1>4, <1>5, <2>1, <4>1 DEF TotalAtHand, Matches
      <3>3. QED
        BY <1>2, <1>7, <1>8, <2>1, <3>1, <3>2 DEF Matches
    <2>4. QED
      BY <1>6, <2>2, <2>3
  <1>11. QED
    BY <1>3, <1>9, <1>10

\* And so does every other step.
LEMMA BringsTheListedNext ==
  ASSUME TypeOK, OneAtATime, [Next]_vars, NEW s \in Syncs, EmptyHanded(s), Counts(s),
         Positioned(s), BringsTheListed(s)
  PROVE  BringsTheListed(s)'
  <1>1. /\ s \in Runs /\ plan \in [Runs -> Config] /\ plan[s] \in Config
        /\ stayed \in [Runs -> SUBSET People] /\ quiet \in [Runs -> BOOLEAN]
    BY DEF Runs, TypeOK
  <1>2. CASE Enter(s)
    <2>1. /\ phase[s] \notin Working /\ plan'[s] = config /\ fetch'[s] = NoFetch
          /\ stayed'[s] = ListedInSome(config.zones) /\ registry' = registry
      BY <1>1, <1>2, WhereStepsLead DEF Enter, EmptyHanded, outside
    <2>2. (stayed[s] \subseteq ListedInSome(plan[s].zones))'
      BY <2>1 DEF ListedInSome, ZonesOfPlan
    <2>3. ReadZones(s)' = {}
      BY <2>1 DEF ReadZones, NoFetch
    <2>4. \A z : Matches(s, z)'
      BY <2>1, FirstPageMatches DEF NoFetch
    <2>5. QED
      BY <2>2, <2>3, <2>4 DEF BringsTheListed
  <1>3. CASE Rests(s) \/ Stops(s)
    <2> SUFFICES ASSUME phase'[s] \in Working, quiet'[s] PROVE BringsTheListed(s)'
      BY DEF BringsTheListed
    <2>1. Standing(s)
      BY <1>3 DEF Rests, Stops, SameLocals, StillQuiet, Standing, SameReading
    <2>2. QED
      BY <2>1, StandingBrings
  <1>4. CASE Works(s) /\ ~ReadPage(s)
    <2> SUFFICES ASSUME quiet'[s] PROVE BringsTheListed(s)'
      BY DEF BringsTheListed
    <2>1. CASE Login(s) \/ Try(s)
      <3>1. phase[s] \in Downloading /\ phase[s] \in Working
        BY <2>1 DEF Login, Try, Downloading, Working
      <3>2. Standing(s)
        BY <1>1, <2>1, <3>1, AccountsKeepReading DEF Standing
      <3>3. QED
        BY <3>2, StandingBrings
    <2>2. CASE Validate(s) \/ ReadHashes(s) \/ WriteUsers(s) \/ WriteSnapshots(s)
      <3>1. phase[s] \in Working /\ phase'[s] \notin Downloading
        BY <1>1, <2>2, WhereStepsLead DEF Working, Downloading, Persisting
      <3>2. /\ plan'[s].zones = plan[s].zones
            /\ plan'[s].pageLength = plan[s].pageLength
        BY <1>1, <2>2 DEF Validate, ReadHashes, WriteUsers, WriteSnapshots, locals, Config
      <3>3. Standing(s)
        BY <1>1, <2>2, <3>1, <3>2, PersistingKeepsReading DEF Standing, SameReading
      <3>4. QED
        BY <3>3, StandingBrings
    <2>3. QED
      BY <1>4, <2>1, <2>2 DEF Works
  <1>5. QED
    BY <1>2, <1>3, <1>4, StepsOfASync, PageBrings

-----------------------------------------------------------------------------
(* The two properties of what a run stores and of whom it spares. *)

SInv ==
    /\ IInv
    /\ \A s \in Syncs : /\ EmptyHanded(s) /\ Counts(s)
                        /\ Unrepeated(s) /\ HashesHold(s)
                        /\ RowsAreKept(s) /\ SealsSpeak(s)
                        /\ Positioned(s) /\ BringsTheListed(s)

LEMMA SInvInit == Init => SInv
  <1> SUFFICES ASSUME Init PROVE SInv
    OBVIOUS
  <1>1. IInv
    BY InvInit
  <1>2. ASSUME NEW s \in Syncs
        PROVE  /\ EmptyHanded(s) /\ Counts(s) /\ Unrepeated(s) /\ HashesHold(s)
               /\ RowsAreKept(s) /\ SealsSpeak(s) /\ Positioned(s) /\ BringsTheListed(s)
    <2>1. /\ phase[s] = "idle" /\ fetch[s] = NoFetch
          /\ collected[s] = {} /\ downloaded[s] = 0
      BY DEF Init, Runs
    <2>2. /\ "idle" \notin Working /\ "idle" \notin Storage
          /\ "idle" \notin Downloading /\ "idle" \notin Persisting
      BY DEF Working, Downloading, Persisting, Storage
    <2>3. EmptyHanded(s) /\ Unrepeated(s) /\ HashesHold(s) /\ Positioned(s)
      BY <2>1, <2>2 DEF EmptyHanded, Unrepeated, HashesHold, Positioned
    <2>4. Counts(s)
      BY <2>1, FS_EmptySet DEF Counts, NoFetch
    <2>5. RowsAreKept(s) /\ SealsSpeak(s)
      BY <2>1 DEF RowsAreKept, Kept, SealsSpeak, Written
    <2>6. BringsTheListed(s)
      BY <2>1, <2>2 DEF BringsTheListed
    <2>7. QED
      BY <2>3, <2>4, <2>5, <2>6
  <1>3. QED
    BY <1>1, <1>2 DEF SInv

LEMMA SInvNext == ASSUME Overlap = FALSE, SInv, [Next]_vars PROVE SInv'
  <1>1. IInv /\ TypeOK /\ OneAtATime /\ LeftIsCollected
    BY DEF SInv, IInv
  <1>2. IInv'
    BY <1>1, InvNext
  <1>3. ASSUME NEW s \in Syncs
        PROVE  /\ EmptyHanded(s)' /\ Counts(s)' /\ Unrepeated(s)' /\ HashesHold(s)'
               /\ RowsAreKept(s)' /\ SealsSpeak(s)' /\ Positioned(s)' /\ BringsTheListed(s)'
    <2>1. /\ EmptyHanded(s) /\ Counts(s) /\ Unrepeated(s) /\ HashesHold(s)
          /\ RowsAreKept(s) /\ SealsSpeak(s) /\ Positioned(s) /\ BringsTheListed(s)
      BY DEF SInv
    <2>2. EmptyHanded(s)' /\ Counts(s)' /\ Positioned(s)' /\ BringsTheListed(s)'
      BY <1>1, <2>1, EmptyHandedNext, CountsNext, PositionedNext, BringsTheListedNext
    <2>3. Unrepeated(s)' /\ HashesHold(s)' /\ RowsAreKept(s)' /\ SealsSpeak(s)'
      BY <1>1, <2>1, UnrepeatedNext, HashesHoldNext, RowsAreKeptNext, SealsSpeakNext
    <2>4. QED
      BY <2>2, <2>3
  <1>4. QED
    BY <1>2, <1>3 DEF SInv

LEMMA StoredWhenSealed == SInv => SealedIsStored
  <1> SUFFICES ASSUME SInv, NEW r \in Syncs, phase[r] = "orphans", NEW row \in collected[r]
               PROVE  snapshots[row.person] = row /\ Faithful(row, r)
    BY DEF SealedIsStored, Faithful
  <1>1. row \in Kept(r) /\ row \in Written(r)
    BY DEF Kept, Written
  <1>2. QED
    BY <1>1 DEF SInv, RowsAreKept, SealsSpeak

\* When runs do not overlap, a run that comes to consolidate has stored of each row
\* it brought what the register said, in the snapshot and under its own seal.
THEOREM SealedAreStored == ASSUME Overlap = FALSE PROVE Spec => []SealedIsStored
  <1>1. Init => SInv
    BY SInvInit
  <1>2. SInv /\ [Next]_vars => SInv'
    BY SInvNext
  <1>3. SInv => SealedIsStored
    BY StoredWhenSealed
  <1>4. QED
    BY <1>1, <1>2, <1>3, PTL DEF Spec

\* Whom the zones of a quiet run list, that run has brought when it consolidates.
LEMMA QuietRunsBring ==
  ASSUME SInv, NEW r \in Syncs, phase[r] = "orphans", quiet[r]
  PROVE  stayed[r] \subseteq Roll(r)
  <1> SUFFICES ASSUME NEW p \in stayed[r] PROVE p \in Roll(r)
    OBVIOUS
  <1>1. Positioned(r) /\ BringsTheListed(r) /\ TypeOK /\ r \in Runs
    BY DEF SInv, IInv, Runs
  <1>2. /\ stayed[r] \subseteq ListedInSome(plan[r].zones)
        /\ \A z \in ReadZones(r) : ListedIn(z) \subseteq Roll(r)
    BY <1>1 DEF BringsTheListed, Working, Persisting
  <1>3. plan[r].zones \in Seq(Zones)
    BY <1>1 DEF TypeOK, Config
  <1>4. p \in People /\ registry[p].lists \cap ZonesOfPlan(plan[r].zones) # {}
    BY <1>2 DEF ListedInSome
  <1>5. PICK i \in DOMAIN plan[r].zones : plan[r].zones[i] \in registry[p].lists
    BY <1>4 DEF ZonesOfPlan
  <1>6. fetch[r].index = Len(plan[r].zones) + 1
    BY <1>1 DEF Positioned, Persisting
  <1>7. i \in 1..(fetch[r].index - 1)
    BY <1>3, <1>5, <1>6
  <1>8. plan[r].zones[i] \in ReadZones(r)
    BY <1>7 DEF ReadZones
  <1>9. p \in ListedIn(plan[r].zones[i])
    BY <1>4, <1>5 DEF ListedIn
  <1>10. QED
    BY <1>2, <1>8, <1>9

QuietStep ==
    \A r \in Syncs, p \in People :
        Consolidates(r) /\ quiet[r] /\ Leaves(p) /\ ~ByHand(p) => p \notin stayed[r]

LEMMA QuietStepNext == ASSUME SInv, [Next]_vars PROVE QuietStep
  <1> SUFFICES ASSUME NEW r \in Syncs, NEW p \in People, Consolidates(r), quiet[r],
                      Leaves(p), ~ByHand(p), p \in stayed[r]
               PROVE  FALSE
    BY DEF QuietStep
  <1>1. IInv /\ TypeOK /\ OneAtATime
    BY DEF SInv, IInv
  <1>2. PICK q \in Syncs : Consolidates(q) /\ (p \in Roll(q) => ByHand(p))
    BY <1>1, RollStepNext DEF RollStep
  <1>3. phase[r] = "orphans" /\ phase[q] = "orphans"
    BY <1>2 DEF Consolidates
  <1>4. q = r
    BY <1>1, <1>3 DEF OneAtATime, Busy, Working, Persisting
  <1>5. p \in Roll(r)
    BY <1>3, QuietRunsBring
  <1>6. QED
    BY <1>2, <1>4, <1>5

\* When runs do not overlap, no run that read a register standing still marks as
\* gone somebody of a seal whom its zones have listed since it began, however the
\* pages came cut and whichever accounts failed.
THEOREM QuietRunsSpareTheListed ==
  ASSUME Overlap = FALSE PROVE Spec => QuietRunsKeepTheListed
  <1>1. Init => SInv
    BY SInvInit
  <1>2. SInv /\ [Next]_vars => SInv'
    BY SInvNext
  <1>3. SInv /\ [Next]_vars => QuietStep
    BY QuietStepNext
  <1>4. Spec => [][QuietStep]_vars
    BY <1>1, <1>2, <1>3, PTL DEF Spec
  <1>5. QED
    BY <1>4 DEF QuietRunsKeepTheListed, QuietStep

-----------------------------------------------------------------------------
(* The flag. *)

\* The flag is up only while a synchronization is at work that will give it back.
FlagHasARun == inProgress => \E r \in Syncs : phase[r] \in Working

FlagInv == FlagHasARun /\ \A q \in Imports : phase[q] # "entering"

LEMMA FlagInvNext ==
  ASSUME TypeOK, FlagInv, [Next]_vars
  PROVE  FlagInv'
  <1>1. phase \in [Runs -> Phases] /\ Syncs \cap Imports = {} /\ Runs = Syncs \cup Imports
    BY SyncAssumption DEF TypeOK, Runs
  <1>2. /\ \A x \in {"idle", "entering", "refused", "done", "failed"} : x \notin Working
        /\ "hashes" \in Working /\ "login" \in Working
    BY DEF Working, Downloading, Persisting
  <1>3. ASSUME NEW r \in Runs, Call(r) PROVE FlagInv'
    <2>1. /\ r \in Syncs /\ phase[r] = "idle" /\ inProgress' = inProgress
          /\ \A q \in Runs : q # r => phase'[q] = phase[q]
      BY <1>1, <1>3 DEF Call, Go
    <2>2. QED
      BY <1>1, <1>2, <2>1 DEF FlagInv, FlagHasARun
  <1>4. ASSUME NEW r \in Runs, Import(r) PROVE FlagInv'
    <2>1. r \in Imports /\ phase' = [phase EXCEPT ![r] = "hashes"] /\ inProgress' = inProgress
      BY <1>4 DEF Import, Go
    <2>2. QED
      BY <1>1, <2>1 DEF FlagInv, FlagHasARun
  <1>5. ASSUME NEW r \in Runs, Enter(r) PROVE FlagInv'
    <2>1. phase[r] = "entering" /\ phase' = [phase EXCEPT ![r] = "login"]
      BY <1>5 DEF Enter, Go
    <2>2. r \in Syncs
      BY <1>1, <2>1 DEF FlagInv
    <2>3. QED
      BY <1>1, <1>2, <2>1, <2>2 DEF FlagInv, FlagHasARun
  <1>6. ASSUME NEW r \in Runs, Inside(r) PROVE FlagInv'
    BY <1>1, <1>2, <1>6 DEF FlagInv, FlagHasARun, Inside
  <1>7. ASSUME NEW r \in Runs, NEW how \in {"done", "failed"}, phase[r] \in Working, End(r, how)
        PROVE  FlagInv'
    <2>1. /\ phase' = [phase EXCEPT ![r] = how]
          /\ inProgress' = IF r \in Syncs THEN FALSE ELSE inProgress
      BY <1>7 DEF End, Go
    <2>2. QED
      BY <1>1, <2>1 DEF FlagInv, FlagHasARun
  <1>8. CASE Crash
    BY <1>1, <1>8 DEF Crash, FlagInv, FlagHasARun
  <1>9. CASE Outside \/ UNCHANGED vars
    BY <1>9, OutsideLeavesRuns DEF FlagInv, FlagHasARun
  <1>10. ASSUME NEW r \in Runs, Advance(r) PROVE FlagInv'
    BY <1>5, <1>6, <1>7, <1>10, StepsOfARun
  <1>11. QED
    BY <1>3, <1>4, <1>8, <1>9, <1>10 DEF Next

\* Even when runs and imports overlap and the application goes down under them,
\* the flag never stays up without a synchronization whose finally lowers it:
\* what FlagIsGivenBack rests on.
THEOREM FlagIsHeld == Spec => []FlagHasARun
  <1>1. Init => TypeOK /\ FlagInv
    BY TypeInit DEF Init, FlagInv, FlagHasARun, Runs
  <1>2. TypeOK /\ FlagInv /\ [Next]_vars => TypeOK' /\ FlagInv'
    BY TypeNext, FlagInvNext
  <1>3. FlagInv => FlagHasARun
    BY DEF FlagInv
  <1>4. QED
    BY <1>1, <1>2, <1>3, PTL DEF Spec
=============================================================================
