# Verification of be_ruta

TLA+ models of the NestJS backend `be_ruta` (MongoDB through Mongoose, Redis as a
cache), the TLC runs that check them on small instances, and TLAPS proofs of
what holds for every size. Paths below are relative to the repository; the code is under
`src/`.

- [The system](#the-system): components, their state, and where it is hard
- [The modules](#the-modules): what each models and how it corresponds to the code
- [The runs](#the-runs): what is checked, with which bounds
- [Where the code disagrees with its documents](#where-the-code-disagrees-with-its-documents)
- [The proofs](#the-proofs)
- [Not modelled](#not-modelled)

## The system

The server is one process, but every `await` on MongoDB or Redis lets other requests
run, and the cache and the database answer, or fail, in their own time. Only `units` and one operation of
`roles` use transactions; everywhere else a handler reads, waits, and writes what it
decided from the read.

| Component | State | Operations | Interacts with | What makes it correct |
|---|---|---|---|---|
| `units` | `units`, `unit_memberships`, `users.unitId` | list (seeds the group), configure, patch, set members (split or move), remove, declare leadership | reads the people the sync and the panel write; `powersync` authorizes by its rows | the two derived collections agree with the units; a protagonist sits in one unit, of the branch he had when he was planned for |
| `users` | `users` | create, patch, delete | everybody reads it; `authz` bounds what a patch grants | nobody edits his own access or grants above himself |
| `auth` | `refresh_tokens`, `users.passwordHash` | check, register, login, refresh, logout, PowerSync token | seeds the profile cache | a revoked session stays closed |
| `password-reset` | `password_reset_tokens`, a counter in Redis | request, check, confirm | writes the password, closes the sessions of `auth` | a reset shuts out whoever had entered |
| `solicitudes-acceso` | `solicitudes_acceso`, `users.estadoAcceso`, `users.nivelAcceso` | ask, approve, reject | `authz` for the level, `notificaciones` for the answer | one pending request; a resolution stands; the person hears of it |
| `notificaciones` | `notificaciones` (an outbox) | enqueue | filled by `solicitudes-acceso` | a notification for every resolution, of that resolution |
| `authz` | none | level, permission and resource comparisons | reads `users` and `roles` | nobody grants what he does not have |
| `roles` | `roles`, `users.roles` | create, patch, remove, reassign and remove | refreshes the profile cache | no user refers to a role that is gone |
| `current-user`, `redis` | a profile per person in Redis, with a TTL | get, seed, refresh, refresh by role, invalidate | read by every guarded handler; refreshed by `users`, `roles`, `units` | a profile that differs from users and roles has a known cause, and ends |
| `siscout` | `users` (projection), `siscout_snapshots`, configuration, credentials | scheduled or manual synchronization, import | creates and moves the people of `units` | a run that did not see everybody retires nobody |
| `powersync`, `asistencia` | `asistencia` | apply a batch of offline writes | authorizes by `unit_memberships` and the account | what a device was told is saved stays; its queue gets through |
| `cycles`, `opportunities` | `cycles`, `learning_opportunities` | create, dates, remove, diagnostic, focus; create and change an opportunity | copy texts of the catalogues; the caller's units bound what he reaches | a registered diagnostic stays and answers one catalogue; nothing quotes a text that never was |
| `questions`, `growth-items` | a collection each | create, patch, remove (deactivate), seed | read by `cycles` | an item's area is one of its branch's |
| `grupos` | `grupos` | create, patch, remove | none reads it by rule | |
| `app-settings`, `siscout/config` | a document each, and its copy in memory; a cron job | load, update, reset, reschedule | tune the others; start the runs of `siscout` | the copy, and the job made from it, follow the document |
| `tools` | none of their own | backfill leaders, rebuild rows, by hand from a console | write `units` and `unit_memberships` beside the server | the rows follow the units; a rebuild repairs them |
| `email`, `crypto`, `domain`, `i18n`, `catalogo-cargos`, `config`, `seeds`, `scripts` | none of their own | pure functions, output, commands run by hand | | |

The behaviours that are hard to test, each at its line, are the `hazards` of
`PROJECT.json`: reads that precede a transaction (`seedGroup`), a check and a save with
an await between them (`cargarResoluble`, `refresh`, `confirm`), decisions written to two
or three collections one after another, a mass revocation overtaken by a handler in
flight, derived data that another component writes past its owner, restarts between
two writes, a cache filled from a read that is old by then, a batch sent again after a part of
it was applied, and replies handled in another order than the writes were made in.

## The modules

    Roster                         what units promises about one protagonist
      ^ implemented by
    Units          <- MCUnits           <- UnitsProofs
    Sessions       <- MCSessions        <- SessionsProofs
    AccessRequests <- MCAccessRequests  <- AccessRequestsProofs
    Roles          <- MCRoles           <- RolesProofs
    SiscoutSync    <- MCSiscoutSync     <- SiscoutSyncProofs
    Catalogue <- Cycles   <- MCCycles   <- CyclesProofs
    Tools     <- Field    <- MCField    <- FieldProofs
    Settings  <- Schedule <- MCSchedule
    Profiles              <- MCProfiles
    Profiles, Schedule    <- CopiesProofs

An arrow points to the module extended; the proof modules extend the component's module
directly. `Cycles` composes the catalogues with the documents that quote them, `Field`
the tools and the units they mend with the device whose writes the rows authorize,
`Schedule` the settings with the cron job that follows them. `CopiesProofs` extends two modules that share nothing
but that a copy of what is stored decides: that is why the names of `Schedule`'s specification carry its name.

The modules about people share the collection `users` and little of a document: `Units`
has `estado`, `groupId`, `cargos`, `unitId`, and of what SiScout says `tipo`, the cargo and the age; `Sessions` has `passwordHash`;
`AccessRequests` has `estadoAcceso` and `nivelAcceso`; `Roles` has `roles` and `__v`;
`SiscoutSync` has `estadoSiscout`, `ultimoSyncId`, `cargoSiscout` and, as `Units` does,
`groupId`; `Profiles` has the branch titles, `roles` and `__v`, `Field` whether the account is
approved. Deleting a user, which touches all, is an action of each but `Roles` and `Field`, where
people neither come nor go. What a run of the synchronization does to the people of
`Units` is `Arrive` and `Synchronize` there.

### Units (`src/units`)

`unit`, `rows`, `unitOf` are the collections `units` and `unit_memberships` and the field
`users.unitId`. An operation inside `inTransaction` is one action, because MongoDB aborts
and `withTransaction` retries a transaction whose documents changed under it. `seedGroup`
is not: it reads the people, plans, and only then opens its transaction, so it is
`SeedRead`, `SeedBegin` and then `SeedCommit` or `SeedLost`, with anything in between.
`SeedCommit` reads the hosts when it commits, and `SeedLost` is the duplicate name the
code turns into `already-seeded`.

`Configure`, `Update`, `KeepMembers`, `SplitMembers`, `MoveMembers`, `Remove` and
`DeclareLeadership` are the operations; `Authorized` is the gate all of them pass, taken
on the present state (the profile it reads in the code comes from a cache: see `Profiles`).
`Arrive`, `Synchronize`, `PatchProfile`, `SetEstado`, `RemoveUser` and `PatchUnitId` are what the sync and
the users panel do to the people, each for a set of people given as a constant. `says` is what SiScout
says of a person, a `Report`: the `tipo`, the branch his cargo labels or leads, that of his age, and whether
the cargo is that of a group chief. From it follow his branch (`BranchOf`), who may lead (`AdultsOf`,
`LeadersOfBranch`) and what an adult reaches (`ScopeReaches`). `Synchronize` rewrites all of it, and the group, of
anybody it finds, seated or not, and touches no unit, as `persistChunk` does: so a unit may come to have a leader who
is a protagonist now, or a member of another branch. ObjectIds are naturals in creation order, because
`branchHost` sorts by them. A name is a pair (branch, index) when it is a placeholder.
Which candidate becomes the leader, an order on names and titles, is left open among
the candidates; cities and districts are left out.

### Roster

The abstract specification: a person gets one place, a (group, branch) pair that his data called for
(`Seatings`), and keeps it. There are two refinements, with the places of a person read off the units that list him:
`Units!SteadyRosterSpec`, for the people nobody rewrites, whose place is then of their own group and branch, and
`Units!RosterSpec`, for everybody, while one request at a time seeds.

### Sessions (`src/auth`, `src/password-reset`)

Every await is the end of a step. A handler (`Calls`) carries what it read: `register` is
`Register`, `SaveRegistration`, `Issue`; `login` is `LogIn`, `Issue`; `refresh` is
`CheckSession`, `Rotate`, `FindOwner`, `Issue`; `request` is `AskForLink`, `CountAttempt`,
`LookUp`, `DiscardPending`, `CreateLink`; `confirm` is `CheckLink`, `SavePassword`,
`MarkUsed`, `DiscardPending`, `CloseSessions`. Reads that decide nothing more (the person
behind a checked link) are joined with the step before. `save()` of a document deleted
meanwhile throws, and the handler ends there. So it does when a query is rejected or the process restarts, which
may be at any await (`Fail`): nothing is caught and nothing undone. The TTL indexes, the end of the counting
window and the deletion of a user may come at any time. Three variables are histories: `saved`, the id of the next
session when a reset last saved the password; `closed`, the id below which an answered reset has closed the sessions;
`cut`, the latest `saved` of a reset that threw after its save.

### AccessRequests (`src/solicitudes-acceso`, `src/notificaciones`, `src/authz`, `src/users`)

`crear` is `Ask`, `FindActive`, `CreateRequest` (with the partial unique index),
`AwaitDecision`, `Announce`; `aprobar` is `Approve`, `CheckGrant`, `DecideUser`,
`CloseRequest`, `Announce`; `rechazar` starts with `Reject` and skips the level. `Edit`,
`CheckEdit` and `SaveEdit` are `UsersService.update` on the same two fields, with the two
rules that nobody edits himself and nobody edits the super_admin. Levels are their
ranks. `Fail` ends a handler at any await, by a rejected query or a
restart. In particular the insert into the outbox may be rejected (`encolar` is awaited without a `try`), and the
request is resolved by then. `notices` is the outbox, by request and kind; `written` is the history of what was ever
written into a request, and `lost` that of what a failing handler had yet to announce (`Owed`). `PanelStates` are
what the panel may set. The state `en_revision` of a request, which no code writes, is left out, and so
are the mails, whose failure is caught.

### Roles (`src/roles`, `src/authz`, the roles of `src/users`)

A call first reads its document (`BeginEdit`, `BeginCreate`, `BeginAssign`,
`BeginReassign`, `BeginRemove`), then works out what it hands out (`ReadGrants`, unless the
document already told), reads the actor (`ReadActor`), compares (`Decide`), and writes
(`SaveEdit`, `SaveCreate`, `SaveAssign`, `DeleteRole`). A call that hands out nothing skips
the check, as `assertCanGrant` does. `BeginAssign` to `SaveAssign` is
`UsersService.update` with a list of roles. Mongoose saves the changed paths only, and puts `__v`
in the query, and increments it, when one of them is an array set as a whole: `Overtaken`.
The transaction of `reassignAndRemove` is `OpenTransaction`, which fixes the snapshot that all its
reads see, and `EndTransaction`, which commits unless a document it writes changed
(`RetryTransaction`); `updateMany` leaves `__v` alone.

`resources` are checked by the same code as `permissions` and are not told apart from
them. Wildcards are permissions; `Grantors` says which ones grant which. `Actors` are those
whom the guard lets through: it decides once, before the call. Names, and the conflict on them, are left out.

### SiscoutSync (`src/siscout`)

`synchronize` is `Call`, which tests `inProgress`, and behind the await `Enter`, which sets
it and takes the configuration. For every zone, `sessionForZone` is `Login` (the
candidates, limited accounts before national ones) and `Try`, once per candidate: its session
is there, it failed before, or it is tried. That its use cannot be noted makes it count as failed although the
session stays open, so the next zone takes it again: `Authenticate` has that case.
`ReadPage` is one turn of the page loop with all its checks; a page may come cut short.
`Validate` is `validateBeforeWriting` and the start of `persist`, which reads the chunk size
anew. A chunk is `ReadHashes`, `WriteUsers`, `WriteSnapshots`; the two `bulkWrite`s are
unordered, so that `WriteSomeUsers` and `WriteSomeSnapshots` apply any part and throw.
`MarkOrphans` is `markOrphans` and the end of the run; `Fail` is a throw at any await,
`End` the `finally`. `Import` is `importMembers`, run by scripts of their own. Meanwhile
`Report` changes what SiScout says, `Configure` and `SwitchAccount` change what the run reads,
`CreateUser` and `RemoveUser` the people, and `Crash` restarts the process.

Of SiScout, which is external, it is assumed that its listing has a fixed order (`Place`), and that the
total it reports is the number it lists. A page is a slice of the listing as it is when asked
for, so that an insertion or a move between two pages shifts the rest. A row without
`person_id` is rejected as a row of no zone is, and is not told apart; a hash stands for
the row it was computed on. Rows are sets with their number kept beside them,
`downloaded`, because `validateBeforeWriting` only compares the two. `updateMany` of `markOrphans`
is one step. `quiet` and `stayed` are auxiliary: they watch the register since the run began.

### Catalogue and Cycles (`src/questions`, `src/growth-items`, `src/cycles`, `src/opportunities`)

In `Catalogue` every operation is one `findByIdAndUpdate` and one action, except the
change of an item's branch or area: `CheckMove` reads the item and combines it with the
patch, `ApplyMove` sets the patch's fields on what is stored by then, `DropMove` is the
taken key (409). `KeyIsFree` is the unique index; removing sets `isActive`.

In `Cycles` a call loads the cycle (`BeginDates`, `BeginRemove`, `BeginDiagnostic`,
`BeginFocus`, `BeginOffer`, `BeginReoffer`, with the checks that need only the document), may
read a catalogue (`ReadQuestions`, `ReadItems`, `FindOpportunity`), and saves
(`SaveDates`, `SaveRemoval`, `SaveDiagnostic`, `SaveFocus`, `CreateOpportunity`,
`SaveOpportunity`). `save()` writes the modified paths only: a date equal to the loaded
one is not written (`Modified`), and `__v` is in the query only when `diagnosticAnswers`, an
array, is set (`Overtaken`); `focus` is an object, so that setting it is unguarded.
Answers and competencies are functions from the question or item to the text copied. `asked` and
`said` are histories of what the catalogues were; `mixed` marks a cycle one of whose dates was saved while a patch that
had been checked against it, and does not set it, was under way (`SetsUnder`), `crossed` an item whose branch or
area was written likewise (`Overtakes`).

### Profiles (`src/current-user`, `src/redis`, with `src/users`, `src/roles`, `src/units`)

Every command to Redis and every query is a step. `get` is `LookUp`, `Build`, `Store`;
`seed` starts at `Build`; `refresh` is, for each person, `Has`, `Rebuild`, `Update` (`SET`
with `XX` and `KEEPTTL`); `refreshByRole` is `RefreshByRole` and those for every holder it
finds; `invalidate` is `Invalidate`. Around them are the operations that change what a
profile shows: `Save` (`users.update`), `Remove`, `EditRole`, `DeleteRole`, `Reassign`,
`Declare` and `WriteUser`, the synchronization, which tells the cache nothing. `Save` writes what the panel's patch
changes in the roles and in the branch titles of the loaded document (`Difference`); to set either list whole carries
`__v` in the query and increments it, and throws if it moved or the person is gone (`Throws`). `given` is the history of
the titles the panel gave last. Each command of
Redis may fail, and an entry may go at any time (`Expire`): `allkeys-lru`, no volume.
`blamed` marks the stale entries that have one of the causes below.

### Tools and Field (`src/tools`, `src/powersync`)

`Tools` has the units as far as their rows depend on them, the operations of `UnitsService`,
which write both at once, and the two console tools, which read every unit at their start:
`BackfillLeaders` saves a document (a `VersionError` ends the tool) and `BackfillRows` its
rows in a step of its own, `RebuildUnit` rewrites rows in a transaction, `Exit` ends or
interrupts the tool anywhere.

`Field` is `applyWrites` and the device in front of it, which is external: `Record`, `Send` of the
first operations not answered for, `GiveUp`. A request is `FindActor`, `FindMemberships`, then per
operation `Upsert`, `RefuseOp`, or `FindRow` and `DeleteRow`, and `Answer`; `Fail` is a query that
throws, a restart or a lost answer. The service does not notice that the device gave up, so that
an abandoned request runs on beside its repetition (`overlapped`). The first row may be there before, a
`DELETE` outside the scope is passed over (`skipped`), and a refused operation ends the batch with
what came before written.

### Settings and Schedule (`src/app-settings`, `src/siscout/config`, the scheduler)

`Settings` is one document and its copy, for both services, whose code is the same: `Ask`
sends an update or a reset, `Write` is `findOneAndUpdate` on the server, `Receive` handles
the reply and replaces the copy. The pool has several connections, so that replies may be
handled in another order than the writes were made in; `Lose` loses one. `EnsureLoaded` is the start.
`Schedule` composes it with `SiscoutScheduler`: `Notify` and `Boot` stop the job there was
and start the one that is wanted; what a run of the job does is `SiscoutSync`.

## The runs

| Run | Expected | States | Shows |
|---|---|---|---|
| `units_seating` | pass | 64,766 | two groups, two branches, three protagonists and an adult, up to four units, one listing at a time, and a synchronization that may make one of the three anything: pointers agree with the units, and `Roster` is implemented for all of them |
| `units_leaders` | pass | 31,712 | two listings at once, a protagonist who is deactivated, deleted and repointed, an adult whom the sync and the panel rewrite, into a protagonist too, every patch of leaders: rows agree with the units, one per person and unit; a pointer nobody patched names a seat; who is not rewritten stays in his place; whoever was planned for is seated, but for the causes below |
| `sessions_overlap` | pass | 339,373 | one account, two handlers that may fail anywhere, two tokens, one link: answered resets close what preceded them, and a saved password leads to it unless its reset threw |
| `access_overlap` | pass | 1,314,414 | an approver and a newcomer, two handlers that may fail anywhere, two requests: one pending request each, no level above the first approvers', and the outbox tells of all that was written but for what a failing handler lost, and of nothing else |
| `access_resolved_twice` | violation | | see below |
| `roles_grants` | pass | 886,964 | two overlapping calls, three roles -- held, inactive with the wildcard, and a third that carries it unheld or does not exist yet: nobody obtains what nobody had |
| `roles_late_holder` | violation | | see below |
| `siscout_roll` | pass | 294,017 | two runs and an import, three people, two zones, two accounts, two configurations, one change from outside: only a run that wrote all it brought marks people as gone, and exactly the rest; with a register that stands still it marks nobody listed; both collections then say what SiScout said; the flag is given back |
| `cycles_overlap` | pass | 435,314 | one cycle, two calls, two questions, two items, two editors of the catalogues: a registered diagnostic stays and answers one catalogue, texts have a source, a removed cycle stays removed; ranges and areas stay valid, also when patches of the same field or of both overlap, but for a patch of one field checked while the other was about to change |
| `profiles_cache` | pass | 766,220 | one entry, two requests, two roles, two edits, titles set by the panel: a stale profile has a cause and ends; the titles are the ones the panel gave last, or one declaration took hold |
| `field_retries` | pass | 606,515 | one device of two operations, two requests, one fault, one edit, one tool: answered operations are never taken back, the queue gets through, rows follow the units but for named causes, a rebuild repairs |
| `schedule_changes` | pass | 44,853 | three updates or resets and a restart: the copy and the job follow the document unless the latest reply went astray |

Bounds, all named in the modules. `MaxUnits` is the number of unit ids: four allow a seeding of two branches,
a split and a removal with a reseeding behind it, and two are enough for two listings of one branch, each of which may create
its unit; ids reserved for plans in flight keep the bound from blocking a seeding. `MaxNameAttempts` is 1 instead of
50, so that names do run out. `MaxSessions`, `MaxLinks` and `MaxRequests` bound what is ever
created; two handlers are enough for every race of two steps, and `RateLimitMax` 1
exercises the limit. `MaxVersion` is how often the arrays of one document are set: one is enough
for a save that finds them changed, and edits of the status do not count. In `Roles` the calls are
interchangeable (symmetry), and one actor, whom nobody may edit, is enough because what
an edit may hand out depends on the actor only through his permissions. `MaxLost` = 1 is how many notices failing handlers lose in all; it does not
limit how often handlers fail. `units_seating` has one listing at a time and no
pointer written by the panel: with either, `PointersMirrorMembers` fails, as described under the
disagreements. `units_leaders` has two listings, and so the stale plan and the two seedings: the first commits while
the plan of the second names people it has seated, or whom the sync has made something else meanwhile, and the
second joins its unit or loses to its name. One branch is enough there, because what two plans
compete for is one branch of one group; the second group is one to be moved to. In `SiscoutSync` three people make pages of one record and a chunk of two meet a
zone of two, and the other configuration reads all at once and writes by ones; two runs are
needed for a seal to be older than the run; one change is enough for each of the
disturbances (`MaxChanges`). Runs do not overlap there (`Overlap` is FALSE): with it TRUE,
an import that seals between a run's last chunk and `markOrphans`, or a second call between the test of
`inProgress` and the await behind it, makes present people orphans, and
`ConsolidatesTheRoll` fails. The code leaves the first to whoever starts the scripts; for the second the configuration
is loaded at start-up, so that the await is one microtask and no request comes between.

In `Cycles` a call begins while fewer than `MaxSaves` = 2 have saved, so that three saves
happen: a diagnostic, and two calls that loaded the cycle before it. `MaxEdits` = 2 lets the catalogue change
between the read and the build and again before the save; two lists of answers tell a whole catalogue from a
part. Calls, and editors, are interchangeable (symmetry; the run has safety properties
only). In `Profiles` one person is enough because an entry depends on no other; two edits
make a profile that was built before one of them and stored after both, and two declarations need no edit; the panel's
patches set a role, a title of either branch, both titles, or none. In `Field` one unit, one
id and two operations -- a `PUT` and a `DELETE`, in any order and number -- make a batch of
one or two, applied in part, repeated, and overtaken; flawed operations and a second unit
are in the model and in the proof, not in the run, whose liveness is costly. One tool and one edit
are enough for a document that changes between the load and the write. In `Schedule` three requests
make two replies that cross and a third that sets it right again.

Deadlock is not checked in any run: with the bounds used up, or everybody deleted, nothing is left to do.

Fairness. In `Units` a request that made its plan goes on (`SeedBegin`, then the commit
or its loss): nothing in the code waits there. In `Sessions` a handler that was called
takes its next step, or fails. Neither assumes that anybody calls. With it, `PlannedGetSeated`
says that every listing gets through with its plan, and that whomever it named has a unit then unless he was deleted,
his pointer was patched, or the listing lost a placeholder name, to a unit of another branch that squats on it or to
another listing; `SavedPasswordClosesSessions` says that a password a reset saved closes the sessions before it, unless a
reset that saved it, or a later one, threw after its save: its link was deleted under it, or a query was rejected. In `SiscoutSync` an await of a synchronization is answered or throws (`Advance`), which
`FlagIsGivenBack` needs; nothing is assumed of SiScout's answers. In `Profiles` the one assumption is that the TTL
of an entry that has one runs out (`JWT_ACCESS_TTL_SECONDS` in Redis), nothing is asked of the requests: that
is what `StalenessEnds` says. In `Field` the device keeps sending and notices at last that nobody will
answer (as PowerSync's upload loop does), and requests go on until they are answered or fail;
`MaxFaults` bounds the failures, without which nothing gets through. `QueueGetsThrough` needs in
addition that from some time on the account, the scope and the operations would be accepted. In `Schedule` a query is answered or throws
and the process comes back after a restart; nobody has to ask for anything. `AccessRequests`, `Roles` and `Cycles` have safety
properties only and no fairness.

Every property of a passing run has a mutant: a variant of one operator, kept beside it
in the module and marked *Faulty variant*, with a plausible mistake (a dropped deletion,
a comparison left out, a missing index), under which the run reports the property
violated.

## Where the code disagrees with its documents

Two have a run:

- `access_resolved_twice`: a resolved request answers *ya fue resuelta*, but two approvers who
  load it while pending both resolve it.
- `roles_late_holder`: *si entretanto alguien más recibió el rol, el recuento final no da
  cero, revierte*, but the count reads the snapshot of its transaction, and giving the
  role to somebody who did not hold it conflicts with nothing the transaction writes.

The others the models show as well: each is a behaviour they allow, and the reason that a
property has the exception it has.

- *Units.* Exactly one unit per protagonist, the design's central invariant, fails when two
  listings plan the same people and a move comes between the two commits:
  `applySeedPlan` looks at the members of the host, not at `users.unitId`. The listing that loses a
  placeholder name gives its plan up because *el ganador ya sembró lo mismo* (`units.service.ts:250-253`), but the winner
  may have read other people, or the name may belong to a unit of another branch: whom only the loser had read
  stays without a unit until the next listing (`SeedLost`; `Undone` is the exception `PlannedGetSeated` makes). A change
  of `groupId`, by the synchronization or the panel, and a change of `tipo`, cargo or age, by the synchronization
  (`siscout-sync.service.ts:49-66`, `504`), leave the seat, its row and the pointer: a person sits in a unit of a group or
  a branch that is not his, an adult among the members, a protagonist as its leader (`PatchProfile`,
  `Synchronize`). And if two listings overlap around such a change, they seat one person in two branches. *No se puede ser jefe y subjefe a la
  vez*, but a patch with only one of the two fields is not filtered (`Update`).
  `syncMembership` is *único método autorizado* to write `users.unitId`, but
  `PATCH /users/:id` accepts it (`PatchUnitId`), and one such patch breaks `PointersMirrorMembers`.
- *Sessions.* `confirm` *fija la contraseña nueva y cierra todo lo demás* (`password-reset.service.ts:115`),
  but these are separate writes and nothing is caught: when the marking of the link, the discarding of the others or the
  revocation throws after the save (`password-reset.service.ts:134-144`), or another call deleted the link meanwhile, the
  password is the new one and the sessions stay open (`cut`). A reset is *el momento en que se queda afuera* whoever had entered
  (`password-reset.service.ts:115`), but a refresh in flight creates its token after the
  revocation (`auth.service.ts:149`): a session that descends from an older one survives.
- *Access.* `crear` sets `estadoAcceso` to pending after its request was inserted
  (`solicitudes-acceso.service.ts:160`): an approval in between is overwritten, and the
  approved person waits again. A notification is enqueued after the request was closed, by an await nobody catches
  (`solicitudes-acceso.service.ts:281-285`, `313-317`, `notificador-outbox.ts:20-25`): if the insert is rejected, or the
  process restarts before it, the person never hears of the resolution, because to repeat the call answers *ya fue
  resuelta* (`lost`). Of two approvers who resolve one request differently, both are announced.
- *SiScout.* Who *no vino en esta corrida, ya no está* (`siscout-sync.service.ts:629`), but the
  zones are read one after another: whoever SiScout moves from a zone still to be read to
  one already read is in no page, the totals agree, and the run marks as gone a person listed
  all along, until the next run.
- *Cycles.* The comment at `cycles.service.ts:71` says the range is revalidated against the
  stored date; a patch of the start and one of the end are each checked against the date the other is about
  to change (`mixed`). A save of the focus writes all of it
  (`cycles.service.ts:138`), so that of two patches of different fields the later takes the
  earlier back. An item whose branch one update changes and whose area another does may end in an area its
  branch does not have (`crossed`).
- *Offline writes.* `applyWrites` *debe ser idempotente (PowerSync reintenta)*
  (`powersync.service.ts:44`): every operation is, but a request the device gave up on may
  run on after the repetition and what followed it were answered, and then takes a row back to an older
  value (`overlapped`). A refused operation refuses the batch, and the device sends it again for
  ever: what it recorded behind it does not get through. A `PATCH` that carries the changed
  columns only is refused for a field it lacks.
- *Tools.* A backfill cut short between a unit's document and its rows leaves them apart, and a second
  one skips the unit, because its leaders are right by then. A rebuild that meets a unit removed
  meanwhile writes rows for it, and no later rebuild, which goes by the units there are, clears them.
- *Profiles.* A person declares one branch, but a patch of the panel may give him the titles of several
  (`update-user.dto.ts:45`): nothing in `users.update` counts them. What leaves a profile stale until its TTL: the synchronization, which writes
  past the cache; `reassignAndRemove`, whose refresh by the old role finds no holder any
  more; a profile built before a change and stored after its refresh; a command that Redis did not carry out.
- *Settings.* *Los cambios surten efecto en tiempo de ejecución sin reiniciar*
  (`app-settings.service.ts:25`), but the copy is whatever reply was handled last: when
  replies cross, the older settings stay in memory, and for SiScout in the cron job, until
  the next change or restart (`astray`).

## The proofs

`tlapm` checks eight modules, for any value of the constants that satisfies the named
assumptions of the models (groups of titles and people of the right kind, bounds that
are naturals, at least one person).

- `UnitsProofs`. `TypeCorrect` is inductive by itself; it says of a leader or a member that he is a person and not of
  which tipo, which the synchronization may change under the unit. `MembershipMirror` rests on one lemma about
  `syncMembership`: if the rows mirror the units, and every unit that changed is in the
  synced set, the new rows mirror the new units. It needs no assumption on seedings in flight
  or on who is authorized, so unlike the pointers it holds with any number of them. `OneRow`
  follows from it: `projectMemberships` names a person once per unit.
  `PointersNameSeats` and `PlansSeat` have no hypothesis either, and speak of any number of overlapping listings. For the
  first: every operation syncs the units it rewrites, and `syncMembership` leaves the pointer of a person it seats at a unit
  that lists him and unsets the others, so that a pointer never survives its unit. For the second: a commit seats
  all its plan names, or they sit in its host already, and then their pointer names a seat; a listing that loses does so to a name.
  `PointersAreMembers` has two hypotheses, both needed: one request at a time (`seedGroup` reads before its transaction,
  and a second seeding seats the same people again), and no write of `users.unitId` by the users panel, which goes past
  `syncMembership`. The property is not inductive: a commit seats whom its plan named some steps before. `UInv` adds that
  a planned person is still in no unit (`PlansAreOpen`), that a person who appears later is in none either, and that
  nobody is listed twice. All operations but the commit are instances of one step (`Reseats`): the units they rewrite are
  the units they sync, and they list the same people.
  `ImplementsRoster` has no hypothesis: of the people nobody rewrites (`Steady`), whatever the sync and the panel make of
  the others, every step of `Units` is a step of `Roster` or none, for any number of requests. The plans that name such a
  person are all for the group and branch he came with (`HInv`), so that the seat a second seeding adds is of the same place.
  `ImplementsRosterOneByOne` is of everybody, rewritten or not, and asks for one request at a time and no patched
  pointer, from `UInv`. With both -- two requests, and a person rewritten between their reads -- `Roster` is violated: he
  gets a seat in either place.
- `SessionsProofs`. `ResetCloses` is not inductive: a refresh that checked its token may
  be past the check. The strengthening says that ids below `closed` are below `nextSession`,
  that a handler's `seen` is too while it closes, and the step that revokes reaches every session
  created before the password was saved; no step sets `revoked` back. `SavedAreSeenTo` is the part of
  `SavedPasswordClosesSessions` that is about single steps: of each saved password, its sessions are closed, or a handler
  that will close them is under way, or one that was has thrown.
- `AccessRequestsProofs`. `Announced` has no hypothesis: of every request and resolution ever written (`written`), also
  of one written over by a second approver, the notice is in the outbox, or a running handler owes it, or the handler
  that wrote it failed before (`lost`), and no other notice is there. The inductive invariant `IInv` joins the types, the three
  properties and `Carried`: what a handler about to grant carries is a level that
  `CanGrantLevel` accepted at its check, so that it is bounded by a first level of an
  approver although the approver may have lost it since; what a handler about to close carries is a request of
  that person.

- `RolesProofs`. `NoEscalation`: nobody exceeds `Powers`, a set of permissions closed under the
  wildcards that nobody exceeds at the start. That is not inductive, because an inactive role, or one
  nobody holds, may carry foreign permissions (outside `Powers`). `IInv` says that every role that is
  held, was read as the actor's, or is about to be handed out after its check is *tame*
  (grants nothing foreign now), and, of an edit in flight, that what it will save is bounded by
  the role as it is and by the checked grant -- if it sets the permissions, because an
  equal `__v` means an equal list; if it only reactivates, because foreign permissions never
  grow (`Evolves`). The proof is by one lemma per action over `OthersStayBounded`: calls that do nothing stay
  bounded while roles evolve. The run's mutant, a save that ignores `__v`, is the step that breaks it.
- `SiscoutSyncProofs`. `ConsolidationIsTheRoll`, for runs that do not overlap (`Overlap = FALSE`
  is its assumption). The property speaks of the step that marks; what it needs of the state before
  is `IInv`: everybody the run wrote carries its seal or none (`Seals`), nobody it did not bring does
  (`SealsAreOfTheRoll`), what is left was collected, and no other run or import is at work
  (`OneAtATime`), which could put its seal over it. `Written` says which rows are written at each phase,
  and that a chunk counts from `WriteUsers` on. An unheeded error of `bulkWrite`, the run's mutant, is the step that breaks it.
  `SealedAreStored` and `QuietRunsSpareTheListed` rest on a stronger one, `SInv`, under the same assumption. The first follows
  the rows through the chunks: nobody is in them twice, because the people were counted against the rows before anything was
  written (`Unrepeated`); the hashes a chunk was compared with are still those stored when it is written (`HashesHold`); so the snapshots
  written, or left because they were the same, are the rows (`RowsAreKept`), and who carries the seal has in `users` what
  the row says (`SealsSpeak`). The second counts: the pages of a zone
  that stands still add people who come after those read before (`Matches`), so that a zone whose rows reach its total
  has been read in full (`BringsTheListed`), and no zone is skipped (`Positioned`). `FlagIsHeld` needs no assumption: also when
  runs overlap the flag is up only while one of them is at work, whose `finally` lowers it.

- `CyclesProofs`. `IInv` says of every call what it may rely on when it saves: a version not above
  the stored one, with an equal one meaning that the diagnostic is as it was loaded, open; dates whose pair is valid with those
  stored, unless a date it was checked against was set meanwhile (`mixed`); patches of the same date, or of both, keep it
  (`SameRange`); answers built that were the whole catalogue at
  some time (`asked`), competencies whose texts were said. Of every editor it says that the move it checked still fits what
  is stored (`MoveFits`), unless crossed, which a move of the same field, or one it overwrites, does not do; and that the histories hold the present. A call's own
  step uses its part; every other step keeps it. From it follow `AreasSuit`, `DiagnosticsAreWhole`,
  `SourcesKnown`, `RangesValid`, and, as properties of steps, `DiagnosticsStayLocked` (where an
  equal version is what tells the save that nobody registered meanwhile) and `RemovalIsForGood`.
- `FieldProofs`. `ToolsInv` joins the two properties of the tools with the fact that a tool owes the
  rows of one unit at most and a rebuild none. `AnsweredStays` is not inductive: between two answers a
  request has applied operations that were not answered for. `DeviceInv` says the same of what the running request has
  applied so far (`AttendanceKept`, with `Kept(id, n)` for the first n operations), that the request starts where the
  answers end, and that no two run unless they overlapped. Applying operation n again, whatever was applied
  before, leaves what `Kept(id, n)` asks: that is the idempotence the device needs.
- `CopiesProofs`, the profiles. `StaleHasACause` is not inductive: a refresh ends without a write when the entry or the
  person is gone. For the entry that is harmless, nothing is stale then; of the person `GoneHasACause` says that the deletion
  still owes its `invalidate` or that its failure is the cause, so that the refresh was not needed. `TasksAreRefreshes` says
  that only a refreshing call has tasks, so that a call which starts one overwrites none. One lemma (`StepKeeps`) then covers every step of a
  call: what is stale after it is blamed, or owed by the call, or was explained by another call before. `DeclaredOnce` has
  no hypothesis: whatever the cache said, the filter of the update lets a declaration in only where there is no title
  (`Declare`), and a save of the panel, loaded before or after, sets the whole list, so that the titles are then the ones
  it gave. `EveryEntryExpires` is the part of `StalenessEnds` that is about single steps:
  no refresh makes an entry that outlives its TTL.
- `CopiesProofs`, the settings. `ScheduleInv` says that the reply to the latest write, while under way, says what is stored,
  that nothing is under way while the process is down, and that the jobs are those of the copy.
  `CopyExplained` and `JobFollowsSettings` (at rest, and unless the latest reply went astray, the job is the one
  the document asks for) follow.

Every invariant and every property of steps that a passing run checks is proved. Only model-checked: liveness
(`PlannedGetSeated`, `SavedPasswordClosesSessions`, `FlagIsGivenBack`, `StalenessEnds`,
`QueueGetsThrough`, `ChangesTakeEffect`), because the prover has no fairness or ENABLED.
Facts by induction over data and recursive operators are outside the prover too; the modules have none.

## Not modelled

- `grupos`: writes of single documents of a list that no other component reads by a rule.
- `email`: output that leaves no state, whose failures are caught. `crypto`: a function of its argument.
- `domain`, `catalogo-cargos`, `i18n`: constant tables, generated or written by hand, and lookups in
  them. The modules take branches, titles, areas and levels as constants.
- `config`, `database`, `common`, `scripts` and most of `seeds`: start-up, formats of errors, generation of
  code. The seed of the growth items is in `Catalogue`, the import in `SiscoutSync`.
- Of `siscout`: the text clean-up and encryption of fields (a hash stands for the row), the reports of a run, and
  of the credentials their views, passwords and creation.
- Of `auth`: the PowerSync token and the keys behind it, which keep no state.
- Of `users`: names and lists; of the titles those of level rama are in `Units` and `Profiles`. `create` is an arrival.
- Of `authz`: resources, compared by the code of permissions; the guard, which is the set of actors
  it lets through.
- Of `units`: which candidate leads, an order on names and titles, is left open; cities and districts. A listing whose
  transaction is rejected for another reason than a duplicate name writes nothing and answers an error, and the next one plans
  afresh: it is not an action, and `PlannedGetSeated` does not speak of it.
- Several server processes: settings, the cron job and the flag of a run are kept in memory by one.
