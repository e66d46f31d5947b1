------------------------------ MODULE Profiles ------------------------------
(***************************************************************************)
(* CurrentUserService (src/src/current-user) over RedisService             *)
(* (src/src/redis): the profile of a person, built from users and roles,   *)
(* cached with a TTL, and refreshed by the operations that change what it  *)
(* is built from.  Units and cycles decide by it what a person reaches;    *)
(* declareLeadership (src/src/units) decides by it and then writes.        *)
(*                                                                         *)
(* Every Redis command and every query is a step.  Redis may fail at any   *)
(* command, which then does nothing and reports nothing; it may drop any   *)
(* entry (allkeys-lru, no volume).                                         *)
(***************************************************************************)
EXTENDS Naturals

CONSTANTS
    Users, RoleIds,
    Grants,       \* what a role may grant
    Branches,     \* branches a person may have, by SiScout or by declaration
    NoBranch,
    NoOne,        \* no such person, role, profile or entry
    FirstPeople,  \* what a behaviour may start from
    FirstRoles,
    PanelPatches, \* what the panel may send: roles, titles of level rama, or both
    Calls,        \* requests that may be under way at the same time
    MaxEdits      \* bound: changes of users and roles

Person  == [siscout : Branches \cup {NoBranch}, declared : SUBSET Branches,
            held : SUBSET RoleIds, version : Nat]
PanelPatch == [held : {NoOne} \cup SUBSET RoleIds, declared : {NoOne} \cup SUBSET Branches]
Profile == [siscout : Branches \cup {NoBranch}, declared : SUBSET Branches,
            roles : UNION {[S -> Grants] : S \in SUBSET RoleIds}]
Entry   == [profile : Profile, expires : BOOLEAN]

ASSUME ProfilesAssumption ==
    /\ NoBranch \notin Branches
    /\ NoOne \notin Person \cup Profile \cup Entry \cup Grants
    /\ PanelPatches \subseteq PanelPatch
    /\ FirstPeople \subseteq [Users -> Person]
    /\ FirstRoles \subseteq [RoleIds -> Grants \cup {NoOne}]
    /\ MaxEdits \in Nat

VARIABLES
    person,   \* the collection users, as far as a profile shows it, with __v
    given,    \* history: the branch titles the panel gave each person last
    role,     \* the collection roles
    cache,    \* Redis: current_user:<idSiscout>
    call,     \* per call: its step and arguments
    task,     \* per call and person: the refresh of that person's entry
    blamed,   \* history: stale entries a named cause explains
    edits     \* changes so far

vars == <<person, given, role, cache, call, task, blamed, edits>>

NoCall == [at |-> "idle"]
NoTask == [at |-> "none"]

\* Steps of a call: look the profile up, build it and store it; declare after
\* that; save or delete and then see to the cache.  A task has its own steps.
CallStates ==
    [at : {"lookup", "build"}, user : Users, branch : Branches \cup {NoBranch}]
      \cup [at : {"store"}, user : Users, branch : Branches \cup {NoBranch},
            built : Profile]
      \cup [at : {"declare"}, user : Users, branch : Branches]
      \cup [at : {"save"}, user : Users, patch : PanelPatch, version : Nat]
      \cup [at : {"invalidate"}, user : Users]
      \cup [at : {"edit"}, role : RoleIds, grants : Grants]
      \cup [at : {"delete", "holders"}, role : RoleIds]
      \cup [at : {"refresh"}]
      \cup {NoCall}
TaskStates == [at : {"has", "rebuild"}] \cup [at : {"update"}, built : Profile] \cup {NoTask}

----------------------------------------------------------------------------
\* currenUserAggregation: the person with the roles that exist.
ProfileNow(u) ==
    IF person[u] = NoOne THEN NoOne
    ELSE [siscout |-> person[u].siscout, declared |-> person[u].declared,
          roles |-> [r \in {s \in person[u].held : role[s] # NoOne} |-> role[r]]]

Stale(u) == cache[u] # NoOne /\ cache[u].profile # ProfileNow(u)

\* resolveUnitScope answers leadership-required: no branch from anywhere.  The
\* access level and the group of the person are taken to be ones that ask it.
LeadershipRequired(profile) == profile.siscout = NoBranch /\ profile.declared = {}

\* The entries a step leaves stale for a reason of its own join the blamed;
\* an entry that is fresh or gone needs no reason any more.
Blame(S) == blamed' = {u \in blamed \cup S : Stale(u)'}

Edited == edits < MaxEdits /\ edits' = edits + 1

----------------------------------------------------------------------------
(* RedisService: what the commands do to an entry.                         *)

\* SET with EX.
SetWithTtl(u, profile) ==
    cache' = [cache EXCEPT ![u] = [profile |-> profile, expires |-> TRUE]]

\* Faulty variant: without XX and KEEPTTL the entry lives for ever.
UpdateAnyway(u, profile) ==
    cache' = [cache EXCEPT ![u] = [profile |-> profile, expires |-> FALSE]]

\* SET with KEEPTTL and XX: an entry that went away stays away.
UpdateExisting(u, profile) ==
    cache' = IF cache[u] = NoOne THEN cache
             ELSE [cache EXCEPT ![u].profile = profile]

Delete(u) == cache' = [cache EXCEPT ![u] = NoOne]

\* The client retries once and queues nothing while Redis is away.
RedisFails == UNCHANGED cache

\* The TTL runs out, or Redis makes room, or restarts empty.
Expire(u) ==
    /\ cache[u] # NoOne
    /\ cache[u].expires
    /\ Delete(u)
    /\ UNCHANGED <<person, given, role, call, task, edits>>
    /\ Blame({})

----------------------------------------------------------------------------
(* Steps that several requests share.                                      *)

Begin(c, state) ==
    /\ call[c] = NoCall
    /\ call' = [call EXCEPT ![c] = state]
    /\ UNCHANGED <<person, given, role, cache, task, blamed, edits>>

CallGoes(c, state) == call' = [call EXCEPT ![c] = state]

\* refresh of one person, or of each of several: Promise.all.
Refresh(c, S) ==
    /\ call' = [call EXCEPT ![c] = IF S = {} THEN NoCall ELSE [at |-> "refresh"]]
    /\ task' = [task EXCEPT ![c] = [u \in Users |-> IF u \in S THEN [at |-> "has"] ELSE NoTask]]

TaskGoes(c, u, state) ==
    LET rest == [task[c] EXCEPT ![u] = state] IN
    /\ task' = [task EXCEPT ![c] = rest]
    /\ call' = [call EXCEPT ![c] = IF \A v \in Users : rest[v] = NoTask THEN NoCall ELSE @]

Has(c, u) ==
    /\ task[c][u].at = "has"
    /\ UNCHANGED <<person, given, role, cache, edits>>
    /\ \/ cache[u] # NoOne /\ TaskGoes(c, u, [at |-> "rebuild"]) /\ UNCHANGED blamed
       \/ cache[u] = NoOne /\ TaskGoes(c, u, NoTask) /\ UNCHANGED blamed
       \/ TaskGoes(c, u, NoTask) /\ Blame({u})

\* The person may be gone by now: the entry is left to remove.
Rebuild(c, u) ==
    /\ task[c][u].at = "rebuild"
    /\ TaskGoes(c, u, IF ProfileNow(u) = NoOne THEN NoTask
                      ELSE [at |-> "update", built |-> ProfileNow(u)])
    /\ UNCHANGED <<person, given, role, cache, blamed, edits>>

UpdateEntry(c, u) ==
    /\ task[c][u].at = "update"
    /\ UpdateExisting(u, task[c][u].built) \/ RedisFails
    /\ TaskGoes(c, u, NoTask)
    /\ UNCHANGED <<person, given, role, edits>>
    /\ Blame({u})

----------------------------------------------------------------------------
(* get, seed, and declareLeadership, which reads the profile first.        *)

Read(c, u) == Begin(c, [at |-> "lookup", user |-> u, branch |-> NoBranch])

LogIn(c, u) ==
    /\ person[u] # NoOne
    /\ Begin(c, [at |-> "build", user |-> u, branch |-> NoBranch])

AskToLead(c, u, b) == Begin(c, [at |-> "lookup", user |-> u, branch |-> b])

\* What the caller does with the profile it got.
Decide(c, u, b, profile) ==
    CallGoes(c, IF b # NoBranch /\ LeadershipRequired(profile)
            THEN [at |-> "declare", user |-> u, branch |-> b] ELSE NoCall)

LookUp(c) ==
    LET u == call[c].user IN
    /\ call[c].at = "lookup"
    /\ \/ /\ cache[u] # NoOne
          /\ Decide(c, u, call[c].branch, cache[u].profile)
       \/ /\ cache[u] = NoOne \/ RedisFails
          /\ CallGoes(c, [call[c] EXCEPT !.at = "build"])
    /\ UNCHANGED <<person, given, role, cache, task, blamed, edits>>

\* Faulty variant: the profile of nobody is cached too.
BuildAnyway(c) ==
    LET u == call[c].user IN
    /\ call[c].at = "build"
    /\ CallGoes(c, [at |-> "store", user |-> u, branch |-> call[c].branch, built |-> ProfileNow(u)])
    /\ UNCHANGED <<person, given, role, cache, task, blamed, edits>>

Build(c) ==
    LET u == call[c].user IN
    /\ call[c].at = "build"
    /\ CallGoes(c, IF ProfileNow(u) = NoOne THEN NoCall
               ELSE [at |-> "store", user |-> u, branch |-> call[c].branch,
                     built |-> ProfileNow(u)])
    /\ UNCHANGED <<person, given, role, cache, task, blamed, edits>>

Store(c) ==
    LET u == call[c].user IN
    /\ call[c].at = "store"
    /\ SetWithTtl(u, call[c].built) \/ RedisFails
    /\ Decide(c, u, call[c].branch, call[c].built)
    /\ UNCHANGED <<person, given, role, task, edits>>
    /\ Blame({u})

\* Faulty variant: the write has no filter of its own.
DeclareUnfiltered(c) ==
    LET u == call[c].user IN
    /\ call[c].at = "declare"
    /\ person[u] # NoOne
    /\ person' = [person EXCEPT ![u].declared = @ \cup {call[c].branch}]
    /\ Refresh(c, {u})
    /\ UNCHANGED <<given, role, cache, blamed, edits>>

\* The update takes nobody who has a branch title; the caller is told (403).
Declare(c) ==
    LET u == call[c].user IN
    /\ call[c].at = "declare"
    /\ IF person[u] # NoOne /\ person[u].declared = {}
       THEN /\ person' = [person EXCEPT ![u].declared = {call[c].branch}]
            /\ Refresh(c, {u})
       ELSE CallGoes(c, NoCall) /\ UNCHANGED <<person, task>>
    /\ UNCHANGED <<given, role, cache, blamed, edits>>

----------------------------------------------------------------------------
(* The operations that change what a profile shows.                        *)

\* What target.set(dto) changes in the loaded document; a list equal to the
\* loaded one is not written.
Difference(doc, patch) ==
    [held     |-> IF patch.held = doc.held THEN NoOne ELSE patch.held,
     declared |-> IF patch.declared = doc.declared THEN NoOne ELSE patch.declared]

\* To set a whole list increments __v; the push of a declaration does not.
Written(doc, patch) ==
    [siscout  |-> doc.siscout,
     held     |-> IF patch.held = NoOne THEN doc.held ELSE patch.held,
     declared |-> IF patch.declared = NoOne THEN doc.declared ELSE patch.declared,
     version  |-> IF patch = [held |-> NoOne, declared |-> NoOne]
                    THEN doc.version ELSE doc.version + 1]

\* The document is gone, or its lists were set since it was loaded: save() throws.
Throws(c) ==
    LET doc == person[call[c].user] IN
    \/ doc = NoOne
    \/ /\ call[c].patch # [held |-> NoOne, declared |-> NoOne]
       /\ doc.version # call[c].version

SaveDocument(c) ==
    LET u     == call[c].user
        patch == call[c].patch
    IN  /\ person' = [person EXCEPT ![u] = Written(person[u], patch)]
        /\ given' = IF patch.declared = NoOne THEN given
                    ELSE [given EXCEPT ![u] = patch.declared]

\* Faulty variant: the saved person is not refreshed.
SaveOnly(c) ==
    /\ call[c].at = "save"
    /\ IF Throws(c) THEN UNCHANGED <<person, given>> ELSE SaveDocument(c)
    /\ CallGoes(c, NoCall)
    /\ UNCHANGED <<role, cache, task, blamed, edits>>

\* UsersService.update: the end of it, after its checks.
Save(c) ==
    /\ call[c].at = "save"
    /\ IF Throws(c) THEN CallGoes(c, NoCall) /\ UNCHANGED <<person, given, task>>
       ELSE SaveDocument(c) /\ Refresh(c, {call[c].user})
    /\ UNCHANGED <<role, cache, blamed, edits>>

BeginSave(c, u, patch) ==
    /\ person[u] # NoOne
    /\ call[c] = NoCall
    /\ Edited
    /\ CallGoes(c, [at |-> "save", user |-> u, patch |-> Difference(person[u], patch),
                    version |-> person[u].version])
    /\ UNCHANGED <<person, given, role, cache, task, blamed>>

\* UsersService.remove.
Remove(c, u) ==
    /\ call[c] = NoCall
    /\ person[u] # NoOne
    /\ Edited
    /\ person' = [person EXCEPT ![u] = NoOne]
    /\ CallGoes(c, [at |-> "invalidate", user |-> u])
    /\ UNCHANGED <<given, role, cache, task, blamed>>

Invalidate(c) ==
    LET u == call[c].user IN
    /\ call[c].at = "invalidate"
    /\ Delete(u) \/ RedisFails
    /\ CallGoes(c, NoCall)
    /\ UNCHANGED <<person, given, role, task, edits>>
    /\ Blame({u})

\* RolesService.update, with its save; then refreshByRole looks who holds it.
EditRole(c, r, grants) ==
    /\ call[c] = NoCall
    /\ role[r] # NoOne
    /\ Edited
    /\ role' = [role EXCEPT ![r] = grants]
    /\ CallGoes(c, [at |-> "holders", role |-> r])
    /\ UNCHANGED <<person, given, cache, task, blamed>>

\* RolesService.remove counts the holders first.
BeginDelete(c, r) ==
    /\ role[r] # NoOne
    /\ \A u \in Users : person[u] # NoOne => r \notin person[u].held
    /\ call[c] = NoCall
    /\ Edited
    /\ CallGoes(c, [at |-> "delete", role |-> r])
    /\ UNCHANGED <<person, given, role, cache, task, blamed>>

DeleteRole(c) ==
    /\ call[c].at = "delete"
    /\ role' = [role EXCEPT ![call[c].role] = NoOne]
    /\ CallGoes(c, [at |-> "holders", role |-> call[c].role])
    /\ UNCHANGED <<person, given, cache, task, blamed, edits>>

Holders(r) == {u \in Users : person[u] # NoOne /\ r \in person[u].held}

RefreshByRole(c) ==
    /\ call[c].at = "holders"
    /\ Refresh(c, Holders(call[c].role))
    /\ UNCHANGED <<person, given, role, cache, blamed, edits>>

\* reassignAndRemove: those who held the role hold the other once the
\* transaction commits, so that the refresh by role behind it finds nobody.
Reassign(c, r, s) ==
    /\ call[c] = NoCall
    /\ role[r] # NoOne /\ role[s] # NoOne /\ r # s
    /\ Edited
    /\ person' = [u \in Users |-> IF u \in Holders(r)
                    THEN [person[u] EXCEPT !.held = (@ \ {r}) \cup {s}] ELSE person[u]]
    /\ role' = [role EXCEPT ![r] = NoOne]
    /\ CallGoes(c, [at |-> "holders", role |-> r])
    /\ UNCHANGED <<given, cache, task>>
    /\ Blame(Holders(r))

\* The synchronization, and whoever else writes users past the cache.
WriteUser(u, b) ==
    /\ person[u] # NoOne
    /\ Edited
    /\ person' = [person EXCEPT ![u].siscout = b]
    /\ UNCHANGED <<given, role, cache, call, task>>
    /\ Blame({u})

\* A query throws, or the process restarts: what the call still owed is not done.
Owes(c, u) ==
    \/ task[c][u] # NoTask
    \/ call[c].at = "invalidate" /\ call[c].user = u
    \/ call[c].at = "holders" /\ u \in Holders(call[c].role)

Drop(c) ==
    /\ call[c] # NoCall
    /\ CallGoes(c, NoCall)
    /\ task' = [task EXCEPT ![c] = [u \in Users |-> NoTask]]
    /\ UNCHANGED <<person, given, role, cache, edits>>
    /\ Blame({u \in Users : Owes(c, u)})

----------------------------------------------------------------------------
Init ==
    /\ person \in FirstPeople
    /\ given = [u \in Users |-> IF person[u] = NoOne THEN {} ELSE person[u].declared]
    /\ role \in FirstRoles
    /\ cache = [u \in Users |-> NoOne]
    /\ call = [c \in Calls |-> NoCall]
    /\ task = [c \in Calls |-> [u \in Users |-> NoTask]]
    /\ blamed = {}
    /\ edits = 0

Arrives(c) ==
    \/ \E u \in Users : Read(c, u) \/ LogIn(c, u) \/ Remove(c, u)
    \/ \E u \in Users, b \in Branches : AskToLead(c, u, b)
    \/ \E u \in Users, patch \in PanelPatches : BeginSave(c, u, patch)
    \/ \E r \in RoleIds, grants \in Grants : EditRole(c, r, grants)
    \/ \E r \in RoleIds : BeginDelete(c, r)
    \/ \E r, s \in RoleIds : Reassign(c, r, s)

Continues(c) ==
    \/ LookUp(c) \/ Build(c) \/ Store(c) \/ Declare(c) \/ Save(c) \/ Invalidate(c)
    \/ DeleteRole(c) \/ RefreshByRole(c)
    \/ \E u \in Users : Has(c, u) \/ Rebuild(c, u) \/ UpdateEntry(c, u)

Next ==
    \/ \E c \in Calls : Arrives(c) \/ Continues(c) \/ Drop(c)
    \/ \E u \in Users : Expire(u)
    \/ \E u \in Users, b \in Branches \cup {NoBranch} : WriteUser(u, b)

\* A TTL runs out; nothing is asked of the requests.
Fairness == \A u \in Users : WF_vars(Expire(u))

Spec == Init /\ [][Next]_vars /\ Fairness

----------------------------------------------------------------------------
\* People, roles, entries, calls and tasks have their types.
TypeOK ==
    /\ person \in [Users -> Person \cup {NoOne}]
    /\ given \in [Users -> SUBSET Branches]
    /\ role \in [RoleIds -> Grants \cup {NoOne}]
    /\ cache \in [Users -> Entry \cup {NoOne}]
    /\ call \in [Calls -> CallStates]
    /\ task \in [Calls -> [Users -> TaskStates]]
    /\ blamed \subseteq Users
    /\ edits \in 0..MaxEdits

\* An entry that differs from what users and roles hold is about to be seen to
\* by an operation under way, or it has one of the named causes: the write came
\* past the cache (synchronization, reassignment), Redis or a query failed, or
\* a profile built before a change was stored after it.
StaleHasACause ==
    \A u \in Users : Stale(u) => u \in blamed \/ \E c \in Calls : Owes(c, u)

\* Two declarations at once both pass the guard, which reads the cache, also
\* when it shows a person from before an edit of the panel: all the same, the
\* branch titles of a person are the ones the panel gave last, or the panel gave
\* none and a single declaration took hold.  (The panel itself may give several:
\* nothing in update looks at their number.)
DeclaredOnceAtMost ==
    \A u \in Users : person[u] # NoOne =>
        \/ person[u].declared = given[u]
        \/ given[u] = {} /\ \E b \in Branches : person[u].declared = {b}

\* Whatever the cause, a stale entry does not stay: its TTL runs, and nothing
\* that refreshes it prolongs it.
StalenessEnds == \A u \in Users : Stale(u) ~> ~ Stale(u)
=============================================================================
