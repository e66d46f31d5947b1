---------------------------- MODULE CopiesProofs ----------------------------
(***************************************************************************)
(* What holds of the two copies the server decides by, for any number of   *)
(* people, roles, requests, settings and restarts: the profiles in Redis   *)
(* (Profiles) and, below, the settings in memory with the cron job made    *)
(* from them (Schedule).                                                   *)
(***************************************************************************)
EXTENDS Profiles, Schedule, TLAPS

\* Only a call that refreshes has tasks.
TasksAreRefreshes ==
    \A c \in Calls, u \in Users : task[c][u] # NoTask => call[c] = [at |-> "refresh"]

\* The entry of somebody who is gone is blamed on something, or about to be deleted.
GoneHasACause ==
    \A u \in Users : Stale(u) /\ person[u] = NoOne =>
        u \in blamed \/ \E c \in Calls : call[c].at = "invalidate" /\ call[c].user = u

CacheInv ==
    /\ TypeOK
    /\ TasksAreRefreshes
    /\ GoneHasACause
    /\ StaleHasACause

----------------------------------------------------------------------------
\* What a call carries at each of its steps.
LEMMA CallParts ==
    ASSUME NEW state \in CallStates
    PROVE  /\ state.at \in {"lookup", "build"} =>
                 /\ state.user \in Users
                 /\ state.branch \in Branches \cup {NoBranch}
           /\ state.at = "store" =>
                 /\ state.user \in Users
                 /\ state.branch \in Branches \cup {NoBranch}
                 /\ state.built \in Profile
           /\ state.at = "declare" => state.user \in Users /\ state.branch \in Branches
           /\ state.at = "save" =>
                 state.user \in Users /\ state.patch \in PanelPatch /\ state.version \in Nat
           /\ state.at = "invalidate" => state.user \in Users
           /\ state.at \in {"delete", "holders"} => state.role \in RoleIds
BY DEF CallStates, NoCall

\* The steps a call may be at.
LEMMA CallMakes ==
    /\ NoCall \in CallStates
    /\ [at |-> "refresh"] \in CallStates
    /\ \A u \in Users, b \in Branches \cup {NoBranch} :
          /\ [at |-> "lookup", user |-> u, branch |-> b] \in CallStates
          /\ [at |-> "build", user |-> u, branch |-> b] \in CallStates
    /\ \A u \in Users, b \in Branches \cup {NoBranch}, p \in Profile :
          [at |-> "store", user |-> u, branch |-> b, built |-> p] \in CallStates
    /\ \A u \in Users, b \in Branches : [at |-> "declare", user |-> u, branch |-> b] \in CallStates
    /\ \A u \in Users, e \in PanelPatch, n \in Nat :
          [at |-> "save", user |-> u, patch |-> e, version |-> n] \in CallStates
    /\ \A u \in Users : [at |-> "invalidate", user |-> u] \in CallStates
    /\ \A r \in RoleIds : /\ [at |-> "delete", role |-> r] \in CallStates
                          /\ [at |-> "holders", role |-> r] \in CallStates
BY DEF CallStates

\* A call that looked the profile up and did not find it goes on to build it.
LEMMA LookUpBuilds ==
    ASSUME NEW state \in CallStates, state.at = "lookup"
    PROVE  [state EXCEPT !.at = "build"] \in CallStates
           /\ [state EXCEPT !.at = "build"].at = "build"
BY DEF CallStates, NoCall

LEMMA TaskParts ==
    ASSUME NEW state \in TaskStates
    PROVE  /\ state.at = "update" => state.built \in Profile
           /\ state.at \in {"has", "rebuild", "update"} => state # NoTask
BY DEF TaskStates, NoTask

LEMMA TaskMakes ==
    /\ NoTask \in TaskStates
    /\ [at |-> "has"] \in TaskStates /\ [at |-> "has"] # NoTask
    /\ [at |-> "rebuild"] \in TaskStates /\ [at |-> "rebuild"] # NoTask
    /\ \A p \in Profile : /\ [at |-> "update", built |-> p] \in TaskStates
                          /\ [at |-> "update", built |-> p] # NoTask
BY DEF TaskStates, NoTask

\* The profile of a person who exists, from the roles that exist.
LEMMA ProfileType ==
    ASSUME TypeOK, NEW u \in Users
    PROVE  /\ person[u] # NoOne => ProfileNow(u) \in Profile /\ ProfileNow(u) # NoOne
           /\ person[u] = NoOne => ProfileNow(u) = NoOne
<1>1. ASSUME person[u] # NoOne PROVE ProfileNow(u) \in Profile
  <2> DEFINE S == {s \in person[u].held : role[s] # NoOne}
             shown == [r \in S |-> role[r]]
  <2>1. person[u] \in Person
    BY <1>1 DEF TypeOK
  <2>2. /\ person[u].siscout \in Branches \cup {NoBranch}
        /\ person[u].declared \in SUBSET Branches
        /\ person[u].held \in SUBSET RoleIds
    BY <2>1 DEF Person
  <2>3. \A r \in S : role[r] \in Grants
    BY <2>2 DEF TypeOK
  <2>4. shown \in [S -> Grants] /\ S \in SUBSET RoleIds
    BY <2>2, <2>3
  <2>5. shown \in UNION {[T -> Grants] : T \in SUBSET RoleIds}
    BY <2>4
  <2>6. ProfileNow(u) = [siscout |-> person[u].siscout, declared |-> person[u].declared,
                         roles |-> shown]
    BY <1>1, Zenon DEF ProfileNow
  <2> HIDE DEF shown
  <2> QED
    BY <2>2, <2>5, <2>6 DEF Profile
<1> QED
  BY <1>1, ProfilesAssumption DEF ProfileNow

\* A profile depends on the person and on the roles that person holds.
LEMMA ProfileKept ==
    ASSUME NEW u \in Users, person'[u] = person[u],
           person[u] # NoOne => \A r \in person[u].held : role'[r] = role[r]
    PROVE  ProfileNow(u)' = ProfileNow(u)
<1>1. CASE person[u] = NoOne
  BY <1>1 DEF ProfileNow
<1>2. CASE person[u] # NoOne
  <2>1. {s \in person'[u].held : role'[s] # NoOne} = {s \in person[u].held : role[s] # NoOne}
    BY <1>2
  <2>2. [r \in {s \in person'[u].held : role'[s] # NoOne} |-> role'[r]]
          = [r \in {s \in person[u].held : role[s] # NoOne} |-> role[r]]
    BY <1>2, <2>1
  <2> QED
    BY <1>2, <2>2, Zenon DEF ProfileNow
<1> QED
  BY <1>1, <1>2

\* An entry that nobody touches is as stale as it was while its profile stays.
LEMMA StaleKept ==
    ASSUME NEW u \in Users, cache'[u] = cache[u], ProfileNow(u)' = ProfileNow(u)
    PROVE  Stale(u)' <=> Stale(u)
BY DEF Stale

----------------------------------------------------------------------------
\* What a call becomes keeps the type of the calls.
LEMMA CallGoesType ==
    ASSUME call \in [Calls -> CallStates], NEW c \in Calls, NEW state \in CallStates,
           CallGoes(c, state)
    PROVE  /\ call' \in [Calls -> CallStates]
           /\ call'[c] = state
           /\ \A d \in Calls : d # c => call'[d] = call[d]
BY DEF CallGoes

\* What a refresh makes of the call and its tasks.
LEMMA RefreshEffect ==
    ASSUME TypeOK, NEW c \in Calls, NEW S \in SUBSET Users, Refresh(c, S)
    PROVE  /\ call' \in [Calls -> CallStates]
           /\ task' \in [Calls -> [Users -> TaskStates]]
           /\ \A d \in Calls : d # c => call'[d] = call[d] /\ task'[d] = task[d]
           /\ call'[c] \in {NoCall, [at |-> "refresh"]}
           /\ \A u \in Users : u \in S => task'[c][u] # NoTask
           /\ \A u \in Users : task'[c][u] # NoTask => call'[c] = [at |-> "refresh"]
<1>1. /\ call' \in [Calls -> CallStates]
      /\ call'[c] = IF S = {} THEN NoCall ELSE [at |-> "refresh"]
      /\ \A d \in Calls : d # c => call'[d] = call[d]
  BY CallMakes DEF TypeOK, Refresh
<1> DEFINE asked == [u \in Users |-> IF u \in S THEN [at |-> "has"] ELSE NoTask]
<1>2. asked \in [Users -> TaskStates]
  BY TaskMakes
<1>3. task' = [task EXCEPT ![c] = asked]
  BY DEF Refresh
<1>4. \A u \in Users : asked[u] = IF u \in S THEN [at |-> "has"] ELSE NoTask
  OBVIOUS
<1> HIDE DEF asked
<1>5. /\ task' \in [Calls -> [Users -> TaskStates]]
      /\ task'[c] = asked
      /\ \A d \in Calls : d # c => task'[d] = task[d]
  BY <1>2, <1>3 DEF TypeOK
<1> QED
  BY <1>1, <1>4, <1>5, TaskMakes

\* What a step of one task makes of the call and its tasks.
LEMMA TaskGoesEffect ==
    ASSUME TypeOK, TasksAreRefreshes, NEW c \in Calls, NEW u \in Users,
           task[c][u] # NoTask, NEW state \in TaskStates, TaskGoes(c, u, state)
    PROVE  /\ call' \in [Calls -> CallStates]
           /\ task' \in [Calls -> [Users -> TaskStates]]
           /\ \A d \in Calls : d # c => call'[d] = call[d] /\ task'[d] = task[d]
           /\ call[c] = [at |-> "refresh"]
           /\ call'[c] \in {NoCall, [at |-> "refresh"]}
           /\ task'[c][u] = state
           /\ \A v \in Users : v # u => task'[c][v] = task[c][v]
           /\ \A v \in Users : task'[c][v] # NoTask => call'[c] = [at |-> "refresh"]
<1> DEFINE rest == [task[c] EXCEPT ![u] = state]
<1>1. task[c] \in [Users -> TaskStates]
  BY DEF TypeOK
<1>2. rest \in [Users -> TaskStates] /\ rest[u] = state
      /\ \A v \in Users : v # u => rest[v] = task[c][v]
  BY <1>1
<1>3. /\ task' = [task EXCEPT ![c] = rest]
      /\ call' = [call EXCEPT ![c] = IF \A v \in Users : rest[v] = NoTask THEN NoCall ELSE call[c]]
  BY DEF TaskGoes
<1> HIDE DEF rest
<1>4. /\ task' \in [Calls -> [Users -> TaskStates]]
      /\ task'[c] = rest
      /\ \A d \in Calls : d # c => task'[d] = task[d]
  BY <1>2, <1>3 DEF TypeOK
<1>5. call[c] = [at |-> "refresh"]
  BY DEF TasksAreRefreshes
<1>6. /\ call' \in [Calls -> CallStates]
      /\ call'[c] = IF \A v \in Users : rest[v] = NoTask THEN NoCall ELSE [at |-> "refresh"]
      /\ \A d \in Calls : d # c => call'[d] = call[d]
  BY <1>3, <1>5, CallMakes DEF TypeOK
<1> QED
  BY <1>2, <1>4, <1>5, <1>6

\* Who joins the blamed.
LEMMA BlameEffect ==
    ASSUME blamed \subseteq Users, NEW S \in SUBSET Users, Blame(S)
    PROVE  /\ blamed' \subseteq Users
           /\ \A u \in Users : Stale(u)' /\ (u \in blamed \/ u \in S) => u \in blamed'
BY DEF Blame

----------------------------------------------------------------------------
\* A call goes on owing what it owed while it stays where it is and the person
\* holds the same roles.
LEMMA OwingKept ==
    ASSUME NEW d \in Calls, NEW u \in Users,
           call'[d] = call[d], task'[d] = task[d], Owes(d, u),
           person[u] # NoOne => person'[u] # NoOne /\ person'[u].held = person[u].held
    PROVE  Owes(d, u)'
BY DEF Owes, Holders

\* The tasks of the calls that stay where they are.
LEMMA TasksKept ==
    ASSUME TasksAreRefreshes, NEW c \in Calls,
           \A d \in Calls : d # c => call'[d] = call[d] /\ task'[d] = task[d],
           \A u \in Users : task'[c][u] # NoTask => call'[c] = [at |-> "refresh"]
    PROVE  TasksAreRefreshes'
BY DEF TasksAreRefreshes

\* A call that is not refreshing has no tasks.
LEMMA NoTasks ==
    ASSUME TasksAreRefreshes, NEW c \in Calls, call[c].at # "refresh"
    PROVE  \A u \in Users : task[c][u] = NoTask
<1>1. call[c] # [at |-> "refresh"]
  OBVIOUS
<1> QED
  BY <1>1 DEF TasksAreRefreshes

\* A call owes nothing at the steps that come before the one that changes anything.
LEMMA OwesNothing ==
    ASSUME TasksAreRefreshes, NEW c \in Calls, NEW u \in Users,
           call[c].at \notin {"refresh", "invalidate", "holders"}
    PROVE  ~ Owes(c, u)
BY NoTasks DEF Owes

\* A call that owes nothing about a person who is gone leaves whatever explains
\* that person's entry to the others.
Unconcerned(c, u) == Owes(c, u) => person[u] = NoOne /\ call[c].at # "invalidate"

\* The steps of one call keep the invariant when every entry that is stale after
\* them is blamed, or owed by the call, or was explained by somebody else before.
LEMMA StepKeeps ==
    ASSUME CacheInv, TypeOK', NEW c \in Calls,
           \A d \in Calls : d # c => call'[d] = call[d] /\ task'[d] = task[d],
           \A u \in Users : task'[c][u] # NoTask => call'[c] = [at |-> "refresh"],
           \A u \in Users : Stale(u)' =>
              \/ u \in blamed'
              \/ /\ Owes(c, u)'
                 /\ person'[u] = NoOne => call'[c].at = "invalidate" /\ call'[c].user = u
              \/ /\ Stale(u)
                 /\ u \in blamed => u \in blamed'
                 /\ Unconcerned(c, u)
                 /\ person[u] = NoOne <=> person'[u] = NoOne
                 /\ person[u] # NoOne => person'[u].held = person[u].held
    PROVE  CacheInv'
<1>1. TasksAreRefreshes'
  BY TasksKept DEF CacheInv
<1>2. ASSUME NEW u \in Users, Stale(u)', person'[u] = NoOne
      PROVE  u \in blamed' \/ \E d \in Calls : call'[d].at = "invalidate" /\ call'[d].user = u
  <2>1. CASE u \in blamed'
    BY <2>1
  <2>2. CASE call'[c].at = "invalidate" /\ call'[c].user = u
    BY <2>2
  <2>3. CASE /\ Stale(u)
             /\ u \in blamed => u \in blamed'
             /\ Unconcerned(c, u)
             /\ person[u] = NoOne
    <3>1. CASE u \in blamed
      BY <2>3, <3>1
    <3>2. CASE u \notin blamed
      <4>1. PICK d \in Calls : call[d].at = "invalidate" /\ call[d].user = u
        BY <2>3, <3>2 DEF CacheInv, GoneHasACause
      <4>2. d # c
        BY <2>3, <4>1 DEF Unconcerned, Owes
      <4> QED
        BY <4>1, <4>2
    <3> QED
      BY <3>1, <3>2
  <2> QED
    BY <1>2, <2>1, <2>2, <2>3
<1>3. ASSUME NEW u \in Users, Stale(u)'
      PROVE  u \in blamed' \/ \E d \in Calls : Owes(d, u)'
  <2>1. CASE u \in blamed' \/ Owes(c, u)'
    BY <2>1
  <2>2. CASE /\ Stale(u)
             /\ u \in blamed => u \in blamed'
             /\ Unconcerned(c, u)
             /\ person[u] = NoOne <=> person'[u] = NoOne
             /\ person[u] # NoOne => person'[u].held = person[u].held
    <3>1. CASE u \in blamed
      BY <2>2, <3>1
    <3>2. CASE person[u] = NoOne
      <4>1. CASE u \in blamed'
        BY <4>1
      <4>2. CASE u \notin blamed'
        <5>1. PICK d \in Calls : call'[d].at = "invalidate" /\ call'[d].user = u
          BY <1>2, <1>3, <2>2, <3>2, <4>2
        <5>2. Owes(d, u)'
          BY <5>1 DEF Owes
        <5> QED
          BY <5>2
      <4> QED
        BY <4>1, <4>2
    <3>3. CASE u \notin blamed /\ person[u] # NoOne
      <4>1. PICK d \in Calls : Owes(d, u)
        BY <2>2, <3>3 DEF CacheInv, StaleHasACause
      <4>2. d # c
        BY <2>2, <3>3, <4>1 DEF Unconcerned
      <4>3. Owes(d, u)'
        BY <2>2, <3>3, <4>1, <4>2, OwingKept
      <4> QED
        BY <4>3
    <3> QED
      BY <3>1, <3>2, <3>3
  <2> QED
    BY <1>3, <2>1, <2>2
<1>4. GoneHasACause'
  BY <1>2 DEF GoneHasACause
<1>5. StaleHasACause'
  BY <1>3 DEF StaleHasACause
<1> QED
  BY <1>1, <1>4, <1>5 DEF CacheInv

\* A step that touches one call only, which owed nothing that it does not owe after.
LEMMA CallStepKeeps ==
    ASSUME CacheInv, TypeOK', NEW c \in Calls,
           \A d \in Calls : d # c => call'[d] = call[d] /\ task'[d] = task[d],
           \A u \in Users : task'[c][u] # NoTask => call'[c] = [at |-> "refresh"],
           UNCHANGED <<person, role, cache, blamed>>,
           \A u \in Users : Unconcerned(c, u) \/ (Owes(c, u)' /\ person[u] # NoOne)
    PROVE  CacheInv'
<1>1. ASSUME NEW u \in Users PROVE Stale(u)' <=> Stale(u)
  BY DEF Stale, ProfileNow
<1> QED
  BY <1>1, StepKeeps

----------------------------------------------------------------------------
LEMMA InitCacheInv == Init => CacheInv
<1> SUFFICES ASSUME Init PROVE CacheInv
  OBVIOUS
<1>1. call \in [Calls -> CallStates] /\ task \in [Calls -> [Users -> TaskStates]]
  BY CallMakes, TaskMakes DEF Init
<1>2. TypeOK
  <2>1. edits \in 0..MaxEdits
    <3>1. MaxEdits \in Nat
      BY ProfilesAssumption, Zenon
    <3> QED
      BY <3>1 DEF Init
  <2>2. /\ person \in [Users -> Person \cup {NoOne}]
        /\ role \in [RoleIds -> Grants \cup {NoOne}]
    BY ProfilesAssumption DEF Init
  <2>3. \A u \in Users : person[u] # NoOne => person[u].declared \in SUBSET Branches
    BY <2>2 DEF Person
  <2>4. given \in [Users -> SUBSET Branches]
    BY <2>3 DEF Init
  <2> QED
    BY <1>1, <2>1, <2>2, <2>4 DEF Init, TypeOK
<1>3. \A u \in Users : ~ Stale(u)
  BY DEF Init, Stale
<1> QED
  BY <1>2, <1>3 DEF Init, CacheInv, TasksAreRefreshes, GoneHasACause, StaleHasACause

\* A request arrives and changes nothing yet.
LEMMA BeginKeeps ==
    ASSUME CacheInv, NEW c \in Calls, NEW state \in CallStates, Begin(c, state)
    PROVE  CacheInv'
<1>1. /\ call' \in [Calls -> CallStates]
      /\ \A d \in Calls : d # c => call'[d] = call[d]
  BY CallGoesType DEF CacheInv, TypeOK, Begin, CallGoes
<1>2. TypeOK'
  BY <1>1 DEF CacheInv, TypeOK, Begin
<1>3. call[c].at = "idle"
  BY DEF Begin, NoCall
<1>4. \A u \in Users : task'[c][u] = NoTask
  BY <1>3, NoTasks DEF CacheInv, Begin
<1>5. \A u \in Users : ~ Owes(c, u)
  BY <1>3, OwesNothing DEF CacheInv
<1> QED
  BY <1>1, <1>2, <1>4, <1>5, CallStepKeeps DEF Begin, Unconcerned

\* The same for the requests that count as a change to come.
LEMMA BeginSaveKeeps ==
    ASSUME CacheInv, NEW c \in Calls, NEW u \in Users, NEW e \in PanelPatches,
           BeginSave(c, u, e)
    PROVE  CacheInv'
<1>1. PICK old \in Person : old = person[u]
  BY DEF CacheInv, TypeOK, BeginSave
<1>2. e \in PanelPatch
  BY ProfilesAssumption
<1>3. Difference(old, e) \in PanelPatch /\ old.version \in Nat
  BY <1>2 DEF PanelPatch, Person, Difference
<1>4. PICK state \in CallStates :
          state = [at |-> "save", user |-> u, patch |-> Difference(old, e), version |-> old.version]
  BY <1>3, CallMakes
<1>5. /\ call' \in [Calls -> CallStates]
      /\ \A d \in Calls : d # c => call'[d] = call[d]
  BY <1>1, <1>4, CallGoesType DEF CacheInv, TypeOK, BeginSave
<1>6. TypeOK'
  BY <1>5, ProfilesAssumption DEF CacheInv, TypeOK, BeginSave, Edited
<1>7. call[c].at = "idle"
  BY DEF BeginSave, NoCall
<1>8. \A v \in Users : task'[c][v] = NoTask
  BY <1>7, NoTasks DEF CacheInv, BeginSave
<1>9. \A v \in Users : ~ Owes(c, v)
  BY <1>7, OwesNothing DEF CacheInv
<1> QED
  BY <1>5, <1>6, <1>8, <1>9, CallStepKeeps DEF BeginSave, Unconcerned

LEMMA BeginDeleteKeeps ==
    ASSUME CacheInv, NEW c \in Calls, NEW r \in RoleIds, BeginDelete(c, r)
    PROVE  CacheInv'
<1>1. /\ call' \in [Calls -> CallStates]
      /\ \A d \in Calls : d # c => call'[d] = call[d]
  BY CallGoesType, CallMakes DEF CacheInv, TypeOK, BeginDelete
<1>2. TypeOK'
  BY <1>1, ProfilesAssumption DEF CacheInv, TypeOK, BeginDelete, Edited
<1>3. call[c].at = "idle"
  BY DEF BeginDelete, NoCall
<1>4. \A v \in Users : task'[c][v] = NoTask
  BY <1>3, NoTasks DEF CacheInv, BeginDelete
<1>5. \A v \in Users : ~ Owes(c, v)
  BY <1>3, OwesNothing DEF CacheInv
<1> QED
  BY <1>1, <1>2, <1>4, <1>5, CallStepKeeps DEF BeginDelete, Unconcerned

----------------------------------------------------------------------------
\* What the caller does with the profile it got is a step of the calls.
LEMMA DecideEffect ==
    ASSUME TypeOK, NEW c \in Calls, NEW u \in Users, NEW b \in Branches \cup {NoBranch},
           NEW p, Decide(c, u, b, p)
    PROVE  /\ call' \in [Calls -> CallStates]
           /\ \A d \in Calls : d # c => call'[d] = call[d]
<1> DEFINE next == IF b # NoBranch /\ LeadershipRequired(p)
                   THEN [at |-> "declare", user |-> u, branch |-> b] ELSE NoCall
<1>1. next \in CallStates
  BY CallMakes
<1>2. CallGoes(c, next)
  BY DEF Decide
<1> HIDE DEF next
<1> QED
  BY <1>1, <1>2, CallGoesType DEF TypeOK

LEMMA LookUpKeeps ==
    ASSUME CacheInv, NEW c \in Calls, LookUp(c)
    PROVE  CacheInv'
<1>1. call[c] \in CallStates /\ call[c].at = "lookup"
  BY DEF CacheInv, TypeOK, LookUp
<1>2. call[c].user \in Users /\ call[c].branch \in Branches \cup {NoBranch}
  BY <1>1, CallParts
<1>3. /\ call' \in [Calls -> CallStates]
      /\ \A d \in Calls : d # c => call'[d] = call[d]
  <2>1. CASE Decide(c, call[c].user, call[c].branch, cache[call[c].user].profile)
    BY <1>2, <2>1, DecideEffect DEF CacheInv
  <2>2. CASE CallGoes(c, [call[c] EXCEPT !.at = "build"])
    BY <1>1, <2>2, LookUpBuilds, CallGoesType DEF CacheInv, TypeOK
  <2> QED
    BY <2>1, <2>2 DEF LookUp
<1>4. TypeOK'
  BY <1>3 DEF CacheInv, TypeOK, LookUp
<1>5. \A v \in Users : task'[c][v] = NoTask
  BY <1>1, NoTasks DEF CacheInv, LookUp
<1>6. \A v \in Users : ~ Owes(c, v)
  BY <1>1, OwesNothing DEF CacheInv
<1> QED
  BY <1>3, <1>4, <1>5, <1>6, CallStepKeeps DEF LookUp, Unconcerned

LEMMA BuildKeeps ==
    ASSUME CacheInv, NEW c \in Calls, Build(c)
    PROVE  CacheInv'
<1>1. call[c] \in CallStates /\ call[c].at = "build"
  BY DEF CacheInv, TypeOK, Build
<1>2. call[c].user \in Users /\ call[c].branch \in Branches \cup {NoBranch}
  BY <1>1, CallParts
<1>3. PICK u \in Users : u = call[c].user
  BY <1>2
<1> DEFINE next == IF ProfileNow(u) = NoOne THEN NoCall
                   ELSE [at |-> "store", user |-> u, branch |-> call[c].branch,
                         built |-> ProfileNow(u)]
<1>4. next \in CallStates
  BY <1>2, CallMakes, ProfileType DEF CacheInv
<1>5. CallGoes(c, next)
  BY <1>3 DEF Build
<1> HIDE DEF next
<1>6. /\ call' \in [Calls -> CallStates]
      /\ \A d \in Calls : d # c => call'[d] = call[d]
  BY <1>4, <1>5, CallGoesType DEF CacheInv, TypeOK
<1>7. TypeOK'
  BY <1>6 DEF CacheInv, TypeOK, Build
<1>8. \A v \in Users : task'[c][v] = NoTask
  BY <1>1, NoTasks DEF CacheInv, Build
<1>9. \A v \in Users : ~ Owes(c, v)
  BY <1>1, OwesNothing DEF CacheInv
<1> QED
  BY <1>6, <1>7, <1>8, <1>9, CallStepKeeps DEF Build, Unconcerned

----------------------------------------------------------------------------
\* What the Redis commands do to the entries.
LEMMA SetEffect ==
    ASSUME TypeOK, NEW u \in Users, NEW p \in Profile, SetWithTtl(u, p)
    PROVE  /\ cache' \in [Users -> Entry \cup {NoOne}]
           /\ \A v \in Users : v # u => cache'[v] = cache[v]
<1>1. [profile |-> p, expires |-> TRUE] \in Entry
  BY DEF Entry
<1> QED
  BY <1>1 DEF TypeOK, SetWithTtl

LEMMA UpdateExistingEffect ==
    ASSUME TypeOK, NEW u \in Users, NEW p \in Profile, UpdateExisting(u, p)
    PROVE  /\ cache' \in [Users -> Entry \cup {NoOne}]
           /\ \A v \in Users : v # u => cache'[v] = cache[v]
<1>1. CASE cache[u] = NoOne
  BY <1>1 DEF TypeOK, UpdateExisting
<1>2. CASE cache[u] # NoOne
  <2>1. cache[u] \in Entry
    BY <1>2 DEF TypeOK
  <2>2. PICK old \in Entry : old = cache[u]
    BY <2>1
  <2> DEFINE next == [old EXCEPT !.profile = p]
  <2>3. next \in Entry
    BY DEF Entry
  <2>4. cache' = [cache EXCEPT ![u] = next]
    BY <1>2, <2>2 DEF UpdateExisting
  <2> HIDE DEF next
  <2> QED
    BY <2>3, <2>4 DEF TypeOK
<1> QED
  BY <1>1, <1>2

LEMMA DeleteEffect ==
    ASSUME TypeOK, NEW u \in Users, Delete(u)
    PROVE  /\ cache' \in [Users -> Entry \cup {NoOne}]
           /\ cache'[u] = NoOne
           /\ \A v \in Users : v # u => cache'[v] = cache[v]
BY DEF TypeOK, Delete

\* A step of a call that writes one entry, and blames it, keeps the invariant
\* when the call goes on owing the other people what it owed them.
LEMMA EntryStepKeeps ==
    ASSUME CacheInv, TypeOK', NEW c \in Calls, NEW u \in Users,
           \A d \in Calls : d # c => call'[d] = call[d] /\ task'[d] = task[d],
           \A v \in Users : task'[c][v] # NoTask => call'[c] = [at |-> "refresh"],
           UNCHANGED <<person, role>>,
           \A v \in Users : v # u => cache'[v] = cache[v],
           Blame({u}),
           \A v \in Users : v # u => Unconcerned(c, v) \/ (Owes(c, v)' /\ person[v] # NoOne)
    PROVE  CacheInv'
<1>1. \A v \in Users : Stale(v)' /\ (v \in blamed \/ v = u) => v \in blamed'
  BY BlameEffect DEF CacheInv, TypeOK
<1>2. \A v \in Users : v # u => (Stale(v)' <=> Stale(v))
  BY DEF Stale, ProfileNow
<1> QED
  BY <1>1, <1>2, StepKeeps

LEMMA StoreKeeps ==
    ASSUME CacheInv, NEW c \in Calls, Store(c)
    PROVE  CacheInv'
<1>1. call[c] \in CallStates /\ call[c].at = "store"
  BY DEF CacheInv, TypeOK, Store
<1>2. /\ call[c].user \in Users
      /\ call[c].branch \in Branches \cup {NoBranch}
      /\ call[c].built \in Profile
  BY <1>1, CallParts
<1>3. PICK u \in Users : u = call[c].user
  BY <1>2
<1>4. PICK p \in Profile : p = call[c].built
  BY <1>2
<1>5. /\ cache' \in [Users -> Entry \cup {NoOne}]
      /\ \A v \in Users : v # u => cache'[v] = cache[v]
  <2>1. SetWithTtl(u, p) \/ UNCHANGED cache
    BY <1>3, <1>4 DEF Store, RedisFails
  <2> QED
    BY <2>1, SetEffect DEF CacheInv, TypeOK
<1>6. /\ call' \in [Calls -> CallStates]
      /\ \A d \in Calls : d # c => call'[d] = call[d]
  BY <1>2, <1>3, DecideEffect DEF CacheInv, Store
<1>7. Blame({u})
  BY <1>3 DEF Store
<1>8. blamed' \subseteq Users
  BY <1>7, BlameEffect DEF CacheInv, TypeOK
<1>9. TypeOK'
  BY <1>5, <1>6, <1>8 DEF CacheInv, TypeOK, Store
<1>10. \A v \in Users : task'[c][v] = NoTask
  BY <1>1, NoTasks DEF CacheInv, Store
<1>11. \A v \in Users : ~ Owes(c, v)
  BY <1>1, OwesNothing DEF CacheInv
<1> QED
  BY <1>5, <1>6, <1>7, <1>9, <1>10, <1>11, EntryStepKeeps DEF Store, Unconcerned

LEMMA InvalidateKeeps ==
    ASSUME CacheInv, NEW c \in Calls, Invalidate(c)
    PROVE  CacheInv'
<1>1. call[c] \in CallStates /\ call[c].at = "invalidate"
  BY DEF CacheInv, TypeOK, Invalidate
<1>2. PICK u \in Users : u = call[c].user
  BY <1>1, CallParts
<1>3. /\ cache' \in [Users -> Entry \cup {NoOne}]
      /\ \A v \in Users : v # u => cache'[v] = cache[v]
  BY <1>2, DeleteEffect DEF CacheInv, TypeOK, Invalidate, RedisFails
<1>4. /\ call' \in [Calls -> CallStates]
      /\ \A d \in Calls : d # c => call'[d] = call[d]
  BY CallMakes, CallGoesType DEF CacheInv, TypeOK, Invalidate
<1>5. Blame({u})
  BY <1>2 DEF Invalidate
<1>6. blamed' \subseteq Users
  BY <1>5, BlameEffect DEF CacheInv, TypeOK
<1>7. TypeOK'
  BY <1>3, <1>4, <1>6 DEF CacheInv, TypeOK, Invalidate
<1>8. \A v \in Users : task[c][v] = NoTask /\ task'[c][v] = NoTask
  BY <1>1, NoTasks DEF CacheInv, Invalidate
<1>9. \A v \in Users : v # u => ~ Owes(c, v)
  BY <1>1, <1>2, <1>8 DEF Owes
<1> QED
  BY <1>3, <1>4, <1>5, <1>7, <1>8, <1>9, EntryStepKeeps DEF Invalidate, Unconcerned

----------------------------------------------------------------------------
(* A refresh, person by person.                                            *)

LEMMA HasKeeps ==
    ASSUME CacheInv, NEW c \in Calls, NEW u \in Users, Has(c, u)
    PROVE  CacheInv'
<1>1. task[c][u] \in TaskStates /\ task[c][u].at = "has"
  BY DEF CacheInv, TypeOK, Has
<1>2. task[c][u] # NoTask
  BY <1>1, TaskParts
<1>3. CASE cache[u] # NoOne /\ TaskGoes(c, u, [at |-> "rebuild"]) /\ UNCHANGED blamed
  <2>1. PICK state \in TaskStates : state = [at |-> "rebuild"]
    BY TaskMakes
  <2>2. state # NoTask
    BY <2>1, TaskMakes
  <2>3. /\ call' \in [Calls -> CallStates]
        /\ task' \in [Calls -> [Users -> TaskStates]]
        /\ \A d \in Calls : d # c => call'[d] = call[d] /\ task'[d] = task[d]
        /\ call[c] = [at |-> "refresh"]
        /\ task'[c][u] = state
        /\ \A v \in Users : v # u => task'[c][v] = task[c][v]
        /\ \A v \in Users : task'[c][v] # NoTask => call'[c] = [at |-> "refresh"]
    BY <1>2, <1>3, <2>1, TaskGoesEffect DEF CacheInv
  <2>4. TypeOK'
    BY <1>3, <2>3 DEF CacheInv, TypeOK, Has
  <2>5. \A v \in Users : Owes(c, v) => Owes(c, v)'
    BY <2>2, <2>3 DEF Owes
  <2>6. \A v \in Users : Unconcerned(c, v) \/ (Owes(c, v)' /\ person[v] # NoOne)
    BY <2>3, <2>5 DEF Unconcerned
  <2> QED
    BY <1>3, <2>3, <2>4, <2>6, CallStepKeeps DEF Has
<1>4. CASE TaskGoes(c, u, NoTask) /\ ((cache[u] = NoOne /\ UNCHANGED blamed) \/ Blame({u}))
  <2>1. /\ call' \in [Calls -> CallStates]
        /\ task' \in [Calls -> [Users -> TaskStates]]
        /\ \A d \in Calls : d # c => call'[d] = call[d] /\ task'[d] = task[d]
        /\ call[c] = [at |-> "refresh"]
        /\ \A v \in Users : v # u => task'[c][v] = task[c][v]
        /\ \A v \in Users : task'[c][v] # NoTask => call'[c] = [at |-> "refresh"]
    BY <1>2, <1>4, TaskGoesEffect, TaskMakes DEF CacheInv
  <2>2. \A v \in Users : Stale(v)' <=> Stale(v)
    BY DEF Has, Stale, ProfileNow
  <2>3. /\ blamed' \subseteq Users
        /\ \A v \in Users : Stale(v)' /\ (v \in blamed \/ v = u) => v \in blamed'
    BY <1>4, <2>2, BlameEffect DEF CacheInv, TypeOK, Stale
  <2>4. TypeOK'
    BY <2>1, <2>3 DEF CacheInv, TypeOK, Has
  <2>5. \A v \in Users : v # u => Unconcerned(c, v) \/ (Owes(c, v)' /\ person[v] # NoOne)
    BY <2>1 DEF Owes, Unconcerned
  <2>6. UNCHANGED <<person, role, cache>>
    BY DEF Has
  <2> QED
    BY <2>1, <2>2, <2>3, <2>4, <2>5, <2>6, StepKeeps
<1> QED
  BY <1>3, <1>4 DEF Has

LEMMA RebuildKeeps ==
    ASSUME CacheInv, NEW c \in Calls, NEW u \in Users, Rebuild(c, u)
    PROVE  CacheInv'
<1>1. task[c][u] \in TaskStates /\ task[c][u].at = "rebuild"
  BY DEF CacheInv, TypeOK, Rebuild
<1>2. task[c][u] # NoTask
  BY <1>1, TaskParts
<1> DEFINE next == IF ProfileNow(u) = NoOne THEN NoTask
                   ELSE [at |-> "update", built |-> ProfileNow(u)]
<1>3. next \in TaskStates /\ (next = NoTask => person[u] = NoOne)
  BY TaskMakes, ProfileType DEF CacheInv
<1>4. PICK state \in TaskStates : state = next
  BY <1>3
<1>5. TaskGoes(c, u, next)
  BY DEF Rebuild
<1> HIDE DEF next
<1>6. TaskGoes(c, u, state)
  BY <1>4, <1>5
<1>7. /\ call' \in [Calls -> CallStates]
      /\ task' \in [Calls -> [Users -> TaskStates]]
      /\ \A d \in Calls : d # c => call'[d] = call[d] /\ task'[d] = task[d]
      /\ call[c] = [at |-> "refresh"]
      /\ task'[c][u] = state
      /\ \A v \in Users : v # u => task'[c][v] = task[c][v]
      /\ \A v \in Users : task'[c][v] # NoTask => call'[c] = [at |-> "refresh"]
  BY <1>2, <1>6, TaskGoesEffect DEF CacheInv
<1>8. TypeOK'
  BY <1>7 DEF CacheInv, TypeOK, Rebuild
<1>9. \A v \in Users : Unconcerned(c, v) \/ (Owes(c, v)' /\ person[v] # NoOne)
  BY <1>3, <1>4, <1>7 DEF Owes, Unconcerned
<1> QED
  BY <1>7, <1>8, <1>9, CallStepKeeps DEF Rebuild

LEMMA UpdateEntryKeeps ==
    ASSUME CacheInv, NEW c \in Calls, NEW u \in Users, UpdateEntry(c, u)
    PROVE  CacheInv'
<1>1. task[c][u] \in TaskStates /\ task[c][u].at = "update"
  BY DEF CacheInv, TypeOK, UpdateEntry
<1>2. task[c][u] # NoTask /\ task[c][u].built \in Profile
  BY <1>1, TaskParts
<1>3. PICK p \in Profile : p = task[c][u].built
  BY <1>2
<1>4. /\ cache' \in [Users -> Entry \cup {NoOne}]
      /\ \A v \in Users : v # u => cache'[v] = cache[v]
  <2>1. UpdateExisting(u, p) \/ UNCHANGED cache
    BY <1>3 DEF UpdateEntry, RedisFails
  <2> QED
    BY <2>1, UpdateExistingEffect DEF CacheInv, TypeOK
<1>5. /\ call' \in [Calls -> CallStates]
      /\ task' \in [Calls -> [Users -> TaskStates]]
      /\ \A d \in Calls : d # c => call'[d] = call[d] /\ task'[d] = task[d]
      /\ call[c] = [at |-> "refresh"]
      /\ \A v \in Users : v # u => task'[c][v] = task[c][v]
      /\ \A v \in Users : task'[c][v] # NoTask => call'[c] = [at |-> "refresh"]
  BY <1>2, TaskGoesEffect, TaskMakes DEF CacheInv, UpdateEntry
<1>6. blamed' \subseteq Users
  BY BlameEffect DEF CacheInv, TypeOK, UpdateEntry
<1>7. TypeOK'
  BY <1>4, <1>5, <1>6 DEF CacheInv, TypeOK, UpdateEntry
<1>8. \A v \in Users : v # u => Unconcerned(c, v) \/ (Owes(c, v)' /\ person[v] # NoOne)
  BY <1>5 DEF Owes, Unconcerned
<1> QED
  BY <1>4, <1>5, <1>7, <1>8, EntryStepKeeps DEF UpdateEntry

----------------------------------------------------------------------------
(* The writes to users and roles.                                          *)

\* What the write of one person leaves of the others.
LEMMA PersonWrites ==
    ASSUME person \in [Users -> Person \cup {NoOne}], NEW u \in Users, NEW D \in Person,
           person' = [person EXCEPT ![u] = D]
    PROVE  /\ person' \in [Users -> Person \cup {NoOne}]
           /\ person'[u] = D /\ D # NoOne
           /\ \A v \in Users : v # u => person'[v] = person[v]
BY ProfilesAssumption

\* What a declaration and a patch make of a person.
LEMMA WrittenType ==
    ASSUME NEW old \in Person
    PROVE  /\ \A B \in SUBSET Branches : /\ [old EXCEPT !.declared = B] \in Person
                                         /\ [old EXCEPT !.declared = B].declared = B
           /\ \A e \in PanelPatch :
                 /\ Written(old, e) \in Person
                 /\ e.declared = NoOne => Written(old, e).declared = old.declared
                 /\ e.declared # NoOne => /\ e.declared \in SUBSET Branches
                                          /\ Written(old, e).declared = e.declared
<1>1. ASSUME NEW e \in PanelPatch
      PROVE  /\ Written(old, e) \in Person
             /\ e.declared = NoOne => Written(old, e).declared = old.declared
             /\ e.declared # NoOne => /\ e.declared \in SUBSET Branches
                                      /\ Written(old, e).declared = e.declared
  <2>1. PICK h : h = IF e.held = NoOne THEN old.held ELSE e.held
    OBVIOUS
  <2>2. PICK d : d = IF e.declared = NoOne THEN old.declared ELSE e.declared
    OBVIOUS
  <2>3. PICK n : n = IF e = [held |-> NoOne, declared |-> NoOne] THEN old.version
                                                              ELSE old.version + 1
    OBVIOUS
  <2>4. Written(old, e) = [siscout |-> old.siscout, held |-> h, declared |-> d, version |-> n]
    BY <2>1, <2>2, <2>3, Zenon DEF Written
  <2>5. h \in SUBSET RoleIds /\ d \in SUBSET Branches /\ n \in Nat
    BY <2>1, <2>2, <2>3 DEF Person, PanelPatch
  <2>6. e.declared \in {NoOne} \cup SUBSET Branches
    BY DEF PanelPatch
  <2> QED
    BY <2>2, <2>4, <2>5, <2>6 DEF Person
<1> QED
  BY <1>1 DEF Person

\* One person is written and refreshed.
LEMMA WriteAndRefreshKeeps ==
    ASSUME CacheInv, NEW c \in Calls, NEW u \in Users,
           call[c].at \notin {"refresh", "invalidate", "holders"},
           person' \in [Users -> Person \cup {NoOne}], person'[u] # NoOne,
           given' \in [Users -> SUBSET Branches],
           \A v \in Users : v # u => person'[v] = person[v],
           Refresh(c, {u}), UNCHANGED <<role, cache, blamed, edits>>
    PROVE  CacheInv'
<1>1. /\ call' \in [Calls -> CallStates]
      /\ task' \in [Calls -> [Users -> TaskStates]]
      /\ \A d \in Calls : d # c => call'[d] = call[d] /\ task'[d] = task[d]
      /\ task'[c][u] # NoTask
      /\ \A v \in Users : task'[c][v] # NoTask => call'[c] = [at |-> "refresh"]
  BY RefreshEffect DEF CacheInv
<1>2. TypeOK'
  BY <1>1 DEF CacheInv, TypeOK
<1>3. \A v \in Users : ~ Owes(c, v)
  BY OwesNothing DEF CacheInv
<1>4. Owes(c, u)'
  BY <1>1 DEF Owes
<1>5. \A v \in Users : v # u => (Stale(v)' <=> Stale(v))
  BY DEF Stale, ProfileNow
<1> QED
  BY <1>1, <1>2, <1>3, <1>4, <1>5, StepKeeps DEF Unconcerned

\* A call ends with nothing done, having owed nothing.
LEMMA GiveUpKeeps ==
    ASSUME CacheInv, NEW c \in Calls,
           call[c].at \notin {"refresh", "invalidate", "holders"},
           CallGoes(c, NoCall), UNCHANGED <<person, given, role, cache, task, blamed, edits>>
    PROVE  CacheInv'
<1>1. /\ call' \in [Calls -> CallStates]
      /\ \A d \in Calls : d # c => call'[d] = call[d]
  BY CallMakes, CallGoesType DEF CacheInv, TypeOK
<1>2. TypeOK'
  BY <1>1 DEF CacheInv, TypeOK
<1>3. \A v \in Users : task'[c][v] = NoTask /\ Unconcerned(c, v)
  BY NoTasks, OwesNothing DEF CacheInv, Unconcerned
<1> QED
  BY <1>1, <1>2, <1>3, CallStepKeeps

LEMMA DeclareKeeps ==
    ASSUME CacheInv, NEW c \in Calls, Declare(c)
    PROVE  CacheInv'
<1>1. call[c] \in CallStates /\ call[c].at = "declare"
  BY DEF CacheInv, TypeOK, Declare
<1>2. call[c].user \in Users /\ call[c].branch \in Branches
  BY <1>1, CallParts
<1>3. PICK u \in Users : u = call[c].user
  BY <1>2
<1>4. CASE person[u] # NoOne /\ person[u].declared = {}
  <2>1. PICK B \in SUBSET Branches : B = {call[c].branch}
    BY <1>2
  <2>2. PICK old \in Person : old = person[u]
    BY <1>4 DEF CacheInv, TypeOK
  <2>3. PICK D \in Person : D = [old EXCEPT !.declared = B]
    BY WrittenType
  <2>4. person' = [person EXCEPT ![u] = D]
    BY <1>3, <1>4, <2>1, <2>2, <2>3 DEF Declare
  <2>5. /\ person' \in [Users -> Person \cup {NoOne}]
        /\ person'[u] # NoOne
        /\ \A v \in Users : v # u => person'[v] = person[v]
    BY <2>4, PersonWrites DEF CacheInv, TypeOK
  <2>6. given' \in [Users -> SUBSET Branches]
    BY DEF CacheInv, TypeOK, Declare
  <2> QED
    BY <1>1, <1>3, <1>4, <2>5, <2>6, WriteAndRefreshKeeps DEF Declare
<1>5. CASE ~ (person[u] # NoOne /\ person[u].declared = {})
  <2>1. CallGoes(c, NoCall) /\ UNCHANGED <<person, given, role, cache, task, blamed, edits>>
    BY <1>3, <1>5 DEF Declare
  <2> QED
    BY <1>1, <2>1, GiveUpKeeps
<1> QED
  BY <1>4, <1>5

LEMMA SaveKeeps ==
    ASSUME CacheInv, NEW c \in Calls, Save(c)
    PROVE  CacheInv'
<1>1. call[c] \in CallStates /\ call[c].at = "save"
  BY DEF CacheInv, TypeOK, Save
<1>2. call[c].user \in Users /\ call[c].patch \in PanelPatch
  BY <1>1, CallParts
<1>3. PICK u \in Users : u = call[c].user
  BY <1>2
<1>4. CASE ~ Throws(c)
  <2>1. PICK e \in PanelPatch : e = call[c].patch
    BY <1>2
  <2>2. PICK old \in Person : old = person[u]
    BY <1>3, <1>4 DEF CacheInv, TypeOK, Throws
  <2>3. PICK D \in Person : D = Written(old, e)
    BY WrittenType
  <2>4. person' = [person EXCEPT ![u] = D]
    BY <1>3, <1>4, <2>1, <2>2, <2>3 DEF Save, SaveDocument
  <2>5. /\ person' \in [Users -> Person \cup {NoOne}]
        /\ person'[u] # NoOne
        /\ \A v \in Users : v # u => person'[v] = person[v]
    BY <2>4, PersonWrites DEF CacheInv, TypeOK
  <2>6. given' = IF e.declared = NoOne THEN given ELSE [given EXCEPT ![u] = e.declared]
    BY <1>3, <1>4, <2>1 DEF Save, SaveDocument
  <2>7. given' \in [Users -> SUBSET Branches]
    BY <2>2, <2>6, WrittenType DEF CacheInv, TypeOK
  <2>8. Refresh(c, {u}) /\ UNCHANGED <<role, cache, blamed, edits>>
    BY <1>3, <1>4 DEF Save
  <2> QED
    BY <1>1, <2>5, <2>7, <2>8, WriteAndRefreshKeeps
<1>5. CASE Throws(c)
  <2>1. CallGoes(c, NoCall) /\ UNCHANGED <<person, given, role, cache, task, blamed, edits>>
    BY <1>5 DEF Save
  <2> QED
    BY <1>1, <2>1, GiveUpKeeps
<1> QED
  BY <1>4, <1>5

LEMMA RemoveKeeps ==
    ASSUME CacheInv, NEW c \in Calls, NEW u \in Users, Remove(c, u)
    PROVE  CacheInv'
<1>1. PICK state \in CallStates : state = [at |-> "invalidate", user |-> u]
  BY CallMakes
<1>2. /\ call' \in [Calls -> CallStates]
      /\ call'[c] = state
      /\ \A d \in Calls : d # c => call'[d] = call[d]
  BY <1>1, CallGoesType DEF CacheInv, TypeOK, Remove
<1>3. /\ person' \in [Users -> Person \cup {NoOne}]
      /\ person'[u] = NoOne
      /\ \A v \in Users : v # u => person'[v] = person[v]
  BY DEF CacheInv, TypeOK, Remove
<1>4. TypeOK'
  BY <1>2, <1>3, ProfilesAssumption DEF CacheInv, TypeOK, Remove, Edited
<1>5. call[c].at = "idle"
  BY DEF Remove, NoCall
<1>6. \A v \in Users : task'[c][v] = NoTask /\ ~ Owes(c, v)
  BY <1>5, NoTasks, OwesNothing DEF CacheInv, Remove
<1>7. \A v \in Users : v # u => (Stale(v)' <=> Stale(v))
  BY <1>3 DEF Remove, Stale, ProfileNow
<1>8. call'[c].at = "invalidate" /\ call'[c].user = u /\ Owes(c, u)'
  BY <1>1, <1>2 DEF Owes
<1>9. UNCHANGED <<task, blamed>>
  BY DEF Remove
<1> QED
  BY <1>2, <1>3, <1>4, <1>6, <1>7, <1>8, <1>9, StepKeeps DEF Unconcerned

----------------------------------------------------------------------------
\* A role changes or goes away: the call that does it goes on to its holders.
LEMMA RoleStepKeeps ==
    ASSUME CacheInv, NEW c \in Calls, NEW r \in RoleIds,
           call[c].at \notin {"refresh", "invalidate", "holders"},
           role' \in [RoleIds -> Grants \cup {NoOne}],
           \A s \in RoleIds : s # r => role'[s] = role[s],
           CallGoes(c, [at |-> "holders", role |-> r]),
           UNCHANGED <<person, given, cache, task, blamed>>, edits' \in 0..MaxEdits
    PROVE  CacheInv'
<1>1. PICK state \in CallStates : state = [at |-> "holders", role |-> r]
  BY CallMakes
<1>2. /\ call' \in [Calls -> CallStates]
      /\ call'[c] = state
      /\ \A d \in Calls : d # c => call'[d] = call[d]
  BY <1>1, CallGoesType DEF CacheInv, TypeOK
<1>3. TypeOK'
  BY <1>2 DEF CacheInv, TypeOK
<1>4. \A v \in Users : task'[c][v] = NoTask /\ ~ Owes(c, v)
  BY NoTasks, OwesNothing DEF CacheInv
<1>5. ASSUME NEW v \in Users, v \in Holders(r) PROVE Owes(c, v)' /\ person'[v] # NoOne
  BY <1>1, <1>2, <1>5 DEF Owes, Holders
<1>6. ASSUME NEW v \in Users, v \notin Holders(r) PROVE Stale(v)' <=> Stale(v)
  <2>1. person[v] # NoOne => person[v].held \in SUBSET RoleIds
    BY DEF CacheInv, TypeOK, Person
  <2>2. person[v] # NoOne => \A s \in person[v].held : role'[s] = role[s]
    BY <1>6, <2>1 DEF Holders
  <2>3. ProfileNow(v)' = ProfileNow(v)
    BY <2>2, ProfileKept
  <2> QED
    BY <2>3, StaleKept
<1> QED
  BY <1>2, <1>3, <1>4, <1>5, <1>6, StepKeeps DEF Unconcerned

LEMMA EditRoleKeeps ==
    ASSUME CacheInv, NEW c \in Calls, NEW r \in RoleIds, NEW g \in Grants, EditRole(c, r, g)
    PROVE  CacheInv'
<1>1. call[c].at = "idle"
  BY DEF EditRole, NoCall
<1>2. /\ role' \in [RoleIds -> Grants \cup {NoOne}]
      /\ \A s \in RoleIds : s # r => role'[s] = role[s]
  BY DEF CacheInv, TypeOK, EditRole
<1>3. edits' \in 0..MaxEdits
  BY ProfilesAssumption DEF CacheInv, TypeOK, EditRole, Edited
<1> QED
  BY <1>1, <1>2, <1>3, RoleStepKeeps DEF EditRole

LEMMA DeleteRoleKeeps ==
    ASSUME CacheInv, NEW c \in Calls, DeleteRole(c)
    PROVE  CacheInv'
<1>1. call[c] \in CallStates /\ call[c].at = "delete"
  BY DEF CacheInv, TypeOK, DeleteRole
<1>2. PICK r \in RoleIds : r = call[c].role
  BY <1>1, CallParts
<1>3. /\ role' \in [RoleIds -> Grants \cup {NoOne}]
      /\ \A s \in RoleIds : s # r => role'[s] = role[s]
  BY <1>2 DEF CacheInv, TypeOK, DeleteRole
<1>4. edits' \in 0..MaxEdits
  BY DEF CacheInv, TypeOK, DeleteRole
<1> QED
  BY <1>1, <1>2, <1>3, <1>4, RoleStepKeeps DEF DeleteRole

LEMMA RefreshByRoleKeeps ==
    ASSUME CacheInv, NEW c \in Calls, RefreshByRole(c)
    PROVE  CacheInv'
<1>1. call[c] \in CallStates /\ call[c].at = "holders"
  BY DEF CacheInv, TypeOK, RefreshByRole
<1>2. PICK S \in SUBSET Users : S = Holders(call[c].role)
  BY DEF Holders
<1>3. Refresh(c, S)
  BY <1>2 DEF RefreshByRole
<1>4. /\ call' \in [Calls -> CallStates]
      /\ task' \in [Calls -> [Users -> TaskStates]]
      /\ \A d \in Calls : d # c => call'[d] = call[d] /\ task'[d] = task[d]
      /\ \A u \in Users : u \in S => task'[c][u] # NoTask
      /\ \A u \in Users : task'[c][u] # NoTask => call'[c] = [at |-> "refresh"]
  BY <1>3, RefreshEffect DEF CacheInv
<1>5. TypeOK'
  BY <1>4 DEF CacheInv, TypeOK, RefreshByRole
<1>6. \A v \in Users : task[c][v] = NoTask
  BY <1>1, NoTasks DEF CacheInv
<1>7. \A v \in Users : v \in S => Owes(c, v)' /\ person[v] # NoOne
  BY <1>2, <1>4 DEF Owes, Holders
<1>8. \A v \in Users : v \notin S => Unconcerned(c, v)
  BY <1>1, <1>2, <1>6 DEF Owes, Unconcerned
<1> QED
  BY <1>4, <1>5, <1>7, <1>8, CallStepKeeps DEF RefreshByRole

LEMMA ReassignEffect ==
    ASSUME TypeOK, NEW c \in Calls, NEW r \in RoleIds, NEW s \in RoleIds, Reassign(c, r, s)
    PROVE  /\ person' \in [Users -> Person \cup {NoOne}]
           /\ role' \in [RoleIds -> Grants \cup {NoOne}]
           /\ \A q \in RoleIds : q # r => role'[q] = role[q]
           /\ \A u \in Users : u \notin Holders(r) => person'[u] = person[u]
           /\ \A u \in Users : u \in Holders(r) =>
                 person'[u] # NoOne /\ person'[u].declared = person[u].declared
<1> DEFINE moved(u) == [person[u] EXCEPT !.held = (@ \ {r}) \cup {s}]
<1>1. ASSUME NEW u \in Users, u \in Holders(r)
      PROVE  /\ moved(u) \in Person /\ moved(u) # NoOne
             /\ moved(u).declared = person[u].declared
  <2>1. PICK old \in Person : old = person[u]
    BY <1>1 DEF TypeOK, Holders
  <2>2. PICK A \in SUBSET RoleIds : A = (old.held \ {r}) \cup {s}
    BY DEF Person
  <2>3. moved(u) = [old EXCEPT !.held = A]
    BY <2>1, <2>2
  <2>4. [old EXCEPT !.held = A] \in Person /\ [old EXCEPT !.held = A].declared = old.declared
    BY DEF Person
  <2> HIDE DEF moved
  <2> QED
    BY <2>1, <2>3, <2>4, ProfilesAssumption
<1>2. person' = [u \in Users |-> IF u \in Holders(r) THEN moved(u) ELSE person[u]]
  BY DEF Reassign
<1> HIDE DEF moved
<1>3. \A u \in Users : person'[u] = IF u \in Holders(r) THEN moved(u) ELSE person[u]
  BY <1>2
<1>4. person' \in [Users -> Person \cup {NoOne}]
  BY <1>1, <1>2 DEF TypeOK
<1>5. /\ role' \in [RoleIds -> Grants \cup {NoOne}]
      /\ \A q \in RoleIds : q # r => role'[q] = role[q]
  BY DEF TypeOK, Reassign
<1> QED
  BY <1>1, <1>3, <1>4, <1>5

LEMMA ReassignKeeps ==
    ASSUME CacheInv, NEW c \in Calls, NEW r \in RoleIds, NEW s \in RoleIds, Reassign(c, r, s)
    PROVE  CacheInv'
<1>1. /\ person' \in [Users -> Person \cup {NoOne}]
      /\ role' \in [RoleIds -> Grants \cup {NoOne}]
      /\ \A q \in RoleIds : q # r => role'[q] = role[q]
      /\ \A u \in Users : u \notin Holders(r) => person'[u] = person[u]
  BY ReassignEffect DEF CacheInv
<1>2. /\ call' \in [Calls -> CallStates]
      /\ \A d \in Calls : d # c => call'[d] = call[d]
  BY CallMakes, CallGoesType DEF CacheInv, TypeOK, Reassign
<1>3. PICK S \in SUBSET Users : S = Holders(r)
  BY DEF Holders
<1>4. Blame(S)
  BY <1>3 DEF Reassign
<1>5. /\ blamed' \subseteq Users
      /\ \A u \in Users : Stale(u)' /\ (u \in blamed \/ u \in S) => u \in blamed'
  BY <1>4, BlameEffect DEF CacheInv, TypeOK
<1>6. TypeOK'
  <2>1. UNCHANGED <<given, cache, task>> /\ edits' \in 0..MaxEdits
    BY ProfilesAssumption DEF CacheInv, TypeOK, Reassign, Edited
  <2> QED
    BY <1>1, <1>2, <1>5, <2>1 DEF CacheInv, TypeOK
<1>7. call[c].at = "idle"
  BY DEF Reassign, NoCall
<1>8. \A v \in Users : task'[c][v] = NoTask /\ ~ Owes(c, v)
  BY <1>7, NoTasks, OwesNothing DEF CacheInv, Reassign
<1>9. ASSUME NEW v \in Users, v \notin S PROVE (Stale(v)' <=> Stale(v)) /\ person'[v] = person[v]
  <2>1. person'[v] = person[v]
    BY <1>1, <1>3, <1>9
  <2>2. person[v] # NoOne => person[v].held \in SUBSET RoleIds
    BY DEF CacheInv, TypeOK, Person
  <2>3. person[v] # NoOne => \A q \in person[v].held : role'[q] = role[q]
    BY <1>1, <1>3, <1>9, <2>2 DEF Holders
  <2>4. ProfileNow(v)' = ProfileNow(v)
    BY <2>1, <2>3, ProfileKept
  <2>5. cache'[v] = cache[v]
    BY DEF Reassign
  <2> QED
    BY <2>1, <2>4, <2>5, StaleKept
<1>10. UNCHANGED task
  BY DEF Reassign
<1> QED
  BY <1>2, <1>5, <1>6, <1>8, <1>9, <1>10, StepKeeps DEF Unconcerned

\* A step that no call takes: an entry that is stale after it is blamed, or was
\* stale before, with the causes it had.
LEMMA AloneKeeps ==
    ASSUME CacheInv, TypeOK', UNCHANGED <<call, task>>,
           \A u \in Users : /\ person[u] = NoOne <=> person'[u] = NoOne
                            /\ person[u] # NoOne => person'[u].held = person[u].held,
           \A u \in Users : Stale(u)' =>
              u \in blamed' \/ (Stale(u) /\ (u \in blamed => u \in blamed'))
    PROVE  CacheInv'
<1>1. TasksAreRefreshes' /\ GoneHasACause'
  BY DEF CacheInv, TasksAreRefreshes, GoneHasACause
<1>2. \A d \in Calls, u \in Users : Owes(d, u) => Owes(d, u)'
  BY OwingKept
<1>3. StaleHasACause'
  BY <1>2 DEF CacheInv, StaleHasACause
<1> QED
  BY <1>1, <1>3 DEF CacheInv

LEMMA WriteUserKeeps ==
    ASSUME CacheInv, NEW u \in Users, NEW b \in Branches \cup {NoBranch}, WriteUser(u, b)
    PROVE  CacheInv'
<1>1. PICK old \in Person : old = person[u]
  BY DEF CacheInv, TypeOK, WriteUser
<1>2. /\ [old EXCEPT !.siscout = b] \in Person
      /\ [old EXCEPT !.siscout = b].held = old.held
  BY DEF Person
<1>3. person' = [person EXCEPT ![u] = [old EXCEPT !.siscout = b]]
  BY <1>1 DEF WriteUser
<1>4. PICK D \in Person : D = [old EXCEPT !.siscout = b]
  BY <1>2
<1>5. /\ person' \in [Users -> Person \cup {NoOne}]
      /\ person'[u] = D /\ D # NoOne /\ D.held = person[u].held
      /\ \A v \in Users : v # u => person'[v] = person[v]
  BY <1>1, <1>2, <1>3, <1>4, ProfilesAssumption DEF CacheInv, TypeOK
<1>6. /\ blamed' \subseteq Users
      /\ \A v \in Users : Stale(v)' /\ (v \in blamed \/ v = u) => v \in blamed'
  BY BlameEffect DEF CacheInv, TypeOK, WriteUser
<1>7. TypeOK'
  BY <1>5, <1>6, ProfilesAssumption DEF CacheInv, TypeOK, WriteUser, Edited
<1>8. \A v \in Users : v # u => (Stale(v)' <=> Stale(v))
  BY <1>5 DEF WriteUser, Stale, ProfileNow
<1>9. UNCHANGED <<call, task>> /\ person[u] # NoOne
  BY DEF WriteUser
<1> QED
  BY <1>5, <1>6, <1>7, <1>8, <1>9, AloneKeeps

LEMMA ExpireKeeps ==
    ASSUME CacheInv, NEW u \in Users, Expire(u)
    PROVE  CacheInv'
<1>1. /\ cache' \in [Users -> Entry \cup {NoOne}]
      /\ cache'[u] = NoOne
      /\ \A v \in Users : v # u => cache'[v] = cache[v]
  BY DeleteEffect DEF CacheInv, Expire
<1>2. /\ blamed' \subseteq Users
      /\ \A v \in Users : Stale(v)' /\ v \in blamed => v \in blamed'
  BY BlameEffect DEF CacheInv, TypeOK, Expire
<1>3. TypeOK'
  BY <1>1, <1>2 DEF CacheInv, TypeOK, Expire
<1>4. UNCHANGED <<person, role, call, task>>
  BY DEF Expire
<1>5. ~ Stale(u)' /\ \A v \in Users : v # u => (Stale(v)' <=> Stale(v))
  BY <1>1, <1>4 DEF Stale, ProfileNow
<1> QED
  BY <1>2, <1>3, <1>4, <1>5, AloneKeeps

LEMMA DropKeeps ==
    ASSUME CacheInv, NEW c \in Calls, Drop(c)
    PROVE  CacheInv'
<1>1. /\ call' \in [Calls -> CallStates]
      /\ \A d \in Calls : d # c => call'[d] = call[d]
  BY CallMakes, CallGoesType DEF CacheInv, TypeOK, Drop
<1>2. /\ task' \in [Calls -> [Users -> TaskStates]]
      /\ \A v \in Users : task'[c][v] = NoTask
      /\ \A d \in Calls : d # c => task'[d] = task[d]
  <2>1. PICK none \in [Users -> TaskStates] : none = [u \in Users |-> NoTask]
    BY TaskMakes
  <2>2. task' = [task EXCEPT ![c] = none]
    BY <2>1 DEF Drop
  <2> QED
    BY <2>1, <2>2 DEF CacheInv, TypeOK
<1>3. PICK S \in SUBSET Users : S = {u \in Users : Owes(c, u)}
  OBVIOUS
<1>4. Blame(S)
  BY <1>3 DEF Drop
<1>5. /\ blamed' \subseteq Users
      /\ \A u \in Users : Stale(u)' /\ (u \in blamed \/ u \in S) => u \in blamed'
  BY <1>4, BlameEffect DEF CacheInv, TypeOK
<1>6. TypeOK'
  BY <1>1, <1>2, <1>5 DEF CacheInv, TypeOK, Drop
<1>7. UNCHANGED <<person, role, cache>>
  BY DEF Drop
<1>8. \A v \in Users : Stale(v)' <=> Stale(v)
  BY <1>7 DEF Stale, ProfileNow
<1>9. \A v \in Users : v \notin S => Unconcerned(c, v)
  BY <1>3 DEF Unconcerned
<1> QED
  BY <1>1, <1>2, <1>5, <1>6, <1>7, <1>8, <1>9, StepKeeps

----------------------------------------------------------------------------
LEMMA ArrivesKeeps ==
    ASSUME CacheInv, NEW c \in Calls, Arrives(c)
    PROVE  CacheInv'
<1>1. NoBranch \in Branches \cup {NoBranch}
  OBVIOUS
<1>2. ASSUME NEW u \in Users, Read(c, u) \/ LogIn(c, u) \/ Remove(c, u) PROVE CacheInv'
  BY <1>1, <1>2, CallMakes, BeginKeeps, RemoveKeeps DEF Read, LogIn
<1>3. ASSUME NEW u \in Users, NEW b \in Branches, AskToLead(c, u, b) PROVE CacheInv'
  BY <1>3, CallMakes, BeginKeeps DEF AskToLead
<1> QED
  BY <1>2, <1>3, BeginSaveKeeps, EditRoleKeeps, BeginDeleteKeeps, ReassignKeeps DEF Arrives

LEMMA ContinuesKeeps ==
    ASSUME CacheInv, NEW c \in Calls, Continues(c)
    PROVE  CacheInv'
BY LookUpKeeps, BuildKeeps, StoreKeeps, DeclareKeeps, SaveKeeps, InvalidateKeeps,
   DeleteRoleKeeps, RefreshByRoleKeeps, HasKeeps, RebuildKeeps, UpdateEntryKeeps
DEF Continues

LEMMA NextCacheInv == CacheInv /\ [Next]_vars => CacheInv'
<1> SUFFICES ASSUME CacheInv, [Next]_vars PROVE CacheInv'
  OBVIOUS
<1>1. CASE UNCHANGED vars
  <2>1. TypeOK'
    BY <1>1 DEF CacheInv, TypeOK, vars
  <2>2. \A u \in Users : Stale(u)' <=> Stale(u)
    BY <1>1 DEF Stale, ProfileNow, vars
  <2>3. UNCHANGED <<person, blamed, call, task>>
    BY <1>1 DEF vars
  <2> QED
    BY <2>1, <2>2, <2>3, AloneKeeps
<1>2. CASE Next
  BY <1>2, ArrivesKeeps, ContinuesKeeps, DropKeeps, ExpireKeeps, WriteUserKeeps DEF Next
<1> QED
  BY <1>1, <1>2

\* The invariant the first two theorems are read off from.
THEOREM CacheInvariant == Spec => []CacheInv
BY InitCacheInv, NextCacheInv, PTL DEF Spec

\* People, roles, entries, calls and tasks keep their types.
THEOREM ProfilesTypeCorrect == Spec => []TypeOK
<1>1. CacheInv => TypeOK
  BY DEF CacheInv
<1> QED
  BY <1>1, CacheInvariant, PTL

\* For any number of people, roles and requests, and whatever Redis loses: an
\* entry that differs from what users and roles hold is about to be seen to, or
\* one of the named causes explains it.
THEOREM StalenessExplained == Spec => []StaleHasACause
<1>1. CacheInv => StaleHasACause
  BY DEF CacheInv
<1> QED
  BY <1>1, CacheInvariant, PTL

----------------------------------------------------------------------------
\* Nobody's titles change without the panel or a declaration.
TitlesOf(u) ==
    \/ person[u].declared = given[u]
    \/ given[u] = {} /\ \E b \in Branches : person[u].declared = {b}

LEMMA TitlesKept ==
    ASSUME DeclaredOnceAtMost, NEW u \in Users, UNCHANGED given,
           person'[u] # NoOne => person[u] # NoOne /\ person'[u].declared = person[u].declared
    PROVE  person'[u] # NoOne => TitlesOf(u)'
BY DEF DeclaredOnceAtMost, TitlesOf

LEMMA DeclaredOnceStep ==
    ASSUME TypeOK, DeclaredOnceAtMost, [Next]_vars
    PROVE  DeclaredOnceAtMost'
<1> DEFINE Kept == \A u \in Users : person'[u] # NoOne => TitlesOf(u)'
<1> SUFFICES Kept
  BY DEF DeclaredOnceAtMost, TitlesOf
<1>1. ASSUME UNCHANGED given,
             \A u \in Users : person'[u] # NoOne =>
                person[u] # NoOne /\ person'[u].declared = person[u].declared
      PROVE  Kept
  BY <1>1, TitlesKept
<1>2. CASE UNCHANGED <<person, given>>
  BY <1>1, <1>2
<1>w. ASSUME NEW u \in Users, NEW D \in Person, person' = [person EXCEPT ![u] = D],
             \A v \in Users : v # u => given'[v] = given[v],
             \/ D.declared = given'[u]
             \/ given'[u] = {} /\ \E b \in Branches : D.declared = {b}
      PROVE  Kept
  <2>1. person'[u] = D /\ \A v \in Users : v # u => person'[v] = person[v]
    BY <1>w, PersonWrites DEF TypeOK
  <2>2. TitlesOf(u)'
    BY <1>w, <2>1 DEF TitlesOf
  <2>3. \A v \in Users : v # u /\ person'[v] # NoOne => TitlesOf(v)'
    BY <1>w, <2>1 DEF DeclaredOnceAtMost, TitlesOf
  <2> QED
    BY <2>2, <2>3
<1>3. ASSUME NEW c \in Calls, Declare(c) PROVE Kept
  <2>1. call[c].user \in Users /\ call[c].branch \in Branches
    BY <1>3, CallParts DEF TypeOK, Declare
  <2>2. PICK u \in Users : u = call[c].user
    BY <2>1
  <2>3. CASE person[u] # NoOne /\ person[u].declared = {}
    <3>1. PICK B \in SUBSET Branches : B = {call[c].branch}
      BY <2>1
    <3>2. PICK old \in Person : old = person[u]
      BY <2>3 DEF TypeOK
    <3>. DEFINE next == [old EXCEPT !.declared = B]
    <3>a. next \in Person /\ next.declared = B
      BY WrittenType
    <3>b. person' = [person EXCEPT ![u] = next]
      BY <1>3, <2>2, <2>3, <3>1, <3>2 DEF Declare
    <3>. HIDE DEF next
    <3>3. PICK D \in Person : D = next
      BY <3>a
    <3>4. person' = [person EXCEPT ![u] = D] /\ D.declared = B
      BY <3>a, <3>b, <3>3
    <3>5. given' = given
      BY <1>3 DEF Declare
    <3>6. given[u] = {}
      BY <2>3 DEF DeclaredOnceAtMost
    <3> QED
      BY <2>1, <3>1, <3>4, <3>5, <3>6, <1>w
  <2>4. CASE ~ (person[u] # NoOne /\ person[u].declared = {})
    BY <1>2, <1>3, <2>2, <2>4 DEF Declare
  <2> QED
    BY <2>3, <2>4
<1>4. ASSUME NEW c \in Calls, Save(c) PROVE Kept
  <2>1. call[c].user \in Users /\ call[c].patch \in PanelPatch
    BY <1>4, CallParts DEF TypeOK, Save
  <2>2. PICK u \in Users : u = call[c].user
    BY <2>1
  <2>3. CASE ~ Throws(c)
    <3>1. PICK old \in Person : old = person[u]
      BY <2>2, <2>3 DEF TypeOK, Throws
    <3>2. PICK e \in PanelPatch : e = call[c].patch
      BY <2>1
    <3>3. PICK D \in Person : D = Written(old, e)
      BY WrittenType
    <3>4. person' = [person EXCEPT ![u] = D]
      BY <1>4, <2>2, <2>3, <3>1, <3>2, <3>3 DEF Save, SaveDocument
    <3>5. given' = IF e.declared = NoOne THEN given ELSE [given EXCEPT ![u] = e.declared]
      BY <1>4, <2>2, <2>3, <3>2 DEF Save, SaveDocument
    <3>6. \A v \in Users : v # u => given'[v] = given[v]
      BY <3>5 DEF TypeOK
    <3>7. CASE e.declared = NoOne
      <4>1. D.declared = old.declared /\ given'[u] = given[u]
        BY <3>3, <3>5, <3>7, WrittenType
      <4>2. TitlesOf(u)
        BY <3>1, ProfilesAssumption DEF DeclaredOnceAtMost, TitlesOf
      <4> QED
        BY <3>1, <3>4, <3>6, <4>1, <4>2, <1>w DEF TitlesOf
    <3>8. CASE e.declared # NoOne
      <4>1. D.declared = e.declared /\ given'[u] = e.declared
        BY <3>3, <3>5, <3>8, WrittenType DEF TypeOK
      <4> QED
        BY <3>4, <3>6, <4>1, <1>w
    <3> QED
      BY <3>7, <3>8
  <2>4. CASE Throws(c)
    BY <1>2, <1>4, <2>4 DEF Save
  <2> QED
    BY <2>3, <2>4
<1>5. ASSUME NEW c \in Calls, NEW u \in Users, Remove(c, u) PROVE Kept
  <2>1. /\ person'[u] = NoOne /\ \A v \in Users : v # u => person'[v] = person[v]
        /\ given' = given
    BY <1>5 DEF TypeOK, Remove
  <2> QED
    BY <1>1, <2>1
<1>6. ASSUME NEW c \in Calls, NEW r \in RoleIds, NEW s \in RoleIds, Reassign(c, r, s)
      PROVE  Kept
  <2>1. \A u \in Users : u \in Holders(r) => person[u] # NoOne
    BY DEF Holders
  <2>2. given' = given
    BY <1>6 DEF Reassign
  <2> QED
    BY <1>1, <1>6, <2>1, <2>2, ReassignEffect
<1>7. ASSUME NEW u \in Users, NEW b \in Branches \cup {NoBranch}, WriteUser(u, b)
      PROVE  Kept
  <2>1. PICK old \in Person : old = person[u]
    BY <1>7 DEF TypeOK, WriteUser
  <2>2. PICK D : D = [old EXCEPT !.siscout = b]
    OBVIOUS
  <2>3. D.declared = old.declared
    BY <2>2 DEF Person
  <2>4. person' = [person EXCEPT ![u] = D] /\ given' = given
    BY <1>7, <2>1, <2>2 DEF WriteUser
  <2>5. /\ person'[u].declared = person[u].declared
        /\ \A v \in Users : v # u => person'[v] = person[v]
    BY <2>1, <2>3, <2>4 DEF TypeOK
  <2> QED
    BY <1>1, <1>7, <2>4, <2>5 DEF WriteUser
<1> HIDE DEF Kept
<1>8. ASSUME NEW c \in Calls, Arrives(c) PROVE Kept
  BY <1>2, <1>5, <1>6, <1>8
  DEF Arrives, Read, LogIn, AskToLead, Begin, BeginSave, EditRole, BeginDelete
<1>9. ASSUME NEW c \in Calls, Continues(c) PROVE Kept
  BY <1>2, <1>3, <1>4, <1>9
  DEF Continues, LookUp, Build, Store, Invalidate, DeleteRole, RefreshByRole, Has, Rebuild,
      UpdateEntry
<1> QED
  BY <1>2, <1>7, <1>8, <1>9 DEF Next, vars, Drop, Expire

\* However many declarations are under way, whatever the cache told them and
\* whatever the panel saves meanwhile: the branch titles of a person are the ones
\* the panel gave last, or it gave none and one declaration took hold.
THEOREM DeclaredOnce == Spec => []DeclaredOnceAtMost
<1>1. Init => DeclaredOnceAtMost
  <2>1. ASSUME Init, NEW u \in Users, person[u] # NoOne PROVE person[u].declared = given[u]
    BY <2>1 DEF Init
  <2> QED
    BY <2>1 DEF DeclaredOnceAtMost
<1>2. TypeOK /\ DeclaredOnceAtMost /\ [Next]_vars => DeclaredOnceAtMost'
  BY DeclaredOnceStep
<1> QED
  BY <1>1, <1>2, ProfilesTypeCorrect, PTL DEF Spec

----------------------------------------------------------------------------
\* No entry lives for ever.
EntriesExpire == \A u \in Users : cache[u] # NoOne => cache[u].expires

LEMMA ExpiryKept ==
    ASSUME TypeOK, EntriesExpire, NEW u \in Users, NEW p \in Profile,
           SetWithTtl(u, p) \/ UpdateExisting(u, p) \/ Delete(u) \/ UNCHANGED cache
    PROVE  EntriesExpire'
<1>1. CASE SetWithTtl(u, p)
  <2>1. PICK entry : entry = [profile |-> p, expires |-> TRUE]
    OBVIOUS
  <2>2. cache' = [cache EXCEPT ![u] = entry] /\ entry.expires
    BY <1>1, <2>1 DEF SetWithTtl
  <2> QED
    BY <2>2 DEF TypeOK, EntriesExpire
<1>2. CASE UpdateExisting(u, p) /\ cache[u] # NoOne
  <2>1. PICK old \in Entry : old = cache[u]
    BY <1>2 DEF TypeOK
  <2>2. PICK entry : entry = [old EXCEPT !.profile = p]
    OBVIOUS
  <2>3. entry.expires = old.expires
    BY <2>2 DEF Entry
  <2>4. cache' = [cache EXCEPT ![u] = entry]
    BY <1>2, <2>1, <2>2 DEF UpdateExisting
  <2> QED
    BY <1>2, <2>1, <2>3, <2>4 DEF TypeOK, EntriesExpire
<1>3. CASE UNCHANGED cache \/ (UpdateExisting(u, p) /\ cache[u] = NoOne)
  BY <1>3 DEF EntriesExpire, UpdateExisting
<1>4. CASE Delete(u)
  BY <1>4 DEF TypeOK, EntriesExpire, Delete
<1> QED
  BY <1>1, <1>2, <1>3, <1>4

\* Every entry has a TTL, whichever refreshes reach it: what StalenessEnds rests on.
THEOREM EveryEntryExpires == Spec => []EntriesExpire
<1>1. Init => EntriesExpire
  BY DEF Init, EntriesExpire
<1>2. TypeOK /\ EntriesExpire /\ [Next]_vars => EntriesExpire'
  <2> SUFFICES ASSUME TypeOK, EntriesExpire, [Next]_vars PROVE EntriesExpire'
    OBVIOUS
  <2>1. CASE UNCHANGED cache
    BY <2>1 DEF EntriesExpire
  <2>2. ASSUME NEW c \in Calls, Store(c) PROVE EntriesExpire'
    <3>1. call[c].user \in Users /\ call[c].built \in Profile
      BY <2>2, CallParts DEF TypeOK, Store
    <3>2. PICK u \in Users, p \in Profile : u = call[c].user /\ p = call[c].built
      BY <3>1
    <3>3. SetWithTtl(u, p) \/ UNCHANGED cache
      BY <2>2, <3>2 DEF Store, RedisFails
    <3> QED
      BY <3>3, ExpiryKept
  <2>3. ASSUME NEW c \in Calls, NEW u \in Users, UpdateEntry(c, u) PROVE EntriesExpire'
    <3>1. task[c][u].built \in Profile
      BY <2>3, TaskParts DEF TypeOK, UpdateEntry
    <3>2. PICK p \in Profile : p = task[c][u].built
      BY <3>1
    <3>3. UpdateExisting(u, p) \/ UNCHANGED cache
      BY <2>3, <3>2 DEF UpdateEntry, RedisFails
    <3> QED
      BY <3>3, ExpiryKept
  <2>4. ASSUME NEW u \in Users, Delete(u) \/ UNCHANGED cache PROVE EntriesExpire'
    BY <2>4 DEF TypeOK, EntriesExpire, Delete
  <2>5. ASSUME NEW c \in Calls, Invalidate(c) PROVE EntriesExpire'
    <3>1. PICK u \in Users : u = call[c].user
      BY <2>5, CallParts DEF TypeOK, Invalidate
    <3> QED
      BY <2>4, <2>5, <3>1 DEF Invalidate, RedisFails
  <2>6. ASSUME NEW c \in Calls, Arrives(c) PROVE EntriesExpire'
    BY <2>1, <2>6
    DEF Arrives, Read, LogIn, AskToLead, Begin, BeginSave, Remove, EditRole, BeginDelete, Reassign
  <2>7. ASSUME NEW c \in Calls, Continues(c) PROVE EntriesExpire'
    BY <2>1, <2>2, <2>3, <2>5, <2>7
    DEF Continues, LookUp, Build, Declare, Save, DeleteRole, RefreshByRole, Has, Rebuild
  <2>8. ASSUME NEW u \in Users, Expire(u) PROVE EntriesExpire'
    BY <2>4, <2>8 DEF Expire
  <2> QED
    BY <2>1, <2>6, <2>7, <2>8 DEF Next, vars, Drop, WriteUser
<1> QED
  BY <1>1, <1>2, ProfilesTypeCorrect, PTL DEF Spec

----------------------------------------------------------------------------
(* The settings, their copy and the cron job.                              *)

\* No request is under way while the process is down.
NothingWhileDown == ~ loaded => \A r \in Requests : request[r] = Idle

\* Requests are served when there is something stored.
StoredWhenUp == loaded => stored \in Values

\* The latest write's reply, while it is on its way, says what is stored.
LatestSaysStored ==
    latest # NoRequest => request[latest].at = "reply" /\ request[latest].doc = stored

\* The jobs are those the copy asks for.
JobsFollowCopy == jobs = IF loaded THEN Wanted(cached) ELSE {}

ScheduleInv ==
    /\ ScheduleTypeOK
    /\ NothingWhileDown
    /\ StoredWhenUp
    /\ LatestSaysStored
    /\ CopyHasACause
    /\ JobsFollowCopy

----------------------------------------------------------------------------
\* The merge of a patch into what is stored is a value again.
LEMMA MergedType ==
    ASSUME stored \in Values, NEW patch \in Patches \cup {Defaults}
    PROVE  Merged(patch) \in Values
BY SettingsAssumption DEF Merged

\* What a request under way carries.
LEMMA RequestParts ==
    ASSUME NEW state \in RequestStates
    PROVE  /\ state.at \in {"idle", "sent", "reply"}
           /\ state.at = "sent" => state.patch \in Patches \cup {Defaults} /\ state # Idle
           /\ state.at = "reply" => state.doc \in Values /\ state # Idle
           /\ state.at = "idle" => state = Idle
BY DEF RequestStates, Idle

LEMMA WantedType ==
    ASSUME NEW values \in Values
    PROVE  Wanted(values) \subseteq Crons
BY ScheduleAssumption DEF Wanted

\* What a request becomes keeps the type of the requests.
LEMMA GoesType ==
    ASSUME request \in [Requests -> RequestStates], NEW r \in Requests,
           NEW state \in RequestStates, Goes(r, state)
    PROVE  /\ request' \in [Requests -> RequestStates]
           /\ request'[r] = state
           /\ \A s \in Requests \ {r} : request'[s] = request[s]
BY DEF Goes

LEMMA ScheduleInvInit == ScheduleInit => ScheduleInv
<1> SUFFICES ASSUME ScheduleInit PROVE ScheduleInv
  OBVIOUS
<1>1. Idle \in RequestStates
  BY DEF RequestStates
<1>2. ScheduleTypeOK
  <2>1. request \in [Requests -> RequestStates]
    BY <1>1 DEF ScheduleInit, SettingsInit
  <2>2. asks \in 0..MaxAsks /\ restarts \in 0..MaxRestarts
    <3>1. MaxAsks \in Nat /\ MaxRestarts \in Nat
      BY SettingsAssumption, Zenon
    <3>2. asks = 0 /\ restarts = 0
      BY DEF ScheduleInit, SettingsInit
    <3> QED
      BY <3>1, <3>2
  <2> QED
    BY <2>1, <2>2, SettingsAssumption
    DEF ScheduleInit, SettingsInit, ScheduleTypeOK, SettingsTypeOK
<1> QED
  BY <1>2
  DEF ScheduleInit, SettingsInit, ScheduleInv, NothingWhileDown, StoredWhenUp,
      LatestSaysStored, CopyHasACause, JobsFollowCopy

LEMMA AskKeeps ==
    ASSUME ScheduleInv, NEW r \in Requests, NEW patch \in Patches \cup {Defaults},
           Ask(r, patch), UNCHANGED jobs
    PROVE  ScheduleInv'
<1>1. [at |-> "sent", patch |-> patch] \in RequestStates
  BY DEF RequestStates
<1>2. /\ request' \in [Requests -> RequestStates]
      /\ \A s \in Requests \ {r} : request'[s] = request[s]
  BY <1>1, GoesType DEF Ask, ScheduleInv, ScheduleTypeOK, SettingsTypeOK
<1>3. latest # r
  BY SettingsAssumption DEF ScheduleInv, LatestSaysStored, Ask, Idle
<1>4. ScheduleTypeOK'
  BY <1>2, SettingsAssumption DEF ScheduleInv, ScheduleTypeOK, SettingsTypeOK, Ask
<1>5. LatestSaysStored'
  BY <1>2, <1>3, SettingsAssumption
  DEF ScheduleInv, ScheduleTypeOK, SettingsTypeOK, LatestSaysStored, Ask
<1> QED
  BY <1>4, <1>5
  DEF ScheduleInv, NothingWhileDown, StoredWhenUp, CopyHasACause, JobsFollowCopy, Wanted,
      Ask

LEMMA WriteKeeps ==
    ASSUME ScheduleInv, NEW r \in Requests, Write(r), UNCHANGED jobs
    PROVE  ScheduleInv'
<1>1. /\ request[r] \in RequestStates
      /\ request[r] # Idle
      /\ request[r].patch \in Patches \cup {Defaults}
  BY RequestParts DEF ScheduleInv, ScheduleTypeOK, SettingsTypeOK, Write
<1>2. loaded /\ stored \in Values
  BY <1>1 DEF ScheduleInv, ScheduleTypeOK, SettingsTypeOK, NothingWhileDown, StoredWhenUp
<1>3. stored' \in Values
  BY <1>1, <1>2, MergedType DEF Write
<1>4. [at |-> "reply", doc |-> stored'] \in RequestStates
  BY <1>3 DEF RequestStates
<1>5. Goes(r, [at |-> "reply", doc |-> stored'])
  BY DEF Write
<1>6. /\ request' \in [Requests -> RequestStates]
      /\ request'[r] = [at |-> "reply", doc |-> stored']
  BY <1>4, <1>5, GoesType DEF ScheduleInv, ScheduleTypeOK, SettingsTypeOK
<1>7. ScheduleTypeOK'
  BY <1>3, <1>6 DEF ScheduleInv, ScheduleTypeOK, SettingsTypeOK, Write
<1>8. LatestSaysStored' /\ latest' # NoRequest
  BY <1>6, SettingsAssumption DEF LatestSaysStored, Write
<1> QED
  BY <1>2, <1>3, <1>7, <1>8
  DEF ScheduleInv, NothingWhileDown, StoredWhenUp, CopyHasACause, JobsFollowCopy, Wanted,
      Write

LEMMA ReceiveKeeps ==
    ASSUME ScheduleInv, NEW r \in Requests, Notify(r)
    PROVE  ScheduleInv'
<1>1. /\ request[r] # Idle
      /\ request[r].at = "reply"
      /\ cached' = request[r].doc
      /\ cached' \in Values
  BY RequestParts DEF ScheduleInv, ScheduleTypeOK, SettingsTypeOK, Notify, Receive
<1>2. loaded /\ stored \in Values
  BY <1>1 DEF ScheduleInv, ScheduleTypeOK, SettingsTypeOK, NothingWhileDown, StoredWhenUp
<1>3. /\ request' \in [Requests -> RequestStates]
      /\ \A s \in Requests \ {r} : request'[s] = request[s]
  BY GoesType
  DEF ScheduleInv, ScheduleTypeOK, SettingsTypeOK, Notify, Receive, RequestStates
<1>4. latest' \in Requests \cup {NoRequest} /\ astray' \in BOOLEAN
  BY DEF ScheduleInv, ScheduleTypeOK, SettingsTypeOK, Notify, Receive
<1>5. ScheduleTypeOK'
  BY <1>1, <1>3, <1>4, WantedType
  DEF ScheduleInv, ScheduleTypeOK, SettingsTypeOK, Notify, Receive, ApplySchedule
<1>6. LatestSaysStored'
  BY <1>3, SettingsAssumption
  DEF ScheduleInv, ScheduleTypeOK, SettingsTypeOK, LatestSaysStored, Notify, Receive
<1>7. CopyHasACause'
  <2>1. CASE latest = r
    BY <1>1, <2>1, SettingsAssumption
    DEF ScheduleInv, LatestSaysStored, CopyHasACause, Notify, Receive
  <2>2. CASE latest = NoRequest
    BY <2>2, SettingsAssumption DEF CopyHasACause, Notify, Receive
  <2>3. CASE latest # r /\ latest # NoRequest
    BY <2>3 DEF CopyHasACause, Notify, Receive
  <2> QED
    BY <2>1, <2>2, <2>3
<1> QED
  BY <1>2, <1>5, <1>6, <1>7
  DEF ScheduleInv, NothingWhileDown, StoredWhenUp, JobsFollowCopy, Notify, Receive,
      ApplySchedule

LEMMA LoseKeeps ==
    ASSUME ScheduleInv, NEW r \in Requests, Lose(r), UNCHANGED jobs
    PROVE  ScheduleInv'
<1>1. loaded
  BY DEF ScheduleInv, NothingWhileDown, Lose, ScheduleTypeOK, SettingsTypeOK
<1>2. /\ request' \in [Requests -> RequestStates]
      /\ \A s \in Requests \ {r} : request'[s] = request[s]
  BY GoesType DEF ScheduleInv, ScheduleTypeOK, SettingsTypeOK, Lose, RequestStates
<1>3. ScheduleTypeOK'
  BY <1>2 DEF ScheduleInv, ScheduleTypeOK, SettingsTypeOK, Lose
<1>4. LatestSaysStored'
  BY <1>2, SettingsAssumption
  DEF ScheduleInv, ScheduleTypeOK, SettingsTypeOK, LatestSaysStored, Lose
<1> QED
  BY <1>1, <1>3, <1>4
  DEF ScheduleInv, NothingWhileDown, StoredWhenUp, CopyHasACause, JobsFollowCopy, Wanted,
      Lose

LEMMA BootKeeps ==
    ASSUME ScheduleInv, Boot
    PROVE  ScheduleInv'
<1>1. stored' \in Values /\ cached' = stored'
  BY SettingsAssumption DEF ScheduleInv, ScheduleTypeOK, SettingsTypeOK, Boot, EnsureLoaded
<1>2. latest = NoRequest
  BY DEF ScheduleInv, NothingWhileDown, LatestSaysStored, Boot, EnsureLoaded, Idle,
         ScheduleTypeOK, SettingsTypeOK
<1>3. ScheduleTypeOK'
  BY <1>1, WantedType
  DEF ScheduleInv, ScheduleTypeOK, SettingsTypeOK, Boot, EnsureLoaded, ApplySchedule
<1> QED
  BY <1>1, <1>2, <1>3
  DEF ScheduleInv, NothingWhileDown, StoredWhenUp, LatestSaysStored, CopyHasACause,
      JobsFollowCopy, Boot, EnsureLoaded, ApplySchedule

LEMMA StopKeeps ==
    ASSUME ScheduleInv, Stop
    PROVE  ScheduleInv'
<1>1. Idle \in RequestStates /\ restarts' \in 0..MaxRestarts
  BY SettingsAssumption
  DEF ScheduleInv, ScheduleTypeOK, SettingsTypeOK, Stop, Restart, RequestStates
<1>2. ScheduleTypeOK'
  BY <1>1, SettingsAssumption DEF ScheduleInv, ScheduleTypeOK, SettingsTypeOK, Stop, Restart
<1> QED
  BY <1>2
  DEF ScheduleInv, NothingWhileDown, StoredWhenUp, LatestSaysStored, CopyHasACause,
      JobsFollowCopy, Stop, Restart

LEMMA ScheduleInvNext == ScheduleInv /\ [ScheduleNext]_scheduleVars => ScheduleInv'
<1> SUFFICES ASSUME ScheduleInv, [ScheduleNext]_scheduleVars PROVE ScheduleInv'
  OBVIOUS
<1>1. CASE UNCHANGED scheduleVars
  BY <1>1
  DEF scheduleVars, settings, ScheduleInv, ScheduleTypeOK, SettingsTypeOK,
      NothingWhileDown, StoredWhenUp, LatestSaysStored, CopyHasACause, JobsFollowCopy, Wanted
<1>2. ASSUME NEW r \in Requests, (Update(r) \/ Reset(r)) /\ UNCHANGED jobs PROVE ScheduleInv'
  BY <1>2, AskKeeps DEF Update, Reset
<1>3. ASSUME NEW r \in Requests, Serve(r) PROVE ScheduleInv'
  BY <1>3, WriteKeeps, LoseKeeps, ReceiveKeeps DEF Serve
<1> QED
  BY <1>1, <1>2, <1>3, BootKeeps, StopKeeps DEF ScheduleNext

\* The invariant the theorems below are read off from.
THEOREM ScheduleInvariant == ScheduleSpec => []ScheduleInv
BY ScheduleInvInit, ScheduleInvNext, PTL DEF ScheduleSpec

----------------------------------------------------------------------------
\* The settings, their copy, the requests under way and the jobs keep their types.
THEOREM ScheduleTypeCorrect == ScheduleSpec => []ScheduleTypeOK
<1>1. ScheduleInv => ScheduleTypeOK
  BY DEF ScheduleInv
<1> QED
  BY <1>1, ScheduleInvariant, PTL

\* The copy differs from what is stored only while the reply to the latest write
\* is on its way, or after that reply was lost or overtaken by an older one.
THEOREM CopyExplained == ScheduleSpec => []CopyHasACause
<1>1. ScheduleInv => CopyHasACause
  BY DEF ScheduleInv
<1> QED
  BY <1>1, ScheduleInvariant, PTL

\* While the process is up and nothing excuses it, the one cron job that runs,
\* if any, is the one the stored settings ask for.
JobIsTheStoredOne ==
    loaded /\ latest = NoRequest /\ ~ astray => jobs = Wanted(stored)

THEOREM JobFollowsSettings == ScheduleSpec => []JobIsTheStoredOne
<1>1. ScheduleInv => JobIsTheStoredOne
  BY DEF ScheduleInv, CopyHasACause, JobsFollowCopy, JobIsTheStoredOne
<1> QED
  BY <1>1, ScheduleInvariant, PTL
=============================================================================
