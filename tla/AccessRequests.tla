--------------------------- MODULE AccessRequests ---------------------------
(***************************************************************************)
(* How a person gets access (src/src/solicitudes-acceso): he asks for it,  *)
(* an approver resolves the request, and the decision is written in two    *)
(* collections -- users and solicitudes_acceso -- and announced in a third *)
(* (src/src/notificaciones), without a transaction.  UsersService.update   *)
(* edits the same two fields of the user from the management panel.        *)
(*                                                                         *)
(* Both grant a level, and nobody grants one he does not reach             *)
(* (src/src/authz): the level of the actor is read in a step of its own.   *)
(* What a request says -- level, position, territory, phone, notes -- is   *)
(* left out; one that fails the validation changes nothing.                *)
(***************************************************************************)
EXTENDS Naturals, FiniteSets

CONSTANTS
    People,
    Approvers,      \* people whose roles let them resolve requests and edit users
    FirstLevel,     \* nivelAcceso of each person at the start
    AskedLevels,    \* levels that people ask for and approvers type
    PanelStates,    \* the ESTADOS_ACCESO_GESTIONABLES that the panel writes
    Calls,          \* handlers that may be running at the same time
    MaxRequests,    \* bound: requests ever created
    MaxLost         \* bound: notices that a failing handler ever loses

\* ACCESS_LEVELS by rank, after "none": rama, grupo, region, nacion, super_admin.
Levels     == 0 .. 5
NoLevel    == 0
SuperAdmin == 5

ASSUME AccessAssumption ==
    /\ People # {}
    /\ Approvers \subseteq People
    /\ FirstLevel \in [People -> Levels]
    /\ AskedLevels \subseteq Levels \ {NoLevel, SuperAdmin}
    /\ PanelStates \subseteq {"approved", "suspended"}
    /\ MaxRequests \in Nat
    /\ MaxLost \in Nat

VARIABLES
    access,       \* users.estadoAcceso, or "removed"
    level,        \* users.nivelAcceso
    request,      \* solicitudes_acceso: a function on the ids that exist
    nextRequest,
    notices,      \* notificaciones: what the outbox tells people
    call,         \* what each handler carries from one await to the next
    written,      \* history: the requests and resolutions ever written
    lost          \* history: those whose handler failed before the outbox had them

users   == <<access, level>>
history == <<written, lost>>
vars    == <<access, level, request, nextRequest, notices, call, written, lost>>

AccessStates == {"none", "pending", "approved", "rejected", "suspended", "removed"}

RequestDoc == [person : People, state : {"pending", "approved", "rejected"}]

\* solicitud_recibida, and solicitud_resuelta with its outcome.  The document
\* names the person; the request is kept here to tell two of them apart.
Notice == [request : Nat, kind : {"received", "approved", "rejected"}]

Steps == {"idle", "search", "create", "await", "check", "decide", "close",
          "announce", "panel_check", "panel_save"}

\* The fields a handler uses; the others keep the values of Idle.  outcome is
\* the estadoAcceso to write, "none" when there is none to write.
CallState == [step : Steps, actor : People, person : People, request : Nat,
              level : Levels, outcome : AccessStates]

Carry(a, p) == [step |-> "idle", actor |-> a, person |-> p, request |-> 0,
                level |-> NoLevel, outcome |-> "none"]

Idle == LET p == CHOOSE p \in People : TRUE IN Carry(p, p)

At(c, step) == call[c].step = step

Begin(c, record) == At(c, "idle") /\ call' = [call EXCEPT ![c] = record]
Goto(c, step)    == call' = [call EXCEPT ![c].step = step]
Return(c)        == call' = [call EXCEPT ![c] = Idle]

Exists(p)  == access[p] # "removed"
Pending(p) == {q \in DOMAIN request :
                 request[q].person = p /\ request[q].state = "pending"}

\* Faulty variant of CanGrantLevel: one level above one's own is reached.
CanGrantLevelAbove(a, l) == Exists(a) /\ level[a] # NoLevel /\ level[a] + 1 >= l

\* effectiveLevel and canGrantLevel: one's own level or one below it.
CanGrantLevel(a, l) == Exists(a) /\ level[a] # NoLevel /\ level[a] >= l

----------------------------------------------------------------------------
(* crear                                                                   *)

Ask(c, p) ==
    /\ access[p] \notin {"approved", "suspended", "removed"}
    /\ Begin(c, [Carry(p, p) EXCEPT !.step = "search"])
    /\ UNCHANGED <<users, request, nextRequest, notices, history>>

FindActive(c) ==
    /\ At(c, "search")
    /\ IF Pending(call[c].person) # {} THEN Return(c) ELSE Goto(c, "create")
    /\ UNCHANGED <<users, request, nextRequest, notices, history>>

NewRequest(c) == [person |-> call[c].person, state |-> "pending"]

\* What is written into a request is to be announced by the handler that did it.
Write(q, kind) ==
    /\ written' = written \cup {[request |-> q, kind |-> kind]}
    /\ UNCHANGED lost

Insert(c) ==
    /\ nextRequest <= MaxRequests
    /\ request' = [q \in DOMAIN request \cup {nextRequest} |->
                     IF q = nextRequest THEN NewRequest(c) ELSE request[q]]
    /\ nextRequest' = nextRequest + 1
    /\ Write(nextRequest, "received")
    /\ call' = [call EXCEPT ![c].step = "await", ![c].request = nextRequest]

\* Faulty variant of CreateRequest: the partial unique index is missing.
CreateRequestUnindexed(c) ==
    /\ At(c, "create")
    /\ Insert(c)
    /\ UNCHANGED <<users, notices>>

\* The insert; the partial unique index refuses a second pending request.
CreateRequest(c) ==
    /\ At(c, "create")
    /\ IF Pending(call[c].person) # {}
         THEN Return(c) /\ UNCHANGED <<request, nextRequest, history>>
         ELSE Insert(c)
    /\ UNCHANGED <<users, notices>>

\* users.updateOne of a removed person matches nothing.
SetAccess(p, state) ==
    access' = [access EXCEPT ![p] = IF @ = "removed" THEN @ ELSE state]

AwaitDecision(c) ==
    /\ At(c, "await")
    /\ SetAccess(call[c].person, "pending")
    /\ Goto(c, "announce")
    /\ UNCHANGED <<level, request, nextRequest, notices, history>>

----------------------------------------------------------------------------
(* aprobar and rechazar                                                    *)

\* cargarResoluble; the level is the approver's, or else the one asked for,
\* either of which may be any of AskedLevels.
Resolve(c, a, q, outcome, l) ==
    /\ a \in Approvers
    /\ Exists(a)
    /\ request[q].state = "pending"
    /\ Begin(c, [Carry(a, request[q].person) EXCEPT
                   !.step = IF outcome = "approved" THEN "check" ELSE "decide",
                   !.request = q, !.level = l, !.outcome = outcome])
    /\ UNCHANGED <<users, request, nextRequest, notices, history>>

Approve(c, a, q) == \E l \in AskedLevels : Resolve(c, a, q, "approved", l)
Reject(c, a, q)  == Resolve(c, a, q, "rejected", NoLevel)

\* assertCanGrantLevel of aprobar
CheckGrant(c) ==
    /\ At(c, "check")
    /\ IF CanGrantLevel(call[c].actor, call[c].level) THEN Goto(c, "decide")
                                                      ELSE Return(c)
    /\ UNCHANGED <<users, request, nextRequest, notices, history>>

\* The decision is first written in the user ...
DecideUser(c) ==
    LET p == call[c].person
    IN  /\ At(c, "decide")
        /\ SetAccess(p, call[c].outcome)
        /\ level' = IF call[c].outcome = "approved" /\ Exists(p)
                      THEN [level EXCEPT ![p] = call[c].level] ELSE level
        /\ Goto(c, "close")
        /\ UNCHANGED <<request, nextRequest, notices, history>>

\* Faulty variant of CloseRequest: a rejection is not announced.
CloseRequestQuietly(c) ==
    /\ At(c, "close")
    /\ request' = [request EXCEPT ![call[c].request].state = call[c].outcome]
    /\ Write(call[c].request, call[c].outcome)
    /\ IF call[c].outcome = "approved" THEN Goto(c, "announce") ELSE Return(c)
    /\ UNCHANGED <<users, nextRequest, notices>>

\* ... then in the request, over whatever it holds by now.
CloseRequest(c) ==
    /\ At(c, "close")
    /\ request' = [request EXCEPT ![call[c].request].state = call[c].outcome]
    /\ Write(call[c].request, call[c].outcome)
    /\ Goto(c, "announce")
    /\ UNCHANGED <<users, nextRequest, notices>>

\* What a handler that wrote a request has not put into the outbox yet.
Owed(c) ==
    IF call[c].step \in {"await", "announce"}
      THEN {[request |-> call[c].request,
             kind |-> IF call[c].outcome = "none" THEN "received" ELSE call[c].outcome]}
      ELSE {}

\* encolar: NotificadorOutbox inserts a notification, still to be sent.  The
\* mail that follows is best effort and leaves no state.
Announce(c) ==
    /\ At(c, "announce")
    /\ notices' = notices \cup Owed(c)
    /\ Return(c)
    /\ UNCHANGED <<users, request, nextRequest, history>>

\* A query is rejected -- encolar is awaited without a try, like the writes
\* before it -- or the server restarts: the handler ends wherever it was.
Fail(c) ==
    /\ ~At(c, "idle")
    /\ lost' = lost \cup Owed(c)
    /\ Cardinality(lost') <= MaxLost
    /\ Return(c)
    /\ UNCHANGED <<users, request, nextRequest, notices, written>>

----------------------------------------------------------------------------
(* UsersService.update on estadoAcceso and nivelAcceso, and remove.        *)

\* The document is loaded; save() will write the fields that differ from it.
Edit(c, a, p, state, l) ==
    /\ a \in Approvers
    /\ Exists(a)
    /\ a # p
    /\ Exists(p)
    /\ level[p] # SuperAdmin
    /\ Begin(c, [Carry(a, p) EXCEPT
                   !.step = IF l \in {NoLevel, level[p]} THEN "panel_save"
                                                         ELSE "panel_check",
                   !.level = IF l = level[p] THEN NoLevel ELSE l,
                   !.outcome = IF state = access[p] THEN "none" ELSE state])
    /\ UNCHANGED <<users, request, nextRequest, notices, history>>

CheckEdit(c) ==
    /\ At(c, "panel_check")
    /\ IF CanGrantLevel(call[c].actor, call[c].level) THEN Goto(c, "panel_save")
                                                      ELSE Return(c)
    /\ UNCHANGED <<users, request, nextRequest, notices, history>>

SaveEdit(c) ==
    LET p == call[c].person
    IN  /\ At(c, "panel_save")
        /\ access' = IF call[c].outcome # "none" /\ Exists(p)
                       THEN [access EXCEPT ![p] = call[c].outcome] ELSE access
        /\ level' = IF call[c].level # NoLevel /\ Exists(p)
                      THEN [level EXCEPT ![p] = call[c].level] ELSE level
        /\ Return(c)
        /\ UNCHANGED <<request, nextRequest, notices, history>>

RemovePerson(p) ==
    /\ Exists(p)
    /\ access' = [access EXCEPT ![p] = "removed"]
    /\ UNCHANGED <<level, request, nextRequest, notices, call, history>>

----------------------------------------------------------------------------
\* Whoever has a level was let in; the others have not asked yet.
Init ==
    /\ access = [p \in People |-> IF FirstLevel[p] = NoLevel THEN "none" ELSE "approved"]
    /\ level = FirstLevel
    /\ request = [q \in {} |-> q]
    /\ nextRequest = 1
    /\ notices = {}
    /\ call = [c \in Calls |-> Idle]
    /\ written = {}
    /\ lost = {}

Arrives(c) ==
    \/ \E p \in People : Ask(c, p)
    \/ \E a \in People, q \in DOMAIN request : Approve(c, a, q) \/ Reject(c, a, q)
    \/ \E a, p \in People, state \in PanelStates \cup {"none"},
          l \in AskedLevels \cup {NoLevel} : Edit(c, a, p, state, l)

Continues(c) ==
    \/ FindActive(c) \/ CreateRequest(c) \/ AwaitDecision(c)
    \/ CheckGrant(c) \/ DecideUser(c) \/ CloseRequest(c) \/ Announce(c)
    \/ CheckEdit(c) \/ SaveEdit(c)

Next ==
    \/ \E c \in Calls : Arrives(c) \/ Continues(c) \/ Fail(c)
    \/ \E p \in People : RemovePerson(p)

Spec == Init /\ [][Next]_vars

----------------------------------------------------------------------------
(* Properties.                                                             *)

\* The variables hold what the schemas allow.
TypeOK ==
    /\ access \in [People -> AccessStates]
    /\ level \in [People -> Levels]
    /\ nextRequest \in Nat \ {0}
    /\ DOMAIN request \subseteq 1 .. (nextRequest - 1)
    /\ request \in [DOMAIN request -> RequestDoc]
    /\ call \in [Calls -> CallState]
    /\ notices \subseteq Notice
    /\ written \subseteq Notice
    /\ lost \subseteq Notice

\* "Una sola solicitud pendiente por persona": however many times he asks at
\* once, and whatever is resolved meanwhile.
OnePendingPerPerson ==
    \A p, q \in DOMAIN request :
        /\ request[p].state = "pending"
        /\ request[q].state = "pending"
        /\ request[p].person = request[q].person
        => p = q

\* Nobody grants what he does not reach: no chain of approvals and edits, not
\* even through levels that were lowered or people removed after the check,
\* lifts anybody above the highest level held at the start -- nor anybody to
\* super_admin.
NobodyOutranksTheFirst ==
    \A p \in People :
        \/ level[p] = FirstLevel[p]
        \/ level[p] # SuperAdmin /\ \E a \in Approvers : level[p] <= FirstLevel[a]

\* The outbox tells of what was written, request by request: each creation and
\* each resolution -- the one a second approver wrote over the first included --
\* is in the outbox, or owed by a handler that is still running, or its own
\* handler failed between the write and the outbox; and nobody is told of
\* anything that was never written.  What a handler lost so nobody sends again:
\* to repeat the call answers ALREADY_RESOLVED.
OutboxTellsWhatWasWritten ==
    /\ notices \subseteq written
    /\ written \subseteq notices \cup lost \cup UNION {Owed(c) : c \in Calls}

\* A resolved request keeps its resolution (cargarResoluble: "La solicitud ya
\* fue resuelta").
ResolvedOnce ==
    [][\A q \in DOMAIN request :
         request[q].state # "pending" => request'[q] = request[q]]_vars
=============================================================================
