------------------------------ MODULE Settings ------------------------------
(***************************************************************************)
(* A document of settings that exists once and is kept in memory:          *)
(* AppSettingsService (src/src/app-settings), and with the same code       *)
(* SiscoutConfigService (src/src/siscout/config), on which Schedule builds.*)
(*                                                                         *)
(* An update is one findOneAndUpdate, and the copy becomes what its reply  *)
(* says is stored.  Updates run on connections of their own: replies may   *)
(* be handled in another order than the writes were made in.               *)
(***************************************************************************)
EXTENDS Naturals

CONSTANTS
    Fields,
    Values,      \* what the document may say: functions from Fields
    Defaults,
    Patches,     \* what a request may ask to change
    NoDoc,       \* nothing stored yet
    Requests,    \* updates that may be under way at the same time
    NoRequest,
    MaxAsks,     \* bound: updates and resets
    MaxRestarts  \* bound: restarts of the process

ASSUME SettingsAssumption ==
    /\ Defaults \in Values
    /\ \A v \in Values : DOMAIN v = Fields
    /\ \A patch \in Patches : DOMAIN patch \subseteq Fields
    /\ \A v \in Values, patch \in Patches \cup {Defaults} :
          [f \in Fields |-> IF f \in DOMAIN patch THEN patch[f] ELSE v[f]] \in Values
    /\ NoDoc \notin Values
    /\ NoRequest \notin Requests
    /\ MaxAsks \in Nat /\ MaxRestarts \in Nat

VARIABLES
    stored,   \* the document
    cached,   \* the copy
    loaded,   \* the process is up and serves requests
    request,  \* per request: sent, or replied to and not handled yet
    latest,   \* history: the request that wrote last, until its reply is handled
    astray,   \* history: the latest reply was lost, or handled before an older one
    asks, restarts

settings == <<stored, cached, loaded, request, latest, astray, asks, restarts>>

Idle == [at |-> "idle"]
RequestStates == [at : {"sent"}, patch : Patches \cup {Defaults}]
                   \cup [at : {"reply"}, doc : Values] \cup {Idle}

Goes(r, state) == request' = [request EXCEPT ![r] = state]

----------------------------------------------------------------------------
\* update and, with every field, reset.
Ask(r, patch) ==
    /\ loaded
    /\ request[r] = Idle
    /\ asks < MaxAsks
    /\ asks' = asks + 1
    /\ Goes(r, [at |-> "sent", patch |-> patch])
    /\ UNCHANGED <<stored, cached, loaded, latest, astray, restarts>>

Update(r) == \E patch \in Patches : Ask(r, patch)

Reset(r) == Ask(r, Defaults)

\* Faulty variant: the document is replaced.
PatchAlone(patch) == patch

\* $set: the fields the patch leaves out stay as they are stored.
Merged(patch) == [f \in Fields |-> IF f \in DOMAIN patch THEN patch[f] ELSE stored[f]]

\* Faulty variant: the reply is the document as it was before.
WriteReturnsOld(r) ==
    /\ request[r].at = "sent"
    /\ stored' = Merged(request[r].patch)
    /\ Goes(r, [at |-> "reply", doc |-> stored])
    /\ latest' = r
    /\ astray' = FALSE
    /\ UNCHANGED <<cached, loaded, asks, restarts>>

\* findOneAndUpdate, its reply on its way: returnDocument is 'after'.
Write(r) ==
    /\ request[r].at = "sent"
    /\ stored' = Merged(request[r].patch)
    /\ Goes(r, [at |-> "reply", doc |-> Merged(request[r].patch)])
    /\ latest' = r
    /\ astray' = FALSE
    /\ UNCHANGED <<cached, loaded, asks, restarts>>

\* toValues of the reply replaces the copy, whatever came in between.
Receive(r) ==
    /\ request[r].at = "reply"
    /\ cached' = request[r].doc
    /\ Goes(r, Idle)
    /\ latest' = IF latest = r THEN NoRequest ELSE latest
    /\ astray' = IF latest = NoRequest THEN cached' # stored ELSE FALSE
    /\ UNCHANGED <<stored, loaded, asks, restarts>>

\* The query throws: it was not carried out, or its reply does not arrive.
Lose(r) ==
    /\ request[r] # Idle
    /\ Goes(r, Idle)
    /\ latest' = IF latest = r THEN NoRequest ELSE latest
    /\ astray' = (astray \/ latest = r)
    /\ UNCHANGED <<stored, cached, loaded, asks, restarts>>

\* The process ends; what it had sent is stored by now, or never.
Restart ==
    /\ loaded
    /\ restarts < MaxRestarts
    /\ restarts' = restarts + 1
    /\ loaded' = FALSE
    /\ cached' = Defaults
    /\ request' = [r \in Requests |-> Idle]
    /\ latest' = NoRequest
    /\ astray' = FALSE
    /\ UNCHANGED <<stored, asks>>

\* ensureLoaded, before any request: the defaults are stored the first time.
EnsureLoaded ==
    /\ ~ loaded
    /\ stored' = IF stored = NoDoc THEN Defaults ELSE stored
    /\ cached' = stored'
    /\ loaded' = TRUE
    /\ UNCHANGED <<request, latest, astray, asks, restarts>>

SettingsInit ==
    /\ stored \in Values \cup {NoDoc}
    /\ cached = Defaults
    /\ loaded = FALSE
    /\ request = [r \in Requests |-> Idle]
    /\ latest = NoRequest
    /\ astray = FALSE
    /\ asks = 0
    /\ restarts = 0

----------------------------------------------------------------------------
SettingsTypeOK ==
    /\ stored \in Values \cup {NoDoc}
    /\ cached \in Values
    /\ loaded \in BOOLEAN
    /\ request \in [Requests -> RequestStates]
    /\ latest \in Requests \cup {NoRequest}
    /\ astray \in BOOLEAN
    /\ asks \in 0..MaxAsks
    /\ restarts \in 0..MaxRestarts

\* The copy in memory is what is stored, or the reply to the latest write is
\* still to be handled, or it was lost or handled before an older one: updates
\* that overlap, and restarts, part the two in no other way.
CopyHasACause ==
    loaded => cached = stored \/ latest # NoRequest \/ astray
=============================================================================
