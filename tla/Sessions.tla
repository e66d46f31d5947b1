------------------------------ MODULE Sessions ------------------------------
(***************************************************************************)
(* AuthService and PasswordResetService (src/src/auth, password-reset):    *)
(* registration, login, refresh-token rotation, logout, and the reset of a *)
(* forgotten password by a mailed link.  They share users.passwordHash and *)
(* the refresh_tokens collection, without a transaction: every await on    *)
(* MongoDB or Redis ends a step, and a handler carries what it read.       *)
(*                                                                         *)
(* Which password was saved is abstracted to whether there is one.  Access *)
(* tokens, the profile cache and the mails leave no state here.            *)
(***************************************************************************)
EXTENDS Naturals

CONSTANTS
    Users,
    Calls,          \* handlers that may be running at the same time
    RateLimitMax,   \* RATE_LIMIT_MAX
    MaxSessions,    \* bound: refresh tokens ever created
    MaxLinks        \* bound: reset tokens ever created

ASSUME SessionsAssumption ==
    /\ Users # {}
    /\ RateLimitMax \in Nat \ {0}
    /\ MaxSessions \in Nat
    /\ MaxLinks \in Nat

VARIABLES
    account,      \* per user: no password yet, with one, or deleted
    session,      \* refresh_tokens: a function on the ids that exist
    nextSession,
    link,         \* password_reset_tokens: a function on the ids that exist
    nextLink,
    attempts,     \* the Redis counter password_reset_attempts:<user>
    call,         \* what each handler carries from one await to the next
    saved,        \* history: nextSession when a reset last saved the password
    closed,       \* history: sessions below it preceded an answered reset
    cut           \* history: ... or one that threw after saving the password

history == <<saved, closed, cut>>
vars == <<account, session, nextSession, link, nextLink, attempts, call, history>>

SessionDoc == [user : Users, revoked : BOOLEAN]
LinkDoc    == [user : Users, used : BOOLEAN]

Steps == {"idle", "register", "issue", "rotate", "owner", "count", "lookup",
          "discard", "create", "save", "mark", "sweep", "close"}

\* seen: the attempts read, or nextSession when a reset saved the password.
CallState == [step : Steps, user : Users, session : Nat, link : Nat,
              seen : Nat]

Carry(u) == [step |-> "idle", user |-> u, session |-> 0, link |-> 0,
             seen |-> 0]

Idle == Carry(CHOOSE u \in Users : TRUE)

At(c, step) == call[c].step = step

Begin(c, record) ==
    /\ At(c, "idle")
    /\ call' = [call EXCEPT ![c] = record]

Goto(c, step) == call' = [call EXCEPT ![c].step = step]

Raised(marks, u, n) == [marks EXCEPT ![u] = IF @ < n THEN n ELSE @]

\* The handler answers, or throws.
Return(c) == call' = [call EXCEPT ![c] = Idle]

PendingLinks(u) == {l \in DOMAIN link : link[l].user = u /\ ~link[l].used}

----------------------------------------------------------------------------
(* auth.service: register, validateCredentials and login, refresh, logout. *)

Register(c, u) ==
    /\ account[u] = "new"
    /\ Begin(c, [Carry(u) EXCEPT !.step = "register"])
    /\ UNCHANGED <<account, session, nextSession, link, nextLink, attempts, history>>

\* After the hash: save() of a deleted document throws.
SaveRegistration(c) ==
    LET u == call[c].user
    IN  /\ At(c, "register")
        /\ IF account[u] = "gone"
             THEN Return(c) /\ UNCHANGED account
             ELSE Goto(c, "issue") /\ account' = [account EXCEPT ![u] = "registered"]
        /\ UNCHANGED <<session, nextSession, link, nextLink, attempts, history>>

\* The caller knows the password that was stored when it was compared.
LogIn(c, u) ==
    /\ account[u] = "registered"
    /\ Begin(c, [Carry(u) EXCEPT !.step = "issue"])
    /\ UNCHANGED <<account, session, nextSession, link, nextLink, attempts, history>>

CheckSession(c, t) ==
    /\ t \in DOMAIN session
    /\ ~session[t].revoked
    /\ Begin(c, [Carry(session[t].user) EXCEPT
                   !.step = "rotate", !.session = t])
    /\ UNCHANGED <<account, session, nextSession, link, nextLink, attempts, history>>

\* Faulty variant of Rotate: the token is renewed in its own document.
RotateInPlace(c) ==
    LET t == call[c].session
    IN  /\ At(c, "rotate")
        /\ IF t \in DOMAIN session
             THEN Return(c) /\ session' = [session EXCEPT ![t].revoked = FALSE]
             ELSE Return(c) /\ UNCHANGED session
        /\ UNCHANGED <<account, nextSession, link, nextLink, attempts, history>>

\* stored.revoked = true; save() throws if the document has expired away.
Rotate(c) ==
    LET t == call[c].session
    IN  /\ At(c, "rotate")
        /\ IF t \in DOMAIN session
             THEN Goto(c, "owner") /\ session' = [session EXCEPT ![t].revoked = TRUE]
             ELSE Return(c) /\ UNCHANGED session
        /\ UNCHANGED <<account, nextSession, link, nextLink, attempts, history>>

FindOwner(c) ==
    /\ At(c, "owner")
    /\ IF account[call[c].user] = "gone" THEN Return(c) ELSE Goto(c, "issue")
    /\ UNCHANGED <<account, session, nextSession, link, nextLink, attempts, history>>

\* issueAuthResult, createRefreshToken
Issue(c) ==
    /\ At(c, "issue")
    /\ nextSession <= MaxSessions
    /\ session' = [t \in DOMAIN session \cup {nextSession} |->
                     IF t = nextSession
                       THEN [user |-> call[c].user, revoked |-> FALSE]
                       ELSE session[t]]
    /\ nextSession' = nextSession + 1
    /\ Return(c)
    /\ UNCHANGED <<account, link, nextLink, attempts, history>>

LogOut(t) ==
    /\ t \in DOMAIN session
    /\ session' = [session EXCEPT ![t].revoked = TRUE]
    /\ UNCHANGED <<account, nextSession, link, nextLink, attempts, call, history>>

----------------------------------------------------------------------------
(* password-reset.service: request.                                        *)

\* consumeAttempt reads the counter ...
AskForLink(c, u) ==
    /\ attempts[u] < RateLimitMax
    /\ Begin(c, [Carry(u) EXCEPT !.step = "count", !.seen = attempts[u]])
    /\ UNCHANGED <<account, session, nextSession, link, nextLink, attempts, history>>

\* ... and sets it to one more than it read.
CountAttempt(c) ==
    /\ At(c, "count")
    /\ attempts' = [attempts EXCEPT ![call[c].user] = call[c].seen + 1]
    /\ Goto(c, "lookup")
    /\ UNCHANGED <<account, session, nextSession, link, nextLink, history>>

\* Answers not_found, no_account or no_email, or goes on to issue a link.
LookUp(c) ==
    /\ At(c, "lookup")
    /\ \/ Return(c)
       \/ account[call[c].user] = "registered" /\ Goto(c, "discard")
    /\ UNCHANGED <<account, session, nextSession, link, nextLink, attempts, history>>

\* discardPendingTokens, before a link is issued or after one was used.
DiscardPending(c) ==
    LET rest == DOMAIN link \ PendingLinks(call[c].user)
    IN  /\ \/ At(c, "discard") /\ Goto(c, "create")
           \/ At(c, "sweep") /\ Goto(c, "close")
        /\ link' = [l \in rest |-> link[l]]
        /\ UNCHANGED <<account, session, nextSession, nextLink, attempts, history>>

CreateLink(c) ==
    /\ At(c, "create")
    /\ nextLink <= MaxLinks
    /\ link' = [l \in DOMAIN link \cup {nextLink} |->
                  IF l = nextLink THEN [user |-> call[c].user, used |-> FALSE]
                                  ELSE link[l]]
    /\ nextLink' = nextLink + 1
    /\ Return(c)
    /\ UNCHANGED <<account, session, nextSession, attempts, history>>

----------------------------------------------------------------------------
(* password-reset.service: confirm.                                        *)

\* findUsableToken: an expired link counts as deleted.
Usable(l) == l \in DOMAIN link /\ ~link[l].used

\* The link, and the user it belongs to.
CheckLink(c, l) ==
    /\ Usable(l)
    /\ account[link[l].user] # "gone"
    /\ Begin(c, [Carry(link[l].user) EXCEPT !.step = "save", !.link = l])
    /\ UNCHANGED <<account, session, nextSession, link, nextLink, attempts, history>>

SavePassword(c) ==
    LET u == call[c].user
    IN  /\ At(c, "save")
        /\ IF account[u] = "gone"
             THEN Return(c) /\ UNCHANGED <<account, saved>>
             ELSE /\ call' = [call EXCEPT ![c].step = "mark", ![c].seen = nextSession]
                  /\ account' = [account EXCEPT ![u] = "registered"]
                  /\ saved' = [saved EXCEPT ![u] = nextSession]
        /\ UNCHANGED <<session, nextSession, link, nextLink, attempts, closed, cut>>

\* The handler of a confirm throws after it saved the password.
CutShort(c) == Return(c) /\ cut' = Raised(cut, call[c].user, call[c].seen)

\* Faulty variant of MarkUsed: a link found used ends the call.
MarkUsedOnce(c) ==
    LET l == call[c].link
    IN  /\ At(c, "mark")
        /\ CASE l \notin DOMAIN link -> CutShort(c) /\ UNCHANGED link
             [] Usable(l) -> Goto(c, "sweep") /\ link' = [link EXCEPT ![l].used = TRUE] /\ UNCHANGED cut
             [] OTHER -> Return(c) /\ UNCHANGED <<link, cut>>
        /\ UNCHANGED <<account, session, nextSession, nextLink, attempts, saved, closed>>

\* stored.usedAt = now; save() throws if the document was discarded meanwhile.
MarkUsed(c) ==
    LET l == call[c].link
    IN  /\ At(c, "mark")
        /\ IF l \in DOMAIN link
             THEN Goto(c, "sweep") /\ link' = [link EXCEPT ![l].used = TRUE] /\ UNCHANGED cut
             ELSE CutShort(c) /\ UNCHANGED link
        /\ UNCHANGED <<account, session, nextSession, nextLink, attempts, saved, closed>>

\* Every session of the user is revoked and the reset is answered.
CloseSessions(c) ==
    LET u == call[c].user
    IN  /\ At(c, "close")
        /\ session' = [t \in DOMAIN session |->
                         IF session[t].user = u
                           THEN [session[t] EXCEPT !.revoked = TRUE]
                           ELSE session[t]]
        /\ closed' = Raised(closed, u, call[c].seen)
        /\ Return(c)
        /\ UNCHANGED <<account, nextSession, link, nextLink, attempts, saved, cut>>

----------------------------------------------------------------------------
(* Failures, time, and the rest of the system.                             *)

\* A query is rejected, or the server restarts: nothing is caught, and the
\* handler ends wherever it was.  (If the write was made and only its answer was
\* lost, the handler fails at the step that follows.)
Fail(c) ==
    /\ ~At(c, "idle")
    /\ IF call[c].step \in {"mark", "sweep", "close"}
         THEN CutShort(c)
         ELSE Return(c) /\ UNCHANGED cut
    /\ UNCHANGED <<account, session, nextSession, link, nextLink, attempts, saved, closed>>

\* The TTL indexes delete what has expired; until then an expired document
\* is refused like a missing one.
ExpireSession(t) ==
    /\ t \in DOMAIN session
    /\ session' = [s \in DOMAIN session \ {t} |-> session[s]]
    /\ UNCHANGED <<account, nextSession, link, nextLink, attempts, call, history>>

ExpireLink(l) ==
    /\ l \in DOMAIN link
    /\ link' = [k \in DOMAIN link \ {l} |-> link[k]]
    /\ UNCHANGED <<account, session, nextSession, nextLink, attempts, call, history>>

\* The 15-minute window of the counter ends.
WindowEnds(u) ==
    /\ attempts[u] > 0
    /\ attempts' = [attempts EXCEPT ![u] = 0]
    /\ UNCHANGED <<account, session, nextSession, link, nextLink, call, history>>

\* DELETE /users/:id leaves the tokens of the user behind.
RemoveUser(u) ==
    /\ account[u] # "gone"
    /\ account' = [account EXCEPT ![u] = "gone"]
    /\ UNCHANGED <<session, nextSession, link, nextLink, attempts, call, history>>

----------------------------------------------------------------------------
Init ==
    /\ account \in [Users -> {"new", "registered"}]
    /\ session = [t \in {} |-> t]
    /\ nextSession = 1
    /\ link = [l \in {} |-> l]
    /\ nextLink = 1
    /\ attempts = [u \in Users |-> 0]
    /\ call = [c \in Calls |-> Idle]
    /\ saved = [u \in Users |-> 0]
    /\ closed = [u \in Users |-> 0]
    /\ cut = [u \in Users |-> 0]

Arrives(c) ==
    \/ \E u \in Users : Register(c, u) \/ LogIn(c, u) \/ AskForLink(c, u)
    \/ \E t \in DOMAIN session : CheckSession(c, t)
    \/ \E l \in DOMAIN link : CheckLink(c, l)

Continues(c) ==
    \/ SaveRegistration(c) \/ Rotate(c) \/ FindOwner(c) \/ Issue(c)
    \/ CountAttempt(c) \/ LookUp(c) \/ DiscardPending(c) \/ CreateLink(c)
    \/ SavePassword(c) \/ MarkUsed(c) \/ CloseSessions(c)

Environment ==
    \/ \E t \in DOMAIN session : LogOut(t) \/ ExpireSession(t)
    \/ \E l \in DOMAIN link : ExpireLink(l)
    \/ \E u \in Users : WindowEnds(u) \/ RemoveUser(u)

Next == (\E c \in Calls : Arrives(c) \/ Continues(c) \/ Fail(c)) \/ Environment

\* A handler that was called goes on, or fails: the code awaits nothing but the
\* stores.
Fairness == \A c \in Calls : WF_vars(Continues(c))

Spec == Init /\ [][Next]_vars /\ Fairness

----------------------------------------------------------------------------
(* Properties.                                                             *)

\* The variables hold what the schemas allow, and the ids in use are below
\* the next one.
TypeOK ==
    /\ account \in [Users -> {"new", "registered", "gone"}]
    /\ nextSession \in Nat \ {0}
    /\ DOMAIN session \subseteq 1 .. (nextSession - 1)
    /\ session \in [DOMAIN session -> SessionDoc]
    /\ nextLink \in Nat \ {0}
    /\ DOMAIN link \subseteq 1 .. (nextLink - 1)
    /\ link \in [DOMAIN link -> LinkDoc]
    /\ attempts \in [Users -> Nat]
    /\ call \in [Calls -> CallState]
    /\ saved \in [Users -> Nat]
    /\ closed \in [Users -> Nat]
    /\ cut \in [Users -> Nat]

\* Once a reset has answered, every session that existed when it saved the
\* password is and stays revoked, whatever refreshes, logins, other resets and
\* restarts overlapped it (confirm: "cierra todo lo demas").
ResetClosesOlderSessions ==
    \A t \in DOMAIN session :
        t < closed[session[t].user] => session[t].revoked

\* A password saved by a reset leads to the closing of the sessions before it,
\* unless a reset that saved it, or a later one, threw: its link was deleted
\* before it could be marked, by a request for another link, by another reset or
\* by its TTL, or a query after the save was rejected.  In particular two
\* resets by one link do not cut each other short, although the second finds it
\* used.
SavedPasswordClosesSessions ==
    \A u \in Users, m \in 1 .. MaxSessions + 1 :
        saved[u] = m ~> closed[u] >= m \/ cut[u] >= m
=============================================================================
