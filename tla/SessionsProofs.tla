--------------------------- MODULE SessionsProofs ---------------------------
(***************************************************************************)
(* A reset closes the sessions that preceded it: ResetClosesOlderSessions  *)
(* for any number of users, handlers and tokens.  And none is forgotten: a *)
(* password that was saved has closed them, is about to, or its handler    *)
(* threw.                                                                  *)
(***************************************************************************)
EXTENDS Sessions, TLAPS

\* What a reset carries, and what the answered ones left behind, counts
\* sessions that exist already.
MarksBehind ==
    /\ \A u \in Users : closed[u] <= nextSession
    /\ \A c \in Calls :
         call[c].step \in {"mark", "sweep", "close"} => call[c].seen <= nextSession

\* The inductive invariant.
IInv == TypeOK /\ MarksBehind /\ ResetClosesOlderSessions

Closing(c) == call[c].step \in {"mark", "sweep", "close"}

\* A saved password has closed the sessions before it, or will: a handler is on
\* the way there; or a handler that was has thrown.
SavedIsSeenTo ==
    \A u \in Users :
        \/ saved[u] <= closed[u]
        \/ saved[u] <= cut[u]
        \/ \E c \in Calls : Closing(c) /\ call[c].user = u /\ saved[u] <= call[c].seen

\* A mark is only raised, to what it is given at least.
LEMMA RaisedMarks ==
  ASSUME NEW marks \in [Users -> Nat], NEW u \in Users, NEW n \in Nat
  PROVE  /\ Raised(marks, u, n) \in [Users -> Nat]
         /\ Raised(marks, u, n)[u] \in {marks[u], n}
         /\ n <= Raised(marks, u, n)[u]
         /\ \A v \in Users : marks[v] <= Raised(marks, u, n)[v]
         /\ \A v \in Users \ {u} : Raised(marks, u, n)[v] = marks[v]
BY DEF Raised

\* A handler at rest is a well-typed one.
LEMMA IdleType == Idle \in CallState /\ Idle.step = "idle"
BY SessionsAssumption DEF Idle, Carry, CallState, Steps

\* Every record a handler starts with is well typed.
LEMMA CarryType ==
  ASSUME NEW u \in Users
  PROVE  /\ Carry(u) \in CallState
         /\ Carry(u).user = u
BY DEF Carry, CallState, Steps

\* The variables keep their types, whatever a running handler does.
LEMMA ContinuesType ==
  ASSUME TypeOK, NEW c \in Calls, Continues(c)
  PROVE  TypeOK'
<1>. USE IdleType, SessionsAssumption DEF TypeOK, At, Goto, Return
<1>t. call[c] \in CallState /\ call[c].user \in Users
      /\ call[c].seen \in Nat
  BY DEF CallState
<1>g. ASSUME NEW s \in Steps, Goto(c, s)
      PROVE  call' \in [Calls -> CallState]
  BY <1>g, <1>t DEF CallState
<1>r. ASSUME Return(c) PROVE call' \in [Calls -> CallState]
  BY <1>r
<1>h. ASSUME UNCHANGED history
      PROVE  /\ saved' \in [Users -> Nat] /\ closed' \in [Users -> Nat]
             /\ cut' \in [Users -> Nat]
  BY <1>h DEF history
<1>k. ASSUME CutShort(c)
      PROVE  call' \in [Calls -> CallState] /\ cut' \in [Users -> Nat]
  BY <1>k, <1>r, <1>t, RaisedMarks DEF CutShort
<1>1. CASE SaveRegistration(c)
  <2>1. call' \in [Calls -> CallState]
    BY <1>1, <1>g, <1>r DEF SaveRegistration, Steps
  <2>2. account' \in [Users -> {"new", "registered", "gone"}]
    BY <1>1, <1>t DEF SaveRegistration
  <2>. QED BY <2>1, <2>2, <1>1, <1>h DEF SaveRegistration
<1>2. CASE Rotate(c)
  <2>1. session' \in [DOMAIN session' -> SessionDoc] /\ DOMAIN session' = DOMAIN session
    <3>1. CASE call[c].session \in DOMAIN session
      <4>. DEFINE t == call[c].session
                  d == [session[t] EXCEPT !.revoked = TRUE]
      <4>. HIDE DEF TypeOK
      <4>0. session[t] \in SessionDoc
        BY <3>1 DEF TypeOK
      <4>1. d \in SessionDoc
        BY <4>0 DEF SessionDoc
      <4>2. session' = [session EXCEPT ![t] = d]
        BY <1>2, <3>1 DEF Rotate
      <4>. HIDE DEF d, t
      <4>. QED BY <4>1, <4>2 DEF TypeOK
    <3>2. CASE call[c].session \notin DOMAIN session
      BY <1>2, <3>2 DEF Rotate
    <3>. QED BY <3>1, <3>2
  <2>. QED BY <2>1, <1>2, <1>g, <1>r, <1>h DEF Rotate, Steps
<1>3. CASE FindOwner(c)
  BY <1>3, <1>g, <1>r, <1>h DEF FindOwner, Steps
<1>4. CASE Issue(c)
  <2>1. nextSession' \in Nat \ {0} /\ DOMAIN session' \subseteq 1 .. (nextSession' - 1)
    BY <1>4 DEF Issue
  <2>2. session' \in [DOMAIN session' -> SessionDoc]
    BY <1>4, <1>t DEF Issue, SessionDoc
  <2>. QED BY <2>1, <2>2, <1>4, <1>r, <1>h DEF Issue
<1>5. CASE CountAttempt(c)
  <2>1. attempts' \in [Users -> Nat]
    BY <1>5, <1>t DEF CountAttempt
  <2>. QED BY <2>1, <1>5, <1>g, <1>h DEF CountAttempt, Steps
<1>6. CASE LookUp(c)
  BY <1>6, <1>g, <1>r, <1>h DEF LookUp, Steps
<1>7. CASE DiscardPending(c)
  <2>1. link' \in [DOMAIN link' -> LinkDoc] /\ DOMAIN link' \subseteq DOMAIN link
    BY <1>7 DEF DiscardPending
  <2>. QED BY <2>1, <1>7, <1>g, <1>h DEF DiscardPending, Steps
<1>8. CASE CreateLink(c)
  <2>1. nextLink' \in Nat \ {0} /\ DOMAIN link' \subseteq 1 .. (nextLink' - 1)
    BY <1>8 DEF CreateLink
  <2>2. link' \in [DOMAIN link' -> LinkDoc]
    BY <1>8, <1>t DEF CreateLink, LinkDoc
  <2>. QED BY <2>1, <2>2, <1>8, <1>r, <1>h DEF CreateLink
<1>9. CASE SavePassword(c)
  <2>1. ASSUME call' = [call EXCEPT ![c].step = "mark", ![c].seen = nextSession]
        PROVE  call' \in [Calls -> CallState]
    <3>. DEFINE carried == [call[c] EXCEPT !.step = "mark", !.seen = nextSession]
    <3>1. carried \in CallState
      BY <1>t DEF CallState, Steps
    <3>2. call' = [call EXCEPT ![c] = carried]
      BY <2>1
    <3>. QED BY <3>1, <3>2
  <2>2. call' \in [Calls -> CallState]
    BY <2>1, <1>9, <1>r DEF SavePassword
  <2>3. account' \in [Users -> {"new", "registered", "gone"}]
    BY <1>9, <1>t DEF SavePassword
  <2>4. saved' \in [Users -> Nat]
    BY <1>9, <1>t DEF SavePassword
  <2>. QED BY <2>2, <2>3, <2>4, <1>9 DEF SavePassword
<1>10. CASE MarkUsed(c)
  <2>1. link' \in [DOMAIN link' -> LinkDoc] /\ DOMAIN link' = DOMAIN link
    <3>1. CASE call[c].link \in DOMAIN link
      <4>. DEFINE l == call[c].link
                  d == [link[l] EXCEPT !.used = TRUE]
      <4>. HIDE DEF TypeOK
      <4>0. link[l] \in LinkDoc
        BY <3>1 DEF TypeOK
      <4>1. d \in LinkDoc
        BY <4>0 DEF LinkDoc
      <4>2. link' = [link EXCEPT ![l] = d]
        BY <1>10, <3>1 DEF MarkUsed
      <4>. HIDE DEF d, l
      <4>. QED BY <4>1, <4>2 DEF TypeOK
    <3>2. CASE call[c].link \notin DOMAIN link
      BY <1>10, <3>2 DEF MarkUsed
    <3>. QED BY <3>1, <3>2
  <2>2. call' \in [Calls -> CallState] /\ cut' \in [Users -> Nat]
    BY <1>10, <1>g, <1>k DEF MarkUsed, Steps
  <2>. QED BY <2>1, <2>2, <1>10 DEF MarkUsed
<1>11. CASE CloseSessions(c)
  <2>1. session' \in [DOMAIN session' -> SessionDoc] /\ DOMAIN session' = DOMAIN session
    BY <1>11 DEF CloseSessions, SessionDoc
  <2>2. closed' \in [Users -> Nat]
    BY <1>11, <1>t, RaisedMarks DEF CloseSessions
  <2>. QED BY <2>1, <2>2, <1>11, <1>r DEF CloseSessions
<1>. QED
  BY <1>1, <1>2, <1>3, <1>4, <1>5, <1>6, <1>7, <1>8, <1>9, <1>10, <1>11 DEF Continues

\* Nor does a handler that starts, or anything else in the system, write a
\* value out of type.
LEMMA OtherStepsType ==
  ASSUME TypeOK, (\E c \in Calls : Arrives(c) \/ Fail(c)) \/ Environment
  PROVE  TypeOK'
<1>. USE DEF TypeOK, history
<1>1. ASSUME NEW c \in Calls, Arrives(c) PROVE TypeOK'
  <2>b. ASSUME NEW r \in CallState, Begin(c, r) PROVE call' \in [Calls -> CallState]
    BY <2>b DEF Begin
  <2>1. ASSUME NEW u \in Users, Register(c, u) PROVE TypeOK'
    <3>1. [Carry(u) EXCEPT !.step = "register"] \in CallState
      BY DEF Carry, CallState, Steps
    <3>. QED BY <3>1, <2>1, <2>b DEF Register
  <2>2. ASSUME NEW u \in Users, LogIn(c, u) PROVE TypeOK'
    <3>1. [Carry(u) EXCEPT !.step = "issue"] \in CallState
      BY DEF Carry, CallState, Steps
    <3>. QED BY <3>1, <2>2, <2>b DEF LogIn
  <2>3. ASSUME NEW u \in Users, AskForLink(c, u) PROVE TypeOK'
    <3>1. [Carry(u) EXCEPT !.step = "count", !.seen = attempts[u]] \in CallState
      BY DEF Carry, CallState, Steps
    <3>. QED BY <3>1, <2>3, <2>b DEF AskForLink
  <2>4. ASSUME NEW t \in DOMAIN session, CheckSession(c, t) PROVE TypeOK'
    <3>1. session[t].user \in Users /\ t \in Nat
      BY DEF SessionDoc
    <3>2. [Carry(session[t].user) EXCEPT
             !.step = "rotate", !.session = t] \in CallState
      BY <3>1 DEF Carry, CallState, Steps
    <3>. QED BY <3>2, <2>4, <2>b DEF CheckSession
  <2>5. ASSUME NEW l \in DOMAIN link, CheckLink(c, l) PROVE TypeOK'
    <3>1. link[l].user \in Users /\ l \in Nat
      BY DEF LinkDoc
    <3>2. [Carry(link[l].user) EXCEPT !.step = "save", !.link = l] \in CallState
      BY <3>1 DEF Carry, CallState, Steps
    <3>. QED BY <3>2, <2>5, <2>b DEF CheckLink, Usable
  <2>. QED BY <1>1, <2>1, <2>2, <2>3, <2>4, <2>5 DEF Arrives
<1>2. ASSUME NEW t \in DOMAIN session, LogOut(t) PROVE TypeOK'
  <2>1. session' \in [DOMAIN session' -> SessionDoc] /\ DOMAIN session' = DOMAIN session
    BY <1>2 DEF LogOut, SessionDoc
  <2>. QED BY <2>1, <1>2 DEF LogOut
<1>3. ASSUME NEW t \in DOMAIN session, ExpireSession(t) PROVE TypeOK'
  BY <1>3 DEF ExpireSession
<1>4. ASSUME NEW l \in DOMAIN link, ExpireLink(l) PROVE TypeOK'
  BY <1>4 DEF ExpireLink
<1>5. ASSUME NEW u \in Users, WindowEnds(u) \/ RemoveUser(u) PROVE TypeOK'
  BY <1>5 DEF WindowEnds, RemoveUser
<1>6. ASSUME NEW c \in Calls, Fail(c) PROVE TypeOK'
  <2>1. call[c].user \in Users /\ call[c].seen \in Nat
    BY DEF CallState
  <2>2. call' \in [Calls -> CallState]
    BY <1>6, IdleType DEF Fail, CutShort, Return
  <2>3. cut' \in [Users -> Nat]
    <3>1. cut' = cut \/ cut' = Raised(cut, call[c].user, call[c].seen)
      BY <1>6 DEF Fail, CutShort
    <3>2. cut \in [Users -> Nat]
      OBVIOUS
    <3>. HIDE DEF TypeOK
    <3>. QED BY <2>1, <3>1, <3>2, RaisedMarks
  <2>. QED BY <1>6, <2>2, <2>3 DEF Fail
<1>. QED
  BY <1>1, <1>2, <1>3, <1>4, <1>5, <1>6 DEF Environment

\* A running handler keeps the older sessions closed: what it creates is newer
\* than every reset, and the only thing it does to a session is to revoke it.
LEMMA ContinuesCloses ==
  ASSUME IInv, NEW c \in Calls, Continues(c)
  PROVE  MarksBehind' /\ ResetClosesOlderSessions'
<1>. USE DEF IInv, TypeOK, MarksBehind, ResetClosesOlderSessions, history
<1>i. Idle.step = "idle"
  BY IdleType
<1>d. \A t \in DOMAIN session : t \in Nat /\ t < nextSession
      /\ session[t].user \in Users
  BY DEF SessionDoc
<1>g. ASSUME NEW s \in {"owner", "issue", "lookup", "discard", "create"},
             Goto(c, s), UNCHANGED <<nextSession, closed>>
      PROVE  MarksBehind'
  BY <1>g DEF Goto, CallState
<1>m. ASSUME NEW s \in {"sweep", "close"}, Goto(c, s),
             call[c].step \in {"mark", "sweep"}, UNCHANGED <<nextSession, closed>>
      PROVE  MarksBehind'
  BY <1>m DEF Goto, CallState
<1>r. ASSUME Return(c), UNCHANGED <<nextSession, closed>>
      PROVE  MarksBehind'
  BY <1>r, <1>i DEF Return
<1>s. ASSUME UNCHANGED <<session, closed>> PROVE ResetClosesOlderSessions'
  BY <1>s
<1>1. CASE SaveRegistration(c)
  BY <1>1, <1>g, <1>r, <1>s DEF SaveRegistration
<1>2. CASE Rotate(c)
  <2>1. ResetClosesOlderSessions'
    BY <1>2, <1>d DEF Rotate, SessionDoc
  <2>. QED BY <2>1, <1>2, <1>g, <1>r DEF Rotate
<1>3. CASE FindOwner(c)
  BY <1>3, <1>g, <1>r, <1>s DEF FindOwner
<1>4. CASE Issue(c)
  <2>1. MarksBehind'
    BY <1>4, <1>i DEF Issue, Return, CallState
  <2>2. call[c].user \in Users
    BY DEF CallState
  <2>3. ResetClosesOlderSessions'
    BY <1>4, <1>d, <2>2 DEF Issue
  <2>. QED BY <2>1, <2>3
<1>5. CASE CountAttempt(c)
  BY <1>5, <1>g, <1>s DEF CountAttempt
<1>6. CASE LookUp(c)
  BY <1>6, <1>g, <1>r, <1>s DEF LookUp
<1>7. CASE DiscardPending(c)
  BY <1>7, <1>g, <1>m, <1>s DEF DiscardPending, At
<1>8. CASE CreateLink(c)
  BY <1>8, <1>r, <1>s DEF CreateLink
<1>9. CASE SavePassword(c)
  <2>1. ASSUME call' = [call EXCEPT ![c].step = "mark", ![c].seen = nextSession],
               UNCHANGED <<nextSession, closed>>
        PROVE  MarksBehind'
    <3>. DEFINE carried == [call[c] EXCEPT !.step = "mark", !.seen = nextSession]
    <3>1. carried.seen = nextSession
      BY DEF CallState
    <3>2. call' = [call EXCEPT ![c] = carried]
      BY <2>1
    <3>. QED BY <3>1, <3>2, <2>1
  <2>. QED BY <2>1, <1>9, <1>r, <1>s DEF SavePassword
<1>10. CASE MarkUsed(c)
  BY <1>10, <1>m, <1>r, <1>s DEF MarkUsed, CutShort, At
<1>11. CASE CloseSessions(c)
  <2>. DEFINE u == call[c].user
  <2>1. u \in Users /\ call[c].seen \in Nat /\ call[c].seen <= nextSession
    BY <1>11 DEF CloseSessions, At, CallState
  <2>2. closed' = Raised(closed, u, call[c].seen)
    BY <1>11 DEF CloseSessions
  <2>3. \A v \in Users : closed'[v] <= nextSession /\ (v # u => closed'[v] = closed[v])
    <3>1. \A v \in Users : closed[v] <= nextSession
      OBVIOUS
    <3>2. closed \in [Users -> Nat] /\ nextSession \in Nat
      OBVIOUS
    <3>. HIDE DEF IInv, TypeOK, MarksBehind, ResetClosesOlderSessions, u
    <3>3. /\ closed'[u] \in {closed[u], call[c].seen}
          /\ \A v \in Users \ {u} : closed'[v] = closed[v]
      BY <2>1, <2>2, <3>2, RaisedMarks
    <3>. QED BY <2>1, <3>1, <3>2, <3>3
  <2>4. \A t \in DOMAIN session' : /\ t \in DOMAIN session
                                   /\ session'[t].user = session[t].user
                                   /\ session[t].user = u => session'[t].revoked
                                   /\ session[t].user # u => session'[t] = session[t]
    BY <1>11, <1>d DEF CloseSessions, SessionDoc
  <2>5. ResetClosesOlderSessions'
    BY <2>3, <2>4, <1>d
  <2>6. MarksBehind'
    BY <2>3, <1>11, <1>i DEF CloseSessions, Return
  <2>. QED BY <2>5, <2>6
<1>. QED
  BY <1>1, <1>2, <1>3, <1>4, <1>5, <1>6, <1>7, <1>8, <1>9, <1>10, <1>11 DEF Continues

\* The other steps create no session and bring none back.
LEMMA OtherStepsClose ==
  ASSUME IInv, (\E c \in Calls : Arrives(c) \/ Fail(c)) \/ Environment
  PROVE  MarksBehind' /\ ResetClosesOlderSessions'
<1>. USE DEF IInv, TypeOK, MarksBehind, ResetClosesOlderSessions, history
<1>1. ASSUME NEW c \in Calls, Arrives(c) PROVE MarksBehind' /\ ResetClosesOlderSessions'
  <2>1. \E r : Begin(c, r) /\ r.step \in {"register", "issue", "count", "rotate", "save"}
    <3>1. \A u \in Users : Register(c, u) \/ LogIn(c, u) \/ AskForLink(c, u) =>
            \E r : Begin(c, r) /\ r.step \in {"register", "issue", "count"}
      <4>. SUFFICES ASSUME NEW u \in Users
                    PROVE  Register(c, u) \/ LogIn(c, u) \/ AskForLink(c, u) =>
                             \E r : Begin(c, r) /\ r.step \in {"register", "issue", "count"}
        OBVIOUS
      <4>. DEFINE q(s) == [Carry(u) EXCEPT !.step = s]
                  k == [Carry(u) EXCEPT !.step = "count", !.seen = attempts[u]]
      <4>1. q("register").step = "register" /\ q("issue").step = "issue" /\ k.step = "count"
        BY DEF Carry
      <4>2. Register(c, u) => Begin(c, q("register"))
        BY DEF Register
      <4>3. LogIn(c, u) => Begin(c, q("issue"))
        BY DEF LogIn
      <4>4. AskForLink(c, u) => Begin(c, k)
        BY DEF AskForLink
      <4>. HIDE DEF q, k
      <4>. QED BY <4>1, <4>2, <4>3, <4>4
    <3>2. \A t \in DOMAIN session : CheckSession(c, t) =>
            \E r : Begin(c, r) /\ r.step = "rotate"
      <4>. SUFFICES ASSUME NEW t \in DOMAIN session, CheckSession(c, t)
                    PROVE  \E r : Begin(c, r) /\ r.step = "rotate"
        OBVIOUS
      <4>. DEFINE q == [Carry(session[t].user) EXCEPT
                          !.step = "rotate", !.session = t]
      <4>1. q.step = "rotate"
        BY DEF Carry
      <4>2. Begin(c, q)
        BY DEF CheckSession
      <4>. HIDE DEF q
      <4>. QED BY <4>1, <4>2
    <3>3. \A l \in DOMAIN link : CheckLink(c, l) =>
            \E r : Begin(c, r) /\ r.step = "save"
      <4>. SUFFICES ASSUME NEW l \in DOMAIN link, CheckLink(c, l)
                    PROVE  \E r : Begin(c, r) /\ r.step = "save"
        OBVIOUS
      <4>. DEFINE q == [Carry(link[l].user) EXCEPT !.step = "save", !.link = l]
      <4>1. q.step = "save"
        BY DEF Carry
      <4>2. Begin(c, q)
        BY DEF CheckLink, Usable
      <4>. HIDE DEF q
      <4>. QED BY <4>1, <4>2
    <3>. HIDE DEF TypeOK, MarksBehind, ResetClosesOlderSessions
    <3>. QED BY <1>1, <3>1, <3>2, <3>3, Zenon DEF Arrives
  <2>2. UNCHANGED <<session, nextSession, closed>>
    BY <1>1 DEF Arrives, Register, LogIn, AskForLink, CheckSession, CheckLink, Usable
  <2>. QED BY <2>1, <2>2 DEF Begin
<1>2. ASSUME NEW t \in DOMAIN session, LogOut(t)
      PROVE  MarksBehind' /\ ResetClosesOlderSessions'
  BY <1>2 DEF LogOut, SessionDoc
<1>3. ASSUME NEW t \in DOMAIN session, ExpireSession(t)
      PROVE  MarksBehind' /\ ResetClosesOlderSessions'
  BY <1>3 DEF ExpireSession
<1>4. ASSUME NEW l \in DOMAIN link, ExpireLink(l)
      PROVE  MarksBehind' /\ ResetClosesOlderSessions'
  BY <1>4 DEF ExpireLink
<1>5. ASSUME NEW u \in Users, WindowEnds(u) \/ RemoveUser(u)
      PROVE  MarksBehind' /\ ResetClosesOlderSessions'
  BY <1>5 DEF WindowEnds, RemoveUser
<1>6. ASSUME NEW c \in Calls, Fail(c) PROVE MarksBehind' /\ ResetClosesOlderSessions'
  BY <1>6, IdleType DEF Fail, CutShort, Return
<1>. QED
  BY <1>1, <1>2, <1>3, <1>4, <1>5, <1>6 DEF Environment

\* Every step keeps the inductive invariant.
LEMMA Inductive == IInv /\ [Next]_vars => IInv'
<1>. SUFFICES ASSUME IInv, [Next]_vars PROVE IInv'
  OBVIOUS
<1>1. CASE UNCHANGED vars
  BY <1>1 DEF vars, history, IInv, TypeOK, MarksBehind, ResetClosesOlderSessions
<1>2. ASSUME NEW c \in Calls, Continues(c) PROVE IInv'
  BY <1>2, ContinuesType, ContinuesCloses DEF IInv
<1>3. ASSUME (\E c \in Calls : Arrives(c) \/ Fail(c)) \/ Environment PROVE IInv'
  BY <1>3, OtherStepsType, OtherStepsClose DEF IInv
<1>. QED BY <1>1, <1>2, <1>3 DEF Next

\* The initial states satisfy it.
LEMMA Initial == Init => IInv
<1>. SUFFICES ASSUME Init PROVE IInv
  OBVIOUS
<1>. USE DEF Init
<1>1. TypeOK
  <2>1. DOMAIN session = {} /\ DOMAIN link = {}
    OBVIOUS
  <2>2. session \in [DOMAIN session -> SessionDoc] /\ link \in [DOMAIN link -> LinkDoc]
    BY <2>1
  <2>3. account \in [Users -> {"new", "registered", "gone"}]
    OBVIOUS
  <2>4. call \in [Calls -> CallState]
    BY IdleType
  <2>5. attempts \in [Users -> Nat]
    OBVIOUS
  <2>6. nextSession \in Nat \ {0} /\ nextLink \in Nat \ {0}
    OBVIOUS
  <2>8. saved \in [Users -> Nat] /\ closed \in [Users -> Nat] /\ cut \in [Users -> Nat]
    OBVIOUS
  <2>7. /\ DOMAIN session \subseteq 1 .. (nextSession - 1)
        /\ DOMAIN link \subseteq 1 .. (nextLink - 1)
    BY <2>1
  <2>. HIDE DEF Init
  <2>. QED BY <2>2, <2>3, <2>4, <2>5, <2>6, <2>7, <2>8 DEF TypeOK
<1>2. MarksBehind
  BY IdleType DEF MarksBehind
<1>3. ResetClosesOlderSessions
  BY DEF ResetClosesOlderSessions
<1>. QED BY <1>1, <1>2, <1>3 DEF IInv

\* The stored documents keep their types whatever handlers overlap, and the ids
\* in use stay below the next one.
THEOREM SessionsTypeCorrect == Spec => []TypeOK
<1>1. IInv => TypeOK
  BY DEF IInv
<1>. QED BY Initial, Inductive, <1>1, PTL DEF Spec

\* For any number of users, handlers and tokens: a session that existed when an
\* answered reset saved the password stays revoked.  MarksBehind is needed
\* because a refresh in flight creates sessions after the revocation: they are
\* newer than every mark a reset carries, so none of them counts as older.
THEOREM ResetCloses == Spec => []ResetClosesOlderSessions
<1>1. IInv => ResetClosesOlderSessions
  BY DEF IInv
<1>. QED BY Initial, Inductive, <1>1, PTL DEF Spec
\* No step loses sight of a saved password: whoever leaves the way to the
\* closing has closed or has thrown.
LEMMA SeenToNext ==
  ASSUME TypeOK, SavedIsSeenTo, [Next]_vars
  PROVE  SavedIsSeenTo'
<1>t. /\ \A c \in Calls : call[c].user \in Users /\ call[c].seen \in Nat
      /\ saved \in [Users -> Nat] /\ closed \in [Users -> Nat] /\ cut \in [Users -> Nat]
  BY DEF TypeOK, CallState
<1>f. call \in [Calls -> CallState]
  BY DEF TypeOK
\* It is enough that the marks do not fall and that the way is kept or marked.
<1>k. ASSUME UNCHANGED saved,
             \A u \in Users : closed[u] <= closed'[u] /\ cut[u] <= cut'[u],
             closed' \in [Users -> Nat], cut' \in [Users -> Nat],
             \A c \in Calls : Closing(c) =>
               \/ Closing(c)' /\ call'[c].user = call[c].user /\ call'[c].seen = call[c].seen
               \/ call[c].seen <= closed'[call[c].user]
               \/ call[c].seen <= cut'[call[c].user]
      PROVE  SavedIsSeenTo'
  <2>. SUFFICES ASSUME NEW u \in Users
                PROVE  \/ saved[u] <= closed'[u]
                       \/ saved[u] <= cut'[u]
                       \/ \E c \in Calls : Closing(c)' /\ call'[c].user = u /\ saved[u] <= call'[c].seen
    BY <1>k DEF SavedIsSeenTo
  <2>1. closed'[u] \in Nat /\ cut'[u] \in Nat /\ closed[u] <= closed'[u] /\ cut[u] <= cut'[u]
    BY <1>k
  <2>2. saved[u] \in Nat /\ closed[u] \in Nat /\ cut[u] \in Nat
    BY <1>t
  <2>3. CASE saved[u] <= closed[u] \/ saved[u] <= cut[u]
    BY <2>1, <2>2, <2>3
  <2>4. ASSUME NEW c \in Calls, Closing(c), call[c].user = u, saved[u] <= call[c].seen
        PROVE  \/ saved[u] <= closed'[u]
               \/ saved[u] <= cut'[u]
               \/ Closing(c)' /\ call'[c].user = u /\ saved[u] <= call'[c].seen
    BY <1>k, <1>t, <2>1, <2>2, <2>4
  <2>. QED BY <2>3, <2>4 DEF SavedIsSeenTo
<1>u. ASSUME UNCHANGED history,
             \A c \in Calls : Closing(c) =>
               Closing(c)' /\ call'[c].user = call[c].user /\ call'[c].seen = call[c].seen
      PROVE  SavedIsSeenTo'
  BY <1>k, <1>t, <1>u DEF history
\* Of a handler that is not on the way, whatever becomes of it.
<1>o. ASSUME NEW c \in Calls, ~Closing(c), UNCHANGED history,
             \A d \in Calls \ {c} : call'[d] = call[d]
      PROVE  SavedIsSeenTo'
  BY <1>o, <1>u DEF Closing
<1>g. ASSUME NEW c \in Calls, NEW s \in {"sweep", "close"}, Goto(c, s), UNCHANGED history
      PROVE  SavedIsSeenTo'
  BY <1>g, <1>u, <1>f DEF Closing, Goto, CallState
<1>c. ASSUME NEW c \in Calls, CutShort(c), UNCHANGED <<saved, closed>>
      PROVE  SavedIsSeenTo'
  <2>1. /\ cut' \in [Users -> Nat] /\ call[c].seen <= cut'[call[c].user]
        /\ \A u \in Users : cut[u] <= cut'[u]
    BY <1>c, <1>t, RaisedMarks DEF CutShort
  <2>2. \A d \in Calls \ {c} : call'[d] = call[d]
    BY <1>c, <1>f DEF CutShort, Return
  <2>. QED BY <1>c, <1>t, <1>k, <2>1, <2>2 DEF Closing
<1>1. ASSUME NEW c \in Calls, Arrives(c) PROVE SavedIsSeenTo'
  <2>1. call[c].step = "idle" /\ UNCHANGED history /\ \A d \in Calls \ {c} : call'[d] = call[d]
    BY <1>1, <1>f DEF Arrives, Register, LogIn, AskForLink, CheckSession, CheckLink, Usable,
                      Begin, At
  <2>. QED BY <2>1, <1>o DEF Closing
<1>2. ASSUME NEW c \in Calls, Continues(c) PROVE SavedIsSeenTo'
  <2>1. CASE SaveRegistration(c) \/ Rotate(c) \/ FindOwner(c) \/ Issue(c) \/ CountAttempt(c)
               \/ LookUp(c) \/ CreateLink(c)
    <3>1. ~Closing(c) /\ UNCHANGED history /\ \A d \in Calls \ {c} : call'[d] = call[d]
      BY <2>1, <1>f DEF SaveRegistration, Rotate, FindOwner, Issue, CountAttempt, LookUp,
                        CreateLink, At, Closing, Goto, Return
    <3>. QED BY <3>1, <1>o
  <2>2. CASE DiscardPending(c)
    <3>1. CASE At(c, "discard") /\ Goto(c, "create")
      <4>1. ~Closing(c) /\ \A d \in Calls \ {c} : call'[d] = call[d]
        BY <3>1, <1>f DEF At, Closing, Goto
      <4>. QED BY <4>1, <2>2, <1>o DEF DiscardPending
    <3>2. CASE At(c, "sweep") /\ Goto(c, "close")
      BY <2>2, <3>2, <1>g DEF DiscardPending
    <3>. QED BY <2>2, <3>1, <3>2 DEF DiscardPending
  <2>3. CASE SavePassword(c)
    <3>1. CASE account[call[c].user] = "gone"
      <4>1. ~Closing(c) /\ UNCHANGED history /\ \A d \in Calls \ {c} : call'[d] = call[d]
        BY <2>3, <3>1, <1>f DEF SavePassword, At, Closing, Return, history
      <4>. QED BY <4>1, <1>o
    <3>2. CASE account[call[c].user] # "gone"
      <4>. DEFINE w == call[c].user
      <4>1. /\ call' = [call EXCEPT ![c].step = "mark", ![c].seen = nextSession]
            /\ saved' = [saved EXCEPT ![w] = nextSession]
            /\ UNCHANGED <<closed, cut>> /\ call[c].step = "save"
        BY <2>3, <3>2 DEF SavePassword, At
      <4>2. call'[c].step = "mark" /\ call'[c].seen = nextSession /\ call'[c].user = w
        BY <4>1, <1>f DEF CallState
      <4>3. \A d \in Calls \ {c} : call'[d] = call[d]
        BY <4>1, <1>f
      <4>4. nextSession \in Nat /\ w \in Users
        BY <1>t DEF TypeOK
      <4>5. saved'[w] = nextSession /\ \A v \in Users \ {w} : saved'[v] = saved[v]
        BY <4>1, <4>4, <1>t
      <4>. HIDE DEF w
      <4>6. \E d \in Calls : Closing(d)' /\ call'[d].user = w /\ saved'[w] <= call'[d].seen
        BY <4>2, <4>4, <4>5 DEF Closing
      <4>7. ASSUME NEW v \in Users \ {w}
            PROVE  \/ saved'[v] <= closed'[v]
                   \/ saved'[v] <= cut'[v]
                   \/ \E d \in Calls : Closing(d)' /\ call'[d].user = v /\ saved'[v] <= call'[d].seen
        <5>1. CASE saved[v] <= closed[v] \/ saved[v] <= cut[v]
          BY <4>1, <4>5, <5>1
        <5>2. ASSUME NEW d \in Calls, Closing(d), call[d].user = v, saved[v] <= call[d].seen
              PROVE  Closing(d)' /\ call'[d].user = v /\ saved'[v] <= call'[d].seen
          <6>1. d # c
            BY <4>1, <5>2 DEF Closing
          <6>. QED BY <4>3, <4>5, <5>2, <6>1 DEF Closing
        <5>. QED BY <5>1, <5>2 DEF SavedIsSeenTo
      <4>. QED BY <4>6, <4>7 DEF SavedIsSeenTo
    <3>. QED BY <3>1, <3>2
  <2>4. CASE MarkUsed(c)
    <3>1. \/ Goto(c, "sweep") /\ UNCHANGED history
          \/ CutShort(c) /\ UNCHANGED <<saved, closed>>
      BY <2>4 DEF MarkUsed, history
    <3>. QED BY <3>1, <1>g, <1>c
  <2>5. CASE CloseSessions(c)
    <3>1. /\ closed' = Raised(closed, call[c].user, call[c].seen) /\ UNCHANGED <<saved, cut>>
          /\ Return(c)
      BY <2>5 DEF CloseSessions
    <3>2. /\ closed' \in [Users -> Nat] /\ call[c].seen <= closed'[call[c].user]
          /\ \A u \in Users : closed[u] <= closed'[u]
      BY <3>1, <1>t, RaisedMarks
    <3>3. \A d \in Calls \ {c} : call'[d] = call[d]
      BY <3>1, <1>f DEF Return
    <3>. QED BY <3>1, <3>2, <3>3, <1>t, <1>k DEF Closing
  <2>. QED BY <1>2, <2>1, <2>2, <2>3, <2>4, <2>5 DEF Continues
<1>3. ASSUME NEW c \in Calls, Fail(c) PROVE SavedIsSeenTo'
  <2>1. CASE Closing(c)
    BY <1>3, <1>c, <2>1 DEF Fail, Closing
  <2>2. CASE ~Closing(c)
    <3>1. UNCHANGED history /\ \A d \in Calls \ {c} : call'[d] = call[d]
      BY <1>3, <2>2, <1>f DEF Fail, Closing, Return, history
    <3>. QED BY <2>2, <3>1, <1>o
  <2>. QED BY <2>1, <2>2
<1>4. CASE Environment \/ UNCHANGED vars
  <2>1. UNCHANGED <<call, history>>
    BY <1>4 DEF Environment, LogOut, ExpireSession, ExpireLink, WindowEnds, RemoveUser, vars
  <2>. QED BY <2>1, <1>u DEF Closing
<1>. QED BY <1>1, <1>2, <1>3, <1>4 DEF Next

\* For any number of users, handlers and tokens: no password saved by a reset is
\* forgotten.  Its sessions are closed, or a handler is on the way to close them,
\* or a handler that was has thrown: its link was deleted under it, or a query of
\* it was rejected.
THEOREM SavedAreSeenTo == Spec => []SavedIsSeenTo
<1>1. Init => SavedIsSeenTo
  <2>1. ASSUME Init, NEW u \in Users PROVE saved[u] <= closed[u]
    <3>1. saved[u] = 0 /\ closed[u] = 0
      BY <2>1 DEF Init
    <3>. QED BY <3>1
  <2>. QED BY <2>1 DEF SavedIsSeenTo
<1>2. IInv /\ SavedIsSeenTo /\ [Next]_vars => SavedIsSeenTo'
  BY SeenToNext DEF IInv
<1>. QED BY Initial, Inductive, <1>1, <1>2, PTL DEF Spec
=============================================================================
