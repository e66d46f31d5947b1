------------------------ MODULE AccessRequestsProofs ------------------------
(***************************************************************************)
(* One pending request per person, no level above the grantors' and the    *)
(* outbox telling what was written, for any number of people, handlers and requests.  *)
(***************************************************************************)
EXTENDS AccessRequests, TLAPS

\* The levels that some approver reached at the start; super_admin is none.
Grantable(l) == l # SuperAdmin /\ \E a \in Approvers : l <= FirstLevel[a]

\* What a handler may carry at each step.
Resolving(c) ==
    /\ call[c].request \in DOMAIN request
    /\ request[call[c].request].person = call[c].person
    /\ call[c].outcome \in {"approved", "rejected"}

CarriedOK(c) ==
    /\ call[c].step \in {"check", "panel_check"} =>
         call[c].actor \in Approvers /\ call[c].level \in AskedLevels
    /\ call[c].step \in {"check", "decide", "close"} => Resolving(c)
    /\ call[c].step \in {"search", "create"} => call[c].outcome = "none"
    /\ Owed(c) \subseteq written
    /\ call[c].step = "decide" /\ call[c].outcome = "approved" => Grantable(call[c].level)
    /\ call[c].step = "panel_save" =>
         call[c].level = NoLevel \/ Grantable(call[c].level)

Carried == \A c \in Calls : CarriedOK(c)

\* The inductive invariant.
IInv ==
    /\ TypeOK
    /\ Carried
    /\ OnePendingPerPerson
    /\ NobodyOutranksTheFirst
    /\ OutboxTellsWhatWasWritten

\* A handler at rest carries nothing.
LEMMA IdleType ==
  /\ Idle \in CallState
  /\ Idle.step = "idle"
  /\ Idle.outcome = "none"
<1>1. (CHOOSE p \in People : TRUE) \in People
  BY AccessAssumption
<1>2. \A p \in People : /\ Carry(p, p) \in CallState
                        /\ Carry(p, p).step = "idle"
                        /\ Carry(p, p).outcome = "none"
  BY DEF Carry, CallState, Steps, AccessStates, Levels, NoLevel
<1>. QED BY <1>1, <1>2 DEF Idle

\* A handler that starts is well typed and carries what its step needs.
LEMMA BeginType ==
  ASSUME TypeOK, NEW c \in Calls, Arrives(c)
  PROVE  \E r \in CallState :
           /\ call' = [call EXCEPT ![c] = r]
           /\ r.step \in {"search", "check", "decide", "panel_check", "panel_save"}
           /\ r.step \in {"check", "panel_check"} => r.actor \in Approvers /\ r.level \in AskedLevels
           /\ r.step \in {"check", "decide"} =>
                /\ r.request \in DOMAIN request
                /\ request[r.request].person = r.person
                /\ r.outcome \in {"approved", "rejected"}
           /\ r.step = "search" => r.outcome = "none"
           /\ r.step = "decide" => r.outcome = "rejected"
           /\ r.step = "panel_save" => r.level = NoLevel
<1>. USE AccessAssumption DEF Begin
<1>1. ASSUME NEW p \in People, Ask(c, p)
      PROVE  [Carry(p, p) EXCEPT !.step = "search"] \in CallState
             /\ call' = [call EXCEPT ![c] = [Carry(p, p) EXCEPT !.step = "search"]]
             /\ [Carry(p, p) EXCEPT !.step = "search"].step = "search"
             /\ [Carry(p, p) EXCEPT !.step = "search"].outcome = "none"
  BY <1>1 DEF Ask, Carry, CallState, Steps, AccessStates, Levels, NoLevel
<1>2. ASSUME NEW a \in People, NEW q \in DOMAIN request, NEW o \in {"approved", "rejected"},
             NEW l \in Levels, o = "approved" => l \in AskedLevels, Resolve(c, a, q, o, l)
      PROVE  \E r \in CallState :
               /\ call' = [call EXCEPT ![c] = r]
               /\ r.step = IF o = "approved" THEN "check" ELSE "decide"
               /\ r.actor \in Approvers
               /\ r.level = l
               /\ r.request = q
               /\ request[q].person = r.person
               /\ r.outcome = o
  <2>. DEFINE r == [Carry(a, request[q].person) EXCEPT
                      !.step = IF o = "approved" THEN "check" ELSE "decide",
                      !.request = q, !.level = l, !.outcome = o]
  <2>1. request[q].person \in People /\ q \in Nat
    BY DEF TypeOK, RequestDoc
  <2>2. r \in CallState
    BY <2>1 DEF Carry, CallState, Steps, AccessStates, Levels, NoLevel
  <2>3. r.step = IF o = "approved" THEN "check" ELSE "decide"
    BY DEF Carry
  <2>4. r.actor = a /\ r.level = l /\ r.request = q /\ r.outcome = o
        /\ r.person = request[q].person
    BY DEF Carry
  <2>5. call' = [call EXCEPT ![c] = r] /\ a \in Approvers
    BY <1>2 DEF Resolve
  <2>. HIDE DEF r
  <2>. QED BY <2>2, <2>3, <2>4, <2>5
<1>3. ASSUME NEW a \in People, NEW p \in People, NEW s \in PanelStates \cup {"none"},
             NEW l \in AskedLevels \cup {NoLevel}, Edit(c, a, p, s, l)
      PROVE  \E r \in CallState :
               /\ call' = [call EXCEPT ![c] = r]
               /\ r.step \in {"panel_check", "panel_save"}
               /\ r.actor \in Approvers
               /\ r.step = "panel_check" => r.level \in AskedLevels
               /\ r.step = "panel_save" => r.level = NoLevel
  <2>. DEFINE r == [Carry(a, p) EXCEPT
                      !.step = IF l \in {NoLevel, level[p]} THEN "panel_save"
                                                            ELSE "panel_check",
                      !.level = IF l = level[p] THEN NoLevel ELSE l,
                      !.outcome = IF s = access[p] THEN "none" ELSE s]
  <2>1. r \in CallState
    <3>. DEFINE step == IF l \in {NoLevel, level[p]} THEN "panel_save" ELSE "panel_check"
                lev  == IF l = level[p] THEN NoLevel ELSE l
                out  == IF s = access[p] THEN "none" ELSE s
    <3>1. step \in Steps /\ lev \in Levels /\ out \in AccessStates
      BY DEF Steps, Levels, NoLevel, AccessStates
    <3>2. \A st \in Steps, lv \in Levels, o \in AccessStates :
            [Carry(a, p) EXCEPT !.step = st, !.level = lv, !.outcome = o] \in CallState
      BY DEF Carry, CallState
    <3>3. r = [Carry(a, p) EXCEPT !.step = step, !.level = lev, !.outcome = out]
      OBVIOUS
    <3>. HIDE DEF step, lev, out, r
    <3>. QED BY <3>1, <3>2, <3>3
  <2>2. /\ r.step = IF l \in {NoLevel, level[p]} THEN "panel_save" ELSE "panel_check"
        /\ r.level = IF l = level[p] THEN NoLevel ELSE l
        /\ r.actor = a
    BY DEF Carry
  <2>3. call' = [call EXCEPT ![c] = r] /\ a \in Approvers
    BY <1>3 DEF Edit
  <2>. HIDE DEF r
  <2>. QED BY <2>1, <2>2, <2>3
<1>4. ASSUME NEW p \in People, Ask(c, p)
      PROVE  \E r \in CallState :
               call' = [call EXCEPT ![c] = r] /\ r.step = "search" /\ r.outcome = "none"
  BY <1>4, <1>1
<1>5. AskedLevels \subseteq Levels /\ NoLevel \in Levels
  BY DEF Levels, NoLevel
<1>6. CASE \E p \in People : Ask(c, p)
  BY <1>4, <1>6
<1>7. CASE \E a \in People, q \in DOMAIN request : Approve(c, a, q)
  <2>1. PICK a \in People, q \in DOMAIN request, l \in AskedLevels :
          Resolve(c, a, q, "approved", l)
    BY <1>7 DEF Approve
  <2>. QED BY <2>1, <1>2, <1>5
<1>8. CASE \E a \in People, q \in DOMAIN request : Reject(c, a, q)
  <2>1. PICK a \in People, q \in DOMAIN request : Resolve(c, a, q, "rejected", NoLevel)
    BY <1>8 DEF Reject
  <2>. QED BY <2>1, <1>2, <1>5
<1>9. CASE \E a, p \in People, s \in PanelStates \cup {"none"},
              l \in AskedLevels \cup {NoLevel} : Edit(c, a, p, s, l)
  BY <1>9, <1>3
<1>. QED BY <1>6, <1>7, <1>8, <1>9 DEF Arrives

\* Goto and Return keep the handlers well typed.
LEMMA MoveType ==
  ASSUME call \in [Calls -> CallState], NEW c \in Calls,
         Return(c) \/ \E s \in Steps : Goto(c, s)
  PROVE  call' \in [Calls -> CallState]
<1>1. CASE Return(c)
  BY <1>1, IdleType DEF Return
<1>2. ASSUME NEW s \in Steps, Goto(c, s) PROVE call' \in [Calls -> CallState]
  <2>. DEFINE d == [call[c] EXCEPT !.step = s]
  <2>1. d \in CallState
    BY DEF CallState
  <2>2. call' = [call EXCEPT ![c] = d]
    BY <1>2 DEF Goto
  <2>. HIDE DEF d
  <2>. QED BY <2>1, <2>2
<1>. QED BY <1>1, <1>2

\* A handler that goes on keeps the types: what it writes into a request is a
\* resolution, because it carries one (Carried).
LEMMA ContinuesType ==
  ASSUME TypeOK, NEW c \in Calls, CarriedOK(c), Continues(c)
  PROVE  TypeOK'
<1>. USE DEF TypeOK
<1>t. /\ call[c] \in CallState
      /\ call[c].person \in People
      /\ call[c].level \in Levels
      /\ call[c].outcome \in AccessStates
  BY DEF CallState
<1>m. Return(c) \/ (\E s \in Steps : Goto(c, s)) => call' \in [Calls -> CallState]
  BY MoveType
<1>s. \A p \in People, s \in AccessStates : SetAccess(p, s) => access' \in [People -> AccessStates]
  BY DEF SetAccess
<1>1. CASE FindActive(c)
  BY <1>1, <1>m DEF FindActive, Steps, users, history
<1>2. CASE CreateRequest(c)
  <2>1. CASE Pending(call[c].person) # {}
    BY <1>2, <2>1, <1>m DEF CreateRequest, users, history
  <2>2. CASE Pending(call[c].person) = {}
    <3>. DEFINE d == [call[c] EXCEPT !.step = "await", !.request = nextRequest]
                note == [request |-> nextRequest, kind |-> "received"]
    <3>1. /\ nextRequest' = nextRequest + 1
          /\ request' = [q \in DOMAIN request \cup {nextRequest} |->
                           IF q = nextRequest THEN NewRequest(c) ELSE request[q]]
          /\ written' = written \cup {note}
          /\ UNCHANGED <<access, level, notices, lost>>
      BY <1>2, <2>2 DEF CreateRequest, Insert, Write, users
    <3>2. NewRequest(c) \in RequestDoc
      BY <1>t DEF NewRequest, RequestDoc
    <3>3. request' \in [DOMAIN request' -> RequestDoc]
          /\ DOMAIN request' = DOMAIN request \cup {nextRequest}
      BY <3>1, <3>2
    <3>4. nextRequest' \in Nat \ {0} /\ DOMAIN request' \subseteq 1 .. (nextRequest' - 1)
      BY <3>1, <3>3
    <3>5. d \in CallState
      BY <1>t DEF CallState, Steps
    <3>6. note \in Notice
      BY DEF Notice
    <3>7. call' = [call EXCEPT ![c] = d]
      BY <1>2, <2>2 DEF CreateRequest, Insert
    <3>. HIDE DEF d, note
    <3>8. call' \in [Calls -> CallState] /\ written' \subseteq Notice
      BY <3>1, <3>5, <3>6, <3>7
    <3>. QED BY <3>1, <3>3, <3>4, <3>8
  <2>. QED BY <2>1, <2>2
<1>3. CASE AwaitDecision(c)
  <2>1. access' \in [People -> AccessStates]
    BY <1>3, <1>s, <1>t DEF AwaitDecision, AccessStates
  <2>. QED BY <2>1, <1>3, <1>m DEF AwaitDecision, Steps, history
<1>4. CASE CheckGrant(c)
  BY <1>4, <1>m DEF CheckGrant, Steps, users, history
<1>5. CASE DecideUser(c)
  <2>1. access' \in [People -> AccessStates]
    BY <1>5, <1>s, <1>t DEF DecideUser
  <2>2. level' \in [People -> Levels]
    BY <1>5, <1>t DEF DecideUser
  <2>. QED BY <2>1, <2>2, <1>5, <1>m DEF DecideUser, Steps, history
<1>6. CASE CloseRequest(c)
  <2>. DEFINE q == call[c].request
              d == [request[q] EXCEPT !.state = call[c].outcome]
  <2>1. q \in DOMAIN request /\ call[c].outcome \in {"approved", "rejected"}
    BY <1>6 DEF CloseRequest, At, CarriedOK, Resolving
  <2>2. d \in RequestDoc
    BY <2>1 DEF RequestDoc
  <2>3. request' = [request EXCEPT ![q] = d]
    BY <1>6 DEF CloseRequest
  <2>4. request' \in [DOMAIN request' -> RequestDoc] /\ DOMAIN request' = DOMAIN request
    <3>. HIDE DEF q, d
    <3>. QED BY <2>1, <2>2, <2>3
  <2>5. written' \subseteq Notice /\ lost' = lost
    <3>. DEFINE note == [request |-> q, kind |-> call[c].outcome]
    <3>1. note \in Notice
      BY <2>1 DEF Notice
    <3>2. written' = written \cup {note} /\ lost' = lost
      BY <1>6 DEF CloseRequest, Write
    <3>. HIDE DEF note
    <3>. QED BY <3>1, <3>2
  <2>. QED BY <2>4, <2>5, <1>6, <1>m DEF CloseRequest, Steps, users
<1>7. CASE Announce(c)
  <2>1. notices' \subseteq Notice
    BY <1>7 DEF Announce, CarriedOK
  <2>. QED BY <2>1, <1>7, <1>m DEF Announce, users, history
<1>8. CASE CheckEdit(c)
  BY <1>8, <1>m DEF CheckEdit, Steps, users, history
<1>9. CASE SaveEdit(c)
  <2>1. access' \in [People -> AccessStates]
    BY <1>9, <1>t DEF SaveEdit
  <2>2. level' \in [People -> Levels]
    BY <1>9, <1>t DEF SaveEdit
  <2>. QED BY <2>1, <2>2, <1>9, <1>m DEF SaveEdit, history
<1>. QED
  BY <1>1, <1>2, <1>3, <1>4, <1>5, <1>6, <1>7, <1>8, <1>9 DEF Continues

\* So does every other step.
LEMMA OtherStepsType ==
  ASSUME TypeOK, (\E c \in Calls : Arrives(c)) \/ (\E p \in People : RemovePerson(p))
  PROVE  TypeOK'
<1>. USE DEF TypeOK
<1>1. ASSUME NEW c \in Calls, Arrives(c) PROVE TypeOK'
  <2>1. call' \in [Calls -> CallState]
    BY BeginType, <1>1
  <2>2. UNCHANGED <<access, level, request, nextRequest, notices, written, lost>>
    BY <1>1 DEF Arrives, Ask, Approve, Reject, Resolve, Edit, users, history
  <2>. QED BY <2>1, <2>2
<1>2. ASSUME NEW p \in People, RemovePerson(p) PROVE TypeOK'
  BY <1>2 DEF RemovePerson, AccessStates, history
<1>. QED BY <1>1, <1>2

\* And a handler that fails.
LEMMA FailType ==
  ASSUME TypeOK, NEW c \in Calls, CarriedOK(c), Fail(c)
  PROVE  TypeOK'
<1>1. call' \in [Calls -> CallState]
  BY MoveType DEF Fail, TypeOK
<1>2. lost' \subseteq Notice
  BY DEF Fail, CarriedOK, TypeOK
<1>. QED BY <1>1, <1>2 DEF Fail, TypeOK, users

----------------------------------------------------------------------------
\* What an actor may grant was reached by some approver at the start.
LEMMA GrantBound ==
  ASSUME TypeOK, NobodyOutranksTheFirst, NEW a \in Approvers, NEW l \in AskedLevels,
         CanGrantLevel(a, l)
  PROVE  Grantable(l)
<1>1. a \in People /\ l \in Nat /\ l # SuperAdmin /\ level[a] \in Nat /\ l <= level[a]
  BY AccessAssumption DEF TypeOK, CanGrantLevel, Levels
<1>2. \A b \in Approvers : FirstLevel[b] \in Nat
  BY AccessAssumption DEF Levels
<1>3. PICK b \in Approvers : level[a] <= FirstLevel[b]
  BY <1>1, <1>2 DEF NobodyOutranksTheFirst
<1>. QED BY <1>1, <1>2, <1>3 DEF Grantable

\* A request never changes hands, and none is ever deleted.
LEMMA RequestsKept ==
  ASSUME TypeOK, NEW c \in Calls, Continues(c)
  PROVE  \A q \in DOMAIN request :
           q \in DOMAIN request' /\ request'[q].person = request[q].person
<1>1. CASE CreateRequest(c)
  <2>1. \A q \in DOMAIN request : q # nextRequest
    BY DEF TypeOK
  <2>. QED BY <1>1, <2>1 DEF CreateRequest, Insert
<1>2. CASE CloseRequest(c)
  <2>1. \A q \in DOMAIN request : request[q] \in RequestDoc
    BY DEF TypeOK
  <2>. QED BY <1>2, <2>1 DEF CloseRequest, RequestDoc
<1>3. CASE UNCHANGED request
  BY <1>3
<1>. QED
  BY <1>1, <1>2, <1>3 DEF Continues, FindActive, AwaitDecision, CheckGrant, DecideUser,
     Announce, CheckEdit, SaveEdit

\* Only the handler that goes on changes what it carries.
LEMMA OthersCarry ==
  ASSUME TypeOK, NEW c \in Calls, Continues(c)
  PROVE  \A d \in Calls : d # c => call'[d] = call[d]
BY DEF TypeOK, Continues, FindActive, CreateRequest, AwaitDecision, CheckGrant, DecideUser,
   CloseRequest, Announce, CheckEdit, SaveEdit, Goto, Return, Insert

\* What was written stays on record.
LEMMA RecordsKept ==
  ASSUME NEW c \in Calls, Continues(c) \/ Fail(c)
  PROVE  written \subseteq written'
BY DEF Continues, FindActive, CreateRequest, AwaitDecision, CheckGrant, DecideUser,
   CloseRequest, Announce, CheckEdit, SaveEdit, Insert, Write, Fail, history

\* A handler that goes on carries what its next step needs.
LEMMA ContinuesCarries ==
  ASSUME TypeOK, Carried, NobodyOutranksTheFirst, NEW c \in Calls, Continues(c)
  PROVE  Carried'
<1>1. ASSUME NEW d \in Calls, d # c PROVE CarriedOK(d)'
  <2>1. call'[d] = call[d] /\ CarriedOK(d)
    BY <1>1, OthersCarry DEF Carried
  <2>. QED BY <2>1, RequestsKept, RecordsKept DEF CarriedOK, Resolving, Owed
<1>2. CarriedOK(c)'
  <2>. USE DEF At
  <2>c. CarriedOK(c) /\ call[c] \in CallState
    BY DEF Carried, TypeOK
  <2>r. ASSUME Return(c) PROVE CarriedOK(c)'
    <3>1. call'[c] = Idle
      BY <2>r DEF Return, TypeOK
    <3>. QED BY <3>1, IdleType DEF CarriedOK, Owed
  <2>g. ASSUME NEW s \in Steps, Goto(c, s)
        PROVE  /\ call'[c].step = s
               /\ call'[c].actor = call[c].actor
               /\ call'[c].person = call[c].person
               /\ call'[c].request = call[c].request
               /\ call'[c].level = call[c].level
               /\ call'[c].outcome = call[c].outcome
    BY <2>g, <2>c DEF Goto, TypeOK, CallState
  <2>k. Resolving(c) /\ (\E s \in Steps : Goto(c, s)) => Resolving(c)'
    BY <2>g, RequestsKept DEF Resolving
  <2>1. CASE FindActive(c)
    <3>1. call[c].outcome = "none" /\ "create" \in Steps
      BY <2>1, <2>c DEF FindActive, CarriedOK, Steps
    <3>2. Goto(c, "create") => CarriedOK(c)'
      BY <3>1, <2>g DEF CarriedOK, Owed
    <3>. QED BY <2>1, <2>r, <3>2 DEF FindActive
  <2>2. CASE CreateRequest(c)
    <3>1. ASSUME Insert(c) PROVE CarriedOK(c)'
      <4>1. call[c].outcome = "none"
        BY <2>2, <2>c DEF CreateRequest, CarriedOK
      <4>2. /\ call'[c].step = "await"
            /\ call'[c].request = nextRequest
            /\ call'[c].outcome = "none"
        BY <3>1, <4>1, <2>c DEF Insert, TypeOK, CallState
      <4>3. [request |-> nextRequest, kind |-> "received"] \in written'
        BY <3>1 DEF Insert, Write
      <4>. QED BY <4>2, <4>3 DEF CarriedOK, Owed
    <3>. QED BY <2>2, <2>r, <3>1 DEF CreateRequest
  <2>3. CASE AwaitDecision(c)
    <3>1. call[c].step = "await" /\ Owed(c) \subseteq written /\ "announce" \in Steps
      BY <2>3, <2>c DEF AwaitDecision, CarriedOK, Steps
    <3>2. Goto(c, "announce")
      BY <2>3 DEF AwaitDecision
    <3>3. Owed(c)' = Owed(c)
      BY <3>1, <3>2, <2>g DEF Owed
    <3>. QED BY <3>1, <3>2, <3>3, <2>g, RecordsKept DEF CarriedOK
  <2>4. CASE CheckGrant(c)
    <3>1. CASE CanGrantLevel(call[c].actor, call[c].level)
      <4>1. Grantable(call[c].level) /\ Resolving(c)
        BY <2>4, <3>1, <2>c, GrantBound DEF CheckGrant, CarriedOK
      <4>2. "decide" \in Steps /\ Goto(c, "decide")
        BY <2>4, <3>1 DEF CheckGrant, Steps
      <4>. QED BY <4>1, <4>2, <2>g, <2>k DEF CarriedOK, Grantable, Owed
    <3>2. CASE ~CanGrantLevel(call[c].actor, call[c].level)
      BY <2>4, <3>2, <2>r DEF CheckGrant
    <3>. QED BY <3>1, <3>2
  <2>5. CASE DecideUser(c)
    <3>1. Resolving(c) /\ "close" \in Steps /\ Goto(c, "close")
      BY <2>5, <2>c DEF DecideUser, CarriedOK, Steps
    <3>. QED BY <3>1, <2>g, <2>k DEF CarriedOK, Owed
  <2>6. CASE CloseRequest(c)
    <3>1. Resolving(c) /\ "announce" \in Steps /\ Goto(c, "announce")
      BY <2>6, <2>c DEF CloseRequest, CarriedOK, Steps
    <3>2. [request |-> call[c].request, kind |-> call[c].outcome] \in written'
      BY <2>6 DEF CloseRequest, Write
    <3>. QED BY <3>1, <3>2, <2>g, <2>k DEF CarriedOK, Owed, Resolving
  <2>7. CASE Announce(c)
    BY <2>7, <2>r DEF Announce
  <2>8. CASE CheckEdit(c)
    <3>1. CASE CanGrantLevel(call[c].actor, call[c].level)
      <4>1. Grantable(call[c].level)
        BY <2>8, <3>1, <2>c, GrantBound DEF CheckEdit, CarriedOK
      <4>2. "panel_save" \in Steps /\ Goto(c, "panel_save")
        BY <2>8, <3>1 DEF CheckEdit, Steps
      <4>. QED BY <4>1, <4>2, <2>g DEF CarriedOK, Grantable, Owed
    <3>2. CASE ~CanGrantLevel(call[c].actor, call[c].level)
      BY <2>8, <3>2, <2>r DEF CheckEdit
    <3>. QED BY <3>1, <3>2
  <2>9. CASE SaveEdit(c)
    BY <2>9, <2>r DEF SaveEdit
  <2>. QED
    BY <2>1, <2>2, <2>3, <2>4, <2>5, <2>6, <2>7, <2>8, <2>9 DEF Continues
<1>. QED BY <1>1, <1>2 DEF Carried

\* A handler that goes on keeps one pending request per person: the index is
\* looked up in the step that inserts, and a closed request is not pending.
LEMMA ContinuesOnePending ==
  ASSUME TypeOK, OnePendingPerPerson, NEW c \in Calls, CarriedOK(c), Continues(c)
  PROVE  OnePendingPerPerson'
<1>1. CASE CreateRequest(c)
  <2>1. CASE Pending(call[c].person) = {}
    <3>1. /\ DOMAIN request' = DOMAIN request \cup {nextRequest}
          /\ \A q \in DOMAIN request' :
               request'[q] = IF q = nextRequest THEN NewRequest(c) ELSE request[q]
          /\ NewRequest(c).person = call[c].person
      BY <1>1, <2>1 DEF CreateRequest, Insert, NewRequest
    <3>2. \A q \in DOMAIN request :
            request[q].state = "pending" => request[q].person # call[c].person
      BY <2>1 DEF Pending
    <3>. QED BY <3>1, <3>2 DEF OnePendingPerPerson
  <2>2. CASE Pending(call[c].person) # {}
    BY <1>1, <2>2 DEF CreateRequest, OnePendingPerPerson
  <2>. QED BY <2>1, <2>2
<1>2. CASE CloseRequest(c)
  <2>1. call[c].outcome # "pending"
    BY <1>2 DEF CloseRequest, At, CarriedOK, Resolving
  <2>2. \A q \in DOMAIN request : request[q] \in RequestDoc
    BY DEF TypeOK
  <2>3. /\ DOMAIN request' = DOMAIN request
        /\ \A q \in DOMAIN request : /\ request'[q].person = request[q].person
                                     /\ request'[q].state = "pending" =>
                                          request[q].state = "pending"
    BY <1>2, <2>1, <2>2 DEF CloseRequest, RequestDoc
  <2>. QED BY <2>3 DEF OnePendingPerPerson
<1>3. CASE UNCHANGED request
  BY <1>3 DEF OnePendingPerPerson
<1>. QED
  BY <1>1, <1>2, <1>3 DEF Continues, FindActive, AwaitDecision, CheckGrant, DecideUser,
     Announce, CheckEdit, SaveEdit

\* Whatever level it writes was checked against an approver's.
LEMMA ContinuesOutranks ==
  ASSUME TypeOK, NobodyOutranksTheFirst, NEW c \in Calls, CarriedOK(c), Continues(c)
  PROVE  NobodyOutranksTheFirst'
<1>1. ASSUME NEW p \in People, NEW l, Grantable(l), level' = [level EXCEPT ![p] = l]
      PROVE  NobodyOutranksTheFirst'
  BY <1>1 DEF NobodyOutranksTheFirst, Grantable, TypeOK
<1>2. ASSUME UNCHANGED level PROVE NobodyOutranksTheFirst'
  BY <1>2 DEF NobodyOutranksTheFirst
<1>3. call[c].person \in People
  BY DEF TypeOK, CallState
<1>4. CASE DecideUser(c)
  BY <1>1, <1>2, <1>3, <1>4 DEF DecideUser, At, CarriedOK
<1>5. CASE SaveEdit(c)
  BY <1>1, <1>2, <1>3, <1>5 DEF SaveEdit, At, CarriedOK
<1>. QED
  BY <1>2, <1>4, <1>5 DEF Continues, FindActive, CreateRequest, AwaitDecision, CheckGrant,
     CloseRequest, Announce, CheckEdit, users

\* Another handler that owes a notice goes on owing it, and the handler that
\* goes on owes what it writes until the outbox has it.
LEMMA ContinuesTells ==
  ASSUME TypeOK, OutboxTellsWhatWasWritten, NEW c \in Calls, CarriedOK(c), Continues(c)
  PROVE  OutboxTellsWhatWasWritten'
<1>. DEFINE Pays(d, n) == n \in notices' \cup Owed(d)'
<1>. USE DEF At
<1>c. call[c] \in CallState
  BY DEF TypeOK
<1>d. \A d \in Calls : d # c => Owed(d)' = Owed(d)
  BY OthersCarry DEF Owed
<1>1. lost' = lost /\ notices \subseteq notices'
  BY DEF Continues, FindActive, CreateRequest, AwaitDecision, CheckGrant, DecideUser,
     CloseRequest, Announce, CheckEdit, SaveEdit, Insert, Write, history
<1>2. ASSUME /\ notices' \subseteq written'
             /\ \A n \in (written' \ written) \cup Owed(c) : Pays(c, n)
      PROVE  OutboxTellsWhatWasWritten'
  <2>1. ASSUME NEW n \in written'
        PROVE  n \in notices' \cup lost' \cup UNION {Owed(d)' : d \in Calls}
    <3>1. CASE Pays(c, n)
      BY <3>1
    <3>2. CASE ~Pays(c, n)
      <4>1. n \in written /\ n \notin Owed(c)
        BY <3>2, <1>2, <2>1
      <4>2. CASE n \in notices \cup lost
        BY <4>2, <1>1
      <4>3. CASE n \notin notices \cup lost
        <5>1. PICK d \in Calls : n \in Owed(d)
          BY <4>1, <4>3 DEF OutboxTellsWhatWasWritten
        <5>2. n \in Owed(d)'
          BY <5>1, <4>1, <1>d
        <5>. QED BY <5>2
      <4>. QED BY <4>2, <4>3
    <3>. QED BY <3>1, <3>2
  <2>. QED BY <2>1, <1>2 DEF OutboxTellsWhatWasWritten
<1>3. ASSUME NEW s \in Steps, Goto(c, s)
      PROVE  /\ call'[c].step = s
             /\ call'[c].request = call[c].request
             /\ call'[c].outcome = call[c].outcome
  BY <1>3, <1>c DEF Goto, TypeOK, CallState
<1>4. ASSUME Owed(c) = {}, UNCHANGED <<notices, written>> PROVE OutboxTellsWhatWasWritten'
  BY <1>4, <1>2 DEF OutboxTellsWhatWasWritten
<1>5. CASE Announce(c)
  <2>1. notices' = notices \cup Owed(c) /\ written' = written
    BY <1>5 DEF Announce, history
  <2>. QED BY <2>1, <1>2 DEF OutboxTellsWhatWasWritten, CarriedOK
<1>6. CASE CloseRequest(c)
  <2>. DEFINE note == [request |-> call[c].request, kind |-> call[c].outcome]
  <2>1. /\ written' = written \cup {note}
        /\ notices' = notices
        /\ Goto(c, "announce")
        /\ Owed(c) = {}
    BY <1>6 DEF CloseRequest, Write, Owed
  <2>2. call[c].outcome # "none"
    BY <1>6 DEF CloseRequest, CarriedOK, Resolving
  <2>3. Owed(c)' = {note}
    BY <2>1, <2>2, <1>3 DEF Owed, Steps
  <2>. HIDE DEF note
  <2>. QED BY <2>1, <2>3, <1>2 DEF OutboxTellsWhatWasWritten
<1>7. CASE AwaitDecision(c)
  <2>1. Owed(c)' = Owed(c)
    BY <1>7, <1>3 DEF AwaitDecision, Owed, Steps
  <2>2. UNCHANGED <<notices, written>>
    BY <1>7 DEF AwaitDecision, history
  <2>. QED BY <2>1, <2>2, <1>2 DEF OutboxTellsWhatWasWritten
<1>8. CASE CreateRequest(c)
  <2>1. Owed(c) = {} /\ notices' = notices
    BY <1>8 DEF CreateRequest, Owed
  <2>2. CASE Insert(c)
    <3>. DEFINE note == [request |-> nextRequest, kind |-> "received"]
    <3>1. written' = written \cup {note}
      BY <2>2 DEF Insert, Write
    <3>2. /\ call'[c].step = "await"
          /\ call'[c].request = nextRequest
          /\ call'[c].outcome = "none"
      BY <2>2, <1>8, <1>c DEF CreateRequest, CarriedOK, Insert, TypeOK, CallState
    <3>3. Owed(c)' = {note}
      BY <3>2 DEF Owed
    <3>. HIDE DEF note
    <3>. QED BY <2>1, <3>1, <3>3, <1>2 DEF OutboxTellsWhatWasWritten
  <2>3. CASE ~Insert(c)
    BY <2>1, <2>3, <1>8, <1>4 DEF CreateRequest, history
  <2>. QED BY <2>2, <2>3
<1>9. CASE FindActive(c) \/ CheckGrant(c) \/ DecideUser(c) \/ CheckEdit(c) \/ SaveEdit(c)
  <2>1. Owed(c) = {}
    BY <1>9 DEF FindActive, CheckGrant, DecideUser, CheckEdit, SaveEdit, Owed
  <2>2. UNCHANGED <<notices, written>>
    BY <1>9 DEF FindActive, CheckGrant, DecideUser, CheckEdit, SaveEdit, history
  <2>. QED BY <2>1, <2>2, <1>4
<1>. QED BY <1>5, <1>6, <1>7, <1>8, <1>9 DEF Continues

\* A handler that fails loses exactly what it owed.
LEMMA FailKeeps ==
  ASSUME IInv, NEW c \in Calls, Fail(c)
  PROVE  IInv'
<1>. USE DEF IInv
<1>1. /\ call'[c] = Idle
      /\ \A d \in Calls : d # c => call'[d] = call[d]
      /\ UNCHANGED <<level, request, notices, written>>
      /\ lost' = lost \cup Owed(c)
  BY DEF Fail, Return, TypeOK, users
<1>2. TypeOK'
  BY FailType DEF Carried
<1>3. Carried'
  <2>1. CarriedOK(c)'
    BY <1>1, IdleType DEF CarriedOK, Owed
  <2>2. \A d \in Calls : d # c => CarriedOK(d)'
    BY <1>1 DEF Carried, CarriedOK, Resolving, Owed, Grantable
  <2>. QED BY <2>1, <2>2 DEF Carried
<1>4. OnePendingPerPerson' /\ NobodyOutranksTheFirst'
  BY <1>1 DEF OnePendingPerPerson, NobodyOutranksTheFirst
<1>5. OutboxTellsWhatWasWritten'
  <2>1. \A d \in Calls : d # c => Owed(d)' = Owed(d)
    BY <1>1 DEF Owed
  <2>2. ASSUME NEW n \in written, n \notin notices \cup lost'
        PROVE  n \in UNION {Owed(d)' : d \in Calls}
    <3>1. PICK d \in Calls : n \in Owed(d)
      BY <1>1, <2>2 DEF OutboxTellsWhatWasWritten
    <3>2. d # c
      BY <1>1, <2>2, <3>1
    <3>. QED BY <2>1, <3>1, <3>2
  <2>3. notices' \subseteq written'
    BY <1>1 DEF OutboxTellsWhatWasWritten
  <2>4. \A n \in written' : n \in notices' \cup lost' \cup UNION {Owed(d)' : d \in Calls}
    BY <1>1, <2>2
  <2>. QED BY <2>3, <2>4 DEF OutboxTellsWhatWasWritten
<1>. QED BY <1>2, <1>3, <1>4, <1>5

\* The steps that start a handler or remove a person keep the invariants: they write no request and no level.
LEMMA OtherSteps ==
  ASSUME IInv, (\E c \in Calls : Arrives(c)) \/ (\E p \in People : RemovePerson(p))
  PROVE  /\ Carried'
         /\ OnePendingPerPerson'
         /\ NobodyOutranksTheFirst'
         /\ OutboxTellsWhatWasWritten'
<1>. USE DEF IInv
<1>1. UNCHANGED <<level, request, notices, written, lost>>
  BY DEF Arrives, Ask, Approve, Reject, Resolve, Edit, RemovePerson, users, history
<1>2. OnePendingPerPerson' /\ NobodyOutranksTheFirst'
  BY <1>1 DEF OnePendingPerPerson, NobodyOutranksTheFirst
<1>3. ASSUME NEW c \in Calls, Arrives(c) PROVE Carried' /\ OutboxTellsWhatWasWritten'
  <2>1. call[c].step = "idle"
    BY <1>3 DEF Arrives, Ask, Approve, Reject, Resolve, Edit, Begin, At
  <2>2. PICK r \in CallState :
          /\ call' = [call EXCEPT ![c] = r]
          /\ r.step \in {"search", "check", "decide", "panel_check", "panel_save"}
          /\ r.step \in {"check", "panel_check"} => r.actor \in Approvers /\ r.level \in AskedLevels
          /\ r.step \in {"check", "decide"} =>
               /\ r.request \in DOMAIN request
               /\ request[r.request].person = r.person
               /\ r.outcome \in {"approved", "rejected"}
          /\ r.step = "search" => r.outcome = "none"
          /\ r.step = "decide" => r.outcome = "rejected"
          /\ r.step = "panel_save" => r.level = NoLevel
    BY BeginType, <1>3
  <2>3. call'[c] = r /\ \A d \in Calls : d # c => call'[d] = call[d]
    BY <2>2 DEF TypeOK
  <2>4. CarriedOK(c)'
    BY <2>2, <2>3, <1>1 DEF CarriedOK, Resolving, Owed
  <2>5. \A d \in Calls : d # c => CarriedOK(d)'
    BY <2>3, <1>1 DEF Carried, CarriedOK, Resolving, Grantable, Owed
  <2>6. \A d \in Calls : Owed(d) \subseteq Owed(d)'
    BY <2>1, <2>3 DEF Owed
  <2>. QED BY <2>4, <2>5, <2>6, <1>1 DEF Carried, OutboxTellsWhatWasWritten
<1>4. ASSUME NEW p \in People, RemovePerson(p) PROVE Carried' /\ OutboxTellsWhatWasWritten'
  BY <1>4 DEF RemovePerson, Carried, CarriedOK, Resolving, OutboxTellsWhatWasWritten, Owed,
     history
<1>. QED BY <1>2, <1>3, <1>4

\* Every step keeps the inductive invariant.
LEMMA Inductive == IInv /\ [Next]_vars => IInv'
<1>. SUFFICES ASSUME IInv, [Next]_vars PROVE IInv'
  OBVIOUS
<1>1. CASE UNCHANGED vars
  BY <1>1 DEF vars, users, IInv, TypeOK, Carried, CarriedOK, Resolving, OnePendingPerPerson,
     NobodyOutranksTheFirst, OutboxTellsWhatWasWritten, Owed
<1>2. ASSUME NEW c \in Calls, Continues(c) PROVE IInv'
  <2>1. CarriedOK(c)
    BY DEF IInv, Carried
  <2>. QED
    BY <1>2, <2>1, ContinuesType, ContinuesCarries, ContinuesOnePending, ContinuesOutranks,
       ContinuesTells DEF IInv
<1>3. ASSUME (\E c \in Calls : Arrives(c)) \/ (\E p \in People : RemovePerson(p))
      PROVE  IInv'
  BY <1>3, OtherStepsType, OtherSteps DEF IInv
<1>. QED BY <1>1, <1>2, <1>3, FailKeeps DEF Next

\* The initial states satisfy it.
LEMMA Initial == Init => IInv
<1>. SUFFICES ASSUME Init PROVE IInv
  OBVIOUS
<1>1. TypeOK
  <2>1. DOMAIN request = {} /\ request \in [DOMAIN request -> RequestDoc]
    BY DEF Init
  <2>2. access \in [People -> AccessStates]
    BY DEF Init, AccessStates
  <2>3. level \in [People -> Levels] /\ call \in [Calls -> CallState]
    BY IdleType, AccessAssumption DEF Init
  <2>4. nextRequest \in Nat \ {0} /\ DOMAIN request \subseteq 1 .. (nextRequest - 1)
    BY <2>1 DEF Init
  <2>5. notices \subseteq Notice /\ written \subseteq Notice /\ lost \subseteq Notice
    BY DEF Init
  <2>. QED BY <2>1, <2>2, <2>3, <2>4, <2>5 DEF TypeOK
<1>2. Carried
  BY IdleType DEF Init, Carried, CarriedOK, Owed
<1>3. OnePendingPerPerson /\ OutboxTellsWhatWasWritten
  BY DEF Init, OnePendingPerPerson, OutboxTellsWhatWasWritten
<1>4. NobodyOutranksTheFirst
  BY DEF Init, NobodyOutranksTheFirst
<1>. QED BY <1>1, <1>2, <1>3, <1>4 DEF IInv

\* The unique index and the resolutions that overlap it leave a person with at
\* most one pending request, for any number of people and handlers.
THEOREM OnePending == Spec => []OnePendingPerPerson
<1>1. IInv => OnePendingPerPerson
  BY DEF IInv
<1>. QED BY Initial, Inductive, <1>1, PTL DEF Spec

\* Nobody rises above what the approvers reached at the start: every level that
\* is written was compared with the level of an approver, which was in turn
\* within that bound when it was read -- Carried says so of the levels in
\* flight, however the approver's own level changes before the write.
THEOREM NobodyOutranks == Spec => []NobodyOutranksTheFirst
<1>1. IInv => NobodyOutranksTheFirst
  BY DEF IInv
<1>. QED BY Initial, Inductive, <1>1, PTL DEF Spec

\* Every creation and every resolution ever written reaches the outbox, is owed
\* by a running handler or was lost by the failing handler that wrote it, and
\* the outbox tells of nothing else: handlers that resolve the same request
\* differently, or fail anywhere, change neither.
THEOREM Announced == Spec => []OutboxTellsWhatWasWritten
<1>1. IInv => OutboxTellsWhatWasWritten
  BY DEF IInv
<1>. QED BY Initial, Inductive, <1>1, PTL DEF Spec
=============================================================================
