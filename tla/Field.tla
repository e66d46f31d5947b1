------------------------------- MODULE Field -------------------------------
(***************************************************************************)
(* PowersyncService.applyWrites (src/src/powersync): attendance recorded   *)
(* without a connection by one leader's device, uploaded in batches.       *)
(*                                                                         *)
(* The device (not under src/) keeps what it recorded in order, sends a    *)
(* beginning of what was not answered yet, and sends again when the answer *)
(* fails, is lost or takes too long.  The service applies a batch one      *)
(* operation after the other, without a transaction, with the memberships  *)
(* it read at the start; it does not notice that the device has given up.  *)
(***************************************************************************)
EXTENDS Tools, Sequences

CONSTANTS
    Me,               \* the person whose device it is
    Ids,              \* ids of attendance, made by the device
    NoRow,
    Recordable,       \* what the device may record
    FirstAttendance,  \* the rows a behaviour starts from
    Accounts,         \* what the account of the person may be
    Attempts,         \* requests that may be under way at the same time
    Nobody,           \* no request is awaited
    MaxOps,           \* bound: operations recorded
    MaxFaults         \* bound: failures, lost answers and timeouts

Row     == [unit : Units, presente : BOOLEAN]
WriteOp == [op : {"PUT", "PATCH"}, id : Ids, data : Row]
             \cup [op : {"DELETE", "flawed"}, id : Ids]
Account == [approved : BOOLEAN, superAdmin : BOOLEAN]

ASSUME FieldAssumption ==
    /\ Me \in People
    /\ Recordable \subseteq WriteOp
    /\ FirstAttendance \in [Ids -> Row \cup {NoRow}]
    /\ NoRow \notin Row
    /\ Accounts \subseteq Account
    /\ Nobody \notin Attempts
    /\ MaxOps \in Nat /\ MaxFaults \in Nat

VARIABLES
    recorded,    \* device: all it recorded, in order
    acked,       \* device: how many of them the service has answered for
    awaited,     \* device: the request it waits for
    attempt,     \* per request: its step, its batch and how much of it is applied
    attendance,  \* the collection asistencia
    account,     \* the person's account, as far as applyWrites reads it
    skipped,     \* history: ids whose DELETE was passed over, out of scope
    overlapped,  \* history: a request began while an abandoned one still ran
    faults       \* failures so far

fieldVars == <<recorded, acked, awaited, attempt, attendance, account, skipped,
               overlapped, faults>>
vars == <<toolVars, fieldVars>>

Idle == [at |-> "idle"]
AttemptStates ==
    [at : {"actor", "memberships"}, first : 0..MaxOps, size : 1..MaxOps]
      \cup [at : {"ops", "found"}, first : 0..MaxOps, size : 1..MaxOps, done : 0..MaxOps,
            unitIds : SUBSET Units]
      \cup {Idle}

Running(a) == attempt[a] # Idle

Goes(a, state) == attempt' = [attempt EXCEPT ![a] = state]

Fault == faults < MaxFaults /\ faults' = faults + 1

----------------------------------------------------------------------------
(* The device.                                                             *)

Record(op) ==
    /\ Len(recorded) < MaxOps
    /\ recorded' = Append(recorded, op)
    /\ UNCHANGED <<toolVars, acked, awaited, attempt, attendance, account, skipped,
                   overlapped, faults>>

Send(a, size) ==
    /\ awaited = Nobody
    /\ ~ Running(a)
    /\ acked + size <= Len(recorded)
    /\ awaited' = a
    /\ Goes(a, [at |-> "actor", first |-> acked, size |-> size])
    /\ overlapped' = (overlapped \/ \E b \in Attempts : Running(b))
    /\ UNCHANGED <<toolVars, recorded, acked, attendance, account, skipped, faults>>

GiveUp ==
    /\ awaited # Nobody
    /\ Fault \/ (~ Running(awaited) /\ UNCHANGED faults)
    /\ awaited' = Nobody
    /\ UNCHANGED <<toolVars, recorded, acked, attempt, attendance, account, skipped, overlapped>>

----------------------------------------------------------------------------
(* The service.                                                            *)

\* An exception is answered with an error: whoever waits sends again later.
Refuse(a) ==
    /\ Goes(a, Idle)
    /\ awaited' = IF awaited = a THEN Nobody ELSE awaited

FindActor(a) ==
    /\ attempt[a].at = "actor"
    /\ IF account.approved
       THEN Goes(a, [attempt[a] EXCEPT !.at = "memberships"]) /\ UNCHANGED awaited
       ELSE Refuse(a)
    /\ UNCHANGED <<toolVars, recorded, acked, attendance, account, skipped, overlapped, faults>>

\* The level is that of the actor read before; it does not change here.
FindMemberships(a) ==
    /\ attempt[a].at = "memberships"
    /\ Goes(a, [at |-> "ops", first |-> attempt[a].first, size |-> attempt[a].size, done |-> 0,
                unitIds |-> {u \in Units : rows[u][Me] # "none"}])
    /\ UNCHANGED <<toolVars, recorded, acked, awaited, attendance, account, skipped,
                   overlapped, faults>>

canWrite(unit, a) == account.superAdmin \/ unit \in attempt[a].unitIds

Op(a) == recorded[attempt[a].first + attempt[a].done + 1]
AtOp(a) == attempt[a].at = "ops" /\ attempt[a].done < attempt[a].size
NextOp(a) == Goes(a, [attempt[a] EXCEPT !.at = "ops", !.done = @ + 1])

IsUpsert(op) == op.op \in {"PUT", "PATCH"}

\* Faulty variant: $setOnInsert, for an operation that comes again.
InsertOnly(op) ==
    attendance' = [attendance EXCEPT ![op.id] = IF @ = NoRow THEN op.data ELSE @]

\* updateOne with $set of every field and upsert.
SetRow(op) == attendance' = [attendance EXCEPT ![op.id] = op.data]

Upsert(a) ==
    /\ AtOp(a)
    /\ IsUpsert(Op(a))
    /\ canWrite(Op(a).data.unit, a)
    /\ SetRow(Op(a))
    /\ NextOp(a)
    /\ UNCHANGED <<toolVars, recorded, acked, awaited, account, skipped, overlapped, faults>>

\* Another table, a field missing, no date: or a unit out of the scope.  What
\* came before in the batch stays written, what comes after is not reached.
RefuseOp(a) ==
    /\ AtOp(a)
    /\ \/ Op(a).op = "flawed"
       \/ IsUpsert(Op(a)) /\ ~ canWrite(Op(a).data.unit, a)
    /\ Refuse(a)
    /\ UNCHANGED <<toolVars, recorded, acked, attendance, account, skipped, overlapped, faults>>

\* Faulty variant: a row that is not there is an error, as in the other services.
FindOrFail(a) ==
    /\ AtOp(a)
    /\ Op(a).op = "DELETE"
    /\ IF attendance[Op(a).id] = NoRow
       THEN Refuse(a) /\ UNCHANGED skipped
       ELSE /\ UNCHANGED awaited
            /\ IF canWrite(attendance[Op(a).id].unit, a)
               THEN Goes(a, [attempt[a] EXCEPT !.at = "found"]) /\ UNCHANGED skipped
               ELSE NextOp(a) /\ skipped' = skipped \cup {Op(a).id}
    /\ UNCHANGED <<toolVars, recorded, acked, attendance, account, overlapped, faults>>

\* DELETE looks first, and passes over what is gone or out of scope.
FindRow(a) ==
    /\ AtOp(a)
    /\ Op(a).op = "DELETE"
    /\ \/ /\ attendance[Op(a).id] = NoRow
          /\ NextOp(a)
          /\ UNCHANGED skipped
       \/ /\ attendance[Op(a).id] # NoRow
          /\ canWrite(attendance[Op(a).id].unit, a)
          /\ Goes(a, [attempt[a] EXCEPT !.at = "found"])
          /\ UNCHANGED skipped
       \/ /\ attendance[Op(a).id] # NoRow
          /\ ~ canWrite(attendance[Op(a).id].unit, a)
          /\ NextOp(a)
          /\ skipped' = skipped \cup {Op(a).id}
    /\ UNCHANGED <<toolVars, recorded, acked, awaited, attendance, account, overlapped, faults>>

DeleteRow(a) ==
    /\ attempt[a].at = "found"
    /\ attendance' = [attendance EXCEPT ![Op(a).id] = NoRow]
    /\ NextOp(a)
    /\ UNCHANGED <<toolVars, recorded, acked, awaited, account, skipped, overlapped, faults>>

\* Faulty variant: every answer counts, awaited or not.
AnswerUncounted(a) ==
    /\ attempt[a].at = "ops"
    /\ attempt[a].done = attempt[a].size
    /\ Goes(a, Idle)
    /\ acked' = acked + attempt[a].size
    /\ awaited' = IF awaited = a THEN Nobody ELSE awaited
    /\ UNCHANGED <<toolVars, recorded, attendance, account, skipped, overlapped, faults>>

\* 204: the device, if it still waits for it, is done with the batch.
Answer(a) ==
    /\ attempt[a].at = "ops"
    /\ attempt[a].done = attempt[a].size
    /\ Goes(a, Idle)
    /\ IF awaited = a
       THEN acked' = attempt[a].first + attempt[a].size /\ awaited' = Nobody
       ELSE UNCHANGED <<acked, awaited>>
    /\ UNCHANGED <<toolVars, recorded, attendance, account, skipped, overlapped, faults>>

\* A query throws, the process restarts, or the answer is lost on its way: the
\* device hears of it or goes on waiting.
Fail(a) ==
    /\ Running(a)
    /\ Fault
    /\ Refuse(a) \/ (Goes(a, Idle) /\ UNCHANGED awaited)
    /\ UNCHANGED <<toolVars, recorded, acked, attendance, account, skipped, overlapped>>

----------------------------------------------------------------------------
\* Suspended, or approved again.
SetAccess(approved) ==
    /\ approved # account.approved
    /\ unitEdits < MaxUnitEdits
    /\ unitEdits' = unitEdits + 1
    /\ account' = [account EXCEPT !.approved = approved]
    /\ UNCHANGED <<doc, rows, tool, behind, tools, recorded, acked, awaited, attempt,
                   attendance, skipped, overlapped, faults>>

Init ==
    /\ ToolsInit
    /\ recorded = <<>>
    /\ acked = 0
    /\ awaited = Nobody
    /\ attempt = [a \in Attempts |-> Idle]
    /\ attendance = FirstAttendance
    /\ account \in Accounts
    /\ skipped = {}
    /\ overlapped = FALSE
    /\ faults = 0

Serve(a) ==
    \/ FindActor(a) \/ FindMemberships(a)
    \/ Upsert(a) \/ RefuseOp(a) \/ FindRow(a) \/ DeleteRow(a)
    \/ Answer(a)

SendSome == \E a \in Attempts, size \in 1..MaxOps : Send(a, size)

Next ==
    \/ \E op \in Recordable : Record(op)
    \/ SendSome
    \/ GiveUp
    \/ \E a \in Attempts : Serve(a) \/ Fail(a)
    \/ \E approved \in BOOLEAN : SetAccess(approved)
    \/ ToolsNext /\ UNCHANGED fieldVars

\* Requests go on until they are answered or fail; the device keeps trying, and
\* notices sooner or later that nobody will answer it any more.
Fairness ==
    /\ WF_vars(SendSome)
    /\ WF_vars(GiveUp)
    /\ WF_vars(\E a \in Attempts : Serve(a))

Spec == Init /\ [][Next]_vars /\ Fairness

----------------------------------------------------------------------------
\* Units, rows, tools, requests and what the device keeps have their types.
TypeOK ==
    /\ doc \in [Units -> Doc \cup {NoUnit}]
    /\ rows \in [Units -> [People -> UnitRoles \cup {"none"}]]
    /\ tool \in Tool \cup {NoTool}
    /\ behind \subseteq Units
    /\ unitEdits \in 0..MaxUnitEdits
    /\ tools \in 0..MaxTools
    /\ recorded \in Seq(WriteOp)
    /\ acked \in 0..MaxOps
    /\ awaited \in Attempts \cup {Nobody}
    /\ attempt \in [Attempts -> AttemptStates]
    /\ attendance \in [Ids -> Row \cup {NoRow}]
    /\ account \in Account
    /\ skipped \subseteq Ids
    /\ overlapped \in BOOLEAN
    /\ faults \in 0..MaxFaults

\* What operation i leaves of its row; 0 is what was there before.
Leaves(id, i) ==
    IF i = 0 THEN FirstAttendance[id]
    ELSE IF IsUpsert(recorded[i]) THEN recorded[i].data ELSE NoRow

\* A row is as one of the recorded operations leaves it, and no operation that
\* was answered for is later: batches that fail half way and are sent again
\* never take a row back to before what the device was told is saved.  DELETE
\* passed over is the exception, and an abandoned request that runs on beside
\* its repetition.
AnsweredStays ==
    ~ overlapped =>
        \A id \in Ids \ skipped :
            \E i \in 0..Len(recorded) :
                /\ i = 0 \/ recorded[i].id = id
                /\ attendance[id] = Leaves(id, i)
                /\ \A j \in (i + 1)..acked : recorded[j].id # id

\* The rows of a unit differ from its document only while a backfill owes them,
\* or for a named cause: a tool that ended between the two, or that wrote the
\* rows of a document it had loaded before an edit.
RowsFollowUnits ==
    \A u \in Units : Follows(u) \/ u \in behind \/ (tool # NoTool /\ u \in tool.owed)

\* A rebuild repairs the rows of every unit it has passed and nobody edited since
\* the rebuild began, whatever state the rows were in.
RebuildRepairs ==
    tool # NoTool /\ tool.kind = "rebuild" =>
        \A u \in Units \ tool.todo :
            tool.loaded[u] # NoUnit /\ doc[u] = tool.loaded[u] => Follows(u)

\* The operations not answered for would all be accepted if sent now.
Welcome ==
    /\ account.approved
    /\ \A i \in (acked + 1)..Len(recorded) :
          /\ recorded[i].op # "flawed"
          /\ IsUpsert(recorded[i]) =>
                account.superAdmin \/ rows[recorded[i].data.unit][Me] # "none"

\* However answers are lost and requests fail, what the device keeps gets through
\* once it would be accepted: repeating what was already done is no error.
QueueGetsThrough == <>[]Welcome => []<>(acked = Len(recorded))
=============================================================================
