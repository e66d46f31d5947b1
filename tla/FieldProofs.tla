----------------------------- MODULE FieldProofs -----------------------------
(***************************************************************************)
(* What holds of attendance uploaded in batches, and of the rows the tools *)
(* mend, for any number of units, people, operations and requests.         *)
(***************************************************************************)
EXTENDS Field, TLAPS

----------------------------------------------------------------------------
(* Units, their rows and the tools.                                        *)

ToolsTypeOK ==
    /\ doc \in [Units -> Doc \cup {NoUnit}]
    /\ rows \in [Units -> [People -> UnitRoles \cup {"none"}]]
    /\ tool \in Tool \cup {NoTool}
    /\ behind \subseteq Units
    /\ unitEdits \in 0..MaxUnitEdits
    /\ tools \in 0..MaxTools

\* A tool owes the rows of one unit at most, and a rebuild owes none; what it
\* still has to see to, it has loaded.
ToolSound ==
    tool # NoTool =>
        /\ \A u \in tool.todo : tool.loaded[u] # NoUnit
        /\ \A u, v \in tool.owed : u = v
        /\ tool.kind = "rebuild" => tool.owed = {}

ToolsInv ==
    /\ ToolsTypeOK
    /\ ToolSound
    /\ RowsFollowUnits
    /\ RebuildRepairs

LEMMA ToolParts ==
    ASSUME NEW t \in Tool \cup {NoTool}, t # NoTool
    PROVE  /\ t \in Tool
           /\ t.kind \in {"backfill", "rebuild"}
           /\ t.loaded \in [Units -> Doc \cup {NoUnit}]
           /\ t.todo \in SUBSET Units /\ t.owed \in SUBSET Units
BY DEF Tool

LEMMA ProjectionType ==
    ASSUME NEW d
    PROVE  projectMemberships(d) \in [People -> UnitRoles \cup {"none"}]
BY DEF projectMemberships, RoleIn, UnitRoles

LEMMA VersionParts ==
    ASSUME NEW d \in Doc
    PROVE  [d EXCEPT !.version = @ + 1] \in Doc
BY DEF Doc

LEMMA LeaderParts ==
    ASSUME NEW d \in Doc, NEW p \in People, NEW S \in SUBSET People
    PROVE  /\ [d EXCEPT !.lead = p] \in Doc
           /\ [d EXCEPT !.leaders = S] \in Doc
           /\ [d EXCEPT !.lead = p, !.leaders = S] \in Doc
           /\ [d EXCEPT !.members = S] \in Doc
BY DEF Doc

LEMMA HelpedParts ==
    ASSUME NEW d \in Doc, NEW S \in SUBSET People
    PROVE  [d EXCEPT !.leaders = S] \in Doc
BY DEF Doc

LEMMA SavedType ==
    ASSUME NEW u, NEW d \in Doc
    PROVE  Saved(u, d) \in Doc
BY VersionParts DEF Saved

\* Who is left behind: whoever does not follow, and was or is named.
LEMMA LeftBehindParts ==
    ASSUME behind \subseteq Units, NEW S \in SUBSET Units, LeftBehind(S)
    PROVE  /\ behind' \subseteq Units
           /\ \A u \in Units : u \in behind \cup S => Follows(u)' \/ u \in behind'
BY DEF LeftBehind

LEMMA OperationStep ==
    ASSUME ToolsInv, NEW u \in Units, NEW d \in Doc \cup {NoUnit}, Write(u, d)
    PROVE  ToolsInv'
<1>1. /\ doc' = [doc EXCEPT ![u] = d]
      /\ rows' = [rows EXCEPT ![u] = projectMemberships(d)]
      /\ tool' = tool /\ tools' = tools /\ LeftBehind({})
  BY DEF Write
<1>2. behind' \subseteq Units /\ \A v \in Units : v \in behind => Follows(v)' \/ v \in behind'
  BY <1>1, LeftBehindParts DEF ToolsInv, ToolsTypeOK
<1>3. unitEdits' \in 0..MaxUnitEdits
  BY ToolsAssumption DEF ToolsInv, ToolsTypeOK, Write
<1>4. ToolsTypeOK'
  BY <1>1, <1>2, <1>3, ProjectionType DEF ToolsInv, ToolsTypeOK
<1>5. Follows(u)' /\ \A v \in Units \ {u} : doc'[v] = doc[v] /\ (Follows(v) => Follows(v)')
  BY <1>1 DEF ToolsInv, ToolsTypeOK, Follows
<1>6. RowsFollowUnits'
  BY <1>1, <1>2, <1>5 DEF ToolsInv, RowsFollowUnits
<1>7. RebuildRepairs'
  BY <1>1, <1>5 DEF ToolsInv, RebuildRepairs
<1> QED
  BY <1>1, <1>4, <1>6, <1>7 DEF ToolsInv, ToolSound

LEMMA LeadersStep ==
    ASSUME ToolsInv, NEW u \in Units, NEW p \in People, NEW S \in LeaderSets,
           PatchLeaders(u, p, S) \/ Configure(u, p, S)
    PROVE  ToolsInv'
<1>1. doc[u] \in Doc
  BY DEF ToolsInv, ToolsTypeOK, PatchLeaders, Configure
<1>2. S \in SUBSET People /\ S \ {p} \in SUBSET People
  BY ToolsAssumption
<1> DEFINE d == doc[u]
           named == [d EXCEPT !.lead = p]
           helped == [d EXCEPT !.leaders = S]
           both == [d EXCEPT !.lead = p, !.leaders = S \ {p}]
<1>3. named \in Doc /\ helped \in Doc /\ both \in Doc
  BY <1>1, <1>2, LeaderParts
<1>4. Write(u, named) \/ Write(u, helped) \/ Write(u, both) \/ Write(u, Saved(u, both))
  BY DEF PatchLeaders, Configure
<1> HIDE DEF d, named, helped, both
<1> QED
  BY <1>3, <1>4, SavedType, OperationStep

LEMMA MembersStep ==
    ASSUME ToolsInv, NEW u \in Units, (\E S \in MemberSets : SaveMembers(u, S)) \/ RemoveUnit(u)
    PROVE  ToolsInv'
<1>1. CASE RemoveUnit(u)
  BY <1>1, OperationStep DEF RemoveUnit
<1>2. ASSUME NEW S \in MemberSets, SaveMembers(u, S) PROVE ToolsInv'
  <2> DEFINE peopled == [doc[u] EXCEPT !.members = S]
  <2>1. doc[u] \in Doc /\ S \in SUBSET People
    BY <1>2, ToolsAssumption DEF ToolsInv, ToolsTypeOK, SaveMembers
  <2>2. peopled \in Doc
    BY <2>1, LeaderParts DEF Doc
  <2>3. Write(u, Saved(u, peopled))
    BY <1>2 DEF SaveMembers
  <2> HIDE DEF peopled
  <2> QED
    BY <2>2, <2>3, SavedType, OperationStep
<1> QED
  BY <1>1, <1>2

LEMMA StartStep ==
    ASSUME ToolsInv, NEW k \in {"backfill", "rebuild"}, Start(k)
    PROVE  ToolsInv'
<1> DEFINE t == [kind |-> k, loaded |-> doc, todo |-> {u \in Units : doc[u] # NoUnit},
                 owed |-> {}]
<1>1. /\ tool' = t /\ tool = NoTool
      /\ UNCHANGED <<doc, rows, behind, unitEdits>>
  BY DEF Start
<1>2. t \in Tool /\ t.owed = {} /\ t.loaded = doc /\ t.todo = {u \in Units : doc[u] # NoUnit}
  BY DEF ToolsInv, ToolsTypeOK, Tool
<1>3. tools' \in 0..MaxTools
  BY ToolsAssumption DEF ToolsInv, ToolsTypeOK, Start
<1> HIDE DEF t
<1>4. ToolsTypeOK'
  BY <1>1, <1>2, <1>3 DEF ToolsInv, ToolsTypeOK
<1>5. RowsFollowUnits'
  BY <1>1 DEF ToolsInv, RowsFollowUnits, Follows
<1>6. RebuildRepairs'
  BY <1>1, <1>2 DEF RebuildRepairs
<1> QED
  BY <1>1, <1>2, <1>4, <1>5, <1>6 DEF ToolsInv, ToolSound

LEMMA ExitStep ==
    ASSUME ToolsInv, Exit
    PROVE  ToolsInv'
<1>1. /\ tool # NoTool /\ tool' = NoTool /\ LeftBehind(tool.owed)
      /\ UNCHANGED <<doc, rows, unitEdits, tools>>
  BY DEF Exit, Kill
<1>2. tool.owed \in SUBSET Units
  BY <1>1, ToolParts DEF ToolsInv, ToolsTypeOK
<1>3. /\ behind' \subseteq Units
      /\ \A u \in Units : u \in behind \cup tool.owed => Follows(u)' \/ u \in behind'
  BY <1>1, <1>2, LeftBehindParts DEF ToolsInv, ToolsTypeOK
<1>4. ToolsTypeOK'
  BY <1>1, <1>3 DEF ToolsInv, ToolsTypeOK
<1>5. RowsFollowUnits'
  BY <1>1, <1>3 DEF ToolsInv, RowsFollowUnits, Follows
<1> QED
  BY <1>1, <1>4, <1>5 DEF ToolsInv, ToolSound, RebuildRepairs

\* A tool that writes the rows of a unit from what it loaded.
LEMMA RowsStep ==
    ASSUME ToolsInv, tool # NoTool, NEW u \in Units, RewriteRows(u, tool.loaded[u]),
           NEW t \in Tool, tool' = t, t.kind = tool.kind, t.loaded = tool.loaded,
           \/ t.todo = tool.todo \ {u} /\ t.owed = tool.owed
           \/ t.todo = tool.todo /\ tool.owed = {u} /\ t.owed = {},
           LeftBehind(Overtaken(u)), UNCHANGED <<doc, unitEdits, tools>>
    PROVE  ToolsInv'
<1> DEFINE kept == tool.loaded[u]
<1>1. /\ rows' = [rows EXCEPT ![u] = projectMemberships(kept)]
      /\ doc[u] = kept => Follows(u)'
      /\ \A v \in Units \ {u} : Follows(v) => Follows(v)'
  BY DEF RewriteRows, ToolsInv, ToolsTypeOK, Follows
<1>2. Overtaken(u) \in SUBSET Units /\ (doc[u] # kept => u \in Overtaken(u))
  BY DEF Overtaken
<1>3. /\ behind' \subseteq Units
      /\ \A v \in Units : v \in behind \cup Overtaken(u) => Follows(v)' \/ v \in behind'
  BY <1>2, LeftBehindParts DEF ToolsInv, ToolsTypeOK
<1>4. ToolsTypeOK'
  BY <1>1, <1>3, ProjectionType DEF ToolsInv, ToolsTypeOK
<1>5. t # NoTool
  BY DEF Tool, NoTool
<1>6. Follows(u)' \/ u \in behind'
  BY <1>1, <1>2, <1>3
<1>7. RowsFollowUnits'
  BY <1>1, <1>3, <1>5, <1>6 DEF ToolsInv, RowsFollowUnits
<1>8. RebuildRepairs'
  BY <1>1, <1>5 DEF ToolsInv, ToolSound, RebuildRepairs
<1> QED
  BY <1>4, <1>5, <1>7, <1>8 DEF ToolsInv, ToolSound

LEMMA BackfillRowsStep ==
    ASSUME ToolsInv, NEW u \in Units, BackfillRows(u)
    PROVE  ToolsInv'
<1> DEFINE t == [tool EXCEPT !.owed = {}]
<1>1. /\ tool # NoTool /\ tool' = t /\ RewriteRows(u, tool.loaded[u])
      /\ LeftBehind(Overtaken(u)) /\ UNCHANGED <<doc, unitEdits, tools>>
  BY DEF BackfillRows
<1>2. tool \in Tool /\ tool.owed = {u}
  BY <1>1, ToolParts DEF BackfillRows, ToolsInv, ToolsTypeOK, ToolSound
<1>3. /\ t \in Tool /\ t.kind = tool.kind /\ t.loaded = tool.loaded
      /\ t.todo = tool.todo /\ t.owed = {}
  BY <1>2 DEF Tool
<1> HIDE DEF t
<1> QED
  BY <1>1, <1>2, <1>3, RowsStep

LEMMA RebuildUnitStep ==
    ASSUME ToolsInv, NEW u \in Units, RebuildUnit(u)
    PROVE  ToolsInv'
<1> DEFINE t == [tool EXCEPT !.todo = @ \ {u}]
<1>1. /\ tool # NoTool /\ tool' = t /\ RewriteRows(u, tool.loaded[u])
      /\ LeftBehind(Overtaken(u)) /\ UNCHANGED <<doc, unitEdits, tools>>
  BY DEF RebuildUnit
<1>2. tool \in Tool
  BY <1>1, ToolParts DEF ToolsInv, ToolsTypeOK
<1>3. /\ t \in Tool /\ t.kind = tool.kind /\ t.loaded = tool.loaded
      /\ t.todo = tool.todo \ {u} /\ t.owed = tool.owed
  BY <1>2 DEF Tool
<1> HIDE DEF t
<1> QED
  BY <1>1, <1>2, <1>3, RowsStep

LEMMA BackfillLeadersStep ==
    ASSUME ToolsInv, NEW u \in Units, NEW found \in LeaderSets, BackfillLeaders(u, found)
    PROVE  ToolsInv'
<1> DEFINE S == found \ {tool.loaded[u].lead}
           helped == [tool.loaded[u] EXCEPT !.leaders = S]
           kept == [helped EXCEPT !.version = @ + 1]
           named == [doc[u] EXCEPT !.leaders = S]
           made == [named EXCEPT !.version = @ + 1]
           passed == [tool EXCEPT !.todo = @ \ {u}]
           t == [tool EXCEPT !.todo = @ \ {u}, !.owed = {u}, !.loaded[u] = kept]
<1>1. /\ tool # NoTool /\ tool.kind = "backfill" /\ tool.owed = {}
      /\ UNCHANGED <<rows, unitEdits, tools>> /\ LeftBehind({})
  BY DEF BackfillLeaders
<1>2. /\ tool \in Tool /\ tool.loaded \in [Units -> Doc \cup {NoUnit}]
      /\ tool.todo \in SUBSET Units /\ S \in SUBSET People
  BY <1>1, ToolParts, ToolsAssumption DEF ToolsInv, ToolsTypeOK
<1>3. behind' \subseteq Units /\ \A v \in Units : v \in behind => Follows(v)' \/ v \in behind'
  BY <1>1, LeftBehindParts DEF ToolsInv, ToolsTypeOK
<1>4. ASSUME tool' = passed \/ tool' = NoTool, UNCHANGED doc
      PROVE  ToolsInv'
  <2>1. /\ passed \in Tool /\ passed.kind = tool.kind /\ passed.owed = {}
        /\ passed.todo = tool.todo \ {u} /\ passed.loaded = tool.loaded
    BY <1>1, <1>2 DEF Tool
  <2> HIDE DEF passed
  <2>2. ToolsTypeOK'
    BY <1>1, <1>3, <1>4, <2>1 DEF ToolsInv, ToolsTypeOK
  <2>3. RowsFollowUnits'
    BY <1>1, <1>3, <1>4 DEF ToolsInv, RowsFollowUnits, Follows
  <2>4. RebuildRepairs' /\ ToolSound'
    BY <1>1, <1>4, <2>1 DEF RebuildRepairs, ToolSound, ToolsInv
  <2> QED
    BY <2>2, <2>3, <2>4 DEF ToolsInv
<1>5. ASSUME doc[u] # NoUnit, doc[u].version = tool.loaded[u].version,
             doc' = [doc EXCEPT ![u] = made], tool' = t
      PROVE  ToolsInv'
  <2>1. doc[u] \in Doc /\ tool.loaded[u] \in Doc /\ u \in tool.todo
    BY <1>1, <1>2, <1>5 DEF ToolsInv, ToolsTypeOK, ToolSound, BackfillLeaders
  <2>2. named \in Doc /\ helped \in Doc
    <3>1. S \in SUBSET People
      BY <1>2
    <3> HIDE DEF S
    <3> QED
      BY <2>1, <3>1, HelpedParts
  <2> HIDE DEF named, helped
  <2>3. made \in Doc /\ kept \in Doc
    BY <2>2, VersionParts
  <2> HIDE DEF made, kept
  <2>4. /\ t \in Tool /\ t.kind = "backfill" /\ t.owed = {u}
        /\ t.todo = tool.todo \ {u} /\ t.loaded = [tool.loaded EXCEPT ![u] = kept]
    BY <1>1, <1>2, <2>1, <2>3 DEF Tool
  <2> HIDE DEF t
  <2>5. t # NoTool
    BY <2>4 DEF NoTool
  <2>6. ToolsTypeOK'
    BY <1>1, <1>3, <1>5, <2>3, <2>4 DEF ToolsInv, ToolsTypeOK
  <2>7. \A v \in Units \ {u} : Follows(v) => Follows(v)'
    BY <1>1, <1>5 DEF ToolsInv, ToolsTypeOK, Follows
  <2>8. RowsFollowUnits'
    BY <1>1, <1>3, <1>5, <2>4, <2>5, <2>7 DEF ToolsInv, RowsFollowUnits
  <2>9. RebuildRepairs'
    BY <1>5, <2>4, <2>5 DEF RebuildRepairs
  <2>10. ToolSound'
    <3>1. \A v \in t.todo : t.loaded[v] # NoUnit
      BY <1>1, <1>2, <2>4 DEF ToolsInv, ToolSound
    <3> QED
      BY <3>1, <1>5, <2>4, <2>5 DEF ToolSound
  <2> QED
    BY <2>6, <2>8, <2>9, <2>10 DEF ToolsInv
<1>6. \/ (tool' = passed \/ tool' = NoTool) /\ UNCHANGED doc
      \/ /\ doc[u] # NoUnit /\ doc[u].version = tool.loaded[u].version
         /\ doc' = [doc EXCEPT ![u].leaders = S, ![u].version = @ + 1]
         /\ tool' = [tool EXCEPT !.todo = @ \ {u}, !.owed = {u},
                       !.loaded[u] = [tool.loaded[u] EXCEPT !.leaders = S, !.version = @ + 1]]
  BY DEF BackfillLeaders, Kill
<1>7. doc \in [Units -> Doc \cup {NoUnit}]
  BY DEF ToolsInv, ToolsTypeOK
<1>8. [doc EXCEPT ![u].leaders = S, ![u].version = @ + 1] = [doc EXCEPT ![u] = made]
  BY <1>7
<1> QED
  BY <1>4, <1>5, <1>6, <1>8

\* Whatever is done to units, and whatever the tools do, keeps them sound.
LEMMA ToolsStep ==
    ASSUME ToolsInv, ToolsNext
    PROVE  ToolsInv'
<1>1. ASSUME NEW u \in Units, NEW p \in People, NEW S \in LeaderSets,
             PatchLeaders(u, p, S) \/ Configure(u, p, S)
      PROVE  ToolsInv'
  BY <1>1, LeadersStep
<1>2. ASSUME NEW u \in Units, (\E S \in MemberSets : SaveMembers(u, S)) \/ RemoveUnit(u)
      PROVE  ToolsInv'
  BY <1>2, MembersStep
<1>3. ASSUME NEW u \in Units, Tend(u) PROVE ToolsInv'
  BY <1>3, BackfillLeadersStep, BackfillRowsStep, RebuildUnitStep DEF Tend
<1> QED
  BY <1>1, <1>2, <1>3, StartStep, ExitStep DEF ToolsNext

LEMMA ToolsStart == ToolsInit => ToolsInv
<1> SUFFICES ASSUME ToolsInit PROVE ToolsInv
  OBVIOUS
<1>1. doc \in [Units -> Doc] /\ behind \in SUBSET Units
  BY ToolsAssumption DEF ToolsInit
<1>2. unitEdits \in 0..MaxUnitEdits /\ tools \in 0..MaxTools
  BY ToolsAssumption DEF ToolsInit
<1>3. rows \in [Units -> [People -> UnitRoles \cup {"none"}]]
  BY ProjectionType DEF ToolsInit, UnitRoles
<1>4. ToolsTypeOK
  BY <1>1, <1>2, <1>3 DEF ToolsInit, ToolsTypeOK
<1>5. RowsFollowUnits
  BY <1>1 DEF ToolsInit, RowsFollowUnits, Follows
<1> QED
  BY <1>4, <1>5 DEF ToolsInit, ToolsInv, ToolSound, RebuildRepairs

----------------------------------------------------------------------------
(* The device and its requests.                                            *)

DeviceTypeOK ==
    /\ recorded \in Seq(WriteOp) /\ Len(recorded) <= MaxOps
    /\ acked \in 0..Len(recorded)
    /\ awaited \in Attempts \cup {Nobody}
    /\ attempt \in [Attempts -> AttemptStates]
    /\ attendance \in [Ids -> Row \cup {NoRow}]
    /\ account \in Account
    /\ skipped \subseteq Ids
    /\ overlapped \in BOOLEAN
    /\ faults \in 0..MaxFaults

\* A request carries recorded operations and applies no more than it carries;
\* unless requests overlapped, it starts where the answers end.
AttemptSound(a) ==
    LET x == attempt[a] IN
    x # Idle =>
        /\ x.first + x.size <= Len(recorded)
        /\ x.at \in {"ops", "found"} => x.done <= x.size
        /\ x.at = "found" => x.done < x.size /\ Op(a).op = "DELETE"
        /\ ~ overlapped => x.first = acked

OneRuns == ~ overlapped => \A a, b \in Attempts : Running(a) /\ Running(b) => a = b

\* The row is as one of the operations on it leaves it, and of the first n
\* operations none that is later is about it.
Kept(id, n) ==
    \E i \in 0..Len(recorded) :
        /\ i = 0 \/ recorded[i].id = id
        /\ attendance[id] = Leaves(id, i)
        /\ \A j \in (i + 1)..n : recorded[j].id # id

\* What AnsweredStays says of the operations answered for holds as well of
\* those a request under way has applied.
AttendanceKept ==
    ~ overlapped =>
        \A id \in Ids \ skipped :
            /\ Kept(id, acked)
            /\ \A a \in Attempts : attempt[a].at \in {"ops", "found"} =>
                  Kept(id, attempt[a].first + attempt[a].done)

DeviceInv ==
    /\ DeviceTypeOK
    /\ \A a \in Attempts : AttemptSound(a)
    /\ OneRuns
    /\ AttendanceKept

IInv == ToolsInv /\ DeviceInv

LEMMA AttemptParts ==
    ASSUME NEW x \in AttemptStates
    PROVE  /\ x.at \in {"idle", "actor", "memberships", "ops", "found"}
           /\ x.at = "idle" <=> x = Idle
           /\ x # Idle => x.first \in 0..MaxOps /\ x.size \in 1..MaxOps
           /\ x.at \in {"ops", "found"} => x.done \in 0..MaxOps /\ x.unitIds \in SUBSET Units
BY DEF AttemptStates, Idle

LEMMA OpParts ==
    ASSUME NEW o \in WriteOp
    PROVE  o.id \in Ids /\ (IsUpsert(o) => o.data \in Row)
BY DEF WriteOp, IsUpsert

LEMMA Bounds == MaxOps \in Nat /\ MaxFaults \in Nat
BY FieldAssumption

LEMMA KeptLess ==
    ASSUME NEW id, NEW n \in Nat, NEW m \in Nat, m <= n, Kept(id, n)
    PROVE  Kept(id, m)
<1>1. PICK i \in 0..Len(recorded) :
        /\ i = 0 \/ recorded[i].id = id
        /\ attendance[id] = Leaves(id, i)
        /\ \A j \in (i + 1)..n : recorded[j].id # id
  BY DEF Kept
<1>2. \A j \in (i + 1)..m : j \in (i + 1)..n
  OBVIOUS
<1> QED
  BY <1>1, <1>2 DEF Kept

\* One more operation is applied to its row.
LEMMA KeptApplied ==
    ASSUME DeviceTypeOK, NEW n \in 1..Len(recorded), NEW id0 \in Ids, recorded[n].id = id0,
           attendance' = [attendance EXCEPT ![id0] = Leaves(id0, n)],
           UNCHANGED recorded, NEW id \in Ids, Kept(id, n - 1)
    PROVE  Kept(id, n)'
<1>1. n \in 0..Len(recorded)
  OBVIOUS
<1>2. \A i : Leaves(id, i)' = Leaves(id, i)
  BY DEF Leaves
<1>3. CASE id = id0
  <2>1. attendance'[id] = Leaves(id, n)
    BY <1>3 DEF DeviceTypeOK
  <2>2. (n + 1)..n = {}
    OBVIOUS
  <2> QED
    BY <1>1, <1>2, <1>3, <2>1, <2>2 DEF Kept
<1>4. CASE id # id0
  <2>1. PICK i \in 0..Len(recorded) :
          /\ i = 0 \/ recorded[i].id = id
          /\ attendance[id] = Leaves(id, i)
          /\ \A j \in (i + 1)..(n - 1) : recorded[j].id # id
    BY DEF Kept
  <2>2. attendance'[id] = attendance[id]
    BY <1>4 DEF DeviceTypeOK
  <2>3. \A j \in (i + 1)..n : j = n \/ j \in (i + 1)..(n - 1)
    OBVIOUS
  <2>4. \A j \in (i + 1)..n : recorded[j].id # id
    BY <1>4, <2>1, <2>3
  <2> QED
    BY <1>2, <2>1, <2>2, <2>4 DEF Kept
<1> QED
  BY <1>3, <1>4

\* One more operation is passed over: it is about another row.
LEMMA KeptPassed ==
    ASSUME NEW n \in 1..Len(recorded), NEW id, recorded[n].id # id, Kept(id, n - 1)
    PROVE  Kept(id, n)
<1>1. PICK i \in 0..Len(recorded) :
        /\ i = 0 \/ recorded[i].id = id
        /\ attendance[id] = Leaves(id, i)
        /\ \A j \in (i + 1)..(n - 1) : recorded[j].id # id
  BY DEF Kept
<1>2. \A j \in (i + 1)..n : j = n \/ j \in (i + 1)..(n - 1)
  OBVIOUS
<1>3. \A j \in (i + 1)..n : recorded[j].id # id
  BY <1>1, <1>2
<1> QED
  BY <1>1, <1>3 DEF Kept

LEMMA KeptStays ==
    ASSUME UNCHANGED <<recorded, attendance>>, NEW id, NEW n, Kept(id, n)
    PROVE  Kept(id, n)'
BY DEF Kept, Leaves

\* A step of a request that runs: what it has to leave for the rest to hold.
LEMMA AttemptStep ==
    ASSUME DeviceInv, NEW a \in Attempts, Running(a), NEW y \in AttemptStates, Goes(a, y),
           UNCHANGED <<recorded, account, overlapped>>,
           awaited' \in Attempts \cup {Nobody}, faults' \in 0..MaxFaults,
           attendance' \in [Ids -> Row \cup {NoRow}],
           skipped \subseteq skipped', skipped' \in SUBSET Ids,
           acked' \in 0..Len(recorded), acked' = acked \/ y = Idle,
           y # Idle =>
              /\ y.first = attempt[a].first /\ y.size = attempt[a].size
              /\ y.at \in {"ops", "found"} => y.done <= y.size
              /\ y.at = "found" => y.done < y.size /\ recorded[y.first + y.done + 1].op = "DELETE",
           ~ overlapped => \A id \in Ids \ skipped' :
              /\ Kept(id, acked)'
              /\ y.at \in {"ops", "found"} => Kept(id, y.first + y.done)'
    PROVE  DeviceInv'
<1>1. /\ attempt' \in [Attempts -> AttemptStates]
      /\ attempt'[a] = y
      /\ \A b \in Attempts \ {a} : attempt'[b] = attempt[b]
  BY DEF Goes, DeviceInv, DeviceTypeOK
<1>2. DeviceTypeOK'
  BY <1>1 DEF DeviceInv, DeviceTypeOK
<1>3. ASSUME NEW b \in Attempts PROVE AttemptSound(b)'
  <2>1. CASE b = a
    <3>1. AttemptSound(a)
      BY DEF DeviceInv
    <3> QED
      BY <1>1, <2>1, <3>1 DEF AttemptSound, Running, Op
  <2>2. CASE b # a
    <3>1. AttemptSound(b) /\ attempt'[b] = attempt[b]
      BY <1>1, <2>2 DEF DeviceInv
    <3>2. ~ overlapped => attempt[b] = Idle
      BY <2>2 DEF DeviceInv, OneRuns, Running
    <3> QED
      BY <3>1, <3>2 DEF AttemptSound, Op, DeviceInv, DeviceTypeOK
  <2> QED
    BY <2>1, <2>2
<1>4. OneRuns'
  BY <1>1 DEF DeviceInv, OneRuns, Running
<1>5. AttendanceKept'
  <2> SUFFICES ASSUME ~ overlapped, NEW id \in Ids \ skipped'
               PROVE  /\ Kept(id, acked)'
                      /\ \A b \in Attempts : attempt'[b].at \in {"ops", "found"} =>
                            Kept(id, attempt[b].first + attempt[b].done)'
    BY DEF AttendanceKept
  <2>1. ASSUME NEW b \in Attempts, attempt'[b].at \in {"ops", "found"} PROVE b = a
    BY <1>1, <2>1 DEF DeviceInv, OneRuns, Running, Idle
  <2>2. ASSUME y.at \in {"ops", "found"} PROVE Kept(id, attempt[a].first + attempt[a].done)'
    <3>1. Kept(id, y.first + y.done)'
      BY <2>2
    <3> QED
      BY <3>1, <1>1 DEF Kept
  <2> QED
    BY <1>1, <2>1, <2>2
<1> QED
  BY <1>2, <1>3, <1>4, <1>5 DEF DeviceInv

----------------------------------------------------------------------------
(* The steps of the service.                                               *)

\* What a request that runs may rely on.
LEMMA RunningParts ==
    ASSUME DeviceInv, NEW a \in Attempts, Running(a)
    PROVE  /\ attempt[a] \in AttemptStates
           /\ attempt[a].first \in 0..MaxOps /\ attempt[a].size \in 1..MaxOps
           /\ attempt[a].first + attempt[a].size <= Len(recorded)
           /\ attempt[a].at \in {"ops", "found"} =>
                 /\ attempt[a].done \in 0..MaxOps /\ attempt[a].done <= attempt[a].size
                 /\ attempt[a].unitIds \in SUBSET Units
           /\ attempt[a].at = "found" => attempt[a].done < attempt[a].size /\ Op(a).op = "DELETE"
           /\ ~ overlapped => attempt[a].first = acked
           /\ Len(recorded) \in Nat /\ acked \in 0..Len(recorded)
<1>1. attempt[a] \in AttemptStates /\ Len(recorded) \in Nat /\ acked \in 0..Len(recorded)
  BY DEF DeviceInv, DeviceTypeOK
<1>2. AttemptSound(a)
  BY DEF DeviceInv
<1> QED
  BY <1>1, <1>2, AttemptParts DEF AttemptSound, Running

\* Whatever ends a request and leaves the answers as they were.
LEMMA EndStep ==
    ASSUME DeviceInv, NEW a \in Attempts, Running(a), Goes(a, Idle),
           UNCHANGED <<recorded, account, overlapped, attendance, skipped, acked>>,
           awaited' \in Attempts \cup {Nobody}, faults' \in 0..MaxFaults
    PROVE  DeviceInv'
<1>1. Idle \in AttemptStates /\ Idle.at = "idle"
  BY DEF AttemptStates, Idle
<1>2. acked' \in 0..Len(recorded) /\ attendance' \in [Ids -> Row \cup {NoRow}]
      /\ skipped' \in SUBSET Ids
  BY DEF DeviceInv, DeviceTypeOK
<1>3. ASSUME ~ overlapped, NEW id \in Ids \ skipped' PROVE Kept(id, acked)'
  BY <1>3 DEF DeviceInv, AttendanceKept, Kept, Leaves
<1>4. ~ overlapped => \A id \in Ids \ skipped' :
        /\ Kept(id, acked)'
        /\ Idle.at \in {"ops", "found"} => Kept(id, Idle.first + Idle.done)'
  BY <1>1, <1>3
<1> QED
  BY <1>1, <1>2, <1>4, AttemptStep

LEMMA RefuseStep ==
    ASSUME DeviceInv, NEW a \in Attempts, Running(a), Refuse(a),
           UNCHANGED <<recorded, account, overlapped, attendance, skipped, acked>>,
           faults' \in 0..MaxFaults
    PROVE  DeviceInv'
<1>1. awaited' \in Attempts \cup {Nobody}
  BY DEF Refuse, DeviceInv, DeviceTypeOK
<1> QED
  BY <1>1, EndStep DEF Refuse

LEMMA FindActorStep ==
    ASSUME DeviceInv, NEW a \in Attempts, FindActor(a)
    PROVE  DeviceInv'
<1> DEFINE x == attempt[a]
           y == [x EXCEPT !.at = "memberships"]
<1>1. /\ Running(a) /\ x.at = "actor"
      /\ UNCHANGED <<recorded, acked, attendance, account, skipped, overlapped, faults>>
      /\ (Goes(a, y) /\ UNCHANGED awaited) \/ Refuse(a)
  BY DEF FindActor, Running, Idle
<1>2. faults' \in 0..MaxFaults
  BY <1>1 DEF DeviceInv, DeviceTypeOK
<1>3. ASSUME Goes(a, y), UNCHANGED awaited PROVE DeviceInv'
  <2>1. x \in AttemptStates
    BY <1>1, RunningParts
  <2>2. /\ y \in AttemptStates /\ y.at = "memberships"
        /\ y.first = x.first /\ y.size = x.size
    BY <1>1, <2>1 DEF AttemptStates, Idle
  <2> HIDE DEF y
  <2>3. /\ acked' \in 0..Len(recorded) /\ attendance' \in [Ids -> Row \cup {NoRow}]
        /\ skipped' \in SUBSET Ids /\ awaited' \in Attempts \cup {Nobody}
    BY <1>1, <1>3 DEF DeviceInv, DeviceTypeOK
  <2>4. ASSUME ~ overlapped, NEW id \in Ids \ skipped' PROVE Kept(id, acked)'
    BY <1>1, <2>4 DEF DeviceInv, AttendanceKept, Kept, Leaves
  <2> QED
    BY <1>1, <1>2, <1>3, <2>2, <2>3, <2>4, AttemptStep
<1> QED
  BY <1>1, <1>2, <1>3, RefuseStep

LEMMA FindMembershipsStep ==
    ASSUME DeviceInv, NEW a \in Attempts, FindMemberships(a)
    PROVE  DeviceInv'
<1> DEFINE x == attempt[a]
           y == [at |-> "ops", first |-> x.first, size |-> x.size, done |-> 0,
                 unitIds |-> {u \in Units : rows[u][Me] # "none"}]
<1>1. /\ Running(a) /\ x.at = "memberships"
      /\ UNCHANGED <<recorded, acked, attendance, account, skipped, overlapped, faults, awaited>>
      /\ Goes(a, y)
  BY DEF FindMemberships, Running, Idle
<1>2. /\ x.first \in 0..MaxOps /\ x.size \in 1..MaxOps
      /\ ~ overlapped => x.first = acked
  BY <1>1, RunningParts
<1>3. /\ y \in AttemptStates /\ y.at = "ops" /\ y.done = 0
      /\ y.first = x.first /\ y.size = x.size
  BY <1>2, Bounds DEF AttemptStates
<1>4. PICK z : z = y
  OBVIOUS
<1> HIDE DEF y
<1>5. /\ acked' \in 0..Len(recorded) /\ attendance' \in [Ids -> Row \cup {NoRow}]
      /\ skipped' \in SUBSET Ids /\ awaited' \in Attempts \cup {Nobody}
      /\ faults' \in 0..MaxFaults
  BY <1>1 DEF DeviceInv, DeviceTypeOK
<1>6. ASSUME ~ overlapped, NEW id \in Ids \ skipped'
      PROVE  Kept(id, acked)' /\ Kept(id, z.first + z.done)'
  <2>1. Kept(id, acked)
    BY <1>1, <1>6 DEF DeviceInv, AttendanceKept
  <2>2. Kept(id, acked)'
    BY <1>1, <2>1 DEF Kept, Leaves
  <2>3. z.first + z.done = acked'
    BY <1>1, <1>2, <1>3, <1>4, <1>6
  <2> QED
    BY <2>2, <2>3 DEF Kept
<1>7. Goes(a, z)
  BY <1>1, <1>4
<1> QED
  BY <1>1, <1>2, <1>3, <1>4, <1>5, <1>6, <1>7, AttemptStep

LEMMA AnswerStep ==
    ASSUME DeviceInv, NEW a \in Attempts, Answer(a)
    PROVE  DeviceInv'
<1> DEFINE x == attempt[a]
<1>1. /\ Running(a) /\ x.at = "ops" /\ x.done = x.size /\ Goes(a, Idle)
      /\ UNCHANGED <<recorded, attendance, account, skipped, overlapped, faults>>
      /\ \/ acked' = x.first + x.size /\ awaited' = Nobody
         \/ UNCHANGED <<acked, awaited>>
  BY DEF Answer, Running, Idle
<1>2. /\ x.first \in 0..MaxOps /\ x.size \in 1..MaxOps
      /\ x.first + x.size <= Len(recorded)
      /\ Len(recorded) \in Nat /\ acked \in 0..Len(recorded)
  BY <1>1, RunningParts
<1>3. /\ Idle \in AttemptStates /\ Idle.at = "idle"
  BY DEF AttemptStates, Idle
<1>4. /\ attendance' \in [Ids -> Row \cup {NoRow}]
      /\ skipped' \in SUBSET Ids /\ awaited' \in Attempts \cup {Nobody}
      /\ faults' \in 0..MaxFaults
  BY <1>1 DEF DeviceInv, DeviceTypeOK
<1> HIDE DEF x
<1>5. acked' \in 0..Len(recorded)
  BY <1>1, <1>2
<1>6. ASSUME ~ overlapped, NEW id \in Ids \ skipped' PROVE Kept(id, acked)'
  <2>1. Kept(id, acked) /\ Kept(id, x.first + x.size)
    BY <1>1, <1>6 DEF DeviceInv, AttendanceKept, x
  <2>2. Kept(id, acked)' \/ acked' # acked
    BY <1>1, <2>1 DEF Kept, Leaves
  <2>3. Kept(id, acked)' \/ acked' # x.first + x.size
    BY <1>1, <2>1 DEF Kept, Leaves
  <2> QED
    BY <1>1, <2>2, <2>3
<1> QED
  BY <1>1, <1>3, <1>4, <1>5, <1>6, AttemptStep

LEMMA FailStep ==
    ASSUME DeviceInv, NEW a \in Attempts, Fail(a)
    PROVE  DeviceInv'
<1>1. faults' \in 0..MaxFaults
  BY Bounds DEF Fail, Fault, DeviceInv, DeviceTypeOK
<1>2. awaited \in Attempts \cup {Nobody}
  BY DEF DeviceInv, DeviceTypeOK
<1> QED
  BY <1>1, <1>2, RefuseStep, EndStep DEF Fail

\* A request that has passed an operation.
Passed(x, d) == [x EXCEPT !.at = "ops", !.done = d]

AtOps == [at : {"ops", "found"}, first : 0..MaxOps, size : 1..MaxOps, done : 0..MaxOps,
          unitIds : SUBSET Units]

LEMMA PassedParts ==
    ASSUME NEW x \in AtOps, NEW d \in 0..MaxOps
    PROVE  /\ Passed(x, d) \in AttemptStates
           /\ Passed(x, d).at = "ops" /\ Passed(x, d).done = d
           /\ Passed(x, d).first = x.first /\ Passed(x, d).size = x.size
BY DEF Passed, AtOps, AttemptStates

\* The operation a request is at, the n-th that was recorded, and the one before.
LEMMA AtOpParts ==
    ASSUME DeviceInv, NEW a \in Attempts, AtOp(a) \/ attempt[a].at = "found"
    PROVE  LET x == attempt[a]
               y == Passed(x, x.done + 1)
           IN
           /\ Running(a) /\ x \in AtOps /\ x.done < x.size
           /\ x.first \in Nat /\ x.done \in Nat
           /\ x.first + x.done + 1 \in 1..Len(recorded)
           /\ Op(a) = recorded[x.first + x.done + 1] /\ Op(a) \in WriteOp
           /\ y \in AttemptStates /\ y.at = "ops" /\ y.first = x.first /\ y.size = x.size
           /\ y.done = x.done + 1
           /\ ~ overlapped => x.first = acked
<1> DEFINE x == attempt[a]
           n == x.first + x.done + 1
<1>1. Running(a) /\ x.at \in {"ops", "found"}
  BY DEF AtOp, Running, Idle
<1>2. /\ x \in AttemptStates /\ x.first \in 0..MaxOps /\ x.size \in 1..MaxOps
      /\ x.first + x.size <= Len(recorded) /\ x.done \in 0..MaxOps
      /\ ~ overlapped => x.first = acked
      /\ Len(recorded) \in Nat
  BY <1>1, RunningParts
<1>3. x.done < x.size
  BY <1>1, <1>2, RunningParts DEF AtOp
<1>4. x.done + 1 \in 0..MaxOps /\ n \in 1..Len(recorded)
  BY <1>2, <1>3, Bounds
<1>5. x \in AtOps
  <2> HIDE DEF x
  <2> QED
    BY <1>1, <1>2 DEF AtOps, AttemptStates, Idle
<1>6. Op(a) = recorded[n] /\ Op(a) \in WriteOp
  BY <1>4 DEF Op, DeviceInv, DeviceTypeOK
<1> HIDE DEF x
<1>7. LET y == Passed(x, x.done + 1) IN
      /\ y \in AttemptStates /\ y.at = "ops" /\ y.first = x.first /\ y.size = x.size
      /\ y.done = x.done + 1
  BY <1>4, <1>5, PassedParts
<1> QED
  BY <1>1, <1>2, <1>3, <1>4, <1>5, <1>6, <1>7 DEF x

\* A request passes the n-th operation, and what it had kept up to there it keeps.
LEMMA PassStep ==
    ASSUME DeviceInv, NEW a \in Attempts, AtOp(a) \/ attempt[a].at = "found", NextOp(a),
           attendance' \in [Ids -> Row \cup {NoRow}],
           skipped \subseteq skipped', skipped' \in SUBSET Ids,
           UNCHANGED <<recorded, acked, awaited, account, overlapped, faults>>,
           \A n \in 1..Len(recorded), id \in Ids \ skipped' :
              recorded[n] = Op(a) /\ Kept(id, n - 1) => Kept(id, n)'
    PROVE  DeviceInv'
<1> DEFINE x == attempt[a]
           y == Passed(x, x.done + 1)
<1>1. /\ Running(a) /\ x \in AtOps /\ x.done < x.size
      /\ x.first \in Nat /\ x.done \in Nat
      /\ x.first + x.done + 1 \in 1..Len(recorded)
      /\ Op(a) = recorded[x.first + x.done + 1]
      /\ y \in AttemptStates /\ y.at = "ops" /\ y.first = x.first /\ y.size = x.size
      /\ y.done = x.done + 1
      /\ ~ overlapped => x.first = acked
  BY AtOpParts
<1>2. Goes(a, y)
  BY DEF NextOp, Passed
<1>3. /\ acked' \in 0..Len(recorded) /\ acked' = acked
      /\ awaited' \in Attempts \cup {Nobody} /\ faults' \in 0..MaxFaults
  BY DEF DeviceInv, DeviceTypeOK
<1>4. x.at \in {"ops", "found"} /\ x.size \in Nat
  BY <1>1 DEF AtOps
<1>5. PICK z : z = y
  OBVIOUS
<1>6. PICK n : n = x.first + x.done + 1
  OBVIOUS
<1> HIDE DEF y
<1>7. n \in 1..Len(recorded) /\ recorded[n] = Op(a) /\ x.first + x.done = n - 1
  BY <1>1, <1>6
<1>8. z.first + z.done = n /\ z.done <= z.size
  <2>1. z.first = x.first /\ z.size = x.size /\ z.done = x.done + 1
    BY <1>1, <1>5
  <2>2. x.first \in Nat /\ x.done \in Nat /\ x.size \in Nat /\ x.done < x.size
    BY <1>1, <1>4
  <2> HIDE DEF x
  <2>3. x.first + (x.done + 1) = n /\ x.done + 1 <= x.size
    BY <1>6, <2>2
  <2> QED
    BY <2>1, <2>3
<1>9. ASSUME ~ overlapped, NEW id \in Ids \ skipped'
      PROVE  Kept(id, acked)' /\ Kept(id, z.first + z.done)'
  <2>1. Kept(id, x.first + x.done)
    BY <1>4, <1>9 DEF DeviceInv, AttendanceKept
  <2>2. Kept(id, n - 1)
    BY <1>7, <2>1
  <2>3. Kept(id, n)'
    BY <1>7, <1>9, <2>2
  <2>4. acked' \in Nat /\ acked' <= n /\ n \in Nat
    BY <1>1, <1>3, <1>6, <1>9
  <2>5. Kept(id, acked)'
    <3>1. PICK m : m = acked'
      OBVIOUS
    <3>2. Kept(id, m)'
      BY <2>3, <2>4, <3>1 DEF Kept
    <3> QED
      BY <3>1, <3>2 DEF Kept
  <2>6. Kept(id, z.first + z.done)'
    BY <1>8, <2>3
  <2> QED
    BY <2>5, <2>6
<1>10. Goes(a, z) /\ z \in AttemptStates /\ z.at = "ops"
  BY <1>1, <1>2, <1>5
<1>11. z.first = x.first /\ z.size = x.size
  BY <1>1, <1>5
<1> HIDE DEF x
<1> QED
  BY <1>1, <1>3, <1>8, <1>9, <1>10, <1>11, AttemptStep DEF x

LEMMA UpsertStep ==
    ASSUME DeviceInv, NEW a \in Attempts, Upsert(a)
    PROVE  DeviceInv'
<1>1. /\ AtOp(a) /\ NextOp(a) /\ IsUpsert(Op(a))
      /\ attendance' = [attendance EXCEPT ![Op(a).id] = Op(a).data]
      /\ UNCHANGED <<recorded, acked, awaited, account, skipped, overlapped, faults>>
  BY DEF Upsert, SetRow
<1>2. Op(a) \in WriteOp
  BY <1>1, AtOpParts
<1>3. Op(a).id \in Ids /\ Op(a).data \in Row
  BY <1>1, <1>2, OpParts
<1>4. /\ DeviceTypeOK /\ attendance' \in [Ids -> Row \cup {NoRow}]
      /\ skipped' \in SUBSET Ids
  BY <1>1, <1>3 DEF DeviceInv, DeviceTypeOK
<1>5. ASSUME NEW n \in 1..Len(recorded), NEW id \in Ids \ skipped',
             recorded[n] = Op(a), Kept(id, n - 1)
      PROVE  Kept(id, n)'
  <2>1. Leaves(recorded[n].id, n) = recorded[n].data
    BY <1>1, <1>5 DEF Leaves
  <2>2. recorded[n].id \in Ids
    BY <1>3, <1>5
  <2>3. attendance' = [attendance EXCEPT ![recorded[n].id] = Leaves(recorded[n].id, n)]
    BY <1>1, <1>5, <2>1
  <2> QED
    BY <1>1, <1>4, <1>5, <2>2, <2>3, KeptApplied
<1> QED
  BY <1>1, <1>4, <1>5, PassStep

LEMMA DeleteRowStep ==
    ASSUME DeviceInv, NEW a \in Attempts, AtOp(a) \/ attempt[a].at = "found",
           Op(a).op = "DELETE", NextOp(a),
           attendance' = [attendance EXCEPT ![Op(a).id] = NoRow],
           UNCHANGED <<recorded, acked, awaited, account, skipped, overlapped, faults>>
    PROVE  DeviceInv'
<1>1. Op(a) \in WriteOp
  BY AtOpParts
<1>2. Op(a).id \in Ids
  BY <1>1, OpParts
<1>3. /\ DeviceTypeOK /\ attendance' \in [Ids -> Row \cup {NoRow}]
      /\ skipped' \in SUBSET Ids
  BY DEF DeviceInv, DeviceTypeOK
<1>4. ASSUME NEW n \in 1..Len(recorded), NEW id \in Ids \ skipped',
             recorded[n] = Op(a), Kept(id, n - 1)
      PROVE  Kept(id, n)'
  <2>1. Leaves(recorded[n].id, n) = NoRow
    BY <1>4 DEF Leaves, IsUpsert
  <2>2. recorded[n].id \in Ids
    BY <1>2, <1>4
  <2>3. attendance' = [attendance EXCEPT ![recorded[n].id] = Leaves(recorded[n].id, n)]
    BY <1>4, <2>1
  <2> QED
    BY <1>3, <1>4, <2>2, <2>3, KeptApplied
<1> QED
  BY <1>3, <1>4, PassStep

LEMMA FoundStep ==
    ASSUME DeviceInv, NEW a \in Attempts, AtOp(a), Op(a).op = "DELETE",
           Goes(a, [attempt[a] EXCEPT !.at = "found"]),
           UNCHANGED <<recorded, acked, awaited, attendance, account, skipped,
                       overlapped, faults>>
    PROVE  DeviceInv'
<1> DEFINE x == attempt[a]
           y == [x EXCEPT !.at = "found"]
<1>1. /\ Running(a) /\ x \in AtOps /\ x.done < x.size
      /\ Op(a) = recorded[x.first + x.done + 1]
  BY AtOpParts
<1>2. /\ y \in AttemptStates /\ y.at = "found" /\ y.first = x.first /\ y.size = x.size
      /\ y.done = x.done
  <2> HIDE DEF x
  <2> QED
    BY <1>1 DEF AtOps, AttemptStates
<1>3. x.at \in {"ops", "found"} /\ x.done <= x.size
  BY <1>1 DEF AtOps
<1>4. PICK z : z = y
  OBVIOUS
<1> HIDE DEF y
<1>5. /\ z \in AttemptStates /\ z.at = "found" /\ z.first = x.first /\ z.size = x.size
      /\ z.done = x.done /\ Goes(a, z)
  BY <1>2, <1>4 DEF y
<1>6. /\ acked' \in 0..Len(recorded) /\ attendance' \in [Ids -> Row \cup {NoRow}]
      /\ skipped' \in SUBSET Ids /\ awaited' \in Attempts \cup {Nobody}
      /\ faults' \in 0..MaxFaults
  BY DEF DeviceInv, DeviceTypeOK
<1>7. ASSUME ~ overlapped, NEW id \in Ids \ skipped'
      PROVE  Kept(id, acked)' /\ Kept(id, z.first + z.done)'
  <2>1. Kept(id, acked) /\ Kept(id, x.first + x.done)
    BY <1>3, <1>7 DEF DeviceInv, AttendanceKept
  <2>2. Kept(id, acked)'
    BY <2>1 DEF Kept, Leaves
  <2>3. Kept(id, z.first + z.done)
    BY <1>5, <2>1
  <2>4. Kept(id, z.first + z.done)'
    BY <2>3, KeptStays
  <2> QED
    BY <2>2, <2>4
<1>8. z.done <= z.size /\ z.done < z.size /\ recorded[z.first + z.done + 1].op = "DELETE"
  BY <1>1, <1>3, <1>5
<1> HIDE DEF x
<1> QED
  BY <1>1, <1>5, <1>6, <1>7, <1>8, AttemptStep DEF x

LEMMA SkipStep ==
    ASSUME DeviceInv, NEW a \in Attempts, AtOp(a), NextOp(a),
           skipped' = skipped \cup {Op(a).id},
           UNCHANGED <<recorded, acked, awaited, attendance, account, overlapped, faults>>
    PROVE  DeviceInv'
<1>1. Op(a) \in WriteOp
  BY AtOpParts
<1>2. Op(a).id \in Ids
  BY <1>1, OpParts
<1>3. /\ attendance' \in [Ids -> Row \cup {NoRow}]
      /\ skipped' \in SUBSET Ids /\ skipped \subseteq skipped'
  BY <1>2 DEF DeviceInv, DeviceTypeOK
<1>4. ASSUME NEW n \in 1..Len(recorded), NEW id \in Ids \ skipped',
             recorded[n] = Op(a), Kept(id, n - 1)
      PROVE  Kept(id, n)'
  <2>1. recorded[n].id # id
    BY <1>4
  <2>2. Kept(id, n)
    BY <1>4, <2>1, KeptPassed
  <2> QED
    BY <2>2, KeptStays
<1> QED
  BY <1>3, <1>4, PassStep

LEMMA FindRowStep ==
    ASSUME DeviceInv, NEW a \in Attempts, FindRow(a)
    PROVE  DeviceInv'
<1>1. /\ AtOp(a) /\ Op(a).op = "DELETE"
      /\ UNCHANGED <<recorded, acked, awaited, attendance, account, overlapped, faults>>
  BY DEF FindRow
<1>2. CASE attendance[Op(a).id] = NoRow /\ NextOp(a) /\ UNCHANGED skipped
  <2>1. attendance' = [attendance EXCEPT ![Op(a).id] = NoRow]
    BY <1>1, <1>2 DEF DeviceInv, DeviceTypeOK
  <2> QED
    BY <1>1, <1>2, <2>1, DeleteRowStep
<1>3. CASE Goes(a, [attempt[a] EXCEPT !.at = "found"]) /\ UNCHANGED skipped
  BY <1>1, <1>3, FoundStep
<1>4. CASE NextOp(a) /\ skipped' = skipped \cup {Op(a).id}
  BY <1>1, <1>4, SkipStep
<1> QED
  BY <1>2, <1>3, <1>4 DEF FindRow

\* Each step of the service on a request keeps what the device relies on.
LEMMA ServeStep ==
    ASSUME DeviceInv, NEW a \in Attempts, Serve(a)
    PROVE  DeviceInv'
<1>1. CASE DeleteRow(a)
  <2>1. attempt[a].at = "found" /\ Running(a)
    BY <1>1 DEF DeleteRow, Running, Idle
  <2>2. Op(a).op = "DELETE"
    BY <2>1, RunningParts
  <2> QED
    BY <1>1, <2>1, <2>2, DeleteRowStep DEF DeleteRow
<1>2. CASE RefuseOp(a)
  <2>1. Running(a) /\ Refuse(a) /\ faults' \in 0..MaxFaults
    BY <1>2 DEF RefuseOp, AtOp, Running, Idle, DeviceInv, DeviceTypeOK
  <2> QED
    BY <1>2, <2>1, RefuseStep DEF RefuseOp
<1> QED
  BY <1>1, <1>2, FindActorStep, FindMembershipsStep, UpsertStep, FindRowStep, AnswerStep
     DEF Serve

----------------------------------------------------------------------------
(* The steps of the device, and those of others.                           *)

\* What is recorded later is about none of the operations before it.
LEMMA RecordStep ==
    ASSUME DeviceInv, NEW o \in Recordable, Record(o)
    PROVE  DeviceInv'
<1>1. /\ Len(recorded) < MaxOps /\ recorded' = Append(recorded, o)
      /\ UNCHANGED <<acked, awaited, attempt, attendance, account, skipped, overlapped, faults>>
  BY DEF Record
<1>2. o \in WriteOp /\ recorded \in Seq(WriteOp) /\ acked \in 0..Len(recorded)
  BY FieldAssumption DEF DeviceInv, DeviceTypeOK
<1>3. /\ recorded' \in Seq(WriteOp) /\ Len(recorded') = Len(recorded) + 1
      /\ \A i \in 1..Len(recorded) : recorded'[i] = recorded[i]
      /\ Len(recorded) \in Nat
  BY <1>1, <1>2
<1>4. DeviceTypeOK'
  <2>1. Len(recorded') <= MaxOps /\ acked' \in 0..Len(recorded')
    BY <1>1, <1>2, <1>3, Bounds
  <2> QED
    BY <1>1, <1>3, <2>1 DEF DeviceInv, DeviceTypeOK
<1>5. ASSUME NEW b \in Attempts PROVE AttemptSound(b)'
  <2>1. CASE attempt[b] = Idle
    BY <1>1, <2>1 DEF AttemptSound
  <2>2. CASE Running(b)
    <3> DEFINE x == attempt[b]
    <3>1. /\ x \in AttemptStates /\ x.first \in 0..MaxOps /\ x.size \in 1..MaxOps
          /\ x.first + x.size <= Len(recorded)
          /\ x.at \in {"ops", "found"} => x.done \in 0..MaxOps /\ x.done <= x.size
          /\ x.at = "found" => x.done < x.size /\ Op(b).op = "DELETE"
          /\ ~ overlapped => x.first = acked
      BY <2>2, RunningParts
    <3>2. x.first + x.size <= Len(recorded')
      <4> HIDE DEF x
      <4> QED
        BY <1>3, <3>1
    <3>3. x.at = "found" => Op(b)' = Op(b)
      <4> SUFFICES ASSUME x.at = "found" PROVE Op(b)' = Op(b)
        OBVIOUS
      <4>1. x.first + x.done + 1 \in 1..Len(recorded)
        BY <3>1, <1>3
      <4> QED
        BY <1>1, <1>3, <4>1 DEF Op
    <3> QED
      BY <1>1, <3>1, <3>2, <3>3 DEF AttemptSound
  <2> QED
    BY <2>1, <2>2 DEF Running
<1>6. ASSUME NEW id, NEW n \in 0..Len(recorded), Kept(id, n) PROVE Kept(id, n)'
  <2>1. PICK i \in 0..Len(recorded) :
          /\ i = 0 \/ recorded[i].id = id
          /\ attendance[id] = Leaves(id, i)
          /\ \A j \in (i + 1)..n : recorded[j].id # id
    BY <1>6 DEF Kept
  <2>2. i \in 0..Len(recorded') /\ (i = 0 \/ recorded'[i] = recorded[i])
    BY <1>3
  <2>3. \A j \in (i + 1)..n : recorded'[j] = recorded[j]
    BY <1>3
  <2>4. Leaves(id, i)' = Leaves(id, i)
    BY <2>2 DEF Leaves
  <2> QED
    BY <1>1, <2>1, <2>2, <2>3, <2>4 DEF Kept
<1>7. AttendanceKept'
  <2> SUFFICES ASSUME ~ overlapped, NEW id \in Ids \ skipped
               PROVE  /\ Kept(id, acked)'
                      /\ \A b \in Attempts : attempt[b].at \in {"ops", "found"} =>
                            Kept(id, attempt[b].first + attempt[b].done)'
    BY <1>1 DEF AttendanceKept
  <2>1. Kept(id, acked)'
    <3>1. PICK m : m = acked
      OBVIOUS
    <3>2. Kept(id, m)'
      BY <1>2, <1>6, <3>1 DEF DeviceInv, AttendanceKept
    <3> QED
      BY <1>1, <3>1, <3>2 DEF Kept
  <2>2. ASSUME NEW b \in Attempts, attempt[b].at \in {"ops", "found"}
        PROVE  Kept(id, attempt[b].first + attempt[b].done)'
    <3>1. PICK m : m = attempt[b].first + attempt[b].done
      OBVIOUS
    <3>2. Running(b)
      BY <2>2 DEF Running, Idle
    <3>3. m \in 0..Len(recorded)
      BY <2>2, <3>1, <3>2, RunningParts
    <3>4. Kept(id, m)
      BY <2>2, <3>1 DEF DeviceInv, AttendanceKept
    <3>5. Kept(id, m)'
      BY <1>6, <3>3, <3>4
    <3> QED
      BY <1>1, <3>1, <3>5 DEF Kept
  <2> QED
    BY <2>1, <2>2
<1> QED
  BY <1>1, <1>4, <1>5, <1>7 DEF DeviceInv, OneRuns, Running

LEMMA SendStep ==
    ASSUME DeviceInv, NEW a \in Attempts, NEW k \in 1..MaxOps, Send(a, k)
    PROVE  DeviceInv'
<1> DEFINE y == [at |-> "actor", first |-> acked, size |-> k]
<1>1. /\ ~ Running(a) /\ acked + k <= Len(recorded) /\ awaited' = a
      /\ Goes(a, y)
      /\ overlapped' = (overlapped \/ \E b \in Attempts : Running(b))
      /\ UNCHANGED <<recorded, acked, attendance, account, skipped, faults>>
  BY DEF Send
<1>2. /\ acked \in 0..MaxOps /\ acked \in 0..Len(recorded) /\ Len(recorded) \in Nat
      /\ overlapped \in BOOLEAN
  BY Bounds DEF DeviceInv, DeviceTypeOK
<1>3. /\ y \in AttemptStates /\ y.at = "actor" /\ y.first = acked /\ y.size = k
  BY <1>2 DEF AttemptStates
<1> HIDE DEF y
<1>4. /\ attempt' \in [Attempts -> AttemptStates] /\ attempt'[a] = y
      /\ \A b \in Attempts \ {a} : attempt'[b] = attempt[b]
  BY <1>1, <1>3 DEF Goes, DeviceInv, DeviceTypeOK
<1>5. DeviceTypeOK'
  BY <1>1, <1>4 DEF DeviceInv, DeviceTypeOK
<1>6. ~ overlapped' => ~ overlapped /\ \A b \in Attempts : attempt[b] = Idle
  BY <1>1, <1>2 DEF Running
<1>7. ASSUME NEW b \in Attempts PROVE AttemptSound(b)'
  <2>1. CASE b = a
    BY <1>1, <1>3, <1>4, <2>1 DEF AttemptSound
  <2>2. CASE b # a
    <3>1. AttemptSound(b) /\ attempt'[b] = attempt[b]
      BY <1>4, <2>2 DEF DeviceInv
    <3> QED
      BY <1>1, <1>6, <3>1 DEF AttemptSound, Op
  <2> QED
    BY <2>1, <2>2
<1>8. OneRuns'
  BY <1>4, <1>6 DEF OneRuns, Running
<1>9. AttendanceKept'
  <2> SUFFICES ASSUME ~ overlapped', NEW id \in Ids \ skipped
               PROVE  /\ Kept(id, acked)'
                      /\ \A b \in Attempts : attempt'[b].at \notin {"ops", "found"}
    BY <1>1 DEF AttendanceKept
  <2>1. Kept(id, acked)
    BY <1>6 DEF DeviceInv, AttendanceKept
  <2>2. Kept(id, acked)'
    BY <1>1, <2>1 DEF Kept, Leaves
  <2> QED
    BY <1>3, <1>4, <1>6, <2>2 DEF Idle
<1> QED
  BY <1>5, <1>7, <1>8, <1>9 DEF DeviceInv

LEMMA DeviceStays ==
    ASSUME DeviceInv,
           UNCHANGED <<recorded, acked, attempt, attendance, skipped, overlapped>>,
           awaited' \in Attempts \cup {Nobody}, account' \in Account,
           faults' \in 0..MaxFaults
    PROVE  DeviceInv'
<1>1. DeviceTypeOK'
  BY DEF DeviceInv, DeviceTypeOK
<1>2. (\A a \in Attempts : AttemptSound(a))' /\ OneRuns'
  BY DEF DeviceInv, AttemptSound, OneRuns, Running, Op
<1>3. AttendanceKept'
  <2> SUFFICES ASSUME ~ overlapped, NEW id \in Ids \ skipped
               PROVE  /\ Kept(id, acked)'
                      /\ \A b \in Attempts : attempt[b].at \in {"ops", "found"} =>
                            Kept(id, attempt[b].first + attempt[b].done)'
    BY DEF AttendanceKept
  <2>1. Kept(id, acked)'
    BY DEF DeviceInv, AttendanceKept, Kept, Leaves
  <2>2. ASSUME NEW b \in Attempts, attempt[b].at \in {"ops", "found"}
        PROVE  Kept(id, attempt[b].first + attempt[b].done)'
    <3>1. PICK m : m = attempt[b].first + attempt[b].done
      OBVIOUS
    <3>2. Kept(id, m)
      BY <2>2, <3>1 DEF DeviceInv, AttendanceKept
    <3>3. Kept(id, m)'
      BY <3>2, KeptStays
    <3> QED
      BY <3>1, <3>3 DEF Kept
  <2> QED
    BY <2>1, <2>2
<1> QED
  BY <1>1, <1>2, <1>3 DEF DeviceInv

LEMMA GiveUpStep ==
    ASSUME DeviceInv, GiveUp
    PROVE  DeviceInv'
<1>1. awaited' \in Attempts \cup {Nobody} /\ account' \in Account
  BY DEF GiveUp, DeviceInv, DeviceTypeOK
<1>2. faults' \in 0..MaxFaults
  BY Bounds DEF GiveUp, Fault, DeviceInv, DeviceTypeOK
<1> QED
  BY <1>1, <1>2, DeviceStays DEF GiveUp

LEMMA ToolsStay ==
    ASSUME ToolsInv, UNCHANGED <<doc, rows, tool, behind, tools>>,
           unitEdits' \in 0..MaxUnitEdits
    PROVE  ToolsInv'
<1>1. ToolsTypeOK' /\ ToolSound'
  BY DEF ToolsInv, ToolsTypeOK, ToolSound
<1>2. RowsFollowUnits' /\ RebuildRepairs'
  BY DEF ToolsInv, RowsFollowUnits, RebuildRepairs, Follows
<1> QED
  BY <1>1, <1>2 DEF ToolsInv

LEMMA SetAccessStep ==
    ASSUME IInv, NEW approved0 \in BOOLEAN, SetAccess(approved0)
    PROVE  IInv'
<1>1. account' \in Account
  BY DEF SetAccess, IInv, DeviceInv, DeviceTypeOK, Account
<1>2. unitEdits' \in 0..MaxUnitEdits
  BY ToolsAssumption DEF SetAccess, IInv, ToolsInv, ToolsTypeOK
<1>3. awaited' \in Attempts \cup {Nobody} /\ faults' \in 0..MaxFaults
  BY DEF SetAccess, IInv, DeviceInv, DeviceTypeOK
<1> QED
  BY <1>1, <1>2, <1>3, DeviceStays, ToolsStay DEF SetAccess, IInv

----------------------------------------------------------------------------
(* The invariant and what follows from it.                                 *)

LEMMA InvariantStart == Init => IInv
<1> SUFFICES ASSUME Init PROVE IInv
  OBVIOUS
<1>1. /\ ToolsInit /\ recorded = <<>> /\ acked = 0 /\ awaited = Nobody
      /\ attempt = [a \in Attempts |-> Idle] /\ attendance = FirstAttendance
      /\ account \in Accounts /\ skipped = {} /\ overlapped = FALSE /\ faults = 0
  BY DEF Init
<1>2. Len(recorded) = 0 /\ recorded \in Seq(WriteOp)
  BY <1>1
<1>3. DeviceTypeOK
  <2>1. attempt \in [Attempts -> AttemptStates]
    BY <1>1 DEF AttemptStates
  <2>2. /\ attendance \in [Ids -> Row \cup {NoRow}] /\ account \in Account
        /\ MaxOps \in Nat /\ MaxFaults \in Nat
    BY <1>1, FieldAssumption
  <2>3. Len(recorded) <= MaxOps /\ acked \in 0..Len(recorded) /\ faults \in 0..MaxFaults
    BY <1>1, <1>2, <2>2
  <2> QED
    BY <1>1, <1>2, <2>1, <2>2, <2>3 DEF DeviceTypeOK
<1>4. (\A a \in Attempts : AttemptSound(a)) /\ OneRuns
  BY <1>1 DEF AttemptSound, OneRuns, Running
<1>5. AttendanceKept
  <2>1. \A id \in Ids : Kept(id, 0)
    BY <1>1, <1>2 DEF Kept, Leaves
  <2> QED
    BY <1>1, <2>1 DEF AttendanceKept, Idle
<1> QED
  BY <1>1, <1>3, <1>4, <1>5, ToolsStart DEF IInv, DeviceInv

LEMMA InvariantStep == IInv /\ [Next]_vars => IInv'
<1> SUFFICES ASSUME IInv, [Next]_vars PROVE IInv'
  OBVIOUS
<1>1. ToolsInv /\ DeviceInv
  BY DEF IInv
<1>2. ASSUME UNCHANGED toolVars PROVE ToolsInv'
  <2>1. UNCHANGED <<doc, rows, tool, behind, tools>> /\ unitEdits' = unitEdits
    BY <1>2 DEF toolVars
  <2> QED
    BY <1>1, <2>1, ToolsStay DEF ToolsInv, ToolsTypeOK
<1>3. ASSUME UNCHANGED fieldVars PROVE DeviceInv'
  <2>1. /\ UNCHANGED <<recorded, acked, attempt, attendance, skipped, overlapped>>
        /\ awaited' = awaited /\ account' = account /\ faults' = faults
    BY <1>3 DEF fieldVars
  <2>2. /\ awaited' \in Attempts \cup {Nobody} /\ account' \in Account
        /\ faults' \in 0..MaxFaults
    BY <1>1, <2>1 DEF DeviceInv, DeviceTypeOK
  <2> QED
    BY <1>1, <2>1, <2>2, DeviceStays
<1>4. ASSUME NEW o \in Recordable, Record(o) PROVE IInv'
  BY <1>1, <1>2, <1>4, RecordStep DEF Record, IInv
<1>5. CASE SendSome
  BY <1>1, <1>2, <1>5, SendStep DEF SendSome, Send, IInv
<1>6. CASE GiveUp
  BY <1>1, <1>2, <1>6, GiveUpStep DEF GiveUp, IInv
<1>7. ASSUME NEW a \in Attempts, Serve(a) PROVE IInv'
  <2>1. UNCHANGED toolVars
    BY <1>7 DEF Serve, FindActor, FindMemberships, Upsert, RefuseOp, FindRow, DeleteRow, Answer
  <2> QED
    BY <1>1, <1>2, <1>7, <2>1, ServeStep DEF IInv
<1>8. ASSUME NEW a \in Attempts, Fail(a) PROVE IInv'
  BY <1>1, <1>2, <1>8, FailStep DEF Fail, IInv
<1>9. CASE ToolsNext /\ UNCHANGED fieldVars
  BY <1>1, <1>3, <1>9, ToolsStep DEF IInv
<1>10. CASE UNCHANGED vars
  BY <1>2, <1>3, <1>10 DEF vars, IInv
<1> QED
  BY <1>4, <1>5, <1>6, <1>7, <1>8, <1>9, <1>10, SetAccessStep DEF Next

\* The invariant holds whatever the device, the service and the tools do.
THEOREM FieldInvariant == Spec => []IInv
<1> QED
  BY InvariantStart, InvariantStep, PTL DEF Spec

\* Variables keep their types; see applyWrites and the two tools.
THEOREM FieldTypeCorrect == Spec => []TypeOK
<1>1. IInv => TypeOK
  <2> SUFFICES ASSUME IInv PROVE TypeOK
    OBVIOUS
  <2>1. acked \in 0..MaxOps
    BY Bounds DEF IInv, DeviceInv, DeviceTypeOK
  <2> QED
    BY <2>1 DEF IInv, ToolsInv, ToolsTypeOK, DeviceInv, DeviceTypeOK, TypeOK
<1> QED
  BY <1>1, FieldInvariant, PTL

\* The rows of a unit follow its document, but for what a backfill owes and for
\* the units a named cause has left behind.
THEOREM RowsFollow == Spec => []RowsFollowUnits
<1>1. IInv => RowsFollowUnits
  BY DEF IInv, ToolsInv
<1> QED
  BY <1>1, FieldInvariant, PTL

\* A rebuild repairs whatever it passes and nobody edits meanwhile.
THEOREM RebuildsRepair == Spec => []RebuildRepairs
<1>1. IInv => RebuildRepairs
  BY DEF IInv, ToolsInv
<1> QED
  BY <1>1, FieldInvariant, PTL

\* Batches that fail half way and are sent again never take a row back to before
\* what the device was told is saved.
THEOREM AnsweredIsKept == Spec => []AnsweredStays
<1>1. IInv => AnsweredStays
  BY DEF IInv, DeviceInv, AttendanceKept, Kept, AnsweredStays
<1> QED
  BY <1>1, FieldInvariant, PTL
=============================================================================
