------------------------------- MODULE Tools -------------------------------
(***************************************************************************)
(* The tools that mend unit_memberships from a console, while the service  *)
(* runs: backfillUnitLeaders and rebuildUnitMemberships (src/src/tools).   *)
(* Units and their rows change meanwhile by the operations of              *)
(* UnitsService, which write both in one transaction.  A tool reads every  *)
(* unit once, at its start; one runs at a time.                            *)
(***************************************************************************)
EXTENDS Naturals

CONSTANTS
    Units, People,
    LeaderSets,   \* what leadersOfBranch may find among the adults of a group
    MemberSets,   \* whom an operation may leave as members
    NoUnit,       \* an id whose unit was removed
    FirstDocs,    \* the units a behaviour may start from
    FirstBehind,  \* those of them that may be without rows, older than the collection
    MaxUnitEdits, \* bound: operations on units
    MaxTools      \* bound: tools started

UnitRoles == {"leader", "assistant", "member"}

Doc == [lead : People, leaders : SUBSET People, members : SUBSET People,
        version : Nat]

NoTool == [kind |-> "none"]
Tool == [kind : {"backfill", "rebuild"}, loaded : [Units -> Doc \cup {NoUnit}],
         todo : SUBSET Units, owed : SUBSET Units]

ASSUME ToolsAssumption ==
    /\ LeaderSets \cup MemberSets \subseteq SUBSET People
    /\ FirstDocs \subseteq [Units -> Doc]
    /\ NoUnit \notin Doc
    /\ FirstBehind \subseteq SUBSET Units
    /\ MaxUnitEdits \in Nat /\ MaxTools \in Nat

VARIABLES
    doc,        \* the collection units
    rows,       \* unit_memberships: per unit, the role of each person
    tool,       \* the tool that runs; what it owes is a unit saved without its rows
    behind,     \* history: units whose rows a named cause has left behind
    unitEdits,  \* operations on units so far
    tools       \* tools started so far

toolVars == <<doc, rows, tool, behind, unitEdits, tools>>

\* projectMemberships: each person once, by the first role named.
RoleIn(d, p) ==
    CASE p = d.lead -> "leader"
      [] p # d.lead /\ p \in d.leaders -> "assistant"
      [] p # d.lead /\ p \notin d.leaders /\ p \in d.members -> "member"
      [] OTHER -> "none"

\* A unit that is gone has no rows.
projectMemberships(d) ==
    [p \in People |-> IF d = NoUnit THEN "none" ELSE RoleIn(d, p)]

Follows(u) == rows[u] = projectMemberships(doc[u])

\* Units that a step leaves behind for a cause of its own join those behind;
\* whoever follows again leaves them.
LeftBehind(S) == behind' = {u \in behind \cup S : ~ Follows(u)'}

----------------------------------------------------------------------------
(* UnitsService: the document and its rows, in one transaction.            *)

Write(u, d) ==
    /\ unitEdits < MaxUnitEdits
    /\ unitEdits' = unitEdits + 1
    /\ doc' = [doc EXCEPT ![u] = d]
    /\ rows' = [rows EXCEPT ![u] = projectMemberships(d)]
    /\ UNCHANGED <<tool, tools>>
    /\ LeftBehind({})

\* update: findByIdAndUpdate with the fields of the patch leaves __v alone.
\* Only a patch that carries both is rid of the leader among the assistants.
PatchLeaders(u, lead, leaders) ==
    /\ doc[u] # NoUnit
    /\ \/ Write(u, [doc[u] EXCEPT !.lead = lead])
       \/ Write(u, [doc[u] EXCEPT !.leaders = leaders])
       \/ Write(u, [doc[u] EXCEPT !.lead = lead, !.leaders = leaders \ {lead}])

\* save of a loaded document increments __v when it sets an array to another.
Saved(u, d) ==
    IF d.leaders = doc[u].leaders /\ d.members = doc[u].members THEN d
    ELSE [d EXCEPT !.version = @ + 1]

Configure(u, lead, leaders) ==
    /\ doc[u] # NoUnit
    /\ Write(u, Saved(u, [doc[u] EXCEPT !.lead = lead, !.leaders = leaders \ {lead}]))

\* setMembers, split and the seed.
SaveMembers(u, members) ==
    /\ doc[u] # NoUnit
    /\ Write(u, Saved(u, [doc[u] EXCEPT !.members = members]))

RemoveUnit(u) ==
    /\ doc[u] # NoUnit
    /\ doc[u].members = {}
    /\ Write(u, NoUnit)

----------------------------------------------------------------------------
(* The tools.                                                              *)

Start(kind) ==
    /\ tool = NoTool
    /\ tools < MaxTools
    /\ tools' = tools + 1
    /\ tool' = [kind |-> kind, loaded |-> doc,
               todo |-> {u \in Units : doc[u] # NoUnit}, owed |-> {}]
    /\ UNCHANGED <<doc, rows, behind, unitEdits>>

\* Faulty variant: the rows of the people no longer named stay.
InsertRows(u, d) ==
    rows' = [rows EXCEPT ![u] = [p \in People |->
                IF projectMemberships(d)[p] = "none" THEN rows[u][p]
                ELSE projectMemberships(d)[p]]]

\* Faulty variant: only those who have a row get the role they have now.
UpdateRows(u, d) ==
    rows' = [rows EXCEPT ![u] = [p \in People |->
                IF rows[u][p] = "none" THEN "none" ELSE projectMemberships(d)[p]]]

\* rebuildUnitMembership: deleteMany and insertMany in a transaction.
RewriteRows(u, d) == rows' = [rows EXCEPT ![u] = projectMemberships(d)]

Kill == tool' = NoTool

\* Somebody has changed the unit since the tool loaded, or saved, it.
Overtaken(u) == IF doc[u] = tool.loaded[u] THEN {} ELSE {u}

\* The assistants are those found, less the leader as loaded.  Nothing is done
\* to a unit that already names them.  The save throws when __v has moved or
\* the unit is gone, and with it ends the tool; otherwise it sets the array.
BackfillLeaders(u, found) ==
    LET assistants == found \ {tool.loaded[u].lead}
        saved      == [tool.loaded[u] EXCEPT !.leaders = assistants, !.version = @ + 1]
        matches    == doc[u] # NoUnit /\ doc[u].version = tool.loaded[u].version
    IN
    /\ tool # NoTool
    /\ tool.kind = "backfill"
    /\ tool.owed = {}
    /\ u \in tool.todo
    /\ \/ /\ assistants = tool.loaded[u].leaders
          /\ tool' = [tool EXCEPT !.todo = @ \ {u}]
          /\ UNCHANGED doc
       \/ /\ assistants # tool.loaded[u].leaders
          /\ ~ matches
          /\ Kill
          /\ UNCHANGED doc
       \/ /\ assistants # tool.loaded[u].leaders
          /\ matches
          /\ doc' = [doc EXCEPT ![u].leaders = assistants, ![u].version = @ + 1]
          /\ tool' = [tool EXCEPT !.todo = @ \ {u}, !.owed = {u}, !.loaded[u] = saved]
    /\ UNCHANGED <<rows, unitEdits, tools>>
    /\ LeftBehind({})

\* The rows of what the tool loaded and changed, not of what is stored by now.
BackfillRows(u) ==
    /\ tool # NoTool
    /\ u \in tool.owed
    /\ RewriteRows(u, tool.loaded[u])
    /\ tool' = [tool EXCEPT !.owed = {}]
    /\ UNCHANGED <<doc, unitEdits, tools>>
    /\ LeftBehind(Overtaken(u))

RebuildUnit(u) ==
    /\ tool # NoTool
    /\ tool.kind = "rebuild"
    /\ u \in tool.todo
    /\ tool' = [tool EXCEPT !.todo = @ \ {u}]
    /\ RewriteRows(u, tool.loaded[u])
    /\ UNCHANGED <<doc, unitEdits, tools>>
    /\ LeftBehind(Overtaken(u))

\* The end of a tool, an error, or somebody interrupts it.
Exit ==
    /\ tool # NoTool
    /\ Kill
    /\ UNCHANGED <<doc, rows, unitEdits, tools>>
    /\ LeftBehind(tool.owed)

----------------------------------------------------------------------------
ToolsInit ==
    /\ doc \in FirstDocs
    /\ behind \in FirstBehind
    /\ rows = [u \in Units |-> IF u \in behind THEN [p \in People |-> "none"]
                              ELSE projectMemberships(doc[u])]
    /\ tool = NoTool
    /\ unitEdits = 0
    /\ tools = 0

Tend(u) ==
    \/ \E found \in LeaderSets : BackfillLeaders(u, found)
    \/ BackfillRows(u)
    \/ RebuildUnit(u)

ToolsNext ==
    \/ \E u \in Units, p \in People, S \in LeaderSets :
          PatchLeaders(u, p, S) \/ Configure(u, p, S)
    \/ \E u \in Units :
          (\E S \in MemberSets : SaveMembers(u, S)) \/ RemoveUnit(u)
    \/ \E kind \in {"backfill", "rebuild"} : Start(kind)
    \/ \E u \in Units : Tend(u)
    \/ Exit
=============================================================================
