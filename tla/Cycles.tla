------------------------------- MODULE Cycles -------------------------------
(***************************************************************************)
(* CyclesService (src/src/cycles) and OpportunitiesService                 *)
(* (src/src/opportunities) over the catalogues: a unit's cycle with its    *)
(* dates, its diagnostic, which is answered once and then locked, and its  *)
(* focus, from which the learning opportunities take their competency.     *)
(*                                                                         *)
(* A call loads the cycle, checks, may read a catalogue, and saves; other  *)
(* calls run between these.  save() writes the paths that were set.  It    *)
(* carries __v in its query, and increments it, only when one of them is   *)
(* a whole array: that is diagnosticAnswers, and not focus, which is an    *)
(* object set as a whole with its array inside.                            *)
(***************************************************************************)
EXTENDS Catalogue, Sequences

CONSTANTS
    Cycles, Opportunities,  \* ids a document has or may get
    BranchOf,               \* the branch of the unit of each cycle
    Dates,
    AnswerLists,            \* lists of questions a diagnostic may answer
    ItemLists,              \* lists of items a focus may ask for
    Summaries, NoSummary,
    Unsent,                 \* a field the request leaves out
    Calls,                  \* calls that may be under way at the same time
    MaxSaves                \* bound: a call begins while fewer have saved

VARIABLES
    cycle,        \* the collection cycles
    opportunity,  \* the collection learning_opportunities
    call,         \* per call: its request with what it read and built, or NoCall
    saves,        \* saves so far
    asked,        \* history: what the questions of a branch were at some time
    said,         \* history: what the items of a branch were at some time
    mixed         \* history: cycles a date of which changed under another patch

history == <<asked, said, mixed>>
vars    == <<catalogue, cycle, opportunity, call, saves, history>>

\* Answers and competencies by the question or item they are about: each
\* holds the text of the catalogue at the time; scores, notes, blocks and areas
\* are left out.
Answers      == UNION {[S -> Texts] : S \in SUBSET Questions}
Competencies == UNION {[S -> Texts] : S \in SUBSET Items}
Empty        == [x \in {} |-> x]

CycleDoc == [start : Dates, end : Dates, answers : Answers,
             summary : Summaries \cup {NoSummary},
             competencies : Competencies, active : BOOLEAN, version : Nat]
Opportunity == [cycle : Cycles, item : Items, text : Texts]

ASSUME CyclesAssumption ==
    /\ Dates \subseteq Nat
    /\ BranchOf \in [Cycles -> Branches]
    /\ AnswerLists \subseteq Seq(Questions)
    /\ ItemLists \subseteq Seq(Items)
    /\ NoSummary \notin Summaries
    /\ MaxSaves \in Nat
    /\ Unsent \notin Dates /\ Unsent \notin ItemLists
    /\ NoDoc \notin CycleDoc \cup Opportunity

\* A call under way: the step it takes next, its request, and of the loaded
\* cycle what it still needs: the version, the competencies stored.
DatesCall   == [at : {"dates"}, cycle : Cycles, start : Dates \cup {Unsent},
                end : Dates \cup {Unsent}]
RemoveCall  == [at : {"remove"}, cycle : Cycles]
AnswerCall  == [at : {"questions", "answers"}, cycle : Cycles, list : AnswerLists,
                summary : Summaries, version : Nat, built : Answers]
FocusCall   == [at : {"items", "focus"}, cycle : Cycles, list : ItemLists \cup {Unsent}, stored : Competencies, built : Competencies]
OfferCall   == [at : {"offer"}, cycle : Cycles, built : Competencies]
ReofferCall == [at : {"find", "reoffer"}, cycle : Cycles, item : Items,
                opportunity : Opportunities, stored : Competencies,
                built : Competencies]
NoCall == [at |-> "idle"]
CallStates == DatesCall \cup RemoveCall \cup AnswerCall \cup FocusCall
                \cup OfferCall \cup ReofferCall \cup {NoCall}

----------------------------------------------------------------------------
HasValidRange(start, end) == end > start

IsDiagnosticLocked(doc) == DOMAIN doc.answers # {} /\ doc.summary # NoSummary

ElementsOf(list) == {list[n] : n \in DOMAIN list}

HasDuplicate(list) == \E m, n \in DOMAIN list : m # n /\ list[m] = list[n]

\* The value of a field after the request: sent, or as stored.
Or(sent, stored) == IF sent = Unsent THEN stored ELSE sent

\* Faulty variant: questions left without an answer are not noticed.
NoProblemWithSome(list, b) ==
    /\ ~ HasDuplicate(list)
    /\ ElementsOf(list) \subseteq ActiveQuestions(b)
    /\ ActiveQuestions(b) # {}

\* findDiagnosticProblem finds none: every question of the branch once.
NoProblem(list, b) ==
    /\ ~ HasDuplicate(list)
    /\ ElementsOf(list) = ActiveQuestions(b)
    /\ ActiveQuestions(b) # {}

BuildAnswers(list) == [q \in ElementsOf(list) |-> question[q].text]

\* Faulty variant: an item that left the catalogue is looked up there all the same.
BuildFromAnyItem(list, b, stored) ==
    [i \in ElementsOf(list) |-> IF item[i] # NoDoc THEN item[i].text ELSE stored[i]]

\* buildCompetencies: the catalogue first, then what the focus already had.
BuildCompetencies(list, b, stored) ==
    [i \in ElementsOf(list) |-> IF i \in ActiveItems(b) THEN item[i].text ELSE stored[i]]

AllKnown(list, b, stored) ==
    /\ ~ HasDuplicate(list)
    /\ ElementsOf(list) \subseteq ActiveItems(b) \cup DOMAIN stored

\* The catalogues of a branch as a reader finds them now.
AskedNow(b) == [q \in ActiveQuestions(b) |-> question[q].text]
SaidNow(b)  == {<<i, item[i].text>> : i \in ActiveItems(b)}

PairsOf(f) == {<<i, f[i]>> : i \in DOMAIN f}

----------------------------------------------------------------------------
(* The cycle is loaded: findOne, and the checks that need nothing more.    *)

Listed(k) == cycle[k] # NoDoc /\ cycle[k].active

Enter(c, state) ==
    /\ call[c] = NoCall
    /\ saves < MaxSaves
    /\ call' = [call EXCEPT ![c] = state]
    /\ UNCHANGED <<catalogue, cycle, opportunity, saves, history>>

\* A date that keeps the value loaded is not a modified path.
Modified(sent, stored) == IF sent = stored THEN Unsent ELSE sent

DatesState(k, start, end) ==
    [at |-> "dates", cycle |-> k, start |-> Modified(start, cycle[k].start),
     end |-> Modified(end, cycle[k].end)]

\* Faulty variant: a single date is not compared with the stored one.
BeginDatesAlone(c, k, start, end) ==
    /\ Listed(k)
    /\ start # Unsent /\ end # Unsent => HasValidRange(start, end)
    /\ Enter(c, DatesState(k, start, end))

BeginDates(c, k, start, end) ==
    /\ Listed(k)
    /\ HasValidRange(Or(start, cycle[k].start), Or(end, cycle[k].end))
    /\ Enter(c, DatesState(k, start, end))

BeginRemove(c, k) ==
    /\ Listed(k)
    /\ Enter(c, [at |-> "remove", cycle |-> k])

BeginDiagnostic(c, k, list, summary) ==
    /\ Listed(k)
    /\ ~ IsDiagnosticLocked(cycle[k])
    /\ Enter(c, [at |-> "questions", cycle |-> k, list |-> list, summary |-> summary,
                 version |-> cycle[k].version, built |-> Empty])

\* Without competencies the focus is saved with those loaded and other texts.
BeginFocus(c, k, list) ==
    /\ Listed(k)
    /\ Enter(c, [at |-> IF list = Unsent THEN "focus" ELSE "items", cycle |-> k, list |-> list,
                 stored |-> IF list = Unsent THEN Empty ELSE cycle[k].competencies,
                 built |-> IF list = Unsent THEN cycle[k].competencies ELSE Empty])

\* buildCompetency: an opportunity takes it from the focus as loaded.
Chosen(focus, i) == [j \in {i} |-> focus[i]]

BeginOffer(c, k, i) ==
    /\ Listed(k)
    /\ i \in DOMAIN cycle[k].competencies
    /\ Enter(c, [at |-> "offer", cycle |-> k, built |-> Chosen(cycle[k].competencies, i)])

BeginReoffer(c, k, o, i) ==
    /\ Listed(k)
    /\ Enter(c, [at |-> "find", cycle |-> k, item |-> i, opportunity |-> o,
                 stored |-> cycle[k].competencies, built |-> Empty])

----------------------------------------------------------------------------
(* What a call reads besides the cycle.                                    *)

\* The call is answered, or throws.
Leave(c) ==
    call' = [call EXCEPT ![c] = NoCall]

Build(c, built, step) ==
    /\ call' = [call EXCEPT ![c].at = step, ![c].built = built]
    /\ UNCHANGED <<saves, catalogue, cycle, opportunity, history>>

ReadQuestions(c) ==
    /\ call[c].at = "questions"
    /\ NoProblem(call[c].list, BranchOf[call[c].cycle])
    /\ Build(c, BuildAnswers(call[c].list), "answers")

ReadItems(c) ==
    LET b == BranchOf[call[c].cycle] IN
    /\ call[c].at = "items"
    /\ AllKnown(call[c].list, b, call[c].stored)
    /\ Build(c, BuildCompetencies(call[c].list, b, call[c].stored), "focus")

\* update of an opportunity: the competency it has already is kept, and then
\* nothing is written; any other must be in the focus loaded before.
FindOpportunity(c) ==
    LET o == call[c].opportunity IN
    /\ call[c].at = "find"
    /\ opportunity[o] # NoDoc
    /\ opportunity[o].cycle = call[c].cycle
    /\ opportunity[o].item # call[c].item
    /\ call[c].item \in DOMAIN call[c].stored
    /\ Build(c, Chosen(call[c].stored, call[c].item), "reoffer")

\* A check above fails, the unit is gone or out of the caller's scope by now,
\* or an await throws: the call ends and has written nothing.
Drop(c) ==
    /\ call[c] # NoCall
    /\ Leave(c)
    /\ UNCHANGED <<catalogue, cycle, opportunity, saves, history>>

----------------------------------------------------------------------------
(* The writes.                                                             *)

Save(c, doc) ==
    /\ cycle' = [cycle EXCEPT ![call[c].cycle] = doc]
    /\ Leave(c)
    /\ saves' = saves + 1
    /\ UNCHANGED <<catalogue, opportunity, asked, said>>

\* Faulty variant: a date the patch leaves out is overwritten too.
WithDatesUnset(c) ==
    [cycle[call[c].cycle] EXCEPT !.start = call[c].start, !.end = call[c].end]

WithDates(c) ==
    [cycle[call[c].cycle] EXCEPT !.start = Or(call[c].start, @),
                                 !.end   = Or(call[c].end, @)]

\* Faulty variant: the document is saved whole, as it was when it was loaded.
SaveDatesWhole(c) ==
    /\ call[c].at = "dates"
    /\ Save(c, [WithDates(c) EXCEPT !.active = TRUE])
    /\ UNCHANGED mixed

\* The patch sets a date that the other was checked against and does not set.
SetsUnder(patch, other) ==
    \/ patch.start # Unsent /\ other.start = Unsent
    \/ patch.end # Unsent /\ other.end = Unsent

SaveDates(c) ==
    LET k == call[c].cycle IN
    /\ call[c].at = "dates"
    /\ Save(c, WithDates(c))
    /\ mixed' = IF \E d \in Calls \ {c} : /\ call[d].at = "dates" /\ call[d].cycle = k
                                         /\ SetsUnder(call[c], call[d])
                THEN mixed \cup {k} ELSE mixed

SaveRemoval(c) ==
    /\ call[c].at = "remove"
    /\ Save(c, [cycle[call[c].cycle] EXCEPT !.active = FALSE])
    /\ UNCHANGED mixed

\* Faulty variant: __v is not part of the query.
OvertakenUnnoticed(c) == FALSE

\* Another diagnostic was saved since the cycle was loaded: VersionError.
Overtaken(c) == cycle[call[c].cycle].version # call[c].version

SaveDiagnostic(c) ==
    LET k == call[c].cycle IN
    /\ call[c].at = "answers"
    /\ ~ Overtaken(c)
    /\ Save(c, [cycle[k] EXCEPT !.answers = call[c].built, !.summary = call[c].summary,
                                !.version = cycle[k].version + 1])
    /\ UNCHANGED mixed

SaveFocus(c) ==
    LET k == call[c].cycle IN
    /\ call[c].at = "focus"
    /\ Save(c, [cycle[k] EXCEPT !.competencies = call[c].built])
    /\ UNCHANGED mixed

SetOpportunity(c, o) ==
    /\ \E i \in DOMAIN call[c].built :
          opportunity' = [opportunity EXCEPT ![o] =
                            [cycle |-> call[c].cycle, item |-> i, text |-> call[c].built[i]]]
    /\ Leave(c)
    /\ saves' = saves + 1
    /\ UNCHANGED <<catalogue, cycle, history>>

CreateOpportunity(c, o) ==
    /\ call[c].at = "offer"
    /\ opportunity[o] = NoDoc
    /\ SetOpportunity(c, o)

SaveOpportunity(c) ==
    /\ call[c].at = "reoffer"
    /\ SetOpportunity(c, call[c].opportunity)

\* create: nothing it reads is used in what it inserts.
CreateCycle(k, start, end) ==
    /\ cycle[k] = NoDoc
    /\ HasValidRange(start, end)
    /\ cycle' = [cycle EXCEPT ![k] =
                   [start |-> start, end |-> end, answers |-> Empty, summary |-> NoSummary,
                    competencies |-> Empty, active |-> TRUE, version |-> 0]]
    /\ UNCHANGED <<catalogue, opportunity, call, saves, history>>

----------------------------------------------------------------------------
Init ==
    /\ CatalogueInit
    /\ cycle = [k \in Cycles |-> NoDoc]
    /\ opportunity = [o \in Opportunities |-> NoDoc]
    /\ call = [c \in Calls |-> NoCall]
    /\ saves = 0
    /\ asked = [b \in Branches |-> {AskedNow(b)}]
    /\ said = [b \in Branches |-> SaidNow(b)]
    /\ mixed = {}

EditCatalogue ==
    /\ CatalogueNext
    /\ asked' = [b \in Branches |-> asked[b] \cup {AskedNow(b)'}]
    /\ said' = [b \in Branches |-> said[b] \cup SaidNow(b)']
    /\ UNCHANGED <<cycle, opportunity, call, saves, mixed>>

Begin(c, k) ==
    \/ \E start, end \in Dates \cup {Unsent} :
          {start, end} # {Unsent} /\ BeginDates(c, k, start, end)
    \/ BeginRemove(c, k)
    \/ \E list \in AnswerLists, summary \in Summaries : BeginDiagnostic(c, k, list, summary)
    \/ \E list \in ItemLists \cup {Unsent} : BeginFocus(c, k, list)
    \/ \E i \in Items : BeginOffer(c, k, i)
    \/ \E o \in Opportunities, i \in Items : BeginReoffer(c, k, o, i)

Continue(c) ==
    \/ ReadQuestions(c) \/ ReadItems(c) \/ FindOpportunity(c) \/ Drop(c)
    \/ SaveDates(c) \/ SaveRemoval(c) \/ SaveDiagnostic(c) \/ SaveFocus(c)
    \/ \E o \in Opportunities : CreateOpportunity(c, o)
    \/ SaveOpportunity(c)

Next ==
    \/ EditCatalogue
    \/ \E k \in Cycles, start, end \in Dates : CreateCycle(k, start, end)
    \/ \E c \in Calls, k \in Cycles : Begin(c, k)
    \/ \E c \in Calls : Continue(c)

Spec == Init /\ [][Next]_vars

----------------------------------------------------------------------------
\* The collections, the calls and the histories have their types.
TypeOK ==
    /\ CatalogueTypeOK
    /\ cycle \in [Cycles -> CycleDoc \cup {NoDoc}]
    /\ opportunity \in [Opportunities -> Opportunity \cup {NoDoc}]
    /\ call \in [Calls -> CallStates]
    /\ saves \in Nat
    /\ asked \in [Branches -> SUBSET UNION {[S -> Texts] : S \in SUBSET Questions}]
    /\ said \in [Branches -> SUBSET (Items \X Texts)]
    /\ mixed \subseteq Cycles

\* saveDiagnostic refuses a cycle whose diagnostic is registered (409, tested
\* for one call): whatever calls overlap, answers and summary then stay.
LockedDiagnosticStays ==
    [][\A k \in Cycles :
          cycle[k] # NoDoc /\ IsDiagnosticLocked(cycle[k]) =>
              /\ cycle'[k].answers = cycle[k].answers
              /\ cycle'[k].summary = cycle[k].summary]_vars

\* A registered diagnostic answers all the questions its branch had at one
\* moment, with the words they had then, although the catalogue is edited
\* between the reading, the building and the saving.
AnswersOneCatalogue ==
    \A k \in Cycles : cycle[k] # NoDoc /\ DOMAIN cycle[k].answers # {} =>
        cycle[k].answers \in asked[BranchOf[k]]

\* What a focus, and an opportunity, says of an item, its branch's catalogue said
\* at some time while the item was active: a document keeps saying what it said.
CompetenciesHaveASource ==
    /\ \A k \in Cycles : cycle[k] # NoDoc =>
          PairsOf(cycle[k].competencies) \subseteq said[BranchOf[k]]
    /\ \A o \in Opportunities : opportunity[o] # NoDoc =>
          <<opportunity[o].item, opportunity[o].text>> \in said[BranchOf[opportunity[o].cycle]]

\* remove is for good: a call that loaded the cycle before and saves after
\* does not bring it back.
RemovedStaysRemoved ==
    [][\A k \in Cycles : cycle[k] # NoDoc /\ ~ cycle[k].active => ~ cycle'[k].active]_vars

\* A cycle ends after it starts.  Patches of the same date, or of both, may
\* overlap; it can fail only where a patch set the start, or the end, that another
\* had been checked against and does not set itself.
RangeStaysValid ==
    \A k \in Cycles : cycle[k] # NoDoc =>
        k \in mixed \/ HasValidRange(cycle[k].start, cycle[k].end)
=============================================================================
