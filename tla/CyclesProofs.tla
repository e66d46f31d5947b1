---------------------------- MODULE CyclesProofs ----------------------------
(***************************************************************************)
(* What holds of the cycles, their diagnostics, focuses and opportunities, *)
(* and of the catalogues they read, for any number of calls and editors.   *)
(***************************************************************************)
EXTENDS Cycles, TLAPS

----------------------------------------------------------------------------
(* The catalogues.                                                         *)

\* A checked change is of an item there is and, unless it is crossed, fits it.
MoveFits(e) ==
    LET m == move[e] IN
    m # NoMove =>
        /\ item[m.item] # NoDoc
        /\ m.item \notin crossed => AreaBelongsToBranch(Moved(m).branch, Moved(m).area)

CatalogueInv ==
    /\ CatalogueTypeOK
    /\ AreaSuitsBranch
    /\ \A e \in Editors : MoveFits(e)

LEMMA MoveParts ==
    ASSUME NEW m \in Move \cup {NoMove}, m # NoMove
    PROVE  /\ m \in Move
           /\ m.item \in Items /\ m.fields \in SUBSET Fields
           /\ m.branch \in Branches /\ m.area \in Areas
BY DEF Move

LEMMA ItemParts ==
    ASSUME NEW d \in ItemDoc
    PROVE  /\ d.branch \in Branches /\ d.area \in Areas /\ d.order \in Orders
           /\ d.text \in Texts /\ d.active \in BOOLEAN
           /\ d # NoDoc
BY NoDocAssumption DEF ItemDoc

LEMMA EditedType ==
    ASSUME edits \in 0..MaxEdits, Edited
    PROVE  edits' \in 0..MaxEdits
BY MaxEditsAssumption DEF Edited

\* The item a change makes of the item it is applied to.
LEMMA MovedType ==
    ASSUME NEW m \in Move, item[m.item] \in ItemDoc
    PROVE  /\ Moved(m) \in ItemDoc
           /\ Moved(m).branch = IF "branch" \in m.fields THEN m.branch ELSE item[m.item].branch
           /\ Moved(m).area = IF "area" \in m.fields THEN m.area ELSE item[m.item].area
BY DEF Moved, Move, ItemDoc

LEMMA CatalogueStart == CatalogueInit => CatalogueInv
<1> SUFFICES ASSUME CatalogueInit PROVE CatalogueInv
  OBVIOUS
<1>1. CatalogueTypeOK
  <2>1. edits \in 0..MaxEdits
    BY MaxEditsAssumption DEF CatalogueInit
  <2>2. question \in [Questions -> QuestionDoc \cup {NoDoc}] /\ item \in [Items -> ItemDoc \cup {NoDoc}]
    BY CatalogueStartAssumption, Zenon DEF CatalogueInit
  <2> QED
    BY <2>1, <2>2 DEF CatalogueInit, CatalogueTypeOK
<1>2. AreaSuitsBranch
  BY CatalogueStartAssumption, Zenon DEF CatalogueInit, AreaSuitsBranch
<1>3. \A e \in Editors : MoveFits(e)
  BY DEF CatalogueInit, MoveFits
<1> QED
  BY <1>1, <1>2, <1>3 DEF CatalogueInv

\* Questions are changed without their items.
LEMMA QuestionStep ==
    ASSUME CatalogueInv, NEW q \in Questions, NEW d \in QuestionDoc, SetQuestion(q, d)
    PROVE  CatalogueInv'
<1>1. CatalogueTypeOK'
  BY EditedType DEF CatalogueInv, CatalogueTypeOK, SetQuestion
<1> QED
  BY <1>1 DEF CatalogueInv, SetQuestion, AreaSuitsBranch, MoveFits, Moved

LEMMA QuestionParts ==
    ASSUME NEW d \in QuestionDoc
    PROVE  [d EXCEPT !.active = TRUE] \in QuestionDoc /\ [d EXCEPT !.active = FALSE] \in QuestionDoc
BY DEF QuestionDoc

\* An item is written with a branch and an area that suit each other, or with
\* those it had.
LEMMA ItemStep ==
    ASSUME CatalogueInv, NEW i \in Items, NEW d \in ItemDoc, SetItem(i, d), Edited,
           UNCHANGED <<move, crossed>>,
           \/ item[i] = NoDoc /\ AreaBelongsToBranch(d.branch, d.area)
           \/ item[i] # NoDoc /\ d.branch = item[i].branch /\ d.area = item[i].area
    PROVE  CatalogueInv'
<1>1. item' = [item EXCEPT ![i] = d] /\ item \in [Items -> ItemDoc \cup {NoDoc}]
  BY DEF SetItem, CatalogueInv, CatalogueTypeOK
<1>2. CatalogueTypeOK'
  BY <1>1, EditedType DEF CatalogueInv, CatalogueTypeOK, SetItem
<1>3. AreaSuitsBranch'
  BY <1>1 DEF CatalogueInv, AreaSuitsBranch, AreaBelongsToBranch
<1>4. ASSUME NEW e \in Editors PROVE MoveFits(e)'
  <2> SUFFICES ASSUME move[e] # NoMove
               PROVE  /\ item'[move[e].item] # NoDoc
                      /\ move[e].item \notin crossed =>
                            AreaBelongsToBranch(Moved(move[e]).branch, Moved(move[e]).area)'
    BY DEF MoveFits
  <2>1. move[e] \in Move /\ move[e].item \in Items
    BY MoveParts DEF CatalogueInv, CatalogueTypeOK
  <2>2. /\ item[move[e].item] \in ItemDoc
        /\ move[e].item \notin crossed =>
              AreaBelongsToBranch(Moved(move[e]).branch, Moved(move[e]).area)
    <3>1. MoveFits(e)
      BY DEF CatalogueInv
    <3>2. item[move[e].item] \in ItemDoc \cup {NoDoc}
      BY <1>1, <2>1
    <3> QED
      BY <3>1, <3>2 DEF MoveFits
  <2>3. /\ item'[move[e].item] \in ItemDoc
        /\ item'[move[e].item].branch = item[move[e].item].branch
        /\ item'[move[e].item].area = item[move[e].item].area
    BY <1>1, <2>1, <2>2, ItemParts
  <2>4. Moved(move[e])'.branch = Moved(move[e]).branch /\ Moved(move[e])'.area = Moved(move[e]).area
    <3> DEFINE m == move[e]
               old == item[m.item]
               new == item'[m.item]
    <3>1. m' = m
      OBVIOUS
    <3>2. /\ Moved(m) = [old EXCEPT !.branch = IF "branch" \in m.fields THEN m.branch ELSE @,
                                    !.area   = IF "area" \in m.fields THEN m.area ELSE @]
          /\ Moved(m)' = [new EXCEPT !.branch = IF "branch" \in m.fields THEN m.branch ELSE @,
                                     !.area   = IF "area" \in m.fields THEN m.area ELSE @]
      BY <3>1 DEF Moved
    <3>3. old \in ItemDoc /\ new \in ItemDoc /\ new.branch = old.branch /\ new.area = old.area
      BY <2>2, <2>3
    <3> HIDE DEF m, old, new
    <3> QED
      BY <3>2, <3>3 DEF ItemDoc, m
  <2> QED
    BY <2>2, <2>3, <2>4, ItemParts DEF AreaBelongsToBranch
<1> QED
  BY <1>2, <1>3, <1>4 DEF CatalogueInv

LEMMA CheckMoveStep ==
    ASSUME CatalogueInv, NEW e \in Editors, NEW i \in Items, NEW fields \in SUBSET Fields,
           NEW branch \in Branches, NEW area \in Areas, CheckMove(e, i, fields, branch, area)
    PROVE  CatalogueInv'
<1> DEFINE m == [item |-> i, fields |-> fields, branch |-> branch, area |-> area]
<1>1. m \in Move /\ m.item = i /\ m.fields = fields /\ m.branch = branch /\ m.area = area
  BY DEF Move
<1>2. move' = [move EXCEPT ![e] = m] /\ UNCHANGED <<question, item, crossed>>
  BY DEF CheckMove, HoldMove
<1>3. item[i] \in ItemDoc
  BY DEF CatalogueInv, CatalogueTypeOK, CheckMove
<1> HIDE DEF m
<1>4. CatalogueTypeOK'
  BY <1>1, <1>2, EditedType DEF CatalogueInv, CatalogueTypeOK, CheckMove, HoldMove
<1>5. Moved(m).branch = branch /\ Moved(m).area = area
  BY <1>1, <1>3, MovedType DEF CheckMove, Combined
<1>6. ASSUME NEW d \in Editors PROVE MoveFits(d)'
  <2>1. CASE d = e
    BY <2>1, <1>1, <1>2, <1>5 DEF MoveFits, CheckMove, CatalogueInv, CatalogueTypeOK, Moved
  <2>2. CASE d # e
    <3>1. move'[d] = move[d]
      BY <2>2, <1>2 DEF CatalogueInv, CatalogueTypeOK
    <3> QED
      BY <3>1, <1>2 DEF MoveFits, CatalogueInv, Moved
  <2> QED
    BY <2>1, <2>2
<1> QED
  BY <1>2, <1>4, <1>6 DEF CatalogueInv, AreaSuitsBranch

LEMMA ApplyMoveStep ==
    ASSUME CatalogueInv, NEW e \in Editors, ApplyMove(e)
    PROVE  CatalogueInv'
<1> DEFINE m == move[e]
<1>1. m \in Move /\ m.item \in Items /\ m # NoMove
  BY MoveParts DEF CatalogueInv, CatalogueTypeOK, ApplyMove
<1>2. /\ item' = [item EXCEPT ![m.item] = Moved(m)]
      /\ move' = [move EXCEPT ![e] = NoMove]
      /\ crossed' = IF \E d \in Editors \ {e} : Overtakes(m, move[d])
                    THEN crossed \cup {m.item} ELSE crossed
      /\ UNCHANGED <<question, edits>>
  BY DEF ApplyMove, SetItem
<1>3. /\ item[m.item] \in ItemDoc /\ Moved(m) \in ItemDoc
      /\ m.item \notin crossed => AreaBelongsToBranch(Moved(m).branch, Moved(m).area)
  BY <1>1, MovedType DEF CatalogueInv, CatalogueTypeOK, MoveFits
<1> HIDE DEF m
<1>4. CatalogueTypeOK'
  BY <1>1, <1>2, <1>3 DEF CatalogueInv, CatalogueTypeOK
<1>5. AreaSuitsBranch'
  BY <1>1, <1>2, <1>3 DEF CatalogueInv, CatalogueTypeOK, AreaSuitsBranch
<1>6. ASSUME NEW d \in Editors PROVE MoveFits(d)'
  <2>1. CASE d = e
    BY <2>1, <1>2 DEF MoveFits, CatalogueInv, CatalogueTypeOK
  <2>2. CASE d # e
    <3>1. move'[d] = move[d]
      BY <2>2, <1>2 DEF CatalogueInv, CatalogueTypeOK
    <3> SUFFICES ASSUME move[d] # NoMove
                 PROVE  /\ item'[move[d].item] # NoDoc
                        /\ move[d].item \notin crossed' =>
                              AreaBelongsToBranch(Moved(move[d]).branch, Moved(move[d]).area)'
      BY <3>1 DEF MoveFits
    <3>2. move[d] \in Move /\ move[d].item \in Items
      BY MoveParts DEF CatalogueInv, CatalogueTypeOK
    <3>3. CASE move[d].item = m.item
      <4>1. item'[m.item] = Moved(m) /\ Moved(m) # NoDoc
        BY <1>1, <1>2, <1>3, ItemParts DEF CatalogueInv, CatalogueTypeOK
      <4>2. CASE Overtakes(m, move[d])
        <5>1. m.item \in crossed'
          BY <4>2, <1>2, <2>2
        <5> QED
          BY <5>1, <4>1, <3>3
      <4>3. CASE ~ Overtakes(m, move[d])
        <5>1. m.fields \subseteq move[d].fields /\ crossed \subseteq crossed'
          BY <4>3, <3>3, <1>2 DEF Overtakes
        <5>2. /\ Moved(m).branch = IF "branch" \in m.fields THEN m.branch ELSE item[m.item].branch
              /\ Moved(m).area = IF "area" \in m.fields THEN m.area ELSE item[m.item].area
          BY <1>1, <1>3, MovedType
        <5>3. /\ Moved(move[d])'.branch = Moved(move[d]).branch
              /\ Moved(move[d])'.area = Moved(move[d]).area
          <6> DEFINE n == move[d]
                     old == item[n.item]
                     new == item'[n.item]
          <6>1. n' = n
            BY <3>1
          <6>2. /\ Moved(n) = [old EXCEPT !.branch = IF "branch" \in n.fields THEN n.branch ELSE @,
                                          !.area   = IF "area" \in n.fields THEN n.area ELSE @]
                /\ Moved(n)' = [new EXCEPT !.branch = IF "branch" \in n.fields THEN n.branch ELSE @,
                                           !.area   = IF "area" \in n.fields THEN n.area ELSE @]
            BY <6>1 DEF Moved
          <6>3. /\ old \in ItemDoc /\ new \in ItemDoc
                /\ "branch" \notin n.fields => new.branch = old.branch
                /\ "area" \notin n.fields => new.area = old.area
            BY <3>3, <4>1, <1>3, <5>1, <5>2
          <6> HIDE DEF n, old, new
          <6> QED
            BY <6>2, <6>3 DEF ItemDoc, n
        <5>4. MoveFits(d)
          BY DEF CatalogueInv
        <5> QED
          BY <5>1, <5>3, <5>4, <4>1, <3>3 DEF MoveFits, AreaBelongsToBranch
      <4> QED
        BY <4>2, <4>3
    <3>4. CASE move[d].item # m.item
      <4>1. item'[move[d].item] = item[move[d].item] /\ crossed \subseteq crossed'
        BY <3>2, <3>4, <1>2 DEF CatalogueInv, CatalogueTypeOK
      <4> QED
        <5>1. Moved(move[d])' = Moved(move[d])
          BY <3>1, <4>1 DEF Moved
        <5>2. MoveFits(d)
          BY DEF CatalogueInv
        <5> QED
          BY <4>1, <5>1, <5>2 DEF MoveFits, AreaBelongsToBranch
    <3> QED
      BY <3>3, <3>4
  <2> QED
    BY <2>1, <2>2
<1> QED
  BY <1>4, <1>5, <1>6 DEF CatalogueInv

LEMMA DropMoveStep ==
    ASSUME CatalogueInv, NEW e \in Editors, DropMove(e)
    PROVE  CatalogueInv'
<1>1. CatalogueTypeOK'
  BY DEF CatalogueInv, CatalogueTypeOK, DropMove
<1>2. ASSUME NEW d \in Editors PROVE MoveFits(d)'
  BY DEF CatalogueInv, CatalogueTypeOK, DropMove, MoveFits, Moved
<1> QED
  BY <1>1, <1>2 DEF CatalogueInv, AreaSuitsBranch, DropMove

\* Whatever is done to the catalogues keeps them sound.
LEMMA CatalogueStep ==
    ASSUME CatalogueInv, CatalogueNext
    PROVE  CatalogueInv'
<1>1. ASSUME NEW q \in Questions, NEW d \in QuestionDocs, CreateQuestion(q, d)
      PROVE  CatalogueInv'
  BY <1>1, QuestionStep, QuestionParts, CatalogueStartAssumption DEF CreateQuestion
<1>2. ASSUME NEW q \in Questions, NEW d \in QuestionDocs, UpdateQuestion(q, d)
      PROVE  CatalogueInv'
  BY <1>2, QuestionStep, CatalogueStartAssumption DEF UpdateQuestion
<1>3. ASSUME NEW q \in Questions, RemoveQuestion(q)
      PROVE  CatalogueInv'
  <2>1. question[q] \in QuestionDoc
    BY <1>3 DEF CatalogueInv, CatalogueTypeOK, RemoveQuestion
  <2> QED
    BY <1>3, <2>1, QuestionStep, QuestionParts DEF RemoveQuestion
<1>4. ASSUME NEW i \in Items, NEW d \in ItemDoc, CreateItem(i, d)
      PROVE  CatalogueInv'
  <2> DEFINE made == [d EXCEPT !.active = TRUE]
  <2>1. made \in ItemDoc /\ made.branch = d.branch /\ made.area = d.area
    BY DEF ItemDoc
  <2> HIDE DEF made
  <2> QED
    BY <1>4, <2>1, ItemStep DEF CreateItem, made
<1>5. ASSUME NEW i \in Items, NEW d \in ItemDoc, UpdateItem(i, d)
      PROVE  CatalogueInv'
  <2> DEFINE made == [item[i] EXCEPT !.order = d.order, !.text = d.text, !.active = d.active]
  <2>1. item[i] \in ItemDoc
    BY <1>5 DEF CatalogueInv, CatalogueTypeOK, UpdateItem
  <2>2. made \in ItemDoc /\ made.branch = item[i].branch /\ made.area = item[i].area
    BY <2>1 DEF ItemDoc
  <2>3. SetItem(i, made) /\ Edited /\ UNCHANGED <<move, crossed>>
    BY <1>5 DEF UpdateItem
  <2> HIDE DEF made
  <2> QED
    BY <1>5, <2>2, <2>3, ItemStep DEF UpdateItem
<1>6. ASSUME NEW i \in Items, RemoveItem(i)
      PROVE  CatalogueInv'
  <2> DEFINE made == [item[i] EXCEPT !.active = FALSE]
  <2>1. item[i] \in ItemDoc
    BY <1>6 DEF CatalogueInv, CatalogueTypeOK, RemoveItem
  <2>2. made \in ItemDoc /\ made.branch = item[i].branch /\ made.area = item[i].area
    BY <2>1 DEF ItemDoc
  <2>3. SetItem(i, made) /\ Edited /\ UNCHANGED <<move, crossed>>
    BY <1>6 DEF RemoveItem
  <2> HIDE DEF made
  <2> QED
    BY <1>6, <2>2, <2>3, ItemStep DEF RemoveItem
<1>7. ASSUME NEW i \in Items, NEW d \in SeedDocs, Seed(i, d)
      PROVE  CatalogueInv'
  <2> DEFINE made == [d EXCEPT !.active = TRUE]
  <2>1. d \in ItemDoc /\ AreaBelongsToBranch(d.branch, d.area)
    BY CatalogueStartAssumption
  <2>2. made \in ItemDoc /\ made.branch = d.branch /\ made.area = d.area
    BY <2>1 DEF ItemDoc
  <2>3. SetItem(i, made) /\ Edited /\ UNCHANGED <<move, crossed>>
    BY <1>7 DEF Seed
  <2> HIDE DEF made
  <2> QED
    BY <1>7, <2>1, <2>2, <2>3, ItemStep DEF Seed
<1>8. ItemDocs \subseteq ItemDoc
  BY CatalogueStartAssumption
<1> QED
  BY <1>1, <1>2, <1>3, <1>4, <1>5, <1>6, <1>7, <1>8, CheckMoveStep, ApplyMoveStep, DropMoveStep
  DEF CatalogueNext

----------------------------------------------------------------------------
(* The data of the calls.                                                  *)

\* The histories hold what a reader of the catalogues finds now.
HistoriesCurrent ==
    \A b \in Branches : AskedNow(b) \in asked[b] /\ SaidNow(b) \subseteq said[b]

\* Per call under way, what it may rely on of the cycle it loaded: there still
\* is one; its diagnostic is open unless another was saved since; what it has
\* built, and the competencies it took along, the catalogue once said; items
\* are looked up for a list that was sent.
CallSound(c) ==
    LET x == call[c]
        b == BranchOf[x.cycle]
    IN
    x # NoCall =>
        /\ cycle[x.cycle] # NoDoc
        /\ x.at \in {"questions", "answers"} =>
              /\ x.version <= cycle[x.cycle].version
              /\ x.version = cycle[x.cycle].version => ~ IsDiagnosticLocked(cycle[x.cycle])
        /\ x.at = "answers" => x.built \in asked[b]
        /\ x.at \in {"items", "find"} => PairsOf(x.stored) \subseteq said[b]
        /\ x.at \in {"focus", "offer", "reoffer"} => PairsOf(x.built) \subseteq said[b]
        /\ x.at = "items" => x.list # Unsent

\* A patch of dates, applied to the cycle as it is now, leaves a valid range.
DatesSound(c) ==
    LET x == call[c] IN
    x.at = "dates" /\ x.cycle \notin mixed =>
        HasValidRange(Or(x.start, cycle[x.cycle].start), Or(x.end, cycle[x.cycle].end))

IInv ==
    /\ TypeOK
    /\ \A e \in Editors : MoveFits(e)
    /\ AreaSuitsBranch
    /\ HistoriesCurrent
    /\ \A c \in Calls : CallSound(c) /\ DatesSound(c)
    /\ AnswersOneCatalogue
    /\ CompetenciesHaveASource
    /\ RangeStaysValid

\* What is stored, and what it is made of.
LEMMA CycleParts ==
    ASSUME NEW d \in CycleDoc
    PROVE  /\ d.start \in Dates /\ d.end \in Dates
           /\ d.answers \in Answers /\ d.summary \in Summaries \cup {NoSummary}
           /\ d.competencies \in Competencies /\ d.active \in BOOLEAN /\ d.version \in Nat
           /\ d # NoDoc
BY CyclesAssumption DEF CycleDoc

LEMMA CallParts ==
    ASSUME NEW x \in CallStates, x # NoCall
    PROVE  /\ x.cycle \in Cycles
           /\ x.at \in {"dates", "remove", "questions", "answers", "items", "focus",
                        "offer", "find", "reoffer"}
           /\ x.at = "dates" => x \in DatesCall
           /\ x.at \in {"questions", "answers"} => x \in AnswerCall
           /\ x.at \in {"items", "focus"} => x \in FocusCall
           /\ x.at = "offer" => x \in OfferCall
           /\ x.at \in {"find", "reoffer"} => x \in ReofferCall
BY DEF CallStates, DatesCall, RemoveCall, AnswerCall, FocusCall, OfferCall, ReofferCall

LEMMA NotIdle ==
    ASSUME NEW x, x.at # "idle"
    PROVE  x # NoCall
BY DEF NoCall

LEMMA EmptyIsBoth == Empty \in Answers /\ Empty \in Competencies /\ PairsOf(Empty) = {}
<1>1. DOMAIN Empty = {} /\ Empty \in [{} -> Texts]
  BY DEF Empty
<1>2. {} \in SUBSET Questions /\ {} \in SUBSET Items
  OBVIOUS
<1> HIDE DEF Empty
<1>3. Empty \in Answers
  BY <1>1, <1>2, Zenon DEF Answers
<1>4. Empty \in Competencies
  BY <1>1, <1>2, Zenon DEF Competencies
<1> QED
  BY <1>1, <1>3, <1>4 DEF PairsOf

LEMMA CompetencyParts ==
    ASSUME NEW f \in Competencies
    PROVE  /\ DOMAIN f \in SUBSET Items
           /\ \A i \in DOMAIN f : f[i] \in Texts /\ <<i, f[i]>> \in PairsOf(f)
BY DEF Competencies, PairsOf

LEMMA CompetencyType ==
    ASSUME NEW S \in SUBSET Items, NEW f \in [S -> Texts]
    PROVE  f \in Competencies
BY Zenon DEF Competencies

\* What an opportunity takes of a focus.
LEMMA ChosenParts ==
    ASSUME NEW f \in Competencies, NEW i \in DOMAIN f
    PROVE  /\ Chosen(f, i) \in Competencies
           /\ PairsOf(Chosen(f, i)) \subseteq PairsOf(f)
<1>1. i \in Items /\ f[i] \in Texts
  BY CompetencyParts
<1>2. Chosen(f, i) \in [{i} -> Texts] /\ DOMAIN Chosen(f, i) = {i} /\ Chosen(f, i)[i] = f[i]
  BY <1>1 DEF Chosen
<1>3. {i} \in SUBSET Items
  BY <1>1
<1>4. Chosen(f, i) \in Competencies
  BY <1>2, <1>3, CompetencyType, Zenon
<1> QED
  BY <1>2, <1>4 DEF PairsOf

\* Answers that pass the check are those of the branch, as it is asked now.
LEMMA BuiltAnswers ==
    ASSUME TypeOK, NEW list \in AnswerLists, NEW b \in Branches, NoProblem(list, b)
    PROVE  BuildAnswers(list) = AskedNow(b) /\ BuildAnswers(list) \in Answers
<1>1. BuildAnswers(list) = AskedNow(b)
  BY DEF NoProblem, BuildAnswers, AskedNow
<1>2. AskedNow(b) \in [ActiveQuestions(b) -> Texts] /\ ActiveQuestions(b) \in SUBSET Questions
  BY DEF AskedNow, ActiveQuestions, TypeOK, CatalogueTypeOK, QuestionDoc
<1>3. AskedNow(b) \in Answers
  BY <1>2, Zenon DEF Answers
<1> QED
  BY <1>1, <1>3

\* Competencies that pass the check say what the catalogue says or the focus said.
LEMMA BuiltCompetencies ==
    ASSUME TypeOK, NEW list \in ItemLists, NEW b \in Branches, NEW stored \in Competencies,
           AllKnown(list, b, stored)
    PROVE  /\ BuildCompetencies(list, b, stored) \in Competencies
           /\ PairsOf(BuildCompetencies(list, b, stored)) \subseteq SaidNow(b) \cup PairsOf(stored)
<1> DEFINE S == ElementsOf(list)
           f == BuildCompetencies(list, b, stored)
<1>1. S \in SUBSET Items
  BY CyclesAssumption DEF ElementsOf
<1>2. DOMAIN f = S /\ \A i \in S : f[i] = IF i \in ActiveItems(b) THEN item[i].text ELSE stored[i]
  BY DEF BuildCompetencies
<1>3. f = [i \in S |-> f[i]]
  BY DEF BuildCompetencies
<1>4. ASSUME NEW i \in S
      PROVE  f[i] \in Texts /\ <<i, f[i]>> \in SaidNow(b) \cup PairsOf(stored)
  <2>1. CASE i \in ActiveItems(b)
    <3>1. item[i] \in ItemDoc
      BY <2>1, <1>1 DEF ActiveItems, TypeOK, CatalogueTypeOK
    <3> QED
      BY <2>1, <1>2, <3>1, ItemParts DEF SaidNow
  <2>2. CASE i \notin ActiveItems(b)
    <3>1. i \in DOMAIN stored
      BY <2>2 DEF AllKnown
    <3> QED
      BY <2>2, <3>1, <1>2, CompetencyParts
  <2> QED
    BY <2>1, <2>2
<1> HIDE DEF S, f
<1>5. f \in [S -> Texts]
  BY <1>3, <1>4
<1>6. f \in Competencies
  BY <1>1, <1>5, CompetencyType, Zenon
<1>7. PairsOf(f) \subseteq SaidNow(b) \cup PairsOf(stored)
  BY <1>2, <1>4 DEF PairsOf
<1> QED
  BY <1>6, <1>7 DEF f

----------------------------------------------------------------------------
(* What a step leaves of the calls it does not belong to.                  *)

\* A step on a cycle leaves a cycle, and its diagnostic open or a later version.
CycleKept(k) ==
    /\ cycle'[k] # NoDoc
    /\ cycle'[k].version >= cycle[k].version
    /\ cycle'[k].version = cycle[k].version /\ IsDiagnosticLocked(cycle'[k]) =>
          IsDiagnosticLocked(cycle[k])

LEMMA OtherCallSound ==
    ASSUME IInv, TypeOK', NEW d \in Calls, call'[d] = call[d],
           \A k \in Cycles : cycle[k] # NoDoc => CycleKept(k),
           \A b \in Branches : asked[b] \subseteq asked'[b] /\ said[b] \subseteq said'[b]
    PROVE  CallSound(d)'
<1> DEFINE x == call[d]
           k == x.cycle
           b == BranchOf[k]
<1> SUFFICES ASSUME x # NoCall
             PROVE  /\ cycle'[k] # NoDoc
                    /\ x.at \in {"questions", "answers"} =>
                          /\ x.version <= cycle'[k].version
                          /\ x.version = cycle'[k].version => ~ IsDiagnosticLocked(cycle'[k])
                    /\ x.at = "answers" => x.built \in asked'[b]
                    /\ x.at \in {"items", "find"} => PairsOf(x.stored) \subseteq said'[b]
                    /\ x.at \in {"focus", "offer", "reoffer"} => PairsOf(x.built) \subseteq said'[b]
                    /\ x.at = "items" => x.list # Unsent
  BY DEF CallSound, IsDiagnosticLocked
<1>1. x \in CallStates /\ k \in Cycles /\ b \in Branches
  BY CallParts, CyclesAssumption DEF IInv, TypeOK
<1>2. /\ cycle[k] # NoDoc
      /\ x.at \in {"questions", "answers"} =>
            /\ x.version <= cycle[k].version
            /\ x.version = cycle[k].version => ~ IsDiagnosticLocked(cycle[k])
      /\ x.at = "answers" => x.built \in asked[b]
      /\ x.at \in {"items", "find"} => PairsOf(x.stored) \subseteq said[b]
      /\ x.at \in {"focus", "offer", "reoffer"} => PairsOf(x.built) \subseteq said[b]
      /\ x.at = "items" => x.list # Unsent
  BY DEF IInv, CallSound
<1>3. CycleKept(k)
  BY <1>1, <1>2
<1>4. cycle[k].version \in Nat /\ cycle'[k].version \in Nat
  <2>1. cycle[k] \in CycleDoc
    BY <1>1, <1>2 DEF IInv, TypeOK
  <2>2. cycle'[k] \in CycleDoc
    BY <1>1, <1>3 DEF TypeOK, CycleKept
  <2> QED
    BY <2>1, <2>2, CycleParts
<1>5. x.at \in {"questions", "answers"} => x.version \in Nat
  BY <1>1, CallParts DEF AnswerCall
<1> HIDE DEF x, k, b
<1>6. x.at \in {"questions", "answers"} =>
        /\ x.version <= cycle'[k].version
        /\ x.version = cycle'[k].version => ~ IsDiagnosticLocked(cycle'[k])
  BY <1>2, <1>3, <1>4, <1>5 DEF CycleKept
<1> QED
  BY <1>1, <1>2, <1>3, <1>6 DEF CycleKept

\* With either document the patch leaves the same range.
SameRange(patch, doc, old) ==
    /\ Or(patch.start, doc.start) = Or(patch.start, old.start)
    /\ Or(patch.end, doc.end) = Or(patch.end, old.end)

LEMMA OtherDatesSound ==
    ASSUME IInv, NEW d \in Calls, call'[d] = call[d], mixed \subseteq mixed',
           LET k == call[d].cycle IN
           call[d].at = "dates" =>
              \/ cycle'[k].start = cycle[k].start /\ cycle'[k].end = cycle[k].end
              \/ k \in mixed'
              \/ SameRange(call[d], cycle'[k], cycle[k])
    PROVE  DatesSound(d)'
BY DEF IInv, DatesSound, SameRange

LEMMA CallGoes ==
    ASSUME TypeOK, NEW c \in Calls, NEW state \in CallStates,
           call' = [call EXCEPT ![c] = state]
    PROVE  /\ call' \in [Calls -> CallStates]
           /\ call'[c] = state
           /\ \A d \in Calls \ {c} : call'[d] = call[d]
BY DEF TypeOK

LEMMA IdleIsSound ==
    ASSUME NEW c \in Calls, call'[c] = NoCall
    PROVE  CallSound(c)' /\ DatesSound(c)'
BY DEF CallSound, DatesSound, NoCall

\* A step of a call that leaves catalogues, cycles and histories alone.
LEMMA CallOnly ==
    ASSUME IInv, NEW c \in Calls, NEW state \in CallStates,
           call' = [call EXCEPT ![c] = state],
           UNCHANGED <<catalogue, cycle, history>>, saves' \in Nat,
           opportunity' \in [Opportunities -> Opportunity \cup {NoDoc}],
           CompetenciesHaveASource', CallSound(c)', DatesSound(c)'
    PROVE  IInv'
<1>1. /\ call' \in [Calls -> CallStates]
      /\ \A d \in Calls \ {c} : call'[d] = call[d]
  BY CallGoes DEF IInv
<1>2. TypeOK'
  BY <1>1 DEF IInv, TypeOK, CatalogueTypeOK, catalogue, history
<1>3. \A k \in Cycles : cycle[k] # NoDoc => CycleKept(k)
  <2> SUFFICES ASSUME NEW k \in Cycles, cycle[k] # NoDoc PROVE CycleKept(k)
    OBVIOUS
  <2>1. cycle[k] \in CycleDoc
    BY DEF IInv, TypeOK
  <2>2. cycle[k].version \in Nat
    BY <2>1, CycleParts
  <2> QED
    BY <2>2 DEF CycleKept
<1>4. \A b \in Branches : asked[b] \subseteq asked'[b] /\ said[b] \subseteq said'[b]
  BY DEF history
<1>5. ASSUME NEW d \in Calls PROVE CallSound(d)' /\ DatesSound(d)'
  <2>1. CASE d = c
    BY <2>1
  <2>2. CASE d # c
    <3>1. CallSound(d)'
      BY <1>1, <1>2, <1>3, <1>4, <2>2, OtherCallSound
    <3>2. DatesSound(d)'
      BY <1>1, <2>2, OtherDatesSound DEF history
    <3> QED
      BY <3>1, <3>2
  <2> QED
    BY <2>1, <2>2
<1>6. AreaSuitsBranch' /\ AnswersOneCatalogue' /\ RangeStaysValid' /\ HistoriesCurrent'
  BY DEF IInv, AreaSuitsBranch, AnswersOneCatalogue, RangeStaysValid, HistoriesCurrent,
         AskedNow, SaidNow, ActiveQuestions, ActiveItems, catalogue, history
<1>7. \A e \in Editors : MoveFits(e)'
  BY DEF IInv, MoveFits, Moved, catalogue
<1> QED
  BY <1>2, <1>5, <1>6, <1>7 DEF IInv

LEMMA SourcesStay ==
    ASSUME IInv, UNCHANGED <<cycle, opportunity, said>>
    PROVE  CompetenciesHaveASource'
BY DEF IInv, CompetenciesHaveASource

\* A step of a call that changes nothing but the call.
LEMMA CallAlone ==
    ASSUME IInv, NEW c \in Calls, NEW state \in CallStates,
           call' = [call EXCEPT ![c] = state],
           UNCHANGED <<catalogue, cycle, opportunity, saves, history>>,
           CallSound(c)', DatesSound(c)'
    PROVE  IInv'
<1>1. CompetenciesHaveASource'
  BY SourcesStay DEF history
<1>2. opportunity' \in [Opportunities -> Opportunity \cup {NoDoc}] /\ saves' \in Nat
  BY DEF IInv, TypeOK
<1> QED
  BY <1>1, <1>2, CallOnly

----------------------------------------------------------------------------
(* The steps that load the cycle.                                          *)

\* What a call loads of a cycle that is listed.
LEMMA LoadedParts ==
    ASSUME IInv, NEW k \in Cycles, Listed(k)
    PROVE  /\ cycle[k] \in CycleDoc /\ cycle[k] # NoDoc /\ BranchOf[k] \in Branches
           /\ PairsOf(cycle[k].competencies) \subseteq said[BranchOf[k]]
BY CyclesAssumption DEF IInv, TypeOK, Listed, CompetenciesHaveASource

LEMMA EnterStep ==
    ASSUME IInv, NEW c \in Calls, NEW state \in CallStates, Enter(c, state),
           call'[c] = state => CallSound(c)' /\ DatesSound(c)'
    PROVE  IInv'
<1>1. call' = [call EXCEPT ![c] = state] /\ UNCHANGED <<catalogue, cycle, opportunity, saves, history>>
  BY DEF Enter
<1>2. call'[c] = state
  BY <1>1, CallGoes DEF IInv
<1> QED
  BY <1>1, <1>2, CallAlone

LEMMA BeginDatesStep ==
    ASSUME IInv, NEW c \in Calls, NEW k \in Cycles, NEW start \in Dates \cup {Unsent},
           NEW end \in Dates \cup {Unsent}, BeginDates(c, k, start, end)
    PROVE  IInv'
<1> DEFINE x == DatesState(k, start, end)
<1>1. cycle[k] # NoDoc /\ cycle[k].start \in Dates /\ cycle[k].end \in Dates
  BY LoadedParts, CycleParts DEF BeginDates
<1>2. /\ x.at = "dates" /\ x.cycle = k
      /\ x.start = Modified(start, cycle[k].start) /\ x.end = Modified(end, cycle[k].end)
  BY DEF DatesState
<1>3. x \in CallStates /\ x # NoCall
  BY <1>1 DEF CallStates, DatesCall, DatesState, Modified, NoCall
<1>4. /\ Or(x.start, cycle[k].start) = Or(start, cycle[k].start)
      /\ Or(x.end, cycle[k].end) = Or(end, cycle[k].end)
  BY <1>1, <1>2 DEF Or, Modified
<1>5. HasValidRange(Or(x.start, cycle[k].start), Or(x.end, cycle[k].end)) /\ Enter(c, x)
  BY <1>4 DEF BeginDates
<1>6. cycle' = cycle
  BY <1>5 DEF Enter
<1> HIDE DEF x
<1>7. ASSUME call'[c] = x PROVE CallSound(c)' /\ DatesSound(c)'
  <2>1. CallSound(c)'
    BY <1>1, <1>2, <1>6, <1>7 DEF CallSound
  <2>2. DatesSound(c)'
    BY <1>2, <1>5, <1>6, <1>7 DEF DatesSound
  <2> QED
    BY <2>1, <2>2
<1> QED
  BY <1>3, <1>5, <1>7, EnterStep

LEMMA BeginRemoveStep ==
    ASSUME IInv, NEW c \in Calls, NEW k \in Cycles, BeginRemove(c, k)
    PROVE  IInv'
<1> DEFINE x == [at |-> "remove", cycle |-> k]
<1>1. x \in CallStates /\ x.at = "remove" /\ x.cycle = k
  BY DEF CallStates, RemoveCall
<1>2. Enter(c, x) /\ cycle' = cycle /\ cycle[k] # NoDoc
  BY DEF BeginRemove, Enter, Listed
<1> HIDE DEF x
<1>3. ASSUME call'[c] = x PROVE CallSound(c)' /\ DatesSound(c)'
  BY <1>1, <1>2, <1>3 DEF CallSound, DatesSound
<1> QED
  BY <1>1, <1>2, <1>3, EnterStep

LEMMA BeginDiagnosticStep ==
    ASSUME IInv, NEW c \in Calls, NEW k \in Cycles, NEW list \in AnswerLists,
           NEW summary \in Summaries, BeginDiagnostic(c, k, list, summary)
    PROVE  IInv'
<1> DEFINE x == [at |-> "questions", cycle |-> k, list |-> list, summary |-> summary,
                 version |-> cycle[k].version, built |-> Empty]
<1>1. cycle[k] # NoDoc /\ cycle[k].version \in Nat
  BY LoadedParts, CycleParts DEF BeginDiagnostic
<1>2. x \in CallStates /\ x.at = "questions" /\ x.cycle = k /\ x.version = cycle[k].version
  BY <1>1, EmptyIsBoth DEF CallStates, AnswerCall
<1>3. Enter(c, x) /\ cycle' = cycle /\ ~ IsDiagnosticLocked(cycle[k])
  BY DEF BeginDiagnostic, Enter
<1> HIDE DEF x
<1>4. ASSUME call'[c] = x PROVE CallSound(c)' /\ DatesSound(c)'
  <2>1. CallSound(c)'
    BY <1>1, <1>2, <1>3, <1>4 DEF CallSound, IsDiagnosticLocked
  <2>2. DatesSound(c)'
    BY <1>2, <1>4 DEF DatesSound
  <2> QED
    BY <2>1, <2>2
<1> QED
  BY <1>2, <1>3, <1>4, EnterStep

LEMMA BeginFocusStep ==
    ASSUME IInv, NEW c \in Calls, NEW k \in Cycles, NEW list \in ItemLists \cup {Unsent},
           BeginFocus(c, k, list)
    PROVE  IInv'
<1> DEFINE x == [at |-> IF list = Unsent THEN "focus" ELSE "items", cycle |-> k, list |-> list,
                 stored |-> IF list = Unsent THEN Empty ELSE cycle[k].competencies,
                 built |-> IF list = Unsent THEN cycle[k].competencies ELSE Empty]
<1>1. /\ cycle[k] # NoDoc /\ cycle[k].competencies \in Competencies
      /\ PairsOf(cycle[k].competencies) \subseteq said[BranchOf[k]]
  BY LoadedParts, CycleParts DEF BeginFocus
<1>2. /\ x.at \in {"items", "focus"} /\ x.cycle = k
      /\ x.stored \in {Empty, cycle[k].competencies}
      /\ x.built \in {Empty, cycle[k].competencies}
      /\ x.at = "items" => x.list # Unsent
  OBVIOUS
<1>3. x \in CallStates
  BY <1>1, EmptyIsBoth DEF CallStates, FocusCall
<1>4. Enter(c, x) /\ cycle' = cycle /\ said' = said
  BY DEF BeginFocus, Enter, history
<1> HIDE DEF x
<1>5. ASSUME call'[c] = x PROVE CallSound(c)' /\ DatesSound(c)'
  <2>1. PairsOf(x.stored) \subseteq said[BranchOf[k]] /\ PairsOf(x.built) \subseteq said[BranchOf[k]]
    BY <1>1, <1>2, EmptyIsBoth
  <2>2. CallSound(c)'
    BY <1>1, <1>2, <1>4, <1>5, <2>1 DEF CallSound
  <2>3. DatesSound(c)'
    BY <1>2, <1>5 DEF DatesSound
  <2> QED
    BY <2>2, <2>3
<1> QED
  BY <1>3, <1>4, <1>5, EnterStep

LEMMA BeginOfferStep ==
    ASSUME IInv, NEW c \in Calls, NEW k \in Cycles, NEW i \in Items, BeginOffer(c, k, i)
    PROVE  IInv'
<1> DEFINE f == cycle[k].competencies
           x == [at |-> "offer", cycle |-> k, built |-> Chosen(f, i)]
<1>1. /\ cycle[k] # NoDoc /\ f \in Competencies
      /\ PairsOf(f) \subseteq said[BranchOf[k]]
  BY LoadedParts, CycleParts DEF BeginOffer
<1>2. Chosen(f, i) \in Competencies /\ PairsOf(Chosen(f, i)) \subseteq said[BranchOf[k]]
  BY <1>1, ChosenParts DEF BeginOffer
<1>3. x \in CallStates /\ x.at = "offer" /\ x.cycle = k /\ x.built = Chosen(f, i)
  BY <1>2 DEF CallStates, OfferCall
<1>4. Enter(c, x) /\ cycle' = cycle /\ said' = said
  BY DEF BeginOffer, Enter, history
<1> HIDE DEF x
<1>5. ASSUME call'[c] = x PROVE CallSound(c)' /\ DatesSound(c)'
  <2>1. CallSound(c)'
    BY <1>1, <1>2, <1>3, <1>4, <1>5 DEF CallSound
  <2>2. DatesSound(c)'
    BY <1>3, <1>5 DEF DatesSound
  <2> QED
    BY <2>1, <2>2
<1> QED
  BY <1>3, <1>4, <1>5, EnterStep

LEMMA BeginReofferStep ==
    ASSUME IInv, NEW c \in Calls, NEW k \in Cycles, NEW o \in Opportunities, NEW i \in Items,
           BeginReoffer(c, k, o, i)
    PROVE  IInv'
<1> DEFINE f == cycle[k].competencies
           x == [at |-> "find", cycle |-> k, item |-> i, opportunity |-> o, stored |-> f,
                 built |-> Empty]
<1>1. /\ cycle[k] # NoDoc /\ f \in Competencies
      /\ PairsOf(f) \subseteq said[BranchOf[k]]
  BY LoadedParts, CycleParts DEF BeginReoffer
<1>2. x \in CallStates /\ x.at = "find" /\ x.cycle = k /\ x.stored = f
  BY <1>1, EmptyIsBoth DEF CallStates, ReofferCall
<1>3. Enter(c, x) /\ cycle' = cycle /\ said' = said
  BY DEF BeginReoffer, Enter, history
<1> HIDE DEF x
<1>4. ASSUME call'[c] = x PROVE CallSound(c)' /\ DatesSound(c)'
  <2>1. CallSound(c)'
    BY <1>1, <1>2, <1>3, <1>4 DEF CallSound
  <2>2. DatesSound(c)'
    BY <1>2, <1>4 DEF DatesSound
  <2> QED
    BY <2>1, <2>2
<1> QED
  BY <1>2, <1>3, <1>4, EnterStep

LEMMA BeginStep ==
    ASSUME IInv, NEW c \in Calls, NEW k \in Cycles, Begin(c, k)
    PROVE  IInv'
BY BeginDatesStep, BeginRemoveStep, BeginDiagnosticStep, BeginFocusStep, BeginOfferStep,
   BeginReofferStep
DEF Begin

----------------------------------------------------------------------------
(* The steps that read a catalogue or an opportunity.                      *)

\* A call takes what it built with it.
LEMMA BuildParts ==
    ASSUME TypeOK, NEW c \in Calls, call[c] # NoCall, NEW built, NEW step,
           Build(c, built, step)
    PROVE  /\ call' = [call EXCEPT ![c] = [call[c] EXCEPT !.at = step, !.built = built]]
           /\ UNCHANGED <<catalogue, cycle, opportunity, saves, history>>
BY DEF Build, TypeOK

LEMMA ReadQuestionsStep ==
    ASSUME IInv, NEW c \in Calls, ReadQuestions(c)
    PROVE  IInv'
<1> DEFINE x == call[c]
           k == x.cycle
           built == BuildAnswers(x.list)
           y == [x EXCEPT !.at = "answers", !.built = built]
<1>1. x \in CallStates /\ x.at = "questions" /\ x # NoCall
  BY NotIdle DEF IInv, TypeOK, ReadQuestions
<1>2. x \in AnswerCall /\ k \in Cycles /\ BranchOf[k] \in Branches
  BY <1>1, CallParts, CyclesAssumption
<1>3. NoProblem(x.list, BranchOf[k]) /\ x.list \in AnswerLists
  BY <1>2 DEF AnswerCall, ReadQuestions
<1>4. built \in Answers /\ built \in asked[BranchOf[k]]
  BY <1>2, <1>3, BuiltAnswers DEF IInv, HistoriesCurrent
<1>5. /\ cycle[k] # NoDoc /\ x.version <= cycle[k].version
      /\ x.version = cycle[k].version => ~ IsDiagnosticLocked(cycle[k])
  BY <1>1 DEF IInv, CallSound
<1>6. /\ call' = [call EXCEPT ![c] = y]
      /\ UNCHANGED <<catalogue, cycle, opportunity, saves, history>>
  BY <1>1, BuildParts DEF IInv, ReadQuestions
<1> HIDE DEF x, k, built
<1>7. /\ y \in AnswerCall /\ y.at = "answers" /\ y.cycle = k /\ y.built = built
      /\ y.version = x.version
  BY <1>2, <1>4 DEF AnswerCall, k
<1>8. y \in CallStates
  BY <1>7 DEF CallStates
<1> HIDE DEF y
<1>9. call'[c] = y
  BY <1>6, <1>8, CallGoes DEF IInv
<1>10. CallSound(c)'
  BY <1>4, <1>5, <1>6, <1>7, <1>9 DEF CallSound, history, IsDiagnosticLocked
<1>11. DatesSound(c)'
  BY <1>7, <1>9 DEF DatesSound
<1> QED
  BY <1>6, <1>8, <1>10, <1>11, CallAlone

LEMMA ReadItemsStep ==
    ASSUME IInv, NEW c \in Calls, ReadItems(c)
    PROVE  IInv'
<1> DEFINE x == call[c]
           k == x.cycle
           b == BranchOf[k]
           built == BuildCompetencies(x.list, b, x.stored)
           y == [x EXCEPT !.at = "focus", !.built = built]
<1>1. x \in CallStates /\ x.at = "items" /\ x # NoCall
  BY NotIdle DEF IInv, TypeOK, ReadItems
<1>2. x \in FocusCall /\ k \in Cycles /\ b \in Branches
  BY <1>1, CallParts, CyclesAssumption
<1>3. AllKnown(x.list, b, x.stored) /\ x.stored \in Competencies /\ x.list \in ItemLists \cup {Unsent}
  BY <1>2 DEF FocusCall, ReadItems
<1>4. cycle[k] # NoDoc /\ PairsOf(x.stored) \subseteq said[b] /\ x.list # Unsent
  BY <1>1 DEF IInv, CallSound
<1>5. built \in Competencies /\ PairsOf(built) \subseteq said[b]
  <2>1. x.list \in ItemLists
    BY <1>3, <1>4
  <2>2. SaidNow(b) \subseteq said[b]
    BY <1>2 DEF IInv, HistoriesCurrent
  <2> QED
    BY <1>2, <1>3, <1>4, <2>1, <2>2, BuiltCompetencies DEF IInv
<1>6. /\ call' = [call EXCEPT ![c] = y]
      /\ UNCHANGED <<catalogue, cycle, opportunity, saves, history>>
  BY <1>1, BuildParts DEF IInv, ReadItems
<1> HIDE DEF x, k, b, built
<1>7. y \in FocusCall /\ y.at = "focus" /\ y.cycle = k /\ y.built = built
  BY <1>2, <1>5 DEF FocusCall, k
<1>8. y \in CallStates
  BY <1>7 DEF CallStates
<1> HIDE DEF y
<1>9. call'[c] = y
  BY <1>6, <1>8, CallGoes DEF IInv
<1>10. CallSound(c)'
  BY <1>4, <1>5, <1>6, <1>7, <1>9 DEF CallSound, history, b
<1>11. DatesSound(c)'
  BY <1>7, <1>9 DEF DatesSound
<1> QED
  BY <1>6, <1>8, <1>10, <1>11, CallAlone

LEMMA FindOpportunityStep ==
    ASSUME IInv, NEW c \in Calls, FindOpportunity(c)
    PROVE  IInv'
<1> DEFINE x == call[c]
           k == x.cycle
           b == BranchOf[k]
           built == Chosen(x.stored, x.item)
           y == [x EXCEPT !.at = "reoffer", !.built = built]
<1>1. x \in CallStates /\ x.at = "find" /\ x # NoCall
  BY NotIdle DEF IInv, TypeOK, FindOpportunity
<1>2. x \in ReofferCall /\ k \in Cycles
  BY <1>1, CallParts
<1>3. x.stored \in Competencies /\ x.item \in DOMAIN x.stored
  BY <1>2 DEF ReofferCall, FindOpportunity
<1>4. cycle[k] # NoDoc /\ PairsOf(x.stored) \subseteq said[b]
  BY <1>1 DEF IInv, CallSound
<1>5. built \in Competencies /\ PairsOf(built) \subseteq said[b]
  BY <1>3, <1>4, ChosenParts
<1>6. /\ call' = [call EXCEPT ![c] = y]
      /\ UNCHANGED <<catalogue, cycle, opportunity, saves, history>>
  BY <1>1, BuildParts DEF IInv, FindOpportunity
<1> HIDE DEF x, k, b, built
<1>7. y \in ReofferCall /\ y.at = "reoffer" /\ y.cycle = k /\ y.built = built
  BY <1>2, <1>5 DEF ReofferCall, k
<1>8. y \in CallStates
  BY <1>7 DEF CallStates
<1> HIDE DEF y
<1>9. call'[c] = y
  BY <1>6, <1>8, CallGoes DEF IInv
<1>10. CallSound(c)'
  BY <1>4, <1>5, <1>6, <1>7, <1>9 DEF CallSound, history, b
<1>11. DatesSound(c)'
  BY <1>7, <1>9 DEF DatesSound
<1> QED
  BY <1>6, <1>8, <1>10, <1>11, CallAlone

LEMMA DropStep ==
    ASSUME IInv, NEW c \in Calls, Drop(c)
    PROVE  IInv'
<1>1. NoCall \in CallStates
  BY DEF CallStates
<1>2. call' = [call EXCEPT ![c] = NoCall]
  BY DEF Drop, Leave
<1>3. call'[c] = NoCall
  BY <1>1, <1>2, CallGoes DEF IInv
<1> QED
  BY <1>1, <1>2, <1>3, IdleIsSound, CallAlone DEF Drop

----------------------------------------------------------------------------
(* The writes.                                                             *)

\* What save leaves, when the document keeps to what its call relied on.
LEMMA SaveStep ==
    ASSUME IInv, NEW c \in Calls, call[c] # NoCall, NEW doc \in CycleDoc, Save(c, doc),
           mixed' \in SUBSET Cycles, mixed \subseteq mixed',
           LET k == call[c].cycle IN
           /\ doc.version >= cycle[k].version
           /\ doc.version = cycle[k].version /\ IsDiagnosticLocked(doc) =>
                 IsDiagnosticLocked(cycle[k])
           /\ DOMAIN doc.answers # {} => doc.answers \in asked[BranchOf[k]]
           /\ PairsOf(doc.competencies) \subseteq said[BranchOf[k]]
           /\ k \in mixed' \/ HasValidRange(doc.start, doc.end)
           /\ \/ doc.start = cycle[k].start /\ doc.end = cycle[k].end
              \/ k \in mixed'
              \/ \A d \in Calls \ {c} : call[d].at = "dates" /\ call[d].cycle = k =>
                    SameRange(call[d], doc, cycle[k])
    PROVE  IInv'
<1> DEFINE k == call[c].cycle
<1>1. k \in Cycles /\ cycle[k] # NoDoc /\ cycle[k] \in CycleDoc
  <2>1. k \in Cycles
    BY CallParts DEF IInv, TypeOK
  <2>2. cycle[k] # NoDoc
    BY DEF IInv, CallSound
  <2> QED
    BY <2>1, <2>2 DEF IInv, TypeOK
<1>2. /\ cycle' = [cycle EXCEPT ![k] = doc]
      /\ call' = [call EXCEPT ![c] = NoCall]
      /\ saves' = saves + 1
      /\ UNCHANGED <<catalogue, opportunity, asked, said>>
  BY DEF Save, Leave
<1>3. /\ doc.version >= cycle[k].version
      /\ doc.version = cycle[k].version /\ IsDiagnosticLocked(doc) =>
            IsDiagnosticLocked(cycle[k])
      /\ DOMAIN doc.answers # {} => doc.answers \in asked[BranchOf[k]]
      /\ PairsOf(doc.competencies) \subseteq said[BranchOf[k]]
      /\ k \in mixed' \/ HasValidRange(doc.start, doc.end)
      /\ \/ doc.start = cycle[k].start /\ doc.end = cycle[k].end
         \/ k \in mixed'
         \/ \A d \in Calls \ {c} : call[d].at = "dates" /\ call[d].cycle = k =>
               SameRange(call[d], doc, cycle[k])
  OBVIOUS
<1> HIDE DEF k
<1>4. /\ cycle' \in [Cycles -> CycleDoc \cup {NoDoc}]
      /\ cycle'[k] = doc /\ doc # NoDoc
      /\ \A l \in Cycles \ {k} : cycle'[l] = cycle[l]
  BY <1>1, <1>2, CycleParts DEF IInv, TypeOK
<1>5. /\ call' \in [Calls -> CallStates] /\ call'[c] = NoCall
      /\ \A d \in Calls \ {c} : call'[d] = call[d]
  BY <1>2, CallGoes DEF IInv, CallStates
<1>6. TypeOK'
  BY <1>2, <1>4, <1>5 DEF IInv, TypeOK, CatalogueTypeOK, catalogue
<1>7. ASSUME NEW l \in Cycles, cycle[l] # NoDoc PROVE CycleKept(l)
  <2>1. CASE l = k
    BY <2>1, <1>3, <1>4 DEF CycleKept, IsDiagnosticLocked
  <2>2. CASE l # k
    <3>1. cycle[l] \in CycleDoc
      BY <1>7 DEF IInv, TypeOK
    <3>2. cycle[l].version \in Nat
      BY <3>1, CycleParts
    <3> QED
      BY <3>2, <2>2, <1>4, <1>7 DEF CycleKept, IsDiagnosticLocked
  <2> QED
    BY <2>1, <2>2
<1>8. ASSUME NEW d \in Calls PROVE CallSound(d)' /\ DatesSound(d)'
  <2>1. CASE d = c
    BY <2>1, <1>5, IdleIsSound
  <2>2. CASE d # c
    <3>1. call'[d] = call[d]
      BY <2>2, <1>5
    <3>2. CallSound(d)'
      BY <3>1, <1>2, <1>6, <1>7, OtherCallSound
    <3>3. ASSUME call[d].at = "dates"
          PROVE  LET l == call[d].cycle IN
                 \/ cycle'[l].start = cycle[l].start /\ cycle'[l].end = cycle[l].end
                 \/ l \in mixed'
                 \/ SameRange(call[d], cycle'[l], cycle[l])
      <4>1. call[d].cycle \in Cycles
        BY <3>3, NotIdle, CallParts DEF IInv, TypeOK
      <4> QED
        BY <4>1, <3>3, <2>2, <1>3, <1>4
    <3>4. DatesSound(d)'
      BY <3>1, <3>3, OtherDatesSound
    <3> QED
      BY <3>2, <3>4
  <2> QED
    BY <2>1, <2>2
<1>9. AnswersOneCatalogue'
  BY <1>2, <1>3, <1>4 DEF IInv, AnswersOneCatalogue
<1>10. CompetenciesHaveASource'
  BY <1>2, <1>3, <1>4 DEF IInv, CompetenciesHaveASource
<1>11. RangeStaysValid'
  BY <1>3, <1>4 DEF IInv, RangeStaysValid
<1>12. AreaSuitsBranch' /\ HistoriesCurrent' /\ \A e \in Editors : MoveFits(e)'
  BY <1>2 DEF IInv, AreaSuitsBranch, HistoriesCurrent, AskedNow, SaidNow, ActiveQuestions,
              ActiveItems, catalogue, MoveFits, Moved
<1> QED
  BY <1>6, <1>8, <1>9, <1>10, <1>11, <1>12 DEF IInv

\* What a call finds of its cycle when it saves.
LEMMA SavedParts ==
    ASSUME IInv, NEW c \in Calls, call[c] # NoCall
    PROVE  LET k == call[c].cycle IN
           /\ k \in Cycles /\ cycle[k] \in CycleDoc /\ cycle[k].version \in Nat
           /\ DOMAIN cycle[k].answers # {} => cycle[k].answers \in asked[BranchOf[k]]
           /\ PairsOf(cycle[k].competencies) \subseteq said[BranchOf[k]]
           /\ k \in mixed \/ HasValidRange(cycle[k].start, cycle[k].end)
<1> DEFINE k == call[c].cycle
<1>1. k \in Cycles
  BY CallParts DEF IInv, TypeOK
<1>2. cycle[k] # NoDoc
  BY DEF IInv, CallSound
<1>3. cycle[k] \in CycleDoc
  BY <1>1, <1>2 DEF IInv, TypeOK
<1>4. cycle[k].version \in Nat
  BY <1>3, CycleParts
<1> HIDE DEF k
<1>5. /\ DOMAIN cycle[k].answers # {} => cycle[k].answers \in asked[BranchOf[k]]
      /\ PairsOf(cycle[k].competencies) \subseteq said[BranchOf[k]]
      /\ k \in mixed \/ HasValidRange(cycle[k].start, cycle[k].end)
  BY <1>1, <1>2 DEF IInv, AnswersOneCatalogue, CompetenciesHaveASource, RangeStaysValid
<1> QED
  BY <1>1, <1>3, <1>4, <1>5 DEF k

LEMMA SaveDatesStep ==
    ASSUME IInv, NEW c \in Calls, SaveDates(c)
    PROVE  IInv'
<1> DEFINE x == call[c]
           k == x.cycle
           doc == WithDates(c)
<1>1. x # NoCall /\ x.at = "dates" /\ x \in DatesCall
  BY NotIdle, CallParts DEF IInv, TypeOK, SaveDates
<1>2. /\ k \in Cycles /\ cycle[k] \in CycleDoc /\ cycle[k].version \in Nat
      /\ DOMAIN cycle[k].answers # {} => cycle[k].answers \in asked[BranchOf[k]]
      /\ PairsOf(cycle[k].competencies) \subseteq said[BranchOf[k]]
  BY <1>1, SavedParts
<1>3. /\ Or(x.start, cycle[k].start) \in Dates /\ Or(x.end, cycle[k].end) \in Dates
  BY <1>1, <1>2, CycleParts DEF DatesCall, Or
<1>4. /\ doc \in CycleDoc
      /\ doc.start = Or(x.start, cycle[k].start) /\ doc.end = Or(x.end, cycle[k].end)
      /\ doc.answers = cycle[k].answers /\ doc.summary = cycle[k].summary
      /\ doc.competencies = cycle[k].competencies /\ doc.version = cycle[k].version
  BY <1>2, <1>3 DEF WithDates, CycleDoc
<1>5. /\ mixed' = IF \E d \in Calls \ {c} : /\ call[d].at = "dates" /\ call[d].cycle = k
                                           /\ SetsUnder(x, call[d])
                  THEN mixed \cup {k} ELSE mixed
      /\ Save(c, doc)
  BY DEF SaveDates
<1>6. mixed' \in SUBSET Cycles /\ mixed \subseteq mixed'
  BY <1>2, <1>5 DEF IInv, TypeOK
<1>7. k \in mixed \/ HasValidRange(doc.start, doc.end)
  BY <1>1, <1>4 DEF IInv, DatesSound
<1> HIDE DEF doc
<1>8. \/ k \in mixed'
      \/ \A d \in Calls \ {c} : call[d].at = "dates" /\ call[d].cycle = k =>
            SameRange(call[d], doc, cycle[k])
  <2> SUFFICES ASSUME k \notin mixed', NEW d \in Calls \ {c},
                      call[d].at = "dates", call[d].cycle = k
               PROVE  SameRange(call[d], doc, cycle[k])
    OBVIOUS
  <2>1. ~ SetsUnder(x, call[d])
    BY <1>5
  <2> QED
    BY <2>1, <1>4 DEF SetsUnder, SameRange, Or
<1> QED
  BY <1>1, <1>2, <1>4, <1>5, <1>6, <1>7, <1>8, SaveStep DEF IsDiagnosticLocked

LEMMA SaveRemovalStep ==
    ASSUME IInv, NEW c \in Calls, SaveRemoval(c)
    PROVE  IInv'
<1> DEFINE k == call[c].cycle
           doc == [cycle[k] EXCEPT !.active = FALSE]
<1>1. call[c] # NoCall
  BY NotIdle DEF SaveRemoval
<1>2. /\ k \in Cycles /\ cycle[k] \in CycleDoc /\ cycle[k].version \in Nat
      /\ DOMAIN cycle[k].answers # {} => cycle[k].answers \in asked[BranchOf[k]]
      /\ PairsOf(cycle[k].competencies) \subseteq said[BranchOf[k]]
      /\ k \in mixed \/ HasValidRange(cycle[k].start, cycle[k].end)
  BY <1>1, SavedParts
<1>3. /\ doc \in CycleDoc
      /\ doc.start = cycle[k].start /\ doc.end = cycle[k].end
      /\ doc.answers = cycle[k].answers /\ doc.summary = cycle[k].summary
      /\ doc.competencies = cycle[k].competencies /\ doc.version = cycle[k].version
  BY <1>2 DEF CycleDoc
<1>4. Save(c, doc) /\ mixed' = mixed /\ mixed \in SUBSET Cycles
  BY DEF SaveRemoval, IInv, TypeOK
<1> HIDE DEF doc
<1> QED
  BY <1>1, <1>2, <1>3, <1>4, SaveStep DEF IsDiagnosticLocked

\* The document a diagnostic is registered in.
WithDiagnostic(d, a, s, v) == [d EXCEPT !.answers = a, !.summary = s, !.version = v]

LEMMA DiagnosedParts ==
    ASSUME NEW d \in CycleDoc, NEW a \in Answers, NEW s \in Summaries, NEW v \in Nat
    PROVE  /\ WithDiagnostic(d, a, s, v) \in CycleDoc
           /\ WithDiagnostic(d, a, s, v).start = d.start
           /\ WithDiagnostic(d, a, s, v).end = d.end
           /\ WithDiagnostic(d, a, s, v).answers = a
           /\ WithDiagnostic(d, a, s, v).competencies = d.competencies
           /\ WithDiagnostic(d, a, s, v).version = v
BY DEF CycleDoc, WithDiagnostic

LEMMA SaveDiagnosticStep ==
    ASSUME IInv, NEW c \in Calls, SaveDiagnostic(c)
    PROVE  IInv'
<1> DEFINE x == call[c]
           k == x.cycle
           doc == [cycle[k] EXCEPT !.answers = x.built, !.summary = x.summary,
                               !.version = cycle[k].version + 1]
<1>1. x # NoCall /\ x.at = "answers" /\ x \in AnswerCall
  BY NotIdle, CallParts DEF IInv, TypeOK, SaveDiagnostic
<1>2. /\ k \in Cycles /\ cycle[k] \in CycleDoc /\ cycle[k].version \in Nat
      /\ PairsOf(cycle[k].competencies) \subseteq said[BranchOf[k]]
      /\ k \in mixed \/ HasValidRange(cycle[k].start, cycle[k].end)
  BY <1>1, SavedParts
<1>3. x.built \in Answers /\ x.summary \in Summaries /\ x.built \in asked[BranchOf[k]]
  BY <1>1 DEF AnswerCall, IInv, CallSound
<1>4. /\ doc \in CycleDoc
      /\ doc.start = cycle[k].start /\ doc.end = cycle[k].end
      /\ doc.answers = x.built
      /\ doc.competencies = cycle[k].competencies /\ doc.version = cycle[k].version + 1
  <2>1. doc = WithDiagnostic(cycle[k], x.built, x.summary, cycle[k].version + 1)
    BY DEF WithDiagnostic
  <2>2. cycle[k].version + 1 \in Nat
    BY <1>2
  <2> HIDE DEF x, k, doc
  <2> QED
    BY <1>2, <1>3, <2>1, <2>2, DiagnosedParts
<1>5. Save(c, doc) /\ mixed' = mixed /\ mixed \in SUBSET Cycles
  BY DEF SaveDiagnostic, IInv, TypeOK
<1> HIDE DEF doc
<1>6. doc.version >= cycle[k].version /\ doc.version # cycle[k].version
  BY <1>2, <1>4
<1> QED
  BY <1>1, <1>2, <1>3, <1>4, <1>5, <1>6, SaveStep

LEMMA SaveFocusStep ==
    ASSUME IInv, NEW c \in Calls, SaveFocus(c)
    PROVE  IInv'
<1> DEFINE x == call[c]
           k == x.cycle
           doc == [cycle[k] EXCEPT !.competencies = x.built]
<1>1. x # NoCall /\ x.at = "focus" /\ x \in FocusCall
  BY NotIdle, CallParts DEF IInv, TypeOK, SaveFocus
<1>2. /\ k \in Cycles /\ cycle[k] \in CycleDoc /\ cycle[k].version \in Nat
      /\ DOMAIN cycle[k].answers # {} => cycle[k].answers \in asked[BranchOf[k]]
      /\ k \in mixed \/ HasValidRange(cycle[k].start, cycle[k].end)
  BY <1>1, SavedParts
<1>3. x.built \in Competencies /\ PairsOf(x.built) \subseteq said[BranchOf[k]]
  <2>1. CallSound(c)
    BY DEF IInv
  <2> QED
    BY <1>1, <2>1 DEF FocusCall, CallSound
<1>4. /\ doc \in CycleDoc
      /\ doc.start = cycle[k].start /\ doc.end = cycle[k].end
      /\ doc.answers = cycle[k].answers /\ doc.summary = cycle[k].summary
      /\ doc.competencies = x.built /\ doc.version = cycle[k].version
  BY <1>2, <1>3 DEF CycleDoc
<1>5. Save(c, doc) /\ mixed' = mixed /\ mixed \in SUBSET Cycles
  BY DEF SaveFocus, IInv, TypeOK
<1> HIDE DEF doc
<1> QED
  BY <1>1, <1>2, <1>3, <1>4, <1>5, SaveStep DEF IsDiagnosticLocked

LEMMA SetOpportunityStep ==
    ASSUME IInv, NEW c \in Calls, call[c].at \in {"offer", "reoffer"},
           NEW o \in Opportunities, SetOpportunity(c, o)
    PROVE  IInv'
<1> DEFINE x == call[c]
           k == x.cycle
<1>1. x # NoCall /\ k \in Cycles /\ x.built \in Competencies
  <2>1. x # NoCall /\ x \in CallStates
    BY NotIdle DEF IInv, TypeOK
  <2> QED
    BY <2>1, CallParts DEF OfferCall, ReofferCall
<1>2. PairsOf(x.built) \subseteq said[BranchOf[k]]
  BY <1>1 DEF IInv, CallSound
<1>3. PICK i \in DOMAIN x.built :
        opportunity' = [opportunity EXCEPT ![o] = [cycle |-> k, item |-> i, text |-> x.built[i]]]
  BY DEF SetOpportunity
<1>4. i \in Items /\ x.built[i] \in Texts /\ <<i, x.built[i]>> \in said[BranchOf[k]]
  BY <1>1, <1>2, CompetencyParts
<1>5. /\ call' = [call EXCEPT ![c] = NoCall]
      /\ saves' = saves + 1
      /\ UNCHANGED <<catalogue, cycle, history>>
  BY DEF SetOpportunity, Leave
<1> DEFINE made == [cycle |-> k, item |-> i, text |-> x.built[i]]
<1>6. made \in Opportunity /\ made.cycle = k /\ made.item = i /\ made.text = x.built[i]
  BY <1>1, <1>4 DEF Opportunity
<1> HIDE DEF made, x, k
<1>7. /\ opportunity' = [opportunity EXCEPT ![o] = made]
      /\ opportunity \in [Opportunities -> Opportunity \cup {NoDoc}]
  BY <1>3 DEF made, IInv, TypeOK
<1>8. opportunity' \in [Opportunities -> Opportunity \cup {NoDoc}]
  BY <1>6, <1>7
<1>9. CompetenciesHaveASource'
  <2>1. \A l \in Cycles : cycle'[l] # NoDoc =>
          PairsOf(cycle'[l].competencies) \subseteq said'[BranchOf[l]]
    BY <1>5 DEF IInv, CompetenciesHaveASource, history
  <2>2. ASSUME NEW p \in Opportunities, opportunity'[p] # NoDoc
        PROVE  <<opportunity'[p].item, opportunity'[p].text>> \in said'[BranchOf[opportunity'[p].cycle]]
    <3>1. CASE p = o
      <4>1. opportunity'[p] = made
        BY <3>1, <1>7
      <4> QED
        BY <4>1, <1>4, <1>5, <1>6 DEF history
    <3>2. CASE p # o
      <4>1. opportunity'[p] = opportunity[p]
        BY <3>2, <1>7
      <4> QED
        BY <4>1, <2>2, <1>5 DEF history, IInv, CompetenciesHaveASource
    <3> QED
      BY <3>1, <3>2
  <2> QED
    BY <2>1, <2>2 DEF CompetenciesHaveASource
<1>10. NoCall \in CallStates /\ saves' \in Nat
  BY <1>5 DEF CallStates, IInv, TypeOK
<1>11. CallSound(c)' /\ DatesSound(c)'
  BY <1>5, <1>10, CallGoes, IdleIsSound DEF IInv
<1> QED
  BY <1>5, <1>8, <1>9, <1>10, <1>11, CallOnly

LEMMA OpportunityStep ==
    ASSUME IInv, NEW c \in Calls,
           (\E o \in Opportunities : CreateOpportunity(c, o)) \/ SaveOpportunity(c)
    PROVE  IInv'
<1>1. ASSUME NEW o \in Opportunities, CreateOpportunity(c, o) PROVE IInv'
  BY <1>1, SetOpportunityStep DEF CreateOpportunity
<1>2. ASSUME SaveOpportunity(c) PROVE IInv'
  <2>1. call[c].at = "reoffer" /\ SetOpportunity(c, call[c].opportunity)
    BY <1>2 DEF SaveOpportunity
  <2>2. call[c].opportunity \in Opportunities
    <3>1. call[c] \in CallStates /\ call[c] # NoCall
      BY <2>1, NotIdle DEF IInv, TypeOK
    <3> QED
      BY <2>1, <3>1, CallParts DEF ReofferCall
  <2> QED
    BY <2>1, <2>2, SetOpportunityStep
<1> QED
  BY <1>1, <1>2

LEMMA ContinueStep ==
    ASSUME IInv, NEW c \in Calls, Continue(c)
    PROVE  IInv'
BY ReadQuestionsStep, ReadItemsStep, FindOpportunityStep, DropStep, SaveDatesStep,
   SaveRemovalStep, SaveDiagnosticStep, SaveFocusStep, OpportunityStep
DEF Continue

----------------------------------------------------------------------------
(* The steps that belong to no call.                                       *)

LEMMA CreateCycleStep ==
    ASSUME IInv, NEW k \in Cycles, NEW start \in Dates, NEW end \in Dates,
           CreateCycle(k, start, end)
    PROVE  IInv'
<1> DEFINE doc == [start |-> start, end |-> end, answers |-> Empty, summary |-> NoSummary,
                   competencies |-> Empty, active |-> TRUE, version |-> 0]
<1>1. /\ cycle[k] = NoDoc /\ HasValidRange(start, end)
      /\ cycle' = [cycle EXCEPT ![k] = doc]
      /\ UNCHANGED <<catalogue, opportunity, call, saves, history>>
  BY DEF CreateCycle
<1>2. /\ doc \in CycleDoc /\ doc.start = start /\ doc.end = end
      /\ doc.answers = Empty /\ doc.competencies = Empty
  BY EmptyIsBoth DEF CycleDoc
<1>3. DOMAIN Empty = {}
  BY DEF Empty
<1> HIDE DEF doc
<1>4. /\ cycle' \in [Cycles -> CycleDoc \cup {NoDoc}]
      /\ cycle'[k] = doc
      /\ \A l \in Cycles \ {k} : cycle'[l] = cycle[l]
  BY <1>1, <1>2 DEF IInv, TypeOK
<1>5. TypeOK'
  BY <1>1, <1>4 DEF IInv, TypeOK, CatalogueTypeOK, catalogue, history
<1>6. ASSUME NEW l \in Cycles, cycle[l] # NoDoc PROVE CycleKept(l)
  <2>1. cycle'[l] = cycle[l] /\ cycle[l] \in CycleDoc
    BY <1>1, <1>4, <1>6 DEF IInv, TypeOK
  <2>2. cycle[l].version \in Nat
    BY <2>1, CycleParts
  <2> QED
    BY <1>6, <2>1, <2>2 DEF CycleKept, IsDiagnosticLocked
<1>7. ASSUME NEW d \in Calls PROVE CallSound(d)' /\ DatesSound(d)'
  <2>1. call'[d] = call[d] /\ mixed' = mixed /\ asked' = asked /\ said' = said
    BY <1>1 DEF history
  <2>2. CallSound(d)'
    BY <1>5, <1>6, <2>1, OtherCallSound
  <2>3. ASSUME call[d].at = "dates"
        PROVE  cycle'[call[d].cycle] = cycle[call[d].cycle]
    <3>1. call[d] # NoCall
      BY <2>3, NotIdle
    <3>2. call[d].cycle \in Cycles /\ cycle[call[d].cycle] # NoDoc
      BY <3>1, CallParts DEF IInv, TypeOK, CallSound
    <3> QED
      BY <3>2, <1>1, <1>4
  <2>4. DatesSound(d)'
    BY <2>1, <2>3, OtherDatesSound
  <2> QED
    BY <2>2, <2>4
<1>8. AnswersOneCatalogue'
  BY <1>1, <1>2, <1>3, <1>4 DEF IInv, AnswersOneCatalogue, history
<1>9. CompetenciesHaveASource'
  BY <1>1, <1>2, <1>4, EmptyIsBoth DEF IInv, CompetenciesHaveASource, history
<1>10. RangeStaysValid'
  BY <1>1, <1>2, <1>4 DEF IInv, RangeStaysValid, history
<1>11. AreaSuitsBranch' /\ HistoriesCurrent' /\ \A e \in Editors : MoveFits(e)'
  BY <1>1 DEF IInv, AreaSuitsBranch, HistoriesCurrent, AskedNow, SaidNow, ActiveQuestions,
              ActiveItems, catalogue, history, MoveFits, Moved
<1> QED
  BY <1>5, <1>7, <1>8, <1>9, <1>10, <1>11 DEF IInv

\* What a reader finds of sound catalogues has the type of the histories.
LEMMA NowTypes ==
    CatalogueTypeOK => \A b \in Branches : AskedNow(b) \in Answers /\ SaidNow(b) \subseteq Items \X Texts
<1> SUFFICES ASSUME CatalogueTypeOK, NEW b \in Branches
             PROVE  AskedNow(b) \in Answers /\ SaidNow(b) \subseteq Items \X Texts
  OBVIOUS
<1>1. AskedNow(b) \in [ActiveQuestions(b) -> Texts] /\ ActiveQuestions(b) \in SUBSET Questions
  BY DEF AskedNow, ActiveQuestions, CatalogueTypeOK, QuestionDoc
<1>2. AskedNow(b) \in Answers
  BY <1>1, Zenon DEF Answers
<1>3. SaidNow(b) \subseteq Items \X Texts
  BY DEF SaidNow, ActiveItems, CatalogueTypeOK, ItemDoc
<1> QED
  BY <1>2, <1>3

LEMMA EditStep ==
    ASSUME IInv, EditCatalogue
    PROVE  IInv'
<1>1. /\ CatalogueNext
      /\ asked' = [b \in Branches |-> asked[b] \cup {AskedNow(b)'}]
      /\ said' = [b \in Branches |-> said[b] \cup SaidNow(b)']
      /\ UNCHANGED <<cycle, opportunity, call, saves, mixed>>
  BY DEF EditCatalogue
<1>2. CatalogueInv'
  BY <1>1, CatalogueStep DEF IInv, TypeOK, CatalogueInv
<1>3. \A b \in Branches : AskedNow(b)' \in Answers /\ SaidNow(b)' \subseteq Items \X Texts
  <2>1. CatalogueTypeOK'
    BY <1>2 DEF CatalogueInv
  <2>2. (\A b \in Branches : AskedNow(b) \in Answers /\ SaidNow(b) \subseteq Items \X Texts)'
    BY <2>1, NowTypes, PTL
  <2> QED
    BY <2>2
<1>4. /\ \A b \in Branches : asked[b] \subseteq asked'[b] /\ said[b] \subseteq said'[b]
      /\ \A b \in Branches : AskedNow(b)' \in asked'[b] /\ SaidNow(b)' \subseteq said'[b]
  BY <1>1
<1>5. TypeOK'
  <2>1. asked' \in [Branches -> SUBSET Answers] /\ said' \in [Branches -> SUBSET (Items \X Texts)]
    BY <1>1, <1>3 DEF IInv, TypeOK, Answers
  <2> QED
    BY <1>1, <1>2, <2>1 DEF IInv, TypeOK, CatalogueInv, Answers
<1>6. \A k \in Cycles : cycle[k] # NoDoc => CycleKept(k)
  <2> SUFFICES ASSUME NEW k \in Cycles, cycle[k] # NoDoc PROVE CycleKept(k)
    OBVIOUS
  <2>1. cycle[k] \in CycleDoc
    BY DEF IInv, TypeOK
  <2>2. cycle[k].version \in Nat
    BY <2>1, CycleParts
  <2> QED
    BY <1>1, <2>2 DEF CycleKept
<1>7. \A d \in Calls : CallSound(d)' /\ DatesSound(d)'
  BY <1>1, <1>4, <1>5, <1>6, OtherCallSound, OtherDatesSound
<1>8. AnswersOneCatalogue'
  <2>1. \A k \in Cycles : BranchOf[k] \in Branches
    BY CyclesAssumption
  <2> QED
    BY <1>1, <1>4, <2>1 DEF IInv, AnswersOneCatalogue
<1>9. CompetenciesHaveASource'
  <2>1. \A k \in Cycles : BranchOf[k] \in Branches
    BY CyclesAssumption
  <2>2. \A o \in Opportunities : opportunity[o] # NoDoc => opportunity[o].cycle \in Cycles
    BY DEF IInv, TypeOK, Opportunity
  <2> QED
    BY <1>1, <1>4, <2>1, <2>2 DEF IInv, CompetenciesHaveASource
<1>10. RangeStaysValid'
  BY <1>1 DEF IInv, RangeStaysValid
<1> QED
  BY <1>2, <1>4, <1>5, <1>7, <1>8, <1>9, <1>10 DEF IInv, CatalogueInv, HistoriesCurrent

----------------------------------------------------------------------------
(* The invariant, and what is read off from it.                            *)

LEMMA InitIInv == Init => IInv
<1> SUFFICES ASSUME Init PROVE IInv
  OBVIOUS
<1>1. CatalogueInv
  BY CatalogueStart DEF Init
<1>2. HistoriesCurrent
  BY DEF Init, HistoriesCurrent
<1>3. TypeOK
  <2>1. \A b \in Branches : AskedNow(b) \in Answers /\ SaidNow(b) \subseteq Items \X Texts
    BY <1>1, NowTypes DEF CatalogueInv
  <2>2. asked \in [Branches -> SUBSET Answers] /\ said \in [Branches -> SUBSET (Items \X Texts)]
    BY <2>1 DEF Init
  <2> QED
    BY <1>1, <2>2 DEF Init, TypeOK, CatalogueInv, CallStates, Answers
<1>4. \A c \in Calls : CallSound(c) /\ DatesSound(c)
  BY DEF Init, CallSound, DatesSound, NoCall
<1> QED
  BY <1>1, <1>2, <1>3, <1>4
  DEF IInv, CatalogueInv, Init, AnswersOneCatalogue, CompetenciesHaveASource, RangeStaysValid

LEMMA StutterKeeps ==
    ASSUME IInv, UNCHANGED vars
    PROVE  IInv'
<1>1. UNCHANGED <<question, item, move, crossed, edits, cycle, opportunity, call, saves,
                  asked, said, mixed>>
  BY DEF vars, catalogue, history
<1>2. TypeOK'
  BY <1>1 DEF IInv, TypeOK, CatalogueTypeOK
<1>3. AreaSuitsBranch' /\ HistoriesCurrent' /\ \A e \in Editors : MoveFits(e)'
  BY <1>1 DEF IInv, AreaSuitsBranch, HistoriesCurrent, AskedNow, SaidNow, ActiveQuestions,
              ActiveItems, MoveFits, Moved
<1>4. \A c \in Calls : CallSound(c)' /\ DatesSound(c)'
  BY <1>1 DEF IInv, CallSound, DatesSound, IsDiagnosticLocked
<1>5. AnswersOneCatalogue' /\ CompetenciesHaveASource' /\ RangeStaysValid'
  BY <1>1 DEF IInv, AnswersOneCatalogue, CompetenciesHaveASource, RangeStaysValid
<1> QED
  BY <1>2, <1>3, <1>4, <1>5 DEF IInv

LEMMA NextKeeps == IInv /\ [Next]_vars => IInv'
BY StutterKeeps, EditStep, CreateCycleStep, BeginStep, ContinueStep DEF Next

\* The invariant all the theorems below are read off from.
THEOREM CyclesInvariant == Spec => []IInv
BY InitIInv, NextKeeps, PTL DEF Spec

\* The catalogues, the cycles, the opportunities and the calls keep their types.
THEOREM CyclesTypeCorrect == Spec => []TypeOK
<1>1. IInv => TypeOK
  BY DEF IInv
<1> QED
  BY <1>1, CyclesInvariant, PTL

\* An item has an area of its branch, also when changes of the same field of it,
\* or of both fields, overlap.  The exception is in the statement: an item whose
\* branch was changed between the check and the write of an area alone, or the
\* other way round, may end with a pair nobody checked.
THEOREM AreasSuit == Spec => []AreaSuitsBranch
<1>1. IInv => AreaSuitsBranch
  BY DEF IInv
<1> QED
  BY <1>1, CyclesInvariant, PTL

\* A registered diagnostic answers the questions its branch had at one moment.
THEOREM DiagnosticsAreWhole == Spec => []AnswersOneCatalogue
<1>1. IInv => AnswersOneCatalogue
  BY DEF IInv
<1> QED
  BY <1>1, CyclesInvariant, PTL

\* What a focus or an opportunity says, the catalogue of its branch once said.
THEOREM SourcesKnown == Spec => []CompetenciesHaveASource
<1>1. IInv => CompetenciesHaveASource
  BY DEF IInv
<1> QED
  BY <1>1, CyclesInvariant, PTL

\* A cycle ends after it starts, also when patches of the same date of it, or of
\* both dates, overlap.  The exception is in the statement: a cycle whose start was
\* set between the check and the save of an end alone, or the other way round, may
\* end before it starts.
THEOREM RangesValid == Spec => []RangeStaysValid
<1>1. IInv => RangeStaysValid
  BY DEF IInv
<1> QED
  BY <1>1, CyclesInvariant, PTL

----------------------------------------------------------------------------
(* The action properties.                                                  *)

\* What a step may do to a cycle there is.
Continues(k) ==
    /\ IsDiagnosticLocked(cycle[k]) =>
          cycle'[k].answers = cycle[k].answers /\ cycle'[k].summary = cycle[k].summary
    /\ ~ cycle[k].active => ~ cycle'[k].active

LEMMA SavedContinues ==
    ASSUME IInv, NEW c \in Calls, call[c] # NoCall, NEW doc, Save(c, doc),
           NEW k \in Cycles, cycle[k] # NoDoc,
           k = call[c].cycle =>
              /\ IsDiagnosticLocked(cycle[k]) =>
                    doc.answers = cycle[k].answers /\ doc.summary = cycle[k].summary
              /\ ~ cycle[k].active => ~ doc.active
    PROVE  Continues(k)
<1>1. cycle' = [cycle EXCEPT ![call[c].cycle] = doc] /\ DOMAIN cycle = Cycles
  BY DEF Save, IInv, TypeOK
<1> QED
  BY <1>1 DEF Continues

LEMMA ContinueContinues ==
    ASSUME IInv, NEW c \in Calls, Continue(c), NEW k \in Cycles, cycle[k] # NoDoc
    PROVE  Continues(k)
<1>1. cycle[k] \in CycleDoc
  BY DEF IInv, TypeOK
<1>2. ASSUME UNCHANGED cycle PROVE Continues(k)
  BY <1>2 DEF Continues
<1>3. CASE ReadQuestions(c) \/ ReadItems(c) \/ FindOpportunity(c)
  BY <1>2, <1>3 DEF ReadQuestions, ReadItems, FindOpportunity, Build
<1>4. CASE Drop(c)
  BY <1>2, <1>4 DEF Drop
<1>5. CASE SaveDates(c)
  <2> DEFINE doc == WithDates(c)
  <2>1. call[c] # NoCall /\ Save(c, doc)
    BY <1>5, NotIdle DEF SaveDates
  <2>2. k = call[c].cycle =>
          doc.answers = cycle[k].answers /\ doc.summary = cycle[k].summary
          /\ doc.active = cycle[k].active
    BY <1>1 DEF WithDates, CycleDoc
  <2> HIDE DEF doc
  <2> QED
    BY <2>1, <2>2, SavedContinues
<1>6. CASE SaveRemoval(c)
  <2> DEFINE doc == [cycle[call[c].cycle] EXCEPT !.active = FALSE]
  <2>1. call[c] # NoCall /\ Save(c, doc)
    BY <1>6, NotIdle DEF SaveRemoval
  <2>2. k = call[c].cycle =>
          doc.answers = cycle[k].answers /\ doc.summary = cycle[k].summary /\ ~ doc.active
    BY <1>1 DEF CycleDoc
  <2> HIDE DEF doc
  <2> QED
    BY <2>1, <2>2, SavedContinues
<1>7. CASE SaveFocus(c)
  <2> DEFINE doc == [cycle[call[c].cycle] EXCEPT !.competencies = call[c].built]
  <2>1. call[c] # NoCall /\ Save(c, doc)
    BY <1>7, NotIdle DEF SaveFocus
  <2>2. k = call[c].cycle =>
          doc.answers = cycle[k].answers /\ doc.summary = cycle[k].summary
          /\ doc.active = cycle[k].active
    BY <1>1 DEF CycleDoc
  <2> HIDE DEF doc
  <2> QED
    BY <2>1, <2>2, SavedContinues
<1>8. CASE SaveDiagnostic(c)
  <2> DEFINE l == call[c].cycle
             doc == [cycle[l] EXCEPT !.answers = call[c].built, !.summary = call[c].summary,
                                    !.version = cycle[l].version + 1]
  <2>1. call[c] # NoCall /\ Save(c, doc) /\ ~ Overtaken(c) /\ call[c].at = "answers"
    BY <1>8, NotIdle DEF SaveDiagnostic
  <2>2. k = l => ~ IsDiagnosticLocked(cycle[k])
    BY <2>1 DEF IInv, CallSound, Overtaken
  <2>3. k = l => doc.active = cycle[k].active
    BY <1>1 DEF CycleDoc
  <2> HIDE DEF doc
  <2> QED
    BY <2>1, <2>2, <2>3, SavedContinues
<1>9. CASE (\E o \in Opportunities : CreateOpportunity(c, o)) \/ SaveOpportunity(c)
  BY <1>2, <1>9 DEF CreateOpportunity, SaveOpportunity, SetOpportunity
<1> QED
  BY <1>3, <1>4, <1>5, <1>6, <1>7, <1>8, <1>9 DEF Continue

LEMMA NextContinues ==
    ASSUME IInv, [Next]_vars, NEW k \in Cycles, cycle[k] # NoDoc
    PROVE  Continues(k)
<1>1. CASE UNCHANGED vars
  BY <1>1 DEF vars, Continues
<1>2. CASE EditCatalogue
  BY <1>2 DEF EditCatalogue, Continues
<1>3. ASSUME NEW l \in Cycles, NEW start \in Dates, NEW end \in Dates, CreateCycle(l, start, end)
      PROVE  Continues(k)
  <2>1. l # k /\ cycle'[k] = cycle[k]
    BY <1>3 DEF CreateCycle, IInv, TypeOK
  <2> QED
    BY <2>1 DEF Continues
<1>4. ASSUME NEW c \in Calls, NEW l \in Cycles, Begin(c, l) PROVE Continues(k)
  <2>1. UNCHANGED cycle
    BY <1>4 DEF Begin, BeginDates, BeginRemove, BeginDiagnostic, BeginFocus, BeginOffer,
                BeginReoffer, Enter
  <2> QED
    BY <2>1 DEF Continues
<1> QED
  BY <1>1, <1>2, <1>3, <1>4, ContinueContinues DEF Next

\* Whatever calls overlap, a registered diagnostic stays as it was registered.
THEOREM DiagnosticsStayLocked == Spec => LockedDiagnosticStays
<1>1. IInv /\ [Next]_vars =>
        [\A k \in Cycles :
            cycle[k] # NoDoc /\ IsDiagnosticLocked(cycle[k]) =>
                /\ cycle'[k].answers = cycle[k].answers
                /\ cycle'[k].summary = cycle[k].summary]_vars
  BY NextContinues DEF Continues
<1> QED
  BY <1>1, CyclesInvariant, PTL DEF Spec, LockedDiagnosticStays

\* A removed cycle does not come back, whoever had loaded it before.
THEOREM RemovalIsForGood == Spec => RemovedStaysRemoved
<1>1. IInv /\ [Next]_vars =>
        [\A k \in Cycles : cycle[k] # NoDoc /\ ~ cycle[k].active => ~ cycle'[k].active]_vars
  BY NextContinues DEF Continues
<1> QED
  BY <1>1, CyclesInvariant, PTL DEF Spec, RemovedStaysRemoved
=============================================================================
