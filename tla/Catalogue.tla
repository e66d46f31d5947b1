----------------------------- MODULE Catalogue -----------------------------
(***************************************************************************)
(* The two catalogues administrators keep: questions of the diagnostic     *)
(* (src/src/questions) and growth items (src/src/growth-items), with the   *)
(* script that seeds the items (src/src/seeds).                            *)
(*                                                                         *)
(* A change of a question, and a change of an item that leaves its branch  *)
(* and its area alone, is one findByIdAndUpdate.  A change of the branch   *)
(* or the area is checked against the item as read before.  Nothing is     *)
(* ever deleted: removing sets isActive to FALSE.                          *)
(***************************************************************************)
EXTENDS Naturals

CONSTANTS
    Questions, Items,  \* ids a document of each collection has or may get
    Branches, Areas,
    AreasOf,           \* the areas of each branch: BRANCH_GROWTH_AREAS
    Texts,             \* what a question or an item may say
    Orders,            \* positions of an item within its branch and area
    QuestionDocs,      \* what requests make of a question
    ItemDocs,          \* and of an item, its branch and area apart
    SeedDocs,          \* the items of growth-items.json
    NoDoc,             \* an id that names no document
    Editors,           \* item updates that may be under way at the same time
    FirstQuestions,    \* the questions a behaviour may start from
    FirstItems,        \* and the items
    MaxEdits           \* bound: changes of the catalogues

QuestionDoc == [branch : Branches, text : Texts, active : BOOLEAN]
ItemDoc     == [branch : Branches, area : Areas, order : Orders,
                text : Texts, active : BOOLEAN]

\* assertAreaBelongsToBranch
AreaBelongsToBranch(branch, area) == area \in AreasOf[branch]

ASSUME AreasAssumption == AreasOf \in [Branches -> SUBSET Areas]
ASSUME NoDocAssumption == NoDoc \notin QuestionDoc \cup ItemDoc
ASSUME CatalogueStartAssumption ==
    /\ FirstQuestions \subseteq [Questions -> QuestionDoc \cup {NoDoc}]
    /\ FirstItems \subseteq [Items -> ItemDoc \cup {NoDoc}]
    /\ \A items \in FirstItems, i \in Items :
          items[i] # NoDoc => AreaBelongsToBranch(items[i].branch, items[i].area)
    /\ QuestionDocs \subseteq QuestionDoc
    /\ ItemDocs \subseteq ItemDoc
    /\ SeedDocs \subseteq ItemDoc
    /\ \A doc \in SeedDocs : AreaBelongsToBranch(doc.branch, doc.area)
ASSUME MaxEditsAssumption == MaxEdits \in Nat

VARIABLES
    question,  \* the collection questions
    item,      \* the collection growth_items
    move,      \* per editor: the change of branch or area it has checked
    crossed,   \* history: items a change of which overtook the check of another
    edits      \* changes of the catalogues so far

catalogue == <<question, item, move, crossed, edits>>

\* A checked change: the fields of the patch, and the pair that was checked.
Fields == {"branch", "area"}
Move   == [item : Items, fields : SUBSET Fields, branch : Branches, area : Areas]
NoMove == [item |-> NoDoc]

----------------------------------------------------------------------------
\* findActiveByBranch and findAll(branch): what the others read.
ActiveQuestions(b) ==
    {q \in Questions : question[q] # NoDoc /\ question[q].active /\ question[q].branch = b}

ActiveItems(b) ==
    {i \in Items : item[i] # NoDoc /\ item[i].active /\ item[i].branch = b}

\* The unique index on branch, area and order: no other document has the key.
KeyIsFree(i, branch, area, order) ==
    \A j \in Items \ {i} : item[j] # NoDoc =>
        <<item[j].branch, item[j].area, item[j].order>> # <<branch, area, order>>

Edited == edits < MaxEdits /\ edits' = edits + 1

SetQuestion(q, doc) ==
    /\ Edited
    /\ question' = [question EXCEPT ![q] = doc]
    /\ UNCHANGED <<item, move, crossed>>

CreateQuestion(q, doc) ==
    /\ question[q] = NoDoc
    /\ SetQuestion(q, [doc EXCEPT !.active = TRUE])

\* update: any of the fields; the ones the patch does not carry stay.
UpdateQuestion(q, doc) ==
    /\ question[q] # NoDoc
    /\ SetQuestion(q, doc)

RemoveQuestion(q) ==
    /\ question[q] # NoDoc
    /\ SetQuestion(q, [question[q] EXCEPT !.active = FALSE])

SetItem(i, doc) ==
    /\ KeyIsFree(i, doc.branch, doc.area, doc.order)
    /\ item' = [item EXCEPT ![i] = doc]
    /\ UNCHANGED question

CreateItem(i, doc) ==
    /\ item[i] = NoDoc
    /\ AreaBelongsToBranch(doc.branch, doc.area)
    /\ Edited
    /\ SetItem(i, [doc EXCEPT !.active = TRUE])
    /\ UNCHANGED <<move, crossed>>

\* update without branch and area, and remove: no read comes first.
UpdateItem(i, doc) ==
    /\ item[i] # NoDoc
    /\ Edited
    /\ SetItem(i, [item[i] EXCEPT !.order = doc.order, !.text = doc.text,
                                  !.active = doc.active])
    /\ UNCHANGED <<move, crossed>>

RemoveItem(i) ==
    /\ item[i] # NoDoc
    /\ Edited
    /\ SetItem(i, [item[i] EXCEPT !.active = FALSE])
    /\ UNCHANGED <<move, crossed>>

----------------------------------------------------------------------------
(* update with branch, area or both: the read and check, then the write.   *)

\* What the patch and the item read give together.  The other fields of such
\* a patch are as in UpdateItem.
Combined(i, fields, branch, area) ==
    /\ "branch" \notin fields => branch = item[i].branch
    /\ "area" \notin fields => area = item[i].area

HoldMove(e, i, fields, branch, area) ==
    /\ move[e] = NoMove
    /\ Edited
    /\ move' = [move EXCEPT ![e] = [item |-> i, fields |-> fields, branch |-> branch,
                                   area |-> area]]
    /\ UNCHANGED <<question, item, crossed>>

\* Faulty variant: a patch of one field is not checked against the other.
CheckMoveAlone(e, i, fields, branch, area) ==
    /\ item[i] # NoDoc
    /\ Combined(i, fields, branch, area)
    /\ fields = Fields => AreaBelongsToBranch(branch, area)
    /\ HoldMove(e, i, fields, branch, area)

CheckMove(e, i, fields, branch, area) ==
    /\ item[i] # NoDoc
    /\ Combined(i, fields, branch, area)
    /\ AreaBelongsToBranch(branch, area)
    /\ HoldMove(e, i, fields, branch, area)

\* findByIdAndUpdate sets what the patch carries on what is stored by now.
Moved(m) ==
    [item[m.item] EXCEPT !.branch = IF "branch" \in m.fields THEN m.branch ELSE @,
                         !.area   = IF "area" \in m.fields THEN m.area ELSE @]

\* The change writes a field the other took as stored when it was checked.
Overtakes(m, other) == other.item = m.item /\ ~ (m.fields \subseteq other.fields)

ApplyMove(e) ==
    LET m == move[e] IN
    /\ m # NoMove
    /\ SetItem(m.item, Moved(m))
    /\ move' = [move EXCEPT ![e] = NoMove]
    /\ crossed' = IF \E d \in Editors \ {e} : Overtakes(m, move[d])
                  THEN crossed \cup {m.item} ELSE crossed
    /\ UNCHANGED edits

\* The key is taken (409), or the write fails: nothing is stored.
DropMove(e) ==
    /\ move[e] # NoMove
    /\ move' = [move EXCEPT ![e] = NoMove]
    /\ UNCHANGED <<question, item, crossed, edits>>

\* One upsert of the seed: an item with its key keeps text and state.
Seed(i, doc) ==
    /\ item[i] = NoDoc
    /\ Edited
    /\ SetItem(i, [doc EXCEPT !.active = TRUE])
    /\ UNCHANGED <<move, crossed>>

----------------------------------------------------------------------------
CatalogueInit ==
    /\ question \in FirstQuestions
    /\ item \in FirstItems
    /\ move = [e \in Editors |-> NoMove]
    /\ crossed = {}
    /\ edits = 0

CatalogueNext ==
    \/ \E q \in Questions :
          \/ \E doc \in QuestionDocs : CreateQuestion(q, doc) \/ UpdateQuestion(q, doc)
          \/ RemoveQuestion(q)
    \/ \E i \in Items :
          \/ \E doc \in ItemDocs : CreateItem(i, doc) \/ UpdateItem(i, doc)
          \/ RemoveItem(i)
          \/ \E doc \in SeedDocs : Seed(i, doc)
    \/ \E e \in Editors :
          \/ \E i \in Items, fields \in SUBSET Fields \ {{}}, branch \in Branches, area \in Areas :
                CheckMove(e, i, fields, branch, area)
          \/ ApplyMove(e)
          \/ DropMove(e)

----------------------------------------------------------------------------
CatalogueTypeOK ==
    /\ question \in [Questions -> QuestionDoc \cup {NoDoc}]
    /\ item \in [Items -> ItemDoc \cup {NoDoc}]
    /\ move \in [Editors -> Move \cup {NoMove}]
    /\ crossed \subseteq Items
    /\ edits \in 0..MaxEdits

\* An item's area is one of its branch's: update combines what the patch says
\* with what is stored.  Changes of the same field, or of both, may overlap; it
\* can fail only where a change wrote the branch, or the area, that another had
\* been checked against and does not write itself.
AreaSuitsBranch ==
    \A i \in Items : item[i] # NoDoc =>
        i \in crossed \/ AreaBelongsToBranch(item[i].branch, item[i].area)
=============================================================================
