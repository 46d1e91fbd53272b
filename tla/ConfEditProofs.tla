--------------------------- MODULE ConfEditProofs ---------------------------
(***************************************************************************)
(* Theorems about ConfEdit, for every number of files, pages, keys, values *)
(* and ids.                                                                *)
(***************************************************************************)
EXTENDS ConfEdit, DataLemmas

\* conf_tab and the pages know only ids that were handed out.
HandedOut ==
    /\ \A i \in Places : table[i] # Hole => table[i].id <= lastId
    /\ \A p \in Pages : page[p] # Closed => \A id \in page[p].ids : id <= lastId

\* A page keeps its file while it waits for the id of an insert.
AddingOpen == \A p \in Pages : adding[p] # NoAdd => page[p] # Closed

IInv == TypeOK /\ HandedOut /\ AddingOpen /\ PagesListOwnFile

----------------------------------------------------------------------------
(* What a step does to conf_tab.                                           *)

Old(i) == /\ table[i] # Hole
          /\ table'[i].id = table[i].id /\ table'[i].fid = table[i].fid
New(i) == table'[i].id = lastId + 1 /\ lastId' = lastId + 1

\* The rows of before, some of them changed or gone, and at most one with a new id.
Grown ==
    /\ table' \in [Places -> Rows \cup {Hole}]
    /\ lastId' \in 0 .. MaxId /\ lastId <= lastId'
    /\ \A i \in Places : table'[i] # Hole => Old(i) \/ New(i)
    /\ \A i, j \in Places : table'[i] # Hole /\ table'[j] # Hole /\ New(i) /\ New(j) => i = j

Row(r) == r.nkey \in NKeys \cup {NoKey} /\ r.var \in Vars /\ r.son \in Sections

\* An insert adds one row with a new id.
LEMMA InsertGrows ==
    ASSUME TypeOK, HandedOut, NEW f \in Files, NEW r, Row(r), Insert(f, r)
    PROVE  Grown
<1>1. PICK k : table' = [table EXCEPT ![k] = [id |-> lastId', fid |-> f, nkey |-> r.nkey,
                                              var |-> r.var, son |-> r.son]]
  BY DEF Insert
<1>2. lastId' = lastId + 1 /\ lastId' \in Ids /\ lastId \in Nat /\ lastId' \in 0 .. MaxId
  BY Distinct DEF Insert, TypeOK, Types, Ids
<1>3. [id |-> lastId', fid |-> f, nkey |-> r.nkey, var |-> r.var, son |-> r.son] \in Rows
  BY <1>2 DEF Row, Rows
<1>4. table' \in [Places -> Rows \cup {Hole}]
  BY <1>1, <1>3 DEF TypeOK, Types
<1>5. ASSUME NEW i \in Places, i # k PROVE table'[i] = table[i]
  BY <1>1, <1>5 DEF TypeOK, Types
<1>6. k \in Places => New(k)
  BY <1>1, <1>2 DEF TypeOK, Types, New
<1>7. ASSUME NEW i \in Places, i # k, table'[i] # Hole PROVE Old(i) /\ ~New(i)
  <2>1. table[i] \in Rows /\ table[i].id \in Ids
    BY <1>5, <1>7 DEF TypeOK, Types, Rows
  <2>2. table[i].id <= lastId
    BY <1>5, <1>7 DEF HandedOut
  <2> QED BY <2>1, <2>2, <1>2, <1>5, <1>7 DEF Old, New, Ids
<1> QED BY <1>2, <1>4, <1>6, <1>7 DEF Grown

\* A statement that adds no row.
RowsStay == /\ table' \in [Places -> Rows \cup {Hole}]
            /\ \A i \in Places : table'[i] # Hole => Old(i)

\* A statement that adds no row is a case of that.
LEMMA StayGrows ==
    ASSUME TypeOK, HandedOut, RowsStay, UNCHANGED lastId
    PROVE  Grown
BY DEF RowsStay, Grown, New, TypeOK, Types

\* No statement keeps the rows.
LEMMA SameStays == ASSUME TypeOK, UNCHANGED table PROVE RowsStay
BY DEF RowsStay, Old, TypeOK, Types

\* An update adds no row.
LEMMA UpdateStays ==
    ASSUME TypeOK, NEW id \in Ids, NEW r, Row(r), Update(id, r)
    PROVE  RowsStay
<1>1. ASSUME NEW i \in Places
      PROVE  /\ table'[i] \in Rows \cup {Hole}
             /\ table'[i] # Hole => Old(i)
  <2>1. table[i] \in Rows \cup {Hole}
    BY DEF TypeOK, Types
  <2>2. CASE i \in Used /\ table[i].id = id
    <3>1. table'[i] = [id |-> id, fid |-> table[i].fid, nkey |-> r.nkey, var |-> r.var, son |-> r.son]
      BY <2>2 DEF Update
    <3>2. table[i] \in Rows
      BY <2>1, <2>2 DEF Used
    <3> QED BY <2>2, <3>1, <3>2 DEF Rows, Row, Old, Used
  <2>3. CASE ~(i \in Used /\ table[i].id = id)
    <3>1. table'[i] = table[i]
      BY <2>3 DEF Update
    <3> QED BY <2>1, <3>1 DEF Old
  <2> QED BY <2>2, <2>3
<1>2. table' = [i \in Places |-> table'[i]]
  BY DEF Update
<1> QED BY <1>1, <1>2 DEF RowsStay

\* A delete adds no row.
LEMMA DeleteStays ==
    ASSUME TypeOK, NEW id, Delete(id) PROVE RowsStay
BY DEF Delete, RowsStay, Old, TypeOK, Types

\* What an options form sends fits conf_tab.
LEMMA FieldsAreRows == ASSUME NEW r \in Fields PROVE Row(r)
BY DEF Fields, Row

\* What a text form sends does.
LEMMA TextRowIsRow == ASSUME NEW v \in Vars PROVE Row(TextRow(v))
BY Distinct DEF TextRow, Row

\* An open page shows a file.
LEMMA PageOpen ==
    ASSUME TypeOK, NEW p \in Pages, page[p] # Closed
    PROVE  page[p] \in Opened /\ page[p].fid \in Files /\ page[p].ids \subseteq Ids
BY DEF TypeOK, Types, Opened

\* Every step leaves conf_tab so.
LEMMA TableStep == ASSUME IInv, [Next]_vars PROVE Grown
<1> USE DEF IInv
<1>1. ASSUME NEW p \in Pages, NEW f \in Files, Open(p, f) PROVE Grown
  BY <1>1, SameStays, StayGrows DEF Open
<1>2. ASSUME NEW p \in Pages, NEW id \in Ids, NEW r \in Fields, SaveOption(p, id, r) PROVE Grown
  BY <1>2, FieldsAreRows, UpdateStays, StayGrows DEF SaveOption
<1>3. ASSUME NEW p \in Pages, NEW id \in Ids, DelOption(p, id) PROVE Grown
  BY <1>3, DeleteStays, StayGrows DEF DelOption
<1>4. ASSUME NEW p \in Pages, NEW r \in Fields, AddOption(p, r) PROVE Grown
  <2>1. page[p].fid \in Files
    BY <1>4, PageOpen DEF AddOption, Ready
  <2> QED BY <1>4, <2>1, FieldsAreRows, InsertGrows DEF AddOption
<1>5. ASSUME NEW p \in Pages, NEW v \in Vars, SaveText(p, v) PROVE Grown
  <2>1. page[p].fid \in Files /\ page[p].ids \subseteq Ids
    BY <1>5, PageOpen DEF SaveText, Ready
  <2>2. CASE Insert(page[p].fid, TextRow(v))
    BY <2>1, <2>2, TextRowIsRow, InsertGrows
  <2>3. CASE (\E id \in page[p].ids : Update(id, TextRow(v))) /\ UNCHANGED lastId
    <3>1. PICK id \in Ids : Update(id, TextRow(v))
      BY <2>1, <2>3
    <3> QED BY <2>3, <3>1, TextRowIsRow, UpdateStays, StayGrows
  <2> QED BY <1>5, <2>2, <2>3 DEF SaveText
<1>6. ASSUME NEW p \in Pages, Answer(p) PROVE Grown
  BY <1>6, SameStays, StayGrows DEF Answer
<1>7. ASSUME NEW f \in Files, NEW n \in Names, CheConf(f, n) PROVE Grown
  BY <1>7, SameStays, StayGrows DEF CheConf
<1>8. CASE UNCHANGED vars
  BY <1>8, SameStays, StayGrows DEF vars
<1> QED BY <1>1, <1>2, <1>3, <1>4, <1>5, <1>6, <1>7, <1>8 DEF Next

----------------------------------------------------------------------------
(* What a step does to the pages.                                          *)

\* An open page has no ids but those it had for the same file and those of rows of
\* its file; a text form has at most one.
PagesKept ==
    /\ page' \in [Pages -> Opened \cup {Closed}]
    /\ \A p \in Pages : page'[p] # Closed =>
          /\ \A id \in page'[p].ids :
                \/ page[p] # Closed /\ page[p].fid = page'[p].fid /\ id \in page[p].ids
                \/ id \in IdsOf(page'[p].fid)
          /\ page'[p].form = "text" => Cardinality(page'[p].ids) <= 1

\* A step that leaves the pages alone keeps them.
LEMMA SamePages == ASSUME TypeOK, UNCHANGED page PROVE PagesKept
BY DEF TypeOK, Types, TextFormHasOne, PagesKept

\* The ids of a file are ids.
LEMMA IdsOfAreIds == ASSUME TypeOK, NEW f PROVE IdsOf(f) \subseteq Ids
<1>1. ASSUME NEW i \in Used PROVE table[i].id \in Ids
  BY DEF Used, TypeOK, Types, Rows
<1> QED BY <1>1 DEF IdsOf

\* A text form takes one id at most.
LEMMA ShownInText ==
    ASSUME TypeOK, NEW f \in Files, Form(name[f]) = "text"
    PROVE  Cardinality(Shown(f)) <= 1
<1>1. ASSUME NEW x \in Shown(f), NEW y \in Shown(f) PROVE x = y
  <2>1. x \in Ids /\ y \in Ids /\ x <= y /\ y <= x
    BY IdsOfAreIds DEF Shown
  <2> QED BY <2>1 DEF Ids
<1>2. CASE Shown(f) = {}
  BY <1>2, FS_EmptySet
<1>3. CASE Shown(f) # {}
  <2>1. PICK x : Shown(f) = {x}
    BY <1>1, <1>3
  <2> QED BY <2>1, FS_Singleton
<1> QED BY <1>2, <1>3

\* Opening a file keeps the other pages and shows ids of the file.
LEMMA OpenKeeps ==
    ASSUME TypeOK, NEW p \in Pages, NEW f \in Files, Open(p, f)
    PROVE  PagesKept
<1>1. Shown(f) \subseteq IdsOf(f) /\ IdsOf(f) \subseteq Ids
  BY IdsOfAreIds DEF Shown
<1>2. Form(name[f]) \in {"options", "text"}
  BY DEF Form
<1> DEFINE new == [fid |-> f, form |-> Form(name[f]), ids |-> Shown(f)]
<1>3. new \in Opened
  BY <1>1, <1>2 DEF Opened
<1>4. page' = [page EXCEPT ![p] = new]
  BY DEF Open
<1>5. new.form = "text" => Cardinality(new.ids) <= 1
  BY ShownInText
<1>6. new.fid = f /\ new.ids \subseteq IdsOf(f)
  BY <1>1
<1> HIDE DEF new
<1>7. page'[p] = new /\ \A q \in Pages \ {p} : page'[q] = page[q]
  BY <1>4 DEF TypeOK, Types
<1>8. page' \in [Pages -> Opened \cup {Closed}]
  BY <1>3, <1>4 DEF TypeOK, Types
<1> QED BY <1>5, <1>6, <1>7, <1>8 DEF TypeOK, TextFormHasOne, PagesKept

\* The id that FirstTwin finds is of a row of the file asked for.
LEMMA TwinIsOfFile ==
    ASSUME NEW f, NEW a, NEW i \in FirstTwin(f, a) PROVE table[i].id \in IdsOf(f)
BY DEF FirstTwin, IdsOf

\* A page whose set of ids alone is changed.
LEMMA IdsChange ==
    ASSUME TypeOK, NEW p \in Pages, page[p] # Closed, NEW ids,
           ids \subseteq page[p].ids \cup IdsOf(page[p].fid),
           page[p].form = "text" => ids = page[p].ids,
           page' = [page EXCEPT ![p].ids = ids]
    PROVE  PagesKept
<1>1. page[p] \in Opened /\ page[p].ids \subseteq Ids /\ IdsOf(page[p].fid) \subseteq Ids
  BY PageOpen, IdsOfAreIds
<1>2. page'[p] = [page[p] EXCEPT !.ids = ids] /\ \A q \in Pages \ {p} : page'[q] = page[q]
  BY DEF TypeOK, Types
<1>3. /\ page'[p] \in Opened /\ page'[p].ids = ids
      /\ page'[p].fid = page[p].fid /\ page'[p].form = page[p].form
  BY <1>1, <1>2 DEF Opened
<1>4. page' \in [Pages -> Opened \cup {Closed}]
  BY <1>2, <1>3 DEF TypeOK, Types
<1> QED BY <1>2, <1>3, <1>4 DEF TypeOK, TextFormHasOne, PagesKept

\* Every step leaves the pages so.
LEMMA PageStep == ASSUME IInv, [Next]_vars PROVE PagesKept
<1> USE DEF IInv
<1>1. ASSUME NEW p \in Pages, NEW f \in Files, Open(p, f) PROVE PagesKept
  BY <1>1, OpenKeeps
<1>2. ASSUME NEW p \in Pages, NEW id \in Ids, DelOption(p, id) PROVE PagesKept
  <2>1. /\ page[p] # Closed /\ page[p].form = "options"
        /\ page' = [page EXCEPT ![p].ids = page[p].ids \ {id}]
    BY <1>2 DEF DelOption, Ready, TypeOK, Types
  <2> QED BY <2>1, IdsChange
<1>3. ASSUME NEW p \in Pages, Answer(p) PROVE PagesKept
  <2> DEFINE twins == {table[i].id : i \in FirstTwin(page[p].fid, adding[p])}
             ids   == IF page[p].form = "text" THEN page[p].ids ELSE page[p].ids \cup twins
  <2>1. page[p] # Closed
    BY <1>3 DEF Answer, AddingOpen
  <2>2. page' = [page EXCEPT ![p].ids = ids]
    BY <1>3 DEF Answer
  <2>3. twins \subseteq IdsOf(page[p].fid)
    BY TwinIsOfFile
  <2>4. ids \subseteq page[p].ids \cup IdsOf(page[p].fid) /\ (page[p].form = "text" => ids = page[p].ids)
    BY <2>3
  <2> HIDE DEF ids
  <2> QED BY <2>1, <2>2, <2>4, IdsChange
<1>4. CASE UNCHANGED page
  BY <1>4, SamePages
<1> QED BY <1>1, <1>2, <1>3, <1>4
        DEF Next, SaveOption, AddOption, SaveText, CheConf, vars

----------------------------------------------------------------------------
(* The invariant.                                                          *)

\* No row, no page: the invariant holds.
LEMMA InitIInv == ASSUME Init PROVE IInv
<1>1. 0 \in 0 .. MaxId
  BY Distinct
<1> QED BY <1>1 DEF Init, IInv, TypeOK, Types, IdsDiffer, TextFormHasOne, HandedOut,
           AddingOpen, PagesListOwnFile, Used

\* The variables that no other lemma is about.
LEMMA RestStep ==
    ASSUME IInv, [Next]_vars
    PROVE  /\ name'   \in [Files -> Names]
           /\ adding' \in [Pages -> [nkey : NKeys \cup {NoKey}, var : Vars] \cup {NoAdd}]
           /\ saved'  \in [Files -> Vars \cup {NoText, Mixed}]
           /\ AddingOpen'
<1> DEFINE Rest == /\ name'   \in [Files -> Names]
                   /\ adding' \in [Pages -> [nkey : NKeys \cup {NoKey}, var : Vars] \cup {NoAdd}]
                   /\ saved'  \in [Files -> Vars \cup {NoText, Mixed}]
                   /\ AddingOpen'
<1> USE DEF IInv, TypeOK, Types, AddingOpen
<1>1. ASSUME NEW p \in Pages, NEW f \in Files, Open(p, f) PROVE Rest
  BY <1>1 DEF Open
<1>2. ASSUME NEW p \in Pages, NEW id \in Ids, NEW r \in Fields, SaveOption(p, id, r) PROVE Rest
  BY <1>2 DEF SaveOption
<1>3. ASSUME NEW p \in Pages, NEW id \in Ids, DelOption(p, id) PROVE Rest
  BY <1>3 DEF DelOption, Ready
<1>4. ASSUME NEW p \in Pages, NEW r \in Fields, AddOption(p, r) PROVE Rest
  BY <1>4 DEF AddOption, Ready, Fields
<1>5. ASSUME NEW p \in Pages, NEW v \in Vars, SaveText(p, v) PROVE Rest
  <2>1. CASE UNCHANGED adding
    BY <1>5, <2>1 DEF SaveText, Ready
  <2>2. CASE adding' = [adding EXCEPT ![p] = [nkey |-> NoKey, var |-> v]]
    <3>1. adding' \in [Pages -> [nkey : NKeys \cup {NoKey}, var : Vars] \cup {NoAdd}]
      BY <2>2
    <3>2. \A q \in Pages \ {p} : adding'[q] = adding[q]
      BY <2>2
    <3> QED BY <1>5, <3>1, <3>2 DEF SaveText, Ready
  <2> QED BY <1>5, <2>1, <2>2 DEF SaveText
<1>6. ASSUME NEW p \in Pages, Answer(p) PROVE Rest
  BY <1>6 DEF Answer
<1>7. ASSUME NEW f \in Files, NEW n \in Names, CheConf(f, n) PROVE Rest
  BY <1>7 DEF CheConf
<1>8. CASE UNCHANGED vars
  BY <1>8 DEF vars
<1> QED BY <1>1, <1>2, <1>3, <1>4, <1>5, <1>6, <1>7, <1>8 DEF Next

\* A row after the step with an id that was handed out before it was there before.
LEMMA OldIfHandedOut ==
    ASSUME IInv, Grown, NEW i \in Places, table'[i] # Hole, table'[i].id <= lastId
    PROVE  Old(i)
<1>1. lastId \in Nat
  BY DEF IInv, TypeOK, Types
<1> QED BY <1>1 DEF Grown, New

\* A row of before has its id still.
LEMMA OldIds ==
    ASSUME IInv, NEW i \in Places, Old(i)
    PROVE  /\ table[i] \in Rows /\ table[i].id \in Ids
           /\ table'[i].id = table[i].id /\ table'[i].id <= lastId
BY DEF Old, IInv, TypeOK, Types, HandedOut, Rows

\* Ids stay different.
LEMMA IdsDifferStep == ASSUME IInv, Grown PROVE IdsDiffer'
<1> SUFFICES ASSUME NEW i \in Places, NEW j \in Places, i # j,
                    table'[i] # Hole, table'[j] # Hole
             PROVE  table'[i].id # table'[j].id
  BY DEF IdsDiffer, Places
<1>0. lastId \in Nat
  BY DEF IInv, TypeOK, Types
<1>1. CASE Old(i) /\ Old(j)
  BY <1>1 DEF Old, IInv, TypeOK, IdsDiffer
<1>2. CASE Old(i) /\ New(j)
  BY <1>0, <1>2, OldIds DEF New, Ids
<1>3. CASE New(i) /\ Old(j)
  BY <1>0, <1>3, OldIds DEF New, Ids
<1>4. CASE New(i) /\ New(j)
  BY <1>4 DEF Grown
<1> QED BY <1>1, <1>2, <1>3, <1>4 DEF Grown

\* Ids stay below the last one handed out.
LEMMA HandedOutStep == ASSUME IInv, Grown, PagesKept PROVE HandedOut'
<1>0. lastId \in Nat /\ lastId' \in Nat /\ lastId <= lastId'
  BY DEF IInv, TypeOK, Types, Grown
<1>1. ASSUME NEW i \in Places, table'[i] # Hole PROVE table'[i].id <= lastId'
  <2>1. CASE Old(i)
    BY <1>0, <2>1, OldIds DEF Ids
  <2>2. CASE New(i)
    BY <1>0, <2>2 DEF New
  <2> QED BY <1>1, <2>1, <2>2 DEF Grown
<1>2. ASSUME NEW p \in Pages, page'[p] # Closed, NEW id \in page'[p].ids PROVE id <= lastId'
  <2>1. id \in Ids
    BY <1>2 DEF PagesKept, Opened
  <2>2. id <= lastId
    <3>1. CASE page[p] # Closed /\ id \in page[p].ids
      BY <3>1 DEF IInv, HandedOut
    <3>2. CASE id \in IdsOf(page'[p].fid)
      BY <3>2 DEF IdsOf, Used, IInv, HandedOut
    <3> QED BY <1>2, <3>1, <3>2 DEF PagesKept
  <2> QED BY <1>0, <2>1, <2>2 DEF Ids
<1> QED BY <1>1, <1>2 DEF HandedOut, Places

\* A page's ids stay of its file.
LEMMA OwnFileStep == ASSUME IInv, Grown, PagesKept PROVE PagesListOwnFile'
<1> SUFFICES ASSUME NEW p \in Pages, page'[p] # Closed, NEW i \in Places, table'[i] # Hole,
                    table'[i].id \in page'[p].ids
             PROVE  table'[i].fid = page'[p].fid
  BY DEF PagesListOwnFile, Used, Places
<1> DEFINE id == table'[i].id
<1>1. CASE page[p] # Closed /\ page[p].fid = page'[p].fid /\ id \in page[p].ids
  <2>1. id <= lastId
    BY <1>1 DEF IInv, HandedOut
  <2>2. Old(i)
    BY <2>1, OldIfHandedOut
  <2> QED BY <1>1, <2>2 DEF Old, IInv, PagesListOwnFile, Used
<1>2. CASE id \in IdsOf(page'[p].fid)
  <2>1. PICK j \in Places : table[j] # Hole /\ table[j].fid = page'[p].fid /\ table[j].id = id
    BY <1>2 DEF IdsOf, Used
  <2>2. id <= lastId
    BY <2>1 DEF IInv, HandedOut
  <2>3. Old(i)
    BY <2>2, OldIfHandedOut
  <2>4. i = j
    BY <2>1, <2>3 DEF Old, IInv, TypeOK, IdsDiffer
  <2> QED BY <2>1, <2>3, <2>4 DEF Old
<1> QED BY <1>1, <1>2 DEF PagesKept

\* Every step keeps the invariant.
LEMMA NextIInv == ASSUME IInv, [Next]_vars PROVE IInv'
<1>1. Grown /\ PagesKept
  BY TableStep, PageStep
<1>2. Types'
  BY <1>1, RestStep DEF Types, Grown, PagesKept, Places, Rows, Opened
<1>3. TextFormHasOne'
  BY <1>1 DEF TextFormHasOne, PagesKept
<1> QED BY <1>1, <1>2, <1>3, RestStep, IdsDifferStep, HandedOutStep, OwnFileStep
        DEF IInv, TypeOK

\* The invariant: types, ids that differ, ids handed out, pages of their own file.
THEOREM Invariance == Spec => []IInv
BY InitIInv, NextIInv, PTL DEF Spec

\* Every variable keeps its type, ids differ, and a text form has one id at most.
THEOREM TypeCorrect == Spec => []TypeOK
<1>1. IInv => TypeOK
  BY DEF IInv
<1> QED BY <1>1, Invariance, PTL

\* What a page saves or deletes is of the file it shows, whatever other pages inserted,
\* changed or deleted meanwhile (the lookup of Chopts by content).
THEOREM PagesAreTrue == Spec => []PagesListOwnFile
<1>1. IInv => PagesListOwnFile
  BY DEF IInv
<1> QED BY <1>1, Invariance, PTL

\* No save brings a deleted option back, and no id is used for two rows.
THEOREM NoResurrection == Spec => DeletedStaysDeleted
<1> DEFINE Kept == \A i \in Places : table'[i] # Hole =>
                       table'[i].id > lastId \/ \E j \in Used : table[j].id = table'[i].id
<1>1. ASSUME IInv, [Next]_vars PROVE [Kept]_vars
  <2>1. Grown /\ lastId \in Nat
    BY <1>1, TableStep DEF IInv, TypeOK, Types
  <2> SUFFICES ASSUME NEW i \in Places, table'[i] # Hole
               PROVE  table'[i].id > lastId \/ \E j \in Used : table[j].id = table'[i].id
    OBVIOUS
  <2>2. CASE Old(i)
    BY <2>2 DEF Old, Used
  <2>3. CASE New(i)
    BY <2>1, <2>3 DEF New
  <2> QED BY <2>1, <2>2, <2>3 DEF Grown
<1> QED BY <1>1, Invariance, PTL DEF Spec, DeletedStaysDeleted

----------------------------------------------------------------------------
(* The rows that are chosen.                                               *)

\* The values Chosen goes through.
Chooses(g, n, s, C) ==
    /\ g[0] = <<>>
    /\ \A i \in 1 .. n : g[i] = IF s[i] \in C THEN Append(g[i - 1], s[i]) ELSE g[i - 1]

\* Chosen goes through the rows chosen from the beginnings.
LEMMA ChosenSteps ==
    ASSUME NEW n \in Nat, NEW X, NEW s \in [1 .. n -> X], NEW C
    PROVE  \E g \in [0 .. n -> Seq(C)] : Chooses(g, n, s, C) /\ Chosen(s, C) = g[n]
<1> DEFINE Y == Seq(C)
           Op(v, f) == IF f \in C THEN Append(v, f) ELSE v
           F == [p \in Y \X (1 .. n) |-> Op(p[1], s[p[2]])]
           E(it) == it = [S \in SUBSET (DOMAIN s) |->
                            IF S = {} THEN <<>> ELSE Op(it[S \ {Max(S)}], s[Max(S)])]
           c == CHOOSE f : E(f)
           g == [i \in 0 .. n |-> c[1 .. i]]
<1>1. DOMAIN s = 1 .. n
  OBVIOUS
<1>2. \A v \in Y : \A f : Op(v, f) \in Y
  OBVIOUS
<1>3. <<>> \in Y
  OBVIOUS
<1> HIDE DEF Op, Y
<1>4. F \in [Y \X (1 .. n) -> Y]
  BY <1>1, <1>2
<1>5. PICK it \in [SUBSET (1 .. n) -> Y] : IsFold(it, n, <<>>, F)
  <2> HIDE DEF F
  <2> QED BY <1>3, <1>4, FoldExists
<1>6. E(it)
  <2>1. ASSUME NEW S \in SUBSET (1 .. n), S # {}
        PROVE  F[<<it[S \ {Max(S)}], Max(S)>>] = Op(it[S \ {Max(S)}], s[Max(S)])
    <3>1. Max(S) \in 1 .. n /\ S \ {Max(S)} \in SUBSET (1 .. n)
      BY <2>1, Greatest
    <3> QED BY <3>1
  <2> HIDE DEF F
  <2> QED BY <1>1, <1>5, <2>1 DEF IsFold
<1>7. E(c)
  <2> HIDE DEF E
  <2> QED BY <1>6
<1>8. Chosen(s, C) = c[DOMAIN s]
  BY DEF Chosen, FoldLeft, MapThenFoldSet, Op
<1> HIDE DEF c
<1>9. g[0] = <<>>
  BY <1>1, <1>7, Initials
<1>10. ASSUME NEW i \in 1 .. n PROVE g[i] = Op(g[i - 1], s[i])
  <2>1. /\ 1 .. i \in SUBSET (1 .. n) /\ 1 .. i # {}
        /\ Max(1 .. i) = i /\ (1 .. i) \ {i} = 1 .. i - 1
    BY Initials
  <2>2. c[1 .. i] = Op(c[1 .. i - 1], s[i])
    <3> DEFINE S == 1 .. i
               R == S \ {Max(S)}
    <3>1. S \in SUBSET (DOMAIN s) /\ S # {} /\ Max(S) = i /\ R = 1 .. i - 1
      BY <1>1, <2>1
    <3> HIDE DEF S
    <3>2. c[S] = Op(c[R], s[Max(S)])
      BY <1>7, <3>1
    <3> HIDE DEF R
    <3>3. c[S] = Op(c[1 .. i - 1], s[i])
      BY ONLY <3>1, <3>2
    <3> QED BY <3>3 DEF S
  <2> QED BY <2>2
<1>11. g[n] = c[1 .. n] /\ g = [i \in 0 .. n |-> g[i]]
  OBVIOUS
<1> HIDE DEF g
<1>12. \A i \in 0 .. n : g[i] \in Y
  <2> DEFINE Good(i) == i <= n => g[i] \in Y
             P == {i \in Nat : Good(i)}
  <2>1. Good(0)
    BY <1>3, <1>9
  <2>2. ASSUME NEW i \in Nat, Good(i) PROVE Good(i + 1)
    <3>1. SUFFICES ASSUME i + 1 <= n PROVE g[i + 1] \in Y
      OBVIOUS
    <3>2. g[i] \in Y /\ i + 1 \in 1 .. n /\ (i + 1) - 1 = i
      BY <2>2, <3>1
    <3> QED BY <1>2, <1>10, <3>2
  <2> HIDE DEF Good
  <2>3. 0 \in P /\ \A i \in Nat : i \in P => i + 1 \in P
    BY <2>1, <2>2
  <2>4. Nat \subseteq P
    BY <2>3, Induction
  <2> QED BY <2>4 DEF Good
<1>13. Chooses(g, n, s, C)
  BY <1>9, <1>10 DEF Chooses, Op
<1> QED BY <1>1, <1>8, <1>11, <1>12, <1>13 DEF Y

\* p says at which place of s each of the first m chosen rows is.
PlacesOf(p, m, k, v, s, C) ==
    /\ p \in [1 .. m -> 1 .. k]
    /\ \A t \in 1 .. m : s[p[t]] = v[t] /\ s[p[t]] \in C
    /\ \A t, u \in 1 .. m : p[t] = p[u] => t = u
    /\ \A j \in 1 .. k : s[j] \in C => \E t \in 1 .. m : p[t] = j

\* Every place with a row to be chosen is in it once, and no other.
LEMMA ChosenPlaces ==
    ASSUME NEW n \in Nat, NEW X, NEW s \in [1 .. n -> X], NEW C
    PROVE  /\ Chosen(s, C) \in Seq(C)
           /\ \E p : PlacesOf(p, Len(Chosen(s, C)), n, Chosen(s, C), s, C)
<1>1. PICK g \in [0 .. n -> Seq(C)] : Chooses(g, n, s, C) /\ Chosen(s, C) = g[n]
  BY ChosenSteps
<1> DEFINE Good(i) == i <= n => \E p : PlacesOf(p, Len(g[i]), i, g[i], s, C)
           P == {i \in Nat : Good(i)}
<1>2. Good(0)
  <2>1. g[0] = <<>> /\ Len(<<>>) = 0
    BY <1>1 DEF Chooses
  <2> DEFINE p == [t \in 1 .. 0 |-> 1]
  <2>2. PlacesOf(p, 0, 0, <<>>, s, C)
    BY DEF PlacesOf
  <2> QED BY <2>1, <2>2
<1>3. ASSUME NEW i \in Nat, Good(i) PROVE Good(i + 1)
  <2>1. SUFFICES ASSUME i + 1 <= n PROVE \E p : PlacesOf(p, Len(g[i + 1]), i + 1, g[i + 1], s, C)
    OBVIOUS
  <2> DEFINE v == g[i]
             w == g[i + 1]
             m == Len(v)
             x == s[i + 1]
  <2>2. i \in 0 .. n /\ i + 1 \in 0 .. n /\ i + 1 \in 1 .. n /\ (i + 1) - 1 = i /\ i <= n
    BY <2>1
  <2>3. v \in Seq(C) /\ w \in Seq(C) /\ m \in Nat /\ w = IF x \in C THEN Append(v, x) ELSE v
    <3>1. v \in Seq(C) /\ w \in Seq(C)
      BY <2>2
    <3>2. w = IF x \in C THEN Append(v, x) ELSE v
      BY <1>1, <2>2 DEF Chooses
    <3> HIDE DEF v
    <3> QED BY <3>1, <3>2
  <2>4. PICK p : PlacesOf(p, m, i, v, s, C)
    BY <1>3, <2>2
  <2> HIDE DEF v, w, m, x
  <2>5. CASE x \notin C
    <3>1. w = v
      BY <2>3, <2>5
    <3>2. PlacesOf(p, m, i + 1, v, s, C)
      <4>1. p \in [1 .. m -> 1 .. i + 1]
        BY <2>4 DEF PlacesOf
      <4>2. ASSUME NEW j \in 1 .. i + 1, s[j] \in C PROVE \E t \in 1 .. m : p[t] = j
        <5>1. j # i + 1
          BY <2>5, <4>2 DEF x
        <5>2. j \in 1 .. i
          BY <5>1
        <5> QED BY <2>4, <4>2, <5>2 DEF PlacesOf
      <4> QED BY <2>4, <4>1, <4>2 DEF PlacesOf
    <3> QED BY <3>1, <3>2 DEF w, m
  <2>6. CASE x \in C
    <3> DEFINE q == [t \in 1 .. m + 1 |-> IF t = m + 1 THEN i + 1 ELSE p[t]]
    <3>1. w = Append(v, x)
      BY <2>3, <2>6
    <3>2. Len(w) = m + 1 /\ w[m + 1] = x /\ \A t \in 1 .. m : w[t] = v[t]
      BY <2>3, <2>6, <3>1 DEF m
    <3>3. p \in [1 .. m -> 1 .. i] /\ \A t \in 1 .. m : p[t] \in 1 .. i
      BY <2>4 DEF PlacesOf
    <3>4. q[m + 1] = i + 1 /\ \A t \in 1 .. m : q[t] = p[t]
      BY <2>3
    <3>5. q \in [1 .. m + 1 -> 1 .. i + 1]
      <4>1. ASSUME NEW t \in 1 .. m + 1, t # m + 1 PROVE t \in 1 .. m
        BY <2>3, <4>1
      <4> QED BY <3>3, <4>1
    <3> HIDE DEF q
    <3>6. ASSUME NEW t \in 1 .. m + 1 PROVE t = m + 1 \/ t \in 1 .. m
      BY <2>3
    <3>7. \A t \in 1 .. m + 1 : s[q[t]] = w[t] /\ s[q[t]] \in C
      <4>1. s[q[m + 1]] = w[m + 1] /\ s[q[m + 1]] \in C
        BY <2>6, <3>2, <3>4 DEF x
      <4>2. \A t \in 1 .. m : s[q[t]] = w[t] /\ s[q[t]] \in C
        BY <2>4, <3>2, <3>4 DEF PlacesOf
      <4> QED BY <3>6, <4>1, <4>2
    <3>8. ASSUME NEW t \in 1 .. m + 1, NEW u \in 1 .. m + 1, q[t] = q[u] PROVE t = u
      <4>1. CASE t = m + 1 /\ u = m + 1
        BY <4>1
      <4>2. CASE t \in 1 .. m /\ u \in 1 .. m
        BY <2>4, <3>4, <3>8, <4>2 DEF PlacesOf
      <4>3. CASE t = m + 1 /\ u \in 1 .. m
        <5>1. q[u] \in 1 .. i /\ q[t] = i + 1
          BY <3>3, <3>4, <4>3
        <5> QED BY <3>8, <5>1
      <4>4. CASE t \in 1 .. m /\ u = m + 1
        <5>1. q[t] \in 1 .. i /\ q[u] = i + 1
          BY <3>3, <3>4, <4>4
        <5> QED BY <3>8, <5>1
      <4> QED BY <3>6, <4>1, <4>2, <4>3, <4>4
    <3>9. ASSUME NEW j \in 1 .. i + 1, s[j] \in C PROVE \E t \in 1 .. m + 1 : q[t] = j
      <4>1. CASE j = i + 1
        <5>1. m + 1 \in 1 .. m + 1
          BY <2>3
        <5> QED BY <3>4, <4>1, <5>1
      <4>2. CASE j # i + 1
        <5>1. j \in 1 .. i
          BY <4>2
        <5>2. PICK t \in 1 .. m : p[t] = j
          BY <2>4, <3>9, <5>1 DEF PlacesOf
        <5>3. t \in 1 .. m + 1
          BY <2>3
        <5> QED BY <3>4, <5>2, <5>3
      <4> QED BY <4>1, <4>2
    <3>10. PlacesOf(q, m + 1, i + 1, w, s, C)
      BY <3>5, <3>7, <3>8, <3>9 DEF PlacesOf
    <3> QED BY <3>2, <3>10 DEF w
  <2> QED BY <2>5, <2>6
<1> HIDE DEF Good
<1>4. 0 \in P /\ \A i \in Nat : i \in P => i + 1 \in P
  BY <1>2, <1>3
<1>5. Nat \subseteq P
  BY <1>4, Induction
<1>6. Good(n)
  BY <1>5
<1>7. n <= n
  OBVIOUS
<1> QED BY <1>1, <1>6, <1>7 DEF Good

----------------------------------------------------------------------------
(* The sections of a file.                                                 *)

\* The values Nodes goes through.
Collects(g, n, s) == g[0] = <<Main>> /\ \A i \in 1 .. n : g[i] = InOrder(g[i - 1], s[i])

\* Nodes goes through the sections of the beginnings.
LEMMA NodesSteps ==
    ASSUME NEW n \in Nat, NEW s \in [1 .. n -> Rows]
    PROVE  \E g \in [0 .. n -> Seq(Sections)] : Collects(g, n, s) /\ Nodes(s) = g[n]
<1> DEFINE Y == Seq(Sections)
           b == <<Main>>
           F == [p \in Y \X (1 .. n) |-> InOrder(p[1], s[p[2]])]
           E(it) == it = [S \in SUBSET (DOMAIN s) |->
                            IF S = {} THEN b ELSE InOrder(it[S \ {Max(S)}], s[Max(S)])]
           c == CHOOSE f : E(f)
           g == [i \in 0 .. n |-> c[1 .. i]]
<1>1. DOMAIN s = 1 .. n /\ \A i \in 1 .. n : s[i] \in Rows
  OBVIOUS
<1>2. \A v \in Y, r \in Rows : InOrder(v, r) \in Y
  BY DEF InOrder, Rows
<1>3. b \in Y
  BY Distinct
<1> HIDE DEF Y, b
<1>4. F \in [Y \X (1 .. n) -> Y]
  BY <1>1, <1>2
<1>5. PICK it \in [SUBSET (1 .. n) -> Y] : IsFold(it, n, b, F)
  <2> HIDE DEF F
  <2> QED BY <1>3, <1>4, FoldExists
<1>6. E(it)
  <2>1. ASSUME NEW S \in SUBSET (1 .. n), S # {}
        PROVE  F[<<it[S \ {Max(S)}], Max(S)>>] = InOrder(it[S \ {Max(S)}], s[Max(S)])
    <3>1. Max(S) \in 1 .. n /\ S \ {Max(S)} \in SUBSET (1 .. n)
      BY <2>1, Greatest
    <3> QED BY <3>1
  <2> HIDE DEF F
  <2> QED BY <1>1, <1>5, <2>1 DEF IsFold
<1>7. E(c)
  <2> HIDE DEF E
  <2> QED BY <1>6
<1>8. Nodes(s) = c[DOMAIN s]
  BY DEF Nodes, FoldLeft, MapThenFoldSet, b
<1> HIDE DEF c
<1>9. g[0] = b
  BY <1>1, <1>7, Initials
<1>10. ASSUME NEW i \in 1 .. n PROVE g[i] = InOrder(g[i - 1], s[i])
  <2>1. /\ 1 .. i \in SUBSET (1 .. n) /\ 1 .. i # {}
        /\ Max(1 .. i) = i /\ (1 .. i) \ {i} = 1 .. i - 1
    BY Initials
  <2>2. c[1 .. i] = InOrder(c[1 .. i - 1], s[i])
    <3> DEFINE S == 1 .. i
               R == S \ {Max(S)}
    <3>1. S \in SUBSET (DOMAIN s) /\ S # {} /\ Max(S) = i /\ R = 1 .. i - 1
      BY <1>1, <2>1
    <3> HIDE DEF S
    <3>2. c[S] = InOrder(c[R], s[Max(S)])
      BY <1>7, <3>1
    <3> HIDE DEF R
    <3>3. c[S] = InOrder(c[1 .. i - 1], s[i])
      BY ONLY <3>1, <3>2
    <3> QED BY <3>3 DEF S
  <2> QED BY <2>2
<1>11. g[n] = c[1 .. n] /\ g = [i \in 0 .. n |-> g[i]]
  OBVIOUS
<1> HIDE DEF g
<1>12. \A i \in 0 .. n : g[i] \in Y
  <2> DEFINE Good(i) == i <= n => g[i] \in Y
             P == {i \in Nat : Good(i)}
  <2>1. Good(0)
    BY <1>3, <1>9
  <2>2. ASSUME NEW i \in Nat, Good(i) PROVE Good(i + 1)
    <3>1. SUFFICES ASSUME i + 1 <= n PROVE g[i + 1] \in Y
      OBVIOUS
    <3>2. g[i] \in Y /\ i + 1 \in 1 .. n /\ (i + 1) - 1 = i
      BY <2>2, <3>1
    <3>3. s[i + 1] \in Rows
      BY <1>1, <3>2
    <3> QED BY <1>2, <1>10, <3>2, <3>3
  <2> HIDE DEF Good
  <2>3. 0 \in P /\ \A i \in Nat : i \in P => i + 1 \in P
    BY <2>1, <2>2
  <2>4. Nat \subseteq P
    BY <2>3, Induction
  <2> QED BY <2>4 DEF Good
<1>13. Collects(g, n, s)
  BY <1>9, <1>10 DEF Collects, b
<1> QED BY <1>1, <1>8, <1>11, <1>12, <1>13 DEF Y

\* Sections, Main before the others, each of them once, and those of the first k rows.
Ordered(secs, k, s) ==
    /\ secs \in Seq(Sections) /\ Len(secs) >= 1 /\ secs[1] = Main
    /\ \A i, j \in 1 .. Len(secs) : secs[i] = secs[j] => i = j
    /\ \A x \in 1 .. k : \E i \in 1 .. Len(secs) : secs[i] = s[x].son

\* The sections of a file are ordered so.
LEMMA NodesOrdered ==
    ASSUME NEW n \in Nat, NEW s \in [1 .. n -> Rows]
    PROVE  Ordered(Nodes(s), n, s)
<1>1. PICK g \in [0 .. n -> Seq(Sections)] : Collects(g, n, s) /\ Nodes(s) = g[n]
  BY NodesSteps
<1> DEFINE Good(i) == i <= n => Ordered(g[i], i, s)
           P == {i \in Nat : Good(i)}
<1>2. Good(0)
  <2> DEFINE b == <<Main>>
  <2>1. b \in Seq(Sections) /\ Len(b) = 1 /\ b[1] = Main
    BY Distinct
  <2>2. \A i, j \in 1 .. 1 : i = j
    OBVIOUS
  <2>3. g[0] = b
    BY <1>1 DEF Collects
  <2> HIDE DEF b
  <2>4. Ordered(b, 0, s)
    BY <2>1, <2>2 DEF Ordered
  <2> QED BY <2>3, <2>4
<1>3. ASSUME NEW k \in Nat, Good(k) PROVE Good(k + 1)
  <2>1. SUFFICES ASSUME k + 1 <= n PROVE Ordered(g[k + 1], k + 1, s)
    OBVIOUS
  <2> DEFINE v == g[k]
             w == g[k + 1]
             z == s[k + 1].son
             l == Len(v)
  <2>2. k + 1 \in 1 .. n /\ (k + 1) - 1 = k /\ k <= n
    BY <2>1
  <2>3. Ordered(v, k, s)
    BY <1>3, <2>2
  <2>4. w = IF \E i \in 1 .. Len(v) : v[i] = z THEN v ELSE Append(v, z)
    <3>1. w = InOrder(v, s[k + 1])
      BY <1>1, <2>2 DEF Collects
    <3> HIDE DEF v, w
    <3> QED BY <3>1 DEF InOrder
  <2>5. z \in Sections
    BY <2>2 DEF Rows
  <2>6. ASSUME NEW x \in 1 .. k + 1 PROVE x \in 1 .. k \/ x = k + 1
    OBVIOUS
  <2> HIDE DEF v, w, l
  <2>7. v \in Seq(Sections) /\ l \in Nat /\ l >= 1
    BY <2>3 DEF Ordered, l
  <2>8. CASE \E i \in 1 .. l : v[i] = z
    <3>1. w = v
      BY <2>4, <2>8 DEF l
    <3>2. \A x \in 1 .. k + 1 : \E i \in 1 .. Len(v) : v[i] = s[x].son
      <4>1. \A x \in 1 .. k : \E i \in 1 .. Len(v) : v[i] = s[x].son
        BY <2>3 DEF Ordered
      <4>2. \E i \in 1 .. Len(v) : v[i] = s[k + 1].son
        BY <2>8 DEF l
      <4> QED BY <2>6, <4>1, <4>2
    <3>3. Ordered(v, k + 1, s)
      BY <2>3, <3>2 DEF Ordered
    <3> QED BY <3>1, <3>3 DEF w
  <2>9. CASE ~ \E i \in 1 .. l : v[i] = z
    <3>1. w = Append(v, z)
      BY <2>4, <2>9 DEF l
    <3> HIDE DEF z
    <3>2. /\ w \in Seq(Sections) /\ Len(w) = l + 1 /\ w[l + 1] = z
          /\ \A i \in 1 .. l : w[i] = v[i]
      BY <2>5, <2>7, <3>1 DEF l
    <3>3. ASSUME NEW i \in 1 .. l + 1 PROVE i \in 1 .. l \/ i = l + 1
      BY <2>7
    <3>4. \A i \in 1 .. l : i \in 1 .. l + 1
      BY <2>7
    <3>5. w[1] = Main
      <4>1. 1 \in 1 .. l
        BY <2>7
      <4> QED BY <2>3, <3>2, <4>1 DEF Ordered
    <3>6. ASSUME NEW i \in 1 .. l + 1, NEW j \in 1 .. l + 1, w[i] = w[j] PROVE i = j
      <4>1. CASE i \in 1 .. l /\ j \in 1 .. l
        BY <2>3, <3>2, <3>6, <4>1 DEF Ordered, l
      <4>2. CASE i = l + 1 /\ j = l + 1
        BY <4>2
      <4>3. CASE i \in 1 .. l /\ j = l + 1
        BY <2>9, <3>2, <3>6, <4>3
      <4>4. CASE i = l + 1 /\ j \in 1 .. l
        BY <2>9, <3>2, <3>6, <4>4
      <4> QED BY <3>3, <4>1, <4>2, <4>3, <4>4
    <3>7. ASSUME NEW x \in 1 .. k + 1 PROVE \E i \in 1 .. l + 1 : w[i] = s[x].son
      <4>1. CASE x \in 1 .. k
        <5>1. PICK i \in 1 .. l : v[i] = s[x].son
          BY <2>3, <4>1 DEF Ordered, l
        <5> QED BY <3>2, <3>4, <5>1
      <4>2. CASE x = k + 1
        <5>1. l + 1 \in 1 .. l + 1
          BY <2>7
        <5> QED BY <3>2, <4>2, <5>1 DEF z
      <4> QED BY <2>6, <4>1, <4>2
    <3>8. Len(w) >= 1
      BY <2>7, <3>2
    <3> QED BY <3>2, <3>5, <3>6, <3>7, <3>8 DEF Ordered, w
  <2> QED BY <2>8, <2>9
<1> HIDE DEF Good
<1>4. 0 \in P /\ \A i \in Nat : i \in P => i + 1 \in P
  BY <1>2, <1>3
<1>5. Nat \subseteq P
  BY <1>4, Induction
<1>6. Good(n)
  BY <1>5
<1>7. n <= n
  OBVIOUS
<1> QED BY <1>1, <1>6, <1>7 DEF Good

----------------------------------------------------------------------------
(* Where the members of a concatenation are.                               *)

\* off[i]: what the first i sequences are long.
Offsets(off, n, q) ==
    /\ off \in [0 .. n -> Nat] /\ off[0] = 0
    /\ \A i \in 1 .. n : off[i] = off[i - 1] + Len(q[i])

\* w has the members of the first m sequences, each behind the sequences before its own.
Located(off, m, q, w) ==
    /\ Len(w) = off[m]
    /\ \A i \in 1 .. m : \A t \in 1 .. Len(q[i]) :
          off[i - 1] + t \in 1 .. Len(w) /\ w[off[i - 1] + t] = q[i][t]
    /\ \A j \in 1 .. Len(w) : \E i \in 1 .. m : \E t \in 1 .. Len(q[i]) : j = off[i - 1] + t

\* FlattenSeq puts each member behind the sequences before its own.
LEMMA FlattenPlaces ==
    ASSUME NEW n \in Nat, NEW S, NEW q \in [1 .. n -> Seq(S)]
    PROVE  /\ FlattenSeq(q) \in Seq(S)
           /\ \E off : Offsets(off, n, q) /\ Located(off, n, q, FlattenSeq(q))
<1>1. PICK c \in [0 .. n -> Seq(S)] : Flattens(c, n, q)
  BY FlattenSteps
<1> DEFINE off == [i \in 0 .. n |-> Len(c[i])]
           Good(m) == m <= n => Located(off, m, q, c[m])
           P == {m \in Nat : Good(m)}
<1>2. \A i \in 0 .. n : c[i] \in Seq(S) /\ Len(c[i]) \in Nat /\ off[i] = Len(c[i])
  <2>1. \A i \in 0 .. n : c[i] \in Seq(S)
    OBVIOUS
  <2> QED BY <2>1
<1>3. off \in [0 .. n -> Nat]
  BY <1>2
<1> HIDE DEF off
<1>4. off[0] = 0
  <2>1. c[0] = <<>> /\ 0 \in 0 .. n
    BY <1>1 DEF Flattens
  <2> QED BY <1>2, <2>1
<1>5. ASSUME NEW i \in 1 .. n
      PROVE  /\ q[i] \in Seq(S) /\ Len(q[i]) \in Nat
             /\ i - 1 \in 0 .. n /\ i \in 0 .. n /\ off[i - 1] \in Nat
             /\ off[i] = off[i - 1] + Len(q[i])
             /\ \A x \in 1 .. off[i - 1] : c[i][x] = c[i - 1][x]
             /\ \A x \in 1 .. Len(q[i]) : c[i][off[i - 1] + x] = q[i][x]
  <2>1. q[i] \in Seq(S) /\ i - 1 \in 0 .. n /\ i \in 0 .. n
    OBVIOUS
  <2> DEFINE a == c[i - 1]
             b == q[i]
             d == c[i]
  <2>2. a \in Seq(S) /\ b \in Seq(S) /\ d = a \o b
    BY <1>1, <1>2, <2>1 DEF Flattens
  <2>3. off[i - 1] = Len(a) /\ off[i] = Len(d)
    BY <1>2, <2>1
  <2> HIDE DEF a, b, d
  <2>4. /\ Len(d) = Len(a) + Len(b) /\ Len(a) \in Nat /\ Len(b) \in Nat
        /\ \A x \in 1 .. Len(a) : d[x] = a[x]
        /\ \A x \in 1 .. Len(b) : d[Len(a) + x] = b[x]
    BY <2>2, Joined
  <2> QED BY <2>1, <2>3, <2>4 DEF a, b, d
<1>6. Offsets(off, n, q)
  BY <1>3, <1>4, <1>5 DEF Offsets
<1>7. Good(0)
  <2>1. Len(c[0]) = 0 /\ off[0] = 0
    BY <1>1, <1>4 DEF Flattens
  <2> QED BY <2>1 DEF Located
<1>8. ASSUME NEW m \in Nat, Good(m) PROVE Good(m + 1)
  <2>1. SUFFICES ASSUME m + 1 <= n PROVE Located(off, m + 1, q, c[m + 1])
    OBVIOUS
  <2> DEFINE v == c[m]
             w == c[m + 1]
             b == q[m + 1]
             x == off[m]
  <2>2. m + 1 \in 1 .. n /\ (m + 1) - 1 = m /\ m <= n /\ m \in 0 .. n /\ m + 1 \in 0 .. n
    BY <2>1
  <2>3. Located(off, m, q, v)
    BY <1>8, <2>2
  <2>4. /\ x \in Nat /\ Len(b) \in Nat /\ off[m + 1] = x + Len(b)
        /\ \A y \in 1 .. x : w[y] = v[y]
        /\ \A y \in 1 .. Len(b) : w[x + y] = b[y]
    <3>1. PICK i \in 1 .. n : i = m + 1 /\ i - 1 = m
      BY <2>2
    <3>2. off[i - 1] = x /\ c[i] = w /\ c[i - 1] = v /\ q[i] = b
      BY <3>1
    <3> HIDE DEF v, w, b, x
    <3>3. /\ off[i - 1] \in Nat /\ Len(q[i]) \in Nat
          /\ off[i] = off[i - 1] + Len(q[i])
          /\ \A y \in 1 .. off[i - 1] : c[i][y] = c[i - 1][y]
          /\ \A y \in 1 .. Len(q[i]) : c[i][off[i - 1] + y] = q[i][y]
      BY <1>5
    <3> QED BY <3>1, <3>2, <3>3
  <2>5. Len(w) = off[m + 1] /\ Len(v) = x
    BY <1>2, <2>2
  <2> HIDE DEF v, w, b, x
  <2>6. ASSUME NEW i \in 1 .. m + 1, NEW t \in 1 .. Len(q[i])
        PROVE  off[i - 1] + t \in 1 .. Len(w) /\ w[off[i - 1] + t] = q[i][t]
    <3>1. CASE i = m + 1
      <4>1. t \in 1 .. Len(b) /\ off[i - 1] = x
        BY <2>2, <3>1 DEF b, x
      <4>2. x + t \in 1 .. Len(w)
        BY <2>4, <2>5, <4>1
      <4> QED BY <2>4, <3>1, <4>1, <4>2 DEF b
    <3>2. CASE i # m + 1
      <4>1. i \in 1 .. m
        BY <3>2
      <4>2. off[i - 1] + t \in 1 .. Len(v) /\ v[off[i - 1] + t] = q[i][t]
        BY <2>3, <4>1 DEF Located
      <4> HIDE DEF Located
      <4>3. off[i - 1] + t \in 1 .. Len(w)
        BY <2>4, <2>5, <4>2
      <4> QED BY <2>4, <2>5, <4>2, <4>3
    <3> QED BY <3>1, <3>2
  <2>7. ASSUME NEW j \in 1 .. Len(w)
        PROVE  \E i \in 1 .. m + 1 : \E t \in 1 .. Len(q[i]) : j = off[i - 1] + t
    <3>1. CASE j \in 1 .. x
      <4>1. PICK i \in 1 .. m : \E t \in 1 .. Len(q[i]) : j = off[i - 1] + t
        BY <2>3, <2>5, <3>1 DEF Located
      <4>2. i \in 1 .. m + 1
        OBVIOUS
      <4> QED BY <4>1, <4>2
    <3>2. CASE j \notin 1 .. x
      <4>1. j - x \in 1 .. Len(b) /\ j = x + (j - x)
        BY <2>4, <2>5, <3>2
      <4>2. m + 1 \in 1 .. m + 1
        OBVIOUS
      <4> QED BY <2>2, <4>1, <4>2 DEF b, x
    <3> QED BY <3>1, <3>2
  <2> QED BY <2>5, <2>6, <2>7 DEF Located, w
<1> HIDE DEF Good
<1>9. 0 \in P /\ \A m \in Nat : m \in P => m + 1 \in P
  BY <1>7, <1>8
<1>10. Nat \subseteq P
  BY <1>9, Induction
<1>11. Good(n)
  BY <1>10
<1>12. FlattenSeq(q) = c[n] /\ c[n] \in Seq(S) /\ n <= n
  BY <1>1 DEF Flattens
<1> QED BY <1>6, <1>11, <1>12 DEF Good

\* Offsets grow.
LEMMA OffsetsGrow ==
    ASSUME NEW n \in Nat, NEW S, NEW q \in [1 .. n -> Seq(S)], NEW off, Offsets(off, n, q)
    PROVE  \A k \in 0 .. n : \A i \in 0 .. k : off[i] <= off[k]
<1> DEFINE Good(k) == k <= n => \A i \in 0 .. k : off[i] <= off[k]
           P == {k \in Nat : Good(k)}
<1>0. \A i \in 0 .. n : off[i] \in Nat
  BY DEF Offsets
<1>1. Good(0)
  <2>1. \A i \in 0 .. 0 : i = 0
    OBVIOUS
  <2>2. off[0] \in Nat
    BY <1>0
  <2> QED BY <2>1, <2>2
<1>2. ASSUME NEW k \in Nat, Good(k) PROVE Good(k + 1)
  <2>1. SUFFICES ASSUME k + 1 <= n, NEW i \in 0 .. k + 1 PROVE off[i] <= off[k + 1]
    OBVIOUS
  <2>2. k + 1 \in 1 .. n /\ (k + 1) - 1 = k /\ k \in 0 .. n /\ k + 1 \in 0 .. n /\ k <= n /\ i \in 0 .. n
    BY <2>1
  <2>3. q[k + 1] \in Seq(S)
    BY <2>2
  <2>4. Len(q[k + 1]) \in Nat
    BY <2>3
  <2>5. off[k + 1] = off[k] + Len(q[k + 1])
    BY <2>2 DEF Offsets
  <2>6. off[k] \in Nat /\ off[i] \in Nat /\ off[k + 1] \in Nat
    BY <1>0, <2>2
  <2>7. CASE i \in 0 .. k
    <3>1. off[i] <= off[k]
      BY <1>2, <2>2, <2>7
    <3> HIDE DEF Good
    <3> QED BY <2>4, <2>5, <2>6, <3>1
  <2>8. CASE i = k + 1
    BY <2>6, <2>8
  <2> QED BY <2>7, <2>8
<1> HIDE DEF Good
<1>3. 0 \in P /\ \A k \in Nat : k \in P => k + 1 \in P
  BY <1>1, <1>2
<1>4. Nat \subseteq P
  BY <1>3, Induction
<1>5. \A k \in 0 .. n : Good(k)
  BY <1>4
<1> QED BY <1>5 DEF Good

----------------------------------------------------------------------------
(* The default rendering.                                                  *)

Of(s) == {r \in Rows : r.son = s}
Text  == {Line(r) : r \in Rows} \cup {Header(s) : s \in Sections}

\* Lines of headers in front of section i.
Heading(i) == IF i = 1 THEN 0 ELSE 1

Part(rows, s) == (IF s = Main THEN <<>> ELSE <<Header(s)>>) \o Lines(Section(rows, s))

\* A line is not a header.
LEMMA LineOrHeader ==
    /\ \A r : "head" \notin DOMAIN Line(r)
    /\ \A s : "head" \in DOMAIN Header(s) /\ Header(s).head = s
    /\ \A r, s : Line(r) # Header(s)
<1>1. ASSUME NEW r PROVE DOMAIN Line(r) = {"nkey", "var"}
  BY DEF Line
<1>2. ASSUME NEW s PROVE DOMAIN Header(s) = {"head"} /\ Header(s).head = s
  BY DEF Header
<1> QED BY <1>1, <1>2

\* The lines of a section are those of rows.
LEMMA LinesFacts ==
    ASSUME NEW s, NEW z \in Seq(Of(s))
    PROVE  /\ Lines(z) \in Seq(Text) /\ Len(Lines(z)) = Len(z) /\ Len(z) \in Nat
           /\ \A t \in 1 .. Len(z) : z[t] \in Rows /\ z[t].son = s /\ Lines(z)[t] = Line(z[t])
<1>1. Len(z) \in Nat /\ \A t \in 1 .. Len(z) : z[t] \in Of(s)
  OBVIOUS
<1>2. \A t \in 1 .. Len(z) : z[t] \in Rows /\ z[t].son = s
  BY <1>1 DEF Of
<1>3. \A t \in 1 .. Len(z) : Line(z[t]) \in Text
  BY <1>2 DEF Text
<1> DEFINE l == [t \in 1 .. Len(z) |-> Line(z[t])]
<1>4. l \in [1 .. Len(z) -> Text]
  BY <1>3
<1>5. l \in Seq(Text) /\ Len(l) = Len(z)
  <2> HIDE DEF l
  <2> QED BY <1>1, <1>4
<1> QED BY <1>1, <1>2, <1>5 DEF Lines

\* The text of section i: its header, if it has one, and the lines of its rows.
LEMMA PartFacts ==
    ASSUME NEW n \in Nat, NEW rows \in [1 .. n -> Rows], NEW secs, Ordered(secs, n, rows),
           NEW i \in 1 .. Len(secs)
    PROVE  LET s == secs[i]
               z == Section(rows, s)
               q == Part(rows, s)
           IN  /\ s \in Sections /\ z \in Seq(Of(s)) /\ q \in Seq(Text) /\ Len(z) \in Nat
               /\ Len(q) = Heading(i) + Len(z)
               /\ i # 1 => q[1] = Header(s)
               /\ \A t \in 1 .. Len(z) : q[Heading(i) + t] = Line(z[t])
<1> DEFINE s == secs[i]
           z == Section(rows, s)
           l == Lines(z)
           q == Part(rows, s)
           h == <<Header(s)>>
<1>1. s \in Sections /\ (s = Main <=> i = 1)
  <2>1. secs \in Seq(Sections) /\ 1 \in 1 .. Len(secs) /\ secs[1] = Main
    BY DEF Ordered
  <2> QED BY <2>1 DEF Ordered
<1>2. z \in Seq(Of(s))
  BY ChosenPlaces DEF Section, Of
<1> HIDE DEF z
<1>3. /\ l \in Seq(Text) /\ Len(l) = Len(z) /\ Len(z) \in Nat
      /\ \A t \in 1 .. Len(z) : l[t] = Line(z[t])
  BY <1>2, LinesFacts
<1>4. h \in Seq(Text) /\ Len(h) = 1 /\ h[1] = Header(s)
  BY <1>1 DEF Text
<1>5. q = IF i = 1 THEN <<>> \o l ELSE h \o l
  BY <1>1 DEF Part, z
<1> HIDE DEF s, l, h, q
<1>6. CASE i = 1
  <2>1. q = l
    BY <1>3, <1>5, <1>6, ConcatEmptySeq
  <2>2. Heading(i) = 0 /\ \A t \in 1 .. Len(z) : 0 + t = t
    BY <1>6 DEF Heading
  <2> QED BY <1>1, <1>2, <1>3, <1>6, <2>1, <2>2 DEF s, z, l, q
<1>7. CASE i # 1
  <2>1. q = h \o l /\ Heading(i) = 1
    BY <1>5, <1>7 DEF Heading
  <2>2. /\ h \o l \in Seq(Text) /\ Len(h \o l) = Len(h) + Len(l)
        /\ \A x \in 1 .. Len(h) : (h \o l)[x] = h[x]
        /\ \A x \in 1 .. Len(l) : (h \o l)[Len(h) + x] = l[x]
    <3>1. h \in Seq(Text) /\ l \in Seq(Text)
      BY <1>3, <1>4
    <3> QED BY ONLY <3>1, Joined
  <2>3. 1 \in 1 .. Len(h)
    BY <1>4
  <2>4. q[1] = Header(s)
    BY <1>4, <2>1, <2>2, <2>3
  <2> QED BY <1>1, <1>2, <1>3, <1>4, <2>1, <2>2, <2>4 DEF s, z, l, q
<1> QED BY <1>6, <1>7

\* out is the texts of the sections secs with the rows z, section i after off[i - 1] lines.
RenderedAs(out, secs, off, z) ==
    /\ off \in [0 .. Len(secs) -> Nat] /\ off[0] = 0 /\ Len(out) = off[Len(secs)]
    /\ \A i \in 1 .. Len(secs) : /\ Len(z[i]) \in Nat
                                 /\ off[i] = off[i - 1] + Heading(i) + Len(z[i])
    /\ \A k \in 0 .. Len(secs) : \A i \in 0 .. k : off[i] <= off[k]
    /\ \A i \in 1 .. Len(secs) : \A t \in 1 .. Len(z[i]) :
          /\ off[i - 1] + Heading(i) + t \in 1 .. Len(out)
          /\ out[off[i - 1] + Heading(i) + t] = Line(z[i][t])
    /\ \A i \in 1 .. Len(secs) : i # 1 => /\ off[i - 1] + 1 \in 1 .. Len(out)
                                          /\ out[off[i - 1] + 1] = Header(secs[i])
    /\ \A j \in 1 .. Len(out) : \E i \in 1 .. Len(secs) :
          \/ i # 1 /\ j = off[i - 1] + 1
          \/ \E t \in 1 .. Len(z[i]) : j = off[i - 1] + Heading(i) + t

\* The rendering, unless main is empty, is that.
LEMMA RenderFacts ==
    ASSUME NEW n \in Nat, NEW rows \in [1 .. n -> Rows], Section(rows, Main) # <<>>
    PROVE  LET secs == Nodes(rows)
               z == [i \in 1 .. Len(secs) |-> Section(rows, secs[i])]
           IN  \E off : RenderedAs(RenderText(rows), secs, off, z)
<1> DEFINE secs == Nodes(rows)
           N == Len(secs)
           z == [i \in 1 .. N |-> Section(rows, secs[i])]
           q == [i \in 1 .. N |-> Part(rows, secs[i])]
           out == RenderText(rows)
<1>1. Ordered(secs, n, rows)
  BY NodesOrdered
<1>2. N \in Nat /\ secs[1] = Main
  <2>1. secs \in Seq(Sections) /\ secs[1] = Main
    BY <1>1 DEF Ordered
  <2> QED BY <2>1
<1>3. out = FlattenSeq(q)
  <2>1. Section(rows, secs[1]) # <<>>
    BY <1>2
  <2> QED BY <2>1 DEF RenderText, Part
<1> HIDE DEF secs
<1>4. ASSUME NEW i \in 1 .. N
      PROVE  /\ q[i] \in Seq(Text) /\ Len(z[i]) \in Nat
             /\ Len(q[i]) = Heading(i) + Len(z[i])
             /\ i # 1 => q[i][1] = Header(secs[i])
             /\ \A t \in 1 .. Len(z[i]) : q[i][Heading(i) + t] = Line(z[i][t])
  BY <1>1, PartFacts
<1>5. q \in [1 .. N -> Seq(Text)]
  <2>1. \A i \in 1 .. N : Part(rows, secs[i]) \in Seq(Text)
    BY <1>4
  <2> QED BY <2>1
<1> HIDE DEF N, z, q, out
<1>6. PICK off : Offsets(off, N, q) /\ Located(off, N, q, out)
  BY <1>2, <1>3, <1>5, FlattenPlaces
<1>7. \A k \in 0 .. N : \A i \in 0 .. k : off[i] <= off[k]
  BY <1>2, <1>5, <1>6, OffsetsGrow
<1>8. \A i \in 1 .. N : Heading(i) \in Nat /\ (i = 1 => Heading(i) = 0) /\ (i # 1 => Heading(i) = 1)
  BY DEF Heading
<1>9. \A i \in 1 .. N : i - 1 \in 0 .. N /\ off[i - 1] \in Nat
  BY <1>2, <1>6 DEF Offsets
<1>10. ASSUME NEW i \in 1 .. N PROVE off[i] = off[i - 1] + Heading(i) + Len(z[i])
  <2>1. off[i] = off[i - 1] + Len(q[i])
    BY <1>6 DEF Offsets
  <2> QED BY <1>4, <1>8, <1>9, <2>1
<1>11. ASSUME NEW i \in 1 .. N, NEW t \in 1 .. Len(z[i])
       PROVE  /\ off[i - 1] + Heading(i) + t \in 1 .. Len(out)
              /\ out[off[i - 1] + Heading(i) + t] = Line(z[i][t])
  <2>1. Heading(i) + t \in 1 .. Len(q[i])
    BY <1>4, <1>8
  <2>2. off[i - 1] + (Heading(i) + t) = off[i - 1] + Heading(i) + t
    BY <1>8, <1>9
  <2>3. /\ off[i - 1] + (Heading(i) + t) \in 1 .. Len(out)
        /\ out[off[i - 1] + (Heading(i) + t)] = q[i][Heading(i) + t]
    BY <1>6, <2>1 DEF Located
  <2>4. q[i][Heading(i) + t] = Line(z[i][t])
    BY <1>4
  <2> QED BY <2>2, <2>3, <2>4
<1>12. ASSUME NEW i \in 1 .. N, i # 1
       PROVE  off[i - 1] + 1 \in 1 .. Len(out) /\ out[off[i - 1] + 1] = Header(secs[i])
  <2>1. 1 \in 1 .. Len(q[i])
    BY <1>4, <1>8, <1>12
  <2> QED BY <1>4, <1>6, <1>12, <2>1 DEF Located
<1>13. ASSUME NEW j \in 1 .. Len(out)
       PROVE  \E i \in 1 .. N :
                 \/ i # 1 /\ j = off[i - 1] + 1
                 \/ \E t \in 1 .. Len(z[i]) : j = off[i - 1] + Heading(i) + t
  <2>a. PICK i \in 1 .. N : \E u \in 1 .. Len(q[i]) : j = off[i - 1] + u
    BY <1>6 DEF Located
  <2>1. PICK u \in 1 .. Len(q[i]) : j = off[i - 1] + u
    BY <2>a
  <2>2. CASE u \in 1 .. Heading(i)
    <3>1. i # 1 /\ u = 1
      BY <1>8, <2>2
    <3> QED BY <2>1, <3>1
  <2>3. CASE u \notin 1 .. Heading(i)
    <3>1. u - Heading(i) \in 1 .. Len(z[i])
      BY <1>4, <1>8, <2>3
    <3>2. j = off[i - 1] + Heading(i) + (u - Heading(i))
      BY <1>8, <1>9, <2>1
    <3> QED BY <3>1, <3>2
  <2> QED BY <2>2, <2>3
<1>14. off \in [0 .. N -> Nat] /\ off[0] = 0 /\ Len(out) = off[N]
  BY <1>6 DEF Offsets, Located
<1>15. RenderedAs(out, secs, off, z)
  <2>1. \A i \in 1 .. N : Len(z[i]) \in Nat
    BY <1>4
  <2> QED BY <1>7, <1>10, <1>11, <1>12, <1>13, <1>14, <2>1 DEF RenderedAs, N
<1> QED BY <1>15 DEF out, z, N, secs

----------------------------------------------------------------------------
(* The default rendering keeps the options under their sections.           *)

\* Above each line of section i is the header of section i, none in the first.
LEMMA UnderSection ==
    ASSUME NEW n \in Nat, NEW rows \in [1 .. n -> Rows], NEW secs, Ordered(secs, n, rows),
           NEW off, NEW z, NEW out, RenderedAs(out, secs, off, z),
           NEW i \in 1 .. Len(secs), NEW t \in 1 .. Len(z[i])
    PROVE  Under(out, off[i - 1] + Heading(i) + t) = secs[i]
<1> DEFINE N == Len(secs)
           x == off[i - 1] + Heading(i) + t
           heads == {j \in 1 .. x : "head" \in DOMAIN out[j]}
<1>1. N \in Nat /\ N >= 1 /\ secs[1] = Main
  BY DEF Ordered
<1>2. \A k \in 1 .. N : /\ k - 1 \in 0 .. N /\ k \in 0 .. N /\ off[k - 1] \in Nat /\ off[k] \in Nat
                        /\ Len(z[k]) \in Nat /\ Heading(k) \in Nat
                        /\ off[k] = off[k - 1] + Heading(k) + Len(z[k])
  <2>1. \A k \in 1 .. N : k - 1 \in 0 .. N /\ k \in 0 .. N /\ Heading(k) \in Nat
    BY <1>1 DEF Heading
  <2> QED BY <2>1 DEF RenderedAs
<1>3. i \in 1 .. N /\ x \in Nat /\ x <= off[i] /\ off[i] <= Len(out) /\ off[i] \in Nat
  <2>1. i \in 1 .. N
    OBVIOUS
  <2>2. N \in 0 .. N /\ i \in 0 .. N
    BY <1>1, <2>1
  <2>3. off[i] <= off[N] /\ Len(out) = off[N]
    BY <1>1, <2>2 DEF RenderedAs
  <2> QED BY <1>2, <2>1, <2>3
<1> HIDE DEF N, x
<1>4. ASSUME NEW j \in heads PROVE i # 1 /\ j <= off[i - 1] + 1
  <2>1. j \in 1 .. x /\ "head" \in DOMAIN out[j]
    OBVIOUS
  <2>2. j \in 1 .. Len(out) /\ j <= off[i] /\ j \in Nat
    <3>1. off[i] \in Nat /\ Len(out) \in Nat
      BY <1>1, <1>3 DEF RenderedAs, N
    <3> QED BY <1>3, <2>1, <3>1
  <2>3. PICK k \in 1 .. N : \/ k # 1 /\ j = off[k - 1] + 1
                            \/ \E u \in 1 .. Len(z[k]) : j = off[k - 1] + Heading(k) + u
    BY <2>2 DEF RenderedAs, N
  <2>4. ASSUME NEW u \in 1 .. Len(z[k]) PROVE j # off[k - 1] + Heading(k) + u
    <3>1. out[off[k - 1] + Heading(k) + u] = Line(z[k][u])
      BY <2>3 DEF RenderedAs, N
    <3> QED BY <2>1, <3>1, LineOrHeader
  <2>5. k # 1 /\ j = off[k - 1] + 1
    BY <2>3, <2>4
  <2>6. ~(k > i)
    <3>1. SUFFICES ASSUME k > i PROVE FALSE
      OBVIOUS
    <3>2. k - 1 \in 0 .. N /\ i \in 0 .. k - 1
      BY <1>3, <2>3, <3>1, <1>1
    <3>3. off[i] <= off[k - 1]
      BY <3>2 DEF RenderedAs, N
    <3>4. off[k - 1] \in Nat
      BY <1>2, <2>3
    <3> QED BY <1>3, <2>2, <2>5, <3>3, <3>4
  <2>7. k = i \/ k < i
    BY <1>3, <2>3, <2>6
  <2>8. CASE k = i
    <3>1. j = off[i - 1] + 1 /\ i # 1 /\ off[i - 1] \in Nat
      BY <1>2, <1>3, <2>5, <2>8
    <3> QED BY <3>1
  <2>9. CASE k < i
    <3>1. Heading(k) = 1
      BY <2>5 DEF Heading
    <3>2. i - 1 \in 0 .. N /\ k \in 0 .. i - 1
      BY <1>1, <1>3, <2>3, <2>9
    <3>3. off[k] <= off[i - 1]
      BY <3>2 DEF RenderedAs, N
    <3>4. /\ off[k] = off[k - 1] + Heading(k) + Len(z[k])
          /\ off[k - 1] \in Nat /\ off[k] \in Nat /\ Len(z[k]) \in Nat /\ off[i - 1] \in Nat
      <4>1. /\ off[k] = off[k - 1] + Heading(k) + Len(z[k])
            /\ off[k - 1] \in Nat /\ off[k] \in Nat /\ Len(z[k]) \in Nat
        BY <1>2, <2>3
      <4>2. off[i - 1] \in Nat
        BY <1>2, <1>3
      <4> QED BY <4>1, <4>2
    <3>5. j <= off[i - 1] + 1
      <4> DEFINE a == off[k - 1]
                 b == off[k]
                 d == off[i - 1]
                 e == Len(z[k])
      <4>1. j = a + 1 /\ b = a + 1 + e /\ b <= d /\ a \in Nat /\ b \in Nat /\ d \in Nat /\ e \in Nat
        BY <2>5, <3>1, <3>3, <3>4
      <4> HIDE DEF a, b, d, e
      <4>2. j <= d + 1
        BY ONLY <4>1
      <4> QED BY <4>2 DEF d
    <3>6. i # 1
      BY <1>3, <2>3, <2>9
    <3> QED BY <3>5, <3>6
  <2> QED BY <2>7, <2>8, <2>9
<1>5. CASE i = 1
  <2>1. heads = {}
    BY <1>4, <1>5
  <2> QED BY <1>1, <1>5, <2>1 DEF Under, x
<1>6. CASE i # 1
  <2> DEFINE y == off[i - 1] + 1
  <2>1. out[y] = Header(secs[i])
    BY <1>3, <1>6 DEF RenderedAs, N
  <2>2. y \in 1 .. x
    <3>1. Heading(i) = 1 /\ off[i - 1] \in Nat /\ t \in Nat /\ t >= 1
      BY <1>2, <1>3, <1>6 DEF Heading
    <3> QED BY <3>1 DEF x
  <2> HIDE DEF y
  <2>3. y \in heads
    BY <2>1, <2>2, LineOrHeader
  <2>4. heads \subseteq Int /\ \A j \in heads : j <= y
    BY <1>4 DEF y
  <2> HIDE DEF heads
  <2>5. Max(heads) = y
    BY <2>3, <2>4, GreatestIs
  <2>6. Under(out, x) = out[y].head
    BY <2>3, <2>5 DEF Under, heads
  <2> QED BY <2>1, <2>6, LineOrHeader DEF x
<1> QED BY <1>5, <1>6

\* Sets between which a function is one to one have as many members.
LEMMA SameSize ==
    ASSUME NEW S, NEW T, IsFiniteSet(S), NEW f \in [S -> T],
           \A t, u \in S : f[t] = f[u] => t = u, \A j \in T : \E t \in S : f[t] = j
    PROVE  Cardinality(T) = Cardinality(S)
<1>1. f \in Injection(S, T)
  BY DEF Injection, IsInjective
<1>2. f \in Surjection(S, T)
  BY DEF Surjection
<1>3. ExistsBijection(S, T)
  BY <1>1, <1>2 DEF ExistsBijection, Bijection
<1> QED BY <1>3, FS_Bijection

\* How often section s has a line, and how often the text has it under the header of s.
LEMMA KeepsAll ==
    ASSUME NEW n \in Nat, NEW rows \in [1 .. n -> Rows], Section(rows, Main) # <<>>,
           NEW i \in 1 .. n
    PROVE  LET out == RenderText(rows)
           IN  Cardinality({j \in 1 .. n : /\ Line(rows[j]) = Line(rows[i])
                                           /\ rows[j].son = rows[i].son})
               = Cardinality({j \in 1 .. Len(out) : /\ out[j] = Line(rows[i])
                                                    /\ Under(out, j) = rows[i].son})
<1> DEFINE secs == Nodes(rows)
           N == Len(secs)
           zs == [k \in 1 .. N |-> Section(rows, secs[k])]
           out == RenderText(rows)
           l == Line(rows[i])
           s == rows[i].son
           A == {j \in 1 .. n : Line(rows[j]) = l /\ rows[j].son = s}
           B == {j \in 1 .. Len(out) : out[j] = l /\ Under(out, j) = s}
           z == Section(rows, s)
           m == Len(z)
           D == {t \in 1 .. m : Line(z[t]) = l}
<1>1. Ordered(secs, n, rows)
  BY NodesOrdered
<1>2. PICK off : RenderedAs(out, secs, off, zs)
  BY RenderFacts
<1>3. PICK k \in 1 .. N : secs[k] = s
  BY <1>1 DEF Ordered
<1>4. zs[k] = z
  BY <1>3
<1>5. z \in Seq(Of(s)) /\ \E p : PlacesOf(p, m, n, z, rows, Of(s))
  BY ChosenPlaces DEF Section, Of
<1>6. m \in Nat /\ IsFiniteSet(D)
  <2>1. m \in Nat
    BY <1>5
  <2>2. IsFiniteSet(1 .. m)
    BY <2>1, FS_Interval
  <2> QED BY <2>1, <2>2, FS_Subset
<1>7. \A t \in 1 .. m : Under(out, off[k - 1] + Heading(k) + t) = s
  BY <1>1, <1>2, <1>3, <1>4, UnderSection
<1>8. \A j \in 1 .. n : rows[j] \in Rows
  OBVIOUS
<1>9. ASSUME NEW j \in B PROVE \E t \in D : j = off[k - 1] + Heading(k) + t
  <2>1. j \in 1 .. Len(out) /\ out[j] = l /\ Under(out, j) = s
    OBVIOUS
  <2> HIDE DEF secs, zs, out, z
  <2>2. PICK x \in 1 .. N : \/ x # 1 /\ j = off[x - 1] + 1
                            \/ \E t \in 1 .. Len(zs[x]) : j = off[x - 1] + Heading(x) + t
    BY <1>2, <2>1 DEF RenderedAs
  <2>3. ~(x # 1 /\ j = off[x - 1] + 1)
    <3>1. x # 1 => out[off[x - 1] + 1] = Header(secs[x])
      BY <1>2 DEF RenderedAs
    <3> QED BY <2>1, <3>1, LineOrHeader
  <2>4. PICK t \in 1 .. Len(zs[x]) : j = off[x - 1] + Heading(x) + t
    BY <2>2, <2>3
  <2>5. secs[x] = s
    BY <1>1, <1>2, <2>1, <2>4, UnderSection
  <2>6. x = k
    BY <1>1, <1>3, <2>5 DEF Ordered
  <2>7. out[off[x - 1] + Heading(x) + t] = Line(zs[x][t])
    BY <1>2 DEF RenderedAs
  <2> QED BY <1>4, <2>1, <2>4, <2>6, <2>7
<1>10. Cardinality(A) = Cardinality(D)
  <2>1. PICK p : PlacesOf(p, m, n, z, rows, Of(s))
    BY <1>5
  <2> HIDE DEF z, m
  <2>2. ASSUME NEW t \in D
        PROVE  p[t] \in 1 .. n /\ rows[p[t]] = z[t] /\ rows[p[t]] \in Of(s) /\ p[t] \in A
    <3>1. p[t] \in 1 .. n /\ rows[p[t]] = z[t] /\ rows[p[t]] \in Of(s)
      BY <2>1 DEF PlacesOf
    <3>2. rows[p[t]].son = s
      BY <3>1 DEF Of
    <3> QED BY <3>1, <3>2
  <2>3. ASSUME NEW j \in A PROVE \E t \in D : p[t] = j
    <3>1. rows[j] \in Of(s)
      BY <1>8 DEF Of
    <3>2. PICK t \in 1 .. m : p[t] = j
      BY <2>1, <3>1 DEF PlacesOf
    <3>3. z[t] = rows[j]
      BY <2>1, <3>2 DEF PlacesOf
    <3> QED BY <3>2, <3>3
  <2>4. \A t, u \in D : p[t] = p[u] => t = u
    <3>1. \A t \in D : t \in 1 .. m
      OBVIOUS
    <3> QED BY <2>1, <3>1 DEF PlacesOf
  <2> DEFINE f == [t \in D |-> p[t]]
  <2> HIDE DEF A, D
  <2>5. f \in [D -> A]
    BY <2>2
  <2>6. \A t \in D : f[t] = p[t]
    OBVIOUS
  <2>7. \A j \in A : \E t \in D : f[t] = j
    BY <2>3, <2>6
  <2>8. \A t, u \in D : f[t] = f[u] => t = u
    BY <2>4, <2>6
  <2> HIDE DEF f
  <2> QED BY <1>6, <2>5, <2>7, <2>8, SameSize
<1>11. Cardinality(B) = Cardinality(D)
  <2> DEFINE b == off[k - 1] + Heading(k)
             f == [t \in D |-> b + t]
  <2>1. b \in Nat
    <3>1. k - 1 \in 0 .. N
      <4>1. N \in Nat
        BY <1>1 DEF Ordered
      <4> QED BY <1>3, <4>1
    <3>2. off[k - 1] \in Nat
      BY <1>2, <3>1 DEF RenderedAs
    <3> QED BY <3>2 DEF Heading
  <2>2. ASSUME NEW t \in D PROVE b + t \in B
    <3>1. b + t \in 1 .. Len(out) /\ out[b + t] = Line(zs[k][t])
      <4> HIDE DEF zs, secs, out
      <4>1. t \in 1 .. Len(zs[k])
        BY <1>4
      <4> QED BY <1>2, <4>1 DEF RenderedAs
    <3>2. Line(zs[k][t]) = l
      BY <1>4
    <3>3. Under(out, b + t) = s
      BY <1>7
    <3> HIDE DEF out, zs, b, l, s
    <3> QED BY <3>1, <3>2, <3>3
  <2>3. \A j \in B : \E t \in D : j = b + t
    BY <1>9
  <2>4. ASSUME NEW t \in D, NEW u \in D, b + t = b + u PROVE t = u
    <3>1. t \in Nat /\ u \in Nat
      OBVIOUS
    <3> HIDE DEF b
    <3> QED BY <2>1, <2>4, <3>1
  <2> HIDE DEF B, D, b
  <2>5. f \in [D -> B]
    BY <2>2
  <2>6. \A t \in D : f[t] = b + t
    OBVIOUS
  <2>7. \A j \in B : \E t \in D : f[t] = j
    BY <2>3, <2>6
  <2>8. \A t, u \in D : f[t] = f[u] => t = u
    BY <2>4, <2>6
  <2> HIDE DEF f
  <2> QED BY <1>6, <2>5, <2>7, <2>8, SameSize
<1> QED BY <1>10, <1>11

----------------------------------------------------------------------------
(* The text saved last is in conf_tab.                                     *)

\* A row of f holds the text saved last for f, in main and without a key.
Stored(f) == \E i \in Used : /\ table[i].fid = f /\ table[i].nkey = NoKey
                             /\ table[i].var = saved[f] /\ table[i].son = Main

\* No place behind the rows ever handed out is filled; and while only text forms changed a
\* file, each id of its pages is of a row that is there, and the text saved last is stored.
SavedKept ==
    /\ \A i \in Used : i <= lastId
    /\ \A f \in Files : saved[f] # Mixed =>
          /\ \A p \in Pages : page[p] # Closed /\ page[p].fid = f => page[p].ids \subseteq IdsOf(f)
          /\ saved[f] \in Vars => Stored(f)

\* The rows of g are where they were, with the same contents.
RowsKept(g) == \A i \in Used : table[i].fid = g => i \in Used' /\ table'[i] = table[i]

\* The ids of g are.
IdsKept(g) == IdsOf(g) \subseteq IdsOf(g)'

\* Rows that are kept keep their ids.
LEMMA RowsKeptIds == ASSUME NEW g, RowsKept(g) PROVE IdsKept(g)
BY DEF RowsKept, IdsKept, IdsOf, Used, Places

\* No statement keeps the rows of every file.
LEMMA SameKeeps == ASSUME NEW g, UNCHANGED table PROVE RowsKept(g)
BY DEF RowsKept, Used, Places

\* A row with this id is of one file alone.
LEMMA IdOfOneFile ==
    ASSUME TypeOK, NEW i \in Used, NEW f, table[i].id \in IdsOf(f)
    PROVE  table[i].fid = f
<1>1. PICK j \in Used : table[j].fid = f /\ table[j].id = table[i].id
  BY DEF IdsOf
<1>2. i = j
  BY <1>1 DEF TypeOK, IdsDiffer, Used
<1> QED BY <1>1, <1>2

\* An insert keeps all rows and stores its own.
LEMMA InsertKeeps ==
    ASSUME IInv, SavedKept, NEW f \in Files, NEW r, Row(r), Insert(f, r)
    PROVE  /\ \A i \in Used' : i <= lastId'
           /\ \A g : RowsKept(g)
           /\ \E i \in Used' : table'[i] = [id |-> lastId', fid |-> f, nkey |-> r.nkey,
                                            var |-> r.var, son |-> r.son]
<1> DEFINE new == [id |-> lastId', fid |-> f, nkey |-> r.nkey, var |-> r.var, son |-> r.son]
<1>1. PICK k \in (1 .. EndPlace) \ Used : table' = [table EXCEPT ![k] = new]
  BY DEF Insert
<1>2. lastId' = lastId + 1 /\ lastId < MaxId /\ lastId \in Nat /\ MaxId \in Nat
  BY Distinct DEF Insert, IInv, TypeOK, Types
<1>3. EndPlace \in Nat /\ EndPlace <= lastId + 1
  <2> DEFINE S == Used \cup {0}
  <2>1. S \in SUBSET (0 .. MaxId) /\ S # {} /\ \A i \in S : i <= lastId
    BY <1>2 DEF Used, Places, SavedKept
  <2>3. EndPlace = Max(S) + 1
    BY DEF EndPlace
  <2> HIDE DEF S
  <2>2. Max(S) \in S
    <3>1. MaxId \in Nat /\ S \in SUBSET (0 .. MaxId) /\ S # {}
      BY <1>2, <2>1
    <3> QED BY ONLY <3>1, HasGreatest
  <2>4. PICK m \in S : EndPlace = m + 1
    BY <2>2, <2>3
  <2>5. m \in Nat /\ m <= lastId
    BY <1>2, <2>1
  <2> QED BY <1>2, <2>4, <2>5
<1>4. k \in Places /\ k <= lastId'
  BY <1>2, <1>3 DEF Places
<1>5. table'[k] = new /\ \A i \in Places \ {k} : table'[i] = table[i]
  BY <1>1, <1>4 DEF IInv, TypeOK, Types
<1>6. new # Hole
  <2>1. new \in Rows
    BY <1>2 DEF Rows, Row, Ids
  <2> QED BY <2>1, HoleIsNoRow
<1> HIDE DEF new
<1>7. Used' = Used \cup {k}
  BY <1>4, <1>5, <1>6 DEF Used, Places
<1>8. \A i \in Used' : i <= lastId'
  BY <1>2, <1>4, <1>7 DEF SavedKept, Used, Places
<1>9. \A g : RowsKept(g)
  BY <1>1, <1>5, <1>7 DEF RowsKept, Used
<1> QED BY <1>5, <1>7, <1>8, <1>9 DEF new

\* An update of an id of f keeps the rows of other files and the ids of f, and stores the
\* row if f has that id.
LEMMA UpdateKeeps ==
    ASSUME IInv, NEW f, NEW id \in Ids, NEW r, Row(r), Update(id, r),
           \A i \in Used : table[i].id = id => table[i].fid = f
    PROVE  /\ Used' = Used
           /\ \A g : g # f => RowsKept(g)
           /\ IdsKept(f)
           /\ id \in IdsOf(f) => \E i \in Used' : table'[i] = [id |-> id, fid |-> f, nkey |-> r.nkey,
                                                              var |-> r.var, son |-> r.son]
<1>1. ASSUME NEW i \in Used, table[i].id = id
      PROVE  /\ table'[i] = [id |-> id, fid |-> f, nkey |-> r.nkey, var |-> r.var, son |-> r.son]
             /\ table'[i] # Hole
  <2>1. i \in Places /\ table[i] \in Rows /\ table[i].fid = f
    BY <1>1 DEF Used, IInv, TypeOK, Types
  <2>2. f \in Files
    BY <2>1 DEF Rows
  <2> DEFINE new == [id |-> id, fid |-> f, nkey |-> r.nkey, var |-> r.var, son |-> r.son]
  <2>3. new \in Rows
    BY <2>2 DEF Rows, Row
  <2>4. table'[i] = new
    BY <1>1, <2>1 DEF Update
  <2> QED BY <2>3, <2>4, HoleIsNoRow
<1>2. ASSUME NEW i \in Places, ~(i \in Used /\ table[i].id = id) PROVE table'[i] = table[i]
  BY <1>2 DEF Update
<1>3. Used' = Used
  BY <1>1, <1>2 DEF Used, Places
<1>4. ASSUME NEW g, g # f PROVE RowsKept(g)
  BY <1>2, <1>3, <1>4 DEF RowsKept, Used
<1>5. IdsKept(f)
  <2>1. ASSUME NEW i \in Used, table[i].fid = f PROVE table'[i].fid = f /\ table'[i].id = table[i].id
    <3>1. CASE table[i].id = id
      BY <1>1, <3>1
    <3>2. CASE table[i].id # id
      BY <1>2, <2>1, <3>2 DEF Used
    <3> QED BY <3>1, <3>2
  <2> QED BY <1>3, <2>1 DEF IdsKept, IdsOf
<1>6. ASSUME id \in IdsOf(f)
      PROVE  \E i \in Used' : table'[i] = [id |-> id, fid |-> f, nkey |-> r.nkey,
                                           var |-> r.var, son |-> r.son]
  <2>1. PICK i \in Used : table[i].id = id
    BY <1>6 DEF IdsOf
  <2> QED BY <1>1, <1>3, <2>1
<1> QED BY <1>3, <1>4, <1>5, <1>6

\* A delete of an id of f keeps the rows of other files.
LEMMA DeleteKeeps ==
    ASSUME IInv, NEW f, NEW id, Delete(id),
           \A i \in Used : table[i].id = id => table[i].fid = f
    PROVE  Used' \subseteq Used /\ \A g : g # f => RowsKept(g)
<1>1. ASSUME NEW i \in Places, ~(i \in Used /\ table[i].id = id) PROVE table'[i] = table[i]
  BY <1>1 DEF Delete
<1>2. Used' \subseteq Used
  BY <1>1 DEF Used, Places
<1>3. ASSUME NEW g, g # f PROVE RowsKept(g)
  BY <1>1, <1>3 DEF RowsKept, Used, Places
<1> QED BY <1>2, <1>3

\* A page's ids, on the file it is of.
LEMMA OwnIds ==
    ASSUME IInv, NEW p \in Pages, page[p] # Closed, NEW id \in page[p].ids
    PROVE  id \in Ids /\ \A i \in Used : table[i].id = id => table[i].fid = page[p].fid
BY PageOpen DEF IInv, PagesListOwnFile

\* What a step leaves of a file: g stays as it is, or gets a text, or is Mixed after it.
Left(g) ==
    \/ RowsKept(g) /\ saved'[g] = saved[g]
    \/ IdsKept(g) /\ (saved'[g] \in Vars => Stored(g)') /\ (saved'[g] # Mixed => saved[g] # Mixed)
    \/ saved'[g] = Mixed

\* A step of one page on one file, which gets Mixed, leaves the others.
LEMMA OthersLeft ==
    ASSUME IInv, NEW f \in Files, saved' = [saved EXCEPT ![f] = Mixed],
           \A g : g # f => RowsKept(g)
    PROVE  \A g \in Files : Left(g)
BY DEF Left, IInv, TypeOK, Types

\* No file is touched otherwise, and no place behind the rows ever handed out.
AllLeft == (\A g \in Files : Left(g)) /\ \A i \in Used' : i <= lastId'

\* What every step leaves of the files.
LEMMA FilesLeft ==
    ASSUME IInv, SavedKept, [Next]_vars
    PROVE  AllLeft
<1> USE DEF AllLeft
<1>f. ASSUME NEW p \in Pages, page[p] # Closed PROVE \E f \in Files : f = page[p].fid
  BY <1>f, PageOpen DEF IInv
<1>0. ASSUME UNCHANGED <<table, lastId, saved>> PROVE AllLeft
  <2>1. \A g \in Files : Left(g)
    BY <1>0, SameKeeps DEF Left
  <2> QED BY <1>0, <2>1 DEF SavedKept, Used
<1>1. ASSUME NEW p \in Pages, NEW id \in Ids, NEW r \in Fields, SaveOption(p, id, r) PROVE AllLeft
  <2>1. /\ page[p] # Closed /\ id \in page[p].ids /\ Update(id, r) /\ lastId' = lastId
        /\ saved' = [saved EXCEPT ![page[p].fid] = Mixed]
    BY <1>1 DEF SaveOption, Ready
  <2>2. PICK f \in Files : f = page[p].fid
    BY <1>f, <2>1
  <2>3. \A i \in Used : table[i].id = id => table[i].fid = f
    BY <2>1, <2>2, OwnIds
  <2>4. Used' = Used /\ \A g : g # f => RowsKept(g)
    BY <2>1, <2>3, FieldsAreRows, UpdateKeeps
  <2>5. \A g \in Files : Left(g)
    BY <2>1, <2>2, <2>4, OthersLeft
  <2> QED BY <2>1, <2>4, <2>5 DEF SavedKept
<1>2. ASSUME NEW p \in Pages, NEW id \in Ids, DelOption(p, id) PROVE AllLeft
  <2>1. /\ page[p] # Closed /\ id \in page[p].ids /\ Delete(id) /\ lastId' = lastId
        /\ saved' = [saved EXCEPT ![page[p].fid] = Mixed]
    BY <1>2 DEF DelOption, Ready
  <2>2. PICK f \in Files : f = page[p].fid
    BY <1>f, <2>1
  <2>3. \A i \in Used : table[i].id = id => table[i].fid = f
    BY <2>1, <2>2, OwnIds
  <2>4. Used' \subseteq Used /\ \A g : g # f => RowsKept(g)
    BY <2>1, <2>3, DeleteKeeps
  <2>5. \A g \in Files : Left(g)
    BY <2>1, <2>2, <2>4, OthersLeft
  <2> QED BY <2>1, <2>4, <2>5 DEF SavedKept
<1>3. ASSUME NEW p \in Pages, NEW r \in Fields, AddOption(p, r) PROVE AllLeft
  <2>1. /\ page[p] # Closed /\ Insert(page[p].fid, r)
        /\ saved' = [saved EXCEPT ![page[p].fid] = Mixed]
    BY <1>3 DEF AddOption, Ready
  <2>2. PICK f \in Files : f = page[p].fid
    BY <1>f, <2>1
  <2>3. (\A i \in Used' : i <= lastId') /\ \A g : RowsKept(g)
    BY <2>1, <2>2, FieldsAreRows, InsertKeeps
  <2> QED BY <2>1, <2>2, <2>3, OthersLeft
<1>4. ASSUME NEW p \in Pages, NEW v \in Vars, SaveText(p, v) PROVE AllLeft
  <2> DEFINE r == TextRow(v)
  <2>0. page[p] # Closed
    BY <1>4 DEF SaveText, Ready
  <2>a. PICK f \in Files : f = page[p].fid
    BY <1>f, <2>0
  <2>1. /\ page[p] # Closed
        /\ saved' = [saved EXCEPT ![f] = IF @ = Mixed THEN Mixed ELSE v]
    BY <1>4, <2>a DEF SaveText, Ready
  <2>2. f \in Files /\ page[p].ids \subseteq Ids
    BY <2>1, PageOpen DEF IInv
  <2>3. /\ saved'[f] = IF saved[f] = Mixed THEN Mixed ELSE v
        /\ \A g \in Files \ {f} : saved'[g] = saved[g]
    BY <2>1, <2>2 DEF IInv, TypeOK, Types
  <2>4. Row(r) /\ r.nkey = NoKey /\ r.var = v /\ r.son = Main
    BY TextRowIsRow DEF TextRow
  <2> HIDE DEF r
  <2>5. ASSUME NEW x, \E i \in Used' : table'[i] = [id |-> x, fid |-> f, nkey |-> r.nkey,
                                                   var |-> r.var, son |-> r.son],
               saved'[f] # Mixed
        PROVE  Stored(f)'
    <3>1. PICK i \in Used' : table'[i] = [id |-> x, fid |-> f, nkey |-> r.nkey,
                                          var |-> r.var, son |-> r.son]
      BY <2>5
    <3> QED BY <2>3, <2>4, <2>5, <3>1 DEF Stored
  <2>6. CASE Insert(f, r)
    <3>1. /\ \A i \in Used' : i <= lastId'
          /\ \A g : RowsKept(g)
          /\ \E i \in Used' : table'[i] = [id |-> lastId', fid |-> f, nkey |-> r.nkey,
                                           var |-> r.var, son |-> r.son]
      BY <2>2, <2>4, <2>6, InsertKeeps
    <3>2. saved'[f] = Mixed \/ Stored(f)'
      BY <2>5, <3>1
    <3>3. Left(f)
      BY <2>3, <3>1, <3>2, RowsKeptIds DEF Left
    <3>4. \A g \in Files \ {f} : Left(g)
      BY <2>3, <3>1 DEF Left
    <3> QED BY <3>1, <3>3, <3>4
  <2>7. CASE (\E id \in page[p].ids : Update(id, r)) /\ UNCHANGED lastId
    <3>1. PICK id \in page[p].ids : Update(id, r)
      BY <2>7
    <3>2. id \in Ids /\ \A i \in Used : table[i].id = id => table[i].fid = f
      BY <2>1, <2>a, OwnIds
    <3>3. /\ Used' = Used
          /\ \A g : g # f => RowsKept(g)
          /\ IdsKept(f)
          /\ id \in IdsOf(f) => \E i \in Used' : table'[i] = [id |-> id, fid |-> f, nkey |-> r.nkey,
                                                              var |-> r.var, son |-> r.son]
      BY <2>4, <3>1, <3>2, UpdateKeeps
    <3>4. saved'[f] = Mixed \/ Stored(f)'
      <4>1. SUFFICES ASSUME saved'[f] # Mixed PROVE Stored(f)'
        OBVIOUS
      <4>2. id \in IdsOf(f)
        BY <2>1, <2>2, <2>3, <3>1, <4>1, <2>a DEF SavedKept
      <4> QED BY <2>5, <3>3, <4>1, <4>2
    <3>5. Left(f)
      BY <2>3, <3>3, <3>4 DEF Left
    <3>6. \A g \in Files \ {f} : Left(g)
      BY <2>3, <3>3 DEF Left
    <3>7. \A i \in Used' : i <= lastId'
      BY <2>7, <3>3 DEF SavedKept
    <3> QED BY <3>5, <3>6, <3>7
  <2> QED BY <1>4, <2>6, <2>7, <2>a DEF SaveText, r
<1>5. CASE UNCHANGED vars
  BY <1>0, <1>5 DEF vars
<1> HIDE DEF AllLeft
<1>6. AllLeft
  <2>1. ASSUME NEW p \in Pages, NEW f \in Files, Open(p, f) PROVE AllLeft
    BY <1>0, <2>1 DEF Open
  <2>2. ASSUME NEW p \in Pages, Answer(p) PROVE AllLeft
    BY <1>0, <2>2 DEF Answer
  <2>3. ASSUME NEW f \in Files, NEW n \in Names, CheConf(f, n) PROVE AllLeft
    BY <1>0, <2>3 DEF CheConf
  <2> QED BY <1>1, <1>2, <1>3, <1>4, <1>5, <2>1, <2>2, <2>3 DEF Next
<1> QED BY <1>6

\* No text is saved at first.
LEMMA SavedInit == ASSUME Init PROVE SavedKept
BY Distinct DEF Init, SavedKept, Used

\* Every step keeps the texts that were saved.
LEMMA SavedStep == ASSUME IInv, SavedKept, [Next]_vars PROVE SavedKept'
<1>1. PagesKept /\ (\A g \in Files : Left(g)) /\ \A i \in Used' : i <= lastId'
  BY PageStep, FilesLeft DEF AllLeft
<1>2. ASSUME NEW f \in Files, saved'[f] # Mixed
      PROVE  saved[f] # Mixed /\ IdsKept(f) /\ (saved'[f] \in Vars => Stored(f)')
  <2>1. CASE RowsKept(f) /\ saved'[f] = saved[f]
    <3>1. IdsKept(f)
      BY <2>1, RowsKeptIds
    <3>2. Stored(f) => Stored(f)'
      BY <2>1 DEF RowsKept, Stored
    <3> QED BY <1>2, <2>1, <3>1, <3>2 DEF SavedKept
  <2>2. CASE IdsKept(f) /\ (saved'[f] \in Vars => Stored(f)') /\ (saved'[f] # Mixed => saved[f] # Mixed)
    BY <1>2, <2>2
  <2> QED BY <1>1, <1>2, <2>1, <2>2 DEF Left
<1>3. ASSUME NEW f \in Files, saved'[f] # Mixed, NEW p \in Pages, page'[p] # Closed,
             page'[p].fid = f
      PROVE  page'[p].ids \subseteq IdsOf(f)'
  <2>1. ASSUME NEW id \in page'[p].ids PROVE id \in IdsOf(f)
    BY <1>1, <1>2, <1>3 DEF PagesKept, SavedKept
  <2> QED BY <1>2, <1>3, <2>1 DEF IdsKept
<1> QED BY <1>1, <1>2, <1>3 DEF SavedKept

----------------------------------------------------------------------------
(* What VeFileType makes of the rows of a file.                            *)

\* The rows of a file.
LEMMA RowsOfFacts ==
    ASSUME Types, NEW f
    PROVE  LET rows == RowsOf(f)
           IN  /\ Len(rows) \in Nat /\ rows \in [1 .. Len(rows) -> Rows]
               /\ \A i \in Used : table[i].fid = f => \E t \in 1 .. Len(rows) : rows[t] = table[i]
<1> DEFINE C == {r \in Rows : r.fid = f}
           rows == RowsOf(f)
<1>1. MaxId \in Nat /\ table \in [1 .. MaxId -> Rows \cup {Hole}]
  BY Distinct DEF Types, Places
<1>2. rows \in Seq(C) /\ \E p : PlacesOf(p, Len(rows), MaxId, rows, table, C)
  BY <1>1, ChosenPlaces DEF RowsOf
<1> HIDE DEF rows
<1>3. Len(rows) \in Nat /\ rows \in [1 .. Len(rows) -> Rows]
  <2>1. Len(rows) \in Nat /\ rows \in [1 .. Len(rows) -> C]
    BY <1>2
  <2> QED BY <2>1
<1>4. ASSUME NEW i \in Used, table[i].fid = f PROVE \E t \in 1 .. Len(rows) : rows[t] = table[i]
  <2>1. i \in 1 .. MaxId /\ table[i] \in C
    BY <1>1, <1>4 DEF Used, Places
  <2>2. PICK p : PlacesOf(p, Len(rows), MaxId, rows, table, C)
    BY <1>2
  <2>3. PICK t \in 1 .. Len(rows) : p[t] = i
    BY <2>1, <2>2 DEF PlacesOf
  <2>4. table[p[t]] = rows[t]
    BY <2>2 DEF PlacesOf
  <2> QED BY <2>3, <2>4
<1> QED BY <1>3, <1>4 DEF rows

\* Without text in main there is no text.
LEMMA NoMainNoText ==
    ASSUME NEW n \in Nat, NEW rows \in [1 .. n -> Rows], RenderText(rows) # <<>>
    PROVE  Section(rows, Main) # <<>>
<1>1. Nodes(rows)[1] = Main
  BY NodesOrdered DEF Ordered
<1> QED BY <1>1 DEF RenderText

\* A row in main is in the text.
LEMMA MainIsRendered ==
    ASSUME NEW n \in Nat, NEW rows \in [1 .. n -> Rows], NEW j \in 1 .. n, rows[j].son = Main
    PROVE  Contains(RenderText(rows), Line(rows[j]))
<1> DEFINE secs == Nodes(rows)
           z == Section(rows, Main)
           zs == [i \in 1 .. Len(secs) |-> Section(rows, secs[i])]
           out == RenderText(rows)
<1>1. Ordered(secs, n, rows)
  BY NodesOrdered
<1>2. z \in Seq(Of(Main)) /\ \E p : PlacesOf(p, Len(z), n, z, rows, Of(Main))
  BY ChosenPlaces DEF Section, Of
<1>3. PICK t \in 1 .. Len(z) : z[t] = rows[j]
  <2> HIDE DEF z
  <2>1. PICK p : PlacesOf(p, Len(z), n, z, rows, Of(Main))
    BY <1>2
  <2>2. rows[j] \in Of(Main)
    BY DEF Of
  <2>3. PICK t \in 1 .. Len(z) : p[t] = j
    BY <2>1, <2>2 DEF PlacesOf
  <2>4. rows[p[t]] = z[t]
    BY <2>1 DEF PlacesOf
  <2> QED BY <2>3, <2>4
<1>4. z # <<>>
  BY <1>3
<1>5. PICK off : RenderedAs(out, secs, off, zs)
  BY <1>4, RenderFacts
<1>6. 1 \in 1 .. Len(secs) /\ zs[1] = z
  BY <1>1 DEF Ordered
<1> HIDE DEF secs, z, zs, out
<1>7. /\ off[1 - 1] + Heading(1) + t \in 1 .. Len(out)
      /\ out[off[1 - 1] + Heading(1) + t] = Line(zs[1][t])
  BY <1>3, <1>5, <1>6 DEF RenderedAs
<1>8. \E i \in 1 .. Len(out) : out[i] = Line(rows[j])
  BY <1>3, <1>6, <1>7
<1> QED BY <1>8 DEF Contains, out

\* While only text forms change a file, the text saved last is in one of its rows, and
\* each id behind a page's buttons is of a row that is there.
THEOREM TextsAreStored == Spec => []SavedKept
<1>1. Init => SavedKept
  BY SavedInit
<1>2. IInv /\ SavedKept /\ [Next]_vars => SavedKept'
  BY SavedStep
<1> QED BY <1>1, <1>2, Invariance, PTL DEF Spec

\* What set.php sends for a file that only text forms changed holds the text saved last,
\* whatever pages were open on it and in whatever order they inserted and answered.
THEOREM SavedTextsAreRendered == Spec => []SavedIsRendered
<1>1. ASSUME Types, SavedKept PROVE SavedIsRendered
  <2> SUFFICES ASSUME NEW f \in Files, saved[f] \in Vars, ~AsIni(name[f])
               PROVE  Contains(VeFileType(f), [nkey |-> NoKey, var |-> saved[f]])
    BY DEF SavedIsRendered
  <2> DEFINE rows == RowsOf(f)
             n == Len(rows)
  <2>1. saved[f] # Mixed
    BY Distinct
  <2>2. PICK i \in Used : /\ table[i].fid = f /\ table[i].nkey = NoKey
                          /\ table[i].var = saved[f] /\ table[i].son = Main
    BY <1>1, <2>1 DEF SavedKept, Stored
  <2>3. n \in Nat /\ rows \in [1 .. n -> Rows] /\ \E t \in 1 .. n : rows[t] = table[i]
    BY <1>1, <2>2, RowsOfFacts
  <2> HIDE DEF rows, n
  <2>4. PICK t \in 1 .. n : rows[t] = table[i]
    BY <2>3
  <2>5. Contains(RenderText(rows), Line(rows[t]))
    BY <2>2, <2>3, <2>4, MainIsRendered
  <2>6. Line(rows[t]) = [nkey |-> NoKey, var |-> saved[f]]
    BY <2>2, <2>4 DEF Line
  <2> QED BY <2>5, <2>6 DEF VeFileType, rows
<1>2. IInv => Types
  BY DEF IInv, TypeOK
<1> QED BY <1>1, <1>2, Invariance, TextsAreStored, PTL

\* Where the default rendering has text for main, no option of a file is lost, doubled or
\* under another section's header, however its rows came to lie in conf_tab.
THEOREM RenderingKeepsOptions == Spec => []RenderKeepsAll
<1>1. ASSUME Types PROVE RenderKeepsAll
  <2> SUFFICES ASSUME NEW f \in Files
               PROVE  LET rows == RowsOf(f)
                          out  == RenderText(rows)
                      IN  out # <<>> =>
                            /\ Section(rows, Main) # <<>>
                            /\ \A i \in 1 .. Len(rows) :
                                  Cardinality({j \in 1 .. Len(rows) : /\ Line(rows[j]) = Line(rows[i])
                                                                      /\ rows[j].son = rows[i].son})
                                  = Cardinality({j \in 1 .. Len(out) : /\ out[j] = Line(rows[i])
                                                                       /\ Under(out, j) = rows[i].son})
    BY DEF RenderKeepsAll
  <2> DEFINE rows == RowsOf(f)
             n == Len(rows)
  <2>1. n \in Nat /\ rows \in [1 .. n -> Rows]
    BY <1>1, RowsOfFacts
  <2> HIDE DEF rows
  <2>2. RenderText(rows) # <<>> => Section(rows, Main) # <<>>
    BY <2>1, NoMainNoText
  <2>3. ASSUME Section(rows, Main) # <<>>, NEW i \in 1 .. n
        PROVE  Cardinality({j \in 1 .. n : /\ Line(rows[j]) = Line(rows[i])
                                           /\ rows[j].son = rows[i].son})
               = Cardinality({j \in 1 .. Len(RenderText(rows)) :
                                 /\ RenderText(rows)[j] = Line(rows[i])
                                 /\ Under(RenderText(rows), j) = rows[i].son})
    BY <2>1, <2>3, KeepsAll
  <2> QED BY <2>2, <2>3 DEF rows
<1>2. IInv => Types
  BY DEF IInv, TypeOK
<1> QED BY <1>1, <1>2, Invariance, PTL
=============================================================================
