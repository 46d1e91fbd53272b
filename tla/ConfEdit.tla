------------------------------ MODULE ConfEdit ------------------------------
(***************************************************************************)
(* Editing the options of files (rows of conf_tab) and rendering them: the *)
(* pages of operators (HwConfig, HwSaveConf, HwConfSave, DelConfOption of  *)
(* hfwindex.js), the requests they send (confopt, choptions, deloption of  *)
(* modle.php) and the text set.php makes of a file's rows (VeFileType).    *)
(* What VeFileType returns is conf[f] of TaskPush.                         *)
(*                                                                         *)
(* A form and a rendering are each chosen by the file's name, by rules     *)
(* that differ: the page looks behind the first dot of the base name, in   *)
(* the case it is written in, set.php at the last four characters of the   *)
(* path.  Keys, values and sections are short enough for their columns,    *)
(* and equal where MySQL's collation holds them equal.                     *)
(***************************************************************************)
EXTENDS Integers, FiniteSets, SequencesExt

CONSTANTS
    Files,       \* rows of file_tab
    Pages,       \* pages operators have open
    Names,       \* names a file may have, of AllNames
    NKeys, Vars, \* keys typed into an options form, values
    NoKey,       \* the empty key; it may be typed too
    Sections,    \* names of sections
    Main,        \* the section of an option without one
    MaxId,       \* bound: ids handed out by conf_tab
    Hole,        \* a place in conf_tab's data file without a row
    Closed,      \* a page that shows no file
    NoAdd,       \* no insert waits for its select
    NoText, Mixed

AllNames == {"x.ini", "x.conf", "x.y.ini", "x.ini.bak"}

ASSUME Distinct ==
    /\ Names \subseteq AllNames
    /\ Main \in Sections
    /\ MaxId \in Nat \ {0}
    /\ {NoText, Mixed} \cap Vars = {}

Places  == 1 .. MaxId
Ids     == 1 .. MaxId
Fields  == [nkey : NKeys, var : Vars, son : Sections]
Rows    == [id : Ids, fid : Files, nkey : NKeys \cup {NoKey}, var : Vars, son : Sections]

ASSUME HoleIsNoRow == Hole \notin Rows

Opened  == [fid : Files, form : {"options", "text"}, ids : SUBSET Ids]

VARIABLES
    table,       \* table[i]: the row at place i, in the order a select meets them
    lastId,      \* auto_increment
    name,        \* name[f]: what file_tab.file ends with
    page,        \* page[p]: the file, the form, and the ids behind its buttons
    adding,      \* adding[p]: key and value of a row inserted and not yet selected
    saved        \* saved[f]: the last text a text form stored, or Mixed once an
                 \*   options form changed the file (history)

vars == <<table, lastId, name, page, adding, saved>>

Types ==
    /\ table  \in [Places -> Rows \cup {Hole}]
    /\ lastId \in 0 .. MaxId
    /\ name   \in [Files -> Names]
    /\ page   \in [Pages -> Opened \cup {Closed}]
    /\ adding \in [Pages -> [nkey : NKeys \cup {NoKey}, var : Vars] \cup {NoAdd}]
    /\ saved  \in [Files -> Vars \cup {NoText, Mixed}]

IdsDiffer == \A i, j \in Places : table[i] # Hole /\ table[j] # Hole /\ i # j
                                     => table[i].id # table[j].id

TextFormHasOne == \A p \in Pages : page[p] # Closed /\ page[p].form = "text"
                                      => Cardinality(page[p].ids) <= 1

TypeOK == Types /\ IdsDiffer /\ TextFormHasOne

Init ==
    /\ table  = [i \in Places |-> Hole] /\ lastId = 0
    /\ name   \in [Files -> Names]
    /\ page   = [p \in Pages |-> Closed]
    /\ adding = [p \in Pages |-> NoAdd]
    /\ saved  = [f \in Files |-> NoText]

----------------------------------------------------------------------------
(* Statements on conf_tab.                                                 *)

Used       == {i \in Places : table[i] # Hole}
IdsOf(f)   == {table[i].id : i \in {i \in Used : table[i].fid = f}}

\* The first place without a row behind all rows; a hole before it is left by a delete.
EndPlace == Max(Used \cup {0}) + 1

\* insert: a new id; the row goes to the end or into a hole.
Insert(f, r) ==
    /\ lastId < MaxId
    /\ lastId' = lastId + 1
    /\ \E i \in (1 .. EndPlace) \ Used :
          table' = [table EXCEPT ![i] = [id |-> lastId', fid |-> f, nkey |-> r.nkey,
                                         var |-> r.var, son |-> r.son]]

\* Variant with a bug: a row that is gone is stored again.
UpdateOrInsert(id, r) ==
    IF \E i \in Used : table[i].id = id
    THEN table' = [i \in Places |-> IF i \in Used /\ table[i].id = id
                                    THEN [id |-> id, fid |-> table[i].fid, nkey |-> r.nkey,
                                          var |-> r.var, son |-> r.son]
                                    ELSE table[i]]
    ELSE \E f \in Files, i \in (1 .. EndPlace) \ Used :
             table' = [table EXCEPT ![i] = [id |-> id, fid |-> f, nkey |-> r.nkey,
                                            var |-> r.var, son |-> r.son]]

\* update ... where id: of no row it is a success too.
Update(id, r) ==
    table' = [i \in Places |-> IF i \in Used /\ table[i].id = id
                               THEN [id |-> id, fid |-> table[i].fid, nkey |-> r.nkey,
                                     var |-> r.var, son |-> r.son]
                               ELSE table[i]]

Delete(id) == table' = [i \in Places |-> IF i \in Used /\ table[i].id = id
                                         THEN Hole ELSE table[i]]

\* Variant with a bug: the file is not asked for.
FirstTwinAnyFile(f, a) == {i \in Used : /\ table[i].nkey = a.nkey /\ table[i].var = a.var
                                        /\ \A j \in Used : table[j].nkey = a.nkey
                                              /\ table[j].var = a.var => i <= j}

\* select id ... where fid, nkey and var, limit 0,1: the first such place, if any.
FirstTwin(f, a) ==
    LET twins == {i \in Used : table[i].fid = f /\ table[i].nkey = a.nkey /\ table[i].var = a.var}
    IN  {i \in twins : \A j \in twins : i <= j}

----------------------------------------------------------------------------
(* Pages and their requests.                                               *)

Ready(p) == page[p] # Closed /\ adding[p] = NoAdd

Form(n) == IF n \in {"x.ini", "x.ini.bak"} THEN "options" ELSE "text"

\* Variant with a bug: a text form keeps the ids of all rows.
ShownAll(f) == IdsOf(f)

\* HwConfig: the options form lists all rows; the text form takes the first of a
\* list by descending id, and id 0, here no id, from an empty list.
Shown(f) == IF Form(name[f]) = "options" THEN IdsOf(f)
            ELSE {id \in IdsOf(f) : \A other \in IdsOf(f) : other <= id}

Open(p, f) ==
    /\ adding[p] = NoAdd
    /\ page' = [page EXCEPT ![p] = [fid |-> f, form |-> Form(name[f]), ids |-> Shown(f)]]
    /\ UNCHANGED <<table, lastId, name, adding, saved>>

\* HwSaveConf of a listed row.
SaveOption(p, id, r) ==
    /\ Ready(p) /\ page[p].form = "options" /\ id \in page[p].ids
    /\ Update(id, r)
    /\ saved' = [saved EXCEPT ![page[p].fid] = Mixed]
    /\ UNCHANGED <<lastId, name, page, adding>>

\* HwSaveConf(0), up to the insert.
AddOption(p, r) ==
    /\ Ready(p) /\ page[p].form = "options"
    /\ Insert(page[p].fid, r)
    /\ adding' = [adding EXCEPT ![p] = [nkey |-> r.nkey, var |-> r.var]]
    /\ saved'  = [saved EXCEPT ![page[p].fid] = Mixed]
    /\ UNCHANGED <<name, page>>

\* Variant with a bug: no section.
TextRowNowhere(v) == [nkey |-> NoKey, var |-> v, son |-> CHOOSE s \in Sections : s # Main]

\* HwConfSave sends no key and no section; Chopts makes the section Main.
TextRow(v) == [nkey |-> NoKey, var |-> v, son |-> Main]

\* HwConfSave with an id, and without one up to the insert.
SaveText(p, v) ==
    /\ Ready(p) /\ page[p].form = "text"
    /\ \/ /\ page[p].ids = {}
          /\ Insert(page[p].fid, TextRow(v))
          /\ adding' = [adding EXCEPT ![p] = [nkey |-> NoKey, var |-> v]]
       \/ /\ \E id \in page[p].ids : Update(id, TextRow(v))
          /\ UNCHANGED <<lastId, adding>>
    /\ saved' = [saved EXCEPT ![page[p].fid] = IF @ = Mixed THEN Mixed ELSE v]
    /\ UNCHANGED <<name, page>>

\* The rest of an insert: the select and the answer.  An options form lists the id it
\* is told; a text form keeps none, so the next save is an insert again.
\* Without an id the answer is "cherror-addsql".
Answer(p) ==
    /\ adding[p] # NoAdd
    /\ adding' = [adding EXCEPT ![p] = NoAdd]
    /\ page' = [page EXCEPT ![p].ids =
                  IF page[p].form = "text" THEN @
                  ELSE @ \cup {table[i].id : i \in FirstTwin(page[p].fid, adding[p])}]
    /\ UNCHANGED <<table, lastId, name, saved>>

DelOption(p, id) ==
    /\ Ready(p) /\ page[p].form = "options" /\ id \in page[p].ids
    /\ Delete(id)
    /\ page'  = [page EXCEPT ![p].ids = @ \ {id}]
    /\ saved' = [saved EXCEPT ![page[p].fid] = Mixed]
    /\ UNCHANGED <<lastId, name, adding>>

\* CheConf of an existing file: another path.  Pages keep their form.
CheConf(f, n) ==
    /\ name' = [name EXCEPT ![f] = n]
    /\ UNCHANGED <<table, lastId, page, adding, saved>>

Next ==
    \/ \E p \in Pages : \/ \E f \in Files : Open(p, f)
                        \/ \E id \in Ids : \/ \E r \in Fields : SaveOption(p, id, r)
                                           \/ DelOption(p, id)
                        \/ \E r \in Fields : AddOption(p, r)
                        \/ \E v \in Vars : SaveText(p, v)
                        \/ Answer(p)
    \/ \E f \in Files, n \in Names : CheConf(f, n)

Spec == Init /\ [][Next]_vars

----------------------------------------------------------------------------
(* VeFileType.  A text is a sequence of lines.                             *)

\* The rows that are in S, in their order: a loop over rows with a condition.
Chosen(rows, S) == FoldLeft(LAMBDA rs, r : IF r \in S THEN Append(rs, r) ELSE rs, <<>>, rows)

RowsOf(f) == Chosen(table, {r \in Rows : r.fid = f})

Line(r)   == [nkey |-> r.nkey, var |-> r.var]
Header(s) == [head |-> s]
Lines(rows) == [i \in 1 .. Len(rows) |-> Line(rows[i])]

\* $Nodes for a file: its sections by first row, main before them.
InOrder(secs, r) == IF \E i \in 1 .. Len(secs) : secs[i] = r.son THEN secs ELSE Append(secs, r.son)

\* Variant with a bug: main is where its first row is.
NodesByRow(rows) == FoldLeft(InOrder, <<>>, rows)

Nodes(rows) == FoldLeft(InOrder, <<Main>>, rows)

Section(rows, s) == Chosen(rows, {r \in Rows : r.son = s})

\* The loop over $Nodes ends at the first section without text, which can only be main.
RenderText(rows) ==
    LET secs == Nodes(rows)
        part(s) == (IF s = Main THEN <<>> ELSE <<Header(s)>>) \o Lines(Section(rows, s))
    IN  IF Section(rows, secs[1]) = <<>> THEN <<>>
        ELSE FlattenSeq([i \in 1 .. Len(secs) |-> part(secs[i])])

RenderIni(rows) == Lines(Chosen(rows, {r \in Rows : r.nkey # NoKey}))

AsIni(n) == n \in {"x.ini", "x.y.ini"}

VeFileType(f) == IF AsIni(name[f]) THEN RenderIni(RowsOf(f)) ELSE RenderText(RowsOf(f))

----------------------------------------------------------------------------
\* The ids behind a page's buttons are of rows of its file, or of rows that are gone:
\* an id that Chopts found by content is not another file's, so a save or a delete,
\* which name the id alone, stay within the file the operator has open.
PagesListOwnFile ==
    \A p \in Pages : page[p] # Closed =>
        \A i \in Used : table[i].id \in page[p].ids => table[i].fid = page[p].fid

\* An option one operator deleted does not come back by another's save, and an id is
\* not used twice.
DeletedStaysDeleted ==
    [][\A i \in Places : table'[i] # Hole =>
           table'[i].id > lastId \/ \E j \in Used : table[j].id = table'[i].id]_vars

\* A file only text forms have changed is rendered with the text saved last, unless it
\* is rendered as .ini: each of them ends in the row it shows or in a new one, with the
\* section VeFileType starts with.
SavedIsRendered ==
    \A f \in Files : saved[f] \in Vars /\ ~AsIni(name[f]) =>
        Contains(VeFileType(f), [nkey |-> NoKey, var |-> saved[f]])

\* Where the default rendering has text for main, it holds each option of the file as
\* often as conf_tab does, under the header of its section.
Under(out, i) ==
    LET heads == {j \in 1 .. i : "head" \in DOMAIN out[j]}
    IN  IF heads = {} THEN Main ELSE out[Max(heads)].head

RenderKeepsAll ==
    \A f \in Files :
        LET rows == RowsOf(f)
            out  == RenderText(rows)
        IN  out # <<>> =>
              /\ Section(rows, Main) # <<>>
              /\ \A i \in 1 .. Len(rows) :
                    Cardinality({j \in 1 .. Len(rows) : /\ Line(rows[j]) = Line(rows[i])
                                                        /\ rows[j].son = rows[i].son})
                    = Cardinality({j \in 1 .. Len(out) : /\ out[j] = Line(rows[i])
                                                         /\ Under(out, j) = rows[i].son})
============================================================================
