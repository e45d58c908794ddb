------------------------------ MODULE Imports ------------------------------
(***************************************************************************)
(* The imports of a curriculum (handlers_import.go,                        *)
(* handlers_import_plx.go).  A table of disciplines is merged into the     *)
(* items by name, row by row; a plan adds its items as a tree, after it    *)
(* has removed the old ones if it is asked to.  Either is one transaction  *)
(* at READ COMMITTED, and writes the schedule version after it.  Uploads   *)
(* and the requests of editors meet on one curriculum.                     *)
(*                                                                         *)
(* A statement is a step, but for those that nobody can tell from one: the *)
(* look for an item and the INSERT when it is not found, an item of a plan *)
(* and its hours, the three deletions.  A subject is its name, and looking *)
(* it up or creating it is no step.                                        *)
(***************************************************************************)
EXTENDS Values, Integers, FiniteSets, FiniteSetsExt, Sequences

CONSTANTS
  Importers,
  ItemNames,
  TableFiles,    \* sequences of rows [name, subject, course, semester, hours]
  PlanFiles,     \* [rows, weeks, replace], rows [kind, name, hours] with hours by semester;
                 \* weeks: there is a calendar; replace: the option of the request
  PlanChoices,   \* the items and hours that may exist at first
  EditorHours,   \* what editors set the hours of a semester to
  MaxPlanIds,    \* bound: ids of items
  MaxPlanWork    \* bound: uploads and requests of editors

VARIABLES
  itemRows,      \* curriculum_items [id, name, parent, subject]
  hourRows,      \* curriculum_item_allocations [item, semester, hours]
  calendarFrom,  \* the academic calendar of the year: whose it is, or None
  nextItem,
  upload,        \* of an importer, its next statement and what it has not committed
  others,        \* history: names that others changed during an upload
  planWork

importVars == <<itemRows, hourRows, calendarFrom, nextItem, upload, others, planWork>>

(* An empty file is refused.                                               *)
IsFile(rows) == rows \in Seq({rows[i] : i \in DOMAIN rows}) /\ rows # <<>>
IsItem(r) ==
  r = [id |-> r.id, name |-> r.name, parent |-> r.parent, subject |-> r.subject] /\ r.id \in Nat

ASSUME ImportConstants ==
  /\ None \notin Nat /\ None \notin Importers /\ None \notin PlanFiles
  /\ \A file \in TableFiles : IsFile(file)
  /\ \A plan \in PlanFiles :
       /\ IsFile(plan.rows) /\ plan.weeks \in BOOLEAN /\ plan.replace \in BOOLEAN
       /\ \A i \in DOMAIN plan.rows : plan.rows[i].kind \in {"root", "header", "counted"}
  /\ \A plan \in PlanChoices :
       /\ IsFiniteSet(plan.items)
       /\ \A r \in plan.items : IsItem(r) /\ \A o \in plan.items : r.id = o.id => r = o
       /\ \A h \in plan.hours : \E r \in plan.items : h.item = r.id

NoUpload ==
  [pc |-> "idle", plan |-> None, rows |-> <<>>, at |-> 1, found |-> None,
   items |-> {}, hours |-> {}, gone |-> {}, ids |-> <<>>, calendar |-> "kept"]

ImportInit ==
  /\ \E plan \in PlanChoices : itemRows = plan.items /\ hourRows = plan.hours
  /\ calendarFrom \in {None, "office"}
  /\ nextItem = 1 + Max({0} \cup {r.id : r \in itemRows})
  /\ upload = [p \in Importers |-> NoUpload]
  /\ others = [p \in Importers |-> {}]
  /\ planWork = 0

Ids(table) == {r.id : r \in table}
Titled(name, table) == {r \in table : r.name = name}
Oldest(table) == CHOOSE r \in table : \A o \in table : r.id <= o.id

(* Two of a kind: hours have a unique key.                                 *)
SameKey(h, k) == h.item = k.item /\ h.semester = k.semester
Put(new, table) == {h \in table : \A k \in new : ~SameKey(h, k)} \cup new

(* What a transaction sees: the committed rows and what it did itself.     *)
ItemsSeen(p) ==
  {r \in itemRows : r.id \notin upload[p].gone /\ r.id \notin Ids(upload[p].items)} \cup upload[p].items
HoursSeen(p) == Put(upload[p].hours, {h \in hourRows : h.item \notin upload[p].gone})

(* Items that others have locked, and those that they have referred to.    *)
RemovedBeside(p) == UNION {upload[q].gone : q \in Importers \ {p}}
WrittenBeside(p) == UNION {upload[q].items : q \in Importers \ {p}}
LockedBeside(p) == RemovedBeside(p) \cup Ids(WrittenBeside(p))
Removable(p, ids) == ids \cap (LockedBeside(p) \cup {r.parent : r \in WrittenBeside(p)}) = {}

(* A commit by someone else, noted by the uploads under way.               *)
NamesOf(ids) == {r.name : r \in {r \in itemRows : r.id \in ids \/ r.parent \in ids}}
NoteOthers(names, but) ==
  others' = [p \in Importers |-> IF p = but \/ upload[p].pc = "idle" THEN {} ELSE others[p] \cup names]

RowAt(p) == upload[p].rows[upload[p].at]
AtLast(p) == upload[p].at = Len(upload[p].rows)

BeginUpload(p, u) ==
  /\ upload[p].pc = "idle" /\ planWork < MaxPlanWork
  /\ upload' = [upload EXCEPT ![p] = u]
  /\ planWork' = planWork + 1
  /\ UNCHANGED <<itemRows, hourRows, calendarFrom, nextItem, others>>

GoesOn(p, u) ==
  /\ upload' = [upload EXCEPT ![p] = u]
  /\ UNCHANGED <<itemRows, hourRows, calendarFrom, others, planWork>>

-----------------------------------------------------------------------------
(* importCurriculumItems                                                   *)
BeginTable(p, file) == BeginUpload(p, [NoUpload EXCEPT !.pc = "find", !.rows = file])

(* A row whose semester is not of its course ends the import.              *)
Sensible(row) == row.course \in 1..6 /\ row.semester \in {2 * row.course - 1, 2 * row.course}

FindItem(p) ==
  LET row == RowAt(p)
      seen == Titled(row.name, ItemsSeen(p))
      new == [id |-> nextItem, name |-> row.name, parent |-> None, subject |-> row.subject]
  IN  /\ upload[p].pc = "find" /\ Sensible(row)
      /\ IF seen # {}
         THEN /\ GoesOn(p, [upload[p] EXCEPT !.pc = "save", !.found = Oldest(seen)])
              /\ UNCHANGED nextItem
         ELSE /\ nextItem <= MaxPlanIds
              /\ GoesOn(p, [upload[p] EXCEPT !.pc = "hours", !.found = new, !.items = @ \cup {new}])
              /\ nextItem' = nextItem + 1

(* gorm's Save: UPDATE by primary key, INSERT when no row matches.  The    *)
(* parent is looked up when it is not the one of the row.                  *)
SaveItem(p) ==
  LET item == [upload[p].found EXCEPT !.subject = RowAt(p).subject]
      same == {r \in ItemsSeen(p) : r.id = item.id}
  IN  /\ upload[p].pc = "save"
      /\ item.id \notin LockedBeside(p)
      /\ \/ item.parent = None \/ \E r \in same : r.parent = item.parent
         \/ item.parent \in Ids(ItemsSeen(p)) \ RemovedBeside(p)
      /\ GoesOn(p, [upload[p] EXCEPT !.pc = "hours", !.found = item,
                                   !.items = {r \in @ : r.id # item.id} \cup {item}])
      /\ UNCHANGED nextItem

\* Mutant: hours that are there already stay.
AllocateNew(p) ==
  LET h == [item |-> upload[p].found.id, semester |-> RowAt(p).semester, hours |-> RowAt(p).hours]
      new == IF \E k \in HoursSeen(p) : SameKey(h, k) THEN {} ELSE {h}
  IN  /\ upload[p].pc = "hours"
      /\ GoesOn(p, [upload[p] EXCEPT !.pc = IF AtLast(p) THEN "commit" ELSE "find", !.at = @ + 1,
                                   !.found = None, !.hours = Put(new, @)])
      /\ UNCHANGED nextItem

(* INSERT ... ON CONFLICT (item_id, semester) DO UPDATE                    *)
Allocate(p) ==
  LET h == [item |-> upload[p].found.id, semester |-> RowAt(p).semester, hours |-> RowAt(p).hours]
  IN  /\ upload[p].pc = "hours"
      /\ GoesOn(p, [upload[p] EXCEPT !.pc = IF AtLast(p) THEN "commit" ELSE "find", !.at = @ + 1,
                                   !.found = None, !.hours = Put({h}, @)])
      /\ UNCHANGED nextItem

-----------------------------------------------------------------------------
(* importPLXCurriculum.  The upsert of the curriculum keeps other plans    *)
(* out until the end of the transaction, but not tables or editors.        *)
BeginPlan(p, file) ==
  /\ \A q \in Importers : upload[q].plan # None => upload[q].pc = "announce"
  /\ BeginUpload(p, [NoUpload EXCEPT !.pc = IF file.replace THEN "clear" ELSE "create",
                                    !.plan = file, !.rows = file.rows])

Clears(p, rows) ==
  /\ upload[p].pc = "clear"
  /\ Removable(p, Ids(rows))
  /\ GoesOn(p, [upload[p] EXCEPT !.pc = "create", !.gone = Ids(rows),
                               !.calendar = IF calendarFrom = None THEN "kept" ELSE "removed"])
  /\ UNCHANGED nextItem

\* Mutant: what is below a root is left to the foreign key, which only forgets the root.
ClearRoots(p) == Clears(p, {r \in itemRows : r.parent = None})

(* clearPLXCurriculumData removes what is committed by now.                *)
Clear(p) == Clears(p, itemRows)

(* parsePLXPlanSheet: a root has no parent, a header is below the last     *)
(* root, and what is counted below the last header, root or not.           *)
LastOf(S) == IF S = {} THEN None ELSE Max(S)
ParentOf(rows, i) ==
  LET above(kinds) == {j \in 1..(i-1) : rows[j].kind \in kinds}
  IN  CASE rows[i].kind = "root" -> None
        [] rows[i].kind = "header" -> LastOf(above({"root"}))
        [] rows[i].kind = "counted" -> LastOf(above({"root", "header"}))

CreateItem(p) ==
  LET row == RowAt(p)
      parent == ParentOf(upload[p].rows, upload[p].at)
      item == [id |-> nextItem, name |-> row.name,
               parent |-> IF parent = None THEN None ELSE upload[p].ids[parent],
               subject |-> IF row.kind = "counted" THEN row.name ELSE None]
      hours == {[item |-> nextItem, semester |-> s, hours |-> row.hours[s]] : s \in DOMAIN row.hours}
  IN  /\ upload[p].pc = "create" /\ nextItem <= MaxPlanIds
      /\ GoesOn(p, [upload[p] EXCEPT !.pc = IF AtLast(p) THEN "calendar" ELSE "create", !.at = @ + 1,
                                   !.items = @ \cup {item}, !.hours = @ \cup hours,
                                   !.ids = Append(@, nextItem)])
      /\ nextItem' = nextItem + 1

(* A curriculum has one calendar for a year.                               *)
CreateCalendarRow(p) ==
  /\ upload[p].pc = "calendar"
  /\ upload[p].plan.weeks => upload[p].calendar = "removed" \/ calendarFrom = None
  /\ GoesOn(p, [upload[p] EXCEPT !.pc = "commit",
                               !.calendar = IF upload[p].plan.weeks THEN "made" ELSE @])
  /\ UNCHANGED nextItem

-----------------------------------------------------------------------------
CommitImport(p) ==
  /\ upload[p].pc = "commit"
  /\ itemRows' = ItemsSeen(p)
  /\ hourRows' = HoursSeen(p)
  /\ calendarFrom' = CASE upload[p].calendar = "kept" -> calendarFrom
                       [] upload[p].calendar = "removed" -> None
                       [] upload[p].calendar = "made" -> "plan"
  /\ NoteOthers({r.name : r \in upload[p].items} \cup NamesOf(upload[p].gone), p)
  /\ upload' = [upload EXCEPT ![p] = [NoUpload EXCEPT !.pc = "announce"]]
  /\ UNCHANGED <<nextItem, planWork>>

(* A row is refused, a key is there, a lock leads to a deadlock, or the    *)
(* server stops.                                                           *)
AbortImport(p) ==
  /\ upload[p].pc \notin {"idle", "announce"}
  /\ upload' = [upload EXCEPT ![p] = NoUpload]
  /\ others' = [others EXCEPT ![p] = {}]
  /\ UNCHANGED <<itemRows, hourRows, calendarFrom, nextItem, planWork>>

(* The schedule version is written, or that fails: see WeekCache.          *)
AnnounceImport(p) ==
  /\ upload[p].pc = "announce"
  /\ upload' = [upload EXCEPT ![p] = NoUpload]
  /\ UNCHANGED <<itemRows, hourRows, calendarFrom, nextItem, others, planWork>>

-----------------------------------------------------------------------------
(* Editors; CurriculumTables has more of them.                             *)
Edits(items, hours, names) ==
  /\ planWork < MaxPlanWork /\ planWork' = planWork + 1
  /\ itemRows' = items /\ hourRows' = hours
  /\ NoteOthers(names, None)
  /\ UNCHANGED <<calendarFrom, upload>>

Editor == None
AddItem(name, parent) ==
  /\ nextItem <= MaxPlanIds
  /\ parent \notin RemovedBeside(Editor)
  /\ Edits(itemRows \cup {[id |-> nextItem, name |-> name, parent |-> parent, subject |-> None]},
           hourRows, {name})
  /\ nextItem' = nextItem + 1

DropItem(r) ==
  /\ Removable(Editor, {o.id : o \in {o \in itemRows : o = r \/ o.parent = r.id}})
  /\ Edits({[o EXCEPT !.parent = IF @ = r.id THEN None ELSE @] : o \in itemRows \ {r}},
           {h \in hourRows : h.item # r.id}, NamesOf({r.id}))
  /\ UNCHANGED nextItem

SetHours(r, s, n) ==
  LET h == [item |-> r.id, semester |-> s, hours |-> n]
  IN  /\ r.id \notin RemovedBeside(Editor)
      /\ \A p \in Importers : \A k \in upload[p].hours : ~SameKey(h, k)
      /\ Edits(itemRows, Put({h}, hourRows), {r.name})
      /\ UNCHANGED nextItem

ImportNext ==
  \/ \E p \in Importers :
       \/ \E file \in TableFiles : BeginTable(p, file)
       \/ FindItem(p) \/ SaveItem(p) \/ Allocate(p)
       \/ \E file \in PlanFiles : BeginPlan(p, file)
       \/ Clear(p) \/ CreateItem(p) \/ CreateCalendarRow(p)
       \/ CommitImport(p) \/ AbortImport(p) \/ AnnounceImport(p)
  \/ \E name \in ItemNames, parent \in Ids(itemRows) \cup {None} : AddItem(name, parent)
  \/ \E r \in itemRows : DropItem(r) \/ \E s \in 1..2, n \in EditorHours : SetHours(r, s, n)

ImportSpec == ImportInit /\ [][ImportNext]_importVars

-----------------------------------------------------------------------------
HoursOf(id, table) == {<<h.semester, h.hours>> : h \in {h \in table : h.item = id}}

(* What an import of disciplines promises for a name that nobody else      *)
(* changed meanwhile.  Its oldest item, or a new one, has the subject of   *)
(* the last row of that name, and for each semester the hours of the last  *)
(* row of that name and semester; the hours of other semesters, the place  *)
(* of the item in the tree and all other items stay as they are.           *)
Merges(p, name) ==
  LET rows == upload[p].rows
      mine == {i \in DOMAIN rows : rows[i].name = name}
      said == {rows[i].semester : i \in mine}
      told == {<<s, rows[Max({i \in mine : rows[i].semester = s})].hours>> : s \in said}
      old == Titled(name, itemRows)
      new == Titled(name, itemRows')
      item == Oldest(new)
      was == IF old = {} THEN [item EXCEPT !.parent = None] ELSE Oldest(old)
      merged == IF mine = {} THEN {} ELSE {was}
  IN  /\ mine # {} =>
           /\ item = [was EXCEPT !.subject = rows[Max(mine)].subject]
           /\ HoursOf(item.id, hourRows') =
                {h \in HoursOf(was.id, hourRows) : h[1] \notin said} \cup told
      /\ old \ merged = {r \in new : r.id \notin Ids(merged)}
      /\ \A r \in old \ merged : HoursOf(r.id, hourRows') = HoursOf(r.id, hourRows)

MergeExact ==
  [][\A p \in Importers :
       upload[p].pc = "commit" /\ upload[p].plan = None /\ upload'[p].pc = "announce" =>
         \A name \in ItemNames \ others[p] : Merges(p, name)]_importVars

(* What a plan promises for a name that nobody else changed meanwhile: one *)
(* new item per row of that name, with the hours of the row, below an item *)
(* named like the row's header or root; the old ones are gone if they were *)
(* to be replaced and stay otherwise, and so is the calendar.              *)
Adds(p, name) ==
  LET plan == upload[p].plan
      mine == {i \in DOMAIN plan.rows : plan.rows[i].name = name}
      told(i) == {<<s, plan.rows[i].hours[s]>> : s \in DOMAIN plan.rows[i].hours}
      header(i) == LET up == ParentOf(plan.rows, i)
                   IN  IF up = None THEN None ELSE plan.rows[up].name
      above(r) == IF r.parent = None THEN None
                  ELSE (CHOOSE o \in itemRows' : o.id = r.parent).name
      kept == IF plan.replace THEN {} ELSE Titled(name, itemRows)
      new == Titled(name, itemRows') \ kept
  IN  /\ kept \subseteq itemRows'
      /\ Cardinality(new) = Cardinality(mine)
      /\ {<<above(r), HoursOf(r.id, hourRows')>> : r \in new} = {<<header(i), told(i)>> : i \in mine}

PlanExact ==
  [][\A p \in Importers :
       upload[p].pc = "commit" /\ upload[p].plan # None /\ upload'[p].pc = "announce" =>
         /\ \A name \in ItemNames \ others[p] : Adds(p, name)
         /\ calendarFrom' = IF upload[p].plan.weeks THEN "plan"
                            ELSE IF upload[p].plan.replace THEN None ELSE calendarFrom]_importVars
=============================================================================
