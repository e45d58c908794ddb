------------------------ MODULE StudyCalendar_proofs ------------------------
(***************************************************************************)
(* For any number of admins and readers, any bodies and any number of      *)
(* days: the rows keep what no index of the database keeps, and a reader   *)
(* nothing disturbed shows what the tables promise.                        *)
(***************************************************************************)
EXTENDS StudyCalendar, FiniteSetTheorems, TLAPS

(* Days, bodies and rows. *)

LEMMA Mondays ==
    ASSUME NEW d \in Day
    PROVE  /\ Monday(d) \in Day /\ Monday(Monday(d)) = Monday(d)
           /\ d - Monday(d) \in 0 .. 6
<1>1. LastDay \in Nat BY ConstantsOK
<1> QED BY <1>1 DEF Day, Monday

\* A later day is in the same week or a later one.
LEMMA MondaysGrow ==
    ASSUME NEW d \in Day, NEW e \in Day, d <= e
    PROVE  Monday(d) <= Monday(e)
<1>1. LastDay \in Nat BY ConstantsOK
<1> QED BY <1>1 DEF Day, Monday

LEMMA Bodies ==
    ASSUME NEW r \in Requests
    PROVE  /\ r.op = "calendar" => r.start \in Day
           /\ r.op = "weeks" => r.cal \in Id /\ r.rows \in Seq(WeekBody)
           /\ r.op = "add" => r.cal \in Id /\ r.patch \in Patch
           /\ r.op = "update" => r.id \in Id /\ r.patch \in Patch
           /\ r.op = "study" => r.rows \in Seq(StudyBody)
           /\ r.op = "group" => r.group \in Group
<1>1. r \in Request BY ConstantsOK
<1> QED BY <1>1 DEF Request

LEMMA Activities ==
    ASSUME NEW a \in AnyActivity, a.code # None
    PROVE  a \in Activity
BY DEF AnyActivity, Activity

LEMMA StoredRow ==
    ASSUME NEW r \in Requests, r.op = "weeks", NEW i \in 1 .. Len(r.rows),
           CourseOf(r.rows[i]) \in Course, r.rows[i].number \in Number,
           r.rows[i].act.code # None
    PROVE  /\ Stored(r, i) \in Week /\ Stored(r, i).cal = r.cal
           /\ Monday(Stored(r, i).start) = Stored(r, i).start
<1>1. r.cal \in Id /\ r.rows \in Seq(WeekBody) BY Bodies
<1>2. r.rows[i] \in WeekBody BY <1>1
<1>3. r.rows[i].start \in Day /\ r.rows[i].act \in AnyActivity BY <1>2 DEF WeekBody
<1>4. r.rows[i].act \in Activity BY <1>3, Activities
<1>5. Monday(r.rows[i].start) \in Day /\ Monday(Monday(r.rows[i].start)) = Monday(r.rows[i].start)
  BY <1>3, Mondays
<1>6. Stored(r, i) \in Week BY <1>1, <1>4, <1>5 DEF Stored, Week
<1>7. Stored(r, i).cal = r.cal /\ Stored(r, i).start = Monday(r.rows[i].start)
  BY DEF Stored
<1> QED BY <1>5, <1>6, <1>7

\* ON CONFLICT keeps the key of the weeks unique.
LEMMA UpsertedKeys ==
    ASSUME NEW r, NEW n \in Nat,
           \A v, w \in weeks : WeekKey(v) = WeekKey(w) => v = w
    PROVE  \A v, w \in Upserted(r, n) : WeekKey(v) = WeekKey(w) => v = w
<1> DEFINE Kept == {w \in weeks : \A j \in 1 .. n : WeekKey(w) # WeekKey(Stored(r, j))}
           Last == {k \in 1 .. n : \A l \in k + 1 .. n : WeekKey(Stored(r, l)) # WeekKey(Stored(r, k))}
<1>1. Upserted(r, n) = Kept \cup {Stored(r, j) : j \in Last} BY DEF Upserted
<1>2. ASSUME NEW j \in Last, NEW k \in Last, WeekKey(Stored(r, j)) = WeekKey(Stored(r, k))
      PROVE  j = k
  <2>1. j \in 1 .. n /\ k \in 1 .. n OBVIOUS
  <2>2. ~(j < k)
    <3>1. j < k => k \in j + 1 .. n BY <2>1
    <3> QED BY <1>2, <3>1
  <2>3. ~(k < j)
    <3>1. k < j => j \in k + 1 .. n BY <2>1
    <3> QED BY <1>2, <3>1
  <2> QED BY <2>1, <2>2, <2>3
<1>3. \A w \in Kept : \A j \in Last : WeekKey(w) # WeekKey(Stored(r, j)) OBVIOUS
<1>4. \A w \in Kept : w \in weeks OBVIOUS
<1> HIDE DEF Kept, Last
<1>5. SUFFICES ASSUME NEW v \in Upserted(r, n), NEW w \in Upserted(r, n), WeekKey(v) = WeekKey(w)
               PROVE  v = w
  OBVIOUS
<1>6. CASE v \in Kept /\ w \in Kept BY <1>4, <1>5, <1>6
<1>7. CASE v \in Kept /\ w \notin Kept
  <2>1. PICK k \in Last : w = Stored(r, k) BY <1>1, <1>7
  <2> QED BY <1>3, <1>5, <1>7, <2>1
<1>8. CASE v \notin Kept /\ w \in Kept
  <2>1. PICK k \in Last : v = Stored(r, k) BY <1>1, <1>8
  <2>2. WeekKey(w) = WeekKey(Stored(r, k)) BY <1>5, <2>1
  <2> QED BY <1>3, <1>8, <2>2
<1>9. CASE v \notin Kept /\ w \notin Kept
  <2>1. PICK j \in Last, k \in Last : v = Stored(r, j) /\ w = Stored(r, k) BY <1>1, <1>9
  <2> QED BY <1>2, <1>5, <2>1
<1> QED BY <1>6, <1>7, <1>8, <1>9

-----------------------------------------------------------------------------
(* The initial states. *)

LEMMA InitHolds == Init => IInv
<1> SUFFICES ASSUME Init PROVE IInv OBVIOUS
<1>1. Cardinality(InitCalendars) \in Nat BY ConstantsOK, FS_CardinalityType
<1>2. Nothing \in [Day -> State \cup {None}] BY DEF Nothing
<1>3. TypeOK
  <2>1. calendars \subseteq Calendar /\ weeks \subseteq Week /\ overrides \subseteq Override
        /\ study \subseteq Study /\ group \in Group
    BY ConstantsOK DEF Init
  <2>2. nextCalendar \in Id /\ nextOverride \in Id BY <1>1 DEF Init, Id
  <2>3. dataVersion \in Nat /\ muted \in BOOLEAN /\ sent \in Nat BY DEF Init
  <2>4. /\ pc \in [Admin -> {"idle", "again", "save", "bump"}]
        /\ req \in [Admin -> Requests \cup {None}] /\ found \in [Admin -> Override \cup {None}]
    BY DEF Init
  <2>5. /\ rpc \in [Reader -> {"idle", "group", "calendar", "fallback", "weeks", "days", "study", "answer"}]
        /\ asked \in [Reader -> Ranges \cup {None}] /\ version \in [Reader -> Nat]
        /\ year \in [Reader -> Nat \cup {None}] /\ calendar \in [Reader -> Id \cup {None}]
        /\ plan \in [Reader -> SUBSET Week]
    BY DEF Init
  <2>6. out \in [Reader -> [Day -> State \cup {None}]] BY <1>2 DEF Init
  <2> QED BY <2>1, <2>2, <2>3, <2>4, <2>5, <2>6 DEF TypeOK, TablesTyped, AdminsTyped, ReadersTyped
<1>4. RowsDistinct BY DEF Init, RowsDistinct, UniqueStarts
<1>5. IdsDrawn BY DEF Init, IdsDrawn
<1>6. RowsHaveCalendars BY DEF Init, RowsHaveCalendars
<1>7. ReadersFollow BY DEF Init, ReadersFollow, Follows
<1> QED BY <1>3, <1>4, <1>5, <1>6, <1>7 DEF IInv

-----------------------------------------------------------------------------
(* The requests of an admin. *)

\* The part of the invariant that is about the tables.
Tables == RowsDistinct /\ RowsHaveCalendars

LEMMA CommitTypes ==
    ASSUME TypeOK, NEW a \in Admin, NEW op, NEW r \in Requests, Commits(a, op, r)
    PROVE  AdminsTyped' /\ ReadersTyped'
<1>1. AdminsTyped' BY DEF Commits, TypeOK, AdminsTyped
<1>2. ReadersTyped' BY DEF Commits, TypeOK, ReadersTyped, readers
<1> QED BY <1>1, <1>2

LEMMA CommitDrawn ==
    ASSUME TypeOK, IdsDrawn, NEW a \in Admin, NEW op, NEW r \in Requests, Commits(a, op, r),
           nextOverride' \in Nat, nextOverride <= nextOverride',
           \A o \in overrides' : o.id < nextOverride'
    PROVE  IdsDrawn'
<1> SUFFICES ASSUME NEW b \in Admin, pc'[b] \in {"again", "save"}
             PROVE  (/\ found[b] \in Override /\ req[b] \in Requests
                     /\ req[b].op = "update" /\ ValidPatch(req[b].patch)
                     /\ req[b].id < nextOverride)'
  BY DEF IdsDrawn, ValidPatch
<1>1. b # a /\ pc[b] \in {"again", "save"} BY DEF Commits, TypeOK, AdminsTyped
<1>2. /\ found[b] \in Override /\ req[b] \in Requests /\ req[b].op = "update" /\ ValidPatch(req[b].patch)
      /\ req[b].id < nextOverride
  BY <1>1 DEF IdsDrawn
<1>3. req[b].id \in Nat /\ nextOverride \in Nat BY <1>2, Bodies DEF TypeOK, TablesTyped, Id
<1> QED BY <1>2, <1>3 DEF Commits, ValidPatch

LEMMA StepCreateCalendar ==
    ASSUME TypeOK, IdsDrawn, Tables, NEW a \in Admin, CreateCalendar(a)
    PROVE  TypeOK' /\ IdsDrawn' /\ Tables'
<1>1. PICK r \in Requests :
        /\ Commits(a, "calendar", r)
        /\ calendars' = calendars \cup {[id |-> nextCalendar, start |-> r.start]}
        /\ nextCalendar' = nextCalendar + 1
        /\ UNCHANGED <<weeks, overrides, study, group, nextOverride>>
  BY DEF CreateCalendar
<1>2. r.start \in Day BY <1>1, Bodies DEF Commits
<1>3. TablesTyped'
  <2>1. [id |-> nextCalendar, start |-> r.start] \in Calendar
    BY <1>2 DEF TypeOK, TablesTyped, Calendar
  <2>2. nextCalendar + 1 \in Id BY DEF TypeOK, TablesTyped, Id
  <2> QED BY <1>1, <2>1, <2>2 DEF TypeOK, TablesTyped
<1>4. TypeOK' BY <1>1, <1>3, CommitTypes DEF TypeOK
<1>5. IdsDrawn' BY <1>1, CommitDrawn DEF TypeOK, TablesTyped, Id, IdsDrawn
<1>6. RowsDistinct' BY <1>1 DEF Tables, RowsDistinct, UniqueStarts, WeekKey, Place
<1>7. RowsHaveCalendars' BY <1>1 DEF Tables, RowsHaveCalendars, CalendarExists
<1> QED BY <1>4, <1>5, <1>6, <1>7 DEF Tables

LEMMA StepDeleteCalendar ==
    ASSUME TypeOK, IdsDrawn, Tables, NEW a \in Admin, DeleteCalendar(a)
    PROVE  TypeOK' /\ IdsDrawn' /\ Tables'
<1>1. PICK r \in Requests :
        /\ Commits(a, "drop", r)
        /\ calendars' = {c \in calendars : c.id # r.cal}
        /\ weeks' = {w \in weeks : w.cal # r.cal}
        /\ overrides' = {o \in overrides : o.cal # r.cal}
        /\ UNCHANGED <<study, group, nextCalendar, nextOverride>>
  BY DEF DeleteCalendar
<1>2. TablesTyped' BY <1>1 DEF TypeOK, TablesTyped
<1>3. TypeOK' BY <1>1, <1>2, CommitTypes DEF TypeOK
<1>4. IdsDrawn' BY <1>1, CommitDrawn DEF TypeOK, TablesTyped, Id, IdsDrawn
<1>5. RowsDistinct' BY <1>1 DEF Tables, RowsDistinct, UniqueStarts, WeekKey, Place
<1>6. RowsHaveCalendars' BY <1>1 DEF Tables, RowsHaveCalendars, CalendarExists
<1> QED BY <1>3, <1>4, <1>5, <1>6 DEF Tables

LEMMA StepUpsertWeeks ==
    ASSUME TypeOK, IdsDrawn, Tables, NEW a \in Admin, UpsertWeeks(a)
    PROVE  TypeOK' /\ IdsDrawn' /\ Tables'
<1>1. PICK r \in Requests :
        /\ Commits(a, "weeks", r)
        /\ r.rows # << >> => CalendarExists(r.cal)
        /\ \A i \in 1 .. Len(r.rows) :
              /\ CourseOf(r.rows[i]) \in Course /\ r.rows[i].number \in Number
              /\ r.rows[i].act.code # None
              /\ UniqueStarts(Upserted(r, i))
        /\ weeks' = Upserted(r, Len(r.rows))
        /\ UNCHANGED <<calendars, overrides, study, group, nextCalendar, nextOverride>>
  BY DEF UpsertWeeks
<1> DEFINE n == Len(r.rows)
<1>2. r.op = "weeks" /\ r.cal \in Id /\ r.rows \in Seq(WeekBody) BY <1>1, Bodies DEF Commits
<1>3. n \in Nat BY <1>2
<1>4. \A i \in 1 .. n : /\ Stored(r, i) \in Week /\ Stored(r, i).cal = r.cal
                        /\ Monday(Stored(r, i).start) = Stored(r, i).start
  BY <1>1, <1>2, StoredRow
<1>5. \A w \in weeks' : w \in weeks \/ \E i \in 1 .. n : w = Stored(r, i)
  BY <1>1 DEF Upserted
<1>6. weeks' \subseteq Week BY <1>4, <1>5 DEF TypeOK, TablesTyped
<1>7. TypeOK'
  <2>1. TablesTyped' BY <1>1, <1>6 DEF TypeOK, TablesTyped
  <2> QED BY <1>1, <2>1, CommitTypes DEF TypeOK
<1>8. IdsDrawn' BY <1>1, CommitDrawn DEF TypeOK, TablesTyped, Id, IdsDrawn
<1>9. RowsDistinct'
  <2>1. UniqueStarts(weeks')
    <3>1. CASE n = 0
      <4>1. \A w \in weeks' : w \in weeks BY <1>5, <3>1
      <4> QED BY <4>1 DEF Tables, RowsDistinct, UniqueStarts
    <3>2. CASE n # 0 BY <1>1, <1>3, <3>2
    <3> QED BY <3>1, <3>2
  <2>2. \A v, w \in weeks' : WeekKey(v) = WeekKey(w) => v = w
    BY <1>1, <1>3, UpsertedKeys DEF Tables, RowsDistinct
  <2>3. \A w \in weeks' : Monday(w.start) = w.start BY <1>4, <1>5 DEF Tables, RowsDistinct
  <2> QED BY <1>1, <2>1, <2>2, <2>3 DEF Tables, RowsDistinct, UniqueStarts, WeekKey, Place
<1>10. RowsHaveCalendars'
  <2>1. ASSUME NEW i \in 1 .. n PROVE CalendarExists(r.cal)
    <3>1. r.rows # << >> BY <1>2, <2>1
    <3> QED BY <1>1, <3>1
  <2>2. \A w \in weeks' : CalendarExists(w.cal)
    BY <1>4, <1>5, <2>1 DEF Tables, RowsHaveCalendars
  <2> QED BY <1>1, <2>2 DEF Tables, RowsHaveCalendars, CalendarExists
<1> QED BY <1>7, <1>8, <1>9, <1>10 DEF Tables

LEMMA RowTypes ==
    ASSUME NEW id \in Id, NEW cal \in Id, NEW p \in Patch, ValidPatch(p)
    PROVE  LET o == OverrideRow(id, cal, p)
           IN  /\ o \in Override /\ Inserted(o) \in Override
               /\ o.id = id /\ o.cal = cal
               /\ Inserted(o).id = id /\ Inserted(o).cal = cal /\ Place(Inserted(o)) = Place(o)
<1>1. p.act \in Activity BY Activities DEF Patch, ValidPatch
<1>2. [p.act EXCEPT !.teaches = TRUE] \in Activity BY <1>1 DEF Activity
<1>3. OverrideRow(id, cal, p) \in Override BY <1>1 DEF OverrideRow, Override, ValidPatch
<1>4. Inserted(OverrideRow(id, cal, p)) \in Override BY <1>2, <1>3 DEF OverrideRow, Override, Inserted
<1> QED BY <1>3, <1>4 DEF OverrideRow, Inserted, Place, Override

\* An override in a free place leaves ids and places unique.
LEMMA PlacedRow ==
    ASSUME Tables, NEW o, Storable(o),
           overrides' = {p \in overrides : p.id # o.id} \cup {o},
           UNCHANGED <<calendars, weeks, study>>
    PROVE  Tables'
<1>1. ASSUME NEW p \in overrides, p.id # o.id PROVE Place(p) # Place(o)
  BY <1>1 DEF Storable
<1>2. \A p, q \in overrides' : p.id = q.id \/ Place(p) = Place(q) => p = q
  BY <1>1 DEF Tables, RowsDistinct
<1>3. RowsDistinct' BY <1>2 DEF Tables, RowsDistinct, UniqueStarts, WeekKey, Place
<1>4. RowsHaveCalendars' BY DEF Tables, RowsHaveCalendars, CalendarExists, Storable
<1> QED BY <1>3, <1>4 DEF Tables

LEMMA StepCreateOverride ==
    ASSUME TypeOK, IdsDrawn, Tables, NEW a \in Admin, CreateOverride(a)
    PROVE  TypeOK' /\ IdsDrawn' /\ Tables'
<1>1. PICK r \in Requests :
        /\ Commits(a, "add", r) /\ ValidPatch(r.patch)
        /\ Storable(Inserted(OverrideRow(nextOverride, r.cal, r.patch)))
        /\ overrides' = overrides \cup {Inserted(OverrideRow(nextOverride, r.cal, r.patch))}
        /\ nextOverride' = nextOverride + 1
        /\ UNCHANGED <<calendars, weeks, study, group, nextCalendar>>
  BY DEF CreateOverride
<1> DEFINE o == Inserted(OverrideRow(nextOverride, r.cal, r.patch))
<1>2. o \in Override /\ o.id = nextOverride
  BY <1>1, Bodies, RowTypes DEF Commits, TypeOK, TablesTyped
<1>3. nextOverride \in Nat /\ \A p \in overrides : p \in Override /\ p.id \in Nat /\ p.id < nextOverride
  BY DEF TypeOK, TablesTyped, IdsDrawn, Override, Id
<1> HIDE DEF o
<1>4. TypeOK'
  <2>1. nextOverride + 1 \in Id BY DEF TypeOK, TablesTyped, Id
  <2>2. overrides' \subseteq Override BY <1>1, <1>2 DEF o, TypeOK, TablesTyped
  <2>3. TablesTyped' BY <1>1, <2>1, <2>2 DEF TypeOK, TablesTyped
  <2> QED BY <1>1, <2>3, CommitTypes DEF TypeOK
<1>5. IdsDrawn'
  <2>1. \A p \in overrides' : p.id < nextOverride + 1 BY <1>1, <1>2, <1>3 DEF o
  <2> QED BY <1>1, <1>3, <2>1, CommitDrawn
<1>6. overrides' = {p \in overrides : p.id # o.id} \cup {o} BY <1>1, <1>2, <1>3 DEF o
<1>7. Storable(o) BY <1>1 DEF o
<1> QED BY <1>1, <1>4, <1>5, <1>6, <1>7, PlacedRow

LEMMA StepFindOverride ==
    ASSUME TypeOK, IdsDrawn, Tables, NEW a \in Admin, FindOverride(a)
    PROVE  TypeOK' /\ IdsDrawn' /\ Tables'
<1>1. PICK r \in Requests, o \in overrides :
        /\ pc[a] = "idle" /\ r.op = "update" /\ r.id = o.id /\ ValidPatch(r.patch)
        /\ found' = [found EXCEPT ![a] = o]
        /\ req' = [req EXCEPT ![a] = r]
        /\ pc' = [pc EXCEPT ![a] = "again"]
        /\ sent' = sent + 1
        /\ UNCHANGED <<tables, dataVersion, muted, readers>>
  BY DEF FindOverride
<1>2. TypeOK'
  <2>1. TablesTyped' BY <1>1 DEF TypeOK, TablesTyped, tables
  <2>2. AdminsTyped' BY <1>1 DEF TypeOK, AdminsTyped, TablesTyped
  <2>3. ReadersTyped' BY <1>1 DEF TypeOK, ReadersTyped, readers
  <2> QED BY <2>1, <2>2, <2>3 DEF TypeOK
<1>3. IdsDrawn'
  <2>1. o \in Override BY DEF TypeOK, TablesTyped
  <2> QED BY <1>1, <2>1 DEF IdsDrawn, tables, TypeOK, AdminsTyped, ValidPatch
<1>4. Tables' BY <1>1 DEF Tables, RowsDistinct, UniqueStarts, WeekKey, Place, RowsHaveCalendars, CalendarExists, tables
<1> QED BY <1>2, <1>3, <1>4

\* A request that ends keeps nothing; the others keep theirs.
LEMMA EndKeeps ==
    ASSUME TypeOK, IdsDrawn, NEW a \in Admin, Ends(a),
           nextOverride' = nextOverride, overrides' = overrides,
           dataVersion' \in Nat, muted' \in BOOLEAN, sent' = sent
    PROVE  AdminsTyped' /\ IdsDrawn'
<1>1. AdminsTyped' BY DEF Ends, TypeOK, AdminsTyped
<1>2. IdsDrawn' BY DEF Ends, TypeOK, AdminsTyped, IdsDrawn, ValidPatch
<1> QED BY <1>1, <1>2

LEMMA StepFindAgain ==
    ASSUME TypeOK, IdsDrawn, Tables, NEW a \in Admin, FindAgain(a)
    PROVE  TypeOK' /\ IdsDrawn' /\ Tables'
<1>1. UNCHANGED <<tables, dataVersion, muted, sent, readers>> /\ pc[a] = "again" BY DEF FindAgain
<1>2. TablesTyped' BY <1>1 DEF TypeOK, TablesTyped, tables
<1>3. ReadersTyped' BY <1>1 DEF TypeOK, ReadersTyped, readers
<1>4. AdminsTyped' /\ IdsDrawn'
  <2>1. CASE Ends(a) BY <1>1, <2>1, EndKeeps DEF tables, TypeOK, AdminsTyped
  <2>2. CASE pc' = [pc EXCEPT ![a] = "save"] /\ UNCHANGED <<req, found>>
    <3>1. AdminsTyped' BY <1>1, <2>2 DEF TypeOK, AdminsTyped
    <3>2. IdsDrawn' BY <1>1, <2>2 DEF TypeOK, AdminsTyped, IdsDrawn, tables, ValidPatch
    <3> QED BY <3>1, <3>2
  <2> QED BY <2>1, <2>2 DEF FindAgain
<1>5. Tables' BY <1>1 DEF Tables, RowsDistinct, UniqueStarts, WeekKey, Place, RowsHaveCalendars, CalendarExists, tables
<1> QED BY <1>2, <1>3, <1>4, <1>5 DEF TypeOK

LEMMA StepSaveOverride ==
    ASSUME TypeOK, IdsDrawn, Tables, NEW a \in Admin, SaveOverride(a)
    PROVE  TypeOK' /\ IdsDrawn' /\ Tables'
<1>1. /\ pc[a] = "save"
      /\ UNCHANGED <<calendars, weeks, study, group, nextCalendar, nextOverride,
                     dataVersion, muted, sent, readers>>
  BY DEF SaveOverride
<1>2. ReadersTyped' BY <1>1 DEF TypeOK, ReadersTyped, readers
<1>3. CASE Ends(a) /\ UNCHANGED overrides
  <2>1. TablesTyped' BY <1>1, <1>3 DEF TypeOK, TablesTyped
  <2>2. AdminsTyped' /\ IdsDrawn' BY <1>1, <1>3, EndKeeps DEF TypeOK, AdminsTyped
  <2>3. Tables' BY <1>1, <1>3 DEF Tables, RowsDistinct, UniqueStarts, WeekKey, Place, RowsHaveCalendars, CalendarExists
  <2> QED BY <1>2, <2>1, <2>2, <2>3 DEF TypeOK
<1>4. CASE /\ Storable(Resaved(a))
           /\ overrides' = {p \in overrides : p.id # req[a].id} \cup {Resaved(a)}
           /\ pc' = [pc EXCEPT ![a] = "bump"]
           /\ UNCHANGED <<req, found>>
  <2>1. /\ found[a] \in Override /\ req[a] \in Requests /\ req[a].op = "update"
        /\ ValidPatch(req[a].patch) /\ req[a].id < nextOverride
    BY <1>1 DEF IdsDrawn
  <2>2. found[a].cal \in Id /\ req[a].id \in Id /\ req[a].patch \in Patch
    BY <2>1, Bodies DEF Override
  <2>3. Resaved(a) \in Override /\ Resaved(a).id = req[a].id
    BY <2>1, <2>2, RowTypes DEF Resaved
  <2>4. TablesTyped' BY <1>1, <1>4, <2>3 DEF TypeOK, TablesTyped
  <2>5. AdminsTyped' BY <1>1, <1>4 DEF TypeOK, AdminsTyped
  <2>6. IdsDrawn'
    <3>1. \A o \in overrides' : o.id < nextOverride' BY <1>1, <1>4, <2>1, <2>3 DEF IdsDrawn
    <3> QED BY <1>1, <1>4, <3>1 DEF IdsDrawn, TypeOK, AdminsTyped, ValidPatch
  <2>7. overrides' = {p \in overrides : p.id # Resaved(a).id} \cup {Resaved(a)} BY <1>4, <2>3
  <2>8. Tables' BY <1>1, <1>4, <2>7, PlacedRow
  <2> QED BY <1>2, <2>4, <2>5, <2>6, <2>8 DEF TypeOK
<1> QED BY <1>3, <1>4 DEF SaveOverride

LEMMA StepDeleteOverride ==
    ASSUME TypeOK, IdsDrawn, Tables, NEW a \in Admin, DeleteOverride(a)
    PROVE  TypeOK' /\ IdsDrawn' /\ Tables'
<1>1. PICK r \in Requests :
        /\ Commits(a, "remove", r)
        /\ overrides' = {o \in overrides : o.id # r.id}
        /\ UNCHANGED <<calendars, weeks, study, group, nextCalendar, nextOverride>>
  BY DEF DeleteOverride
<1>2. TablesTyped' BY <1>1 DEF TypeOK, TablesTyped
<1>3. TypeOK' BY <1>1, <1>2, CommitTypes DEF TypeOK
<1>4. IdsDrawn' BY <1>1, CommitDrawn DEF TypeOK, TablesTyped, Id, IdsDrawn
<1>5. Tables' BY <1>1 DEF Tables, RowsDistinct, UniqueStarts, WeekKey, Place, RowsHaveCalendars, CalendarExists
<1> QED BY <1>3, <1>4, <1>5

LEMMA StoredStudyRow ==
    ASSUME NEW b \in StudyBody, b.number \in Number
    PROVE  /\ StoredStudy(b) \in Study
           /\ StoredStudy(b).start = None \/ Monday(StoredStudy(b).start) = StoredStudy(b).start
<1> DEFINE s == IF b.start = None THEN None ELSE Monday(b.start)
<1>1. s \in Day \cup {None} /\ (s = None \/ Monday(s) = s) BY Mondays DEF StudyBody
<1>2. StoredStudy(b) = [b EXCEPT !.start = s] BY DEF StoredStudy
<1> HIDE DEF s
<1>3. StoredStudy(b) \in Study /\ StoredStudy(b).start = s BY <1>1, <1>2 DEF StudyBody, Study
<1> QED BY <1>1, <1>3

LEMMA StepUpsertStudyWeeks ==
    ASSUME TypeOK, IdsDrawn, Tables, NEW a \in Admin, UpsertStudyWeeks(a)
    PROVE  TypeOK' /\ IdsDrawn' /\ Tables'
<1>1. PICK r \in Requests :
        /\ Commits(a, "study", r)
        /\ \A i \in 1 .. Len(r.rows) : r.rows[i].number \in Number
        /\ \A s \in study' : s \in study \/ \E i \in 1 .. Len(r.rows) : s = StoredStudy(r.rows[i])
        /\ UNCHANGED <<calendars, weeks, overrides, group, nextCalendar, nextOverride>>
  BY DEF UpsertStudyWeeks
<1>2. r.rows \in Seq(StudyBody) BY <1>1, Bodies DEF Commits
<1>3. \A i \in 1 .. Len(r.rows) :
        LET s == StoredStudy(r.rows[i])
        IN  s \in Study /\ (s.start = None \/ Monday(s.start) = s.start)
  BY <1>1, <1>2, StoredStudyRow
<1>4. TablesTyped' BY <1>1, <1>3 DEF TypeOK, TablesTyped
<1>5. TypeOK' BY <1>1, <1>4, CommitTypes DEF TypeOK
<1>6. IdsDrawn' BY <1>1, CommitDrawn DEF TypeOK, TablesTyped, Id, IdsDrawn
<1>7. \A s \in study' : s.start = None \/ Monday(s.start) = s.start
  BY <1>1, <1>3 DEF Tables, RowsDistinct
<1>8. Tables' BY <1>1, <1>7 DEF Tables, RowsDistinct, UniqueStarts, WeekKey, Place, RowsHaveCalendars, CalendarExists
<1> QED BY <1>5, <1>6, <1>8

LEMMA StepDeleteStudyWeek ==
    ASSUME TypeOK, IdsDrawn, Tables, NEW a \in Admin, DeleteStudyWeek(a)
    PROVE  TypeOK' /\ IdsDrawn' /\ Tables'
<1>1. PICK r \in Requests :
        /\ Commits(a, "unstudy", r)
        /\ study' \subseteq study
        /\ UNCHANGED <<calendars, weeks, overrides, group, nextCalendar, nextOverride>>
  BY DEF DeleteStudyWeek
<1>2. TablesTyped' BY <1>1 DEF TypeOK, TablesTyped
<1>3. TypeOK' BY <1>1, <1>2, CommitTypes DEF TypeOK
<1>4. IdsDrawn' BY <1>1, CommitDrawn DEF TypeOK, TablesTyped, Id, IdsDrawn
<1>5. Tables' BY <1>1 DEF Tables, RowsDistinct, UniqueStarts, WeekKey, Place, RowsHaveCalendars, CalendarExists
<1> QED BY <1>3, <1>4, <1>5

LEMMA StepChangeGroup ==
    ASSUME TypeOK, IdsDrawn, Tables, NEW a \in Admin, ChangeGroup(a)
    PROVE  TypeOK' /\ IdsDrawn' /\ Tables'
<1>1. PICK r \in Requests :
        /\ Commits(a, "group", r)
        /\ group' = [planned |-> group.planned \/ r.group.planned,
                     year |-> IF r.group.year = None THEN group.year ELSE r.group.year]
        /\ UNCHANGED <<calendars, weeks, overrides, study, nextCalendar, nextOverride>>
  BY DEF ChangeGroup
<1>2. r.group \in Group /\ group \in Group BY <1>1, Bodies DEF Commits, TypeOK, TablesTyped
<1>3. (group.planned \/ r.group.planned) \in BOOLEAN OBVIOUS
<1>4. (IF r.group.year = None THEN group.year ELSE r.group.year) \in Nat \cup {None}
  BY <1>2 DEF Group
<1>5. group' \in Group BY <1>1, <1>3, <1>4, Zenon DEF Group
<1>6. TablesTyped' BY <1>1, <1>5 DEF TypeOK, TablesTyped
<1>7. TypeOK' BY <1>1, <1>6, CommitTypes DEF TypeOK
<1>8. IdsDrawn' BY <1>1, CommitDrawn DEF TypeOK, TablesTyped, Id, IdsDrawn
<1>9. Tables' BY <1>1 DEF Tables, RowsDistinct, UniqueStarts, WeekKey, Place, RowsHaveCalendars, CalendarExists
<1> QED BY <1>7, <1>8, <1>9

LEMMA StepBump ==
    ASSUME TypeOK, IdsDrawn, Tables, NEW a \in Admin, Bump(a)
    PROVE  TypeOK' /\ IdsDrawn' /\ Tables'
<1>1. Ends(a) /\ UNCHANGED <<tables, sent, readers>> BY DEF Bump
<1>2. dataVersion' \in Nat /\ muted' \in BOOLEAN
  <2>1. dataVersion \in Nat /\ muted \in BOOLEAN BY DEF TypeOK, AdminsTyped
  <2>2. \/ dataVersion' = dataVersion + 1 /\ muted' = muted
        \/ muted' = TRUE /\ dataVersion' = dataVersion
    BY DEF Bump
  <2>3. dataVersion' \in Nat BY <2>1, <2>2
  <2>4. muted' \in BOOLEAN BY <2>1, <2>2, Zenon
  <2> QED BY <2>3, <2>4
<1>3. AdminsTyped' /\ IdsDrawn' BY <1>1, <1>2, EndKeeps DEF tables
<1>4. TablesTyped' BY <1>1 DEF TypeOK, TablesTyped, tables
<1>5. ReadersTyped' BY <1>1 DEF TypeOK, ReadersTyped, readers
<1>6. Tables' BY <1>1 DEF Tables, RowsDistinct, UniqueStarts, WeekKey, Place, RowsHaveCalendars, CalendarExists, tables
<1> QED BY <1>3, <1>4, <1>5, <1>6 DEF TypeOK

LEMMA WriteStep ==
    ASSUME TypeOK, IdsDrawn, Tables, NEW a \in Admin, Write(a)
    PROVE  TypeOK' /\ IdsDrawn' /\ Tables'
BY StepCreateCalendar, StepDeleteCalendar, StepUpsertWeeks, StepCreateOverride,
   StepFindOverride, StepFindAgain, StepSaveOverride, StepDeleteOverride,
   StepUpsertStudyWeeks, StepDeleteStudyWeek, StepChangeGroup, StepBump DEF Write

-----------------------------------------------------------------------------
(* The SELECTs of a reader. *)

\* What Overwritten builds is typed, and is one of the choices Over names.
LEMMA Overwriting ==
    ASSUME NEW old \in [Day -> State \cup {None}], NEW rows, NEW source \in Source,
           \A d \in Day : \A row \in rows[d] : row.act \in AnyActivity,
           NEW new \in Overwritten(old, rows, source)
    PROVE  /\ new \in [Day -> State \cup {None}]
           /\ \A below : Within(old, below) => Within(new, Over(below, rows, source))
<1> DEFINE hit == {d \in Day : rows[d] # {}}
<1>1. PICK last \in [hit -> UNION {rows[d] : d \in hit}] :
        /\ \A d \in hit : last[d] \in rows[d]
        /\ new = [d \in Day |-> IF d \in hit THEN [act |-> last[d].act, source |-> source] ELSE old[d]]
  BY DEF Overwritten
<1>2. new \in [Day -> State \cup {None}]
  <2>1. ASSUME NEW d \in hit PROVE [act |-> last[d].act, source |-> source] \in State
    BY <1>1 DEF State
  <2> QED BY <1>1, <2>1
<1>3. ASSUME NEW below, Within(old, below), NEW d \in Day
      PROVE  new[d] \in Over(below, rows, source)[d]
  <2>1. CASE d \in hit
    <3>1. new[d] = [act |-> last[d].act, source |-> source] /\ last[d] \in rows[d] BY <1>1, <2>1
    <3>2. Over(below, rows, source)[d] = {[act |-> row.act, source |-> source] : row \in rows[d]}
      BY <2>1 DEF Over
    <3> QED BY <3>1, <3>2
  <2>2. CASE d \notin hit
    <3>1. new[d] = old[d] BY <1>1, <2>2
    <3>2. Over(below, rows, source)[d] = below[d] BY <2>2 DEF Over
    <3> QED BY <1>3, <3>1, <3>2 DEF Within
  <2> QED BY <2>1, <2>2
<1> QED BY <1>2, <1>3 DEF Within

\* The rows of the three SELECTs carry activities.
LEMMA RowActs ==
    ASSUME TypeOK, NEW ws \in SUBSET Week, NEW cal, NEW p, NEW d \in Day
    PROVE  /\ \A row \in WeekRows(ws)[d] : row.act \in AnyActivity
           /\ \A row \in OverrideRows(cal, p)[d] : row.act \in AnyActivity
           /\ \A row \in StudyRows(ws, p)[d] : row.act \in AnyActivity
<1>1. Activity \subseteq AnyActivity BY DEF Activity, AnyActivity
<1>2. \A row \in WeekRows(ws)[d] : row \in Week BY DEF WeekRows, Highest, WeeksOn
<1>3. \A row \in OverrideRows(cal, p)[d] : row \in Override
  BY DEF OverrideRows, OverridesOn, TypeOK, TablesTyped
<1>4. \A row \in StudyRows(ws, p)[d] : row \in Study
  BY DEF StudyRows, TypeOK, TablesTyped
<1>5. \A w \in Week : w.act \in AnyActivity BY <1>1 DEF Week
<1>6. \A o \in Override : o.act \in AnyActivity BY <1>1 DEF Override
<1>7. \A s \in Study : s.act \in AnyActivity BY DEF Study
<1> QED BY <1>2, <1>3, <1>4, <1>5, <1>6, <1>7

LEMMA ReadStill ==
    ASSUME NEW r \in Reader, Read(r)
    PROVE  UNCHANGED unread
<1> USE DEF unread
<1> QED BY DEF Read, Ask, ReadGroup, ReadCalendar, ReadFallback, TakeLatest, ReadWeeks,
          ReadOverrides, ReadStudy, Answer

LEMMA ReadTypes ==
    ASSUME TypeOK, NEW r \in Reader, Read(r)
    PROVE  ReadersTyped'
<1> USE DEF RGoto
<1>1. /\ ReadersTyped /\ out[r] \in [Day -> State \cup {None}] /\ plan[r] \in SUBSET Week
      /\ calendar[r] \in Id \cup {None} /\ asked[r] \in Ranges \cup {None}
  BY DEF TypeOK, ReadersTyped
<1>2. Nothing \in [Day -> State \cup {None}] BY DEF Nothing
<1>3. CASE Ask(r)
  <2>1. dataVersion \in Nat BY DEF TypeOK, AdminsTyped
  <2> QED BY <1>1, <1>2, <1>3, <2>1 DEF Ask, ReadersTyped
<1>4. CASE ReadGroup(r)
  <2>1. group.year \in Nat \cup {None} BY DEF TypeOK, TablesTyped, Group
  <2> QED BY <1>1, <1>4, <2>1 DEF ReadGroup, ReadersTyped
<1>5. ASSUME NEW cs \in SUBSET calendars, NEW l \in {"fallback", "study"}, TakeLatest(r, cs, l)
      PROVE  ReadersTyped'
  <2>1. \A c \in Latest(cs) : c.id \in Id BY DEF Latest, TypeOK, TablesTyped, Calendar
  <2>2. CASE cs = {} /\ RGoto(r, l) /\ UNCHANGED calendar
    BY <1>1, <1>5, <2>2 DEF TakeLatest, ReadersTyped
  <2>3. CASE /\ \E c \in Latest(cs) : calendar' = [calendar EXCEPT ![r] = c.id]
             /\ RGoto(r, "weeks")
    <3>1. PICK c \in Latest(cs) : calendar' = [calendar EXCEPT ![r] = c.id] BY <2>3
    <3>2. c.id \in Id BY <2>1
    <3> QED BY <1>1, <1>5, <2>3, <3>1, <3>2 DEF TakeLatest, ReadersTyped
  <2> QED BY <1>5, <2>2, <2>3 DEF TakeLatest
<1>6. \A y, d : InYear(y) \subseteq calendars /\ Until(d) \subseteq calendars BY DEF InYear, Until
<1>7. CASE ReadCalendar(r) BY <1>5, <1>6, <1>7 DEF ReadCalendar
<1>8. CASE ReadFallback(r) BY <1>5, <1>6, <1>8 DEF ReadFallback
<1>9. CASE ReadWeeks(r)
  <2>1. PlanIn(calendar[r], asked[r]) \in SUBSET Week BY DEF PlanIn, TypeOK, TablesTyped
  <2>2. PICK new \in Overwritten(out[r], WeekRows(PlanIn(calendar[r], asked[r])), "academic_week") :
          out' = [out EXCEPT ![r] = new]
    BY <1>9 DEF ReadWeeks
  <2>3. new \in [Day -> State \cup {None}] BY <1>1, <2>1, <2>2, RowActs, Overwriting DEF Source
  <2> QED BY <1>1, <1>9, <2>1, <2>2, <2>3 DEF ReadWeeks, ReadersTyped
<1>10. CASE ReadOverrides(r)
  <2>1. PICK new \in Overwritten(out[r], OverrideRows(calendar[r], asked[r]), "academic_day_override") :
          out' = [out EXCEPT ![r] = new]
    BY <1>10 DEF ReadOverrides
  <2>2. new \in [Day -> State \cup {None}] BY <1>1, <2>1, RowActs, Overwriting DEF Source
  <2> QED BY <1>1, <1>10, <2>1, <2>2 DEF ReadOverrides, ReadersTyped
<1>11. CASE ReadStudy(r)
  <2>1. PICK new \in Overwritten(out[r], StudyRows(plan[r], asked[r]), "study_week") :
          out' = [out EXCEPT ![r] = new]
    BY <1>11 DEF ReadStudy
  <2>2. new \in [Day -> State \cup {None}] BY <1>1, <2>1, RowActs, Overwriting DEF Source
  <2> QED BY <1>1, <1>11, <2>1, <2>2 DEF ReadStudy, ReadersTyped
<1>12. CASE Answer(r) BY <1>1, <1>2, <1>12 DEF Answer, ReadersTyped
<1> QED BY <1>3, <1>4, <1>7, <1>8, <1>9, <1>10, <1>11, <1>12 DEF Read

LEMMA ReadStep ==
    ASSUME TypeOK, IdsDrawn, Tables, NEW r \in Reader, Read(r)
    PROVE  TypeOK' /\ IdsDrawn' /\ Tables'
<1>1. UNCHANGED unread BY ReadStill
<1>2. TablesTyped' /\ AdminsTyped' BY <1>1 DEF TypeOK, TablesTyped, AdminsTyped, unread, tables, admins
<1>3. TypeOK' BY <1>2, ReadTypes DEF TypeOK
<1>4. IdsDrawn' BY <1>1 DEF IdsDrawn, unread, tables, admins, ValidPatch
<1>5. Tables' BY <1>1 DEF Tables, RowsDistinct, UniqueStarts, WeekKey, Place, RowsHaveCalendars, CalendarExists, unread, tables
<1> QED BY <1>3, <1>4, <1>5

-----------------------------------------------------------------------------
(* What a reader nothing disturbed has. *)

\* What the tables say of a period stays when they do.
LEMMA SameTables ==
    ASSUME UNCHANGED tables, NEW CONSTANT cal, NEW CONSTANT p, NEW CONSTANT y
    PROVE  /\ InYear(y)' = InYear(y) /\ Until(y)' = Until(y)
           /\ PlanIn(cal, p)' = PlanIn(cal, p)
           /\ OverrideRows(cal, p)' = OverrideRows(cal, p)
           /\ StudyRows(cal, p)' = StudyRows(cal, p)
<1>1. InYear(y)' = InYear(y) /\ Until(y)' = Until(y) BY DEF InYear, Until, tables
<1>2. PlanIn(cal, p)' = PlanIn(cal, p) BY DEF PlanIn, tables
<1>3. ASSUME NEW CONSTANT d PROVE OverridesOn(cal, d)' = OverridesOn(cal, d)
  BY DEF OverridesOn, FallsOn, tables
<1>4. OverrideRows(cal, p)' = OverrideRows(cal, p) BY <1>3 DEF OverrideRows
<1>5. StudyRows(cal, p)' = StudyRows(cal, p) BY DEF StudyRows, tables, Starts
<1> QED BY <1>1, <1>2, <1>4, <1>5

LEMMA SamePromise ==
    ASSUME UNCHANGED tables, NEW CONSTANT cal, NEW CONSTANT p
    PROVE  /\ CalendarsFor(p)' = CalendarsFor(p)
           /\ ByWeeks(cal, p)' = ByWeeks(cal, p)
           /\ ByDays(cal, p)' = ByDays(cal, p)
           /\ ByStudy(cal, p)' = ByStudy(cal, p)
<1>1. CalendarsFor(p)' = CalendarsFor(p) BY SameTables DEF CalendarsFor, Latest, tables
<1>2. ByWeeks(cal, p)' = ByWeeks(cal, p) BY SameTables DEF ByWeeks, tables
<1>3. ByDays(cal, p)' = ByDays(cal, p) BY <1>2, SameTables DEF ByDays, tables
<1>4. ByStudy(cal, p)' = ByStudy(cal, p) BY <1>3, SameTables DEF ByStudy, tables
<1> QED BY <1>1, <1>2, <1>3, <1>4

LEMMA FollowsStill ==
    ASSUME NEW r \in Reader, Follows(r), UNCHANGED tables,
           rpc'[r] = rpc[r], asked'[r] = asked[r], year'[r] = year[r],
           calendar'[r] = calendar[r], plan'[r] = plan[r], out'[r] = out[r]
    PROVE  Follows(r)'
<1> DEFINE c == calendar[r]
           p == asked[r]
<1>1. /\ CalendarsFor(p)' = CalendarsFor(p) /\ PlanIn(c, p)' = PlanIn(c, p)
      /\ ByWeeks(c, p)' = ByWeeks(c, p) /\ ByDays(c, p)' = ByDays(c, p) /\ ByStudy(c, p)' = ByStudy(c, p)
  BY SameTables, SamePromise
<1> QED BY <1>1 DEF Follows, tables, InYear, Nothing, Within

\* A change that is under way, or was announced, disturbs every reader.
LEMMA WriteFollows ==
    ASSUME TypeOK, ReadersFollow, NEW a \in Admin, Write(a)
    PROVE  ReadersFollow'
<1> USE DEF TypeOK, AdminsTyped
<1>1. UNCHANGED readers /\ dataVersion' \in Nat /\ dataVersion <= dataVersion'
  <2>1. ASSUME NEW op, NEW r, Commits(a, op, r) PROVE UNCHANGED readers /\ dataVersion' = dataVersion
    BY <2>1 DEF Commits
  <2>2. CASE Bump(a) BY <2>2 DEF Bump
  <2>3. CASE FindOverride(a) \/ FindAgain(a) \/ SaveOverride(a)
    BY <2>3 DEF FindOverride, FindAgain, SaveOverride
  <2>4. dataVersion \in Nat OBVIOUS
  <2> QED BY <2>1, <2>2, <2>3, <2>4
          DEF Write, CreateCalendar, DeleteCalendar, UpsertWeeks, CreateOverride, DeleteOverride,
              UpsertStudyWeeks, DeleteStudyWeek, ChangeGroup
<1> SUFFICES ASSUME NEW r \in Reader
             PROVE  /\ version'[r] <= dataVersion'
                    /\ rpc'[r] # "idle" => asked'[r] \in Ranges
                    /\ Settled(r)' => Follows(r)'
  BY DEF ReadersFollow
<1>2. version[r] <= dataVersion /\ version[r] \in Nat /\ (rpc[r] # "idle" => asked[r] \in Ranges)
  BY DEF ReadersFollow, ReadersTyped
<1>3. ASSUME Settled(r)' PROVE Settled(r) /\ UNCHANGED tables
  <2>0. /\ version'[r] = dataVersion' /\ ~muted' /\ pc'[a] # "bump"
        /\ \A b \in Admin : pc'[b] # "bump"
    BY <1>3 DEF Settled
  <2>1. ASSUME NEW op, NEW q, Commits(a, op, q) PROVE FALSE
    BY <2>0, <2>1 DEF Commits
  <2>2. CASE Bump(a)
    <3>1. version[r] = dataVersion' /\ dataVersion' = dataVersion + 1
      BY <1>1, <2>0, <2>2 DEF Bump, readers
    <3> QED BY <1>2, <3>1
  <2>3. ASSUME /\ UNCHANGED <<tables, dataVersion, muted>>
               /\ \E l \in {"idle", "again", "save"} : pc' = [pc EXCEPT ![a] = l]
               /\ pc[a] # "bump"
        PROVE  Settled(r) /\ UNCHANGED tables
    <3>1. version[r] = dataVersion /\ ~muted BY <1>1, <2>0, <2>3 DEF readers
    <3>2. \A b \in Admin : pc[b] # "bump" BY <2>0, <2>3
    <3> QED BY <2>3, <3>1, <3>2 DEF Settled
  <2>4. CASE FindOverride(a) BY <2>3, <2>4 DEF FindOverride
  <2>5. CASE FindAgain(a) BY <2>3, <2>5 DEF FindAgain, Ends
  <2>6. CASE SaveOverride(a)
    <3>1. ~(pc' = [pc EXCEPT ![a] = "bump"]) BY <2>0
    <3>2. Ends(a) /\ UNCHANGED overrides BY <2>6, <3>1 DEF SaveOverride
    <3> QED BY <2>3, <2>6, <3>2 DEF SaveOverride, Ends, tables
  <2> QED BY <2>1, <2>2, <2>4, <2>5, <2>6
          DEF Write, CreateCalendar, DeleteCalendar, UpsertWeeks, CreateOverride, DeleteOverride,
              UpsertStudyWeeks, DeleteStudyWeek, ChangeGroup
<1>4. ASSUME Settled(r)' PROVE Follows(r)'
  <2>1. Settled(r) /\ Follows(r) /\ UNCHANGED tables BY <1>3, <1>4 DEF ReadersFollow
  <2> QED BY <1>1, <2>1, FollowsStill DEF readers
<1> QED BY <1>1, <1>2, <1>4 DEF readers

\* Without a calendar there are no weeks and no overrides.
LEMMA NoCalendar ==
    ASSUME TypeOK, NEW p
    PROVE  PlanIn(None, p) = {} /\ Within(Nothing, ByDays(None, p))
<1>1. None \notin Id BY ConstantsOK DEF Id
<1>2. PlanIn(None, p) = {} BY <1>1 DEF PlanIn, TypeOK, TablesTyped, Week
<1>3. \A d \in Day : OverrideRows(None, p)[d] = {}
  BY <1>1 DEF OverrideRows, OverridesOn, TypeOK, TablesTyped, Override
<1>4. \A d \in Day : WeekRows({})[d] = {} BY DEF WeekRows, Highest, WeeksOn
<1>5. \A d \in Day : ByWeeks(None, p)[d] = {None} BY <1>2, <1>4 DEF ByWeeks, Over
<1>6. \A d \in Day : ByDays(None, p)[d] = {None} BY <1>3, <1>5 DEF ByDays, Over
<1> QED BY <1>2, <1>6 DEF Within, Nothing

\* A reader that has chosen its calendar, told by the tables before the step.
LEMMA FollowsNow ==
    ASSUME NEW r \in Reader, UNCHANGED tables, NEW CONSTANT c, NEW CONSTANT p,
           calendar'[r] = c, asked'[r] = p, c \in CalendarsFor(p),
           \/ rpc'[r] = "weeks" /\ out'[r] = Nothing
           \/ /\ plan'[r] = PlanIn(c, p)
              /\ \/ rpc'[r] = "days" /\ Within(out'[r], ByWeeks(c, p))
                 \/ rpc'[r] = "study" /\ Within(out'[r], ByDays(c, p))
                 \/ rpc'[r] = "answer" /\ Within(out'[r], ByStudy(c, p))
    PROVE  Follows(r)'
<1>1. /\ CalendarsFor(p)' = CalendarsFor(p) /\ PlanIn(c, p)' = PlanIn(c, p)
      /\ ByWeeks(c, p)' = ByWeeks(c, p) /\ ByDays(c, p)' = ByDays(c, p) /\ ByStudy(c, p)' = ByStudy(c, p)
  BY SameTables, SamePromise
<1> QED BY <1>1 DEF Follows, Nothing, Within

\* ORDER BY start DESC LIMIT 1 takes a calendar the tables allow.
LEMMA TakeFollows ==
    ASSUME TypeOK, NEW r \in Reader, Follows(r), rpc[r] \in {"calendar", "fallback"},
           NEW cs, NEW l, TakeLatest(r, cs, l),
           cs # {} => CalendarsFor(asked[r]) = {c.id : c \in Latest(cs)},
           cs = {} => \/ l = "study" /\ CalendarsFor(asked[r]) = {None}
                      \/ l = "fallback" /\ year[r] # None /\ cs = InYear(year[r])
    PROVE  Follows(r)'
<1>1. /\ UNCHANGED <<unread, asked, version, year, plan, out>>
      /\ group.planned /\ year[r] = group.year
      /\ calendar[r] = None /\ plan[r] = {} /\ out[r] = Nothing
  BY DEF TakeLatest, Follows
<1>2. CASE cs = {} /\ RGoto(r, l) /\ UNCHANGED calendar
  <2>1. rpc'[r] = l BY <1>2 DEF RGoto, TypeOK, ReadersTyped
  <2>2. CASE l = "study"
    <3>1. None \in CalendarsFor(asked[r]) BY <1>2, <2>2
    <3>2. plan'[r] = PlanIn(None, asked[r]) /\ Within(out'[r], ByDays(None, asked[r]))
      BY <1>1, NoCalendar
    <3> QED BY <1>1, <1>2, <2>1, <2>2, <3>1, <3>2, FollowsNow DEF unread, tables
  <2>3. CASE l = "fallback" /\ year[r] # None /\ cs = InYear(year[r])
    <3>1. InYear(year[r])' = InYear(year[r]) BY <1>1 DEF InYear, unread, tables
    <3> QED BY <1>1, <1>2, <2>1, <2>3, <3>1 DEF Follows, unread, tables, Nothing
  <2> QED BY <1>2, <2>2, <2>3
<1>3. CASE /\ \E c \in Latest(cs) : calendar' = [calendar EXCEPT ![r] = c.id]
           /\ RGoto(r, "weeks")
  <2>1. PICK c \in Latest(cs) : calendar' = [calendar EXCEPT ![r] = c.id] BY <1>3
  <2>2. cs # {} BY <2>1 DEF Latest
  <2>3. c.id \in CalendarsFor(asked[r]) BY <2>1, <2>2
  <2>4. rpc'[r] = "weeks" /\ calendar'[r] = c.id BY <1>3, <2>1 DEF RGoto, TypeOK, ReadersTyped
  <2> QED BY <1>1, <2>3, <2>4, FollowsNow DEF unread, tables
<1> QED BY <1>2, <1>3 DEF TakeLatest

LEMMA ReadFollows ==
    ASSUME TypeOK, ReadersFollow, NEW r \in Reader, Read(r)
    PROVE  ReadersFollow'
<1>1. UNCHANGED unread BY ReadStill
<1>2. /\ Settled(r) => Follows(r)
      /\ version[r] \in Nat /\ version[r] <= dataVersion /\ dataVersion \in Nat
      /\ rpc[r] # "idle" => asked[r] \in Ranges
      /\ calendar[r] \in Id \cup {None} /\ plan[r] \in SUBSET Week /\ out[r] \in [Day -> State \cup {None}]
  BY DEF ReadersFollow, TypeOK, ReadersTyped, AdminsTyped
<1>3. ASSUME NEW q \in Reader \ {r}
      PROVE  /\ rpc'[q] = rpc[q] /\ asked'[q] = asked[q] /\ year'[q] = year[q] /\ version'[q] = version[q]
             /\ calendar'[q] = calendar[q] /\ plan'[q] = plan[q] /\ out'[q] = out[q]
  BY DEF Read, Ask, ReadGroup, ReadCalendar, ReadFallback, TakeLatest, ReadWeeks,
         ReadOverrides, ReadStudy, Answer, RGoto, TypeOK, ReadersTyped
<1>4. ASSUME NEW q \in Reader \ {r}
      PROVE  (version[q] <= dataVersion /\ (rpc[q] # "idle" => asked[q] \in Ranges)
                /\ (Settled(q) => Follows(q)))'
  <2>1. version[q] <= dataVersion /\ (rpc[q] # "idle" => asked[q] \in Ranges)
        /\ (Settled(q) => Follows(q))
    BY DEF ReadersFollow
  <2>2. Settled(q)' => Settled(q) BY <1>1, <1>3 DEF Settled, unread, admins
  <2>3. Follows(q) => Follows(q)' BY <1>1, <1>3, FollowsStill DEF unread
  <2> QED BY <1>1, <1>3, <2>1, <2>2, <2>3 DEF unread
<1>5. ASSUME version'[r] = version[r], asked'[r] = asked[r], rpc[r] # "idle",
             Settled(r) /\ Follows(r) => Follows(r)'
      PROVE  (version[r] <= dataVersion /\ (rpc[r] # "idle" => asked[r] \in Ranges)
                /\ (Settled(r) => Follows(r)))'
  <2>1. Settled(r)' => Settled(r) BY <1>1, <1>5 DEF Settled, unread, admins
  <2> QED BY <1>1, <1>2, <1>5, <2>1 DEF unread
<1>6. (version[r] <= dataVersion /\ (rpc[r] # "idle" => asked[r] \in Ranges)
         /\ (Settled(r) => Follows(r)))'
  <2> USE DEF RGoto
  <2>t. TypeOK /\ ReadersTyped BY DEF TypeOK
  <2>1. CASE Ask(r)
    <3>1. /\ version'[r] = dataVersion /\ asked'[r] \in Ranges /\ rpc'[r] = "group"
          /\ out'[r] = Nothing /\ plan'[r] = {} /\ calendar'[r] = None
      BY <2>t, <2>1 DEF Ask, ReadersTyped
    <3>2. Follows(r)' BY <3>1 DEF Follows, Nothing
    <3> QED BY <1>1, <1>2, <3>1, <3>2 DEF unread
  <2>2. CASE ReadGroup(r)
    <3>1. /\ rpc[r] = "group" /\ year'[r] = group.year
          /\ rpc'[r] = IF group.planned THEN "calendar" ELSE "study"
          /\ UNCHANGED <<unread, asked, version, calendar, plan, out>>
      BY <2>t, <2>2 DEF ReadGroup, ReadersTyped
    <3>2. ASSUME Follows(r) PROVE Follows(r)'
      <4>1. calendar[r] = None /\ plan[r] = {} /\ out[r] = Nothing BY <3>1, <3>2 DEF Follows
      <4>2. CASE group.planned BY <3>1, <4>1, <4>2 DEF Follows, unread, tables, Nothing
      <4>3. CASE ~group.planned
        <5>1. None \in CalendarsFor(asked[r]) BY <4>3 DEF CalendarsFor
        <5>2. plan'[r] = PlanIn(None, asked[r]) /\ Within(out'[r], ByDays(None, asked[r]))
          BY <3>1, <4>1, NoCalendar
        <5> QED BY <3>1, <4>1, <4>3, <5>1, <5>2, FollowsNow DEF unread, tables
      <4> QED BY <4>2, <4>3
    <3> QED BY <1>5, <3>1, <3>2
  <2>3. CASE ReadCalendar(r)
    <3>1. rpc[r] = "calendar" /\ version' = version /\ asked' = asked
      BY <2>3 DEF ReadCalendar, TakeLatest
    <3>2. ASSUME Follows(r) PROVE Follows(r)'
      <4>1. group.planned /\ year[r] = group.year BY <3>1, <3>2 DEF Follows
      <4>2. CASE year[r] # None
        <5>1. TakeLatest(r, InYear(year[r]), "fallback") BY <2>3, <4>2 DEF ReadCalendar
        <5>2. InYear(year[r]) # {} => CalendarsFor(asked[r]) = {c.id : c \in Latest(InYear(year[r]))}
          BY <4>1, <4>2 DEF CalendarsFor
        <5> QED BY <3>1, <3>2, <4>2, <5>1, <5>2, TakeFollows
      <4>3. CASE year[r] = None
        <5>1. TakeLatest(r, Until(asked[r].to), "study") BY <2>3, <4>3 DEF ReadCalendar
        <5>2. CalendarsFor(asked[r]) = IF Until(asked[r].to) = {} THEN {None}
                                       ELSE {c.id : c \in Latest(Until(asked[r].to))}
          BY <4>1, <4>3 DEF CalendarsFor
        <5> QED BY <3>1, <3>2, <5>1, <5>2, TakeFollows
      <4> QED BY <4>2, <4>3
    <3> QED BY <1>5, <3>1, <3>2
  <2>4. CASE ReadFallback(r)
    <3>1. rpc[r] = "fallback" /\ version' = version /\ asked' = asked
          /\ TakeLatest(r, Until(asked[r].to), "study")
      BY <2>4 DEF ReadFallback, TakeLatest
    <3>2. ASSUME Follows(r) PROVE Follows(r)'
      <4>1. group.planned /\ year[r] = group.year /\ year[r] # None /\ InYear(year[r]) = {}
        BY <3>1, <3>2 DEF Follows
      <4>2. CalendarsFor(asked[r]) = IF Until(asked[r].to) = {} THEN {None}
                                     ELSE {c.id : c \in Latest(Until(asked[r].to))}
        BY <4>1 DEF CalendarsFor
      <4> QED BY <3>1, <3>2, <4>2, TakeFollows
    <3> QED BY <1>5, <3>1, <3>2
  <2>5. CASE ReadWeeks(r)
    <3> DEFINE rows == PlanIn(calendar[r], asked[r])
    <3>1. PICK new \in Overwritten(out[r], WeekRows(rows), "academic_week") :
            out' = [out EXCEPT ![r] = new]
      BY <2>5 DEF ReadWeeks
    <3>2. /\ rpc[r] = "weeks" /\ rpc'[r] = "days" /\ plan'[r] = rows /\ out'[r] = new
          /\ calendar' = calendar /\ asked' = asked /\ version' = version
      BY <2>t, <2>5, <3>1 DEF ReadWeeks, ReadersTyped
    <3>3. rows \in SUBSET Week BY DEF PlanIn, TypeOK, TablesTyped
    <3>4. \A below : Within(out[r], below) => Within(new, Over(below, WeekRows(rows), "academic_week"))
      BY <1>2, <3>1, <3>3, RowActs, Overwriting DEF Source
    <3>5. ASSUME Follows(r) PROVE Follows(r)'
      <4>1. out[r] = Nothing /\ calendar[r] \in CalendarsFor(asked[r]) BY <3>2, <3>5 DEF Follows
      <4>2. Within(out[r], [d \in Day |-> {None}]) BY <4>1 DEF Within, Nothing
      <4>3. Within(new, ByWeeks(calendar[r], asked[r])) BY <3>4, <4>2 DEF ByWeeks
      <4> QED BY <1>1, <3>2, <4>1, <4>3, FollowsNow DEF unread
    <3> QED BY <1>5, <3>2, <3>5
  <2>6. CASE ReadOverrides(r)
    <3> DEFINE rows == OverrideRows(calendar[r], asked[r])
    <3>1. PICK new \in Overwritten(out[r], rows, "academic_day_override") :
            out' = [out EXCEPT ![r] = new]
      BY <2>6 DEF ReadOverrides
    <3>2. /\ rpc[r] = "days" /\ rpc'[r] = "study" /\ plan' = plan /\ out'[r] = new
          /\ calendar' = calendar /\ asked' = asked /\ version' = version
      BY <2>t, <2>6, <3>1 DEF ReadOverrides, ReadersTyped
    <3>3. \A below : Within(out[r], below) => Within(new, Over(below, rows, "academic_day_override"))
      BY <1>2, <3>1, RowActs, Overwriting DEF Source
    <3>4. ASSUME Follows(r) PROVE Follows(r)'
      <4>1. /\ Within(out[r], ByWeeks(calendar[r], asked[r]))
            /\ calendar[r] \in CalendarsFor(asked[r]) /\ plan[r] = PlanIn(calendar[r], asked[r])
        BY <3>2, <3>4 DEF Follows
      <4>2. Within(new, ByDays(calendar[r], asked[r])) BY <3>3, <4>1 DEF ByDays
      <4> QED BY <1>1, <3>2, <4>1, <4>2, FollowsNow DEF unread
    <3> QED BY <1>5, <3>2, <3>4
  <2>7. CASE ReadStudy(r)
    <3> DEFINE rows == StudyRows(plan[r], asked[r])
    <3>1. PICK new \in Overwritten(out[r], rows, "study_week") :
            out' = [out EXCEPT ![r] = new]
      BY <2>7 DEF ReadStudy
    <3>2. /\ rpc[r] = "study" /\ rpc'[r] = "answer" /\ plan' = plan /\ out'[r] = new
          /\ calendar' = calendar /\ asked' = asked /\ version' = version
      BY <2>t, <2>7, <3>1 DEF ReadStudy, ReadersTyped
    <3>3. \A below : Within(out[r], below) => Within(new, Over(below, rows, "study_week"))
      BY <1>2, <3>1, RowActs, Overwriting DEF Source
    <3>4. ASSUME Follows(r) PROVE Follows(r)'
      <4>1. /\ Within(out[r], ByDays(calendar[r], asked[r]))
            /\ calendar[r] \in CalendarsFor(asked[r]) /\ plan[r] = PlanIn(calendar[r], asked[r])
        BY <3>2, <3>4 DEF Follows
      <4>2. Within(new, ByStudy(calendar[r], asked[r])) BY <3>3, <4>1 DEF ByStudy
      <4> QED BY <1>1, <3>2, <4>1, <4>2, FollowsNow DEF unread
    <3> QED BY <1>5, <3>2, <3>4
  <2>8. CASE Answer(r)
    <3>1. version'[r] = 0 /\ rpc'[r] = "idle" BY <2>t, <2>8 DEF Answer, ReadersTyped
    <3>2. Follows(r)' BY <3>1 DEF Follows
    <3> QED BY <1>1, <1>2, <3>1, <3>2 DEF unread
  <2> QED BY <2>1, <2>2, <2>3, <2>4, <2>5, <2>6, <2>7, <2>8 DEF Read
<1> QED BY <1>4, <1>6 DEF ReadersFollow

-----------------------------------------------------------------------------
(* What follows from the invariant. *)

\* Two Mondays within the six days before one day are the same.
LEMMA OneMonday ==
    ASSUME NEW v \in Day, NEW w \in Day, NEW i \in 1 .. 7, NEW j \in 1 .. 7,
           Monday(v) = v, Monday(w) = w, v + i - 1 = w + j - 1
    PROVE  v = w /\ i = j
<1>1. v \in Int /\ w \in Int /\ v % 7 = 0 /\ w % 7 = 0
  <2>1. LastDay \in Nat BY ConstantsOK
  <2> QED BY <2>1 DEF Day, Monday
<1> QED BY <1>1

LEMMA Rows ==
    ASSUME TypeOK, RowsDistinct
    PROVE  OneOverridePerDay
<1> SUFFICES ASSUME NEW o \in overrides, NEW p \in overrides, NEW d \in 0 .. LastDay + 6,
                    o.cal = p.cal, o.course = p.course, FallsOn(o, d), FallsOn(p, d)
             PROVE  o = p
  BY DEF OneOverridePerDay
<1>1. PICK v \in weeks : v.cal = o.cal /\ v.course = o.course /\ v.number = o.number
                         /\ d = v.start + o.dow - 1
  BY DEF FallsOn
<1>2. PICK w \in weeks : w.cal = p.cal /\ w.course = p.course /\ w.number = p.number
                         /\ d = w.start + p.dow - 1
  BY DEF FallsOn
<1>3. v.start \in Day /\ w.start \in Day /\ o.dow \in 1 .. 7 /\ p.dow \in 1 .. 7
  BY DEF TypeOK, TablesTyped, Week, Override
<1>4. v.start = w.start /\ o.dow = p.dow
  <2>1. Monday(v.start) = v.start /\ Monday(w.start) = w.start BY DEF RowsDistinct
  <2>2. v.start + o.dow - 1 = w.start + p.dow - 1 BY <1>1, <1>2
  <2>3. ASSUME NEW s, NEW t, NEW i, NEW j, s = v.start, t = w.start, i = o.dow, j = p.dow
        PROVE  s = t /\ i = j
    <3>1. s \in Day /\ t \in Day /\ i \in 1 .. 7 /\ j \in 1 .. 7 BY <1>3, <2>3
    <3>2. Monday(s) = s /\ Monday(t) = t BY <2>1, <2>3
    <3>3. s + i - 1 = t + j - 1 BY <2>2, <2>3
    <3> QED BY <3>1, <3>2, <3>3, OneMonday
  <2> QED BY <2>3
<1>5. v = w BY <1>1, <1>2, <1>4 DEF RowsDistinct, UniqueStarts
<1>6. Place(o) = Place(p) BY <1>1, <1>2, <1>4, <1>5 DEF Place
<1> QED BY <1>6 DEF RowsDistinct

\* Among weeks there is one of the highest and one of the lowest course.
LEMMA Extremes ==
    ASSUME NEW ws \in SUBSET Week, ws # {}
    PROVE  Highest(ws) # {} /\ Lowest(ws) # {}
<1>1. \A w \in ws : w.course \in 1 .. 6 BY DEF Week, Course
<1>2. ASSUME NEW n \in 0 .. 6 PROVE n \in Nat OBVIOUS
<1>3. Highest(ws) # {}
  <2>1. ASSUME NEW n \in 1 .. 6, \A v \in ws : v.course <= n
        PROVE  (\E w \in ws : w.course = n) \/ \A v \in ws : v.course <= n - 1
    BY <1>1, <2>1
  <2>2. ASSUME NEW n \in 1 .. 6, \A v \in ws : v.course <= n, NEW w \in ws, w.course = n
        PROVE  Highest(ws) # {}
    BY <2>2 DEF Highest
  <2>3. \A v \in ws : v.course <= 6 BY <1>1
  <2>4. Highest(ws) # {} \/ \A v \in ws : v.course <= 5 BY <2>1, <2>2, <2>3
  <2>5. Highest(ws) # {} \/ \A v \in ws : v.course <= 4 BY <2>1, <2>2, <2>4
  <2>6. Highest(ws) # {} \/ \A v \in ws : v.course <= 3 BY <2>1, <2>2, <2>5
  <2>7. Highest(ws) # {} \/ \A v \in ws : v.course <= 2 BY <2>1, <2>2, <2>6
  <2>8. Highest(ws) # {} \/ \A v \in ws : v.course <= 1 BY <2>1, <2>2, <2>7
  <2>9. Highest(ws) # {} \/ \A v \in ws : v.course <= 0 BY <2>1, <2>2, <2>8
  <2> QED BY <1>1, <2>9
<1>4. Lowest(ws) # {}
  <2>1. ASSUME NEW n \in 1 .. 6, \A v \in ws : n <= v.course
        PROVE  (\E w \in ws : w.course = n) \/ \A v \in ws : n + 1 <= v.course
    BY <1>1, <2>1
  <2>2. ASSUME NEW n \in 1 .. 6, \A v \in ws : n <= v.course, NEW w \in ws, w.course = n
        PROVE  Lowest(ws) # {}
    BY <2>2 DEF Lowest
  <2>3. \A v \in ws : 1 <= v.course BY <1>1
  <2>4. Lowest(ws) # {} \/ \A v \in ws : 2 <= v.course BY <2>1, <2>2, <2>3
  <2>5. Lowest(ws) # {} \/ \A v \in ws : 3 <= v.course BY <2>1, <2>2, <2>4
  <2>6. Lowest(ws) # {} \/ \A v \in ws : 4 <= v.course BY <2>1, <2>2, <2>5
  <2>7. Lowest(ws) # {} \/ \A v \in ws : 5 <= v.course BY <2>1, <2>2, <2>6
  <2>8. Lowest(ws) # {} \/ \A v \in ws : 6 <= v.course BY <2>1, <2>2, <2>7
  <2>9. Lowest(ws) # {} \/ \A v \in ws : 7 <= v.course BY <2>1, <2>2, <2>8
  <2> QED BY <1>1, <2>9
<1> QED BY <1>3, <1>4

\* What was read for a period says of a Monday in it what the tables say.
LEMMA MondayOfPeriod ==
    ASSUME TypeOK, RowsDistinct, NEW cal, NEW p \in Period, Unambiguous(cal, p),
           NEW m \in Day, m \in WeeksOf(p)
    PROVE  /\ WeekRows(PlanIn(cal, p))[m] = Highest(WeeksOn(PlanOf(cal), m))
           /\ StudyRows(PlanIn(cal, p), p)[m] = StudyOn(cal, m)
<1> DEFINE ws == PlanIn(cal, p)
<1>1. ws = {w \in PlanOf(cal) : w.start \in WeeksOf(p)} /\ PlanOf(cal) \subseteq Week
  BY DEF PlanIn, PlanOf, TypeOK, TablesTyped
<1>2. WeeksOn(ws, m) = WeeksOn(PlanOf(cal), m) BY <1>1 DEF WeeksOn
<1>3. WeekRows(ws)[m] = Highest(WeeksOn(PlanOf(cal), m)) BY <1>2 DEF WeekRows
<1>4. ASSUME NEW s \in study PROVE m \in Starts(ws, s) <=> m \in Begins(cal, s)
  <2>1. CASE s.start # None BY <2>1 DEF Starts, Begins
  <2>2. CASE s.start = None
    <3> DEFINE vs == {v \in ws : v.number = s.number}
    <3>1. Starts(ws, s) = {w.start : w \in Lowest(vs)}
          /\ Begins(cal, s) = {w.start : w \in {v \in PlanOf(cal) : v.number = s.number}}
      BY <2>2 DEF Starts, Begins
    <3>2. m \in Starts(ws, s) => m \in Begins(cal, s) BY <1>1, <3>1 DEF Lowest
    <3>3. ASSUME m \in Begins(cal, s) PROVE m \in Starts(ws, s)
      <4>1. PICK v \in PlanOf(cal) : v.number = s.number /\ v.start = m BY <3>1, <3>3
      <4>2. v \in vs BY <1>1, <4>1
      <4>3. Lowest(vs) # {} BY <1>1, <4>2, Extremes
      <4>4. PICK w \in Lowest(vs) : TRUE BY <4>3
      <4>5. w \in PlanOf(cal) /\ w.number = v.number /\ w.start \in WeeksOf(p) BY <1>1, <4>1, <4>4 DEF Lowest
      <4>6. w.start = m BY <4>1, <4>5 DEF Unambiguous
      <4> QED BY <3>1, <4>4, <4>6
    <3> QED BY <3>2, <3>3
  <2> QED BY <2>1, <2>2
<1>5. StudyRows(ws, p)[m] = {s \in study : m \in Starts(ws, s)} BY DEF StudyRows
<1>6. StudyRows(ws, p)[m] = StudyOn(cal, m) BY <1>4, <1>5 DEF StudyOn
<1> QED BY <1>3, <1>6

\* Weeks of the group begin on Mondays, so they are written under Mondays only.
LEMMA OnlyMondays ==
    ASSUME TypeOK, RowsDistinct, NEW cal, NEW p, NEW d \in Day, d # Monday(d)
    PROVE  StudyRows(PlanIn(cal, p), p)[d] = {} /\ WeekRows(PlanIn(cal, p))[d] = {}
<1>1. \A w \in PlanIn(cal, p) : w.start # d BY DEF PlanIn, RowsDistinct
<1>2. \A s \in study : s.start # None => s.start # d BY DEF RowsDistinct
<1>3. \A s \in study : d \notin Starts(PlanIn(cal, p), s) BY <1>1, <1>2 DEF Starts, Lowest
<1>4. StudyRows(PlanIn(cal, p), p)[d] = {} BY <1>3 DEF StudyRows
<1>5. WeekRows(PlanIn(cal, p))[d] = {} BY <1>1 DEF WeekRows, Highest, WeeksOn
<1> QED BY <1>4, <1>5

LEMMA Answers ==
    ASSUME TypeOK, RowsDistinct, NEW cal, NEW p \in Ranges, Unambiguous(cal, p),
           NEW map \in [Day -> State \cup {None}], Within(map, ByStudy(cal, p)),
           NEW d \in p.from .. p.to, ~Spoilt(cal, p, d)
    PROVE  DayState(map, d) \in Promised(cal, d)
<1> DEFINE m == Monday(d)
           study0(e) == StudyRows(PlanIn(cal, p), p)[e]
           over0(e)  == OverrideRows(cal, p)[e]
           week0(e)  == WeekRows(PlanIn(cal, p))[e]
<1>1. /\ p \in Period /\ p.from \in Day /\ p.to \in Day /\ d \in Day /\ None \notin State
      /\ p.from <= d /\ d <= p.to /\ LastDay \in Nat
  BY ConstantsOK DEF Period, Day
<1>2. m \in Day /\ m \in WeeksOf(p) /\ Monday(m) = m
  <2>1. m \in Day /\ Monday(m) = m /\ Monday(p.from) \in Day /\ Monday(p.to) \in Day BY <1>1, Mondays
  <2>2. Monday(p.from) <= m /\ m <= Monday(p.to) BY <1>1, MondaysGrow
  <2> QED BY <1>1, <2>1, <2>2 DEF WeeksOf, FirstWeek, LastWeek, Day
<1>3. week0(m) = Highest(WeeksOn(PlanOf(cal), m)) /\ study0(m) = StudyOn(cal, m)
  BY <1>1, <1>2, MondayOfPeriod
<1>4. over0(d) = OverridesOn(cal, d) BY <1>1 DEF OverrideRows
\* The choices for a day, told by its rows.
<1>5. ASSUME NEW e \in Day
      PROVE  IF study0(e) # {} THEN \E s \in study0(e) : map[e] = [act |-> s.act, source |-> "study_week"]
             ELSE IF over0(e) # {} THEN \E o \in over0(e) : map[e] = [act |-> o.act, source |-> "academic_day_override"]
             ELSE IF week0(e) # {} THEN \E w \in week0(e) : map[e] = [act |-> w.act, source |-> "academic_week"]
             ELSE map[e] = None
  <2>1. map[e] \in ByStudy(cal, p)[e] BY DEF Within
  <2> QED BY <2>1 DEF ByStudy, ByDays, ByWeeks, Over
<1>6. PlanOf(cal) \in SUBSET Week BY DEF PlanOf, TypeOK, TablesTyped
<1>7. WeeksOn(PlanOf(cal), m) # {} <=> week0(m) # {}
  <2>1. WeeksOn(PlanOf(cal), m) \in SUBSET Week BY <1>6 DEF WeeksOn
  <2> QED BY <1>3, <2>1, Extremes DEF Highest
<1>a. ASSUME NEW row, NEW source \in Source, row.act \in AnyActivity
      PROVE  [act |-> row.act, source |-> source] # None
  <2>1. [act |-> row.act, source |-> source] \in State BY <1>a DEF State
  <2> QED BY <1>1, <2>1
<1>b. /\ \A row \in study0(m) : row.act \in AnyActivity
      /\ \A row \in over0(d) : row.act \in AnyActivity
      /\ \A row \in week0(m) : row.act \in AnyActivity
  <2>1. PlanIn(cal, p) \in SUBSET Week BY DEF PlanIn, TypeOK, TablesTyped
  <2> QED BY <1>1, <1>2, <2>1, RowActs
<1> HIDE DEF study0, over0, week0
<1>8. CASE OverridesOn(cal, d) # {}
  <2>1. study0(d) = {}
    <3>1. CASE d = m BY <1>1, <1>3, <1>8, <3>1 DEF Spoilt
    <3>2. CASE d # m BY <1>1, <3>2, OnlyMondays DEF study0
    <3> QED BY <3>1, <3>2
  <2>2. PICK o \in OverridesOn(cal, d) : map[d] = [act |-> o.act, source |-> "academic_day_override"]
    BY <1>1, <1>4, <1>5, <1>8, <2>1
  <2>3. map[d] # None BY <1>4, <1>a, <1>b, <2>2 DEF Source
  <2>4. DayState(map, d) = map[d] BY <2>2, <2>3 DEF DayState
  <2> QED BY <1>8, <2>2, <2>4 DEF Promised
<1>9. CASE OverridesOn(cal, d) = {}
  <2>1. map[d] = None \/ map[d].source # "academic_day_override" BY <1>1, <1>4, <1>5, <1>9
  <2>2. DayState(map, d) = IF map[m] # None THEN map[m] ELSE Default BY <2>1 DEF DayState
  <2>3. over0(m) = {}
    <3>1. CASE d = m BY <1>4, <1>9, <3>1
    <3>2. CASE d # m
      <4>1. ~(m \in p.from .. p.to /\ OverridesOn(cal, m) # {}) BY <3>2 DEF Spoilt
      <4> QED BY <1>2, <4>1 DEF over0, OverrideRows
    <3> QED BY <3>1, <3>2
  <2>4. CASE study0(m) # {}
    <3>1. PICK s \in study0(m) : map[m] = [act |-> s.act, source |-> "study_week"] BY <1>2, <1>5, <2>4
    <3>2. DayState(map, d) = map[m] BY <1>a, <1>b, <2>2, <3>1 DEF Source
    <3> QED BY <1>3, <1>9, <2>4, <3>1, <3>2 DEF Promised
  <2>5. CASE study0(m) = {} /\ week0(m) # {}
    <3>1. PICK w \in week0(m) : map[m] = [act |-> w.act, source |-> "academic_week"]
      BY <1>2, <1>5, <2>3, <2>5
    <3>2. DayState(map, d) = map[m] BY <1>a, <1>b, <2>2, <3>1 DEF Source
    <3> QED BY <1>3, <1>7, <1>9, <2>5, <3>1, <3>2 DEF Promised
  <2>6. CASE study0(m) = {} /\ week0(m) = {}
    <3>1. map[m] = None BY <1>2, <1>5, <2>3, <2>6
    <3> QED BY <1>3, <1>7, <1>9, <2>2, <2>6, <3>1 DEF Promised
  <2> QED BY <2>4, <2>5, <2>6
<1> QED BY <1>8, <1>9

-----------------------------------------------------------------------------
(* The theorems. *)

\* Types, unique rows, drawn ids, rows of calendars that exist, and readers that
\* follow the tables: the invariant holds of every behaviour.
THEOREM InvariantHolds == Spec => []IInv
<1>1. ASSUME IInv, [Next]_vars PROVE IInv'
  <2>1. ASSUME NEW a \in Admin, Write(a) PROVE IInv'
    BY <1>1, <2>1, WriteStep, WriteFollows DEF IInv, Tables
  <2>2. ASSUME NEW r \in Reader, Read(r) PROVE IInv'
    BY <1>1, <2>2, ReadStep, ReadFollows DEF IInv, Tables
  <2>3. CASE UNCHANGED vars
    <3>1. TypeOK' BY <1>1, <2>3 DEF IInv, TypeOK, TablesTyped, AdminsTyped, ReadersTyped,
                                     vars, tables, admins, readers
    <3>2. RowsDistinct' /\ RowsHaveCalendars'
      BY <1>1, <2>3 DEF IInv, RowsDistinct, UniqueStarts, WeekKey, Place, RowsHaveCalendars,
                        CalendarExists, vars, tables
    <3>3. IdsDrawn' BY <1>1, <2>3 DEF IInv, IdsDrawn, ValidPatch, vars, tables, admins
    <3>4. ReadersFollow'
      <4>1. ASSUME NEW r \in Reader, Follows(r) PROVE Follows(r)'
        BY <2>3, <4>1, FollowsStill DEF vars, readers
      <4>2. \A r \in Reader : Settled(r)' => Settled(r) BY <2>3 DEF Settled, vars, admins, readers
      <4> QED BY <1>1, <2>3, <4>1, <4>2 DEF IInv, ReadersFollow, vars, readers
    <3> QED BY <3>1, <3>2, <3>3, <3>4 DEF IInv
  <2> QED BY <1>1, <2>1, <2>2, <2>3 DEF Next
<1> QED BY <1>1, InitHolds, PTL DEF Spec

\* Two overrides of a course never meet on a day, though no index of the database
\* spans weeks and overrides.
THEOREM OverridesNeverMeet == Spec => []OneOverridePerDay
<1>1. IInv => OneOverridePerDay BY Rows DEF IInv
<1> QED BY <1>1, InvariantHolds, PTL

\* Weeks and overrides never outlive their calendar.
THEOREM CalendarsOutlive == Spec => []RowsHaveCalendars
<1>1. IInv => RowsHaveCalendars BY DEF IInv
<1> QED BY <1>1, InvariantHolds, PTL

\* A reader nothing disturbed shows each day what the tables promise.
THEOREM ReadersAreExact == Spec => []AnswerExact
<1>1. IInv => AnswerExact
  <2> SUFFICES ASSUME IInv, NEW r \in Reader, rpc[r] = "answer", Settled(r),
                      NEW p, p = asked[r]
               PROVE  /\ calendar[r] \in CalendarsFor(p)
                      /\ Unambiguous(calendar[r], p) =>
                           \A d \in p.from .. p.to :
                              Spoilt(calendar[r], p, d) \/ DayState(out[r], d) \in Promised(calendar[r], d)
    BY DEF AnswerExact
  <2>1. /\ TypeOK /\ RowsDistinct /\ Follows(r) /\ p \in Ranges
        /\ out[r] \in [Day -> State \cup {None}]
    BY DEF IInv, ReadersFollow, TypeOK, ReadersTyped
  <2>2. calendar[r] \in CalendarsFor(p) /\ Within(out[r], ByStudy(calendar[r], p)) BY <2>1 DEF Follows
  <2> QED BY <2>1, <2>2, Answers
<1> QED BY <1>1, InvariantHolds, PTL
=============================================================================
