---------------------------- MODULE AdminTables ----------------------------
(***************************************************************************)
(* The tables that dispatchers maintain, and how the requests on them use  *)
(* the database: statements that commit on their own, foreign keys and     *)
(* unique keys that refuse a statement, and gorm's Save, which writes all  *)
(* of a row that was read before and inserts it again when it is gone.     *)
(* RoomTables, PlanTables, PeopleTables and CurriculumTables say which     *)
(* request does what; a request that is refused leaves the tables alone.   *)
(*                                                                         *)
(* Of a row the model keeps the columns that identify it or refer to       *)
(* others.  A key is a number: a name, a code, a date or a priority.  In a *)
(* body, 10 + k is the name k between blanks, 20 + k is k in capitals, and *)
(* 0 is the empty string.                                                  *)
(***************************************************************************)
EXTENDS Values, Integers, Sequences, FiniteSets, FiniteSetsExt, SequencesExt, Functions

CONSTANTS
  Officers,
  Bodies,          \* per table, the bodies of requests: [key, refs, named]
  Shelves,         \* what the tables may hold at first: [tables, rows]
  MaxPage,         \* the largest limit of a list
  Limits,          \* limits that are asked for
  MaxOfficeWork,   \* bound: requests
  MaxIds           \* bound: ids of a table

VARIABLES
  shelf,           \* the tables of this behaviour
  rows,            \* [table, id, key, refs, gone]
  nextId,          \* the sequence of a table
  officer,         \* of a request: the statements it has left, the row it read
  page,            \* the client that reads a list page by page, or None
  officeWork

tableVars == <<shelf, rows, nextId, officer, page, officeWork>>

NoRequest == [todo |-> <<>>, row |-> None]

TablesInit ==
  /\ \E s \in Shelves :
       /\ shelf = s.tables
       /\ rows = s.rows
       /\ nextId = [t \in s.tables |-> 1 + Cardinality({r \in s.rows : r.table = t})]
  /\ officer = [w \in Officers |-> NoRequest]
  /\ page = None
  /\ officeWork = 0

Trim(k) == IF k \div 10 = 1 THEN k - 10 ELSE k
Lower(k) == IF k \div 10 = 2 THEN k - 20 ELSE k

Row(t, id, key, refs) == [table |-> t, id |-> id, key |-> key, refs |-> refs, gone |-> FALSE]
RowsOf(t) == {r \in rows : r.table = t}

(* A column; a key of two numbers is the day and the pair of a replacement,*)
(* the course and the week of a calendar.                                  *)
Column(r, c) ==
  CASE c = "id" -> r.id
    [] c = "key" -> r.key
    [] c = "latest" -> -r.key
    [] c = "day" -> r.key \div 10
    [] c = "slot" -> r.key % 10
    [] OTHER -> r.refs[c]

-----------------------------------------------------------------------------
(* The foreign keys: what becomes of a row when the row it refers to goes. *)
Key(t, c, p, rule) == [table |-> t, column |-> c, parent |-> p, rule |-> rule]

RoomKeys ==
  {Key("locations", "campus", "campuses", "null"),
   Key("links", "location", "locations", "cascade"), Key("links", "type", "types", "cascade"),
   Key("preferences", "teacher", "teachers", "cascade"),
   Key("preferences", "location", "locations", "cascade"),
   Key("requests", "group", "groups", "cascade"), Key("requests", "type", "types", "null"),
   Key("requests", "location", "locations", "null"),
   Key("assignments", "location", "locations", "restrict")}
PlanKeys ==
  {Key("weeks", "group", "groups", "cascade"), Key("weeks", "activity", "activities", "null"),
   Key("constraints", "teacher", "teachers", "cascade"),
   Key("replacements", "group", "groups", "cascade"),
   Key("replacements", "location", "locations", "null")}
AvailabilityKeys == {Key("availability", "location", "locations", "cascade")}
EventKeys == {Key("events", "group", "groups", "cascade"), Key("events", "location", "locations", "null")}
OverlayKeys == {Key("overlays", "group", "groups", "cascade")}
TeachingKeys ==
  {Key("teaches", "teacher", "teachers", "cascade"), Key("teaches", "subject", "subjects", "cascade")}
CurriculumKeys ==
  {Key("curricula", "specialty", "specialties", "restrict"),
   Key("groups", "curriculum", "curricula", "null"),
   Key("items", "curriculum", "curricula", "cascade"), Key("items", "subject", "subjects", "null"),
   Key("allocations", "item", "items", "cascade"),
   Key("calendars", "curriculum", "curricula", "cascade"),
   Key("calendarWeeks", "calendar", "calendars", "cascade")}
ParentKeys == {Key("items", "parent", "items", "null")}
OverrideKeys == {Key("overrides", "calendar", "calendars", "cascade")}

Foreign ==
  RoomKeys \cup PlanKeys \cup AvailabilityKeys \cup EventKeys \cup OverlayKeys \cup TeachingKeys
    \cup CurriculumKeys \cup ParentKeys \cup OverrideKeys

(* The columns that no two rows of a table share, besides the id.          *)
UniqueRooms ==
  [campuses |-> {"key"}, types |-> {"key"}, links |-> {"location", "type"},
   preferences |-> {"teacher", "location", "key"}]
UniquePlans ==
  [activities |-> {"key"}, weeks |-> {"group", "key"}, constraints |-> {"teacher", "key"},
   replacements |-> {"group", "key"}, availability |-> {"key", "location"}, days |-> {"key"}]
UniquePeople ==
  [teachers |-> {"key"}, teaches |-> {"teacher", "subject"}, groups |-> {"key"},
   overlays |-> {"group", "key"}]
UniqueCurricula ==
  [specialties |-> {"key"}, curricula |-> {"specialty", "key"}, allocations |-> {"item", "key"},
   calendars |-> {"curriculum", "key"}, calendarWeeks |-> {"calendar", "key"}]
UniqueOverrides == [overrides |-> {"calendar", "key"}]
Unique ==
  [t \in UNION {DOMAIN UniqueRooms, DOMAIN UniquePlans, DOMAIN UniquePeople, DOMAIN UniqueCurricula,
               DOMAIN UniqueOverrides} |->
     CASE t \in DOMAIN UniqueRooms -> UniqueRooms[t]
       [] t \in DOMAIN UniquePlans -> UniquePlans[t]
       [] t \in DOMAIN UniquePeople -> UniquePeople[t]
       [] t \in DOMAIN UniqueCurricula -> UniqueCurricula[t]
       [] t \in DOMAIN UniqueOverrides -> UniqueOverrides[t]]

Agree(a, b, columns) == \A c \in columns : Column(a, c) = Column(b, c)
Of(f, r) == f.table = r.table /\ f.column \in DOMAIN r.refs
RefersTo(f, r, p) == Of(f, r) /\ p.table = f.parent /\ p.id = r.refs[f.column]

(* A statement leaves a table as it is when its row does not fit.          *)
Fits(r, table) ==
  LET others == {b \in table : b.table = r.table}
  IN  /\ \A b \in others : b.id # r.id
      /\ r.table \in DOMAIN Unique => \A b \in others : ~Agree(r, b, Unique[r.table])
      /\ \A f \in Foreign :
           Of(f, r) /\ r.refs[f.column] # None => \E p \in table \cup {r} : RefersTo(f, r, p)

(* The rows that go with S, and what is left; a reference may forbid it.   *)
GoneWith(S) ==
  LET wave[n \in 0..Cardinality(rows)] ==
        IF n = 0 THEN S
        ELSE LET going == wave[n-1]
             IN  going \cup {r \in rows : \E p \in going, f \in Foreign :
                                f.rule = "cascade" /\ RefersTo(f, r, p)}
  IN  wave[Cardinality(rows)]

Cleared(r, gone) ==
  [r EXCEPT !.refs = [c \in DOMAIN r.refs |->
     IF \E f \in Foreign, p \in gone : f.column = c /\ f.rule = "null" /\ RefersTo(f, r, p)
     THEN None ELSE r.refs[c]]]

\* Mutant: a reference stays when the row it leads to goes.
Dangling(S) == rows \ GoneWith(S)
Without(S) == {Cleared(r, GoneWith(S)) : r \in rows \ GoneWith(S)}
Kept(S) ==
  \E r \in rows \ GoneWith(S), f \in Foreign, p \in GoneWith(S) :
    f.rule = "restrict" /\ RefersTo(f, r, p)

-----------------------------------------------------------------------------
(* A request is asked, goes on with what is left to do, or is refused.     *)
Asked(w, t) ==
  /\ t \in shelf /\ officer[w] = NoRequest /\ officeWork < MaxOfficeWork
  /\ officeWork' = officeWork + 1

At(w, step) == officer[w].todo # <<>> /\ Head(officer[w].todo) = step

Left(w, todo, r) ==
  officer' = [officer EXCEPT ![w] =
    [todo |-> todo, row |-> IF todo \in {<<>>, <<"announce">>} THEN None ELSE r]]
Done(w) == Left(w, <<>>, None)

(* The rows become table, and a client that pages through them may notice. *)
Commit(table) ==
  /\ rows' = table
  /\ page' = IF page = None THEN None
             ELSE [page EXCEPT !.calm = @ /\ RowsOf(page.table) = {r \in table : r.table = page.table}]
  /\ UNCHANGED shelf

(* INSERT: a refused one has taken its id from the sequence as well.       *)
Inserts(w, r, todo) ==
  LET t == r.table
      new == [r EXCEPT !.id = IF @ = None THEN nextId[t] ELSE @]
  IN  /\ nextId' = IF r.id = None THEN [nextId EXCEPT ![t] = @ + 1] ELSE nextId
      /\ nextId'[t] <= MaxIds + 1
      /\ IF Fits(new, rows) THEN Commit(rows \cup {new}) /\ Left(w, todo, None)
         ELSE Commit(rows) /\ Done(w)

Creates(w, r, todo) == Asked(w, r.table) /\ Inserts(w, r, todo)

(* One transaction of INSERT ... ON CONFLICT (on) DO UPDATE, row by row.   *)
Upserted(st, r, on) ==
  LET old == {b \in st.table : b.table = r.table /\ Agree(b, r, on)}
      new == [r EXCEPT !.id = IF old = {} THEN st.id ELSE (CHOOSE b \in old : TRUE).id]
  IN  [table |-> (st.table \ old) \cup {new}, id |-> st.id + 1,
       ok |-> st.ok /\ Fits(new, st.table \ old)]

AllUpserted(t, batch, on) ==
  LET done[i \in 0..Len(batch)] ==
        IF i = 0 THEN [table |-> rows, id |-> nextId[t], ok |-> TRUE]
        ELSE Upserted(done[i-1], batch[i], on)
  IN  done[Len(batch)]

Upserts(w, t, batch, on, todo) ==
  LET done == AllUpserted(t, batch, on)
  IN  /\ Asked(w, t)
      /\ nextId' = [nextId EXCEPT ![t] = done.id] /\ done.id <= MaxIds + 1
      /\ IF done.ok THEN Commit(done.table) /\ Left(w, todo, None)
         ELSE Commit(rows) /\ Done(w)

(* First, by id; new is the row with what the body changes.                *)
Finds(w, old, new, todo) ==
  /\ Asked(w, old.table) /\ old \in rows
  /\ Left(w, <<"save">> \o todo, [new EXCEPT !.id = old.id])
  /\ UNCHANGED <<shelf, rows, nextId, page>>

(* Save: UPDATE by id, or INSERT when no row has that id any more.         *)
SavedRow(w) ==
  LET r == officer[w].row
      now == {b \in RowsOf(r.table) : b.id = r.id}
  IN  [r EXCEPT !.gone = now # {} /\ \A b \in now : b.gone]

Saves(w, t) ==
  /\ At(w, "save")
  /\ LET new == SavedRow(w)
         old == {b \in RowsOf(t) : b.id = new.id}
     IN  /\ new.table = t
         /\ IF Fits(new, rows \ old)
            THEN Commit((rows \ old) \cup {new}) /\ Left(w, Tail(officer[w].todo), new)
            ELSE Commit(rows) /\ Done(w)
  /\ UNCHANGED <<nextId, officeWork>>

(* UPDATE ... SET deleted_at = NULL WHERE id = ...                         *)
Restores(w, t) ==
  /\ At(w, "restore") /\ officer[w].row.table = t
  /\ Commit({IF r.table = t /\ r.id = officer[w].row.id THEN [r EXCEPT !.gone = FALSE] ELSE r : r \in rows})
  /\ Left(w, Tail(officer[w].todo), None)
  /\ UNCHANGED <<nextId, officeWork>>

(* One UPDATE of a row.                                                    *)
Updates(w, old, new, todo) ==
  /\ Asked(w, old.table)
  /\ IF old \in rows /\ Fits(new, rows \ {old}) THEN Commit((rows \ {old}) \cup {new}) /\ Left(w, todo, None)
     ELSE Commit(rows) /\ Done(w)
  /\ UNCHANGED nextId

(* DELETE FROM ... WHERE id = ...                                          *)
Deletes(w, r, todo) ==
  /\ Asked(w, r.table)
  /\ IF Kept({r}) THEN Commit(rows) /\ Done(w) ELSE Commit(Without({r})) /\ Left(w, todo, None)
  /\ UNCHANGED nextId

(* UPDATE ... SET deleted_at = now()                                       *)
Hides(w, r, todo) == Updates(w, r, [r EXCEPT !.gone = TRUE], todo)

(* The schedule gets a new version: WeekCache.                             *)
Announces(w) ==
  /\ At(w, "announce")
  /\ Done(w)
  /\ UNCHANGED <<shelf, rows, nextId, page, officeWork>>

-----------------------------------------------------------------------------
(* A client reads the rows of t, in an order, that refer to `scope', an id *)
(* in a column, or all of them: page after page, with the number of rows   *)
(* that it has got as the offset, until a page is empty.                   *)
Before(a, b, order) ==
  \E i \in DOMAIN order :
    /\ Column(a, order[i]) < Column(b, order[i])
    /\ \A j \in 1..(i-1) : Column(a, order[j]) = Column(b, order[j])

Listed(t, scope) ==
  {r \in RowsOf(t) : ~r.gone /\ (scope = None \/ r.refs[scope.column] = scope.id)}

parseLimitOffset(limit) == IF limit > MaxPage THEN MaxPage ELSE limit

Lists(t, order, scope) ==
  /\ t \in shelf /\ page = None
  /\ \E limit \in Limits :
       page' = [table |-> t, order |-> order, scope |-> scope, limit |-> parseLimitOffset(limit),
                got |-> <<>>, offset |-> 0, calm |-> TRUE]
  /\ UNCHANGED <<shelf, rows, nextId, officer, officeWork>>

Scopes(t, column) == {None} \cup {[column |-> column, id |-> r.refs[column]] : r \in RowsOf(t)}

(* S can be the first rows: equal rows may come in any order, each time.   *)
Prefix(S, all) == \A a \in all \ S, b \in S : ~Before(a, b, page.order)

applyLimitOffset(all, offset, limit) ==
  {P \in SUBSET all :
     \E Q \in SUBSET (all \ P) :
       /\ Prefix(Q, all) /\ Prefix(Q \cup P, all)
       /\ Cardinality(Q) = (IF offset < Cardinality(all) THEN offset ELSE Cardinality(all))
       /\ Cardinality(P) = (IF limit < Cardinality(all \ Q) THEN limit ELSE Cardinality(all \ Q))}

NextPage ==
  /\ page # None /\ (page.got # <<>> => Last(page.got) # {})
  /\ \E P \in applyLimitOffset(Listed(page.table, page.scope), page.offset, page.limit) :
       page' = [page EXCEPT !.got = Append(@, P), !.offset = @ + Cardinality(P)]
  /\ UNCHANGED <<shelf, rows, nextId, officer, officeWork>>
=============================================================================
