--------------------------- MODULE ReferenceData ---------------------------
(***************************************************************************)
(* The tables that dispatchers maintain, as one database: every request    *)
(* can come between two statements of another, and a deletion in one table *)
(* reaches into others.                                                    *)
(***************************************************************************)
EXTENDS RoomTables, PlanTables, PeopleTables, CurriculumTables

(* What requests and tables are made of.  The references that identify a   *)
(* row, with its key or without, are never NULL; nor is the group of a     *)
(* course.                                                                 *)
Identifying(t) ==
  CASE t \in DOMAIN Unique -> Unique[t] \ {"key"}
    [] t = "courses" -> {"group"}
    [] OTHER -> {}
Refers(t, refs) == \A c \in Identifying(t) : c \in DOMAIN refs /\ refs[c] \in Nat

Proper(r) ==
  /\ DOMAIN r = {"table", "id", "key", "refs", "gone"}
  /\ r.key \in Nat /\ r.gone \in BOOLEAN
  /\ Refers(r.table, r.refs)
  /\ r.gone => r.table \in {"teachers", "subjects", "curricula"}

Sound(table) ==
  /\ IsFiniteSet(table)
  /\ \A r \in table : Proper(r) /\ r.id \in Nat /\ Fits(r, table \ {r})

Batches == {"availability", "allocations"}
Written ==
  {"campuses", "locations", "types", "links", "preferences", "requests", "activities", "constraints",
   "replacements", "days", "events", "overlays", "teachers", "teaches", "subjects", "specialties",
   "curricula", "items"}

BodySound(t, b) ==
  /\ b.named \in Nat \cup {None}
  /\ b.key \in IF t \in {"preferences", "requests"} THEN Int ELSE Nat
  /\ Refers(t, b.refs)

ASSUME TablesConstants ==
  /\ None \notin Nat /\ MaxPage \in Nat \ {0} /\ Limits \subseteq Nat \ {0}
  /\ \A t \in Written : \A b \in Bodies[t] : BodySound(t, b)
  /\ \A t \in Batches : \A batch \in Bodies[t] :
       batch \in Seq(Range(batch)) /\ \A i \in DOMAIN batch : BodySound(t, batch[i])
  /\ \A s \in Shelves : Sound(s.rows)

TablesNext ==
  \/ \E w \in Officers :
       RoomWrites(w) \/ PlanWrites(w) \/ PeopleWrites(w) \/ CurriculumWrites(w) \/ Announces(w)
  \/ RoomLists \/ PlanLists \/ PeopleLists \/ CurriculumLists
  \/ NextPage

TablesSpec == TablesInit /\ [][TablesNext]_tableVars

-----------------------------------------------------------------------------
(* Whatever order statements come in, also when a row is saved after it or *)
(* what it refers to was deleted, when a client names the id of a new row, *)
(* when two requests create the same overlay: ids and keys are unique, and *)
(* every reference leads to a row that is there.                           *)
RowsSound ==
  \A r \in rows :
    /\ r.id \in Nat /\ r.key \in Nat /\ r.gone \in BOOLEAN
    /\ Fits(r, rows \ {r})
    /\ r.gone => r.table \in {"teachers", "subjects", "curricula"}

(* What a week of the schedule shows of a row.                             *)
ShownTables ==
  {"locations", "events", "overlays", "days", "groups", "subjects", "curricula", "items",
   "allocations", "weeks"}
ShownOf(t) ==
  {[r EXCEPT !.refs = [c \in DOMAIN @ \ {"campus", "activity"} |-> @[c]]] : r \in RowsOf(t)}

(* A change that weeks show comes from a request that then announces a new *)
(* version of the schedule, wherever a deletion reaches.  Campuses and     *)
(* activities are left out: no request that creates, renames, updates or   *)
(* deletes one announces anything, nor does one about teachers, types or   *)
(* preferences.                                                            *)
ShownChangesAnnounced ==
  [][\A t \in ShownTables :
       ShownOf(t)' # ShownOf(t) =>
         \E w \in Officers : officer'[w].todo # <<>> /\ Last(officer'[w].todo) = "announce"
                             /\ officer'[w] # officer[w]]_tableVars

(* A client that pages through a list that has pages (all but the links),  *)
(* with any limit, gets every row that is listed, and gets it once, when   *)
(* the table did not change meanwhile.                                     *)
PagesComplete ==
  page # None /\ page.calm /\ page.got # <<>> /\ Last(page.got) = {} =>
    /\ UNION Range(page.got) = Listed(page.table, page.scope)
    /\ page.offset = Cardinality(Listed(page.table, page.scope))

(* The tree of a list of items shows an item unless its parents lead into  *)
(* a circle of several items, none of which is a root.                     *)
ParentsEnd(items, r) ==
  LET up[n \in 0..(Cardinality(items) + 1)] ==
        IF n = 0 THEN r.id
        ELSE LET id == up[n-1]
                 at == {p \in items : p.id = id /\ Parent(p) # p.id}
             IN  IF at = {} THEN None ELSE Parent(CHOOSE p \in at : TRUE)
  IN  up[Cardinality(items) + 1] = None

TreeOf(items) == buildCurriculumItemTree(items) = {r \in items : ParentsEnd(items, r)}
TreeShowsAll ==
  /\ \A c \in {r.refs["curriculum"] : r \in RowsOf("items")} :
       TreeOf(Listed("items", [column |-> "curriculum", id |-> c]))
  /\ page # None /\ page.table = "items" => \A i \in DOMAIN page.got : TreeOf(page.got[i])
=============================================================================
