---------------------------- MODULE RoomAutofill ----------------------------
(***************************************************************************)
(* Room assignments by id (repository_rooms.go) and the autofill           *)
(* (service_location_autofill.go), which looks for lessons without a room  *)
(* and for occupied rooms, makes a plan in memory and only then opens the  *)
(* transaction that writes it.  Meanwhile clerks create, update, delete    *)
(* and override assignments.                                               *)
(*                                                                         *)
(* Lessons are numbered in the order the autofill meets them, and do not   *)
(* change.  A statement is a step.  The rows a transaction has written     *)
(* become visible when it commits; until then they, and the lessons of     *)
(* their unique key, are kept from other writers.  A whole override is one *)
(* step here: LessonTx has its statements.  The schedule version that every *)
(* handler writes after its commit is in WeekCache.                        *)
(***************************************************************************)
EXTENDS Values, Integers, Sequences, Functions

CONSTANTS
  FillLessons,      \* lesson numbers
  TimeOf,           \* day and pair of a lesson
  GroupOf,
  WithSubject,      \* the lessons that have a subject
  Places,           \* rooms
  VirtualPlaces,
  Candidates,       \* a sequence of rooms: ListAvailableLocationsForWeek
  Fillers, Clerks,
  FillRequests,     \* [group, replace, dry]
  ClerkRows,        \* what clerks ask for: [lesson, place, status]
  MaxRows,          \* bound: how many assignments are ever created
  MaxClerkWork      \* bound: how many writes of clerks

Assignment ==
  [id: 1..MaxRows, lesson: FillLessons, place: Places, status: {"draft", "published"}]

Asked == [lesson: FillLessons, place: Places, status: {"draft", "published"}]

ASSUME FillConstants ==
  /\ FillLessons \subseteq Nat /\ MaxRows \in Nat /\ ClerkRows \subseteq Asked
  /\ None \notin Fillers \cup Assignment

VARIABLES
  assignments,      \* rows [id, lesson, place, status]
  nextRow,
  fill,             \* of an autofill: [pc, req, needs, taken, plan, found, written]
  since,            \* history: the lessons whose assignment changed since its reads began
  held,             \* what a clerk's update has read: a row or None
  clerkWork

autofillVars == <<assignments, nextRow, fill, since, held, clerkWork>>

RowOf(l) == {a \in assignments : a.lesson = l}
PublishedPlace(l) == {a.place : a \in {a \in RowOf(l) : a.status = "published"}}

Run(pc, req, needs, taken, plan, found, written) ==
  [pc |-> pc, req |-> req, needs |-> needs, taken |-> taken, plan |-> plan,
   found |-> found, written |-> written]
NoPlan == [l \in {} |-> None]
Planning(pc, req, needs, taken) == Run(pc, req, needs, taken, NoPlan, None, {})
Writing(pc, req, plan, found, written) == Run(pc, req, {}, {}, plan, found, written)
Idle == Planning("idle", None, {}, {})

AutofillInit ==
  /\ assignments = {} /\ nextRow = 1
  /\ fill = [p \in Fillers |-> Idle]
  /\ since = [p \in Fillers |-> {}]
  /\ held = [c \in Clerks |-> None]
  /\ clerkWork = 0

-----------------------------------------------------------------------------
(* A committed change of the assignments of lessons ls, seen by every      *)
(* autofill that is under way.                                             *)
Changed(ls) ==
  since' = [p \in Fillers |-> IF fill[p].pc \in {"idle", "done"} THEN {} ELSE since[p] \cup ls]

\* Mutant: what is to be replaced need not be virtual.
NeedsAnyRoom(l, replace) == PublishedPlace(l) = {} \/ replace

(* lessonViewNeedsAutofill                                                 *)
NeedsRoom(l, replace) ==
  \/ PublishedPlace(l) = {}
  \/ replace /\ PublishedPlace(l) \subseteq VirtualPlaces

ReadLessons(p, req) ==
  /\ fill[p].pc = "idle"
  /\ LET needs == {l \in FillLessons : GroupOf[l] = req.group /\ NeedsRoom(l, req.replace)}
     IN  fill' = [fill EXCEPT ![p] = Planning("occupied", req, needs, {})]
  /\ UNCHANGED <<assignments, nextRow, since, held, clerkWork>>

(* occupiedLocationSlots: the lessons of all groups.                       *)
ReadOccupied(p) ==
  /\ fill[p].pc = "occupied"
  /\ LET taken == {<<TimeOf[a.lesson], a.place>> : a \in {a \in assignments : a.status = "published"}}
     IN  fill' = [fill EXCEPT ![p] = Planning("plan", fill[p].req, fill[p].needs, taken)]
  /\ UNCHANGED <<assignments, nextRow, since, held, clerkWork>>

\* Mutant: a room that was just given away is given again.
BusyForgetful(taken, plan, l) == taken

(* A room that is given to a lesson is taken for the lessons after it.     *)
Busy(taken, plan, l) == taken \cup {<<TimeOf[k], plan[k]>> : k \in {k \in DOMAIN plan : k < l}}

(* chooseFreeLocation: the first candidate that is free at that time.      *)
FirstFree(busy, l) ==
  {Candidates[i] : i \in {i \in DOMAIN Candidates :
     /\ <<TimeOf[l], Candidates[i]>> \notin busy
     /\ \A j \in 1..(i - 1) : <<TimeOf[l], Candidates[j]>> \in busy}}

(* A lesson without subject, or without a free candidate, is skipped.      *)
IsPlan(plan, needs, taken) ==
  \A l \in needs :
    LET free == IF l \in WithSubject THEN FirstFree(Busy(taken, plan, l), l) ELSE {}
    IN  IF l \in DOMAIN plan THEN plan[l] \in free ELSE free = {}

(* The loop over the lessons that need a room makes the one plan there is. *)
MakePlan(p) ==
  /\ fill[p].pc = "plan"
  /\ \E ls \in SUBSET fill[p].needs : \E plan \in [ls -> Places] :
       /\ IsPlan(plan, fill[p].needs, fill[p].taken)
       /\ LET pc == IF fill[p].req.dry \/ ls = {} THEN "done" ELSE "write"
          IN  fill' = [fill EXCEPT ![p] = Writing(pc, fill[p].req, plan, None, {})]
  /\ UNCHANGED <<assignments, nextRow, since, held, clerkWork>>
-----------------------------------------------------------------------------
(* Rows and lessons that the open transactions other than p's have written. *)
PendingRows(p) == UNION {fill[q].written : q \in Fillers \ {p}}
Free(p, a) ==
  \A w \in PendingRows(p) :
    /\ w.id # a.id /\ w.lesson # a.lesson
    /\ \A old \in assignments : old.id = w.id => old.lesson # a.lesson

\* Mutant: the assignments of a lesson have no unique key.
KeyAlwaysFree(a, table) == TRUE
KeyFree(a, table) == \A b \in table : b.lesson = a.lesson => b.id = a.id

(* gorm's Save: UPDATE by primary key, and an INSERT when nothing matches. *)
Saved(a, table) == {b \in table : b.id # a.id} \cup {a}

(* What the open transaction of autofill p sees: its own rows first.       *)
Seen(p) == {b \in assignments : \A w \in fill[p].written : b.id # w.id} \cup fill[p].written

(* The lesson the transaction has come to.                                 *)
Todo(p) == {l \in DOMAIN fill[p].plan : \A k \in DOMAIN fill[p].plan : l <= k}

(* upsertRoomAssignmentForLesson: the row is read ...                      *)
LookUp(p, l) ==
  /\ fill[p].pc = "write"
  /\ LET old == {a \in Seen(p) : a.lesson = l}
         found == IF old = {} THEN None ELSE CHOOSE a \in old : TRUE
     IN  fill' = [fill EXCEPT ![p] = Writing("upsert", fill[p].req, fill[p].plan, found, fill[p].written)]
  /\ UNCHANGED <<assignments, nextRow, since, held, clerkWork>>

(* ... and written: created, or saved as it was read, with the new room.   *)
Upsert(p, l) ==
  /\ fill[p].pc = "upsert"
  /\ LET new == fill[p].found = None
         row == [id |-> IF new THEN nextRow ELSE fill[p].found.id, lesson |-> l,
                 place |-> fill[p].plan[l], status |-> "published"]
         rest == Restrict(fill[p].plan, DOMAIN fill[p].plan \ {l})
     IN  /\ row.id <= MaxRows
         /\ Free(p, row) /\ KeyFree(row, Seen(p))
         /\ fill' = [fill EXCEPT ![p] =
              Writing("write", fill[p].req, rest, None, Saved(row, fill[p].written))]
         /\ nextRow' = IF new THEN nextRow + 1 ELSE nextRow
  /\ UNCHANGED <<assignments, since, held, clerkWork>>

LessonsOf(rows) == {a.lesson : a \in rows}

CommitFill(p) ==
  /\ fill[p].pc = "write" /\ DOMAIN fill[p].plan = {}
  /\ assignments' = Seen(p)
  /\ Changed(LessonsOf((assignments \ Seen(p)) \cup (Seen(p) \ assignments)))
  /\ fill' = [fill EXCEPT ![p] = Writing("done", fill[p].req, NoPlan, None, {})]
  /\ UNCHANGED <<nextRow, held, clerkWork>>

(* A statement fails, or the server stops: ROLLBACK.                       *)
AbortFill(p) ==
  /\ fill[p].pc \in {"write", "upsert"}
  /\ fill' = [fill EXCEPT ![p] = Planning("done", None, {}, {})]
  /\ UNCHANGED <<assignments, nextRow, since, held, clerkWork>>

-----------------------------------------------------------------------------
(* A write of a clerk's that commits at once.                              *)
ClerkWrites(table, ls) ==
  /\ clerkWork < MaxClerkWork
  /\ clerkWork' = clerkWork + 1
  /\ assignments' = table
  /\ Changed(ls)
  /\ UNCHANGED fill

Identified(i, b) == [id |-> i, lesson |-> b.lesson, place |-> b.place, status |-> b.status]

(* CreateRoomAssignment                                                    *)
CreateRow(b) ==
  LET a == Identified(nextRow, b)
  IN  /\ nextRow <= MaxRows
      /\ Free(None, a) /\ KeyFree(a, assignments)
      /\ ClerkWrites(assignments \cup {a}, {a.lesson})
      /\ nextRow' = nextRow + 1
      /\ UNCHANGED held

(* UpdateRoomAssignment: First ...                                         *)
ReadRow(c, a) ==
  /\ held[c] = None
  /\ held' = [held EXCEPT ![c] = a]
  /\ UNCHANGED <<assignments, nextRow, fill, since, clerkWork>>

(* ... and Save of every column.  A unique key that is taken refuses it.   *)
SaveRow(c, b) ==
  LET a == Identified(held[c].id, b)
  IN  /\ held[c] # None
      /\ held' = [held EXCEPT ![c] = None]
      /\ \/ /\ Free(None, a) /\ KeyFree(a, assignments)
            /\ ClerkWrites(Saved(a, assignments),
                           LessonsOf({old \in assignments : old.id = a.id} \cup {a}))
         \/ /\ ~KeyFree(a, assignments)
            /\ UNCHANGED <<assignments, fill, since, clerkWork>>
      /\ UNCHANGED nextRow

(* DeleteRoomAssignment                                                    *)
DeleteRow(a) ==
  /\ Free(None, a)
  /\ ClerkWrites(assignments \ {a}, {a.lesson})
  /\ UNCHANGED <<nextRow, held>>

(* applyExistingLessonOverride with a location: it looks for other lessons *)
(* in the room, then writes as the autofill does.                          *)
OverridePlace(l, r) ==
  LET old == RowOf(l)
      row == [id |-> IF old = {} THEN nextRow ELSE (CHOOSE a \in old : TRUE).id,
              lesson |-> l, place |-> r, status |-> "published"]
  IN  /\ row.id <= MaxRows
      /\ r \in VirtualPlaces \/ \A k \in FillLessons \ {l} : TimeOf[k] = TimeOf[l] => r \notin PublishedPlace(k)
      /\ Free(None, row)
      /\ ClerkWrites(Saved(row, assignments), {l})
      /\ nextRow' = IF old = {} THEN nextRow + 1 ELSE nextRow
      /\ UNCHANGED held

AutofillNext ==
  \/ \E p \in Fillers :
       \/ \E req \in FillRequests : ReadLessons(p, req)
       \/ ReadOccupied(p) \/ MakePlan(p) \/ CommitFill(p) \/ AbortFill(p)
       \/ \E l \in Todo(p) : LookUp(p, l) \/ Upsert(p, l)
  \/ \E b \in ClerkRows : CreateRow(b) \/ \E c \in Clerks : SaveRow(c, b)
  \/ \E a \in assignments : DeleteRow(a) \/ \E c \in Clerks : ReadRow(c, a)
  \/ \E b \in ClerkRows : OverridePlace(b.lesson, b.place)

AutofillSpec == AutofillInit /\ [][AutofillNext]_autofillVars

-----------------------------------------------------------------------------
(* A lesson has one assignment, whoever wrote last.  An update that brings *)
(* a deleted assignment back never puts it next to a newer one.            *)
OneRowPerLesson ==
  \A a, b \in assignments : a.id = b.id \/ a.lesson = b.lesson => a = b

Committing(p) == fill[p].written # {} /\ fill'[p].written = {} /\ assignments' # assignments
Filled(p) == LessonsOf(fill[p].written)

(* An autofill gives a room away twice at one time only when the other     *)
(* lesson's assignment was changed after the autofill began to read, and   *)
(* never to two lessons of its own: nothing but a stale read lets two      *)
(* lessons meet in a room.                                                 *)
ClashesAreNewer ==
  [][\A p \in Fillers : Committing(p) =>
       \A l \in Filled(p) : \A k \in FillLessons \ {l} :
         TimeOf[k] = TimeOf[l] /\ (PublishedPlace(k) \cap PublishedPlace(l))' # {}
           => k \in since[p] \ Filled(p)]_autofillVars

(* An autofill takes no published room away from a lesson, unless it was   *)
(* asked to and the room is virtual, or the room came after its reads.     *)
RoomsKept ==
  [][\A p \in Fillers : Committing(p) =>
       \A l \in Filled(p) :
         \/ PublishedPlace(l) = {} \/ l \in since[p]
         \/ fill[p].req.replace /\ PublishedPlace(l) \subseteq VirtualPlaces]_autofillVars
=============================================================================
