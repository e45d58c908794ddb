------------------------------ MODULE LessonTx ------------------------------
(***************************************************************************)
(* The write path of the schedule, statement by statement.  Each element   *)
(* of Proc is one HTTP request of the admin API served by its own          *)
(* goroutine; PostgreSQL runs its statements at READ COMMITTED.  A step of *)
(* the model is one SQL statement (with the in-memory checks that follow   *)
(* it): a SELECT sees the rows committed at that moment, a row lock is     *)
(* held to the end of the transaction, and the writes of a transaction     *)
(* stay private until Commit.                                              *)
(*                                                                         *)
(* Modelled: ApplyScheduleOverride with its four actions, creating,        *)
(* editing and deleting a lesson, inserting and deleting a room            *)
(* assignment, changing a day or teacher constraint, the version bump of   *)
(* each of them, and a crash of the API process.  subject stands for every *)
(* field an override replaces on its own (subject, format).                *)
(***************************************************************************)
EXTENDS LessonRegister, FiniteSets

CONSTANTS Proc,          \* requests
          Day, Time,     \* dates; (date, pair) combinations
          DayOf, TimeOf, \* [Slot -> Day], [Slot -> Time]
          Virtual,       \* locations of kind virtual or of type online
          InitLessons, InitRooms, InitDayRule, InitTeacherRule,
          Requests,      \* the request bodies clients send
          MaxInFlight    \* bound: requests served at the same time

VARIABLES rooms,         \* [LessonId -> Room]: room_assignments, unique per lesson
          dayRule,       \* [Day -> DayRules]: calendar_day_constraints
          teacherRule,   \* [Teacher \X Day -> TeacherRules]: teacher_day_constraints
          dataVersion,   \* how often system_state.schedule_version was written
          issued,        \* lesson keys drawn from the sequence
          lock,          \* [LessonId -> Proc or None]: lesson row locks
          sysLock,       \* who has an uncommitted write of system_state
          pc, req,       \* program counter and request of each Proc
          mine,          \* the lesson a request works on
          seen,          \* the lesson row its locking SELECT returned
          seenRoom,      \* the room assignment it read
          overtaken      \* history, read by no guard: the rules a request has
                         \* looked at that were written after it did

vars == <<lessons, journal, rooms, dayRule, teacherRule, dataVersion, issued,
          lock, sysLock, pc, req, mine, seen, seenRoom, overtaken>>

Room   == [loc : Location \cup {None}, shown : BOOLEAN]
NoRoom == [loc |-> None, shown |-> FALSE]

DayRules     == {"open", "confirm", "closed"}
TeacherRules == {"free", "warning", "hard_block"}

OverrideOps == Actions
InsertOps   == {"add", "create"}
LockOps     == {"replace", "restore", "cancel", "update"}
PlaceOps    == {"add", "replace", "restore"}
Ops == Actions \cup {"create", "update", "delete", "room_create", "room_delete",
                     "day_rule", "teacher_rule"}

Request == [op : Ops, id : LessonId \cup {None}, slot : Slot \cup {None},
            subject : Subject \cup {None}, teacher : Teacher \cup {None},
            loc : Location \cup {None}, flow : Flow \cup {None},
            status : {"draft", "published", "cancelled"}, expected : Nat,
            okDay : BOOLEAN, okTeacher : BOOLEAN,
            rule : DayRules \cup TeacherRules, day : Day \cup {None}]

Labels == {"idle", "find", "lock", "room", "slot", "day", "teacher", "avail",
           "save", "place", "bump", "commit", "after", "remove", "claim", "fk",
           "unroom", "rule", "done"}

TypeOK ==
    /\ lessons \in [LessonId -> Row]
    /\ journal \in Seq(Entry)
    /\ rooms \in [LessonId -> Room]
    /\ dayRule \in [Day -> DayRules]
    /\ teacherRule \in [Teacher \X Day -> TeacherRules]
    /\ dataVersion \in Nat
    /\ issued \subseteq LessonId
    /\ lock \in [LessonId -> Proc \cup {None}]
    /\ sysLock \in Proc \cup {None}
    /\ pc \in [Proc -> Labels]
    /\ req \in [Proc -> Requests]
    /\ mine \in [Proc -> LessonId \cup {None}]
    /\ seen \in [Proc -> Row]
    /\ seenRoom \in [Proc -> Room]
    /\ overtaken \in [Proc -> SUBSET {"day", "teacher"}]

ASSUME ConstantsOK ==
    /\ None \notin Proc \cup LessonId \cup Slot \cup Subject \cup Teacher
                   \cup Flow \cup Location \cup Day
    /\ DayOf \in [Slot -> Day] /\ TimeOf \in [Slot -> Time]
    /\ Virtual \subseteq Location
    /\ Requests \subseteq Request /\ Requests # {}
    /\ MaxInFlight \in Nat \ {0}

\* A database the migrations accept: live lessons have a slot of their own,
\* room assignments belong to lessons.
ASSUME InitialDatabaseOK ==
    /\ InitLessons \in [LessonId -> Row]
    /\ InitRooms \in [LessonId -> Room]
    /\ InitDayRule \in [Day -> DayRules]
    /\ InitTeacherRule \in [Teacher \X Day -> TeacherRules]
    /\ \A l \in LessonId :
          /\ Exists(InitLessons[l]) => InitLessons[l].slot \in Slot
          /\ ~Exists(InitLessons[l]) => /\ InitLessons[l] = NoRow
                                        /\ InitRooms[l] = NoRoom
          /\ \A k \in LessonId \ {l} :
                Active(InitLessons[l]) /\ Active(InitLessons[k])
                   => InitLessons[l].slot # InitLessons[k].slot

\* What a client may ask for: fields the handlers insist on are present.
ASSUME RequestsOK == \A r \in Requests :
    /\ r.op \in InsertOps \cup {"update"} => r.slot \in Slot
    /\ r.op \in LockOps => r.id \in LessonId \/ r.slot \in Slot
    /\ r.op \in {"update", "delete", "room_create", "room_delete"} => r.id \in LessonId
    /\ r.op = "room_create" => r.loc \in Location
    /\ r.op \in {"day_rule", "teacher_rule"} => r.day \in Day
    /\ r.op = "day_rule" => r.rule \in DayRules
    /\ r.op = "teacher_rule" => r.teacher \in Teacher /\ r.rule \in TeacherRules

-----------------------------------------------------------------------------
(* The row a request is about to write, from the row it read. *)

Pick(new, old) == IF new = None THEN old ELSE new

\* Mutant: a cancellation forgets to raise the version.
CancelKeepsVersion(p) ==
    CASE req[p].op = "cancel" -> [seen[p] EXCEPT !.status = "cancelled"]
      [] req[p].op \in {"replace", "restore"} ->
           [seen[p] EXCEPT !.subject = Pick(req[p].subject, @),
                           !.teacher = Pick(req[p].teacher, @),
                           !.status = "published", !.version = @ + 1]
      [] OTHER ->
           [slot |-> req[p].slot, subject |-> req[p].subject, teacher |-> req[p].teacher,
            flow |-> req[p].flow, status |-> req[p].status, version |-> seen[p].version + 1]

RowToWrite(p) ==
    LET r == req[p]
        s == seen[p]
    IN  CASE r.op = "cancel" ->
               [s EXCEPT !.status = "cancelled", !.version = @ + 1]
          [] r.op \in {"replace", "restore"} ->
               [s EXCEPT !.subject = Pick(r.subject, @), !.teacher = Pick(r.teacher, @),
                         !.status = "published", !.version = @ + 1]
          [] r.op = "add" ->
               [slot |-> r.slot, subject |-> r.subject, teacher |-> r.teacher,
                flow |-> None, status |-> "published", version |-> s.version + 1]
          [] OTHER ->    \* create and update take the whole row from the body
               [slot |-> r.slot, subject |-> r.subject, teacher |-> r.teacher,
                flow |-> r.flow, status |-> r.status, version |-> s.version + 1]

\* The room an override leaves the lesson in: the one asked for, else the one
\* it read before.
NextLoc(p) == IF req[p].op \in PlaceOps THEN Pick(req[p].loc, seenRoom[p].loc) ELSE None

\* Mutant: the replacement side is taken before the lesson is changed.
EntryBeforeChange(p) ==
    [lesson |-> mine[p], action |-> req[p].op,
     expected |-> IF req[p].op = "add" THEN 0 ELSE req[p].expected,
     applied |-> RowToWrite(p).version,
     source |-> IF req[p].op = "add" THEN Nothing ELSE Snap(seen[p]),
     became |-> IF req[p].op = "cancel" THEN Nothing ELSE Snap(seen[p]),
     sourceRoom |-> seenRoom[p].loc, becameRoom |-> NextLoc(p)]

EntryToWrite(p) ==
    LET r == req[p]
    IN  [lesson |-> mine[p], action |-> r.op,
         expected   |-> IF r.op = "add" THEN 0 ELSE r.expected,
         applied    |-> RowToWrite(p).version,
         source     |-> IF r.op = "add" THEN Nothing ELSE Snap(seen[p]),
         became     |-> IF r.op = "cancel" THEN Nothing ELSE Snap(RowToWrite(p)),
         sourceRoom |-> seenRoom[p].loc,
         becameRoom |-> NextLoc(p)]

\* An insert has no row of its own to except from a check.
OtherLessons(p) == IF req[p].op \in InsertOps THEN LessonId ELSE LessonId \ {mine[p]}

\* Statements already executed but not committed.
Saved(p)  == pc[p] \in {"place", "bump", "commit"}
Placed(p) == pc[p] \in {"bump", "commit"} /\ NextLoc(p) # None

-----------------------------------------------------------------------------
(* Waiting.  A statement that needs a row another transaction holds waits  *)
(* for that transaction to end.                                            *)

\* An unfinished transaction that put the slot into the unique index, or
\* that took the live lesson of the slot out of it.
HoldsSlot(q, slot) ==
    /\ Saved(q)
    /\ \/ Active(RowToWrite(q)) /\ RowToWrite(q).slot = slot
       \/ Active(lessons[mine[q]]) /\ lessons[mine[q]].slot = slot

\* An unfinished transaction that wrote the room assignment of lesson l.
HoldsRoom(q, l) ==
    \/ Placed(q) /\ mine[q] = l
    \/ pc[q] = "fk" /\ req[q].id = l

WaitsFor(p) ==
    CASE pc[p] = "lock" -> {lock[mine[p]]} \ {None}
      [] pc[p] = "save" /\ Active(RowToWrite(p)) ->
           {q \in Proc \ {p} : HoldsSlot(q, RowToWrite(p).slot)}
      [] pc[p] = "place" -> {q \in Proc \ {p} : HoldsRoom(q, mine[p])}
      [] pc[p] \in {"bump", "after"} -> {sysLock} \ {None}
      [] pc[p] \in {"remove", "fk"} /\ Exists(lessons[req[p].id]) ->
           {lock[req[p].id]} \ {None}
      [] pc[p] = "claim" -> {q \in Proc \ {p} : HoldsRoom(q, req[p].id)}
      [] pc[p] = "unroom" /\ rooms[req[p].id] # NoRoom ->
           {q \in Proc \ {p} : HoldsRoom(q, req[p].id)}
      [] OTHER -> {}

Runs(p) == WaitsFor(p) = {}

\* p and q each wait for the other: PostgreSQL's deadlock detector ends one.
Deadlocked(p) == \E q \in WaitsFor(p) : p \in WaitsFor(q)

-----------------------------------------------------------------------------
(* Steps. *)

Goto(p, label) == pc' = [pc EXCEPT ![p] = label]

WithoutLocksOf(p) == [l \in LessonId |-> IF lock[l] = p THEN None ELSE lock[l]]

dbVars  == <<lessons, journal, rooms, dayRule, teacherRule, overtaken, dataVersion>>
txVars  == <<issued, lock, sysLock, req, mine, seen, seenRoom>>

\* Mutant: the error path returns without rolling back.
FailWithoutRollback(p) ==
    Goto(p, "done") /\ UNCHANGED <<dbVars, issued, lock, sysLock, req, mine, seen, seenRoom>>

\* Any error return: the transaction is rolled back, its locks are released.
Fail(p) ==
    /\ Goto(p, "done")
    /\ lock' = WithoutLocksOf(p)
    /\ UNCHANGED <<dbVars, issued, sysLock, req, mine, seen, seenRoom>>

\* First statement of the handler of each operation.
Entrance(r) ==
    CASE r.op \in LockOps -> "find"
      [] r.op = "add" -> "slot"
      [] r.op = "create" -> IF r.status = "cancelled" THEN "teacher" ELSE "day"
      [] r.op = "delete" -> "remove"
      [] r.op = "room_create" -> "claim"
      [] r.op = "room_delete" -> "unroom"
      [] OTHER -> "rule"

Begin(p) ==
    /\ pc[p] = "idle"
    /\ Cardinality({q \in Proc : pc[q] \notin {"idle", "done"}}) < MaxInFlight
    /\ \E r \in Requests : /\ req' = [req EXCEPT ![p] = r]
                           /\ Goto(p, Entrance(r))
    /\ UNCHANGED <<dbVars, issued, lock, sysLock, mine, seen, seenRoom>>

\* The WHERE clause of the locking SELECT: by id, or the live lesson of a slot.
Wanted(p, l) ==
    /\ Exists(lessons[l])
    /\ IF req[p].id # None THEN l = req[p].id
       ELSE Active(lessons[l]) /\ lessons[l].slot = req[p].slot

\* Mutant: a cancellation bumps the version first, not last.
FindAfterBump(p) ==
    /\ pc[p] = "find" /\ (req[p].op = "cancel" => sysLock = None)
    /\ \E l \in LessonId : Wanted(p, l) /\ mine' = [mine EXCEPT ![p] = l]
    /\ sysLock' = IF req[p].op = "cancel" THEN p ELSE sysLock
    /\ Goto(p, "lock")
    /\ UNCHANGED <<dbVars, issued, lock, req, seen, seenRoom>>

\* The snapshot of SELECT ... FOR UPDATE picks the row it will lock.
FindLesson(p) ==
    /\ pc[p] = "find"
    /\ \/ \E l \in LessonId : /\ Wanted(p, l)
                              /\ mine' = [mine EXCEPT ![p] = l]
          /\ Goto(p, "lock")
          /\ UNCHANGED <<dbVars, issued, lock, sysLock, req, seen, seenRoom>>
       \/ ~(\E l \in LessonId : Wanted(p, l)) /\ Fail(p)

\* Mutant: the lesson is read without FOR UPDATE.
ReadLessonUnlocked(p) ==
    /\ pc[p] = "lock"
    /\ Wanted(p, mine[p]) /\ req[p].expected \in {0, lessons[mine[p]].version}
    /\ seen' = [seen EXCEPT ![p] = lessons[mine[p]]]
    /\ Goto(p, IF req[p].op = "update" THEN "day" ELSE "room")
    /\ UNCHANGED <<dbVars, issued, lock, sysLock, req, mine, seenRoom>>

\* Mutant: the expected version is not compared.
LockAnyVersion(p) ==
    /\ pc[p] = "lock" /\ Runs(p)
    /\ IF Wanted(p, mine[p])
       THEN /\ lock' = [lock EXCEPT ![mine[p]] = p]
            /\ seen' = [seen EXCEPT ![p] = lessons[mine[p]]]
            /\ Goto(p, IF req[p].op = "update" THEN "day" ELSE "room")
            /\ UNCHANGED <<dbVars, issued, sysLock, req, mine, seenRoom>>
       ELSE Fail(p)

\* Once the row is free its newest version is locked and returned, if it still
\* matches; then the version the client expects is compared.
LockLesson(p) ==
    /\ pc[p] = "lock" /\ Runs(p)
    /\ IF /\ Wanted(p, mine[p])
          /\ req[p].expected \in {0, lessons[mine[p]].version}
       THEN /\ lock' = [lock EXCEPT ![mine[p]] = p]
            /\ seen' = [seen EXCEPT ![p] = lessons[mine[p]]]
            /\ Goto(p, IF req[p].op # "update" THEN "room"
                       ELSE IF req[p].status = "cancelled" THEN "teacher" ELSE "day")
            /\ UNCHANGED <<dbVars, issued, sysLock, req, mine, seenRoom>>
       ELSE Fail(p)

\* getRoomAssignmentForLesson: no lock, any status.
ReadRoom(p) ==
    /\ pc[p] = "room"
    /\ seenRoom' = [seenRoom EXCEPT ![p] = rooms[mine[p]]]
    /\ Goto(p, IF req[p].op = "cancel" THEN "save" ELSE "day")
    /\ UNCHANGED <<dbVars, issued, lock, sysLock, req, mine, seen>>

CheckSlotEmpty(p) ==
    /\ pc[p] = "slot"
    /\ IF \/ \E l \in LessonId : Active(lessons[l]) /\ lessons[l].slot = req[p].slot
          \/ req[p].subject = None
       THEN Fail(p)
       ELSE Goto(p, "day") /\ UNCHANGED <<dbVars, txVars>>

\* Mutant: a confirmation opens a closed day.
CheckDayConfirmed(p) ==
    /\ pc[p] = "day"
    /\ IF dayRule[DayOf[RowToWrite(p).slot]] = "open" \/ req[p].okDay
       THEN Goto(p, "teacher") /\ UNCHANGED <<dbVars, txVars>>
       ELSE Fail(p)

CheckDay(p) ==
    /\ pc[p] = "day"
    /\ LET rule == dayRule[DayOf[RowToWrite(p).slot]]
       IN  IF rule = "open" \/ (rule = "confirm" /\ req[p].okDay)
           THEN Goto(p, "teacher") /\ UNCHANGED <<dbVars, txVars>>
           ELSE Fail(p)

TeacherAllows(p) ==
    LET t == RowToWrite(p).teacher
        d == DayOf[RowToWrite(p).slot]
    IN  \/ t = None
        \/ teacherRule[<<t, d>>] = "free"
        \/ teacherRule[<<t, d>>] = "warning" /\ req[p].okTeacher

CheckTeacher(p) ==
    /\ pc[p] = "teacher"
    /\ IF TeacherAllows(p)
       THEN /\ Goto(p, IF NextLoc(p) # None THEN "avail" ELSE "save")
            /\ UNCHANGED <<dbVars, txVars>>
       ELSE Fail(p)

\* Lessons of different flows, or of no flow, cannot share a room.
SameFlow(f, g) == f # None /\ f = g

RoomTakenBy(l, loc, slot, flow) ==
    /\ Active(lessons[l]) /\ rooms[l] = [loc |-> loc, shown |-> TRUE]
    /\ TimeOf[lessons[l].slot] = TimeOf[slot]
    /\ ~SameFlow(lessons[l].flow, flow)

CheckRoom(p) ==
    /\ pc[p] = "avail"
    /\ LET row == RowToWrite(p)
       IN  IF \/ NextLoc(p) \in Virtual
              \/ \A l \in OtherLessons(p) :
                    ~RoomTakenBy(l, NextLoc(p), row.slot, row.flow)
           THEN Goto(p, "save") /\ UNCHANGED <<dbVars, txVars>>
           ELSE Fail(p)

\* The next statement after the lesson is saved.
AfterSave(p) == IF req[p].op \notin OverrideOps THEN "commit"
                ELSE IF NextLoc(p) # None THEN "place" ELSE "bump"

\* Mutant: the unique index covers published lessons only.
SlotTakenByPublished(p) ==
    RowToWrite(p).status = "published" /\ \E k \in OtherLessons(p) :
        lessons[k].status = "published" /\ lessons[k].slot = RowToWrite(p).slot

SlotTaken(p) ==
    Active(RowToWrite(p)) /\ \E k \in OtherLessons(p) :
        Active(lessons[k]) /\ lessons[k].slot = RowToWrite(p).slot

\* INSERT or UPDATE of schedule_lessons under uidx_schedule_lessons_slot.
SaveLesson(p) ==
    /\ pc[p] = "save" /\ Runs(p)
    /\ IF SlotTaken(p) THEN Fail(p)
       ELSE /\ Goto(p, AfterSave(p))
            /\ IF req[p].op \in InsertOps
               THEN \E l \in LessonId \ issued :
                      /\ issued' = issued \cup {l}
                      /\ mine' = [mine EXCEPT ![p] = l]
                      /\ lock' = [lock EXCEPT ![l] = p]
               ELSE UNCHANGED <<issued, mine, lock>>
            /\ UNCHANGED <<dbVars, sysLock, req, seen, seenRoom>>

\* upsertRoomAssignmentForLesson; the row itself is written at Commit.
PlaceRoom(p) ==
    /\ pc[p] = "place" /\ Runs(p)
    /\ Goto(p, "bump")
    /\ UNCHANGED <<dbVars, txVars>>

\* bumpScheduleVersionTx, the last statement of an override.
Bump(p) ==
    /\ pc[p] = "bump" /\ Runs(p)
    /\ sysLock' = p
    /\ Goto(p, "commit")
    /\ UNCHANGED <<dbVars, issued, lock, req, mine, seen, seenRoom>>

\* COMMIT publishes the lesson, the room assignment, the journal entry and the
\* version of an override together; a handler of a plain edit has its lesson
\* published and still has to bump the version.
Commit(p) ==
    /\ pc[p] = "commit"
    /\ lessons' = [lessons EXCEPT ![mine[p]] = RowToWrite(p)]
    /\ rooms' = IF NextLoc(p) = None THEN rooms
                ELSE [rooms EXCEPT ![mine[p]] = [loc |-> NextLoc(p), shown |-> TRUE]]
    /\ IF req[p].op \in OverrideOps
       THEN /\ journal' = Append(journal, EntryToWrite(p))
            /\ dataVersion' = dataVersion + 1
            /\ sysLock' = None
            /\ Goto(p, "done")
       ELSE Goto(p, "after") /\ UNCHANGED <<journal, dataVersion, sysLock>>
    /\ lock' = WithoutLocksOf(p)
    /\ UNCHANGED <<dayRule, teacherRule, overtaken, issued, req, mine, seen, seenRoom>>

\* bumpScheduleVersionAndGet, a statement of its own after the change.
BumpAfter(p) ==
    /\ pc[p] = "after" /\ Runs(p)
    /\ dataVersion' = dataVersion + 1
    /\ Goto(p, "done")
    /\ UNCHANGED <<lessons, journal, rooms, dayRule, teacherRule, overtaken, txVars>>

\* DELETE cascades to the room assignment and orphans the journal entries;
\* deleting a lesson that is not there is no error.
DeleteLesson(p) ==
    LET l == req[p].id
    IN  /\ pc[p] = "remove" /\ Runs(p)
        /\ lessons' = [lessons EXCEPT ![l] = NoRow]
        /\ rooms' = [rooms EXCEPT ![l] = NoRoom]
        /\ journal' = Orphaned(l)
        /\ Goto(p, "after")
        /\ UNCHANGED <<dayRule, teacherRule, overtaken, dataVersion, txVars>>

\* INSERT INTO room_assignments: first the unique key of the lesson ...
ClaimRoom(p) ==
    /\ pc[p] = "claim" /\ Runs(p)
    /\ IF rooms[req[p].id] # NoRoom THEN Fail(p)
       ELSE Goto(p, "fk") /\ UNCHANGED <<dbVars, txVars>>

\* Mutant: the room assignment has no foreign key.
InsertRoomUnchecked(p) ==
    /\ pc[p] = "fk" /\ Runs(p)
    /\ rooms' = [rooms EXCEPT ![req[p].id] = [loc |-> req[p].loc, shown |-> TRUE]]
    /\ Goto(p, "after")
    /\ UNCHANGED <<lessons, journal, dayRule, teacherRule, overtaken, dataVersion,
                   txVars>>

\* ... then the foreign key, which locks the lesson row for the key check.
InsertRoom(p) ==
    LET l == req[p].id
    IN  /\ pc[p] = "fk" /\ Runs(p)
        /\ IF Exists(lessons[l])
           THEN /\ rooms' = [rooms EXCEPT ![l] =
                               [loc |-> req[p].loc, shown |-> req[p].status = "published"]]
                /\ Goto(p, "after")
                /\ UNCHANGED <<lessons, journal, dayRule, teacherRule, overtaken, dataVersion,
                               txVars>>
           ELSE Fail(p)

DeleteRoom(p) ==
    /\ pc[p] = "unroom" /\ Runs(p)
    /\ rooms' = [rooms EXCEPT ![req[p].id] = NoRoom]
    /\ Goto(p, "after")
    /\ UNCHANGED <<lessons, journal, dayRule, teacherRule, overtaken, dataVersion,
                   txVars>>

\* The rule of the day, and of the teacher, has let the request pass.
PastTeacher(q) == pc[q] \in {"avail", "save", "place", "bump", "commit"}
PastDay(q)     == pc[q] = "teacher" \/ PastTeacher(q)

\* A constraint of a day bumps the version, one of a teacher does not.
SetDayRule(p) ==
    /\ pc[p] = "rule" /\ req[p].op = "day_rule"
    /\ dayRule' = [dayRule EXCEPT ![req[p].day] = req[p].rule]
    /\ overtaken' = [q \in Proc |-> overtaken[q] \cup
          {k \in {"day"} : PastDay(q) /\ DayOf[RowToWrite(q).slot] = req[p].day}]
    /\ Goto(p, "after")
    /\ UNCHANGED <<lessons, journal, rooms, teacherRule, dataVersion, txVars>>

SetTeacherRule(p) ==
    /\ pc[p] = "rule" /\ req[p].op = "teacher_rule"
    /\ teacherRule' = [teacherRule EXCEPT ![<<req[p].teacher, req[p].day>>] = req[p].rule]
    /\ overtaken' = [q \in Proc |-> overtaken[q] \cup
          {k \in {"teacher"} : /\ PastTeacher(q) /\ RowToWrite(q).teacher = req[p].teacher
                               /\ DayOf[RowToWrite(q).slot] = req[p].day}]
    /\ Goto(p, "done")
    /\ UNCHANGED <<lessons, journal, rooms, dayRule, dataVersion, txVars>>

BreakDeadlock(p) == Deadlocked(p) /\ Fail(p)

\* The API process dies: every open transaction is rolled back by PostgreSQL,
\* bumps that were still to come never happen.
Crash ==
    /\ \E p \in Proc : pc[p] \notin {"idle", "done"}
    /\ pc' = [p \in Proc |-> IF pc[p] = "idle" THEN "idle" ELSE "done"]
    /\ lock' = [l \in LessonId |-> None]
    /\ sysLock' = None
    /\ UNCHANGED <<dbVars, issued, req, mine, seen, seenRoom>>

Step(p) == \/ FindLesson(p) \/ LockLesson(p) \/ ReadRoom(p) \/ CheckSlotEmpty(p)
           \/ CheckDay(p) \/ CheckTeacher(p) \/ CheckRoom(p) \/ SaveLesson(p)
           \/ PlaceRoom(p) \/ Bump(p) \/ Commit(p) \/ BumpAfter(p)
           \/ DeleteLesson(p) \/ ClaimRoom(p) \/ InsertRoom(p) \/ DeleteRoom(p)
           \/ SetDayRule(p) \/ SetTeacherRule(p) \/ BreakDeadlock(p)

\* Every request has been answered: nothing is left to do.
AllAnswered == (\A p \in Proc : pc[p] = "done") /\ UNCHANGED vars

Next == \/ \E p \in Proc : Begin(p) \/ Step(p)
        \/ Crash
        \/ AllAnswered

Init ==
    /\ lessons = InitLessons /\ journal = << >> /\ rooms = InitRooms
    /\ dayRule = InitDayRule /\ teacherRule = InitTeacherRule
    /\ dataVersion = 0
    /\ issued = {l \in LessonId : Exists(InitLessons[l])}
    /\ lock = [l \in LessonId |-> None] /\ sysLock = None
    /\ pc = [p \in Proc |-> "idle"]
    /\ req \in [Proc -> {CHOOSE r \in Requests : TRUE}]
    /\ mine = [p \in Proc |-> None]
    /\ seen = [p \in Proc |-> NoRow] /\ seenRoom = [p \in Proc |-> NoRoom]
    /\ overtaken = [p \in Proc |-> {}]

Spec == Init /\ [][Next]_vars

\* A statement that can run is run, and PostgreSQL resolves deadlocks.
FairSpec == Spec /\ \A p \in Proc : WF_vars(Step(p))

-----------------------------------------------------------------------------
(* Properties. *)

\* No two live lessons of a group share date, pair and subgroup, whatever
\* inserts, edits and restorations run at once.
SlotUnique ==
    \A k, l \in LessonId : k # l /\ Active(lessons[k]) /\ Active(lessons[l])
                             => lessons[k].slot # lessons[l].slot

\* From its locking SELECT to its end a transaction works on the newest version
\* of its lesson: what it writes back overwrites nothing it has not seen.
HoldsRow(p) ==
    \/ req[p].op \in LockOps /\ pc[p] \in {"room", "day", "teacher", "avail", "save",
                                           "place", "bump", "commit"}
    \/ req[p].op \in InsertOps /\ Saved(p)

NoLostUpdate == \A p \in Proc : HoldsRow(p) => seen[p] = lessons[mine[p]]

\* An edit or override that named the version it was made for is only ever
\* committed on top of that version.
ExpectedVersionHonoured ==
    \A p \in Proc : pc[p] = "commit" /\ req[p].op \in LockOps /\ req[p].expected # 0
                      => lessons[mine[p]].version = req[p].expected

\* The journal never credits two overrides with the same version of a lesson,
\* nor with a version the lesson has not reached.
JournalVersions ==
    \A i \in DOMAIN journal :
       journal[i].lesson # None =>
          /\ journal[i].applied \in 1 .. lessons[journal[i].lesson].version
          /\ \A j \in DOMAIN journal :
                i # j /\ journal[j].lesson = journal[i].lesson
                   => journal[j].applied # journal[i].applied

\* A room is assigned to lessons that exist: no assignment outlives its lesson,
\* even when it is inserted while the lesson is being deleted.
RoomsHaveLessons == \A l \in LessonId : rooms[l] # NoRoom => Exists(lessons[l])

\* Transactions of overrides and edits take their locks in one order, so the
\* only deadlock is an override against the insertion of a room assignment
\* for the same lesson.
DeadlocksAreRoomInserts ==
    \A p, q \in Proc : q \in WaitsFor(p) /\ p \in WaitsFor(q) /\ p # q
        => \/ req[p].op = "room_create" /\ req[q].op \in PlaceOps
           \/ req[q].op = "room_create" /\ req[p].op \in PlaceOps

\* Every request is answered, deadlocks included.
EveryRequestEnds == \A p \in Proc : pc[p] # "idle" ~> pc[p] = "done"

\* Two lessons that meet at the same time in one physical room are of one flow.
NoDoubleBooking ==
    \A k, l \in LessonId :
        k # l /\ rooms[k].loc \notin Virtual /\ rooms[k].shown /\ Active(lessons[k])
          => ~RoomTakenBy(l, rooms[k].loc, lessons[k].slot, lessons[k].flow)

DayAdmits(p, row) ==
    dayRule[DayOf[row.slot]] \in {"open"} \cup IF req[p].okDay THEN {"confirm"} ELSE {}
TeacherAdmits(p, row) ==
    row.teacher # None =>
        teacherRule[<<row.teacher, DayOf[row.slot]>>]
            \in {"free"} \cup IF req[p].okTeacher THEN {"warning"} ELSE {}

\* checkGlobalDayConstraintTx and checkTeacherConstraintsTx read the rules in
\* statements of their own, on the way to the commit, and lock nothing.  While
\* rules are tightened and relaxed, a lesson is created, changed or brought back
\* against a rule of its day or teacher, or without the confirmation the rule
\* asks for, only by a request that a new rule has overtaken: one written after
\* the request had looked.
RulesRespected ==
    [][\A l \in LessonId :
          LET row == lessons'[l]
          IN  Active(row) /\ row # lessons[l] =>
                \E p \in Proc : /\ pc[p] = "commit" /\ mine[p] = l
                                /\ DayAdmits(p, row) \/ "day" \in overtaken[p]
                                /\ TeacherAdmits(p, row) \/ "teacher" \in overtaken[p]]_vars

-----------------------------------------------------------------------------
(* The inductive invariant behind SlotUnique, NoLostUpdate, JournalVersions *)
(* and the refinement of LessonRegister.                                    *)

\* Which operations reach which statement.
Course(p) ==
    /\ pc[p] \in {"find", "lock"} => req[p].op \in LockOps
    /\ pc[p] = "room" => req[p].op \in LockOps \ {"update"}
    /\ pc[p] = "slot" => req[p].op = "add"
    /\ pc[p] \in {"day", "teacher"} => req[p].op \in (LockOps \cup InsertOps) \ {"cancel"}
    /\ pc[p] = "avail" => req[p].op \in PlaceOps
    /\ pc[p] \in {"save", "commit"} => req[p].op \in LockOps \cup InsertOps
    /\ pc[p] \in {"place", "bump"} => req[p].op \in OverrideOps
    /\ pc[p] = "remove" => req[p].op = "delete"
    /\ pc[p] \in {"claim", "fk"} => req[p].op = "room_create"
    /\ pc[p] = "unroom" => req[p].op = "room_delete"
    /\ pc[p] = "rule" => req[p].op \in {"day_rule", "teacher_rule"}

\* Whoever works on a lesson row has it locked; a row about to be inserted is
\* one nobody else can name yet.
Owns(p) ==
    /\ pc[p] = "lock" => mine[p] \in LessonId
    /\ HoldsRow(p) => /\ mine[p] \in LessonId \cap issued
                      /\ lock[mine[p]] = p
    /\ HoldsRow(p) /\ req[p].op \in LockOps => Exists(seen[p])
    /\ pc[p] \in {"idle", "find", "lock"} \/ req[p].op \in InsertOps => seen[p] = NoRow
    /\ HoldsRow(p) /\ req[p].op \in LockOps => req[p].expected \in {0, seen[p].version}

\* The slot of a saved, uncommitted lesson is free of committed live lessons
\* and of what other transactions saved.
SlotReserved(p) ==
    Saved(p) /\ Active(RowToWrite(p)) =>
        /\ SlotFree(mine[p], RowToWrite(p))
        /\ \A q \in Proc \ {p} : Saved(q) /\ Active(RowToWrite(q))
                                   => RowToWrite(q).slot # RowToWrite(p).slot

KeysIssued == \A l \in LessonId :
    /\ Exists(lessons[l]) => l \in issued
    /\ ~Exists(lessons[l]) => lessons[l] = NoRow

IInv == /\ TypeOK
        /\ \A p \in Proc : Course(p) /\ Owns(p) /\ SlotReserved(p)
        /\ KeysIssued
        /\ NoLostUpdate
        /\ SlotUnique
        /\ JournalVersions
        /\ RoomsHaveLessons
=============================================================================
