------------------------ MODULE ScheduleValidation -------------------------
(***************************************************************************)
(* The validation of a schedule (service_validate.go): the warnings of a   *)
(* group over a period of days, while dispatchers go on writing.           *)
(*                                                                         *)
(* A validation builds the days of its group, then, if the group uses      *)
(* rooms, the days of every other group, then, if it has physical          *)
(* education, the days of every other group once more.  Nothing holds the  *)
(* tables still meanwhile.  A read of the days of one group is one step    *)
(* here, and so is a committed override.                                   *)
(***************************************************************************)
EXTENDS ScheduleBuild

CONSTANTS
  Period,            \* the days a validation is asked for
  Meta,              \* of a room: [virtual, facility, campus], what ListLocationMetaByIDs returns
  Kind,              \* of a subject, by its name: "pe", "practice" or "theory"
  Curriculum,        \* of a group: None, or the subjects allocated to each semester
  Teaching,          \* are lessons held on a day for a group, by the study calendar
  Blocked,           \* pairs of a teacher and a day with a constraint
  HoursPerPair, StudentWeeklyHours, TeacherWeeklyHours, GroupsPerFacility, StudyDays,
  Tables,            \* the sets of lessons a run may begin with
  SourceChoices,     \* and the sources
  MaxEdits           \* bound: overrides during a run

VARIABLES
  lessons, src,
  edits,             \* how many overrides were committed
  vpc,               \* the next statement of the validation
  vgroup,            \* the group it is asked about
  rooms, facilities, \* what its two passes have read: the days of each group, or None
  touched,           \* has an override been committed since it began
  answer

validationVars == <<lessons, src, edits, vpc, vgroup, rooms, facilities, touched, answer>>

-----------------------------------------------------------------------------
(* Warnings.  A warning of a whole week has the date of its Monday, no     *)
(* pair, and the teacher it speaks of, if any.                             *)
OfLesson(code, l) == [code |-> code, day |-> l.day, pair |-> l.pair, sub |-> l.sub, who |-> None]
OfWeek(code, m, t) == [code |-> code, day |-> m, pair |-> 0, sub |-> 0, who |-> t]

Lessons(days) == UNION {days[d] : d \in DOMAIN days}
Weeks(days) == {MondayOf[d] : d \in DOMAIN days}
InWeek(days, m) == {l \in Lessons(days) : MondayOf[l.day] = m}
OfTeacher(ls, t) == {l \in ls : l.teacher = t}
IsPE(l) == l.subject # None /\ Kind[l.subject] = "pe"
IsPractice(l) == l.subject # None /\ Kind[l.subject] = "practice"
Hours(slots) == HoursPerPair * Cardinality(slots)

StudentHours(days) ==
  {OfWeek("student_week_hours_limit", m, None) :
     m \in {m \in Weeks(days) :
              Hours({<<l.day, l.pair>> : l \in InWeek(days, m)}) > StudentWeeklyHours}}

MissingTeachers(days) ==
  {OfLesson("missing_teacher_placeholder", l) :
     l \in {l \in Lessons(days) : l.teacher = None /\ l.subject # None}}

TeacherHours(days) ==
  {OfWeek("teacher_week_hours_limit", w[1], w[2]) :
     w \in {w \in Weeks(days) \X Teachers :
              Hours({<<l.day, SlotOf(l)>> : l \in OfTeacher(InWeek(days, w[1]), w[2])})
                > TeacherWeeklyHours}}

(* Only a week that is covered from Monday to Saturday is looked at.       *)
Covered(days, m) == Cardinality({d \in DOMAIN days : MondayOf[d] = m}) >= StudyDays
BusyDays(ls) == Cardinality({l.day : l \in ls})

DayOff(days) ==
  LET full == {m \in Weeks(days) : Covered(days, m)}
  IN  {OfWeek("group_floating_day_off", m, None) :
         m \in {m \in full : BusyDays(InWeek(days, m)) >= StudyDays}}
      \cup {OfWeek("teacher_floating_day_off", w[1], w[2]) :
         w \in {w \in full \X Teachers : BusyDays(OfTeacher(InWeek(days, w[1]), w[2])) >= StudyDays}}

FifthPair(days) ==
  {OfLesson("physical_education_fifth_pair", l) : l \in {l \in Lessons(days) : l.pair = 5 /\ IsPE(l)}}

ThreePairs(days) ==
  LET long == {d \in DOMAIN days : /\ Cardinality({l.pair : l \in days[d]}) >= 3
                                   /\ \E l \in days[d] : ~IsPractice(l)}
  IN  {OfLesson("three_pairs_requires_practice", First({l \in days[d] : ~IsPractice(l)})) : d \in long}

CampusesOf(ls) == {Meta[l.room].campus : l \in {l \in ls : l.room # None}} \ {None}

Campuses(days) ==
  {OfLesson("multiple_campuses_day",
            First({l \in days[d] : l.room # None /\ Meta[l.room].campus # None})) :
     d \in {d \in DOMAIN days : Cardinality(CampusesOf(days[d])) > 1}}

(* validateScheduleBusinessRules                                           *)
WeekRules(days) == StudentHours(days) \cup TeacherHours(days) \cup DayOff(days)
DayRules(days) == MissingTeachers(days) \cup FifthPair(days) \cup ThreePairs(days) \cup Campuses(days)

NonTeaching(days, g) ==
  {OfLesson("study_calendar_non_teaching_day", l) :
     l \in UNION {days[d] : d \in {d \in DOMAIN days : ~Teaching[g][d]}}}

NotAllocated(days, g) ==
  IF Curriculum[g] = None THEN {}
  ELSE {OfLesson("subject_not_in_curriculum", l) :
          l \in {l \in Lessons(days) : /\ Semester(g, l.day) # 0
                                       /\ l.subject # None
                                       /\ l.subject \notin Curriculum[g][Semester(g, l.day)]}}

BlockedTeachers(days) ==
  {OfLesson("teacher_day_constraint", l) : l \in {l \in Lessons(days) : <<l.teacher, l.day>> \in Blocked}}

-----------------------------------------------------------------------------
(* The rules that need the days of all groups: all[g] is what was built    *)
(* for group g.  A row that several groups inherit is an entry of each.    *)
EntriesOf(all) == UNION {{<<g, l>> : l \in Lessons(all[g])} : g \in DOMAIN all}

Entries(all, d, p, r) == {e \in EntriesOf(all) : e[2].day = d /\ e[2].pair = p /\ e[2].room = r}

SharedFlow(entries) == \E f \in Flows : \A e \in entries : e[2].flow = f

RoomClash(all, d, p, r) ==
  LET entries == Entries(all, d, p, r)
  IN  /\ ~Meta[r].virtual
      /\ Cardinality({e[1] : e \in entries}) > 1
      /\ ~(Meta[r].facility /\ \A e \in entries : IsPE(e[2]))
      /\ ~SharedFlow(entries)

\* Mutant: only the group whose lesson comes first is told.
RoomConflictsOfFirst(all, g) ==
  {OfLesson("location_group_conflict",
            First({l \in all[g][s[1]] : l.pair = s[2] /\ l.room = s[3]})) :
     s \in {s \in {<<l.day, l.pair, l.room>> : l \in {l \in Lessons(all[g]) : l.room # None}} :
              /\ RoomClash(all, s[1], s[2], s[3])
              /\ \A e \in Entries(all, s[1], s[2], s[3]) : g <= e[1]}}

RoomConflicts(all, g) ==
  {OfLesson("location_group_conflict",
            First({l \in all[g][s[1]] : l.pair = s[2] /\ l.room = s[3]})) :
     s \in {s \in {<<l.day, l.pair, l.room>> : l \in {l \in Lessons(all[g]) : l.room # None}} :
              RoomClash(all, s[1], s[2], s[3])}}

GroupsInFacility(all, d, p, r) == {e[1] : e \in {e \in Entries(all, d, p, r) : IsPE(e[2])}}

FacilityRules(all, g) ==
  LET pe == {l \in Lessons(all[g]) : IsPE(l)}
      in == {l \in pe : l.room # None /\ Meta[l.room].facility}
  IN  {OfLesson("physical_education_location_kind", l) : l \in pe \ in}
      \cup {OfLesson("physical_education_room_group_limit",
                     First({l \in in : l.day = s[1] /\ l.pair = s[2] /\ l.room = s[3]})) :
              s \in {s \in {<<l.day, l.pair, l.room>> : l \in in} :
                       Cardinality(GroupsInFacility(all, s[1], s[2], s[3])) > GroupsPerFacility}}

UsesRooms(days) == \E l \in Lessons(days) : l.room # None
HasPE(days) == \E l \in Lessons(days) : IsPE(l)

OwnWarnings(days, g) ==
  WeekRules(days) \cup DayRules(days) \cup NonTeaching(days, g) \cup NotAllocated(days, g)
    \cup BlockedTeachers(days)

(* What a validation of g answers from the days it has: the room rules     *)
(* only see what their pass has read.                                      *)
Warnings(days, byRooms, byFacilities, g) ==
  OwnWarnings(days, g)
    \cup (IF UsesRooms(days) THEN RoomConflicts(byRooms, g) ELSE {})
    \cup (IF HasPE(days) THEN FacilityRules(byFacilities, g) ELSE {})

-----------------------------------------------------------------------------
Unread == [h \in Groups |-> None]

ValidationInit ==
  /\ lessons \in Tables
  /\ src \in SourceChoices
  /\ edits = 0
  /\ vpc = "idle" /\ vgroup = None
  /\ rooms = Unread /\ facilities = Unread
  /\ touched = FALSE
  /\ answer = {}

(* The statement after a pass: the next pass the days of the group call    *)
(* for, or the answer.                                                     *)
PassAfter(pass, days) ==
  IF pass = "own" /\ UsesRooms(days) THEN "rooms" ELSE IF HasPE(days) THEN "facilities" ELSE "answer"

BuildOwn(g) ==
  /\ vpc = "idle"
  /\ vgroup' = g
  /\ LET days == BuildDays(lessons, src, g, Period)
     IN  /\ rooms' = [Unread EXCEPT ![g] = days]
         /\ facilities' = [Unread EXCEPT ![g] = days]
         /\ vpc' = PassAfter("own", days)
  /\ touched' = FALSE
  /\ UNCHANGED <<lessons, src, edits, answer>>

(* The other groups are read in the order of ListGroups.                   *)
Missing(read) == {h \in Groups : read[h] = None}
IsNext(h, read) == h \in Missing(read) /\ \A k \in Missing(read) : h <= k

\* Mutant: what the other groups inherit is not looked at.
ReadRoomsOwn(h) ==
  /\ vpc = "rooms" /\ IsNext(h, rooms)
  /\ rooms' = [rooms EXCEPT ![h] = BuildDays(lessons, [g \in Groups |-> None], h, Period)]
  /\ vpc' = IF Missing(rooms) = {h} THEN PassAfter("rooms", rooms[vgroup]) ELSE vpc
  /\ UNCHANGED <<lessons, src, edits, vgroup, facilities, touched, answer>>

ReadRooms(h) ==
  /\ vpc = "rooms" /\ IsNext(h, rooms)
  /\ rooms' = [rooms EXCEPT ![h] = BuildDays(lessons, src, h, Period)]
  /\ vpc' = IF Missing(rooms) = {h} THEN PassAfter("rooms", rooms[vgroup]) ELSE vpc
  /\ UNCHANGED <<lessons, src, edits, vgroup, facilities, touched, answer>>

ReadFacilities(h) ==
  /\ vpc = "facilities" /\ IsNext(h, facilities)
  /\ facilities' = [facilities EXCEPT ![h] = BuildDays(lessons, src, h, Period)]
  /\ vpc' = IF Missing(facilities) = {h} THEN "answer" ELSE vpc
  /\ UNCHANGED <<lessons, src, edits, vgroup, rooms, touched, answer>>

Conclude ==
  /\ vpc = "answer"
  /\ answer' = Warnings(rooms[vgroup], rooms, facilities, vgroup)
  /\ vpc' = "done"
  /\ UNCHANGED <<lessons, src, edits, vgroup, rooms, facilities, touched>>

-----------------------------------------------------------------------------
(* ensureRoomAvailableTx: no other live lesson has the room at that time,  *)
(* but for one of the same flow.                                           *)
\* Mutant: any flow will do.
RoomFreeForFlows(rows, n) ==
  n.room # None /\ ~Meta[n.room].virtual =>
    \A o \in rows : ~(/\ o.id # n.id /\ o.status # "cancelled"
                      /\ o.day = n.day /\ o.pair = n.pair /\ o.room = n.room
                      /\ (o.flow = None \/ n.flow = None))

RoomFree(rows, n) ==
  n.room # None /\ ~Meta[n.room].virtual =>
    \A o \in rows : ~(/\ o.id # n.id /\ o.status # "cancelled"
                      /\ o.day = n.day /\ o.pair = n.pair /\ o.room = n.room
                      /\ (o.flow = None \/ n.flow = None \/ o.flow # n.flow))

(* The unique index: no other live lesson of the group has that time.      *)
SlotFree(rows, n) ==
  \A o \in rows : ~(/\ o.id # n.id /\ o.status # "cancelled"
                    /\ o.group = n.group /\ o.day = n.day /\ SlotOf(o) = SlotOf(n))

(* Tables whose live lessons went through both.                            *)
LessonsSound(rows) ==
  /\ rows \subseteq Lesson
  /\ \A a, b \in rows : a.id = b.id => a = b
  /\ \A a \in rows : a.status # "cancelled" => RoomFree(rows, a) /\ SlotFree(rows, a)

ASSUME ValidationConstants ==
  /\ None \notin Groups /\ None \notin Rooms /\ None \notin Flows
  /\ Period \subseteq Days
  /\ \A table \in Tables : LessonsSound(table)

Edit(l, n) ==
  /\ lessons' = (lessons \ {l}) \cup {n}
  /\ edits' = edits + 1
  /\ touched' = TRUE
  /\ UNCHANGED <<src, vpc, vgroup, rooms, facilities, answer>>

(* A committed override: a cancelled lesson keeps its room, and comes back *)
(* only at a time, or moves only to a room, that is free.                  *)
CancelLesson(l) == l.status # "cancelled" /\ Edit(l, [l EXCEPT !.status = "cancelled"])

PlaceLesson(l, r) ==
  LET n == [l EXCEPT !.status = "published", !.room = r]
  IN  n # l /\ RoomFree(lessons, n) /\ SlotFree(lessons, n) /\ Edit(l, n)

ValidationNext ==
  \/ \E g \in Groups : BuildOwn(g) \/ ReadRooms(g) \/ ReadFacilities(g)
  \/ Conclude
  \/ /\ edits < MaxEdits
     /\ \E l \in lessons : CancelLesson(l) \/ \E r \in Rooms \cup {l.room} : PlaceLesson(l, r)

ValidationSpec == ValidationInit /\ [][ValidationNext]_validationVars

-----------------------------------------------------------------------------
AllDays(sources) == [h \in Groups |-> BuildDays(lessons, sources, h, Period)]

(* What follows speaks of the tables alone, and every table is met while   *)
(* the validation has not begun.                                           *)

(* The warnings of a group, had everything been read at once.              *)
WarningsNow(g) ==
  OwnWarnings(AllDays(src)[g], g) \cup RoomConflicts(AllDays(src), g) \cup FacilityRules(AllDays(src), g)

(* ValidateScheduleRange reads the days of every group twice and of its    *)
(* own once, and skips a pass it does not need: if no override was         *)
(* committed meanwhile, its answer is that of one look at the tables.      *)
UntouchedExact == vpc = "done" /\ ~touched => answer = WarningsNow(vgroup)

(* validateLocationOccupancyRules is run for one group at a time: a clash  *)
(* is reported to every group that is part of it, and the view of the room *)
(* shows who they are.                                                     *)
ConflictsMutual ==
  vpc = "idle" =>
  LET all == AllDays(src)
  IN  \A g, h \in Groups : \A d \in Period : \A l \in all[g][d], o \in all[h][d] :
        /\ l.pair = o.pair /\ l.room = o.room /\ l.room # None
        /\ RoomClash(all, d, l.pair, l.room)
        => /\ \E w \in RoomConflicts(all, h) : w.day = d /\ w.pair = o.pair
           /\ [group |-> h, lesson |-> o] \in ViewOfRoom(lessons, src, l.room, {d})

(* ensureRoomAvailableTx, which admits a room to a lesson, and             *)
(* validateLocationOccupancyRules, which reports clashes, are two          *)
(* implementations of one rule.  Where every room went through the first   *)
(* the second has nothing to report, but for lessons that a group shows    *)
(* because it inherits them: those it takes for lessons of its own.        *)
ChecksSuffice ==
  vpc = "idle" => \A g \in Groups : RoomConflicts(AllDays([h \in Groups |-> None]), g) = {}

(* GET teacher/workload adds up the lessons of the weeks of all groups.    *)
(* Every lesson is in the week of its own group and may be in those that   *)
(* inherit it: the total counts it once, whatever the sources are.         *)
WorkloadOnce ==
  vpc = "idle" =>
  \A t \in Teachers :
    Workload(ViewOfTeacher(lessons, src, t, Period)).total =
      Cardinality({<<l.day, l.pair, l.sub, l.subject, l.room>> :
                     l \in {l \in lessons : /\ l.teacher = t /\ l.status # "cancelled"
                                            /\ l.day \in Period}})
=============================================================================
