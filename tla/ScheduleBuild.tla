--------------------------- MODULE ScheduleBuild ---------------------------
(***************************************************************************)
(* How the days of a schedule are put together from the rows of the        *)
(* tables (service_build.go), the views by group, teacher and room made of *)
(* them (service_filter.go), and the workload of a teacher                 *)
(* (handlers_teacher.go).                                                  *)
(*                                                                         *)
(* All of it is pure: `rows' is what the queries return, a set of lessons  *)
(* with the published room they are joined with, `src' the source each     *)
(* group inherits from.  Teachers and subjects are known by their names,   *)
(* as they are in an answer.                                               *)
(***************************************************************************)
EXTENDS Values, Integers, FiniteSets

CONSTANTS
  Groups,
  Days,       \* the days, as numbers
  MondayOf,   \* the Monday of the week of a day
  HalfOf,     \* the half of the school year a day is in: 1, 2, or 0 in July and August
  Course,     \* the course a group is in
  Rooms,
  Subjects,
  Teachers,
  Flows,
  MaxChain    \* how many sources the service follows

ASSUME CalendarOK ==
  /\ Groups \subseteq Nat /\ Days \subseteq Nat
  /\ MondayOf \in [Days -> Nat] /\ HalfOf \in [Days -> 0..2] /\ Course \in [Groups -> Nat]
  /\ MaxChain \in Nat

Subgroups == 0..2                    \* 0 is the lesson of the whole group
Statuses == {"draft", "published", "cancelled"}

Lesson ==
  [id: Nat, group: Groups, day: Days, pair: 1..8, sub: Subgroups,
   subject: Subjects \cup {None}, teacher: Teachers \cup {None},
   room: Rooms \cup {None}, flow: Flows \cup {None}, status: Statuses]

Sources == [Groups -> Groups \cup {None}]

SlotOf(l) == <<l.pair, l.sub>>

-----------------------------------------------------------------------------
(* inferSemesterForDate: 0 is nil.                                         *)
Semester(g, d) ==
  IF Course[g] \in 1..6 /\ HalfOf[d] # 0 THEN 2 * (Course[g] - 1) + HalfOf[d] ELSE 0

(* The group itself, its source, the source of that, and so on.            *)
Line(src, g) ==
  LET up[n \in 0..MaxChain] ==
        IF n = 0 THEN g ELSE IF up[n - 1] = None THEN None ELSE src[up[n - 1]]
  IN  up

Held(rows, g, d) == {l \in rows : l.group = g /\ l.day = d /\ l.status # "cancelled"}

(* The lessons of a day: base to leaf, a lesson replaces the one that      *)
(* stands at the same pair and subgroup.  A cancelled lesson replaces      *)
(* nothing, and one of the whole group leaves those of subgroups alone.    *)
Shown(rows, src, g, d) ==
  LET up == Line(src, g)
  IN  UNION {{l \in Held(rows, up[n], d) :
                \A k \in 0..(n - 1) : \A o \in Held(rows, up[k], d) : SlotOf(o) # SlotOf(l)}
             : n \in {n \in 0..MaxChain : up[n] # None}}

(* The answer lists lessons by pair, those of the whole group first.       *)
Earlier(a, b) == a.pair < b.pair \/ (a.pair = b.pair /\ a.sub < b.sub)
First(ls) == CHOOSE l \in ls : \A o \in ls \ {l} : Earlier(l, o)

BuildDays(rows, src, g, period) == [d \in period |-> Shown(rows, src, g, d)]

-----------------------------------------------------------------------------
(* One line of a view: a lesson, and the group it is shown for.            *)
ViewOfGroup(rows, src, g, period) ==
  {[group |-> g, lesson |-> l] : l \in UNION {Shown(rows, src, g, d) : d \in period}}

ViewOfGroups(rows, src, period) == UNION {ViewOfGroup(rows, src, g, period) : g \in Groups}

ViewOfTeacher(rows, src, t, period) ==
  {v \in ViewOfGroups(rows, src, period) : v.lesson.teacher = t}

ViewOfRoom(rows, src, r, period) ==
  {v \in ViewOfGroups(rows, src, period) : v.lesson.room = r}

-----------------------------------------------------------------------------
SlotKeyPerGroup(v) == <<v.lesson.day, v.lesson.pair, v.lesson.sub, v.lesson.subject, v.group>>

(* teacherWorkloadSlotKey: a lesson held for several groups at once is one *)
(* lesson of the teacher.                                                  *)
SlotKey(v) == <<v.lesson.day, v.lesson.pair, v.lesson.sub, v.lesson.subject, v.lesson.room>>

Workload(view) ==
  [total   |-> Cardinality({SlotKey(v) : v \in view}),
   subject |-> [s \in {v.lesson.subject : v \in view} |->
                  Cardinality({SlotKey(v) : v \in {v \in view : v.lesson.subject = s}})],
   group   |-> [g \in {v.group : v \in view} |->
                  Cardinality({v \in view : v.group = g})]]
=============================================================================
