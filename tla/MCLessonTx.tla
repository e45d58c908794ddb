---------------------------- MODULE MCLessonTx ----------------------------
(***************************************************************************)
(* Small databases and request sets on which TLC checks LessonTx.  Slots   *)
(* a1 and a2 are two groups at one date and pair, b and c are other days.   *)
(***************************************************************************)
EXTENDS LessonTx, TLC

CONSTANTS a1, a2, b, c, x, y, t1, t2, f1, R1, R2, On, mon, tue, wed, pair1, pair2

MCDayOf   == [s \in Slot |-> CASE s = b -> tue [] s = c -> wed [] OTHER -> mon]
MCTimeOf  == [s \in Slot |-> IF s \in {b, c} THEN pair2 ELSE pair1]
MCVirtual == {On}
AllOpen   == [d \in Day |-> "open"]
AllFree   == [td \in Teacher \X Day |-> "free"]
Symmetry  == Permutations(Proc)

Lesson(slot, status, version) ==
    [slot |-> slot, subject |-> x, teacher |-> t1, flow |-> None,
     status |-> status, version |-> version]
In(loc) == [loc |-> loc, shown |-> TRUE]

Plain(op) ==
    [op |-> op, id |-> None, slot |-> None, subject |-> None, teacher |-> None,
     loc |-> None, flow |-> None, status |-> "published", expected |-> 0,
     okDay |-> FALSE, okTeacher |-> FALSE, rule |-> "open", day |-> None]
ById(op, l, v) == [Plain(op) EXCEPT !.id = l, !.expected = v]
BySlot(op, s)  == [Plain(op) EXCEPT !.slot = s, !.subject = x]

-----------------------------------------------------------------------------
(* One slot that two lessons want: 1 lives in it, 2 was cancelled.  Wednesday *)
(* is closed until it is opened, on Monday t2 is blocked.                     *)

NoRooms == [l \in LessonId |-> NoRoom]

SlotLessons == [l \in LessonId |-> CASE l = 1 -> Lesson(a1, "published", 1)
                                     [] l = 2 -> Lesson(a1, "cancelled", 2)
                                     [] l = 3 -> Lesson(c, "cancelled", 1)
                                     [] OTHER -> NoRow]
WednesdayClosed == [d \in Day |-> IF d = wed THEN "closed" ELSE "open"]
TeacherLimits == [td \in Teacher \X Day |->
                    CASE td = <<t2, mon>> -> "hard_block"
                      [] td = <<t1, wed>> -> "warning"
                      [] OTHER -> "free"]

SlotRequests ==
    {[ById("replace", 1, 1) EXCEPT !.subject = y],
     [Plain("cancel") EXCEPT !.slot = a1],
     ById("restore", 2, 2),
     BySlot("add", a1),
     [BySlot("create", b) EXCEPT !.status = "draft"],
     [ById("update", 1, 1) EXCEPT !.slot = b, !.subject = y],
     ById("delete", 1, 0)}

RuleRequests ==
    {[Plain("day_rule") EXCEPT !.day = wed, !.rule = "confirm"],
     [Plain("day_rule") EXCEPT !.day = mon, !.rule = "closed"],
     [Plain("teacher_rule") EXCEPT !.day = mon, !.teacher = t2, !.rule = "warning"],
     [Plain("teacher_rule") EXCEPT !.day = wed, !.teacher = t1, !.rule = "hard_block"],
     [ById("replace", 1, 0) EXCEPT !.teacher = t2, !.okTeacher = TRUE],
     [ById("update", 1, 0) EXCEPT !.slot = c, !.teacher = t1, !.okDay = TRUE],
     [ById("restore", 3, 0) EXCEPT !.okDay = TRUE],
     [BySlot("create", a2) EXCEPT !.teacher = t2, !.status = "cancelled"],
     [BySlot("add", c) EXCEPT !.teacher = t1, !.okDay = TRUE, !.okTeacher = TRUE]}

WriteRequests == SlotRequests \cup RuleRequests

-----------------------------------------------------------------------------
(* Two groups at one time: lesson 1 sits in R1, lesson 2 has no room yet. *)

RoomLessons == [l \in LessonId |-> CASE l = 1 -> Lesson(a1, "published", 1)
                                     [] l = 2 -> Lesson(a2, "published", 1)
                                     [] OTHER -> NoRow]
OneRoom == [l \in LessonId |-> IF l = 1 THEN In(R1) ELSE NoRoom]

RoomRequests ==
    {[ById("room_create", 2, 0) EXCEPT !.loc = R2],
     ById("room_delete", 1, 0),
     [ById("replace", 2, 0) EXCEPT !.loc = R2],
     [ById("replace", 1, 0) EXCEPT !.subject = y],
     ById("cancel", 2, 1),
     ById("delete", 2, 0)}

\* Overrides that compete for R1 and R2; lesson 3 was cancelled in R2.
BookedLessons == [RoomLessons EXCEPT ![3] = [Lesson(a2, "cancelled", 2) EXCEPT !.flow = f1]]
TwoRooms      == [OneRoom EXCEPT ![3] = In(R2)]

BookingRequests ==
    {[ById("replace", 1, 0) EXCEPT !.loc = R2],
     [ById("replace", 1, 1) EXCEPT !.loc = On],
     [ById("replace", 2, 0) EXCEPT !.loc = R1],
     [ById("replace", 2, 0) EXCEPT !.loc = R2],
     ById("cancel", 2, 0),
     ById("restore", 3, 0),
     [BySlot("add", a2) EXCEPT !.loc = R2],
     [BySlot("add", a2) EXCEPT !.loc = On]}


=============================================================================
