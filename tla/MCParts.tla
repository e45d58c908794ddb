------------------------------ MODULE MCParts ------------------------------
(***************************************************************************)
(* Seven parts of the system on small instances: the validation of a       *)
(* schedule, the autofill of rooms, the publication of course assignments, *)
(* the imports of a curriculum, the sessions of apps, what devices hear of *)
(* changes, the rate limiter.                                              *)
(* They share no state here, so a behaviour is one of one part.            *)
(***************************************************************************)
EXTENDS ScheduleValidation, RoomAutofill, CourseAssignments, Imports, Sessions, Pushes, RateLimiter

VARIABLE part

deskVars == <<validationVars, autofillVars, courseVars, importVars>>
serverVars == <<sessionVars, pushVars, limiterVars>>

OnlyOne(S) == CHOOSE x \in S : TRUE

(* In the other parts the validation is over, and there is no timetable.   *)
NoValidation ==
  /\ lessons = {} /\ src = OnlyOne(SourceChoices) /\ edits = 0
  /\ vpc = "done" /\ vgroup = None /\ rooms = Unread /\ facilities = Unread
  /\ touched = TRUE /\ answer = {}

PartsInit ==
  /\ part \in {"validation", "autofill", "courses", "imports", "sessions", "pushes", "limiter"}
  /\ IF part = "validation" THEN ValidationInit ELSE NoValidation
  /\ AutofillInit
  /\ CourseInit /\ (part # "courses" => courses = OnlyOne(CourseTables))
  /\ ImportInit /\ (part # "imports" => calendarFrom = None)
  /\ SessionsInit
  /\ PushInit /\ (part # "pushes" => classOf = [d \in Phones |-> None])
  /\ LimiterInit

AtDesk ==
  \/ part = "validation" /\ ValidationNext /\ UNCHANGED <<autofillVars, courseVars, importVars>>
  \/ part = "autofill" /\ AutofillNext /\ UNCHANGED <<validationVars, courseVars, importVars>>
  \/ part = "courses" /\ CourseNext /\ UNCHANGED <<validationVars, autofillVars, importVars>>
  \/ part = "imports" /\ ImportNext /\ UNCHANGED <<validationVars, autofillVars, courseVars>>

OnServer ==
  \/ part = "sessions" /\ SessionsNext /\ UNCHANGED <<pushVars, limiterVars>>
  \/ part = "pushes" /\ PushNext /\ UNCHANGED <<sessionVars, limiterVars>>
  \/ part = "limiter" /\ LimiterNext /\ UNCHANGED <<sessionVars, pushVars>>

PartsNext ==
  /\ \/ AtDesk /\ UNCHANGED serverVars
     \/ OnServer /\ UNCHANGED deskVars
  /\ UNCHANGED part

PartsSpec == PartsInit /\ [][PartsNext]_<<deskVars, serverVars, part>>

-----------------------------------------------------------------------------
(* Group 3 inherits from 2, and 2 from 1.  Day 7 is the Monday after 0; it *)
(* is in the holidays.                                                     *)
MCGroups == 1..3
MCDays == {0, 1, 7}
MCMondayOf == [d \in MCDays |-> d - (d % 7)]
MCHalfOf == [d \in MCDays |-> IF d = 7 THEN 0 ELSE 2]
MCCourse == <<1, 2, 7>>
MCMeta ==
  [r \in {"r1", "gym", "web"} |->
     [virtual |-> r = "web", facility |-> r = "gym",
      campus |-> IF r = "r1" THEN "main" ELSE IF r = "gym" THEN "sport" ELSE None]]
MCKind == [s \in {"math", "pe"} |-> IF s = "pe" THEN "pe" ELSE "theory"]
MCCurriculum == <<[k \in 1..12 |-> IF k = 2 THEN {"math"} ELSE {}], None, None>>
MCBlocked == {<<"t1", 1>>}
MCTeaching == [g \in MCGroups |-> [d \in MCDays |-> ~(g = 2 /\ d = 1)]]

Le(i, g, d, p, sub, s, t, r, f) ==
  [id |-> i, group |-> g, day |-> d, pair |-> p, sub |-> sub, subject |-> s, teacher |-> t,
   room |-> r, flow |-> f, status |-> "published"]

Timetable ==
  {Le(1, 1, 0, 1, 0, "math", "t1", "r1", "f1"), Le(2, 2, 0, 1, 0, "math", "t1", "r1", "f1"),
   Le(3, 1, 0, 5, 0, "pe", "t2", "gym", None),  Le(4, 3, 0, 5, 1, "pe", None, "web", "f2"),
   Le(5, 2, 0, 5, 0, "pe", "t2", None, "f1"),   Le(6, 1, 1, 1, 1, "math", "t1", "r1", None),
   Le(7, 1, 0, 2, 0, "math", "t1", "r1", None), Le(8, 2, 7, 1, 0, "math", None, "r1", "f2"),
   Le(9, 3, 1, 2, 0, "pe", "t2", "r1", None)}

(* Each part is a table that three overrides are let loose on.             *)
MCTables == {{l \in Timetable : l.id \in i} : i \in {{1, 2, 3, 5}, {2, 4, 5, 7}, {6, 8, 9}}}
MCSources == {<<None, None, None>>, <<None, 1, 2>>}

-----------------------------------------------------------------------------
(* Three lessons at one time, two of them of subgroups of one group; one   *)
(* more without a subject.  Two rooms can be given away.                   *)
MCFillLessons == 1..4
MCTimeOf == <<1, 1, 1, 2>>
MCGroupOf == <<1, 2, 1, 2>>
MCWithSubject == 1..3
MCCandidates == <<"a", "b">>
Fill(g, r, d) == [group |-> g, replace |-> r, dry |-> d]
MCFillRequests == {Fill(1, FALSE, FALSE), Fill(2, TRUE, FALSE), Fill(1, TRUE, TRUE)}
Ask(l, r, s) == [lesson |-> l, place |-> r, status |-> s]
MCClerkRows == {Ask(2, "web", "published"), Ask(2, "a", "draft")}

-----------------------------------------------------------------------------
(* One group, two semesters, a draft in each and one published assignment. *)
MCKeyGroup == [k \in {"k1", "k2"} |-> 1]
MCKeySemester == [k \in {"k1", "k2"} |-> IF k = "k1" THEN 1 ELSE 2]
MCKeySubject == [k \in {"k1", "k2"} |-> "math"]
MCPublishRequests == {[group |-> 1, semester |-> s] : s \in {None, 1}}
Co(i, k, s, t) == [id |-> i, key |-> k, status |-> s, teacher |-> t]
MCCourseTables ==
  {{Co(1, "k1", "published", None), Co(2, "k1", "draft", "t1"), Co(3, "k2", "draft", "t1")}}
MCInitAllowed == {<<"t1", "math">>}

-----------------------------------------------------------------------------
(* An item A below B.  A table names A twice, changes its subject, and has *)
(* a semester of another course; a plan has A twice, or B alone.           *)
MCItem(i, n, p) == [id |-> i, name |-> n, parent |-> p, subject |-> None]
MCPlanChoices ==
  {[items |-> {MCItem(1, "B", None), MCItem(2, "A", 1)},
    hours |-> {[item |-> 2, semester |-> 1, hours |-> 1]}]}
TableRow(n, s, sem, h) == [name |-> n, subject |-> s, course |-> 1, semester |-> sem, hours |-> h]
MCTableFiles ==
  {<<TableRow("A", "x", 1, 2), TableRow("A", "A", 1, 1)>>,
   <<TableRow("B", "B", 1, 1), TableRow("A", "A", 2, 1)>>,
   <<TableRow("B", "B", 3, 1)>>}
Cells(k, n, h) == [kind |-> k, name |-> n, hours |-> h]
MCPlanFiles ==
  {[rows |-> <<Cells("root", "B", <<>>), Cells("header", "A", <<2>>), Cells("counted", "A", <<2, 1>>)>>,
    weeks |-> TRUE, replace |-> TRUE]}
  \cup {[rows |-> <<Cells("counted", "B", <<1>>)>>, weeks |-> ~r, replace |-> r] : r \in BOOLEAN}

-----------------------------------------------------------------------------
(* Two apps of one user.                                                   *)
MCApps == {"phone", "laptop"}
MCUserOf == [a \in MCApps |-> "u1"]
=============================================================================
