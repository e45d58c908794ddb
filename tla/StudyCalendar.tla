--------------------------- MODULE StudyCalendar ---------------------------
(***************************************************************************)
(* What a group does on a day: the calendars of its curriculum with their  *)
(* weeks and day overrides, and the weeks of the group itself.  Admins     *)
(* change the tables; readers of a schedule join them by four SELECTs.  A  *)
(* step is one SQL statement, or a whole transaction where its row locks   *)
(* make it one.  Days are counted from a Monday, a code stands for code    *)
(* and name of an activity, and there is one curriculum and one group.     *)
(***************************************************************************)
EXTENDS Integers, Sequences, FiniteSets

CONSTANTS Admin, Reader,   \* requests that write, requests that read
          Code, None,
          LastDay,         \* bound: the days are 0 .. LastDay
          YearLength,      \* days in a year
          Requests,        \* bodies the admins send
          Ranges,          \* periods the readers ask for
          InitCalendars, InitGroups,   \* what there may be at the start
          MaxWrites        \* bound on the requests of admins

VARIABLES calendars,   \* rows [id, start] of academic_calendars
          weeks,       \* rows of academic_calendar_weeks
          overrides,   \* rows of academic_calendar_day_overrides
          study,       \* rows of study_calendar_weeks for the group
          group,       \* the curriculum and the admission year of the group
          nextCalendar, nextOverride,   \* sequences of ids
          dataVersion, \* how often system_state.schedule_version was written
          muted,       \* history: a bump has failed
          sent,        \* requests of admins so far that were not refused at once
          pc, req, found,          \* label, body and row read of each Admin
          rpc, asked, version,     \* label, period and version of each Reader
          year, calendar, plan,    \* what its SELECTs gave it
          out                      \* the map of states it builds

tables  == <<calendars, weeks, overrides, study, group, nextCalendar, nextOverride>>
admins  == <<sent, pc, req, found>>
readers == <<rpc, asked, version, year, calendar, plan, out>>
vars    == <<tables, dataVersion, muted, admins, readers>>

Day       == 0 .. LastDay
Course    == 1 .. 6
Number    == 1 .. 60
Monday(d) == d - (d % 7)
YearOf(d) == d \div YearLength

\* What is done and whether lessons are held.  Without a code it is teaching.
Activity == [code : Code, teaches : BOOLEAN]
AnyActivity == [code : Code \cup {None}, teaches : BOOLEAN]

Id       == Nat \ {0}
Calendar == [id : Id, start : Day]
Week     == [cal : Id, course : Course, number : Number, start : Day, act : Activity]
Override == [id : Id, cal : Id, course : Course, number : Number, dow : 1 .. 7, act : Activity]
Study    == [number : Number, start : Day \cup {None}, act : AnyActivity]
Group    == [planned : BOOLEAN, year : Nat \cup {None}]
Period   == [from : Day, to : Day]

Source  == {"default", "academic_week", "academic_day_override", "study_week"}
State   == [act : AnyActivity, source : Source]
Default == [act |-> [code |-> None, teaches |-> TRUE], source |-> "default"]

\* Bodies: numbers out of range and blank codes (None) do arrive.
WeekBody  == [course : Nat, number : Int, start : Day, act : AnyActivity]
Patch     == [course : Nat, number : Nat, dow : Nat, act : AnyActivity]
StudyBody == [number : Int, start : Day \cup {None}, act : AnyActivity]
Request ==
       [op : {"calendar"}, start : Day]
  \cup [op : {"drop"}, cal : Id]
  \cup [op : {"weeks"}, cal : Id, rows : Seq(WeekBody)]
  \cup [op : {"add"}, cal : Id, patch : Patch]
  \cup [op : {"update"}, id : Id, patch : Patch]
  \cup [op : {"remove"}, id : Id]
  \cup [op : {"study"}, rows : Seq(StudyBody)]
  \cup [op : {"unstudy"}, number : Number]
  \cup [op : {"group"}, group : Group]

ASSUME ConstantsOK ==
    /\ LastDay \in Nat /\ YearLength \in Nat \ {0} /\ MaxWrites \in Nat
    /\ None \notin Code /\ None \notin Int /\ None \notin State
    /\ Requests \subseteq Request
    /\ Ranges \subseteq Period /\ \A p \in Ranges : p.from <= p.to
    /\ IsFiniteSet(InitCalendars) /\ InitCalendars \subseteq Calendar
    /\ \A c, e \in InitCalendars : c.id = e.id \/ c.start = e.start => c = e
    /\ \A c \in InitCalendars : c.id <= Cardinality(InitCalendars)
    /\ InitGroups \subseteq Group

TablesTyped ==
    /\ calendars \subseteq Calendar /\ weeks \subseteq Week
    /\ overrides \subseteq Override /\ study \subseteq Study
    /\ group \in Group
    /\ nextCalendar \in Id /\ nextOverride \in Id

AdminsTyped ==
    /\ dataVersion \in Nat /\ muted \in BOOLEAN /\ sent \in Nat
    /\ pc \in [Admin -> {"idle", "again", "save", "bump"}]
    /\ req \in [Admin -> Requests \cup {None}]
    /\ found \in [Admin -> Override \cup {None}]

ReadersTyped ==
    /\ rpc \in [Reader -> {"idle", "group", "calendar", "fallback", "weeks", "days",
                           "study", "answer"}]
    /\ asked \in [Reader -> Ranges \cup {None}]
    /\ version \in [Reader -> Nat]
    /\ year \in [Reader -> Nat \cup {None}]
    /\ calendar \in [Reader -> Id \cup {None}]
    /\ plan \in [Reader -> SUBSET Week]
    /\ out \in [Reader -> [Day -> State \cup {None}]]

TypeOK == TablesTyped /\ AdminsTyped /\ ReadersTyped

-----------------------------------------------------------------------------
(* The admin API.  A request that is refused changes nothing and is no step. *)

\* A handler that is one statement or one transaction, and succeeds.
Commits(a, op, r) ==
    /\ pc[a] = "idle" /\ sent < MaxWrites
    /\ r.op = op
    /\ sent' = sent + 1
    /\ pc' = [pc EXCEPT ![a] = "bump"]
    /\ UNCHANGED <<dataVersion, muted, req, found, readers>>

\* UNIQUE (curriculum_id, academic_year_start); ids skipped by failures are left out.
CreateCalendar(a) == \E r \in Requests :
    /\ Commits(a, "calendar", r)
    /\ \A c \in calendars : c.start # r.start
    /\ calendars' = calendars \cup {[id |-> nextCalendar, start |-> r.start]}
    /\ nextCalendar' = nextCalendar + 1
    /\ UNCHANGED <<weeks, overrides, study, group, nextOverride>>

\* Mutant: the overrides of a calendar outlive it.
DeleteCalendarOnly(a) == \E r \in Requests :
    /\ Commits(a, "drop", r)
    /\ calendars' = {c \in calendars : c.id # r.cal}
    /\ weeks' = {w \in weeks : w.cal # r.cal}
    /\ UNCHANGED <<overrides, study, group, nextCalendar, nextOverride>>

\* ON DELETE CASCADE takes weeks and overrides along.
DeleteCalendar(a) == \E r \in Requests :
    /\ Commits(a, "drop", r)
    /\ calendars' = {c \in calendars : c.id # r.cal}
    /\ weeks' = {w \in weeks : w.cal # r.cal}
    /\ overrides' = {o \in overrides : o.cal # r.cal}
    /\ UNCHANGED <<study, group, nextCalendar, nextOverride>>

CalendarExists(id) == \E c \in calendars : c.id = id

\* Course 0 is a course left out.
CourseOf(w) == IF w.course = 0 THEN 1 ELSE w.course

\* Mutant: the start of a week is stored as it was sent.
StoredAnyDay(r, i) ==
    [cal |-> r.cal, course |-> CourseOf(r.rows[i]), number |-> r.rows[i].number,
     start |-> r.rows[i].start, act |-> r.rows[i].act]

\* The i-th row of a body as it is stored.
Stored(r, i) ==
    [cal |-> r.cal, course |-> CourseOf(r.rows[i]), number |-> r.rows[i].number,
     start |-> Monday(r.rows[i].start), act |-> r.rows[i].act]

WeekKey(w) == <<w.cal, w.course, w.number>>

\* The table after the first i rows: ON CONFLICT (key) DO UPDATE, row by row.
Upserted(r, i) ==
    {w \in weeks : \A j \in 1 .. i : WeekKey(w) # WeekKey(Stored(r, j))}
      \cup {Stored(r, j) : j \in {k \in 1 .. i : \A l \in k + 1 .. i :
                                     WeekKey(Stored(r, l)) # WeekKey(Stored(r, k))}}

\* UNIQUE (calendar_id, course_number, week_start_date).
UniqueStarts(table) ==
    \A v, w \in table : v.cal = w.cal /\ v.course = w.course /\ v.start = w.start => v = w

\* One row that is refused undoes the batch.  The rows written stay locked until
\* the commit, so two batches that meet are one after the other.
UpsertWeeks(a) == \E r \in Requests :
    /\ Commits(a, "weeks", r)
    /\ r.rows # << >> => CalendarExists(r.cal)
    /\ \A i \in 1 .. Len(r.rows) :
          /\ CourseOf(r.rows[i]) \in Course /\ r.rows[i].number \in Number
          /\ r.rows[i].act.code # None
          /\ UniqueStarts(Upserted(r, i))
    /\ weeks' = Upserted(r, Len(r.rows))
    /\ UNCHANGED <<calendars, overrides, study, group, nextCalendar, nextOverride>>

\* normalizeAcademicCalendarDayOverride
ValidPatch(p) ==
    p.course \in Course /\ p.number \in Number /\ p.dow \in 1 .. 7 /\ p.act.code # None

OverrideRow(id, cal, p) ==
    [id |-> id, cal |-> cal, course |-> p.course, number |-> p.number, dow |-> p.dow, act |-> p.act]

\* gorm writes the default of the column for a field that is zero when it
\* inserts: FALSE becomes TRUE.
Inserted(o) == [o EXCEPT !.act.teaches = TRUE]

Place(o) == <<o.cal, o.course, o.number, o.dow>>

\* UNIQUE (calendar, course, week, day) and the foreign key to the calendar.
Storable(o) == /\ CalendarExists(o.cal)
               /\ \A p \in overrides : p.id # o.id => Place(p) # Place(o)

CreateOverride(a) == \E r \in Requests :
    /\ Commits(a, "add", r)
    /\ ValidPatch(r.patch)
    /\ LET o == Inserted(OverrideRow(nextOverride, r.cal, r.patch))
       IN  Storable(o) /\ overrides' = overrides \cup {o}
    /\ nextOverride' = nextOverride + 1
    /\ UNCHANGED <<calendars, weeks, study, group, nextCalendar>>

\* Updating reads the row twice, in the handler and in the repository.
FindOverride(a) == \E r \in Requests, o \in overrides :
    /\ pc[a] = "idle" /\ sent < MaxWrites
    /\ r.op = "update" /\ r.id = o.id
    /\ ValidPatch(r.patch)
    /\ found' = [found EXCEPT ![a] = o]
    /\ req' = [req EXCEPT ![a] = r]
    /\ pc' = [pc EXCEPT ![a] = "again"]
    /\ sent' = sent + 1
    /\ UNCHANGED <<tables, dataVersion, muted, readers>>

Ends(a) ==
    /\ pc' = [pc EXCEPT ![a] = "idle"]
    /\ req' = [req EXCEPT ![a] = None]
    /\ found' = [found EXCEPT ![a] = None]

FindAgain(a) ==
    /\ pc[a] = "again"
    /\ IF \E o \in overrides : o.id = req[a].id
       THEN pc' = [pc EXCEPT ![a] = "save"] /\ UNCHANGED <<req, found>>
       ELSE Ends(a)
    /\ UNCHANGED <<tables, dataVersion, muted, sent, readers>>

\* Save inserts the row again when it was deleted meanwhile.
Resaved(a) ==
    LET o == OverrideRow(req[a].id, found[a].cal, req[a].patch)
    IN  IF \E p \in overrides : p.id = o.id THEN o ELSE Inserted(o)

\* Mutant: nothing keeps two overrides from one place.
SaveAnywhere(a) ==
    /\ pc[a] = "save" /\ CalendarExists(found[a].cal)
    /\ overrides' = {p \in overrides : p.id # req[a].id} \cup {Resaved(a)}
    /\ pc' = [pc EXCEPT ![a] = "bump"]
    /\ UNCHANGED <<calendars, weeks, study, group, nextCalendar, nextOverride,
                   dataVersion, muted, sent, req, found, readers>>

SaveOverride(a) ==
    /\ pc[a] = "save"
    /\ IF Storable(Resaved(a))
       THEN /\ overrides' = {p \in overrides : p.id # req[a].id} \cup {Resaved(a)}
            /\ pc' = [pc EXCEPT ![a] = "bump"]
            /\ UNCHANGED <<req, found>>
       ELSE Ends(a) /\ UNCHANGED overrides
    /\ UNCHANGED <<calendars, weeks, study, group, nextCalendar, nextOverride,
                   dataVersion, muted, sent, readers>>

DeleteOverride(a) == \E r \in Requests :
    /\ Commits(a, "remove", r)
    /\ overrides' = {o \in overrides : o.id # r.id}
    /\ UNCHANGED <<calendars, weeks, study, group, nextCalendar, nextOverride>>

StoredStudy(b) == [b EXCEPT !.start = IF b.start = None THEN None ELSE Monday(b.start)]

\* ON CONFLICT (group_id, week_number) DO UPDATE: the last row of a number stays.
UpsertStudyWeeks(a) == \E r \in Requests :
    /\ Commits(a, "study", r)
    /\ \A i \in 1 .. Len(r.rows) : r.rows[i].number \in Number
    /\ LET n == Len(r.rows)
       IN  study' = {s \in study : \A i \in 1 .. n : s.number # r.rows[i].number}
             \cup {StoredStudy(r.rows[i]) : i \in {j \in 1 .. n :
                     \A k \in j + 1 .. n : r.rows[k].number # r.rows[j].number}}
    /\ UNCHANGED <<calendars, weeks, overrides, group, nextCalendar, nextOverride>>

\* The number stands for the id of its row.
DeleteStudyWeek(a) == \E r \in Requests :
    /\ Commits(a, "unstudy", r)
    /\ study' = {s \in study : s.number # r.number}
    /\ UNCHANGED <<calendars, weeks, overrides, group, nextCalendar, nextOverride>>

\* The group gets a curriculum or another admission year; a field that is left
\* out keeps its value, so neither is ever taken away.
ChangeGroup(a) == \E r \in Requests :
    /\ Commits(a, "group", r)
    /\ group' = [planned |-> group.planned \/ r.group.planned,
                 year |-> IF r.group.year = None THEN group.year ELSE r.group.year]
    /\ UNCHANGED <<calendars, weeks, overrides, study, nextCalendar, nextOverride>>

\* The version follows the change in a statement of its own; its failure is ignored.
Bump(a) ==
    /\ pc[a] = "bump"
    /\ \/ dataVersion' = dataVersion + 1 /\ UNCHANGED muted
       \/ muted' = TRUE /\ UNCHANGED dataVersion
    /\ Ends(a)
    /\ UNCHANGED <<tables, sent, readers>>

-----------------------------------------------------------------------------
(* GetRange and ExplainSlot: ListStudyDayStatesForGroupBetween. *)

unread == <<tables, dataVersion, muted, admins>>
Nothing == [d \in Day |-> None]

RGoto(r, label) == rpc' = [rpc EXCEPT ![r] = label]

\* The version is read first; ExplainSlot asks for a period of one day.
Ask(r) ==
    /\ rpc[r] = "idle"
    /\ \E p \in Ranges : asked' = [asked EXCEPT ![r] = p]
    /\ version' = [version EXCEPT ![r] = dataVersion]
    /\ out' = [out EXCEPT ![r] = Nothing]
    /\ plan' = [plan EXCEPT ![r] = {}]
    /\ calendar' = [calendar EXCEPT ![r] = None]
    /\ year' = [year EXCEPT ![r] = None]
    /\ RGoto(r, "group")
    /\ UNCHANGED unread

ReadGroup(r) ==
    /\ rpc[r] = "group"
    /\ year' = [year EXCEPT ![r] = group.year]
    /\ RGoto(r, IF group.planned THEN "calendar" ELSE "study")
    /\ UNCHANGED <<unread, asked, version, calendar, plan, out>>

InYear(y)  == {c \in calendars : YearOf(c.start) = y}
Until(d)   == {c \in calendars : c.start <= d}
Latest(cs) == {c \in cs : \A e \in cs : e.start <= c.start}

\* ORDER BY academic_year_start DESC LIMIT 1
TakeLatest(r, cs, otherwise) ==
    /\ \/ /\ cs = {}
          /\ RGoto(r, otherwise)
          /\ UNCHANGED calendar
       \/ /\ \E c \in Latest(cs) : calendar' = [calendar EXCEPT ![r] = c.id]
          /\ RGoto(r, "weeks")
    /\ UNCHANGED <<unread, asked, version, year, plan, out>>

\* The calendar of the admission year, or else the latest one that has begun.
ReadCalendar(r) ==
    /\ rpc[r] = "calendar"
    /\ IF year[r] # None THEN TakeLatest(r, InYear(year[r]), "fallback")
       ELSE TakeLatest(r, Until(asked[r].to), "study")

ReadFallback(r) ==
    /\ rpc[r] = "fallback"
    /\ TakeLatest(r, Until(asked[r].to), "study")

FirstWeek(p) == Monday(p.from)
LastWeek(p)  == Monday(p.to)
WeeksOf(p)   == FirstWeek(p) .. LastWeek(p)

Lowest(ws)     == {w \in ws : \A v \in ws : w.course <= v.course}
Highest(ws)    == {w \in ws : \A v \in ws : v.course <= w.course}
WeeksOn(ws, d) == {w \in ws : w.start = d}

\* The map after the rows of each day were written over it: of several rows with
\* one key any can come last.
Overwritten(old, rows, source) ==
    LET hit == {d \in Day : rows[d] # {}}
    IN  {[d \in Day |-> IF d \in hit THEN [act |-> last[d].act, source |-> source] ELSE old[d]] :
            last \in {f \in [hit -> UNION {rows[d] : d \in hit}] : \A d \in hit : f[d] \in rows[d]}}

\* Weeks come by course: for one Monday the highest course comes last.
WeekRows(ws) == [d \in Day |-> Highest(WeeksOn(ws, d))]

\* Mutant: only weeks that begin within the period are read.
ReadWeeksWithin(r) ==
    LET p    == asked[r]
        rows == {w \in weeks : w.cal = calendar[r] /\ w.start \in p.from .. p.to}
    IN  /\ rpc[r] = "weeks"
        /\ plan' = [plan EXCEPT ![r] = rows]
        /\ \E new \in Overwritten(out[r], WeekRows(rows), "academic_week") :
              out' = [out EXCEPT ![r] = new]
        /\ RGoto(r, "days")
        /\ UNCHANGED <<unread, asked, version, year, calendar>>

PlanIn(cal, p) == {w \in weeks : w.cal = cal /\ w.start \in WeeksOf(p)}

ReadWeeks(r) ==
    LET rows == PlanIn(calendar[r], asked[r])
    IN  /\ rpc[r] = "weeks"
        /\ plan' = [plan EXCEPT ![r] = rows]
        /\ \E new \in Overwritten(out[r], WeekRows(rows), "academic_week") :
              out' = [out EXCEPT ![r] = new]
        /\ RGoto(r, "days")
        /\ UNCHANGED <<unread, asked, version, year, calendar>>

\* The join: an override has no date but that of the week it names.
FallsOn(o, d) == \E w \in weeks : /\ w.cal = o.cal /\ w.course = o.course
                                  /\ w.number = o.number /\ d = w.start + o.dow - 1

OverridesOn(cal, d) == {o \in overrides : o.cal = cal /\ FallsOn(o, d)}

OverrideRows(cal, p) ==
    [d \in Day |-> IF d \in p.from .. p.to THEN OverridesOn(cal, d) ELSE {}]

ReadOverrides(r) ==
    /\ rpc[r] = "days"
    /\ \E new \in Overwritten(out[r], OverrideRows(calendar[r], asked[r]), "academic_day_override") :
          out' = [out EXCEPT ![r] = new]
    /\ RGoto(r, "study")
    /\ UNCHANGED <<unread, asked, version, year, calendar, plan>>

\* A week of the group without a start begins with the week of that number that
\* was read, for the lowest course; without one it is skipped.
Starts(ws, s) ==
    IF s.start # None THEN {s.start}
    ELSE {w.start : w \in Lowest({v \in ws : v.number = s.number})}

StudyRows(ws, p) ==
    [d \in Day |-> IF d \in WeeksOf(p) THEN {s \in study : d \in Starts(ws, s)} ELSE {}]

ReadStudy(r) ==
    /\ rpc[r] = "study"
    /\ \E new \in Overwritten(out[r], StudyRows(plan[r], asked[r]), "study_week") :
          out' = [out EXCEPT ![r] = new]
    /\ RGoto(r, "answer")
    /\ UNCHANGED <<unread, asked, version, year, calendar, plan>>

\* The loop over the days: the state of the week is under its Monday.
DayState(map, d) ==
    IF map[d] # None /\ map[d].source = "academic_day_override" THEN map[d]
    ELSE IF map[Monday(d)] # None THEN map[Monday(d)] ELSE Default

Answer(r) ==
    /\ rpc[r] = "answer"
    /\ asked' = [asked EXCEPT ![r] = None]
    /\ version' = [version EXCEPT ![r] = 0]
    /\ out' = [out EXCEPT ![r] = Nothing]
    /\ plan' = [plan EXCEPT ![r] = {}]
    /\ calendar' = [calendar EXCEPT ![r] = None]
    /\ year' = [year EXCEPT ![r] = None]
    /\ RGoto(r, "idle")
    /\ UNCHANGED unread

-----------------------------------------------------------------------------
Init ==
    /\ calendars = InitCalendars /\ weeks = {} /\ overrides = {} /\ study = {}
    /\ group \in InitGroups
    /\ nextCalendar = Cardinality(InitCalendars) + 1 /\ nextOverride = 1
    /\ dataVersion = 0 /\ muted = FALSE /\ sent = 0
    /\ pc = [a \in Admin |-> "idle"]
    /\ req = [a \in Admin |-> None]
    /\ found = [a \in Admin |-> None]
    /\ rpc = [r \in Reader |-> "idle"]
    /\ asked = [r \in Reader |-> None]
    /\ version = [r \in Reader |-> 0]
    /\ year = [r \in Reader |-> None]
    /\ calendar = [r \in Reader |-> None]
    /\ plan = [r \in Reader |-> {}]
    /\ out = [r \in Reader |-> Nothing]

Write(a) ==
    \/ CreateCalendar(a) \/ DeleteCalendar(a) \/ UpsertWeeks(a)
    \/ CreateOverride(a) \/ FindOverride(a) \/ FindAgain(a) \/ SaveOverride(a)
    \/ DeleteOverride(a) \/ UpsertStudyWeeks(a) \/ DeleteStudyWeek(a) \/ ChangeGroup(a)
    \/ Bump(a)

Read(r) ==
    \/ Ask(r) \/ ReadGroup(r) \/ ReadCalendar(r) \/ ReadFallback(r)
    \/ ReadWeeks(r) \/ ReadOverrides(r) \/ ReadStudy(r) \/ Answer(r)

Next == (\E a \in Admin : Write(a)) \/ (\E r \in Reader : Read(r))

Spec == Init /\ [][Next]_vars

-----------------------------------------------------------------------------
(* Properties. *)

\* The tables together give a day at most one override for each course: two rows
\* of one week cannot meet, nor rows of two weeks, for weeks of a course begin on
\* different Mondays.  No index spans the two tables.
OneOverridePerDay ==
    \A o, p \in overrides : \A d \in 0 .. LastDay + 6 :
        o.cal = p.cal /\ o.course = p.course /\ FallsOn(o, d) /\ FallsOn(p, d)
            => o = p

\* Weeks and overrides belong to a calendar that exists, also when an override is
\* saved again after it went with its calendar.
RowsHaveCalendars ==
    /\ \A w \in weeks : CalendarExists(w.cal)
    /\ \A o \in overrides : CalendarExists(o.cal)

\* What the tables promise for day d of a period: the override of the day, or else
\* the week of the group, or else the week of the highest course, or else teaching.
CalendarsFor(p) ==
    LET ofYear == IF group.year = None THEN {} ELSE InYear(group.year)
        cs     == IF ~group.planned THEN {} ELSE IF ofYear # {} THEN ofYear ELSE Until(p.to)
    IN  IF cs = {} THEN {None} ELSE {c.id : c \in Latest(cs)}

PlanOf(cal)     == {w \in weeks : w.cal = cal}
Begins(cal, s)  == IF s.start # None THEN {s.start}
                   ELSE {w.start : w \in {v \in PlanOf(cal) : v.number = s.number}}
StudyOn(cal, d) == {s \in study : d \in Begins(cal, s)}

Promised(cal, d) ==
    LET planned == WeeksOn(PlanOf(cal), Monday(d))
    IN  IF OverridesOn(cal, d) # {} THEN
            {[act |-> o.act, source |-> "academic_day_override"] : o \in OverridesOn(cal, d)}
        ELSE IF StudyOn(cal, Monday(d)) # {} THEN
            {[act |-> s.act, source |-> "study_week"] : s \in StudyOn(cal, Monday(d))}
        ELSE IF planned # {} THEN
            {[act |-> w.act, source |-> "academic_week"] : w \in Highest(planned)}
        ELSE {Default}

\* All changes are announced and none came while the reader was reading.
Settled(r) == version[r] = dataVersion /\ ~muted /\ \A a \in Admin : pc[a] # "bump"

\* Within the period a week number means one Monday, in whatever course.
Unambiguous(cal, p) ==
    \A v, w \in PlanOf(cal) :
        v.number = w.number /\ {v.start, w.start} \subseteq WeeksOf(p)
            => v.start = w.start

\* The days a Monday's override spoils: it is kept under the key of the week, and a
\* week of the group is kept over it.
Spoilt(cal, p, d) ==
    /\ Monday(d) \in p.from .. p.to
    /\ OverridesOn(cal, Monday(d)) # {}
    /\ d # Monday(d) \/ StudyOn(cal, d) # {}

\* A reader nothing disturbed shows every day what the tables promise, whatever
\* period it asked for, but for the days of a week whose Monday has an override.
AnswerExact ==
    \A r \in Reader : rpc[r] = "answer" /\ Settled(r) =>
        LET p == asked[r]
        IN  /\ calendar[r] \in CalendarsFor(p)
            /\ Unambiguous(calendar[r], p) =>
                 \A d \in p.from .. p.to :
                    Spoilt(calendar[r], p, d) \/ DayState(out[r], d) \in Promised(calendar[r], d)

\* An override refines the day it was made for and no other.
OverrideIsOneDay ==
    \A r \in Reader : rpc[r] = "answer" /\ Settled(r) =>
        \A d \in asked[r].from .. asked[r].to :
            DayState(out[r], d).source = "academic_day_override"
                => OverridesOn(calendar[r], d) # {}

-----------------------------------------------------------------------------
(* The inductive invariant behind OneOverridePerDay, RowsHaveCalendars, AnswerExact. *)

RowsDistinct ==
    /\ UniqueStarts(weeks)
    /\ \A v, w \in weeks : WeekKey(v) = WeekKey(w) => v = w
    /\ \A w \in weeks : Monday(w.start) = w.start
    /\ \A s \in study : s.start = None \/ Monday(s.start) = s.start
    /\ \A o, p \in overrides : o.id = p.id \/ Place(o) = Place(p) => o = p

\* Ids in use were drawn, and a row read to be updated keeps its calendar.
IdsDrawn ==
    /\ \A o \in overrides : o.id < nextOverride
    /\ \A a \in Admin : pc[a] \in {"again", "save"} =>
          /\ found[a] \in Override /\ req[a] \in Requests
          /\ req[a].op = "update" /\ ValidPatch(req[a].patch)
          /\ req[a].id < nextOverride

\* What each day may show once the given rows are written over it.
Over(below, rows, source) ==
    [d \in Day |-> IF rows[d] = {} THEN below[d]
                   ELSE {[act |-> row.act, source |-> source] : row \in rows[d]}]

ByWeeks(cal, p) == Over([d \in Day |-> {None}], WeekRows(PlanIn(cal, p)), "academic_week")
ByDays(cal, p)  == Over(ByWeeks(cal, p), OverrideRows(cal, p), "academic_day_override")
ByStudy(cal, p) == Over(ByDays(cal, p), StudyRows(PlanIn(cal, p), p), "study_week")

Within(map, choices) == \A d \in Day : map[d] \in choices[d]

\* What a reader nothing disturbed has after each SELECT, told by the tables of now.
Follows(r) ==
    /\ rpc[r] \in {"calendar", "fallback"} => group.planned /\ year[r] = group.year
    /\ rpc[r] = "fallback" => year[r] # None /\ InYear(year[r]) = {}
    /\ rpc[r] \in {"group", "calendar", "fallback"} => calendar[r] = None /\ plan[r] = {}
    /\ rpc[r] \in {"group", "calendar", "fallback", "weeks"} => out[r] = Nothing
    /\ rpc[r] \in {"weeks", "days", "study", "answer"} => calendar[r] \in CalendarsFor(asked[r])
    /\ rpc[r] \in {"days", "study", "answer"} => plan[r] = PlanIn(calendar[r], asked[r])
    /\ rpc[r] = "days" => Within(out[r], ByWeeks(calendar[r], asked[r]))
    /\ rpc[r] = "study" => Within(out[r], ByDays(calendar[r], asked[r]))
    /\ rpc[r] = "answer" => Within(out[r], ByStudy(calendar[r], asked[r]))

ReadersFollow ==
    \A r \in Reader :
        /\ version[r] <= dataVersion
        /\ rpc[r] # "idle" => asked[r] \in Ranges
        /\ Settled(r) => Follows(r)

IInv == TypeOK /\ RowsDistinct /\ IdsDrawn /\ RowsHaveCalendars /\ ReadersFollow
=============================================================================
