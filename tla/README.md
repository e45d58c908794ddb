# Formal models of the schedule backend

The backend keeps the timetable of a college: groups, lessons in slots
(group, date, pair, subgroup), the overrides a dispatcher applies to them, rooms,
day and teacher constraints, curricula, and the weeks that students read. It is
a Go service (gin and gorm) over PostgreSQL. Requests run in goroutines, state
lives in the database except for one in-memory cache, and most of what can go
wrong is an interleaving of SQL statements nobody wrote a test for. This
directory models that behaviour in TLA+, checks it with TLC on small instances
and proves the most important results with TLAPS for instances of every size.

## 1. Inventory

| component | state | operations | hard behaviour | what makes it correct |
|---|---|---|---|---|
| Lessons and overrides (`internal/schedule/service_overrides.go`, `repository_lessons.go`) | `schedule_lessons` (partial unique index on the slot of lessons that are not cancelled, `version`), `schedule_overrides` (journal) | `ApplyScheduleOverride` with add, replace, cancel, restore; create, update, delete of a lesson | several SELECTs and writes in one READ COMMITTED transaction; row locks; optimistic versions; crash between statements | slots unique, no lost update, journal tells each version once, expected version honoured, all or nothing |
| Room assignments (`repository_rooms.go`, `handlers_rooms.go`) | `room_assignments`, unique per lesson, foreign key to the lesson | upsert by overrides and autofill; create, update, delete by hand | a COUNT that sees committed rows only; key and foreign key locks in two orders | one physical room is not booked twice at one time; no assignment without a lesson |
| Constraints (`repository_calendar_constraints.go`, `repository_planning.go`) | `calendar_day_constraints`, `teacher_day_constraints` | create, update, delete; consulted by every write of a lesson | read, then used | no live lesson written on a closed day or with a blocked teacher, unless the rule overtook the request |
| Week cache and version (`service.go`, `week_cache.go`, `repository.go`) | in-memory FIFO map; one row of `system_state` | `GetRange`, `get`, `set`, `BumpScheduleVersion`, `bumpScheduleVersionTx` | a week is built by many SELECTs under a version read before them; two ways to write the version, ignored failures, seconds | what is answered contains what was announced; bounded |
| Groups and inheritance (`repository_admin.go`, `service_inheritance.go`) | `groups.schedule_source_group_id` | create, update with a cycle check, delete, reading the chain base to leaf | check and save are separate statements; sources change while they are followed; limits of ten | no cycle but for causes that are known, chains sound and exact, readers end |
| Schedule building (`service_build.go`, `service_filter.go`) | none | merge of base and leaf lessons per slot, day states, views by group, teacher and room, workload | precedence of several sources; a lesson shown by several groups | the leaf wins per slot; a lesson is counted once |
| Validation (`service_validate.go`) | none | conflict rules over a range of days | the days of all groups are read one by one, twice; two implementations of one rule | what is reported is a look at the tables and is mutual, and admitted rooms never clash |
| Room autofill (`service_location_autofill.go`) | the plan of one request | propose and write assignments | reads outside the writing transaction | no room taken away; a clash only with what is newer than its reads |
| Course assignments (`repository_teachers.go`) | `course_assignments`, draft or published | edit drafts, publish, discard | three statements at READ COMMITTED | publishing is a move; what is published is announced |
| Study calendar (`repository_curricula.go`, `repository_planning.go`) | calendars of a curriculum, their weeks by course, day overrides that name a week by its number, weeks of a group | create, delete, upsert of batches, Save of an override; the join that gives each day its state | five SELECTs without a transaction; rows of a week and of its Monday under one key; an override without a date | each day shows the most specific row that speaks of it, for any period that contains it |
| Reference data, events, overlays, disciplines of curricula (`repository_rooms.go`, `repository_admin.go`, `repository_teachers.go`, `repository_curricula.go`, `repository_events.go`) | their tables | create, read and Save, restore, upsert, hide, delete, list by pages | check-then-create, Save of a whole row that may be gone, deletions that reach into other tables, a page cut by OFFSET | keys and references hold, shown changes are announced, lists that have pages and trees are complete |
| Sessions (`handlers_auth.go`, `repository_refresh_tokens.go`) | `refresh_tokens` | login, refresh, logout | the successor is stored before the old token is revoked; failures, restarts, lost answers | a row changes once and names a successor that works |
| Push (`internal/push`) | device tokens; one goroutine per change | register, notify | order, failures, timeouts, restarts | the last change is heard of |
| Rate limiter (`mw_rate_limit.go`) | a map of token buckets | one lookup per request, cleaning | a bucket is used outside the mutex and can be forgotten meanwhile | one bucket per address |
| Imports (`handlers_import.go`, `handlers_import_plx.go`) | none of their own; items, hours and the calendar of a curriculum | merge a table of disciplines by name; add or replace a plan | an item is looked for and then created; Save of a row that may be gone; a DELETE that sees committed rows only | names that nobody else changed end as the file says, in the right place of the tree, and the rest stays |
| Exports | none | read and lay out | | |
| Access tokens, permissions, router, configuration, seed | none that requests change | | | |

How they interact: handlers of `internal/httpapi` call the repository or the
service, then write the version (`BumpScheduleVersion`), then start a push
goroutine, then write the audit log. Overrides do the first two in one
transaction, everything else in separate statements. Readers go through
`GetRange`, which follows the inheritance chain of the group and merges the
lessons of all groups on it.

The hazards this creates are listed with their lines in `PROJECT.json`.

## 2. Modules

| module | models | composed with |
|---|---|---|
| `LessonRegister` | what the lesson table and the journal promise: indivisible writes | abstract specification of `LessonTx` |
| `LessonTx` | the write path, statement by statement | implements `LessonRegister` |
| `LessonTx_proofs` | theorems about `LessonTx` | |
| `WeekCache` | the read path with its cache against three kinds of writers | |
| `WeekCache_proofs` | theorems about `WeekCache` | |
| `GroupInheritance` | groups, the cycle check and the readers of chains | |
| `GroupInheritance_proofs` | theorems about `GroupInheritance` | |
| `StudyCalendar` | the calendars, weeks and overrides of a group against readers of the schedule | |
| `StudyCalendar_proofs` | theorems about `StudyCalendar` | |
| `ScheduleBuild` | the merge, the views and the workload, as operators on sets of lessons | used by `ScheduleValidation` |
| `ScheduleValidation` | the rules and the passes of a validation among overrides | |
| `RoomAutofill` | room assignments by id and the autofill among clerks | |
| `RoomAutofill_proofs` | theorems about `RoomAutofill` | |
| `CourseAssignments` | drafts, publication and editors | |
| `Desk_proofs` | theorems about `ScheduleBuild`, `ScheduleValidation`, `CourseAssignments` and `Imports` | |
| `AdminTables` | how a request of the office uses the database; keys, references, pages | |
| `RoomTables`, `PlanTables`, `PeopleTables`, `CurriculumTables` | which handler does what with which table | `AdminTables` |
| `ReferenceData` | all these tables as one database | the four above |
| `ReferenceData_proofs` | theorems about `ReferenceData` | |
| `Imports` | uploads of a curriculum, statement by statement, among editors | |
| `Sessions` | refresh tokens | |
| `Pushes` | the goroutines that tell devices of changes | |
| `Apps_proofs` | theorems about `Sessions`, `Pushes` and `RateLimiter`, among them the refinement of `TokenBuckets` | |
| `TokenBuckets` | what the limiter promises: one bucket per address | abstract specification of `RateLimiter` |
| `RateLimiter` | the map, its mutex and its cleaning | implements `TokenBuckets` |
| `Values` | the value for NULL that the modules share | |
| `MC...` | the instances for TLC; `MCParts` and `MCOffice` hold several parts each | |

### LessonTx

Each element of `Proc` is one request with a program counter. A step is one SQL
statement and the checks in memory that follow it. A SELECT sees the rows
committed at that moment; `lock` is the holder of a lesson's row lock; what a
transaction wrote is kept in `RowToWrite`, `EntryToWrite` and `NextLoc` of the
request until `Commit` makes it visible in one step; a request that has saved
its row blocks others that want the same slot (`SlotTaken`), as the unique index
does. `sysLock` is the row lock on `system_state`. `WaitsFor` is the wait graph,
and `BreakDeadlock` is PostgreSQL cancelling one transaction of a cycle. `Crash`
ends every request under way, rolling its transaction back.

| action | code |
|---|---|
| `Begin` | the handler binds the body (`handlers_schedule_lessons.go`) |
| `FindLesson`, `LockLesson` | `SELECT ... FOR UPDATE`: `lockScheduleLessonForOverride`, `UpdateScheduleLesson` |
| `ReadRoom` | `getRoomAssignmentForLesson` |
| `CheckSlotEmpty` | the lookup of `applyAddOverride` |
| `CheckDay`, `CheckTeacher`, `CheckRoom` | `checkGlobalDayConstraintTx`, `checkTeacherConstraintsTx`, `ensureRoomAvailableTx` |
| `SaveLesson`, `PlaceRoom`, `Bump`, `Commit` | INSERT or UPDATE of the lesson, upsert of the room, the version, COMMIT |
| `BumpAfter` | the separate bump of the plain handlers |
| `DeleteLesson`, `ClaimRoom`, `InsertRoom`, `DeleteRoom`, `SetDayRule`, `SetTeacherRule` | the other handlers that touch these tables |

`overtaken` is history: which of the two rules a request has read that were written anew, for its day or its
teacher, before it committed. No guard reads it; `RulesRespected` does. A lesson that breaks a rule is written only by
a request whose rule of that kind was overtaken; a lesson that was there before the rule stays, as in the code, until
the validation reports it.

A slot stands for (group, date, pair, subgroup), with `DayOf` and `TimeOf`
giving its date and time. `subject` stands for every field an override replaces
when the body has it. A day and a teacher on a day have one rule each.

### WeekCache

A week is a function from its SELECTs to how many changes each one has seen. The
version is counted in whole seconds, as the cache key has it. `announced` (the
data at the last write of the version), `acked` (the data of all answered
writers), `pub` and `times` are history. Writers are `tx` (overrides),
`handler` (change, then a bump that may fail) and `silent` (changes that write
no version). `Crash` empties the cache.

### GroupInheritance

Updates run `FindGroup`, `Walk` (one step of the cycle check per SELECT) and
`Save`; creations `Insert`; deletions `Remove`; each ends with `Bump`. Readers
run `ReadLeaf` and `Follow`. There is no transaction in any of them. `Save`
re-creates a row that was deleted meanwhile, because gorm's Save falls back to
an INSERT. `used` is what the sequence of ids has given out; a body may name an
id of its own. `moved` is history: the groups that a check or a reader has passed (`Passed`) and whose source was
changed after that.

Cycles do come about in this code (`inherit_race`), so `Acyclic` is no invariant. `CyclesHaveCause` says by what step they
come about, under any interleaving: a creation that names itself, or an update whose check gave up at its limit, had
passed a group that was then given another source, or did not run because the source was not to change and writes back
one that somebody else has replaced. With any one of these four causes taken out of the property, TLC finds a cycle
that has it. `ChainExact` says the same of readers: the answer is the line of sources at that moment but for `moved`.

### StudyCalendar

The tables are sets of rows; `Activity` is a code (for code and name) and whether
lessons are held. There is one curriculum, which the group has or has not, and one
group, so `study` has the rows of that group. Days are numbers counted from a
Monday, so that `Monday` is `d - d % 7` and a year is `YearLength` days.

Admins are requests of the API. A handler that is one statement, or one
transaction whose rows stay locked to its end, is one step (`Commits`) followed
by `Bump`, the separate write of the version, which may fail. A request that is
refused (a bad body, a unique key, a missing calendar) changes nothing and is no
step; that a sequence skips an id when an INSERT fails is left out. Updating an
override is `FindOverride`, `FindAgain` and `SaveOverride`, because handler and
repository each read the row and Save inserts it again when it is gone.

| action | code |
|---|---|
| `CreateCalendar`, `DeleteCalendar` | `handleAdminCreateAcademicCalendar`, `handleAdminDeleteAcademicCalendar` and the cascades of the schema |
| `UpsertWeeks` | `UpsertAcademicCalendarWeeks`: course 0 is course 1, starts go to their Monday, rows are upserted one by one in one transaction |
| `CreateOverride`, `DeleteOverride` | the handlers of day overrides; `Inserted` is what gorm's Create makes of a false field whose column has the default true |
| `UpsertStudyWeeks`, `DeleteStudyWeek`, `ChangeGroup` | `UpsertStudyCalendarWeeks`, `DeleteStudyCalendarWeek`, `UpdateGroup` as far as it names curriculum and admission year |
| `Ask` ... `Answer` | `ListStudyDayStatesForGroupBetween`, one action per SELECT, and the loop of `buildDays` and `ExplainSlot` that takes the state of a day from its map (`DayState`) |

The map is a function on all days with `None` where it has no key. Where SQL gives
no order, `Overwritten` lets any row of a key come last.

### ScheduleBuild and ScheduleValidation

A lesson is a record of what the tables hold of it, with the room of its published
assignment. `Line` is the chain of a group, `Shown` the lessons of a day after the
merge (`BuildDays`), `SlotKey` the key by which the workload counts a lesson once. These are pure and are
checked on every timetable that the validation meets.

`ValidationNext` has one step per group whose days are read: `BuildOwn`, then
`ReadRooms` for the other groups if a lesson of the group has a room, then
`ReadFacilities` for them again if it has physical education, then `Conclude`. `CancelLesson` and
`PlaceLesson` are committed overrides; `RoomFree` (`ensureRoomAvailableTx`) and `SlotFree` (the
unique index of live lessons) admit them. A warning is a record of what it is about. What the code
takes from the study calendar, the curricula and the constraints are constants here
(`Teaching`, `Curriculum`, `Blocked`).

### RoomAutofill

`ReadLessons`, `ReadOccupied` and `MakePlan` come before the transaction, `LookUp`
and `Upsert` (for each lesson of the plan) and `CommitFill` or `AbortFill` are the
transaction. `written` is what it has saved and not committed, `Free` the row locks and the unique key that other writers wait for. Clerks create, read and
save, and delete rows (`CreateRow`, `ReadRow`, `SaveRow`, `DeleteRow`); gorm's Save
inserts the row when its id is gone (`Saved`). `OverridePlace` is the room of a
whole override. `since` is history: the lessons whose assignment changed since an autofill
began
to read.

The loop that gives each lesson the first free candidate is `IsPlan`: a plan has a room
for a lesson exactly when the lesson has a subject and a candidate is free, and the room is the first
one that neither an assignment nor an earlier lesson of the plan has at that time (`Busy`,
`FirstFree`). There is one such plan. The transaction takes the lessons of its plan in their order (`Todo`).

### CourseAssignments

`DeletePublished`, `InsertPublished`, `ClearDrafts` and `CommitPublish` are the
statements of `PublishDraftCourseAssignments`; an INSERT that meets a unique key aborts it.
Editors are `BeginEdit` with the checks of the handler, `ReadCourse`, `CreateCourse`,
`SaveCourse`, `DeleteCourse`; `DiscardDrafts` is one statement. `late` is history: the
keys changed by others since a publication began.

### AdminTables and the tables

A row has an id, a number for its identifying columns and its references. A request is a
record with the statements it still has to run (`todo`): `Creates`, `Finds` then `Saves`
(UPDATE by primary key, else INSERT), `Restores`, `Upserts`, `Updates`, `Hides`,
`Deletes` with what the foreign keys cascade to or set to NULL, and `announce`. `Fits` is
what the database checks of each row. Each handler of the four tables modules is one
line in these words; its ORDER BY is its `...InOrder`. `Lists` and `NextPage` are a
client with limit and offset. The links of locations and types are no such list: their handler reads neither and answers
with all of them in one SELECT (`handlers_rooms.go:211`).

`ShownChangesAnnounced` speaks of what weeks show, without campuses and activities. A week shows the campus of a room and the activity
of a calendar week too, but no handler that creates, renames, updates or deletes a campus or an activity
writes the version, nor do those of teachers, room types and preferences.

### Imports

An upload is one transaction. What it has not committed is kept in its record:
`items` and `hours` it wrote, the ids it removed (`gone`), what it did to the calendar.
`ItemsSeen` and `HoursSeen` are what its next statement sees at READ COMMITTED.
A subject is its name, so finding or creating it is no step.

| action | code |
|---|---|
| `BeginTable`, `FindItem`, `SaveItem`, `Allocate` | `importCurriculumItems`: for each row the look for an item of that name (created when there is none), the Save of its subject, the upsert of its hours |
| `BeginPlan`, `Clear`, `CreateItem`, `CreateCalendarRow` | `importPLXCurriculum` with `clearPLXCurriculumData`; `ParentOf` is the tree that `parsePLXPlanSheet` builds from the kinds of rows |
| `CommitImport`, `AbortImport`, `AnnounceImport` | COMMIT; any refusal, deadlock or stop of the server; the write of the version |
| `AddItem`, `DropItem`, `SetHours` | editors of the curriculum, of which `CurriculumTables` has all |

Row locks are waits: a statement that would wait is not enabled, and `AbortImport` is
the end of a wait that never ends. `others` is history: the names that somebody else
changed during an upload, about which the file promises nothing.

### Sessions, Pushes, RateLimiter

`Sessions`: `Refresh`, `CreateSuccessor` and `TradeToken` are the three statements of a
refresh; `Fail` is a statement that the database refuses, `Stop` the end of the process,
`Response` an answer that arrives or does not. The read of `Refresh` is the check: a token
that is revoked after it still gets a successor, but its row does not name it.

`Pushes`: `SaveChange` is a change and its version, `NotifyScheduleUpdatedAsync` the
goroutine, `ListSubscribedGroupIDs`, `ListDeviceTokensByGroup` and `Send` its steps, each of
which can fail (`Unlisted`, `SendFails`) without stopping the ones after it. After
`TimeIsUp` every send fails. `FirstById` is the ORDER BY of the lists. `heard` and `due` are history: what
a device has still to hear of, which a failure of its own list or send takes back when the version that failed was
new enough.

`RateLimiter`: `Arrive` reads the clock, `get` runs under the mutex with its cleaning
(`Forget`), `Allow` takes from the bucket later. `Delay` is an upper bound of the time between `Arrive` and
`Allow`; `IdleFills`, that a client is kept for at least the time its bucket needs to fill
and two delays more, holds for the ten minutes of `router.go:65` and the default rules, whose
buckets fill in less than one minute (`config.go:230`); a configuration with a very slow rule can break it. `Budget` is the refinement mapping: the bucket that is in the map,
or a full one.

## 3. Runs

| run | instance | shows |
|---|---|---|
| `writes` | three requests out of sixteen over six lessons and four slots, with crashes, while rules are relaxed and tightened | the inductive invariant with the types, unique slots, no lost update, expected versions, the journal; a rule of a day or a teacher is broken only by a commit that it overtook; `LessonTx` implements `LessonRegister` |
| `rooms` | three requests out of six over two lessons and two rooms | no assignment without a lesson, one kind of deadlock, every request ends |
| `booking` | two concurrent overrides | a room booked twice (counterexample) |
| `fresh` | two readers, two writers of three kinds, one week built by two SELECTs, room for two entries, two seconds | an answer contains what was announced, unless a second was shared; the FIFO stays in step with the map (a part of the inductive invariant) |
| `same_second` | two overrides in one second | the older week is answered (counterexample) |
| `inherit_walks` | three concurrent requests out of eight over six groups, walks of three | chains sound and exact, sources exist, every request ends |
| `inherit_cycles` | three concurrent requests out of thirteen that can close a cycle of three groups in every way, a check of two steps | a cycle has one of the four causes |
| `inherit_race` | two concurrent updates | a cycle (counterexample) |
| `calendar_days` | two admins who send four of thirteen requests, one reader of a week, of parts of two weeks or of one day, two weeks of days | the inductive invariant with the types; two overrides never meet on a day; nothing outlives its calendar; a reader nothing disturbed shows what the tables promise |
| `calendar_monday` | the same | an override of a Monday is shown on the whole week (counterexample) |
| `parts` | seven parts, each on its own: a validation of one of three groups among three overrides; two autofills among two writes of a clerk; two publications among two requests of an editor; two uploads of a table or a plan, three pieces of work with those of an editor; two apps of one user in two handlers; two senders, two devices, two versions; two requests at a time from two addresses | validations that nothing disturbed are exact, conflicts are mutual, admitted rooms never clash, workload counts once; one assignment per lesson, autofill keeps rooms and clashes only with the newer; publishing moves and is announced; imports do what the file says; trades of tokens are fair; the newest version is heard of; the limiter implements its buckets |
| `office` | nineteen groups of tables that refer to each other, two officers with two requests of all their bodies, a client that pages | keys and references, announcements, pages, trees |

Bounds. `MaxInFlight` requests are served at once and every request is served
once: three are enough for two writers to meet while a third reads between
their statements, and the conflicts of this code are pairwise. Version numbers
stay small because each request raises one by one. `MaxClock` bounds the seconds
that pass; two versions and the one the run starts with let a
transaction that began in the first second write its version after the newer one,
and give the two entries of the cache three keys to evict among. Ranges that are never
cached are left to the theorems, which hold for any `Period` and `Canonical`. `NQueries` is two so that a week can be torn. `MaxDepth` is ten in the
code; the instances have fewer groups and a smaller limit so that the limit itself is met in `inherit_walks`
and, by a line of three groups and a check of two steps, in `inherit_cycles`.

`MaxWrites` is four: a batch of weeks, an override, a week of the group and one
change of any of them are the longest chain one day's state depends on. `LastDay`
is 13, two weeks, so that overrides, starts and periods can be within one week,
across two, or at either end; a year is one of the two weeks, so that the calendar
of the admission year and the fallback both occur.

`parts` begins with one of the seven parts and the others stand still, so one run checks
seven small systems. Two of each actor let every pair of their statements meet; a third actor adds no new kind of
pair. `MaxClerkWork` and `MaxCourseWork` (two each) let a row be
taken and given again while somebody else is at work; `MaxEdits` (three) lets a lesson with a room be cancelled, its room be given to
another, and the first be restored; `MaxRows` and `MaxCourseIds` are as many rows as this
work can make. The timetable has a shared lesson, a clash, rooms of two campuses, a virtual one, a
fifth pair and a day of the holidays; it is checked in three parts (`MCTables`), each with conflicts of its own, to leave room for three edits. `MaxPlanWork` (3) lets an editor change an item while two uploads
are under way, and `MaxPlanIds` (6) is enough for a plan of three rows and a new item beside the two that are there; the hours an editor
sets (`EditorHours`) are in no file. `MaxTokens` (3) lets one token be traded twice; with
`TokenLife` 0 and `MaxTime` 1 a token expires. `MaxVersion` (2) and two senders let
versions overtake each other. `MaxNow` (5) is longer than `ClientTTL` (4), so a client is forgotten and
comes back; one request empties a bucket (`Burst` 1, `Cost` 2), so a second bucket
for an address would show at once.

`office`: with two requests (`MaxOfficeWork`), statement by statement, every pair of handlers
meets on the tables they share; `MaxIds` (4) leaves two new rows; the limits of pages, 1 and at most
2, are smaller than the tables, and 3 is cut to 2 as the code cuts it.

Deadlock of the model is ignored only in `parts` and `office`, which end when their bounded work is
done. In all other runs a request always has a next statement or
waits for one that has, and the end of all requests is a step of its own.

Fairness. `LessonTx!FairSpec` and `GroupInheritance!FairSpec` assume weak
fairness of the statements of a request: a goroutine that can run its next
statement runs it, and PostgreSQL resolves a deadlock it detects. Nothing is
assumed of clients, of the clock or of crashes.

## 4. Theorems

All of them hold for any number of requests, lessons, groups and weeks.

`LessonTx_proofs`, from `ConstantsOK`, `InitialDatabaseOK` and `RequestsOK`
(bodies have the fields the handlers insist on):

* `Invariant`: `Spec => []IInv`. `SlotUnique` and `NoLostUpdate` are not inductive:
  they need to know who holds which row (`Owns`), which statement belongs to
  which operation (`Course`), that saved but uncommitted rows reserve their slot
  (`SlotReserved`) and that a key is drawn before a row has it (`KeysIssued`).
* `TypeCorrect`, `SlotsStayUnique`, `NoUpdateIsLost`, `ExpectedVersionsHonoured`,
  `JournalStaysSound`, `RoomsBelongToLessons` follow from it.
* `DeadlocksAreKnown`: the row of a lesson is locked only by a transaction that works on this lesson and locks no
  other, and the row of the version only by an override about to commit, which waits for nobody; what can wait mutually is
  then an override that places a room and the insertion of an assignment by hand.
* `RulesHold`, for rules that are relaxed and tightened at any time: a row that was checked stays admitted until it is
  written, or the request is in `overtaken` for that rule (`RulesChecked`). Both exceptions are needed: without either, TLC finds a commit that a tightened rule overtook.
* `Refinement`: every step of `LessonTx` is a step of `LessonRegister` or a stutter.

`WeekCache_proofs`, from `ConstantsOK`:

* `Invariant`, `TypeCorrect`, `CacheStaysBounded`, `AnswersAreFresh`. The invariant
  says of every version written once what the data was when it was written, and
  that the cache, the week a reader is building and its answer cover it.

`GroupInheritance_proofs`, from `ConstantsOK` and `InitialSourcesOK`:

* `Invariant`, `TypeCorrect`, `SourcesAlwaysExist`, `ChainsAreSound`, under any
  interleaving. The chain read so far has exactly the groups in `seen`, each once.
* `CyclesAreExplained`, with no further assumption. During a check the groups passed lead to each other and to the next one, but for those
  in `moved`; if none of them has moved to another source, the one that is saved leads away from the group updated. A cycle
  that the save closes would lead from the new source over groups the check has passed to the group updated, which the check did not meet.
* `ChainsAreExact`, with no further assumption: each group of the chain read so far has the one read after it as its source, or is in `moved`.

`StudyCalendar_proofs`, from `ConstantsOK`, for any number of admins, readers and
days and any bodies and periods:

* `InvariantHolds`. The tables part keeps the unique keys and that all starts are
  Mondays. The readers part says what a reader has after each SELECT, in terms of
  the tables of now (`Follows`), as long as nothing disturbed it (`Settled`): a
  change makes its admin owe a bump and a bump raises the version above the one the
  reader took, so a reader that is settled at its end has read one state of the
  tables although it read it in five statements.
* `OverridesNeverMeet`: the starts of a course are different Mondays, so the days
  of two weeks are disjoint, and within a week the override's own key decides.
* `CalendarsOutlive`, and `ReadersAreExact`: the choices `Follows` leaves for each
  day are those the tables promise, whatever the period. Three facts carry it: the
  Monday of a day of the period is read even when it lies outside; for a week of
  the group without a start, the week of that number that was read is the right
  one if a number means one Monday (`Unambiguous`); and an override shadows a week
  only where it falls on a Monday (`Spoilt`).

`RoomAutofill_proofs`, from `FillConstants` (lessons are numbered, clerks name lessons and
rooms there are), for any number of autofills and clerks:

* `RowsInvariant`, `OneAssignment`. `OneRowPerLesson` is not inductive: Save of a row that was read
  long ago can insert it again. What holds in addition is that ids and lessons are unique
  also in what each open transaction sees (`Seen`), that two open transactions never share a row or a lesson (the
  waits of `Free`), and that every id anybody holds was drawn from the sequence.
* `Invariant`, `OnlyStaleClashes`, `NoRoomTaken`. The invariant says what an autofill knows at each statement: what it
  read is true of every lesson that is not in `since`; its plan gives no room away that was read as taken, and none twice at
  one time; what it has written is a part of its plan. A commit whose plan clashes therefore
  clashes with a lesson that was changed after the reads.

`Desk_proofs`, from `ValidationConstants` (the tables at the start are `LessonsSound`), `CalendarOK`, `CourseConstants` and
`ImportConstants` (no file is empty, as `handlers_import.go:343` and `handlers_import_plx.go:237` see to; the ids of the first
items are unique and hours belong to items, which the database keeps), for
any groups, chains, periods, lessons, publications, uploads, files and editors:

* `TablesSound`, the invariant of overrides on the timetable, and from it `BothAreTold`,
  `ChecksAreEnough` and `EachCountsOnce`. They rest on what the merge promises, which holds for any chain: a slot is shown once, with
  what the nearest group of the line has there (`ShownSlots`, `OwnShown`), and a group without a source shows what it has.
* `UntouchedIsExact`: until something changes, each group that was read was read as it is now
  (`Current`), and a pass that is skipped would have found nothing (`PassesInv`).
* `PublishingMoves` and `ChangesAreAnnounced`. The invariant says, for a key that is not in `late`, what a
  publication has removed and inserted of it after each statement (`PublishKeeps`); a commit by somebody else either leaves the
  key alone or puts it in `late` (`Undisturbed`). A commit that announces nothing has inserted nothing, and then
  no key outside `late` had a draft to move.

* `ImportInvariant`, `MergeIsExact` and `PlanIsExact`. `RowsInv` says what ids are worth: an id has one name
  wherever it is kept, in the tables or in what an upload found or wrote. For a name that nobody else changed, `Merged` says what a table has done after so many rows: the
  one item it found or created, with the subject of the last of these rows and, for each semester, the hours of the last
  (`ToldGrows`, `PutGrows`). `Written` says the same of a plan, row by row, `ParentIs` that a
  row is below an earlier one, and `PlanKeeps` that its ids are nowhere else and that what is not in `gone` has a name
  that somebody changed. A commit by somebody else puts the names it touches in `others` (`NotedKeeps`).

The line of a group is a recursive function of the position, as are the waves of a deletion and the levels of a tree in
`ReferenceData`. The prover has no induction rule for numbers it can instantiate; that every set of numbers has a least one (`LeastNumber`, from the well-founded order of finite sets)
takes its place: the least position at which the line would be undefined is the next of a defined one.

`Apps_proofs`, from `SessionConstants`, `PushConstants` (None is neither a token nor a group) and `LimiterConstants` with
`IdleFills`:

* `SessionInvariant`, `TradesStayFair`. A successor is in nobody's wallet and in no other row until its
  trade (`Secret`), so only the revocation of everything a user has can reach it before,
  and that one reaches the old token too, in which case the trade changes no row; and no successor expires before its
  predecessor (`ExpiryIsOrdered`), because the clock is read after the login that made the predecessor.
* `PushInvariant`, `NewestIsHeard`. What a device has to hear of was heard, waits in `saved` or is with a goroutine that
  still has the device or its group ahead of it and whose version is new enough (`NewsIsOnItsWay`). The one step that is
  not obvious is the start of the goroutine: it reads the version again, which can only be newer.
* `LimiterInvariant`, `RateIsKept`. A client is forgotten only when it was not seen for `ClientTTL`. A request that holds a
  bucket came at most `Delay` ago, and the client was last seen no more than another `Delay` before, because a request that
  came later may have passed it; so the bucket that is held is the one in the map, and one that is forgotten is full.
  `get` and `Arrive` then are stutters of `TokenBuckets`, `Allow` is `Take` or `Refuse`, and time
  is `Wait`.

`ReferenceData_proofs`, from `TablesConstants` (the first rows fit together, a body has the references that its table
insists on, and a limit is at least one, as `parseLimitOffset` sees to), for any officers, bodies and rows:

* `TablesInvariant`, `RowsStaySound`. `RowsSound` needs to know that the row a request saves is a proper one, but not that it is
  still there: `Fits` looks again. Two lemmas carry the rest. A deletion ends closed (`GoneIsClosed`): each wave of the cascade that is
  not the last takes a row, so there are no more waves than rows, and what is left refers to nothing that went.
  A batch is upserted row by row (`UpsertedIsSound`), and the conflict it replaces is at most one row, the one its unique key finds.
* `PagesAreComplete`. The ORDER BY of every list that has pages, with its scope, tells rows apart (`FreeLists`, `ScopedLists`), so there is one set of
  first rows of each size; what a client has got while the table stood still is that set, and a page that is empty is the end.
* `TreesShowAll`. An item is shown at a level exactly when its way up has ended there (`TreeShows`), for
  all items of a curriculum and for every page of them.
* `ChangesAreTold`, an action property. Only the requests of tables that no week shows save without an announcement
  (`SavesUnshown`), and what their deletions remove is within tables that no week shows (`GoneIsLeast`, `LoneTables`); the columns
  that they set to NULL in others are the campus of a location and the activity of a week.

Only checked with TLC: liveness (`EveryRequestEnds`), which is out of reach of
the provers. That rooms are booked once when overrides come one after the other is `ChecksSuffice`;
that they are not under concurrency is the counterexample `booking`.

## 5. What is left out

* Of the imports: the reading of cells, which is data; two subjects of one name; the import of a
  study calendar, which upserts activities by code and then weeks of groups as `UpsertStudyWeeks` does. Exports, PDF, router,
  logging, start and seed keep no state that a request changes.
* Access tokens and permissions: no request changes a user, a role or a key, so the
  answer to a token depends on its own contents and the clock only.
* The removal of a device: `router.go:182` registers `POST /push/unregister` without the
  parameter `:token` that its handler reads (`handlers_push.go:57`), so every such request is
  answered with 400, where `docs/openapi.yaml:337` promises 204. It is no action of `Pushes`.
* A day override created with `is_teaching` false is stored as true, because gorm leaves a zero field
  to the default of its column (`models.go:270`); `StudyCalendar!Inserted` has it so.
* An empty and an absent list in a copy of a cached week (`week_cache.go:73`).
* In the study calendar: ids skipped by failed inserts, more than one curriculum or
  group. In the validation: what it shares with the calendar is constant while it runs.
* Names, comments, formats and other columns no property tells apart; the audit
  log; ids a client names when it creates a lesson; the overlap of several constraints of one day; day events and the texts of
  an explanation.

## 6. Plan

The parts that requests change are modelled, and every safety and action property that a passing run checks is a theorem.
What is left is to widen the models where section 5 says they are narrow: several
curricula or groups in the study calendar, two subjects of one name in the imports.
