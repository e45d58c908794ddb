-------------------------- MODULE CourseAssignments --------------------------
(***************************************************************************)
(* Who teaches a subject to a group in a semester (repository_teachers.go, *)
(* handlers_teachers.go).  An assignment is a draft or published; its key, *)
(* group, semester, subject and subgroup, is unique per status.  Publishing *)
(* moves the drafts of a group with three statements of one transaction,   *)
(* at READ COMMITTED: each sees what has been committed before it starts.  *)
(* A statement is a step, and so is the commit.                            *)
(***************************************************************************)
EXTENDS Values, Integers, FiniteSets, FiniteSetsExt

CONSTANTS
  Keys,             \* group, semester, subject, subgroup
  KeyGroup, KeySemester, KeySubject,
  Staff,            \* teachers
  Publishers, Editors,
  PublishRequests,  \* [group, semester or None]
  CourseTables,     \* the assignments that may exist at first
  InitAllowed,      \* teacher_subjects: <<teacher, subject>>
  MaxCourseIds,     \* bound: ids of assignments
  MaxCourseWork     \* bound: requests of editors

VARIABLES
  courses,          \* rows [id, key, status, teacher]
  nextCourse,
  allowed,
  publish,          \* of a transaction: [pc, req, gone, added]
  late,             \* history: keys others changed since a publication began
  edit,             \* of an editor: [pc, req, row]
  courseWork

courseVars == <<courses, nextCourse, allowed, publish, late, edit, courseWork>>

Status == {"draft", "published"}
CourseRow == [id: 1..MaxCourseIds, key: Keys, status: Status, teacher: Staff \cup {None}]

ASSUME CourseConstants ==
  /\ \A table \in CourseTables : table \subseteq CourseRow
  /\ None \notin Publishers

(* A publication and an editor that hold nothing.                          *)
PublishAt(pc) == [pc |-> pc, req |-> None, gone |-> {}, added |-> {}]
EditAt(pc) == [pc |-> pc, req |-> None, row |-> None]

CourseInit ==
  /\ courses \in CourseTables
  /\ nextCourse = 1 + Cardinality(courses)
  /\ allowed = InitAllowed
  /\ publish = [p \in Publishers |-> PublishAt("idle")]
  /\ late = [p \in Publishers |-> {}]
  /\ edit = [e \in Editors |-> EditAt("idle")]
  /\ courseWork = 0

With(k, status, table) == {a \in table : a.key = k /\ a.status = status}
KeysOf(table) == {a.key : a \in table}

(* What a transaction sees: the committed rows and what it did itself.     *)
SeenBy(p) == (courses \ publish[p].gone) \cup publish[p].added

(* The rows that open transactions hold, and their keys.                   *)
HeldFrom(p) == UNION {publish[q].gone \cup publish[q].added : q \in Publishers \ {p}}
Writable(p, a) ==
  \A b \in HeldFrom(p) : b.id # a.id /\ ~(b.key = a.key /\ b.status = a.status)
Unique(a, table) == \A b \in With(a.key, a.status, table) : b.id = a.id

(* A commit by someone else, noted by the publications under way.          *)
Noted(keys, but) ==
  late' = [p \in Publishers |-> IF p = but \/ publish[p].pc \in {"idle", "announce", "done"} THEN {}
                               ELSE late[p] \cup keys]

-----------------------------------------------------------------------------
(* PublishDraftCourseAssignments                                           *)
InScope(req, a) ==
  KeyGroup[a.key] = req.group /\ (req.semester = None \/ KeySemester[a.key] = req.semester)
Drafts(req, table) == {a \in table : a.status = "draft" /\ InScope(req, a)}

(* DELETE the published rows that have a draft in scope.                   *)
DeletePublished(p, req) ==
  LET old == {a \in courses : a.status = "published" /\ a.key \in KeysOf(Drafts(req, courses))}
  IN  /\ publish[p].pc = "idle"
      /\ \A a \in old : Writable(p, a)
      /\ publish' = [publish EXCEPT ![p] = [pc |-> "insert", req |-> req, gone |-> old, added |-> {}]]
  /\ UNCHANGED <<courses, nextCourse, allowed, late, edit, courseWork>>

(* The transaction goes on, holding more rows.                             *)
Holds(p, pc, gone, added) ==
  publish' = [publish EXCEPT ![p] = [pc |-> pc, req |-> publish[p].req, gone |-> gone, added |-> added]]

(* INSERT ... SELECT the drafts as published, with new ids.                *)
AsPublished(a, drafts) ==
  [id |-> nextCourse + Cardinality({b \in drafts : b.id < a.id}),
   key |-> a.key, status |-> "published", teacher |-> a.teacher]

InsertPublished(p) ==
  LET drafts == Drafts(publish[p].req, courses)
      new == {AsPublished(a, drafts) : a \in drafts}
  IN  /\ publish[p].pc = "insert"
      /\ nextCourse + Cardinality(drafts) <= MaxCourseIds + 1
      /\ \A a \in new : Writable(p, a) /\ Unique(a, SeenBy(p))
      /\ Holds(p, "clear", publish[p].gone, new)
      /\ nextCourse' = nextCourse + Cardinality(drafts)
  /\ UNCHANGED <<courses, allowed, late, edit, courseWork>>

\* Mutant: the semester is forgotten.
ClearGroup(p) ==
  LET drafts == Drafts([publish[p].req EXCEPT !.semester = None], courses)
  IN  /\ publish[p].pc = "clear"
      /\ \A a \in drafts : Writable(p, a)
      /\ Holds(p, "commit", publish[p].gone \cup drafts, publish[p].added)
  /\ UNCHANGED <<courses, nextCourse, allowed, late, edit, courseWork>>

(* DELETE the drafts in scope: those that are there by now.                *)
ClearDrafts(p) ==
  LET drafts == Drafts(publish[p].req, courses)
  IN  /\ publish[p].pc = "clear"
      /\ \A a \in drafts : Writable(p, a)
      /\ Holds(p, "commit", publish[p].gone \cup drafts, publish[p].added)
  /\ UNCHANGED <<courses, nextCourse, allowed, late, edit, courseWork>>

CommitPublish(p) ==
  /\ publish[p].pc = "commit"
  /\ courses' = SeenBy(p)
  /\ Noted(KeysOf(publish[p].gone \cup publish[p].added), p)
  /\ publish' = [publish EXCEPT ![p] = PublishAt(IF publish[p].added = {} THEN "done" ELSE "announce")]
  /\ UNCHANGED <<nextCourse, allowed, edit, courseWork>>

(* A statement fails (a key was published meanwhile), or the server stops. *)
AbortPublish(p) ==
  /\ publish[p].pc \in {"insert", "clear", "commit"}
  /\ publish' = [publish EXCEPT ![p] = PublishAt("done")]
  /\ late' = [late EXCEPT ![p] = {}]
  /\ UNCHANGED <<courses, nextCourse, allowed, edit, courseWork>>

-----------------------------------------------------------------------------
(* The handlers of editors.  EnsureTeacherSubjectAllowed comes first.      *)
EnsureAllowed(req) == req.teacher = None \/ <<req.teacher, KeySubject[req.key]>> \in allowed

BeginEdit(e, op, req) ==
  /\ edit[e].pc = "idle" /\ courseWork < MaxCourseWork
  /\ EnsureAllowed(req)
  /\ edit' = [edit EXCEPT ![e] = [pc |-> op, req |-> req, row |-> None]]
  /\ courseWork' = courseWork + 1
  /\ UNCHANGED <<courses, nextCourse, allowed, publish, late>>

\* Mutant: only a change that leaves a draft is announced.
AfterWriteOfDraft(status) == IF status = "draft" THEN "announce" ELSE "idle"

(* A request that wrote a published row announces a new version next.      *)
AfterWrite(status) == IF status = "published" THEN "announce" ELSE "idle"

Write(e, table, keys, status) ==
  /\ courses' = table
  /\ Noted(keys, None)
  /\ edit' = [edit EXCEPT ![e] = EditAt(AfterWrite(status))]
  /\ UNCHANGED <<allowed, publish, courseWork>>

Answered(e) == edit' = [edit EXCEPT ![e] = EditAt("idle")]

RowAsked(e, id) == [id |-> id, key |-> edit[e].req.key, status |-> edit[e].req.status,
                    teacher |-> edit[e].req.teacher]

CreateCourse(e) ==
  LET a == RowAsked(e, nextCourse)
  IN  /\ edit[e].pc = "create" /\ nextCourse <= MaxCourseIds
      /\ Writable(None, a) /\ Unique(a, courses)
      /\ Write(e, courses \cup {a}, {a.key}, a.status)
      /\ nextCourse' = nextCourse + 1

(* UpdateCourseAssignment and the deletion read the row ...                *)
ReadCourse(e, a) ==
  /\ edit[e].pc = "update" /\ edit[e].row = None
  /\ edit' = [edit EXCEPT ![e] = [pc |-> "update", req |-> edit[e].req, row |-> a]]
  /\ UNCHANGED <<courses, nextCourse, allowed, publish, late, courseWork>>

ReadDeleted(e, a) ==
  /\ edit[e].pc = "idle" /\ courseWork < MaxCourseWork
  /\ edit' = [edit EXCEPT ![e] = [pc |-> "delete", req |-> None, row |-> a]]
  /\ courseWork' = courseWork + 1
  /\ UNCHANGED <<courses, nextCourse, allowed, publish, late>>

(* ... and save all of it by id, or insert it again when it is gone;       *)
SaveCourse(e) ==
  LET a == RowAsked(e, edit[e].row.id)
      old == {b \in courses : b.id = a.id}
  IN  /\ edit[e].pc = "update" /\ edit[e].row # None
      /\ \A b \in old \cup {a} : Writable(None, b)
      /\ Unique(a, courses)
      /\ Write(e, (courses \ old) \cup {a}, KeysOf(old \cup {a}), a.status)
      /\ UNCHANGED nextCourse

(* ... or delete what has that id, and judge by the status that was read.  *)
DeleteCourse(e) ==
  LET old == {b \in courses : b.id = edit[e].row.id}
  IN  /\ edit[e].pc = "delete"
      /\ \A b \in old : Writable(None, b)
      /\ Write(e, courses \ old, KeysOf(old), edit[e].row.status)
      /\ UNCHANGED nextCourse

(* The row is not found, or its key is taken.                              *)
RefuseEdit(e) ==
  /\ \/ edit[e].pc = "update" /\ edit[e].row = None
     \/ edit[e].pc = "create" /\ ~Unique(RowAsked(e, 0), courses)
     \/ edit[e].pc = "update" /\ edit[e].row # None /\ ~Unique(RowAsked(e, edit[e].row.id), courses)
  /\ Answered(e)
  /\ UNCHANGED <<courses, nextCourse, allowed, publish, late, courseWork>>

(* DiscardDraftCourseAssignments: one statement.                           *)
DiscardDrafts(req) ==
  LET drafts == Drafts(req, courses)
  IN  /\ courseWork < MaxCourseWork
      /\ \A a \in drafts : Writable(None, a)
      /\ courses' = courses \ drafts
      /\ Noted(KeysOf(drafts), None)
      /\ courseWork' = courseWork + 1
      /\ UNCHANGED <<nextCourse, allowed, publish, edit>>

(* CreateTeacherSubject, DeleteTeacherSubject                              *)
SetAllowed(pairs) ==
  /\ courseWork < MaxCourseWork
  /\ allowed' = pairs
  /\ courseWork' = courseWork + 1
  /\ UNCHANGED <<courses, nextCourse, publish, late, edit>>

(* bumpScheduleVersionAndGet and the push: WeekCache and PushDevices.      *)
AnnounceCourses ==
  /\ \/ \E e \in Editors :
          /\ edit[e].pc = "announce"
          /\ Answered(e) /\ UNCHANGED publish
     \/ \E p \in Publishers :
          /\ publish[p].pc = "announce"
          /\ publish' = [publish EXCEPT ![p] = PublishAt("done")] /\ UNCHANGED edit
  /\ UNCHANGED <<courses, nextCourse, allowed, late, courseWork>>

CourseRequests == [key: Keys, status: Status, teacher: Staff \cup {None}]

CourseNext ==
  \/ \E p \in Publishers :
       \/ \E req \in PublishRequests : DeletePublished(p, req)
       \/ InsertPublished(p) \/ ClearDrafts(p) \/ CommitPublish(p) \/ AbortPublish(p)
  \/ \E e \in Editors :
       \/ \E op \in {"create", "update"}, req \in CourseRequests : BeginEdit(e, op, req)
       \/ \E a \in courses : ReadCourse(e, a) \/ ReadDeleted(e, a)
       \/ CreateCourse(e) \/ SaveCourse(e) \/ DeleteCourse(e) \/ RefuseEdit(e)
  \/ \E req \in PublishRequests : DiscardDrafts(req)
  \/ \E t \in Staff, k \in Keys :
       \/ SetAllowed(allowed \cup {<<t, KeySubject[k]>>})
       \/ SetAllowed(allowed \ {<<t, KeySubject[k]>>})
  \/ AnnounceCourses

CourseSpec == CourseInit /\ [][CourseNext]_courseVars

-----------------------------------------------------------------------------
Teaches(k, status, table) == {a.teacher : a \in With(k, status, table)}

(* Publishing is a move: for a key that nobody else changed meanwhile, the *)
(* draft in scope becomes the published assignment and is gone as a draft, *)
(* and everything else stays.  Only a key that was changed between the     *)
(* statements can lose a draft, or its published assignment.               *)
PublishMoves ==
  [][\A p \in Publishers :
       publish[p].pc = "commit" /\ publish'[p].pc \in {"announce", "done"} /\ courses' # courses =>
         \A k \in Keys \ late[p] :
           LET draft == With(k, "draft", courses)
           IN  IF draft # {} /\ \A a \in draft : InScope(publish[p].req, a)
               THEN /\ Teaches(k, "published", courses)' = Teaches(k, "draft", courses)
                    /\ With(k, "draft", courses)' = {}
               ELSE \A s \in Status : With(k, s, courses)' = With(k, s, courses)]_courseVars

(* A change of what is published is announced, except where an update made *)
(* a published assignment a draft, one was published after the deletion    *)
(* that removes it had read it, or a publication moved nothing because the *)
(* draft went away after its published counterpart had been deleted.       *)
ChangesAnnounced ==
  [][\A k \in Keys :
       Teaches(k, "published", courses)' # Teaches(k, "published", courses) =>
         \/ \E p \in Publishers :
              publish[p].pc = "commit" /\ (publish'[p].pc = "announce" \/ k \in late[p])
         \/ \E e \in Editors :
              \/ edit'[e].pc = "announce"
              \/ edit[e].pc = "update" /\ edit[e].req.status = "draft"
              \/ edit[e].pc = "delete" /\ edit[e].row.status = "draft"]_courseVars
=============================================================================
