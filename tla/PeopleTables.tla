---------------------------- MODULE PeopleTables ----------------------------
(***************************************************************************)
(* Teachers, subjects, who can teach what, groups.  A teacher, a subject   *)
(* or a curriculum is not deleted but hidden, and an update shows it again.*)
(* How a group is created and changed is in GroupInheritance.              *)
(***************************************************************************)
EXTENDS AdminTables

(* name_key is the name without blanks and capitals; a teacher who is      *)
(* created again keeps the id.                                             *)
TeacherRow(id, b) == Row("teachers", id, Lower(Trim(b.key)), b.refs)
PostTeacher(w, b) == b.key # 0 /\ Upserts(w, "teachers", <<TeacherRow(None, b)>>, {"key"}, <<>>)
PutTeacher(w, r, b) == b.key # 0 /\ Updates(w, r, TeacherRow(r.id, b), <<>>)
DeleteTeacher(w, r) == Hides(w, r, <<>>)
TeachersInOrder == <<"id">>
ListTeachers == Lists("teachers", TeachersInOrder, None)

(* INSERT ... ON CONFLICT DO NOTHING                                       *)
TeachesRow(b) == Row("teaches", None, 0, b.refs)
PostTeaches(w, b) == Upserts(w, "teaches", <<TeachesRow(b)>>, {"teacher", "subject"}, <<>>)
DeleteTeaches(w, r) == Deletes(w, r, <<>>)
TeachesInOrder == <<"teacher", "subject">>
ListTeaches == \E s \in Scopes("teaches", "teacher") : Lists("teaches", TeachesInOrder, s)

SubjectRow(b) == Row("subjects", b.named, b.key, b.refs)
PostSubject(w, b) == b.key # 0 /\ Creates(w, SubjectRow(b), <<"announce">>)
PutSubject(w, r, b) == Finds(w, r, SubjectRow(b), <<"restore", "announce">>)
SaveSubject(w) == Saves(w, "subjects")
RestoreSubject(w) == Restores(w, "subjects")
DeleteSubject(w, r) == Hides(w, r, <<"announce">>)
SubjectsInOrder == <<"id">>
ListSubjects == Lists("subjects", SubjectsInOrder, None)

DeleteGroup(w, r) == Deletes(w, r, <<"announce">>)
GroupsInOrder == <<"id">>
ListGroups == Lists("groups", GroupsInOrder, None)

(* Course assignments are written in CourseAssignments.  A key is a        *)
(* semester, a subject and a subgroup.                                     *)
CoursesInOrder == <<"group", "key", "id">>
ListCourses == \E s \in Scopes("courses", "group") : Lists("courses", CoursesInOrder, s)

PeopleWrites(w) ==
  \/ \E b \in Bodies["teachers"] : PostTeacher(w, b) \/ \E r \in RowsOf("teachers") : PutTeacher(w, r, b)
  \/ \E b \in Bodies["teaches"] : PostTeaches(w, b)
  \/ \E b \in Bodies["subjects"] : PostSubject(w, b) \/ \E r \in RowsOf("subjects") : PutSubject(w, r, b)
  \/ SaveSubject(w) \/ RestoreSubject(w)
  \/ \E r \in RowsOf("teachers") : DeleteTeacher(w, r)
  \/ \E r \in RowsOf("teaches") : DeleteTeaches(w, r)
  \/ \E r \in RowsOf("subjects") : DeleteSubject(w, r)
  \/ \E r \in RowsOf("groups") : DeleteGroup(w, r)

PeopleLists == ListTeachers \/ ListTeaches \/ ListSubjects \/ ListGroups \/ ListCourses
=============================================================================
