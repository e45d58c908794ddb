-------------------------- MODULE CurriculumTables --------------------------
(***************************************************************************)
(* Specialties, curricula, their items, the semesters of an item.          *)
(* Whether the parent of an item is in its curriculum, is the item itself  *)
(* or comes after it, is not looked at.                                    *)
(***************************************************************************)
EXTENDS AdminTables

SpecialtyRow(b) == Row("specialties", b.named, b.key, b.refs)
PostSpecialty(w, b) == b.key # 0 /\ Creates(w, SpecialtyRow(b), <<>>)
PutSpecialty(w, r, b) == b.key # 0 /\ Finds(w, r, SpecialtyRow(b), <<>>)
SaveSpecialty(w) == Saves(w, "specialties")
DeleteSpecialty(w, r) == Deletes(w, r, <<>>)
SpecialtiesInOrder == <<"id">>
ListSpecialties == Lists("specialties", SpecialtiesInOrder, None)

(* Its key is the year and the variant.                                    *)
CurriculumRow(b) == Row("curricula", b.named, b.key, b.refs)
PostCurriculum(w, b) == b.key # 0 /\ Creates(w, CurriculumRow(b), <<"announce">>)
PutCurriculum(w, r, b) == b.key # 0 /\ Finds(w, r, CurriculumRow(b), <<"restore", "announce">>)
SaveCurriculum(w) == Saves(w, "curricula")
RestoreCurriculum(w) == Restores(w, "curricula")
DeleteCurriculum(w, r) == Hides(w, r, <<"announce">>)
CurriculaInOrder == <<"specialty", "key", "id">>
ListCurricula == \E s \in Scopes("curricula", "specialty") : Lists("curricula", CurriculaInOrder, s)

(* An item stays in its curriculum.                                        *)
ItemRow(b) == Row("items", b.named, b.key, b.refs)
PostItem(w, b) == b.key # 0 /\ Creates(w, ItemRow(b), <<"announce">>)
PutItem(w, r, b) ==
  b.key # 0 /\ Finds(w, r, [ItemRow(b) EXCEPT !.refs["curriculum"] = r.refs["curriculum"]], <<"announce">>)
SaveItem(w) == Saves(w, "items")
DeleteItem(w, r) == Deletes(w, r, <<"announce">>)
ItemsInOrder == <<"id">>
ListItems == \E s \in Scopes("items", "curriculum") \ {None} : Lists("items", ItemsInOrder, s)

AllocationRow(b) == Row("allocations", None, b.key, b.refs)
PutAllocations(w, batch) ==
  Upserts(w, "allocations", [i \in DOMAIN batch |-> AllocationRow(batch[i])], {"item", "key"}, <<"announce">>)
AllocationsInOrder == <<"key">>
ListAllocations == \E s \in Scopes("allocations", "item") \ {None} : Lists("allocations", AllocationsInOrder, s)

(* Calendars are written in StudyCalendar.                                 *)
CalendarsInOrder == <<"key">>
ListCalendars == \E s \in Scopes("calendars", "curriculum") \ {None} : Lists("calendars", CalendarsInOrder, s)
CalendarWeeksInOrder == <<"day", "slot">>
ListCalendarWeeks ==
  \E s \in Scopes("calendarWeeks", "calendar") \ {None} : Lists("calendarWeeks", CalendarWeeksInOrder, s)
OverridesInOrder == <<"key">>
ListOverrides == \E s \in Scopes("overrides", "calendar") \ {None} : Lists("overrides", OverridesInOrder, s)

-----------------------------------------------------------------------------
(* buildCurriculumItemTree: the items of a list (all of a curriculum, or a *)
(* page of them) as a forest.  What hangs from the roots is in the answer. *)
Parent(r) == r.refs["parent"]
\* Mutant: an item whose parent is not in the list is dropped.
RootsOnly(items) == {r \in items : Parent(r) \in {None, r.id}}
Roots(items) == {r \in items : Parent(r) \in {None, r.id} \/ \A p \in items : p.id # Parent(r)}
Children(items, r) == {c \in items \ Roots(items) : Parent(c) = r.id}

buildCurriculumItemTree(items) ==
  LET shown[n \in 0..Cardinality(items)] ==
        IF n = 0 THEN Roots(items)
        ELSE LET above == shown[n-1] IN above \cup UNION {Children(items, r) : r \in above}
  IN  shown[Cardinality(items)]

CurriculumWrites(w) ==
  \/ \E b \in Bodies["specialties"] :
       PostSpecialty(w, b) \/ \E r \in RowsOf("specialties") : PutSpecialty(w, r, b)
  \/ \E b \in Bodies["curricula"] :
       PostCurriculum(w, b) \/ \E r \in RowsOf("curricula") : PutCurriculum(w, r, b)
  \/ \E b \in Bodies["items"] : PostItem(w, b) \/ \E r \in RowsOf("items") : PutItem(w, r, b)
  \/ \E batch \in Bodies["allocations"] : PutAllocations(w, batch)
  \/ SaveSpecialty(w) \/ SaveCurriculum(w) \/ RestoreCurriculum(w) \/ SaveItem(w)
  \/ \E r \in RowsOf("specialties") : DeleteSpecialty(w, r)
  \/ \E r \in RowsOf("curricula") : DeleteCurriculum(w, r)
  \/ \E r \in RowsOf("items") : DeleteItem(w, r)

CurriculumLists ==
  \/ ListSpecialties \/ ListCurricula \/ ListItems \/ ListAllocations
  \/ ListCalendars \/ ListCalendarWeeks \/ ListOverrides
=============================================================================
