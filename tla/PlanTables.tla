----------------------------- MODULE PlanTables -----------------------------
(***************************************************************************)
(* Study activities, the weeks of groups, constraints of teachers and of   *)
(* days, the journal of replacements, events and overlays of days.         *)
(***************************************************************************)
EXTENDS AdminTables

ActivityRow(b) == Row("activities", b.named, Trim(b.key), b.refs)
PostActivity(w, b) == Trim(b.key) # 0 /\ Creates(w, ActivityRow(b), <<>>)
PutActivity(w, r, b) == Trim(b.key) # 0 /\ Finds(w, r, ActivityRow(b), <<>>)
SaveActivity(w) == Saves(w, "activities")
DeleteActivity(w, r) == Deletes(w, r, <<>>)
ActivitiesInOrder == <<"key", "id">>
ListActivities == Lists("activities", ActivitiesInOrder, None)

(* The weeks themselves are written in StudyCalendar.                      *)
WeeksInOrder == <<"group", "key">>
ListWeeks == \E s \in Scopes("weeks", "group") : Lists("weeks", WeeksInOrder, s)

ConstraintRow(b) == Row("constraints", None, b.key, b.refs)
PostConstraint(w, b) == Creates(w, ConstraintRow(b), <<>>)
PutConstraint(w, r, b) == Finds(w, r, ConstraintRow(b), <<>>)
SaveConstraint(w) == Saves(w, "constraints")
DeleteConstraint(w, r) == Deletes(w, r, <<>>)
ConstraintsInOrder == <<"key", "teacher">>
ListConstraints == \E s \in Scopes("constraints", "teacher") : Lists("constraints", ConstraintsInOrder, s)

(* Its key is a day and a pair, of which there are eight.                  *)
PairExists(b) == b.key % 10 \in 1..8
ReplacementRow(b) == Row("replacements", None, b.key, b.refs)
PostReplacement(w, b) == PairExists(b) /\ Creates(w, ReplacementRow(b), <<>>)
PutReplacement(w, r, b) == PairExists(b) /\ Finds(w, r, ReplacementRow(b), <<>>)
SaveReplacement(w) == Saves(w, "replacements")
DeleteReplacement(w, r) == Deletes(w, r, <<>>)
ReplacementsInOrder == <<"day", "group", "slot">>
ListReplacements == \E s \in Scopes("replacements", "group") : Lists("replacements", ReplacementsInOrder, s)

DayRow(b) == Row("days", None, b.key, b.refs)
PostDay(w, b) == Creates(w, DayRow(b), <<"announce">>)
PutDay(w, r, b) == Finds(w, r, DayRow(b), <<"announce">>)
SaveDay(w) == Saves(w, "days")
DeleteDay(w, r) == Deletes(w, r, <<"announce">>)
DaysInOrder == <<"key", "id">>
ListDays == Lists("days", DaysInOrder, None)

EventRow(b) == Row("events", b.named, b.key, b.refs)
PostEvent(w, b) == Creates(w, EventRow(b), <<"announce">>)
PutEvent(w, r, b) == Finds(w, r, EventRow(b), <<"announce">>)
SaveEvent(w) == Saves(w, "events")
DeleteEventUnannounced(w, r) == Deletes(w, r, <<>>)
DeleteEvent(w, r) == Deletes(w, r, <<"announce">>)
EventsInOrder == <<"key", "id">>
ListEvents == \E s \in Scopes("events", "group") : Lists("events", EventsInOrder, s)

(* An overlay is looked for, and then either saved or created.             *)
OverlayRow(b) == Row("overlays", None, b.key, b.refs)
FindOverlay(w, b) ==
  LET old == {r \in RowsOf("overlays") : Agree(r, OverlayRow(b), {"group", "key"})}
  IN  /\ Asked(w, "overlays")
      /\ IF old = {} THEN Left(w, <<"create", "announce">>, OverlayRow(b))
         ELSE \E r \in old : Left(w, <<"save", "announce">>, r)
      /\ UNCHANGED <<shelf, rows, nextId, page>>
CreateOverlay(w) ==
  /\ At(w, "create")
  /\ Inserts(w, officer[w].row, Tail(officer[w].todo))
  /\ UNCHANGED officeWork
SaveOverlay(w) == Saves(w, "overlays")

PlanWrites(w) ==
  \/ \E b \in Bodies["activities"] :
       PostActivity(w, b) \/ \E r \in RowsOf("activities") : PutActivity(w, r, b)
  \/ \E b \in Bodies["constraints"] :
       PostConstraint(w, b) \/ \E r \in RowsOf("constraints") : PutConstraint(w, r, b)
  \/ \E b \in Bodies["replacements"] :
       PostReplacement(w, b) \/ \E r \in RowsOf("replacements") : PutReplacement(w, r, b)
  \/ \E b \in Bodies["days"] : PostDay(w, b) \/ \E r \in RowsOf("days") : PutDay(w, r, b)
  \/ \E b \in Bodies["events"] : PostEvent(w, b) \/ \E r \in RowsOf("events") : PutEvent(w, r, b)
  \/ \E b \in Bodies["overlays"] : FindOverlay(w, b)
  \/ SaveActivity(w) \/ SaveConstraint(w) \/ SaveReplacement(w) \/ SaveDay(w) \/ SaveEvent(w)
  \/ CreateOverlay(w) \/ SaveOverlay(w)
  \/ \E r \in RowsOf("activities") : DeleteActivity(w, r)
  \/ \E r \in RowsOf("constraints") : DeleteConstraint(w, r)
  \/ \E r \in RowsOf("replacements") : DeleteReplacement(w, r)
  \/ \E r \in RowsOf("days") : DeleteDay(w, r)
  \/ \E r \in RowsOf("events") : DeleteEvent(w, r)

PlanLists ==
  \/ ListActivities \/ ListWeeks \/ ListConstraints \/ ListReplacements \/ ListDays \/ ListEvents
=============================================================================
