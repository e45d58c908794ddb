----------------------------- MODULE RoomTables -----------------------------
(***************************************************************************)
(* Campuses, locations, their types, the teachers' preferences, requests   *)
(* for rooms, the weeks in which a location can be used.                   *)
(* XRow is the row that a body makes, XInOrder the ORDER BY of the list;   *)
(* PostX, PutX, DeleteX and ListX are the handlers.  The links have no     *)
(* ListX: their handler reads no limit and no offset and answers with all  *)
(* of them in one SELECT, so no client pages through them.                 *)
(***************************************************************************)
EXTENDS AdminTables

Priority(n) == IF n <= 0 THEN 100 ELSE n

CampusRow(b) == Row("campuses", b.named, Trim(b.key), b.refs)
PostCampus(w, b) == Trim(b.key) # 0 /\ Creates(w, CampusRow(b), <<>>)
PutCampus(w, r, b) == Trim(b.key) # 0 /\ Finds(w, r, CampusRow(b), <<>>)
SaveCampus(w) == Saves(w, "campuses")
DeleteCampus(w, r) == Deletes(w, r, <<>>)
CampusesInOrder == <<"key", "id">>
ListCampuses == Lists("campuses", CampusesInOrder, None)

LocationRow(b) == Row("locations", b.named, Trim(b.key), b.refs)
PostLocation(w, b) == Trim(b.key) # 0 /\ Creates(w, LocationRow(b), <<"announce">>)
PutLocation(w, r, b) == Trim(b.key) # 0 /\ Finds(w, r, LocationRow(b), <<"announce">>)
SaveLocation(w) == Saves(w, "locations")
DeleteLocation(w, r) == Deletes(w, r, <<"announce">>)
LocationsInOrder == <<"id">>
ListLocations == Lists("locations", LocationsInOrder, None)

TypeRow(b) == Row("types", b.named, Lower(Trim(b.key)), b.refs)
PostType(w, b) == Trim(b.key) # 0 /\ Creates(w, TypeRow(b), <<>>)
PutType(w, r, b) == Trim(b.key) # 0 /\ Finds(w, r, TypeRow(b), <<>>)
SaveType(w) == Saves(w, "types")
DeleteType(w, r) == Deletes(w, r, <<>>)
TypesInOrder == <<"key", "id">>
ListTypes == Lists("types", TypesInOrder, None)

(* A location and a type are the primary key of a link.                    *)
LinkRow(b) == Row("links", None, 0, b.refs)
PostLink(w, b) == Creates(w, LinkRow(b), <<>>)
DeleteLink(w, r) == Deletes(w, r, <<>>)

PreferenceRow(b) == Row("preferences", b.named, Priority(b.key), b.refs)
PostPreference(w, b) == Creates(w, PreferenceRow(b), <<>>)
PutPreference(w, r, b) == Finds(w, r, PreferenceRow(b), <<>>)
SavePreference(w) == Saves(w, "preferences")
DeletePreference(w, r) == Deletes(w, r, <<>>)
PreferencesInOrder == <<"teacher", "key", "id">>
ListPreferences ==
  \E s \in Scopes("preferences", "teacher") : Lists("preferences", PreferencesInOrder, s)

RequestRow(b) == Row("requests", b.named, Priority(b.key), b.refs)
PostRequest(w, b) == Creates(w, RequestRow(b), <<>>)
PutRequest(w, r, b) == Finds(w, r, RequestRow(b), <<>>)
SaveRequest(w) == Saves(w, "requests")
DeleteRequest(w, r) == Deletes(w, r, <<>>)
RequestsUnordered == <<"key">>
RequestsInOrder == <<"key", "id">>
ListRequests == Lists("requests", RequestsInOrder, None)

(* A row per week, whose Monday it names, and location.                    *)
AvailabilityRow(b) == Row("availability", None, b.key - (b.key % 7), b.refs)
PutAvailability(w, batch) ==
  Upserts(w, "availability", [i \in DOMAIN batch |-> AvailabilityRow(batch[i])], {"key", "location"}, <<>>)
DeleteAvailability(w, r) == Deletes(w, r, <<>>)
AvailabilityInOrder == <<"latest", "location">>
ListAvailability ==
  \E s \in Scopes("availability", "location") : Lists("availability", AvailabilityInOrder, s)

(* The rooms of lessons, which RoomAutofill and LessonTx write.            *)
AssignmentsInOrder == <<"id">>
ListRoomAssignments ==
  \E s \in Scopes("assignments", "location") : Lists("assignments", AssignmentsInOrder, s)

RoomWrites(w) ==
  \/ \E b \in Bodies["campuses"] : PostCampus(w, b) \/ \E r \in RowsOf("campuses") : PutCampus(w, r, b)
  \/ \E b \in Bodies["locations"] : PostLocation(w, b) \/ \E r \in RowsOf("locations") : PutLocation(w, r, b)
  \/ \E b \in Bodies["types"] : PostType(w, b) \/ \E r \in RowsOf("types") : PutType(w, r, b)
  \/ \E b \in Bodies["links"] : PostLink(w, b)
  \/ \E b \in Bodies["preferences"] :
       PostPreference(w, b) \/ \E r \in RowsOf("preferences") : PutPreference(w, r, b)
  \/ \E b \in Bodies["requests"] : PostRequest(w, b) \/ \E r \in RowsOf("requests") : PutRequest(w, r, b)
  \/ \E batch \in Bodies["availability"] : PutAvailability(w, batch)
  \/ SaveCampus(w) \/ SaveLocation(w) \/ SaveType(w) \/ SavePreference(w) \/ SaveRequest(w)
  \/ \E r \in RowsOf("campuses") : DeleteCampus(w, r)
  \/ \E r \in RowsOf("locations") : DeleteLocation(w, r)
  \/ \E r \in RowsOf("types") : DeleteType(w, r)
  \/ \E r \in RowsOf("links") : DeleteLink(w, r)
  \/ \E r \in RowsOf("preferences") : DeletePreference(w, r)
  \/ \E r \in RowsOf("requests") : DeleteRequest(w, r)
  \/ \E r \in RowsOf("availability") : DeleteAvailability(w, r)

RoomLists ==
  \/ ListCampuses \/ ListLocations \/ ListTypes \/ ListPreferences \/ ListRequests
  \/ ListAvailability \/ ListRoomAssignments
=============================================================================
