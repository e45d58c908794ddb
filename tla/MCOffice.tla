------------------------------ MODULE MCOffice ------------------------------
(***************************************************************************)
(* The tables of the office on small instances: a behaviour is about some  *)
(* tables that depend on each other.                                       *)
(***************************************************************************)
EXTENDS ReferenceData

No == [c \in {} |-> None]
Body(k, refs) == [key |-> k, refs |-> refs, named |-> None]
Named(id, k, refs) == [key |-> k, refs |-> refs, named |-> id]

(* The name 1, the name 2 between blanks, or nothing.                      *)
Names == {Body(1, No), Body(12, No), Body(0, No)}

MCBodies ==
  [campuses |-> Names \cup {Named(1, 2, No)},
   locations |-> {Body(2, [campus |-> 1]), Body(12, [campus |-> None])},
   types |-> {Body(21, No), Body(12, No)},
   links |-> {Body(0, [location |-> 1, type |-> t]) : t \in 1..2},
   preferences |-> {Body(2 - l, [teacher |-> 1, location |-> l]) : l \in 1..2},
   requests |-> {Body(1, [group |-> 1, type |-> 1]), Body(-1, [group |-> 2, type |-> None])},
   availability |-> {<<Body(8, [location |-> 1])>>,
                     <<Body(9, [location |-> 1]), Body(0, [location |-> 2])>>,
                     <<Body(15, [location |-> 2]), Body(15, [location |-> 3])>>},
   activities |-> {Body(1, No), Body(12, No)},
   constraints |-> {Body(k, [teacher |-> t]) : k \in {3, 5}, t \in 1..2},
   replacements |-> {Body(k, [group |-> g]) : k \in {11, 12, 9}, g \in 1..2},
   days |-> {Body(1, No), Body(2, No)},
   events |-> {Body(1, [group |-> 1, location |-> 1]), Body(1, [group |-> 2, location |-> None])},
   overlays |-> {Body(1, [group |-> 1]), Body(1, [group |-> 2])},
   teachers |-> {Body(21, No), Body(12, No)},
   teaches |-> {Body(0, [teacher |-> t, subject |-> 1]) : t \in 1..2},
   subjects |-> {Body(1, No), Body(2, No)},
   specialties |-> {Body(1, No), Body(2, No)},
   curricula |-> {Body(1, [specialty |-> 1]), Body(2, [specialty |-> 2])},
   items |-> {Body(1, [curriculum |-> 1, parent |-> p]) : p \in {None, 1, 2}},
   allocations |-> {<<Body(1, [item |-> 1])>>, <<Body(2, [item |-> 1]), Body(1, [item |-> 2])>>}]

Campuses == {Row("campuses", 1, 1, No)}
Locations == {Row("locations", 1, 1, [campus |-> 1]), Row("locations", 2, 3, [campus |-> None])}
Rooms == {Row("locations", 1, 1, No), Row("locations", 2, 2, No)}
Types == {Row("types", i, i, No) : i \in 1..2}
Teachers == {Row("teachers", i, i, No) : i \in 1..2}
Subjects == {Row("subjects", 1, 1, No)}
Groups == {Row("groups", i, i, No) : i \in 1..2}
Weeks == {Row("weeks", i, 1, [group |-> i, activity |-> 1]) : i \in 1..2}

Calendars ==
  {Row("specialties", 1, 1, No), Row("curricula", 1, 1, [specialty |-> 1])} \cup
  {Row("calendars", i, 3 - i, [curriculum |-> 1]) : i \in 1..2} \cup
  {Row("calendarWeeks", i, 24 - i, [calendar |-> 1]) : i \in {1, 2, 13}} \cup
  {Row("overrides", i, 4 - i, [calendar |-> 1]) : i \in 1..2}

MCShelves ==
  {[tables |-> {"calendars", "calendarWeeks", "overrides"}, rows |-> Calendars],
   [tables |-> {"courses"}, rows |-> Groups \cup {Row("courses", i, 1, [group |-> 3 - i]) : i \in 1..2}],
   [tables |-> {"campuses", "locations"}, rows |-> Campuses \cup Locations],
   [tables |-> {"types", "links"}, rows |-> Types \cup {Row("locations", 1, 1, No)}],
   [tables |-> {"locations", "links"},
    rows |-> Types \cup {Row("locations", 1, 3, [campus |-> None]),
                         Row("links", 1, 0, [location |-> 1, type |-> 1])}],
   [tables |-> {"preferences", "locations"},
    rows |-> Teachers \cup Rooms \cup {Row("preferences", 1, 1, [teacher |-> 1, location |-> 1])}],
   [tables |-> {"types", "requests"}, rows |-> Types \cup Groups],
   [tables |-> {"availability", "assignments"},
    rows |-> Rooms \cup {Row("assignments", 1, 1, [location |-> 2])}],
   [tables |-> {"locations", "assignments"},
    rows |-> Rooms \cup {Row("assignments", 1, 1, [location |-> 2])}],
   [tables |-> {"activities", "weeks"},
    rows |-> {Row("activities", 1, 1, No)} \cup Groups \cup Weeks],
   [tables |-> {"constraints"}, rows |-> Teachers],
   [tables |-> {"replacements", "groups"}, rows |-> Groups],
   [tables |-> {"events", "groups"}, rows |-> Rooms \cup Groups],
   [tables |-> {"overlays", "groups"}, rows |-> Groups],
   [tables |-> {"days"}, rows |-> {Row("days", 1, 1, No)}],
   [tables |-> {"teachers", "teaches"}, rows |-> Teachers \cup Subjects],
   [tables |-> {"subjects"}, rows |-> Subjects],
   [tables |-> {"specialties", "curricula"},
    rows |-> {Row("specialties", 1, 1, No), Row("curricula", 1, 1, [specialty |-> 1])}],
   [tables |-> {"items", "allocations"},
    rows |-> {Row("specialties", 1, 1, No), Row("curricula", 1, 1, [specialty |-> 1]),
              Row("items", 1, 1, [curriculum |-> 1, parent |-> None]),
              Row("items", 2, 2, [curriculum |-> 1, parent |-> 1])}]}
=============================================================================
