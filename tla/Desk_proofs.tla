---------------------------- MODULE Desk_proofs -----------------------------
(***************************************************************************)
(* What the study office is told and what it gets, for any timetable, any  *)
(* order of requests and any files: the validation of a schedule, the      *)
(* publication of course assignments, the imports of a curriculum.         *)
(***************************************************************************)
EXTENDS ScheduleValidation, CourseAssignments, Imports, FiniteSetTheorems, SequenceTheorems, TLAPS

(* A set of numbers has a least one: among the intervals up to its members *)
(* none is inside all others for ever.                                     *)
LEMMA LeastNumber ==
  ASSUME NEW S \in SUBSET Nat, S # {}
  PROVE  \E m \in S : \A k \in S : m <= k
<1> DEFINE Below == {1..n : n \in S}
<1>1. \A n \in Nat : IsFiniteSet(1..n) /\ 1..n \in SUBSET Nat BY FS_Interval
<1>2. Below \subseteq FiniteSubsetsOf(Nat) BY <1>1 DEF FiniteSubsetsOf
<1>3. IsWellFoundedOn(StrictSubsetOrdering(Nat), FiniteSubsetsOf(Nat))
  BY FS_StrictSubsetOrderingWellFounded
<1>4. PICK B \in Below : \A C \in Below : <<C, B>> \notin StrictSubsetOrdering(Nat)
  <2>1. Below # {} OBVIOUS
  <2> QED BY <1>2, <1>3, <2>1, WFMin
<1>5. PICK m \in S : B = 1..m BY <1>4
<1>6. ASSUME NEW k \in S, ~(m <= k) PROVE FALSE
  <2>1. m \in Nat /\ k \in Nat /\ k < m BY <1>6
  <2>2. 1..k \subseteq 1..m /\ m \in 1..m /\ m \notin 1..k BY <2>1
  <2>3. 1..k \in Below OBVIOUS
  <2>4. 1..k \subseteq B /\ 1..k # B BY <1>5, <2>2
  <2>5. 1..k \in SUBSET Nat /\ B \in SUBSET Nat BY <1>1, <1>5, <2>1
  <2>6. <<1..k, B>> \in StrictSubsetOrdering(Nat) BY <2>4, <2>5 DEF StrictSubsetOrdering
  <2> QED BY <1>4, <2>3, <2>6
<1> QED BY <1>6

-----------------------------------------------------------------------------
(* The lessons that are shown.                                             *)

(* Where each step of a line can be taken, there is a line.                *)
Up(sources, g, up, n) ==
  IF n = 0 THEN g ELSE IF up[n - 1] = None THEN None ELSE sources[up[n - 1]]

LEMMA LineExists ==
  ASSUME NEW sources, NEW g, NEW N \in Nat
  PROVE  \E up : up = [n \in 0..N |-> Up(sources, g, up, n)]
<1> DEFINE Is(up, N_) == up = [n \in 0..N_ |-> Up(sources, g, up, n)]
           Bad == {m \in Nat : ~\E up : Is(up, m)}
<1> SUFFICES ASSUME N \in Bad PROVE FALSE OBVIOUS
<1>1. PICK m \in Bad : \A k \in Bad : m <= k BY LeastNumber
<1>2. CASE m = 0
  <2> DEFINE up == [n \in 0..0 |-> g]
  <2>1. Is(up, 0) BY DEF Up
  <2> QED BY <1>2, <2>1
<1>3. CASE m # 0
  <2>1. m - 1 \in Nat /\ m - 1 \notin Bad BY <1>1, <1>3
  <2>2. PICK f : Is(f, m - 1) BY <2>1
  <2> DEFINE up == [n \in 0..m |-> IF n < m THEN f[n] ELSE Up(sources, g, f, m)]
  <2>3. ASSUME NEW n \in 0..m PROVE up[n] = Up(sources, g, up, n)
    <3>1. CASE n = m
      <4>1. m - 1 \in 0..m /\ m - 1 < m BY <2>1
      <4>2. up[m - 1] = f[m - 1] BY <4>1
      <4>3. up[n] = Up(sources, g, f, m) BY <3>1
      <4> HIDE DEF up
      <4> QED BY <3>1, <4>2, <4>3 DEF Up
    <3>2. CASE n # m
      <4>1. n \in 0..(m - 1) /\ n < m BY <3>2, <1>3
      <4>2. f[n] = Up(sources, g, f, n) BY <2>2, <4>1
      <4>3. n # 0 => n - 1 \in 0..m /\ n - 1 < m BY <4>1
      <4>4. n # 0 => up[n - 1] = f[n - 1] BY <4>3
      <4>5. up[n] = f[n] BY <4>1
      <4> HIDE DEF up
      <4> QED BY <4>2, <4>4, <4>5 DEF Up
    <3> QED BY <3>1, <3>2
  <2>4. up = [n \in 0..m |-> up[n]] OBVIOUS
  <2>5. Is(up, m)
    <3> HIDE DEF up
    <3> QED BY <2>3, <2>4
  <2> QED BY <2>5
<1> QED BY <1>2, <1>3

LEMMA LineIs ==
  ASSUME NEW sources, NEW g
  PROVE  Line(sources, g) = [n \in 0..MaxChain |-> Up(sources, g, Line(sources, g), n)]
<1>1. \E up : up = [n \in 0..MaxChain |-> Up(sources, g, up, n)] BY LineExists, CalendarOK
<1> QED BY <1>1 DEF Line, Up

LEMMA LineBegins ==
  ASSUME NEW sources, NEW g PROVE Line(sources, g)[0] = g
<1> DEFINE up == Line(sources, g)
<1>1. up = [n \in 0..MaxChain |-> Up(sources, g, up, n)] BY LineIs
<1>2. 0 \in 0..MaxChain BY CalendarOK
<1> HIDE DEF up
<1>3. up[0] = Up(sources, g, up, 0) BY <1>1, <1>2
<1>4. up[0] = g BY <1>3 DEF Up
<1> QED BY <1>4 DEF up

(* Without a source, the line of a group is the group.                     *)
LEMMA LineAlone ==
  ASSUME NEW g \in Groups, NEW n \in 0..MaxChain,
         Line([h \in Groups |-> None], g)[n] # None
  PROVE  n = 0
<1> DEFINE none == [h \in Groups |-> None]
           up == Line(none, g)
           More == {k \in 1..MaxChain : up[k] # None}
<1> SUFFICES ASSUME n # 0 PROVE FALSE OBVIOUS
<1>1. up = [k \in 0..MaxChain |-> Up(none, g, up, k)] BY LineIs
<1>2. MaxChain \in Nat BY CalendarOK
<1>3. n \in More BY <1>2
<1>4. More \in SUBSET Nat BY <1>2
<1>5. PICK m \in More : \A k \in More : m <= k BY <1>3, <1>4, LeastNumber
<1>6. m \in 1..MaxChain /\ m - 1 \in 0..MaxChain /\ m \in 0..MaxChain BY <1>2, <1>5
<1>7. m = 1 \/ m - 1 \in 1..MaxChain BY <1>2, <1>6
<1>8. up[0] = g BY LineBegins
<1>9. none[g] = None OBVIOUS
<1> HIDE DEF up, none
<1>10. up[m] = Up(none, g, up, m) /\ up[m] # None BY <1>1, <1>5, <1>6
<1>11. CASE m = 1 BY <1>8, <1>9, <1>10, <1>11 DEF Up
<1>12. CASE m # 1
  <2>1. m - 1 \in 1..MaxChain /\ ~(m <= m - 1) BY <1>6, <1>7, <1>12
  <2>2. up[m - 1] = None BY <1>5, <2>1
  <2> QED BY <1>6, <1>10, <2>2 DEF Up
<1> QED BY <1>11, <1>12

LEMMA ShownIs ==
  ASSUME NEW table, NEW sources, NEW g, NEW d, NEW l
  PROVE  l \in Shown(table, sources, g, d) <=>
           \E n \in 0..MaxChain :
             /\ Line(sources, g)[n] # None
             /\ l \in Held(table, Line(sources, g)[n], d)
             /\ \A k \in 0..(n - 1) : \A o \in Held(table, Line(sources, g)[k], d) : SlotOf(o) # SlotOf(l)
BY DEF Shown

LEMMA ShownLive ==
  ASSUME NEW table, NEW sources, NEW g, NEW d, NEW l \in Shown(table, sources, g, d)
  PROVE  l \in table /\ l.day = d /\ l.status # "cancelled"
BY ShownIs DEF Held

(* A group is shown all lessons of its own.                                *)
LEMMA OwnShown ==
  ASSUME NEW table, NEW sources, NEW l \in table, l.status # "cancelled", None \notin Groups,
         l.group \in Groups
  PROVE  l \in Shown(table, sources, l.group, l.day)
<1>1. Line(sources, l.group)[0] = l.group BY LineBegins
<1>2. 0 \in 0..MaxChain /\ 0..(0 - 1) = {} BY CalendarOK
<1>3. l \in Held(table, l.group, l.day) BY DEF Held
<1> QED BY <1>1, <1>2, <1>3, ShownIs

(* No two lessons of a day that is shown have the same time.               *)
LEMMA ShownSlots ==
  ASSUME NEW table, LessonsSound(table), NEW sources, NEW g, NEW d,
         NEW a \in Shown(table, sources, g, d), NEW b \in Shown(table, sources, g, d),
         SlotOf(a) = SlotOf(b)
  PROVE  a = b
<1> DEFINE up == Line(sources, g)
<1>1. PICK n \in 0..MaxChain :
        /\ a \in Held(table, up[n], d)
        /\ \A k \in 0..(n - 1) : \A o \in Held(table, up[k], d) : SlotOf(o) # SlotOf(a)
  BY ShownIs
<1>2. PICK m \in 0..MaxChain :
        /\ b \in Held(table, up[m], d)
        /\ \A k \in 0..(m - 1) : \A o \in Held(table, up[k], d) : SlotOf(o) # SlotOf(b)
  BY ShownIs
<1> HIDE DEF up
<1>3. ~(n < m)
  <2> SUFFICES ASSUME n < m PROVE FALSE OBVIOUS
  <2>1. n \in 0..(m - 1) BY CalendarOK
  <2> QED BY <1>1, <1>2, <2>1
<1>4. ~(m < n)
  <2> SUFFICES ASSUME m < n PROVE FALSE OBVIOUS
  <2>1. m \in 0..(n - 1) BY CalendarOK
  <2> QED BY <1>1, <1>2, <2>1
<1>5. n = m BY <1>3, <1>4, CalendarOK
<1>6. a.group = b.group /\ a.day = b.day /\ a \in table /\ b \in table
      /\ a.status # "cancelled" /\ b.status # "cancelled"
  BY <1>1, <1>2, <1>5 DEF Held
<1>7. a.id = b.id BY <1>6 DEF LessonsSound, SlotFree
<1> QED BY <1>6, <1>7 DEF LessonsSound

(* At one pair the first lesson is the one with the least subgroup.        *)
LEMMA FirstIs ==
  ASSUME NEW ls \in SUBSET Lesson, ls # {}, \A a, b \in ls : a.pair = b.pair,
         \A a, b \in ls : SlotOf(a) = SlotOf(b) => a = b
  PROVE  First(ls) \in ls
<1> DEFINE subs == {l.sub : l \in ls}
<1>1. subs \in SUBSET Nat /\ subs # {} BY DEF Lesson, Subgroups
<1>2. PICK m \in subs : \A k \in subs : m <= k BY <1>1, LeastNumber
<1>3. PICK a \in ls : a.sub = m BY <1>2
<1>4. ASSUME NEW o \in ls \ {a} PROVE Earlier(a, o)
  <2>1. a.pair = o.pair /\ a.sub # o.sub BY <1>4 DEF SlotOf
  <2>2. a.sub <= o.sub /\ a.sub \in Nat /\ o.sub \in Nat BY <1>1, <1>2, <1>3
  <2> QED BY <2>1, <2>2 DEF Earlier
<1> QED BY <1>4 DEF First

-----------------------------------------------------------------------------
(* The tables.                                                             *)

LEMMA CancelSound ==
  ASSUME LessonsSound(lessons), NEW l \in lessons, CancelLesson(l)
  PROVE  LessonsSound(lessons')
<1> DEFINE n == [l EXCEPT !.status = "cancelled"]
<1>1. lessons \subseteq Lesson BY DEF LessonsSound
<1>2. lessons' = (lessons \ {l}) \cup {n} BY DEF CancelLesson, Edit
<1>3. n \in Lesson /\ n.id = l.id /\ n.status = "cancelled" BY <1>1 DEF Lesson, Statuses
<1> HIDE DEF n
<1>4. \A a, b \in lessons' : a.id = b.id => a = b BY <1>2, <1>3 DEF LessonsSound
<1>5. ASSUME NEW a \in lessons', a.status # "cancelled"
      PROVE  RoomFree(lessons', a) /\ SlotFree(lessons', a)
  <2>1. a \in lessons BY <1>2, <1>3, <1>5
  <2>2. RoomFree(lessons, a) /\ SlotFree(lessons, a) BY <1>5, <2>1 DEF LessonsSound
  <2>3. \A o \in lessons' : o.status # "cancelled" => o \in lessons BY <1>2, <1>3
  <2> QED BY <2>2, <2>3 DEF RoomFree, SlotFree
<1> QED BY <1>1, <1>2, <1>3, <1>4, <1>5 DEF LessonsSound

LEMMA PlaceSound ==
  ASSUME LessonsSound(lessons), NEW l \in lessons, NEW r \in Rooms \cup {l.room}, PlaceLesson(l, r)
  PROVE  LessonsSound(lessons')
<1> DEFINE n == [l EXCEPT !.status = "published", !.room = r]
<1>1. lessons \subseteq Lesson BY DEF LessonsSound
<1>2. /\ lessons' = (lessons \ {l}) \cup {n}
      /\ RoomFree(lessons, n) /\ SlotFree(lessons, n)
  BY DEF PlaceLesson, Edit
<1>3. n \in Lesson /\ n.id = l.id /\ n.status = "published" BY <1>1 DEF Lesson, Statuses
<1> HIDE DEF n
<1>4. \A a, b \in lessons' : a.id = b.id => a = b BY <1>2, <1>3 DEF LessonsSound
<1>5. RoomFree(lessons', n) /\ SlotFree(lessons', n) BY <1>2 DEF RoomFree, SlotFree
<1>6. ASSUME NEW a \in lessons \ {l}, a.status # "cancelled"
      PROVE  RoomFree(lessons', a) /\ SlotFree(lessons', a)
  <2>1. RoomFree(lessons, a) /\ SlotFree(lessons, a) BY <1>6 DEF LessonsSound
  <2>2. a.id # n.id BY <1>3, <1>6 DEF LessonsSound
  <2>3. RoomFree(lessons', a)
    <3>1. ~(/\ a.room # None /\ ~Meta[a.room].virtual
            /\ n.day = a.day /\ n.pair = a.pair /\ n.room = a.room
            /\ (n.flow = None \/ a.flow = None \/ n.flow # a.flow))
      BY <1>2, <1>6, <2>2 DEF RoomFree
    <3> QED BY <1>2, <2>1, <3>1 DEF RoomFree
  <2>4. SlotFree(lessons', a)
    <3>1. ~(n.group = a.group /\ n.day = a.day /\ SlotOf(n) = SlotOf(a))
      BY <1>2, <1>6, <2>2 DEF SlotFree
    <3> QED BY <1>2, <2>1, <3>1 DEF SlotFree
  <2> QED BY <2>3, <2>4
<1> QED BY <1>1, <1>2, <1>3, <1>4, <1>5, <1>6 DEF LessonsSound

LEMMA TablesKept == LessonsSound(lessons) /\ [ValidationNext]_validationVars => LessonsSound(lessons')
<1> SUFFICES ASSUME LessonsSound(lessons), [ValidationNext]_validationVars
             PROVE  LessonsSound(lessons')
  OBVIOUS
<1>1. CASE lessons' = lessons BY <1>1
<1>2. ASSUME NEW l \in lessons, CancelLesson(l) PROVE LessonsSound(lessons')
  BY <1>2, CancelSound
<1>3. ASSUME NEW l \in lessons, NEW r \in Rooms \cup {l.room}, PlaceLesson(l, r)
      PROVE  LessonsSound(lessons')
  BY <1>3, PlaceSound
<1> QED
  BY <1>1, <1>2, <1>3
  DEF ValidationNext, BuildOwn, ReadRooms, ReadFacilities, Conclude, validationVars

TablesOK == LessonsSound(lessons)

(* Whatever is overridden, the live lessons have their rooms and times to  *)
(* themselves: applyExistingLessonOverride checks the room, the unique     *)
(* index the time.                                                         *)
THEOREM TablesSound == ValidationSpec => []TablesOK
<1>1. ValidationInit => TablesOK BY ValidationConstants DEF ValidationInit, TablesOK
<1>2. TablesOK /\ [ValidationNext]_validationVars => TablesOK' BY TablesKept DEF TablesOK
<1> QED BY <1>1, <1>2, PTL DEF ValidationSpec

(* The lessons a group is shown, as the rules get them.                    *)
LEMMA DaysIs ==
  ASSUME NEW sources, NEW g \in Groups, NEW d \in Period
  PROVE  AllDays(sources)[g][d] = Shown(lessons, sources, g, d) /\ DOMAIN AllDays(sources)[g] = Period
BY DEF AllDays, BuildDays

LEMMA InLessons ==
  ASSUME NEW sources, NEW g \in Groups, NEW l
  PROVE  l \in Lessons(AllDays(sources)[g]) <=>
           \E d \in Period : l \in Shown(lessons, sources, g, d)
<1> DEFINE days == AllDays(sources)[g]
<1>1. DOMAIN days = Period /\ \A d \in Period : days[d] = Shown(lessons, sources, g, d)
  BY DaysIs DEF AllDays, BuildDays
<1> HIDE DEF days
<1>2. Lessons(days) = UNION {Shown(lessons, sources, g, d) : d \in Period} BY <1>1 DEF Lessons
<1> QED BY <1>2 DEF days

LEMMA MutualNow == TablesOK => ConflictsMutual
<1> SUFFICES ASSUME TablesOK,
                    NEW g \in Groups, NEW h \in Groups, NEW d \in Period,
                    NEW l \in AllDays(src)[g][d], NEW o \in AllDays(src)[h][d],
                    l.pair = o.pair, l.room = o.room, l.room # None,
                    RoomClash(AllDays(src), d, l.pair, l.room)
             PROVE  /\ \E w \in RoomConflicts(AllDays(src), h) : w.day = d /\ w.pair = o.pair
                    /\ [group |-> h, lesson |-> o] \in ViewOfRoom(lessons, src, l.room, {d})
  BY DEF ConflictsMutual
<1> DEFINE all == AllDays(src)
           ls == {x \in all[h][d] : x.pair = o.pair /\ x.room = o.room}
<1>1. o \in Shown(lessons, src, h, d) /\ all[h][d] = Shown(lessons, src, h, d) BY DaysIs
<1>2. \A x \in all[h][d] : x \in lessons /\ x.day = d BY <1>1, ShownLive
<1>3. First(ls) \in ls
  <2>1. ls \in SUBSET Lesson BY <1>2 DEF TablesOK, LessonsSound
  <2>2. ls # {} BY <1>1
  <2>3. \A a, b \in ls : a.pair = b.pair OBVIOUS
  <2>4. \A a, b \in ls : SlotOf(a) = SlotOf(b) => a = b BY <1>1, ShownSlots DEF TablesOK
  <2> HIDE DEF ls
  <2> QED BY <2>1, <2>2, <2>3, <2>4, FirstIs
<1>4. o \in Lessons(all[h]) /\ o.day = d BY <1>1, <1>2, InLessons
<1>5. \E w \in RoomConflicts(all, h) : w.day = d /\ w.pair = o.pair
  <2> DEFINE w == OfLesson("location_group_conflict", First(ls))
             S == {<<x.day, x.pair, x.room>> : x \in {x \in Lessons(all[h]) : x.room # None}}
             s == <<d, o.pair, o.room>>
  <2>1. s \in S BY <1>4
  <2>2. RoomClash(all, s[1], s[2], s[3]) OBVIOUS
  <2>3. w \in RoomConflicts(all, h)
    <3>1. ls = {x \in all[h][s[1]] : x.pair = s[2] /\ x.room = s[3]} OBVIOUS
    <3> HIDE DEF s, S
    <3>2. s \in {x \in S : RoomClash(all, x[1], x[2], x[3])} BY <2>1, <2>2
    <3> QED BY <3>1, <3>2 DEF RoomConflicts, S
  <2>4. First(ls).day = d /\ First(ls).pair = o.pair BY <1>2, <1>3
  <2>5. w.day = d /\ w.pair = o.pair BY <2>4 DEF OfLesson
  <2> QED BY <2>3, <2>5
<1>6. [group |-> h, lesson |-> o] \in ViewOfRoom(lessons, src, l.room, {d})
  <2> DEFINE v == [group |-> h, lesson |-> o]
  <2>1. v.lesson = o /\ o \in UNION {Shown(lessons, src, h, e) : e \in {d}} BY <1>1
  <2>2. v \in ViewOfGroup(lessons, src, h, {d}) BY <2>1 DEF ViewOfGroup
  <2>3. v \in ViewOfGroups(lessons, src, {d}) BY <2>2 DEF ViewOfGroups
  <2> QED BY <2>1, <2>3 DEF ViewOfRoom
<1> QED BY <1>5, <1>6

(* ConflictsMutual: every group of a clash is told of it, and the view of  *)
(* the room shows it.                                                      *)
THEOREM BothAreTold == ValidationSpec => []ConflictsMutual
BY TablesSound, MutualNow, PTL

-----------------------------------------------------------------------------
(* Where every group shows its own lessons, they have the room or the flow *)
(* to themselves.                                                          *)

LEMMA AloneOwn ==
  ASSUME NEW g \in Groups, NEW d, NEW l \in Shown(lessons, [h \in Groups |-> None], g, d)
  PROVE  l.group = g
<1> DEFINE up == Line([h \in Groups |-> None], g)
<1>1. PICK n \in 0..MaxChain : up[n] # None /\ l \in Held(lessons, up[n], d) BY ShownIs
<1>2. n = 0 BY <1>1, LineAlone
<1>3. up[0] = g BY LineBegins
<1> QED BY <1>1, <1>2, <1>3 DEF Held

LEMMA TwoMembers ==
  ASSUME NEW S, Cardinality(S) > 1
  PROVE  \E x, y \in S : x # y
<1> SUFFICES ASSUME \A x, y \in S : x = y PROVE FALSE OBVIOUS
<1>1. CASE S = {} BY <1>1, FS_EmptySet
<1>2. CASE S # {}
  <2>1. PICK x \in S : TRUE BY <1>2
  <2>2. S = {x} BY <2>1
  <2>3. Cardinality(S) = 1 BY <2>2, FS_Singleton
  <2> QED BY <2>3
<1> QED BY <1>1, <1>2

LEMMA SufficeNow == TablesOK => ChecksSuffice
<1> DEFINE none == [h \in Groups |-> None]
           all == AllDays(none)
<1> SUFFICES ASSUME TablesOK, NEW g \in Groups, NEW s, RoomClash(all, s[1], s[2], s[3]),
                    s[3] # None
             PROVE  FALSE
  <2> SUFFICES ASSUME TablesOK, NEW g \in Groups, RoomConflicts(all, g) # {} PROVE FALSE
    BY DEF ChecksSuffice
  <2> DEFINE S == {<<l.day, l.pair, l.room>> : l \in {l \in Lessons(all[g]) : l.room # None}}
  <2>1. PICK s \in S : RoomClash(all, s[1], s[2], s[3]) BY DEF RoomConflicts
  <2>2. s[3] # None OBVIOUS
  <2> QED BY <2>1, <2>2
<1> DEFINE E == Entries(all, s[1], s[2], s[3])
<1>1. /\ ~Meta[s[3]].virtual /\ ~SharedFlow(E)
      /\ Cardinality({e[1] : e \in E}) > 1
  BY DEF RoomClash
<1>2. ASSUME NEW e \in E
      PROVE  /\ e[2] \in lessons /\ e[2].status # "cancelled" /\ e[2].group = e[1]
             /\ e[2].day = s[1] /\ e[2].pair = s[2] /\ e[2].room = s[3]
  <2>1. e \in EntriesOf(all) /\ e[2].day = s[1] /\ e[2].pair = s[2] /\ e[2].room = s[3]
    BY DEF Entries
  <2>2. PICK h \in Groups : \E l \in Lessons(all[h]) : e = <<h, l>>
    BY <2>1 DEF EntriesOf, AllDays
  <2>3. PICK l \in Lessons(all[h]) : e = <<h, l>> BY <2>2
  <2>4. PICK d \in Period : l \in Shown(lessons, none, h, d) BY InLessons
  <2>5. l \in lessons /\ l.status # "cancelled" /\ l.group = h BY <2>4, ShownLive, AloneOwn
  <2> QED BY <2>1, <2>3, <2>5
<1> HIDE DEF E
<1>3. PICK a \in E, b \in E : a[1] # b[1] BY <1>1, TwoMembers
<1>4. ASSUME NEW e \in E, NEW f \in E, e[2] # f[2]
      PROVE  e[2].flow = f[2].flow /\ e[2].flow # None
  <2>1. e[2].id # f[2].id BY <1>2, <1>4 DEF TablesOK, LessonsSound
  <2>2. RoomFree(lessons, e[2]) BY <1>2 DEF TablesOK, LessonsSound
  <2> QED BY <1>1, <1>2, <2>1, <2>2 DEF RoomFree
<1>5. a[2] # b[2] BY <1>2, <1>3
<1>6. a[2].flow \in Flows BY <1>2, <1>4, <1>5 DEF TablesOK, LessonsSound, Lesson
<1>7. \A e \in E : e[2].flow = a[2].flow BY <1>4
<1> QED BY <1>1, <1>6, <1>7 DEF SharedFlow

(* ChecksSuffice: what validateLocationOccupancyRules would report,        *)
(* ensureRoomAvailableTx has refused, but for inherited lessons.           *)
THEOREM ChecksAreEnough == ValidationSpec => []ChecksSuffice
BY TablesSound, SufficeNow, PTL

-----------------------------------------------------------------------------
(* The workload.                                                           *)

LEMMA OnceNow == TablesOK => WorkloadOnce
<1> SUFFICES ASSUME TablesOK, NEW t \in Teachers
             PROVE  Workload(ViewOfTeacher(lessons, src, t, Period)).total =
                      Cardinality({<<l.day, l.pair, l.sub, l.subject, l.room>> :
                        l \in {l \in lessons : /\ l.teacher = t /\ l.status # "cancelled"
                                               /\ l.day \in Period}})
  BY DEF WorkloadOnce
<1> DEFINE V == ViewOfTeacher(lessons, src, t, Period)
           L == {l \in lessons : l.teacher = t /\ l.status # "cancelled" /\ l.day \in Period}
           key(l) == <<l.day, l.pair, l.sub, l.subject, l.room>>
<1>1. ASSUME NEW v \in V PROVE \E l \in L : SlotKey(v) = key(l)
  <2>1. PICK g \in Groups : v \in ViewOfGroup(lessons, src, g, Period) /\ v.lesson.teacher = t
    BY DEF ViewOfTeacher, ViewOfGroups
  <2>2. PICK d \in Period : v.lesson \in Shown(lessons, src, g, d) BY <2>1 DEF ViewOfGroup
  <2>3. v.lesson \in L BY <2>1, <2>2, ShownLive
  <2> QED BY <2>3 DEF SlotKey
<1>2. ASSUME NEW l \in L PROVE \E v \in V : SlotKey(v) = key(l)
  <2> DEFINE v == [group |-> l.group, lesson |-> l]
  <2>1. l.group \in Groups BY DEF TablesOK, LessonsSound, Lesson
  <2>2. l \in Shown(lessons, src, l.group, l.day) BY <2>1, OwnShown, ValidationConstants
  <2>3. v \in ViewOfGroup(lessons, src, l.group, Period) BY <2>2 DEF ViewOfGroup
  <2>4. v \in V BY <2>1, <2>3 DEF ViewOfTeacher, ViewOfGroups
  <2>5. SlotKey(v) = key(l) BY DEF SlotKey
  <2> QED BY <2>4, <2>5
<1> HIDE DEF V, L
<1>3. {SlotKey(v) : v \in V} = {key(l) : l \in L} BY <1>1, <1>2
<1>4. Workload(V).total = Cardinality({SlotKey(v) : v \in V}) BY DEF Workload
<1> QED BY <1>3, <1>4 DEF V, L

(* WorkloadOnce: the total of a teacher counts each lesson once, whoever   *)
(* inherits it.                                                            *)
THEOREM EachCountsOnce == ValidationSpec => []WorkloadOnce
BY TablesSound, OnceNow, PTL

-----------------------------------------------------------------------------
(* The answer.  What a pass has read is what the tables hold, as long as   *)
(* nothing is overridden, and a pass the validation skips has nothing to   *)
(* tell.                                                                   *)

Current(read) == \A h \in Groups : read[h] = None \/ read[h] = AllDays(src)[h]

PassesInv ==
  /\ rooms = [h \in Groups |-> rooms[h]] /\ facilities = [h \in Groups |-> facilities[h]]
  /\ vpc \in {"rooms", "facilities", "answer"} /\ ~touched =>
       LET days == AllDays(src)[vgroup]
       IN  /\ vgroup \in Groups
           /\ rooms[vgroup] = days /\ facilities[vgroup] = days
           /\ Current(rooms) /\ Current(facilities)
           /\ vpc # "rooms" /\ UsesRooms(days) => rooms = AllDays(src)
           /\ vpc = "answer" /\ HasPE(days) => facilities = AllDays(src)
  /\ UntouchedExact

(* The last group that was missing completes a pass.                       *)
LEMMA PassDone ==
  ASSUME NEW read, read = [h \in Groups |-> read[h]], Current(read), NEW h \in Groups,
         Missing(read) = {h}
  PROVE  [read EXCEPT ![h] = AllDays(src)[h]] = AllDays(src)
<1> DEFINE all == AllDays(src)
           new == [read EXCEPT ![h] = all[h]]
<1>1. all = [k \in Groups |-> all[k]] BY DEF AllDays
<1>2. new = [k \in Groups |-> new[k]] OBVIOUS
<1>3. ASSUME NEW k \in Groups PROVE new[k] = all[k]
  <2>1. k # h => read[k] = all[k] BY DEF Missing, Current
  <2>2. new[k] = IF k = h THEN all[h] ELSE read[k] OBVIOUS
  <2> QED BY <2>1, <2>2
<1> HIDE DEF all, new
<1>4. new = all BY <1>1, <1>2, <1>3
<1> QED BY <1>4 DEF all, new

LEMMA PassGoesOn ==
  ASSUME NEW read, read = [h \in Groups |-> read[h]], Current(read), NEW h \in Groups
  PROVE  LET new == [read EXCEPT ![h] = AllDays(src)[h]]
         IN  /\ new = [k \in Groups |-> new[k]]
             /\ \A k \in Groups : new[k] = None \/ new[k] = AllDays(src)[k]
             /\ \A k \in Groups : read[k] = AllDays(src)[k] => new[k] = AllDays(src)[k]
BY DEF Current

(* Without rooms or physical education a group is told nothing of them.    *)
LEMMA NothingToTell ==
  ASSUME NEW all, NEW g
  PROVE  /\ ~UsesRooms(all[g]) => RoomConflicts(all, g) = {}
         /\ ~HasPE(all[g]) => FacilityRules(all, g) = {}
<1>1. ASSUME ~UsesRooms(all[g]) PROVE RoomConflicts(all, g) = {}
  <2>1. {l \in Lessons(all[g]) : l.room # None} = {} BY <1>1 DEF UsesRooms
  <2> QED BY <2>1 DEF RoomConflicts
<1>2. ASSUME ~HasPE(all[g]) PROVE FacilityRules(all, g) = {}
  <2>1. {l \in Lessons(all[g]) : IsPE(l)} = {} BY <1>2 DEF HasPE
  <2> QED BY <2>1 DEF FacilityRules
<1> QED BY <1>1, <1>2

LEMMA BuildPass ==
  ASSUME PassesInv, NEW g \in Groups, BuildOwn(g)
  PROVE  PassesInv'
<1> DEFINE all == AllDays(src)
           days == BuildDays(lessons, src, g, Period)
<1>1. all' = all /\ all[g] = days BY DEF BuildOwn, AllDays
<1>2. /\ rooms' = [Unread EXCEPT ![g] = days] /\ facilities' = rooms'
      /\ vgroup' = g /\ vpc' = PassAfter("own", days)
  BY DEF BuildOwn
<1>3. /\ rooms' = [h \in Groups |-> rooms'[h]] /\ rooms'[g] = days
      /\ \A h \in Groups : rooms'[h] = None \/ rooms'[h] = all[h]
  BY <1>1, <1>2 DEF Unread
<1>4. /\ vpc' \in {"rooms", "facilities", "answer"}
      /\ vpc' # "rooms" => ~UsesRooms(days)
      /\ vpc' = "answer" => ~HasPE(days)
  BY <1>2 DEF PassAfter
<1> HIDE DEF days
<1> QED BY <1>1, <1>2, <1>3, <1>4 DEF PassesInv, Current, UntouchedExact

LEMMA RoomsPass ==
  ASSUME PassesInv, NEW h \in Groups, ReadRooms(h)
  PROVE  PassesInv'
<1> DEFINE all == AllDays(src)
           new == [rooms EXCEPT ![h] = all[h]]
<1>1. all' = all /\ all[h] = BuildDays(lessons, src, h, Period) BY DEF ReadRooms, AllDays
<1>2. /\ vpc = "rooms" /\ h \in Missing(rooms) /\ rooms' = new
      /\ vpc' = IF Missing(rooms) = {h} THEN PassAfter("rooms", rooms[vgroup]) ELSE vpc
      /\ UNCHANGED <<vgroup, facilities, touched, answer>>
  BY <1>1 DEF ReadRooms, IsNext
<1>3. rooms = [k \in Groups |-> rooms[k]] /\ facilities = [k \in Groups |-> facilities[k]]
  BY DEF PassesInv
<1> HIDE DEF all, new
<1>4. vpc' \in {"rooms", "facilities", "answer"} BY <1>2 DEF PassAfter
<1>5. UntouchedExact' BY <1>4 DEF UntouchedExact
<1>6. new = [k \in Groups |-> new[k]] BY <1>3 DEF new
<1>7. CASE touched BY <1>2, <1>3, <1>5, <1>6, <1>7 DEF PassesInv
<1>8. CASE ~touched
  <2>1. /\ vgroup \in Groups /\ rooms[vgroup] = all[vgroup] /\ facilities[vgroup] = all[vgroup]
        /\ Current(rooms) /\ Current(facilities)
    BY <1>2, <1>8 DEF PassesInv, all
  <2>2. /\ \A k \in Groups : new[k] = None \/ new[k] = all[k]
        /\ new[vgroup] = all[vgroup]
    BY <1>3, <2>1, PassGoesOn DEF all, new
  <2>3. CASE Missing(rooms) = {h}
    <3>1. new = all BY <1>3, <2>1, <2>3, PassDone DEF all, new
    <3>2. vpc' = PassAfter("rooms", all[vgroup]) BY <1>2, <2>1, <2>3
    <3>3. vpc' = "answer" => ~HasPE(all[vgroup]) BY <3>2 DEF PassAfter
    <3>4. Current(rooms)' /\ Current(facilities)'
      BY <1>1, <1>2, <2>1, <2>2 DEF Current, all
    <3> QED BY <1>1, <1>2, <1>3, <1>5, <1>6, <2>1, <2>2, <3>1, <3>3, <3>4 DEF PassesInv, all
  <2>4. CASE Missing(rooms) # {h}
    <3>1. vpc' = "rooms" BY <1>2, <2>4
    <3>2. Current(rooms)' /\ Current(facilities)'
      BY <1>1, <1>2, <2>1, <2>2 DEF Current, all
    <3> QED BY <1>1, <1>2, <1>3, <1>5, <1>6, <2>1, <2>2, <3>1, <3>2 DEF PassesInv, all
  <2> QED BY <2>3, <2>4
<1> QED BY <1>7, <1>8

LEMMA FacilitiesPass ==
  ASSUME PassesInv, NEW h \in Groups, ReadFacilities(h)
  PROVE  PassesInv'
<1> DEFINE all == AllDays(src)
           new == [facilities EXCEPT ![h] = all[h]]
<1>1. all' = all /\ all[h] = BuildDays(lessons, src, h, Period) BY DEF ReadFacilities, AllDays
<1>2. /\ vpc = "facilities" /\ h \in Missing(facilities) /\ facilities' = new
      /\ vpc' = IF Missing(facilities) = {h} THEN "answer" ELSE vpc
      /\ UNCHANGED <<vgroup, rooms, touched, answer>>
  BY <1>1 DEF ReadFacilities, IsNext
<1>3. rooms = [k \in Groups |-> rooms[k]] /\ facilities = [k \in Groups |-> facilities[k]]
  BY DEF PassesInv
<1> HIDE DEF all, new
<1>4. vpc' \in {"facilities", "answer"} BY <1>2
<1>5. UntouchedExact' BY <1>4 DEF UntouchedExact
<1>6. new = [k \in Groups |-> new[k]] BY <1>3 DEF new
<1>7. CASE touched BY <1>2, <1>3, <1>5, <1>6, <1>7 DEF PassesInv
<1>8. CASE ~touched
  <2>1. /\ vgroup \in Groups /\ rooms[vgroup] = all[vgroup] /\ facilities[vgroup] = all[vgroup]
        /\ Current(rooms) /\ Current(facilities)
        /\ UsesRooms(all[vgroup]) => rooms = all
    BY <1>2, <1>8 DEF PassesInv, all
  <2>2. /\ \A k \in Groups : new[k] = None \/ new[k] = all[k]
        /\ new[vgroup] = all[vgroup]
    BY <1>3, <2>1, PassGoesOn DEF all, new
  <2>3. Current(rooms)' /\ Current(facilities)'
    BY <1>1, <1>2, <2>1, <2>2 DEF Current, all
  <2>4. vpc' = "answer" => new = all
    <3>1. Missing(facilities) = {h} => new = all BY <1>3, <2>1, PassDone DEF all, new
    <3> QED BY <1>2, <3>1
  <2> QED BY <1>1, <1>2, <1>3, <1>4, <1>5, <1>6, <2>1, <2>2, <2>3, <2>4 DEF PassesInv, all
<1> QED BY <1>7, <1>8

LEMMA ConcludePass ==
  ASSUME PassesInv, Conclude
  PROVE  PassesInv'
<1> DEFINE all == AllDays(src)
           days == all[vgroup]
<1>1. /\ vpc = "answer" /\ vpc' = "done"
      /\ answer' = Warnings(rooms[vgroup], rooms, facilities, vgroup)
      /\ UNCHANGED <<lessons, src, vgroup, rooms, facilities, touched>>
  BY DEF Conclude
<1>2. UntouchedExact'
  <2> SUFFICES ASSUME ~touched PROVE answer' = WarningsNow(vgroup)
    BY <1>1 DEF UntouchedExact, WarningsNow, AllDays
  <2>1. /\ rooms[vgroup] = days
        /\ UsesRooms(days) => rooms = all
        /\ HasPE(days) => facilities = all
    BY <1>1 DEF PassesInv
  <2> HIDE DEF all
  <2>2. (IF UsesRooms(days) THEN RoomConflicts(rooms, vgroup) ELSE {}) = RoomConflicts(all, vgroup)
    BY <2>1, NothingToTell
  <2>3. (IF HasPE(days) THEN FacilityRules(facilities, vgroup) ELSE {}) = FacilityRules(all, vgroup)
    BY <2>1, NothingToTell
  <2> QED BY <1>1, <2>1, <2>2, <2>3 DEF Warnings, WarningsNow, all
<1> QED BY <1>1, <1>2 DEF PassesInv

(* UntouchedExact: the passes together are one look at the tables, if no   *)
(* override was committed meanwhile.                                       *)
THEOREM UntouchedIsExact == ValidationSpec => []UntouchedExact
<1>1. ValidationInit => PassesInv BY DEF ValidationInit, PassesInv, Unread, UntouchedExact
<1>2. PassesInv /\ [ValidationNext]_validationVars => PassesInv'
  <2> SUFFICES ASSUME PassesInv, [ValidationNext]_validationVars PROVE PassesInv' OBVIOUS
  <2>1. ASSUME NEW g \in Groups, BuildOwn(g) \/ ReadRooms(g) \/ ReadFacilities(g) PROVE PassesInv'
    BY <2>1, BuildPass, RoomsPass, FacilitiesPass
  <2>2. CASE Conclude BY <2>2, ConcludePass
  <2>3. ASSUME NEW l \in lessons, NEW n, Edit(l, n) PROVE PassesInv'
    BY <2>3 DEF Edit, PassesInv, UntouchedExact
  <2>4. CASE UNCHANGED validationVars
    <3>1. UNCHANGED <<lessons, src, vpc, vgroup, rooms, facilities, touched, answer>>
      BY <2>4 DEF validationVars
    <3>2. AllDays(src)' = AllDays(src) BY <3>1 DEF AllDays
    <3> QED BY <3>1, <3>2 DEF PassesInv, Current, UntouchedExact, WarningsNow
  <2> QED BY <2>1, <2>2, <2>3, <2>4 DEF ValidationNext, CancelLesson, PlaceLesson
<1>3. PassesInv => UntouchedExact BY DEF PassesInv
<1> QED BY <1>1, <1>2, <1>3, PTL DEF ValidationSpec

-----------------------------------------------------------------------------
(* Course assignments.  What a publication holds of a key that nobody else *)
(* changed is what its commit will make of the key.                        *)

Shaped(a) == a.key \in Keys /\ a.status \in Status

Steps == {"insert", "clear", "commit"}
Moves(req, k, table) ==
  LET draft == With(k, "draft", table) IN draft # {} /\ \A a \in draft : InScope(req, a)
OfKey(k, table) == {a \in table : a.key = k}

PublishKeeps(p) ==
  LET w == publish[p]
  IN  w.pc \in Steps =>
        /\ \A b \in w.added : b.status = "published" /\ Shaped(b)
        /\ w.pc = "insert" => w.added = {}
        /\ \A k \in Keys \ late[p] :
             /\ OfKey(k, w.gone) =
                  IF Moves(w.req, k, courses)
                  THEN With(k, "published", courses)
                         \cup (IF w.pc = "commit" THEN With(k, "draft", courses) ELSE {})
                  ELSE {}
             /\ w.pc # "insert" =>
                  {b.teacher : b \in OfKey(k, w.added)} =
                    IF Moves(w.req, k, courses) THEN Teaches(k, "draft", courses) ELSE {}

EditKeeps(e) ==
  /\ edit[e].pc \in {"create", "update"} => edit[e].req \in CourseRequests
  /\ edit[e].pc = "delete" => edit[e].row.status \in Status

CourseTypes ==
  /\ publish = [p \in Publishers |-> publish[p]]
  /\ late = [p \in Publishers |-> late[p]]
  /\ edit = [e \in Editors |-> edit[e]]

CourseInv ==
  /\ CourseTypes
  /\ \A a \in courses : Shaped(a)
  /\ \A p \in Publishers : PublishKeeps(p)
  /\ \A e \in Editors : EditKeeps(e)

LEMMA CourseStart == CourseInit => CourseInv
<1> SUFFICES ASSUME CourseInit PROVE CourseInv OBVIOUS
<1>1. CourseTypes BY DEF CourseInit, CourseTypes, PublishAt, EditAt
<1>2. ASSUME NEW a \in courses PROVE Shaped(a)
  <2>1. a \in CourseRow BY CourseConstants DEF CourseInit
  <2> QED BY <2>1 DEF CourseRow, Shaped
<1>3. ASSUME NEW p \in Publishers PROVE PublishKeeps(p)
  <2>1. publish[p].pc = "idle" BY DEF CourseInit, PublishAt
  <2> QED BY <2>1 DEF PublishKeeps, Steps
<1>4. ASSUME NEW e \in Editors PROVE EditKeeps(e)
  BY DEF CourseInit, EditAt, EditKeeps
<1> QED BY <1>1, <1>2, <1>3, <1>4 DEF CourseInv

(* What others commit, they note.                                          *)
LEMMA Undisturbed ==
  ASSUME NEW p \in Publishers, PublishKeeps(p), publish'[p] = publish[p], NEW K,
         publish[p].pc \in Steps => late[p] \cup K \subseteq late'[p],
         \A a \in courses \cup courses' : a.key \notin K => (a \in courses <=> a \in courses')
  PROVE  PublishKeeps(p)'
<1> SUFFICES ASSUME publish[p].pc \in Steps PROVE PublishKeeps(p)' BY DEF PublishKeeps
<1>1. ASSUME NEW k \in Keys \ late'[p], NEW s PROVE With(k, s, courses') = With(k, s, courses)
  BY DEF With
<1>2. ASSUME NEW k \in Keys \ late'[p], NEW req
      PROVE  /\ Moves(req, k, courses') <=> Moves(req, k, courses)
             /\ Teaches(k, "draft", courses') = Teaches(k, "draft", courses)
  BY <1>1 DEF Moves, Teaches, InScope
<1>3. \A k \in Keys \ late'[p] : k \in Keys \ late[p] OBVIOUS
<1> QED BY <1>1, <1>2, <1>3 DEF PublishKeeps

LEMMA Unmoved ==
  ASSUME NEW p \in Publishers, PublishKeeps(p), publish'[p] = publish[p], late'[p] = late[p],
         courses' = courses
  PROVE  PublishKeeps(p)'
<1>1. late[p] \cup {} \subseteq late'[p] OBVIOUS
<1>2. \A a \in courses \cup courses' : a.key \notin {} => (a \in courses <=> a \in courses') OBVIOUS
<1> QED BY <1>1, <1>2, Undisturbed

(* The scope of a request is a matter of the key.                          *)
LEMMA DraftsOfKey ==
  ASSUME NEW req, NEW k, NEW table
  PROVE  /\ OfKey(k, Drafts(req, table)) = IF Moves(req, k, table) THEN With(k, "draft", table) ELSE {}
         /\ k \in KeysOf(Drafts(req, table)) <=> Moves(req, k, table)
<1>1. ASSUME NEW a, NEW b, a.key = b.key PROVE InScope(req, a) <=> InScope(req, b)
  BY <1>1 DEF InScope
<1>2. OfKey(k, Drafts(req, table)) = {a \in With(k, "draft", table) : InScope(req, a)}
  BY DEF OfKey, Drafts, With
<1>3. Moves(req, k, table) <=> \E a \in With(k, "draft", table) : InScope(req, a)
  BY <1>1 DEF Moves, With
<1>4. k \in KeysOf(Drafts(req, table)) <=> OfKey(k, Drafts(req, table)) # {}
  BY DEF KeysOf, OfKey
<1>5. Moves(req, k, table) => \A a \in With(k, "draft", table) : InScope(req, a) BY DEF Moves
<1> QED BY <1>2, <1>3, <1>4, <1>5

(* A step of a publication leaves the others alone.                        *)
LEMMA OthersKeep ==
  ASSUME CourseInv, NEW p \in Publishers, NEW w,
         publish' = [publish EXCEPT ![p] = w],
         UNCHANGED <<courses, late, edit>>, PublishKeeps(p)'
  PROVE  CourseInv'
<1>1. CourseTypes' BY DEF CourseInv, CourseTypes
<1>2. ASSUME NEW q \in Publishers \ {p} PROVE PublishKeeps(q)'
  <2>1. publish'[q] = publish[q] BY DEF CourseInv, CourseTypes
  <2> QED BY <2>1, Unmoved DEF CourseInv
<1>3. \A e \in Editors : EditKeeps(e)' BY DEF CourseInv, EditKeeps
<1> QED BY <1>1, <1>2, <1>3 DEF CourseInv

LEMMA DeleteKeeps ==
  ASSUME CourseInv, NEW p \in Publishers, NEW req, DeletePublished(p, req)
  PROVE  CourseInv'
<1> DEFINE old == {a \in courses : a.status = "published" /\ a.key \in KeysOf(Drafts(req, courses))}
           w == [pc |-> "insert", req |-> req, gone |-> old, added |-> {}]
<1>1. publish' = [publish EXCEPT ![p] = w] /\ UNCHANGED <<courses, late, edit>>
  BY DEF DeletePublished
<1>2. publish'[p] = w BY <1>1 DEF CourseInv, CourseTypes
<1>3. ASSUME NEW k \in Keys
      PROVE  OfKey(k, old) = IF Moves(req, k, courses) THEN With(k, "published", courses) ELSE {}
  <2>1. k \in KeysOf(Drafts(req, courses)) <=> Moves(req, k, courses) BY DraftsOfKey
  <2> QED BY <2>1 DEF OfKey, With
<1> HIDE DEF old
<1>4. w.pc = "insert" /\ w.req = req /\ w.gone = old /\ w.added = {} OBVIOUS
<1>5. PublishKeeps(p)'
  <2> HIDE DEF w
  <2>1. \A k \in Keys : Moves(req, k, courses)' = Moves(req, k, courses)
                        /\ With(k, "published", courses)' = With(k, "published", courses)
    BY <1>1 DEF Moves, With, InScope
  <2> QED BY <1>1, <1>2, <1>3, <1>4, <2>1 DEF PublishKeeps
<1> QED BY <1>1, <1>5, OthersKeep

LEMMA InsertKeeps ==
  ASSUME CourseInv, NEW p \in Publishers, InsertPublished(p)
  PROVE  CourseInv'
<1> DEFINE req == publish[p].req
           gone == publish[p].gone
           drafts == Drafts(req, courses)
           new(a) == AsPublished(a, drafts)
           added == {new(a) : a \in drafts}
           w == [pc |-> "clear", req |-> req, gone |-> gone, added |-> added]
<1>1. /\ publish[p].pc = "insert"
      /\ Holds(p, "clear", gone, added)
      /\ UNCHANGED <<courses, late, edit>>
  BY DEF InsertPublished
<1>2. publish' = [publish EXCEPT ![p] = w] BY <1>1 DEF Holds
<1>3. ASSUME NEW a \in drafts
      PROVE  /\ new(a).status = "published" /\ new(a).key = a.key /\ new(a).teacher = a.teacher
             /\ Shaped(new(a))
  BY DEF CourseInv, Shaped, Drafts, AsPublished, Status
<1> HIDE DEF drafts, new
<1>4. \A b \in added : b.status = "published" /\ Shaped(b) BY <1>3
<1>5. ASSUME NEW k
      PROVE  {b.teacher : b \in OfKey(k, added)} = {a.teacher : a \in OfKey(k, drafts)}
  <2>1. ASSUME NEW b \in OfKey(k, added) PROVE \E a \in OfKey(k, drafts) : a.teacher = b.teacher
    <3>1. b \in added /\ b.key = k BY DEF OfKey
    <3>2. PICK a \in drafts : b = new(a) BY <3>1
    <3> QED BY <1>3, <3>1, <3>2 DEF OfKey
  <2>2. ASSUME NEW a \in OfKey(k, drafts) PROVE \E b \in OfKey(k, added) : b.teacher = a.teacher
    <3>1. a \in drafts /\ a.key = k BY DEF OfKey
    <3>2. new(a) \in added BY <3>1
    <3> QED BY <1>3, <3>1, <3>2 DEF OfKey
  <2> HIDE DEF added
  <2> QED BY <2>1, <2>2
<1> HIDE DEF added
<1>6. w.pc = "clear" /\ w.req = req /\ w.gone = gone /\ w.added = added
  OBVIOUS
<1>7. publish'[p] = w BY <1>2 DEF CourseInv, CourseTypes
<1>8. ASSUME NEW k \in Keys \ late[p]
      PROVE  /\ OfKey(k, gone) =
                  IF Moves(req, k, courses) THEN With(k, "published", courses) ELSE {}
             /\ {b.teacher : b \in OfKey(k, added)} =
                  IF Moves(req, k, courses) THEN Teaches(k, "draft", courses) ELSE {}
  <2>1. PublishKeeps(p) BY DEF CourseInv
  <2>2. OfKey(k, gone) =
          IF Moves(req, k, courses) THEN With(k, "published", courses) ELSE {}
    BY <1>1, <2>1 DEF PublishKeeps, Steps
  <2>3. OfKey(k, drafts) = IF Moves(req, k, courses) THEN With(k, "draft", courses) ELSE {}
    BY DraftsOfKey DEF drafts
  <2> QED BY <1>5, <2>2, <2>3 DEF Teaches
<1>9. PublishKeeps(p)'
  <2> HIDE DEF w
  <2>1. \A k \in Keys : Moves(req, k, courses') = Moves(req, k, courses)
                        /\ With(k, "published", courses') = With(k, "published", courses)
                        /\ Teaches(k, "draft", courses') = Teaches(k, "draft", courses)
    BY <1>1
  <2> QED BY <1>1, <1>4, <1>6, <1>7, <1>8, <2>1 DEF PublishKeeps
<1> QED BY <1>1, <1>2, <1>9, OthersKeep

LEMMA ClearKeeps ==
  ASSUME CourseInv, NEW p \in Publishers, ClearDrafts(p)
  PROVE  CourseInv'
<1> DEFINE req == publish[p].req
           gone == publish[p].gone
           added == publish[p].added
           drafts == Drafts(req, courses)
           w == [pc |-> "commit", req |-> req, gone |-> gone \cup drafts, added |-> added]
<1>1. /\ publish[p].pc = "clear"
      /\ Holds(p, "commit", gone \cup drafts, added)
      /\ UNCHANGED <<courses, late, edit>>
  BY DEF ClearDrafts
<1>2. publish' = [publish EXCEPT ![p] = w] BY <1>1 DEF Holds
<1> HIDE DEF drafts
<1>3. w.pc = "commit" /\ w.req = req /\ w.gone = gone \cup drafts /\ w.added = added
  OBVIOUS
<1>4. publish'[p] = w BY <1>2 DEF CourseInv, CourseTypes
<1>5. PublishKeeps(p) BY DEF CourseInv
<1>6. ASSUME NEW k \in Keys \ late[p]
      PROVE  /\ OfKey(k, w.gone) =
                  IF Moves(req, k, courses)
                  THEN With(k, "published", courses) \cup With(k, "draft", courses) ELSE {}
             /\ {b.teacher : b \in OfKey(k, added)} =
                  IF Moves(req, k, courses) THEN Teaches(k, "draft", courses) ELSE {}
  <2>1. /\ OfKey(k, gone) =
             IF Moves(req, k, courses) THEN With(k, "published", courses) ELSE {}
        /\ {b.teacher : b \in OfKey(k, added)} =
             IF Moves(req, k, courses) THEN Teaches(k, "draft", courses) ELSE {}
    BY <1>1, <1>5 DEF PublishKeeps, Steps
  <2>2. OfKey(k, drafts) = IF Moves(req, k, courses) THEN With(k, "draft", courses) ELSE {}
    BY DraftsOfKey DEF drafts
  <2>3. OfKey(k, w.gone) = OfKey(k, gone) \cup OfKey(k, drafts) BY <1>3 DEF OfKey
  <2> QED BY <2>1, <2>2, <2>3
<1>7. PublishKeeps(p)'
  <2> HIDE DEF w
  <2>1. \A k \in Keys : /\ Moves(req, k, courses') = Moves(req, k, courses)
                        /\ With(k, "draft", courses') = With(k, "draft", courses)
                        /\ With(k, "published", courses') = With(k, "published", courses)
                        /\ Teaches(k, "draft", courses') = Teaches(k, "draft", courses)
    BY <1>1
  <2>2. \A b \in added : b.status = "published" /\ Shaped(b)
    BY <1>1, <1>5 DEF PublishKeeps, Steps
  <2> QED BY <1>1, <1>3, <1>4, <1>6, <2>1, <2>2 DEF PublishKeeps
<1> QED BY <1>1, <1>2, <1>7, OthersKeep

(* A commit that changes rows of the keys K, by but or by an editor.       *)
LEMMA CommitKeeps ==
  ASSUME CourseInv, NEW but, NEW K, Noted(K, but),
         \A a \in courses \cup courses' : a.key \notin K => (a \in courses <=> a \in courses'),
         \A a \in courses' : Shaped(a),
         publish' = [p \in Publishers |-> publish'[p]],
         edit' = [e \in Editors |-> edit'[e]],
         \A e \in Editors : EditKeeps(e)',
         \A p \in Publishers \ {but} : publish'[p] = publish[p],
         but \in Publishers => publish'[but].pc \notin Steps
  PROVE  CourseInv'
<1>1. CourseTypes' BY DEF CourseTypes, Noted
<1>2. ASSUME NEW p \in Publishers \ {but} PROVE PublishKeeps(p)'
  <2>1. PublishKeeps(p) BY DEF CourseInv
  <2>2. publish[p].pc \in Steps => late[p] \cup K \subseteq late'[p] BY DEF Noted, Steps
  <2> QED BY <2>1, <2>2, Undisturbed
<1>3. but \in Publishers => PublishKeeps(but)' BY DEF PublishKeeps
<1> QED BY <1>1, <1>2, <1>3 DEF CourseInv

LEMMA CommitPublishKeeps ==
  ASSUME CourseInv, NEW p \in Publishers, CommitPublish(p)
  PROVE  CourseInv'
<1> DEFINE K == KeysOf(publish[p].gone \cup publish[p].added)
           w == PublishAt(IF publish[p].added = {} THEN "done" ELSE "announce")
<1>1. /\ publish[p].pc = "commit" /\ courses' = SeenBy(p) /\ Noted(K, p) /\ edit' = edit
      /\ publish' = [publish EXCEPT ![p] = w]
  BY DEF CommitPublish
<1>2. w.pc \notin Steps BY DEF PublishAt, Steps
<1>3. \A a \in courses \cup courses' : a.key \notin K => (a \in courses <=> a \in courses')
  BY <1>1 DEF SeenBy, KeysOf
<1>4. ASSUME NEW a \in courses' PROVE Shaped(a)
  <2>1. \A b \in publish[p].added : Shaped(b) BY <1>1 DEF CourseInv, PublishKeeps, Steps
  <2> QED BY <1>1, <2>1 DEF CourseInv, SeenBy
<1> HIDE DEF w, K
<1>5. /\ publish' = [q \in Publishers |-> publish'[q]] /\ publish'[p] = w
      /\ \A q \in Publishers \ {p} : publish'[q] = publish[q]
  BY <1>1 DEF CourseInv, CourseTypes
<1>6. edit' = [e \in Editors |-> edit'[e]] /\ \A e \in Editors : EditKeeps(e)'
  BY <1>1 DEF CourseInv, CourseTypes, EditKeeps
<1> QED BY <1>1, <1>2, <1>3, <1>4, <1>5, <1>6, CommitKeeps

(* A publication that ends without a commit, or was announced.             *)
LEMMA EndKeeps ==
  ASSUME CourseInv, NEW p \in Publishers,
         publish' = [publish EXCEPT ![p] = PublishAt("done")],
         late' = late \/ late' = [late EXCEPT ![p] = {}],
         UNCHANGED <<courses, edit>>
  PROVE  CourseInv'
<1>1. /\ publish' = [q \in Publishers |-> publish'[q]] /\ publish'[p] = PublishAt("done")
      /\ \A q \in Publishers \ {p} : publish'[q] = publish[q]
      /\ late' = [q \in Publishers |-> late'[q]]
      /\ \A q \in Publishers \ {p} : late'[q] = late[q]
      /\ edit' = [e \in Editors |-> edit'[e]]
  BY DEF CourseInv, CourseTypes
<1>2. ASSUME NEW q \in Publishers \ {p} PROVE PublishKeeps(q)'
  BY <1>1, Unmoved DEF CourseInv
<1>3. PublishKeeps(p)' BY <1>1 DEF PublishKeeps, PublishAt, Steps
<1> QED BY <1>1, <1>2, <1>3 DEF CourseInv, CourseTypes, EditKeeps

-----------------------------------------------------------------------------
(* The steps of editors.                                                   *)
LEMMA EditorKeeps ==
  ASSUME CourseInv, NEW e \in Editors, NEW w, edit' = [edit EXCEPT ![e] = w],
         UNCHANGED <<courses, publish, late>>,
         w.pc \in {"create", "update"} => w.req \in CourseRequests,
         w.pc = "delete" => w.row.status \in Status
  PROVE  CourseInv'
<1>1. /\ edit' = [f \in Editors |-> edit'[f]] /\ edit'[e] = w
      /\ \A f \in Editors \ {e} : edit'[f] = edit[f]
  BY DEF CourseInv, CourseTypes
<1>2. \A f \in Editors : EditKeeps(f)' BY <1>1 DEF CourseInv, EditKeeps
<1>3. ASSUME NEW q \in Publishers PROVE PublishKeeps(q)'
  BY Unmoved DEF CourseInv
<1> QED BY <1>1, <1>2, <1>3 DEF CourseInv, CourseTypes

LEMMA WriteKeeps ==
  ASSUME CourseInv, NEW e \in Editors, NEW table, NEW keys, NEW status,
         Write(e, table, keys, status),
         \A a \in courses \cup table : a.key \notin keys => (a \in courses <=> a \in table),
         \A a \in table : Shaped(a)
  PROVE  CourseInv'
<1> DEFINE w == EditAt(AfterWrite(status))
<1>1. /\ courses' = table /\ Noted(keys, None) /\ publish' = publish
      /\ edit' = [edit EXCEPT ![e] = w]
  BY DEF Write
<1>2. w.pc \notin {"create", "update", "delete"} BY DEF EditAt, AfterWrite
<1> HIDE DEF w
<1>3. /\ edit' = [f \in Editors |-> edit'[f]] /\ edit'[e] = w
      /\ \A f \in Editors \ {e} : edit'[f] = edit[f]
  BY <1>1 DEF CourseInv, CourseTypes
<1>4. \A f \in Editors : EditKeeps(f)' BY <1>2, <1>3 DEF CourseInv, EditKeeps
<1>5. /\ publish' = [p \in Publishers |-> publish'[p]]
      /\ \A p \in Publishers \ {None} : publish'[p] = publish[p]
  BY <1>1 DEF CourseInv, CourseTypes
<1>6. None \notin Publishers BY CourseConstants
<1> QED BY <1>1, <1>3, <1>4, <1>5, <1>6, CommitKeeps

LEMMA CreateKeeps ==
  ASSUME CourseInv, NEW e \in Editors, CreateCourse(e)
  PROVE  CourseInv'
<1> DEFINE a == RowAsked(e, nextCourse)
<1>1. Write(e, courses \cup {a}, {a.key}, a.status) BY DEF CreateCourse
<1>2. Shaped(a)
  <2>1. edit[e].req \in CourseRequests BY DEF CreateCourse, CourseInv, EditKeeps
  <2> QED BY <2>1 DEF CourseRequests, RowAsked, Shaped
<1> HIDE DEF a
<1>3. \A b \in courses \cup {a} : Shaped(b) BY <1>2 DEF CourseInv
<1> QED BY <1>1, <1>3, WriteKeeps

LEMMA SaveKeeps ==
  ASSUME CourseInv, NEW e \in Editors, SaveCourse(e)
  PROVE  CourseInv'
<1> DEFINE a == RowAsked(e, edit[e].row.id)
           old == {b \in courses : b.id = a.id}
<1>1. Write(e, (courses \ old) \cup {a}, KeysOf(old \cup {a}), a.status) BY DEF SaveCourse
<1>2. Shaped(a)
  <2>1. edit[e].req \in CourseRequests BY DEF SaveCourse, CourseInv, EditKeeps
  <2> QED BY <2>1 DEF CourseRequests, RowAsked, Shaped
<1> HIDE DEF a, old
<1>3. \A b \in (courses \ old) \cup {a} : Shaped(b) BY <1>2 DEF CourseInv
<1>4. \A b \in courses \cup (courses \ old) \cup {a} :
        b.key \notin KeysOf(old \cup {a}) => (b \in courses <=> b \in (courses \ old) \cup {a})
  BY DEF KeysOf
<1> QED BY <1>1, <1>3, <1>4, WriteKeeps

LEMMA RemoveKeeps ==
  ASSUME CourseInv, NEW e \in Editors, DeleteCourse(e)
  PROVE  CourseInv'
<1> DEFINE old == {b \in courses : b.id = edit[e].row.id}
<1>1. Write(e, courses \ old, KeysOf(old), edit[e].row.status) BY DEF DeleteCourse
<1> HIDE DEF old
<1>2. \A b \in courses \ old : Shaped(b) BY DEF CourseInv
<1>3. \A b \in courses \cup (courses \ old) :
        b.key \notin KeysOf(old) => (b \in courses <=> b \in courses \ old)
  BY DEF KeysOf
<1> QED BY <1>1, <1>2, <1>3, WriteKeeps

LEMMA DiscardKeeps ==
  ASSUME CourseInv, NEW req, DiscardDrafts(req)
  PROVE  CourseInv'
<1> DEFINE drafts == Drafts(req, courses)
<1>1. courses' = courses \ drafts /\ Noted(KeysOf(drafts), None) /\ UNCHANGED <<publish, edit>>
  BY DEF DiscardDrafts
<1> HIDE DEF drafts
<1>2. \A b \in courses' : Shaped(b) BY <1>1 DEF CourseInv
<1>3. \A b \in courses \cup courses' : b.key \notin KeysOf(drafts) => (b \in courses <=> b \in courses')
  BY <1>1 DEF KeysOf
<1>4. /\ publish' = [p \in Publishers |-> publish'[p]]
      /\ \A p \in Publishers \ {None} : publish'[p] = publish[p]
      /\ edit' = [f \in Editors |-> edit'[f]]
      /\ \A f \in Editors : EditKeeps(f)'
  BY <1>1 DEF CourseInv, CourseTypes, EditKeeps
<1>5. None \notin Publishers BY CourseConstants
<1> QED BY <1>1, <1>2, <1>3, <1>4, <1>5, CommitKeeps

(* The steps that leave the rows and their keepers alone.                  *)
LEMMA RestKeeps ==
  ASSUME CourseInv, UNCHANGED <<courses, publish, late, edit>>
  PROVE  CourseInv'
<1>1. ASSUME NEW q \in Publishers PROVE PublishKeeps(q)'
  BY Unmoved DEF CourseInv
<1> QED BY <1>1 DEF CourseInv, CourseTypes, EditKeeps

LEMMA CourseKeeps == CourseInv /\ [CourseNext]_courseVars => CourseInv'
<1> SUFFICES ASSUME CourseInv, [CourseNext]_courseVars PROVE CourseInv' OBVIOUS
<1>1. ASSUME NEW p \in Publishers, NEW req \in PublishRequests, DeletePublished(p, req)
      PROVE  CourseInv'
  BY <1>1, DeleteKeeps
<1>2. ASSUME NEW p \in Publishers, InsertPublished(p) \/ ClearDrafts(p) \/ CommitPublish(p)
      PROVE  CourseInv'
  BY <1>2, InsertKeeps, ClearKeeps, CommitPublishKeeps
<1>3. ASSUME NEW p \in Publishers, AbortPublish(p) PROVE CourseInv'
  <2>1. /\ publish' = [publish EXCEPT ![p] = PublishAt("done")] /\ late' = [late EXCEPT ![p] = {}]
        /\ UNCHANGED <<courses, edit>>
    BY <1>3 DEF AbortPublish
  <2> QED BY <2>1, EndKeeps
<1>4. ASSUME NEW e \in Editors, NEW op \in {"create", "update"}, NEW req \in CourseRequests,
             BeginEdit(e, op, req)
      PROVE  CourseInv'
  <2> DEFINE w == [pc |-> op, req |-> req, row |-> None]
  <2>1. edit' = [edit EXCEPT ![e] = w] /\ UNCHANGED <<courses, publish, late>>
    BY <1>4 DEF BeginEdit
  <2>2. w.pc = op /\ w.req = req OBVIOUS
  <2> HIDE DEF w
  <2> QED BY <2>1, <2>2, EditorKeeps
<1>5. ASSUME NEW e \in Editors, NEW a \in courses, ReadCourse(e, a) PROVE CourseInv'
  <2> DEFINE w == [pc |-> "update", req |-> edit[e].req, row |-> a]
  <2>1. edit' = [edit EXCEPT ![e] = w] /\ UNCHANGED <<courses, publish, late>>
    BY <1>5 DEF ReadCourse
  <2>2. w.pc = "update" /\ w.req = edit[e].req OBVIOUS
  <2>3. edit[e].req \in CourseRequests BY <1>5 DEF ReadCourse, CourseInv, EditKeeps
  <2> HIDE DEF w
  <2> QED BY <2>1, <2>2, <2>3, EditorKeeps
<1>6. ASSUME NEW e \in Editors, NEW a \in courses, ReadDeleted(e, a) PROVE CourseInv'
  <2> DEFINE w == [pc |-> "delete", req |-> None, row |-> a]
  <2>1. edit' = [edit EXCEPT ![e] = w] /\ UNCHANGED <<courses, publish, late>>
    BY <1>6 DEF ReadDeleted
  <2>2. w.pc = "delete" /\ w.row = a OBVIOUS
  <2>3. a.status \in Status BY DEF CourseInv, Shaped
  <2> HIDE DEF w
  <2> QED BY <2>1, <2>2, <2>3, EditorKeeps
<1>7. ASSUME NEW e \in Editors, CreateCourse(e) \/ SaveCourse(e) \/ DeleteCourse(e)
      PROVE  CourseInv'
  BY <1>7, CreateKeeps, SaveKeeps, RemoveKeeps
<1>8. ASSUME NEW e \in Editors, Answered(e), UNCHANGED <<courses, publish, late>> PROVE CourseInv'
  <2> DEFINE w == EditAt("idle")
  <2>1. edit' = [edit EXCEPT ![e] = w] BY <1>8 DEF Answered
  <2>2. w.pc = "idle" BY DEF EditAt
  <2> HIDE DEF w
  <2> QED BY <1>8, <2>1, <2>2, EditorKeeps
<1>9. ASSUME NEW e \in Editors, RefuseEdit(e) PROVE CourseInv'
  BY <1>8, <1>9 DEF RefuseEdit
<1>10. ASSUME NEW req, DiscardDrafts(req) PROVE CourseInv'
  BY <1>10, DiscardKeeps
<1>11. ASSUME NEW pairs, SetAllowed(pairs) PROVE CourseInv'
  BY <1>11, RestKeeps DEF SetAllowed
<1>12. CASE AnnounceCourses
  <2>1. UNCHANGED <<courses, late>> BY <1>12 DEF AnnounceCourses
  <2>2. ASSUME NEW e \in Editors, Answered(e), UNCHANGED publish PROVE CourseInv'
    BY <1>8, <2>1, <2>2
  <2>3. ASSUME NEW p \in Publishers, publish' = [publish EXCEPT ![p] = PublishAt("done")],
               UNCHANGED edit
        PROVE  CourseInv'
    BY <2>1, <2>3, EndKeeps
  <2> QED BY <1>12, <2>2, <2>3 DEF AnnounceCourses
<1>13. CASE UNCHANGED courseVars BY <1>13, RestKeeps DEF courseVars
<1> QED
  BY <1>1, <1>2, <1>3, <1>4, <1>5, <1>6, <1>7, <1>9, <1>10, <1>11, <1>12, <1>13 DEF CourseNext

(* A publication reads its rows as they are, and notes what others do.     *)
LEMMA CourseInvariant == CourseSpec => []CourseInv
BY CourseStart, CourseKeeps, PTL DEF CourseSpec

-----------------------------------------------------------------------------
(* What a commit makes of a key that nobody else changed meanwhile.        *)
LEMMA CommitMoves ==
  ASSUME CourseInv, NEW p \in Publishers, CommitPublish(p), NEW k \in Keys \ late[p]
  PROVE  IF Moves(publish[p].req, k, courses)
         THEN /\ Teaches(k, "published", courses)' = Teaches(k, "draft", courses)
              /\ With(k, "draft", courses)' = {}
              /\ publish[p].added # {}
         ELSE \A s \in Status : With(k, s, courses)' = With(k, s, courses)
<1> DEFINE gone == publish[p].gone
           added == publish[p].added
           moves == Moves(publish[p].req, k, courses)
<1>1. publish[p].pc = "commit" /\ courses' = (courses \ gone) \cup added
  BY DEF CommitPublish, SeenBy
<1>2. /\ OfKey(k, gone) =
           IF moves THEN With(k, "published", courses) \cup With(k, "draft", courses) ELSE {}
      /\ {b.teacher : b \in OfKey(k, added)} = IF moves THEN Teaches(k, "draft", courses) ELSE {}
      /\ \A b \in added : b.status = "published"
  BY <1>1 DEF CourseInv, PublishKeeps, Steps
<1>3. ASSUME NEW s
      PROVE  With(k, s, courses)' =
               (With(k, s, courses) \ OfKey(k, gone)) \cup {b \in OfKey(k, added) : b.status = s}
  BY <1>1 DEF With, OfKey
<1>4. CASE moves
  <2>1. /\ With(k, "draft", courses)' = {}
        /\ With(k, "published", courses)' = OfKey(k, added)
    BY <1>2, <1>3, <1>4 DEF OfKey
  <2>2. Teaches(k, "published", courses)' = {b.teacher : b \in OfKey(k, added)}
    BY <2>1 DEF Teaches
  <2>3. With(k, "draft", courses) # {} BY <1>4 DEF Moves
  <2>4. added # {} BY <1>2, <1>4, <2>3 DEF Teaches, OfKey
  <2> QED BY <1>2, <1>4, <2>1, <2>2, <2>4
<1>5. CASE ~moves
  <2>1. OfKey(k, added) = {} BY <1>2, <1>5
  <2> QED BY <1>2, <1>3, <1>5, <2>1
<1> QED BY <1>4, <1>5

(* Only a publication's commit ends it after its last statement with a     *)
(* change of the rows.                                                     *)
LEMMA OnlyCommitEnds ==
  ASSUME CourseInv, CourseNext, NEW p \in Publishers,
         publish[p].pc = "commit", publish'[p].pc \in {"announce", "done"}, courses' # courses
  PROVE  CommitPublish(p)
<1>1. ASSUME NEW q \in Publishers \ {p}, CommitPublish(q) PROVE FALSE
  <2>1. publish'[p] = publish[p] BY <1>1 DEF CommitPublish, CourseInv, CourseTypes
  <2> QED BY <2>1
<1>2. ASSUME NEW e \in Editors, CreateCourse(e) \/ SaveCourse(e) \/ DeleteCourse(e) PROVE FALSE
  <2>1. publish'[p] = publish[p] BY <1>2 DEF CreateCourse, SaveCourse, DeleteCourse, Write
  <2> QED BY <2>1
<1>3. ASSUME NEW req, DiscardDrafts(req) PROVE FALSE BY <1>3 DEF DiscardDrafts
<1>4. ASSUME NEW q \in Publishers,
             \/ \E req \in PublishRequests : DeletePublished(q, req)
             \/ InsertPublished(q) \/ ClearDrafts(q) \/ AbortPublish(q)
      PROVE  FALSE
  BY <1>4 DEF DeletePublished, InsertPublished, ClearDrafts, AbortPublish
<1>5. ASSUME NEW e \in Editors,
             \/ \E op \in {"create", "update"}, req \in CourseRequests : BeginEdit(e, op, req)
             \/ \E a \in courses : ReadCourse(e, a) \/ ReadDeleted(e, a)
             \/ RefuseEdit(e)
      PROVE  FALSE
  BY <1>5 DEF BeginEdit, ReadCourse, ReadDeleted, RefuseEdit
<1>6. ASSUME NEW pairs, SetAllowed(pairs) PROVE FALSE BY <1>6 DEF SetAllowed
<1>7. ~AnnounceCourses BY DEF AnnounceCourses
<1> QED BY <1>1, <1>2, <1>3, <1>4, <1>5, <1>6, <1>7 DEF CourseNext

(* A change of a published assignment and who made it.                     *)
Accounted(k) ==
  Teaches(k, "published", courses)' # Teaches(k, "published", courses) =>
    \/ \E p \in Publishers :
         publish[p].pc = "commit" /\ (publish'[p].pc = "announce" \/ k \in late[p])
    \/ \E e \in Editors :
         \/ edit'[e].pc = "announce"
         \/ edit[e].pc = "update" /\ edit[e].req.status = "draft"
         \/ edit[e].pc = "delete" /\ edit[e].row.status = "draft"

LEMMA CommitAccounted ==
  ASSUME CourseInv, NEW p \in Publishers, CommitPublish(p), NEW k \in Keys
  PROVE  Accounted(k)
<1>1. publish[p].pc = "commit" BY DEF CommitPublish
<1>2. CASE k \in late[p] BY <1>1, <1>2 DEF Accounted
<1>3. CASE publish[p].added # {}
  <2>1. publish'[p] = PublishAt("announce") BY <1>3 DEF CommitPublish, CourseInv, CourseTypes
  <2> QED BY <1>1, <2>1 DEF Accounted, PublishAt
<1>4. CASE k \notin late[p] /\ publish[p].added = {}
  <2>1. \A s \in Status : With(k, s, courses)' = With(k, s, courses) BY <1>4, CommitMoves
  <2> QED BY <2>1 DEF Accounted, Teaches, Status
<1> QED BY <1>2, <1>3, <1>4

(* An editor whose write left a published row announces it.                *)
LEMMA WriteAccounted ==
  ASSUME CourseInv, NEW e \in Editors, NEW table, NEW keys, NEW status, NEW k,
         Write(e, table, keys, status), status = "published"
  PROVE  Accounted(k)
<1>1. edit'[e] = EditAt("announce") BY DEF Write, AfterWrite, CourseInv, CourseTypes
<1> QED BY <1>1 DEF EditAt, Accounted

LEMMA EditorAccounted ==
  ASSUME CourseInv, NEW e \in Editors, CreateCourse(e) \/ SaveCourse(e) \/ DeleteCourse(e), NEW k
  PROVE  Accounted(k)
<1>1. CASE CreateCourse(e)
  <2> DEFINE a == RowAsked(e, nextCourse)
  <2>1. Write(e, courses \cup {a}, {a.key}, a.status) BY <1>1 DEF CreateCourse
  <2>2. a.status \in Status
    <3>1. edit[e].req \in CourseRequests BY <1>1 DEF CreateCourse, CourseInv, EditKeeps
    <3> QED BY <3>1 DEF CourseRequests, RowAsked
  <2> HIDE DEF a
  <2>3. CASE a.status = "draft"
    <3>1. courses' = courses \cup {a} BY <2>1 DEF Write
    <3>2. With(k, "published", courses)' = With(k, "published", courses) BY <2>3, <3>1 DEF With
    <3> QED BY <3>2 DEF Accounted, Teaches
  <2> QED BY <2>1, <2>2, <2>3, WriteAccounted DEF Status
<1>2. CASE SaveCourse(e)
  <2> DEFINE a == RowAsked(e, edit[e].row.id)
             old == {b \in courses : b.id = a.id}
  <2>1. Write(e, (courses \ old) \cup {a}, KeysOf(old \cup {a}), a.status)
        /\ edit[e].pc = "update"
    BY <1>2 DEF SaveCourse
  <2>2. a.status \in Status /\ a.status = edit[e].req.status
    <3>1. edit[e].req \in CourseRequests BY <2>1 DEF CourseInv, EditKeeps
    <3> QED BY <3>1 DEF CourseRequests, RowAsked
  <2> HIDE DEF a, old
  <2>3. CASE a.status = "draft" BY <2>1, <2>2, <2>3 DEF Accounted
  <2> QED BY <2>1, <2>2, <2>3, WriteAccounted DEF Status
<1>3. CASE DeleteCourse(e)
  <2> DEFINE old == {b \in courses : b.id = edit[e].row.id}
  <2>1. Write(e, courses \ old, KeysOf(old), edit[e].row.status) /\ edit[e].pc = "delete"
    BY <1>3 DEF DeleteCourse
  <2>2. edit[e].row.status \in Status BY <2>1 DEF CourseInv, EditKeeps
  <2> HIDE DEF old
  <2>3. CASE edit[e].row.status = "draft" BY <2>1, <2>3 DEF Accounted
  <2> QED BY <2>1, <2>2, <2>3, WriteAccounted DEF Status
<1> QED BY <1>1, <1>2, <1>3

LEMMA AllAccounted ==
  ASSUME CourseInv, CourseNext, NEW k \in Keys
  PROVE  Accounted(k)
<1>1. CASE courses' = courses BY <1>1 DEF Accounted, Teaches, With
<1>2. ASSUME NEW req, DiscardDrafts(req) PROVE Accounted(k)
  <2>1. courses' = courses \ Drafts(req, courses) BY <1>2 DEF DiscardDrafts
  <2>2. With(k, "published", courses)' = With(k, "published", courses)
    BY <2>1 DEF With, Drafts
  <2> QED BY <2>2 DEF Accounted, Teaches
<1>3. ASSUME NEW q \in Publishers,
             \/ \E req \in PublishRequests : DeletePublished(q, req)
             \/ InsertPublished(q) \/ ClearDrafts(q) \/ AbortPublish(q)
      PROVE  courses' = courses
  BY <1>3 DEF DeletePublished, InsertPublished, ClearDrafts, AbortPublish
<1>4. ASSUME NEW e \in Editors,
             \/ \E op \in {"create", "update"}, req \in CourseRequests : BeginEdit(e, op, req)
             \/ \E a \in courses : ReadCourse(e, a) \/ ReadDeleted(e, a)
             \/ RefuseEdit(e)
      PROVE  courses' = courses
  BY <1>4 DEF BeginEdit, ReadCourse, ReadDeleted, RefuseEdit
<1>5. ASSUME NEW pairs, SetAllowed(pairs) PROVE courses' = courses BY <1>5 DEF SetAllowed
<1>6. AnnounceCourses => courses' = courses BY DEF AnnounceCourses
<1> QED
  BY <1>1, <1>2, <1>3, <1>4, <1>5, <1>6, CommitAccounted, EditorAccounted DEF CourseNext

(* Publishing is a move, for every key that nobody else changed between    *)
(* its statements (CourseAssignments: PublishDraftCourseAssignments).      *)
THEOREM PublishingMoves == CourseSpec => PublishMoves
<1>1. CourseInv /\ [CourseNext]_courseVars =>
        [\A p \in Publishers :
           publish[p].pc = "commit" /\ publish'[p].pc \in {"announce", "done"} /\ courses' # courses =>
             \A k \in Keys \ late[p] :
               LET draft == With(k, "draft", courses)
               IN  IF draft # {} /\ \A a \in draft : InScope(publish[p].req, a)
                   THEN /\ Teaches(k, "published", courses)' = Teaches(k, "draft", courses)
                        /\ With(k, "draft", courses)' = {}
                   ELSE \A s \in Status : With(k, s, courses)' = With(k, s, courses)]_courseVars
  <2> SUFFICES ASSUME CourseInv, CourseNext, NEW p \in Publishers, publish[p].pc = "commit",
                      publish'[p].pc \in {"announce", "done"}, courses' # courses,
                      NEW k \in Keys \ late[p]
               PROVE  IF Moves(publish[p].req, k, courses)
                      THEN /\ Teaches(k, "published", courses)' = Teaches(k, "draft", courses)
                           /\ With(k, "draft", courses)' = {}
                      ELSE \A s \in Status : With(k, s, courses)' = With(k, s, courses)
    BY DEF Moves
  <2>1. CommitPublish(p) BY OnlyCommitEnds
  <2> QED BY <2>1, CommitMoves
<1> QED BY <1>1, CourseInvariant, PTL DEF CourseSpec, PublishMoves

(* A change of what is published is announced by who made it, with the     *)
(* three exceptions the property names (CourseAssignments: the handlers of *)
(* handlers_teachers.go and their bumpScheduleVersionAndGet).              *)
THEOREM ChangesAreAnnounced == CourseSpec => ChangesAnnounced
<1>1. CourseInv /\ [CourseNext]_courseVars =>
        [\A k \in Keys :
           Teaches(k, "published", courses)' # Teaches(k, "published", courses) =>
             \/ \E p \in Publishers :
                  publish[p].pc = "commit" /\ (publish'[p].pc = "announce" \/ k \in late[p])
             \/ \E e \in Editors :
                  \/ edit'[e].pc = "announce"
                  \/ edit[e].pc = "update" /\ edit[e].req.status = "draft"
                  \/ edit[e].pc = "delete" /\ edit[e].row.status = "draft"]_courseVars
  BY AllAccounted DEF Accounted
<1> QED BY <1>1, CourseInvariant, PTL DEF CourseSpec, ChangesAnnounced

-----------------------------------------------------------------------------
(* The imports.  A set of numbers that is finite has a greatest one.       *)

LEMMA MaxIs ==
  ASSUME NEW S \in SUBSET Int, NEW m \in S, \A k \in S : k <= m
  PROVE  Max(S) = m
<1>1. \A x \in S : (\A y \in S : x >= y) => x = m
  <2> SUFFICES ASSUME NEW x \in S, \A y \in S : x >= y PROVE x = m OBVIOUS
  <2>1. x >= m /\ x <= m /\ x \in Int /\ m \in Int OBVIOUS
  <2> QED BY <2>1
<1>2. \A y \in S : m >= y OBVIOUS
<1> QED BY <1>1, <1>2 DEF Max

LEMMA MaxExists ==
  ASSUME NEW S \in SUBSET Nat, IsFiniteSet(S), S # {}
  PROVE  Max(S) \in S /\ \A k \in S : k <= Max(S)
<1> DEFINE Endless(T) == T # {} /\ \A m \in T : \E k \in T : ~(k <= m)
           Sizes == {Cardinality(T) : T \in {T \in SUBSET S : Endless(T)}}
<1>1. \A T \in SUBSET S : IsFiniteSet(T) /\ Cardinality(T) \in Nat BY FS_Subset, FS_CardinalityType
<1>2. Sizes = {}
  <2> SUFFICES ASSUME Sizes # {} PROVE FALSE OBVIOUS
  <2>1. Sizes \in SUBSET Nat BY <1>1
  <2>2. PICK n \in Sizes : \A k \in Sizes : n <= k
    <3> HIDE DEF Sizes
    <3> QED BY <2>1, LeastNumber
  <2>3. PICK T \in SUBSET S : Endless(T) /\ n = Cardinality(T) BY <2>2
  <2>4. PICK x \in T : TRUE BY <2>3
  <2> DEFINE R == T \ {x}
  <2>5. IsFiniteSet(T) /\ Cardinality(R) = n - 1 /\ n \in Nat
    <3>1. IsFiniteSet(T) /\ n \in Nat BY <1>1, <2>3
    <3> QED BY <2>3, <2>4, <3>1, FS_RemoveElement
  <2>6. ~Endless(R)
    <3>1. R \in SUBSET S OBVIOUS
    <3> HIDE DEF Endless, R
    <3>2. Endless(R) => Cardinality(R) \in Sizes BY <3>1
    <3>3. n \in Nat /\ ~(n <= n - 1) BY <2>5
    <3> QED BY <2>2, <2>5, <3>2, <3>3
  <2>7. CASE R = {}
    <3>1. T = {x} BY <2>4, <2>7
    <3>2. x \in Nat /\ x <= x BY <2>3, <2>4
    <3> QED BY <2>3, <3>1, <3>2
  <2>8. CASE R # {}
    <3>1. PICK m \in R : \A k \in R : k <= m BY <2>6, <2>8
    <3>2. \A k \in T : k \in Nat BY <2>3
    <3>3. CASE x <= m
      <4>1. \A k \in T : k <= m BY <3>1, <3>3
      <4> QED BY <2>3, <3>1, <4>1
    <3>4. CASE ~(x <= m)
      <4>1. \A k \in T : k <= x BY <2>4, <3>1, <3>2, <3>4
      <4> QED BY <2>3, <2>4, <4>1
    <3> QED BY <3>3, <3>4
  <2> QED BY <2>7, <2>8
<1>3. ~Endless(S)
  <2> HIDE DEF Endless
  <2> QED BY <1>2
<1>4. PICK m \in S : \A k \in S : k <= m BY <1>3
<1>5. S \in SUBSET Int OBVIOUS
<1>6. Max(S) = m BY <1>4, <1>5, MaxIs
<1> QED BY <1>4, <1>6

-----------------------------------------------------------------------------
(* Items and hours, wherever they are kept: an id is one name for ever, an *)
(* id is one row of a table or of what an upload has written, and hours    *)
(* belong to an item of theirs.                                            *)
HeldBy(u) == u.items \cup (IF u.pc \in {"save", "hours"} THEN {u.found} ELSE {})
Known == itemRows \cup UNION {HeldBy(upload[q]) : q \in Importers}
UploadFields == {"pc", "plan", "rows", "at", "found", "items", "hours", "gone", "ids", "calendar"}
OneEach(table) == \A a, b \in table : a.id = b.id => a = b

RowsInv ==
  /\ nextItem \in Nat
  /\ DOMAIN upload = Importers /\ DOMAIN others = Importers
  /\ \A q \in Importers : DOMAIN upload[q] = UploadFields
  /\ \A r \in Known : IsItem(r) /\ r.id < nextItem
  /\ \A a, b \in Known : a.id = b.id => a.name = b.name
  /\ OneEach(itemRows) /\ \A q \in Importers : OneEach(upload[q].items)
  /\ \A h \in hourRows : h.item \in Ids(itemRows)
  /\ \A q \in Importers : \A h \in upload[q].hours : h.item \in Ids(upload[q].items)
  /\ \A q \in Importers : \A i \in upload[q].gone : i \in Nat /\ i < nextItem

LEMMA RowsStart == ImportInit => RowsInv
<1> SUFFICES ASSUME ImportInit PROVE RowsInv OBVIOUS
<1>1. PICK plan \in PlanChoices : itemRows = plan.items /\ hourRows = plan.hours BY DEF ImportInit
<1>2. /\ IsFiniteSet(itemRows) /\ OneEach(itemRows)
      /\ \A r \in itemRows : IsItem(r)
      /\ \A h \in hourRows : h.item \in Ids(itemRows)
  BY <1>1, ImportConstants DEF Ids, OneEach
<1>3. upload = [p \in Importers |-> NoUpload] /\ others = [p \in Importers |-> {}] BY DEF ImportInit
<1>4. \A q \in Importers : DOMAIN upload[q] = UploadFields BY <1>3 DEF NoUpload, UploadFields
<1>5. \A q \in Importers : HeldBy(upload[q]) = {} /\ upload[q].items = {} /\ upload[q].hours = {}
                            /\ upload[q].gone = {}
  BY <1>3 DEF HeldBy, NoUpload
<1>6. Known = itemRows BY <1>5 DEF Known
<1> DEFINE S == {0} \cup {r.id : r \in itemRows}
<1>7. Max(S) \in Nat /\ \A k \in S : k <= Max(S)
  <2>1. S \in SUBSET Nat /\ S # {} BY <1>2 DEF IsItem
  <2>2. IsFiniteSet({r.id : r \in itemRows})
    <3> DEFINE id == [r \in itemRows |-> r.id]
    <3>1. id \in Surjection(itemRows, {r.id : r \in itemRows}) BY DEF Surjection
    <3> QED BY <1>2, <3>1, FS_Surjection
  <2>3. IsFiniteSet(S) BY <2>2, FS_Singleton, FS_Union
  <2> HIDE DEF S
  <2> QED BY <2>1, <2>3, MaxExists
<1>8. nextItem = 1 + Max(S) BY DEF ImportInit
<1>9. \A r \in itemRows : r.id \in S /\ r.id \in Nat BY <1>2 DEF IsItem
<1> HIDE DEF S
<1>10. nextItem \in Nat /\ \A r \in itemRows : r.id < nextItem BY <1>7, <1>8, <1>9
<1>11. \A a, b \in Known : a.id = b.id => a.name = b.name BY <1>2, <1>6 DEF OneEach
<1> QED BY <1>2, <1>3, <1>4, <1>5, <1>6, <1>10, <1>11 DEF RowsInv, OneEach

(* An upload goes on: what it holds now was known, or is new.              *)
LEMMA HeldGoesOn ==
  ASSUME RowsInv, NEW p \in Importers, NEW u, DOMAIN u = UploadFields,
         upload' = [upload EXCEPT ![p] = u], UNCHANGED <<itemRows, hourRows>>, DOMAIN others' = Importers,
         nextItem' \in Nat, nextItem <= nextItem',
         \A r \in HeldBy(u) : IsItem(r) /\ r.id < nextItem' /\ \A k \in Known : k.id = r.id => k.name = r.name,
         \A a, b \in HeldBy(u) : a.id = b.id => a.name = b.name,
         OneEach(u.items), \A h \in u.hours : h.item \in Ids(u.items),
         \A i \in u.gone : i \in Nat /\ i < nextItem'
  PROVE  RowsInv'
<1>1. upload'[p] = u /\ DOMAIN upload' = Importers /\ \A q \in Importers \ {p} : upload'[q] = upload[q]
  BY DEF RowsInv
<1>2. \A r \in Known' : r \in Known \/ r \in HeldBy(u)
  <2>1. \A q \in Importers : HeldBy(upload[q])' = HeldBy(upload'[q]) BY DEF HeldBy
  <2>2. \A q \in Importers \ {p} : HeldBy(upload[q])' = HeldBy(upload[q]) BY <1>1, <2>1
  <2>3. HeldBy(upload[p])' = HeldBy(u) BY <1>1, <2>1
  <2> QED BY <2>2, <2>3 DEF Known
<1>3. \A r \in Known' : IsItem(r) /\ r.id < nextItem'
  BY <1>2 DEF RowsInv, IsItem
<1>4. \A a, b \in Known' : a.id = b.id => a.name = b.name
  BY <1>2 DEF RowsInv
<1>5. \A q \in Importers :
        /\ DOMAIN upload'[q] = UploadFields /\ OneEach(upload'[q].items)
        /\ \A h \in upload'[q].hours : h.item \in Ids(upload'[q].items)
        /\ \A i \in upload'[q].gone : i \in Nat /\ i < nextItem'
  BY <1>1 DEF RowsInv
<1>6. OneEach(itemRows)' /\ \A h \in hourRows' : h.item \in Ids(itemRows')
  BY DEF RowsInv, OneEach
<1> QED BY <1>1, <1>3, <1>4, <1>5, <1>6 DEF RowsInv, OneEach

(* The committed rows change: one that was not known is new, or is one     *)
(* that was known and looks different.                                     *)
LEMMA TableChanges ==
  ASSUME RowsInv, DOMAIN upload' = Importers, DOMAIN others' = Importers,
         \A q \in Importers :
           \/ upload'[q] = upload[q]
           \/ /\ DOMAIN upload'[q] = UploadFields /\ HeldBy(upload'[q]) = {} /\ upload'[q].items = {}
              /\ upload'[q].hours = {} /\ upload'[q].gone = {},
         nextItem' \in Nat, nextItem <= nextItem',
         \A r \in itemRows' :
           \/ \E k \in Known : k.id = r.id /\ k.name = r.name /\ IsItem(r)
           \/ IsItem(r) /\ r.id = nextItem /\ r.id < nextItem',
         OneEach(itemRows'), \A h \in hourRows' : h.item \in Ids(itemRows')
  PROVE  RowsInv'
<1>1. \A r \in Known' : r \in Known \/ r \in itemRows'
  <2>1. \A q \in Importers : HeldBy(upload[q])' = HeldBy(upload'[q]) BY DEF HeldBy
  <2>2. \A q \in Importers : HeldBy(upload'[q]) \subseteq HeldBy(upload[q]) OBVIOUS
  <2> QED BY <2>1, <2>2 DEF Known
<1>2. \A r \in Known' : \/ \E k \in Known : k.id = r.id /\ k.name = r.name /\ IsItem(r)
                        \/ IsItem(r) /\ r \in itemRows' /\ r.id = nextItem /\ r.id < nextItem'
  BY <1>1 DEF RowsInv
<1>3. \A r \in Known' : IsItem(r) /\ r.id < nextItem'
  BY <1>2 DEF RowsInv, IsItem
<1>4. \A a, b \in Known' : a.id = b.id => a.name = b.name
  <2> SUFFICES ASSUME NEW a \in Known', NEW b \in Known', a.id = b.id PROVE a.name = b.name OBVIOUS
  <2>1. \A k \in Known : k.id # nextItem BY DEF RowsInv, IsItem
  <2>2. CASE a \in itemRows' /\ a.id = nextItem /\ b \in itemRows' /\ b.id = nextItem
    BY <2>2 DEF OneEach
  <2>3. CASE \E k, l \in Known : k.id = a.id /\ k.name = a.name /\ l.id = b.id /\ l.name = b.name
    BY <2>3 DEF RowsInv
  <2> QED BY <1>2, <2>1, <2>2, <2>3
<1>5. \A q \in Importers :
        /\ DOMAIN upload'[q] = UploadFields /\ OneEach(upload'[q].items)
        /\ \A h \in upload'[q].hours : h.item \in Ids(upload'[q].items)
        /\ \A i \in upload'[q].gone : i \in Nat /\ i < nextItem'
  BY DEF RowsInv, OneEach
<1> QED BY <1>3, <1>4, <1>5 DEF RowsInv, OneEach

LEMMA SeenRows ==
  ASSUME RowsInv, NEW p \in Importers
  PROVE  /\ ItemsSeen(p) \subseteq Known /\ OneEach(ItemsSeen(p))
         /\ \A h \in HoursSeen(p) : h.item \in Ids(ItemsSeen(p))
<1>1. upload[p].items \subseteq Known BY DEF Known, HeldBy
<1>2. ItemsSeen(p) \subseteq Known BY <1>1 DEF Known, ItemsSeen
<1>3. OneEach(ItemsSeen(p)) BY DEF RowsInv, OneEach, ItemsSeen, Ids
<1>4. ASSUME NEW h \in HoursSeen(p) PROVE h.item \in Ids(ItemsSeen(p))
  <2>1. CASE h \in upload[p].hours BY <2>1 DEF RowsInv, ItemsSeen, Ids
  <2>2. CASE h \in hourRows /\ h.item \notin upload[p].gone BY <2>2 DEF RowsInv, ItemsSeen, Ids
  <2> QED BY <1>4, <2>1, <2>2 DEF HoursSeen, Put
<1> QED BY <1>2, <1>3, <1>4

-----------------------------------------------------------------------------
(* What an upload of a table has written of each name that nobody else has *)
(* changed since it began: the items after k rows, the hours after l.      *)
From(w, table) ==
  LET old == Titled(w.name, table)
  IN  IF old = {} THEN w.parent = None ELSE w = [Oldest(old) EXCEPT !.subject = w.subject]
Said(rows, name, k) == {i \in 1..k : rows[i].name = name}
Told(rows, M) == {<<s, rows[Max({i \in M : rows[i].semester = s})].hours>> : s \in {rows[i].semester : i \in M}}
Merged(u, name, table, k, l) ==
  LET mine == Titled(name, u.items)
      said == Said(u.rows, name, k)
  IN  /\ said = {} => mine = {}
      /\ said # {} => \E w : mine = {w} /\ From(w, table) /\ w.subject = u.rows[Max(said)].subject
      /\ \A w \in mine : HoursOf(w.id, u.hours) = Told(u.rows, Said(u.rows, name, l))

TableKeeps(u, excused) ==
  /\ u.rows \in TableFiles /\ u.gone = {} /\ u.calendar = "kept"
  /\ IF u.pc = "commit" THEN u.at = Len(u.rows) + 1 ELSE u.at \in 1..Len(u.rows)
  /\ \A name \in ItemNames \ excused :
       Merged(u, name, itemRows, IF u.pc = "hours" THEN u.at ELSE u.at - 1, u.at - 1)
  /\ u.pc \in {"save", "hours"} => u.found.name = u.rows[u.at].name
  /\ u.pc = "save" /\ u.found.name \in ItemNames \ excused =>
       From(u.found, itemRows) /\ Titled(u.found.name, u.items) \subseteq {u.found}
  /\ u.pc = "hours" => u.found \in u.items

LEMMA OldestIs ==
  ASSUME NEW T, OneEach(T), \A r \in T : r.id \in Nat, NEW m \in T, \A o \in T : m.id <= o.id
  PROVE  Oldest(T) = m
<1>1. ASSUME NEW x \in T, \A o \in T : x.id <= o.id PROVE x = m
  <2>1. x.id <= m.id /\ m.id <= x.id /\ x.id \in Nat /\ m.id \in Nat BY <1>1
  <2>2. x.id = m.id BY <2>1
  <2> QED BY <2>2 DEF OneEach
<1> QED BY <1>1 DEF Oldest

LEMMA OldestExists ==
  ASSUME NEW T, T # {}, \A r \in T : r.id \in Nat
  PROVE  Oldest(T) \in T /\ \A o \in T : Oldest(T).id <= o.id
<1> DEFINE S == {r.id : r \in T}
<1>1. S \in SUBSET Nat /\ S # {} OBVIOUS
<1>2. PICK m \in S : \A k \in S : m <= k
  <2> HIDE DEF S
  <2> QED BY <1>1, LeastNumber
<1>3. PICK x \in T : x.id = m BY <1>2
<1>4. \A o \in T : x.id <= o.id BY <1>2, <1>3
<1> QED BY <1>3, <1>4 DEF Oldest

(* What a table sees of a name.                                            *)
LEMMA SeenTitled ==
  ASSUME RowsInv, NEW p \in Importers, upload[p].gone = {}, NEW name
  PROVE  LET mine == Titled(name, upload[p].items)
             old == Titled(name, itemRows)
         IN  /\ Titled(name, ItemsSeen(p)) = {r \in old : r.id \notin Ids(mine)} \cup mine
             /\ \A r \in old : r.id \in Ids(upload[p].items) => r.id \in Ids(mine)
<1> DEFINE mine == Titled(name, upload[p].items)
           old == Titled(name, itemRows)
<1>1. \A r \in itemRows, m \in upload[p].items : r.id = m.id => r.name = m.name
  BY DEF RowsInv, Known, HeldBy
<1>2. \A r \in old : r.id \in Ids(upload[p].items) <=> r.id \in Ids(mine)
  BY <1>1 DEF Ids, Titled
<1> QED BY <1>2 DEF ItemsSeen, Titled

(* The item of a name that is found is the one that was there when the     *)
(* upload began, or its own.                                               *)
LEMMA FoundIs ==
  ASSUME RowsInv, NEW p \in Importers, upload[p].gone = {}, NEW name, NEW k, NEW l,
         Merged(upload[p], name, itemRows, k, l), Titled(name, ItemsSeen(p)) # {}
  PROVE  LET found == Oldest(Titled(name, ItemsSeen(p)))
         IN  found.name = name /\ From(found, itemRows) /\ Titled(name, upload[p].items) \subseteq {found}
<1> DEFINE seen == Titled(name, ItemsSeen(p))
           mine == Titled(name, upload[p].items)
           old == Titled(name, itemRows)
           found == Oldest(seen)
<1>1. seen = {r \in old : r.id \notin Ids(mine)} \cup mine BY SeenTitled
<1>2. OneEach(seen) /\ \A r \in seen : r.id \in Nat /\ IsItem(r) /\ r.name = name
  BY SeenRows DEF OneEach, Titled, RowsInv, IsItem
<1>3. found \in seen /\ \A o \in seen : found.id <= o.id BY <1>2, OldestExists
<1>4. OneEach(old) /\ \A r \in old : r.id \in Nat /\ IsItem(r)
  BY DEF OneEach, Titled, RowsInv, IsItem, Known
<1>5. CASE mine = {}
  <2>1. seen = old BY <1>1, <1>5 DEF Ids
  <2>2. found = [found EXCEPT !.subject = found.subject]
    <3> HIDE DEF found
    <3>1. IsItem(found) BY <1>2, <1>3
    <3> QED BY <3>1 DEF IsItem
  <2>3. old # {} BY <2>1
  <2> QED BY <1>2, <1>3, <1>5, <2>1, <2>2, <2>3 DEF From
<1>6. CASE mine # {}
  <2>1. PICK w : mine = {w} /\ From(w, itemRows) BY <1>6 DEF Merged
  <2>2. w \in seen /\ w.name = name /\ w.id \in Nat /\ IsItem(w) BY <1>1, <1>2, <2>1
  <2>3. \A o \in seen : w.id <= o.id
    <3>1. CASE old = {} BY <1>1, <2>1, <2>2, <3>1
    <3>2. CASE old # {}
      <4>1. Oldest(old) \in old /\ \A o \in old : Oldest(old).id <= o.id BY <1>4, <3>2, OldestExists
      <4>2. w.id = Oldest(old).id
        <5>1. w = [Oldest(old) EXCEPT !.subject = w.subject] BY <2>1, <2>2, <3>2 DEF From
        <5>2. IsItem(Oldest(old)) BY <1>4, <4>1
        <5> QED BY <5>1, <5>2 DEF IsItem
      <4> QED BY <1>1, <2>1, <2>2, <4>1, <4>2
    <3> QED BY <3>1, <3>2
  <2>4. found = w BY <1>2, <2>2, <2>3, OldestIs
  <2> QED BY <2>1, <2>2, <2>4
<1> QED BY <1>5, <1>6

(* One more row says something of its own name only.                       *)
LEMMA SaidIs ==
  ASSUME NEW rows, NEW name, NEW k \in Nat \ {0}
  PROVE  /\ rows[k].name = name =>
              Said(rows, name, k) = Said(rows, name, k - 1) \cup {k} /\ Max(Said(rows, name, k)) = k
         /\ rows[k].name # name => Said(rows, name, k) = Said(rows, name, k - 1)
         /\ Told(rows, {}) = {}
<1>1. 1..k = 1..(k-1) \cup {k} OBVIOUS
<1>2. ASSUME rows[k].name = name
      PROVE  Said(rows, name, k) = Said(rows, name, k - 1) \cup {k} /\ Max(Said(rows, name, k)) = k
  <2>1. Said(rows, name, k) = Said(rows, name, k - 1) \cup {k} BY <1>1, <1>2 DEF Said
  <2>2. \A i \in Said(rows, name, k) : i \in Int /\ i <= k BY DEF Said
  <2>3. k \in Said(rows, name, k) BY <2>1
  <2> QED BY <2>1, <2>2, <2>3, MaxIs
<1>3. ASSUME rows[k].name # name PROVE Said(rows, name, k) = Said(rows, name, k - 1)
  BY <1>1, <1>3 DEF Said
<1>4. Told(rows, {}) = {} BY DEF Told
<1> QED BY <1>2, <1>3, <1>4

(* The rows that an upload holds come from the tables or are new.          *)
Fetched(u) == \A r \in HeldBy(u)' : r.id = nextItem \/ \E k \in itemRows \cup HeldBy(u) : k.id = r.id

LEMMA FindItemKeeps ==
  ASSUME RowsInv, NEW p \in Importers, upload[p].plan = None, TableKeeps(upload[p], others[p]), FindItem(p)
  PROVE  /\ RowsInv' /\ Fetched(upload[p])
         /\ upload'[p].pc \in {"save", "hours"} /\ upload'[p].plan = None
         /\ TableKeeps(upload[p], others[p])'
<1> DEFINE u == upload[p]
           row == RowAt(p)
           seen == Titled(row.name, ItemsSeen(p))
           new == [id |-> nextItem, name |-> row.name, parent |-> None, subject |-> row.subject]
           found == Oldest(seen)
<1>1. /\ DOMAIN u = UploadFields /\ u.pc = "find" /\ u.gone = {} /\ row = u.rows[u.at]
      /\ u.at \in 1..Len(u.rows) /\ u.rows \in TableFiles /\ u.calendar = "kept"
  BY DEF RowsInv, FindItem, RowAt, TableKeeps
<1>2. \A name \in ItemNames \ others[p] : Merged(u, name, itemRows, u.at - 1, u.at - 1)
  BY <1>1 DEF TableKeeps
<1>3. HeldBy(u) = u.items /\ u.items \subseteq Known BY <1>1 DEF HeldBy, Known
<1>4. /\ UNCHANGED <<itemRows, hourRows, others>> BY DEF FindItem, GoesOn
<1>5. CASE seen # {}
  <2> DEFINE v == [u EXCEPT !.pc = "save", !.found = found]
  <2>1. upload' = [upload EXCEPT ![p] = v] /\ nextItem' = nextItem
    BY <1>5 DEF FindItem, GoesOn
  <2>2. /\ DOMAIN v = UploadFields /\ v.pc = "save" /\ v.plan = None /\ v.found = found /\ v.items = u.items
        /\ v.hours = u.hours /\ v.gone = {} /\ v.rows = u.rows /\ v.at = u.at /\ v.calendar = "kept"
    BY <1>1 DEF UploadFields
  <2>3. upload'[p] = v BY <2>1 DEF RowsInv
  <2>4. HeldBy(v) = u.items \cup {found} BY <2>2 DEF HeldBy
  <2> HIDE DEF v, found, new
  <2>5. found \in seen /\ found.name = row.name /\ found \in Known /\ found \in ItemsSeen(p)
    <3>1. \A r \in seen : r \in Known /\ r.id \in Nat /\ r.name = row.name /\ r \in ItemsSeen(p)
      BY SeenRows DEF Titled, RowsInv, IsItem
    <3> QED BY <1>5, <3>1, OldestExists DEF found
  <2>6. RowsInv'
    <3>1. HeldBy(v) \subseteq Known BY <1>3, <2>4, <2>5
    <3>2. \A r \in HeldBy(v) : IsItem(r) /\ r.id < nextItem' /\ \A k \in Known : k.id = r.id => k.name = r.name
      BY <2>1, <3>1 DEF RowsInv
    <3>3. \A a, b \in HeldBy(v) : a.id = b.id => a.name = b.name BY <3>1 DEF RowsInv
    <3>4. OneEach(v.items) /\ \A h \in v.hours : h.item \in Ids(v.items) BY <2>2 DEF RowsInv
    <3>5. nextItem' \in Nat /\ nextItem <= nextItem' /\ DOMAIN others' = Importers
      BY <1>4, <2>1 DEF RowsInv
    <3>6. \A i \in v.gone : i \in Nat /\ i < nextItem' BY <2>2
    <3>7. upload' = [upload EXCEPT ![p] = v] /\ DOMAIN v = UploadFields /\ UNCHANGED <<itemRows, hourRows>>
      BY <1>4, <2>1, <2>2
    <3> QED BY <3>2, <3>3, <3>4, <3>5, <3>6, <3>7, HeldGoesOn
  <2>7. Fetched(u)
    <3>1. HeldBy(u)' = HeldBy(v) BY <2>3 DEF HeldBy
    <3>2. found \in itemRows \cup u.items BY <2>5 DEF ItemsSeen
    <3> QED BY <1>3, <2>4, <3>1, <3>2 DEF Fetched
  <2>8. ASSUME found.name \in ItemNames \ others[p]
        PROVE  From(found, itemRows) /\ Titled(found.name, u.items) \subseteq {found}
    <3>1. Merged(u, row.name, itemRows, u.at - 1, u.at - 1) BY <1>2, <2>5, <2>8
    <3> QED BY <1>1, <1>5, <2>5, <3>1, FoundIs DEF found
  <2>9. \A name \in ItemNames \ others[p] : Merged(v, name, itemRows, v.at - 1, v.at - 1)
    BY <1>2, <2>2 DEF Merged
  <2>10. TableKeeps(v, others[p])
    BY <1>1, <2>2, <2>5, <2>8, <2>9 DEF TableKeeps
  <2> QED BY <1>4, <2>2, <2>3, <2>6, <2>7, <2>10 DEF TableKeeps
<1>6. CASE seen = {}
  <2> DEFINE v == [u EXCEPT !.pc = "hours", !.found = new, !.items = @ \cup {new}]
  <2>1. upload' = [upload EXCEPT ![p] = v] /\ nextItem' = nextItem + 1
    BY <1>6 DEF FindItem, GoesOn
  <2>2. /\ DOMAIN v = UploadFields /\ v.pc = "hours" /\ v.plan = None /\ v.found = new
        /\ v.items = u.items \cup {new}
        /\ v.hours = u.hours /\ v.gone = {} /\ v.rows = u.rows /\ v.at = u.at /\ v.calendar = "kept"
    BY <1>1 DEF UploadFields
  <2>3. upload'[p] = v BY <2>1 DEF RowsInv
  <2>4. HeldBy(v) = u.items \cup {new} BY <2>2 DEF HeldBy
  <2>5. new.id = nextItem /\ new.name = row.name /\ new.parent = None /\ new.subject = row.subject /\ IsItem(new)
    BY DEF IsItem, RowsInv
  <2> HIDE DEF v, found, new
  <2>6. \A k \in Known : k.id # nextItem /\ k.id \in Nat /\ k.id < nextItem + 1 BY DEF RowsInv, IsItem
  <2>7. RowsInv'
    <3>1. \A r \in HeldBy(v) : IsItem(r) /\ r.id < nextItem' /\ \A k \in Known : k.id = r.id => k.name = r.name
      BY <1>3, <2>1, <2>4, <2>5, <2>6 DEF RowsInv
    <3>2. \A a, b \in HeldBy(v) : a.id = b.id => a.name = b.name
      BY <1>3, <2>4, <2>5, <2>6 DEF RowsInv
    <3>3. OneEach(v.items) BY <1>3, <2>2, <2>5, <2>6 DEF RowsInv, OneEach
    <3>4. \A h \in v.hours : h.item \in Ids(v.items) BY <2>2 DEF RowsInv, Ids
    <3>5. nextItem' \in Nat /\ nextItem <= nextItem' BY <2>1 DEF RowsInv
    <3>6. DOMAIN others' = Importers BY <1>4 DEF RowsInv
    <3> QED BY <1>4, <2>1, <2>2, <3>1, <3>2, <3>3, <3>4, <3>5, <3>6, HeldGoesOn
  <2>8. Fetched(u)
    <3>1. HeldBy(u)' = HeldBy(v) BY <2>3 DEF HeldBy
    <3> QED BY <1>3, <2>4, <2>5, <3>1 DEF Fetched
  <2>9. ASSUME NEW name \in ItemNames \ others[p] PROVE Merged(v, name, itemRows, v.at, v.at - 1)
    <3>0. Merged(u, name, itemRows, u.at - 1, u.at - 1) BY <1>2
    <3>1. u.at \in Nat \ {0} BY <1>1
    <3>2. CASE name # row.name
      <4>1. Titled(name, v.items) = Titled(name, u.items) BY <2>2, <2>5, <3>2 DEF Titled
      <4>2. Said(v.rows, name, v.at) = Said(u.rows, name, u.at - 1) BY <1>1, <2>2, <3>1, <3>2, SaidIs
      <4> QED BY <2>2, <3>0, <4>1, <4>2 DEF Merged
    <3>3. CASE name = row.name
      <4>1. Titled(name, u.items) = {} /\ Titled(name, itemRows) = {}
        <5> DEFINE mine == Titled(name, u.items)
                   old == Titled(name, itemRows)
        <5>1. Titled(name, ItemsSeen(p)) = {r \in old : r.id \notin Ids(mine)} \cup mine
          BY <1>1, SeenTitled
        <5>2. Titled(name, ItemsSeen(p)) = {} BY <1>6, <3>3
        <5> HIDE DEF mine, old
        <5>3. mine = {} BY <5>1, <5>2
        <5>4. old = {} BY <5>1, <5>2, <5>3 DEF Ids
        <5> QED BY <5>3, <5>4 DEF mine, old
      <4>2. Titled(name, v.items) = {new} BY <2>2, <2>5, <3>3, <4>1 DEF Titled
      <4>3. From(new, itemRows) BY <2>5, <3>3, <4>1 DEF From
      <4>4. Said(v.rows, name, v.at) # {} /\ Max(Said(v.rows, name, v.at)) = u.at
        <5>1. u.rows[u.at].name = name BY <1>1, <3>3
        <5>2. Said(u.rows, name, u.at) = Said(u.rows, name, u.at - 1) \cup {u.at} /\ Max(Said(u.rows, name, u.at)) = u.at
          BY <3>1, <5>1, SaidIs
        <5> QED BY <2>2, <5>2
      <4>5. new.subject = v.rows[Max(Said(v.rows, name, v.at))].subject BY <1>1, <2>2, <2>5, <4>4
      <4>6. Said(u.rows, name, u.at - 1) = {} BY <3>0, <4>1 DEF Merged
      <4>7. HoursOf(new.id, v.hours) = {}
        <5>1. \A h \in v.hours : h.item # new.id BY <1>3, <2>2, <2>5, <2>6 DEF RowsInv, Ids
        <5> QED BY <5>1 DEF HoursOf
      <4>8. HoursOf(new.id, v.hours) = Told(v.rows, Said(v.rows, name, v.at - 1))
        BY <2>2, <4>6, <4>7, <3>1, SaidIs
      <4> QED BY <4>2, <4>3, <4>4, <4>5, <4>8 DEF Merged
    <3> QED BY <3>2, <3>3
  <2>10. TableKeeps(v, others[p])
    BY <1>1, <2>2, <2>5, <2>9 DEF TableKeeps
  <2> QED BY <1>4, <2>2, <2>3, <2>7, <2>8, <2>10 DEF TableKeeps
<1> QED BY <1>5, <1>6

LEMMA SaveItemKeeps ==
  ASSUME RowsInv, NEW p \in Importers, upload[p].plan = None, TableKeeps(upload[p], others[p]), SaveItem(p)
  PROVE  /\ RowsInv' /\ Fetched(upload[p])
         /\ upload'[p].pc = "hours" /\ upload'[p].plan = None
         /\ TableKeeps(upload[p], others[p])'
<1> DEFINE u == upload[p]
           row == RowAt(p)
           item == [u.found EXCEPT !.subject = row.subject]
           v == [u EXCEPT !.pc = "hours", !.found = item, !.items = {r \in @ : r.id # item.id} \cup {item}]
<1>1. /\ DOMAIN u = UploadFields /\ u.pc = "save" /\ u.gone = {} /\ row = u.rows[u.at]
      /\ u.at \in 1..Len(u.rows) /\ u.rows \in TableFiles /\ u.calendar = "kept"
      /\ u.found.name = row.name
  BY DEF RowsInv, SaveItem, RowAt, TableKeeps
<1>2. \A name \in ItemNames \ others[p] : Merged(u, name, itemRows, u.at - 1, u.at - 1)
  BY <1>1 DEF TableKeeps
<1>3. HeldBy(u) = u.items \cup {u.found} /\ HeldBy(u) \subseteq Known BY <1>1 DEF HeldBy, Known
<1>4. UNCHANGED <<itemRows, hourRows, others, nextItem>> BY DEF SaveItem, GoesOn
<1>5. IsItem(u.found) BY <1>3 DEF RowsInv
<1>6. IsItem(item) /\ item.id = u.found.id /\ item.name = row.name /\ item.subject = row.subject
      /\ item.parent = u.found.parent
  BY <1>1, <1>5 DEF IsItem
<1> HIDE DEF item
<1>7. upload' = [upload EXCEPT ![p] = v] BY DEF SaveItem, GoesOn, item
<1>8. /\ DOMAIN v = UploadFields /\ v.pc = "hours" /\ v.plan = None /\ v.found = item
      /\ v.items = {r \in u.items : r.id # item.id} \cup {item}
      /\ v.hours = u.hours /\ v.gone = {} /\ v.rows = u.rows /\ v.at = u.at /\ v.calendar = "kept"
  BY <1>1 DEF UploadFields
<1>9. upload'[p] = v BY <1>7 DEF RowsInv
<1>10. HeldBy(v) = v.items BY <1>8 DEF HeldBy
<1> HIDE DEF v
<1>11. RowsInv'
  <2>1. \A r \in HeldBy(v) : IsItem(r) /\ r.id < nextItem' /\ \A k \in Known : k.id = r.id => k.name = r.name
    BY <1>1, <1>3, <1>4, <1>6, <1>8, <1>10 DEF RowsInv
  <2>2. \A a, b \in HeldBy(v) : a.id = b.id => a.name = b.name
    BY <1>3, <1>6, <1>8, <1>10 DEF RowsInv
  <2>3. OneEach(v.items) /\ \A h \in v.hours : h.item \in Ids(v.items)
    BY <1>8 DEF RowsInv, OneEach, Ids
  <2>4. nextItem' \in Nat /\ nextItem <= nextItem' /\ DOMAIN others' = Importers BY <1>4 DEF RowsInv
  <2>5. \A i \in v.gone : i \in Nat /\ i < nextItem' BY <1>8
  <2>6. upload' = [upload EXCEPT ![p] = v] /\ DOMAIN v = UploadFields /\ UNCHANGED <<itemRows, hourRows>>
    BY <1>4, <1>7, <1>8
  <2> QED BY <2>1, <2>2, <2>3, <2>4, <2>5, <2>6, HeldGoesOn
<1>12. Fetched(u)
  <2>1. HeldBy(u)' = HeldBy(v) BY <1>9 DEF HeldBy
  <2> QED BY <1>3, <1>6, <1>8, <1>10, <2>1 DEF Fetched
<1>13. ASSUME NEW name \in ItemNames \ others[p] PROVE Merged(v, name, itemRows, v.at, v.at - 1)
  <2>0. Merged(u, name, itemRows, u.at - 1, u.at - 1) BY <1>2
  <2>1. u.at \in Nat \ {0} BY <1>1
  <2>2. \A r \in u.items : r.id = item.id => r.name = row.name
    BY <1>1, <1>3, <1>6 DEF RowsInv
  <2>3. CASE name # row.name
    <3>1. Titled(name, v.items) = Titled(name, u.items) BY <1>6, <1>8, <2>2, <2>3 DEF Titled
    <3>2. Said(v.rows, name, v.at) = Said(u.rows, name, u.at - 1)
      BY <1>1, <1>8, <2>1, <2>3, SaidIs
    <3> QED BY <1>8, <2>0, <3>1, <3>2 DEF Merged
  <2>4. CASE name = row.name
    <3>1. From(u.found, itemRows) /\ Titled(name, u.items) \subseteq {u.found}
      BY <1>1, <2>4 DEF TableKeeps
    <3>2. Titled(name, v.items) = {item}
      BY <1>6, <1>8, <2>4, <3>1 DEF Titled
    <3>3. From(item, itemRows)
      <4> DEFINE old == Titled(name, itemRows)
      <4>1. CASE old = {} BY <1>1, <1>6, <2>4, <3>1, <4>1 DEF From
      <4>2. CASE old # {}
        <5>1. \A r \in old : IsItem(r) BY DEF RowsInv, Known, Titled
        <5>2. IsItem(Oldest(old)) BY <4>2, <5>1, OldestExists DEF IsItem
        <5>3. u.found = [Oldest(old) EXCEPT !.subject = u.found.subject]
          BY <1>1, <2>4, <3>1, <4>2 DEF From
        <5> HIDE DEF old
        <5>4. item = [Oldest(old) EXCEPT !.subject = item.subject]
          <6> DEFINE o == Oldest(old)
          <6> HIDE DEF o
          <6>1. o = [id |-> o.id, name |-> o.name, parent |-> o.parent, subject |-> o.subject]
            BY <5>2 DEF o, IsItem
          <6>2. u.found = [o EXCEPT !.subject = u.found.subject] BY <5>3 DEF o
          <6>3. u.found.id = o.id /\ u.found.name = o.name /\ u.found.parent = o.parent BY <6>1, <6>2
          <6>4. item = [id |-> item.id, name |-> item.name, parent |-> item.parent, subject |-> item.subject]
            BY <1>6 DEF IsItem
          <6>5. item = [o EXCEPT !.subject = item.subject] BY <1>1, <1>6, <6>1, <6>3, <6>4
          <6> QED BY <6>5 DEF o
        <5> QED BY <1>6, <2>4, <4>2, <5>4 DEF From, old
      <4> QED BY <4>1, <4>2
    <3>4. Said(v.rows, name, v.at) # {} /\ Max(Said(v.rows, name, v.at)) = u.at
      <4>1. u.rows[u.at].name = name BY <1>1, <2>4
      <4>2. Said(u.rows, name, u.at) = Said(u.rows, name, u.at - 1) \cup {u.at} /\ Max(Said(u.rows, name, u.at)) = u.at
        BY <2>1, <4>1, SaidIs
      <4> QED BY <1>8, <4>2
    <3>5. item.subject = v.rows[Max(Said(v.rows, name, v.at))].subject BY <1>1, <1>6, <1>8, <3>4
    <3>6. HoursOf(item.id, v.hours) = Told(v.rows, Said(v.rows, name, v.at - 1))
      <4>1. CASE Titled(name, u.items) = {}
        <5>1. Said(u.rows, name, u.at - 1) = {} BY <2>0, <4>1 DEF Merged
        <5>2. \A h \in v.hours : h.item # item.id
          <6>1. \A h \in u.hours : \E r \in u.items : h.item = r.id BY DEF RowsInv, Ids
          <6> QED BY <1>8, <2>2, <2>4, <4>1, <6>1 DEF Titled
        <5>3. HoursOf(item.id, v.hours) = {} BY <5>2 DEF HoursOf
        <5> QED BY <1>8, <2>1, <5>1, <5>3, SaidIs
      <4>2. CASE Titled(name, u.items) # {}
        <5>1. u.found \in Titled(name, u.items) BY <3>1, <4>2
        <5>2. HoursOf(u.found.id, u.hours) = Told(u.rows, Said(u.rows, name, u.at - 1))
          BY <2>0, <5>1 DEF Merged
        <5> QED BY <1>6, <1>8, <5>2
      <4> QED BY <4>1, <4>2
    <3> QED BY <3>2, <3>3, <3>4, <3>5, <3>6 DEF Merged
  <2> QED BY <2>3, <2>4
<1>14. TableKeeps(v, others[p])
  BY <1>1, <1>6, <1>8, <1>13 DEF TableKeeps
<1> QED BY <1>4, <1>8, <1>9, <1>11, <1>12, <1>14 DEF TableKeeps

(* The hours that rows ask for, and those that a table has, with one more. *)
LEMMA ToldGrows ==
  ASSUME NEW rows, NEW k \in Nat, NEW M \in SUBSET (1..(k-1))
  PROVE  Told(rows, M \cup {k}) =
           {x \in Told(rows, M) : x[1] # rows[k].semester} \cup {<<rows[k].semester, rows[k].hours>>}
<1> DEFINE at(T, s) == {i \in T : rows[i].semester = s}
           N == M \cup {k}
<1>1. \A i \in M : i \in Int /\ i < k /\ i # k OBVIOUS
<1>2. Max(at(N, rows[k].semester)) = k
  <2>1. \A i \in N : i \in Int /\ i <= k BY <1>1
  <2>2. k \in at(N, rows[k].semester) OBVIOUS
  <2>3. \A i \in at(N, rows[k].semester) : i \in N OBVIOUS
  <2> HIDE DEF at, N
  <2> QED BY <2>1, <2>2, <2>3, MaxIs
<1>3. \A s : s # rows[k].semester => at(N, s) = at(M, s) OBVIOUS
<1>4. Told(rows, N) = {<<s, rows[Max(at(N, s))].hours>> : s \in {rows[i].semester : i \in N}}
  BY DEF Told
<1>5. Told(rows, M) = {<<s, rows[Max(at(M, s))].hours>> : s \in {rows[i].semester : i \in M}}
  BY DEF Told
<1> HIDE DEF at
<1>6. {rows[i].semester : i \in N} = {rows[i].semester : i \in M} \cup {rows[k].semester} OBVIOUS
<1> HIDE DEF N
<1>7. ASSUME NEW x \in Told(rows, N)
      PROVE  x \in {y \in Told(rows, M) : y[1] # rows[k].semester} \cup {<<rows[k].semester, rows[k].hours>>}
  <2>1. PICK s \in {rows[i].semester : i \in M} \cup {rows[k].semester} : x = <<s, rows[Max(at(N, s))].hours>>
    BY <1>4, <1>6
  <2>2. CASE s = rows[k].semester BY <1>2, <2>1, <2>2
  <2>3. CASE s # rows[k].semester
    <3>1. x = <<s, rows[Max(at(M, s))].hours>> BY <1>3, <2>1, <2>3
    <3>2. x[1] = s BY <3>1
    <3> QED BY <1>5, <2>1, <2>3, <3>1, <3>2
  <2> QED BY <2>2, <2>3
<1>8. ASSUME NEW x \in Told(rows, M), x[1] # rows[k].semester PROVE x \in Told(rows, N)
  <2>1. PICK s \in {rows[i].semester : i \in M} : x = <<s, rows[Max(at(M, s))].hours>> BY <1>5
  <2>2. x[1] = s BY <2>1
  <2>3. x = <<s, rows[Max(at(N, s))].hours>> BY <1>3, <1>8, <2>1, <2>2
  <2> QED BY <1>4, <1>6, <2>1, <2>3
<1>9. <<rows[k].semester, rows[k].hours>> \in Told(rows, N) BY <1>2, <1>4, <1>6
<1> QED BY <1>7, <1>8, <1>9 DEF N

LEMMA PutGrows ==
  ASSUME NEW table, NEW h, NEW id
  PROVE  HoursOf(id, Put({h}, table)) =
           IF id = h.item THEN {x \in HoursOf(id, table) : x[1] # h.semester} \cup {<<h.semester, h.hours>>}
           ELSE HoursOf(id, table)
<1>1. Put({h}, table) = {k \in table : k.item # h.item \/ k.semester # h.semester} \cup {h}
  BY DEF Put, SameKey
<1>2. \A x, T : x \in HoursOf(id, T) <=> \E k \in T : k.item = id /\ x = <<k.semester, k.hours>>
  BY DEF HoursOf
<1> DEFINE new == Put({h}, table)
<1>3. CASE id = h.item
  <2>1. ASSUME NEW x \in HoursOf(id, new)
        PROVE  x \in {y \in HoursOf(id, table) : y[1] # h.semester} \cup {<<h.semester, h.hours>>}
    <3>1. PICK k \in new : k.item = id /\ x = <<k.semester, k.hours>> BY <1>2
    <3>2. CASE k = h BY <3>1, <3>2
    <3>3. CASE k \in table /\ k.semester # h.semester
      <4>1. x \in HoursOf(id, table) /\ x[1] = k.semester BY <1>2, <3>1, <3>3
      <4> QED BY <3>3, <4>1
    <3> QED BY <1>1, <1>3, <3>1, <3>2, <3>3
  <2>2. ASSUME NEW x \in HoursOf(id, table), x[1] # h.semester PROVE x \in HoursOf(id, new)
    <3>1. PICK k \in table : k.item = id /\ x = <<k.semester, k.hours>> BY <1>2
    <3>2. k.semester # h.semester BY <2>2, <3>1
    <3>3. k \in new BY <1>1, <3>2
    <3> HIDE DEF new
    <3> QED BY <1>2, <3>1, <3>3
  <2>3. <<h.semester, h.hours>> \in HoursOf(id, new)
    <3>1. h \in new BY <1>1
    <3> HIDE DEF new
    <3> QED BY <1>2, <1>3, <3>1
  <2> QED BY <1>3, <2>1, <2>2, <2>3
<1>4. CASE id # h.item
  <2>1. \A k : k.item = id => (k \in new <=> k \in table) BY <1>1, <1>4
  <2> HIDE DEF new
  <2>2. HoursOf(id, new) = HoursOf(id, table) BY <1>2, <2>1 DEF HoursOf
  <2> QED BY <1>4, <2>2 DEF new
<1> QED BY <1>3, <1>4

LEMMA AllocateKeeps ==
  ASSUME RowsInv, NEW p \in Importers, upload[p].plan = None, TableKeeps(upload[p], others[p]), Allocate(p)
  PROVE  /\ RowsInv' /\ Fetched(upload[p])
         /\ upload'[p].pc \in {"find", "commit"} /\ upload'[p].plan = None
         /\ TableKeeps(upload[p], others[p])'
<1> DEFINE u == upload[p]
           row == RowAt(p)
           h == [item |-> u.found.id, semester |-> row.semester, hours |-> row.hours]
           v == [u EXCEPT !.pc = IF AtLast(p) THEN "commit" ELSE "find", !.at = @ + 1,
                          !.found = None, !.hours = Put({h}, @)]
<1>1. /\ DOMAIN u = UploadFields /\ u.pc = "hours" /\ u.gone = {} /\ row = u.rows[u.at]
      /\ u.at \in 1..Len(u.rows) /\ u.rows \in TableFiles /\ u.calendar = "kept"
      /\ u.found.name = row.name /\ u.found \in u.items
  BY DEF RowsInv, Allocate, RowAt, TableKeeps
<1>2. \A name \in ItemNames \ others[p] : Merged(u, name, itemRows, u.at, u.at - 1)
  BY <1>1 DEF TableKeeps
<1>3. HeldBy(u) = u.items \cup {u.found} /\ HeldBy(u) \subseteq Known BY <1>1 DEF HeldBy, Known
<1>4. UNCHANGED <<itemRows, hourRows, others, nextItem>> BY DEF Allocate, GoesOn
<1>5. upload' = [upload EXCEPT ![p] = v] BY DEF Allocate, GoesOn
<1>6. h.item = u.found.id /\ h.semester = row.semester /\ h.hours = row.hours OBVIOUS
<1> HIDE DEF h
<1>7. /\ DOMAIN v = UploadFields /\ v.pc = (IF AtLast(p) THEN "commit" ELSE "find") /\ v.plan = None
      /\ v.items = u.items /\ v.hours = Put({h}, u.hours) /\ v.gone = {} /\ v.rows = u.rows
      /\ v.at = u.at + 1 /\ v.calendar = "kept"
  BY <1>1 DEF UploadFields
<1>8. \A id : HoursOf(id, Put({h}, u.hours)) =
           IF id = h.item THEN {x \in HoursOf(id, u.hours) : x[1] # h.semester} \cup {<<h.semester, h.hours>>}
           ELSE HoursOf(id, u.hours)
  <2> HIDE DEF u, v
  <2> QED BY PutGrows
<1>9. upload'[p] = v BY <1>5 DEF RowsInv
<1> HIDE DEF v
<1>10. HeldBy(v) = u.items BY <1>7 DEF HeldBy
<1>11. RowsInv'
  <2>1. \A r \in HeldBy(v) : IsItem(r) /\ r.id < nextItem' /\ \A k \in Known : k.id = r.id => k.name = r.name
    BY <1>3, <1>4, <1>10 DEF RowsInv
  <2>2. \A a, b \in HeldBy(v) : a.id = b.id => a.name = b.name BY <1>3, <1>10 DEF RowsInv
  <2>3. OneEach(v.items) /\ \A k \in v.hours : k.item \in Ids(v.items)
    BY <1>1, <1>6, <1>7 DEF RowsInv, Ids, Put
  <2>4. nextItem' \in Nat /\ nextItem <= nextItem' /\ DOMAIN others' = Importers BY <1>4 DEF RowsInv
  <2>5. \A i \in v.gone : i \in Nat /\ i < nextItem' BY <1>7
  <2>6. upload' = [upload EXCEPT ![p] = v] /\ DOMAIN v = UploadFields /\ UNCHANGED <<itemRows, hourRows>>
    BY <1>4, <1>5, <1>7
  <2> QED BY <2>1, <2>2, <2>3, <2>4, <2>5, <2>6, HeldGoesOn
<1>12. Fetched(u)
  <2>1. HeldBy(u)' = HeldBy(v) BY <1>9 DEF HeldBy
  <2> QED BY <1>3, <1>10, <2>1 DEF Fetched
<1>13. ASSUME NEW name \in ItemNames \ others[p] PROVE Merged(v, name, itemRows, v.at - 1, v.at - 1)
  <2>0. Merged(u, name, itemRows, u.at, u.at - 1) BY <1>2
  <2>1. u.at \in Nat \ {0} /\ v.at - 1 = u.at BY <1>1, <1>7
  <2>2. \A r \in u.items : r.id = h.item => r.name = row.name BY <1>1, <1>3, <1>6 DEF RowsInv
  <2>3. Titled(name, v.items) = Titled(name, u.items) BY <1>7
  <2>4. ASSUME NEW w \in Titled(name, u.items)
        PROVE  HoursOf(w.id, v.hours) = Told(v.rows, Said(v.rows, name, u.at))
    <3>1. w \in u.items /\ w.name = name BY DEF Titled
    <3>2. HoursOf(w.id, u.hours) = Told(u.rows, Said(u.rows, name, u.at - 1)) BY <2>0 DEF Merged
    <3>3. CASE name # row.name
      <4>1. w.id # h.item BY <2>2, <3>1, <3>3
      <4>2. HoursOf(w.id, v.hours) = HoursOf(w.id, u.hours) BY <1>7, <1>8, <4>1
      <4>3. Said(u.rows, name, u.at) = Said(u.rows, name, u.at - 1) BY <1>1, <2>1, <3>3, SaidIs
      <4> QED BY <1>7, <3>2, <4>2, <4>3
    <3>4. CASE name = row.name
      <4>1. u.found \in Titled(name, u.items) BY <1>1, <3>4 DEF Titled
      <4>2. w = u.found
        <5>1. \E x : Titled(name, u.items) = {x} BY <2>0, <4>1 DEF Merged
        <5> QED BY <4>1, <5>1
      <4> DEFINE M == Said(u.rows, name, u.at - 1)
      <4>3. HoursOf(w.id, v.hours) = {x \in Told(u.rows, M) : x[1] # h.semester} \cup {<<h.semester, h.hours>>}
        BY <1>6, <1>7, <1>8, <3>2, <4>2
      <4>4. u.rows[u.at].name = name BY <1>1, <3>4
      <4>5. Said(u.rows, name, u.at) = M \cup {u.at} BY <2>1, <4>4, SaidIs
      <4>6. M \in SUBSET (1..(u.at - 1)) /\ u.at \in Nat BY <2>1 DEF Said
      <4>7. h.semester = u.rows[u.at].semester /\ h.hours = u.rows[u.at].hours BY <1>1, <1>6
      <4> HIDE DEF M, u
      <4>8. Told(u.rows, M \cup {u.at}) =
              {x \in Told(u.rows, M) : x[1] # u.rows[u.at].semester} \cup {<<u.rows[u.at].semester, u.rows[u.at].hours>>}
        BY <4>6, ToldGrows
      <4> QED BY <1>7, <4>3, <4>5, <4>7, <4>8
    <3> QED BY <3>3, <3>4
  <2> QED BY <1>7, <2>0, <2>1, <2>3, <2>4 DEF Merged
<1>14. IF v.pc = "commit" THEN v.at = Len(v.rows) + 1 ELSE v.at \in 1..Len(v.rows)
  <2>1. AtLast(p) <=> u.at = Len(u.rows) BY DEF AtLast
  <2>2. IsFile(u.rows) BY <1>1, ImportConstants
  <2>3. Len(u.rows) \in Nat BY <2>2, LenProperties DEF IsFile
  <2> HIDE DEF u
  <2> QED BY <1>1, <1>7, <2>1, <2>3
<1>15. TableKeeps(v, others[p]) BY <1>1, <1>7, <1>13, <1>14 DEF TableKeeps
<1> QED BY <1>4, <1>7, <1>9, <1>11, <1>12, <1>15 DEF TableKeeps

-----------------------------------------------------------------------------
(* What an upload of a plan has written: the items of the rows so far,     *)
(* under ids that nobody else has.                                         *)
ItemAt(u, i) ==
  LET parent == ParentOf(u.rows, i)
  IN  [id |-> u.ids[i], name |-> u.rows[i].name,
       parent |-> IF parent = None THEN None ELSE u.ids[parent],
       subject |-> IF u.rows[i].kind = "counted" THEN u.rows[i].name ELSE None]
HoursAt(u, i) ==
  {[item |-> u.ids[i], semester |-> s, hours |-> u.rows[i].hours[s]] : s \in DOMAIN u.rows[i].hours}
Beside(p) == Ids(itemRows) \cup UNION {Ids(HeldBy(upload[q])) : q \in Importers \ {p}}

CalendarKeeps(u) ==
  IF u.pc = "commit" /\ u.plan.weeks THEN u.calendar = "made"
  ELSE \/ u.calendar = "kept" /\ (u.plan.replace /\ u.pc # "clear" => calendarFrom = None)
       \/ u.calendar = "removed" /\ u.plan.replace

Written(u) ==
  /\ u.plan \in PlanFiles /\ u.rows = u.plan.rows
  /\ IF u.pc \in {"clear", "create"} THEN u.at \in 1..Len(u.rows) ELSE u.at = Len(u.rows) + 1
  /\ u.ids \in Seq(Nat) /\ Len(u.ids) = u.at - 1
  /\ \A i, j \in 1..(u.at - 1) : u.ids[i] = u.ids[j] => i = j
  /\ u.items = {ItemAt(u, i) : i \in 1..(u.at - 1)}
  /\ u.hours = UNION {HoursAt(u, i) : i \in 1..(u.at - 1)}
  /\ u.pc = "clear" => u.at = 1 /\ u.gone = {} /\ u.plan.replace

PlanKeeps(p) ==
  LET u == upload[p]
  IN  /\ Written(u) /\ CalendarKeeps(u)
      /\ \A i \in 1..(u.at - 1) : u.ids[i] \notin Beside(p) \cup u.gone
      /\ u.pc # "clear" =>
           IF u.plan.replace THEN \A r \in itemRows : r.name \in ItemNames \ others[p] => r.id \in u.gone
           ELSE u.gone = {}

Resting(u) == u.plan = None /\ u.items = {} /\ u.hours = {} /\ u.gone = {} /\ u.calendar = "kept"
Keeps(p) ==
  LET u == upload[p]
  IN  \/ u.pc \in {"idle", "announce"} /\ Resting(u)
      \/ u.pc \in {"find", "save", "hours", "commit"} /\ u.plan = None /\ TableKeeps(u, others[p])
      \/ u.pc \in {"clear", "create", "calendar", "commit"} /\ u.plan # None /\ PlanKeeps(p)

ImportInv ==
  /\ RowsInv
  /\ \A p \in Importers : Keeps(p)
  /\ \A p, q \in Importers : upload[p].plan # None /\ upload[q].plan # None => p = q

(* The rows of a file, and the row another is below.                       *)
LEMMA FilesAre ==
  /\ \A rows \in TableFiles \cup {plan.rows : plan \in PlanFiles} :
       Len(rows) \in Nat \ {0} /\ DOMAIN rows = 1..Len(rows)
  /\ None \notin PlanFiles /\ None \notin Nat
<1>1. ASSUME NEW rows, IsFile(rows) PROVE Len(rows) \in Nat \ {0} /\ DOMAIN rows = 1..Len(rows)
  <2>1. rows \in Seq({rows[i] : i \in DOMAIN rows}) /\ rows # <<>> BY <1>1 DEF IsFile
  <2> QED BY <2>1, LenProperties, EmptySeq
<1> QED BY <1>1, ImportConstants

LEMMA ParentIs ==
  ASSUME NEW plan \in PlanFiles, NEW i \in 1..Len(plan.rows)
  PROVE  ParentOf(plan.rows, i) \in {None} \cup 1..(i-1)
<1> DEFINE above(kinds) == {j \in 1..(i-1) : plan.rows[j].kind \in kinds}
<1>1. \A S \in SUBSET (1..(i-1)) : LastOf(S) \in {None} \cup 1..(i-1)
  <2> SUFFICES ASSUME NEW S \in SUBSET (1..(i-1)), S # {} PROVE Max(S) \in 1..(i-1) BY DEF LastOf
  <2>1. i - 1 \in Int /\ 1 \in Int BY FilesAre
  <2>2. IsFiniteSet(1..(i-1)) BY <2>1, FS_Interval
  <2>3. IsFiniteSet(S) BY <2>2, FS_Subset
  <2>4. S \in SUBSET Nat OBVIOUS
  <2> QED BY <2>3, <2>4, MaxExists
<1>2. plan.rows[i].kind \in {"root", "header", "counted"} BY FilesAre, ImportConstants
<1>3. ParentOf(plan.rows, i) =
        CASE plan.rows[i].kind = "root" -> None
          [] plan.rows[i].kind = "header" -> LastOf(above({"root"}))
          [] plan.rows[i].kind = "counted" -> LastOf(above({"root", "header"}))
  BY DEF ParentOf
<1>4. \A kinds : above(kinds) \in SUBSET (1..(i-1)) OBVIOUS
<1> HIDE DEF above
<1>5. /\ LastOf(above({"root"})) \in {None} \cup 1..(i-1)
      /\ LastOf(above({"root", "header"})) \in {None} \cup 1..(i-1)
  BY <1>1, <1>4
<1> QED BY <1>2, <1>3, <1>5

(* An upload that is not concerned.                                        *)
LEMMA BesideKeeps ==
  ASSUME RowsInv, NEW q \in Importers, Keeps(q), upload'[q] = upload[q],
         upload[q].pc \notin {"idle", "announce"} =>
           /\ others[q] \subseteq others'[q]
           /\ \A name \in ItemNames \ others'[q] : Titled(name, itemRows') = Titled(name, itemRows),
         \A i \in Beside(q)' : i \in Beside(q) \/ i = nextItem,
         upload[q].plan # None => calendarFrom' = calendarFrom
  PROVE  Keeps(q)'
<1> DEFINE u == upload[q]
<1>1. CASE u.pc \in {"idle", "announce"} /\ Resting(u) BY <1>1 DEF Keeps
<1>2. CASE u.pc \in {"find", "save", "hours", "commit"} /\ u.plan = None /\ TableKeeps(u, others[q])
  <2>1. \A w : w.name \in ItemNames \ others'[q] /\ From(w, itemRows) => From(w, itemRows')
    BY <1>2 DEF From
  <2>2. ASSUME NEW name \in ItemNames \ others'[q], NEW k, NEW l, Merged(u, name, itemRows, k, l)
        PROVE  Merged(u, name, itemRows', k, l)
    <3>1. \A w \in Titled(name, u.items) : w.name = name BY DEF Titled
    <3> QED BY <2>1, <2>2, <3>1 DEF Merged
  <2>3. (TableKeeps(u, others[q]))'
    BY <1>2, <2>1, <2>2 DEF TableKeeps
  <2> QED BY <1>2, <2>3 DEF Keeps
<1>3. CASE u.pc \in {"clear", "create", "calendar", "commit"} /\ u.plan # None /\ PlanKeeps(q)
  <2>1. Written(u)' /\ CalendarKeeps(u)' BY <1>3 DEF PlanKeeps, Written, ItemAt, HoursAt, CalendarKeeps
  <2>2. ASSUME NEW i \in 1..(u.at - 1) PROVE u.ids[i] \notin Beside(q)' \cup u.gone
    <3>1. ItemAt(u, i) \in Known /\ ItemAt(u, i).id = u.ids[i]
      BY <1>3 DEF PlanKeeps, Written, ItemAt, Known, HeldBy
    <3>2. u.ids[i] \in Nat /\ u.ids[i] < nextItem BY <3>1 DEF RowsInv, IsItem
    <3>3. u.ids[i] # nextItem BY <3>2 DEF RowsInv
    <3> QED BY <1>3, <3>3 DEF PlanKeeps
  <2>3. u.pc # "clear" =>
          IF u.plan.replace THEN \A r \in itemRows' : r.name \in ItemNames \ others'[q] => r.id \in u.gone
          ELSE u.gone = {}
    BY <1>3 DEF PlanKeeps, Titled
  <2>4. PlanKeeps(q)' BY <2>1, <2>2, <2>3 DEF PlanKeeps
  <2> QED BY <1>3, <2>4 DEF Keeps
<1> QED BY <1>1, <1>2, <1>3 DEF Keeps

(* An importer's own step, before it commits.                              *)
LEMMA OwnStepKeeps ==
  ASSUME ImportInv, NEW p \in Importers, NEW u, upload' = [upload EXCEPT ![p] = u],
         UNCHANGED <<itemRows, hourRows, calendarFrom>>, \A q \in Importers \ {p} : others'[q] = others[q],
         RowsInv', Keeps(p)', Fetched(upload[p]),
         u.plan # None => upload[p].plan # None \/ \A q \in Importers : upload[q].plan = None
  PROVE  ImportInv'
<1>1. upload'[p] = u /\ \A q \in Importers \ {p} : upload'[q] = upload[q] BY DEF ImportInv, RowsInv
<1>2. ASSUME NEW q \in Importers \ {p} PROVE Keeps(q)'
  <2>1. ASSUME NEW i \in Beside(q)' PROVE i \in Beside(q) \/ i = nextItem
    <3>1. \A o \in Importers \ {p} : HeldBy(upload[o])' = HeldBy(upload[o]) BY <1>1 DEF HeldBy
    <3>2. \A r \in HeldBy(upload[p])' : r.id = nextItem \/ r.id \in Beside(q)
      BY DEF Fetched, Beside, Ids
    <3>3. \A o \in Importers \ {q} : \A r \in HeldBy(upload[o]) : r.id \in Beside(q) BY DEF Beside, Ids
    <3>4. \A r \in itemRows : r.id \in Beside(q) BY DEF Beside, Ids
    <3>5. \/ \E r \in itemRows : i = r.id
          \/ \E o \in Importers \ {q} : \E r \in HeldBy(upload[o])' : i = r.id
      BY DEF Beside, Ids
    <3> QED BY <3>1, <3>2, <3>3, <3>4, <3>5
  <2>2. RowsInv /\ Keeps(q) BY DEF ImportInv
  <2>3. \A name \in ItemNames \ others'[q] : Titled(name, itemRows') = Titled(name, itemRows) OBVIOUS
  <2>4. others[q] \subseteq others'[q] /\ calendarFrom' = calendarFrom /\ upload'[q] = upload[q] BY <1>1
  <2> QED BY <2>1, <2>2, <2>3, <2>4, BesideKeeps
<1>3. \A q, o \in Importers : upload'[q].plan # None /\ upload'[o].plan # None => q = o
  BY <1>1 DEF ImportInv
<1> QED BY <1>2, <1>3 DEF ImportInv

LEMMA BeginTableKeeps ==
  ASSUME ImportInv, NEW p \in Importers, NEW file \in TableFiles, BeginTable(p, file)
  PROVE  ImportInv'
<1> DEFINE u == upload[p]
           v == [NoUpload EXCEPT !.pc = "find", !.rows = file]
<1>1. /\ upload' = [upload EXCEPT ![p] = v] /\ u.pc = "idle"
      /\ UNCHANGED <<itemRows, hourRows, calendarFrom, nextItem, others>>
  BY DEF BeginTable, BeginUpload
<1>2. /\ DOMAIN v = UploadFields /\ v.pc = "find" /\ v.rows = file /\ v.plan = None /\ v.items = {} /\ v.hours = {}
      /\ v.gone = {} /\ v.calendar = "kept" /\ v.at = 1
  BY DEF NoUpload, UploadFields
<1>3. upload'[p] = v BY <1>1 DEF ImportInv, RowsInv
<1> HIDE DEF v
<1>4. HeldBy(v) = {} BY <1>2 DEF HeldBy
<1>5. RowsInv'
  <2>1. OneEach(v.items) /\ \A h \in v.hours : h.item \in Ids(v.items) BY <1>2 DEF OneEach
  <2>2. nextItem' \in Nat /\ nextItem <= nextItem' /\ DOMAIN others' = Importers
    BY <1>1 DEF ImportInv, RowsInv
  <2>3. RowsInv BY DEF ImportInv
  <2> QED BY <1>1, <1>2, <1>4, <2>1, <2>2, <2>3, HeldGoesOn
<1>6. Fetched(u)
  <2>1. HeldBy(u)' = HeldBy(v) BY <1>3 DEF HeldBy
  <2> QED BY <1>4, <2>1 DEF Fetched
<1>7. \A name : Merged(v, name, itemRows, 0, 0)
  <2>1. \A name : Said(v.rows, name, 0) = {} /\ Titled(name, v.items) = {} BY <1>2 DEF Said, Titled
  <2> QED BY <2>1 DEF Merged
<1>8. Len(file) \in Nat \ {0} BY FilesAre
<1>9. TableKeeps(v, others[p]) BY <1>2, <1>7, <1>8 DEF TableKeeps
<1>10. Keeps(p)' BY <1>1, <1>2, <1>3, <1>9 DEF Keeps, TableKeeps
<1> QED BY <1>1, <1>2, <1>5, <1>6, <1>10, OwnStepKeeps

LEMMA BeginPlanKeeps ==
  ASSUME ImportInv, NEW p \in Importers, NEW file \in PlanFiles, BeginPlan(p, file)
  PROVE  ImportInv'
<1> DEFINE u == upload[p]
           v == [NoUpload EXCEPT !.pc = IF file.replace THEN "clear" ELSE "create", !.plan = file, !.rows = file.rows]
<1>1. /\ upload' = [upload EXCEPT ![p] = v] /\ u.pc = "idle"
      /\ UNCHANGED <<itemRows, hourRows, calendarFrom, nextItem, others>>
      /\ \A q \in Importers : upload[q].plan # None => upload[q].pc = "announce"
  BY DEF BeginPlan, BeginUpload
<1>2. /\ DOMAIN v = UploadFields /\ v.pc = (IF file.replace THEN "clear" ELSE "create") /\ v.rows = file.rows
      /\ v.plan = file /\ v.items = {} /\ v.hours = {} /\ v.ids = <<>>
      /\ v.gone = {} /\ v.calendar = "kept" /\ v.at = 1
  BY DEF NoUpload, UploadFields
<1>3. upload'[p] = v BY <1>1 DEF ImportInv, RowsInv
<1> HIDE DEF v
<1>4. HeldBy(v) = {} BY <1>2 DEF HeldBy
<1>5. RowsInv'
  <2>1. OneEach(v.items) /\ \A h \in v.hours : h.item \in Ids(v.items) BY <1>2 DEF OneEach
  <2>2. nextItem' \in Nat /\ nextItem <= nextItem' /\ DOMAIN others' = Importers
    BY <1>1 DEF ImportInv, RowsInv
  <2>3. RowsInv BY DEF ImportInv
  <2> QED BY <1>1, <1>2, <1>4, <2>1, <2>2, <2>3, HeldGoesOn
<1>6. Fetched(u)
  <2>1. HeldBy(u)' = HeldBy(v) BY <1>3 DEF HeldBy
  <2> QED BY <1>4, <2>1 DEF Fetched
<1>7. file.replace \in BOOLEAN BY ImportConstants
<1>8. Len(file.rows) \in Nat \ {0} /\ file # None BY FilesAre
<1>9. 1..(v.at - 1) = {} BY <1>2
<1>10. Written(v)
  <2>1. v.ids \in Seq(Nat) /\ Len(v.ids) = 0 BY <1>2, EmptySeq
  <2> QED BY <1>2, <1>7, <1>8, <1>9, <2>1 DEF Written
<1>11. (CalendarKeeps(v))' BY <1>1, <1>2, <1>7 DEF CalendarKeeps
<1>12. Written(v)' BY <1>10 DEF Written, ItemAt, HoursAt
<1>13. PlanKeeps(p)' BY <1>2, <1>3, <1>7, <1>9, <1>11, <1>12 DEF PlanKeeps
<1>14. Keeps(p)' BY <1>2, <1>3, <1>8, <1>13 DEF Keeps
<1>15. \A q \in Importers : upload[q].plan = None
  <2>1. \A q \in Importers : Keeps(q) BY DEF ImportInv
  <2> QED BY <1>1, <2>1 DEF Keeps, Resting
<1> QED BY <1>1, <1>5, <1>6, <1>14, <1>15, OwnStepKeeps

(* The statements of a table.                                              *)
LEMMA TableStepKeeps ==
  ASSUME ImportInv, NEW p \in Importers, FindItem(p) \/ SaveItem(p) \/ Allocate(p)
  PROVE  ImportInv'
<1> DEFINE u == upload[p]
<1>1. RowsInv /\ Keeps(p) BY DEF ImportInv
<1>2. u.pc \in {"find", "save", "hours"} BY DEF FindItem, SaveItem, Allocate
<1>3. u.plan = None /\ TableKeeps(u, others[p]) BY <1>1, <1>2 DEF Keeps
<1>4. /\ RowsInv' /\ Fetched(u) /\ upload'[p].pc \in {"find", "save", "hours", "commit"} /\ upload'[p].plan = None
      /\ TableKeeps(u, others[p])'
  BY <1>1, <1>3, FindItemKeeps, SaveItemKeeps, AllocateKeeps
<1>5. Keeps(p)' BY <1>4 DEF Keeps
<1>6. /\ \E v : upload' = [upload EXCEPT ![p] = v]
      /\ UNCHANGED <<itemRows, hourRows, calendarFrom, others>>
  BY DEF FindItem, SaveItem, Allocate, GoesOn
<1>7. PICK v : upload' = [upload EXCEPT ![p] = v] BY <1>6
<1>8. v.plan = None BY <1>1, <1>4, <1>7 DEF RowsInv
<1> QED BY <1>4, <1>5, <1>6, <1>7, <1>8, OwnStepKeeps

(* The statements of a plan.                                               *)
LEMMA ClearPlanKeeps ==
  ASSUME ImportInv, NEW p \in Importers, Clear(p)
  PROVE  ImportInv'
<1> DEFINE u == upload[p]
<1>0. PICK v : v = [u EXCEPT !.pc = "create", !.gone = Ids(itemRows),
                            !.calendar = IF calendarFrom = None THEN "kept" ELSE "removed"]
  OBVIOUS
<1>1. /\ upload' = [upload EXCEPT ![p] = v] /\ u.pc = "clear"
      /\ UNCHANGED <<itemRows, hourRows, calendarFrom, nextItem, others>>
  BY <1>0 DEF Clear, Clears, GoesOn
<1>2. DOMAIN u = UploadFields /\ RowsInv /\ u.plan # None /\ PlanKeeps(p)
  BY <1>1 DEF ImportInv, RowsInv, Keeps
<1>3. Written(u) /\ u.plan.replace /\ u.at = 1 BY <1>1, <1>2 DEF PlanKeeps, Written
<1>4. /\ DOMAIN v = UploadFields /\ v.pc = "create" /\ v.rows = u.rows
      /\ v.plan = u.plan /\ v.items = u.items /\ v.hours = u.hours /\ v.ids = u.ids
      /\ v.gone = Ids(itemRows) /\ v.calendar = (IF calendarFrom = None THEN "kept" ELSE "removed") /\ v.at = 1
  BY <1>0, <1>2, <1>3 DEF UploadFields
<1>5. upload'[p] = v BY <1>1, <1>2 DEF RowsInv
<1>6. HeldBy(v) = u.items BY <1>4 DEF HeldBy
<1>7. 1..(v.at - 1) = {} /\ u.items = {} /\ u.hours = {} BY <1>3, <1>4 DEF Written
<1>8. RowsInv'
  <2>1. OneEach(v.items) /\ \A h \in v.hours : h.item \in Ids(v.items) BY <1>4, <1>7 DEF OneEach
  <2>2. nextItem' \in Nat /\ nextItem <= nextItem' /\ DOMAIN others' = Importers
    BY <1>1, <1>2 DEF RowsInv
  <2>3. \A i \in v.gone : i \in Nat /\ i < nextItem' BY <1>1, <1>2, <1>4 DEF RowsInv, Ids, Known, IsItem
  <2>4. HeldBy(v) = {} /\ DOMAIN v = UploadFields BY <1>4, <1>6, <1>7
  <2>5. RowsInv /\ upload' = [upload EXCEPT ![p] = v] /\ UNCHANGED <<itemRows, hourRows>> BY <1>1, <1>2
  <2> QED BY <2>1, <2>2, <2>3, <2>4, <2>5, HeldGoesOn
<1>9. Fetched(u)
  <2>1. HeldBy(u)' = HeldBy(v) BY <1>5 DEF HeldBy
  <2> QED BY <1>6, <1>7, <2>1 DEF Fetched
<1>10. Written(v)
  <2>1. v.at \in 1..Len(v.rows) BY <1>1, <1>3, <1>4 DEF Written
  <2> QED BY <1>3, <1>4, <1>7, <2>1 DEF Written
<1>11. (CalendarKeeps(v))' BY <1>1, <1>3, <1>4 DEF CalendarKeeps
<1>12. Written(v)' BY <1>10 DEF Written, ItemAt, HoursAt
<1>13. \A r \in itemRows' : r.id \in v.gone BY <1>1, <1>4 DEF Ids
<1>14. PlanKeeps(p)' BY <1>3, <1>4, <1>5, <1>7, <1>11, <1>12, <1>13 DEF PlanKeeps
<1>15. Keeps(p)' BY <1>2, <1>4, <1>5, <1>14 DEF Keeps
<1> QED BY <1>1, <1>2, <1>8, <1>9, <1>15, OwnStepKeeps

LEMMA CalendarRowKeeps ==
  ASSUME ImportInv, NEW p \in Importers, CreateCalendarRow(p)
  PROVE  ImportInv'
<1> DEFINE u == upload[p]
<1>0. PICK v : v = [u EXCEPT !.pc = "commit", !.calendar = IF u.plan.weeks THEN "made" ELSE @] OBVIOUS
<1>1. /\ upload' = [upload EXCEPT ![p] = v] /\ u.pc = "calendar"
      /\ UNCHANGED <<itemRows, hourRows, calendarFrom, nextItem, others>>
  BY <1>0 DEF CreateCalendarRow, GoesOn
<1>2. DOMAIN u = UploadFields /\ RowsInv /\ u.plan # None /\ PlanKeeps(p)
  BY <1>1 DEF ImportInv, RowsInv, Keeps
<1>3. Written(u) BY <1>2 DEF PlanKeeps
<1>4. /\ DOMAIN v = UploadFields /\ v.pc = "commit" /\ v.rows = u.rows
      /\ v.plan = u.plan /\ v.items = u.items /\ v.hours = u.hours /\ v.ids = u.ids
      /\ v.gone = u.gone /\ v.calendar = (IF u.plan.weeks THEN "made" ELSE u.calendar) /\ v.at = u.at
  BY <1>0, <1>2 DEF UploadFields
<1>5. upload'[p] = v BY <1>1, <1>2 DEF RowsInv
<1>6. HeldBy(v) = u.items /\ HeldBy(u) = u.items BY <1>1, <1>4 DEF HeldBy
<1>7. HeldBy(u) \subseteq Known BY DEF Known
<1>8. RowsInv'
  <2>1. OneEach(v.items) /\ \A h \in v.hours : h.item \in Ids(v.items) BY <1>2, <1>4 DEF RowsInv
  <2>2. nextItem' \in Nat /\ nextItem <= nextItem' /\ DOMAIN others' = Importers
    BY <1>1, <1>2 DEF RowsInv
  <2>3. \A i \in v.gone : i \in Nat /\ i < nextItem' BY <1>1, <1>2, <1>4 DEF RowsInv
  <2>4. \A r \in HeldBy(v) : IsItem(r) /\ r.id < nextItem' /\ \A k \in Known : k.id = r.id => k.name = r.name
    BY <1>1, <1>2, <1>6, <1>7 DEF RowsInv
  <2>5. \A a, b \in HeldBy(v) : a.id = b.id => a.name = b.name BY <1>2, <1>6, <1>7 DEF RowsInv
  <2>6. RowsInv /\ upload' = [upload EXCEPT ![p] = v] /\ UNCHANGED <<itemRows, hourRows>> BY <1>1, <1>2
  <2>7. DOMAIN v = UploadFields BY <1>4
  <2> QED BY <2>1, <2>2, <2>3, <2>4, <2>5, <2>6, <2>7, HeldGoesOn
<1>9. Fetched(u)
  <2>1. HeldBy(u)' = HeldBy(v) BY <1>5 DEF HeldBy
  <2> QED BY <1>6, <2>1 DEF Fetched
<1>10. \A i : ItemAt(v, i) = ItemAt(u, i) /\ HoursAt(v, i) = HoursAt(u, i) BY <1>4 DEF ItemAt, HoursAt
<1>11. Written(v) BY <1>1, <1>3, <1>4, <1>10 DEF Written
<1>12. (CalendarKeeps(v))' BY <1>1, <1>2, <1>4 DEF PlanKeeps, CalendarKeeps
<1>13. Written(v)' BY <1>11 DEF Written, ItemAt, HoursAt
<1>14. Beside(p)' = Beside(p)
  <2>1. \A q \in Importers \ {p} : HeldBy(upload[q])' = HeldBy(upload[q])
    BY <1>1, <1>2 DEF HeldBy, RowsInv
  <2> QED BY <1>1, <2>1 DEF Beside, Ids
<1>15. PlanKeeps(p)' BY <1>1, <1>2, <1>4, <1>5, <1>12, <1>13, <1>14 DEF PlanKeeps
<1>16. Keeps(p)' BY <1>2, <1>4, <1>5, <1>15 DEF Keeps
<1> QED BY <1>1, <1>2, <1>8, <1>9, <1>16, OwnStepKeeps

LEMMA CreateItemKeeps ==
  ASSUME ImportInv, NEW p \in Importers, CreateItem(p)
  PROVE  ImportInv'
<1> DEFINE u == upload[p]
           k == u.at
           row == RowAt(p)
           parent == ParentOf(u.rows, k)
<1>a. PICK item : item = [id |-> nextItem, name |-> row.name,
                         parent |-> IF parent = None THEN None ELSE u.ids[parent],
                         subject |-> IF row.kind = "counted" THEN row.name ELSE None]
  OBVIOUS
<1>b. PICK more : more = {[item |-> nextItem, semester |-> s, hours |-> row.hours[s]] : s \in DOMAIN row.hours}
  OBVIOUS
<1>c. PICK v : v = [u EXCEPT !.pc = IF AtLast(p) THEN "calendar" ELSE "create", !.at = @ + 1,
                            !.items = @ \cup {item}, !.hours = @ \cup more, !.ids = Append(@, nextItem)]
  OBVIOUS
<1>1. /\ upload' = [upload EXCEPT ![p] = v] /\ u.pc = "create" /\ nextItem' = nextItem + 1
      /\ UNCHANGED <<itemRows, hourRows, calendarFrom, others>>
  BY <1>a, <1>b, <1>c DEF CreateItem, GoesOn
<1>2. DOMAIN u = UploadFields /\ RowsInv /\ u.plan # None /\ PlanKeeps(p)
  BY <1>1 DEF ImportInv, RowsInv, Keeps
<1>3. Written(u) /\ k \in 1..Len(u.rows) /\ u.plan \in PlanFiles /\ u.rows = u.plan.rows
  BY <1>1, <1>2 DEF PlanKeeps, Written
<1>4. /\ DOMAIN v = UploadFields /\ v.rows = u.rows
      /\ v.pc = (IF AtLast(p) THEN "calendar" ELSE "create")
      /\ v.plan = u.plan /\ v.items = u.items \cup {item} /\ v.hours = u.hours \cup more
      /\ v.ids = Append(u.ids, nextItem)
      /\ v.gone = u.gone /\ v.calendar = u.calendar /\ v.at = k + 1
  BY <1>c, <1>2 DEF UploadFields
<1>5. upload'[p] = v BY <1>1, <1>2 DEF RowsInv
<1>6. HeldBy(v) = u.items \cup {item} /\ HeldBy(u) = u.items BY <1>1, <1>4 DEF HeldBy
<1>7. HeldBy(u) \subseteq Known BY DEF Known
<1>8. nextItem \in Nat /\ \A r \in Known : r.id \in Nat /\ r.id < nextItem BY <1>2 DEF RowsInv, IsItem
<1>9. item.id = nextItem /\ item.name = row.name /\ IsItem(item) BY <1>a, <1>8 DEF IsItem
<1>10. Len(u.rows) \in Nat \ {0} /\ k \in Nat \ {0} /\ v.at - 1 = k
  <2>1. Len(u.rows) \in Nat \ {0} BY <1>3, FilesAre
  <2> QED BY <1>3, <1>4, <2>1
<1>11. u.ids \in Seq(Nat) /\ Len(u.ids) = k - 1 BY <1>3 DEF Written
<1>12. /\ v.ids \in Seq(Nat) /\ Len(v.ids) = k /\ v.ids[k] = nextItem
       /\ \A i \in 1..(k-1) : v.ids[i] = u.ids[i]
  <2> HIDE DEF u, k
  <2>1. Append(u.ids, nextItem) \in Seq(Nat) /\ Len(Append(u.ids, nextItem)) = k
        /\ Append(u.ids, nextItem)[k] = nextItem
        /\ \A i \in 1..(k-1) : Append(u.ids, nextItem)[i] = u.ids[i]
    BY <1>8, <1>10, <1>11, AppendProperties
  <2> QED BY <1>4, <2>1
<1>13. \A i \in 1..k : ParentOf(u.rows, i) \in {None} \cup 1..(i-1)
  <2>1. \A i \in 1..k : i \in 1..Len(u.plan.rows) BY <1>3, <1>10
  <2> QED BY <1>3, <2>1, ParentIs
<1>14. 1..k = 1..(k-1) \cup {k} /\ \A i \in 1..k : \A j \in 1..(i-1) : j \in 1..(k-1) BY <1>10
<1>15. \A i \in 1..(k-1) : ItemAt(v, i) = ItemAt(u, i) /\ HoursAt(v, i) = HoursAt(u, i)
  <2> SUFFICES ASSUME NEW i \in 1..(k-1) PROVE ItemAt(v, i) = ItemAt(u, i) /\ HoursAt(v, i) = HoursAt(u, i)
    OBVIOUS
  <2>1. v.rows = u.rows /\ v.ids[i] = u.ids[i] BY <1>4, <1>12
  <2>2. ParentOf(u.rows, i) = None \/ v.ids[ParentOf(u.rows, i)] = u.ids[ParentOf(u.rows, i)]
    BY <1>12, <1>13, <1>14
  <2> HIDE DEF u
  <2> QED BY <2>1, <2>2 DEF ItemAt, HoursAt
<1>16. ItemAt(v, k) = item /\ HoursAt(v, k) = more
  <2>1. v.rows = u.rows /\ v.ids[k] = nextItem /\ row = u.rows[k] BY <1>4, <1>12 DEF RowAt
  <2>2. parent = None \/ v.ids[parent] = u.ids[parent] BY <1>10, <1>12, <1>13
  <2>3. parent = ParentOf(v.rows, k) BY <2>1
  <2> HIDE DEF row, parent, u, k
  <2>4. ItemAt(v, k) = [id |-> nextItem, name |-> row.name,
                        parent |-> IF parent = None THEN None ELSE v.ids[parent],
                        subject |-> IF row.kind = "counted" THEN row.name ELSE None]
    BY <2>1, <2>3 DEF ItemAt
  <2>5. HoursAt(v, k) = more BY <1>b, <2>1 DEF HoursAt
  <2>6. (IF parent = None THEN None ELSE v.ids[parent]) = IF parent = None THEN None ELSE u.ids[parent]
    BY <2>2
  <2> QED BY <1>a, <2>4, <2>5, <2>6
<1>17. ASSUME NEW i \in 1..(k-1) PROVE u.ids[i] \in Nat /\ u.ids[i] < nextItem
  <2>1. ItemAt(u, i) \in Known /\ ItemAt(u, i).id = u.ids[i]
    BY <1>3, <1>6, <1>7 DEF Written, ItemAt
  <2> QED BY <1>8, <2>1
<1>18. Written(v)
  <2>1. IF v.pc = "create" THEN v.at \in 1..Len(v.rows) ELSE v.at = Len(v.rows) + 1
    <3>1. AtLast(p) <=> k = Len(u.rows) BY DEF AtLast
    <3> HIDE DEF u, k
    <3> QED BY <1>3, <1>4, <1>10, <3>1
  <2>2. \A i, j \in 1..k : v.ids[i] = v.ids[j] => i = j
    <3>1. \A i, j \in 1..(k-1) : u.ids[i] = u.ids[j] => i = j BY <1>3 DEF Written
    <3> HIDE DEF u, k
    <3>2. ASSUME NEW i \in 1..(k-1) PROVE v.ids[i] # v.ids[k]
      <4>1. u.ids[i] \in Nat /\ u.ids[i] < nextItem BY <1>17
      <4>2. u.ids[i] # nextItem BY <1>8, <4>1
      <4> QED BY <1>12, <4>2
    <3> QED BY <1>12, <1>14, <3>1, <3>2
  <2>3. v.items = {ItemAt(v, i) : i \in 1..k}
    <3>1. u.items = {ItemAt(u, i) : i \in 1..(k-1)} BY <1>3 DEF Written
    <3> HIDE DEF u, k
    <3> QED BY <1>4, <1>14, <1>15, <1>16, <3>1
  <2>4. v.hours = UNION {HoursAt(v, i) : i \in 1..k}
    <3>1. u.hours = UNION {HoursAt(u, i) : i \in 1..(k-1)} BY <1>3 DEF Written
    <3> HIDE DEF u, k
    <3>2. \A i \in 1..k : HoursAt(v, i) = IF i = k THEN more ELSE HoursAt(u, i) BY <1>14, <1>15, <1>16
    <3>3. \A h : h \in v.hours <=> \E i \in 1..k : h \in HoursAt(v, i)
      <4>1. \A h : h \in v.hours <=> h \in more \/ \E i \in 1..(k-1) : h \in HoursAt(u, i) BY <1>4, <3>1
      <4>2. k \in 1..k /\ k \notin 1..(k-1) BY <1>10
      <4> QED BY <1>14, <1>15, <1>16, <4>1, <4>2
    <3> QED BY <3>3
  <2>5. v.pc # "clear" /\ v.plan \in PlanFiles /\ v.rows = v.plan.rows BY <1>3, <1>4
  <2>6. v.pc \in {"clear", "create"} <=> v.pc = "create" BY <2>5
  <2> QED BY <1>10, <1>12, <2>1, <2>2, <2>3, <2>4, <2>5, <2>6 DEF Written
<1>19. RowsInv'
  <2>1. OneEach(v.items)
    BY <1>2, <1>4, <1>6, <1>7, <1>8, <1>9 DEF RowsInv, OneEach
  <2>2. \A h \in v.hours : h.item \in Ids(v.items)
    <3>1. \A h \in more : h.item = item.id BY <1>b, <1>9
    <3>2. \A h \in u.hours : h.item \in Ids(u.items) BY <1>2 DEF RowsInv
    <3> HIDE DEF u
    <3> QED BY <1>4, <3>1, <3>2 DEF Ids
  <2>3. nextItem' \in Nat /\ nextItem <= nextItem' /\ DOMAIN others' = Importers
    BY <1>1, <1>2 DEF RowsInv
  <2>4. \A i \in v.gone : i \in Nat /\ i < nextItem' BY <1>1, <1>2, <1>4 DEF RowsInv
  <2>5. \A r \in HeldBy(v) : IsItem(r) /\ r.id < nextItem' /\ \A o \in Known : o.id = r.id => o.name = r.name
    BY <1>1, <1>2, <1>6, <1>7, <1>8, <1>9 DEF RowsInv
  <2>6. \A a, b \in HeldBy(v) : a.id = b.id => a.name = b.name
    BY <1>2, <1>6, <1>7, <1>8, <1>9 DEF RowsInv
  <2>7. RowsInv /\ upload' = [upload EXCEPT ![p] = v] /\ UNCHANGED <<itemRows, hourRows>> BY <1>1, <1>2
  <2>8. DOMAIN v = UploadFields BY <1>4
  <2> QED BY <2>1, <2>2, <2>3, <2>4, <2>5, <2>6, <2>7, <2>8, HeldGoesOn
<1>20. Fetched(u)
  <2>1. HeldBy(u)' = HeldBy(v) BY <1>5 DEF HeldBy
  <2> QED BY <1>6, <1>9, <2>1 DEF Fetched
<1>21. CalendarKeeps(v)' BY <1>1, <1>2, <1>4 DEF PlanKeeps, CalendarKeeps
<1>22. Written(v)' BY <1>18 DEF Written, ItemAt, HoursAt
<1>23. ASSUME NEW i \in 1..k PROVE v.ids[i] \notin Beside(p)' \cup v.gone
  <2>1. Beside(p)' = Beside(p)
    <3>1. \A q \in Importers \ {p} : HeldBy(upload[q])' = HeldBy(upload[q])
      BY <1>1, <1>2 DEF HeldBy, RowsInv
    <3> QED BY <1>1, <3>1 DEF Beside, Ids
  <2>2. nextItem \notin Beside(p)
    <3>1. \A r \in Known : r.id # nextItem BY <1>8
    <3> QED BY <3>1 DEF Beside, Ids, Known
  <2>3. nextItem \notin u.gone
    <3>1. \A j \in u.gone : j \in Nat /\ j < nextItem BY <1>2 DEF RowsInv
    <3> QED BY <1>8, <3>1
  <2>4. \A j \in 1..(k-1) : u.ids[j] \notin Beside(p) \cup u.gone BY <1>2 DEF PlanKeeps
  <2> HIDE DEF u, k
  <2> QED BY <1>4, <1>12, <1>14, <2>1, <2>2, <2>3, <2>4
<1>24. PlanKeeps(p)' BY <1>1, <1>2, <1>4, <1>5, <1>10, <1>21, <1>22, <1>23 DEF PlanKeeps
<1>25. Keeps(p)' BY <1>2, <1>4, <1>5, <1>24 DEF Keeps
<1> QED BY <1>1, <1>2, <1>19, <1>20, <1>25, OwnStepKeeps

LEMMA EndImportKeeps ==
  ASSUME ImportInv, NEW p \in Importers, AbortImport(p) \/ AnnounceImport(p)
  PROVE  ImportInv'
<1>1. /\ upload' = [upload EXCEPT ![p] = NoUpload]
      /\ UNCHANGED <<itemRows, hourRows, calendarFrom, nextItem>>
      /\ others' = [others EXCEPT ![p] = {}] \/ UNCHANGED others
  BY DEF AbortImport, AnnounceImport
<1>2. RowsInv BY DEF ImportInv
<1>3. upload'[p] = NoUpload /\ DOMAIN others' = Importers /\ \A q \in Importers \ {p} : others'[q] = others[q]
  BY <1>1, <1>2 DEF RowsInv
<1>4. /\ HeldBy(NoUpload) = {} /\ NoUpload.items = {} /\ NoUpload.hours = {} /\ NoUpload.gone = {}
      /\ DOMAIN NoUpload = UploadFields /\ NoUpload.plan = None /\ NoUpload.calendar = "kept" /\ NoUpload.pc = "idle"
  BY DEF HeldBy, NoUpload, UploadFields
<1>5. RowsInv'
  <2>1. OneEach(NoUpload.items) BY <1>4 DEF OneEach
  <2>2. nextItem' \in Nat /\ nextItem <= nextItem' BY <1>1, <1>2 DEF RowsInv
  <2> QED BY <1>1, <1>2, <1>3, <1>4, <2>1, <2>2, HeldGoesOn
<1>6. Fetched(upload[p])
  <2>1. HeldBy(upload[p])' = HeldBy(NoUpload) BY <1>3 DEF HeldBy, NoUpload
  <2> QED BY <1>4, <2>1 DEF Fetched
<1>7. Keeps(p)' BY <1>3, <1>4 DEF Keeps, Resting
<1> QED BY <1>1, <1>3, <1>4, <1>5, <1>6, <1>7, OwnStepKeeps

(* A commit, by whomever: the others have noted the names it changes.      *)
LEMMA NotedKeeps ==
  ASSUME ImportInv, RowsInv', NEW names, NEW but, NEW q \in Importers, q # but, upload'[q] = upload[q],
         NoteOthers(names, but),
         \A name \in ItemNames \ names : Titled(name, itemRows') = Titled(name, itemRows),
         \A i \in Beside(q)' : i \in Beside(q) \/ i = nextItem,
         upload[q].plan # None => calendarFrom' = calendarFrom
  PROVE  Keeps(q)'
<1>1. RowsInv /\ Keeps(q) BY DEF ImportInv
<1>2. upload[q].pc # "idle" => others'[q] = others[q] \cup names BY DEF NoteOthers
<1>3. upload[q].pc \notin {"idle", "announce"} =>
        /\ others[q] \subseteq others'[q]
        /\ \A name \in ItemNames \ others'[q] : Titled(name, itemRows') = Titled(name, itemRows)
  BY <1>2
<1> QED BY <1>1, <1>3, BesideKeeps

LEMMA CommitImportKeeps ==
  ASSUME ImportInv, NEW p \in Importers, CommitImport(p)
  PROVE  ImportInv'
<1> DEFINE u == upload[p]
           v == [NoUpload EXCEPT !.pc = "announce"]
           names == {r.name : r \in u.items} \cup NamesOf(u.gone)
<1>1. /\ upload' = [upload EXCEPT ![p] = v] /\ u.pc = "commit" /\ NoteOthers(names, p)
      /\ itemRows' = ItemsSeen(p) /\ hourRows' = HoursSeen(p) /\ UNCHANGED nextItem
      /\ u.calendar = "kept" => calendarFrom' = calendarFrom
  BY DEF CommitImport
<1>2. RowsInv /\ Keeps(p) BY DEF ImportInv
<1>3. upload'[p] = v /\ DOMAIN upload' = Importers /\ \A q \in Importers \ {p} : upload'[q] = upload[q]
  BY <1>1, <1>2 DEF RowsInv
<1>4. /\ DOMAIN v = UploadFields /\ v.pc = "announce" /\ v.plan = None /\ v.items = {} /\ v.hours = {} /\ v.gone = {}
      /\ v.calendar = "kept"
  BY DEF NoUpload, UploadFields
<1> HIDE DEF v
<1>5. HeldBy(v) = {} BY <1>4 DEF HeldBy
<1>6. ItemsSeen(p) \subseteq Known /\ OneEach(ItemsSeen(p)) /\ \A h \in HoursSeen(p) : h.item \in Ids(ItemsSeen(p))
  BY <1>2, SeenRows
<1>7. RowsInv'
  <2>1. DOMAIN others' = Importers BY <1>1 DEF NoteOthers
  <2>2. nextItem' \in Nat /\ nextItem <= nextItem' BY <1>1, <1>2 DEF RowsInv
  <2>3. \A r \in itemRows' : \E k \in Known : k.id = r.id /\ k.name = r.name /\ IsItem(r)
    BY <1>1, <1>2, <1>6 DEF RowsInv
  <2>4. OneEach(itemRows') /\ \A h \in hourRows' : h.item \in Ids(itemRows') BY <1>1, <1>6
  <2>5. \A q \in Importers :
           \/ upload'[q] = upload[q]
           \/ /\ DOMAIN upload'[q] = UploadFields /\ HeldBy(upload'[q]) = {} /\ upload'[q].items = {}
              /\ upload'[q].hours = {} /\ upload'[q].gone = {}
    BY <1>3, <1>4, <1>5
  <2>6. DOMAIN upload' = Importers BY <1>3
  <2> QED BY <1>2, <2>1, <2>2, <2>3, <2>4, <2>5, <2>6, TableChanges
<1>8. ASSUME NEW name \in ItemNames \ names PROVE Titled(name, itemRows') = Titled(name, itemRows)
  <2>1. \A r \in itemRows : r.name = name => r.id \notin u.gone BY DEF NamesOf
  <2>2. \A r \in u.items : r.name # name OBVIOUS
  <2>3. \A r \in itemRows, m \in u.items : r.id = m.id => r.name = m.name
    BY <1>2 DEF RowsInv, Known, HeldBy
  <2>4. \A r \in itemRows : r.name = name => r.id \notin Ids(u.items) BY <2>2, <2>3 DEF Ids
  <2> QED BY <1>1, <2>1, <2>2, <2>4 DEF ItemsSeen, Titled
<1>9. ASSUME NEW q \in Importers \ {p} PROVE Keeps(q)'
  <2>1. \A i \in Beside(q)' : i \in Beside(q) \/ i = nextItem
    <3>1. \A o \in Importers \ {p} : HeldBy(upload[o])' = HeldBy(upload[o]) BY <1>3 DEF HeldBy
    <3>2. HeldBy(upload[p])' = {} BY <1>3, <1>5 DEF HeldBy
    <3>3. \A r \in ItemsSeen(p) : r.id \in Beside(q) BY DEF ItemsSeen, Beside, HeldBy, Ids
    <3>4. \A o \in Importers \ {q} : \A r \in HeldBy(upload[o]) : r.id \in Beside(q) BY DEF Beside, Ids
    <3>5. \A i \in Beside(q)' : \/ \E r \in ItemsSeen(p) : i = r.id
                                \/ \E o \in Importers \ {q} : \E r \in HeldBy(upload[o])' : i = r.id
      BY <1>1 DEF Beside, Ids
    <3> QED BY <3>1, <3>2, <3>3, <3>4, <3>5
  <2>2. upload[q].plan # None => calendarFrom' = calendarFrom
    <3>1. SUFFICES ASSUME upload[q].plan # None PROVE u.calendar = "kept" BY <1>1
    <3>2. u.plan = None BY <3>1 DEF ImportInv
    <3> QED BY <1>1, <1>2, <3>2 DEF Keeps, TableKeeps
  <2>3. upload'[q] = upload[q] /\ q # p BY <1>3
  <2> HIDE DEF names
  <2> QED BY <1>1, <1>7, <1>8, <2>1, <2>2, <2>3, NotedKeeps
<1>10. Keeps(p)' BY <1>3, <1>4 DEF Keeps, Resting
<1>11. \A q, o \in Importers : upload'[q].plan # None /\ upload'[o].plan # None => q = o
  BY <1>3, <1>4 DEF ImportInv
<1> QED BY <1>7, <1>9, <1>10, <1>11 DEF ImportInv

(* An editor changes the rows of some names, and no upload.                *)
LEMMA EditingKeeps ==
  ASSUME ImportInv, NEW items, NEW hours, NEW names, Edits(items, hours, names),
         nextItem' \in Nat, nextItem <= nextItem',
         \A r \in items :
           \/ \E k \in itemRows : k.id = r.id /\ k.name = r.name /\ IsItem(r)
           \/ IsItem(r) /\ r.id = nextItem /\ r.id < nextItem',
         OneEach(items), \A h \in hours : h.item \in Ids(items),
         \A name \in ItemNames \ names : Titled(name, items) = Titled(name, itemRows)
  PROVE  ImportInv'
<1>1. itemRows' = items /\ hourRows' = hours /\ UNCHANGED <<calendarFrom, upload>> /\ NoteOthers(names, None)
  BY DEF Edits
<1>2. RowsInv BY DEF ImportInv
<1>3. RowsInv'
  <2>1. DOMAIN others' = Importers /\ DOMAIN upload' = Importers BY <1>1, <1>2 DEF NoteOthers, RowsInv
  <2>2. \A r \in itemRows' :
           \/ \E k \in Known : k.id = r.id /\ k.name = r.name /\ IsItem(r)
           \/ IsItem(r) /\ r.id = nextItem /\ r.id < nextItem'
    BY <1>1 DEF Known
  <2>3. \A q \in Importers : upload'[q] = upload[q] BY <1>1
  <2>4. OneEach(itemRows') /\ \A h \in hourRows' : h.item \in Ids(itemRows') BY <1>1
  <2> QED BY <1>2, <2>1, <2>2, <2>3, <2>4, TableChanges
<1>4. ASSUME NEW q \in Importers PROVE Keeps(q)'
  <2>1. ASSUME NEW i \in Beside(q)' PROVE i \in Beside(q) \/ i = nextItem
    <3>1. UNION {Ids(HeldBy(upload[o])) : o \in Importers \ {q}}' = UNION {Ids(HeldBy(upload[o])) : o \in Importers \ {q}}
      BY <1>1 DEF HeldBy, Ids
    <3>2. \A r \in items : r.id \in Beside(q) \/ r.id = nextItem BY DEF Beside, Ids
    <3> QED BY <1>1, <2>1, <3>1, <3>2 DEF Beside, Ids
  <2>2. q # None BY ImportConstants
  <2> QED BY <1>1, <1>3, <2>1, <2>2, NotedKeeps
<1>5. \A q, o \in Importers : upload'[q].plan # None /\ upload'[o].plan # None => q = o
  BY <1>1 DEF ImportInv
<1> QED BY <1>3, <1>4, <1>5 DEF ImportInv

LEMMA EditorsKeep ==
  ASSUME ImportInv,
         \/ \E name \in ItemNames, parent \in Ids(itemRows) \cup {None} : AddItem(name, parent)
         \/ \E r \in itemRows : DropItem(r) \/ \E s \in 1..2, n \in EditorHours : SetHours(r, s, n)
  PROVE  ImportInv'
<1>1. /\ nextItem \in Nat /\ OneEach(itemRows) /\ \A h \in hourRows : h.item \in Ids(itemRows)
      /\ \A r \in itemRows : IsItem(r) /\ r.id \in Nat /\ r.id < nextItem
  BY DEF ImportInv, RowsInv, Known, IsItem
<1>2. ASSUME NEW name \in ItemNames, NEW parent, AddItem(name, parent) PROVE ImportInv'
  <2> DEFINE new == [id |-> nextItem, name |-> name, parent |-> parent, subject |-> None]
             items == itemRows \cup {new}
  <2>1. Edits(items, hourRows, {name}) /\ nextItem' = nextItem + 1 BY <1>2 DEF AddItem
  <2>2. IsItem(new) /\ new.id = nextItem /\ new.name = name BY <1>1 DEF IsItem
  <2> HIDE DEF new
  <2>3. nextItem' \in Nat /\ nextItem <= nextItem' /\ nextItem < nextItem' BY <1>1, <2>1
  <2>4. OneEach(items)
    <3>1. \A r \in itemRows : r.id # nextItem BY <1>1
    <3> QED BY <1>1, <2>2, <3>1 DEF OneEach
  <2>5. \A h \in hourRows : h.item \in Ids(items) BY <1>1 DEF Ids
  <2>6. \A o \in ItemNames \ {name} : Titled(o, items) = Titled(o, itemRows) BY <2>2 DEF Titled
  <2>7. \A r \in items :
           \/ \E k \in itemRows : k.id = r.id /\ k.name = r.name /\ IsItem(r)
           \/ IsItem(r) /\ r.id = nextItem /\ r.id < nextItem'
    BY <1>1, <2>2, <2>3
  <2> HIDE DEF items
  <2> QED BY <2>1, <2>3, <2>4, <2>5, <2>6, <2>7, EditingKeeps
<1>3. ASSUME NEW r \in itemRows, DropItem(r) PROVE ImportInv'
  <2> DEFINE kept(o) == [o EXCEPT !.parent = IF @ = r.id THEN None ELSE @]
             items == {kept(o) : o \in itemRows \ {r}}
             hours == {h \in hourRows : h.item # r.id}
             names == NamesOf({r.id})
  <2>1. Edits(items, hours, names) /\ nextItem' = nextItem BY <1>3 DEF DropItem
  <2>2. \A o \in itemRows : /\ IsItem(kept(o)) /\ kept(o).id = o.id /\ kept(o).name = o.name
                            /\ o.parent # r.id => kept(o) = o
    BY <1>1 DEF IsItem
  <2>3. \A o \in itemRows : o.parent = r.id \/ o.id = r.id => o.name \in names BY DEF NamesOf
  <2> HIDE DEF kept, names
  <2>4. nextItem' \in Nat /\ nextItem <= nextItem' BY <1>1, <2>1
  <2>5. OneEach(items) BY <1>1, <2>2 DEF OneEach
  <2>6. \A h \in hours : h.item \in Ids(items)
    <3> SUFFICES ASSUME NEW h \in hours PROVE h.item \in Ids(items) OBVIOUS
    <3>1. PICK o \in itemRows : h.item = o.id BY <1>1 DEF Ids
    <3>2. o # r BY <3>1
    <3>3. kept(o) \in items BY <3>2
    <3> HIDE DEF items
    <3> QED BY <2>2, <3>1, <3>3 DEF Ids
  <2>7. ASSUME NEW name \in ItemNames \ names PROVE Titled(name, items) = Titled(name, itemRows)
    <3>1. \A o \in itemRows : o.name = name => o # r /\ kept(o) = o BY <2>2, <2>3
    <3> QED BY <2>2, <3>1 DEF Titled
  <2>8. \A x \in items : \E k \in itemRows : k.id = x.id /\ k.name = x.name /\ IsItem(x) BY <2>2
  <2> HIDE DEF items, hours
  <2> QED BY <2>1, <2>4, <2>5, <2>6, <2>7, <2>8, EditingKeeps
<1>4. ASSUME NEW r \in itemRows, NEW s, NEW n, SetHours(r, s, n) PROVE ImportInv'
  <2> DEFINE new == [item |-> r.id, semester |-> s, hours |-> n]
             hours == Put({new}, hourRows)
  <2>1. Edits(itemRows, hours, {r.name}) /\ nextItem' = nextItem BY <1>4 DEF SetHours
  <2>2. \A h \in hours : h.item \in Ids(itemRows)
    <3>1. \A h \in hours : h \in hourRows \/ h.item = r.id BY DEF Put
    <3> HIDE DEF hours
    <3> QED BY <1>1, <3>1 DEF Ids
  <2> HIDE DEF hours
  <2> QED BY <1>1, <2>1, <2>2, EditingKeeps
<1> QED BY <1>2, <1>3, <1>4

(* The inductive invariant of the imports: for every name that nobody else *)
(* has changed, an upload has written what its rows so far ask for         *)
(* (Imports: the loops of importCurriculumItems and importPLXCurriculum).  *)
THEOREM ImportInvariant == ImportSpec => []ImportInv
<1>1. ImportInit => ImportInv
  <2> SUFFICES ASSUME ImportInit PROVE ImportInv OBVIOUS
  <2>1. RowsInv BY RowsStart
  <2>2. upload = [p \in Importers |-> NoUpload] BY DEF ImportInit
  <2>3. \A p \in Importers : upload[p].pc = "idle" /\ upload[p].plan = None /\ Resting(upload[p])
    BY <2>2 DEF Resting, NoUpload
  <2> QED BY <2>1, <2>3 DEF ImportInv, Keeps
<1>2. ImportInv /\ [ImportNext]_importVars => ImportInv'
  <2> SUFFICES ASSUME ImportInv, [ImportNext]_importVars PROVE ImportInv' OBVIOUS
  <2>1. CASE UNCHANGED importVars
    <3>1. UNCHANGED <<itemRows, hourRows, calendarFrom, nextItem, upload, others>>
      BY <2>1 DEF importVars
    <3>2. RowsInv' BY <3>1 DEF ImportInv, RowsInv, Known, HeldBy, Ids
    <3>3. \A p \in Importers : Keeps(p)' = Keeps(p)
      BY <3>1 DEF Keeps, Resting, TableKeeps, Merged, From, PlanKeeps, Written, ItemAt, HoursAt, CalendarKeeps,
                  Beside, HeldBy, Ids
    <3> QED BY <3>1, <3>2, <3>3 DEF ImportInv
  <2>2. CASE \E p \in Importers :
               \/ \E file \in TableFiles : BeginTable(p, file)
               \/ FindItem(p) \/ SaveItem(p) \/ Allocate(p)
               \/ \E file \in PlanFiles : BeginPlan(p, file)
               \/ Clear(p) \/ CreateItem(p) \/ CreateCalendarRow(p)
               \/ CommitImport(p) \/ AbortImport(p) \/ AnnounceImport(p)
    BY <2>2, BeginTableKeeps, TableStepKeeps, BeginPlanKeeps, ClearPlanKeeps, CreateItemKeeps, CalendarRowKeeps,
       CommitImportKeeps, EndImportKeeps
  <2>3. CASE \/ \E name \in ItemNames, parent \in Ids(itemRows) \cup {None} : AddItem(name, parent)
             \/ \E r \in itemRows : DropItem(r) \/ \E s \in 1..2, n \in EditorHours : SetHours(r, s, n)
    BY <2>3, EditorsKeep
  <2> QED BY <2>1, <2>2, <2>3 DEF ImportNext
<1> QED BY <1>1, <1>2, PTL DEF ImportSpec

-----------------------------------------------------------------------------
(* Only a commit takes an upload from "commit" to "announce".              *)
LEMMA OnlyCommits ==
  ASSUME ImportInv, [ImportNext]_importVars, NEW p \in Importers,
         upload[p].pc = "commit", upload'[p].pc = "announce"
  PROVE  CommitImport(p)
<1>1. DOMAIN upload = Importers /\ DOMAIN upload[p] = UploadFields BY DEF ImportInv, RowsInv
<1>2. upload'[p] # upload[p]
  <2>1. upload'[p].pc # upload[p].pc OBVIOUS
  <2> QED BY <2>1
<1>3. ~UNCHANGED upload BY <1>2
<1>4. ~UNCHANGED importVars BY <1>3 DEF importVars
<1>5. ASSUME NEW q \in Importers, q # p, NEW v, upload' = [upload EXCEPT ![q] = v] PROVE FALSE
  BY <1>2, <1>5
<1>6. NoUpload.pc = "idle" BY DEF NoUpload
<1>7. ASSUME upload' = [upload EXCEPT ![p] = NoUpload] PROVE FALSE BY <1>1, <1>6, <1>7
<1>8. ~(\/ \E name \in ItemNames, parent \in Ids(itemRows) \cup {None} : AddItem(name, parent)
        \/ \E r \in itemRows : DropItem(r) \/ \E s \in 1..2, n \in EditorHours : SetHours(r, s, n))
  BY <1>3 DEF AddItem, DropItem, SetHours, Edits
<1>9. PICK q \in Importers :
               \/ \E file \in TableFiles : BeginTable(q, file)
               \/ FindItem(q) \/ SaveItem(q) \/ Allocate(q)
               \/ \E file \in PlanFiles : BeginPlan(q, file)
               \/ Clear(q) \/ CreateItem(q) \/ CreateCalendarRow(q)
               \/ CommitImport(q) \/ AbortImport(q) \/ AnnounceImport(q)
  BY <1>4, <1>8 DEF ImportNext
<1>10. q = p
  <2>1. \A v : BeginUpload(q, v) \/ GoesOn(q, v) => upload' = [upload EXCEPT ![q] = v]
    BY DEF BeginUpload, GoesOn
  <2>2. (\E file : BeginTable(q, file) \/ BeginPlan(q, file)) => \E v : BeginUpload(q, v)
    BY DEF BeginTable, BeginPlan
  <2>3. FindItem(q) => \E v : GoesOn(q, v) BY DEF FindItem
  <2>4. SaveItem(q) \/ Allocate(q) => \E v : GoesOn(q, v) BY DEF SaveItem, Allocate
  <2>5. Clear(q) \/ CreateItem(q) \/ CreateCalendarRow(q) => \E v : GoesOn(q, v)
    BY DEF Clear, Clears, CreateItem, CreateCalendarRow
  <2>6. CommitImport(q) \/ AbortImport(q) \/ AnnounceImport(q) => \E v : upload' = [upload EXCEPT ![q] = v]
    BY DEF CommitImport, AbortImport, AnnounceImport
  <2> QED BY <1>5, <1>9, <2>1, <2>2, <2>3, <2>4, <2>5, <2>6
<1>11. ~\E file : BeginTable(p, file) \/ BeginPlan(p, file) BY DEF BeginTable, BeginPlan, BeginUpload
<1>12. ~(FindItem(p) \/ SaveItem(p) \/ Allocate(p) \/ Clear(p) \/ CreateItem(p) \/ CreateCalendarRow(p))
  BY DEF FindItem, SaveItem, Allocate, Clear, Clears, CreateItem, CreateCalendarRow
<1>13. ~AbortImport(p) /\ ~AnnounceImport(p) BY <1>7 DEF AbortImport, AnnounceImport
<1> QED BY <1>9, <1>10, <1>11, <1>12, <1>13

(* The hours of an item after an upsert of many.                           *)
LEMMA PutOver ==
  ASSUME NEW new, NEW table, NEW id
  PROVE  HoursOf(id, Put(new, table)) =
           {x \in HoursOf(id, table) : x[1] \notin {y[1] : y \in HoursOf(id, new)}} \cup HoursOf(id, new)
<1>1. \A x, T : x \in HoursOf(id, T) <=> \E h \in T : h.item = id /\ x = <<h.semester, h.hours>>
  BY DEF HoursOf
<1>2. \A h : h \in Put(new, table) <=>
               \/ h \in new
               \/ h \in table /\ \A k \in new : ~(h.item = k.item /\ h.semester = k.semester)
  BY DEF Put, SameKey
<1>3. \A s : s \in {y[1] : y \in HoursOf(id, new)} <=> \E k \in new : k.item = id /\ k.semester = s
  <2>1. \A k : <<k.semester, k.hours>>[1] = k.semester OBVIOUS
  <2>2. ASSUME NEW k \in new, k.item = id PROVE k.semester \in {y[1] : y \in HoursOf(id, new)}
    <3>1. <<k.semester, k.hours>> \in HoursOf(id, new) BY <1>1, <2>2
    <3> QED BY <2>1, <3>1
  <2>3. ASSUME NEW y \in HoursOf(id, new) PROVE \E k \in new : k.item = id /\ k.semester = y[1]
    BY <1>1, <2>1
  <2> QED BY <2>2, <2>3
<1>4. ASSUME NEW x
      PROVE  x \in HoursOf(id, Put(new, table)) <=>
               \/ x \in HoursOf(id, new)
               \/ x \in HoursOf(id, table) /\ x[1] \notin {y[1] : y \in HoursOf(id, new)}
  <2>1. ASSUME NEW h \in Put(new, table), h.item = id, x = <<h.semester, h.hours>>, h \notin new
        PROVE  x \in HoursOf(id, table) /\ x[1] \notin {y[1] : y \in HoursOf(id, new)}
    <3>1. x[1] = h.semester BY <2>1
    <3> QED BY <1>1, <1>2, <1>3, <2>1, <3>1
  <2>2. ASSUME NEW h \in table, h.item = id, x = <<h.semester, h.hours>>,
               x[1] \notin {y[1] : y \in HoursOf(id, new)}
        PROVE  x \in HoursOf(id, Put(new, table))
    <3>1. x[1] = h.semester BY <2>2
    <3>2. h \in Put(new, table) BY <1>2, <1>3, <2>2, <3>1
    <3> QED BY <1>1, <2>2, <3>2
  <2>3. x \in HoursOf(id, new) => x \in HoursOf(id, Put(new, table)) BY <1>1, <1>2
  <2> QED BY <1>1, <2>1, <2>2, <2>3
<1> QED BY <1>4

(* At the commit of a table the oldest item of a name is the one it wrote. *)
LEMMA CommitMerges ==
  ASSUME ImportInv, NEW p \in Importers, CommitImport(p), upload[p].plan = None, NEW name \in ItemNames \ others[p]
  PROVE  Merges(p, name)
<1> DEFINE u == upload[p]
           rows == u.rows
           told == {i \in DOMAIN rows : rows[i].name = name}
           said == {rows[i].semester : i \in told}
           mine == Titled(name, u.items)
           old == Titled(name, itemRows)
           new == Titled(name, itemRows')
           item == Oldest(new)
           was == IF old = {} THEN [item EXCEPT !.parent = None] ELSE Oldest(old)
           merged == IF told = {} THEN {} ELSE {was}
<1>1. RowsInv /\ u.pc = "commit" /\ TableKeeps(u, others[p]) BY DEF ImportInv, Keeps, CommitImport
<1>2. /\ rows \in TableFiles /\ u.gone = {} /\ u.at = Len(rows) + 1
      /\ Merged(u, name, itemRows, u.at - 1, u.at - 1)
  BY <1>1 DEF TableKeeps
<1>3. u.at - 1 = Len(rows) /\ told = Said(rows, name, Len(rows))
  <2>1. Len(rows) \in Nat /\ DOMAIN rows = 1..Len(rows) BY <1>2, FilesAre
  <2>2. u.at - 1 = Len(rows) BY <1>2, <2>1
  <2> QED BY <2>1, <2>2 DEF Said
<1>4. /\ told = {} => mine = {}
      /\ told # {} => \E w : mine = {w} /\ From(w, itemRows) /\ w.subject = rows[Max(told)].subject
      /\ \A w \in mine : HoursOf(w.id, u.hours) = Told(rows, told)
  <2> HIDE DEF told, mine
  <2> QED BY <1>2, <1>3 DEF Merged, mine
<1>5. itemRows' = ItemsSeen(p) /\ new = Titled(name, ItemsSeen(p)) BY DEF CommitImport
<1>6. /\ new = {r \in old : r.id \notin Ids(mine)} \cup mine
      /\ \A r \in old : r.id \in Ids(u.items) => r.id \in Ids(mine)
  BY <1>1, <1>2, <1>5, SeenTitled
<1>7. \A id : HoursOf(id, hourRows') =
         {x \in HoursOf(id, hourRows) : x[1] \notin {y[1] : y \in HoursOf(id, u.hours)}} \cup HoursOf(id, u.hours)
  <2>1. {h \in hourRows : h.item \notin u.gone} = hourRows BY <1>2
  <2>2. hourRows' = Put(u.hours, hourRows) BY <2>1 DEF CommitImport, HoursSeen
  <2> HIDE DEF u
  <2> QED BY <2>2, PutOver
<1>8. OneEach(old) /\ \A r \in old : r.id \in Nat /\ IsItem(r)
  BY <1>1 DEF OneEach, Titled, RowsInv, IsItem, Known
<1>9. \A r \in old : r.id \notin Ids(mine) => HoursOf(r.id, hourRows') = HoursOf(r.id, hourRows)
  <2> SUFFICES ASSUME NEW r \in old, r.id \notin Ids(mine)
               PROVE  HoursOf(r.id, hourRows') = HoursOf(r.id, hourRows)
    OBVIOUS
  <2>1. \A h \in u.hours : h.item \in Ids(u.items) BY <1>1 DEF RowsInv
  <2>2. r.id \notin Ids(u.items) BY <1>6
  <2>3. HoursOf(r.id, u.hours) = {} BY <2>1, <2>2 DEF HoursOf
  <2> HIDE DEF u, old, mine
  <2> QED BY <1>7, <2>3
<1>10. CASE told = {}
  <2>1. mine = {} /\ merged = {} BY <1>4, <1>10
  <2>2. Ids({}) = {} BY DEF Ids
  <2>3. new = old BY <1>6, <2>1, <2>2
  <2>4. old \ merged = {r \in new : r.id \notin Ids(merged)} BY <2>1, <2>2, <2>3
  <2>5. \A r \in old \ merged : HoursOf(r.id, hourRows') = HoursOf(r.id, hourRows) BY <1>9, <2>1, <2>2
  <2> QED BY <1>10, <2>4, <2>5 DEF Merges
<1>11. CASE told # {}
  <2>1. PICK w : mine = {w} /\ From(w, itemRows) /\ w.subject = rows[Max(told)].subject BY <1>4, <1>11
  <2>2. item = w
    <3>1. Titled(name, ItemsSeen(p)) # {} BY <1>5, <1>6, <2>1
    <3>2. mine \subseteq {Oldest(Titled(name, ItemsSeen(p)))} BY <1>1, <1>2, <3>1, FoundIs
    <3> QED BY <1>5, <2>1, <3>2
  <2>3. w \in u.items /\ w.name = name /\ IsItem(w) /\ Ids(mine) = {w.id}
    <3>1. w \in u.items /\ w.name = name BY <2>1 DEF Titled
    <3>2. IsItem(w) BY <1>1, <3>1 DEF RowsInv, Known, HeldBy
    <3> QED BY <2>1, <3>1, <3>2 DEF Ids
  <2>4. was.id = w.id /\ w = [was EXCEPT !.subject = w.subject] /\ (old # {} => was \in old)
    <3>1. CASE old = {}
      <4>1. w.parent = None BY <2>1, <2>3, <3>1 DEF From
      <4>2. was = [w EXCEPT !.parent = None] BY <2>2, <3>1
      <4>3. was = w BY <2>3, <4>1, <4>2 DEF IsItem
      <4>4. w = [w EXCEPT !.subject = w.subject] BY <2>3 DEF IsItem
      <4> QED BY <3>1, <4>3, <4>4
    <3>2. CASE old # {}
      <4>1. was = Oldest(old) /\ Oldest(old) \in old BY <1>8, <3>2, OldestExists
      <4>2. w = [Oldest(old) EXCEPT !.subject = w.subject] BY <2>1, <2>3, <3>2 DEF From
      <4>3. IsItem(Oldest(old)) BY <1>8, <4>1
      <4> HIDE DEF was
      <4>4. w.id = Oldest(old).id BY <4>2, <4>3 DEF IsItem
      <4> QED BY <4>1, <4>2, <4>4
    <3> QED BY <3>1, <3>2
  <2> HIDE DEF was, item
  <2>5. HoursOf(w.id, hourRows') = {h \in HoursOf(was.id, hourRows) : h[1] \notin said} \cup Told(rows, told)
    <3>1. HoursOf(w.id, u.hours) = Told(rows, told) BY <1>4, <2>1
    <3>2. {y[1] : y \in Told(rows, told)} = said
      <4> DEFINE last(s) == rows[Max({i \in told : rows[i].semester = s})].hours
      <4>1. Told(rows, told) = {<<s, last(s)>> : s \in said} BY DEF Told
      <4>2. \A s : <<s, last(s)>>[1] = s OBVIOUS
      <4> HIDE DEF last, said
      <4>3. ASSUME NEW s \in said PROVE s \in {y[1] : y \in Told(rows, told)}
        <5>1. <<s, last(s)>> \in Told(rows, told) BY <4>1
        <5> QED BY <4>2, <5>1
      <4>4. ASSUME NEW y \in Told(rows, told) PROVE y[1] \in said
        <5>1. PICK s \in said : y = <<s, last(s)>> BY <4>1
        <5> QED BY <4>2, <5>1
      <4> QED BY <4>3, <4>4
    <3> HIDE DEF u, rows, told, said
    <3> QED BY <1>7, <2>4, <3>1, <3>2
  <2>6. merged = {was} /\ Ids(merged) = {w.id} BY <1>11, <2>4 DEF Ids
  <2>7. \A r \in old : r = was <=> r.id = w.id BY <1>8, <2>4 DEF OneEach
  <2>8. old \ merged = {r \in new : r.id \notin Ids(merged)} BY <1>6, <2>1, <2>3, <2>6, <2>7
  <2>9. \A r \in old \ merged : HoursOf(r.id, hourRows') = HoursOf(r.id, hourRows)
    BY <1>9, <2>3, <2>6, <2>7
  <2>10. item = [was EXCEPT !.subject = rows[Max(told)].subject] BY <2>1, <2>2, <2>4
  <2>11. HoursOf(item.id, hourRows') = {h \in HoursOf(was.id, hourRows) : h[1] \notin said}
           \cup {<<s, rows[Max({i \in told : rows[i].semester = s})].hours>> : s \in said}
    BY <2>2, <2>5 DEF Told
  <2> QED BY <2>8, <2>9, <2>10, <2>11 DEF Merges, was, item
<1> QED BY <1>10, <1>11

(* A committed table did to every name that nobody else changed meanwhile  *)
(* what its rows say, and nothing else: importCurriculumItems, with its    *)
(* look for an item, Save and upsert at READ COMMITTED.                    *)
THEOREM MergeIsExact == ImportSpec => MergeExact
<1>1. ImportInv /\ [ImportNext]_importVars =>
        [\A p \in Importers :
           upload[p].pc = "commit" /\ upload[p].plan = None /\ upload'[p].pc = "announce" =>
             \A name \in ItemNames \ others[p] : Merges(p, name)]_importVars
  BY OnlyCommits, CommitMerges
<1> QED BY <1>1, ImportInvariant, PTL DEF ImportSpec, MergeExact

(* At the commit of a plan its rows are there, each below the right one:   *)
(* an id nobody else has is found again among the committed rows.          *)
LEMMA CommitAdds ==
  ASSUME ImportInv, NEW p \in Importers, CommitImport(p), upload[p].plan # None
  PROVE  /\ \A name \in ItemNames \ others[p] : Adds(p, name)
         /\ calendarFrom' = IF upload[p].plan.weeks THEN "plan"
                            ELSE IF upload[p].plan.replace THEN None ELSE calendarFrom
<1> DEFINE u == upload[p]
           plan == u.plan
           n == u.at - 1
           told(i) == {<<s, plan.rows[i].hours[s]>> : s \in DOMAIN plan.rows[i].hours}
           header(i) == LET up == ParentOf(plan.rows, i)
                        IN  IF up = None THEN None ELSE plan.rows[up].name
           above(r) == IF r.parent = None THEN None
                       ELSE (CHOOSE o \in itemRows' : o.id = r.parent).name
<1>1. RowsInv /\ u.pc = "commit" /\ PlanKeeps(p) BY DEF ImportInv, Keeps, CommitImport
<1>2. plan \in PlanFiles /\ u.rows = plan.rows /\ u.at = Len(plan.rows) + 1 /\ u.ids \in Seq(Nat) /\ Len(u.ids) = n
  BY <1>1 DEF PlanKeeps, Written
<1>3. n = Len(plan.rows) /\ n \in Nat /\ DOMAIN plan.rows = 1..n /\ None \notin Nat
  <2>1. Len(plan.rows) \in Nat /\ DOMAIN plan.rows = 1..Len(plan.rows) /\ None \notin Nat
    BY <1>2, FilesAre
  <2>2. n = Len(plan.rows) BY <1>2, <2>1
  <2> QED BY <2>1, <2>2
<1>4. /\ u.items = {ItemAt(u, i) : i \in 1..n} /\ u.hours = UNION {HoursAt(u, i) : i \in 1..n}
      /\ \A i, j \in 1..n : u.ids[i] = u.ids[j] => i = j
      /\ \A i \in 1..n : u.ids[i] \notin Ids(itemRows)
  BY <1>1 DEF PlanKeeps, Written, Beside
<1>5. IF plan.replace THEN \A r \in itemRows : r.name \in ItemNames \ others[p] => r.id \in u.gone ELSE u.gone = {}
  BY <1>1 DEF PlanKeeps
<1>6. itemRows' = ItemsSeen(p) /\ hourRows' = Put(u.hours, {h \in hourRows : h.item \notin u.gone})
  BY DEF CommitImport, HoursSeen
<1>7. \A i : ItemAt(u, i).id = u.ids[i] /\ ItemAt(u, i).name = u.rows[i].name BY DEF ItemAt
<1>8. itemRows' = {r \in itemRows : r.id \notin u.gone} \cup u.items
  <2>1. \A r \in itemRows : r.id \notin Ids(u.items) BY <1>4, <1>7 DEF Ids
  <2> QED BY <1>6, <2>1 DEF ItemsSeen
<1>9. OneEach(itemRows') BY <1>1, <1>6, SeenRows
<1>10. \A i \in 1..n : u.ids[i] \in Nat BY <1>2, <1>3, ElementOfSeq
<1>11. ASSUME NEW i \in 1..n PROVE HoursOf(u.ids[i], hourRows') = told(i)
  <2> DEFINE old == {h \in hourRows : h.item \notin u.gone}
  <2>1. HoursOf(u.ids[i], old) = {}
    <3>1. \A h \in old : h.item \in Ids(itemRows) BY <1>1 DEF RowsInv
    <3>2. u.ids[i] \notin Ids(itemRows) BY <1>4
    <3> HIDE DEF old, u
    <3> QED BY <3>1, <3>2 DEF HoursOf
  <2>2. HoursOf(u.ids[i], hourRows') = HoursOf(u.ids[i], u.hours)
    <3> HIDE DEF old, u
    <3>1. HoursOf(u.ids[i], Put(u.hours, old)) =
            {x \in HoursOf(u.ids[i], old) : x[1] \notin {y[1] : y \in HoursOf(u.ids[i], u.hours)}}
              \cup HoursOf(u.ids[i], u.hours)
      BY PutOver
    <3> QED BY <1>6, <2>1, <3>1 DEF old
  <2>3. \A h \in u.hours : h.item = u.ids[i] <=> h \in HoursAt(u, i)
    <3>1. ASSUME NEW j \in 1..n, NEW h \in HoursAt(u, j) PROVE h.item = u.ids[j] BY DEF HoursAt
    <3> HIDE DEF u, n
    <3> QED BY <1>4, <3>1
  <2>4. HoursAt(u, i) \subseteq u.hours BY <1>4
  <2>5. HoursOf(u.ids[i], u.hours) = {<<h.semester, h.hours>> : h \in HoursAt(u, i)}
    BY <2>3, <2>4 DEF HoursOf
  <2>6. {<<h.semester, h.hours>> : h \in HoursAt(u, i)} = told(i)
    <3> DEFINE rec(s) == [item |-> u.ids[i], semester |-> s, hours |-> plan.rows[i].hours[s]]
    <3>1. HoursAt(u, i) = {rec(s) : s \in DOMAIN plan.rows[i].hours} BY <1>2 DEF HoursAt
    <3>2. \A s : rec(s).semester = s /\ rec(s).hours = plan.rows[i].hours[s] OBVIOUS
    <3> HIDE DEF rec
    <3>3. {<<h.semester, h.hours>> : h \in HoursAt(u, i)} =
            {<<rec(s).semester, rec(s).hours>> : s \in DOMAIN plan.rows[i].hours}
      BY <3>1
    <3> QED BY <3>2, <3>3
  <2> QED BY <2>2, <2>5, <2>6
<1>12. ASSUME NEW i \in 1..n PROVE above(ItemAt(u, i)) = header(i)
  <2> DEFINE parent == ParentOf(plan.rows, i)
  <2>1. parent \in {None} \cup 1..(i-1) BY <1>2, <1>3, ParentIs
  <2>2. ItemAt(u, i).parent = IF parent = None THEN None ELSE u.ids[parent] BY <1>2 DEF ItemAt
  <2>3. CASE parent = None BY <2>2, <2>3
  <2>4. CASE parent # None
    <3>1. parent \in 1..n BY <1>3, <2>1, <2>4
    <3> DEFINE o == ItemAt(u, parent)
    <3>2. o \in itemRows' /\ o.id = u.ids[parent] /\ o.name = plan.rows[parent].name
      BY <1>2, <1>4, <1>7, <1>8, <3>1
    <3>3. ItemAt(u, i).parent = o.id /\ ItemAt(u, i).parent # None
      BY <1>3, <1>10, <2>2, <2>4, <3>1, <3>2
    <3> HIDE DEF o
    <3>4. (CHOOSE x \in itemRows' : x.id = ItemAt(u, i).parent) = o
      <4>1. \A x \in itemRows' : x.id = ItemAt(u, i).parent => x = o BY <1>9, <3>2, <3>3 DEF OneEach
      <4> QED BY <3>2, <3>3, <4>1
    <3> QED BY <2>4, <3>2, <3>3, <3>4
  <2> QED BY <2>3, <2>4
<1>13. ASSUME NEW name \in ItemNames \ others[p] PROVE Adds(p, name)
  <2> DEFINE mine == {i \in DOMAIN plan.rows : plan.rows[i].name = name}
             kept == IF plan.replace THEN {} ELSE Titled(name, itemRows)
             new == Titled(name, itemRows') \ kept
  <2>1. mine \in SUBSET (1..n) BY <1>3
  <2>2. Titled(name, u.items) = {ItemAt(u, i) : i \in mine}
    <3>1. \A i : i \in mine <=> i \in 1..n /\ ItemAt(u, i).name = name BY <1>2, <1>3, <1>7
    <3> HIDE DEF mine, u, n
    <3> QED BY <1>4, <3>1 DEF Titled
  <2>3. \A r \in u.items : r \notin itemRows BY <1>4, <1>7 DEF Ids
  <2>4. kept \subseteq itemRows' /\ new = Titled(name, u.items)
    <3>1. CASE plan.replace
      <4>1. \A r \in itemRows : r.name = name => r.id \in u.gone BY <1>5, <3>1
      <4> QED BY <1>8, <3>1, <4>1 DEF Titled
    <3>2. CASE ~plan.replace
      <4>1. itemRows' = itemRows \cup u.items BY <1>5, <1>8, <3>2
      <4> QED BY <2>3, <3>2, <4>1 DEF Titled
    <3> QED BY <3>1, <3>2
  <2>5. Cardinality(new) = Cardinality(mine)
    <3> DEFINE f == [i \in mine |-> ItemAt(u, i)]
    <3>1. \A i, j \in mine : f[i] = f[j] => i = j BY <1>4, <1>7, <2>1
    <3>2. f \in Bijection(mine, new)
      <4>1. new = {f[i] : i \in mine} BY <2>2, <2>4
      <4>2. f \in [mine -> new] BY <4>1
      <4> HIDE DEF f, new, mine
      <4>3. f \in Injection(mine, new) BY <3>1, <4>2 DEF Injection, IsInjective
      <4>4. f \in Surjection(mine, new) BY <4>1, <4>2 DEF Surjection
      <4> QED BY <4>3, <4>4 DEF Bijection
    <3>3. IsFiniteSet(mine)
      <4>1. IsFiniteSet(1..n) BY <1>3, FS_Interval
      <4> QED BY <2>1, <4>1, FS_Subset
    <3> HIDE DEF f, new, mine
    <3> QED BY <3>2, <3>3, FS_Bijection DEF ExistsBijection
  <2>6. {<<above(r), HoursOf(r.id, hourRows')>> : r \in new} = {<<header(i), told(i)>> : i \in mine}
    <3>1. \A i \in mine : /\ above(ItemAt(u, i)) = header(i)
                          /\ HoursOf(ItemAt(u, i).id, hourRows') = told(i)
      <4> HIDE DEF above, header, told, mine
      <4> QED BY <1>7, <1>11, <1>12, <2>1
    <3>2. new = {ItemAt(u, i) : i \in mine} BY <2>2, <2>4
    <3> HIDE DEF above, header, told, mine, new
    <3> QED BY <3>1, <3>2
  <2> QED BY <2>4, <2>5, <2>6 DEF Adds
<1>14. calendarFrom' = IF plan.weeks THEN "plan" ELSE IF plan.replace THEN None ELSE calendarFrom
  <2>1. calendarFrom' = CASE u.calendar = "kept" -> calendarFrom
                          [] u.calendar = "removed" -> None
                          [] u.calendar = "made" -> "plan"
    BY DEF CommitImport
  <2>2. CalendarKeeps(u) BY <1>1 DEF PlanKeeps
  <2>3. CASE plan.weeks
    <3>1. u.calendar = "made" BY <1>1, <2>2, <2>3 DEF CalendarKeeps
    <3>2. calendarFrom' = "plan" BY <2>1, <3>1
    <3> QED BY <2>3, <3>2
  <2>4. CASE ~plan.weeks
    <3>1. \/ u.calendar = "kept" /\ (plan.replace => calendarFrom = None)
          \/ u.calendar = "removed" /\ plan.replace
      BY <1>1, <2>2, <2>4 DEF CalendarKeeps
    <3>2. CASE u.calendar = "kept" /\ (plan.replace => calendarFrom = None)
      <4>1. calendarFrom' = calendarFrom BY <2>1, <3>2
      <4> QED BY <2>4, <3>2, <4>1
    <3>3. CASE u.calendar = "removed" /\ plan.replace
      <4>1. calendarFrom' = None BY <2>1, <3>3
      <4> QED BY <2>4, <3>3, <4>1
    <3> QED BY <3>1, <3>2, <3>3
  <2> QED BY <2>3, <2>4
<1> QED BY <1>13, <1>14

(* A committed plan added one item per row of such a name, with its hours  *)
(* and in its place of the tree, removed or kept the rows that were there  *)
(* as it was asked to, and the calendar: importPLXCurriculum with          *)
(* clearPLXCurriculumData.                                                 *)
THEOREM PlanIsExact == ImportSpec => PlanExact
<1>1. ImportInv /\ [ImportNext]_importVars =>
        [\A p \in Importers :
           upload[p].pc = "commit" /\ upload[p].plan # None /\ upload'[p].pc = "announce" =>
             /\ \A name \in ItemNames \ others[p] : Adds(p, name)
             /\ calendarFrom' = IF upload[p].plan.weeks THEN "plan"
                                ELSE IF upload[p].plan.replace THEN None ELSE calendarFrom]_importVars
  BY OnlyCommits, CommitAdds
<1> QED BY <1>1, ImportInvariant, PTL DEF ImportSpec, PlanExact
=============================================================================
