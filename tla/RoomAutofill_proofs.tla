------------------------- MODULE RoomAutofill_proofs -------------------------
(***************************************************************************)
(* Room assignments for any number of lessons, rooms, autofills and        *)
(* clerks.  First what the unique key and the locks of open transactions   *)
(* give: a lesson has one assignment.  Then what an autofill that writes   *)
(* what it planned earlier can break: nothing but what others changed      *)
(* since it began to read.                                                 *)
(***************************************************************************)
EXTENDS RoomAutofill, TLAPS

USE FillConstants

Slots == {TimeOf[l] : l \in FillLessons} \X Places
PlanOf == UNION {[ls -> Places] : ls \in SUBSET FillLessons}
Runs ==
  [pc: {"idle", "occupied", "plan", "write", "upsert", "done"}, req: FillRequests \cup {None},
   needs: SUBSET FillLessons, taken: SUBSET Slots, plan: PlanOf,
   found: Assignment \cup {None}, written: SUBSET Assignment]

TypeOK ==
  /\ assignments \subseteq Assignment
  /\ nextRow \in Nat /\ nextRow >= 1
  /\ fill \in [Fillers -> Runs]
  /\ since \in [Fillers -> SUBSET FillLessons]
  /\ held \in [Clerks -> Assignment \cup {None}]
  /\ clerkWork \in Nat

(* Every id that is known somewhere was given out.                         *)
IdsGiven ==
  /\ \A a \in assignments : a.id < nextRow
  /\ \A p \in Fillers : /\ \A w \in fill[p].written : w.id < nextRow
                        /\ fill[p].found # None => fill[p].found.id < nextRow
  /\ \A c \in Clerks : held[c] # None => held[c].id < nextRow

OneRow(table) == \A a, b \in table : a.id = b.id \/ a.lesson = b.lesson => a = b

(* The table, and the table as each open transaction sees it.              *)
TablesSound == OneRow(assignments) /\ \A p \in Fillers : OneRow(Seen(p))

(* Open transactions have written rows of different ids and lessons.       *)
Apart ==
  \A p, q \in Fillers : p # q =>
    \A w \in fill[p].written, v \in fill[q].written : w.id # v.id /\ w.lesson # v.lesson

OnlyWriting == \A p \in Fillers : fill[p].pc \notin {"write", "upsert"} => fill[p].written = {}

RowInv == TypeOK /\ IdsGiven /\ TablesSound /\ Apart /\ OnlyWriting

-----------------------------------------------------------------------------
LEMMA RowFields ==
  ASSUME NEW a \in Assignment
  PROVE  a.id \in 1..MaxRows /\ a.id \in Nat /\ a.lesson \in FillLessons /\ a.place \in Places
BY DEF Assignment

LEMMA RunFields ==
  ASSUME NEW f \in Runs
  PROVE  /\ f.pc \in {"idle", "occupied", "plan", "write", "upsert", "done"}
         /\ f.req \in FillRequests \cup {None}
         /\ f.needs \subseteq FillLessons /\ f.taken \subseteq Slots /\ f.plan \in PlanOf
         /\ f.found \in Assignment \cup {None} /\ f.written \subseteq Assignment
BY DEF Runs

LEMMA RunIs ==
  ASSUME NEW pc \in {"idle", "occupied", "plan", "write", "upsert", "done"},
         NEW req \in FillRequests \cup {None}, NEW needs \in SUBSET FillLessons,
         NEW taken \in SUBSET Slots, NEW plan \in PlanOf, NEW found \in Assignment \cup {None},
         NEW written \in SUBSET Assignment
  PROVE  LET f == Run(pc, req, needs, taken, plan, found, written)
         IN  /\ f \in Runs
             /\ f.pc = pc /\ f.req = req /\ f.needs = needs /\ f.taken = taken
             /\ f.plan = plan /\ f.found = found /\ f.written = written
BY DEF Run, Runs

LEMMA NoPlanIsPlan == NoPlan \in PlanOf /\ DOMAIN NoPlan = {}
<1>1. NoPlan \in [{} -> Places] /\ DOMAIN NoPlan = {} BY DEF NoPlan
<1> QED BY <1>1 DEF PlanOf

(* An autofill that only plans has found and written nothing.              *)
PlansOnly(f, pc, req, needs, taken) ==
  /\ f \in Runs
  /\ f.pc = pc /\ f.req = req /\ f.needs = needs /\ f.taken = taken
  /\ DOMAIN f.plan = {} /\ f.found = None /\ f.written = {}

LEMMA PlanningIs ==
  ASSUME NEW pc \in {"idle", "occupied", "plan", "done"}, NEW req \in FillRequests \cup {None},
         NEW needs, needs \subseteq FillLessons, NEW taken, taken \subseteq Slots
  PROVE  PlansOnly(Planning(pc, req, needs, taken), pc, req, needs, taken)
<1>1. needs \in SUBSET FillLessons /\ taken \in SUBSET Slots OBVIOUS
<1> QED BY <1>1, RunIs, NoPlanIsPlan DEF Planning, PlansOnly

LEMMA WritingIs ==
  ASSUME NEW pc \in {"write", "upsert", "done"}, NEW req \in FillRequests \cup {None},
         NEW plan \in PlanOf, NEW found \in Assignment \cup {None}, NEW written \in SUBSET Assignment
  PROVE  LET f == Writing(pc, req, plan, found, written)
         IN  /\ f \in Runs
             /\ f.pc = pc /\ f.req = req /\ f.plan = plan /\ f.found = found /\ f.written = written
BY RunIs DEF Writing

-----------------------------------------------------------------------------
LEMMA InitHolds == AutofillInit => RowInv
<1> SUFFICES ASSUME AutofillInit PROVE RowInv OBVIOUS
<1>1. Idle \in Runs /\ Idle.pc = "idle" /\ Idle.found = None /\ Idle.written = {}
  <2>1. PlansOnly(Idle, "idle", None, {}, {}) BY PlanningIs DEF Idle
  <2> QED BY <2>1 DEF PlansOnly
<1> HIDE DEF Idle
<1>2. \A p \in Fillers : fill[p] = Idle BY DEF AutofillInit, Idle
<1>3. fill \in [Fillers -> Runs] BY <1>1 DEF AutofillInit, Idle
<1>4. TypeOK BY <1>3 DEF AutofillInit, TypeOK
<1>5. IdsGiven BY <1>1, <1>2 DEF AutofillInit, IdsGiven
<1>6. TablesSound BY <1>1, <1>2 DEF AutofillInit, TablesSound, OneRow, Seen
<1>7. Apart /\ OnlyWriting BY <1>1, <1>2 DEF Apart, OnlyWriting
<1> QED BY <1>4, <1>5, <1>6, <1>7 DEF RowInv

(* A step of autofill p that leaves what it has written, and found a row   *)
(* that exists or none.                                                    *)
LEMMA QuietKeeps ==
  ASSUME RowInv, NEW p \in Fillers, NEW f \in Runs,
         f.written = fill[p].written \/ f.written = {},
         f.pc \in {"write", "upsert"} \/ f.written = {},
         f.found = None \/ f.found \in Seen(p),
         fill' = [fill EXCEPT ![p] = f], UNCHANGED <<assignments, nextRow, since, held, clerkWork>>
  PROVE  RowInv'
<1>1. fill \in [Fillers -> Runs] BY DEF RowInv, TypeOK
<1>2. fill' \in [Fillers -> Runs] /\ fill'[p] = f /\ \A q \in Fillers \ {p} : fill'[q] = fill[q] BY <1>1
<1>3. TypeOK' BY <1>2 DEF RowInv, TypeOK
<1>4. \A q \in Fillers : fill'[q].written = fill[q].written \/ fill'[q].written = {} BY <1>2
<1>5. IdsGiven'
  <2>1. \A a \in Seen(p) : a.id < nextRow BY DEF RowInv, IdsGiven, Seen
  <2> QED BY <1>2, <1>4, <2>1 DEF RowInv, IdsGiven
<1>6. TablesSound'
  <2>1. ASSUME NEW q \in Fillers PROVE OneRow(Seen(q))'
    <3>1. CASE fill'[q].written = fill[q].written BY <3>1 DEF RowInv, TablesSound, OneRow, Seen
    <3>2. CASE fill'[q].written = {} BY <3>2 DEF RowInv, TablesSound, OneRow, Seen
    <3> QED BY <1>4, <3>1, <3>2
  <2> QED BY <2>1 DEF RowInv, TablesSound, OneRow
<1>7. Apart' BY <1>4 DEF RowInv, Apart
<1>8. OnlyWriting' BY <1>2 DEF RowInv, OnlyWriting
<1> QED BY <1>3, <1>5, <1>6, <1>7, <1>8 DEF RowInv

(* A row that a clerk writes, and that the unique key and the locks allow. *)
LEMMA ClerkKeeps ==
  ASSUME RowInv, NEW a \in Assignment, Free(None, a), KeyFree(a, assignments),
         assignments' = Saved(a, assignments), fill' = fill,
         nextRow' \in Nat, nextRow <= nextRow', a.id < nextRow',
         since' \in [Fillers -> SUBSET FillLessons], clerkWork' \in Nat,
         held' \in [Clerks -> Assignment \cup {None}],
         \A c \in Clerks : held'[c] = held[c] \/ held'[c] = None
  PROVE  RowInv'
<1>1. \A q \in Fillers : \A w \in fill[q].written : w.id # a.id /\ w.lesson # a.lesson
  BY DEF Free, PendingRows
<1>2. TypeOK' BY DEF RowInv, TypeOK, Saved
<1>3. IdsGiven'
  <2>1. nextRow \in Nat /\ \A b \in assignments : b.id \in Nat BY RowFields DEF RowInv, TypeOK
  <2>2. \A q \in Fillers : /\ \A w \in fill[q].written : w.id \in Nat
                           /\ fill[q].found # None => fill[q].found.id \in Nat
    BY RunFields, RowFields DEF RowInv, TypeOK
  <2>3. \A c \in Clerks : held[c] # None => held[c].id \in Nat BY RowFields DEF RowInv, TypeOK
  <2>4. \A b \in assignments' : b.id < nextRow' BY <2>1 DEF RowInv, IdsGiven, Saved
  <2>5. \A q \in Fillers : /\ \A w \in fill[q].written : w.id < nextRow'
                           /\ fill[q].found # None => fill[q].found.id < nextRow'
    BY <2>1, <2>2 DEF RowInv, IdsGiven
  <2>6. \A c \in Clerks : held'[c] # None => held'[c].id < nextRow' BY <2>1, <2>3 DEF RowInv, IdsGiven
  <2> QED BY <2>4, <2>5, <2>6 DEF IdsGiven
<1>4. OneRow(assignments') BY DEF RowInv, TablesSound, OneRow, KeyFree, Saved
<1>5. ASSUME NEW q \in Fillers PROVE OneRow(Seen(q))'
  <2>1. \A b \in Seen(q)' : b = a \/ (b \in Seen(q) /\ b.id # a.id /\ b.lesson # a.lesson)
    BY <1>1 DEF Seen, Saved, KeyFree
  <2>2. OneRow(Seen(q)) BY DEF RowInv, TablesSound
  <2> QED BY <2>1, <2>2 DEF OneRow
<1>6. TablesSound' BY <1>4, <1>5 DEF TablesSound, OneRow
<1>7. Apart' /\ OnlyWriting' BY DEF RowInv, Apart, OnlyWriting
<1> QED BY <1>2, <1>3, <1>6, <1>7 DEF RowInv

-----------------------------------------------------------------------------
LEMMA ReadLessonsKeeps ==
  ASSUME RowInv, NEW p \in Fillers, NEW req \in FillRequests, ReadLessons(p, req) PROVE RowInv'
<1> DEFINE needs == {l \in FillLessons : GroupOf[l] = req.group /\ NeedsRoom(l, req.replace)}
           f == Planning("occupied", req, needs, {})
<1>1. needs \subseteq FillLessons OBVIOUS
<1>2. fill' = [fill EXCEPT ![p] = f] /\ UNCHANGED <<assignments, nextRow, since, held, clerkWork>>
  BY DEF ReadLessons
<1> HIDE DEF needs
<1>3. PlansOnly(f, "occupied", req, needs, {}) BY <1>1, PlanningIs
<1> HIDE DEF f
<1>4. f \in Runs /\ f.found = None /\ f.written = {} BY <1>3 DEF PlansOnly
<1> QED BY <1>2, <1>4, QuietKeeps

LEMMA TakenIsSlots ==
  ASSUME TypeOK
  PROVE  {<<TimeOf[a.lesson], a.place>> : a \in {a \in assignments : a.status = "published"}} \subseteq Slots
<1> SUFFICES ASSUME NEW a \in assignments PROVE <<TimeOf[a.lesson], a.place>> \in Slots OBVIOUS
<1>1. a.lesson \in FillLessons /\ a.place \in Places BY RowFields DEF TypeOK
<1> QED BY <1>1 DEF Slots

LEMMA ReadOccupiedKeeps == ASSUME RowInv, NEW p \in Fillers, ReadOccupied(p) PROVE RowInv'
<1> DEFINE taken == {<<TimeOf[a.lesson], a.place>> : a \in {a \in assignments : a.status = "published"}}
           f == Planning("plan", fill[p].req, fill[p].needs, taken)
<1>1. taken \subseteq Slots BY TakenIsSlots DEF RowInv
<1>2. fill' = [fill EXCEPT ![p] = f] /\ UNCHANGED <<assignments, nextRow, since, held, clerkWork>>
  BY DEF ReadOccupied
<1> HIDE DEF taken
<1>3. fill[p].needs \subseteq FillLessons /\ fill[p].req \in FillRequests \cup {None}
  BY RunFields DEF RowInv, TypeOK
<1>4. PlansOnly(f, "plan", fill[p].req, fill[p].needs, taken) BY <1>1, <1>3, PlanningIs
<1> HIDE DEF f
<1>5. f \in Runs /\ f.found = None /\ f.written = {} BY <1>4 DEF PlansOnly
<1> QED BY <1>2, <1>5, QuietKeeps

LEMMA MakePlanKeeps == ASSUME RowInv, NEW p \in Fillers, MakePlan(p) PROVE RowInv'
<1>1. PICK ls \in SUBSET fill[p].needs : \E plan \in [ls -> Places] :
        LET pc == IF fill[p].req.dry \/ ls = {} THEN "done" ELSE "write"
        IN  fill' = [fill EXCEPT ![p] = Writing(pc, fill[p].req, plan, None, {})]
  BY DEF MakePlan
<1>2. PICK plan \in [ls -> Places] :
        LET pc == IF fill[p].req.dry \/ ls = {} THEN "done" ELSE "write"
        IN  fill' = [fill EXCEPT ![p] = Writing(pc, fill[p].req, plan, None, {})]
  BY <1>1
<1> DEFINE pc == IF fill[p].req.dry \/ ls = {} THEN "done" ELSE "write"
           f == Writing(pc, fill[p].req, plan, None, {})
<1>3. pc \in {"write", "upsert", "done"} OBVIOUS
<1>4. fill' = [fill EXCEPT ![p] = f] BY <1>2
<1> HIDE DEF pc
<1>5. fill[p].needs \subseteq FillLessons /\ fill[p].req \in FillRequests \cup {None}
  BY RunFields DEF RowInv, TypeOK
<1>6. plan \in PlanOf BY <1>5 DEF PlanOf
<1>7. {} \in SUBSET Assignment /\ None \in Assignment \cup {None} OBVIOUS
<1>8. f \in Runs /\ f.found = None /\ f.written = {} BY <1>3, <1>5, <1>6, <1>7, WritingIs
<1> HIDE DEF f
<1>9. UNCHANGED <<assignments, nextRow, since, held, clerkWork>> BY DEF MakePlan
<1> QED BY <1>4, <1>8, <1>9, QuietKeeps

LEMMA LookUpKeeps == ASSUME RowInv, NEW p \in Fillers, NEW l, LookUp(p, l) PROVE RowInv'
<1> DEFINE old == {a \in Seen(p) : a.lesson = l}
           found == IF old = {} THEN None ELSE CHOOSE a \in old : TRUE
           f == Writing("upsert", fill[p].req, fill[p].plan, found, fill[p].written)
<1>1. found = None \/ found \in Seen(p) OBVIOUS
<1>2. fill' = [fill EXCEPT ![p] = f] /\ UNCHANGED <<assignments, nextRow, since, held, clerkWork>>
  BY DEF LookUp
<1> HIDE DEF found
<1>3. /\ fill[p].req \in FillRequests \cup {None} /\ fill[p].plan \in PlanOf
      /\ fill[p].written \in SUBSET Assignment
  BY RunFields DEF RowInv, TypeOK
<1>4. found \in Assignment \cup {None} BY <1>1, <1>3 DEF Seen, RowInv, TypeOK
<1>5. f \in Runs /\ f.pc = "upsert" /\ f.found = found /\ f.written = fill[p].written
  BY <1>3, <1>4, WritingIs
<1> HIDE DEF f
<1> QED BY <1>1, <1>2, <1>5, QuietKeeps

LEMMA AbortKeeps == ASSUME RowInv, NEW p \in Fillers, AbortFill(p) PROVE RowInv'
<1> DEFINE f == Planning("done", None, {}, {})
<1>2. fill' = [fill EXCEPT ![p] = f] /\ UNCHANGED <<assignments, nextRow, since, held, clerkWork>>
  BY DEF AbortFill
<1>3. PlansOnly(f, "done", None, {}, {}) BY PlanningIs
<1> HIDE DEF f
<1>4. f \in Runs /\ f.found = None /\ f.written = {} BY <1>3 DEF PlansOnly
<1> QED BY <1>2, <1>4, QuietKeeps

(* What an upsert writes: a row of the lesson it has come to, with an id   *)
(* that was found or is new, and the lesson leaves the plan.               *)
LEMMA Upserted ==
  ASSUME RowInv, NEW p \in Fillers, NEW l \in Todo(p), Upsert(p, l)
  PROVE  \E row \in Assignment, f \in Runs :
           /\ row.lesson = l /\ row.place = fill[p].plan[l] /\ row.status = "published"
           /\ row.id < nextRow' /\ nextRow <= nextRow' /\ nextRow' \in Nat
           /\ Free(p, row) /\ KeyFree(row, Seen(p))
           /\ f.pc = "write" /\ f.req = fill[p].req /\ f.found = None
           /\ f.written = Saved(row, fill[p].written)
           /\ f.plan = Restrict(fill[p].plan, DOMAIN fill[p].plan \ {l})
           /\ fill' = [fill EXCEPT ![p] = f]
<1> DEFINE new == fill[p].found = None
           id == IF new THEN nextRow ELSE fill[p].found.id
           row == [id |-> id, lesson |-> l, place |-> fill[p].plan[l], status |-> "published"]
           rest == Restrict(fill[p].plan, DOMAIN fill[p].plan \ {l})
           f == Writing("write", fill[p].req, rest, None, Saved(row, fill[p].written))
<1>1. /\ fill[p].req \in FillRequests \cup {None} /\ fill[p].plan \in PlanOf
      /\ fill[p].found \in Assignment \cup {None} /\ fill[p].written \in SUBSET Assignment
      /\ nextRow \in Nat
  BY RunFields DEF RowInv, TypeOK
<1>2. row.id <= MaxRows /\ Free(p, row) /\ KeyFree(row, Seen(p)) /\ fill' = [fill EXCEPT ![p] = f]
      /\ nextRow' = IF new THEN nextRow + 1 ELSE nextRow
  BY DEF Upsert
<1>3. l \in FillLessons /\ fill[p].plan[l] \in Places /\ rest \in PlanOf
  <2>1. PICK ls \in SUBSET FillLessons : fill[p].plan \in [ls -> Places] BY <1>1 DEF PlanOf
  <2>2. l \in ls BY <2>1 DEF Todo
  <2>3. rest \in [ls \ {l} -> Places] BY <2>1 DEF Restrict
  <2>4. ls \ {l} \in SUBSET FillLessons BY <2>1
  <2> QED BY <2>1, <2>2, <2>3, <2>4 DEF PlanOf
<1>4. id \in Nat /\ id >= 1
  <2>1. CASE new BY <2>1, <1>1 DEF RowInv, TypeOK
  <2>2. CASE ~new BY <2>2, <1>1, RowFields
  <2> QED BY <2>1, <2>2
<1>5. row.id = id /\ id \in 1..MaxRows BY <1>2, <1>4
<1>6. row \in Assignment BY <1>3, <1>5 DEF Assignment
<1>7. /\ id < nextRow' /\ nextRow <= nextRow' /\ nextRow' \in Nat
  <2>1. ~new => id < nextRow BY DEF RowInv, IdsGiven
  <2> QED BY <1>1, <1>2, <1>4, <2>1
<1>8. row.lesson = l /\ row.place = fill[p].plan[l] /\ row.status = "published" OBVIOUS
<1> HIDE DEF id, row, rest
<1>9. Saved(row, fill[p].written) \in SUBSET Assignment BY <1>1, <1>6 DEF Saved
<1>10. /\ f \in Runs /\ f.pc = "write" /\ f.req = fill[p].req /\ f.plan = rest /\ f.found = None
       /\ f.written = Saved(row, fill[p].written)
  BY <1>1, <1>3, <1>9, WritingIs
<1> HIDE DEF f
<1> QED BY <1>2, <1>5, <1>6, <1>7, <1>8, <1>10 DEF rest

LEMMA UpsertKeeps == ASSUME RowInv, NEW p \in Fillers, NEW l \in Todo(p), Upsert(p, l) PROVE RowInv'
<1>1. PICK row \in Assignment, f \in Runs :
        /\ row.lesson = l /\ row.place = fill[p].plan[l] /\ row.status = "published"
        /\ row.id < nextRow' /\ nextRow <= nextRow' /\ nextRow' \in Nat
        /\ Free(p, row) /\ KeyFree(row, Seen(p))
        /\ f.pc = "write" /\ f.req = fill[p].req /\ f.found = None
        /\ f.written = Saved(row, fill[p].written)
        /\ f.plan = Restrict(fill[p].plan, DOMAIN fill[p].plan \ {l})
        /\ fill' = [fill EXCEPT ![p] = f]
  BY Upserted
<1>2. fill \in [Fillers -> Runs] /\ UNCHANGED <<assignments, since, held, clerkWork>>
  BY DEF RowInv, TypeOK, Upsert
<1>3. fill' \in [Fillers -> Runs] /\ fill'[p] = f /\ \A q \in Fillers \ {p} : fill'[q] = fill[q]
  BY <1>1, <1>2
<1>4. TypeOK' BY <1>1, <1>2, <1>3 DEF RowInv, TypeOK
<1>5. \A w \in fill'[p].written : w = row \/ w \in fill[p].written BY <1>1, <1>3 DEF Saved
<1>6. IdsGiven'
  <2>1. nextRow \in Nat /\ \A b \in assignments : b.id \in Nat BY RowFields DEF RowInv, TypeOK
  <2>2. \A q \in Fillers : /\ \A w \in fill[q].written : w.id \in Nat
                           /\ fill[q].found # None => fill[q].found.id \in Nat
    BY RunFields, RowFields DEF RowInv, TypeOK
  <2>3. \A c \in Clerks : held[c] # None => held[c].id \in Nat BY RowFields DEF RowInv, TypeOK
  <2>4. \A b \in assignments' : b.id < nextRow' BY <1>1, <1>2, <2>1 DEF RowInv, IdsGiven
  <2>5. \A q \in Fillers \ {p} : /\ \A w \in fill'[q].written : w.id < nextRow'
                                 /\ fill'[q].found # None => fill'[q].found.id < nextRow'
    BY <1>1, <1>3, <2>1, <2>2 DEF RowInv, IdsGiven
  <2>6. \A w \in fill'[p].written : w.id < nextRow' BY <1>1, <1>5, <2>1, <2>2 DEF RowInv, IdsGiven
  <2>7. \A c \in Clerks : held'[c] # None => held'[c].id < nextRow'
    BY <1>1, <1>2, <2>1, <2>3 DEF RowInv, IdsGiven
  <2> QED BY <1>1, <1>3, <2>4, <2>5, <2>6, <2>7 DEF IdsGiven
<1>7. ASSUME NEW q \in Fillers PROVE OneRow(Seen(q))'
  <2>1. CASE q # p
    <3>1. Seen(q)' = Seen(q) BY <2>1, <1>2, <1>3 DEF Seen
    <3> QED BY <3>1 DEF RowInv, TablesSound, OneRow
  <2>2. CASE q = p
    <3>1. \A b \in Seen(p)' : b = row \/ (b \in Seen(p) /\ b.id # row.id)
      BY <1>1, <1>2, <1>3 DEF Seen, Saved
    <3>2. OneRow(Seen(p)) BY DEF RowInv, TablesSound
    <3> QED BY <2>2, <3>1, <3>2, <1>1 DEF OneRow, KeyFree
  <2> QED BY <2>1, <2>2
<1>8. TablesSound' BY <1>2, <1>7 DEF RowInv, TablesSound, OneRow
<1>9. Apart'
  <2>1. \A q \in Fillers \ {p} : \A w \in fill[q].written : w.id # row.id /\ w.lesson # row.lesson
    BY <1>1 DEF Free, PendingRows
  <2> QED BY <1>3, <1>5, <2>1 DEF RowInv, Apart
<1>10. OnlyWriting' BY <1>1, <1>3 DEF RowInv, OnlyWriting
<1> QED BY <1>4, <1>6, <1>8, <1>9, <1>10 DEF RowInv

LEMMA CommitKeeps == ASSUME RowInv, NEW p \in Fillers, CommitFill(p) PROVE RowInv'
<1> DEFINE f == Writing("done", fill[p].req, NoPlan, None, {})
           ls == LessonsOf((assignments \ Seen(p)) \cup (Seen(p) \ assignments))
<1>1. fill' = [fill EXCEPT ![p] = f] /\ assignments' = Seen(p) /\ Changed(ls)
      /\ UNCHANGED <<nextRow, held, clerkWork>>
  BY DEF CommitFill
<1>2. fill \in [Fillers -> Runs] /\ fill[p].req \in FillRequests \cup {None} BY RunFields DEF RowInv, TypeOK
<1>3. f \in Runs /\ f.found = None /\ f.written = {}
  <2>1. {} \in SUBSET Assignment /\ None \in Assignment \cup {None} OBVIOUS
  <2> QED BY <1>2, <2>1, NoPlanIsPlan, WritingIs
<1> HIDE DEF f
<1>4. fill' \in [Fillers -> Runs] /\ fill'[p] = f /\ \A q \in Fillers \ {p} : fill'[q] = fill[q]
  BY <1>1, <1>2, <1>3
<1>5. Seen(p) \subseteq Assignment BY RunFields DEF RowInv, TypeOK, Seen
<1>6. ls \subseteq FillLessons BY <1>5, RowFields DEF LessonsOf, RowInv, TypeOK
<1>7. since' \in [Fillers -> SUBSET FillLessons] BY <1>1, <1>6 DEF Changed, RowInv, TypeOK
<1>8. TypeOK' BY <1>1, <1>4, <1>5, <1>7 DEF RowInv, TypeOK
<1>9. IdsGiven'
  <2>1. \A a \in Seen(p) : a.id < nextRow BY DEF RowInv, IdsGiven, Seen
  <2> QED BY <1>1, <1>3, <1>4, <2>1 DEF RowInv, IdsGiven
<1>10. ASSUME NEW q \in Fillers PROVE OneRow(Seen(q))'
  <2>1. CASE q = p
    <3>1. Seen(q)' = Seen(p) BY <2>1, <1>1, <1>3, <1>4 DEF Seen
    <3> QED BY <3>1 DEF RowInv, TablesSound, OneRow
  <2>2. CASE q # p
    <3>1. \A b \in Seen(q)' : \/ b \in fill[p].written
                              \/ b \in Seen(q) /\ (b \in fill[q].written \/ b \in Seen(p))
      BY <2>2, <1>1, <1>4 DEF Seen
    <3>2. OneRow(Seen(p)) /\ OneRow(Seen(q)) /\ fill[p].written \subseteq Seen(p)
      BY DEF RowInv, TablesSound, Seen
    <3>3. \A w \in fill[p].written, v \in fill[q].written : w.id # v.id /\ w.lesson # v.lesson
      BY <2>2 DEF RowInv, Apart
    <3> QED BY <3>1, <3>2, <3>3 DEF OneRow
  <2> QED BY <2>1, <2>2
<1>11. TablesSound' BY <1>1, <1>10 DEF RowInv, TablesSound, OneRow
<1>12. Apart' /\ OnlyWriting' BY <1>3, <1>4 DEF RowInv, Apart, OnlyWriting
<1> QED BY <1>8, <1>9, <1>11, <1>12 DEF RowInv

-----------------------------------------------------------------------------
(* What clerks ask for is a row without an id.                             *)
LEMMA IdentifiedIs ==
  ASSUME NEW i \in 1..MaxRows, NEW b \in Asked
  PROVE  LET a == Identified(i, b)
         IN  a \in Assignment /\ a.id = i /\ a.lesson = b.lesson
BY DEF Identified, Assignment, Asked

LEMMA SinceTyped ==
  ASSUME TypeOK, NEW ls, ls \subseteq FillLessons, Changed(ls)
  PROVE  since' \in [Fillers -> SUBSET FillLessons]
BY DEF TypeOK, Changed

LEMMA CreateKeeps == ASSUME RowInv, NEW b \in ClerkRows, CreateRow(b) PROVE RowInv'
<1> DEFINE a == Identified(nextRow, b)
<1>1. /\ nextRow <= MaxRows /\ Free(None, a) /\ KeyFree(a, assignments)
      /\ nextRow' = nextRow + 1 /\ held' = held
      /\ clerkWork' = clerkWork + 1 /\ assignments' = assignments \cup {a}
      /\ Changed({a.lesson}) /\ fill' = fill
  BY DEF CreateRow, ClerkWrites
<1>2. nextRow \in 1..MaxRows /\ nextRow \in Nat /\ clerkWork \in Nat BY <1>1 DEF RowInv, TypeOK
<1>3. a \in Assignment /\ a.id = nextRow /\ a.lesson = b.lesson BY <1>2, FillConstants, IdentifiedIs
<1> HIDE DEF a
<1>4. a.lesson \in FillLessons BY <1>3, RowFields
<1>5. since' \in [Fillers -> SUBSET FillLessons] BY <1>1, <1>4, SinceTyped DEF RowInv
<1>6. assignments' = Saved(a, assignments)
  <2>1. \A c \in assignments : c.id # a.id
    BY <1>2, <1>3, RowFields DEF RowInv, TypeOK, IdsGiven
  <2> QED BY <1>1, <2>1 DEF Saved
<1>7. nextRow' \in Nat /\ nextRow <= nextRow' /\ a.id < nextRow' /\ clerkWork' \in Nat BY <1>1, <1>2, <1>3
<1>8. held' \in [Clerks -> Assignment \cup {None}] BY <1>1 DEF RowInv, TypeOK
<1> QED BY <1>1, <1>3, <1>5, <1>6, <1>7, <1>8, ClerkKeeps

LEMMA ReadRowKeeps ==
  ASSUME RowInv, NEW c \in Clerks, NEW a \in assignments, ReadRow(c, a) PROVE RowInv'
<1>1. /\ held' = [held EXCEPT ![c] = a] /\ UNCHANGED <<assignments, nextRow, fill, since, clerkWork>>
      /\ held \in [Clerks -> Assignment \cup {None}] /\ a \in Assignment
  BY DEF ReadRow, RowInv, TypeOK
<1>2. TypeOK' BY <1>1 DEF RowInv, TypeOK
<1>3. IdsGiven' BY <1>1 DEF RowInv, IdsGiven
<1>4. TablesSound' /\ Apart' /\ OnlyWriting'
  BY <1>1 DEF RowInv, TablesSound, OneRow, Seen, Apart, OnlyWriting
<1> QED BY <1>2, <1>3, <1>4 DEF RowInv

LEMMA SaveKeeps ==
  ASSUME RowInv, NEW c \in Clerks, NEW b \in ClerkRows, SaveRow(c, b) PROVE RowInv'
<1> DEFINE a == Identified(held[c].id, b)
<1>1. held[c] # None /\ held' = [held EXCEPT ![c] = None] /\ nextRow' = nextRow BY DEF SaveRow
<1>2. /\ held \in [Clerks -> Assignment \cup {None}] /\ held[c] \in Assignment
      /\ nextRow \in Nat /\ clerkWork \in Nat
  BY <1>1 DEF RowInv, TypeOK
<1>3. held[c].id \in 1..MaxRows /\ held[c].id < nextRow BY <1>1, <1>2, RowFields DEF RowInv, IdsGiven
<1>4. /\ held' \in [Clerks -> Assignment \cup {None}]
      /\ \A d \in Clerks : held'[d] = held[d] \/ held'[d] = None
  BY <1>1, <1>2
<1>5. a \in Assignment /\ a.id = held[c].id BY <1>3, FillConstants, IdentifiedIs
<1>6. CASE /\ Free(None, a) /\ KeyFree(a, assignments)
           /\ ClerkWrites(Saved(a, assignments), LessonsOf({old \in assignments : old.id = a.id} \cup {a}))
  <2> DEFINE ls == LessonsOf({old \in assignments : old.id = a.id} \cup {a})
  <2>1. /\ assignments' = Saved(a, assignments) /\ fill' = fill
        /\ clerkWork' = clerkWork + 1 /\ Changed(ls)
    BY <1>6 DEF ClerkWrites
  <2> HIDE DEF a
  <2>2. ls \subseteq FillLessons BY <1>5, RowFields DEF LessonsOf, RowInv, TypeOK
  <2> HIDE DEF ls
  <2>3. since' \in [Fillers -> SUBSET FillLessons] BY <2>1, <2>2, SinceTyped DEF RowInv
  <2>4. nextRow' \in Nat /\ nextRow <= nextRow' /\ a.id < nextRow' /\ clerkWork' \in Nat
    BY <1>1, <1>2, <1>3, <1>5, <2>1
  <2> QED BY <1>4, <1>5, <1>6, <2>1, <2>3, <2>4, ClerkKeeps
<1>7. CASE UNCHANGED <<assignments, fill, since, clerkWork>>
  <2>1. TypeOK' BY <1>1, <1>4, <1>7 DEF RowInv, TypeOK
  <2>2. IdsGiven' BY <1>1, <1>4, <1>7 DEF RowInv, IdsGiven
  <2>3. TablesSound' /\ Apart' /\ OnlyWriting'
    BY <1>7 DEF RowInv, TablesSound, OneRow, Seen, Apart, OnlyWriting
  <2> QED BY <2>1, <2>2, <2>3 DEF RowInv
<1> QED BY <1>6, <1>7 DEF SaveRow

LEMMA DeleteKeeps == ASSUME RowInv, NEW a \in assignments, DeleteRow(a) PROVE RowInv'
<1>1. /\ assignments' = assignments \ {a} /\ Changed({a.lesson})
      /\ clerkWork' = clerkWork + 1 /\ UNCHANGED <<nextRow, held, fill>>
  BY DEF DeleteRow, ClerkWrites
<1>2. a.lesson \in FillLessons BY RowFields DEF RowInv, TypeOK
<1>3. since' \in [Fillers -> SUBSET FillLessons] BY <1>1, <1>2, SinceTyped DEF RowInv
<1>4. TypeOK' BY <1>1, <1>3 DEF RowInv, TypeOK
<1>5. IdsGiven' BY <1>1 DEF RowInv, IdsGiven
<1>6. \A q \in Fillers : Seen(q)' \subseteq Seen(q) BY <1>1 DEF Seen
<1>7. TablesSound' BY <1>1, <1>6 DEF RowInv, TablesSound, OneRow
<1>8. Apart' /\ OnlyWriting' BY <1>1 DEF RowInv, Apart, OnlyWriting
<1> QED BY <1>4, <1>5, <1>7, <1>8 DEF RowInv

(* An override looks its lesson's row up and writes in one step: the key   *)
(* is free because a lesson has one row.                                   *)
LEMMA OverrideKeeps ==
  ASSUME RowInv, NEW l \in FillLessons, NEW r \in Places, OverridePlace(l, r) PROVE RowInv'
<1> DEFINE old == RowOf(l)
           id == IF old = {} THEN nextRow ELSE (CHOOSE a \in old : TRUE).id
           row == [id |-> id, lesson |-> l, place |-> r, status |-> "published"]
<1>1. /\ row.id <= MaxRows /\ Free(None, row)
      /\ assignments' = Saved(row, assignments) /\ Changed({l}) /\ fill' = fill
      /\ clerkWork' = clerkWork + 1 /\ held' = held
      /\ nextRow' = IF old = {} THEN nextRow + 1 ELSE nextRow
  BY DEF OverridePlace, ClerkWrites
<1>2. /\ nextRow \in Nat /\ nextRow >= 1 /\ clerkWork \in Nat /\ assignments \subseteq Assignment
      /\ held \in [Clerks -> Assignment \cup {None}]
  BY DEF RowInv, TypeOK
<1>3. /\ id \in Nat /\ id >= 1 /\ id < nextRow' /\ nextRow <= nextRow' /\ nextRow' \in Nat
      /\ \A b \in assignments : b.lesson = l => b.id = id
  <2>1. CASE old = {}
    <3>1. \A b \in assignments : b.lesson # l BY <2>1 DEF RowOf
    <3> QED BY <2>1, <3>1, <1>1, <1>2
  <2>2. CASE old # {}
    <3>1. (CHOOSE a \in old : TRUE) \in old BY <2>2
    <3>2. PICK a \in old : id = a.id BY <2>2, <3>1
    <3>3. a \in assignments /\ a.lesson = l /\ a \in Assignment BY <1>2 DEF RowOf
    <3>4. a.id \in Nat /\ a.id >= 1 /\ a.id < nextRow BY <3>3, RowFields DEF RowInv, IdsGiven
    <3>5. \A b \in assignments : b.lesson = l => b = a BY <3>3 DEF RowInv, TablesSound, OneRow
    <3> HIDE DEF id
    <3> QED BY <2>2, <3>2, <3>4, <3>5, <1>1, <1>2
  <2> QED BY <2>1, <2>2
<1>4. row.id = id /\ row.lesson = l OBVIOUS
<1> HIDE DEF id
<1>5. row \in Assignment BY <1>1, <1>3, <1>4 DEF Assignment
<1> HIDE DEF row
<1>6. KeyFree(row, assignments) BY <1>3, <1>4 DEF KeyFree
<1>7. since' \in [Fillers -> SUBSET FillLessons] BY <1>1, SinceTyped DEF RowInv
<1>8. clerkWork' \in Nat BY <1>1, <1>2
<1> QED BY <1>1, <1>2, <1>3, <1>4, <1>5, <1>6, <1>7, <1>8, ClerkKeeps

LEMMA RowsKeep == RowInv /\ [AutofillNext]_autofillVars => RowInv'
<1> SUFFICES ASSUME RowInv, [AutofillNext]_autofillVars PROVE RowInv' OBVIOUS
<1>1. CASE UNCHANGED autofillVars
  BY <1>1 DEF autofillVars, RowInv, TypeOK, IdsGiven, TablesSound, OneRow, Seen, Apart, OnlyWriting
<1>2. ASSUME NEW b \in ClerkRows, OverridePlace(b.lesson, b.place) PROVE RowInv'
  BY <1>2, FillConstants, OverrideKeeps DEF Asked
<1> QED BY <1>1, <1>2, ReadLessonsKeeps, ReadOccupiedKeeps, MakePlanKeeps, LookUpKeeps, UpsertKeeps,
        CommitKeeps, AbortKeeps, CreateKeeps, ReadRowKeeps, SaveKeeps, DeleteKeeps
  DEF AutofillNext

(* The table of assignments, and what each open transaction sees of it,    *)
(* has one row of an id and of a lesson, and no two open transactions have *)
(* written the same (RoomAutofill: service_location_autofill.go,           *)
(* repository_rooms.go).                                                   *)
THEOREM RowsInvariant == AutofillSpec => []RowInv
BY InitHolds, RowsKeep, PTL DEF AutofillSpec

(* A lesson has one assignment, whoever wrote last: updates that bring a   *)
(* deleted row back, overrides and autofills included.                     *)
THEOREM OneAssignment == AutofillSpec => []OneRowPerLesson
<1>1. RowInv => OneRowPerLesson BY DEF RowInv, TablesSound, OneRow, OneRowPerLesson
<1> QED BY <1>1, RowsInvariant, PTL

-----------------------------------------------------------------------------
(* What an autofill relies on when it writes what it planned.              *)
Needy(p, l) == NeedsRoom(l, fill[p].req.replace) \/ l \in since[p]
FreeFor(p, l, r) ==
  \A k \in FillLessons : TimeOf[k] = TimeOf[l] /\ r \in PublishedPlace(k) => k \in since[p]

(* The lessons and rooms of the plan, written or not.                      *)
Given(p) ==
  {<<l, fill[p].plan[l]>> : l \in DOMAIN fill[p].plan} \cup {<<w.lesson, w.place>> : w \in fill[p].written}

LessonsNeedy(p) == fill[p].pc \in {"occupied", "plan"} => \A l \in fill[p].needs : Needy(p, l)
TakenKnown(p) ==
  fill[p].pc = "plan" =>
    \A k \in FillLessons : \A r \in PublishedPlace(k) : <<TimeOf[k], r>> \in fill[p].taken \/ k \in since[p]
GivenSound(p) ==
  fill[p].pc \in {"write", "upsert"} =>
    \A g \in Given(p) :
      /\ Needy(p, g[1]) /\ FreeFor(p, g[1], g[2])
      /\ \A h \in Given(p) : g[1] # h[1] /\ TimeOf[g[1]] = TimeOf[h[1]] => g[2] # h[2]

PlanSound(p) == LessonsNeedy(p) /\ TakenKnown(p) /\ GivenSound(p)
IInv == RowInv /\ \A p \in Fillers : PlanSound(p)

LEMMA GivenTyped ==
  ASSUME TypeOK, NEW p \in Fillers, NEW g \in Given(p)
  PROVE  g[1] \in FillLessons
<1>1. fill[p].plan \in PlanOf /\ fill[p].written \subseteq Assignment BY RunFields DEF TypeOK
<1>2. DOMAIN fill[p].plan \subseteq FillLessons BY <1>1 DEF PlanOf
<1> QED BY <1>1, <1>2, RowFields DEF Given

(* What others change is in since: the rest is as the autofill knows it.   *)
LEMMA OthersKeep ==
  ASSUME TypeOK, NEW q \in Fillers, PlanSound(q), fill'[q] = fill[q],
         fill[q].pc \in {"idle", "done"} \/
           /\ since[q] \subseteq since'[q]
           /\ \A l \in FillLessons \ since'[q] : PublishedPlace(l)' = PublishedPlace(l)
  PROVE  PlanSound(q)'
<1>1. CASE fill[q].pc \in {"idle", "done"} BY <1>1 DEF PlanSound, LessonsNeedy, TakenKnown, GivenSound
<1>2. CASE /\ since[q] \subseteq since'[q]
           /\ \A l \in FillLessons \ since'[q] : PublishedPlace(l)' = PublishedPlace(l)
  <2>1. ASSUME NEW l \in FillLessons, Needy(q, l) PROVE Needy(q, l)'
    <3>1. CASE l \in since'[q] BY <3>1 DEF Needy
    <3>2. CASE l \notin since'[q]
      <4>1. PublishedPlace(l)' = PublishedPlace(l) /\ l \notin since[q] BY <1>2, <3>2
      <4>2. NeedsRoom(l, fill[q].req.replace) BY <2>1, <4>1 DEF Needy
      <4>3. NeedsRoom(l, fill[q].req.replace)' BY <4>1, <4>2 DEF NeedsRoom
      <4> QED BY <4>3 DEF Needy
    <3> QED BY <3>1, <3>2
  <2>2. ASSUME NEW l, NEW r, FreeFor(q, l, r) PROVE FreeFor(q, l, r)'
    BY <1>2, <2>2 DEF FreeFor
  <2>3. fill[q].needs \subseteq FillLessons BY RunFields DEF TypeOK
  <2>4. LessonsNeedy(q)' BY <2>1, <2>3 DEF PlanSound, LessonsNeedy
  <2>5. TakenKnown(q)' BY <1>2 DEF PlanSound, TakenKnown
  <2>6. Given(q)' = Given(q) BY DEF Given
  <2>7. GivenSound(q)'
    <3> SUFFICES ASSUME fill[q].pc \in {"write", "upsert"}, NEW g \in Given(q)
                 PROVE  /\ Needy(q, g[1])' /\ FreeFor(q, g[1], g[2])'
                        /\ \A h \in Given(q) : g[1] # h[1] /\ TimeOf[g[1]] = TimeOf[h[1]] => g[2] # h[2]
      BY <2>6 DEF GivenSound
    <3>1. /\ Needy(q, g[1]) /\ FreeFor(q, g[1], g[2])
          /\ \A h \in Given(q) : g[1] # h[1] /\ TimeOf[g[1]] = TimeOf[h[1]] => g[2] # h[2]
      BY DEF PlanSound, GivenSound
    <3>2. Needy(q, g[1])' BY <2>1, <3>1, GivenTyped
    <3>3. FreeFor(q, g[1], g[2])' BY <2>2, <3>1
    <3> QED BY <3>1, <3>2, <3>3
  <2> QED BY <2>4, <2>5, <2>7 DEF PlanSound
<1> QED BY <1>1, <1>2

(* A change of the rows of lessons ls, whoever made it.                    *)
LEMMA ChangeKeeps ==
  ASSUME TypeOK, NEW q \in Fillers, PlanSound(q), fill'[q] = fill[q],
         NEW ls, Changed(ls), \A l \in FillLessons \ ls : PublishedPlace(l)' = PublishedPlace(l)
  PROVE  PlanSound(q)'
<1>1. fill[q].pc \notin {"idle", "done"} => since'[q] = since[q] \cup ls BY DEF Changed
<1> QED BY <1>1, OthersKeep

(* Rows that come and go are those of lessons ls.                          *)
LEMMA RowsOf ==
  ASSUME NEW ls, \A a : a.lesson \notin ls => (a \in assignments' <=> a \in assignments)
  PROVE  \A l \in FillLessons \ ls : PublishedPlace(l)' = PublishedPlace(l)
BY DEF PublishedPlace, RowOf

LEMMA QuietOthers ==
  ASSUME IInv, NEW p \in Fillers, NEW f, fill' = [fill EXCEPT ![p] = f],
         UNCHANGED <<assignments, since>>, NEW q \in Fillers \ {p}
  PROVE  PlanSound(q)'
<1>1. fill'[q] = fill[q] BY DEF IInv, RowInv, TypeOK
<1>2. \A l \in FillLessons : PublishedPlace(l)' = PublishedPlace(l) BY DEF PublishedPlace, RowOf
<1> QED BY <1>1, <1>2, OthersKeep DEF IInv, RowInv

LEMMA SetsAtP ==
  ASSUME RowInv, NEW p \in Fillers, NEW f, fill' = [fill EXCEPT ![p] = f]
  PROVE  fill'[p] = f
BY DEF RowInv, TypeOK

-----------------------------------------------------------------------------
LEMMA ReadLessonsPlans ==
  ASSUME IInv, NEW p \in Fillers, NEW req \in FillRequests, ReadLessons(p, req) PROVE PlanSound(p)'
<1> DEFINE needs == {l \in FillLessons : GroupOf[l] = req.group /\ NeedsRoom(l, req.replace)}
           f == Planning("occupied", req, needs, {})
<1>1. fill' = [fill EXCEPT ![p] = f] /\ UNCHANGED <<assignments, since>> BY DEF ReadLessons
<1>2. PlansOnly(f, "occupied", req, needs, {}) BY PlanningIs
<1> HIDE DEF f
<1>3. fill'[p] = f BY <1>1, SetsAtP DEF IInv
<1>4. fill'[p].pc = "occupied" /\ fill'[p].req = req /\ fill'[p].needs = needs
  BY <1>2, <1>3 DEF PlansOnly
<1>5. \A l \in needs : Needy(p, l)' BY <1>1, <1>4 DEF Needy, NeedsRoom, PublishedPlace, RowOf
<1> QED BY <1>4, <1>5 DEF PlanSound, LessonsNeedy, TakenKnown, GivenSound

LEMMA ReadOccupiedPlans == ASSUME IInv, NEW p \in Fillers, ReadOccupied(p) PROVE PlanSound(p)'
<1> DEFINE taken == {<<TimeOf[a.lesson], a.place>> : a \in {a \in assignments : a.status = "published"}}
           f == Planning("plan", fill[p].req, fill[p].needs, taken)
<1>1. fill' = [fill EXCEPT ![p] = f] /\ UNCHANGED <<assignments, since>> BY DEF ReadOccupied
<1>2. fill[p].needs \subseteq FillLessons /\ fill[p].req \in FillRequests \cup {None}
  BY RunFields DEF IInv, RowInv, TypeOK
<1>3. taken \subseteq Slots BY TakenIsSlots DEF IInv, RowInv
<1>4. \A k \in FillLessons : \A r \in PublishedPlace(k)' : <<TimeOf[k], r>> \in taken
  BY <1>1 DEF PublishedPlace, RowOf
<1> HIDE DEF taken
<1>5. PlansOnly(f, "plan", fill[p].req, fill[p].needs, taken) BY <1>2, <1>3, PlanningIs
<1> HIDE DEF f
<1>6. fill'[p] = f BY <1>1, SetsAtP DEF IInv
<1>7. /\ fill'[p].pc = "plan" /\ fill'[p].req = fill[p].req /\ fill'[p].needs = fill[p].needs
      /\ fill'[p].taken = taken
  BY <1>5, <1>6 DEF PlansOnly
<1>8. \A l \in fill[p].needs : Needy(p, l) BY DEF ReadOccupied, IInv, PlanSound, LessonsNeedy
<1>9. \A l \in fill[p].needs : Needy(p, l)' BY <1>1, <1>7, <1>8 DEF Needy, NeedsRoom, PublishedPlace, RowOf
<1> QED BY <1>4, <1>7, <1>9 DEF PlanSound, LessonsNeedy, TakenKnown, GivenSound

(* A plan gives a lesson what was free, and no room twice at one time.     *)
LEMMA PlanIsFree ==
  ASSUME NEW needs, NEW taken, NEW ls, ls \subseteq needs, needs \subseteq FillLessons,
         NEW plan \in [ls -> Places], IsPlan(plan, needs, taken)
  PROVE  /\ \A l \in ls : <<TimeOf[l], plan[l]>> \notin taken
         /\ \A k, l \in ls : k # l /\ TimeOf[k] = TimeOf[l] => plan[k] # plan[l]
<1>1. ASSUME NEW l \in ls PROVE <<TimeOf[l], plan[l]>> \notin Busy(taken, plan, l)
  <2>1. plan[l] \in FirstFree(Busy(taken, plan, l), l) BY DEF IsPlan
  <2> QED BY <2>1 DEF FirstFree
<1>2. ASSUME NEW k \in ls, NEW l \in ls, k < l, TimeOf[k] = TimeOf[l] PROVE plan[k] # plan[l]
  <2>1. <<TimeOf[k], plan[k]>> \in Busy(taken, plan, l) BY <1>2 DEF Busy
  <2> QED BY <1>1, <1>2, <2>1
<1>3. \A k, l \in ls : k # l => k < l \/ l < k BY FillConstants
<1>4. \A l \in ls : <<TimeOf[l], plan[l]>> \notin taken BY <1>1 DEF Busy
<1> QED BY <1>2, <1>3, <1>4

LEMMA MakePlanPlans == ASSUME IInv, NEW p \in Fillers, MakePlan(p) PROVE PlanSound(p)'
<1>1. PICK ls \in SUBSET fill[p].needs : \E plan \in [ls -> Places] :
        /\ IsPlan(plan, fill[p].needs, fill[p].taken)
        /\ LET pc == IF fill[p].req.dry \/ ls = {} THEN "done" ELSE "write"
           IN  fill' = [fill EXCEPT ![p] = Writing(pc, fill[p].req, plan, None, {})]
  BY DEF MakePlan
<1>2. PICK plan \in [ls -> Places] :
        /\ IsPlan(plan, fill[p].needs, fill[p].taken)
        /\ LET pc == IF fill[p].req.dry \/ ls = {} THEN "done" ELSE "write"
           IN  fill' = [fill EXCEPT ![p] = Writing(pc, fill[p].req, plan, None, {})]
  BY <1>1
<1> DEFINE pc == IF fill[p].req.dry \/ ls = {} THEN "done" ELSE "write"
           f == Writing(pc, fill[p].req, plan, None, {})
<1>3. pc \in {"write", "upsert", "done"} OBVIOUS
<1>4. fill' = [fill EXCEPT ![p] = f] BY <1>2
<1> HIDE DEF pc
<1>5. fill[p].needs \subseteq FillLessons /\ fill[p].req \in FillRequests \cup {None}
  BY RunFields DEF IInv, RowInv, TypeOK
<1>6. plan \in PlanOf BY <1>5 DEF PlanOf
<1>7. {} \in SUBSET Assignment /\ None \in Assignment \cup {None} OBVIOUS
<1>8. f \in Runs /\ f.pc = pc /\ f.req = fill[p].req /\ f.plan = plan /\ f.written = {}
  BY <1>3, <1>5, <1>6, <1>7, WritingIs
<1> HIDE DEF f
<1>9. fill'[p] = f BY <1>4, SetsAtP DEF IInv
<1>10. UNCHANGED <<assignments, since>> /\ fill[p].pc = "plan" BY DEF MakePlan
<1>11. /\ \A l \in ls : <<TimeOf[l], plan[l]>> \notin fill[p].taken
       /\ \A k, l \in ls : k # l /\ TimeOf[k] = TimeOf[l] => plan[k] # plan[l]
  <2>1. ls \subseteq fill[p].needs /\ IsPlan(plan, fill[p].needs, fill[p].taken) BY <1>1, <1>2
  <2> QED BY <1>5, <2>1, PlanIsFree
<1>13. Given(p)' = {<<l, plan[l]>> : l \in ls} BY <1>8, <1>9 DEF Given
<1>14. ASSUME NEW l \in ls PROVE Needy(p, l)' /\ FreeFor(p, l, plan[l])'
  <2>1. Needy(p, l) BY <1>1, <1>10 DEF IInv, PlanSound, LessonsNeedy
  <2>2. Needy(p, l)' BY <1>8, <1>9, <1>10, <2>1 DEF Needy, NeedsRoom, PublishedPlace, RowOf
  <2>3. \A k \in FillLessons : \A r \in PublishedPlace(k) :
          <<TimeOf[k], r>> \in fill[p].taken \/ k \in since[p]
    BY <1>10 DEF IInv, PlanSound, TakenKnown
  <2>4. FreeFor(p, l, plan[l]) BY <1>11, <2>3 DEF FreeFor
  <2>5. FreeFor(p, l, plan[l])' BY <1>10, <2>4 DEF FreeFor, PublishedPlace, RowOf
  <2> QED BY <2>2, <2>5
<1>15. GivenSound(p)' BY <1>11, <1>13, <1>14 DEF GivenSound
<1>16. LessonsNeedy(p)' /\ TakenKnown(p)' BY <1>3, <1>8, <1>9 DEF LessonsNeedy, TakenKnown
<1> QED BY <1>15, <1>16 DEF PlanSound

(* A step that leaves the request, and gives no lesson a room that it was  *)
(* not given before.                                                       *)
LEMMA WritingPlans ==
  ASSUME IInv, NEW p \in Fillers, UNCHANGED <<assignments, since>>,
         fill[p].pc \in {"write", "upsert"},
         fill'[p].pc \in {"write", "upsert", "done"}, fill'[p].req = fill[p].req,
         Given(p)' \subseteq Given(p)
  PROVE  PlanSound(p)'
<1>1. ASSUME NEW g \in Given(p)'
      PROVE  /\ Needy(p, g[1])' /\ FreeFor(p, g[1], g[2])'
             /\ \A h \in Given(p)' : g[1] # h[1] /\ TimeOf[g[1]] = TimeOf[h[1]] => g[2] # h[2]
  <2>1. /\ Needy(p, g[1]) /\ FreeFor(p, g[1], g[2])
        /\ \A h \in Given(p)' : g[1] # h[1] /\ TimeOf[g[1]] = TimeOf[h[1]] => g[2] # h[2]
    BY DEF IInv, PlanSound, GivenSound
  <2>2. Needy(p, g[1])' BY <2>1 DEF Needy, NeedsRoom, PublishedPlace, RowOf
  <2>3. FreeFor(p, g[1], g[2])' BY <2>1 DEF FreeFor, PublishedPlace, RowOf
  <2> QED BY <2>1, <2>2, <2>3
<1>2. GivenSound(p)' BY <1>1 DEF GivenSound
<1>3. LessonsNeedy(p)' /\ TakenKnown(p)' BY DEF LessonsNeedy, TakenKnown
<1> QED BY <1>2, <1>3 DEF PlanSound

LEMMA LookUpPlans == ASSUME IInv, NEW p \in Fillers, NEW l, LookUp(p, l) PROVE PlanSound(p)'
<1> DEFINE old == {a \in Seen(p) : a.lesson = l}
           found == IF old = {} THEN None ELSE CHOOSE a \in old : TRUE
           f == Writing("upsert", fill[p].req, fill[p].plan, found, fill[p].written)
<1>1. found = None \/ found \in Seen(p) OBVIOUS
<1>2. fill' = [fill EXCEPT ![p] = f] /\ fill[p].pc = "write" /\ UNCHANGED <<assignments, since>>
  BY DEF LookUp
<1> HIDE DEF found
<1>3. /\ fill[p].req \in FillRequests \cup {None} /\ fill[p].plan \in PlanOf
      /\ fill[p].written \in SUBSET Assignment
  BY RunFields DEF IInv, RowInv, TypeOK
<1>4. found \in Assignment \cup {None} BY <1>1, <1>3 DEF Seen, IInv, RowInv, TypeOK
<1>5. f.pc = "upsert" /\ f.req = fill[p].req /\ f.plan = fill[p].plan /\ f.written = fill[p].written
  BY <1>3, <1>4, WritingIs
<1> HIDE DEF f
<1>6. fill'[p] = f BY <1>2, SetsAtP DEF IInv
<1>7. Given(p)' = Given(p) BY <1>5, <1>6 DEF Given
<1> QED BY <1>2, <1>5, <1>6, <1>7, WritingPlans

LEMMA UpsertPlans == ASSUME IInv, NEW p \in Fillers, NEW l \in Todo(p), Upsert(p, l) PROVE PlanSound(p)'
<1>1. PICK row \in Assignment, f \in Runs :
        /\ row.lesson = l /\ row.place = fill[p].plan[l] /\ row.status = "published"
        /\ row.id < nextRow' /\ nextRow <= nextRow' /\ nextRow' \in Nat
        /\ Free(p, row) /\ KeyFree(row, Seen(p))
        /\ f.pc = "write" /\ f.req = fill[p].req /\ f.found = None
        /\ f.written = Saved(row, fill[p].written)
        /\ f.plan = Restrict(fill[p].plan, DOMAIN fill[p].plan \ {l})
        /\ fill' = [fill EXCEPT ![p] = f]
  <2>1. RowInv BY DEF IInv
  <2> QED BY <2>1, Upserted
<1>2. fill[p].pc = "upsert" /\ UNCHANGED <<assignments, since>> BY DEF Upsert
<1>3. fill'[p] = f BY <1>1, SetsAtP DEF IInv
<1>4. Given(p)' \subseteq Given(p)
  <2> SUFFICES ASSUME NEW g \in Given(p)' PROVE g \in Given(p) OBVIOUS
  <2>1. CASE \E k \in DOMAIN f.plan : g = <<k, f.plan[k]>>
    <3>1. PICK k \in DOMAIN f.plan : g = <<k, f.plan[k]>> BY <2>1
    <3>2. k \in DOMAIN fill[p].plan /\ f.plan[k] = fill[p].plan[k] BY <1>1, <3>1 DEF Restrict
    <3> QED BY <3>1, <3>2 DEF Given
  <2>2. CASE \E w \in f.written : g = <<w.lesson, w.place>>
    <3>1. PICK w \in f.written : g = <<w.lesson, w.place>> BY <2>2
    <3>2. w = row \/ w \in fill[p].written BY <1>1, <3>1 DEF Saved
    <3>3. l \in DOMAIN fill[p].plan BY DEF Todo
    <3> QED BY <1>1, <3>1, <3>2, <3>3 DEF Given
  <2> QED BY <1>3, <2>1, <2>2 DEF Given
<1> QED BY <1>1, <1>2, <1>3, <1>4, WritingPlans

(* An autofill that has ended relies on nothing.                           *)
LEMMA EndedPlans == ASSUME NEW p \in Fillers, fill'[p].pc = "done" PROVE PlanSound(p)'
BY DEF PlanSound, LessonsNeedy, TakenKnown, GivenSound

LEMMA AbortPlans == ASSUME IInv, NEW p \in Fillers, AbortFill(p) PROVE PlanSound(p)'
<1> DEFINE f == Planning("done", None, {}, {})
<1>1. fill' = [fill EXCEPT ![p] = f] BY DEF AbortFill
<1>2. PlansOnly(f, "done", None, {}, {}) BY PlanningIs
<1> HIDE DEF f
<1>3. fill'[p].pc = "done" BY <1>1, <1>2, SetsAtP DEF IInv, PlansOnly
<1> QED BY <1>3, EndedPlans

LEMMA CommitPlans ==
  ASSUME IInv, NEW p \in Fillers, CommitFill(p), NEW q \in Fillers PROVE PlanSound(q)'
<1> DEFINE f == Writing("done", fill[p].req, NoPlan, None, {})
           ls == LessonsOf((assignments \ Seen(p)) \cup (Seen(p) \ assignments))
<1>1. fill' = [fill EXCEPT ![p] = f] /\ assignments' = Seen(p) /\ Changed(ls) BY DEF CommitFill
<1>2. fill \in [Fillers -> Runs] /\ fill[p].req \in FillRequests \cup {None}
  BY RunFields DEF IInv, RowInv, TypeOK
<1>3. f.pc = "done"
  <2>1. {} \in SUBSET Assignment /\ None \in Assignment \cup {None} OBVIOUS
  <2> QED BY <1>2, <2>1, NoPlanIsPlan, WritingIs
<1> HIDE DEF f
<1>4. CASE q = p
  <2>1. fill'[p].pc = "done" BY <1>1, <1>2, <1>3
  <2> QED BY <1>4, <2>1, EndedPlans
<1>5. CASE q # p
  <2>1. fill'[q] = fill[q] BY <1>1, <1>2, <1>5
  <2>2. \A a : a.lesson \notin ls => (a \in assignments' <=> a \in assignments) BY <1>1 DEF LessonsOf
  <2> HIDE DEF ls
  <2>3. \A l \in FillLessons \ ls : PublishedPlace(l)' = PublishedPlace(l) BY <2>2, RowsOf
  <2> QED BY <1>1, <2>1, <2>3, ChangeKeeps DEF IInv, RowInv
<1> QED BY <1>4, <1>5

-----------------------------------------------------------------------------
LEMMA ClerkPlans ==
  ASSUME IInv, NEW table, NEW ls, ClerkWrites(table, ls),
         \A a : a.lesson \notin ls => (a \in table <=> a \in assignments), NEW q \in Fillers
  PROVE  PlanSound(q)'
<1>1. assignments' = table /\ Changed(ls) /\ fill' = fill BY DEF ClerkWrites
<1>2. \A l \in FillLessons \ ls : PublishedPlace(l)' = PublishedPlace(l) BY <1>1, RowsOf
<1> QED BY <1>1, <1>2, ChangeKeeps DEF IInv, RowInv

LEMMA NoChangePlans ==
  ASSUME IInv, UNCHANGED <<assignments, fill, since>>, NEW q \in Fillers PROVE PlanSound(q)'
<1>1. \A l \in FillLessons : PublishedPlace(l)' = PublishedPlace(l) BY DEF PublishedPlace, RowOf
<1> QED BY <1>1, OthersKeep DEF IInv, RowInv

LEMMA CreatePlans ==
  ASSUME IInv, NEW b \in ClerkRows, CreateRow(b), NEW q \in Fillers PROVE PlanSound(q)'
<1> DEFINE a == Identified(nextRow, b)
<1>1. ClerkWrites(assignments \cup {a}, {a.lesson}) BY DEF CreateRow
<1> HIDE DEF a
<1>2. \A x : x.lesson \notin {a.lesson} => (x \in assignments \cup {a} <=> x \in assignments) OBVIOUS
<1> QED BY <1>1, <1>2, ClerkPlans

LEMMA SavePlans ==
  ASSUME IInv, NEW c \in Clerks, NEW b \in ClerkRows, SaveRow(c, b), NEW q \in Fillers
  PROVE  PlanSound(q)'
<1> DEFINE a == Identified(held[c].id, b)
           ls == LessonsOf({old \in assignments : old.id = a.id} \cup {a})
<1>1. ClerkWrites(Saved(a, assignments), ls) \/ UNCHANGED <<assignments, fill, since>>
  BY DEF SaveRow
<1> HIDE DEF a
<1>2. \A x : x.lesson \notin ls => (x \in Saved(a, assignments) <=> x \in assignments)
  BY DEF Saved, LessonsOf
<1> HIDE DEF ls
<1> QED BY <1>1, <1>2, ClerkPlans, NoChangePlans

LEMMA DeletePlans ==
  ASSUME IInv, NEW a \in assignments, DeleteRow(a), NEW q \in Fillers PROVE PlanSound(q)'
<1>1. ClerkWrites(assignments \ {a}, {a.lesson}) BY DEF DeleteRow
<1>2. \A x : x.lesson \notin {a.lesson} => (x \in assignments \ {a} <=> x \in assignments) OBVIOUS
<1> QED BY <1>1, <1>2, ClerkPlans

LEMMA OverridePlans ==
  ASSUME IInv, NEW l \in FillLessons, NEW r, OverridePlace(l, r), NEW q \in Fillers
  PROVE  PlanSound(q)'
<1> DEFINE old == RowOf(l)
           id == IF old = {} THEN nextRow ELSE (CHOOSE a \in old : TRUE).id
           row == [id |-> id, lesson |-> l, place |-> r, status |-> "published"]
<1>1. row.id <= MaxRows /\ ClerkWrites(Saved(row, assignments), {l}) BY DEF OverridePlace
<1>2. row.id = id /\ row.lesson = l OBVIOUS
<1>3. \A b \in assignments : b.id = id => b.lesson = l
  <2>1. CASE old = {} BY <2>1, RowFields DEF IInv, RowInv, TypeOK, IdsGiven
  <2>2. CASE old # {}
    <3>1. PICK a \in old : id = a.id BY <2>2
    <3>2. a \in assignments /\ a.lesson = l BY DEF RowOf
    <3> HIDE DEF id
    <3> QED BY <3>1, <3>2 DEF IInv, RowInv, TablesSound, OneRow
  <2> QED BY <2>1, <2>2
<1> HIDE DEF row, id
<1>4. \A x : x.lesson \notin {l} => (x \in Saved(row, assignments) <=> x \in assignments)
  BY <1>2, <1>3 DEF Saved
<1> QED BY <1>1, <1>4, ClerkPlans

LEMMA PlansKeep == IInv /\ [AutofillNext]_autofillVars => IInv'
<1> SUFFICES ASSUME IInv, [AutofillNext]_autofillVars, NEW q \in Fillers PROVE PlanSound(q)'
  BY RowsKeep DEF IInv
<1>1. CASE UNCHANGED autofillVars BY <1>1, NoChangePlans DEF autofillVars
<1>2. ASSUME NEW p \in Fillers, NEW req \in FillRequests, ReadLessons(p, req) PROVE PlanSound(q)'
  <2>1. (\E f : fill' = [fill EXCEPT ![p] = f]) /\ UNCHANGED <<assignments, since>> BY <1>2 DEF ReadLessons
  <2>2. CASE q = p BY <1>2, <2>2, ReadLessonsPlans
  <2>3. CASE q # p BY <2>1, <2>3, QuietOthers
  <2> QED BY <2>2, <2>3
<1>3. ASSUME NEW p \in Fillers, ReadOccupied(p) PROVE PlanSound(q)'
  <2>1. (\E f : fill' = [fill EXCEPT ![p] = f]) /\ UNCHANGED <<assignments, since>> BY <1>3 DEF ReadOccupied
  <2>2. CASE q = p BY <1>3, <2>2, ReadOccupiedPlans
  <2>3. CASE q # p BY <2>1, <2>3, QuietOthers
  <2> QED BY <2>2, <2>3
<1>4. ASSUME NEW p \in Fillers, MakePlan(p) PROVE PlanSound(q)'
  <2>1. (\E f : fill' = [fill EXCEPT ![p] = f]) /\ UNCHANGED <<assignments, since>> BY <1>4 DEF MakePlan
  <2>2. CASE q = p BY <1>4, <2>2, MakePlanPlans
  <2>3. CASE q # p BY <2>1, <2>3, QuietOthers
  <2> QED BY <2>2, <2>3
<1>5. ASSUME NEW p \in Fillers, NEW l \in Todo(p), LookUp(p, l) PROVE PlanSound(q)'
  <2>1. (\E f : fill' = [fill EXCEPT ![p] = f]) /\ UNCHANGED <<assignments, since>> BY <1>5 DEF LookUp
  <2>2. CASE q = p BY <1>5, <2>2, LookUpPlans
  <2>3. CASE q # p BY <2>1, <2>3, QuietOthers
  <2> QED BY <2>2, <2>3
<1>6. ASSUME NEW p \in Fillers, NEW l \in Todo(p), Upsert(p, l) PROVE PlanSound(q)'
  <2>1. (\E f : fill' = [fill EXCEPT ![p] = f]) /\ UNCHANGED <<assignments, since>> BY <1>6 DEF Upsert
  <2>2. CASE q = p BY <1>6, <2>2, UpsertPlans
  <2>3. CASE q # p BY <2>1, <2>3, QuietOthers
  <2> QED BY <2>2, <2>3
<1>7. ASSUME NEW p \in Fillers, AbortFill(p) PROVE PlanSound(q)'
  <2>1. (\E f : fill' = [fill EXCEPT ![p] = f]) /\ UNCHANGED <<assignments, since>> BY <1>7 DEF AbortFill
  <2>2. CASE q = p BY <1>7, <2>2, AbortPlans
  <2>3. CASE q # p BY <2>1, <2>3, QuietOthers
  <2> QED BY <2>2, <2>3
<1>8. ASSUME NEW b \in ClerkRows, OverridePlace(b.lesson, b.place) PROVE PlanSound(q)'
  BY <1>8, FillConstants, OverridePlans DEF Asked
<1>9. ASSUME NEW c \in Clerks, NEW a \in assignments, ReadRow(c, a) PROVE PlanSound(q)'
  BY <1>9, NoChangePlans DEF ReadRow
<1> QED BY <1>1, <1>2, <1>3, <1>4, <1>5, <1>6, <1>7, <1>8, <1>9, CommitPlans, CreatePlans, SavePlans, DeletePlans
  DEF AutofillNext

LEMMA PlansInit == AutofillInit => IInv
<1> SUFFICES ASSUME AutofillInit PROVE IInv OBVIOUS
<1>1. PlansOnly(Idle, "idle", None, {}, {}) BY PlanningIs DEF Idle
<1> HIDE DEF Idle
<1>2. \A p \in Fillers : fill[p].pc = "idle" BY <1>1 DEF AutofillInit, PlansOnly
<1> QED BY <1>2, InitHolds DEF IInv, PlanSound, LessonsNeedy, TakenKnown, GivenSound

(* What an autofill plans and writes is sound as far as nobody changed     *)
(* what it had read: the lessons need their rooms, and the rooms are free  *)
(* (RoomAutofill: service_location_autofill.go, AutofillLocations).        *)
THEOREM Invariant == AutofillSpec => []IInv
BY PlansInit, PlansKeep, PTL DEF AutofillSpec

-----------------------------------------------------------------------------
(* Only the autofill's own commit publishes what it has written.           *)
LEMMA OnlyCommits ==
  ASSUME IInv, [AutofillNext]_autofillVars, NEW p \in Fillers, Committing(p)
  PROVE  CommitFill(p)
<1>1. ASSUME NEW q \in Fillers \ {p}, CommitFill(q) PROVE FALSE
  <2>1. fill'[p] = fill[p] BY <1>1 DEF CommitFill, IInv, RowInv, TypeOK
  <2> QED BY <2>1 DEF Committing
<1>2. fill' # fill /\ assignments' # assignments BY DEF Committing
<1>3. AutofillNext BY <1>2 DEF autofillVars
<1>4. ASSUME NEW q \in Fillers,
             \/ \E req \in FillRequests : ReadLessons(q, req)
             \/ ReadOccupied(q) \/ MakePlan(q) \/ AbortFill(q)
             \/ \E l \in Todo(q) : LookUp(q, l) \/ Upsert(q, l)
      PROVE  FALSE
  BY <1>2, <1>4 DEF ReadLessons, ReadOccupied, MakePlan, AbortFill, LookUp, Upsert
<1>5. ASSUME NEW b \in ClerkRows,
             CreateRow(b) \/ (\E c \in Clerks : SaveRow(c, b)) \/ OverridePlace(b.lesson, b.place)
      PROVE  FALSE
  BY <1>2, <1>5 DEF CreateRow, SaveRow, OverridePlace, ClerkWrites
<1>6. ASSUME NEW a \in assignments, DeleteRow(a) \/ \E c \in Clerks : ReadRow(c, a) PROVE FALSE
  BY <1>2, <1>6 DEF DeleteRow, ReadRow, ClerkWrites
<1> QED BY <1>1, <1>3, <1>4, <1>5, <1>6 DEF AutofillNext

(* What the commit publishes for a lesson that it fills is what was given. *)
LEMMA Published ==
  ASSUME IInv, NEW p \in Fillers, CommitFill(p), NEW l \in Filled(p), NEW r \in PublishedPlace(l)'
  PROVE  <<l, r>> \in Given(p)
<1>1. assignments' = Seen(p) /\ fill[p].written \subseteq Seen(p) BY DEF CommitFill, Seen
<1>2. PICK a \in Seen(p) : a.lesson = l /\ a.place = r BY <1>1 DEF PublishedPlace, RowOf
<1>3. PICK w \in fill[p].written : w.lesson = l BY DEF Filled, LessonsOf
<1>4. w = a BY <1>1, <1>2, <1>3 DEF IInv, RowInv, TablesSound, OneRow
<1> QED BY <1>2, <1>3, <1>4 DEF Given

(* The other lessons keep their rows or lose them.                         *)
LEMMA Unfilled ==
  ASSUME IInv, NEW p \in Fillers, CommitFill(p), NEW k, k \notin Filled(p)
  PROVE  PublishedPlace(k)' \subseteq PublishedPlace(k)
<1>1. assignments' = Seen(p) BY DEF CommitFill
<1>2. \A a \in Seen(p) : a.lesson = k => a \in assignments BY DEF Seen, Filled, LessonsOf
<1> QED BY <1>1, <1>2 DEF PublishedPlace, RowOf

LEMMA FillIsNewer ==
  ASSUME IInv, NEW p \in Fillers, CommitFill(p), NEW l \in Filled(p), NEW k \in FillLessons \ {l},
         TimeOf[k] = TimeOf[l], (PublishedPlace(k) \cap PublishedPlace(l))' # {}
  PROVE  k \in since[p] \ Filled(p)
<1>1. PICK r : r \in PublishedPlace(k)' /\ r \in PublishedPlace(l)' OBVIOUS
<1>2. <<l, r>> \in Given(p) BY <1>1, Published
<1>3. /\ FreeFor(p, l, r)
      /\ \A h \in Given(p) : l # h[1] /\ TimeOf[l] = TimeOf[h[1]] => r # h[2]
  BY <1>2 DEF CommitFill, IInv, PlanSound, GivenSound
<1>4. k \notin Filled(p)
  <2> SUFFICES ASSUME k \in Filled(p) PROVE FALSE OBVIOUS
  <2>1. <<k, r>> \in Given(p) BY <1>1, Published
  <2> QED BY <1>3, <2>1
<1>5. r \in PublishedPlace(k) BY <1>1, <1>4, Unfilled
<1> QED BY <1>3, <1>4, <1>5 DEF FreeFor

LEMMA FillIsNeeded ==
  ASSUME IInv, NEW p \in Fillers, CommitFill(p), NEW l \in Filled(p)
  PROVE  \/ PublishedPlace(l) = {} \/ l \in since[p]
         \/ fill[p].req.replace /\ PublishedPlace(l) \subseteq VirtualPlaces
<1>1. PICK w \in fill[p].written : w.lesson = l BY DEF Filled, LessonsOf
<1>2. <<l, w.place>> \in Given(p) BY <1>1 DEF Given
<1>3. Needy(p, l) BY <1>2 DEF CommitFill, IInv, PlanSound, GivenSound
<1> QED BY <1>3 DEF Needy, NeedsRoom

(* An autofill gives no room to two lessons of one time, and not one that  *)
(* another lesson had, unless that lesson's assignment was changed after   *)
(* the autofill began to read (RoomAutofill: AutofillLocations).           *)
THEOREM OnlyStaleClashes == AutofillSpec => ClashesAreNewer
<1>1. IInv /\ [AutofillNext]_autofillVars =>
        [\A p \in Fillers : Committing(p) =>
           \A l \in Filled(p) : \A k \in FillLessons \ {l} :
             TimeOf[k] = TimeOf[l] /\ (PublishedPlace(k) \cap PublishedPlace(l))' # {}
               => k \in since[p] \ Filled(p)]_autofillVars
  BY OnlyCommits, FillIsNewer
<1> QED BY <1>1, Invariant, PTL DEF AutofillSpec, ClashesAreNewer

(* An autofill takes no published room away that it had seen and was not   *)
(* asked to replace (RoomAutofill: lessonViewNeedsAutofill).               *)
THEOREM NoRoomTaken == AutofillSpec => RoomsKept
<1>1. IInv /\ [AutofillNext]_autofillVars =>
        [\A p \in Fillers : Committing(p) =>
           \A l \in Filled(p) :
             \/ PublishedPlace(l) = {} \/ l \in since[p]
             \/ fill[p].req.replace /\ PublishedPlace(l) \subseteq VirtualPlaces]_autofillVars
  BY OnlyCommits, FillIsNeeded
<1> QED BY <1>1, Invariant, PTL DEF AutofillSpec, RoomsKept
=============================================================================
