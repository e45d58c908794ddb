--------------------------- MODULE LessonTx_proofs ---------------------------
(***************************************************************************)
(* Proofs about LessonTx for any number of requests, lessons and slots:    *)
(* IInv is an inductive invariant, and every step of the transactions is   *)
(* a step of LessonRegister or leaves the lessons and the journal alone.   *)
(***************************************************************************)
EXTENDS LessonTx, TLAPS

-----------------------------------------------------------------------------
(* The row a request writes. *)

LEMMA NoRowIsRow == NoRow \in Row /\ ~Exists(NoRow) /\ ~Active(NoRow)
BY DEF NoRow, Row, Statuses, Exists, Active

LEMMA ActiveExists == ASSUME NEW row, Active(row) PROVE Exists(row)
BY DEF Active, Exists

\* A request writes a row with a status and the version after the one it read.
LEMMA RowWritten ==
    ASSUME TypeOK, NEW p \in Proc
    PROVE  /\ RowToWrite(p) \in Row
           /\ RowToWrite(p).version = seen[p].version + 1
           /\ Exists(RowToWrite(p))
<1> DEFINE r == req[p]
           s == seen[p]
<1>1. r \in Request /\ s \in Row
  BY ConstantsOK DEF TypeOK
<1>2. s.version \in Nat /\ s.version + 1 \in Nat
  BY <1>1 DEF Row
<1>3. CASE r.op = "cancel"
  <2>1. RowToWrite(p) = [s EXCEPT !.status = "cancelled", !.version = s.version + 1]
    BY <1>3 DEF RowToWrite
  <2> QED BY <1>1, <1>2, <2>1 DEF Row, Statuses, Exists
<1>4. CASE r.op \in {"replace", "restore"}
  <2>1. RowToWrite(p) = [s EXCEPT !.subject = Pick(r.subject, s.subject),
                                  !.teacher = Pick(r.teacher, s.teacher),
                                  !.status = "published", !.version = s.version + 1]
    BY <1>4 DEF RowToWrite
  <2>2. /\ Pick(r.subject, s.subject) \in Subject \cup {None}
        /\ Pick(r.teacher, s.teacher) \in Teacher \cup {None}
    BY <1>1 DEF Pick, Row, Request
  <2> QED BY <1>1, <1>2, <2>1, <2>2 DEF Row, Statuses, Exists
<1>5. CASE r.op = "add"
  <2>1. RowToWrite(p) = [slot |-> r.slot, subject |-> r.subject, teacher |-> r.teacher,
                         flow |-> None, status |-> "published", version |-> s.version + 1]
    BY <1>5 DEF RowToWrite
  <2> QED BY <1>1, <1>2, <2>1 DEF Row, Statuses, Exists, Request
<1>6. CASE r.op \notin Actions
  <2>1. RowToWrite(p) = [slot |-> r.slot, subject |-> r.subject, teacher |-> r.teacher,
                         flow |-> r.flow, status |-> r.status, version |-> s.version + 1]
    BY <1>6 DEF RowToWrite, Actions
  <2> QED BY <1>1, <1>2, <2>1 DEF Row, Statuses, Exists, Request
<1> QED BY <1>3, <1>4, <1>5, <1>6 DEF Actions

LEMMA RowDependsOn ==
    ASSUME NEW p \in Proc, req'[p] = req[p], seen'[p] = seen[p]
    PROVE  RowToWrite(p)' = RowToWrite(p)
BY DEF RowToWrite

-----------------------------------------------------------------------------
(* Steps that only move the program counter of one request on. *)

LEMMA QuietStep ==
    ASSUME IInv, TypeOK', NEW p \in Proc, NEW label \in Labels \ {"idle", "find", "lock"},
           Goto(p, label),
           UNCHANGED <<lessons, journal, rooms, issued, lock, req, mine, seen>>,
           Course(p)', HoldsRow(p)' => HoldsRow(p), Saved(p)' => Saved(p)
    PROVE  IInv'
<1>1. \A q \in Proc : RowToWrite(q)' = RowToWrite(q)
  BY RowDependsOn
<1>2. \A q \in Proc \ {p} : pc'[q] = pc[q]
  BY DEF Goto, IInv, TypeOK
<1>3. pc'[p] = label
  BY DEF Goto, IInv, TypeOK
<1>4. \A q \in Proc : Course(q)'
  BY <1>2 DEF IInv, Course
<1>5. \A q \in Proc : (HoldsRow(q)' => HoldsRow(q)) /\ (Saved(q)' => Saved(q))
  BY <1>2 DEF HoldsRow, Saved
<1>6. \A q \in Proc : Owns(q)'
  BY <1>2, <1>3, <1>5 DEF IInv, Owns
<1>7. \A q \in Proc : SlotReserved(q)'
  BY <1>1, <1>5 DEF IInv, SlotReserved, SlotFree
<1>8. NoLostUpdate'
  BY <1>5 DEF IInv, NoLostUpdate
<1>9. /\ KeysIssued' /\ SlotUnique' /\ RoomsHaveLessons'
  BY DEF IInv, KeysIssued, SlotUnique, RoomsHaveLessons
<1>10. JournalVersions'
  BY DEF IInv, JournalVersions
<1> QED BY <1>4, <1>6, <1>7, <1>8, <1>9, <1>10 DEF IInv

-----------------------------------------------------------------------------
(* Type correctness. *)

LEMMA InitTyped == Init => TypeOK
<1> SUFFICES ASSUME Init PROVE TypeOK
  OBVIOUS
<1>1. (CHOOSE r \in Requests : TRUE) \in Requests
  BY ConstantsOK
<1>2. req \in [Proc -> Requests]
  BY <1>1 DEF Init
<1>3. journal \in Seq(Entry) /\ dataVersion \in Nat /\ issued \subseteq LessonId
  BY DEF Init
<1>4. pc \in [Proc -> Labels]
  BY DEF Init, Labels
<1>5. seen \in [Proc -> Row] /\ seenRoom \in [Proc -> Room]
  BY NoRowIsRow DEF Init, NoRoom, Room
<1> QED BY <1>2, <1>3, <1>4, <1>5, InitialDatabaseOK DEF Init, TypeOK

LEMMA Moves ==
    ASSUME TypeOK, NEW p \in Proc, NEW label, Goto(p, label), label \in Labels
    PROVE  pc' \in [Proc -> Labels]
BY DEF Goto, TypeOK

LEMMA FailTyped == ASSUME TypeOK, NEW p \in Proc, Fail(p) PROVE TypeOK'
<1>1. pc' \in [Proc -> Labels]
  BY Moves DEF Fail, Labels
<1>2. lock' \in [LessonId -> Proc \cup {None}]
  BY DEF Fail, WithoutLocksOf, TypeOK
<1> QED BY <1>1, <1>2 DEF Fail, TypeOK, dbVars

LEMMA EntryWritten ==
    ASSUME TypeOK, NEW p \in Proc, req[p].op \in OverrideOps, mine[p] \in LessonId
    PROVE  EntryToWrite(p) \in Entry /\ NextLoc(p) \in Location \cup {None}
<1> DEFINE row == RowToWrite(p)
<1>1. req[p] \in Request /\ seen[p] \in Row /\ seenRoom[p] \in Room
  BY ConstantsOK DEF TypeOK
<1>2. row \in Row
  BY RowWritten
<1>3. NextLoc(p) \in Location \cup {None} /\ seenRoom[p].loc \in Location \cup {None}
  BY <1>1 DEF NextLoc, Pick, Request, Room
<1>4. /\ Snap(row) \in [subject : Subject \cup {None}, teacher : Teacher \cup {None}]
      /\ Snap(seen[p]) \in [subject : Subject \cup {None}, teacher : Teacher \cup {None}]
      /\ Nothing \in [subject : Subject \cup {None}, teacher : Teacher \cup {None}]
      /\ row.version \in Nat
  BY <1>1, <1>2 DEF Snap, Nothing, Row
<1>5. req[p].op \in Actions /\ req[p].expected \in Nat
  BY <1>1 DEF OverrideOps, Request
<1> HIDE DEF row
<1> QED BY <1>3, <1>4, <1>5 DEF EntryToWrite, Entry, row

LEMMA StepTyped ==
    ASSUME IInv, NEW p \in Proc, Begin(p) \/ Step(p)
    PROVE  TypeOK'
<1> USE DEF dbVars, txVars
<1>0. TypeOK /\ Course(p) /\ Owns(p)
  BY DEF IInv
<1>1. CASE Begin(p)
  <2>1. \A r \in Requests : Entrance(r) \in Labels
    BY DEF Entrance, Labels
  <2> QED BY <1>0, <1>1, <2>1, Moves DEF Begin, TypeOK
<1>2. CASE FindLesson(p)
  <2>1. CASE Fail(p)
    BY <1>0, <2>1, FailTyped
  <2>2. CASE Goto(p, "lock")
    <3>1. pc' \in [Proc -> Labels]
      BY <1>0, <2>2, Moves DEF Labels
    <3> QED BY <1>0, <1>2, <3>1, FailTyped DEF FindLesson, TypeOK
  <2> QED BY <1>2, <2>1, <2>2 DEF FindLesson
<1>3. CASE LockLesson(p)
  <2>1. CASE Fail(p)
    BY <1>0, <2>1, FailTyped
  <2>2. CASE ~Fail(p)
    <3>1. /\ lock' = [lock EXCEPT ![mine[p]] = p]
          /\ seen' = [seen EXCEPT ![p] = lessons[mine[p]]]
          /\ Goto(p, IF req[p].op # "update" THEN "room"
                     ELSE IF req[p].status = "cancelled" THEN "teacher" ELSE "day")
          /\ UNCHANGED <<dbVars, issued, sysLock, req, mine, seenRoom>>
      BY <1>3, <2>2 DEF LockLesson
    <3>2. pc' \in [Proc -> Labels]
      BY <1>0, <3>1, Moves DEF Labels
    <3>3. mine[p] \in LessonId
      BY <1>0, <1>3 DEF Owns, LockLesson
    <3> QED BY <1>0, <3>1, <3>2, <3>3 DEF TypeOK
  <2> QED BY <2>1, <2>2
<1>4. CASE ReadRoom(p)
  <2>1. pc' \in [Proc -> Labels]
    BY <1>0, <1>4, Moves DEF ReadRoom, Labels
  <2>2. mine[p] \in LessonId
    BY <1>0, <1>4 DEF Owns, HoldsRow, Course, ReadRoom
  <2> QED BY <1>0, <1>4, <2>1, <2>2 DEF ReadRoom, TypeOK
<1>5. CASE CheckSlotEmpty(p) \/ CheckDay(p) \/ CheckTeacher(p) \/ CheckRoom(p)
  <2>1. CASE Fail(p)
    BY <1>0, <2>1, FailTyped
  <2>2. CASE ~Fail(p)
    <3>1. /\ \E label \in Labels : Goto(p, label)
          /\ UNCHANGED <<dbVars, txVars>>
      BY <1>5, <2>2 DEF CheckSlotEmpty, CheckDay, CheckTeacher, CheckRoom, Labels
    <3>2. pc' \in [Proc -> Labels]
      BY <1>0, <3>1, Moves
    <3> QED BY <1>0, <3>1, <3>2 DEF TypeOK
  <2> QED BY <2>1, <2>2
<1>6. CASE SaveLesson(p)
  <2>1. CASE Fail(p)
    BY <1>0, <2>1, FailTyped
  <2>2. CASE ~Fail(p)
    <3>1. pc' \in [Proc -> Labels]
      BY <1>0, <1>6, <2>2, Moves DEF SaveLesson, AfterSave, Labels
    <3>2. CASE req[p].op \in InsertOps
      <4>1. PICK l \in LessonId \ issued :
               /\ issued' = issued \cup {l}
               /\ mine' = [mine EXCEPT ![p] = l]
               /\ lock' = [lock EXCEPT ![l] = p]
               /\ UNCHANGED <<dbVars, sysLock, req, seen, seenRoom>>
        BY <1>6, <2>2, <3>2 DEF SaveLesson
      <4> QED BY <1>0, <3>1, <4>1 DEF TypeOK
    <3>3. CASE req[p].op \notin InsertOps
      BY <1>0, <1>6, <2>2, <3>1, <3>3 DEF SaveLesson, TypeOK
    <3> QED BY <3>2, <3>3
  <2> QED BY <2>1, <2>2
<1>7. CASE PlaceRoom(p) \/ Bump(p) \/ BumpAfter(p)
  <2>1. pc' \in [Proc -> Labels]
    BY <1>0, <1>7, Moves DEF PlaceRoom, Bump, BumpAfter, Labels
  <2> QED BY <1>0, <1>7, <2>1 DEF PlaceRoom, Bump, BumpAfter, TypeOK
<1>8. CASE Commit(p)
  <2>1. mine[p] \in LessonId
    BY <1>0, <1>8 DEF Commit, Owns, HoldsRow, Course, Saved
  <2>2. lessons' \in [LessonId -> Row]
    BY <1>0, <1>8, <2>1, RowWritten DEF Commit, TypeOK
  <2>3. req[p] \in Request /\ seenRoom[p] \in Room
    BY <1>0, ConstantsOK DEF TypeOK
  <2>4. NextLoc(p) \in Location \cup {None}
    BY <2>3 DEF NextLoc, Pick, Request, Room
  <2>5. rooms' \in [LessonId -> Room]
    BY <1>0, <1>8, <2>1, <2>4 DEF Commit, TypeOK, Room
  <2>6. lock' \in [LessonId -> Proc \cup {None}]
    BY <1>0, <1>8 DEF Commit, WithoutLocksOf, TypeOK
  <2>7. pc' \in [Proc -> Labels]
    BY <1>0, <1>8, Moves DEF Commit, Labels
  <2>8. journal' \in Seq(Entry) /\ dataVersion' \in Nat /\ sysLock' \in Proc \cup {None}
    <3>1. CASE req[p].op \in OverrideOps
      <4>1. EntryToWrite(p) \in Entry
        BY <1>0, <2>1, <3>1, EntryWritten
      <4>2. /\ journal' = Append(journal, EntryToWrite(p))
            /\ dataVersion' = dataVersion + 1 /\ sysLock' = None
        BY <1>8, <3>1 DEF Commit
      <4>3. journal \in Seq(Entry) /\ dataVersion \in Nat
        BY <1>0 DEF TypeOK
      <4>4. Append(journal, EntryToWrite(p)) \in Seq(Entry)
        BY <4>1, <4>3
      <4> QED BY <4>2, <4>3, <4>4
    <3>2. CASE req[p].op \notin OverrideOps
      BY <1>0, <1>8, <3>2 DEF Commit, TypeOK
    <3> QED BY <3>1, <3>2
  <2> QED BY <1>0, <1>8, <2>2, <2>5, <2>6, <2>7, <2>8 DEF Commit, TypeOK
<1>9. CASE DeleteLesson(p)
  <2>1. pc' \in [Proc -> Labels]
    BY <1>0, <1>9, Moves DEF DeleteLesson, Labels
  <2>2. req[p].id \in LessonId
    BY <1>0, <1>9, RequestsOK DEF DeleteLesson, Course, TypeOK
  <2>3. lessons' \in [LessonId -> Row] /\ rooms' \in [LessonId -> Room]
    BY <1>0, <1>9, <2>2, NoRowIsRow DEF DeleteLesson, TypeOK, NoRoom, Room
  <2>4. Orphaned(req[p].id) \in Seq(Entry)
    <3>1. journal \in Seq(Entry)
      BY <1>0 DEF TypeOK
    <3>2. \A i \in DOMAIN journal : Orphaned(req[p].id)[i] \in Entry
      <4> TAKE i \in DOMAIN journal
      <4>1. journal[i] \in Entry
        BY <3>1
      <4>2. [journal[i] EXCEPT !.lesson = None] \in Entry
        BY <4>1 DEF Entry
      <4> QED BY <4>1, <4>2 DEF Orphaned
    <3>3. DOMAIN Orphaned(req[p].id) = 1 .. Len(journal)
      BY <3>1 DEF Orphaned
    <3> DEFINE orphaned == Orphaned(req[p].id)
    <3>4. orphaned = [i \in 1 .. Len(journal) |-> orphaned[i]]
      BY <3>1 DEF Orphaned
    <3>5. \A i \in 1 .. Len(journal) : orphaned[i] \in Entry
      BY <3>1, <3>2
    <3> HIDE DEF orphaned
    <3>6. orphaned \in [1 .. Len(journal) -> Entry]
      BY <3>4, <3>5
    <3> QED BY <3>1, <3>6 DEF orphaned
  <2> QED BY <1>0, <1>9, <2>1, <2>3, <2>4 DEF DeleteLesson, TypeOK
<1>10. CASE ClaimRoom(p) \/ InsertRoom(p)
  <2>1. CASE Fail(p)
    BY <1>0, <2>1, FailTyped
  <2>2. CASE ~Fail(p)
    <3>1. pc' \in [Proc -> Labels]
      BY <1>0, <1>10, <2>2, Moves DEF ClaimRoom, InsertRoom, Labels
    <3>2. req[p].id \in LessonId /\ req[p].loc \in Location
      BY <1>0, <1>10, RequestsOK DEF ClaimRoom, InsertRoom, Course, TypeOK
    <3> DEFINE new == [loc |-> req[p].loc, shown |-> req[p].status = "published"]
    <3>3. new \in Room
      <4>1. (req[p].status = "published") \in BOOLEAN
        BY Zenon
      <4> QED BY <3>2, <4>1 DEF Room
    <3>4. rooms' = rooms \/ rooms' = [rooms EXCEPT ![req[p].id] = new]
      BY <1>10, <2>2 DEF ClaimRoom, InsertRoom
    <3> HIDE DEF new
    <3>5. rooms' \in [LessonId -> Room]
      BY <1>0, <3>2, <3>3, <3>4 DEF TypeOK
    <3> QED BY <1>0, <1>10, <2>2, <3>1, <3>5 DEF ClaimRoom, InsertRoom, TypeOK
  <2> QED BY <2>1, <2>2
<1>11. CASE DeleteRoom(p)
  <2>1. pc' \in [Proc -> Labels]
    BY <1>0, <1>11, Moves DEF DeleteRoom, Labels
  <2>2. rooms' \in [LessonId -> Room]
    BY <1>0, <1>11 DEF DeleteRoom, TypeOK, NoRoom, Room
  <2> QED BY <1>0, <1>11, <2>1, <2>2 DEF DeleteRoom, TypeOK
<1>12. CASE SetDayRule(p) \/ SetTeacherRule(p)
  <2>1. pc' \in [Proc -> Labels]
    BY <1>0, <1>12, Moves DEF SetDayRule, SetTeacherRule, Labels
  <2>2. /\ SetDayRule(p) => req[p].rule \in DayRules
        /\ SetTeacherRule(p) => req[p].rule \in TeacherRules
    BY <1>0, RequestsOK DEF SetDayRule, SetTeacherRule, TypeOK
  <2>3. overtaken' \in [Proc -> SUBSET {"day", "teacher"}]
    <3>1. \A q \in Proc : overtaken[q] \in SUBSET {"day", "teacher"} BY <1>0 DEF TypeOK
    <3>2. CASE SetDayRule(p) BY <3>1, <3>2 DEF SetDayRule
    <3>3. CASE SetTeacherRule(p) BY <3>1, <3>3 DEF SetTeacherRule
    <3> QED BY <1>12, <3>2, <3>3
  <2>4. /\ dayRule' \in [Day -> DayRules]
        /\ teacherRule' \in [Teacher \X Day -> TeacherRules]
    BY <1>0, <1>12, <2>2 DEF SetDayRule, SetTeacherRule, TypeOK
  <2> QED BY <1>0, <1>12, <2>1, <2>3, <2>4 DEF SetDayRule, SetTeacherRule, TypeOK
<1>13. CASE BreakDeadlock(p)
  BY <1>0, <1>13, FailTyped DEF BreakDeadlock
<1> QED BY <1>1, <1>2, <1>3, <1>4, <1>5, <1>6, <1>7, <1>8, <1>9, <1>10, <1>11, <1>12,
           <1>13 DEF Step

-----------------------------------------------------------------------------
(* IInv is inductive. *)

LEMMA InitInvariant == Init => IInv
<1> SUFFICES ASSUME Init PROVE IInv
  OBVIOUS
<1>1. TypeOK
  BY InitTyped
<1>2. \A p \in Proc : pc[p] = "idle" /\ seen[p] = NoRow
  BY DEF Init
<1>3. \A p \in Proc : Course(p) /\ Owns(p) /\ SlotReserved(p)
  BY <1>2 DEF Course, Owns, SlotReserved, Saved, HoldsRow
<1>4. KeysIssued /\ NoLostUpdate
  BY <1>2, InitialDatabaseOK DEF Init, KeysIssued, NoLostUpdate, HoldsRow, Saved
<1>5. SlotUnique
  BY InitialDatabaseOK DEF Init, SlotUnique
<1>6. JournalVersions
  BY DEF Init, JournalVersions
<1>7. RoomsHaveLessons
  BY InitialDatabaseOK DEF Init, RoomsHaveLessons
<1> QED BY <1>1, <1>3, <1>4, <1>5, <1>6, <1>7 DEF IInv

LEMMA FailPreserves == ASSUME IInv, NEW p \in Proc, Fail(p) PROVE IInv'
<1> USE DEF dbVars
<1>0. TypeOK'
  BY FailTyped DEF IInv
<1>1. pc'[p] = "done" /\ \A q \in Proc \ {p} : pc'[q] = pc[q]
  BY DEF Fail, Goto, IInv, TypeOK
<1>2. \A q \in Proc : RowToWrite(q)' = RowToWrite(q)
  BY RowDependsOn DEF Fail
<1>3. /\ ~HoldsRow(p)' /\ ~Saved(p)'
      /\ \A q \in Proc \ {p} : HoldsRow(q)' = HoldsRow(q) /\ Saved(q)' = Saved(q)
  BY <1>1 DEF Fail, HoldsRow, Saved
<1>4. \A q \in Proc : Course(q)'
  BY <1>1 DEF IInv, Course, Fail
<1>5. \A q \in Proc : Owns(q)'
  <2>1. Owns(p)'
    BY <1>1, <1>3 DEF IInv, Owns, Fail
  <2>2. ASSUME NEW q \in Proc \ {p} PROVE Owns(q)'
    <3>1. HoldsRow(q) => lock'[mine[q]] = q
      BY DEF IInv, Owns, Fail, WithoutLocksOf
    <3> QED BY <1>1, <1>3, <3>1 DEF IInv, Owns, Fail
  <2> QED BY <2>1, <2>2
<1>6. \A q \in Proc : SlotReserved(q)'
  BY <1>2, <1>3 DEF IInv, SlotReserved, SlotFree, Fail
<1>7. NoLostUpdate'
  BY <1>3 DEF IInv, NoLostUpdate, Fail
<1>8. KeysIssued' /\ SlotUnique' /\ RoomsHaveLessons' /\ JournalVersions'
  BY DEF IInv, KeysIssued, SlotUnique, RoomsHaveLessons, JournalVersions, Fail
<1> QED BY <1>0, <1>4, <1>5, <1>6, <1>7, <1>8 DEF IInv

LEMMA BeginPreserves == ASSUME IInv, NEW p \in Proc, Begin(p) PROVE IInv'
<1> USE DEF dbVars
<1>0. TypeOK'
  BY StepTyped
<1>1. PICK r \in Requests : req' = [req EXCEPT ![p] = r] /\ Goto(p, Entrance(r))
  BY DEF Begin
<1>2. /\ pc[p] = "idle" /\ pc'[p] = Entrance(r) /\ req'[p] = r
      /\ \A q \in Proc \ {p} : pc'[q] = pc[q] /\ req'[q] = req[q]
  BY <1>1 DEF Begin, Goto, IInv, TypeOK
<1>3. /\ Entrance(r) \in {"find", "slot", "teacher", "day", "remove", "claim", "unroom", "rule"}
      /\ r.op \in Ops
  BY ConstantsOK DEF Entrance, Request
<1>4. ~HoldsRow(p)' /\ ~Saved(p)'
  <2>1. CASE r.op \in LockOps
    BY <1>2, <2>1 DEF Entrance, HoldsRow, Saved, LockOps, InsertOps
  <2>2. CASE r.op \notin LockOps
    BY <1>2, <1>3, <2>2 DEF HoldsRow, Saved
  <2> QED BY <2>1, <2>2
<1>5. \A q \in Proc \ {p} : /\ HoldsRow(q)' = HoldsRow(q) /\ Saved(q)' = Saved(q)
                            /\ RowToWrite(q)' = RowToWrite(q)
  BY <1>2, RowDependsOn DEF Begin, HoldsRow, Saved
<1>6. \A q \in Proc : Course(q)'
  <2>1. Course(p)'
    BY <1>2, <1>3 DEF Course, Entrance, LockOps, InsertOps, PlaceOps, OverrideOps, Actions, Ops
  <2> QED BY <1>2, <2>1 DEF IInv, Course
<1>7. \A q \in Proc : Owns(q)'
  <2>1. Owns(p)'
    BY <1>2, <1>3, <1>4 DEF IInv, Owns, Begin
  <2> QED BY <1>2, <1>5, <2>1 DEF IInv, Owns, Begin
<1>8. \A q \in Proc : SlotReserved(q)'
  BY <1>4, <1>5 DEF IInv, SlotReserved, SlotFree, Begin
<1>9. NoLostUpdate'
  BY <1>4, <1>5 DEF IInv, NoLostUpdate, Begin
<1>10. KeysIssued' /\ SlotUnique' /\ RoomsHaveLessons' /\ JournalVersions'
  BY DEF IInv, KeysIssued, SlotUnique, RoomsHaveLessons, JournalVersions, Begin
<1> QED BY <1>0, <1>6, <1>7, <1>8, <1>9, <1>10 DEF IInv

LEMMA FindPreserves == ASSUME IInv, NEW p \in Proc, FindLesson(p) PROVE IInv'
<1> USE DEF dbVars
<1>1. CASE Fail(p)
  BY <1>1, FailPreserves
<1>2. CASE ~Fail(p)
  <2>0. TypeOK'
    BY StepTyped DEF Step
  <2>1. PICK l \in LessonId :
          /\ mine' = [mine EXCEPT ![p] = l] /\ Goto(p, "lock")
          /\ UNCHANGED <<dbVars, issued, lock, sysLock, req, seen, seenRoom>>
    BY <1>2 DEF FindLesson
  <2>2. /\ pc[p] = "find" /\ pc'[p] = "lock" /\ mine'[p] = l
        /\ \A q \in Proc \ {p} : pc'[q] = pc[q] /\ mine'[q] = mine[q]
    BY <2>1 DEF FindLesson, Goto, IInv, TypeOK
  <2>3. /\ ~HoldsRow(p)' /\ ~Saved(p)'
        /\ \A q \in Proc \ {p} : HoldsRow(q)' = HoldsRow(q) /\ Saved(q)' = Saved(q)
    BY <2>1, <2>2 DEF HoldsRow, Saved
  <2>4. \A q \in Proc : RowToWrite(q)' = RowToWrite(q)
    BY <2>1, RowDependsOn
  <2>5. \A q \in Proc : Course(q)' /\ Owns(q)'
    BY <2>1, <2>2, <2>3 DEF IInv, Course, Owns
  <2>6. \A q \in Proc : SlotReserved(q)'
    BY <2>1, <2>2, <2>3, <2>4 DEF IInv, SlotReserved, SlotFree
  <2>7. NoLostUpdate'
    BY <2>1, <2>2, <2>3 DEF IInv, NoLostUpdate
  <2>8. KeysIssued' /\ SlotUnique' /\ RoomsHaveLessons' /\ JournalVersions'
    BY <2>1 DEF IInv, KeysIssued, SlotUnique, RoomsHaveLessons, JournalVersions
  <2> QED BY <2>0, <2>5, <2>6, <2>7, <2>8 DEF IInv
<1> QED BY <1>1, <1>2

LEMMA LockPreserves == ASSUME IInv, NEW p \in Proc, LockLesson(p) PROVE IInv'
<1> USE DEF dbVars
<1>1. CASE Fail(p)
  BY <1>1, FailPreserves
<1>2. CASE ~Fail(p)
  <2> DEFINE next == IF req[p].op # "update" THEN "room"
                     ELSE IF req[p].status = "cancelled" THEN "teacher" ELSE "day"
  <2>0. TypeOK'
    BY StepTyped DEF Step
  <2>1. /\ pc[p] = "lock" /\ Wanted(p, mine[p])
        /\ req[p].expected \in {0, lessons[mine[p]].version}
        /\ lock' = [lock EXCEPT ![mine[p]] = p]
        /\ seen' = [seen EXCEPT ![p] = lessons[mine[p]]]
        /\ Goto(p, next)
        /\ UNCHANGED <<dbVars, issued, sysLock, req, mine, seenRoom>>
    BY <1>2 DEF LockLesson
  <2>2. /\ mine[p] \in LessonId /\ Exists(lessons[mine[p]]) /\ mine[p] \in issued
        /\ req[p].op \in LockOps
    BY <2>1 DEF IInv, Owns, Course, Wanted, KeysIssued
  <2>3. lock[mine[p]] = None
    BY <2>1, <2>2 DEF LockLesson, Runs, WaitsFor
  <2>4. /\ pc'[p] = next /\ seen'[p] = lessons[mine[p]] /\ lock'[mine[p]] = p
        /\ \A q \in Proc \ {p} : pc'[q] = pc[q] /\ seen'[q] = seen[q]
    BY <2>1, <2>2 DEF Goto, IInv, TypeOK
  <2>5. \A q \in Proc \ {p} : HoldsRow(q) => lock'[mine[q]] = q
    BY <2>1, <2>2, <2>3, ConstantsOK DEF IInv, TypeOK, Owns
  <2>6. ~Saved(p)' /\ \A q \in Proc \ {p} : HoldsRow(q)' = HoldsRow(q) /\ Saved(q)' = Saved(q)
    BY <2>1, <2>4 DEF HoldsRow, Saved
  <2>7. \A q \in Proc \ {p} : RowToWrite(q)' = RowToWrite(q)
    BY <2>1, <2>4, RowDependsOn
  <2>8. \A q \in Proc : Course(q)'
    BY <2>1, <2>2, <2>4 DEF IInv, Course, LockOps, InsertOps
  <2>9. \A q \in Proc : Owns(q)'
    <3>1. Owns(p)'
      BY <2>1, <2>2, <2>4 DEF Owns, LockOps, InsertOps
    <3> QED BY <2>1, <2>4, <2>5, <2>6, <3>1 DEF IInv, Owns
  <2>10. \A q \in Proc : SlotReserved(q)'
    BY <2>1, <2>6, <2>7 DEF IInv, SlotReserved, SlotFree
  <2>11. NoLostUpdate'
    BY <2>1, <2>4, <2>6 DEF IInv, NoLostUpdate
  <2>12. KeysIssued' /\ SlotUnique' /\ RoomsHaveLessons' /\ JournalVersions'
    BY <2>1 DEF IInv, KeysIssued, SlotUnique, RoomsHaveLessons, JournalVersions
  <2> QED BY <2>0, <2>8, <2>9, <2>10, <2>11, <2>12 DEF IInv
<1> QED BY <1>1, <1>2

LEMMA ReadsPreserve ==
    ASSUME IInv, NEW p \in Proc,
           ReadRoom(p) \/ CheckSlotEmpty(p) \/ CheckDay(p) \/ CheckTeacher(p) \/ CheckRoom(p)
    PROVE  IInv'
<1> USE DEF dbVars, txVars
<1>0. TypeOK' /\ Course(p)
  BY StepTyped DEF Step, IInv
<1>1. CASE Fail(p)
  BY <1>1, FailPreserves
<1>2. CASE ReadRoom(p)
  <2>1. PICK label \in {"save", "day"} :
          Goto(p, label) /\ (label = "day" => req[p].op # "cancel")
    BY <1>2 DEF ReadRoom
  <2>2. pc[p] = "room" /\ pc'[p] = label
    BY <1>2, <2>1 DEF ReadRoom, Goto, IInv, TypeOK
  <2>3. Course(p)' /\ HoldsRow(p) /\ ~Saved(p)'
    BY <1>0, <1>2, <2>1, <2>2 DEF ReadRoom, Course, HoldsRow, Saved, LockOps, InsertOps
  <2> QED BY <1>0, <1>2, <2>1, <2>3, QuietStep DEF ReadRoom, Labels
<1>3. CASE ~Fail(p) /\ CheckSlotEmpty(p)
  <2>1. pc[p] = "slot" /\ Goto(p, "day") /\ UNCHANGED <<dbVars, txVars>>
    BY <1>3 DEF CheckSlotEmpty
  <2>2. pc'[p] = "day"
    BY <2>1 DEF Goto, IInv, TypeOK
  <2>3. Course(p)' /\ ~HoldsRow(p)' /\ ~Saved(p)'
    BY <1>0, <2>1, <2>2 DEF Course, HoldsRow, Saved, LockOps, InsertOps
  <2> QED BY <1>0, <2>1, <2>3, QuietStep DEF Labels
<1>4. CASE ~Fail(p) /\ CheckDay(p)
  <2>1. pc[p] = "day" /\ Goto(p, "teacher") /\ UNCHANGED <<dbVars, txVars>>
    BY <1>4 DEF CheckDay
  <2>2. pc'[p] = "teacher"
    BY <2>1 DEF Goto, IInv, TypeOK
  <2>3. Course(p)' /\ (HoldsRow(p)' => HoldsRow(p)) /\ ~Saved(p)'
    BY <1>0, <2>1, <2>2 DEF Course, HoldsRow, Saved
  <2> QED BY <1>0, <2>1, <2>3, QuietStep DEF Labels
<1>5. CASE ~Fail(p) /\ CheckTeacher(p)
  <2>1. PICK label \in {"avail", "save"} :
          Goto(p, label) /\ (label = "avail" => NextLoc(p) # None)
    BY <1>5 DEF CheckTeacher
  <2>2. pc[p] = "teacher" /\ UNCHANGED <<dbVars, txVars>>
    BY <1>5 DEF CheckTeacher
  <2>3. pc'[p] = label
    BY <2>1 DEF Goto, IInv, TypeOK
  <2>4. label = "avail" => req[p].op \in PlaceOps
    BY <2>1 DEF NextLoc
  <2>5. Course(p)' /\ (HoldsRow(p)' => HoldsRow(p)) /\ ~Saved(p)'
    BY <1>0, <2>2, <2>3, <2>4 DEF Course, HoldsRow, Saved
  <2> QED BY <1>0, <2>1, <2>2, <2>5, QuietStep DEF Labels
<1>6. CASE ~Fail(p) /\ CheckRoom(p)
  <2>1. pc[p] = "avail" /\ Goto(p, "save") /\ UNCHANGED <<dbVars, txVars>>
    BY <1>6 DEF CheckRoom
  <2>2. pc'[p] = "save"
    BY <2>1 DEF Goto, IInv, TypeOK
  <2>3. Course(p)' /\ (HoldsRow(p)' => HoldsRow(p)) /\ ~Saved(p)'
    BY <1>0, <2>1, <2>2 DEF Course, HoldsRow, Saved, PlaceOps, LockOps, InsertOps
  <2> QED BY <1>0, <2>1, <2>3, QuietStep DEF Labels
<1> QED BY <1>1, <1>2, <1>3, <1>4, <1>5, <1>6

LEMMA BumpsPreserve ==
    ASSUME IInv, NEW p \in Proc, PlaceRoom(p) \/ Bump(p) \/ BumpAfter(p)
    PROVE  IInv'
<1> USE DEF dbVars, txVars
<1>0. TypeOK' /\ Course(p)
  BY StepTyped DEF Step, IInv
<1>1. CASE PlaceRoom(p)
  <2>1. pc[p] = "place" /\ pc'[p] = "bump"
    BY <1>1 DEF PlaceRoom, Goto, IInv, TypeOK
  <2>2. Course(p)' /\ (HoldsRow(p)' => HoldsRow(p)) /\ Saved(p)
    BY <1>0, <1>1, <2>1 DEF PlaceRoom, Course, HoldsRow, Saved
  <2> QED BY <1>0, <1>1, <2>2, QuietStep DEF PlaceRoom, Labels
<1>2. CASE Bump(p)
  <2>1. pc[p] = "bump" /\ pc'[p] = "commit"
    BY <1>2 DEF Bump, Goto, IInv, TypeOK
  <2>2. Course(p)' /\ (HoldsRow(p)' => HoldsRow(p)) /\ Saved(p)
    BY <1>0, <1>2, <2>1 DEF Bump, Course, HoldsRow, Saved, OverrideOps, Actions, LockOps,
                            InsertOps
  <2> QED BY <1>0, <1>2, <2>2, QuietStep DEF Bump, Labels
<1>3. CASE BumpAfter(p)
  <2>1. pc'[p] = "done"
    BY <1>3 DEF BumpAfter, Goto, IInv, TypeOK
  <2>2. Course(p)' /\ ~HoldsRow(p)' /\ ~Saved(p)'
    BY <1>3, <2>1 DEF Course, HoldsRow, Saved
  <2> QED BY <1>0, <1>3, <2>2, QuietStep DEF BumpAfter, Labels
<1> QED BY <1>1, <1>2, <1>3

LEMMA RulesPreserve ==
    ASSUME IInv, NEW p \in Proc, SetDayRule(p) \/ SetTeacherRule(p)
    PROVE  IInv'
<1> USE DEF dbVars, txVars
<1>0. TypeOK'
  BY StepTyped DEF Step
<1>1. PICK label \in {"after", "done"} : Goto(p, label)
  BY DEF SetDayRule, SetTeacherRule
<1>2. pc'[p] = label
  BY <1>1 DEF Goto, IInv, TypeOK
<1>3. Course(p)' /\ ~HoldsRow(p)' /\ ~Saved(p)'
  BY <1>2 DEF Course, HoldsRow, Saved
<1> QED BY <1>0, <1>1, <1>3, QuietStep DEF SetDayRule, SetTeacherRule, Labels

\* A room assignment comes and goes without touching anything IInv speaks of
\* but RoomsHaveLessons.
LEMMA RoomsPreserve ==
    ASSUME IInv, NEW p \in Proc, ClaimRoom(p) \/ InsertRoom(p) \/ DeleteRoom(p)
    PROVE  IInv'
<1> USE DEF dbVars, txVars
<1>0. TypeOK' /\ Course(p)
  BY StepTyped DEF Step, IInv
<1>1. CASE Fail(p)
  BY <1>1, FailPreserves
<1>2. CASE ~Fail(p)
  <2>1. PICK label \in {"fk", "after"} :
          /\ Goto(p, label)
          /\ label = "fk" => ClaimRoom(p)
          /\ UNCHANGED <<lessons, journal, txVars>>
    BY <1>2 DEF ClaimRoom, InsertRoom, DeleteRoom
  <2>2. pc'[p] = label /\ \A q \in Proc \ {p} : pc'[q] = pc[q]
    BY <2>1 DEF Goto, IInv, TypeOK
  <2>3. Course(p)' /\ ~HoldsRow(p)' /\ ~Saved(p)'
    BY <1>0, <2>1, <2>2 DEF ClaimRoom, Course, HoldsRow, Saved
  <2>4. \A q \in Proc : RowToWrite(q)' = RowToWrite(q)
    BY <2>1, RowDependsOn
  <2>5. \A q \in Proc \ {p} : HoldsRow(q)' = HoldsRow(q) /\ Saved(q)' = Saved(q)
    BY <2>1, <2>2 DEF HoldsRow, Saved
  <2>6. \A q \in Proc : Course(q)'
    BY <2>1, <2>2, <2>3 DEF IInv, Course
  <2>7. \A q \in Proc : Owns(q)'
    BY <2>1, <2>2, <2>3, <2>5 DEF IInv, Owns
  <2>8. \A q \in Proc : SlotReserved(q)'
    BY <2>1, <2>3, <2>4, <2>5 DEF IInv, SlotReserved, SlotFree
  <2>9. NoLostUpdate'
    BY <2>1, <2>3, <2>5 DEF IInv, NoLostUpdate
  <2>10. KeysIssued' /\ SlotUnique' /\ JournalVersions'
    BY <2>1 DEF IInv, KeysIssued, SlotUnique, JournalVersions
  <2>11. RoomsHaveLessons'
    <3>1. \/ rooms' = rooms
          \/ /\ Exists(lessons[req[p].id])
             /\ \E room : rooms' = [rooms EXCEPT ![req[p].id] = room]
          \/ rooms' = [rooms EXCEPT ![req[p].id] = NoRoom]
      BY <1>2 DEF ClaimRoom, InsertRoom, DeleteRoom
    <3> QED BY <2>1, <3>1 DEF IInv, TypeOK, RoomsHaveLessons
  <2> QED BY <1>0, <2>6, <2>7, <2>8, <2>9, <2>10, <2>11 DEF IInv
<1> QED BY <1>1, <1>2

\* The unique index lets a row through only if no committed live lesson has
\* the slot, after waiting for everyone who was about to commit one.
LEMMA SavePreserves == ASSUME IInv, NEW p \in Proc, SaveLesson(p) PROVE IInv'
<1> USE DEF dbVars
<1>1. CASE Fail(p)
  BY <1>1, FailPreserves
<1>2. CASE ~Fail(p)
  <2>0. TypeOK' /\ Course(p)
    BY StepTyped DEF Step, IInv
  <2>1. /\ pc[p] = "save" /\ Runs(p) /\ ~SlotTaken(p)
        /\ Goto(p, AfterSave(p))
        /\ UNCHANGED <<dbVars, sysLock, req, seen, seenRoom>>
    BY <1>2 DEF SaveLesson
  <2>2. /\ pc'[p] = AfterSave(p) /\ AfterSave(p) \in {"place", "bump", "commit"}
        /\ \A q \in Proc \ {p} : pc'[q] = pc[q]
    BY <2>1 DEF Goto, AfterSave, IInv, TypeOK
  <2>3. Course(p)'
    BY <2>0, <2>1, <2>2 DEF Course, AfterSave, LockOps, InsertOps, OverrideOps
  <2>4. \A q \in Proc : RowToWrite(q)' = RowToWrite(q)
    BY <2>1, RowDependsOn
  <2>5. \A q \in Proc \ {p} : HoldsRow(q)' = HoldsRow(q) /\ Saved(q)' = Saved(q)
    BY <2>1, <2>2 DEF HoldsRow, Saved
  <2>6. Saved(p)' /\ HoldsRow(p)'
    BY <2>0, <2>1, <2>2 DEF Saved, HoldsRow, Course
  <2>7. \A q \in Proc \ {p} : mine'[q] = mine[q] /\ (HoldsRow(q) => lock'[mine[q]] = q)
    BY <1>2, <2>1 DEF SaveLesson, IInv, TypeOK, Owns
  <2>8. /\ mine'[p] \in LessonId \cap issued' /\ lock'[mine'[p]] = p
        /\ seen'[p] = lessons'[mine'[p]]
    <3>1. CASE req[p].op \in InsertOps
      <4>1. PICK l \in LessonId \ issued :
              /\ issued' = issued \cup {l}
              /\ mine' = [mine EXCEPT ![p] = l]
              /\ lock' = [lock EXCEPT ![l] = p]
        BY <1>2, <2>1, <3>1 DEF SaveLesson
      <4>2. seen[p] = NoRow /\ lessons[l] = NoRow
        BY <3>1 DEF IInv, Owns, KeysIssued
      <4> QED BY <2>1, <4>1, <4>2 DEF IInv, TypeOK
    <3>2. CASE req[p].op \notin InsertOps
      <4>1. HoldsRow(p) /\ UNCHANGED <<issued, mine, lock>>
        BY <1>2, <2>0, <2>1, <3>2 DEF SaveLesson, HoldsRow, Course
      <4> QED BY <2>1, <4>1 DEF IInv, Owns, NoLostUpdate
    <3> QED BY <3>1, <3>2
  <2>9. issued \subseteq issued'
    BY <1>2, <2>1 DEF SaveLesson
  <2>10. \A q \in Proc : Course(q)'
    BY <2>1, <2>2, <2>3 DEF IInv, Course
  <2>11. \A q \in Proc : Owns(q)'
    <3>1. Owns(p)'
      <4>1. req[p].op \in LockOps => HoldsRow(p)
        BY <2>1 DEF HoldsRow
      <4>2. pc'[p] \notin {"idle", "find", "lock"}
        BY <2>2
      <4> QED BY <2>1, <2>8, <4>1, <4>2 DEF IInv, Owns
    <3>2. ASSUME NEW q \in Proc \ {p} PROVE Owns(q)'
      BY <2>1, <2>2, <2>5, <2>7, <2>9 DEF IInv, Owns
    <3> QED BY <3>1, <3>2
  <2>12. \A q \in Proc : SlotReserved(q)'
    <3>1. Active(RowToWrite(p)) => \A q \in Proc \ {p} :
            Saved(q) /\ Active(RowToWrite(q)) => RowToWrite(q).slot # RowToWrite(p).slot
      BY <2>1 DEF Runs, WaitsFor, HoldsSlot
    <3>2. Active(RowToWrite(p)) => SlotFree(mine'[p], RowToWrite(p))
      <4>1. CASE req[p].op \in InsertOps
        BY <2>1, <4>1 DEF SlotTaken, OtherLessons, SlotFree
      <4>2. CASE req[p].op \notin InsertOps
        <5>1. mine' = mine
          BY <1>2, <2>1, <4>2 DEF SaveLesson
        <5> QED BY <2>1, <4>2, <5>1 DEF SlotTaken, OtherLessons, SlotFree
      <4> QED BY <4>1, <4>2
    <3>3. SlotReserved(p)'
      BY <2>1, <2>4, <2>5, <3>1, <3>2 DEF SlotReserved, SlotFree
    <3>4. ASSUME NEW q \in Proc \ {p} PROVE SlotReserved(q)'
      BY <2>1, <2>4, <2>5, <2>7, <3>1 DEF IInv, SlotReserved, SlotFree
    <3> QED BY <3>3, <3>4
  <2>13. NoLostUpdate'
    BY <2>1, <2>5, <2>7, <2>8 DEF IInv, NoLostUpdate
  <2>14. KeysIssued' /\ SlotUnique' /\ RoomsHaveLessons' /\ JournalVersions'
    BY <2>1, <2>9 DEF IInv, KeysIssued, SlotUnique, RoomsHaveLessons, JournalVersions
  <2> QED BY <2>0, <2>10, <2>11, <2>12, <2>13, <2>14 DEF IInv
<1> QED BY <1>1, <1>2

\* What a transaction knows when it commits.
LEMMA AtCommit ==
    ASSUME IInv, NEW p \in Proc, Commit(p)
    PROVE  /\ mine[p] \in LessonId \cap issued /\ lock[mine[p]] = p
           /\ seen[p] = lessons[mine[p]]
           /\ RowToWrite(p) \in Row
           /\ RowToWrite(p).version = lessons[mine[p]].version + 1
           /\ Exists(RowToWrite(p))
           /\ lessons' = [lessons EXCEPT ![mine[p]] = RowToWrite(p)]
           /\ SlotFree(mine[p], RowToWrite(p))
           /\ req[p].op \in LockOps \cup InsertOps
           /\ \A q \in Proc \ {p} : HoldsRow(q) => mine[q] # mine[p]
<1>1. pc[p] = "commit" /\ req[p].op \in LockOps \cup InsertOps
  BY DEF Commit, IInv, Course
<1>2. HoldsRow(p) /\ Saved(p)
  BY <1>1 DEF HoldsRow, Saved
<1>3. mine[p] \in LessonId \cap issued /\ lock[mine[p]] = p
  BY <1>2 DEF IInv, Owns
<1>4. seen[p] = lessons[mine[p]]
  BY <1>2 DEF IInv, NoLostUpdate
<1>5. SlotFree(mine[p], RowToWrite(p))
  BY <1>2 DEF IInv, SlotReserved, SlotFree
<1>6. \A q \in Proc \ {p} : HoldsRow(q) => mine[q] # mine[p]
  BY <1>3 DEF IInv, Owns
<1> QED BY <1>1, <1>3, <1>4, <1>5, <1>6, RowWritten DEF IInv, Commit

LEMMA EntryLessons ==
    ASSUME TypeOK
    PROVE  \A i \in DOMAIN journal : journal[i].lesson \in LessonId \cup {None}
<1>1. \A i \in DOMAIN journal : journal[i] \in Entry
  BY DEF TypeOK
<1> QED BY <1>1 DEF Entry

LEMMA CommitJournal ==
    ASSUME IInv, NEW p \in Proc, Commit(p)
    PROVE  JournalVersions'
<1> DEFINE l == mine[p]
           e == EntryToWrite(p)
<1>1. /\ l \in LessonId /\ lessons \in [LessonId -> Row] /\ journal \in Seq(Entry)
      /\ lessons' = [lessons EXCEPT ![l] = RowToWrite(p)]
      /\ RowToWrite(p).version = lessons[l].version + 1
      /\ e.lesson = l /\ e.applied = lessons[l].version + 1
  BY AtCommit DEF IInv, TypeOK, EntryToWrite
<1>2. \A k \in LessonId : lessons[k].version \in Nat
  BY <1>1 DEF Row
<1>3. \A k \in LessonId : /\ lessons'[k].version \in Nat
                          /\ lessons[k].version <= lessons'[k].version
                          /\ k = l => lessons'[k].version = lessons[l].version + 1
  BY <1>1, <1>2
<1>4. \A i \in DOMAIN journal : journal[i].lesson \in LessonId \cup {None}
  BY EntryLessons DEF IInv
<1>5. CASE UNCHANGED journal
  BY <1>2, <1>3, <1>4, <1>5 DEF IInv, JournalVersions
<1>6. CASE journal' = Append(journal, e)
  <2> HIDE DEF l, e
  <2>1. /\ Len(journal) \in Nat /\ DOMAIN journal = 1 .. Len(journal)
        /\ DOMAIN journal' = 1 .. (Len(journal) + 1)
        /\ journal'[Len(journal) + 1] = e
        /\ \A i \in DOMAIN journal : journal'[i] = journal[i]
    BY <1>1, <1>6
  <2>2. \A i \in DOMAIN journal : journal[i].lesson # None =>
           /\ journal[i].applied \in 1 .. lessons[journal[i].lesson].version
           /\ journal[i].applied \in 1 .. lessons'[journal[i].lesson].version
           /\ journal[i].lesson = e.lesson => journal[i].applied # e.applied
    BY <1>1, <1>2, <1>3, <1>4 DEF IInv, JournalVersions
  <2>3. e.applied \in 1 .. lessons'[e.lesson].version
    BY <1>1, <1>2, <1>3
  <2>4. ASSUME NEW i \in DOMAIN journal', journal'[i].lesson # None
        PROVE  journal'[i].applied \in 1 .. lessons'[journal'[i].lesson].version
    BY <2>1, <2>2, <2>3, <2>4
  <2>5. ASSUME NEW i \in DOMAIN journal', NEW j \in DOMAIN journal',
               journal'[i].lesson # None, i # j, journal'[j].lesson = journal'[i].lesson
        PROVE  journal'[j].applied # journal'[i].applied
    <3>1. CASE i \in DOMAIN journal /\ j \in DOMAIN journal
      BY <2>1, <2>5, <3>1 DEF IInv, JournalVersions
    <3>2. CASE i = Len(journal) + 1 \/ j = Len(journal) + 1
      BY <2>1, <2>2, <2>5, <3>2
    <3> QED BY <2>1, <3>1, <3>2
  <2> QED BY <2>4, <2>5 DEF JournalVersions
<1> QED BY <1>5, <1>6 DEF Commit

LEMMA CommitPreserves == ASSUME IInv, NEW p \in Proc, Commit(p) PROVE IInv'
<1> DEFINE l == mine[p]
           row == RowToWrite(p)
<1>0. TypeOK' /\ JournalVersions'
  BY StepTyped, CommitJournal DEF Step
<1>1. /\ l \in LessonId \cap issued /\ lock[l] = p /\ row \in Row /\ Exists(row)
      /\ lessons' = [lessons EXCEPT ![l] = row]
      /\ SlotFree(l, row)
      /\ \A q \in Proc \ {p} : HoldsRow(q) => mine[q] # l
  BY AtCommit
<1>2. /\ pc[p] = "commit" /\ pc'[p] \in {"done", "after"}
      /\ \A q \in Proc \ {p} : pc'[q] = pc[q]
      /\ UNCHANGED <<issued, req, mine, seen>>
  BY DEF Commit, Goto, IInv, TypeOK
<1>3. lessons'[l] = row /\ \A k \in LessonId \ {l} : lessons'[k] = lessons[k]
  BY <1>1 DEF IInv, TypeOK
<1> HIDE DEF l, row
<1>4. ~HoldsRow(p)' /\ ~Saved(p)'
  BY <1>2 DEF HoldsRow, Saved
<1>5. \A q \in Proc \ {p} : HoldsRow(q)' = HoldsRow(q) /\ Saved(q)' = Saved(q)
  BY <1>2 DEF HoldsRow, Saved
<1>6. \A q \in Proc : RowToWrite(q)' = RowToWrite(q)
  BY <1>2, RowDependsOn
<1>7. \A q \in Proc : Course(q)'
  BY <1>2 DEF IInv, Course
<1>8. \A q \in Proc : Owns(q)'
  <2>1. \A q \in Proc \ {p} : HoldsRow(q) => lock'[mine[q]] = q
    BY DEF Commit, WithoutLocksOf, IInv, Owns
  <2> QED BY <1>2, <1>4, <1>5, <2>1 DEF IInv, Owns
<1>9. \A q \in Proc : SlotReserved(q)'
  <2> SUFFICES ASSUME NEW q \in Proc \ {p}, Saved(q), Active(RowToWrite(q))
               PROVE  /\ SlotFree(mine[q], RowToWrite(q))'
                      /\ \A o \in Proc \ {q} : Saved(o)' /\ Active(RowToWrite(o))
                            => RowToWrite(o).slot # RowToWrite(q).slot
    BY <1>2, <1>4, <1>5, <1>6 DEF SlotReserved
  <2>1. Saved(p)
    BY <1>2 DEF Saved
  <2>2. Active(row) => row.slot # RowToWrite(q).slot
    BY <2>1 DEF IInv, SlotReserved, row
  <2>3. SlotFree(mine[q], RowToWrite(q))'
    BY <1>2, <1>3, <1>6, <2>2 DEF IInv, SlotReserved, SlotFree
  <2> QED BY <1>4, <1>5, <2>3 DEF IInv, SlotReserved
<1>10. NoLostUpdate'
  <2>1. ASSUME NEW q \in Proc \ {p}, HoldsRow(q) PROVE seen'[q] = lessons'[mine'[q]]
    <3>1. mine[q] \in LessonId /\ mine[q] # l /\ seen[q] = lessons[mine[q]]
      BY <1>1, <2>1 DEF IInv, Owns, NoLostUpdate
    <3> QED BY <1>2, <1>3, <3>1
  <2> QED BY <1>4, <1>5, <2>1 DEF NoLostUpdate
<1>11. KeysIssued'
  BY <1>1, <1>2, <1>3 DEF IInv, KeysIssued
<1>12. SlotUnique'
  BY <1>1, <1>3 DEF IInv, SlotUnique, SlotFree
<1>13. RoomsHaveLessons'
  <2>1. \A k \in LessonId \ {l} : rooms'[k] = rooms[k]
    BY DEF Commit, IInv, TypeOK, l
  <2> QED BY <1>1, <1>3, <2>1 DEF IInv, RoomsHaveLessons
<1> QED BY <1>0, <1>7, <1>8, <1>9, <1>10, <1>11, <1>12, <1>13 DEF IInv

\* DELETE waits for the row lock, so nobody is working on the lesson it takes.
LEMMA AtDelete ==
    ASSUME IInv, NEW p \in Proc, DeleteLesson(p)
    PROVE  /\ req[p].id \in LessonId
           /\ Exists(lessons[req[p].id]) =>
                 \A q \in Proc : HoldsRow(q) => mine[q] # req[p].id
<1>1. pc[p] = "remove" /\ Runs(p) /\ req[p].op = "delete"
  BY DEF DeleteLesson, IInv, Course
<1>2. req[p].id \in LessonId
  BY <1>1, RequestsOK DEF IInv, TypeOK
<1>3. Exists(lessons[req[p].id]) => lock[req[p].id] = None
  BY <1>1 DEF Runs, WaitsFor
<1> QED BY <1>2, <1>3, ConstantsOK DEF IInv, Owns

LEMMA OrphanedEntries ==
    ASSUME TypeOK, NEW l \in LessonId
    PROVE  /\ DOMAIN Orphaned(l) = DOMAIN journal
           /\ \A i \in DOMAIN journal :
                 /\ Orphaned(l)[i].applied = journal[i].applied
                 /\ Orphaned(l)[i].lesson =
                       IF journal[i].lesson = l THEN None ELSE journal[i].lesson
<1>1. \A i \in DOMAIN journal : journal[i] \in Entry
  BY DEF TypeOK
<1> QED BY <1>1 DEF Orphaned, Entry

LEMMA DeletePreserves == ASSUME IInv, NEW p \in Proc, DeleteLesson(p) PROVE IInv'
<1> USE DEF txVars
<1> DEFINE l == req[p].id
<1>0. TypeOK'
  BY StepTyped DEF Step
<1>1. /\ l \in LessonId
      /\ Exists(lessons[l]) => \A q \in Proc : HoldsRow(q) => mine[q] # l
  BY AtDelete
<1>2. /\ pc[p] = "remove" /\ pc'[p] = "after"
      /\ \A q \in Proc \ {p} : pc'[q] = pc[q]
      /\ UNCHANGED <<issued, lock, req, mine, seen>>
      /\ lessons' = [lessons EXCEPT ![l] = NoRow]
      /\ rooms' = [rooms EXCEPT ![l] = NoRoom]
      /\ journal' = Orphaned(l)
  BY DEF DeleteLesson, Goto, IInv, TypeOK
<1>3. lessons'[l] = NoRow /\ \A k \in LessonId \ {l} : lessons'[k] = lessons[k]
  BY <1>1, <1>2 DEF IInv, TypeOK
<1> HIDE DEF l
<1>4. ~HoldsRow(p)' /\ ~Saved(p)'
  BY <1>2 DEF HoldsRow, Saved, IInv, Course
<1>5. \A q \in Proc \ {p} : HoldsRow(q)' = HoldsRow(q) /\ Saved(q)' = Saved(q)
  BY <1>2 DEF HoldsRow, Saved
<1>6. \A q \in Proc : RowToWrite(q)' = RowToWrite(q)
  BY <1>2, RowDependsOn
<1>7. \A q \in Proc : Course(q)' /\ Owns(q)'
  BY <1>2, <1>4, <1>5 DEF IInv, Course, Owns
<1>8. \A q \in Proc : SlotReserved(q)'
  BY <1>2, <1>3, <1>4, <1>5, <1>6, NoRowIsRow DEF IInv, SlotReserved, SlotFree
<1>9. NoLostUpdate'
  BY <1>1, <1>2, <1>3, <1>4, <1>5 DEF IInv, NoLostUpdate, Owns, KeysIssued
<1>10. KeysIssued' /\ SlotUnique'
  BY <1>2, <1>3, NoRowIsRow DEF IInv, KeysIssued, SlotUnique
<1>11. RoomsHaveLessons'
  BY <1>1, <1>2, <1>3 DEF IInv, RoomsHaveLessons, TypeOK
<1>12. JournalVersions'
  <2>1. /\ DOMAIN journal' = DOMAIN journal
        /\ \A i \in DOMAIN journal :
              /\ journal'[i].applied = journal[i].applied
              /\ journal'[i].lesson = IF journal[i].lesson = l THEN None ELSE journal[i].lesson
    BY <1>1, <1>2, OrphanedEntries DEF IInv
  <2>2. \A i \in DOMAIN journal : journal[i].lesson \in LessonId \cup {None}
    BY EntryLessons DEF IInv
  <2> QED BY <1>3, <2>1, <2>2 DEF IInv, JournalVersions
<1> QED BY <1>0, <1>7, <1>8, <1>9, <1>10, <1>11, <1>12 DEF IInv

LEMMA CrashPreserves == ASSUME IInv, Crash PROVE IInv'
<1> USE DEF dbVars
<1>1. TypeOK'
  BY DEF IInv, Crash, TypeOK, Labels
<1>2. \A q \in Proc : ~HoldsRow(q)' /\ ~Saved(q)'
  BY DEF Crash, HoldsRow, Saved
<1>3. \A q \in Proc : pc'[q] \in {"idle", "done"} /\ (pc'[q] = "idle" => pc[q] = "idle")
  BY DEF Crash
<1>4. \A q \in Proc : Course(q)' /\ Owns(q)' /\ SlotReserved(q)'
  BY <1>2, <1>3 DEF Crash, IInv, Course, Owns, SlotReserved
<1>5. NoLostUpdate'
  BY <1>2 DEF NoLostUpdate
<1>6. KeysIssued' /\ SlotUnique' /\ RoomsHaveLessons' /\ JournalVersions'
  BY DEF Crash, IInv, KeysIssued, SlotUnique, RoomsHaveLessons, JournalVersions
<1> QED BY <1>1, <1>4, <1>5, <1>6 DEF IInv

LEMMA NextPreserves == IInv /\ [Next]_vars => IInv'
<1> SUFFICES ASSUME IInv, [Next]_vars PROVE IInv'
  OBVIOUS
<1>1. ASSUME NEW p \in Proc, Begin(p) \/ Step(p) PROVE IInv'
  BY <1>1, BeginPreserves, FindPreserves, LockPreserves, ReadsPreserve, SavePreserves,
     BumpsPreserve, CommitPreserves, DeletePreserves, RoomsPreserve, RulesPreserve,
     FailPreserves DEF Step, BreakDeadlock
<1>2. CASE UNCHANGED vars
  <2>1. \A p \in Proc : RowToWrite(p)' = RowToWrite(p)
    BY <1>2, RowDependsOn DEF vars
  <2>2. \A p \in Proc : HoldsRow(p)' = HoldsRow(p) /\ Saved(p)' = Saved(p)
    BY <1>2 DEF vars, HoldsRow, Saved
  <2>3. TypeOK'
    BY <1>2 DEF vars, IInv, TypeOK
  <2>4. \A p \in Proc : Course(p)' /\ Owns(p)' /\ SlotReserved(p)'
    BY <1>2, <2>1, <2>2 DEF vars, IInv, Course, Owns, SlotReserved, SlotFree
  <2>5. NoLostUpdate' /\ KeysIssued' /\ SlotUnique' /\ RoomsHaveLessons' /\ JournalVersions'
    BY <1>2, <2>2 DEF vars, IInv, NoLostUpdate, KeysIssued, SlotUnique, RoomsHaveLessons,
                      JournalVersions
  <2> QED BY <2>3, <2>4, <2>5 DEF IInv
<1> QED BY <1>1, <1>2, CrashPreserves DEF Next, AllAnswered

\* The invariant holds in every state the write path can reach, crashes and
\* deadlocks included.
THEOREM Invariant == Spec => []IInv
BY InitInvariant, NextPreserves, PTL DEF Spec

\* Every variable keeps its type.
THEOREM TypeCorrect == Spec => []TypeOK
<1>1. IInv => TypeOK
  BY DEF IInv
<1> QED BY <1>1, Invariant, PTL

\* No two live lessons of a group ever share date, pair and subgroup, however
\* many inserts, edits and restorations run at once.
THEOREM SlotsStayUnique == Spec => []SlotUnique
<1>1. IInv => SlotUnique
  BY DEF IInv
<1> QED BY <1>1, Invariant, PTL

\* A transaction that works on a lesson has its newest committed version.
THEOREM NoUpdateIsLost == Spec => []NoLostUpdate
<1>1. IInv => NoLostUpdate
  BY DEF IInv
<1> QED BY <1>1, Invariant, PTL

\* What is committed for an expected version is committed on top of it.
THEOREM ExpectedVersionsHonoured == Spec => []ExpectedVersionHonoured
<1>1. IInv => ExpectedVersionHonoured
  <2> SUFFICES ASSUME IInv, NEW p \in Proc, pc[p] = "commit", req[p].op \in LockOps,
                      req[p].expected # 0
               PROVE  lessons[mine[p]].version = req[p].expected
    BY DEF ExpectedVersionHonoured
  <2>1. HoldsRow(p)
    BY DEF HoldsRow
  <2> QED BY <2>1 DEF IInv, Owns, NoLostUpdate
<1> QED BY <1>1, Invariant, PTL

\* The journal never credits two overrides with one version of a lesson.
THEOREM JournalStaysSound == Spec => []JournalVersions
<1>1. IInv => JournalVersions
  BY DEF IInv
<1> QED BY <1>1, Invariant, PTL

\* No room assignment outlives its lesson.
THEOREM RoomsBelongToLessons == Spec => []RoomsHaveLessons
<1>1. IInv => RoomsHaveLessons
  BY DEF IInv
<1> QED BY <1>1, Invariant, PTL

-----------------------------------------------------------------------------
(* The transactions implement the register. *)

LEMMA InitRegister == Init => RegInit
<1>1. Init => TypeOK /\ SlotUnique
  BY InitInvariant DEF IInv
<1>2. Init => journal = << >>
  BY DEF Init
<1> QED BY <1>1, <1>2 DEF RegInit, TypeOK, SlotUnique, SlotFree

\* The commit of an edit or an insertion is a step Edit, that of an override
\* one of Add, Replace and Cancel.
LEMMA CommitRegister == ASSUME IInv, NEW p \in Proc, Commit(p) PROVE RegNext
<1> DEFINE l == mine[p]
           row == RowToWrite(p)
           e == EntryToWrite(p)
<1>1. /\ l \in LessonId /\ seen[p] = lessons[l]
      /\ row \in Row /\ row.version = lessons[l].version + 1 /\ Exists(row)
      /\ lessons' = [lessons EXCEPT ![l] = row]
      /\ SlotFree(l, row)
      /\ req[p].op \in LockOps \cup InsertOps
  BY AtCommit
<1>2. lessons'[l] = row
  BY <1>1 DEF IInv, TypeOK
<1>3. Write(l, row)
  BY <1>1 DEF Write
<1>4. /\ req[p].op \in LockOps => Exists(lessons[l]) /\ req[p].expected \in {0, lessons[l].version}
      /\ req[p].op \in InsertOps => ~Exists(lessons[l])
  <2>1. HoldsRow(p)
    BY <1>1 DEF Commit, HoldsRow, Saved
  <2> QED BY <1>1, <2>1, NoRowIsRow DEF IInv, Owns
<1>5. CASE req[p].op \notin OverrideOps
  <2>1. UNCHANGED journal
    BY <1>5 DEF Commit
  <2> QED BY <1>1, <1>2, <1>3, <2>1 DEF RegNext, Edit
<1>6. CASE req[p].op \in OverrideOps
  <2>1. journal' = Append(journal, e)
    BY <1>6 DEF Commit
  <2>2. e \in Entry
    BY <1>1, <1>6, EntryWritten DEF IInv
  <2>3. /\ e.lesson = l /\ e.action = req[p].op /\ e.applied = row.version
        /\ e.expected = IF req[p].op = "add" THEN 0 ELSE req[p].expected
        /\ e.source = IF req[p].op = "add" THEN Nothing ELSE Snap(lessons[l])
        /\ e.became = IF req[p].op = "cancel" THEN Nothing ELSE Snap(row)
    BY <1>1 DEF EntryToWrite
  <2>4. Len(journal') = Len(journal) + 1 /\ journal'[Len(journal')] = e
    BY <2>1 DEF IInv, TypeOK
  <2> HIDE DEF l, row, e
  <2>5. Record(l, row, e)
    BY <1>1, <1>4, <1>6, <2>1, <2>2, <2>3 DEF Record, OverrideOps, Actions, LockOps
  <2>6. CASE req[p].op = "add"
    <3>1. row.status = "published"
      BY <2>6 DEF RowToWrite, row
    <3>2. Add(l, row, e)
      BY <1>3, <1>4, <2>3, <2>5, <2>6, <3>1 DEF Add, InsertOps
    <3> QED BY <1>1, <1>2, <2>4, <3>2 DEF RegNext, Override
  <2>7. CASE req[p].op \in {"replace", "restore"}
    <3>1. row = [lessons[l] EXCEPT !.subject = Pick(req[p].subject, @),
                                   !.teacher = Pick(req[p].teacher, @),
                                   !.status = "published", !.version = @ + 1]
      BY <1>1, <2>7 DEF RowToWrite, row
    <3>2. lessons[l] \in Row
      BY <1>1 DEF IInv, TypeOK
    <3>3. row.status = "published" /\ row.slot = lessons[l].slot /\ row.flow = lessons[l].flow
      BY <3>1, <3>2 DEF Row
    <3>4. Replace(l, row, e)
      BY <1>3, <1>4, <2>3, <2>5, <2>7, <3>3 DEF Replace, LockOps
    <3> QED BY <1>1, <1>2, <2>4, <3>4 DEF RegNext, Override
  <2>8. CASE req[p].op = "cancel"
    <3>1. row = [lessons[l] EXCEPT !.status = "cancelled", !.version = @ + 1]
      BY <1>1, <2>8 DEF RowToWrite, row
    <3>2. Cancel(l, row, e)
      BY <1>3, <1>4, <2>3, <2>5, <2>8, <3>1 DEF Cancel, LockOps
    <3> QED BY <1>1, <1>2, <2>4, <3>2 DEF RegNext, Override
  <2> QED BY <1>6, <2>6, <2>7, <2>8 DEF OverrideOps, Actions
<1> QED BY <1>5, <1>6

\* Deleting a lesson is a step Remove, deleting one that is not there no step.
LEMMA DeleteRegister ==
    ASSUME IInv, NEW p \in Proc, DeleteLesson(p) PROVE [RegNext]_regVars
<1> DEFINE l == req[p].id
<1>1. l \in LessonId
  BY AtDelete
<1>2. lessons' = [lessons EXCEPT ![l] = NoRow] /\ journal' = Orphaned(l)
  BY DEF DeleteLesson
<1>3. CASE Exists(lessons[l])
  BY <1>1, <1>2, <1>3 DEF RegNext, Remove
<1>4. CASE ~Exists(lessons[l])
  <2>1. lessons[l] = NoRow
    BY <1>1, <1>4 DEF IInv, KeysIssued
  <2>2. lessons' = lessons
    BY <1>1, <1>2, <2>1 DEF IInv, TypeOK
  <2>3. \A i \in DOMAIN journal : journal[i].lesson # l
    <3> SUFFICES ASSUME NEW i \in DOMAIN journal, journal[i].lesson = l PROVE FALSE
      OBVIOUS
    <3>1. journal[i].applied \in 1 .. lessons[l].version
      BY <1>1, ConstantsOK DEF IInv, JournalVersions
    <3> QED BY <2>1, <3>1 DEF NoRow
  <2>4. journal' = journal
    BY <1>2, <2>3 DEF Orphaned, IInv, TypeOK
  <2> QED BY <2>2, <2>4 DEF regVars
<1> QED BY <1>3, <1>4

LEMMA StepRegister == IInv /\ [Next]_vars => [RegNext]_regVars
<1> SUFFICES ASSUME IInv, [Next]_vars PROVE [RegNext]_regVars
  OBVIOUS
<1> USE DEF regVars, dbVars, txVars
<1>1. ASSUME NEW p \in Proc, Begin(p) \/ Step(p) PROVE [RegNext]_regVars
  <2>1. CASE Commit(p)
    BY <2>1, CommitRegister
  <2>2. CASE DeleteLesson(p)
    BY <2>2, DeleteRegister
  <2>3. CASE Begin(p) \/ FindLesson(p) \/ LockLesson(p) \/ ReadRoom(p) \/ SaveLesson(p)
    BY <2>3 DEF Begin, FindLesson, LockLesson, ReadRoom, SaveLesson, Fail
  <2>4. CASE CheckSlotEmpty(p) \/ CheckDay(p) \/ CheckTeacher(p) \/ CheckRoom(p)
    BY <2>4 DEF CheckSlotEmpty, CheckDay, CheckTeacher, CheckRoom, Fail
  <2>5. CASE PlaceRoom(p) \/ Bump(p) \/ BumpAfter(p) \/ BreakDeadlock(p)
    BY <2>5 DEF PlaceRoom, Bump, BumpAfter, BreakDeadlock, Fail
  <2>6. CASE \/ ClaimRoom(p) \/ InsertRoom(p) \/ DeleteRoom(p)
             \/ SetDayRule(p) \/ SetTeacherRule(p)
    BY <2>6 DEF ClaimRoom, InsertRoom, DeleteRoom, SetDayRule, SetTeacherRule, Fail
  <2> QED BY <1>1, <2>1, <2>2, <2>3, <2>4, <2>5, <2>6 DEF Step
<1>2. CASE UNCHANGED vars
  BY <1>2 DEF vars
<1>3. CASE Crash
  BY <1>3 DEF Crash
<1> QED BY <1>1, <1>2, <1>3 DEF Next, AllAnswered

\* The concurrent transactions implement the indivisible steps of
\* LessonRegister.
THEOREM Refinement == Spec => RegSpec
BY InitRegister, StepRegister, Invariant, PTL DEF Spec, RegSpec

-----------------------------------------------------------------------------
(* Who holds a lock, and which deadlocks that leaves. *)

\* A lesson is locked by a transaction that works on it, the row of the
\* version by an override that is about to commit; only overrides that name or
\* keep a room place one.
LocksHeld ==
    /\ \A l \in LessonId : lock[l] # None => HoldsRow(lock[l]) /\ mine[lock[l]] = l
    /\ sysLock # None => pc[sysLock] = "commit" /\ req[sysLock].op \in OverrideOps
    /\ \A p \in Proc : pc[p] = "place" => req[p].op \in PlaceOps

\* What a step of request p may do to the locks.
LEMMA LockStep ==
    ASSUME IInv, LocksHeld, TypeOK', NEW p \in Proc,
           \A q \in Proc \ {p} : pc'[q] = pc[q] /\ req'[q] = req[q] /\ mine'[q] = mine[q],
           \A l \in LessonId : lock'[l] = lock[l] \/ lock'[l] \in {None, p},
           \A l \in LessonId : lock'[l] = p => HoldsRow(p)' /\ mine'[p] = l,
           \/ sysLock' = sysLock /\ (pc[p] = "commit" => req[p].op \notin OverrideOps)
           \/ sysLock' = p /\ pc'[p] = "commit" /\ req'[p].op \in OverrideOps
           \/ sysLock' = None,
           pc'[p] = "place" => req'[p].op \in PlaceOps
    PROVE  LocksHeld'
<1>1. TypeOK BY DEF IInv
<1>2. ASSUME NEW l \in LessonId, lock'[l] # None
      PROVE  HoldsRow(lock[l])' /\ mine'[lock'[l]] = l
  <2>1. CASE lock'[l] = p
    <3>1. HoldsRow(p)' /\ mine'[p] = l BY <2>1
    <3> QED BY <2>1, <3>1 DEF HoldsRow, Saved
  <2>2. CASE lock'[l] # p
    <3>1. lock'[l] = lock[l] /\ lock[l] \in Proc \ {p}
      BY <1>1, <1>2, <2>2 DEF TypeOK
    <3>2. HoldsRow(lock[l]) /\ mine[lock[l]] = l BY <1>2, <3>1 DEF LocksHeld
    <3> QED BY <3>1, <3>2 DEF HoldsRow, Saved
  <2> QED BY <2>1, <2>2
<1>3. sysLock' # None => pc'[sysLock'] = "commit" /\ req'[sysLock'].op \in OverrideOps
  <2>1. CASE sysLock' = sysLock
    BY <1>1, <2>1, ConstantsOK DEF LocksHeld, TypeOK
  <2> QED BY <2>1
<1>4. \A q \in Proc : pc'[q] = "place" => req'[q].op \in PlaceOps
  BY DEF LocksHeld
<1> QED BY <1>2, <1>3, <1>4 DEF LocksHeld

LEMMA FailLocks ==
    ASSUME IInv, LocksHeld, TypeOK', NEW p \in Proc, Fail(p), pc[p] # "commit"
    PROVE  LocksHeld'
<1>1. pc'[p] = "done" /\ \A q \in Proc \ {p} : pc'[q] = pc[q]
  BY DEF Fail, Goto, IInv, TypeOK
<1>2. UNCHANGED <<req, mine, sysLock>> BY DEF Fail
<1>3. \A l \in LessonId : lock'[l] # p /\ (lock'[l] = lock[l] \/ lock'[l] = None)
  BY ConstantsOK DEF Fail, WithoutLocksOf
<1> QED BY <1>1, <1>2, <1>3, LockStep

\* Steps that leave the locks alone and do not let a row go.
LEMMA QuietLocks ==
    ASSUME IInv, LocksHeld, TypeOK', NEW p \in Proc, NEW label, Goto(p, label),
           label = "place" => req[p].op \in PlaceOps, pc[p] # "commit",
           UNCHANGED <<req, mine, lock, sysLock>>, HoldsRow(p) => HoldsRow(p)'
    PROVE  LocksHeld'
<1>1. pc'[p] = label /\ \A q \in Proc \ {p} : pc'[q] = pc[q]
  BY DEF Goto, IInv, TypeOK
<1>2. \A l \in LessonId : lock[l] = p => HoldsRow(p) /\ mine[p] = l
  BY ConstantsOK DEF LocksHeld
<1> QED BY <1>1, <1>2, LockStep

LEMMA BeginLocks == ASSUME IInv, LocksHeld, NEW p \in Proc, Begin(p) PROVE LocksHeld'
<1>0. TypeOK' BY StepTyped
<1>1. PICK r \in Requests : req' = [req EXCEPT ![p] = r] /\ Goto(p, Entrance(r))
  BY DEF Begin
<1>2. /\ pc[p] = "idle" /\ pc'[p] = Entrance(r)
      /\ \A q \in Proc \ {p} : pc'[q] = pc[q] /\ req'[q] = req[q]
      /\ UNCHANGED <<lock, sysLock, mine>>
  BY <1>1 DEF Begin, Goto, IInv, TypeOK
<1>3. Entrance(r) # "place" BY DEF Entrance
<1>4. \A l \in LessonId : lock[l] # p
  BY <1>2, ConstantsOK DEF LocksHeld, HoldsRow, Saved
<1> QED BY <1>0, <1>2, <1>3, <1>4, LockStep

LEMMA FindLocks == ASSUME IInv, LocksHeld, NEW p \in Proc, FindLesson(p) PROVE LocksHeld'
<1>0. TypeOK' BY StepTyped DEF Step
<1>1. pc[p] = "find" BY DEF FindLesson
<1>2. CASE Fail(p) BY <1>0, <1>1, <1>2, FailLocks
<1>3. CASE ~Fail(p)
  <2>1. PICK l \in LessonId :
          /\ mine' = [mine EXCEPT ![p] = l] /\ Goto(p, "lock")
          /\ UNCHANGED <<lock, sysLock, req>>
    BY <1>3 DEF FindLesson
  <2>2. /\ pc'[p] = "lock"
        /\ \A q \in Proc \ {p} : pc'[q] = pc[q] /\ mine'[q] = mine[q]
    BY <2>1 DEF Goto, IInv, TypeOK
  <2>3. \A k \in LessonId : lock[k] # p
    BY <1>1, ConstantsOK DEF LocksHeld, HoldsRow, Saved
  <2> QED BY <1>0, <1>1, <2>1, <2>2, <2>3, LockStep
<1> QED BY <1>2, <1>3

LEMMA LockLocks == ASSUME IInv, LocksHeld, NEW p \in Proc, LockLesson(p) PROVE LocksHeld'
<1>0. TypeOK' BY StepTyped DEF Step
<1>1. pc[p] = "lock" BY DEF LockLesson
<1>2. mine[p] \in LessonId /\ req[p].op \in LockOps
  BY <1>1 DEF IInv, Owns, Course
<1>3. ~HoldsRow(p) BY <1>1 DEF HoldsRow, Saved
<1>4. ASSUME NEW l \in LessonId PROVE lock[l] # p
  BY <1>1, ConstantsOK DEF LocksHeld, HoldsRow, Saved
<1>5. CASE Fail(p) BY <1>0, <1>1, <1>5, FailLocks
<1>6. CASE ~Fail(p)
  <2> DEFINE next == IF req[p].op # "update" THEN "room"
                     ELSE IF req[p].status = "cancelled" THEN "teacher" ELSE "day"
  <2>1. /\ lock' = [lock EXCEPT ![mine[p]] = p] /\ Goto(p, next)
        /\ UNCHANGED <<sysLock, req, mine>>
    BY <1>6 DEF LockLesson
  <2>2. /\ pc'[p] = next /\ \A q \in Proc \ {p} : pc'[q] = pc[q]
        /\ \A l \in LessonId : lock'[l] = IF l = mine[p] THEN p ELSE lock[l]
    BY <2>1 DEF Goto, IInv, TypeOK
  <2>3. HoldsRow(p)' BY <1>2, <2>1, <2>2 DEF HoldsRow
  <2> QED BY <1>0, <1>1, <1>2, <1>4, <2>1, <2>2, <2>3, LockStep
<1> QED BY <1>5, <1>6

LEMMA CheckLocks ==
    ASSUME IInv, LocksHeld, NEW p \in Proc,
           ReadRoom(p) \/ CheckSlotEmpty(p) \/ CheckDay(p) \/ CheckTeacher(p) \/ CheckRoom(p)
    PROVE  LocksHeld'
<1> USE DEF dbVars, txVars
<1>0. TypeOK' BY StepTyped DEF Step
<1>1. pc[p] \in {"room", "slot", "day", "teacher", "avail"}
  BY DEF ReadRoom, CheckSlotEmpty, CheckDay, CheckTeacher, CheckRoom
<1>2. CASE Fail(p) BY <1>0, <1>1, <1>2, FailLocks
<1>3. CASE ~Fail(p)
  <2>1. PICK label \in {"day", "teacher", "avail", "save"} :
          Goto(p, label) /\ UNCHANGED <<req, mine, lock, sysLock>>
    BY <1>3 DEF ReadRoom, CheckSlotEmpty, CheckDay, CheckTeacher, CheckRoom
  <2>2. pc'[p] = label BY <2>1 DEF Goto, IInv, TypeOK
  <2>3. HoldsRow(p) => HoldsRow(p)' BY <1>1, <2>1, <2>2 DEF HoldsRow, Saved
  <2> QED BY <1>0, <1>1, <2>1, <2>3, QuietLocks
<1> QED BY <1>2, <1>3

LEMMA SaveLocks == ASSUME IInv, LocksHeld, NEW p \in Proc, SaveLesson(p) PROVE LocksHeld'
<1>0. TypeOK' BY StepTyped DEF Step
<1>1. pc[p] = "save" /\ req[p].op \in LockOps \cup InsertOps
  BY DEF SaveLesson, IInv, Course
<1>2. CASE Fail(p) BY <1>0, <1>1, <1>2, FailLocks
<1>3. CASE ~Fail(p)
  <2>1. Goto(p, AfterSave(p)) /\ UNCHANGED <<sysLock, req>> BY <1>3 DEF SaveLesson
  <2>2. pc'[p] = AfterSave(p) /\ \A q \in Proc \ {p} : pc'[q] = pc[q]
    BY <2>1 DEF Goto, IInv, TypeOK
  <2>3. AfterSave(p) \in {"place", "bump", "commit"} BY DEF AfterSave
  <2>4. HoldsRow(p)' BY <1>1, <2>1, <2>2, <2>3 DEF HoldsRow, Saved
  <2>5. AfterSave(p) = "place" => req[p].op \in PlaceOps BY DEF AfterSave, NextLoc
  <2>6. CASE req[p].op \in InsertOps
    <3>1. PICK l \in LessonId \ issued :
             mine' = [mine EXCEPT ![p] = l] /\ lock' = [lock EXCEPT ![l] = p]
      BY <1>3, <2>6 DEF SaveLesson
    <3>2. \A k \in LessonId : lock[k] # p
      BY <1>1, <2>6, ConstantsOK DEF LocksHeld, HoldsRow, Saved, InsertOps, LockOps
    <3>3. /\ mine'[p] = l /\ \A q \in Proc \ {p} : mine'[q] = mine[q]
          /\ \A k \in LessonId : lock'[k] = IF k = l THEN p ELSE lock[k]
      BY <3>1 DEF IInv, TypeOK
    <3> QED BY <1>0, <1>1, <2>1, <2>2, <2>4, <2>5, <3>2, <3>3, LockStep
  <2>7. CASE req[p].op \notin InsertOps
    <3>1. UNCHANGED <<mine, lock>> BY <1>3, <2>7 DEF SaveLesson
    <3> QED BY <1>0, <1>1, <2>1, <2>4, <2>5, <3>1, QuietLocks
  <2> QED BY <2>6, <2>7
<1> QED BY <1>2, <1>3

LEMMA BumpLocks ==
    ASSUME IInv, LocksHeld, NEW p \in Proc, PlaceRoom(p) \/ Bump(p) \/ BumpAfter(p)
    PROVE  LocksHeld'
<1> USE DEF dbVars, txVars
<1>0. TypeOK' BY StepTyped DEF Step
<1>1. CASE PlaceRoom(p)
  <2>1. pc'[p] = "bump" BY <1>1 DEF PlaceRoom, Goto, IInv, TypeOK
  <2>2. HoldsRow(p) => HoldsRow(p)' BY <1>1, <2>1 DEF PlaceRoom, HoldsRow, Saved
  <2> QED BY <1>0, <1>1, <2>2, QuietLocks DEF PlaceRoom
<1>2. CASE Bump(p)
  <2>1. /\ pc'[p] = "commit" /\ req'[p].op \in OverrideOps /\ sysLock' = p
        /\ \A q \in Proc \ {p} : pc'[q] = pc[q]
        /\ UNCHANGED <<req, mine, lock>>
    BY <1>2 DEF Bump, Goto, IInv, TypeOK, Course
  <2>2. HoldsRow(p) => HoldsRow(p)' BY <1>2, <2>1 DEF Bump, HoldsRow, Saved
  <2>3. \A l \in LessonId : lock[l] = p => HoldsRow(p) /\ mine[p] = l
    BY ConstantsOK DEF LocksHeld
  <2> QED BY <1>0, <2>1, <2>2, <2>3, LockStep
<1>3. CASE BumpAfter(p)
  <2>1. ~HoldsRow(p) BY <1>3 DEF BumpAfter, HoldsRow, Saved
  <2> QED BY <1>0, <1>3, <2>1, QuietLocks DEF BumpAfter
<1> QED BY <1>1, <1>2, <1>3

LEMMA CommitLocks == ASSUME IInv, LocksHeld, NEW p \in Proc, Commit(p) PROVE LocksHeld'
<1>0. TypeOK' BY StepTyped DEF Step
<1>1. PICK label \in {"done", "after"} : Goto(p, label) BY DEF Commit
<1>2. /\ pc'[p] = label /\ \A q \in Proc \ {p} : pc'[q] = pc[q]
      /\ UNCHANGED <<req, mine>>
  BY <1>1 DEF Commit, Goto, IInv, TypeOK
<1>3. \A l \in LessonId : lock'[l] # p /\ (lock'[l] = lock[l] \/ lock'[l] = None)
  BY ConstantsOK DEF Commit, WithoutLocksOf
<1>4. sysLock' = None \/ (sysLock' = sysLock /\ req[p].op \notin OverrideOps) BY DEF Commit
<1> QED BY <1>0, <1>2, <1>3, <1>4, LockStep

LEMMA RowLocks ==
    ASSUME IInv, LocksHeld, NEW p \in Proc,
           \/ DeleteLesson(p) \/ ClaimRoom(p) \/ InsertRoom(p) \/ DeleteRoom(p)
           \/ SetDayRule(p) \/ SetTeacherRule(p)
    PROVE  LocksHeld'
<1> USE DEF dbVars, txVars
<1>0. TypeOK' BY StepTyped DEF Step
<1>1. pc[p] \in {"remove", "claim", "fk", "unroom", "rule"}
  BY DEF DeleteLesson, ClaimRoom, InsertRoom, DeleteRoom, SetDayRule, SetTeacherRule
<1>2. CASE Fail(p) BY <1>0, <1>1, <1>2, FailLocks
<1>3. CASE ~Fail(p)
  <2>1. PICK label \in {"after", "fk", "done"} :
          Goto(p, label) /\ UNCHANGED <<req, mine, lock, sysLock>>
    BY <1>3 DEF DeleteLesson, ClaimRoom, InsertRoom, DeleteRoom, SetDayRule, SetTeacherRule
  <2>2. ~HoldsRow(p) BY <1>1 DEF HoldsRow, Saved
  <2> QED BY <1>0, <1>1, <2>1, <2>2, QuietLocks
<1> QED BY <1>2, <1>3

LEMMA LocksKept == IInv /\ LocksHeld /\ [Next]_vars => LocksHeld'
<1> SUFFICES ASSUME IInv, LocksHeld, [Next]_vars PROVE LocksHeld'
  OBVIOUS
<1>1. ASSUME NEW p \in Proc, BreakDeadlock(p) PROVE LocksHeld'
  <2>1. pc[p] # "commit" BY <1>1 DEF BreakDeadlock, Deadlocked, WaitsFor
  <2> QED BY <1>1, <2>1, FailLocks, StepTyped DEF BreakDeadlock, Step
<1>2. CASE Crash BY <1>2 DEF Crash, LocksHeld
<1>3. CASE UNCHANGED vars BY <1>3 DEF vars, LocksHeld, HoldsRow, Saved
<1> QED BY <1>1, <1>2, <1>3, BeginLocks, FindLocks, LockLocks, CheckLocks, SaveLocks, BumpLocks,
           CommitLocks, RowLocks DEF Next, Step, AllAnswered

LEMMA InitLocks == Init => LocksHeld
BY DEF Init, LocksHeld

\* A transaction that waits for the other and makes it wait.
LEMMA DeadlocksFound == ASSUME IInv, LocksHeld PROVE DeadlocksAreRoomInserts
<1> SUFFICES ASSUME NEW p \in Proc, NEW q \in Proc, q \in WaitsFor(p), p \in WaitsFor(q), p # q
             PROVE  \/ req[p].op = "room_create" /\ req[q].op \in PlaceOps
                    \/ req[q].op = "room_create" /\ req[p].op \in PlaceOps
  BY DEF DeadlocksAreRoomInserts
<1>1. ASSUME NEW a \in Proc, NEW b \in Proc, b \in WaitsFor(a)
      PROVE  \/ pc[a] = "lock" /\ HoldsRow(b)
             \/ pc[a] = "save" /\ Saved(b)
             \/ pc[a] = "place" /\ HoldsRoom(b, mine[a])
             \/ pc[a] \in {"bump", "after"} /\ pc[b] = "commit"
             \/ pc[a] \in {"remove", "fk"} /\ HoldsRow(b)
             \/ pc[a] \in {"claim", "unroom"} /\ HoldsRoom(b, req[a].id)
  <2>1. TypeOK BY DEF IInv
  <2>2. \A l \in LessonId : lock[l] = b => HoldsRow(b) BY ConstantsOK DEF LocksHeld
  <2>3. pc[a] = "lock" => mine[a] \in LessonId BY DEF IInv, Owns
  <2>4. pc[a] \in {"remove", "fk"} => req[a].id \in LessonId
    BY <2>1, RequestsOK DEF IInv, Course, TypeOK
  <2>5. sysLock = b => pc[b] = "commit" BY ConstantsOK DEF LocksHeld
  <2> QED BY <1>1, <2>2, <2>3, <2>4, <2>5 DEF WaitsFor, HoldsSlot
<1>2. ASSUME NEW a \in Proc, NEW b \in Proc, b \in WaitsFor(a), a \in WaitsFor(b)
      PROVE  \/ pc[a] = "place" /\ pc[b] = "fk"
             \/ pc[a] = "fk" /\ pc[b] = "place"
  BY <1>1, <1>2 DEF HoldsRow, HoldsRoom, Saved, Placed
<1>3. \A a \in Proc :
        /\ pc[a] = "place" => req[a].op \in PlaceOps
        /\ pc[a] = "fk" => req[a].op = "room_create"
  BY DEF LocksHeld, IInv, Course
<1>4. (pc[p] = "place" /\ pc[q] = "fk") \/ (pc[p] = "fk" /\ pc[q] = "place")
  BY <1>2
<1> QED BY <1>3, <1>4

\* The only deadlocks are those of an override that places a room and the
\* insertion of a room assignment for the same lesson, which take the lock of
\* the lesson and the key of the assignment in opposite orders.
THEOREM DeadlocksAreKnown == Spec => []DeadlocksAreRoomInserts
<1>1. Spec => []LocksHeld
  BY Invariant, InitLocks, LocksKept, PTL DEF Spec
<1> QED BY <1>1, Invariant, DeadlocksFound, PTL

-----------------------------------------------------------------------------
(* Rules of days and teachers. *)

\* The row of a request that is past a check passes it still, unless the rule
\* was written since.
RulesChecked(p) ==
    Active(RowToWrite(p)) =>
        /\ PastDay(p) => DayAdmits(p, RowToWrite(p)) \/ "day" \in overtaken[p]
        /\ PastTeacher(p) => TeacherAdmits(p, RowToWrite(p)) \/ "teacher" \in overtaken[p]

SlotsReal == \A l \in LessonId : Exists(lessons[l]) => lessons[l].slot \in Slot

RulesInv == SlotsReal /\ \A p \in Proc : RulesChecked(p)

LEMMA RealSlot ==
    ASSUME IInv, SlotsReal, NEW p \in Proc, PastDay(p)
    PROVE  RowToWrite(p).slot \in Slot /\ RowToWrite(p).teacher \in Teacher \cup {None}
<1>1. TypeOK /\ RowToWrite(p) \in Row /\ req[p] \in Requests BY RowWritten DEF IInv, TypeOK
<1>2. req[p].op \in LockOps \cup InsertOps
  BY DEF IInv, Course, PastDay, PastTeacher, PlaceOps, OverrideOps, Actions, LockOps, InsertOps
<1>3. CASE req[p].op \in {"cancel", "replace", "restore"}
  <2>1. HoldsRow(p) /\ Exists(seen[p]) /\ mine[p] \in LessonId /\ seen[p] = lessons[mine[p]]
    <3>1. HoldsRow(p) /\ req[p].op \in LockOps BY <1>3 DEF HoldsRow, PastDay, PastTeacher, LockOps
    <3> QED BY <3>1 DEF IInv, Owns, NoLostUpdate
  <2>2. seen[p].slot \in Slot BY <2>1 DEF SlotsReal
  <2>3. seen[p] \in Row BY <1>1 DEF TypeOK
  <2>4. RowToWrite(p).slot = seen[p].slot
    <3>1. CASE req[p].op = "cancel" BY <2>3, <3>1 DEF RowToWrite, Row
    <3>2. CASE req[p].op \in {"replace", "restore"} BY <2>3, <3>2 DEF RowToWrite, Row
    <3> QED BY <1>3, <3>1, <3>2
  <2> QED BY <1>1, <2>2, <2>4 DEF Row
<1>4. CASE req[p].op \notin {"cancel", "replace", "restore"}
  <2>1. req[p].slot \in Slot BY <1>1, <1>2, <1>4, RequestsOK DEF LockOps, InsertOps
  <2>2. RowToWrite(p).slot = req[p].slot BY <1>4 DEF RowToWrite
  <2> QED BY <1>1, <2>1, <2>2 DEF Row
<1> QED BY <1>3, <1>4

\* Steps that change neither rules nor lessons and move request p on to a
\* statement whose checks are made.
LEMMA RulesStep ==
    ASSUME IInv, RulesInv, NEW p \in Proc,
           UNCHANGED <<dayRule, teacherRule, lessons, overtaken>>,
           \A q \in Proc \ {p} : pc'[q] = pc[q] /\ req'[q] = req[q] /\ seen'[q] = seen[q],
           RulesChecked(p)'
    PROVE  RulesInv'
<1>1. \A q \in Proc \ {p} : RowToWrite(q)' = RowToWrite(q)
  BY RowDependsOn
<1>2. \A q \in Proc \ {p} : RulesChecked(q)'
  BY <1>1 DEF RulesInv, RulesChecked, PastDay, PastTeacher, DayAdmits, TeacherAdmits
<1>3. SlotsReal' BY DEF RulesInv, SlotsReal
<1> QED BY <1>2, <1>3 DEF RulesInv

LEMMA RulesFail == ASSUME IInv, RulesInv, NEW p \in Proc, Fail(p) PROVE RulesInv'
<1>1. pc'[p] = "done" /\ \A q \in Proc \ {p} : pc'[q] = pc[q]
  BY DEF Fail, Goto, IInv, TypeOK
<1>2. RulesChecked(p)' BY <1>1 DEF RulesChecked, PastDay, PastTeacher
<1> QED BY <1>1, <1>2, RulesStep DEF Fail, dbVars

\* A row that is written as cancelled is not live.
LEMMA CancelledRow ==
    ASSUME TypeOK, NEW p \in Proc,
           \/ req[p].op = "cancel"
           \/ req[p].op \in {"create", "update"} /\ req[p].status = "cancelled"
    PROVE  ~Active(RowToWrite(p))
<1>1. seen[p] \in Row BY DEF TypeOK
<1>2. RowToWrite(p).status = "cancelled"
  <2>1. CASE req[p].op = "cancel" BY <1>1, <2>1 DEF RowToWrite, Row
  <2>2. CASE req[p].op \in {"create", "update"} /\ req[p].status = "cancelled"
    BY <2>2 DEF RowToWrite
  <2> QED BY <2>1, <2>2
<1> QED BY <1>2 DEF Active

LEMMA RulesBegin == ASSUME IInv, RulesInv, NEW p \in Proc, Begin(p) PROVE RulesInv'
<1>0. TypeOK' BY StepTyped
<1>1. PICK r \in Requests : req' = [req EXCEPT ![p] = r] /\ Goto(p, Entrance(r))
  BY DEF Begin
<1>2. /\ pc'[p] = Entrance(r) /\ req'[p] = r
      /\ \A q \in Proc \ {p} : pc'[q] = pc[q] /\ req'[q] = req[q]
      /\ UNCHANGED <<dayRule, teacherRule, lessons, overtaken, seen>>
  BY <1>1 DEF Begin, Goto, IInv, TypeOK, dbVars
<1>3. /\ Entrance(r) \notin {"avail", "save", "place", "bump", "commit"}
      /\ Entrance(r) = "teacher" => r.op = "create" /\ r.status = "cancelled"
  BY DEF Entrance
<1>4. Entrance(r) = "teacher" => ~Active(RowToWrite(p)')
  <2>1. ASSUME Entrance(r) = "teacher" PROVE RowToWrite(p)'.status = "cancelled"
    BY <1>2, <1>3, <2>1 DEF RowToWrite
  <2> QED BY <2>1 DEF Active
<1>5. RulesChecked(p)' BY <1>2, <1>3, <1>4 DEF RulesChecked, PastDay, PastTeacher
<1> QED BY <1>2, <1>5, RulesStep

LEMMA RulesLock ==
    ASSUME IInv, RulesInv, NEW p \in Proc, FindLesson(p) \/ LockLesson(p) PROVE RulesInv'
<1> USE DEF dbVars
<1>1. CASE Fail(p) BY <1>1, RulesFail
<1>2. CASE ~Fail(p) /\ FindLesson(p)
  <2>1. Goto(p, "lock") /\ UNCHANGED <<dayRule, teacherRule, lessons, overtaken, req, seen>>
    BY <1>2 DEF FindLesson
  <2>2. pc'[p] = "lock" /\ \A q \in Proc \ {p} : pc'[q] = pc[q]
    BY <2>1 DEF Goto, IInv, TypeOK
  <2>3. RulesChecked(p)' BY <2>2 DEF RulesChecked, PastDay, PastTeacher
  <2> QED BY <2>1, <2>2, <2>3, RulesStep
<1>3. CASE ~Fail(p) /\ LockLesson(p)
  <2> DEFINE next == IF req[p].op # "update" THEN "room"
                     ELSE IF req[p].status = "cancelled" THEN "teacher" ELSE "day"
  <2>1. /\ Goto(p, next) /\ UNCHANGED <<dayRule, teacherRule, lessons, overtaken, req>>
        /\ seen' = [seen EXCEPT ![p] = lessons[mine[p]]]
    BY <1>3 DEF LockLesson
  <2>2. /\ pc'[p] = next
        /\ \A q \in Proc \ {p} : pc'[q] = pc[q] /\ seen'[q] = seen[q]
    BY <2>1 DEF Goto, IInv, TypeOK
  <2>3. next = "teacher" => ~Active(RowToWrite(p)')
    <3>1. ASSUME next = "teacher" PROVE RowToWrite(p)'.status = "cancelled"
      BY <2>1, <3>1 DEF RowToWrite
    <3> QED BY <3>1 DEF Active
  <2>4. RulesChecked(p)' BY <2>2, <2>3 DEF RulesChecked, PastDay, PastTeacher
  <2> QED BY <2>1, <2>2, <2>4, RulesStep
<1> QED BY <1>1, <1>2, <1>3

LEMMA RulesReads ==
    ASSUME IInv, RulesInv, NEW p \in Proc,
           ReadRoom(p) \/ CheckSlotEmpty(p) \/ CheckDay(p) \/ CheckTeacher(p) \/ CheckRoom(p)
    PROVE  RulesInv'
<1> USE DEF dbVars, txVars
<1>0. TypeOK BY DEF IInv
<1>1. CASE Fail(p) BY <1>1, RulesFail
<1>2. CASE ~Fail(p)
  <2>1. PICK label \in {"day", "teacher", "avail", "save"} :
          Goto(p, label) /\ UNCHANGED <<dayRule, teacherRule, lessons, overtaken, req, seen>>
    BY <1>2 DEF ReadRoom, CheckSlotEmpty, CheckDay, CheckTeacher, CheckRoom
  <2>2. pc'[p] = label /\ \A q \in Proc \ {p} : pc'[q] = pc[q]
    BY <1>0, <2>1 DEF Goto, TypeOK
  <2> DEFINE row == RowToWrite(p)
  <2>3. RowToWrite(p)' = row BY <2>1, RowDependsOn
  <2>4. ASSUME ReadRoom(p) PROVE RulesChecked(p)'
    <3>1. label = "day" \/ (label = "save" /\ req[p].op = "cancel")
      BY <1>0, <2>2, <2>4 DEF ReadRoom, Goto, TypeOK
    <3>2. CASE label = "day" BY <2>2, <3>2 DEF RulesChecked, PastDay, PastTeacher
    <3>3. CASE label = "save" /\ ~Active(row) BY <2>2, <2>3, <3>3 DEF RulesChecked, PastDay, PastTeacher
    <3> QED BY <1>0, <3>1, <3>2, <3>3, CancelledRow
  <2>5. ASSUME CheckSlotEmpty(p) PROVE RulesChecked(p)'
    <3>1. label = "day" BY <1>0, <1>2, <2>2, <2>5 DEF CheckSlotEmpty, Goto, TypeOK
    <3> QED BY <2>2, <3>1 DEF RulesChecked, PastDay, PastTeacher
  <2>6. ASSUME CheckDay(p) PROVE RulesChecked(p)'
    <3>1. label = "teacher" /\ DayAdmits(p, row)
      BY <1>0, <1>2, <2>2, <2>6 DEF CheckDay, Goto, TypeOK, DayAdmits
    <3> QED BY <2>1, <2>2, <2>3, <3>1 DEF RulesChecked, PastDay, PastTeacher, DayAdmits
  <2>7. ASSUME CheckTeacher(p) PROVE RulesChecked(p)'
    <3>1. label \in {"avail", "save"} /\ TeacherAdmits(p, row)
      BY <1>0, <1>2, <2>2, <2>7 DEF CheckTeacher, TeacherAllows, Goto, TypeOK, TeacherAdmits
    <3>2. Active(row) => DayAdmits(p, row) \/ "day" \in overtaken[p]
      BY <2>7 DEF CheckTeacher, RulesInv, RulesChecked, PastDay
    <3> QED BY <2>1, <2>2, <2>3, <3>1, <3>2 DEF RulesChecked, PastDay, PastTeacher, DayAdmits, TeacherAdmits
  <2>8. ASSUME CheckRoom(p) PROVE RulesChecked(p)'
    <3>1. label = "save" BY <1>0, <1>2, <2>2, <2>8 DEF CheckRoom, Goto, TypeOK
    <3>2. Active(row) => /\ DayAdmits(p, row) \/ "day" \in overtaken[p]
                         /\ TeacherAdmits(p, row) \/ "teacher" \in overtaken[p]
      BY <2>8 DEF CheckRoom, RulesInv, RulesChecked, PastDay, PastTeacher
    <3> QED BY <2>1, <2>2, <2>3, <3>1, <3>2 DEF RulesChecked, PastDay, PastTeacher, DayAdmits, TeacherAdmits
  <2>9. RulesChecked(p)' BY <1>2, <2>4, <2>5, <2>6, <2>7, <2>8
  <2> QED BY <2>1, <2>2, <2>9, RulesStep
<1> QED BY <1>1, <1>2

LEMMA RulesSave ==
    ASSUME IInv, RulesInv, NEW p \in Proc, SaveLesson(p) \/ PlaceRoom(p) \/ Bump(p) \/ BumpAfter(p)
    PROVE  RulesInv'
<1> USE DEF dbVars, txVars
<1>0. TypeOK BY DEF IInv
<1>1. CASE Fail(p) BY <1>1, RulesFail
<1>2. CASE ~Fail(p)
  <2>1. PICK label \in {"place", "bump", "commit", "done"} :
          Goto(p, label) /\ UNCHANGED <<dayRule, teacherRule, lessons, overtaken, req, seen>>
    BY <1>2 DEF SaveLesson, AfterSave, PlaceRoom, Bump, BumpAfter
  <2>2. pc'[p] = label /\ \A q \in Proc \ {p} : pc'[q] = pc[q]
    BY <1>0, <2>1 DEF Goto, TypeOK
  <2>3. RowToWrite(p)' = RowToWrite(p) BY <2>1, RowDependsOn
  <2>4. pc[p] \in {"save", "place", "bump"} \/ label = "done"
    BY <1>0, <2>2 DEF SaveLesson, PlaceRoom, Bump, BumpAfter, Goto, TypeOK
  <2>5. ASSUME label = "done" PROVE RulesChecked(p)'
    BY <2>2, <2>5 DEF RulesChecked, PastDay, PastTeacher
  <2>6. ASSUME pc[p] \in {"save", "place", "bump"}, label # "done" PROVE RulesChecked(p)'
    <3>1. Active(RowToWrite(p)) =>
             /\ DayAdmits(p, RowToWrite(p)) \/ "day" \in overtaken[p]
             /\ TeacherAdmits(p, RowToWrite(p)) \/ "teacher" \in overtaken[p]
      BY <2>6 DEF RulesInv, RulesChecked, PastDay, PastTeacher
    <3> QED BY <2>1, <2>2, <2>3, <2>6, <3>1 DEF RulesChecked, PastDay, PastTeacher, DayAdmits, TeacherAdmits
  <2>7. RulesChecked(p)' BY <2>4, <2>5, <2>6
  <2> QED BY <2>1, <2>2, <2>7, RulesStep
<1> QED BY <1>1, <1>2

\* What a step makes of a lesson: only a commit brings a new row.
LEMMA LessonsWritten ==
    ASSUME TypeOK, [Next]_vars, NEW l \in LessonId, lessons'[l] # lessons[l], lessons'[l] # NoRow
    PROVE  \E p \in Proc : pc[p] = "commit" /\ mine[p] = l /\ lessons'[l] = RowToWrite(p)
<1> USE DEF dbVars
<1>1. PICK p \in Proc : Begin(p) \/ Step(p)
  BY DEF Next, AllAnswered, Crash, vars
<1>2. Commit(p) \/ DeleteLesson(p)
  BY <1>1 DEF Begin, Step, Fail, FindLesson, LockLesson, ReadRoom, CheckSlotEmpty, CheckDay,
              CheckTeacher, CheckRoom, SaveLesson, PlaceRoom, Bump, BumpAfter, ClaimRoom,
              InsertRoom, DeleteRoom, SetDayRule, SetTeacherRule, BreakDeadlock
<1>3. ~DeleteLesson(p) BY DEF DeleteLesson, TypeOK
<1> QED BY <1>2, <1>3 DEF Commit, TypeOK

LEMMA RulesWrite ==
    ASSUME IInv, RulesInv, NEW p \in Proc,
           Commit(p) \/ DeleteLesson(p) \/ ClaimRoom(p) \/ InsertRoom(p) \/ DeleteRoom(p)
    PROVE  RulesInv'
<1> USE DEF dbVars, txVars
<1>0. TypeOK BY DEF IInv
<1>1. CASE Fail(p) BY <1>1, RulesFail
<1>2. CASE ~Fail(p)
  <2>1. PICK label \in {"done", "after", "fk"} :
          Goto(p, label) /\ UNCHANGED <<dayRule, teacherRule, overtaken, req, seen>>
    BY <1>2 DEF Commit, DeleteLesson, ClaimRoom, InsertRoom, DeleteRoom
  <2>2. pc'[p] = label /\ \A q \in Proc \ {p} : pc'[q] = pc[q]
    BY <1>0, <2>1 DEF Goto, TypeOK
  <2>3. \A q \in Proc : RowToWrite(q)' = RowToWrite(q) BY <2>1, RowDependsOn
  <2>4. \A q \in Proc : RulesChecked(q)'
    BY <2>1, <2>2, <2>3
       DEF RulesInv, RulesChecked, PastDay, PastTeacher, DayAdmits, TeacherAdmits
  <2>5. \A l \in LessonId :
          \/ lessons'[l] = lessons[l] \/ lessons'[l] = NoRow
          \/ PastDay(p) /\ lessons'[l] = RowToWrite(p)
    <3>1. CASE Commit(p)
      <4>1. lessons' = [lessons EXCEPT ![mine[p]] = RowToWrite(p)] /\ PastDay(p)
        BY <3>1 DEF Commit, PastDay, PastTeacher
      <4> QED BY <1>0, <4>1 DEF TypeOK
    <3>2. CASE DeleteLesson(p) BY <1>0, <3>2 DEF DeleteLesson, TypeOK
    <3>3. CASE ~Commit(p) /\ ~DeleteLesson(p)
      BY <1>2, <3>3 DEF ClaimRoom, InsertRoom, DeleteRoom
    <3> QED BY <3>1, <3>2, <3>3
  <2>6. SlotsReal' BY <2>5, RealSlot, NoRowIsRow DEF RulesInv, SlotsReal
  <2> QED BY <2>4, <2>6 DEF RulesInv
<1> QED BY <1>1, <1>2

\* A new rule overtakes whoever has looked at the old one.
LEMMA RulesSet ==
    ASSUME IInv, RulesInv, NEW p \in Proc, SetDayRule(p) \/ SetTeacherRule(p)
    PROVE  RulesInv'
<1> USE DEF txVars
<1>0. TypeOK BY DEF IInv
<1>1. PICK label \in {"done", "after"} :
        Goto(p, label) /\ UNCHANGED <<lessons, req, seen>>
  BY DEF SetDayRule, SetTeacherRule
<1>2. pc'[p] = label /\ \A q \in Proc \ {p} : pc'[q] = pc[q]
  BY <1>0, <1>1 DEF Goto, TypeOK
<1>3. \A q \in Proc : RowToWrite(q)' = RowToWrite(q) BY <1>1, RowDependsOn
<1>4. ASSUME NEW q \in Proc, PastDay(q), RowToWrite(q).slot \in Slot
      PROVE  /\ overtaken[q] \subseteq overtaken'[q]
             /\ \/ dayRule'[DayOf[RowToWrite(q).slot]] = dayRule[DayOf[RowToWrite(q).slot]]
                \/ "day" \in overtaken'[q]
  <2>1. CASE SetDayRule(p) BY <1>0, <1>4, <2>1, ConstantsOK DEF SetDayRule, TypeOK
  <2>2. CASE SetTeacherRule(p) BY <2>2 DEF SetTeacherRule
  <2> QED BY <2>1, <2>2
<1>5. ASSUME NEW q \in Proc, PastTeacher(q), RowToWrite(q).slot \in Slot,
             RowToWrite(q).teacher \in Teacher
      PROVE  LET td == <<RowToWrite(q).teacher, DayOf[RowToWrite(q).slot]>>
             IN  teacherRule'[td] = teacherRule[td] \/ "teacher" \in overtaken'[q]
  <2>1. CASE SetDayRule(p) BY <2>1 DEF SetDayRule
  <2>2. CASE SetTeacherRule(p)
    <3>1. <<RowToWrite(q).teacher, DayOf[RowToWrite(q).slot]>> \in Teacher \X Day
      BY <1>5, ConstantsOK
    <3> QED BY <1>0, <1>5, <2>2, <3>1 DEF SetTeacherRule, TypeOK
  <2> QED BY <2>1, <2>2
<1>6. ASSUME NEW q \in Proc PROVE RulesChecked(q)'
  <2> DEFINE row == RowToWrite(q)
  <2> SUFFICES ASSUME PastDay(q)', Active(row)
               PROVE  /\ DayAdmits(q, row)' \/ "day" \in overtaken'[q]
                      /\ PastTeacher(q)' => TeacherAdmits(q, row)' \/ "teacher" \in overtaken'[q]
    BY <1>3 DEF RulesChecked, PastDay
  <2>1. PastDay(q) /\ (PastTeacher(q)' => PastTeacher(q))
    BY <1>2 DEF PastDay, PastTeacher
  <2>2. row.slot \in Slot /\ row.teacher \in Teacher \cup {None}
    BY <2>1, RealSlot DEF RulesInv
  <2>3. /\ DayAdmits(q, row) \/ "day" \in overtaken[q]
        /\ PastTeacher(q) => TeacherAdmits(q, row) \/ "teacher" \in overtaken[q]
    BY <2>1 DEF RulesInv, RulesChecked
  <2>4. req' = req /\ row' = row BY <1>1, <1>3
  <2>5. overtaken[q] \subseteq overtaken'[q] BY <1>4, <2>1, <2>2
  <2>6. DayAdmits(q, row)' \/ "day" \in overtaken'[q]
    BY <1>4, <2>1, <2>2, <2>3, <2>4 DEF DayAdmits
  <2>7. ASSUME PastTeacher(q)' PROVE TeacherAdmits(q, row)' \/ "teacher" \in overtaken'[q]
    BY <1>5, <2>1, <2>2, <2>3, <2>4, <2>5, <2>7 DEF TeacherAdmits
  <2> QED BY <2>6, <2>7
<1>7. SlotsReal' BY <1>1 DEF RulesInv, SlotsReal
<1> QED BY <1>6, <1>7 DEF RulesInv

LEMMA RulesKept == IInv /\ RulesInv /\ [Next]_vars => RulesInv'
<1> SUFFICES ASSUME IInv, RulesInv, [Next]_vars PROVE RulesInv'
  OBVIOUS
<1>1. ASSUME NEW p \in Proc, Begin(p) \/ Step(p) PROVE RulesInv'
  BY <1>1, RulesBegin, RulesLock, RulesReads, RulesSave, RulesWrite, RulesSet, RulesFail
     DEF Step, BreakDeadlock
<1>2. CASE Crash
  <2>1. \A q \in Proc : pc'[q] \in {"idle", "done"} BY <1>2 DEF Crash
  <2>2. \A q \in Proc : RulesChecked(q)' BY <2>1 DEF RulesChecked, PastDay, PastTeacher
  <2>3. SlotsReal' BY <1>2 DEF Crash, dbVars, RulesInv, SlotsReal
  <2> QED BY <2>2, <2>3 DEF RulesInv
<1>3. CASE UNCHANGED vars
  <2>1. \A q \in Proc : RowToWrite(q)' = RowToWrite(q) BY <1>3, RowDependsOn DEF vars
  <2> QED BY <1>3, <2>1 DEF vars, RulesInv, SlotsReal, RulesChecked, PastDay, PastTeacher,
                            DayAdmits, TeacherAdmits
<1> QED BY <1>1, <1>2, <1>3 DEF Next, AllAnswered

\* RulesRespected: although the rules of a day and of a teacher are read by
\* statements of their own and locked by none, a live lesson is written against
\* a rule only by a request that had looked before the rule was written.
THEOREM RulesHold == Spec => RulesRespected
<1> DEFINE Kept(l) ==
             LET row == lessons'[l]
             IN  Active(row) /\ row # lessons[l] =>
                   \E p \in Proc : /\ pc[p] = "commit" /\ mine[p] = l
                                   /\ DayAdmits(p, row) \/ "day" \in overtaken[p]
                                   /\ TeacherAdmits(p, row) \/ "teacher" \in overtaken[p]
<1>1. Init => RulesInv
  <2> SUFFICES ASSUME Init PROVE RulesInv
    OBVIOUS
  <2>1. \A p \in Proc : RulesChecked(p) BY DEF Init, RulesChecked, PastDay, PastTeacher
  <2>2. SlotsReal BY InitialDatabaseOK DEF Init, SlotsReal
  <2> QED BY <2>1, <2>2 DEF RulesInv
<1>2. ASSUME IInv, RulesInv, [Next]_vars, NEW l \in LessonId PROVE Kept(l)
  <2> SUFFICES ASSUME Active(lessons'[l]), lessons'[l] # lessons[l]
               PROVE  \E p \in Proc :
                        /\ pc[p] = "commit" /\ mine[p] = l
                        /\ DayAdmits(p, lessons'[l]) \/ "day" \in overtaken[p]
                        /\ TeacherAdmits(p, lessons'[l]) \/ "teacher" \in overtaken[p]
    OBVIOUS
  <2>1. PICK p \in Proc : pc[p] = "commit" /\ mine[p] = l /\ lessons'[l] = RowToWrite(p)
    BY <1>2, LessonsWritten, NoRowIsRow DEF IInv
  <2>2. PastDay(p) /\ PastTeacher(p) /\ RulesChecked(p)
    BY <1>2, <2>1 DEF PastDay, PastTeacher, RulesInv
  <2> QED BY <2>1, <2>2 DEF RulesChecked
<1>3. IInv /\ RulesInv /\ [Next]_vars => [\A l \in LessonId : Kept(l)]_vars
  BY <1>2
<1>4. IInv /\ RulesInv /\ [Next]_vars => RulesInv' BY RulesKept
<1> QED BY <1>1, <1>3, <1>4, Invariant, PTL DEF Spec, RulesRespected
=============================================================================
