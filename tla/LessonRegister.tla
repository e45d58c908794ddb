-------------------------- MODULE LessonRegister --------------------------
(***************************************************************************)
(* What the lesson table and the override journal promise to their         *)
(* readers, with no transactions in sight: every change of a lesson is one *)
(* indivisible step that raises the lesson's version by exactly one, an    *)
(* override leaves exactly one journal entry that quotes the lesson before *)
(* and after that very step, and two live lessons never share a slot.      *)
(*                                                                         *)
(* LessonTx is the detailed model of the code; it implements this module.  *)
(***************************************************************************)
EXTENDS Naturals, Sequences

CONSTANTS LessonId,   \* primary keys of schedule_lessons
          Slot,       \* (group, date, pair, subgroup): the key of the unique index
          Subject, Teacher, Flow, Location,
          None        \* SQL NULL, and "nobody" for locks

VARIABLES lessons,    \* [LessonId -> Row]: the committed schedule_lessons
          journal     \* sequence of the committed schedule_overrides

regVars == <<lessons, journal>>

Statuses == {"absent", "draft", "published", "cancelled"}

\* "absent" stands for a key with no row: not inserted yet, or deleted.
Row == [slot : Slot \cup {None}, subject : Subject \cup {None},
        teacher : Teacher \cup {None}, flow : Flow \cup {None},
        status : Statuses, version : Nat]

NoRow == [slot |-> None, subject |-> None, teacher |-> None, flow |-> None,
          status |-> "absent", version |-> 0]

Exists(row) == row.status # "absent"

\* The rows the partial unique index covers: WHERE status <> 'cancelled'.
Active(row) == row.status \in {"draft", "published"}

\* The part of a lesson an override quotes as source_* and replacement_*.
Snap(row) == [subject |-> row.subject, teacher |-> row.teacher]
Nothing   == [subject |-> None, teacher |-> None]

Actions == {"add", "replace", "restore", "cancel"}

Entry == [lesson : LessonId \cup {None}, action : Actions,
          expected : Nat, applied : Nat,
          source : [subject : Subject \cup {None}, teacher : Teacher \cup {None}],
          became : [subject : Subject \cup {None}, teacher : Teacher \cup {None}],
          sourceRoom : Location \cup {None}, becameRoom : Location \cup {None}]

SlotFree(l, row) ==
    Active(row) => \A k \in LessonId \ {l} :
                      ~(Active(lessons[k]) /\ lessons[k].slot = row.slot)

\* A lesson is written as a whole, its version goes up by one, and the slot
\* it takes is free of every other live lesson.
Write(l, row) ==
    /\ row \in Row
    /\ Exists(row)
    /\ row.version = lessons[l].version + 1
    /\ SlotFree(l, row)
    /\ lessons' = [lessons EXCEPT ![l] = row]

\* One journal entry: it names the version it produced, was asked for at the
\* version it found (or at none in particular), and quotes both sides.
Record(l, row, entry) ==
    /\ entry \in Entry
    /\ entry.lesson = l
    /\ entry.applied = row.version
    /\ entry.expected \in {0, lessons[l].version}
    /\ entry.source = (IF entry.action = "add" THEN Nothing ELSE Snap(lessons[l]))
    /\ entry.became = (IF entry.action = "cancel" THEN Nothing ELSE Snap(row))
    /\ journal' = Append(journal, entry)

Add(l, row, entry) ==
    /\ entry.action = "add"
    /\ ~Exists(lessons[l])
    /\ row.status = "published"
    /\ Write(l, row) /\ Record(l, row, entry)

\* A replacement and a restoration keep the lesson's place and publish it.
Replace(l, row, entry) ==
    /\ entry.action \in {"replace", "restore"}
    /\ Exists(lessons[l])
    /\ row.status = "published"
    /\ row.slot = lessons[l].slot /\ row.flow = lessons[l].flow
    /\ Write(l, row) /\ Record(l, row, entry)

\* A cancellation changes nothing but the status and the version.
Cancel(l, row, entry) ==
    /\ entry.action = "cancel"
    /\ Exists(lessons[l])
    /\ row = [lessons[l] EXCEPT !.status = "cancelled", !.version = @ + 1]
    /\ Write(l, row) /\ Record(l, row, entry)

\* Lessons are also created and edited outside the journal.
Edit(l, row) == Write(l, row) /\ UNCHANGED journal

\* A deleted lesson leaves its journal entries behind without an owner.
Orphaned(l) == [i \in DOMAIN journal |->
                  IF journal[i].lesson = l THEN [journal[i] EXCEPT !.lesson = None]
                                           ELSE journal[i]]

Remove(l) ==
    /\ Exists(lessons[l])
    /\ lessons' = [lessons EXCEPT ![l] = NoRow]
    /\ journal' = Orphaned(l)

Override(l) ==
    LET row   == lessons'[l]
        entry == journal'[Len(journal')]
    IN  /\ Len(journal') = Len(journal) + 1
        /\ \/ Add(l, row, entry)
           \/ Replace(l, row, entry)
           \/ Cancel(l, row, entry)

RegInit == /\ \A l \in LessonId : lessons[l] \in Row
           /\ \A l \in LessonId : SlotFree(l, lessons[l])
           /\ journal = << >>

RegNext == \E l \in LessonId : \/ Override(l)
                               \/ Edit(l, lessons'[l])
                               \/ Remove(l)

RegSpec == RegInit /\ [][RegNext]_regVars
=============================================================================
