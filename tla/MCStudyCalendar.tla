-------------------------- MODULE MCStudyCalendar --------------------------
(***************************************************************************)
(* A small instance of StudyCalendar for TLC: two weeks of days, years of a *)
(* week, bodies chosen so that weeks of two courses, overrides of a Monday  *)
(* and of another day, and weeks of the group meet.                         *)
(***************************************************************************)
EXTENDS StudyCalendar, TLC

CONSTANTS theory, practice

Lessons(code) == [code |-> code, teaches |-> TRUE]
Without(code) == [code |-> code, teaches |-> FALSE]

W(course, number, start, act) == [course |-> course, number |-> number, start |-> start, act |-> act]
P(number, dow, act) == [course |-> 1, number |-> number, dow |-> dow, act |-> act]
S(number, start, act) == [number |-> number, start |-> start, act |-> act]

Bodies ==
    {[op |-> "calendar", start |-> 7],
     [op |-> "drop", cal |-> 1],
     [op |-> "group", group |-> [planned |-> TRUE, year |-> 1]],
     [op |-> "weeks", cal |-> 1, rows |-> <<W(0, 1, 2, Lessons(theory)), W(2, 2, 7, Without(practice))>>],
     [op |-> "weeks", cal |-> 1, rows |-> <<W(1, 2, 3, Without(practice)), W(2, 1, 0, Without(practice))>>],
     [op |-> "weeks", cal |-> 1, rows |-> <<W(1, 1, 2, Lessons(theory)), W(1, 2, 3, Lessons(theory))>>],
     [op |-> "add", cal |-> 1, patch |-> P(1, 1, Without(practice))],
     [op |-> "add", cal |-> 1, patch |-> P(1, 3, Without(practice))],
     [op |-> "update", id |-> 1, patch |-> P(2, 2, Lessons(theory))],
     [op |-> "update", id |-> 2, patch |-> P(2, 2, Lessons(theory))],
     [op |-> "remove", id |-> 1],
     [op |-> "study", rows |-> <<S(1, None, Lessons(theory)), S(2, 9, Without(None))>>],
     [op |-> "unstudy", number |-> 2]}

OneCalendar == {[id |-> 1, start |-> 0]}
Groups == {[planned |-> b, year |-> None] : b \in BOOLEAN}
Weeks == {[from |-> 0, to |-> 5], [from |-> 3, to |-> 9], [from |-> 1, to |-> 1]}
Symmetry == Permutations(Admin)
=============================================================================
