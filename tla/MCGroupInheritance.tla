------------------------- MODULE MCGroupInheritance -------------------------
(***************************************************************************)
(* Small instances of GroupInheritance: three groups, 3 taking its         *)
(* schedule from 2 and 2 from 1 or from none, with room for more.          *)
(***************************************************************************)
EXTENDS GroupInheritance, TLC

Symmetry == Permutations(Proc)
Line(n)  == [g \in Group |-> IF g \in 2 .. n THEN g - 1 ELSE None]
Three    == {1, 2, 3}
LineOf3  == Line(3)
Parted   == [LineOf3 EXCEPT ![2] = None]

Ask(op, g, s) == [op |-> op, id |-> g, patch |-> s]

SomeRequests ==
    {Ask("update", 1, 2), Ask("update", 2, 1), Ask("update", 3, None),
     Ask("create", None, 2), Ask("create", 2, 1), Ask("delete", 2, None),
     Ask("read", 2, None), Ask("read", 3, None)}

\* Every way to close a cycle of three groups, in a line at first.
CycleRequests ==
    {Ask("update", g, s) : g \in Three, s \in Three} \cup
    {Ask("update", 3, None), Ask("delete", 2, None), Ask("create", 2, 3), Ask("create", 4, 4)}

TwoUpdates == {Ask("update", 1, 2), Ask("update", 2, 1)}
NoSource   == [g \in Group |-> None]
=============================================================================
