-------------------------- MODULE GroupInheritance --------------------------
(***************************************************************************)
(* A group can take its schedule from another one                          *)
(* (groups.schedule_source_group_id).  The admin API creates, updates and  *)
(* deletes groups; reading a schedule first follows the sources from the   *)
(* requested group to its base.  Neither runs in a transaction: a step is  *)
(* one SQL statement with the checks that follow it.  Names, courses and   *)
(* the other columns are left out.                                         *)
(***************************************************************************)
EXTENDS Integers, Sequences, FiniteSets

CONSTANTS Group, None,
          Proc,         \* requests
          InitLive, InitSource,
          Requests,     \* the requests clients send
          MaxDepth,     \* 10 in the code: steps of either walk
          MaxInFlight   \* bound: requests served at the same time

VARIABLES live,         \* rows of groups
          source,       \* [Group -> Group or None]: schedule_source_group_id
          used,         \* ids the sequence has given out
          dataVersion,  \* how often system_state.schedule_version was written
          pc, req,      \* label and request of each Proc
          row,          \* the source column of the row an update read
          seen, cur, depth,  \* a walk: groups passed, group next, steps made
          chain,        \* the inheritance chain, base first
          moved         \* history, read by no guard: the groups a request has
                        \* passed whose source was changed after it

vars == <<live, source, used, dataVersion, pc, req, row, seen, cur, depth, chain, moved>>

Ops     == {"create", "update", "delete", "read"}
Request == [op : Ops, id : Group \cup {None}, patch : Group \cup {None}]
Labels  == {"idle", "find", "walk", "save", "insert", "remove", "bump",
            "start", "chain", "answer", "done"}

ASSUME ConstantsOK ==
    /\ None \notin Group
    /\ InitLive \subseteq Group
    /\ InitSource \in [Group -> InitLive \cup {None}]
    /\ \A g \in Group \ InitLive : InitSource[g] = None
    /\ Requests \subseteq Request /\ Requests # {}
    /\ \A r \in Requests : r.op # "create" => r.id \in Group
    /\ MaxDepth \in Nat \ {0} /\ MaxInFlight \in Nat \ {0}

\* Requests find sources without a cycle.
ASSUME InitialSourcesOK ==
    ~\E S \in SUBSET InitLive : S # {} /\ \A g \in S : InitSource[g] \in S

TypeOK ==
    /\ live \subseteq Group /\ used \subseteq Group
    /\ source \in [Group -> Group \cup {None}]
    /\ dataVersion \in Nat
    /\ pc \in [Proc -> Labels]
    /\ req \in [Proc -> Requests]
    /\ row \in [Proc -> Group \cup {None}]
    /\ seen \in [Proc -> SUBSET Group]
    /\ cur \in [Proc -> Group \cup {None}]
    /\ depth \in [Proc -> 0 .. MaxDepth]
    /\ chain \in [Proc -> Seq(Group)]
    /\ moved \in [Proc -> SUBSET Group]

-----------------------------------------------------------------------------
tables == <<live, source, used, dataVersion, moved>>
walks  == <<row, seen, cur, depth, chain>>

Goto(p, label) == pc' = [pc EXCEPT ![p] = label]

\* The groups whose source a cycle check, or a reader, has read and relies on.
Passed(p) ==
    CASE pc[p] \in {"walk", "save"} -> seen[p] \ {req[p].id}
      [] pc[p] = "chain" -> seen[p] \cup {cur[p]}
      [] pc[p] = "answer" -> seen[p]
      [] OTHER -> {}

\* A statement that writes sources changes them behind the requests under way.
Noted ==
    moved' = [p \in Proc |-> moved[p] \cup {g \in Passed(p) : source'[g] # source[g]}]

\* An error return; whatever was written stays, there is no transaction.
Fail(p) == Goto(p, "done") /\ UNCHANGED <<tables, req, walks>>

Begin(p) ==
    /\ pc[p] = "idle"
    /\ Cardinality({q \in Proc : pc[q] \notin {"idle", "done"}}) < MaxInFlight
    /\ \E r \in Requests :
          /\ req' = [req EXCEPT ![p] = r]
          /\ Goto(p, CASE r.op = "create" -> "insert"
                       [] r.op = "update" -> "find"
                       [] r.op = "delete" -> "remove"
                       [] r.op = "read"   -> "start")
    /\ UNCHANGED <<tables, walks>>

-----------------------------------------------------------------------------
(* UpdateGroup. *)

StartWalk(p, passed, next) ==
    /\ seen' = [seen EXCEPT ![p] = passed]
    /\ cur' = [cur EXCEPT ![p] = next]
    /\ depth' = [depth EXCEPT ![p] = 0]

\* A patch without a source keeps the source that was read.
FindGroup(p) ==
    LET r == req[p]
    IN  /\ pc[p] = "find"
        /\ IF r.id \notin live \/ r.patch = r.id THEN Fail(p)
           ELSE /\ row' = [row EXCEPT ![p] = IF r.patch = None THEN source[r.id]
                                             ELSE r.patch]
                /\ IF r.patch = None
                   THEN Goto(p, "save") /\ UNCHANGED <<seen, cur, depth>>
                   ELSE Goto(p, "walk") /\ StartWalk(p, {r.id}, r.patch)
                /\ UNCHANGED <<tables, req, chain>>

\* Mutant: the group being updated is not among those that close a cycle.
WalkPastSelf(p) ==
    /\ pc[p] = "walk"
    /\ CASE depth[p] = MaxDepth ->
              Goto(p, "save") /\ UNCHANGED <<tables, req, walks>>
         [] depth[p] < MaxDepth /\ (cur[p] \in seen[p] \ {req[p].id} \/ cur[p] \notin live) ->
              Fail(p)
         [] OTHER ->
              /\ seen' = [seen EXCEPT ![p] = @ \cup {cur[p]}]
              /\ IF source[cur[p]] = None
                 THEN Goto(p, "save") /\ UNCHANGED <<cur, depth>>
                 ELSE /\ cur' = [cur EXCEPT ![p] = source[cur[p]]]
                      /\ depth' = [depth EXCEPT ![p] = @ + 1]
                      /\ UNCHANGED pc
              /\ UNCHANGED <<tables, req, row, chain>>

\* Mutant: the pointers are followed with no limit and no memory.
WalkForever(p) ==
    /\ pc[p] = "walk"
    /\ IF cur[p] \notin live THEN Fail(p)
       ELSE /\ IF source[cur[p]] = None
               THEN Goto(p, "save") /\ UNCHANGED cur
               ELSE cur' = [cur EXCEPT ![p] = source[cur[p]]] /\ UNCHANGED pc
            /\ UNCHANGED <<tables, req, row, seen, depth, chain>>

\* The cycle check: it gives up quietly after MaxDepth groups.
Walk(p) ==
    /\ pc[p] = "walk"
    /\ CASE depth[p] = MaxDepth ->
              Goto(p, "save") /\ UNCHANGED <<tables, req, walks>>
         [] depth[p] < MaxDepth /\ (cur[p] \in seen[p] \/ cur[p] \notin live) ->
              Fail(p)
         [] OTHER ->
              /\ seen' = [seen EXCEPT ![p] = @ \cup {cur[p]}]
              /\ IF source[cur[p]] = None
                 THEN Goto(p, "save") /\ UNCHANGED <<cur, depth>>
                 ELSE /\ cur' = [cur EXCEPT ![p] = source[cur[p]]]
                      /\ depth' = [depth EXCEPT ![p] = @ + 1]
                      /\ UNCHANGED pc
              /\ UNCHANGED <<tables, req, row, chain>>

\* Mutant: no foreign key on schedule_source_group_id.
SaveUnchecked(p) ==
    /\ pc[p] = "save"
    /\ live' = live \cup {req[p].id}
    /\ source' = [source EXCEPT ![req[p].id] = row[p]]
    /\ Noted /\ Goto(p, "bump")
    /\ UNCHANGED <<used, dataVersion, req, walks>>

\* Save writes all columns, by INSERT when the row has gone meanwhile; the
\* foreign key refuses a source that has gone.
Save(p) ==
    /\ pc[p] = "save"
    /\ IF row[p] \in live \cup {req[p].id, None}
       THEN /\ live' = live \cup {req[p].id}
            /\ source' = [source EXCEPT ![req[p].id] = row[p]]
            /\ Noted /\ Goto(p, "bump")
            /\ UNCHANGED <<used, dataVersion, req, walks>>
       ELSE Fail(p)

\* CreateGroup checks nothing.  A body may name the id, else the sequence gives
\* the next one; a taken id and a source that does not exist are refused.
Insert(p) ==
    LET r == req[p]
    IN  /\ pc[p] = "insert"
        /\ \E g \in IF r.id = None THEN Group \ used ELSE {r.id} :
              /\ used' = IF r.id = None THEN used \cup {g} ELSE used
              /\ IF g \notin live /\ r.patch \in live \cup {g, None}
                 THEN /\ live' = live \cup {g}
                      /\ source' = [source EXCEPT ![g] = r.patch]
                      /\ Noted /\ Goto(p, "bump")
                 ELSE UNCHANGED <<live, source, moved>> /\ Goto(p, "done")
        /\ UNCHANGED <<dataVersion, req, walks>>

\* DELETE; ON DELETE SET NULL detaches the groups that used it as source.
Remove(p) ==
    /\ pc[p] = "remove"
    /\ live' = live \ {req[p].id}
    /\ source' = [g \in Group |-> IF req[p].id \in {g, source[g]} THEN None ELSE source[g]]
    /\ Noted /\ Goto(p, "bump")
    /\ UNCHANGED <<used, dataVersion, req, walks>>

\* The handlers ignore a failure of the bump.
Bump(p) ==
    /\ pc[p] = "bump"
    /\ dataVersion' \in {dataVersion, dataVersion + 1}
    /\ Goto(p, "done")
    /\ UNCHANGED <<live, source, used, moved, req, walks>>

-----------------------------------------------------------------------------
(* scheduleInheritanceChainIDs.  cur is the group read, row its source. *)

ReadLeaf(p) ==
    LET leaf == req[p].id
    IN  /\ pc[p] = "start"
        /\ IF leaf \notin live THEN Fail(p)
           ELSE /\ StartWalk(p, {}, leaf)
                /\ row' = [row EXCEPT ![p] = source[leaf]]
                /\ chain' = [chain EXCEPT ![p] = << >>]
                /\ Goto(p, "chain")
                /\ UNCHANGED <<tables, req>>

\* Mutant: groups that were passed before are not recognised.
FollowBlindly(p) ==
    /\ pc[p] = "chain"
    /\ chain' = [chain EXCEPT ![p] = <<cur[p]>> \o @]
    /\ seen' = [seen EXCEPT ![p] = @ \cup {cur[p]}]
    /\ IF row[p] = None \/ depth[p] + 1 = MaxDepth \/ row[p] \notin live
       THEN Goto(p, "answer") /\ UNCHANGED <<cur, row, depth>>
       ELSE /\ cur' = [cur EXCEPT ![p] = row[p]]
            /\ row' = [row EXCEPT ![p] = source[row[p]]]
            /\ depth' = [depth EXCEPT ![p] = @ + 1]
            /\ UNCHANGED pc
    /\ UNCHANGED <<tables, req>>

\* Mutant: the chain is returned leaf first.
FollowLeafFirst(p) ==
    /\ pc[p] = "chain" /\ cur[p] \notin seen[p] /\ row[p] \in live \cup {None}
    /\ chain' = [chain EXCEPT ![p] = Append(@, cur[p])]
    /\ seen' = [seen EXCEPT ![p] = @ \cup {cur[p]}]
    /\ IF row[p] = None \/ depth[p] + 1 = MaxDepth
       THEN Goto(p, "answer") /\ UNCHANGED <<cur, row, depth>>
       ELSE /\ cur' = [cur EXCEPT ![p] = row[p]]
            /\ row' = [row EXCEPT ![p] = source[row[p]]]
            /\ depth' = [depth EXCEPT ![p] = @ + 1]
            /\ UNCHANGED pc
    /\ UNCHANGED <<tables, req>>

\* One round of the loop; the source group is read at its end.
Follow(p) ==
    /\ pc[p] = "chain"
    /\ IF cur[p] \in seen[p] \/ (row[p] # None /\ row[p] \notin live) THEN Fail(p)
       ELSE /\ chain' = [chain EXCEPT ![p] = <<cur[p]>> \o @]
            /\ seen' = [seen EXCEPT ![p] = @ \cup {cur[p]}]
            /\ IF row[p] = None \/ depth[p] + 1 = MaxDepth
               THEN Goto(p, "answer") /\ UNCHANGED <<cur, row, depth>>
               ELSE /\ cur' = [cur EXCEPT ![p] = row[p]]
                    /\ row' = [row EXCEPT ![p] = source[row[p]]]
                    /\ depth' = [depth EXCEPT ![p] = @ + 1]
                    /\ UNCHANGED pc
            /\ UNCHANGED <<tables, req>>

Answer(p) == pc[p] = "answer" /\ Fail(p)

-----------------------------------------------------------------------------
\* The API process restarts; the requests under way are gone.
Crash ==
    /\ \E p \in Proc : pc[p] \notin {"idle", "done"}
    /\ pc' = [p \in Proc |-> IF pc[p] = "idle" THEN "idle" ELSE "done"]
    /\ UNCHANGED <<tables, req, walks>>

Init ==
    /\ live = InitLive /\ source = InitSource /\ used = InitLive
    /\ dataVersion = 0
    /\ pc = [p \in Proc |-> "idle"]
    /\ req = [p \in Proc |-> CHOOSE r \in Requests : TRUE]
    /\ cur = [p \in Proc |-> None]
    /\ row = [p \in Proc |-> None]
    /\ seen = [p \in Proc |-> {}]
    /\ depth = [p \in Proc |-> 0]
    /\ chain = [p \in Proc |-> << >>]
    /\ moved = [p \in Proc |-> {}]

Step(p) == FindGroup(p) \/ Walk(p) \/ Save(p) \/ Insert(p) \/ Remove(p) \/ Bump(p)
             \/ ReadLeaf(p) \/ Follow(p) \/ Answer(p)

AllAnswered == (\A p \in Proc : pc[p] = "done") /\ UNCHANGED vars

Next == (\E p \in Proc : Begin(p) \/ Step(p)) \/ Crash \/ AllAnswered

Spec == Init /\ [][Next]_vars

\* The goroutine of a request runs on.
FairSpec == Spec /\ \A p \in Proc : WF_vars(Step(p))

-----------------------------------------------------------------------------
(* Properties. *)

\* No group is, through its sources, a source of itself: no set of groups is
\* closed under source.
Acyclic == ~\E S \in SUBSET live : S # {} /\ \A g \in S : source[g] \in S

\* What lets an update close a cycle: its check gave up at MaxDepth; or a group
\* the check had passed was given another source before the save; or there was
\* no check, as the source was not to change, and what is written back is a
\* source that somebody else has replaced since it was read.
CheckMissed(p) ==
    \/ depth[p] = MaxDepth
    \/ \E g \in moved[p] : source[g] # None
    \/ req[p].patch = None /\ row[p] # source[req[p].id]

\* UpdateGroup looks for a cycle group by group, in no transaction, and saves
\* in a statement after that.  Whatever else is created, updated and deleted in
\* between, the sources come to form a cycle only by an update that missed it
\* for one of these reasons, or by a creation that names itself as its source.
CyclesHaveCause ==
    [][Acyclic /\ ~Acyclic' =>
         \E p \in Proc : /\ pc'[p] # pc[p]
                         /\ \/ pc[p] = "save" /\ CheckMissed(p)
                            \/ pc[p] = "insert" /\ source'[req[p].patch] = req[p].patch]_vars

\* Sources are groups that exist, whatever is deleted meanwhile.
SourcesExist == \A g \in Group : source[g] \in (IF g \in live THEN live ELSE {}) \cup {None}

\* A chain that was read names each group once and ends in the group asked for,
\* even when the sources are changed, or closed to a cycle, while they are read.
ChainSound ==
    \A p \in Proc : pc[p] = "answer" =>
        /\ Len(chain[p]) \in 1 .. MaxDepth
        /\ chain[p][Len(chain[p])] = req[p].id
        /\ \A i, j \in 1 .. Len(chain[p]) : chain[p][i] = chain[p][j] => i = j

\* scheduleInheritanceChainIDs reads the sources one by one.  However they are
\* changed meanwhile, the chain is the line of sources as it is when the answer
\* is given, but for the groups whose source was changed after it was read; it
\* ends early only at MaxDepth; and a cycle is reported only if there is one,
\* or if such a change made the reader pass a group twice.
ChainExact ==
    \A p \in Proc :
        LET c == chain[p]
        IN  /\ pc[p] = "answer" =>
                  /\ \A i \in 2 .. Len(c) : source[c[i]] = c[i - 1] \/ c[i] \in moved[p]
                  /\ source[c[1]] = None \/ c[1] \in moved[p] \/ Len(c) = MaxDepth
            /\ pc[p] = "chain" /\ cur[p] \in seen[p] => ~Acyclic \/ moved[p] # {}

\* Every request ends: a cycle of sources keeps no reader and no check busy.
EveryRequestEnds == \A p \in Proc : pc[p] # "idle" ~> pc[p] = "done"

-----------------------------------------------------------------------------
(* Inductive invariants. *)

\* Only creations do without a group.
Named(p) == pc[p] \in {"idle", "insert", "bump", "done"} \/ req[p].id \in Group

ReaderKeeps(p) ==
    LET c == chain[p]
    IN  pc[p] \in {"chain", "answer"} =>
          /\ Len(c) = IF pc[p] = "chain" THEN depth[p] ELSE depth[p] + 1
          /\ depth[p] < MaxDepth /\ cur[p] \in Group
          /\ seen[p] = {c[i] : i \in 1 .. Len(c)}
          /\ \A i, j \in 1 .. Len(c) : c[i] = c[j] => i = j
          /\ IF c = << >> THEN cur[p] = req[p].id ELSE c[Len(c)] = req[p].id

\* What a reader has in hand is so still, where nothing was changed after it.
LineKeeps(p) ==
    LET c == chain[p]
    IN  /\ pc[p] \in {"chain", "answer"} =>
              \A i \in 2 .. Len(c) : source[c[i]] = c[i - 1] \/ c[i] \in moved[p]
        /\ pc[p] = "chain" =>
              /\ row[p] = source[cur[p]] \/ cur[p] \in moved[p]
              /\ c # << >> => source[c[1]] = cur[p] \/ c[1] \in moved[p]
        /\ pc[p] = "answer" =>
              source[c[1]] = None \/ c[1] \in moved[p] \/ Len(c) = MaxDepth

\* The groups a cycle check has passed lead only to each other and to the next,
\* which is None at the end: the group updated is not among them.
WalkKeeps(p) ==
    LET passed == seen[p] \ {req[p].id}
        next   == IF pc[p] = "walk" THEN cur[p] ELSE None
    IN  pc[p] = "walk" \/ (pc[p] = "save" /\ req[p].patch # None /\ depth[p] # MaxDepth) =>
          /\ req[p].id \in seen[p]
          /\ row[p] \in Group /\ row[p] \in passed \cup {next}
          /\ \A g \in passed : source[g] \in passed \cup {next, None} \/ g \in moved[p]

\* Behind the safety properties, for any interleaving.
IInv == /\ TypeOK /\ SourcesExist
        /\ \A p \in Proc : Named(p) /\ ReaderKeeps(p) /\ LineKeeps(p) /\ WalkKeeps(p)
=============================================================================
