----------------------- MODULE GroupInheritance_proofs -----------------------
(***************************************************************************)
(* For any number of requests and groups, and any interleaving: chains     *)
(* that were read are sound and exact, sources exist, and the sources come *)
(* to form a cycle only for the reasons CheckMissed lists.                 *)
(***************************************************************************)
EXTENDS GroupInheritance, TLAPS

LEMMA InitHolds == Init => IInv
<1> SUFFICES ASSUME Init PROVE IInv OBVIOUS
<1>1. (CHOOSE r \in Requests : TRUE) \in Requests BY ConstantsOK
<1>2. TypeOK BY <1>1, ConstantsOK DEF Init, TypeOK, Labels
<1>3. SourcesExist BY ConstantsOK DEF Init, SourcesExist
<1>4. ASSUME NEW p \in Proc
      PROVE  Named(p) /\ ReaderKeeps(p) /\ LineKeeps(p) /\ WalkKeeps(p)
  BY <1>2 DEF Init, Named, ReaderKeeps, LineKeeps, WalkKeeps
<1> QED BY <1>2, <1>3, <1>4 DEF IInv

-----------------------------------------------------------------------------
(* The chain of a reader. *)

LEMMA Prepend ==
    ASSUME NEW c \in Seq(Group), NEW g \in Group
    PROVE  /\ <<g>> \o c \in Seq(Group) /\ Len(<<g>> \o c) = Len(c) + 1
           /\ (<<g>> \o c)[1] = g
           /\ \A i \in 1 .. Len(c) : (<<g>> \o c)[i + 1] = c[i]
OBVIOUS

\* A group not passed yet goes in front of the chain.
LEMMA InFront ==
    ASSUME NEW c \in Seq(Group), NEW g \in Group,
           g \notin {c[i] : i \in 1 .. Len(c)},
           \A i, j \in 1 .. Len(c) : c[i] = c[j] => i = j
    PROVE  LET d == <<g>> \o c
           IN  /\ d \in Seq(Group) /\ Len(d) = Len(c) + 1
               /\ {d[i] : i \in 1 .. Len(d)} = {c[i] : i \in 1 .. Len(c)} \cup {g}
               /\ \A i, j \in 1 .. Len(d) : d[i] = d[j] => i = j
               /\ d[Len(d)] = IF c = << >> THEN g ELSE c[Len(c)]
<1> DEFINE d == <<g>> \o c
<1>1. /\ d \in Seq(Group) /\ Len(d) = Len(c) + 1 /\ d[1] = g
      /\ \A i \in 1 .. Len(c) : d[i + 1] = c[i]
  BY Prepend
<1> HIDE DEF d
<1>2. \A i \in 1 .. Len(d) : i = 1 \/ (i - 1 \in 1 .. Len(c) /\ d[i] = c[i - 1])
  <2> TAKE i \in 1 .. Len(d)
  <2>1. CASE i # 1
    <3>1. i - 1 \in 1 .. Len(c) /\ (i - 1) + 1 = i BY <1>1, <2>1
    <3> QED BY <1>1, <3>1
  <2> QED BY <2>1
<1>3. {d[i] : i \in 1 .. Len(d)} = {c[i] : i \in 1 .. Len(c)} \cup {g}
  <2>1. ASSUME NEW i \in 1 .. Len(d) PROVE d[i] \in {c[k] : k \in 1 .. Len(c)} \cup {g}
    BY <1>1, <1>2
  <2>2. ASSUME NEW k \in 1 .. Len(c) PROVE \E i \in 1 .. Len(d) : d[i] = c[k]
    <3>1. k + 1 \in 1 .. Len(d) BY <1>1
    <3> QED BY <1>1, <3>1
  <2>3. 1 \in 1 .. Len(d) /\ \E i \in 1 .. Len(d) : d[i] = g BY <1>1
  <2>4. ASSUME NEW x \in {d[i] : i \in 1 .. Len(d)}
        PROVE  x \in {c[k] : k \in 1 .. Len(c)} \cup {g}
    BY <2>1
  <2>5. ASSUME NEW x \in {c[k] : k \in 1 .. Len(c)} \cup {g}
        PROVE  x \in {d[i] : i \in 1 .. Len(d)}
    BY <2>2, <2>3
  <2> QED BY <2>4, <2>5
<1>4. \A i, j \in 1 .. Len(d) : d[i] = d[j] => i = j
  <2> SUFFICES ASSUME NEW i \in 1 .. Len(d), NEW j \in 1 .. Len(d), d[i] = d[j]
               PROVE  i = j
    OBVIOUS
  <2>1. CASE i = 1 /\ j = 1 BY <2>1
  <2>2. CASE i = 1 /\ j # 1 BY <1>1, <1>2, <2>2
  <2>3. CASE i # 1 /\ j = 1 BY <1>1, <1>2, <2>3
  <2>4. CASE i # 1 /\ j # 1
    <3>1. i - 1 \in 1 .. Len(c) /\ j - 1 \in 1 .. Len(c) /\ c[i - 1] = c[j - 1]
      BY <1>2, <2>4
    <3> QED BY <3>1
  <2> QED BY <2>1, <2>2, <2>3, <2>4
<1>5. d[Len(d)] = IF c = << >> THEN g ELSE c[Len(c)]
  <2>1. CASE c = << >> BY <1>1, <2>1
  <2>2. CASE c # << >>
    <3>1. Len(c) \in 1 .. Len(c) BY <2>2
    <3> QED BY <1>1, <2>2, <3>1
  <2> QED BY <2>1, <2>2
<1> QED BY <1>1, <1>3, <1>4, <1>5 DEF d

-----------------------------------------------------------------------------
(* One step of one request. *)

\* A request leaves what belongs to the others alone.
LEMMA OthersStay ==
    ASSUME TypeOK, NEW p \in Proc, Begin(p) \/ Step(p), NEW q \in Proc \ {p}
    PROVE  /\ pc'[q] = pc[q] /\ req'[q] = req[q] /\ row'[q] = row[q]
           /\ seen'[q] = seen[q] /\ cur'[q] = cur[q] /\ depth'[q] = depth[q]
           /\ chain'[q] = chain[q]
<1> USE DEF TypeOK, Goto, Fail, StartWalk, tables, walks
<1>1. CASE Begin(p) BY <1>1 DEF Begin
<1>2. CASE FindGroup(p) BY <1>2 DEF FindGroup
<1>3. CASE Walk(p) BY <1>3 DEF Walk
<1>4. CASE Save(p) BY <1>4 DEF Save
<1>5. CASE Insert(p) BY <1>5 DEF Insert
<1>6. CASE Remove(p) BY <1>6 DEF Remove
<1>7. CASE Bump(p) BY <1>7 DEF Bump
<1>8. CASE ReadLeaf(p) BY <1>8 DEF ReadLeaf
<1>9. CASE Follow(p) BY <1>9 DEF Follow
<1>10. CASE Answer(p) BY <1>10 DEF Answer
<1> QED BY <1>1, <1>2, <1>3, <1>4, <1>5, <1>6, <1>7, <1>8, <1>9, <1>10 DEF Step

\* A walk starts at depth 0.
LEMMA StartWalkTypes ==
    ASSUME TypeOK, NEW p \in Proc, NEW S \in SUBSET Group, NEW g \in Group, StartWalk(p, S, g)
    PROVE  /\ seen' \in [Proc -> SUBSET Group] /\ cur' \in [Proc -> Group \cup {None}]
           /\ depth' \in [Proc -> 0 .. MaxDepth]
<1>1. 0 \in 0 .. MaxDepth BY ConstantsOK
<1> QED BY <1>1 DEF TypeOK, StartWalk

LEMMA PassedTypes ==
    ASSUME TypeOK, NEW q \in Proc, ReaderKeeps(q)
    PROVE  Passed(q) \subseteq Group
BY DEF Passed, TypeOK, ReaderKeeps

LEMMA NotedTypes ==
    ASSUME TypeOK, \A q \in Proc : ReaderKeeps(q), Noted
    PROVE  moved' \in [Proc -> SUBSET Group]
<1>1. ASSUME NEW q \in Proc
      PROVE  moved[q] \cup {g \in Passed(q) : source'[g] # source[g]} \in SUBSET Group
  BY PassedTypes DEF TypeOK
<1> QED BY <1>1 DEF Noted

\* Whoever writes a source, it is noted for the requests that have passed it.
LEMMA Notes ==
    ASSUME TypeOK, NEW p \in Proc, Begin(p) \/ Step(p), NEW q \in Proc
    PROVE  /\ moved[q] \subseteq moved'[q]
           /\ \A g \in Passed(q) : source'[g] = source[g] \/ g \in moved'[q]
<1>1. CASE Noted BY <1>1 DEF Noted
<1>2. CASE UNCHANGED <<source, moved>> BY <1>2
<1>3. Noted \/ UNCHANGED <<source, moved>>
  BY DEF Begin, Step, FindGroup, Walk, Save, Insert, Remove, Bump, ReadLeaf, Follow, Answer,
         Fail, tables
<1> QED BY <1>1, <1>2, <1>3

LEMMA TypeStep ==
    ASSUME TypeOK, NEW p \in Proc, Named(p), \A q \in Proc : ReaderKeeps(q),
           Begin(p) \/ Step(p)
    PROVE  TypeOK'
<1>1. /\ req[p] \in Requests /\ req[p] \in Request
      /\ req[p].patch \in Group \cup {None} /\ req[p].id \in Group \cup {None}
  BY ConstantsOK DEF TypeOK, Request
<1>2. /\ cur[p] \in Group \cup {None} /\ row[p] \in Group \cup {None}
      /\ depth[p] \in 0 .. MaxDepth /\ chain[p] \in Seq(Group) /\ seen[p] \in SUBSET Group
      /\ live \subseteq Group
      /\ \A g \in Group : source[g] \in Group \cup {None}
      /\ MaxDepth \in Nat \ {0}
  BY ConstantsOK DEF TypeOK
<1>3. ASSUME NEW l \in Labels, Goto(p, l) PROVE pc' \in [Proc -> Labels]
  BY <1>3 DEF TypeOK, Goto
<1>f. CASE Fail(p)
  <2>1. pc' \in [Proc -> Labels] BY <1>3, <1>f DEF Fail, Labels
  <2> QED BY <1>f, <2>1 DEF Fail, TypeOK, tables, walks
<1>4. CASE Begin(p)
  <2>1. PICK r \in Requests : req' = [req EXCEPT ![p] = r] /\ r \in Request
    BY <1>4, ConstantsOK DEF Begin
  <2>2. pc' \in [Proc -> Labels] BY <1>4, ConstantsOK DEF Begin, TypeOK, Goto, Request, Ops, Labels
  <2> QED BY <1>4, <2>1, <2>2 DEF Begin, TypeOK, tables, walks
<1>5. CASE FindGroup(p)
  <2>1. CASE ~Fail(p)
    <3>1. req[p].id \in Group BY <1>5 DEF FindGroup, Named
    <3>2. row' \in [Proc -> Group \cup {None}]
      BY <1>1, <1>2, <1>5, <2>1, <3>1 DEF FindGroup, TypeOK
    <3>3. pc' \in [Proc -> Labels] BY <1>3, <1>5, <2>1 DEF FindGroup, Labels
    <3>4. /\ seen' \in [Proc -> SUBSET Group] /\ cur' \in [Proc -> Group \cup {None}]
          /\ depth' \in [Proc -> 0 .. MaxDepth]
      <4>1. CASE req[p].patch = None BY <1>5, <2>1, <4>1 DEF FindGroup, TypeOK
      <4>2. CASE req[p].patch # None
        <5>1. StartWalk(p, {req[p].id}, req[p].patch) BY <1>5, <2>1, <4>2 DEF FindGroup
        <5> QED BY <1>1, <3>1, <4>2, <5>1, StartWalkTypes
      <4> QED BY <4>1, <4>2
    <3> QED BY <1>5, <2>1, <3>2, <3>3, <3>4 DEF FindGroup, TypeOK, tables
  <2> QED BY <1>f, <2>1
<1>6. CASE Walk(p)
  <2>1. CASE depth[p] = MaxDepth
    <3>0. ~(depth[p] < MaxDepth) BY <1>2, <2>1
    <3>1. pc' \in [Proc -> Labels] BY <1>3, <1>6, <2>1, <3>0 DEF Walk, Labels
    <3> QED BY <1>6, <2>1, <3>0, <3>1 DEF Walk, TypeOK, tables, walks
  <2>2. CASE depth[p] # MaxDepth /\ ~Fail(p)
    <3>1. depth[p] < MaxDepth BY <1>2, <2>2
    <3>2. /\ cur[p] \in live /\ seen' = [seen EXCEPT ![p] = @ \cup {cur[p]}]
          /\ UNCHANGED <<tables, req, row, chain>>
          /\ \/ Goto(p, "save") /\ UNCHANGED <<cur, depth>>
             \/ /\ cur' = [cur EXCEPT ![p] = source[cur[p]]]
                /\ depth' = [depth EXCEPT ![p] = @ + 1]
                /\ UNCHANGED pc
      BY <1>6, <2>2, <3>1 DEF Walk
    <3>3. pc' \in [Proc -> Labels] BY <1>3, <3>2 DEF Labels, TypeOK
    <3>4. depth' \in [Proc -> 0 .. MaxDepth]
      <4>1. depth[p] + 1 \in 0 .. MaxDepth BY <1>2, <3>1
      <4> QED BY <3>2, <4>1 DEF TypeOK
    <3>5. cur' \in [Proc -> Group \cup {None}] BY <1>2, <3>2 DEF TypeOK
    <3>6. seen' \in [Proc -> SUBSET Group] BY <1>2, <3>2 DEF TypeOK
    <3> QED BY <3>2, <3>3, <3>4, <3>5, <3>6 DEF TypeOK, tables
  <2> QED BY <1>f, <2>1, <2>2
<1>7. CASE Save(p)
  <2>1. CASE ~Fail(p)
    <3>1. req[p].id \in Group BY <1>7 DEF Save, Named
    <3>2. pc' \in [Proc -> Labels] BY <1>3, <1>7, <2>1 DEF Save, Labels
    <3>3. moved' \in [Proc -> SUBSET Group] BY <1>7, <2>1, NotedTypes DEF Save
    <3> QED BY <1>2, <1>7, <2>1, <3>1, <3>2, <3>3 DEF Save, TypeOK, walks
  <2> QED BY <1>f, <2>1
<1>8. CASE Insert(p)
  <2>1. PICK g \in IF req[p].id = None THEN Group \ used ELSE {req[p].id} :
          /\ used' = IF req[p].id = None THEN used \cup {g} ELSE used
          /\ \/ /\ live' = live \cup {g}
                /\ source' = [source EXCEPT ![g] = req[p].patch]
                /\ Noted
             \/ UNCHANGED <<live, source, moved>>
    BY <1>8 DEF Insert
  <2>2. g \in Group BY <1>1
  <2>3. pc' \in [Proc -> Labels] BY <1>3, <1>8 DEF Insert, Labels
  <2>4. moved' \in [Proc -> SUBSET Group] BY <2>1, NotedTypes DEF TypeOK
  <2> QED BY <1>1, <1>8, <2>1, <2>2, <2>3, <2>4 DEF Insert, TypeOK, walks
<1>9. CASE Remove(p)
  <2>1. pc' \in [Proc -> Labels] BY <1>3, <1>9 DEF Remove, Labels
  <2>2. moved' \in [Proc -> SUBSET Group] BY <1>9, NotedTypes DEF Remove
  <2> QED BY <1>2, <1>9, <2>1, <2>2 DEF Remove, TypeOK, walks
<1>10. CASE Bump(p)
  <2>1. pc' \in [Proc -> Labels] BY <1>3, <1>10 DEF Bump, Labels
  <2> QED BY <1>10, <2>1 DEF Bump, TypeOK, walks
<1>11. CASE ReadLeaf(p)
  <2>1. CASE ~Fail(p)
    <3>1. pc' \in [Proc -> Labels] BY <1>3, <1>11, <2>1 DEF ReadLeaf, Labels
    <3>2. /\ req[p].id \in Group /\ StartWalk(p, {}, req[p].id)
          /\ row' = [row EXCEPT ![p] = source[req[p].id]]
          /\ chain' = [chain EXCEPT ![p] = << >>] /\ UNCHANGED <<tables, req>>
      BY <1>2, <1>11, <2>1 DEF ReadLeaf
    <3>3. row' \in [Proc -> Group \cup {None}] /\ chain' \in [Proc -> Seq(Group)]
      BY <1>2, <3>2 DEF TypeOK
    <3>4. /\ seen' \in [Proc -> SUBSET Group] /\ cur' \in [Proc -> Group \cup {None}]
          /\ depth' \in [Proc -> 0 .. MaxDepth]
      BY <3>2, StartWalkTypes
    <3> QED BY <3>1, <3>2, <3>3, <3>4 DEF TypeOK, tables
  <2> QED BY <1>f, <2>1
<1>12. CASE Follow(p)
  <2>1. CASE ~Fail(p)
    <3>0. cur[p] \in Group /\ depth[p] < MaxDepth BY <1>12 DEF Follow, ReaderKeeps
    <3>1. /\ chain' = [chain EXCEPT ![p] = <<cur[p]>> \o @]
          /\ seen' = [seen EXCEPT ![p] = @ \cup {cur[p]}]
          /\ UNCHANGED <<tables, req>>
          /\ \/ Goto(p, "answer") /\ UNCHANGED <<cur, row, depth>>
             \/ /\ row[p] \in live /\ depth[p] + 1 # MaxDepth
                /\ cur' = [cur EXCEPT ![p] = row[p]]
                /\ row' = [row EXCEPT ![p] = source[row[p]]]
                /\ depth' = [depth EXCEPT ![p] = @ + 1]
                /\ UNCHANGED pc
      BY <1>12, <2>1 DEF Follow
    <3>2. pc' \in [Proc -> Labels] BY <1>3, <3>1 DEF Labels, TypeOK
    <3>3. chain' \in [Proc -> Seq(Group)] BY <1>2, <3>0, <3>1 DEF TypeOK
    <3>4. depth' \in [Proc -> 0 .. MaxDepth] BY <1>2, <3>0, <3>1 DEF TypeOK
    <3>5. seen' \in [Proc -> SUBSET Group] BY <1>2, <3>0, <3>1 DEF TypeOK
    <3>6. /\ cur' \in [Proc -> Group \cup {None}]
          /\ row' \in [Proc -> Group \cup {None}]
      BY <1>2, <3>1 DEF TypeOK
    <3> QED BY <3>1, <3>2, <3>3, <3>4, <3>5, <3>6 DEF TypeOK, tables
  <2> QED BY <1>f, <2>1
<1>13. CASE Answer(p) BY <1>f, <1>13 DEF Answer
<1> QED BY <1>4, <1>5, <1>6, <1>7, <1>8, <1>9, <1>10, <1>11, <1>12, <1>13 DEF Step

\* Only three statements write sources; the foreign key guards each.
LEMMA SourcesStep ==
    ASSUME TypeOK, SourcesExist, NEW p \in Proc, Begin(p) \/ Step(p)
    PROVE  SourcesExist'
<1>1. CASE Save(p) BY <1>1 DEF Save, Fail, tables, SourcesExist, TypeOK
<1>2. CASE Insert(p) BY <1>2 DEF Insert, SourcesExist, TypeOK
<1>3. CASE Remove(p) BY <1>3 DEF Remove, SourcesExist, TypeOK
<1>4. CASE UNCHANGED <<live, source>> BY <1>4 DEF SourcesExist
<1>5. Begin(p) \/ FindGroup(p) \/ Walk(p) \/ Bump(p) \/ ReadLeaf(p) \/ Follow(p) \/ Answer(p)
        => UNCHANGED <<live, source>>
  BY DEF Begin, FindGroup, Walk, Bump, ReadLeaf, Follow, Answer, Fail, tables
<1> QED BY <1>1, <1>2, <1>3, <1>4, <1>5 DEF Step

\* A round puts a group that is not in the chain in front of it.
LEMMA FollowKeeps ==
    ASSUME TypeOK, NEW p \in Proc, ReaderKeeps(p), Follow(p)
    PROVE  ReaderKeeps(p)'
<1>1. CASE Fail(p) BY <1>1 DEF Fail, Goto, ReaderKeeps, TypeOK
<1>2. CASE ~Fail(p)
  <2> DEFINE c == chain[p]
             d == <<cur[p]>> \o c
  <2>1. /\ c \in Seq(Group) /\ Len(c) = depth[p] /\ depth[p] < MaxDepth
        /\ cur[p] \in Group /\ seen[p] = {c[i] : i \in 1 .. Len(c)}
        /\ \A i, j \in 1 .. Len(c) : c[i] = c[j] => i = j
        /\ IF c = << >> THEN cur[p] = req[p].id ELSE c[Len(c)] = req[p].id
    BY <1>2 DEF Follow, ReaderKeeps, TypeOK
  <2>2. /\ pc[p] = "chain" /\ cur[p] \notin seen[p]
        /\ chain' = [chain EXCEPT ![p] = d]
        /\ seen' = [seen EXCEPT ![p] = @ \cup {cur[p]}]
        /\ UNCHANGED <<tables, req>>
        /\ \/ Goto(p, "answer") /\ UNCHANGED <<cur, row, depth>>
           \/ /\ row[p] \in live /\ depth[p] + 1 # MaxDepth
              /\ cur' = [cur EXCEPT ![p] = row[p]]
              /\ depth' = [depth EXCEPT ![p] = @ + 1]
              /\ UNCHANGED pc
    BY <1>2 DEF Follow
  <2>3. /\ d \in Seq(Group) /\ Len(d) = Len(c) + 1
        /\ {d[i] : i \in 1 .. Len(d)} = {c[i] : i \in 1 .. Len(c)} \cup {cur[p]}
        /\ \A i, j \in 1 .. Len(d) : d[i] = d[j] => i = j
        /\ d[Len(d)] = IF c = << >> THEN cur[p] ELSE c[Len(c)]
    BY <2>1, <2>2, InFront
  <2>4. chain'[p] = d /\ seen'[p] = {d[i] : i \in 1 .. Len(d)} /\ req'[p] = req[p]
    BY <2>1, <2>2, <2>3 DEF TypeOK
  <2>5. d # << >> /\ d[Len(d)] = req'[p].id
    BY <2>1, <2>3, <2>4
  <2> HIDE DEF c, d
  <2>6. CASE Goto(p, "answer") /\ UNCHANGED <<cur, row, depth>>
    <3>1. pc'[p] = "answer" /\ depth'[p] = depth[p] /\ cur'[p] = cur[p]
      BY <2>6 DEF Goto, TypeOK
    <3> QED BY <2>1, <2>3, <2>4, <2>5, <3>1 DEF ReaderKeeps
  <2>7. CASE ~(Goto(p, "answer") /\ UNCHANGED <<cur, row, depth>>)
    <3>1. /\ pc'[p] = "chain" /\ depth'[p] = depth[p] + 1 /\ cur'[p] \in Group
          /\ depth[p] + 1 # MaxDepth /\ depth[p] \in Nat /\ MaxDepth \in Nat
      BY <2>2, <2>7, ConstantsOK DEF TypeOK
    <3>2. Len(d) = depth'[p] /\ depth'[p] < MaxDepth BY <2>1, <2>3, <3>1
    <3> QED BY <2>3, <2>4, <2>5, <3>1, <3>2 DEF ReaderKeeps
  <2> QED BY <2>6, <2>7
<1> QED BY <1>1, <1>2

\* Only ReadLeaf and Follow leave a request among the readers.
LEMMA NotReading ==
    ASSUME TypeOK, NEW p \in Proc, Begin(p) \/ Step(p), ~Follow(p), ~ReadLeaf(p)
    PROVE  pc'[p] \notin {"chain", "answer"}
<1> USE DEF Goto, Fail, TypeOK, tables
<1>1. Begin(p) => pc'[p] \notin {"chain", "answer"}
  BY ConstantsOK DEF Begin, Request, Ops
<1>2. FindGroup(p) => pc'[p] \notin {"chain", "answer"} BY DEF FindGroup
<1>3. Walk(p) => pc'[p] \notin {"chain", "answer"} BY DEF Walk
<1>4. Save(p) => pc'[p] \notin {"chain", "answer"} BY DEF Save
<1>5. Insert(p) => pc'[p] \notin {"chain", "answer"} BY DEF Insert
<1>6. Remove(p) => pc'[p] \notin {"chain", "answer"} BY DEF Remove
<1>7. Bump(p) \/ Answer(p) => pc'[p] \notin {"chain", "answer"} BY DEF Bump, Answer
<1> QED BY <1>1, <1>2, <1>3, <1>4, <1>5, <1>6, <1>7 DEF Step

\* Only FindGroup and Walk leave a request at a check, or at a save after one.
LEMMA NotChecking ==
    ASSUME TypeOK, NEW p \in Proc, Begin(p) \/ Step(p), ~FindGroup(p), ~Walk(p)
    PROVE  pc'[p] \notin {"walk", "save"}
<1> USE DEF Goto, Fail, TypeOK, tables
<1>1. Begin(p) => pc'[p] \notin {"walk", "save"}
  BY ConstantsOK DEF Begin, Request, Ops
<1>2. Save(p) => pc'[p] \notin {"walk", "save"} BY DEF Save
<1>3. Insert(p) => pc'[p] \notin {"walk", "save"} BY DEF Insert
<1>4. Remove(p) => pc'[p] \notin {"walk", "save"} BY DEF Remove
<1>5. Bump(p) \/ Answer(p) => pc'[p] \notin {"walk", "save"} BY DEF Bump, Answer
<1>6. ReadLeaf(p) => pc'[p] \notin {"walk", "save"} BY DEF ReadLeaf
<1>7. Follow(p) => pc'[p] \notin {"walk", "save"} BY DEF Follow
<1> QED BY <1>1, <1>2, <1>3, <1>4, <1>5, <1>6, <1>7 DEF Step

\* The group read goes in front of the group it is the source of.
LEMMA FollowLine ==
    ASSUME TypeOK, NEW p \in Proc, ReaderKeeps(p), LineKeeps(p), Follow(p)
    PROVE  LineKeeps(p)'
<1>1. CASE Fail(p) BY <1>1 DEF Fail, Goto, LineKeeps, TypeOK
<1>2. CASE ~Fail(p)
  <2> DEFINE c == chain[p]
             d == <<cur[p]>> \o c
  <2>1. /\ pc[p] = "chain" /\ chain' = [chain EXCEPT ![p] = d]
        /\ UNCHANGED <<tables, req>>
        /\ IF row[p] = None \/ depth[p] + 1 = MaxDepth
           THEN Goto(p, "answer") /\ UNCHANGED <<cur, row, depth>>
           ELSE /\ cur' = [cur EXCEPT ![p] = row[p]]
                /\ row' = [row EXCEPT ![p] = source[row[p]]]
                /\ UNCHANGED pc
    BY <1>2 DEF Follow
  <2>2. /\ c \in Seq(Group) /\ Len(c) = depth[p] /\ Len(c) \in Nat /\ cur[p] \in Group
        /\ \A i \in 2 .. Len(c) : source[c[i]] = c[i - 1] \/ c[i] \in moved[p]
        /\ row[p] = source[cur[p]] \/ cur[p] \in moved[p]
        /\ c # << >> => source[c[1]] = cur[p] \/ c[1] \in moved[p]
    BY <2>1 DEF ReaderKeeps, LineKeeps, TypeOK
  <2>3. /\ d \in Seq(Group) /\ Len(d) = Len(c) + 1
        /\ d[1] = cur[p] /\ \A i \in 1 .. Len(c) : d[i + 1] = c[i]
    BY <2>2, Prepend
  <2>4. chain'[p] = d /\ source' = source /\ moved' = moved
    BY <2>1 DEF TypeOK, tables
  <2>5. c = << >> \/ Len(c) >= 1 BY <2>2
  <2>e. c = << >> => Len(c) = 0 OBVIOUS
  <2> HIDE DEF c, d
  <2>6. \A i \in 2 .. Len(d) : source[d[i]] = d[i - 1] \/ d[i] \in moved[p]
    <3> TAKE i \in 2 .. Len(d)
    <3>1. i - 1 \in 1 .. Len(c) /\ (i - 1) + 1 = i BY <2>2, <2>3
    <3>2. d[i] = c[i - 1] BY <2>3, <3>1
    <3>3. CASE i = 2
      <4>1. c # << >> BY <2>e, <3>1
      <4> QED BY <2>2, <2>3, <3>2, <3>3, <4>1
    <3>4. CASE i # 2
      <4>1. i - 1 \in 2 .. Len(c) /\ i - 2 \in 1 .. Len(c) /\ (i - 2) + 1 = i - 1
            /\ (i - 1) - 1 = i - 2
        BY <2>2, <2>3, <3>1, <3>4
      <4>2. d[i - 1] = c[i - 2] BY <2>3, <4>1
      <4>3. source[c[i - 1]] = c[(i - 1) - 1] \/ c[i - 1] \in moved[p] BY <2>2, <4>1
      <4> QED BY <3>2, <4>1, <4>2, <4>3
    <3> QED BY <3>3, <3>4
  <2>7. CASE row[p] = None \/ depth[p] + 1 = MaxDepth
    <3>1. pc'[p] = "answer" BY <2>1, <2>7 DEF Goto, TypeOK
    <3>2. source[d[1]] = None \/ d[1] \in moved[p] \/ Len(d) = MaxDepth
      BY <2>2, <2>3, <2>7
    <3> QED BY <2>4, <2>6, <3>1, <3>2 DEF LineKeeps
  <2>8. CASE ~(row[p] = None \/ depth[p] + 1 = MaxDepth)
    <3>1. pc'[p] = "chain" /\ cur'[p] = row[p] /\ row'[p] = source[row[p]]
      BY <2>1, <2>8 DEF TypeOK
    <3>2. source[d[1]] = row[p] \/ d[1] \in moved[p] BY <2>2, <2>3
    <3> QED BY <2>4, <2>6, <3>1, <3>2 DEF LineKeeps
  <2> QED BY <2>7, <2>8
<1> QED BY <1>1, <1>2

\* The next group joins those passed; its source is the next one.
LEMMA WalkOn ==
    ASSUME TypeOK, NEW p \in Proc, WalkKeeps(p), Walk(p)
    PROVE  WalkKeeps(p)'
<1> DEFINE id     == req[p].id
           passed == seen[p] \ {id}
<1>0. pc[p] = "walk" /\ depth[p] \in 0 .. MaxDepth /\ MaxDepth \in Nat
  BY ConstantsOK DEF Walk, TypeOK
<1>1. CASE depth[p] = MaxDepth
  <2>1. ~(depth[p] < MaxDepth) BY <1>0, <1>1
  <2>2. pc'[p] = "save" /\ depth'[p] = MaxDepth BY <1>1, <2>1 DEF Walk, Goto, TypeOK, walks
  <2> QED BY <2>2 DEF WalkKeeps
<1>2. CASE Fail(p) BY <1>2 DEF Fail, Goto, TypeOK, WalkKeeps
<1>3. CASE depth[p] # MaxDepth /\ ~Fail(p)
  <2>1. /\ id \in seen[p] /\ row[p] \in Group /\ row[p] \in passed \cup {cur[p]}
        /\ \A g \in passed : source[g] \in passed \cup {cur[p], None} \/ g \in moved[p]
    BY <1>0 DEF WalkKeeps
  <2>2. depth[p] < MaxDepth BY <1>0, <1>3
  <2>3. /\ cur[p] \in live /\ cur[p] \notin seen[p]
        /\ seen' = [seen EXCEPT ![p] = @ \cup {cur[p]}]
        /\ UNCHANGED <<live, source, moved, req, row>>
        /\ IF source[cur[p]] = None
           THEN Goto(p, "save")
           ELSE cur' = [cur EXCEPT ![p] = source[cur[p]]] /\ UNCHANGED pc
    BY <1>3, <2>2 DEF Walk, tables
  <2>4. /\ seen'[p] = seen[p] \cup {cur[p]} /\ req'[p] = req[p] /\ row'[p] = row[p]
        /\ seen'[p] \ {id} = passed \cup {cur[p]}
    BY <2>1, <2>3 DEF TypeOK
  <2>5. CASE source[cur[p]] = None
    <3>1. pc'[p] = "save" BY <2>3, <2>5 DEF Goto, TypeOK
    <3> QED BY <2>1, <2>3, <2>4, <2>5, <3>1 DEF WalkKeeps
  <2>6. CASE source[cur[p]] # None
    <3>1. pc'[p] = "walk" /\ cur'[p] = source[cur[p]] BY <1>0, <2>3, <2>6 DEF TypeOK
    <3> QED BY <2>1, <2>3, <2>4, <3>1 DEF WalkKeeps
  <2> QED BY <2>5, <2>6
<1> QED BY <1>1, <1>2, <1>3

\* What other requests write is noted.
LEMMA OthersKeep ==
    ASSUME TypeOK, NEW p \in Proc, Begin(p) \/ Step(p), NEW q \in Proc \ {p},
           ReaderKeeps(q), LineKeeps(q), WalkKeeps(q)
    PROVE  LineKeeps(q)' /\ WalkKeeps(q)'
<1>1. /\ pc'[q] = pc[q] /\ req'[q] = req[q] /\ row'[q] = row[q]
      /\ seen'[q] = seen[q] /\ cur'[q] = cur[q] /\ depth'[q] = depth[q]
      /\ chain'[q] = chain[q]
  BY OthersStay
<1>2. /\ moved[q] \subseteq moved'[q]
      /\ \A g \in Passed(q) : source'[g] = source[g] \/ g \in moved'[q]
  BY Notes
<1>3. LineKeeps(q)'
  <2> DEFINE c == chain[q]
  <2>0. c \in Seq(Group) /\ Len(c) \in Nat BY DEF TypeOK
  <2>1. CASE pc[q] \in {"chain", "answer"}
    <3>1. /\ seen[q] = {c[i] : i \in 1 .. Len(c)} /\ cur[q] \in Group
          /\ pc[q] = "answer" => c # << >>
      BY <2>0, <2>1 DEF ReaderKeeps, TypeOK
    <3>2. seen[q] \subseteq Passed(q) /\ (pc[q] = "chain" => cur[q] \in Passed(q))
      BY <2>1 DEF Passed
    <3>3. \A i \in 1 .. Len(c) : source'[c[i]] = source[c[i]] \/ c[i] \in moved'[q]
      BY <1>2, <3>1, <3>2
    <3>4. c # << >> => 1 \in 1 .. Len(c) BY <2>0
    <3>5. \A i \in 2 .. Len(c) : i \in 1 .. Len(c) BY <2>0
    <3> HIDE DEF c
    <3>6. \A i \in 2 .. Len(c) : source'[c[i]] = c[i - 1] \/ c[i] \in moved'[q]
      BY <1>2, <2>1, <3>3, <3>5 DEF LineKeeps, c
    <3>7. pc[q] = "chain" =>
            /\ row[q] = source'[cur[q]] \/ cur[q] \in moved'[q]
            /\ c # << >> => source'[c[1]] = cur[q] \/ c[1] \in moved'[q]
      BY <1>2, <3>2, <3>3, <3>4 DEF LineKeeps, c
    <3>8. pc[q] = "answer" =>
            source'[c[1]] = None \/ c[1] \in moved'[q] \/ Len(c) = MaxDepth
      BY <1>2, <3>1, <3>3, <3>4 DEF LineKeeps, c
    <3> QED BY <1>1, <3>6, <3>7, <3>8 DEF LineKeeps, c
  <2>2. CASE pc[q] \notin {"chain", "answer"} BY <1>1, <2>2 DEF LineKeeps
  <2> QED BY <2>1, <2>2
<1>4. WalkKeeps(q)'
  <2>1. CASE pc[q] \in {"walk", "save"}
    <3>1. Passed(q) = seen[q] \ {req[q].id} BY <2>1 DEF Passed
    <3> QED BY <1>1, <1>2, <3>1 DEF WalkKeeps
  <2>2. CASE pc[q] \notin {"walk", "save"} BY <1>1, <2>2 DEF WalkKeeps
  <2> QED BY <2>1, <2>2
<1> QED BY <1>3, <1>4

\* A reader and a check begin with nothing passed.
LEMMA OwnKeep ==
    ASSUME TypeOK, NEW p \in Proc, Begin(p) \/ Step(p),
           Named(p), ReaderKeeps(p), LineKeeps(p), WalkKeeps(p)
    PROVE  LineKeeps(p)' /\ WalkKeeps(p)'
<1>1. LineKeeps(p)'
  <2>1. CASE Follow(p) BY <2>1, FollowLine
  <2>2. CASE ReadLeaf(p) /\ Fail(p) BY <2>2 DEF Fail, Goto, LineKeeps, TypeOK
  <2>3. CASE ReadLeaf(p) /\ ~Fail(p)
    <3>1. /\ pc'[p] = "chain" /\ cur'[p] = req[p].id
          /\ chain'[p] = << >> /\ row'[p] = source[req[p].id] /\ source' = source
      BY <2>3 DEF ReadLeaf, StartWalk, Goto, TypeOK, tables
    <3> QED BY <3>1 DEF LineKeeps
  <2>4. CASE ~Follow(p) /\ ~ReadLeaf(p)
    <3>1. pc'[p] \notin {"chain", "answer"} BY <2>4, NotReading
    <3> QED BY <3>1 DEF LineKeeps
  <2> QED BY <2>1, <2>2, <2>3, <2>4
<1>2. WalkKeeps(p)'
  <2>1. CASE Walk(p) BY <2>1, WalkOn
  <2>2. CASE FindGroup(p) /\ Fail(p) BY <2>2 DEF Fail, Goto, WalkKeeps, TypeOK
  <2>3. CASE FindGroup(p) /\ ~Fail(p)
    <3>1. /\ pc[p] = "find" /\ UNCHANGED req
          /\ row' = [row EXCEPT ![p] = IF req[p].patch = None THEN source[req[p].id]
                                       ELSE req[p].patch]
          /\ IF req[p].patch = None THEN Goto(p, "save")
             ELSE Goto(p, "walk") /\ StartWalk(p, {req[p].id}, req[p].patch)
      BY <2>3 DEF FindGroup
    <3>2. CASE req[p].patch = None
      <4>1. pc'[p] = "save" BY <3>1, <3>2 DEF Goto, TypeOK
      <4> QED BY <3>1, <3>2, <4>1 DEF WalkKeeps
    <3>3. CASE req[p].patch # None
      <4>1. /\ pc'[p] = "walk" /\ seen'[p] = {req[p].id} /\ cur'[p] = req[p].patch
            /\ row'[p] = req[p].patch
        BY <3>1, <3>3 DEF Goto, StartWalk, TypeOK
      <4>2. req[p] \in Request BY ConstantsOK DEF TypeOK
      <4>3. req[p].patch \in Group BY <3>3, <4>2 DEF Request
      <4> QED BY <3>1, <4>1, <4>3 DEF WalkKeeps
    <3> QED BY <3>2, <3>3
  <2>4. CASE ~Walk(p) /\ ~FindGroup(p)
    <3>1. pc'[p] \notin {"walk", "save"} BY <2>4, NotChecking
    <3> QED BY <3>1 DEF WalkKeeps
  <2> QED BY <2>1, <2>2, <2>3, <2>4
<1> QED BY <1>1, <1>2

LEMMA StepKeeps ==
    ASSUME IInv, NEW p \in Proc, Begin(p) \/ Step(p)
    PROVE  IInv'
<1>1. /\ TypeOK /\ SourcesExist
      /\ \A q \in Proc : Named(q) /\ ReaderKeeps(q) /\ LineKeeps(q) /\ WalkKeeps(q)
  BY DEF IInv
<1>2. TypeOK' /\ SourcesExist' BY <1>1, TypeStep, SourcesStep
<1>3. ASSUME NEW q \in Proc \ {p} PROVE Named(q)' /\ ReaderKeeps(q)'
  BY <1>1, OthersStay DEF Named, ReaderKeeps
<1>4. Named(p)'
  <2> USE DEF Named, Goto, Fail, TypeOK, tables
  <2>1. CASE Begin(p)
    <3>1. PICK r \in Requests : req'[p] = r /\ (r.op # "create" => r.id \in Group)
                                /\ (r.op = "create" => pc'[p] = "insert")
      BY <1>1, <2>1, ConstantsOK DEF Begin
    <3> QED BY <3>1
  <2>2. CASE FindGroup(p) BY <1>1, <2>2 DEF FindGroup
  <2>3. CASE Walk(p) BY <1>1, <2>3 DEF Walk
  <2>4. CASE Save(p) BY <1>1, <2>4 DEF Save
  <2>5. CASE Insert(p) BY <1>1, <2>5 DEF Insert
  <2>6. CASE Remove(p) BY <1>1, <2>6 DEF Remove
  <2>7. CASE Bump(p) BY <1>1, <2>7 DEF Bump
  <2>8. CASE ReadLeaf(p) BY <1>1, <2>8 DEF ReadLeaf
  <2>9. CASE Follow(p) BY <1>1, <2>9 DEF Follow
  <2>10. CASE Answer(p) BY <1>1, <2>10 DEF Answer
  <2> QED BY <2>1, <2>2, <2>3, <2>4, <2>5, <2>6, <2>7, <2>8, <2>9, <2>10 DEF Step
<1>5. ReaderKeeps(p)'
  <2>1. CASE Follow(p) BY <1>1, <2>1, FollowKeeps
  <2>2. CASE ReadLeaf(p)
    <3>1. CASE ~Fail(p)
      <4>1. /\ pc'[p] = "chain" /\ seen'[p] = {} /\ cur'[p] = req'[p].id /\ depth'[p] = 0
            /\ chain'[p] = << >> /\ cur'[p] \in Group
        BY <1>1, <2>2, <3>1 DEF ReadLeaf, StartWalk, Goto, TypeOK, tables
      <4>2. MaxDepth \in Nat \ {0} BY ConstantsOK
      <4> QED BY <4>1, <4>2 DEF ReaderKeeps
    <3>2. CASE Fail(p) BY <1>1, <3>2 DEF Fail, Goto, ReaderKeeps, TypeOK
    <3> QED BY <3>1, <3>2
  <2>3. CASE ~Follow(p) /\ ~ReadLeaf(p)
    <3>1. pc'[p] \notin {"chain", "answer"} BY <1>1, <2>3, NotReading
    <3> QED BY <3>1 DEF ReaderKeeps
  <2> QED BY <2>1, <2>2, <2>3
<1>6. \A q \in Proc : LineKeeps(q)' /\ WalkKeeps(q)'
  BY <1>1, OthersKeep, OwnKeep
<1> QED BY <1>2, <1>3, <1>4, <1>5, <1>6 DEF IInv

LEMMA CrashKeeps == IInv /\ Crash => IInv'
<1> SUFFICES ASSUME IInv, Crash PROVE IInv' OBVIOUS
<1>1. /\ pc' = [q \in Proc |-> IF pc[q] = "idle" THEN "idle" ELSE "done"]
      /\ UNCHANGED <<tables, req, walks>>
  BY DEF Crash
<1>2. TypeOK' /\ SourcesExist' BY <1>1 DEF IInv, TypeOK, SourcesExist, tables, walks, Labels
<1>3. ASSUME NEW q \in Proc
      PROVE  Named(q)' /\ ReaderKeeps(q)' /\ LineKeeps(q)' /\ WalkKeeps(q)'
  BY <1>1 DEF Named, ReaderKeeps, LineKeeps, WalkKeeps
<1> QED BY <1>2, <1>3 DEF IInv

LEMMA StutterKeeps == IInv /\ UNCHANGED vars => IInv'
BY DEF IInv, vars, TypeOK, SourcesExist, Named, ReaderKeeps, LineKeeps, WalkKeeps

\* IInv holds in every reachable state, whatever the requests and their order.
THEOREM Invariant == Spec => []IInv
<1>1. IInv /\ [Next]_vars => IInv'
  BY StepKeeps, CrashKeeps, StutterKeeps DEF Next, AllAnswered
<1> QED BY <1>1, InitHolds, PTL DEF Spec

\* TypeOK: every variable keeps its type.
THEOREM TypeCorrect == Spec => []TypeOK
<1>1. IInv => TypeOK BY DEF IInv
<1> QED BY <1>1, Invariant, PTL

\* SourcesExist: the source of a group is a group, or there is none.
THEOREM SourcesAlwaysExist == Spec => []SourcesExist
<1>1. IInv => SourcesExist BY DEF IInv
<1> QED BY <1>1, Invariant, PTL

\* ChainSound: a chain scheduleInheritanceChainIDs returns names each group once
\* and ends in the group asked for.
THEOREM ChainsAreSound == Spec => []ChainSound
<1>1. IInv => ChainSound
  <2> SUFFICES ASSUME IInv, NEW p \in Proc, pc[p] = "answer"
               PROVE  /\ Len(chain[p]) \in 1 .. MaxDepth
                      /\ chain[p][Len(chain[p])] = req[p].id
                      /\ \A i, j \in 1 .. Len(chain[p]) : chain[p][i] = chain[p][j] => i = j
    BY DEF ChainSound
  <2>1. ReaderKeeps(p) /\ chain[p] \in Seq(Group) /\ depth[p] \in 0 .. MaxDepth /\ MaxDepth \in Nat
    BY ConstantsOK DEF IInv, TypeOK
  <2>2. chain[p] # << >> BY <2>1 DEF ReaderKeeps
  <2> QED BY <2>1, <2>2 DEF ReaderKeeps
<1> QED BY <1>1, Invariant, PTL

\* ChainExact: however the sources change while scheduleInheritanceChainIDs reads
\* them, the chain is the line of sources but for the groups changed behind it.
THEOREM ChainsAreExact == Spec => []ChainExact
<1>1. ASSUME IInv, NEW p \in Proc
      PROVE  LET c == chain[p]
             IN  /\ pc[p] = "answer" =>
                      /\ \A i \in 2 .. Len(c) : source[c[i]] = c[i - 1] \/ c[i] \in moved[p]
                      /\ source[c[1]] = None \/ c[1] \in moved[p] \/ Len(c) = MaxDepth
                 /\ pc[p] = "chain" /\ cur[p] \in seen[p] => ~Acyclic \/ moved[p] # {}
  <2> DEFINE c == chain[p]
  <2>1. TypeOK /\ SourcesExist /\ ReaderKeeps(p) /\ LineKeeps(p) /\ c \in Seq(Group)
    BY <1>1 DEF IInv, TypeOK
  <2>2. ASSUME pc[p] = "chain", cur[p] \in seen[p], moved[p] = {} PROVE ~Acyclic
    <3>1. /\ seen[p] = {c[i] : i \in 1 .. Len(c)}
          /\ \A i \in 2 .. Len(c) : source[c[i]] = c[i - 1]
          /\ c # << >> => source[c[1]] = cur[p]
      BY <2>1, <2>2 DEF ReaderKeeps, LineKeeps
    <3>2. ASSUME NEW g \in seen[p] PROVE source[g] \in seen[p]
      <4>1. PICK i \in 1 .. Len(c) : g = c[i] BY <3>1
      <4>2. CASE i = 1
        <5>1. c # << >> BY <2>1, <4>1
        <5> QED BY <2>2, <3>1, <4>1, <4>2, <5>1
      <4>3. CASE i # 1
        <5>1. i \in 2 .. Len(c) /\ i - 1 \in 1 .. Len(c) BY <2>1, <4>1, <4>3
        <5> QED BY <3>1, <4>1, <5>1
      <4> QED BY <4>2, <4>3
    <3>3. seen[p] \in SUBSET live
      <4> SUFFICES ASSUME NEW g \in seen[p] PROVE g \in live OBVIOUS
      <4>1. g \in Group /\ source[g] \in Group /\ source[g] # None
        BY <2>1, <3>2, ConstantsOK DEF TypeOK
      <4> QED BY <2>1, <4>1 DEF SourcesExist
    <3> QED BY <2>2, <3>2, <3>3 DEF Acyclic
  <2>3. pc[p] = "answer" =>
           /\ \A i \in 2 .. Len(c) : source[c[i]] = c[i - 1] \/ c[i] \in moved[p]
           /\ source[c[1]] = None \/ c[1] \in moved[p] \/ Len(c) = MaxDepth
    BY <2>1 DEF LineKeeps
  <2> QED BY <2>2, <2>3
<1>2. IInv => ChainExact BY <1>1 DEF ChainExact
<1> QED BY <1>2, Invariant, PTL

-----------------------------------------------------------------------------
(* What closes a cycle. *)

\* A set of groups closed under the sources to come would be one, cut to the
\* groups the check passed, under the sources there are.
LEMMA SaveAcyclic ==
    ASSUME IInv, Acyclic, NEW p \in Proc, Save(p), ~CheckMissed(p)
    PROVE  Acyclic'
<1> DEFINE id == req[p].id
<1>0. TypeOK /\ SourcesExist /\ WalkKeeps(p) /\ pc[p] = "save" /\ id \in Group
  BY DEF IInv, Save, Named
<1>1. CASE UNCHANGED <<live, source>> BY <1>1 DEF Acyclic
<1>2. CASE ~UNCHANGED <<live, source>>
  <2>1. live' = live \cup {id} /\ source' = [source EXCEPT ![id] = row[p]]
    BY <1>2 DEF Save, Fail, tables
  <2>2. ASSUME NEW S \in SUBSET (live \cup {id}), S # {}, \A g \in S : source'[g] \in S
        PROVE  FALSE
    <3>1. \A g \in S \ {id} : source[g] \in S BY <1>0, <2>1, <2>2 DEF TypeOK
    <3>2. None \notin S BY <1>0, ConstantsOK DEF TypeOK
    <3>3. CASE id \notin S
      <4>1. S \in SUBSET live BY <3>3
      <4> QED BY <2>2, <3>1, <3>3, <4>1 DEF Acyclic
    <3>4. CASE id \in S /\ req[p].patch = None
      <4>1. row[p] = source[id] BY <3>4 DEF CheckMissed
      <4>2. source[id] \in S BY <1>0, <2>1, <2>2, <3>4, <4>1 DEF TypeOK
      <4>3. id \in live BY <1>0, <3>2, <4>2 DEF SourcesExist
      <4>4. S \in SUBSET live BY <4>3
      <4> QED BY <2>2, <3>1, <4>2, <4>4 DEF Acyclic
    <3>5. CASE id \in S /\ req[p].patch # None
      <4> DEFINE T == seen[p] \ {id}
      <4>1. /\ row[p] \in Group /\ row[p] \in T \cup {None}
            /\ \A g \in T : source[g] \in T \cup {None} \/ g \in moved[p]
        BY <1>0, <3>5 DEF WalkKeeps, CheckMissed
      <4>2. \A g \in T : source[g] \in T \cup {None} BY <4>1 DEF CheckMissed
      <4>3. row[p] \in S \cap T
        BY <1>0, <2>1, <2>2, <3>5, <4>1, ConstantsOK DEF TypeOK
      <4>4. \A g \in S \cap T : source[g] \in S \cap T BY <3>1, <3>2, <4>2
      <4>5. S \cap T \in SUBSET live OBVIOUS
      <4> QED BY <4>3, <4>4, <4>5 DEF Acyclic
    <3> QED BY <3>3, <3>4, <3>5
  <2> QED BY <2>1, <2>2 DEF Acyclic
<1> QED BY <1>1, <1>2

\* Nothing refers to a group that is new, unless it does itself.
LEMMA InsertCause ==
    ASSUME TypeOK, Acyclic, SourcesExist, NEW p \in Proc, Insert(p), ~Acyclic'
    PROVE  pc'[p] # pc[p] /\ source'[req[p].patch] = req[p].patch
<1>1. ~UNCHANGED <<live, source>> BY DEF Acyclic
<1>2. PICK g \in IF req[p].id = None THEN Group \ used ELSE {req[p].id} :
        /\ g \notin live /\ live' = live \cup {g}
        /\ source' = [source EXCEPT ![g] = req[p].patch]
        /\ Goto(p, "bump")
  BY <1>1 DEF Insert
<1>3. req[p] \in Request BY ConstantsOK DEF TypeOK
<1>4. g \in Group BY <1>2, <1>3 DEF Request
<1>5. req[p].patch = g
  <2> SUFFICES ASSUME req[p].patch # g PROVE FALSE OBVIOUS
  <2>1. PICK S \in SUBSET (live \cup {g}) : S # {} /\ \A h \in S : source'[h] \in S
    BY <1>2 DEF Acyclic
  <2> DEFINE R == S \ {g}
  <2>2. R \in SUBSET live OBVIOUS
  <2>3. R # {}
    <3>1. g \in S => req[p].patch \in R BY <1>2, <1>4, <2>1 DEF TypeOK
    <3> QED BY <2>1, <3>1
  <2>4. ASSUME NEW h \in R PROVE source[h] \in R
    <3>1. source[h] \in S BY <1>2, <2>1 DEF TypeOK
    <3>2. source[h] \in live \cup {None} BY DEF SourcesExist, TypeOK
    <3> QED BY <1>2, <1>4, <3>1, <3>2, ConstantsOK
  <2> QED BY <2>2, <2>3, <2>4 DEF Acyclic
<1> QED BY <1>2, <1>4, <1>5 DEF Insert, Goto, TypeOK

LEMMA RemoveAcyclic ==
    ASSUME TypeOK, Acyclic, NEW p \in Proc, Remove(p)
    PROVE  Acyclic'
<1> SUFFICES ASSUME NEW S \in SUBSET live', S # {}, \A g \in S : source'[g] \in S
             PROVE  FALSE
  BY DEF Acyclic
<1>1. S \in SUBSET live /\ None \notin S BY ConstantsOK DEF Remove, TypeOK
<1>2. \A g \in S : source[g] \in S BY <1>1 DEF Remove, TypeOK
<1> QED BY <1>1, <1>2 DEF Acyclic

\* CyclesHaveCause: with any number of updates, creations and deletions under
\* way at once, a cycle of sources is closed only by an update whose check was
\* cut off, overtaken or not made, or by a group created as its own source.
THEOREM CyclesAreExplained == Spec => CyclesHaveCause
<1> DEFINE Cause(p) == /\ pc'[p] # pc[p]
                       /\ \/ pc[p] = "save" /\ CheckMissed(p)
                          \/ pc[p] = "insert" /\ source'[req[p].patch] = req[p].patch
<1>1. ASSUME IInv, [Next]_vars, Acyclic, ~Acyclic'
      PROVE  \E p \in Proc : Cause(p)
  <2>1. TypeOK /\ SourcesExist BY <1>1 DEF IInv
  <2>2. ~UNCHANGED <<live, source>> BY <1>1 DEF Acyclic
  <2>3. PICK p \in Proc : Begin(p) \/ Step(p)
    BY <1>1, <2>2 DEF Next, Crash, AllAnswered, vars, tables
  <2>4. Save(p) \/ Insert(p)
    <3>1. ~Remove(p) BY <1>1, <2>1, RemoveAcyclic
    <3> QED BY <2>2, <2>3, <3>1 DEF Begin, Step, FindGroup, Walk, Bump, ReadLeaf, Follow,
                                    Answer, Fail, tables
  <2>5. CASE Save(p)
    <3>1. CheckMissed(p) BY <1>1, <2>5, SaveAcyclic
    <3>2. pc[p] = "save" /\ pc'[p] = "bump" BY <2>1, <2>2, <2>5 DEF Save, Fail, Goto, TypeOK, tables
    <3> QED BY <3>1, <3>2
  <2>6. CASE Insert(p)
    <3>1. pc[p] = "insert" BY <2>6 DEF Insert
    <3> QED BY <1>1, <2>1, <2>6, <3>1, InsertCause
  <2> QED BY <2>4, <2>5, <2>6
<1>2. IInv /\ [Next]_vars => [Acyclic /\ ~Acyclic' => \E p \in Proc : Cause(p)]_vars
  BY <1>1
<1> QED BY <1>2, Invariant, PTL DEF Spec, CyclesHaveCause
=============================================================================
