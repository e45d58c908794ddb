------------------------- MODULE ReferenceData_proofs -------------------------
(***************************************************************************)
(* The tables of the office, for any number of officers and requests, any  *)
(* bodies and any rows to begin with that fit together.                    *)
(*                                                                         *)
(* The tables stay sound because every statement is checked against what   *)
(* is there now: a request remembers only a row of its own.  What has to   *)
(* be shown is that a deletion takes all rows with it that could not stay, *)
(* and that several rows written at once never meet a row twice.           *)
(*                                                                         *)
(* A client that pages gets every row once because the ORDER BY of each    *)
(* list tells any two of its rows apart: then the rows it has are always   *)
(* the first ones.  The tree is compared with the way up from an item.     *)
(* A change that weeks show is announced because a request for a table     *)
(* that they show ends with the announcement, and the other deletions      *)
(* reach no row of such a table.                                           *)
(***************************************************************************)
EXTENDS ReferenceData, FiniteSetTheorems, SequenceTheorems, TLAPS

(* The keys of the tables that the proofs speak of.                        *)
LEMMA UniqueIs ==
  /\ DOMAIN Unique =
       {"campuses", "types", "links", "preferences", "activities", "weeks", "constraints",
        "replacements", "availability", "days", "teachers", "teaches", "groups", "overlays",
        "specialties", "curricula", "allocations", "calendars", "calendarWeeks", "overrides"}
  /\ Unique["weeks"] = {"group", "key"}
  /\ Unique["replacements"] = {"group", "key"}
  /\ Unique["groups"] = {"key"}
  /\ Unique["teachers"] = {"key"}
  /\ Unique["teaches"] = {"teacher", "subject"}
  /\ Unique["availability"] = {"key", "location"}
  /\ Unique["allocations"] = {"item", "key"}
  /\ Unique["links"] = {"location", "type"}
  /\ Unique["preferences"] = {"teacher", "location", "key"}
  /\ Unique["constraints"] = {"teacher", "key"}
  /\ Unique["curricula"] = {"specialty", "key"}
  /\ Unique["calendars"] = {"curriculum", "key"}
  /\ Unique["calendarWeeks"] = {"calendar", "key"}
  /\ Unique["overrides"] = {"calendar", "key"}
<1>1. /\ DOMAIN UniqueRooms = {"campuses", "types", "links", "preferences"}
      /\ UniqueRooms["links"] = {"location", "type"}
      /\ UniqueRooms["preferences"] = {"teacher", "location", "key"}
  BY DEF UniqueRooms
<1>2. /\ DOMAIN UniquePlans = {"activities", "weeks", "constraints", "replacements", "availability", "days"}
      /\ UniquePlans["weeks"] = {"group", "key"} /\ UniquePlans["replacements"] = {"group", "key"}
      /\ UniquePlans["availability"] = {"key", "location"}
      /\ UniquePlans["constraints"] = {"teacher", "key"}
  BY DEF UniquePlans
<1>3. /\ DOMAIN UniquePeople = {"teachers", "teaches", "groups", "overlays"}
      /\ UniquePeople["groups"] = {"key"} /\ UniquePeople["teachers"] = {"key"}
      /\ UniquePeople["teaches"] = {"teacher", "subject"}
  BY DEF UniquePeople
<1>4. /\ DOMAIN UniqueCurricula = {"specialties", "curricula", "allocations", "calendars", "calendarWeeks"}
      /\ UniqueCurricula["allocations"] = {"item", "key"}
      /\ UniqueCurricula["curricula"] = {"specialty", "key"}
      /\ UniqueCurricula["calendars"] = {"curriculum", "key"}
      /\ UniqueCurricula["calendarWeeks"] = {"calendar", "key"}
  BY DEF UniqueCurricula
<1>5. DOMAIN UniqueOverrides = {"overrides"} /\ UniqueOverrides["overrides"] = {"calendar", "key"}
  BY DEF UniqueOverrides
<1> QED BY <1>1, <1>2, <1>3, <1>4, <1>5 DEF Unique

LEMMA IdentifyingIs ==
  /\ \A t \in DOMAIN Unique : Identifying(t) = Unique[t] \ {"key"}
  /\ Identifying("items") = {} /\ Identifying("courses") = {"group"}
BY UniqueIs DEF Identifying

LEMMA RowWithId ==
  ASSUME NEW r, DOMAIN r = {"table", "id", "key", "refs", "gone"}, NEW x
  PROVE  LET b == [r EXCEPT !.id = x]
         IN  /\ DOMAIN b = {"table", "id", "key", "refs", "gone"} /\ b.id = x
             /\ b.table = r.table /\ b.key = r.key /\ b.refs = r.refs /\ b.gone = r.gone
OBVIOUS
LEMMA RowWithRefs ==
  ASSUME NEW r, DOMAIN r = {"table", "id", "key", "refs", "gone"}, NEW x
  PROVE  LET b == [r EXCEPT !.refs = x]
         IN  /\ DOMAIN b = {"table", "id", "key", "refs", "gone"} /\ b.refs = x
             /\ b.table = r.table /\ b.key = r.key /\ b.id = r.id /\ b.gone = r.gone
OBVIOUS
LEMMA NullKeys ==
  ASSUME NEW f \in Foreign
  PROVE  /\ f.rule \in {"cascade", "null", "restrict"}
         /\ f.rule = "null" => f.column # "key" /\ f.column \notin Identifying(f.table)
<1>1. f.rule \in {"cascade", "null", "restrict"} 
  BY DEF Foreign, RoomKeys, PlanKeys, AvailabilityKeys, EventKeys, OverlayKeys, TeachingKeys,
         CurriculumKeys, ParentKeys, OverrideKeys, Key
<1>2. f.rule = "null" =>
         <<f.table, f.column>> \in {<<"locations", "campus">>, <<"requests", "type">>, <<"requests", "location">>,
            <<"weeks", "activity">>, <<"replacements", "location">>, <<"events", "location">>,
            <<"groups", "curriculum">>, <<"items", "subject">>, <<"items", "parent">>}
  BY DEF Foreign, RoomKeys, PlanKeys, AvailabilityKeys, EventKeys, OverlayKeys, TeachingKeys,
         CurriculumKeys, ParentKeys, OverrideKeys, Key
<1> QED BY <1>1, <1>2, UniqueIs DEF Identifying

LEMMA ColumnKept ==
  ASSUME NEW a, NEW b, a.id = b.id, a.key = b.key, NEW c, c = "key" \/ a.refs[c] = b.refs[c]
  PROVE  Column(a, c) = Column(b, c)
BY DEF Column

-----------------------------------------------------------------------------
(* Sound tables.                                                           *)
LEMMA Apart ==
  ASSUME NEW table, Sound(table), NEW a \in table, NEW b \in table, a # b, a.table = b.table
  PROVE  /\ a.id # b.id
         /\ a.table \in DOMAIN Unique => ~Agree(a, b, Unique[a.table])
<1>1. Fits(a, table \ {a}) BY DEF Sound
<1> QED BY <1>1 DEF Fits

(* A row that fits takes the place of the row of its id, or a new place.   *)
LEMMA Replaced ==
  ASSUME NEW table, Sound(table), NEW old \in SUBSET table, NEW new, Proper(new), new.id \in Nat,
         \A b \in old : b.table = new.table /\ b.id = new.id,
         Fits(new, table \ old)
  PROVE  Sound((table \ old) \cup {new})
<1> DEFINE next == (table \ old) \cup {new}
<1>1. IsFiniteSet(next)
  <2>1. IsFiniteSet(table \ old) BY FS_Difference DEF Sound
  <2> QED BY <2>1, FS_AddElement
<1>2. ASSUME NEW b \in table \ old, b.table = new.table
      PROVE  b.id # new.id /\ (new.table \in DOMAIN Unique => ~Agree(new, b, Unique[new.table]))
  BY <1>2 DEF Fits
<1>3. ASSUME NEW r \in table \ old PROVE Fits(r, next \ {r})
  <2>1. Fits(r, table \ {r}) BY DEF Sound
  <2>2. \A b \in next \ {r} : b.table = r.table => b.id # r.id
    BY <1>2, <2>1 DEF Fits
  <2>3. ASSUME r.table \in DOMAIN Unique, NEW b \in next \ {r}, b.table = r.table
        PROVE  ~Agree(r, b, Unique[r.table])
    <3>1. CASE b = new BY <1>2, <2>3, <3>1 DEF Agree
    <3>2. CASE b # new BY <2>1, <2>3, <3>2 DEF Fits
    <3> QED BY <3>1, <3>2
  <2>4. ASSUME NEW f \in Foreign, Of(f, r), r.refs[f.column] # None
        PROVE  \E p \in (next \ {r}) \cup {r} : RefersTo(f, r, p)
    <3>1. PICK p \in table : RefersTo(f, r, p) BY <2>1, <2>4 DEF Fits
    <3>2. CASE p \in old
      <4>1. RefersTo(f, r, new) BY <3>1, <3>2 DEF RefersTo
      <4> QED BY <4>1
    <3>3. CASE p \notin old BY <3>1, <3>3
    <3> QED BY <3>2, <3>3
  <2> QED BY <2>2, <2>3, <2>4 DEF Fits
<1>4. Fits(new, next \ {new})
  <2>1. ASSUME NEW f \in Foreign, Of(f, new), new.refs[f.column] # None
        PROVE  \E p \in (next \ {new}) \cup {new} : RefersTo(f, new, p)
    <3>1. PICK p \in (table \ old) \cup {new} : RefersTo(f, new, p) BY <2>1 DEF Fits
    <3> QED BY <3>1
  <2>2. \A b \in next \ {new} : b \in table \ old OBVIOUS
  <2> QED BY <1>2, <2>1, <2>2 DEF Fits
<1> QED BY <1>1, <1>3, <1>4 DEF Sound

(* Rows that stay, with references set to NULL.                            *)
LEMMA Image ==
  ASSUME NEW table, Sound(table), NEW T \in SUBSET table, NEW m, m = [r \in T |-> m[r]],
         \A r \in T : Proper(m[r]) /\ m[r].table = r.table /\ m[r].id = r.id /\ m[r].key = r.key,
         \A r \in T : \A c \in Identifying(r.table) : m[r].refs[c] = r.refs[c],
         \A r \in T : \A f \in Foreign :
            Of(f, m[r]) /\ m[r].refs[f.column] # None => \E p \in T : RefersTo(f, m[r], p)
  PROVE  Sound({m[r] : r \in T})
<1> DEFINE next == {m[r] : r \in T}
<1>1. IsFiniteSet(next)
  <2>1. IsFiniteSet(T) BY FS_Subset DEF Sound
  <2>2. m \in Surjection(T, next) BY DEF Surjection
  <2> QED BY <2>1, <2>2, FS_Surjection
<1>2. ASSUME NEW a \in T, NEW b \in T, m[a] # m[b], m[a].table = m[b].table
      PROVE  /\ m[a].id # m[b].id
             /\ m[a].table \in DOMAIN Unique => ~Agree(m[a], m[b], Unique[m[a].table])
  <2>1. a # b /\ a.table = b.table BY <1>2
  <2>2. ASSUME a.table \in DOMAIN Unique, NEW c \in Unique[a.table]
        PROVE  Column(m[a], c) = Column(a, c) /\ Column(m[b], c) = Column(b, c)
    <3>1. c = "key" \/ c \in Identifying(a.table) BY <2>2, IdentifyingIs
    <3>2. m[a].id = a.id /\ m[a].key = a.key /\ (c = "key" \/ m[a].refs[c] = a.refs[c]) BY <3>1
    <3>3. m[b].id = b.id /\ m[b].key = b.key /\ (c = "key" \/ m[b].refs[c] = b.refs[c])
      BY <2>1, <3>1
    <3>4. Column(m[a], c) = Column(a, c) BY <3>2 DEF Column
    <3>5. Column(m[b], c) = Column(b, c) BY <3>3 DEF Column
    <3> QED BY <3>4, <3>5
  <2> QED BY <2>1, <2>2, Apart DEF Agree
<1>3. ASSUME NEW a \in T PROVE Fits(m[a], next \ {m[a]})
  <2>1. \A n \in next \ {m[a]} : n.table = m[a].table =>
          n.id # m[a].id /\ (m[a].table \in DOMAIN Unique => ~Agree(m[a], n, Unique[m[a].table]))
    BY <1>2
  <2>2. ASSUME NEW f \in Foreign, Of(f, m[a]), m[a].refs[f.column] # None
        PROVE  \E p \in (next \ {m[a]}) \cup {m[a]} : RefersTo(f, m[a], p)
    <3>1. PICK p \in T : RefersTo(f, m[a], p) BY <2>2
    <3>2. RefersTo(f, m[a], m[p]) BY <3>1 DEF RefersTo
    <3> QED BY <3>2
  <2> QED BY <2>1, <2>2 DEF Fits
<1>4. \A r \in T : m[r].id \in Nat BY DEF Sound
<1> QED BY <1>1, <1>3, <1>4 DEF Sound

-----------------------------------------------------------------------------
(* Deletions.  Every set of numbers has a least one, which is all that is  *)
(* needed of induction.                                                    *)
LEMMA LeastNumber ==
  ASSUME NEW S \in SUBSET Nat, S # {}
  PROVE  \E m \in S : \A k \in S : m <= k
<1> DEFINE Below == {1..n : n \in S}
<1>1. \A n \in Nat : IsFiniteSet(1..n) /\ 1..n \in SUBSET Nat BY FS_Interval
<1>2. Below \subseteq FiniteSubsetsOf(Nat) BY <1>1 DEF FiniteSubsetsOf
<1>3. IsWellFoundedOn(StrictSubsetOrdering(Nat), FiniteSubsetsOf(Nat))
  BY FS_StrictSubsetOrderingWellFounded
<1>4. PICK B \in Below : \A C \in Below : <<C, B>> \notin StrictSubsetOrdering(Nat)
  <2>1. Below # {} OBVIOUS
  <2> QED BY <1>2, <1>3, <2>1, WFMin
<1>5. PICK m \in S : B = 1..m BY <1>4
<1>6. ASSUME NEW k \in S, ~(m <= k) PROVE FALSE
  <2>1. m \in Nat /\ k \in Nat /\ k < m BY <1>6
  <2>2. 1..k \subseteq 1..m /\ m \in 1..m /\ m \notin 1..k BY <2>1
  <2>3. 1..k \in Below OBVIOUS
  <2>4. 1..k \subseteq B /\ 1..k # B BY <1>5, <2>2
  <2>5. 1..k \in SUBSET Nat /\ B \in SUBSET Nat BY <1>1, <1>5, <2>1
  <2>6. <<1..k, B>> \in StrictSubsetOrdering(Nat) BY <2>4, <2>5 DEF StrictSubsetOrdering
  <2> QED BY <1>4, <2>3, <2>6
<1> QED BY <1>6

(* The rows that go are closed under the cascade: each wave is larger than *)
(* the one before it or is the last one, and there are enough waves.       *)
Cascade(going) ==
  going \cup {r \in rows : \E p \in going, f \in Foreign : f.rule = "cascade" /\ RefersTo(f, r, p)}

Waves(wave, x, N) == [n \in 0..N |-> IF n = 0 THEN {x} ELSE Cascade(wave[n-1])]

LEMMA WavesExist ==
  ASSUME NEW x, NEW N \in Nat
  PROVE  \E wave : wave = Waves(wave, x, N)
<1> DEFINE Is(wave, M) == wave = Waves(wave, x, M)
           Bad == {m \in Nat : ~\E wave : Is(wave, m)}
<1> SUFFICES ASSUME N \in Bad PROVE FALSE OBVIOUS
<1>1. PICK m \in Bad : \A k \in Bad : m <= k BY LeastNumber
<1>2. CASE m = 0
  <2> DEFINE wave == [n \in 0..0 |-> {x}]
  <2>1. Is(wave, 0) BY DEF Waves
  <2> QED BY <1>2, <2>1
<1>3. CASE m # 0
  <2>1. m - 1 \in Nat /\ m - 1 \notin Bad BY <1>1, <1>3
  <2>2. PICK f : Is(f, m - 1) BY <2>1
  <2> DEFINE wave == [n \in 0..m |-> IF n < m THEN f[n] ELSE Cascade(f[m - 1])]
  <2>3. ASSUME NEW n \in 0..m PROVE wave[n] = IF n = 0 THEN {x} ELSE Cascade(wave[n-1])
    <3>1. CASE n = m
      <4>1. m - 1 \in 0..m /\ m - 1 < m BY <2>1
      <4>2. wave[m - 1] = f[m - 1] BY <4>1
      <4>3. wave[n] = Cascade(f[m - 1]) BY <3>1
      <4> HIDE DEF wave
      <4> QED BY <1>3, <3>1, <4>2, <4>3
    <3>2. CASE n # m
      <4>1. n \in 0..(m - 1) /\ n < m BY <3>2, <1>3
      <4>2. f[n] = IF n = 0 THEN {x} ELSE Cascade(f[n-1]) BY <2>2, <4>1 DEF Waves
      <4>3. n # 0 => n - 1 \in 0..m /\ n - 1 < m BY <4>1
      <4>4. n # 0 => wave[n - 1] = f[n - 1] BY <4>3
      <4>5. wave[n] = f[n] BY <4>1
      <4> HIDE DEF wave
      <4> QED BY <4>2, <4>4, <4>5
    <3> QED BY <3>1, <3>2
  <2>4. wave = [n \in 0..m |-> wave[n]] OBVIOUS
  <2>5. Is(wave, m)
    <3> HIDE DEF wave
    <3> QED BY <2>3, <2>4 DEF Waves
  <2> QED BY <2>5
<1> QED BY <1>2, <1>3

LEMMA WavesGrow ==
  ASSUME IsFiniteSet(rows), NEW x \in rows, NEW wave,
         wave = Waves(wave, x, Cardinality(rows))
  PROVE  LET last == wave[Cardinality(rows)]
         IN  last \subseteq rows /\ x \in last /\ Cascade(last) = last
<1> DEFINE N == Cardinality(rows)
<1>1. N \in Nat BY FS_CardinalityType
<1>2. wave[0] = {x} /\ \A n \in 1..N : wave[n] = Cascade(wave[n-1])
  <2>1. 0 \in 0..N /\ \A n \in 1..N : n \in 0..N /\ n # 0 BY <1>1
  <2> QED BY <2>1 DEF Waves
<1>3. \A X \in SUBSET rows : Cascade(X) \in SUBSET rows /\ X \subseteq Cascade(X) BY DEF Cascade
<1> DEFINE Good(n) == /\ wave[n] \in SUBSET rows /\ x \in wave[n]
                      /\ Cascade(wave[n]) = wave[n] \/ Cardinality(wave[n]) > n
<1>4. Good(0)
  <2>1. IsFiniteSet({x}) /\ Cardinality({x}) = 1 BY FS_Singleton
  <2> QED BY <1>2, <2>1
<1>5. ASSUME NEW n \in 1..N, Good(n-1) PROVE Good(n)
  <2>1. wave[n] = Cascade(wave[n-1]) /\ n-1 \in Nat BY <1>1, <1>2, <1>5
  <2>2. wave[n] \in SUBSET rows /\ wave[n-1] \subseteq wave[n] BY <1>3, <1>5, <2>1
  <2>3. CASE Cascade(wave[n-1]) = wave[n-1] BY <1>5, <2>1, <2>2, <2>3
  <2>4. CASE wave[n] # wave[n-1] /\ Cardinality(wave[n-1]) > n-1
    <3>1. IsFiniteSet(wave[n]) BY <2>2, FS_Subset
    <3>2. /\ IsFiniteSet(wave[n-1]) /\ Cardinality(wave[n-1]) <= Cardinality(wave[n])
          /\ Cardinality(wave[n-1]) # Cardinality(wave[n])
      BY <2>2, <2>4, <3>1, FS_Subset
    <3>3. Cardinality(wave[n]) \in Nat /\ Cardinality(wave[n-1]) \in Nat
      BY <3>1, <3>2, FS_CardinalityType
    <3>4. Cardinality(wave[n]) > n BY <2>1, <2>4, <3>2, <3>3
    <3> QED BY <1>5, <2>2, <3>4
  <2> QED BY <1>5, <2>1, <2>3, <2>4
<1>6. \A n \in 0..N : Good(n)
  <2> SUFFICES ASSUME NEW k \in 0..N, ~Good(k) PROVE FALSE OBVIOUS
  <2> DEFINE Bad == {n \in 0..N : ~Good(n)}
  <2>1. Bad \in SUBSET Nat /\ Bad # {} BY <1>1
  <2> HIDE DEF Bad
  <2>2. PICK m \in Bad : \A i \in Bad : m <= i BY <2>1, LeastNumber
  <2>3. m \in 0..N /\ ~Good(m) BY <2>2 DEF Bad
  <2> HIDE DEF Good
  <2>4. m \in 1..N BY <1>4, <2>3
  <2>5. m - 1 \in 0..N /\ ~(m <= m - 1) BY <1>1, <2>4
  <2>6. Good(m-1) BY <2>2, <2>5 DEF Bad
  <2> QED BY <1>5, <2>3, <2>4, <2>6
<1>7. Good(N) BY <1>1, <1>6
<1>8. wave[N] \subseteq rows /\ Cardinality(wave[N]) <= N BY <1>7, FS_Subset
<1>9. Cardinality(wave[N]) \in Nat BY <1>8, FS_Subset, FS_CardinalityType
<1> QED BY <1>1, <1>7, <1>8, <1>9

LEMMA GoneIsClosed ==
  ASSUME IsFiniteSet(rows), NEW x \in rows
  PROVE  /\ GoneWith({x}) \subseteq rows /\ x \in GoneWith({x})
         /\ \A r \in rows, p \in GoneWith({x}), f \in Foreign :
              f.rule = "cascade" /\ RefersTo(f, r, p) => r \in GoneWith({x})
<1> DEFINE N == Cardinality(rows)
           chosen == CHOOSE wave : wave = Waves(wave, x, N)
<1>1. GoneWith({x}) = chosen[N] BY DEF GoneWith, Waves, Cascade
<1>2. N \in Nat BY FS_CardinalityType
<1>3. chosen = Waves(chosen, x, N) BY <1>2, WavesExist
<1> HIDE DEF chosen
<1>4. Cascade(chosen[N]) = chosen[N] /\ chosen[N] \subseteq rows /\ x \in chosen[N]
  BY <1>3, WavesGrow
<1> QED BY <1>1, <1>4 DEF Cascade

(* What is left after a deletion that no reference forbids is sound.       *)
LEMMA WithoutIsSound ==
  ASSUME Sound(rows), NEW x \in rows, ~Kept({x})
  PROVE  Sound(Without({x}))
<1> DEFINE gone == GoneWith({x})
           T == rows \ gone
           m == [r \in T |-> Cleared(r, gone)]
<1>1. \A r \in rows, p \in gone, f \in Foreign : f.rule = "cascade" /\ RefersTo(f, r, p) => r \in gone
  BY GoneIsClosed DEF Sound
<1>2. \A r \in T, p \in gone, f \in Foreign : RefersTo(f, r, p) => f.rule # "restrict"
  BY DEF Kept
<1> HIDE DEF gone
<1>3. ASSUME NEW r \in T
      PROVE  /\ DOMAIN m[r] = {"table", "id", "key", "refs", "gone"}
             /\ m[r].table = r.table /\ m[r].id = r.id /\ m[r].key = r.key /\ m[r].gone = r.gone
             /\ DOMAIN m[r].refs = DOMAIN r.refs
             /\ \A c \in DOMAIN r.refs :
                  m[r].refs[c] = IF \E f \in Foreign, p \in gone :
                                      f.column = c /\ f.rule = "null" /\ RefersTo(f, r, p)
                                 THEN None ELSE r.refs[c]
  <2>1. DOMAIN r = {"table", "id", "key", "refs", "gone"} BY <1>3 DEF Sound, Proper
  <2> DEFINE cleared == [c \in DOMAIN r.refs |->
               IF \E f \in Foreign, p \in gone : f.column = c /\ f.rule = "null" /\ RefersTo(f, r, p)
               THEN None ELSE r.refs[c]]
  <2>2. m[r] = [r EXCEPT !.refs = cleared] BY <1>3 DEF Cleared
  <2>3. /\ DOMAIN cleared = DOMAIN r.refs
        /\ \A c \in DOMAIN r.refs :
             cleared[c] = IF \E f \in Foreign, p \in gone :
                               f.column = c /\ f.rule = "null" /\ RefersTo(f, r, p)
                          THEN None ELSE r.refs[c]
    OBVIOUS
  <2> HIDE DEF cleared, m
  <2> QED BY <2>1, <2>2, <2>3, RowWithRefs
<1>4. m = [r \in T |-> m[r]] OBVIOUS
<1>5. Without({x}) = {m[r] : r \in T} BY DEF Without, gone
<1> HIDE DEF m
<1>6. ASSUME NEW r \in T
      PROVE  Proper(m[r]) /\ \A c \in Identifying(r.table) : m[r].refs[c] = r.refs[c]
  <2>1. Proper(r) BY DEF Sound
  <2>2. ASSUME NEW c \in Identifying(r.table) PROVE m[r].refs[c] = r.refs[c]
    <3>1. c \in DOMAIN r.refs BY <2>1, <2>2 DEF Proper, Refers
    <3>2. ASSUME NEW f \in Foreign, f.column = c, f.rule = "null", NEW p, RefersTo(f, r, p) PROVE FALSE
      <4>1. f.table = r.table BY <3>2 DEF RefersTo, Of
      <4> QED BY <2>2, <3>2, <4>1, NullKeys
    <3> QED BY <1>3, <3>1, <3>2
  <2>3. Refers(r.table, m[r].refs) BY <1>3, <2>1, <2>2 DEF Proper, Refers
  <2> QED BY <1>3, <2>1, <2>2, <2>3 DEF Proper
<1>7. ASSUME NEW r \in T, NEW f \in Foreign, Of(f, m[r]), m[r].refs[f.column] # None
      PROVE  \E p \in T : RefersTo(f, m[r], p)
  <2>1. Of(f, r) /\ f.column \in DOMAIN r.refs BY <1>3, <1>7 DEF Of
  <2>2. /\ m[r].refs[f.column] = r.refs[f.column]
        /\ ~\E p \in gone : f.rule = "null" /\ RefersTo(f, r, p)
    BY <1>3, <1>7, <2>1
  <2>3. Fits(r, rows \ {r}) BY DEF Sound
  <2>4. PICK p \in rows : RefersTo(f, r, p) BY <1>7, <2>1, <2>2, <2>3 DEF Fits
  <2>5. p \notin gone BY <1>1, <1>2, <2>2, <2>4, NullKeys
  <2>6. RefersTo(f, m[r], p) BY <1>7, <2>2, <2>4 DEF RefersTo
  <2> QED BY <2>4, <2>5, <2>6
<1>8. T \in SUBSET rows OBVIOUS
<1> HIDE DEF T
<1>9. /\ \A r \in T : Proper(m[r]) /\ m[r].table = r.table /\ m[r].id = r.id /\ m[r].key = r.key
      /\ \A r \in T : \A c \in Identifying(r.table) : m[r].refs[c] = r.refs[c]
  BY <1>3, <1>6
<1>10. \A r \in T : \A f \in Foreign :
         Of(f, m[r]) /\ m[r].refs[f.column] # None => \E p \in T : RefersTo(f, m[r], p)
  BY <1>7
<1>11. Sound({m[r] : r \in T}) BY <1>4, <1>8, <1>9, <1>10, Image
<1> QED BY <1>5, <1>11

-----------------------------------------------------------------------------
(* The rows that bodies make.                                              *)
LEMMA RowIsProper ==
  ASSUME NEW t, NEW id, NEW key \in Nat, NEW refs, Refers(t, refs)
  PROVE  LET r == Row(t, id, key, refs)
         IN  Proper(r) /\ r.table = t /\ r.id = id /\ r.key = key /\ r.refs = refs
BY DEF Row, Proper

LEMMA KeysAreNumbers ==
  /\ \A k \in Nat : Trim(k) \in Nat /\ Lower(k) \in Nat /\ k - (k % 7) \in Nat
  /\ \A k \in Int : Priority(k) \in Nat
BY DEF Trim, Lower, Priority

LEMMA NewRows ==
  /\ \A t \in Written : \A b \in Bodies[t] :
       b.named \in Nat \cup {None} /\ Refers(t, b.refs)
  /\ \A t \in Written \ {"preferences", "requests"} : \A b \in Bodies[t] : b.key \in Nat
  /\ \A t \in {"preferences", "requests"} : \A b \in Bodies[t] : b.key \in Int
BY TablesConstants DEF Written, BodySound

New(r, t) == Proper(r) /\ r.table = t /\ r.id \in Nat \cup {None}

LEMMA RoomRows ==
  /\ \A b \in Bodies["campuses"] : New(CampusRow(b), "campuses")
  /\ \A b \in Bodies["locations"] : New(LocationRow(b), "locations")
  /\ \A b \in Bodies["types"] : New(TypeRow(b), "types")
  /\ \A b \in Bodies["links"] : New(LinkRow(b), "links")
  /\ \A b \in Bodies["preferences"] : New(PreferenceRow(b), "preferences")
  /\ \A b \in Bodies["requests"] : New(RequestRow(b), "requests")
<1>1. \A b \in Bodies["campuses"] : New(CampusRow(b), "campuses")
  BY NewRows, KeysAreNumbers, RowIsProper DEF Written, CampusRow, New
<1>2. \A b \in Bodies["locations"] : New(LocationRow(b), "locations")
  BY NewRows, KeysAreNumbers, RowIsProper DEF Written, LocationRow, New
<1>3. \A b \in Bodies["types"] : New(TypeRow(b), "types")
  BY NewRows, KeysAreNumbers, RowIsProper DEF Written, TypeRow, New
<1>4. \A b \in Bodies["links"] : New(LinkRow(b), "links")
  BY NewRows, KeysAreNumbers, RowIsProper DEF Written, LinkRow, New
<1>5. \A b \in Bodies["preferences"] : New(PreferenceRow(b), "preferences")
  BY NewRows, KeysAreNumbers, RowIsProper DEF Written, PreferenceRow, New
<1>6. \A b \in Bodies["requests"] : New(RequestRow(b), "requests")
  BY NewRows, KeysAreNumbers, RowIsProper DEF Written, RequestRow, New
<1> QED BY <1>1, <1>2, <1>3, <1>4, <1>5, <1>6

LEMMA PlanRows ==
  /\ \A b \in Bodies["activities"] : New(ActivityRow(b), "activities")
  /\ \A b \in Bodies["constraints"] : New(ConstraintRow(b), "constraints")
  /\ \A b \in Bodies["replacements"] : New(ReplacementRow(b), "replacements")
  /\ \A b \in Bodies["days"] : New(DayRow(b), "days")
  /\ \A b \in Bodies["events"] : New(EventRow(b), "events")
  /\ \A b \in Bodies["overlays"] : New(OverlayRow(b), "overlays")
<1>1. \A b \in Bodies["activities"] : New(ActivityRow(b), "activities")
  BY NewRows, KeysAreNumbers, RowIsProper DEF Written, ActivityRow, New
<1>2. \A b \in Bodies["constraints"] : New(ConstraintRow(b), "constraints")
  BY NewRows, RowIsProper DEF Written, ConstraintRow, New
<1>3. \A b \in Bodies["replacements"] : New(ReplacementRow(b), "replacements")
  BY NewRows, RowIsProper DEF Written, ReplacementRow, New
<1>4. \A b \in Bodies["days"] : New(DayRow(b), "days")
  BY NewRows, RowIsProper DEF Written, DayRow, New
<1>5. \A b \in Bodies["events"] : New(EventRow(b), "events")
  BY NewRows, RowIsProper DEF Written, EventRow, New
<1>6. \A b \in Bodies["overlays"] : New(OverlayRow(b), "overlays")
  BY NewRows, RowIsProper DEF Written, OverlayRow, New
<1> QED BY <1>1, <1>2, <1>3, <1>4, <1>5, <1>6

LEMMA OtherRows ==
  /\ \A b \in Bodies["teachers"], id \in Nat \cup {None} :
       New(TeacherRow(id, b), "teachers") /\ TeacherRow(id, b).id = id
  /\ \A b \in Bodies["teaches"] : New(TeachesRow(b), "teaches")
  /\ \A b \in Bodies["subjects"] : New(SubjectRow(b), "subjects")
  /\ \A b \in Bodies["specialties"] : New(SpecialtyRow(b), "specialties")
  /\ \A b \in Bodies["curricula"] : New(CurriculumRow(b), "curricula")
  /\ \A b \in Bodies["items"] :
       /\ New(ItemRow(b), "items")
       /\ \A x : New([ItemRow(b) EXCEPT !.refs["curriculum"] = x], "items")
<1>1. \A b \in Bodies["teachers"], id \in Nat \cup {None} :
       New(TeacherRow(id, b), "teachers") /\ TeacherRow(id, b).id = id
  BY NewRows, KeysAreNumbers, RowIsProper DEF Written, TeacherRow, New
<1>2. \A b \in Bodies["teaches"] : New(TeachesRow(b), "teaches")
  BY NewRows, RowIsProper DEF Written, TeachesRow, New
<1>3. \A b \in Bodies["subjects"] : New(SubjectRow(b), "subjects")
  BY NewRows, RowIsProper DEF Written, SubjectRow, New
<1>4. \A b \in Bodies["specialties"] : New(SpecialtyRow(b), "specialties")
  BY NewRows, RowIsProper DEF Written, SpecialtyRow, New
<1>5. \A b \in Bodies["curricula"] : New(CurriculumRow(b), "curricula")
  BY NewRows, RowIsProper DEF Written, CurriculumRow, New
<1>6. ASSUME NEW b \in Bodies["items"], NEW x
      PROVE  New(ItemRow(b), "items") /\ New([ItemRow(b) EXCEPT !.refs["curriculum"] = x], "items")
  <2>1. New(ItemRow(b), "items") BY NewRows, RowIsProper DEF Written, ItemRow, New
  <2> DEFINE refs == [ItemRow(b).refs EXCEPT !["curriculum"] = x]
             new == [ItemRow(b) EXCEPT !.refs = refs]
  <2>2. new = [ItemRow(b) EXCEPT !.refs["curriculum"] = x] OBVIOUS
  <2>3. DOMAIN refs = DOMAIN ItemRow(b).refs OBVIOUS
  <2>4. DOMAIN ItemRow(b) = {"table", "id", "key", "refs", "gone"} BY <2>1 DEF New, Proper
  <2> HIDE DEF refs
  <2>5. New(new, "items")
    <3>1. /\ DOMAIN new = {"table", "id", "key", "refs", "gone"} /\ new.refs = refs
          /\ new.table = ItemRow(b).table /\ new.key = ItemRow(b).key /\ new.id = ItemRow(b).id
          /\ new.gone = ItemRow(b).gone
      BY <2>4, RowWithRefs
    <3> HIDE DEF new
    <3> QED BY <2>1, <3>1, IdentifyingIs DEF New, Proper, Refers
  <2> QED BY <2>1, <2>2, <2>5
<1> QED BY <1>1, <1>2, <1>3, <1>4, <1>5, <1>6

-----------------------------------------------------------------------------
(* What requests have left to do, and with which row.                      *)
Saving == {<<"save">>, <<"save", "announce">>, <<"save", "restore", "announce">>}
Ending == {<<>>, <<"announce">>}
Waits(o) ==
  /\ o.todo \in Saving \cup Ending \cup {<<"restore", "announce">>, <<"create", "announce">>}
  /\ o.todo \in Saving => Proper(o.row) /\ o.row.id \in Nat
  /\ o.todo = <<"create", "announce">> =>
       Proper(o.row) /\ o.row.id \in Nat \cup {None} /\ o.row.table \in shelf

LEMMA Todos ==
  /\ \A s \in Ending : s \notin Saving /\ s # <<"create", "announce">> /\ s # <<"restore", "announce">>
  /\ <<"create", "announce">> \notin Saving /\ <<"restore", "announce">> \notin Saving
  /\ \A s \in Saving \cup Ending \cup {<<"restore", "announce">>, <<"create", "announce">>} :
       /\ s # <<>> /\ Head(s) = "save" => s \in Saving
       /\ s # <<>> /\ Head(s) = "create" => s = <<"create", "announce">>
       /\ s # <<>> /\ Head(s) = "restore" => s = <<"restore", "announce">>
  /\ \A s \in Saving : Tail(s) \in Ending \cup {<<"restore", "announce">>}
  /\ Tail(<<"create", "announce">>) = <<"announce">>
  /\ Tail(<<"restore", "announce">>) = <<"announce">>
  /\ \A s \in Ending \cup {<<"restore", "announce">>} : <<"save">> \o s \in Saving
<1>1. /\ \A s \in Ending : s \notin Saving /\ s # <<"create", "announce">> /\ s # <<"restore", "announce">>
      /\ <<"create", "announce">> \notin Saving /\ <<"restore", "announce">> \notin Saving
  BY DEF Saving, Ending
<1>2. ASSUME NEW s \in Saving \cup Ending \cup {<<"restore", "announce">>, <<"create", "announce">>}, s # <<>>
      PROVE  /\ Head(s) = "save" => s \in Saving
             /\ Head(s) = "create" => s = <<"create", "announce">>
             /\ Head(s) = "restore" => s = <<"restore", "announce">>
  <2>1. s \in Saving => Head(s) = "save" BY DEF Saving
  <2>2. /\ Head(<<"announce">>) = "announce" /\ Head(<<"restore", "announce">>) = "restore"
        /\ Head(<<"create", "announce">>) = "create"
    OBVIOUS
  <2>3. /\ "save" # "announce" /\ "save" # "restore" /\ "save" # "create" /\ "restore" # "create"
        /\ "announce" # "restore" /\ "announce" # "create"
    OBVIOUS
  <2>4. s \in Saving \/ s = <<"announce">> \/ s = <<"restore", "announce">> \/ s = <<"create", "announce">>
    BY <1>2 DEF Ending
  <2> QED BY <2>1, <2>2, <2>3, <2>4
<1>3. \A s \in Saving : Tail(s) \in Ending \cup {<<"restore", "announce">>}
  <2>1. Tail(<<"save">>) = <<>> /\ Tail(<<"save", "announce">>) = <<"announce">> OBVIOUS
  <2>2. Tail(<<"save", "restore", "announce">>) = <<"restore", "announce">> OBVIOUS
  <2> QED BY <2>1, <2>2 DEF Saving, Ending
<1>4. /\ Tail(<<"create", "announce">>) = <<"announce">>
      /\ Tail(<<"restore", "announce">>) = <<"announce">>
  OBVIOUS
<1>5. ASSUME NEW s \in Ending \cup {<<"restore", "announce">>} PROVE <<"save">> \o s \in Saving
  <2>1. <<"save">> \o <<>> = <<"save">> OBVIOUS
  <2>2. <<"save">> \o <<"announce">> = <<"save", "announce">>
    <3> DEFINE a == <<"save">> b == <<"announce">> c == <<"save", "announce">>
    <3> DEFINE S == {"save", "restore", "announce"}
    <3>1. a \in Seq(S) /\ b \in Seq(S) /\ c \in Seq(S) OBVIOUS
    <3>2. Len(a) = 1 /\ Len(b) = 1 /\ Len(c) = 2 OBVIOUS
    <3>3. a[1] = c[1] /\ b[1] = c[2] OBVIOUS
    <3> HIDE DEF a, b, c, S
    <3>4. /\ a \o b \in Seq(S) /\ Len(a \o b) = 2
          /\ \A i \in 1..2 : (a \o b)[i] = IF i <= 1 THEN a[i] ELSE b[i - 1]
      <4>1. /\ a \o b \in Seq(S) /\ Len(a \o b) = Len(a) + Len(b)
            /\ \A i \in 1..Len(a) + Len(b) :
                 (a \o b)[i] = IF i <= Len(a) THEN a[i] ELSE b[i - Len(a)]
        BY <3>1, ConcatProperties
      <4>2. Len(a) + Len(b) = 2 BY <3>2
      <4> QED BY <3>2, <4>1, <4>2
    <3>5. (a \o b)[1] = c[1] /\ (a \o b)[2] = c[2] BY <3>3, <3>4
    <3>6. a \o b = c BY <3>1, <3>2, <3>4, <3>5, SeqEqual
    <3> QED BY <3>6 DEF a, b, c
  <2>3. <<"save">> \o <<"restore", "announce">> = <<"save", "restore", "announce">>
    <3> DEFINE a == <<"save">> b == <<"restore", "announce">> c == <<"save", "restore", "announce">>
    <3> DEFINE S == {"save", "restore", "announce"}
    <3>1. a \in Seq(S) /\ b \in Seq(S) /\ c \in Seq(S) OBVIOUS
    <3>2. Len(a) = 1 /\ Len(b) = 2 /\ Len(c) = 3 OBVIOUS
    <3>3. a[1] = c[1] /\ b[1] = c[2] /\ b[2] = c[3] OBVIOUS
    <3> HIDE DEF a, b, c, S
    <3>4. /\ a \o b \in Seq(S) /\ Len(a \o b) = 3
          /\ \A i \in 1..3 : (a \o b)[i] = IF i <= 1 THEN a[i] ELSE b[i - 1]
      <4>1. /\ a \o b \in Seq(S) /\ Len(a \o b) = Len(a) + Len(b)
            /\ \A i \in 1..Len(a) + Len(b) :
                 (a \o b)[i] = IF i <= Len(a) THEN a[i] ELSE b[i - Len(a)]
        BY <3>1, ConcatProperties
      <4>2. Len(a) + Len(b) = 3 BY <3>2
      <4> QED BY <3>2, <4>1, <4>2
    <3>5. (a \o b)[1] = c[1] /\ (a \o b)[2] = c[2] /\ (a \o b)[3] = c[3] BY <3>3, <3>4
    <3>6. a \o b = c BY <3>1, <3>2, <3>4, <3>5, SeqEqual
    <3> QED BY <3>6 DEF a, b, c
  <2> QED BY <2>1, <2>2, <2>3 DEF Saving, Ending
<1> QED BY <1>1, <1>2, <1>3, <1>4, <1>5

(* The inductive invariant: the tables are sound, and a row that a request *)
(* has read or made is a proper one, whatever became of the tables since.  *)
TablesInv ==
  /\ Sound(rows)
  /\ DOMAIN nextId = shelf /\ \A t \in shelf : nextId[t] \in Nat
  /\ DOMAIN officer = Officers /\ \A w \in Officers : Waits(officer[w])

LEMMA TablesStart == TablesInit => TablesInv
<1> SUFFICES ASSUME TablesInit PROVE TablesInv OBVIOUS
<1>1. PICK s \in Shelves :
        /\ shelf = s.tables /\ rows = s.rows
        /\ nextId = [t \in s.tables |-> 1 + Cardinality({r \in s.rows : r.table = t})]
  BY DEF TablesInit
<1>2. Sound(rows) BY <1>1, TablesConstants
<1>3. ASSUME NEW t \in shelf PROVE nextId[t] \in Nat
  <2> DEFINE mine == {r \in rows : r.table = t}
  <2>1. IsFiniteSet(mine) BY <1>2, FS_Subset DEF Sound
  <2>2. Cardinality(mine) \in Nat BY <2>1, FS_CardinalityType
  <2>3. nextId[t] = 1 + Cardinality(mine) BY <1>1
  <2> QED BY <2>2, <2>3
<1>4. \A w \in Officers : Waits(officer[w])
  <2>1. \A w \in Officers : officer[w].todo = <<>> BY DEF TablesInit, NoRequest
  <2>2. <<>> \in Ending BY DEF Ending
  <2> QED BY <2>1, <2>2, Todos DEF Waits
<1> QED BY <1>1, <1>2, <1>3, <1>4 DEF TablesInv, TablesInit

(* A request goes on, and the others are as they were.                     *)
LEMMA GoesOn ==
  ASSUME TablesInv, NEW w \in Officers, NEW todo, NEW r, Left(w, todo, r), UNCHANGED shelf,
         \/ todo \in Ending \cup {<<"restore", "announce">>}
         \/ todo \in Saving /\ Proper(r) /\ r.id \in Nat
         \/ todo = <<"create", "announce">> /\ Proper(r) /\ r.id \in Nat \cup {None} /\ r.table \in shelf
  PROVE  DOMAIN officer' = Officers /\ \A v \in Officers : Waits(officer[v])'
<1>1. /\ DOMAIN officer' = Officers
      /\ \A v \in Officers \ {w} : officer'[v] = officer[v]
      /\ officer'[w].todo = todo
      /\ officer'[w].row = IF todo \in {<<>>, <<"announce">>} THEN None ELSE r
  BY DEF Left, TablesInv
<1>2. \A v \in Officers \ {w} : Waits(officer[v])' BY <1>1 DEF TablesInv, Waits
<1>3. Waits(officer[w])'
  <2>1. todo \notin Ending => officer'[w].row = r BY <1>1 DEF Ending
  <2> QED BY <1>1, <2>1, Todos DEF Waits
<1> QED BY <1>1, <1>2, <1>3

LEMMA Stays ==
  ASSUME TablesInv, NEW w \in Officers, Done(w), UNCHANGED <<shelf, rows>>, DOMAIN nextId' = shelf,
         \A t \in shelf : nextId'[t] \in Nat
  PROVE  TablesInv'
<1>1. DOMAIN officer' = Officers /\ \A v \in Officers : Waits(officer[v])'
  <2>1. <<>> \in Ending BY DEF Ending
  <2> QED BY <2>1, GoesOn DEF Done
<1>2. Sound(rows)' BY DEF TablesInv
<1> QED BY <1>1, <1>2 DEF TablesInv

LEMMA Commits ==
  ASSUME TablesInv, NEW w \in Officers, NEW todo, NEW r, Left(w, todo, r),
         todo \in Ending \cup {<<"restore", "announce">>},
         NEW table, Commit(table), Sound(table), DOMAIN nextId' = shelf,
         \A t \in shelf : nextId'[t] \in Nat
  PROVE  TablesInv'
<1>1. UNCHANGED shelf /\ rows' = table BY DEF Commit
<1>2. Sound(rows)' BY <1>1
<1>3. DOMAIN officer' = Officers /\ \A v \in Officers : Waits(officer[v])' BY <1>1, GoesOn
<1> QED BY <1>1, <1>2, <1>3 DEF TablesInv

LEMMA Refused ==
  ASSUME TablesInv, NEW w \in Officers, Done(w), Commit(rows), DOMAIN nextId' = shelf,
         \A t \in shelf : nextId'[t] \in Nat
  PROVE  TablesInv'
<1>1. UNCHANGED <<shelf, rows>> BY DEF Commit
<1> QED BY <1>1, Stays

LEMMA InsertKeeps ==
  ASSUME TablesInv, NEW w \in Officers, NEW r, Proper(r), r.id \in Nat \cup {None}, r.table \in shelf,
         NEW todo \in Ending, Inserts(w, r, todo)
  PROVE  TablesInv'
<1> DEFINE t == r.table
           id == IF r.id = None THEN nextId[t] ELSE r.id
           new == [r EXCEPT !.id = id]
<1>1. id \in Nat BY DEF TablesInv
<1>2. DOMAIN r = {"table", "id", "key", "refs", "gone"} BY DEF Proper
<1>3. new = [r EXCEPT !.id = IF @ = None THEN nextId[t] ELSE @] BY <1>2
<1>4. DOMAIN nextId' = shelf /\ \A u \in shelf : nextId'[u] \in Nat BY DEF TablesInv, Inserts
<1> HIDE DEF id
<1>5. Proper(new) /\ new.id \in Nat BY <1>1, <1>2, RowWithId DEF Proper
<1>6. IF Fits(new, rows) THEN Commit(rows \cup {new}) /\ Left(w, todo, None)
      ELSE Commit(rows) /\ Done(w)
  BY <1>3 DEF Inserts
<1> HIDE DEF new
<1>7. CASE Fits(new, rows)
  <2>1. Sound((rows \ {}) \cup {new}) 
    <3>1. Fits(new, rows \ {}) /\ {} \in SUBSET rows
      <4>1. rows \ {} = rows OBVIOUS
      <4> QED BY <1>7, <4>1
    <3> QED BY <1>5, <3>1, Replaced DEF TablesInv
  <2>2. (rows \ {}) \cup {new} = rows \cup {new} OBVIOUS
  <2>3. Sound(rows \cup {new}) BY <2>1, <2>2
  <2> QED BY <1>4, <1>6, <1>7, <2>3, Commits
<1>8. CASE ~Fits(new, rows) BY <1>4, <1>6, <1>8, Refused
<1> QED BY <1>7, <1>8

LEMMA CreatesKeep ==
  ASSUME TablesInv, NEW w \in Officers, NEW t, NEW r, New(r, t), NEW todo \in Ending, Creates(w, r, todo)
  PROVE  TablesInv'
BY InsertKeeps DEF Creates, Asked, New

LEMMA FindsKeep ==
  ASSUME TablesInv, NEW w \in Officers, NEW t, NEW old \in RowsOf(t), NEW new, New(new, t),
         NEW todo \in Ending \cup {<<"restore", "announce">>}, Finds(w, old, new, todo)
  PROVE  TablesInv'
<1> DEFINE row == [new EXCEPT !.id = old.id]
<1>1. DOMAIN new = {"table", "id", "key", "refs", "gone"} BY DEF New, Proper
<1>2. old.id \in Nat BY DEF RowsOf, TablesInv, Sound
<1>3. Proper(row) /\ row.id \in Nat BY <1>1, <1>2, RowWithId DEF New, Proper
<1> HIDE DEF row
<1>4. Left(w, <<"save">> \o todo, row) /\ UNCHANGED <<shelf, rows, nextId>> BY DEF Finds, row
<1>5. <<"save">> \o todo \in Saving BY Todos
<1>6. DOMAIN officer' = Officers /\ \A v \in Officers : Waits(officer[v])'
  BY <1>3, <1>4, <1>5, GoesOn
<1>7. Sound(rows)' BY <1>4 DEF TablesInv
<1> QED BY <1>4, <1>6, <1>7 DEF TablesInv

LEMMA SavesKeep ==
  ASSUME TablesInv, NEW w \in Officers, NEW t, Saves(w, t)
  PROVE  TablesInv'
<1> DEFINE o == officer[w]
           now == {b \in RowsOf(o.row.table) : b.id = o.row.id}
           new == SavedRow(w)
           old == {b \in RowsOf(t) : b.id = new.id}
<1>1. o.todo \in Saving /\ Tail(o.todo) \in Ending \cup {<<"restore", "announce">>}
  BY Todos DEF Saves, At, TablesInv, Waits
<1>2. Proper(o.row) /\ o.row.id \in Nat BY <1>1 DEF TablesInv, Waits
<1>3. Proper(new) /\ new.id = o.row.id /\ new.table = o.row.table
  <2> DEFINE gone == now # {} /\ \A b \in now : b.gone
  <2>1. gone => o.row.table \in {"teachers", "subjects", "curricula"}
    BY DEF RowsOf, TablesInv, Sound, Proper
  <2>2. gone \in BOOLEAN OBVIOUS
  <2>3. new = [o.row EXCEPT !.gone = gone] BY DEF SavedRow
  <2> HIDE DEF gone, new, now
  <2>4. DOMAIN o.row = {"table", "id", "key", "refs", "gone"} BY <1>2 DEF Proper
  <2>5. /\ DOMAIN new = {"table", "id", "key", "refs", "gone"} /\ new.id = o.row.id
        /\ new.table = o.row.table /\ new.key = o.row.key /\ new.refs = o.row.refs
        /\ new.gone = gone
    BY <2>3, <2>4
  <2> QED BY <1>2, <2>1, <2>2, <2>5 DEF Proper
<1> HIDE DEF new
<1>4. /\ new.table = t /\ UNCHANGED nextId
      /\ IF Fits(new, rows \ old) THEN Commit((rows \ old) \cup {new}) /\ Left(w, Tail(o.todo), new)
         ELSE Commit(rows) /\ Done(w)
  BY DEF Saves, new
<1>5. DOMAIN nextId' = shelf /\ \A u \in shelf : nextId'[u] \in Nat BY <1>4 DEF TablesInv
<1>6. CASE Fits(new, rows \ old)
  <2>1. \A b \in old : b.table = new.table /\ b.id = new.id BY <1>4 DEF RowsOf
  <2>2. old \in SUBSET rows BY DEF RowsOf
  <2> HIDE DEF old
  <2>3. Sound((rows \ old) \cup {new}) BY <1>2, <1>3, <1>6, <2>1, <2>2, Replaced DEF TablesInv
  <2> QED BY <1>1, <1>4, <1>5, <1>6, <2>3, Commits
<1>7. CASE ~Fits(new, rows \ old) BY <1>4, <1>5, <1>7, Refused
<1> QED BY <1>6, <1>7

LEMMA UpdatesKeep ==
  ASSUME TablesInv, NEW w \in Officers, NEW old \in rows, NEW new, Proper(new), new.id = old.id,
         new.table = old.table, NEW todo \in Ending, Updates(w, old, new, todo)
  PROVE  TablesInv'
<1>1. DOMAIN nextId' = shelf /\ \A u \in shelf : nextId'[u] \in Nat BY DEF TablesInv, Updates
<1>2. CASE Fits(new, rows \ {old})
  <2>1. new.id \in Nat BY DEF TablesInv, Sound
  <2>2. Sound((rows \ {old}) \cup {new}) BY <1>2, <2>1, Replaced DEF TablesInv
  <2> QED BY <1>1, <1>2, <2>2, Commits DEF Updates
<1>3. CASE ~Fits(new, rows \ {old}) BY <1>1, <1>3, Refused DEF Updates
<1> QED BY <1>2, <1>3

LEMMA HidesKeep ==
  ASSUME TablesInv, NEW w \in Officers, NEW t \in {"teachers", "subjects", "curricula"},
         NEW r \in RowsOf(t), NEW todo \in Ending, Hides(w, r, todo)
  PROVE  TablesInv'
<1> DEFINE new == [r EXCEPT !.gone = TRUE]
<1>1. r \in rows /\ r.table = t BY DEF RowsOf
<1>2. Proper(r) BY <1>1 DEF TablesInv, Sound
<1>3. Proper(new) /\ new.id = r.id /\ new.table = r.table BY <1>1, <1>2 DEF Proper
<1>4. Updates(w, r, new, todo) BY DEF Hides
<1> HIDE DEF new
<1> QED BY <1>1, <1>3, <1>4, UpdatesKeep

LEMMA DeletesKeep ==
  ASSUME TablesInv, NEW w \in Officers, NEW t, NEW r \in RowsOf(t), NEW todo \in Ending,
         Deletes(w, r, todo)
  PROVE  TablesInv'
<1>1. DOMAIN nextId' = shelf /\ \A u \in shelf : nextId'[u] \in Nat BY DEF TablesInv, Deletes
<1>2. r \in rows BY DEF RowsOf
<1>3. CASE Kept({r}) BY <1>1, <1>3, Refused DEF Deletes
<1>4. CASE ~Kept({r})
  <2>1. Sound(Without({r})) BY <1>2, <1>4, WithoutIsSound DEF TablesInv
  <2>2. Commit(Without({r})) /\ Left(w, todo, None) BY <1>4 DEF Deletes
  <2> QED BY <1>1, <2>1, <2>2, Commits
<1> QED BY <1>3, <1>4

LEMMA RestoresKeep ==
  ASSUME TablesInv, NEW w \in Officers, NEW t, Restores(w, t)
  PROVE  TablesInv'
<1> DEFINE hit(r) == r.table = t /\ r.id = officer[w].row.id
           m == [r \in rows |-> IF hit(r) THEN [r EXCEPT !.gone = FALSE] ELSE r]
<1>1. officer[w].todo = <<"restore", "announce">> BY Todos DEF Restores, At, TablesInv, Waits
<1>2. Tail(officer[w].todo) \in Ending BY <1>1, Todos DEF Ending
<1>3. Commit({m[r] : r \in rows}) /\ Left(w, Tail(officer[w].todo), None) /\ UNCHANGED nextId
  <2>1. {m[r] : r \in rows} = {IF hit(r) THEN [r EXCEPT !.gone = FALSE] ELSE r : r \in rows} OBVIOUS
  <2> QED BY <2>1 DEF Restores
<1>4. m = [r \in rows |-> m[r]] OBVIOUS
<1>5. ASSUME NEW r \in rows
      PROVE  /\ Proper(m[r]) /\ m[r].table = r.table /\ m[r].id = r.id /\ m[r].key = r.key
             /\ m[r].refs = r.refs
  <2>1. Proper(r) BY DEF TablesInv, Sound
  <2>2. CASE hit(r)
    <3>1. m[r] = [r EXCEPT !.gone = FALSE] BY <2>2
    <3> HIDE DEF m
    <3> QED BY <2>1, <3>1 DEF Proper
  <2>3. CASE ~hit(r) BY <2>1, <2>3
  <2> QED BY <2>2, <2>3
<1> HIDE DEF m
<1>6. ASSUME NEW r \in rows, NEW f \in Foreign, Of(f, m[r]), m[r].refs[f.column] # None
      PROVE  \E p \in rows : RefersTo(f, m[r], p)
  <2>1. Of(f, r) /\ r.refs[f.column] # None BY <1>5, <1>6 DEF Of
  <2>2. Fits(r, rows \ {r}) BY DEF TablesInv, Sound
  <2>3. PICK p \in rows : RefersTo(f, r, p) BY <2>1, <2>2 DEF Fits
  <2> QED BY <1>5, <1>6, <2>3 DEF RefersTo
<1>7. Sound({m[r] : r \in rows})
  <2>1. /\ \A r \in rows : Proper(m[r]) /\ m[r].table = r.table /\ m[r].id = r.id /\ m[r].key = r.key
        /\ \A r \in rows : \A c \in Identifying(r.table) : m[r].refs[c] = r.refs[c]
    BY <1>5
  <2>2. \A r \in rows : \A f \in Foreign :
          Of(f, m[r]) /\ m[r].refs[f.column] # None => \E p \in rows : RefersTo(f, m[r], p)
    BY <1>6
  <2>3. Sound(rows) /\ rows \in SUBSET rows BY DEF TablesInv
  <2> QED BY <1>4, <2>1, <2>2, <2>3, Image
<1>8. DOMAIN nextId' = shelf /\ \A u \in shelf : nextId'[u] \in Nat BY <1>3 DEF TablesInv
<1> QED BY <1>2, <1>3, <1>7, <1>8, Commits

(* A row of a batch finds at most one row, whose place and id it takes.    *)
LEMMA UpsertedIsSound ==
  ASSUME NEW st, Sound(st.table), st.id \in Nat, NEW r, Proper(r), r.table \in DOMAIN Unique,
         Upserted(st, r, Unique[r.table]).ok
  PROVE  Sound(Upserted(st, r, Unique[r.table]).table)
<1> DEFINE on == Unique[r.table]
           old == {b \in st.table : b.table = r.table /\ Agree(b, r, on)}
           id == IF old = {} THEN st.id ELSE (CHOOSE b \in old : TRUE).id
           new == [r EXCEPT !.id = id]
<1>1. Fits(new, st.table \ old) BY DEF Upserted
<1>2. Upserted(st, r, on).table = (st.table \ old) \cup {new} BY DEF Upserted
<1>3. \A a \in old, b \in old : a = b
  <2> SUFFICES ASSUME NEW a \in old, NEW b \in old, a # b PROVE FALSE OBVIOUS
  <2>1. Agree(a, b, on) BY DEF Agree
  <2> QED BY <2>1, Apart
<1>4. id \in Nat /\ \A b \in old : b.id = id
  <2>1. \A b \in old : b.id \in Nat BY DEF Sound
  <2>2. CASE old = {} BY <2>2
  <2>3. CASE old # {}
    <3>1. (CHOOSE b \in old : TRUE) \in old BY <2>3
    <3> HIDE DEF old
    <3> QED BY <1>3, <2>1, <2>3, <3>1
  <2> QED BY <2>2, <2>3
<1> HIDE DEF id
<1>5. Proper(new) /\ new.id = id /\ new.table = r.table
  <2>1. DOMAIN r = {"table", "id", "key", "refs", "gone"} BY DEF Proper
  <2> QED BY <2>1, RowWithId DEF Proper
<1> HIDE DEF new
<1>6. \A b \in old : b.table = new.table /\ b.id = new.id BY <1>4, <1>5
<1>7. old \in SUBSET st.table OBVIOUS
<1> HIDE DEF old
<1>8. Sound((st.table \ old) \cup {new}) BY <1>1, <1>4, <1>5, <1>6, <1>7, Replaced
<1> QED BY <1>2, <1>8

First(t) == [table |-> rows, id |-> nextId[t], ok |-> TRUE]
Steps(done, t, batch, on, N) ==
  [i \in 0..N |-> IF i = 0 THEN First(t) ELSE Upserted(done[i-1], batch[i], on)]

LEMMA StepsExist ==
  ASSUME NEW t, NEW batch, NEW on, NEW N \in Nat
  PROVE  \E done : done = Steps(done, t, batch, on, N)
<1> DEFINE Is(done, M) == done = Steps(done, t, batch, on, M)
           Bad == {m \in Nat : ~\E done : Is(done, m)}
<1> SUFFICES ASSUME N \in Bad PROVE FALSE OBVIOUS
<1>1. PICK m \in Bad : \A k \in Bad : m <= k BY LeastNumber
<1>2. CASE m = 0
  <2> DEFINE done == [i \in 0..0 |-> First(t)]
  <2>1. Is(done, 0) BY DEF Steps
  <2> QED BY <1>2, <2>1
<1>3. CASE m # 0
  <2>1. m - 1 \in Nat /\ m - 1 \notin Bad BY <1>1, <1>3
  <2>2. PICK f : Is(f, m - 1) BY <2>1
  <2> DEFINE done == [i \in 0..m |-> IF i < m THEN f[i] ELSE Upserted(f[m-1], batch[m], on)]
  <2>3. ASSUME NEW i \in 0..m PROVE done[i] = IF i = 0 THEN First(t) ELSE Upserted(done[i-1], batch[i], on)
    <3>1. CASE i = m
      <4>1. m - 1 \in 0..m /\ m - 1 < m BY <2>1
      <4>2. done[m - 1] = f[m - 1] BY <4>1
      <4>3. done[i] = Upserted(f[m-1], batch[m], on) BY <3>1
      <4> HIDE DEF done
      <4> QED BY <1>3, <3>1, <4>2, <4>3
    <3>2. CASE i # m
      <4>1. i \in 0..(m - 1) /\ i < m BY <3>2, <1>3
      <4>2. f[i] = IF i = 0 THEN First(t) ELSE Upserted(f[i-1], batch[i], on) BY <2>2, <4>1 DEF Steps
      <4>3. i # 0 => i - 1 \in 0..m /\ i - 1 < m BY <4>1
      <4>4. i # 0 => done[i - 1] = f[i - 1] BY <4>3
      <4>5. done[i] = f[i] BY <4>1
      <4> HIDE DEF done
      <4> QED BY <4>2, <4>4, <4>5
    <3> QED BY <3>1, <3>2
  <2>4. done = [i \in 0..m |-> done[i]] OBVIOUS
  <2>5. Is(done, m)
    <3> HIDE DEF done
    <3> QED BY <2>3, <2>4 DEF Steps
  <2> QED BY <2>5
<1> QED BY <1>2, <1>3

(* A batch that goes through row by row leaves a sound table.              *)
LEMMA AllUpsertedIsSound ==
  ASSUME Sound(rows), NEW t \in DOMAIN Unique, nextId[t] \in Nat, NEW batch, Len(batch) \in Nat,
         \A i \in 1..Len(batch) : Proper(batch[i]) /\ batch[i].table = t
  PROVE  LET done == AllUpserted(t, batch, Unique[t])
         IN  done.id \in Nat /\ (done.ok => Sound(done.table))
<1> DEFINE N == Len(batch)
           on == Unique[t]
           done == CHOOSE d : d = Steps(d, t, batch, on, N)
<1>1. AllUpserted(t, batch, on) = done[N] BY DEF AllUpserted, Steps, First
<1>2. done = Steps(done, t, batch, on, N) BY StepsExist
<1> HIDE DEF done
<1>3. done[0] = First(t) /\ \A i \in 1..N : done[i] = Upserted(done[i-1], batch[i], on)
  <2>1. 0 \in 0..N /\ \A i \in 1..N : i \in 0..N /\ i # 0 OBVIOUS
  <2> QED BY <1>2, <2>1 DEF Steps
<1> DEFINE Good(i) == done[i].id \in Nat /\ (done[i].ok => Sound(done[i].table))
<1>4. Good(0) BY <1>3 DEF First
<1>5. ASSUME NEW i \in 1..N, Good(i-1) PROVE Good(i)
  <2> DEFINE st == done[i-1] next == Upserted(st, batch[i], on)
  <2>1. done[i] = next BY <1>3
  <2>2. next.id = st.id + 1 /\ (next.ok => st.ok) BY DEF Upserted
  <2>3. ASSUME next.ok PROVE Sound(next.table)
    <3>1. Sound(st.table) /\ st.id \in Nat BY <1>5, <2>2, <2>3
    <3>2. Proper(batch[i]) /\ batch[i].table = t OBVIOUS
    <3> QED BY <2>3, <3>1, <3>2, UpsertedIsSound
  <2> HIDE DEF next
  <2> QED BY <1>5, <2>1, <2>2, <2>3
<1>6. \A i \in 0..N : Good(i)
  <2> SUFFICES ASSUME NEW k \in 0..N, ~Good(k) PROVE FALSE OBVIOUS
  <2> DEFINE Bad == {i \in 0..N : ~Good(i)}
  <2>1. Bad \in SUBSET Nat /\ Bad # {} OBVIOUS
  <2> HIDE DEF Bad
  <2>2. PICK m \in Bad : \A i \in Bad : m <= i BY <2>1, LeastNumber
  <2>3. m \in 0..N /\ ~Good(m) BY <2>2 DEF Bad
  <2> HIDE DEF Good
  <2>4. m \in 1..N BY <1>4, <2>3
  <2>5. m - 1 \in 0..N /\ ~(m <= m - 1) BY <2>4
  <2>6. Good(m-1) BY <2>2, <2>5 DEF Bad
  <2> QED BY <1>5, <2>3, <2>4, <2>6
<1> QED BY <1>1, <1>6

LEMMA UpsertsKeep ==
  ASSUME TablesInv, NEW w \in Officers, NEW t \in DOMAIN Unique, NEW batch, Len(batch) \in Nat,
         \A i \in 1..Len(batch) : Proper(batch[i]) /\ batch[i].table = t,
         NEW todo \in Ending, Upserts(w, t, batch, Unique[t], todo)
  PROVE  TablesInv'
<1> DEFINE done == AllUpserted(t, batch, Unique[t])
<1>1. t \in shelf BY DEF Upserts, Asked
<1>2. done.id \in Nat /\ (done.ok => Sound(done.table)) BY <1>1, AllUpsertedIsSound DEF TablesInv
<1>3. /\ nextId' = [nextId EXCEPT ![t] = done.id]
      /\ IF done.ok THEN Commit(done.table) /\ Left(w, todo, None) ELSE Commit(rows) /\ Done(w)
  BY DEF Upserts
<1> HIDE DEF done
<1>4. DOMAIN nextId' = shelf /\ \A u \in shelf : nextId'[u] \in Nat BY <1>2, <1>3 DEF TablesInv
<1>5. CASE done.ok BY <1>2, <1>3, <1>4, <1>5, Commits
<1>6. CASE ~done.ok BY <1>3, <1>4, <1>6, Refused
<1> QED BY <1>5, <1>6

LEMMA BatchRows ==
  /\ \A batch \in Bodies["availability"] :
       LET b == [i \in DOMAIN batch |-> AvailabilityRow(batch[i])]
       IN  Len(b) \in Nat /\ \A i \in 1..Len(b) : Proper(b[i]) /\ b[i].table = "availability"
  /\ \A batch \in Bodies["allocations"] :
       LET b == [i \in DOMAIN batch |-> AllocationRow(batch[i])]
       IN  Len(b) \in Nat /\ \A i \in 1..Len(b) : Proper(b[i]) /\ b[i].table = "allocations"
<1>1. ASSUME NEW batch \in Bodies["availability"]
      PROVE  LET b == [i \in DOMAIN batch |-> AvailabilityRow(batch[i])]
             IN  Len(b) \in Nat /\ \A i \in 1..Len(b) : Proper(b[i]) /\ b[i].table = "availability"
  <2> DEFINE b == [i \in DOMAIN batch |-> AvailabilityRow(batch[i])]
  <2>1. batch \in Seq(Range(batch)) /\ \A i \in DOMAIN batch : BodySound("availability", batch[i])
    BY TablesConstants DEF Batches
  <2>2. Len(batch) \in Nat /\ DOMAIN batch = 1..Len(batch) BY <2>1, LenProperties
  <2>3. ASSUME NEW i \in DOMAIN batch PROVE Proper(b[i]) /\ b[i].table = "availability"
    <3>1. batch[i].key \in Nat /\ Refers("availability", batch[i].refs)
      BY <2>1 DEF BodySound
    <3>2. New(AvailabilityRow(batch[i]), "availability") BY <3>1, KeysAreNumbers, RowIsProper DEF AvailabilityRow, New
    <3> QED BY <3>2 DEF New
  <2>4. b \in Seq({b[i] : i \in DOMAIN batch})
    <3> DEFINE S == {b[i] : i \in DOMAIN batch}
    <3>1. b \in [1..Len(batch) -> S] BY <2>2
    <3> HIDE DEF S, b
    <3> QED BY <2>2, <3>1
  <2>5. DOMAIN b = 1..Len(b) /\ Len(b) \in Nat BY <2>4, LenProperties
  <2>6. DOMAIN b = DOMAIN batch OBVIOUS
  <2> HIDE DEF b
  <2>7. \A i \in 1..Len(b) : Proper(b[i]) /\ b[i].table = "availability" BY <2>3, <2>5, <2>6
  <2> QED BY <2>5, <2>7 DEF b
<1>2. ASSUME NEW batch \in Bodies["allocations"]
      PROVE  LET b == [i \in DOMAIN batch |-> AllocationRow(batch[i])]
             IN  Len(b) \in Nat /\ \A i \in 1..Len(b) : Proper(b[i]) /\ b[i].table = "allocations"
  <2> DEFINE b == [i \in DOMAIN batch |-> AllocationRow(batch[i])]
  <2>1. batch \in Seq(Range(batch)) /\ \A i \in DOMAIN batch : BodySound("allocations", batch[i])
    BY TablesConstants DEF Batches
  <2>2. Len(batch) \in Nat /\ DOMAIN batch = 1..Len(batch) BY <2>1, LenProperties
  <2>3. ASSUME NEW i \in DOMAIN batch PROVE Proper(b[i]) /\ b[i].table = "allocations"
    <3>1. batch[i].key \in Nat /\ Refers("allocations", batch[i].refs)
      BY <2>1 DEF BodySound
    <3>2. New(AllocationRow(batch[i]), "allocations") BY <3>1, KeysAreNumbers, RowIsProper DEF AllocationRow, New
    <3> QED BY <3>2 DEF New
  <2>4. b \in Seq({b[i] : i \in DOMAIN batch})
    <3> DEFINE S == {b[i] : i \in DOMAIN batch}
    <3>1. b \in [1..Len(batch) -> S] BY <2>2
    <3> HIDE DEF S, b
    <3> QED BY <2>2, <3>1
  <2>5. DOMAIN b = 1..Len(b) /\ Len(b) \in Nat BY <2>4, LenProperties
  <2>6. DOMAIN b = DOMAIN batch OBVIOUS
  <2> HIDE DEF b
  <2>7. \A i \in 1..Len(b) : Proper(b[i]) /\ b[i].table = "allocations" BY <2>3, <2>5, <2>6
  <2> QED BY <2>5, <2>7 DEF b
<1> QED BY <1>1, <1>2

LEMMA RoomWritesKeep ==
  ASSUME TablesInv, NEW w \in Officers, RoomWrites(w)
  PROVE  TablesInv'
<1>0. <<>> \in Ending /\ <<"announce">> \in Ending BY DEF Ending
<1>1. ASSUME NEW b \in Bodies["campuses"], PostCampus(w, b) PROVE TablesInv'
  BY <1>0, <1>1, RoomRows, CreatesKeep DEF PostCampus
<1>2. ASSUME NEW b \in Bodies["campuses"], NEW r \in RowsOf("campuses"), PutCampus(w, r, b) PROVE TablesInv'
  BY <1>0, <1>2, RoomRows, FindsKeep DEF PutCampus
<1>3. ASSUME SaveCampus(w) PROVE TablesInv' BY <1>3, SavesKeep DEF SaveCampus
<1>4. ASSUME NEW r \in RowsOf("campuses"), DeleteCampus(w, r) PROVE TablesInv'
  BY <1>0, <1>4, DeletesKeep DEF DeleteCampus
<1>5. ASSUME NEW b \in Bodies["locations"], PostLocation(w, b) PROVE TablesInv'
  BY <1>0, <1>5, RoomRows, CreatesKeep DEF PostLocation
<1>6. ASSUME NEW b \in Bodies["locations"], NEW r \in RowsOf("locations"), PutLocation(w, r, b) PROVE TablesInv'
  BY <1>0, <1>6, RoomRows, FindsKeep DEF PutLocation
<1>7. ASSUME SaveLocation(w) PROVE TablesInv' BY <1>7, SavesKeep DEF SaveLocation
<1>8. ASSUME NEW r \in RowsOf("locations"), DeleteLocation(w, r) PROVE TablesInv'
  BY <1>0, <1>8, DeletesKeep DEF DeleteLocation
<1>9. ASSUME NEW b \in Bodies["types"], PostType(w, b) PROVE TablesInv'
  BY <1>0, <1>9, RoomRows, CreatesKeep DEF PostType
<1>10. ASSUME NEW b \in Bodies["types"], NEW r \in RowsOf("types"), PutType(w, r, b) PROVE TablesInv'
  BY <1>0, <1>10, RoomRows, FindsKeep DEF PutType
<1>11. ASSUME SaveType(w) PROVE TablesInv' BY <1>11, SavesKeep DEF SaveType
<1>12. ASSUME NEW r \in RowsOf("types"), DeleteType(w, r) PROVE TablesInv'
  BY <1>0, <1>12, DeletesKeep DEF DeleteType
<1>13. ASSUME NEW b \in Bodies["preferences"], PostPreference(w, b) PROVE TablesInv'
  BY <1>0, <1>13, RoomRows, CreatesKeep DEF PostPreference
<1>14. ASSUME NEW b \in Bodies["preferences"], NEW r \in RowsOf("preferences"), PutPreference(w, r, b) PROVE TablesInv'
  BY <1>0, <1>14, RoomRows, FindsKeep DEF PutPreference
<1>15. ASSUME SavePreference(w) PROVE TablesInv' BY <1>15, SavesKeep DEF SavePreference
<1>16. ASSUME NEW r \in RowsOf("preferences"), DeletePreference(w, r) PROVE TablesInv'
  BY <1>0, <1>16, DeletesKeep DEF DeletePreference
<1>17. ASSUME NEW b \in Bodies["requests"], PostRequest(w, b) PROVE TablesInv'
  BY <1>0, <1>17, RoomRows, CreatesKeep DEF PostRequest
<1>18. ASSUME NEW b \in Bodies["requests"], NEW r \in RowsOf("requests"), PutRequest(w, r, b) PROVE TablesInv'
  BY <1>0, <1>18, RoomRows, FindsKeep DEF PutRequest
<1>19. ASSUME SaveRequest(w) PROVE TablesInv' BY <1>19, SavesKeep DEF SaveRequest
<1>20. ASSUME NEW r \in RowsOf("requests"), DeleteRequest(w, r) PROVE TablesInv'
  BY <1>0, <1>20, DeletesKeep DEF DeleteRequest
<1>21. ASSUME NEW b \in Bodies["links"], PostLink(w, b) PROVE TablesInv'
  BY <1>0, <1>21, RoomRows, CreatesKeep DEF PostLink
<1>22. ASSUME NEW r \in RowsOf("links"), DeleteLink(w, r) PROVE TablesInv'
  BY <1>0, <1>22, DeletesKeep DEF DeleteLink
<1>23. ASSUME NEW batch \in Bodies["availability"], PutAvailability(w, batch) PROVE TablesInv'
  <2> DEFINE new == [i \in DOMAIN batch |-> AvailabilityRow(batch[i])]
  <2>1. Len(new) \in Nat /\ \A i \in 1..Len(new) : Proper(new[i]) /\ new[i].table = "availability" BY BatchRows
  <2>2. Upserts(w, "availability", new, {"key", "location"}, <<>>) BY <1>23 DEF PutAvailability
  <2>3. "availability" \in DOMAIN Unique /\ Unique["availability"] = {"key", "location"} BY UniqueIs
  <2> HIDE DEF new
  <2>4. Upserts(w, "availability", new, Unique["availability"], <<>>) BY <2>2, <2>3
  <2> QED BY <1>0, <2>1, <2>3, <2>4, UpsertsKeep
<1>24. ASSUME NEW r \in RowsOf("availability"), DeleteAvailability(w, r) PROVE TablesInv'
  BY <1>0, <1>24, DeletesKeep DEF DeleteAvailability
<1> QED BY <1>1, <1>2, <1>3, <1>4, <1>5, <1>6, <1>7, <1>8, <1>9, <1>10, <1>11, <1>12, <1>13, <1>14, <1>15, <1>16, <1>17, <1>18, <1>19, <1>20, <1>21, <1>22, <1>23, <1>24 DEF RoomWrites

LEMMA PlanWritesKeep ==
  ASSUME TablesInv, NEW w \in Officers, PlanWrites(w)
  PROVE  TablesInv'
<1>0. <<>> \in Ending /\ <<"announce">> \in Ending BY DEF Ending
<1>1. ASSUME NEW b \in Bodies["activities"], PostActivity(w, b) PROVE TablesInv'
  BY <1>0, <1>1, PlanRows, CreatesKeep DEF PostActivity
<1>2. ASSUME NEW b \in Bodies["activities"], NEW r \in RowsOf("activities"), PutActivity(w, r, b) PROVE TablesInv'
  BY <1>0, <1>2, PlanRows, FindsKeep DEF PutActivity
<1>3. ASSUME SaveActivity(w) PROVE TablesInv' BY <1>3, SavesKeep DEF SaveActivity
<1>4. ASSUME NEW r \in RowsOf("activities"), DeleteActivity(w, r) PROVE TablesInv'
  BY <1>0, <1>4, DeletesKeep DEF DeleteActivity
<1>5. ASSUME NEW b \in Bodies["constraints"], PostConstraint(w, b) PROVE TablesInv'
  BY <1>0, <1>5, PlanRows, CreatesKeep DEF PostConstraint
<1>6. ASSUME NEW b \in Bodies["constraints"], NEW r \in RowsOf("constraints"), PutConstraint(w, r, b) PROVE TablesInv'
  BY <1>0, <1>6, PlanRows, FindsKeep DEF PutConstraint
<1>7. ASSUME SaveConstraint(w) PROVE TablesInv' BY <1>7, SavesKeep DEF SaveConstraint
<1>8. ASSUME NEW r \in RowsOf("constraints"), DeleteConstraint(w, r) PROVE TablesInv'
  BY <1>0, <1>8, DeletesKeep DEF DeleteConstraint
<1>9. ASSUME NEW b \in Bodies["replacements"], PostReplacement(w, b) PROVE TablesInv'
  BY <1>0, <1>9, PlanRows, CreatesKeep DEF PostReplacement
<1>10. ASSUME NEW b \in Bodies["replacements"], NEW r \in RowsOf("replacements"), PutReplacement(w, r, b) PROVE TablesInv'
  BY <1>0, <1>10, PlanRows, FindsKeep DEF PutReplacement
<1>11. ASSUME SaveReplacement(w) PROVE TablesInv' BY <1>11, SavesKeep DEF SaveReplacement
<1>12. ASSUME NEW r \in RowsOf("replacements"), DeleteReplacement(w, r) PROVE TablesInv'
  BY <1>0, <1>12, DeletesKeep DEF DeleteReplacement
<1>13. ASSUME NEW b \in Bodies["days"], PostDay(w, b) PROVE TablesInv'
  BY <1>0, <1>13, PlanRows, CreatesKeep DEF PostDay
<1>14. ASSUME NEW b \in Bodies["days"], NEW r \in RowsOf("days"), PutDay(w, r, b) PROVE TablesInv'
  BY <1>0, <1>14, PlanRows, FindsKeep DEF PutDay
<1>15. ASSUME SaveDay(w) PROVE TablesInv' BY <1>15, SavesKeep DEF SaveDay
<1>16. ASSUME NEW r \in RowsOf("days"), DeleteDay(w, r) PROVE TablesInv'
  BY <1>0, <1>16, DeletesKeep DEF DeleteDay
<1>17. ASSUME NEW b \in Bodies["events"], PostEvent(w, b) PROVE TablesInv'
  BY <1>0, <1>17, PlanRows, CreatesKeep DEF PostEvent
<1>18. ASSUME NEW b \in Bodies["events"], NEW r \in RowsOf("events"), PutEvent(w, r, b) PROVE TablesInv'
  BY <1>0, <1>18, PlanRows, FindsKeep DEF PutEvent
<1>19. ASSUME SaveEvent(w) PROVE TablesInv' BY <1>19, SavesKeep DEF SaveEvent
<1>20. ASSUME NEW r \in RowsOf("events"), DeleteEvent(w, r) PROVE TablesInv'
  BY <1>0, <1>20, DeletesKeep DEF DeleteEvent
<1>21. ASSUME NEW b \in Bodies["overlays"], FindOverlay(w, b) PROVE TablesInv'
  <2>1. UNCHANGED <<shelf, rows, nextId>> /\ "overlays" \in shelf BY <1>21 DEF FindOverlay, Asked
  <2>2. DOMAIN officer' = Officers /\ \A v \in Officers : Waits(officer[v])'
    <3>1. CASE Left(w, <<"create", "announce">>, OverlayRow(b))
      BY <2>1, <3>1, PlanRows, GoesOn DEF New
    <3>2. ASSUME NEW r \in RowsOf("overlays"), Left(w, <<"save", "announce">>, r)
          PROVE  DOMAIN officer' = Officers /\ \A v \in Officers : Waits(officer[v])'
      <4>1. Proper(r) /\ r.id \in Nat BY DEF RowsOf, TablesInv, Sound
      <4>2. <<"save", "announce">> \in Saving BY DEF Saving
      <4> QED BY <2>1, <3>2, <4>1, <4>2, GoesOn
    <3> QED BY <1>21, <3>1, <3>2 DEF FindOverlay
  <2>3. Sound(rows)' BY <2>1 DEF TablesInv
  <2> QED BY <2>1, <2>2, <2>3 DEF TablesInv
<1>22. ASSUME CreateOverlay(w) PROVE TablesInv'
  <2>1. officer[w].todo = <<"create", "announce">>
    BY <1>22, Todos DEF CreateOverlay, At, TablesInv, Waits
  <2>2. /\ Proper(officer[w].row) /\ officer[w].row.id \in Nat \cup {None}
        /\ officer[w].row.table \in shelf
    BY <2>1 DEF TablesInv, Waits
  <2>3. Tail(officer[w].todo) \in Ending BY <1>0, <2>1, Todos
  <2> QED BY <1>22, <2>2, <2>3, InsertKeeps DEF CreateOverlay
<1>23. ASSUME SaveOverlay(w) PROVE TablesInv' BY <1>23, SavesKeep DEF SaveOverlay
<1> QED BY <1>1, <1>2, <1>3, <1>4, <1>5, <1>6, <1>7, <1>8, <1>9, <1>10, <1>11, <1>12, <1>13, <1>14, <1>15, <1>16, <1>17, <1>18, <1>19, <1>20, <1>21, <1>22, <1>23 DEF PlanWrites

LEMMA PeopleWritesKeep ==
  ASSUME TablesInv, NEW w \in Officers, PeopleWrites(w)
  PROVE  TablesInv'
<1>0. <<>> \in Ending /\ <<"announce">> \in Ending BY DEF Ending
<1>1. ASSUME NEW b \in Bodies["teachers"], PostTeacher(w, b) PROVE TablesInv'
  <2> DEFINE batch == <<TeacherRow(None, b)>>
  <2>1. New(TeacherRow(None, b), "teachers") BY OtherRows
  <2>2. Len(batch) \in Nat /\ \A i \in 1..Len(batch) : Proper(batch[i]) /\ batch[i].table = "teachers"
    BY <2>1 DEF New
  <2>3. Upserts(w, "teachers", batch, {"key"}, <<>>) BY <1>1 DEF PostTeacher
  <2>4. "teachers" \in DOMAIN Unique /\ Unique["teachers"] = {"key"} BY UniqueIs
  <2> HIDE DEF batch
  <2>5. Upserts(w, "teachers", batch, Unique["teachers"], <<>>) BY <2>3, <2>4
  <2> QED BY <1>0, <2>2, <2>4, <2>5, UpsertsKeep
<1>2. ASSUME NEW b \in Bodies["teachers"], NEW r \in RowsOf("teachers"), PutTeacher(w, r, b)
      PROVE  TablesInv'
  <2>1. r \in rows /\ r.table = "teachers" /\ r.id \in Nat BY DEF RowsOf, TablesInv, Sound
  <2>2. New(TeacherRow(r.id, b), "teachers") /\ TeacherRow(r.id, b).id = r.id BY <2>1, OtherRows
  <2> QED BY <1>0, <1>2, <2>1, <2>2, UpdatesKeep DEF PutTeacher, New
<1>3. ASSUME NEW r \in RowsOf("teachers"), DeleteTeacher(w, r) PROVE TablesInv'
  BY <1>0, <1>3, HidesKeep DEF DeleteTeacher
<1>4. ASSUME NEW b \in Bodies["teaches"], PostTeaches(w, b) PROVE TablesInv'
  <2> DEFINE batch == <<TeachesRow(b)>>
  <2>1. New(TeachesRow(b), "teaches") BY OtherRows
  <2>2. Len(batch) \in Nat /\ \A i \in 1..Len(batch) : Proper(batch[i]) /\ batch[i].table = "teaches"
    BY <2>1 DEF New
  <2>3. Upserts(w, "teaches", batch, {"teacher", "subject"}, <<>>) BY <1>4 DEF PostTeaches
  <2>4. "teaches" \in DOMAIN Unique /\ Unique["teaches"] = {"teacher", "subject"} BY UniqueIs
  <2> HIDE DEF batch
  <2>5. Upserts(w, "teaches", batch, Unique["teaches"], <<>>) BY <2>3, <2>4
  <2> QED BY <1>0, <2>2, <2>4, <2>5, UpsertsKeep
<1>5. ASSUME NEW r \in RowsOf("teaches"), DeleteTeaches(w, r) PROVE TablesInv'
  BY <1>0, <1>5, DeletesKeep DEF DeleteTeaches
<1>6. ASSUME NEW b \in Bodies["subjects"], PostSubject(w, b) PROVE TablesInv'
  BY <1>0, <1>6, OtherRows, CreatesKeep DEF PostSubject
<1>7. ASSUME NEW b \in Bodies["subjects"], NEW r \in RowsOf("subjects"), PutSubject(w, r, b) PROVE TablesInv'
  BY <1>0, <1>7, OtherRows, FindsKeep DEF PutSubject
<1>8. ASSUME SaveSubject(w) PROVE TablesInv' BY <1>8, SavesKeep DEF SaveSubject
<1>9. ASSUME RestoreSubject(w) PROVE TablesInv' BY <1>9, RestoresKeep DEF RestoreSubject
<1>10. ASSUME NEW r \in RowsOf("subjects"), DeleteSubject(w, r) PROVE TablesInv'
  BY <1>0, <1>10, HidesKeep DEF DeleteSubject
<1>11. ASSUME NEW r \in RowsOf("groups"), DeleteGroup(w, r) PROVE TablesInv'
  BY <1>0, <1>11, DeletesKeep DEF DeleteGroup
<1> QED BY <1>1, <1>2, <1>3, <1>4, <1>5, <1>6, <1>7, <1>8, <1>9, <1>10, <1>11 DEF PeopleWrites

LEMMA CurriculumWritesKeep ==
  ASSUME TablesInv, NEW w \in Officers, CurriculumWrites(w)
  PROVE  TablesInv'
<1>0. <<>> \in Ending /\ <<"announce">> \in Ending BY DEF Ending
<1>1. ASSUME NEW b \in Bodies["specialties"], PostSpecialty(w, b) PROVE TablesInv'
  BY <1>0, <1>1, OtherRows, CreatesKeep DEF PostSpecialty
<1>2. ASSUME NEW b \in Bodies["specialties"], NEW r \in RowsOf("specialties"), PutSpecialty(w, r, b) PROVE TablesInv'
  BY <1>0, <1>2, OtherRows, FindsKeep DEF PutSpecialty
<1>3. ASSUME SaveSpecialty(w) PROVE TablesInv' BY <1>3, SavesKeep DEF SaveSpecialty
<1>4. ASSUME NEW r \in RowsOf("specialties"), DeleteSpecialty(w, r) PROVE TablesInv'
  BY <1>0, <1>4, DeletesKeep DEF DeleteSpecialty
<1>5. ASSUME NEW b \in Bodies["curricula"], PostCurriculum(w, b) PROVE TablesInv'
  BY <1>0, <1>5, OtherRows, CreatesKeep DEF PostCurriculum
<1>6. ASSUME NEW b \in Bodies["curricula"], NEW r \in RowsOf("curricula"), PutCurriculum(w, r, b) PROVE TablesInv'
  BY <1>0, <1>6, OtherRows, FindsKeep DEF PutCurriculum
<1>7. ASSUME SaveCurriculum(w) PROVE TablesInv' BY <1>7, SavesKeep DEF SaveCurriculum
<1>8. ASSUME RestoreCurriculum(w) PROVE TablesInv' BY <1>8, RestoresKeep DEF RestoreCurriculum
<1>9. ASSUME NEW r \in RowsOf("curricula"), DeleteCurriculum(w, r) PROVE TablesInv'
  BY <1>0, <1>9, HidesKeep DEF DeleteCurriculum
<1>10. ASSUME NEW b \in Bodies["items"], PostItem(w, b) PROVE TablesInv'
  BY <1>0, <1>10, OtherRows, CreatesKeep DEF PostItem
<1>11. ASSUME NEW b \in Bodies["items"], NEW r \in RowsOf("items"), PutItem(w, r, b) PROVE TablesInv'
  BY <1>0, <1>11, OtherRows, FindsKeep DEF PutItem
<1>12. ASSUME SaveItem(w) PROVE TablesInv' BY <1>12, SavesKeep DEF SaveItem
<1>13. ASSUME NEW r \in RowsOf("items"), DeleteItem(w, r) PROVE TablesInv'
  BY <1>0, <1>13, DeletesKeep DEF DeleteItem
<1>14. ASSUME NEW batch \in Bodies["allocations"], PutAllocations(w, batch) PROVE TablesInv'
  <2> DEFINE new == [i \in DOMAIN batch |-> AllocationRow(batch[i])]
  <2>1. Len(new) \in Nat /\ \A i \in 1..Len(new) : Proper(new[i]) /\ new[i].table = "allocations" BY BatchRows
  <2>2. Upserts(w, "allocations", new, {"item", "key"}, <<"announce">>) BY <1>14 DEF PutAllocations
  <2>3. "allocations" \in DOMAIN Unique /\ Unique["allocations"] = {"item", "key"} BY UniqueIs
  <2> HIDE DEF new
  <2>4. Upserts(w, "allocations", new, Unique["allocations"], <<"announce">>) BY <2>2, <2>3
  <2> QED BY <1>0, <2>1, <2>3, <2>4, UpsertsKeep
<1> QED BY <1>1, <1>2, <1>3, <1>4, <1>5, <1>6, <1>7, <1>8, <1>9, <1>10, <1>11, <1>12, <1>13, <1>14 DEF CurriculumWrites

-----------------------------------------------------------------------------
(* Lists: an order that tells rows apart, by their id or by what no two    *)
(* rows share, is total.                                                   *)
Derived == {"id", "key", "latest", "day", "slot"}
InScope(r, t, scope) == r.table = t /\ (scope = None \/ r.refs[scope.column] = scope.id)
Orderly(t, order, scope) ==
  \A T : Sound(T) =>
    \A a \in T, b \in T :
      InScope(a, t, scope) /\ InScope(b, t, scope) /\ a # b =>
        Before(a, b, order) \/ Before(b, a, order)

LEMMA ColumnsAreNumbers ==
  ASSUME NEW r, Proper(r), r.id \in Nat, NEW c \in Derived \cup Identifying(r.table)
  PROVE  Column(r, c) \in Int
BY DEF Column, Proper, Refers, Derived

LEMMA FirstDifference ==
  ASSUME NEW a, NEW b, NEW order, NEW n \in Nat, DOMAIN order = 1..n,
         \A i \in 1..n : Column(a, order[i]) \in Int /\ Column(b, order[i]) \in Int,
         NEW k \in 1..n, Column(a, order[k]) # Column(b, order[k])
  PROVE  Before(a, b, order) \/ Before(b, a, order)
<1> DEFINE S == {i \in 1..n : Column(a, order[i]) # Column(b, order[i])}
<1>1. S \in SUBSET Nat /\ S # {} OBVIOUS
<1> HIDE DEF S
<1>2. PICK m \in S : \A i \in S : m <= i BY <1>1, LeastNumber
<1>3. m \in 1..n /\ Column(a, order[m]) # Column(b, order[m]) BY <1>2 DEF S
<1>4. \A j \in 1..(m-1) : j \in 1..n /\ ~(m <= j) BY <1>3
<1>5. \A j \in 1..(m-1) : Column(a, order[j]) = Column(b, order[j]) BY <1>2, <1>4 DEF S
<1>6. Column(a, order[m]) < Column(b, order[m]) \/ Column(b, order[m]) < Column(a, order[m]) BY <1>3
<1> QED BY <1>3, <1>5, <1>6 DEF Before

(* What two rows share when they are equal in an order, within a scope.    *)
Covered(order, n, scope, c) ==
  \/ \E i \in 1..n : order[i] = c
  \/ scope # None /\ scope.column = c /\ c \notin Derived
  \/ c = "key" /\ \E i \in 1..n : order[i] = "latest"
  \/ c = "key" /\ (\E i \in 1..n : order[i] = "day") /\ (\E i \in 1..n : order[i] = "slot")

LEMMA OrderIsTotal ==
  ASSUME NEW t, NEW order, NEW n \in Nat, DOMAIN order = 1..n, NEW scope,
         \A i \in 1..n : order[i] \in Derived \cup Identifying(t),
         \/ \E i \in 1..n : order[i] = "id"
         \/ t \in DOMAIN Unique /\ \A c \in Unique[t] : Covered(order, n, scope, c)
  PROVE  Orderly(t, order, scope)
<1> SUFFICES ASSUME NEW T, Sound(T), NEW a \in T, NEW b \in T,
                    InScope(a, t, scope), InScope(b, t, scope), a # b
             PROVE  Before(a, b, order) \/ Before(b, a, order)
  BY DEF Orderly
<1>1. a.table = t /\ b.table = t BY DEF InScope
<1>2. Proper(a) /\ a.id \in Nat /\ Proper(b) /\ b.id \in Nat BY DEF Sound
<1>3. \A i \in 1..n : Column(a, order[i]) \in Int /\ Column(b, order[i]) \in Int
  BY <1>1, <1>2, ColumnsAreNumbers
<1>4. a.id # b.id /\ (t \in DOMAIN Unique => ~Agree(a, b, Unique[t])) BY <1>1, Apart
<1>5. \E k \in 1..n : Column(a, order[k]) # Column(b, order[k])
  <2> SUFFICES ASSUME \A k \in 1..n : Column(a, order[k]) = Column(b, order[k]) PROVE FALSE
    OBVIOUS
  <2>1. CASE \E i \in 1..n : order[i] = "id" BY <1>4, <2>1 DEF Column
  <2>2. CASE t \in DOMAIN Unique /\ \A c \in Unique[t] : Covered(order, n, scope, c)
    <3>1. ASSUME NEW c \in Unique[t] PROVE Column(a, c) = Column(b, c)
      <4>1. CASE \E i \in 1..n : order[i] = c BY <4>1
      <4>2. CASE scope # None /\ scope.column = c /\ c \notin Derived
        <5>1. a.refs[c] = b.refs[c] BY <4>2 DEF InScope
        <5> QED BY <4>2, <5>1 DEF Column, Derived
      <4>3. CASE c = "key" /\ \E i \in 1..n : order[i] = "latest"
        <5>1. -a.key = -b.key BY <4>3 DEF Column
        <5> QED BY <1>2, <4>3, <5>1 DEF Column, Proper
      <4>4. CASE c = "key" /\ (\E i \in 1..n : order[i] = "day") /\ (\E i \in 1..n : order[i] = "slot")
        <5>1. a.key \div 10 = b.key \div 10 /\ a.key % 10 = b.key % 10 BY <4>4 DEF Column
        <5>2. a.key \in Nat /\ b.key \in Nat BY <1>2 DEF Proper
        <5>3. a.key = b.key BY <5>1, <5>2
        <5> QED BY <4>4, <5>3 DEF Column
      <4> QED BY <2>2, <4>1, <4>2, <4>3, <4>4 DEF Covered
    <3> QED BY <1>4, <2>2, <3>1 DEF Agree
  <2> QED BY <2>1, <2>2
<1> QED BY <1>3, <1>5, FirstDifference

(* Every list that has pages is in such an order.                          *)
LEMMA FreeLists ==
  ASSUME NEW scope
  PROVE  /\ Orderly("campuses", CampusesInOrder, scope)
         /\ Orderly("locations", LocationsInOrder, scope)
         /\ Orderly("types", TypesInOrder, scope)
         /\ Orderly("preferences", PreferencesInOrder, scope)
         /\ Orderly("requests", RequestsInOrder, scope)
         /\ Orderly("availability", AvailabilityInOrder, scope)
         /\ Orderly("assignments", AssignmentsInOrder, scope)
         /\ Orderly("activities", ActivitiesInOrder, scope)
         /\ Orderly("weeks", WeeksInOrder, scope)
         /\ Orderly("constraints", ConstraintsInOrder, scope)
         /\ Orderly("replacements", ReplacementsInOrder, scope)
         /\ Orderly("days", DaysInOrder, scope)
         /\ Orderly("events", EventsInOrder, scope)
         /\ Orderly("teachers", TeachersInOrder, scope)
         /\ Orderly("teaches", TeachesInOrder, scope)
         /\ Orderly("subjects", SubjectsInOrder, scope)
         /\ Orderly("groups", GroupsInOrder, scope)
         /\ Orderly("courses", CoursesInOrder, scope)
         /\ Orderly("specialties", SpecialtiesInOrder, scope)
         /\ Orderly("curricula", CurriculaInOrder, scope)
<1>1. Orderly("campuses", CampusesInOrder, scope)
  <2>1. DOMAIN CampusesInOrder = 1..2 /\ CampusesInOrder[1] = "key" /\ CampusesInOrder[2] = "id"
    BY DEF CampusesInOrder
  <2>2. \A i \in 1..2 : CampusesInOrder[i] \in Derived \cup Identifying("campuses")
    BY <2>1 DEF Derived
  <2>3. 2 \in 1..2 /\ 2 \in Nat OBVIOUS
  <2> QED BY <2>1, <2>2, <2>3, OrderIsTotal
<1>2. Orderly("locations", LocationsInOrder, scope)
  <2>1. DOMAIN LocationsInOrder = 1..1 /\ LocationsInOrder[1] = "id"
    BY DEF LocationsInOrder
  <2>2. \A i \in 1..1 : LocationsInOrder[i] \in Derived \cup Identifying("locations")
    BY <2>1 DEF Derived
  <2>3. 1 \in 1..1 /\ 1 \in Nat OBVIOUS
  <2> QED BY <2>1, <2>2, <2>3, OrderIsTotal
<1>3. Orderly("types", TypesInOrder, scope)
  <2>1. DOMAIN TypesInOrder = 1..2 /\ TypesInOrder[1] = "key" /\ TypesInOrder[2] = "id"
    BY DEF TypesInOrder
  <2>2. \A i \in 1..2 : TypesInOrder[i] \in Derived \cup Identifying("types")
    BY <2>1 DEF Derived
  <2>3. 2 \in 1..2 /\ 2 \in Nat OBVIOUS
  <2> QED BY <2>1, <2>2, <2>3, OrderIsTotal
<1>4. Orderly("preferences", PreferencesInOrder, scope)
  <2>1. DOMAIN PreferencesInOrder = 1..3 /\ PreferencesInOrder[1] = "teacher" /\ PreferencesInOrder[2] = "key" /\ PreferencesInOrder[3] = "id"
    BY DEF PreferencesInOrder
  <2>2. \A i \in 1..3 : PreferencesInOrder[i] \in Derived \cup Identifying("preferences")
    BY <2>1, UniqueIs, IdentifyingIs DEF Derived
  <2>3. 3 \in 1..3 /\ 3 \in Nat OBVIOUS
  <2> QED BY <2>1, <2>2, <2>3, OrderIsTotal
<1>5. Orderly("requests", RequestsInOrder, scope)
  <2>1. DOMAIN RequestsInOrder = 1..2 /\ RequestsInOrder[1] = "key" /\ RequestsInOrder[2] = "id"
    BY DEF RequestsInOrder
  <2>2. \A i \in 1..2 : RequestsInOrder[i] \in Derived \cup Identifying("requests")
    BY <2>1 DEF Derived
  <2>3. 2 \in 1..2 /\ 2 \in Nat OBVIOUS
  <2> QED BY <2>1, <2>2, <2>3, OrderIsTotal
<1>6. Orderly("availability", AvailabilityInOrder, scope)
  <2>1. DOMAIN AvailabilityInOrder = 1..2 /\ AvailabilityInOrder[1] = "latest" /\ AvailabilityInOrder[2] = "location"
    BY DEF AvailabilityInOrder
  <2>2. \A i \in 1..2 : AvailabilityInOrder[i] \in Derived \cup Identifying("availability")
    BY <2>1, UniqueIs, IdentifyingIs DEF Derived
  <2>3. "availability" \in DOMAIN Unique /\ \A c \in Unique["availability"] : Covered(AvailabilityInOrder, 2, scope, c)
    BY <2>1, UniqueIs DEF Covered, Derived
  <2> QED BY <2>1, <2>2, <2>3, OrderIsTotal
<1>7. Orderly("assignments", AssignmentsInOrder, scope)
  <2>1. DOMAIN AssignmentsInOrder = 1..1 /\ AssignmentsInOrder[1] = "id"
    BY DEF AssignmentsInOrder
  <2>2. \A i \in 1..1 : AssignmentsInOrder[i] \in Derived \cup Identifying("assignments")
    BY <2>1 DEF Derived
  <2>3. 1 \in 1..1 /\ 1 \in Nat OBVIOUS
  <2> QED BY <2>1, <2>2, <2>3, OrderIsTotal
<1>8. Orderly("activities", ActivitiesInOrder, scope)
  <2>1. DOMAIN ActivitiesInOrder = 1..2 /\ ActivitiesInOrder[1] = "key" /\ ActivitiesInOrder[2] = "id"
    BY DEF ActivitiesInOrder
  <2>2. \A i \in 1..2 : ActivitiesInOrder[i] \in Derived \cup Identifying("activities")
    BY <2>1 DEF Derived
  <2>3. 2 \in 1..2 /\ 2 \in Nat OBVIOUS
  <2> QED BY <2>1, <2>2, <2>3, OrderIsTotal
<1>9. Orderly("weeks", WeeksInOrder, scope)
  <2>1. DOMAIN WeeksInOrder = 1..2 /\ WeeksInOrder[1] = "group" /\ WeeksInOrder[2] = "key"
    BY DEF WeeksInOrder
  <2>2. \A i \in 1..2 : WeeksInOrder[i] \in Derived \cup Identifying("weeks")
    BY <2>1, UniqueIs, IdentifyingIs DEF Derived
  <2>3. "weeks" \in DOMAIN Unique /\ \A c \in Unique["weeks"] : Covered(WeeksInOrder, 2, scope, c)
    BY <2>1, UniqueIs DEF Covered, Derived
  <2> QED BY <2>1, <2>2, <2>3, OrderIsTotal
<1>10. Orderly("constraints", ConstraintsInOrder, scope)
  <2>1. DOMAIN ConstraintsInOrder = 1..2 /\ ConstraintsInOrder[1] = "key" /\ ConstraintsInOrder[2] = "teacher"
    BY DEF ConstraintsInOrder
  <2>2. \A i \in 1..2 : ConstraintsInOrder[i] \in Derived \cup Identifying("constraints")
    BY <2>1, UniqueIs, IdentifyingIs DEF Derived
  <2>3. "constraints" \in DOMAIN Unique /\ \A c \in Unique["constraints"] : Covered(ConstraintsInOrder, 2, scope, c)
    BY <2>1, UniqueIs DEF Covered, Derived
  <2> QED BY <2>1, <2>2, <2>3, OrderIsTotal
<1>11. Orderly("replacements", ReplacementsInOrder, scope)
  <2>1. DOMAIN ReplacementsInOrder = 1..3 /\ ReplacementsInOrder[1] = "day" /\ ReplacementsInOrder[2] = "group" /\ ReplacementsInOrder[3] = "slot"
    BY DEF ReplacementsInOrder
  <2>2. \A i \in 1..3 : ReplacementsInOrder[i] \in Derived \cup Identifying("replacements")
    BY <2>1, UniqueIs, IdentifyingIs DEF Derived
  <2>3. "replacements" \in DOMAIN Unique /\ \A c \in Unique["replacements"] : Covered(ReplacementsInOrder, 3, scope, c)
    BY <2>1, UniqueIs DEF Covered, Derived
  <2> QED BY <2>1, <2>2, <2>3, OrderIsTotal
<1>12. Orderly("days", DaysInOrder, scope)
  <2>1. DOMAIN DaysInOrder = 1..2 /\ DaysInOrder[1] = "key" /\ DaysInOrder[2] = "id"
    BY DEF DaysInOrder
  <2>2. \A i \in 1..2 : DaysInOrder[i] \in Derived \cup Identifying("days")
    BY <2>1 DEF Derived
  <2>3. 2 \in 1..2 /\ 2 \in Nat OBVIOUS
  <2> QED BY <2>1, <2>2, <2>3, OrderIsTotal
<1>13. Orderly("events", EventsInOrder, scope)
  <2>1. DOMAIN EventsInOrder = 1..2 /\ EventsInOrder[1] = "key" /\ EventsInOrder[2] = "id"
    BY DEF EventsInOrder
  <2>2. \A i \in 1..2 : EventsInOrder[i] \in Derived \cup Identifying("events")
    BY <2>1 DEF Derived
  <2>3. 2 \in 1..2 /\ 2 \in Nat OBVIOUS
  <2> QED BY <2>1, <2>2, <2>3, OrderIsTotal
<1>14. Orderly("teachers", TeachersInOrder, scope)
  <2>1. DOMAIN TeachersInOrder = 1..1 /\ TeachersInOrder[1] = "id"
    BY DEF TeachersInOrder
  <2>2. \A i \in 1..1 : TeachersInOrder[i] \in Derived \cup Identifying("teachers")
    BY <2>1 DEF Derived
  <2>3. 1 \in 1..1 /\ 1 \in Nat OBVIOUS
  <2> QED BY <2>1, <2>2, <2>3, OrderIsTotal
<1>15. Orderly("teaches", TeachesInOrder, scope)
  <2>1. DOMAIN TeachesInOrder = 1..2 /\ TeachesInOrder[1] = "teacher" /\ TeachesInOrder[2] = "subject"
    BY DEF TeachesInOrder
  <2>2. \A i \in 1..2 : TeachesInOrder[i] \in Derived \cup Identifying("teaches")
    BY <2>1, UniqueIs, IdentifyingIs DEF Derived
  <2>3. "teaches" \in DOMAIN Unique /\ \A c \in Unique["teaches"] : Covered(TeachesInOrder, 2, scope, c)
    BY <2>1, UniqueIs DEF Covered, Derived
  <2> QED BY <2>1, <2>2, <2>3, OrderIsTotal
<1>16. Orderly("subjects", SubjectsInOrder, scope)
  <2>1. DOMAIN SubjectsInOrder = 1..1 /\ SubjectsInOrder[1] = "id"
    BY DEF SubjectsInOrder
  <2>2. \A i \in 1..1 : SubjectsInOrder[i] \in Derived \cup Identifying("subjects")
    BY <2>1 DEF Derived
  <2>3. 1 \in 1..1 /\ 1 \in Nat OBVIOUS
  <2> QED BY <2>1, <2>2, <2>3, OrderIsTotal
<1>17. Orderly("groups", GroupsInOrder, scope)
  <2>1. DOMAIN GroupsInOrder = 1..1 /\ GroupsInOrder[1] = "id"
    BY DEF GroupsInOrder
  <2>2. \A i \in 1..1 : GroupsInOrder[i] \in Derived \cup Identifying("groups")
    BY <2>1 DEF Derived
  <2>3. 1 \in 1..1 /\ 1 \in Nat OBVIOUS
  <2> QED BY <2>1, <2>2, <2>3, OrderIsTotal
<1>18. Orderly("courses", CoursesInOrder, scope)
  <2>1. DOMAIN CoursesInOrder = 1..3 /\ CoursesInOrder[1] = "group" /\ CoursesInOrder[2] = "key" /\ CoursesInOrder[3] = "id"
    BY DEF CoursesInOrder
  <2>2. \A i \in 1..3 : CoursesInOrder[i] \in Derived \cup Identifying("courses")
    BY <2>1, UniqueIs, IdentifyingIs DEF Derived
  <2>3. 3 \in 1..3 /\ 3 \in Nat OBVIOUS
  <2> QED BY <2>1, <2>2, <2>3, OrderIsTotal
<1>19. Orderly("specialties", SpecialtiesInOrder, scope)
  <2>1. DOMAIN SpecialtiesInOrder = 1..1 /\ SpecialtiesInOrder[1] = "id"
    BY DEF SpecialtiesInOrder
  <2>2. \A i \in 1..1 : SpecialtiesInOrder[i] \in Derived \cup Identifying("specialties")
    BY <2>1 DEF Derived
  <2>3. 1 \in 1..1 /\ 1 \in Nat OBVIOUS
  <2> QED BY <2>1, <2>2, <2>3, OrderIsTotal
<1>20. Orderly("curricula", CurriculaInOrder, scope)
  <2>1. DOMAIN CurriculaInOrder = 1..3 /\ CurriculaInOrder[1] = "specialty" /\ CurriculaInOrder[2] = "key" /\ CurriculaInOrder[3] = "id"
    BY DEF CurriculaInOrder
  <2>2. \A i \in 1..3 : CurriculaInOrder[i] \in Derived \cup Identifying("curricula")
    BY <2>1, UniqueIs, IdentifyingIs DEF Derived
  <2>3. 3 \in 1..3 /\ 3 \in Nat OBVIOUS
  <2> QED BY <2>1, <2>2, <2>3, OrderIsTotal
<1> QED BY <1>1, <1>2, <1>3, <1>4, <1>5, <1>6, <1>7, <1>8, <1>9, <1>10, <1>11, <1>12, <1>13, <1>14, <1>15, <1>16, <1>17, <1>18, <1>19, <1>20

LEMMA ScopedLists ==
  ASSUME NEW scope, scope # None
  PROVE  /\ scope.column = "curriculum" => Orderly("items", ItemsInOrder, scope)
         /\ scope.column = "item" => Orderly("allocations", AllocationsInOrder, scope)
         /\ scope.column = "curriculum" => Orderly("calendars", CalendarsInOrder, scope)
         /\ scope.column = "calendar" => Orderly("calendarWeeks", CalendarWeeksInOrder, scope)
         /\ scope.column = "calendar" => Orderly("overrides", OverridesInOrder, scope)
<1>1. ASSUME scope.column = "curriculum" PROVE Orderly("items", ItemsInOrder, scope)
  <2>1. DOMAIN ItemsInOrder = 1..1 /\ ItemsInOrder[1] = "id"
    BY DEF ItemsInOrder
  <2>2. \A i \in 1..1 : ItemsInOrder[i] \in Derived \cup Identifying("items")
    BY <2>1 DEF Derived
  <2>3. 1 \in 1..1 /\ 1 \in Nat OBVIOUS
  <2> QED BY <2>1, <2>2, <2>3, OrderIsTotal
<1>2. ASSUME scope.column = "item" PROVE Orderly("allocations", AllocationsInOrder, scope)
  <2>1. DOMAIN AllocationsInOrder = 1..1 /\ AllocationsInOrder[1] = "key"
    BY DEF AllocationsInOrder
  <2>2. \A i \in 1..1 : AllocationsInOrder[i] \in Derived \cup Identifying("allocations")
    BY <2>1, UniqueIs, IdentifyingIs DEF Derived
  <2>3. "allocations" \in DOMAIN Unique /\ \A c \in Unique["allocations"] : Covered(AllocationsInOrder, 1, scope, c)
    BY <2>1, UniqueIs, <1>2 DEF Covered, Derived
  <2> QED BY <2>1, <2>2, <2>3, OrderIsTotal
<1>3. ASSUME scope.column = "curriculum" PROVE Orderly("calendars", CalendarsInOrder, scope)
  <2>1. DOMAIN CalendarsInOrder = 1..1 /\ CalendarsInOrder[1] = "key"
    BY DEF CalendarsInOrder
  <2>2. \A i \in 1..1 : CalendarsInOrder[i] \in Derived \cup Identifying("calendars")
    BY <2>1, UniqueIs, IdentifyingIs DEF Derived
  <2>3. "calendars" \in DOMAIN Unique /\ \A c \in Unique["calendars"] : Covered(CalendarsInOrder, 1, scope, c)
    BY <2>1, UniqueIs, <1>3 DEF Covered, Derived
  <2> QED BY <2>1, <2>2, <2>3, OrderIsTotal
<1>4. ASSUME scope.column = "calendar" PROVE Orderly("calendarWeeks", CalendarWeeksInOrder, scope)
  <2>1. DOMAIN CalendarWeeksInOrder = 1..2 /\ CalendarWeeksInOrder[1] = "day" /\ CalendarWeeksInOrder[2] = "slot"
    BY DEF CalendarWeeksInOrder
  <2>2. \A i \in 1..2 : CalendarWeeksInOrder[i] \in Derived \cup Identifying("calendarWeeks")
    BY <2>1, UniqueIs, IdentifyingIs DEF Derived
  <2>3. "calendarWeeks" \in DOMAIN Unique /\ \A c \in Unique["calendarWeeks"] : Covered(CalendarWeeksInOrder, 2, scope, c)
    BY <2>1, UniqueIs, <1>4 DEF Covered, Derived
  <2> QED BY <2>1, <2>2, <2>3, OrderIsTotal
<1>5. ASSUME scope.column = "calendar" PROVE Orderly("overrides", OverridesInOrder, scope)
  <2>1. DOMAIN OverridesInOrder = 1..1 /\ OverridesInOrder[1] = "key"
    BY DEF OverridesInOrder
  <2>2. \A i \in 1..1 : OverridesInOrder[i] \in Derived \cup Identifying("overrides")
    BY <2>1, UniqueIs, IdentifyingIs DEF Derived
  <2>3. "overrides" \in DOMAIN Unique /\ \A c \in Unique["overrides"] : Covered(OverridesInOrder, 1, scope, c)
    BY <2>1, UniqueIs, <1>5 DEF Covered, Derived
  <2> QED BY <2>1, <2>2, <2>3, OrderIsTotal
<1> QED BY <1>1, <1>2, <1>3, <1>4, <1>5

-----------------------------------------------------------------------------
(* Pages.  Of a total order, the first rows are the same each time.        *)
LEMMA SamePrefix ==
  ASSUME NEW L, IsFiniteSet(L), NEW U \in SUBSET L, NEW Q \in SUBSET L, Prefix(U, L), Prefix(Q, L),
         Cardinality(U) = Cardinality(Q),
         \A a \in L, b \in L : a # b => Before(a, b, page.order) \/ Before(b, a, page.order)
  PROVE  U = Q
<1>1. IsFiniteSet(U) /\ IsFiniteSet(Q) BY FS_Subset
<1> SUFFICES ASSUME U # Q PROVE FALSE OBVIOUS
<1>2. ~(U \subseteq Q) /\ ~(Q \subseteq U) BY <1>1, FS_Subset
<1>3. PICK a \in U, b \in Q : a \notin Q /\ b \notin U BY <1>2
<1>4. ~Before(b, a, page.order) /\ ~Before(a, b, page.order) BY <1>3 DEF Prefix
<1> QED BY <1>3, <1>4

(* Rows that the tree can be built of.                                     *)
Distinct(S) ==
  /\ IsFiniteSet(S)
  /\ \A r \in S : r.id \in Nat
  /\ \A a \in S, b \in S : a.id = b.id => a = b

IsSeq(s) == s \in Seq(Range(s))
Fields == {"table", "order", "scope", "limit", "got", "offset", "calm"}

(* What a client has got, while the table stays as it is, are the first    *)
(* rows of its list; and what it gets is always made of rows that were     *)
(* there together.                                                         *)
GotFirst(p) ==
  LET all == Listed(p.table, p.scope)
      U == UNION Range(p.got)
  IN  /\ U \subseteq all /\ Prefix(U, all)
      /\ p.offset = Cardinality(U)
      /\ p.got # <<>> /\ Last(p.got) = {} => U = all
PageInv ==
  page # None =>
    /\ DOMAIN page = Fields
    /\ Orderly(page.table, page.order, page.scope)
    /\ page.limit \in Nat \ {0}
    /\ IsSeq(page.got) /\ \A i \in DOMAIN page.got : Distinct(page.got[i])
    /\ page.calm => GotFirst(page)

LEMMA ListedSound ==
  ASSUME Sound(rows), NEW t, NEW scope
  PROVE  /\ Distinct(Listed(t, scope))
         /\ \A r \in Listed(t, scope) : r \in rows /\ InScope(r, t, scope)
<1>1. Listed(t, scope) \in SUBSET rows /\ \A r \in Listed(t, scope) : r.table = t BY DEF Listed, RowsOf
<1>2. IsFiniteSet(Listed(t, scope)) BY <1>1, FS_Subset DEF Sound
<1>3. \A a \in Listed(t, scope), b \in Listed(t, scope) : a.id = b.id => a = b BY <1>1, Apart
<1>4. \A r \in Listed(t, scope) : r.id \in Nat BY <1>1 DEF Sound
<1> QED BY <1>1, <1>2, <1>3, <1>4 DEF Distinct, InScope, Listed

LEMMA DistinctSubset ==
  ASSUME NEW S, Distinct(S), NEW P \in SUBSET S
  PROVE  Distinct(P)
BY FS_Subset DEF Distinct

LEMMA AppendIs ==
  ASSUME NEW s, IsSeq(s), NEW x
  PROVE  LET a == Append(s, x)
         IN  /\ IsSeq(a) /\ Range(a) = Range(s) \cup {x}
             /\ \A i \in DOMAIN a : a[i] = x \/ (i \in DOMAIN s /\ a[i] = s[i])
             /\ a # <<>> /\ Last(a) = x
<1> DEFINE a == Append(s, x)
           S == Range(s) \cup {x}
           n == Len(s)
<1>1. s \in Seq(S) /\ n \in Nat /\ DOMAIN s = 1..n
  <2>1. n \in Nat /\ DOMAIN s = 1..n /\ s \in [1..n -> Range(s)] BY LenProperties DEF IsSeq
  <2>2. s \in [1..n -> S] BY <2>1
  <2> QED BY <2>1, <2>2
<1>2. /\ a \in Seq(S) /\ Len(a) = n + 1 /\ a # <<>>
      /\ \A i \in 1..n : a[i] = s[i]
      /\ a[n + 1] = x
  BY <1>1, AppendProperties
<1>3. DOMAIN a = 1..(n + 1) BY <1>1, <1>2, LenProperties
<1> HIDE DEF a, S
<1>4. \A i \in DOMAIN a : a[i] = x \/ (i \in DOMAIN s /\ a[i] = s[i])
  <2>1. \A i \in 1..(n + 1) : i = n + 1 \/ i \in 1..n BY <1>1
  <2> QED BY <1>1, <1>2, <1>3, <2>1
<1>5. Range(a) = Range(s) \cup {x}
  <2>1. \A i \in 1..n : i \in 1..(n + 1) BY <1>1
  <2>2. n + 1 \in 1..(n + 1) BY <1>1
  <2> QED BY <1>1, <1>2, <1>3, <1>4, <2>1, <2>2 DEF Range
<1>6. IsSeq(a) BY <1>2, <1>5 DEF IsSeq, S
<1>7. Last(a) = x BY <1>2 DEF Last
<1> QED BY <1>2, <1>4, <1>5, <1>6, <1>7 DEF a

LEMMA PagesGoOn ==
  ASSUME Sound(rows), PageInv, NextPage
  PROVE  PageInv'
<1> DEFINE all == Listed(page.table, page.scope)
           U == UNION Range(page.got)
<1>1. page # None /\ rows' = rows BY DEF NextPage
<1>2. PICK P \in applyLimitOffset(all, page.offset, page.limit) :
        page' = [page EXCEPT !.got = Append(@, P), !.offset = @ + Cardinality(P)]
  BY DEF NextPage
<1>3. PICK Q \in SUBSET (all \ P) :
        /\ P \in SUBSET all
        /\ Prefix(Q, all) /\ Prefix(Q \cup P, all)
        /\ Cardinality(Q) = (IF page.offset < Cardinality(all) THEN page.offset ELSE Cardinality(all))
        /\ Cardinality(P) = (IF page.limit < Cardinality(all \ Q) THEN page.limit ELSE Cardinality(all \ Q))
  BY <1>2 DEF applyLimitOffset
<1>4. DOMAIN page = Fields BY <1>1 DEF PageInv
<1>5. /\ DOMAIN page' = Fields
      /\ page'.table = page.table /\ page'.order = page.order /\ page'.scope = page.scope
      /\ page'.limit = page.limit /\ page'.calm = page.calm
      /\ page'.got = Append(page.got, P) /\ page'.offset = page.offset + Cardinality(P)
  BY <1>2, <1>4 DEF Fields
<1>6. /\ IsSeq(page'.got) /\ Range(page'.got) = Range(page.got) \cup {P}
      /\ \A i \in DOMAIN page'.got :
           page'.got[i] = P \/ (i \in DOMAIN page.got /\ page'.got[i] = page.got[i])
      /\ page'.got # <<>> /\ Last(page'.got) = P
  BY <1>1, <1>5, AppendIs DEF PageInv
<1>7. Listed(page.table, page.scope)' = all BY <1>1, <1>5 DEF Listed, RowsOf
<1>8. Distinct(P) BY <1>3, ListedSound, DistinctSubset
<1>9. ASSUME page.calm PROVE GotFirst(page)'
  <2>1. U \subseteq all /\ Prefix(U, all) /\ page.offset = Cardinality(U)
    BY <1>1, <1>9 DEF PageInv, GotFirst
  <2>2. IsFiniteSet(all) BY ListedSound DEF Distinct
  <2>3. IsFiniteSet(U) /\ IsFiniteSet(P) /\ IsFiniteSet(Q) /\ IsFiniteSet(all \ Q)
    BY <1>3, <2>1, <2>2, FS_Subset
  <2>4. /\ Cardinality(U) \in Nat /\ Cardinality(P) \in Nat /\ Cardinality(all) \in Nat
        /\ Cardinality(all \ Q) \in Nat /\ Cardinality(U) <= Cardinality(all)
    BY <2>1, <2>2, <2>3, FS_CardinalityType, FS_Subset
  <2>5. Cardinality(Q) = Cardinality(U) BY <1>3, <2>1, <2>4
  <2>6. U = Q
    <3>1. \A a \in all, b \in all : a # b => Before(a, b, page.order) \/ Before(b, a, page.order)
      BY <1>1, ListedSound DEF PageInv, Orderly
    <3>2. Q \in SUBSET all BY <1>3
    <3> HIDE DEF U, all
    <3> QED BY <1>3, <2>1, <2>2, <2>5, <3>1, <3>2, SamePrefix
  <2>7. UNION Range(page'.got) = U \cup P BY <1>6
  <2>8. page'.offset = Cardinality(U \cup P)
    <3>1. U \cap P = {} BY <1>3, <2>6
    <3>2. Cardinality(U \cap P) = 0 BY <3>1, FS_EmptySet
    <3>3. Cardinality(U \cup P) = Cardinality(U) + Cardinality(P) - Cardinality(U \cap P)
      BY <2>3, FS_Union
    <3> QED BY <1>5, <2>1, <2>4, <3>2, <3>3
  <2>9. \A a \in all \ (U \cup P), b \in U \cup P : ~Before(a, b, page'.order)
    BY <1>3, <1>5, <2>6 DEF Prefix
  <2>10. ASSUME P = {} PROVE U \cup P = all
    <3>1. Cardinality(P) = 0 BY <2>10, FS_EmptySet
    <3>2. page.limit \in Nat \ {0} BY <1>1 DEF PageInv
    <3>3. Cardinality(all \ Q) = 0 BY <1>3, <2>4, <3>1, <3>2
    <3>4. all \ Q = {} BY <2>3, <3>3, FS_EmptySet
    <3> QED BY <2>1, <2>6, <2>10, <3>4
  <2>11. U \cup P \subseteq all BY <1>3, <2>1
  <2> HIDE DEF U, all
  <2> QED BY <1>5, <1>6, <1>7, <2>7, <2>8, <2>9, <2>10, <2>11 DEF GotFirst, Prefix
<1>10. \A i \in DOMAIN page'.got : Distinct(page'.got[i]) BY <1>1, <1>6, <1>8 DEF PageInv
<1>11. Orderly(page.table, page.order, page.scope)' 
  <2>1. Orderly(page.table, page.order, page.scope) BY <1>1 DEF PageInv
  <2> QED BY <1>5, <2>1 DEF Orderly
<1>12. page'.limit \in Nat \ {0} BY <1>1, <1>5 DEF PageInv
<1> QED BY <1>5, <1>6, <1>9, <1>10, <1>11, <1>12 DEF PageInv

LEMMA CommitKeepsPage ==
  ASSUME Sound(rows), PageInv, Commit(rows')
  PROVE  PageInv'
<1> SUFFICES ASSUME page' # None PROVE PageInv' BY DEF PageInv
<1>1. page # None BY DEF Commit
<1> DEFINE same == RowsOf(page.table) = {r \in rows' : r.table = page.table}
<1>2. DOMAIN page = Fields BY <1>1 DEF PageInv
<1>3. /\ DOMAIN page' = Fields
      /\ page'.table = page.table /\ page'.order = page.order /\ page'.scope = page.scope
      /\ page'.limit = page.limit /\ page'.got = page.got /\ page'.offset = page.offset
      /\ page'.calm = (page.calm /\ same)
  BY <1>1, <1>2 DEF Commit, Fields
<1>4. ASSUME page'.calm PROVE GotFirst(page)'
  <2>1. page.calm /\ same BY <1>3, <1>4
  <2>2. Listed(page.table, page.scope)' = Listed(page.table, page.scope)
    BY <1>3, <2>1 DEF Listed, RowsOf
  <2>3. GotFirst(page) BY <1>1, <2>1 DEF PageInv
  <2> QED BY <1>3, <2>2, <2>3 DEF GotFirst, Prefix
<1>5. /\ Orderly(page.table, page.order, page.scope) /\ page.limit \in Nat \ {0}
      /\ IsSeq(page.got) /\ \A i \in DOMAIN page.got : Distinct(page.got[i])
  BY <1>1 DEF PageInv
<1> QED BY <1>3, <1>4, <1>5 DEF PageInv

LEMMA ListBegins ==
  ASSUME NEW t, NEW order, NEW scope, Lists(t, order, scope), Orderly(t, order, scope)
  PROVE  PageInv'
<1> SUFFICES ASSUME page' # None PROVE PageInv' BY DEF PageInv
<1>1. PICK limit \in Limits :
        page' = [table |-> t, order |-> order, scope |-> scope, limit |-> parseLimitOffset(limit),
                 got |-> <<>>, offset |-> 0, calm |-> TRUE]
  BY DEF Lists
<1>2. /\ DOMAIN page' = Fields /\ page'.table = t /\ page'.order = order /\ page'.scope = scope
      /\ page'.limit = parseLimitOffset(limit) /\ page'.got = <<>> /\ page'.offset = 0
  BY <1>1 DEF Fields
<1>3. parseLimitOffset(limit) \in Nat \ {0} BY TablesConstants DEF parseLimitOffset
<1>4. IsSeq(<<>>) /\ DOMAIN <<>> = {} /\ Range(<<>>) = {} BY DEF IsSeq, Range
<1>5. GotFirst(page)'
  <2>1. UNION Range(page'.got) = {} BY <1>2, <1>4
  <2>2. Cardinality({}) = 0 BY FS_EmptySet
  <2> QED BY <1>2, <2>1, <2>2 DEF GotFirst, Prefix
<1> QED BY <1>2, <1>3, <1>4, <1>5 DEF PageInv

(* Every request commits a table or leaves the rows and the page alone.    *)
Quiet == Commit(rows') \/ UNCHANGED <<shelf, rows, page>>

LEMMA OperationsAreQuiet ==
  ASSUME NEW w
  PROVE  /\ \A r, todo : Creates(w, r, todo) => Quiet
         /\ \A old, new, todo : Finds(w, old, new, todo) => Quiet
         /\ \A t : Saves(w, t) => Quiet
         /\ \A t : Restores(w, t) => Quiet
         /\ \A old, new, todo : Updates(w, old, new, todo) => Quiet
         /\ \A r, todo : Hides(w, r, todo) => Quiet
         /\ \A r, todo : Deletes(w, r, todo) => Quiet
         /\ \A t, batch, on, todo : Upserts(w, t, batch, on, todo) => Quiet
         /\ \A b : FindOverlay(w, b) => Quiet
         /\ CreateOverlay(w) => Quiet
<1>1. \A table : Commit(table) => Quiet BY DEF Commit, Quiet
<1>2. \A r, todo : Inserts(w, r, todo) => Quiet BY <1>1 DEF Inserts
<1>3. \A r, todo : Creates(w, r, todo) => Quiet BY <1>2 DEF Creates
<1>4. \A old, new, todo : Finds(w, old, new, todo) => Quiet BY DEF Finds, Quiet
<1>5. \A t : Saves(w, t) => Quiet BY <1>1 DEF Saves
<1>6. \A t : Restores(w, t) => Quiet BY <1>1 DEF Restores
<1>7. \A old, new, todo : Updates(w, old, new, todo) => Quiet BY <1>1 DEF Updates
<1>8. \A r, todo : Hides(w, r, todo) => Quiet BY <1>7 DEF Hides
<1>9. \A r, todo : Deletes(w, r, todo) => Quiet BY <1>1 DEF Deletes
<1>10. \A t, batch, on, todo : Upserts(w, t, batch, on, todo) => Quiet BY <1>1 DEF Upserts
<1>11. \A b : FindOverlay(w, b) => Quiet BY DEF FindOverlay, Quiet
<1>12. CreateOverlay(w) => Quiet BY <1>2 DEF CreateOverlay
<1> QED BY <1>3, <1>4, <1>5, <1>6, <1>7, <1>8, <1>9, <1>10, <1>11, <1>12

LEMMA WritesAreQuiet ==
  ASSUME NEW w, RoomWrites(w) \/ PlanWrites(w) \/ PeopleWrites(w) \/ CurriculumWrites(w)
  PROVE  Quiet
<1>1. RoomWrites(w) => Quiet
  BY OperationsAreQuiet
  DEF RoomWrites, PostCampus, PutCampus, SaveCampus, DeleteCampus, PostLocation, PutLocation,
      SaveLocation, DeleteLocation, PostType, PutType, SaveType, DeleteType, PostLink, DeleteLink,
      PostPreference, PutPreference, SavePreference, DeletePreference, PostRequest, PutRequest,
      SaveRequest, DeleteRequest, PutAvailability, DeleteAvailability
<1>2. PlanWrites(w) => Quiet
  BY OperationsAreQuiet
  DEF PlanWrites, PostActivity, PutActivity, SaveActivity, DeleteActivity, PostConstraint,
      PutConstraint, SaveConstraint, DeleteConstraint, PostReplacement, PutReplacement,
      SaveReplacement, DeleteReplacement, PostDay, PutDay, SaveDay, DeleteDay, PostEvent, PutEvent,
      SaveEvent, DeleteEvent, SaveOverlay
<1>3. PeopleWrites(w) => Quiet
  BY OperationsAreQuiet
  DEF PeopleWrites, PostTeacher, PutTeacher, DeleteTeacher, PostTeaches, DeleteTeaches, PostSubject,
      PutSubject, SaveSubject, RestoreSubject, DeleteSubject, DeleteGroup
<1>4. CurriculumWrites(w) => Quiet
  BY OperationsAreQuiet
  DEF CurriculumWrites, PostSpecialty, PutSpecialty, SaveSpecialty, DeleteSpecialty, PostCurriculum,
      PutCurriculum, SaveCurriculum, RestoreCurriculum, DeleteCurriculum, PostItem, PutItem, SaveItem,
      DeleteItem, PutAllocations
<1> QED BY <1>1, <1>2, <1>3, <1>4

LEMMA ListsBegin ==
  ASSUME RoomLists \/ PlanLists \/ PeopleLists \/ CurriculumLists
  PROVE  PageInv'
<1>1. RoomLists => PageInv'
  BY FreeLists, ListBegins
  DEF RoomLists, ListCampuses, ListLocations, ListTypes, ListPreferences, ListRequests,
      ListAvailability, ListRoomAssignments
<1>2. PlanLists => PageInv'
  BY FreeLists, ListBegins
  DEF PlanLists, ListActivities, ListWeeks, ListConstraints, ListReplacements, ListDays, ListEvents
<1>3. PeopleLists => PageInv'
  BY FreeLists, ListBegins
  DEF PeopleLists, ListTeachers, ListTeaches, ListSubjects, ListGroups, ListCourses
<1>4. ASSUME CurriculumLists PROVE PageInv'
  <2>1. \A t, c : \A s \in Scopes(t, c) \ {None} : s # None /\ s.column = c BY DEF Scopes
  <2>2. CASE ListSpecialties \/ ListCurricula
    BY <2>2, FreeLists, ListBegins DEF ListSpecialties, ListCurricula
  <2>3. CASE ListItems BY <2>1, <2>3, ScopedLists, ListBegins DEF ListItems
  <2>4. CASE ListAllocations BY <2>1, <2>4, ScopedLists, ListBegins DEF ListAllocations
  <2>5. CASE ListCalendars BY <2>1, <2>5, ScopedLists, ListBegins DEF ListCalendars
  <2>6. CASE ListCalendarWeeks BY <2>1, <2>6, ScopedLists, ListBegins DEF ListCalendarWeeks
  <2>7. CASE ListOverrides BY <2>1, <2>7, ScopedLists, ListBegins DEF ListOverrides
  <2> QED BY <1>4, <2>2, <2>3, <2>4, <2>5, <2>6, <2>7 DEF CurriculumLists
<1> QED BY <1>1, <1>2, <1>3, <1>4

LEMMA PageStays ==
  ASSUME PageInv, UNCHANGED <<rows, page>>
  PROVE  PageInv'
<1>1. \A t, s : Listed(t, s)' = Listed(t, s) BY DEF Listed, RowsOf
<1> QED BY <1>1 DEF PageInv, GotFirst, Prefix

LEMMA PagesKeep == TablesInv /\ PageInv /\ [TablesNext]_tableVars => PageInv'
<1> SUFFICES ASSUME TablesInv, PageInv, [TablesNext]_tableVars PROVE PageInv' OBVIOUS
<1>1. Sound(rows) BY DEF TablesInv
<1>2. CASE UNCHANGED tableVars BY <1>2, PageStays DEF tableVars
<1>3. ASSUME NEW w \in Officers, RoomWrites(w) \/ PlanWrites(w) \/ PeopleWrites(w) \/ CurriculumWrites(w)
      PROVE  PageInv'
  BY <1>1, <1>3, WritesAreQuiet, CommitKeepsPage, PageStays DEF Quiet
<1>4. ASSUME NEW w \in Officers, Announces(w) PROVE PageInv' BY <1>4, PageStays DEF Announces
<1>5. CASE RoomLists \/ PlanLists \/ PeopleLists \/ CurriculumLists BY <1>5, ListsBegin
<1>6. CASE NextPage BY <1>1, <1>6, PagesGoOn
<1> QED BY <1>2, <1>3, <1>4, <1>5, <1>6 DEF TablesNext

-----------------------------------------------------------------------------
(* The tree of items.  Below is one more level of it, Above leads from an  *)
(* id to the id of the parent.                                             *)
Below(items, above) == above \cup UNION {Children(items, r) : r \in above}
Above(items, id) ==
  LET at == {p \in items : p.id = id /\ Parent(p) # p.id}
  IN  IF at = {} THEN None ELSE Parent(CHOOSE p \in at : TRUE)
Levels(items, shown, N) == [n \in 0..N |-> IF n = 0 THEN Roots(items) ELSE Below(items, shown[n-1])]
Ups(items, up, id, N) == [n \in 0..N |-> IF n = 0 THEN id ELSE Above(items, up[n-1])]

LEMMA LevelsExist ==
  ASSUME NEW items, NEW N \in Nat
  PROVE  \E shown : shown = Levels(items, shown, N)
<1> DEFINE Is(shown, M) == shown = Levels(items, shown, M)
           Bad == {m \in Nat : ~\E shown : Is(shown, m)}
<1> SUFFICES ASSUME N \in Bad PROVE FALSE OBVIOUS
<1>1. PICK m \in Bad : \A k \in Bad : m <= k BY LeastNumber
<1>2. CASE m = 0
  <2> DEFINE shown == [n \in 0..0 |-> Roots(items)]
  <2>1. Is(shown, 0) BY DEF Levels
  <2> QED BY <1>2, <2>1
<1>3. CASE m # 0
  <2>1. m - 1 \in Nat /\ m - 1 \notin Bad BY <1>1, <1>3
  <2>2. PICK f : Is(f, m - 1) BY <2>1
  <2> DEFINE shown == [n \in 0..m |-> IF n < m THEN f[n] ELSE Below(items, f[m - 1])]
  <2>3. ASSUME NEW n \in 0..m PROVE shown[n] = IF n = 0 THEN Roots(items) ELSE Below(items, shown[n-1])
    <3>1. CASE n = m
      <4>1. m - 1 \in 0..m /\ m - 1 < m BY <2>1
      <4>2. shown[m - 1] = f[m - 1] BY <4>1
      <4>3. shown[n] = Below(items, f[m - 1]) BY <3>1
      <4> HIDE DEF shown
      <4> QED BY <1>3, <3>1, <4>2, <4>3
    <3>2. CASE n # m
      <4>1. n \in 0..(m - 1) /\ n < m BY <3>2, <1>3
      <4>2. f[n] = IF n = 0 THEN Roots(items) ELSE Below(items, f[n-1]) BY <2>2, <4>1 DEF Levels
      <4>3. n # 0 => n - 1 \in 0..m /\ n - 1 < m BY <4>1
      <4>4. n # 0 => shown[n - 1] = f[n - 1] BY <4>3
      <4>5. shown[n] = f[n] BY <4>1
      <4> HIDE DEF shown
      <4> QED BY <4>2, <4>4, <4>5
    <3> QED BY <3>1, <3>2
  <2>4. shown = [n \in 0..m |-> shown[n]] OBVIOUS
  <2>5. Is(shown, m)
    <3> HIDE DEF shown
    <3> QED BY <2>3, <2>4 DEF Levels
  <2> QED BY <2>5
<1> QED BY <1>2, <1>3

LEMMA UpsExist ==
  ASSUME NEW items, NEW id, NEW N \in Nat
  PROVE  \E up : up = Ups(items, up, id, N)
<1> DEFINE Is(up, M) == up = Ups(items, up, id, M)
           Bad == {m \in Nat : ~\E up : Is(up, m)}
<1> SUFFICES ASSUME N \in Bad PROVE FALSE OBVIOUS
<1>1. PICK m \in Bad : \A k \in Bad : m <= k BY LeastNumber
<1>2. CASE m = 0
  <2> DEFINE up == [n \in 0..0 |-> id]
  <2>1. Is(up, 0) BY DEF Ups
  <2> QED BY <1>2, <2>1
<1>3. CASE m # 0
  <2>1. m - 1 \in Nat /\ m - 1 \notin Bad BY <1>1, <1>3
  <2>2. PICK f : Is(f, m - 1) BY <2>1
  <2> DEFINE up == [n \in 0..m |-> IF n < m THEN f[n] ELSE Above(items, f[m - 1])]
  <2>3. ASSUME NEW n \in 0..m PROVE up[n] = IF n = 0 THEN id ELSE Above(items, up[n-1])
    <3>1. CASE n = m
      <4>1. m - 1 \in 0..m /\ m - 1 < m BY <2>1
      <4>2. up[m - 1] = f[m - 1] BY <4>1
      <4>3. up[n] = Above(items, f[m - 1]) BY <3>1
      <4> HIDE DEF up
      <4> QED BY <1>3, <3>1, <4>2, <4>3
    <3>2. CASE n # m
      <4>1. n \in 0..(m - 1) /\ n < m BY <3>2, <1>3
      <4>2. f[n] = IF n = 0 THEN id ELSE Above(items, f[n-1]) BY <2>2, <4>1 DEF Ups
      <4>3. n # 0 => n - 1 \in 0..m /\ n - 1 < m BY <4>1
      <4>4. n # 0 => up[n - 1] = f[n - 1] BY <4>3
      <4>5. up[n] = f[n] BY <4>1
      <4> HIDE DEF up
      <4> QED BY <4>2, <4>4, <4>5
    <3> QED BY <3>1, <3>2
  <2>4. up = [n \in 0..m |-> up[n]] OBVIOUS
  <2>5. Is(up, m)
    <3> HIDE DEF up
    <3> QED BY <2>3, <2>4 DEF Ups
  <2> QED BY <2>5
<1> QED BY <1>2, <1>3

(* The way up from an item, as long as an answer of the tree can need.     *)
WayUp(items, id) == CHOOSE up : up = Ups(items, up, id, Cardinality(items) + 1)

LEMMA WayUpIs ==
  ASSUME NEW items, IsFiniteSet(items), NEW id
  PROVE  /\ WayUp(items, id)[0] = id
         /\ \A n \in 0..Cardinality(items) : WayUp(items, id)[n + 1] = Above(items, WayUp(items, id)[n])
<1> DEFINE N == Cardinality(items)
           up == WayUp(items, id)
<1>1. N \in Nat BY FS_CardinalityType
<1>2. up = Ups(items, up, id, N + 1) BY <1>1, UpsExist DEF WayUp
<1> HIDE DEF up, N
<1>3. 0 \in 0..(N+1) /\ \A n \in 0..N : n + 1 \in 0..(N+1) /\ n + 1 # 0 /\ (n + 1) - 1 = n BY <1>1
<1>4. up[0] = id BY <1>2, <1>3 DEF Ups
<1>5. \A n \in 0..N : up[n + 1] = Above(items, up[n]) BY <1>2, <1>3 DEF Ups
<1> QED BY <1>4, <1>5 DEF up, N

LEMMA ParentAbove ==
  ASSUME NEW items, Distinct(items)
  PROVE  /\ \A r \in items : Above(items, r.id) = IF Parent(r) = r.id THEN None ELSE Parent(r)
         /\ \A id : (\A p \in items : p.id # id) => Above(items, id) = None
         /\ Above(items, None) = None
<1>1. ASSUME NEW r \in items PROVE Above(items, r.id) = IF Parent(r) = r.id THEN None ELSE Parent(r)
  <2> DEFINE at == {p \in items : p.id = r.id /\ Parent(p) # p.id}
  <2>1. \A p \in at : p = r BY DEF Distinct
  <2>2. CASE Parent(r) = r.id BY <2>1, <2>2 DEF Above
  <2>3. CASE Parent(r) # r.id
    <3>1. r \in at BY <2>3
    <3>2. Above(items, r.id) = Parent(CHOOSE p \in at : TRUE) BY <3>1 DEF Above
    <3> HIDE DEF at
    <3> QED BY <2>1, <2>3, <3>1, <3>2
  <2> QED BY <2>2, <2>3
<1>2. \A id : (\A p \in items : p.id # id) => Above(items, id) = None BY DEF Above
<1>3. \A p \in items : p.id # None BY TablesConstants DEF Distinct
<1> QED BY <1>1, <1>2, <1>3

LEMMA WayUpShifts ==
  ASSUME NEW items, Distinct(items), NEW r \in items, NEW q \in items, Above(items, r.id) = q.id
  PROVE  \A n \in 0..Cardinality(items) : WayUp(items, r.id)[n + 1] = WayUp(items, q.id)[n]
<1> DEFINE N == Cardinality(items)
           up == WayUp(items, r.id)
           upq == WayUp(items, q.id)
           Bad == {n \in 0..N : up[n + 1] # upq[n]}
<1>1. N \in Nat BY FS_CardinalityType DEF Distinct
<1>2. /\ up[0] = r.id /\ upq[0] = q.id
      /\ \A n \in 0..N : up[n + 1] = Above(items, up[n]) /\ upq[n + 1] = Above(items, upq[n])
  BY WayUpIs DEF Distinct
<1> HIDE DEF up, upq, N
<1> SUFFICES ASSUME Bad # {} PROVE FALSE BY DEF up, upq, N
<1>3. Bad \in SUBSET Nat BY <1>1
<1> HIDE DEF Bad
<1>4. PICK m \in Bad : \A i \in Bad : m <= i BY <1>3, LeastNumber
<1>5. m \in 0..N /\ up[m + 1] # upq[m] BY <1>4 DEF Bad
<1>6. CASE m = 0
  <2>1. up[0 + 1] = Above(items, up[0]) BY <1>2, <1>5, <1>6
  <2> QED BY <1>2, <1>5, <1>6, <2>1
<1>7. CASE m # 0
  <2>1. m - 1 \in 0..N /\ ~(m <= m - 1) /\ (m - 1) + 1 = m BY <1>1, <1>5, <1>7
  <2>2. up[(m - 1) + 1] = upq[m - 1] BY <1>4, <2>1 DEF Bad
  <2>3. upq[(m - 1) + 1] = Above(items, upq[m - 1]) BY <1>2, <2>1
  <2> QED BY <1>2, <1>5, <2>1, <2>2, <2>3
<1> QED BY <1>6, <1>7

(* An item is on a level if the way up from it ends there or one above.    *)
LEMMA TreeShows ==
  ASSUME NEW items, Distinct(items)
  PROVE  TreeOf(items)
<1> DEFINE N == Cardinality(items)
           shown == CHOOSE s : s = Levels(items, s, N)
           up(r) == WayUp(items, r.id)
<1>1. N \in Nat BY FS_CardinalityType DEF Distinct
<1>2. buildCurriculumItemTree(items) = shown[N] BY DEF buildCurriculumItemTree, Levels, Below
<1>3. \A r : ParentsEnd(items, r) <=> up(r)[N + 1] = None BY DEF ParentsEnd, WayUp, Ups, Above
<1>4. shown = Levels(items, shown, N) BY <1>1, LevelsExist
<1> HIDE DEF shown
<1>5. shown[0] = Roots(items) /\ \A n \in 1..N : shown[n] = Below(items, shown[n-1])
  <2>1. 0 \in 0..N /\ \A n \in 1..N : n \in 0..N /\ n # 0 BY <1>1
  <2> QED BY <1>4, <2>1 DEF Levels
<1>6. \A r \in items : /\ up(r)[0] = r.id
                       /\ \A n \in 0..N : up(r)[n + 1] = Above(items, up(r)[n])
  BY WayUpIs DEF Distinct
<1>7. \A r \in items, q \in items :
        Above(items, r.id) = q.id => \A n \in 0..N : up(r)[n + 1] = up(q)[n]
  BY WayUpShifts
<1> HIDE DEF up, N
<1>8. \A r \in items, n \in 0..N : up(r)[n] = None => up(r)[n + 1] = None
  BY <1>6, ParentAbove
<1>9. /\ \A X \in SUBSET items : Below(items, X) \in SUBSET items /\ X \subseteq Below(items, X)
      /\ Roots(items) \in SUBSET items
  BY DEF Below, Children, Roots
<1>10. \A n \in 0..N : /\ shown[n] \in SUBSET items
                       /\ Below(items, shown[n]) = shown[n] \/ Cardinality(shown[n]) > n
  <2> DEFINE Good(n) == /\ shown[n] \in SUBSET items
                        /\ Below(items, shown[n]) = shown[n] \/ Cardinality(shown[n]) > n
  <2>1. Good(0)
    <3>1. IsFiniteSet(Roots(items)) BY <1>9, FS_Subset DEF Distinct
    <3>2. CASE Roots(items) = {} BY <1>5, <1>9, <3>2 DEF Below
    <3>3. CASE Roots(items) # {}
      <4>1. Cardinality(Roots(items)) \in Nat /\ Cardinality(Roots(items)) # 0
        BY <3>1, <3>3, FS_CardinalityType, FS_EmptySet
      <4> QED BY <1>5, <1>9, <4>1
    <3> QED BY <3>2, <3>3
  <2>2. ASSUME NEW n \in 1..N, Good(n-1) PROVE Good(n)
    <3>1. shown[n] = Below(items, shown[n-1]) /\ n-1 \in Nat BY <1>1, <1>5, <2>2
    <3>2. shown[n] \in SUBSET items /\ shown[n-1] \subseteq shown[n] BY <1>9, <2>2, <3>1
    <3>3. CASE Below(items, shown[n-1]) = shown[n-1] BY <2>2, <3>1, <3>2, <3>3
    <3>4. CASE shown[n] # shown[n-1] /\ Cardinality(shown[n-1]) > n-1
      <4>1. IsFiniteSet(shown[n]) BY <3>2, FS_Subset DEF Distinct
      <4>2. /\ IsFiniteSet(shown[n-1]) /\ Cardinality(shown[n-1]) <= Cardinality(shown[n])
            /\ Cardinality(shown[n-1]) # Cardinality(shown[n])
        BY <3>2, <3>4, <4>1, FS_Subset
      <4>3. Cardinality(shown[n]) \in Nat /\ Cardinality(shown[n-1]) \in Nat
        BY <4>1, <4>2, FS_CardinalityType
      <4>4. Cardinality(shown[n]) > n BY <3>1, <3>4, <4>2, <4>3
      <4> QED BY <3>2, <4>4
    <3> QED BY <2>2, <3>1, <3>3, <3>4
  <2> SUFFICES ASSUME NEW k \in 0..N, ~Good(k) PROVE FALSE OBVIOUS
  <2> DEFINE Bad == {n \in 0..N : ~Good(n)}
  <2>3. Bad \in SUBSET Nat /\ Bad # {} BY <1>1
  <2> HIDE DEF Bad
  <2>4. PICK m \in Bad : \A i \in Bad : m <= i BY <2>3, LeastNumber
  <2>5. m \in 0..N /\ ~Good(m) BY <2>4 DEF Bad
  <2> HIDE DEF Good
  <2>6. m \in 1..N BY <2>1, <2>5
  <2>7. m - 1 \in 0..N /\ ~(m <= m - 1) BY <1>1, <2>6
  <2>8. Good(m-1) BY <2>4, <2>7 DEF Bad
  <2> QED BY <2>2, <2>5, <2>6, <2>8
<1>11. \A n \in 0..(N-1) : \A r \in shown[n] : up(r)[n + 2] = None
  <2> DEFINE Good(n) == \A r \in shown[n] : up(r)[n + 2] = None
  <2>1. ASSUME 0 <= N - 1 PROVE Good(0)
    <3> SUFFICES ASSUME NEW r \in Roots(items) PROVE up(r)[0 + 2] = None BY <1>5
    <3>1. r \in items BY <1>9
    <3>2. 0 \in 0..N /\ 1 \in 0..N BY <1>1, <2>1
    <3>3. up(r)[1] = Above(items, r.id) /\ up(r)[2] = Above(items, up(r)[1])
      <4>1. up(r)[0 + 1] = Above(items, up(r)[0]) /\ up(r)[1 + 1] = Above(items, up(r)[1])
        BY <1>6, <3>1, <3>2
      <4> QED BY <1>6, <3>1, <4>1
    <3>4. CASE Parent(r) \in {None, r.id} BY <3>1, <3>3, <3>4, ParentAbove
    <3>5. CASE \A p \in items : p.id # Parent(r) BY <3>1, <3>3, <3>5, ParentAbove
    <3> QED BY <3>4, <3>5 DEF Roots
  <2>2. ASSUME NEW n \in 1..(N-1), Good(n-1) PROVE Good(n)
    <3> SUFFICES ASSUME NEW r \in shown[n] PROVE up(r)[n + 2] = None OBVIOUS
    <3>1. /\ n \in 1..N /\ n - 1 \in 0..N /\ n \in 0..N /\ n + 1 \in 0..N /\ (n - 1) + 2 = n + 1
          /\ (n + 1) + 1 = n + 2
      BY <1>1, <2>2
    <3>2. shown[n-1] \in SUBSET items /\ shown[n] \in SUBSET items BY <1>10, <3>1
    <3>3. CASE r \in shown[n-1]
      <4>1. up(r)[n + 1] = None BY <2>2, <3>1, <3>3
      <4>2. up(r)[(n + 1) + 1] = None BY <1>8, <3>1, <3>2, <4>1
      <4> QED BY <3>1, <4>2
    <3>4. CASE r \notin shown[n-1]
      <4>1. PICK q \in shown[n-1] : r \in Children(items, q) BY <1>5, <3>1, <3>4 DEF Below
      <4>2. r \in items /\ r \notin Roots(items) /\ Parent(r) = q.id /\ q \in items
        BY <3>2, <4>1 DEF Children
      <4>3. Parent(r) # r.id BY <4>2 DEF Roots
      <4>4. Above(items, r.id) = q.id BY <4>2, <4>3, ParentAbove
      <4>5. up(q)[n + 1] = None BY <2>2, <3>1, <4>1
      <4>6. up(r)[(n + 1) + 1] = up(q)[n + 1] BY <1>7, <3>1, <4>2, <4>4
      <4> QED BY <3>1, <4>5, <4>6
    <3> QED BY <3>3, <3>4
  <2> SUFFICES ASSUME NEW k \in 0..(N-1), ~Good(k) PROVE FALSE OBVIOUS
  <2> DEFINE Bad == {n \in 0..(N-1) : ~Good(n)}
  <2>3. Bad \in SUBSET Nat /\ Bad # {} BY <1>1
  <2> HIDE DEF Bad
  <2>4. PICK m \in Bad : \A i \in Bad : m <= i BY <2>3, LeastNumber
  <2>5. m \in 0..(N-1) /\ ~Good(m) BY <2>4 DEF Bad
  <2> HIDE DEF Good
  <2>6. m \in 1..(N-1) BY <1>1, <2>1, <2>5
  <2>7. m - 1 \in 0..(N-1) /\ ~(m <= m - 1) BY <1>1, <2>6
  <2>8. Good(m-1) BY <2>4, <2>7 DEF Bad
  <2> QED BY <2>2, <2>5, <2>6, <2>8
<1>12. \A n \in 0..N : \A r \in items : up(r)[n + 1] = None => r \in shown[n]
  <2> DEFINE Good(n) == \A r \in items : up(r)[n + 1] = None => r \in shown[n]
  <2>1. Good(0)
    <3> SUFFICES ASSUME NEW r \in items, up(r)[0 + 1] = None PROVE r \in Roots(items) BY <1>5
    <3>1. up(r)[0 + 1] = Above(items, r.id)
      <4>1. 0 \in 0..N BY <1>1
      <4>2. up(r)[0 + 1] = Above(items, up(r)[0]) BY <1>6, <4>1
      <4> QED BY <1>6, <4>2
    <3> QED BY <3>1, ParentAbove DEF Roots
  <2>2. ASSUME NEW n \in 1..N, Good(n-1) PROVE Good(n)
    <3> SUFFICES ASSUME NEW r \in items, up(r)[n + 1] = None PROVE r \in shown[n] OBVIOUS
    <3>1. n - 1 \in 0..N /\ n \in 0..N /\ (n - 1) + 1 = n BY <1>1, <2>2
    <3>2. shown[n-1] \subseteq shown[n] /\ shown[0] \subseteq shown[n]
      <4>1. \A i \in 1..N : shown[i-1] \subseteq shown[i]
        <5>1. \A i \in 1..N : i - 1 \in 0..N BY <1>1
        <5> QED BY <1>5, <1>9, <1>10, <5>1
      <4> DEFINE Lost == {i \in 0..N : ~(shown[0] \subseteq shown[i])}
      <4>2. CASE Lost = {} BY <3>1, <4>1, <4>2
      <4>3. CASE Lost # {}
        <5>1. Lost \in SUBSET Nat BY <1>1
        <5> HIDE DEF Lost
        <5>2. PICK m \in Lost : \A i \in Lost : m <= i BY <4>3, <5>1, LeastNumber
        <5>3. m \in 0..N /\ ~(shown[0] \subseteq shown[m]) BY <5>2 DEF Lost
        <5>4. m \in 1..N BY <5>3
        <5>5. m - 1 \in 0..N /\ ~(m <= m - 1) BY <1>1, <5>4
        <5>6. shown[0] \subseteq shown[m-1] BY <5>2, <5>5 DEF Lost
        <5> QED BY <4>1, <5>3, <5>4, <5>6
      <4> QED BY <4>2, <4>3
    <3>3. CASE r \in Roots(items) BY <1>5, <3>2, <3>3
    <3>4. CASE r \notin Roots(items)
      <4>1. Parent(r) \notin {None, r.id} BY <3>4 DEF Roots
      <4>2. PICK q \in items : q.id = Parent(r) BY <3>4 DEF Roots
      <4>3. Above(items, r.id) = q.id BY <4>1, <4>2, ParentAbove
      <4>4. up(q)[n] = None
        <5>1. up(r)[n + 1] = up(q)[n] BY <1>7, <3>1, <4>3
        <5> QED BY <5>1
      <4>5. q \in shown[n-1] BY <2>2, <3>1, <4>4
      <4>6. r \in Children(items, q) BY <3>4, <4>2 DEF Children
      <4>7. r \in Below(items, shown[n-1]) BY <4>5, <4>6 DEF Below
      <4> QED BY <1>5, <2>2, <4>7
    <3> QED BY <3>3, <3>4
  <2> SUFFICES ASSUME NEW k \in 0..N, ~Good(k) PROVE FALSE OBVIOUS
  <2> DEFINE Bad == {n \in 0..N : ~Good(n)}
  <2>3. Bad \in SUBSET Nat /\ Bad # {} BY <1>1
  <2> HIDE DEF Bad
  <2>4. PICK m \in Bad : \A i \in Bad : m <= i BY <2>3, LeastNumber
  <2>5. m \in 0..N /\ ~Good(m) BY <2>4 DEF Bad
  <2> HIDE DEF Good
  <2>6. m \in 1..N BY <2>1, <2>5
  <2>7. m - 1 \in 0..N /\ ~(m <= m - 1) BY <1>1, <2>6
  <2>8. Good(m-1) BY <2>4, <2>7 DEF Bad
  <2> QED BY <2>2, <2>5, <2>6, <2>8
<1>13. \A r \in shown[N] : up(r)[N + 1] = None
  <2>1. CASE N = 0
    <3>1. items = {} BY <2>1, FS_EmptySet DEF N, Distinct
    <3> QED BY <1>1, <1>10, <3>1
  <2>2. CASE N # 0
    <3>1. N - 1 \in 0..N /\ N - 1 \in 0..(N-1) /\ (N - 1) + 2 = N + 1 /\ N \in 1..N BY <1>1, <2>2
    <3>2. shown[N-1] \in SUBSET items BY <1>10, <3>1
    <3>3. shown[N] = shown[N-1]
      <4>1. CASE Below(items, shown[N-1]) = shown[N-1] BY <1>5, <3>1, <4>1
      <4>2. CASE Cardinality(shown[N-1]) > N - 1
        <5>1. /\ IsFiniteSet(shown[N-1]) /\ Cardinality(shown[N-1]) <= N
              /\ (Cardinality(shown[N-1]) = N => shown[N-1] = items)
          BY <3>2, FS_Subset DEF Distinct, N
        <5>2. Cardinality(shown[N-1]) \in Nat BY <5>1, FS_CardinalityType
        <5>3. shown[N-1] = items BY <1>1, <4>2, <5>1, <5>2
        <5>4. shown[N] \in SUBSET items /\ shown[N-1] \subseteq shown[N]
          BY <1>5, <1>9, <3>1, <3>2
        <5> QED BY <5>3, <5>4
      <4> QED BY <1>10, <3>1, <4>1, <4>2
    <3> QED BY <1>11, <3>1, <3>3
  <2> QED BY <2>1, <2>2
<1>14. shown[N] = {r \in items : up(r)[N + 1] = None}
  <2>1. N \in 0..N BY <1>1
  <2> QED BY <1>10, <1>12, <1>13, <2>1
<1> QED BY <1>2, <1>3, <1>14 DEF TreeOf

-----------------------------------------------------------------------------
(* Announcements.  Nothing that weeks show is written by a request that    *)
(* has no version to announce, and no deletion among these reaches it.     *)
Told ==
  \A t \in ShownTables :
    ShownOf(t)' # ShownOf(t) =>
      \E w \in Officers : officer'[w].todo # <<>> /\ Last(officer'[w].todo) = "announce"
                          /\ officer'[w] # officer[w]
SavesUnshown == \A w \in Officers : officer[w].todo = <<"save">> => officer[w].row.table \notin ShownTables
Tells(t, todo) == t \notin ShownTables \/ todo = <<"announce">>
Lone ==
  {"campuses", "types", "links", "preferences", "requests", "availability", "activities", "constraints",
   "replacements", "teaches", "specialties"}

LEMMA LoneTables ==
  /\ \A t \in Lone : t \notin ShownTables
  /\ \A f \in Foreign :
       f.parent \in Lone =>
         /\ f.rule = "cascade" => f.table \in Lone
         /\ f.rule = "null" => f.table \notin ShownTables \/ f.column \in {"campus", "activity"}
<1>1. \A t \in Lone : t \notin ShownTables BY DEF Lone, ShownTables
<1>2. \A f \in Foreign :
        f.rule = "cascade" =>
          <<f.parent, f.table>> \in {<<"types", "links">>} \/ f.parent \notin Lone
  BY DEF Lone, Foreign, RoomKeys, PlanKeys, AvailabilityKeys, EventKeys, OverlayKeys, TeachingKeys,
         CurriculumKeys, ParentKeys, OverrideKeys, Key
<1>3. \A f \in Foreign :
        f.rule = "null" =>
          \/ <<f.table, f.column>> \in {<<"locations", "campus">>, <<"weeks", "activity">>, <<"requests", "type">>}
          \/ f.parent \notin Lone
  BY DEF Lone, Foreign, RoomKeys, PlanKeys, AvailabilityKeys, EventKeys, OverlayKeys, TeachingKeys,
         CurriculumKeys, ParentKeys, OverrideKeys, Key
<1> QED BY <1>1, <1>2, <1>3 DEF Lone, ShownTables

(* The rows that go are no more than any closed set that the first is in.  *)
LEMMA GoneIsLeast ==
  ASSUME IsFiniteSet(rows), NEW x \in rows, NEW X, x \in X,
         \A r \in rows, p \in X, f \in Foreign : f.rule = "cascade" /\ RefersTo(f, r, p) => r \in X
  PROVE  GoneWith({x}) \subseteq X
<1> DEFINE N == Cardinality(rows)
           wave == CHOOSE v : v = Waves(v, x, N)
           Bad == {n \in 0..N : ~(wave[n] \subseteq X)}
<1>1. GoneWith({x}) = wave[N] BY DEF GoneWith, Waves, Cascade
<1>2. N \in Nat BY FS_CardinalityType
<1>3. wave = Waves(wave, x, N) BY <1>2, WavesExist
<1> HIDE DEF wave, N
<1>4. \A n \in 0..N : wave[n] = IF n = 0 THEN {x} ELSE Cascade(wave[n-1]) BY <1>3 DEF Waves
<1>5. Bad = {}
  <2> SUFFICES ASSUME Bad # {} PROVE FALSE OBVIOUS
  <2>1. Bad \in SUBSET Nat BY <1>2
  <2> HIDE DEF Bad
  <2>2. PICK m \in Bad : \A i \in Bad : m <= i BY <2>1, LeastNumber
  <2>3. m \in 0..N /\ ~(wave[m] \subseteq X) BY <2>2 DEF Bad
  <2>4. m # 0 BY <1>4, <2>3
  <2>5. m - 1 \in 0..N /\ ~(m <= m - 1) BY <1>2, <2>3, <2>4
  <2>6. wave[m-1] \subseteq X BY <2>2, <2>5 DEF Bad
  <2>7. wave[m] = Cascade(wave[m-1]) BY <1>4, <2>3, <2>4
  <2> QED BY <2>3, <2>6, <2>7 DEF Cascade
<1>6. N \in 0..N BY <1>2
<1> QED BY <1>1, <1>5, <1>6

LEMMA SameShown ==
  ASSUME NEW t \in ShownTables, \A r : r.table = t => (r \in rows' <=> r \in rows)
  PROVE  ShownOf(t)' = ShownOf(t)
<1>1. RowsOf(t)' = RowsOf(t) BY DEF RowsOf
<1> QED BY <1>1 DEF ShownOf

LEMMA SameTold ==
  ASSUME \A t \in ShownTables : \A r : r.table = t => (r \in rows' <=> r \in rows)
  PROVE  Told
BY SameShown DEF Told

LEMMA LeftTells ==
  ASSUME TablesInv, NEW w \in Officers, NEW todo \in {<<"announce">>, <<"restore", "announce">>}, NEW r,
         Left(w, todo, r), officer[w].todo # todo
  PROVE  Told
<1>1. officer'[w].todo = todo BY DEF Left, TablesInv
<1>2. todo # <<>> /\ Last(todo) = "announce"
  <2>1. CASE todo = <<"announce">>
    <3>1. Len(<<"announce">>) = 1 /\ <<"announce">>[1] = "announce" OBVIOUS
    <3> QED BY <2>1, <3>1 DEF Last
  <2>2. CASE todo = <<"restore", "announce">>
    <3>1. Len(<<"restore", "announce">>) = 2 /\ <<"restore", "announce">>[2] = "announce" OBVIOUS
    <3> QED BY <2>2, <3>1 DEF Last
  <2> QED BY <2>1, <2>2
<1> QED BY <1>1, <1>2 DEF Told

LEMMA LeftUnshown ==
  ASSUME TablesInv, SavesUnshown, NEW w \in Officers, NEW todo, NEW r, Left(w, todo, r),
         todo # <<"save">> \/ r.table \notin ShownTables
  PROVE  SavesUnshown'
<1>1. /\ \A v \in Officers \ {w} : officer'[v] = officer[v]
      /\ officer'[w].todo = todo
      /\ officer'[w].row = IF todo \in {<<>>, <<"announce">>} THEN None ELSE r
  BY DEF Left, TablesInv
<1>2. <<"save">> \notin {<<>>, <<"announce">>} OBVIOUS
<1> QED BY <1>1, <1>2 DEF SavesUnshown

(* A request that ends with todo, after it has written rows of one table.  *)
LEMMA WriteTells ==
  ASSUME TablesInv, SavesUnshown, NEW w \in Officers, NEW t, NEW todo \in Ending, Tells(t, todo),
         officer[w].todo # <<"announce">>, NEW r,
         \/ Done(w) /\ rows' = rows
         \/ Left(w, todo, r) /\ \A b : b.table # t => (b \in rows' <=> b \in rows)
  PROVE  Told /\ SavesUnshown'
<1>1. <<>> # <<"save">> /\ todo # <<"save">> BY DEF Ending
<1>2. CASE Done(w) /\ rows' = rows
  <2>1. SavesUnshown' BY <1>1, <1>2, LeftUnshown DEF Done
  <2> QED BY <1>2, <2>1, SameTold
<1>3. CASE Left(w, todo, r) /\ \A b : b.table # t => (b \in rows' <=> b \in rows)
  <2>1. SavesUnshown' BY <1>1, <1>3, LeftUnshown
  <2>2. CASE t \notin ShownTables BY <1>3, <2>1, <2>2, SameTold
  <2>3. CASE todo = <<"announce">> BY <1>3, <2>1, <2>3, LeftTells
  <2> QED BY <2>2, <2>3 DEF Tells
<1> QED BY <1>2, <1>3

LEMMA FreshIsQuiet ==
  ASSUME NEW w, NEW t, Asked(w, t)
  PROVE  officer[w].todo # <<"announce">> /\ officer[w].todo # <<"restore", "announce">>
<1>1. officer[w].todo = <<>> BY DEF Asked, NoRequest
<1>2. <<>> # <<"announce">> /\ <<>> # <<"restore", "announce">> OBVIOUS
<1> QED BY <1>1, <1>2

LEMMA InsertTells ==
  ASSUME TablesInv, SavesUnshown, NEW w \in Officers, NEW r, Proper(r), NEW todo \in Ending,
         Tells(r.table, todo), officer[w].todo # <<"announce">>, Inserts(w, r, todo)
  PROVE  Told /\ SavesUnshown'
<1> DEFINE new == [r EXCEPT !.id = IF @ = None THEN nextId[r.table] ELSE @]
<1>1. \/ Commit(rows \cup {new}) /\ Left(w, todo, None)
      \/ Commit(rows) /\ Done(w)
  BY DEF Inserts
<1>2. new.table = r.table BY DEF Proper
<1> HIDE DEF new
<1>3. CASE Commit(rows \cup {new}) /\ Left(w, todo, None) BY <1>2, <1>3, WriteTells DEF Commit
<1>4. CASE Commit(rows) /\ Done(w) BY <1>4, WriteTells DEF Commit
<1> QED BY <1>1, <1>3, <1>4

LEMMA CreatesTell ==
  ASSUME TablesInv, SavesUnshown, NEW w \in Officers, NEW t, NEW r, New(r, t), NEW todo \in Ending,
         Tells(t, todo), Creates(w, r, todo)
  PROVE  Told /\ SavesUnshown'
BY InsertTells, FreshIsQuiet DEF New, Creates

LEMMA FindsTell ==
  ASSUME TablesInv, SavesUnshown, NEW w \in Officers, NEW t, NEW old, NEW new, New(new, t),
         NEW todo \in Ending \cup {<<"restore", "announce">>}, t \notin ShownTables \/ todo # <<>>,
         Finds(w, old, new, todo)
  PROVE  Told /\ SavesUnshown'
<1> DEFINE row == [new EXCEPT !.id = old.id]
<1>1. row.table = t BY DEF New, Proper
<1> HIDE DEF row
<1>2. Left(w, <<"save">> \o todo, row) /\ rows' = rows BY DEF Finds, row
<1>3. todo # <<>> => <<"save">> \o todo # <<"save">>
  <2>1. todo \in {<<>>, <<"announce">>, <<"restore", "announce">>} BY DEF Ending
  <2>2. Len(<<"save">> \o <<"announce">>) = 2 /\ Len(<<"save">> \o <<"restore", "announce">>) = 3 OBVIOUS
  <2>3. Len(<<"save">>) = 1 OBVIOUS
  <2> QED BY <2>1, <2>2, <2>3
<1>4. SavesUnshown' BY <1>1, <1>2, <1>3, LeftUnshown
<1> QED BY <1>2, <1>4, SameTold

LEMMA SavesTell ==
  ASSUME TablesInv, SavesUnshown, NEW w \in Officers, NEW t, Saves(w, t)
  PROVE  Told /\ SavesUnshown'
<1> DEFINE o == officer[w]
           new == SavedRow(w)
           old == {b \in RowsOf(t) : b.id = new.id}
<1>1. o.todo \in Saving BY Todos DEF Saves, At, TablesInv, Waits
<1>2. Proper(o.row) BY <1>1 DEF TablesInv, Waits
<1>3. new.table = o.row.table BY <1>2 DEF SavedRow, Proper
<1> HIDE DEF new
<1>4. /\ new.table = t
      /\ \/ Commit((rows \ old) \cup {new}) /\ Left(w, Tail(o.todo), new)
         \/ Commit(rows) /\ Done(w)
  BY DEF Saves, new
<1>5. \A b \in old : b.table = t BY DEF RowsOf
<1> HIDE DEF old
<1>6. \/ rows' = (rows \ old) \cup {new} /\ Left(w, Tail(o.todo), new)
      \/ rows' = rows /\ Done(w)
  BY <1>4 DEF Commit
<1>7. /\ o.todo # <<"announce">> /\ o.todo # <<"restore", "announce">> /\ o.todo # <<>>
      /\ Tail(o.todo) # <<"save">>
  <2>1. Tail(o.todo) \in Ending \cup {<<"restore", "announce">>} BY <1>1, Todos
  <2> QED BY <1>1, <2>1, Todos DEF Saving, Ending
<1>8. SavesUnshown'
  <2>1. <<>> # <<"save">> OBVIOUS
  <2> QED BY <1>6, <1>7, <2>1, LeftUnshown DEF Done
<1>9. CASE rows' = rows BY <1>8, <1>9, SameTold
<1>10. CASE rows' = (rows \ old) \cup {new} /\ Left(w, Tail(o.todo), new)
  <2>1. CASE t \notin ShownTables
    <3>1. \A b : b.table # t => (b \in rows' <=> b \in rows) BY <1>4, <1>5, <1>10
    <3> QED BY <1>8, <2>1, <3>1, SameTold
  <2>2. CASE t \in ShownTables
    <3>1. o.todo # <<"save">> BY <1>3, <1>4, <2>2 DEF SavesUnshown
    <3>2. Tail(o.todo) \in {<<"announce">>, <<"restore", "announce">>}
      <4>1. /\ Tail(<<"save", "announce">>) = <<"announce">>
            /\ Tail(<<"save", "restore", "announce">>) = <<"restore", "announce">>
        OBVIOUS
      <4> QED BY <1>1, <3>1, <4>1 DEF Saving
    <3> QED BY <1>7, <1>8, <1>10, <3>2, LeftTells
  <2> QED BY <2>1, <2>2
<1> QED BY <1>6, <1>9, <1>10

LEMMA UpdatesTell ==
  ASSUME TablesInv, SavesUnshown, NEW w \in Officers, NEW t, NEW old, NEW new, old.table = t, new.table = t,
         NEW todo \in Ending, Tells(t, todo), Updates(w, old, new, todo)
  PROVE  Told /\ SavesUnshown'
<1>1. officer[w].todo # <<"announce">> BY FreshIsQuiet DEF Updates
<1>2. \/ rows' = (rows \ {old}) \cup {new} /\ Left(w, todo, None)
      \/ rows' = rows /\ Done(w)
  BY DEF Updates, Commit
<1> QED BY <1>1, <1>2, WriteTells

LEMMA HidesTell ==
  ASSUME TablesInv, SavesUnshown, NEW w \in Officers, NEW t, NEW r \in RowsOf(t),
         NEW todo \in Ending, Tells(t, todo), Hides(w, r, todo)
  PROVE  Told /\ SavesUnshown'
<1> DEFINE new == [r EXCEPT !.gone = TRUE]
<1>1. r \in rows /\ r.table = t BY DEF RowsOf
<1>2. new.table = t BY <1>1 DEF TablesInv, Sound, Proper
<1>3. Updates(w, r, new, todo) BY DEF Hides
<1> HIDE DEF new
<1> QED BY <1>1, <1>2, <1>3, UpdatesTell

LEMMA UpsertsTell ==
  ASSUME TablesInv, SavesUnshown, NEW w \in Officers, NEW t, NEW batch, NEW on, Len(batch) \in Nat,
         \A i \in 1..Len(batch) : Proper(batch[i]) /\ batch[i].table = t,
         NEW todo \in Ending, Tells(t, todo), Upserts(w, t, batch, on, todo)
  PROVE  Told /\ SavesUnshown'
<1> DEFINE N == Len(batch)
           done == CHOOSE d : d = Steps(d, t, batch, on, N)
           Same(i) == \A b : b.table # t => (b \in done[i].table <=> b \in rows)
           Bad == {i \in 0..N : ~Same(i)}
<1>1. AllUpserted(t, batch, on) = done[N] BY DEF AllUpserted, Steps, First
<1>2. done = Steps(done, t, batch, on, N) BY StepsExist
<1> HIDE DEF done
<1>3. done[0] = First(t) /\ \A i \in 1..N : done[i] = Upserted(done[i-1], batch[i], on)
  <2>1. 0 \in 0..N /\ \A i \in 1..N : i \in 0..N /\ i # 0 OBVIOUS
  <2> QED BY <1>2, <2>1 DEF Steps
<1>4. ASSUME NEW i \in 1..N, Same(i-1) PROVE Same(i)
  <2> DEFINE st == done[i-1]
             r == batch[i]
             old == {b \in st.table : b.table = r.table /\ Agree(b, r, on)}
             id == IF old = {} THEN st.id ELSE (CHOOSE b \in old : TRUE).id
             new == [r EXCEPT !.id = id]
  <2>0. done[i] = Upserted(st, r, on) BY <1>3
  <2> HIDE DEF st, r
  <2>1. done[i].table = (st.table \ old) \cup {new} BY <2>0 DEF Upserted
  <2>2. r.table = t /\ Proper(r) BY DEF r
  <2>3. new.table = t BY <2>2 DEF Proper
  <2>4. \A b \in old : b.table = t BY <2>2
  <2> HIDE DEF new, old
  <2>5. \A b : b.table # t => (b \in st.table <=> b \in rows) BY <1>4 DEF st
  <2> QED BY <2>1, <2>3, <2>4, <2>5
<1>5. Bad = {}
  <2> SUFFICES ASSUME Bad # {} PROVE FALSE OBVIOUS
  <2>1. Bad \in SUBSET Nat OBVIOUS
  <2>2. Same(0) BY <1>3 DEF First
  <2> HIDE DEF Bad
  <2>3. PICK m \in Bad : \A i \in Bad : m <= i BY <2>1, LeastNumber
  <2>4. m \in 0..N /\ ~Same(m) BY <2>3 DEF Bad
  <2> HIDE DEF Same
  <2>5. m \in 1..N BY <2>2, <2>4
  <2>6. m - 1 \in 0..N /\ ~(m <= m - 1) BY <2>5
  <2>7. Same(m-1) BY <2>3, <2>6 DEF Bad
  <2> QED BY <1>4, <2>4, <2>5, <2>7
<1>6. Same(N) BY <1>5
<1>7. officer[w].todo # <<"announce">> BY FreshIsQuiet DEF Upserts
<1>8. \/ rows' = done[N].table /\ Left(w, todo, None)
      \/ rows' = rows /\ Done(w)
  BY <1>1 DEF Upserts, Commit
<1> QED BY <1>6, <1>7, <1>8, WriteTells

LEMMA RestoresTell ==
  ASSUME TablesInv, SavesUnshown, NEW w \in Officers, NEW t, Restores(w, t)
  PROVE  Told /\ SavesUnshown'
<1>1. officer[w].todo = <<"restore", "announce">> BY Todos DEF Restores, At, TablesInv, Waits
<1>2. Left(w, <<"announce">>, None) BY <1>1, Todos DEF Restores
<1>3. <<"restore", "announce">> # <<"announce">> /\ <<"announce">> # <<"save">> OBVIOUS
<1>4. Told BY <1>1, <1>2, <1>3, LeftTells
<1> QED BY <1>2, <1>3, <1>4, LeftUnshown

LEMMA DeletesTell ==
  ASSUME TablesInv, SavesUnshown, NEW w \in Officers, NEW t, NEW r \in RowsOf(t), NEW todo \in Ending,
         t \in Lone \/ todo = <<"announce">>, Deletes(w, r, todo)
  PROVE  Told /\ SavesUnshown'
<1>1. \/ rows' = Without({r}) /\ Left(w, todo, None)
      \/ rows' = rows /\ Done(w)
  BY DEF Deletes, Commit
<1>2. SavesUnshown'
  <2>1. <<>> # <<"save">> /\ todo # <<"save">> BY DEF Ending
  <2> QED BY <1>1, <2>1, LeftUnshown DEF Done
<1>3. CASE rows' = rows BY <1>2, <1>3, SameTold
<1>4. CASE rows' = Without({r}) /\ Left(w, todo, None) /\ todo = <<"announce">>
  <2>1. officer[w].todo # <<"announce">> BY FreshIsQuiet DEF Deletes
  <2> QED BY <1>2, <1>4, <2>1, LeftTells
<1>5. CASE rows' = Without({r}) /\ t \in Lone
  <2> DEFINE gone == GoneWith({r})
             X == {b \in rows : b.table \in Lone}
  <2>1. r \in rows /\ r.table = t BY DEF RowsOf
  <2>2. gone \subseteq X
    <3>1. \A b \in rows, p \in X, f \in Foreign : f.rule = "cascade" /\ RefersTo(f, b, p) => b \in X
      BY LoneTables DEF RefersTo, Of
    <3>2. r \in X BY <1>5, <2>1
    <3> HIDE DEF X
    <3> QED BY <2>1, <3>1, <3>2, GoneIsLeast DEF TablesInv, Sound
  <2>3. \A p \in gone : p.table \in Lone BY <2>2
  <2>4. rows' = {Cleared(b, gone) : b \in rows \ gone} BY <1>5 DEF Without
  <2> HIDE DEF gone, X
  <2> DEFINE shown(b) == [b EXCEPT !.refs = [c \in DOMAIN @ \ {"campus", "activity"} |-> @[c]]]
  <2>5. ASSUME NEW b \in rows, b.table \in ShownTables
        PROVE  /\ b \notin gone
               /\ Cleared(b, gone).table = b.table
               /\ shown(Cleared(b, gone)) = shown(b)
    <3>1. b \notin gone BY <2>3, <2>5, LoneTables
    <3>2. DOMAIN b = {"table", "id", "key", "refs", "gone"} BY DEF TablesInv, Sound, Proper
    <3> DEFINE refs == [c \in DOMAIN b.refs |->
                 IF \E f \in Foreign, p \in gone : f.column = c /\ f.rule = "null" /\ RefersTo(f, b, p)
                 THEN None ELSE b.refs[c]]
               kept == [c \in DOMAIN refs \ {"campus", "activity"} |-> refs[c]]
               same == [c \in DOMAIN b.refs \ {"campus", "activity"} |-> b.refs[c]]
    <3>3. Cleared(b, gone) = [b EXCEPT !.refs = refs] BY DEF Cleared
    <3>4. kept = same
      <4>1. ASSUME NEW c \in DOMAIN b.refs \ {"campus", "activity"} PROVE refs[c] = b.refs[c]
        <5>1. ~\E f \in Foreign, p \in gone : f.column = c /\ f.rule = "null" /\ RefersTo(f, b, p)
          BY <2>3, <2>5, <4>1, LoneTables DEF RefersTo, Of
        <5> QED BY <5>1
      <4>2. DOMAIN refs = DOMAIN b.refs OBVIOUS
      <4> HIDE DEF refs
      <4> QED BY <4>1, <4>2
    <3> HIDE DEF refs
    <3>5. shown(Cleared(b, gone)) = [b EXCEPT !.refs = kept]
      <4> DEFINE cleared == [b EXCEPT !.refs = refs]
      <4>1. cleared.refs = refs BY <3>2
      <4>2. shown(cleared) = [cleared EXCEPT !.refs = kept] BY <4>1
      <4>3. [cleared EXCEPT !.refs = kept] = [b EXCEPT !.refs = kept] BY <3>2
      <4> QED BY <3>3, <4>2, <4>3
    <3>6. shown(b) = [b EXCEPT !.refs = same] OBVIOUS
    <3>7. Cleared(b, gone).table = b.table BY <3>2, <3>3
    <3> HIDE DEF kept, same, shown
    <3> QED BY <3>1, <3>4, <3>5, <3>6, <3>7
  <2>6. \A b \in rows \ gone : Cleared(b, gone).table = b.table
    <3> SUFFICES ASSUME NEW b \in rows \ gone PROVE Cleared(b, gone).table = b.table OBVIOUS
    <3>1. DOMAIN b = {"table", "id", "key", "refs", "gone"} BY DEF TablesInv, Sound, Proper
    <3> QED BY <3>1, RowWithRefs DEF Cleared
  <2>7. ASSUME NEW u \in ShownTables PROVE ShownOf(u)' = ShownOf(u)
    <3>1. ShownOf(u) = {shown(b) : b \in {a \in rows : a.table = u}} BY DEF ShownOf, RowsOf
    <3>2. ShownOf(u)' = {shown(b) : b \in {a \in rows' : a.table = u}} BY DEF ShownOf, RowsOf
    <3> HIDE DEF shown
    <3>3. \A a \in rows' : a.table = u => \E b \in rows : b.table = u /\ shown(a) = shown(b)
      BY <2>4, <2>5, <2>6, <2>7
    <3>4. \A b \in rows : b.table = u => \E a \in rows' : a.table = u /\ shown(a) = shown(b)
      BY <2>4, <2>5, <2>7
    <3> QED BY <3>1, <3>2, <3>3, <3>4
  <2> QED BY <1>2, <2>7 DEF Told
<1> QED BY <1>1, <1>3, <1>4, <1>5

LEMMA TellsIs ==
  /\ <<>> \in Ending /\ <<"announce">> \in Ending
  /\ <<"restore", "announce">> # <<>> /\ <<"announce">> # <<>>
  /\ \A t \in Lone \cup {"teachers"} : Tells(t, <<>>) /\ t \notin ShownTables
  /\ \A t : Tells(t, <<"announce">>)
<1>1. <<"restore", "announce">> # <<>> /\ <<"announce">> # <<>> OBVIOUS
<1>2. "teachers" \notin ShownTables BY DEF ShownTables
<1> QED BY <1>1, <1>2, LoneTables DEF Ending, Tells

LEMMA RoomWritesTell ==
  ASSUME TablesInv, SavesUnshown, NEW w \in Officers, RoomWrites(w)
  PROVE  Told /\ SavesUnshown'
<1>1. ASSUME NEW b \in Bodies["campuses"], PostCampus(w, b) PROVE Told /\ SavesUnshown'
  BY <1>1, RoomRows, TellsIs, CreatesTell DEF PostCampus, Lone
<1>2. ASSUME NEW b \in Bodies["campuses"], NEW r \in RowsOf("campuses"), PutCampus(w, r, b) PROVE Told /\ SavesUnshown'
  BY <1>2, RoomRows, TellsIs, FindsTell DEF PutCampus, Lone
<1>3. ASSUME SaveCampus(w) PROVE Told /\ SavesUnshown' BY <1>3, SavesTell DEF SaveCampus
<1>4. ASSUME NEW r \in RowsOf("campuses"), DeleteCampus(w, r) PROVE Told /\ SavesUnshown'
  BY <1>4, TellsIs, DeletesTell DEF DeleteCampus, Lone
<1>5. ASSUME NEW b \in Bodies["locations"], PostLocation(w, b) PROVE Told /\ SavesUnshown'
  BY <1>5, RoomRows, TellsIs, CreatesTell DEF PostLocation
<1>6. ASSUME NEW b \in Bodies["locations"], NEW r \in RowsOf("locations"), PutLocation(w, r, b) PROVE Told /\ SavesUnshown'
  BY <1>6, RoomRows, TellsIs, FindsTell DEF PutLocation
<1>7. ASSUME SaveLocation(w) PROVE Told /\ SavesUnshown' BY <1>7, SavesTell DEF SaveLocation
<1>8. ASSUME NEW r \in RowsOf("locations"), DeleteLocation(w, r) PROVE Told /\ SavesUnshown'
  BY <1>8, TellsIs, DeletesTell DEF DeleteLocation
<1>9. ASSUME NEW b \in Bodies["types"], PostType(w, b) PROVE Told /\ SavesUnshown'
  BY <1>9, RoomRows, TellsIs, CreatesTell DEF PostType, Lone
<1>10. ASSUME NEW b \in Bodies["types"], NEW r \in RowsOf("types"), PutType(w, r, b) PROVE Told /\ SavesUnshown'
  BY <1>10, RoomRows, TellsIs, FindsTell DEF PutType, Lone
<1>11. ASSUME SaveType(w) PROVE Told /\ SavesUnshown' BY <1>11, SavesTell DEF SaveType
<1>12. ASSUME NEW r \in RowsOf("types"), DeleteType(w, r) PROVE Told /\ SavesUnshown'
  BY <1>12, TellsIs, DeletesTell DEF DeleteType, Lone
<1>13. ASSUME NEW b \in Bodies["preferences"], PostPreference(w, b) PROVE Told /\ SavesUnshown'
  BY <1>13, RoomRows, TellsIs, CreatesTell DEF PostPreference, Lone
<1>14. ASSUME NEW b \in Bodies["preferences"], NEW r \in RowsOf("preferences"), PutPreference(w, r, b) PROVE Told /\ SavesUnshown'
  BY <1>14, RoomRows, TellsIs, FindsTell DEF PutPreference, Lone
<1>15. ASSUME SavePreference(w) PROVE Told /\ SavesUnshown' BY <1>15, SavesTell DEF SavePreference
<1>16. ASSUME NEW r \in RowsOf("preferences"), DeletePreference(w, r) PROVE Told /\ SavesUnshown'
  BY <1>16, TellsIs, DeletesTell DEF DeletePreference, Lone
<1>17. ASSUME NEW b \in Bodies["requests"], PostRequest(w, b) PROVE Told /\ SavesUnshown'
  BY <1>17, RoomRows, TellsIs, CreatesTell DEF PostRequest, Lone
<1>18. ASSUME NEW b \in Bodies["requests"], NEW r \in RowsOf("requests"), PutRequest(w, r, b) PROVE Told /\ SavesUnshown'
  BY <1>18, RoomRows, TellsIs, FindsTell DEF PutRequest, Lone
<1>19. ASSUME SaveRequest(w) PROVE Told /\ SavesUnshown' BY <1>19, SavesTell DEF SaveRequest
<1>20. ASSUME NEW r \in RowsOf("requests"), DeleteRequest(w, r) PROVE Told /\ SavesUnshown'
  BY <1>20, TellsIs, DeletesTell DEF DeleteRequest, Lone
<1>21. ASSUME NEW b \in Bodies["links"], PostLink(w, b) PROVE Told /\ SavesUnshown'
  BY <1>21, RoomRows, TellsIs, CreatesTell DEF PostLink, Lone
<1>22. ASSUME NEW r \in RowsOf("links"), DeleteLink(w, r) PROVE Told /\ SavesUnshown'
  BY <1>22, TellsIs, DeletesTell DEF DeleteLink, Lone
<1>23. ASSUME NEW batch \in Bodies["availability"], PutAvailability(w, batch) PROVE Told /\ SavesUnshown'
  <2> DEFINE new == [i \in DOMAIN batch |-> AvailabilityRow(batch[i])]
  <2>1. Len(new) \in Nat /\ \A i \in 1..Len(new) : Proper(new[i]) /\ new[i].table = "availability" BY BatchRows
  <2>2. Upserts(w, "availability", new, {"key", "location"}, <<>>) BY <1>23 DEF PutAvailability
  <2>3. <<>> \in Ending /\ Tells("availability", <<>>) BY TellsIs DEF Lone
  <2> HIDE DEF new
  <2> QED BY <2>1, <2>2, <2>3, UpsertsTell
<1>24. ASSUME NEW r \in RowsOf("availability"), DeleteAvailability(w, r) PROVE Told /\ SavesUnshown'
  BY <1>24, TellsIs, DeletesTell DEF DeleteAvailability, Lone
<1> QED BY <1>1, <1>2, <1>3, <1>4, <1>5, <1>6, <1>7, <1>8, <1>9, <1>10, <1>11, <1>12, <1>13, <1>14, <1>15, <1>16, <1>17, <1>18, <1>19, <1>20, <1>21, <1>22, <1>23, <1>24 DEF RoomWrites

LEMMA PlanWritesTell ==
  ASSUME TablesInv, SavesUnshown, NEW w \in Officers, PlanWrites(w)
  PROVE  Told /\ SavesUnshown'
<1>1. ASSUME NEW b \in Bodies["activities"], PostActivity(w, b) PROVE Told /\ SavesUnshown'
  BY <1>1, PlanRows, TellsIs, CreatesTell DEF PostActivity, Lone
<1>2. ASSUME NEW b \in Bodies["activities"], NEW r \in RowsOf("activities"), PutActivity(w, r, b) PROVE Told /\ SavesUnshown'
  BY <1>2, PlanRows, TellsIs, FindsTell DEF PutActivity, Lone
<1>3. ASSUME SaveActivity(w) PROVE Told /\ SavesUnshown' BY <1>3, SavesTell DEF SaveActivity
<1>4. ASSUME NEW r \in RowsOf("activities"), DeleteActivity(w, r) PROVE Told /\ SavesUnshown'
  BY <1>4, TellsIs, DeletesTell DEF DeleteActivity, Lone
<1>5. ASSUME NEW b \in Bodies["constraints"], PostConstraint(w, b) PROVE Told /\ SavesUnshown'
  BY <1>5, PlanRows, TellsIs, CreatesTell DEF PostConstraint, Lone
<1>6. ASSUME NEW b \in Bodies["constraints"], NEW r \in RowsOf("constraints"), PutConstraint(w, r, b) PROVE Told /\ SavesUnshown'
  BY <1>6, PlanRows, TellsIs, FindsTell DEF PutConstraint, Lone
<1>7. ASSUME SaveConstraint(w) PROVE Told /\ SavesUnshown' BY <1>7, SavesTell DEF SaveConstraint
<1>8. ASSUME NEW r \in RowsOf("constraints"), DeleteConstraint(w, r) PROVE Told /\ SavesUnshown'
  BY <1>8, TellsIs, DeletesTell DEF DeleteConstraint, Lone
<1>9. ASSUME NEW b \in Bodies["replacements"], PostReplacement(w, b) PROVE Told /\ SavesUnshown'
  BY <1>9, PlanRows, TellsIs, CreatesTell DEF PostReplacement, Lone
<1>10. ASSUME NEW b \in Bodies["replacements"], NEW r \in RowsOf("replacements"), PutReplacement(w, r, b) PROVE Told /\ SavesUnshown'
  BY <1>10, PlanRows, TellsIs, FindsTell DEF PutReplacement, Lone
<1>11. ASSUME SaveReplacement(w) PROVE Told /\ SavesUnshown' BY <1>11, SavesTell DEF SaveReplacement
<1>12. ASSUME NEW r \in RowsOf("replacements"), DeleteReplacement(w, r) PROVE Told /\ SavesUnshown'
  BY <1>12, TellsIs, DeletesTell DEF DeleteReplacement, Lone
<1>13. ASSUME NEW b \in Bodies["days"], PostDay(w, b) PROVE Told /\ SavesUnshown'
  BY <1>13, PlanRows, TellsIs, CreatesTell DEF PostDay
<1>14. ASSUME NEW b \in Bodies["days"], NEW r \in RowsOf("days"), PutDay(w, r, b) PROVE Told /\ SavesUnshown'
  BY <1>14, PlanRows, TellsIs, FindsTell DEF PutDay
<1>15. ASSUME SaveDay(w) PROVE Told /\ SavesUnshown' BY <1>15, SavesTell DEF SaveDay
<1>16. ASSUME NEW r \in RowsOf("days"), DeleteDay(w, r) PROVE Told /\ SavesUnshown'
  BY <1>16, TellsIs, DeletesTell DEF DeleteDay
<1>17. ASSUME NEW b \in Bodies["events"], PostEvent(w, b) PROVE Told /\ SavesUnshown'
  BY <1>17, PlanRows, TellsIs, CreatesTell DEF PostEvent
<1>18. ASSUME NEW b \in Bodies["events"], NEW r \in RowsOf("events"), PutEvent(w, r, b) PROVE Told /\ SavesUnshown'
  BY <1>18, PlanRows, TellsIs, FindsTell DEF PutEvent
<1>19. ASSUME SaveEvent(w) PROVE Told /\ SavesUnshown' BY <1>19, SavesTell DEF SaveEvent
<1>20. ASSUME NEW r \in RowsOf("events"), DeleteEvent(w, r) PROVE Told /\ SavesUnshown'
  BY <1>20, TellsIs, DeletesTell DEF DeleteEvent
<1>21. ASSUME NEW b \in Bodies["overlays"], FindOverlay(w, b) PROVE Told /\ SavesUnshown'
  <2>1. rows' = rows BY <1>21 DEF FindOverlay
  <2>2. <<"create", "announce">> # <<"save">> /\ <<"save", "announce">> # <<"save">> OBVIOUS
  <2>3. \E todo \in {<<"create", "announce">>, <<"save", "announce">>} : \E r : Left(w, todo, r)
    BY <1>21 DEF FindOverlay
  <2> QED BY <2>1, <2>2, <2>3, LeftUnshown, SameTold
<1>22. ASSUME CreateOverlay(w) PROVE Told /\ SavesUnshown'
  <2>1. officer[w].todo = <<"create", "announce">>
    BY <1>22, Todos DEF CreateOverlay, At, TablesInv, Waits
  <2>2. Proper(officer[w].row) BY <2>1 DEF TablesInv, Waits
  <2>3. Tail(officer[w].todo) = <<"announce">> /\ officer[w].todo # <<"announce">> BY <2>1
  <2> QED BY <1>22, <2>2, <2>3, TellsIs, InsertTells DEF CreateOverlay
<1>23. ASSUME SaveOverlay(w) PROVE Told /\ SavesUnshown' BY <1>23, SavesTell DEF SaveOverlay
<1> QED BY <1>1, <1>2, <1>3, <1>4, <1>5, <1>6, <1>7, <1>8, <1>9, <1>10, <1>11, <1>12, <1>13, <1>14, <1>15, <1>16, <1>17, <1>18, <1>19, <1>20, <1>21, <1>22, <1>23 DEF PlanWrites

LEMMA PeopleWritesTell ==
  ASSUME TablesInv, SavesUnshown, NEW w \in Officers, PeopleWrites(w)
  PROVE  Told /\ SavesUnshown'
<1>1. ASSUME NEW b \in Bodies["teachers"], PostTeacher(w, b) PROVE Told /\ SavesUnshown'
  <2> DEFINE batch == <<TeacherRow(None, b)>>
  <2>1. New(TeacherRow(None, b), "teachers") BY OtherRows
  <2>2. Len(batch) \in Nat /\ \A i \in 1..Len(batch) : Proper(batch[i]) /\ batch[i].table = "teachers"
    BY <2>1 DEF New
  <2>3. Upserts(w, "teachers", batch, {"key"}, <<>>) BY <1>1 DEF PostTeacher
  <2>4. <<>> \in Ending /\ Tells("teachers", <<>>) BY TellsIs DEF Lone
  <2> HIDE DEF batch
  <2> QED BY <2>2, <2>3, <2>4, UpsertsTell
<1>2. ASSUME NEW b \in Bodies["teachers"], NEW r \in RowsOf("teachers"), PutTeacher(w, r, b)
      PROVE  Told /\ SavesUnshown'
  <2>1. r.table = "teachers" /\ r.id \in Nat BY DEF RowsOf, TablesInv, Sound
  <2>2. New(TeacherRow(r.id, b), "teachers") BY <2>1, OtherRows
  <2> QED BY <1>2, <2>1, <2>2, TellsIs, UpdatesTell DEF PutTeacher, New
<1>3. ASSUME NEW r \in RowsOf("teachers"), DeleteTeacher(w, r) PROVE Told /\ SavesUnshown'
  BY <1>3, TellsIs, HidesTell DEF DeleteTeacher
<1>4. ASSUME NEW b \in Bodies["teaches"], PostTeaches(w, b) PROVE Told /\ SavesUnshown'
  <2> DEFINE batch == <<TeachesRow(b)>>
  <2>1. New(TeachesRow(b), "teaches") BY OtherRows
  <2>2. Len(batch) \in Nat /\ \A i \in 1..Len(batch) : Proper(batch[i]) /\ batch[i].table = "teaches"
    BY <2>1 DEF New
  <2>3. Upserts(w, "teaches", batch, {"teacher", "subject"}, <<>>) BY <1>4 DEF PostTeaches
  <2>4. <<>> \in Ending /\ Tells("teaches", <<>>) BY TellsIs DEF Lone
  <2> HIDE DEF batch
  <2> QED BY <2>2, <2>3, <2>4, UpsertsTell
<1>5. ASSUME NEW r \in RowsOf("teaches"), DeleteTeaches(w, r) PROVE Told /\ SavesUnshown'
  BY <1>5, TellsIs, DeletesTell DEF DeleteTeaches, Lone
<1>6. ASSUME NEW b \in Bodies["subjects"], PostSubject(w, b) PROVE Told /\ SavesUnshown'
  BY <1>6, OtherRows, TellsIs, CreatesTell DEF PostSubject
<1>7. ASSUME NEW b \in Bodies["subjects"], NEW r \in RowsOf("subjects"), PutSubject(w, r, b) PROVE Told /\ SavesUnshown'
  BY <1>7, OtherRows, TellsIs, FindsTell DEF PutSubject
<1>8. ASSUME SaveSubject(w) PROVE Told /\ SavesUnshown' BY <1>8, SavesTell DEF SaveSubject
<1>9. ASSUME RestoreSubject(w) PROVE Told /\ SavesUnshown' BY <1>9, RestoresTell DEF RestoreSubject
<1>10. ASSUME NEW r \in RowsOf("subjects"), DeleteSubject(w, r) PROVE Told /\ SavesUnshown'
  BY <1>10, TellsIs, HidesTell DEF DeleteSubject
<1>11. ASSUME NEW r \in RowsOf("groups"), DeleteGroup(w, r) PROVE Told /\ SavesUnshown'
  BY <1>11, TellsIs, DeletesTell DEF DeleteGroup
<1> QED BY <1>1, <1>2, <1>3, <1>4, <1>5, <1>6, <1>7, <1>8, <1>9, <1>10, <1>11 DEF PeopleWrites

LEMMA CurriculumWritesTell ==
  ASSUME TablesInv, SavesUnshown, NEW w \in Officers, CurriculumWrites(w)
  PROVE  Told /\ SavesUnshown'
<1>1. ASSUME NEW b \in Bodies["specialties"], PostSpecialty(w, b) PROVE Told /\ SavesUnshown'
  BY <1>1, OtherRows, TellsIs, CreatesTell DEF PostSpecialty, Lone
<1>2. ASSUME NEW b \in Bodies["specialties"], NEW r \in RowsOf("specialties"), PutSpecialty(w, r, b) PROVE Told /\ SavesUnshown'
  BY <1>2, OtherRows, TellsIs, FindsTell DEF PutSpecialty, Lone
<1>3. ASSUME SaveSpecialty(w) PROVE Told /\ SavesUnshown' BY <1>3, SavesTell DEF SaveSpecialty
<1>4. ASSUME NEW r \in RowsOf("specialties"), DeleteSpecialty(w, r) PROVE Told /\ SavesUnshown'
  BY <1>4, TellsIs, DeletesTell DEF DeleteSpecialty, Lone
<1>5. ASSUME NEW b \in Bodies["curricula"], PostCurriculum(w, b) PROVE Told /\ SavesUnshown'
  BY <1>5, OtherRows, TellsIs, CreatesTell DEF PostCurriculum
<1>6. ASSUME NEW b \in Bodies["curricula"], NEW r \in RowsOf("curricula"), PutCurriculum(w, r, b) PROVE Told /\ SavesUnshown'
  BY <1>6, OtherRows, TellsIs, FindsTell DEF PutCurriculum
<1>7. ASSUME SaveCurriculum(w) PROVE Told /\ SavesUnshown' BY <1>7, SavesTell DEF SaveCurriculum
<1>8. ASSUME RestoreCurriculum(w) PROVE Told /\ SavesUnshown' BY <1>8, RestoresTell DEF RestoreCurriculum
<1>9. ASSUME NEW r \in RowsOf("curricula"), DeleteCurriculum(w, r) PROVE Told /\ SavesUnshown'
  BY <1>9, TellsIs, HidesTell DEF DeleteCurriculum
<1>10. ASSUME NEW b \in Bodies["items"], PostItem(w, b) PROVE Told /\ SavesUnshown'
  BY <1>10, OtherRows, TellsIs, CreatesTell DEF PostItem
<1>11. ASSUME NEW b \in Bodies["items"], NEW r \in RowsOf("items"), PutItem(w, r, b) PROVE Told /\ SavesUnshown'
  BY <1>11, OtherRows, TellsIs, FindsTell DEF PutItem
<1>12. ASSUME SaveItem(w) PROVE Told /\ SavesUnshown' BY <1>12, SavesTell DEF SaveItem
<1>13. ASSUME NEW r \in RowsOf("items"), DeleteItem(w, r) PROVE Told /\ SavesUnshown'
  BY <1>13, TellsIs, DeletesTell DEF DeleteItem
<1>14. ASSUME NEW batch \in Bodies["allocations"], PutAllocations(w, batch) PROVE Told /\ SavesUnshown'
  <2> DEFINE new == [i \in DOMAIN batch |-> AllocationRow(batch[i])]
  <2>1. Len(new) \in Nat /\ \A i \in 1..Len(new) : Proper(new[i]) /\ new[i].table = "allocations" BY BatchRows
  <2>2. Upserts(w, "allocations", new, {"item", "key"}, <<"announce">>) BY <1>14 DEF PutAllocations
  <2>3. <<"announce">> \in Ending /\ Tells("allocations", <<"announce">>) BY TellsIs DEF Lone
  <2> HIDE DEF new
  <2> QED BY <2>1, <2>2, <2>3, UpsertsTell
<1> QED BY <1>1, <1>2, <1>3, <1>4, <1>5, <1>6, <1>7, <1>8, <1>9, <1>10, <1>11, <1>12, <1>13, <1>14 DEF CurriculumWrites

LEMMA RestTells ==
  ASSUME SavesUnshown, UNCHANGED rows, UNCHANGED officer
  PROVE  Told /\ SavesUnshown'
BY SameTold DEF SavesUnshown

LEMMA NextTells ==
  ASSUME TablesInv, SavesUnshown, [TablesNext]_tableVars
  PROVE  Told /\ SavesUnshown'
<1>1. CASE UNCHANGED tableVars BY <1>1, RestTells DEF tableVars
<1>2. ASSUME NEW w \in Officers, Announces(w) PROVE Told /\ SavesUnshown'
  <2>1. Left(w, <<>>, None) /\ rows' = rows BY <1>2 DEF Announces, Done
  <2>2. <<>> # <<"save">> OBVIOUS
  <2> QED BY <2>1, <2>2, LeftUnshown, SameTold
<1>3. ASSUME NEW w \in Officers, RoomWrites(w) \/ PlanWrites(w) \/ PeopleWrites(w) \/ CurriculumWrites(w)
      PROVE  Told /\ SavesUnshown'
  BY <1>3, RoomWritesTell, PlanWritesTell, PeopleWritesTell, CurriculumWritesTell
<1>4. CASE RoomLists
  BY <1>4, RestTells
  DEF RoomLists, ListCampuses, ListLocations, ListTypes, ListPreferences, ListRequests,
      ListAvailability, ListRoomAssignments, Lists
<1>5. CASE PlanLists
  BY <1>5, RestTells
  DEF PlanLists, ListActivities, ListWeeks, ListConstraints, ListReplacements, ListDays, ListEvents, Lists
<1>6. CASE PeopleLists
  BY <1>6, RestTells
  DEF PeopleLists, ListTeachers, ListTeaches, ListSubjects, ListGroups, ListCourses, Lists
<1>7. CASE CurriculumLists
  BY <1>7, RestTells
  DEF CurriculumLists, ListSpecialties, ListCurricula, ListItems, ListAllocations, ListCalendars,
      ListCalendarWeeks, ListOverrides, Lists
<1>8. CASE NextPage BY <1>8, RestTells DEF NextPage
<1> QED BY <1>1, <1>2, <1>3, <1>4, <1>5, <1>6, <1>7, <1>8 DEF TablesNext

-----------------------------------------------------------------------------
(* Reading changes nothing but the page.                                   *)
LEMMA ListsKeep ==
  ASSUME TablesInv, UNCHANGED <<shelf, rows, nextId, officer>>
  PROVE  TablesInv'
BY DEF TablesInv, Waits

LEMMA TablesKeep == TablesInv /\ [TablesNext]_tableVars => TablesInv'
<1> SUFFICES ASSUME TablesInv, [TablesNext]_tableVars PROVE TablesInv' OBVIOUS
<1>1. CASE UNCHANGED tableVars BY <1>1, ListsKeep DEF tableVars
<1>2. ASSUME NEW w \in Officers, Announces(w) PROVE TablesInv'
  <2>1. Done(w) /\ UNCHANGED <<shelf, rows, nextId>> BY <1>2 DEF Announces
  <2> QED BY <2>1, Stays DEF TablesInv
<1>3. ASSUME NEW w \in Officers, RoomWrites(w) \/ PlanWrites(w) \/ PeopleWrites(w) \/ CurriculumWrites(w)
      PROVE  TablesInv'
  BY <1>3, RoomWritesKeep, PlanWritesKeep, PeopleWritesKeep, CurriculumWritesKeep
<1>4. CASE RoomLists
  BY <1>4, ListsKeep
  DEF RoomLists, ListCampuses, ListLocations, ListTypes, ListPreferences, ListRequests,
      ListAvailability, ListRoomAssignments, Lists
<1>5. CASE PlanLists
  BY <1>5, ListsKeep
  DEF PlanLists, ListActivities, ListWeeks, ListConstraints, ListReplacements, ListDays, ListEvents, Lists
<1>6. CASE PeopleLists
  BY <1>6, ListsKeep
  DEF PeopleLists, ListTeachers, ListTeaches, ListSubjects, ListGroups, ListCourses, Lists
<1>7. CASE CurriculumLists
  BY <1>7, ListsKeep
  DEF CurriculumLists, ListSpecialties, ListCurricula, ListItems, ListAllocations, ListCalendars,
      ListCalendarWeeks, ListOverrides, Lists
<1>8. CASE NextPage BY <1>8, ListsKeep DEF NextPage
<1> QED BY <1>1, <1>2, <1>3, <1>4, <1>5, <1>6, <1>7, <1>8 DEF TablesNext

THEOREM TablesInvariant == TablesSpec => []TablesInv
BY TablesStart, TablesKeep, PTL DEF TablesSpec

(* RowsSound: whatever order the statements of any number of requests come *)
(* in, ids and keys are unique and every reference leads to a row.         *)
THEOREM RowsStaySound == TablesSpec => []RowsSound
<1>1. TablesInv => RowsSound BY DEF TablesInv, Sound, Proper, RowsSound
<1> QED BY <1>1, TablesInvariant, PTL

THEOREM PagesInvariant == TablesSpec => [](TablesInv /\ PageInv)
<1>1. TablesInit => PageInv BY DEF TablesInit, PageInv
<1> QED BY <1>1, TablesStart, TablesKeep, PagesKeep, PTL DEF TablesSpec

(* PagesComplete: the order of every list that has pages tells rows apart, *)
(* so a client that follows the offset gets every row once, whatever its   *)
(* limit.  The links come whole and are no such list.                      *)
THEOREM PagesAreComplete == TablesSpec => []PagesComplete
<1>1. PageInv => PagesComplete BY DEF PageInv, GotFirst, PagesComplete
<1> QED BY <1>1, PagesInvariant, PTL

(* TreeShowsAll: of all items of a curriculum, and of any page of them,    *)
(* the tree shows those whose parents do not lead into a circle.           *)
THEOREM TreesShowAll == TablesSpec => []TreeShowsAll
<1>1. ASSUME TablesInv, PageInv PROVE TreeShowsAll
  <2>1. \A c : TreeOf(Listed("items", [column |-> "curriculum", id |-> c]))
    BY <1>1, ListedSound, TreeShows DEF TablesInv
  <2>2. ASSUME page # None, NEW i \in DOMAIN page.got PROVE TreeOf(page.got[i])
    BY <1>1, <2>2, TreeShows DEF PageInv
  <2> QED BY <2>1, <2>2 DEF TreeShowsAll
<1> QED BY <1>1, PagesInvariant, PTL

(* ShownChangesAnnounced: what weeks show, campuses and activities apart,  *)
(* only changes in a request that has the announcement of a new version    *)
(* left to do.                                                             *)
THEOREM ChangesAreTold == TablesSpec => ShownChangesAnnounced
<1>1. TablesInit => SavesUnshown
  <2>1. <<>> # <<"save">> OBVIOUS
  <2> QED BY <2>1 DEF TablesInit, SavesUnshown, NoRequest
<1>2. TablesInv /\ SavesUnshown /\ [TablesNext]_tableVars => SavesUnshown' /\ [Told]_tableVars
  BY NextTells
<1>3. TablesSpec => [][Told]_tableVars BY <1>1, <1>2, TablesStart, TablesKeep, PTL DEF TablesSpec
<1> QED BY <1>3, PTL DEF ShownChangesAnnounced, Told
=============================================================================
