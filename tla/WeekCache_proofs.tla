--------------------------- MODULE WeekCache_proofs ---------------------------
(***************************************************************************)
(* For any number of writers, readers, periods and seconds: a week that is  *)
(* answered holds every change announced before the request came, unless   *)
(* its version was written twice.  The invariant IInv says what a version  *)
(* promises (the data when it was last written) and that the cache, the    *)
(* weeks under construction and the answers keep that promise.             *)
(***************************************************************************)
EXTENDS WeekCache, FiniteSetTheorems, TLAPS

USE ConstantsOK

LEMMA CoversTransitive ==
    ASSUME NEW a \in Week, NEW b \in Week, NEW c \in Week, Covers(a, b), Covers(b, c)
    PROVE  Covers(a, c)
BY DEF Covers, Week, Query

LEMMA CoversReflexive == ASSUME NEW a \in Week PROVE Covers(a, a)
BY DEF Covers, Week, Query

LEMMA EmptyIsLeast == ASSUME NEW a \in Week PROVE Empty \in Week /\ Covers(a, Empty)
BY DEF Covers, Week, Query, Empty

\* A change raises one cell of one week and leaves the others alone.
LEMMA ChangeGrows ==
    ASSUME data \in [Period -> Week], NEW x \in Period, NEW q \in Query,
           NEW now, now = [data EXCEPT ![x][q] = @ + 1]
    PROVE  /\ now \in [Period -> Week]
           /\ \A y \in Period : Covers(now[y], data[y])
BY DEF Covers, Week, Query

\* Data that has grown still covers what was published before.
LEMMA PublishedStaysCovered ==
    ASSUME TypeOK, Promises, NEW now \in [Period -> Week],
           \A y \in Period : Covers(now[y], data[y])
    PROVE  \A v \in Second : \A x \in Period : Covers(now[x], pub[v][x])
<1> TAKE v \in Second
<1> TAKE x \in Period
<1>1. now[x] \in Week /\ data[x] \in Week /\ pub[v][x] \in Week
  BY DEF TypeOK
<1>2. Covers(now[x], data[x]) /\ Covers(data[x], pub[v][x])
  BY DEF Promises
<1> QED BY <1>1, <1>2, CoversTransitive

-----------------------------------------------------------------------------
LEMMA InitHolds == Init => IInv
<1> SUFFICES ASSUME Init PROVE IInv OBVIOUS
<1>0. (CHOOSE j \in Job : TRUE) \in Job /\ (CHOOSE x \in Period : TRUE) \in Period
  <2>1. PICK x \in Period, k \in Kinds : TRUE OBVIOUS
  <2>2. [period |-> x, query |-> 1, kind |-> k] \in Job BY DEF Job, Query
  <2> QED BY <2>1, <2>2
<1>1. 0 \in Second /\ 1 \in Second /\ Empty \in Week BY DEF Second, Week, Empty
<1>2. TypeOK
  BY <1>0, <1>1 DEF Init, TypeOK, Second
<1>3. Promises
  BY <1>1, CoversReflexive DEF Init, Promises
<1>4. CacheKeeps /\ CacheBounded BY DEF Init, CacheKeeps, CacheBounded
<1>5. \A r \in Reader : ReaderKeeps(r)
  BY <1>1, CoversReflexive DEF Init, ReaderKeeps
<1> QED BY <1>2, <1>3, <1>4, <1>5 DEF IInv

-----------------------------------------------------------------------------
(* Writing the version. *)

\* What WriteStamp does to the promises, given data that has grown.
LEMMA StampKeeps ==
    ASSUME IInv, NEW v \in Second, NEW now \in [Period -> Week],
           \A y \in Period : Covers(now[y], data[y]),
           WriteStamp(v, now), data' = now,
           UNCHANGED <<items, order, rpc, period, version, built, next, floor>>
    PROVE  /\ Promises'
           /\ CacheKeeps'
           /\ \A r \in Reader : ReaderKeeps(r)'
           /\ stored' \in Second /\ announced' \in [Period -> Week]
           /\ pub' \in [Second -> [Period -> Week]] /\ times' \in [Second -> Nat]
<1> USE DEF IInv
<1>1. TypeOK /\ Promises /\ CacheKeeps OBVIOUS
<1>2. /\ stored' \in Second /\ announced' \in [Period -> Week]
      /\ pub' \in [Second -> [Period -> Week]] /\ times' \in [Second -> Nat]
  BY <1>1 DEF WriteStamp, TypeOK
<1>3. /\ pub'[v] = now /\ times'[v] = times[v] + 1
      /\ \A u \in Second \ {v} : pub'[u] = pub[u] /\ times'[u] = times[u]
  BY <1>1 DEF WriteStamp, TypeOK
<1>4. \A u \in Second : times[u] \in Nat
  BY <1>1 DEF TypeOK
<1>5. Promises'
  <2>1. announced' = pub'[stored'] /\ times'[stored'] >= 1
    BY <1>3, <1>4 DEF WriteStamp
  <2>2. ASSUME NEW u \in Second, NEW x \in Period PROVE Covers(data'[x], pub'[u][x])
    <3>1. CASE u = v
      BY <3>1, <1>3, CoversReflexive
    <3>2. CASE u # v
      BY <3>2, <1>1, <1>3, PublishedStaysCovered
    <3> QED BY <3>1, <3>2
  <2> QED BY <2>1, <2>2 DEF Promises
\* A version written before is not written once any more; others are as they were.
<1>6. \A u \in Second : times[u] >= 1 =>
         /\ times'[u] >= 1
         /\ times'[u] > 1 \/ (times'[u] = times[u] /\ pub'[u] = pub[u])
  BY <1>3, <1>4
<1>7. CacheKeeps'
  <2> SUFFICES ASSUME NEW k \in DOMAIN items
               PROVE  /\ times'[k.version] >= 1
                      /\ times'[k.version] = 1 =>
                           Covers(items[k], pub'[k.version][k.period])
    BY DEF CacheKeeps, Once
  <2>1. k.version \in Second
    BY <1>1 DEF TypeOK, Key
  <2>2. /\ times[k.version] >= 1
        /\ times[k.version] = 1 => Covers(items[k], pub[k.version][k.period])
    BY <1>1 DEF CacheKeeps, Once
  <2>3. times'[k.version] \in Nat
    BY <1>2, <2>1
  <2> QED BY <1>6, <2>1, <2>2, <2>3
<1>8. \A x \in Period : Covers(announced'[x], announced[x])
  <2> TAKE x \in Period
  <2>1. Covers(now[x], data[x]) /\ Covers(data[x], announced[x])
    BY <1>1 DEF Promises, TypeOK
  <2>2. now[x] \in Week /\ data[x] \in Week /\ announced[x] \in Week
    BY <1>1 DEF TypeOK
  <2> QED BY <2>1, <2>2, CoversTransitive DEF WriteStamp
<1>9. ASSUME NEW r \in Reader PROVE ReaderKeeps(r)'
  <2>1. ReaderKeeps(r) OBVIOUS
  <2>2. version[r] \in Second /\ period[r] \in Period /\ floor[r] \in Week
    BY <1>1 DEF TypeOK
  <2>3. times'[version[r]] \in Nat
    BY <1>2, <2>2
  <2>4. rpc[r] = "asked" => Covers(announced'[period[r]], floor[r])
    <3>1. announced'[period[r]] \in Week /\ announced[period[r]] \in Week
      BY <1>1, <1>2, <2>2 DEF TypeOK
    <3> QED BY <2>1, <2>2, <1>8, <3>1, CoversTransitive DEF ReaderKeeps
  <2>5. rpc[r] \in {"lookup", "query", "store"} =>
          /\ times'[version[r]] >= 1
          /\ times'[version[r]] = 1 =>
               /\ Covers(pub'[version[r]][period[r]], floor[r])
               /\ \A q \in Query : q < next[r] =>
                     built[r][q] >= pub'[version[r]][period[r]][q]
    BY <2>1, <2>2, <2>3, <1>6 DEF ReaderKeeps, Once
  <2>6. times[version[r]] > 1 => times'[version[r]] > 1
    BY <2>2, <2>3, <1>3, <1>4
  <2> QED BY <2>1, <2>4, <2>5, <2>6 DEF ReaderKeeps, Once
<1> QED BY <1>2, <1>5, <1>7, <1>9

\* A change of the data alone disturbs no promise.
LEMMA ChangeKeeps ==
    ASSUME IInv, NEW x \in Period, NEW q \in Query,
           data' = [data EXCEPT ![x][q] = @ + 1],
           UNCHANGED <<stored, items, order, rpc, period, version, built, next, floor,
                       announced, pub, times>>
    PROVE  /\ Promises' /\ CacheKeeps' /\ \A r \in Reader : ReaderKeeps(r)'
           /\ data' \in [Period -> Week]
<1>1. TypeOK /\ Promises /\ CacheKeeps BY DEF IInv
<1>2. /\ data' \in [Period -> Week] /\ \A y \in Period : Covers(data'[y], data[y])
  BY <1>1, ChangeGrows DEF TypeOK
<1>3. Promises'
  BY <1>1, <1>2, PublishedStaysCovered DEF Promises
<1>4. CacheKeeps' BY <1>1 DEF CacheKeeps, Once
<1>5. ASSUME NEW r \in Reader PROVE ReaderKeeps(r)'
  BY DEF IInv, ReaderKeeps, Once
<1> QED BY <1>2, <1>3, <1>4, <1>5

\* acked stays a record of weeks.
LEMMA AcknowledgeKeepsType ==
    ASSUME TypeOK, NEW w \in Writer, NEW now \in [Period -> Week],
           Acknowledge(w, now)
    PROVE  acked' \in [Period -> Week]
<1>1. job[w].period \in Period /\ job[w].query \in Query BY DEF TypeOK, Job
<1>2. now[job[w].period][job[w].query] \in Nat BY <1>1 DEF Week
<1> QED BY <1>1, <1>2 DEF Acknowledge, TypeOK, Week

LEMMA QueueUntouched == CacheBounded /\ UNCHANGED <<items, order>> => CacheBounded'
BY DEF CacheBounded

LEMMA WritersKeep ==
    ASSUME IInv, NEW w \in Writer, Write(w)
    PROVE  IInv'
<1>1. TypeOK /\ Promises /\ CacheKeeps /\ \A r \in Reader : ReaderKeeps(r) BY DEF IInv
<1>b. CacheBounded'
  BY QueueUntouched DEF IInv, Write, BeginTx, CommitTx, RollBackTx, Change, ReadClock,
                        WriteVersion, LoseBump, ChangeSilently, cacheVars
<1>2. job[w].period \in Period /\ job[w].query \in Query /\ stamp[w] \in Second
  BY <1>1 DEF TypeOK, Job
<1> USE DEF vars, dbVars, cacheVars, writerVars, readerVars, history
<1>a. ASSUME UNCHANGED <<stored, data, items, readerVars, announced, pub, times>>
      PROVE  Promises' /\ CacheKeeps' /\ \A r \in Reader : ReaderKeeps(r)'
  BY <1>1, <1>a DEF Promises, CacheKeeps, ReaderKeeps, Once
<1>3. CASE BeginTx(w)
  <2>1. TypeOK' BY <1>1, <1>3 DEF TypeOK, BeginTx, GotoW
  <2> QED BY <2>1, <1>a, <1>b, <1>3 DEF IInv, BeginTx
<1>4. CASE CommitTx(w)
  <2>1. data' \in [Period -> Week] /\ \A y \in Period : Covers(data'[y], data[y])
    BY <1>1, <1>2, <1>4, ChangeGrows DEF TypeOK, CommitTx, Changed
  <2>2. /\ Promises' /\ CacheKeeps' /\ \A r \in Reader : ReaderKeeps(r)'
        /\ stored' \in Second /\ announced' \in [Period -> Week]
        /\ pub' \in [Second -> [Period -> Week]] /\ times' \in [Second -> Nat]
    BY <1>2, <1>4, <2>1, StampKeeps DEF CommitTx
  <2>3. acked' \in [Period -> Week]
    BY <1>1, <1>4, <2>1, AcknowledgeKeepsType DEF CommitTx
  <2>4. TypeOK'
    BY <1>1, <1>4, <2>1, <2>2, <2>3 DEF TypeOK, CommitTx, GotoW
  <2> QED BY <1>b, <2>2, <2>4 DEF IInv
<1>5. CASE RollBackTx(w)
  <2>1. TypeOK' BY <1>1, <1>5 DEF TypeOK, RollBackTx, GotoW
  <2> QED BY <2>1, <1>a, <1>b, <1>5 DEF IInv, RollBackTx
<1>6. CASE Change(w)
  <2> PICK j \in Job : /\ job' = [job EXCEPT ![w] = j]
                       /\ data' = [data EXCEPT ![j.period][j.query] = @ + 1]
    BY <1>6 DEF Change
  <2>1. j.period \in Period /\ j.query \in Query BY DEF Job
  <2>2. /\ Promises' /\ CacheKeeps' /\ \A r \in Reader : ReaderKeeps(r)'
        /\ data' \in [Period -> Week]
    BY <1>6, <2>1, ChangeKeeps DEF Change
  <2>3. TypeOK' BY <1>1, <1>6, <2>2 DEF TypeOK, Change, GotoW
  <2> QED BY <1>b, <2>2, <2>3 DEF IInv
<1>7. CASE ReadClock(w)
  <2>1. TypeOK' BY <1>1, <1>7 DEF TypeOK, ReadClock, GotoW
  <2> QED BY <2>1, <1>a, <1>b, <1>7 DEF IInv, ReadClock
<1>8. CASE WriteVersion(w)
  <2>1. data \in [Period -> Week] /\ \A y \in Period : Covers(data[y], data[y])
    BY <1>1, CoversReflexive DEF TypeOK
  <2>2. /\ Promises' /\ CacheKeeps' /\ \A r \in Reader : ReaderKeeps(r)'
        /\ stored' \in Second /\ announced' \in [Period -> Week]
        /\ pub' \in [Second -> [Period -> Week]] /\ times' \in [Second -> Nat]
    BY <1>2, <1>8, <2>1, StampKeeps DEF WriteVersion
  <2>3. acked' \in [Period -> Week]
    BY <1>1, <1>8, <2>1, AcknowledgeKeepsType DEF WriteVersion
  <2>4. TypeOK'
    BY <1>1, <1>8, <2>2, <2>3 DEF TypeOK, WriteVersion, GotoW
  <2> QED BY <1>b, <2>2, <2>4 DEF IInv
<1>9. CASE LoseBump(w)
  <2>1. acked' \in [Period -> Week]
    BY <1>1, <1>9, AcknowledgeKeepsType DEF LoseBump, TypeOK
  <2>2. TypeOK' BY <1>1, <1>9, <2>1 DEF TypeOK, LoseBump, GotoW
  <2> QED BY <2>2, <1>a, <1>b, <1>9 DEF IInv, LoseBump
<1>10. CASE ChangeSilently(w)
  <2> PICK j \in Job :
        /\ job' = [job EXCEPT ![w] = j]
        /\ data' = [data EXCEPT ![j.period][j.query] = @ + 1]
        /\ acked' = [acked EXCEPT ![j.period][j.query] = data'[j.period][j.query]]
    BY <1>10 DEF ChangeSilently
  <2>1. j.period \in Period /\ j.query \in Query BY DEF Job
  <2>2. /\ Promises' /\ CacheKeeps' /\ \A r \in Reader : ReaderKeeps(r)'
        /\ data' \in [Period -> Week]
    BY <1>10, <2>1, ChangeKeeps DEF ChangeSilently
  <2>3. acked' \in [Period -> Week]
    <3>1. data'[j.period][j.query] \in Nat BY <2>1, <2>2 DEF Week
    <3> QED BY <1>1, <2>1, <3>1 DEF TypeOK, Week
  <2>4. TypeOK' BY <1>1, <1>10, <2>2, <2>3 DEF TypeOK, ChangeSilently, GotoW
  <2> QED BY <1>b, <2>2, <2>4 DEF IInv
<1> QED BY <1>3, <1>4, <1>5, <1>6, <1>7, <1>8, <1>9, <1>10 DEF Write

-----------------------------------------------------------------------------
(* The eviction queue. *)

\* A queue without repetitions is as long as the set it lists is large.
LEMMA QueueLength ==
    ASSUME NEW s \in Seq(Key), NEW K, {s[i] : i \in 1 .. Len(s)} = K,
           \A i, j \in 1 .. Len(s) : s[i] = s[j] => i = j
    PROVE  Cardinality(K) = Len(s)
<1>1. s \in [1 .. Len(s) -> K]
  <2>1. s \in [1 .. Len(s) -> Key] OBVIOUS
  <2>2. \A i \in 1 .. Len(s) : s[i] \in K OBVIOUS
  <2> HIDE DEF Key
  <2> QED BY <2>1, <2>2, Zenon
<1>2. s \in Injection(1 .. Len(s), K)
  <2>1. \A i, j \in 1 .. Len(s) : s[i] = s[j] => i = j OBVIOUS
  <2>2. DOMAIN s = 1 .. Len(s) OBVIOUS
  <2> QED BY <1>1, <2>1, <2>2, Zenon DEF Injection, IsInjective
<1>3. s \in Surjection(1 .. Len(s), K)
  <2>1. \A k \in K : \E i \in 1 .. Len(s) : s[i] = k OBVIOUS
  <2> QED BY <1>1, <2>1, Zenon DEF Surjection
<1>4. ExistsBijection(1 .. Len(s), K) BY <1>2, <1>3 DEF ExistsBijection, Bijection
<1> QED BY <1>4, FS_CountingElements

\* Eviction makes room for one key and keeps queue and cache in step.
LEMMA EvictionKeeps ==
    ASSUME order \in Seq(Key), CacheBounded
    PROVE  LET e == Evicted
           IN  /\ e.order \in Seq(Key) /\ Len(e.order) < MaxEntries
               /\ e.keys \subseteq DOMAIN items
               /\ {e.order[i] : i \in 1 .. Len(e.order)} = e.keys
               /\ \A i, j \in 1 .. Len(e.order) : e.order[i] = e.order[j] => i = j
<1>1. Cardinality(DOMAIN items) = Len(order)
  BY QueueLength DEF CacheBounded
<1>2. CASE Len(order) >= MaxEntries
  <2> DEFINE t == Tail(order)
  <2>1. Evicted = [keys |-> DOMAIN items \ {Head(order)}, order |-> t]
    BY <1>1, <1>2 DEF Evicted
  <2>2. /\ Len(order) = MaxEntries /\ order # << >> /\ Head(order) = order[1]
        /\ t \in Seq(Key) /\ Len(t) = Len(order) - 1
        /\ \A i \in 1 .. Len(t) : t[i] = order[i + 1]
    BY <1>2 DEF CacheBounded
  <2>3. \A i, j \in 1 .. Len(t) : t[i] = t[j] => i = j
    <3> TAKE i, j \in 1 .. Len(t)
    <3>1. i + 1 \in 1 .. Len(order) /\ j + 1 \in 1 .. Len(order) BY <2>2
    <3> QED BY <2>2, <3>1 DEF CacheBounded
  <2>4. {t[i] : i \in 1 .. Len(t)} = DOMAIN items \ {Head(order)}
    <3>1. ASSUME NEW i \in 1 .. Len(t) PROVE t[i] \in DOMAIN items \ {Head(order)}
      <4>1. i + 1 \in 1 .. Len(order) /\ 1 \in 1 .. Len(order) BY <2>2
      <4>2. order[i + 1] # order[1] BY <4>1 DEF CacheBounded
      <4> QED BY <2>2, <4>1, <4>2 DEF CacheBounded
    <3>2. ASSUME NEW k \in DOMAIN items \ {Head(order)}
          PROVE  \E i \in 1 .. Len(t) : t[i] = k
      <4>1. PICK n \in 1 .. Len(order) : order[n] = k BY <3>2 DEF CacheBounded
      <4>2. n # 1 BY <2>2, <3>2, <4>1
      <4>3. n - 1 \in 1 .. Len(t) /\ (n - 1) + 1 = n BY <2>2, <4>1, <4>2
      <4>4. t[n - 1] = k BY <2>2, <4>1, <4>3
      <4> QED BY <4>3, <4>4
    <3> QED BY <3>1, <3>2
  <2> QED BY <2>1, <2>2, <2>3, <2>4
<1>3. CASE Len(order) < MaxEntries
  <2>1. Evicted = [keys |-> DOMAIN items, order |-> order]
    BY <1>1, <1>3 DEF Evicted
  <2> QED BY <1>3, <2>1 DEF CacheBounded
<1> QED BY <1>2, <1>3

\* A new key at the end of the queue.
LEMMA AppendKeeps ==
    ASSUME NEW s \in Seq(Key), NEW k \in Key, NEW K, Len(s) < MaxEntries,
           {s[i] : i \in 1 .. Len(s)} = K, k \notin K,
           \A i, j \in 1 .. Len(s) : s[i] = s[j] => i = j
    PROVE  LET a == Append(s, k)
           IN  /\ a \in Seq(Key) /\ Len(a) <= MaxEntries
               /\ {a[i] : i \in 1 .. Len(a)} = K \cup {k}
               /\ \A i, j \in 1 .. Len(a) : a[i] = a[j] => i = j
<1> DEFINE a == Append(s, k)
<1>1. /\ a \in Seq(Key) /\ Len(a) = Len(s) + 1 /\ a[Len(s) + 1] = k
      /\ \A i \in 1 .. Len(s) : a[i] = s[i]
  OBVIOUS
<1>2. \A i \in 1 .. Len(a) : i \in 1 .. Len(s) \/ i = Len(s) + 1
  BY <1>1
<1>3. {a[i] : i \in 1 .. Len(a)} = K \cup {k}
  <2>1. ASSUME NEW i \in 1 .. Len(a) PROVE a[i] \in K \cup {k}
    BY <1>1, <1>2
  <2>2. ASSUME NEW x \in K PROVE \E i \in 1 .. Len(a) : a[i] = x
    <3>1. PICK i \in 1 .. Len(s) : s[i] = x OBVIOUS
    <3> QED BY <1>1, <3>1
  <2>3. \E i \in 1 .. Len(a) : a[i] = k
    <3>1. Len(s) + 1 \in 1 .. Len(a) BY <1>1
    <3> QED BY <1>1, <3>1
  <2> QED BY <2>1, <2>2, <2>3
<1>4. \A i, j \in 1 .. Len(a) : a[i] = a[j] => i = j
  <2> SUFFICES ASSUME NEW i \in 1 .. Len(a), NEW j \in 1 .. Len(a), a[i] = a[j]
               PROVE  i = j
    OBVIOUS
  <2>1. \A n \in 1 .. Len(s) : a[n] # k BY <1>1
  <2> QED BY <1>1, <1>2, <2>1
<1>5. Len(a) <= MaxEntries BY <1>1
<1> QED BY <1>1, <1>3, <1>4, <1>5

-----------------------------------------------------------------------------
(* Readers, the clock and the crash. *)

LEMMA ReadersKeep ==
    ASSUME IInv, NEW r \in Reader, Read(r)
    PROVE  IInv'
<1>1. TypeOK /\ CacheBounded /\ Promises /\ CacheKeeps /\ \A s \in Reader : ReaderKeeps(s) BY DEF IInv
<1>2. /\ period[r] \in Period /\ version[r] \in Second /\ built[r] \in Week
      /\ next[r] \in 1 .. NQueries + 1 /\ floor[r] \in Week
  BY <1>1 DEF TypeOK
<1> USE DEF vars, dbVars, cacheVars, writerVars, readerVars, history
<1>a. UNCHANGED <<stored, data, announced, pub, times>> => Promises'
  BY <1>1 DEF Promises
<1>b. UNCHANGED <<items, order, pub, times>> => CacheKeeps' /\ CacheBounded'
  BY <1>1, QueueUntouched DEF CacheKeeps, Once
\* The other readers are where they were.
<1>c. ASSUME UNCHANGED <<announced, pub, times>>, NEW s \in Reader, s # r,
             rpc'[s] = rpc[s], period'[s] = period[s], version'[s] = version[s],
             built'[s] = built[s], next'[s] = next[s], floor'[s] = floor[s]
      PROVE  ReaderKeeps(s)'
  BY <1>1, <1>c DEF ReaderKeeps, Once
<1>3. CASE Ask(r)
  <2> PICK x \in Period : /\ period' = [period EXCEPT ![r] = x]
                         /\ floor' = [floor EXCEPT ![r] = announced[x]]
                         /\ ackFloor' = [ackFloor EXCEPT ![r] = acked[x]]
    BY <1>3 DEF Ask
  <2>1. announced[x] \in Week /\ acked[x] \in Week /\ Empty \in Week
    BY <1>1, EmptyIsLeast DEF TypeOK
  <2>2. TypeOK' BY <1>1, <1>3, <2>1 DEF TypeOK, Ask, GotoR
  <2>3. rpc'[r] = "asked" /\ next'[r] = 1 /\ period'[r] = x /\ floor'[r] = announced[x]
    BY <1>1, <1>3 DEF TypeOK, Ask, GotoR
  <2>4. ReaderKeeps(r)'
    BY <1>3, <2>1, <2>3, CoversReflexive DEF ReaderKeeps, Ask
  <2>5. ASSUME NEW s \in Reader, s # r PROVE ReaderKeeps(s)'
    BY <1>1, <1>3, <2>5, <1>c DEF Ask, GotoR, TypeOK
  <2> QED BY <1>a, <1>b, <1>3, <2>2, <2>4, <2>5 DEF IInv, Ask
<1>4. CASE ReadVersion(r)
  <2>1. TypeOK' BY <1>1, <1>4 DEF TypeOK, ReadVersion, GotoR
  <2>2. /\ rpc[r] = "asked" /\ version'[r] = stored
        /\ rpc'[r] = IF period[r] \in Canonical THEN "lookup" ELSE "query"
        /\ UNCHANGED <<period, built, next, floor, announced, pub, times>>
    BY <1>1, <1>4 DEF TypeOK, ReadVersion, GotoR
  <2>3. Covers(pub[stored][period[r]], floor[r]) /\ times[stored] >= 1 /\ next[r] = 1
    BY <1>1, <2>2 DEF ReaderKeeps, Promises
  <2>4. ReaderKeeps(r)'
    BY <2>2, <2>3 DEF ReaderKeeps, Once, Query
  <2>5. ASSUME NEW s \in Reader, s # r PROVE ReaderKeeps(s)'
    BY <1>1, <1>4, <2>5, <1>c DEF ReadVersion, GotoR, TypeOK
  <2> QED BY <1>a, <1>b, <1>4, <2>1, <2>4, <2>5 DEF IInv, ReadVersion
<1>5. CASE LookUp(r)
  <2>0. CacheKey(r) \in DOMAIN items => items[CacheKey(r)] \in Week
    BY <1>1 DEF TypeOK
  <2>1. TypeOK' BY <1>1, <1>5, <2>0 DEF TypeOK, LookUp, GotoR
  <2>2. /\ rpc[r] = "lookup" /\ times[version[r]] >= 1 /\ next[r] = 1
        /\ times[version[r]] \in Nat
        /\ Once(version[r]) => Covers(pub[version[r]][period[r]], floor[r])
    BY <1>1, <1>2, <1>5 DEF LookUp, ReaderKeeps, TypeOK
  <2>3. ReaderKeeps(r)'
    <3>1. CASE CacheKey(r) \in DOMAIN items
      <4>1. rpc'[r] = "idle" /\ built'[r] = items[CacheKey(r)]
        BY <1>1, <1>5, <3>1 DEF LookUp, GotoR, TypeOK
      <4>2. Once(version[r]) =>
              Covers(items[CacheKey(r)], pub[version[r]][period[r]])
        BY <1>1, <3>1 DEF CacheKeeps, CacheKey
      <4>3. pub[version[r]][period[r]] \in Week
        BY <1>1, <1>2 DEF TypeOK
      <4>4. Covers(items[CacheKey(r)], floor[r]) \/ times[version[r]] > 1
        <5>1. CASE Once(version[r])
          BY <1>2, <2>0, <2>2, <3>1, <4>2, <4>3, <5>1, CoversTransitive
        <5>2. CASE ~Once(version[r])
          BY <2>2, <5>2 DEF Once
        <5> QED BY <5>1, <5>2
      <4> QED BY <1>5, <4>1, <4>4 DEF LookUp, ReaderKeeps
    <3>2. CASE CacheKey(r) \notin DOMAIN items
      <4>1. rpc'[r] = "query" /\ built' = built
        BY <1>1, <1>5, <3>2 DEF LookUp, GotoR, TypeOK
      <4> QED BY <1>1, <1>5, <2>2, <4>1 DEF LookUp, ReaderKeeps, Once
    <3> QED BY <3>1, <3>2
  <2>4. ASSUME NEW s \in Reader, s # r PROVE ReaderKeeps(s)'
    <3>1. rpc'[s] = rpc[s] /\ built'[s] = built[s]
      BY <1>1, <1>5, <2>4 DEF LookUp, GotoR, TypeOK
    <3> QED BY <1>5, <2>4, <3>1, <1>c DEF LookUp
  <2> QED BY <1>a, <1>b, <1>5, <2>1, <2>3, <2>4 DEF IInv, LookUp
<1>6. CASE RunQuery(r)
  <2>1. /\ rpc[r] = "query" /\ next[r] \in Query
        /\ data[period[r]] \in Week /\ data[period[r]][next[r]] \in Nat
    BY <1>1, <1>2, <1>6 DEF TypeOK, RunQuery, Week
  <2>2. /\ next'[r] = next[r] + 1
        /\ built' = [built EXCEPT ![r][next[r]] = data[period[r]][next[r]]]
        /\ built'[r] \in Week
        /\ built'[r][next[r]] = data[period[r]][next[r]]
        /\ \A q \in Query \ {next[r]} : built'[r][q] = built[r][q]
        /\ UNCHANGED <<period, version, floor, announced, pub, times>>
    BY <1>1, <1>2, <1>6, <2>1 DEF TypeOK, RunQuery, Week
  <2>3. rpc'[r] = IF next[r] < NQueries THEN "query"
                  ELSE IF period[r] \in Canonical THEN "store" ELSE "idle"
    BY <1>1, <1>6 DEF TypeOK, RunQuery, GotoR
  <2>4. next'[r] \in 1 .. NQueries + 1
    BY <2>1, <2>2 DEF Query
  <2>5. TypeOK'
    <3>1. rpc' \in [Reader -> {"idle", "asked", "lookup", "query", "store"}]
      BY <1>1, <1>6 DEF TypeOK, RunQuery, GotoR
    <3>2. built' \in [Reader -> Week] /\ next' \in [Reader -> 1 .. NQueries + 1]
      BY <1>1, <1>6, <2>2, <2>4 DEF TypeOK, RunQuery
    <3> QED BY <1>1, <1>6, <3>1, <3>2 DEF TypeOK, RunQuery
  <2>6. Once(version[r]) => \A q \in Query : q < next'[r] =>
                              built'[r][q] >= pub[version[r]][period[r]][q]
    <3> SUFFICES ASSUME Once(version[r]), NEW q \in Query, q < next[r] + 1
                 PROVE  built'[r][q] >= pub[version[r]][period[r]][q]
      BY <2>2
    <3>1. CASE q = next[r]
      BY <1>1, <1>2, <2>2, <3>1 DEF Promises, Covers
    <3>2. CASE q # next[r]
      <4>1. q < next[r] BY <1>2, <3>2 DEF Query
      <4> QED BY <1>1, <2>1, <2>2, <3>2, <4>1 DEF ReaderKeeps
    <3> QED BY <3>1, <3>2
  <2>7. /\ times[version[r]] >= 1 /\ times[version[r]] \in Nat
        /\ Once(version[r]) => Covers(pub[version[r]][period[r]], floor[r])
    BY <1>1, <1>2, <2>1 DEF ReaderKeeps, TypeOK
  <2>8. ReaderKeeps(r)'
    <3>1. CASE rpc'[r] = "idle"
      <4>1. next'[r] = NQueries + 1 BY <1>2, <2>2, <2>3, <2>1, <3>1 DEF Query
      <4>2. pub[version[r]][period[r]] \in Week BY <1>1, <1>2 DEF TypeOK
      <4>3. Once(version[r]) => Covers(built'[r], pub[version[r]][period[r]])
        BY <2>6, <4>1 DEF Covers, Query
      <4>4. Covers(built'[r], floor[r]) \/ times[version[r]] > 1
        <5>1. CASE Once(version[r])
          BY <1>2, <2>2, <2>7, <4>2, <4>3, <5>1, CoversTransitive
        <5>2. CASE ~Once(version[r])
          BY <2>7, <5>2 DEF Once
        <5> QED BY <5>1, <5>2
      <4> QED BY <2>2, <3>1, <4>4 DEF ReaderKeeps
    <3>2. CASE rpc'[r] = "store"
      <4>1. next'[r] = NQueries + 1 /\ period[r] \in Canonical
        BY <1>2, <2>1, <2>2, <2>3, <3>2 DEF Query
      <4> QED BY <2>2, <2>6, <2>7, <3>2, <4>1 DEF ReaderKeeps, Once
    <3>3. CASE rpc'[r] = "query"
      BY <2>2, <2>6, <2>7, <3>3 DEF ReaderKeeps, Once
    <3> QED BY <2>3, <3>1, <3>2, <3>3
  <2>9. ASSUME NEW s \in Reader, s # r PROVE ReaderKeeps(s)'
    BY <1>1, <1>6, <2>9, <1>c DEF RunQuery, GotoR, TypeOK
  <2> QED BY <1>a, <1>b, <1>6, <2>5, <2>8, <2>9 DEF IInv, RunQuery
<1>7. CASE QueryFails(r)
  <2>1. Empty \in Week /\ Covers(built[r], Empty) BY <1>2, EmptyIsLeast
  <2>2. TypeOK' BY <1>1, <1>7, <2>1 DEF TypeOK, QueryFails, GotoR
  <2>3. rpc'[r] = "idle" /\ floor'[r] = Empty
    BY <1>1, <1>7 DEF TypeOK, QueryFails, GotoR
  <2>4. ReaderKeeps(r)' BY <1>7, <2>1, <2>3 DEF ReaderKeeps, QueryFails
  <2>5. ASSUME NEW s \in Reader, s # r PROVE ReaderKeeps(s)'
    BY <1>1, <1>7, <2>5, <1>c DEF QueryFails, GotoR, TypeOK
  <2> QED BY <1>a, <1>b, <1>7, <2>2, <2>4, <2>5 DEF IInv, QueryFails
<1>8. CASE Store(r)
  <2> DEFINE key == CacheKey(r)
  <2>0. rpc[r] = "store" /\ Put(key, built[r]) BY <1>8 DEF Store
  <2>1. /\ next[r] = NQueries + 1 /\ period[r] \in Canonical
        /\ times[version[r]] >= 1 /\ times[version[r]] \in Nat
        /\ Once(version[r]) => Covers(pub[version[r]][period[r]], floor[r])
        /\ Once(version[r]) => Covers(built[r], pub[version[r]][period[r]])
    BY <1>1, <1>2, <2>0 DEF ReaderKeeps, TypeOK, Covers, Query
  <2>2. key \in Key BY <1>2, <2>1 DEF Key, CacheKey
  <2>3. /\ DOMAIN items' \subseteq DOMAIN items \cup {key}
        /\ \A k \in DOMAIN items' : items'[k] = IF k = key THEN built[r] ELSE items[k]
        /\ items' \in [DOMAIN items' -> Week]
    <3>1. \A k \in DOMAIN items : items[k] \in Week BY <1>1 DEF TypeOK
    <3>2. Evicted.keys \subseteq DOMAIN items BY DEF Evicted
    <3>3. CASE key \in DOMAIN items
      <4>1. items' = [items EXCEPT ![key] = built[r]] BY <2>0, <3>3 DEF Put
      <4> QED BY <1>1, <1>2, <3>1, <4>1, <3>3 DEF TypeOK
    <3>4. CASE key \notin DOMAIN items
      <4>1. items' = [x \in Evicted.keys \cup {key} |->
                         IF x = key THEN built[r] ELSE items[x]]
        BY <2>0, <3>4 DEF Put
      <4>2. DOMAIN items' = Evicted.keys \cup {key} BY <4>1
      <4> QED BY <1>2, <3>1, <3>2, <4>1, <4>2
    <3> QED BY <3>3, <3>4
  <2>4. order' \in Seq(Key) /\ CacheBounded'
    <3>1. order \in Seq(Key) BY <1>1 DEF TypeOK
    <3>2. CASE key \in DOMAIN items
      <4>1. order' = order /\ DOMAIN items' = DOMAIN items
        BY <2>0, <3>2 DEF Put
      <4> QED BY <1>1, <3>1, <4>1 DEF CacheBounded
    <3>3. CASE key \notin DOMAIN items
      <4>1. order' = Append(Evicted.order, key) /\ DOMAIN items' = Evicted.keys \cup {key}
        BY <2>0, <3>3 DEF Put
      <4> QED BY <1>1, <2>2, <3>1, <3>3, <4>1, EvictionKeeps, AppendKeeps DEF CacheBounded
    <3> QED BY <3>2, <3>3
  <2>5. TypeOK'
    BY <1>1, <1>8, <2>2, <2>3, <2>4 DEF TypeOK, Store, GotoR
  <2>6. CacheKeeps'
    <3> SUFFICES ASSUME NEW k \in DOMAIN items'
                 PROVE  /\ times[k.version] >= 1
                        /\ Once(k.version) => Covers(items'[k], pub[k.version][k.period])
      BY <1>8 DEF CacheKeeps, Store, Once
    <3>1. CASE k = key
      BY <2>1, <2>3, <3>1 DEF CacheKey
    <3>2. CASE k # key
      BY <1>1, <2>3, <3>2 DEF CacheKeeps
    <3> QED BY <3>1, <3>2
  <2>7. ReaderKeeps(r)'
    <3>1. rpc'[r] = "idle" BY <1>1, <1>8 DEF TypeOK, Store, GotoR
    <3>2. Covers(built[r], floor[r]) \/ times[version[r]] > 1
      <4>1. pub[version[r]][period[r]] \in Week BY <1>1, <1>2 DEF TypeOK
      <4>2. CASE Once(version[r])
        BY <1>2, <2>1, <4>1, <4>2, CoversTransitive
      <4>3. CASE ~Once(version[r])
        BY <2>1, <4>3 DEF Once
      <4> QED BY <4>2, <4>3
    <3> QED BY <1>8, <3>1, <3>2 DEF ReaderKeeps, Store
  <2>8. ASSUME NEW s \in Reader, s # r PROVE ReaderKeeps(s)'
    BY <1>1, <1>8, <2>8, <1>c DEF Store, GotoR, TypeOK
  <2> QED BY <1>a, <1>8, <2>4, <2>5, <2>6, <2>7, <2>8 DEF IInv, Store
<1> QED BY <1>3, <1>4, <1>5, <1>6, <1>7, <1>8 DEF Read

LEMMA TickKeeps == IInv /\ Tick => IInv'
<1> SUFFICES ASSUME IInv, Tick PROVE IInv' OBVIOUS
<1> USE DEF vars, dbVars, cacheVars, writerVars, readerVars, history
<1>1. TypeOK' BY DEF IInv, TypeOK, Tick, Second
<1>2. Promises' /\ CacheKeeps' /\ CacheBounded'
  BY QueueUntouched DEF IInv, Promises, CacheKeeps, Once, Tick
<1>3. ASSUME NEW r \in Reader PROVE ReaderKeeps(r)'
  BY DEF IInv, ReaderKeeps, Once, Tick
<1> QED BY <1>1, <1>2, <1>3 DEF IInv

LEMMA CrashKeeps == IInv /\ Crash => IInv'
<1> SUFFICES ASSUME IInv, Crash PROVE IInv' OBVIOUS
<1> USE DEF vars, dbVars, cacheVars, writerVars, readerVars, history
<1>0. \A r \in Reader : built[r] \in Week /\ Empty \in Week /\ Covers(built[r], Empty)
  BY EmptyIsLeast DEF IInv, TypeOK
<1>1. TypeOK' BY <1>0 DEF IInv, TypeOK, Crash
<1>2. Promises' BY DEF IInv, Promises, Crash
<1>3. CacheKeeps' /\ CacheBounded' BY DEF CacheKeeps, CacheBounded, Crash
<1>4. ASSUME NEW r \in Reader PROVE ReaderKeeps(r)'
  BY <1>0 DEF ReaderKeeps, Once, Crash
<1> QED BY <1>1, <1>2, <1>3, <1>4 DEF IInv

-----------------------------------------------------------------------------
\* IInv holds in every state, however requests, writers and seconds interleave
\* and wherever the process restarts.
THEOREM Invariant == Spec => []IInv
<1>1. IInv /\ UNCHANGED vars => IInv'
  BY QueueUntouched DEF IInv, TypeOK, Promises, CacheKeeps, ReaderKeeps, Once,
         vars, dbVars, cacheVars, writerVars, readerVars, history
<1>2. IInv /\ [Next]_vars => IInv'
  BY <1>1, WritersKeep, ReadersKeep, TickKeeps, CrashKeeps DEF Next
<1> QED BY InitHolds, <1>2, PTL DEF Spec

\* Every variable keeps its type: what is cached are weeks, under keys made of a
\* canonical period and a second.
THEOREM TypeCorrect == Spec => []TypeOK
BY Invariant, PTL DEF IInv

\* The cache never outgrows its capacity, and its eviction queue lists its keys.
THEOREM CacheStaysBounded == Spec => []CacheBounded
BY Invariant, PTL DEF IInv

\* A week that GetRange answers holds every change announced before the request,
\* unless its version was written twice.
THEOREM AnswersAreFresh == Spec => []FreshUnlessSecondShared
<1>1. IInv => FreshUnlessSecondShared
  <2> SUFFICES ASSUME IInv, NEW r \in Reader, Answered(r)
               PROVE  Covers(built[r], floor[r]) \/ times[version[r]] > 1
    BY DEF FreshUnlessSecondShared
  <2>1. TypeOK /\ ReaderKeeps(r) BY DEF IInv
  <2>2. /\ version[r] \in Second /\ period[r] \in Period /\ built[r] \in Week
        /\ floor[r] \in Week
    BY <2>1 DEF TypeOK
  <2>3. CASE rpc[r] = "idle" BY <2>1, <2>3 DEF ReaderKeeps
  <2>4. CASE rpc[r] = "store"
    <3>1. pub[version[r]][period[r]] \in Week /\ times[version[r]] \in Nat
      BY <2>1, <2>2 DEF TypeOK
    <3>2. times[version[r]] >= 1 /\ next[r] = NQueries + 1
      BY <2>1, <2>4 DEF ReaderKeeps
    <3>3. CASE Once(version[r])
      <4>1. Covers(built[r], pub[version[r]][period[r]])
        BY <2>1, <2>4, <3>2, <3>3 DEF ReaderKeeps, Covers, Query
      <4>2. Covers(pub[version[r]][period[r]], floor[r])
        BY <2>1, <2>4, <3>3 DEF ReaderKeeps
      <4> QED BY <2>2, <3>1, <4>1, <4>2, CoversTransitive
    <3>4. CASE ~Once(version[r]) BY <3>1, <3>2, <3>4 DEF Once
    <3> QED BY <3>3, <3>4
  <2> QED BY <2>3, <2>4 DEF Answered
<1> QED BY Invariant, <1>1, PTL
=============================================================================
