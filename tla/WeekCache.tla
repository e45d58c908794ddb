------------------------------ MODULE WeekCache ------------------------------
(***************************************************************************)
(* The read path of a week: GetRange reads schedule_version, looks the     *)
(* week up in the in-memory FIFO cache under (group, week, version), else  *)
(* builds it with several SELECTs and stores it under the version it read  *)
(* first.  Against it run the writers of the admin API, which change the   *)
(* data and, in one of three ways, the version:                            *)
(*   "tx"      - an override: data and version in one transaction, version *)
(*               now(), the second the transaction began;                  *)
(*   "handler" - the change is committed, then BumpScheduleVersion takes   *)
(*               time.Now() and writes it; its error is ignored;           *)
(*   "silent"  - the change is committed and the version is left alone.    *)
(* Versions are compared to the second: the key is formatted as RFC 3339.  *)
(* A data cell is what one SELECT of one period returns; its value is the   *)
(* number of changes committed to it.                                      *)
(***************************************************************************)
EXTENDS Integers, Sequences, FiniteSets

CONSTANTS Period,       \* (group, start, end) combinations that are asked for
          Canonical,   \* those that run from Monday to Saturday: only they are cached
          NQueries,    \* SELECTs of buildDays, in order
          Writer, Reader,
          Kinds,       \* how writers announce their changes
          BumpMayFail, \* may the UPDATE of system_state of a handler fail?
          MaxEntries,  \* capacity of the cache
          MaxClock     \* bound: seconds that pass

VARIABLES clock,       \* the current second
          stored,      \* system_state.schedule_version
          data,        \* [Period -> Week]: what the tables hold
          items, order,            \* the cache: contents by key, keys by age
          wpc, job, stamp,         \* writers: label, what they change, version to write
          rpc, period, version, built, next,  \* readers: label, request, version read,
                                             \* the week so far, the next SELECT
          announced,   \* history: the data at the last write of the version
          acked,       \* history: the data all answered writers have made
          pub,         \* history: the data when a version was last written
          times,       \* history: how often a version was written
          floor, ackFloor          \* announced and acked when a reader came

dbVars     == <<stored, data>>
cacheVars  == <<items, order>>
writerVars == <<wpc, job, stamp>>
readerVars == <<rpc, period, version, built, next, floor, ackFloor>>
history    == <<announced, acked, pub, times>>
vars == <<clock, dbVars, cacheVars, writerVars, readerVars, history>>

Second  == 0 .. MaxClock
Query   == 1 .. NQueries
Week    == [Query -> Nat]
Key     == [period : Canonical, version : Second]
Job     == [period : Period, query : Query, kind : Kinds]
Empty   == [q \in Query |-> 0]
Covers(a, b) == \A q \in Query : a[q] >= b[q]

ASSUME ConstantsOK ==
    /\ Canonical \subseteq Period /\ Period # {}
    /\ NQueries \in Nat \ {0} /\ MaxClock \in Nat \ {0} /\ MaxEntries \in Nat \ {0}
    /\ Kinds \subseteq {"tx", "handler", "silent"} /\ Kinds # {}
    /\ BumpMayFail \in BOOLEAN

TypeOK ==
    /\ clock \in Second /\ stored \in Second
    /\ data \in [Period -> Week]
    /\ DOMAIN items \subseteq Key /\ items \in [DOMAIN items -> Week]
    /\ order \in Seq(Key)
    /\ wpc \in [Writer -> {"idle", "begun", "changed", "bumping", "done"}]
    /\ job \in [Writer -> Job]
    /\ stamp \in [Writer -> Second]
    /\ rpc \in [Reader -> {"idle", "asked", "lookup", "query", "store"}]
    /\ period \in [Reader -> Period]
    /\ version \in [Reader -> Second]
    /\ built \in [Reader -> Week]
    /\ next \in [Reader -> 1 .. NQueries + 1]
    /\ announced \in [Period -> Week] /\ acked \in [Period -> Week]
    /\ pub \in [Second -> [Period -> Week]]
    /\ times \in [Second -> Nat]
    /\ floor \in [Reader -> Week] /\ ackFloor \in [Reader -> Week]

-----------------------------------------------------------------------------
(* Writers. *)

GotoW(w, label) == wpc' = [wpc EXCEPT ![w] = label]

Changed(w) == [data EXCEPT ![job[w].period][job[w].query] = @ + 1]

\* The client of w is told of success.
Acknowledge(w, now) ==
    acked' = [acked EXCEPT ![job[w].period][job[w].query] = now[job[w].period][job[w].query]]

\* The row of system_state is overwritten, whatever version it held.
WriteStamp(v, now) ==
    /\ stored' = v
    /\ announced' = now
    /\ pub' = [pub EXCEPT ![v] = now]
    /\ times' = [times EXCEPT ![v] = @ + 1]

\* now() is fixed when the transaction begins.
BeginTx(w) ==
    /\ wpc[w] = "idle"
    /\ \E j \in Job : j.kind = "tx" /\ job' = [job EXCEPT ![w] = j]
    /\ stamp' = [stamp EXCEPT ![w] = clock]
    /\ GotoW(w, "begun")
    /\ UNCHANGED <<clock, dbVars, cacheVars, readerVars, history>>

CommitTx(w) ==
    /\ wpc[w] = "begun"
    /\ data' = Changed(w)
    /\ WriteStamp(stamp[w], data')
    /\ Acknowledge(w, data')
    /\ GotoW(w, "done")
    /\ UNCHANGED <<clock, cacheVars, job, stamp, readerVars>>

RollBackTx(w) ==
    /\ wpc[w] = "begun"
    /\ GotoW(w, "done")
    /\ UNCHANGED <<clock, dbVars, cacheVars, job, stamp, readerVars, history>>

Change(w) ==
    /\ wpc[w] = "idle"
    /\ \E j \in Job : /\ j.kind = "handler"
                      /\ job' = [job EXCEPT ![w] = j]
                      /\ data' = [data EXCEPT ![j.period][j.query] = @ + 1]
    /\ GotoW(w, "changed")
    /\ UNCHANGED <<clock, stored, cacheVars, stamp, readerVars, history>>

ReadClock(w) ==
    /\ wpc[w] = "changed"
    /\ stamp' = [stamp EXCEPT ![w] = clock]
    /\ GotoW(w, "bumping")
    /\ UNCHANGED <<clock, dbVars, cacheVars, job, readerVars, history>>

WriteVersion(w) ==
    /\ wpc[w] = "bumping"
    /\ WriteStamp(stamp[w], data)
    /\ Acknowledge(w, data)
    /\ GotoW(w, "done")
    /\ UNCHANGED <<clock, data, cacheVars, job, stamp, readerVars>>

\* The handler answers with success when its bump failed.
LoseBump(w) ==
    /\ BumpMayFail /\ wpc[w] = "bumping"
    /\ Acknowledge(w, data)
    /\ GotoW(w, "done")
    /\ UNCHANGED <<clock, dbVars, cacheVars, job, stamp, readerVars, announced, pub, times>>

ChangeSilently(w) ==
    /\ wpc[w] = "idle"
    /\ \E j \in Job : /\ j.kind = "silent"
                      /\ job' = [job EXCEPT ![w] = j]
                      /\ data' = [data EXCEPT ![j.period][j.query] = @ + 1]
                      /\ acked' = [acked EXCEPT ![j.period][j.query] = data'[j.period][j.query]]
    /\ GotoW(w, "done")
    /\ UNCHANGED <<clock, stored, cacheVars, stamp, readerVars, announced, pub, times>>

-----------------------------------------------------------------------------
(* Readers. *)

GotoR(r, label) == rpc' = [rpc EXCEPT ![r] = label]

CacheKey(r) == [period |-> period[r], version |-> version[r]]

Ask(r) ==
    /\ rpc[r] = "idle"
    /\ \E x \in Period : /\ period' = [period EXCEPT ![r] = x]
                        /\ floor' = [floor EXCEPT ![r] = announced[x]]
                        /\ ackFloor' = [ackFloor EXCEPT ![r] = acked[x]]
    /\ built' = [built EXCEPT ![r] = Empty]
    /\ next' = [next EXCEPT ![r] = 1]
    /\ GotoR(r, "asked")
    /\ UNCHANGED <<clock, dbVars, cacheVars, writerVars, version, history>>

ReadVersion(r) ==
    /\ rpc[r] = "asked"
    /\ version' = [version EXCEPT ![r] = stored]
    /\ GotoR(r, IF period[r] \in Canonical THEN "lookup" ELSE "query")
    /\ UNCHANGED <<clock, dbVars, cacheVars, writerVars, period, built, next,
                   floor, ackFloor, history>>

\* Mutant: the version is no part of the key.
LookUpAnyVersion(r) ==
    /\ rpc[r] = "lookup"
    /\ \/ \E k \in DOMAIN items : /\ k.period = period[r]
                                  /\ built' = [built EXCEPT ![r] = items[k]]
          /\ GotoR(r, "idle")
       \/ (\A k \in DOMAIN items : k.period # period[r])
          /\ GotoR(r, "query") /\ UNCHANGED built
    /\ UNCHANGED <<clock, dbVars, cacheVars, writerVars, period, version, next,
                   floor, ackFloor, history>>

\* A hit is answered with a copy of the cached week.
LookUp(r) ==
    /\ rpc[r] = "lookup"
    /\ IF CacheKey(r) \in DOMAIN items
       THEN /\ built' = [built EXCEPT ![r] = items[CacheKey(r)]]
            /\ GotoR(r, "idle")
       ELSE GotoR(r, "query") /\ UNCHANGED built
    /\ UNCHANGED <<clock, dbVars, cacheVars, writerVars, period, version, next,
                   floor, ackFloor, history>>

\* The SELECTs of buildDays run in no common transaction.
RunQuery(r) ==
    /\ rpc[r] = "query" /\ next[r] \in Query
    /\ built' = [built EXCEPT ![r][next[r]] = data[period[r]][next[r]]]
    /\ next' = [next EXCEPT ![r] = @ + 1]
    /\ GotoR(r, IF next[r] < NQueries THEN "query"
                ELSE IF period[r] \in Canonical THEN "store" ELSE "idle")
    /\ UNCHANGED <<clock, dbVars, cacheVars, writerVars, period, version,
                   floor, ackFloor, history>>

\* A SELECT fails, the request is answered with an error.
QueryFails(r) ==
    /\ rpc[r] \in {"asked", "query"}
    /\ GotoR(r, "idle")
    /\ floor' = [floor EXCEPT ![r] = Empty]
    /\ ackFloor' = [ackFloor EXCEPT ![r] = Empty]
    /\ UNCHANGED <<clock, dbVars, cacheVars, writerVars, period, version, built, next, history>>

\* The oldest key goes when the cache is full.
Evicted == IF Cardinality(DOMAIN items) >= MaxEntries
           THEN [keys |-> DOMAIN items \ {Head(order)}, order |-> Tail(order)]
           ELSE [keys |-> DOMAIN items, order |-> order]

Put(k, week) ==
    IF k \in DOMAIN items
    THEN items' = [items EXCEPT ![k] = week] /\ order' = order
    ELSE /\ items' = [x \in Evicted.keys \cup {k} |-> IF x = k THEN week ELSE items[x]]
         /\ order' = Append(Evicted.order, k)

\* Mutant: the key is made of the version at the end of the build.
StoreUnderNewestVersion(r) ==
    /\ rpc[r] = "store"
    /\ Put([CacheKey(r) EXCEPT !.version = stored], built[r])
    /\ GotoR(r, "idle")
    /\ UNCHANGED <<clock, dbVars, writerVars, period, version, built, next,
                   floor, ackFloor, history>>

Store(r) ==
    /\ rpc[r] = "store"
    /\ Put(CacheKey(r), built[r])
    /\ GotoR(r, "idle")
    /\ UNCHANGED <<clock, dbVars, writerVars, period, version, built, next,
                   floor, ackFloor, history>>

-----------------------------------------------------------------------------
Tick ==
    /\ clock < MaxClock
    /\ clock' = clock + 1
    /\ UNCHANGED <<dbVars, cacheVars, writerVars, readerVars, history>>

\* The process restarts: the cache and all requests are gone, transactions are
\* rolled back, announcements still to come are never made.
Crash ==
    /\ items' = << >> /\ order' = << >>
    /\ wpc' = [w \in Writer |-> IF wpc[w] = "idle" THEN "idle" ELSE "done"]
    /\ rpc' = [r \in Reader |-> "idle"]
    /\ floor' = [r \in Reader |-> Empty] /\ ackFloor' = [r \in Reader |-> Empty]
    /\ UNCHANGED <<clock, dbVars, job, stamp, period, version, built, next, history>>

Init ==
    /\ clock = 1 /\ stored = 0    \* the version was written some time ago
    /\ data = [x \in Period |-> Empty]
    /\ items = << >> /\ order = << >>
    /\ wpc = [w \in Writer |-> "idle"]
    /\ job \in [Writer -> {CHOOSE j \in Job : TRUE}]
    /\ stamp = [w \in Writer |-> 0]
    /\ rpc = [r \in Reader |-> "idle"]
    /\ period \in [Reader -> {CHOOSE x \in Period : TRUE}]
    /\ version = [r \in Reader |-> 0]
    /\ built = [r \in Reader |-> Empty]
    /\ next = [r \in Reader |-> 1]
    /\ announced = data /\ acked = data
    /\ pub = [v \in Second |-> data]
    /\ times = [v \in Second |-> IF v = 0 THEN 1 ELSE 0]
    /\ floor = [r \in Reader |-> Empty] /\ ackFloor = [r \in Reader |-> Empty]

Write(w) == BeginTx(w) \/ CommitTx(w) \/ RollBackTx(w) \/ Change(w) \/ ReadClock(w)
              \/ WriteVersion(w) \/ LoseBump(w) \/ ChangeSilently(w)
Read(r)  == Ask(r) \/ ReadVersion(r) \/ LookUp(r) \/ RunQuery(r) \/ QueryFails(r)
              \/ Store(r)

Next == Tick \/ Crash \/ (\E w \in Writer : Write(w)) \/ (\E r \in Reader : Read(r))

Spec == Init /\ [][Next]_vars

-----------------------------------------------------------------------------
(* Properties. *)

\* A reader that holds a complete week, from the cache or just built.
Answered(r) == rpc[r] \in {"store", "idle"}

\* The eviction queue lists every cached key once and nothing else, and the
\* cache never outgrows its capacity, also when two requests that missed store
\* the same week (weekCache.set).
CacheBounded ==
    /\ Len(order) <= MaxEntries
    /\ {order[i] : i \in 1 .. Len(order)} = DOMAIN items
    /\ \A i, j \in 1 .. Len(order) : order[i] = order[j] => i = j

\* A week that is answered holds every change announced before the request came,
\* although versions go backward when a slow transaction commits late and the
\* week may have been built while it changed - unless one second was used as
\* version twice.
FreshUnlessSecondShared ==
    \A r \in Reader : Answered(r) =>
        Covers(built[r], floor[r]) \/ times[version[r]] > 1

\* The inductive invariant behind it: what a version promises, the cache, the
\* weeks under construction and the answers keep, while no second is shared.
Once(v) == times[v] = 1

Promises ==
    /\ announced = pub[stored] /\ times[stored] >= 1
    /\ \A v \in Second : \A x \in Period : Covers(data[x], pub[v][x])

CacheKeeps ==
    \A k \in DOMAIN items :
        /\ times[k.version] >= 1
        /\ Once(k.version) => Covers(items[k], pub[k.version][k.period])

ReaderKeeps(r) ==
    LET promised == pub[version[r]][period[r]]
    IN  /\ rpc[r] = "asked" => Covers(announced[period[r]], floor[r])
        /\ rpc[r] \in {"asked", "lookup"} => next[r] = 1
        /\ rpc[r] = "lookup" => period[r] \in Canonical
        /\ rpc[r] = "store" => next[r] = NQueries + 1 /\ period[r] \in Canonical
        /\ rpc[r] \in {"lookup", "query", "store"} =>
             /\ times[version[r]] >= 1
             /\ Once(version[r]) =>
                  /\ Covers(promised, floor[r])
                  /\ \A q \in Query : q < next[r] => built[r][q] >= promised[q]
        /\ rpc[r] = "idle" => Covers(built[r], floor[r]) \/ times[version[r]] > 1

IInv == TypeOK /\ CacheBounded /\ Promises /\ CacheKeeps /\ \A r \in Reader : ReaderKeeps(r)

\* A week that is answered holds every change the admin API has confirmed.
ReadYourWrites == \A r \in Reader : Answered(r) => Covers(built[r], ackFloor[r])
=============================================================================
