---------------------------- MODULE RateLimiter ----------------------------
(***************************************************************************)
(* The rate limiter: a map from clients to token buckets behind a mutex,   *)
(* from which clients that were not seen for ClientTTL are removed.  A     *)
(* request reads the clock, gets a pointer to its bucket under the mutex,  *)
(* and takes from the bucket when it has left the mutex.                   *)
(***************************************************************************)
EXTENDS Values, Integers, Sequences, FiniteSets, Functions

CONSTANTS
  Addresses,     \* keys: a route and an address
  Calls,         \* requests at a time
  Cost,          \* a bucket fills by 1 per unit of time; a request takes Cost
  Burst,         \* the requests that a full bucket is good for
  ClientTTL,
  Delay,         \* the longest time between the first and the last of these steps
  MaxBuckets,    \* bound: buckets ever made
  MaxNow         \* bound: the clock

Pending == [address: Addresses, since: Nat, bucket: Nat \cup {None}]

ASSUME LimiterConstants ==
  /\ Cost \in Nat /\ Burst \in Nat /\ ClientTTL \in Nat /\ Delay \in Nat
  /\ None \notin Nat \cup Pending

(* When a client is forgotten its bucket has had the time to fill, even if *)
(* a request that read the clock earlier was the last to say it was seen.  *)
ASSUME IdleFills == ClientTTL >= Burst * Cost + 2 * Delay

VARIABLES
  now,
  buckets,       \* [full, at]: a bucket and the time it was reckoned at
  clients,       \* [bucket, seen] of an address
  nextCleanup,
  call,          \* of a request: [address, since, bucket or None], or None
  verdict        \* the last answer to an address

limiterVars == <<now, buckets, clients, nextCleanup, call, verdict>>

AtMostFull(n) == IF n > Burst * Cost THEN Burst * Cost ELSE n
InBucket(b) == AtMostFull(buckets[b].full + (now - buckets[b].at))

LimiterInit ==
  /\ now = 0
  /\ buckets = <<>>
  /\ clients = <<>>
  /\ nextCleanup = ClientTTL
  /\ call = [c \in Calls |-> None]
  /\ verdict = [a \in Addresses |-> "none"]

\* Mutant: the buckets of clients that are in use are removed as well.
ForgetAll(then) == <<>>
Forget(then) == Restrict(clients, {a \in DOMAIN clients : then - clients[a].seen <= ClientTTL})

Arrive(c, a) ==
  /\ call[c] = None
  /\ call' = [call EXCEPT ![c] = [address |-> a, since |-> now, bucket |-> None]]
  /\ UNCHANGED <<now, buckets, clients, nextCleanup, verdict>>

get(c) ==
  /\ call[c] # None /\ call[c].bucket = None
  /\ LET a == call[c].address
         then == call[c].since
         late == then > nextCleanup
         known == IF late THEN Forget(then) ELSE clients
         new == a \notin DOMAIN known
         b == IF new THEN Len(buckets) + 1 ELSE known[a].bucket
     IN  /\ nextCleanup' = IF late THEN then + ClientTTL ELSE nextCleanup
         /\ buckets' = IF new THEN Append(buckets, [full |-> Burst * Cost, at |-> now]) ELSE buckets
         /\ Len(buckets') <= MaxBuckets
         /\ clients' = [x \in DOMAIN known \cup {a} |->
                          IF x = a THEN [bucket |-> b, seen |-> then] ELSE known[x]]
         /\ call' = [call EXCEPT ![c].bucket = b]
  /\ UNCHANGED <<now, verdict>>

Allow(c) ==
  /\ call[c] # None /\ call[c].bucket # None
  /\ LET b == call[c].bucket
         enough == InBucket(b) >= Cost
     IN  /\ buckets' = IF enough THEN [buckets EXCEPT ![b] = [full |-> InBucket(b) - Cost, at |-> now]]
                       ELSE buckets
         /\ verdict' = [verdict EXCEPT ![call[c].address] = IF enough THEN "allowed" ELSE "refused"]
  /\ call' = [call EXCEPT ![c] = None]
  /\ UNCHANGED <<now, clients, nextCleanup>>

Pass ==
  /\ now < MaxNow
  /\ \A c \in Calls : call[c] # None => now - call[c].since < Delay
  /\ now' = now + 1
  /\ UNCHANGED <<buckets, clients, nextCleanup, call, verdict>>

LimiterNext ==
  \/ \E c \in Calls, a \in Addresses : Arrive(c, a)
  \/ \E c \in Calls : get(c) \/ Allow(c)
  \/ Pass

LimiterSpec == LimiterInit /\ [][LimiterNext]_limiterVars

-----------------------------------------------------------------------------
(* What an address could take now: a client that is not known gets a new   *)
(* bucket, which is full.                                                  *)
Budget ==
  [a \in Addresses |-> IF a \in DOMAIN clients THEN InBucket(clients[a].bucket) ELSE Burst * Cost]

Promised == INSTANCE TokenBuckets WITH budget <- Budget, verdict <- verdict

(* However requests come, and whenever clients are forgotten, also while a *)
(* request holds the pointer to a bucket: the limiter implements one       *)
(* bucket per address that is never forgotten.                             *)
RateKept == Promised!BucketSpec
=============================================================================
