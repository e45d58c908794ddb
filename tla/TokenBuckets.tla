---------------------------- MODULE TokenBuckets ----------------------------
(***************************************************************************)
(* What the rate limiter promises to an address: there is one bucket for   *)
(* it, always.  It fills by 1 per unit of time; a request is allowed and   *)
(* takes Cost, or is refused because there is less in the bucket.          *)
(*                                                                         *)
(* RateLimiter is the model of the code; it implements this module.        *)
(***************************************************************************)
EXTENDS Integers

CONSTANTS Addresses, Cost, Burst

VARIABLES
  budget,        \* what is in the bucket of an address
  verdict        \* the last answer to an address

bucketVars == <<budget, verdict>>

AtMostFull(n) == IF n > Burst * Cost THEN Burst * Cost ELSE n

BucketInit ==
  /\ budget = [a \in Addresses |-> Burst * Cost]
  /\ verdict = [a \in Addresses |-> "none"]

Take(a) ==
  /\ budget[a] >= Cost
  /\ budget' = [budget EXCEPT ![a] = @ - Cost]
  /\ verdict' = [verdict EXCEPT ![a] = "allowed"]

Refuse(a) ==
  /\ budget[a] < Cost
  /\ verdict' = [verdict EXCEPT ![a] = "refused"]
  /\ UNCHANGED budget

Wait ==
  /\ budget' = [a \in Addresses |-> AtMostFull(budget[a] + 1)]
  /\ UNCHANGED verdict

BucketNext == Wait \/ \E a \in Addresses : Take(a) \/ Refuse(a)

BucketSpec == BucketInit /\ [][BucketNext]_bucketVars
=============================================================================
