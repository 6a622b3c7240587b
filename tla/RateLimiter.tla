---------------------------- MODULE RateLimiter ----------------------------
(***************************************************************************)
(* The fixed-window rate limiter of the server                             *)
(* (createRateLimitMiddleware of src/server.ts): one bucket for each API   *)
(* key.  Times are the time left: a bucket is over when less than 0 is.    *)
(***************************************************************************)
EXTENDS Integers

CONSTANTS
    Keys,          \* API keys
    Window,        \* windowMs
    MaxRequests    \* maxRequests

ASSUME LimiterAssumption == Window \in Nat \ {0} /\ MaxRequests \in Nat \ {0}

VARIABLE buckets   \* by key: how many have come, and the time to resetAt

BucketsType(buckets_) ==
    /\ DOMAIN buckets_ \subseteq Keys
    /\ \A k \in DOMAIN buckets_ : /\ buckets_[k].count \in Nat \ {0}
                                  /\ buckets_[k].left \in -1..Window

LimiterInit == buckets = [k \in {} |-> 0]

With(k, bucket) == [j \in DOMAIN buckets \cup {k} |-> IF j = k THEN bucket ELSE buckets[j]]

\* Fault: the window is over when its time is up, one unit early.
FreshEarly(k) == k \in DOMAIN buckets => buckets[k].left < 1

\* No bucket, or now > resetAt.
Fresh(k) == k \in DOMAIN buckets => buckets[k].left < 0

Admit(k) ==
    \/ /\ Fresh(k)
       /\ buckets' = With(k, [count |-> 1, left |-> Window])
    \/ /\ ~Fresh(k) /\ buckets[k].count < MaxRequests
       /\ buckets' = [buckets EXCEPT ![k].count = @ + 1]

Refuse(k) ==
    /\ ~Fresh(k) /\ buckets[k].count >= MaxRequests
    /\ buckets' = [buckets EXCEPT ![k].count = @ + 1]

\* The interval that removes what is over.
Cleanup == buckets' = [k \in {j \in DOMAIN buckets : ~Fresh(j)} |-> buckets[k]]

BucketsTick ==
    buckets' = [k \in DOMAIN buckets |->
                  [buckets[k] EXCEPT !.left = IF @ < 0 THEN @ ELSE @ - 1]]
=============================================================================
