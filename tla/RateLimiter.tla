---------------------------- MODULE RateLimiter ----------------------------
(***************************************************************************)
(* The token buckets in front of set-up, login and reauthentication.  The  *)
(* buckets live in one map behind a mutex, so a call of allow is a step;   *)
(* the clock is read inside it, so the calls see it in their order.        *)
(*                                                                         *)
(* A token is worth Second units, the number of clock ticks in a second: a *)
(* tick then refills exactly Rate units, and no fraction has to be rounded.*)
(***************************************************************************)
EXTENDS Integers, Sequences

CONSTANTS
    Bucket,     \* bucket names
    Second,     \* clock ticks in a second
    Burst,      \* LOGIN_RATE_LIMIT_BURST
    PerSecond,  \* LOGIN_RATE_LIMIT_PER_SECOND
    None,       \* a bucket that nobody asked yet
    MaxTime     \* bound of the clock

ASSUME ParameterAssumption ==
    /\ Second \in Nat \ {0} /\ MaxTime \in Nat
    /\ Burst \in Nat /\ PerSecond \in Nat
ASSUME NoneAssumption == None \notin [tokens : Nat, last_refill : Nat]

VARIABLES
    now,        \* Instant::now()
    buckets,    \* AuthRateLimiter.buckets
    allowed     \* the instants at which each bucket let a request pass (history)

vars == <<now, buckets, allowed>>

\* A setting of 0 counts as 1.
AtLeastOne(n) == IF n > 1 THEN n ELSE 1
burst == AtLeastOne(Burst) * Second
refill_per_tick == AtLeastOne(PerSecond)

Least(a, b) == IF a < b THEN a ELSE b

\* Mutant: the refill is counted from the first request on, again and again.
RefilledTwice(bucket) ==
    [tokens |-> Least(bucket.tokens + (now - bucket.last_refill) * refill_per_tick, burst),
     last_refill |-> bucket.last_refill]
\* Mutant: an idle bucket does not fill up again.
NotRefilled(bucket) == [bucket EXCEPT !.last_refill = now]
Refilled(bucket) ==
    [tokens |-> Least(bucket.tokens + (now - bucket.last_refill) * refill_per_tick, burst),
     last_refill |-> now]

\* The bucket as a call finds it: a new one is full.
Found(name) ==
    Refilled(IF buckets[name] = None THEN [tokens |-> burst, last_refill |-> now] ELSE buckets[name])

Init ==
    /\ now = 0
    /\ buckets = [name \in Bucket |-> None]
    /\ allowed = [name \in Bucket |-> <<>>]

\* Mutant: the bucket is not looked at before a token is taken.
AllowUnseen(name) ==
    /\ buckets' = [buckets EXCEPT ![name] = [Found(name) EXCEPT !.tokens = @ - Second]]
    /\ allowed' = [allowed EXCEPT ![name] = Append(@, now)]
    /\ UNCHANGED now

\* allow(name) answers true and takes a token.
Allow(name) ==
    /\ Found(name).tokens >= Second
    /\ buckets' = [buckets EXCEPT ![name] = [Found(name) EXCEPT !.tokens = @ - Second]]
    /\ allowed' = [allowed EXCEPT ![name] = Append(@, now)]
    /\ UNCHANGED now

\* allow(name) answers false: 429.
Refuse(name) ==
    /\ Found(name).tokens < Second
    /\ buckets' = [buckets EXCEPT ![name] = Found(name)]
    /\ UNCHANGED <<now, allowed>>

Tick ==
    /\ now < MaxTime
    /\ now' = now + 1
    /\ UNCHANGED <<buckets, allowed>>

\* The map is in memory: a restart of the server begins with full buckets.
Restart ==
    /\ buckets' = [name \in Bucket |-> None]
    /\ allowed' = [name \in Bucket |-> <<>>]
    /\ UNCHANGED now

Next == (\E name \in Bucket : Allow(name) \/ Refuse(name)) \/ Tick \/ Restart

Spec == Init /\ [][Next]_vars

(***************************************************************************)
(* Properties.                                                             *)
(***************************************************************************)
TypeOK ==
    /\ now \in Nat
    /\ buckets \in [Bucket -> [tokens : Nat, last_refill : Nat] \cup {None}]
    /\ allowed \in [Bucket -> Seq(Nat)]

\* What a token bucket grants in a window: its burst, and what flows in.
Grant(from, to) == burst + (to - from) * refill_per_tick

\* Over every window, however it is placed, a bucket lets no more requests
\* pass than the burst and the refill of that window.
WithinRate ==
    \A name \in Bucket : \A i, j \in 1..Len(allowed[name]) :
        i <= j => (j - i + 1) * Second <= Grant(allowed[name][i], allowed[name][j])

\* The limit is exact: a request is refused only if letting it pass would
\* exceed the grant of a window that ends now. So neither the other buckets nor
\* requests that were refused before can lock a caller out.
RefusalDue ==
    \A name \in Bucket : Refuse(name) =>
        \E i \in 1..Len(allowed[name]) :
            (Len(allowed[name]) - i + 2) * Second > Grant(allowed[name][i], now)
RefusesOnlyOverRate == [][RefusalDue]_vars
=============================================================================
