------------------------- MODULE RateLimiter_proofs -------------------------
(***************************************************************************)
(* The token buckets, for every burst, rate and clock.                     *)
(***************************************************************************)
EXTENDS RateLimiter, TLAPS

\* What bucket b and the instants it let requests pass at say of each other:
\* b never holds more than every window since a grant leaves over, and unless
\* it is full it holds exactly what one of those windows leaves over.
Spent(b, log, i) == (Len(log) - i + 1) * Second

Balanced(b, log) ==
    /\ b.tokens <= burst
    /\ \A i \in 1..Len(log) : /\ log[i] <= b.last_refill
                              /\ Spent(b, log, i) + b.tokens <= Grant(log[i], b.last_refill)
    /\ \/ b.tokens = burst
       \/ \E i \in 1..Len(log) : Spent(b, log, i) + b.tokens = Grant(log[i], b.last_refill)

Account(name) ==
    IF buckets[name] = None THEN allowed[name] = <<>>
    ELSE buckets[name].last_refill <= now /\ Balanced(buckets[name], allowed[name])

Inv == TypeOK /\ WithinRate /\ \A name \in Bucket : Account(name)

BucketState == [tokens : Nat, last_refill : Nat]

LEMMA Products == \A x, y \in Int : x * y \in Int
  OBVIOUS

LEMMA Distribute == \A x, y, z, r \in Int : (z - x) * r = (y - x) * r + (z - y) * r
  OBVIOUS

LEMMA Units == burst \in Nat /\ burst >= Second /\ refill_per_tick \in Nat /\ Second \in Nat \ {0}
<1>1. AtLeastOne(Burst) \in Nat /\ AtLeastOne(Burst) >= 1 /\ AtLeastOne(PerSecond) \in Nat
  BY ParameterAssumption DEF AtLeastOne
<1>2. \A a, s \in Nat : a >= 1 => a * s \in Nat /\ a * s >= s
  OBVIOUS
<1> QED
  BY <1>1, <1>2, ParameterAssumption DEF burst, refill_per_tick

\* Refilling keeps a bucket balanced and brings it up to date.
LEMMA RefillBalanced ==
    ASSUME now \in Nat, NEW b \in BucketState, NEW log \in Seq(Nat),
           b.last_refill <= now, Balanced(b, log)
    PROVE  /\ Refilled(b) \in BucketState /\ Refilled(b).last_refill = now
           /\ Balanced(Refilled(b), log)
<1> DEFINE gain == (now - b.last_refill) * refill_per_tick
<1>1. b.tokens \in Nat /\ b.last_refill \in Nat /\ now - b.last_refill \in Nat
  BY DEF BucketState
<1>2. gain \in Nat
  <2>1. \A x, y \in Nat : x * y \in Nat
    OBVIOUS
  <2> QED
    BY <1>1, <2>1, Units
<1>3. /\ Refilled(b) \in BucketState /\ Refilled(b).last_refill = now
      /\ Refilled(b).tokens <= burst /\ Refilled(b).tokens <= b.tokens + gain
      /\ Refilled(b).tokens = burst \/ Refilled(b).tokens = b.tokens + gain
  BY <1>1, <1>2, Units DEF Refilled, Least, BucketState
<1>4. \A i \in 1..Len(log) : Grant(log[i], now) = Grant(log[i], b.last_refill) + gain
  <2> TAKE i \in 1..Len(log)
  <2>1. log[i] \in Int /\ now \in Int /\ b.last_refill \in Int /\ refill_per_tick \in Int
    BY <1>1, Units
  <2>2. (now - log[i]) * refill_per_tick = (b.last_refill - log[i]) * refill_per_tick + gain
    BY <2>1, Distribute
  <2>3. (b.last_refill - log[i]) * refill_per_tick \in Int
    BY <2>1, Products
  <2> QED
    BY <1>2, <2>2, <2>3, Units DEF Grant
<1>5. \A i \in 1..Len(log) : /\ Spent(b, log, i) \in Int /\ Spent(Refilled(b), log, i) = Spent(b, log, i)
                            /\ Grant(log[i], b.last_refill) \in Int
  <2> TAKE i \in 1..Len(log)
  <2>1. log[i] \in Int /\ b.last_refill - log[i] \in Int /\ Len(log) - i + 1 \in Int
    BY <1>1
  <2>2. (b.last_refill - log[i]) * refill_per_tick \in Int /\ (Len(log) - i + 1) * Second \in Int
    BY <2>1, Products, Units
  <2> QED
    BY <2>2, Units DEF Spent, Grant
<1> HIDE DEF gain
<1>6. \A i \in 1..Len(log) : log[i] <= now /\ Spent(b, log, i) + Refilled(b).tokens <= Grant(log[i], now)
  <2> TAKE i \in 1..Len(log)
  <2>1. Refilled(b).tokens \in Nat /\ log[i] \in Nat
    BY <1>3 DEF BucketState
  <2>2. log[i] <= b.last_refill /\ Spent(b, log, i) + b.tokens <= Grant(log[i], b.last_refill)
    BY DEF Balanced
  <2>3. log[i] <= now
    BY <1>1, <2>1, <2>2
  <2>4. /\ Grant(log[i], now) = Grant(log[i], b.last_refill) + gain
        /\ Spent(b, log, i) \in Int /\ Grant(log[i], b.last_refill) \in Int
    BY <1>4, <1>5
  <2>5. Refilled(b).tokens <= b.tokens + gain
    BY <1>3
  <2>6. \A s, t, r, g, all \in Int : s + t <= all /\ r <= t + g => s + r <= all + g
    OBVIOUS
  <2>7. Spent(b, log, i) + Refilled(b).tokens <= Grant(log[i], b.last_refill) + gain
    BY <1>1, <1>2, <2>1, <2>2, <2>4, <2>5, <2>6
  <2> QED
    BY <2>3, <2>4, <2>7
<1>7. Refilled(b).tokens = burst
      \/ \E i \in 1..Len(log) : Spent(b, log, i) + Refilled(b).tokens = Grant(log[i], now)
  BY <1>1, <1>2, <1>3, <1>4, <1>5, Units DEF Balanced, BucketState
<1> QED
  BY <1>3, <1>5, <1>6, <1>7 DEF Balanced

LEMMA FoundBalanced ==
    ASSUME Inv, NEW name \in Bucket
    PROVE  /\ Found(name) \in BucketState /\ Found(name).last_refill = now
           /\ Balanced(Found(name), allowed[name])
<1>1. now \in Nat /\ allowed[name] \in Seq(Nat)
  BY DEF Inv, TypeOK
<1>2. CASE buckets[name] = None
  <2> DEFINE full == [tokens |-> burst, last_refill |-> now]
  <2>1. full \in BucketState /\ full.last_refill <= now
    BY <1>1, Units DEF BucketState
  <2>2. Balanced(full, allowed[name])
    BY <1>2, Units DEF Inv, Account, Balanced
  <2> QED
    BY <1>1, <1>2, <2>1, <2>2, RefillBalanced DEF Found
<1>3. CASE buckets[name] # None
  <2>1. buckets[name] \in BucketState /\ buckets[name].last_refill <= now
        /\ Balanced(buckets[name], allowed[name])
    BY <1>3 DEF Inv, TypeOK, Account, BucketState
  <2> QED
    BY <1>1, <1>3, <2>1, RefillBalanced DEF Found
<1> QED
  BY <1>2, <1>3

\* Letting a request pass leaves the bucket balanced against the longer log.
LEMMA AllowBalanced ==
    ASSUME now \in Nat, NEW b \in BucketState, NEW log \in Seq(Nat), b.last_refill = now,
           Balanced(b, log), b.tokens >= Second
    PROVE  /\ [b EXCEPT !.tokens = @ - Second] \in BucketState
           /\ Balanced([b EXCEPT !.tokens = @ - Second], Append(log, now))
<1> DEFINE new == [b EXCEPT !.tokens = @ - Second]
           longer == Append(log, now)
<1>1. /\ new \in BucketState /\ new.last_refill = now /\ new.tokens = b.tokens - Second
      /\ b.tokens \in Nat
  BY Units DEF BucketState
<1>2. /\ Len(longer) = Len(log) + 1 /\ longer[Len(log) + 1] = now /\ Len(log) \in Nat
      /\ \A i \in 1..Len(log) : longer[i] = log[i] /\ log[i] \in Nat
  OBVIOUS
<1> HIDE DEF new, longer
<1>3. \A i \in 1..Len(log) : Spent(new, longer, i) = Spent(b, log, i) + Second /\ Spent(b, log, i) \in Int
  <2>1. \A x, s \in Int : (x + 1) * s = x * s + s /\ x * s \in Int
    OBVIOUS
  <2> TAKE i \in 1..Len(log)
  <2> DEFINE n == Len(log) - i + 1
  <2>2. n \in Int /\ Len(longer) - i + 1 = n + 1
    BY <1>2
  <2>3. Spent(b, log, i) = n * Second
    BY DEF Spent
  <2> HIDE DEF n
  <2>4. Spent(new, longer, i) = (n + 1) * Second
    BY <2>2 DEF Spent
  <2>5. (n + 1) * Second = n * Second + Second /\ n * Second \in Int
    BY <2>1, <2>2, Units
  <2> QED
    BY <2>3, <2>4, <2>5
<1>4. Spent(new, longer, Len(log) + 1) = Second /\ Grant(now, now) = burst
  <2>1. (Len(log) + 1) - (Len(log) + 1) + 1 = 1 /\ now - now = 0
    BY <1>2
  <2>2. \A x \in Int : 1 * x = x /\ 0 * x = 0
    OBVIOUS
  <2> QED
    BY <1>2, <2>1, <2>2, Units DEF Spent, Grant
<1>5. \A i \in 1..Len(log) : Grant(log[i], now) \in Int
  <2> TAKE i \in 1..Len(log)
  <2>1. now - log[i] \in Int
    BY <1>2
  <2>2. (now - log[i]) * refill_per_tick \in Int
    BY <2>1, Products, Units
  <2> QED
    BY <2>2, Units DEF Grant
<1>6. \A i \in 1..Len(longer) : /\ longer[i] <= now
                               /\ Spent(new, longer, i) + new.tokens <= Grant(longer[i], now)
  <2> TAKE i \in 1..Len(longer)
  <2>1. CASE i = Len(log) + 1
    BY <1>1, <1>2, <1>4, <2>1, Units DEF Balanced
  <2>2. CASE i \in 1..Len(log)
    <3>1. log[i] <= now /\ Spent(b, log, i) + b.tokens <= Grant(log[i], now)
      BY <2>2 DEF Balanced
    <3>2. /\ longer[i] = log[i] /\ Spent(new, longer, i) = Spent(b, log, i) + Second
          /\ Spent(b, log, i) \in Int /\ Grant(log[i], now) \in Int
      BY <1>2, <1>3, <1>5, <2>2
    <3> QED
      BY <1>1, <3>1, <3>2, Units
  <2> QED
    BY <1>2, <2>1, <2>2
<1>7. \E i \in 1..Len(longer) : Spent(new, longer, i) + new.tokens = Grant(longer[i], now)
  <2>1. CASE b.tokens = burst
    <3>1. Spent(new, longer, Len(log) + 1) + new.tokens = Grant(longer[Len(log) + 1], now)
      BY <1>1, <1>2, <1>4, <2>1, Units
    <3> QED
      BY <1>2, <3>1
  <2>2. CASE b.tokens # burst
    <3>1. PICK i \in 1..Len(log) : Spent(b, log, i) + b.tokens = Grant(log[i], now)
      BY <2>2 DEF Balanced
    <3>2. Spent(new, longer, i) + new.tokens = Grant(longer[i], now)
      BY <1>1, <1>2, <1>3, <1>5, <3>1, Units
    <3> QED
      BY <1>2, <3>2
  <2> QED
    BY <2>1, <2>2
<1>8. new.tokens <= burst
  BY <1>1, Units DEF Balanced
<1> QED
  BY <1>1, <1>6, <1>7, <1>8 DEF new, longer, Balanced

\* A balanced bucket has kept every window that ends now within its grant.
LEMMA BalancedWithinRate ==
    ASSUME Inv, NEW name \in Bucket, Allow(name)
    PROVE  WithinRate'
<1> DEFINE log == allowed[name]
<1>1. now \in Nat /\ log \in Seq(Nat) /\ allowed' = [allowed EXCEPT ![name] = Append(log, now)]
  BY DEF Inv, TypeOK, Allow
<1>2. Balanced([Found(name) EXCEPT !.tokens = @ - Second], Append(log, now))
      /\ [Found(name) EXCEPT !.tokens = @ - Second] \in BucketState
  BY <1>1, FoundBalanced, AllowBalanced DEF Allow
<1>3. Found(name) \in BucketState /\ Found(name).last_refill = now
  BY FoundBalanced
<1>4. \A i \in 1..Len(log) + 1 :
        (Len(log) + 1 - i + 1) * Second <= Grant(Append(log, now)[i], now)
  <2> DEFINE new == [Found(name) EXCEPT !.tokens = @ - Second]
  <2> TAKE i \in 1..Len(log) + 1
  <2>1. new.tokens \in Nat /\ new.last_refill = now
    BY <1>2, <1>3 DEF BucketState
  <2>2. Len(Append(log, now)) = Len(log) + 1 /\ Append(log, now)[i] \in Nat /\ Len(log) \in Nat
    BY <1>1
  <2>3. Spent(new, Append(log, now), i) + new.tokens <= Grant(Append(log, now)[i], now)
    BY <1>2, <2>1, <2>2 DEF Balanced
  <2>4. Spent(new, Append(log, now), i) \in Int /\ Grant(Append(log, now)[i], now) \in Int
    <3>1. now - Append(log, now)[i] \in Int /\ Len(log) + 1 - i + 1 \in Int
      BY <1>1, <2>2
    <3>2. /\ (now - Append(log, now)[i]) * refill_per_tick \in Int
          /\ (Len(log) + 1 - i + 1) * Second \in Int
      BY <3>1, Products, Units
    <3> QED
      BY <2>2, <3>2, Units DEF Spent, Grant
  <2>5. Spent(new, Append(log, now), i) = (Len(log) + 1 - i + 1) * Second
    BY <2>2 DEF Spent
  <2> HIDE DEF new
  <2> QED
    BY <2>1, <2>3, <2>4, <2>5
<1> QED
  <2> SUFFICES ASSUME NEW n \in Bucket, NEW i \in 1..Len(allowed'[n]), NEW j \in 1..Len(allowed'[n]), i <= j
               PROVE  (j - i + 1) * Second <= Grant(allowed'[n][i], allowed'[n][j])
    BY DEF WithinRate, Grant
  <2>1. CASE n = name /\ j = Len(log) + 1
    <3>1. allowed'[n] = Append(log, now) /\ Len(log) \in Nat
      BY <1>1, <2>1 DEF Inv, TypeOK
    <3>2. allowed'[n][j] = now /\ i \in 1..Len(log) + 1
      BY <1>1, <2>1, <3>1
    <3>3. (Len(log) + 1 - i + 1) * Second <= Grant(Append(log, now)[i], now)
      BY <1>4, <3>2
    <3> QED
      BY <2>1, <3>1, <3>2, <3>3
  <2>2. CASE n = name /\ j # Len(log) + 1
    <3>1. /\ i \in 1..Len(log) /\ j \in 1..Len(log)
          /\ allowed'[n][i] = log[i] /\ allowed'[n][j] = log[j]
      BY <1>1, <2>2 DEF Inv, TypeOK
    <3> QED
      BY <2>2, <3>1 DEF Inv, WithinRate
  <2>3. CASE n # name
    BY <1>1, <2>3 DEF Inv, TypeOK, WithinRate
  <2> QED
    BY <2>1, <2>2, <2>3

LEMMA InvInit == Init => Inv
<1> SUFFICES ASSUME Init
             PROVE  Inv
  OBVIOUS
<1>1. TypeOK
  BY DEF Init, TypeOK
<1>2. WithinRate /\ \A name \in Bucket : Account(name)
  BY DEF Init, WithinRate, Account
<1> QED
  BY <1>1, <1>2 DEF Inv

LEMMA InvNext ==
    ASSUME Inv, [Next]_vars
    PROVE  Inv'
<1>1. ASSUME NEW name \in Bucket, Allow(name)
      PROVE  Inv'
  <2> DEFINE b == [Found(name) EXCEPT !.tokens = @ - Second]
  <2>1. /\ now \in Nat /\ now' = now
        /\ buckets' = [buckets EXCEPT ![name] = b]
        /\ allowed' = [allowed EXCEPT ![name] = Append(allowed[name], now)]
    BY <1>1 DEF Inv, TypeOK, Allow
  <2>2. b \in BucketState /\ Balanced(b, Append(allowed[name], now))
    BY <1>1, FoundBalanced, AllowBalanced DEF Allow, Inv, TypeOK
  <2>3. b.last_refill = now
    BY FoundBalanced DEF BucketState
  <2> HIDE DEF b
  <2>4. TypeOK'
    BY <2>1, <2>2 DEF Inv, TypeOK, BucketState
  <2>5. \A n \in Bucket : Account(n)'
    <3> TAKE n \in Bucket
    <3>1. CASE n = name
      <4>1. buckets'[n] = b /\ allowed'[n] = Append(allowed[name], now)
        BY <2>1, <3>1 DEF Inv, TypeOK
      <4>2. b # None /\ b.last_refill <= now'
        BY <2>1, <2>2, <2>3, NoneAssumption DEF BucketState
      <4>3. Balanced(b, Append(allowed[name], now)) = Balanced(buckets[n], allowed[n])'
        BY <4>1 DEF Balanced, Spent, Grant, burst, refill_per_tick
      <4> QED
        BY <2>2, <4>1, <4>2, <4>3 DEF Account
    <3>2. CASE n # name
      <4>1. buckets'[n] = buckets[n] /\ allowed'[n] = allowed[n]
        BY <2>1, <3>2 DEF Inv, TypeOK
      <4> QED
        BY <2>1, <4>1 DEF Inv, Account, Balanced, Spent, Grant, burst, refill_per_tick
    <3> QED
      BY <3>1, <3>2
  <2> QED
    BY <1>1, <2>4, <2>5, BalancedWithinRate DEF Inv
<1>2. ASSUME NEW name \in Bucket, Refuse(name)
      PROVE  Inv'
  <2>1. /\ now' = now /\ allowed' = allowed
        /\ buckets' = [buckets EXCEPT ![name] = Found(name)]
    BY <1>2 DEF Refuse
  <2>2. /\ Found(name) \in BucketState /\ Found(name).last_refill = now
        /\ Balanced(Found(name), allowed[name]) /\ now \in Nat
    BY FoundBalanced DEF Inv, TypeOK
  <2> HIDE DEF Found
  <2>3. TypeOK' /\ WithinRate'
    BY <2>1, <2>2 DEF Inv, TypeOK, WithinRate, Grant, burst, refill_per_tick, BucketState
  <2>4. \A n \in Bucket : Account(n)'
    <3> TAKE n \in Bucket
    <3>1. CASE n = name
      <4>1. buckets'[n] = Found(name) /\ allowed'[n] = allowed[name]
        BY <2>1, <3>1 DEF Inv, TypeOK
      <4> QED
        BY <2>1, <2>2, <4>1, NoneAssumption DEF Account, Balanced, BucketState, Spent, Grant, burst,
           refill_per_tick
    <3>2. CASE n # name
      <4>1. buckets'[n] = buckets[n] /\ allowed'[n] = allowed[n]
        BY <2>1, <3>2 DEF Inv, TypeOK
      <4> QED
        BY <2>1, <4>1 DEF Inv, Account, Balanced, Spent, Grant, burst, refill_per_tick
    <3> QED
      BY <3>1, <3>2
  <2> QED
    BY <2>3, <2>4 DEF Inv
<1>3. CASE Tick
  <2>1. TypeOK' /\ WithinRate'
    BY <1>3 DEF Tick, Inv, TypeOK, WithinRate, Grant, burst, refill_per_tick
  <2>2. \A n \in Bucket : Account(n)'
    <3> TAKE n \in Bucket
    <3>1. buckets[n] # None => buckets[n].last_refill \in Nat
      BY DEF Inv, TypeOK
    <3> QED
      BY <1>3, <3>1 DEF Tick, Inv, TypeOK, Account, Balanced, Spent, Grant, burst, refill_per_tick
  <2> QED
    BY <2>1, <2>2 DEF Inv
<1>4. CASE Restart
  <2>1. TypeOK'
    BY <1>4 DEF Restart, Inv, TypeOK
  <2>2. WithinRate' /\ \A n \in Bucket : Account(n)'
    BY <1>4 DEF Restart, WithinRate, Account
  <2> QED
    BY <2>1, <2>2 DEF Inv
<1>5. CASE UNCHANGED vars
  BY <1>5 DEF vars, Inv, TypeOK, WithinRate, Account, Balanced, Spent, Grant, burst, refill_per_tick
<1> QED
  BY <1>1, <1>2, <1>3, <1>4, <1>5 DEF Next

THEOREM InvAlways == Spec => []Inv
  BY InvInit, InvNext, PTL DEF Spec

\* The clock, the buckets and what each of them let pass keep their types, for
\* every burst, rate and number of buckets.
THEOREM TypeCorrect == Spec => []TypeOK
<1>1. Inv => TypeOK
  BY DEF Inv
<1> QED
  BY <1>1, InvAlways, PTL

\* Over every window, a bucket lets no more pass than burst and refill grant,
\* whatever the burst, the rate and the resolution of the clock are.
THEOREM NeverOverRate == Spec => []WithinRate
<1>1. Inv => WithinRate
  BY DEF Inv
<1> QED
  BY <1>1, InvAlways, PTL

\* And no request is refused that would have stayed within the grant.
THEOREM NeverRefusesTooEarly == Spec => RefusesOnlyOverRate
<1>1. ASSUME Inv
      PROVE  RefusalDue
  <2> SUFFICES ASSUME NEW name \in Bucket, Refuse(name)
               PROVE  \E i \in 1..Len(allowed[name]) :
                        (Len(allowed[name]) - i + 2) * Second > Grant(allowed[name][i], now)
    BY DEF RefusalDue
  <2> DEFINE b == Found(name)
             log == allowed[name]
  <2>1. /\ b \in BucketState /\ b.last_refill = now /\ Balanced(b, log)
        /\ log \in Seq(Nat) /\ now \in Nat
    BY <1>1, FoundBalanced DEF Inv, TypeOK
  <2>2. b.tokens < Second /\ b.tokens \in Nat
    BY <2>1 DEF Refuse, BucketState
  <2> HIDE DEF b, log
  <2>3. PICK i \in 1..Len(log) : Spent(b, log, i) + b.tokens = Grant(log[i], now)
    BY <2>1, <2>2, Units DEF Balanced
  <2>4. (Len(log) - i + 2) * Second = Spent(b, log, i) + Second /\ Spent(b, log, i) \in Int
    <3>1. \A x, s \in Int : (x + 1) * s = x * s + s /\ x * s \in Int
      OBVIOUS
    <3>2. Len(log) - i + 1 \in Int /\ Len(log) - i + 2 = (Len(log) - i + 1) + 1
      BY <2>1
    <3> QED
      BY <3>1, <3>2, Units DEF Spent
  <2>5. (Len(log) - i + 2) * Second > Grant(log[i], now)
    BY <2>2, <2>3, <2>4, Units
  <2> QED
    BY <2>5 DEF log
<1>2. Inv /\ [Next]_vars => [RefusalDue]_vars
  BY <1>1
<1> QED
  BY <1>2, InvAlways, PTL DEF Spec, RefusesOnlyOverRate
=============================================================================
