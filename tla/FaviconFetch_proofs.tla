------------------------- MODULE FaviconFetch_proofs -------------------------
(***************************************************************************)
(* Favicon discovery, for every set of tasks and domains and every limit.  *)
(***************************************************************************)
EXTENDS FaviconFetch, FiniteSetTheorems, TLAPS

\* A claim is in the in-flight set and nobody else has it; unless a handler was
\* dropped in the middle, the set holds nothing but claims.
Claimed ==
    /\ \A t \in Task : pc[t] \in ClaimedPC => domain[t] \in inFlight
    /\ OneFetchPerDomain
    /\ ~DropMidFetch => \A d \in inFlight : \E t \in Task : Claims(t, d)

\* A permit is either left or held, by a task that fetches or has just done so.
Accounted ==
    /\ IsFiniteSet(holds) /\ permits + Cardinality(holds) = MaxFetches
    /\ \A t \in Task : pc[t] \in FetchPC => t \in holds
    /\ \A t \in holds : pc[t] \in FetchPC \cup {"release", "end"}

LEMMA TypeInit == Init => TypeOK
  BY ParameterAssumption DEF Init, TypeOK, PC

LEMMA TypeNext ==
    ASSUME TypeOK, [Next]_vars
    PROVE  TypeOK'
<1> USE NoneAssumption DEF TypeOK, PC, ClaimedPC, FetchPC, Goto
<1>1. ASSUME NEW t \in Task, Start(t)
      PROVE  TypeOK'
  <2>1. PICK d \in Domain : domain' = [domain EXCEPT ![t] = d] /\ handler' \subseteq Task
    BY <1>1 DEF Start
  <2> QED
    BY <1>1, <2>1 DEF Start
<1>2. ASSUME NEW t \in Task, CheckNegative(t)
      PROVE  TypeOK'
  BY <1>2 DEF CheckNegative
<1>3. ASSUME NEW t \in Task, CheckExists(t)
      PROVE  TypeOK'
  <2>1. PICK at \in {"clear", "claim"} : pc' = [pc EXCEPT ![t] = at]
    BY <1>3 DEF CheckExists
  <2> QED
    BY <1>3, <2>1 DEF CheckExists
<1>4. ASSUME NEW t \in Task, ClearNegative(t)
      PROVE  TypeOK'
  BY <1>4 DEF ClearNegative
<1>5. ASSUME NEW t \in Task, Claim(t)
      PROVE  TypeOK'
  BY <1>5 DEF Claim
<1>6. ASSUME NEW t \in Task, Acquire(t)
      PROVE  TypeOK'
  BY <1>6 DEF Acquire
<1>7. ASSUME NEW t \in Task, FetchIcon(t)
      PROVE  TypeOK'
  <2>1. PICK at \in {"store", "remember"} : pc' = [pc EXCEPT ![t] = at]
    BY <1>7 DEF FetchIcon
  <2> QED
    BY <1>7, <2>1 DEF FetchIcon
<1>8. ASSUME NEW t \in Task, Store(t)
      PROVE  TypeOK'
  <2>1. PICK at \in {"clearStored", "release"} : pc' = [pc EXCEPT ![t] = at]
    BY <1>8 DEF Store
  <2>2. stored' \subseteq Domain
    BY <1>8 DEF Store
  <2> QED
    BY <1>8, <2>1, <2>2 DEF Store
<1>9. ASSUME NEW t \in Task, Remember(t)
      PROVE  TypeOK'
  BY <1>9 DEF Remember
<1>10. ASSUME NEW t \in Task, Release(t)
       PROVE  TypeOK'
  BY <1>10 DEF Release
<1>11. ASSUME NEW t \in Task, DropLocals(t), stored' \subseteq Domain,
              UNCHANGED <<negative, inFlight>>
       PROVE  TypeOK'
  BY <1>11 DEF DropLocals
<1>12. ASSUME NEW t \in Task, End(t)
       PROVE  TypeOK'
  BY <1>11, <1>12 DEF End
<1>13. ASSUME NEW t \in Task, Drop(t)
       PROVE  TypeOK'
  <2>1. t \in handler /\ stored' \subseteq Domain
    BY <1>13 DEF Drop, DropLocals
  <2> QED
    BY <1>11, <1>13, <2>1 DEF Drop
<1>14. ASSUME NEW d \in Domain, Expire(d)
       PROVE  TypeOK'
  BY <1>14 DEF Expire
<1>15. CASE Restart
  BY <1>15, ParameterAssumption DEF Restart
<1>16. CASE UNCHANGED vars
  BY <1>16 DEF vars
<1> QED
  BY <1>1, <1>2, <1>3, <1>4, <1>5, <1>6, <1>7, <1>8, <1>9, <1>10, <1>12, <1>13, <1>14, <1>15, <1>16
     DEF Next, Step

\* The program counters move as the handler is written: what a step that is not
\* Claim, Release or the end of a task does to the claims is nothing.
LEMMA ClaimedInit == Init => Claimed
  BY DEF Init, Claimed, OneFetchPerDomain, Claims, ClaimedPC, FetchPC

LEMMA ClaimedNext ==
    ASSUME TypeOK, TypeOK', Claimed, [Next]_vars
    PROVE  Claimed'
<1> USE DEF TypeOK, Claimed, OneFetchPerDomain, Claims, ClaimedPC, FetchPC, Goto
<1>1. ASSUME NEW t \in Task, Start(t)
      PROVE  Claimed'
  BY <1>1 DEF Start
<1>2. ASSUME NEW t \in Task,
             CheckNegative(t) \/ CheckExists(t) \/ ClearNegative(t) \/ Acquire(t) \/ FetchIcon(t)
             \/ Store(t) \/ Remember(t)
      PROVE  Claimed'
  <2>1. /\ inFlight' = inFlight /\ domain' = domain
        /\ \A u \in Task : (pc'[u] \in ClaimedPC) = (pc[u] \in ClaimedPC)
    BY <1>2 DEF CheckNegative, CheckExists, ClearNegative, Acquire, FetchIcon, Store, Remember
  <2> QED
    BY <2>1
<1>3. ASSUME NEW t \in Task, Claim(t)
      PROVE  Claimed'
  <2>1. CASE domain[t] \in inFlight
    BY <1>3, <2>1 DEF Claim
  <2>2. CASE domain[t] \notin inFlight
    BY <1>3, <2>2 DEF Claim
  <2> QED
    BY <2>1, <2>2
<1>4. ASSUME NEW t \in Task, Release(t)
      PROVE  Claimed'
  BY <1>4 DEF Release
<1>5. ASSUME NEW t \in Task, End(t)
      PROVE  Claimed'
  BY <1>5 DEF End, DropLocals
<1>6. ASSUME NEW t \in Task, Drop(t)
      PROVE  Claimed'
  <2>1. /\ inFlight' = inFlight
        /\ \A u \in Task : pc'[u] \in ClaimedPC =>
              u # t /\ pc[u] \in ClaimedPC /\ domain'[u] = domain[u]
    BY <1>6 DEF Drop, DropLocals
  <2>2. ~DropMidFetch => \A u \in Task : pc[u] \in ClaimedPC =>
                            pc'[u] \in ClaimedPC /\ domain'[u] = domain[u]
    BY <1>6 DEF Drop, DropLocals
  <2> QED
    BY <2>1, <2>2
<1>7. ASSUME NEW d \in Domain, Expire(d)
      PROVE  Claimed'
  BY <1>7 DEF Expire
<1>8. CASE Restart
  BY <1>8 DEF Restart
<1>9. CASE UNCHANGED vars
  BY <1>9 DEF vars
<1> QED
  BY <1>1, <1>2, <1>3, <1>4, <1>5, <1>6, <1>7, <1>8, <1>9 DEF Next, Step

LEMMA AccountedInit == Init => Accounted
<1> SUFFICES ASSUME Init
             PROVE  Accounted
  OBVIOUS
<1>1. IsFiniteSet(holds) /\ Cardinality(holds) = 0
  BY FS_EmptySet DEF Init
<1> QED
  BY <1>1, ParameterAssumption DEF Init, Accounted, FetchPC

LEMMA AccountedNext ==
    ASSUME TypeOK, TypeOK', Accounted, [Next]_vars
    PROVE  Accounted'
<1> USE DEF FetchPC, Goto
<1>1. ASSUME NEW t \in Task, Step(t) \/ Start(t), ~Acquire(t), ~End(t)
      PROVE  Accounted'
  <2>1. permits' = permits /\ holds' = holds
    BY <1>1 DEF Step, Start, CheckNegative, CheckExists, ClearNegative, Claim, FetchIcon, Store,
       Remember, Release
  <2>2. \A u \in Task : /\ pc'[u] \in FetchPC => pc[u] \in FetchPC
                        /\ pc[u] \in FetchPC \cup {"release", "end"} => pc'[u] \in FetchPC \cup {"release", "end"}
    BY <1>1 DEF TypeOK, Step, Start, CheckNegative, CheckExists, ClearNegative, Claim, FetchIcon, Store,
       Remember, Release
  <2> QED
    BY <2>1, <2>2 DEF Accounted, TypeOK
<1>2. ASSUME NEW t \in Task, Acquire(t)
      PROVE  Accounted'
  <2>1. CASE permits = 0
    BY <1>2, <2>1 DEF Acquire, Accounted, TypeOK
  <2>2. CASE permits # 0
    <3>1. /\ t \notin holds /\ permits' = permits - 1 /\ holds' = holds \cup {t}
          /\ pc' = [pc EXCEPT ![t] = "fetch"]
      BY <1>2, <2>2 DEF Acquire, Accounted
    <3>2. IsFiniteSet(holds') /\ Cardinality(holds') = Cardinality(holds) + 1
      BY <3>1, FS_AddElement DEF Accounted
    <3>3. Cardinality(holds) \in Nat
      BY FS_CardinalityType DEF Accounted
    <3> QED
      BY <2>2, <3>1, <3>2, <3>3, ParameterAssumption DEF Accounted, TypeOK
  <2> QED
    BY <2>1, <2>2
<1>3. ASSUME NEW t \in Task, DropLocals(t)
      PROVE  Accounted'
  <2>1. /\ IsFiniteSet(holds') /\ holds' = holds \ {t}
        /\ Cardinality(holds') = IF t \in holds THEN Cardinality(holds) - 1 ELSE Cardinality(holds)
    BY <1>3, FS_RemoveElement DEF DropLocals, Accounted
  <2>2. Cardinality(holds) \in Nat /\ (t \in holds => Cardinality(holds) > 0)
    BY FS_CardinalityType, FS_EmptySet DEF Accounted
  <2>3. permits' + Cardinality(holds') = MaxFetches
    BY <1>3, <2>1, <2>2 DEF DropLocals, Accounted, TypeOK
  <2>4. /\ \A u \in Task : pc'[u] \in FetchPC => u # t /\ pc[u] \in FetchPC
        /\ \A u \in holds' : u # t /\ pc'[u] = pc[u]
    BY <1>3, <2>1 DEF DropLocals, TypeOK
  <2> QED
    BY <2>1, <2>3, <2>4 DEF Accounted
<1>4. ASSUME NEW d \in Domain, Expire(d)
      PROVE  Accounted'
  BY <1>4 DEF Expire, Accounted
<1>5. CASE Restart
  BY <1>5, FS_EmptySet, ParameterAssumption DEF Restart, Accounted
<1>6. CASE UNCHANGED vars
  BY <1>6 DEF vars, Accounted
<1> QED
  BY <1>1, <1>2, <1>3, <1>4, <1>5, <1>6 DEF Next, Step, End, Drop

\* The inductive invariant.
Inv == TypeOK /\ Claimed /\ Accounted

THEOREM InvAlways == Spec => []Inv
<1>1. Init => Inv
  BY TypeInit, ClaimedInit, AccountedInit DEF Inv
<1>2. Inv /\ [Next]_vars => Inv'
  BY TypeNext, ClaimedNext, AccountedNext DEF Inv
<1> QED
  BY <1>1, <1>2, PTL DEF Spec

\* The claims, permits, cached icons and locals of every handler keep their
\* types, wherever a handler is dropped or the server is restarted.
THEOREM TypeCorrect == Spec => []TypeOK
<1>1. Inv => TypeOK
  BY DEF Inv
<1> QED
  BY <1>1, InvAlways, PTL

\* However many handlers are dropped, and wherever, no domain is ever fetched by
\* two calls of ensure_favicon_with_policy at once.
THEOREM FetchedOnceAtATime == Spec => []OneFetchPerDomain
<1>1. Inv => OneFetchPerDomain
  BY DEF Inv, Claimed
<1> QED
  BY <1>1, InvAlways, PTL

\* At most MAX_CONCURRENT_FETCHES calls fetch: no drop, early return or restart
\* loses a permit or gives one back twice.
THEOREM LimitKept == Spec => []ConcurrencyBounded
<1>1. Inv => ConcurrencyBounded
  <2> SUFFICES ASSUME Inv
               PROVE  ConcurrencyBounded
    OBVIOUS
  <2> DEFINE fetching == {t \in Task : pc[t] \in FetchPC}
  <2>1. fetching \subseteq holds
    BY DEF Inv, Accounted
  <2>2. IsFiniteSet(holds) /\ permits + Cardinality(holds) = MaxFetches /\ permits \in Nat
    BY DEF Inv, Accounted, TypeOK
  <2>3. IsFiniteSet(fetching) /\ Cardinality(fetching) <= Cardinality(holds)
    BY <2>1, <2>2, FS_Subset
  <2>4. Cardinality(fetching) \in Nat /\ Cardinality(holds) \in Nat
    BY <2>2, <2>3, FS_CardinalityType
  <2> HIDE DEF fetching
  <2>5. Cardinality(fetching) <= MaxFetches
    BY <2>2, <2>3, <2>4, ParameterAssumption
  <2> QED
    BY <2>5 DEF ConcurrencyBounded, fetching
<1> QED
  BY <1>1, InvAlways, PTL

\* Unless a handler is dropped between claim and release, a domain is passed
\* over at the in-flight set only while another task is at it.
THEOREM SkipsAreJustified == ~DropMidFetch => (Spec => SkippedForAnotherFetch)
<1> SUFFICES ASSUME ~DropMidFetch
             PROVE  Spec => SkippedForAnotherFetch
  OBVIOUS
<1>1. Inv /\ [Next]_vars => SkipJustified
  <2> SUFFICES ASSUME Inv, [Next]_vars, NEW t \in Task, pc[t] = "claim", pc'[t] = "end"
               PROVE  domain[t] \in inFlight
    BY DEF Inv, Claimed, SkipJustified
  <2>1. ASSUME NEW u \in Task, Start(u) \/ Step(u) \/ Drop(u)
        PROVE  u = t /\ Claim(t)
    <3>1. u = t
      BY <2>1 DEF Inv, TypeOK, Step, Start, CheckNegative, CheckExists, ClearNegative, Claim, Acquire,
         FetchIcon, Store, Remember, Release, End, Drop, DropLocals, Goto
    <3>2. ~Start(t) /\ ~Drop(t)
      BY DEF Inv, TypeOK, Start, Drop, DropLocals, Goto
    <3> QED
      BY <2>1, <3>1, <3>2 DEF Step, CheckNegative, CheckExists, ClearNegative, Acquire,
         FetchIcon, Store, Remember, Release, End
  <2>2. ~Restart /\ ~UNCHANGED vars /\ ~\E d \in Domain : Expire(d)
    BY DEF Restart, vars, Expire
  <2>3. Claim(t)
    BY <2>1, <2>2 DEF Next
  <2> QED
    BY <2>3 DEF Inv, TypeOK, Claim, Goto
<1> QED
  BY <1>1, InvAlways, PTL DEF Spec, SkippedForAnotherFetch
=============================================================================
