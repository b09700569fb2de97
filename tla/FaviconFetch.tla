---------------------------- MODULE FaviconFetch ----------------------------
(***************************************************************************)
(* Favicon discovery (YURRR_ENABLE_THIRD_PARTY_FAVICONS is on): the        *)
(* negative cache, the set of domains in flight and the semaphore, shared  *)
(* by the tasks that ensure a favicon exists.  A task is either the        *)
(* handler of GET /favicons/{domain}, which its client may drop at any     *)
(* await, or one that an entry's handler has spawned, which nobody drops.  *)
(***************************************************************************)
EXTENDS Naturals, FiniteSets

CONSTANTS
    Task,           \* concurrent calls of ensure_favicon_with_policy
    Domain,         \* normalised domains
    MaxFetches,     \* MAX_CONCURRENT_FETCHES
    None,           \* no domain
    DropMidFetch    \* a handler may be dropped between claim and release

ASSUME ParameterAssumption == MaxFetches \in Nat /\ DropMidFetch \in BOOLEAN
ASSUME NoneAssumption == None \notin Domain

VARIABLES
    stored,     \* the domains of table favicons
    negative,   \* NEGATIVE_FAVICON_CACHE
    inFlight,   \* FAVICON_IN_FLIGHT
    permits,    \* what FAVICON_FETCH_SEMAPHORE has left
    holds,      \* the tasks whose _permit is alive
    pc,
    domain,     \* the domain of a task
    handler     \* the tasks that are a handler's

vars == <<stored, negative, inFlight, permits, holds, pc, domain, handler>>

\* The awaits between mark_fetch_started and mark_fetch_finished.
FetchPC == {"fetch", "store", "clearStored", "remember"}
ClaimedPC == {"acquire", "release"} \cup FetchPC
PC == {"idle", "negative", "exists", "clear", "claim", "end"} \cup ClaimedPC

Claims(t, d) == pc[t] \in ClaimedPC /\ domain[t] = d

Init ==
    /\ stored = {} /\ negative = {} /\ inFlight = {}
    /\ permits = MaxFetches /\ holds = {}
    /\ pc = [t \in Task |-> "idle"] /\ domain = [t \in Task |-> None] /\ handler = {}

Goto(t, at) == pc' = [pc EXCEPT ![t] = at]

\* A handler calls ensure only for an icon that it did not find.
Start(t) ==
    /\ pc[t] = "idle"
    /\ \E d \in Domain :
          /\ domain' = [domain EXCEPT ![t] = d]
          /\ handler' = handler \ {t} \/ (d \notin stored /\ handler' = handler \cup {t})
    /\ Goto(t, "negative")
    /\ UNCHANGED <<stored, negative, inFlight, permits, holds>>

CheckNegative(t) ==
    /\ pc[t] = "negative"
    /\ Goto(t, IF domain[t] \in negative THEN "end" ELSE "exists")
    /\ UNCHANGED <<stored, negative, inFlight, permits, holds, domain, handler>>

\* A SELECT that fails counts as none found.
CheckExists(t) ==
    /\ pc[t] = "exists"
    /\ (domain[t] \in stored /\ Goto(t, "clear")) \/ Goto(t, "claim")
    /\ UNCHANGED <<stored, negative, inFlight, permits, holds, domain, handler>>

ClearNegative(t) ==
    /\ pc[t] \in {"clear", "clearStored"}
    /\ negative' = negative \ {domain[t]}
    /\ Goto(t, IF pc[t] = "clear" THEN "end" ELSE "release")
    /\ UNCHANGED <<stored, inFlight, permits, holds, domain, handler>>

\* Mutant: the result of the insertion is not looked at.
ClaimAnyway(t) ==
    /\ pc[t] = "claim"
    /\ inFlight' = inFlight \cup {domain[t]}
    /\ Goto(t, "acquire")
    /\ UNCHANGED <<stored, negative, permits, holds, domain, handler>>

\* mark_fetch_started.
Claim(t) ==
    /\ pc[t] = "claim"
    /\ inFlight' = inFlight \cup {domain[t]}
    /\ Goto(t, IF domain[t] \in inFlight THEN "end" ELSE "acquire")
    /\ UNCHANGED <<stored, negative, permits, holds, domain, handler>>

\* Mutant: a permit is taken whether there is one or not.
AcquireUnchecked(t) ==
    /\ pc[t] = "acquire"
    /\ Goto(t, "fetch") /\ permits' = permits - 1 /\ holds' = holds \cup {t}
    /\ UNCHANGED <<stored, negative, inFlight, domain, handler>>

\* Mutant: "let Ok(_) =" in place of "let Ok(_permit) =" drops the permit at once.
AcquireAndDrop(t) ==
    /\ pc[t] = "acquire"
    /\ Goto(t, IF permits = 0 THEN "release" ELSE "fetch")
    /\ UNCHANGED <<stored, negative, inFlight, permits, holds, domain, handler>>

\* Mutant: the limit's early return forgets mark_fetch_finished.
AcquireOrEnd(t) ==
    /\ pc[t] = "acquire"
    /\ IF permits = 0 THEN Goto(t, "end") /\ UNCHANGED <<permits, holds>>
       ELSE Goto(t, "fetch") /\ permits' = permits - 1 /\ holds' = holds \cup {t}
    /\ UNCHANGED <<stored, negative, inFlight, domain, handler>>

\* try_acquire does not wait.
Acquire(t) ==
    /\ pc[t] = "acquire"
    /\ IF permits = 0 THEN Goto(t, "release") /\ UNCHANGED <<permits, holds>>
       ELSE Goto(t, "fetch") /\ permits' = permits - 1 /\ holds' = holds \cup {t}
    /\ UNCHANGED <<stored, negative, inFlight, domain, handler>>

\* fetch_favicon_for_domain finds an icon or none; its requests time out.
FetchIcon(t) ==
    /\ pc[t] = "fetch"
    /\ Goto(t, "store") \/ Goto(t, "remember")
    /\ UNCHANGED <<stored, negative, inFlight, permits, holds, domain, handler>>

\* INSERT OR REPLACE succeeds or fails.
Store(t) ==
    /\ pc[t] = "store"
    /\ \/ stored' = stored \cup {domain[t]} /\ Goto(t, "clearStored")
       \/ UNCHANGED stored /\ Goto(t, "release")
    /\ UNCHANGED <<negative, inFlight, permits, holds, domain, handler>>

Remember(t) ==
    /\ pc[t] = "remember"
    /\ negative' = negative \cup {domain[t]}
    /\ Goto(t, "release")
    /\ UNCHANGED <<stored, inFlight, permits, holds, domain, handler>>

\* mark_fetch_finished.
Release(t) ==
    /\ pc[t] = "release"
    /\ inFlight' = inFlight \ {domain[t]}
    /\ Goto(t, "end")
    /\ UNCHANGED <<stored, negative, permits, holds, domain, handler>>

\* A future's locals die with it, however it ends: the permit goes back.
DropLocals(t) ==
    /\ permits' = IF t \in holds THEN permits + 1 ELSE permits
    /\ holds' = holds \ {t}
    /\ domain' = [domain EXCEPT ![t] = None]
    /\ handler' = handler \ {t}
    /\ Goto(t, "idle")

End(t) ==
    /\ pc[t] = "end"
    /\ DropLocals(t)
    /\ UNCHANGED <<stored, negative, inFlight>>

\* The client of a handler goes away. An INSERT in flight may still be run.
Drop(t) ==
    /\ t \in handler
    /\ pc[t] \in ClaimedPC => DropMidFetch
    /\ DropLocals(t)
    /\ UNCHANGED stored \/ (pc[t] = "store" /\ stored' = stored \cup {domain[t]})
    /\ UNCHANGED <<negative, inFlight>>

\* NEGATIVE_CACHE_TTL has passed.
Expire(d) ==
    /\ d \in negative
    /\ negative' = negative \ {d}
    /\ UNCHANGED <<stored, inFlight, permits, holds, pc, domain, handler>>

\* Only the table outlives the process.
Restart ==
    /\ negative' = {} /\ inFlight' = {}
    /\ permits' = MaxFetches /\ holds' = {}
    /\ pc' = [t \in Task |-> "idle"] /\ domain' = [t \in Task |-> None] /\ handler' = {}
    /\ UNCHANGED stored

Step(t) ==
    \/ CheckNegative(t) \/ CheckExists(t) \/ ClearNegative(t)
    \/ Claim(t) \/ Acquire(t) \/ FetchIcon(t) \/ Store(t) \/ Remember(t)
    \/ Release(t) \/ End(t)

Next ==
    \/ \E t \in Task : Start(t) \/ Step(t) \/ Drop(t)
    \/ \E d \in Domain : Expire(d)
    \/ Restart

Spec == Init /\ [][Next]_vars

\* The runtime polls every task that can go on, and every fetch times out.
FairSpec == Spec /\ \A t \in Task : WF_vars(Step(t))

(***************************************************************************)
(* Properties.                                                             *)
(***************************************************************************)
TypeOK ==
    /\ stored \subseteq Domain /\ negative \subseteq Domain /\ inFlight \subseteq Domain
    /\ permits \in Nat /\ holds \subseteq Task /\ handler \subseteq Task
    /\ pc \in [Task -> PC]
    /\ domain \in [Task -> Domain \cup {None}]
    /\ \A t \in Task : (domain[t] = None) = (pc[t] = "idle")

\* No domain is fetched by two tasks at once, though each of them has checked
\* the table and the negative cache before the other one finished.
OneFetchPerDomain ==
    \A t, u \in Task : \A d \in Domain : Claims(t, d) /\ Claims(u, d) => t = u

\* The semaphore counts what it should: with every drop and early return it
\* never lets more than MAX_CONCURRENT_FETCHES tasks fetch.
ConcurrencyBounded ==
    Cardinality({t \in Task : pc[t] \in FetchPC}) <= MaxFetches

\* "If not, fetch and store it": a task whose domain has no icon gives up at
\* the in-flight set only because another task is at it.
SkipJustified ==
    \A t \in Task : pc[t] = "claim" /\ pc'[t] = "end" => \E u \in Task : Claims(u, domain[t])
SkippedForAnotherFetch == [][SkipJustified]_vars

\* A domain that is being fetched is released some day, whatever the outcome.
InFlightReleased == \A d \in Domain : d \in inFlight ~> d \notin inFlight
=============================================================================
