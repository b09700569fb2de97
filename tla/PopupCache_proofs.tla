------------------------- MODULE PopupCache_proofs -------------------------
(***************************************************************************)
(* Proofs about PopupCache for every value of its constants: the types,    *)
(* then what mutations, writes to storage and locks guarantee.             *)
(***************************************************************************)
EXTENDS PopupCache, TLAPS

(***************************************************************************)
(* Types.                                                                  *)
(***************************************************************************)
\* What the types rest on: a write under way is in the queue, nothing is cached
\* or being loaded without a token, and a login under way has its token.
Grounded ==
    /\ writing # <<>> => queue > 0
    /\ records # NoRecords => token # None
    /\ Loader \in sameToken => token # None
    /\ \A p \in Proc : pc[p] \in {"saving", "saved"} => seen[p] \in Token

Typed == TypeOK /\ Grounded

LEMMA CacheFacts ==
    /\ NoRecords \in Cache
    /\ \A c \in Cache, k \in Key : c[k] \in Record \cup {None}
    /\ \A c \in Cache, k \in Key : c[k] # None => c # NoRecords
    /\ \A c \in Cache, S \in SUBSET Key : [j \in Key |-> IF j \in S THEN None ELSE c[j]] \in Cache
  BY DEF NoRecords, Cache

LEMMA RecordType ==
    ASSUME NEW k \in Key, NEW d \in Data(k), NEW t \in Token
    PROVE  [data |-> d, token |-> t] \in Record
  BY DEF Record

LEMMA RequestType ==
    ASSUME NEW k \in Key, NEW ph \in {"sent", "answered", "storing", "removing"}, NEW t \in Token,
           NEW d \in Data(k) \cup {None}
    PROVE  [key |-> k, phase |-> ph, token |-> t, data |-> d] \in Requested
  BY DEF Requested

LEMMA RequestFields ==
    ASSUME NEW j \in Requested
    PROVE  /\ j.key \in Key /\ j.token \in Token
           /\ j.data \in Data(j.key) \cup {None}
           /\ j = [key |-> j.key, phase |-> j.phase, token |-> j.token, data |-> j.data]
           /\ \A ph \in {"sent", "answered", "storing", "removing"} :
                /\ [j EXCEPT !.phase = ph] \in Requested
                /\ \A d \in Data(j.key) \cup {None} : [[j EXCEPT !.phase = ph] EXCEPT !.data = d] \in Requested
<1> DEFINE Phase == {"sent", "answered", "storing", "removing"}
<1>1. PICK k \in Key : \E ph0 \in Phase, t \in Token, d0 \in Data(k) \cup {None} :
        j = [key |-> k, phase |-> ph0, token |-> t, data |-> d0]
  BY DEF Requested
<1>2. PICK ph0 \in Phase, t \in Token, d0 \in Data(k) \cup {None} :
        j = [key |-> k, phase |-> ph0, token |-> t, data |-> d0]
  BY <1>1
<1>3. ASSUME NEW ph \in Phase, NEW d \in Data(k) \cup {None}
      PROVE  [j EXCEPT !.phase = ph] \in Requested /\ [[j EXCEPT !.phase = ph] EXCEPT !.data = d] \in Requested
  <2> DEFINE j1 == [j EXCEPT !.phase = ph]
             j2 == [j1 EXCEPT !.data = d]
  <2>1. j1 = [key |-> k, phase |-> ph, token |-> t, data |-> d0]
    BY <1>2
  <2> HIDE DEF j1
  <2>2. j2 = [key |-> k, phase |-> ph, token |-> t, data |-> d]
    BY <2>1
  <2> HIDE DEF j2
  <2>3. j1 \in Requested
    BY <2>1, RequestType
  <2>4. j2 \in Requested
    BY <2>2, RequestType
  <2> QED
    BY <2>3, <2>4 DEF j1, j2
<1>4. j.key = k
  BY <1>2
<1> QED
  BY <1>2, <1>3, <1>4

\* The versions of the logins in the vault only grow.
LEMMA ChangeType ==
    ASSUME vault \in [Entry -> Version], NEW e \in Entry, Change(e)
    PROVE  /\ vault' \in [Entry -> Version] /\ vault'[e] \in Version /\ vault'[e] > vault[e]
           /\ \A d \in Entry \ {e} : vault'[d] = vault[d]
  BY ParameterAssumption DEF Change, Version, Gone

LEMMA TypedInit == Init => Typed
<1> SUFFICES ASSUME Init PROVE Typed
  OBVIOUS
<1>1. PICK p \in Proc : pc = [q \in Proc |-> IF q = p THEN "boot" ELSE "idle"]
  BY DEF Init
<1>2. /\ pc \in [Proc -> Labels] /\ seen \in [Proc -> Token \cup {None}]
      /\ key \in [Proc -> Key \cup {"alarm", None}] /\ waits \in [Proc -> Proc \cup {None}]
  BY <1>1 DEF Init, Labels
<1>3. records \in Cache /\ pending \in [Key -> Fetch \cup {None}] /\ stored \in Stored
  BY CacheFacts DEF Init, NoPending, Stored
<1>4. 1 \in Version /\ queue \in 0 .. MaxQueue /\ behind \in [Task -> 0 .. MaxQueue]
  BY ParameterAssumption DEF Init, Version
<1>5. TypeOK
  BY <1>2, <1>3, <1>4 DEF Init, TypeOK
<1>6. Grounded
  BY <1>1, TaskAssumption DEF Init, Grounded
<1> QED
  BY <1>5, <1>6 DEF Typed

LEMMA TwoFields ==
    ASSUME NEW F, NEW R, NEW jobs \in [F -> R], NEW f \in F, NEW ph, NEW d
    PROVE  [jobs EXCEPT ![f].phase = ph, ![f].data = d]
           = [jobs EXCEPT ![f] = [[jobs[f] EXCEPT !.phase = ph] EXCEPT !.data = d]]
  OBVIOUS

LEMMA PersistTyped ==
    ASSUME Typed, NEW ts \in SUBSET Task, Persist(ts)
    PROVE  /\ queue' \in 0 .. MaxQueue /\ behind' \in [Task -> 0 .. MaxQueue]
           /\ writing' \in {<<>>} \cup {<<s>> : s \in Stored} /\ stored' \in Stored
           /\ queue' > 0
  BY ParameterAssumption DEF Typed, TypeOK, Persist

LEMMA ClearTyped ==
    ASSUME Typed, NEW ts \in SUBSET Task, NEW same \in SUBSET Task, Clear(ts, same)
    PROVE  /\ queue' \in 0 .. MaxQueue /\ behind' \in [Task -> 0 .. MaxQueue]
           /\ writing' \in {<<>>} \cup {<<s>> : s \in Stored} /\ stored' \in Stored
           /\ queue' > 0
           /\ sameToken' \subseteq same /\ Loader \notin sameToken' /\ sameCache' = {}
           /\ records' = NoRecords /\ records' \in Cache
           /\ pending' \in [Key -> Fetch \cup {None}] /\ job' = job
           /\ loaded' \in {"none", "loading", "done", "failed"} /\ owner' = <<>>
<1>1. Persist(ts)
  BY DEF Clear
<1>2. pending' \in [Key -> Fetch \cup {None}]
  BY DEF Clear, NoPending
<1> QED
  BY <1>1, <1>2, PersistTyped, CacheFacts DEF Clear

LEMMA LockTyped ==
    ASSUME Typed, NEW p \in Proc, BeginLock(p),
           waits' \in [Proc -> Proc \cup {None}], mutation' \in Proc \cup {None},
           UNCHANGED serverVars
    PROVE  Typed'
<1>1. Clear({p}, {}) /\ {p} \in SUBSET Task /\ {} \in SUBSET Task
  BY DEF BeginLock, Task
<1>2. locked' \subseteq Token
  BY DEF Typed, TypeOK, Grounded, BeginLock, Saving
<1>3. TypeOK'
  BY <1>1, <1>2, ClearTyped, NoneAssumption
     DEF Typed, TypeOK, BeginLock, Goto, Forget, serverVars, Labels, Task
<1>4. Grounded'
  BY <1>1, ClearTyped DEF Typed, TypeOK, Grounded, BeginLock, Goto, Forget
<1> QED
  BY <1>3, <1>4 DEF Typed

LEMMA StartTyped == ASSUME Typed, NEW p \in Proc, Start(p) PROVE Typed'
<1>1. CASE \E k \in Key : StartRead(p, k)
  <2>1. PICK k \in Key : StartRead(p, k)
    BY <1>1
  <2>2. /\ pc' \in [Proc -> Labels] /\ key' \in [Proc -> Key \cup {"alarm", None}]
        /\ seen' \in [Proc -> Token \cup {None}] /\ waits' \in [Proc -> Proc \cup {None}]
        /\ sameSession' \subseteq Proc
    BY <2>1 DEF StartRead, BeginUnlock, Goto, Typed, TypeOK, Labels, ReadLabels
  <2>3. TypeOK'
    BY <2>1, <2>2 DEF StartRead, Typed, TypeOK, sessionVars, cacheVars, queueVars, serverVars
  <2>4. Grounded'
    BY <2>1 DEF StartRead, BeginUnlock, Goto, Typed, TypeOK, Grounded,
       sessionVars, cacheVars, queueVars, serverVars
  <2> QED
    BY <2>3, <2>4 DEF Typed
<1>2. CASE StartExpire(p)
  BY <1>2 DEF StartExpire, BeginUnlock, Goto, Typed, TypeOK, Grounded, Labels, ReadLabels,
     sessionVars, cacheVars, queueVars, serverVars
<1>3. CASE StartMutation(p)
  <2>1. CASE mutation = None
    <3>1. Clear({p}, sameToken \cup {p}) /\ {p} \in SUBSET Task /\ sameToken \cup {p} \in SUBSET Task
      BY <1>3, <2>1 DEF StartMutation, Typed, TypeOK, Task
    <3> QED
      BY <1>3, <2>1, <3>1, ClearTyped DEF StartMutation, Goto, Typed, TypeOK, Grounded, Labels,
         MutateLabels, sessionVars, serverVars
  <2>2. CASE mutation # None
    BY <1>3, <2>2, TaskAssumption DEF StartMutation, Goto, Typed, TypeOK, Grounded, Labels, MutateLabels,
       Task, sessionVars, cacheVars, queueVars, serverVars
  <2> QED
    BY <2>1, <2>2
<1>4. CASE StartLogin(p)
  BY <1>4, TaskAssumption DEF StartLogin, Goto, Typed, TypeOK, Grounded, Labels, LoginLabels, Task,
     sessionVars, cacheVars, queueVars, serverVars
<1>5. CASE Lock(p) \/ \E f \in Fetch : FetchRejected(p, f)
  BY <1>5, LockTyped DEF Lock, FetchRejected, Typed, TypeOK
<1>6. CASE Restart(p)
  <2>1. records' \in Cache /\ pending' \in [Key -> Fetch \cup {None}] /\ stored' \in Stored
    BY <1>6, CacheFacts DEF Restart, NoPending, Typed, TypeOK
  <2>4. /\ pc' \in [Proc -> Labels] /\ key' \in [Proc -> Key \cup {"alarm", None}]
        /\ seen' \in [Proc -> Token \cup {None}] /\ waits' \in [Proc -> Proc \cup {None}]
    BY <1>6 DEF Restart, Typed, TypeOK, Labels
  <2>5. job' \in [Fetch -> Requested \cup {None}] /\ behind' \in [Task -> 0 .. MaxQueue] /\ queue' \in 0 .. MaxQueue
    BY <1>6, ParameterAssumption DEF Restart
  <2>2. TypeOK'
    BY <1>6, <2>1, <2>4, <2>5 DEF Restart, Typed, TypeOK, serverVars
  <2>3. Grounded'
    BY <1>6 DEF Restart, Typed, TypeOK, Grounded
  <2> QED
    BY <2>2, <2>3 DEF Typed
<1> QED
  BY <1>1, <1>2, <1>3, <1>4, <1>5, <1>6 DEF Start


LEMMA LeaveTyped ==
    ASSUME Typed, NEW ps \in SUBSET Proc, NEW task, NEW label \in Labels \ {"saving", "saved"},
           Leave(ps, task, label)
    PROVE  /\ pc' \in [Proc -> Labels] /\ key' \in [Proc -> Key \cup {"alarm", None}]
           /\ seen' \in [Proc -> Token \cup {None}] /\ waits' \in [Proc -> Proc \cup {None}]
           /\ sameToken' \subseteq sameToken /\ sameCache' \subseteq sameCache
           /\ sameSession' \subseteq Proc
           /\ \A p \in Proc : pc'[p] \in {"saving", "saved"} => seen'[p] \in Token
<1>1. pc' \in [Proc -> Labels] /\ key' \in [Proc -> Key \cup {"alarm", None}]
  BY DEF Typed, TypeOK, Leave
<1>2. seen' \in [Proc -> Token \cup {None}] /\ waits' \in [Proc -> Proc \cup {None}]
      /\ sameSession' \subseteq Proc
  BY DEF Typed, TypeOK, Leave
<1>3. \A p \in Proc : pc'[p] \in {"saving", "saved"} => seen'[p] \in Token
  BY DEF Typed, TypeOK, Grounded, Leave
<1> QED
  BY <1>1, <1>2, <1>3 DEF Leave

LEMMA RequestTyped ==
    ASSUME Typed, NEW p \in Proc, NEW k \in Key, token # None, ContextAndRequest(p, k)
    PROVE  /\ job' \in [Fetch -> Requested \cup {None}] /\ pending' \in [Key -> Fetch \cup {None}]
           /\ sameCache' \subseteq Proc \cup Fetch /\ sameToken' \subseteq Task
           /\ Loader \in sameToken' => Loader \in sameToken
<1>1. PICK f \in Fetch :
         /\ job[f] = None
         /\ job' = [job EXCEPT ![f] = [key |-> k, phase |-> "sent", token |-> token, data |-> None]]
         /\ pending' = [pending EXCEPT ![k] = f]
         /\ sameCache' = sameCache \cup {p, f} /\ sameToken' = sameToken \cup {p, f}
  BY DEF ContextAndRequest
<1>2. token \in Token
  BY DEF Typed, TypeOK
<1>3. [key |-> k, phase |-> "sent", token |-> token, data |-> None] \in Requested
  BY <1>2, RequestType
<1>4. job' \in [Fetch -> Requested \cup {None}] /\ pending' \in [Key -> Fetch \cup {None}]
  BY <1>1, <1>3 DEF Typed, TypeOK
<1> QED
  BY <1>1, <1>4, TaskAssumption DEF Typed, TypeOK, Task

LEMMA ReadStepTyped == ASSUME Typed, NEW p \in Proc, ReadStep(p) PROVE Typed'
<1>1. CASE ReadWaited(p)
  BY <1>1 DEF ReadWaited, BeginUnlock, Goto, Typed, TypeOK, Grounded, Labels, ReadLabels,
     sessionVars, cacheVars, queueVars, serverVars
<1>2. CASE IsUnlocked(p)
  BY <1>2 DEF IsUnlocked, EndUnlock, Unlocked, SetToken, Goto, Typed, TypeOK, Grounded, Labels, ReadLabels,
     sessionVars, cacheVars, queueVars, serverVars
<1>3. CASE IsLocked(p)
  <2>1. CASE key[p] = "alarm"
    <3>1. Clear({}, sameToken) /\ {} \in SUBSET Task /\ sameToken \in SUBSET Task
      BY <1>3, <2>1 DEF IsLocked, Typed, TypeOK
    <3> QED
      <4>1. Goto(p, "idle") /\ Forget(p) /\ sameSession' = sameSession \ {p}
            /\ UNCHANGED <<waits, sessionVars, mutation, serverVars>>
        BY <1>3, <2>1 DEF IsLocked
      <4>2. TypeOK'
        BY <4>1, <3>1, ClearTyped DEF Goto, Forget, Typed, TypeOK, Labels, sessionVars, serverVars
      <4>3. Grounded'
        BY <4>1, <3>1, ClearTyped DEF Goto, Forget, Typed, TypeOK, Grounded, Labels, sessionVars
      <4> QED
        BY <4>2, <4>3 DEF Typed
  <2>2. CASE key[p] # "alarm"
    BY <1>3, <2>2 DEF IsLocked, End, Forget, Goto, Typed, TypeOK, Grounded, Labels, ReadLabels,
     sessionVars, cacheVars, queueVars, serverVars
  <2> QED
    BY <2>1, <2>2
<1>4. CASE LoadClears(p)
  <2>1. Clear({p}, sameToken) /\ {p} \in SUBSET Task /\ sameToken \in SUBSET Task
    BY <1>4 DEF LoadClears, Typed, TypeOK, Task
  <2> QED
    BY <1>4, <2>1, ClearTyped DEF LoadClears, Goto, Typed, TypeOK, Grounded, Labels, ReadLabels,
     sessionVars, cacheVars, queueVars, serverVars
<1>5. CASE StartLoad(p)
  BY <1>5, TaskAssumption DEF StartLoad, Task, Goto, Typed, TypeOK, Grounded, Labels, ReadLabels,
     sessionVars, cacheVars, queueVars, serverVars
<1>6. CASE JoinLoad(p)
  BY <1>6, TaskAssumption DEF JoinLoad, End, Forget, sameVars, Goto, Typed, TypeOK, Grounded, Labels, ReadLabels,
     sessionVars, cacheVars, queueVars, serverVars
<1>7. CASE LoadDropped(p)
  BY <1>7 DEF LoadDropped, End, Forget, Goto, Typed, TypeOK, Grounded, Labels, ReadLabels,
     sessionVars, cacheVars, queueVars, serverVars
<1>8. CASE ExpireWrites(p)
  <2>1. Persist({})
    BY <1>8 DEF ExpireWrites
  <2> QED
    BY <1>8, <2>1, PersistTyped DEF ExpireWrites, End, Forget, Goto, Typed, TypeOK, Grounded, Labels, ReadLabels,
     sessionVars, cacheVars, queueVars, serverVars
<1>9. CASE ReadAgain(p)
  BY <1>9 DEF ReadAgain, sameVars, Goto, Typed, TypeOK, Grounded, Labels, ReadLabels,
     sessionVars, cacheVars, queueVars, serverVars
<1>10. CASE ReadMisses(p)
  <2>1. CASE /\ token # None /\ Goto(p, "fetching") /\ ContextAndRequest(p, key[p])
             /\ UNCHANGED <<key, seen, sameSession>>
    <3>1. key[p] \in Key
      BY <1>10 DEF ReadMisses, Reads
    <3> QED
      BY <1>10, <2>1, <3>1, RequestTyped DEF ReadMisses, Goto, Typed, TypeOK, Grounded, Labels, ReadLabels,
     sessionVars, cacheVars, queueVars, serverVars
  <2>2. CASE Goto(p, "fetching") /\ Context(p) /\ UNCHANGED <<pending, job, key, seen, sameSession>>
    BY <1>10, <2>2, TaskAssumption DEF ReadMisses, Context, Task, Goto, Typed, TypeOK, Grounded, Labels, ReadLabels,
     sessionVars, cacheVars, queueVars, serverVars
  <2>3. CASE End(p) /\ UNCHANGED <<pending, job>>
    BY <1>10, <2>3 DEF ReadMisses, End, Forget, Goto, Typed, TypeOK, Grounded, Labels, ReadLabels,
     sessionVars, cacheVars, queueVars, serverVars
  <2> QED
    BY <1>10, <2>1, <2>2, <2>3 DEF ReadMisses
<1>11. CASE ReadHits(p)
  <2>0. key[p] \in Key /\ token # None /\ Persist({}) /\ {} \in SUBSET Task
    BY <1>11 DEF ReadHits, Reads, Typed, Grounded, NoRecords
  <2>1. CASE ContextAndRequest(p, key[p])
    BY <1>11, <2>0, <2>1, PersistTyped, RequestTyped DEF ReadHits, BeginUnlock, Goto, Typed, TypeOK, Grounded, Labels, ReadLabels,
     sessionVars, cacheVars, queueVars, serverVars
  <2>2. CASE Context(p) /\ UNCHANGED <<pending, job>>
    BY <1>11, <2>0, <2>2, PersistTyped, TaskAssumption DEF ReadHits, Context, BeginUnlock, Task, Goto, Typed, TypeOK, Grounded, Labels, ReadLabels,
     sessionVars, cacheVars, queueVars, serverVars
  <2> QED
    BY <1>11, <2>1, <2>2 DEF ReadHits
<1>12. CASE ReadFetched(p)
  BY <1>12 DEF ReadFetched, BeginUnlock, Goto, Typed, TypeOK, Grounded, Labels, ReadLabels,
     sessionVars, cacheVars, queueVars, serverVars
<1>13. CASE ReadRechecked(p)
  BY <1>13 DEF ReadRechecked, EndUnlock, Unlocked, SetToken, Goto, Typed, TypeOK, Grounded, Labels, ReadLabels,
     sessionVars, cacheVars, queueVars, serverVars
<1>14. CASE ReadReturns(p)
  BY <1>14 DEF ReadReturns, End, Forget, Goto, Typed, TypeOK, Grounded, Labels, ReadLabels,
     sessionVars, cacheVars, queueVars, serverVars
<1>15. CASE ReadFails(p)
  BY <1>15 DEF ReadFails, End, Forget, Goto, Typed, TypeOK, Grounded, Labels, ReadLabels,
     sessionVars, cacheVars, queueVars, serverVars
<1>16. CASE FetchDropped(p)
  BY <1>16 DEF FetchDropped, End, Forget, Goto, Typed, TypeOK, Grounded, Labels, ReadLabels,
     sessionVars, cacheVars, queueVars, serverVars
<1> QED
  BY <1>1, <1>2, <1>3, <1>4, <1>5, <1>6, <1>7, <1>8, <1>9, <1>10, <1>11, <1>12, <1>13, <1>14,
     <1>15, <1>16 DEF ReadStep

LEMMA MutationStepTyped == ASSUME Typed, NEW p \in Proc, MutationStep(p) PROVE Typed'
<1> DEFINE All == Task
<1>0. /\ {p} \in SUBSET Task /\ sameToken \in SUBSET Task
      /\ Settled(p) => waits' \in [Proc -> Proc \cup {None}] /\ mutation' \in Proc \cup {None}
      /\ p \in Task /\ p # Loader
  BY TaskAssumption DEF Typed, TypeOK, Task, Settled
<1>c. ASSUME NEW label \in {"settle", "rejected"}, ClearAndGoto(p, label) PROVE Typed'
  <2>1. Clear({p}, sameToken)
    BY <1>c DEF ClearAndGoto
  <2> QED
    BY <1>c, <1>0, <2>1, ClearTyped DEF ClearAndGoto, MutateLabels, Goto, Typed, TypeOK, Grounded, Labels, ReadLabels,
     sessionVars, cacheVars, queueVars, serverVars
<1>1. CASE MutationTurn(p)
  <2>1. CASE SameSession(p)
    <3>1. Clear({p}, sameToken)
      BY <1>1, <2>1 DEF MutationTurn
    <3> QED
      BY <1>1, <1>0, <2>1, <3>1, ClearTyped DEF MutationTurn, MutateLabels, Goto, Typed, TypeOK, Grounded, Labels, ReadLabels,
     sessionVars, cacheVars, queueVars, serverVars
  <2>2. CASE ~SameSession(p)
    BY <1>1, <1>0, <2>2 DEF MutationTurn, End, Forget, Goto, Typed, TypeOK, Grounded, Labels, ReadLabels,
     sessionVars, cacheVars, queueVars, serverVars
  <2> QED
    BY <2>1, <2>2
<1>2. CASE MutationCleared(p)
  BY <1>2, <1>c DEF MutationCleared, OnlyGoto, MutateLabels, Goto, Typed, TypeOK, Grounded, Labels, ReadLabels,
     sessionVars, cacheVars, queueVars, serverVars
<1>3. CASE MutationSent(p)
  BY <1>3, <1>c, <1>0 DEF MutationSent, OnlyGoto, MutateLabels, Goto, Typed, TypeOK, Grounded, Labels, ReadLabels,
     sessionVars, cacheVars, queueVars, serverVars
<1>4. CASE MutationApplied(p)
  <2>1. PICK e \in Entry : Change(e) /\ own' = [own EXCEPT ![e] = vault'[e]]
    BY <1>4 DEF MutationApplied
  <2>2. vault' \in [Entry -> Version] /\ vault'[e] \in Version
    BY <2>1, ChangeType DEF Typed, TypeOK
  <2> QED
    BY <1>4, <2>1, <2>2 DEF MutationApplied, OnlyGoto, MutateLabels, Goto, Typed, TypeOK, Grounded, Labels, ReadLabels,
     sessionVars, cacheVars, queueVars, serverVars
<1>5. CASE MutationAnswered(p)
  BY <1>5, <1>c DEF MutationAnswered
<1>6. CASE MutationRejected(p)
  BY <1>6, <1>c DEF MutationRejected
<1>7. CASE MutationEnds(p)
  BY <1>7, <1>0 DEF MutationEnds, End, Forget, Goto, Typed, TypeOK, Grounded, Labels, ReadLabels,
     sessionVars, cacheVars, queueVars, serverVars
<1>8. CASE MutationLocks(p)
  BY <1>8, <1>0, LockTyped DEF MutationLocks
<1> QED
  BY <1>1, <1>2, <1>3, <1>4, <1>5, <1>6, <1>7, <1>8 DEF MutationStep

LEMMA SessionStepTyped == ASSUME Typed, NEW p \in Proc, SessionStep(p) PROVE Typed'
<1>1. CASE RemoveToken(p)
  BY <1>1 DEF RemoveToken, Announce, sameVars, Goto, Typed, TypeOK, Grounded, Labels, ReadLabels,
     sessionVars, cacheVars, queueVars, serverVars
<1>2. CASE EndLock(p)
  BY <1>2 DEF EndLock, End, Forget, Goto, Typed, TypeOK, Grounded, Labels, ReadLabels,
     sessionVars, cacheVars, queueVars, serverVars
<1>3. CASE LoginAnswered(p)
  <2>1. Clear({p}, {}) /\ {p} \in SUBSET Task /\ {} \in SUBSET Task
    BY <1>3 DEF LoginAnswered, Task
  <2> QED
    <3>1. PICK t \in Token : issued' = issued \cup {t} /\ token' = t /\ seen' = [seen EXCEPT ![p] = t]
      BY <1>3 DEF LoginAnswered
    <3>2. TypeOK'
      BY <1>3, <2>1, <3>1, ClearTyped DEF LoginAnswered, Goto, Typed, TypeOK, Labels, LoginLabels, serverVars
    <3>3. Grounded'
      BY <1>3, <2>1, <3>1, ClearTyped DEF LoginAnswered, Goto, Typed, TypeOK, Grounded
    <3> QED
      BY <3>2, <3>3 DEF Typed
<1>4. CASE LoginFails(p)
  BY <1>4 DEF LoginFails, End, Forget, Goto, Typed, TypeOK, Grounded, Labels, ReadLabels,
     sessionVars, cacheVars, queueVars, serverVars
<1>5. CASE SaveStores(p)
  BY <1>5 DEF SaveStores, Announce, LoginLabels, sameVars, Goto, Typed, TypeOK, Grounded, Labels, ReadLabels,
     sessionVars, cacheVars, queueVars, serverVars
<1>6. CASE SaveSets(p)
  BY <1>6, NoneAssumption DEF SaveSets, SetToken, Forget, Goto, Typed, TypeOK, Grounded, Labels, ReadLabels,
     sessionVars, cacheVars, queueVars, serverVars
<1>7. CASE Booted(p)
  <2>1. CASE Unlocked(p)
    BY <1>7, <2>1 DEF Booted, EndUnlock, Unlocked, SetToken, Goto, Typed, TypeOK, Grounded, Labels, ReadLabels,
     sessionVars, cacheVars, queueVars, serverVars
  <2>2. CASE ~Unlocked(p)
    <3>1. Clear({}, {}) /\ {} \in SUBSET Task
      BY <1>7, <2>2 DEF Booted
    <3> QED
      <4>1. TypeOK'
        BY <1>7, <2>2, <3>1, ClearTyped DEF Booted, Goto, Forget, Typed, TypeOK, Labels, serverVars
      <4>2. Grounded'
        BY <1>7, <2>2, <3>1, ClearTyped DEF Booted, Goto, Forget, Typed, TypeOK, Grounded
      <4> QED
        BY <4>1, <4>2 DEF Typed
  <2> QED
    BY <2>1, <2>2
<1> QED
  BY <1>1, <1>2, <1>3, <1>4, <1>5, <1>6, <1>7 DEF SessionStep
LEMMA AnsweredTyped ==
    ASSUME Typed, NEW k \in Key, NEW answer \in [data : Data(k), token : Token]
    PROVE  Answered(k, answer) \in Cache
<1>1. answer \in Record
  BY DEF Record
<1>2. \A j \in Key : records[j] \in Record \cup {None}
  BY CacheFacts DEF Typed, TypeOK
<1> QED
  BY <1>1, <1>2 DEF Answered, Cache

LEMMA EndFetchTyped ==
    ASSUME Typed, NEW f \in Fetch, NEW label \in {"fetched", "idle"}, EndFetch(f, label),
           UNCHANGED <<sessionVars, records, loaded, owner, mutation, queueVars, serverVars>>
    PROVE  Typed'
<1>1. Leave(AwaitFetch(f), f, label) /\ AwaitFetch(f) \in SUBSET Proc
  BY DEF EndFetch, AwaitFetch
<1>2. label \in Labels \ {"saving", "saved"}
  BY DEF Labels, ReadLabels
<1>3. job' \in [Fetch -> Requested \cup {None}] /\ pending' \in [Key -> Fetch \cup {None}]
  BY DEF EndFetch, Typed, TypeOK
<1>4. TypeOK'
  BY <1>1, <1>2, <1>3, LeaveTyped DEF Typed, TypeOK, sessionVars, queueVars, serverVars
<1>5. Grounded'
  BY <1>1, <1>2, LeaveTyped DEF Typed, Grounded, NoRecords, sessionVars, queueVars
<1> QED
  BY <1>4, <1>5 DEF Typed

LEMMA FetchStepTyped == ASSUME Typed, NEW f \in Fetch, FetchStep(f) PROVE Typed'
<1>1. ASSUME job[f] # None
      PROVE  /\ job[f] \in Requested /\ job[f].key \in Key /\ job[f].token \in Token
             /\ job[f].data \in Data(job[f].key) \cup {None}
  BY <1>1, RequestFields DEF Typed, TypeOK
<1>2. ASSUME NEW d, job[f] # None, d \in Data(job[f].key) \cup {None},
             NEW ph \in {"sent", "answered", "storing", "removing"},
             job' = [job EXCEPT ![f].phase = ph, ![f].data = d]
      PROVE  job' \in [Fetch -> Requested \cup {None}]
  <2>1. job \in [Fetch -> Requested \cup {None}]
    BY DEF Typed, TypeOK
  <2>2. job' = [job EXCEPT ![f] = [[job[f] EXCEPT !.phase = ph] EXCEPT !.data = d]]
    BY <1>2, <2>1, TwoFields
  <2>3. [[job[f] EXCEPT !.phase = ph] EXCEPT !.data = d] \in Requested
    BY <1>1, <1>2, RequestFields
  <2> QED
    BY <2>1, <2>2, <2>3
<1>3. CASE Serve(f)
  <2> DEFINE k == job[f].key
             answer == CASE job[f].key = "list" -> vault
                         [] job[f].key \in Entry /\ vault[job[f].key] # Gone ->
                                [e \in {job[f].key} |-> vault[e]]
                         [] OTHER -> None
  <2>1. job[f] # None
    BY <1>3 DEF Serve, In
  <2>2. answer \in Data(k) \cup {None}
    BY <1>1, <2>1, TaskAssumption DEF Data, Typed, TypeOK
  <2>3. job' = [job EXCEPT ![f].phase = "answered", ![f].data = answer]
    BY <1>3 DEF Serve
  <2> HIDE DEF answer
  <2>4. job' \in [Fetch -> Requested \cup {None}]
    BY <1>2, <2>1, <2>2, <2>3
  <2> QED
    BY <1>3, <2>4 DEF Serve, Typed, TypeOK, Grounded, NoRecords, procVars, sameVars, sessionVars,
       queueVars, serverVars
<1>4. CASE Receive(f)
  <2>1. job[f] # None /\ job[f].data # None /\ Persist({f}) /\ {f} \in SUBSET Task /\ token # None
    BY <1>4 DEF Receive, In, Task, Current, SameSession
  <2>2. records' \in Cache
    <3>1. [data |-> job[f].data, token |-> job[f].token] \in [data : Data(job[f].key), token : Token]
      BY <1>1, <2>1
    <3> QED
      BY <1>1, <1>4, <2>1, <3>1, AnsweredTyped DEF Receive
  <2>3. job' \in [Fetch -> Requested \cup {None}]
    BY <1>2, <1>4, <2>1 DEF Receive
  <2> QED
    BY <1>4, <2>1, <2>2, <2>3, PersistTyped
       DEF Receive, Typed, TypeOK, Grounded, procVars, sameVars, sessionVars, serverVars
<1>5. CASE Missing(f)
  <2>1. job[f] # None /\ Persist({f}) /\ {f} \in SUBSET Task /\ token # None
    BY <1>5 DEF Missing, In, Task, Current, SameSession
  <2>2. records' \in Cache
    <3>1. \A j \in Key : records[j] \in Record \cup {None}
      BY CacheFacts DEF Typed, TypeOK
    <3> QED
      BY <1>5, <3>1 DEF Missing, Cache
  <2>3. job' \in [Fetch -> Requested \cup {None}]
    BY <1>1, <1>5, <2>1, RequestFields DEF Missing, Typed, TypeOK
  <2> QED
    BY <1>5, <2>1, <2>2, <2>3, PersistTyped
       DEF Missing, Typed, TypeOK, Grounded, procVars, sameVars, sessionVars, serverVars
<1>6. CASE FetchDone(f)
  BY <1>6, EndFetchTyped DEF FetchDone
<1>7. CASE FetchFails(f)
  BY <1>7, EndFetchTyped DEF FetchFails
<1> QED
  BY <1>3, <1>4, <1>5, <1>6, <1>7 DEF FetchStep

LEMMA TypedNext == Typed /\ [Next]_vars => Typed'
<1> SUFFICES ASSUME Typed, [Next]_vars PROVE Typed'
  OBVIOUS
<1>1. CASE \E p \in Proc : Start(p) \/ ReadStep(p) \/ MutationStep(p) \/ SessionStep(p)
  BY <1>1, StartTyped, ReadStepTyped, MutationStepTyped, SessionStepTyped
<1>2. CASE \E f \in Fetch : FetchStep(f)
  BY <1>2, FetchStepTyped
<1>3. CASE \E k \in Key : Expire(k)
  <2>1. PICK k \in Key : Expire(k)
    BY <1>3
  <2>2. records' \in Cache /\ token # None
    BY <2>1, CacheFacts DEF Expire, Typed, TypeOK, Grounded, Cache
  <2> QED
    BY <2>1, <2>2 DEF Expire, Typed, TypeOK, Grounded, procVars, sameVars, sessionVars, queueVars, serverVars
<1>4. CASE \E e \in Entry : OutsideChange(e)
  <2>1. PICK e \in Entry : Change(e)
    BY <1>4 DEF OutsideChange
  <2>2. vault' \in [Entry -> Version]
    BY <2>1, ChangeType DEF Typed, TypeOK
  <2> QED
    BY <1>4, <2>2 DEF OutsideChange, Typed, TypeOK, Grounded, NoRecords, procVars, sameVars, sessionVars,
       cacheVars, queueVars
<1>5. CASE \E t \in Token : TokenReplaced(t)
  <2>1. PICK t \in Token : TokenReplaced(t)
    BY <1>5
  <2> DEFINE same == IF token = t THEN {} ELSE sameToken
  <2>2. Clear({}, same) /\ {} \in SUBSET Task /\ same \in SUBSET Task
    BY <2>1 DEF TokenReplaced, Typed, TypeOK
  <2> HIDE DEF same
  <2>3. TypeOK'
    BY <2>1, <2>2, ClearTyped DEF TokenReplaced, Typed, TypeOK, procVars, serverVars
  <2>4. Grounded'
    BY <2>1, <2>2, ClearTyped DEF TokenReplaced, Typed, TypeOK, Grounded, procVars
  <2> QED
    BY <2>3, <2>4 DEF Typed
<1>6. CASE FinishLoad
  <2>1. /\ AwaitLoad \in SUBSET Proc /\ "loaded" \in Labels \ {"saving", "saved"}
        /\ "idle" \in Labels \ {"saving", "saved"}
        /\ Leave(AwaitLoad, Loader, "loaded") \/ Leave(AwaitLoad, Loader, "idle")
    BY <1>6 DEF FinishLoad, AwaitLoad, Labels, ReadLabels
  <2>2. records' \in Cache /\ (records' # NoRecords => token # None)
    BY <1>6 DEF FinishLoad, Typed, TypeOK, Grounded, Stored
  <2>3. TypeOK'
    BY <1>6, <2>1, <2>2, LeaveTyped DEF FinishLoad, Typed, TypeOK, sessionVars, queueVars, serverVars
  <2>4. Grounded'
    BY <1>6, <2>1, <2>2, LeaveTyped DEF FinishLoad, Typed, Grounded, NoRecords, sessionVars, queueVars
  <2> QED
    BY <2>3, <2>4 DEF Typed
<1>7. CASE BeginWrite
  <2>1. writing' \in {<<>>} \cup {<<c>> : c \in Stored}
    <3>1. None \in Stored
      BY DEF Stored
    <3>2. CASE records # NoRecords /\ owner = <<token>>
      <4>1. [owner |-> token, records |-> records] \in Stored
        BY <3>2 DEF Stored, Typed, TypeOK, Grounded
      <4> QED
        BY <1>7, <3>2, <4>1 DEF BeginWrite
    <3> QED
      BY <1>7, <3>1, <3>2 DEF BeginWrite
  <2> QED
    BY <1>7, <2>1 DEF BeginWrite, Typed, TypeOK, Grounded, NoRecords, procVars, sameVars, sessionVars,
       cacheVars, serverVars
<1>8. CASE EndWrite
  <2>1. stored' \in Stored
    BY <1>8 DEF EndWrite, Typed, TypeOK, Stored
  <2>2. queue' \in 0 .. MaxQueue /\ behind' \in [Task -> 0 .. MaxQueue]
    BY <1>8, ParameterAssumption DEF EndWrite, Typed, TypeOK, Grounded
  <2> QED
    BY <1>8, <2>1, <2>2 DEF EndWrite, Typed, TypeOK, Grounded, NoRecords, procVars, sameVars, sessionVars,
       cacheVars, serverVars
<1>9. CASE UNCHANGED vars
  BY <1>9 DEF vars, procVars, sameVars, sessionVars, cacheVars, queueVars, serverVars, Typed, TypeOK,
     Grounded, NoRecords
<1> QED
  BY <1>1, <1>2, <1>3, <1>4, <1>5, <1>6, <1>7, <1>8, <1>9 DEF Next

\* Whatever the messages, alarms, requests and writes do to each other, every
\* variable of the popup cache keeps its type: no request without a token, no
\* record without a session, no count of writes below zero.
THEOREM TypeCorrect == Spec => []TypeOK
<1>1. Spec => []Typed
  BY TypedInit, TypedNext, PTL DEF Spec
<1> QED
  BY <1>1, PTL DEF Typed

(***************************************************************************)
(* One mutation after the other.  The mutations under way are a queue: one *)
(* has its turn, every other awaits the one right before it, and           *)
(* this.mutation is the last of them.                                      *)
(***************************************************************************)
Mutating == {p \in Proc : pc[p] \in MutateLabels}

Turn(p) == pc[p] # "queued" \/ waits[p] = None

Ordered(rank) ==
    /\ \A q, r \in Mutating : q # r => rank[q] # rank[r]
    /\ mutation # None =>
          mutation \in Mutating /\ \A p \in Mutating \ {mutation} : rank[p] < rank[mutation]
    /\ \A p \in Mutating : Turn(p) => \A q \in Mutating \ {p} : rank[p] < rank[q]
    /\ \A q \in Mutating : ~Turn(q) =>
          /\ waits[q] \in Mutating /\ rank[waits[q]] < rank[q]
          /\ \A r \in Mutating : ~(rank[waits[q]] < rank[r] /\ rank[r] < rank[q])

Chain ==
    /\ mutation = None => Mutating = {}
    /\ \E rank \in [Proc -> Nat] : Ordered(rank)

\* A step of something else than a mutation.
Aside ==
    /\ mutation' = mutation
    /\ \A q \in Proc : pc[q] \in MutateLabels \/ pc'[q] \in MutateLabels =>
          pc'[q] = pc[q] /\ waits'[q] = waits[q]

LEMMA ChainInit == Init => Chain
<1> SUFFICES ASSUME Init PROVE Chain
  OBVIOUS
<1>1. Mutating = {} /\ mutation = None
  BY DEF Init, Mutating, MutateLabels
<1>2. [p \in Proc |-> 0] \in [Proc -> Nat] /\ Ordered([p \in Proc |-> 0])
  BY <1>1 DEF Ordered
<1> QED
  BY <1>1, <1>2 DEF Chain

LEMMA ChainAside == ASSUME Typed, Typed', Chain, Aside PROVE Chain'
<1>1. Mutating' = Mutating /\ mutation' = mutation
  BY DEF Aside, Mutating
<1>2. \A q \in Mutating : (Turn(q)' <=> Turn(q)) /\ waits'[q] = waits[q]
  BY DEF Aside, Mutating, Turn
<1>3. PICK rank \in [Proc -> Nat] : Ordered(rank)
  BY DEF Chain
<1>4. Ordered(rank)'
  BY <1>1, <1>2, <1>3 DEF Ordered
<1> QED
  BY <1>1, <1>4 DEF Chain

LEMMA ChainStart == ASSUME Typed, NEW p \in Proc, Chain, StartMutation(p) PROVE Chain'
<1>0. pc[p] = "idle" /\ mutation' = p /\ p \notin Mutating /\ p # None
  BY NoneAssumption DEF StartMutation, Mutating, MutateLabels
<1>1. CASE mutation = None
  <2>1. pc' = [pc EXCEPT ![p] = "clear"] /\ Mutating = {}
    BY <1>1 DEF StartMutation, Goto, Chain
  <2>2. Mutating' = {p} /\ Turn(p)'
    BY <2>1 DEF Mutating, MutateLabels, Turn, Typed, TypeOK
  <2>3. [q \in Proc |-> 0] \in [Proc -> Nat] /\ Ordered([q \in Proc |-> 0])'
    BY <1>0, <2>2 DEF Ordered
  <2> QED
    BY <1>0, <2>3 DEF Chain
<1>2. CASE mutation # None
  <2>1. /\ pc' = [pc EXCEPT ![p] = "queued"] /\ waits' = [waits EXCEPT ![p] = mutation]
        /\ mutation \in Proc
    BY <1>2 DEF StartMutation, Goto, Typed, TypeOK
  <2>2. PICK rank \in [Proc -> Nat] : Ordered(rank)
    BY DEF Chain
  <2>14. rank[mutation] \in Nat
    BY <2>1
  <2>15. PICK last \in Nat : last = rank[mutation] + 1
    BY <2>14
  <2>16. PICK new \in [Proc -> Nat] : new = [rank EXCEPT ![p] = last]
    OBVIOUS
  <2>3. Mutating' = Mutating \cup {p} /\ Mutating \subseteq Proc /\ mutation \in Mutating
    BY <1>2, <2>1, <2>2 DEF Mutating, MutateLabels, Typed, TypeOK, Ordered
  <2>4. ~Turn(p)' /\ waits'[p] = mutation
    BY <1>2, <2>1 DEF Turn, Typed, TypeOK
  <2>5. \A q \in Mutating : (Turn(q)' <=> Turn(q)) /\ waits'[q] = waits[q]
    BY <1>0, <2>1, <2>3 DEF Turn, Typed, TypeOK
  <2>6. /\ new \in [Proc -> Nat] /\ new[p] = last /\ \A q \in Mutating : new[q] = rank[q]
        /\ \A q \in Mutating : rank[q] \in Nat /\ rank[q] <= rank[mutation] /\ rank[q] < last
    BY <1>0, <1>2, <2>1, <2>2, <2>3, <2>15, <2>16 DEF Ordered
  <2>7. \A q \in Mutating : Turn(q) => \A r \in Mutating \ {q} : rank[q] < rank[r]
    BY <2>2 DEF Ordered
  <2>8. \A q \in Mutating : ~Turn(q) =>
          /\ waits[q] \in Mutating /\ rank[waits[q]] < rank[q]
          /\ \A r \in Mutating : ~(rank[waits[q]] < rank[r] /\ rank[r] < rank[q])
    BY <2>2 DEF Ordered
  <2>9. \A q \in Mutating' : q # p => new[q] < new[p]
    BY <2>3, <2>6
  <2>10. \A q \in Mutating' : Turn(q)' => \A r \in Mutating' \ {q} : new[q] < new[r]
    BY <2>3, <2>4, <2>5, <2>6, <2>7
  <2>11. ASSUME NEW q \in Mutating', ~Turn(q)'
         PROVE  /\ waits'[q] \in Mutating' /\ new[waits'[q]] < new[q]
                /\ \A r \in Mutating' : ~(new[waits'[q]] < new[r] /\ new[r] < new[q])
    <3>1. CASE q = p
      <4>1. waits'[q] \in Mutating' /\ new[waits'[q]] = rank[mutation] /\ new[q] = last
        BY <2>3, <2>4, <2>6, <3>1
      <4>2. \A r \in Mutating' : new[r] \in Nat /\ rank[mutation] \in Nat
        BY <2>3, <2>6
      <4> QED
        BY <4>1, <4>2, <2>15
    <3>2. CASE q # p
      <4>1. q \in Mutating /\ ~Turn(q) /\ waits'[q] = waits[q]
        BY <2>3, <2>5, <2>11, <3>2
      <4>2. waits[q] \in Mutating /\ rank[waits[q]] < rank[q]
        BY <2>8, <4>1
      <4>3. \A r \in Mutating : ~(rank[waits[q]] < rank[r] /\ rank[r] < rank[q])
        BY <2>8, <4>1
      <4>4. ~(new[p] < new[q])
        BY <2>6, <4>1
      <4> QED
        BY <2>3, <2>6, <4>1, <4>2, <4>3, <4>4
    <3> QED
      BY <3>1, <3>2
  <2>12. \A q, r \in Mutating' : q # r => new[q] # new[r]
    <3>1. \A q, r \in Mutating : q # r => rank[q] # rank[r]
      BY <2>2 DEF Ordered
    <3>2. \A q \in Mutating : rank[q] # last
      BY <2>6
    <3> QED
      BY <2>3, <2>6, <3>1, <3>2
  <2>13. Ordered(new)'
    BY <1>0, <2>3, <2>9, <2>10, <2>11, <2>12 DEF Ordered
  <2> QED
    BY <1>0, <2>6, <2>13 DEF Chain
<1> QED
  BY <1>1, <1>2

\* The mutation whose turn it is goes on.
LEMMA ChainGoesOn ==
    ASSUME Typed, NEW p \in Mutating, NEW label \in MutateLabels \ {"queued"}, Chain, Turn(p),
           Goto(p, label), UNCHANGED <<waits, mutation>>
    PROVE  Chain'
<1>1. Mutating' = Mutating
  BY DEF Mutating, Goto, Typed, TypeOK
<1>2. \A q \in Mutating : (Turn(q)' <=> Turn(q)) /\ waits'[q] = waits[q]
  BY DEF Goto, Mutating, Turn, Typed, TypeOK
<1>3. PICK rank \in [Proc -> Nat] : Ordered(rank)
  BY DEF Chain
<1>4. Ordered(rank)'
  BY <1>1, <1>2, <1>3 DEF Ordered
<1> QED
  BY <1>1, <1>4 DEF Chain

\* It is done, and the turn passes to the one right behind it.
LEMMA ChainSettled ==
    ASSUME Typed, NEW p \in Mutating, NEW label \in Labels \ MutateLabels, Chain, Turn(p),
           Goto(p, label), Settled(p)
    PROVE  Chain'
<1>1. Mutating' = Mutating \ {p} /\ Mutating \subseteq Proc /\ p \in Proc
  BY DEF Mutating, Goto, Typed, TypeOK
<1>2. PICK rank \in [Proc -> Nat] : Ordered(rank)
  BY DEF Chain
<1>3. \A q \in Mutating \ {p} : pc'[q] = pc[q] /\ waits'[q] = (IF waits[q] = p THEN None ELSE waits[q])
  BY <1>1 DEF Goto, Settled, Typed, TypeOK
<1>4. \A q \in Mutating \ {p} : rank[p] < rank[q] /\ rank[p] \in Nat /\ rank[q] \in Nat
  BY <1>1, <1>2 DEF Ordered
<1>5. \A q \in Mutating \ {p} : ~Turn(q) =>
         /\ waits[q] \in Mutating /\ rank[waits[q]] < rank[q]
         /\ \A r \in Mutating : ~(rank[waits[q]] < rank[r] /\ rank[r] < rank[q])
  BY <1>2 DEF Ordered
<1>6. \A q \in Mutating \ {p} : ~Turn(q)' => ~Turn(q) /\ waits[q] # p /\ waits'[q] = waits[q]
  BY <1>3 DEF Turn
<1>7. ASSUME NEW q \in Mutating \ {p}, Turn(q)', NEW r \in Mutating \ {p, q}
      PROVE  rank[q] < rank[r]
  <2>1. CASE Turn(q)
    BY <1>2, <2>1 DEF Ordered
  <2>2. CASE ~Turn(q)
    <3>1. waits[q] = p
      BY <1>3, <1>7, <2>2 DEF Turn
    <3>2. ~(rank[r] < rank[q]) /\ rank[r] \in Nat /\ rank[q] \in Nat
      BY <1>4, <1>5, <2>2, <3>1
    <3>3. rank[r] # rank[q]
      BY <1>2 DEF Ordered
    <3> QED
      BY <3>2, <3>3
  <2> QED
    BY <2>1, <2>2
<1>8. mutation' # None => mutation' = mutation /\ mutation # p
  BY DEF Settled
<1>9. mutation' = None => Mutating' = {}
  BY <1>1, <1>2, <1>4 DEF Settled, Chain, Ordered
<1>10. Ordered(rank)'
  BY <1>1, <1>2, <1>5, <1>6, <1>7, <1>8 DEF Ordered
<1> QED
  BY <1>9, <1>10 DEF Chain

LEMMA ReadStepAside == ASSUME Typed, NEW p \in Proc, ReadStep(p) PROVE Aside
<1> USE DEF Goto, Aside, MutateLabels, Typed, TypeOK, procVars, sameVars
<1>1. CASE ReadWaited(p)
  BY <1>1 DEF ReadWaited
<1>2. CASE IsUnlocked(p)
  BY <1>2 DEF IsUnlocked
<1>3. CASE IsLocked(p)
  BY <1>3 DEF IsLocked, End
<1>4. CASE LoadClears(p)
  BY <1>4 DEF LoadClears
<1>5. CASE StartLoad(p)
  BY <1>5 DEF StartLoad, Loads
<1>6. CASE JoinLoad(p)
  BY <1>6 DEF JoinLoad, Loads, End
<1>7. CASE LoadDropped(p) \/ ExpireWrites(p)
  BY <1>7 DEF LoadDropped, ExpireWrites, End
<1>8. CASE ReadAgain(p)
  BY <1>8 DEF ReadAgain, Reads
<1>9. CASE ReadMisses(p)
  BY <1>9 DEF ReadMisses, Reads, End
<1>10. CASE ReadHits(p)
  BY <1>10 DEF ReadHits, Reads
<1>11. CASE ReadFetched(p) \/ ReadRechecked(p)
  BY <1>11 DEF ReadFetched, ReadRechecked
<1>12. CASE ReadReturns(p) \/ ReadFails(p) \/ FetchDropped(p)
  BY <1>12 DEF ReadReturns, ReadFails, FetchDropped, End
<1> QED
  BY <1>1, <1>2, <1>3, <1>4, <1>5, <1>6, <1>7, <1>8, <1>9, <1>10, <1>11, <1>12 DEF ReadStep

LEMMA SessionStepAside == ASSUME Typed, NEW p \in Proc, SessionStep(p) PROVE Aside
<1> USE DEF Goto, Aside, MutateLabels, Typed, TypeOK
<1>1. CASE RemoveToken(p) \/ EndLock(p)
  BY <1>1 DEF RemoveToken, EndLock, End
<1>2. CASE LoginAnswered(p) \/ LoginFails(p)
  BY <1>2 DEF LoginAnswered, LoginFails, End
<1>3. CASE SaveStores(p) \/ SaveSets(p) \/ Booted(p)
  BY <1>3 DEF SaveStores, SaveSets, Booted
<1> QED
  BY <1>1, <1>2, <1>3 DEF SessionStep

LEMMA StartAside ==
    ASSUME Typed, NEW p \in Proc,
           \/ \E k \in Key : StartRead(p, k)
           \/ StartExpire(p) \/ StartLogin(p) \/ Lock(p) \/ \E f \in Fetch : FetchRejected(p, f)
    PROVE  Aside
<1> USE DEF Goto, Aside, MutateLabels, Typed, TypeOK
<1>1. CASE \E k \in Key : StartRead(p, k)
  BY <1>1 DEF StartRead
<1>2. CASE StartExpire(p) \/ StartLogin(p)
  BY <1>2 DEF StartExpire, StartLogin
<1>3. CASE Lock(p) \/ \E f \in Fetch : FetchRejected(p, f)
  BY <1>3 DEF Lock, FetchRejected, BeginLock
<1> QED
  BY <1>1, <1>2, <1>3

LEMMA FetchStepAside == ASSUME Typed, NEW f \in Fetch, FetchStep(f) PROVE Aside
<1>1. ASSUME NEW label \in {"fetched", "idle"}, EndFetch(f, label), UNCHANGED mutation
      PROVE  Aside
  BY <1>1 DEF EndFetch, Leave, AwaitFetch, Aside, MutateLabels, Typed, TypeOK
<1>2. CASE Serve(f) \/ Receive(f) \/ Missing(f)
  BY <1>2 DEF Serve, Receive, Missing, Aside, procVars
<1>3. CASE FetchDone(f) \/ FetchFails(f)
  BY <1>1, <1>3 DEF FetchDone, FetchFails
<1> QED
  BY <1>2, <1>3 DEF FetchStep

LEMMA OtherAside ==
    ASSUME Typed,
           \/ \E k \in Key : Expire(k)
           \/ \E e \in Entry : OutsideChange(e)
           \/ \E t \in Token : TokenReplaced(t)
           \/ FinishLoad \/ BeginWrite \/ EndWrite \/ UNCHANGED vars
    PROVE  Aside
<1>1. CASE FinishLoad
  BY <1>1 DEF FinishLoad, Leave, AwaitLoad, Aside, MutateLabels, Typed, TypeOK
<1>2. CASE ~FinishLoad
  BY <1>2 DEF Expire, OutsideChange, TokenReplaced, BeginWrite, EndWrite, vars, procVars, Aside
<1> QED
  BY <1>1, <1>2

LEMMA MutationStepChain == ASSUME Typed, NEW p \in Proc, Chain, MutationStep(p) PROVE Chain'
<1>1. p \in Mutating /\ Turn(p)
  BY DEF MutationStep, MutationTurn, MutationCleared, MutationSent, MutationApplied, MutationAnswered,
     MutationRejected, MutationEnds, MutationLocks, Mutating, MutateLabels, Turn
<1>2. ASSUME NEW label \in Labels \ MutateLabels, Goto(p, label), Settled(p) PROVE Chain'
  BY <1>1, <1>2, ChainSettled
<1>3. ASSUME NEW label \in MutateLabels \ {"queued"}, Goto(p, label), UNCHANGED <<waits, mutation>>
      PROVE  Chain'
  BY <1>1, <1>3, ChainGoesOn
<1>4. /\ {"idle", "lock"} \subseteq Labels \ MutateLabels
      /\ {"clear", "prepare", "sent", "applied", "settle", "rejected"} \subseteq MutateLabels \ {"queued"}
  BY DEF Labels, MutateLabels
<1>5. CASE MutationTurn(p)
  BY <1>2, <1>3, <1>4, <1>5 DEF MutationTurn, End
<1>6. CASE MutationCleared(p) \/ MutationSent(p)
  BY <1>3, <1>4, <1>6 DEF MutationCleared, MutationSent, OnlyGoto, ClearAndGoto
<1>7. CASE MutationApplied(p) \/ MutationAnswered(p) \/ MutationRejected(p)
  BY <1>3, <1>4, <1>7 DEF MutationApplied, MutationAnswered, MutationRejected, OnlyGoto, ClearAndGoto
<1>8. CASE MutationEnds(p) \/ MutationLocks(p)
  BY <1>2, <1>4, <1>8 DEF MutationEnds, MutationLocks, BeginLock, End
<1> QED
  BY <1>5, <1>6, <1>7, <1>8 DEF MutationStep

LEMMA ChainNext == Typed /\ Chain /\ [Next]_vars => Chain'
<1> SUFFICES ASSUME Typed, Chain, [Next]_vars PROVE Chain'
  OBVIOUS
<1>1. Typed'
  BY TypedNext
<1>2. CASE Aside
  BY <1>1, <1>2, ChainAside
<1>3. CASE \E p \in Proc : StartMutation(p)
  BY <1>3, ChainStart
<1>4. CASE \E p \in Proc : Restart(p)
  <2>1. Mutating' = {} /\ mutation' = None
    BY <1>4 DEF Restart, Mutating, MutateLabels
  <2>2. PICK rank \in [Proc -> Nat] : Ordered(rank)
    BY DEF Chain
  <2>3. Ordered(rank)'
    BY <2>1 DEF Ordered
  <2> QED
    BY <2>1, <2>3 DEF Chain
<1>5. CASE \E p \in Proc : MutationStep(p)
  BY <1>5, MutationStepChain
<1> QED
  BY <1>2, <1>3, <1>4, <1>5, ReadStepAside, SessionStepAside, StartAside, FetchStepAside, OtherAside
     DEF Next, Start

(***************************************************************************)
(* While a mutation has its turn the cache is empty, no request of it is   *)
(* current, and the writes still queued will have emptied browser storage  *)
(* before the mutation makes its request: so nothing is shown, or restored *)
(* later, that the mutation has made old.                                  *)
(***************************************************************************)
Active == {p \in Proc : pc[p] \in MutateLabels \ {"queued"}}

\* After n more writes the cache in storage will be empty.
Emptying(n) ==
    /\ stored # None => n >= 1
    /\ writing \notin {<<>>, <<None>>} => n >= 2

Emptied ==
    Active # {} =>
       /\ records = NoRecords
       /\ sameCache \cap Fetch = {}
       /\ Emptying(queue)
       /\ (loaded = "loading" => Emptying(behind[Loader]))
       /\ \A p \in Proc : pc[p] = "clear" => Emptying(behind[p])
       /\ \A p \in Proc : pc[p] \in {"prepare", "sent", "applied"} => Emptying(0)

Fresh(cache) == cache # None => ShowsOwnChanges(cache.records)

AllFresh ==
    /\ ShowsOwnChanges(records)
    /\ Fresh(stored)
    /\ (writing # <<>> => Fresh(writing[1]))
    /\ \A f \in Fetch : f \in sameCache /\ In(f, "answered") /\ job[f].data # None =>
          \A e \in DOMAIN job[f].data : job[f].data[e] >= own[e]
    /\ \A e \in Entry : own[e] <= vault[e]

\* A step that adds nothing to the cache, to what may still be added, or to storage.
Keeps ==
    /\ UNCHANGED serverVars
    /\ \A k \in Key : records'[k] \in {records[k], None}
    /\ sameCache' \cap Fetch \subseteq sameCache
    /\ \A f \in Fetch : job'[f] \in {job[f], None}
    /\ (loaded' = "loading" => loaded = "loading")
    /\ UNCHANGED queueVars \/ \E ts \in SUBSET Task : Persist(ts)

LEMMA OneTurn ==
    ASSUME Typed, Chain
    PROVE  /\ \A p, q \in Mutating : Turn(p) /\ Turn(q) => p = q
           /\ Active \subseteq Mutating /\ \A p \in Active : Turn(p)
           /\ Active # {} => mutation # None
<1>1. PICK rank \in [Proc -> Nat] : Ordered(rank)
  BY DEF Chain
<1>2. ASSUME NEW p \in Mutating, NEW q \in Mutating, Turn(p), Turn(q), p # q PROVE FALSE
  <2>1. rank[p] < rank[q] /\ rank[q] < rank[p] /\ rank[p] \in Nat /\ rank[q] \in Nat
    BY <1>1, <1>2 DEF Ordered, Mutating
  <2> QED
    BY <2>1
<1>3. Active \subseteq Mutating /\ \A p \in Active : Turn(p)
  BY DEF Active, Mutating, Turn, MutateLabels
<1> QED
  BY <1>2, <1>3 DEF Chain

LEMMA ClearKeeps ==
    ASSUME Typed, NEW ts \in SUBSET Task, NEW same, Clear(ts, same), UNCHANGED serverVars
    PROVE  Keeps
  BY DEF Clear, Keeps, NoRecords

LEMMA StillKeeps ==
    ASSUME Typed, UNCHANGED cacheVars, UNCHANGED serverVars, sameCache' \cap Fetch \subseteq sameCache,
           UNCHANGED queueVars \/ \E ts \in SUBSET Task : Persist(ts)
    PROVE  Keeps
  BY DEF Keeps, cacheVars, serverVars

LEMMA KeepsEmpty == ASSUME Typed, Typed', Keeps, records = NoRecords PROVE records' = NoRecords
<1>1. \A k \in Key : records'[k] = None
  BY DEF Keeps, NoRecords
<1> QED
  BY <1>1 DEF Typed, TypeOK, Cache, NoRecords

LEMMA EmptiedKept == ASSUME Typed, Typed', Emptied, Keeps, Aside PROVE Emptied'
<1> SUFFICES ASSUME Active # {}
             PROVE  /\ records' = NoRecords
                    /\ sameCache' \cap Fetch = {}
                    /\ Emptying(queue)'
                    /\ (loaded' = "loading" => Emptying(behind[Loader])')
                    /\ \A p \in Proc : pc'[p] = "clear" => Emptying(behind[p])'
                    /\ \A p \in Proc : pc'[p] \in {"prepare", "sent", "applied"} => Emptying(0)'
  BY DEF Emptied, Active, Aside, NoRecords
<1>1. records' = NoRecords /\ sameCache' \cap Fetch = {}
  BY KeepsEmpty DEF Emptied, Keeps
<1>2. \A p \in Proc : pc'[p] \in {"clear", "prepare", "sent", "applied"} => pc'[p] = pc[p]
  BY DEF Aside, MutateLabels
<1>3. CASE UNCHANGED queueVars
  BY <1>1, <1>2, <1>3 DEF Emptied, Emptying, Keeps, queueVars
<1>4. CASE \E ts \in SUBSET Task : Persist(ts)
  <2>1. PICK ts \in SUBSET Task : Persist(ts)
    BY <1>4
  <2>2. /\ queue' = queue + 1 /\ queue \in Nat /\ writing' = writing /\ stored' = stored
        /\ \A t \in Task : behind'[t] \in {queue + 1, behind[t]} /\ behind[t] \in Nat
    BY <2>1, ParameterAssumption DEF Persist, Typed, TypeOK
  <2>3. Loader \in Task /\ \A p \in Proc : p \in Task
    BY DEF Task
  <2> QED
    BY <1>1, <1>2, <2>2, <2>3 DEF Emptied, Emptying, Keeps
<1> QED
  BY <1>3, <1>4 DEF Keeps

LEMMA FreshKept == ASSUME Typed, Typed', AllFresh, Keeps PROVE AllFresh'
<1>1. own' = own /\ vault' = vault
  BY DEF Keeps, serverVars
<1>2. stored' = stored /\ writing' = writing
  BY DEF Keeps, queueVars, Persist
<1>3. ShowsOwnChanges(records)'
  BY <1>1 DEF AllFresh, ShowsOwnChanges, Keeps
<1>4. Fresh(stored)' /\ (writing' # <<>> => Fresh(writing[1])')
  BY <1>1, <1>2 DEF AllFresh, Fresh, ShowsOwnChanges
<1>5. ASSUME NEW f \in Fetch, f \in sameCache', In(f, "answered")', job'[f].data # None
      PROVE  \A e \in DOMAIN job'[f].data : job'[f].data[e] >= own'[e]
  BY <1>1, <1>5 DEF AllFresh, Keeps, In
<1> QED
  BY <1>1, <1>3, <1>4, <1>5 DEF AllFresh

LEMMA ReadStepKeeps ==
    ASSUME Typed, NEW p \in Proc, ReadStep(p), ~StartLoad(p), ~ReadMisses(p), ~ReadHits(p)
    PROVE  Keeps
<1>0. p \notin Fetch /\ {} \in SUBSET Task /\ {p} \in SUBSET Task
  BY TaskAssumption DEF Task
<1>1. CASE UNCHANGED <<cacheVars, serverVars, queueVars>> /\ sameCache' \subseteq sameCache \cup {p}
  BY <1>0, <1>1, StillKeeps
<1>2. CASE IsLocked(p)
  <2>1. CASE key[p] = "alarm"
    BY <1>0, <1>2, <2>1, ClearKeeps DEF IsLocked
  <2>2. CASE key[p] # "alarm"
    BY <1>1, <1>2, <2>2 DEF IsLocked, End
  <2> QED
    BY <2>1, <2>2
<1>3. CASE LoadClears(p)
  BY <1>0, <1>3, ClearKeeps DEF LoadClears
<1>4. CASE ExpireWrites(p)
  BY <1>0, <1>4, StillKeeps DEF ExpireWrites, End
<1>5. CASE ReadWaited(p) \/ IsUnlocked(p) \/ LoadDropped(p) \/ ReadAgain(p)
  BY <1>1, <1>5 DEF ReadWaited, IsUnlocked, LoadDropped, ReadAgain, End, sameVars
<1>6. CASE JoinLoad(p)
  BY <1>1, <1>6 DEF JoinLoad, End, sameVars
<1>7. CASE ReadFetched(p) \/ ReadRechecked(p) \/ ReadReturns(p) \/ ReadFails(p) \/ FetchDropped(p)
  BY <1>1, <1>7 DEF ReadFetched, ReadRechecked, ReadReturns, ReadFails, FetchDropped, End
<1> QED
  BY <1>2, <1>3, <1>4, <1>5, <1>6, <1>7 DEF ReadStep

LEMMA SessionStepKeeps == ASSUME Typed, NEW p \in Proc, SessionStep(p) PROVE Keeps
<1>0. {} \in SUBSET Task /\ {p} \in SUBSET Task
  BY DEF Task
<1>1. CASE UNCHANGED <<cacheVars, serverVars, queueVars>> /\ sameCache' \subseteq sameCache
  BY <1>1, StillKeeps
<1>2. CASE RemoveToken(p) \/ EndLock(p) \/ LoginFails(p) \/ SaveStores(p) \/ SaveSets(p)
  BY <1>1, <1>2 DEF RemoveToken, EndLock, LoginFails, SaveStores, SaveSets, End, sameVars
<1>3. CASE LoginAnswered(p)
  BY <1>0, <1>3, ClearKeeps DEF LoginAnswered
<1>4. CASE Booted(p)
  <2>1. CASE Unlocked(p)
    BY <1>1, <1>4, <2>1 DEF Booted
  <2>2. CASE ~Unlocked(p)
    BY <1>0, <1>4, <2>2, ClearKeeps DEF Booted
  <2> QED
    BY <2>1, <2>2
<1> QED
  BY <1>2, <1>3, <1>4 DEF SessionStep

LEMMA StartKeeps == ASSUME Typed, NEW p \in Proc, Start(p), ~Restart(p) PROVE Keeps
<1>0. {p} \in SUBSET Task
  BY DEF Task
<1>1. CASE UNCHANGED <<cacheVars, serverVars, queueVars>> /\ sameCache' \subseteq sameCache
  BY <1>1, StillKeeps
<1>2. CASE \E k \in Key : StartRead(p, k)
  BY <1>1, <1>2 DEF StartRead
<1>3. CASE StartExpire(p) \/ StartLogin(p)
  BY <1>1, <1>3 DEF StartExpire, StartLogin
<1>4. CASE StartMutation(p)
  <2>1. CASE mutation = None
    BY <1>0, <1>4, <2>1, ClearKeeps DEF StartMutation
  <2>2. CASE mutation # None
    BY <1>1, <1>4, <2>2 DEF StartMutation
  <2> QED
    BY <2>1, <2>2
<1>5. CASE Lock(p) \/ \E f \in Fetch : FetchRejected(p, f)
  BY <1>0, <1>5, ClearKeeps DEF Lock, FetchRejected, BeginLock
<1> QED
  BY <1>2, <1>3, <1>4, <1>5 DEF Start

LEMMA MutationStepKeeps ==
    ASSUME Typed, NEW p \in Proc, MutationStep(p), ~MutationApplied(p) PROVE Keeps
<1>0. {p} \in SUBSET Task
  BY DEF Task
<1>1. CASE UNCHANGED <<cacheVars, serverVars, queueVars>> /\ sameCache' \subseteq sameCache
  BY <1>1, StillKeeps
<1>2. ASSUME NEW label, ClearAndGoto(p, label) PROVE Keeps
  BY <1>0, <1>2, ClearKeeps DEF ClearAndGoto
<1>3. CASE MutationTurn(p)
  <2>1. CASE SameSession(p)
    BY <1>0, <1>3, <2>1, ClearKeeps DEF MutationTurn
  <2>2. CASE ~SameSession(p)
    BY <1>1, <1>3, <2>2 DEF MutationTurn, End
  <2> QED
    BY <2>1, <2>2
<1>4. CASE MutationCleared(p) \/ MutationSent(p)
  BY <1>1, <1>2, <1>4 DEF MutationCleared, MutationSent, OnlyGoto
<1>5. CASE MutationAnswered(p) \/ MutationRejected(p)
  BY <1>2, <1>5 DEF MutationAnswered, MutationRejected
<1>6. CASE MutationEnds(p)
  BY <1>1, <1>6 DEF MutationEnds, End
<1>7. CASE MutationLocks(p)
  BY <1>0, <1>7, ClearKeeps DEF MutationLocks, BeginLock
<1> QED
  BY <1>3, <1>4, <1>5, <1>6, <1>7 DEF MutationStep

\* A request ends; nothing else of the cache changes.
LEMMA EndFetchKeeps ==
    ASSUME Typed, NEW f \in Fetch, FetchDone(f) \/ FetchFails(f)
    PROVE  Keeps
<1>1. \A label : EndFetch(f, label) =>
         sameCache' \subseteq sameCache /\ \A g \in Fetch : job'[g] \in {job[g], None}
  BY DEF EndFetch, Leave, Typed, TypeOK
<1>2. UNCHANGED <<records, loaded, queueVars, serverVars>>
  BY DEF FetchDone, FetchFails
<1> QED
  BY <1>1, <1>2 DEF FetchDone, FetchFails, Keeps

LEMMA ExpireKeeps == ASSUME Typed, NEW k \in Key, Expire(k) PROVE Keeps
<1>1. records \in [Key -> Record \cup {None}]
  BY DEF Typed, TypeOK, Cache
<1> QED
  BY <1>1 DEF Expire, Keeps, sameVars

LEMMA TokenReplacedKeeps == ASSUME Typed, NEW t \in Token, TokenReplaced(t) PROVE Keeps
  BY ClearKeeps DEF TokenReplaced

LEMMA InactiveStays == ASSUME Aside, Active = {} PROVE Emptied'
  BY DEF Aside, Active, Emptied

\* The one mutation that has its turn clears the cache.
LEMMA ClearEmpties ==
    ASSUME Typed, NEW p \in Proc, NEW same, Clear({p}, same),
           \A q \in Proc : pc'[q] \in MutateLabels \ {"queued"} =>
              q = p /\ pc'[q] \in {"clear", "settle", "rejected"}
    PROVE  Emptied'
<1>1. /\ records' = NoRecords /\ sameCache' = {} /\ loaded' = "none"
      /\ queue' = queue + 1 /\ queue \in Nat /\ writing' = writing /\ stored' = stored
      /\ behind'[p] = queue + 1
  BY ParameterAssumption DEF Clear, Persist, Typed, TypeOK, Task
<1>2. writing # <<>> => queue >= 1
  BY <1>1 DEF Typed, Grounded
<1>3. Emptying(queue)' /\ Emptying(behind[p])'
  BY <1>1, <1>2 DEF Emptying
<1> QED
  BY <1>1, <1>3 DEF Emptied, Active, NoRecords, MutateLabels

LEMMA MutationStepEmptied ==
    ASSUME Typed, Typed', Chain, Emptied, NEW p \in Proc, MutationStep(p)
    PROVE  Emptied'
<1>1. p \in Mutating /\ Turn(p)
  BY DEF MutationStep, MutationTurn, MutationCleared, MutationSent, MutationApplied, MutationAnswered,
     MutationRejected, MutationEnds, MutationLocks, Mutating, MutateLabels, Turn
<1>2. \A q \in Proc : pc[q] \in MutateLabels \ {"queued"} => q = p
  BY <1>1, OneTurn DEF Active
<1>3. ASSUME NEW label, Goto(p, label)
      PROVE  \A q \in Proc : pc'[q] \in MutateLabels \ {"queued"} => q = p /\ pc'[q] = label
  BY <1>2, <1>3 DEF Goto, Typed, TypeOK
<1>4. ASSUME NEW label \in {"settle", "rejected"}, ClearAndGoto(p, label) PROVE Emptied'
  BY <1>3, <1>4, ClearEmpties DEF ClearAndGoto
<1>5. ASSUME NEW label \in Labels \ MutateLabels, Goto(p, label) PROVE Emptied'
  BY <1>3, <1>5 DEF Emptied, Active
<1>6. /\ {"idle", "lock"} \subseteq Labels \ MutateLabels
      /\ \A q \in Proc : pc[q] \in {"clear", "prepare", "sent"} => q \in Active
  BY DEF Labels, MutateLabels, Active
<1>7. ASSUME NEW label \in {"prepare", "sent", "applied"}, OnlyGoto(p, label),
             Active # {} /\ Emptying(0)
      PROVE  Emptied'
  <2>1. /\ records' = records /\ sameCache' = sameCache /\ loaded' = loaded
        /\ Emptying(queue)' = Emptying(queue) /\ Emptying(behind[Loader])' = Emptying(behind[Loader])
        /\ Emptying(0)' = Emptying(0)
    BY <1>7 DEF OnlyGoto, cacheVars, queueVars, Emptying
  <2>2. \A q \in Proc : pc'[q] \in MutateLabels \ {"queued"} => q = p /\ pc'[q] = label
    BY <1>3, <1>7 DEF OnlyGoto
  <2> QED
    BY <1>7, <2>1, <2>2 DEF Emptied, Active, NoRecords, MutateLabels
<1>8. CASE MutationTurn(p)
  <2>1. CASE SameSession(p)
    <3>1. Clear({p}, sameToken) /\ Goto(p, "clear")
      BY <1>8, <2>1 DEF MutationTurn
    <3> QED
      BY <1>3, <3>1, ClearEmpties
  <2>2. CASE ~SameSession(p)
    BY <1>5, <1>6, <1>8, <2>2 DEF MutationTurn, End
  <2> QED
    BY <2>1, <2>2
<1>9. CASE MutationCleared(p)
  <2>1. Active # {} /\ Emptying(0)
    BY <1>6, <1>9 DEF MutationCleared, Emptied
  <2> QED
    BY <1>4, <1>7, <1>9, <2>1 DEF MutationCleared
<1>10. CASE MutationSent(p)
  <2>1. Active # {} /\ Emptying(0)
    BY <1>6, <1>10 DEF MutationSent, Emptied
  <2> QED
    BY <1>4, <1>7, <1>10, <2>1 DEF MutationSent
<1>11. CASE MutationApplied(p)
  <2>1. Active # {} /\ Emptying(0)
    BY <1>6, <1>11 DEF MutationApplied, Emptied
  <2> QED
    BY <1>7, <1>11, <2>1 DEF MutationApplied
<1>12. CASE MutationAnswered(p) \/ MutationRejected(p)
  BY <1>4, <1>12 DEF MutationAnswered, MutationRejected
<1>13. CASE MutationEnds(p) \/ MutationLocks(p)
  BY <1>5, <1>6, <1>13 DEF MutationEnds, MutationLocks, BeginLock, End
<1> QED
  BY <1>8, <1>9, <1>10, <1>11, <1>12, <1>13 DEF MutationStep

LEMMA EmptiedNext == Typed /\ Chain /\ Emptied /\ [Next]_vars => Emptied'
<1> SUFFICES ASSUME Typed, Chain, Emptied, [Next]_vars PROVE Emptied'
  OBVIOUS
<1>0. Typed'
  BY TypedNext
<1>1. CASE Keeps /\ Aside
  BY <1>0, <1>1, EmptiedKept
<1>2. CASE Aside /\ Active = {}
  BY <1>2, InactiveStays
<1>3. Active # {} => mutation # None
  BY OneTurn
<1>4. CASE \E p \in Proc : ReadStep(p)
  <2>1. PICK p \in Proc : ReadStep(p)
    BY <1>4
  <2>2. Aside
    BY <2>1, ReadStepAside
  <2>3. CASE ReadMisses(p) \/ ReadHits(p)
    BY <1>2, <1>3, <2>2, <2>3 DEF ReadMisses, ReadHits
  <2>4. CASE StartLoad(p)
    <3>1. /\ records' = records /\ UNCHANGED <<queue, writing, stored>> /\ sameCache' = sameCache \cup {p}
          /\ behind' = [behind EXCEPT ![Loader] = queue] /\ p \notin Fetch
      BY <2>4, TaskAssumption DEF StartLoad
    <3>2. \A q \in Proc : behind'[q] = behind[q]
      BY <3>1, TaskAssumption DEF Typed, TypeOK, Task
    <3>3. behind'[Loader] = queue
      BY <3>1 DEF Typed, TypeOK, Task
    <3>4. \A q \in Proc : pc[q] \in MutateLabels \/ pc'[q] \in MutateLabels => pc'[q] = pc[q]
      BY <2>2 DEF Aside
    <3>5. Active' = Active
      BY <3>4 DEF Active
    <3>6. CASE Active # {}
      <4>1. \A q \in Proc : pc'[q] \in {"clear", "prepare", "sent", "applied"} => pc'[q] = pc[q]
        BY <3>4 DEF MutateLabels
      <4> QED
        BY <3>1, <3>2, <3>3, <3>6, <4>1 DEF Emptied, Emptying, NoRecords
    <3> QED
      BY <1>2, <2>2, <3>6
  <2> QED
    BY <1>1, <2>1, <2>2, <2>3, <2>4, ReadStepKeeps
<1>5. CASE \E p \in Proc : SessionStep(p)
  BY <1>1, <1>5, SessionStepAside, SessionStepKeeps
<1>6. CASE \E p \in Proc : Start(p)
  <2>1. PICK p \in Proc : Start(p)
    BY <1>6
  <2>2. CASE Restart(p)
    BY <2>2 DEF Restart, Emptied, Active, MutateLabels
  <2>3. CASE StartMutation(p)
    <3>1. CASE mutation = None
      <4>1. Clear({p}, sameToken \cup {p}) /\ pc' = [pc EXCEPT ![p] = "clear"]
        BY <2>3, <3>1 DEF StartMutation, Goto
      <4>2. \A q \in Proc : pc[q] \notin MutateLabels
        BY <3>1 DEF Chain, Mutating
      <4>3. \A q \in Proc : pc'[q] \in MutateLabels \ {"queued"} => q = p /\ pc'[q] = "clear"
        BY <4>1, <4>2 DEF Typed, TypeOK
      <4> QED
        BY <4>1, <4>3, ClearEmpties
    <3>2. CASE mutation # None
      <4>1. /\ pc' = [pc EXCEPT ![p] = "queued"] /\ sameCache' = sameCache
            /\ UNCHANGED <<cacheVars, queueVars>> /\ pc[p] = "idle"
        BY <2>3, <3>2 DEF StartMutation, Goto
      <4>2. \A q \in Proc : pc'[q] # "queued" => pc'[q] = pc[q]
        BY <4>1 DEF Typed, TypeOK
      <4>3. Active' \subseteq Active
        BY <4>2 DEF Active, MutateLabels
      <4> QED
        BY <4>1, <4>2, <4>3 DEF Emptied, Emptying, NoRecords, cacheVars, queueVars
    <3> QED
      BY <3>1, <3>2
  <2> QED
    BY <1>1, <2>1, <2>2, <2>3, StartAside, StartKeeps DEF Start
<1>7. CASE \E p \in Proc : MutationStep(p)
  BY <1>0, <1>7, MutationStepEmptied
<1>8. CASE \E f \in Fetch : FetchStep(f)
  <2>1. PICK f \in Fetch : FetchStep(f)
    BY <1>8
  <2>2. Aside
    BY <2>1, FetchStepAside
  <2>3. CASE Receive(f) \/ Missing(f)
    <3>1. sameCache \cap Fetch # {}
      BY <2>3 DEF Receive, Missing, Current
    <3> QED
      BY <1>2, <2>2, <3>1 DEF Emptied
  <2>4. CASE Serve(f)
    BY <2>4 DEF Serve, Emptied, Emptying, Active, NoRecords, procVars, sameVars, queueVars
  <2> QED
    BY <1>1, <2>1, <2>2, <2>3, <2>4, EndFetchKeeps DEF FetchStep
<1>9. CASE \E k \in Key : Expire(k)
  BY <1>1, <1>9, ExpireKeeps, OtherAside
<1>10. CASE \E t \in Token : TokenReplaced(t)
  BY <1>1, <1>10, TokenReplacedKeeps, OtherAside
<1>11. CASE \E e \in Entry : OutsideChange(e)
  BY <1>11 DEF OutsideChange, Emptied, Emptying, Active, NoRecords, procVars, sameVars, cacheVars, queueVars
<1>12. CASE FinishLoad \/ BeginWrite \/ EndWrite
  <2>1. Aside
    BY <1>12, OtherAside
  <2>2. /\ \A q \in Proc : pc'[q] \in {"clear", "prepare", "sent", "applied"} => pc'[q] = pc[q]
        /\ sameCache' \subseteq sameCache
    BY <1>12, <2>1 DEF Aside, MutateLabels, FinishLoad, BeginWrite, EndWrite, Leave, sameVars
  <2>3. CASE FinishLoad /\ Active # {}
    <3>1. stored = None
      BY <2>3 DEF FinishLoad, Emptied, Emptying
    <3>2. records' = NoRecords /\ loaded' # "loading" /\ UNCHANGED queueVars
      BY <2>3, <3>1 DEF FinishLoad, Emptied
    <3> QED
      BY <2>2, <2>3, <3>2 DEF Emptied, Emptying, queueVars
  <2>4. CASE BeginWrite /\ Active # {}
    <3>1. writing' = <<None>> /\ UNCHANGED <<records, loaded, queue, behind, stored>>
      BY <2>4 DEF BeginWrite, Emptied, cacheVars
    <3> QED
      BY <2>2, <2>4, <3>1 DEF Emptied, Emptying, NoRecords
  <2>5. CASE EndWrite /\ Active # {}
    <3>1. /\ stored' \in {writing[1], None} /\ writing' = <<>> /\ queue' = queue - 1
          /\ behind' = [t \in Task |-> IF behind[t] > 0 THEN behind[t] - 1 ELSE 0]
          /\ UNCHANGED <<records, loaded>> /\ writing # <<>>
      BY <2>5 DEF EndWrite, cacheVars
    <3>2. stored' # None => writing \notin {<<>>, <<None>>}
      BY <3>1 DEF Typed, TypeOK
    <3>3. queue \in Nat /\ \A t \in Task : behind[t] \in Nat
      BY ParameterAssumption DEF Typed, TypeOK
    <3>4. Loader \in Task /\ Proc \subseteq Task
      BY DEF Task
    <3> QED
      BY <2>2, <2>5, <3>1, <3>2, <3>3, <3>4 DEF Emptied, Emptying, NoRecords
  <2> QED
    BY <1>2, <1>12, <2>1, <2>3, <2>4, <2>5
<1>13. CASE UNCHANGED vars
  BY <1>13 DEF vars, procVars, sameVars, cacheVars, queueVars, Emptied, Emptying, Active, NoRecords
<1> QED
  BY <1>4, <1>5, <1>6, <1>7, <1>8, <1>9, <1>10, <1>11, <1>12, <1>13 DEF Next

LEMMA FreshInit == Init => Emptied /\ AllFresh
<1> SUFFICES ASSUME Init PROVE Emptied /\ AllFresh
  OBVIOUS
<1>1. records = NoRecords /\ stored = None /\ writing = <<>> /\ sameCache = {}
      /\ vault = [e \in Entry |-> 1] /\ own = [e \in Entry |-> 1]
  BY DEF Init
<1>2. Active = {}
  BY DEF Init, Active, MutateLabels
<1>3. ShowsOwnChanges(records)
  BY <1>1 DEF ShowsOwnChanges, NoRecords
<1> QED
  BY <1>1, <1>2, <1>3 DEF Emptied, AllFresh, Fresh

\* Nothing is cached, so nothing cached is old.
LEMMA EmptyIsFresh ==
    ASSUME records = NoRecords, stored = None, writing \in {<<>>, <<None>>}
    PROVE  ShowsOwnChanges(records) /\ Fresh(stored) /\ (writing # <<>> => Fresh(writing[1]))
  BY DEF ShowsOwnChanges, Fresh, NoRecords

LEMMA ReadRequestFresh ==
    ASSUME Typed, Typed', AllFresh, NEW p \in Proc, ReadMisses(p) \/ ReadHits(p)
    PROVE  AllFresh'
<1>1. /\ UNCHANGED <<records, writing, stored, serverVars>> /\ key[p] \in Key
      /\ \/ ContextAndRequest(p, key[p])
         \/ UNCHANGED job /\ sameCache' \subseteq sameCache \cup {p}
  BY DEF ReadMisses, ReadHits, Reads, Context, Persist, End, queueVars
<1>2. /\ ShowsOwnChanges(records)' /\ Fresh(stored)' /\ (writing' # <<>> => Fresh(writing[1])')
      /\ \A e \in Entry : own'[e] <= vault'[e]
  BY <1>1 DEF AllFresh, Fresh, ShowsOwnChanges, serverVars
<1>3. ASSUME NEW f \in Fetch, f \in sameCache', In(f, "answered")'
      PROVE  f \in sameCache /\ job'[f] = job[f] /\ In(f, "answered")
  <2>1. CASE ContextAndRequest(p, key[p])
    <3>1. PICK g \in Fetch :
            /\ job' = [job EXCEPT ![g] = [key |-> key[p], phase |-> "sent", token |-> token, data |-> None]]
            /\ sameCache' = sameCache \cup {p, g}
      BY <2>1 DEF ContextAndRequest
    <3>2. f # g
      BY <1>3, <3>1 DEF In, Typed, TypeOK
    <3> QED
      BY <1>3, <3>1, <3>2, TaskAssumption DEF In, Typed, TypeOK
  <2>2. CASE UNCHANGED job /\ sameCache' \subseteq sameCache \cup {p}
    BY <1>3, <2>2, TaskAssumption DEF In
  <2> QED
    BY <1>1, <2>1, <2>2
<1> QED
  BY <1>1, <1>2, <1>3 DEF AllFresh, serverVars

LEMMA FetchStepFresh ==
    ASSUME Typed, Typed', AllFresh, NEW f \in Fetch, FetchStep(f)
    PROVE  AllFresh'
<1>0. job \in [Fetch -> Requested \cup {None}] /\ own' = own /\ vault' = vault
  BY DEF Typed, TypeOK, FetchStep, Serve, Receive, Missing, FetchDone, FetchFails, serverVars
<1>1. \A e \in Entry : own[e] <= vault[e] /\ own[e] \in Nat /\ vault[e] \in Nat
  BY ParameterAssumption DEF AllFresh, Typed, TypeOK, Version
<1>2. CASE Serve(f)
  <2>1. PICK answer :
           /\ job' = [job EXCEPT ![f].phase = "answered", ![f].data = answer]
           /\ answer = (CASE job[f].key = "list" -> vault
                          [] job[f].key \in Entry /\ vault[job[f].key] # Gone ->
                                 [e \in {job[f].key} |-> vault[e]]
                          [] OTHER -> None)
    BY <1>2 DEF Serve
  <2>2. answer # None => \A e \in DOMAIN answer : answer[e] >= own[e]
    <3>1. CASE job[f].key = "list"
      <4>1. answer = vault /\ DOMAIN vault = Entry
        BY <2>1, <3>1, TaskAssumption DEF Typed, TypeOK
      <4> QED
        BY <1>1, <4>1
    <3>2. CASE job[f].key \in Entry
      BY <1>1, <2>1, <3>2, TaskAssumption
    <3>3. CASE job[f].key \notin Entry \cup {"list"}
      BY <2>1, <3>3
    <3> QED
      BY <3>1, <3>2, <3>3
  <2>3. job' = [job EXCEPT ![f] = [[job[f] EXCEPT !.phase = "answered"] EXCEPT !.data = answer]]
    <3>1. job' = [job EXCEPT ![f].phase = "answered", ![f].data = answer]
      BY <2>1
    <3> QED
      BY <1>0, <3>1, TwoFields
  <2>4. job'[f].data = answer /\ \A g \in Fetch \ {f} : job'[g] = job[g]
    <3>1. job[f] \in Requested
      BY <1>0, <1>2 DEF Serve, In
    <3>2. job[f] = [key |-> job[f].key, phase |-> job[f].phase, token |-> job[f].token, data |-> job[f].data]
      BY <3>1, RequestFields
    <3> QED
      BY <1>0, <2>3, <3>2
  <2>5. sameCache' = sameCache /\ UNCHANGED <<records, stored, writing>>
    BY <1>2 DEF Serve, sameVars, queueVars
  <2>6. ASSUME NEW g \in Fetch, g \in sameCache', In(g, "answered")', job'[g].data # None
        PROVE  \A e \in DOMAIN job'[g].data : job'[g].data[e] >= own[e]
    BY <2>2, <2>4, <2>5, <2>6 DEF AllFresh, In
  <2> QED
    BY <1>0, <2>5, <2>6 DEF AllFresh, Fresh, ShowsOwnChanges
<1>3. CASE Receive(f)
  <2>1. /\ In(f, "answered") /\ job[f].data # None /\ f \in sameCache
        /\ records' = Answered(job[f].key, [data |-> job[f].data, token |-> job[f].token])
        /\ UNCHANGED <<writing, stored, sameCache>>
    BY <1>3 DEF Receive, Current, Persist, sameVars
  <2>2. \A e \in DOMAIN job[f].data : job[f].data[e] >= own[e]
    BY <2>1 DEF AllFresh
  <2>3. ShowsOwnChanges(records)'
    <3> DEFINE answer == [data |-> job[f].data, token |-> job[f].token]
    <3>1. \A k \in Key : records'[k] \in {answer, None, records[k]}
      BY <2>1 DEF Answered
    <3>2. \A e \in DOMAIN answer.data : answer.data[e] >= own[e]
      BY <2>2
    <3> HIDE DEF answer
    <3> QED
      BY <1>0, <3>1, <3>2 DEF AllFresh, ShowsOwnChanges
  <2>4. job' = [job EXCEPT ![f] = [[job[f] EXCEPT !.phase = "storing"] EXCEPT !.data = None]]
    BY <1>0, <1>3, TwoFields DEF Receive
  <2>5. job'[f].data = None /\ \A g \in Fetch \ {f} : job'[g] = job[g]
    <3>1. job[f] \in Requested
      BY <1>0, <2>1 DEF In
    <3>2. job[f] = [key |-> job[f].key, phase |-> job[f].phase, token |-> job[f].token, data |-> job[f].data]
      BY <3>1, RequestFields
    <3> QED
      BY <1>0, <2>4, <3>2
  <2>6. ASSUME NEW g \in Fetch, g \in sameCache', In(g, "answered")', job'[g].data # None
        PROVE  \A e \in DOMAIN job'[g].data : job'[g].data[e] >= own[e]
    BY <2>1, <2>5, <2>6 DEF AllFresh, In
  <2> QED
    BY <1>0, <2>1, <2>3, <2>6 DEF AllFresh, Fresh, ShowsOwnChanges
<1>4. CASE Missing(f)
  <2>1. /\ In(f, "answered") /\ job[f].data = None /\ job' = [job EXCEPT ![f].phase = "removing"]
        /\ \A k \in Key : records'[k] \in {None, records[k]}
        /\ UNCHANGED <<writing, stored, sameCache>>
    BY <1>4 DEF Missing, Persist, sameVars
  <2>2. \A g \in Fetch \ {f} : job'[g] = job[g]
    BY <1>0, <2>1
  <2>3. job'[f].data = job[f].data
    <3>1. job[f] \in Requested
      BY <1>0, <2>1 DEF In
    <3>2. job[f] = [key |-> job[f].key, phase |-> job[f].phase, token |-> job[f].token, data |-> job[f].data]
      BY <3>1, RequestFields
    <3> QED
      BY <1>0, <2>1, <3>2
  <2>4. ASSUME NEW g \in Fetch, g \in sameCache', In(g, "answered")', job'[g].data # None
        PROVE  \A e \in DOMAIN job'[g].data : job'[g].data[e] >= own[e]
    BY <2>1, <2>2, <2>3, <2>4 DEF AllFresh, In
  <2>5. ShowsOwnChanges(records)'
    BY <1>0, <2>1 DEF AllFresh, ShowsOwnChanges
  <2> QED
    BY <1>0, <2>1, <2>4, <2>5 DEF AllFresh, Fresh, ShowsOwnChanges
<1> QED
  BY <1>2, <1>3, <1>4, EndFetchKeeps, FreshKept DEF FetchStep

\* A change at the server: of the extension, while its cache is empty, or of another.
LEMMA ChangeFresh ==
    ASSUME Typed, Typed', Emptied, AllFresh,
           \/ \E p \in Proc : MutationApplied(p)
           \/ \E e \in Entry : OutsideChange(e)
    PROVE  AllFresh'
<1>1. CASE \E p \in Proc : MutationApplied(p)
  <2>1. PICK p \in Proc : MutationApplied(p)
    BY <1>1
  <2>2. PICK e \in Entry : Change(e) /\ own' = [own EXCEPT ![e] = vault'[e]]
    BY <2>1 DEF MutationApplied
  <2>3. /\ UNCHANGED <<records, stored, writing, sameCache>>
        /\ records = NoRecords /\ sameCache \cap Fetch = {} /\ Emptying(0)
    BY <2>1 DEF MutationApplied, OnlyGoto, cacheVars, queueVars, Emptied, Active, MutateLabels
  <2>4. stored = None /\ writing \in {<<>>, <<None>>}
    BY <2>3 DEF Emptying
  <2>5. \A d \in Entry : own'[d] <= vault'[d]
    <3>1. /\ vault'[e] \in Version /\ \A d \in Entry \ {e} : vault'[d] = vault[d]
      BY <2>2, ChangeType DEF Typed, TypeOK
    <3> QED
      BY <2>2, <3>1 DEF AllFresh, Typed, TypeOK, Version
  <2>6. ShowsOwnChanges(records)' /\ Fresh(stored)' /\ (writing' # <<>> => Fresh(writing[1])')
    BY <2>3, <2>4 DEF ShowsOwnChanges, Fresh, NoRecords
  <2> QED
    BY <2>3, <2>5, <2>6 DEF AllFresh
<1>2. CASE \E e \in Entry : OutsideChange(e)
  <2>1. PICK e \in Entry : OutsideChange(e)
    BY <1>2
  <2>2. vault'[e] > vault[e] /\ vault'[e] \in Version /\ \A d \in Entry \ {e} : vault'[d] = vault[d]
    BY <2>1, ChangeType DEF OutsideChange, Typed, TypeOK
  <2>3. own' = own /\ UNCHANGED <<records, stored, writing, sameCache, job>>
    BY <2>1 DEF OutsideChange, sameVars, cacheVars, queueVars
  <2>4. ASSUME NEW d \in Entry PROVE own'[d] <= vault'[d]
    <3>1. own[d] <= vault[d] /\ own[d] \in Nat /\ vault[d] \in Nat /\ vault[e] \in Nat /\ vault'[e] \in Nat
      BY <2>2, ParameterAssumption DEF AllFresh, Typed, TypeOK, Version
    <3> QED
      BY <2>2, <2>3, <3>1
  <2> QED
    BY <2>3, <2>4 DEF AllFresh, Fresh, ShowsOwnChanges, In
<1> QED
  BY <1>1, <1>2

LEMMA FreshNext == Typed /\ Emptied /\ AllFresh /\ [Next]_vars => AllFresh'
<1> SUFFICES ASSUME Typed, Emptied, AllFresh, [Next]_vars PROVE AllFresh'
  OBVIOUS
<1>0. Typed'
  BY TypedNext
<1>1. CASE Keeps
  BY <1>0, <1>1, FreshKept
<1>2. CASE \E p \in Proc : ReadStep(p)
  <2>1. PICK p \in Proc : ReadStep(p)
    BY <1>2
  <2>2. CASE StartLoad(p)
    <3>1. UNCHANGED <<records, stored, writing, job, serverVars>> /\ sameCache' \cap Fetch \subseteq sameCache
      BY <2>2, TaskAssumption DEF StartLoad
    <3> QED
      BY <3>1 DEF AllFresh, Fresh, ShowsOwnChanges, In, serverVars
  <2> QED
    BY <1>0, <1>1, <2>1, <2>2, ReadStepKeeps, ReadRequestFresh
<1>3. CASE \E p \in Proc : SessionStep(p)
  BY <1>1, <1>3, SessionStepKeeps
<1>4. CASE \E p \in Proc : Start(p)
  <2>1. PICK p \in Proc : Start(p)
    BY <1>4
  <2>2. CASE Restart(p)
    <3>1. /\ records' = NoRecords /\ stored' = stored /\ writing' = <<>> /\ sameCache' = {}
          /\ own' = own /\ vault' = vault
      BY <2>2 DEF Restart, serverVars
    <3>2. ShowsOwnChanges(records)'
      BY <3>1 DEF ShowsOwnChanges, NoRecords
    <3> QED
      BY <3>1, <3>2 DEF AllFresh, Fresh, ShowsOwnChanges
  <2> QED
    BY <1>1, <2>1, <2>2, StartKeeps
<1>5. CASE \E p \in Proc : MutationStep(p)
  BY <1>0, <1>1, <1>5, MutationStepKeeps, ChangeFresh
<1>6. CASE \E f \in Fetch : FetchStep(f)
  BY <1>0, <1>6, FetchStepFresh
<1>7. CASE \/ \E k \in Key : Expire(k)
           \/ \E t \in Token : TokenReplaced(t)
  BY <1>1, <1>7, ExpireKeeps, TokenReplacedKeeps
<1>8. CASE \E e \in Entry : OutsideChange(e)
  BY <1>0, <1>8, ChangeFresh
<1>9. CASE FinishLoad
  <2>1. /\ records' = records \/ (stored # None /\ records' = stored.records)
        /\ sameCache' \subseteq sameCache /\ UNCHANGED <<stored, writing, job, serverVars>>
    BY <1>9 DEF FinishLoad, Leave, queueVars
  <2>2. ShowsOwnChanges(records)'
    BY <2>1 DEF AllFresh, Fresh, ShowsOwnChanges, serverVars
  <2> QED
    BY <2>1, <2>2 DEF AllFresh, Fresh, ShowsOwnChanges, In, serverVars
<1>10. CASE BeginWrite
  <2>1. /\ writing' \in {<<[owner |-> token, records |-> records]>>, <<None>>}
        /\ UNCHANGED <<records, stored, sameCache, job, own, vault>>
    BY <1>10 DEF BeginWrite, cacheVars, sameVars, serverVars
  <2>2. Fresh(writing[1])'
    BY <2>1 DEF AllFresh, Fresh, ShowsOwnChanges
  <2> QED
    BY <2>1, <2>2 DEF AllFresh, Fresh, ShowsOwnChanges, In
<1>11. CASE EndWrite
  <2>1. /\ stored' \in {writing[1], None} /\ writing # <<>> /\ writing' = <<>>
        /\ UNCHANGED <<records, sameCache, job, own, vault>>
    BY <1>11 DEF EndWrite, cacheVars, sameVars, serverVars
  <2> QED
    BY <2>1 DEF AllFresh, Fresh, ShowsOwnChanges, In
<1>12. CASE UNCHANGED vars
  BY <1>12 DEF vars, sameVars, cacheVars, queueVars, serverVars, AllFresh, Fresh, ShowsOwnChanges, In
<1> QED
  BY <1>2, <1>3, <1>4, <1>5, <1>6, <1>7, <1>8, <1>9, <1>10, <1>11, <1>12 DEF Next

\* However reads, restorations from storage, requests, locks and logins fall
\* between the steps of a mutation, neither the cache nor its copy in browser
\* storage ever holds a login as it was before a change of the extension.
THEOREM OwnChangesStay == Spec => []OwnChangesShown
<1> DEFINE Inv == Typed /\ Chain /\ Emptied /\ AllFresh
<1>1. Init => Inv
  BY TypedInit, ChainInit, FreshInit
<1>2. Inv /\ [Next]_vars => Inv'
  BY TypedNext, ChainNext, EmptiedNext, FreshNext
<1>3. Inv => OwnChangesShown
  BY DEF AllFresh, Fresh, OwnChangesShown
<1> QED
  BY <1>1, <1>2, <1>3, PTL DEF Spec

(***************************************************************************)
(* Locks and logins.  What a step that neither locks nor logs in can do to *)
(* the session: read the stored token, take the token it has read, or hear *)
(* that it is gone.                                                        *)
(***************************************************************************)
LockLabels == {"lock", "removed"}
SaveLabels == {"saving", "saved"}
SessionLabels == LockLabels \cup SaveLabels

\* A read that may still return a record has a key of the cache.
Keyed == \A p \in Proc : pc[p] \in {"fetching", "fetched", "recheck", "return"} => key[p] \in Key

\* A request that has read the present token was made with it.
Requests == \A f \in Fetch : f \in sameToken /\ job[f] # None => job[f].token = token

\* Only who is about to use a token read from storage counts as of the session.
Unlocking == sameSession \subseteq {p \in Proc : pc[p] \in {"unlock", "recheck", "boot"}}

Peaceful ==
    /\ UNCHANGED <<clearing, saved, issued, locked>>
    /\ changes' \subseteq changes
    /\ \A q \in Proc : pc[q] \in SessionLabels \/ pc'[q] \in SessionLabels =>
          pc'[q] = pc[q] /\ seen'[q] = seen[q]
    /\ \/ token' = token
       \/ token' = None
       \/ \E p \in sameSession : ~clearing /\ seen[p] # None /\ token' = seen[p]
    /\ \A q \in Proc : seen'[q] \in {seen[q], saved, None}
    /\ \A q \in sameSession' :
          \/ q \in sameSession /\ seen'[q] = seen[q]
          \/ seen'[q] = (IF clearing THEN None ELSE saved)
    /\ \/ token' = token /\ sameToken' \cap Fetch \subseteq sameToken
       \/ sameToken' \cap Fetch = {}
       \/ UNCHANGED token /\ \E p \in Proc, k \in Key : ContextAndRequest(p, k)

LEMMA KeyedNext == Typed /\ Keyed /\ [Next]_vars => Keyed'
<1> SUFFICES ASSUME Typed, Keyed, [Next]_vars PROVE Keyed'
  OBVIOUS
<1> USE DEF Goto, Keyed, Typed, TypeOK
<1>1. CASE UNCHANGED <<pc, key>>
  BY <1>1
<1>2. ASSUME NEW ps, NEW task, NEW label \in {"idle", "loaded", "fetched"},
             \A p \in ps : pc[p] \in {"loading", "fetching"},
             label = "fetched" => \A p \in ps : pc[p] = "fetching", Leave(ps, task, label)
      PROVE  Keyed'
  BY <1>2 DEF Leave
<1>3. ASSUME NEW p \in Proc, NEW label, label \notin {"fetching", "fetched", "recheck", "return"},
             Goto(p, label), \A q \in Proc \ {p} : key'[q] = key[q]
      PROVE  Keyed'
  BY <1>3
<1>4. ASSUME NEW p \in Proc, ReadStep(p) PROVE Keyed'
  <2>1. CASE ReadWaited(p) \/ IsUnlocked(p) \/ IsLocked(p) \/ LoadClears(p)
    BY <1>3, <2>1 DEF ReadWaited, IsUnlocked, IsLocked, LoadClears, End, Forget
  <2>2. CASE StartLoad(p) \/ JoinLoad(p) \/ LoadDropped(p) \/ ExpireWrites(p) \/ ReadAgain(p)
    BY <1>3, <2>2 DEF StartLoad, JoinLoad, LoadDropped, ExpireWrites, ReadAgain, End, Forget
  <2>3. CASE ReadMisses(p)
    BY <2>3 DEF ReadMisses, Reads, End, Forget
  <2>4. CASE ReadHits(p) \/ ReadFetched(p) \/ ReadRechecked(p)
    BY <2>4 DEF ReadHits, Reads, ReadFetched, ReadRechecked
  <2>5. CASE ReadReturns(p) \/ ReadFails(p) \/ FetchDropped(p)
    BY <1>3, <2>5 DEF ReadReturns, ReadFails, FetchDropped, End, Forget
  <2> QED
    BY <1>4, <2>1, <2>2, <2>3, <2>4, <2>5 DEF ReadStep
<1>5. ASSUME NEW p \in Proc, MutationStep(p) PROVE Keyed'
  BY <1>3, <1>5 DEF MutationStep, MutationTurn, MutationCleared, MutationSent, MutationApplied,
     MutationAnswered, MutationRejected, MutationEnds, MutationLocks, BeginLock, OnlyGoto,
     ClearAndGoto, End, Forget
<1>6. ASSUME NEW p \in Proc, SessionStep(p) PROVE Keyed'
  BY <1>3, <1>6 DEF SessionStep, RemoveToken, EndLock, LoginAnswered, LoginFails, SaveStores,
     SaveSets, Booted, End, Forget
<1>7. ASSUME NEW p \in Proc, Start(p) PROVE Keyed'
  <2>1. CASE Restart(p)
    BY <2>1 DEF Restart
  <2>2. CASE ~Restart(p)
    BY <1>3, <1>7, <2>2 DEF Start, StartRead, StartExpire, StartMutation, StartLogin, Lock,
       FetchRejected, BeginLock, Forget
  <2> QED
    BY <2>1, <2>2
<1>8. ASSUME NEW f \in Fetch, FetchStep(f) PROVE Keyed'
  <2>1. CASE Serve(f) \/ Receive(f) \/ Missing(f)
    BY <1>1, <2>1 DEF Serve, Receive, Missing, procVars
  <2>2. CASE FetchDone(f) \/ FetchFails(f)
    BY <1>2, <2>2 DEF FetchDone, FetchFails, EndFetch, AwaitFetch
  <2> QED
    BY <1>8, <2>1, <2>2 DEF FetchStep
<1>9. CASE FinishLoad
  BY <1>2, <1>9 DEF FinishLoad, AwaitLoad
<1>10. CASE \/ \E k \in Key : Expire(k)
            \/ \E e \in Entry : OutsideChange(e)
            \/ \E t \in Token : TokenReplaced(t)
            \/ BeginWrite \/ EndWrite \/ UNCHANGED vars
  BY <1>1, <1>10 DEF Expire, OutsideChange, TokenReplaced, BeginWrite, EndWrite, vars, procVars
<1> QED
  BY <1>4, <1>5, <1>6, <1>7, <1>8, <1>9, <1>10 DEF Next

LEMMA ReadStepPeaceful ==
    ASSUME Typed, Unlocking, NEW p \in Proc, ReadStep(p)
    PROVE  Peaceful /\ Unlocking'
<1> USE TaskAssumption DEF Goto, Typed, TypeOK, Unlocking, Peaceful, SessionLabels, LockLabels, SaveLabels,
        sessionVars
<1>1. CASE ReadWaited(p) \/ ReadFetched(p)
  BY <1>1 DEF ReadWaited, ReadFetched, BeginUnlock
<1>2. CASE IsUnlocked(p) \/ ReadRechecked(p)
  BY <1>2 DEF IsUnlocked, ReadRechecked, EndUnlock, Unlocked, SetToken
<1>3. CASE IsLocked(p)
  BY <1>3 DEF IsLocked, End, Forget, Clear
<1>4. CASE LoadClears(p)
  BY <1>4 DEF LoadClears, Clear
<1>5. CASE StartLoad(p)
  BY <1>5 DEF StartLoad, Loads
<1>6. CASE JoinLoad(p)
  BY <1>6 DEF JoinLoad, Loads, End, Forget, sameVars
<1>7. CASE LoadDropped(p) \/ ExpireWrites(p) \/ FetchDropped(p)
  BY <1>7 DEF LoadDropped, ExpireWrites, FetchDropped, End, Forget
<1>8. CASE ReadAgain(p)
  BY <1>8 DEF ReadAgain, Reads, sameVars
<1>9. CASE ReadMisses(p)
  <2>1. pc[p] = "loaded" /\ key[p] \in Key /\ UNCHANGED sessionVars
    BY <1>9 DEF ReadMisses, Reads
  <2>2. CASE End(p)
    BY <2>1, <2>2 DEF End, Forget
  <2>3. CASE Goto(p, "fetching") /\ UNCHANGED <<key, seen, sameSession>>
             /\ (ContextAndRequest(p, key[p]) \/ Context(p))
    BY <2>1, <2>3 DEF Context
  <2> QED
    BY <1>9, <2>2, <2>3 DEF ReadMisses
<1>10. CASE ReadHits(p)
  <2>1. /\ pc[p] = "loaded" /\ key[p] \in Key /\ UNCHANGED sessionVars /\ BeginUnlock(p)
        /\ Goto(p, "recheck") /\ (ContextAndRequest(p, key[p]) \/ Context(p))
    BY <1>10 DEF ReadHits, Reads
  <2> QED
    BY <2>1 DEF Context, BeginUnlock
<1>11. CASE ReadReturns(p) \/ ReadFails(p)
  BY <1>11 DEF ReadReturns, ReadFails, End, Forget
<1> QED
  BY <1>1, <1>2, <1>3, <1>4, <1>5, <1>6, <1>7, <1>8, <1>9, <1>10, <1>11 DEF ReadStep

LEMMA MutationStepPeaceful ==
    ASSUME Typed, Unlocking, NEW p \in Proc, MutationStep(p), ~MutationLocks(p)
    PROVE  Peaceful /\ Unlocking'
<1> USE TaskAssumption DEF Goto, Typed, TypeOK, Unlocking, Peaceful, SessionLabels, LockLabels, SaveLabels,
        sessionVars
<1>1. CASE MutationTurn(p)
  BY <1>1 DEF MutationTurn, Clear, End, Forget
<1>2. CASE MutationCleared(p) \/ MutationSent(p)
  BY <1>2 DEF MutationCleared, MutationSent, OnlyGoto, ClearAndGoto, Clear
<1>3. CASE MutationApplied(p) \/ MutationAnswered(p) \/ MutationRejected(p)
  BY <1>3 DEF MutationApplied, MutationAnswered, MutationRejected, OnlyGoto, ClearAndGoto, Clear
<1>4. CASE MutationEnds(p)
  BY <1>4 DEF MutationEnds, End, Forget
<1> QED
  BY <1>1, <1>2, <1>3, <1>4 DEF MutationStep

LEMMA StartPeaceful ==
    ASSUME Typed, Unlocking, NEW p \in Proc,
           \/ \E k \in Key : StartRead(p, k)
           \/ StartExpire(p) \/ StartMutation(p) \/ StartLogin(p) \/ LoginFails(p) \/ Booted(p)
    PROVE  Peaceful /\ Unlocking'
<1> USE TaskAssumption DEF Goto, Typed, TypeOK, Unlocking, Peaceful, SessionLabels, LockLabels, SaveLabels,
        sessionVars
<1>1. CASE \E k \in Key : StartRead(p, k)
  BY <1>1 DEF StartRead, BeginUnlock
<1>2. CASE StartExpire(p)
  BY <1>2 DEF StartExpire, BeginUnlock
<1>3. CASE StartMutation(p)
  BY <1>3 DEF StartMutation, Clear
<1>4. CASE StartLogin(p) \/ LoginFails(p)
  BY <1>4 DEF StartLogin, LoginFails, End, Forget
<1>5. CASE Booted(p)
  BY <1>5 DEF Booted, EndUnlock, Unlocked, SetToken, Forget, Clear
<1> QED
  BY <1>1, <1>2, <1>3, <1>4, <1>5

LEMMA FetchStepPeaceful ==
    ASSUME Typed, Unlocking, NEW f \in Fetch, FetchStep(f)
    PROVE  Peaceful /\ Unlocking'
<1> USE DEF Typed, TypeOK, Unlocking, Peaceful, SessionLabels, LockLabels, SaveLabels, sessionVars
<1>1. CASE Serve(f) \/ Receive(f) \/ Missing(f)
  BY <1>1 DEF Serve, Receive, Missing, procVars, sameVars
<1>2. CASE FetchDone(f) \/ FetchFails(f)
  <2>1. PICK label \in {"fetched", "idle"} : EndFetch(f, label) /\ UNCHANGED sessionVars
    BY <1>2 DEF FetchDone, FetchFails
  <2> QED
    BY <2>1 DEF EndFetch, Leave, AwaitFetch
<1> QED
  BY <1>1, <1>2 DEF FetchStep

LEMMA OtherPeaceful ==
    ASSUME Typed, Unlocking,
           \/ \E k \in Key : Expire(k)
           \/ \E e \in Entry : OutsideChange(e)
           \/ \E t \in Token : TokenReplaced(t)
           \/ FinishLoad \/ BeginWrite \/ EndWrite \/ UNCHANGED vars
    PROVE  Peaceful /\ Unlocking'
<1> USE DEF Typed, TypeOK, Unlocking, Peaceful, SessionLabels, LockLabels, SaveLabels, sessionVars
<1>1. CASE FinishLoad
  <2>1. /\ UNCHANGED <<sessionVars, seen, sameSession>> /\ sameToken' \subseteq sameToken
        /\ \A q \in Proc : pc'[q] = pc[q] \/ (pc[q] = "loading" /\ pc'[q] \in {"loaded", "idle"})
    BY <1>1 DEF FinishLoad, Leave, AwaitLoad
  <2>2. Unlocking'
    BY <2>1
  <2> QED
    BY <2>1, <2>2
<1>2. CASE \E t \in Token : TokenReplaced(t)
  BY <1>2 DEF TokenReplaced, Clear, procVars
<1>3. CASE \/ \E k \in Key : Expire(k)
           \/ \E e \in Entry : OutsideChange(e)
           \/ BeginWrite \/ EndWrite \/ UNCHANGED vars
  BY <1>3 DEF Expire, OutsideChange, BeginWrite, EndWrite, vars, procVars, sameVars
<1> QED
  BY <1>1, <1>2, <1>3

\* The steps that lock or log in.
SessionChange(p) ==
    \/ BeginLock(p) /\ pc[p] \in {"idle", "rejected"}
    \/ RemoveToken(p) \/ EndLock(p) \/ LoginAnswered(p) \/ SaveStores(p) \/ SaveSets(p)
    \/ Restart(p)

LEMMA SessionCases ==
    ASSUME Typed, Unlocking, [Next]_vars
    PROVE  (Peaceful \/ \E p \in Proc : SessionChange(p)) /\ Unlocking'
<1>1. CASE Peaceful /\ Unlocking'
  BY <1>1
<1>2. CASE \E p \in Proc : SessionChange(p)
  <2>1. PICK p \in Proc : SessionChange(p)
    BY <1>2
  <2> SUFFICES Unlocking'
    BY <1>2
  <2> USE DEF Unlocking, Goto, Typed, TypeOK
  <2>2. CASE BeginLock(p) \/ Restart(p)
    BY <2>2 DEF BeginLock, Restart
  <2>3. CASE RemoveToken(p) \/ SaveStores(p)
    BY <2>3 DEF RemoveToken, SaveStores, sameVars
  <2>4. CASE EndLock(p)
    BY <2>4 DEF EndLock, End
  <2>5. CASE LoginAnswered(p) \/ SaveSets(p)
    BY <2>5 DEF LoginAnswered, SaveSets
  <2> QED
    BY <1>2, <2>1, <2>2, <2>3, <2>4, <2>5 DEF SessionChange
<1>3. CASE \E p \in Proc : ReadStep(p)
  BY <1>1, <1>3, ReadStepPeaceful
<1>4. CASE \E p \in Proc : MutationStep(p)
  BY <1>1, <1>2, <1>4, MutationStepPeaceful DEF MutationLocks, SessionChange
<1>5. CASE \E p \in Proc : SessionStep(p)
  BY <1>1, <1>2, <1>5, StartPeaceful DEF SessionStep, SessionChange
<1>6. CASE \E p \in Proc : Start(p)
  BY <1>1, <1>2, <1>6, StartPeaceful DEF Start, Lock, FetchRejected, SessionChange
<1>7. CASE \E f \in Fetch : FetchStep(f)
  BY <1>1, <1>7, FetchStepPeaceful
<1> QED
  BY <1>1, <1>3, <1>4, <1>5, <1>6, <1>7, OtherPeaceful DEF Next

\* Where locks and logins do not overlap, one of them runs at a time, and what
\* it has done to the stored token stays until it ends.
OneAtATime ==
    /\ \A p, q \in Proc : pc[p] \in SessionLabels /\ pc[q] \in SessionLabels => p = q
    /\ clearing <=> \E p \in Proc : pc[p] \in LockLabels
    /\ \A p \in Proc : pc[p] = "removed" => saved = None
    /\ \A p \in Proc : pc[p] = "saved" => saved = seen[p]

\* The extension has no token, and who reads the stored one will find none.
NoToken == token = None /\ \A p \in sameSession : seen[p] = None

NoSaving == \A p \in Proc : pc[p] # "saving"

Locked ==
    /\ (clearing => NoToken)
    /\ (saved = None /\ NoSaving => NoToken)

LEMMA OneAtATimeNext ==
    ASSUME ~Overlap, Typed, Unlocking, OneAtATime, [Next]_vars
    PROVE  OneAtATime'
<1>1. CASE Peaceful
  <2>1. \A q \in Proc : pc'[q] \in SessionLabels => pc'[q] = pc[q] /\ seen'[q] = seen[q]
    BY <1>1 DEF Peaceful
  <2>2. \A q \in Proc : pc[q] \in SessionLabels => pc'[q] = pc[q]
    BY <1>1 DEF Peaceful
  <2>3. clearing' = clearing /\ saved' = saved
    BY <1>1 DEF Peaceful
  <2> QED
    BY <2>1, <2>2, <2>3 DEF OneAtATime, SessionLabels, LockLabels, SaveLabels
<1>2. CASE \E p \in Proc : SessionChange(p)
  <2>1. PICK p \in Proc : SessionChange(p)
    BY <1>2
  <2>2. MayOverlap => \A q \in Proc : pc[q] \notin SessionLabels
    BY DEF MayOverlap, Saving, SessionLabels, LockLabels, SaveLabels
  <2> USE DEF Goto, Typed, TypeOK, OneAtATime, SessionLabels, LockLabels, SaveLabels
  <2>3. CASE BeginLock(p)
    BY <2>2, <2>3 DEF BeginLock
  <2>4. CASE LoginAnswered(p)
    BY <2>2, <2>4 DEF LoginAnswered
  <2>5. CASE RemoveToken(p)
    BY <2>5 DEF RemoveToken
  <2>6. CASE EndLock(p)
    BY <2>6 DEF EndLock, End, Forget
  <2>7. CASE SaveStores(p)
    BY <2>7 DEF SaveStores
  <2>8. CASE SaveSets(p)
    BY <2>8 DEF SaveSets, Forget
  <2>9. CASE Restart(p)
    BY <2>9 DEF Restart
  <2> QED
    BY <2>1, <2>3, <2>4, <2>5, <2>6, <2>7, <2>8, <2>9 DEF SessionChange
<1> QED
  BY <1>1, <1>2, SessionCases

LEMMA LockedNext ==
    ASSUME ~Overlap, Typed, Unlocking, OneAtATime, Locked, [Next]_vars
    PROVE  Locked'
<1>1. CASE Peaceful
  <2>1. clearing' = clearing /\ saved' = saved /\ (NoSaving' => NoSaving)
    BY <1>1 DEF Peaceful, NoSaving, SessionLabels, LockLabels, SaveLabels
  <2>2. NoToken /\ (clearing \/ saved = None) => NoToken'
    BY <1>1 DEF Peaceful, NoToken
  <2> QED
    BY <2>1, <2>2 DEF Locked
<1>2. CASE \E p \in Proc : SessionChange(p)
  <2>1. PICK p \in Proc : SessionChange(p)
    BY <1>2
  <2>2. MayOverlap => \A q \in Proc : pc[q] \notin SessionLabels
    BY DEF MayOverlap, Saving, SessionLabels, LockLabels, SaveLabels
  <2>3. CASE BeginLock(p)
    BY <2>3 DEF BeginLock, Locked, NoToken
  <2>4. CASE LoginAnswered(p)
    <3>1. ~clearing' /\ ~NoSaving'
      BY <2>2, <2>4 DEF LoginAnswered, OneAtATime, NoSaving, Goto, Typed, TypeOK, SessionLabels
    <3> QED
      BY <3>1 DEF Locked
  <2>5. CASE RemoveToken(p)
    <3>1. clearing /\ NoToken' = NoToken
      BY <2>5 DEF RemoveToken, OneAtATime, NoToken, LockLabels, sameVars
    <3> QED
      BY <3>1 DEF Locked
  <2>6. CASE EndLock(p)
    <3>1. clearing /\ NoToken
      BY <2>6 DEF EndLock, OneAtATime, Locked, LockLabels
    <3>2. NoToken'
      BY <2>6, <3>1 DEF EndLock, End, Forget, NoToken, Unlocking, Typed, TypeOK
    <3> QED
      BY <3>2 DEF Locked
  <2>7. CASE SaveStores(p)
    <3>1. saved' # None /\ clearing' = clearing /\ NoToken' = NoToken
      BY <2>7, NoneAssumption DEF SaveStores, NoToken, Typed, Grounded, sameVars
    <3> QED
      BY <3>1 DEF Locked
  <2>8. CASE SaveSets(p)
    <3>1. ~clearing' /\ saved' # None
      BY <2>8, NoneAssumption DEF SaveSets, OneAtATime, SessionLabels, LockLabels, SaveLabels, Typed, Grounded
    <3> QED
      BY <3>1 DEF Locked
  <2>9. CASE Restart(p)
    <3>1. ~clearing' /\ saved' = saved /\ (saved = None => NoToken')
      BY <2>9 DEF Restart, NoToken
    <3> QED
      BY <3>1 DEF Locked
  <2> QED
    BY <2>1, <2>3, <2>4, <2>5, <2>6, <2>7, <2>8, <2>9 DEF SessionChange
<1> QED
  BY <1>1, <1>2, SessionCases

(***************************************************************************)
(* What such a step does to the queue of writes: nothing, or one more.     *)
(***************************************************************************)
Queued ==
    \/ UNCHANGED <<queue, writing, stored>> /\ \A q \in Proc : behind'[q] = behind[q]
    \/ \E ts \in SUBSET Task : Persist(ts)

Cleared == \E ts \in SUBSET Task, same \in SUBSET Task : Clear(ts, same)

QueueStep ==
    /\ Queued
    /\ \/ changes' = changes /\ \A q \in Proc : pc[q] = "boot" => pc'[q] = "boot"
       \/ Cleared
       \/ \E p \in sameSession : seen[p] # None

LEMMA ReadStepQueues == ASSUME Typed, NEW p \in Proc, ReadStep(p) PROVE QueueStep
<1>0. {} \in SUBSET Task /\ {p} \in SUBSET Task /\ sameToken \in SUBSET Task
  BY DEF Task, Typed, TypeOK
<1> USE DEF Goto, Typed, TypeOK
<1>1. CASE UNCHANGED <<changes, queueVars>> /\ \A q \in Proc : pc[q] = "boot" => pc'[q] = "boot"
  BY <1>1 DEF QueueStep, Queued, queueVars
<1>2. CASE ReadWaited(p) \/ IsUnlocked(p) \/ LoadDropped(p) \/ ReadAgain(p)
  BY <1>1, <1>2 DEF ReadWaited, IsUnlocked, LoadDropped, ReadAgain, Reads, End, sessionVars
<1>3. CASE JoinLoad(p)
  BY <1>1, <1>3 DEF JoinLoad, Loads, End, sessionVars
<1>4. CASE ReadFetched(p) \/ ReadRechecked(p) \/ ReadReturns(p) \/ ReadFails(p) \/ FetchDropped(p)
  BY <1>1, <1>4 DEF ReadFetched, ReadRechecked, ReadReturns, ReadFails, FetchDropped, End, sessionVars
<1>5. CASE ReadMisses(p)
  BY <1>1, <1>5 DEF ReadMisses, Reads, End, sessionVars
<1>6. CASE IsLocked(p) /\ key[p] # "alarm"
  BY <1>1, <1>6 DEF IsLocked, End, sessionVars
<1>7. CASE \/ IsLocked(p) /\ key[p] = "alarm"
           \/ LoadClears(p)
  BY <1>0, <1>7 DEF IsLocked, LoadClears, Clear, QueueStep, Queued, Cleared
<1>8. CASE StartLoad(p)
  <2>1. UNCHANGED <<changes, queue, writing, stored>> /\ behind' = [behind EXCEPT ![Loader] = queue]
    BY <1>8 DEF StartLoad, sessionVars
  <2>2. \A q \in Proc : behind'[q] = behind[q] /\ (pc[q] = "boot" => pc'[q] = "boot")
    BY <1>8, <2>1, TaskAssumption DEF StartLoad, Loads, Task
  <2> QED
    BY <2>1, <2>2 DEF QueueStep, Queued
<1>9. CASE ExpireWrites(p) \/ ReadHits(p)
  <2>1. UNCHANGED changes /\ Persist({})
    BY <1>9 DEF ExpireWrites, ReadHits, sessionVars
  <2>2. \A q \in Proc : pc[q] = "boot" => pc'[q] = "boot"
    BY <1>9 DEF ExpireWrites, ReadHits, Reads, End
  <2> QED
    BY <1>0, <2>1, <2>2 DEF QueueStep, Queued
<1> QED
  BY <1>2, <1>3, <1>4, <1>5, <1>6, <1>7, <1>8, <1>9 DEF ReadStep

LEMMA MutationStepQueues ==
    ASSUME Typed, NEW p \in Proc, MutationStep(p), ~MutationLocks(p) PROVE QueueStep
<1>0. {p} \in SUBSET Task /\ sameToken \in SUBSET Task
  BY DEF Task, Typed, TypeOK
<1> USE DEF Goto, Typed, TypeOK
<1>1. CASE UNCHANGED <<changes, queueVars>> /\ \A q \in Proc : pc[q] = "boot" => pc'[q] = "boot"
  BY <1>1 DEF QueueStep, Queued, queueVars
<1>2. CASE Clear({p}, sameToken)
  BY <1>0, <1>2 DEF Clear, QueueStep, Queued, Cleared
<1>3. CASE MutationTurn(p)
  BY <1>1, <1>2, <1>3 DEF MutationTurn, End, sessionVars
<1>4. CASE MutationCleared(p) \/ MutationSent(p)
  BY <1>1, <1>2, <1>4 DEF MutationCleared, MutationSent, OnlyGoto, ClearAndGoto, sessionVars
<1>5. CASE MutationApplied(p) \/ MutationAnswered(p) \/ MutationRejected(p)
  BY <1>1, <1>2, <1>5 DEF MutationApplied, MutationAnswered, MutationRejected, OnlyGoto, ClearAndGoto,
     sessionVars
<1>6. CASE MutationEnds(p)
  BY <1>1, <1>6 DEF MutationEnds, End, sessionVars
<1> QED
  BY <1>3, <1>4, <1>5, <1>6 DEF MutationStep

LEMMA StartQueues ==
    ASSUME Typed, NEW p \in Proc,
           \/ \E k \in Key : StartRead(p, k)
           \/ StartExpire(p) \/ StartMutation(p) \/ StartLogin(p) \/ LoginFails(p) \/ Booted(p)
    PROVE  QueueStep
<1>0. /\ {} \in SUBSET Task /\ {p} \in SUBSET Task /\ sameToken \in SUBSET Task
      /\ sameToken \cup {p} \in SUBSET Task
  BY DEF Task, Typed, TypeOK
<1> USE DEF Goto, Typed, TypeOK
<1>1. CASE UNCHANGED <<changes, queueVars>> /\ \A q \in Proc : pc[q] = "boot" => pc'[q] = "boot"
  BY <1>1 DEF QueueStep, Queued, queueVars
<1>2. CASE (\E k \in Key : StartRead(p, k)) \/ StartExpire(p)
  BY <1>1, <1>2 DEF StartRead, StartExpire, sessionVars
<1>3. CASE StartLogin(p) \/ LoginFails(p)
  BY <1>1, <1>3 DEF StartLogin, LoginFails, End, sessionVars
<1>4. CASE StartMutation(p)
  <2>1. CASE mutation = None
    BY <1>0, <1>4, <2>1 DEF StartMutation, Clear, QueueStep, Queued, Cleared
  <2>2. CASE mutation # None
    BY <1>1, <1>4, <2>2 DEF StartMutation, sessionVars
  <2> QED
    BY <2>1, <2>2
<1>5. CASE Booted(p)
  <2>1. CASE Unlocked(p)
    BY <1>5, <2>1 DEF Booted, Unlocked, QueueStep, Queued, queueVars
  <2>2. CASE ~Unlocked(p)
    BY <1>0, <1>5, <2>2 DEF Booted, Clear, QueueStep, Queued, Cleared
  <2> QED
    BY <2>1, <2>2
<1> QED
  BY <1>2, <1>3, <1>4, <1>5

LEMMA FetchStepQueues == ASSUME Typed, NEW f \in Fetch, FetchStep(f) PROVE QueueStep
<1>1. CASE Serve(f)
  BY <1>1 DEF Serve, QueueStep, Queued, procVars, sessionVars, queueVars
<1>2. CASE Receive(f) \/ Missing(f)
  <2>1. {f} \in SUBSET Task
    BY DEF Task
  <2> QED
    BY <1>2, <2>1 DEF Receive, Missing, QueueStep, Queued, procVars, sessionVars
<1>3. CASE FetchDone(f) \/ FetchFails(f)
  <2>1. PICK label \in {"fetched", "idle"} : EndFetch(f, label) /\ UNCHANGED <<changes, queueVars>>
    BY <1>3 DEF FetchDone, FetchFails, sessionVars
  <2>2. \A q \in Proc : pc[q] = "boot" => pc'[q] = "boot"
    BY <2>1 DEF EndFetch, Leave, AwaitFetch
  <2> QED
    BY <2>1, <2>2 DEF QueueStep, Queued, queueVars
<1> QED
  BY <1>1, <1>2, <1>3 DEF FetchStep

LEMMA OtherQueues ==
    ASSUME Typed,
           \/ \E k \in Key : Expire(k)
           \/ \E e \in Entry : OutsideChange(e)
           \/ \E t \in Token : TokenReplaced(t)
           \/ FinishLoad \/ UNCHANGED vars
    PROVE  QueueStep
<1>1. CASE FinishLoad
  BY <1>1 DEF FinishLoad, Leave, AwaitLoad, QueueStep, Queued, sessionVars, queueVars
<1>2. CASE \E t \in Token : TokenReplaced(t)
  <2>1. PICK t \in Token : TokenReplaced(t)
    BY <1>2
  <2> DEFINE same == IF token = t THEN {} ELSE sameToken
  <2>2. Clear({}, same) /\ {} \in SUBSET Task /\ same \in SUBSET Task
    BY <2>1 DEF TokenReplaced, Typed, TypeOK
  <2> HIDE DEF same
  <2> QED
    BY <2>2 DEF Clear, QueueStep, Queued, Cleared
<1>3. CASE (\E k \in Key : Expire(k)) \/ (\E e \in Entry : OutsideChange(e)) \/ UNCHANGED vars
  BY <1>3 DEF Expire, OutsideChange, vars, procVars, sessionVars, queueVars, QueueStep, Queued
<1> QED
  BY <1>1, <1>2, <1>3

\* Every step is one of these, a write, a lock or a login.
LEMMA QueueCases ==
    ASSUME Typed, Unlocking, [Next]_vars
    PROVE  \/ Peaceful /\ QueueStep
           \/ BeginWrite \/ EndWrite
           \/ \E p \in Proc : SessionChange(p)
<1>1. CASE \E p \in Proc : ReadStep(p)
  BY <1>1, ReadStepPeaceful, ReadStepQueues
<1>2. CASE \E p \in Proc : MutationStep(p)
  BY <1>2, MutationStepPeaceful, MutationStepQueues DEF MutationLocks, SessionChange
<1>3. CASE \E p \in Proc : SessionStep(p)
  BY <1>3, StartPeaceful, StartQueues DEF SessionStep, SessionChange
<1>4. CASE \E p \in Proc : Start(p)
  BY <1>4, StartPeaceful, StartQueues DEF Start, Lock, FetchRejected, SessionChange
<1>5. CASE \E f \in Fetch : FetchStep(f)
  BY <1>5, FetchStepPeaceful, FetchStepQueues
<1> QED
  BY <1>1, <1>2, <1>3, <1>4, <1>5, OtherPeaceful, OtherQueues DEF Next

\* Without a stored token, and once what clears the cache has run, the writes
\* still queued will have emptied the cache in storage.
Swept == saved = None /\ NoSaving /\ Ready /\ changes = {} => Emptying(queue)

LEMMA QueuedEmptying ==
    ASSUME Typed, Queued, Emptying(queue) PROVE Emptying(queue)'
<1>1. queue \in Nat
  BY ParameterAssumption DEF Typed, TypeOK
<1> QED
  BY <1>1 DEF Queued, Persist, Emptying

LEMMA ClearedEmptying == ASSUME Typed, Cleared PROVE Emptying(queue)'
<1>1. queue' = queue + 1 /\ queue \in Nat /\ writing' = writing /\ stored' = stored
  BY ParameterAssumption DEF Cleared, Clear, Persist, Typed, TypeOK
<1>2. writing # <<>> => queue >= 1
  BY <1>1 DEF Typed, Grounded
<1> QED
  BY <1>1, <1>2 DEF Emptying

LEMMA SweptNext ==
    ASSUME ~Overlap, Typed, Unlocking, OneAtATime, Locked, Swept, [Next]_vars
    PROVE  Swept'
<1> SUFFICES ASSUME saved' = None, NoSaving', Ready', changes' = {}
             PROVE  Emptying(queue)'
  BY DEF Swept
<1>1. CASE Cleared
  BY <1>1, ClearedEmptying
<1>2. CASE Peaceful /\ QueueStep /\ ~Cleared
  <2>1. saved = None /\ NoSaving
    BY <1>2 DEF Peaceful, NoSaving, SessionLabels, SaveLabels
  <2>2. NoToken
    BY <2>1 DEF Locked
  <2>3. changes' = changes /\ \A q \in Proc : pc[q] = "boot" => pc'[q] = "boot"
    BY <1>2, <2>2 DEF QueueStep, NoToken
  <2>4. Ready /\ changes = {}
    BY <2>3 DEF Ready
  <2> QED
    BY <1>2, <2>1, <2>4, QueuedEmptying DEF Swept, QueueStep
<1>3. CASE BeginWrite \/ EndWrite
  <2>1. saved = None /\ NoSaving /\ Ready /\ changes = {}
    BY <1>3 DEF BeginWrite, EndWrite, procVars, sessionVars, NoSaving, Ready
  <2>2. Emptying(queue) /\ records = NoRecords
    BY <2>1 DEF Swept, Locked, NoToken, Typed, Grounded
  <2>3. CASE BeginWrite
    BY <2>2, <2>3 DEF BeginWrite, Emptying
  <2>4. CASE EndWrite
    <3>1. /\ stored' \in {writing[1], None} /\ writing' = <<>> /\ queue' = queue - 1 /\ writing # <<>>
      BY <2>4 DEF EndWrite
    <3>2. stored' # None => writing \notin {<<>>, <<None>>}
      BY <3>1 DEF Typed, TypeOK
    <3>3. queue \in Nat
      BY ParameterAssumption DEF Typed, TypeOK
    <3> QED
      BY <2>2, <3>1, <3>2, <3>3 DEF Emptying
  <2> QED
    BY <1>3, <2>3, <2>4
<1>4. CASE \E p \in Proc : SessionChange(p)
  <2>1. PICK p \in Proc : SessionChange(p)
    BY <1>4
  <2>2. {p} \in SUBSET Task /\ {} \in SUBSET Task
    BY DEF Task
  <2>3. CASE BeginLock(p) \/ LoginAnswered(p)
    BY <1>1, <2>2, <2>3 DEF BeginLock, LoginAnswered, Cleared
  <2>4. CASE RemoveToken(p)
    <3>1. saved = None /\ changes = {}
      BY <2>4 DEF RemoveToken, Announce
    <3>2. NoSaving /\ Ready /\ UNCHANGED queueVars
      BY <2>4 DEF RemoveToken, NoSaving, Ready, Goto, Typed, TypeOK, OneAtATime, SessionLabels,
         LockLabels, SaveLabels
    <3> QED
      BY <3>1, <3>2 DEF Swept, Emptying, queueVars
  <2>5. CASE EndLock(p)
    <3>1. saved = None /\ changes = {} /\ UNCHANGED queueVars
      BY <2>5 DEF EndLock
    <3>2. NoSaving /\ Ready
      BY <2>5 DEF EndLock, End, NoSaving, Ready, Goto, Typed, TypeOK
    <3> QED
      BY <3>1, <3>2 DEF Swept, Emptying, queueVars
  <2>6. CASE SaveStores(p)
    <3>1. saved' # None
      BY <2>6, NoneAssumption DEF SaveStores, Typed, Grounded
    <3> QED
      BY <3>1
  <2>7. CASE SaveSets(p)
    <3>1. saved' # None
      BY <2>7, NoneAssumption DEF SaveSets, OneAtATime, Typed, Grounded
    <3> QED
      BY <3>1
  <2>8. CASE Restart(p)
    <3>1. ~Ready'
      BY <2>8 DEF Restart, Ready
    <3> QED
      BY <3>1
  <2> QED
    BY <2>1, <2>3, <2>4, <2>5, <2>6, <2>7, <2>8 DEF SessionChange
<1> QED
  BY <1>1, <1>2, <1>3, <1>4, QueueCases

LEMMA SessionInit == Init => Unlocking /\ OneAtATime /\ Locked /\ Swept
<1> SUFFICES ASSUME Init PROVE Unlocking /\ OneAtATime /\ Locked /\ Swept
  OBVIOUS
<1>1. PICK p \in Proc : pc = [q \in Proc |-> IF q = p THEN "boot" ELSE "idle"]
  BY DEF Init
<1>2. /\ token = None /\ ~clearing /\ sameSession = {p}
      /\ seen = [q \in Proc |-> IF pc[q] = "boot" THEN saved ELSE None]
  BY <1>1 DEF Init
<1>3. Unlocking /\ OneAtATime
  BY <1>1, <1>2 DEF Unlocking, OneAtATime, SessionLabels, LockLabels, SaveLabels
<1>4. Locked /\ Swept
  BY <1>1, <1>2 DEF Locked, NoToken, Swept, Ready
<1> QED
  BY <1>3, <1>4

\* Where locks and logins do not overlap: whatever reads, requests, writes and
\* restarts do between the steps of a lock, once the stored token is gone and
\* what it set in motion has run, no cache of decrypted logins is left in
\* browser storage.
THEOREM LockLeavesNothing == ~Overlap => (Spec => []LockedLeavesNothing)
<1> SUFFICES ASSUME ~Overlap
             PROVE  Spec => []LockedLeavesNothing
  OBVIOUS
<1> DEFINE Inv == Typed /\ Unlocking /\ OneAtATime /\ Locked /\ Swept
<1>1. Init => Inv
  BY TypedInit, SessionInit
<1>2. Inv /\ [Next]_vars => Inv'
  BY TypedNext, SessionCases, OneAtATimeNext, LockedNext, SweptNext
<1>3. Inv => LockedLeavesNothing
  <2> SUFFICES ASSUME Inv, saved = None, ~Clearing PROVE stored = None
    BY DEF LockedLeavesNothing
  <2>1. queue = 0 /\ changes = {} /\ Ready /\ NoSaving
    BY ParameterAssumption DEF Clearing, NoSaving, Typed, TypeOK
  <2> QED
    BY <2>1 DEF Swept, Emptying
<1> QED
  BY <1>1, <1>2, <1>3, PTL DEF Spec

(***************************************************************************)
(* A lock is final: from the moment it begins, no token it ends is the     *)
(* extension's again, and no record made with one is found in the cache,   *)
(* restored from storage or left there once the lock has cleared it.       *)
(***************************************************************************)
JobsKept == \A f \in Fetch : job'[f] # None => job[f] # None /\ job'[f].token = job[f].token

Requesting == UNCHANGED token /\ \E p \in Proc, k \in Key : ContextAndRequest(p, k)

LEMMA JobCases == ASSUME Typed, [Next]_vars PROVE JobsKept \/ Requesting
<1>1. CASE Keeps
  BY <1>1 DEF Keeps, JobsKept
<1>2. CASE UNCHANGED job
  BY <1>2 DEF JobsKept
<1>3. CASE \E p \in Proc : ReadStep(p)
  <2>1. PICK p \in Proc : ReadStep(p)
    BY <1>3
  <2>2. CASE StartLoad(p)
    BY <1>2, <2>2 DEF StartLoad
  <2>3. CASE ReadMisses(p)
    BY <1>2, <2>3 DEF ReadMisses, Reads, Requesting, sessionVars
  <2>4. CASE ReadHits(p)
    BY <1>2, <2>4 DEF ReadHits, Reads, Requesting, sessionVars
  <2> QED
    BY <1>1, <2>1, <2>2, <2>3, <2>4, ReadStepKeeps
<1>4. CASE \E p \in Proc : Start(p)
  <2>1. PICK p \in Proc : Start(p)
    BY <1>4
  <2>2. CASE Restart(p)
    BY <2>2 DEF Restart, JobsKept
  <2> QED
    BY <1>1, <2>1, <2>2, StartKeeps
<1>5. CASE \E p \in Proc : MutationStep(p)
  <2>1. PICK p \in Proc : MutationStep(p)
    BY <1>5
  <2>2. CASE MutationApplied(p)
    BY <1>2, <2>2 DEF MutationApplied, OnlyGoto, cacheVars
  <2> QED
    BY <1>1, <2>1, <2>2, MutationStepKeeps
<1>6. CASE \E f \in Fetch : FetchStep(f)
  <2>1. PICK f \in Fetch : FetchStep(f)
    BY <1>6
  <2>2. CASE Serve(f) \/ Receive(f) \/ Missing(f)
    <3>1. job \in [Fetch -> Requested \cup {None}] /\ job[f] \in Requested
      BY <2>2 DEF Serve, Receive, Missing, In, Typed, TypeOK
    <3>2. job[f] = [key |-> job[f].key, phase |-> job[f].phase, token |-> job[f].token, data |-> job[f].data]
      BY <3>1, RequestFields
    <3>3. ASSUME NEW ph, NEW d, job' = [job EXCEPT ![f].phase = ph, ![f].data = d]
          PROVE  JobsKept
      <4>1. job' = [job EXCEPT ![f] = [[job[f] EXCEPT !.phase = ph] EXCEPT !.data = d]]
        BY <3>1, <3>3, TwoFields
      <4>2. [[job[f] EXCEPT !.phase = ph] EXCEPT !.data = d].token = job[f].token
        BY <3>2
      <4> QED
        BY <2>2, <3>1, <4>1, <4>2 DEF Serve, Receive, Missing, In, JobsKept
    <3>4. CASE Missing(f)
      <4>1. job' = [job EXCEPT ![f] = [job[f] EXCEPT !.phase = "removing"]] /\ job[f] # None
        BY <3>1, <3>4 DEF Missing, In
      <4>2. [job[f] EXCEPT !.phase = "removing"].token = job[f].token
        BY <3>2
      <4> QED
        BY <3>1, <4>1, <4>2 DEF JobsKept
    <3> QED
      BY <2>2, <3>3, <3>4 DEF Serve, Receive
  <2> QED
    BY <1>1, <2>1, <2>2, EndFetchKeeps DEF FetchStep
<1>7. CASE \/ \E k \in Key : Expire(k)
           \/ \E t \in Token : TokenReplaced(t)
  BY <1>1, <1>7, ExpireKeeps, TokenReplacedKeeps
<1>8. CASE \/ \E e \in Entry : OutsideChange(e)
           \/ FinishLoad \/ BeginWrite \/ EndWrite \/ UNCHANGED vars
  BY <1>2, <1>8 DEF OutsideChange, FinishLoad, BeginWrite, EndWrite, vars, cacheVars
<1>9. CASE \E p \in Proc : SessionStep(p)
  BY <1>1, <1>9, SessionStepKeeps
<1> QED
  BY <1>3, <1>4, <1>5, <1>6, <1>7, <1>8, <1>9 DEF Next

LEMMA RequestsNext ==
    ASSUME Typed, Unlocking, Requests, [Next]_vars PROVE Requests'
<1>1. CASE Requesting
  <2>1. PICK p \in Proc, k \in Key, f \in Fetch :
           /\ job' = [job EXCEPT ![f] = [key |-> k, phase |-> "sent", token |-> token, data |-> None]]
           /\ sameToken' = sameToken \cup {p, f}
    BY <1>1 DEF Requesting, ContextAndRequest
  <2>2. job'[f].token = token /\ \A g \in Fetch \ {f} : job'[g] = job[g]
    BY <2>1 DEF Typed, TypeOK
  <2> QED
    BY <1>1, <2>1, <2>2, TaskAssumption DEF Requesting, Requests
<1>2. CASE JobsKept /\ ~Requesting
  <2>1. CASE \/ token' = token /\ sameToken' \cap Fetch \subseteq sameToken
             \/ sameToken' \cap Fetch = {}
    BY <1>2, <2>1 DEF JobsKept, Requests
  <2>2. CASE Peaceful
    BY <1>2, <2>1, <2>2 DEF Peaceful, Requesting
  <2>3. CASE \E p \in Proc : SessionChange(p)
    <3>1. PICK p \in Proc : SessionChange(p)
      BY <2>3
    <3>2. CASE BeginLock(p) \/ LoginAnswered(p) \/ Restart(p)
      BY <2>1, <3>2 DEF BeginLock, LoginAnswered, Restart, Clear
    <3>3. CASE RemoveToken(p) \/ EndLock(p) \/ SaveStores(p)
      BY <2>1, <3>3 DEF RemoveToken, EndLock, SaveStores, End, sameVars
    <3>4. CASE SaveSets(p)
      BY <2>1, <3>4 DEF SaveSets, SetToken
    <3> QED
      BY <3>1, <3>2, <3>3, <3>4 DEF SessionChange
  <2> QED
    BY <2>2, <2>3, SessionCases
<1> QED
  BY <1>1, <1>2, JobCases

\* Every token was handed out by the server before.
Known ==
    /\ locked \subseteq issued
    /\ saved \in issued \cup {None}
    /\ \A p \in Proc : seen[p] \in issued \cup {None}

\* No token that a lock has ended is used again.
Ended ==
    /\ token \notin locked
    /\ \A p \in sameSession : seen[p] \notin locked
    /\ (~clearing => saved \notin locked)
    /\ \A p \in Proc : pc[p] \in SaveLabels => seen[p] \notin locked

LEMMA EndedNext ==
    ASSUME ~Overlap, Typed, Unlocking, OneAtATime, Known, Ended, [Next]_vars
    PROVE  Known' /\ Ended'
<1>0. None \notin locked /\ \A p \in Proc : pc[p] \in SaveLabels => pc[p] \in SessionLabels
  BY NoneAssumption DEF Typed, TypeOK, SessionLabels
<1>1. CASE Peaceful
  <2>1. Known'
    BY <1>1 DEF Peaceful, Known
  <2>2. token' \notin locked' /\ (~clearing' => saved' \notin locked')
    BY <1>0, <1>1 DEF Peaceful, Ended
  <2>3. \A p \in sameSession' : seen'[p] \notin locked'
    BY <1>0, <1>1 DEF Peaceful, Ended
  <2>4. \A p \in Proc : pc'[p] \in SaveLabels => seen'[p] \notin locked'
    BY <1>1 DEF Peaceful, Ended, SessionLabels
  <2> QED
    BY <2>1, <2>2, <2>3, <2>4 DEF Ended
<1>2. CASE \E p \in Proc : SessionChange(p)
  <2>1. PICK p \in Proc : SessionChange(p)
    BY <1>2
  <2>2. MayOverlap => \A q \in Proc : pc[q] \notin SessionLabels
    BY DEF MayOverlap, Saving, SessionLabels, LockLabels, SaveLabels
  <2> USE <1>0 DEF Goto, Typed, TypeOK
  <2>3. CASE BeginLock(p)
    <3>1. /\ token' = None /\ sameSession' = {} /\ clearing' = TRUE /\ UNCHANGED <<saved, issued>>
          /\ seen' = [seen EXCEPT ![p] = None] /\ pc' = [pc EXCEPT ![p] = "lock"]
          /\ \A q \in Proc : pc[q] \notin SessionLabels
      BY <2>2, <2>3 DEF BeginLock, Forget
    <3>2. locked' = (locked \cup {saved}) \ {None}
      BY <2>3, <3>1 DEF BeginLock, Saving, SessionLabels, LockLabels, SaveLabels
    <3> QED
      BY <3>1, <3>2 DEF Known, Ended, SessionLabels, LockLabels, SaveLabels
  <2>4. CASE LoginAnswered(p)
    <3>1. PICK t \in Token \ issued :
             issued' = issued \cup {t} /\ token' = t /\ seen' = [seen EXCEPT ![p] = t]
      BY <2>4 DEF LoginAnswered
    <3>2. t \notin locked /\ UNCHANGED <<locked, saved, clearing, sameSession>>
          /\ pc' = [pc EXCEPT ![p] = "saving"]
      BY <2>4, <3>1 DEF LoginAnswered, Known
    <3> QED
      BY <3>1, <3>2 DEF Known, Ended
  <2>5. CASE RemoveToken(p)
    BY <2>5 DEF RemoveToken, Known, Ended, sameVars, SaveLabels
  <2>6. CASE EndLock(p)
    BY <2>6 DEF EndLock, End, Forget, OneAtATime, Known, Ended, SaveLabels
  <2>7. CASE SaveStores(p)
    BY <2>7 DEF SaveStores, Known, Ended, sameVars, SaveLabels
  <2>8. CASE SaveSets(p)
    BY <2>8 DEF SaveSets, SetToken, Forget, Known, Ended, SaveLabels
  <2>9. CASE Restart(p)
    BY <2>9 DEF Restart, Known, Ended, SaveLabels
  <2> QED
    BY <2>1, <2>3, <2>4, <2>5, <2>6, <2>7, <2>8, <2>9 DEF SessionChange
<1> QED
  BY <1>1, <1>2, SessionCases

\* No record of the cache was made with a token that a lock has ended.
RecordsFinal == \A k \in Key : records[k] # None => records[k].token \notin locked

\* A cache in storage, or on its way there, holds a record made with one of ts.
Holds(cache, ts) ==
    cache # None /\ \E k \in Key : cache.records[k] # None /\ cache.records[k].token \in ts

Kept(ts) == Holds(stored, ts) \/ (writing # <<>> /\ Holds(writing[1], ts))

\* Storage keeps such a record only of the token that is still stored, and only
\* until the write that the lock awaits.
StorageFinal ==
    /\ ~Kept(locked \ {saved})
    /\ \A p \in Proc : pc[p] = "lock" =>
          /\ (Holds(stored, locked) => behind[p] >= 1)
          /\ (writing # <<>> /\ Holds(writing[1], locked) => behind[p] >= 2)
    /\ ((\A p \in Proc : pc[p] # "lock") => ~Kept(locked))

LEMMA RecordsCases ==
    ASSUME Typed, [Next]_vars
    PROVE  \/ \A k \in Key : records'[k] \in {records[k], None}
           \/ \E f \in Fetch : Receive(f)
           \/ FinishLoad
<1>1. CASE Keeps
  BY <1>1 DEF Keeps
<1>2. CASE UNCHANGED records
  BY <1>2
<1>3. CASE \E p \in Proc : ReadStep(p)
  BY <1>1, <1>2, <1>3, ReadStepKeeps DEF StartLoad, ReadMisses, ReadHits
<1>4. CASE \E p \in Proc : Start(p)
  <2>1. PICK p \in Proc : Start(p)
    BY <1>4
  <2>2. CASE Restart(p)
    BY <2>2 DEF Restart, NoRecords
  <2> QED
    BY <1>1, <2>1, <2>2, StartKeeps
<1>5. CASE \E p \in Proc : MutationStep(p)
  BY <1>1, <1>2, <1>5, MutationStepKeeps DEF MutationApplied, OnlyGoto, cacheVars
<1>6. CASE \E f \in Fetch : FetchStep(f)
  <2>1. PICK f \in Fetch : FetchStep(f)
    BY <1>6
  <2>2. CASE Missing(f)
    BY <2>2 DEF Missing
  <2> QED
    BY <1>1, <1>2, <2>1, <2>2, EndFetchKeeps DEF FetchStep, Serve
<1>7. CASE \/ \E k \in Key : Expire(k)
           \/ \E t \in Token : TokenReplaced(t)
  BY <1>1, <1>7, ExpireKeeps, TokenReplacedKeeps
<1>8. CASE \/ \E e \in Entry : OutsideChange(e)
           \/ BeginWrite \/ EndWrite \/ UNCHANGED vars
  BY <1>2, <1>8 DEF OutsideChange, BeginWrite, EndWrite, vars, cacheVars
<1>9. CASE \E p \in Proc : SessionStep(p)
  BY <1>1, <1>9, SessionStepKeeps
<1> QED
  BY <1>3, <1>4, <1>5, <1>6, <1>7, <1>8, <1>9 DEF Next

LEMMA RecordsFinalNext ==
    ASSUME Typed, Unlocking, OneAtATime, Locked, Requests, Ended, StorageFinal, RecordsFinal, [Next]_vars
    PROVE  RecordsFinal'
<1>1. CASE \A k \in Key : records'[k] \in {records[k], None}
  <2>1. CASE locked' \subseteq locked
    BY <1>1, <2>1 DEF RecordsFinal
  <2>2. CASE \E p \in Proc : BeginLock(p)
    BY <2>2 DEF BeginLock, Clear, NoRecords, RecordsFinal
  <2>3. CASE Peaceful
    BY <2>1, <2>3 DEF Peaceful
  <2>4. CASE \E p \in Proc : SessionChange(p)
    BY <2>1, <2>2, <2>4 DEF SessionChange, RemoveToken, EndLock, LoginAnswered, SaveStores, SaveSets, Restart
  <2> QED
    BY <2>3, <2>4, SessionCases
<1>2. CASE \E f \in Fetch : Receive(f)
  <2>1. PICK f \in Fetch : Receive(f)
    BY <1>2
  <2> DEFINE answer == [data |-> job[f].data, token |-> job[f].token]
  <2>2. /\ records' = Answered(job[f].key, answer) /\ locked' = locked
        /\ job[f] # None /\ f \in sameToken
    BY <2>1 DEF Receive, In, Current, SameSession, sessionVars
  <2>3. answer.token \notin locked
    BY <2>2 DEF Requests, Ended
  <2>4. \A k \in Key : records'[k] \in {answer, None, records[k]}
    BY <2>2 DEF Answered
  <2> HIDE DEF answer
  <2> QED
    BY <2>2, <2>3, <2>4 DEF RecordsFinal
<1>3. CASE FinishLoad
  <2>1. locked' = locked
    BY <1>3 DEF FinishLoad, sessionVars
  <2>2. CASE records' = records
    BY <2>1, <2>2 DEF RecordsFinal
  <2>3. CASE Loader \in sameToken /\ stored # None /\ records' = stored.records
    <3>1. token # None
      BY <2>3 DEF Typed, Grounded
    <3>2. \A p \in Proc : pc[p] # "lock"
      BY <3>1 DEF OneAtATime, Locked, NoToken, LockLabels
    <3>3. ~Holds(stored, locked)
      BY <3>2 DEF StorageFinal, Kept
    <3> QED
      BY <2>1, <2>3, <3>3 DEF Holds, RecordsFinal
  <2> QED
    BY <1>3, <2>2, <2>3 DEF FinishLoad
<1> QED
  BY <1>1, <1>2, <1>3, RecordsCases

LEMMA StorageFinalNext ==
    ASSUME ~Overlap, Typed, Unlocking, OneAtATime, Ended, RecordsFinal, StorageFinal, [Next]_vars
    PROVE  StorageFinal'
<1>0. /\ None \notin locked /\ queue \in Nat /\ \A p \in Proc : behind[p] \in Nat
      /\ \A p \in Proc : p \in Task
  BY ParameterAssumption, NoneAssumption DEF Typed, TypeOK, Task
<1>1. ASSUME UNCHANGED <<writing, stored>>
      PROVE  \A ts : Kept(ts)' = Kept(ts) /\ Holds(stored, ts)' = Holds(stored, ts)
                     /\ Holds(writing[1], ts)' = Holds(writing[1], ts)
  BY <1>1 DEF Kept, Holds
<1>2. CASE Peaceful /\ QueueStep
  <2>1. /\ locked' = locked /\ saved' = saved /\ UNCHANGED <<writing, stored>>
        /\ \A p \in Proc : pc'[p] = "lock" <=> pc[p] = "lock"
    BY <1>2 DEF Peaceful, QueueStep, Queued, Persist, SessionLabels, LockLabels
  <2>2. ~Kept(locked \ {saved})' /\ ((\A p \in Proc : pc'[p] # "lock") => ~Kept(locked)')
    BY <2>1 DEF StorageFinal, Kept, Holds
  <2>3. ASSUME NEW p \in Proc, pc'[p] = "lock"
        PROVE  /\ (Holds(stored, locked)' => behind'[p] >= 1)
               /\ (writing' # <<>> /\ Holds(writing[1], locked)' => behind'[p] >= 2)
    <3>1. behind'[p] = behind[p] \/ (behind'[p] = queue + 1 /\ (writing # <<>> => queue >= 1))
      BY <1>0, <1>2 DEF QueueStep, Queued, Persist, Typed, Grounded
    <3>2. /\ (Holds(stored, locked) => behind[p] >= 1)
          /\ (writing # <<>> /\ Holds(writing[1], locked) => behind[p] >= 2)
      BY <2>1, <2>3 DEF StorageFinal
    <3> QED
      BY <1>0, <2>1, <3>1, <3>2 DEF Holds
  <2> QED
    BY <2>2, <2>3 DEF StorageFinal
<1>3. CASE BeginWrite
  <2>1. UNCHANGED <<locked, saved, pc, stored, behind>>
    BY <1>3 DEF BeginWrite, procVars, sessionVars
  <2>2. \A ts \in SUBSET locked : ~Holds(writing[1], ts)' /\ writing = <<>>
    BY <1>3 DEF BeginWrite, RecordsFinal, Holds
  <2> QED
    BY <2>1, <2>2 DEF StorageFinal, Kept, Holds
<1>4. CASE EndWrite
  <2>1. /\ UNCHANGED <<locked, saved, pc>> /\ writing' = <<>> /\ stored' \in {writing[1], None} /\ writing # <<>>
        /\ \A p \in Proc : behind'[p] = (IF behind[p] > 0 THEN behind[p] - 1 ELSE 0)
    BY <1>0, <1>4 DEF EndWrite, procVars, sessionVars
  <2>2. \A ts : Holds(stored, ts)' => Holds(writing[1], ts)
    BY <2>1 DEF Holds
  <2>3. ~Kept(locked \ {saved})' /\ ((\A p \in Proc : pc'[p] # "lock") => ~Kept(locked)')
    BY <2>1 DEF StorageFinal, Kept, Holds
  <2>4. ASSUME NEW p \in Proc, pc'[p] = "lock", Holds(stored, locked)'
        PROVE  behind'[p] >= 1
    <3>1. Holds(writing[1], locked)
      BY <2>1, <2>4 DEF Holds
    <3>2. behind[p] >= 2
      BY <2>1, <2>4, <3>1 DEF StorageFinal
    <3> QED
      BY <1>0, <2>1, <3>2
  <2> QED
    BY <2>1, <2>3, <2>4 DEF StorageFinal
<1>5. CASE \E p \in Proc : SessionChange(p)
  <2>1. PICK p \in Proc : SessionChange(p)
    BY <1>5
  <2>2. MayOverlap => \A q \in Proc : pc[q] \notin SessionLabels
    BY DEF MayOverlap, Saving, SessionLabels, LockLabels, SaveLabels
  <2> USE DEF Goto, Typed, TypeOK
  <2>3. CASE BeginLock(p)
    <3>1. /\ pc' = [pc EXCEPT ![p] = "lock"] /\ saved' = saved /\ UNCHANGED <<writing, stored>>
          /\ behind'[p] = queue + 1 /\ \A q \in Proc : pc[q] \notin SessionLabels
      BY <1>0, <2>2, <2>3 DEF BeginLock, Clear, Persist
    <3>2. locked' \ {saved'} \subseteq locked \ {saved}
      BY <2>3, <3>1 DEF BeginLock, Saving, SessionLabels, LockLabels, SaveLabels
    <3>3. ~Kept(locked \ {saved})'
      BY <3>1, <3>2 DEF StorageFinal, Kept, Holds
    <3>4. \A q \in Proc : pc'[q] = "lock" <=> q = p
      BY <3>1 DEF SessionLabels, LockLabels
    <3>5. writing # <<>> => queue >= 1
      BY <1>0 DEF Grounded
    <3> QED
      BY <1>0, <3>1, <3>3, <3>4, <3>5 DEF StorageFinal
  <2>4. CASE LoginAnswered(p)
    <3>1. /\ UNCHANGED <<locked, saved, writing, stored>> /\ \A q \in Proc : pc'[q] # "lock"
          /\ \A q \in Proc : pc[q] # "lock"
      BY <2>2, <2>4 DEF LoginAnswered, Clear, Persist, SessionLabels, LockLabels
    <3> QED
      BY <3>1 DEF StorageFinal, Kept, Holds
  <2>5. CASE RemoveToken(p)
    <3>1. /\ saved' = None /\ UNCHANGED <<locked, writing, stored>> /\ behind[p] = 0 /\ pc[p] = "lock"
      BY <2>5 DEF RemoveToken, queueVars
    <3>2. ~Kept(locked)
      BY <3>1 DEF StorageFinal, Kept
    <3>3. \A q \in Proc : pc'[q] # "lock"
      BY <2>5 DEF RemoveToken, OneAtATime, SessionLabels, LockLabels
    <3> QED
      BY <1>0, <3>1, <3>2, <3>3 DEF StorageFinal, Kept, Holds
  <2>6. CASE EndLock(p) \/ SaveSets(p)
    <3>1. /\ UNCHANGED <<locked, saved, writing, stored, behind>>
          /\ \A q \in Proc : pc'[q] = "lock" <=> pc[q] = "lock"
      BY <2>6 DEF EndLock, SaveSets, End, queueVars
    <3> QED
      BY <3>1 DEF StorageFinal, Kept, Holds
  <2>7. CASE SaveStores(p)
    <3>1. /\ UNCHANGED <<locked, writing, stored>> /\ \A q \in Proc : pc[q] # "lock" /\ pc'[q] # "lock"
      BY <2>7 DEF SaveStores, queueVars, OneAtATime, SessionLabels, LockLabels, SaveLabels
    <3>2. ~Kept(locked)
      BY <3>1 DEF StorageFinal
    <3> QED
      BY <3>1, <3>2 DEF StorageFinal, Kept, Holds
  <2>8. CASE Restart(p)
    <3>1. /\ locked' = locked \ {saved} /\ saved' = saved /\ writing' = <<>> /\ stored' = stored
          /\ \A q \in Proc : pc'[q] # "lock"
      BY <2>8 DEF Restart
    <3> QED
      BY <3>1 DEF StorageFinal, Kept, Holds
  <2> QED
    BY <2>1, <2>3, <2>4, <2>5, <2>6, <2>7, <2>8 DEF SessionChange
<1> QED
  BY <1>2, <1>3, <1>4, <1>5, QueueCases

LEMMA FinalInit == Init => Keyed /\ Requests /\ Known /\ Ended /\ RecordsFinal /\ StorageFinal
<1> SUFFICES ASSUME Init PROVE Keyed /\ Requests /\ Known /\ Ended /\ RecordsFinal /\ StorageFinal
  OBVIOUS
<1>1. PICK p \in Proc : pc = [q \in Proc |-> IF q = p THEN "boot" ELSE "idle"]
  BY DEF Init
<1>2. /\ locked = {} /\ issued = {saved} \ {None} /\ stored = None /\ writing = <<>> /\ sameToken = {}
      /\ seen = [q \in Proc |-> IF pc[q] = "boot" THEN saved ELSE None]
  BY DEF Init
<1>3. Keyed /\ Requests /\ Known
  BY <1>1, <1>2 DEF Keyed, Requests, Known
<1>4. Ended /\ RecordsFinal /\ StorageFinal
  BY <1>1, <1>2 DEF Ended, RecordsFinal, StorageFinal, Kept, Holds
<1> QED
  BY <1>3, <1>4

\* Where locks and logins do not overlap: whenever a lock begins, among reads,
\* requests and restorations under way, no read returns after it what was fetched
\* with a token that it ends.
THEOREM LocksAreFinal == ~Overlap => (Spec => LockIsFinal)
<1> SUFFICES ASSUME ~Overlap
             PROVE  Spec => LockIsFinal
  OBVIOUS
<1> DEFINE Inv ==
      /\ Typed /\ Unlocking /\ OneAtATime /\ Locked
      /\ Keyed /\ Requests /\ Known /\ Ended /\ RecordsFinal /\ StorageFinal
    ReturnsLive == \A p \in Proc : ReadReturns(p) => token # None /\ records[key[p]].token \notin locked
<1>1. Init => Inv
  BY TypedInit, SessionInit, FinalInit
<1>2. Inv /\ [Next]_vars => Inv'
  BY TypedNext, SessionCases, OneAtATimeNext, LockedNext, KeyedNext, RequestsNext, EndedNext,
     RecordsFinalNext, StorageFinalNext
<1>3. Inv => ReturnsLive
  BY DEF ReadReturns, MayReturn, Current, SameSession, Keyed, RecordsFinal
<1>4. Inv /\ [Next]_vars => [ReturnsLive]_vars
  BY <1>3
<1> QED
  BY <1>1, <1>2, <1>4, PTL DEF Spec, LockIsFinal

=============================================================================
