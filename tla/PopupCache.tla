----------------------------- MODULE PopupCache -----------------------------
(***************************************************************************)
(* The popup's cache of decrypted logins in the extension's service worker *)
(* (extension/background/popup-cache.js), with the part of the session     *)
(* manager and of the API client it depends on: the token, its generations *)
(* and its copy in browser storage (session.js, api.js).                   *)
(*                                                                         *)
(* JavaScript runs one task at a time, so an action is a stretch of code   *)
(* between two awaits.  A process is a message or an alarm being handled;  *)
(* what it awaits, its label says.                                         *)
(*                                                                         *)
(* The code compares counters (tokenGeneration, generation and             *)
(* _tokenGeneration) with the values it read earlier.  They only grow, so  *)
(* all that matters is who has read the present value: sameToken,          *)
(* sameCache and sameSession are those tasks.  While the tokenGeneration   *)
(* is the same, so is the token.                                           *)
(*                                                                         *)
(* Time is left out: a record may expire, and be evicted as the twenty     *)
(* first detail, whenever it is there (Expire), and a read may find it old *)
(* enough to be refreshed.  The address of the server never changes, the   *)
(* offline flag is only displayed, and removing a key from browser storage *)
(* does not fail.                                                          *)
(***************************************************************************)
EXTENDS Naturals, FiniteSets

CONSTANTS
    Proc,        \* messages and alarms being handled
    Token,       \* session tokens the server hands out
    Entry,       \* ids of logins
    Fetch,       \* requests of the popup cache under way; bound: their number
    Loader,      \* the task that restores the cache from browser storage
    None,
    Kinds,       \* what the processes may do
    Overlap,     \* locks and logins may begin before earlier ones have ended
    MaxVersion,  \* bound: changes of one login
    MaxQueue     \* bound: writes to browser storage that wait

Key == Entry \cup {"list"}
Task == Proc \cup Fetch \cup {Loader}
Version == 1 .. MaxVersion + 1
Gone == MaxVersion + 1              \* the version of a deleted login

\* What an answer or a record holds: the list, every login with its
\* updated_at; a detail, one login.
Data(k) == IF k = "list" THEN [Entry -> Version] ELSE [{k} -> Version]
Record == UNION {[data : Data(k), token : Token] : k \in Key}

ReadLabels == {"start", "unlock", "open", "clearing", "loading", "loaded", "fetching",
               "fetched", "recheck", "return"}
MutateLabels == {"queued", "clear", "prepare", "sent", "applied", "settle", "rejected"}
LoginLabels == {"login", "saving", "saved"}
Labels == {"idle", "boot", "lock", "removed"} \cup ReadLabels \cup MutateLabels \cup LoginLabels

AllKinds == {"read", "mutate", "expire", "lock", "login", "restart", "outside"}

ASSUME ParameterAssumption ==
    /\ MaxVersion \in Nat \ {0}
    /\ MaxQueue \in Nat \ {0}
    /\ Kinds \subseteq AllKinds
    /\ Overlap \in BOOLEAN

ASSUME NoneAssumption ==
    /\ None \notin Token
    /\ None \notin Proc \cup Fetch

ASSUME TaskAssumption ==
    /\ Proc \cap Fetch = {}
    /\ Loader \notin Proc \cup Fetch
    /\ "list" \notin Entry

VARIABLES
    pc, key,       \* label and key of each process
    seen,          \* the token it has read from storage, or got from the server
    waits,         \* the mutation it awaits
    sameToken,     \* tasks that read the present api.tokenGeneration
    sameCache,     \* tasks that read the present generation
    sameSession,   \* processes that read the present _tokenGeneration
    token,         \* api.token
    clearing,      \* _clearingToken
    saved,         \* the token in browser storage
    changes,       \* tokens whose replacement in storage is still to be announced
    issued,        \* tokens the server has handed out
    locked,        \* history: tokens stored, or about to be, when a lock began
    records,       \* this.records
    pending,       \* this.pending: the request that reads of a key await
    job,           \* what each request fetches, awaited or not
    loaded,        \* this.loaded
    owner,         \* this.owner
    mutation,      \* this.mutation
    queue,         \* length of storageQueue, the write being done included
    behind,        \* how much of storageQueue a task still awaits
    writing,       \* what the write being done puts into browser storage
    stored,        \* the cache in browser storage
    vault,         \* the logins at the server
    own            \* the last version of each login made by this extension

procVars == <<pc, key, seen, waits>>
sessionVars == <<token, clearing, saved, changes, issued, locked>>
cacheVars == <<records, pending, job, loaded, owner>>
queueVars == <<queue, behind, writing, stored>>
serverVars == <<vault, own>>
sameVars == <<sameToken, sameCache, sameSession>>
vars == <<procVars, sameVars, sessionVars, cacheVars, mutation, queueVars, serverVars>>

NoRecords == [k \in Key |-> None]
NoPending == [k \in Key |-> None]

Ready == \A p \in Proc : pc[p] # "boot"

(***************************************************************************)
(* Steps of a process                                                      *)
(***************************************************************************)
Goto(p, label) == pc' = [pc EXCEPT ![p] = label]

Forget(p) ==
    /\ key' = [key EXCEPT ![p] = None]
    /\ seen' = [seen EXCEPT ![p] = None]

\* The handler answers: nothing of what it read is used again.
End(p) ==
    /\ Goto(p, "idle") /\ Forget(p)
    /\ sameToken' = sameToken \ {p}
    /\ sameCache' = sameCache \ {p}
    /\ sameSession' = sameSession \ {p}

(***************************************************************************)
(* The token                                                               *)
(***************************************************************************)
\* setToken: the generation moves when the token does.
SetToken(t) ==
    /\ token' = t
    /\ sameToken' = IF token = t THEN sameToken ELSE {}

\* loadToken up to its reads of browser storage.
BeginUnlock(p) ==
    /\ seen' = [seen EXCEPT ![p] = IF clearing THEN None ELSE saved]
    /\ sameSession' = sameSession \cup {p}

\* The rest of it: the token found counts unless a lock came in between.
\* Mutant: the generation is not compared.
UnlockedAnyway(p) == ~clearing /\ seen[p] # None

Unlocked(p) == ~clearing /\ p \in sameSession /\ seen[p] # None

EndUnlock(p) ==
    /\ Unlocked(p)
    /\ SetToken(seen[p])
    /\ seen' = [seen EXCEPT ![p] = None]
    /\ sameSession' = sameSession \ {p}

\* Mutant: the listener does not ask whether there was a token.
AnnounceNone(old, new) ==
    IF old # new THEN changes \cup {old} ELSE changes

\* The listener on browser storage will hear of a token replaced or removed.
Announce(old, new) ==
    IF old \notin {None, new} THEN changes \cup {old} ELSE changes

\* assertSession and assertCurrent.
SameSession(p) == token # None /\ p \in sameToken

\* Mutant: the generation of the cache is not compared.
CurrentSession(p) == SameSession(p)

Current(p) == SameSession(p) /\ p \in sameCache

(***************************************************************************)
(* The queue of writes                                                     *)
(***************************************************************************)
\* persist: one more write, which the tasks ts await.
Persist(ts) ==
    /\ queue < MaxQueue
    /\ queue' = queue + 1
    /\ behind' = [t \in Task |-> IF t \in ts THEN queue + 1 ELSE behind[t]]
    /\ UNCHANGED <<writing, stored>>

\* clear: nothing read before counts any more.  A request goes on, and will
\* find that it is not current; a load is dropped.  Storage follows with the
\* write it queues, which ts await.  The token is still that of the tasks in
\* same.
Clear(ts, same) ==
    /\ sameCache' = {}
    /\ sameToken' = same \ {Loader}
    /\ records' = NoRecords
    /\ pending' = NoPending
    /\ loaded' = "none"
    /\ owner' = <<>>
    /\ Persist(ts)
    /\ UNCHANGED job

BeginWrite ==
    /\ queue > 0
    /\ writing = <<>>
    /\ writing' = IF records # NoRecords /\ owner = <<token>>
                  THEN <<[owner |-> token, records |-> records]>>
                  ELSE <<None>>
    /\ UNCHANGED <<procVars, sameVars, sessionVars, cacheVars, mutation, queue, behind,
                   stored, serverVars>>

\* Mutant: a write that fails leaves what was there.
EndWriteKeeps ==
    /\ writing # <<>>
    /\ stored' \in {writing[1], stored}
    /\ writing' = <<>>
    /\ queue' = queue - 1
    /\ behind' = [t \in Task |-> IF behind[t] > 0 THEN behind[t] - 1 ELSE 0]
    /\ UNCHANGED <<procVars, sameVars, sessionVars, cacheVars, mutation, serverVars>>

\* A write that fails removes the cache from storage.
EndWrite ==
    /\ writing # <<>>
    /\ stored' \in {writing[1], None}
    /\ writing' = <<>>
    /\ queue' = queue - 1
    /\ behind' = [t \in Task |-> IF behind[t] > 0 THEN behind[t] - 1 ELSE 0]
    /\ UNCHANGED <<procVars, sameVars, sessionVars, cacheVars, mutation, serverVars>>

(***************************************************************************)
(* read, and the expiry alarm's handler, until the cache is loaded         *)
(***************************************************************************)
\* A read waits for the mutation it finds, then asks whether the vault is open.
StartRead(p, k) ==
    /\ Ready /\ pc[p] = "idle"
    /\ key' = [key EXCEPT ![p] = k]
    /\ IF mutation # None
       THEN /\ Goto(p, "start")
            /\ waits' = [waits EXCEPT ![p] = mutation]
            /\ UNCHANGED <<seen, sameSession>>
       ELSE Goto(p, "unlock") /\ BeginUnlock(p) /\ UNCHANGED waits
    /\ UNCHANGED <<sameToken, sameCache, sessionVars, cacheVars, mutation,
                   queueVars, serverVars>>

ReadWaited(p) ==
    /\ pc[p] = "start" /\ waits[p] = None
    /\ Goto(p, "unlock") /\ BeginUnlock(p)
    /\ UNCHANGED <<key, waits, sameToken, sameCache, sessionVars, cacheVars, mutation,
                   queueVars, serverVars>>

\* expire, from its alarm: its key is no key of the cache.
StartExpire(p) ==
    /\ Ready /\ pc[p] = "idle"
    /\ key' = [key EXCEPT ![p] = "alarm"]
    /\ Goto(p, "unlock") /\ BeginUnlock(p)
    /\ UNCHANGED <<waits, sameToken, sameCache, sessionVars, cacheVars, mutation,
                   queueVars, serverVars>>

IsUnlocked(p) ==
    /\ pc[p] = "unlock"
    /\ EndUnlock(p)
    /\ Goto(p, "open")
    /\ UNCHANGED <<key, waits, sameCache, clearing, saved, changes, issued, locked, cacheVars,
                   mutation, queueVars, serverVars>>

\* Locked: the read fails, the alarm clears the cache.
IsLocked(p) ==
    /\ pc[p] = "unlock" /\ ~Unlocked(p)
    /\ IF key[p] = "alarm"
       THEN /\ Goto(p, "idle") /\ Forget(p) /\ Clear({}, sameToken)
            /\ sameSession' = sameSession \ {p}
       ELSE End(p) /\ UNCHANGED <<cacheVars, queueVars>>
    /\ UNCHANGED <<waits, sessionVars, mutation, serverVars>>

\* load clears what belongs to another session first.
ForeignOwner == owner # <<>> /\ owner # <<token>>

LoadClears(p) ==
    /\ pc[p] = "open" /\ ForeignOwner
    /\ Clear({p}, sameToken) /\ Goto(p, "clearing")
    /\ UNCHANGED <<key, seen, waits, sameSession, sessionVars, mutation, serverVars>>

Loads(p) ==
    \/ pc[p] = "open" /\ ~ForeignOwner
    \/ pc[p] = "clearing" /\ behind[p] = 0

\* The first to need the cache has it restored; a context without a token
\* will not be found current.
StartLoad(p) ==
    /\ Loads(p) /\ loaded = "none"
    /\ loaded' = "loading"
    /\ owner' = <<token>>
    /\ behind' = [behind EXCEPT ![Loader] = queue]
    /\ sameToken' = IF token = None THEN sameToken \ {Loader} ELSE sameToken \cup {Loader}
    /\ sameCache' = sameCache \cup {p}
    /\ Goto(p, "loading")
    /\ UNCHANGED <<key, seen, waits, sameSession, sessionVars, records, pending, job, mutation,
                   queue, writing, stored, serverVars>>

\* The others await the same restoration, or go on, or fail as it failed.
JoinLoad(p) ==
    /\ Loads(p) /\ loaded # "none"
    /\ \/ /\ loaded = "loading" /\ Goto(p, "loading")
          /\ sameCache' = sameCache \cup {p}
          /\ UNCHANGED <<key, seen, sameToken, sameSession>>
       \/ /\ loaded = "done" /\ Goto(p, "loaded")
          /\ UNCHANGED <<key, seen, sameVars>>
       \/ loaded = "failed" /\ End(p)
    /\ UNCHANGED <<waits, sessionVars, cacheVars, mutation, queueVars, serverVars>>

AwaitLoad == {p \in Proc : pc[p] = "loading" /\ p \in sameCache}

\* All who await a promise leave it together: for label, or with its error.
Leave(ps, task, label) ==
    LET gone == IF label = "idle" THEN ps ELSE {}
    IN  /\ pc' = [p \in Proc |-> IF p \in ps THEN label ELSE pc[p]]
        /\ key' = [p \in Proc |-> IF p \in gone THEN None ELSE key[p]]
        /\ sameToken' = sameToken \ (gone \cup {task})
        /\ sameCache' = sameCache \ gone
        /\ UNCHANGED <<seen, waits, sameSession>>

\* The writes queued before are done: storage is read, and counts if it is of
\* this session.
FinishLoad ==
    /\ loaded = "loading" /\ behind[Loader] = 0
    /\ IF Loader \in sameToken
       THEN /\ loaded' = "done"
            /\ Leave(AwaitLoad, Loader, "loaded")
            /\ records' = IF stored # None /\ stored.owner = token THEN stored.records ELSE records
       ELSE /\ loaded' = "failed"
            /\ Leave(AwaitLoad, Loader, "idle")
            /\ UNCHANGED records
    /\ UNCHANGED <<sessionVars, pending, job, owner, mutation, queueVars, serverVars>>

\* The promise was dropped by a clear and fails.
LoadDropped(p) ==
    /\ pc[p] = "loading" /\ p \notin sameCache
    /\ End(p)
    /\ UNCHANGED <<waits, sessionVars, cacheVars, mutation, queueVars, serverVars>>

\* expire: what has expired is gone from the records, storage follows.
ExpireWrites(p) ==
    /\ pc[p] = "loaded" /\ key[p] = "alarm"
    /\ Persist({}) /\ End(p)
    /\ UNCHANGED <<waits, sessionVars, cacheVars, mutation, serverVars>>

(***************************************************************************)
(* read, from its context on                                               *)
(***************************************************************************)
Reads(p) == pc[p] = "loaded" /\ key[p] \in Key

\* A mutation has begun meanwhile: once more from the start.
ReadAgain(p) ==
    /\ Reads(p) /\ mutation # None
    /\ Goto(p, "start")
    /\ waits' = [waits EXCEPT ![p] = mutation]
    /\ UNCHANGED <<key, seen, sameVars, sessionVars, cacheVars, mutation, queueVars,
                   serverVars>>

\* context() of p ...
Context(p) == sameCache' = sameCache \cup {p} /\ sameToken' = sameToken \cup {p}

\* ... and a request for key k, if none is in flight.
ContextAndRequest(p, k) ==
    /\ pending[k] = None
    /\ \E f \in Fetch :
         /\ job[f] = None
         /\ job' = [job EXCEPT ![f] = [key |-> k, phase |-> "sent", token |-> token, data |-> None]]
         /\ pending' = [pending EXCEPT ![k] = f]
         /\ sameCache' = sameCache \cup {p, f} /\ sameToken' = sameToken \cup {p, f}

\* No record: fetch it, or await who does.  Without a token the request fails
\* at once, and with cacheOnly none is made.
ReadMisses(p) ==
    /\ Reads(p) /\ mutation = None /\ records[key[p]] = None
    /\ \/ /\ token # None /\ Goto(p, "fetching")
          /\ \/ ContextAndRequest(p, key[p])
             \/ pending[key[p]] # None /\ Context(p) /\ UNCHANGED <<pending, job>>
          /\ UNCHANGED <<key, seen, sameSession>>
       \/ End(p) /\ UNCHANGED <<pending, job>>
    /\ UNCHANGED <<waits, sessionVars, records, loaded, owner, mutation, queueVars, serverVars>>

\* A record: use it, and refresh it in the background if it is 30 seconds old.
ReadHits(p) ==
    /\ Reads(p) /\ mutation = None /\ records[key[p]] # None
    /\ \/ ContextAndRequest(p, key[p])
       \/ Context(p) /\ UNCHANGED <<pending, job>>
    /\ Persist({}) /\ BeginUnlock(p) /\ Goto(p, "recheck")
    /\ UNCHANGED <<key, waits, sessionVars, records, loaded, owner, mutation, serverVars>>

ReadFetched(p) ==
    /\ pc[p] = "fetched"
    /\ BeginUnlock(p) /\ Goto(p, "recheck")
    /\ UNCHANGED <<key, waits, sameToken, sameCache, sessionVars, cacheVars, mutation,
                   queueVars, serverVars>>

ReadRechecked(p) ==
    /\ pc[p] = "recheck"
    /\ EndUnlock(p)
    /\ Goto(p, "return")
    /\ UNCHANGED <<key, waits, sameCache, clearing, saved, changes, issued, locked, cacheVars,
                   mutation, queueVars, serverVars>>

\* The last check before secrets are returned.
MayReturn(p) == Current(p) /\ records[key[p]] # None /\ mutation = None

ReadReturns(p) ==
    /\ pc[p] = "return" /\ MayReturn(p)
    /\ End(p)
    /\ UNCHANGED <<waits, sessionVars, cacheVars, mutation, queueVars, serverVars>>

ReadFails(p) ==
    /\ \/ pc[p] = "recheck" /\ ~Unlocked(p)
       \/ pc[p] = "return" /\ ~MayReturn(p)
    /\ End(p)
    /\ UNCHANGED <<waits, sessionVars, cacheVars, mutation, queueVars, serverVars>>

(***************************************************************************)
(* fetch: a request of the cache                                           *)
(***************************************************************************)
\* The reads that await f: a clear drops it from pending.
AwaitFetch(f) == {p \in Proc : pc[p] = "fetching" /\ p \in sameCache /\ pending[key[p]] = f}

EndFetch(f, label) ==
    /\ job' = [job EXCEPT ![f] = None]
    /\ pending' = [k \in Key |-> IF pending[k] = f THEN None ELSE pending[k]]
    /\ Leave(AwaitFetch(f), f, label)

In(f, phase) == job[f] # None /\ job[f].phase = phase

\* The server reads its database; a login that is gone is a 404.
Serve(f) ==
    /\ In(f, "sent")
    /\ job' = [job EXCEPT
         ![f].phase = "answered",
         ![f].data = CASE job[f].key = "list" -> vault
                       [] job[f].key \in Entry /\ vault[job[f].key] # Gone ->
                              [e \in {job[f].key} |-> vault[e]]
                       [] OTHER -> None]
    /\ UNCHANGED <<procVars, sameVars, sessionVars, records, pending, loaded, owner, mutation,
                   queueVars, serverVars>>

\* An answer that is current is stored; a list drops the details it no longer
\* matches.
Matches(k, list) == k \in Entry /\ records[k] # None => records[k].data[k] = list[k]

Answered(k, answer) ==
    [j \in Key |-> CASE j = k -> answer
                     [] j # k /\ k = "list" /\ ~Matches(j, answer.data) -> None
                     [] OTHER -> records[j]]

Receive(f) ==
    /\ In(f, "answered") /\ job[f].data # None /\ Current(f)
    /\ records' = Answered(job[f].key, [data |-> job[f].data, token |-> job[f].token])
    /\ job' = [job EXCEPT ![f].phase = "storing", ![f].data = None]
    /\ Persist({f})
    /\ UNCHANGED <<procVars, sameVars, sessionVars, pending, loaded, owner, mutation, serverVars>>

\* A 404 removes the detail, and the list if it still has it.
Missing(f) ==
    /\ In(f, "answered") /\ job[f].data = None /\ Current(f)
    /\ LET k == job[f].key
           listed == records["list"] # None /\ records["list"].data[k] # Gone
       IN  records' = [j \in Key |-> IF j = k \/ (j = "list" /\ listed) THEN None ELSE records[j]]
    /\ job' = [job EXCEPT ![f].phase = "removing"]
    /\ Persist({f})
    /\ UNCHANGED <<procVars, sameVars, sessionVars, pending, loaded, owner, mutation, serverVars>>

FetchDone(f) ==
    /\ behind[f] = 0
    /\ \/ In(f, "storing") /\ EndFetch(f, IF Current(f) THEN "fetched" ELSE "idle")
       \/ In(f, "removing") /\ EndFetch(f, "idle")
    /\ UNCHANGED <<sessionVars, records, loaded, owner, mutation, queueVars, serverVars>>

\* No answer, an error, or an answer that is not current.
FetchFails(f) ==
    /\ In(f, "sent") \/ In(f, "answered")
    /\ EndFetch(f, "idle")
    /\ UNCHANGED <<sessionVars, records, loaded, owner, mutation, queueVars, serverVars>>

\* What it awaits was dropped by a clear, and will fail.
FetchDropped(p) ==
    /\ pc[p] = "fetching" /\ p \notin sameCache
    /\ End(p)
    /\ UNCHANGED <<waits, sessionVars, cacheVars, mutation, queueVars, serverVars>>

\* Five minutes, or twenty details opened since.
Expire(k) ==
    /\ records[k] # None
    /\ records' = [records EXCEPT ![k] = None]
    /\ UNCHANGED <<procVars, sameVars, sessionVars, pending, job, loaded, owner, mutation,
                   queueVars, serverVars>>

(***************************************************************************)
(* Locks and logins                                                        *)
(***************************************************************************)
Saving == {p \in Proc : pc[p] \in {"saving", "saved"}}

\* Nothing in the code keeps saveToken and clearToken from overlapping.
MayOverlap == Overlap \/ (Saving = {} /\ \A p \in Proc : pc[p] \notin {"lock", "removed"})

\* clearToken, up to its wait for the caches.
BeginLock(p) ==
    /\ MayOverlap
    /\ clearing' = TRUE
    /\ sameSession' = {}
    /\ token' = None
    /\ Clear({p}, {}) /\ Goto(p, "lock") /\ Forget(p)
    /\ locked' = (locked \cup {saved} \cup {seen[q] : q \in Saving}) \ {None}
    /\ UNCHANGED <<saved, changes, issued>>

\* A logout, an auto-lock alarm, a changed password, a locked screen.
Lock(p) ==
    /\ pc[p] = "idle"
    /\ BeginLock(p)
    /\ UNCHANGED <<waits, mutation, serverVars>>

\* The server rejects the token of a request: fetch locks, and is no longer
\* current itself.
FetchRejected(p, f) ==
    /\ In(f, "sent") /\ Current(f)
    /\ pc[p] = "idle"
    /\ BeginLock(p)
    /\ UNCHANGED <<waits, mutation, serverVars>>

\* The caches are clear: the stored token is removed ...
RemoveToken(p) ==
    /\ pc[p] = "lock" /\ behind[p] = 0
    /\ saved' = None
    /\ changes' = Announce(saved, None)
    /\ Goto(p, "removed")
    /\ UNCHANGED <<key, seen, waits, sameVars, token, clearing, issued, locked, cacheVars,
                   mutation, queueVars, serverVars>>

\* ... and only then may a token be loaded again.
EndLock(p) ==
    /\ pc[p] = "removed"
    /\ clearing' = FALSE
    /\ End(p)
    /\ UNCHANGED <<waits, token, saved, changes, issued, locked, cacheVars, mutation,
                   queueVars, serverVars>>

StartLogin(p) ==
    /\ Ready /\ pc[p] = "idle"
    /\ Goto(p, "login")
    /\ sameToken' = sameToken \cup {p}
    /\ UNCHANGED <<key, seen, waits, sameCache, sameSession, sessionVars, cacheVars, mutation,
                   queueVars, serverVars>>

\* login and the start of saveToken: the token is set, the cache cleared.
LoginAnswered(p) ==
    /\ pc[p] = "login" /\ p \in sameToken /\ MayOverlap
    /\ \E t \in Token \ issued :
         /\ issued' = issued \cup {t}
         /\ token' = t
         /\ seen' = [seen EXCEPT ![p] = t]
    /\ Clear({p}, {}) /\ Goto(p, "saving")
    /\ UNCHANGED <<key, waits, sameSession, clearing, saved, changes, locked, mutation, serverVars>>

LoginFails(p) ==
    /\ pc[p] = "login"
    /\ End(p)
    /\ UNCHANGED <<waits, sessionVars, cacheVars, mutation, queueVars, serverVars>>

\* The rest of saveToken: the token is stored, then set again.
SaveStores(p) ==
    /\ pc[p] = "saving" /\ behind[p] = 0
    /\ saved' = seen[p]
    /\ changes' = Announce(saved, seen[p])
    /\ Goto(p, "saved")
    /\ UNCHANGED <<key, seen, waits, sameVars, token, clearing, issued, locked, cacheVars,
                   mutation, queueVars, serverVars>>

SaveSets(p) ==
    /\ pc[p] = "saved"
    /\ SetToken(seen[p])
    /\ Goto(p, "idle") /\ Forget(p)
    /\ UNCHANGED <<waits, sameCache, sameSession, clearing, saved, changes, issued, locked,
                   cacheVars, mutation, queueVars, serverVars>>

\* The listener on browser storage hears of a token replaced or removed.
TokenReplaced(t) ==
    /\ t \in changes
    /\ changes' = changes \ {t}
    /\ token' = IF token = t THEN None ELSE token
    /\ Clear({}, IF token = t THEN {} ELSE sameToken)
    /\ UNCHANGED <<procVars, sameSession, clearing, saved, issued, locked, mutation, serverVars>>

(***************************************************************************)
(* mutate: a login created, changed, deleted or imported                   *)
(***************************************************************************)
Settled(p) ==
    /\ mutation' = IF mutation = p THEN None ELSE mutation
    /\ waits' = [q \in Proc |-> IF waits[q] = p THEN None ELSE waits[q]]

\* One mutation after the other, in the order of the calls.  Without a token and
\* with nothing to wait for it fails at once.
StartMutation(p) ==
    /\ Ready /\ pc[p] = "idle" /\ (token # None \/ mutation # None)
    /\ mutation' = p
    /\ IF mutation = None
       THEN Clear({p}, sameToken \cup {p}) /\ Goto(p, "clear") /\ UNCHANGED waits
       ELSE /\ Goto(p, "queued")
            /\ waits' = [waits EXCEPT ![p] = mutation]
            /\ sameToken' = sameToken \cup {p}
            /\ UNCHANGED <<sameCache, cacheVars, queueVars>>
    /\ UNCHANGED <<key, seen, sameSession, sessionVars, serverVars>>

\* Its turn: only the session that asked for it may go on.
MutationTurn(p) ==
    /\ pc[p] = "queued" /\ waits[p] = None
    /\ IF SameSession(p)
       THEN /\ Clear({p}, sameToken) /\ Goto(p, "clear")
            /\ UNCHANGED <<key, seen, waits, sameSession, mutation>>
       ELSE Settled(p) /\ End(p) /\ UNCHANGED <<cacheVars, queueVars>>
    /\ UNCHANGED <<sessionVars, serverVars>>

ClearAndGoto(p, label) ==
    /\ Clear({p}, sameToken) /\ Goto(p, label)
    /\ UNCHANGED <<key, seen, waits, sameSession, sessionVars, mutation, serverVars>>

OnlyGoto(p, label) ==
    /\ Goto(p, label)
    /\ UNCHANGED <<key, seen, waits, sameCache, sameSession, sessionVars, cacheVars, mutation,
                   queueVars>>

\* The cache is clear: the session is checked again, then the credential cache
\* is cleared too, which takes a while.
MutationCleared(p) ==
    /\ pc[p] = "clear" /\ behind[p] = 0
    /\ IF SameSession(p)
       THEN OnlyGoto(p, "prepare") /\ UNCHANGED <<sameToken, serverVars>>
       ELSE ClearAndGoto(p, "settle")

\* The request is made with the token of now; without one it is an error of
\* authentication.
MutationSent(p) ==
    /\ pc[p] = "prepare"
    /\ IF token # None
       THEN /\ OnlyGoto(p, "sent")
            /\ sameToken' = sameToken \cup {p}
            /\ UNCHANGED serverVars
       ELSE ClearAndGoto(p, "rejected")

\* The server changes or deletes a login.
Change(e) ==
    /\ vault[e] < Gone
    /\ \E v \in {vault[e] + 1, Gone} : vault' = [vault EXCEPT ![e] = v]

MutationApplied(p) ==
    /\ pc[p] = "sent"
    /\ \E e \in Entry : Change(e) /\ own' = [own EXCEPT ![e] = vault'[e]]
    /\ OnlyGoto(p, "applied") /\ UNCHANGED sameToken

\* The answer, or no answer: the cache is cleared again either way.
MutationAnswered(p) ==
    /\ pc[p] \in {"sent", "applied"}
    /\ ClearAndGoto(p, "settle")

MutationRejected(p) ==
    /\ pc[p] = "sent" /\ p \in sameToken
    /\ ClearAndGoto(p, "rejected")

MutationEnds(p) ==
    /\ pc[p] = "settle" /\ behind[p] = 0
    /\ Settled(p) /\ End(p)
    /\ UNCHANGED <<sessionVars, cacheVars, queueVars, serverVars>>

\* A handler whose request was rejected locks the vault.
MutationLocks(p) ==
    /\ pc[p] = "rejected" /\ behind[p] = 0
    /\ Settled(p) /\ BeginLock(p)
    /\ UNCHANGED serverVars

\* Another client, or a request whose answer was no longer awaited.
OutsideChange(e) ==
    /\ Change(e)
    /\ UNCHANGED <<procVars, sameVars, sessionVars, cacheVars, mutation, queueVars, own>>

(***************************************************************************)
(* The service worker starts                                               *)
(***************************************************************************)
Init ==
    /\ \E p \in Proc : pc = [q \in Proc |-> IF q = p THEN "boot" ELSE "idle"]
    /\ saved \in Token \cup {None}
    /\ key = [p \in Proc |-> None]
    /\ seen = [p \in Proc |-> IF pc[p] = "boot" THEN saved ELSE None]
    /\ waits = [p \in Proc |-> None]
    /\ sameToken = {} /\ sameCache = {} /\ sameSession = {p \in Proc : pc[p] = "boot"}
    /\ token = None /\ clearing = FALSE /\ changes = {} /\ issued = {saved} \ {None} /\ locked = {}
    /\ records = NoRecords /\ pending = NoPending /\ job = [f \in Fetch |-> None]
    /\ loaded = "none" /\ owner = <<>>
    /\ mutation = None
    /\ queue = 0 /\ behind = [t \in Task |-> 0] /\ writing = <<>> /\ stored = None
    /\ vault = [e \in Entry |-> 1] /\ own = [e \in Entry |-> 1]

\* The browser stops the idle worker, or it crashes; what is stored stays, and a
\* lock that had not removed the token yet did not happen.
Restart(p) ==
    /\ pc' = [q \in Proc |-> IF q = p THEN "boot" ELSE "idle"]
    /\ key' = [q \in Proc |-> None]
    /\ seen' = [q \in Proc |-> IF q = p THEN saved ELSE None]
    /\ waits' = [q \in Proc |-> None]
    /\ sameToken' = {} /\ sameCache' = {} /\ sameSession' = {p}
    /\ token' = None /\ clearing' = FALSE
    /\ records' = NoRecords /\ pending' = NoPending /\ job' = [f \in Fetch |-> None]
    /\ loaded' = "none" /\ owner' = <<>>
    /\ mutation' = None
    /\ queue' = 0 /\ behind' = [t \in Task |-> 0] /\ writing' = <<>>
    /\ locked' = locked \ {saved}
    /\ UNCHANGED <<saved, changes, issued, stored, serverVars>>

\* initializeServiceWorker: a cache without a token is cleared.
Booted(p) ==
    /\ pc[p] = "boot" /\ Goto(p, "idle")
    /\ IF Unlocked(p)
       THEN EndUnlock(p) /\ UNCHANGED <<key, sameCache, cacheVars, queueVars>>
       ELSE Forget(p) /\ Clear({}, {}) /\ sameSession' = {} /\ UNCHANGED token
    /\ UNCHANGED <<waits, clearing, saved, changes, issued, locked, mutation, serverVars>>

ReadStep(p) ==
    \/ ReadWaited(p) \/ IsUnlocked(p) \/ IsLocked(p) \/ LoadClears(p) \/ StartLoad(p)
    \/ JoinLoad(p) \/ LoadDropped(p) \/ ExpireWrites(p) \/ ReadAgain(p) \/ ReadMisses(p)
    \/ ReadHits(p) \/ ReadFetched(p) \/ ReadRechecked(p) \/ ReadReturns(p) \/ ReadFails(p)
    \/ FetchDropped(p)

MutationStep(p) ==
    \/ MutationTurn(p) \/ MutationCleared(p) \/ MutationSent(p) \/ MutationApplied(p)
    \/ MutationAnswered(p) \/ MutationRejected(p) \/ MutationEnds(p) \/ MutationLocks(p)

SessionStep(p) ==
    \/ RemoveToken(p) \/ EndLock(p) \/ LoginAnswered(p) \/ LoginFails(p) \/ SaveStores(p)
    \/ SaveSets(p) \/ Booted(p)

FetchStep(f) == Serve(f) \/ Receive(f) \/ Missing(f) \/ FetchDone(f) \/ FetchFails(f)

Start(p) ==
    \/ "read" \in Kinds /\ \E k \in Key : StartRead(p, k)
    \/ "expire" \in Kinds /\ StartExpire(p)
    \/ "mutate" \in Kinds /\ StartMutation(p)
    \/ "login" \in Kinds /\ StartLogin(p)
    \/ "lock" \in Kinds /\ (Lock(p) \/ \E f \in Fetch : FetchRejected(p, f))
    \/ "restart" \in Kinds /\ Restart(p)

Next ==
    \/ \E p \in Proc : Start(p) \/ ReadStep(p) \/ MutationStep(p) \/ SessionStep(p)
    \/ \E f \in Fetch : FetchStep(f)
    \/ \E k \in Key : Expire(k)
    \/ \E e \in Entry : "outside" \in Kinds /\ OutsideChange(e)
    \/ \E t \in Token : TokenReplaced(t)
    \/ FinishLoad \/ BeginWrite \/ EndWrite

Spec == Init /\ [][Next]_vars

(***************************************************************************)
(* Properties                                                              *)
(***************************************************************************)
Cache == [Key -> Record \cup {None}]
Requested ==
    UNION {[key : {k}, phase : {"sent", "answered", "storing", "removing"}, token : Token,
            data : Data(k) \cup {None}] : k \in Key}
Stored == [owner : Token, records : Cache] \cup {None}

\* Every variable has its type.
TypeOK ==
    /\ pc \in [Proc -> Labels]
    /\ key \in [Proc -> Key \cup {"alarm", None}]
    /\ seen \in [Proc -> Token \cup {None}]
    /\ waits \in [Proc -> Proc \cup {None}] /\ mutation \in Proc \cup {None}
    /\ sameToken \subseteq Task /\ sameCache \subseteq Proc \cup Fetch /\ sameSession \subseteq Proc
    /\ token \in Token \cup {None} /\ clearing \in BOOLEAN /\ saved \in Token \cup {None}
    /\ changes \subseteq Token /\ issued \subseteq Token /\ locked \subseteq Token
    /\ records \in Cache /\ pending \in [Key -> Fetch \cup {None}]
    /\ job \in [Fetch -> Requested \cup {None}]
    /\ loaded \in {"none", "loading", "done", "failed"}
    /\ owner \in {<<>>} \cup {<<t>> : t \in Token \cup {None}}
    /\ queue \in 0 .. MaxQueue /\ behind \in [Task -> 0 .. MaxQueue]
    /\ writing \in {<<>>} \cup {<<s>> : s \in Stored} /\ stored \in Stored
    /\ vault \in [Entry -> Version] /\ own \in [Entry -> Version]

\* What the extension has changed is never shown as it was before: neither the
\* cache nor its copy in browser storage is older than a change of the
\* extension that the server has made while the extension awaited it.
ShowsOwnChanges(cache) ==
    \A k \in Key : cache[k] # None =>
        \A e \in DOMAIN cache[k].data : cache[k].data[e] >= own[e]

OwnChangesShown ==
    /\ ShowsOwnChanges(records)
    /\ stored # None => ShowsOwnChanges(stored.records)

\* A lock is final: no read returns what was fetched with a token that was in
\* storage, or on its way there, when a lock began, and none returns at all while
\* the extension has no token (popup-cache.js:265-275, session.js:143-157).
LockIsFinal ==
    [][\A p \in Proc : ReadReturns(p) => token # None /\ records[key[p]].token \notin locked]_vars

\* A locked vault leaves no secrets behind: when browser storage has no token
\* and what clears the cache has run (the queued writes, the listener, the
\* start of the worker, a login that stores its token), the cache is not in
\* storage either.
Clearing == queue > 0 \/ changes # {} \/ ~Ready \/ \E p \in Proc : pc[p] = "saving"

LockedLeavesNothing == saved = None /\ ~Clearing => stored = None

\* A lock ends the session it was asked to end and no later one: the stored token
\* it removes was in storage, or on its way there, when it began
\* (session.js:166-186).  Holds only if logins and locks do not overlap.
NewSessionKept ==
    [][\A p \in Proc : RemoveToken(p) => saved \in locked \cup {None}]_vars

=============================================================================
