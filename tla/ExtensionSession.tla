-------------------------- MODULE ExtensionSession --------------------------
(***************************************************************************)
(* The session of the extension's service worker (SessionManager in        *)
(* background/session.js): the token in memory and in two storages, the    *)
(* session mode, the auto-lock deadline with its alarm, and the cache of   *)
(* credential metadata with its queue of storage writes.                   *)
(*                                                                         *)
(* JavaScript runs one task at a time; the stretches of code between two   *)
(* awaits are labels, and a handler is the sequence of labels it has still *)
(* to run.  A method that awaits another one puts that one's labels before *)
(* its own.  The code compares three counters with values read earlier     *)
(* (api.tokenGeneration, _tokenGeneration, credentialGeneration); they     *)
(* only grow, so a handler keeps in fresh the counters that have not moved *)
(* since.                                                                  *)
(*                                                                         *)
(* A token is the number of its login.  Metadata of one website; its       *)
(* version counts the changes of its logins at the server.  A deadline is  *)
(* ahead or has passed.  The popup's cache, pending credentials, badge and *)
(* the request that revokes a session are other modules' or left out, and  *)
(* the server's address does not change.                                   *)
(***************************************************************************)
EXTENDS Naturals, Sequences, FiniteSets

CONSTANTS
    Proc,        \* handlers of the worker; bound: how many run at once
    Mode,        \* the session modes
    Scene,       \* bounds: what may happen in one behaviour, and how often
    None,
    MaxToken,    \* bound: logins
    MaxVersion   \* bound: changes of the website's logins

Acts == {"check", "creds", "lock", "login", "activity", "minutes", "mode", "mutate", "stop",
         "quit", "reject", "outside"}
Kind == {"boot", "event", "check", "creds", "lock", "login", "activity", "minutes", "mutate"}

ASSUME ConstantAssumption ==
    /\ Mode \subseteq {"ephemeral", "persistent", "inactivity", "never"}
    /\ Scene \subseteq [may : SUBSET Acts, acts : Nat, modes : SUBSET Mode]
    /\ MaxToken \in Nat \ {0} /\ MaxVersion \in Nat
    /\ None \notin Proc \cup Nat \cup Kind

Area == {"session", "local"}
Token == 1 .. MaxToken
Version == 0 .. MaxVersion
Counter == {"token", "clears", "metadata"}
Time == {"ahead", "passed"}

VARIABLES
    token,        \* api.token
    logins,       \* logins so far
    clearing,     \* _clearingToken
    cachedMode,   \* _cachedMode
    mode,         \* the mode in browser storage
    saved,        \* the token in each storage area
    replaced,     \* storage events not yet handled: tokens that were removed
    modeEvent,    \* the mode was changed and the worker not yet told
    deadline,     \* when the vault locks (expires_at)
    alarm,        \* the alarm auto-lock
    metadata,     \* credentialCache
    stored,       \* its copy in session storage
    queue,        \* credentialStorageQueue
    handler,      \* the handlers at work
    vault,        \* the version of the logins at the server
    own,          \* history: the extension's last change it was told of
    locked,       \* history: a lock has ended, and no login been answered since
    wiped,        \* history: the deadline of this session was removed
    scene, acts

tokenVars == <<token, logins, clearing, saved, replaced, locked>>
modeVars == <<cachedMode, mode, modeEvent>>
lockVars == <<deadline, alarm, wiped>>
cacheVars == <<metadata, stored, queue>>
serverVars == <<vault, own>>
bounds == <<scene, acts>>
vars == <<tokenVars, modeVars, lockVars, cacheVars, handler, serverVars, bounds>>

(***************************************************************************)
(* Handlers                                                                *)
(***************************************************************************)
\* The methods, as the labels they run.  Load is loadToken up to its check,
\* which adds the rest.
Load == <<"load", "get mode", "read session", "read local">>
ForgetDeadline == <<"remove deadline", "clear alarm">>
Schedule == <<"unset alarm", "create alarm">>
ResetAutoLock == <<"get mode", "set deadline">>
ClearMetadata == <<"clear metadata", "wait">>
ClearCache == <<"clear popup">> \o ClearMetadata
ClearToken == <<"clear token">> \o ClearCache \o <<"remove session", "remove local">>
                  \o ForgetDeadline \o <<"cleared">>
Login == <<"get mode", "log in", "login">> \o ClearCache
             \o <<"get mode", "save token", "use token">> \o ResetAutoLock
Credentials == Load \o <<"look up">>
IsUnlocked == Load \o <<"validate">> \o ResetAutoLock
Mutate == ResetAutoLock \o ClearMetadata \o <<"send", "apply", "answer">>
              \o ClearMetadata \o <<"mutated">>

IdleHandler == [kind |-> None, todo |-> <<>>, fresh |-> {}, mode |-> None, token |-> None,
                at |-> None, version |-> None]
Idle(p) == handler[p].kind = None

At(p, label) == handler[p].todo # <<>> /\ Head(handler[p].todo) = label
Rest(p) == Tail(handler[p].todo)

\* Handlers hs, once a counter has moved.
Moved(hs, counter) == [q \in Proc |-> [hs[q] EXCEPT !.fresh = @ \ {counter}]]

\* Handler p has run to its next await, and goes on with todo.
Going(hs, p, todo) ==
    [hs EXCEPT ![p] = IF todo = <<>> THEN IdleHandler ELSE [@ EXCEPT !.todo = todo]]
Goes(p, todo) == handler' = Going(handler, p, todo)
Continue(p) == Goes(p, Rest(p))

\* loadToken returns null: what asked ends, and the start of the worker
\* clears the caches.
Null(p) == IF handler[p].kind = "boot" THEN ClearCache ELSE <<>>

\* Messages wait for the start of the worker, and so do the listeners that it
\* adds.
Ready == \A p \in Proc : handler[p].kind # "boot"

\* A lock is under way, or about to begin.
Locking == \E p \in Proc : \E i \in DOMAIN handler[p].todo :
               handler[p].todo[i] \in {"clear token", "cleared"}
\* Bound: locks and logins do not overlap.  The code lets them, and the lock
\* may then remove what the login has stored (PopupCache has it).
LoggingIn == {p \in Proc : handler[p].kind = "login"}

Start(p, kind, todo) ==
    /\ Idle(p)
    /\ handler' = [handler EXCEPT ![p] = [IdleHandler EXCEPT !.kind = kind, !.todo = todo]]

Act(a) ==
    /\ a \in scene.may /\ acts < scene.acts
    /\ acts' = acts + 1
    /\ UNCHANGED scene

(***************************************************************************)
(* The session mode and the stored token (loadToken)                       *)
(***************************************************************************)
\* _getMode
GetMode(p) ==
    /\ At(p, "get mode")
    /\ LET m == IF cachedMode # None THEN cachedMode ELSE mode IN
       /\ cachedMode' = m
       /\ handler' = Going([handler EXCEPT ![p].mode = m], p, Rest(p))
    /\ UNCHANGED <<tokenVars, mode, modeEvent, lockVars, cacheVars, serverVars, bounds>>

LoadBegins(p) ==
    /\ At(p, "load")
    /\ IF clearing THEN Goes(p, Null(p))
       ELSE handler' = Going([handler EXCEPT ![p].fresh = @ \cup {"clears"}], p, Rest(p))
    /\ UNCHANGED <<tokenVars, modeVars, lockVars, cacheVars, serverVars, bounds>>

Unmoved(p) == ~clearing /\ "clears" \in handler[p].fresh

\* With the token that was found: a session that locks by itself looks at its
\* deadline; any other has none.
Checked(p, t, rest) ==
    IF ~Unmoved(p) THEN Null(p)
    ELSE (IF t # None /\ handler[p].mode = "inactivity" THEN <<"read deadline">>
          ELSE ForgetDeadline) \o <<"set token">> \o rest

ReadSaved(p) ==
    /\ At(p, "read session") \/ At(p, "read local")
    /\ LET inSession == At(p, "read session")
           t == saved[IF inSession THEN "session" ELSE "local"]
           hs == [handler EXCEPT ![p].token = t]
       IN  handler' = CASE inSession /\ t = None -> Going(hs, p, Rest(p))
                        [] inSession /\ t # None -> Going(hs, p, Checked(p, t, Tail(Rest(p))))
                        [] ~inSession -> Going(hs, p, Checked(p, t, Rest(p)))
    /\ UNCHANGED <<tokenVars, modeVars, lockVars, cacheVars, serverVars, bounds>>

\* _lockIfAutoLockExpired
\* Mutant: a deadline that is still ahead is left to the alarm of before.
LeftToItsAlarm(p) ==
    IF deadline = "passed" THEN ClearToken \o Null(p) ELSE Rest(p)

Expired(p) ==
    CASE deadline = None -> Rest(p)
      [] deadline = "passed" -> ClearToken \o Null(p)
      [] deadline = "ahead" -> Schedule \o Rest(p)

ReadDeadline(p) ==
    /\ At(p, "read deadline")
    /\ handler' = Going([handler EXCEPT ![p].at = deadline], p, Expired(p))
    /\ UNCHANGED <<tokenVars, modeVars, lockVars, cacheVars, serverVars, bounds>>

\* loadToken, at its end.
SetToken(p) ==
    /\ At(p, "set token")
    /\ LET t == handler[p].token IN
       IF ~Unmoved(p) \/ t = None
       THEN Goes(p, Null(p)) /\ UNCHANGED token
       ELSE /\ token' = t
            /\ handler' = Going(IF t = token THEN handler ELSE Moved(handler, "token"), p, Rest(p))
    /\ UNCHANGED <<logins, clearing, saved, replaced, locked, modeVars, lockVars, cacheVars, serverVars, bounds>>

(***************************************************************************)
(* The deadline and its alarm                                              *)
(***************************************************************************)
\* A session is stored that locks by itself, if m is its mode.
SelfLocking(m) == m = "inactivity" /\ saved["local"] # None

\* clearAutoLockState
RemoveDeadline(p) ==
    /\ At(p, "remove deadline")
    /\ deadline' = None
    /\ wiped' = (wiped \/ SelfLocking(mode))
    /\ Continue(p)
    /\ UNCHANGED <<tokenVars, modeVars, alarm, cacheVars, serverVars, bounds>>

ClearAlarm(p) ==
    /\ At(p, "clear alarm") \/ At(p, "unset alarm")
    /\ alarm' = None
    /\ wiped' = (wiped \/ (At(p, "clear alarm") /\ SelfLocking(mode)))
    /\ Continue(p)
    /\ UNCHANGED <<tokenVars, modeVars, deadline, cacheVars, serverVars, bounds>>

\* _scheduleAutoLock, at its end: time has gone by since the deadline was set.
CreateAlarm(p) ==
    /\ At(p, "create alarm")
    /\ IF handler[p].at = "passed"
       THEN Goes(p, ClearToken \o Rest(p)) /\ UNCHANGED alarm
       ELSE Continue(p) /\ alarm' = "ahead"
    /\ UNCHANGED <<tokenVars, modeVars, deadline, wiped, cacheVars, serverVars, bounds>>

\* resetAutoLock
SetDeadline(p) ==
    /\ At(p, "set deadline")
    /\ IF handler[p].mode # "inactivity"
       THEN Goes(p, ForgetDeadline \o Rest(p)) /\ UNCHANGED <<deadline, wiped>>
       ELSE /\ deadline' = "ahead" /\ wiped' = FALSE
            /\ handler' = Going([handler EXCEPT ![p].at = "ahead"], p, Schedule \o Rest(p))
    /\ UNCHANGED <<tokenVars, modeVars, alarm, cacheVars, serverVars, bounds>>

\* The listener, when the minutes were changed, and a session is stored that
\* locks by itself.
MinutesChanged(p) ==
    /\ At(p, "minutes")
    /\ Goes(p, IF SelfLocking(handler[p].mode) THEN Rest(p) ELSE <<>>)
    /\ UNCHANGED <<tokenVars, modeVars, lockVars, cacheVars, serverVars, bounds>>

\* The new deadline counts from the last activity, and may be over.
NewDeadline(p) ==
    /\ At(p, "new deadline")
    /\ \E d \in Time :
          /\ deadline' = d /\ wiped' = FALSE
          /\ handler' = Going([handler EXCEPT ![p].at = d], p, Schedule)
    /\ UNCHANGED <<tokenVars, modeVars, alarm, cacheVars, serverVars, bounds>>

(***************************************************************************)
(* Locks (clearToken)                                                      *)
(***************************************************************************)
Forget(p) ==
    /\ At(p, "clear token")
    /\ LoggingIn \subseteq {p}
    /\ clearing' = TRUE
    /\ token' = None
    /\ handler' = Going(Moved(Moved(handler, "token"), "clears"), p, Rest(p))
    /\ UNCHANGED <<logins, saved, replaced, locked, modeVars, lockVars, cacheVars, serverVars, bounds>>

\* The popup's cache is cleared (PopupCache).
ClearPopup(p) ==
    /\ At(p, "clear popup")
    /\ Continue(p)
    /\ UNCHANGED <<tokenVars, modeVars, lockVars, cacheVars, serverVars, bounds>>

\* An area of browser storage gets token t, and the token that was there is
\* announced.
Store(area, t) ==
    /\ saved' = [saved EXCEPT ![area] = t]
    /\ replaced' = replaced \cup ({saved[area]} \ {None, t})

Remove(p) ==
    /\ \/ At(p, "remove session") /\ Store("session", None)
       \/ At(p, "remove local") /\ Store("local", None)
    /\ Continue(p)
    /\ UNCHANGED <<token, logins, clearing, locked, modeVars, lockVars, cacheVars, serverVars, bounds>>

Cleared(p) ==
    /\ At(p, "cleared")
    /\ clearing' = FALSE
    /\ locked' = TRUE
    /\ Continue(p)
    /\ UNCHANGED <<token, logins, saved, replaced, modeVars, lockVars, cacheVars, serverVars, bounds>>

(***************************************************************************)
(* Logins (api.login, saveToken)                                           *)
(***************************************************************************)
LoginSent(p) ==
    /\ At(p, "log in")
    /\ handler' = Going([handler EXCEPT ![p].fresh = {"token"}], p, Rest(p))
    /\ UNCHANGED <<tokenVars, modeVars, lockVars, cacheVars, serverVars, bounds>>

LoginAnswered(p) ==
    /\ At(p, "login")
    /\ IF "token" \notin handler[p].fresh
       THEN Goes(p, <<>>) /\ UNCHANGED <<token, logins, locked>>
       ELSE /\ logins' = logins + 1 /\ token' = logins' /\ locked' = FALSE
            /\ handler' = Going([Moved(handler, "token") EXCEPT ![p].token = logins'], p, Rest(p))
    /\ UNCHANGED <<clearing, saved, replaced, modeVars, lockVars, cacheVars, serverVars, bounds>>

SaveToken(p) ==
    /\ At(p, "save token")
    /\ Store(IF handler[p].mode = "ephemeral" THEN "session" ELSE "local", handler[p].token)
    /\ Continue(p)
    /\ UNCHANGED <<token, logins, clearing, locked, modeVars, lockVars, cacheVars, serverVars, bounds>>

UseToken(p) ==
    /\ At(p, "use token")
    /\ LET t == handler[p].token IN
       /\ token' = t
       /\ handler' = Going(IF t = token THEN handler ELSE Moved(handler, "token"), p,
                           (IF handler[p].mode = "inactivity" THEN ResetAutoLock
                            ELSE ForgetDeadline) \o Rest(p))
    /\ UNCHANGED <<logins, clearing, saved, replaced, locked, modeVars, lockVars, cacheVars, serverVars, bounds>>

\* IS_UNLOCKED asks the server whether the session is alive.
Validate(p) ==
    /\ At(p, "validate")
    /\ \/ "token" \in handler[p].fresh /\ token # None /\ Continue(p) /\ UNCHANGED bounds
       \/ Goes(p, <<>>) /\ UNCHANGED bounds
       \/ "token" \in handler[p].fresh /\ Act("reject") /\ Goes(p, ClearToken)
    /\ UNCHANGED <<tokenVars, modeVars, lockVars, cacheVars, serverVars>>

(***************************************************************************)
(* Credential metadata                                                     *)
(***************************************************************************)
Usable(record) == record # None /\ record.token = token

\* assertCurrent
\* Mutant: only the session is looked at.
CurrentSession(p) == token # None /\ "token" \in handler[p].fresh
Current(p) == token # None /\ {"token", "metadata"} \subseteq handler[p].fresh

Enqueue(p, kind, record) ==
    queue' = Append(queue, [by |-> p, kind |-> kind, record |-> record, begun |-> FALSE])

\* Await the operation that p has put into the queue.
\* Mutant: it is not awaited.
NotAwaited(p) ==
    /\ At(p, "wait")
    /\ Continue(p)
    /\ UNCHANGED <<tokenVars, modeVars, lockVars, cacheVars, serverVars, bounds>>

Waited(p) ==
    /\ At(p, "wait")
    /\ \A i \in DOMAIN queue : queue[i].by # p
    /\ Continue(p)
    /\ UNCHANGED <<tokenVars, modeVars, lockVars, cacheVars, serverVars, bounds>>

\* clearCredentialMetadataCache
\* Mutant: the copy in storage is left alone.
ClearsMemory(p) ==
    /\ metadata' = None
    /\ handler' = Going(Moved(handler, "metadata"), p, Rest(p))
    /\ UNCHANGED <<stored, queue>>

Clears(p) ==
    /\ metadata' = None
    /\ Enqueue(p, "clear", None)
    /\ handler' = Going(Moved(handler, "metadata"), p, Rest(p))
    /\ UNCHANGED stored

ClearMetadataNow(p) ==
    /\ At(p, "clear metadata")
    /\ Clears(p)
    /\ UNCHANGED <<tokenVars, modeVars, lockVars, serverVars, bounds>>

\* getCredentialsForDomain: what is in memory, unless it is too old.
LookUp(p) ==
    /\ At(p, "look up")
    /\ \/ (token = None \/ Usable(metadata)) /\ Goes(p, <<>>) /\ UNCHANGED queue
       \/ /\ token # None
          /\ Enqueue(p, "read", None)
          /\ handler' = Going([handler EXCEPT ![p].fresh = {"token", "metadata"}], p,
                              <<"wait", "read stored">>)
    /\ UNCHANGED <<tokenVars, modeVars, lockVars, metadata, stored, serverVars, bounds>>

ReadStored(p) ==
    /\ At(p, "read stored")
    /\ \/ Current(p) /\ Usable(stored) /\ metadata' = stored /\ Goes(p, <<>>)
       \/ Current(p) /\ Goes(p, <<"serve", "receive">>) /\ UNCHANGED metadata
       \/ ~Current(p) /\ Goes(p, <<>>) /\ UNCHANGED metadata
    /\ UNCHANGED <<tokenVars, modeVars, lockVars, stored, queue, serverVars, bounds>>

\* The server reads its table.
Serve(p) ==
    /\ At(p, "serve")
    /\ handler' = Going([handler EXCEPT ![p].version = vault], p, Rest(p))
    /\ UNCHANGED <<tokenVars, modeVars, lockVars, cacheVars, serverVars, bounds>>

Receive(p) ==
    /\ At(p, "receive")
    /\ LET record == [token |-> token, version |-> handler[p].version] IN
       \/ /\ Current(p)
          /\ metadata' = record
          /\ Enqueue(p, "write", record)
          /\ Goes(p, <<"wait">>)
          /\ UNCHANGED bounds
       \/ ~Current(p) /\ Goes(p, <<>>) /\ UNCHANGED <<metadata, queue, bounds>>
       \/ /\ "token" \in handler[p].fresh /\ Act("reject")
          /\ Goes(p, ClearToken)
          /\ UNCHANGED <<metadata, queue>>
    /\ UNCHANGED <<tokenVars, modeVars, lockVars, stored, serverVars>>

\* The operation at the head of the queue.  A write checks once more before it
\* stores, and may fail.
QueueWorks ==
    /\ queue # <<>>
    /\ LET op == Head(queue) IN
       \/ op.kind = "clear" /\ stored' = None /\ queue' = Tail(queue)
       \/ op.kind = "read" /\ queue' = Tail(queue) /\ UNCHANGED stored
       \/ /\ op.kind = "write" /\ ~op.begun
          /\ queue' = IF Current(op.by) THEN [queue EXCEPT ![1].begun = TRUE] ELSE Tail(queue)
          /\ UNCHANGED stored
       \/ op.kind = "write" /\ op.begun /\ stored' \in {stored, op.record} /\ queue' = Tail(queue)
    /\ UNCHANGED <<tokenVars, modeVars, lockVars, metadata, handler, serverVars, bounds>>

(***************************************************************************)
(* Changes of logins (mutateEntries).  popupCache.mutate runs them one     *)
(* after the other (PopupCache); here any two may overlap.                 *)
(***************************************************************************)
Send(p) ==
    /\ At(p, "send")
    /\ IF token = None THEN Goes(p, ClearMetadata \o ClearToken)
       ELSE handler' = Going([handler EXCEPT ![p].fresh = {"token"}], p, Rest(p))
    /\ UNCHANGED <<tokenVars, modeVars, lockVars, cacheVars, serverVars, bounds>>

\* The server makes the change, or refuses it, or is not reached.
Apply(p) ==
    /\ At(p, "apply")
    /\ \/ /\ vault < MaxVersion
          /\ vault' = vault + 1
          /\ handler' = Going([handler EXCEPT ![p].version = vault'], p, Rest(p))
       \/ Continue(p) /\ UNCHANGED vault
    /\ UNCHANGED <<tokenVars, modeVars, lockVars, cacheVars, own, bounds>>

\* Its answer is heard, or lost, or of an earlier session, or refuses the token.
Answered(p) ==
    /\ At(p, "answer")
    /\ \/ "token" \in handler[p].fresh /\ Continue(p) /\ UNCHANGED bounds
       \/ /\ handler' = Going([handler EXCEPT ![p].version = None], p, Rest(p))
          /\ UNCHANGED bounds
       \/ /\ "token" \in handler[p].fresh /\ handler[p].version = None /\ Act("reject")
          /\ Goes(p, ClearMetadata \o ClearToken)
    /\ UNCHANGED <<tokenVars, modeVars, lockVars, cacheVars, serverVars>>

Mutated(p) ==
    /\ At(p, "mutated")
    /\ LET v == handler[p].version IN own' = IF v # None /\ v > own THEN v ELSE own
    /\ Continue(p)
    /\ UNCHANGED <<tokenVars, modeVars, lockVars, cacheVars, vault, bounds>>

(***************************************************************************)
(* The user, the browser and the world                                     *)
(***************************************************************************)
Messages(p) ==
    /\ Ready
    /\ \/ Act("check") /\ Start(p, "check", IsUnlocked)
       \/ Act("creds") /\ Start(p, "creds", Credentials)
       \/ Act("activity") /\ Start(p, "activity", ResetAutoLock)
       \/ Act("mutate") /\ Start(p, "mutate", Mutate)
       \/ Act("lock") /\ Start(p, "lock", ClearToken)
       \/ Act("minutes") /\ Start(p, "minutes", <<"get mode", "minutes", "new deadline">>)
    /\ UNCHANGED <<tokenVars, modeVars, lockVars, cacheVars, serverVars>>

\* Bound: the user logs in when no session is in memory.
StartLogin(p) ==
    /\ Ready /\ ~Locking /\ token = None /\ LoggingIn = {} /\ logins < MaxToken
    /\ Act("login")
    /\ Start(p, "login", Login)
    /\ UNCHANGED <<tokenVars, modeVars, lockVars, cacheVars, serverVars>>

\* The options page stores another mode, and the worker hears of it.
ChangeMode(m) ==
    /\ m # mode /\ ~modeEvent
    /\ Act("mode")
    /\ mode' = m /\ modeEvent' = TRUE
    /\ UNCHANGED <<tokenVars, cachedMode, lockVars, cacheVars, handler, serverVars>>

ModeChanged(p) ==
    /\ modeEvent /\ Ready
    /\ cachedMode' = mode /\ modeEvent' = FALSE
    /\ Start(p, "lock", ClearToken)
    /\ UNCHANGED <<tokenVars, mode, lockVars, cacheVars, serverVars, bounds>>

\* The listener for a token that was replaced or removed in browser storage.
TokenReplaced(p, t) ==
    /\ t \in replaced
    /\ replaced' = replaced \ {t}
    /\ Idle(p)
    /\ LET hs == IF token = t THEN Moved(handler, "token") ELSE handler IN
       handler' = [hs EXCEPT ![p] = [IdleHandler EXCEPT !.kind = "event", !.todo = ClearCache]]
    /\ token' = IF token = t THEN None ELSE token
    /\ UNCHANGED <<logins, clearing, saved, locked, modeVars, lockVars, cacheVars, serverVars, bounds>>

Elapse ==
    /\ "ahead" \in {deadline, alarm} \cup {handler[p].at : p \in Proc}
    /\ LET later(d) == IF d = "ahead" THEN "passed" ELSE d IN
       /\ deadline' = later(deadline) /\ alarm' = later(alarm)
       /\ handler' = [p \in Proc |-> [handler[p] EXCEPT !.at = later(@)]]
    /\ UNCHANGED <<tokenVars, modeVars, wiped, cacheVars, serverVars, bounds>>

AlarmFires(p) ==
    /\ alarm = "passed"
    /\ alarm' = None
    /\ Start(p, "lock", ClearToken)
    /\ UNCHANGED <<tokenVars, modeVars, deadline, wiped, cacheVars, serverVars, bounds>>

\* The worker is stopped and started, with the browser or without: memory is
\* lost, with the browser session storage too, and maybe the alarm.
Restart(p) ==
    /\ \/ Act("stop") /\ UNCHANGED <<saved, stored, alarm, replaced>>
       \/ /\ Act("quit")
          /\ saved' = [saved EXCEPT !["session"] = None]
          /\ stored' = None /\ replaced' = {}
          /\ alarm' \in {alarm, None}
    /\ token' = None /\ clearing' = FALSE /\ cachedMode' = None
    /\ metadata' = None /\ queue' = <<>>
    /\ handler' = [q \in Proc |-> IF q = p THEN [IdleHandler EXCEPT !.kind = "boot", !.todo = Load]
                                  ELSE IdleHandler]
    /\ UNCHANGED <<logins, locked, mode, modeEvent, deadline, wiped, serverVars>>

OutsideChange ==
    /\ Act("outside")
    /\ vault < MaxVersion
    /\ vault' = vault + 1
    /\ UNCHANGED <<tokenVars, modeVars, lockVars, cacheVars, handler, own>>

(***************************************************************************)
(* Behaviours                                                              *)
(***************************************************************************)
\* A new installation in one of the modes.
Init ==
    /\ scene \in Scene /\ acts = 0
    /\ mode \in scene.modes /\ cachedMode = None /\ modeEvent = FALSE
    /\ token = None /\ logins = 0 /\ clearing = FALSE
    /\ saved = [a \in Area |-> None] /\ replaced = {}
    /\ deadline = None /\ alarm = None /\ wiped = FALSE
    /\ metadata = None /\ stored = None /\ queue = <<>>
    /\ handler = [p \in Proc |-> IdleHandler]
    /\ vault = 0 /\ own = 0 /\ locked = FALSE

Step(p) ==
    \/ GetMode(p) \/ LoadBegins(p) \/ ReadSaved(p) \/ ReadDeadline(p) \/ SetToken(p)
    \/ RemoveDeadline(p) \/ ClearAlarm(p) \/ CreateAlarm(p) \/ SetDeadline(p) \/ MinutesChanged(p)
    \/ NewDeadline(p)
    \/ Forget(p) \/ ClearPopup(p) \/ Remove(p) \/ Cleared(p)
    \/ LoginSent(p) \/ LoginAnswered(p) \/ SaveToken(p) \/ UseToken(p) \/ Validate(p)
    \/ Waited(p) \/ ClearMetadataNow(p) \/ LookUp(p) \/ ReadStored(p) \/ Serve(p) \/ Receive(p)
    \/ Send(p) \/ Apply(p) \/ Answered(p) \/ Mutated(p)

\* What happens without anybody's doing.
Work ==
    \/ QueueWorks \/ Elapse
    \/ \E p \in Proc : Step(p) \/ ModeChanged(p) \/ AlarmFires(p)
    \/ \E p \in Proc, t \in Token : TokenReplaced(p, t)

Next ==
    \/ Work
    \/ \E p \in Proc : Messages(p) \/ StartLogin(p) \/ Restart(p)
    \/ \E m \in Mode : ChangeMode(m)
    \/ OutsideChange

\* JavaScript runs every task that is ready, time passes and alarms fire.
Spec == Init /\ [][Next]_vars /\ WF_vars(Work)

(***************************************************************************)
(* Properties                                                              *)
(***************************************************************************)
Record == [token : Token, version : Version]
Maybe(S) == S \cup {None}

\* Every variable has its type; a handler waits for at most one operation of
\* the storage queue, and none is left by a handler that has ended.
TypeOK ==
    /\ token \in Maybe(Token) /\ logins \in 0 .. MaxToken /\ clearing \in BOOLEAN
    /\ saved \in [Area -> Maybe(Token)] /\ replaced \subseteq Token
    /\ cachedMode \in Maybe(Mode) /\ mode \in Mode /\ modeEvent \in BOOLEAN
    /\ deadline \in Maybe(Time) /\ alarm \in Maybe(Time)
    /\ metadata \in Maybe(Record) /\ stored \in Maybe(Record)
    /\ vault \in Version /\ own \in 0 .. vault
    /\ locked \in BOOLEAN /\ wiped \in BOOLEAN
    /\ \A p \in Proc :
          /\ handler[p].fresh \subseteq Counter
          /\ Idle(p) <=> handler[p].todo = <<>>
          /\ Cardinality({i \in DOMAIN queue : queue[i].by = p}) <= (IF At(p, "wait") THEN 1 ELSE 0)

\* When a lock has ended, and until the next login is answered, no token and
\* no metadata is left, in memory or in either storage, whatever was under way
\* when the lock began and however many locks overlap (clearToken).
LockedIsEmpty ==
    locked => /\ token = None /\ \A a \in Area : saved[a] = None
              /\ metadata = None /\ stored = None

\* Metadata that would be used, from memory or from storage, is not older than
\* the last change of a login the extension was told of (mutateEntries,
\* getCredentialsForDomain).
MetadataCurrent ==
    \A record \in {metadata, stored} :
        record # None /\ (record.token = token \/ record.token \in {saved[a] : a \in Area})
        => record.version >= own

\* A session that locks by itself, and has its deadline, is locked in the end
\* if the user does nothing more, wherever the worker or the browser is
\* stopped in between and whatever loads, locks and new settings meet.  Not
\* when a load that found no token, or another mode, removes the deadline of
\* the login that came meanwhile.
AutoLockEnds ==
    (SelfLocking(mode) /\ ~modeEvent /\ deadline # None /\ ~wiped)
    ~> (~SelfLocking(mode) \/ wiped)
=============================================================================
