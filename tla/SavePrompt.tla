----------------------------- MODULE SavePrompt -----------------------------
(***************************************************************************)
(* Saving a login that was submitted on a website: the content script of   *)
(* one frame (content/detector.js), which captures the submission and      *)
(* shows banner and status messages, and the service worker                *)
(* (background/service-worker.js), which keeps the pending record, decides *)
(* what saving would do, and writes to the vault.                          *)
(*                                                                         *)
(* An action is a stretch of JavaScript between two awaits.  Messages of   *)
(* the five PENDING_WRITE_TYPES run one at a time (msgs); every read or    *)
(* change of the pending records goes through one queue (stateQueue) and   *)
(* is two steps, a read with the check of the session and a write.  A      *)
(* check or a save is a task.  An answer is received when it is given.     *)
(*                                                                         *)
(* The session is the number of times the token has changed, odd while     *)
(* unlocked (api.tokenGeneration).  A record carries the session it was    *)
(* written in, for the token that the code stores with it.  One frame and  *)
(* one website: records have keys of their own per frame and domain, and   *)
(* other tabs are the changes of the vault by others.  A login has the     *)
(* name of its user as its identity; the server keeps names unique.  Time  *)
(* is left out: what a timer does, may happen while it is armed.           *)
(***************************************************************************)
EXTENDS Naturals, Sequences, FiniteSets

CONSTANTS
    Sub,            \* submissions of the form, in their order
    Form,           \* what may be submitted: [name, secret, change]
    Name,           \* user names, and the logins of the vault that have them
    Secret,         \* passwords
    Url,            \* pages of the website
    Task,           \* checks and saves the worker handles; bound: their number
    Scene,          \* bounds: what may happen in one behaviour, and how often
    None,
    Folded,         \* [Name -> Name]: the name in lower case
    MaxGeneration   \* bound: logins and locks

\* What the user, the worker's browser and other clients may do.
Acts == {"name", "navigate", "show", "review", "dismiss", "timeout", "fail", "stop", "lock",
         "login", "expire", "outside"}

ASSUME ConstantAssumption ==
    /\ Form \subseteq [name : Name \cup {None}, secret : Secret, change : BOOLEAN]
    /\ Scene \subseteq [may : SUBSET Acts, acts : Nat, subs : Nat, forms : SUBSET Form,
                        vaults : SUBSET [Name -> Secret \cup {None}]]
    /\ Folded \in [Name -> Name]
    /\ \A n \in Name : Folded[Folded[n]] = Folded[n]
    /\ Sub \subseteq Nat
    /\ None \notin Sub \cup Name \cup Secret \cup Url \cup Task
    /\ Task \cap {"msg", "lock", "late"} = {}
    /\ MaxGeneration \in Nat \ {0}

VARIABLES
    generation,  \* api.tokenGeneration
    removing,    \* a lock is under way: the stored token is not removed yet
    late,        \* clearings a lock still owes: its caller and onChanged
    pend, user,  \* the pending credentials and user name of the frame
    stateQueue,  \* pendingStateQueue
    writing,     \* what the operation at its head is writing
    msgs,        \* pendingMessageQueue: messages that write
    task,        \* the checks and saves being handled
    page,        \* the document of the frame
    sub,         \* what each submission contains, and its page
    vault,       \* the passwords stored at the server
    settled,     \* history: submissions saved, dismissed, unchanged or expired
    captured,    \* history: submissions stored as pending
    consent,     \* history: logins the user named, or saw under Update
    scene, acts  \* the bounds of this behaviour, and its acts so far

sessionVars == <<generation, removing, late>>
recordVars == <<pend, user, writing>>
history == <<settled, captured, consent>>
bounds == <<scene, acts>>
vars == <<sessionVars, recordVars, stateQueue, msgs, task, page, sub, vault, history, bounds>>

Locked == generation % 2 = 0
Session == 0 .. MaxGeneration

PendRecord == [sub : Sub, ready : BOOLEAN, name : Name \cup {None}, gen : Session]
UserRecord == [name : Name, gen : Session]
Content == [name : Name \cup {None}, secret : Secret, change : BOOLEAN, url : Url]
Kinds == {"getPend", "setPend", "mark", "clearPend", "getUser", "setUser", "clearUser",
          "clearAll"}
Op == [by : Task \cup {"msg", "lock", "late"}, kind : Kinds, gen : Session,
       sub : Sub \cup {None}, name : Name \cup {None}]

ASSUME NoneAssumption == None \notin PendRecord \cup Content

(***************************************************************************)
(* The page                                                                *)
(***************************************************************************)
\* A document that was just loaded.
Document(u) ==
    [url |-> u, latest |-> None, storing |-> FALSE, armed |-> None, timer |-> None,
     listening |-> None, retry |-> None, banner |-> None, status |-> None]

ShowStatus(pg, s, action, manual) ==
    [pg EXCEPT !.status = [sub |-> s, action |-> action, manual |-> manual]]

\* A banner replaces the one that is there without clearing anything.
ShowBanner(pg, b) == [pg EXCEPT !.status = None, !.banner = b]

\* What the page makes of a check that failed: two retries, then a button.
\* Mutant: after the retries the page says nothing.
GiveUpSilently(pg, tk) ==
    IF tk.attempt < 2
    THEN [pg EXCEPT !.retry = [manual |-> tk.manual, sub |-> tk.sub, attempt |-> tk.attempt + 1]]
    ELSE pg

\* Mutant: three retries.
RetriesThrice(pg, tk) ==
    IF tk.attempt < 3
    THEN [pg EXCEPT !.retry = [manual |-> tk.manual, sub |-> tk.sub, attempt |-> tk.attempt + 1]]
    ELSE ShowStatus(pg, tk.sub, "retry", tk.manual)

CheckFailed(pg, tk) ==
    IF tk.attempt < 2
    THEN [pg EXCEPT !.retry = [manual |-> tk.manual, sub |-> tk.sub, attempt |-> tk.attempt + 1]]
    ELSE ShowStatus(pg, tk.sub, "retry", tk.manual)

\* handleFormSubmit, when the capture was refused or failed.
CaptureFailed(pg) == [ShowStatus(pg, None, "none", FALSE) EXCEPT !.armed = None, !.storing = FALSE]

(***************************************************************************)
(* Messages and tasks of the worker                                        *)
(***************************************************************************)
IdleTask ==
    [kind |-> "idle", pc |-> "idle", waits |-> FALSE, got |-> None, behind |-> 0,
     heard |-> FALSE, url |-> None, manual |-> FALSE, sub |-> None, attempt |-> 0,
     pending |-> None, name |-> None, entry |-> None, existing |-> {}, verdict |-> None]

Message(kind, s, n, heard) ==
    [kind |-> kind, gen |-> generation, sub |-> s, name |-> n, heard |-> heard,
     pc |-> "new", waits |-> FALSE, got |-> None]

Idle(t) == task[t].pc = "idle"

\* Bound: the user and the timers leave a task for each check that the answer
\* of a message in the queue may begin.
Spare == Cardinality({t \in Task : Idle(t)}) > Cardinality({i \in DOMAIN msgs : msgs[i].heard})

At(t, label) == task[t].pc = label /\ ~task[t].waits

\* The write message being handled.
Writes == IF msgs = <<>> THEN None ELSE Head(msgs)

\* Code that waits for nothing but the value it was given runs at once, before
\* any other event is handled.
Resumed(t) == ~task[t].waits /\ task[t].pc \in {"pend", "user", "recheck", "clearUser", "clearPend"}
MsgResumed == Writes # None /\ Writes.pc # "new" /\ ~Writes.waits
Calm == ~MsgResumed /\ \A t \in Task : ~Resumed(t)

Act(a) ==
    /\ Calm
    /\ a \in scene.may /\ acts < scene.acts
    /\ acts' = acts + 1
    /\ UNCHANGED scene

\* Tasks that wait for the messages before them see one fewer to wait for.
Advanced(ts) ==
    [t \in Task |-> IF ts[t].behind = 0 THEN ts[t] ELSE [ts[t] EXCEPT !.behind = @ - 1]]

\* CHECK_PENDING_CREDENTIALS and FORM_SUBMITTED wait for the write messages
\* that arrived before them; earlier is their number.
\* Mutant: they do not wait.
NoWait(earlier) == 0

Behind(earlier) == earlier

\* checkPendingCredentials, from a page in state pg: the answer of any
\* earlier check no longer counts.
BeginCheck(pg, ts, t, manual, s, attempt, earlier) ==
    /\ ts[t].pc = "idle"
    /\ task' = [ts EXCEPT ![t] = [IdleTask EXCEPT
           !.kind = "check", !.pc = "queued", !.heard = TRUE, !.url = pg.url, !.manual = manual,
           !.sub = s, !.attempt = attempt, !.behind = Behind(earlier)]]
    /\ page' = [pg EXCEPT !.listening = t, !.retry = None]

\* Await an operation on the pending records.
Ask(by, kind, s, n) ==
    stateQueue' = Append(stateQueue,
        [by |-> by, kind |-> kind, gen |-> generation, sub |-> s, name |-> n])

AskFor(t, tk, label, kind) ==
    /\ task' = [task EXCEPT ![t] = [tk EXCEPT !.pc = label, !.waits = TRUE]]
    /\ Ask(t, kind, tk.sub, None)

Step(t, tk, label) == task' = [task EXCEPT ![t] = [tk EXCEPT !.pc = label]]

\* The answer of task t: pg is the page that receives it, if it still listens.
Answer(t, pg) ==
    /\ task' = [task EXCEPT ![t] = IdleTask]
    /\ page' = IF task[t].kind = "check"
               THEN IF page.listening = t THEN [pg EXCEPT !.listening = None] ELSE page
               ELSE IF task[t].heard THEN pg ELSE page

(***************************************************************************)
(* updatePendingRecords                                                    *)
(***************************************************************************)
Own(record) == IF record # None /\ record.gen = generation THEN record ELSE None
OwnPend == Own(pend)
OwnUser == Own(user)

\* What an operation stores and returns; records of another session, or
\* written while locked, count as none.
Stores(p, u, got) == [pend |-> p, user |-> u, got |-> got]

\* clearPendingCredentials: only the record of the submission it names.
\* Mutant: whatever is there.
ClearedAny(s) == None

Cleared(s) == IF OwnPend # None /\ OwnPend.sub = s THEN None ELSE OwnPend

Update(op) ==
    CASE op.kind = "getPend" -> Stores(OwnPend, user, OwnPend)
      [] op.kind = "setPend" ->
             Stores([sub |-> op.sub, ready |-> FALSE, name |-> op.name, gen |-> generation],
                    user, op.sub)
      [] op.kind = "mark" ->
             IF OwnPend # None /\ OwnPend.sub = op.sub
             THEN Stores([OwnPend EXCEPT !.ready = TRUE], user, op.sub)
             ELSE Stores(OwnPend, user, None)
      [] op.kind = "clearPend" -> Stores(Cleared(op.sub), user, None)
      [] op.kind = "getUser" ->
             Stores(pend, OwnUser, IF OwnUser = None THEN None ELSE OwnUser.name)
      [] op.kind = "setUser" -> Stores(pend, [name |-> op.name, gen |-> generation], None)
      [] op.kind = "clearUser" -> Stores(pend, None, None)
      [] op.kind = "clearAll" -> Stores(None, None, None)

\* The operation's promise resolves.
Return(by, got) ==
    /\ task' = IF by \in Task
               THEN [task EXCEPT ![by].waits = FALSE, ![by].got = got]
               ELSE task
    /\ msgs' = IF by = "msg"
               THEN [msgs EXCEPT ![1].waits = FALSE, ![1].got = got]
               ELSE msgs

\* The records are read; an operation of an earlier session ends at once.
SameSession(op) == op.kind = "clearAll" \/ op.gen = generation

BeginOp ==
    /\ Calm
    /\ stateQueue # <<>> /\ writing = None
    /\ LET op == Head(stateQueue) IN
       IF SameSession(op)
       THEN /\ writing' = Update(op)
            /\ UNCHANGED <<stateQueue, task, msgs>>
       ELSE /\ stateQueue' = Tail(stateQueue)
            /\ Return(op.by, None)
            /\ UNCHANGED writing
    /\ UNCHANGED <<sessionVars, pend, user, page, sub, vault, history, bounds>>

\* The write lands and the value is returned, unless the session changed.
\* The clearing of a lock is followed by the removal of the stored token.
EndOp ==
    /\ Calm
    /\ writing # None
    /\ LET op == Head(stateQueue) IN
       /\ pend' = writing.pend
       /\ user' = writing.user
       /\ Return(op.by, IF op.gen = generation THEN writing.got ELSE None)
       /\ removing' = (removing /\ op.by # "lock")
       /\ captured' = captured \cup (IF op.kind = "setPend" THEN {op.sub} ELSE {})
    /\ writing' = None
    /\ stateQueue' = Tail(stateQueue)
    /\ UNCHANGED <<generation, late, page, sub, vault, settled, consent, bounds>>

(***************************************************************************)
(* Messages that write                                                     *)
(***************************************************************************)
\* The next message may begin; checks and saves wait for one fewer.
MessageDone == msgs' = Tail(msgs)

\* What the page does with the answer of PENDING_CREDENTIALS and of the
\* marker that its own timer sent.  A stored submission, or a marked one, is
\* checked; a refused one is reported.
Received(m, ok) ==
    LET ts == Advanced(task)
        latest == m.heard /\ m.kind = "creds" /\ page.storing /\ page.latest = m.sub
    IN  IF latest /\ ok
        THEN \E t \in Task : BeginCheck([page EXCEPT !.storing = FALSE, !.timer = m.sub],
                                        ts, t, FALSE, m.sub, 0, Len(msgs) - 1)
        ELSE IF m.heard /\ m.kind = "mark" /\ ok
        THEN \E t \in Task : BeginCheck(page, ts, t, FALSE, None, 0, Len(msgs) - 1)
        ELSE /\ task' = ts
             /\ page' = IF latest THEN CaptureFailed(page) ELSE page

\* dispatchMessage of the message at the head: handleMessage compared the
\* session with that of its arrival, and a locked vault captures nothing.
MsgBegin ==
    /\ Calm
    /\ Writes # None /\ Writes.pc = "new"
    /\ LET m == Writes
           Run(pc, kind, n) == /\ msgs' = [msgs EXCEPT ![1].pc = pc, ![1].waits = TRUE]
                               /\ Ask("msg", kind, m.sub, n)
                               /\ UNCHANGED <<task, page>>
       IN  IF m.gen # generation \/ (m.kind = "creds" /\ Locked)
           THEN MessageDone /\ Received(m, FALSE) /\ UNCHANGED stateQueue
           ELSE CASE m.kind = "creds" /\ m.name = None -> Run("name", "getUser", None)
                  [] m.kind = "creds" /\ m.name # None -> Run("store", "setPend", m.name)
                  [] m.kind = "mark" -> Run("store", "mark", None)
                  [] m.kind = "clear" -> Run("store", "clearPend", None)
                  [] m.kind = "user" -> Run("store", "setUser", m.name)
                  [] m.kind = "clearUser" -> Run("store", "clearUser", None)
    /\ UNCHANGED <<sessionVars, recordVars, sub, vault, history, bounds>>

\* The remembered user name has been read: the submission gets it.
MsgName ==
    /\ Writes # None /\ Writes.pc = "name" /\ ~Writes.waits
    /\ LET m == Writes IN
       IF m.gen # generation
       THEN MessageDone /\ Received(m, FALSE) /\ UNCHANGED stateQueue
       ELSE /\ msgs' = [msgs EXCEPT ![1].pc = "store", ![1].waits = TRUE]
            /\ Ask("msg", "setPend", m.sub, m.got)
            /\ UNCHANGED <<task, page>>
    /\ UNCHANGED <<sessionVars, recordVars, sub, vault, history, bounds>>

MsgEnd ==
    /\ Writes # None /\ Writes.pc = "store" /\ ~Writes.waits
    /\ MessageDone /\ Received(Writes, Writes.got # None)
    /\ UNCHANGED <<sessionVars, recordVars, stateQueue, sub, vault, history, bounds>>

(***************************************************************************)
(* Deciding what saving would do (getCredentialSaveDecision)               *)
(***************************************************************************)
\* The login with that very name, or the only one with it in another case.
Matching(existing, n) ==
    IF n \in existing THEN {n} ELSE {e \in existing : Folded[e] = Folded[n]}

\* What to compare with the typed password, and whether it is another login
\* than the one that was typed.
Decision(existing, n, change) ==
    LET found == IF n = None THEN existing ELSE Matching(existing, n)
        Choice(act, entries, foreign) ==
            [act |-> act, entry |-> IF entries = {} THEN None ELSE CHOOSE e \in entries : TRUE,
             foreign |-> foreign]
    IN  CASE n = None /\ Cardinality(found) = 1 -> Choice("compare", found, FALSE)
          [] n = None /\ Cardinality(found) # 1 -> Choice("missing", {}, FALSE)
          [] n # None /\ Cardinality(found) = 1 -> Choice("compare", found, FALSE)
          [] n # None /\ Cardinality(found) > 1 -> Choice("ambiguous", {}, FALSE)
          [] n # None /\ found = {} /\ change /\ Cardinality(existing) = 1 ->
                 Choice("compare", existing, TRUE)
          [] OTHER -> Choice("create", {}, FALSE)

\* compareExistingCredentialPassword: the login is read once more.
Compared(d, secret) ==
    IF d.act # "compare" THEN d
    ELSE [d EXCEPT !.act = IF vault[d.entry] = secret THEN "unchanged" ELSE "update"]

\* GET /entries: the token must be there.
List(t) ==
    /\ Calm
    /\ At(t, "list") /\ ~Locked
    /\ LET tk == [task[t] EXCEPT !.existing = {n \in Name : vault[n] # None}] IN
       IF tk.kind = "check"
       THEN Step(t, tk, "decide") /\ UNCHANGED stateQueue
       ELSE AskFor(t, tk, "pend", "getPend")
    /\ UNCHANGED <<sessionVars, recordVars, msgs, page, sub, vault, history, bounds>>

\* An error reaches the page: a login that is gone, no token, the network.
Failed(t) ==
    Answer(t, IF task[t].kind = "check" THEN CheckFailed(page, task[t])
              ELSE [page EXCEPT !.banner =
                        IF @ # None /\ @.saving = t THEN [@ EXCEPT !.saving = None] ELSE @])

RequestFails(t) ==
    /\ At(t, "list") \/ At(t, "decide") \/ At(t, "write")
    /\ (IF Locked THEN Calm /\ UNCHANGED <<scene, acts>> ELSE Act("fail"))
    /\ Failed(t)
    /\ UNCHANGED <<sessionVars, recordVars, stateQueue, msgs, sub, vault, history>>

\* The login is gone when it is read again (404), or the decision is made.
\* A save that must not go on says why.
Gone(t, d) == d.act = "compare" /\ vault[d.entry] = None

Refused(t) ==
    Answer(t, [page EXCEPT !.banner =
        IF @ # None /\ @.saving = t THEN [@ EXCEPT !.saving = None] ELSE @])

\* The banner turns into a question about another login.
AskToConfirm(t, e) ==
    /\ Answer(t, [page EXCEPT !.banner =
           IF @ # None /\ @.saving = t THEN [@ EXCEPT !.saving = None, !.entry = e] ELSE @])
    /\ consent' = IF task[t].heard /\ page.banner # None /\ page.banner.saving = t
                  THEN consent \cup {<<task[t].sub, e>>} ELSE consent

(***************************************************************************)
(* CHECK_PENDING_CREDENTIALS                                               *)
(***************************************************************************)
\* No pending password: a status message goes, and a manual check says so.
NothingPending(t) ==
    Answer(t, IF task[t].manual THEN ShowStatus(page, None, "none", FALSE)
              ELSE [page EXCEPT !.status = None])

\* A captured password that is not ready to be offered: Review shows it.
Available(t, s) ==
    Answer(t, IF page.banner = None THEN ShowStatus(page, s, "review", TRUE) ELSE page)

CheckBegin(t) ==
    /\ Calm
    /\ task[t].kind = "check" /\ At(t, "queued") /\ task[t].behind = 0
    /\ IF Locked
       THEN NothingPending(t) /\ UNCHANGED stateQueue
       ELSE AskFor(t, task[t], "pend", "getPend") /\ UNCHANGED page
    /\ UNCHANGED <<sessionVars, recordVars, msgs, sub, vault, history, bounds>>

CheckPend(t) ==
    /\ task[t].kind = "check" /\ At(t, "pend")
    /\ LET r == task[t].got
           tk == [task[t] EXCEPT !.pending = r, !.name = r.name]
       IN  IF r = None \/ (r # None /\ task[t].sub \notin {None, r.sub})
           THEN NothingPending(t) /\ UNCHANGED stateQueue
           ELSE IF ~r.ready /\ sub[r.sub].url = task[t].url /\ ~task[t].manual
           THEN Available(t, r.sub) /\ UNCHANGED stateQueue
           ELSE IF r.name = None
           THEN AskFor(t, tk, "user", "getUser") /\ UNCHANGED page
           ELSE Step(t, tk, "list") /\ UNCHANGED <<page, stateQueue>>
    /\ UNCHANGED <<sessionVars, recordVars, msgs, sub, vault, history, bounds>>

CheckUser(t) ==
    /\ task[t].kind = "check" /\ At(t, "user")
    /\ Step(t, [task[t] EXCEPT !.name = task[t].got], "list")
    /\ UNCHANGED <<sessionVars, recordVars, stateQueue, msgs, page, sub, vault, history, bounds>>

CheckDecide(t) ==
    /\ Calm
    /\ task[t].kind = "check" /\ At(t, "decide") /\ ~Locked
    /\ LET tk == task[t]
           form == sub[tk.pending.sub]
           d == Decision(tk.existing, tk.name, form.change)
       IN  IF Gone(t, d)
           THEN Failed(t) /\ UNCHANGED stateQueue
           ELSE /\ AskFor(t, [tk EXCEPT !.verdict = Compared(d, form.secret)], "recheck", "getPend")
                /\ UNCHANGED page
    /\ UNCHANGED <<sessionVars, recordVars, msgs, sub, vault, history, bounds>>

\* The record is read again: the answer must be about the submission that is
\* pending now.  The answer says what Save will do; an account is chosen in
\* the banner when the name does not tell.
CheckAgain(t) ==
    /\ task[t].kind = "check" /\ At(t, "recheck")
    /\ LET tk == task[t]
           s == tk.pending.sub
           v == tk.verdict
           shown == v.act = "update" /\ page.listening = t
                        /\ (page.banner = None \/ (page.banner # None /\ page.banner.sub # s))
       IN  IF tk.got = None \/ (tk.got # None /\ tk.got.sub # s)
           THEN NothingPending(t) /\ UNCHANGED <<stateQueue, consent>>
           ELSE IF v.act = "unchanged"
           THEN /\ AskFor(t, [tk EXCEPT !.sub = s], "clearUser", "clearUser")
                /\ UNCHANGED <<page, consent>>
           ELSE /\ Answer(t, IF page.banner # None /\ page.banner.sub = s THEN page
                             ELSE ShowBanner(page,
                                [sub |-> s, name |-> tk.name, saving |-> None,
                                 entry |-> IF v.act = "update" THEN v.entry ELSE None,
                                 accounts |-> IF v.act \in {"missing", "ambiguous"}
                                              THEN tk.existing ELSE {},
                                 choose |-> v.act \in {"missing", "ambiguous"}]))
                /\ consent' = IF shown THEN consent \cup {<<s, v.entry>>} ELSE consent
                /\ UNCHANGED stateQueue
    /\ UNCHANGED <<sessionVars, recordVars, msgs, sub, vault, settled, captured, bounds>>

(***************************************************************************)
(* FORM_SUBMITTED                                                          *)
(***************************************************************************)
SaveBegin(t) ==
    /\ Calm
    /\ task[t].kind = "save" /\ At(t, "queued") /\ task[t].behind = 0
    /\ IF Locked THEN Refused(t) ELSE Step(t, task[t], "list") /\ UNCHANGED page
    /\ UNCHANGED <<sessionVars, recordVars, stateQueue, msgs, sub, vault, history, bounds>>

\* The pending record must be that of the submission the banner was about.
SavePend(t) ==
    /\ task[t].kind = "save" /\ At(t, "pend")
    /\ LET r == task[t].got IN
       IF r = None \/ (r # None /\ r.sub # task[t].sub)
       THEN Refused(t) /\ UNCHANGED stateQueue
       ELSE AskFor(t, [task[t] EXCEPT !.pending = r], "user", "getUser") /\ UNCHANGED page
    /\ UNCHANGED <<sessionVars, recordVars, msgs, sub, vault, history, bounds>>

SaveUser(t) ==
    /\ task[t].kind = "save" /\ At(t, "user")
    /\ Step(t, [task[t] EXCEPT !.name = IF @ = None THEN task[t].got ELSE @], "decide")
    /\ UNCHANGED <<sessionVars, recordVars, stateQueue, msgs, page, sub, vault, history, bounds>>

\* An update of another login than the one that was named is asked for first.
\* Mutant: it is not.
NeedsNoConfirmation(tk, v) == v.act = "update" /\ tk.name = None

NeedsConfirmation(tk, v) == v.act = "update" /\ (v.foreign \/ tk.name = None)

\* With a login that was confirmed: that one.  Otherwise the decision is made
\* again, on the logins of this moment.
SaveDecide(t) ==
    /\ Calm
    /\ task[t].kind = "save" /\ At(t, "decide") /\ ~Locked
    /\ LET tk == task[t]
           form == sub[tk.sub]
           chosen == [act |-> "compare", entry |-> tk.entry, foreign |-> FALSE]
           d == IF tk.entry # None THEN chosen ELSE Decision(tk.existing, tk.name, form.change)
           v == Compared(d, form.secret)
       IN  IF tk.entry # None /\ tk.entry \notin tk.existing
           THEN Refused(t) /\ UNCHANGED <<stateQueue, consent>>
           ELSE IF Gone(t, d)
           THEN Failed(t) /\ UNCHANGED <<stateQueue, consent>>
           ELSE IF v.act = "unchanged"
           THEN AskFor(t, tk, "clearUser", "clearUser") /\ UNCHANGED <<page, consent>>
           ELSE IF v.act \in {"ambiguous", "missing"}
           THEN Refused(t) /\ UNCHANGED <<stateQueue, consent>>
           ELSE IF tk.entry = None /\ NeedsConfirmation(tk, v)
           THEN AskToConfirm(t, v.entry) /\ UNCHANGED stateQueue
           ELSE /\ Step(t, [tk EXCEPT !.verdict = v], "write")
                /\ UNCHANGED <<stateQueue, page, consent>>
    /\ UNCHANGED <<sessionVars, recordVars, msgs, sub, vault, settled, captured, bounds>>

\* PUT or POST /entries: the server keeps names unique.
Target(t) == IF task[t].verdict.act = "create" THEN task[t].name ELSE task[t].verdict.entry
Accepted(t) == (task[t].verdict.act = "create") <=> (vault[Target(t)] = None)
Stored(t) == vault' = [vault EXCEPT ![Target(t)] = sub[task[t].sub].secret]

SaveWrite(t) ==
    /\ Calm
    /\ At(t, "write") /\ ~Locked
    /\ IF Accepted(t)
       THEN Stored(t) /\ AskFor(t, task[t], "clearUser", "clearUser") /\ UNCHANGED page
       ELSE Failed(t) /\ UNCHANGED <<vault, stateQueue>>
    /\ UNCHANGED <<sessionVars, recordVars, msgs, sub, history, bounds>>

\* The server stores it, and the answer is lost.
SaveAnswerLost(t) ==
    /\ At(t, "write") /\ ~Locked /\ Accepted(t) /\ Act("fail")
    /\ Stored(t) /\ Failed(t)
    /\ UNCHANGED <<sessionVars, recordVars, stateQueue, msgs, sub, history>>

\* What is saved, or unchanged, is no longer pending.
ClearPend(t) ==
    /\ At(t, "clearUser")
    /\ AskFor(t, task[t], "clearPend", "clearPend")
    /\ settled' = settled \cup {task[t].sub}
    /\ UNCHANGED <<sessionVars, recordVars, msgs, page, sub, vault, captured, consent, bounds>>

CheckUnchanged(t) ==
    /\ task[t].kind = "check" /\ At(t, "clearPend")
    /\ NothingPending(t)
    /\ UNCHANGED <<sessionVars, recordVars, stateQueue, msgs, sub, vault, history, bounds>>

\* dismissBanner: the banner goes, and clears once more.
SaveEnd(t) ==
    /\ task[t].kind = "save" /\ At(t, "clearPend")
    /\ Answer(t, [page EXCEPT !.banner = IF @ # None /\ @.saving = t THEN None ELSE @])
    /\ msgs' = IF task[t].heard
               THEN msgs \o <<Message("clear", task[t].sub, None, FALSE),
                              Message("clearUser", None, None, FALSE)>>
               ELSE msgs
    /\ UNCHANGED <<sessionVars, recordVars, stateQueue, sub, vault, history, bounds>>

(***************************************************************************)
(* The user and the document                                               *)
(***************************************************************************)
Unheard(ms) == [i \in DOMAIN ms |-> [ms[i] EXCEPT !.heard = FALSE]]
UnheardTasks == [t \in Task |-> [task[t] EXCEPT !.heard = FALSE]]

\* handleFormSubmit with a password: whatever the page showed or waited for
\* belongs to an earlier submission.
Submit(s, f) ==
    /\ Calm /\ Spare
    /\ s <= scene.subs /\ f \in scene.forms
    /\ {r \in Sub : sub[r] = None /\ r <= s} = {s}
    /\ sub' = [sub EXCEPT ![s] = [name |-> f.name, secret |-> f.secret, change |-> f.change,
                                  url |-> page.url]]
    /\ page' = [Document(page.url) EXCEPT !.latest = s, !.storing = TRUE, !.armed = s]
    /\ msgs' = Append(msgs, Message("creds", s, f.name, TRUE))
    /\ consent' = consent \cup (IF f.name = None THEN {} ELSE {<<s, f.name>>})
    /\ UNCHANGED <<sessionVars, recordVars, stateQueue, task, vault, settled, captured, bounds>>

\* handleFormSubmit without one: the first step of a login in two steps.
TypeName(n) ==
    /\ Act("name")
    /\ msgs' = Append(msgs, Message("user", None, n, FALSE))
    /\ consent' = consent \cup {<<None, n>>}
    /\ UNCHANGED <<sessionVars, recordVars, stateQueue, task, page, sub, vault, settled, captured>>

\* The form has vanished for a second: the page marks its submission.
Transition ==
    /\ Calm
    /\ page.timer # None /\ Spare
    /\ msgs' = Append(msgs, Message("mark", page.timer, None, TRUE))
    /\ page' = [page EXCEPT !.timer = None]
    /\ UNCHANGED <<sessionVars, recordVars, stateQueue, task, sub, vault, history, bounds>>

\* It has not, for thirty seconds; so long does a submission stay armed.
TimersEnd ==
    /\ Act("timeout")
    /\ page.timer # None \/ page.armed # None
    /\ \E b \in BOOLEAN : page' = IF b THEN [page EXCEPT !.timer = None]
                                  ELSE [page EXCEPT !.armed = None]
    /\ UNCHANGED <<sessionVars, recordVars, stateQueue, msgs, task, sub, vault, history>>

\* pagehide of a document marks its armed submission; the next one checks.
Navigate(u) ==
    /\ Act("navigate")
    /\ LET marks == IF page.armed = None THEN <<>>
                    ELSE <<Message("mark", page.armed, None, FALSE)>> IN
       /\ msgs' = Unheard(msgs) \o marks
       /\ \E t \in Task : BeginCheck(Document(u), UnheardTasks, t, FALSE, None, 0,
                                     Len(msgs) + Len(marks))
    /\ UNCHANGED <<sessionVars, recordVars, stateQueue, sub, vault, history>>

\* visibilitychange, or refresh by the worker.
BecomesVisible ==
    /\ Act("show") /\ Spare
    /\ \E t \in Task : BeginCheck(page, task, t, FALSE, None, 0, Len(msgs))
    /\ UNCHANGED <<sessionVars, recordVars, stateQueue, msgs, sub, vault, history>>

RetryTimer ==
    /\ Calm
    /\ page.retry # None /\ Spare
    /\ \E t \in Task : BeginCheck(page, task, t, page.retry.manual, page.retry.sub,
                                  page.retry.attempt, Len(msgs))
    /\ UNCHANGED <<sessionVars, recordVars, stateQueue, msgs, sub, vault, history, bounds>>

\* Review or Retry.
StatusAction ==
    /\ page.status # None /\ page.status.action # "none" /\ Spare /\ Act("review")
    /\ \E t \in Task : BeginCheck([page EXCEPT !.status = None], task, t,
                                  page.status.manual, page.status.sub, 0, Len(msgs))
    /\ UNCHANGED <<sessionVars, recordVars, stateQueue, msgs, sub, vault, history>>

\* The cross: no check under way counts any more, and the submission the
\* message was about is cleared.
StatusDismiss ==
    /\ page.status # None /\ Act("dismiss")
    /\ LET s == page.status.sub
           quiet == [page EXCEPT !.status = None, !.listening = None, !.retry = None]
       IN  IF s = None
           THEN page' = quiet /\ UNCHANGED <<msgs, settled>>
           ELSE /\ page' = [quiet EXCEPT !.timer = None, !.armed = None]
                /\ msgs' = Append(msgs, Message("clear", s, None, FALSE))
                /\ settled' = settled \cup {s}
    /\ UNCHANGED <<sessionVars, recordVars, stateQueue, task, sub, vault, captured, consent>>

StatusExpires ==
    /\ page.status # None /\ Act("timeout")
    /\ page' = [page EXCEPT !.status = None]
    /\ UNCHANGED <<sessionVars, recordVars, stateQueue, msgs, task, sub, vault, history>>

\* Dismiss, or the banner's five minutes.
BannerDismiss ==
    /\ page.banner # None /\ Act("dismiss")
    /\ page' = [page EXCEPT !.banner = None]
    /\ msgs' = msgs \o <<Message("clear", page.banner.sub, None, FALSE),
                         Message("clearUser", None, None, FALSE)>>
    /\ settled' = settled \cup {page.banner.sub}
    /\ UNCHANGED <<sessionVars, recordVars, stateQueue, task, sub, vault, captured, consent>>

\* Save or Update, with the account selected and the name entered where the
\* banner asks for them.
SaveClick(t, e, n) ==
    LET b == page.banner IN
    /\ Calm
    /\ b # None /\ b.saving = None /\ Idle(t) /\ Spare
    /\ e \in {b.entry} \cup (IF b.choose THEN b.accounts \cup {None} ELSE {})
    /\ IF b.choose /\ e = None THEN n # None ELSE n = b.name
    /\ page' = [page EXCEPT !.banner = [b EXCEPT !.saving = t, !.entry = e, !.name = n]]
    /\ task' = [task EXCEPT ![t] = [IdleTask EXCEPT
           !.kind = "save", !.pc = "queued", !.heard = TRUE, !.url = page.url,
           !.sub = b.sub, !.name = n, !.entry = e, !.behind = Behind(Len(msgs))]]
    /\ consent' = consent \cup (IF b.choose /\ n # None THEN {<<b.sub, n>>} ELSE {})
                          \cup (IF b.choose /\ e # None THEN {<<b.sub, e>>} ELSE {})
    /\ UNCHANGED <<sessionVars, recordVars, stateQueue, msgs, sub, vault, settled, captured, bounds>>

(***************************************************************************)
(* The session, the worker and the world                                   *)
(***************************************************************************)
\* Mutant: the records are removed without waiting for a write under way.
LockClearsAtOnce ==
    /\ ~Locked /\ ~removing /\ generation < MaxGeneration /\ Act("lock")
    /\ generation' = generation + 1
    /\ pend' = None /\ user' = None
    /\ UNCHANGED <<removing, late, writing, stateQueue, msgs, task, page, sub, vault, history>>

\* clearToken up to its first await: onLock queues a clearing.
Lock ==
    /\ ~Locked /\ ~removing /\ generation < MaxGeneration /\ Act("lock")
    /\ generation' = generation + 1
    /\ removing' = TRUE /\ late' = TRUE
    /\ Ask("lock", "clearAll", None, None)
    /\ UNCHANGED <<recordVars, msgs, task, page, sub, vault, history>>

\* The alarm that locked, the error that did, or storage.onChanged clears
\* once more; a login may have come in between.
LateClear ==
    /\ Calm
    /\ late /\ ~removing
    /\ late' = FALSE
    /\ Ask("late", "clearAll", None, None)
    /\ UNCHANGED <<generation, removing, recordVars, msgs, task, page, sub, vault, history, bounds>>

Login ==
    /\ Locked /\ ~removing /\ generation < MaxGeneration /\ Act("login")
    /\ generation' = generation + 1
    /\ UNCHANGED <<removing, late, recordVars, stateQueue, msgs, task, page, sub, vault, history>>

\* The worker is stopped and started: what it was doing is lost, and the page
\* reads an error for every message it still waits for.  The write under way
\* may have landed.  A lock that had not removed the token did not happen;
\* without a token, initializeServiceWorker clears all.
Restart ==
    /\ Act("stop")
    /\ msgs # <<>> \/ stateQueue # <<>> \/ \E t \in Task : ~Idle(t)
    /\ IF writing = None THEN UNCHANGED <<pend, user>>
       ELSE \/ pend' = writing.pend /\ user' = writing.user
            \/ UNCHANGED <<pend, user>>
    /\ captured' = captured \cup (IF writing = None \/ pend' = None THEN {} ELSE {pend'.sub})
    /\ writing' = None
    /\ generation' = IF removing THEN generation - 1 ELSE generation
    /\ removing' = FALSE
    /\ late' = FALSE
    /\ msgs' = <<>>
    /\ stateQueue' = IF generation' % 2 = 1 THEN <<>>
                     ELSE <<[by |-> "late", kind |-> "clearAll", gen |-> generation',
                             sub |-> None, name |-> None]>>
    /\ task' = [t \in Task |-> IdleTask]
    /\ LET p1 == IF page.storing THEN CaptureFailed(page) ELSE page
           p2 == IF p1.banner # None THEN [p1 EXCEPT !.banner.saving = None] ELSE p1
       IN  page' = IF page.listening = None THEN p2
                   ELSE [CheckFailed(p2, task[page.listening]) EXCEPT !.listening = None]
    /\ UNCHANGED <<sub, vault, settled, consent>>

\* A record is too old: nobody reads it any more.
Expire ==
    /\ Act("expire") /\ writing = None
    /\ \/ pend # None /\ pend' = None /\ settled' = settled \cup {pend.sub} /\ UNCHANGED user
       \/ user # None /\ user' = None /\ UNCHANGED <<pend, settled>>
    /\ UNCHANGED <<sessionVars, writing, stateQueue, msgs, task, page, sub, vault, captured, consent>>

\* The popup, another tab or another client changes the vault.
OutsideChange(n, v) ==
    /\ Act("outside")
    /\ vault[n] # v
    /\ vault' = [vault EXCEPT ![n] = v]
    /\ UNCHANGED <<sessionVars, recordVars, stateQueue, msgs, task, page, sub, history>>

(***************************************************************************)
(* Behaviours                                                              *)
(***************************************************************************)
\* The vault is open and the page has just been loaded.
Init ==
    /\ scene \in Scene /\ acts = 0
    /\ generation = 1 /\ removing = FALSE /\ late = FALSE
    /\ pend = None /\ user = None /\ stateQueue = <<>> /\ writing = None
    /\ msgs = <<>> /\ task = [t \in Task |-> IdleTask]
    /\ page \in {Document(u) : u \in Url}
    /\ sub = [s \in Sub |-> None]
    /\ vault \in scene.vaults
    /\ settled = {} /\ captured = {} /\ consent = {}

\* What runs on from a value it waited for.
Resume ==
    \/ MsgName \/ MsgEnd
    \/ \E t \in Task :
         \/ CheckPend(t) \/ CheckUser(t) \/ CheckAgain(t) \/ CheckUnchanged(t)
         \/ SavePend(t) \/ SaveUser(t) \/ ClearPend(t) \/ SaveEnd(t)

\* What the worker does with its messages, and the page with its timers.
Work ==
    \/ BeginOp \/ EndOp \/ MsgBegin \/ RetryTimer \/ LateClear
    \/ \E t \in Task :
         \/ CheckBegin(t) \/ CheckDecide(t) \/ SaveBegin(t) \/ SaveDecide(t) \/ SaveWrite(t)
         \/ List(t)
         \/ Locked /\ RequestFails(t)

Next ==
    \/ Resume \/ Work
    \/ \E s \in Sub, f \in Form : Submit(s, f)
    \/ \E n \in Name : TypeName(n)
    \/ \E t \in Task, e \in Name \cup {None}, n \in Name \cup {None} : SaveClick(t, e, n)
    \/ \E u \in Url : Navigate(u)
    \/ Transition \/ TimersEnd \/ BecomesVisible
    \/ StatusAction \/ StatusDismiss \/ StatusExpires \/ BannerDismiss
    \/ Restart \/ \E t \in Task : RequestFails(t) \/ SaveAnswerLost(t)
    \/ Lock \/ Login \/ Expire
    \/ \E n \in Name, v \in Secret \cup {None} : OutsideChange(n, v)

\* JavaScript runs every task that is ready, and the timers of a page fire.
Spec == Init /\ [][Next]_vars /\ WF_vars(Resume \/ Work)

(***************************************************************************)
(* Properties                                                              *)
(***************************************************************************)
Retry == [manual : BOOLEAN, sub : Sub \cup {None}, attempt : 0 .. 2]
Banner == [sub : Sub, name : Name \cup {None}, entry : Name \cup {None},
           saving : Task \cup {None}, accounts : SUBSET Name, choose : BOOLEAN]
Status == [sub : Sub \cup {None}, action : {"none", "review", "retry"}, manual : BOOLEAN]

\* Every variable has its type, and an operation that writes is at the head
\* of its queue: updatePendingRecords runs one at a time.
TypeOK ==
    /\ generation \in Session /\ removing \in BOOLEAN /\ late \in BOOLEAN
    /\ pend \in PendRecord \cup {None} /\ user \in UserRecord \cup {None}
    /\ stateQueue \in Seq(Op)
    /\ writing # None => stateQueue # <<>> /\ writing.pend \in PendRecord \cup {None}
    /\ page.url \in Url /\ page.storing \in BOOLEAN /\ page.listening \in Task \cup {None}
    /\ {page.latest, page.armed, page.timer} \subseteq Sub \cup {None}
    /\ page.retry \in Retry \cup {None}
    /\ page.banner \in Banner \cup {None} /\ page.status \in Status \cup {None}
    /\ \A t \in Task : task[t].attempt \in 0 .. 2 /\ task[t].behind \in 0 .. Len(msgs)
    /\ vault \in [Name -> Secret \cup {None}]
    /\ settled \subseteq Sub /\ captured \subseteq Sub /\ acts \in 0 .. scene.acts

\* When a lock has ended, no submitted password is left in browser storage,
\* and no user name that was remembered while the vault was open: not by a
\* write that was under way when the lock began.
LockedLeavesNoPending ==
    Locked /\ ~removing =>
        /\ pend = None
        /\ user # None => user.gen = generation

\* The banner is about the newest captured submission of its document: the
\* answer to a check that is overtaken by a new submission is not shown.
BannerIsNewest ==
    page.banner # None /\ page.latest \in captured => page.banner.sub = page.latest

\* A pending submission goes when it was saved, dismissed, found unchanged or
\* has expired, when a newer one takes its place, or by the clearing of a
\* lock.  No late save, dismissal or marker of another submission clears it.
SubmissionKept ==
    [][\A s \in Sub :
          pend # None /\ pend.sub = s /\ (pend' = None \/ (pend' # None /\ pend'.sub # s))
          => \/ s \in settled'
             \/ pend' # None
             \/ stateQueue # <<>> /\ (Head(stateQueue).kind = "clearAll" \/ pend.gen # generation)]_vars

\* A save replaces the password only of a login whose name the user gave for
\* this submission, or that the banner named with Update before the click.
OnlyConfirmedLogins ==
    [][\A t \in Task, n \in Name :
          At(t, "write") /\ task'[t].pc # "write" /\ vault[n] # None /\ vault'[n] # vault[n]
          => \E c \in consent :
                /\ Folded[c[2]] = Folded[n]
                /\ c[1] = task[t].sub
                   \/ (c[1] = None /\ sub[task[t].sub].name = None)]_vars

\* A lock that has ended still owes a clearing, or has queued it.
Clearing == late \/ \E i \in DOMAIN stateQueue : stateQueue[i].kind = "clearAll"

\* Every submission is answered: by a banner or a status message, by finding
\* it stored already, by a newer submission or document, or by a lock (the
\* clearings of which may reach into the next session).
EverySubmissionAnswered ==
    \A s \in Sub :
        page.latest = s /\ page.storing
        ~> \/ page.latest # s \/ page.banner # None \/ page.status # None
           \/ s \in settled \/ Locked \/ Clearing

=============================================================================
