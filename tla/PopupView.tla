------------------------------ MODULE PopupView ------------------------------
(***************************************************************************)
(* What the extension's popup shows: its screens, lists and dialogs        *)
(* (popup/popup.js with components/login.js, entry-list.js, entry-detail.js *)
(* and entry-form.js), over a service worker that answers its messages.    *)
(*                                                                         *)
(* The popup is one thread.  Its state is the record popup, and every      *)
(* handler is a function from the popup to the popup, so that handlers     *)
(* that call one another read as they do in the code.  An action is a      *)
(* stretch of code between two awaits.  sent holds the requests the popup  *)
(* waits for and inbox what the browser still has to hand to it: answers,  *)
(* announcements of the worker (POPUP_CACHE_CHANGED) and of a token that   *)
(* was replaced or removed (storage.onChanged), in the order they were     *)
(* sent.                                                                   *)
(*                                                                         *)
(* The code compares counters (vaultViewGeneration, renderGeneration,      *)
(* revision, cacheGeneration, and in the worker tokenGeneration and the    *)
(* generation of the cache of logins) with values read earlier.  They only *)
(* grow: a request keeps in fresh the counters that have not moved since.  *)
(*                                                                         *)
(* The worker answers in one step, as PopupCache shows it may for logins;  *)
(* a list of vault items is read first and answered later.  The session is *)
(* the number of times the token changed, odd while unlocked.  Cards stand *)
(* for the three types of vault items, whose code is the same.  Removing a *)
(* key from browser storage is part of the step that asks for it.  The     *)
(* clipboard, search, pages, focus and the password generator are left     *)
(* out.                                                                    *)
(***************************************************************************)
EXTENDS Naturals, Sequences, FiniteSets

CONSTANTS
    Login,        \* ids of logins
    Item,         \* ids of vault items
    Card,         \* what a card may contain
    Scene,        \* bounds: what may happen in one behaviour, and how often
    None,
    MaxVersion,   \* bound: changes of one login
    MaxSession    \* bound: logins and locks

Acts == {"unlock", "poll", "lock", "expire", "tab", "open", "back", "reveal", "edit", "add",
         "save", "cancel", "delete", "dialog", "addCard", "editCard", "deleteCard", "age",
         "clear", "refresh", "remove", "fail", "close"}

ASSUME ConstantAssumption ==
    /\ Scene \subseteq [may : SUBSET Acts, acts : Nat, session : {0, 1}, logins : [Login -> {0, 1}],
                        local : Seq(Card), vault : [Item -> Card \cup {None}], resume : Login \cup {None}]
    /\ "list" \notin Login
    /\ None \notin Login \cup Item \cup Card
    /\ MaxVersion \in Nat \ {0}
    /\ MaxSession \in Nat \ {0} /\ MaxSession % 2 = 0

Gone == MaxVersion + 1
Version == 0 .. Gone                \* 0: not yet created, Gone: deleted
There(v) == v \in 1 .. MaxVersion
Session == 0 .. MaxSession

\* What the popup and the worker hold of the vault.
ListType == [session : Session, of : [Login -> Version]]
LoginType == [id : Login, version : Version, session : Session]
CardsType == [session : Session, changes : Nat, of : [Item -> Card \cup {None}]]

ASSUME NoneAssumption == None \notin ListType /\ None \notin LoginType /\ None \notin CardsType

Tabs == {"passwords", "cards"}
Key == Login \cup {"list"}

VARIABLES
    popup,     \* the popup
    session,   \* api.tokenGeneration
    logins,    \* the version of each login
    items,     \* the cards of the vault, and how often they were changed
    local,     \* cards that an old version of the extension left in storage
    own,       \* history: the last change of a login this popup was told of
    ownItems,  \* history: the last change of the cards it was told of
    closed,    \* history: the popup was closed
    scene, acts

worker == <<session, logins, items, local>>
history == <<own, ownItems, closed>>
vars == <<popup, worker, history, scene, acts>>

Locked == session % 2 = 0

(***************************************************************************)
(* Requests                                                                *)
(***************************************************************************)
\* The counters that the code after a request compares.
Compares(what) ==
    CASE what \in {"bootstrap", "login"} -> {"view"}
      [] what = "resume" -> {"view", "render"}
      [] what = "list" -> {"view", "render", "session", "logins"}
      [] what = "login entry" -> {"view", "render", "revision", "session", "logins"}
      [] what = "items" -> {"view", "render", "cache", "session"}
      [] what \in {"logout", "local", "forget local", "status"} -> {}
      [] OTHER -> {"view", "session"}

\* Requests to browser storage and to the server, not to the worker.
Storage == {"resume", "local", "forget local", "status"}
Mutations == {"create", "update", "delete"}
ItemMutations == {"create item", "update item", "delete item"}

Request(what, use, arg, chain) ==
    [what |-> what, use |-> use, arg |-> arg, chain |-> chain,
     fresh |-> Compares(what), got |-> None]

SendCall(p, c) == [p EXCEPT !.sent = Append(@, c)]
Send(p, what, use, arg) == SendCall(p, Request(what, use, arg, None))

\* Counters move: what compares them will see it.
Stale(c, counters) == [c EXCEPT !.fresh = @ \ counters]

StaleAnswer(e, counters) ==
    IF e.kind = "answer" THEN [e EXCEPT !.call = Stale(@, counters)] ELSE e

Bump(p, counters) ==
    [p EXCEPT !.sent = [i \in DOMAIN @ |-> Stale(@[i], counters)],
              !.inbox = [i \in DOMAIN @ |-> StaleAnswer(@[i], counters)],
              !.waiting = [i \in DOMAIN @ |-> Stale(@[i], counters)]]

Ok(data) == [code |-> "ok", data |-> data]
Failed(code) == [code |-> code, data |-> None]

\* History: what the code lets happen, and the properties exclude.  The start of
\* the popup put the login screen over an unlocked vault ("overlaid"); a view that
\* is locked got its lock button back, or asks for a card ("astray"); an unlocked
\* one ignored an announcement, having no lock button yet ("deaf").
Slip(p, what) == [p EXCEPT !.slips = @ \cup {what}]

Shows(p, screen) == screen \in p.screens
Show(p, screen) == [p EXCEPT !.screens = @ \cup {screen}]
Hide(p, screen) == [p EXCEPT !.screens = @ \ {screen}]

(***************************************************************************)
(* The list of logins (EntryList)                                          *)
(***************************************************************************)
Rows(kind, data) == [kind |-> kind, of |-> data]
Paint(p, kind, data) == [p EXCEPT !.rows = Rows(kind, data)]
OnPasswords(p) == Shows(p, "list") /\ p.tab = "passwords"

\* Mutant: the timer still runs.
ListKeepsTimer(p) ==
    LET q == [p EXCEPT !.list = None, !.old = @ \ {"list"}]
    IN  IF OnPasswords(p) THEN Paint(q, "reload", None) ELSE q

ListInvalidate(p) ==
    LET q == [p EXCEPT !.list = None, !.old = @ \ {"list"}, !.timers = @ \ {"list"}]
    IN  IF OnPasswords(p) THEN Paint(q, "reload", None) ELSE q

\* Mutant: what is read does not expire.
ListAppliedForGood(p, snapshot) ==
    LET q == [p EXCEPT !.list = snapshot, !.old = @ \ {"list"}]
    IN  IF OnPasswords(p) THEN Paint(q, "passwords", snapshot) ELSE q

ListApply(p, snapshot) ==
    LET q == [p EXCEPT !.list = snapshot, !.old = @ \ {"list"}, !.timers = @ \cup {"list"}]
    IN  IF OnPasswords(p) THEN Paint(q, "passwords", snapshot) ELSE q

\* refresh: from the cache only, or from the server.
ListRefresh(p, use) == Send(p, "list", use, None)

(***************************************************************************)
(* The cards (VaultSections)                                               *)
(***************************************************************************)
\* handleUnlock goes on when its list has been shown, or cannot be, and the login
\* screen is not busy any more.  The lock button appears, locked or not.
Finish(p, chain) ==
    IF chain # "unlock" THEN p
    ELSE [IF p.unlocked THEN p ELSE Slip(p, "astray") EXCEPT !.lockBtn = TRUE, !.busy = FALSE]

\* invalidateEntityCache.
ForgetCards(p) == [Bump(p, {"cache"}) EXCEPT !.cards = None]

OpenDialog(p, kind, id, data) ==
    [p EXCEPT !.dialogs = @ \cup {[kind |-> kind, id |-> id, of |-> data]}]

\* renderCards, and the lookup of the card that is edited or deleted, when
\* the list is there.
\* Mutant: a list is shown whatever was asked for since.
CardsShownAnyway(p, c, r) ==
    IF c.use # "render" \/ r.code # "ok" THEN p ELSE Paint(p, "cards", r.data)

CardsShown(p, c, r) ==
    CASE c.use = "render" ->
             IF "render" \notin c.fresh THEN p
             ELSE IF r.code = "ok" THEN IF p.tab = "cards" THEN Paint(p, "cards", r.data) ELSE p
             ELSE IF r.code = "lost" THEN p ELSE Paint(p, "failed", None)
      [] c.use \in {"edit", "delete"} ->
             IF r.code = "ok" /\ r.data.of[c.arg] # None
             THEN OpenDialog(p, IF c.use = "edit" THEN "edit card" ELSE "delete card", c.arg, r.data)
             ELSE p

\* listVaultEntities, after the fetch.
CardsListed(p, c, r) ==
    LET q == IF r.code = "ok" /\ "cache" \in c.fresh THEN [p EXCEPT !.cards = r.data] ELSE p
    IN  Finish(CardsShown(q, c, r), c.chain)

\* listVaultEntities, after the migration.
CardsFetch(c, p) ==
    IF p.cards # None
    THEN Finish(CardsShown(p, c, Ok(p.cards)), c.chain)
    ELSE SendCall(IF ~p.unlocked /\ c.use # "render" THEN Slip(p, "astray") ELSE p,
                  [c EXCEPT !.fresh = @ \cup {"view", "session"}])

\* listVaultEntities: the first to come migrates, others wait for it.
CardsList(p, use, id, chain) ==
    LET c == Request("items", use, id, chain)
        q == [p EXCEPT !.waiting = Append(@, c)]
    IN  CASE p.migration = "done" -> CardsFetch(c, p)
          [] p.migration = "no" -> [Send(q, "local", "migrate", None) EXCEPT !.migration = "running"]
          [] p.migration = "running" -> q

RenderCards(p, chain) == CardsList(Bump(p, {"render"}), "render", None, chain)

\* The migration ends, done or not; those who waited go on (GoOn).
MigrationEnds(p, state) == [p EXCEPT !.migration = state, !.left = <<>>, !.known = {}]

\* The next card the vault has not got; when there is none, the old storage
\* is emptied.
\* Mutant: every card is created, whatever the vault holds.
EveryCard(p) == DOMAIN p.left

Missing(p) == {i \in DOMAIN p.left : p.left[i] \notin p.known}

MigrateNext(p) ==
    IF Missing(p) = {}
    THEN Send(p, "forget local", "migrate", None)
    ELSE LET first == CHOOSE i \in Missing(p) : \A j \in Missing(p) : i <= j
         IN  Send(p, "create item", "migrate", p.left[first])

(***************************************************************************)
(* One login (EntryDetail) and its form (EntryForm)                        *)
(***************************************************************************)
DetailInvalidate(p) ==
    [Bump(p, {"revision"}) EXCEPT
        !.detail.login = None, !.detail.revealed = FALSE,
        !.old = @ \ {"detail"}, !.timers = @ \ {"detail"}]

\* applySnapshot; a cache that had nothing gives None.
DetailApply(p, login) ==
    IF login = None THEN DetailInvalidate(p)
    ELSE [p EXCEPT !.detail.login = login, !.detail.revealed = FALSE,
                   !.old = @ \ {"detail"}, !.timers = @ \cup {"detail"}]

DetailOpen(p, id) ==
    LET q == DetailInvalidate([Bump(p, {"render"}) EXCEPT !.detail.id = id])
    IN  Show(Hide(q, "list"), "detail")

DetailShow(p, id) == Send(DetailOpen(p, id), "login entry", "show", id)

DetailHide(p) ==
    Hide([DetailInvalidate(Bump(p, {"render"})) EXCEPT !.detail.id = None, !.resume = None],
         "detail")

DetailRefresh(p) ==
    IF p.detail.id # None /\ Shows(p, "detail")
    THEN Send(p, "login entry", "refresh", p.detail.id)
    ELSE p

\* clearSensitiveFields.
FormClear(p) ==
    [p EXCEPT !.form.editing = None, !.form.from = None,
              !.old = @ \ {"form"}, !.timers = @ \ {"form"}]

\* EntryList.show.  Another section than the passwords is searched anew
\* instead.
Filter(p) == IF p.tab = "passwords" THEN Paint(p, "passwords", p.list) ELSE RenderCards(p, None)

ListShow(p, snapshot, chain) ==
    LET q == Show(Bump(p, {"render"}), "list") IN
    IF snapshot # None THEN Finish(ListApply(q, snapshot), chain)
    ELSE SendCall(IF q.list # None /\ "list" \notin q.old THEN Filter(q) ELSE Paint(q, "loading", None),
                  Request("list", "show", None, chain))

FormClose(p) == ListShow(Hide(FormClear(p), "form"), None, None)

\* cancel: back to the login that was edited, or to the list.
FormCancel(p) ==
    LET q == FormClear(Hide(p, "form")) IN
    IF p.form.editing # None
    THEN DetailShow(q, p.form.editing)
    ELSE ListShow(q, None, None)

FormEdit(p) ==
    LET q == [p EXCEPT !.form.editing = p.detail.id, !.form.from = p.detail.login,
                       !.old = @ \ {"form"}, !.timers = @ \cup {"form"}]
    IN  Show(DetailHide(q), "form")

FormAdd(p) ==
    Show(Hide([Bump(p, {"render"}) EXCEPT !.form.editing = None, !.form.from = None,
                                          !.old = @ \ {"form"}, !.timers = @ \ {"form"}], "list"),
         "form")

(***************************************************************************)
(* Locking and unlocking the view                                          *)
(***************************************************************************)
\* setActiveTab.
SelectTab(p, tab, snapshot, chain) ==
    LET q == [Bump(p, {"render"}) EXCEPT !.tab = tab, !.screens = @ \ {"detail", "form"}] IN
    IF tab = "passwords" THEN ListShow(q, snapshot, chain)
    ELSE RenderCards(Paint(Show(q, "list"), "loading", None), chain)

\* clearVaultView.  Dialogs close, and what awaits them goes no further.
\* Mutant: what is on its way may still be shown.
ClearKeepsRequests(p) ==
    LET q == ListInvalidate(FormClear(DetailHide(ForgetCards(Bump(p, {"render"})))))
    IN  [Paint(q, "blank", None) EXCEPT !.dialogs = {}, !.lockBtn = FALSE, !.unlocked = FALSE, !.slips = {}, !.screens = {}]

ClearView(p) ==
    LET q == ListInvalidate(FormClear(DetailHide(ForgetCards(Bump(p, {"view", "render"})))))
    IN  [Paint(q, "blank", None) EXCEPT !.dialogs = {}, !.lockBtn = FALSE, !.unlocked = FALSE, !.slips = {}, !.screens = {}]

\* handleSessionLoss, and what the lock button and a replaced token do:
\* LoginScreen.show, whose display of the server's status is left out.
LoseSession(p) == Show(ClearView(p), "login")

\* showUnlockedVault, up to its wait for the login to return to; the list of
\* the snapshot travels with it.
ShowVault(p, snapshot, chain) ==
    LET q == [p EXCEPT !.screens = {}, !.lockBtn = TRUE, !.unlocked = TRUE]
        r == IF snapshot # None THEN ListApply(q, snapshot) ELSE q
    IN  SendCall(r, Request("resume", "show", snapshot, chain))

(***************************************************************************)
(* Answers                                                                 *)
(***************************************************************************)
Fresh(c, counters) == counters \subseteq c.fresh

\* The list of the vault, after the bootstrap has restored no login.
AfterRestore(p, c, snapshot) ==
    IF Fresh(c, {"view"}) THEN SelectTab(p, p.tab, snapshot, c.chain) ELSE p

BootstrapAnswer(p, c, r) ==
    IF r.code = "ok" /\ r.data.unlocked THEN ShowVault(p, r.data.snapshot, c.use)
    ELSE IF c.use = "resume" THEN p
    ELSE Send([p EXCEPT !.resume = IF r.code = "ok" THEN None ELSE @], "status", "boot", None)

ResumeAnswer(p, c) ==
    IF ~Fresh(c, {"render"}) THEN p
    ELSE IF p.resume = None THEN AfterRestore(p, c, c.arg)
    ELSE SendCall(DetailOpen([p EXCEPT !.tab = "passwords"], p.resume),
                  [Request("login entry", "restore", p.resume, c.chain) EXCEPT !.got = c.arg])

LoginAnswer(p, r) ==
    IF r.code = "ok" THEN SelectTab([Hide(ForgetCards(p), "login") EXCEPT !.unlocked = TRUE], p.tab, None, "unlock")
    ELSE [p EXCEPT !.busy = FALSE]

\* show, or refresh.
\* Mutant: an answer that is not shown ends nothing.
ListAnswerDropped(p, c, r) ==
    IF Fresh(c, {"render"}) /\ r.code = "ok" THEN Finish(ListApply(p, r.data), c.chain) ELSE p

ListAnswer(p, c, r) ==
    LET q == IF ~Fresh(c, {"render"}) \/ r.code \in {"lost", "changed"} THEN p
             ELSE IF r.code = "ok" THEN IF r.data # None THEN ListApply(p, r.data)
                                                         ELSE ListInvalidate(p)
             ELSE IF c.use = "show" THEN Paint(p, "failed", None) ELSE p
    IN  Finish(q, c.chain)

\* show: applied if nothing else was opened and nothing made it stale.  A
\* restored login that failed without an error gives way to the list.
DetailCurrent(c) == Fresh(c, {"render", "revision"})

DetailShown(p, c, r) ==
    IF r.code = "ok" /\ DetailCurrent(c)
    THEN [DetailApply(p, r.data) EXCEPT !.resume = p.detail.id]
    ELSE IF r.code \notin {"ok", "lost"} /\ Fresh(c, {"render"}) THEN DetailInvalidate(p)
    ELSE IF c.use = "restore" /\ Fresh(c, {"render"}) /\ ~Shows(p, "login")
    THEN AfterRestore([p EXCEPT !.resume = None], c, c.got)
    ELSE p

\* refresh and getActionEntry, and what the action does with the login.
DetailActs(p, c, r) ==
    IF r.code = "ok"
    THEN IF ~DetailCurrent(c) \/ (c.use # "refresh" /\ ~Shows(p, "detail")) THEN p
         ELSE LET q == DetailApply(p, r.data) IN
              IF q.detail.login = None THEN q
              ELSE CASE c.use = "reveal" -> [q EXCEPT !.detail.revealed = TRUE]
                     [] c.use = "edit" -> FormEdit(q)
                     [] c.use = "refresh" -> q
    ELSE IF r.code # "lost" /\ Fresh(c, {"render"}) THEN DetailInvalidate(p) ELSE p

\* handleSave, and the deletion of a login from the list or from its screen.
SavedAnswer(p, r) ==
    LET q == [p EXCEPT !.form.saving = FALSE]
    IN  IF r.code = "ok" THEN FormClose(q) ELSE q

DeletedAnswer(p, c, r) ==
    IF r.code # "ok" THEN p
    ELSE IF c.use = "detail" THEN ListShow(DetailHide(p), None, None)
    ELSE Filter(IF p.list = None THEN p ELSE [p EXCEPT !.list.of[c.arg] = Gone])

\* Steps of the migration.
MigrationAnswer(p, c, r) ==
    IF r.code # "ok" THEN MigrationEnds(p, "no")
    ELSE CASE c.what = "local" ->
                  IF r.data = <<>> THEN MigrationEnds(p, "done")
                  ELSE Send([p EXCEPT !.left = r.data], "items", "migrate", None)
           [] c.what = "items" ->
                  MigrateNext([p EXCEPT !.known = {r.data.of[i] : i \in Item}])
           [] c.what = "create item" -> MigrateNext([p EXCEPT !.known = @ \cup {c.arg}])
           [] c.what = "forget local" -> MigrationEnds(p, "done")

\* createVaultEntity and its kin, then the list again.
ItemChanged(p, r) == IF r.code = "ok" THEN RenderCards(ForgetCards(p), None) ELSE p

\* sendMessage: an answer of before the last lock is an error; a lost session
\* locks the view.
Received(p, c, r) ==
    IF c.what \notin Storage \cup {"logout"} /\ ~Fresh(c, {"view"}) THEN <<p, Failed("lost")>>
    ELSE IF r.code = "lost" THEN <<LoseSession(p), r>>
    ELSE <<p, r>>

Answered(p0, c, r0) ==
    LET p == Received(p0, c, r0)[1]
        r == Received(p0, c, r0)[2]
    IN  IF c.use = "migrate" THEN MigrationAnswer(p, c, r) ELSE
        CASE c.what = "bootstrap" -> BootstrapAnswer(p, c, r)
          [] c.what = "status" ->
                 Show(IF p.unlocked THEN Slip(Hide(p, "boot"), "overlaid") ELSE Hide(p, "boot"), "login")
          [] c.what = "resume" -> ResumeAnswer(p, c)
          [] c.what = "login" -> LoginAnswer(p, r)
          [] c.what = "list" -> ListAnswer(p, c, r)
          [] c.what = "login entry" ->
                 IF c.use \in {"show", "restore"} THEN DetailShown(p, c, r) ELSE DetailActs(p, c, r)
          [] c.what \in {"create", "update"} -> SavedAnswer(p, r)
          [] c.what = "delete" -> DeletedAnswer(p, c, r)
          [] c.what = "items" -> CardsListed(p, c, r)
          [] c.what \in ItemMutations -> ItemChanged(p, r)
          [] c.what = "logout" -> p

(***************************************************************************)
(* Announcements                                                           *)
(***************************************************************************)
Event(kind, updated, invalid) == [kind |-> kind, updated |-> updated, invalid |-> invalid]
Invalidated == Event("invalidated", {}, {})
TokenChanged == Event("token", {}, {})

\* The worker's cache of logins was cleared: what is shown is read again.
Reread(p) ==
    LET q == DetailInvalidate(ListInvalidate(Bump(p, {"render"}))) IN
    IF q.form.editing # None THEN FormClose(q)
    ELSE IF Shows(q, "detail") /\ q.detail.id # None THEN DetailShow(q, q.detail.id)
    ELSE IF OnPasswords(q) THEN ListRefresh(q, "reload")
    ELSE q

\* Some records were dropped, others renewed.
DropKeys(p, e) ==
    LET q == IF "list" \in e.invalid THEN ListInvalidate(p) ELSE p
        r == IF q.detail.id \in e.invalid THEN DetailInvalidate(q) ELSE q
    IN  IF r.form.editing \in e.invalid THEN FormClose(r) ELSE r

RenewKeys(p, e) ==
    LET q == IF "list" \in e.updated THEN ListRefresh(p, "refresh") ELSE p
    IN  IF q.detail.id \in e.updated THEN DetailRefresh(q) ELSE q

\* Mutant: the list and the login on the screen are not dropped.
OnlyRenewed(p, e) ==
    IF e.kind = "token" THEN IF Shows(p, "login") THEN p ELSE LoseSession(p)
    ELSE IF ~p.lockBtn THEN p
    ELSE RenewKeys(p, e)

\* Mutant: a token that was replaced is not noticed.
TokenUnnoticed(p, e) ==
    IF e.kind = "token" \/ ~p.lockBtn THEN p
    ELSE IF e.kind = "invalidated" THEN Reread(p)
    ELSE RenewKeys(DropKeys(p, e), e)

Announced(p, e) ==
    IF e.kind = "token" THEN IF Shows(p, "login") THEN p ELSE LoseSession(p)
    ELSE IF ~p.lockBtn THEN IF p.unlocked THEN Slip(p, "deaf") ELSE p
    ELSE IF e.kind = "invalidated" THEN Reread(p)
    ELSE RenewKeys(DropKeys(p, e), e)

(***************************************************************************)
(* The worker and the browser                                              *)
(***************************************************************************)
NoLogin == [id |-> None, login |-> None, revealed |-> FALSE]

\* A popup that was just opened asks for the bootstrap.
Opened(resume, sent) ==
    Send([screens |-> {"boot"}, unlocked |-> FALSE, slips |-> {}, lockBtn |-> FALSE, busy |-> FALSE, tab |-> "passwords",
          rows |-> Rows("blank", None), list |-> None, detail |-> NoLogin,
          form |-> [editing |-> None, from |-> None, saving |-> FALSE], dialogs |-> {},
          cards |-> None, migration |-> "no", left |-> <<>>, known |-> {}, waiting |-> <<>>,
          old |-> {}, timers |-> {}, resume |-> resume, sent |-> sent, inbox |-> <<>>],
         "bootstrap", "boot", None)

Init ==
    /\ scene \in Scene /\ acts = 0
    /\ session = scene.session
    /\ local = scene.local
    /\ popup = Opened(scene.resume, <<>>)
    /\ logins = scene.logins
    /\ items = [changes |-> 0, of |-> scene.vault]
    /\ own = [l \in Login |-> 0] /\ ownItems = 0 /\ closed = FALSE

Act(a) ==
    /\ a \in scene.may /\ acts < scene.acts
    /\ acts' = acts + 1
    /\ UNCHANGED scene

\* Nothing was left for the popup to do.
Without(i) == [popup EXCEPT !.sent = SubSeq(@, 1, i - 1) \o SubSeq(@, i + 1, Len(@))]

Tell(p, e) == [p EXCEPT !.inbox = Append(@, e)]

\* A popup that was closed hears of nothing.
Reply(p, c, r) ==
    IF c.use = "dead" THEN p ELSE Tell(p, [kind |-> "answer", call |-> c, result |-> r])

\* Reads of logins before a clearing fail, or are made again after it.
CutReads(p) == Tell(Bump(p, {"logins"}), Invalidated)

Applying(c) == c.what \in Mutations /\ c.got # None
Mutating == \E i \in DOMAIN popup.sent : Applying(popup.sent[i])

LoginList == [session |-> session, of |-> logins]
OneLogin(l) == [id |-> l, version |-> logins[l], session |-> session]
CardList == [session |-> session, changes |-> items.changes, of |-> items.of]

\* What a session that was lost makes of a request: it fails, or came late
\* enough to be one of the new session.
LostBy(c) == IF Locked \/ "session" \notin c.fresh THEN {Failed("lost")} ELSE {}

ListResults(c) ==
    LostBy(c)
    \cup (IF Locked THEN {} ELSE {Ok(LoginList)})
    \cup (IF ~Locked /\ "logins" \notin c.fresh THEN {Failed("changed")} ELSE {})
    \cup (IF ~Locked /\ c.use = "refresh" THEN {Ok(None)} ELSE {})

EntryResults(c) ==
    LostBy(c)
    \cup (IF Locked THEN {}
          ELSE IF There(logins[c.arg]) THEN {Ok(OneLogin(c.arg))} ELSE {Failed("error")})
    \cup (IF ~Locked /\ "logins" \notin c.fresh THEN {Failed("changed")} ELSE {})
    \cup (IF ~Locked /\ c.use = "refresh" THEN {Ok(None)} ELSE {})

BootResults ==
    IF Locked THEN {Ok([unlocked |-> FALSE, snapshot |-> None])}
    ELSE {Ok([unlocked |-> TRUE, snapshot |-> LoginList])}
         \cup (IF popup.resume = None THEN {}
               ELSE {Ok([unlocked |-> TRUE, snapshot |-> None])})

Results(c) ==
    CASE c.what = "list" -> ListResults(c)
      [] c.what = "login entry" -> EntryResults(c)
      [] c.what = "bootstrap" -> BootResults
      [] c.what \in {"resume", "status"} -> {Ok(None)}
      [] c.what = "local" -> {Ok(local)}
      [] OTHER -> {}

\* A read, of the worker or of browser storage.  Reads of logins wait for the
\* mutation being made.
Read(i) ==
    LET c == popup.sent[i] IN
    /\ c.what \in {"list", "login entry", "bootstrap"} => ~Mutating
    /\ \E r \in Results(c) : popup' = Reply(Without(i), c, r)
    /\ UNCHANGED <<worker, history, scene, acts>>

\* LIST_VAULT_ITEMS: the server reads, the answer comes later.
ReadItems(i) ==
    LET c == popup.sent[i] IN
    /\ c.what = "items" /\ c.got = None
    /\ popup' = IF Locked THEN Reply(Without(i), c, Failed("lost"))
                ELSE [popup EXCEPT !.sent[i].got = CardList]
    /\ UNCHANGED <<worker, history, scene, acts>>

AnswerItems(i) ==
    LET c == popup.sent[i] IN
    /\ c.what = "items" /\ c.got # None
    /\ popup' = Reply(Without(i), c, IF c.got.session = session THEN Ok(c.got) ELSE Failed("lost"))
    /\ UNCHANGED <<worker, history, scene, acts>>

\* A change of a login clears the worker's cache, is made, and clears it again.
BeginMutation(i) ==
    LET c == popup.sent[i] IN
    /\ c.what \in Mutations /\ c.got = None /\ ~Mutating
    /\ \/ LostBy(c) # {} /\ popup' = Reply(Without(i), c, Failed("lost"))
       \/ ~Locked /\ popup' = CutReads([popup EXCEPT !.sent[i].got = session])
    /\ UNCHANGED <<worker, history, scene, acts>>

\* The login a request changes, and what it makes of it.
Changes(c) ==
    CASE c.what = "create" -> {[login |-> l, version |-> 1] : l \in {x \in Login : logins[x] = 0}}
      [] c.what = "update" -> {[login |-> l, version |-> logins[l] + 1] :
                                   l \in {x \in {c.arg} : There(logins[x]) /\ logins[x] < MaxVersion}}
      [] c.what = "delete" -> {[login |-> l, version |-> Gone] : l \in {x \in {c.arg} : There(logins[x])}}

EndMutation(i) ==
    LET c == popup.sent[i] IN
    /\ Applying(c)
    /\ \/ \E ch \in Changes(c) :
             /\ logins' = [logins EXCEPT ![ch.login] = ch.version]
             /\ popup' = Reply(CutReads(Without(i)), c,
                               IF c.got = session THEN Ok(ch) ELSE Failed("lost"))
       \/ /\ c.got # session \/ Changes(c) = {}
          /\ popup' = Reply(CutReads(Without(i)), c,
                            IF c.got # session THEN Failed("lost") ELSE Failed("error"))
          /\ UNCHANGED logins
    /\ UNCHANGED <<session, items, local, history, scene, acts>>

\* A change of a card.
MutateItem(i) ==
    LET c == popup.sent[i]
        Set(id, card) == items' = [changes |-> items.changes + 1, of |-> [items.of EXCEPT ![id] = card]]
        New == CHOOSE id \in Item : items.of[id] = None
    IN  /\ c.what \in ItemMutations
        /\ \/ LostBy(c) # {} /\ popup' = Reply(Without(i), c, Failed("lost")) /\ UNCHANGED items
           \/ /\ ~Locked
              /\ CASE c.what = "create item" -> (\E id \in Item : items.of[id] = None) /\ Set(New, c.arg)
                   [] c.what = "update item" -> Set(c.arg.id, c.arg.card)
                   [] c.what = "delete item" -> Set(c.arg, None)
              /\ \/ popup' = Reply(Without(i), c, Ok(items'.changes))
                 \/ "fail" \in scene.may /\ popup' = Reply(Without(i), c, Failed("error"))
    /\ UNCHANGED <<session, logins, local, history, scene, acts>>

ForgetLocal(i) ==
    LET c == popup.sent[i] IN
    /\ c.what = "forget local"
    /\ local' = <<>>
    /\ popup' = Reply(Without(i), c, Ok(None))
    /\ UNCHANGED <<session, logins, items, history, scene, acts>>

\* saveToken and clearToken clear the cache of logins; a token that was
\* replaced or removed is announced.
NewToken(p) ==
    LET q == CutReads(Bump(p, {"session"})) IN IF Locked THEN q ELSE Tell(q, TokenChanged)

ServeLogin(i) ==
    LET c == popup.sent[i]
        s == IF Locked THEN session + 1 ELSE session + 2
    IN  /\ c.what = "login" /\ s <= MaxSession
        /\ session' = s
        /\ popup' = Reply(NewToken(Without(i)), c, Ok(None))
        /\ UNCHANGED <<logins, items, local, history, scene, acts>>

\* A wrong password.
RefuseLogin(i) ==
    LET c == popup.sent[i] IN
    /\ c.what = "login"
    /\ popup' = Reply(Without(i), c, Failed("error"))
    /\ UNCHANGED <<worker, history, scene, acts>>

ServeLogout(i) ==
    LET c == popup.sent[i] IN
    /\ c.what = "logout"
    /\ session' = IF Locked THEN session ELSE session + 1
    /\ popup' = Reply(IF Locked THEN Without(i) ELSE NewToken(Without(i)), c, Ok(None))
    /\ UNCHANGED <<logins, items, local, history, scene, acts>>

\* The server cannot be reached.
Fail(i) ==
    /\ Act("fail")
    /\ popup.sent[i].what \notin Storage \cup {"logout"} /\ popup.sent[i].got = None
    /\ popup' = Reply(Without(i), popup.sent[i], Failed("error"))
    /\ UNCHANGED <<worker, history>>
(***************************************************************************)
(* What the user, other clients and time do                                *)
(***************************************************************************)
NoDialog == popup.dialogs = {}
OnCards == Shows(popup, "list") /\ popup.tab = "cards" /\ popup.rows.kind = "cards"
RowOf(l) == /\ OnPasswords(popup) /\ popup.rows.kind = "passwords" /\ popup.rows.of # None
            /\ There(popup.rows.of.of[l])

Changed(p) == popup' = p /\ UNCHANGED <<worker, history>>

\* handleUnlock.
Unlock ==
    /\ Act("unlock")
    /\ Shows(popup, "login") /\ ~popup.busy
    /\ Changed(Send([popup EXCEPT !.busy = TRUE], "login", "unlock", None))

\* The status poll finds the server and tries to resume.
Requests == popup.sent \o [i \in DOMAIN popup.inbox |-> IF popup.inbox[i].kind = "answer"
                                                        THEN popup.inbox[i].call
                                                        ELSE Request("none", None, None, None)]
Resuming == \E i \in DOMAIN Requests : Requests[i].chain = "resume" \/ Requests[i].use = "resume"

Poll ==
    /\ Act("poll")
    /\ Shows(popup, "login") /\ ~popup.busy /\ ~Resuming
    /\ Changed(Send(popup, "bootstrap", "resume", None))

LockButton ==
    /\ Act("lock")
    /\ popup.lockBtn /\ NoDialog
    /\ Changed(LoseSession(Send(popup, "logout", "lock", None)))

Tab(t) ==
    /\ Act("tab")
    /\ Shows(popup, "list") /\ NoDialog
    /\ Changed(SelectTab(popup, t, None, None))

Open(l) ==
    /\ Act("open")
    /\ RowOf(l) /\ NoDialog
    /\ Changed(DetailShow(popup, l))

Back ==
    /\ Act("back")
    /\ Shows(popup, "detail") /\ NoDialog
    /\ Changed(ListShow(DetailHide(popup), None, None))

\* getActionEntry: what has expired must be loaded again first.
DetailAction(use) ==
    IF "detail" \in popup.old THEN DetailInvalidate(popup)
    ELSE Send(popup, "login entry", use, popup.detail.id)

OnLogin == Shows(popup, "detail") /\ popup.detail.login # None /\ NoDialog

Reveal ==
    /\ Act("reveal")
    /\ OnLogin
    /\ Changed(IF popup.detail.revealed THEN [popup EXCEPT !.detail.revealed = FALSE]
               ELSE DetailAction("reveal"))

Edit ==
    /\ Act("edit")
    /\ OnLogin
    /\ Changed(DetailAction("edit"))

Add ==
    /\ Act("add")
    /\ OnPasswords(popup) /\ NoDialog
    /\ Changed(FormAdd(popup))

\* handleSave: an expired form is left.
Save ==
    /\ Act("save")
    /\ Shows(popup, "form") /\ ~popup.form.saving
    /\ Changed(IF popup.form.editing = None
               THEN Send([popup EXCEPT !.form.saving = TRUE], "create", "form", None)
               ELSE IF "form" \in popup.old THEN FormCancel(popup)
               ELSE Send([popup EXCEPT !.form.saving = TRUE], "update", "form", popup.form.editing))

Cancel ==
    /\ Act("cancel")
    /\ Shows(popup, "form")
    /\ Changed(FormCancel(popup))

DeleteRow(l) ==
    /\ Act("delete")
    /\ RowOf(l) /\ NoDialog /\ popup.list # None
    /\ Changed(OpenDialog(popup, "delete row", l, None))

DeleteLogin ==
    /\ Act("delete")
    /\ Shows(popup, "detail") /\ popup.detail.id # None /\ NoDialog
    /\ Changed(OpenDialog(popup, "delete login", popup.detail.id, None))

AddCard ==
    /\ Act("addCard")
    /\ Shows(popup, "list") /\ popup.tab = "cards" /\ NoDialog
    /\ Changed(OpenDialog(popup, "add card", None, None))

EditCard(i) ==
    /\ Act("editCard")
    /\ OnCards /\ popup.rows.of.of[i] # None /\ NoDialog
    /\ Changed(CardsList(popup, "edit", i, None))

DeleteCard(i) ==
    /\ Act("deleteCard")
    /\ OnCards /\ popup.rows.of.of[i] # None /\ NoDialog
    /\ Changed(CardsList(popup, "delete", i, None))

\* What a dialog asks the worker for.
Confirmed(p, d, card) ==
    CASE d.kind = "delete row" -> Send(p, "delete", "list", d.id)
      [] d.kind = "delete login" -> Send(p, "delete", "detail", d.id)
      [] d.kind = "add card" -> Send(p, "create item", "add", card)
      [] d.kind = "edit card" -> Send(p, "update item", "edit", [id |-> d.id, card |-> card])
      [] d.kind = "delete card" -> Send(p, "delete item", "delete", d.id)

Answer(d) ==
    /\ Act("dialog")
    /\ LET p == [popup EXCEPT !.dialogs = @ \ {d}] IN
       \/ Changed(p)
       \/ \E card \in Card : Changed(Confirmed(p, d, card))

\* Five minutes pass; nothing is on its way for so long.
Held == (IF popup.list = None THEN {} ELSE {"list"})
        \cup (IF popup.detail.login = None THEN {} ELSE {"detail"})
        \cup (IF popup.form.from = None THEN {} ELSE {"form"})

Age ==
    /\ Act("age")
    /\ Held # {} /\ popup.sent = <<>> /\ popup.inbox = <<>>
    /\ Changed([popup EXCEPT !.old = Held])

\* The expiry timers.
Due(x) == x \in popup.old /\ x \in popup.timers

ListExpires == Due("list") /\ Changed(ListInvalidate(popup)) /\ UNCHANGED <<scene, acts>>
DetailExpires == Due("detail") /\ Changed(DetailInvalidate(popup)) /\ UNCHANGED <<scene, acts>>
FormExpires == Due("form") /\ Changed(FormClose(popup)) /\ UNCHANGED <<scene, acts>>

\* The worker locks: its timer, the system, or another page of the extension.
Expire ==
    /\ Act("expire")
    /\ ~Locked
    /\ session' = session + 1
    /\ popup' = NewToken(popup)
    /\ UNCHANGED <<logins, items, local, history>>

\* Another page of the extension changes logins.
Clear ==
    /\ Act("clear")
    /\ ~Locked /\ ~Mutating
    /\ Changed(CutReads(popup))

\* A refresh of the worker's cache finds a login changed, or gone.
Refresh(l) ==
    /\ ~Locked /\ ~Mutating
    /\ There(logins[l])
    /\ \/ /\ Act("refresh") /\ logins[l] < MaxVersion
          /\ logins' = [logins EXCEPT ![l] = @ + 1]
          /\ popup' = Tell(popup, Event("cache", {"list"}, {l}))
       \/ /\ Act("remove")
          /\ logins' = [logins EXCEPT ![l] = Gone]
          /\ popup' = Tell(popup, Event("cache", {}, {l, "list"}))
    /\ UNCHANGED <<session, items, local, history>>

\* The popup is closed and opened again.  The worker goes on with what it was
\* asked for.
CloseAndOpen ==
    /\ Act("close")
    /\ popup' = Opened(popup.resume,
                       [i \in DOMAIN popup.sent |-> [popup.sent[i] EXCEPT !.use = "dead"]])
    /\ closed' = TRUE
    /\ UNCHANGED <<worker, own, ownItems>>

(***************************************************************************)
(* The popup handles the next event                                        *)
(***************************************************************************)
\* What waited for the migration goes on, one call after the other, before
\* anything else happens in the popup.
Going == popup.migration # "running" /\ popup.waiting # <<>>

GoOn ==
    /\ Going
    /\ popup' = CardsFetch(Head(popup.waiting), [popup EXCEPT !.waiting = Tail(@)])
    /\ UNCHANGED <<worker, history, scene, acts>>

Deliver ==
    /\ popup.inbox # <<>> /\ ~Going
    /\ LET e == Head(popup.inbox)
           p == [popup EXCEPT !.inbox = Tail(@)]
       IN  IF e.kind # "answer"
           THEN popup' = Announced(p, e) /\ UNCHANGED history
           ELSE /\ popup' = Answered(p, e.call, e.result)
                /\ LET told == Fresh(e.call, {"view"}) /\ e.result.code = "ok"
                   IN  /\ own' = IF told /\ e.call.what \in Mutations
                                 THEN [own EXCEPT ![e.result.data.login] = e.result.data.version]
                                 ELSE own
                       /\ ownItems' = IF told /\ e.call.what \in ItemMutations
                                         /\ e.call.use # "migrate"
                                      THEN e.result.data ELSE ownItems
                /\ UNCHANGED closed
    /\ UNCHANGED <<worker, scene, acts>>

\* Requests reach the worker in the order they were sent, and a logout is the
\* first thing that is done with it.
Reaches(i) == \A j \in 1 .. i - 1 : popup.sent[j].what # "logout" \/ popup.sent[i].what \in Storage

Serve ==
    \E i \in DOMAIN popup.sent : Reaches(i) /\
        (Read(i) \/ ReadItems(i) \/ AnswerItems(i) \/ BeginMutation(i) \/ EndMutation(i)
        \/ MutateItem(i) \/ ForgetLocal(i) \/ ServeLogin(i) \/ RefuseLogin(i) \/ ServeLogout(i))

User ==
    \/ Unlock \/ Poll \/ LockButton \/ Back \/ Reveal \/ Edit \/ Add \/ Save \/ Cancel
    \/ DeleteLogin \/ AddCard
    \/ \E t \in Tabs : Tab(t)
    \/ \E l \in Login : Open(l) \/ DeleteRow(l)
    \/ \E i \in Item : EditCard(i) \/ DeleteCard(i)
    \/ \E d \in popup.dialogs : Answer(d)

Timers == ~Going /\ (ListExpires \/ DetailExpires \/ FormExpires)

Outside ==
    \/ Age \/ Expire \/ Clear \/ CloseAndOpen
    \/ \E l \in Login : Refresh(l)
    \/ \E i \in DOMAIN popup.sent : Fail(i)

Next == GoOn \/ Deliver \/ Serve \/ Timers \/ (~Going /\ (User \/ Outside))

\* The browser hands over what was sent, the worker answers, timers fire.
Spec == /\ Init /\ [][Next]_vars
        /\ WF_vars(GoOn) /\ WF_vars(Deliver) /\ WF_vars(Serve) /\ WF_vars(Timers)

(***************************************************************************)
(* Properties                                                              *)
(***************************************************************************)
\* The types of the popup's state and of the worker's; a timer is set only
\* for what is held, and only what is held grows old.
TypeOK ==
    /\ session \in Session /\ logins \in [Login -> Version]
    /\ popup.screens \subseteq {"boot", "login", "list", "detail", "form"}
    /\ popup.tab \in Tabs /\ popup.migration \in {"no", "running", "done"}
    /\ popup.rows.kind \in Tabs \cup {"blank", "loading", "reload", "failed"}
    /\ popup.list \in ListType \cup {None}
    /\ popup.cards = None \/ popup.cards \in CardsType
    /\ popup.detail \in [id : Login \cup {None}, login : LoginType \cup {None}, revealed : BOOLEAN]
    /\ popup.form \in [editing : Login \cup {None}, from : LoginType \cup {None}, saving : BOOLEAN]
    /\ popup.old \subseteq Held /\ popup.timers \subseteq Held
    /\ popup.detail.revealed => popup.detail.login # None

\* Everything of the vault the popup holds, on a screen or not.
Data ==
    {popup.list, popup.detail.login, popup.form.from, popup.cards, popup.rows.of}
    \cup {d.of : d \in popup.dialogs}

\* Once the view is locked and until it is unlocked again, the popup holds
\* nothing of the vault, shows no screen of it and has no dialog open, whatever
\* answer comes late (clearVaultView, showUnlockedVault, sendMessage).
LockedShowsNothing ==
    ~popup.unlocked /\ "astray" \notin popup.slips => /\ Data = {None} /\ popup.dialogs = {}
                       /\ popup.screens \subseteq {"boot", "login"}

\* What the popup holds is of the session that is open, or the announcement
\* that its token is gone is on its way (the storage listener, sendMessage).
\* Not after the start of the popup has put the login screen over a vault that
\* was unlocked meanwhile: the listener then takes the view for locked.
HeldIsCurrent ==
    popup.slips \cap {"overlaid", "astray"} = {} => \A d \in Data \ {None} :
        \/ d.session = session
        \/ \E i \in DOMAIN popup.inbox : popup.inbox[i] = TokenChanged

\* After the popup was told that a login was changed or deleted, neither its
\* list nor the login's screen shows it as it was before; and the cards kept for
\* the next section are not older than the popup's last change of a card
\* (cacheGeneration).
OwnChangeShown == popup.slips \cap {"deaf", "astray"} = {} =>
    /\ popup.detail.login # None => popup.detail.login.version >= own[popup.detail.login.id]
    /\ popup.list # None => \A l \in Login : popup.list.of[l] >= own[l]
    /\ popup.cards # None => popup.cards.changes >= ownItems

\* The rows are of the section that is selected, the secret on the screen is
\* of the login that was opened, and the form holds the login it will write.
ShownIsSelected ==
    /\ Shows(popup, "list") /\ popup.rows.kind \in Tabs => popup.rows.kind = popup.tab
    /\ popup.detail.login # None => popup.detail.login.id = popup.detail.id
    /\ popup.form.from # None => popup.form.from.id = popup.form.editing

\* Moving the cards of an old version into the vault loses none, whatever
\* fails or is cut short; and while the popup stays open it adds no second
\* copy of one, in whatever session, nor a copy of one the vault already has
\* (migrateLocalItems).  For behaviours in which the user changes no card.
CardsMigrated ==
    scene.may \cap {"addCard", "editCard", "deleteCard"} = {} =>
        \A n \in DOMAIN scene.local :
            LET copies == {i \in Item : items.of[i] = scene.local[n]} IN
            /\ copies # {} \/ local # <<>>
            /\ closed \/ copies = {i \in Item : scene.vault[i] = scene.local[n]} \/ Cardinality(copies) <= 1

\* What has expired leaves the popup, also from an open login or form.
SecretsExpire == \A x \in {"list", "detail", "form"} : x \in popup.old ~> x \notin popup.old

\* Unlocking ends: the login screen does not stay busy.
UnlockEnds == popup.busy ~> ~popup.busy
=============================================================================
