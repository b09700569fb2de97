# Yurrr password manager: a formal model

TLA+ modules, TLC runs and TLAPS proofs for the Yurrr password manager: a Rust
server (axum, tokio, sqlx over SQLite) that keeps an encrypted vault, and a
Manifest V3 browser extension that talks to it.

Paths below are those of the repository, under `src/`.

## 1. The system

### Components

| Component (source) | State | Operations | Talks to |
|---|---|---|---|
| Session store and operation lock (`server/src/session.rs`) | `sessions` (id to key, deadline, mode), JWT secret, one fair read/write lock | create, extract (`AuthenticatedSession`), remove, clear, begin shared / exclusive | every handler |
| Authentication (`server/src/auth.rs`) | row of `master_config` | setup, login, logout, session, status, change_password | session store, all tables |
| Authentication rate limiter (`server/src/auth.rs`) | token buckets in one map | allow | setup, login, export, change_password |
| Entries (`server/src/entries.rs`) | table `entries` | list, get, create, update, delete, two bulk imports | database, favicons (spawned task) |
| Vault items (`server/src/vault_items.rs`) | table `vault_items` | list, get, create, update, delete | database |
| Export and import (`server/src/vault_export.rs`) | none | export, import | both tables |
| Cryptography (`server/src/crypto.rs`) | none | seal, open, derive, verify, generate | handlers |
| Database (`server/src/db.rs`, `server/migrations`) | SQLite file in WAL mode, pool of connections | open, migrate, immediate transactions, autocommit statements | handlers |
| Favicon discovery (`server/src/favicons.rs`) | table `favicons`, negative cache, in-flight set, semaphore | ensure, GET /favicons/{domain} | network, database |
| Routing, errors, TLS, health (`router.rs`, `errors.rs`, `tls.rs`, `health.rs`) | none (certificate files) | route, limit, answer | all handlers |
| Domain and scope (`server/src/domain.rs`, `extension/lib/site-scope.js`) | none | normalise a domain, compute a scope | entries, service worker |
| Extension API client (`extension/background/api.js`) | token and its generation | request, timeout after 15 s, 401 handling | server, session |
| Extension session (`extension/background/session.js`) | token in two storages, auto-lock state | load, save, clear, auto-lock | API client, caches |
| Credential cache (`extension/background/session.js`) | metadata per domain, generations, a queue of storage writes | get, mutate, invalidate | API client |
| Popup cache (`extension/background/popup-cache.js`) | lists and details with their age, generations | read, refresh, mutate, clear, persist | API client, storage |
| Save prompt (`extension/background/service-worker.js`, `content/detector.js`) | pending records by frame and domain, a queue of updates; in the page a banner, a status message and timers | capture, check, decide, save, dismiss, clear, lock | tabs, API client |
| Popup (`extension/popup/popup.js`, `popup/components`) | screens, rows, the open login, the form, dialogs, kept cards, expiry timers | unlock, lock, show, edit, delete, migrate local cards | service worker |
| Options, overlay, heuristics | views of the above | draw, score, parse CSV | service worker |
| Favicon loader (`extension/popup/favicon-loader.js`) | queue, jobs at work | enqueue, drain | API client |
| Update script (`scripts/update-server.sh`) | the service, the backup | stop, back up, start, trap | systemd |

### How they interact

Every authenticated request takes the operation lock in shared mode, looks up its
session and gets the vault key from it, and keeps the shared guard until its
future ends. `change_password` alone gives the shared guard back, queues for the
exclusive one, looks its session up again, verifies the password again inside an
immediate transaction, re-encrypts three columns of two tables, commits, and
then clears the sessions. `setup` and `login` take the shared guard without a
session. Entries are written in immediate transactions, vault items by
autocommit statements. When a client goes away, hyper drops the future of its
request at whatever await it is: guards are released and an open transaction is
rolled back, but a statement that was handed to sqlx's worker may still run.

### What is hard

* Writes of one request between the reads and the writes of a password change.
* A session, a password or a duplicate check that is stale when it is used.
* Futures dropped at any await; statements that outlive them; restarts.
* A lock queue, a database lock and a network fetch that wait for each other.
* A restart or a failure between two statements of an import or a migration.
* In the extension: answers that arrive after the lock, the mutation or the login
  that made them wrong, and storage writes that overtake each other.

The list, line by line and with the properties that cover it, is under "hazards"
in `PROJECT.json`.

### What makes each component correct

* *Session store, authentication, entries, items, export and import*: every stored
  row opens with the key in force; no session outlives its key; only one who
  knows the password, through a session that has not been logged out, changes
  it; no two logins for one identity; no handler answers 500 for data that is
  intact; every request ends.
* *Rate limiter*: no window lets through more than burst and refill, and nothing
  is refused that a window would allow.
* *Favicons*: one fetch per domain, at most `MAX_CONCURRENT_FETCHES` at once, a
  domain is passed over only while somebody fetches it, and is released.
* *Extension session and popup cache*: after a lock nothing that was read under the
  locked session is shown, and nothing decrypted stays in browser storage; what is
  shown is never older than the extension's own change; a newer login is not undone
  by an older lock; a session that locks by itself is locked in the end.
* *Save prompt*: a lock leaves no submitted password; a submission is neither lost
  nor cleared for another one; the banner is about the newest; no password is
  replaced that the user was not asked about; every submission is answered.
* *Popup*: locked, it holds nothing; it shows nothing of an earlier session, nothing
  older than its own change, nothing of another selection; cards of an old version
  move into the vault without loss; expired secrets go; unlocking ends.
* *Credential cache*: no metadata of an earlier session or change, none after a lock.
* *Update script* (planned): however it ends, the service runs, and on data that
  was backed up whole.

## 2. The modules

| Module | Models | Extends / uses |
|---|---|---|
| `VaultServer` | session store, operation lock, setup ... change_password, entries, vault items, import, export, transactions, drops and restarts | |
| `AbstractVault` | what the server promises: a vault in the clear | |
| `VaultRefinement` | the mapping under which `VaultServer` implements `AbstractVault` | `VaultServer`, `AbstractVault` |
| `VaultServer_proofs` | theorems about `VaultServer`: control, then keys, then rows | `VaultServer` |
| `VaultRefinement_proofs` | the theorem that `VaultServer` implements `AbstractVault` | `VaultRefinement`, `VaultServer_proofs` |
| `RateLimiter`, `RateLimiter_proofs` | the token buckets | |
| `FaviconFetch`, `FaviconFetch_proofs` | favicon discovery | |
| `PopupCache`, `PopupCache_proofs` | the popup's cache of decrypted logins, with the token side of the extension's session and API client | |
| `ExtensionSession`, `ExtensionSession_proofs` | the worker's session: token, session mode, auto-lock, credential metadata | |
| `SavePrompt`, `SavePrompt_proofs` | capturing and saving a login submitted on a website: content script, pending records, decision, save | |
| `PopupView`, `PopupView_proofs` | what the popup shows, over a worker that answers its messages | |
| `MCVaultServer`, `MCRateLimiter`, `MCFaviconFetch`, `MCPopupCache` | model values, kinds of request, symmetry | |
| `MCVaultFair`, `MCPopupScenes`, `MCSavePrompt`, `MCPopupView`, `MCExtensionSession` | instances made of *scenes*: what may happen in one behaviour, and how often | |

### VaultServer

One *request slot* `r \in Req` runs one handler at a time. `pc[r]` names the await
at which it stands, `op[r]` its request, `key[r]` the vault key it got from the
session, `todo[r]` the rest of the document it imports. Guards and transactions
are locals of the future, so they are not variables: `Readers` and `Writers` are
read off the labels, and `Finish` or `Abort` releases them by moving the label.
`ahead[r]` is the set of waiters queued before `r`: tokio's lock is fair.

* **Keys and ciphertexts.** A key *is* the pair of password and salt from which it
  is derived; a ciphertext is the pair of a key and a plaintext; AES-GCM
  authenticates, so it opens under its own key only. Salts are fresh.
* **Tables.** `config`, `entries`, `items` are what is committed. `tx` is the one
  open write transaction and the tables it sees (SQLite has one writer);
  autocommit statements need `tx = None`; who waits too long gets `BusyTimeout`.
* **Receive** draws a request, and with it the session id or the salt the handler
  would draw later; ids and salts that were never used are never used again.
* **Extract** is the extractor. A refused JWT is the case of a session that is not
  live. **Expire** lets a deadline pass at any time (never under
  `never_auto_lock`).
* **change_password** is `RekeyVerify`, `RekeyRelease`, `GrantExclusive`,
  `RekeyCheck`, `RekeyBegin`, `Reencrypt`, `RekeyCommit`, `RekeyClear`.
* **Entries**: `BeginTx`, then `CreateEntry`, `UpdateEntry` or a row at a time
  `ImportEntry`, then `Commit`. `DeleteEntry` is one statement.
* **Vault items**: `PrepareItem`, `WriteItem`, `RefetchItem`; an import goes on
  after its commit with `ImportItem`, one statement per item.
* **Abort** is a refused body, a failed statement or a dropped future, at every
  label. Two constants say what more a drop may do. `LateStatements`: the
  statement on `vault_items` that was in flight stays in `orphans` and runs later
  (`RunOrphan`). `DropRekeyTail`: a password change may be dropped between its
  commit and `clear_sessions`.
* **Restart** leaves what was committed and nothing else.

What is abstracted: the audit inserts that follow a main effect are merged into
it (they change no modelled state; a failing one makes the answer 500 after a
commit, and answers are not modelled). The reads `get_vault_item`,
`list_entries` and `status` are those of `RefetchItem` and `ListItems`, or touch
nothing modelled. A COMMIT in flight when its request is dropped equals the commit
followed by the drop. Late DELETE statements on entries and a late INSERT of
`setup` do what they would have done in time, so only statements on `vault_items`
become orphans. A generated uuid is a member of `Entry` or `Item`; one that is
taken is a primary-key error. The scope of an entry and its user name are one
`Ident`. A bulk import is an import without items. A mutex poisoned by a panic
is not modelled.

### AbstractVault and VaultRefinement

The abstract vault has an owner's password, logins and items in the clear, and
the set of unlocked sessions. Changing the password changes `owner`, ends every
session and leaves the contents alone, in one step. The mapping opens every
committed row with the key in force, and maps one that does not open to `Lost`,
which no abstract step can produce. While a password change is between commit and
`clear_sessions` the sessions count as locked: their holders are behind the
exclusive guard.

### RateLimiter

`Found` is the bucket as `allow` finds it, refilled to now; `Allow` and `Refuse` are
its two answers. `allow` holds a mutex and reads the clock inside it, so a call is
a step. A token is worth `Second` units, hence a clock tick refills an integral
number of units; rounding of the code's `f64` is abstracted. `Restart` empties
the map. `allowed` is history.

### FaviconFetch

A task is a call of `ensure_favicon_with_policy`, either the handler's (which may be
dropped at any await) or spawned after an entry was written (which may not). Labels
are its awaits; `permits` and `holds` are the semaphore and the `_permit` locals.
What the network answers (found, not found) is nondeterministic, so the address
filter and the HTML parsing are behind one choice. The setting that turns
third-party favicons on is taken as on. `DropMidFetch` allows a drop between
`mark_fetch_started` and `mark_fetch_finished`.

### PopupCache

JavaScript runs one task at a time, so an action is a stretch of code between two
awaits. A process `p \in Proc` is a message or an alarm being handled (`pc[p]` is its
await, `key[p]` what it reads); `f \in Fetch` is a request the cache has sent, which
goes on when a clear has dropped it from `pending`; `Loader` restores the cache from
browser storage.

* **Generations.** `api.tokenGeneration`, `generation` and `_tokenGeneration` only grow
  and are only compared with a value read earlier, so each is the set of tasks that
  read its present value: `sameToken`, `sameCache`, `sameSession`. Moving a counter
  empties its set. `SameSession` and `Current` are `assertSession` and
  `assertCurrent`.
* **Storage.** `storageQueue` is FIFO and its writes are alike (each writes the cache of
  the moment it starts), so it is its length `queue`, the write at work `writing`
  (`BeginWrite`, `EndWrite`) and, for each task, how many writes it still awaits
  (`behind`). A write may fail; the code then removes the cache from storage.
* **read** is `StartRead`, `ReadWaited`, `IsUnlocked` or `IsLocked`, `LoadClears`,
  `StartLoad` or `JoinLoad`, `FinishLoad`, then `ReadAgain`, `ReadMisses` or
  `ReadHits`, `ReadFetched`, `ReadRechecked`, and `ReadReturns` or `ReadFails`. The
  expiry alarm shares the first half and ends with `ExpireWrites`.
* **fetch** is `ContextAndRequest`, `Serve` (the server reads its table), then
  `Receive`, `Missing` (a 404), `FetchRejected` (a 401, which locks) or `FetchFails`,
  and `FetchDone`.
* **Locks and logins**: `Lock`, `RemoveToken`, `EndLock` are `clearToken`;
  `StartLogin`, `LoginAnswered`, `SaveStores`, `SaveSets` are a login and `saveToken`;
  `TokenReplaced` is the listener on browser storage.
* **mutate** is `StartMutation`, `MutationTurn`, `MutationCleared`, `MutationSent`,
  `MutationApplied` (at the server), then `MutationAnswered` or `MutationRejected`, and
  `MutationEnds` or `MutationLocks`.
* **Restart** is the worker stopped and started at any point; browser storage and the
  events it still owes survive. A lock that had not removed the stored token is then
  as if it had not been.

What is abstracted: a login is its version (its `updated_at`), an answer is a version
for each login it is about. Times: a record may expire, or be the twenty-first
detail, whenever it is there, and a hit may or may not be old enough to refresh. The
two storages of the token are one. The address of the server does not change. A
restoration that a clear has dropped ends at once. `resetAutoLock` and
`_getAutoLockDeadline` change nothing modelled. `Overlap` says whether a login or a
lock may begin while an earlier one still waits; the code does not prevent it, and
the passing runs have it FALSE.

### ExtensionSession

The same worker from the side of `SessionManager`, with the popup's cache left out and
what `PopupCache` leaves out put in: where the token is stored and when it goes.

* **Handlers.** A handler is the sequence `todo` of stretches between awaits it has
  still to run; a method that awaits another one puts that one's stretches before its
  own. `Load`, `ClearToken`, `Login`, `Mutate`, ... are the methods as such sequences,
  and each label has an action. The counters a handler read earlier and that have not
  moved since are its `fresh` (as the `same...` sets of `PopupCache`).
* **Token**: `token` in memory, `saved` in the two storage areas; the listener on
  storage is `TokenReplaced`.
* **Mode and auto-lock**: `cachedMode` and `mode`; `deadline`, `alarm`. A deadline is
  ahead or has passed (`Elapse`), and what a handler read of it (`at`) ages with it.
  `Expired` is `_lockIfAutoLockExpired`, `CreateAlarm` the end of `_scheduleAutoLock`,
  `SetDeadline` of `resetAutoLock`, `MinutesChanged` and `NewDeadline` the listener on
  the setting.
* **Metadata**: `metadata` in memory, `stored` in session storage, and the `queue` of
  storage operations (`QueueWorks`), each of which checks again when its turn comes.
  `LookUp`, `ReadStored`, `Serve`, `Receive` are `getCredentialsForDomain`; `Send`,
  `Apply`, `Answered`, `Mutated` the change inside `mutateEntries`.
* **Restart** stops the worker alone, or the browser too, which empties session storage
  and may forget the alarm; the start is a load.

What is abstracted: one website; the server's address does not change; a record in
the cache may be too old whenever it is there; a second reader of the same website
asks by itself; to remove the metadata from storage does not fail. A lock waits for a
login that is under way, and a login for a lock: their meeting is `popup_overlap`. The
listeners on settings are there only when the start has ended
(`service-worker.js:99`); a change that wakes a stopped worker is kept for them here,
while the browser may not keep it.

### SavePrompt

One frame of one website. A *submission* `s \in Sub` is what the user sent off with
the form (`sub[s]`); `pend` and `user` are the two records the worker keeps in
browser storage, `vault` the passwords at the server by user name.

* **Two queues.** Messages that write (`PENDING_WRITE_TYPES`) are handled one at a time:
  `msgs`, with `MsgBegin`, `MsgName`, `MsgEnd`. Each read or change of the records goes
  through `updatePendingRecords`: `stateQueue`, with `BeginOp` (read, check of the
  session) and `EndOp` (write, check again), and `Update` for what each kind of
  operation stores.
* **Checks and saves** are tasks (`task[t]`): `CheckBegin` ... `CheckUnchanged`, `SaveBegin`
  ... `SaveEnd`. Both wait for the writes that came before them (`Behind`), list the
  logins, and decide (`Decision`, `Compared`) what saving would do.
* **The page** (`page`): the newest submission, the timers (transition, armed, retry), the
  check whose answer still counts (`listening`), banner and status message. `Submit`,
  `TypeName`, `Navigate`, `Transition`, `StatusAction`, `BannerDismiss`, `SaveClick` and
  the rest are what the user, the browser and the timers do.
* **Session**: `Lock` (with the clearing it queues), `LateClear` (the second clearing by
  the alarm's handler or the storage listener), `Login`, `Restart`, `Expire`.

What is abstracted: a record's token is the number of the session it was written in.
Records of other frames and domains have keys of their own. A request that times out
is `RequestFails` or, for a write the server has made, `SaveAnswerLost`. Times are left
out: a timer that is set may fire. An answer is received when it is given. When a lock
ends early by a restart of the worker it is as if it had not been, as in `PopupCache`.

### PopupView

The popup is one thread: its state is the record `popup`, and a handler is an operator
from the popup to the popup (`ClearView`, `ShowVault`, `ListShow`, `CardsShown`,
`MigrateNext`, ...), so that one that calls another reads as in the code.
`sent` holds the requests it waits for; `inbox` what the browser has not handed to it
yet: answers, and announcements of the cache and of a replaced token.

* **Stale answers.** `vaultViewGeneration`, `renderGeneration`, `revision`,
  `cacheGeneration`, and the worker's `tokenGeneration`, only grow and are compared
  with a value read earlier: a request keeps in `fresh` the counters that have not
  moved, `Bump` takes them away, `Compares` says which ones the code compares.
* **Receiving** is `Answered` and `Received` (one case for each request, with the
  continuation in the code) and `Announced`. Those who wait for the migration of old
  cards (`waiting`) go on one after the other once it has ended, before anything else
  (`GoOn`).
* **The worker** answers in one step (`Read`, `MutateItem`, `ServeLogin`, `ServeLogout`,
  `RefuseLogin`, `Fail`), except that a list of items is read first and answered later
  (`ReadItems`, `AnswerItems`) and a change of a login has a beginning and an end, and
  in between no read of logins is answered (`BeginMutation`, `EndMutation`), which is
  what `PopupCache` shows of the worker. What is sent after a logout is served after it
  (`Reaches`).
* **The user**: `Unlock`, `Open`, `Edit`, `Save`, `DeleteLogin`, `Tab`, dialogs
  (`Confirmed`, `Answer`), ...; **timers**: `ListExpires`, `DetailExpires`, `FormExpires`,
  once `Age` has made what they guard old; **others**: `Expire` (a lock), `Clear`,
  `Refresh`, `Remove...` announcements, `CloseAndOpen`.

What is abstracted: cards stand for the three sections, which share their code. A
login is its version. Answers and announcements reach the popup in the order the
worker sent them. The clipboard, search, paging, focus, icons and the password
generator are left out; a list that could not be read is one kind of row.

## 3. The runs

| Run | Question | Bounds |
|---|---|---|
| `entries` | Do logins survive password changes, so that the abstract vault is implemented, and are identities unique? | 2 requests, 2 sessions, 1 password, 2 salts, 2 rows, 2 identities, 1 plaintext; password changes, creates and updates |
| `items` | The same for items, imports, exports and logouts; are answers never "corrupt", sessions current? | 2 requests, 2 sessions, 2 passwords, 2 salts, 2 rows, 1 item, 2 plaintexts, 1 document with a duplicate in it |
| `vault_fair` | Does every request end, with late statements and with password changes that queue behind each other? Do logins stay open? Who can replace the master configuration, also when a change is dropped after its commit? | 2 requests, 1 session; scene "writes": 1 password, 2 salts, every row kind; scene "rekeys": 2 passwords, 3 salts, no rows |
| `rate_limiter` | Is every window within its grant, and the limit exact? | 2 buckets, 3 ticks a second, burst 2, rate 2, 6 ticks |
| `favicons` | Exclusion, limit, justified skips, release | 2 tasks, 2 domains, 1 permit |
| `popup_cache` | Is a lock final, does a locked vault leave nothing in browser storage, is anything shown that is older than the extension's own change? | 2 processes, 1 request, 2 tokens; scene of sessions (list only, no logins), two of changes (2 changes of one login, read as list or by itself), one that deletes it while both are read (1 waiting write) |
| `session` | Is a locked session gone from memory and both storages, is metadata current, and does a session that locks by itself get locked? | 2 handlers, 4 scenes of 4 acts each, 2 logins, 2 changes at the server, 3 modes |
| `save_prompt` | Is a submission kept, asked about, saved to the right login, answered, and gone after a lock? | 5 scenes of 1 or 2 submissions, 2 names, 2 passwords, 2 tasks, 1 to 3 outside acts |
| `popup_view` | Is what the popup shows locked away, current, its own, selected, expired, and does unlocking end? | a dozen scenes, 2 logins, 3 items, 2 kinds of card, 2 to 5 acts of the user or the world, 4 changes of the session |
| `dropped_rekey` | (violation) `SessionsCurrent` with `DropRekeyTail` | 2 requests |
| `late_statement` | (violation) `AllDecryptable` with `LateStatements` | 2 requests, 1 session |
| `popup_overlap` | (violation) `NewSessionKept` with `Overlap` | 2 processes that lock and log in, 2 tokens |

*Why these bounds are enough.* The hazards are of pairs: a write and a password
change, two duplicate checks, a logout and a waiting password change, two
password changes. Sessions and salts bound the logins and the set-ups and password
changes together; restarts, drops, expiry and writes are not bounded. With two salts
one password change follows the set-up; the scene "rekeys" has a third salt and no
tables, so that two changes meet, with a session that outlived the first. Two plaintexts tell
an update from a stale row; two rows and two identities give every duplicate, within
one document too. A clock of six ticks is twice the time in which a bucket of burst 2 at rate 2 fills; `MaxTime` bounds it.
The proofs remove the bounds for the safety of the server and what it promises, of
`PopupCache`, `SavePrompt`, `ExtensionSession` and `PopupView` (section 4). In `PopupCache`
two processes give every pair of a read, a change, a lock, a login and an alarm; one
request at work is enough for an answer that is late, since an answer that is no
longer awaited keeps its place until it has come; the scene of sessions needs no
logins (`LockIsFinal` is about whose answer it is), and the others one session only.
`MaxVersion` bounds the changes, `MaxQueue` the writes that wait, the number of tokens
the logins; restarts are not bounded. `ExtensionSession`, `SavePrompt` and `PopupView`
have no interleaving of unbounded depth but many kinds of act, so their instances are unions of *scenes*: a
scene names the acts that may happen in a behaviour besides the work of worker, browser
and timers, which is never bounded, and how many of them. Each pair of acts whose
meeting is a hazard is in a scene; two submissions are what overtaking needs, three
local cards of two kinds what a migration with duplicates needs, four changes of the
session two unlocked ones and what lies between. In `ExtensionSession` four acts are a
login, a lock or restart, and two that meet it; two handlers are the pair that meets.

*Symmetry* is used over requests, sessions and salts, and over entries and
identities where no document names them, passwords where all are alike, processes
and tokens of `PopupCache`; never in
a run with a liveness property.

*Deadlock* is checked in every run but `session`, `save_prompt` and `popup_view`, where a scene ends
when its acts are used up.

*Fairness.* `FairSpec` gives weak fairness to `Step(r)`, the next step of a request:
tokio polls every task that is ready, its lock is fair, sqlx answers each
statement or fails it at the busy timeout, and every network fetch has a timeout.
Nothing is assumed of clients, deadlines or restarts. `SavePrompt` has weak fairness of
what worker and page do by themselves (`Resume \/ Work`: JavaScript runs each task that
is ready, storage writes end, timers fire), `PopupView` of delivery by the browser, of
the worker's answers, which come after 15 s at the latest (`api.js`), and of timers that are due. `ExtensionSession`
has it of `Work`: tasks, storage, the passing of time and alarms, which Chrome fires
when they are due. Nothing is assumed of the user.

Each property is also shown to bite: for each there is a changed definition (the
operators commented `Mutant`) under which its run fails.

### Findings

1. **`dropped_rekey`** (`server/src/auth.rs:358`). If the client of a password change
   goes away between the commit and `clear_sessions`, the sessions stay, with a key
   no row opens under. README says a session ends on a password change, and the audit
   record of the transaction says the sessions are invalidated.
2. **`late_statement`** (`server/src/vault_items.rs:132`). The autocommit INSERT or
   UPDATE of a dropped request may run after a password change and leaves a row
   sealed with the retired key; list, export and the next password change fail on
   it. Tables written in transactions are immune, which `EntriesStayOpen` shows.
3. **`popup_overlap`** (`extension/background/session.js:174`). `clearToken` waits for
   the caches and for `onLock` before it removes the stored token. A login that is
   answered meanwhile stores its own (`saveToken` asks neither for `_clearingToken`
   nor for the generation), the lock removes it, and the listener forgets it: the
   vault that was just opened is locked. The window is short, and a test says that
   "lock and a new login" come through "without clearing the new session".

Met while modelling, and excluded by name rather than shown by a run of their own:

* `mark_fetch_finished` (`server/src/favicons.rs:886`) is a statement, not a guard: a
  handler dropped in its fetch leaves the domain in flight until the server restarts
  (`FaviconFetch` with `DropMidFetch` shows it against `SkippedForAnotherFetch`).
* The start of the popup draws the login screen when its first request fails or says
  "locked", also if the vault was unlocked meanwhile; the token listener then takes the
  view for locked (`popup.js:1901`, `:1955`). `HeldIsCurrent` excludes it: `"overlaid"`
  in the history variable `popup.slips`.
* `handleUnlock` shows the lock button when its list has been shown or could not be
  (`popup/components/login.js:218`), also in a view that was locked meanwhile. The
  announcement listener asks for that button only (`popup.js:1859`), so a locked view
  may read a list again and keep it. The same way a card that is to be edited waits for a
  migration that runs again, and may get its dialog in a view that was locked and is
  locked still (`popup.js:1095`). `LockedShowsNothing`, `HeldIsCurrent` and
  `OwnChangeShown` exclude both: `"astray"`.
* From the answer to a login until its list has been shown there is no lock button, and
  announcements are ignored (`popup.js:1859`): a list that was read before a change of the
  popup's own may stay. `OwnChangeShown` excludes it: `"deaf"`.
* After a lock has cleared the pending records, the alarm's handler clears them again
  (`service-worker.js:154`), maybe in the next session. `EverySubmissionAnswered`
  excludes it by `Clearing`.
* An announcement that the cache was cleared bumps `renderGeneration`
  (`popup.js:1863`): a section of cards that was loading then stays "Loading". And an
  announcement about the login that is being edited closes its form and what was typed
  there (`popup.js:1866`, `:1881`), also when a background refresh caused it, where
  README says "Background updates do not navigate away from the selected screen."
* A load that found no token, or another mode, removes the auto-lock deadline that a
  login has set meanwhile (`session.js:152`), and a worker that ends between storing the
  token and setting the deadline (`session.js:78`, `:91`) leaves none: such a session
  does not lock by itself before its next activity. `AutoLockEnds` is about sessions that
  have their deadline, and excludes the first by `wiped`.
* A save whose answer comes late closes the form that is open by then
  (`popup/components/entry-form.js:152`).

The passing runs and the conditional theorems set the constant of each of these
behaviours to FALSE, each only where it must be, so that they say what holds besides.

## 4. The proofs

All theorems hold for every value of the constants. They assume what the modules
assume of their constants, and nothing else:

* `VaultServer`: the two switches are Booleans, documents have their type, `None` and
  `Keep` are values of their own; `VaultRefinement`: `None` is no password.
* `RateLimiter`, `FaviconFetch`: the parameters are natural numbers (a second is not
  zero), the switch is Boolean, `None` is a value of its own.
* `PopupCache`: the bounds are positive numbers, `None` is neither a task nor a token,
  processes, fetches and the loader are distinct tasks, and no login is called "list".
* `SavePrompt`: forms and scenes have their type, submissions are numbered, folding a name
  twice is folding it once, no task is called "msg", "lock" or "late" (who else may await an
  operation), and `None` is none of the values it stands for the absence of.
* `ExtensionSession`: session modes and scenes have their type, the bounds are natural
  numbers, and `None` is neither a handler, a number nor a kind of handler.
* `PopupView`: scenes have their type, the bounds are positive and that of sessions even,
  no login is called "list", and `None` is no id, card, list, login or set of cards.

**VaultServer.** `AllDecryptable` is far from inductive; the argument goes in layers, all in
`VaultServer_proofs`.

1. Control. `TypeCorrect`, and `ControlInvariant`: labels, requests and
   keys fit together, a transaction is open exactly for the owner whose label says
   so, and only who queues has a place in the queue.
2. Keys. `OrderInvariant`: a password change that holds the exclusive
   guard excludes every other request's body; each session id is created at most
   once, so a logged-out session never comes back; an open password change knows
   the password in force. From it `ConfigChangesOnlyAuthorised`, and
   `SessionsStayCurrent` if `~DropRekeyTail`: the key of every session and of every
   request at work is the key in force.
3. Rows. A transaction's tables open with the key its commit
   will put in force. `IdentitiesStayUnique` (committed tables and those of an open
   transaction hold no identity twice: `DistinctInvariant`) and, if `~DropRekeyTail`,
   `EntriesAlwaysOpen`; if also `~LateStatements`, `EveryRowDecryptable` and
   `NeverAnswersCorrupt`.

**The server implements the abstract vault** (`VaultRefinement_proofs`).
`ServerImplementsVault`: if `~DropRekeyTail` and `~LateStatements`, every behaviour of
`VaultServer` is, seen through the mapping, one of `AbstractVault`. The invariant it
needs beyond those above is `IsolationInvariant`: while a transaction is open, the tables
it sees are the committed ones but for its own writes, so that its commit is one
abstract step however many statements and requests came between. Given that, `Init` maps to the
abstract `Init`, and each action to an abstract step or a stutter: statements of a
transaction and every read stutter, an autocommit statement or a commit is the abstract
write, the commit of a password change is `ChangePassword`, the removal of its
sessions afterwards a stutter. Both conditions are needed: with either switch on, a
committed row or a session of the code has no abstract counterpart, and findings 1 and
2 are the behaviours that have none.

**RateLimiter.** `TypeCorrect`; `NeverOverRate` and `NeverRefusesTooEarly` rest on one
account per bucket: its tokens are at most what each window that ends now has left,
and, unless it is full, exactly what some window has left.

**FaviconFetch.** `TypeCorrect`. `FetchedOnceAtATime`: who claims a domain has it in the
in-flight set, whatever is dropped. `LimitKept`: permits left and permits held add up.
`SkipsAreJustified` if `~DropMidFetch`: every domain in flight has its claimant.

**PopupCache.** `TypeOK` is not inductive: that an answer is of its type needs that a
fetch at that label has one (`Grounded`). On it stand:

* `OwnChangesStay`, for overlapping locks too: neither the cache nor its copy in browser
  storage is older than a change of the extension's own. `Chain`: mutations form a queue
  of which one has its turn, each other awaits the one before it. `Emptied`: while a
  mutation has its turn the cache is empty, no request of it is current, and the writes
  that are queued will have emptied storage before its request is sent. `AllFresh`: what
  is shown, stored, being written or answered and still current is as new as every change.
* `LockLeavesNothing` if `~Overlap`. `OneAtATime`: one lock or login runs at a time, and what
  it did to the stored token stays until it ends; `Locked`: without a stored token the
  extension has none and finds none; `Swept`: then the writes that are queued will have
  emptied storage.
* `LocksAreFinal` if `~Overlap`. `Keyed`, `Requests` and `Unlocking` say with which token
  a task works; `Known` and `Ended`, that a token which a lock has ended is never used again;
  `RecordsFinal` and `StorageFinal`, that nothing made with it is in the cache, nor
  in storage after the write that the lock awaits.

`~Overlap` (a login is not answered while a lock is in its cleanup) is not something
the code ensures. It is a hypothesis because the two are false without it: TLC
refutes both with `Overlap = TRUE`, and finding 3 is what the overlap does.

**SavePrompt.** The type and the shape of messages (`Typed`: `Shaped`, `Asked`,
`Written`) come first, then a summary of a step (`From`, `Grows`, `Quiet`): where a task,
a message or an operation of the new state comes from, and what the steps that do not
touch the records leave alone. The properties are then proved from the summary, and only
the few actions that matter to them are taken apart.

* `LockLeavesNoPending`, `SubmissionsKept`. `Settling`: what asks for a submission to be
  cleared does so for one that is settled; `Opened`: what stores one was asked to while the
  vault was open; `Records`: so a record is of an open session, and a write drops it only
  if it clears all, is of a later session, or the submission is settled.
* `ConfirmedLogins`. `NamedParts`, `StoredNamed` and `ShownNamed` follow the name from the form
  through message, operation, record, check, banner and save to the request, and say at each
  place that the user gave it for this submission or that the banner showed it.
* `BannerNewest`. `Asking`: each submission has one message, and that of the newest is
  the last; `Newest`: once the newest is captured no record, stored or being written, is
  about an older one; `Shows`: until then there is no banner, and the check for which the
  page listens waits for that message.

**ExtensionSession.** A method that awaits another one puts that one's labels before its
own, so what a handler still has to run is a sequence of labels. `Rules` and `Formed` say
which labels come right before or after one: what ends a lock is preceded by all that a
lock does, however the lock came to be called. `Base` adds the types, what a handler knows
at a label (`Tasks`) and who awaits an operation of the storage queue (`Queued`).

* `LockLeavesNothing`. `Soon(p, label, n)`: a label is among the next `n` that `p` runs.
  `GoneBy` says what the lock of a handler has removed by how near its end is; `AllGone`,
  that nothing comes back once it has ended: what was loading saw the lock begin
  (`TokenGone`), and locks and logins do not overlap here (`Apart`).
* `MetadataStaysCurrent`. `Changed`: a handler knows of a change that it is about to
  announce. `AtLeast`: a record is as new as every such change and every one announced.
  Metadata in memory (`MemoryNew`), answers that may still be used (`AnswersNew`) and
  writes that are still wanted (`WritesNew`) are; what is in storage or being written
  there is, but for changes whose clear is still queued (`ButFor`, `StorageNew`,
  `BegunNew`), and who reads after a clear has asked after it (`AfterClears`).

**PopupView.** Every handler is a function from popup to popup, and so is what is proved of
it: it keeps the popup `Good`, for any choice `d` of what may be held (`Admits`). `Good`
is `Shape` and `Holds` (types; only what is held grows old), `Chosen` (the login on the
screen and in the form are those that were chosen), `Closed` (a view that is not lit is
empty; *lit* means unlocked, or astray as in section 3) and `Asks`: a request whose
answer would open something has seen a counter move since, or the view is lit. Each
handler has its lemma (`...Good`), each action one that puts them together (`...Keeps`).
`ClearViewGood` says that a cleared popup is good *whatever* may be held: it has nothing,
and no answer under way can bring anything back. From the invariant `ViewInv`, in which
`d` is everything of the right type:

* `TypeCorrect`.
* `LockedIsEmpty`: the property `LockedShowsNothing`.
* `SelectedIsShown`: an answer is shown only if nothing else was selected since it was
  asked for.

The second invariant, `HeldInv`, takes for `d` what the two properties allow (`AdmNow`):
what is of the session and not older than the popup's own changes, unless a slip of
section 3 has put that in doubt or the announcement that the token is gone is on its way.
That the popup then stays `Good` while session and versions move needs `Env`, which
follows each answer and announcement from where the worker sends it to the popup, whose
inbox is a queue: what an answer brings is of the session, or is followed by the
announcement that the token is gone; it is no older than what the popup was told before
it; and right before the answer that tells of a change of a login stands the announcement
to drop what is shown, so that list and login are empty, and cannot be filled, when it is
told (`FirstOk`, `RereadBare`). Cards are dropped with the answer itself (`CardToldGood`).

* `HeldStaysCurrent`: the property `HeldIsCurrent`.
* `OwnChangeIsShown`: the property `OwnChangeShown`.

The third invariant, `CardsInv`, is about moving the cards of an old version, in behaviours in
which the user changes no card. `Migr` says that the popup has at most one request of
the migration, asked or told (`Sole`), and none unless it runs; and that every request is
`Usual` (changes no card), `Asking` (of the migration) or `Orphan` (of a popup that was
closed). As long as the popup is the first one, what it has read and what it knows is all
the vault has, so a card is created only when the vault has none such; and the old storage
is emptied only when the vault has every old card. `NoDoubles`: the copies of a card are those
the vault had to begin with, or there is at most one.

* `CardsAreMigrated`: the property `CardsMigrated`, across sessions too. That a card is not
  doubled is claimed only while the popup stays open: a popup that is closed with its
  request under way, and opened again, may ask for the same card twice.

*Only model-checked*: the liveness properties `EveryRequestEnds`, `InFlightReleased`,
`EverySubmissionAnswered`, `SecretsExpire`, `UnlockEnds` and `AutoLockEnds` (temporal
reasoning under fairness is out of the prover's reach).

## 5. Not modelled, and the plan

In this order; each planned module gets a run, and proofs where its safety can be proved.

1. That the reads of `PopupCache` end, with fairness for the worker's tasks.
2. The rest of `ExtensionSession`: a change of the server's URL; its composition with
   `PopupCache`, for the token a queued mutation is sent with.
3. The rest of `SavePrompt`: tabs that close, several frames.
4. `Migration`: the statements of `ensure_vault_items_supports_passkeys` with a crash
   between any two.
5. `SiteScope`: server and extension compute the same scope, against a reference
   definition; `FaviconLoader` (at most four jobs); `UpdateScript` (stop, backup,
   start, trap).
6. `FaviconFetch` composed with the operation lock (its handler holds the shared guard
   while it fetches); an abstract sliding window refined by `RateLimiter`.

Left out for good: routing, errors, TLS and health (no state of their own); the
options page, DOM heuristics and overlay (data without control); password generation and
the CSV parser are pure functions of text, for which unit tests are the right tool.
