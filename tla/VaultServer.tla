---------------------------- MODULE VaultServer ----------------------------
(***************************************************************************)
(* The server's core: the master configuration, the encrypted tables, the  *)
(* session store and the operation lock, with every request a task that    *)
(* runs its handler one await at a time.                                   *)
(*                                                                         *)
(* A vault key is derived from the master password and the stored salt, so *)
(* a key IS the pair [pw, salt] of a configuration; a ciphertext is the    *)
(* pair of the key it was sealed with and the plaintext in it.             *)
(*                                                                         *)
(* The guard of the operation lock and the open transaction are locals of  *)
(* a handler's future: who holds them is read off the program counters.    *)
(***************************************************************************)
EXTENDS Naturals, FiniteSets

CONSTANTS
    Req,            \* concurrent request slots
    Sid,            \* session ids (bounds the number of logins)
    Password,       \* master passwords
    Salt,           \* encryption salts (bounds set-ups and password changes)
    Entry,          \* ids of rows of the table entries
    Item,           \* ids of rows of the table vault_items
    Ident,          \* (credential scope, user name) of an entry
    Plain,          \* plaintexts of secrets, notes and payloads
    None,           \* no configuration, row, session, notes, transaction or key
    Keep,           \* a field that is missing from an update request
    Documents,      \* the documents the import requests carry
    Kinds,          \* the kinds of request the clients send
    LateStatements, \* a dropped request's statement may run after its guard is gone
    DropRekeyTail   \* a password change may be dropped between commit and clear_sessions

NoOp == [kind |-> "none"]

Key    == [pw : Password, salt : Salt]
Cipher == [key : Key, data : Plain]
EntryRow == [ident : Ident, secret : Cipher, notes : Cipher \cup {None}]
Draft     == [id : Entry, ident : Ident, secret : Plain, notes : Plain \cup {None}]
ItemDraft == [item : Item, data : Plain]
Document  == [entries : SUBSET Draft, items : SUBSET ItemDraft]
Mode      == {"normal", "never"}    \* never_auto_lock
Session   == [key : Key, mode : Mode]
Statement == [act : {"insert", "update", "delete"}, item : Item, cipher : Cipher \cup {None}]
EntryTable == [Entry -> EntryRow \cup {None}]
ItemTable  == [Item -> Cipher \cup {None}]
Tx         == [owner : Req, config : Key \cup {None}, entries : EntryTable, items : ItemTable]

ASSUME BooleanAssumption == LateStatements \in BOOLEAN /\ DropRekeyTail \in BOOLEAN
ASSUME DocumentAssumption == Documents \subseteq Document
ASSUME NoneAssumption ==
    None \notin Key \cup Cipher \cup EntryRow \cup Session \cup Tx \cup Plain
ASSUME KeepAssumption == Keep \notin Plain \cup {None}

(***************************************************************************)
(* Requests: the routes of the router whose handler reads or changes the   *)
(* state above, with the part of their bodies that matters.                *)
(***************************************************************************)
Op == [kind : {"setup"}, pw : Password, salt : Salt]
      \cup [kind : {"login"}, pw : Password, sid : Sid, mode : Mode]
      \cup [kind : {"logout", "session", "listItems"}, sid : Sid]
      \cup [kind : {"rekey"}, sid : Sid, pw : Password, new : Password, salt : Salt]
      \cup [kind : {"getEntry", "deleteEntry"}, sid : Sid, id : Entry]
      \cup [kind : {"createEntry"}, sid : Sid, id : Entry, ident : Ident,
            secret : Plain, notes : Plain \cup {None}]
      \cup [kind : {"updateEntry"}, sid : Sid, id : Entry, ident : Ident,
            secret : Plain \cup {Keep}, notes : Plain \cup {None, Keep}]
      \cup [kind : {"createItem", "updateItem"}, sid : Sid, item : Item, data : Plain]
      \cup [kind : {"deleteItem"}, sid : Sid, item : Item]
      \cup [kind : {"import"}, sid : Sid, doc : Documents]
      \cup [kind : {"export"}, sid : Sid, pw : Password]

Free        == {"idle", "corrupt"}
SharedPC    == {"auth", "body", "store", "write", "commit", "items", "stmt",
                "refetch", "exportEntries", "exportItems", "derived"}
RekeyTxPC   == {"reencrypt", "commitX"}
ExclusivePC == {"check", "beginX", "clear"} \cup RekeyTxPC
PC          == Free \cup {"wait", "waitX"} \cup SharedPC \cup ExclusivePC

VARIABLES
    config,     \* the row of master_config
    entries,    \* the committed rows of entries
    items,      \* the committed rows of vault_items
    tx,         \* the open write transaction: its owner and the tables it sees
    sessions,   \* SessionStore.sessions
    usedSids,   \* session ids handed out so far
    usedSalts,  \* salts drawn so far
    loggedOut,  \* sessions that a logout ended (history, read by no action)
    pc, op,     \* where a request is in its handler; what it asked for
    key,        \* the vault key the request holds
    todo,       \* the rows of its document an import has still to insert
    ahead,      \* the waiters ahead of it in the queue of the operation lock
    orphans     \* statements in flight whose request is gone

dbVars      == <<config, entries, items, tx>>
sessionVars == <<sessions, usedSids, usedSalts, loggedOut>>
reqVars     == <<pc, op, key, todo, ahead>>
vars        == <<dbVars, sessionVars, reqVars, orphans>>

(***************************************************************************)
(* Helpers.                                                                *)
(***************************************************************************)
Seal(k, p) == [key |-> k, data |-> p]
\* Mutant: the notes are stored as they came.
SealNotesInTheClear(k, p) == p
SealNotes(k, p) == IF p = None THEN None ELSE Seal(k, p)

\* crypto::decrypt authenticates: a ciphertext opens under its own key only.
Opens(c, k)    == c.key = k
RowOpens(e, k) == Opens(e.secret, k) /\ (e.notes = None \/ Opens(e.notes, k))
EntriesOpen(tbl, k) == \A e \in Entry : tbl[e] = None \/ RowOpens(tbl[e], k)
ItemsOpen(tbl, k)   == \A i \in Item : tbl[i] = None \/ Opens(tbl[i], k)

\* Mutant: only a new entry is compared with the others, not an updated one.
IsDuplicateOfNew(tbl, id, ident) ==
    tbl[id] = None /\ \E e \in Entry \ {id} : tbl[e] # None /\ tbl[e].ident = ident
IsDuplicate(tbl, id, ident) ==
    \E e \in Entry \ {id} : tbl[e] # None /\ tbl[e].ident = ident

Rekeyed(c, k)   == [c EXCEPT !.key = k]
\* Mutant: the notes are not carried over.
RekeyedWithoutNotes(tbl, k) ==
    [e \in Entry |-> IF tbl[e] = None THEN None
                     ELSE [tbl[e] EXCEPT !.secret = Rekeyed(@, k), !.notes = None]]
RekeyedEntries(tbl, k) ==
    [e \in Entry |->
        IF tbl[e] = None THEN None
        ELSE [tbl[e] EXCEPT !.secret = Rekeyed(@, k),
                            !.notes = IF @ = None THEN None ELSE Rekeyed(@, k)]]
\* Mutant: the table vault_items is forgotten.
ItemsNotRekeyed(tbl, k) == tbl
RekeyedItems(tbl, k) ==
    [i \in Item |-> IF tbl[i] = None THEN None ELSE Rekeyed(tbl[i], k)]

\* An autocommit statement on vault_items: an INSERT finds no row with its id,
\* an UPDATE or a DELETE finds one; otherwise it changes nothing.
Applies(s) == s.act = "insert" <=> items[s.item] = None
Effect(s)  == IF Applies(s) THEN [items EXCEPT ![s.item] = s.cipher] ELSE items

Live(s)   == sessions[s] # None
\* Mutant: a password change queues for the lock with its shared guard in hand.
ReadersWithWaiters == {r \in Req : pc[r] \in SharedPC \cup {"waitX"}}
Readers   == {r \in Req : pc[r] \in SharedPC}
Writers   == {r \in Req : pc[r] \in ExclusivePC}
Waiting   == {r \in Req : pc[r] \in {"wait", "waitX"}}
NextKey(r) == [pw |-> op[r].new, salt |-> op[r].salt]

Goto(r, label) == pc' = [pc EXCEPT ![r] = label]
\* The future of r is gone: locals are dropped, an open transaction rolls back.
Finish(r, label) ==
    /\ Goto(r, label)
    /\ op' = [op EXCEPT ![r] = NoOp]
    /\ key' = [key EXCEPT ![r] = None]
    /\ todo' = [todo EXCEPT ![r] = {}]
\* r leaves the queue of the operation lock.
Leave(r) == ahead' = [q \in Req |-> IF q = r THEN {} ELSE ahead[q] \ {r}]

Init ==
    /\ config = None
    /\ entries = [e \in Entry |-> None]
    /\ items = [i \in Item |-> None]
    /\ tx = None
    /\ sessions = [s \in Sid |-> None]
    /\ usedSids = {} /\ usedSalts = {} /\ loggedOut = {}
    /\ pc = [r \in Req |-> "idle"]
    /\ op = [r \in Req |-> NoOp]
    /\ key = [r \in Req |-> None]
    /\ todo = [r \in Req |-> {}]
    /\ ahead = [r \in Req |-> {}]
    /\ orphans = {}

(***************************************************************************)
(* Receiving a request and holding the operation lock.                     *)
(***************************************************************************)

\* A client sends a request; its task queues for the lock in shared mode.
Receive(r) ==
    /\ pc[r] \in Free
    /\ \E o \in Op :
        /\ o.kind \in Kinds
        /\ CASE o.kind = "login" ->
                  /\ o.sid \notin usedSids
                  /\ usedSids' = usedSids \cup {o.sid}
                  /\ UNCHANGED usedSalts
             [] o.kind = "setup" ->
                  /\ o.salt \notin usedSalts
                  /\ usedSalts' = usedSalts \cup {o.salt}
                  /\ UNCHANGED usedSids
             [] o.kind = "rekey" ->
                  /\ o.sid \in usedSids
                  /\ o.salt \notin usedSalts
                  /\ usedSalts' = usedSalts \cup {o.salt}
                  /\ UNCHANGED usedSids
             [] OTHER -> o.sid \in usedSids /\ UNCHANGED <<usedSids, usedSalts>>
        /\ op' = [op EXCEPT ![r] = o]
    /\ ahead' = [ahead EXCEPT ![r] = Waiting]
    /\ Goto(r, "wait")
    /\ UNCHANGED <<dbVars, sessions, loggedOut, key, todo, orphans>>

\* Mutant: requests do not wait for a password change that is under way.
GrantSharedAtOnce(r) ==
    /\ pc[r] = "wait" /\ ahead[r] = {}
    /\ Goto(r, IF op[r].kind \in {"setup", "login"} THEN "body" ELSE "auth")
    /\ Leave(r)
    /\ UNCHANGED <<dbVars, sessionVars, op, key, todo, orphans>>

\* The lock is fair: r has the shared guard once nobody is queued before it
\* and no password change holds the lock.
GrantShared(r) ==
    /\ pc[r] = "wait" /\ ahead[r] = {} /\ Writers = {}
    /\ Goto(r, IF op[r].kind \in {"setup", "login"} THEN "body" ELSE "auth")
    /\ Leave(r)
    /\ UNCHANGED <<dbVars, sessionVars, op, key, todo, orphans>>

\* Mutant: a password change does not wait for the requests under way.
GrantExclusiveAtOnce(r) ==
    /\ pc[r] = "waitX" /\ ahead[r] = {} /\ Writers = {}
    /\ Goto(r, "check")
    /\ Leave(r)
    /\ UNCHANGED <<dbVars, sessionVars, op, key, todo, orphans>>

GrantExclusive(r) ==
    /\ pc[r] = "waitX" /\ ahead[r] = {} /\ Writers = {} /\ Readers = {}
    /\ Goto(r, "check")
    /\ Leave(r)
    /\ UNCHANGED <<dbVars, sessionVars, op, key, todo, orphans>>

\* The extractor: the token names a session; without one the answer is 401.
Extract(r) ==
    /\ pc[r] = "auth"
    /\ IF Live(op[r].sid)
         THEN /\ key' = [key EXCEPT ![r] = sessions[op[r].sid].key]
              /\ Goto(r, "body")
              /\ UNCHANGED <<op, todo>>
         ELSE Finish(r, "idle")
    /\ UNCHANGED <<dbVars, sessionVars, ahead, orphans>>

\* A session's deadline passes: the next access to the store drops it.
Expire(s) ==
    /\ Live(s) /\ sessions[s].mode = "normal"
    /\ sessions' = [sessions EXCEPT ![s] = None]
    /\ UNCHANGED <<dbVars, usedSids, usedSalts, loggedOut, reqVars, orphans>>

(***************************************************************************)
(* auth.rs: setup, login, logout, session.                                 *)
(***************************************************************************)
SetupRead(r) ==
    /\ pc[r] = "body" /\ op[r].kind = "setup"
    /\ IF config = None THEN Goto(r, "store") /\ UNCHANGED <<op, key, todo>>
                        ELSE Finish(r, "idle")
    /\ UNCHANGED <<dbVars, sessionVars, ahead, orphans>>

\* INSERT INTO master_config (id = 1): the primary key refuses a second row.
SetupInsert(r) ==
    /\ pc[r] = "store" /\ op[r].kind = "setup" /\ tx = None
    /\ config' = IF config = None THEN [pw |-> op[r].pw, salt |-> op[r].salt] ELSE config
    /\ Finish(r, "idle")
    /\ UNCHANGED <<entries, items, tx, sessionVars, ahead, orphans>>

\* Reads the configuration, verifies the password, derives the key.
LoginRead(r) ==
    /\ pc[r] = "body" /\ op[r].kind = "login"
    /\ IF config # None /\ config.pw = op[r].pw
         THEN /\ key' = [key EXCEPT ![r] = [pw |-> op[r].pw, salt |-> config.salt]]
              /\ Goto(r, "store")
              /\ UNCHANGED <<op, todo>>
         ELSE Finish(r, "idle")
    /\ UNCHANGED <<dbVars, sessionVars, ahead, orphans>>

LoginCreate(r) ==
    /\ pc[r] = "store" /\ op[r].kind = "login"
    /\ sessions' = [sessions EXCEPT ![op[r].sid] = [key |-> key[r], mode |-> op[r].mode]]
    /\ Finish(r, "idle")
    /\ UNCHANGED <<dbVars, usedSids, usedSalts, loggedOut, ahead, orphans>>

Logout(r) ==
    /\ pc[r] = "body" /\ op[r].kind = "logout"
    /\ sessions' = [sessions EXCEPT ![op[r].sid] = None]
    /\ loggedOut' = loggedOut \cup {op[r].sid}
    /\ Finish(r, "idle")
    /\ UNCHANGED <<dbVars, usedSids, usedSalts, ahead, orphans>>

CheckSession(r) ==
    /\ pc[r] = "body" /\ op[r].kind = "session"
    /\ Finish(r, "idle")
    /\ UNCHANGED <<dbVars, sessionVars, ahead, orphans>>

(***************************************************************************)
(* auth.rs: change_password.                                               *)
(***************************************************************************)

\* First verification of the current password; the new key is derived here.
RekeyVerify(r) ==
    /\ pc[r] = "body" /\ op[r].kind = "rekey"
    /\ IF config.pw = op[r].pw THEN Goto(r, "derived") /\ UNCHANGED <<op, key, todo>>
                               ELSE Finish(r, "idle")
    /\ UNCHANGED <<dbVars, sessionVars, ahead, orphans>>

\* The shared guard is given back BEFORE the task queues for the exclusive one.
RekeyRelease(r) ==
    /\ pc[r] = "derived"
    /\ Goto(r, "waitX")
    /\ ahead' = [ahead EXCEPT ![r] = Waiting]
    /\ UNCHANGED <<dbVars, sessionVars, op, key, todo, orphans>>

\* The session may have ended while the task was in the queue.
RekeyCheck(r) ==
    /\ pc[r] = "check"
    /\ IF Live(op[r].sid) THEN Goto(r, "beginX") /\ UNCHANGED <<op, key, todo>>
                          ELSE Finish(r, "idle")
    /\ UNCHANGED <<dbVars, sessionVars, ahead, orphans>>

OpenTx(r) == tx = None /\ tx' = [owner |-> r, config |-> config, entries |-> entries, items |-> items]

RekeyBegin(r) ==
    /\ pc[r] = "beginX"
    /\ OpenTx(r)
    /\ Goto(r, "reencrypt")
    /\ UNCHANGED <<config, entries, items, sessionVars, op, key, todo, ahead, orphans>>

\* Mutant: the password is not verified again inside the transaction.
ReencryptUnverified(r) ==
    /\ pc[r] = "reencrypt"
    /\ IF ~(EntriesOpen(tx.entries, key[r]) /\ ItemsOpen(tx.items, key[r]))
         THEN Finish(r, "corrupt") /\ tx' = None
         ELSE /\ tx' = [tx EXCEPT !.config = NextKey(r),
                                  !.entries = RekeyedEntries(@, NextKey(r)),
                                  !.items = RekeyedItems(@, NextKey(r))]
              /\ Goto(r, "commitX")
              /\ UNCHANGED <<op, key, todo>>
    /\ UNCHANGED <<config, entries, items, sessionVars, ahead, orphans>>

\* Second verification, then every row: open with the session's key, seal with
\* the new one. One row that does not open fails the whole transaction.
Reencrypt(r) ==
    /\ pc[r] = "reencrypt"
    /\ CASE tx.config.pw # op[r].pw -> Finish(r, "idle") /\ tx' = None
         [] tx.config.pw = op[r].pw /\ ~(EntriesOpen(tx.entries, key[r]) /\ ItemsOpen(tx.items, key[r]))
              -> Finish(r, "corrupt") /\ tx' = None
         [] OTHER ->
              /\ tx' = [tx EXCEPT !.config = NextKey(r),
                                  !.entries = RekeyedEntries(@, NextKey(r)),
                                  !.items = RekeyedItems(@, NextKey(r))]
              /\ Goto(r, "commitX")
              /\ UNCHANGED <<op, key, todo>>
    /\ UNCHANGED <<config, entries, items, sessionVars, ahead, orphans>>

RekeyCommit(r) ==
    /\ pc[r] = "commitX"
    /\ config' = tx.config /\ entries' = tx.entries /\ items' = tx.items
    /\ tx' = None
    /\ Goto(r, "clear")
    /\ UNCHANGED <<sessionVars, op, key, todo, ahead, orphans>>

\* Mutant: only the session that asked is removed.
RekeyClearOwn(r) ==
    /\ pc[r] = "clear"
    /\ sessions' = [sessions EXCEPT ![op[r].sid] = None]
    /\ Finish(r, "idle")
    /\ UNCHANGED <<dbVars, usedSids, usedSalts, loggedOut, ahead, orphans>>

RekeyClear(r) ==
    /\ pc[r] = "clear"
    /\ sessions' = [s \in Sid |-> None]
    /\ Finish(r, "idle")
    /\ UNCHANGED <<dbVars, usedSids, usedSalts, loggedOut, ahead, orphans>>

(***************************************************************************)
(* entries.rs: get_entry, create_entry, update_entry, delete_entry,        *)
(* bulk_import; vault_export.rs: the passwords of import_vault.            *)
(***************************************************************************)
GetEntry(r) ==
    /\ pc[r] = "body" /\ op[r].kind = "getEntry"
    /\ LET row == entries[op[r].id]
       IN  Finish(r, IF row = None \/ RowOpens(row, key[r]) THEN "idle" ELSE "corrupt")
    /\ UNCHANGED <<dbVars, sessionVars, ahead, orphans>>

\* BEGIN IMMEDIATE: one writer at a time, from before the first read.
BeginTx(r) ==
    /\ pc[r] = "body" /\ op[r].kind \in {"createEntry", "updateEntry", "import"}
    /\ OpenTx(r)
    /\ todo' = [todo EXCEPT ![r] = IF op[r].kind = "import" THEN op[r].doc.entries ELSE {}]
    /\ Goto(r, "write")
    /\ UNCHANGED <<config, entries, items, sessionVars, op, key, ahead, orphans>>

CreateEntry(r) ==
    /\ pc[r] = "write" /\ op[r].kind = "createEntry"
    /\ IF IsDuplicate(tx.entries, op[r].id, op[r].ident) \/ tx.entries[op[r].id] # None
         THEN Finish(r, "idle") /\ tx' = None
         ELSE /\ tx' = [tx EXCEPT !.entries[op[r].id] =
                          [ident |-> op[r].ident, secret |-> Seal(key[r], op[r].secret),
                           notes |-> SealNotes(key[r], op[r].notes)]]
              /\ Goto(r, "commit")
              /\ UNCHANGED <<op, key, todo>>
    /\ UNCHANGED <<config, entries, items, sessionVars, ahead, orphans>>

\* Fields that are missing from the request keep their stored ciphertext.
UpdateEntry(r) ==
    /\ pc[r] = "write" /\ op[r].kind = "updateEntry"
    /\ LET row == tx.entries[op[r].id]
       IN  IF row = None \/ IsDuplicate(tx.entries, op[r].id, op[r].ident)
             THEN Finish(r, "idle") /\ tx' = None
             ELSE /\ tx' = [tx EXCEPT !.entries[op[r].id] =
                       [ident |-> op[r].ident,
                        secret |-> IF op[r].secret = Keep THEN row.secret
                                   ELSE Seal(key[r], op[r].secret),
                        notes |-> IF op[r].notes = Keep THEN row.notes
                                  ELSE SealNotes(key[r], op[r].notes)]]
                  /\ Goto(r, "commit")
                  /\ UNCHANGED <<op, key, todo>>
    /\ UNCHANGED <<config, entries, items, sessionVars, ahead, orphans>>

\* One round of the import loop: a row whose id or identity is taken is skipped.
ImportEntry(r) ==
    /\ pc[r] = "write" /\ op[r].kind = "import"
    /\ \E d \in todo[r] :
        /\ tx' = IF tx.entries[d.id] # None \/ IsDuplicate(tx.entries, d.id, d.ident) THEN tx
                 ELSE [tx EXCEPT !.entries[d.id] =
                         [ident |-> d.ident, secret |-> Seal(key[r], d.secret),
                          notes |-> SealNotes(key[r], d.notes)]]
        /\ todo' = [todo EXCEPT ![r] = @ \ {d}]
    /\ UNCHANGED <<config, entries, items, sessionVars, pc, op, key, ahead, orphans>>

\* COMMIT of an entry transaction; an import goes on with its vault items.
Commit(r) ==
    /\ \/ pc[r] = "commit"
       \/ pc[r] = "write" /\ op[r].kind = "import" /\ todo[r] = {}
    /\ entries' = tx.entries
    /\ tx' = None
    /\ IF op[r].kind = "import"
         THEN /\ todo' = [todo EXCEPT ![r] = op[r].doc.items]
              /\ Goto(r, "items")
              /\ UNCHANGED <<op, key>>
         ELSE Finish(r, "idle")
    /\ UNCHANGED <<config, items, sessionVars, ahead, orphans>>

DeleteEntry(r) ==
    /\ pc[r] = "body" /\ op[r].kind = "deleteEntry" /\ tx = None
    /\ entries' = [entries EXCEPT ![op[r].id] = None]
    /\ Finish(r, "idle")
    /\ UNCHANGED <<config, items, tx, sessionVars, ahead, orphans>>

(***************************************************************************)
(* vault_items.rs, and the vault items of import_vault and export_vault.   *)
(***************************************************************************)
ListItems(r) ==
    /\ pc[r] = "body" /\ op[r].kind = "listItems"
    /\ Finish(r, IF ItemsOpen(items, key[r]) THEN "idle" ELSE "corrupt")
    /\ UNCHANGED <<dbVars, sessionVars, ahead, orphans>>

\* An update fetches the row first (404); create and delete go straight on.
PrepareItem(r) ==
    /\ pc[r] = "body" /\ op[r].kind \in {"createItem", "updateItem", "deleteItem"}
    /\ IF op[r].kind = "updateItem" /\ items[op[r].item] = None
         THEN Finish(r, "idle")
         ELSE Goto(r, "stmt") /\ UNCHANGED <<op, key, todo>>
    /\ UNCHANGED <<dbVars, sessionVars, ahead, orphans>>

Insert(i, c) == [act |-> "insert", item |-> i, cipher |-> c]
\* The statement of a request about one item.
ItemStatement(r) ==
    IF op[r].kind = "createItem" THEN Insert(op[r].item, Seal(key[r], op[r].data))
    ELSE IF op[r].kind = "updateItem"
         THEN [act |-> "update", item |-> op[r].item, cipher |-> Seal(key[r], op[r].data)]
         ELSE [act |-> "delete", item |-> op[r].item, cipher |-> None]

\* The statements r has in flight, or is about to send, at its label.
Statements(r) ==
    IF pc[r] = "stmt" THEN {ItemStatement(r)}
    ELSE IF pc[r] = "items" THEN {Insert(d.item, Seal(key[r], d.data)) : d \in todo[r]}
    ELSE {}

WriteItem(r) ==
    /\ pc[r] = "stmt" /\ tx = None
    /\ items' = Effect(ItemStatement(r))
    /\ IF Applies(ItemStatement(r)) /\ op[r].kind # "deleteItem"
         THEN Goto(r, "refetch") /\ UNCHANGED <<op, key, todo>>
         ELSE Finish(r, "idle")
    /\ UNCHANGED <<config, entries, tx, sessionVars, ahead, orphans>>

\* The answer carries the row as it is now: another request may have removed it.
RefetchItem(r) ==
    /\ pc[r] = "refetch"
    /\ LET row == items[op[r].item]
       IN  Finish(r, IF row = None \/ Opens(row, key[r]) THEN "idle" ELSE "corrupt")
    /\ UNCHANGED <<dbVars, sessionVars, ahead, orphans>>

\* INSERT OR IGNORE, one autocommit statement per item of the document.
ImportItem(r) ==
    /\ pc[r] = "items" /\ tx = None
    /\ \E d \in todo[r] :
        /\ items' = Effect(Insert(d.item, Seal(key[r], d.data)))
        /\ todo' = [todo EXCEPT ![r] = @ \ {d}]
    /\ UNCHANGED <<config, entries, tx, sessionVars, pc, op, key, ahead, orphans>>

\* A row whose statement fails is counted, and the loop goes on.
ImportItemFails(r) ==
    /\ pc[r] = "items" /\ tx # None
    /\ \E d \in todo[r] : todo' = [todo EXCEPT ![r] = @ \ {d}]
    /\ UNCHANGED <<dbVars, sessionVars, pc, op, key, ahead, orphans>>

ImportDone(r) ==
    /\ pc[r] = "items" /\ todo[r] = {}
    /\ Finish(r, "idle")
    /\ UNCHANGED <<dbVars, sessionVars, ahead, orphans>>

ExportVerify(r) ==
    /\ pc[r] = "body" /\ op[r].kind = "export"
    /\ IF config.pw = op[r].pw THEN Goto(r, "exportEntries") /\ UNCHANGED <<op, key, todo>>
                               ELSE Finish(r, "idle")
    /\ UNCHANGED <<dbVars, sessionVars, ahead, orphans>>

ExportEntries(r) ==
    /\ pc[r] = "exportEntries"
    /\ IF EntriesOpen(entries, key[r]) THEN Goto(r, "exportItems") /\ UNCHANGED <<op, key, todo>>
                                       ELSE Finish(r, "corrupt")
    /\ UNCHANGED <<dbVars, sessionVars, ahead, orphans>>

ExportItems(r) ==
    /\ pc[r] = "exportItems"
    /\ Finish(r, IF ItemsOpen(items, key[r]) THEN "idle" ELSE "corrupt")
    /\ UNCHANGED <<dbVars, sessionVars, ahead, orphans>>

(***************************************************************************)
(* Requests that end early, and the restart of the server.                 *)
(***************************************************************************)
RollBack(r) == tx' = IF tx # None /\ tx.owner = r THEN None ELSE tx

\* The body is refused, a statement fails, or the client is gone and the
\* server drops the future: guards and transaction go with it. A statement
\* the database already has may still run (LateStatements), and the future of
\* a password change may be dropped after its commit (DropRekeyTail).
Abort(r) ==
    /\ pc[r] \notin Free
    /\ pc[r] = "clear" => DropRekeyTail
    /\ Finish(r, "idle")
    /\ Leave(r)
    /\ RollBack(r)
    /\ \/ UNCHANGED orphans
       \/ LateStatements /\ \E s \in Statements(r) : orphans' = orphans \cup {s}
    /\ UNCHANGED <<config, entries, items, sessionVars>>

\* The database stays locked for the whole busy timeout (five seconds).
BusyTimeout(r) ==
    /\ tx # None
    /\ \/ pc[r] \in {"beginX", "stmt"}
       \/ pc[r] = "store" /\ op[r].kind = "setup"
       \/ pc[r] = "body" /\ op[r].kind \in {"createEntry", "updateEntry", "import", "deleteEntry"}
    /\ Finish(r, "idle")
    /\ UNCHANGED <<dbVars, sessionVars, ahead, orphans>>

RunOrphan ==
    /\ tx = None
    /\ \E s \in orphans :
        /\ items' = Effect(s)
        /\ orphans' = orphans \ {s}
    /\ UNCHANGED <<config, entries, tx, sessionVars, reqVars>>

\* The process ends: what was committed is all that is left.
Restart ==
    /\ tx' = None
    /\ sessions' = [s \in Sid |-> None]
    /\ pc' = [r \in Req |-> "idle"]
    /\ op' = [r \in Req |-> NoOp]
    /\ key' = [r \in Req |-> None]
    /\ todo' = [r \in Req |-> {}]
    /\ ahead' = [r \in Req |-> {}]
    /\ orphans' = {}
    /\ UNCHANGED <<config, entries, items, usedSids, usedSalts, loggedOut>>

(***************************************************************************)
(* The specification.                                                      *)
(***************************************************************************)
Step(r) ==
    \/ GrantShared(r) \/ GrantExclusive(r) \/ Extract(r)
    \/ SetupRead(r) \/ SetupInsert(r) \/ LoginRead(r) \/ LoginCreate(r)
    \/ Logout(r) \/ CheckSession(r)
    \/ RekeyVerify(r) \/ RekeyRelease(r) \/ RekeyCheck(r) \/ RekeyBegin(r)
    \/ Reencrypt(r) \/ RekeyCommit(r) \/ RekeyClear(r)
    \/ GetEntry(r) \/ BeginTx(r) \/ CreateEntry(r) \/ UpdateEntry(r)
    \/ ImportEntry(r) \/ Commit(r) \/ DeleteEntry(r)
    \/ ListItems(r) \/ PrepareItem(r) \/ WriteItem(r) \/ RefetchItem(r)
    \/ ImportItem(r) \/ ImportItemFails(r) \/ ImportDone(r)
    \/ ExportVerify(r) \/ ExportEntries(r) \/ ExportItems(r)
    \/ BusyTimeout(r)

Next ==
    \/ \E r \in Req : Receive(r) \/ Step(r) \/ Abort(r)
    \/ \E s \in Sid : Expire(s)
    \/ RunOrphan \/ Restart

Spec == Init /\ [][Next]_vars

\* tokio polls a ready task and sqlx answers every statement, so a request that
\* can take its next step takes it; clients, deadlines and crashes owe nothing.
FairSpec == Spec /\ \A r \in Req : WF_vars(Step(r))

(***************************************************************************)
(* Properties.                                                             *)
(***************************************************************************)
TypeOK ==
    /\ config \in Key \cup {None}
    /\ entries \in EntryTable
    /\ items \in ItemTable
    /\ tx \in Tx \cup {None}
    /\ sessions \in [Sid -> Session \cup {None}]
    /\ usedSids \subseteq Sid /\ usedSalts \subseteq Salt /\ loggedOut \subseteq Sid
    /\ pc \in [Req -> PC]
    /\ op \in [Req -> Op \cup {NoOp}]
    /\ key \in [Req -> Key \cup {None}]
    /\ todo \in [Req -> SUBSET (Draft \cup ItemDraft)]
    /\ ahead \in [Req -> SUBSET Req]
    /\ orphans \subseteq Statement

\* Every committed row opens with the key that the current master password
\* derives: no interleaving of writes and password changes strands a row.
AllDecryptable ==
    IF config = None THEN /\ \A e \in Entry : entries[e] = None
                          /\ \A i \in Item : items[i] = None
    ELSE EntriesOpen(entries, config) /\ ItemsOpen(items, config)

\* The table of logins is written in transactions only, so not even a late
\* statement of a dropped request can leave a login sealed with a retired key.
EntriesStayOpen == config # None => EntriesOpen(entries, config)

\* A session holds the key now in force, but for the moment in which the
\* password change that replaced it is still about to clear the sessions.
SessionsCurrent ==
    \A s \in Sid : Live(s) => sessions[s].key = config \/ \E r \in Req : pc[r] = "clear"

\* No handler ever answers that stored data does not open (500).
NeverCorrupt == \A r \in Req : pc[r] # "corrupt"

\* No two stored entries are for the same site scope and user name.
UniqueIdentities ==
    \A e, f \in Entry : e # f /\ entries[e] # None /\ entries[f] # None
                            => entries[e].ident # entries[f].ident

\* The master configuration is set once; after that only a password change
\* replaces it, one that knows the password in force and whose session has not
\* been logged out, however long it waited for its turn.
ConfigChange ==
    config # None =>
        \E r \in Req : /\ op[r].kind = "rekey" /\ op[r].pw = config.pw
                       /\ op[r].sid \notin loggedOut
                       /\ config' = NextKey(r)
ConfigChangesAuthorised == [][config' # config => ConfigChange]_vars

\* Every request gets an answer: lock queue and database never block each other.
EveryRequestEnds == \A r \in Req : pc[r] \notin Free ~> pc[r] \in Free
=============================================================================
