---------------------- MODULE VaultRefinement_proofs ----------------------
(***************************************************************************)
(* VaultServer implements AbstractVault, for every value of the constants: *)
(* first what an open transaction knows of the committed tables, then what *)
(* each step of the server is to the abstract vault.                       *)
(***************************************************************************)
EXTENDS VaultRefinement, VaultServer_proofs

\* A step of one request moves no other request.
LEMMA StepOfOne ==
    ASSUME Control, NEW r \in Req, Step(r) \/ Receive(r) \/ Abort(r), NEW q \in Req, q # r
    PROVE  pc'[q] = pc[q] /\ op'[q] = op[q] /\ key'[q] = key[q]
<1> USE DEF Goto, Finish, Control, TypeOK
<1>1. CASE Receive(r) \/ Abort(r) \/ Reading(r)
  BY <1>1 DEF Receive, Abort, Reading, SetupRead, CheckSession, RekeyVerify, RekeyCheck, GetEntry, ListItems,
     PrepareItem, RefetchItem, ImportDone, ExportVerify, ExportEntries, ExportItems, ImportItemFails, BusyTimeout
<1>2. CASE \/ GrantShared(r) \/ GrantExclusive(r) \/ Extract(r) \/ LoginRead(r) \/ LoginCreate(r)
           \/ Logout(r) \/ RekeyRelease(r) \/ RekeyClear(r)
  BY <1>2 DEF GrantShared, GrantExclusive, Extract, LoginRead, LoginCreate, Logout, RekeyRelease, RekeyClear
<1>3. CASE Writing(r)
  BY <1>3 DEF Writing, SetupInsert, RekeyBegin, Reencrypt, RekeyCommit, BeginTx, CreateEntry, UpdateEntry,
     ImportEntry, Commit, DeleteEntry, WriteItem, ImportItem
<1> QED
  BY <1>1, <1>2, <1>3 DEF Step, Reading, Writing

(***************************************************************************)
(* Transactions are isolated: the committed tables do not change under an  *)
(* open one, so what it sees is what is stored but for its own writes.     *)
(***************************************************************************)
Isolation ==
    \A r \in Req :
        /\ pc[r] = "reencrypt" => tx.entries = entries /\ tx.items = items
        /\ pc[r] = "commitX" => /\ tx.entries = RekeyedEntries(entries, NextKey(r))
                                /\ tx.items = RekeyedItems(items, NextKey(r))
        /\ pc[r] = "write" /\ op[r].kind # "import" => tx.entries = entries
        /\ pc[r] = "write" => \A e \in Entry : entries[e] # None => tx.entries[e] = entries[e]
        /\ pc[r] = "commit" => \A e \in Entry \ {op[r].id} : tx.entries[e] = entries[e]

\* A step of another request finds the committed tables and the transaction,
\* or drops the transaction of a request that ends with it.
LEMMA IsolationKept ==
    ASSUME Control, Isolation, UNCHANGED <<entries, items, tx>>,
           \A q \in Req : pc'[q] \in TxPC => pc'[q] = pc[q] /\ op'[q] = op[q]
    PROVE  Isolation'
  BY DEF Isolation, NextKey, TxPC, RekeyTxPC

\* Nobody is in a transaction once the transaction is gone.
LEMMA IsolationVoid ==
    ASSUME Control', tx' = None
    PROVE  Isolation'
  BY DEF Isolation, Control, Local, TxPC, RekeyTxPC

\* Only the owner of the transaction has anything to show.
LEMMA IsolationOfOwner ==
    ASSUME Control', NEW r \in Req, tx' # None, tx'.owner = r,
           pc'[r] = "reencrypt" => tx'.entries = entries' /\ tx'.items = items',
           pc'[r] = "commitX" => /\ tx'.entries = RekeyedEntries(entries', NextKey(r)')
                                 /\ tx'.items = RekeyedItems(items', NextKey(r)'),
           pc'[r] = "write" /\ op'[r].kind # "import" => tx'.entries = entries',
           pc'[r] = "write" => \A e \in Entry : entries'[e] # None => tx'.entries[e] = entries'[e],
           pc'[r] = "commit" => \A e \in Entry \ {op'[r].id} : tx'.entries[e] = entries'[e]
    PROVE  Isolation'
<1>1. \A q \in Req : pc'[q] \in TxPC => q = r
  BY DEF Control, Local
<1> QED
  BY <1>1 DEF Isolation, TxPC, RekeyTxPC

LEMMA IsolationNext ==
    ASSUME Control, Isolation, [Next]_vars
    PROVE  Isolation'
<1>0. Control'
  BY ControlNext
<1> USE DEF dbVars, Goto, Finish, TxPC, RekeyTxPC
<1>00. /\ pc \in [Req -> PC] /\ op \in [Req -> Op \cup {NoOp}]
       /\ tx # None => tx \in Tx
       /\ \A r \in Req : pc[r] \in TxPC => tx # None /\ tx.owner = r
  BY DEF Control, TypeOK, Local
<1>1. ASSUME NEW r \in Req, Reencrypt(r)
      PROVE  Isolation'
  <2>1. tx \in Tx /\ tx # None /\ tx.owner = r /\ tx.entries = entries /\ tx.items = items
    BY <1>00, <1>1 DEF Reencrypt, Isolation
  <2>2. CASE tx' = None
    BY <1>0, <2>2, IsolationVoid
  <2>3. CASE tx' # None
    <3>1. /\ tx' = [tx EXCEPT !.config = NextKey(r),
                              !.entries = RekeyedEntries(@, NextKey(r)),
                              !.items = RekeyedItems(@, NextKey(r))]
          /\ Goto(r, "commitX") /\ UNCHANGED <<op, entries, items>>
      BY <1>1, <2>3 DEF Reencrypt
    <3>2. /\ tx'.owner = r /\ pc'[r] = "commitX" /\ NextKey(r)' = NextKey(r)
          /\ tx'.entries = RekeyedEntries(entries, NextKey(r))
          /\ tx'.items = RekeyedItems(items, NextKey(r))
      BY <1>00, <2>1, <3>1 DEF Tx, NextKey
    <3> QED
      BY <1>0, <2>3, <3>1, <3>2, IsolationOfOwner
  <2> QED
    BY <2>2, <2>3
<1>2. ASSUME NEW r \in Req, RekeyBegin(r) \/ BeginTx(r)
      PROVE  Isolation'
  <2>1. /\ tx' = [owner |-> r, config |-> config, entries |-> entries, items |-> items]
        /\ pc'[r] \in {"reencrypt", "write"} /\ UNCHANGED <<entries, items>>
    BY <1>00, <1>2 DEF RekeyBegin, BeginTx, OpenTx
  <2>2. tx' # None
    BY <1>0, <2>1 DEF Control, Local
  <2> QED
    BY <1>0, <2>1, <2>2, IsolationOfOwner
<1>3. ASSUME NEW r \in Req, CreateEntry(r) \/ UpdateEntry(r)
      PROVE  Isolation'
  <2>1. /\ tx \in Tx /\ tx # None /\ tx.owner = r /\ tx.entries = entries
        /\ UNCHANGED <<entries, items>>
    BY <1>00, <1>3 DEF CreateEntry, UpdateEntry, Isolation
  <2>2. CASE tx' = None
    BY <1>0, <2>2, IsolationVoid
  <2>3. CASE tx' # None
    <3>1. /\ \E row : tx' = [tx EXCEPT !.entries[op[r].id] = row]
          /\ Goto(r, "commit") /\ op' = op
      BY <1>3, <2>3 DEF CreateEntry, UpdateEntry
    <3>2. /\ tx'.owner = r /\ pc'[r] = "commit"
          /\ \A e \in Entry \ {op[r].id} : tx'.entries[e] = entries[e]
      BY <1>00, <2>1, <3>1 DEF Tx, EntryTable
    <3> QED
      BY <1>0, <2>1, <2>3, <3>1, <3>2, IsolationOfOwner
  <2> QED
    BY <2>2, <2>3
<1>4. ASSUME NEW r \in Req, ImportEntry(r)
      PROVE  Isolation'
  <2>1. /\ tx \in Tx /\ tx # None /\ tx.owner = r
        /\ \A e \in Entry : entries[e] # None => tx.entries[e] = entries[e]
        /\ UNCHANGED <<entries, items, pc, op>> /\ pc[r] = "write" /\ op[r].kind = "import"
    BY <1>00, <1>4 DEF ImportEntry, Isolation
  <2>2. PICK d : \/ tx' = tx
                 \/ /\ tx.entries[d.id] = None
                    /\ \E row : tx' = [tx EXCEPT !.entries[d.id] = row]
    BY <1>4 DEF ImportEntry
  <2>3. tx'.owner = r /\ \A e \in Entry : entries[e] # None => tx'.entries[e] = entries[e]
    BY <2>1, <2>2 DEF Tx, EntryTable
  <2>4. tx' # None
    BY <1>0, <2>1 DEF Control, Local
  <2> QED
    BY <1>0, <2>1, <2>3, <2>4, IsolationOfOwner
<1>5. ASSUME NEW r \in Req, Commit(r) \/ RekeyCommit(r)
      PROVE  Isolation'
  BY <1>0, <1>5, IsolationVoid DEF Commit, RekeyCommit
<1>6. ASSUME NEW r \in Req, SetupInsert(r) \/ DeleteEntry(r) \/ WriteItem(r) \/ ImportItem(r)
      PROVE  Isolation'
  BY <1>0, <1>6, IsolationVoid DEF SetupInsert, DeleteEntry, WriteItem, ImportItem
<1>7. ASSUME \A r \in Req : ~Writing(r), tx' = tx, tx # None
      PROVE  Isolation'
  <2>1. UNCHANGED <<entries, items>>
    BY <1>7, TablesFrame DEF RunOrphan
  <2>2. \A q \in Req : pc'[q] \in TxPC => pc[q] \in TxPC
    BY <1>0, <1>7 DEF Control, Local
  <2>3. ASSUME NEW r \in Req, Step(r) \/ Receive(r) \/ Abort(r), NEW q \in Req, pc'[q] \in TxPC
        PROVE  pc'[q] = pc[q] /\ op'[q] = op[q]
    <3>1. CASE q = r
      BY <1>00, <1>7, <2>2, <2>3, <3>1 DEF Step, Reading, Writing, GrantShared, GrantExclusive, Extract, SetupRead,
         LoginRead, LoginCreate, Logout, CheckSession, RekeyVerify, RekeyRelease, RekeyCheck, RekeyClear,
         GetEntry, ListItems, PrepareItem, RefetchItem, ImportDone, ExportVerify, ExportEntries,
         ExportItems, ImportItemFails, BusyTimeout, Receive, Abort, Free
    <3>2. CASE q # r
      BY <1>00, <2>3, <3>2, StepOfOne
    <3> QED
      BY <3>1, <3>2
  <2>4. ASSUME (\E s \in Sid : Expire(s)) \/ RunOrphan \/ Restart \/ UNCHANGED vars,
               NEW q \in Req, pc'[q] \in TxPC
        PROVE  pc'[q] = pc[q] /\ op'[q] = op[q]
    BY <2>4 DEF Expire, RunOrphan, Restart, vars, reqVars
  <2> QED
    BY <1>7, <2>1, <2>3, <2>4, IsolationKept DEF Next
<1>8. ASSUME \A r \in Req : ~Writing(r)
      PROVE  Isolation'
  BY <1>0, <1>7, <1>8, TablesFrame, IsolationVoid
<1> QED
  BY <1>1, <1>2, <1>3, <1>4, <1>5, <1>6, <1>8 DEF Writing

\* What a transaction sees is what is stored, but for its own writes.
THEOREM IsolationInvariant == Spec => []Isolation
<1>1. Init => Isolation
  BY DEF Init, Isolation
<1>2. Control /\ Isolation /\ [Next]_vars => Isolation'
  BY IsolationNext
<1> QED
  BY <1>1, <1>2, ControlInvariant, PTL DEF Spec

(***************************************************************************)
(* What the abstract vault sees of the tables, the keys and the sessions.  *)
(***************************************************************************)
\* A request with a key works on a vault that has an owner.
LEMMA HolderSeesOwner ==
    ASSUME Rows, NEW r \in Req, HoldsKey(r)
    PROVE  config \in Key /\ SeenOwner # None
<1>1. config \in Key
  BY DEF Rows, KeysInForce, Order, Control, TypeOK
<1> QED
  BY <1>1, NoneAssumption, PasswordAssumption DEF SeenOwner, Key

\* A login that opens is seen as a login under its identity.
LEMMA OpenedEntryType ==
    ASSUME config \in Key, NEW row \in EntryRow \cup {None}, row = None \/ RowOpens(row, config)
    PROVE  /\ OpenedEntry(row) \in Abstract!Login \cup {None}
           /\ row = None => OpenedEntry(row) = None
           /\ row # None => OpenedEntry(row).ident = row.ident
  BY DEF OpenedEntry, OpenedNotes, RowOpens, EntryRow, Cipher, Abstract!Login

LEMMA OpenedItemType ==
    ASSUME config \in Key, NEW row \in Cipher \cup {None}, row = None \/ Opens(row, config)
    PROVE  OpenedItem(row) \in Plain \cup {None}
  BY DEF OpenedItem, Cipher

\* Distinct rows are seen as distinct logins.
LEMMA DistinctSeen ==
    ASSUME config \in Key, NEW tbl \in EntryTable, EntriesOpen(tbl, config), Distinct(tbl)
    PROVE  /\ [e \in Entry |-> OpenedEntry(tbl[e])] \in [Entry -> Abstract!Login \cup {None}]
           /\ Abstract!Distinct([e \in Entry |-> OpenedEntry(tbl[e])])
<1> DEFINE seen == [e \in Entry |-> OpenedEntry(tbl[e])]
<1>1. ASSUME NEW e \in Entry
      PROVE  /\ seen[e] \in Abstract!Login \cup {None}
             /\ seen[e] # None => tbl[e] # None /\ seen[e].ident = tbl[e].ident
  <2>1. seen[e] = OpenedEntry(tbl[e])
    OBVIOUS
  <2>2. tbl[e] \in EntryRow \cup {None} /\ (tbl[e] = None \/ RowOpens(tbl[e], config))
    BY DEF EntryTable, EntriesOpen
  <2> QED
    BY <2>1, <2>2, OpenedEntryType
<1>2. seen \in [Entry -> Abstract!Login \cup {None}]
  BY <1>1
<1> HIDE DEF seen
<1>3. Abstract!Distinct(seen)
  BY <1>1 DEF Distinct, Abstract!Distinct
<1> QED
  BY <1>2, <1>3 DEF seen

\* Re-encryption changes no plaintext: what the old key opened in the old rows
\* the new key opens in the new ones.
LEMMA RekeyedSeen ==
    ASSUME config \in Key, config' \in Key,
           entries \in EntryTable, EntriesOpen(entries, config), entries' = RekeyedEntries(entries, config'),
           items \in ItemTable, ItemsOpen(items, config), items' = RekeyedItems(items, config')
    PROVE  UNCHANGED <<SeenLogins, SeenContents>>
<1>1. \A c \in Cipher : /\ Rekeyed(c, config') \in Cipher
                       /\ Opens(Rekeyed(c, config'), config')
                       /\ Rekeyed(c, config').data = c.data
  BY DEF Rekeyed, Cipher, Opens
<1>2. ASSUME NEW e \in Entry
      PROVE  OpenedEntry(entries[e])' = OpenedEntry(entries[e])
  <2>1. CASE entries[e] = None
    BY <2>1 DEF OpenedEntry, RekeyedEntries
  <2>2. CASE entries[e] # None
    <3> DEFINE row == entries[e]
               new == [row EXCEPT !.secret = Rekeyed(@, config'),
                                  !.notes = IF @ = None THEN None ELSE Rekeyed(@, config')]
    <3>1. row \in EntryRow /\ RowOpens(row, config) /\ entries'[e] = new
      BY <2>2 DEF EntryTable, EntriesOpen, RekeyedEntries
    <3>2. /\ new # None /\ RowOpens(new, config')
          /\ new.ident = row.ident /\ new.secret.data = row.secret.data
          /\ OpenedNotes(new.notes) = OpenedNotes(row.notes)
      BY <1>1, <3>1, NoneAssumption DEF EntryRow, RowOpens, OpenedNotes
    <3> QED
      BY <2>2, <3>1, <3>2 DEF OpenedEntry
  <2> QED
    BY <2>1, <2>2
<1>3. ASSUME NEW i \in Item
      PROVE  OpenedItem(items[i])' = OpenedItem(items[i])
  BY <1>1, NoneAssumption DEF OpenedItem, RekeyedItems, ItemTable, ItemsOpen
<1> QED
  BY <1>2, <1>3 DEF SeenLogins, SeenContents

\* Steps that leave the stored rows alone leave what is seen of them alone.
LEMMA TablesSeen ==
    ASSUME UNCHANGED <<config, entries, items>>
    PROVE  UNCHANGED <<SeenOwner, SeenLogins, SeenContents>>
  BY DEF SeenOwner, SeenLogins, SeenContents, OpenedEntry, OpenedItem

\* The sessions are seen as they are, unless a password change enters or
\* leaves the moment between its commit and the clearing of the sessions.
LEMMA SessionsSeen ==
    ASSUME \A q \in Req : pc'[q] = "clear" <=> pc[q] = "clear"
    PROVE  /\ UNCHANGED sessions => UNCHANGED SeenUnlocked
           /\ (\A s \in Sid : Live(s)' => Live(s)) => SeenUnlocked' \subseteq SeenUnlocked
  BY DEF SeenUnlocked, Live

(***************************************************************************)
(* What each step of the server is to the abstract vault.                  *)
(***************************************************************************)
Seen == <<SeenOwner, SeenLogins, SeenContents, SeenUnlocked>>

\* The steps that write a session or a table are few; all others are not seen.
Silent(r) ==
    \/ Receive(r) \/ Abort(r) \/ Reading(r) \/ GrantShared(r) \/ GrantExclusive(r)
    \/ Extract(r) \/ LoginRead(r) \/ RekeyRelease(r) \/ RekeyBegin(r) \/ Reencrypt(r)
    \/ BeginTx(r) \/ CreateEntry(r) \/ UpdateEntry(r) \/ ImportEntry(r)

LEMMA SilentStep ==
    ASSUME Rows, ~DropRekeyTail, NEW r \in Req, Silent(r)
    PROVE  UNCHANGED Seen
<1> USE DEF Rows, Order, Control, TypeOK, Goto, Finish, dbVars, sessionVars
<1>1. CASE Receive(r) \/ Abort(r)
  <2>1. UNCHANGED <<config, entries, items, sessions>> /\ \A q \in Req : pc'[q] = "clear" <=> pc[q] = "clear"
    BY <1>1 DEF Receive, Abort, Free
  <2> QED
    BY <2>1, TablesSeen, SessionsSeen DEF Seen
<1>2. CASE Reading(r)
  <2>1. UNCHANGED <<config, entries, items, sessions>> /\ \A q \in Req : pc'[q] = "clear" <=> pc[q] = "clear"
    BY <1>2 DEF Reading, SetupRead, CheckSession, RekeyVerify, RekeyCheck, GetEntry, ListItems, PrepareItem,
       RefetchItem, ImportDone, ExportVerify, ExportEntries, ExportItems, ImportItemFails, BusyTimeout
  <2> QED
    BY <2>1, TablesSeen, SessionsSeen DEF Seen
<1>3. CASE GrantShared(r) \/ GrantExclusive(r) \/ Extract(r) \/ LoginRead(r) \/ RekeyRelease(r)
  <2>1. UNCHANGED <<config, entries, items, sessions>> /\ \A q \in Req : pc'[q] = "clear" <=> pc[q] = "clear"
    BY <1>3 DEF GrantShared, GrantExclusive, Extract, LoginRead, RekeyRelease
  <2> QED
    BY <2>1, TablesSeen, SessionsSeen DEF Seen
<1>4. CASE \/ RekeyBegin(r) \/ Reencrypt(r) \/ BeginTx(r)
           \/ CreateEntry(r) \/ UpdateEntry(r) \/ ImportEntry(r)
  <2>1. UNCHANGED <<config, entries, items, sessions>> /\ \A q \in Req : pc'[q] = "clear" <=> pc[q] = "clear"
    BY <1>4 DEF RekeyBegin, Reencrypt, BeginTx, CreateEntry, UpdateEntry, ImportEntry
  <2> QED
    BY <2>1, TablesSeen, SessionsSeen DEF Seen
<1> QED
  BY <1>1, <1>2, <1>3, <1>4 DEF Silent

\* Setting the vault up, unless somebody else was first.
LEMMA SetupStep ==
    ASSUME Rows, NEW r \in Req, SetupInsert(r)
    PROVE  Abstract!SetUp \/ UNCHANGED Seen
<1>1. UNCHANGED <<entries, items, sessions>> /\ \A q \in Req : pc'[q] = "clear" <=> pc[q] = "clear"
  BY DEF SetupInsert, Goto, Finish, sessionVars, Rows, Order, Control, TypeOK
<1>2. UNCHANGED SeenUnlocked
  BY <1>1, SessionsSeen
<1>3. CASE config = None
  <2>1. op[r] \in Op /\ op[r].kind = "setup"
    BY DEF SetupInsert, Rows, Order, Control, Local, KindAtLabel, Free
  <2>2. config' \in Key /\ config'.pw \in Password
    BY <1>3, <2>1, OpFields DEF SetupInsert, Key
  <2>3. SeenOwner = None /\ SeenOwner' \in Password
    BY <1>3, <2>2, NoneAssumption DEF SeenOwner
  <2>4. (\A e \in Entry : entries[e] = None) /\ (\A i \in Item : items[i] = None)
    BY <1>3 DEF Rows, EntriesInForce, ItemsInForce
  <2>5. UNCHANGED <<SeenLogins, SeenContents>>
    BY <1>1, <2>4 DEF SeenLogins, SeenContents, OpenedEntry, OpenedItem
  <2> QED
    BY <1>2, <2>3, <2>5 DEF Abstract!SetUp
<1>4. CASE config # None
  BY <1>1, <1>2, <1>4, TablesSeen DEF SetupInsert, Seen
<1> QED
  BY <1>3, <1>4

\* A login unlocks its session: it creates it under the shared guard, when no
\* password change can be about to clear the sessions.
LEMMA LoginStep ==
    ASSUME Rows, NEW r \in Req, LoginCreate(r)
    PROVE  Abstract!Unlock
<1>1. /\ HoldsKey(r) /\ key[r] \in Key /\ op[r] \in Op /\ pc[r] \in SharedPC
      /\ op[r].sid \in Sid /\ op[r].mode \in Mode
  BY OpFields DEF LoginCreate, HoldsKey, Rows, Order, Control, Local, KindAtLabel, Free, SharedPC
<1>2. /\ UNCHANGED <<config, entries, items>>
      /\ sessions' = [sessions EXCEPT ![op[r].sid] = [key |-> key[r], mode |-> op[r].mode]]
      /\ pc' = [pc EXCEPT ![r] = "idle"]
  BY DEF LoginCreate, Goto, Finish, dbVars
<1>3. \A q \in Req : pc[q] # "clear" /\ pc'[q] # "clear"
  BY <1>1, <1>2 DEF Rows, Order, Exclusion, Control, TypeOK, SharedPC, ExclusivePC
<1>4. \A s \in Sid : Live(s)' <=> Live(s) \/ s = op[r].sid
  BY <1>1, <1>2, NoneAssumption DEF Live, Session, Rows, Order, Control, TypeOK
<1>5. SeenUnlocked' = SeenUnlocked \cup {op[r].sid}
  BY <1>1, <1>3, <1>4 DEF SeenUnlocked
<1> QED
  BY <1>1, <1>2, <1>5, HolderSeesOwner, TablesSeen DEF Abstract!Unlock

\* A logout, a deadline, the end of a password change and a restart end
\* sessions and do nothing else.
LEMMA LockStep ==
    ASSUME Rows, \/ \E r \in Req : Logout(r) \/ RekeyClear(r)
                 \/ \E s \in Sid : Expire(s)
                 \/ Restart
    PROVE  Abstract!Lock
<1> USE DEF dbVars, Rows, Order, Control, TypeOK, Goto, Finish
<1>1. UNCHANGED <<config, entries, items>>
  BY DEF Logout, RekeyClear, Expire, Restart
<1>2. ASSUME (\E r \in Req : Logout(r)) \/ (\E s \in Sid : Expire(s))
      PROVE  SeenUnlocked' \subseteq SeenUnlocked
  <2>1. \A q \in Req : pc'[q] = "clear" <=> pc[q] = "clear"
    BY <1>2 DEF Logout, Expire, reqVars
  <2>2. \A s \in Sid : Live(s)' => Live(s)
    BY <1>2 DEF Logout, Expire, Live
  <2> QED
    BY <2>1, <2>2, SessionsSeen
<1>3. ASSUME (\E r \in Req : RekeyClear(r)) \/ Restart
      PROVE  SeenUnlocked' \subseteq SeenUnlocked
  <2>1. \A s \in Sid : ~Live(s)'
    BY <1>3 DEF RekeyClear, Restart, Live
  <2> QED
    BY <2>1 DEF SeenUnlocked
<1> QED
  BY <1>1, <1>2, <1>3, TablesSeen DEF Abstract!Lock

\* A password change is one step, that of its commit.
LEMMA RekeyStep ==
    ASSUME Rows, Isolation, NEW r \in Req, RekeyCommit(r)
    PROVE  Abstract!ChangePassword
<1>1. pc[r] = "commitX" /\ pc[r] \in TxPC /\ HoldsKey(r) /\ op[r] \in Op /\ op[r].kind = "rekey"
  BY DEF RekeyCommit, TxPC, RekeyTxPC, HoldsKey, KeyedPC, ExclusivePC, Rows, Order, Control, Local,
     KindAtLabel, Free
<1>2. config' = NextKey(r)
  BY <1>1 DEF RekeyCommit, Rows, Order, Authority, TxConfig
<1>3. config' \in Key /\ config'.pw \in Password
  BY <1>1, <1>2, OpFields DEF NextKey, Key
<1>4. config \in Key /\ SeenOwner # None
  BY <1>1, HolderSeesOwner
<1>5. SeenOwner' \in Password
  BY <1>3, NoneAssumption DEF SeenOwner
<1>6. entries' = RekeyedEntries(entries, config') /\ items' = RekeyedItems(items, config')
  BY <1>1, <1>2 DEF RekeyCommit, Isolation
<1>7. /\ entries \in EntryTable /\ EntriesOpen(entries, config)
      /\ items \in ItemTable /\ ItemsOpen(items, config)
  BY <1>4, NoneAssumption DEF Rows, Order, Control, TypeOK, EntriesInForce, EntriesStayOpen, ItemsInForce
<1>8. UNCHANGED <<SeenLogins, SeenContents>>
  BY <1>3, <1>4, <1>6, <1>7, RekeyedSeen
<1>9. SeenUnlocked' = {}
  BY DEF RekeyCommit, Goto, SeenUnlocked, Rows, Order, Control, TypeOK
<1> QED
  BY <1>4, <1>5, <1>8, <1>9 DEF Abstract!ChangePassword

\* A step that writes logins only, under the configuration in force.
LEMMA LoginsWritten ==
    ASSUME Rows, Rows', DistinctTables', NEW r \in Req, HoldsKey(r),
           UNCHANGED <<config, items, sessions>>,
           \A q \in Req : pc'[q] = "clear" <=> pc[q] = "clear"
    PROVE  /\ SeenOwner # None /\ UNCHANGED <<SeenOwner, SeenContents, SeenUnlocked>>
           /\ SeenLogins' \in [Entry -> Abstract!Login \cup {None}]
           /\ Abstract!Distinct(SeenLogins')
           /\ \A e \in Entry : entries'[e] = entries[e] => SeenLogins'[e] = SeenLogins[e]
           /\ \A e \in Entry : SeenLogins[e] # None => entries[e] # None
<1>1. config \in Key /\ SeenOwner # None
  BY HolderSeesOwner
<1>2. /\ entries' \in EntryTable /\ config' = config /\ EntriesOpen(entries', config)
      /\ Distinct(entries')
  BY <1>1, NoneAssumption DEF Rows, Order, Control, TypeOK, EntriesInForce, EntriesStayOpen, EntriesOpen,
     DistinctTables, Distinct, RowOpens, Opens
<1>3. SeenLogins' = [e \in Entry |-> OpenedEntry(entries'[e])]
  BY <1>2 DEF SeenLogins, OpenedEntry
<1>4. \A e \in Entry : entries'[e] = entries[e] => SeenLogins'[e] = SeenLogins[e]
  BY <1>3 DEF SeenLogins
<1>5. \A e \in Entry : SeenLogins[e] # None => entries[e] # None
  BY DEF SeenLogins, OpenedEntry
<1>6. UNCHANGED <<SeenOwner, SeenContents, SeenUnlocked>>
  BY SessionsSeen DEF SeenOwner, SeenContents, OpenedItem
<1> QED
  BY <1>1, <1>2, <1>3, <1>4, <1>5, <1>6, DistinctSeen

\* The commit of a create or an update writes one login, that of an import adds
\* logins, and a delete removes one.
LEMMA CommitStep ==
    ASSUME Rows, Rows', Isolation, DistinctTables', NEW r \in Req, Commit(r)
    PROVE  Abstract!WriteLogin \/ Abstract!ImportLogins
<1> USE DEF Goto, Finish, sessionVars
<1>1. /\ HoldsKey(r) /\ pc[r] \in TxPC /\ op[r] \in Op
      /\ UNCHANGED <<config, items, sessions>> /\ entries' = tx.entries
      /\ \A q \in Req : pc'[q] = "clear" <=> pc[q] = "clear"
  BY DEF Commit, HoldsKey, KeyedPC, TxPC, Free, Rows, Order, Control, TypeOK, Local, KindAtLabel
<1>2. /\ SeenOwner # None /\ UNCHANGED <<SeenOwner, SeenContents, SeenUnlocked>>
      /\ SeenLogins' \in [Entry -> Abstract!Login \cup {None}]
      /\ Abstract!Distinct(SeenLogins')
      /\ \A e \in Entry : entries'[e] = entries[e] => SeenLogins'[e] = SeenLogins[e]
      /\ \A e \in Entry : SeenLogins[e] # None => entries[e] # None
  BY <1>1, LoginsWritten
<1>3. CASE pc[r] = "commit"
  <2>1. op[r].id \in Entry
    BY <1>1, <1>3, OpFields DEF Rows, Order, Control, Local, KindAtLabel
  <2>2. \A e \in Entry \ {op[r].id} : SeenLogins'[e] = SeenLogins[e]
    BY <1>1, <1>2, <1>3 DEF Isolation
  <2>3. SeenLogins \in [Entry -> {SeenLogins[e] : e \in Entry}]
    BY DEF SeenLogins
  <2>4. SeenLogins' = [SeenLogins EXCEPT ![op[r].id] = SeenLogins'[op[r].id]]
    BY <1>2, <2>1, <2>2, <2>3
  <2> QED
    BY <1>2, <2>1, <2>4 DEF Abstract!WriteLogin
<1>4. CASE pc[r] = "write"
  <2>1. \A e \in Entry : SeenLogins[e] # None => SeenLogins'[e] = SeenLogins[e]
    BY <1>1, <1>2, <1>4 DEF Isolation
  <2> QED
    BY <1>2, <2>1 DEF Abstract!ImportLogins
<1> QED
  BY <1>3, <1>4 DEF Commit

LEMMA DeleteStep ==
    ASSUME Rows, Rows', DistinctTables', NEW r \in Req, DeleteEntry(r)
    PROVE  Abstract!WriteLogin
<1> USE DEF Goto, Finish, sessionVars
<1>1. /\ HoldsKey(r) /\ op[r] \in Op /\ op[r].id \in Entry
      /\ UNCHANGED <<config, items, sessions>> /\ entries' = [entries EXCEPT ![op[r].id] = None]
      /\ \A q \in Req : pc'[q] = "clear" <=> pc[q] = "clear"
  BY OpFields DEF DeleteEntry, HoldsKey, Free, Rows, Order, Control, TypeOK, Local, KindAtLabel
<1>2. /\ SeenOwner # None /\ UNCHANGED <<SeenOwner, SeenContents, SeenUnlocked>>
      /\ SeenLogins' \in [Entry -> Abstract!Login \cup {None}]
      /\ Abstract!Distinct(SeenLogins')
      /\ \A e \in Entry : entries'[e] = entries[e] => SeenLogins'[e] = SeenLogins[e]
  BY <1>1, LoginsWritten
<1>3. \A e \in Entry \ {op[r].id} : SeenLogins'[e] = SeenLogins[e]
  BY <1>1, <1>2 DEF Rows, Order, Control, TypeOK, EntryTable
<1>4. SeenLogins \in [Entry -> {SeenLogins[e] : e \in Entry}]
  BY DEF SeenLogins
<1>5. SeenLogins' = [SeenLogins EXCEPT ![op[r].id] = SeenLogins'[op[r].id]]
  BY <1>1, <1>2, <1>3, <1>4
<1> QED
  BY <1>1, <1>2, <1>5 DEF Abstract!WriteLogin

\* A statement on a vault item that applies writes one item.
LEMMA ItemStep ==
    ASSUME Rows, Rows', NEW r \in Req, WriteItem(r) \/ ImportItem(r)
    PROVE  Abstract!WriteItem \/ UNCHANGED Seen
<1> USE DEF Goto, Finish, sessionVars
<1>1. /\ HoldsKey(r) /\ UNCHANGED <<config, entries, sessions>>
      /\ \A q \in Req : pc'[q] = "clear" <=> pc[q] = "clear"
  BY DEF WriteItem, ImportItem, HoldsKey, KeyedPC, Rows, Order, Control, TypeOK
<1>2. config \in Key /\ SeenOwner # None
  BY <1>1, HolderSeesOwner
<1>3. UNCHANGED <<SeenOwner, SeenLogins, SeenUnlocked>>
  BY <1>1, SessionsSeen DEF SeenOwner, SeenLogins, OpenedEntry
<1>4. PICK s \in Statements(r) : items' = Effect(s)
  <2>1. CASE WriteItem(r)
    BY <2>1 DEF WriteItem, Statements
  <2>2. CASE ImportItem(r)
    <3>1. PICK d \in todo[r] : items' = Effect(Insert(d.item, Seal(key[r], d.data)))
      BY <2>2 DEF ImportItem
    <3> QED
      BY <2>2, <3>1 DEF ImportItem, Statements
  <2> QED
    BY <2>1, <2>2
<1>5. s.item \in Item
  BY StatementsType DEF Rows, Order, Statement
<1>6. /\ items' \in ItemTable /\ ItemsOpen(items', config)
      /\ \A i \in Item \ {s.item} : items'[i] = items[i]
  BY <1>1, <1>2, <1>4, NoneAssumption
     DEF Rows, Order, Control, TypeOK, ItemsInForce, ItemsOpen, Opens, Effect, ItemTable
<1>7. SeenContents' = [i \in Item |-> OpenedItem(items'[i])]
  BY <1>1 DEF SeenContents, OpenedItem
<1>8. OpenedItem(items'[s.item]) \in Plain \cup {None}
  BY <1>2, <1>5, <1>6, OpenedItemType DEF ItemTable, ItemsOpen
<1>9. SeenContents' = [SeenContents EXCEPT ![s.item] = OpenedItem(items'[s.item])]
  BY <1>5, <1>6, <1>7 DEF SeenContents
<1> QED
  BY <1>2, <1>3, <1>5, <1>8, <1>9 DEF Abstract!WriteItem

LEMMA StepIsSeen ==
    ASSUME Rows, Rows', Isolation, DistinctTables', ~DropRekeyTail, [Next]_vars
    PROVE  Abstract!Next \/ UNCHANGED Seen
<1> USE DEF Abstract!Next
<1>1. ASSUME NEW r \in Req, Receive(r) \/ Step(r) \/ Abort(r)
      PROVE  Abstract!Next \/ UNCHANGED Seen
  BY <1>1, SilentStep, SetupStep, LoginStep, LockStep, RekeyStep, CommitStep, DeleteStep, ItemStep
     DEF Step, Silent, Reading
<1>2. CASE (\E s \in Sid : Expire(s)) \/ Restart
  BY <1>2, LockStep
<1>3. CASE RunOrphan
  BY <1>3 DEF RunOrphan, Rows, ItemsInForce
<1>4. CASE UNCHANGED vars
  <2>1. UNCHANGED <<config, entries, items, sessions, pc>>
    BY <1>4 DEF vars, dbVars, sessionVars, reqVars
  <2> QED
    BY <2>1, TablesSeen, SessionsSeen DEF Seen
<1> QED
  BY <1>1, <1>2, <1>3, <1>4 DEF Next

\* As long as no statement and no password change outlives its guards, every
\* behaviour of the server is one of the abstract vault: whatever the requests
\* and however they interleave, end or crash, its user sees logins and items in
\* the clear, written one at a time, and a password change that ends every
\* session and touches nothing stored.
THEOREM ServerImplementsVault ==
    ~DropRekeyTail /\ ~LateStatements => (Spec => ImplementsAbstractVault)
<1> SUFFICES ASSUME ~DropRekeyTail, ~LateStatements
             PROVE  Spec => ImplementsAbstractVault
  OBVIOUS
<1>1. Init => Abstract!Init
  BY DEF Init, Abstract!Init, SeenOwner, SeenLogins, SeenContents, SeenUnlocked, OpenedEntry, OpenedItem, Live
<1>2. Rows /\ Rows' /\ Isolation /\ DistinctTables' /\ [Next]_vars => [Abstract!Next]_(Abstract!vars)
  BY StepIsSeen DEF Abstract!vars, Seen
<1> QED
  BY <1>1, <1>2, RowsInvariant, IsolationInvariant, DistinctInvariant, PTL
     DEF Spec, ImplementsAbstractVault, Abstract!Spec
===========================================================================
