------------------------- MODULE VaultServer_proofs -------------------------
(***************************************************************************)
(* Proofs about VaultServer for every value of its constants.              *)
(***************************************************************************)
EXTENDS VaultServer, TLAPS

(***************************************************************************)
(* What a request's label says of the rest of its state.                   *)
(***************************************************************************)
KeyedPC == {"derived", "waitX", "write", "commit", "items", "stmt", "refetch",
            "exportEntries", "exportItems"} \cup ExclusivePC
TxPC == {"write", "commit"} \cup RekeyTxPC

\* r has taken a key from a session, or from the configuration to log in.
HoldsKey(r) ==
    \/ pc[r] \in KeyedPC
    \/ pc[r] = "body" /\ op[r].kind \notin {"setup", "login"}
    \/ pc[r] = "store" /\ op[r].kind = "login"

KindAtLabel(r) ==
    /\ pc[r] \notin Free => op[r] \in Op
    /\ pc[r] \in {"derived", "waitX"} \cup ExclusivePC => op[r].kind = "rekey"
    /\ pc[r] = "auth" => op[r].kind \notin {"setup", "login"}
    /\ pc[r] = "store" => op[r].kind \in {"setup", "login"}
    /\ pc[r] = "write" => op[r].kind \in {"createEntry", "updateEntry", "import"}
    /\ pc[r] = "commit" => op[r].kind \in {"createEntry", "updateEntry"}
    /\ pc[r] = "items" => op[r].kind = "import"
    /\ pc[r] = "stmt" => op[r].kind \in {"createItem", "updateItem", "deleteItem"}
    /\ pc[r] = "refetch" => op[r].kind \in {"createItem", "updateItem"}
    /\ pc[r] \in {"exportEntries", "exportItems"} => op[r].kind = "export"

Local(r) ==
    /\ KindAtLabel(r)
    /\ HoldsKey(r) => key[r] \in Key
    /\ pc[r] = "write" /\ op[r].kind = "import" => todo[r] \subseteq Draft
    /\ pc[r] = "items" => todo[r] \subseteq ItemDraft
    /\ pc[r] \in TxPC <=> tx # None /\ tx.owner = r

Control == TypeOK /\ \A r \in Req : Local(r)

(***************************************************************************)
(* Types of the operators the actions are built from.                      *)
(***************************************************************************)
\* The fields that each kind of request carries.
LEMMA OpFields ==
    ASSUME NEW o \in Op
    PROVE  /\ o.kind \notin {"none"}
           /\ o.kind \in {"setup", "login", "rekey", "export"} => o.pw \in Password
           /\ o.kind \in {"setup", "rekey"} => o.salt \in Salt
           /\ o.kind = "rekey" => o.new \in Password
           /\ o.kind # "setup" => o.sid \in Sid
           /\ o.kind = "login" => o.mode \in Mode
           /\ o.kind \in {"getEntry", "deleteEntry", "createEntry", "updateEntry"} => o.id \in Entry
           /\ o.kind \in {"createEntry", "updateEntry"} => o.ident \in Ident
           /\ o.kind = "createEntry" => o.secret \in Plain /\ o.notes \in Plain \cup {None}
           /\ o.kind = "updateEntry" => /\ o.secret \in Plain \cup {Keep}
                                        /\ o.notes \in Plain \cup {None, Keep}
           /\ o.kind \in {"createItem", "updateItem", "deleteItem"} => o.item \in Item
           /\ o.kind \in {"createItem", "updateItem"} => o.data \in Plain
           /\ o.kind = "import" => o.doc \in Documents
  BY DEF Op

\* Sealing a plaintext gives a ciphertext; absent notes stay absent.
LEMMA SealType ==
    ASSUME NEW k \in Key, NEW p \in Plain
    PROVE  Seal(k, p) \in Cipher /\ Opens(Seal(k, p), k)
  BY DEF Seal, Cipher, Opens

LEMMA SealNotesType ==
    ASSUME NEW k \in Key, NEW p \in Plain \cup {None}
    PROVE  /\ SealNotes(k, p) \in Cipher \cup {None}
           /\ SealNotes(k, p) = None \/ Opens(SealNotes(k, p), k)
  BY SealType DEF SealNotes

\* Re-encryption yields a table of the same shape that the new key opens.
LEMMA RekeyedEntriesType ==
    ASSUME NEW tbl \in EntryTable, NEW k \in Key
    PROVE  RekeyedEntries(tbl, k) \in EntryTable /\ EntriesOpen(RekeyedEntries(tbl, k), k)
<1> DEFINE new(e) == [tbl[e] EXCEPT !.secret = Rekeyed(@, k),
                                    !.notes = IF @ = None THEN None ELSE Rekeyed(@, k)]
<1>1. \A c \in Cipher : Rekeyed(c, k) \in Cipher /\ Opens(Rekeyed(c, k), k)
  BY DEF Rekeyed, Cipher, Opens
<1>2. ASSUME NEW e \in Entry, tbl[e] # None
      PROVE  new(e) \in EntryRow /\ RowOpens(new(e), k)
  <2>1. tbl[e] \in EntryRow
    BY <1>2 DEF EntryTable
  <2> QED
    BY <1>1, <2>1 DEF EntryRow, RowOpens
<1> QED
  BY <1>2, NoneAssumption DEF RekeyedEntries, EntryTable, EntriesOpen

LEMMA RekeyedItemsType ==
    ASSUME NEW tbl \in ItemTable, NEW k \in Key
    PROVE  RekeyedItems(tbl, k) \in ItemTable /\ ItemsOpen(RekeyedItems(tbl, k), k)
<1>1. \A c \in Cipher : Rekeyed(c, k) \in Cipher /\ Opens(Rekeyed(c, k), k)
  BY DEF Rekeyed, Cipher, Opens
<1> QED
  BY <1>1, NoneAssumption DEF RekeyedItems, ItemTable, ItemsOpen

\* The statements of a request are well-typed, and so is their effect.
LEMMA StatementsType ==
    ASSUME Control, NEW r \in Req, NEW s \in Statements(r)
    PROVE  s \in Statement /\ (s.cipher = None \/ s.cipher.key = key[r])
<1>1. CASE pc[r] = "stmt"
  BY <1>1, OpFields, NoneAssumption
     DEF Control, TypeOK, Local, KindAtLabel, HoldsKey, KeyedPC, Free, ExclusivePC, RekeyTxPC,
         Statements, ItemStatement, Insert, Statement, Seal, Cipher
<1>2. CASE pc[r] = "items"
  BY <1>2, NoneAssumption
     DEF Control, TypeOK, Local, HoldsKey, KeyedPC, Statements, Insert, Statement, Seal, Cipher, ItemDraft
<1> QED
  BY <1>1, <1>2 DEF Statements

LEMMA EffectType ==
    ASSUME items \in ItemTable, NEW s \in Statement
    PROVE  Effect(s) \in ItemTable
  BY DEF Effect, ItemTable, Statement

(***************************************************************************)
(* Control is inductive: the types, and what each label says.              *)
(***************************************************************************)
LEMMA ControlInit == Init => Control
  BY NoneAssumption DEF Init, Control, TypeOK, Local, KindAtLabel, HoldsKey, KeyedPC, TxPC, Free,
     SharedPC, RekeyTxPC, ExclusivePC, PC, EntryTable, ItemTable, NoOp

LEMMA ControlStep ==
    ASSUME Control, NEW r \in Req, Step(r)
    PROVE  Control'
<1> USE OpFields, NoneAssumption DEF Control, TypeOK, Local, KindAtLabel, HoldsKey, KeyedPC, TxPC, Free,
     SharedPC, RekeyTxPC, ExclusivePC, PC, Goto, Finish, Leave, dbVars, sessionVars, reqVars
<1>1. CASE GrantShared(r)
  BY <1>1 DEF GrantShared
<1>2. CASE GrantExclusive(r)
  BY <1>2 DEF GrantExclusive
<1>3. CASE Extract(r)
  BY <1>3 DEF Extract, Live, Session
<1>4. CASE SetupRead(r)
  BY <1>4 DEF SetupRead
<1>5. CASE SetupInsert(r)
  BY <1>5 DEF SetupInsert, Key
<1>6. CASE LoginRead(r)
  BY <1>6 DEF LoginRead, Key
<1>7. CASE LoginCreate(r)
  BY <1>7 DEF LoginCreate, Session
<1>8. CASE Logout(r)
  BY <1>8 DEF Logout
<1>9. CASE CheckSession(r)
  BY <1>9 DEF CheckSession
<1>10. CASE RekeyVerify(r)
  BY <1>10 DEF RekeyVerify
<1>11. CASE RekeyRelease(r)
  BY <1>11 DEF RekeyRelease, Waiting
<1>12. CASE RekeyCheck(r)
  BY <1>12 DEF RekeyCheck
<1>13. CASE RekeyBegin(r)
  <2>1. tx = None /\ tx' \in Tx /\ tx' # None /\ tx'.owner = r
    BY <1>13 DEF RekeyBegin, OpenTx, Tx
  <2> QED
    BY <1>13, <2>1 DEF RekeyBegin
<1>14. CASE Reencrypt(r)
  <2>1. r = tx.owner /\ tx \in Tx /\ key[r] \in Key /\ NextKey(r) \in Key
    BY <1>14 DEF Reencrypt, NextKey, Key
  <2>2. /\ RekeyedEntries(tx.entries, NextKey(r)) \in EntryTable
        /\ RekeyedItems(tx.items, NextKey(r)) \in ItemTable
    BY <2>1, RekeyedEntriesType, RekeyedItemsType DEF Tx
  <2>3. CASE tx' = None /\ (Finish(r, "idle") \/ Finish(r, "corrupt"))
    BY <1>14, <2>1, <2>3 DEF Reencrypt
  <2>4. CASE /\ tx' = [tx EXCEPT !.config = NextKey(r),
                               !.entries = RekeyedEntries(@, NextKey(r)),
                               !.items = RekeyedItems(@, NextKey(r))]
             /\ Goto(r, "commitX") /\ UNCHANGED <<op, key, todo>>
    <3>1. tx' \in Tx /\ tx'.owner = r
      BY <2>1, <2>2, <2>4 DEF Tx
    <3>2. tx' # None
      BY <3>1
    <3> QED
      BY <1>14, <2>1, <2>4, <3>1, <3>2 DEF Reencrypt
  <2> QED
    BY <1>14, <2>3, <2>4 DEF Reencrypt
<1>15. CASE RekeyCommit(r)
  BY <1>15 DEF RekeyCommit, Tx
<1>16. CASE RekeyClear(r)
  BY <1>16 DEF RekeyClear
<1>17. CASE GetEntry(r)
  BY <1>17 DEF GetEntry
<1>18. CASE BeginTx(r)
  <2>1. tx = None /\ tx' \in Tx /\ tx' # None /\ tx'.owner = r
    BY <1>18 DEF BeginTx, OpenTx, Tx
  <2>2. op[r].kind = "import" => op[r].doc.entries \subseteq Draft
    BY <1>18, DocumentAssumption DEF BeginTx, Document
  <2> QED
    BY <1>18, <2>1, <2>2 DEF BeginTx
<1>19. CASE CreateEntry(r)
  <2>1. r = tx.owner /\ tx \in Tx /\ key[r] \in Key /\ op[r] \in Op
    BY <1>19 DEF CreateEntry
  <2>2. CASE tx' = None /\ Finish(r, "idle")
    BY <1>19, <2>1, <2>2 DEF CreateEntry
  <2>3. CASE Goto(r, "commit") /\ UNCHANGED <<op, key, todo>>
    <3>1. PICK row \in EntryRow : tx' = [tx EXCEPT !.entries[op[r].id] = row]
      BY <1>19, <2>1, <2>3, SealType, SealNotesType DEF CreateEntry, EntryRow
    <3>2. tx' \in Tx /\ tx'.owner = r
      BY <2>1, <3>1 DEF Tx, EntryTable
    <3> QED
      BY <1>19, <2>1, <2>3, <3>2 DEF CreateEntry
  <2> QED
    BY <1>19, <2>2, <2>3 DEF CreateEntry
<1>20. CASE UpdateEntry(r)
  <2>1. r = tx.owner /\ tx \in Tx /\ key[r] \in Key /\ op[r] \in Op
    BY <1>20 DEF UpdateEntry
  <2>2. CASE tx' = None /\ Finish(r, "idle")
    BY <1>20, <2>1, <2>2, SMTT(30) DEF UpdateEntry
  <2>3. CASE Goto(r, "commit") /\ UNCHANGED <<op, key, todo>>
    <3>1. PICK row \in EntryRow : tx' = [tx EXCEPT !.entries[op[r].id] = row]
      BY <1>20, <2>1, <2>3, SealType, SealNotesType DEF UpdateEntry, EntryRow, Tx, EntryTable
    <3>2. tx' \in Tx /\ tx'.owner = r
      BY <2>1, <3>1 DEF Tx, EntryTable
    <3> QED
      BY <1>20, <2>1, <2>3, <3>2 DEF UpdateEntry
  <2> QED
    BY <1>20, <2>2, <2>3 DEF UpdateEntry
<1>21. CASE ImportEntry(r)
  <2>1. r = tx.owner /\ tx \in Tx /\ key[r] \in Key /\ todo[r] \subseteq Draft
    BY <1>21 DEF ImportEntry
  <2>2. PICK d \in todo[r] : /\ \/ tx' = tx
                               \/ tx' = [tx EXCEPT !.entries[d.id] =
                                   [ident |-> d.ident, secret |-> Seal(key[r], d.secret),
                                    notes |-> SealNotes(key[r], d.notes)]]
                            /\ todo' = [todo EXCEPT ![r] = @ \ {d}]
    BY <1>21 DEF ImportEntry
  <2>3. [ident |-> d.ident, secret |-> Seal(key[r], d.secret),
         notes |-> SealNotes(key[r], d.notes)] \in EntryRow
    BY <2>1, SealType, SealNotesType DEF Draft, EntryRow
  <2>4. tx' \in Tx /\ tx'.owner = r
    BY <2>1, <2>2, <2>3 DEF Tx, EntryTable
  <2>5. tx' # None
    BY <2>4, <1>21 DEF ImportEntry, Tx
  <2> QED
    BY <1>21, <2>1, <2>2, <2>4, <2>5 DEF ImportEntry
<1>22. CASE Commit(r)
  BY <1>22, DocumentAssumption DEF Commit, Tx, Document
<1>23. CASE DeleteEntry(r)
  BY <1>23 DEF DeleteEntry, EntryTable
<1>24. CASE ListItems(r)
  BY <1>24 DEF ListItems
<1>25. CASE PrepareItem(r)
  BY <1>25 DEF PrepareItem
<1>26. CASE WriteItem(r)
  <2>1. ItemStatement(r) \in Statement
    BY <1>26, StatementsType DEF WriteItem, Statements
  <2>2. items' \in ItemTable
    BY <1>26, <2>1, EffectType DEF WriteItem
  <2> QED
    BY <1>26, <2>2 DEF WriteItem
<1>27. CASE RefetchItem(r)
  BY <1>27 DEF RefetchItem
<1>28. CASE ImportItem(r)
  <2>1. PICK d \in todo[r] : /\ items' = Effect(Insert(d.item, Seal(key[r], d.data)))
                            /\ todo' = [todo EXCEPT ![r] = @ \ {d}]
    BY <1>28 DEF ImportItem
  <2>2. Insert(d.item, Seal(key[r], d.data)) \in Statement
    BY <1>28, StatementsType DEF ImportItem, Statements
  <2>3. items' \in ItemTable
    BY <2>1, <2>2, EffectType
  <2> QED
    BY <1>28, <2>1, <2>3 DEF ImportItem
<1>29. CASE ImportDone(r)
  BY <1>29 DEF ImportDone
<1>30. CASE ExportVerify(r)
  BY <1>30 DEF ExportVerify
<1>31. CASE ExportEntries(r)
  BY <1>31 DEF ExportEntries
<1>32. CASE ExportItems(r)
  BY <1>32 DEF ExportItems
<1>33. CASE BusyTimeout(r)
  BY <1>33 DEF BusyTimeout
<1>34. CASE ImportItemFails(r)
  BY <1>34 DEF ImportItemFails
<1> QED
  BY <1>1, <1>2, <1>3, <1>4, <1>5, <1>6, <1>7, <1>8, <1>9, <1>10, <1>11, <1>12, <1>13, <1>14, <1>15, <1>16, <1>17, <1>18, <1>19, <1>20, <1>21, <1>22, <1>23, <1>24, <1>25, <1>26, <1>27, <1>28, <1>29, <1>30, <1>31, <1>32, <1>33, <1>34 DEF Step

\* A request that ends takes its guards, its key and its transaction with it.
LEMMA ControlAbort ==
    ASSUME Control, NEW r \in Req, Abort(r)
    PROVE  Control'
<1> USE NoneAssumption DEF Control, TypeOK, Local, KindAtLabel, HoldsKey, KeyedPC, TxPC, Free,
     SharedPC, RekeyTxPC, ExclusivePC, PC, Goto, Finish, Leave, sessionVars
<1>1. orphans' \subseteq Statement
  BY StatementsType DEF Abort
<1>2. /\ tx' \in Tx \cup {None}
      /\ \A q \in Req \ {r} : tx # None /\ tx.owner = q <=> tx' # None /\ tx'.owner = q
      /\ ~(tx' # None /\ tx'.owner = r)
  BY DEF Abort, RollBack
<1> QED
  BY <1>1, <1>2 DEF Abort

LEMMA ControlReceive ==
    ASSUME Control, NEW r \in Req, Receive(r)
    PROVE  Control'
<1>1. PICK o \in Op : /\ op' = [op EXCEPT ![r] = o]
                      /\ \/ usedSids' = usedSids
                         \/ o.kind = "login" /\ usedSids' = usedSids \cup {o.sid}
                      /\ \/ usedSalts' = usedSalts
                         \/ o.kind \in {"setup", "rekey"} /\ usedSalts' = usedSalts \cup {o.salt}
  <2>1. PICK o \in Op :
          /\ CASE o.kind = "login" ->
                    /\ o.sid \notin usedSids
                    /\ usedSids' = usedSids \cup {o.sid}
                    /\ UNCHANGED usedSalts
               [] o.kind = "setup" ->
                    /\ o.salt \notin usedSalts
                    /\ usedSalts' = usedSalts \cup {o.salt}
                    /\ UNCHANGED usedSids
               [] o.kind = "rekey" ->
                    /\ o.sid \in usedSids
                    /\ o.salt \notin usedSalts
                    /\ usedSalts' = usedSalts \cup {o.salt}
                    /\ UNCHANGED usedSids
               [] OTHER -> o.sid \in usedSids /\ UNCHANGED <<usedSids, usedSalts>>
          /\ op' = [op EXCEPT ![r] = o]
    BY DEF Receive
  <2> QED
    BY <2>1
<1>2. usedSids' \subseteq Sid /\ usedSalts' \subseteq Salt
  BY <1>1, OpFields DEF Control, TypeOK
<1> QED
  BY <1>1, <1>2, OpFields
     DEF Receive, Control, TypeOK, Local, KindAtLabel, HoldsKey, KeyedPC, TxPC, Free,
         SharedPC, RekeyTxPC, ExclusivePC, PC, Goto, Waiting, dbVars

LEMMA ControlNext ==
    ASSUME Control, [Next]_vars
    PROVE  Control'
<1>1. CASE \E r \in Req : Receive(r) \/ Step(r) \/ Abort(r)
  BY <1>1, ControlReceive, ControlStep, ControlAbort
<1> USE DEF Control, TypeOK, Local, KindAtLabel, HoldsKey, dbVars, sessionVars, reqVars
<1>2. CASE \E s \in Sid : Expire(s)
  BY <1>2 DEF Expire
<1>3. CASE RunOrphan
  <2>1. items' \in ItemTable /\ orphans' \subseteq Statement
    BY <1>3, EffectType DEF RunOrphan
  <2> QED
    BY <1>3, <2>1 DEF RunOrphan
<1>4. CASE Restart
  BY <1>4 DEF Restart, NoOp, KeyedPC, TxPC, Free, SharedPC, RekeyTxPC, ExclusivePC, PC
<1>5. CASE UNCHANGED vars
  BY <1>5 DEF vars
<1> QED
  BY <1>1, <1>2, <1>3, <1>4, <1>5 DEF Next

\* Control holds in every state, and with it the types of all variables.
THEOREM ControlInvariant == Spec => []Control
  BY ControlInit, ControlNext, PTL DEF Spec

THEOREM TypeCorrect == Spec => []TypeOK
<1>1. Control => TypeOK
  BY DEF Control
<1> QED
  BY <1>1, ControlInvariant, PTL

(***************************************************************************)
(* The operation lock, the session ids and the keys: why no interleaving   *)
(* of requests with a password change leaves a key or a row behind.        *)
(***************************************************************************)
Reading(r) == \* the steps of a handler that only look, or that wait
    \/ SetupRead(r) \/ CheckSession(r) \/ RekeyVerify(r) \/ RekeyCheck(r) \/ GetEntry(r)
    \/ ListItems(r) \/ PrepareItem(r) \/ RefetchItem(r) \/ ImportDone(r)
    \/ ExportVerify(r) \/ ExportEntries(r) \/ ExportItems(r)
    \/ ImportItemFails(r) \/ BusyTimeout(r)

(***************************************************************************)
(* The operation lock excludes.                                            *)
(***************************************************************************)
\* While a password change holds the lock nobody else does.
Exclusion ==
    \A r, q \in Req : r # q /\ pc[r] \in ExclusivePC => pc[q] \notin SharedPC \cup ExclusivePC

LEMMA ExclusionStep ==
    ASSUME Control, Exclusion, NEW r \in Req, Step(r)
    PROVE  Exclusion'
<1> USE DEF Exclusion, SharedPC, ExclusivePC, RekeyTxPC, Free, Goto, Finish, Control, TypeOK, Local, KindAtLabel
<1>1. CASE Reading(r)
  BY <1>1 DEF Reading, SetupRead, CheckSession, RekeyVerify, RekeyCheck, GetEntry, ListItems,
     PrepareItem, RefetchItem, ImportDone, ExportVerify, ExportEntries, ExportItems, ImportItemFails, BusyTimeout
<1>2. CASE GrantShared(r)
  BY <1>2 DEF GrantShared, Writers
<1>3. CASE GrantExclusive(r)
  BY <1>3 DEF GrantExclusive, Writers, Readers
<1>4. CASE Extract(r) \/ SetupInsert(r) \/ LoginRead(r) \/ LoginCreate(r) \/ Logout(r) \/ RekeyRelease(r)
  BY <1>4 DEF Extract, SetupInsert, LoginRead, LoginCreate, Logout, RekeyRelease
<1>5. CASE RekeyBegin(r) \/ Reencrypt(r) \/ RekeyCommit(r) \/ RekeyClear(r)
  BY <1>5 DEF RekeyBegin, Reencrypt, RekeyCommit, RekeyClear
<1>6. CASE BeginTx(r) \/ CreateEntry(r) \/ UpdateEntry(r) \/ ImportEntry(r) \/ Commit(r) \/ DeleteEntry(r)
  BY <1>6 DEF BeginTx, CreateEntry, UpdateEntry, ImportEntry, Commit, DeleteEntry
<1>7. CASE WriteItem(r) \/ ImportItem(r)
  BY <1>7 DEF WriteItem, ImportItem
<1> QED
  BY <1>1, <1>2, <1>3, <1>4, <1>5, <1>6, <1>7 DEF Step, Reading

LEMMA ExclusionNext ==
    ASSUME Control, Exclusion, [Next]_vars
    PROVE  Exclusion'
<1> USE DEF Exclusion, SharedPC, ExclusivePC, RekeyTxPC, Free
<1>1. ASSUME NEW r \in Req, Receive(r) \/ Abort(r)
      PROVE  Exclusion'
  BY <1>1 DEF Receive, Abort, Goto, Finish, Control, TypeOK
<1>2. CASE \E s \in Sid : Expire(s)
  BY <1>2 DEF Expire, reqVars
<1>3. CASE RunOrphan \/ UNCHANGED vars
  BY <1>3 DEF RunOrphan, reqVars, vars
<1>4. CASE Restart
  BY <1>4 DEF Restart
<1> QED
  BY <1>1, <1>2, <1>3, <1>4, ExclusionStep DEF Next

(***************************************************************************)
(* Session ids are never handed out twice.                                 *)
(***************************************************************************)
LoggingIn(r) == pc[r] \notin Free /\ op[r].kind = "login"

SidsApart ==
    /\ loggedOut \subseteq usedSids
    /\ \A s \in Sid : Live(s) => s \in usedSids \ loggedOut
    /\ \A r \in Req : pc[r] \notin Free /\ op[r].kind # "setup" => op[r].sid \in usedSids
    /\ \A r \in Req : LoggingIn(r) => ~Live(op[r].sid) /\ op[r].sid \notin loggedOut
    /\ \A r, q \in Req : LoggingIn(r) /\ LoggingIn(q) /\ r # q => op[r].sid # op[q].sid
    /\ \A r, q \in Req : LoggingIn(q) /\ HoldsKey(r) /\ op[r].kind # "login"
                            => op[r].sid # op[q].sid

LEMMA SidsApartStep ==
    ASSUME Control, SidsApart, NEW r \in Req, Step(r)
    PROVE  SidsApart'
<1> USE NoneAssumption, OpFields DEF SidsApart, LoggingIn, Live, HoldsKey, KeyedPC, SharedPC, ExclusivePC,
     RekeyTxPC, Free, Goto, Finish, Control, TypeOK, Local, KindAtLabel, sessionVars
<1>1. CASE Reading(r)
  <2>1. /\ UNCHANGED sessionVars
        /\ \/ op' = op /\ \E l \in PC : /\ pc' = [pc EXCEPT ![r] = l]
                                        /\ l \notin Free /\ pc[r] \notin Free
                                        /\ HoldsKey(r)' => HoldsKey(r)
           \/ \E l \in Free : pc' = [pc EXCEPT ![r] = l] /\ op' = [op EXCEPT ![r] = NoOp]
    <3>1. CASE SetupRead(r) \/ CheckSession(r) \/ RekeyVerify(r) \/ RekeyCheck(r) \/ GetEntry(r)
      BY <3>1 DEF SetupRead, CheckSession, RekeyVerify, RekeyCheck, GetEntry, PC
    <3>2. CASE ListItems(r) \/ PrepareItem(r) \/ RefetchItem(r) \/ ImportDone(r) \/ ImportItemFails(r)
      BY <3>2 DEF ListItems, PrepareItem, RefetchItem, ImportDone, ImportItemFails, PC
    <3>3. CASE ExportVerify(r) \/ ExportEntries(r) \/ ExportItems(r) \/ BusyTimeout(r)
      BY <3>3 DEF ExportVerify, ExportEntries, ExportItems, BusyTimeout, PC
    <3> QED
      BY <1>1, <3>1, <3>2, <3>3 DEF Reading
  <2> QED
    BY <2>1
<1>2. CASE GrantShared(r) \/ GrantExclusive(r) \/ RekeyRelease(r)
  BY <1>2 DEF GrantShared, GrantExclusive, RekeyRelease
<1>3. CASE Extract(r)
  BY <1>3 DEF Extract
<1>4. CASE SetupInsert(r) \/ LoginRead(r)
  BY <1>4 DEF SetupInsert, LoginRead
<1>5. CASE LoginCreate(r)
  BY <1>5 DEF LoginCreate
<1>6. CASE Logout(r)
  BY <1>6 DEF Logout
<1>7. CASE RekeyBegin(r) \/ Reencrypt(r) \/ RekeyCommit(r) \/ RekeyClear(r)
  BY <1>7 DEF RekeyBegin, Reencrypt, RekeyCommit, RekeyClear
<1>8. CASE BeginTx(r) \/ CreateEntry(r) \/ UpdateEntry(r) \/ ImportEntry(r) \/ Commit(r) \/ DeleteEntry(r)
  <2>1. /\ UNCHANGED sessionVars
        /\ \/ op' = op /\ \E l \in PC : /\ pc' = [pc EXCEPT ![r] = l]
                                        /\ l \notin Free /\ pc[r] \notin Free
                                        /\ HoldsKey(r)' => HoldsKey(r)
           \/ \E l \in Free : pc' = [pc EXCEPT ![r] = l] /\ op' = [op EXCEPT ![r] = NoOp]
    <3>1. CASE BeginTx(r) \/ Commit(r) \/ DeleteEntry(r)
      BY <3>1 DEF BeginTx, Commit, DeleteEntry, PC
    <3>2. CASE CreateEntry(r) \/ UpdateEntry(r)
      BY <3>2 DEF CreateEntry, UpdateEntry, PC
    <3>3. CASE ImportEntry(r)
      BY <3>3 DEF ImportEntry, PC
    <3> QED
      BY <1>8, <3>1, <3>2, <3>3
  <2> QED
    BY <2>1
<1>9. CASE WriteItem(r) \/ ImportItem(r)
  BY <1>9 DEF WriteItem, ImportItem
<1> QED
  BY <1>1, <1>2, <1>3, <1>4, <1>5, <1>6, <1>7, <1>8, <1>9 DEF Step, Reading

LEMMA SidsApartReceive ==
    ASSUME Control, SidsApart, NEW r \in Req, Receive(r)
    PROVE  SidsApart'
<1>1. PICK o \in Op : /\ op' = [op EXCEPT ![r] = o]
                      /\ \/ usedSids' = usedSids /\ o.kind # "login"
                            /\ (o.kind # "setup" => o.sid \in usedSids)
                         \/ o.kind = "login" /\ o.sid \notin usedSids /\ usedSids' = usedSids \cup {o.sid}
  <2>1. PICK o \in Op :
          /\ CASE o.kind = "login" ->
                    /\ o.sid \notin usedSids
                    /\ usedSids' = usedSids \cup {o.sid}
                    /\ UNCHANGED usedSalts
               [] o.kind = "setup" ->
                    /\ o.salt \notin usedSalts
                    /\ usedSalts' = usedSalts \cup {o.salt}
                    /\ UNCHANGED usedSids
               [] o.kind = "rekey" ->
                    /\ o.sid \in usedSids
                    /\ o.salt \notin usedSalts
                    /\ usedSalts' = usedSalts \cup {o.salt}
                    /\ UNCHANGED usedSids
               [] OTHER -> o.sid \in usedSids /\ UNCHANGED <<usedSids, usedSalts>>
          /\ op' = [op EXCEPT ![r] = o]
    BY DEF Receive
  <2> QED
    BY <2>1
<1>2. /\ pc[r] \in Free /\ pc' = [pc EXCEPT ![r] = "wait"]
      /\ sessions' = sessions /\ loggedOut' = loggedOut
  BY DEF Receive, Goto
<1>3. op'[r] = o /\ \A q \in Req \ {r} : op'[q] = op[q] /\ pc'[q] = pc[q]
  BY <1>1, <1>2 DEF Control, TypeOK
<1>4. \A q \in Req : HoldsKey(q)' => q # r /\ HoldsKey(q) /\ pc[q] \notin Free /\ op[q].kind # "setup"
  BY <1>2, <1>3 DEF HoldsKey, KeyedPC, ExclusivePC, RekeyTxPC, Free, Control, TypeOK, Local, KindAtLabel
<1>5. \A q \in Req : LoggingIn(q)' => (q # r /\ LoggingIn(q)) \/ (q = r /\ o.kind = "login")
  BY <1>2, <1>3 DEF LoggingIn, Free
<1>6. o.kind # "setup" => o.sid \in Sid
  BY OpFields
<1>7. \A q \in Req : LoggingIn(q) => op[q].sid \in usedSids
  BY DEF SidsApart, LoggingIn
<1> QED
  BY <1>1, <1>2, <1>3, <1>4, <1>5, <1>6, <1>7 DEF SidsApart, Live, Free, Control, TypeOK

LEMMA SidsApartNext ==
    ASSUME Control, SidsApart, [Next]_vars
    PROVE  SidsApart'
<1> USE NoneAssumption DEF SidsApart, LoggingIn, Live, HoldsKey, KeyedPC, ExclusivePC, RekeyTxPC, Free
<1>1. ASSUME NEW r \in Req, Abort(r)
      PROVE  SidsApart'
  BY <1>1 DEF Abort, Goto, Finish, Control, TypeOK, sessionVars
<1>2. CASE \E s \in Sid : Expire(s)
  BY <1>2 DEF Expire, reqVars, Control, TypeOK
<1>3. CASE RunOrphan \/ UNCHANGED vars
  BY <1>3 DEF RunOrphan, reqVars, sessionVars, vars
<1>4. CASE Restart
  BY <1>4 DEF Restart
<1> QED
  BY <1>1, <1>2, <1>3, <1>4, SidsApartStep, SidsApartReceive DEF Next

(***************************************************************************)
(* Who may replace the master configuration.                               *)
(***************************************************************************)
\* The transaction of a request reads the configuration in force, which nobody
\* replaces under it; the one of a password change is about to replace it.
TxConfig ==
    \A r \in Req : pc[r] \in TxPC =>
        IF pc[r] = "commitX"
        THEN tx.config = NextKey(r) /\ op[r].pw = config.pw
        ELSE tx.config = config

\* A password change past its check acts for a session that is not logged out.
RekeyAuthorised ==
    \A r \in Req : pc[r] \in {"beginX"} \cup RekeyTxPC => op[r].sid \in Sid \ loggedOut

Authority == TxConfig /\ RekeyAuthorised

LEMMA AuthorityStep ==
    ASSUME Control, Exclusion, SidsApart, Authority, NEW r \in Req, Step(r)
    PROVE  Authority'
<1> USE NoneAssumption, OpFields DEF Authority, TxConfig, RekeyAuthorised, NextKey, RekeyTxPC, ExclusivePC,
     SharedPC, Free, TxPC, Goto, Finish, Control, TypeOK, Local, KindAtLabel, dbVars, sessionVars
<1>1. CASE Reading(r)
  BY <1>1 DEF Reading, SetupRead, CheckSession, RekeyVerify, RekeyCheck, GetEntry, ListItems, PC,
     PrepareItem, RefetchItem, ImportDone, ExportVerify, ExportEntries, ExportItems, ImportItemFails, BusyTimeout,
     SidsApart, Live
<1>2. CASE GrantShared(r) \/ GrantExclusive(r) \/ RekeyRelease(r) \/ Extract(r)
  BY <1>2 DEF GrantShared, GrantExclusive, RekeyRelease, Extract
<1>4. CASE SetupInsert(r) \/ LoginRead(r) \/ LoginCreate(r)
  BY <1>4 DEF SetupInsert, LoginRead, LoginCreate
<1>6. CASE Logout(r)
  BY <1>6 DEF Logout, Exclusion
<1>7. CASE RekeyBegin(r)
  BY <1>7 DEF RekeyBegin, OpenTx
<1>8. CASE Reencrypt(r)
  <2>1. tx \in Tx /\ tx.config = config
    BY <1>8 DEF Reencrypt
  <2>2. CASE Finish(r, "idle") \/ Finish(r, "corrupt")
    BY <1>8, <2>2 DEF Reencrypt
  <2>3. CASE /\ tx.config.pw = op[r].pw
             /\ tx' = [tx EXCEPT !.config = NextKey(r),
                                 !.entries = RekeyedEntries(@, NextKey(r)),
                                 !.items = RekeyedItems(@, NextKey(r))]
             /\ Goto(r, "commitX") /\ UNCHANGED <<op, key, todo>>
    <3>1. tx'.config = NextKey(r)
      BY <2>1, <2>3 DEF Tx
    <3>2. NextKey(r)' = NextKey(r) /\ UNCHANGED <<config, sessionVars>>
      BY <1>8, <2>3 DEF Reencrypt
    <3>3. \A q \in Req \ {r} : pc[q] \notin TxPC
      BY <1>8 DEF Reencrypt
    <3> QED
      BY <1>8, <2>1, <2>3, <3>1, <3>2, <3>3 DEF Reencrypt
  <2> QED
    BY <1>8, <2>2, <2>3 DEF Reencrypt
<1>9. CASE RekeyCommit(r) \/ RekeyClear(r)
  BY <1>9 DEF RekeyCommit, RekeyClear
<1>10. CASE BeginTx(r)
  BY <1>10 DEF BeginTx, OpenTx
<1>11. CASE CreateEntry(r) \/ UpdateEntry(r) \/ ImportEntry(r)
  <2>1. tx \in Tx /\ tx.config = config /\ UNCHANGED <<config, sessionVars>>
    BY <1>11 DEF CreateEntry, UpdateEntry, ImportEntry
  <2>2. tx' = None \/ tx'.config = tx.config
    <3>1. CASE CreateEntry(r) \/ UpdateEntry(r)
      BY <2>1, <3>1 DEF CreateEntry, UpdateEntry, Tx
    <3>2. CASE ImportEntry(r)
      <4>1. PICK d \in todo[r] :
              \/ tx' = tx
              \/ tx' = [tx EXCEPT !.entries[d.id] =
                          [ident |-> d.ident, secret |-> Seal(key[r], d.secret),
                           notes |-> SealNotes(key[r], d.notes)]]
        BY <3>2 DEF ImportEntry
      <4> QED
        BY <2>1, <4>1 DEF Tx
    <3> QED
      BY <1>11, <3>1, <3>2
  <2>3. pc'[r] \in {"write", "commit", "idle"}
    BY <1>11 DEF CreateEntry, UpdateEntry, ImportEntry
  <2>4. \A q \in Req : pc'[q] \in TxPC => tx' # None
    BY ControlStep
  <2>5. \A q \in Req \ {r} : pc[q] \notin TxPC /\ pc'[q] = pc[q] /\ op'[q] = op[q]
    BY <1>11 DEF CreateEntry, UpdateEntry, ImportEntry
  <2>6. \A q \in Req : pc'[q] \in TxPC => q = r /\ pc'[r] # "commitX" /\ tx'.config = config
    BY <2>1, <2>2, <2>3, <2>4, <2>5
  <2>7. \A q \in Req : pc'[q] \in {"beginX"} \cup RekeyTxPC => q # r
    BY <2>3
  <2> QED
    BY <2>1, <2>5, <2>6, <2>7
<1>12. CASE Commit(r) \/ DeleteEntry(r)
  BY <1>12 DEF Commit, DeleteEntry
<1>13. CASE WriteItem(r) \/ ImportItem(r)
  BY <1>13 DEF WriteItem, ImportItem
<1> QED
  BY <1>1, <1>2, <1>4, <1>6, <1>7, <1>8, <1>9, <1>10, <1>11, <1>12, <1>13 DEF Step, Reading

LEMMA AuthorityNext ==
    ASSUME Control, Exclusion, SidsApart, Authority, [Next]_vars
    PROVE  Authority'
<1> USE NoneAssumption DEF Authority, TxConfig, RekeyAuthorised, NextKey, RekeyTxPC, ExclusivePC, Free, TxPC,
     Control, TypeOK, Local, dbVars, sessionVars, reqVars
<1>1. ASSUME NEW r \in Req, Receive(r)
      PROVE  Authority'
  BY <1>1 DEF Receive, Goto
<1>2. ASSUME NEW r \in Req, Abort(r)
      PROVE  Authority'
  BY <1>2 DEF Abort, Goto, Finish, RollBack
<1>3. CASE (\E s \in Sid : Expire(s)) \/ RunOrphan \/ UNCHANGED vars
  BY <1>3 DEF Expire, RunOrphan, vars
<1>4. CASE Restart
  BY <1>4 DEF Restart
<1> QED
  BY <1>1, <1>2, <1>3, <1>4, AuthorityStep DEF Next

\* Locks and session ids, in one induction over the specification.
Order == Control /\ Exclusion /\ SidsApart /\ Authority

THEOREM OrderInvariant == Spec => []Order
<1>1. Init => Order
  <2>1. Init => Exclusion /\ SidsApart /\ Authority
    BY NoneAssumption DEF Init, Exclusion, SidsApart, Authority, TxConfig, RekeyAuthorised, Live,
       LoggingIn, HoldsKey, KeyedPC, ExclusivePC, RekeyTxPC, TxPC, Free
  <2> QED
    BY <2>1, ControlInit DEF Order
<1>2. Order /\ [Next]_vars => Order'
  BY ControlNext, ExclusionNext, SidsApartNext, AuthorityNext DEF Order
<1> QED
  BY <1>1, <1>2, PTL DEF Spec

\* Only SetupInsert and RekeyCommit write the configuration.
LEMMA ConfigChanges ==
    ASSUME Order, [Next]_vars, config' # config
    PROVE  \E r \in Req : SetupInsert(r) \/ RekeyCommit(r)
<1>1. ASSUME NEW r \in Req, Step(r), ~SetupInsert(r), ~RekeyCommit(r)
      PROVE  config' = config
  BY <1>1 DEF Step, dbVars, GrantShared, GrantExclusive, Extract, SetupRead, LoginRead, LoginCreate, Logout,
     CheckSession, RekeyVerify, RekeyRelease, RekeyCheck, RekeyBegin, Reencrypt, RekeyClear, GetEntry,
     BeginTx, CreateEntry, UpdateEntry, ImportEntry, Commit, DeleteEntry, ListItems, PrepareItem,
     WriteItem, RefetchItem, ImportItem, ImportDone, ExportVerify, ExportEntries, ExportItems, ImportItemFails, BusyTimeout
<1>2. ASSUME NEW r \in Req, Receive(r) \/ Abort(r)
      PROVE  config' = config
  BY <1>2 DEF Receive, Abort, dbVars
<1>3. ASSUME (\E s \in Sid : Expire(s)) \/ RunOrphan \/ Restart \/ UNCHANGED vars
      PROVE  config' = config
  BY <1>3 DEF Expire, RunOrphan, Restart, vars, dbVars
<1> QED
  BY <1>1, <1>2, <1>3 DEF Next

\* Whatever is dropped, late or queued, the configuration changes only for a
\* request that knows the password in force and whose session is not logged out.
THEOREM ConfigChangesOnlyAuthorised == Spec => ConfigChangesAuthorised
<1>1. ASSUME Order, [Next]_vars, config' # config, config # None
      PROVE  ConfigChange
  <2>1. PICK r \in Req : RekeyCommit(r)
    BY <1>1, ConfigChanges DEF SetupInsert
  <2>2. tx.owner = r /\ tx # None /\ op[r].kind = "rekey"
    BY <1>1, <2>1 DEF RekeyCommit, Order, Control, Local, KindAtLabel, TxPC, ExclusivePC, RekeyTxPC
  <2>3. tx.config = NextKey(r) /\ op[r].pw = config.pw /\ op[r].sid \notin loggedOut
    BY <1>1, <2>1, <2>2 DEF RekeyCommit, Order, Authority, TxConfig, RekeyAuthorised, TxPC, RekeyTxPC
  <2> QED
    BY <2>1, <2>2, <2>3 DEF RekeyCommit, ConfigChange
<1>2. Order /\ [Next]_vars => [config' # config => ConfigChange]_vars
  BY <1>1 DEF ConfigChange
<1> QED
  BY <1>2, OrderInvariant, PTL DEF Spec, ConfigChangesAuthorised

(***************************************************************************)
(* Every key in use is the key in force, or is about to be refused.        *)
(***************************************************************************)
KeysInForce ==
    /\ config = None => /\ \A r \in Req : ~HoldsKey(r)
                        /\ \A s \in Sid : ~Live(s)
    /\ \A r \in Req : HoldsKey(r) /\ pc[r] \in SharedPC => key[r] = config
    \* A password change in the queue may find its key retired, but then its
    \* session is gone too, which is what it checks when its turn comes.
    /\ \A r \in Req : pc[r] \in {"waitX", "check"} /\ Live(op[r].sid)
                        => sessions[op[r].sid].key = key[r]
    /\ \A r \in Req : pc[r] \in {"beginX"} \cup RekeyTxPC => key[r] = config
    /\ SessionsCurrent

\* Under the shared guard no password change is between commit and clear.
LEMMA SessionsCurrentShared ==
    ASSUME Exclusion, KeysInForce, NEW r \in Req, pc[r] \in SharedPC \cup {"check"},
           NEW s \in Sid, Live(s)
    PROVE  sessions[s].key = config
<1>1. \A q \in Req : pc[q] # "clear"
  BY DEF Exclusion, SharedPC, ExclusivePC
<1> QED
  BY <1>1 DEF KeysInForce, SessionsCurrent

\* r goes on under its shared guard with the request and the key it has.
GoesOn(r) ==
    /\ pc[r] \in SharedPC /\ UNCHANGED <<op, key>>
    /\ \E l \in SharedPC : pc' = [pc EXCEPT ![r] = l]
    /\ HoldsKey(r)' => HoldsKey(r)

\* r ends and drops what it has.
Ends(r) ==
    /\ op' = [op EXCEPT ![r] = NoOp] /\ key' = [key EXCEPT ![r] = None]
    /\ \E l \in Free : pc' = [pc EXCEPT ![r] = l]

\* A request that goes on, or ends, leaves the keys as they are.
LEMMA KeysKept ==
    ASSUME Control, KeysInForce, NEW r \in Req, UNCHANGED <<config, sessions>>,
           pc[r] # "clear", GoesOn(r) \/ Ends(r)
    PROVE  KeysInForce'
<1>1. pc \in [Req -> PC] /\ op \in [Req -> Op \cup {NoOp}] /\ key \in [Req -> Key \cup {None}]
  BY DEF Control, TypeOK
<1>2. \A q \in Req : q # r => pc'[q] = pc[q] /\ op'[q] = op[q] /\ key'[q] = key[q]
  BY <1>1 DEF GoesOn, Ends
<1>3. \/ /\ pc'[r] \in SharedPC /\ pc[r] \in SharedPC /\ key'[r] = key[r]
         /\ HoldsKey(r)' => HoldsKey(r)
      \/ pc'[r] \in Free
  BY <1>1 DEF GoesOn, Ends
<1>4. \A q \in Req : q # r => (HoldsKey(q)' <=> HoldsKey(q))
  BY <1>2 DEF HoldsKey
<1>5. pc'[r] \in Free => ~HoldsKey(r)'
  BY DEF HoldsKey, KeyedPC, ExclusivePC, RekeyTxPC, Free
<1>6. pc'[r] \notin {"waitX", "check", "beginX", "clear"} \cup RekeyTxPC
  BY <1>3 DEF SharedPC, RekeyTxPC, Free
<1>7. \A s \in Sid : Live(s)' <=> Live(s)
  BY DEF Live
<1>8. \A q \in Req : HoldsKey(q)' => HoldsKey(q)
  BY <1>3, <1>4, <1>5
<1>9. \A q \in Req : HoldsKey(q)' /\ pc'[q] \in SharedPC => key'[q] = config'
  BY <1>2, <1>3, <1>4, <1>5, <1>8 DEF KeysInForce
<1>10. \A q \in Req : pc'[q] \in {"waitX", "check"} /\ Live(op[q].sid)'
                           => sessions'[op'[q].sid].key = key'[q]
  BY <1>2, <1>6 DEF KeysInForce, Live
<1>11. \A q \in Req : pc'[q] \in {"beginX"} \cup RekeyTxPC => key'[q] = config'
  BY <1>2, <1>6 DEF KeysInForce
<1>12. SessionsCurrent'
  BY <1>2, <1>7 DEF KeysInForce, SessionsCurrent
<1> QED
  BY <1>7, <1>8, <1>9, <1>10, <1>11, <1>12 DEF KeysInForce

LEMMA KeysInForceStep ==
    ASSUME Order, KeysInForce, NEW r \in Req, Step(r)
    PROVE  KeysInForce'
<1>0. Control'
  BY ControlStep DEF Order
<1> USE <1>0, NoneAssumption, OpFields DEF Order, KeysInForce, SessionsCurrent, Live, HoldsKey, KeyedPC,
     RekeyTxPC, ExclusivePC, SharedPC, Free, Goto, Finish, Control, TypeOK, Local, KindAtLabel,
     dbVars, sessionVars
<1>1. CASE RekeyCheck(r)
  BY <1>1, SessionsCurrentShared DEF RekeyCheck
<1>2. CASE Reading(r) /\ ~RekeyCheck(r)
  <2>1. UNCHANGED <<config, sessions>> /\ pc[r] # "clear" /\ (GoesOn(r) \/ Ends(r))
    <3>1. CASE SetupRead(r) \/ CheckSession(r) \/ RekeyVerify(r) \/ GetEntry(r) \/ ListItems(r)
      BY <3>1 DEF SetupRead, CheckSession, RekeyVerify, GetEntry, ListItems, GoesOn, Ends
    <3>2. CASE PrepareItem(r) \/ RefetchItem(r) \/ ImportDone(r) \/ ImportItemFails(r) \/ BusyTimeout(r)
      BY <3>2 DEF PrepareItem, RefetchItem, ImportDone, ImportItemFails, BusyTimeout, GoesOn, Ends
    <3>3. CASE ExportVerify(r) \/ ExportEntries(r) \/ ExportItems(r)
      BY <3>3 DEF ExportVerify, ExportEntries, ExportItems, GoesOn, Ends
    <3> QED
      BY <1>2, <3>1, <3>2, <3>3 DEF Reading
  <2> QED
    BY <2>1, KeysKept
<1>3. CASE Extract(r)
  BY <1>3, SessionsCurrentShared DEF Extract
<1>4. CASE GrantShared(r) \/ GrantExclusive(r)
  BY <1>4 DEF GrantShared, GrantExclusive
<1>5. CASE RekeyRelease(r)
  BY <1>5, SessionsCurrentShared DEF RekeyRelease
<1>6. CASE SetupInsert(r)
  BY <1>6 DEF SetupInsert
<1>7. CASE LoginRead(r)
  <2>1. config # None => [pw |-> config.pw, salt |-> config.salt] = config
    BY DEF Key
  <2> QED
    BY <1>7, <2>1 DEF LoginRead
<1>8. CASE LoginCreate(r)
  BY <1>8 DEF LoginCreate, SidsApart, LoggingIn, Session
<1>9. CASE Logout(r)
  BY <1>9 DEF Logout
<1>10. CASE RekeyBegin(r)
  BY <1>10 DEF RekeyBegin
<1>11. CASE Reencrypt(r)
  BY <1>11 DEF Reencrypt
<1>12. CASE RekeyCommit(r)
  <2>1. config' = NextKey(r)
    BY <1>12 DEF RekeyCommit, Authority, TxConfig, TxPC
  <2>2. op[r] \in Op /\ op[r].kind = "rekey"
    BY <1>12 DEF RekeyCommit
  <2>3. config' \in Key
    BY <2>1, <2>2 DEF NextKey, Key
  <2> QED
    BY <1>12, <2>3 DEF RekeyCommit, Exclusion
<1>13. CASE RekeyClear(r)
  BY <1>13 DEF RekeyClear
<1>14. CASE BeginTx(r) \/ CreateEntry(r) \/ UpdateEntry(r) \/ ImportEntry(r) \/ Commit(r) \/ DeleteEntry(r)
  <2>1. UNCHANGED <<config, sessions>> /\ pc[r] # "clear" /\ (GoesOn(r) \/ Ends(r))
    <3>1. CASE BeginTx(r) \/ Commit(r) \/ DeleteEntry(r)
      BY <3>1 DEF BeginTx, Commit, DeleteEntry, GoesOn, Ends
    <3>2. CASE CreateEntry(r) \/ UpdateEntry(r) \/ ImportEntry(r)
      BY <3>2 DEF CreateEntry, UpdateEntry, ImportEntry, GoesOn, Ends
    <3> QED
      BY <1>14, <3>1, <3>2
  <2> QED
    BY <2>1, KeysKept
<1>15. CASE WriteItem(r) \/ ImportItem(r)
  <2>1. UNCHANGED <<config, sessions>> /\ pc[r] # "clear" /\ (GoesOn(r) \/ Ends(r))
    BY <1>15 DEF WriteItem, ImportItem, GoesOn, Ends
  <2> QED
    BY <2>1, KeysKept
<1> QED
  BY <1>1, <1>2, <1>3, <1>4, <1>5, <1>6, <1>7, <1>8, <1>9, <1>10, <1>11, <1>12, <1>13, <1>14, <1>15
     DEF Step, Reading

LEMMA KeysInForceNext ==
    ASSUME Order, KeysInForce, ~DropRekeyTail, [Next]_vars
    PROVE  KeysInForce'
<1> USE NoneAssumption DEF Order, KeysInForce, SessionsCurrent, Live, HoldsKey, KeyedPC,
     RekeyTxPC, ExclusivePC, SharedPC, Free, Control, TypeOK, dbVars, sessionVars, reqVars
<1>1. ASSUME NEW r \in Req, Receive(r)
      PROVE  KeysInForce'
  BY <1>1 DEF Receive, Goto
<1>2. ASSUME NEW r \in Req, Abort(r)
      PROVE  KeysInForce'
  BY <1>2 DEF Abort, Goto, Finish
<1>3. CASE \E s \in Sid : Expire(s)
  BY <1>3 DEF Expire
<1>4. CASE RunOrphan \/ UNCHANGED vars
  BY <1>4 DEF RunOrphan, vars
<1>5. CASE Restart
  BY <1>5 DEF Restart
<1> QED
  BY <1>1, <1>2, <1>3, <1>4, <1>5, KeysInForceStep DEF Next

\* If no password change loses its tail, every key a request works with is the
\* key in force, and no session outlives the key it holds.
THEOREM KeysInForceInvariant == ~DropRekeyTail => (Spec => []KeysInForce)
<1> SUFFICES ASSUME ~DropRekeyTail
             PROVE  Spec => []KeysInForce
  OBVIOUS
<1>1. Init => KeysInForce
  BY NoneAssumption DEF Init, KeysInForce, SessionsCurrent, Live, HoldsKey, KeyedPC, ExclusivePC,
     RekeyTxPC, SharedPC
<1>2. Order /\ KeysInForce /\ [Next]_vars => KeysInForce'
  BY KeysInForceNext
<1> QED
  BY <1>1, <1>2, OrderInvariant, PTL DEF Spec

THEOREM SessionsStayCurrent == ~DropRekeyTail => (Spec => []SessionsCurrent)
<1>1. KeysInForce => SessionsCurrent
  BY DEF KeysInForce
<1> QED
  BY <1>1, KeysInForceInvariant, PTL

(***************************************************************************)
(* The stored rows: identities stay unique, and every row opens with the   *)
(* key in force.                                                           *)
(***************************************************************************)
\* The steps of a handler that open a transaction or write a table.
Writing(r) ==
    \/ SetupInsert(r) \/ RekeyBegin(r) \/ Reencrypt(r) \/ RekeyCommit(r)
    \/ BeginTx(r) \/ CreateEntry(r) \/ UpdateEntry(r) \/ ImportEntry(r) \/ Commit(r)
    \/ DeleteEntry(r) \/ WriteItem(r) \/ ImportItem(r)

\* Every other step leaves the tables alone, or rolls a transaction back.
LEMMA TablesFrame ==
    ASSUME [Next]_vars, \A r \in Req : ~Writing(r)
    PROVE  UNCHANGED <<config, entries>> /\ tx' \in {tx, None} /\ (UNCHANGED items \/ RunOrphan)
<1> USE DEF dbVars
<1>1. ASSUME NEW r \in Req, Reading(r)
      PROVE  UNCHANGED dbVars
  BY <1>1 DEF Reading, SetupRead, CheckSession, RekeyVerify, RekeyCheck, GetEntry, ListItems,
     PrepareItem, RefetchItem, ImportDone, ExportVerify, ExportEntries, ExportItems, ImportItemFails, BusyTimeout
<1>2. ASSUME NEW r \in Req,
             \/ GrantShared(r) \/ GrantExclusive(r) \/ Extract(r) \/ LoginRead(r)
             \/ LoginCreate(r) \/ Logout(r) \/ RekeyRelease(r) \/ RekeyClear(r) \/ Receive(r)
      PROVE  UNCHANGED dbVars
  BY <1>2 DEF GrantShared, GrantExclusive, Extract, LoginRead, LoginCreate, Logout,
     RekeyRelease, RekeyClear, Receive
<1>3. ASSUME NEW r \in Req, Abort(r)
      PROVE  UNCHANGED <<config, entries, items>> /\ tx' \in {tx, None}
  BY <1>3 DEF Abort, RollBack
<1>4. ASSUME (\E s \in Sid : Expire(s)) \/ RunOrphan \/ Restart \/ UNCHANGED vars
      PROVE  UNCHANGED <<config, entries>> /\ tx' \in {tx, None} /\ (UNCHANGED items \/ RunOrphan)
  BY <1>4 DEF Expire, RunOrphan, Restart, vars
<1>5. ASSUME NEW r \in Req, Step(r)
      PROVE  UNCHANGED dbVars
  BY <1>5, <1>1, <1>2 DEF Step, Reading, Writing
<1> QED
  BY <1>2, <1>3, <1>4, <1>5 DEF Next

(***************************************************************************)
(* Identities.                                                             *)
(***************************************************************************)
Distinct(tbl) ==
    \A e, f \in Entry : e # f /\ tbl[e] # None /\ tbl[f] # None => tbl[e].ident # tbl[f].ident

DistinctTables == Distinct(entries) /\ (tx # None => Distinct(tx.entries))

LEMMA RekeyedDistinct ==
    ASSUME NEW tbl \in EntryTable, NEW k, Distinct(tbl)
    PROVE  Distinct(RekeyedEntries(tbl, k))
<1> DEFINE new(e) == [tbl[e] EXCEPT !.secret = Rekeyed(@, k),
                                    !.notes = IF @ = None THEN None ELSE Rekeyed(@, k)]
<1>1. ASSUME NEW e \in Entry, tbl[e] # None
      PROVE  new(e).ident = tbl[e].ident
  BY <1>1 DEF EntryTable, EntryRow
<1> QED
  BY <1>1 DEF RekeyedEntries, Distinct

\* A row whose identity is no duplicate keeps the table distinct.
LEMMA DistinctUpdate ==
    ASSUME NEW tbl \in EntryTable, Distinct(tbl), NEW id \in Entry, NEW row, ~IsDuplicate(tbl, id, row.ident)
    PROVE  Distinct([tbl EXCEPT ![id] = row])
  BY DEF Distinct, IsDuplicate, EntryTable

LEMMA DistinctNext ==
    ASSUME Control, DistinctTables, [Next]_vars
    PROVE  DistinctTables'
<1>0. entries \in EntryTable /\ (tx # None => tx \in Tx /\ tx.entries \in EntryTable)
  BY DEF Control, TypeOK, Tx
<1> USE DEF DistinctTables, dbVars
<1>1. ASSUME NEW r \in Req, CreateEntry(r)
      PROVE  DistinctTables'
  <2>1. tx # None /\ op[r].id \in Entry /\ entries' = entries
    BY <1>1, OpFields DEF CreateEntry, Control, TypeOK, Local, KindAtLabel, TxPC, Free
  <2>2. CASE tx' = None
    BY <2>1, <2>2 DEF Distinct
  <2>3. CASE tx' # None
    <3>1. PICK row : /\ ~IsDuplicate(tx.entries, op[r].id, row.ident)
                     /\ tx' = [tx EXCEPT !.entries[op[r].id] = row]
      BY <1>1, <2>3 DEF CreateEntry
    <3>2. tx'.entries = [tx.entries EXCEPT ![op[r].id] = row]
      BY <1>0, <2>1, <3>1 DEF Tx
    <3> QED
      BY <1>0, <2>1, <3>1, <3>2, DistinctUpdate DEF Distinct
  <2> QED
    BY <2>2, <2>3
<1>2. ASSUME NEW r \in Req, UpdateEntry(r)
      PROVE  DistinctTables'
  <2>1. tx # None /\ op[r].id \in Entry /\ entries' = entries
    BY <1>2, OpFields DEF UpdateEntry, Control, TypeOK, Local, KindAtLabel, TxPC, Free
  <2>2. CASE tx' = None
    BY <2>1, <2>2 DEF Distinct
  <2>3. CASE tx' # None
    <3>1. PICK row : /\ ~IsDuplicate(tx.entries, op[r].id, row.ident)
                     /\ tx' = [tx EXCEPT !.entries[op[r].id] = row]
      BY <1>2, <2>3 DEF UpdateEntry
    <3>2. tx'.entries = [tx.entries EXCEPT ![op[r].id] = row]
      BY <1>0, <2>1, <3>1 DEF Tx
    <3> QED
      BY <1>0, <2>1, <3>1, <3>2, DistinctUpdate DEF Distinct
  <2> QED
    BY <2>2, <2>3
<1>3. ASSUME NEW r \in Req, ImportEntry(r)
      PROVE  DistinctTables'
  <2>1. tx # None /\ todo[r] \subseteq Draft /\ entries' = entries
    BY <1>3 DEF ImportEntry, Control, TypeOK, Local, TxPC
  <2>2. PICK d \in todo[r] :
          tx' = IF tx.entries[d.id] # None \/ IsDuplicate(tx.entries, d.id, d.ident) THEN tx
                ELSE [tx EXCEPT !.entries[d.id] =
                        [ident |-> d.ident, secret |-> Seal(key[r], d.secret),
                         notes |-> SealNotes(key[r], d.notes)]]
    BY <1>3 DEF ImportEntry
  <2>3. CASE tx' = tx
    BY <2>1, <2>3
  <2>4. CASE tx' # tx
    <3>1. PICK row : /\ ~IsDuplicate(tx.entries, d.id, row.ident)
                     /\ tx' = [tx EXCEPT !.entries[d.id] = row]
      BY <2>2, <2>4
    <3>2. tx'.entries = [tx.entries EXCEPT ![d.id] = row] /\ d.id \in Entry
      BY <1>0, <2>1, <3>1 DEF Tx, Draft
    <3> QED
      BY <1>0, <2>1, <3>1, <3>2, DistinctUpdate DEF Distinct
  <2> QED
    BY <2>3, <2>4
<1>4. ASSUME NEW r \in Req, Reencrypt(r)
      PROVE  DistinctTables'
  <2>1. tx # None /\ entries' = entries
    BY <1>4 DEF Reencrypt, Control, TypeOK, Local, TxPC, RekeyTxPC
  <2>2. tx' = None \/ tx'.entries = RekeyedEntries(tx.entries, NextKey(r))
    BY <1>0, <1>4, <2>1 DEF Reencrypt, Tx
  <2> QED
    BY <1>0, <2>1, <2>2, RekeyedDistinct DEF Distinct
<1>5. ASSUME NEW r \in Req, RekeyBegin(r) \/ BeginTx(r)
      PROVE  DistinctTables'
  BY <1>5 DEF RekeyBegin, BeginTx, OpenTx, Distinct
<1>6. ASSUME NEW r \in Req, RekeyCommit(r) \/ Commit(r)
      PROVE  DistinctTables'
  BY <1>6 DEF RekeyCommit, Commit, Distinct, Control, TypeOK, Local, TxPC, RekeyTxPC
<1>7. ASSUME NEW r \in Req, DeleteEntry(r)
      PROVE  DistinctTables'
  BY <1>0, <1>7 DEF DeleteEntry, Distinct, EntryTable
<1>8. ASSUME UNCHANGED entries, UNCHANGED tx \/ tx' = None
      PROVE  DistinctTables'
  BY <1>8 DEF Distinct
<1>9. ASSUME NEW r \in Req, SetupInsert(r) \/ WriteItem(r) \/ ImportItem(r)
      PROVE  UNCHANGED <<entries, tx>>
  BY <1>9 DEF SetupInsert, WriteItem, ImportItem
<1>10. ASSUME NEW r \in Req, Writing(r)
       PROVE  DistinctTables'
  BY <1>1, <1>2, <1>3, <1>4, <1>5, <1>6, <1>7, <1>8, <1>9, <1>10 DEF Writing
<1> QED
  BY <1>8, <1>10, TablesFrame

\* The committed logins and those an open transaction sees are always distinct.
THEOREM DistinctInvariant == Spec => []DistinctTables
<1>1. Init => DistinctTables
  BY DEF Init, DistinctTables, Distinct
<1>2. Control /\ DistinctTables /\ [Next]_vars => DistinctTables'
  BY DistinctNext
<1> QED
  BY <1>1, <1>2, ControlInvariant, PTL DEF Spec

\* No interleaving of creates, updates and imports stores an identity twice.
THEOREM IdentitiesStayUnique == Spec => []UniqueIdentities
<1>1. DistinctTables => UniqueIdentities
  BY DEF DistinctTables, Distinct, UniqueIdentities
<1> QED
  BY <1>1, DistinctInvariant, PTL

(***************************************************************************)
(* Logins: committed rows and the rows a transaction sees.                 *)
(***************************************************************************)
EntriesInForce ==
    /\ config = None => \A e \in Entry : entries[e] = None
    /\ EntriesStayOpen
    /\ tx # None => EntriesOpen(tx.entries, tx.config)

\* What the owner of the open transaction knows of it.
LEMMA OwnerKnows ==
    ASSUME Order, KeysInForce, NEW r \in Req, pc[r] \in TxPC
    PROVE  /\ tx \in Tx /\ tx # None /\ tx.owner = r
           /\ config # None /\ key[r] = config /\ key[r] \in Key
           /\ pc[r] # "commitX" => tx.config = config
           /\ pc[r] = "commitX" => tx.config # None
<1>1. tx \in Tx /\ tx # None /\ tx.owner = r /\ HoldsKey(r) /\ key[r] \in Key
  BY DEF Order, Control, TypeOK, Local, HoldsKey, KeyedPC, TxPC, ExclusivePC, RekeyTxPC
<1>2. config # None /\ key[r] = config
  BY <1>1 DEF KeysInForce, TxPC, RekeyTxPC, SharedPC
<1>3. pc[r] = "commitX" => tx.config \in Key
  <2>1. pc[r] = "commitX" => op[r] \in Op /\ op[r].kind = "rekey"
    BY DEF Order, Control, Local, KindAtLabel, ExclusivePC, RekeyTxPC, Free
  <2>2. pc[r] = "commitX" => tx.config = NextKey(r)
    BY DEF Order, Authority, TxConfig
  <2>3. pc[r] = "commitX" => op[r].new \in Password /\ op[r].salt \in Salt
    BY <2>1, OpFields
  <2> QED
    BY <2>2, <2>3 DEF NextKey, Key
<1> QED
  BY <1>1, <1>2, <1>3, NoneAssumption DEF Order, Authority, TxConfig

\* Storing a row that opens keeps the table open.
LEMMA EntriesOpenUpdate ==
    ASSUME NEW tbl \in EntryTable, NEW k, EntriesOpen(tbl, k), NEW id, NEW row, RowOpens(row, k)
    PROVE  EntriesOpen([tbl EXCEPT ![id] = row], k)
  BY DEF EntriesOpen, EntryTable

\* Each round of a transaction on entries writes a row under the key it holds.
LEMMA RowWritten ==
    ASSUME Order, KeysInForce, EntriesInForce, NEW r \in Req,
           CreateEntry(r) \/ UpdateEntry(r) \/ ImportEntry(r)
    PROVE  \/ tx' = tx \/ tx' = None
           \/ \E id \in Entry : \E row : RowOpens(row, config) /\ tx' = [tx EXCEPT !.entries[id] = row]
<1>0. pc[r] \in TxPC /\ pc[r] # "commitX"
  BY DEF CreateEntry, UpdateEntry, ImportEntry, TxPC
<1>1. /\ tx \in Tx /\ key[r] = config /\ config \in Key
      /\ tx.entries \in EntryTable /\ EntriesOpen(tx.entries, config)
  BY <1>0, OwnerKnows DEF EntriesInForce, Tx
<1>2. op[r] \in Op
  BY <1>0 DEF Order, Control, Local, KindAtLabel, TxPC, RekeyTxPC, Free
<1>3. CASE CreateEntry(r)
  <2>1. CASE tx' = None
    BY <2>1
  <2>2. CASE tx' # None
    <3>1. tx' = [tx EXCEPT !.entries[op[r].id] =
                   [ident |-> op[r].ident, secret |-> Seal(key[r], op[r].secret),
                    notes |-> SealNotes(key[r], op[r].notes)]]
      BY <1>3, <2>2 DEF CreateEntry
    <3> QED
      BY <1>1, <1>2, <1>3, <3>1, OpFields, SealType, SealNotesType DEF CreateEntry, RowOpens
  <2> QED
    BY <2>1, <2>2
<1>4. CASE UpdateEntry(r)
  <2>1. CASE tx' = None
    BY <2>1
  <2>2. CASE tx' # None
    <3> DEFINE row == tx.entries[op[r].id]
               secret == IF op[r].secret = Keep THEN row.secret ELSE Seal(key[r], op[r].secret)
               notes == IF op[r].notes = Keep THEN row.notes ELSE SealNotes(key[r], op[r].notes)
    <3>1. row # None /\ tx' = [tx EXCEPT !.entries[op[r].id] =
                                [ident |-> op[r].ident, secret |-> secret, notes |-> notes]]
      BY <1>4, <2>2 DEF UpdateEntry
    <3>2. /\ op[r].id \in Entry
          /\ op[r].secret \in Plain \cup {Keep} /\ op[r].notes \in Plain \cup {None, Keep}
      BY <1>2, <1>4, OpFields DEF UpdateEntry
    <3>3. RowOpens(row, config)
      BY <1>1, <3>1, <3>2 DEF EntriesOpen
    <3>4. Opens(secret, config) /\ (notes = None \/ Opens(notes, config))
      BY <1>1, <3>2, <3>3, SealType, SealNotesType DEF RowOpens
    <3> QED
      BY <3>1, <3>2, <3>4 DEF RowOpens
  <2> QED
    BY <2>1, <2>2
<1>5. CASE ImportEntry(r)
  <2>1. todo[r] \subseteq Draft
    BY <1>5 DEF ImportEntry, Order, Control, Local
  <2>2. PICK d \in todo[r] :
          \/ tx' = tx
          \/ tx' = [tx EXCEPT !.entries[d.id] =
                      [ident |-> d.ident, secret |-> Seal(key[r], d.secret),
                       notes |-> SealNotes(key[r], d.notes)]]
    BY <1>5 DEF ImportEntry
  <2>3. d.id \in Entry /\ d.secret \in Plain /\ d.notes \in Plain \cup {None}
    BY <2>1 DEF Draft
  <2> QED
    BY <1>1, <2>2, <2>3, SealType, SealNotesType DEF RowOpens
<1> QED
  BY <1>3, <1>4, <1>5

LEMMA EntriesInForceNext ==
    ASSUME Order, KeysInForce, EntriesInForce, [Next]_vars
    PROVE  EntriesInForce'
<1>0. entries \in EntryTable /\ (tx # None => tx \in Tx /\ tx.entries \in EntryTable)
  BY DEF Order, Control, TypeOK, Tx
<1>1. ASSUME NEW r \in Req, CreateEntry(r) \/ UpdateEntry(r) \/ ImportEntry(r)
      PROVE  EntriesInForce'
  <2>1. pc[r] \in TxPC /\ pc[r] # "commitX" /\ UNCHANGED <<config, entries>>
    BY <1>1 DEF CreateEntry, UpdateEntry, ImportEntry, TxPC
  <2>2. tx # None /\ tx.config = config
    BY <2>1, OwnerKnows
  <2>3. CASE tx' \in {tx, None}
    BY <2>1, <2>3 DEF EntriesInForce, EntriesStayOpen
  <2>4. CASE tx' \notin {tx, None}
    <3>0. PICK id \in Entry : \E row : RowOpens(row, config) /\ tx' = [tx EXCEPT !.entries[id] = row]
      BY <1>1, <2>4, RowWritten
    <3>1. PICK row : RowOpens(row, config) /\ tx' = [tx EXCEPT !.entries[id] = row]
      BY <3>0
    <3>2. tx'.entries = [tx.entries EXCEPT ![id] = row] /\ tx'.config = config
      BY <1>0, <2>2, <3>1 DEF Tx
    <3>3. EntriesOpen(tx'.entries, config)
      BY <1>0, <2>2, <3>1, <3>2, EntriesOpenUpdate DEF EntriesInForce
    <3> QED
      BY <2>1, <3>2, <3>3 DEF EntriesInForce, EntriesStayOpen, EntriesOpen, RowOpens
  <2> QED
    BY <2>3, <2>4
<1>2. ASSUME NEW r \in Req, Reencrypt(r)
      PROVE  EntriesInForce'
  <2>1. pc[r] \in TxPC /\ UNCHANGED <<config, entries>> /\ NextKey(r) \in Key
    <3>1. pc[r] = "reencrypt" /\ op[r] \in Op /\ op[r].kind = "rekey"
      BY <1>2 DEF Reencrypt, Order, Control, Local, KindAtLabel, ExclusivePC, RekeyTxPC, Free
    <3> QED
      BY <1>2, <3>1, OpFields DEF Reencrypt, TxPC, RekeyTxPC, NextKey, Key
  <2>2. tx # None
    BY <2>1, OwnerKnows
  <2>3. \/ tx' = None
        \/ tx'.entries = RekeyedEntries(tx.entries, NextKey(r)) /\ tx'.config = NextKey(r)
    BY <1>0, <1>2, <2>2 DEF Reencrypt, Tx
  <2>4. EntriesOpen(RekeyedEntries(tx.entries, NextKey(r)), NextKey(r))
    BY <1>0, <2>1, <2>2, RekeyedEntriesType
  <2> QED
    BY <2>1, <2>3, <2>4 DEF EntriesInForce, EntriesStayOpen, EntriesOpen, RowOpens, Opens
<1>3. ASSUME NEW r \in Req, RekeyBegin(r) \/ BeginTx(r)
      PROVE  EntriesInForce'
  <2>1. HoldsKey(r)
    BY <1>3 DEF RekeyBegin, BeginTx, HoldsKey, KeyedPC, ExclusivePC
  <2>2. config # None
    BY <2>1 DEF KeysInForce
  <2>3. /\ UNCHANGED <<config, entries>>
        /\ tx' = [owner |-> r, config |-> config, entries |-> entries, items |-> items]
    BY <1>3 DEF RekeyBegin, BeginTx, OpenTx
  <2> QED
    BY <2>2, <2>3 DEF EntriesInForce, EntriesStayOpen, EntriesOpen, RowOpens, Opens
<1>4. ASSUME NEW r \in Req, RekeyCommit(r)
      PROVE  EntriesInForce'
  <2>1. tx # None /\ tx.config # None
    BY <1>4, OwnerKnows DEF RekeyCommit, TxPC, RekeyTxPC
  <2>2. config' = tx.config /\ entries' = tx.entries /\ tx' = None
    BY <1>4 DEF RekeyCommit
  <2> QED
    BY <2>1, <2>2 DEF EntriesInForce, EntriesStayOpen, EntriesOpen, RowOpens, Opens
<1>5. ASSUME NEW r \in Req, Commit(r)
      PROVE  EntriesInForce'
  <2>1. tx # None /\ config # None /\ tx.config = config
    BY <1>5, OwnerKnows DEF Commit, TxPC
  <2>2. config' = config /\ entries' = tx.entries /\ tx' = None
    BY <1>5 DEF Commit
  <2> QED
    BY <2>1, <2>2 DEF EntriesInForce, EntriesStayOpen, EntriesOpen, RowOpens, Opens
<1>6. ASSUME NEW r \in Req, DeleteEntry(r)
      PROVE  EntriesInForce'
  <2>1. UNCHANGED <<config, tx>> /\ entries' = [entries EXCEPT ![op[r].id] = None]
    BY <1>6 DEF DeleteEntry
  <2> QED
    BY <1>0, <2>1 DEF EntriesInForce, EntriesStayOpen, EntriesOpen, EntryTable, RowOpens, Opens
<1>7. ASSUME NEW r \in Req, SetupInsert(r)
      PROVE  EntriesInForce'
  BY <1>7 DEF SetupInsert, EntriesInForce, EntriesStayOpen, EntriesOpen
<1>8. ASSUME UNCHANGED <<config, entries>>, tx' \in {tx, None}
      PROVE  EntriesInForce'
  BY <1>8 DEF EntriesInForce, EntriesStayOpen, EntriesOpen, RowOpens, Opens
<1>9. ASSUME NEW r \in Req, WriteItem(r) \/ ImportItem(r)
      PROVE  UNCHANGED <<config, entries, tx>>
  BY <1>9 DEF WriteItem, ImportItem
<1>10. ASSUME NEW r \in Req, Writing(r)
       PROVE  EntriesInForce'
  BY <1>1, <1>2, <1>3, <1>4, <1>5, <1>6, <1>7, <1>8, <1>9, <1>10 DEF Writing
<1> QED
  BY <1>8, <1>10, TablesFrame

\* Logins always open with the key in force, late statements or not, as long
\* as no password change loses its tail.
THEOREM EntriesInForceInvariant == ~DropRekeyTail => (Spec => []EntriesInForce)
<1> SUFFICES ASSUME ~DropRekeyTail
             PROVE  Spec => []EntriesInForce
  OBVIOUS
<1>1. Init => EntriesInForce
  BY DEF Init, EntriesInForce, EntriesStayOpen
<1>2. Order /\ KeysInForce /\ EntriesInForce /\ [Next]_vars => EntriesInForce'
  BY EntriesInForceNext
<1> QED
  BY <1>1, <1>2, OrderInvariant, KeysInForceInvariant, PTL DEF Spec

THEOREM EntriesAlwaysOpen == ~DropRekeyTail => (Spec => []EntriesStayOpen)
<1>1. EntriesInForce => EntriesStayOpen
  BY DEF EntriesInForce
<1> QED
  BY <1>1, EntriesInForceInvariant, PTL

(***************************************************************************)
(* Vault items: their statements are not in transactions, so they are safe *)
(* only while a statement in flight keeps its request's guard.             *)
(***************************************************************************)
ItemsInForce ==
    /\ orphans = {}
    /\ config = None => \A i \in Item : items[i] = None
    /\ config # None => ItemsOpen(items, config)
    /\ tx # None => ItemsOpen(tx.items, tx.config)

\* A statement sealed with k, or without a cipher, keeps the table open.
LEMMA EffectOpen ==
    ASSUME items \in ItemTable, NEW k, ItemsOpen(items, k),
           NEW s \in Statement, s.cipher = None \/ Opens(s.cipher, k)
    PROVE  ItemsOpen(Effect(s), k)
  BY DEF Effect, ItemsOpen, ItemTable, Statement

LEMMA ItemsInForceNext ==
    ASSUME Order, KeysInForce, EntriesInForce, ItemsInForce, ~LateStatements, [Next]_vars
    PROVE  ItemsInForce'
<1>0. items \in ItemTable /\ (tx # None => tx \in Tx /\ tx.items \in ItemTable)
  BY DEF Order, Control, TypeOK, Tx
<1> DEFINE Rest == /\ config = None => \A i \in Item : items[i] = None
                   /\ config # None => ItemsOpen(items, config)
                   /\ tx # None => ItemsOpen(tx.items, tx.config)
<1>1. orphans' = {}
  <2>1. ASSUME NEW r \in Req, Step(r) \/ Receive(r) \/ Abort(r)
        PROVE  orphans' = orphans
    BY <2>1 DEF Step, GrantShared, GrantExclusive, Extract, SetupRead, SetupInsert, LoginRead, LoginCreate,
       Logout, CheckSession, RekeyVerify, RekeyRelease, RekeyCheck, RekeyBegin, Reencrypt, RekeyCommit,
       RekeyClear, GetEntry, BeginTx, CreateEntry, UpdateEntry, ImportEntry, Commit, DeleteEntry,
       ListItems, PrepareItem, WriteItem, RefetchItem, ImportItem, ImportDone, ExportVerify,
       ExportEntries, ExportItems, ImportItemFails, BusyTimeout, Receive, Abort
  <2>2. ASSUME (\E s \in Sid : Expire(s)) \/ RunOrphan \/ Restart \/ UNCHANGED vars
        PROVE  orphans' = {}
    BY <2>2 DEF Expire, RunOrphan, Restart, vars, ItemsInForce
  <2> QED
    BY <2>1, <2>2 DEF Next, ItemsInForce
<1>2. ASSUME NEW r \in Req, WriteItem(r) \/ ImportItem(r)
      PROVE  Rest'
  <2>1. HoldsKey(r) /\ pc[r] \in SharedPC
    BY <1>2 DEF WriteItem, ImportItem, HoldsKey, KeyedPC, SharedPC
  <2>2. config # None /\ key[r] = config
    BY <2>1 DEF KeysInForce
  <2>3. PICK s \in Statements(r) : items' = Effect(s)
    <3>1. CASE WriteItem(r)
      BY <3>1 DEF WriteItem, Statements
    <3>2. CASE ImportItem(r)
      <4>1. PICK d \in todo[r] : items' = Effect(Insert(d.item, Seal(key[r], d.data)))
        BY <3>2 DEF ImportItem
      <4> QED
        BY <3>2, <4>1 DEF ImportItem, Statements
    <3> QED
      BY <1>2, <3>1, <3>2
  <2>4. s \in Statement /\ (s.cipher = None \/ Opens(s.cipher, config))
    <3>1. Control /\ s \in Statements(r)
      BY <2>3 DEF Order
    <3>2. s \in Statement /\ (s.cipher = None \/ s.cipher.key = key[r])
      BY <3>1, StatementsType
    <3> QED
      BY <2>2, <3>2 DEF Opens
  <2>5. UNCHANGED <<config, tx>> /\ tx = None
    BY <1>2 DEF WriteItem, ImportItem
  <2> QED
    BY <1>0, <2>2, <2>3, <2>4, <2>5, EffectOpen DEF ItemsInForce, ItemsOpen, Opens
<1>3. ASSUME NEW r \in Req, CreateEntry(r) \/ UpdateEntry(r) \/ ImportEntry(r)
      PROVE  Rest'
  <2>1. pc[r] \in TxPC /\ UNCHANGED <<config, items>>
    BY <1>3 DEF CreateEntry, UpdateEntry, ImportEntry, TxPC
  <2>2. tx # None
    BY <2>1, OwnerKnows
  <2>3. CASE tx' \in {tx, None}
    BY <2>1, <2>3 DEF ItemsInForce, ItemsOpen, Opens
  <2>4. CASE tx' \notin {tx, None}
    <3>0. PICK id \in Entry : \E row : tx' = [tx EXCEPT !.entries[id] = row]
      BY <1>3, <2>4, RowWritten
    <3>1. PICK row : tx' = [tx EXCEPT !.entries[id] = row]
      BY <3>0
    <3>2. tx'.items = tx.items /\ tx'.config = tx.config
      BY <1>0, <2>2, <3>1 DEF Tx
    <3> QED
      BY <2>1, <2>2, <3>2 DEF ItemsInForce, ItemsOpen, Opens
  <2> QED
    BY <2>3, <2>4
<1>4. ASSUME NEW r \in Req, Reencrypt(r)
      PROVE  Rest'
  <2>1. pc[r] \in TxPC /\ UNCHANGED <<config, items>> /\ NextKey(r) \in Key
    <3>1. pc[r] = "reencrypt" /\ op[r] \in Op /\ op[r].kind = "rekey"
      BY <1>4 DEF Reencrypt, Order, Control, Local, KindAtLabel, ExclusivePC, RekeyTxPC, Free
    <3> QED
      BY <1>4, <3>1, OpFields DEF Reencrypt, TxPC, RekeyTxPC, NextKey, Key
  <2>2. tx # None
    BY <2>1, OwnerKnows
  <2>3. \/ tx' = None
        \/ tx'.items = RekeyedItems(tx.items, NextKey(r)) /\ tx'.config = NextKey(r)
    BY <1>0, <1>4, <2>2 DEF Reencrypt, Tx
  <2>4. ItemsOpen(RekeyedItems(tx.items, NextKey(r)), NextKey(r))
    BY <1>0, <2>1, <2>2, RekeyedItemsType
  <2> QED
    BY <2>1, <2>3, <2>4 DEF ItemsInForce, ItemsOpen, Opens
<1>5. ASSUME NEW r \in Req, RekeyBegin(r) \/ BeginTx(r)
      PROVE  Rest'
  <2>1. HoldsKey(r)
    BY <1>5 DEF RekeyBegin, BeginTx, HoldsKey, KeyedPC, ExclusivePC
  <2>2. config # None
    BY <2>1 DEF KeysInForce
  <2>3. /\ UNCHANGED <<config, items>>
        /\ tx' = [owner |-> r, config |-> config, entries |-> entries, items |-> items]
    BY <1>5 DEF RekeyBegin, BeginTx, OpenTx
  <2> QED
    BY <2>2, <2>3 DEF ItemsInForce, ItemsOpen, Opens
<1>6. ASSUME NEW r \in Req, RekeyCommit(r)
      PROVE  Rest'
  <2>1. tx # None /\ tx.config # None
    BY <1>6, OwnerKnows DEF RekeyCommit, TxPC, RekeyTxPC
  <2>2. config' = tx.config /\ items' = tx.items /\ tx' = None
    BY <1>6 DEF RekeyCommit
  <2> QED
    BY <2>1, <2>2 DEF ItemsInForce, ItemsOpen, Opens
<1>7. ASSUME UNCHANGED <<config, items>>, tx' \in {tx, None}
      PROVE  Rest'
  BY <1>7 DEF ItemsInForce, ItemsOpen, Opens
<1>8. ASSUME NEW r \in Req, Commit(r) \/ DeleteEntry(r)
      PROVE  UNCHANGED <<config, items>> /\ tx' \in {tx, None}
  BY <1>8 DEF Commit, DeleteEntry
<1>9. ASSUME NEW r \in Req, SetupInsert(r)
      PROVE  Rest'
  BY <1>9 DEF SetupInsert, ItemsInForce, ItemsOpen
<1>10. ASSUME NEW r \in Req, Writing(r)
       PROVE  Rest'
  BY <1>2, <1>3, <1>4, <1>5, <1>6, <1>7, <1>8, <1>9, <1>10 DEF Writing
<1>11. ~RunOrphan
  BY DEF RunOrphan, ItemsInForce
<1>12. Rest'
  BY <1>7, <1>10, <1>11, TablesFrame
<1> QED
  BY <1>1, <1>12 DEF ItemsInForce

Rows == Order /\ KeysInForce /\ EntriesInForce /\ ItemsInForce

\* If no statement and no password change outlives its guards, the rows of both
\* tables open, in every state, with the key the stored configuration stands for.
THEOREM RowsInvariant == ~DropRekeyTail /\ ~LateStatements => (Spec => []Rows)
<1> SUFFICES ASSUME ~DropRekeyTail, ~LateStatements
             PROVE  Spec => []Rows
  OBVIOUS
<1>1. Init => ItemsInForce
  BY DEF Init, ItemsInForce
<1>2. Order /\ KeysInForce /\ EntriesInForce /\ ItemsInForce /\ [Next]_vars => ItemsInForce'
  BY ItemsInForceNext
<1>3. Spec => []ItemsInForce
  BY <1>1, <1>2, OrderInvariant, KeysInForceInvariant, EntriesInForceInvariant, PTL DEF Spec
<1>4. Order /\ KeysInForce /\ EntriesInForce /\ ItemsInForce => Rows
  BY DEF Rows
<1> QED
  BY <1>3, <1>4, OrderInvariant, KeysInForceInvariant, EntriesInForceInvariant, PTL

THEOREM EveryRowDecryptable == ~DropRekeyTail /\ ~LateStatements => (Spec => []AllDecryptable)
<1>1. Rows => AllDecryptable
  BY DEF Rows, EntriesInForce, EntriesStayOpen, ItemsInForce, AllDecryptable
<1> QED
  BY <1>1, RowsInvariant, PTL

\* Under the same assumption no handler meets data that does not open.
THEOREM NeverAnswersCorrupt == ~DropRekeyTail /\ ~LateStatements => (Spec => []NeverCorrupt)
<1> SUFFICES ASSUME ~DropRekeyTail, ~LateStatements
             PROVE  Spec => []NeverCorrupt
  OBVIOUS
<1>1. Init => NeverCorrupt
  BY DEF Init, NeverCorrupt
<1>2. ASSUME Rows, NeverCorrupt, [Next]_vars
      PROVE  NeverCorrupt'
  <2> USE DEF NeverCorrupt, Goto, Finish
  <2>0. pc \in [Req -> PC] /\ (config # None => EntriesOpen(entries, config) /\ ItemsOpen(items, config))
    BY <1>2 DEF Rows, Order, Control, TypeOK, EntriesInForce, EntriesStayOpen, ItemsInForce
  <2>1. ASSUME NEW r \in Req, pc[r] \in SharedPC, HoldsKey(r)
        PROVE  EntriesOpen(entries, key[r]) /\ ItemsOpen(items, key[r])
    BY <1>2, <2>0, <2>1 DEF Rows, KeysInForce
  <2>2. ASSUME NEW r \in Req, GetEntry(r)
        PROVE  NeverCorrupt'
    <3>1. EntriesOpen(entries, key[r])
      BY <2>1, <2>2 DEF GetEntry, SharedPC, HoldsKey
    <3>2. op[r] \in Op
      BY <1>2, <2>2 DEF GetEntry, Rows, Order, Control, Local, KindAtLabel, Free
    <3>3. op[r].id \in Entry
      BY <2>2, <3>2, OpFields DEF GetEntry
    <3> QED
      BY <1>2, <2>0, <2>2, <3>1, <3>3 DEF GetEntry, EntriesOpen
  <2>3. ASSUME NEW r \in Req, ListItems(r) \/ ExportItems(r) \/ ExportEntries(r)
        PROVE  NeverCorrupt'
    <3>1. EntriesOpen(entries, key[r]) /\ ItemsOpen(items, key[r])
      BY <2>1, <2>3 DEF ListItems, ExportItems, ExportEntries, SharedPC, HoldsKey, KeyedPC
    <3> QED
      BY <1>2, <2>0, <2>3, <3>1 DEF ListItems, ExportItems, ExportEntries
  <2>4. ASSUME NEW r \in Req, RefetchItem(r)
        PROVE  NeverCorrupt'
    <3>1. ItemsOpen(items, key[r])
      BY <2>1, <2>4 DEF RefetchItem, SharedPC, HoldsKey, KeyedPC
    <3>2. op[r] \in Op /\ op[r].kind \in {"createItem", "updateItem"}
      BY <1>2, <2>4 DEF RefetchItem, Rows, Order, Control, Local, KindAtLabel, Free
    <3>3. op[r].item \in Item
      BY <3>2, OpFields
    <3> QED
      BY <1>2, <2>0, <2>4, <3>1, <3>3 DEF RefetchItem, ItemsOpen
  <2>5. ASSUME NEW r \in Req, Reencrypt(r)
        PROVE  NeverCorrupt'
    <3>1. pc[r] \in TxPC /\ pc[r] # "commitX"
      BY <2>5 DEF Reencrypt, TxPC, RekeyTxPC
    <3>2. EntriesOpen(tx.entries, key[r]) /\ ItemsOpen(tx.items, key[r])
      BY <1>2, <3>1, OwnerKnows DEF Rows, EntriesInForce, ItemsInForce
    <3> QED
      BY <1>2, <2>0, <2>5, <3>2 DEF Reencrypt
  <2>6. ASSUME NEW r \in Req, Step(r), ~GetEntry(r), ~ListItems(r), ~ExportItems(r), ~ExportEntries(r),
               ~RefetchItem(r), ~Reencrypt(r)
        PROVE  NeverCorrupt'
    BY <1>2, <2>0, <2>6 DEF Step, GrantShared, GrantExclusive, Extract, SetupRead, SetupInsert, LoginRead,
       LoginCreate, Logout, CheckSession, RekeyVerify, RekeyRelease, RekeyCheck, RekeyBegin, RekeyCommit,
       RekeyClear, BeginTx, CreateEntry, UpdateEntry, ImportEntry, Commit, DeleteEntry, PrepareItem,
       WriteItem, ImportItem, ImportDone, ExportVerify, ImportItemFails, BusyTimeout
  <2>7. ASSUME NEW r \in Req, Receive(r) \/ Abort(r)
        PROVE  NeverCorrupt'
    BY <1>2, <2>0, <2>7 DEF Receive, Abort
  <2>8. ASSUME (\E s \in Sid : Expire(s)) \/ RunOrphan \/ Restart \/ UNCHANGED vars
        PROVE  NeverCorrupt'
    BY <1>2, <2>8 DEF Expire, RunOrphan, Restart, vars, reqVars
  <2> QED
    BY <1>2, <2>2, <2>3, <2>4, <2>5, <2>6, <2>7, <2>8 DEF Next
<1> QED
  BY <1>1, <1>2, RowsInvariant, PTL DEF Spec

============================================================================
