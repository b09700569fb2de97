-------------------------- MODULE VaultRefinement --------------------------
(***************************************************************************)
(* VaultServer implements AbstractVault.  A stored row stands for what the *)
(* key in force opens it to; a row that does not open stands for Lost,     *)
(* which is no login and no item.  The sessions that a password change has *)
(* committed to end are locked already: their holders cannot get past the  *)
(* operation lock before they are gone.                                    *)
(***************************************************************************)
EXTENDS VaultServer

\* A vault that nobody has set up has no password.
ASSUME PasswordAssumption == None \notin Password

Lost == [lost |-> TRUE]

OpenedNotes(n) == IF n = None THEN None ELSE n.data
OpenedEntry(row) ==
    IF row = None THEN None
    ELSE IF RowOpens(row, config)
         THEN [ident |-> row.ident, secret |-> row.secret.data, notes |-> OpenedNotes(row.notes)]
         ELSE Lost
OpenedItem(row) ==
    IF row = None THEN None ELSE IF Opens(row, config) THEN row.data ELSE Lost

\* What the abstract vault sees of the server's state.
SeenOwner    == IF config = None THEN None ELSE config.pw
SeenLogins   == [e \in Entry |-> OpenedEntry(entries[e])]
SeenContents == [i \in Item |-> OpenedItem(items[i])]
SeenUnlocked == IF \E r \in Req : pc[r] = "clear" THEN {} ELSE {s \in Sid : Live(s)}

Abstract == INSTANCE AbstractVault WITH
    owner    <- SeenOwner,
    logins   <- SeenLogins,
    contents <- SeenContents,
    unlocked <- SeenUnlocked

\* The server, seen through the key in force, is the abstract vault.
ImplementsAbstractVault == Abstract!Spec
=============================================================================
