--------------------------- MODULE MCVaultServer ---------------------------
(***************************************************************************)
(* Instances of VaultServer for TLC.  The rows of the backup document name *)
(* one identity twice, so that an import meets a duplicate of its own.     *)
(***************************************************************************)
EXTENDS VaultRefinement, TLC

CONSTANTS e1, e2, i1, n1, n2, d1, d2

Imported(e, notes) == [id |-> e, ident |-> n1, secret |-> d1, notes |-> notes]
Backups == {[entries |-> {Imported(e1, d1), Imported(e2, None)}, items |-> {[item |-> i1, data |-> d1]}]}
NoDocuments == {}

EntryKinds == {"setup", "login", "rekey", "createEntry", "updateEntry"}
ItemKinds == {"setup", "login", "logout", "session", "rekey", "getEntry", "deleteEntry",
              "listItems", "createItem", "updateItem", "deleteItem", "import", "export"}
RekeyKinds == {"setup", "login", "logout", "rekey"}
LivenessKinds == {"setup", "login", "rekey", "createEntry", "createItem"}

Symmetry == Permutations(Req) \cup Permutations(Sid) \cup Permutations(Salt)
\* No document names an entry or an identity: they are interchangeable too.
EntrySymmetry == Symmetry \cup Permutations(Entry) \cup Permutations(Ident)
ItemSymmetry  == Symmetry \cup Permutations(Password)
=============================================================================
