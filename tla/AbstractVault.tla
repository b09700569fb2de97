--------------------------- MODULE AbstractVault ---------------------------
(***************************************************************************)
(* What the server promises its user, with no cryptography, no lock and no *)
(* transaction: a table of logins and one of items in the clear, a master  *)
(* password, and the sessions that are unlocked.  Changing the password    *)
(* ends every session and leaves what is stored as it is, in one step.     *)
(***************************************************************************)
EXTENDS FiniteSets

CONSTANTS Sid, Password, Entry, Item, Ident, Plain, None

Login == [ident : Ident, secret : Plain, notes : Plain \cup {None}]

VARIABLES owner, logins, contents, unlocked
vars == <<owner, logins, contents, unlocked>>

\* One login per identity.
Distinct(tbl) == \A e, f \in Entry : e # f /\ tbl[e] # None /\ tbl[f] # None
                                        => tbl[e].ident # tbl[f].ident

Init ==
    /\ owner = None
    /\ logins = [e \in Entry |-> None]
    /\ contents = [i \in Item |-> None]
    /\ unlocked = {}

SetUp ==
    /\ owner = None
    /\ owner' \in Password
    /\ UNCHANGED <<logins, contents, unlocked>>

Unlock == \E s \in Sid :
    /\ owner # None
    /\ unlocked' = unlocked \cup {s}
    /\ UNCHANGED <<owner, logins, contents>>

\* A logout, a deadline, a restart: sessions end, nothing else happens.
Lock ==
    /\ unlocked' \subseteq unlocked
    /\ UNCHANGED <<owner, logins, contents>>

ChangePassword ==
    /\ owner # None
    /\ owner' \in Password
    /\ unlocked' = {}
    /\ UNCHANGED <<logins, contents>>

\* A login is stored, replaced or removed, and the other logins stay.
WriteLogin == \E e \in Entry :
    /\ owner # None
    /\ \E row \in Login \cup {None} : logins' = [logins EXCEPT ![e] = row]
    /\ Distinct(logins')
    /\ UNCHANGED <<owner, contents, unlocked>>

\* An import only ever adds logins, all of them or none.
ImportLogins ==
    /\ owner # None
    /\ logins' \in [Entry -> Login \cup {None}]
    /\ \A e \in Entry : logins[e] # None => logins'[e] = logins[e]
    /\ Distinct(logins')
    /\ UNCHANGED <<owner, contents, unlocked>>

WriteItem == \E i \in Item :
    /\ owner # None
    /\ \E p \in Plain \cup {None} : contents' = [contents EXCEPT ![i] = p]
    /\ UNCHANGED <<owner, logins, unlocked>>

Next == \/ SetUp \/ Unlock \/ Lock \/ ChangePassword
        \/ WriteLogin \/ ImportLogins \/ WriteItem

Spec == Init /\ [][Next]_vars
=============================================================================
