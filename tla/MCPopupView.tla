----------------------------- MODULE MCPopupView -----------------------------
\* Instances of PopupView: each scene is a kind of use of the popup.
EXTENDS PopupView

CONSTANTS l1, l2, i1, i2, i3, c1, c2

At(s, n, may) ==
    [may |-> may, acts |-> n, session |-> s, logins |-> [l \in {l1, l2} |-> 1], local |-> <<>>,
     vault |-> [i \in {i1, i2, i3} |-> None], resume |-> None]

WithCard(s) == [s EXCEPT !.vault[i1] = c1]

\* Logging in and out, by the popup and by others.
Sessions == At(0, 4, {"unlock", "poll", "lock", "expire", "tab"})
Locks == At(1, 4, {"open", "edit", "reveal", "lock", "expire", "unlock", "poll"})

\* Unlocking twice at once, and an announcement when the view is locked again.
Twice == At(0, 4, {"unlock", "poll", "refresh", "lock"})

\* Logins are read, edited and deleted.
Logins == [At(1, 4, {"open", "back", "reveal", "edit", "save", "cancel", "add"})
              EXCEPT !.logins[l2] = 0]
Deletes == At(1, 4, {"open", "back", "delete", "dialog"})

\* An answer comes when the user has left.
Leaves == {At(1, 4, {"open", "edit", "save", "delete", "dialog", "lock"}),
           At(1, 4, {"open", "edit", "save", "dialog", "addCard", "tab", "lock"}),
           At(1, 3, {"open", "delete", "dialog", "tab", "lock"})}

\* Others change the vault meanwhile.
Others == At(1, 3, {"open", "edit", "reveal", "clear", "refresh", "remove"})

\* Time passes.
Ages == At(1, 5, {"open", "edit", "reveal", "age", "save", "back"})

\* A login is restored when the popup opens.
Restores == [At(1, 2, {"open", "back", "expire", "refresh", "remove", "clear", "tab", "fail"})
                EXCEPT !.resume = l1]

\* Cards.
Cards == WithCard(At(1, 5, {"tab", "addCard", "editCard", "deleteCard", "dialog"}))
CardLocks == WithCard(At(1, 4, {"tab", "editCard", "dialog", "expire", "unlock"}))
Migrates == [At(1, 3, {"tab", "fail", "close", "expire", "unlock"})
                EXCEPT !.local = <<c1, c2, c1>>]

MCScene == Leaves \cup {Sessions, Twice, Locks, Logins, Deletes, Others, Ages, Restores, Cards, CardLocks,
                        Migrates}
==============================================================================
