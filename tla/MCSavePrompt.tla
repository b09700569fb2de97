---------------------------- MODULE MCSavePrompt ----------------------------
(***************************************************************************)
(* Small instances of SavePrompt, one for each scene: what may happen in   *)
(* it besides the work of the worker, and how often.  The scenes add their *)
(* states; all together would multiply them.                               *)
(***************************************************************************)
EXTENDS SavePrompt, TLC

CONSTANTS n1, n2, x, y, u1, t1, t2

\* A login, a change of password, and a password without a user name.
Signin == [name |-> n1, secret |-> x, change |-> FALSE]
Change == [name |-> n1, secret |-> x, change |-> TRUE]
Nameless == [name |-> None, secret |-> x, change |-> FALSE]
Forms == {Signin, Change, Nameless}

NoLogin == [n \in Name |-> None]
OtherLogin == [NoLogin EXCEPT ![n2] = x]

\* Two submissions, and a page that navigates, is shown or dismisses.
Overtake == [may |-> {"navigate", "show", "dismiss"}, acts |-> 2,
             subs |-> 2, forms |-> {Signin}, vaults |-> {NoLogin}]

\* A session ends and another begins around two submissions.
Sessions == [may |-> {"lock", "login"}, acts |-> 2,
             subs |-> 2, forms |-> {Signin}, vaults |-> {NoLogin}]

\* The worker is stopped, requests fail, timers and records run out.
Broken == [may |-> {"stop", "fail", "timeout", "expire", "review"}, acts |-> 3,
           subs |-> 1, forms |-> {Signin}, vaults |-> {NoLogin}]

\* Every form, while another client changes the vault once.
Choose == [may |-> {"outside"}, acts |-> 1,
           subs |-> 1, forms |-> Forms, vaults |-> {NoLogin, OtherLogin}]

\* The user name comes from an earlier step.
Remember == [may |-> {"name"}, acts |-> 1,
             subs |-> 1, forms |-> {Nameless}, vaults |-> {NoLogin, OtherLogin}]

Scenes == {Overtake, Sessions, Broken, Choose, Remember}

Same == [n \in Name |-> n]
=============================================================================
