---------------------------- MODULE MCPopupCache ----------------------------
(* Small instances of PopupCache. *)
EXTENDS PopupCache, TLC

CONSTANTS p1, p2, f1, t1, t2, e1

SessionKinds == {"read", "mutate", "expire", "lock", "login", "restart"}
OwnKinds == {"read", "mutate", "restart", "outside"}
OverlapKinds == {"lock", "login"}

Symmetry == Permutations(Proc) \cup Permutations(Token)
=============================================================================
