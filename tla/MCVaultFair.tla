----------------------------- MODULE MCVaultFair -----------------------------
(***************************************************************************)
(* VaultServer under fairness, in two scenes: requests that write while    *)
(* the password changes, with statements that outlive them; and password   *)
(* changes that meet, dropped after their commit or not.  The salt of the  *)
(* first set-up says which of the two it is.                               *)
(***************************************************************************)
EXTENDS MCVaultServer

CONSTANTS p1, t3

AllFairKinds == LivenessKinds \cup RekeyKinds
Undecided == usedSalts = {}
Rekeys == t3 \in usedSalts

\* One password and two salts are enough for the first scene.
Small(o) ==
    /\ o.kind \in LivenessKinds
    /\ "pw" \in DOMAIN o => o.pw = p1
    /\ "new" \in DOMAIN o => o.new = p1
    /\ "salt" \in DOMAIN o => o.salt # t3

Allowed(o) ==
    IF Undecided THEN o.kind = "setup" /\ (Small(o) \/ o.salt = t3)
    ELSE IF Rekeys THEN o.kind \in RekeyKinds
    ELSE Small(o)

Sends(r) == Receive(r) /\ Allowed(op'[r])
Drops(r) == Abort(r) /\ (~Rekeys => pc[r] # "clear")

SceneNext ==
    \/ \E r \in Req : Sends(r) \/ Step(r) \/ Drops(r)
    \/ \E s \in Sid : Expire(s)
    \/ RunOrphan \/ Restart

SceneSpec == Init /\ [][SceneNext]_vars /\ \A r \in Req : WF_vars(Step(r))
=============================================================================
