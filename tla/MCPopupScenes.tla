--------------------------- MODULE MCPopupScenes ---------------------------
(***************************************************************************)
(* PopupCache in four scenes: one about sessions, in which only the list   *)
(* is read and no login changes; and three about changes under one         *)
(* session, of which two read one key while the login changes twice and    *)
(* one reads both keys while it is deleted and no record expires.  No more *)
(* than depth writes to storage wait.                                      *)
(***************************************************************************)
EXTENDS MCPopupCache

VARIABLE scene

Sessions == [may |-> SessionKinds, reads |-> {"list"}, changes |-> 0, depth |-> 2]
Changes(k) == [may |-> OwnKinds, reads |-> {k}, changes |-> 2, depth |-> 2]
BothKeys == [may |-> OwnKinds, reads |-> Key, changes |-> 1, depth |-> 1]
Scenes == {Sessions, Changes("list"), Changes(e1), BothKeys}

SceneInit == Init /\ scene \in Scenes

May(kind) == kind \in scene.may

\* Start, as the scene allows it.
SceneStart(p) ==
    \/ May("read") /\ \E k \in scene.reads : StartRead(p, k)
    \/ May("mutate") /\ StartMutation(p)
    \/ May("expire") /\ StartExpire(p)
    \/ May("login") /\ StartLogin(p)
    \/ May("lock") /\ (Lock(p) \/ \E f \in Fetch : FetchRejected(p, f))
    \/ May("restart") /\ Restart(p)

\* One change deletes the login.
Bounded ==
    /\ UNCHANGED scene
    /\ queue' <= scene.depth
    /\ vault' # vault => \/ scene.changes = 2
                         \/ scene.changes = 1 /\ vault'[e1] = Gone

SceneNext ==
    \/ \E p \in Proc : (SceneStart(p) \/ ReadStep(p) \/ MutationStep(p) \/ SessionStep(p)) /\ Bounded
    \/ \E f \in Fetch : FetchStep(f) /\ Bounded
    \/ \E k \in Key : scene # BothKeys /\ Expire(k) /\ Bounded
    \/ \E e \in Entry : May("outside") /\ OutsideChange(e) /\ Bounded
    \/ \E t \in Token : TokenReplaced(t) /\ Bounded
    \/ (FinishLoad \/ BeginWrite \/ EndWrite) /\ Bounded

SceneSpec == SceneInit /\ [][SceneNext]_<<vars, scene>>
=============================================================================
