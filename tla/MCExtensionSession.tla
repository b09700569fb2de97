------------------------- MODULE MCExtensionSession -------------------------
(***************************************************************************)
(* Instances of ExtensionSession: scenes of the auto-lock, of the session  *)
(* modes and of the credential metadata.                                   *)
(***************************************************************************)
EXTENDS ExtensionSession

Timed == [may |-> {"login", "check", "minutes", "stop", "quit"}, acts |-> 4,
          modes |-> {"inactivity"}]
Locks == [may |-> {"login", "lock", "check", "reject"}, acts |-> 4, modes |-> {"inactivity"}]
Modes == [may |-> {"login", "mode", "stop"}, acts |-> 4, modes |-> Mode]
Metadata == [may |-> {"login", "creds", "mutate", "lock", "stop", "outside", "reject"}, acts |-> 4,
             modes |-> {"persistent"}]
Scenes == {Timed, Locks, Modes, Metadata}
=============================================================================
