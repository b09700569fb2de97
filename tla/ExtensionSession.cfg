SPECIFICATION Spec
CONSTANTS
    Proc = {p1, p2}
    Mode = {"ephemeral", "persistent", "inactivity"}
    Scene <- Scenes
    None = None
    MaxToken = 2
    MaxVersion = 2
CHECK_DEADLOCK FALSE
INVARIANTS TypeOK  MetadataCurrent
PROPERTIES AutoLockEnds
