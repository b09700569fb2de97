SPECIFICATION SceneSpec
CONSTANTS
    p1 = p1  p2 = p2  f1 = f1  t1 = t1  t2 = t2  e1 = e1
    Proc = {p1, p2}
    Fetch = {f1}
    Token = {t1, t2}
    Entry = {e1}
    Loader = Loader
    None = None
    Kinds <- AllKinds
    Overlap = FALSE
    MaxVersion = 2
    MaxQueue = 2
SYMMETRY Symmetry
INVARIANTS TypeOK LockedLeavesNothing OwnChangesShown
PROPERTIES LockIsFinal
