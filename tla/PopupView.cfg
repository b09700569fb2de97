CONSTANTS
    l1 = l1
    l2 = l2
    i1 = i1
    i2 = i2
    i3 = i3
    c1 = c1
    c2 = c2
    None = None
    MaxVersion = 3
    MaxSession = 4
    Login = {l1, l2}
    Item = {i1, i2, i3}
    Card = {c1, c2}
    Scene <- MCScene
SPECIFICATION Spec
CHECK_DEADLOCK FALSE
INVARIANTS TypeOK LockedShowsNothing HeldIsCurrent OwnChangeShown ShownIsSelected CardsMigrated
PROPERTIES SecretsExpire UnlockEnds
