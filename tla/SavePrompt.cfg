SPECIFICATION Spec
CONSTANTS
    n1 = n1  n2 = n2  x = x  y = y  u1 = u1  t1 = t1  t2 = t2
    Sub = {1, 2}
    Form <- Forms
    Name = {n1, n2}
    Secret = {x, y}
    Url = {u1}
    Task = {t1, t2}
    Scene <- Scenes
    None = None
    Folded <- Same
    MaxGeneration = 3
CHECK_DEADLOCK FALSE
INVARIANTS TypeOK LockedLeavesNoPending BannerIsNewest
PROPERTIES SubmissionKept OnlyConfirmedLogins EverySubmissionAnswered
