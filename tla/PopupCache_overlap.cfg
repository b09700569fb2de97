SPECIFICATION Spec
CONSTANTS
    p1 = p1  p2 = p2  f1 = f1  t1 = t1  t2 = t2  e1 = e1
    Proc = {p1, p2}
    Fetch = {f1}
    Token = {t1, t2}
    Entry = {}
    Loader = Loader
    None = None
    Kinds <- OverlapKinds
    Overlap = TRUE
    MaxVersion = 1
    MaxQueue = 3
SYMMETRY Symmetry
PROPERTIES NewSessionKept
