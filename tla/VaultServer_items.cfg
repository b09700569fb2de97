SPECIFICATION Spec
CONSTANTS
    e1 = e1  e2 = e2  i1 = i1  n1 = n1  n2 = n2  d1 = d1  d2 = d2
    Req = {q1, q2}
    Sid = {s1, s2}
    Password = {p1, p2}
    Salt = {t1, t2}
    Entry = {e1, e2}
    Item = {i1}
    Ident = {n1}
    Plain = {d1, d2}
    None = None
    Keep = Keep
    Documents <- Backups
    Kinds <- ItemKinds
    LateStatements = FALSE
    DropRekeyTail = FALSE
SYMMETRY ItemSymmetry
INVARIANTS AllDecryptable NeverCorrupt SessionsCurrent
PROPERTY ImplementsAbstractVault
