SPECIFICATION Spec
CONSTANTS
    e1 = e1  e2 = e2  i1 = i1  n1 = n1  n2 = n2  d1 = d1  d2 = d2
    Req = {q1, q2}
    Sid = {s1, s2}
    Password = {p1}
    Salt = {t1, t2}
    Entry = {e1, e2}
    Item = {i1}
    Ident = {n1, n2}
    Plain = {d1}
    None = None
    Keep = Keep
    Documents <- NoDocuments
    Kinds <- EntryKinds
    LateStatements = FALSE
    DropRekeyTail = FALSE
SYMMETRY EntrySymmetry
INVARIANT UniqueIdentities
PROPERTY ImplementsAbstractVault
