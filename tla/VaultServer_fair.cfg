SPECIFICATION SceneSpec
CONSTANTS
    e1 = e1  e2 = e2  i1 = i1  n1 = n1  n2 = n2  d1 = d1  d2 = d2  p1 = p1  t3 = t3
    Req = {q1, q2}
    Sid = {s1}
    Password = {p1, p2}
    Salt = {t1, t2, t3}
    Entry = {e1, e2}
    Item = {i1}
    Ident = {n1}
    Plain = {d1}
    None = None
    Keep = Keep
    Documents <- NoDocuments
    Kinds <- AllFairKinds
    LateStatements = TRUE
    DropRekeyTail = TRUE
INVARIANTS TypeOK EntriesStayOpen
PROPERTIES ConfigChangesAuthorised EveryRequestEnds
