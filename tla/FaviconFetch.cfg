SPECIFICATION FairSpec
CONSTANTS
    t1 = t1  t2 = t2  d1 = d1  d2 = d2
    Task = {t1, t2}
    Domain = {d1, d2}
    MaxFetches = 1
    None = None
    DropMidFetch = FALSE
INVARIANTS TypeOK OneFetchPerDomain ConcurrencyBounded
PROPERTIES SkippedForAnotherFetch InFlightReleased
