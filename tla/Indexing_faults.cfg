\* One indexer of two is pointed at an empty directory; files go bad, passes die,
\* a quota never covers a whole round, one text is refused for good: the index
\* still gets as far as it can.
SPECIFICATION FairSpec
CONSTANTS
    i1 = i1  i2 = i2  s1 = s1  s2 = s2
    a1 = a1  a2 = a2  b1 = b1  broken = broken  big = big  poison = poison
    t1 = t1  t2 = t2  t3 = t3
    None = None
    Indexers = {i1, i2}
    Spaces = {s1}
    SpaceOf <- OneSpace
    Misconfigured = {i2}
    Files = {1, 2}
    Contents = {a1, a2, broken, big, poison}
    Kind <- MCKind
    Texts = {t1, t2, t3}
    Refused = {t3}
    Cut <- MCCut
    PendingBatch = 2
    MaxBatch = 1
    Quota = 1
    MaxEdits = 1
    MaxFaults = 1
INVARIANTS
    ChunksMatchNote
    SettledPassSyncs
PROPERTIES
    PruneOnlyVanished
    EventuallyInSync
    ImplementsSearchIndex
