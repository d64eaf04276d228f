\* knowledge.go:206: NotesFailed counts the notes that could not be stored.
SPECIFICATION Spec
CONSTANTS
    i1 = i1  i2 = i2  s1 = s1  s2 = s2
    a1 = a1  a2 = a2  b1 = b1  broken = broken  big = big  poison = poison
    t1 = t1  t2 = t2  t3 = t3
    None = None
    Indexers = {i1, i2}
    Spaces = {s1}
    SpaceOf <- OneSpace
    Misconfigured = {}
    Files = {1, 2}
    Contents = {a1, a2}
    Kind <- MCKind
    Texts = {t1, t2, t3}
    Refused = {}
    Cut <- MCCut
    PendingBatch = 2
    MaxBatch = 2
    Quota = 2
    MaxEdits = 1
    MaxFaults = 0
PROPERTIES
    FailedNotesAreNotStored
