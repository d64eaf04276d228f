\* Three processes boot on an empty database, two of them migrate it, open colliding and distinct spaces, and one thing goes wrong on the way.
\* After MaxOpens nothing is opened any more.
SPECIFICATION FairOpenSpec
CONSTANTS
    p1 = p1  p2 = p2  p3 = p3  s1 = s1  s2 = s2  s3 = s3
    t1 = t1  t2 = t2  k1 = k1
    Processes = {p1, p2, p3}
    Spaces = {s1, s2, s3}
    Names = {t1, t2}
    Slug <- CollidingSlug
    Keys = {k1}
    LockKey <- OneKey
    MaxId = 2
    MaxOpens = 3
    MaxFaults = 1
    SkipMigrate = {p3}
    Latest = 2
    PoolSize = 2
    None = None
CHECK_DEADLOCK FALSE
INVARIANTS
    OpenTypeOK
    SpacesApart
    MigratedUnderLock
    SchemaTravelsWithBuild
PROPERTIES
    OpenEnds
