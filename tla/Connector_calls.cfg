\* Two callers share a provider that may answer anything; a call that is over stays over.
SPECIFICATION FairSpec
CONSTANTS
    c1 = c1  c2 = c2  x = x  y = y  misfit = misfit
    Misfit = misfit
    Callers = {c1, c2}
    Texts = {x, y}
    MaxTexts = 3
    MaxBatch = 2
    MaxAttempts = 2
    Deadlines = {c1}
    Burst = 1
    Replies = {"ok", "short", "busy", "spent", "rejected", "dropped", "cut", "stalled"}
CHECK_DEADLOCK FALSE
INVARIANTS
    TypeOK
    VectorsInOrder
    SlicesFit
PROPERTIES
    NoRequestAfterGivingUp
    CallsReturn
