\* factory.go:137: retries wait their turn.
SPECIFICATION Spec
CONSTANTS
    c1 = c1  c2 = c2  x = x  y = y  misfit = misfit
    Misfit = misfit
    Callers = {c1}
    Texts = {x, y}
    MaxTexts = 3
    MaxBatch = 2
    MaxAttempts = 2
    Deadlines = {c1}
    Burst = 1
    Replies = {"ok", "short", "busy", "spent", "rejected", "dropped", "cut", "stalled"}
CHECK_DEADLOCK FALSE
PROPERTIES
    RetriesWaitTheirTurn
