\* knowledge.go:385: the hits and sources of an answer were shown to the model.
SPECIFICATION Spec
CONSTANTS
    c1 = c1  c2 = c2  s1 = s1  a1 = a1  a2 = a2  q1 = q1  q2 = q2
    t1 = t1  t2 = t2  t3 = t3
    None = None
    Misfit = misfit
    Files = {1, 2}
    Contents = {a1, a2}
    Notes <- MCNotes
    Spaces = {s1}
    Cut <- MCCut
    Callers = {c1}
    Http = {c1}
    Space = s1
    Questions = {q1, q2}
    QuestionOf <- MCQuestionOf
    Distance <- MCDistance
    KsOf <- MCKsOf
    DefaultK = 1
    MaxK = 2
    Texts = {t1, t2, t3}
    Runes <- MCRunes
    Budget = 4
    MaxAttempts = 2
    Burst = 1
    Replies = {"ok", "short", "busy"}
    MaxWrites = 0
CHECK_DEADLOCK FALSE
INVARIANTS
    HitsWereShown
