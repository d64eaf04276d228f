\* Two requests of any kind race with each other, with the passes and with the end of the server.
\* The process ends; a request is sent at most once; services may never answer.
SPECIFICATION FairSpec
CONSTANTS
    r1 = r1  r2 = r2
    Requests = {r1, r2}
    HasToken = TRUE
    None = None
CHECK_DEADLOCK FALSE
INVARIANTS
    TypeOK
    OnePassAtATime
    AnswersTellOnePass
    NothingDroppedWithinGrace
PROPERTIES
    ServerStops
    ReindexBecomesPossible
    RequestsEnd
