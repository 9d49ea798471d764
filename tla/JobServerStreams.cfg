SPECIFICATION Spec
CONSTANTS
    p1 = p1
    p2 = p2
    s1 = s1
    Posters <- OnePoster
    Requests <- OneRequest
    Subscribers <- OneSubscriber
    MpscCap = 2
    BcastCap = 2
    MaxLines = 1
    AttestEnabled = TRUE
INVARIANTS
    TypeOK
    CompleteIsLast
    VerdictMatchesResult
    AttestEventsLogged
    NoGapInStream
    StreamEndsWithComplete
PROPERTY ResultAfterOk
CHECK_DEADLOCK FALSE
