SPECIFICATION FairSpec
CONSTANTS
    p1 = p1
    p2 = p2
    s1 = s1
    Posters <- TwoPosters
    Requests <- TwoRequests
    Subscribers <- OneSubscriber
    MpscCap = 1
    BcastCap = 1
    MaxLines = 0
    AttestEnabled = FALSE
INVARIANT OneBuildPerVM
PROPERTIES
    ImplementsOneShotBuild
    EveryStreamCompletes
CHECK_DEADLOCK FALSE
