SPECIFICATION Spec
CONSTANTS
    p1 = p1
    p2 = p2
    c1 = c1
    c2 = c2
    Byte <- Digits
    SumLen = 2
    NonceLen = 2
    Procs <- OneProc
    Commits <- TwoCommits
    Names <- OneName
    Produces <- SameBinary
    Toolchains = {"cargo"}
    Nonces <- OneNonce
    VerifyNonces <- WithoutNonce
    Digest <- MCDigest
    MaxRuns = 2
INVARIANTS
    ReformattedFails
CHECK_DEADLOCK FALSE
