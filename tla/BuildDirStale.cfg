SPECIFICATION Spec
CONSTANTS
    p1 = p1
    p2 = p2
    c1 = c1
    c2 = c2
    Byte <- Digits
    SumLen = 2
    NonceLen = 2
    Procs <- OneProc
    Commits <- TwoCommits
    Names <- TwoNames
    Produces <- DropsBinary
    Toolchains = {"cargo"}
    Nonces <- OneNonce
    VerifyNonces = {}
    Digest <- MCDigest
    MaxRuns = 2
INVARIANTS
    ArtifactsFromCommit
CHECK_DEADLOCK FALSE
