SPECIFICATION Spec
CONSTANTS
    p1 = p1
    p2 = p2
    c1 = c1
    c2 = c2
    Byte <- Digits
    SumLen = 2
    NonceLen = 2
    Procs <- TwoProcs
    Commits <- TwoCommits
    Names <- OneName
    Produces <- SameBinary
    Toolchains = {"cargo", "nix"}
    Nonces <- OneNonce
    VerifyNonces <- WithOrWithout
    Digest <- MCDigest
    MaxRuns = 2
SYMMETRY ProcSymmetry
INVARIANTS
    VerifiedIsAttested
CHECK_DEADLOCK FALSE
