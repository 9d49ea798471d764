SPECIFICATION Spec
CONSTANTS
    p1 = p1
    p2 = p2
    c1 = c1
    c2 = c2
    Byte <- Digits
    SumLen = 2
    NonceLen = 2
    Procs <- OneProc
    Commits <- TwoCommits
    Names <- TwoNames
    Produces <- DropsBinary
    Toolchains = {"cargo", "nix"}
    Nonces <- SomeNonces
    VerifyNonces = {}
    Digest <- MCDigest
    MaxRuns = 3
INVARIANTS
    TypeOK
    EvidenceBindsProvenance
    StagedIsListed
    AttestedDirVerifies
CHECK_DEADLOCK FALSE
