CONSTANTS
    Workloads <- Changed
    NameRank <- MCNameRank
    Repos <- MCRepos
    MaxEdits = 0
SPECIFICATION Spec
CHECK_DEADLOCK FALSE
INVARIANT EqualRootsEqualInputs
