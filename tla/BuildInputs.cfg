CONSTANTS
    Workloads <- MCWorkloads
    NameRank <- MCNameRank
    Repos <- MCRepos
    MaxEdits = 1
SPECIFICATION Spec
CHECK_DEADLOCK FALSE
INVARIANTS
    InputsTypeOK
    PathDepsRecorded
    RefusedExactly
    SameRootSameInputs
    ListedInOneOrder
    SubjectsAreStaged
