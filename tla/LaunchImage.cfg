CONSTANTS
    PageSize = 2
    Cells <- MCCells
    ZeroCell <- Zero
    Foreign <- MCForeign
    Workloads <- MCWorkloads
    Disks <- MCDisks
    MaxVps = 2
    Top1M = 2
    LowMax = 2
    BlobBase = 26
    Top4G = 60
SPECIFICATION Spec
CHECK_DEADLOCK FALSE
INVARIANTS
    ImageTypeOK
    MeasuredExactly
    MeasuredInOrder
    InsertOvertakesOpenBatch
    BuildOutcome
    EveryPageOnce
    KernelRecovered
    DigestBindsInputs
    PassBindsDisk
    HonestAccepted
