\* Three batches, interrupted anywhere; a batch may have three files.
CONSTANTS
    core = core  edge = edge  ntp = ntp  aaa = aaa
    Content <- MCContent
    LinesOf <- MCLinesOf
    Batches <- MCBatches
    MaxBatchFiles = 3
    MaxBatches = 3
    MayFail = TRUE
    Idle = Idle
SPECIFICATION Spec
CHECK_DEADLOCK FALSE
INVARIANTS
    ChainAgreesWithTables
    StoredOnceAndWhole
    EveryFileAnswered

