\* Aptos, Canton, Sui and TON: two batches each.
CONSTANTS
    Instances <- MCInstances
    ChunkSizeBytes = 2
    MaxStaged = 4
    Finalization = 2
    MaxBatches = 2
SPECIFICATION Spec
INVARIANT SuiCallsGetTheirObjects
INVARIANT TonCallsAreTimely
PROPERTY CantonWorkIsFinished
PROPERTY AptosWorkIsFinished
PROPERTY SuiWorkIsFinished
PROPERTY TonWorkIsFinished
CHECK_DEADLOCK FALSE
