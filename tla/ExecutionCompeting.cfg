CONSTANTS
    ethereum = ethereum
    arbitrum = arbitrum
    a = a
    b = b
    d = d
    e = e
    p1 = p1
    p2 = p2
    p3 = p3
    blob1 = blob1
    blob2 = blob2
    Chain = {ethereum, arbitrum}
    Signer = {1}
    Transaction = {a, b, d, e}
    Blob = {blob1}
    NumGroups = 4
    MaxDepth = 3
    MaxUint32 = 10
    NoRoot = NoRoot
    InitConfig <- AllOneOfOne
    ProposalId = {p1, p2}
    InitFile <- CompetingFiles
    Predecessors <- NoPredecessors
    Reconfigurations <- ClearRoot
    ValidUntilEdits = {}
    NoProposal = NoProposal
    NoExecutable = NoExecutable
    MaxTime = 2
    MaxSignatures = 1
    MaxPending = 2
    MaxRestarts = 0
    MaxLost = 0
SPECIFICATION Spec
INVARIANTS
    OpsRunInProposalOrder
    ExhaustedRootRanEverything
    AlwaysAnExecutableOp
PROPERTY ImplementsOrderedExecution
CHECK_DEADLOCK FALSE
