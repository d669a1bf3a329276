CONSTANTS
    ethereum = ethereum
    arbitrum = arbitrum
    a = a
    b = b
    d = d
    e = e
    p1 = p1
    p2 = p2
    p3 = p3
    blob1 = blob1
    blob2 = blob2
    Chain = {ethereum}
    Signer = {1}
    Transaction = {a, b, d, e}
    Blob = {blob1}
    NumGroups = 4
    MaxDepth = 3
    MaxUint32 = 10
    NoRoot = NoRoot
    InitConfig <- AllOneOfOne
    ProposalId = {p1, p2, p3}
    InitFile <- QueueFiles
    Predecessors <- QueueOrder
    Reconfigurations = {}
    ValidUntilEdits = {}
    NoProposal = NoProposal
    NoExecutable = NoExecutable
    MaxTime = 1
    MaxSignatures = 1
    MaxPending = 1
    MaxRestarts = 1
    MaxLost = 1
SPECIFICATION FairSpec
INVARIANTS
    IInv
    QueuedProposalFits
PROPERTY RootIsWorkedOff
CHECK_DEADLOCK FALSE
