CONSTANTS
    ethereum = ethereum
    arbitrum = arbitrum
    a = a
    b = b
    d = d
    e = e
    p1 = p1
    p2 = p2
    p3 = p3
    blob1 = blob1
    blob2 = blob2
    Chain = {ethereum}
    Signer = {1, 2, 3}
    Transaction = {a, b, d, e}
    Blob = {blob1}
    NumGroups = 4
    MaxDepth = 3
    MaxUint32 = 10
    NoRoot = NoRoot
    InitConfig <- AllNested
    ProposalId = {p1}
    InitFile <- SignedFile
    Predecessors <- NoPredecessors
    Reconfigurations <- RotateSigners
    ValidUntilEdits = {2}
    NoProposal = NoProposal
    NoExecutable = NoExecutable
    MaxTime = 2
    MaxSignatures = 2
    MaxPending = 1
    MaxRestarts = 1
    MaxLost = 0
SPECIFICATION Spec
INVARIANTS
    QuorumCheckPredictsSetRoot
    ConfigMeansWhatWasSet
    EqualConfigsAgree
CHECK_DEADLOCK FALSE
