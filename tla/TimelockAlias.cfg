CONSTANTS
    ethereum = ethereum
    arbitrum = arbitrum
    a = a
    b = b
    p1 = p1
    p2 = p2
    Chain = {ethereum}
    Calls = {a, b}
    ZeroHash = ZeroHash
    NoSalt = NoSalt
    ProposalId = {p1}
    InitProposal <- Twice
    Edits <- NoEdits
    NoProposal = NoProposal
    NotConverted = NotConverted
    NoExecutable = NoExecutable
    DefaultValidUntil = 3
    Derivations <- Cancellation
    MaxDerived = 1
    MaxTime = 3
SPECIFICATION Spec
INVARIANT DerivingLeavesTheOriginal
CHECK_DEADLOCK FALSE
