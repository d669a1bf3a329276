CONSTANTS
    ethereum = ethereum
    arbitrum = arbitrum
    a = a
    b = b
    p1 = p1
    p2 = p2
    Chain = {ethereum}
    Calls = {a, b}
    ZeroHash = ZeroHash
    NoSalt = NoSalt
    ProposalId = {p1, p2}
    InitProposal <- SameSecond
    Edits <- NoEdits
    NoProposal = NoProposal
    NotConverted = NotConverted
    NoExecutable = NoExecutable
    DefaultValidUntil = 3
    Derivations <- NoDerivation
    MaxDerived = 1
    MaxTime = 3
SPECIFICATION Spec
INVARIANT ScheduleIsNeverBlocked
CHECK_DEADLOCK FALSE
