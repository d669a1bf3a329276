CONSTANTS
    ethereum = ethereum
    arbitrum = arbitrum
    a = a
    b = b
    p1 = p1
    p2 = p2
    Chain = {ethereum, arbitrum}
    Calls = {a, b}
    ZeroHash = ZeroHash
    NoSalt = NoSalt
    ProposalId = {p1}
    InitProposal <- Interleaved
    Edits <- LaterValidUntil
    NoProposal = NoProposal
    NotConverted = NotConverted
    NoExecutable = NoExecutable
    DefaultValidUntil = 1
    Derivations <- CancellationAndBypass
    MaxDerived = 1
    MaxTime = 2
SPECIFICATION FairSpec
INVARIANTS
    BatchesRunInOrder
    DelayIsHonoured
    ReadyMeansExecutable
    ScheduleIsNeverBlocked
    CancellationIsTotal
PROPERTIES
    CancellationTargetsSchedule
    ScheduledBatchIsSettled
CHECK_DEADLOCK FALSE
