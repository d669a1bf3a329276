CONSTANTS
    Hash <- MCHash
    efficientHash <- MCEfficientHash
    LeafLists <- MCLeafLists
    Queries <- MCQueries
SPECIFICATION Spec
INVARIANTS
    IInv
    EveryLeafIsProvable
    OnlyLeavesAreProvable
    ProofIsLogarithmic
CHECK_DEADLOCK FALSE
