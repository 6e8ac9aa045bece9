CONSTANTS
    Keys = {k1, k2, k3}
    MAX_NODES_PER_OPERATION = 2
    NonceBound = 1
    LossBound = 1
    StakeAmounts = {1}
    Fines = {1}
    FundsBound = 1
SPECIFICATION FundsSpec
INVARIANTS
    CallsOwnTheirNodes
    NodeStateMatchesAuction
    NodesInv
    OrphansOnlyByLoss
    EgldTravelsWithItsCall
PROPERTIES
    UnBondClockKept
    PendingResolves
    RefinesLending
