CONSTANTS
    NumUsers = 2
    Payments = {1, 2}
    Withdrawals = {1, 2}
    Caps = {1, 3}
    Fees = {0, 2500}
    Rewards = {1}
    NodeStakes = {1}
    DustLimits = {}
    GenesisStakes = {}
    GasLimits = {1, 9}
    Switches = {}
    MinimumStakes = {1}
    UnBondPeriods = {1}
    OwnerShare = 0
    DepositBound = 3
    RewardBound = 1
    NonceBound = 1
    U64 = 4
    ExactBootstrapCap = FALSE
    CheckedDust = TRUE
SPECIFICATION FairSpec
PROPERTIES
    GlobalOpCompletes
    DeferredIsPaid
