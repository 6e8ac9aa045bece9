CONSTANTS
    NumUsers = 2
    Payments = {2, 3}
    Withdrawals = {2}
    Caps = {5}
    Fees = {0}
    Rewards = {}
    NodeStakes = {}
    DustLimits = {}
    GenesisStakes = {}
    GasLimits = {1, 9}
    Switches = {}
    MinimumStakes = {2}
    UnBondPeriods = {0}
    OwnerShare = 0
    DepositBound = 5
    RewardBound = 0
    NonceBound = 0
    U64 = 4
    ExactBootstrapCap = FALSE
    CheckedDust = TRUE
SPECIFICATION Spec
INVARIANTS
    UserMinimumStake
