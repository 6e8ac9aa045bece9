CONSTANTS
    NumUsers = 2
    Payments = {1, 2}
    Withdrawals = {1}
    Caps = {2, 3}
    Fees = {0}
    Rewards = {}
    NodeStakes = {}
    DustLimits = {2}
    GenesisStakes = {}
    GasLimits = {1, 9}
    Switches = {}
    MinimumStakes = {1}
    UnBondPeriods = {0}
    OwnerShare = 0
    DepositBound = 3
    RewardBound = 0
    NonceBound = 0
    U64 = 4
    ExactBootstrapCap = FALSE
    CheckedDust = FALSE
SPECIFICATION Spec
INVARIANTS
    DelegationCapInvariant
