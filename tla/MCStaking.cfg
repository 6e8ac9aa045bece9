CONSTANTS
    NumUsers = 2
    Payments = {1, 2}
    Withdrawals = {1, 2}
    Caps = {0, 1, 3}
    Fees = {0}
    Rewards = {}
    NodeStakes = {1}
    DustLimits = {2}
    GenesisStakes = {2}
    GasLimits = {1, 9}
    Switches = {"paused"}
    MinimumStakes = {1}
    UnBondPeriods = {1, 3}
    OwnerShare = 3000
    DepositBound = 3
    RewardBound = 0
    NonceBound = 1
    U64 = 4
    ExactBootstrapCap = FALSE
    CheckedDust = TRUE
SPECIFICATION Spec
INVARIANTS
    DelegationCapInvariant
PROPERTIES
    PaidOnlyWhenDue
    StakeMovesOnlyWithEGLD
    WithdrawableUntilPaid
    RefinesLedger
