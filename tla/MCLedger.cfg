CONSTANTS
    Payments <- MCPayments
    Caps <- MCCaps
    Rewards <- MCRewards
    Fines = {1}
    GenesisStakes = {2}
    DepositBound = 6
    RewardBound = 2
    FineBound = 1
    ExactBootstrapCap = TRUE
SPECIFICATION Spec
INVARIANTS
    TypeOK
    Solvency
    ActiveWithinCap
    NeverOverAndUnderstaked
    GlobalOpCanFinish
    IInv
PROPERTIES
    RefinesLending
