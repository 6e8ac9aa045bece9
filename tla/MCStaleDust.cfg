CONSTANTS
    NumUsers = 2
    Amounts = {1, 2}
    DustLimits = {2}
    GasLimits = {1, 2}
    UnBondBlocks = 1
    NonceBound = 1
    MAX_AFFECTED_USERS = 2
    DepositBound = 4
    MaxId = 5
    U64 = 4
    CheckedDust = FALSE
SPECIFICATION Spec
INVARIANTS
    ListsConsistent
