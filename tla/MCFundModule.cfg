CONSTANTS
    NumUsers = 2
    Amounts = {1, 2, 3}
    DustLimits = {2}
    GasLimits = {1, 3}
    UnBondBlocks = 1
    NonceBound = 1
    MAX_AFFECTED_USERS = 2
    DepositBound = 3
    MaxId = 5
    U64 = 4
    CheckedDust = TRUE
SPECIFICATION Spec
INVARIANTS
    TypeOK
    ListsConsistent
    SpentItemsRemoved
    DryRunPredictsSwap
    UnBondPaysUnBondable
    ListViewsForetell
PROPERTIES
    RefinesFundQueues
