CONSTANTS
    Ids = {0, 1}
    Balances = {0, 1}
    Nonces = {0, 1}
    BLS_KEY_BYTE_LENGTH = 3
    BLS_SIGNATURE_BYTE_LENGTH = 2
SPECIFICATION Spec
INVARIANTS
    SavedIsFoundAgain
    ReportedStateIsStoredState
