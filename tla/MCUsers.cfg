CONSTANTS
    Addresses = {a1, a2, a3, a4}
    NoAddress = NoAddress
    MaxUsers = 4
    MaxArguments = 3
SPECIFICATION FairSpec
INVARIANTS
    IdsMatchAddresses
    WaitingListReadable
    UpdateCountsExact
PROPERTIES
    RegistrationIsFinal
    EverybodyGetsAddress
