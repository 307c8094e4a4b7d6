CONSTANTS
    Clients = {c1, c2}
    c1 = c1
    c2 = c2
    Subjects = {"s1", "s2"}
    Destinations = {"d"}
    StreamConfigs <- MCStreamConfigs
    StoreConfigs <- MCStoreConfigs
    NsPerSecond = 10
    MaxInt = 63
    MaxCalls = 4
    MaxMessages = 2
    MaxLost = 1
SPECIFICATION Spec
SYMMETRY Symmetry
CHECK_DEADLOCK FALSE
INVARIANTS TypeOK LookUpIsTrue LookUpCreatesOnlyWhatWasDeleted
PROPERTIES OnlyUpdateReconfigures InfoTellsTheConfig PurgeTakesOnlyWhatItNames DeleteTakesWhatWasRead
