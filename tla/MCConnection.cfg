SPECIFICATION Spec
CONSTANTS
    a = a
    b = b
    onError = onError
    Callbacks <- MCCallbacks
    KindOf <- MCKindOf
    Options <- MCOptions
    MaxConnects = 2
    MaxEvents = 2
SYMMETRY Symmetry
CHECK_DEADLOCK FALSE
INVARIANTS
    TypeOK
    HandleFindsCallback
    FaultsHaveACause
    EveryReportIsHeard
    HeardIsTrue
