SPECIFICATION Spec
CONSTANTS
    a = a
    b = b
    onError = onError
    Callbacks <- MCCallbacks
    KindOf <- MCKindOf
    Options <- MCOptions
    MaxConnects = 2
    MaxEvents = 2
CHECK_DEADLOCK FALSE
INVARIANTS
    StatusIsTold
