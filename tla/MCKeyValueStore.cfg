CONSTANTS
    c1 = c1
    c2 = c2
    k1 = k1
    Clients = {c1, c2}
    Keys = {k1}
    Histories = {0, 2}
    MaxCalls = 6
    MaxLost = 1
SPECIFICATION Spec
SYMMETRY Symmetry
CHECK_DEADLOCK FALSE
INVARIANTS TypeOK UpdateReplacesWhatWasRead CreateFindsNothing AcknowledgedOnce HistoryIsKept GetCreatesOnlyWhatWasDeleted
