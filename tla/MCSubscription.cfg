CONSTANTS
    Kinds = {"core", "js", "watch", "sync", "jssync"}
    MaxMessages = 4
    Limits = {1, 2}
    Deletions = {2, 4}
SPECIFICATION Spec
CHECK_DEADLOCK FALSE
INVARIANTS TypeOK FaultsHaveACause EachOnceInOrder EventsAfterRegistrationAreSeen
