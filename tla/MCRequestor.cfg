SPECIFICATION FairSpec
CONSTANTS
    r1 = r1
    r2 = r2
    Requests <- MCRequests
    MaxReplies = 2
CHECK_DEADLOCK FALSE
INVARIANTS
    TypeOK
    FaultsHaveACause
    PromiseWaitsForAnswer
PROPERTIES
    AnsweredOnce
    FutureResolves
    SubscriptionEnds
