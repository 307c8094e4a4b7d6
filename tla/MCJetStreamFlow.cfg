SPECIFICATION Spec
CONSTANTS
    Payloads = {"p", "q"}
    Identified = {"p"}
    MaxAttempts = 2
    MaxPending = 1
    MaxLost = 1
    Batches = {2}
    MaxInbox = 1
    MaxAcks = 1
    Subscriptions <- SomeSubscriptions
INVARIANTS
    FlowTypeOK
    PublishedIsAccountedFor
    AcknowledgedIsNotSentAgain
PROPERTY EachStoredIsSettled
CHECK_DEADLOCK FALSE
