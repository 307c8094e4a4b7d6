SPECIFICATION Spec
CONSTANTS
    c1 = c1
    c2 = c2
    n1 = n1
    n2 = n2
    o1 = o1
    o2 = o2
    o3 = o3
    oEmpty = oEmpty
    u1 = u1
    u2 = u2
    u3 = u3
    EmptyName = EmptyName
    EmptyUid = EmptyUid
    NoObject = NoObject
    Clients <- MCOneClient
    Names <- MCNames
    Objects <- MCObjects
    Uids <- MCUids
    NameOf <- MCNameOf
    UidOf <- MCDefaultUidOf
    SizeOf <- MCSizeOf
    ChunkSize = 2
    FreshUids = FALSE
    Aging = FALSE
    MaxOps = 3
    MaxFailures = 0
CHECK_DEADLOCK FALSE
INVARIANTS
    SetReplaces
