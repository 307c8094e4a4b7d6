SPECIFICATION Spec
CONSTANTS
    c1 = c1
    c2 = c2
    n1 = n1
    n2 = n2
    o1 = o1
    o2 = o2
    o3 = o3
    oEmpty = oEmpty
    u1 = u1
    u2 = u2
    u3 = u3
    EmptyName = EmptyName
    EmptyUid = EmptyUid
    NoObject = NoObject
    Clients <- MCClients
    Names <- MCNames
    Objects <- MCObjects
    Uids <- MCUids
    NameOf <- MCNameOf
    UidOf <- MCFreshUidOf
    SizeOf <- MCSizeOf
    ChunkSize = 2
    FreshUids = TRUE
    Aging = FALSE
    MaxOps = 5
    MaxFailures = 2
    Absent = Absent
    NoData = NoData
SYMMETRY ClientSymmetry
CHECK_DEADLOCK FALSE
INVARIANTS
    TypeOK
    LiveIsReadable
PROPERTIES
    PublishedIsFrozen
    RemoveTouchesOnlyItsName
    IsAtomic
