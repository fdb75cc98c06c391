CONSTANTS
    grand = grand
    single = single
    Hotels = {grand}
    Rooms = {single}
    HotelOf <- MCHotelOf
    Viewers = {v1}
    NoList = NoList
    Requests = {q1, q2}
    NoTarget = NoTarget
    MaxFaults = 1
    WithScript = TRUE
SPECIFICATION Spec
INVARIANTS
    TypeOK
    CachedListIsCurrent
    NoOrphanRooms
PROPERTIES
    CacheConverges
    DeletedStaysDeleted
CHECK_DEADLOCK FALSE
