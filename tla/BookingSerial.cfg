CONSTANTS
    early = early
    again = again
    late = late
    room = room
    k1 = k1
    k2 = k2
    Requests <- MCRequests
    NoRequest = NoRequest
    Rooms = {room}
    Room <- MCRoom
    CheckIn <- MCCheckIn
    CheckOut <- MCCheckOut
    Key <- MCKey
    Ops = {o1, o2}
    Interleave = FALSE
    MaxFaults = 1
    MaxSlow = 0
SPECIFICATION Spec
INVARIANTS
    TypeOK
    NoDoubleBooking
    CreateLockExclusive
    PaymentAgrees
    RoomLockReleased
PROPERTIES
    ImplementsIdealBookings
SYMMETRY OpSymmetry
CHECK_DEADLOCK FALSE
