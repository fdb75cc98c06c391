CONSTANTS
    early = early
    again = again
    late = late
    room = room
    k1 = k1
    k2 = k2
    Requests <- MCTwoRequests
    NoRequest = NoRequest
    Rooms = {room}
    Room <- MCRoom
    CheckIn <- MCCheckIn
    CheckOut <- MCCheckOut
    Key <- MCKey
    Ops = {o1, o2}
    Interleave = TRUE
    MaxFaults = 0
    MaxSlow = 0
SPECIFICATION Spec
INVARIANTS
    NoDoubleBooking
CHECK_DEADLOCK FALSE
