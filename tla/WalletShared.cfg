CONSTANTS
    guest = guest
    owner = owner
    b1 = b1
    b2 = b2
    t1 = t1
    t2 = t2
    k1 = k1
    Users <- MCUsers
    Opening <- MCOpening
    Bookings <- MCBookings
    Guest <- MCGuest
    Owner <- MCOwner
    Amount <- MCAmount
    Workers = {w1, w2}
    NoWorker = NoWorker
    NoBooking = NoBooking
    MaxAttempts = 2
    MaxStalledCount = 1
    MaxFaults = 0
    MaxCrashes = 0
    MaxStalls = 0
    TopUps <- MCOneTopUp
    TopUpUser <- MCTopUpUser
    TopUpKey <- MCTopUpKey
    TopUpAmount <- MCTopUpAmount
    Keys <- MCKeys
SPECIFICATION FairSpec
INVARIANTS
    ChargedOnce
PROPERTIES
    ImplementsIdealPayments
