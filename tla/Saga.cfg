CONSTANTS
    guest = guest
    owner = owner
    beach = beach
    Users <- MCUsers
    Opening <- MCOpening
    Bookings = {beach}
    Guest <- MCGuest
    Owner <- MCOwner
    Amount <- MCAmount
    Workers = {w1, w2}
    NoWorker = NoWorker
    NoBooking = NoBooking
    MaxAttempts = 2
    MaxStalledCount = 1
    MaxFaults = 1
    MaxCrashes = 1
    MaxStalls = 1
    TopUps = {}
    TopUpUser <- MCNobody
    TopUpKey <- MCNobody
    TopUpAmount <- MCNothing
    Keys = {}
    Calls = {c1, c2}
    Sums <- MCSums
    MaxHeld = 2
    MaxHitches = 1
    MaxTroubles = 2
    Pausing <- MCPausing
    Prompt = TRUE
SPECIFICATION SagaSpec
INVARIANTS
    SagaTypeOK
    ConfirmedIsPaid
    FailedIsUnpaid
    NoticesAreTrue
    SettledTogether
    NoPaymentIsStranded
SYMMETRY SagaSymmetry
CHECK_DEADLOCK FALSE
