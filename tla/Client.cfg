CONSTANTS
    ann = ann
    sue = sue
    Guests = {ann, sue}
    FirstRole <- MCFirstRole
    MaxTasks = 2
    MaxBookings = 1
    NewRoles = {"SUPERADMIN"}
    MaxEvents = 1
    Nobody = Nobody
SPECIFICATION Spec
INVARIANTS
    TypeOK
    ShownUserIsSignedIn
    ForbiddenOnlyAfterRoleChange
    PopupsAreTrue
    OneGuardedHandler
    WizardKeepsItsBooking
PROPERTIES
    LoadingEnds
CHECK_DEADLOCK FALSE
