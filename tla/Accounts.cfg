CONSTANTS
    rita = rita
    rudi = rudi
    dev = dev
    Users = {rita, rudi, dev}
    EmailOf <- MCEmailOf
    Registrants = {rita, rudi}
    DevUsers = {dev}
    DevRole <- MCDevRole
    Ops = {o1, o2}
    NewRoles = {"USER"}
    Absent = Absent
    Devices = {phone}
    MaxFaults = 1
    MaxRepairs = 1
SPECIFICATION Spec
INVARIANTS
    TypeOK
    RegistrationStands
    AuditExplainsAccount
PROPERTIES
    ChangesAreDecided
    BlockTakesEffect
CHECK_DEADLOCK FALSE
