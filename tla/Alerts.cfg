CONSTANTS
    u1 = u1
    u2 = u2
    CrmUsers = {u1, u2}
    Language <- Speaks
    MaxRows = 2
    NoAddress = {u2}
    Participants = {u1}
    Leaders = {u2}
    PageSize = 1
    MaxMessages = 2
    MaxFlight = 2
    MaxUses = 2
    MaxCrashes = 1
SPECIFICATION AlertsFair
CHECK_DEADLOCK FALSE
INVARIANTS
    AlertsSound
PROPERTIES
    AlertsKept
    AlertsGo
