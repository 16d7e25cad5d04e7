CONSTANTS
    NoClient = NoClient
    Roster <- MC_TwoHosts
    Notifs <- MC_Notifs
    Marker <- MC_Marker
    MaxChunk = 8
    MaxFaults = 0
SPECIFICATION Spec
INVARIANT DeliveredAreNotifications
CHECK_DEADLOCK FALSE
