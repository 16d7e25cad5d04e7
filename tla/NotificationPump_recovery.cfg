CONSTANTS
    NoClient = NoClient
    Roster <- MC_TwoHosts
    Notifs <- MC_Notifs
    Marker <- MC_Marker
    MaxChunk = 8
    MaxFaults = 1
SPECIFICATION Spec
PROPERTY KeepsPumping
CHECK_DEADLOCK FALSE
