CONSTANTS
    s1 = s1
    s2 = s2
    s3 = s3
    s4 = s4
    s5 = s5
    NoClient = NoClient
    Roster <- MC_Roster
    Sessions <- MC_Sessions
    MaxFaults = 1
SPECIFICATION Spec
INVARIANT SupervisorNeverClosesInUse
