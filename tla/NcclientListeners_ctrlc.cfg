CONSTANTS
    Roster <- MC_Roster
    MainThread = MainThread
    MaxNotifs = 1
    MaxFaults = 1
SPECIFICATION Spec
PROPERTY ListenerRunsUntilCancelled
CHECK_DEADLOCK FALSE
