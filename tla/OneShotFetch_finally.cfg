CONSTANTS
    Roster <- MC_Roster
SPECIFICATION Spec
INVARIANT NoSessionOutlivesTask
CHECK_DEADLOCK FALSE
