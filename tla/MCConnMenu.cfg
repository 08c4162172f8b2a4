SPECIFICATION Spec
CONSTANTS
    PageRows = 2
    MaxIdle = 3
    MaxEntries = 3
    Counts = {0, 3, 4}
    Timeouts <- MCTimeouts
    Savers <- MCSavers
    DirectSaver = 3
INVARIANTS
    SaverAfterQuiet
PROPERTIES
    UnattendedIsDefault
    WakeIsSwallowed
    ImplementsAutoBoot
    UnattendedBoots
CHECK_DEADLOCK FALSE
