SPECIFICATION Spec
CONSTANTS
    LastNum = 2
    Window = {1}
    Options = {linux, macos}
    Absent = Absent
    Nothing = Nothing
    MaxUnreadable = 1
INVARIANTS
    ResetIsComplete
    AskedIsStarted
    PendingOnlyAfterFailedReset
PROPERTIES
    SetUpKeepsOthers
