SPECIFICATION Spec
CONSTANTS
    LastNum = 3
    Window = {2}
    Options = {meridian, other}
    Absent = Absent
    MaxUnreadable = 1
INVARIANTS
    InstalledMeansCopied
