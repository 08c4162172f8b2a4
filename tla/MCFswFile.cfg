SPECIFICATION Spec
CONSTANTS
    LogBlock = 2
    Frags = 2
    NDirBlocks = 2
    IndCount = 2
    Files <- McFiles
    FileBytes <- TrueBytes
    PhysSize <- PhysBlocks
    Redundant <- OnArrays
    Uncovered <- TooMuchLost
    Lens = {1, 5, 20}
    Positions = {0, 3, 8}
    BadSets <- McBadSets
    ReadErrors = {"other"}
    Forks = {0}
    Word = 1048576
    BtrfsVolumes <- McVolumes
    RecoverSlots = 2
    MaxRun = 2
    Beyond = 0
INVARIANTS
    ReadReturnsFile
PROPERTIES
    ImplementsDnode
    PositionFollowsData
