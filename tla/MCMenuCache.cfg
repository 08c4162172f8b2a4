SPECIFICATION Spec
CONSTANTS
    Volumes <- MCVolumes
    Kind <- MCKind
    PathOrder <- MCPathOrder
    OcPath = "opencore"
    InitOrder <- MCInitOrder
    InitFiles <- MCInitFiles
    Orders <- MCOrders
    Builds = {1, 2}
    MaxStamp = 2
    MaxGen = 1
    MaxChanges = 2
    MaxFaults = 1
    NoFile = NoFile
    NoGuid = NoGuid
    MbrGuid = MbrGuid
INVARIANTS
    ServedIsTrue
    NoOpenCoreUnderOpenCore
PROPERTIES
    InvalidatedIsGone
    UnchangedLaunchHits
