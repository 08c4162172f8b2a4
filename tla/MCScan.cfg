\* A loader freed twice ends the program: it may stop.
CHECK_DEADLOCK FALSE
SPECIFICATION Spec
CONSTANTS
    Machines <- MCMachines
    Settings <- MCSettings
    Launches <- MCLaunches
    AlsoScanDirs <- MCAlsoScan
    OwnLoader <- MCOwnLoader
INVARIANTS
    NothingIsLost
    NothingTwice
    NewestKernelFirst
    SameDisksSameMenu
