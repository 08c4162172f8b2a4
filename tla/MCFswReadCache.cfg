SPECIFICATION Spec
CONSTANTS
    Handles = {h1, h2}
    Addrs = {a1, a2}
    Media = {m1, m2}
    NoMedium = NoMedium
    Failed = Failed
    NoAddr = NoAddr
    Window = 3
    BlockSizes = {1, 2}
    MediumEnd = 6
    BadSpots = {2}
    MaxBlock = 4
SYMMETRY Symmetry
PROPERTIES
    IsDisk
    ReadableBlockIsRead
