SPECIFICATION Spec
CONSTANTS
    Images <- MCImages
    Addresses = {1, 2}
    LinkRounds = 5
    MaxNodes = 2
    MaxLost = 1
INVARIANTS
    NamesAreHeld
    LookupFindsFile
    ListingIsTheDirectory
