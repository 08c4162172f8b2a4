SPECIFICATION Spec
CONSTANTS
    Names <- MCNames
    Ids <- MCIds
    Included <- MCIncluded
    Menus <- MCMenus
    SubOptions <- MCSubOptions
    Selections <- MCSelections
    Absent = Absent
    Torn = Torn
INVARIANTS
    RememberedWasLoaded
PROPERTIES
    ToolsAreNotRemembered
    DefaultIsLastBooted
