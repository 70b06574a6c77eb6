\* Quarter of an hour 3, day 12, at most 4 rows, an int of 6 bits.
SPECIFICATION Spec
CONSTANTS
    Profiles <- MCProfiles
    DataTypes <- MCDataTypes
    EventCode = "eventcode"
    Word = 64
    Day = 12
    Zone = 4
    Now = 24
    MaxPoints = 4
    RandMax = 3
    Descriptors <- AllDescriptors
    Selections <- AllSelections
    ListItems <- SomeItems
    MaxList = 2
    ListLimit = 120
    AreaSize = 144
INVARIANT EveryDescriptorIsAnswered
CHECK_DEADLOCK FALSE
