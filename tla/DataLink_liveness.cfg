CONSTANTS
    Sdus = {s1, s2}
    None = None
    MaxResends = 0
    CountRange = 4
    Capacity = 2
    MaxFaults = 1
SPECIFICATION FairSpec
CHECK_DEADLOCK FALSE
PROPERTIES EverySduIsAnswered LinkComesToRest
