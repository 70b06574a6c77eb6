CONSTANTS
    Sdus = {s1, s2}
    None = None
    MaxResends = 1
    CountRange = 4
    Capacity = 3
    MaxFaults = 1
SPECIFICATION Spec
CHECK_DEADLOCK FALSE
INVARIANTS TypeOK RepliesBelong NeverStuck
PROPERTIES GivesUpAfterAllTries ImplementsLinkService
