CONSTANTS
    Sdus = {s1, s2}
    None = None
    MaxResends = 1
    CountRange = 4
    Capacity = 3
    MaxFaults = 0
SPECIFICATION Spec
CHECK_DEADLOCK FALSE
INVARIANT OneQuestionOneAnswer
