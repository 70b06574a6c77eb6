CONSTANTS
    Workers = {w1}
    Aarqs <- AllAarqs
    Apdus <- AllApdus
    MaxIc = 5
SPECIFICATION Spec
INVARIANTS Pass4IsSealed
CHECK_DEADLOCK FALSE
