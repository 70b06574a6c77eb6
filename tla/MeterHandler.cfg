CONSTANTS
    Workers = {w1, w2}
    Aarqs <- FewAarqs
    Apdus <- FewApdus
    MaxIc = 2
SPECIFICATION Spec
INVARIANTS TypeOK AloneIsAnsweredRight QuietState ChallengeIsConnecting
SYMMETRY Symmetric
CHECK_DEADLOCK FALSE
