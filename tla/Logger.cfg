CONSTANTS
    Threads = 2
    IdOf <- TwoIds
    Days = {1, 2}
    Sizes = {0, 2}
    MaxBuffer = 1
    MaxCalls = 2
    NoDay = NoDay
    NoTxn = NoTxn
    Limit = 1
    Recover = 0
    BatchMax = 2
    MaxGroups = 1
    PerPass = 1
SPECIFICATION FairSpec
INVARIANTS TypeOK StoredInOrder QueueIsBounded FilesKeepOrder
PROPERTIES MessagesAreStored
CHECK_DEADLOCK FALSE
