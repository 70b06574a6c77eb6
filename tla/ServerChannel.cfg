CONSTANTS
    Conns = {c1, c2}
    Replies = {m1, m2, m3}
    Empty = {m3}
    BlockLen = 2
    IdLimit = 1
    None = None
    Garbage = Garbage
    CopiedAtCall = FALSE
SPECIFICATION Spec
INVARIANTS TypeOK OneWriteInFlight NoStalledReply WireIsTheStream StoppedIsUnregistered
PROPERTIES OnlyOwnEntryRemoved
SYMMETRY Symmetric
CHECK_DEADLOCK FALSE
