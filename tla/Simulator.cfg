CONSTANTS
    StreamLen = 4
    HeaderLen = 1
    ReadMax = 4
    MaxPacket = 4
    Workers = {w1, w2}
    Conn = c
    NoTask = NoTask
    None = None
    Garbage = Garbage
    Waits = {TRUE, FALSE}
SPECIFICATION SimFairSpec
INVARIANTS PacketsAreDisjoint OnlyFramesAreDelivered WholeFramesAreDelivered WaitingPeerHasOneHandler
PROPERTIES PacketsAreAnswered
CHECK_DEADLOCK FALSE
