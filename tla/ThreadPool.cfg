CONSTANTS
    Workers = {w1, w2, w3}
    Tasks = {t1, t2, t3}
    NoTask = NoTask
    NoThread = NoThread
SPECIFICATION FairSpec
INVARIANTS TypeOK PopFindsTask NoLostNotification
PROPERTIES ImplementsWorkQueue TasksAreExecuted BusyWorkersExit
CHECK_DEADLOCK FALSE
