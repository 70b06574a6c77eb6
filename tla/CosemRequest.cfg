CONSTANTS
    Requests <- TheRequests
    Summer = {2, 3}
SPECIFICATION Spec
INVARIANTS TypeOK UnderstoodAsMeant
CHECK_DEADLOCK FALSE
