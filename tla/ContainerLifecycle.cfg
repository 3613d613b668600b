CONSTANTS
    a = a
    b = b
    q1 = q1
    q2 = q2
    Name = {a, b}
    Request = {q1, q2}
    MaxDocker = 5
    MaxRecords = 3
    MaxFaults = 2
    MaxRequests = 2
SPECIFICATION Safety
INVARIANTS TypeOK ConsistentAtRest RunningAtRest UpdateUndone BootRestores
PROPERTIES LocksRefine
CHECK_DEADLOCK FALSE
