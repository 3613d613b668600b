CONSTANTS
    n1 = n1
    n2 = n2
    i1 = i1
    q1 = q1
    Node = {n1, n2}
    Interval = {i1}
    Request = {q1}
    Scope = "node"
    MaxFaults = 1
    MaxToggles = 1
SPECIFICATION Spec
INVARIANTS TypeOK OneRunPerKey RunningMeansRunning
PROPERTIES  LocksRefine
