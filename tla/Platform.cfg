CONSTANTS
    MemNode = {1, 2, 3}
    Primary = 1
    MemMaxFaults = 2
    SessionRequest = {"q1", "q2"}
    MaxTokens = 3
    SessMaxFaults = 1
    Browser = {"b1", "b2"}
    MaxPerIp = 2
    EvMaxFaults = 1
    VNode = {1, 2, 3}
    Self = 3
    VipNodes = 2
    MaxChanges = 2
    VMaxFaults = 2
    Ctr = {"c1"}
    NoCtr = "none"
    NMaxEdits = 2
    NMaxFaults = 1
    BNode = {"n1", "n2"}
    Rec = {"r1"}
    Last = 2
    MaxWrites = 1
    BMaxFaults = 1
    TaskRun = {"x1", "x2"}
    Secret = {"s1", "s2"}
    TMaxFaults = 2
SPECIFICATION Platform
INVARIANTS
    PlatformTypeOK JoinKeepsQuorum  OneTokenPerSession EndedStaysEnded
     MigrationsHold  
PROPERTIES
     JoinCompletes ProxyReturns   BootCompletes
CHECK_DEADLOCK FALSE
