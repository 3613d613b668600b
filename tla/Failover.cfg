CONSTANTS
    n1 = n1
    n2 = n2
    n3 = n3
    c1 = c1
    t1 = t1
    t2 = t2
    None = None
    Node = {n1, n2}
    Booted = {n1, n2}
    Container = {c1}
    Tick = {t1, t2}
    Conf <- AnyNode
    Group <- NoGroups
    Capacity <- Alike
    Writers = {"delete"}
    MaxFaults = 2
SYMMETRY RunSymmetry
SPECIFICATION Safety
INVARIANTS TypeOK LockExcludes
PROPERTIES DeletedStaysDeleted
