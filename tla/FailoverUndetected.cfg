CONSTANTS
    n1 = n1
    n2 = n2
    n3 = n3
    c1 = c1
    t1 = t1
    None = None
    Node = {n1, n2}
    Booted = {n1, n2}
    Container = {c1}
    Tick = {t1}
    Conf <- AnyNode
    Group <- NoGroups
    Capacity <- Alike
    Writers = {"publish"}
    MaxFaults = 1
SPECIFICATION Spec
PROPERTIES EveryOrphanRescheduled
