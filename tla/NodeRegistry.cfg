\* Two nodes that start from nothing, and every kind of writer of nodes/<id>.
\* The system may stop: once every node is registered or removed, nothing has to happen.
CONSTANTS
    n1 = n1
    n2 = n2
    Node = {n1, n2}
    Booted = {}
    Writers = {"publish", "rename", "join", "remove"}
    MaxFaults = 3
CHECK_DEADLOCK FALSE
SPECIFICATION RegSpec
INVARIANTS RegTypeOK  HiddenOnlyIfTakenAway
PROPERTIES DeadNodeForgotten LiveNodeListed
