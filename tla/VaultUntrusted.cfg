SPECIFICATION Spec
CONSTANTS
    Node = {n1, n2}
    Entry = {secret, container}
    Password = {p}
    Op = {o1}
    MaxKeys = 2
    MaxFaults = 0
INVARIANT NodesTrustEachOther
