SPECIFICATION Spec
CONSTANTS
    Node = {n1, n2}
    Entry = {secret, container}
    Password = {p, q}
    Op = {o1, o2}
    MaxKeys = 3
    MaxFaults = 1
SYMMETRY Symmetry
CONSTRAINT SaysSomething
INVARIANTS TypeOK SettledIsRecoverable SessionSecretAgreed
