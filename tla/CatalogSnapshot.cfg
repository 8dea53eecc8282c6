SPECIFICATION Spec
CONSTANTS
    Issuers = {i1, i2}
    Readers = {r1, r2}
    None = None
    NumFacts = 2
    Values = {a, b}
    Denied = Denied
    MaxSnapshots = 1
    MaxBytes = 2
    Sizes = {1}
    TTLs = {1}
    CaptureTimeout = 1
    Skews <- MCSkews
    MaxTime = 1
    MaxChanges = 1
    MaxIds = 2
SYMMETRY MCSymmetry
INVARIANTS NoOrphan ServedIsCurrent
PROPERTY NeverRevived
CHECK_DEADLOCK FALSE
