SPECIFICATION FairSpec
CONSTANTS
    r1 = r1
    Request = {r1, r2, r3}
    MaxConcurrent = 1
    MaxQueued = 1
    PoolSize = 1
    Isolation = {TRUE, FALSE}
    Kinds <- OneStream
PROPERTIES
    SlotIsReturned
    WaiterIsServed
