SPECIFICATION Spec
CONSTANTS
    r1 = r1
    Request = {r1, r2, r3, r4, r5}
    MaxConcurrent = 2
    MaxQueued = 2
    PoolSize = 1
    Isolation = {TRUE, FALSE}
    Kinds <- EveryMix
CONSTRAINT FewIsolated
SYMMETRY Symmetry
INVARIANTS
    SlotsAccountedFor
    WorkHoldsSlot
    NothingLeftBehind
PROPERTY ImplementsFairSlots
