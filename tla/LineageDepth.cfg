SPECIFICATION LineageSpec
CONSTANTS
    g1 = g1
    g2 = g2
    g3 = g3
    k1 = k1
    k2 = k2
    Ingesters = {g1, g2, g3}
    Collectors = {k1, k2}
    Readers = {"r1"}
    Snapshots = {"s1", "s2", "s3", "s4"}
    SnapshotOf <- MCSnapshotOf
    ContentOf <- MCContentOf
    GeneratedAt <- MCGeneratedAt
    None = "none"
    MaxRetries = 1
    Graphs <- MCDepthGraphs
    Requests <- MCRequests
    MaxEdgeRows = 30
    EdgeReadsPerNode = 5
    MaxTableViewTasks = 2
    MaxProjectionPairs = 3
    NoNode = 0
    NoSnapshot = NoSnapshot
    Sides = {"walk"}
INVARIANT DepthCountsTables
CHECK_DEADLOCK FALSE
