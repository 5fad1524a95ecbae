CONSTANTS
    d1 = d1
    n1 = n1
    s1 = s1
    t1 = t1
    c1 = c1
    c2 = c2
    m1 = m1
    m2 = m2
    Nobody = Nobody
    Disks = {d1}
    Nodes = {n1}
    Calls = {c1, c2}
    Types = {"pd-standard"}
    InitialDisks <- Nothing
    GiB = 3
    DefaultVolumeSize = 14
    MinimumDiskSizeInGb = 5
    NodesOf <- MCNodesOf
    Requests <- MCRequests
    Volumes = {d1}
    Paths = {s1, t1}
    FsTypes = {"ext4"}
    NodeCalls = {m1, m2}
    NodeRequests <- MCNodeRequests
    InitialContents = {"blank"}
    Order <- MCOrder
    NodeOrder <- MCNodeOrder
    MaxMounts = 2
    MaxLeft = 1
    MaxLapses = 0
SYMMETRY Symmetry
SPECIFICATION LifeSpec
INVARIANTS
    LifeTypeOK
    ToldUpIsUp
    ToldDownIsDown
    NotFoundMeansNodeGone
PROPERTIES
    MountedDiskIsNotPulled
    StagedDataStays
