CONSTANTS
    d1 = d1
    n1 = n1
    n2 = n2
    c1 = c1
    c2 = c2
    c3 = c3
    Disks = {d1}
    Nodes = {n1, n2}
    Calls = {c1, c2, c3}
    Types = {"pd-standard", "pd-ssd"}
    InitialDisks <- Anything
    GiB = 3
    DefaultVolumeSize = 14
    MinimumDiskSizeInGb = 5
    NodesOf <- MCNodesOf
    Requests <- CastRequests
SYMMETRY Symmetry
SPECIFICATION CastSpec
INVARIANTS
    TypeOK
    OkIsEarned
    ErrorsAreTruthful
    AnswersAreFinal
PROPERTY ImplementsVolumeService
