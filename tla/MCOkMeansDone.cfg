CONSTANTS
    d1 = d1
    n1 = n1
    n2 = n2
    c1 = c1
    c2 = c2
    c3 = c3
    Disks = {d1}
    Nodes = {n1, n2}
    Calls = {c1}
    Types = {"pd-standard", "pd-ssd"}
    InitialDisks <- Small
    GiB = 3
    DefaultVolumeSize = 14
    MinimumDiskSizeInGb = 5
    NodesOf <- NarrowZone
    Requests <- OnePublish
SPECIFICATION Spec
INVARIANT OkMeansDone
