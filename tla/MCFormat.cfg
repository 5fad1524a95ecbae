CONSTANTS
    v1 = v1
    s1 = s1
    t1 = t1
    c1 = c1
    c2 = c2
    c3 = c3
    Volumes = {v1}
    Paths = {s1, t1}
    FsTypes = {"ext4", "xfs"}
    NodeCalls = {c1, c2, c3}
    NodeRequests <- StageAndUnstage
    InitialContents = {"blank"}
SPECIFICATION NodeSpec
PROPERTY StagedDiskIsNotFormatted
