CONSTANTS
    d1 = d1
    d2 = d2
    n1 = n1
    n2 = n2
    GiB = 3
    DefaultVolumeSize = 14
    MinimumDiskSizeInGb = 5
    Bounds = {0, 13, 15, 16, 17, 18, 21}
    Names = {d1, d2}
    Instances = {n1}
    NodeIds = {n1, n2}
    AskedTypes = {"", "pd-standard"}
    Ranges <- MCRanges
SPECIFICATION FakeSpec
INVARIANTS
    FakeTypeOK
    FakeAcceptsRetry
    LimitHonoured
    ShortfallIsBounded
    RetryFindsOwnDisk
PROPERTY OthersStayAttached
