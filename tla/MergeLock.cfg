\* Three contenders: kills, a slow merge, two hosts, disk faults.
SPECIFICATION LockFairSpec
CONSTANTS
    p1 = p1
    p2 = p2
    p3 = p3
    Procs = {p1, p2, p3}
    NoProc = NoProc
    HostOf <- TwoHosts
    Slow = {p1}
    Mortal = {p1, p2, p3}
    DiskFaults = TRUE
    MaxRetries = 2
INVARIANTS LockTypeOK ExclusionUnlessRobbed
PROPERTY CrashedHolderDoesNotBlock
CHECK_DEADLOCK FALSE
