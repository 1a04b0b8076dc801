\* Two merges of one branch, which advances in between and brings a new
\* required reviewer: kills, overruns and failing resets.
SPECIFICATION Spec
CONSTANTS
    p1 = p1
    p2 = p2
    b1 = b1
    Procs = {p1, p2}
    NoProc = NoProc
    HostOf <- SameHost
    Slow = {p2}
    Mortal = {p1}
    DiskFaults = FALSE
    MaxRetries = 2
    Branches = {b1}
    NoBranch = NoBranch
    BranchOf <- OneBranch
    Adds <- Stricter
    Reviewers = {"security", "product"}
    Required = {"security"}
    V4 = TRUE
    ResetMayFail = TRUE
    MaxVersion = 2
INVARIANTS TypeOK StampDescribesMerge NothingUnsignedIsLeft
PROPERTY StampedMergesAreKept
CHECK_DEADLOCK FALSE
