\* Two callers of one patch, two streams, one administrative change, one failed tick or restart.
CONSTANTS
    ann = ann
    bob = bob
    r1 = r1
    r2 = r2
    p1 = p1
    KeyHolders <- MCUsers
    Administered <- MCBob
    Filters <- MCNamed
    Subscribers <- MCBob
    Callers <- MCCallers
    Repos <- MCRepos
    Patches <- MCPatches
    RepoOf <- MCRepoOf
    Operators0 <- MCNobody
    Grants0 <- MCGrants
    PollLimit = 2
    Retention = 0
    MaxNow = 1
    MaxRow = 2
    MaxStreams = 2
    MaxEvents = 2
    MaxAdmin = 1
    MaxFaults = 1
SPECIFICATION EventsSpec
INVARIANTS
    EventsBelongToTheirPatch
    NewestStreamIsServed
PROPERTIES
    OnlyTheEntitledAreTold
    EventsReachTheStreams
CHECK_DEADLOCK FALSE
