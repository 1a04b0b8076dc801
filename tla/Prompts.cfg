SPECIFICATION FairSpec
CONSTANTS
    r1 = r1
    LastCommit = 3
    Signed = {1, 3}
    Override = {1, 2}
    Reviews = {r1}
    MaxDeaths = 2
INVARIANTS TypeOK PromptsAreVerified
PROPERTIES CacheIsNotLost CatchesUp
