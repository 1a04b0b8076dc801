\* Three reviewers for two seats: bob may lose connections, die and restart, and posts as an
\* extra when the seats are full; dan died with a claim under way.
CONSTANTS
    ann = ann
    bob = bob
    cas = cas
    dan = dan
    none = none
    Users <- MCThree
    NoUser = none
    Author = ann
    Ttl = 0
    Always <- MCOnlyBob
    Mortal <- MCOnlyBob
    Gone <- MCOnlyDan
    Flaky <- MCOnlyBob
    MaxAsks = 1
SPECIFICATION FairSpec
INVARIANTS
    TypeOK
    SeatIsBacked
    IndependentReviewers
PROPERTIES
    UnusedSeatIsFreed
    LiveSeatIsKept
    KeepsPromise
CHECK_DEADLOCK FALSE
