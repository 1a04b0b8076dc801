SPECIFICATION Spec
CONSTANTS
    r1 = r1
    r2 = r2
    member = member
    d1 = d1
    pA = pA
    pB = pB
    k1 = k1
    k2 = k2
    Cut = Cut
    NoPrompt = NoPrompt
    NoKey = NoKey
    Calls = {r1, r2}
    Operators = {}
    Members = {member}
    Diffs = {d1}
    Prompts = {pA, pB}
    Keys = {k1, k2}
    FirstKey = k1
    FirstFiles <- MCFirstFiles
    MemberCap = 1
    Hour = 2
    Retention = 1
    MaxNow = 2
    MaxCalls = 2
    MaxEvents = 2
INVARIANTS WithinCap SaidByTheModel SignedUnderItsKey
PROPERTIES CallEnds
CHECK_DEADLOCK FALSE
