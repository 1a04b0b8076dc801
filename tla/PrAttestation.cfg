SPECIFICATION Spec
CONSTANTS
    op = op
    adm = adm
    ra = ra
    k1 = k1
    k2 = k2
    hx = hx
    hy = hy
    hyx = hyx
    hx1 = hx1
    hz = hz
    x = x
    y = y
    z = z
    m = m
    NoHead = NoHead
    NoEnvelope = NoEnvelope
    NoRow = NoRow
    Clones = {op, adm}
    Operator = op
    Heads = {hx, hy, hyx, hx1, hz}
    Parent <- MCParent
    MaxMain = 1
    HeadEdit <- MCHeadEdit
    MainEdit <- MCMainEdit
    Activation = {z}
    Reviewers = {ra}
    Names <- MCNames
    ServerKeys = {k1, k2}
    FirstKey = k1
    Configs <- MCConfigs
    FirstHeads = {hx, hz}
    Guesses = {"into"}
    MaxReviews = 1
    MaxEvents = 3
INVARIANTS GreenIsReviewed GreenIsCounterSigned MintedIsAccepted
CHECK_DEADLOCK FALSE
