SPECIFICATION Spec
CONSTANTS
    root = root
    a1 = a1
    a2 = a2
    a2x = a2x
    b1 = b1
    b2 = b2
    a = a
    b = b
    f = f
    g = g
    s1 = s1
    s2 = s2
    NoCommit = NoCommit
    NoBranch = NoBranch
    Commits = {root, a1, a2, a2x, b1}
    Parent <- MCParent
    Line <- MCLine
    Tree <- MCTree
    Prompt <- MCPrompt
    Root = root
    Branches = {a, b}
    Files = {f, g}
    Contents = {0, 1, 2, 3}
    Prompts = {"prompt"}
    Bad <- MCBad
    Reviewers = {"r"}
    Backends = {"m"}
    OneShot = {}
    KeepsProse = {TRUE}
    ProseTtl = FALSE
    RawShas = FALSE
    Detached = {a2}
    Sessions = {s1, s2}
    MaxRows = 3
INVARIANTS TypeOK OpenGateIsClean OwnChangesOnly
CHECK_DEADLOCK FALSE
SYMMETRY Symmetry
