SPECIFICATION Spec
CONSTANTS
    Sessions = {s1, s2}
    Branches = {"main", "side", "topic"}
    Default = "main"
    Tags = {"v1"}
    NoCommit = NoCommit
    NoTrailer = NoTrailer
    NoRule = NoRule
    Keys = {"srv", "adm", "op", "op2"}
    Reviewers = {"sec"}
    RepoIds = {"R"}
    Attributed = {"ai"}
    MaxOutages = 1
    Commits <- CommitSet
    Parents <- ParentsDef
    Ancestors <- AncestorsDef
    Chain <- ChainDef
    MergeBase <- MergeBaseDef
    Tree <- TreeDef
    Trailer <- TrailerDef
    Initial <- InitialDef
    Pushes <- PushesDef
INVARIANTS
    TypeOK
    TagsStayInHistory
    MirrorInSync
PROPERTIES
    ProtectedMovesAreVerified

SYMMETRY Symmetry
