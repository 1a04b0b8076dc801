SPECIFICATION Spec
CONSTANTS
    v1 = v1
    v2 = v2
    k1 = k1
    k2 = k2
    k3 = k3
    n1 = n1
    n2 = n2
    n3 = n3
    t1 = t1
    Verbs = {v1}
    Keys = {k1, k2, k3}
    Names = {n1, n2, n3}
    Seeded <- OneAdmin
    Tokens = {t1}
    MaxId = 3
INVARIANTS TypeOK InviteUsedOnce
PROPERTIES OwnerRemains OperatorsNeedAnOwner
SYMMETRY Symmetry
