SPECIFICATION Spec
CONSTANTS
    None = None
    k1 = k1
    k2 = k2
    k3 = k3
    file = file
    tree = tree
    b1 = b1
    b2 = b2
    Builders <- MCBuilders
    Keys <- MCKeys
    Out <- MCOut
    Trees = {tree}
SYMMETRY Alike
CHECK_DEADLOCK FALSE
INVARIANTS
    TypeOK
    RivalsLeaveWholeFiles
PROPERTIES
    ImplementsCache
