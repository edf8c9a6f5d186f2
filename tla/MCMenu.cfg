CONSTANTS
    i1 = i1
    i2 = i2
    i3 = i3
    i4 = i4
    i5 = i5
    c1 = c1
    c2 = c2
    a1 = a1
    a2 = a2
    Root = Root
    Ids <- MCIds
    Codes <- MCCodes
    Handlers <- MCOneHandler
    Files <- MCFiles
    MaxOps = 5
    DenyDeleteMenu = FALSE
    IntoSubtree = FALSE
SPECIFICATION Spec
INVARIANTS TypeOK TreeConsistent UserMenusShown
PROPERTIES MenuRefinesTree
CHECK_DEADLOCK FALSE
