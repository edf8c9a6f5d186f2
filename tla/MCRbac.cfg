CONSTANTS
    r1 = r1
    r2 = r2
    m1 = m1
    m2 = m2
    u1 = u1
    NoMenu = NoMenu
    NoTx = NoTx
    Nil = Nil
    Roles <- MCRoles
    Menus <- MCMenus
    Users <- MCUsers
    Parent <- MCParent
    DenyDeleteMenu = FALSE
    MaxTime = 3
    MaxWrites = 2
    MaxFaults = 1
SPECIFICATION Spec
INVARIANTS TypeOK
 
CHECK_DEADLOCK FALSE
