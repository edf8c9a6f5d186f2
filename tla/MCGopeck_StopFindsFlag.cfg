CONSTANTS
    n1 = n1
    n2 = n2
    p1 = p1
    p2 = p2
    None = None
    Nodes <- MCNodes
    NodeOrder <- MCNodeOrder
    Meta <- MCMeta
    Plans <- MCOnePlan
    Req <- MCReq
    AdminQuotas <- MCAdminQuotas
    MaxPeckTries <- MCOneTry
SPECIFICATION Spec
INVARIANT
    StopFindsFlag
CHECK_DEADLOCK FALSE
