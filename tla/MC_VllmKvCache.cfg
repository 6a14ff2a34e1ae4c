SPECIFICATION KvSpec
CONSTANTS
    a1 = a1
    a2 = a2
    b1 = b1
    rA = rA
    rB = rB
    Base = Base
    EmptyId = EmptyId
    Requests = {a1, a2, b1}
    RouteIds = {rA, rB, Base, EmptyId}
    RouteOf <- MCRouteOf
    PromptOf <- MCPromptOf
    MaxRunning = 2
INVARIANT NoBlockAcrossRoutes
CHECK_DEADLOCK FALSE
