SPECIFICATION VllmSpec
CONSTANTS
    a1 = a1
    a2 = a2
    base1 = base1
    e1 = e1
    rA = rA
    Base = Base
    EmptyId = EmptyId
    Requests = {a1, a2, base1, e1}
    RouteIds = {rA, Base, EmptyId}
    RouteOf <- MCRouteOf
    MaxRunning = 2
INVARIANTS BatchOfOneRoute EveryRequestOnce
PROPERTIES OrderWithinRoute ServedOrSkipped
