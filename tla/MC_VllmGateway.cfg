SPECIFICATION Spec
CONSTANTS
    c1 = c1
    c2 = c2
    c3 = c3
    acme = acme
    Clients = {c1, c2, c3}
    Tenants = {acme}
    TenantOf <- MCTenantOf
    Routes = {rA, rB}
    NoRoute = NoRoute
    MaxBatchSize = 2
    Capacity = 2
    Rate = 1
    MaxTime = 1
INVARIANTS OwnAnswer WithinRate
PROPERTY EveryRequestAnswered
