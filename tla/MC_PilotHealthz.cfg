SPECIFICATION Spec
CONSTANTS
    rA = rA
    rB = rB
    acme = acme
    globex = globex
    Routes = {rA, rB}
    Tenants = {acme, globex}
    NoTenant = NoTenant
    RouteTenant <- MCRouteTenant
    Registrable = {rA, rB}
    Compatible = {rA}
    Clients = {c1, c2}
    Urls = {u1, u2}
    NoUrl = NoUrl
    Environments <- MCEnvironments
    MaxRequests = 3
INVARIANT HealthzWaitsForSelfTests
