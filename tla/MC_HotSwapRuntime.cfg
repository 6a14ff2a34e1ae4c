SPECIFICATION Spec
CONSTANTS
    t1 = t1
    t2 = t2
    rA = rA
    rB = rB
    l1 = l1
    l2 = l2
    l3 = l3
    acme = acme
    globex = globex
    Threads = {t1, t2}
    NoThread = NoThread
    Routes = {rA, rB}
    Tenants = {acme, globex}
    NoTenant = NoTenant
    RouteTenant <- MCTenant
    Registrable = {rA, rB}
    Compatible = {rA, rB}
    Layers = {l1, l2, l3}
    RouteLayers <- MCRouteLayers
    Unfit <- MCFit
    Garbage = Garbage
    PayloadFaults = {"payload_sha256_mismatch", "payload_too_large"}
    RollbackFaults = {"rollback_checksum_mismatch", "rollback_exception"}
INVARIANTS TypeOK ForwardIsolation LeaveNoTrace GoldenSnapshots
PROPERTY LockHolderFinishes
