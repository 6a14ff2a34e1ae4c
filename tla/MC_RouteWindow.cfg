SPECIFICATION Spec
CONSTANTS
    rA = rA
    rB = rB
    l1 = l1
    l2 = l2
    l3 = l3
    vllm = vllm
    Base = Base
    VllmTenant = vllm
    MaxVersion = 2
    MaxRestarts = 1
    Routes = {rA, rB}
    Tenants = {vllm}
    NoTenant = NoTenant
    RouteTenant <- MCTenant
    Registrable = {rA}
    Compatible = {rA, rB}
    Layers = {l1, l2, l3}
    RouteLayers <- MCRouteLayers
    Unfit <- MCUnfit
    Garbage = Garbage
    PayloadFaults = {"payload_sha256_mismatch"}
    RollbackFaults = {"rollback_checksum_mismatch", "rollback_exception"}
INVARIANTS WindowIsolation WindowConsistent
PROPERTY QuarantineEndsRepaired
