SPECIFICATION Spec
CONSTANTS
    r1 = r1
    r2 = r2
    k1 = k1
    RouteIds = {r1, r2}
    Callers = {c1}
    Manifests <- MCManifests
    Payloads <- MCPayloads
    SecretKeys <- MCSecretKeys
    MaxPayloadBytes = 1
    Absent = Absent
    NoHash = NoHash
INVARIANTS RegistryHoldsSigned DeltasWellFormed UndisturbedPayloadExact
PROPERTIES ImplementsRegistry QuarantineHasCause
