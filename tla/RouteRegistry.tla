---------------------------- MODULE RouteRegistry ----------------------------
(***************************************************************************)
(* The in-memory registry of route manifests (neural_scalpel/route/        *)
(* registry.py, tenant.py and the checks of verifier.py it calls).  A      *)
(* manifest is abstracted to the facts the checks look at, which the       *)
(* constants give: whether registration accepts it, the tenant it is bound *)
(* to and whether it targets the running model.                            *)
(***************************************************************************)
EXTENDS FailurePolicy

CONSTANTS Routes,         \* route ids
          Tenants,        \* tenant ids
          NoTenant,       \* a manifest without a tenant_id
          RouteTenant,    \* [Routes -> Tenants \cup {NoTenant}]
          Registrable,    \* routes whose manifest passes every registration check
          Compatible      \* routes whose target_model_sha256 is the runtime's

VARIABLE statuses         \* registry.statuses; "ABSENT": not in registry.routes

\* The statuses the code ever assigns (DRAFT ... CANARY are declared, unused).
RouteStatus == {"ABSENT", "PRODUCTION", "REVOKED", "QUARANTINED"}

ASSUME TenantAssumption == RouteTenant \in [Routes -> Tenants \cup {NoTenant}]

\* register_route: every verification precedes the two writes; an exception
\* leaves the registry unmodified.
RegisterRoute(r) ==
    /\ r \in Registrable
    /\ statuses' = [statuses EXCEPT ![r] = "PRODUCTION"]

\* revoke_route: ValueError unless the route is registered.
RevokeRoute(r) ==
    /\ statuses[r] # "ABSENT"
    /\ statuses' = [statuses EXCEPT ![r] = "REVOKED"]

\* quarantine_route: ValueError unless the route is registered.
QuarantineRoute(r) ==
    /\ statuses[r] # "ABSENT"
    /\ statuses' = [statuses EXCEPT ![r] = "QUARANTINED"]

VerifyTenantAccess(r, tenant) == RouteTenant[r] \in {NoTenant, tenant}

\* get_verified_route returns the manifest; when this is false it raises.
GetVerifiedRoute(r, tenant) ==
    /\ statuses[r] \notin {"ABSENT", "REVOKED", "QUARANTINED"}
    /\ r \in Compatible
    /\ VerifyTenantAccess(r, tenant)

\* The registry as the components above it see it: what happens to the
\* status of a route.
RegistryInit == statuses = [r \in Routes |-> "ABSENT"]

RegistryNext == \E r \in Routes : RegisterRoute(r) \/ RevokeRoute(r) \/ QuarantineRoute(r)

RegistrySpec == RegistryInit /\ [][RegistryNext]_statuses

=============================================================================
