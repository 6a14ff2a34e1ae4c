SPECIFICATION Spec
CONSTANTS
    Clients = {c1, c2, c3}
    Routes = {rA, rB, rC}
    MaxBatchSize = 2
    DrainTasks = {d1, d2}
    NoTask = NoTask
    ExecutorRaises = TRUE
    DrainStops = TRUE
INVARIANTS QueueKeysExact RequestInOnePlace
PROPERTIES FifoWithinRoute OldestRouteServed
