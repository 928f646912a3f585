SPECIFICATION Spec
CONSTANTS
    r1 = r1
    r2 = r2
    Requests <- MCRequests
    N = 2
    HealthChecks = TRUE
    MaxEjected = 1
    Latencies = {0}
    Strategy = "least_loaded"
    Cycle = 2
    MaxAttempts = 2
SYMMETRY Symmetry
INVARIANTS InFlightExact
 
