SPECIFICATION Spec
CONSTANTS
    MaxQueue = 2
    MaxBatch = 1
    OtlpTimeout = 1
    MaxSpans = 2
    DrainPeriod = 2
    ShutdownTimeout = 2
    CheckInterval = 1
    HealthyAfter = 1
    UnhealthyAfter = 2
INVARIANTS   SpansAccounted
PROPERTIES DrainWindowHeld Stops
