SPECIFICATION Spec
CONSTANTS
    a = a
    b = b
    Requests <- MCRequests
    limit = 4
    max_body = 3
    RESERVE_STEP = 2
    MaxLen = 2
    MaxChunks = 3
    MaxPermits = 2
    MaxTunnels = 1
    MaxAttempts = 2
SYMMETRY Symmetry
INVARIANTS BudgetExact BodyInOrder OneOutcomePerAttempt WorkCounted
PROPERTIES OriginEndHonest
