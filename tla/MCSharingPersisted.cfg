SPECIFICATION Spec
CONSTANTS
    Requests <- MCRequests
    Responses <- MCResponses
    Policies <- MCPolicies
    MaxReloads = 0
INVARIANT NothingPersisted
