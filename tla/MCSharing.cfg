SPECIFICATION Spec
CONSTANTS
    Requests <- MCRequests
    Responses <- MCResponses
    Policies <- MCPolicies
    MaxReloads = 1
INVARIANTS NeverShared OwnVariant PersonalIsDeclared
