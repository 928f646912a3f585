SPECIFICATION Spec
CONSTANTS
    a = a
    b = b
    c = c
    Requests <- MCRequests
    Weight <- MCWeight
    MaxWeight = 2
    RouteOf <- MCRouteOf
    TierOf <- MCTierOf
    Routes <- MCRoutes
    Tiers <- MCTiers
    Configs <- MCConfigs
    MaxReloads = 2
    MaxMade = 3
INVARIANTS CeilingsHeld CountedOnEveryCeiling OneLimiterPerRoute 
PROPERTIES ResizeBeforeSwap
