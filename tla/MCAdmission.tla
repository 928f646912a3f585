---------------------------- MODULE MCAdmission ----------------------------
(* Three requests on two tiers; policies that raise and lower the ceiling of *)
(* one route, and drop the other route.                                      *)
EXTENDS Admission, TLC
CONSTANTS a, b, c

MCRequests == {a, b, c}
MCWeight == (a :> 1) @@ (b :> 2) @@ (c :> 1)
MCRouteOf == (a :> "x") @@ (b :> "x") @@ (c :> "y")
MCTierOf == (a :> "low") @@ (b :> "high") @@ (c :> "low")
MCRoutes == {"x", "y"}
MCTiers == {"high", "low"}

Policy(max, low, routes) ==
    [max |-> max, percent |-> ("high" :> 100) @@ ("low" :> low), routes |-> routes]
Wide == Policy(3, 70, ("x" :> 3) @@ ("y" :> 1))
Narrow == Policy(2, 20, ("x" :> 2))

MCConfigs == {Wide, Narrow}
=============================================================================
