-------------------------- MODULE AdmissionProofs --------------------------
(***************************************************************************)
(* Proofs about admission control, for any requests, routes, tiers and     *)
(* policies, any number of reloads and any interleaving of them with the   *)
(* requests.                                                               *)
(***************************************************************************)
EXTENDS Admission, FiniteSetTheorems, TLAPS

Stages == {"idle", "arrived", "route", "tier", "global", "admitted", "dropping"}

AdmissionType ==
    /\ limit \in [Names -> Nat] /\ debt \in [Names -> Nat]
    /\ made \in [Routes -> 0 .. MaxMade] /\ registry \in [Routes -> 0 .. MaxMade]
    /\ \A x \in Routes : registry[x] <= made[x]
    /\ config \in Configs /\ next \in Configs
    /\ stage \in [Requests -> Stages] /\ policy \in [Requests -> Configs]
    /\ mine \in [Requests -> 0 .. MaxMade] /\ holds \in [Requests -> SUBSET Names]
    /\ \A r \in Requests : mine[r] <= made[RouteOf[r]]
    /\ reload \in {"none", "global", "tiers", "routes", "store"}
    /\ reload = "tiers" => todo \subseteq Tiers
    /\ reload = "routes" => todo \subseteq DOMAIN next.routes

RoutePermit(r) == IF mine[r] = 0 THEN {} ELSE {<<RouteOf[r], mine[r]>>}
TierPermit(r) == <<TierOf[r], 0>>

\* What a request may hold follows from where it stands.
HoldsByStage ==
    \A r \in Requests :
        /\ stage[r] \in {"idle", "arrived"} => mine[r] = 0
        /\ stage[r] = "route" => mine[r] # 0
        /\ stage[r] \in {"idle", "arrived", "route"} => holds[r] = {}
        /\ stage[r] = "tier" => holds[r] = RoutePermit(r)
        /\ stage[r] = "global" => holds[r] = RoutePermit(r) \cup {TierPermit(r)}
        /\ holds[r] \in {{}, RoutePermit(r), RoutePermit(r) \cup {TierPermit(r)},
                         RoutePermit(r) \cup {TierPermit(r), Global}}

\* Every limiter a request may be charged to could admit it alone.
LimitersFit ==
    \A r \in Requests :
        /\ Weight[r] <= limit[Global] /\ Weight[r] <= limit[TierPermit(r)]
        /\ \A k \in 1 .. made[RouteOf[r]] : Weight[r] <= limit[<<RouteOf[r], k>>]

\* A route that no policy drops has one limiter for good.
KeptHaveOne == \A x \in Routes : KeptByAll(x) => registry[x] = 1 /\ made[x] = 1

RouteApplied(x, c) == registry[x] # 0 /\ limit[<<x, registry[x]>>] = c.routes[x]

\* How much of the next policy is in force at each phase of a reload.
AppliedByPhase ==
    /\ reload = "none" => InForce(config)
    /\ reload = "tiers" =>
          /\ limit[Global] = Configured(Global, next)
          /\ \A t \in Tiers \ todo : limit[<<t, 0>>] = Configured(<<t, 0>>, next)
    /\ reload = "routes" =>
          /\ \A l \in Shared : limit[l] = Configured(l, next)
          /\ \A x \in DOMAIN next.routes \ todo : RouteApplied(x, next)
    /\ reload = "store" => InForce(next)

AdmissionInv ==
    /\ AdmissionType /\ HoldsByStage /\ CeilingsHeld
    /\ LimitersFit /\ KeptHaveOne /\ AppliedByPhase
-----------------------------------------------------------------------------
(* Helpers                                                                 *)

\* min() and max() of two counts.
LEMMA MinOfTwo ==
    ASSUME NEW x \in Nat, NEW y \in Nat
    PROVE  Min({x, y}) \in Nat /\ Min({x, y}) <= x /\ Min({x, y}) <= y
<1>1. \E z \in {x, y} : \A w \in {x, y} : z =< w
  <2>1. CASE x <= y
    BY <2>1
  <2>2. CASE y <= x
    BY <2>2
  <2>. QED
    BY <2>1, <2>2
<1>. QED
  BY <1>1 DEF Min

LEMMA MaxOfTwo ==
    ASSUME NEW x \in Nat, NEW y \in Nat
    PROVE  Max({x, y}) \in Nat
<1>1. \E z \in {x, y} : \A w \in {x, y} : z >= w
  <2>1. CASE x <= y
    BY <2>1
  <2>2. CASE y <= x
    BY <2>2
  <2>. QED
    BY <2>1, <2>2
<1>. QED
  BY <1>1 DEF Max

\* The limiters of the process, the tiers and the routes are all different.
LEMMA NameFacts ==
    /\ Global \in Shared /\ Shared \subseteq Names
    /\ \A t \in Tiers : <<t, 0>> \in Shared /\ <<t, 0>> # Global
    /\ \A l \in Shared : l = Global \/ \E t \in Tiers : l = <<t, 0>>
    /\ \A x \in Routes : \A k \in 1 .. MaxMade : <<x, k>> \in Names \ Shared
BY AdmissionAssumption DEF Global, Shared, Names

LEMMA ConstantFacts ==
    /\ \A r \in Requests : /\ RouteOf[r] \in Routes /\ TierOf[r] \in Tiers
                           /\ Weight[r] \in Nat /\ Weight[r] >= 1 /\ Weight[r] <= MaxWeight
    /\ \A c \in Configs : /\ DOMAIN c.routes \subseteq Routes
                          /\ \A x \in DOMAIN c.routes : c.routes[x] \in Nat
BY AdmissionAssumption

\* The ceilings of a policy are numbers.
LEMMA ConfiguredType ==
    ASSUME NEW c \in Configs, NEW l \in Shared
    PROVE  Configured(l, c) \in Nat
<1>1. CASE l = Global
  BY <1>1, AdmissionAssumption DEF Configured
<1>2. ASSUME NEW t \in Tiers, l = <<t, 0>> PROVE Configured(l, c) \in Nat
  <2>1. c.max \in Nat /\ c.percent[t] \in Nat
    BY AdmissionAssumption
  <2>2. c.max * c.percent[t] \in Nat
    BY <2>1
  <2>3. (c.max * c.percent[t]) \div 100 \in Nat
    BY <2>2
  <2>4. TierCeiling(c.max, c.percent[t]) \in Nat
    BY <2>3, MaxOfTwo DEF TierCeiling
  <2>. QED
    BY <1>2, <2>4, NameFacts DEF Configured
<1>. QED
  BY <1>1, <1>2, NameFacts

\* What check_route_weight accepts fits the ceilings the controller works out.
LEMMA WeightsFit ==
    ASSUME NEW c \in Configs, NEW r \in Requests
    PROVE  /\ Weight[r] <= Configured(Global, c) /\ Weight[r] <= Configured(TierPermit(r), c)
           /\ RouteOf[r] \in DOMAIN c.routes => Weight[r] <= c.routes[RouteOf[r]]
<1>1. WeightFits(r, c)
  BY WeightAssumption
<1>2. TierPermit(r) # Global /\ TierPermit(r)[1] = TierOf[r]
  BY ConstantFacts, NameFacts DEF TierPermit
<1>3. Configured(TierPermit(r), c) = Max({(c.max * c.percent[TierOf[r]]) \div 100, 1})
  BY <1>2 DEF Configured, TierCeiling
<1>. QED
  BY <1>1, <1>3 DEF WeightFits, Configured

\* The units of one limiter in use when requests hold what h says.
UnitsOn(l, h) == {u \in Requests \X (1 .. MaxWeight) : l \in h[u[1]] /\ u[2] <= Weight[u[1]]}

LEMMA UnitsFinite ==
    ASSUME NEW l, NEW h
    PROVE  IsFiniteSet(UnitsOn(l, h)) /\ Cardinality(UnitsOn(l, h)) \in Nat
<1>1. IsFiniteSet(Requests) /\ IsFiniteSet(1 .. MaxWeight)
  BY AdmissionAssumption, FS_Interval
<1>2. IsFiniteSet(Requests \X (1 .. MaxWeight))
  BY <1>1, FS_Product, Zenon
<1>3. IsFiniteSet(UnitsOn(l, h))
  BY <1>2, FS_Subset DEF UnitsOn
<1>. QED
  BY <1>3, FS_CardinalityType

\* A request that takes or drops a permit changes the load by its weight.
LEMMA UnitsTaken ==
    ASSUME NEW l, NEW r \in Requests, NEW h, NEW g,
           l \notin h[r], l \in g[r], \A q \in Requests \ {r} : l \in g[q] <=> l \in h[q]
    PROVE  Cardinality(UnitsOn(l, g)) = Cardinality(UnitsOn(l, h)) + Weight[r]
<1>. DEFINE Mine == {r} \X (1 .. Weight[r])
<1>1. UnitsOn(l, g) = UnitsOn(l, h) \cup Mine /\ UnitsOn(l, h) \cap Mine = {}
  BY ConstantFacts, AdmissionAssumption DEF UnitsOn
<1>2. IsFiniteSet(Mine) /\ Cardinality(Mine) = Weight[r]
  <2>1. IsFiniteSet({r}) /\ Cardinality({r}) = 1
    BY FS_Singleton
  <2>2. IsFiniteSet(1 .. Weight[r]) /\ Cardinality(1 .. Weight[r]) = Weight[r]
    BY ConstantFacts, FS_Interval
  <2>3. IsFiniteSet(Mine) /\ Cardinality(Mine) = Cardinality({r}) * Cardinality(1 .. Weight[r])
    BY <2>1, <2>2, FS_Product, Zenon
  <2>. QED
    BY <2>1, <2>2, <2>3, ConstantFacts
<1>. HIDE DEF Mine
<1>3. Cardinality(UnitsOn(l, h) \cup Mine) =
        Cardinality(UnitsOn(l, h)) + Cardinality(Mine) - Cardinality(UnitsOn(l, h) \cap Mine)
  BY <1>2, UnitsFinite, FS_Union
<1>4. Cardinality(UnitsOn(l, h) \cap Mine) = 0
  BY <1>1, FS_EmptySet
<1>. QED
  BY <1>1, <1>2, <1>3, <1>4, UnitsFinite, ConstantFacts

\* Who does not change who holds a limiter does not change its load.
LEMMA UnitsSame ==
    ASSUME NEW l, NEW h, NEW g, \A q \in Requests : l \in g[q] <=> l \in h[q]
    PROVE  UnitsOn(l, g) = UnitsOn(l, h)
BY DEF UnitsOn

LEMMA LoadIs == \A l : Load(l) = Cardinality(UnitsOn(l, holds))
BY DEF Load, UnitsOn
-----------------------------------------------------------------------------
(* What steps do to limiters                                               *)

\* A policy creates the limiter of a route that has none registered.
Created == \E c \in Configs : \E x \in DOMAIN c.routes : registry[x] = 0 /\ Make(x, c.routes[x])

\* A reload resizes the global ceiling, a tier or a registered route.
ResizedShared ==
    /\ \E c \in Configs, l \in Shared : ResizeTo(l, Configured(l, c))
    /\ UNCHANGED <<made, registry>>
ResizedRoute ==
    /\ \E c \in Configs : \E x \in DOMAIN c.routes :
          registry[x] # 0 /\ ResizeTo(<<x, registry[x]>>, c.routes[x])
    /\ UNCHANGED <<made, registry>>

LEMMA MakeFacts ==
    ASSUME AdmissionType, NEW x \in Routes, NEW max \in Nat, Make(x, max)
    PROVE  /\ made[x] + 1 \in 1 .. MaxMade /\ <<x, made[x] + 1>> \in Names \ Shared
           /\ limit' \in [Names -> Nat] /\ debt' = debt
           /\ made' \in [Routes -> 0 .. MaxMade] /\ registry' \in [Routes -> 0 .. MaxMade]
           /\ \A y \in Routes : registry'[y] <= made'[y] /\ made[y] <= made'[y]
           /\ \A y \in Routes \ {x} : registry'[y] = registry[y] /\ made'[y] = made[y]
           /\ registry'[x] = made[x] + 1 /\ made'[x] = made[x] + 1
           /\ limit'[<<x, made[x] + 1>>] = max
           /\ \A l \in Names \ {<<x, made[x] + 1>>} : limit'[l] = limit[l]
<1>1. made[x] \in Nat /\ made[x] + 1 \in 1 .. MaxMade
  BY AdmissionAssumption DEF AdmissionType, Make
<1>2. <<x, made[x] + 1>> \in Names \ Shared
  BY <1>1, NameFacts
<1>3. /\ limit' \in [Names -> Nat] /\ debt' = debt /\ limit'[<<x, made[x] + 1>>] = max
      /\ \A l \in Names \ {<<x, made[x] + 1>>} : limit'[l] = limit[l]
  BY <1>2 DEF Make, AdmissionType
<1>4. /\ made' = [made EXCEPT ![x] = made[x] + 1] /\ registry' = [registry EXCEPT ![x] = made[x] + 1]
      /\ made \in [Routes -> 0 .. MaxMade] /\ registry \in [Routes -> 0 .. MaxMade]
      /\ \A y \in Routes : registry[y] <= made[y]
  BY DEF Make, AdmissionType
<1>5. made' \in [Routes -> 0 .. MaxMade] /\ registry' \in [Routes -> 0 .. MaxMade]
  BY <1>1, <1>4
<1>6. /\ \A y \in Routes \ {x} : registry'[y] = registry[y] /\ made'[y] = made[y]
      /\ registry'[x] = made[x] + 1 /\ made'[x] = made[x] + 1
  BY <1>4
<1>7. \A y \in Routes : registry'[y] <= made'[y] /\ made[y] <= made'[y]
  <2>. SUFFICES ASSUME NEW y \in Routes PROVE registry'[y] <= made'[y] /\ made[y] <= made'[y]
    OBVIOUS
  <2>1. made[y] \in Nat /\ registry[y] <= made[y]
    BY <1>4, AdmissionAssumption
  <2>. QED
    BY <1>1, <1>6, <2>1
<1>. QED
  BY <1>1, <1>2, <1>3, <1>5, <1>6, <1>7

LEMMA ResizeFacts ==
    ASSUME AdmissionType, CeilingsHeld, NEW l \in Names, NEW n \in Nat, ResizeTo(l, n), holds' = holds
    PROVE  /\ limit' \in [Names -> Nat] /\ debt' \in [Names -> Nat] /\ limit'[l] = n
           /\ \A m \in Names \ {l} : limit'[m] = limit[m] /\ debt'[m] = debt[m]
           /\ CeilingsHeld'
<1>1. /\ limit \in [Names -> Nat] /\ debt \in [Names -> Nat]
      /\ limit[l] \in Nat /\ debt[l] \in Nat
  BY DEF AdmissionType
<1>2. limit' = [limit EXCEPT ![l] = n]
  BY DEF ResizeTo
<1>3. Load(l) \in Nat /\ Load(l) <= limit[l] + debt[l]
  BY LoadIs, UnitsFinite DEF CeilingsHeld
<1>4. PICK d \in Nat : debt' = [debt EXCEPT ![l] = d] /\ Load(l) <= n + d
  <2>1. CASE n >= limit[l] /\ debt' = [debt EXCEPT ![l] = @ - Min({@, n - limit[l]})]
    <3>. DEFINE k == Min({debt[l], n - limit[l]})
    <3>1. n - limit[l] \in Nat
      BY <1>1, <2>1
    <3>2. k \in Nat /\ k <= debt[l] /\ k <= n - limit[l]
      BY <1>1, <3>1, MinOfTwo
    <3>3. debt' = [debt EXCEPT ![l] = debt[l] - k]
      BY <2>1
    <3>. HIDE DEF k
    <3>4. debt[l] - k \in Nat /\ Load(l) <= n + (debt[l] - k)
      BY <1>1, <1>3, <3>2
    <3>. QED
      BY <3>3, <3>4
  <2>2. CASE /\ n < limit[l]
             /\ \E forgotten \in 0 .. Min({Room(l), limit[l] - n}) :
                   debt' = [debt EXCEPT ![l] = @ + (limit[l] - n - forgotten)]
    <3>1. Room(l) \in Nat /\ limit[l] - n \in Nat /\ Room(l) = limit[l] + debt[l] - Load(l)
      BY <1>1, <1>3, <2>2 DEF Room
    <3>2. /\ Min({Room(l), limit[l] - n}) \in Nat
          /\ Min({Room(l), limit[l] - n}) <= Room(l) /\ Min({Room(l), limit[l] - n}) <= limit[l] - n
      BY <3>1, MinOfTwo
    <3>3. PICK f \in 0 .. Min({Room(l), limit[l] - n}) :
            debt' = [debt EXCEPT ![l] = debt[l] + (limit[l] - n - f)]
      BY <2>2
    <3>4. f \in Nat /\ f <= Room(l) /\ f <= limit[l] - n
      BY <3>1, <3>2
    <3>5. debt[l] + (limit[l] - n - f) \in Nat /\ Load(l) <= n + (debt[l] + (limit[l] - n - f))
      BY <1>1, <1>3, <3>1, <3>4
    <3>. QED
      BY <3>3, <3>5
  <2>. QED
    BY <2>1, <2>2 DEF ResizeTo
<1>5. /\ limit' \in [Names -> Nat] /\ debt' \in [Names -> Nat] /\ limit'[l] = n /\ debt'[l] = d
      /\ \A m \in Names \ {l} : limit'[m] = limit[m] /\ debt'[m] = debt[m]
  BY <1>1, <1>2, <1>4
<1>6. CeilingsHeld'
  <2>. SUFFICES ASSUME NEW m \in Names PROVE Load(m)' <= limit'[m] + debt'[m]
    BY DEF CeilingsHeld
  <2>1. Load(m)' = Load(m)
    BY DEF Load
  <2>. QED
    BY <1>4, <1>5, <2>1 DEF CeilingsHeld
<1>. QED
  BY <1>5, <1>6
\* The lookup of a route's limiter finds one or creates one.
LEMMA LookupFacts ==
    ASSUME AdmissionType, NEW r \in Requests, LimiterFor(r)
    PROVE  /\ Created \/ UNCHANGED limiters
           /\ reload # "routes"
           /\ Limited(r) => registry'[RouteOf[r]] \in 1 .. made'[RouteOf[r]]
<1>1. RouteOf[r] \in Routes /\ policy[r] \in Configs
  BY ConstantFacts DEF AdmissionType
<1>2. CASE Limited(r) /\ registry[RouteOf[r]] = 0
  <2>1. Make(RouteOf[r], policy[r].routes[RouteOf[r]]) /\ policy[r].routes[RouteOf[r]] \in Nat
    BY <1>1, <1>2, ConstantFacts DEF LimiterFor, Limited
  <2>2. Created
    BY <1>1, <1>2, <2>1 DEF Created, Limited
  <2>3. registry'[RouteOf[r]] \in 1 .. made'[RouteOf[r]]
    <3>1. /\ made[RouteOf[r]] + 1 \in 1 .. MaxMade
          /\ registry'[RouteOf[r]] = made[RouteOf[r]] + 1 /\ made'[RouteOf[r]] = made[RouteOf[r]] + 1
      BY <1>1, <2>1, MakeFacts
    <3>. QED
      BY <3>1, AdmissionAssumption
  <2>. QED
    BY <2>2, <2>3 DEF LimiterFor
<1>3. CASE ~(Limited(r) /\ registry[RouteOf[r]] = 0)
  <2>1. UNCHANGED limiters
    BY <1>3 DEF LimiterFor
  <2>2. registry[RouteOf[r]] \in Nat /\ registry[RouteOf[r]] <= made[RouteOf[r]] /\ made[RouteOf[r]] \in Nat
    BY <1>1, AdmissionAssumption DEF AdmissionType
  <2>. QED
    BY <1>3, <2>1, <2>2 DEF LimiterFor, limiters
<1>. QED
  BY <1>2, <1>3

\* Every step does one thing to the limiters and their load.
LEMMA StepKinds ==
    ASSUME AdmissionType, Next
    PROVE  \/ UNCHANGED <<limit, debt, made, holds>>
           \/ Created /\ UNCHANGED holds
           \/ ResizedShared /\ UNCHANGED holds
           \/ ResizedRoute /\ UNCHANGED holds
           \/ \E r \in Requests : Acquire(r) \/ DropPermit(r)
<1>1. ASSUME NEW r \in Requests, Begin(r) \/ GiveUp(r) \/ Finish(r)
      PROVE  UNCHANGED <<limit, debt, made, holds>>
  BY <1>1 DEF Begin, GiveUp, Finish, limiters
<1>2. ASSUME NEW r \in Requests, Enter(r) \/ Leave(r)
      PROVE  (Created \/ UNCHANGED <<limit, debt, made>>) /\ UNCHANGED holds
  <2>1. LimiterFor(r) /\ UNCHANGED holds
    BY <1>2 DEF Enter, Leave
  <2>. QED
    BY <2>1, LookupFacts DEF limiters
<1>3. ASSUME (\E c \in Configs : StartReload(c)) \/ LockRoutes \/ RetainRoutes \/ StorePolicy
      PROVE  UNCHANGED <<limit, debt, made, holds>>
  BY <1>3 DEF StartReload, LockRoutes, RetainRoutes, StorePolicy, limiters, request
<1>4. CASE ResizeGlobal
  <2>1. ResizeTo(Global, Configured(Global, next)) /\ UNCHANGED <<made, registry, holds>>
    BY <1>4 DEF ResizeGlobal, Configured, request
  <2>2. next \in Configs /\ Global \in Shared
    BY NameFacts DEF AdmissionType
  <2>. QED
    BY <2>1, <2>2 DEF ResizedShared
<1>5. ASSUME NEW t \in Tiers, ResizeTier(t) PROVE ResizedShared /\ UNCHANGED holds
  <2>1. ResizeTo(<<t, 0>>, Configured(<<t, 0>>, next)) /\ UNCHANGED <<made, registry, holds>>
    BY <1>5 DEF ResizeTier, request
  <2>2. next \in Configs /\ <<t, 0>> \in Shared
    BY NameFacts DEF AdmissionType
  <2>. QED
    BY <2>1, <2>2 DEF ResizedShared
<1>6. ASSUME NEW x \in Routes, ApplyRoute(x) PROVE (Created \/ ResizedRoute) /\ UNCHANGED holds
  <2>1. next \in Configs /\ x \in DOMAIN next.routes /\ UNCHANGED holds
    BY <1>6 DEF ApplyRoute, AdmissionType, request
  <2>2. CASE registry[x] = 0
    BY <1>6, <2>1, <2>2 DEF ApplyRoute, Created
  <2>3. CASE registry[x] # 0
    BY <1>6, <2>1, <2>3 DEF ApplyRoute, ResizedRoute
  <2>. QED
    BY <2>1, <2>2, <2>3
<1>. QED
  BY <1>1, <1>2, <1>3, <1>4, <1>5, <1>6 DEF Next, ReloadStep

-----------------------------------------------------------------------------
(* Permits                                                                 *)

LEMMA PermitNames ==
    ASSUME AdmissionType, NEW r \in Requests
    PROVE  /\ TierPermit(r) \in Shared /\ TierPermit(r) # Global
           /\ RoutePermit(r) \subseteq Names \ Shared
           /\ mine[r] # 0 => <<RouteOf[r], mine[r]>> \in Names \ Shared
<1>1. TierOf[r] \in Tiers /\ RouteOf[r] \in Routes /\ mine[r] \in 0 .. MaxMade
  BY ConstantFacts DEF AdmissionType
<1>2. mine[r] # 0 => mine[r] \in 1 .. MaxMade
  BY <1>1, AdmissionAssumption
<1>. QED
  BY <1>1, <1>2, NameFacts DEF TierPermit, RoutePermit

\* A request asks for a permit that it does not hold.
LEMMA WantedFacts ==
    ASSUME AdmissionType, HoldsByStage, NEW r \in Requests, Waiting(r)
    PROVE  Wanted(r) \in Names \ holds[r]
<1>1. stage[r] \in {"route", "tier", "global"}
  BY DEF Waiting, After
<1>2. CASE stage[r] = "route"
  BY <1>2, PermitNames DEF Wanted, HoldsByStage
<1>3. CASE stage[r] = "tier"
  BY <1>3, PermitNames, NameFacts DEF Wanted, HoldsByStage, TierPermit
<1>4. CASE stage[r] = "global"
  BY <1>4, PermitNames, NameFacts DEF Wanted, HoldsByStage
<1>. QED
  BY <1>1, <1>2, <1>3, <1>4

\* A request drops a permit that it holds, the widest one first.
LEMMA DropFacts ==
    ASSUME AdmissionType, HoldsByStage, NEW r \in Requests, holds[r] # {}
    PROVE  /\ DropsNext(r) \in holds[r] /\ DropsNext(r) \in Names
           /\ holds[r] \ {DropsNext(r)} \in {{}, RoutePermit(r), RoutePermit(r) \cup {TierPermit(r)}}
<1>. DEFINE R == RoutePermit(r)
            t == TierPermit(r)
<1>1. t \in Names /\ t # Global /\ Global \in Names /\ R \subseteq Names /\ t \notin R /\ Global \notin R
  BY PermitNames, NameFacts
<1>2. R = {} \/ R = {<<RouteOf[r], mine[r]>>}
  BY DEF RoutePermit
<1>3. holds[r] \in {R, R \cup {t}, R \cup {t, Global}}
  BY DEF HoldsByStage
<1>4. DropsNext(r) = IF Global \in holds[r] THEN Global
                     ELSE IF t \in holds[r] THEN t ELSE <<RouteOf[r], mine[r]>>
  BY DEF DropsNext, TierPermit
<1>. HIDE DEF R, t
<1>5. CASE holds[r] = R \cup {t, Global}
  <2>1. DropsNext(r) = Global
    BY <1>4, <1>5
  <2>2. holds[r] \ {Global} = R \cup {t}
    BY <1>1, <1>5
  <2>. QED
    BY <1>1, <1>5, <2>1, <2>2 DEF R, t
<1>6. CASE holds[r] = R \cup {t}
  <2>1. DropsNext(r) = t
    BY <1>1, <1>4, <1>6
  <2>2. holds[r] \ {t} = R
    BY <1>1, <1>6
  <2>. QED
    BY <1>1, <1>6, <2>1, <2>2 DEF R, t
<1>7. CASE holds[r] = R
  <2>1. R = {<<RouteOf[r], mine[r]>>} /\ DropsNext(r) = <<RouteOf[r], mine[r]>>
    BY <1>1, <1>2, <1>4, <1>7
  <2>. QED
    BY <1>1, <1>7, <2>1
<1>. QED
  BY <1>3, <1>5, <1>6, <1>7
-----------------------------------------------------------------------------
(* The parts of the invariant, kept by every step                          *)

\* The limiters stay typed, and no limiter is loaded beyond its ceiling and debt.
LEMMA CeilingsStep ==
    ASSUME AdmissionInv, Next
    PROVE  limit' \in [Names -> Nat] /\ debt' \in [Names -> Nat] /\ CeilingsHeld'
<1>. USE DEF AdmissionInv
<1>1. CASE UNCHANGED <<limit, debt, made, holds>>
  BY <1>1 DEF AdmissionType, CeilingsHeld, Load
<1>2. CASE Created /\ UNCHANGED holds
  <2>1. PICK c \in Configs : \E x \in DOMAIN c.routes : Make(x, c.routes[x])
    BY <1>2 DEF Created
  <2>2. PICK x \in DOMAIN c.routes : Make(x, c.routes[x])
    BY <2>1
  <2>3. x \in Routes /\ c.routes[x] \in Nat
    BY ConstantFacts
  <2>. DEFINE n == <<x, made[x] + 1>>
  <2>4. /\ n \in Names \ Shared /\ limit' \in [Names -> Nat] /\ debt' = debt /\ limit'[n] = c.routes[x]
        /\ \A l \in Names \ {n} : limit'[l] = limit[l]
    BY <2>2, <2>3, MakeFacts
  <2>5. \A r \in Requests : n \notin holds[r]
    <3>. SUFFICES ASSUME NEW r \in Requests, n \in holds[r] PROVE FALSE
      OBVIOUS
    <3>1. n \in RoutePermit(r)
      <4>1. holds[r] \subseteq RoutePermit(r) \cup {TierPermit(r), Global}
        BY DEF HoldsByStage
      <4>2. TierPermit(r) \in Shared /\ Global \in Shared
        BY PermitNames, NameFacts
      <4>3. n \notin Shared
        BY <2>4
      <4>. HIDE DEF n
      <4>. QED
        BY <4>1, <4>2, <4>3
    <3>2. RouteOf[r] = x /\ mine[r] = made[x] + 1
      BY <3>1 DEF RoutePermit
    <3>. QED
      BY <2>3, <3>2, AdmissionAssumption DEF AdmissionType
  <2>. HIDE DEF n
  <2>6. Cardinality(UnitsOn(n, holds)) = 0
    <3>1. UnitsOn(n, holds) = {}
      BY <2>5 DEF UnitsOn
    <3>. QED
      BY <3>1, FS_EmptySet
  <2>7. CeilingsHeld'
    <3>. SUFFICES ASSUME NEW l \in Names PROVE Load(l)' <= limit'[l] + debt'[l]
      BY DEF CeilingsHeld
    <3>1. CASE l = n
      <4>1. Load(l)' = Cardinality(UnitsOn(l, holds))
        BY <1>2 DEF Load, UnitsOn
      <4>. QED
        BY <2>3, <2>4, <2>6, <3>1, <4>1 DEF AdmissionType
    <3>2. CASE l # n
      <4>1. Load(l)' = Load(l)
        BY <1>2 DEF Load
      <4>. QED
        BY <2>4, <3>2, <4>1 DEF CeilingsHeld
    <3>. QED
      BY <3>1, <3>2
  <2>. QED
    BY <2>4, <2>7 DEF AdmissionType
<1>3. CASE ResizedShared /\ UNCHANGED holds
  <2>1. PICK c \in Configs, l \in Shared : ResizeTo(l, Configured(l, c))
    BY <1>3 DEF ResizedShared
  <2>2. l \in Names /\ Configured(l, c) \in Nat
    BY NameFacts, ConfiguredType
  <2>. QED
    BY <1>3, <2>1, <2>2, ResizeFacts
<1>4. CASE ResizedRoute /\ UNCHANGED holds
  <2>1. PICK c \in Configs : \E x \in DOMAIN c.routes :
            registry[x] # 0 /\ ResizeTo(<<x, registry[x]>>, c.routes[x])
    BY <1>4 DEF ResizedRoute
  <2>2. PICK x \in DOMAIN c.routes : registry[x] # 0 /\ ResizeTo(<<x, registry[x]>>, c.routes[x])
    BY <2>1
  <2>3. x \in Routes /\ c.routes[x] \in Nat
    BY ConstantFacts
  <2>4. registry[x] \in 1 .. MaxMade
    BY <2>2, <2>3, AdmissionAssumption DEF AdmissionType
  <2>5. <<x, registry[x]>> \in Names
    BY <2>3, <2>4, NameFacts
  <2>. QED
    BY <1>4, <2>2, <2>3, <2>5, ResizeFacts
<1>5. ASSUME NEW r \in Requests, Acquire(r) PROVE limit' \in [Names -> Nat] /\ debt' \in [Names -> Nat] /\ CeilingsHeld'
  <2>. DEFINE w == Wanted(r)
  <2>1. /\ w \in Names /\ w \notin holds[r] /\ Room(w) >= Weight[r]
        /\ holds' = [holds EXCEPT ![r] = @ \cup {w}] /\ UNCHANGED <<limit, debt>>
    BY <1>5, WantedFacts DEF Acquire, limiters
  <2>. HIDE DEF w
  <2>2. holds \in [Requests -> SUBSET Names] /\ limit \in [Names -> Nat] /\ debt \in [Names -> Nat]
    BY DEF AdmissionType
  <2>3. ASSUME NEW l \in Names PROVE Load(l)' <= limit[l] + debt[l]
    <3>0. Load(l)' = Cardinality(UnitsOn(l, holds')) /\ Load(l) = Cardinality(UnitsOn(l, holds))
      BY DEF Load, UnitsOn
    <3>1. CASE l = w
      <4>1. w \in holds'[r] /\ \A q \in Requests \ {r} : w \in holds'[q] <=> w \in holds[q]
        BY <2>1, <2>2
      <4>2. Cardinality(UnitsOn(w, holds')) = Cardinality(UnitsOn(w, holds)) + Weight[r]
        BY <2>1, <4>1, UnitsTaken
      <4>. DEFINE k == Cardinality(UnitsOn(w, holds))
      <4>3. k \in Nat /\ limit[w] + debt[w] - k >= Weight[r]
        BY <2>1, LoadIs, UnitsFinite DEF Room
      <4>4. Load(l)' = k + Weight[r]
        BY <3>0, <3>1, <4>2
      <4>. HIDE DEF k
      <4>. QED
        BY <2>1, <2>2, <3>1, <4>3, <4>4, ConstantFacts
    <3>2. CASE l # w
      <4>1. \A q \in Requests : l \in holds'[q] <=> l \in holds[q]
        BY <2>1, <2>2, <3>2
      <4>. QED
        BY <3>0, <4>1, UnitsSame DEF CeilingsHeld
    <3>. QED
      BY <3>1, <3>2
  <2>. QED
    BY <2>1, <2>2, <2>3 DEF CeilingsHeld
<1>6. ASSUME NEW r \in Requests, DropPermit(r)
      PROVE  limit' \in [Names -> Nat] /\ debt' \in [Names -> Nat] /\ CeilingsHeld'
  <2>. DEFINE d == DropsNext(r)
              p == Min({debt[d], Weight[r]})
  <2>1. d \in Names /\ d \in holds[r]
    BY <1>6, DropFacts DEF DropPermit
  <2>2. holds' = [holds EXCEPT ![r] = @ \ {d}] /\ debt' = [debt EXCEPT ![d] = debt[d] - p] /\ limit' = limit
    BY <1>6 DEF DropPermit
  <2>3. /\ holds \in [Requests -> SUBSET Names] /\ limit \in [Names -> Nat] /\ debt \in [Names -> Nat]
        /\ Weight[r] \in Nat
    BY ConstantFacts DEF AdmissionType
  <2>4. p \in Nat /\ p <= debt[d] /\ p <= Weight[r]
    BY <2>1, <2>3, MinOfTwo
  <2>. HIDE DEF d, p
  <2>5. debt' \in [Names -> Nat] /\ debt'[d] = debt[d] - p /\ \A l \in Names \ {d} : debt'[l] = debt[l]
    <3>1. debt[d] - p \in Nat
      BY <2>1, <2>3, <2>4
    <3>. QED
      BY <2>1, <2>2, <2>3, <3>1
  <2>6. ASSUME NEW l \in Names PROVE Load(l)' <= limit[l] + debt'[l]
    <3>0. Load(l)' = Cardinality(UnitsOn(l, holds')) /\ Load(l) = Cardinality(UnitsOn(l, holds))
      BY DEF Load, UnitsOn
    <3>1. CASE l = d
      <4>1. d \notin holds'[r] /\ \A q \in Requests \ {r} : d \in holds[q] <=> d \in holds'[q]
        BY <2>2, <2>3
      <4>2. Cardinality(UnitsOn(d, holds)) = Cardinality(UnitsOn(d, holds')) + Weight[r]
        BY <2>1, <4>1, UnitsTaken
      <4>. DEFINE k == Cardinality(UnitsOn(d, holds'))
      <4>3. k \in Nat /\ k + Weight[r] <= limit[d] + debt[d]
        BY <2>1, <3>0, <3>1, <4>2, UnitsFinite DEF CeilingsHeld
      <4>4. Load(l)' = k
        BY <3>0, <3>1
      <4>. HIDE DEF k
      <4>. QED
        BY <2>1, <2>3, <2>4, <2>5, <3>1, <4>3, <4>4
    <3>2. CASE l # d
      <4>1. \A q \in Requests : l \in holds'[q] <=> l \in holds[q]
        BY <2>2, <2>3, <3>2
      <4>. QED
        BY <2>5, <3>0, <3>2, <4>1, UnitsSame DEF CeilingsHeld
    <3>. QED
      BY <3>1, <3>2
  <2>. QED
    BY <2>2, <2>3, <2>5, <2>6 DEF CeilingsHeld
<1>. QED
  BY <1>1, <1>2, <1>3, <1>4, <1>5, <1>6, StepKinds
\* Creating a limiter leaves every limiter in use alone.
LEMMA CreatedFacts ==
    ASSUME AdmissionType, Created
    PROVE  /\ made' \in [Routes -> 0 .. MaxMade] /\ registry' \in [Routes -> 0 .. MaxMade]
           /\ \A y \in Routes : registry'[y] <= made'[y] /\ made[y] <= made'[y]
           /\ \A l \in Shared : limit'[l] = limit[l]
           /\ \A y \in Routes : registry[y] # 0 =>
                 /\ registry'[y] = registry[y] /\ made'[y] = made[y]
                 /\ limit'[<<y, registry[y]>>] = limit[<<y, registry[y]>>]
<1>1. PICK c \in Configs : \E x \in DOMAIN c.routes : registry[x] = 0 /\ Make(x, c.routes[x])
  BY DEF Created
<1>2. PICK x \in DOMAIN c.routes : registry[x] = 0 /\ Make(x, c.routes[x])
  BY <1>1
<1>3. x \in Routes /\ c.routes[x] \in Nat
  BY ConstantFacts
<1>4. /\ <<x, made[x] + 1>> \in Names \ Shared
      /\ made' \in [Routes -> 0 .. MaxMade] /\ registry' \in [Routes -> 0 .. MaxMade]
      /\ \A y \in Routes : registry'[y] <= made'[y] /\ made[y] <= made'[y]
      /\ \A y \in Routes \ {x} : registry'[y] = registry[y] /\ made'[y] = made[y]
      /\ \A l \in Names \ {<<x, made[x] + 1>>} : limit'[l] = limit[l]
  BY <1>2, <1>3, MakeFacts
<1>5. \A l \in Shared : limit'[l] = limit[l]
  BY <1>4, NameFacts
<1>6. ASSUME NEW y \in Routes, registry[y] # 0
      PROVE  /\ registry'[y] = registry[y] /\ made'[y] = made[y]
             /\ limit'[<<y, registry[y]>>] = limit[<<y, registry[y]>>]
  <2>1. y # x /\ registry[y] \in 1 .. MaxMade
    BY <1>2, <1>6, AdmissionAssumption DEF AdmissionType
  <2>2. <<y, registry[y]>> \in Names /\ <<y, registry[y]>> # <<x, made[x] + 1>>
    BY <2>1, NameFacts
  <2>. QED
    BY <1>4, <2>1, <2>2
<1>. QED
  BY <1>4, <1>5, <1>6

\* No step makes a limiter too small for the requests it is charged to.
LEMMA FitStep ==
    ASSUME AdmissionInv, Next
    PROVE  LimitersFit'
<1>. USE DEF AdmissionInv
<1>1. CASE UNCHANGED <<limit, made>>
  BY <1>1 DEF LimitersFit, TierPermit
<1>. SUFFICES ASSUME NEW r \in Requests,
                     \/ Created
                     \/ ResizedShared /\ UNCHANGED holds
                     \/ ResizedRoute /\ UNCHANGED holds
              PROVE  /\ Weight[r] <= limit'[Global] /\ Weight[r] <= limit'[TierPermit(r)]
                     /\ \A k \in 1 .. made'[RouteOf[r]] : Weight[r] <= limit'[<<RouteOf[r], k>>]
  BY <1>1, StepKinds DEF LimitersFit, TierPermit, Acquire, DropPermit, limiters
<1>2. /\ RouteOf[r] \in Routes /\ TierPermit(r) \in Shared /\ Global \in Shared
      /\ Weight[r] <= limit[Global] /\ Weight[r] <= limit[TierPermit(r)]
      /\ \A k \in 1 .. made[RouteOf[r]] : Weight[r] <= limit[<<RouteOf[r], k>>]
  BY ConstantFacts, PermitNames, NameFacts DEF LimitersFit
<1>3. ASSUME NEW x \in Routes, NEW k \in 1 .. made[x] PROVE k \in 1 .. MaxMade
  BY AdmissionAssumption DEF AdmissionType
<1>4. CASE Created
  <2>1. PICK c \in Configs : \E x \in DOMAIN c.routes : registry[x] = 0 /\ Make(x, c.routes[x])
    BY <1>4 DEF Created
  <2>2. PICK x \in DOMAIN c.routes : registry[x] = 0 /\ Make(x, c.routes[x])
    BY <2>1
  <2>3. x \in Routes /\ c.routes[x] \in Nat
    BY ConstantFacts
  <2>4. /\ made[x] + 1 \in 1 .. MaxMade /\ made'[x] = made[x] + 1 /\ limit'[<<x, made[x] + 1>>] = c.routes[x]
        /\ \A y \in Routes \ {x} : made'[y] = made[y]
        /\ \A l \in Names \ {<<x, made[x] + 1>>} : limit'[l] = limit[l]
    BY <2>2, <2>3, MakeFacts
  <2>5. ASSUME NEW k \in 1 .. made'[RouteOf[r]] PROVE Weight[r] <= limit'[<<RouteOf[r], k>>]
    <3>1. CASE RouteOf[r] = x /\ k = made[x] + 1
      BY <2>4, <3>1, WeightsFit
    <3>2. CASE ~(RouteOf[r] = x /\ k = made[x] + 1)
      <4>1. k \in 1 .. made[RouteOf[r]]
        <5>1. made[RouteOf[r]] \in Nat /\ made[x] \in Nat
          BY <1>2, <2>3, AdmissionAssumption DEF AdmissionType
        <5>. QED
          BY <1>2, <2>4, <3>2, <5>1
      <4>2. <<RouteOf[r], k>> \in Names /\ <<RouteOf[r], k>> # <<x, made[x] + 1>>
        BY <1>2, <1>3, <3>2, <4>1, NameFacts
      <4>. QED
        BY <1>2, <2>4, <4>1, <4>2
    <3>. QED
      BY <3>1, <3>2
  <2>. QED
    BY <1>2, <1>4, <2>5, CreatedFacts
<1>5. CASE ResizedShared /\ UNCHANGED holds
  <2>1. PICK c \in Configs, l \in Shared : ResizeTo(l, Configured(l, c))
    BY <1>5 DEF ResizedShared
  <2>2. l \in Names /\ Configured(l, c) \in Nat
    BY NameFacts, ConfiguredType
  <2>3. limit'[l] = Configured(l, c) /\ \A m \in Names \ {l} : limit'[m] = limit[m]
    BY <1>5, <2>1, <2>2, ResizeFacts
  <2>4. /\ Weight[r] <= Configured(Global, c) /\ Weight[r] <= Configured(TierPermit(r), c)
    BY WeightsFit
  <2>5. Weight[r] <= limit'[Global] /\ Weight[r] <= limit'[TierPermit(r)]
    BY <1>2, <2>3, <2>4, NameFacts
  <2>6. ASSUME NEW k \in 1 .. made'[RouteOf[r]] PROVE Weight[r] <= limit'[<<RouteOf[r], k>>]
    <3>1. k \in 1 .. made[RouteOf[r]]
      BY <1>5 DEF ResizedShared
    <3>2. <<RouteOf[r], k>> \in Names \ Shared
      BY <1>2, <1>3, <3>1, NameFacts
    <3>. QED
      BY <1>2, <2>3, <3>1, <3>2
  <2>. QED
    BY <2>5, <2>6
<1>6. CASE ResizedRoute /\ UNCHANGED holds
  <2>1. PICK c \in Configs : \E x \in DOMAIN c.routes :
            registry[x] # 0 /\ ResizeTo(<<x, registry[x]>>, c.routes[x])
    BY <1>6 DEF ResizedRoute
  <2>2. PICK x \in DOMAIN c.routes : registry[x] # 0 /\ ResizeTo(<<x, registry[x]>>, c.routes[x])
    BY <2>1
  <2>3. x \in Routes /\ c.routes[x] \in Nat
    BY ConstantFacts
  <2>4. registry[x] \in 1 .. MaxMade
    BY <2>2, <2>3, AdmissionAssumption DEF AdmissionType
  <2>. DEFINE l == <<x, registry[x]>>
  <2>5. l \in Names \ Shared
    BY <2>3, <2>4, NameFacts
  <2>6. limit'[l] = c.routes[x] /\ \A m \in Names \ {l} : limit'[m] = limit[m]
    BY <1>6, <2>2, <2>3, <2>5, ResizeFacts
  <2>7. Weight[r] <= limit'[Global] /\ Weight[r] <= limit'[TierPermit(r)]
    BY <1>2, <2>5, <2>6, NameFacts
  <2>8. ASSUME NEW k \in 1 .. made'[RouteOf[r]] PROVE Weight[r] <= limit'[<<RouteOf[r], k>>]
    <3>1. k \in 1 .. made[RouteOf[r]]
      BY <1>6 DEF ResizedRoute
    <3>2. <<RouteOf[r], k>> \in Names
      BY <1>2, <1>3, <3>1, NameFacts
    <3>3. CASE <<RouteOf[r], k>> = l
      <4>1. RouteOf[r] = x
        BY <3>3
      <4>. QED
        BY <2>6, <3>3, <4>1, WeightsFit
    <3>4. CASE <<RouteOf[r], k>> # l
      BY <1>2, <2>6, <3>1, <3>2, <3>4
    <3>. QED
      BY <3>3, <3>4
  <2>. QED
    BY <2>7, <2>8
<1>. QED
  BY <1>4, <1>5, <1>6
\* The registry as every step but RetainRoutes leaves it: the same, or with a
\* limiter for a route that had none.
LEMMA RegistryStep ==
    ASSUME AdmissionInv, Next
    PROVE  /\ made' \in [Routes -> 0 .. MaxMade] /\ registry' \in [Routes -> 0 .. MaxMade]
           /\ \A x \in Routes : registry'[x] <= made'[x] /\ made[x] <= made'[x]
           /\ \A x \in Routes : registry[x] # 0 =>
                 made'[x] = made[x] /\ (registry'[x] = registry[x] \/ ~KeptByAll(x))
<1>. USE DEF AdmissionInv
<1>0. \A x \in Routes : made[x] \in Nat /\ registry[x] \in Nat /\ registry[x] <= made[x]
  BY AdmissionAssumption DEF AdmissionType
<1>1. CASE Created
  BY <1>1, CreatedFacts
<1>2. CASE UNCHANGED <<made, registry>>
  BY <1>0, <1>2 DEF AdmissionType
<1>3. CASE RetainRoutes
  <2>1. /\ registry' = [x \in Routes |-> IF x \in DOMAIN next.routes THEN registry[x] ELSE 0]
        /\ made' = made /\ next \in Configs
    BY <1>3 DEF RetainRoutes, AdmissionType
  <2>2. \A x \in Routes : registry'[x] = registry[x] \/ (registry'[x] = 0 /\ ~KeptByAll(x))
    BY <2>1 DEF KeptByAll
  <2>. QED
    BY <1>0, <2>1, <2>2, AdmissionAssumption DEF AdmissionType
<1>4. Created \/ UNCHANGED <<made, registry>> \/ RetainRoutes
  <2>1. ASSUME NEW r \in Requests, Enter(r) \/ Leave(r) PROVE Created \/ UNCHANGED <<made, registry>>
    <3>1. LimiterFor(r)
      BY <2>1 DEF Enter, Leave
    <3>. QED
      BY <3>1, LookupFacts DEF limiters
  <2>2. ASSUME NEW r \in Requests, Begin(r) \/ Acquire(r) \/ GiveUp(r) \/ Finish(r) \/ DropPermit(r)
        PROVE  UNCHANGED <<made, registry>>
    BY <2>2 DEF Begin, Acquire, GiveUp, Finish, DropPermit, limiters
  <2>3. ASSUME \/ \E c \in Configs : StartReload(c)
               \/ LockRoutes \/ StorePolicy \/ ResizeGlobal \/ \E t \in Tiers : ResizeTier(t)
        PROVE  UNCHANGED <<made, registry>>
    BY <2>3 DEF StartReload, LockRoutes, StorePolicy, ResizeGlobal, ResizeTier, limiters
  <2>4. ASSUME NEW x \in Routes, ApplyRoute(x) PROVE Created \/ UNCHANGED <<made, registry>>
    <3>1. next \in Configs /\ x \in DOMAIN next.routes
      BY <2>4 DEF ApplyRoute, AdmissionType
    <3>. QED
      BY <2>4, <3>1 DEF ApplyRoute, Created
  <2>. QED
    BY <2>1, <2>2, <2>3, <2>4 DEF Next, ReloadStep
<1>. QED
  BY <1>1, <1>2, <1>3, <1>4

LEMMA KeptStep ==
    ASSUME AdmissionInv, Next
    PROVE  KeptHaveOne'
<1>. SUFFICES ASSUME NEW x \in Routes, KeptByAll(x) PROVE registry'[x] = 1 /\ made'[x] = 1
  BY DEF KeptHaveOne, KeptByAll
<1>1. registry[x] = 1 /\ made[x] = 1
  BY DEF AdmissionInv, KeptHaveOne
<1>. QED
  BY <1>1, RegistryStep

\* Requests move through their stages with the permits the stages say.
LEMMA HoldsStep ==
    ASSUME AdmissionInv, Next
    PROVE  /\ stage' \in [Requests -> Stages] /\ policy' \in [Requests -> Configs]
           /\ mine' \in [Requests -> 0 .. MaxMade] /\ holds' \in [Requests -> SUBSET Names]
           /\ \A r \in Requests : mine'[r] <= made'[RouteOf[r]]
           /\ HoldsByStage'
<1>. USE DEF AdmissionInv
<1>0. /\ stage \in [Requests -> Stages] /\ policy \in [Requests -> Configs] /\ config \in Configs
      /\ mine \in [Requests -> 0 .. MaxMade] /\ holds \in [Requests -> SUBSET Names]
  BY DEF AdmissionType
<1>a. \A q \in Requests : mine[q] \in Nat /\ mine[q] <= made'[RouteOf[q]]
  <2>. SUFFICES ASSUME NEW q \in Requests PROVE mine[q] \in Nat /\ mine[q] <= made'[RouteOf[q]]
    OBVIOUS
  <2>1. RouteOf[q] \in Routes /\ mine[q] \in Nat /\ mine[q] <= made[RouteOf[q]] /\ made[RouteOf[q]] \in Nat
    BY ConstantFacts, AdmissionAssumption DEF AdmissionType
  <2>2. made[RouteOf[q]] <= made'[RouteOf[q]] /\ made'[RouteOf[q]] \in Nat
    BY <2>1, RegistryStep, AdmissionAssumption
  <2>. QED
    BY <2>1, <2>2
<1>1. ASSUME NEW r \in Requests, Begin(r) \/ GiveUp(r) \/ Finish(r)
      PROVE  /\ stage' \in [Requests -> Stages] /\ policy' \in [Requests -> Configs]
             /\ UNCHANGED <<mine, holds>> /\ HoldsByStage'
  <2>1. PICK s \in {"arrived", "dropping"} :
            /\ stage' = [stage EXCEPT ![r] = s] /\ UNCHANGED <<mine, holds>>
            /\ s = "arrived" => stage[r] = "idle"
    BY <1>1 DEF Begin, GiveUp, Finish
  <2>2. stage' \in [Requests -> Stages] /\ policy' \in [Requests -> Configs]
    BY <1>0, <1>1, <2>1 DEF Begin, GiveUp, Finish, Stages
  <2>3. HoldsByStage'
    BY <1>0, <2>1 DEF HoldsByStage, RoutePermit, TierPermit
  <2>. QED
    BY <2>1, <2>2, <2>3
<1>2. ASSUME NEW r \in Requests, Enter(r)
      PROVE  /\ stage' \in [Requests -> Stages] /\ UNCHANGED <<policy, holds>>
             /\ mine' \in [Requests -> 0 .. MaxMade] /\ HoldsByStage'
             /\ \A q \in Requests : mine'[q] <= made'[RouteOf[q]]
  <2>1. stage[r] = "arrived" /\ mine[r] = 0 /\ holds[r] = {} /\ UNCHANGED <<policy, holds>>
    BY <1>2 DEF Enter, HoldsByStage
  <2>2. PICK s \in {"route", "tier", "admitted"} :
            /\ stage' = [stage EXCEPT ![r] = s]
            /\ s = "route" => Limited(r)
            /\ s = "tier" => ~Limited(r)
    BY <1>2 DEF Enter, Entry
  <2>3. PICK k \in 0 .. MaxMade :
            /\ mine' = [mine EXCEPT ![r] = k] /\ k <= made'[RouteOf[r]]
            /\ k # 0 <=> Limited(r)
    <3>1. CASE Limited(r) /\ mine' = [mine EXCEPT ![r] = registry'[RouteOf[r]]]
      <4>1. registry'[RouteOf[r]] \in 1 .. made'[RouteOf[r]]
        BY <1>2, <3>1, LookupFacts DEF Enter
      <4>2. RouteOf[r] \in Routes
        BY ConstantFacts
      <4>3. made'[RouteOf[r]] \in 0 .. MaxMade
        BY <4>2, RegistryStep
      <4>4. registry'[RouteOf[r]] \in 0 .. MaxMade /\ registry'[RouteOf[r]] # 0
            /\ registry'[RouteOf[r]] <= made'[RouteOf[r]]
        BY <4>1, <4>3, AdmissionAssumption
      <4>. QED
        BY <3>1, <4>4
    <3>2. CASE ~Limited(r) /\ mine' = mine
      <4>1. mine' = [mine EXCEPT ![r] = 0] /\ 0 \in 0 .. MaxMade
        BY <1>0, <2>1, <3>2, AdmissionAssumption
      <4>. QED
        BY <1>a, <2>1, <3>2, <4>1
    <3>. QED
      BY <1>2, <3>1, <3>2 DEF Enter
  <2>4. stage' \in [Requests -> Stages] /\ mine' \in [Requests -> 0 .. MaxMade]
    BY <1>0, <2>2, <2>3 DEF Stages
  <2>5. \A q \in Requests : mine'[q] <= made'[RouteOf[q]]
    BY <1>0, <1>a, <2>3
  <2>6. HoldsByStage'
    <3>. SUFFICES ASSUME NEW q \in Requests
                  PROVE  /\ stage'[q] \in {"idle", "arrived"} => mine'[q] = 0
                         /\ stage'[q] = "route" => mine'[q] # 0
                         /\ stage'[q] \in {"idle", "arrived", "route"} => holds'[q] = {}
                         /\ stage'[q] = "tier" => holds'[q] = RoutePermit(q)'
                         /\ stage'[q] = "global" => holds'[q] = RoutePermit(q)' \cup {TierPermit(q)}
                         /\ holds'[q] \in {{}, RoutePermit(q)', RoutePermit(q)' \cup {TierPermit(q)},
                                           RoutePermit(q)' \cup {TierPermit(q), Global}}
      BY DEF HoldsByStage, TierPermit
    <3>1. CASE q = r
      BY <1>0, <2>1, <2>2, <2>3, <3>1 DEF RoutePermit
    <3>2. CASE q # r
      <4>1. stage'[q] = stage[q] /\ mine'[q] = mine[q] /\ holds'[q] = holds[q] /\ RoutePermit(q)' = RoutePermit(q)
        BY <1>0, <2>1, <2>2, <2>3, <3>2 DEF RoutePermit
      <4>. QED
        BY <4>1 DEF HoldsByStage
    <3>. QED
      BY <3>1, <3>2
  <2>. QED
    BY <2>1, <2>4, <2>5, <2>6
<1>3. ASSUME NEW r \in Requests, Acquire(r)
      PROVE  /\ stage' \in [Requests -> Stages] /\ UNCHANGED <<policy, mine>>
             /\ holds' \in [Requests -> SUBSET Names] /\ HoldsByStage'
  <2>1. /\ stage[r] \in {"route", "tier", "global"} /\ Wanted(r) \in Names
        /\ stage' = [stage EXCEPT ![r] = After[stage[r]]] /\ UNCHANGED <<policy, mine>>
        /\ holds' = [holds EXCEPT ![r] = holds[r] \cup {Wanted(r)}]
    BY <1>3, WantedFacts DEF Acquire, Waiting, After
  <2>2. stage' \in [Requests -> Stages] /\ holds' \in [Requests -> SUBSET Names]
    BY <1>0, <2>1 DEF After, Stages
  <2>3. ASSUME NEW q \in Requests, q # r
        PROVE  stage'[q] = stage[q] /\ mine'[q] = mine[q] /\ holds'[q] = holds[q]
    BY <1>0, <2>1, <2>3
  <2>4. stage'[r] = After[stage[r]] /\ mine'[r] = mine[r] /\ holds'[r] = holds[r] \cup {Wanted(r)}
    BY <1>0, <2>1
  <2>5. CASE stage[r] = "route"
    <3>1. stage'[r] = "tier" /\ holds'[r] = {<<RouteOf[r], mine[r]>>} /\ mine[r] # 0
      BY <2>4, <2>5 DEF After, Wanted, HoldsByStage
    <3>2. holds'[r] = RoutePermit(r)
      BY <3>1 DEF RoutePermit
    <3>. QED
      BY <2>1, <2>2, <2>3, <3>1, <3>2 DEF HoldsByStage, RoutePermit, TierPermit
  <2>6. CASE stage[r] = "tier"
    <3>1. stage'[r] = "global" /\ holds'[r] = RoutePermit(r) \cup {TierPermit(r)}
      BY <2>4, <2>6 DEF After, Wanted, HoldsByStage, TierPermit
    <3>. QED
      BY <2>1, <2>2, <2>3, <3>1 DEF HoldsByStage, RoutePermit, TierPermit
  <2>7. CASE stage[r] = "global"
    <3>1. stage'[r] = "admitted" /\ holds'[r] = RoutePermit(r) \cup {TierPermit(r), Global}
      BY <2>4, <2>7 DEF After, Wanted, HoldsByStage
    <3>. QED
      BY <2>1, <2>2, <2>3, <3>1 DEF HoldsByStage, RoutePermit, TierPermit
  <2>. QED
    BY <2>1, <2>2, <2>5, <2>6, <2>7
<1>4. ASSUME NEW r \in Requests, DropPermit(r)
      PROVE  /\ UNCHANGED <<stage, policy, mine>>
             /\ holds' \in [Requests -> SUBSET Names] /\ HoldsByStage'
  <2>1. /\ stage[r] = "dropping" /\ UNCHANGED <<stage, policy, mine>>
        /\ holds' = [holds EXCEPT ![r] = holds[r] \ {DropsNext(r)}]
        /\ holds[r] \ {DropsNext(r)} \in {{}, RoutePermit(r), RoutePermit(r) \cup {TierPermit(r)}}
    BY <1>4, DropFacts DEF DropPermit
  <2>2. holds' \in [Requests -> SUBSET Names]
    BY <1>0, <2>1
  <2>3. holds'[r] \in {{}, RoutePermit(r), RoutePermit(r) \cup {TierPermit(r)}}
    BY <1>0, <2>1
  <2>4. \A q \in Requests : q # r => holds'[q] = holds[q]
    BY <1>0, <2>1
  <2>5. HoldsByStage'
    BY <2>1, <2>3, <2>4 DEF HoldsByStage, RoutePermit, TierPermit
  <2>. QED
    BY <2>1, <2>2, <2>5
<1>5. ASSUME NEW r \in Requests, Leave(r)
      PROVE  /\ stage' \in [Requests -> Stages] /\ UNCHANGED <<policy, holds>>
             /\ mine' \in [Requests -> 0 .. MaxMade] /\ HoldsByStage'
             /\ \A q \in Requests : mine'[q] <= made'[RouteOf[q]]
  <2>1. /\ holds[r] = {} /\ UNCHANGED <<policy, holds>>
        /\ stage' = [stage EXCEPT ![r] = "idle"] /\ mine' = [mine EXCEPT ![r] = 0]
    BY <1>5 DEF Leave
  <2>2. stage' \in [Requests -> Stages] /\ mine' \in [Requests -> 0 .. MaxMade]
    BY <1>0, <2>1, AdmissionAssumption DEF Stages
  <2>3. /\ stage'[r] = "idle" /\ mine'[r] = 0
        /\ \A q \in Requests : q # r => stage'[q] = stage[q] /\ mine'[q] = mine[q]
    BY <1>0, <2>1
  <2>4. HoldsByStage'
    BY <2>1, <2>3 DEF HoldsByStage, RoutePermit, TierPermit
  <2>5. \A q \in Requests : mine'[q] <= made'[RouteOf[q]]
    <3>1. RouteOf[r] \in Routes
      BY ConstantFacts
    <3>2. 0 <= made'[RouteOf[r]]
      BY <3>1, RegistryStep, AdmissionAssumption
    <3>. QED
      BY <1>a, <2>3, <3>2
  <2>. QED
    BY <2>1, <2>2, <2>4, <2>5
<1>6. ASSUME (\E c \in Configs : StartReload(c)) \/ ReloadStep
      PROVE  UNCHANGED <<stage, policy, mine, holds>>
  BY <1>6 DEF StartReload, ReloadStep, ResizeGlobal, LockRoutes, RetainRoutes, StorePolicy, ResizeTier,
              ApplyRoute, request
<1>7. ASSUME UNCHANGED <<stage, policy, mine, holds>> PROVE HoldsByStage'
  BY <1>7 DEF HoldsByStage, RoutePermit, TierPermit
<1>. QED
  BY <1>0, <1>a, <1>1, <1>2, <1>3, <1>4, <1>5, <1>6, <1>7 DEF Next
\* A reload goes through its phases.
LEMMA ReloadStepTyped ==
    ASSUME AdmissionType, Next
    PROVE  /\ config' \in Configs /\ next' \in Configs
           /\ reload' \in {"none", "global", "tiers", "routes", "store"}
           /\ reload' = "tiers" => todo' \subseteq Tiers
           /\ reload' = "routes" => todo' \subseteq DOMAIN next'.routes
<1>1. ASSUME NEW r \in Requests,
             Begin(r) \/ Enter(r) \/ Acquire(r) \/ GiveUp(r) \/ Finish(r) \/ DropPermit(r) \/ Leave(r)
      PROVE  UNCHANGED <<config, reload, next, todo>>
  BY <1>1 DEF Begin, Enter, Acquire, GiveUp, Finish, DropPermit, Leave, reloading
<1>2. CASE (\E c \in Configs : StartReload(c)) \/ StorePolicy \/ ResizeGlobal \/ LockRoutes \/ RetainRoutes
  BY <1>2 DEF StartReload, StorePolicy, ResizeGlobal, LockRoutes, RetainRoutes, AdmissionType
<1>3. ASSUME \/ \E t \in Tiers : ResizeTier(t)
             \/ \E x \in Routes : ApplyRoute(x)
      PROVE  UNCHANGED <<config, reload, next>> /\ todo' \subseteq todo
  BY <1>3 DEF ResizeTier, ApplyRoute
<1>. QED
  BY <1>1, <1>2, <1>3 DEF Next, ReloadStep, AdmissionType

\* A policy in force stays in force when requests look up or create limiters.
LEMMA ForceKept ==
    ASSUME AdmissionType, NEW c \in Configs, InForce(c), Created \/ UNCHANGED <<limit, registry>>
    PROVE  /\ \A l \in Shared : limit'[l] = Configured(l, c)
           /\ \A x \in DOMAIN c.routes :
                 registry'[x] # 0 /\ limit'[<<x, registry'[x]>>] = c.routes[x]
<1>1. DOMAIN c.routes \subseteq Routes
  BY ConstantFacts
<1>2. CASE Created
  BY <1>1, <1>2, CreatedFacts DEF InForce
<1>3. CASE UNCHANGED <<limit, registry>>
  BY <1>3 DEF InForce
<1>. QED
  BY <1>2, <1>3

LEMMA PhaseStep ==
    ASSUME AdmissionInv, Next
    PROVE  AppliedByPhase'
<1>. USE DEF AdmissionInv
<1>0. config \in Configs /\ next \in Configs
  BY DEF AdmissionType
<1>1. ASSUME NEW r \in Requests,
             Begin(r) \/ Enter(r) \/ Acquire(r) \/ GiveUp(r) \/ Finish(r) \/ DropPermit(r) \/ Leave(r)
      PROVE  AppliedByPhase'
  <2>1. /\ UNCHANGED <<config, reload, next, todo>>
        /\ UNCHANGED <<limit, registry>> \/ (Created /\ reload # "routes")
    <3>1. ASSUME LimiterFor(r) PROVE UNCHANGED <<limit, registry>> \/ (Created /\ reload # "routes")
      BY <3>1, LookupFacts DEF limiters
    <3>. QED
      BY <1>1, <3>1 DEF Begin, Enter, Acquire, GiveUp, Finish, DropPermit, Leave, reloading, limiters
  <2>2. CASE reload = "none"
    BY <1>0, <2>1, <2>2, ForceKept DEF AppliedByPhase, InForce, Configured
  <2>3. CASE reload = "store"
    BY <1>0, <2>1, <2>3, ForceKept DEF AppliedByPhase, InForce, Configured
  <2>4. CASE reload = "tiers"
    <3>1. \A l \in Shared : limit'[l] = limit[l]
      BY <2>1, CreatedFacts
    <3>2. \A t \in Tiers : <<t, 0>> \in Shared
      BY NameFacts
    <3>3. Global \in Shared
      BY NameFacts
    <3>. QED
      BY <2>1, <2>4, <3>1, <3>2, <3>3 DEF AppliedByPhase, Configured
  <2>5. CASE reload = "routes"
    BY <2>1, <2>5 DEF AppliedByPhase, Configured, RouteApplied
  <2>6. CASE reload = "global"
    BY <2>1, <2>6 DEF AppliedByPhase
  <2>. QED
    BY <2>2, <2>3, <2>4, <2>5, <2>6 DEF AdmissionType
<1>2. ASSUME NEW c \in Configs, StartReload(c) PROVE AppliedByPhase'
  BY <1>2 DEF StartReload, AppliedByPhase
<1>3. CASE ResizeGlobal
  <2>1. /\ ResizeTo(Global, Configured(Global, next)) /\ holds' = holds
        /\ reload' = "tiers" /\ todo' = Tiers /\ next' = next
    BY <1>3 DEF ResizeGlobal, Configured, request
  <2>2. Global \in Names /\ Configured(Global, next) \in Nat
    BY <1>0, NameFacts, ConfiguredType
  <2>3. limit'[Global] = Configured(Global, next)
    BY <2>1, <2>2, ResizeFacts
  <2>. QED
    BY <2>1, <2>3 DEF AppliedByPhase, Configured
<1>4. ASSUME NEW t \in Tiers, ResizeTier(t) PROVE AppliedByPhase'
  <2>1. /\ ResizeTo(<<t, 0>>, Configured(<<t, 0>>, next)) /\ holds' = holds
        /\ reload = "tiers" /\ reload' = "tiers" /\ todo' = todo \ {t} /\ next' = next
    BY <1>4 DEF ResizeTier, request
  <2>2. <<t, 0>> \in Names /\ <<t, 0>> \in Shared /\ Configured(<<t, 0>>, next) \in Nat
    BY <1>0, NameFacts, ConfiguredType
  <2>3. limit'[<<t, 0>>] = Configured(<<t, 0>>, next) /\ \A l \in Names \ {<<t, 0>>} : limit'[l] = limit[l]
    BY <2>1, <2>2, ResizeFacts
  <2>4. limit'[Global] = Configured(Global, next)
    BY <2>1, <2>3, NameFacts DEF AppliedByPhase
  <2>5. ASSUME NEW u \in Tiers \ todo' PROVE limit'[<<u, 0>>] = Configured(<<u, 0>>, next)
    <3>1. CASE u = t
      BY <2>3, <3>1
    <3>2. CASE u # t
      <4>1. <<u, 0>> \in Names /\ <<u, 0>> # <<t, 0>> /\ u \in Tiers \ todo
        BY <2>1, <3>2, NameFacts
      <4>. QED
        BY <2>1, <2>3, <4>1 DEF AppliedByPhase
    <3>. QED
      BY <3>1, <3>2
  <2>. QED
    BY <2>1, <2>4, <2>5 DEF AppliedByPhase, Configured
<1>5. CASE LockRoutes
  <2>1. reload = "tiers" /\ todo = {} /\ reload' = "routes" /\ todo' = DOMAIN next.routes /\ next' = next /\ limit' = limit
    BY <1>5 DEF LockRoutes, limiters
  <2>2. \A l \in Shared : limit[l] = Configured(l, next)
    BY <2>1, NameFacts DEF AppliedByPhase
  <2>. QED
    BY <2>1, <2>2 DEF AppliedByPhase, Configured
<1>6. ASSUME NEW x \in Routes, ApplyRoute(x) PROVE AppliedByPhase'
  <2>1. /\ reload = "routes" /\ reload' = "routes" /\ x \in todo /\ todo' = todo \ {x} /\ next' = next
        /\ holds' = holds /\ todo \subseteq DOMAIN next.routes
    BY <1>6 DEF ApplyRoute, request, AdmissionType
  <2>2. next.routes[x] \in Nat /\ DOMAIN next.routes \subseteq Routes
    BY <1>0, <2>1, ConstantFacts
  <2>3. /\ \A l \in Shared : limit[l] = Configured(l, next)
        /\ \A y \in DOMAIN next.routes \ todo : RouteApplied(y, next)
    BY <2>1 DEF AppliedByPhase
  <2>4. ASSUME \A l \in Shared : limit'[l] = limit[l],
               registry'[x] # 0, limit'[<<x, registry'[x]>>] = next.routes[x],
               \A y \in Routes \ {x} : registry[y] # 0 =>
                  registry'[y] = registry[y] /\ limit'[<<y, registry[y]>>] = limit[<<y, registry[y]>>]
        PROVE  AppliedByPhase'
    <3>1. ASSUME NEW y \in DOMAIN next.routes \ todo'
          PROVE  registry'[y] # 0 /\ limit'[<<y, registry'[y]>>] = next.routes[y]
      <4>1. CASE y = x
        BY <2>4, <4>1
      <4>2. CASE y # x
        <5>1. y \in DOMAIN next.routes \ todo /\ y \in Routes
          BY <2>1, <2>2, <4>2
        <5>2. registry[y] # 0 /\ limit[<<y, registry[y]>>] = next.routes[y]
          BY <2>3, <5>1 DEF RouteApplied
        <5>. QED
          BY <2>4, <4>2, <5>1, <5>2
      <4>. QED
        BY <4>1, <4>2
    <3>. QED
      BY <2>1, <2>3, <2>4, <3>1 DEF AppliedByPhase, Configured, RouteApplied
  <2>5. CASE registry[x] = 0
    <3>1. Make(x, next.routes[x]) /\ Created
      BY <1>0, <1>6, <2>1, <2>5 DEF ApplyRoute, Created
    <3>2. registry'[x] = made[x] + 1 /\ made[x] + 1 \in 1 .. MaxMade /\ limit'[<<x, made[x] + 1>>] = next.routes[x]
      BY <2>2, <3>1, MakeFacts
    <3>3. registry'[x] # 0 /\ limit'[<<x, registry'[x]>>] = next.routes[x]
      BY <3>2, AdmissionAssumption
    <3>. QED
      BY <2>4, <3>1, <3>3, CreatedFacts
  <2>6. CASE registry[x] # 0
    <3>1. ResizeTo(<<x, registry[x]>>, next.routes[x]) /\ registry' = registry
      BY <1>6, <2>6 DEF ApplyRoute
    <3>2. ASSUME NEW y \in Routes, registry[y] # 0 PROVE <<y, registry[y]>> \in Names \ Shared
      <4>1. registry[y] \in 1 .. MaxMade
        BY <3>2, AdmissionAssumption DEF AdmissionType
      <4>. QED
        BY <4>1, NameFacts
    <3>3. <<x, registry[x]>> \in Names \ Shared
      BY <2>6, <3>2
    <3>4. /\ limit'[<<x, registry[x]>>] = next.routes[x]
          /\ \A l \in Names \ {<<x, registry[x]>>} : limit'[l] = limit[l]
      BY <2>1, <2>2, <3>1, <3>3, ResizeFacts
    <3>5. \A l \in Shared : limit'[l] = limit[l]
      BY <3>3, <3>4, NameFacts
    <3>6. \A y \in Routes \ {x} : registry[y] # 0 =>
            registry'[y] = registry[y] /\ limit'[<<y, registry[y]>>] = limit[<<y, registry[y]>>]
      BY <3>1, <3>2, <3>4
    <3>. QED
      BY <2>4, <2>6, <3>1, <3>4, <3>5, <3>6
  <2>. QED
    BY <2>5, <2>6
<1>7. CASE RetainRoutes
  <2>1. /\ reload = "routes" /\ todo = {} /\ reload' = "store" /\ next' = next /\ limit' = limit
        /\ registry' = [x \in Routes |-> IF x \in DOMAIN next.routes THEN registry[x] ELSE 0]
    BY <1>7 DEF RetainRoutes
  <2>2. \A x \in DOMAIN next.routes : registry'[x] = registry[x] /\ RouteApplied(x, next)
    BY <1>0, <2>1, ConstantFacts DEF AppliedByPhase
  <2>. QED
    BY <2>1, <2>2 DEF AppliedByPhase, InForce, RouteApplied, Configured
<1>8. CASE StorePolicy
  BY <1>8 DEF StorePolicy, AppliedByPhase, InForce, Configured, limiters
<1>. QED
  BY <1>1, <1>2, <1>3, <1>4, <1>5, <1>6, <1>7, <1>8 DEF Next, ReloadStep
-----------------------------------------------------------------------------
LEMMA AdmissionStart == Init => AdmissionInv
<1>. SUFFICES ASSUME Init PROVE AdmissionInv
  OBVIOUS
<1>1. /\ config \in Configs /\ next = config /\ registry = made /\ reload = "none"
      /\ made = [x \in Routes |-> IF x \in DOMAIN config.routes THEN 1 ELSE 0]
      /\ DOMAIN config.routes \subseteq Routes
  BY ConstantFacts DEF Init
<1>2. \A l \in Shared : limit[l] = Configured(l, config) /\ limit[l] \in Nat
  BY <1>1, NameFacts, ConfiguredType DEF Init
<1>3. ASSUME NEW x \in Routes, NEW k \in 1 .. MaxMade
      PROVE  /\ limit[<<x, k>>] = IF k = registry[x] THEN config.routes[x] ELSE 0
             /\ k = registry[x] => x \in DOMAIN config.routes
             /\ limit[<<x, k>>] \in Nat
  <2>1. <<x, k>> \in Names \ Shared
    BY NameFacts
  <2>2. limit[<<x, k>>] = IF k = registry[x] THEN config.routes[x] ELSE 0
    BY <2>1 DEF Init
  <2>3. k = registry[x] => x \in DOMAIN config.routes
    BY <1>1, AdmissionAssumption
  <2>. QED
    BY <1>1, <2>2, <2>3, ConstantFacts
<1>4. AdmissionType
  <2>1. limit \in [Names -> Nat] /\ debt \in [Names -> Nat]
    <3>1. \A l \in Names : limit[l] \in Nat
      BY <1>2, <1>3 DEF Names
    <3>2. limit = [l \in Names |-> limit[l]]
      BY DEF Init
    <3>. QED
      BY <3>1, <3>2 DEF Init
  <2>2. made \in [Routes -> 0 .. MaxMade] /\ \A x \in Routes : registry[x] <= made[x]
    BY <1>1, AdmissionAssumption
  <2>3. mine \in [Requests -> 0 .. MaxMade] /\ \A r \in Requests : mine[r] <= made[RouteOf[r]]
    BY <1>1, ConstantFacts, AdmissionAssumption DEF Init
  <2>. QED
    BY <1>1, <2>1, <2>2, <2>3 DEF Init, AdmissionType, Stages
<1>5. HoldsByStage
  BY DEF Init, HoldsByStage
<1>6. CeilingsHeld
  <2>. SUFFICES ASSUME NEW l \in Names PROVE Load(l) <= limit[l] + debt[l]
    BY DEF CeilingsHeld
  <2>1. UnitsOn(l, holds) = {}
    BY DEF UnitsOn, Init
  <2>2. Load(l) = 0
    BY <2>1, LoadIs, FS_EmptySet
  <2>. QED
    BY <1>4, <2>2 DEF AdmissionType
<1>7. LimitersFit
  <2>. SUFFICES ASSUME NEW r \in Requests
                PROVE  /\ Weight[r] <= limit[Global] /\ Weight[r] <= limit[TierPermit(r)]
                       /\ \A k \in 1 .. made[RouteOf[r]] : Weight[r] <= limit[<<RouteOf[r], k>>]
    BY DEF LimitersFit
  <2>1. RouteOf[r] \in Routes /\ TierPermit(r) \in Shared /\ Global \in Shared
    BY <1>4, ConstantFacts, PermitNames, NameFacts
  <2>2. ASSUME NEW k \in 1 .. made[RouteOf[r]] PROVE Weight[r] <= limit[<<RouteOf[r], k>>]
    <3>1. k = 1 /\ k = registry[RouteOf[r]] /\ RouteOf[r] \in DOMAIN config.routes /\ k \in 1 .. MaxMade
      BY <1>1, <2>1, AdmissionAssumption
    <3>. QED
      BY <1>1, <1>3, <2>1, <3>1, WeightsFit
  <2>. QED
    BY <1>1, <1>2, <2>1, <2>2, WeightsFit
<1>8. KeptHaveOne
  BY <1>1 DEF KeptHaveOne, KeptByAll
<1>9. AppliedByPhase
  <2>1. InForce(config)
    <3>1. ASSUME NEW x \in DOMAIN config.routes
          PROVE  registry[x] # 0 /\ limit[<<x, registry[x]>>] = config.routes[x]
      <4>1. x \in Routes /\ registry[x] = 1 /\ registry[x] \in 1 .. MaxMade
        BY <1>1, AdmissionAssumption
      <4>. QED
        BY <1>3, <4>1
    <3>. QED
      BY <1>2, <3>1 DEF InForce
  <2>. QED
    BY <1>1, <2>1 DEF AppliedByPhase
<1>. QED
  BY <1>4, <1>5, <1>6, <1>7, <1>8, <1>9 DEF AdmissionInv

LEMMA AdmissionStep == AdmissionInv /\ [Next]_vars => AdmissionInv'
<1>. SUFFICES ASSUME AdmissionInv, [Next]_vars PROVE AdmissionInv'
  OBVIOUS
<1>1. CASE Next
  <2>1. AdmissionType'
    BY <1>1, CeilingsStep, RegistryStep, HoldsStep, ReloadStepTyped DEF AdmissionInv, AdmissionType
  <2>. QED
    BY <1>1, <2>1, CeilingsStep, FitStep, KeptStep, HoldsStep, PhaseStep DEF AdmissionInv
<1>2. CASE UNCHANGED vars
  BY <1>2 DEF vars, limiters, request, reloading, AdmissionInv, AdmissionType, HoldsByStage, RoutePermit,
              TierPermit, CeilingsHeld, Load, LimitersFit, KeptHaveOne, KeptByAll, AppliedByPhase, InForce,
              RouteApplied, Configured
<1>. QED
  BY <1>1, <1>2

-----------------------------------------------------------------------------
(* Theorems                                                                *)

\* The inductive invariant: permits by stage, limiters by phase of a reload, and
\* the load of every limiter within its ceiling and debt.
THEOREM AdmissionInvariant == Spec => []AdmissionInv
<1>1. Init => AdmissionInv
  BY AdmissionStart
<1>2. AdmissionInv /\ [Next]_vars => AdmissionInv'
  BY AdmissionStep
<1>. QED
  BY <1>1, <1>2, PTL DEF Spec

\* No limiter is loaded beyond its ceiling and the debt of its shrinks, however
\* admissions, permit drops and the steps of apply_limits interleave.
THEOREM CeilingsAreHeld == Spec => []CeilingsHeld
<1>1. AdmissionInv => CeilingsHeld
  BY DEF AdmissionInv
<1>. QED
  BY <1>1, AdmissionInvariant, PTL

\* Work that holds the global permit is counted on its tier and its route, and
\* whoever has left admit holds nothing.
THEOREM WorkIsCounted == Spec => []CountedOnEveryCeiling
<1>1. AdmissionInv => CountedOnEveryCeiling
  <2>. SUFFICES ASSUME AdmissionInv, NEW r \in Requests
                PROVE  /\ Global \in holds[r] =>
                              /\ <<TierOf[r], 0>> \in holds[r]
                              /\ mine[r] # 0 => <<RouteOf[r], mine[r]>> \in holds[r]
                       /\ stage[r] \in {"idle", "arrived"} => holds[r] = {}
    BY DEF CountedOnEveryCeiling
  <2>1. Global \notin RoutePermit(r) /\ TierPermit(r) # Global
    BY PermitNames, NameFacts DEF AdmissionInv
  <2>2. Global \in holds[r] => holds[r] = RoutePermit(r) \cup {TierPermit(r), Global}
    BY <2>1 DEF AdmissionInv, HoldsByStage
  <2>. QED
    BY <2>2 DEF AdmissionInv, HoldsByStage, RoutePermit, TierPermit
<1>. QED
  BY <1>1, AdmissionInvariant, PTL

\* Requests of a route that no policy drops share one limiter, whichever
\* policies they pinned: the registry outlives the policies.
THEOREM RouteLimiterIsOne == Spec => []OneLimiterPerRoute
<1>1. AdmissionInv => OneLimiterPerRoute
  <2>. SUFFICES ASSUME AdmissionInv, NEW r \in Requests, NEW q \in Requests, RouteOf[r] = RouteOf[q],
                       KeptByAll(RouteOf[r]), mine[r] # 0, mine[q] # 0
                PROVE  mine[r] = mine[q]
    BY DEF OneLimiterPerRoute
  <2>1. made[RouteOf[r]] = 1
    BY ConstantFacts DEF AdmissionInv, KeptHaveOne
  <2>2. mine[r] \in Nat /\ mine[q] \in Nat /\ mine[r] <= 1 /\ mine[q] <= 1
    BY <2>1, AdmissionAssumption DEF AdmissionInv, AdmissionType
  <2>. QED
    BY <2>2
<1>. QED
  BY <1>1, AdmissionInvariant, PTL

\* A policy is swapped in only when its ceilings are in force, and they stay in
\* force until the next reload (reload resizes before it stores).
THEOREM ResizedBeforeSwapped == Spec => ResizeBeforeSwap
<1>1. AdmissionInv /\ AdmissionInv' /\ [Next]_vars =>
        [config' # config \/ reload' = "none" => ConfigInForce']_vars
  <2>. SUFFICES ASSUME AdmissionInv', Next, config' # config \/ reload' = "none"
                PROVE  ConfigInForce'
    BY DEF vars
  <2>1. reload' = "none"
    BY DEF Next, ReloadStep, Begin, Enter, Acquire, GiveUp, Finish, DropPermit, Leave, StartReload,
           ResizeGlobal, LockRoutes, RetainRoutes, StorePolicy, ResizeTier, ApplyRoute
  <2>. QED
    BY <2>1 DEF AdmissionInv, AppliedByPhase, ConfigInForce
<1>. QED
  BY <1>1, AdmissionInvariant, PTL DEF Spec, ResizeBeforeSwap

\* A limiter nobody holds has room for whoever fits its ceiling.
LEMMA Unloaded ==
    ASSUME AdmissionInv, NEW l \in Names, \A q \in Requests : l \notin holds[q],
           NEW r \in Requests, Weight[r] <= limit[l]
    PROVE  Room(l) >= Weight[r]
<1>1. UnitsOn(l, holds) = {}
  BY DEF UnitsOn
<1>2. Load(l) = 0
  BY <1>1, LoadIs, FS_EmptySet
<1>3. limit[l] \in Nat /\ debt[l] \in Nat /\ Weight[r] \in Nat
  BY ConstantFacts DEF AdmissionInv, AdmissionType
<1>. QED
  BY <1>2, <1>3 DEF Room

\* When everything under way waits, a wait on the widest ceiling that anyone
\* waits for is over: whoever holds that ceiling waits for nothing.
THEOREM WaitsAreNoStandoff == Spec => []NoStandoff
<1>1. AdmissionInv => NoStandoff
  <2>. SUFFICES ASSUME AdmissionInv, \E r \in Requests : Waiting(r),
                       \A r \in Requests : Waiting(r) \/ holds[r] = {}
                PROVE  \E r \in Requests : Waiting(r) /\ Room(Wanted(r)) >= Weight[r]
    BY DEF NoStandoff
  <2>1. ASSUME NEW r \in Requests
        PROVE  /\ RoutePermit(r) \subseteq Names \ Shared
               /\ TierPermit(r) \in Shared /\ TierPermit(r) # Global
               /\ Global \in Shared /\ Shared \subseteq Names
    BY PermitNames, NameFacts DEF AdmissionInv
  <2>2. ASSUME NEW r \in Requests
        PROVE  \/ holds[r] = {}
               \/ stage[r] = "tier" /\ holds[r] = RoutePermit(r)
               \/ stage[r] = "global" /\ holds[r] = RoutePermit(r) \cup {TierPermit(r)}
    BY DEF AdmissionInv, HoldsByStage, Waiting, After
  <2>3. CASE \E r \in Requests : stage[r] = "global"
    <3>1. PICK r \in Requests : stage[r] = "global"
      BY <2>3
    <3>2. \A q \in Requests : Global \notin holds[q]
      BY <2>1, <2>2
    <3>3. Room(Global) >= Weight[r]
      BY <2>1, <3>2, Unloaded DEF AdmissionInv, LimitersFit
    <3>4. Waiting(r) /\ Wanted(r) = Global
      BY <3>1 DEF Waiting, After, Wanted
    <3>. QED
      BY <3>3, <3>4
  <2>4. CASE /\ \A r \in Requests : stage[r] # "global"
             /\ \E r \in Requests : stage[r] = "tier"
    <3>1. PICK r \in Requests : stage[r] = "tier"
      BY <2>4
    <3>2. \A q \in Requests : TierPermit(r) \notin holds[q]
      BY <2>1, <2>2, <2>4
    <3>3. Room(TierPermit(r)) >= Weight[r]
      BY <2>1, <3>2, Unloaded DEF AdmissionInv, LimitersFit
    <3>4. Waiting(r) /\ Wanted(r) = TierPermit(r)
      BY <3>1 DEF Waiting, After, Wanted, TierPermit
    <3>. QED
      BY <3>3, <3>4
  <2>5. CASE \A r \in Requests : stage[r] \notin {"tier", "global"}
    <3>1. PICK r \in Requests : Waiting(r)
      OBVIOUS
    <3>2. stage[r] = "route" /\ Wanted(r) = <<RouteOf[r], mine[r]>>
      BY <2>5, <3>1 DEF Waiting, After, Wanted
    <3>3. /\ mine[r] \in 1 .. made[RouteOf[r]] /\ mine[r] \in 1 .. MaxMade
          /\ RouteOf[r] \in Routes
      <4>1. RouteOf[r] \in Routes
        BY ConstantFacts
      <4>2. mine[r] # 0
        BY <3>2 DEF AdmissionInv, HoldsByStage
      <4>3. /\ mine[r] \in 0 .. MaxMade /\ mine[r] <= made[RouteOf[r]]
            /\ made[RouteOf[r]] \in 0 .. MaxMade
        BY <4>1 DEF AdmissionInv, AdmissionType
      <4>4. MaxMade \in Nat
        BY AdmissionAssumption
      <4>. QED
        BY <4>1, <4>2, <4>3, <4>4
    <3>4. <<RouteOf[r], mine[r]>> \in Names
      BY <3>3, NameFacts
    <3>5. \A q \in Requests : holds[q] = {}
      BY <2>2, <2>5
    <3>6. Weight[r] <= limit[<<RouteOf[r], mine[r]>>]
      BY <3>3 DEF AdmissionInv, LimitersFit
    <3>7. Room(<<RouteOf[r], mine[r]>>) >= Weight[r]
      BY <3>4, <3>5, <3>6, Unloaded
    <3>. QED
      BY <3>1, <3>2, <3>7
  <2>. QED
    BY <2>3, <2>4, <2>5
<1>. QED
  BY <1>1, AdmissionInvariant, PTL
=============================================================================
