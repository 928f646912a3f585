----------------------------- MODULE Admission -----------------------------
(***************************************************************************)
(* Admission control (src/admission/mod.rs): a request takes room on its   *)
(* route, on its priority tier and on the global ceiling, in that order,   *)
(* and gives it back one permit at a time.  A reload (policy/reload.rs)    *)
(* resizes the same limiters step by step while requests are under way,    *)
(* and swaps the policy last.                                              *)
(*                                                                         *)
(* A limiter is what module Ceiling promises.  Route limiters are created  *)
(* on demand; <<route, k>> is the k-th one made for a route.               *)
(***************************************************************************)
EXTENDS Integers, FiniteSets, FiniteSetsExt

CONSTANTS
    Requests, Weight, MaxWeight,
    RouteOf, TierOf,    \* the route and the priority tier of each request
    Routes, Tiers,
    Configs,            \* [max, percent : [Tiers -> 0..100], routes : partial Routes -> max]
    MaxReloads,         \* bound: reloads in a behaviour
    MaxMade             \* bound: limiters made for a route

ASSUME AdmissionAssumption ==
    /\ RouteOf \in [Requests -> Routes] /\ TierOf \in [Requests -> Tiers]
    /\ Weight \in [Requests -> 1 .. MaxWeight]
    /\ IsFiniteSet(Requests) /\ MaxWeight \in Nat
    /\ MaxReloads \in Nat /\ MaxMade \in Nat \ {0}
    /\ "global" \notin Tiers
    /\ \A c \in Configs :
          /\ c.max \in Nat /\ c.percent \in [Tiers -> 0 .. 100]
          /\ DOMAIN c.routes \subseteq Routes /\ c.routes \in [DOMAIN c.routes -> Nat]

VARIABLES
    limit, debt,        \* of each limiter
    made, registry,     \* limiters made for a route; the registered one, or 0
    config,             \* the policy snapshot in force
    stage, policy, mine, holds,     \* of each request
    reload, next, todo, reloads     \* the reload under way

limiters == <<limit, debt, made, registry>>
request == <<stage, policy, mine, holds>>
reloading == <<reload, next, todo, reloads>>
vars == <<limiters, config, request, reloading>>

\* Limiters are pairs: a ceiling made once has number 0.
Global == <<"global", 0>>
Shared == {Global} \cup (Tiers \X {0})
Names == Shared \cup (Routes \X (1 .. MaxMade))

\* Units of a limiter in use, and what is left of it.
Load(l) ==
    Cardinality({u \in Requests \X (1 .. MaxWeight) : l \in holds[u[1]] /\ u[2] <= Weight[u[1]]})
Room(l) == limit[l] + debt[l] - Load(l)

\* A share that may round down to nothing.
TierCeilingMayBeZero(max, percent) == (max * percent) \div 100

\* A share of the global ceiling, rounded down and never zero.
TierCeiling(max, percent) == Max({(max * percent) \div 100, 1})

Configured(l, c) == IF l = Global THEN c.max ELSE TierCeiling(c.max, c.percent[l[1]])

\* check_route_weight refuses a configuration in which a request cannot be
\* admitted at all, because it weighs more than a ceiling it is charged to; it
\* works out the share of the tier by itself.  A request weighs the same under
\* every policy here.
WeightFits(r, c) ==
    /\ Weight[r] <= c.max /\ Weight[r] <= Max({(c.max * c.percent[TierOf[r]]) \div 100, 1})
    /\ RouteOf[r] \in DOMAIN c.routes => Weight[r] <= c.routes[RouteOf[r]]
ASSUME WeightAssumption == \A c \in Configs, r \in Requests : WeightFits(r, c)

-----------------------------------------------------------------------------
Init ==
    /\ config \in Configs
    /\ made = [x \in Routes |-> IF x \in DOMAIN config.routes THEN 1 ELSE 0]
    /\ registry = made
    /\ limit = [l \in Names |->
                    IF l \in Shared THEN Configured(l, config)
                    ELSE IF l[2] = registry[l[1]] THEN config.routes[l[1]] ELSE 0]
    /\ debt = [l \in Names |-> 0]
    /\ stage = [r \in Requests |-> "idle"]
    /\ policy = [r \in Requests |-> config]
    /\ mine = [r \in Requests |-> 0]
    /\ holds = [r \in Requests |-> {}]
    /\ reload = "none" /\ next = config /\ todo = {} /\ reloads = 0

\* new_ctx: the request pins the policy in force.
Begin(r) ==
    /\ stage[r] = "idle"
    /\ stage' = [stage EXCEPT ![r] = "arrived"]
    /\ policy' = [policy EXCEPT ![r] = config]
    /\ UNCHANGED <<limiters, config, mine, holds, reloading>>

\* Register a fresh limiter for a route.
Make(x, max) ==
    /\ made[x] < MaxMade
    /\ made' = [made EXCEPT ![x] = @ + 1]
    /\ registry' = [registry EXCEPT ![x] = made[x] + 1]
    /\ limit' = [limit EXCEPT ![<<x, made[x] + 1>>] = max]
    /\ UNCHANGED debt

\* A request of any class asks its first limiter, except that one whose class
\* consumes no origin permit passes admit without asking any.
Entry(first) == {first, "admitted"}

\* limiter_for and route_limiter: the registered limiter of the request's route,
\* or a new one with the ceiling of the pinned policy.  A reload holds the
\* registry while it applies the routes.
Limited(r) == RouteOf[r] \in DOMAIN policy[r].routes
LimiterFor(r) ==
    LET x == RouteOf[r] IN
    /\ reload # "routes"
    /\ IF Limited(r) /\ registry[x] = 0 THEN Make(x, policy[r].routes[x]) ELSE UNCHANGED limiters

\* proxy_upstream_filter asks for capacity.
Enter(r) ==
    /\ stage[r] = "arrived"
    /\ LimiterFor(r)
    /\ \/ Limited(r) /\ mine' = [mine EXCEPT ![r] = registry'[RouteOf[r]]]
       \/ ~Limited(r) /\ UNCHANGED mine
    /\ \E s \in Entry(IF Limited(r) THEN "route" ELSE "tier") : stage' = [stage EXCEPT ![r] = s]
    /\ UNCHANGED <<config, policy, holds, reloading>>

\* The limiter a request asks next, and the stage it reaches with it.
Wanted(r) ==
    CASE stage[r] = "route" -> <<RouteOf[r], mine[r]>>
      [] stage[r] = "tier" -> <<TierOf[r], 0>>
      [] stage[r] = "global" -> Global
After == [route |-> "tier", tier |-> "global", global |-> "admitted"]

Waiting(r) == stage[r] \in DOMAIN After

\* One acquire of admit returns a permit.  Units the semaphore has set aside for
\* a request that has not resumed yet are still room here.
Acquire(r) ==
    /\ Waiting(r) /\ Room(Wanted(r)) >= Weight[r]
    /\ holds' = [holds EXCEPT ![r] = @ \cup {Wanted(r)}]
    /\ stage' = [stage EXCEPT ![r] = After[stage[r]]]
    /\ UNCHANGED <<limiters, config, policy, mine, reloading>>

\* One acquire sheds (its queue is full or the shared deadline passed), or the
\* client goes away: the permits already taken are dropped.
GiveUp(r) ==
    /\ Waiting(r)
    /\ stage' = [stage EXCEPT ![r] = "dropping"]
    /\ UNCHANGED <<limiters, config, policy, mine, holds, reloading>>

\* The origin is done, or the admitted request ends in any other way.
Finish(r) ==
    /\ stage[r] = "admitted"
    /\ stage' = [stage EXCEPT ![r] = "dropping"]
    /\ UNCHANGED <<limiters, config, policy, mine, holds, reloading>>

DropsRouteFirst(r) ==
    IF <<RouteOf[r], mine[r]>> \in holds[r] THEN <<RouteOf[r], mine[r]>>
    ELSE IF <<TierOf[r], 0>> \in holds[r] THEN <<TierOf[r], 0>> ELSE Global

\* The permit dropped next: the global one, then its companions, tier and route.
DropsNext(r) ==
    IF Global \in holds[r] THEN Global
    ELSE IF <<TierOf[r], 0>> \in holds[r] THEN <<TierOf[r], 0>> ELSE <<RouteOf[r], mine[r]>>

\* Permit::drop on one limiter pays what that limiter's shrink still owes.
DropPermit(r) ==
    /\ stage[r] = "dropping" /\ holds[r] # {}
    /\ LET l == DropsNext(r)
       IN /\ holds' = [holds EXCEPT ![r] = @ \ {l}]
          /\ debt' = [debt EXCEPT ![l] = @ - Min({@, Weight[r]})]
    /\ UNCHANGED <<limit, made, registry, config, stage, policy, mine, reloading>>

\* logging looks the limiter up again to publish its gauges.
Leave(r) ==
    /\ stage[r] = "dropping" /\ holds[r] = {}
    /\ LimiterFor(r)
    /\ stage' = [stage EXCEPT ![r] = "idle"]
    /\ mine' = [mine EXCEPT ![r] = 0]
    /\ UNCHANGED <<config, policy, holds, reloading>>

-----------------------------------------------------------------------------
(* A reload: apply_limits resizes the global ceiling, the tiers and, holding *)
(* the registry, the routes; then the new policy is stored.                  *)

SwapBeforeResize(c) ==
    /\ reload = "none" /\ reloads < MaxReloads
    /\ reload' = "global" /\ next' = c /\ reloads' = reloads + 1 /\ config' = c
    /\ UNCHANGED <<limiters, request, todo>>

StartReload(c) ==
    /\ reload = "none" /\ reloads < MaxReloads
    /\ reload' = "global" /\ next' = c /\ reloads' = reloads + 1
    /\ UNCHANGED <<limiters, config, request, todo>>

\* A shrink that forgets to record what it could not take back.
ResizeForgetsDebt(l, n) ==
    /\ limit' = [limit EXCEPT ![l] = n]
    /\ UNCHANGED debt

\* Limiter::resize.  Units set aside for requests still in the queue cannot be
\* forgotten, so a shrink may forget fewer than there is room for.
ResizeTo(l, n) ==
    /\ limit' = [limit EXCEPT ![l] = n]
    /\ \/ n >= limit[l] /\ debt' = [debt EXCEPT ![l] = @ - Min({@, n - limit[l]})]
       \/ /\ n < limit[l]
          /\ \E forgotten \in 0 .. Min({Room(l), limit[l] - n}) :
                debt' = [debt EXCEPT ![l] = @ + (limit[l] - n - forgotten)]

ResizeGlobal ==
    /\ reload = "global"
    /\ ResizeTo(Global, next.max)
    /\ reload' = "tiers" /\ todo' = Tiers
    /\ UNCHANGED <<made, registry, config, request, next, reloads>>

ResizeTier(t) ==
    /\ reload = "tiers" /\ t \in todo
    /\ ResizeTo(<<t, 0>>, Configured(<<t, 0>>, next))
    /\ todo' = todo \ {t}
    /\ UNCHANGED <<made, registry, config, request, reload, next, reloads>>

LockRoutes ==
    /\ reload = "tiers" /\ todo = {}
    /\ reload' = "routes" /\ todo' = DOMAIN next.routes
    /\ UNCHANGED <<limiters, config, request, next, reloads>>

\* Limiters are replaced rather than resized.
ApplyRouteReplaces(x) ==
    /\ reload = "routes" /\ x \in todo
    /\ Make(x, next.routes[x])
    /\ todo' = todo \ {x}
    /\ UNCHANGED <<config, request, reload, next, reloads>>

ApplyRoute(x) ==
    /\ reload = "routes" /\ x \in todo
    /\ IF registry[x] = 0 THEN Make(x, next.routes[x])
       ELSE ResizeTo(<<x, registry[x]>>, next.routes[x]) /\ UNCHANGED <<made, registry>>
    /\ todo' = todo \ {x}
    /\ UNCHANGED <<config, request, reload, next, reloads>>

\* A limiter whose route is gone leaves the registry, and lives on in the
\* requests that hold it.
RetainRoutes ==
    /\ reload = "routes" /\ todo = {}
    /\ registry' = [x \in Routes |-> IF x \in DOMAIN next.routes THEN registry[x] ELSE 0]
    /\ reload' = "store"
    /\ UNCHANGED <<limit, debt, made, config, request, next, todo, reloads>>

StorePolicy ==
    /\ reload = "store"
    /\ config' = next /\ reload' = "none"
    /\ UNCHANGED <<limiters, request, next, todo, reloads>>

ReloadStep ==
    \/ ResizeGlobal \/ LockRoutes \/ RetainRoutes \/ StorePolicy
    \/ \E t \in Tiers : ResizeTier(t)
    \/ \E x \in Routes : ApplyRoute(x)

Next ==
    \/ \E r \in Requests :
          \/ Begin(r) \/ Enter(r) \/ Acquire(r) \/ GiveUp(r)
          \/ Finish(r) \/ DropPermit(r) \/ Leave(r)
    \/ \E c \in Configs : StartReload(c)
    \/ ReloadStep

Spec == Init /\ [][Next]_vars
-----------------------------------------------------------------------------
(* Properties *)

\* No limiter is ever loaded beyond its ceiling and the debt of its shrinks,
\* on any mix of policies pinned by requests and steps of a reload.
CeilingsHeld == \A l \in Names : Load(l) <= limit[l] + debt[l]

\* Work on the origin is counted on every ceiling it passed: whoever holds the
\* global permit holds the tier's and the route's (Permits::into_inner and the
\* order in which the collapsed permit is dropped), and one that was refused,
\* cancelled or finished holds nothing.
CountedOnEveryCeiling ==
    \A r \in Requests :
        /\ Global \in holds[r] =>
              /\ <<TierOf[r], 0>> \in holds[r]
              /\ mine[r] # 0 => <<RouteOf[r], mine[r]>> \in holds[r]
        /\ stage[r] \in {"idle", "arrived"} => holds[r] = {}

\* The ceilings in force are those of policy c.
InForce(c) ==
    /\ \A l \in Shared : limit[l] = Configured(l, c)
    /\ \A x \in DOMAIN c.routes :
          registry[x] # 0 /\ limit[<<x, registry[x]>>] = c.routes[x]

\* "Resize before swapping: a request arriving on the new policy should never
\* find the old ceiling still in force" (policy/reload.rs), and they stay those of
\* the policy until the next reload, although requests pinned to an older one
\* still create and look up limiters.
ConfigInForce == InForce(config)
ResizeBeforeSwap == [][config' # config \/ reload' = "none" => ConfigInForce']_vars

\* The registry outlives a policy ("a limiter carries in-flight state that a
\* policy swap must not discard"): the requests of a route that every policy
\* keeps are on one limiter, whichever policies they pinned.
KeptByAll(x) == \A c \in Configs : x \in DOMAIN c.routes
OneLimiterPerRoute ==
    \A r, q \in Requests :
        /\ RouteOf[r] = RouteOf[q] /\ KeptByAll(RouteOf[r])
        /\ mine[r] # 0 /\ mine[q] # 0
        => mine[r] = mine[q]

\* Waiting on a wide ceiling while holding narrow ones is no standoff: when all
\* that is under way waits, in any order of arrival and at any step of a reload,
\* one of the waits is over.
NoStandoff ==
    /\ \E r \in Requests : Waiting(r)
    /\ \A r \in Requests : Waiting(r) \/ holds[r] = {}
    => \E r \in Requests : Waiting(r) /\ Room(Wanted(r)) >= Weight[r]
=============================================================================
