------------------------------ MODULE Generate ------------------------------
(***************************************************************************)
(* How @harmost/next turns a Next.js build and the operator's assertions   *)
(* into a configuration (packages/harmost-next/src/routes.js, capacity.js, *)
(* policy.js, manifests.js).                                               *)
(*                                                                         *)
(* A Next route name is a sequence of segments: literal ones and the       *)
(* dynamic [x], [...x] and [[...x]].  A step that throws yields the empty  *)
(* set, one that returns yields the singleton of its result.               *)
(***************************************************************************)
EXTENDS Routing, SequencesExt

CONSTANT Texts          \* each text's number of characters and alphabetical rank

Dyn(text) == [kind |-> "dyn", text |-> text]
All(text) == [kind |-> "all", text |-> text]
Opt(text) == [kind |-> "opt", text |-> text]

Root == <<Lit("")>>
Literal(path) == [i \in DOMAIN path |-> Lit(path[i])]
-----------------------------------------------------------------------------
(* capacity.js *)

positiveInteger(value) == value \in Nat /\ value >= 1

\* One local ceiling, or an equal share of a group's budget for each replica.
resolveCapacity(o, requireExplicit) ==
    IF o.globalConcurrency # {} \/ o.replicas # {}
    THEN {[concurrency |-> globalMax \div replicas,
           group |-> {CapacityGroup(globalMax, replicas)}] :
             globalMax \in {g \in o.globalConcurrency : positiveInteger(g)},
             replicas \in {r \in o.replicas :
                /\ positiveInteger(r) /\ o.concurrency = {}
                /\ \A g \in o.globalConcurrency : g \div r >= 1}}
    ELSE {[concurrency |-> c, group |-> {}] :
            c \in IF o.concurrency # {} THEN {n \in o.concurrency : positiveInteger(n)}
                  ELSE IF requireExplicit THEN {} ELSE {200}}
-----------------------------------------------------------------------------
(* manifests.js *)

\* A name that starts with an underscore; "_" stands for all of them.
Internal(page) == page[1].text = "_"

\* A version nobody has verified is refused; only routes-manifest.json must exist.
parseManifest(dist) == dist.routesVersion = 3 /\ dist.prerenderVersion \in {{}, {4}}

\* The build as the generator uses it; an empty BUILD_ID identifies nothing.
assemble(dist) ==
    IF dist.buildId = "" THEN {}
    ELSE {[identity |-> IF dist.deploymentId = {} THEN dist.buildId ELSE The(dist.deploymentId),
           buildId |-> dist.buildId, basePath |-> dist.basePath,
           staticRoutes |-> dist.staticRoutes, dynamicRoutes |-> dist.dynamicRoutes,
           prerendered |-> IF dist.prerenderVersion = {} THEN {} ELSE dist.prerendered,
           appPaths |-> dist.appPaths,
           pagePaths |-> {page \in dist.pagePaths :
                ~Internal(page) /\ page \notin {Literal(<<"404">>), Literal(<<"500">>)}}]}

readBuildSync(dist) == IF parseManifest(dist) THEN assemble(dist) ELSE {}

handlersOf(b) == {a.route : a \in {x \in b.appPaths : x.file = "route"}}
prerenderedOf(b) == {Literal(e.route) : e \in {x \in b.prerendered : x.route[1] # "_"}}
pagesOf(b) == {page \in b.staticRoutes \cup b.dynamicRoutes \cup b.pagePaths : ~Internal(page)}
-----------------------------------------------------------------------------
(* policy.js *)

POLICY_VERSION == 1
SAFE_METHODS == {"GET", "HEAD"}

\* A name loses its trailing slashes, except the root's.
normalizeRouteName(name) ==
    LET named == {i \in DOMAIN name : name[i] # Lit("")}
    IN  IF named = {} THEN Root ELSE SubSeq(name, 1, Max(named))

\* The assertions hold against the build: each names exactly one page or
\* handler, a public one states its ttl and only safe methods, a private one
\* enables nothing, a handler is never public and a prerendered page needs none.
\* A repeated or malformed name of a list is "?".
validRoute(route, b) ==
    LET name == normalizeRouteName(route.name) IN
        /\ route.privacy \in {"public", "private"}
        /\ \A weight \in route.weight : weight \in 1..65535
        /\ \A priority \in route.priority : priority \in {"high", "normal", "low"}
        /\ \A methods \in route.methods : methods # {} /\ "?" \notin methods
        /\ \A cache \in route.cache :
            /\ \A duration \in cache.ttl \cup cache.stale_if_error : duration > 0
            /\ \A names \in cache.query \cup cache.vary : names # {} /\ "?" \notin names
            /\ \A headers \in cache.vary :
                headers \cap {"cookie", "authorization", "user-agent", "*"} = {}
        /\ route.privacy = "private" => route.cache = {} /\ route.coalesce # {TRUE}
        /\ route.privacy = "public" =>
            /\ \E cache \in route.cache : cache.ttl # {}
            /\ \A methods \in route.methods : methods \subseteq SAFE_METHODS
            /\ name \notin handlersOf(b)
        /\ name \in (pagesOf(b) \ handlersOf(b)) \cup handlersOf(b)
        /\ name \notin prerenderedOf(b)

\* The assertions by normalized name.
validatePolicy(p, b) ==
    IF /\ p.version = POLICY_VERSION
       /\ \A r, s \in p.routes :
            normalizeRouteName(r.name) = normalizeRouteName(s.name) => r = s
       /\ \A r \in p.routes : validRoute(r, b)
    THEN {{[r EXCEPT !.name = normalizeRouteName(@)] : r \in p.routes}}
    ELSE {}

assertionFor(policy, page) == {a \in policy : a.name = normalizeRouteName(page)}
-----------------------------------------------------------------------------
(* routes.js *)

\* A dynamic segment becomes a star; an optional catch-all also matches its parent.
toGlob(page) ==
    LET n == Len(page)
        stars == [i \in 1..n |-> IF page[i].kind = "lit" THEN page[i] ELSE Star]
        parent == SubSeq(stars, 1, n - 1)
    IN  IF page[n].kind = "opt"
        THEN {IF parent = <<>> THEN Root ELSE parent, stars}
        ELSE {stars}

\* The words of a name, and the first of name, name-2, name-3, ... not taken.
words(page) == SelectSeq([i \in DOMAIN page |-> page[i].text], LAMBDA t : t # "")
routeId(base, taken) ==
    LET id(n) == IF n = 1 THEN base ELSE Append(base, ToString(n))
    IN  id(CHOOSE n \in 1..(Cardinality(taken) + 1) :
            id(n) \notin taken /\ \A k \in 1..(n - 1) : id(k) \in taken)

brackets(page) ==
    MapThenSumSet(LAMBDA i : CASE page[i].kind = "lit" -> 0
                               [] page[i].kind = "opt" -> 2
                               [] OTHER -> 1, DOMAIN page)
characters(page) ==
    MapThenSumSet(LAMBDA i : 1 + Texts[page[i].text].width
                               + (CASE page[i].kind = "lit" -> 0 [] page[i].kind = "dyn" -> 2
                                    [] page[i].kind = "all" -> 5 [] OTHER -> 7), DOMAIN page)

\* Punctuation collates before letters and digits, a dot before a bracket.
collation(segment) ==
    CASE segment.kind = "all" -> 0 [] segment.kind = "opt" -> 1
      [] segment.kind = "dyn" -> 2 [] OTHER -> 3

localeCompare(left, right) ==
    \/ \E i \in DOMAIN left \cap DOMAIN right :
        /\ SubSeq(left, 1, i - 1) = SubSeq(right, 1, i - 1)
        /\ \/ collation(left[i]) < collation(right[i])
           \/ /\ collation(left[i]) = collation(right[i])
              /\ Texts[left[i].text].rank < Texts[right[i].text].rank
    \/ Len(left) < Len(right) /\ left = SubSeq(right, 1, Len(left))

\* Fewer dynamic segments first, then the longer name.
compareRouteSpecificity(left, right) ==
    \/ brackets(left) < brackets(right)
    \/ /\ brackets(left) = brackets(right)
       /\ \/ characters(left) > characters(right)
          \/ characters(left) = characters(right) /\ localeCompare(left, right)

\* The members of a set in an order (a set of pairs) that is total on them.
inOrder(S, before) ==
    [i \in 1..Cardinality(S) |-> CHOOSE x \in S : Cardinality({y \in S : <<y, x>> \in before}) = i - 1]

\* The alphabet's order alone.
alphabetical(pages) == inOrder(pages, {p \in pages \X pages : localeCompare(p[1], p[2])})

sorted(pages) == inOrder(pages, {p \in pages \X pages : compareRouteSpecificity(p[1], p[2])})

emitMatch(glob, assertion) ==
    [host |-> {}, path |-> glob, methods |-> UNION {a.methods : a \in assertion}]

\* The weight and priority an assertion states, or the defaults.
emitShare(route, assertion) ==
    [route EXCEPT !.weight = IF \A a \in assertion : a.weight = {} THEN @
                             ELSE The(UNION {a.weight : a \in assertion}),
                  !.priority = IF \A a \in assertion : a.priority = {} THEN @
                               ELSE The(UNION {a.priority : a \in assertion})]

Private(route) ==
    [route EXCEPT !.class = {"private_dynamic"}, !.cache = {[RouteCache EXCEPT !.enabled = {FALSE}]}]

\* What is asserted public is shared against the origin's own headers; all else
\* is private.
emitAssertion(route, assertion, rollout) ==
    IF \A a \in assertion : a.privacy # "public"
    THEN Private(emitShare(route, assertion))
    ELSE LET a == The(assertion)
             cache == The(a.cache)
             enabled == rollout # "protect" /\ a.coalesce # {FALSE}
         IN  [emitShare(route, assertion) EXCEPT
                !.class = {"public_ssr"},
                !.cache = {[RouteCache EXCEPT !.override_origin = TRUE, !.ttl_max = cache.ttl,
                    !.stale_if_error = cache.stale_if_error,
                    !.query = cache.query, !.vary = cache.vary]},
                !.coalesce = {[enabled |-> {enabled},
                    override_origin |-> rollout = "coalesce" /\ enabled]}]

\* The image optimiser's share of a small ceiling, and the tier it needs.
imageUsesPriority(o, concurrency) == o.upstreams = <<>> \/ concurrency > 1
imageWeight(o, concurrency) ==
    IF o.upstreams = <<>> THEN 4 ELSE Min({4, Max({1, concurrency - 1})})
LowPriorityPercent == 30

\* Rounded down.
flooredLowPriorityPercent(o, concurrency) ==
    LET needed == (imageWeight(o, concurrency) * 100) \div concurrency
    IN  IF o.upstreams # <<>> /\ imageUsesPriority(o, concurrency)
        THEN Max({LowPriorityPercent, needed}) ELSE LowPriorityPercent

effectiveLowPriorityPercent(o, concurrency) ==
    LET needed == (imageWeight(o, concurrency) * 100 + concurrency - 1) \div concurrency
    IN  IF o.upstreams # <<>> /\ imageUsesPriority(o, concurrency)
        THEN Max({LowPriorityPercent, needed}) ELSE LowPriorityPercent
-----------------------------------------------------------------------------
Entry(base, glob) == [base |-> base, route |-> Route(<<>>, glob)]

BuildOutput(b) ==
    [Entry(<<"next", "static">>, {Literal(b.basePath \o <<"_next", "static">>) \o <<Star>>})
        EXCEPT !.route.class = {"static"}]

ImageOptimiser(b, o, concurrency) ==
    [Entry(<<"next", "image">>, {Literal(b.basePath \o <<"_next", "image">>)}) EXCEPT
        !.route.class = {"public_dynamic"},
        !.route.priority = IF imageUsesPriority(o, concurrency) THEN "low" ELSE @,
        !.route.weight = imageWeight(o, concurrency),
        !.route.cache = {[RouteCache EXCEPT !.ttl_max = {3600000},
                            !.query = {{"url", "w", "q"}}, !.vary = {{"accept"}}]}]

\* The payload of a Pages Router page has a URL of its own; ".json" closes its
\* last segment.
DataPayload(b, policy, rollout, page) ==
    LET assertion == assertionFor(policy, page)
        paths == {Literal(b.basePath \o <<"_next", "data", b.buildId>>) \o g \o <<Lit(".json")>> :
                    g \in toGlob(IF page = Root THEN Literal(<<"index">>) ELSE page)}
    IN  [Entry(<<"data">> \o words(page), paths) EXCEPT
            !.route = emitAssertion([@ EXCEPT !.matcher = emitMatch(paths, assertion)],
                                    assertion, rollout)]

\* Next made one response for everybody: the build is the evidence.
Prerendered(b, rollout, entry) ==
    [Entry(<<"page">> \o words(Literal(entry.route)), {Literal(b.basePath \o entry.route)}) EXCEPT
        !.route.class = {"public_ssr"},
        !.route.cache = {[RouteCache EXCEPT !.override_origin = TRUE,
            !.ttl_max = {IF entry.revalidate > 0 THEN entry.revalidate ELSE 3600000},
            !.stale_if_error = {60000}]},
        !.route.coalesce = {[RouteCoalesce EXCEPT !.enabled = {rollout \in {"coalesce", "cache"}}]}]

Handler(b, policy, page) ==
    LET assertion == assertionFor(policy, page)
        paths == {Literal(b.basePath) \o g : g \in toGlob(page)}
    IN  [Entry(<<"api">> \o words(page), paths) EXCEPT
            !.route = Private(emitShare([@ EXCEPT !.matcher = emitMatch(paths, assertion)],
                                        assertion))]

DynamicPage(b, policy, rollout, page) ==
    LET assertion == assertionFor(policy, page)
        paths == {Literal(b.basePath) \o g : g \in toGlob(page)}
    IN  [Entry(<<"page">> \o words(page), paths) EXCEPT
            !.route = emitAssertion([@ EXCEPT !.matcher = emitMatch(paths, assertion)],
                                    assertion, rollout)]

Anything(b) ==
    [Entry(<<"default">>, {Literal(b.basePath) \o <<Star>>}) EXCEPT !.route = Private(@)]

\* The routes in file order, each given its id in that order.
routesOf(b, policy, o, concurrency) ==
    LET payloads == sorted(b.pagePaths)
        shown == {e \in b.prerendered : e.route[1] # "_"}
        prerendered == inOrder(shown, {p \in shown \X shown :
            localeCompare(Literal(p[1].route), Literal(p[2].route))})
        handlers == sorted(handlersOf(b))
        pages == sorted(pagesOf(b) \ (prerenderedOf(b) \cup handlersOf(b)))
        entries ==
            <<BuildOutput(b), ImageOptimiser(b, o, concurrency)>>
            \o [i \in DOMAIN payloads |-> DataPayload(b, policy, o.rollout, payloads[i])]
            \o [i \in DOMAIN prerendered |-> Prerendered(b, o.rollout, prerendered[i])]
            \o [i \in DOMAIN handlers |-> Handler(b, policy, handlers[i])]
            \o [i \in DOMAIN pages |-> DynamicPage(b, policy, o.rollout, pages[i])]
            \o <<Anything(b)>>
        ids == FoldLeft(LAMBDA taken, e : Append(taken, routeId(e.base, ToSet(taken))),
                        <<>>, entries)
    IN  [i \in DOMAIN entries |-> [entries[i].route EXCEPT !.id = ids[i]]]

\* What the file says once Harmost has filled in the defaults.  Without
\* upstreams it is a fragment: it has no origin section.
generateConfig(b, o, policyInput) ==
    {[Defaults EXCEPT
        !.mode = IF o.rollout = "observe" THEN "observe" ELSE "protect",
        !.cache.enabled = o.rollout \notin {"protect", "coalesce"},
        !.coalesce.enabled = o.rollout # "protect",
        !.deployment.id = IF o.includeDeployment THEN {b.identity} ELSE {},
        !.origin = IF o.upstreams = <<>> THEN @
            ELSE [@ EXCEPT !.upstreams = o.upstreams, !.concurrency.max = capacity.concurrency,
                           !.priorities.low =
                                IF imageUsesPriority(o, capacity.concurrency)
                                THEN effectiveLowPriorityPercent(o, capacity.concurrency) ELSE @],
        !.capacity = capacity.group,
        !.routes = routesOf(b, policy, o, capacity.concurrency)] :
          capacity \in IF o.rollout \in {"observe", "protect", "coalesce", "cache"}
                       THEN resolveCapacity(o, FALSE) ELSE {},
          policy \in IF policyInput = {} THEN {{}} ELSE validatePolicy(The(policyInput), b)}
=============================================================================
