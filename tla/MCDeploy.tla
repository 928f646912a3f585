------------------------------ MODULE MCDeploy ------------------------------
EXTENDS Deploy

CONSTANTS r1, r2

MCReplicas == {r1, r2}
MCConfiguredToken == [r \in MCReplicas |-> {"t"}]
MCOwnTokens == {{}, {"t"}, {"u"}}

MCTexts ==
    LET text(width, rank) == [width |-> width, rank |-> rank] IN
        "" :> text(0, 0) @@ "_" :> text(4, 1) @@ "404" :> text(3, 2) @@ "500" :> text(3, 3)
        @@ "a" :> text(1, 4) @@ "api" :> text(3, 5) @@ "blog" :> text(4, 6)
        @@ "id" :> text(2, 7) @@ "me" :> text(2, 8) @@ "one" :> text(3, 9)
        @@ "post" :> text(4, 10) @@ "slug" :> text(4, 11) @@ "two" :> text(3, 12)
        @@ "x" :> text(1, 13) @@ "y" :> text(1, 14)
-----------------------------------------------------------------------------
(* Files written by hand: one change each to a file that loads *)

Anywhere == {<<Star>>}
Base == [Defaults EXCEPT !.origin.upstreams = <<"a:1", "b:1">>,
                         !.routes = <<Route(<<"all">>, Anywhere)>>]
Token == [len |-> 24, graphic |-> TRUE]
AdminAt(port) == {Admin(Socket("0.0.0.0", port))}
Ceiled(max) == [max |-> max, queue |-> Queue]
With(route) == [Base EXCEPT !.routes = <<route>>]
Page == Base.routes[1]

ServerEdits ==
    {[Base EXCEPT !.server.listen = l] : l \in {Socket("::", 8080), Socket("", 0)}}
    \cup {[Base EXCEPT !.server.h2c = TRUE], [Base EXCEPT !.version = 2]}
    \cup {[Base EXCEPT !.server.tls = {tls}] :
            tls \in {ServerTls(Base.server.listen), ServerTls(Socket("0.0.0.0", 8443)),
                     [ServerTls(Socket("::", 8443)) EXCEPT !.cert = "missing"]}}
    \cup {[Base EXCEPT !.server.trusted_proxies.from = {b}] :
            b \in {Block(V4(4), {1}), Block(V4(4), {V4Bits + 1})}}
    \cup {[Base EXCEPT !.server.trusted_proxies.client_ip = "forwarded"],
          [Base EXCEPT !.server.graceful.shutdown_timeout = 0],
          [Base EXCEPT !.server.graceful.drain_period = 0],
          [Base EXCEPT !.server.graceful.pid_file = Graceful.upgrade_socket]}
    \cup {[Base EXCEPT !.telemetry.prometheus = {Socket(ip, 9090)}] : ip \in {"127.0.0.1", ""}}
    \cup {[Base EXCEPT !.telemetry.admin = AdminAt(port)] : port \in {8080, 9091}}
    \cup {[Base EXCEPT !.telemetry.admin = {[listen |-> Socket("0.0.0.0", 9091),
            require_healthy_upstream |-> TRUE]}, !.health = h] : h \in {{}, {Health}}}
    \cup {[Base EXCEPT !.cache.purge = {Token}, !.telemetry.admin = a] : a \in {{}, AdminAt(9091)}}
    \cup {[Base EXCEPT !.telemetry.tracing.otlp = {otlp}] :
            otlp \in {Otlp, [Otlp EXCEPT !.max_batch = 4096], [Otlp EXCEPT !.endpoint = "?"]}}
    \cup {[Base EXCEPT !.telemetry.tracing.service_name = {name}] : name \in {"", "shop"}}
    \cup {[Base EXCEPT !.telemetry.tracing.sample.one_in = n] : n \in {0, 2}}

OriginEdits ==
    {[Base EXCEPT !.origin.upstreams = u] : u \in {<<>>, <<"a:1">>, <<"a:1", "?">>}}
    \cup {[Base EXCEPT !.origin.concurrency.max = n] : n \in {0, 3, MaxPermits, MaxPermits + 1}}
    \cup {[Base EXCEPT !.origin.concurrency.queue = q] :
            q \in {[max |-> 1, timeout |-> 0], [max |-> 1, timeout |-> 100],
                   [max |-> 1, timeout |-> MAX_QUEUE_TIMEOUT + 1]}}
    \cup {[Base EXCEPT !.capacity = {CapacityGroup(g, 2)}] : g \in {999, 1000}}
    \cup {[Base EXCEPT !.origin.tls = {tls}, !.origin.http_version = v] :
            tls \in {OriginTls, [OriginTls EXCEPT !.verify_cert = FALSE]}, v \in {"http1", "auto"}}
    \cup {[Base EXCEPT !.origin.http_version = "auto"], [Base EXCEPT !.origin.http_version = "http2"],
          [Base EXCEPT !.origin.load_balancing = "least_loaded"],
          [Base EXCEPT !.origin.resolve_interval = 0], [Base EXCEPT !.timeouts.origin = 20000]}
    \cup {[Base EXCEPT !.origin.breaker = [Breaker EXCEPT !.enabled = TRUE,
            !.max_ejected_percent = n]] : n \in {49, 50}}
    \cup {[Base EXCEPT !.origin.retry = [Retry EXCEPT !.enabled = TRUE,
            !.max_attempts = n]] : n \in {1, 2}}
    \cup {[Base EXCEPT !.origin.priorities.low = n] : n \in {0, 30}}
    \cup {[Base EXCEPT !.health = {h}] : h \in {Health, [Health EXCEPT !.healthy_after = 0]}}

BudgetEdits ==
    {[Base EXCEPT !.cache.max_memory = n] : n \in {0, 2, 4}}
    \cup {[Base EXCEPT !.cache.eviction = "fifo"], [Base EXCEPT !.cache.tag_header = "cookie"],
          [Base EXCEPT !.cache.tag_header = "tags"], [Base EXCEPT !.cache.respect_origin = FALSE]}
    \cup {[Base EXCEPT !.coalesce.wait_timeout = {n}] : n \in {29999, 30000}}
    \cup {[Base EXCEPT !.spool.max_body = n] : n \in {0, 256, 257}}
    \cup {[Base EXCEPT !.spool.max_memory = 512], [Base EXCEPT !.overload.status = 399],
          [Base EXCEPT !.upgrade = [enabled |-> TRUE, max_concurrent |-> 0]],
          [Base EXCEPT !.upgrade.max_concurrent = 5]}
    \cup {[Base EXCEPT !.deployment.id = {id}] : id \in {"b1", "?"}}

RouteEdits ==
    {With([Page EXCEPT !.weight = w, !.concurrency = {Ceiled(2)}]) : w \in {0, 2, 3}}
    \cup {[With([Page EXCEPT !.weight = w, !.priority = "low"])
            EXCEPT !.origin.concurrency.max = 10, !.origin.priorities.low = p] :
                w \in {3, 4}, p \in {39, 40, 100}}
    \cup {With([Page EXCEPT !.class = {k}, !.cache = {[RouteCache EXCEPT !.enabled = {TRUE},
            !.ttl_max = {1000}, !.override_origin = o]}]) :
                k \in {"private_dynamic", "public_ssr"}, o \in BOOLEAN}
    \cup {With([Page EXCEPT !.cache = {[RouteCache EXCEPT !.vary = {{h}}]}]) :
            h \in {"accept", "cookie"}}
    \cup {With([Page EXCEPT !.class = {"streaming"}, !.spool = {TRUE}]),
          With([Page EXCEPT !.matcher.methods = {{"PURGE"}}]),
          With([Page EXCEPT !.coalesce = {[enabled |-> {FALSE}, override_origin |-> TRUE]}]),
          [Base EXCEPT !.routes = <<Page, Page>>]}

Direct(from) ==
    [from |-> from, hops |-> <<>>, header |-> "x_forwarded", claims |-> <<>>, proto |-> {},
     listener |-> "http", traceparent |-> {}, tracestate |-> {}]
Get(path) == [host |-> "site", method |-> "GET", path |-> path]

EditedSite ==
    [installed |-> {Base}, edits |-> ServerEdits \cup OriginEdits \cup BudgetEdits \cup RouteEdits,
     inputs |-> {}, requests |-> {Get(<<"a">>)}, journeys |-> {Direct(V4(0))}, drawn |-> {6},
     revalidates |-> FALSE]
-----------------------------------------------------------------------------
(* Builds: an application of every kind of page, mounted at the root and not *)

Dist ==
    [routesVersion |-> 3, prerenderVersion |-> {4}, buildId |-> "b1", deploymentId |-> {},
     basePath |-> <<>>,
     staticRoutes |-> {Root, Literal(<<"a">>), Literal(<<"a", "me">>), <<Lit("_")>>},
     dynamicRoutes |-> {<<Lit("a"), Dyn("x")>>, <<Lit("a"), Dyn("x"), Dyn("y")>>,
        <<Lit("post"), Dyn("id")>>, <<Lit("post"), All("slug")>>, <<Lit("blog"), Dyn("slug")>>,
        <<Lit("api"), Dyn("id")>>},
     prerendered |-> {[route |-> <<"">>, revalidate |-> 0],
        [route |-> <<"a", "one">>, revalidate |-> 60000]},
     appPaths |-> {[file |-> "route", route |-> <<Lit("api"), Dyn("id")>>],
        [file |-> "page", route |-> <<Lit("a"), Dyn("x")>>]},
     pagePaths |-> {<<Lit("blog"), Dyn("slug")>>, Literal(<<"404">>), Root}]

Mounted ==
    [Dist EXCEPT !.basePath = <<"api">>, !.deploymentId = {"d1"},
        !.dynamicRoutes = @ \cup {<<Opt("slug")>>}]

Dists ==
    {Dist, Mounted, [Dist EXCEPT !.routesVersion = 4], [Dist EXCEPT !.prerenderVersion = {}],
     [Dist EXCEPT !.prerenderVersion = {5}], [Dist EXCEPT !.buildId = ""]}

Caching == [ttl |-> {60000}, stale_if_error |-> {}, query |-> {{"q"}}, vary |-> {}]
Assertion(name, privacy) ==
    [name |-> name, privacy |-> privacy, weight |-> {}, priority |-> {}, methods |-> {},
     coalesce |-> {}, cache |-> IF privacy = "public" THEN {Caching} ELSE {}]
Policy(routes) == {[version |-> POLICY_VERSION, routes |-> routes]}

AnyPage(privacy) == {Assertion(page, privacy) : page \in Dist.dynamicRoutes \cup Dist.staticRoutes}
Policies ==
    {{}} \cup {Policy({a}) : a \in AnyPage("public") \cup AnyPage("private")}
    \cup {Policy({Assertion(<<Lit("a"), Dyn("x")>>, "public"),
                  [Assertion(<<Lit("a"), Dyn("x"), Dyn("y"), Lit("")>>, "private")
                        EXCEPT !.weight = {2}, !.priority = {"low"}, !.methods = {{"POST"}}]}),
          Policy({[Assertion(<<Lit("post"), All("slug")>>, "public")
                        EXCEPT !.coalesce = {TRUE}, !.methods = {SAFE_METHODS}]}),
          Policy({[Assertion(Literal(<<"a">>), "private") EXCEPT !.methods = {{"PURGE"}}]}),
          Policy({[Assertion(Literal(<<"a">>), "public")
                        EXCEPT !.cache = {[Caching EXCEPT !.vary = {{"cookie"}}]}]}),
          Policy({[Assertion(Literal(<<"a">>), "public") EXCEPT !.methods = {{"POST"}}]}),
          {[version |-> 2, routes |-> {}]}}

Options ==
    [upstreams |-> <<"a:1", "b:1">>, concurrency |-> {10}, globalConcurrency |-> {},
     replicas |-> {}, includeDeployment |-> TRUE, rollout |-> "cache", check |-> TRUE,
     identityOut |-> TRUE]

AllOptions ==
    {[Options EXCEPT !.concurrency = {n}, !.check = c] :
        n \in 0..14 \cup {200, MaxPermits + 1}, c \in BOOLEAN}
    \cup {[Options EXCEPT !.concurrency = {}, !.globalConcurrency = g, !.replicas = r] :
            g \in {{}, {9}}, r \in {{}, {2}, {4}, {10}}}
    \cup {[Options EXCEPT !.rollout = r, !.identityOut = i, !.includeDeployment = i] :
            r \in {"observe", "protect", "coalesce", "cache", "?"}, i \in BOOLEAN}
    \cup {[Options EXCEPT !.upstreams = u, !.check = c] :
            u \in {<<>>, <<"?">>, <<"a:1">>}, c \in BOOLEAN}

Build(dist, options, policy) ==
    [code |-> 0, of |-> 1, dist |-> dist, options |-> options, policy |-> policy]

SizedSite ==
    [installed |-> {Base}, edits |-> {},
     inputs |-> {Build(Dist, o, {}) : o \in AllOptions} \cup {Build(d, Options, {}) : d \in Dists}
        \cup {[Build(Dist, Options, {}) EXCEPT !.code = 1]},
     requests |-> {Get(<<"_next", "image">>)}, journeys |-> {Direct(V4(0))}, drawn |-> {6},
     revalidates |-> FALSE]

AssertedSite ==
    [installed |-> {Base}, edits |-> {},
     inputs |-> {Build(d, [Options EXCEPT !.rollout = r], p) :
            d \in {Dist, Mounted}, r \in {"coalesce", "cache"}, p \in Policies},
     requests |-> {Get(path) : path \in UNION {{page, <<"api">> \o page} : page \in
            {<<"">>, <<"a">>, <<"a", "me">>, <<"a", "one">>, <<"a", "two">>, <<"a", "x", "y">>,
             <<"post", "x">>, <<"post", "x", "y">>, <<"blog", "x">>, <<"api", "x">>,
             <<"_next", "static", "x">>, <<"_next", "image">>,
             <<"_next", "data", "b1", "index", ".json">>,
             <<"_next", "data", "b1", "blog", "x", ".json">>}}}
        \cup {[Get(<<"post", "x">>) EXCEPT !.method = "POST"]},
     journeys |-> {Direct(V4(0))}, drawn |-> {6},
     revalidates |-> FALSE]
-----------------------------------------------------------------------------
(* Requests through other proxies: addresses 4..7 are trusted, written plainly *)
(* or inside an IPv6 address                                                    *)

Stranger == {V4(1), V6(1)}
Hop(address, hides) == [address |-> address, hides |-> hides]
Hops ==
    {<<>>} \cup {<<Hop(a, h)>> : a \in {V4(4), V6(13), V4(2)}, h \in BOOLEAN}
    \cup {<<Hop(a, h), Hop(b, FALSE)>> : a \in {V4(4), V4(2)}, b \in {V4(7), V4(3)}, h \in BOOLEAN}

Parent(version, trace, flags) ==
    [fields |-> TRUE, version |-> version, longer |-> FALSE, trace |-> trace, span |-> 9,
     flags |-> flags]

Chains ==
    {[from |-> f, hops |-> h, header |-> n, claims |-> c.chain, proto |-> c.proto,
      listener |-> "http", traceparent |-> {}, tracestate |-> {"s"}] :
        f \in Stranger, h \in Hops, n \in {"x_forwarded", "forwarded"},
        c \in {[chain |-> <<>>, proto |-> {}], [chain |-> <<{V4(0)}>>, proto |-> {"https"}],
               [chain |-> <<{V4(5)}, {}>>, proto |-> {"?"}]}}

Traced ==
    {[Direct(V4(1)) EXCEPT !.hops = h, !.traceparent = {t}, !.tracestate = {s}] :
        h \in {<<>>, <<Hop(V4(4), FALSE)>>, <<Hop(V4(2), FALSE)>>},
        t \in {Parent(v, id, flags) : v \in {0, 1, 255}, id \in {0, 8}, flags \in 0..1},
        s \in {"s", "?"}}

Trusting(client_ip, scheme, trust_incoming, mode) ==
    [Base EXCEPT !.server.trusted_proxies =
            [from |-> {Block(V4(4), {1}), Block(V6(2), {})}, client_ip |-> client_ip,
             scheme |-> scheme],
        !.telemetry.tracing.trust_incoming = trust_incoming,
        !.telemetry.tracing.sample = [mode |-> mode, one_in |-> 2]]

ProxiedSite ==
    [installed |-> {Trusting(c, s, "never", "always") :
            c \in {"x_forwarded", "forwarded", "none"}, s \in {"x_forwarded", "forwarded", "none"}},
     edits |-> {}, inputs |-> {}, requests |-> {Get(<<"a">>)}, journeys |-> Chains, drawn |-> {6},
     revalidates |-> FALSE]

TracedSite ==
    LET policies == {Trusting("x_forwarded", "none", t, m) :
            t \in {"never", "from_trusted_proxies", "always"},
            m \in {"always", "never", "ratio", "parent_or_ratio"}}
    IN  [installed |-> policies, edits |-> {p \in policies :
                /\ p.telemetry.tracing.trust_incoming = "never"
                /\ p.telemetry.tracing.sample.mode = "always"} \cup {Base},
         inputs |-> {}, requests |-> {Get(<<"a">>)}, journeys |-> Traced, drawn |-> {0, 6},
         revalidates |-> FALSE]
-----------------------------------------------------------------------------
RevalidatedSite ==
    [installed |-> {Base}, edits |-> {}, inputs |-> {}, requests |-> {}, journeys |-> {}, drawn |-> {},
     revalidates |-> TRUE]

MCSites ==
    "edited" :> EditedSite @@ "sized" :> SizedSite @@ "asserted" :> AssertedSite
    @@ "proxied" :> ProxiedSite @@ "traced" :> TracedSite @@ "revalidated" :> RevalidatedSite
=============================================================================
