----------------------------- MODULE Validation -----------------------------
(***************************************************************************)
(* Which configurations Harmost starts with or reloads                     *)
(* (src/config/validation.rs).  One predicate per check, joined by         *)
(* validate in the order of the code; a check that fails ends the load, so *)
(* only whether all pass matters, not which message is printed.            *)
(***************************************************************************)
EXTENDS Forwarded

CONSTANTS
    WithTls,            \* was the binary built with the `tls` feature?
    MaxPermits,         \* tokio::sync::Semaphore::MAX_PERMITS
    MaxUsize            \* the largest usize of the platform

ASSUME ValidationAssumption ==
    /\ WithTls \in BOOLEAN /\ MaxPermits \in Nat /\ MaxUsize \in Nat
    /\ MaxPermits <= MaxUsize

MAX_QUEUE_TIMEOUT == 60 * 60 * 1000
MIN_PURGE_TOKEN == 24

saturating_mul(a, b) == IF a * b > MaxUsize THEN MaxUsize ELSE a * b
-----------------------------------------------------------------------------
check_concurrency_max(value) == value <= MaxPermits

check_queue(c) ==
    /\ c.queue.max > 0 => c.queue.timeout # 0
    /\ c.queue.timeout <= MAX_QUEUE_TIMEOUT

\* The declared replicas together stay within the group's budget; a product
\* that does not fit a usize is refused.
validate_capacity_group(c) ==
    \A g \in c.capacity :
        /\ g.global_max # 0 /\ g.replicas # 0
        /\ c.origin.concurrency.max * g.replicas <= MaxUsize
        /\ c.origin.concurrency.max * g.replicas <= g.global_max

check_unimplemented(c) == c.cache.respect_origin /\ c.deployment.id_header = {}

validate_listen(address) == address.ip # ""

\* The certificate and the key exist, can be read and belong together.
validate_server_tls_material(tls) == tls.cert = "file" /\ tls.key = "file" /\ tls.pair

validate_server_tls(c) ==
    \A tls \in c.server.tls :
        /\ WithTls
        /\ validate_listen(tls.listen) /\ tls.listen # c.server.listen
        /\ validate_server_tls_material(tls)

\* Every block parses, and a header is read only where somebody is trusted.
validate_trusted_proxies(c) ==
    LET proxies == c.server.trusted_proxies IN
        /\ \A block \in proxies.from : Cidr_parse(block) # {}
        /\ (proxies.from = {} /\ {proxies.client_ip, proxies.scheme} # {"none"})
              => proxies = TrustedProxies

validate_origin_tls(c) ==
    IF c.origin.tls = {}
    THEN c.origin.http_version # "auto"
    ELSE \A tls \in c.origin.tls :
            /\ WithTls /\ tls.sni # ""
            /\ tls.verify_hostname => tls.verify_cert
            /\ tls.ca = {}

validate_spool(c) ==
    /\ c.spool.max_body # 0 /\ c.spool.max_memory # 0
    /\ c.spool.max_body <= c.spool.max_memory
    /\ \A i \in DOMAIN c.routes :
            ~(c.routes[i].spool = {TRUE} /\ c.routes[i].class = {"streaming"})

validate_upgrade(c) ==
    /\ check_concurrency_max(c.upgrade.max_concurrent)
    /\ c.upgrade.enabled => c.upgrade.max_concurrent # 0

validate_graceful(c) ==
    LET g == c.server.graceful IN
        /\ g.pid_file # "" /\ g.upgrade_socket # "" /\ g.pid_file # g.upgrade_socket
        /\ g.shutdown_timeout # 0
-----------------------------------------------------------------------------
is_unspecified(ip) == ip \in {"0.0.0.0", "::"}
is_ipv6(ip) == ip \in {"::", "::1"}

\* One listener owns the other's address: the same one, or a wildcard that may
\* accept the other's family.
listeners_overlap(a, b) ==
    /\ a.port = b.port
    /\ \/ a.ip = b.ip
       \/ is_unspecified(a.ip) /\ (is_ipv6(a.ip) \/ ~is_ipv6(b.ip))
       \/ is_unspecified(b.ip) /\ (is_ipv6(b.ip) \/ ~is_ipv6(a.ip))

validate_admin(c) ==
    LET taken == {c.server.listen} \cup {tls.listen : tls \in c.server.tls}
                    \cup c.telemetry.prometheus
    IN  \A admin \in c.telemetry.admin :
            /\ validate_listen(admin.listen)
            /\ \A address \in taken : ~listeners_overlap(admin.listen, address)

validate_tracing(c) ==
    LET t == c.telemetry.tracing IN
        /\ t.service_name # {""} /\ t.sample.one_in # 0
        /\ \A otlp \in t.otlp :
            /\ otlp.endpoint = "http"
            /\ otlp.max_queue # 0 /\ otlp.max_batch # 0 /\ otlp.max_batch <= otlp.max_queue
            /\ otlp.timeout # 0 /\ otlp.interval # 0

\* host:port, with brackets around an IPv6 address.
validate_upstream(address) == address # "?"

validate_health(c) ==
    /\ \A h \in c.health :
        /\ h.path # "?"
        /\ h.interval # 0 /\ h.timeout # 0 /\ h.healthy_after # 0 /\ h.unhealthy_after # 0
    /\ (\E admin \in c.telemetry.admin : admin.require_healthy_upstream) => c.health # {}

\* A waiter outlasts the render it waits for.
check_coalesce_wait(c) == \A wait \in c.coalesce.wait_timeout : wait >= c.timeouts.origin

\* The token is known here by its length and whether it is printable.
validate_purge(c) ==
    \A token \in c.cache.purge :
        /\ c.telemetry.admin # {}
        /\ token.len >= MIN_PURGE_TOKEN /\ token.graphic

validate_tag_header(c) ==
    c.cache.tag_header \notin
        {"?", "cookie", "authorization", "host", "accept", "accept-encoding", "user-agent"}

validate_breaker(c) ==
    LET b == c.origin.breaker
        pool == Len(c.origin.upstreams)
    IN  b.enabled =>
            /\ pool >= 2
            /\ b.window # 0 /\ b.open_for # 0 /\ b.min_requests # 0
            /\ b.failure_percent \in 1..100 /\ b.max_ejected_percent <= 100
            /\ (pool * b.max_ejected_percent) \div 100 # 0

validate_retry(c) ==
    LET r == c.origin.retry IN
        r.enabled =>
            /\ r.max_attempts >= 2 /\ r.window # 0 /\ r.budget_percent <= 100
            /\ ~(r.budget_percent = 0 /\ r.budget_min = 0)

validate_priorities(c) ==
    \A tier \in DOMAIN c.origin.priorities :
        LET percent == c.origin.priorities[tier] IN
            /\ percent \in 1..100
            /\ saturating_mul(c.origin.concurrency.max, percent) \div 100 # 0
-----------------------------------------------------------------------------
\* The ceiling of a priority tier, as admission builds it.
tier_ceiling(global_max, percent) ==
    LET share == saturating_mul(global_max, percent) \div 100
    IN  IF share = 0 THEN 1 ELSE share

check_route_weight(route, c) ==
    LET global == c.origin.concurrency.max IN
        /\ route.weight # 0 /\ route.weight <= global
        /\ route.weight <= tier_ceiling(global, percent_for(c.origin.priorities, route.priority))
        /\ \A limit \in route.concurrency : route.weight <= limit.max

\* What a route may combine; a repeated or malformed header of cache.vary is "?".
check_route(route, c) ==
    LET is_private == route.class = {"private_dynamic"} IN
        /\ check_route_weight(route, c)
        /\ route.priority # "normal" => ~is_uniform(c.origin.priorities)
        /\ \A limit \in route.concurrency :
            limit.max # 0 /\ check_concurrency_max(limit.max) /\ check_queue(limit)
        /\ \A cache \in route.cache :
            /\ ~(is_private /\ cache.enabled = {TRUE})
            /\ cache.override_origin =>
                ~is_private /\ route.class # {} /\ cache.ttl_max # {}
            /\ \A headers \in cache.vary :
                headers \cap {"cookie", "authorization", "user-agent", "*", "?"} = {}
            /\ \A keys \in cache.query : keys # {}
        /\ \A co \in route.coalesce :
            co.override_origin => ~is_private /\ co.enabled # {FALSE}

validate(c) ==
    /\ c.version = SCHEMA_VERSION
    /\ c.origin.upstreams # <<>>
    /\ c.origin.concurrency.max # 0 /\ check_concurrency_max(c.origin.concurrency.max)
    /\ validate_capacity_group(c)
    /\ c.cache.max_memory # 0 /\ c.cache.max_body_size # 0
    /\ c.cache.max_body_size <= c.cache.max_memory
    /\ c.overload.status \in 400..599
    /\ c.deployment.id = {} \/ c.deployment.id_header = {}
    /\ c.deployment.id # {"?"}
    /\ validate_listen(c.server.listen)
    /\ validate_server_tls(c) /\ validate_trusted_proxies(c) /\ validate_origin_tls(c)
    /\ validate_spool(c) /\ validate_upgrade(c)
    /\ \A address \in c.telemetry.prometheus : validate_listen(address)
    /\ validate_graceful(c) /\ validate_admin(c) /\ validate_tracing(c)
    /\ \A i \in DOMAIN c.origin.upstreams : validate_upstream(c.origin.upstreams[i])
    /\ validate_health(c)
    /\ check_unimplemented(c) /\ check_coalesce_wait(c) /\ check_queue(c.origin.concurrency)
    /\ validate_purge(c) /\ validate_tag_header(c)
    /\ validate_breaker(c) /\ validate_retry(c) /\ validate_priorities(c)
    /\ \A i, j \in DOMAIN c.routes : c.routes[i].id = c.routes[j].id => i = j
    /\ \A i \in DOMAIN c.routes : check_route(c.routes[i], c)
=============================================================================
