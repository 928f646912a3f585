------------------------------- MODULE Schema -------------------------------
(***************************************************************************)
(* The shape of harmost.yaml (src/config/schema.rs): the value every key   *)
(* takes when the file leaves it out.  A configuration is one record per   *)
(* section; a file is Defaults with some fields replaced.                  *)
(*                                                                         *)
(* Durations are milliseconds, sizes are MiB.  An optional value is a set  *)
(* with at most one member.  Text is one of a few names: a check that      *)
(* looks at it only asks whether it is empty, absolute or well formed, so  *)
(* "" is the empty text and "?" is text that does not parse.               *)
(***************************************************************************)
EXTENDS Integers, FiniteSets, Sequences

SCHEMA_VERSION == 1

The(S) == CHOOSE v \in S : TRUE

\* A socket address; a text that is none has no ip.
Socket(ip, port) == [ip |-> ip, port |-> port]
-----------------------------------------------------------------------------
(* server *)

Graceful ==
    [pid_file |-> "/tmp/harmost.pid", upgrade_socket |-> "/tmp/harmost-upgrade.sock",
     drain_period |-> 5000, shutdown_timeout |-> 10000]

\* Nobody is believed: the list of trusted blocks is empty.
TrustedProxies == [from |-> {}, client_ip |-> "x_forwarded", scheme |-> "x_forwarded"]

Server ==
    [listen |-> Socket("0.0.0.0", 8080), h2c |-> FALSE, tls |-> {},
     trusted_proxies |-> TrustedProxies, graceful |-> Graceful]

\* server.tls has no default of its own; "pair" stands for what the two files hold.
ServerTls(listen) == [listen |-> listen, cert |-> "file", key |-> "file", h2 |-> TRUE, pair |-> TRUE]
-----------------------------------------------------------------------------
(* origin *)

Priorities == [high |-> 100, normal |-> 100, low |-> 100]
is_uniform(p) == p.high = 100 /\ p.normal = 100 /\ p.low = 100
percent_for(p, priority) == p[priority]

Breaker ==
    [enabled |-> FALSE, window |-> 10000, min_requests |-> 20, failure_percent |-> 50,
     open_for |-> 30000, max_ejected_percent |-> 50]

Retry ==
    [enabled |-> FALSE, max_attempts |-> 2, window |-> 10000, budget_percent |-> 10,
     budget_min |-> 3]

Queue == [max |-> 0, timeout |-> 0]
Concurrency == [max |-> 500, queue |-> Queue]

OriginTls == [sni |-> "origin", verify_cert |-> TRUE, verify_hostname |-> TRUE, ca |-> {}]

\* upstreams has no default: a file without one has none.
Origin ==
    [upstreams |-> <<>>, resolve_interval |-> 10000, load_balancing |-> "round_robin",
     concurrency |-> Concurrency, tls |-> {}, http_version |-> "http1",
     breaker |-> Breaker, retry |-> Retry, priorities |-> Priorities]

\* capacity and health are absent unless written.
CapacityGroup(global_max, replicas) == [global_max |-> global_max, replicas |-> replicas]
Health == [path |-> "/healthz", interval |-> 2000, timeout |-> 1000,
           healthy_after |-> 1, unhealthy_after |-> 3]
-----------------------------------------------------------------------------
(* reuse, bounds and limits *)

Cache ==
    [enabled |-> TRUE, store |-> "memory", max_memory |-> 512, max_body_size |-> 4,
     respect_origin |-> TRUE, eviction |-> "clock", tag_header |-> "x-harmost-cache-tags",
     purge |-> {}]

Coalesce == [enabled |-> TRUE, wait_timeout |-> {}, on_timeout |-> "stale_or_shed"]

Timeouts ==
    [connect |-> 500, first_byte |-> 5000, idle |-> 30000, origin |-> 30000,
     downstream_write |-> 30000]

Spool == [enabled |-> FALSE, max_body |-> 2, max_memory |-> 256]
Upgrade == [enabled |-> FALSE, max_concurrent |-> 100]
Overload == [status |-> 503, retry_after |-> 1000]
Deployment == [id |-> {}, id_header |-> {}]
-----------------------------------------------------------------------------
(* telemetry *)

Admin(listen) == [listen |-> listen, require_healthy_upstream |-> FALSE]

Otlp == [endpoint |-> "http", timeout |-> 5000, max_queue |-> 2048, max_batch |-> 256,
         interval |-> 2000]

Sample == [mode |-> "parent_or_ratio", one_in |-> 1]

Tracing ==
    [service_name |-> {}, otlp |-> {}, sample |-> Sample, trust_incoming |-> "never"]

Telemetry == [prometheus |-> {}, admin |-> {}, tracing |-> Tracing, logging |-> "json"]
-----------------------------------------------------------------------------
(* routes *)

Classes == {"static", "public_ssr", "public_dynamic", "private_dynamic", "streaming"}

\* A matcher: the path form is the table form without host and methods.
Matcher(path) == [host |-> {}, path |-> path, methods |-> {}]

\* A cache or coalesce block that is written; its other keys stay at these values.
RouteCache ==
    [enabled |-> {}, ttl_max |-> {}, stale_if_error |-> {}, query |-> {}, vary |-> {},
     override_origin |-> FALSE]
RouteCoalesce == [enabled |-> {}, override_origin |-> FALSE]

Route(id, path) ==
    [id |-> id, matcher |-> Matcher(path), class |-> {}, priority |-> "normal", weight |-> 1,
     cache |-> {}, coalesce |-> {}, concurrency |-> {}, spool |-> {}]
-----------------------------------------------------------------------------
Defaults ==
    [version |-> SCHEMA_VERSION, mode |-> "protect", server |-> Server, origin |-> Origin,
     capacity |-> {}, health |-> {}, cache |-> Cache, coalesce |-> Coalesce,
     timeouts |-> Timeouts, overload |-> Overload, spool |-> Spool, upgrade |-> Upgrade,
     deployment |-> Deployment, routes |-> <<>>, telemetry |-> Telemetry,
     debug_headers |-> FALSE]
=============================================================================
