------------------------------- MODULE Deploy -------------------------------
(***************************************************************************)
(* From a build to a running policy: a generator that is checked and       *)
(* published beside an identity file, files edited by hand, a proxy that   *)
(* binds some settings when it starts and swaps the rest when it reloads,  *)
(* requests judged by what is in force, and the pages it has to forget.    *)
(*                                                                         *)
(* A site fixes what is installed and what may happen there.               *)
(***************************************************************************)
EXTENDS Generate, Trace, Revalidate

CONSTANTS
    Sites,              \* each site's files, edits, builds and requests
    MaxGeneration       \* reloads are counted up to here

VARIABLES
    site,
    gen,                \* the generator process
    disk,               \* the published files and the temporary ones
    proc,               \* the proxy: what it bound at startup, the policy in force
    req                 \* the request being judged

deployVars == <<site, gen, disk, proc, req>>

NoRun == [pc |-> "idle"]
Down == [up |-> FALSE]
NoRequest == [pc |-> "none"]

\* A published file and the build it belongs to; by hand is build 0.
File(config, of) == [config |-> config, of |-> of]

Init ==
    /\ site \in DOMAIN Sites
    /\ gen = NoRun /\ proc = Down /\ req = NoRequest
    /\ \E file \in Sites[site].installed :
        disk = [out |-> {File(file, 0)}, identity |-> {0}, temps |-> {}, edited |-> FALSE]
    /\ IF Sites[site].revalidates THEN RevalidateInit
       ELSE /\ next_cache = "new" /\ entry = <<>> /\ fill = <<>>
            /\ call = NoCall /\ message = <<>>
-----------------------------------------------------------------------------
(* generate-to-file.js, run when a build has ended *)

\* What generateToFile writes, unless it throws first.
generated(input) ==
    {File(config, input.of) :
        config \in UNION {generateConfig(b, input.options, input.policy) :
            b \in IF \/ resolveCapacity(input.options, input.options.upstreams # <<>>) = {}
                     \/ input.options.check /\ input.options.upstreams = <<>>
                  THEN {} ELSE readBuildSync(input.dist)}}

\* Computed once for each input.
Outputs == [s \in DOMAIN Sites |-> [input \in Sites[s].inputs |-> generated(input)]]

\* The exit handler: a build that failed generates nothing.
BuildEnds(input) ==
    /\ gen = NoRun /\ ~disk.edited
    /\ gen' = IF input.code # 0 \/ Outputs[site][input] = {}
              THEN [pc |-> "failed"]
              ELSE [pc |-> "generated", input |-> input, file |-> The(Outputs[site][input])]
    /\ UNCHANGED <<site, disk, proc, req, revalidateVars>>

WriteConfig ==
    /\ gen.pc = "generated" /\ gen' = [gen EXCEPT !.pc = "written"]
    /\ disk' = [disk EXCEPT !.temps = @ \cup {"config"}]
    /\ UNCHANGED <<site, proc, req, revalidateVars>>

WriteIdentity ==
    /\ gen.pc = "written" /\ gen' = [gen EXCEPT !.pc = "unchecked"]
    /\ disk' = [disk EXCEPT !.temps = IF gen.input.options.identityOut THEN @ \cup {"identity"} ELSE @]
    /\ UNCHANGED <<site, proc, req, revalidateVars>>

\* harmost check: loads the file and compiles its routes.
accepts(config) == load({config}) /\ build(config)

\* If it is asked for, the check must run and accept.
Check ==
    /\ gen.pc = "unchecked" /\ gen' = [gen EXCEPT !.pc = "checked"]
    /\ gen.input.options.check => accepts(gen.file.config)
    /\ UNCHANGED <<site, disk, proc, req, revalidateVars>>

\* The other order.
RenameConfigFirst ==
    /\ gen.pc = "checked" /\ gen' = [gen EXCEPT !.pc = "identified"]
    /\ disk' = [disk EXCEPT !.out = {gen.file}, !.temps = @ \ {"config"}]
    /\ UNCHANGED <<site, proc, req, revalidateVars>>

\* The identity is renamed into place first, if it is written at all.
RenameIdentity ==
    /\ gen.pc = "checked" /\ gen' = [gen EXCEPT !.pc = "identified"]
    /\ disk' = IF gen.input.options.identityOut
               THEN [disk EXCEPT !.identity = {gen.input.of}, !.temps = @ \ {"identity"}] ELSE disk
    /\ UNCHANGED <<site, proc, req, revalidateVars>>

RenameConfig ==
    /\ gen.pc = "identified" /\ gen' = [gen EXCEPT !.pc = "done"]
    /\ disk' = [disk EXCEPT !.out = {gen.file}, !.temps = @ \ {"config"}]
    /\ UNCHANGED <<site, proc, req, revalidateVars>>

Running == gen.pc \in {"generated", "written", "unchecked", "checked", "identified"}

\* A write or a rename fails, or the check cannot be run or refuses: what is
\* temporary is removed.
Throws ==
    /\ Running /\ gen' = [pc |-> "failed"] /\ disk' = [disk EXCEPT !.temps = {}]
    /\ UNCHANGED <<site, proc, req, revalidateVars>>

\* The process dies between two of these steps.
Killed ==
    /\ Running
    /\ gen' = [gen EXCEPT !.pc = "killed"]
    /\ UNCHANGED <<site, disk, proc, req, revalidateVars>>

\* Somebody edits the file.
EditByHand(config) ==
    /\ gen = NoRun /\ ~disk.edited
    /\ disk' = [disk EXCEPT !.out = {File(config, 0)}, !.edited = TRUE]
    /\ UNCHANGED <<site, gen, proc, req, revalidateVars>>
-----------------------------------------------------------------------------
(* The proxy *)

\* What run and Harmost::new read once, from the file the process starts with.
Bound(c) ==
    [listen |-> c.server.listen, h2c |-> c.server.h2c, server_tls |-> c.server.tls,
     prometheus |-> c.telemetry.prometheus, admin |-> c.telemetry.admin,
     graceful |-> c.server.graceful, purge |-> c.cache.purge, retry |-> c.origin.retry,
     service_name |-> c.telemetry.tracing.service_name, otlp |-> c.telemetry.tracing.otlp,
     resource |-> IF c.telemetry.tracing.otlp = {} THEN {} ELSE c.deployment.id,
     upstreams |-> c.origin.upstreams, load_balancing |-> c.origin.load_balancing,
     breaker |-> c.origin.breaker, health |-> c.health,
     resolve_interval |-> c.origin.resolve_interval,
     max_memory |-> c.cache.max_memory, store |-> c.cache.store, eviction |-> c.cache.eviction,
     tag_header |-> c.cache.tag_header, cache_lock |-> c.timeouts.origin,
     trust |-> TrustPolicy(c.server.trusted_proxies), spool_memory |-> c.spool.max_memory,
     upgrades |-> c.upgrade.max_concurrent,
     origin_tls |-> c.origin.tls, http_version |-> c.origin.http_version]

\* The ceilings admission holds: the origin's, its tiers' and the routes'.
Limits(c) ==
    [global |-> c.origin.concurrency, priorities |-> c.origin.priorities,
     routes |-> {[id |-> r.id, limit |-> The(r.concurrency)] :
                    r \in {x \in ToSet(c.routes) : x.concurrency # {}}}]

Start ==
    /\ ~proc.up /\ accepts(The(disk.out).config)
    /\ LET config == The(disk.out).config IN
        proc' = [up |-> TRUE, bound |-> Bound(config), policy |-> config,
                 limits |-> Limits(config), generation |-> 1, stored |-> {}]
    /\ UNCHANGED <<site, gen, disk, req, revalidateVars>>

Stop ==
    /\ proc.up /\ req = NoRequest /\ proc' = Down
    /\ UNCHANGED <<site, gen, disk, req, revalidateVars>>

\* What cannot change under a running process: the topology and the store,
SameTopology(new, old) ==
    /\ new.server.listen = old.server.listen
    /\ new.origin.upstreams = old.origin.upstreams
    /\ new.origin.load_balancing = old.origin.load_balancing
    /\ new.health = old.health /\ new.telemetry.prometheus = old.telemetry.prometheus
    /\ new.cache.max_memory = old.cache.max_memory /\ new.cache.store = old.cache.store
    /\ new.cache.eviction = old.cache.eviction /\ new.cache.tag_header = old.cache.tag_header
    /\ new.cache.purge = old.cache.purge /\ new.timeouts.origin = old.timeouts.origin

\* The connections without who is trusted on them.
SameConnectionsOnly(new, old) ==
    /\ new.server.h2c = old.server.h2c /\ new.server.tls = old.server.tls
    /\ new.origin.tls = old.origin.tls /\ new.origin.http_version = old.origin.http_version
    /\ new.origin.breaker = old.origin.breaker /\ new.origin.retry = old.origin.retry

\* the connections and who is trusted on them,
SameConnections(new, old) ==
    /\ new.server.trusted_proxies = old.server.trusted_proxies
    /\ new.server.h2c = old.server.h2c /\ new.server.tls = old.server.tls
    /\ new.origin.tls = old.origin.tls /\ new.origin.http_version = old.origin.http_version
    /\ new.origin.breaker = old.origin.breaker /\ new.origin.retry = old.origin.retry

\* and what is allocated or handed over once.
SameAllocations(new, old) ==
    /\ new.spool.max_memory = old.spool.max_memory
    /\ new.server.graceful = old.server.graceful
    /\ new.telemetry.admin = old.telemetry.admin
    /\ new.telemetry.tracing.otlp = old.telemetry.tracing.otlp
    /\ new.telemetry.tracing.service_name = old.telemetry.tracing.service_name
    /\ new.upgrade.max_concurrent = old.upgrade.max_concurrent

\* SIGHUP: everything is swapped, or nothing is.  The ceilings are resized, a
\* new build's id empties the cache, then the policy changes.
Reload ==
    LET config == The(disk.out).config IN
        /\ proc.up /\ proc.generation < MaxGeneration
        /\ accepts(config) /\ SameTopology(config, proc.policy)
        /\ SameConnections(config, proc.policy) /\ SameAllocations(config, proc.policy)
        /\ proc' = [proc EXCEPT !.limits = Limits(config), !.policy = config,
                !.generation = @ + 1,
                !.stored = IF config.deployment.id # proc.policy.deployment.id THEN {} ELSE @]
        /\ UNCHANGED <<site, gen, disk, req, revalidateVars>>
-----------------------------------------------------------------------------
(* A request: where it has been, and what Harmost makes of it *)

\* It comes from somebody who wrote what headers they liked, through hops that
\* each append the address they were called from, or hide it.
Nodes(j) == <<j.from>> \o [i \in DOMAIN j.hops |-> j.hops[i].address]
Peer(j) == Nodes(j)[Len(Nodes(j))]
Appended(j) == [i \in DOMAIN j.hops |-> IF j.hops[i].hides THEN {} ELSE {Nodes(j)[i]}]
Headers(j) ==
    [x_forwarded_for |->
        j.claims \o (IF j.header = "x_forwarded" THEN Appended(j) ELSE <<>>),
     x_forwarded_proto |-> j.proto,
     forwarded |-> [i \in DOMAIN j.claims |-> [for |-> j.claims[i], proto |-> j.proto]] \o
        (IF j.header = "forwarded"
         THEN [i \in DOMAIN j.hops |-> [for |-> Appended(j)[i], proto |-> {}]] ELSE <<>>)]

\* new_ctx, early_request_filter and the start of request_filter: the policy is
\* pinned, then the client, its trace and the route are settled.  The trust
\* policy is the one bound at startup.
Arrive(request, j, drawn) ==
    LET client == resolve_client(proc.bound.trust, {Peer(j)}, Headers(j), j.listener)
        tracing == proc.policy.telemetry.tracing
        believe == believe_inbound(tracing.trust_incoming, client.peer_trusted)
    IN  /\ proc.up /\ req = NoRequest
        /\ req' = [pc |-> "judged", request |-> request, journey |-> j, policy |-> proc.policy, sent |-> {},
                   client |-> client, class |-> declared_class(proc.policy, request),
                   trace |-> begin(IF believe THEN j.traceparent ELSE {},
                                   IF believe THEN j.tracestate ELSE {},
                                   tracing.sample, drawn, drawn)]
        /\ UNCHANGED <<site, gen, disk, proc, revalidateVars>>

\* upstream_peer and upstream_request_filter, for the first attempt or a retry:
\* the origin is told what was concluded and nothing of what was claimed.
Attempt(span) ==
    LET trace == [req.trace EXCEPT !.origin_span_id = {random_id(span)}] IN
        /\ req.pc \in {"judged", "sent"}
        /\ req' = [req EXCEPT !.pc = "sent", !.trace = trace,
                !.sent = {[x_forwarded_for |-> req.client.client_ip,
                           x_forwarded_proto |-> req.client.scheme, forwarded |-> {},
                           traceparent |-> outbound_traceparent(trace),
                           tracestate |-> trace.tracestate]}]
        /\ UNCHANGED <<site, gen, disk, proc, revalidateVars>>

\* The answer may be kept, under the key of the build the request was pinned to.
Answered ==
    /\ req # NoRequest /\ req' = NoRequest
    /\ \E kept \in {{}, req.policy.deployment.id} :
        proc' = [proc EXCEPT !.stored = @ \cup kept]
    /\ UNCHANGED <<site, gen, disk, revalidateVars>>
-----------------------------------------------------------------------------
Next ==
    \/ \E input \in Sites[site].inputs : BuildEnds(input)
    \/ WriteConfig \/ WriteIdentity \/ Check \/ RenameIdentity \/ RenameConfig
    \/ Throws \/ Killed
    \/ \E config \in Sites[site].edits : EditByHand(config)
    \/ Start \/ Stop \/ Reload
    \/ \E request \in Sites[site].requests, j \in Sites[site].journeys, drawn \in Sites[site].drawn :
            Arrive(request, j, drawn)
    \/ \E span \in Sites[site].drawn : Attempt(span)
    \/ Answered
    \/ Sites[site].revalidates /\ RevalidateNext /\ UNCHANGED deployVars

Spec == Init /\ [][Next]_<<deployVars, revalidateVars>>
-----------------------------------------------------------------------------
(* What Next does with a path, for the properties *)

PageMatches(page, path) ==
    LET fits[i \in 1..(Len(page) + 1), j \in 1..(Len(path) + 1)] ==
            IF i > Len(page) THEN j > Len(path)
            ELSE IF j > Len(path) THEN page[i].kind = "opt" /\ i = Len(page)
            ELSE CASE page[i].kind = "lit" -> page[i].text = path[j] /\ fits[i + 1, j + 1]
                   [] page[i].kind = "dyn" -> path[j] # "" /\ fits[i + 1, j + 1]
                   [] page[i].kind = "all" -> i = Len(page) /\ path[j] # ""
                   [] OTHER -> i = Len(page) /\ (path[j] # "" \/ path = <<"">>)
    IN  fits[1, 1]

Precedence(segment) ==
    CASE segment.kind = "lit" -> 1 [] segment.kind = "dyn" -> 2
      [] segment.kind = "all" -> 3 [] OTHER -> 4

\* The page Next renders: literal before dynamic before catch-all, from the left.
NextPage(b, path) ==
    LET pages == {p \in pagesOf(b) \cup handlersOf(b) : PageMatches(p, path)}
        wins(p, q) == \E i \in DOMAIN p \cap DOMAIN q :
            /\ \A k \in 1..(i - 1) : Precedence(p[k]) = Precedence(q[k])
            /\ Precedence(p[i]) < Precedence(q[i])
    IN  {p \in pages : \A q \in pages \ {p} : ~wins(q, p)}

\* The path of the page a URL is about: without the base path, and for a data
\* payload without what wraps it.
AppPath(b, path) ==
    LET inner == SubSeq(path, Len(b.basePath) + 1, Len(path))
        page == SubSeq(inner, 4, Len(inner) - 1)
    IN  IF Len(inner) > 4 /\ IsPrefix(<<"_next", "data">>, inner)
        THEN IF page = <<"index">> THEN <<"">> ELSE page
        ELSE inner
-----------------------------------------------------------------------------
(* Properties *)

Asserted(input) == IF input.policy = {} THEN {} ELSE The(input.policy).routes

\* The two languages agree: a complete configuration generated from any build,
\* ceiling and rollout, with well-formed addresses and ids and assertions that
\* state no weight, no priority and no unknown method, is one validation.rs
\* accepts - the image route's weight and the low tier derived from a small
\* ceiling included.
GeneratedIsAccepted ==
    (/\ "file" \in DOMAIN gen /\ gen.input.options.upstreams # <<>>
     /\ "?" \notin ToSet(gen.input.options.upstreams) \cup gen.file.config.deployment.id
     /\ gen.file.config.origin.concurrency.max <= MaxPermits
     /\ \A a \in Asserted(gen.input) :
            /\ a.weight = {} /\ a.priority = {}
            /\ \A methods \in a.methods : methods \subseteq KnownMethods) =>
        accepts(gen.file.config)

\* Whatever the generator does and wherever it dies, the published file is the
\* previous one or a whole new one that harmost check accepted, if it was asked;
\* and it is never there without the identity of its own build, so a rollout
\* that reads the identity never announces an older build than the one served.
PublishedIsChecked ==
    \A file \in disk.out :
        (file.of # 0) =>
            /\ file = gen.file
            /\ gen.input.options.check => accepts(file.config)
            /\ gen.input.options.identityOut => disk.identity = {file.of}

\* A page is answered under a shared class only with evidence: it is build
\* output, prerendered or asserted public.  The one exception is what globs
\* cannot tell apart: an asserted page with no more dynamic segments, whose star
\* covers the path, may stand before a dynamic page in the generated order.  A
\* handler or a page without dynamic segments is never taken for another.
OnlyProvenShared ==
    (/\ req # NoRequest /\ gen.pc = "done" /\ req.policy = gen.file.config
     /\ req.class \ {"private_dynamic"} # {}) =>
        LET b == The(readBuildSync(gen.input.dist))
            path == AppPath(b, req.request.path)
            public == {normalizeRouteName(a.name) : a \in
                {x \in Asserted(gen.input) : x.privacy = "public"}}
        IN  \/ path \in {<<"_next", "image">>} \/ IsPrefix(<<"_next", "static">>, path)
            \/ Literal(path) \in prerenderedOf(b)
            \/ \A page \in NextPage(b, path) :
                \/ page \in public
                \/ /\ page \notin handlersOf(b)
                   /\ \E q \in public : is_match(toGlob(q), path) /\ brackets(q) <= brackets(page)
                                        /\ brackets(page) > 0

\* Forwarding and trace headers count exactly as far as they are vouched for.
\* From an untrusted peer nothing is believed.  Behind trusted hops that name
\* who called them, in the header the policy reads, the client is the one who
\* called the first of them, whatever that one claimed; the origin is told
\* this, and no trace context that was not believed.
OnlyTrustedBelieved ==
    (req # NoRequest) =>
        LET j == req.journey
            policy == TrustPolicy(req.policy.server.trusted_proxies)
            trust_incoming == req.policy.telemetry.tracing.trust_incoming
            vouched == trusts(policy, Peer(j))
            believed == trust_incoming = "always" \/ (vouched /\ trust_incoming = "from_trusted_proxies")
        IN  /\ ~vouched => req.client.client_ip = {Peer(j)} /\ req.client.scheme = j.listener
            /\ (/\ ~trusts(policy, j.from) /\ j.hops # <<>> /\ policy.client_ip = j.header
                /\ \A i \in DOMAIN j.hops : trusts(policy, j.hops[i].address)
                /\ ~j.hops[1].hides) => req.client.client_ip = {j.from}
            /\ ~believed =>
                /\ ~req.trace.continued
                /\ \A sent \in req.sent :
                    /\ sent.tracestate = {}
                    /\ sent.traceparent.trace \notin {h.trace : h \in j.traceparent}
            /\ \A sent \in req.sent : sent.x_forwarded_for = req.client.client_ip

\* The policy in force fits the process it runs in, however often it was
\* reloaded: every setting read once at startup still has the value the policy
\* gives it, a route's weight fits every ceiling it is counted on, waiters
\* outlast the render that the cache lock allows, and what one body may take is
\* within the budgets allocated at startup.  Two settings reload.rs neither
\* applies nor refuses: origin.resolve_interval, and the deployment id the span
\* exporter attaches.
PolicyFitsProcess ==
    proc.up =>
        LET c == proc.policy IN
            /\ \A setting \in DOMAIN proc.bound \ {"resolve_interval", "resource"} :
                    proc.bound[setting] = Bound(c)[setting]
            /\ \A i \in DOMAIN c.routes :
                    LET r == c.routes[i] IN
                        /\ r.weight <= tier_ceiling(proc.limits.global.max,
                                            percent_for(proc.limits.priorities, r.priority))
                        /\ \A l \in proc.limits.routes : l.id = r.id => r.weight <= l.limit.max
            /\ \A wait \in c.coalesce.wait_timeout : wait >= proc.bound.cache_lock
            /\ c.spool.max_body <= proc.bound.spool_memory
            /\ c.cache.max_body_size <= proc.bound.max_memory
            /\ proc.bound.purge # {} => proc.bound.admin # {}
=============================================================================
