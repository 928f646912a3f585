------------------------------ MODULE Sharing ------------------------------
(***************************************************************************)
(* Who may be answered with whose response: the classifier                 *)
(* (src/classifier), the reuse decisions (src/cache/policy.rs), the cache  *)
(* key (src/cache/key.rs), the callbacks of src/proxy/mod.rs that join     *)
(* them, and the reload that replaces the policy between a fill and a use. *)
(*                                                                         *)
(* Requests that do not meet on one key cannot affect each other, so one   *)
(* fill and one entry are followed.  An optional value is a set with at    *)
(* most one member.  A header is present or not; its bytes, which the key  *)
(* carries whole, are left out.                                            *)
(***************************************************************************)
EXTENDS Naturals, FiniteSets, FiniteSetsExt

CONSTANTS
    Requests,       \* [method, path, query, has : the headers it carries]
    Responses,      \* [ok, set_cookie, vary, no_store, private, no_cache, ttl]
    Policies,       \* what a configuration file may say of the route, see Policy
    MaxReloads      \* bound: reloads in a behaviour

Classes ==
    {"static", "public_document", "public_dynamic", "private_dynamic", "mutation",
     "streaming", "upgrade", "unknown"}

\* The snapshot: the one route every request here resolves to, and the global
\* settings it inherits.  "bound" stands for all that is built once at startup.
Policy ==
    [protect : BOOLEAN, enabled : SUBSET {"cache", "coalesce"},
     cache : {"unset", "on", "off"}, coalesce : {"unset", "on", "off"},
     class : SUBSET (Classes \ {"mutation", "upgrade", "unknown"}),
     override_origin : BOOLEAN, coalesce_override : BOOLEAN, ttl_max : SUBSET Nat,
     vary : SUBSET {"lang", "cookie", "authorization", "*"}, ignores : SUBSET {"q"},
     deployment : {"d1", "d2"}, bound : {"b1", "b2"}]

ASSUME SharingAssumption ==
    /\ MaxReloads \in Nat /\ Policies \subseteq Policy
    /\ \A p \in Policies : Cardinality(p.class) <= 1 /\ Cardinality(p.ttl_max) <= 1
    /\ \A x \in Responses : Cardinality(x.ttl) <= 1

VARIABLES
    policy, past, next, reloads,    \* in force; in force so far; being applied
    flight, entry, served           \* the fill, what it left, and the last reuse

vars == <<policy, past, next, reloads, flight, entry, served>>

The(S) == CHOOSE v \in S : TRUE
-----------------------------------------------------------------------------
(* Classification *)

is_safe_method(r) == r.method \in {"GET", "HEAD"}
has_cookies(r) == r.has \cap {"cookie", "draft"} # {}

\* A cookie does not make a request private.
ClassifyIgnoresCookies(r) ==
    IF "upgrade" \in r.has THEN "upgrade"
    ELSE IF ~is_safe_method(r) THEN "mutation" ELSE "public_document"

\* generic::classify knows only HTTP.
classify(r) ==
    IF "upgrade" \in r.has THEN "upgrade"
    ELSE IF ~is_safe_method(r) THEN (IF r.method = "POST" THEN "mutation" ELSE "unknown")
    ELSE IF "authorization" \in r.has \/ has_cookies(r) THEN "private_dynamic"
    ELSE IF r.query # "" THEN "public_dynamic" ELSE "public_document"

RSC_KEY_HEADERS == {"rsc", "prefetch"}

\* The draft cookie is not looked for.
BypassMissesDraft(r) == r.has \cap {"upgrade", "next-action"} # {}

\* The hints of the Next.js adapter: what no route may share, what a static asset
\* is, which selectors enter the key, and that a prefetch payload is not stored.
\* The class and the headers of a request that is bypassed decide nothing.
force_bypass(r) == r.has \cap {"upgrade", "draft", "next-action"} # {}
is_static_asset(r) == r.path = "asset"
framework_key_headers(r) == IF is_static_asset(r) THEN {} ELSE RSC_KEY_HEADERS
coalesce_only(r) == ~is_static_asset(r) /\ {"rsc", "prefetch"} \subseteq r.has
inferred(r) == IF is_static_asset(r) THEN "static" ELSE classify(r)

\* A declared class outranks the inferred one, but not the protocol.
resolved_request_class(r, p) ==
    IF "upgrade" \in r.has THEN "upgrade"
    ELSE IF p.class # {} THEN The(p.class) ELSE inferred(r)

storable(c) == c \in {"static", "public_document", "public_dynamic"}
coalescible(c) == c \in {"public_document", "public_dynamic"}
-----------------------------------------------------------------------------
(* The request's side *)

cache_enabled(p) == p.protect /\ "cache" \in p.enabled /\ p.cache # "off"
coalesce_enabled(p) ==
    p.protect /\ p.coalesce \in (IF "coalesce" \in p.enabled THEN {"on", "unset"} ELSE {"on"})

\* evaluate_request, up to the class.
reusable(r, p) ==
    /\ ~force_bypass(r) /\ is_safe_method(r) /\ "authorization" \notin r.has
    /\ has_cookies(r) => p.override_origin \/ p.coalesce_override
may_store(r, p) ==
    /\ reusable(r, p) /\ cache_enabled(p)
    /\ storable(resolved_request_class(r, p)) /\ ~coalesce_only(r)
may_coalesce(r, p) ==
    reusable(r, p) /\ coalesce_enabled(p) /\ coalescible(resolved_request_class(r, p))
cache_active(r, p) == may_store(r, p) \/ may_coalesce(r, p)

key_headers(r, p) == framework_key_headers(r) \cup p.vary

\* A stored body's coding is not part of its identity.
KeyWithoutEncoding(r, p) ==
    [method |-> r.method, path |-> r.path,
     query |-> IF r.query \in p.ignores THEN "" ELSE r.query,
     variant |-> key_headers(r, p) \cap r.has, deployment |-> p.deployment]

\* KeyBuilder::build.  The key has the values of the headers that are present, so
\* absence is a variant of its own; content coding is always part of it.
key(r, p) ==
    [method |-> r.method, path |-> r.path,
     query |-> IF r.query \in p.ignores THEN "" ELSE r.query,
     variant |-> (key_headers(r, p) \cup {"encoding"}) \cap r.has,
     deployment |-> p.deployment]
-----------------------------------------------------------------------------
(* The response's side *)

unsupported_vary(x, headers) == x.vary \ (headers \cup {"encoding"}) # {}

\* "Route policy shrinks, never grows", unless it overrides the origin.
ttl(x, p) ==
    IF p.override_origin THEN p.ttl_max
    ELSE IF x.ttl = {} THEN {} ELSE {Min(x.ttl \cup p.ttl_max)}

\* A response with a cookie, an unsupported Vary or another status is shared by
\* no configuration; the origin's directives may be overridden.
evaluate_response(x, p, headers, transient_only) ==
    LET refused == x.set_cookie \/ unsupported_vary(x, headers) \/ ~x.ok
        directives == x.no_store \/ x.private \/ x.no_cache
    IN IF refused \/ (directives /\ ~p.override_origin /\ ~p.coalesce_override)
       THEN "not_shareable"
       ELSE IF transient_only THEN "transient"
       ELSE IF ttl(x, p) = {} THEN "not_shareable"
       ELSE IF ttl(x, p) = {0} THEN "transient" ELSE "shareable"
-----------------------------------------------------------------------------
(* Configuration *)

\* check_route: what a route may not combine.
check_route(p) ==
    /\ p.class = {"private_dynamic"} =>
          p.cache # "on" /\ ~p.override_origin /\ ~p.coalesce_override
    /\ p.override_origin => p.class # {} /\ p.ttl_max # {}
    /\ p.coalesce_override => p.coalesce # "off"
    /\ p.vary \cap {"cookie", "authorization", "*"} = {}

Init ==
    /\ policy \in {p \in Policies : check_route(p)} /\ past = {policy}
    /\ next = {} /\ reloads = 0
    /\ flight = {} /\ entry = {} /\ served = {}

\* A reload is refused when the file is invalid or changes what only a restart
\* can change.  A new deployment purges the cache before the policy is swapped:
\* what is complete goes, and a fill still in progress is found until it ends.
StartReload(p) ==
    /\ next = {} /\ reloads < MaxReloads
    /\ check_route(p) /\ p.bound = policy.bound
    /\ next' = {p} /\ reloads' = reloads + 1
    /\ entry' \in IF p.deployment = policy.deployment THEN {entry} ELSE {{}, entry}
    /\ served' = {}
    /\ UNCHANGED <<policy, past, flight>>

StorePolicy ==
    /\ next # {}
    /\ policy' = The(next) /\ past' = past \cup next /\ next' = {}
    /\ served' = {}
    /\ UNCHANGED <<reloads, flight, entry>>
-----------------------------------------------------------------------------
(* Requests.  A slow one may have pinned any policy so far. *)

\* No reuse is attempted: the request goes to the origin for itself.
PassThrough(p) ==
    /\ \E r \in Requests : ~cache_active(r, p)
    /\ UNCHANGED vars

\* A miss: the request becomes the one that renders.
Lead(r, p) ==
    /\ flight = {} /\ entry = {} /\ cache_active(r, p)
    /\ flight' = {[req |-> r, pol |-> p]}
    /\ served' = {}
    /\ UNCHANGED <<policy, past, next, reloads, entry>>

\* The headers arrive, and response_cache_filter decides whether the fill may be
\* followed and kept.
Respond(x) ==
    \E f \in flight :
        LET verdict ==
                evaluate_response(x, f.pol, key_headers(f.req, f.pol), ~may_store(f.req, f.pol))
        IN /\ flight' = {} /\ served' = {}
           /\ entry' =
                IF verdict = "not_shareable" THEN {}
                ELSE {[key |-> key(f.req, f.pol), req |-> f.req, pol |-> f.pol, res |-> x,
                       stored |-> verdict = "shareable"]}
           /\ UNCHANGED <<policy, past, next, reloads>>

\* A hit, or a waiter that finds what its leader left.
Follow(r, p) ==
    /\ \E e \in entry :
          /\ e.key = key(r, p) /\ cache_active(r, p)
          /\ served' = {[entry |-> e, req |-> r, pol |-> p]}
    /\ UNCHANGED <<policy, past, next, reloads, flight, entry>>

\* The entry expires, is evicted or purged, or the hand-off to waiters is over.
Gone ==
    /\ entry # {}
    /\ entry' = {} /\ served' = {}
    /\ UNCHANGED <<policy, past, next, reloads, flight>>

Next ==
    \/ \E p \in Policies : StartReload(p)
    \/ StorePolicy \/ Gone
    \/ \E p \in past : PassThrough(p) \/ \E r \in Requests : Lead(r, p) \/ Follow(r, p)
    \/ \E x \in Responses : Respond(x)

Spec == Init /\ [][Next]_vars
-----------------------------------------------------------------------------
(* Properties *)

\* Both ends of a reuse: whose response it was, and who got it.
Ends(s) == {s.entry.req, s.req}

\* "No configuration reaches past these" (evaluate_response): a cookie being set,
\* and a Vary on a credential or on everything, which validation keeps out of every
\* key; and what an adapter or a credential keeps private stays so on both ends of
\* a reuse, whatever the route declares and whatever policies the two requests
\* pinned.
NeverShared ==
    \A s \in served :
        /\ ~s.entry.res.set_cookie
        /\ s.entry.res.vary \cap {"cookie", "authorization", "*"} = {}
        /\ \A r \in Ends(s) :
              is_safe_method(r) /\ r.has \cap {"authorization", "upgrade", "draft", "next-action"} = {}

\* A reused response is the one the origin would have rendered for this request:
\* same resource, same build, same value of everything the origin says it varies
\* on.  A reload that takes a header out of the key is the exception: what was
\* stored before is found by requests that now differ in it only.
OwnVariant ==
    \A s \in served :
        LET a == s.entry.req
            b == s.req
            kept == key_headers(a, s.entry.pol) \subseteq key_headers(b, s.pol)
        IN /\ a.method = b.method /\ a.path = b.path
           /\ a.query = b.query \/ {a.query, b.query} \subseteq s.entry.pol.ignores \cup s.pol.ignores \cup {""}
           /\ s.entry.pol.deployment = s.pol.deployment
           /\ kept => s.entry.res.vary \cap a.has = s.entry.res.vary \cap b.has

\* The operator's claim that responses to r are public: an override, and a class
\* unless r is for a fingerprinted asset.
Claims(p, r) ==
    /\ p.override_origin \/ p.coalesce_override
    /\ is_static_asset(r) \/ (p.class # {} /\ p.class # {"private_dynamic"})

\* "A cookie-bearing request is personalised unless the route has explicitly
\* claimed otherwise" (evaluate_request): with a cookie on either end of a reuse,
\* the policy that end pinned makes that claim, because the classifier and the
\* decision together leave no other way.
PersonalIsDeclared ==
    \A s \in served :
        /\ has_cookies(s.entry.req) => Claims(s.entry.pol, s.entry.req)
        /\ has_cookies(s.req) => Claims(s.pol, s.req)

\* coalesce.override_origin is "weaker than cache.override_origin: nothing is
\* persisted, the window is one render" (config/schema.rs).
NothingPersisted ==
    \A e \in entry :
        e.stored /\ (e.res.no_store \/ e.res.private \/ e.res.no_cache) => e.pol.override_origin
=============================================================================
