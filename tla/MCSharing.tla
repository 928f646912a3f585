----------------------------- MODULE MCSharing -----------------------------
(* Requests for one page and one asset that differ in up to two headers; the *)
(* responses of an origin; and routes with every combination of class,       *)
(* overrides and ceiling, with and without a header and a query in the key.  *)
EXTENDS Sharing

Selectors == {"cookie", "draft", "rsc", "prefetch", "lang", "encoding"}
Bars == {"upgrade", "authorization", "next-action"}
One == {{}} \cup {{h} : h \in Selectors \cup Bars}
Two == {{g, h} : g \in Selectors, h \in Selectors} \cup {{g, "cookie"} : g \in Bars}

Requested(methods, paths, queries, headers) ==
    [method : methods, path : paths, query : queries, has : headers]
MCRequests ==
    Requested({"GET"}, {"page"}, {""}, One \cup Two)
        \cup Requested({"GET"}, {"page"}, {"q"}, One)
        \cup Requested({"GET"}, {"asset"}, {""}, One)
        \cup Requested({"HEAD", "POST", "OPTIONS"}, {"page"}, {""}, {{}, {"next-action"}})

Response(ok, c, v, d, t) ==
    [ok |-> ok, set_cookie |-> c, vary |-> v, no_store |-> "no_store" \in d,
     private |-> "private" \in d, no_cache |-> "no_cache" \in d, ttl |-> t]
Silent == {}
Forbidding == {{"no_store"}, {"private"}, {"no_cache"}}
MCResponses ==
    {Response(TRUE, FALSE, v, d, {2}) :
        v \in {{}, {"rsc", "prefetch"}, {"lang"}, {"encoding"}, {"cookie"}, {"*"}}, d \in Forbidding \cup {Silent}}
    \cup {Response(TRUE, FALSE, {}, d, t) : d \in {Silent, {"no_store"}}, t \in {{}, {0}}}
    \cup {Response(TRUE, TRUE, {}, d, {2}) : d \in {Silent, {"private"}}}
    \cup {Response(FALSE, FALSE, {}, Silent, {2})}

Base ==
    [protect |-> TRUE, enabled |-> {"cache", "coalesce"}, cache |-> "unset",
     coalesce |-> "unset", class |-> {}, override_origin |-> FALSE, coalesce_override |-> FALSE,
     ttl_max |-> {}, vary |-> {"lang"}, ignores |-> {}, deployment |-> "d1", bound |-> "b1"]
Overriding ==
    {[Base EXCEPT !.class = c, !.override_origin = o, !.coalesce_override = k,
                  !.ttl_max = IF o THEN t ELSE {}] :
        c \in {{}, {"public_document"}, {"private_dynamic"}}, o \in BOOLEAN, k \in BOOLEAN,
        t \in {{}, {1}}}
MCPolicies ==
    Overriding \cup
    {[Base EXCEPT !.vary = {}, !.ignores = {"q"}],
     [Base EXCEPT !.deployment = "d2", !.ttl_max = {1}],
     [Base EXCEPT !.bound = "b2", !.cache = "off"],
     [Base EXCEPT !.protect = FALSE],
     [Base EXCEPT !.coalesce = "off", !.coalesce_override = TRUE],
     [Base EXCEPT !.enabled = {"cache"}, !.coalesce_override = TRUE, !.class = {"public_dynamic"}],
     [Base EXCEPT !.vary = {"cookie"}],
     [Base EXCEPT !.class = {"private_dynamic"}, !.cache = "on"]}
=============================================================================
