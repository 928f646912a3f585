--------------------------- MODULE SharingProofs ---------------------------
(***************************************************************************)
(* Who may be answered with whose response, for every set of requests,     *)
(* responses and policies: whatever the reloads between a fill and a reuse *)
(* did to the configuration.                                               *)
(***************************************************************************)
EXTENDS Sharing, TLAPS

-----------------------------------------------------------------------------
(* The inductive invariant *)

\* A request that reuse was considered for, under a policy that was in force.
Considered(r, p) == r \in Requests /\ p \in past /\ cache_active(r, p)

\* What a fill leaves: filed under the key of the request that made it, and a
\* response that evaluate_response did not refuse for good.
SoundEntry(e) ==
    /\ Considered(e.req, e.pol) /\ e.key = key(e.req, e.pol)
    /\ ~e.res.set_cookie
    /\ ~unsupported_vary(e.res, key_headers(e.req, e.pol))

\* Validation let every policy in; every fill, entry and reuse was made by a
\* request that passed the decisions of its own policy, and a reuse found its
\* entry under its own key.
SharingInv ==
    /\ \A p \in past \cup next : check_route(p)
    /\ \A f \in flight : Considered(f.req, f.pol)
    /\ \A e \in entry : SoundEntry(e)
    /\ \A s \in served :
          SoundEntry(s.entry) /\ Considered(s.req, s.pol) /\ s.entry.key = key(s.req, s.pol)

-----------------------------------------------------------------------------
(* The step *)

\* Nothing is unlearnt: an entry stays sound when another policy comes into force.
LEMMA SoundStays ==
    ASSUME past \subseteq past', NEW e, SoundEntry(e)
    PROVE  SoundEntry(e)'
BY DEF SoundEntry, Considered

\* A response that is not refused carries no cookie and varies on nothing the key
\* leaves out.
LEMMA KeptResponse ==
    ASSUME NEW x, NEW p, NEW headers, NEW transient_only,
           evaluate_response(x, p, headers, transient_only) # "not_shareable"
    PROVE  ~x.set_cookie /\ ~unsupported_vary(x, headers)
BY DEF evaluate_response

LEMMA SharingStep == SharingInv /\ [Next]_vars => SharingInv'
<1>. SUFFICES ASSUME SharingInv, [Next]_vars PROVE SharingInv'
  OBVIOUS
<1>. USE DEF SharingInv
<1>1. ASSUME NEW p \in Policies, StartReload(p) PROVE SharingInv'
  <2>1. past' = past /\ flight' = flight /\ served' = {} /\ next' = {p} /\ check_route(p)
    BY <1>1 DEF StartReload
  <2>2. entry' \subseteq entry
    BY <1>1 DEF StartReload
  <2>. QED
    BY <2>1, <2>2, SoundStays DEF Considered
<1>2. CASE StorePolicy
  <2>1. past' = past \cup next /\ next' = {} /\ flight' = flight /\ entry' = entry /\ served' = {}
    BY <1>2 DEF StorePolicy
  <2>. QED
    BY <2>1, SoundStays DEF Considered
<1>3. CASE Gone
  BY <1>3, SoundStays DEF Gone, Considered
<1>4. ASSUME NEW r \in Requests, NEW p \in past, Lead(r, p) PROVE SharingInv'
  <2>1. past' = past /\ next' = next /\ entry' = {} /\ served' = {}
        /\ flight' = {[req |-> r, pol |-> p]} /\ cache_active(r, p)
    BY <1>4 DEF Lead
  <2>. QED
    BY <2>1 DEF Considered
<1>5. ASSUME NEW r \in Requests, NEW p \in past, Follow(r, p) PROVE SharingInv'
  <2>1. past' = past /\ next' = next /\ entry' = entry /\ flight' = flight
    BY <1>5 DEF Follow
  <2>2. PICK e \in entry : e.key = key(r, p) /\ cache_active(r, p)
                           /\ served' = {[entry |-> e, req |-> r, pol |-> p]}
    BY <1>5 DEF Follow
  <2>3. \A s \in served' : s.entry = e /\ s.req = r /\ s.pol = p
    BY <2>2
  <2>. QED
    BY <2>1, <2>2, <2>3, SoundStays DEF Considered
<1>6. ASSUME NEW x \in Responses, Respond(x) PROVE SharingInv'
  <2>1. PICK f \in flight :
          /\ flight' = {} /\ served' = {} /\ past' = past /\ next' = next
          /\ LET verdict == evaluate_response(x, f.pol, key_headers(f.req, f.pol),
                                              ~may_store(f.req, f.pol))
             IN entry' = IF verdict = "not_shareable" THEN {}
                         ELSE {[key |-> key(f.req, f.pol), req |-> f.req, pol |-> f.pol,
                                res |-> x, stored |-> verdict = "shareable"]}
    BY <1>6 DEF Respond
  <2>. DEFINE verdict == evaluate_response(x, f.pol, key_headers(f.req, f.pol),
                                           ~may_store(f.req, f.pol))
              left == [key |-> key(f.req, f.pol), req |-> f.req, pol |-> f.pol,
                       res |-> x, stored |-> verdict = "shareable"]
  <2>2. entry' = {} \/ (entry' = {left} /\ verdict # "not_shareable")
    BY <2>1
  <2>3. left.req = f.req /\ left.pol = f.pol /\ left.res = x /\ left.key = key(f.req, f.pol)
    OBVIOUS
  <2>4. verdict # "not_shareable" =>
            ~x.set_cookie /\ ~unsupported_vary(x, key_headers(f.req, f.pol))
    BY KeptResponse
  <2>. HIDE DEF verdict, left
  <2>5. verdict # "not_shareable" => SoundEntry(left)
    BY <2>3, <2>4 DEF SoundEntry
  <2>6. \A e \in entry' : SoundEntry(e)
    BY <2>2, <2>5
  <2>. QED
    BY <2>1, <2>6, SoundStays
<1>7. CASE UNCHANGED vars
  BY <1>7, SoundStays DEF vars, Considered
<1>. QED
  BY <1>1, <1>2, <1>3, <1>4, <1>5, <1>6, <1>7 DEF Next, PassThrough

\* The decisions are taken on each end of a reuse under the policy that end has
\* pinned, in every reachable state.
THEOREM SharingInvariant == Spec => []SharingInv
<1>1. Init => SharingInv
  BY DEF Init, SharingInv
<1>. QED
  BY <1>1, SharingStep, PTL DEF Spec

-----------------------------------------------------------------------------
(* What follows for a reuse *)

\* cache_active keeps to safe methods, and away from credentials, upgrades, draft
\* previews and server actions.
LEMMA ActiveIsPublic ==
    ASSUME NEW r, NEW p, cache_active(r, p)
    PROVE  /\ is_safe_method(r)
           /\ r.has \cap {"authorization", "upgrade", "draft", "next-action"} = {}
BY DEF cache_active, may_store, may_coalesce, reusable, force_bypass

\* The one member of a set.
LEMMA TheOnly == ASSUME NEW v PROVE The({v}) = v
BY DEF The

\* The classifier and the decision leave a request with a cookie only one way to be
\* considered for reuse: the operator's claim.
LEMMA CookieNeedsClaim ==
    ASSUME NEW r, NEW p, cache_active(r, p), has_cookies(r)
    PROVE  Claims(p, r)
<1>1. reusable(r, p) /\ (p.override_origin \/ p.coalesce_override)
  BY DEF cache_active, may_store, may_coalesce, reusable
<1>2. "upgrade" \notin r.has /\ is_safe_method(r)
  BY ActiveIsPublic
<1>3. classify(r) = "private_dynamic"
  BY <1>2 DEF classify
<1>4. resolved_request_class(r, p) # "private_dynamic"
  BY DEF cache_active, may_store, may_coalesce, storable, coalescible
<1>5. p.class = {} => is_static_asset(r)
  BY <1>2, <1>3, <1>4 DEF resolved_request_class, inferred
<1>6. p.class # {"private_dynamic"}
  BY <1>2, <1>4, TheOnly DEF resolved_request_class
<1>. QED
  BY <1>1, <1>5, <1>6 DEF Claims

\* A reused response sets no cookie and does not vary on a credential or on
\* everything, and no credential, upgrade, draft preview or server action is on
\* either end of a reuse (evaluate_request, evaluate_response, check_route), for
\* every request, response and policy.
THEOREM NeverSharedHolds == Spec => []NeverShared
<1>1. ASSUME SharingInv, NEW s \in served
      PROVE  s.entry.res.vary \cap {"cookie", "authorization", "*"} = {}
  <2>1. check_route(s.entry.pol) /\ ~unsupported_vary(s.entry.res, key_headers(s.entry.req, s.entry.pol))
    BY <1>1 DEF SharingInv, SoundEntry, Considered
  <2>2. key_headers(s.entry.req, s.entry.pol) \cap {"cookie", "authorization", "*"} = {}
    BY <2>1 DEF check_route, key_headers, framework_key_headers, RSC_KEY_HEADERS
  <2>. QED
    BY <2>1, <2>2 DEF unsupported_vary
<1>2. ASSUME SharingInv, NEW s \in served
      PROVE  /\ ~s.entry.res.set_cookie
             /\ cache_active(s.entry.req, s.entry.pol) /\ cache_active(s.req, s.pol)
  BY <1>2 DEF SharingInv, SoundEntry, Considered
<1>3. SharingInv => NeverShared
  BY <1>1, <1>2, ActiveIsPublic DEF NeverShared, Ends
<1>. QED
  BY <1>3, SharingInvariant, PTL

\* A reused response is for the same resource and build, and agrees with the
\* request on every header the origin varies on (KeyBuilder::build with
\* unsupported_vary), unless a reload has taken a header out of the key.
THEOREM OwnVariantHolds == Spec => []OwnVariant
<1>1. ASSUME SharingInv, NEW s \in served
      PROVE  /\ s.entry.req.method = s.req.method /\ s.entry.req.path = s.req.path
             /\ \/ s.entry.req.query = s.req.query
                \/ {s.entry.req.query, s.req.query}
                      \subseteq s.entry.pol.ignores \cup s.pol.ignores \cup {""}
             /\ s.entry.pol.deployment = s.pol.deployment
             /\ key_headers(s.entry.req, s.entry.pol) \subseteq key_headers(s.req, s.pol)
                   => s.entry.res.vary \cap s.entry.req.has = s.entry.res.vary \cap s.req.has
  <2>. DEFINE a == s.entry.req
              b == s.req
              ep == s.entry.pol
              bp == s.pol
  <2>1. key(a, ep) = key(b, bp)
    BY <1>1 DEF SharingInv, SoundEntry
  <2>2. ~unsupported_vary(s.entry.res, key_headers(a, ep))
    BY <1>1 DEF SharingInv, SoundEntry
  <2>3. /\ key(a, ep).method = a.method /\ key(b, bp).method = b.method
        /\ key(a, ep).path = a.path /\ key(b, bp).path = b.path
        /\ key(a, ep).deployment = ep.deployment /\ key(b, bp).deployment = bp.deployment
        /\ key(a, ep).query = IF a.query \in ep.ignores THEN "" ELSE a.query
        /\ key(b, bp).query = IF b.query \in bp.ignores THEN "" ELSE b.query
        /\ key(a, ep).variant = (key_headers(a, ep) \cup {"encoding"}) \cap a.has
        /\ key(b, bp).variant = (key_headers(b, bp) \cup {"encoding"}) \cap b.has
    BY DEF key
  <2>4. ASSUME key_headers(a, ep) \subseteq key_headers(b, bp)
        PROVE  s.entry.res.vary \cap a.has = s.entry.res.vary \cap b.has
    <3>1. s.entry.res.vary \subseteq key_headers(a, ep) \cup {"encoding"}
      BY <2>2 DEF unsupported_vary
    <3>2. (key_headers(a, ep) \cup {"encoding"}) \cap a.has
            = (key_headers(b, bp) \cup {"encoding"}) \cap b.has
      BY <2>1, <2>3
    <3>. QED
      BY <2>4, <3>1, <3>2
  <2>5. a.query = b.query \/ {a.query, b.query} \subseteq ep.ignores \cup bp.ignores \cup {""}
    <3>1. (IF a.query \in ep.ignores THEN "" ELSE a.query)
            = (IF b.query \in bp.ignores THEN "" ELSE b.query)
      BY <2>1, <2>3
    <3>2. CASE a.query \in ep.ignores
      BY <3>1, <3>2
    <3>3. CASE a.query \notin ep.ignores
      BY <3>1, <3>3
    <3>. QED
      BY <3>2, <3>3
  <2>6. a.method = b.method /\ a.path = b.path /\ ep.deployment = bp.deployment
    BY <2>1, <2>3
  <2>. QED
    BY <2>4, <2>5, <2>6
<1>2. SharingInv => OwnVariant
  BY <1>1 DEF OwnVariant
<1>. QED
  BY <1>2, SharingInvariant, PTL

\* With a cookie on either end of a reuse, the policy that end pinned claims that
\* the responses are public (evaluate_request with the classifier).
THEOREM PersonalIsDeclaredHolds == Spec => []PersonalIsDeclared
<1>1. SharingInv => PersonalIsDeclared
  BY CookieNeedsClaim DEF SharingInv, SoundEntry, Considered, PersonalIsDeclared
<1>. QED
  BY <1>1, SharingInvariant, PTL
=============================================================================
