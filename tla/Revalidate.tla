----------------------------- MODULE Revalidate -----------------------------
(***************************************************************************)
(* Telling every replica that a page has changed: the helpers of           *)
(* packages/harmost-next/src/purge.js, the purge endpoint of               *)
(* src/admin/mod.rs, and the renders that race with them.                  *)
(*                                                                         *)
(* One page, known by its tag and its path, whose data has just changed.   *)
(* Next holds its own cached copy; every replica holds or fetches a copy   *)
(* of what Next renders.  Requests and answers may be lost, late, or       *)
(* answered by something that is not Harmost; a replica may restart.       *)
(***************************************************************************)
EXTENDS Integers, Sequences, FiniteSets

CONSTANTS
    Replicas,
    PageTag, PagePath,          \* what the page's entry is indexed under
    ConfiguredToken,            \* each replica's cache.purge.token, if it has one
    OwnTokens                   \* the token the application may have been given

VARIABLES
    next_cache,                 \* Next's copy: old, stale, expired or new
    entry,                      \* each replica's copy
    fill,                       \* each replica's fetch in progress
    call,                       \* the helper's progress and what it asked for
    message                     \* its request to each replica, and what became of it

revalidateVars == <<next_cache, entry, fill, call, message>>

Nothing == [v |-> "none", late |-> FALSE]
NoFill == [pc |-> "idle", v |-> "none", late |-> FALSE, invalidated |-> FALSE]
NoCall == [pc |-> "idle", kind |-> "none", profile |-> "none", token |-> {}]

RevalidateInit ==
    /\ next_cache = "old"
    /\ entry \in [Replicas -> {Nothing, [v |-> "old", late |-> FALSE]}]
    /\ fill = [r \in Replicas |-> NoFill]
    /\ call = NoCall /\ message = [r \in Replicas |-> [wire |-> "none", outcome |-> "waiting"]]
-----------------------------------------------------------------------------
(* The page is asked for, rendered and stored *)

\* A miss asks Next.
Miss(r) ==
    /\ entry[r] = Nothing /\ fill[r] = NoFill
    /\ fill' = [fill EXCEPT ![r].pc = "asked"]
    /\ UNCHANGED <<next_cache, entry, call, message>>

\* Next answers with its copy unless that has expired; a stale one is answered
\* once more while it is renewed.
Render(r) ==
    /\ fill[r].pc = "asked"
    /\ fill' = [fill EXCEPT ![r].pc = "rendered",
                            ![r].v = IF next_cache \in {"old", "stale"} THEN "old" ELSE "new"]
    /\ next_cache' = IF next_cache = "old" THEN "old" ELSE "new"
    /\ UNCHANGED <<entry, call, message>>

\* The response header reaches the replica, which registers the fill.
Header(r) ==
    /\ fill[r].pc = "rendered"
    /\ fill' = [fill EXCEPT ![r].pc = "registered"]
    /\ UNCHANGED <<next_cache, entry, call, message>>

\* A fill a purge has marked is not kept.
Complete(r) ==
    /\ fill[r].pc = "registered"
    /\ entry' = [entry EXCEPT ![r] = IF fill[r].invalidated THEN @
                                     ELSE [v |-> fill[r].v, late |-> fill[r].late]]
    /\ fill' = [fill EXCEPT ![r] = NoFill]
    /\ UNCHANGED <<next_cache, call, message>>

\* The fetch fails, or the entry's time is up.
Abort(r) ==
    /\ fill[r] # NoFill /\ fill' = [fill EXCEPT ![r] = NoFill]
    /\ UNCHANGED <<next_cache, entry, call, message>>

Expire(r) ==
    /\ entry[r] # Nothing /\ entry' = [entry EXCEPT ![r] = Nothing]
    /\ UNCHANGED <<next_cache, fill, call, message>>
-----------------------------------------------------------------------------
(* purge.js *)

\* The parameters a helper sends.
Params(kind) ==
    CASE kind = "tag" -> <<[name |-> "tag", value |-> PageTag]>>
      [] kind = "path" -> <<[name |-> "path", value |-> PagePath]>>
      [] kind = "both" -> <<[name |-> "tag", value |-> PageTag], [name |-> "path", value |-> PagePath]>>
      [] kind = "all" -> <<[name |-> "all", value |-> "1"]>>

\* Without a token there is no purger: the helper throws, and nothing is sent.
createPurger(token) == IF token = {} THEN "failed" ELSE "sending"

send(token) ==
    message' = IF createPurger(token) = "failed" THEN message
               ELSE [r \in Replicas |-> [wire |-> "request", outcome |-> "waiting"]]

\* With stale-while-revalidate whatever the caller asks for.
RevalidateStale(kind, profile, token) ==
    /\ call = NoCall /\ next_cache' = "stale"
    /\ call' = [pc |-> createPurger(token), kind |-> kind, profile |-> profile, token |-> token]
    /\ send(token) /\ UNCHANGED <<entry, fill>>

\* revalidateTag and revalidatePath: first Next's copy, at once unless the
\* caller asks for another profile, then every replica's.
RevalidateCall(kind, profile, token) ==
    /\ call = NoCall
    /\ next_cache' = IF profile = "expire" THEN "expired" ELSE "stale"
    /\ call' = [pc |-> createPurger(token), kind |-> kind, profile |-> profile, token |-> token]
    /\ send(token) /\ UNCHANGED <<entry, fill>>

\* purge and purgeAll leave Next alone.
PurgeCall(kind, token) ==
    /\ call = NoCall
    /\ call' = [pc |-> createPurger(token), kind |-> kind, profile |-> "none", token |-> token]
    /\ send(token) /\ UNCHANGED <<next_cache, entry, fill>>

\* Promise.all: the first failure ends the call, success needs every replica.
Settled(outcomes) ==
    IF \E r \in Replicas : outcomes[r] = "failed" THEN "failed"
    ELSE IF \A r \in Replicas : outcomes[r] = "ok" THEN "ok" ELSE "sending"

sendOne(r, outcome) ==
    LET outcomes == [q \in Replicas |-> IF q = r THEN outcome ELSE message[q].outcome]
    IN  /\ message[r].outcome = "waiting"
        /\ call' = [call EXCEPT !.pc = IF @ = "sending" THEN Settled(outcomes) ELSE @]

\* Only a 200 whose body says purged counts; any other answer is an error.
Receive(r) ==
    /\ message[r].wire \in {"purged", "refused"}
    /\ sendOne(r, IF message[r].wire = "purged" THEN "ok" ELSE "failed")
    /\ message' = [message EXCEPT ![r] =
            [wire |-> "none", outcome |-> IF message[r].wire = "purged" THEN "ok" ELSE "failed"]]
    /\ UNCHANGED <<next_cache, entry, fill>>

\* The signal aborts the wait; the request may arrive all the same.
Timeout(r) ==
    /\ call.pc # "idle" /\ call.token # {} /\ sendOne(r, "failed")
    /\ message' = [message EXCEPT ![r].outcome = "failed"]
    /\ UNCHANGED <<next_cache, entry, fill>>
-----------------------------------------------------------------------------
(* The network, and whatever else may answer at that address *)

Lose(r) ==
    /\ message[r].wire # "none" /\ message' = [message EXCEPT ![r].wire = "none"]
    /\ UNCHANGED <<next_cache, entry, fill, call>>

\* A redirect, or a success that is not the endpoint's.
Foreign(r) ==
    /\ message[r].wire = "request" /\ message' = [message EXCEPT ![r].wire = "refused"]
    /\ UNCHANGED <<next_cache, entry, fill, call>>
-----------------------------------------------------------------------------
(* admin/mod.rs *)

MAX_PURGE_TAGS == 128

\* Every parameter is known and well formed, and everything is asked for alone.
parse_purge_query(query) ==
    LET values(name) == {query[i].value : i \in {j \in DOMAIN query : query[j].name = name}}
        all == values("all") # {}
        tags == values("tag")
        paths == values("path")
    IN  IF \/ \E i \in DOMAIN query :
                \/ query[i].name \notin {"tag", "path", "all"}
                \/ query[i].name = "tag" /\ query[i].value = ""
                \/ query[i].name = "path" /\ query[i].value # PagePath
                \/ query[i].name = "all" /\ query[i].value \notin {"1", "true"}
           \/ Cardinality(tags) > MAX_PURGE_TAGS \/ Cardinality(paths) > MAX_PURGE_TAGS
           \/ all = (tags \cup paths # {})
        THEN {}
        ELSE {[all |-> all, tags |-> tags, paths |-> paths]}

secret_eq(provided, expected) == provided = expected

\* The entry goes, and a registered fill is marked.  A render whose header has
\* not arrived is not known to the store: late records that, for the properties.
PurgeMatching(r) ==
    /\ entry' = [entry EXCEPT ![r] = Nothing]
    /\ fill' = [fill EXCEPT ![r].invalidated = @ \/ fill[r].pc = "registered",
                            ![r].late = @ \/ fill[r].pc = "rendered"]

\* The endpoint exists with a token, asks for it, and only then reads the query.
purge(r) ==
    IF \E token \in ConfiguredToken[r] :
            \E presented \in call.token : secret_eq(presented, token)
    THEN parse_purge_query(Params(call.kind)) ELSE {}

AdminResponse(r) ==
    /\ message[r].wire = "request"
    /\ message' = [message EXCEPT ![r].wire = IF purge(r) # {} THEN "purged" ELSE "refused"]
    /\ IF \E q \in purge(r) : q.all \/ PageTag \in q.tags \/ PagePath \in q.paths
       THEN PurgeMatching(r) ELSE UNCHANGED <<entry, fill>>
    /\ UNCHANGED <<next_cache, call>>

\* Memory is lost with the process, and so are its connections.
Restart(r) ==
    /\ entry' = [entry EXCEPT ![r] = Nothing] /\ fill' = [fill EXCEPT ![r] = NoFill]
    /\ message' = [message EXCEPT ![r].wire = "none"]
    /\ UNCHANGED <<next_cache, call>>
-----------------------------------------------------------------------------
RevalidateNext ==
    \/ \E token \in OwnTokens :
            \/ \E profile \in {"expire", "max"} : RevalidateCall("tag", profile, token)
            \/ RevalidateCall("path", "expire", token)
    \/ \E kind \in {"both", "all"}, token \in OwnTokens : PurgeCall(kind, token)
    \/ \E r \in Replicas :
            \/ Miss(r) \/ Render(r) \/ Header(r) \/ Complete(r) \/ Abort(r) \/ Expire(r)
            \/ Receive(r) \/ Timeout(r) \/ Lose(r) \/ Foreign(r) \/ AdminResponse(r) \/ Restart(r)

\* When revalidateTag or revalidatePath has returned, no replica keeps the old
\* page, save one whose render had answered but whose header had not arrived
\* when the purge came: the store does not know that fill yet.
RevalidatedStaysFresh ==
    (call.pc = "ok" /\ call.profile = "expire") =>
        \A r \in Replicas : entry[r].v = "old" => entry[r].late
=============================================================================
