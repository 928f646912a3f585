-------------------------------- MODULE Proxy --------------------------------
(***************************************************************************)
(* The life of a request as the Pingora callbacks of src/proxy/mod.rs see  *)
(* it: classification, admission, one or more origin attempts, the         *)
(* response body, and logging, on every path from one to the next.  What   *)
(* the request holds (a permit, a tunnel permit, a backend slot and, in    *)
(* module Spool, buffered bytes) must end with it.                         *)
(*                                                                         *)
(* The order of the callbacks is Pingora's: proxy_upstream_filter once,    *)
(* upstream_peer once per attempt, and for every chunk of a body           *)
(* upstream_response_body_filter before response_body_filter.              *)
(***************************************************************************)
EXTENDS Spool

CONSTANTS
    MaxPermits, MaxTunnels, \* the origin ceiling and upgrade.max_concurrent
    MaxAttempts             \* origin.retry.max_attempts

ASSUME ProxyAssumption == MaxPermits \in Nat /\ MaxTunnels \in Nat /\ MaxAttempts \in Nat \ {0}

VARIABLES
    stage, class,
    permit, upgrade_permit, origin_slot,    \* held by the request
    attempts, outcome_recorded,
    released,           \* permit_released_at
    outcomes            \* history: outcomes told to breakers

held == <<permit, upgrade_permit, origin_slot>>
ctx == <<class, attempts, outcome_recorded, released, outcomes>>
vars == <<stage, held, ctx, spools>>

Classes == {"render", "exempt", "upgrade"}
NotYet == "-"

Init ==
    /\ SpoolInit
    /\ stage = [r \in Requests |-> "idle"] /\ class = [r \in Requests |-> "exempt"]
    /\ permit = [r \in Requests |-> FALSE] /\ upgrade_permit = [r \in Requests |-> FALSE]
    /\ origin_slot = [r \in Requests |-> FALSE]
    /\ attempts = [r \in Requests |-> 0] /\ outcome_recorded = [r \in Requests |-> FALSE]
    /\ released = [r \in Requests |-> NotYet] /\ outcomes = [r \in Requests |-> 0]

Enter(r, next) == stage' = [stage EXCEPT ![r] = next]

-----------------------------------------------------------------------------
(* Before the origin *)

\* new_ctx and request_filter, then the cache: a refused upgrade or a hit ends
\* here, anything else asks for capacity.  A request whose class holds no permit,
\* or any request in observe mode, is exempt.
RequestFilter(r) ==
    /\ stage[r] = "idle"
    /\ \E c \in Classes : class' = [class EXCEPT ![r] = c]
    /\ \E next \in {"admission", "ending"} : Enter(r, next)
    /\ UNCHANGED <<held, attempts, outcome_recorded, released, outcomes, spools>>

Held(p) == Cardinality({r \in Requests : p[r]})

\* proxy_upstream_filter refuses: the wait for another request's answer timed
\* out, or the ceiling is reached and the queue full or too slow.
Shed(r) ==
    /\ stage[r] = "admission" /\ Enter(r, "ending")
    /\ UNCHANGED <<held, ctx, spools>>

\* proxy_upstream_filter admits.  A tunnel is counted on its own ceiling; a spool
\* exists only where there is a permit to give back, on routes that ask for one.
Admit(r) ==
    /\ stage[r] = "admission" /\ Enter(r, "peer")
    /\ \/ class[r] = "exempt" /\ UNCHANGED <<held, spools>>
       \/ /\ class[r] = "upgrade" /\ Held(upgrade_permit) < MaxTunnels
          /\ upgrade_permit' = [upgrade_permit EXCEPT ![r] = TRUE]
          /\ UNCHANGED <<permit, origin_slot, spools>>
       \/ /\ class[r] = "render" /\ Held(permit) < MaxPermits
          /\ permit' = [permit EXCEPT ![r] = TRUE]
          /\ (New(r) \/ UNCHANGED spools)
          /\ UNCHANGED <<upgrade_permit, origin_slot>>
    /\ UNCHANGED ctx

-----------------------------------------------------------------------------
(* Origin attempts *)

\* upstream_peer: a new attempt, whose slot replaces the one of the last.
UpstreamPeer(r) ==
    /\ stage[r] = "peer" /\ Enter(r, "waiting")
    /\ attempts' = [attempts EXCEPT ![r] = @ + 1]
    /\ outcome_recorded' = [outcome_recorded EXCEPT ![r] = FALSE]
    /\ origin_slot' = [origin_slot EXCEPT ![r] = TRUE]
    /\ UNCHANGED <<permit, upgrade_permit, class, released, outcomes, spools>>

\* Every error and every header is told to the breaker.
RecordAlways(r) ==
    /\ outcomes' = [outcomes EXCEPT ![r] = @ + 1]
    /\ UNCHANGED outcome_recorded

\* record_origin_outcome: only the first result of an attempt that has a slot.
RecordOriginOutcome(r) ==
    IF outcome_recorded[r] \/ ~origin_slot[r] THEN UNCHANGED <<outcome_recorded, outcomes>>
    ELSE /\ outcome_recorded' = [outcome_recorded EXCEPT ![r] = TRUE]
         /\ outcomes' = [outcomes EXCEPT ![r] = @ + 1]

\* decide_retry, and what Pingora makes of its answer.
Retries(r) ==
    \/ attempts[r] < MaxAttempts /\ Enter(r, "peer")
    \/ Enter(r, "failed")

\* The permit is returned with the failed attempt.
FailReturnsPermit(r) ==
    /\ stage[r] = "waiting"
    /\ RecordOriginOutcome(r) /\ Retries(r)
    /\ permit' = [permit EXCEPT ![r] = FALSE]
    /\ UNCHANGED <<upgrade_permit, origin_slot, class, attempts, released, spools>>

\* fail_to_connect, or error_while_proxy before there is a response header.
Fail(r) ==
    /\ stage[r] = "waiting"
    /\ RecordOriginOutcome(r) /\ Retries(r)
    /\ UNCHANGED <<held, class, attempts, released, spools>>

\* upstream_response_filter: the header is an outcome; then the deadline of the
\* whole attempt may have passed.
Header(r) ==
    /\ stage[r] = "waiting"
    /\ RecordOriginOutcome(r)
    /\ \E next \in {"body", "late"} : Enter(r, next)
    /\ UNCHANGED <<held, class, attempts, released, spools>>

\* error_while_proxy for a header that came too late: nothing was sent yet.
LateHeader(r) ==
    /\ stage[r] = "late"
    /\ RecordOriginOutcome(r) /\ Retries(r)
    /\ UNCHANGED <<held, class, attempts, released, spools>>

\* error_while_proxy in the middle of a body.
BodyError(r) ==
    /\ stage[r] = "body" /\ Idle(r) /\ Enter(r, "ending")
    /\ RecordOriginOutcome(r)
    /\ UNCHANGED <<held, class, attempts, released, spools>>

\* should_serve_stale: a stale entry in place of an upstream error.
ServeStale(r) ==
    /\ stage[r] = "failed"
    /\ \E next \in {"stale", "ending"} : Enter(r, next)
    /\ UNCHANGED <<held, ctx, spools>>

-----------------------------------------------------------------------------
(* The response *)

\* Without asking whether the spool still absorbs.
ReleasedAtBySpool(r) ==
    IF ~permit[r] THEN released[r] ELSE IF pc[r] # Gone THEN "origin_end" ELSE "body_end"

\* Where the log says the permit was released.
ReleasedAt(r) ==
    IF ~permit[r] THEN released[r]
    ELSE IF pc[r] # Gone /\ gave_up[r] = Active THEN "origin_end" ELSE "body_end"

\* The end of the stream: the origin is done, whatever the client has read.
OnEndOfStream(r, end) ==
    IF end
    THEN /\ released' = [released EXCEPT ![r] = ReleasedAt(r)]
         /\ permit' = [permit EXCEPT ![r] = FALSE]
         /\ origin_slot' = [origin_slot EXCEPT ![r] = FALSE]
         /\ Enter(r, "draining")
    ELSE UNCHANGED <<released, permit, origin_slot, stage>>

\* A chunk of the origin's body: upstream_response_body_filter, and the chunk is
\* in response_body_filter.  Without a spool only the end of the body matters.
Body(r) ==
    /\ stage[r] = "body"
    /\ IF pc[r] = Gone THEN OnEndOfStream(r, TRUE) /\ UNCHANGED spools
       ELSE Receive(r) /\ OnEndOfStream(r, eos'[r])
    /\ UNCHANGED <<upgrade_permit, class, attempts, outcome_recorded, outcomes>>

\* A chunk of a stale entry passes response_body_filter only.
StaleBody(r) ==
    /\ stage[r] = "stale" /\ Receive(r)
    /\ UNCHANGED <<stage, held, ctx>>

ResponseBodyFilter(r) == Offer(r) /\ UNCHANGED <<stage, held, ctx>>

\* The client has read everything.
Sent(r) ==
    /\ stage[r] \in {"draining", "stale"} /\ Idle(r) /\ (pc[r] = Gone \/ eos[r])
    /\ Enter(r, "ending")
    /\ UNCHANGED <<held, ctx, spools>>

\* The client goes away.
Abort(r) ==
    /\ stage[r] \notin {"idle", "ending"} /\ Idle(r) /\ Enter(r, "ending")
    /\ UNCHANGED <<held, ctx, spools>>

\* The context is gone.
NewCtx(r) ==
    /\ class' = [class EXCEPT ![r] = "exempt"]
    /\ attempts' = [attempts EXCEPT ![r] = 0]
    /\ outcome_recorded' = [outcome_recorded EXCEPT ![r] = FALSE]
    /\ released' = [released EXCEPT ![r] = NotYet] /\ outcomes' = [outcomes EXCEPT ![r] = 0]

\* logging, which runs on every path, or the drop of the context without it.
Logging(r) ==
    /\ stage[r] = "ending" /\ Enter(r, "idle")
    /\ permit' = [permit EXCEPT ![r] = FALSE]
    /\ upgrade_permit' = [upgrade_permit EXCEPT ![r] = FALSE]
    /\ origin_slot' = [origin_slot EXCEPT ![r] = FALSE]
    /\ Drop(r) /\ NewCtx(r)

-----------------------------------------------------------------------------
Callback(r) ==
    \/ Shed(r) \/ Admit(r) \/ UpstreamPeer(r) \/ Fail(r) \/ Header(r) \/ LateHeader(r)
    \/ BodyError(r) \/ ServeStale(r) \/ Body(r) \/ StaleBody(r) \/ ResponseBodyFilter(r)
    \/ Sent(r) \/ Logging(r)

Next == \E r \in Requests : RequestFilter(r) \/ Callback(r) \/ Abort(r)

Spec == Init /\ [][Next]_vars
-----------------------------------------------------------------------------
(* Properties *)

\* "Exactly one outcome is recorded per attempt" (Ctx::outcome_recorded): every
\* attempt that was answered, failed or came too late has told its breaker once,
\* through retries and errors after the header.
OneOutcomePerAttempt ==
    \A r \in Requests :
       /\ stage[r] = "waiting" => outcomes[r] = attempts[r] - 1
       /\ stage[r] \in {"peer", "late", "failed", "body", "stale", "draining"} => outcomes[r] = attempts[r]
       /\ outcomes[r] <= attempts[r]

\* Origin work is counted for as long as the origin may be doing it: from the
\* first attempt to the end of the stream, across retries, the request has its
\* backend's slot and its permit on the ceiling of its class; and nothing of it is
\* left afterwards, whichever way it ended (logging).
WorkCounted ==
    \A r \in Requests :
       /\ stage[r] \in {"waiting", "body"} => origin_slot[r]
       /\ stage[r] \in {"peer", "waiting", "late", "body"} =>
             /\ class[r] = "render" => permit[r]
             /\ class[r] = "upgrade" => upgrade_permit[r]
       /\ stage[r] = "idle" => ~permit[r] /\ ~upgrade_permit[r] /\ ~origin_slot[r] /\ reserved[r] = 0

\* "origin_end: ... no downstream write ever applied backpressure to the origin"
\* (upstream_response_body_filter): a permit logged so was returned before any
\* byte of the body went downstream.
OriginEndHonest ==
    [][\A r \in Requests :
          released'[r] = "origin_end" /\ released[r] = NotYet => out[r] = <<>> /\ out'[r] = <<>>]_vars
==============================================================================
