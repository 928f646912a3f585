------------------------------ MODULE Upstream ------------------------------
(***************************************************************************)
(* The upstream pool (src/upstream/mod.rs): requests choose a backend by   *)
(* health, breaker and load, occupy it for one attempt, and report how the *)
(* attempt ended.  Breakers are the ones of module Breaker with each of    *)
(* their methods in one step: an open breaker is due once its deadline has *)
(* passed, and token is the request whose result decides.                  *)
(***************************************************************************)
EXTENDS Integers, Sequences, FiniteSets, FiniteSetsExt

CONSTANTS
    Requests,
    N,                  \* backends 1 .. N, in configuration order
    MaxEjected,         \* how many ejections the pool honours
    HealthChecks,       \* the active health check runs
    Latencies,          \* the latencies an origin may show
    Strategy,           \* load balancing; hashing a path may hit any candidate
    Cycle,              \* bound: the cursor counts modulo this multiple of 1 .. N
    MaxAttempts         \* origin attempts of one request

ASSUME UpstreamAssumption ==
    /\ HealthChecks \in BOOLEAN /\ IsFiniteSet(Requests)
    /\ N \in Nat \ {0} /\ MaxAttempts \in Nat \ {0}
    /\ MaxEjected \in 1 .. N    \* validation refuses a share that floors to zero
    /\ Strategy \in {"round_robin", "hash_by_path", "least_loaded"} /\ Latencies \subseteq Nat
    /\ Cycle \in Nat /\ \A n \in 1 .. N : Cycle % n = 0

Backends == 1 .. N

VARIABLES
    healthy, breaker, token, in_flight, ewma,   \* of each backend
    cursor,
    well,                                       \* the backend answers
    pc, pool, ejected, left, target, probe, slot, attempts  \* of each request

backend == <<healthy, breaker, token, in_flight, ewma, cursor>>
choice == <<pool, ejected, left>>
request == <<pc, choice, target, probe, slot, attempts>>
vars == <<backend, well, request>>

None == "none"
NoBackend == 0

\* Without a health check every backend is assumed healthy; with one, none is
\* until its first check passes.
Init ==
    /\ healthy = [b \in Backends |-> ~HealthChecks]
    /\ breaker = [b \in Backends |-> "closed"] /\ token = [b \in Backends |-> None]
    /\ cursor = 0
    /\ in_flight = [b \in Backends |-> 0] /\ ewma = [b \in Backends |-> 0]
    /\ well = [b \in Backends |-> TRUE]
    /\ pc = [r \in Requests |-> "idle"] /\ attempts = [r \in Requests |-> 0]
    /\ pool = [r \in Requests |-> {}] /\ ejected = [r \in Requests |-> 0]
    /\ left = [r \in Requests |-> <<>>] /\ target = [r \in Requests |-> NoBackend]
    /\ probe = [r \in Requests |-> FALSE] /\ slot = [r \in Requests |-> NoBackend]

Goto(r, next) == pc' = [pc EXCEPT ![r] = next]
Healthy == {b \in Backends : healthy[b]}
InOrder(B) == SelectSeq([b \in 1 .. N |-> b], LAMBDA b : b \in B)

-----------------------------------------------------------------------------
(* select_at *)

\* The snapshot a selection works with.  With nothing healthy the whole pool is
\* used and breakers are not consulted.
Select(r) ==
    /\ pc[r] \in {"idle", "retry"}
    /\ LET open == {b \in Healthy : breaker[b] # "closed"}
       IN IF Healthy = {}
          THEN /\ pool' = [pool EXCEPT ![r] = Backends]
               /\ ejected' = [ejected EXCEPT ![r] = N + 1]
               /\ left' = [left EXCEPT ![r] = <<>>]
          ELSE /\ pool' = [pool EXCEPT ![r] = Healthy]
               /\ ejected' = [ejected EXCEPT ![r] = Cardinality(open)]
               /\ left' = [left EXCEPT ![r] = InOrder(open)]
    /\ Goto(r, "probes")
    /\ UNCHANGED <<backend, well, target, probe, slot, attempts>>

\* The choice is made; the snapshot is gone.
Chosen(r, b, p) ==
    /\ target' = [target EXCEPT ![r] = b] /\ probe' = [probe EXCEPT ![r] = p]
    /\ pool' = [pool EXCEPT ![r] = {}] /\ ejected' = [ejected EXCEPT ![r] = 0]
    /\ left' = [left EXCEPT ![r] = <<>>]
    /\ Goto(r, "chosen")

\* A recovery probe is spent on the first ejected backend that is due, before
\* any normal selection; one that closed in the meantime is used as it is.
TryProbe(r) ==
    /\ pc[r] = "probes" /\ left[r] # <<>>
    /\ LET b == Head(left[r])
       IN \/ /\ breaker[b] = "due"
             /\ breaker' = [breaker EXCEPT ![b] = "open"]
             /\ token' = [token EXCEPT ![b] = r]
             /\ Chosen(r, b, TRUE)
          \/ /\ breaker[b] = "closed"
             /\ Chosen(r, b, FALSE)
             /\ UNCHANGED <<breaker, token>>
          \/ /\ breaker[b] = "open"
             /\ left' = [left EXCEPT ![r] = Tail(@)]
             /\ UNCHANGED <<breaker, token, pc, pool, ejected, target, probe>>
    /\ UNCHANGED <<healthy, in_flight, ewma, cursor, well, slot, attempts>>

Score(b) == (in_flight[b] + 1) * Max({ewma[b], 1})

\* Where the cursor stands among candidates, and the candidates from there on.
From(B, k) == InOrder(B)[((cursor + k) % Cardinality(B)) + 1]

\* least_loaded keeps the first of the best scores, scanning from the cursor.
FirstBest(B) ==
    From(B, Min({k \in 0 .. Cardinality(B) - 1 : \A c \in B : Score(From(B, k)) <= Score(c)}))

Picks(B) ==
    CASE Strategy = "round_robin" -> {From(B, 0)}
      [] Strategy = "hash_by_path" -> B
      [] Strategy = "least_loaded" -> {FirstBest(B)}

\* Past the ejection cap breakers stop mattering, and so they do when none of
\* the healthy backends is closed.
Candidates(r) ==
    LET closed == {b \in pool[r] : breaker[b] = "closed"}
    IN IF ejected[r] > MaxEjected \/ closed = {} THEN pool[r] ELSE closed

Pick(r) ==
    /\ pc[r] = "probes" /\ left[r] = <<>>
    /\ \E b \in Picks(Candidates(r)) : Chosen(r, b, FALSE)
    /\ cursor' = IF Strategy = "hash_by_path" THEN cursor ELSE (cursor + 1) % Cycle
    /\ UNCHANGED <<healthy, breaker, token, in_flight, ewma, well, slot, attempts>>

-----------------------------------------------------------------------------
(* One origin attempt *)

\* A retry that leaves the slot of the failed attempt taken.
EnterKeepsSlot(r) ==
    /\ pc[r] = "chosen"
    /\ in_flight' = [in_flight EXCEPT ![target[r]] = @ + 1]
    /\ slot' = [slot EXCEPT ![r] = target[r]]
    /\ attempts' = [attempts EXCEPT ![r] = @ + 1]
    /\ target' = [target EXCEPT ![r] = NoBackend]
    /\ Goto(r, "working")
    /\ UNCHANGED <<healthy, breaker, token, ewma, cursor, well, choice, probe>>

\* upstream_peer after the selection: the slot of a failed attempt is given
\* back, the one on the chosen backend taken.
Enter(r) ==
    /\ pc[r] = "chosen"
    /\ in_flight' = [b \in Backends |->
          in_flight[b] + (IF b = target[r] THEN 1 ELSE 0) - (IF b = slot[r] THEN 1 ELSE 0)]
    /\ slot' = [slot EXCEPT ![r] = target[r]]
    /\ attempts' = [attempts EXCEPT ![r] = @ + 1]
    /\ target' = [target EXCEPT ![r] = NoBackend]
    /\ Goto(r, "working")
    /\ UNCHANGED <<healthy, breaker, token, ewma, cursor, well, choice, probe>>

\* Any success closes an ejected backend.
RecordAnySuccess(r, ok) ==
    LET b == slot[r]
    IN /\ breaker' = [breaker EXCEPT ![b] = IF ok THEN "closed" ELSE "open"]
       /\ token' = [token EXCEPT ![b] = None]

\* record_outcome: a probe decides if its token is still the newest, another
\* attempt counts only on a closed breaker, and may be the failure that trips it.
RecordOutcome(r, ok) ==
    LET b == slot[r]
    IN \/ /\ probe[r] /\ token[b] = r
          /\ token' = [token EXCEPT ![b] = None]
          /\ breaker' = [breaker EXCEPT ![b] = IF ok THEN "closed" ELSE "open"]
       \/ /\ ~probe[r] /\ ~ok /\ breaker[b] = "closed"
          /\ breaker' = [breaker EXCEPT ![b] = "open"]
          /\ UNCHANGED token
       \/ /\ ~(probe[r] /\ token[b] = r)
          /\ UNCHANGED <<breaker, token>>

\* observe_latency: a mean that moves by an eighth.
Observe(previous, sample) ==
    IF previous = 0 THEN sample ELSE (previous - previous \div 8) + sample \div 8

\* A response header (an error status counts as a failure), or no connection:
\* then the request may be sent again.
Answer(r) ==
    /\ pc[r] = "working" /\ well[slot[r]]
    /\ \E l \in Latencies : ewma' = [ewma EXCEPT ![slot[r]] = Observe(@, l)]
    /\ RecordOutcome(r, TRUE)
    /\ Goto(r, "body")
    /\ probe' = [probe EXCEPT ![r] = FALSE]
    /\ UNCHANGED <<healthy, in_flight, cursor, well, choice, target, slot, attempts>>

Fail(r) ==
    /\ pc[r] = "working" /\ ~well[slot[r]]
    /\ RecordOutcome(r, FALSE)
    /\ \/ attempts[r] < MaxAttempts /\ Goto(r, "retry")
       \/ Goto(r, "body")
    /\ probe' = [probe EXCEPT ![r] = FALSE]
    /\ UNCHANGED <<healthy, in_flight, ewma, cursor, well, choice, target, slot, attempts>>

\* The guard is dropped: the origin finished, or the request ended at any point
\* of the attempt without an outcome.
Release(r) ==
    /\ slot[r] # NoBackend /\ pc[r] \in {"working", "body", "retry"}
    /\ in_flight' = [in_flight EXCEPT ![slot[r]] = @ - 1]
    /\ slot' = [slot EXCEPT ![r] = NoBackend]
    /\ attempts' = [attempts EXCEPT ![r] = 0]
    /\ probe' = [probe EXCEPT ![r] = FALSE]
    /\ Goto(r, "idle")
    /\ UNCHANGED <<healthy, breaker, token, ewma, cursor, well, choice, target>>

-----------------------------------------------------------------------------
(* The environment *)

\* open_for has passed for an ejected backend.
DeadlinePasses(b) ==
    /\ breaker[b] = "open"
    /\ breaker' = [breaker EXCEPT ![b] = "due"]
    /\ UNCHANGED <<healthy, token, in_flight, ewma, cursor, well, request>>

\* The active health check changes its mind (set_healthy).
SetHealthy(b) ==
    /\ HealthChecks
    /\ healthy' = [healthy EXCEPT ![b] = ~@]
    /\ UNCHANGED <<breaker, token, in_flight, ewma, cursor, well, request>>

BackendChanges(b) ==
    /\ well' = [well EXCEPT ![b] = ~@]
    /\ UNCHANGED <<backend, request>>

Step(r) == Select(r) \/ TryProbe(r) \/ Pick(r) \/ Enter(r)

Next ==
    \/ \E r \in Requests : Step(r) \/ Answer(r) \/ Fail(r) \/ Release(r)
    \/ \E b \in Backends : DeadlinePasses(b) \/ SetHealthy(b) \/ BackendChanges(b)

Spec == Init /\ [][Next]_vars

-----------------------------------------------------------------------------
(* Properties *)

\* Every backend's load is the attempts that occupy it, through retries that
\* replace a slot and every way an attempt can end (InFlightGuard).
InFlightExact ==
    \A b \in Backends : in_flight[b] = Cardinality({r \in Requests : slot[r] = b})

\* "Its result cannot decide the breaker": only the request with the newest
\* token closes an ejected backend, not fallback traffic past the cap.
OnlyProbesClose ==
    [][\A b \in Backends :
          breaker[b] # "closed" /\ breaker'[b] = "closed" =>
             \E r \in Requests : slot[r] = b /\ probe[r] /\ token[b] = r]_vars

=============================================================================
