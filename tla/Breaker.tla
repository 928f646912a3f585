------------------------------ MODULE Breaker ------------------------------
(***************************************************************************)
(* One backend's circuit breaker (src/upstream/breaker.rs), used by many   *)
(* requests at once.  Each load, compare-exchange and locked section is a  *)
(* step of its own.  The failure window is two counters that may age out   *)
(* at any time; module RollingRatio has its details.                       *)
(*                                                                         *)
(* Times are relative to the present: open_until is the time left before   *)
(* the deadline, and age is how long ago a request read the clock that it  *)
(* passes as now_ms.                                                       *)
(***************************************************************************)
EXTENDS Integers

CONSTANTS
    Requests,
    OpenFor,            \* open_for_ms, in ticks
    MinRequests, FailurePercent,
    MaxCount,           \* bound: outcomes in the window
    MaxStall            \* bound: ticks between reading the clock and using it

ASSUME BreakerAssumption ==
    /\ OpenFor \in Nat \ {0} /\ MaxStall \in Nat /\ MaxCount \in Nat
    /\ MinRequests \in Nat \ {0} /\ FailurePercent \in 1 .. 100

VARIABLES
    open_until, active_probe,
    total, failed,      \* the failure window
    pc, age, ok, probe, \* of each request; probe: it carries the token it was given
    well,               \* the backend would answer
    last, since             \* history: newest token and its age

window == <<total, failed>>
attempt == <<pc, age, ok, probe>>
history == <<last, since>>
vars == <<open_until, active_probe, window, attempt, well, history>>

Closed == -(MaxStall + 1)
None == "none"

ASSUME TokenAssumption == None \notin Requests

\* allowance, record and record_probe hold a clock reading in these steps.
Timed == {"claim", "result", "check", "count", "judge", "trip"}

\* No token was given since the breaker opened.
LongAgo == OpenFor + MaxStall

Least(x, y) == IF x < y THEN x ELSE y
Most(x, y) == IF x > y THEN x ELSE y

Init ==
    /\ open_until = Closed /\ active_probe = None /\ total = 0 /\ failed = 0
    /\ pc = [r \in Requests |-> "idle"] /\ age = [r \in Requests |-> 0]
    /\ ok = [r \in Requests |-> FALSE] /\ probe = [r \in Requests |-> FALSE]
    /\ well \in BOOLEAN
    /\ last = None /\ since = LongAgo

\* deadline(now_ms) for a clock read some time ago.
Deadline(a) == Most(OpenFor - a, -MaxStall)

\* The next step of a request; its clock reading is gone once it is not needed.
Goto(r, next) ==
    /\ pc' = [pc EXCEPT ![r] = next]
    /\ age' = [age EXCEPT ![r] = IF pc[r] \in Timed /\ next \in Timed THEN @ ELSE 0]

-----------------------------------------------------------------------------
(* allowance *)

\* The unlocked part.  A denied request goes to another backend, or comes here
\* all the same when the pool ignores its breakers.
Ask(r) ==
    /\ pc[r] = "idle"
    /\ \/ (open_until > 0 \/ open_until = Closed) /\ Goto(r, "working")
       \/ open_until # Closed /\ open_until <= 0 /\ Goto(r, "claim")
    /\ UNCHANGED <<open_until, active_probe, window, ok, probe, well, history>>

\* A claim that trusts the unlocked reading of the deadline.
ClaimUnchecked(r) ==
    /\ pc[r] = "claim" /\ open_until # Closed
    /\ open_until' = Deadline(age[r])
    /\ active_probe' = r /\ last' = r /\ since' = age[r]
    /\ probe' = [probe EXCEPT ![r] = TRUE]
    /\ Goto(r, "working")
    /\ UNCHANGED <<window, ok, well>>

\* No new token while one is outstanding.
ClaimWaitsForResult(r) ==
    /\ pc[r] = "claim"
    /\ IF open_until # Closed /\ open_until + age[r] <= 0 /\ active_probe = None
       THEN /\ open_until' = Deadline(age[r])
            /\ active_probe' = r /\ last' = r /\ since' = age[r]
            /\ probe' = [probe EXCEPT ![r] = TRUE]
            /\ Goto(r, "working")
       ELSE /\ Goto(r, "working")
            /\ UNCHANGED <<open_until, active_probe, probe, last, since>>
    /\ UNCHANGED <<window, ok, well>>

\* The part under probe_lock: the deadline is read again, and the winner re-arms it.
Claim(r) ==
    /\ pc[r] = "claim"
    /\ IF open_until # Closed /\ open_until + age[r] <= 0
       THEN /\ open_until' = Deadline(age[r])
            /\ active_probe' = r /\ last' = r /\ since' = age[r]
            /\ probe' = [probe EXCEPT ![r] = TRUE]
            /\ Goto(r, "working")
       ELSE /\ \/ Goto(r, "working")
               \/ open_until # Closed /\ Goto(r, "idle")
            /\ UNCHANGED <<open_until, active_probe, probe, last, since>>
    /\ UNCHANGED <<window, ok, well>>

-----------------------------------------------------------------------------
(* The origin attempt *)

Respond(r) ==
    /\ pc[r] = "working"
    /\ ok' = [ok EXCEPT ![r] = well]
    /\ Goto(r, IF probe[r] THEN "result" ELSE "check")
    /\ UNCHANGED <<open_until, active_probe, window, probe, well, history>>

\* The client hangs up and no outcome is ever recorded.
Lose(r) ==
    /\ pc[r] = "working"
    /\ Goto(r, "idle")
    /\ probe' = [probe EXCEPT ![r] = FALSE]
    /\ UNCHANGED <<open_until, active_probe, window, ok, well, history>>

-----------------------------------------------------------------------------
(* record_probe, under probe_lock *)

Conclude(r) ==
    IF ok[r]
    THEN total' = 0 /\ failed' = 0 /\ open_until' = Closed
    ELSE open_until' = Deadline(age[r]) /\ UNCHANGED window

\* A success closes the breaker whichever probe it belongs to.
RecordAnyProbe(r) ==
    /\ pc[r] = "result"
    /\ IF active_probe = r \/ (ok[r] /\ open_until # Closed)
       THEN active_probe' = None /\ Conclude(r)
       ELSE UNCHANGED <<open_until, active_probe, window>>
    /\ Goto(r, "idle") /\ probe' = [probe EXCEPT ![r] = FALSE]
    /\ UNCHANGED <<ok, well, last, since>>

RecordProbe(r) ==
    /\ pc[r] = "result"
    /\ IF active_probe = r
       THEN active_probe' = None /\ Conclude(r)
       ELSE UNCHANGED <<open_until, active_probe, window>>
    /\ Goto(r, "idle") /\ probe' = [probe EXCEPT ![r] = FALSE]
    /\ UNCHANGED <<ok, well, last, since>>

-----------------------------------------------------------------------------
(* record *)

CheckClosed(r) ==
    /\ pc[r] = "check"
    /\ Goto(r, IF open_until = Closed THEN "count" ELSE "idle")
    /\ UNCHANGED <<open_until, active_probe, window, ok, probe, well, history>>

Count(r) ==
    /\ pc[r] = "count" /\ total < MaxCount
    /\ total' = total + 1
    /\ failed' = IF ok[r] THEN failed ELSE failed + 1
    /\ Goto(r, IF ok[r] THEN "idle" ELSE "judge")
    /\ UNCHANGED <<open_until, active_probe, ok, probe, well, history>>

OverThreshold == total >= MinRequests /\ failed * 100 >= total * FailurePercent

Judge(r) ==
    /\ pc[r] = "judge"
    /\ Goto(r, IF OverThreshold THEN "trip" ELSE "idle")
    /\ UNCHANGED <<open_until, active_probe, window, ok, probe, well, history>>

\* Only from closed: a compare-exchange.
Trip(r) ==
    /\ pc[r] = "trip"
    /\ IF open_until = Closed
       THEN open_until' = Deadline(age[r]) /\ Goto(r, "reset") /\ since' = LongAgo
       ELSE Goto(r, "idle") /\ UNCHANGED <<open_until, since>>
    /\ UNCHANGED <<active_probe, window, ok, probe, well, last>>

ResetWindow(r) ==
    /\ pc[r] = "reset"
    /\ total' = 0 /\ failed' = 0
    /\ Goto(r, "idle")
    /\ UNCHANGED <<open_until, active_probe, ok, probe, well, history>>

-----------------------------------------------------------------------------
(* The environment *)

\* Outcomes leave the window as time passes.
AgeOut ==
    /\ \E t \in 0 .. total, f \in 0 .. failed :
          f <= t /\ total - t >= failed - f /\ total' = t /\ failed' = f
    /\ UNCHANGED <<open_until, active_probe, attempt, well, history>>

Tick ==
    /\ \A r \in Requests : pc[r] \in Timed => age[r] < MaxStall
    /\ age' = [r \in Requests |-> IF pc[r] \in Timed THEN age[r] + 1 ELSE age[r]]
    /\ open_until' = IF open_until = Closed THEN Closed ELSE Most(open_until - 1, -MaxStall)
    /\ since' = Least(since + 1, LongAgo)
    /\ UNCHANGED <<active_probe, window, pc, ok, probe, well, last>>

BackendChanges ==
    /\ well' = ~well
    /\ UNCHANGED <<open_until, active_probe, window, attempt, history>>

Method(r) ==
    \/ Claim(r) \/ RecordProbe(r) \/ CheckClosed(r) \/ Count(r)
    \/ Judge(r) \/ Trip(r) \/ ResetWindow(r)

Next ==
    \/ \E r \in Requests : Ask(r) \/ Method(r) \/ Respond(r) \/ Lose(r)
    \/ AgeOut \/ Tick \/ BackendChanges

Spec == Init /\ [][Next]_vars

\* Time passes, traffic keeps arriving, code that runs goes on, outcomes leave
\* the window, and not every probe is lost or slower than open_for.
FairSpec ==
    /\ Spec
    /\ WF_vars(Tick) /\ WF_vars(AgeOut /\ total' = 0)
    /\ \A r \in Requests :
          /\ WF_vars(Ask(r)) /\ WF_vars(Method(r))
          /\ WF_vars(Respond(r))
          /\ SF_vars(active_probe = r /\ probe[r] /\ Respond(r))
          /\ SF_vars(active_probe = r /\ RecordProbe(r))
-----------------------------------------------------------------------------
(* Properties *)

\* "Exactly one request per open_for is spent finding out" (allowance): within
\* one opening, by the clocks the requests read, tokens are open_for apart.
ProbesSpaced ==
    [][\A r \in Requests :
          pc[r] = "claim" /\ probe'[r] => since - age[r] >= OpenFor]_vars

\* Only the newest token closes the breaker: not an older probe, not an ordinary
\* or fallback request (record, record_probe).
ClosedByNewestProbe ==
    [][open_until # Closed /\ open_until' = Closed =>
          \E r \in Requests : r = last /\ pc[r] = "result" /\ ok[r] /\ probe[r]]_vars

\* A backend that answers again comes back into rotation: a lost probe result
\* cannot leave it ejected, since the next deadline gives out another token.
Recovers == <>[]well => []<>(open_until = Closed)
=============================================================================
