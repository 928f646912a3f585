----------------------------- MODULE RetryBudget -----------------------------
(***************************************************************************)
(* The origin-wide retry budget (src/upstream/retry.rs) over the sliding   *)
(* window.  Every attempt is recorded; a failed one takes a flag, compares *)
(* all flags with the allowance, and returns its flag when it does not     *)
(* fit.  A request carries the number of its attempts.                     *)
(***************************************************************************)
EXTENDS RollingRatio

CONSTANTS percent, minimum, max_attempts

ASSUME BudgetAssumption ==
    percent \in 0 .. 100 /\ minimum \in Nat /\ max_attempts \in Nat \ {0}

VARIABLES
    owner,              \* the ring belongs to a breaker or to the budget
    attempts, spent,    \* of each request
    granted, room       \* history, per slice: retries allowed, the largest allowance they saw

budget == <<attempts, spent, granted, room>>
vars == <<windowVars, owner, budget>>

Greater(x, y) == IF x > y THEN x ELSE y

Init ==
    /\ WindowInit /\ owner \in {"breaker", "budget"}
    /\ attempts = [t \in Threads |-> 0] /\ spent = [t \in Threads |-> 0]
    /\ granted = [e \in 0 .. MaxEpoch |-> 0] /\ room = [e \in 0 .. MaxEpoch |-> 0]

\* record_attempt for the first attempt of a request.
RecordAttempt(t) ==
    /\ pc[t] = "idle" /\ attempts[t] = 0
    /\ Begin(t, "record")
    /\ attempts' = [attempts EXCEPT ![t] = @ + 1]
    /\ UNCHANGED <<ring, clock, slot, sum, spent, granted, room>>

\* The attempt succeeds, or the client is answered with an error.
Finish(t) ==
    /\ pc[t] = "idle" /\ attempts[t] > 0
    /\ attempts' = [attempts EXCEPT ![t] = 0]
    /\ UNCHANGED <<windowVars, spent, granted, room>>

\* charge for a failed attempt, up to the flag.
Charge(t) ==
    /\ pc[t] = "idle" /\ attempts[t] > 0 /\ attempts[t] < max_attempts
    /\ Begin(t, "charge")
    /\ UNCHANGED <<ring, clock, slot, sum, budget>>

Flag(t) ==
    /\ pc[t] = "add" /\ op[t] = "charge"
    /\ bucket' = [bucket EXCEPT ![Mine(t)].flagged = @ + 1]
    /\ Goto(t, "scan") /\ StartScan(t)
    /\ UNCHANGED <<rollover, counted, clock, begun, op, now, budget>>

\* The flags without the caller's own.
SpentBefore(t) ==
    /\ Scanned(t) /\ op[t] = "charge"
    /\ spent' = [spent EXCEPT ![t] = Greater(sum[t].flagged - 1, 0)]
    /\ op' = [op EXCEPT ![t] = "allowance"] /\ StartScan(t)
    /\ UNCHANGED <<ring, clock, begun, pc, now, attempts, granted, room>>

\* flag's totals are read; allowance reads them again.
Spent(t) ==
    /\ Scanned(t) /\ op[t] = "charge"
    /\ spent' = [spent EXCEPT ![t] = sum[t].flagged]
    /\ op' = [op EXCEPT ![t] = "allowance"] /\ StartScan(t)
    /\ UNCHANGED <<ring, clock, begun, pc, now, attempts, granted, room>>

Allowance(t) == Greater((sum[t].total * percent) \div 100, minimum)

\* Allowed, or back to the bucket of the same clock reading to return the flag.
Decide(t) ==
    /\ Scanned(t) /\ op[t] = "allowance"
    /\ IF spent[t] > Allowance(t)
       THEN /\ op' = [op EXCEPT ![t] = "unflag"] /\ Goto(t, "current")
            /\ UNCHANGED <<granted, room>>
       ELSE /\ Goto(t, "retry") /\ UNCHANGED op
            /\ granted' = [granted EXCEPT ![now[t]] = @ + 1]
            /\ room' = [room EXCEPT ![now[t]] = Greater(@, Allowance(t))]
    /\ UNCHANGED <<ring, clock, begun, now, slot, sum, attempts, spent>>

UnflagTwice(t) ==
    /\ pc[t] = "add" /\ op[t] = "unflag"
    /\ bucket' = [bucket EXCEPT ![Mine(t)].flagged = Greater(@ - 2, 0)]
    /\ Goto(t, "idle") /\ attempts' = [attempts EXCEPT ![t] = 0]
    /\ UNCHANGED <<rollover, counted, clock, begun, op, now, slot, sum, spent, granted, room>>

Unflag(t) ==
    /\ pc[t] = "add" /\ op[t] = "unflag"
    /\ bucket' = [bucket EXCEPT ![Mine(t)].flagged = Greater(@ - 1, 0)]
    /\ Goto(t, "idle") /\ attempts' = [attempts EXCEPT ![t] = 0]
    /\ UNCHANGED <<rollover, counted, clock, begun, op, now, slot, sum, spent, granted, room>>

\* An allowed retry goes back through upstream_peer, which records it.
Retry(t) ==
    /\ pc[t] = "retry"
    /\ Begin(t, "record")
    /\ attempts' = [attempts EXCEPT ![t] = @ + 1]
    /\ UNCHANGED <<ring, clock, slot, sum, spent, granted, room>>

BudgetUse ==
    \/ \E t \in Threads :
          \/ RecordAttempt(t)
          \/ Finish(t) \/ Charge(t) \/ Flag(t) \/ Spent(t) \/ Decide(t) \/ Unflag(t) \/ Retry(t)
          \/ (Current(t) \/ Clear(t) \/ Publish(t) \/ AddTotal(t) \/ Scan(t) \/ Read(t)) /\ UNCHANGED budget
    \/ Tick /\ UNCHANGED budget

Next ==
    /\ \/ owner = "budget" /\ BudgetUse
       \/ owner = "breaker" /\ BreakerUse /\ UNCHANGED budget
    /\ UNCHANGED owner

Spec == Init /\ [][Next]_vars
-----------------------------------------------------------------------------
(* Properties *)

\* A returned flag is the caller's own: while a slice is in the window its
\* counter covers the retries allowed in it, whatever rejected callers undo.
GrantsStayCounted ==
    \A e \in {x \in 0 .. MaxEpoch : x > clock - BUCKETS} :
       granted[e] > 0 => bucket[e % BUCKETS].epoch = e /\ bucket[e % BUCKETS].flagged >= granted[e]

\* charge: a burst of failures with the same clock reading cannot spend more
\* than the allowance, however their flags and totals interleave.
BurstWithinAllowance == \A e \in 0 .. MaxEpoch : granted[e] <= room[e]
==============================================================================
