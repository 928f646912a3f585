------------------------------ MODULE Limiter ------------------------------
(***************************************************************************)
(* One concurrency ceiling (src/admission/limiter.rs): a tokio semaphore   *)
(* whose size a reload may change while permits are out, a bounded waiting *)
(* queue, and the shrink debt that collects what a smaller ceiling could   *)
(* not take back at once.                                                  *)
(*                                                                         *)
(* Each action changes shared state once: an atomic operation, or what the *)
(* code does under a lock.  The semaphore is external: released units go   *)
(* to the parked requests in FIFO order, one at a time under the waiter    *)
(* lock (moving is what the current holder of that lock still hands out), and *)
(* a parked request may already own a part of its weight.                  *)
(***************************************************************************)
EXTENDS Integers, Sequences, FiniteSets, FiniteSetsExt

CONSTANTS
    Requests,       \* requests that cross this limiter, each again and again
    MaxWeight,      \* the heaviest configured weight
    Weight,         \* units of the ceiling each request occupies
    Limits,         \* ceilings a configuration may give
    QueueMaxes,     \* queue bounds a configuration may give
    Impatient,      \* requests that may time out or be cancelled while parked
    MaxReloads      \* bound: ceiling changes in a behaviour

ASSUME RequestsAssumption == IsFiniteSet(Requests) /\ Impatient \subseteq Requests
ASSUME WeightAssumption ==
    MaxWeight \in Nat /\ Weight \in [Requests -> 1 .. MaxWeight]
ASSUME LimitsAssumption ==
    Limits \subseteq Nat /\ QueueMaxes \subseteq Nat /\ MaxReloads \in Nat

VARIABLES
    limit,          \* the configured ceiling
    debt,           \* units a shrink still owes
    debtLock,       \* the debt mutex is held across a return to the semaphore
    available,      \* the semaphore's free units
    waiters,        \* the semaphore's FIFO of parked requests
    moving,            \* units being handed out under the waiter lock
    units,          \* units each request owns, assigned or held
    queue_depth, queue_max,
    pc,             \* where each request stands in acquire()
    seen,           \* the queue_max a request loaded
    reloads

sem == <<available, waiters, moving, units>>
queue == <<queue_depth, queue_max, seen>>
vars == <<limit, debt, debtLock, available, waiters, moving, units,
          queue_depth, queue_max, pc, seen, reloads>>

Stages == {"idle", "full", "sizing", "over", "reserved", "parked", "leaving", "held"}

\* From fetch_add to the matching fetch_sub a request counts in queue_depth;
\* once past the comparison it has a QueueSlot.
SlotStages == {"over", "reserved", "parked", "leaving"}
InStages(p, S) == {r \in Requests : p[r] \in S}
SlotHolders == InStages(pc, SlotStages)
Queued == InStages(pc, SlotStages \ {"over"})

\* Every unit some request owns, as <<request, index>> pairs, so that the units
\* owned altogether are a cardinality.
Owned(f) == {u \in Requests \X (1 .. MaxWeight) : u[2] <= f[u[1]]}
InHand == Owned(units)

\* Those of requests that own their whole weight: origin work that is admitted.
Admitted == {u \in InHand : units[u[1]] = Weight[u[1]]}

-----------------------------------------------------------------------------
Init ==
    /\ limit \in Limits /\ available = limit
    /\ debt = 0 /\ debtLock = FALSE
    /\ waiters = <<>> /\ moving = 0
    /\ units = [r \in Requests |-> 0]
    /\ queue_depth = 0 /\ queue_max \in QueueMaxes
    /\ pc = [r \in Requests |-> "idle"]
    /\ seen = [r \in Requests |-> 0]
    /\ reloads = 0

Goto(r, stage) == pc' = [pc EXCEPT ![r] = stage]

\* try_acquire_many_owned takes the whole weight from the free units.
TryAcquire(r) ==
    /\ pc[r] = "idle" /\ available >= Weight[r]
    /\ available' = available - Weight[r]
    /\ units' = [units EXCEPT ![r] = Weight[r]]
    /\ Goto(r, "held")
    /\ UNCHANGED <<limit, debt, debtLock, waiters, moving, queue, reloads>>

TryAcquireFails(r) ==
    /\ pc[r] = "idle" /\ available < Weight[r]
    /\ Goto(r, "full")
    /\ UNCHANGED <<limit, debt, debtLock, sem, queue, reloads>>

\* Load queue_max; no queue at all sheds the request at once.
LoadQueueMax(r) ==
    /\ pc[r] = "full"
    /\ IF queue_max = 0
       THEN Goto(r, "idle") /\ UNCHANGED seen
       ELSE Goto(r, "sizing") /\ seen' = [seen EXCEPT ![r] = queue_max]
    /\ UNCHANGED <<limit, debt, debtLock, sem, queue_depth, queue_max, reloads>>

\* depth < queue_max, on the bound loaded earlier.
QueueHasRoom(r) == queue_depth < seen[r]

\* fetch_add first, compare afterwards.
ReserveSlot(r) ==
    /\ pc[r] = "sizing"
    /\ queue_depth' = queue_depth + 1
    /\ Goto(r, IF QueueHasRoom(r) THEN "reserved" ELSE "over")
    /\ UNCHANGED <<limit, debt, debtLock, sem, queue_max, seen, reloads>>

\* The queue was at its bound: take the count back and shed.
UndoSlot(r) ==
    /\ pc[r] = "over"
    /\ queue_depth' = queue_depth - 1
    /\ Goto(r, "idle")
    /\ UNCHANGED <<limit, debt, debtLock, sem, queue_max, seen, reloads>>

\* The first poll of acquire_many finds too little: what there is becomes the
\* request's, and it parks for the rest.
Park(r) ==
    /\ available < Weight[r] /\ moving = 0
    /\ waiters' = Append(waiters, r)
    /\ units' = [units EXCEPT ![r] = available]
    /\ available' = 0

\* The first poll: the whole weight if it is free, by the lock-free path.
FirstPoll(r) ==
    /\ pc[r] = "reserved"
    /\ \/ /\ available >= Weight[r]
          /\ available' = available - Weight[r]
          /\ units' = [units EXCEPT ![r] = Weight[r]]
          /\ UNCHANGED waiters
       \/ Park(r)
    /\ Goto(r, "parked")
    /\ UNCHANGED <<limit, debt, debtLock, moving, queue, reloads>>

\* Hand units to the request at the head of the FIFO; it leaves the FIFO once
\* it owns its weight.  The debt guard goes with the last unit handed out.
Assign ==
    /\ moving > 0 /\ waiters # <<>>
    /\ LET r == Head(waiters)
           n == Min({moving, Weight[r] - units[r]})
       IN /\ units' = [units EXCEPT ![r] = @ + n]
          /\ moving' = moving - n
          /\ waiters' = IF units[r] + n = Weight[r] THEN Tail(waiters) ELSE waiters
    /\ debtLock' = (debtLock /\ moving' > 0)
    /\ UNCHANGED <<limit, debt, available, queue, pc, reloads>>

\* Nobody is parked any more: the rest becomes free.
Deposit ==
    /\ moving > 0 /\ waiters = <<>>
    /\ available' = available + moving
    /\ moving' = 0
    /\ debtLock' = FALSE
    /\ UNCHANGED <<limit, debt, waiters, units, queue, pc, reloads>>

WakeTooEarly(r) ==
    /\ pc[r] = "parked" /\ units[r] > 0
    /\ queue_depth' = queue_depth - 1
    /\ Goto(r, "held")
    /\ UNCHANGED <<limit, debt, debtLock, sem, queue_max, seen, reloads>>

\* A parked request that owns its weight is polled: it drops its queue slot and
\* returns the permit.
Wake(r) ==
    /\ pc[r] = "parked" /\ units[r] = Weight[r]
    /\ queue_depth' = queue_depth - 1
    /\ Goto(r, "held")
    /\ UNCHANGED <<limit, debt, debtLock, sem, queue_max, seen, reloads>>

Without(s, i) == SubSeq(s, 1, i - 1) \o SubSeq(s, i + 1, Len(s))

\* Take a request out of the FIFO, if it still stands there.
Unlink(r) ==
    \/ \E i \in DOMAIN waiters : waiters[i] = r /\ waiters' = Without(waiters, i)
    \/ (\A i \in DOMAIN waiters : waiters[i] # r) /\ UNCHANGED waiters

\* The acquire future is dropped: the request leaves the FIFO and what it owns
\* goes back to the semaphore directly, without the debt mutex.
Abandon(r) ==
    /\ pc[r] = "parked" /\ r \in Impatient /\ moving = 0
    /\ Unlink(r)
    /\ moving' = units[r]
    /\ units' = [units EXCEPT ![r] = 0]
    /\ Goto(r, "leaving")
    /\ UNCHANGED <<limit, debt, debtLock, available, queue, reloads>>

\* timeout() polls the acquire first, so only a request still short can expire.
TimeOut(r) == units[r] < Weight[r] /\ Abandon(r)

\* The client goes away and the request's future is dropped where it waits,
\* perhaps with its whole weight assigned and not yet seen.
Cancel(r) == Abandon(r)

\* The QueueSlot of a request that timed out or was cancelled is dropped.
LeaveQueue(r) ==
    /\ pc[r] = "leaving"
    /\ queue_depth' = queue_depth - 1
    /\ Goto(r, "idle")
    /\ UNCHANGED <<limit, debt, debtLock, sem, queue_max, seen, reloads>>

ReleaseForgetsRest(r) ==
    /\ pc[r] = "held" /\ ~debtLock /\ moving = 0
    /\ debt' = debt - Min({debt, Weight[r]})
    /\ moving' = IF debt > 0 THEN 0 ELSE Weight[r]
    /\ debtLock' = (moving' > 0)
    /\ units' = [units EXCEPT ![r] = 0]
    /\ Goto(r, "idle")
    /\ UNCHANGED <<limit, available, waiters, queue, reloads>>

\* Permit::drop: the debt is paid first and the rest is returned under the
\* same guard.
Release(r) ==
    /\ pc[r] = "held" /\ ~debtLock /\ moving = 0
    /\ LET absorbed == Min({debt, Weight[r]})
       IN /\ debt' = debt - absorbed
          /\ moving' = Weight[r] - absorbed
          /\ debtLock' = (moving' > 0)
    /\ units' = [units EXCEPT ![r] = 0]
    /\ Goto(r, "idle")
    /\ UNCHANGED <<limit, available, waiters, queue, reloads>>

GrowForgivesDebt(n) ==
    /\ n > limit /\ moving = 0
    /\ debt' = 0
    /\ moving' = n - limit
    /\ debtLock' = TRUE
    /\ UNCHANGED available

\* Growing cancels outstanding debt before it adds permits.
Grow(n) ==
    /\ n > limit /\ moving = 0
    /\ LET cancelled == Min({debt, n - limit})
       IN /\ debt' = debt - cancelled
          /\ moving' = n - limit - cancelled
          /\ debtLock' = (moving' > 0)
    /\ UNCHANGED available

\* Shrinking forgets what is free (a lock-free operation) and owes the rest.
Shrink(n) ==
    /\ n < limit
    /\ LET forgotten == Min({available, limit - n})
       IN /\ available' = available - forgotten
          /\ debt' = debt + (limit - n - forgotten)
    /\ UNCHANGED <<moving, debtLock>>

\* Limiter::resize, under the debt mutex throughout.
Resize(n) ==
    /\ ~debtLock /\ reloads < MaxReloads
    /\ Grow(n) \/ Shrink(n)
    /\ limit' = n
    /\ reloads' = reloads + 1
    /\ UNCHANGED <<waiters, units, queue, pc>>

SetQueue(max) ==
    /\ queue_max # max
    /\ queue_max' = max
    /\ UNCHANGED <<limit, debt, debtLock, sem, queue_depth, pc, seen, reloads>>

Acquire(r) ==
    \/ TryAcquire(r) \/ TryAcquireFails(r) \/ LoadQueueMax(r)
    \/ ReserveSlot(r) \/ UndoSlot(r) \/ FirstPoll(r) \/ Wake(r)
    \/ TimeOut(r) \/ Cancel(r) \/ LeaveQueue(r)

Next ==
    \/ \E r \in Requests : Acquire(r) \/ Release(r)
    \/ Assign \/ Deposit
    \/ \E n \in Limits : Resize(n)
    \/ \E m \in QueueMaxes : SetQueue(m)

Spec == Init /\ [][Next]_vars

\* Locks are granted eventually and ready futures are polled; origin work ends
\* (the origin timeouts bound it).  Nothing obliges a client to wait.
Fairness ==
    /\ WF_vars(Assign) /\ WF_vars(Deposit)
    /\ \A r \in Requests : SF_vars(FirstPoll(r)) /\ WF_vars(Wake(r)) /\ SF_vars(Release(r))

FairSpec == Spec /\ Fairness

-----------------------------------------------------------------------------
TypeOK ==
    /\ limit \in Nat /\ debt \in Nat /\ debtLock \in BOOLEAN
    /\ available \in Nat /\ waiters \in Seq(Requests) /\ moving \in Nat
    /\ units \in [Requests -> Nat]
    /\ \A r \in Requests : units[r] <= Weight[r]
    /\ queue_depth \in Nat /\ queue_max \in QueueMaxes
    /\ pc \in [Requests -> Stages] /\ seen \in [Requests -> QueueMaxes \cup {0}]
    /\ reloads \in 0 .. MaxReloads

\* No unit of the ceiling is lost or made up, whatever order returns, resizes,
\* timeouts and cancellations come in: what is free, on its way and owned is
\* the ceiling plus what a shrink still owes.
UnitsConserved == available + moving + Cardinality(InHand) = limit + debt

\* Admitted origin work never exceeds the ceiling plus the work that was
\* already out when the ceiling was lowered.
AdmittedWithinCeiling == Cardinality(Admitted) <= limit + debt

\* The queue depth is exactly the number of requests between their fetch_add
\* and their fetch_sub, so no path out of acquire (shed, timeout, cancellation,
\* admission) leaks a queue slot or returns one twice.
QueueDepthExact == queue_depth = Cardinality(SlotHolders)

\* What a request owns follows from where it stands in acquire.
OwnedByStage ==
    \A r \in Requests :
        /\ pc[r] = "held" => units[r] = Weight[r]
        /\ pc[r] \notin {"parked", "held"} => units[r] = 0

\* The FIFO holds parked requests that are still short, each once.
FifoOfShort ==
    /\ \A i \in 1 .. Len(waiters) :
        pc[waiters[i]] = "parked" /\ units[waiters[i]] < Weight[waiters[i]]
    /\ \A i, j \in 1 .. Len(waiters) : waiters[i] = waiters[j] => i = j

\* Nobody is stranded or overtaken: a parked request that is short stands in
\* the FIFO, only the head owns a part of its weight, and nothing is free while
\* somebody is parked.
NoneStranded ==
    /\ \A r \in Requests :
        pc[r] = "parked" /\ units[r] < Weight[r] => \E i \in 1 .. Len(waiters) : waiters[i] = r
    /\ \A i \in 2 .. Len(waiters) : units[waiters[i]] = 0
    /\ waiters # <<>> => available = 0

\* The inductive invariant behind the safety properties.
LimiterInv ==
    TypeOK /\ UnitsConserved /\ QueueDepthExact /\ OwnedByStage /\ FifoOfShort /\ NoneStranded

\* While a shrink still owes units none are free or on their way: a return
\* pays the debt before anybody is served, and keeps resizes out meanwhile.
DebtFirst ==
    /\ debt > 0 => available = 0 /\ moving = 0
    /\ moving > 0 => debtLock

\* A shrink collects what it owes "rather than over-admitting in the
\* meantime": a request obtains its weight only within the current ceiling.
NoOverAdmission ==
    [][Cardinality(Admitted') > Cardinality(Admitted) => Cardinality(Admitted') <= limit']_vars

\* A parked request that does not give up is admitted: reloads, heavier
\* requests, a stream of newcomers and others that give up cannot starve it.
ParkedIsAdmitted == \A r \in Requests \ Impatient : pc[r] = "parked" ~> pc[r] = "held"

-----------------------------------------------------------------------------
(* What the limiter promises its callers *)

Promise == INSTANCE Ceiling WITH holders <- {r \in Requests : units[r] = Weight[r]}

\* With its queue, partial hand-overs, timeouts and cancellations, acquire and
\* Permit::drop still behave like the ceiling of module Ceiling: a request that
\* owns its weight is admitted, and every other step is invisible.
KeepsPromise == Promise!Spec
=============================================================================
