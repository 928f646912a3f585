---------------------------- MODULE RollingRatio ----------------------------
(***************************************************************************)
(* The sliding window of src/upstream/window.rs: a ring of counters, each  *)
(* labelled with the slice of time it counts, updated without a lock.      *)
(* BreakerUse runs it the way the circuit breaker does: outcomes are       *)
(* recorded, a failure reads the totals, and a trip resets the ring.       *)
(* Module RetryBudget adds the retry budget's use and checks both.         *)
(*                                                                         *)
(* Time is counted in slices (now_ms / bucket_ms).  A thread reads the     *)
(* clock once, at the start of an operation, and may stall after that.     *)
(***************************************************************************)
EXTENDS Integers

CONSTANTS
    Threads,
    BUCKETS,
    MaxEpoch,       \* bound: the clock
    MaxStall,       \* bound: slices a thread falls behind in one operation
    MaxRecords,     \* bound: outcomes recorded by a breaker
    MaxOps          \* bound: operations of any kind

ASSUME WindowAssumption ==
    /\ BUCKETS \in Nat \ {0} /\ MaxEpoch \in Nat /\ MaxStall \in Nat
    /\ MaxOps \in Nat /\ MaxRecords \in 0 .. MaxOps

VARIABLES
    bucket, rollover,       \* of each ring slot: label and counters; its lock
    clock, begun,
    pc, op, now, slot, sum, \* of each thread; slot and sum: the scan of totals()
    counted                 \* history: observations counted in their own slice

ring == <<bucket, rollover, counted>>
local == <<pc, op, now, slot, sum>>
windowVars == <<ring, clock, begun, local>>

Slots == 0 .. BUCKETS - 1
Free == "free"
MAX == MaxEpoch + 1         \* u64::MAX, newer than any slice
Zero == [total |-> 0, flagged |-> 0]

Mine(t) == now[t] % BUCKETS
Goto(t, next) == pc' = [pc EXCEPT ![t] = next]

WindowInit ==
    /\ bucket = [s \in Slots |-> [epoch |-> 0, total |-> 0, flagged |-> 0]]
    /\ rollover = [s \in Slots |-> Free]
    /\ clock = 0 /\ begun = 0
    /\ pc = [t \in Threads |-> "idle"] /\ op = [t \in Threads |-> "record"]
    /\ now = [t \in Threads |-> 0] /\ slot = [t \in Threads |-> 0]
    /\ sum = [t \in Threads |-> Zero]
    /\ counted = [e \in 0 .. MaxEpoch |-> Zero]

\* Begin an operation that works on the bucket of this moment.
Begin(t, o) ==
    /\ begun < MaxOps
    /\ begun' = begun + 1
    /\ op' = [op EXCEPT ![t] = o]
    /\ now' = [now EXCEPT ![t] = clock]
    /\ Goto(t, "current")

-----------------------------------------------------------------------------
(* current *)

\* The check without the lock.
Current(t) ==
    /\ pc[t] = "current"
    /\ Goto(t, IF bucket[Mine(t)].epoch = now[t] THEN "add" ELSE "lock")
    /\ UNCHANGED <<ring, clock, begun, op, now, slot, sum>>

\* No second look under the lock.
ClearUnchecked(t) ==
    /\ pc[t] = "lock" /\ rollover[Mine(t)] = Free
    /\ Goto(t, "publish")
    /\ rollover' = [rollover EXCEPT ![Mine(t)] = t]
    /\ bucket' = [bucket EXCEPT ![Mine(t)].total = 0, ![Mine(t)].flagged = 0]
    /\ UNCHANGED <<counted, clock, begun, op, now, slot, sum>>

\* The check under the lock; a bucket of another slice is cleared.
Clear(t) ==
    /\ pc[t] = "lock" /\ rollover[Mine(t)] = Free
    /\ IF bucket[Mine(t)].epoch = now[t]
       THEN Goto(t, "add") /\ UNCHANGED <<bucket, rollover>>
       ELSE /\ Goto(t, "publish")
            /\ rollover' = [rollover EXCEPT ![Mine(t)] = t]
            /\ bucket' = [bucket EXCEPT ![Mine(t)].total = 0, ![Mine(t)].flagged = 0]
    /\ UNCHANGED <<counted, clock, begun, op, now, slot, sum>>

Publish(t) ==
    /\ pc[t] = "publish"
    /\ bucket' = [bucket EXCEPT ![Mine(t)].epoch = now[t]]
    /\ rollover' = [rollover EXCEPT ![Mine(t)] = Free]
    /\ Goto(t, "add")
    /\ UNCHANGED <<counted, clock, begun, op, now, slot, sum>>

-----------------------------------------------------------------------------
(* record and totals *)

\* An observation counts for its slice if the bucket still has that label.
InOwnSlice(t) == bucket[Mine(t)].epoch = now[t]

AddTotal(t) ==
    /\ pc[t] = "add" /\ op[t] \in {"record", "record_failed"}
    /\ bucket' = [bucket EXCEPT ![Mine(t)].total = @ + 1]
    /\ counted' = IF InOwnSlice(t) THEN [counted EXCEPT ![now[t]].total = @ + 1] ELSE counted
    /\ Goto(t, IF op[t] = "record" THEN "idle" ELSE "flag")
    /\ UNCHANGED <<rollover, clock, begun, op, now, slot, sum>>

StartScan(t) ==
    /\ slot' = [slot EXCEPT ![t] = 0] /\ sum' = [sum EXCEPT ![t] = Zero]

AddFlagged(t) ==
    /\ pc[t] = "flag"
    /\ bucket' = [bucket EXCEPT ![Mine(t)].flagged = @ + 1]
    /\ counted' = IF InOwnSlice(t) THEN [counted EXCEPT ![now[t]].flagged = @ + 1] ELSE counted
    /\ Goto(t, "scan") /\ StartScan(t)
    /\ UNCHANGED <<rollover, clock, begun, op, now>>

\* totals: the label of the next bucket ...
Scan(t) ==
    /\ pc[t] = "scan" /\ slot[t] \in Slots
    /\ IF bucket[slot[t]].epoch \in (now[t] - (BUCKETS - 1)) .. now[t]
       THEN Goto(t, "read") /\ UNCHANGED slot
       ELSE slot' = [slot EXCEPT ![t] = @ + 1] /\ UNCHANGED pc
    /\ UNCHANGED <<ring, clock, begun, op, now, sum>>

\* ... and, some time later, its counters.
Read(t) ==
    /\ pc[t] = "read"
    /\ sum' = [sum EXCEPT ![t].total = @ + bucket[slot[t]].total,
                          ![t].flagged = @ + bucket[slot[t]].flagged]
    /\ slot' = [slot EXCEPT ![t] = @ + 1] /\ Goto(t, "scan")
    /\ UNCHANGED <<ring, clock, begun, op, now>>

Scanned(t) == pc[t] = "scan" /\ slot[t] = BUCKETS

Ratio(t) == Current(t) \/ Clear(t) \/ Publish(t) \/ AddTotal(t) \/ AddFlagged(t) \/ Scan(t) \/ Read(t)

-----------------------------------------------------------------------------
(* The breaker's use: what the totals say decides between these two. *)

Judged(t) ==
    /\ Scanned(t)
    /\ Goto(t, "idle")
    /\ UNCHANGED <<ring, clock, begun, op, now, slot, sum>>

Trip(t) ==
    /\ Scanned(t)
    /\ Goto(t, "reset") /\ slot' = [slot EXCEPT ![t] = 0]
    /\ UNCHANGED <<ring, clock, begun, op, now, sum>>

\* reset, bucket by bucket: no label first, ...
Invalidate(t) ==
    /\ pc[t] = "reset" /\ slot[t] \in Slots /\ rollover[slot[t]] = Free
    /\ rollover' = [rollover EXCEPT ![slot[t]] = t]
    /\ bucket' = [bucket EXCEPT ![slot[t]].epoch = MAX]
    /\ Goto(t, "erase")
    /\ UNCHANGED <<counted, clock, begun, op, now, slot, sum>>

\* ... then zero counters under label 0.
Erase(t) ==
    /\ pc[t] = "erase"
    /\ bucket' = [bucket EXCEPT ![slot[t]] = [epoch |-> 0, total |-> 0, flagged |-> 0]]
    /\ rollover' = [rollover EXCEPT ![slot[t]] = Free]
    /\ counted' = [e \in 0 .. MaxEpoch |-> IF e % BUCKETS = slot[t] THEN Zero ELSE counted[e]]
    /\ slot' = [slot EXCEPT ![t] = @ + 1] /\ Goto(t, "reset")
    /\ UNCHANGED <<clock, begun, op, now, sum>>

ResetDone(t) ==
    /\ pc[t] = "reset" /\ slot[t] = BUCKETS
    /\ Goto(t, "idle")
    /\ UNCHANGED <<ring, clock, begun, op, now, slot, sum>>

Record(t) ==
    /\ pc[t] = "idle" /\ begun < MaxRecords
    /\ \E o \in {"record", "record_failed"} : Begin(t, o)
    /\ UNCHANGED <<ring, clock, slot, sum>>

Tick ==
    /\ clock < MaxEpoch
    /\ \A t \in Threads : pc[t] # "idle" => clock - now[t] < MaxStall
    /\ clock' = clock + 1
    /\ UNCHANGED <<ring, begun, local>>

BreakerUse ==
    \/ \E t \in Threads :
          Record(t) \/ Ratio(t) \/ Judged(t) \/ Trip(t) \/ Invalidate(t) \/ Erase(t) \/ ResetDone(t)
    \/ Tick
-----------------------------------------------------------------------------
(* Properties *)

\* current: "lets a concurrent writer add a new observation only for this thread
\* to erase it afterwards".  What was counted in its own slice stays counted
\* while the slice is in the window, unless the ring is reset.
NothingErased ==
    \A e \in {x \in 0 .. MaxEpoch : x > clock - BUCKETS} :
       LET b == bucket[e % BUCKETS]
       IN  b.epoch = e => b.total >= counted[e].total /\ b.flagged >= counted[e].flagged
=============================================================================
