------------------------------ MODULE Exporter ------------------------------
(***************************************************************************)
(* The span exporter (telemetry/otlp.rs): requests hand finished spans to  *)
(* a bounded channel without waiting, one background task receives them    *)
(* into a batch and posts the batch to the collector, and on shutdown the  *)
(* task closes the channel and flushes what is left under one deadline.    *)
(*                                                                         *)
(* Spans are counted, not told apart.  Time is counted down in the ticks   *)
(* of the module that extends this one; a timer that has run out stops     *)
(* time until its branch is taken.                                         *)
(***************************************************************************)
EXTENDS Naturals, FiniteSetsExt

CONSTANTS
    MaxQueue,       \* otlp.max_queue
    MaxBatch,       \* otlp.max_batch
    OtlpTimeout,    \* otlp.timeout, in ticks
    MaxSpans        \* bound: the spans the requests of one life record

ASSUME ExporterAssumption ==
    /\ MaxQueue \in Nat \ {0} /\ MaxBatch \in Nat \ {0}
    /\ OtlpTimeout \in Nat \ {0} /\ MaxSpans \in Nat

VARIABLES
    mode,       \* where the exporter task stands
    queued,     \* spans in the channel
    batch,      \* spans in the task's batch
    postLeft,   \* what is left of the attempt's timeout
    drainLeft,  \* what is left of the shutdown deadline
    recorded,   \* spans handed to SpanSink::record
    counted     \* spans some counter accounts for: exported, export_failed, dropped

spanVars == <<mode, queued, batch, postLeft, drainLeft, recorded, counted>>

\* "receive": in select!; "post": awaiting flush from select!; "drain" and
\* "drainPost": the same two places inside the shutdown loop; "gone": returned; "killed": cut off.
Modes == {"receive", "post", "drain", "drainPost", "gone", "killed"}

ChannelOpen == mode \in {"receive", "post"}

SpanInit ==
    /\ mode = "receive" /\ queued = 0 /\ batch = 0
    /\ postLeft = 0 /\ drainLeft = 0 /\ recorded = 0 /\ counted = 0

-----------------------------------------------------------------------------
(* The request's side *)

\* SpanSink::record: try_send, and a full or closed channel counts the span as
\* dropped; the request carries on either way.
Record ==
    /\ recorded < MaxSpans
    /\ recorded' = recorded + 1
    /\ IF ChannelOpen /\ queued < MaxQueue
       THEN queued' = queued + 1 /\ UNCHANGED counted
       ELSE counted' = counted + 1 /\ UNCHANGED queued
    /\ UNCHANGED <<mode, batch, postLeft, drainLeft>>

-----------------------------------------------------------------------------
(* The exporter task *)

\* flush: an empty batch returns at once, any other is posted under one timeout.
Flush(size, posting, idle) ==
    /\ mode' = IF size = 0 THEN idle ELSE posting
    /\ postLeft' = IF size = 0 THEN 0 ELSE OtlpTimeout

\* recv_many appends to the batch, which is flushed once it is large enough;
\* a batch that was short by one may so grow to twice max_batch less one.
Receive ==
    /\ mode = "receive" /\ queued > 0
    /\ LET n == Min({queued, MaxBatch})
       IN  /\ queued' = queued - n
           /\ batch' = batch + n
           /\ IF batch + n >= MaxBatch THEN Flush(batch + n, "post", "receive")
              ELSE UNCHANGED <<mode, postLeft>>
    /\ UNCHANGED <<drainLeft, recorded, counted>>

\* The interval ticker may come up whenever the task is in its select!.
FlushTick ==
    /\ mode = "receive" /\ batch > 0
    /\ Flush(batch, "post", "receive")
    /\ UNCHANGED <<queued, batch, drainLeft, recorded, counted>>

\* post returns: the collector answered, the connection failed or the attempt
\* timed out.  The counter and the cleared batch have no await between them.
PostReturns ==
    /\ mode \in {"post", "drainPost"}
    /\ mode' = IF mode = "post" THEN "receive" ELSE "drain"
    /\ counted' = counted + batch
    /\ batch' = 0 /\ postLeft' = 0
    /\ UNCHANGED <<queued, drainLeft, recorded>>

\* The shutdown branch of select!: not polled while a flush is awaited, and
\* picked at random among the branches that are ready.
CloseChannel ==
    /\ mode = "receive"
    /\ mode' = "drain" /\ drainLeft' = OtlpTimeout
    /\ UNCHANGED <<queued, batch, postLeft, recorded, counted>>

\* One turn of the shutdown loop: flush what is in hand, else what the closed
\* channel still holds, else return.
DrainStep ==
    /\ mode = "drain"
    /\ LET n == IF batch > 0 THEN 0 ELSE Min({queued, MaxBatch})
       IN  /\ queued' = queued - n
           /\ batch' = batch + n
           /\ Flush(batch + n, "drainPost", "gone")
    /\ UNCHANGED <<drainLeft, recorded, counted>>

\* Mutant: the interrupted batch is forgotten.
DeadlineForgetsBatch ==
    /\ mode \in {"drain", "drainPost"} /\ drainLeft = 0
    /\ mode' = "gone"
    /\ counted' = counted + queued
    /\ queued' = 0 /\ batch' = 0 /\ postLeft' = 0
    /\ UNCHANGED <<drainLeft, recorded>>

\* The deadline cuts the loop short; what the batch and the channel still hold
\* is counted as dropped (record_shutdown_drop).
DrainDeadline ==
    /\ mode \in {"drain", "drainPost"} /\ drainLeft = 0
    /\ mode' = "gone"
    /\ counted' = counted + batch + queued
    /\ queued' = 0 /\ batch' = 0 /\ postLeft' = 0
    /\ UNCHANGED <<drainLeft, recorded>>

\* The process ends and takes the task with it, returned or not.
SpanKill ==
    /\ mode' = IF mode = "gone" THEN "gone" ELSE "killed"
    /\ UNCHANGED <<queued, batch, postLeft, drainLeft, recorded, counted>>

-----------------------------------------------------------------------------
Down(t) == IF t = 0 THEN 0 ELSE t - 1

SpanDue ==
    \/ mode \in {"post", "drainPost"} /\ postLeft = 0
    \/ mode \in {"drain", "drainPost"} /\ drainLeft = 0
    \/ mode = "drain"

SpanTick ==
    /\ postLeft' = Down(postLeft) /\ drainLeft' = Down(drainLeft)
    /\ UNCHANGED <<mode, queued, batch, recorded, counted>>
=============================================================================
