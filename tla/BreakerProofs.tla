--------------------------- MODULE BreakerProofs ---------------------------
(***************************************************************************)
(* Proofs about one circuit breaker, for any set of requests, any ejection *)
(* time, any thresholds and any bound on how old a clock reading may be.   *)
(***************************************************************************)
EXTENDS Breaker, TLAPS

BreakerType ==
    /\ open_until \in Int /\ since \in Nat
    /\ pc \in [Requests -> {"idle", "working", "claim", "result", "check", "count", "judge",
                            "trip", "reset"}]
    /\ age \in [Requests -> Nat]
    /\ probe \in [Requests -> BOOLEAN] /\ ok \in [Requests -> BOOLEAN]
    /\ well \in BOOLEAN

\* A request carries a token from its claim to its result, and only then.
TokenByStage ==
    \A r \in Requests :
        /\ pc[r] = "result" => probe[r]
        /\ probe[r] => pc[r] \in {"working", "result"}

\* The token that may decide is the newest one.
NewestDecides == active_probe # None => active_probe = last

\* The deadline of an open breaker lies at least OpenFor after the newest token.
DeadlineAfterToken ==
    /\ open_until = Closed \/ open_until >= -MaxStall
    /\ open_until # Closed => open_until + since >= OpenFor

\* The deciding probe read its clock after it was given its token.
ResultAfterToken ==
    \A r \in Requests :
        /\ age[r] <= MaxStall
        /\ pc[r] = "result" /\ active_probe = r => age[r] <= since

BreakerInv ==
    BreakerType /\ TokenByStage /\ NewestDecides /\ DeadlineAfterToken /\ ResultAfterToken

-----------------------------------------------------------------------------
(* Helpers                                                                 *)

\* A deadline computed from an old reading is still a deadline, and not before
\* that reading plus OpenFor.
LEMMA DeadlineFacts ==
    ASSUME NEW a \in Nat
    PROVE  /\ Deadline(a) \in Int /\ Deadline(a) >= -MaxStall
           /\ Deadline(a) >= OpenFor - a /\ Deadline(a) # Closed
BY BreakerAssumption DEF Deadline, Most, Closed

-----------------------------------------------------------------------------
(* The inductive invariant                                                 *)

LEMMA BreakerStart == Init => BreakerInv
BY BreakerAssumption, TokenAssumption
DEF Init, BreakerInv, BreakerType, TokenByStage, NewestDecides, DeadlineAfterToken,
    ResultAfterToken, Closed, LongAgo

LEMMA BreakerStep == BreakerInv /\ [Next]_vars => BreakerInv'
<1>. SUFFICES ASSUME BreakerInv, [Next]_vars PROVE BreakerInv'
  OBVIOUS
<1>. USE DEF BreakerInv
<1>1. ASSUME NEW r \in Requests, Ask(r) PROVE BreakerInv'
  <2>1. BreakerType'
    BY <1>1 DEF Ask, BreakerType, Goto, history
  <2>2. TokenByStage' /\ NewestDecides' /\ DeadlineAfterToken'
    BY <1>1 DEF Ask, BreakerType, Goto, history, TokenByStage, NewestDecides, DeadlineAfterToken, Closed
  <2>3. ResultAfterToken'
    BY <1>1, BreakerAssumption DEF Ask, BreakerType, Goto, history, ResultAfterToken
  <2>. QED
    BY <2>1, <2>2, <2>3
<1>2. ASSUME NEW r \in Requests, Claim(r) PROVE BreakerInv'
  <2>. age[r] \in Nat
    BY DEF BreakerType
  <2>1. BreakerType'
    <3>1. PICK next \in {"idle", "working"} : Goto(r, next)
      BY <1>2 DEF Claim
    <3>2. pc' \in [Requests -> {"idle", "working", "claim", "result", "check", "count", "judge",
                               "trip", "reset"}] /\ age' \in [Requests -> Nat]
      BY <3>1 DEF BreakerType, Goto
    <3>3. open_until' \in Int /\ since' \in Nat
      BY <1>2, DeadlineFacts DEF Claim, BreakerType
    <3>4. probe' \in [Requests -> BOOLEAN] /\ ok' \in [Requests -> BOOLEAN] /\ well' \in BOOLEAN
      BY <1>2 DEF Claim, BreakerType
    <3>. QED
      BY <3>2, <3>3, <3>4 DEF BreakerType
  <2>2. TokenByStage' /\ NewestDecides'
    BY <1>2 DEF Claim, BreakerType, Goto, TokenByStage, NewestDecides
  <2>3. DeadlineAfterToken'
    BY <1>2, DeadlineFacts, BreakerAssumption DEF Claim, BreakerType, DeadlineAfterToken, Closed
  <2>4. ResultAfterToken'
    BY <1>2, BreakerAssumption DEF Claim, BreakerType, Goto, ResultAfterToken
  <2>. QED
    BY <2>1, <2>2, <2>3, <2>4
<1>3. ASSUME NEW r \in Requests, Respond(r) PROVE BreakerInv'
  <2>1. BreakerType'
    BY <1>3 DEF Respond, BreakerType, Goto, history
  <2>2. TokenByStage' /\ NewestDecides' /\ DeadlineAfterToken'
    BY <1>3 DEF Respond, BreakerType, Goto, history, TokenByStage, NewestDecides, DeadlineAfterToken, Closed
  <2>3. ResultAfterToken'
    BY <1>3, BreakerAssumption DEF Respond, BreakerType, Goto, history, ResultAfterToken, Timed
  <2>. QED
    BY <2>1, <2>2, <2>3
<1>4. ASSUME NEW r \in Requests, Lose(r) PROVE BreakerInv'
  <2>1. BreakerType'
    BY <1>4 DEF Lose, BreakerType, Goto, history
  <2>2. TokenByStage' /\ NewestDecides' /\ DeadlineAfterToken'
    BY <1>4 DEF Lose, BreakerType, Goto, history, TokenByStage, NewestDecides, DeadlineAfterToken, Closed
  <2>3. ResultAfterToken'
    BY <1>4, BreakerAssumption DEF Lose, BreakerType, Goto, history, ResultAfterToken
  <2>. QED
    BY <2>1, <2>2, <2>3
<1>5. ASSUME NEW r \in Requests, RecordProbe(r) PROVE BreakerInv'
  <2>. age[r] \in Nat
    BY DEF BreakerType
  <2>1. BreakerType'
    BY <1>5, DeadlineFacts, BreakerAssumption DEF RecordProbe, Conclude, BreakerType, Goto, Closed
  <2>2. TokenByStage' /\ NewestDecides'
    BY <1>5 DEF RecordProbe, BreakerType, Goto, TokenByStage, NewestDecides
  <2>3. DeadlineAfterToken'
    BY <1>5, DeadlineFacts, BreakerAssumption
    DEF RecordProbe, Conclude, BreakerType, DeadlineAfterToken, ResultAfterToken, Closed
  <2>4. ResultAfterToken'
    BY <1>5, BreakerAssumption, TokenAssumption DEF RecordProbe, BreakerType, Goto, ResultAfterToken
  <2>. QED
    BY <2>1, <2>2, <2>3, <2>4
<1>6. ASSUME NEW r \in Requests, CheckClosed(r) \/ Count(r) \/ Judge(r) \/ ResetWindow(r)
      PROVE  BreakerInv'
  <2>1. PICK next \in {"idle", "count", "judge", "trip"} :
            /\ Goto(r, next) /\ pc[r] \in {"check", "count", "judge", "reset"}
            /\ UNCHANGED <<open_until, active_probe, ok, probe, well, last, since>>
    BY <1>6 DEF CheckClosed, Count, Judge, ResetWindow, history
  <2>2. BreakerType'
    BY <2>1 DEF BreakerType, Goto
  <2>3. TokenByStage' /\ NewestDecides' /\ DeadlineAfterToken'
    BY <2>1 DEF BreakerType, Goto, TokenByStage, NewestDecides, DeadlineAfterToken, Closed
  <2>4. ResultAfterToken'
    BY <2>1, BreakerAssumption DEF BreakerType, Goto, ResultAfterToken
  <2>. QED
    BY <2>2, <2>3, <2>4
<1>7. ASSUME NEW r \in Requests, Trip(r) PROVE BreakerInv'
  <2>. age[r] \in Nat
    BY DEF BreakerType
  <2>1. BreakerType'
    BY <1>7, DeadlineFacts, BreakerAssumption DEF Trip, BreakerType, Goto, LongAgo
  <2>2. TokenByStage' /\ NewestDecides'
    BY <1>7 DEF Trip, BreakerType, Goto, TokenByStage, NewestDecides
  <2>3. DeadlineAfterToken'
    BY <1>7, DeadlineFacts, BreakerAssumption DEF Trip, BreakerType, DeadlineAfterToken, LongAgo, Closed
  <2>4. ResultAfterToken'
    BY <1>7, BreakerAssumption DEF Trip, BreakerType, Goto, ResultAfterToken, LongAgo
  <2>. QED
    BY <2>1, <2>2, <2>3, <2>4
<1>8. CASE Tick
  <2>1. BreakerType'
    BY <1>8, BreakerAssumption DEF Tick, BreakerType, Least, Most, LongAgo, Closed
  <2>2. TokenByStage' /\ NewestDecides'
    BY <1>8 DEF Tick, TokenByStage, NewestDecides
  <2>3. DeadlineAfterToken'
    BY <1>8, BreakerAssumption DEF Tick, BreakerType, DeadlineAfterToken, Least, Most, LongAgo, Closed
  <2>4. ResultAfterToken'
    BY <1>8, BreakerAssumption DEF Tick, BreakerType, ResultAfterToken, Least, LongAgo, Timed
  <2>. QED
    BY <2>1, <2>2, <2>3, <2>4
<1>9. CASE AgeOut \/ BackendChanges \/ UNCHANGED vars
  <2>1. UNCHANGED <<open_until, active_probe, pc, age, ok, probe, last, since>> /\ well' \in BOOLEAN
    BY <1>9 DEF AgeOut, BackendChanges, vars, attempt, history, BreakerType
  <2>. QED
    BY <2>1 DEF BreakerType, TokenByStage, NewestDecides, DeadlineAfterToken, ResultAfterToken, Closed
<1>. QED
  BY <1>1, <1>2, <1>3, <1>4, <1>5, <1>6, <1>7, <1>8, <1>9 DEF Next, Method

\* The breaker's bookkeeping, whatever allowance, record and record_probe
\* interleave: tokens belong to requests that carry them, the newest one decides,
\* and the deadline is never earlier than OpenFor after it.
THEOREM BreakerInvariant == Spec => []BreakerInv
<1>1. Init => BreakerInv
  BY BreakerStart
<1>2. BreakerInv /\ [Next]_vars => BreakerInv'
  BY BreakerStep
<1>. QED
  BY <1>1, <1>2, PTL DEF Spec

-----------------------------------------------------------------------------
(* What follows for callers                                                *)

\* Within one opening, allowance gives out tokens at least open_for apart, by
\* the clocks of the requests, however many requests race for them.
THEOREM TokensAreSpaced == Spec => ProbesSpaced
<1>. DEFINE Spaced == \A r \in Requests : pc[r] = "claim" /\ probe'[r] => since - age[r] >= OpenFor
<1>1. BreakerInv /\ [Next]_vars => [Spaced]_vars
  <2>. SUFFICES ASSUME BreakerInv, Next, NEW r \in Requests, pc[r] = "claim", probe'[r]
                PROVE  since - age[r] >= OpenFor
    BY DEF vars
  <2>1. ~probe[r]
    BY DEF BreakerInv, TokenByStage
  <2>2. Claim(r)
    <3>1. ASSUME NEW q \in Requests, Ask(q) \/ Method(q) \/ Respond(q) \/ Lose(q), ~Claim(q)
          PROVE  FALSE
      BY <2>1, <3>1 DEF Ask, Method, Respond, Lose, RecordProbe, CheckClosed, Count, Judge, Trip,
                        ResetWindow, BreakerInv, BreakerType
    <3>2. ~AgeOut /\ ~Tick /\ ~BackendChanges
      BY <2>1 DEF AgeOut, Tick, BackendChanges, attempt
    <3>3. PICK q \in Requests : Claim(q)
      BY <3>1, <3>2 DEF Next
    <3>4. q = r
      BY <3>3, <2>1 DEF Claim, BreakerInv, BreakerType
    <3>. QED
      BY <3>3, <3>4
  <2>3. open_until # Closed /\ open_until + age[r] <= 0
    BY <2>1, <2>2 DEF Claim
  <2>. QED
    BY <2>3, BreakerAssumption DEF BreakerInv, BreakerType, DeadlineAfterToken
<1>. QED
  BY <1>1, BreakerInvariant, PTL DEF Spec, ProbesSpaced

\* Only a success of the newest probe closes an open breaker: no older probe,
\* ordinary request or fallback request does, in any interleaving of record and
\* record_probe.
THEOREM NewestProbeCloses == Spec => ClosedByNewestProbe
<1>. DEFINE Rightly == open_until # Closed /\ open_until' = Closed =>
                \E r \in Requests : r = last /\ pc[r] = "result" /\ ok[r] /\ probe[r]
<1>1. BreakerInv /\ [Next]_vars => [Rightly]_vars
  <2>. SUFFICES ASSUME BreakerInv, Next, open_until # Closed, open_until' = Closed
                PROVE  \E r \in Requests : r = last /\ pc[r] = "result" /\ ok[r] /\ probe[r]
    BY DEF vars
  <2>1. ~AgeOut /\ ~BackendChanges
    BY DEF AgeOut, BackendChanges
  <2>2. ~Tick
    BY BreakerAssumption DEF Tick, Most, Closed, BreakerInv, BreakerType
  <2>3. PICK r \in Requests : Ask(r) \/ Method(r) \/ Respond(r) \/ Lose(r)
    BY <2>1, <2>2 DEF Next
  <2>4. age[r] \in Nat
    BY DEF BreakerInv, BreakerType
  <2>5. RecordProbe(r)
    BY <2>3, <2>4, DeadlineFacts
    DEF Ask, Method, Respond, Lose, Claim, CheckClosed, Count, Judge, Trip, ResetWindow
  <2>6. active_probe = r /\ ok[r] /\ pc[r] = "result"
    BY <2>4, <2>5, DeadlineFacts DEF RecordProbe, Conclude
  <2>. QED
    BY <2>6, TokenAssumption DEF BreakerInv, NewestDecides, TokenByStage
<1>. QED
  BY <1>1, BreakerInvariant, PTL DEF Spec, ClosedByNewestProbe
=============================================================================
