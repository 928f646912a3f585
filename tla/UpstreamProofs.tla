--------------------------- MODULE UpstreamProofs ---------------------------
(***************************************************************************)
(* Proofs about the upstream pool, for any requests, backends, latencies   *)
(* and strategy.  They hold whichever backend a selection picks: the count *)
(* of attempts and the breakers depend on the slot of a request only.      *)
(***************************************************************************)
EXTENDS Upstream, FiniteSetTheorems, TLAPS

On(b, s) == {r \in Requests : s[r] = b}

UpstreamInv ==
    /\ in_flight \in [Backends -> Int]
    /\ breaker = [b \in Backends |-> breaker[b]]
    /\ slot = [r \in Requests |-> slot[r]] /\ target = [r \in Requests |-> target[r]]
    /\ InFlightExact

-----------------------------------------------------------------------------
(* Attempts on a backend *)

LEMMA OnFinite ==
    ASSUME NEW b, NEW s
    PROVE  IsFiniteSet(On(b, s)) /\ Cardinality(On(b, s)) \in Nat
<1>1. IsFiniteSet(On(b, s))
  BY UpstreamAssumption, FS_Subset DEF On
<1>. QED
  BY <1>1, FS_CardinalityType

\* A request moves from one backend, or from none, to another or to none.
LEMMA OnMoved ==
    ASSUME NEW s, s = [q \in Requests |-> s[q]], NEW r \in Requests, NEW v, NEW b
    PROVE  Cardinality(On(b, [s EXCEPT ![r] = v])) =
             Cardinality(On(b, s)) + (IF b = v THEN 1 ELSE 0) - (IF b = s[r] THEN 1 ELSE 0)
<1>. DEFINE t == [s EXCEPT ![r] = v]
            was == On(b, s)
<1>1. /\ t[r] = v
      /\ \A q \in Requests \ {r} : t[q] = s[q]
  OBVIOUS
<1>. HIDE DEF t
<1>2. IsFiniteSet(was) /\ Cardinality(was) \in Nat
  BY OnFinite
<1>3. CASE b = v /\ b = s[r]
  <2>1. On(b, t) = was
    BY <1>1, <1>3 DEF On
  <2>. QED
    BY <1>2, <1>3, <2>1 DEF t
<1>4. CASE b = v /\ b # s[r]
  <2>1. On(b, t) = was \cup {r} /\ r \notin was
    BY <1>1, <1>4 DEF On
  <2>2. Cardinality(On(b, t)) = Cardinality(was) + 1
    BY <1>2, <2>1, FS_AddElement
  <2>. QED
    BY <1>2, <1>4, <2>2 DEF t
<1>5. CASE b # v /\ b = s[r]
  <2>1. On(b, t) = was \ {r} /\ r \in was
    BY <1>1, <1>5 DEF On
  <2>2. Cardinality(On(b, t)) = Cardinality(was) - 1
    BY <1>2, <2>1, FS_RemoveElement
  <2>. QED
    BY <1>2, <1>5, <2>2 DEF t
<1>6. CASE b # v /\ b # s[r]
  <2>1. On(b, t) = was
    BY <1>1, <1>6 DEF On
  <2>. QED
    BY <1>2, <1>6, <2>1 DEF t
<1>. QED
  BY <1>3, <1>4, <1>5, <1>6

LEMMA ExactOn == InFlightExact <=> \A b \in Backends : in_flight[b] = Cardinality(On(b, slot))
BY DEF InFlightExact, On

LEMMA NoBackendIsNone == NoBackend \notin Backends
BY UpstreamAssumption DEF NoBackend, Backends

-----------------------------------------------------------------------------
(* Steps *)

LEMMA UpstreamStart == Init => UpstreamInv
<1>. SUFFICES ASSUME Init PROVE UpstreamInv
  OBVIOUS
<1>1. ASSUME NEW b \in Backends PROVE in_flight[b] = Cardinality(On(b, slot))
  <2>1. On(b, slot) = {}
    BY NoBackendIsNone DEF On, Init
  <2>. QED
    BY <2>1, FS_EmptySet DEF Init
<1>. QED
  BY <1>1, ExactOn DEF Init, UpstreamInv

\* The breakers keep their domain, and only the newest probe closes one.
LEMMA BreakerStep ==
    ASSUME UpstreamInv, Next
    PROVE  /\ breaker' = [b \in Backends |-> breaker'[b]]
           /\ \A b \in Backends : breaker[b] # "closed" /\ breaker'[b] = "closed" =>
                 \E r \in Requests : slot[r] = b /\ probe[r] /\ token[b] = r
<1>. USE DEF UpstreamInv
<1>1. CASE UNCHANGED breaker
  BY <1>1
<1>2. ASSUME NEW r \in Requests, TryProbe(r)
      PROVE  breaker' = breaker \/ \E c : breaker' = [breaker EXCEPT ![c] = "open"]
  BY <1>2 DEF TryProbe
<1>3. ASSUME NEW r \in Requests, NEW ok \in BOOLEAN, RecordOutcome(r, ok)
      PROVE  \/ breaker' = breaker
             \/ breaker' = [breaker EXCEPT ![slot[r]] = "open"]
             \/ /\ probe[r] /\ token[slot[r]] = r
                /\ breaker' = [breaker EXCEPT ![slot[r]] = "closed"]
  BY <1>3 DEF RecordOutcome
<1>. DEFINE Kept == breaker' = breaker
            Ejected == \E c, v : v # "closed" /\ breaker' = [breaker EXCEPT ![c] = v]
            Closed == \E r \in Requests : /\ probe[r] /\ token[slot[r]] = r
                                          /\ breaker' = [breaker EXCEPT ![slot[r]] = "closed"]
<1>4. Kept \/ Ejected \/ Closed
  <2>1. ASSUME NEW r \in Requests, Answer(r) \/ Fail(r) PROVE Kept \/ Ejected \/ Closed
    <3>1. PICK ok \in BOOLEAN : RecordOutcome(r, ok)
      BY <2>1 DEF Answer, Fail
    <3>. QED
      BY <1>3, <3>1
  <2>2. ASSUME NEW r \in Requests, Step(r) \/ Release(r) PROVE Kept \/ Ejected \/ Closed
    <3>1. CASE TryProbe(r)
      BY <1>2, <3>1
    <3>2. CASE Select(r) \/ Pick(r) \/ Enter(r) \/ Release(r)
      BY <3>2 DEF Select, Pick, Enter, Release, backend
    <3>. QED
      BY <2>2, <3>1, <3>2 DEF Step
  <2>3. ASSUME NEW b \in Backends, DeadlinePasses(b) \/ SetHealthy(b) \/ BackendChanges(b) PROVE Kept \/ Ejected \/ Closed
    BY <2>3 DEF DeadlinePasses, SetHealthy, BackendChanges, backend
  <2>. QED
    BY <2>1, <2>2, <2>3 DEF Next
<1>. QED
  BY <1>1, <1>4

\* Slots and counts move together: Enter swaps a slot, Release gives it back,
\* and no other step touches either.
LEMMA SlotStep ==
    ASSUME UpstreamInv, Next
    PROVE  /\ in_flight' \in [Backends -> Int] /\ InFlightExact'
           /\ slot' = [r \in Requests |-> slot'[r]] /\ target' = [r \in Requests |-> target'[r]]
<1>. USE DEF UpstreamInv
<1>1. \A b \in Backends : in_flight[b] = Cardinality(On(b, slot))
  BY ExactOn
<1>. DEFINE Good == /\ in_flight' \in [Backends -> Int]
                    /\ \A b \in Backends : in_flight'[b] = Cardinality(On(b, slot'))
                    /\ slot' = [r \in Requests |-> slot'[r]]
                    /\ target' = [r \in Requests |-> target'[r]]
<1>2. ASSUME NEW r \in Requests, Enter(r) PROVE Good
  <2>1. /\ slot' = [slot EXCEPT ![r] = target[r]] /\ target' = [target EXCEPT ![r] = NoBackend]
        /\ in_flight' = [b \in Backends |->
             in_flight[b] + (IF b = target[r] THEN 1 ELSE 0) - (IF b = slot[r] THEN 1 ELSE 0)]
    BY <1>2 DEF Enter
  <2>2. ASSUME NEW b \in Backends PROVE in_flight'[b] = Cardinality(On(b, slot'))
    <3>1. Cardinality(On(b, [slot EXCEPT ![r] = target[r]])) = Cardinality(On(b, slot))
             + (IF b = target[r] THEN 1 ELSE 0) - (IF b = slot[r] THEN 1 ELSE 0)
      BY OnMoved
    <3>2. On(b, slot') = On(b, [slot EXCEPT ![r] = target[r]])
      BY <2>1
    <3>. QED
      BY <1>1, <2>1, <3>1, <3>2
  <2>3. in_flight' \in [Backends -> Int]
    BY <2>1
  <2>4. slot' = [q \in Requests |-> slot'[q]] /\ target' = [q \in Requests |-> target'[q]]
    BY <2>1
  <2>. QED
    BY <2>2, <2>3, <2>4
<1>3. ASSUME NEW r \in Requests, Release(r) PROVE Good
  <2>1. /\ slot' = [slot EXCEPT ![r] = NoBackend] /\ target' = target
        /\ in_flight' = [in_flight EXCEPT ![slot[r]] = @ - 1]
    BY <1>3 DEF Release
  <2>2. \A b \in Backends : in_flight'[b] = in_flight[b] - (IF b = slot[r] THEN 1 ELSE 0)
    BY <2>1
  <2>3. \A b \in Backends : in_flight'[b] = Cardinality(On(b, slot'))
    <3>. SUFFICES ASSUME NEW b \in Backends PROVE in_flight'[b] = Cardinality(On(b, slot'))
      OBVIOUS
    <3>1. b # NoBackend
      BY NoBackendIsNone
    <3>2. Cardinality(On(b, slot')) = Cardinality(On(b, slot)) + 0 - (IF b = slot[r] THEN 1 ELSE 0)
      BY <2>1, <3>1, OnMoved
    <3>. QED
      BY <1>1, <2>2, <3>2, OnFinite
  <2>4. in_flight' \in [Backends -> Int]
    <3>1. \A b \in Backends : in_flight'[b] \in Int
      BY <2>2
    <3>2. in_flight' = [b \in Backends |-> in_flight'[b]]
      BY <2>1
    <3>. QED
      BY <3>1, <3>2
  <2>5. slot' = [q \in Requests |-> slot'[q]] /\ target' = [q \in Requests |-> target'[q]]
    BY <2>1
  <2>. QED
    BY <2>3, <2>4, <2>5
<1>4. ASSUME in_flight' = in_flight, slot' = slot, target' = [r \in Requests |-> target'[r]]
      PROVE  Good
  <2>1. in_flight' = in_flight /\ slot' = slot
    BY <1>4
  <2>2. \A b \in Backends : in_flight'[b] = Cardinality(On(b, slot'))
    BY <1>1, <2>1
  <2>3. slot' = [q \in Requests |-> slot'[q]]
    BY <2>1
  <2>4. in_flight' \in [Backends -> Int]
    BY <2>1
  <2>. QED
    BY <2>2, <2>3, <2>4, <1>4
<1>. HIDE DEF Good
<1>5. Good
  <2>1. ASSUME NEW r \in Requests, Select(r) \/ TryProbe(r) \/ Pick(r) \/ Answer(r) \/ Fail(r)
        PROVE  Good
    <3>1. in_flight' = in_flight /\ slot' = slot
      BY <2>1 DEF Select, TryProbe, Pick, Answer, Fail, backend
    <3>2. target' = target \/ \E b : target' = [target EXCEPT ![r] = b]
      BY <2>1 DEF Select, TryProbe, Pick, Answer, Fail, Chosen
    <3>3. target' = [q \in Requests |-> target'[q]]
      BY <3>2
    <3>. QED
      BY <1>4, <3>1, <3>3
  <2>2. ASSUME NEW b \in Backends, DeadlinePasses(b) \/ SetHealthy(b) \/ BackendChanges(b)
        PROVE  Good
    <3>1. in_flight' = in_flight /\ slot' = slot /\ target' = target
      BY <2>2 DEF DeadlinePasses, SetHealthy, BackendChanges, backend, request
    <3>2. target' = [q \in Requests |-> target'[q]]
      BY <3>1
    <3>. QED
      BY <1>4, <3>1, <3>2
  <2>. QED
    BY <1>2, <1>3, <2>1, <2>2 DEF Next, Step
<1>. QED
  BY <1>5 DEF Good, InFlightExact, On

-----------------------------------------------------------------------------
(* Theorems *)

LEMMA UpstreamStep == UpstreamInv /\ [Next]_vars => UpstreamInv'
<1>1. ASSUME UpstreamInv, Next PROVE UpstreamInv'
  BY <1>1, BreakerStep, SlotStep DEF UpstreamInv
<1>2. ASSUME UpstreamInv, UNCHANGED vars PROVE UpstreamInv'
  BY <1>2 DEF vars, backend, request, UpstreamInv, InFlightExact
<1>. QED
  BY <1>1, <1>2

\* The load of a backend is exactly the attempts that occupy it, whatever the
\* selection picks, however attempts fail over and however they end.
THEOREM LoadIsExact == Spec => []InFlightExact
<1>1. Init => UpstreamInv
  BY UpstreamStart
<1>2. UpstreamInv /\ [Next]_vars => UpstreamInv'
  BY UpstreamStep
<1>3. UpstreamInv => InFlightExact
  BY DEF UpstreamInv
<1>. QED
  BY <1>1, <1>2, <1>3, PTL DEF Spec

\* An ejected backend is closed by the request that holds its newest probe
\* token, never by an attempt the fallback sent there (record_outcome).
THEOREM EjectionEndsByProbe == Spec => OnlyProbesClose
<1>1. Init => UpstreamInv
  BY UpstreamStart
<1>2. UpstreamInv /\ [Next]_vars => UpstreamInv'
  BY UpstreamStep
<1>3. UpstreamInv /\ [Next]_vars =>
        [\A b \in Backends :
            breaker[b] # "closed" /\ breaker'[b] = "closed" =>
               \E r \in Requests : slot[r] = b /\ probe[r] /\ token[b] = r]_vars
  BY BreakerStep DEF vars
<1>. QED
  BY <1>1, <1>2, <1>3, PTL DEF Spec, OnlyProbesClose
=============================================================================
