-------------------------- MODULE LifecycleProofs --------------------------
(***************************************************************************)
(* The life of a process, for every drain period, check interval, health   *)
(* threshold and queue size: spans are accounted for, readiness waits for  *)
(* the probes, the drain window is exact, and an address that gets traffic *)
(* is listened on.  Each part has an inductive invariant of its own.       *)
(***************************************************************************)
EXTENDS Lifecycle, Integers, TLAPS

\* Min and Max of two counts.
LEMMA MinMaxOfTwo ==
    ASSUME NEW x \in Int, NEW y \in Int
    PROVE  /\ Min({x, y}) = IF x <= y THEN x ELSE y
           /\ Max({x, y}) = IF x <= y THEN y ELSE x
BY DEF Min, Max

-----------------------------------------------------------------------------
(* The exporter *)

\* A recorded span is counted, in the channel or in the batch; the task returns
\* only when the last two are empty.
SpanInv ==
    /\ queued \in Nat /\ batch \in Nat /\ recorded \in Nat /\ counted \in Nat
    /\ recorded = counted + queued + batch
    /\ mode = "gone" => queued = 0 /\ batch = 0

\* What a step of the system does to the exporter.
LEMMA SpanSteps ==
    ASSUME [Next]_vars
    PROVE  \/ UNCHANGED spanVars \/ SpanKill \/ SpanTick \/ Record \/ Receive \/ FlushTick
           \/ PostReturns \/ CloseChannel \/ DrainStep \/ DrainDeadline
BY DEF Next, vars, Configure, Bootstrap, BootstrapFails, Assemble, Listen, StartStep, Probe, Usr1,
       Term, WindowOver, Interrupt, Exit, HandOver, RequestEnds, SpanStep, Poll, Tick

LEMMA SpanInvStep == SpanInv /\ [Next]_vars => SpanInv'
<1>. SUFFICES ASSUME SpanInv, [Next]_vars PROVE SpanInv'
  OBVIOUS
<1>. USE DEF SpanInv
<1>. DEFINE n == Min({queued, MaxBatch})
<1>0. n \in Nat /\ n <= queued /\ (n = 0 => queued = 0)
  BY MinMaxOfTwo, ExporterAssumption
<1>1. CASE UNCHANGED spanVars \/ SpanKill \/ SpanTick \/ CloseChannel \/ FlushTick
  BY <1>1 DEF spanVars, SpanKill, SpanTick, CloseChannel, FlushTick, Flush
<1>2. CASE Record
  BY <1>2 DEF Record, ChannelOpen
<1>3. CASE Receive
  <2>1. queued' = queued - n /\ batch' = batch + n /\ recorded' = recorded /\ counted' = counted
    BY <1>3 DEF Receive
  <2>2. mode' # "gone"
    BY <1>3 DEF Receive, Flush
  <2>. QED
    BY <1>0, <2>1, <2>2
<1>4. CASE PostReturns \/ DrainDeadline
  BY <1>4 DEF PostReturns, DrainDeadline
<1>5. CASE DrainStep
  <2>. DEFINE m == IF batch > 0 THEN 0 ELSE n
  <2>1. queued' = queued - m /\ batch' = batch + m /\ recorded' = recorded /\ counted' = counted
    BY <1>5 DEF DrainStep
  <2>2. mode' = "gone" => batch + m = 0
    BY <1>5 DEF DrainStep, Flush
  <2>. QED
    BY <1>0, <2>1, <2>2
<1>. QED
  BY <1>1, <1>2, <1>3, <1>4, <1>5, SpanSteps

\* No span is lost uncounted by the exporter (telemetry/otlp.rs) once its task has
\* returned, whatever the sizes of the queue and the batches.
THEOREM SpansAccountedHolds == Spec => []SpansAccounted
<1>1. Init => SpanInv
  BY DEF Init, SpanInit, SpanInv
<1>2. SpanInv => SpansAccounted
  BY DEF SpanInv, SpansAccounted
<1>. QED
  BY <1>1, <1>2, SpanInvStep, PTL DEF Spec

-----------------------------------------------------------------------------
(* Probes and readiness *)

\* A streak of good probes is no longer than the probes passed, and a backend that
\* a strict process calls healthy has passed enough of them.
ProbeInv ==
    /\ health \in [Procs -> [ok : Nat, fail : Nat, healthy : BOOLEAN]]
    /\ passes \in [Procs -> Nat]
    /\ \A p \in Procs : health[p].ok <= passes[p] \/ passes[p] >= HealthyAfter
    /\ strict => \A p \in Procs : health[p].healthy => passes[p] >= HealthyAfter
    /\ ProbedBeforeTraffic

\* What a step of the system does to the probes and to readiness.
LEMMA ProbeSteps ==
    ASSUME [Next]_vars
    PROVE  /\ strict' = strict
           /\ \/ UNCHANGED <<checks, routed>> \/ Poll
              \/ \E p \in Procs :
                  \/ /\ health' = [health EXCEPT ![p].healthy = ~strict]
                     /\ UNCHANGED <<passes, routed>>
                  \/ /\ health' = [health EXCEPT ![p] = Unprobed]
                     /\ UNCHANGED <<passes, routed>>
                  \/ \E ok \in BOOLEAN : Probe(p, ok)
BY DEF Next, vars, checks, balancerVars, procVars, Configure, Bootstrap, BootstrapFails, Assemble,
       Listen, StartStep, Probe, Usr1, Term, WindowOver, Interrupt, Exit, HandOver, RequestEnds,
       SpanStep, Poll, Tick

LEMMA ProbeInvStep == ProbeInv /\ [Next]_vars /\ strict \in BOOLEAN => ProbeInv'
<1>. SUFFICES ASSUME ProbeInv, [Next]_vars, strict \in BOOLEAN PROVE ProbeInv'
  OBVIOUS
<1>. USE DEF ProbeInv
<1>0. strict' = strict /\ HealthyAfter \in Nat \ {0} /\ UnhealthyAfter \in Nat \ {0}
  BY ProbeSteps, LifecycleAssumption
<1>1. CASE UNCHANGED <<checks, routed>>
  BY <1>0, <1>1 DEF checks, ProbedBeforeTraffic
<1>2. CASE Poll
  <2>1. UNCHANGED checks /\ (routed' => \E p \in Procs : strict => health[p].healthy)
    BY <1>2 DEF Poll, Ready
  <2>. QED
    BY <1>0, <2>1 DEF checks, ProbedBeforeTraffic
<1>3. ASSUME NEW p \in Procs, health' = [health EXCEPT ![p].healthy = ~strict],
             UNCHANGED <<passes, routed>>
      PROVE  ProbeInv'
  BY <1>0, <1>3 DEF ProbedBeforeTraffic
<1>4. ASSUME NEW p \in Procs, health' = [health EXCEPT ![p] = Unprobed],
             UNCHANGED <<passes, routed>>
      PROVE  ProbeInv'
  BY <1>0, <1>4 DEF ProbedBeforeTraffic, Unprobed
<1>5. ASSUME NEW p \in Procs, NEW ok \in BOOLEAN, Probe(p, ok) PROVE ProbeInv'
  <2>. DEFINE h == HealthRecord(health[p], ok)
              n == Min({passes[p] + (IF ok THEN 1 ELSE 0), HealthyAfter})
  <2>1. health' = [health EXCEPT ![p] = h] /\ passes' = [passes EXCEPT ![p] = n]
        /\ routed' = routed
    BY <1>5 DEF Probe, balancerVars
  <2>2. n \in Nat /\ n <= HealthyAfter
        /\ n = IF ok /\ passes[p] + 1 <= HealthyAfter THEN passes[p] + 1
               ELSE IF passes[p] <= HealthyAfter THEN passes[p] ELSE HealthyAfter
    <3>1. passes[p] \in Nat
      OBVIOUS
    <3>2. CASE ok
      <4>1. n = Min({passes[p] + 1, HealthyAfter})
        BY <3>2
      <4>. QED
        BY <1>0, <3>1, <3>2, <4>1, MinMaxOfTwo
    <3>3. CASE ~ok
      <4>0. passes[p] + (IF ok THEN 1 ELSE 0) = passes[p]
        BY <3>1, <3>3
      <4>1. n = Min({passes[p], HealthyAfter})
        BY <4>0
      <4>. QED
        BY <1>0, <3>1, <3>3, <4>1, MinMaxOfTwo
    <3>. QED
      BY <3>2, <3>3
  <2>3. /\ Min({health[p].ok, HealthyAfter}) \in Nat
        /\ Min({health[p].ok, HealthyAfter}) <= health[p].ok
        /\ Min({health[p].fail, UnhealthyAfter}) \in Nat
    BY <1>0, MinMaxOfTwo
  <2>4. h.ok = IF ok THEN Min({health[p].ok, HealthyAfter}) + 1 ELSE 0
    BY DEF HealthRecord
  <2>5. h \in [ok : Nat, fail : Nat, healthy : BOOLEAN]
    <3>1. h.fail = IF ok THEN 0 ELSE Min({health[p].fail, UnhealthyAfter}) + 1
      BY DEF HealthRecord
    <3>2. h.healthy \in BOOLEAN
      BY DEF HealthRecord
    <3>3. h = [ok |-> h.ok, fail |-> h.fail, healthy |-> h.healthy]
      BY DEF HealthRecord
    <3>4. h.ok \in Nat /\ h.fail \in Nat
      BY <2>3, <2>4, <3>1
    <3>. HIDE DEF h
    <3>. QED
      BY <3>2, <3>3, <3>4
  <2>6. h.healthy => health[p].healthy \/ (ok /\ h.ok = HealthyAfter)
    BY DEF HealthRecord
  <2>. HIDE DEF h, n
  <2>7. h.ok <= n \/ n >= HealthyAfter
    BY <1>0, <2>2, <2>3, <2>4, <2>5
  <2>8. strict /\ h.healthy => n >= HealthyAfter
    BY <1>0, <2>2, <2>5, <2>6, <2>7
  <2>9. passes[p] >= HealthyAfter => n >= HealthyAfter
    BY <1>0, <2>2
  <2>10. ProbedBeforeTraffic'
    BY <1>0, <2>1, <2>2, <2>9 DEF ProbedBeforeTraffic
  <2>. QED
    BY <1>0, <2>1, <2>2, <2>5, <2>7, <2>8, <2>10
<1>. QED
  BY <1>1, <1>2, <1>3, <1>4, <1>5, ProbeSteps

\* A process whose readiness depends on its upstream (Admin::readiness) is put in
\* rotation only after healthy_after passed probes, whatever the thresholds.
THEOREM ProbedBeforeTrafficHolds == Spec => []ProbedBeforeTraffic
<1>1. Init => ProbeInv /\ strict \in BOOLEAN
  BY LifecycleAssumption DEF Init, ProbeInv, Unprobed, ProbedBeforeTraffic
<1>2. ProbeInv /\ strict \in BOOLEAN /\ [Next]_vars => (ProbeInv /\ strict \in BOOLEAN)'
  BY ProbeInvStep, ProbeSteps
<1>3. ProbeInv => ProbedBeforeTraffic
  BY DEF ProbeInv
<1>. QED
  BY <1>1, <1>2, <1>3, PTL DEF Spec

-----------------------------------------------------------------------------
(* The drain window *)

\* While prepare sleeps, what has passed since DrainState::begin and what is left of
\* the sleep add up to the drain period; a process that has not served yet has not
\* been told to drain.
WindowInv ==
    /\ stage \in [Procs -> Stages]
    /\ since \in [Procs -> Int] /\ sleep \in [Procs -> Int] /\ head \in [Procs -> Int]
    /\ ended \in [Procs -> {"-", "sigterm", "sigint", "sigquit"}]
    /\ \A p \in Procs :
        /\ since[p] >= -1 /\ sleep[p] >= -1
        /\ stage[p] \notin {"serving", "closing", "exited"} => since[p] = -1 /\ sleep[p] = -1
        /\ stage[p] = "serving" /\ sleep[p] # -1 =>
              since[p] >= 0 /\ since[p] + sleep[p] = DrainPeriod /\ head[p] <= DrainPeriod

\* What a start-up step does to a process.
Started(p) ==
    /\ \/ /\ stage[p] \in {"off", "configured", "waiting", "assembling", "wired"}
          /\ \E s \in {"failed", "configured", "waiting", "assembling"} :
                stage' = [stage EXCEPT ![p] = s]
          /\ stage[p] \in {"assembling", "wired"} => stage'[p] = "failed"
       \/ /\ stage[p] = "assembling" /\ stage' = [stage EXCEPT ![p] = "wired"]
       \/ /\ stage[p] = "wired" /\ stage' = [stage EXCEPT ![p] = "serving"]
    /\ UNCHANGED <<since, sleep, head, ended, balancerVars>>

\* How a process leaves: by SIGINT or at the end of shutdown_timeout.
Left(p) ==
    /\ \/ stage[p] = "serving" /\ ended' = [ended EXCEPT ![p] = "sigint"]
       \/ stage[p] = "closing" /\ ended' = ended
    /\ stage' = [stage EXCEPT ![p] = "exited"]
    /\ UNCHANGED <<since, sleep, head, balancerVars>>

\* What a step of the system does to the processes and the balancer.
LEMMA ProcessSteps ==
    ASSUME WindowInv, [Next]_vars
    PROVE  \/ UNCHANGED <<stage, since, sleep, head, ended, balancerVars>>
           \/ HandOver \/ Poll \/ Tick
           \/ \E p \in Procs : Started(p) \/ Left(p) \/ Usr1(p) \/ Term(p) \/ WindowOver(p)
<1>1. ASSUME NEW p \in Procs, Configure(p) PROVE Started(p)
  BY <1>1 DEF Configure, StartStep, Started
<1>2. ASSUME NEW p \in Procs, NEW upgrade \in BOOLEAN, Bootstrap(p, upgrade) PROVE Started(p)
  BY <1>2 DEF Bootstrap, StartStep, Started
<1>3. ASSUME NEW p \in Procs, BootstrapFails(p) PROVE Started(p)
  BY <1>3 DEF BootstrapFails, StartStep, Started
<1>4. ASSUME NEW p \in Procs, Assemble(p) PROVE Started(p)
  BY <1>4 DEF Assemble, StartStep, Started, WindowInv
<1>5. ASSUME NEW p \in Procs, Listen(p) PROVE Started(p)
  BY <1>5 DEF Listen, StartStep, Started, WindowInv
<1>6. ASSUME NEW p \in Procs, Interrupt(p) \/ Exit(p) PROVE Left(p)
  BY <1>6 DEF Interrupt, Exit, Left
<1>7. ASSUME NEW p \in Procs, NEW ok \in BOOLEAN, Probe(p, ok)
      PROVE  UNCHANGED <<stage, since, sleep, head, ended, balancerVars>>
  BY <1>7 DEF Probe, procVars
<1>8. ASSUME RequestEnds \/ SpanStep \/ UNCHANGED vars
      PROVE  UNCHANGED <<stage, since, sleep, head, ended, balancerVars>>
  BY <1>8 DEF RequestEnds, SpanStep, vars, procVars
<1>. QED
  BY <1>1, <1>2, <1>3, <1>4, <1>5, <1>6, <1>7, <1>8 DEF Next

LEMMA WindowInvStep == WindowInv /\ [Next]_vars => WindowInv'
<1>. SUFFICES ASSUME WindowInv, [Next]_vars PROVE WindowInv'
  OBVIOUS
<1>. USE DEF WindowInv
<1>0. DrainPeriod \in Nat
  BY LifecycleAssumption
<1>1. CASE UNCHANGED <<stage, since, sleep, head, ended, balancerVars>> \/ Poll
  BY <1>1 DEF Poll, procVars
<1>2. CASE HandOver
  BY <1>2 DEF HandOver, Procs, Stages
<1>3. CASE Tick
  <2>1. ASSUME NEW p \in Procs
        PROVE  /\ since'[p] = IF stage[p] = "serving" /\ since[p] # -1
                              THEN (IF since[p] + 1 <= DrainPeriod + 1 THEN since[p] + 1 ELSE DrainPeriod + 1)
                              ELSE since[p]
               /\ sleep'[p] = IF sleep[p] > 0 THEN sleep[p] - 1 ELSE sleep[p]
               /\ stage[p] = "serving" => sleep[p] # 0
    <3>1. Min({since[p] + 1, SinceCap})
            = IF since[p] + 1 <= DrainPeriod + 1 THEN since[p] + 1 ELSE DrainPeriod + 1
      <4>1. since[p] + 1 \in Int /\ DrainPeriod + 1 \in Int
        BY <1>0
      <4>. QED
        BY <4>1, MinMaxOfTwo DEF SinceCap
    <3>. QED
      BY <1>3, <3>1 DEF Tick, Draining
  <2>2. since' = [p \in Procs |-> since'[p]] /\ sleep' = [p \in Procs |-> sleep'[p]]
    BY <1>3 DEF Tick
  <2>3. stage' = stage /\ head' = head /\ ended' = ended
    BY <1>3 DEF Tick
  <2>4. \A p \in Procs : since'[p] \in Int /\ since'[p] >= -1 /\ sleep'[p] \in Int /\ sleep'[p] >= -1
    BY <1>0, <2>1
  <2>5. \A p \in Procs : stage[p] \notin {"serving", "closing", "exited"} =>
                            since'[p] = -1 /\ sleep'[p] = -1
    BY <2>1
  <2>6. \A p \in Procs : stage[p] = "serving" /\ sleep'[p] # -1 =>
              since'[p] >= 0 /\ since'[p] + sleep'[p] = DrainPeriod /\ head[p] <= DrainPeriod
    BY <1>0, <2>1
  <2>. QED
    BY <2>2, <2>3, <2>4, <2>5, <2>6
<1>4. ASSUME NEW p \in Procs, Started(p) \/ Left(p) PROVE WindowInv'
  BY <1>4 DEF Started, Left, Stages
<1>5. ASSUME NEW p \in Procs, Usr1(p) PROVE WindowInv'
  BY <1>5 DEF Usr1, Begun
<1>6. ASSUME NEW p \in Procs, Term(p) PROVE WindowInv'
  <2>1. Begun(p) \in Nat /\ stage[p] = "serving" /\ sleep[p] = -1
        /\ since' = [since EXCEPT ![p] = Begun(p)] /\ head' = [head EXCEPT ![p] = Begun(p)]
    BY <1>6 DEF Term, Begun
  <2>2. CASE Begun(p) >= DrainPeriod
    BY <1>6, <2>1, <2>2 DEF Term, Broadcast, Stages
  <2>3. CASE ~(Begun(p) >= DrainPeriod)
    BY <1>0, <1>6, <2>1, <2>3 DEF Term
  <2>. QED
    BY <2>2, <2>3
<1>7. ASSUME NEW p \in Procs, WindowOver(p) PROVE WindowInv'
  BY <1>7 DEF WindowOver, Broadcast, Stages
<1>. QED
  BY <1>1, <1>2, <1>3, <1>4, <1>5, <1>6, <1>7, ProcessSteps

\* The window is what the code says of it in every reachable state.
THEOREM WindowInvariant == Spec => []WindowInv
<1>1. Init => WindowInv
  BY DEF Init, WindowInv, Stages
<1>. QED
  BY <1>1, WindowInvStep, PTL DEF Spec

\* A SIGTERM closes the listeners when readiness has failed for exactly the drain
\* period, or at once where a SIGUSR1 has run it out before (admin/drain.rs
\* prepare), whatever the period.
THEOREM DrainWindowIsHeld == Spec => DrainWindowHeld
<1>. DEFINE Held == \A p \in Procs :
              stage[p] = "serving" /\ stage'[p] = "closing" /\ ended'[p] = "sigterm"
                  => since'[p] = Max({DrainPeriod, head'[p]})
<1>0. DrainPeriod \in Int
  BY LifecycleAssumption
<1>1. ASSUME WindowInv, [Next]_vars PROVE Held
  <2>. SUFFICES ASSUME NEW p \in Procs, stage[p] = "serving", stage'[p] = "closing",
                       ended'[p] = "sigterm"
                PROVE  since'[p] = Max({DrainPeriod, head'[p]})
    OBVIOUS
  <2>. USE DEF WindowInv
  <2>1. \/ Term(p) /\ Begun(p) >= DrainPeriod
        \/ WindowOver(p)
    <3>1. ~HandOver
      BY <1>1 DEF HandOver, Procs
    <3>2. stage' # stage /\ ~Poll /\ ~Tick
      BY DEF Poll, Tick, procVars
    <3>3. ASSUME NEW q \in Procs, Started(q) \/ Left(q) \/ Usr1(q) PROVE FALSE
      BY <1>1, <3>3, <3>2 DEF Started, Left, Usr1
    <3>4. ASSUME NEW q \in Procs, Term(q) \/ WindowOver(q) PROVE q = p
      BY <1>1, <3>4 DEF Term, WindowOver, Broadcast
    <3>5. Term(p) \/ WindowOver(p)
      BY <3>1, <3>2, <3>3, <3>4, <1>1, ProcessSteps
    <3>6. Term(p) => Begun(p) >= DrainPeriod
      BY <3>2 DEF Term
    <3>. QED
      BY <3>5, <3>6
  <2>2. CASE Term(p) /\ Begun(p) >= DrainPeriod
    <3>1. Begun(p) \in Int /\ since'[p] = Begun(p) /\ head'[p] = Begun(p)
      BY <1>1, <2>2 DEF Term, Begun
    <3>2. Max({DrainPeriod, Begun(p)}) = Begun(p)
      BY <1>0, <2>2, <3>1, MinMaxOfTwo
    <3>. QED
      BY <3>1, <3>2
  <2>3. CASE WindowOver(p)
    <3>1. since'[p] = DrainPeriod /\ head' = head /\ head[p] \in Int /\ head[p] <= DrainPeriod
      BY <1>0, <1>1, <2>3 DEF WindowOver
    <3>2. \A h \in Int : h <= DrainPeriod => Max({DrainPeriod, h}) = DrainPeriod
      BY <1>0, MinMaxOfTwo
    <3>. QED
      BY <3>1, <3>2
  <2>. QED
    BY <2>1, <2>2, <2>3
<1>2. ASSUME UNCHANGED vars PROVE Held
  BY <1>2 DEF vars, procVars
<1>. QED
  BY <1>1, <1>2, WindowInvariant, PTL DEF Spec, DrainWindowHeld

-----------------------------------------------------------------------------
(* The balancer and the sockets *)

\* Traffic that goes to the address goes there on account of a process that serves
\* and has not been draining for longer than the balancer has not looked, or of a
\* hand-over under way, unless one of the two exceptions has happened.
TrafficInv ==
    /\ sincePoll \in Nat /\ sincePoll <= CheckInterval
    /\ \A p \in Procs : ended[p] = "sigint" => stage[p] = "exited"
    /\ ended["old"] = "sigquit" => stage["old"] \in {"closing", "exited"}
    /\ routed =>
        \/ \E p \in Procs : stage[p] = "serving" /\ since[p] <= sincePoll
        \/ ended["old"] = "sigquit" /\ stage["new"] \in {"assembling", "wired", "failed"}
        \/ \E p \in Procs : ended[p] = "sigint"

LEMMA TrafficInvStep == WindowInv /\ TrafficInv /\ [Next]_vars => TrafficInv'
<1>. SUFFICES ASSUME WindowInv, TrafficInv, [Next]_vars PROVE TrafficInv'
  OBVIOUS
<1>. USE DEF WindowInv, TrafficInv
<1>0. DrainPeriod \in Nat /\ CheckInterval \in Nat /\ CheckInterval < DrainPeriod
  BY LifecycleAssumption
<1>1. CASE UNCHANGED <<stage, since, sleep, head, ended, balancerVars>>
  BY <1>1 DEF balancerVars
<1>2. CASE HandOver
  <2>1. /\ stage["old"] = "serving" /\ stage' = [old |-> "closing", new |-> "assembling"]
        /\ ended' = [ended EXCEPT !["old"] = "sigquit"]
        /\ UNCHANGED <<since, routed, sincePoll>>
    BY <1>2 DEF HandOver, balancerVars
  <2>. QED
    BY <1>2, <2>1 DEF Procs, HandOver
<1>3. CASE Poll
  <2>1. UNCHANGED <<stage, since, ended>> /\ sincePoll' = 0
        /\ (routed' => \E p \in Procs : stage[p] = "serving" /\ since[p] = -1)
    BY <1>3 DEF Poll, procVars, Ready
  <2>. QED
    BY <1>0, <2>1
<1>4. CASE Tick
  <2>1. UNCHANGED <<stage, ended, routed>> /\ sincePoll' = sincePoll + 1 /\ sincePoll < CheckInterval
    BY <1>4 DEF Tick
  <2>2. \A p \in Procs : since'[p] <= since[p] + 1
    <3>. SUFFICES ASSUME NEW p \in Procs PROVE since'[p] <= since[p] + 1
      OBVIOUS
    <3>1. since[p] \in Int /\ since[p] + 1 \in Int /\ SinceCap \in Int
      BY <1>0 DEF SinceCap
    <3>2. Min({since[p] + 1, SinceCap}) <= since[p] + 1
      BY <3>1, MinMaxOfTwo
    <3>3. since'[p] = IF Draining(p) THEN Min({since[p] + 1, SinceCap}) ELSE since[p]
      BY <1>4 DEF Tick
    <3>. QED
      BY <3>1, <3>2, <3>3
  <2>3. WindowInv'
    BY WindowInvStep
  <2>4. \A p \in Procs : since[p] <= sincePoll => since'[p] <= sincePoll'
    BY <2>1, <2>2, <2>3
  <2>. QED
    BY <1>0, <2>1, <2>4
<1>5. ASSUME NEW p \in Procs, Started(p) PROVE TrafficInv'
  <2>1. UNCHANGED <<since, ended, routed, sincePoll>>
    BY <1>5 DEF Started, balancerVars
  <2>2. stage[p] \notin {"serving", "closing", "exited"} /\ since[p] = -1
        /\ \A q \in Procs : q # p => stage'[q] = stage[q]
    BY <1>5 DEF Started
  <2>3. stage[p] \in {"assembling", "wired", "failed"} =>
            stage'[p] \in {"wired", "failed", "serving"}
    BY <1>5 DEF Started
  <2>4. (\E q \in Procs : stage[q] = "serving" /\ since[q] <= sincePoll) =>
            \E q \in Procs : stage'[q] = "serving" /\ since[q] <= sincePoll
    BY <2>2
  <2>5. (ended["old"] = "sigquit" /\ stage["new"] \in {"assembling", "wired", "failed"}) =>
            \/ \E q \in Procs : stage'[q] = "serving" /\ since[q] <= sincePoll
            \/ stage'["new"] \in {"assembling", "wired", "failed"}
    BY <2>2, <2>3 DEF Procs
  <2>6. \A q \in Procs : stage[q] \in {"closing", "exited"} => stage'[q] = stage[q]
    BY <2>2
  <2>7. "old" \in Procs
    BY DEF Procs
  <2>. QED
    BY <2>1, <2>4, <2>5, <2>6, <2>7
<1>6. ASSUME NEW p \in Procs, Left(p) PROVE TrafficInv'
  <2>1. UNCHANGED <<since, routed, sincePoll>> /\ stage' = [stage EXCEPT ![p] = "exited"]
    BY <1>6 DEF Left, balancerVars
  <2>2. CASE stage[p] = "serving" /\ ended' = [ended EXCEPT ![p] = "sigint"]
    BY <2>1, <2>2 DEF Procs
  <2>3. CASE stage[p] = "closing" /\ ended' = ended
    BY <2>1, <2>3 DEF Procs
  <2>. QED
    BY <1>6, <2>2, <2>3 DEF Left
<1>7. ASSUME NEW p \in Procs, Usr1(p) PROVE TrafficInv'
  <2>1. UNCHANGED <<stage, ended, routed, sincePoll>> /\ since' = [since EXCEPT ![p] = Begun(p)]
    BY <1>7 DEF Usr1, balancerVars
  <2>2. \A q \in Procs : since[q] <= sincePoll => since'[q] <= sincePoll
    BY <2>1 DEF Begun
  <2>. QED
    BY <2>1, <2>2
<1>8. ASSUME NEW p \in Procs, stage[p] = "serving", Broadcast(p, "sigterm"),
             UNCHANGED balancerVars, since[p] >= DrainPeriod,
             since' = [since EXCEPT ![p] = Begun(p)] \/ since' = since
      PROVE  TrafficInv'
  <2>1. /\ stage' = [stage EXCEPT ![p] = "closing"] /\ ended' = [ended EXCEPT ![p] = "sigterm"]
        /\ UNCHANGED <<routed, sincePoll>>
    BY <1>8 DEF Broadcast, balancerVars
  <2>2. ~(since[p] <= sincePoll) /\ since' = since
    BY <1>0, <1>8 DEF Begun
  <2>3. \A q \in Procs : q # p => stage'[q] = stage[q] /\ ended'[q] = ended[q]
    BY <2>1
  <2>. QED
    BY <1>8, <2>1, <2>2, <2>3 DEF Procs
<1>9. ASSUME NEW p \in Procs, Term(p) PROVE TrafficInv'
  <2>1. CASE Begun(p) >= DrainPeriod
    BY <1>0, <1>8, <1>9, <2>1 DEF Term, Begun
  <2>2. CASE ~(Begun(p) >= DrainPeriod)
    <3>1. UNCHANGED <<stage, ended, routed, sincePoll>> /\ since' = [since EXCEPT ![p] = Begun(p)]
      BY <1>9, <2>2 DEF Term, balancerVars
    <3>2. \A q \in Procs : since[q] <= sincePoll => since'[q] <= sincePoll
      BY <3>1 DEF Begun
    <3>. QED
      BY <3>1, <3>2
  <2>. QED
    BY <2>1, <2>2
<1>10. ASSUME NEW p \in Procs, WindowOver(p) PROVE TrafficInv'
  BY <1>0, <1>8, <1>10 DEF WindowOver
<1>. QED
  BY <1>1, <1>2, <1>3, <1>4, <1>5, <1>6, <1>7, <1>9, <1>10, ProcessSteps

\* While the balancer sends traffic to the address somebody listens there, for
\* every drain period that is longer than the check interval; but for a SIGINT and
\* a replacement that fails after it has taken the sockets over.
THEOREM NobodyRefusedHolds == Spec => []NobodyRefused
<1>1. Init => TrafficInv
  BY LifecycleAssumption DEF Init, TrafficInv, Procs
<1>2. TrafficInv => NobodyRefused
  BY DEF TrafficInv, NobodyRefused, HoldsSockets, Procs
<1>. QED
  BY <1>1, <1>2, TrafficInvStep, WindowInvariant, PTL DEF Spec
=============================================================================
