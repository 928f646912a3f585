----------------------------- MODULE Lifecycle -----------------------------
(***************************************************************************)
(* The life of a Harmost process and its replacement: start-up             *)
(* (main.rs run), drain state and signals (admin/drain.rs), readiness      *)
(* (admin/mod.rs), the health checker readiness may depend on              *)
(* (upstream/health.rs) and the exporter that has to finish before the     *)
(* process does (module Exporter), watched by a load balancer that polls   *)
(* readiness.                                                              *)
(*                                                                         *)
(* "old" serves first; "new" replaces it, either started with --upgrade    *)
(* while the old one serves (the sockets are handed over on SIGQUIT) or    *)
(* started after the old one has gone.  Pingora is external: it reads one  *)
(* signal at a time through DrainShutdownSignalWatch::recv, broadcasts     *)
(* shutdown, closes every listener on the broadcast and exits after the    *)
(* whole of shutdown_timeout.                                              *)
(***************************************************************************)
EXTENDS Exporter

CONSTANTS
    DrainPeriod,        \* server.graceful.drain_period, in ticks
    ShutdownTimeout,    \* server.graceful.shutdown_timeout, rounded up by pingora_seconds
    CheckInterval,      \* the longest the balancer goes without polling readiness
    HealthyAfter,       \* health.healthy_after
    UnhealthyAfter      \* health.unhealthy_after

\* The drain window is "longer than" the balancer's check interval
\* (docs/OPERATIONS.md).
ASSUME LifecycleAssumption ==
    /\ DrainPeriod \in Nat /\ ShutdownTimeout \in Nat \ {0}
    /\ CheckInterval \in Nat \ {0} /\ CheckInterval < DrainPeriod
    /\ HealthyAfter \in Nat \ {0} /\ UnhealthyAfter \in Nat \ {0}

Procs == {"old", "new"}

VARIABLES
    stage,      \* how far each process is
    since,      \* ticks since DrainState::begin, -1 before
    sleep,      \* what is left of the sleep in prepare, -1 when recv is waiting
    closeLeft,  \* what is left of shutdown_timeout
    head,       \* history: since at the moment SIGTERM was taken
    ended,      \* history: why the listeners were closed
    strict,     \* require_healthy_upstream (which requires a health block)
    health,     \* each process's view of its backend
    passes,     \* history: probes passed in this life, counted up to HealthyAfter
    routed,     \* the balancer sends traffic to this address
    sincePoll   \* ticks since the balancer last polled

checks == <<health, passes>>
procVars == <<stage, since, sleep, closeLeft, head, ended>>
balancerVars == <<routed, sincePoll>>
vars == <<procVars, strict, checks, balancerVars, spanVars>>

Stages ==
    {"off", "failed", "configured", "waiting", "assembling", "wired", "serving", "closing", "exited"}

\* since is counted this far: beyond it the window is over whatever happens.
SinceCap == DrainPeriod + 1

Unprobed == [ok |-> 0, fail |-> 0, healthy |-> FALSE]

Init ==
    /\ stage = [p \in Procs |-> "off"]
    /\ since = [p \in Procs |-> -1]
    /\ sleep = [p \in Procs |-> -1]
    /\ closeLeft = [p \in Procs |-> 0]
    /\ head = [p \in Procs |-> -1]
    /\ ended = [p \in Procs |-> "-"]
    /\ strict \in BOOLEAN
    /\ health = [p \in Procs |-> Unprobed] /\ passes = [p \in Procs |-> 0]
    /\ routed = FALSE /\ sincePoll = 0
    /\ SpanInit

-----------------------------------------------------------------------------
(* Start-up *)

\* A start-up step either gets through or makes run return FAILURE.
StartStep(p, from, to) ==
    /\ stage[p] = from
    /\ \E s \in {"failed", to} : stage' = [stage EXCEPT ![p] = s]
    /\ UNCHANGED <<since, sleep, closeLeft, head, ended, strict, balancerVars, spanVars>>

\* The operator starts the old process first, and the new one after it has
\* gone or, to take its sockets over, while it serves.
MayStart(p) == p = "new" => stage["old"] \in {"failed", "serving", "exited"}

\* Load and validate the file, build the exporter and the policy snapshot.
Configure(p) ==
    /\ MayStart(p)
    /\ StartStep(p, "off", "configured")
    /\ UNCHANGED checks

\* Admission and gauges are set up from the policy, then bootstrap.  With
\* --upgrade, refused up front where it cannot work, it waits for the sockets
\* of the running process.
Bootstrap(p, upgrade) ==
    /\ upgrade <=> p = "new" /\ stage["old"] \notin {"failed", "exited"}
    /\ StartStep(p, "configured", IF upgrade THEN "waiting" ELSE "assembling")
    /\ UNCHANGED checks

\* bootstrap gives up when nobody is left to hand sockets over.
BootstrapFails(p) ==
    /\ stage["old"] \in {"closing", "exited"}
    /\ StartStep(p, "waiting", "failed")
    /\ UNCHANGED checks

\* Mutant: backends are assumed healthy although a checker runs.
AssembleAssumes(p) ==
    /\ StartStep(p, "assembling", "wired")
    /\ health' = [health EXCEPT ![p].healthy = TRUE] /\ UNCHANGED passes

\* After bootstrap, and so after the sockets were taken over: the upstream pool
\* (which resolves names), backends assumed healthy only without a checker,
\* the drain watcher, exporter, resolver and checker, Harmost::new.
Assemble(p) ==
    /\ StartStep(p, "assembling", "wired")
    /\ health' = [health EXCEPT ![p].healthy = ~strict] /\ UNCHANGED passes

\* The reloader, the admin handles, h2c, the listeners and their TLS material;
\* then server.run.
Listen(p) ==
    /\ StartStep(p, "wired", "serving")
    /\ UNCHANGED checks

\* A listening socket of the address is open in this process: connections to
\* it wait in the backlog until it serves.
HoldsSockets(p) ==
    \/ stage[p] = "serving"
    \/ p = "new" /\ ended["old"] = "sigquit" /\ stage[p] \in {"assembling", "wired"}

-----------------------------------------------------------------------------
(* Health checks and readiness *)

\* HealthChecker::record: the state flips when a streak reaches its threshold
\* exactly.  Streaks are counted no further than that, which decides the same.
HealthRecord(h, ok) ==
    LET oks == IF ok THEN Min({h.ok, HealthyAfter}) + 1 ELSE 0
        fails == IF ok THEN 0 ELSE Min({h.fail, UnhealthyAfter}) + 1
    IN  [ok |-> oks, fail |-> fails,
         healthy |-> CASE ok /\ oks = HealthyAfter -> TRUE
                       [] ~ok /\ fails = UnhealthyAfter -> FALSE
                       [] OTHER -> h.healthy]

\* One probe of the checker's round, a 2xx within the timeout or anything else.
Probe(p, ok) ==
    /\ strict /\ stage[p] = "serving"
    /\ health' = [health EXCEPT ![p] = HealthRecord(@, ok)]
    /\ passes' = [passes EXCEPT ![p] = Min({@ + (IF ok THEN 1 ELSE 0), HealthyAfter})]
    /\ UNCHANGED <<procVars, strict, balancerVars, spanVars>>

\* Admin::readiness: draining is reported first, then an unhealthy origin.
Ready(p) ==
    /\ stage[p] = "serving"
    /\ since[p] = -1
    /\ strict => health[p].healthy

-----------------------------------------------------------------------------
(* Drain and shutdown *)

\* DrainState::begin: the first instant is kept.
Begun(p) == IF since[p] = -1 THEN 0 ELSE since[p]

\* Pingora broadcasts shutdown: every listener closes, the services get
\* shutdown_timeout.
Broadcast(p, why) ==
    /\ stage' = [stage EXCEPT ![p] = "closing"]
    /\ closeLeft' = [closeLeft EXCEPT ![p] = ShutdownTimeout]
    /\ ended' = [ended EXCEPT ![p] = why]

\* Mutant: every SIGUSR1 restarts the window.
Usr1Restarts(p) ==
    /\ stage[p] = "serving"
    /\ since' = [since EXCEPT ![p] = 0]
    /\ sleep' = [sleep EXCEPT ![p] = IF @ = -1 THEN -1 ELSE DrainPeriod]
    /\ UNCHANGED <<stage, closeLeft, head, ended, strict, checks, balancerVars, spanVars>>

\* DrainWatcher: SIGUSR1 drains without exiting.
Usr1(p) ==
    /\ stage[p] = "serving"
    /\ since' = [since EXCEPT ![p] = Begun(p)]
    /\ UNCHANGED <<stage, sleep, closeLeft, head, ended, strict, checks, balancerVars, spanVars>>

\* Mutant: the window is slept in full after a SIGUSR1 too.
TermFullWindow(p) ==
    /\ stage[p] = "serving" /\ sleep[p] = -1
    /\ since' = [since EXCEPT ![p] = Begun(p)]
    /\ head' = [head EXCEPT ![p] = Begun(p)]
    /\ sleep' = [sleep EXCEPT ![p] = DrainPeriod]
    /\ UNCHANGED <<stage, closeLeft, ended, strict, checks, balancerVars, spanVars>>

\* Mutant: SIGTERM goes straight to Pingora.
TermAtOnce(p) ==
    /\ stage[p] = "serving" /\ sleep[p] = -1
    /\ since' = [since EXCEPT ![p] = Begun(p)]
    /\ head' = [head EXCEPT ![p] = Begun(p)]
    /\ Broadcast(p, "sigterm")
    /\ UNCHANGED <<sleep, strict, checks, balancerVars, spanVars>>

\* prepare on SIGTERM: begin, then sleep for what the window still lacks.
Term(p) ==
    /\ stage[p] = "serving" /\ sleep[p] = -1
    /\ since' = [since EXCEPT ![p] = Begun(p)]
    /\ head' = [head EXCEPT ![p] = Begun(p)]
    /\ IF Begun(p) >= DrainPeriod
       THEN Broadcast(p, "sigterm") /\ UNCHANGED sleep
       ELSE /\ sleep' = [sleep EXCEPT ![p] = DrainPeriod - Begun(p)]
            /\ UNCHANGED <<stage, closeLeft, ended>>
    /\ UNCHANGED <<strict, checks, balancerVars, spanVars>>

\* The sleep ends and the signal reaches Pingora.
WindowOver(p) ==
    /\ stage[p] = "serving" /\ sleep[p] = 0
    /\ Broadcast(p, "sigterm")
    /\ UNCHANGED <<since, sleep, head, strict, checks, balancerVars, spanVars>>

\* Every other signal is returned at once.  SIGINT ends the process there and
\* then; none is read while prepare sleeps.
Interrupt(p) ==
    /\ stage[p] = "serving" /\ sleep[p] = -1
    /\ stage' = [stage EXCEPT ![p] = "exited"]
    /\ ended' = [ended EXCEPT ![p] = "sigint"]
    /\ health' = [health EXCEPT ![p] = Unprobed] /\ UNCHANGED passes
    /\ IF p = "old" THEN SpanKill ELSE UNCHANGED spanVars
    /\ UNCHANGED <<since, sleep, closeLeft, head, strict, balancerVars>>

\* SIGQUIT: the listening sockets go to the process that waits for them.
HandOver ==
    /\ stage["old"] = "serving" /\ sleep["old"] = -1 /\ stage["new"] = "waiting"
    /\ stage' = [old |-> "closing", new |-> "assembling"]
    /\ closeLeft' = [closeLeft EXCEPT !["old"] = ShutdownTimeout]
    /\ ended' = [ended EXCEPT !["old"] = "sigquit"]
    /\ UNCHANGED <<since, sleep, head, strict, checks, balancerVars, spanVars>>

\* shutdown_timeout is a floor: Pingora waits the whole of it, then exits.
Exit(p) ==
    /\ stage[p] = "closing" /\ closeLeft[p] = 0
    /\ stage' = [stage EXCEPT ![p] = "exited"]
    /\ health' = [health EXCEPT ![p] = Unprobed] /\ UNCHANGED passes
    /\ IF p = "old" THEN SpanKill ELSE UNCHANGED spanVars
    /\ UNCHANGED <<since, sleep, closeLeft, head, ended, strict, balancerVars>>

-----------------------------------------------------------------------------
(* The exporter of the process that is replaced, the balancer and time *)

\* A request of the old process ends and records its span.
RequestEnds ==
    /\ stage["old"] \in {"serving", "closing"} /\ Record
    /\ UNCHANGED <<procVars, strict, checks, balancerVars>>

SpanStep ==
    /\ \/ stage["old"] \in {"serving", "closing"} /\ (Receive \/ FlushTick \/ PostReturns)
       \/ stage["old"] = "closing" /\ (CloseChannel \/ DrainStep \/ DrainDeadline)
    /\ UNCHANGED <<procVars, strict, checks, balancerVars>>

Poll ==
    /\ routed' = (\E p \in Procs : Ready(p))
    /\ sincePoll' = 0
    /\ UNCHANGED <<procVars, strict, checks, spanVars>>

Draining(p) == stage[p] = "serving" /\ since[p] # -1

Tick ==
    /\ sincePoll < CheckInterval
    /\ ~ SpanDue /\ ~ (stage["old"] = "closing" /\ mode = "receive")
    /\ \A p \in Procs : /\ stage[p] = "serving" => sleep[p] # 0
                        /\ stage[p] = "closing" => closeLeft[p] # 0
    /\ sincePoll' = sincePoll + 1
    /\ since' = [p \in Procs |-> IF Draining(p) THEN Min({since[p] + 1, SinceCap}) ELSE since[p]]
    /\ sleep' = [p \in Procs |-> IF sleep[p] > 0 THEN sleep[p] - 1 ELSE sleep[p]]
    /\ closeLeft' = [p \in Procs |-> Down(closeLeft[p])]
    /\ SpanTick
    /\ UNCHANGED <<stage, head, ended, strict, checks, routed>>

Next ==
    \/ \E p \in Procs :
        \/ Configure(p) \/ \E upgrade \in BOOLEAN : Bootstrap(p, upgrade)
        \/ BootstrapFails(p) \/ Assemble(p) \/ Listen(p)
        \/ \E ok \in BOOLEAN : Probe(p, ok)
        \/ Usr1(p) \/ Term(p) \/ WindowOver(p) \/ Interrupt(p) \/ Exit(p)
    \/ HandOver \/ RequestEnds \/ SpanStep \/ Poll \/ Tick

\* Timers fire, the balancer keeps polling and the exporter task is scheduled;
\* nothing obliges an operator to start, signal or replace a process.
Fairness ==
    /\ WF_vars(Tick) /\ WF_vars(Poll)
    /\ \A p \in Procs : WF_vars(WindowOver(p)) /\ WF_vars(Exit(p))
    /\ WF_vars(SpanStep)

Spec == Init /\ [][Next]_vars /\ Fairness

-----------------------------------------------------------------------------
\* A process that must not call an unprobed backend healthy is in rotation only
\* after the probes of its own life have passed as often as healthy_after asks.
ProbedBeforeTraffic ==
    strict /\ routed => \E p \in Procs : passes[p] >= HealthyAfter

\* A SIGTERM closes the listeners once readiness has failed for the whole
\* drain period and no later: a head start by SIGUSR1 counts towards it, a
\* second signal does not restart it.
DrainWindowHeld ==
    [][\A p \in Procs :
        stage[p] = "serving" /\ stage'[p] = "closing" /\ ended'[p] = "sigterm"
            => since'[p] = Max({DrainPeriod, head'[p]})]_vars

\* While the balancer sends traffic to the address, a listening socket is open
\* there: through a drained restart because the window outlasts the check
\* interval, through a handover because the sockets change hands.  The
\* exceptions are a SIGINT and a new process that fails after bootstrap.
NobodyRefused ==
    routed => \/ \E p \in Procs : HoldsSockets(p)
              \/ \E p \in Procs : ended[p] = "sigint"
              \/ ended["old"] = "sigquit" /\ stage["new"] = "failed"

\* Once the exporter has returned, every span a request has recorded is in the
\* exported, the failed or the dropped counter: also those that were in the
\* batch or the channel when the shutdown deadline struck, and those recorded
\* by requests that outlive the exporter.
SpansAccounted == mode = "gone" => counted = recorded

\* A process that takes a SIGTERM exits.
Stops == \A p \in Procs : head[p] # -1 ~> stage[p] = "exited"
=============================================================================
