------------------------ MODULE GracefulDegradation ------------------------
(***************************************************************************)
(* GracefulDegradation of internal/diagnostics/graceful_degradation.go:    *)
(* the degradation level, the health indicators it follows, the monitoring *)
(* goroutine, the filter of checks, and the read/write lock all of them    *)
(* share.                                                                  *)
(*                                                                         *)
(* A method that takes the lock once is: wait, hold, act and release.  The *)
(* two methods that call GetCurrentLevel while they hold the lock wait a   *)
(* second time, at "nested".  Values of indicators are counted in          *)
(* thresholds.  Counters that only GetMetrics shows are left out.          *)
(***************************************************************************)
EXTENDS Integers, Sequences, FiniteSets, SequencesExt, FiniteSetsExt

CONSTANTS
    Users,                  \* goroutines that call the exported methods
    Monitor,                \* the goroutine of healthMonitoringLoop
    None,
    Values,                 \* values of each indicator, in units of its threshold
    EnableAutoDetection, ManualOverrideAllowed, DefaultLevel,   \* gd.config
    EnableAutoRecovery,     \* gd.config too; no action reads it, as no code does
    MaxHistory              \* entries kept in gd.levelHistory (100)

Normal == 0
Reduced == 1
Minimal == 2
Emergency == 3
Levels == Normal..Emergency

(* The indicators initializeHealthIndicators installs.                     *)
Indicators == {"error_rate", "response_time", "docker_connectivity",
               "resource_usage", "circuit_breaker_health"}

ASSUME DegradationAssumption ==
    /\ IsFiniteSet(Users) /\ Monitor \notin Users /\ None \notin Users \cup {Monitor}
    /\ \A i \in Indicators : Values[i] \subseteq Nat /\ 0 \in Values[i]
    /\ EnableAutoDetection \in BOOLEAN /\ ManualOverrideAllowed \in BOOLEAN
    /\ EnableAutoRecovery \in BOOLEAN
    /\ DefaultLevel \in Levels /\ MaxHistory \in Nat \ {0}
    /\ None \notin Levels

VARIABLES
    level,          \* gd.currentLevel
    override,       \* gd.manualOverride
    value,          \* Value of each indicator
    stable,         \* StabilityPeriod has passed since lastLevelChange
    history,        \* gd.levelHistory, as <<from, to>>
    stopClosed,     \* gd.stopCh is closed
    panicked,       \* a second close of gd.stopCh ended the process
    op, pc,         \* each goroutine's method and its place in it
    rlocks,         \* read locks each goroutine holds
    pending,        \* the writer that has announced itself, or None
    writer          \* the writer that holds the lock, or None

healthVars == <<level, override, value, stable, history>>
stopVars   == <<stopClosed, panicked>>
lockVars   == <<rlocks, pending, writer>>
gdVars     == <<healthVars, stopVars, op, pc, lockVars>>

Procs == Users \cup {Monitor}
ReadOps == {"level", "status"}
WriteOps == {"update", "clear", "manual"}
NestedOps == {"status", "manual"}

-----------------------------------------------------------------------------
(* The checks registered with the engine, and which of them a level keeps. *)
CriticalSeverity ==
    {"daemon_connectivity", "bridge_network", "ip_forwarding", "iptables"}
RegisteredChecks ==
    CriticalSeverity \cup {"dns_resolution", "internal_dns", "container_connectivity",
        "port_binding", "network_isolation", "mtu_consistency", "subnet_overlap"}

isLowPriorityCheck(k) == k \in {"subnet_overlap", "mtu_consistency"}
isCriticalCheck(k) == k \in {"daemon_connectivity", "bridge_network", "dns_resolution"}
isEssentialCheck(k) == k = "daemon_connectivity"

FaultReducedByName(k, l) ==
    \/ l = Normal
    \/ l = Reduced /\ isCriticalCheck(k)
    \/ l = Minimal /\ (k \in CriticalSeverity \/ isCriticalCheck(k))
    \/ l = Emergency /\ isEssentialCheck(k)

shouldExecuteCheck(k, l) ==
    \/ l = Normal
    \/ l = Reduced /\ ~isLowPriorityCheck(k)
    \/ l = Minimal /\ (k \in CriticalSeverity \/ isCriticalCheck(k))
    \/ l = Emergency /\ isEssentialCheck(k)

FilterChecks(l) == {k \in RegisteredChecks : shouldExecuteCheck(k, l)}

-----------------------------------------------------------------------------
(* Health.  An indicator scores 2 up to its threshold, 0 from three times  *)
(* the threshold on; a critical one weighs double.                         *)
Critical(i) == value[i] >= 1
IndicatorScore(i) == IF value[i] <= 1 THEN 2 ELSE IF value[i] = 2 THEN 1 ELSE 0
Weight(i) == IF Critical(i) THEN 2 ELSE 1

(* calculateHealthScore() >= tenths / 10                                   *)
HealthScoreAtLeast(tenths) ==
    LET weighted(i) == IndicatorScore(i) * Weight(i)
    IN  10 * SumFunction([i \in Indicators |-> weighted(i)])
            >= 2 * tenths * SumFunction([i \in Indicators |-> Weight(i)])

allIndicatorsHealthy == \A i \in Indicators : ~Critical(i)
criticalIndicatorsHealthy ==
    \A i \in Indicators \cap {"docker_connectivity", "error_rate"} : ~Critical(i)

determineAppropriateLevel ==
    IF HealthScoreAtLeast(8) /\ allIndicatorsHealthy THEN Normal
    ELSE IF HealthScoreAtLeast(6) /\ criticalIndicatorsHealthy THEN Reduced
    ELSE IF HealthScoreAtLeast(3) THEN Minimal
    ELSE Emergency

CurrentLevel == IF override # None THEN override ELSE level

FaultTrimsNewest(from, to) ==
    history' = IF Len(history) < MaxHistory THEN Append(history, <<from, to>>)
               ELSE history

recordTransition(from, to) ==
    LET h == Append(history, <<from, to>>)
    IN  history' = IF Len(h) > MaxHistory
                   THEN SubSeq(h, Len(h) - MaxHistory + 1, Len(h)) ELSE h

changeDegradationLevel(l) ==
    /\ level' = l
    /\ stable' = FALSE
    /\ recordTransition(level, l)
    /\ UNCHANGED <<override, value>>

-----------------------------------------------------------------------------
(* sync.RWMutex: a writer first shuts out new readers, then waits for the  *)
(* readers that hold the lock.                                             *)
CanRead == writer = None /\ pending = None
CanAnnounce == writer = None /\ pending = None
Home(p) == IF p = Monitor THEN "loop" ELSE "idle"
Running == ~panicked /\ UNCHANGED panicked

Goto(p, place) == pc' = [pc EXCEPT ![p] = place]

Leave(p) ==
    /\ Goto(p, Home(p))
    /\ op' = [op EXCEPT ![p] = "none"]

Unlock(p) == writer' = None /\ UNCHANGED <<rlocks, pending>> /\ Leave(p)

(* NewGracefulDegradation.                                                 *)
Init ==
    /\ level = DefaultLevel /\ override = None
    /\ value = [i \in Indicators |-> 0]
    /\ stable = FALSE /\ history = <<>>
    /\ stopClosed = FALSE /\ panicked = FALSE
    /\ op = [p \in Procs |-> "none"]
    /\ pc = [p \in Procs |-> IF p \in Users THEN "idle"
                             ELSE IF EnableAutoDetection THEN "loop" ELSE "gone"]
    /\ rlocks = [p \in Procs |-> 0]
    /\ pending = None /\ writer = None

(* A user calls a method; SetManualLevel returns at once if not allowed.   *)
Call(p, o) ==
    /\ Running
    /\ pc[p] = "idle"
    /\ o = "manual" => ManualOverrideAllowed
    /\ op' = [op EXCEPT ![p] = o]
    /\ Goto(p, IF o \in ReadOps THEN "rlock" ELSE "lock")
    /\ UNCHANGED <<healthVars, stopClosed, lockVars>>

(* healthMonitoringLoop: the ticker fired.                                 *)
Tick ==
    /\ Running
    /\ pc[Monitor] = "loop"
    /\ op' = [op EXCEPT ![Monitor] = "health"]
    /\ Goto(Monitor, "lock")
    /\ UNCHANGED <<healthVars, stopClosed, lockVars>>

MonitorExit ==
    /\ Running
    /\ pc[Monitor] = "loop" /\ stopClosed
    /\ Goto(Monitor, "gone")
    /\ UNCHANGED <<healthVars, stopClosed, op, lockVars>>

RLock(p) ==
    /\ Running
    /\ pc[p] = "rlock" /\ CanRead
    /\ rlocks' = [rlocks EXCEPT ![p] = @ + 1]
    /\ Goto(p, IF op[p] = "status" THEN "nested" ELSE "reading")
    /\ UNCHANGED <<healthVars, stopClosed, op, pending, writer>>

(* GetCurrentLevel called with the lock held.  GetDegradationStatus goes   *)
(* on to its deferred RUnlock; SetManualLevel would set the override.      *)
NestedRead(p) ==
    /\ Running
    /\ pc[p] = "nested" /\ CanRead
    /\ IF op[p] = "manual"
       THEN /\ \E l \in Levels : override' = l /\ recordTransition(CurrentLevel, l)
            /\ UNCHANGED <<level, value, stable>>
            /\ Unlock(p)
       ELSE Goto(p, "reading") /\ UNCHANGED <<healthVars, op, lockVars>>
    /\ UNCHANGED stopClosed

RUnlock(p) ==
    /\ Running
    /\ pc[p] = "reading"
    /\ rlocks' = [rlocks EXCEPT ![p] = @ - 1]
    /\ Leave(p)
    /\ UNCHANGED <<healthVars, stopClosed, pending, writer>>

LockAnnounce(p) ==
    /\ Running
    /\ pc[p] = "lock" /\ CanAnnounce
    /\ pending' = p
    /\ Goto(p, "pending")
    /\ UNCHANGED <<healthVars, stopClosed, op, rlocks, writer>>

LockAcquire(p) ==
    /\ Running
    /\ pc[p] = "pending" /\ \A q \in Procs : rlocks[q] = 0
    /\ pending' = None /\ writer' = p
    /\ Goto(p, IF op[p] = "manual" THEN "nested" ELSE "writing")
    /\ UNCHANGED <<healthVars, stopClosed, op, rlocks>>

UpdateHealthIndicator(p) ==
    /\ Running
    /\ pc[p] = "writing" /\ op[p] = "update"
    /\ \E i \in Indicators : \E v \in Values[i] : value' = [value EXCEPT ![i] = v]
    /\ Unlock(p)
    /\ UNCHANGED <<level, override, stable, history, stopClosed>>

ClearManualOverride(p) ==
    /\ Running
    /\ pc[p] = "writing" /\ op[p] = "clear"
    /\ IF override # None /\ override # determineAppropriateLevel
       THEN /\ level' = determineAppropriateLevel
            /\ recordTransition(override, determineAppropriateLevel)
       ELSE UNCHANGED <<level, history>>
    /\ override' = None
    /\ Unlock(p)
    /\ UNCHANGED <<value, stable, stopClosed>>

FaultOnlyWorsens ==
    /\ Running
    /\ pc[Monitor] = "writing"
    /\ IF override = None /\ determineAppropriateLevel > level /\ stable
       THEN changeDegradationLevel(determineAppropriateLevel)
       ELSE UNCHANGED healthVars
    /\ Unlock(Monitor)
    /\ UNCHANGED stopClosed

FaultEarlyReturnKeepsLock ==
    /\ Running
    /\ pc[Monitor] = "writing"
    /\ IF override = None /\ determineAppropriateLevel # level /\ stable
       THEN /\ changeDegradationLevel(determineAppropriateLevel)
            /\ Unlock(Monitor)
       ELSE /\ Leave(Monitor)
            /\ UNCHANGED <<healthVars, lockVars>>
    /\ UNCHANGED stopClosed

performHealthCheck ==
    /\ Running
    /\ pc[Monitor] = "writing"
    /\ IF override = None /\ determineAppropriateLevel # level /\ stable
       THEN changeDegradationLevel(determineAppropriateLevel)
       ELSE UNCHANGED healthVars
    /\ Unlock(Monitor)
    /\ UNCHANGED stopClosed

StabilityElapses ==
    /\ Running
    /\ ~stable
    /\ stable' = TRUE
    /\ UNCHANGED <<level, override, value, history, stopClosed, op, pc, lockVars>>

(* Stop looks at the channel, then closes it.                              *)
StopLook(p) ==
    /\ Running
    /\ pc[p] = "idle" /\ ~stopClosed
    /\ Goto(p, "stopping")
    /\ UNCHANGED <<healthVars, stopClosed, op, lockVars>>

StopClose(p) ==
    /\ ~panicked
    /\ pc[p] = "stopping"
    /\ stopClosed' = TRUE
    /\ panicked' = stopClosed
    /\ Goto(p, "idle")
    /\ UNCHANGED <<healthVars, op, lockVars>>

-----------------------------------------------------------------------------
UserStep(p) == \/ RLock(p) \/ NestedRead(p) \/ RUnlock(p)
               \/ LockAnnounce(p) \/ LockAcquire(p)
               \/ UpdateHealthIndicator(p) \/ ClearManualOverride(p)
               \/ StopClose(p)
MonitorStep == \/ Tick \/ LockAnnounce(Monitor) \/ LockAcquire(Monitor)
               \/ performHealthCheck

Next ==
    \/ \E p \in Users, o \in ReadOps \cup WriteOps : Call(p, o)
    \/ \E p \in Users : StopLook(p) \/ UserStep(p)
    \/ MonitorStep \/ MonitorExit
    \/ StabilityElapses

(* Waiters of the lock are served in turn, and the ticker and the clock go *)
(* on.  A goroutine has one step at a time to take.                        *)
Fairness ==
    /\ \A p \in Users : SF_gdVars(UserStep(p))
    /\ SF_gdVars(MonitorStep)
    /\ WF_gdVars(StabilityElapses)

Spec == Init /\ [][Next]_gdVars /\ Fairness

-----------------------------------------------------------------------------
TypeOK ==
    /\ level \in Levels /\ override \in Levels \cup {None}
    /\ value \in [Indicators -> Nat]
    /\ \A i \in Indicators : value[i] \in Values[i]
    /\ stable \in BOOLEAN /\ stopClosed \in BOOLEAN /\ panicked \in BOOLEAN
    /\ history \in Seq(Levels \X Levels) /\ Len(history) <= MaxHistory
    /\ op \in [Procs -> {"none", "health"} \cup ReadOps \cup WriteOps]
    /\ pc \in [Procs -> {"idle", "loop", "gone", "rlock", "nested", "reading",
                         "lock", "pending", "writing", "stopping"}]
    /\ rlocks \in [Procs -> 0..1]
    /\ pending \in Procs \cup {None} /\ writer \in Procs \cup {None}

(* The recorded transitions form a chain that ends at the level in force:  *)
(* no change of level escapes recordTransition, whatever the trimming.     *)
(* The state is well typed, the history within its limit.                  *)
HistoryChains ==
    /\ TypeOK
    /\ \A i \in 1..Len(history) - 1 : history[i][2] = history[i + 1][1]
    /\ history # <<>> => Last(history)[2] = CurrentLevel

(* A worse level never admits a check that a better one leaves out, and    *)
(* even EMERGENCY keeps the daemon check (shouldExecuteCheck).             *)
FilterNarrows ==
    /\ \A l \in Normal..Minimal : FilterChecks(l + 1) \subseteq FilterChecks(l)
    /\ "daemon_connectivity" \in FilterChecks(CurrentLevel)

SelfBlocked(p) == pc[p] = "nested" /\ ~CanRead /\ (writer = p \/ pending # None)

(* No goroutine waits for the lock behind itself, as the type's promise    *)
(* "safe for concurrent use" needs.                                        *)
NoSelfDeadlock == \A p \in Procs : ~SelfBlocked(p)

NoNestedCalls == ~panicked /\ \A p \in Procs : op[p] \notin NestedOps

(* While nobody is in GetDegradationStatus or SetManualLevel, every call   *)
(* gets the lock and returns: the nested acquisitions are the only way to  *)
(* hang.                                                                   *)
LockServed ==
    []NoNestedCalls => \A p \in Users : pc[p] # "idle" ~> pc[p] = "idle"

(* Once the indicators are left alone, the level comes to be at least as   *)
(* degraded as they ask for and, where EnableAutoRecovery allows it to     *)
(* improve, no more than that; it stays there.  The stability period       *)
(* delays a change but never loses it.                                     *)
LevelFollowsHealth ==
    /\ [](NoNestedCalls /\ ~stopClosed)
    /\ <>[](\A p \in Users : op[p] # "update")
    => <>[](/\ level >= determineAppropriateLevel
            /\ EnableAutoRecovery => level <= determineAppropriateLevel)

(* EnableAutoRecovery: "Allow automatic level improvement".  The monitor   *)
(* improves the level only if the configuration allows it.                 *)
ImprovesOnlyIfAllowed ==
    [][level' < level => EnableAutoRecovery]_gdVars
=============================================================================
