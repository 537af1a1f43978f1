--------------------- MODULE GracefulDegradationProofs ---------------------
(***************************************************************************)
(* Safety of the degradation manager for any number of users, any values   *)
(* of the indicators and any length of the history.  The lock excludes     *)
(* writers, which makes the history a chain, and its nested acquisition in *)
(* SetManualLevel keeps an override from ever being set.                   *)
(***************************************************************************)
EXTENDS GracefulDegradation, SequenceTheorems, TLAPS

Places == {"idle", "loop", "gone", "rlock", "nested", "reading",
           "lock", "pending", "writing", "stopping"}
Ops == {"none", "health"} \cup ReadOps \cup WriteOps

LockTypeOK ==
    /\ op \in [Procs -> Ops]
    /\ pc \in [Procs -> Places]
    /\ rlocks \in [Procs -> 0..1]
    /\ pending \in Procs \cup {None} /\ writer \in Procs \cup {None}
    /\ stopClosed \in BOOLEAN /\ panicked \in BOOLEAN

(* The places in which a goroutine holds the lock.                         *)
Reads(p) == pc[p] = "reading" \/ (pc[p] = "nested" /\ op[p] # "manual")
Writes(p) == pc[p] = "writing" \/ (pc[p] = "nested" /\ op[p] = "manual")

(* The lock knows who holds it, and an announced writer is alone.          *)
LockExact ==
    /\ \A p \in Procs :
         /\ rlocks[p] = IF Reads(p) THEN 1 ELSE 0
         /\ Writes(p) <=> writer = p
         /\ pc[p] = "pending" <=> pending = p
         /\ pc[p] = "rlock" => op[p] # "manual"
    /\ pending # None => writer = None

HealthTypeOK ==
    /\ level \in Levels
    /\ \A i \in Indicators : value[i] \in Values[i]
    /\ value \in [Indicators -> Nat]
    /\ stable \in BOOLEAN

(* What HistoryChains says of the history while no override is in force.   *)
Chained(h, l) ==
    /\ h \in Seq(Levels \X Levels) /\ Len(h) <= MaxHistory
    /\ \A i \in 1 .. Len(h) - 1 : h[i][2] = h[i + 1][1]
    /\ h # <<>> => h[Len(h)][2] = l

NoOverride == override = None

(* The inductive invariant.                                                *)
IInv == LockTypeOK /\ LockExact /\ HealthTypeOK /\ NoOverride /\ Chained(history, level)

-----------------------------------------------------------------------------
(* The level the indicators ask for is one of the four.                    *)
LEMMA AppropriateLevelTyped == determineAppropriateLevel \in Levels
  BY DEF determineAppropriateLevel, Levels, Normal, Reduced, Minimal, Emergency

(* A recorded transition from the level in force extends the chain, also   *)
(* when it drops the oldest entry.                                         *)
LEMMA TransitionExtendsChain ==
    ASSUME NEW from \in Levels, NEW to \in Levels, Chained(history, from),
           recordTransition(from, to)
    PROVE  Chained(history', to)
<1> DEFINE tr == <<from, to>>
           h == Append(history, tr)
           Transitions == Levels \X Levels
<1>1. history \in Seq(Transitions) /\ Len(history) \in Nat /\ tr \in Transitions
  BY LenProperties DEF Chained
<1>2. /\ h \in Seq(Transitions) /\ Len(h) = Len(history) + 1 /\ h # <<>>
      /\ \A i \in 1 .. Len(history) : h[i] = history[i]
      /\ h[Len(history) + 1] = tr
  <2> HIDE DEF tr, Transitions
  <2> QED
    BY <1>1, AppendProperties
<1>3. h[Len(h)][2] = to /\ h[Len(h)][1] = from
  BY <1>2
<1>4. \A i \in 1 .. Len(h) - 1 : h[i][2] = h[i + 1][1]
  <2> SUFFICES ASSUME NEW i \in 1 .. Len(h) - 1 PROVE h[i][2] = h[i + 1][1]
    OBVIOUS
  <2> HIDE DEF h
  <2>1. CASE i < Len(history)
    <3>1. i \in 1 .. Len(history) - 1 /\ i + 1 \in 1 .. Len(history)
      BY <1>1, <2>1
    <3>2. history[i][2] = history[i + 1][1]
      BY <3>1 DEF Chained
    <3> QED
      BY <1>1, <1>2, <3>1, <3>2
  <2>2. CASE i = Len(history)
    <3>1. history # <<>>
      BY <1>1, <1>2, <2>2, EmptySeq
    <3>2. h[i] = history[Len(history)] /\ history[Len(history)][2] = from
      BY <1>1, <1>2, <2>2, <3>1 DEF Chained
    <3>3. h[i + 1][1] = from
      BY <1>2, <1>3, <2>2
    <3> QED
      BY <3>2, <3>3
  <2> QED
    BY <1>1, <1>2, <2>1, <2>2
<1>5. MaxHistory \in Nat \ {0}
  BY DegradationAssumption
<1>6. CASE Len(h) > MaxHistory
  <2> DEFINE m == Len(h) - MaxHistory + 1
  <2>1. history' = SubSeq(h, m, Len(h))
    BY <1>6 DEF recordTransition
  <2>2. Len(h) \in Nat /\ m \in 1 .. Len(h)
    BY <1>1, <1>2, <1>5, <1>6
  <2>3. \A i \in m .. Len(h) : h[i] \in Transitions
    BY <1>2, <2>2, ElementOfSeq
  <2> HIDE DEF h
  <2>4. /\ history' \in Seq(Levels \X Levels) /\ Len(history') = MaxHistory
        /\ \A i \in 1 .. MaxHistory : history'[i] = h[m + i - 1]
    BY <1>5, <2>1, <2>2, <2>3, SubSeqProperties
  <2>5. ASSUME NEW i \in 1 .. Len(history') - 1
        PROVE  history'[i][2] = history'[i + 1][1]
    <3>1. history'[i] = h[m + i - 1] /\ history'[i + 1] = h[m + i]
      BY <1>5, <2>2, <2>4
    <3>2. m + i - 1 \in 1 .. Len(h) - 1 /\ m + i = (m + i - 1) + 1
      BY <1>5, <2>2, <2>4
    <3> QED
      BY <1>4, <3>1, <3>2
  <2>6. history'[Len(history')][2] = to
    <3>1. MaxHistory \in 1 .. MaxHistory /\ m + MaxHistory - 1 = Len(h)
      BY <1>5, <2>2
    <3>2. history'[MaxHistory] = h[Len(h)]
      BY <2>4, <3>1
    <3> QED
      BY <1>3, <2>4, <3>2
  <2> QED
    BY <1>5, <2>4, <2>5, <2>6 DEF Chained
<1>7. CASE ~(Len(h) > MaxHistory)
  <2>1. history' = h
    BY <1>7 DEF recordTransition
  <2> HIDE DEF h
  <2> QED
    BY <1>1, <1>2, <1>3, <1>4, <1>5, <1>7, <2>1 DEF Chained
<1> QED
  BY <1>6, <1>7

-----------------------------------------------------------------------------
LEMMA InitIInv == Init => IInv
<1> SUFFICES ASSUME Init PROVE IInv
  OBVIOUS
<1>1. LockTypeOK
  <2>1. pc \in [Procs -> Places]
    BY DEF Init, Places, Procs
  <2>2. op \in [Procs -> Ops]
    BY DEF Init, Ops
  <2>3. rlocks \in [Procs -> 0..1]
    BY DEF Init
  <2> QED
    BY <2>1, <2>2, <2>3 DEF Init, LockTypeOK
<1>2. LockExact
  BY DegradationAssumption DEF Init, LockExact, Reads, Writes, Procs
<1>3. HealthTypeOK /\ NoOverride
  BY DegradationAssumption DEF Init, HealthTypeOK, NoOverride
<1>4. Chained(history, level)
  BY DegradationAssumption, EmptySeq DEF Init, Chained
<1> QED
  BY <1>1, <1>2, <1>3, <1>4 DEF IInv

(* The lock stays exact: a goroutine that moves from place to place takes  *)
(* and gives back exactly what the place says.                             *)
LEMMA NextKeepsLock ==
    ASSUME IInv, Next
    PROVE  LockTypeOK' /\ LockExact'
<1> USE DegradationAssumption DEF IInv, LockTypeOK, LockExact, Reads, Writes, Goto, Procs,
        lockVars, Running
<1>1. ASSUME NEW p \in Users, NEW o \in ReadOps \cup WriteOps, Call(p, o)
      PROVE  LockTypeOK' /\ LockExact'
  BY <1>1 DEF Call, Places, Ops, ReadOps, WriteOps
<1>2. ASSUME NEW p \in Users, StopLook(p) PROVE LockTypeOK' /\ LockExact'
  BY <1>2 DEF StopLook, Places
<1>3. ASSUME NEW p \in Users, RLock(p) PROVE LockTypeOK' /\ LockExact'
  BY <1>3 DEF RLock, CanRead, Places
<1>4. ASSUME NEW p \in Users, NestedRead(p) PROVE LockTypeOK' /\ LockExact'
  BY <1>4 DEF NestedRead, CanRead, Places
<1>5. ASSUME NEW p \in Users, RUnlock(p) PROVE LockTypeOK' /\ LockExact'
  BY <1>5 DEF RUnlock, Leave, Home, Places, Ops
<1>6. ASSUME NEW p \in Procs, LockAnnounce(p) PROVE LockTypeOK' /\ LockExact'
  BY <1>6 DEF LockAnnounce, CanAnnounce, Places
<1>7. ASSUME NEW p \in Procs, LockAcquire(p) PROVE LockTypeOK' /\ LockExact'
  BY <1>7 DEF LockAcquire, Places
<1>8. ASSUME NEW p \in Procs, pc[p] = "writing", Unlock(p), UNCHANGED <<stopClosed, panicked>>
      PROVE  LockTypeOK' /\ LockExact'
  BY <1>8 DEF Unlock, Leave, Home, Places, Ops
<1>9. ASSUME NEW p \in Users, StopClose(p) PROVE LockTypeOK' /\ LockExact'
  BY <1>9 DEF StopClose, Places
<1>10. CASE Tick \/ MonitorExit
  BY <1>10 DEF Tick, MonitorExit, Places, Ops
<1>11. CASE StabilityElapses
  BY <1>11 DEF StabilityElapses
<1>12. ASSUME NEW p \in Users, UpdateHealthIndicator(p) \/ ClearManualOverride(p)
       PROVE  LockTypeOK' /\ LockExact'
  BY <1>8, <1>12 DEF UpdateHealthIndicator, ClearManualOverride
<1>13. CASE performHealthCheck
  BY <1>8, <1>13 DEF performHealthCheck
<1> QED
  BY <1>1, <1>2, <1>3, <1>4, <1>5, <1>6, <1>7, <1>9, <1>10, <1>11, <1>12, <1>13
     DEF Next, UserStep, MonitorStep

(* The level, the override and the history stay in step.                   *)
LEMMA NextKeepsHealth ==
    ASSUME IInv, Next
    PROVE  HealthTypeOK' /\ NoOverride' /\ Chained(history', level')
<1> USE DEF IInv
<1>1. CASE UNCHANGED <<level, override, history>> /\ HealthTypeOK'
  BY <1>1 DEF NoOverride, Chained
<1>2. CASE UNCHANGED healthVars
  BY <1>2 DEF HealthTypeOK, NoOverride, Chained, healthVars
<1>3. ASSUME NEW p \in Users, NestedRead(p) PROVE UNCHANGED healthVars
  <2>1. op[p] # "manual"
    BY <1>3, DegradationAssumption DEF NestedRead, CanRead, LockExact, Writes, Procs
  <2> QED
    BY <1>3, <2>1 DEF NestedRead
<1>4. ASSUME NEW p \in Users, UpdateHealthIndicator(p)
      PROVE  UNCHANGED <<level, override, history>> /\ HealthTypeOK'
  <2>1. PICK i \in Indicators : \E v \in Values[i] : value' = [value EXCEPT ![i] = v]
    BY <1>4 DEF UpdateHealthIndicator
  <2>2. PICK v \in Values[i] : value' = [value EXCEPT ![i] = v]
    BY <2>1
  <2>3. v \in Nat
    BY <2>2, DegradationAssumption
  <2> QED
    BY <1>4, <2>2, <2>3 DEF UpdateHealthIndicator, HealthTypeOK
<1>5. ASSUME NEW p \in Users, ClearManualOverride(p)
      PROVE  UNCHANGED <<level, override, history>> /\ HealthTypeOK'
  BY <1>5 DEF ClearManualOverride, NoOverride, HealthTypeOK
<1>6. CASE StabilityElapses
  BY <1>1, <1>6 DEF StabilityElapses, HealthTypeOK
<1>7. CASE performHealthCheck
  <2>1. CASE changeDegradationLevel(determineAppropriateLevel)
    <3>1. /\ level' = determineAppropriateLevel /\ level \in Levels /\ level' \in Levels
          /\ recordTransition(level, determineAppropriateLevel)
      BY <2>1, AppropriateLevelTyped DEF changeDegradationLevel, HealthTypeOK
    <3>2. Chained(history', level')
      BY <3>1, TransitionExtendsChain
    <3> QED
      BY <2>1, <3>1, <3>2 DEF changeDegradationLevel, HealthTypeOK, NoOverride
  <2> QED
    BY <1>2, <1>7, <2>1 DEF performHealthCheck
<1>8. ASSUME NEW p \in Users,
             \/ \E o \in ReadOps \cup WriteOps : Call(p, o)
             \/ StopLook(p) \/ RLock(p) \/ RUnlock(p) \/ LockAnnounce(p)
             \/ LockAcquire(p) \/ StopClose(p)
      PROVE  UNCHANGED healthVars
  BY <1>8 DEF Call, StopLook, RLock, RUnlock, LockAnnounce, LockAcquire, StopClose
<1>9. CASE Tick \/ LockAnnounce(Monitor) \/ LockAcquire(Monitor) \/ MonitorExit
  BY <1>2, <1>9 DEF Tick, LockAnnounce, LockAcquire, MonitorExit
<1> QED
  BY <1>1, <1>2, <1>3, <1>4, <1>5, <1>6, <1>7, <1>8, <1>9 DEF Next, UserStep, MonitorStep

LEMMA NextIInv == IInv /\ [Next]_gdVars => IInv'
<1>1. ASSUME IInv, Next PROVE IInv'
  BY <1>1, NextKeepsLock, NextKeepsHealth DEF IInv
<1>2. ASSUME IInv, UNCHANGED gdVars PROVE IInv'
  BY <1>2 DEF IInv, LockTypeOK, LockExact, Reads, Writes, HealthTypeOK, NoOverride, Chained,
              gdVars, healthVars, stopVars, lockVars
<1> QED
  BY <1>1, <1>2

LEMMA Inductive == Spec => []IInv
  BY InitIInv, NextIInv, PTL DEF Spec

-----------------------------------------------------------------------------
(* The transitions in levelHistory form a chain that ends at the level in  *)
(* force, whatever is trimmed (changeDegradationLevel, recordTransition).  *)
THEOREM HistoryAlwaysChains == Spec => []HistoryChains
<1>1. ASSUME IInv PROVE HistoryChains
  <2>1. TypeOK
    BY <1>1 DEF IInv, LockTypeOK, HealthTypeOK, NoOverride, Chained, TypeOK, Places, Ops
  <2>2. CurrentLevel = level
    BY <1>1 DEF IInv, NoOverride, CurrentLevel
  <2> QED
    BY <1>1, <2>1, <2>2 DEF IInv, Chained, HistoryChains, Last
<1> QED
  BY <1>1, Inductive, PTL

(* A worse level keeps fewer checks, and the daemon check always stays     *)
(* (shouldExecuteCheck).                                                   *)
THEOREM FilterAlwaysNarrows == Spec => []FilterNarrows
<1> USE DEF FilterChecks, shouldExecuteCheck, RegisteredChecks, CriticalSeverity,
        isLowPriorityCheck, isCriticalCheck, isEssentialCheck, Normal, Reduced, Minimal,
        Emergency
<1>1. \A l \in Normal .. Minimal : FilterChecks(l + 1) \subseteq FilterChecks(l)
  <2>1. FilterChecks(1) \subseteq FilterChecks(0) /\ FilterChecks(2) \subseteq FilterChecks(1)
    OBVIOUS
  <2>2. FilterChecks(3) \subseteq FilterChecks(2)
    OBVIOUS
  <2> HIDE DEF FilterChecks
  <2> QED
    BY <2>1, <2>2
<1>2. \A l \in Levels : "daemon_connectivity" \in FilterChecks(l)
  BY DEF Levels
<1>3. ASSUME IInv PROVE FilterNarrows
  <2>1. CurrentLevel \in Levels
    BY <1>3 DEF IInv, NoOverride, CurrentLevel, HealthTypeOK
  <2> HIDE DEF FilterChecks
  <2> QED
    BY <1>1, <1>2, <2>1 DEF FilterNarrows
<1> QED
  BY <1>3, Inductive, PTL

(* No manual override ever takes effect: SetManualLevel waits behind its   *)
(* own write lock before it comes to set one.                              *)
THEOREM ManualOverrideNeverSet == Spec => [](override = None)
  BY Inductive, PTL DEF IInv, NoOverride
=============================================================================
