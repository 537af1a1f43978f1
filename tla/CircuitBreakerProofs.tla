------------------------ MODULE CircuitBreakerProofs ------------------------
(***************************************************************************)
(* Safety of the circuit breaker for any number of callers, any set of     *)
(* configurations and any bounds.                                          *)
(***************************************************************************)
EXTENDS CircuitBreaker, FiniteSetTheorems, TLAPS

(* The probes admitted since the circuit became half-open are either       *)
(* counted as successes or still running (calls admitted earlier may be    *)
(* running too), and fewer successes are counted than some configuration   *)
(* asks for, the current one if no operator has interfered.                *)
ProbesAccounted ==
    state = "HALF_OPEN" =>
        /\ halfOpenRequestCount <= successCount + Cardinality(Running)
        /\ \E c \in Configs : successCount < c.ConsecutiveSuccesses
        /\ adminOps = 0 => successCount < config.ConsecutiveSuccesses

(* The inductive invariant.                                                *)
IInv ==
    /\ TypeOK
    /\ CountersNested
    /\ ClosedBelowThreshold
    /\ HistoryBalanced
    /\ ProbeLimit
    /\ ProbesAccounted

-----------------------------------------------------------------------------
(* The number of running calls is a natural number.                        *)
LEMMA RunningFinite == IsFiniteSet(Running) /\ Cardinality(Running) \in Nat
<1>1. IsFiniteSet(Running)
  BY FS_Subset, BreakerAssumption DEF Running
<1> QED
  BY <1>1, FS_CardinalityType

(* Admitting an idle caller adds one running call.                         *)
LEMMA AdmitAddsOne ==
    ASSUME pc \in [Callers -> {"idle", "running"}],
           NEW c \in Callers, pc[c] = "idle", Admit(c)
    PROVE  Cardinality(Running') = Cardinality(Running) + 1
<1>1. Running' = Running \cup {c}
  BY DEF Running, Admit
<1>2. c \notin Running
  BY DEF Running
<1> QED
  BY <1>1, <1>2, RunningFinite, FS_AddElement

(* Recording a result removes one running call.                            *)
LEMMA RecordRemovesOne ==
    ASSUME pc \in [Callers -> {"idle", "running"}],
           NEW c \in Callers, pc[c] = "running",
           pc' = [pc EXCEPT ![c] = "idle"]
    PROVE  /\ Cardinality(Running') = Cardinality(Running) - 1
           /\ Cardinality(Running') \in Nat
<1>1. Running' = Running \ {c}
  BY DEF Running
<1>2. c \in Running
  BY DEF Running
<1>3. Cardinality(Running') = Cardinality(Running) - 1
  BY <1>1, <1>2, RunningFinite, FS_RemoveElement
<1>4. IsFiniteSet(Running')
  BY <1>1, RunningFinite, FS_Subset
<1> QED
  BY <1>3, <1>4, FS_CardinalityType

(* What is assumed of a configuration, spelled out.                        *)
LEMMA ConfigFacts ==
    ASSUME NEW c \in Configs
    PROVE  /\ c.FailureThreshold \in Nat
           /\ c.ConsecutiveSuccesses \in Nat /\ c.ConsecutiveSuccesses > 0
           /\ c.HalfOpenMaxRequests \in Nat /\ c.HalfOpenMaxRequests > 0
<1>1. c \in ConfigType
  BY BreakerAssumption
<1> QED
  BY <1>1, BreakerAssumption DEF ConfigType

(* The fields every transition writes, as a transition into s leaves them. *)
Entered(s) ==
    /\ state' = s
    /\ recoveryDue' \in BOOLEAN
    /\ stateTransitions' \in [States -> Nat]
    /\ stateTransitions'[s] = stateTransitions[s] + 1
    /\ \A t \in States : t # s => stateTransitions'[t] = stateTransitions[t]

(* Enter leaves those fields well typed and counts one transition into s.  *)
LEMMA EnterFacts ==
    ASSUME TypeOK, NEW s \in States, Enter(s)
    PROVE  Entered(s)
<1>1. stateTransitions \in [States -> Nat]
  BY DEF TypeOK
<1>2. stateTransitions' = [stateTransitions EXCEPT ![s] = @ + 1]
  BY DEF Enter
<1>3. stateTransitions[s] + 1 \in Nat
  BY <1>1
<1>4. stateTransitions' \in [States -> Nat]
  BY <1>1, <1>2, <1>3
<1> QED
  BY <1>1, <1>2, <1>4 DEF Enter, Entered

(* The three states, as facts about membership.                            *)
LEMMA StateNames ==
    /\ "CLOSED" \in States /\ "OPEN" \in States /\ "HALF_OPEN" \in States
    /\ "CLOSED" # "OPEN" /\ "OPEN" # "HALF_OPEN" /\ "CLOSED" # "HALF_OPEN"
  BY DEF States

-----------------------------------------------------------------------------
(* A new breaker satisfies the invariant.                                  *)
LEMMA InitIInv == Init => IInv
<1> SUFFICES ASSUME Init PROVE IInv
  OBVIOUS
<1> USE DEF Init
<1>1. TypeOK
  BY DEF TypeOK, States
<1>2. ClosedBelowThreshold
  BY ConfigFacts DEF ClosedBelowThreshold
<1> QED
  BY <1>1, <1>2 DEF IInv, CountersNested, HistoryBalanced, ProbeLimit,
                    ProbesAccounted, States

(* CanExecute preserves the invariant.                                     *)
LEMMA CanExecuteIInv ==
    ASSUME IInv, NEW c \in Callers, CanExecute(c)
    PROVE  IInv'
<1> USE DEF IInv, CanExecute, counts, probes, Stay
<1>1. CASE CanExecuteClosed(c)
  <2> USE <1>1 DEF CanExecuteClosed, resetFailureCount, Admit
  <2>1. TypeOK'
    BY DEF TypeOK
  <2>2. CountersNested'
    BY DEF TypeOK, CountersNested
  <2>3. ClosedBelowThreshold'
    BY ConfigFacts DEF TypeOK, ClosedBelowThreshold
  <2> QED
    BY <2>1, <2>2, <2>3 DEF TypeOK, HistoryBalanced, ProbeLimit, ProbesAccounted
<1>2. CASE CanExecuteOpen(c)
  <2>1. CASE recoveryDue
    <3> USE <1>2, <2>1 DEF CanExecuteOpen, transitionToHalfOpen
    <3>e. Entered("HALF_OPEN")
      BY EnterFacts, StateNames
    <3>1. TypeOK'
      BY <3>e, StateNames DEF Entered, TypeOK, Admit
    <3>2. Cardinality(Running') = Cardinality(Running) + 1
      BY AdmitAddsOne DEF TypeOK
    <3>3. ProbesAccounted'
      BY <3>2, RunningFinite, ConfigFacts DEF TypeOK, ProbesAccounted
    <3>4. ProbeLimit'
      BY ConfigFacts DEF TypeOK, ProbeLimit
    <3>5. HistoryBalanced'
      BY <3>e, StateNames DEF Entered, TypeOK, HistoryBalanced
    <3> QED
      BY <3>e, <3>1, <3>3, <3>4, <3>5
      DEF Entered, TypeOK, CountersNested, ClosedBelowThreshold
  <2>2. CASE ~recoveryDue
    BY <1>2, <2>2
    DEF CanExecuteOpen, TypeOK, CountersNested, ClosedBelowThreshold,
        HistoryBalanced, ProbeLimit, ProbesAccounted
  <2> QED
    BY <2>1, <2>2
<1>3. CASE CanExecuteHalfOpen(c)
  <2>1. CASE halfOpenRequestCount < config.HalfOpenMaxRequests
    <3> USE <1>3, <2>1 DEF CanExecuteHalfOpen
    <3>1. TypeOK'
      BY DEF TypeOK, Admit
    <3>2. Cardinality(Running') = Cardinality(Running) + 1
      BY AdmitAddsOne DEF TypeOK
    <3>3. ProbesAccounted'
      BY <3>2, RunningFinite DEF TypeOK, ProbesAccounted
    <3>4. ProbeLimit'
      BY ConfigFacts DEF TypeOK, ProbeLimit
    <3> QED
      BY <3>1, <3>3, <3>4
      DEF TypeOK, CountersNested, ClosedBelowThreshold, HistoryBalanced
  <2>2. CASE ~(halfOpenRequestCount < config.HalfOpenMaxRequests)
    <3> USE <1>3, <2>2 DEF CanExecuteHalfOpen
    <3>1. Running' = Running
      BY DEF Running
    <3> QED
      BY <3>1
      DEF TypeOK, CountersNested, ClosedBelowThreshold,
          HistoryBalanced, ProbeLimit, ProbesAccounted
  <2> QED
    BY <2>1, <2>2
<1> QED
  BY <1>1, <1>2, <1>3

(* RecordSuccess preserves the invariant.                                  *)
LEMMA RecordSuccessIInv ==
    ASSUME IInv, NEW c \in Callers, RecordSuccess(c)
    PROVE  IInv'
<1> USE DEF IInv, RecordSuccess, counts, probes
<1>r. Cardinality(Running') = Cardinality(Running) - 1
  BY RecordRemovesOne DEF TypeOK
<1>1. CASE RecordSuccessClosed
  <2> USE <1>1 DEF RecordSuccessClosed
  <2>1. CASE shouldOpenCircuit(failureCount, 0, totalFailures)
    <3> USE <2>1 DEF transitionToOpen
    <3>e. Entered("OPEN")
      BY EnterFacts, StateNames
    <3>1. HistoryBalanced'
      BY <3>e, StateNames DEF Entered, TypeOK, HistoryBalanced
    <3>2. TypeOK'
      BY <3>e, StateNames DEF Entered, TypeOK
    <3> QED
      BY <3>e, <3>1, <3>2, StateNames
      DEF Entered, TypeOK, CountersNested, ClosedBelowThreshold, ProbeLimit,
          ProbesAccounted
  <2>2. CASE ~shouldOpenCircuit(failureCount, 0, totalFailures)
    BY <2>2
    DEF Stay, TypeOK, CountersNested, ClosedBelowThreshold, HistoryBalanced,
        ProbeLimit, ProbesAccounted
  <2> QED
    BY <2>1, <2>2
<1>2. CASE RecordSuccessHalfOpen
  <2> USE <1>2 DEF RecordSuccessHalfOpen
  <2>1. CASE successCount + 1 >= config.ConsecutiveSuccesses
    <3> USE <2>1 DEF transitionToClosed, resetFailureCount
    <3>e. Entered("CLOSED")
      BY EnterFacts, StateNames
    <3>1. ClosedBelowThreshold'
      BY ConfigFacts DEF TypeOK, ClosedBelowThreshold
    <3>2. HistoryBalanced'
      BY <3>e, StateNames DEF Entered, TypeOK, HistoryBalanced
    <3>3. TypeOK'
      BY <3>e, StateNames DEF Entered, TypeOK
    <3> QED
      BY <3>e, <3>1, <3>2, <3>3, StateNames
      DEF Entered, TypeOK, CountersNested, ProbeLimit, ProbesAccounted
  <2>2. CASE ~(successCount + 1 >= config.ConsecutiveSuccesses)
    <3> USE <2>2 DEF Stay
    <3>1. ProbesAccounted'
      BY <1>r, RunningFinite, ConfigFacts DEF TypeOK, ProbesAccounted
    <3> QED
      BY <3>1
      DEF TypeOK, CountersNested, ClosedBelowThreshold, HistoryBalanced,
          ProbeLimit
  <2> QED
    BY <2>1, <2>2
<1>3. CASE RecordSuccessOpen
  <2> USE <1>3 DEF RecordSuccessOpen, transitionToHalfOpen
  <2>e. Entered("HALF_OPEN")
    BY EnterFacts, StateNames
  <2>1. Cardinality(Running') \in Nat
    BY RecordRemovesOne DEF TypeOK
  <2>2. ProbesAccounted'
    BY <2>1, ConfigFacts DEF TypeOK, ProbesAccounted
  <2>3. ProbeLimit'
    BY ConfigFacts DEF TypeOK, ProbeLimit
  <2>4. HistoryBalanced'
    BY <2>e, StateNames DEF Entered, TypeOK, HistoryBalanced
  <2>5. TypeOK'
    BY <2>e, StateNames DEF Entered, TypeOK
  <2> QED
    BY <2>e, <2>2, <2>3, <2>4, <2>5, StateNames
    DEF Entered, TypeOK, CountersNested, ClosedBelowThreshold
<1> QED
  BY <1>1, <1>2, <1>3

(* RecordFailure preserves the invariant.                                  *)
LEMMA RecordFailureIInv ==
    ASSUME IInv, NEW c \in Callers, RecordFailure(c)
    PROVE  IInv'
<1> DEFINE opens ==
        \/ state = "HALF_OPEN"
        \/ /\ state = "CLOSED"
           /\ shouldOpenCircuit(failureCount + 1, consecutiveFailures + 1,
                                totalFailures + 1)
<1> USE DEF IInv, RecordFailure, counts, probes
<1>1. CASE opens
  <2> USE <1>1
  <2>e. Entered("OPEN")
    BY EnterFacts, StateNames DEF transitionToOpen
  <2>1. HistoryBalanced'
    BY <2>e, StateNames DEF Entered, TypeOK, HistoryBalanced, transitionToOpen
  <2>2. TypeOK'
    <3>1. resetDue' \in BOOLEAN
      OBVIOUS
    <3>2. UNCHANGED <<successCount, halfOpenRequestCount>>
      BY DEF transitionToOpen
    <3> QED
      BY <2>e, <3>1, <3>2, StateNames DEF Entered, TypeOK
  <2> QED
    BY <2>e, <2>1, <2>2, StateNames
    DEF Entered, TypeOK, CountersNested, ClosedBelowThreshold, ProbeLimit,
        ProbesAccounted
<1>2. CASE ~opens
  <2> USE <1>2 DEF Stay
  <2>1. state = "CLOSED" => failureCount + 1 < config.FailureThreshold
    BY ConfigFacts DEF TypeOK, shouldOpenCircuit
  <2>2. ClosedBelowThreshold'
    BY <2>1 DEF TypeOK, ClosedBelowThreshold
  <2>3. TypeOK'
    <3>1. resetDue' \in BOOLEAN
      OBVIOUS
    <3>2. UNCHANGED <<successCount, halfOpenRequestCount, state, recoveryDue,
                      stateTransitions>>
      OBVIOUS
    <3> QED
      BY <3>1, <3>2 DEF TypeOK
  <2> QED
    BY <2>2, <2>3
    DEF TypeOK, CountersNested, HistoryBalanced, ProbeLimit, ProbesAccounted
<1> QED
  BY <1>1, <1>2

(* The operator calls and the passing of time preserve the invariant.      *)
LEMMA OperatorIInv ==
    ASSUME IInv,
           \/ Reset \/ ForceOpen \/ ForceClose \/ UpdateConfig
           \/ RecoveryTimeoutPasses \/ ResetTimeoutPasses
    PROVE  IInv'
<1> USE DEF IInv, Admin, counts, probes, totals
<1>1. CASE Reset
  <2> USE <1>1 DEF Reset, resetFailureCount
  <2>1. TypeOK'
    <3>1. recoveryDue' \in BOOLEAN /\ resetDue' \in BOOLEAN
      OBVIOUS
    <3>2. stateTransitions' \in [States -> Nat]
      OBVIOUS
    <3> QED
      BY <3>1, <3>2, StateNames DEF TypeOK
  <2>2. ClosedBelowThreshold'
    BY ConfigFacts DEF TypeOK, ClosedBelowThreshold
  <2> QED
    BY <2>1, <2>2, StateNames
    DEF CountersNested, HistoryBalanced, ProbeLimit, ProbesAccounted
<1>2. CASE ForceOpen
  <2> USE <1>2 DEF ForceOpen, transitionToOpen
  <2>1. CASE state = "OPEN"
    BY <2>1
    DEF Stay, TypeOK, CountersNested, ClosedBelowThreshold, HistoryBalanced,
        ProbeLimit, ProbesAccounted
  <2>2. CASE state # "OPEN"
    <3> USE <2>2
    <3>e. Entered("OPEN")
      BY EnterFacts, StateNames
    <3>1. HistoryBalanced'
      BY <3>e, StateNames DEF Entered, TypeOK, HistoryBalanced
    <3>2. TypeOK'
      BY <3>e, StateNames DEF Entered, TypeOK
    <3> QED
      BY <3>e, <3>1, <3>2, StateNames
      DEF Entered, TypeOK, CountersNested, ClosedBelowThreshold, ProbeLimit,
          ProbesAccounted
  <2> QED
    BY <2>1, <2>2
<1>3. CASE ForceClose
  <2> USE <1>3 DEF ForceClose
  <2>1. CASE state = "CLOSED"
    BY <2>1
    DEF Stay, TypeOK, CountersNested, ClosedBelowThreshold, HistoryBalanced,
        ProbeLimit, ProbesAccounted
  <2>2. CASE state # "CLOSED"
    <3> USE <2>2 DEF transitionToClosed, resetFailureCount
    <3>e. Entered("CLOSED")
      BY EnterFacts, StateNames
    <3>1. ClosedBelowThreshold'
      BY ConfigFacts DEF TypeOK, ClosedBelowThreshold
    <3>2. HistoryBalanced'
      BY <3>e, StateNames DEF Entered, TypeOK, States, HistoryBalanced
    <3>3. TypeOK'
      BY <3>e, StateNames DEF Entered, TypeOK
    <3> QED
      BY <3>e, <3>1, <3>2, <3>3, StateNames
      DEF Entered, TypeOK, CountersNested, ProbeLimit, ProbesAccounted
  <2> QED
    BY <2>1, <2>2
<1>4. CASE UpdateConfig
  <2>1. Running' = Running
    BY <1>4 DEF UpdateConfig, Running
  <2> QED
    BY <1>4, <2>1
    DEF UpdateConfig, TypeOK, CountersNested, ClosedBelowThreshold,
        HistoryBalanced, ProbeLimit, ProbesAccounted
<1>5. CASE RecoveryTimeoutPasses
  <2>1. Running' = Running
    BY <1>5 DEF RecoveryTimeoutPasses, Running
  <2> QED
    BY <1>5, <2>1
    DEF RecoveryTimeoutPasses, TypeOK, CountersNested, ClosedBelowThreshold,
        HistoryBalanced, ProbeLimit, ProbesAccounted
<1>6. CASE ResetTimeoutPasses
  <2>1. Running' = Running
    BY <1>6 DEF ResetTimeoutPasses, Running
  <2> QED
    BY <1>6, <2>1
    DEF ResetTimeoutPasses, TypeOK, CountersNested, ClosedBelowThreshold,
        HistoryBalanced, ProbeLimit, ProbesAccounted
<1> QED
  BY <1>1, <1>2, <1>3, <1>4, <1>5, <1>6

-----------------------------------------------------------------------------
(* The breaker's invariant holds in every reachable state.                 *)
THEOREM Inductive == Spec => []IInv
<1>1. IInv /\ [Next]_vars => IInv'
  <2> SUFFICES ASSUME IInv, [Next]_vars PROVE IInv'
    OBVIOUS
  <2>1. CASE UNCHANGED vars
    <3>1. Running' = Running
      BY <2>1 DEF vars, Running
    <3> QED
      BY <2>1, <3>1
      DEF vars, counts, probes, totals, IInv, TypeOK, CountersNested,
          ClosedBelowThreshold, HistoryBalanced, ProbeLimit, ProbesAccounted
  <2> QED
    BY <2>1, CanExecuteIInv, RecordSuccessIInv, RecordFailureIInv, OperatorIInv
    DEF Next
<1> QED
  BY InitIInv, <1>1, PTL DEF Spec

(* Type correctness of the breaker's fields under every interleaving.      *)
THEOREM TypeCorrect == Spec => []TypeOK
<1>1. IInv => TypeOK
  BY DEF IInv
<1> QED
  BY Inductive, <1>1, PTL

(* The failure counters stay nested through all the partial resets.        *)
THEOREM Nested == Spec => []CountersNested
<1>1. IInv => CountersNested
  BY DEF IInv
<1> QED
  BY Inductive, <1>1, PTL

(* CLOSED means an empty failure window, or one below a configured         *)
(* FailureThreshold.                                                       *)
THEOREM BelowThreshold == Spec => []ClosedBelowThreshold
<1>1. IInv => ClosedBelowThreshold
  BY DEF IInv
<1> QED
  BY Inductive, <1>1, PTL

(* The transition history is balanced.                                     *)
THEOREM Balanced == Spec => []HistoryBalanced
<1>1. IInv => HistoryBalanced
  BY DEF IInv
<1> QED
  BY Inductive, <1>1, PTL

(* HALF_OPEN never admits more probes than a configured maximum.           *)
THEOREM WithinBudget == Spec => []ProbeLimit
<1>1. IInv => ProbeLimit
  BY DEF IInv
<1> QED
  BY Inductive, <1>1, PTL

(* Only a configuration that grants fewer probes than it (or, after a      *)
(* reconfiguration, another) asks successes for strands the breaker in     *)
(* HALF_OPEN.                                                              *)
THEOREM StrandingExplained == Spec => []StrandedOnlyByConfig
<1>1. IInv => StrandedOnlyByConfig
  <2> SUFFICES ASSUME IInv, state = "HALF_OPEN", Running = {},
                      halfOpenRequestCount >= config.HalfOpenMaxRequests
               PROVE  /\ \E c \in Configs :
                            c.ConsecutiveSuccesses > config.HalfOpenMaxRequests
                      /\ adminOps = 0 =>
                            config.ConsecutiveSuccesses > config.HalfOpenMaxRequests
    BY DEF StrandedOnlyByConfig, NoDeadEnd
  <2>1. Cardinality(Running) = 0
    BY FS_EmptySet
  <2>2. halfOpenRequestCount <= successCount
    BY <2>1 DEF IInv, ProbesAccounted, TypeOK
  <2>3. PICK c \in Configs : successCount < c.ConsecutiveSuccesses
    BY DEF IInv, ProbesAccounted
  <2>4. adminOps = 0 => successCount < config.ConsecutiveSuccesses
    BY DEF IInv, ProbesAccounted
  <2>5. config \in Configs
    BY DEF IInv, TypeOK
  <2> QED
    BY <2>2, <2>3, <2>4, <2>5, ConfigFacts DEF IInv, TypeOK
<1> QED
  BY Inductive, <1>1, PTL

(* A stranded breaker rejects every call and outlasts every timeout; only  *)
(* an operator call leads out of HALF_OPEN then.                           *)
THEOREM NoWayOut == Spec => StrandedForGood
<1>1. IInv /\ [Next]_vars =>
          [~NoDeadEnd /\ adminOps' = adminOps => ~NoDeadEnd']_vars
  <2> SUFFICES ASSUME IInv, Next, ~NoDeadEnd, adminOps' = adminOps
               PROVE  ~NoDeadEnd'
    OBVIOUS
  <2> USE DEF NoDeadEnd
  <2>1. \A c \in Callers : pc[c] = "idle"
    BY DEF Running, IInv, TypeOK
  <2>2. adminOps' # adminOps + 1
    BY DEF IInv, TypeOK
  <2>3. ASSUME NEW c \in Callers, CanExecute(c) PROVE ~NoDeadEnd'
    <3>1. CanExecuteHalfOpen(c)
      BY <2>3 DEF CanExecute, CanExecuteClosed, CanExecuteOpen
    <3>2. ~(halfOpenRequestCount < config.HalfOpenMaxRequests)
      BY ConfigFacts DEF IInv, TypeOK
    <3> QED
      BY <2>3, <3>1, <3>2 DEF CanExecute, CanExecuteHalfOpen, Stay, Running
  <2>4. ASSUME NEW c \in Callers, RecordSuccess(c) \/ RecordFailure(c)
        PROVE  FALSE
    BY <2>1, <2>4 DEF RecordSuccess, RecordFailure
  <2>5. CASE Reset \/ ForceOpen \/ ForceClose \/ UpdateConfig
    BY <2>2, <2>5 DEF Reset, ForceOpen, ForceClose, UpdateConfig, Admin
  <2>6. CASE RecoveryTimeoutPasses \/ ResetTimeoutPasses
    BY <2>6 DEF RecoveryTimeoutPasses, ResetTimeoutPasses, probes, Running
  <2> QED
    BY <2>3, <2>4, <2>5, <2>6 DEF Next
<1> QED
  BY Inductive, <1>1, PTL DEF Spec, StrandedForGood
=============================================================================
